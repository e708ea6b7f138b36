CONSTANTS
    Period = 2
    Tries = 5
    Skew = 5
    Slack = 2
SPECIFICATION FairSpec
INVARIANTS TypeOK NobodyGivesUp GivesUpLate
PROPERTIES EverybodyComesUp

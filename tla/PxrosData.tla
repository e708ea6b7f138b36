------------------------------ MODULE PxrosData ------------------------------
(***************************************************************************)
(* The task local data of the PXROS executor                               *)
(* (src/src/pxros/executor/local_data.rs): the mailbox between a task body *)
(* that polls and the executor that triggers.  A u32 event mask is the set *)
(* of its bits, so `&`, `|`, `^` and `difference` are set operations.  An  *)
(* operator whose name ends in Data returns the record after the call, the *)
(* others are what the call returns.                                       *)
(***************************************************************************)
CONSTANTS
    Bits,           \* the event bits of a PXROS task
    Messages,       \* the message handles
    NoMessage       \* Option::None, not a member of Messages

LocalData ==
    [awaiting        : SUBSET Bits,
     triggered       : SUBSET Bits,
     awaitingMessage : BOOLEAN,
     message         : Messages \cup {NoMessage}]

\* PxrosData::default()
DefaultData ==
    [awaiting |-> {}, triggered |-> {},
     awaitingMessage |-> FALSE, message |-> NoMessage]

(***************************************************************************)
(* poll_event: consumes the triggered bits the caller waits for and        *)
(* registers the others.                                                   *)
(***************************************************************************)
PollEventReady(d, events) == events \subseteq d.triggered

\* Mutant: registers the whole mask, the bits already triggered included.
PollEventRegistersAll(d, events) ==
    [d EXCEPT !.awaiting = @ \cup events]

\* Mutant: overwrites the registration instead of adding to it.
PollEventOverwrites(d, events) ==
    [d EXCEPT !.triggered = @ \ events, !.awaiting = {}]

PollEventData(d, events) ==
    [d EXCEPT !.triggered = @ \ events,
              !.awaiting  = @ \cup (events \ d.triggered)]

(***************************************************************************)
(* poll_message: takes the message and clears the flag, or sets the flag.  *)
(***************************************************************************)
PollMessageReady(d) == d.message # NoMessage

\* Mutant: the flag survives the message that answered it.
PollMessageKeepsFlag(d) ==
    [d EXCEPT !.message = NoMessage, !.awaitingMessage = TRUE]

\* Mutant: an empty slot is not registered.
PollMessageForgetsFlag(d) ==
    [d EXCEPT !.message = NoMessage, !.awaitingMessage = FALSE]

\* Mutant: reads the message without taking it.
PollMessageNoTake(d) ==
    [d EXCEPT !.awaitingMessage = ~PollMessageReady(d)]

PollMessageData(d) ==
    [d EXCEPT !.message = NoMessage,
              !.awaitingMessage = ~PollMessageReady(d)]

(***************************************************************************)
(* trigger_events: hands the awaited bits over to the task.  The assertion *)
(* of line 94 is TriggerAssertion.                                         *)
(***************************************************************************)
Relevant(d, events) == events \cap d.awaiting

TriggerAssertion(d, events) == Relevant(d, events) \cap d.triggered = {}

TriggerEventsData(d, events) ==
    [d EXCEPT !.awaiting  = @ \ events,
              !.triggered = @ \cup Relevant(d, events)]

(***************************************************************************)
(* trigger_message: stores the message if the task awaits one.  The flag   *)
(* stays set and an unread message is overwritten.                         *)
(***************************************************************************)
TriggerMessageData(d, m) ==
    IF d.awaitingMessage THEN [d EXCEPT !.message = m] ELSE d

=============================================================================

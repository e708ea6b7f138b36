---------------------- MODULE PxrosExecutorMessageProofs ----------------------
(***************************************************************************)
(* Where the messages of the executor are, in which order the bodies take  *)
(* them and when one is dropped, for every number of tasks, every message  *)
(* bound and every choice of awaits.                                       *)
(***************************************************************************)
EXTENDS PxrosExecutorProofs

USE NumTasksAssumption, MessagesAssumption, SupportedAssumption,
    AwaitsAssumption, FlagsAssumption
USE DEF Tasks, Messages, NoMessage

(***************************************************************************)
(* wait holds a message only from its receipt to its distribution.         *)
(***************************************************************************)
HeldInv == message # NoMessage => pc \in {"distribute", "panic"}

LEMMA HeldOnlyInWait == Spec => []HeldInv
<1>1. Init => HeldInv
  BY DEF Init, HeldInv
<1>2. HeldInv /\ [Next]_vars => HeldInv'
  <2>. SUFFICES ASSUME HeldInv, [Next]_vars PROVE HeldInv'
    OBVIOUS
  <2>1. CASE \E t \in Tasks : Resume(t) \/ StartAwait(t)
    BY <2>1 DEF Resume, StartAwait, PollAwait, Suspend, HeldInv
  <2>2. CASE SkipTask \/ EndRound \/
             \E t \in Tasks : StartPoll(t) \/ Yield(t) \/ Complete(t) \/ \E u \in Tasks : LocalWake(t, u)
    BY <2>2 DEF SkipTask, EndRound, StartPoll, Yield, Complete, LocalWake, Suspend, execVars, HeldInv
  <2>3. CASE BlockingReceive \/ BlockingError \/ ResetEvents \/ TryMessageReceive \/ Panic \/ Distribute
    BY <2>3 DEF BlockingReceive, BlockingError, ResetEvents, TryMessageReceive, Panic, Distribute,
                Blocked, HeldInv
  <2>4. CASE Environment \/ UNCHANGED vars
    BY <2>4 DEF Environment, Send, Signal, ForeignWake, vars, execVars, HeldInv
  <2>5. QED
    BY <2>1, <2>2, <2>3, <2>4 DEF Next, Run, Wait
<1>3. QED
  BY <1>1, <1>2, PTL DEF Spec

-----------------------------------------------------------------------------
(***************************************************************************)
(* The tasks that have returned are those with a result, and only a task   *)
(* still in the vector is polled.                                          *)
(***************************************************************************)
LiveInv ==
    /\ \A t \in live : results[t] = "none"
    /\ \A t \in Tasks : Polling(t) => t \in live

LEMMA LiveStep ==
    ASSUME TypeOK, LiveInv, [Next]_vars
    PROVE  /\ LiveInv'
           /\ \A t \in Tasks : results[t] # "none" => results'[t] = results[t]
<1>1. CASE UNCHANGED <<live, results>> /\ \A t \in Tasks : Polling(t)' => Polling(t)
  BY <1>1 DEF LiveInv
<1>2. ASSUME NEW t \in Tasks, StartPoll(t)
      PROVE  UNCHANGED <<live, results>> /\ LiveInv'
  BY <1>2 DEF StartPoll, LiveInv, Polling
<1>3. ASSUME NEW t \in Tasks, Resume(t) \/ StartAwait(t) \/ Yield(t)
      PROVE  UNCHANGED <<live, results>> /\ \A u \in Tasks : Polling(u)' => Polling(u)
  BY <1>3 DEF Resume, StartAwait, Yield, PollAwait, Suspend, Polling
<1>4. ASSUME NEW t \in Tasks, Complete(t)
      PROVE  /\ LiveInv'
             /\ \A u \in Tasks : results[u] # "none" => results'[u] = results[u]
  <2>1. PICK r \in {"ok", "err"} : results' = [results EXCEPT ![t] = r]
    BY <1>4 DEF Complete
  <2>2. live' = live \ {t} /\ pc' = "retain" /\ t \in live
    BY <1>4 DEF Complete, RemoveReturned, Suspend, LiveInv, Polling
  <2>3. \A u \in Tasks \ {t} : results'[u] = results[u]
    BY <2>1 DEF TypeOK
  <2>4. QED
    BY <2>2, <2>3 DEF LiveInv, Polling, TypeOK
<1>5. ASSUME NEW t \in Tasks, NEW u \in Tasks, LocalWake(t, u)
      PROVE  UNCHANGED <<live, results, pc, cursor>>
  BY <1>5 DEF LocalWake, execVars
<1>6. CASE SkipTask \/ EndRound \/ Wait
  <2>1. UNCHANGED <<live, results>>
    BY <1>6 DEF SkipTask, EndRound, Wait, BlockingReceive, BlockingError, ResetEvents,
                TryMessageReceive, Panic, Distribute
  <2>2. pc' \notin {"poll", "body"}
    BY <1>6 DEF SkipTask, EndRound, Wait, BlockingReceive, BlockingError, ResetEvents,
                TryMessageReceive, Panic, Distribute
  <2>3. QED
    BY <1>1, <2>1, <2>2 DEF Polling
<1>7. CASE Environment \/ UNCHANGED vars
  <2>1. UNCHANGED <<live, results, pc, cursor>>
    BY <1>7 DEF Environment, Send, Signal, ForeignWake, vars, execVars
  <2>2. QED
    BY <1>1, <2>1 DEF Polling
<1>8. QED
  BY <1>1, <1>2, <1>3, <1>4, <1>5, <1>6, <1>7 DEF Next, Run, Polling

LEMMA LiveCorrect == Spec => []LiveInv
<1>1. Init => LiveInv
  BY DEF Init, LiveInv, Polling
<1>2. TypeOK /\ LiveInv /\ [Next]_vars => LiveInv'
  BY LiveStep
<1>3. QED
  BY <1>1, <1>2, TypeCorrect, PTL DEF Spec

(***************************************************************************)
(* A returned task is never polled again and its result never changes,     *)
(* though the vector shrinks under the traversal.                          *)
(***************************************************************************)
THEOREM ResultsAreFinal == Spec => ReturnedIsFinal
<1>. DEFINE Final == \A t \in Tasks :
                        results[t] # "none" => results'[t] = results[t] /\ ~Polling(t)'
<1>1. TypeOK /\ LiveInv /\ LiveInv' /\ [Next]_vars => [Final]_vars
  <2>. SUFFICES ASSUME TypeOK, LiveInv, LiveInv', [Next]_vars,
                       NEW t \in Tasks, results[t] # "none"
                PROVE  results'[t] = results[t] /\ ~Polling(t)'
    OBVIOUS
  <2>1. results'[t] = results[t]
    BY LiveStep
  <2>2. QED
    BY <2>1 DEF LiveInv
<1>2. QED
  BY <1>1, TypeCorrect, LiveCorrect, PTL DEF Spec, ReturnedIsFinal

(***************************************************************************)
(* Once a task has failed, run polls out the traversal under way and       *)
(* returns: wait is not entered again, so nothing is received any more.    *)
(***************************************************************************)
THEOREM FailureStopsTheRun == Spec => []FailureEndsTheRun
<1>1. Init => FailureEndsTheRun
  BY DEF Init, FailureEndsTheRun
<1>2. TypeOK /\ FailureEndsTheRun /\ [Next]_vars => FailureEndsTheRun'
  <2>. SUFFICES ASSUME TypeOK, FailureEndsTheRun, [Next]_vars PROVE FailureEndsTheRun'
    OBVIOUS
  <2>1. ASSUME NEW t \in Tasks, Complete(t) PROVE FailureEndsTheRun'
    BY <2>1 DEF Complete, Suspend, FailureEndsTheRun
  <2>2. CASE EndRound
    BY <2>2 DEF EndRound, MustReturn, FailureEndsTheRun
  <2>3. CASE SkipTask \/ \E t \in Tasks : StartPoll(t) \/ Resume(t) \/ StartAwait(t) \/ Yield(t)
    BY <2>3 DEF SkipTask, StartPoll, Resume, StartAwait, Yield, PollAwait, Suspend, FailureEndsTheRun
  <2>4. CASE Wait
    BY <2>4 DEF Wait, BlockingReceive, BlockingError, ResetEvents, TryMessageReceive, Panic,
                Distribute, Blocked, FailureEndsTheRun
  <2>5. CASE UNCHANGED <<pc, results>>
    BY <2>5 DEF FailureEndsTheRun
  <2>6. (\E t, u \in Tasks : LocalWake(t, u)) \/ Environment \/ UNCHANGED vars
            => UNCHANGED <<pc, results>>
    BY DEF LocalWake, Environment, Send, Signal, ForeignWake, vars, execVars
  <2>7. QED
    BY <2>1, <2>2, <2>3, <2>4, <2>5, <2>6 DEF Next, Run
<1>3. QED
  BY <1>1, <1>2, TypeCorrect, PTL DEF Spec

(***************************************************************************)
(* What a step does to the messages: nothing, one poll, a receipt, or a    *)
(* distribution.                                                           *)
(***************************************************************************)
Quiet ==
    /\ UNCHANGED <<data, taken, leaked, message, received>>
    /\ sent' \in {sent, sent + 1} /\ live' \subseteq live

Polls ==
    /\ message = NoMessage
    /\ \E t \in live : \E a \in Await : PollAwait(t, a)
    /\ UNCHANGED <<leaked, message, received, sent, live>>

Receives ==
    /\ message = NoMessage /\ message' = received + 1
    /\ received < sent /\ received' = received + 1
    /\ UNCHANGED <<data, taken, leaked, sent, live>>

LEMMA MessageStep ==
    ASSUME TypeOK, HeldInv, LiveInv, [Next]_vars
    PROVE  Quiet \/ Polls \/ Receives \/ Distribute
<1>1. ASSUME NEW t \in Tasks, Resume(t) PROVE Quiet \/ Polls
  <2>1. t \in live /\ await[t] \in Await /\ message = NoMessage
    BY <1>1 DEF HeldInv, LiveInv, Polling, Resume, TypeOK
  <2>2. CASE WaitsEvent(await[t]) \/ WaitsMessage(await[t])
    BY <1>1, <2>1, <2>2 DEF Resume, Polls, kernelVars
  <2>3. CASE ~(WaitsEvent(await[t]) \/ WaitsMessage(await[t]))
    BY <1>1, <2>3 DEF Resume, Quiet, kernelVars
  <2>4. QED
    BY <2>2, <2>3
<1>2. ASSUME NEW t \in Tasks, StartAwait(t) PROVE Polls
  <2>1. t \in live /\ message = NoMessage
    BY <1>2 DEF HeldInv, LiveInv, Polling, StartAwait
  <2>2. PICK a \in Awaits[t] : PollAwait(t, a)
    BY <1>2 DEF StartAwait
  <2>3. QED
    BY <1>2, <2>1, <2>2, AwaitsType DEF StartAwait, Polls, kernelVars
<1>3. CASE SkipTask \/ EndRound \/
           \E t \in Tasks : StartPoll(t) \/ Yield(t) \/ Complete(t) \/ \E u \in Tasks : LocalWake(t, u)
  <2>1. UNCHANGED <<data, taken, leaked, message, received, sent>>
    BY <1>3 DEF SkipTask, EndRound, StartPoll, Yield, Complete, LocalWake,
                execVars, taskVars, kernelVars
  <2>2. live' \subseteq live
    BY <1>3 DEF SkipTask, EndRound, StartPoll, Yield, Complete, RemoveReturned, LocalWake, execVars
  <2>3. QED
    BY <2>1, <2>2 DEF Quiet
<1>4. CASE BlockingReceive \/ TryMessageReceive
  <2>1. message = NoMessage
    BY <1>4 DEF BlockingReceive, TryMessageReceive, Blocked, HeldInv
  <2>2. /\ UNCHANGED <<data, taken, leaked, sent, live>>
        /\ \/ /\ message' = NextMessage
              /\ received' = IF Mailbox = {} THEN received ELSE received + 1
           \/ message' = NoMessage /\ received' = received
    BY <1>4 DEF BlockingReceive, TryMessageReceive, taskVars
  <2>3. CASE Mailbox = {} \/ (message' = NoMessage /\ received' = received)
    BY <2>1, <2>2, <2>3 DEF NextMessage, Quiet
  <2>4. CASE Mailbox # {} /\ ~(message' = NoMessage /\ received' = received)
    <3>1. received < sent
      BY <2>4 DEF Mailbox, TypeOK
    <3>2. QED
      BY <2>1, <2>2, <2>4, <3>1 DEF NextMessage, Receives
  <2>5. QED
    BY <2>3, <2>4
<1>5. CASE BlockingError \/ ResetEvents \/ Panic
  BY <1>5 DEF BlockingError, ResetEvents, Panic, Blocked, HeldInv, Quiet, taskVars, kernelVars
<1>6. CASE Environment \/ UNCHANGED vars
  BY <1>6 DEF Environment, Send, Signal, ForeignWake, Quiet, vars, execVars, taskVars, kernelVars
<1>7. QED
  BY <1>1, <1>2, <1>3, <1>4, <1>5, <1>6 DEF Next, Run, Wait

\* A poll leaves the slot alone, hands its message to the body, or finds it
\* empty; the flag is set whenever the slot is not emptied.
LEMMA PollMessages ==
    ASSUME TypeOK, NEW t \in Tasks, NEW a \in Await, PollAwait(t, a)
    PROVE  /\ \A u \in Tasks \ {t} : data'[u] = data[u]
           /\ \/ /\ data'[t].message = data[t].message /\ taken' = taken
                 /\ data[t].awaitingMessage => data'[t].awaitingMessage
              \/ /\ data[t].message \in Messages /\ data'[t].message = NoMessage
                 /\ taken' = taken \cup {data[t].message}
<1>1. data[t] \in LocalData /\ a.events \in SUBSET Bits
  BY DEF TypeOK, Await
<1>2. data'[t] = DataAfterPoll(t, a) /\ \A u \in Tasks \ {t} : data'[u] = data[u]
  BY DEF PollAwait, TypeOK
<1>. DEFINE d == IF WaitsEvent(a) THEN PollEventData(data[t], a.events) ELSE data[t]
<1>3. d \in LocalData /\ d.message = data[t].message /\ d.awaitingMessage = data[t].awaitingMessage
  BY <1>1, PollEventType DEF PollEventData, LocalData
<1>4. CASE WaitsMessage(a) /\ ~EventArm(t, a)
  <2>1. data'[t] = PollMessageData(d)
    BY <1>2, <1>4 DEF DataAfterPoll
  <2>2. data'[t].message = NoMessage /\ data'[t].awaitingMessage = ~(d.message # NoMessage)
    BY <1>3, <2>1 DEF PollMessageData, PollMessageReady, LocalData
  <2>3. CASE data[t].message = NoMessage
    <3>1. ~MessageArm(t, a)
      BY <2>3 DEF MessageArm, PollMessageReady
    <3>2. QED
      BY <1>2, <1>3, <2>2, <2>3, <3>1 DEF PollAwait
  <2>4. CASE data[t].message # NoMessage
    <3>1. MessageArm(t, a) /\ data[t].message \in Messages
      BY <1>1, <1>4, <2>4 DEF MessageArm, PollMessageReady, LocalData
    <3>2. QED
      BY <1>2, <2>2, <3>1 DEF PollAwait
  <2>5. QED
    BY <2>3, <2>4
<1>5. CASE ~(WaitsMessage(a) /\ ~EventArm(t, a))
  <2>1. data'[t] = d /\ ~MessageArm(t, a)
    BY <1>2, <1>5 DEF DataAfterPoll, MessageArm
  <2>2. QED
    BY <1>2, <1>3, <2>1 DEF PollAwait
<1>6. QED
  BY <1>4, <1>5

\* A distribution stores the message with the one task that awaits messages,
\* where it replaces an unread one, or drops it if there is no such task.
LEMMA DistributeMessages ==
    ASSUME TypeOK, Distribute
    PROVE  /\ message' = NoMessage
           /\ UNCHANGED <<taken, received, sent, live>>
           /\ \A t \in Tasks : data'[t].awaitingMessage = data[t].awaitingMessage
           /\ \/ /\ \A t \in Tasks : data'[t].message = data[t].message
                 /\ leaked' = leaked \cup Held
                 /\ message # NoMessage => Awaiting = {}
              \/ \E r \in live :
                    /\ Awaiting = {r} /\ message \in Messages
                    /\ data'[r].message = message
                    /\ \A t \in Tasks \ {r} : data'[t].message = data[t].message
                    /\ leaked' = leaked \cup ({data[r].message} \ {NoMessage})
<1>1. /\ message' = NoMessage
      /\ UNCHANGED <<taken, received, sent, live>>
      /\ leaked' = leaked \cup Dropped
      /\ data' = [t \in Tasks |-> IF t \in live THEN DataAfterTrigger(t) ELSE data[t]]
      /\ ~Ambiguous
  BY DEF Distribute, kernelVars
<1>2. ASSUME NEW t \in Tasks
      PROVE  LET d == TriggerEventsData(data[t], events)
             IN  d \in LocalData /\ d.message = data[t].message
                 /\ d.awaitingMessage = data[t].awaitingMessage
  <2>1. data[t] \in LocalData
    BY DEF TypeOK
  <2>2. QED
    BY <2>1, TriggerEventsType DEF TriggerEventsData, LocalData, TypeOK
<1>3. ASSUME NEW t \in Tasks
      PROVE  data'[t].awaitingMessage = data[t].awaitingMessage
  BY <1>1, <1>2 DEF DataAfterTrigger, TriggerMessageData, LocalData
<1>4. ASSUME NEW t \in Tasks, t \notin Recipients
      PROVE  data'[t].message = data[t].message
  BY <1>1, <1>2, <1>4 DEF DataAfterTrigger
<1>5. CASE Recipients = {}
  <2>1. leaked' = leaked \cup Held
    BY <1>1, <1>5 DEF Dropped, Held
  <2>2. message # NoMessage => Awaiting = {}
    <3>1. SUFFICES ASSUME message # NoMessage, NEW r \in Awaiting PROVE FALSE
      OBVIOUS
    <3>2. \A u \in Awaiting : u = r
      BY <1>1, <3>1 DEF Ambiguous
    <3>3. r \in 1..NumTasks
      BY DEF Awaiting, TypeOK
    <3>4. r \in Recipients
      BY <3>1, <3>2, <3>3 DEF Recipients
    <3>5. QED
      BY <1>5, <3>4
  <2>3. QED
    BY <1>1, <1>3, <1>4, <1>5, <2>1, <2>2
<1>6. CASE Recipients # {}
  <2>1. PICK r \in Recipients : TRUE
    BY <1>6
  <2>2. /\ r \in live /\ r \in Awaiting /\ message \in Messages
        /\ data[r].awaitingMessage /\ r \in Tasks
    BY DEF Recipients, Awaiting, TypeOK
  <2>3. Awaiting = {r} /\ Recipients = {r}
    BY <1>1, <2>2 DEF Ambiguous, Recipients
  <2>4. data'[r].message = message
    BY <1>1, <1>2, <2>2 DEF DataAfterTrigger, TriggerMessageData, LocalData
  <2>5. leaked' = leaked \cup ({data[r].message} \ {NoMessage})
    BY <1>1, <2>3 DEF Dropped
  <2>6. QED
    BY <1>1, <1>3, <1>4, <2>2, <2>3, <2>4, <2>5
<1>7. QED
  BY <1>5, <1>6

-----------------------------------------------------------------------------
(***************************************************************************)
(* No message is lost, duplicated or stored twice on its way from the      *)
(* mailbox through wait and the slot of a task to its body, or until it is *)
(* dropped.                                                                *)
(***************************************************************************)
\* The task that holds an unread message is the only one that does.
Unshared ==
    \A t, u \in Tasks : (data[t].message = data[u].message /\ t # u) => data[t].message = NoMessage

LEMMA QuietConserves ==
    ASSUME TypeOK, TypeOK', MessagesConserved, Quiet
    PROVE  MessagesConserved'
<1>1. Held' = Held /\ Stored' = Stored /\ taken' = taken /\ leaked' = leaked
  BY DEF Quiet, Held, Stored
<1>2. CASE sent' = sent
  <2>1. Mailbox' = Mailbox
    BY <1>2 DEF Quiet, Mailbox
  <2>2. QED
    BY <1>1, <1>2, <2>1 DEF Quiet, MessagesConserved
<1>3. CASE sent' = sent + 1
  <2>1. sent \in Nat /\ received \in 0..sent /\ sent + 1 \in Messages
    BY <1>3 DEF TypeOK
  <2>2. Mailbox' = Mailbox \cup {sent + 1}
    BY <1>3, <2>1 DEF Quiet, Mailbox
  <2>3. (Messages \cap 1..sent)' = (Messages \cap 1..sent) \cup {sent + 1}
    BY <1>3, <2>1
  <2>4. sent + 1 \notin Messages \cap 1..sent
    BY <2>1
  <2>5. sent + 1 \notin Held \cup Stored \cup taken \cup leaked
    BY <2>4 DEF MessagesConserved
  <2>6. data' = data
    BY DEF Quiet
  <2>7. QED
    BY <1>1, <2>2, <2>3, <2>5, <2>6 DEF MessagesConserved
<1>4. QED
  BY <1>2, <1>3 DEF Quiet

LEMMA PollsConserve ==
    ASSUME TypeOK, MessagesConserved, Polls
    PROVE  MessagesConserved'
<1>1. Held' = Held /\ Mailbox' = Mailbox /\ sent' = sent /\ leaked' = leaked
  BY DEF Polls, Held, Mailbox
<1>2. PICK t \in Tasks, a \in Await : PollAwait(t, a)
  BY DEF Polls, TypeOK
<1>3. \A u \in Tasks \ {t} : data'[u] = data[u]
  BY <1>2, PollMessages
<1>4. CASE data'[t].message = data[t].message /\ taken' = taken
  <2>1. \A u \in Tasks : data'[u].message = data[u].message
    BY <1>3, <1>4
  <2>2. Stored' = Stored
    BY <2>1 DEF Stored
  <2>3. QED
    BY <1>1, <1>4, <2>1, <2>2 DEF MessagesConserved
<1>5. CASE /\ data[t].message \in Messages /\ data'[t].message = NoMessage
           /\ taken' = taken \cup {data[t].message}
  <2>. DEFINE m == data[t].message
  <2>1. m # NoMessage /\ m \in Stored
    BY <1>5 DEF Stored
  <2>2. \A u \in Tasks \ {t} : data[u].message # m
    BY <2>1 DEF MessagesConserved
  <2>3. Stored' = Stored \ {m}
    BY <1>3, <1>5, <2>1, <2>2 DEF Stored
  <2>4. Unshared'
    BY <1>3, <1>5 DEF MessagesConserved, Unshared
  <2>5. QED
    BY <1>1, <1>5, <2>1, <2>3, <2>4 DEF MessagesConserved, Unshared
<1>6. QED
  BY <1>2, <1>4, <1>5, PollMessages

LEMMA ReceivesConserves ==
    ASSUME TypeOK, MessagesConserved, Receives
    PROVE  MessagesConserved'
<1>1. Stored' = Stored /\ sent' = sent /\ leaked' = leaked /\ taken' = taken /\ data' = data
  BY DEF Receives, Stored
<1>2. Held = {} /\ Held' = {received + 1}
  BY DEF Receives, Held, TypeOK
<1>3. Mailbox' = Mailbox \ {received + 1} /\ received + 1 \in Mailbox
  BY DEF Receives, Mailbox, TypeOK
<1>4. QED
  BY <1>1, <1>2, <1>3 DEF MessagesConserved

LEMMA DistributeConserves ==
    ASSUME TypeOK, MessagesConserved, Distribute
    PROVE  MessagesConserved'
<1>1. Held' = {} /\ Mailbox' = Mailbox /\ sent' = sent /\ taken' = taken
  BY DistributeMessages DEF Held, Mailbox
<1>2. CASE (\A t \in Tasks : data'[t].message = data[t].message) /\ leaked' = leaked \cup Held
  <2>1. Stored' = Stored
    BY <1>2 DEF Stored
  <2>2. QED
    BY <1>1, <1>2, <2>1 DEF MessagesConserved
<1>3. ASSUME NEW r \in live, message \in Messages, data'[r].message = message,
             \A t \in Tasks \ {r} : data'[t].message = data[t].message,
             leaked' = leaked \cup ({data[r].message} \ {NoMessage})
      PROVE  MessagesConserved'
  <2>. DEFINE old == {data[r].message} \ {NoMessage}
  <2>1. r \in Tasks /\ Held = {message} /\ message # NoMessage
    <3>1. message # NoMessage
      BY <1>3
    <3>2. QED
      BY <3>1 DEF Held, TypeOK
  <2>2. old \subseteq Stored /\ \A t \in Tasks \ {r} : data[t].message \notin old
    BY <2>1 DEF Stored, MessagesConserved
  <2>3. Stored' = (Stored \ old) \cup {message}
    BY <1>3, <2>1, <2>2 DEF Stored
  <2>4. \A t \in Tasks : data[t].message # message
    <3>1. \A t \in Tasks : data[t].message # NoMessage => data[t].message \in Stored
      BY DEF Stored
    <3>2. QED
      BY <2>1, <3>1 DEF MessagesConserved
  <2>5. Unshared'
    BY <1>3, <2>1, <2>4 DEF MessagesConserved, Unshared
  <2>6. QED
    BY <1>1, <1>3, <2>1, <2>2, <2>3, <2>5 DEF MessagesConserved, Unshared
<1>4. QED
  BY <1>2, <1>3, DistributeMessages

(***************************************************************************)
(* A message is in one place at a time (local_data.rs, mod.rs): RawMessage *)
(* has no Drop, so that an owner that forgot one would lose it unnoticed.  *)
(***************************************************************************)
THEOREM MessagesNeverLost == Spec => []MessagesConserved
<1>1. Init => MessagesConserved
  <2>. SUFFICES ASSUME Init PROVE MessagesConserved
    OBVIOUS
  <2>1. Held = {} /\ Mailbox = {} /\ taken = {} /\ leaked = {} /\ 1..sent = {}
    BY DEF Init, Held, Mailbox
  <2>2. \A t \in Tasks : data[t].message = NoMessage
    BY DEF Init, DefaultData
  <2>3. Stored = {}
    BY <2>2 DEF Stored
  <2>4. QED
    BY <2>1, <2>2, <2>3 DEF MessagesConserved
<1>2. TypeOK /\ TypeOK' /\ HeldInv /\ LiveInv /\ MessagesConserved /\ [Next]_vars
          => MessagesConserved'
  BY MessageStep, QuietConserves, PollsConserve, ReceivesConserves, DistributeConserves
<1>3. QED
  BY <1>1, <1>2, TypeCorrect, HeldOnlyInWait, LiveCorrect, PTL DEF Spec

-----------------------------------------------------------------------------
(***************************************************************************)
(* The bodies take the messages in the order they were sent.  What was     *)
(* taken is older than what wait or a live task holds, and that is no      *)
(* newer than the last message received.  There is one unread message at   *)
(* most, because its holder keeps its flag and would be one of two tasks   *)
(* that await messages: wait panics before it stores a second one.         *)
(***************************************************************************)
Unread == {data[t].message : t \in live} \ {NoMessage}

OrderInv ==
    /\ \A t \in Tasks : data[t].message # NoMessage => data[t].awaitingMessage
    /\ \A t, u \in live :
          data[t].message # NoMessage /\ data[u].message # NoMessage => t = u
    /\ \A m \in taken \cup Held \cup Unread : m <= received
    /\ \A k \in taken : \A m \in Held \cup Unread : k < m

InOrder == \A m \in taken' \ taken : \A k \in taken : k < m

LEMMA QuietOrder ==
    ASSUME OrderInv, Quiet
    PROVE  OrderInv'
<1>1. Unread' \subseteq Unread /\ Held' = Held
  BY DEF Quiet, Unread, Held
<1>2. QED
  BY <1>1 DEF OrderInv, Quiet

LEMMA PollsOrder ==
    ASSUME TypeOK, OrderInv, Polls
    PROVE  OrderInv' /\ InOrder
<1>1. Held' = Held /\ received' = received /\ live' = live
  BY DEF Polls, Held
<1>2. PICK t \in live, a \in Await : PollAwait(t, a)
  BY DEF Polls
<1>3. t \in Tasks
  BY DEF TypeOK
<1>4. \A u \in Tasks \ {t} : data'[u] = data[u]
  BY <1>2, <1>3, PollMessages
<1>5. CASE /\ data'[t].message = data[t].message /\ taken' = taken
           /\ data[t].awaitingMessage => data'[t].awaitingMessage
  <2>1. \A u \in Tasks : data'[u].message = data[u].message
    BY <1>4, <1>5
  <2>2. Unread' = Unread
    BY <1>1, <2>1 DEF Unread, TypeOK
  <2>3. \A u \in Tasks : data[u].awaitingMessage => data'[u].awaitingMessage
    BY <1>4, <1>5
  <2>4. QED
    BY <1>1, <1>5, <2>1, <2>2, <2>3 DEF OrderInv, InOrder, TypeOK
<1>6. CASE /\ data[t].message \in Messages /\ data'[t].message = NoMessage
           /\ taken' = taken \cup {data[t].message}
  <2>1. data[t].message \in Unread
    BY <1>6 DEF Unread
  <2>2. \A u \in live : data'[u].message = NoMessage
    BY <1>3, <1>4, <1>6 DEF OrderInv, TypeOK
  <2>3. Unread' = {}
    BY <1>1, <2>2 DEF Unread
  <2>4. InOrder
    BY <1>6, <2>1 DEF OrderInv, InOrder
  <2>5. \A m \in taken' : m <= received
    BY <1>6, <2>1 DEF OrderInv
  <2>6. Held' = {} /\ \A u \in Tasks : data'[u].message # NoMessage => data'[u].awaitingMessage
    BY <1>1, <1>4, <1>6 DEF Polls, Held, OrderInv
  <2>7. QED
    BY <1>1, <2>2, <2>3, <2>4, <2>5, <2>6 DEF OrderInv
<1>7. QED
  BY <1>2, <1>3, <1>5, <1>6, PollMessages

LEMMA ReceivesOrder ==
    ASSUME TypeOK, OrderInv, Receives
    PROVE  OrderInv'
<1>1. data' = data /\ live' = live /\ taken' = taken /\ Unread' = Unread
  BY DEF Receives, Unread
<1>2. Held' = {received + 1} /\ received' = received + 1 /\ received \in Nat
  BY DEF Receives, Held, TypeOK
<1>3. \A m \in taken \cup Unread : m \in Nat /\ m <= received
  BY DEF OrderInv, Unread, TypeOK, LocalData
<1>4. QED
  BY <1>1, <1>2, <1>3 DEF OrderInv

LEMMA DistributeOrder ==
    ASSUME TypeOK, OrderInv, Distribute
    PROVE  OrderInv'
<1>1. /\ UNCHANGED <<taken, received, live>> /\ Held' = {}
      /\ \A t \in Tasks : data'[t].awaitingMessage = data[t].awaitingMessage
  BY DistributeMessages DEF Held
<1>2. CASE \A t \in Tasks : data'[t].message = data[t].message
  <2>1. live \subseteq Tasks
    BY DEF TypeOK
  <2>2. Unread' = Unread
    BY <1>1, <1>2, <2>1 DEF Unread
  <2>3. QED
    BY <1>1, <1>2, <2>1, <2>2 DEF OrderInv
<1>3. ASSUME NEW r \in live, Awaiting = {r}, message \in Messages,
             data'[r].message = message,
             \A t \in Tasks \ {r} : data'[t].message = data[t].message
      PROVE  OrderInv'
  <2>1. r \in Tasks /\ data[r].awaitingMessage /\ message \in Held
    BY <1>3 DEF Awaiting, Held, TypeOK
  <2>2. \A t \in live \ {r} : data'[t].message = NoMessage
    <3>1. \A t \in live \ {r} : ~data[t].awaitingMessage
      BY <1>3 DEF Awaiting
    <3>2. QED
      BY <1>3, <3>1 DEF OrderInv, TypeOK
  <2>3. Unread' \subseteq Held
    BY <1>1, <1>3, <2>1, <2>2 DEF Unread
  <2>4. \A t \in Tasks : data'[t].message # NoMessage => data'[t].awaitingMessage
    BY <1>1, <1>3, <2>1 DEF OrderInv
  <2>5. QED
    BY <1>1, <2>2, <2>3, <2>4 DEF OrderInv
<1>4. QED
  BY <1>2, <1>3, DistributeMessages

LEMMA OrderStep ==
    ASSUME TypeOK, HeldInv, LiveInv, OrderInv, [Next]_vars
    PROVE  OrderInv' /\ InOrder
<1>1. CASE Quiet
  BY <1>1, QuietOrder DEF Quiet, InOrder
<1>2. CASE Polls
  BY <1>2, PollsOrder
<1>3. CASE Receives
  BY <1>3, ReceivesOrder DEF Receives, InOrder
<1>4. CASE Distribute
  BY <1>4, DistributeOrder, DistributeMessages DEF InOrder
<1>5. QED
  BY <1>1, <1>2, <1>3, <1>4, MessageStep

(***************************************************************************)
(* The bodies take messages in the order of the mailbox, whichever task    *)
(* takes them, though an unread message may be overwritten or die with the *)
(* task that holds it.                                                     *)
(***************************************************************************)
THEOREM MessagesTakenInOrder == Spec => TakenInOrder
<1>1. Init => OrderInv
  <2>. SUFFICES ASSUME Init PROVE OrderInv
    OBVIOUS
  <2>1. \A t \in Tasks : data[t].message = NoMessage
    BY DEF Init, DefaultData
  <2>2. Held = {} /\ Unread = {} /\ taken = {}
    BY <2>1 DEF Init, Held, Unread
  <2>3. QED
    BY <2>1, <2>2 DEF OrderInv, Init
<1>2. TypeOK /\ HeldInv /\ LiveInv /\ OrderInv /\ [Next]_vars => OrderInv' /\ [InOrder]_vars
  BY OrderStep
<1>3. Spec => [][InOrder]_vars
  BY <1>1, <1>2, TypeCorrect, HeldOnlyInWait, LiveCorrect, PTL DEF Spec
<1>4. QED
  BY <1>3 DEF TakenInOrder, InOrder

-----------------------------------------------------------------------------
(***************************************************************************)
(* A live task that waits for a message keeps its flag set, and the message*)
(* that answers it is unread only while the traversal has yet to reach the *)
(* task.  Unlike SleepInv this speaks of woken tasks too: wait may         *)
(* distribute while a task that waits for a message is ready.              *)
(***************************************************************************)
ToBePolled(t) == pc \in {"retain", "poll", "body"} /\ cursor <= t /\ ready[t]

ReaderInv ==
    \A t \in live : WaitsMessage(await[t]) /\ ~Polling(t) =>
        data[t].awaitingMessage /\ (data[t].message = NoMessage \/ ToBePolled(t))

LEMMA PollRegistersReader ==
    ASSUME TypeOK, NEW t \in Tasks, NEW a \in Await, PollAwait(t, a),
           WaitsMessage(await'[t])
    PROVE  data'[t].awaitingMessage /\ data'[t].message = NoMessage
<1>1. data[t] \in LocalData /\ a.events \in SUBSET Bits
  BY DEF TypeOK, Await
<1>2. ~(EventArm(t, a) \/ MessageArm(t, a)) /\ await'[t] = a
  BY DEF PollAwait, WaitsMessage, NoAwait, TypeOK
<1>. DEFINE d == IF WaitsEvent(a) THEN PollEventData(data[t], a.events) ELSE data[t]
<1>3. d \in LocalData /\ d.message = data[t].message
  BY <1>1, PollEventType DEF PollEventData, LocalData
<1>4. data'[t] = PollMessageData(d)
  BY <1>2 DEF PollAwait, DataAfterPoll, TypeOK
<1>5. data[t].message = NoMessage
  BY <1>2 DEF MessageArm, PollMessageReady
<1>6. QED
  BY <1>3, <1>4, <1>5 DEF PollMessageData, PollMessageReady, LocalData

\* What one task's poll leaves to the others.
LEMMA OthersRead ==
    ASSUME TypeOK, ReaderInv, NEW t \in Tasks, Polling(t),
           live' \subseteq live, pc' \in {"retain", "poll", "body"}, cursor' \in {t, t + 1},
           \A u \in Tasks \ {t} :
               data'[u] = data[u] /\ await'[u] = await[u] /\ ready'[u] = ready[u],
           t \in live' /\ WaitsMessage(await'[t]) /\ ~Polling(t)'
               => data'[t].awaitingMessage /\ data'[t].message = NoMessage
    PROVE  ReaderInv'
<1>1. SUFFICES ASSUME NEW u \in live', WaitsMessage(await'[u]), ~Polling(u)'
               PROVE  data'[u].awaitingMessage /\ (data'[u].message = NoMessage \/ ToBePolled(u)')
  BY DEF ReaderInv
<1>2. CASE u = t
  BY <1>1, <1>2
<1>3. CASE u # t
  <2>1. u \in live /\ u \in Tasks /\ t \in 1..NumTasks /\ u \in 1..NumTasks
    BY DEF TypeOK
  <2>2. WaitsMessage(await[u]) /\ ~Polling(u)
    BY <1>1, <1>3, <2>1 DEF Polling
  <2>3. data[u].awaitingMessage /\ (data[u].message = NoMessage \/ ToBePolled(u))
    BY <2>1, <2>2 DEF ReaderInv
  <2>4. ToBePolled(u) => ToBePolled(u)'
    <3>1. cursor = t /\ ready'[u] = ready[u]
      BY <1>3, <2>1 DEF Polling
    <3>2. t <= u => cursor' <= u
      BY <1>3, <2>1
    <3>3. QED
      BY <3>1, <3>2 DEF ToBePolled
  <2>5. QED
    BY <1>3, <2>1, <2>3, <2>4
<1>4. QED
  BY <1>2, <1>3

LEMMA DistributeReads ==
    ASSUME TypeOK, ReaderInv, Distribute
    PROVE  ReaderInv'
<1>1. SUFFICES ASSUME NEW t \in live', WaitsMessage(await'[t])
               PROVE  data'[t].awaitingMessage /\ (data'[t].message = NoMessage \/ ToBePolled(t)')
  BY DEF ReaderInv
<1>2. live' = live /\ await' = await /\ pc = "distribute" /\ t \in Tasks
  BY DEF Distribute, TypeOK
<1>3. data[t].awaitingMessage /\ data[t].message = NoMessage
  BY <1>1, <1>2 DEF ReaderInv, Polling, ToBePolled
<1>4. data'[t].awaitingMessage
  BY <1>2, <1>3, DistributeMessages
<1>5. ASSUME NEW r \in live, Awaiting = {r}, message \in Messages, t = r
      PROVE  ToBePolled(t)'
  <2>1. t \in Recipients
    BY <1>2, <1>5 DEF Recipients
  <2>2. ~KeepWaiting /\ ready'[t]
    BY <1>2, <2>1 DEF KeepWaiting, Distribute, MarkReady
  <2>3. pc' = "retain" /\ cursor' = 1
    BY <2>2 DEF Distribute
  <2>4. QED
    BY <1>2, <2>2, <2>3 DEF ToBePolled
<1>6. data'[t].message = NoMessage \/ ToBePolled(t)'
  BY <1>2, <1>3, <1>5, DistributeMessages
<1>7. QED
  BY <1>4, <1>6

LEMMA ReaderStep ==
    ASSUME TypeOK, LiveInv, ReaderInv, [Next]_vars
    PROVE  ReaderInv'
<1>1. ASSUME UNCHANGED <<live, data, await>>,
             \A t \in live : ready[t] => ready'[t],
             \A t \in Tasks : Polling(t) => Polling(t)',
             \A t \in live : ready[t] /\ ToBePolled(t) /\ ~Polling(t)'
                 => pc' \in {"retain", "poll", "body"} /\ cursor' <= t
      PROVE  ReaderInv'
  BY <1>1 DEF ReaderInv, ToBePolled, TypeOK
<1>2. CASE SkipTask
  <2>1. /\ UNCHANGED <<pc, live, data, await, ready>> /\ cursor' = cursor + 1 /\ cursor \in Nat
        /\ \A t \in live : ready[t] => t # cursor
    BY <1>2 DEF SkipTask, taskVars
  <2>2. \A t \in live : ready[t] /\ cursor <= t => cursor' <= t
    BY <2>1 DEF TypeOK
  <2>3. \A t \in Tasks : ~Polling(t)
    BY <1>2 DEF SkipTask, Polling
  <2>4. QED
    BY <1>1, <2>1, <2>2, <2>3 DEF ToBePolled
<1>3. CASE EndRound
  <2>1. UNCHANGED <<live, data, await, ready>> /\ cursor = NumTasks + 1 /\ pc = "retain"
    BY <1>3 DEF EndRound, taskVars
  <2>2. \A t \in live : ~ToBePolled(t)
    BY <2>1 DEF ToBePolled, TypeOK
  <2>3. QED
    BY <1>1, <2>1, <2>2 DEF Polling
<1>4. ASSUME NEW t \in Tasks, StartPoll(t) PROVE ReaderInv'
  <2>1. /\ UNCHANGED <<live, data, await, cursor>> /\ pc = "retain" /\ pc' = "poll" /\ cursor = t
        /\ \A u \in Tasks \ {t} : ready'[u] = ready[u]
    BY <1>4 DEF StartPoll, TypeOK
  <2>2. \A u \in Tasks \ {t} : ~Polling(u) /\ (ToBePolled(u) => ToBePolled(u)')
    BY <2>1 DEF Polling, ToBePolled
  <2>3. Polling(t)'
    BY <2>1 DEF Polling
  <2>4. QED
    BY <2>1, <2>2, <2>3 DEF ReaderInv, TypeOK
<1>5. ASSUME NEW t \in Tasks, Resume(t) PROVE ReaderInv'
  <2>1. /\ Polling(t) /\ live' = live /\ ready' = ready
        /\ pc' \in {"retain", "body"} /\ cursor' \in {t, t + 1}
        /\ pc' = "body" => cursor' = t
    BY <1>5 DEF Resume, Polling, PollAwait, Suspend
  <2>2. \A u \in Tasks \ {t} : data'[u] = data[u] /\ await'[u] = await[u]
    BY <1>5 DEF Resume, PollAwait, TypeOK
  <2>3. WaitsMessage(await'[t]) => data'[t].awaitingMessage /\ data'[t].message = NoMessage
    <3>1. CASE WaitsEvent(await[t]) \/ WaitsMessage(await[t])
      BY <1>5, <3>1, PollRegistersReader DEF Resume, TypeOK
    <3>2. CASE ~(WaitsEvent(await[t]) \/ WaitsMessage(await[t]))
      BY <1>5, <3>2 DEF Resume, WaitsMessage, NoAwait, TypeOK
    <3>3. QED
      BY <3>1, <3>2
  <2>4. QED
    BY <2>1, <2>2, <2>3, OthersRead
<1>6. ASSUME NEW t \in Tasks, StartAwait(t) PROVE ReaderInv'
  <2>1. PICK a \in Awaits[t] : PollAwait(t, a)
    BY <1>6 DEF StartAwait
  <2>2. /\ Polling(t) /\ live' = live /\ ready' = ready
        /\ pc' \in {"retain", "body"} /\ cursor' \in {t, t + 1}
        /\ pc' = "body" => cursor' = t
    BY <1>6, <2>1 DEF StartAwait, Polling, PollAwait, Suspend
  <2>3. \A u \in Tasks \ {t} : data'[u] = data[u] /\ await'[u] = await[u]
    BY <2>1 DEF PollAwait, TypeOK
  <2>4. WaitsMessage(await'[t]) => data'[t].awaitingMessage /\ data'[t].message = NoMessage
    BY <2>1, AwaitsType, PollRegistersReader
  <2>5. QED
    BY <2>2, <2>3, <2>4, OthersRead
<1>7. ASSUME NEW t \in Tasks, Yield(t) PROVE ReaderInv'
  <2>1. PICK a \in Awaits[t] : a.kind = "yield" /\ await' = [await EXCEPT ![t] = a]
    BY <1>7 DEF Yield
  <2>2. Polling(t) /\ live' = live /\ data' = data /\ pc' = "retain" /\ cursor' = t + 1
    BY <1>7 DEF Yield, Polling, Suspend
  <2>3. \A u \in Tasks \ {t} : ready'[u] = ready[u] /\ await'[u] = await[u]
    BY <1>7, <2>1 DEF Yield, TypeOK
  <2>4. ~WaitsMessage(await'[t])
    BY <2>1 DEF WaitsMessage, TypeOK
  <2>5. QED
    BY <2>2, <2>3, <2>4, OthersRead
<1>8. ASSUME NEW t \in Tasks, Complete(t) PROVE ReaderInv'
  <2>1. /\ Polling(t) /\ live' = live \ {t} /\ UNCHANGED <<ready, data, await>>
        /\ pc' = "retain" /\ cursor' = t + 1
    BY <1>8 DEF Complete, RemoveReturned, Suspend, Polling, taskVars
  <2>2. QED
    BY <2>1, OthersRead
<1>9. ASSUME NEW t \in Tasks, NEW u \in Tasks, LocalWake(t, u) PROVE ReaderInv'
  BY <1>1, <1>9 DEF LocalWake, Polling, ToBePolled, execVars, TypeOK
<1>10. CASE BlockingReceive \/ BlockingError \/ ResetEvents \/ TryMessageReceive \/ Panic
  <2>1. UNCHANGED <<live, data, await, ready>> /\ pc \in {"wait", "try", "distribute"}
    BY <1>10 DEF BlockingReceive, BlockingError, ResetEvents, TryMessageReceive, Panic,
                 Blocked, taskVars
  <2>2. QED
    BY <1>1, <2>1 DEF Polling, ToBePolled
<1>11. CASE Distribute
  BY <1>11, DistributeReads
<1>12. CASE Environment \/ UNCHANGED vars
  BY <1>1, <1>12 DEF Environment, Send, Signal, ForeignWake, Polling, ToBePolled,
                     vars, execVars, taskVars, TypeOK
<1>13. QED
  BY <1>2, <1>3, <1>4, <1>5, <1>6, <1>7, <1>8, <1>9, <1>10, <1>11, <1>12 DEF Next, Run, Wait

(***************************************************************************)
(* A message is dropped only when no live task is suspended on a message   *)
(* await: an unread message is overwritten only in the slot of a task that *)
(* has turned to something else (a select whose event arm won).            *)
(***************************************************************************)
THEOREM OnlyUnawaitedDropped == Spec => DroppedOnlyUnawaited
<1>. DEFINE Unawaited == leaked' # leaked => \A t \in live : ~WaitsMessage(await[t])
<1>1. Init => ReaderInv
  BY DEF Init, ReaderInv, WaitsMessage, NoAwait
<1>2. TypeOK /\ LiveInv /\ ReaderInv /\ [Next]_vars => ReaderInv'
  BY ReaderStep
<1>3. TypeOK /\ HeldInv /\ LiveInv /\ ReaderInv /\ [Next]_vars => [Unawaited]_vars
  <2>. SUFFICES ASSUME TypeOK, HeldInv, LiveInv, ReaderInv, [Next]_vars, leaked' # leaked,
                       NEW t \in live, WaitsMessage(await[t])
                PROVE  FALSE
    OBVIOUS
  <2>1. Distribute
    BY MessageStep DEF Quiet, Polls, Receives
  <2>2. pc = "distribute" /\ t \in Tasks
    BY <2>1 DEF Distribute, TypeOK
  <2>3. t \in Awaiting /\ data[t].message = NoMessage
    BY <2>2 DEF ReaderInv, Polling, ToBePolled, Awaiting
  <2>4. leaked' = leaked
    BY <2>1, <2>3, DistributeMessages DEF Held
  <2>5. QED
    BY <2>4
<1>4. Spec => [][Unawaited]_vars
  BY <1>1, <1>2, <1>3, TypeCorrect, HeldOnlyInWait, LiveCorrect, PTL DEF Spec
<1>5. QED
  BY <1>4 DEF DroppedOnlyUnawaited
=============================================================================

------------------------- MODULE PxrosExecutorProofs -------------------------
(***************************************************************************)
(* Theorems about PxrosExecutor.tla, for every number of tasks, event type,*)
(* message bound and choice of awaits.                                     *)
(***************************************************************************)
EXTENDS PxrosExecutorProperties, TLAPS

USE NumTasksAssumption, MessagesAssumption, SupportedAssumption,
    AwaitsAssumption, FlagsAssumption
USE DEF Tasks, Messages, NoMessage

(***************************************************************************)
(* The calls of local_data.rs keep a task's data well-formed.              *)
(***************************************************************************)
LEMMA PollEventType ==
    ASSUME NEW d \in LocalData, NEW ev \in SUBSET Bits
    PROVE  PollEventData(d, ev) \in LocalData
BY DEF LocalData, PollEventData

LEMMA PollMessageType ==
    ASSUME NEW d \in LocalData
    PROVE  PollMessageData(d) \in LocalData
BY DEF LocalData, PollMessageData, PollMessageReady

LEMMA TriggerEventsType ==
    ASSUME NEW d \in LocalData, NEW ev \in SUBSET Bits
    PROVE  TriggerEventsData(d, ev) \in LocalData
BY DEF LocalData, TriggerEventsData, Relevant

LEMMA TriggerMessageType ==
    ASSUME NEW d \in LocalData, NEW m \in Messages
    PROVE  TriggerMessageData(d, m) \in LocalData
BY DEF LocalData, TriggerMessageData

LEMMA DataAfterPollType ==
    ASSUME TypeOK, NEW t \in Tasks, NEW a \in Await
    PROVE  DataAfterPoll(t, a) \in LocalData
<1>1. data[t] \in LocalData /\ a.events \in SUBSET Bits
  BY DEF TypeOK, Await
<1>2. PollEventData(data[t], a.events) \in LocalData
  BY <1>1, PollEventType
<1>. DEFINE d == IF WaitsEvent(a) THEN PollEventData(data[t], a.events) ELSE data[t]
<1>3. d \in LocalData
  BY <1>1, <1>2
<1>4. PollMessageData(d) \in LocalData
  BY <1>3, PollMessageType
<1>5. QED
  BY <1>3, <1>4 DEF DataAfterPoll

LEMMA DataAfterTriggerType ==
    ASSUME TypeOK, NEW t \in Tasks
    PROVE  DataAfterTrigger(t) \in LocalData
<1>1. TriggerEventsData(data[t], events) \in LocalData
  BY TriggerEventsType DEF TypeOK
<1>2. CASE t \in Recipients
  <2>1. message \in Messages
    BY <1>2 DEF TypeOK, Recipients
  <2>2. TriggerMessageData(TriggerEventsData(data[t], events), message) \in LocalData
    BY <1>1, <2>1, TriggerMessageType
  <2>3. QED
    BY <1>1, <2>2 DEF DataAfterTrigger
<1>3. QED
  BY <1>1, <1>2 DEF DataAfterTrigger

-----------------------------------------------------------------------------
(***************************************************************************)
(* Type correctness of the executor and its environment.                   *)
(***************************************************************************)
LEMMA NoAwaitType == NoAwait \in Await
BY DEF NoAwait, Await

LEMMA DefaultDataType == DefaultData \in LocalData
BY DEF DefaultData, LocalData

LEMMA PollAwaitType ==
    ASSUME TypeOK, NEW t \in Tasks, cursor = t, NEW a \in Await, PollAwait(t, a)
    PROVE  /\ data' \in [Tasks -> LocalData]
           /\ await' \in [Tasks -> Await]
           /\ taken' \in SUBSET Messages
           /\ pc' \in {"retain", "body"}
           /\ cursor' \in 1..(NumTasks + 1)
<1>1. data' \in [Tasks -> LocalData]
  BY DataAfterPollType DEF PollAwait, TypeOK
<1>2. taken' \in SUBSET Messages
  <2>1. data[t].message \in Messages \cup {NoMessage}
    BY DEF TypeOK, LocalData
  <2>2. MessageArm(t, a) => data[t].message \in Messages
    BY <2>1 DEF MessageArm, PollMessageReady
  <2>3. QED
    BY <2>2 DEF PollAwait, TypeOK
<1>3. await' \in [Tasks -> Await]
  BY NoAwaitType DEF PollAwait, TypeOK
<1>4. pc' \in {"retain", "body"} /\ cursor' \in 1..(NumTasks + 1)
  BY DEF PollAwait, Suspend, TypeOK
<1>5. QED
  BY <1>1, <1>2, <1>3, <1>4

LEMMA AwaitsType ==
    ASSUME NEW t \in Tasks, NEW a \in Awaits[t]
    PROVE  a \in Await
OBVIOUS

THEOREM TypeCorrect == Spec => []TypeOK
<1>1. Init => TypeOK
  <2>. SUFFICES ASSUME Init PROVE TypeOK
    OBVIOUS
  <2>1. data \in [Tasks -> LocalData]
    BY DefaultDataType DEF Init
  <2>2. await \in [Tasks -> Await]
    BY NoAwaitType DEF Init
  <2>3. got \in [Tasks -> SUBSET Bits]
    BY DEF Init
  <2>4. /\ cursor \in 1..(NumTasks + 1) /\ sent \in 0..MaxMessages
        /\ received \in 0..sent
    BY DEF Init
  <2>5. QED
    BY <2>1, <2>2, <2>3, <2>4 DEF Init, TypeOK
<1>2. TypeOK /\ [Next]_vars => TypeOK'
  <2>. SUFFICES ASSUME TypeOK, [Next]_vars PROVE TypeOK'
    OBVIOUS
  <2>1. CASE SkipTask
    BY <2>1 DEF TypeOK, SkipTask, taskVars, kernelVars
  <2>2. CASE EndRound
    BY <2>2 DEF TypeOK, EndRound, NoTaskReady, taskVars, kernelVars
  <2>3. ASSUME NEW t \in Tasks, StartPoll(t) PROVE TypeOK'
    BY <2>3 DEF TypeOK, StartPoll, kernelVars
  <2>4. ASSUME NEW t \in Tasks, Resume(t) PROVE TypeOK'
    <3>1. await[t] \in Await
      BY DEF TypeOK
    <3>2. CASE WaitsEvent(await[t]) \/ WaitsMessage(await[t])
      <4>1. PollAwait(t, await[t]) /\ cursor = t
        BY <2>4, <3>2 DEF Resume
      <4>2. QED
        BY <2>4, <3>1, <4>1, PollAwaitType DEF TypeOK, Resume, kernelVars
    <3>3. CASE ~(WaitsEvent(await[t]) \/ WaitsMessage(await[t]))
      BY <2>4, <3>3, NoAwaitType DEF TypeOK, Resume, kernelVars
    <3>4. QED
      BY <3>2, <3>3
  <2>5. ASSUME NEW t \in Tasks, StartAwait(t) PROVE TypeOK'
    <3>1. PICK a \in Awaits[t] :
             /\ got' = [got EXCEPT ![t] = data[t].triggered \cap a.events]
             /\ PollAwait(t, a)
      BY <2>5 DEF StartAwait
    <3>2. a \in Await /\ cursor = t
      BY <2>5, AwaitsType DEF StartAwait
    <3>3. got' \in [Tasks -> SUBSET Bits]
      BY <3>1, <3>2 DEF TypeOK, Await
    <3>4. QED
      BY <2>5, <3>1, <3>2, <3>3, PollAwaitType DEF TypeOK, StartAwait, kernelVars
  <2>6. ASSUME NEW t \in Tasks, Yield(t) PROVE TypeOK'
    <3>1. PICK a \in Awaits[t] : await' = [await EXCEPT ![t] = a]
      BY <2>6 DEF Yield
    <3>2. await' \in [Tasks -> Await]
      BY <3>1, AwaitsType DEF TypeOK
    <3>3. QED
      BY <2>6, <3>2 DEF TypeOK, Yield, Suspend, kernelVars
  <2>7. ASSUME NEW t \in Tasks, Complete(t) PROVE TypeOK'
    BY <2>7 DEF TypeOK, Complete, Suspend, RemoveReturned, taskVars, kernelVars
  <2>8. ASSUME NEW t \in Tasks, NEW u \in Tasks, LocalWake(t, u) PROVE TypeOK'
    BY <2>8 DEF TypeOK, LocalWake, execVars, kernelVars
  <2>9. CASE BlockingReceive
    BY <2>9 DEF TypeOK, BlockingReceive, Mailbox, NextMessage, taskVars
  <2>10. CASE BlockingError
    BY <2>10 DEF TypeOK, BlockingError, taskVars, kernelVars
  <2>11. CASE ResetEvents
    BY <2>11 DEF TypeOK, ResetEvents, ResetMask, taskVars
  <2>12. CASE TryMessageReceive
    <3>1. received' = received \/ (received < sent /\ received' = received + 1)
      BY <2>12 DEF TryMessageReceive, Mailbox, TypeOK
    <3>2. message' \in Messages \cup {NoMessage}
      BY <2>12 DEF TryMessageReceive, Mailbox, NextMessage, Messages, TypeOK
    <3>3. QED
      BY <2>12, <3>1, <3>2 DEF TypeOK, TryMessageReceive, taskVars
  <2>13. CASE Panic
    BY <2>13 DEF TypeOK, Panic, taskVars, kernelVars
  <2>14. CASE Distribute
    <3>1. data' \in [Tasks -> LocalData]
      BY <2>14, DataAfterTriggerType DEF TypeOK, Distribute
    <3>2. leaked' \subseteq Messages
      <4>1. Dropped \subseteq Messages
        BY DEF Dropped, Recipients, Awaiting, TypeOK, LocalData
      <4>2. QED
        BY <2>14, <4>1 DEF Distribute, TypeOK
    <3>3. got' \in [Tasks -> SUBSET Bits] /\ ready' \in [Tasks -> BOOLEAN]
      BY <2>14 DEF TypeOK, Distribute, Relevant, MarkReady, LocalData
    <3>4. QED
      BY <2>14, <3>1, <3>2, <3>3 DEF TypeOK, Distribute, kernelVars
  <2>15. CASE Send
    BY <2>15 DEF TypeOK, Send, execVars, taskVars
  <2>16. ASSUME NEW e \in Bits, Signal(e) PROVE TypeOK'
    BY <2>16 DEF TypeOK, Signal, execVars, taskVars
  <2>17. ASSUME NEW t \in Tasks, ForeignWake(t) PROVE TypeOK'
    BY <2>17 DEF TypeOK, ForeignWake, execVars, kernelVars
  <2>18. CASE UNCHANGED vars
    BY <2>18 DEF TypeOK, vars, execVars, taskVars, kernelVars
  <2>19. QED
    BY <2>1, <2>2, <2>3, <2>4, <2>5, <2>6, <2>7, <2>8, <2>9, <2>10, <2>11, <2>12,
       <2>13, <2>14, <2>15, <2>16, <2>17, <2>18 DEF Next, Run, Wait, Environment
<1>3. QED
  BY <1>1, <1>2, PTL DEF Spec

-----------------------------------------------------------------------------
(***************************************************************************)
(* The task data changes only where a body polls an await and where wait   *)
(* distributes what it received.                                           *)
(***************************************************************************)
LEMMA DataStep ==
    ASSUME TypeOK, [Next]_vars
    PROVE  \/ data' = data
           \/ \E t \in Tasks : \E a \in Await : PollAwait(t, a)
           \/ Distribute
<1>1. CASE \E t \in Tasks : Resume(t)
  <2>1. PICK t \in Tasks : Resume(t)
    BY <1>1
  <2>2. await[t] \in Await
    BY DEF TypeOK
  <2>3. QED
    BY <2>1, <2>2 DEF Resume
<1>2. CASE \E t \in Tasks : StartAwait(t)
  BY <1>2, AwaitsType DEF StartAwait
<1>3. CASE \E t \in Tasks : StartPoll(t) \/ Yield(t) \/ Complete(t) \/ \E u \in Tasks : LocalWake(t, u)
  BY <1>3 DEF StartPoll, Yield, Complete, LocalWake, taskVars
<1>4. CASE SkipTask \/ EndRound \/ BlockingReceive \/ BlockingError \/ ResetEvents
           \/ TryMessageReceive \/ Panic
  BY <1>4 DEF SkipTask, EndRound, BlockingReceive, BlockingError, ResetEvents,
              TryMessageReceive, Panic, taskVars
<1>5. CASE Environment \/ UNCHANGED vars
  BY <1>5 DEF Environment, Send, Signal, ForeignWake, vars, taskVars
<1>6. QED
  BY <1>1, <1>2, <1>3, <1>4, <1>5 DEF Next, Run, Wait

Disjoint(d) == d.awaiting \cap d.triggered = {}

LEMMA PollEventDisjoint ==
    ASSUME NEW d \in LocalData, NEW ev \in SUBSET Bits, Disjoint(d)
    PROVE  Disjoint(PollEventData(d, ev))
BY DEF LocalData, PollEventData, Disjoint

LEMMA PollMessageDisjoint ==
    ASSUME NEW d \in LocalData, Disjoint(d)
    PROVE  Disjoint(PollMessageData(d))
BY DEF LocalData, PollMessageData, Disjoint

LEMMA TriggerDisjoint ==
    ASSUME NEW d \in LocalData, NEW ev \in SUBSET Bits, Disjoint(d)
    PROVE  Disjoint(TriggerEventsData(d, ev))
BY DEF LocalData, TriggerEventsData, Relevant, Disjoint

LEMMA TriggerMessageDisjoint ==
    ASSUME NEW d \in LocalData, NEW m, Disjoint(d)
    PROVE  Disjoint(TriggerMessageData(d, m))
BY DEF LocalData, TriggerMessageData, Disjoint

(***************************************************************************)
(* The assertion of trigger_events (local_data.rs:94) never fails: no bit  *)
(* is awaited and triggered at once, whatever the bodies await.            *)
(***************************************************************************)
THEOREM AssertionNeverFails == Spec => []NeverAwaitedAndTriggered
<1>1. Init => NeverAwaitedAndTriggered
  BY DEF Init, NeverAwaitedAndTriggered, DefaultData
<1>2. TypeOK /\ NeverAwaitedAndTriggered /\ [Next]_vars => NeverAwaitedAndTriggered'
  <2>. SUFFICES ASSUME TypeOK, NeverAwaitedAndTriggered, [Next]_vars
                PROVE  \A t \in Tasks : Disjoint(data'[t])
    BY DEF NeverAwaitedAndTriggered, Disjoint
  <2>1. \A t \in Tasks : data[t] \in LocalData /\ Disjoint(data[t])
    BY DEF TypeOK, NeverAwaitedAndTriggered, Disjoint
  <2>2. CASE data' = data
    BY <2>1, <2>2
  <2>3. ASSUME NEW t \in Tasks, NEW a \in Await, PollAwait(t, a)
        PROVE  \A u \in Tasks : Disjoint(data'[u])
    <3>. DEFINE d == IF WaitsEvent(a) THEN PollEventData(data[t], a.events) ELSE data[t]
    <3>1. a.events \in SUBSET Bits
      BY DEF Await
    <3>2. d \in LocalData /\ Disjoint(d)
      BY <2>1, <3>1, PollEventType, PollEventDisjoint
    <3>3. Disjoint(DataAfterPoll(t, a))
      <4>1. Disjoint(PollMessageData(d))
        BY <3>2, PollMessageDisjoint
      <4>2. QED
        BY <3>2, <4>1 DEF DataAfterPoll
    <3>4. QED
      BY <2>1, <2>3, <3>3 DEF PollAwait, TypeOK
  <2>4. CASE Distribute
    <3>. SUFFICES ASSUME NEW t \in Tasks PROVE Disjoint(DataAfterTrigger(t))
      BY <2>1, <2>4 DEF Distribute
    <3>. DEFINE d == TriggerEventsData(data[t], events)
    <3>1. d \in LocalData /\ Disjoint(d)
      BY <2>1, TriggerEventsType, TriggerDisjoint DEF TypeOK
    <3>2. Disjoint(TriggerMessageData(d, message))
      BY <3>1, TriggerMessageDisjoint
    <3>3. QED
      BY <3>1, <3>2 DEF DataAfterTrigger
  <2>5. QED
    BY <2>2, <2>3, <2>4, DataStep
<1>3. QED
  BY <1>1, <1>2, TypeCorrect, PTL DEF Spec

-----------------------------------------------------------------------------
(***************************************************************************)
(* The permission to block is granted in run and must still be right when  *)
(* wait, having distributed something nobody awaited, goes back to block.  *)
(***************************************************************************)
IdleInv ==
    /\ pc \in {"wait", "distribute"} /\ mayBlock => NoTaskReady
    /\ pc = "try" => ~mayBlock

LEMMA IdleCorrect ==
    ASSUME ~ForeignWakes
    PROVE  Spec => []IdleInv
<1>1. Init => IdleInv
  BY DEF Init, IdleInv
<1>2. TypeOK /\ IdleInv /\ [Next]_vars => IdleInv'
  <2>. SUFFICES ASSUME TypeOK, IdleInv, [Next]_vars PROVE IdleInv'
    OBVIOUS
  <2>1. CASE EndRound
    BY <2>1 DEF EndRound, IdleInv, NoTaskReady, taskVars
  <2>2. CASE BlockingReceive \/ BlockingError
    BY <2>2 DEF BlockingReceive, BlockingError, Blocked, IdleInv, NoTaskReady, taskVars
  <2>3. CASE ResetEvents \/ TryMessageReceive \/ Panic
    <3>1. CASE ResetEvents
      BY <3>1 DEF ResetEvents, IdleInv
    <3>2. CASE TryMessageReceive
      BY <3>2 DEF TryMessageReceive, IdleInv, TypeOK
    <3>3. QED
      BY <2>3, <3>1, <3>2 DEF Panic, IdleInv
  <2>4. CASE Distribute
    <3>1. CASE KeepWaiting
      <4>1. Woken = {} /\ Recipients = {} /\ mayBlock
        BY <3>1 DEF KeepWaiting
      <4>2. ready' = ready /\ live' = live
        BY <2>4, <4>1 DEF Distribute, MarkReady, TypeOK
      <4>3. NoTaskReady
        BY <2>4, <4>1 DEF Distribute, IdleInv
      <4>4. QED
        BY <2>4, <3>1, <4>2, <4>3 DEF Distribute, IdleInv, NoTaskReady
    <3>2. QED
      BY <2>4, <3>1 DEF Distribute, IdleInv
  <2>5. CASE SkipTask \/ \E t \in Tasks :
                StartPoll(t) \/ Yield(t) \/ Complete(t) \/ \E u \in Tasks : LocalWake(t, u)
    BY <2>5 DEF SkipTask, StartPoll, Yield, Complete, LocalWake, Suspend, IdleInv, execVars
  <2>6. CASE \E t \in Tasks : Resume(t) \/ StartAwait(t)
    BY <2>6 DEF Resume, StartAwait, PollAwait, Suspend, IdleInv
  <2>7. CASE Environment \/ UNCHANGED vars
    BY <2>7, ~ForeignWakes DEF Environment, Send, Signal, ForeignWake, IdleInv, NoTaskReady,
                 vars, execVars, taskVars
  <2>8. QED
    BY <2>1, <2>2, <2>3, <2>4, <2>5, <2>6, <2>7 DEF Next, Run, Wait
<1>3. QED
  BY <1>1, <1>2, TypeCorrect, PTL DEF Spec

(***************************************************************************)
(* No lost wakeup: without wakers called from outside the executor, wait   *)
(* blocks only while no task is ready.                                     *)
(***************************************************************************)
THEOREM NoLostWakeup ==
    ASSUME ~ForeignWakes
    PROVE  Spec => []IdleOnlyWhenNothingReady
<1>1. IdleInv => IdleOnlyWhenNothingReady
  BY DEF IdleInv, IdleOnlyWhenNothingReady, Blocked, NoTaskReady
<1>2. Spec => []IdleInv
  BY ~ForeignWakes, IdleCorrect
<1>3. QED
  BY <1>1, <1>2, PTL

-----------------------------------------------------------------------------
(***************************************************************************)
(* Nobody sleeps where nothing that it awaits would wake it.  This         *)
(* invariant holds at every step, not only where wait is entered: a live   *)
(* task that is neither ready nor being polled is registered; and of the   *)
(* bits its await is about, those triggered were delivered to that await.  *)
(***************************************************************************)
TriggeredWasGot(t) ==
    WaitsEvent(await[t]) => data[t].triggered \cap await[t].events \subseteq got[t]

SleepInv ==
    /\ \A t \in Tasks : TriggeredWasGot(t)
    /\ \A t \in live : ~ready[t] /\ ~Polling(t) => Registered(t)

\* An await that stays pending leaves its task registered.
LEMMA PendingRegisters ==
    ASSUME TypeOK, NEW t \in Tasks, NEW a \in Await, PollAwait(t, a),
           WaitsEvent(a) \/ WaitsMessage(a),
           got' \in [Tasks -> SUBSET Bits],
           WaitsEvent(a) => data[t].triggered \cap a.events \subseteq got'[t]
    PROVE  /\ TriggeredWasGot(t)'
           /\ pc' = "body" \/ Registered(t)'
<1>1. data[t] \in LocalData /\ a.events \in SUBSET Bits
  BY DEF TypeOK, Await
<1>2. data'[t] = DataAfterPoll(t, a)
  BY DEF PollAwait, TypeOK
<1>3. CASE EventArm(t, a) \/ MessageArm(t, a)
  <2>1. await'[t] = NoAwait /\ pc' = "body"
    BY <1>3 DEF PollAwait, TypeOK
  <2>2. QED
    BY <2>1 DEF TriggeredWasGot, WaitsEvent, NoAwait
<1>4. CASE ~(EventArm(t, a) \/ MessageArm(t, a))
  <2>1. await'[t] = a
    BY <1>4 DEF PollAwait, TypeOK
  <2>. DEFINE d == IF WaitsEvent(a) THEN PollEventData(data[t], a.events) ELSE data[t]
  <2>2. d \in LocalData
    BY <1>1, PollEventType
  <2>3. d.message = data[t].message
    BY <1>1 DEF PollEventData, LocalData
  <2>4. data'[t] = IF WaitsMessage(a) THEN PollMessageData(d) ELSE d
    BY <1>2, <1>4 DEF DataAfterPoll
  <2>5. data'[t].awaiting = d.awaiting /\ data'[t].triggered = d.triggered
    BY <2>2, <2>4 DEF PollMessageData, LocalData
  <2>6. WaitsEvent(a) => RegisteredForEvents(t)'
    <3>. SUFFICES ASSUME WaitsEvent(a) PROVE RegisteredForEvents(t)'
      OBVIOUS
    <3>1. /\ data'[t].awaiting = data[t].awaiting \cup (a.events \ data[t].triggered)
          /\ data'[t].triggered = data[t].triggered \ a.events
      BY <1>1, <2>5 DEF PollEventData, LocalData
    <3>2. ~(a.events \subseteq data[t].triggered)
      BY <1>4 DEF EventArm, PollEventReady
    <3>3. QED
      BY <2>1, <3>1, <3>2 DEF RegisteredForEvents
  <2>7. WaitsMessage(a) => RegisteredForMessage(t)'
    <3>. SUFFICES ASSUME WaitsMessage(a) PROVE RegisteredForMessage(t)'
      OBVIOUS
    <3>1. d.message = NoMessage
      BY <1>4, <2>3 DEF MessageArm, PollMessageReady
    <3>2. data'[t] = PollMessageData(d)
      BY <2>4
    <3>3. QED
      BY <2>2, <3>1, <3>2 DEF RegisteredForMessage, PollMessageData, PollMessageReady, LocalData
  <2>8. TriggeredWasGot(t)'
    BY <2>1, <2>6 DEF TriggeredWasGot, RegisteredForEvents
  <2>9. QED
    BY <2>1, <2>6, <2>7, <2>8 DEF Registered
<1>5. QED
  BY <1>3, <1>4

\* A poll of one task does not disturb the others.
LEMMA OthersSleep ==
    ASSUME TypeOK, SleepInv, NEW t \in Tasks, Polling(t),
           live' \subseteq live,
           \A u \in Tasks \ {t} :
               /\ ready'[u] = ready[u] /\ data'[u] = data[u]
               /\ await'[u] = await[u] /\ got'[u] = got[u],
           TriggeredWasGot(t)',
           t \in live' => ready'[t] \/ Polling(t)' \/ Registered(t)'
    PROVE  SleepInv'
<1>1. \A u \in Tasks \ {t} : ~Polling(u)
  BY DEF Polling
<1>2. \A u \in Tasks \ {t} : TriggeredWasGot(u)' /\ (Registered(u) => Registered(u)')
  BY DEF SleepInv, TriggeredWasGot, Registered, RegisteredForEvents, RegisteredForMessage
<1>3. \A u \in live' \ {t} : ~ready'[u] => Registered(u)'
  BY <1>1, <1>2 DEF SleepInv, TypeOK
<1>4. QED
  BY <1>2, <1>3 DEF SleepInv, TypeOK

LEMMA DistributeSleeps ==
    ASSUME TypeOK, SleepInv, Distribute
    PROVE  SleepInv'
<1>1. ASSUME NEW t \in Tasks
      PROVE  TriggeredWasGot(t)'
  <2>1. CASE t \in live
    <3>1. data'[t] = DataAfterTrigger(t) /\ got'[t] = got[t] \cup Relevant(data[t], events)
      BY <2>1 DEF Distribute
    <3>2. data[t] \in LocalData
      BY DEF TypeOK
    <3>3. data'[t].triggered = data[t].triggered \cup Relevant(data[t], events)
      BY <3>1, <3>2 DEF DataAfterTrigger, TriggerEventsData, TriggerMessageData, LocalData
    <3>4. QED
      BY <3>1, <3>3 DEF SleepInv, TriggeredWasGot, Distribute
  <2>2. CASE t \notin live
    BY <2>2 DEF SleepInv, TriggeredWasGot, Distribute
  <2>3. QED
    BY <2>1, <2>2
<1>2. ASSUME NEW t \in live, ~ready'[t]
      PROVE  Registered(t)'
  <2>1. t \notin Woken /\ t \notin Recipients /\ ~ready[t] /\ t \in Tasks
    BY <1>2 DEF Distribute, MarkReady, TypeOK
  <2>2. Registered(t)
    BY <2>1 DEF SleepInv, Distribute, Polling
  <2>3. Relevant(data[t], events) = {}
    BY <2>1 DEF Woken
  <2>4. data'[t] = TriggerEventsData(data[t], events) /\ got'[t] = got[t] \cup Relevant(data[t], events)
    BY <2>1 DEF Distribute, DataAfterTrigger
  <2>5. data[t] \in LocalData
    BY <2>1 DEF TypeOK
  <2>6. /\ data'[t].awaiting = data[t].awaiting /\ data'[t].triggered = data[t].triggered
        /\ data'[t].awaitingMessage = data[t].awaitingMessage
        /\ data'[t].message = data[t].message
    BY <2>3, <2>4, <2>5 DEF TriggerEventsData, Relevant, LocalData
  <2>7. await' = await /\ got'[t] = got[t]
    BY <2>3, <2>4 DEF Distribute
  <2>8. QED
    BY <2>2, <2>6, <2>7 DEF Registered, RegisteredForEvents, RegisteredForMessage
<1>3. live' = live
  BY DEF Distribute
<1>4. QED
  BY <1>1, <1>2, <1>3 DEF SleepInv

(***************************************************************************)
(* Whenever the executor waits, whatever is signalled or sent next to a    *)
(* sleeping task wakes it (the sleeper's side of wait, mod.rs:61).         *)
(***************************************************************************)
THEOREM NobodySleepsUnregistered == Spec => []SleepersCanBeWoken
<1>1. Init => SleepInv
  BY DEF Init, SleepInv, TriggeredWasGot, WaitsEvent, NoAwait
<1>2. TypeOK /\ TypeOK' /\ SleepInv /\ [Next]_vars => SleepInv'
  <2>. SUFFICES ASSUME TypeOK, TypeOK', SleepInv, [Next]_vars PROVE SleepInv'
    OBVIOUS
  <2>1. ASSUME UNCHANGED <<live, data, await, got>>,
               \A t \in Tasks : ready[t] => ready'[t],
               \A t \in Tasks : Polling(t) => Polling(t)'
        PROVE  SleepInv'
    BY <2>1 DEF SleepInv, TriggeredWasGot, Registered, RegisteredForEvents,
                RegisteredForMessage, TypeOK
  <2>2. ASSUME NEW t \in Tasks, StartPoll(t) PROVE SleepInv'
    <3>1. Polling(t)' /\ \A u \in Tasks \ {t} : ready'[u] = ready[u]
      BY <2>2 DEF StartPoll, Polling, TypeOK
    <3>2. \A u \in Tasks : ~Polling(u)
      BY <2>2 DEF StartPoll, Polling
    <3>3. UNCHANGED <<live, data, await, got>>
      BY <2>2 DEF StartPoll
    <3>4. QED
      BY <3>1, <3>2, <3>3 DEF SleepInv, TriggeredWasGot, Registered, RegisteredForEvents,
                RegisteredForMessage, TypeOK
  <2>3. ASSUME NEW t \in Tasks, Resume(t) PROVE SleepInv'
    <3>1. Polling(t) /\ live' = live /\ ready' = ready /\ got' = got
      BY <2>3 DEF Resume, Polling
    <3>2. \A u \in Tasks \ {t} : data'[u] = data[u] /\ await'[u] = await[u]
      BY <2>3 DEF Resume, PollAwait, TypeOK
    <3>3. CASE WaitsEvent(await[t]) \/ WaitsMessage(await[t])
      <4>1. PollAwait(t, await[t]) /\ await[t] \in Await /\ cursor = t
        BY <2>3, <3>3 DEF Resume, TypeOK
      <4>2. TriggeredWasGot(t)' /\ (pc' = "body" \/ Registered(t)')
        BY <3>1, <3>3, <4>1, PendingRegisters DEF SleepInv, TriggeredWasGot, TypeOK
      <4>3. pc' = "body" => Polling(t)'
        BY <4>1 DEF PollAwait, Suspend, Polling
      <4>4. QED
        BY <3>1, <3>2, <4>2, <4>3, OthersSleep
    <3>4. CASE ~(WaitsEvent(await[t]) \/ WaitsMessage(await[t]))
      <4>1. Polling(t)' /\ await'[t] = NoAwait
        BY <2>3, <3>4 DEF Resume, Polling, TypeOK
      <4>2. TriggeredWasGot(t)'
        BY <4>1 DEF TriggeredWasGot, WaitsEvent, NoAwait
      <4>3. QED
        BY <3>1, <3>2, <4>1, <4>2, OthersSleep
    <3>5. QED
      BY <3>3, <3>4
  <2>4. ASSUME NEW t \in Tasks, StartAwait(t) PROVE SleepInv'
    <3>1. PICK a \in Awaits[t] :
             /\ WaitsEvent(a) \/ WaitsMessage(a)
             /\ got' = [got EXCEPT ![t] = data[t].triggered \cap a.events]
             /\ PollAwait(t, a)
      BY <2>4 DEF StartAwait
    <3>2. Polling(t) /\ cursor = t /\ live' = live /\ ready' = ready
      BY <2>4 DEF StartAwait, Polling
    <3>3. \A u \in Tasks \ {t} :
             data'[u] = data[u] /\ await'[u] = await[u] /\ got'[u] = got[u]
      BY <3>1 DEF PollAwait, TypeOK
    <3>4. TriggeredWasGot(t)' /\ (pc' = "body" \/ Registered(t)')
      <4>1. a \in Await
        BY AwaitsType
      <4>2. got'[t] = data[t].triggered \cap a.events /\ got' \in [Tasks -> SUBSET Bits]
        BY <3>1 DEF TypeOK
      <4>3. QED
        BY <3>1, <4>1, <4>2, PendingRegisters
    <3>5. pc' = "body" => Polling(t)'
      BY <3>1, <3>2 DEF PollAwait, Suspend, Polling
    <3>6. QED
      BY <3>2, <3>3, <3>4, <3>5, OthersSleep
  <2>5. ASSUME NEW t \in Tasks, Yield(t) PROVE SleepInv'
    <3>1. PICK a \in Awaits[t] : a.kind = "yield" /\ await' = [await EXCEPT ![t] = a]
      BY <2>5 DEF Yield
    <3>2. Polling(t) /\ live' = live /\ data' = data /\ ready'[t]
      BY <2>5 DEF Yield, Polling, TypeOK
    <3>3. \A u \in Tasks \ {t} :
             ready'[u] = ready[u] /\ await'[u] = await[u] /\ got'[u] = got[u]
      BY <2>5, <3>1 DEF Yield, TypeOK
    <3>4. TriggeredWasGot(t)'
      BY <3>1 DEF TriggeredWasGot, WaitsEvent, TypeOK
    <3>5. QED
      BY <3>2, <3>3, <3>4, OthersSleep
  <2>6. ASSUME NEW t \in Tasks, Complete(t) PROVE SleepInv'
    <3>1. Polling(t) /\ live' = live \ {t} /\ UNCHANGED <<ready, data, await, got>>
      BY <2>6 DEF Complete, RemoveReturned, Polling, taskVars
    <3>2. TriggeredWasGot(t)'
      BY <3>1 DEF SleepInv, TriggeredWasGot
    <3>3. QED
      BY <3>1, <3>2, OthersSleep
  <2>7. ASSUME NEW t \in Tasks, NEW u \in Tasks, LocalWake(t, u) PROVE SleepInv'
    BY <2>1, <2>7 DEF LocalWake, Polling, execVars, TypeOK
  <2>8. CASE SkipTask \/ EndRound
    BY <2>1, <2>8 DEF SkipTask, EndRound, Polling, taskVars
  <2>9. CASE BlockingReceive \/ BlockingError \/ ResetEvents \/ TryMessageReceive \/ Panic
    BY <2>1, <2>9 DEF BlockingReceive, BlockingError, ResetEvents, TryMessageReceive, Panic,
                      Blocked, Polling, taskVars
  <2>10. CASE Distribute
    BY <2>10, DistributeSleeps
  <2>11. CASE Environment \/ UNCHANGED vars
    BY <2>1, <2>11 DEF Environment, Send, Signal, ForeignWake, Polling,
                       vars, execVars, taskVars, TypeOK
  <2>12. QED
    BY <2>2, <2>3, <2>4, <2>5, <2>6, <2>7, <2>8, <2>9, <2>10, <2>11 DEF Next, Run, Wait
<1>3. SleepInv => SleepersCanBeWoken
  BY DEF SleepInv, SleepersCanBeWoken, Polling
<1>4. QED
  BY <1>1, <1>2, <1>3, TypeCorrect, PTL DEF Spec

-----------------------------------------------------------------------------
(***************************************************************************)
(* No task sleeps on an await of one bit that was answered: the delivered  *)
(* bit stays triggered until the poll it answers.  (The poll of an await of*)
(* two bits consumes the first to arrive, which the second then misses.)   *)
(***************************************************************************)
AwaitsBit(t) == WaitsEvent(await[t]) /\ OneBit(await[t])

AnsweredInv ==
    \A t \in Tasks : AwaitsBit(t) => got[t] \cap await[t].events \subseteq data[t].triggered

\* A one-bit await that stays pending has got nothing.
LEMMA PendingOneBit ==
    ASSUME TypeOK, NEW t \in Tasks, NEW a \in Await, PollAwait(t, a),
           OneBit(a) => got'[t] \cap a.events \subseteq data[t].triggered
    PROVE  AwaitsBit(t)' => got'[t] \cap await'[t].events \subseteq data'[t].triggered
<1>1. SUFFICES ASSUME AwaitsBit(t)'
               PROVE  await'[t] = a /\ got'[t] \cap a.events = {}
  OBVIOUS
<1>2. await'[t] = a /\ ~EventArm(t, a) /\ WaitsEvent(a) /\ OneBit(a)
  BY <1>1 DEF PollAwait, NoAwait, AwaitsBit, WaitsEvent, TypeOK
<1>3. ~(a.events \subseteq data[t].triggered)
  BY <1>2 DEF EventArm, PollEventReady
<1>4. a.events \cap data[t].triggered = {}
  BY <1>2, <1>3 DEF OneBit
<1>5. QED
  BY <1>2, <1>4

LEMMA AnsweredStep ==
    ASSUME TypeOK, AnsweredInv, [Next]_vars
    PROVE  AnsweredInv'
<1>1. CASE UNCHANGED <<await, got, data>>
  BY <1>1 DEF AnsweredInv, AwaitsBit
<1>2. ASSUME NEW t \in Tasks, Resume(t) PROVE AnsweredInv'
  <2>1. /\ got' = got
        /\ \A u \in Tasks \ {t} : data'[u] = data[u] /\ await'[u] = await[u]
    BY <1>2 DEF Resume, PollAwait, TypeOK
  <2>2. CASE WaitsEvent(await[t]) \/ WaitsMessage(await[t])
    <3>1. PollAwait(t, await[t]) /\ await[t] \in Await
      BY <1>2, <2>2 DEF Resume, TypeOK
    <3>2. CASE WaitsEvent(await[t])
      <4>1. OneBit(await[t]) => got'[t] \cap await[t].events \subseteq data[t].triggered
        BY <2>1, <3>2 DEF AnsweredInv, AwaitsBit
      <4>2. AwaitsBit(t)' => got'[t] \cap await'[t].events \subseteq data'[t].triggered
        BY <3>1, <4>1, PendingOneBit
      <4>3. QED
        BY <2>1, <4>2 DEF AnsweredInv, AwaitsBit
    <3>3. CASE ~WaitsEvent(await[t])
      <4>1. ~AwaitsBit(t)'
        BY <3>1, <3>3 DEF PollAwait, NoAwait, AwaitsBit, WaitsEvent, TypeOK
      <4>2. QED
        BY <2>1, <4>1 DEF AnsweredInv, AwaitsBit
    <3>4. QED
      BY <3>2, <3>3
  <2>3. CASE ~(WaitsEvent(await[t]) \/ WaitsMessage(await[t]))
    <3>1. ~AwaitsBit(t)'
      BY <1>2, <2>3 DEF Resume, NoAwait, AwaitsBit, WaitsEvent, TypeOK
    <3>2. QED
      BY <2>1, <3>1 DEF AnsweredInv, AwaitsBit
  <2>4. QED
    BY <2>2, <2>3
<1>3. ASSUME NEW t \in Tasks, StartAwait(t) PROVE AnsweredInv'
  <2>1. PICK a \in Awaits[t] :
           /\ got' = [got EXCEPT ![t] = data[t].triggered \cap a.events]
           /\ PollAwait(t, a)
    BY <1>3 DEF StartAwait
  <2>2. \A u \in Tasks \ {t} : data'[u] = data[u] /\ await'[u] = await[u] /\ got'[u] = got[u]
    BY <2>1 DEF PollAwait, TypeOK
  <2>3. got'[t] = data[t].triggered \cap a.events /\ a \in Await
    BY <2>1, AwaitsType DEF TypeOK
  <2>4. AwaitsBit(t)' => got'[t] \cap await'[t].events \subseteq data'[t].triggered
    BY <2>1, <2>3, PendingOneBit
  <2>5. QED
    BY <2>2, <2>4 DEF AnsweredInv, AwaitsBit
<1>4. ASSUME NEW t \in Tasks, Yield(t) PROVE AnsweredInv'
  <2>1. PICK a \in Awaits[t] : a.kind = "yield" /\ await' = [await EXCEPT ![t] = a]
    BY <1>4 DEF Yield
  <2>2. data' = data /\ \A u \in Tasks \ {t} : await'[u] = await[u] /\ got'[u] = got[u]
    BY <1>4, <2>1 DEF Yield, TypeOK
  <2>3. ~AwaitsBit(t)'
    BY <2>1 DEF AwaitsBit, WaitsEvent, TypeOK
  <2>4. QED
    BY <2>2, <2>3 DEF AnsweredInv, AwaitsBit
<1>5. CASE Distribute
  <2>1. await' = await
    BY <1>5 DEF Distribute
  <2>2. ASSUME NEW t \in live, t \in Tasks
        PROVE  /\ got'[t] = got[t] \cup Relevant(data[t], events)
               /\ data'[t].triggered = data[t].triggered \cup Relevant(data[t], events)
    <3>1. got'[t] = got[t] \cup Relevant(data[t], events) /\ data'[t] = DataAfterTrigger(t)
      BY <1>5, <2>2 DEF Distribute
    <3>2. data[t] \in LocalData
      BY <2>2 DEF TypeOK
    <3>3. QED
      BY <3>1, <3>2 DEF DataAfterTrigger, TriggerEventsData, TriggerMessageData, LocalData
  <2>3. ASSUME NEW t \in Tasks, t \notin live
        PROVE  got'[t] = got[t] /\ data'[t] = data[t]
    BY <1>5, <2>3 DEF Distribute
  <2>4. QED
    BY <2>1, <2>2, <2>3 DEF AnsweredInv, AwaitsBit
<1>6. CASE \/ \E t \in Tasks : StartPoll(t) \/ Complete(t) \/ \E u \in Tasks : LocalWake(t, u)
           \/ SkipTask \/ EndRound
           \/ BlockingReceive \/ BlockingError \/ ResetEvents \/ TryMessageReceive \/ Panic
           \/ Environment \/ UNCHANGED vars
  <2>1. UNCHANGED <<await, got, data>>
    BY <1>6 DEF StartPoll, Complete, LocalWake, SkipTask, EndRound, BlockingReceive,
                BlockingError, ResetEvents, TryMessageReceive, Panic,
                Environment, Send, Signal, ForeignWake, vars, taskVars
  <2>2. QED
    BY <1>1, <2>1
<1>7. QED
  BY <1>2, <1>3, <1>4, <1>5, <1>6 DEF Next, Run, Wait

(***************************************************************************)
(* Whatever is awaited, dropped and woken, by whomever, an await of one bit*)
(* keeps what poll_event promises (local_data.rs:46): the executor never   *)
(* waits with a task asleep on a bit that was delivered to its await.      *)
(***************************************************************************)
THEOREM AnsweredBitsReturn == Spec => []NoSleepOnAnsweredBit
<1>1. Init => AnsweredInv
  BY DEF Init, AnsweredInv, AwaitsBit, WaitsEvent, NoAwait
<1>2. TypeOK /\ AnsweredInv /\ [Next]_vars => AnsweredInv'
  BY AnsweredStep
<1>3. TypeOK /\ AnsweredInv /\ SleepersCanBeWoken => NoSleepOnAnsweredBit
  <2>. SUFFICES ASSUME TypeOK, AnsweredInv, SleepersCanBeWoken, pc = "wait",
                       NEW t \in live, ~ready[t], OneBit(await[t]), WaitsEvent(await[t])
                PROVE  ~(await[t].events \subseteq got[t])
    BY DEF NoSleepOnAnsweredBit, Answered
  <2>1. RegisteredForEvents(t)
    BY DEF SleepersCanBeWoken, Registered
  <2>2. got[t] \cap await[t].events \subseteq data[t].triggered
    BY DEF AnsweredInv, AwaitsBit, TypeOK
  <2>3. QED
    BY <2>1, <2>2 DEF RegisteredForEvents
<1>4. QED
  BY <1>1, <1>2, <1>3, TypeCorrect, NobodySleepsUnregistered, PTL DEF Spec

-----------------------------------------------------------------------------
(***************************************************************************)
(* The executor implements the contract of WakeContract.tla, its fairness  *)
(* aside: every step of it is one of the contract or leaves the tasks, who *)
(* is woken, who runs, and the mode as they are.                           *)
(***************************************************************************)
Abstract == <<live, WokenTasks, Running, Mode>>

LEMMA AbstractUnchanged ==
    ASSUME UNCHANGED Abstract
    PROVE  [Contract!Next]_(Contract!vars)
BY DEF Abstract, Contract!vars

LEMMA PollStep ==
    ASSUME TypeOK, NEW t \in Tasks, Polling(t),
           UNCHANGED <<live, ready>>,
           (pc' = "body" /\ cursor' = cursor) \/ pc' = "retain"
    PROVE  [Contract!Next]_(Contract!vars)
<1>1. Running = t /\ t # 0 /\ Mode = "active" /\ Mode' = "active" /\ WokenTasks' = WokenTasks
  BY DEF Polling, Running, Mode, Stopped, WokenTasks
<1>2. CASE pc' = "retain"
  <2>1. Running' = 0
    BY <1>2 DEF Running
  <2>2. Contract!Pend
    BY <1>1, <2>1 DEF Contract!Pend
  <2>3. QED
    BY <2>2 DEF Contract!Next
<1>3. CASE pc' = "body" /\ cursor' = cursor
  <2>1. Running' = t
    BY <1>3 DEF Running, Polling
  <2>2. QED
    BY <1>1, <2>1, AbstractUnchanged DEF Abstract
<1>4. QED
  BY <1>2, <1>3

LEMMA RunStep ==
    ASSUME TypeOK, Run
    PROVE  [Contract!Next]_(Contract!vars)
<1>1. CASE SkipTask
  <2>1. UNCHANGED <<live, ready, pc, mayBlock>> /\ pc = "retain"
    BY <1>1 DEF SkipTask, taskVars
  <2>2. QED
    BY <2>1, AbstractUnchanged DEF Abstract, WokenTasks, Running, Mode, Stopped
<1>2. CASE EndRound
  <2>1. UNCHANGED <<live, ready>> /\ Running = 0 /\ Running' = 0 /\ Mode = "active"
    BY <1>2 DEF EndRound, Running, Mode, Stopped, taskVars
  <2>2. WokenTasks' = WokenTasks
    BY <2>1 DEF WokenTasks
  <2>3. CASE MustReturn
    <3>1. Mode' = "stopped"
      BY <1>2, <2>3 DEF EndRound, Mode, Stopped
    <3>2. Contract!Stop
      BY <2>1, <2>2, <3>1 DEF Contract!Stop
    <3>3. QED
      BY <3>2 DEF Contract!Next
  <2>4. CASE ~MustReturn /\ NoTaskReady
    <3>1. Mode' = "idle"
      BY <1>2, <2>4 DEF EndRound, Mode, Stopped
    <3>2. live # {} /\ live \cap WokenTasks = {}
      BY <2>4 DEF MustReturn, NoTaskReady, WokenTasks
    <3>3. Contract!Idle
      BY <2>1, <2>2, <3>1, <3>2 DEF Contract!Idle, Contract!MayIdle
    <3>4. QED
      BY <3>3 DEF Contract!Next
  <2>5. CASE ~MustReturn /\ ~NoTaskReady
    <3>1. pc' = "wait" /\ ~mayBlock'
      BY <1>2, <2>5 DEF EndRound
    <3>2. Mode' = "active"
      BY <3>1 DEF Mode, Stopped
    <3>3. QED
      BY <2>1, <2>2, <3>2, AbstractUnchanged DEF Abstract
  <2>6. QED
    BY <2>3, <2>4, <2>5
<1>3. ASSUME NEW t \in Tasks, StartPoll(t) PROVE [Contract!Next]_(Contract!vars)
  <2>1. live' = live /\ t \in live \cap WokenTasks
    BY <1>3 DEF StartPoll, WokenTasks
  <2>2. Running = 0 /\ Running' = t /\ Mode = "active" /\ Mode' = "active"
    BY <1>3 DEF StartPoll, Running, Mode, Stopped
  <2>3. WokenTasks' = WokenTasks \ {t}
    BY <1>3 DEF StartPoll, WokenTasks, TypeOK
  <2>4. Contract!Dispatch(t)
    BY <2>1, <2>2, <2>3 DEF Contract!Dispatch
  <2>5. QED
    BY <2>4 DEF Contract!Next
<1>4. ASSUME NEW t \in Tasks, Resume(t) \/ StartAwait(t) PROVE [Contract!Next]_(Contract!vars)
  <2>1. Polling(t) /\ UNCHANGED <<live, ready>>
    BY <1>4 DEF Resume, StartAwait, Polling
  <2>2. (pc' = "body" /\ cursor' = cursor) \/ pc' = "retain"
    BY <1>4 DEF Resume, StartAwait, PollAwait, Suspend
  <2>3. QED
    BY <2>1, <2>2, PollStep
<1>5. ASSUME NEW t \in Tasks, Yield(t) PROVE [Contract!Next]_(Contract!vars)
  <2>1. live' = live /\ Running = t /\ t # 0 /\ Running' = 0 /\ Mode = "active" /\ Mode' = "active"
    BY <1>5 DEF Yield, Suspend, Running, Mode, Stopped
  <2>2. WokenTasks' = WokenTasks \cup {t}
    BY <1>5 DEF Yield, WokenTasks, TypeOK
  <2>3. Contract!Pend
    BY <2>1, <2>2 DEF Contract!Pend
  <2>4. QED
    BY <2>3 DEF Contract!Next
<1>6. ASSUME NEW t \in Tasks, Complete(t) PROVE [Contract!Next]_(Contract!vars)
  <2>1. live' = live \ {t} /\ Running = t /\ t # 0 /\ Running' = 0
    BY <1>6 DEF Complete, RemoveReturned, Suspend, Running
  <2>2. Mode = "active" /\ Mode' = "active" /\ WokenTasks' = WokenTasks
    BY <1>6 DEF Complete, Suspend, Mode, Stopped, WokenTasks, taskVars
  <2>3. Contract!Return
    BY <2>1, <2>2 DEF Contract!Return
  <2>4. QED
    BY <2>3 DEF Contract!Next
<1>7. ASSUME NEW t \in Tasks, NEW u \in Tasks, LocalWake(t, u)
      PROVE  [Contract!Next]_(Contract!vars)
  <2>1. UNCHANGED <<live, pc, cursor, mayBlock>> /\ pc = "body"
    BY <1>7 DEF LocalWake, execVars
  <2>2. Running' = Running /\ Mode = "active" /\ Mode' = "active"
    BY <2>1 DEF Running, Mode, Stopped
  <2>3. WokenTasks' = WokenTasks \cup {u}
    BY <1>7 DEF LocalWake, WokenTasks, TypeOK
  <2>4. Contract!Wake
    BY <2>1, <2>2, <2>3 DEF Contract!Wake
  <2>5. QED
    BY <2>4 DEF Contract!Next
<1>8. QED
  BY <1>1, <1>2, <1>3, <1>4, <1>5, <1>6, <1>7 DEF Run

LEMMA WaitStep ==
    ASSUME TypeOK, IdleInv, Wait
    PROVE  [Contract!Next]_(Contract!vars)
<1>1. CASE BlockingReceive \/ BlockingError \/ ResetEvents \/ TryMessageReceive
  <2>1. UNCHANGED <<live, ready, mayBlock>>
    BY <1>1 DEF BlockingReceive, BlockingError, ResetEvents, TryMessageReceive, taskVars
  <2>2. pc \in {"wait", "try"} /\ pc' \in {"try", "distribute"}
    BY <1>1 DEF BlockingReceive, BlockingError, ResetEvents, TryMessageReceive, Blocked
  <2>3. (pc = "try" \/ pc' = "try") => ~mayBlock
    BY <1>1 DEF IdleInv, BlockingReceive, BlockingError, ResetEvents, TryMessageReceive, Blocked
  <2>4. QED
    BY <2>1, <2>2, <2>3, AbstractUnchanged DEF Abstract, WokenTasks, Running, Mode, Stopped
<1>2. CASE Panic
  <2>1. UNCHANGED <<live, ready>> /\ Running = 0 /\ Running' = 0
    BY <1>2 DEF Panic, Running, taskVars
  <2>2. Mode # "stopped" /\ Mode' = "stopped" /\ WokenTasks' = WokenTasks
    BY <1>2, <2>1 DEF Panic, Mode, Stopped, WokenTasks
  <2>3. Contract!Stop
    BY <2>1, <2>2 DEF Contract!Stop
  <2>4. QED
    BY <2>3 DEF Contract!Next
<1>3. CASE Distribute
  <2>. DEFINE ts == Woken \cup Recipients
  <2>1. live' = live /\ mayBlock' = mayBlock /\ Running = 0 /\ Running' = 0 /\ Mode # "stopped"
    BY <1>3 DEF Distribute, Running, Mode, Stopped
  <2>2. WokenTasks' = WokenTasks \cup ts /\ ts \in SUBSET Tasks
    BY <1>3 DEF Distribute, MarkReady, WokenTasks, Woken, Recipients, Awaiting, TypeOK
  <2>3. CASE ts = {}
    <3>1. WokenTasks' = WokenTasks
      BY <2>2, <2>3
    <3>2. Mode' = Mode
      BY <1>3, <2>3 DEF Distribute, KeepWaiting, Mode, Stopped
    <3>3. QED
      BY <2>1, <3>1, <3>2, AbstractUnchanged DEF Abstract
  <2>4. CASE ts # {}
    <3>1. Mode' = "active"
      BY <1>3, <2>4 DEF Distribute, KeepWaiting, Mode, Stopped
    <3>2. Contract!Wake
      BY <2>1, <2>2, <2>4, <3>1 DEF Contract!Wake
    <3>3. QED
      BY <3>2 DEF Contract!Next
  <2>5. QED
    BY <2>3, <2>4
<1>4. QED
  BY <1>1, <1>2, <1>3 DEF Wait

(***************************************************************************)
(* Executor::run, PxrosExecutor::wait and the wakers keep the contract     *)
(* between them: a task runs only after it was woken and alone, never after*)
(* it has returned, and run is idle only while no task is woken.           *)
(***************************************************************************)
THEOREM KeepsWakeContract ==
    ASSUME ~ForeignWakes
    PROVE  Spec => Contract!SafeSpec
<1>1. Init => Contract!Init
  BY DEF Init, Contract!Init, WokenTasks, Running, Mode, Stopped
<1>2. TypeOK /\ IdleInv /\ [Next]_vars => [Contract!Next]_(Contract!vars)
  <2>. SUFFICES ASSUME TypeOK, IdleInv, [Next]_vars
                PROVE  [Contract!Next]_(Contract!vars)
    OBVIOUS
  <2>1. CASE Environment \/ UNCHANGED vars
    <3>1. UNCHANGED <<live, ready, pc, cursor, mayBlock>>
      BY <2>1, ~ForeignWakes DEF Environment, Send, Signal, ForeignWake, vars, execVars, taskVars
    <3>2. QED
      BY <3>1, AbstractUnchanged DEF Abstract, WokenTasks, Running, Mode, Stopped
  <2>2. QED
    BY <2>1, RunStep, WaitStep DEF Next
<1>3. Spec => []IdleInv
  BY ~ForeignWakes, IdleCorrect
<1>4. QED
  BY <1>1, <1>2, <1>3, TypeCorrect, PTL DEF Spec, Contract!SafeSpec

=============================================================================

---------------------------- MODULE RttLoggerProofs ----------------------------
(***************************************************************************)
(* Theorems about RttLogger.tla, for any tasks, cores, priorities, ring    *)
(* size and frame length.                                                  *)
(***************************************************************************)
EXTENDS RttLoggerProperties, TLAPS

USE TasksAssumption, SizeAssumption
    DEF TasksAssumption, SizeAssumption

-----------------------------------------------------------------------------
(***************************************************************************)
(* Type correctness, but for the bytes that the host has read: that they   *)
(* are bytes of frames follows from NothingLost.                           *)
(***************************************************************************)
Cells == Bytes \cup {<<Nobody, 0>>}

Shape ==
    /\ pc \in [Tasks -> Labels]
    /\ doing \in [Tasks -> {"log", "flush"}]
    /\ calls \in [Tasks -> 0..MaxCalls]
    /\ lock \in Tasks \cup {Nobody}
    /\ tick \subseteq Tasks /\ dying \subseteq Tasks
    /\ connected \in BOOLEAN

RingShape ==
    /\ done \in [Tasks -> 0..FrameLen]
    /\ cursor \in [Tasks -> Indices] /\ len \in [Tasks -> 0..FrameLen]
    /\ \A t \in Tasks : pc[t] \in {"copy", "publish"} => done[t] + len[t] <= FrameLen
    /\ ring \in [Indices -> Cells]
    /\ rd \in Indices /\ wr \in Indices
    /\ written \in Seq(Bytes) /\ read \in Seq(Cells)

LEMMA ModBounds == \A i \in Int : i % Size \in Indices
BY DEF Indices

\* A cursor, one that has wrapped, and the distance of two cursors.
LEMMA ModSmall == \A i \in 0..(Size - 1) : i % Size = i
OBVIOUS

LEMMA ModUp == \A i \in Size..(2 * Size - 1) : i % Size = i - Size
OBVIOUS

LEMMA ModDown == \A i \in (-Size)..(-1) : i % Size = i + Size
OBVIOUS

LEMMA Around == \A i \in 0..(Size - 1) : (i + Size) % Size = i
OBVIOUS

LEMMA Distance ==
    ASSUME NEW r \in Indices, NEW w \in Indices
    PROVE  (w - r) % Size = IF r <= w THEN w - r ELSE w - r + Size
BY ModSmall, ModDown DEF Indices

LEMMA Forward ==
    ASSUME NEW r \in Indices, NEW k \in 0..Size
    PROVE  (r + k) % Size = IF r + k < Size THEN r + k ELSE r + k - Size
BY ModSmall, ModUp DEF Indices

LEMMA AppendType ==
    ASSUME NEW S, NEW s \in Seq(S), NEW e \in S
    PROVE  Append(s, e) \in Seq(S) /\ Len(Append(s, e)) = Len(s) + 1
OBVIOUS

LEMMA ConcatType ==
    ASSUME NEW S, NEW s \in Seq(S), NEW u \in Seq(S)
    PROVE  s \o u \in Seq(S) /\ Len(s \o u) = Len(s) + Len(u)
OBVIOUS

\* The bytes that one write adds.
Added(t) == [k \in 1..len[t] |-> <<t, done[t] + k>>]

LEMMA AddedType ==
    ASSUME Shape, RingShape, NEW t \in Tasks, pc[t] \in {"copy", "publish"}
    PROVE  /\ Added(t) \in Seq(Bytes) /\ Len(Added(t)) = len[t]
           /\ \A k \in 1..len[t] : Added(t)[k] = <<t, done[t] + k>>
<1>1. len[t] \in Nat /\ done[t] \in Nat /\ done[t] + len[t] <= FrameLen
  BY DEF RingShape
<1>2. \A k \in 1..len[t] : <<t, done[t] + k>> \in Bytes
  BY <1>1 DEF Bytes
<1>3. QED
  BY <1>1, <1>2 DEF Added

LEMMA LabelFacts == Critical \subseteq Labels /\ {"idle", "acquire", "sleep", "drop", "panicked"} \subseteq Labels
BY DEF Labels

\* The actions that touch neither the ring nor the cursors.
Lockwork(t) ==
    \/ Acquire(t) \/ Backoff(t) \/ TickerFails(t) \/ Wait(t) \/ Drop(t) \/ Reenter(t)
    \/ Flush(t) \/ Release(t) \/ Tick(t) \/ \E op \in {"log", "flush"} : Call(t, op)

Writing(t) == Load(t) \/ Copy(t) \/ Publish(t)

LEMMA ShapeStep == Shape /\ [Next]_vars => Shape'
<1>. SUFFICES ASSUME Shape, [Next]_vars PROVE Shape'
  OBVIOUS
<1>. USE LabelFacts DEF Shape, GoTo, taskVars
<1>1. ASSUME NEW t \in Tasks, Lockwork(t) PROVE Shape'
  <2>1. CASE \E op \in {"log", "flush"} : Call(t, op)
    BY <2>1 DEF Call
  <2>2. CASE Acquire(t)
    BY <2>2 DEF Acquire, Critical
  <2>3. CASE Backoff(t) \/ TickerFails(t)
    BY <2>3 DEF Backoff, StartTicker, TickerFails
  <2>4. CASE Wait(t) \/ Drop(t) \/ Tick(t)
    BY <2>4 DEF Wait, Drop, Tick
  <2>5. CASE Reenter(t) \/ Flush(t)
    BY <2>5 DEF Reenter, Flush, Critical
  <2>6. CASE Release(t)
    BY <2>6 DEF Release
  <2>7. QED
    BY <1>1, <2>1, <2>2, <2>3, <2>4, <2>5, <2>6 DEF Lockwork
<1>2. ASSUME NEW t \in Tasks, Writing(t) PROVE Shape'
  <2>1. /\ UNCHANGED <<doing, calls, lock, tick, dying, connected>>
        /\ \E label \in {"copy", "publish", "release", "load"} :
               pc' = [pc EXCEPT ![t] = label]
    <3>1. CASE Load(t)
      BY <3>1 DEF Load
    <3>2. CASE Copy(t)
      BY <3>2 DEF Copy
    <3>3. CASE Publish(t)
      BY <3>3 DEF Publish
    <3>4. QED
      BY <1>2, <3>1, <3>2, <3>3 DEF Writing
  <2>2. pc' \in [Tasks -> Labels]
    BY <2>1 DEF Critical
  <2>3. QED
    BY <2>1, <2>2
<1>3. CASE HostRead
  BY <1>3 DEF HostRead
<1>4. CASE UNCHANGED vars
  BY <1>4 DEF vars
<1>5. QED
  BY <1>1, <1>2, <1>3, <1>4 DEF Next, Proceed, Lockwork, Writing

LEMMA LockworkUnchanged ==
    ASSUME NEW t \in Tasks, Lockwork(t), Shape, RingShape
    PROVE  /\ UNCHANGED <<cursor, len, ringVars, connected>>
           /\ done' \in [Tasks -> 0..FrameLen]
           /\ \A u \in Tasks : pc'[u] \in {"copy", "publish"} =>
                  (pc'[u] = pc[u] /\ done'[u] = done[u])
<1>. USE DEF Shape, RingShape, GoTo
<1>1. UNCHANGED <<cursor, len, ringVars, connected>>
  BY DEF Lockwork, Acquire, Backoff, TickerFails, Wait, Drop, Reenter, Flush, Release, Tick, Call
<1>2. CASE Acquire(t)
  BY <1>1, <1>2 DEF Acquire
<1>3. CASE ~Acquire(t)
  BY <1>1, <1>3 DEF Lockwork, Backoff, StartTicker, TickerFails, Wait, Drop, Reenter, Flush,
     Release, Tick, Call
<1>4. QED
  BY <1>2, <1>3

\* What there is room for, with a host and without.
LEMMA RoomFacts ==
    ASSUME Shape, RingShape
    PROVE  /\ Room \in Int
           /\ connected => Room <= Size - 1 - ((wr - rd) % Size)
<1>1. rd \in 0..(Size - 1) /\ wr \in 0..(Size - 1)
  BY DEF RingShape, Indices
<1>2. (wr - rd) % Size = IF rd <= wr THEN wr - rd ELSE wr - rd + Size
  BY <1>1, Distance DEF Indices
<1>3. /\ AvailableBufferSize(rd, wr) \in Int
      /\ AvailableBufferSize(rd, wr) <= Size - 1 - ((wr - rd) % Size)
  BY <1>1, <1>2 DEF AvailableBufferSize
<1>4. QED
  BY <1>3 DEF Room

LEMMA LoadFacts ==
    ASSUME Shape, RingShape, NEW t \in Tasks, Load(t)
    PROVE  /\ len'[t] \in 0..FrameLen /\ done[t] + len'[t] <= FrameLen
           /\ len'[t] <= Room
<1>1. Room \in Int /\ Room > 0
  BY RoomFacts DEF Load
<1>2. done[t] \in 0..FrameLen
  BY DEF RingShape
<1>3. len'[t] = Least(FrameLen - done[t], Room)
  BY DEF Load, RingShape
<1>4. QED
  BY <1>1, <1>2, <1>3 DEF Least

LEMMA CopiedFacts ==
    ASSUME Shape, RingShape, NEW t \in Tasks, pc[t] = "copy"
    PROVE  /\ Copied(t) \in [Indices -> Cells]
           /\ \A i \in Indices : Offset(t, i) \in 1..Size
           /\ \A i \in Indices :
                 Copied(t)[i] = IF Offset(t, i) <= len[t] THEN <<t, done[t] + Offset(t, i)>>
                                ELSE ring[i]
<1>1. \A i \in Indices : Offset(t, i) \in 1..Size
  BY DEF Offset, RingShape, Indices
<1>2. len[t] \in Nat /\ done[t] \in Nat /\ done[t] + len[t] <= FrameLen
  BY DEF RingShape
<1>3. \A i \in Indices : Offset(t, i) <= len[t] => <<t, done[t] + Offset(t, i)>> \in Cells
  BY <1>1, <1>2 DEF Cells, Bytes
<1>4. QED
  BY <1>1, <1>3 DEF Copied, RingShape

LEMMA RingShapeStep == Shape /\ RingShape /\ [Next]_vars => RingShape'
<1>. SUFFICES ASSUME Shape, RingShape, [Next]_vars PROVE RingShape'
  OBVIOUS
<1>1. ASSUME NEW t \in Tasks, Lockwork(t) PROVE RingShape'
  BY <1>1, LockworkUnchanged DEF RingShape, ringVars
<1>2. ASSUME NEW t \in Tasks, Load(t) PROVE RingShape'
  <2>1. /\ pc' = [pc EXCEPT ![t] = "copy"] /\ cursor' = [cursor EXCEPT ![t] = wr]
        /\ UNCHANGED <<done, ringVars>>
    BY <1>2 DEF Load, GoTo
  <2>2. len' \in [Tasks -> 0..FrameLen] /\ \A u \in Tasks : u # t => len'[u] = len[u]
    BY <1>2, LoadFacts DEF Load, RingShape
  <2>3. QED
    BY <1>2, <2>1, <2>2, LoadFacts DEF Shape, RingShape, ringVars
<1>3. ASSUME NEW t \in Tasks, Copy(t) PROVE RingShape'
  <2>1. /\ pc' = [pc EXCEPT ![t] = "publish"] /\ pc[t] = "copy" /\ ring' = Copied(t)
        /\ UNCHANGED <<done, cursor, len, rd, wr, written, read>>
    BY <1>3 DEF Copy, GoTo
  <2>2. QED
    BY <2>1, CopiedFacts DEF Shape, RingShape
<1>4. ASSUME NEW t \in Tasks, Publish(t) PROVE RingShape'
  <2>1. /\ pc[t] = "publish" /\ wr' = (cursor[t] + len[t]) % Size
        /\ written' = written \o Added(t)
        /\ done' = [done EXCEPT ![t] = @ + len[t]]
        /\ UNCHANGED <<cursor, len, ring, rd, read>>
        /\ pc' \in {[pc EXCEPT ![t] = "release"], [pc EXCEPT ![t] = "load"]}
    BY <1>4 DEF Publish, Advanced, Added, GoTo
  <2>2. written' \in Seq(Bytes)
    BY <2>1, AddedType, ConcatType DEF RingShape
  <2>3. wr' \in Indices
    <3>1. cursor[t] + len[t] \in Int
      BY DEF RingShape, Indices
    <3>2. QED
      BY <2>1, <3>1, ModBounds
  <2>4. done' \in [Tasks -> 0..FrameLen]
    BY <2>1 DEF RingShape
  <2>5. QED
    BY <2>1, <2>2, <2>3, <2>4 DEF Shape, RingShape
<1>5. CASE HostRead
  <2>1. /\ rd' = (rd + 1) % Size /\ read' = Append(read, ring[rd])
        /\ UNCHANGED <<pc, done, cursor, len, ring, wr, written>>
    BY <1>5 DEF HostRead
  <2>2. rd' \in Indices
    <3>1. rd + 1 \in Int
      BY DEF RingShape, Indices
    <3>2. QED
      BY <2>1, <3>1, ModBounds
  <2>3. read' \in Seq(Cells)
    BY <2>1, AppendType DEF RingShape
  <2>4. QED
    BY <2>1, <2>2, <2>3 DEF RingShape
<1>6. CASE UNCHANGED vars
  BY <1>6 DEF vars, ringVars, RingShape
<1>7. QED
  BY <1>1, <1>2, <1>3, <1>4, <1>5, <1>6 DEF Next, Proceed, Lockwork, Writing

LEMMA ShapeInit == Init => Shape /\ RingShape
<1>. SUFFICES ASSUME Init PROVE Shape /\ RingShape
  OBVIOUS
<1>1. Shape
  <2>1. connected \in BOOLEAN
    BY DEF Init
  <2>2. calls \in [Tasks -> 0..MaxCalls]
    BY DEF Init
  <2>3. /\ pc \in [Tasks -> Labels] /\ doing \in [Tasks -> {"log", "flush"}]
        /\ lock \in Tasks \cup {Nobody} /\ tick \subseteq Tasks /\ dying \subseteq Tasks
    BY LabelFacts DEF Init
  <2>4. QED
    BY <2>1, <2>2, <2>3 DEF Shape
<1>2. written \in Seq(Bytes) /\ read \in Seq(Cells)
  BY DEF Init
<1>3. ring \in [Indices -> Cells] /\ rd \in Indices /\ wr \in Indices
  BY DEF Init, Indices, Cells
<1>4. /\ done \in [Tasks -> 0..FrameLen]
      /\ cursor \in [Tasks -> Indices] /\ len \in [Tasks -> 0..FrameLen]
      /\ \A t \in Tasks : pc[t] = "idle"
  BY DEF Init, Indices
<1>5. QED
  BY <1>1, <1>2, <1>3, <1>4 DEF RingShape

-----------------------------------------------------------------------------
(***************************************************************************)
(* Mutual exclusion: inductive by itself.                                  *)
(***************************************************************************)
LEMMA OneLoggerStep == Shape /\ OneLogger /\ [Next]_vars => OneLogger'
<1>. SUFFICES ASSUME Shape, OneLogger, [Next]_vars PROVE OneLogger'
  OBVIOUS
<1>. USE DEF OneLogger, Critical, GoTo, Shape
<1>1. ASSUME NEW t \in Tasks, Acquire(t) PROVE OneLogger'
  BY <1>1 DEF Acquire, CompareExchange
<1>2. ASSUME NEW t \in Tasks, Release(t) PROVE OneLogger'
  BY <1>2 DEF Release
<1>3. ASSUME NEW t \in Tasks, Lockwork(t), ~Acquire(t), ~Release(t) PROVE OneLogger'
  BY <1>3 DEF Lockwork, Backoff, StartTicker, TickerFails, Wait, Drop, Reenter, Flush,
     Tick, Call
<1>4. ASSUME NEW t \in Tasks, Writing(t) PROVE OneLogger'
  BY <1>4 DEF Writing, Load, Copy, Publish
<1>5. CASE HostRead \/ UNCHANGED vars
  BY <1>5 DEF HostRead, vars
<1>6. QED
  BY <1>1, <1>2, <1>3, <1>4, <1>5 DEF Next, Proceed, Lockwork, Writing

Inv == Shape /\ RingShape /\ OneLogger

LEMMA InvInit == Init => Inv
BY ShapeInit DEF Init, Inv, OneLogger, Critical

LEMMA InvStep == Inv /\ [Next]_vars => Inv'
BY ShapeStep, RingShapeStep, OneLoggerStep DEF Inv

\* No two tasks are ever in the logger, whatever their cores and priorities, panics and
\* reentrant calls included.
THEOREM MutualExclusion == Spec => []OneLogger
<1>1. Inv => OneLogger
  BY DEF Inv
<1>2. QED
  BY <1>1, InvInit, InvStep, PTL DEF Spec

-----------------------------------------------------------------------------
(***************************************************************************)
(* The ring with a host: what the host has read is a prefix of what was    *)
(* written, the ring holds the rest from the read cursor on, and a writer  *)
(* has room for what it copies behind that, wherever either cursor wraps.  *)
(***************************************************************************)
Ahead == (wr - rd) % Size

ReadPrefix ==
    /\ Len(written) = Len(read) + Ahead
    /\ \A k \in 1..Len(read) : read[k] = written[k]

RestInRing == \A k \in 1..Ahead : ring[(rd + k - 1) % Size] = written[Len(read) + k]

WriterHasRoom ==
    \A t \in Tasks : pc[t] \in {"copy", "publish"} =>
        cursor[t] = wr /\ Ahead + len[t] <= Size - 1

CopyInRing ==
    \A t \in Tasks : pc[t] = "publish" =>
        \A k \in 1..len[t] : ring[(wr + k - 1) % Size] = <<t, done[t] + k>>

HostInv ==
    /\ connected => ReadPrefix /\ RestInRing /\ WriterHasRoom /\ CopyInRing
    /\ ~connected => read = <<>>

LEMMA Only ==
    ASSUME Inv, NEW t \in Tasks, pc[t] \in Critical, NEW u \in Tasks, pc[u] \in Critical
    PROVE  u = t
BY DEF Inv, OneLogger

LEMMA AheadFacts ==
    ASSUME Inv
    PROVE  /\ rd \in 0..(Size - 1) /\ wr \in 0..(Size - 1)
           /\ Ahead = IF rd <= wr THEN wr - rd ELSE wr - rd + Size
           /\ Ahead \in 0..(Size - 1)
           /\ Len(read) \in Nat /\ Len(written) \in Nat
<1>1. rd \in 0..(Size - 1) /\ wr \in 0..(Size - 1)
  BY DEF Inv, RingShape, Indices
<1>2. Ahead = IF rd <= wr THEN wr - rd ELSE wr - rd + Size
  BY <1>1, Distance DEF Ahead, Indices
<1>3. Len(read) \in Nat /\ Len(written) \in Nat
  BY DEF Inv, RingShape
<1>4. QED
  BY <1>1, <1>2, <1>3

LEMMA HostInvLockwork ==
    ASSUME Inv, HostInv, NEW t \in Tasks, Lockwork(t)
    PROVE  HostInv'
<1>1. UNCHANGED <<cursor, len, ring, rd, wr, written, read, connected>>
  BY LockworkUnchanged DEF Inv, ringVars
<1>2. \A u \in Tasks : pc'[u] \in {"copy", "publish"} => (pc'[u] = pc[u] /\ done'[u] = done[u])
  BY LockworkUnchanged DEF Inv
<1>3. (ReadPrefix => ReadPrefix') /\ (RestInRing => RestInRing')
  BY <1>1 DEF ReadPrefix, RestInRing, Ahead
<1>4. (WriterHasRoom => WriterHasRoom') /\ (CopyInRing => CopyInRing')
  BY <1>1, <1>2 DEF WriterHasRoom, CopyInRing, Ahead
<1>5. QED
  BY <1>1, <1>3, <1>4 DEF HostInv

LEMMA HostInvLoad ==
    ASSUME Inv, HostInv, NEW t \in Tasks, Load(t)
    PROVE  HostInv'
<1>1. /\ UNCHANGED <<done, ring, rd, wr, written, read, connected>>
      /\ pc' = [pc EXCEPT ![t] = "copy"] /\ cursor' = [cursor EXCEPT ![t] = wr]
      /\ \A u \in Tasks : u # t => len'[u] = len[u]
  BY DEF Load, GoTo, ringVars, Inv, RingShape
<1>2. (ReadPrefix => ReadPrefix') /\ (RestInRing => RestInRing')
  BY <1>1 DEF ReadPrefix, RestInRing, Ahead
<1>3. connected => Ahead + len'[t] <= Size - 1
  <2>1. len'[t] <= Room /\ len'[t] \in Int /\ Room \in Int
    BY LoadFacts, RoomFacts DEF Inv
  <2>2. connected => Room <= Size - 1 - Ahead
    BY RoomFacts DEF Inv, Ahead
  <2>3. Ahead \in Int
    BY AheadFacts
  <2>4. QED
    BY <2>1, <2>2, <2>3
<1>4. connected /\ WriterHasRoom => WriterHasRoom'
  BY <1>1, <1>3 DEF WriterHasRoom, Ahead, Inv, Shape, RingShape
<1>5. CopyInRing => CopyInRing'
  BY <1>1 DEF CopyInRing, Inv, Shape
<1>6. QED
  BY <1>1, <1>2, <1>4, <1>5 DEF HostInv

\* The k-th byte of a copy goes to where the k-th index from the cursor is, and the
\* unread bytes are behind the copy.
LEMMA CopyOffsets ==
    ASSUME Inv, NEW t \in Tasks, cursor[t] = wr
    PROVE  /\ \A k \in 1..Size : (wr + k - 1) % Size \in Indices
                                 /\ Offset(t, (wr + k - 1) % Size) = k
           /\ \A k \in 1..Ahead : (rd + k - 1) % Size \in Indices
                                  /\ Offset(t, (rd + k - 1) % Size) = Size - Ahead + k
<1>. /\ rd \in 0..(Size - 1) /\ wr \in 0..(Size - 1)
     /\ Ahead = IF rd <= wr THEN wr - rd ELSE wr - rd + Size
  BY AheadFacts
<1>1. ASSUME NEW k \in 1..Size
      PROVE  (wr + k - 1) % Size \in Indices /\ Offset(t, (wr + k - 1) % Size) = k
  <2>. DEFINE i == (wr + k - 1) % Size
  <2>0. wr + k - 1 \in Int
    BY AheadFacts
  <2>1. i = IF wr + (k - 1) < Size THEN wr + (k - 1) ELSE wr + (k - 1) - Size
    <3>1. k - 1 \in 0..Size /\ wr + k - 1 = wr + (k - 1)
      OBVIOUS
    <3>2. QED
      BY <3>1, Forward DEF Indices
  <2>2. i \in Indices
    BY <2>0, ModBounds
  <2>3. (i - wr) % Size = IF wr <= i THEN i - wr ELSE i - wr + Size
    BY <2>2, Distance DEF Indices
  <2>4. Offset(t, i) = ((i - wr) % Size) + 1
    BY DEF Offset
  <2>. HIDE DEF i
  <2>5. Offset(t, i) = (IF wr <= i THEN i - wr ELSE i - wr + Size) + 1
    BY <2>3, <2>4
  <2>6. Offset(t, i) = k
    BY <2>1, <2>2, <2>5 DEF Indices
  <2>7. QED
    BY <2>2, <2>6 DEF i
<1>2. ASSUME NEW k \in 1..Ahead
      PROVE  (rd + k - 1) % Size \in Indices
             /\ Offset(t, (rd + k - 1) % Size) = Size - Ahead + k
  <2>. DEFINE i == (rd + k - 1) % Size
  <2>0. rd + k - 1 \in Int
    BY AheadFacts
  <2>1. i = IF rd + (k - 1) < Size THEN rd + (k - 1) ELSE rd + (k - 1) - Size
    <3>1. k - 1 \in 0..Size /\ rd + k - 1 = rd + (k - 1)
      OBVIOUS
    <3>2. QED
      BY <3>1, Forward DEF Indices
  <2>2. i \in Indices
    BY <2>0, ModBounds
  <2>3. (i - wr) % Size = IF wr <= i THEN i - wr ELSE i - wr + Size
    BY <2>2, Distance DEF Indices
  <2>4. Offset(t, i) = ((i - wr) % Size) + 1
    BY DEF Offset
  <2>. HIDE DEF i
  <2>5. Offset(t, i) = (IF wr <= i THEN i - wr ELSE i - wr + Size) + 1
    BY <2>3, <2>4
  <2>6. Offset(t, i) = Size - Ahead + k
    BY <2>1, <2>2, <2>5 DEF Indices
  <2>7. QED
    BY <2>2, <2>6 DEF i
<1>3. QED
  BY <1>1, <1>2

LEMMA HostInvCopy ==
    ASSUME Inv, HostInv, NEW t \in Tasks, Copy(t)
    PROVE  HostInv'
<1>1. /\ UNCHANGED <<done, cursor, len, rd, wr, written, read, connected>>
      /\ pc[t] = "copy" /\ pc' = [pc EXCEPT ![t] = "publish"] /\ ring' = Copied(t)
  BY DEF Copy, GoTo
<1>2. ~connected => HostInv'
  BY <1>1 DEF HostInv
<1>3. ASSUME connected PROVE HostInv'
  <2>1. ReadPrefix /\ RestInRing /\ WriterHasRoom /\ CopyInRing
    BY <1>3 DEF HostInv
  <2>2. cursor[t] = wr /\ Ahead + len[t] <= Size - 1 /\ len[t] \in 0..FrameLen
    BY <1>1, <2>1 DEF WriterHasRoom, Inv, RingShape
  <2>3. ReadPrefix'
    BY <1>1, <2>1 DEF ReadPrefix, Ahead
  <2>4. RestInRing'
    <3>1. ASSUME NEW k \in 1..Ahead
          PROVE  ring'[(rd + k - 1) % Size] = ring[(rd + k - 1) % Size]
      <4>1. Offset(t, (rd + k - 1) % Size) > len[t] /\ (rd + k - 1) % Size \in Indices
        <5>1. /\ (rd + k - 1) % Size \in Indices
              /\ Offset(t, (rd + k - 1) % Size) = Size - Ahead + k
          BY <2>2, CopyOffsets
        <5>2. k \in Int /\ k >= 1 /\ Ahead \in Int /\ len[t] \in Int
          BY <2>2, AheadFacts
        <5>3. Size - Ahead + k > len[t]
          BY <2>2, <5>2
        <5>4. QED
          BY <5>1, <5>3
      <4>2. ~(Offset(t, (rd + k - 1) % Size) <= len[t])
        <5>1. Offset(t, (rd + k - 1) % Size) \in Int /\ len[t] \in Int
          BY <1>1, <2>2, <4>1, CopiedFacts DEF Inv
        <5>2. QED
          BY <4>1, <5>1
      <4>3. QED
        BY <1>1, <4>1, <4>2, CopiedFacts DEF Inv
    <3>2. QED
      BY <1>1, <2>1, <3>1 DEF RestInRing, Ahead
  <2>5. WriterHasRoom'
    BY <1>1, <2>1 DEF WriterHasRoom, Ahead, Inv, Shape
  <2>6. CopyInRing'
    <3>1. \A u \in Tasks : pc'[u] = "publish" => u = t
      BY <1>1, Only DEF Critical, Inv, Shape
    <3>2. ASSUME NEW k \in 1..len[t]
          PROVE  ring'[(wr + k - 1) % Size] = <<t, done[t] + k>>
      <4>1. k \in 1..Size
        BY <2>2, AheadFacts
      <4>2. (wr + k - 1) % Size \in Indices /\ Offset(t, (wr + k - 1) % Size) = k
        BY <2>2, <4>1, CopyOffsets
      <4>3. k <= len[t]
        BY <2>2
      <4>4. QED
        BY <1>1, <4>2, <4>3, CopiedFacts DEF Inv
    <3>3. QED
      BY <1>1, <3>1, <3>2 DEF CopyInRing
  <2>7. QED
    BY <1>1, <1>3, <2>3, <2>4, <2>5, <2>6 DEF HostInv
<1>4. QED
  BY <1>2, <1>3

LEMMA ConcatElements ==
    ASSUME NEW S, NEW s \in Seq(S), NEW u \in Seq(S)
    PROVE  /\ \A k \in 1..Len(s) : (s \o u)[k] = s[k]
           /\ \A k \in 1..Len(u) : (s \o u)[Len(s) + k] = u[k]
OBVIOUS

LEMMA HostInvPublish ==
    ASSUME Inv, HostInv, NEW t \in Tasks, Publish(t)
    PROVE  HostInv'
<1>1. /\ pc[t] = "publish" /\ wr' = (cursor[t] + len[t]) % Size
      /\ written' = written \o Added(t)
      /\ UNCHANGED <<cursor, len, ring, rd, read, connected>>
      /\ \A u \in Tasks : pc'[u] \in {"copy", "publish"} => u # t /\ pc'[u] = pc[u]
  BY DEF Publish, Advanced, Added, GoTo, Inv, Shape
<1>2. ~connected => HostInv'
  BY <1>1 DEF HostInv
<1>3. ASSUME connected PROVE HostInv'
  <2>1. ReadPrefix /\ RestInRing /\ WriterHasRoom /\ CopyInRing
    BY <1>3 DEF HostInv
  <2>2. cursor[t] = wr /\ Ahead + len[t] <= Size - 1 /\ len[t] \in 0..FrameLen
    BY <1>1, <2>1 DEF WriterHasRoom, Inv, RingShape
  <2>3. /\ Added(t) \in Seq(Bytes) /\ Len(Added(t)) = len[t]
        /\ \A k \in 1..len[t] : Added(t)[k] = <<t, done[t] + k>>
        /\ written \in Seq(Bytes)
    BY <1>1, AddedType DEF Inv, RingShape
  <2>4. /\ Len(written') = Len(written) + len[t]
        /\ \A k \in 1..Len(written) : written'[k] = written[k]
        /\ \A k \in 1..len[t] : written'[Len(written) + k] = <<t, done[t] + k>>
    BY <1>1, <2>3, ConcatType, ConcatElements
  <2>5. wr' = (IF wr + len[t] < Size THEN wr + len[t] ELSE wr + len[t] - Size)
        /\ wr' \in Indices
    <3>1. len[t] \in 0..Size
      BY <2>2, AheadFacts
    <3>2. wr \in Indices /\ wr + len[t] \in Int
      BY <2>2, AheadFacts DEF Indices
    <3>3. wr' = (wr + len[t]) % Size
      BY <1>1, <2>2
    <3>4. QED
      BY <3>1, <3>2, <3>3, Forward, ModBounds
  <2>6. Ahead' = Ahead + len[t]
    <3>1. Ahead' = IF rd <= wr' THEN wr' - rd ELSE wr' - rd + Size
      BY <1>1, <2>5, Distance, AheadFacts DEF Ahead, Indices
    <3>2. /\ rd \in 0..(Size - 1) /\ wr \in 0..(Size - 1) /\ len[t] \in 0..(Size - 1)
          /\ Ahead = IF rd <= wr THEN wr - rd ELSE wr - rd + Size
      BY <2>2, AheadFacts
    <3>3. CASE rd <= wr
      <4>1. Ahead = wr - rd
        BY <3>2, <3>3
      <4>2. CASE wr + len[t] < Size
        BY <2>5, <3>1, <3>2, <3>3, <4>1, <4>2
      <4>3. CASE wr + len[t] >= Size
        BY <2>2, <2>5, <3>1, <3>2, <3>3, <4>1, <4>3
      <4>4. QED
        BY <3>2, <4>2, <4>3
    <3>4. CASE ~(rd <= wr)
      <4>1. Ahead = wr - rd + Size
        BY <3>2, <3>4
      <4>2. wr + len[t] < rd
        BY <2>2, <3>2, <4>1
      <4>3. QED
        BY <2>5, <3>1, <3>2, <4>1, <4>2
    <3>5. QED
      BY <3>3, <3>4
  <2>7. ReadPrefix'
    <3>1. Len(written') = Len(read') + Ahead'
      <4>1. Len(written) = Len(read) + Ahead
        BY <2>1 DEF ReadPrefix
      <4>2. Len(read) \in Int /\ Ahead \in Int /\ len[t] \in Int
        BY <2>2, AheadFacts
      <4>3. Len(written') = Len(read) + Ahead + len[t]
        BY <2>4, <4>1
      <4>4. Len(read) + Ahead + len[t] = Len(read) + (Ahead + len[t])
        BY <4>2
      <4>5. QED
        BY <1>1, <2>6, <4>3, <4>4
    <3>2. Len(read) <= Len(written)
      BY <2>1, AheadFacts DEF ReadPrefix
    <3>3. \A k \in 1..Len(read) : k \in 1..Len(written)
      BY <3>2, AheadFacts
    <3>4. \A k \in 1..Len(read) : read[k] = written'[k]
      BY <2>1, <2>4, <3>3 DEF ReadPrefix
    <3>5. QED
      BY <1>1, <3>1, <3>4 DEF ReadPrefix
  <2>8. RestInRing'
    <3>1. ASSUME NEW k \in 1..Ahead
          PROVE  ring[(rd + k - 1) % Size] = written'[Len(read) + k]
      <4>1. Len(read) + k \in 1..Len(written)
        BY <2>1, AheadFacts DEF ReadPrefix
      <4>2. QED
        BY <2>1, <2>4, <4>1 DEF RestInRing
    <3>2. ASSUME NEW k \in 1..len[t]
          PROVE  ring[(rd + (Ahead + k) - 1) % Size] = written'[Len(read) + (Ahead + k)]
      <4>1. (rd + (Ahead + k) - 1) % Size = (wr + k - 1) % Size
        <5>1. CASE rd <= wr
          <6>1. rd + (Ahead + k) - 1 = wr + k - 1
            BY <5>1, <2>2, AheadFacts
          <6>2. QED
            BY <6>1
        <5>2. CASE rd > wr
          <6>1. rd + (Ahead + k) - 1 = (wr + k - 1) + Size
            BY <5>2, <2>2, AheadFacts
          <6>2. wr + k - 1 \in 0..(Size - 1)
            BY <5>2, <2>2, AheadFacts
          <6>3. (wr + k - 1) % Size = wr + k - 1
            BY <6>2, ModSmall
          <6>4. (wr + k - 1) + Size \in Size..(2 * Size - 1)
            BY <6>2
          <6>5. ((wr + k - 1) + Size) % Size = wr + k - 1
            BY <6>2, Around
          <6>6. QED
            BY <6>1, <6>3, <6>5
        <5>3. QED
          BY <5>1, <5>2, AheadFacts
      <4>2. ring[(wr + k - 1) % Size] = <<t, done[t] + k>>
        BY <1>1, <2>1 DEF CopyInRing
      <4>3. Len(read) + (Ahead + k) = Len(written) + k
        BY <2>1, <2>2, AheadFacts DEF ReadPrefix
      <4>4. QED
        BY <2>4, <4>1, <4>2, <4>3
    <3>3. ASSUME NEW k \in 1..(Ahead + len[t])
          PROVE  ring[(rd + k - 1) % Size] = written'[Len(read) + k]
      <4>1. CASE k <= Ahead
        BY <3>1, <4>1, AheadFacts, <2>2
      <4>2. CASE ~(k <= Ahead)
        <5>1. k - Ahead \in 1..len[t] /\ Ahead + (k - Ahead) = k
          BY <4>2, AheadFacts, <2>2
        <5>2. QED
          BY <3>2, <5>1
      <4>3. QED
        BY <4>1, <4>2
    <3>4. QED
      BY <1>1, <2>6, <3>3 DEF RestInRing
  <2>9. \A u \in Tasks : pc'[u] \notin {"copy", "publish"}
    BY <1>1, Only DEF Critical
  <2>10. QED
    BY <1>1, <1>3, <2>7, <2>8, <2>9 DEF HostInv, WriterHasRoom, CopyInRing
<1>4. QED
  BY <1>2, <1>3

LEMMA HostInvRead ==
    ASSUME Inv, HostInv, HostRead
    PROVE  HostInv'
<1>1. /\ connected /\ rd # wr /\ read' = Append(read, ring[rd])
      /\ rd' = (rd + 1) % Size
      /\ UNCHANGED <<pc, done, cursor, len, ring, wr, written, connected>>
  BY DEF HostRead
<1>2. ReadPrefix /\ RestInRing /\ WriterHasRoom /\ CopyInRing
  BY <1>1 DEF HostInv
<1>3. rd' = (IF rd + 1 < Size THEN rd + 1 ELSE 0) /\ rd' \in Indices
  <2>1. 1 \in 0..Size
    OBVIOUS
  <2>2. QED
    <3>1. rd \in Indices /\ rd + 1 \in Int /\ rd + 1 - Size <= 0 /\ rd \in Int
      BY AheadFacts DEF Indices
    <3>2. rd' = IF rd + 1 < Size THEN rd + 1 ELSE rd + 1 - Size
      BY <1>1, <2>1, <3>1, Forward
    <3>3. rd' \in Indices
      BY <1>1, <3>1, ModBounds
    <3>4. CASE rd + 1 < Size
      BY <3>2, <3>3, <3>4
    <3>5. CASE rd + 1 = Size
      BY <3>1, <3>2, <3>3, <3>5
    <3>6. QED
      BY <3>4, <3>5, AheadFacts
<1>4. Ahead >= 1 /\ Ahead' = Ahead - 1
  <2>1. Ahead' = IF rd' <= wr THEN wr - rd' ELSE wr - rd' + Size
    BY <1>1, <1>3, Distance, AheadFacts DEF Ahead, Indices
  <2>2. QED
    <3>1. /\ rd \in 0..(Size - 1) /\ wr \in 0..(Size - 1)
          /\ Ahead = IF rd <= wr THEN wr - rd ELSE wr - rd + Size
      BY AheadFacts
    <3>2. CASE rd + 1 < Size
      BY <1>1, <1>3, <2>1, <3>1, <3>2
    <3>3. CASE rd + 1 = Size
      BY <1>1, <1>3, <2>1, <3>1, <3>3
    <3>4. QED
      BY <3>1, <3>2, <3>3
<1>5. ring[rd] = written[Len(read) + 1]
  <2>1. (rd + 1 - 1) % Size = rd
    BY AheadFacts, ModSmall
  <2>2. 1 \in 1..Ahead
    BY <1>4, AheadFacts
  <2>3. QED
    BY <1>2, <2>1, <2>2 DEF RestInRing
<1>6. /\ Len(read') = Len(read) + 1
      /\ \A k \in 1..Len(read) : read'[k] = read[k]
      /\ read'[Len(read) + 1] = ring[rd]
  <2>1. ring[rd] \in Cells /\ read \in Seq(Cells)
    BY DEF Inv, RingShape
  <2>2. QED
    BY <1>1, <2>1
<1>7. ReadPrefix'
  <2>1. Len(written') = Len(read') + Ahead'
    BY <1>1, <1>2, <1>4, <1>6, AheadFacts DEF ReadPrefix
  <2>2. \A k \in 1..Len(read') : read'[k] = written'[k]
    BY <1>1, <1>2, <1>5, <1>6, AheadFacts DEF ReadPrefix
  <2>3. QED
    BY <2>1, <2>2 DEF ReadPrefix
<1>8. RestInRing'
  <2>1. ASSUME NEW k \in 1..(Ahead - 1)
        PROVE  ring[(rd' + k - 1) % Size] = written[Len(read') + k]
    <3>1. k + 1 \in 1..Ahead /\ Len(read) + (k + 1) = Len(read') + k
      BY <1>4, <1>6, AheadFacts
    <3>2. ring[(rd + (k + 1) - 1) % Size] = written[Len(read) + (k + 1)]
      BY <1>2, <3>1 DEF RestInRing
    <3>3. (rd + (k + 1) - 1) % Size = (rd' + k - 1) % Size
      <4>1. CASE rd + 1 < Size
        <5>1. rd + (k + 1) - 1 = rd' + k - 1
          BY <1>3, <4>1, AheadFacts
        <5>2. QED
          BY <5>1
      <4>2. CASE rd + 1 = Size
        <5>1. k \in Int /\ rd \in Int
          BY AheadFacts
        <5>2. rd' = 0
          BY <1>3, <4>2
        <5>3. rd' + k - 1 = k - 1 /\ rd + (k + 1) - 1 = (k - 1) + Size
          BY <4>2, <5>1, <5>2
        <5>4. k - 1 \in 0..(Size - 1)
          BY AheadFacts
        <5>5. (k - 1) % Size = k - 1 /\ ((k - 1) + Size) % Size = k - 1
          BY <5>4, ModSmall, Around
        <5>6. QED
          BY <5>3, <5>5
      <4>3. rd + 1 < Size \/ rd + 1 = Size
        <5>1. rd \in 0..(Size - 1) /\ Size \in Int
          BY AheadFacts, SizeAssumption
        <5>2. QED
          BY <5>1
      <4>4. QED
        BY <4>1, <4>2, <4>3
    <3>4. QED
      BY <3>1, <3>2, <3>3
  <2>2. QED
    BY <1>1, <1>4, <2>1 DEF RestInRing
<1>9. WriterHasRoom'
  <2>1. \A u \in Tasks : len[u] \in 0..FrameLen
    BY DEF Inv, RingShape
  <2>2. QED
    <3>1. Ahead \in Int /\ \A u \in Tasks : len[u] \in Int
      BY <2>1, AheadFacts
    <3>2. \A u \in Tasks : Ahead + len[u] <= Size - 1 => Ahead - 1 + len[u] <= Size - 1
      BY <3>1
    <3>3. QED
      BY <1>1, <1>2, <1>4, <3>2 DEF WriterHasRoom
<1>10. CopyInRing'
  BY <1>1, <1>2 DEF CopyInRing
<1>11. QED
  BY <1>1, <1>7, <1>8, <1>9, <1>10 DEF HostInv

LEMMA HostInvStep == Inv /\ HostInv /\ [Next]_vars => HostInv'
<1>. SUFFICES ASSUME Inv, HostInv, [Next]_vars PROVE HostInv'
  OBVIOUS
<1>1. ASSUME NEW t \in Tasks, Writing(t) PROVE HostInv'
  BY <1>1, HostInvLoad, HostInvCopy, HostInvPublish DEF Writing
<1>2. ASSUME NEW t \in Tasks, Lockwork(t) PROVE HostInv'
  BY <1>2, HostInvLockwork
<1>3. CASE HostRead
  BY <1>3, HostInvRead
<1>4. CASE UNCHANGED vars
  BY <1>4 DEF vars, ringVars, HostInv, ReadPrefix, RestInRing, WriterHasRoom, CopyInRing, Ahead
<1>5. QED
  BY <1>1, <1>2, <1>3, <1>4 DEF Next, Proceed, Lockwork, Writing

LEMMA HostInvInit == Init => HostInv
<1>. SUFFICES ASSUME Init PROVE HostInv
  OBVIOUS
<1>1. Ahead = 0
  BY ModSmall DEF Init, Ahead
<1>2. QED
  BY <1>1 DEF Init, HostInv, ReadPrefix, RestInRing, WriterHasRoom, CopyInRing

LEMMA InvHolds == Spec => [](Inv /\ HostInv)
BY InvInit, InvStep, HostInvInit, HostInvStep, PTL DEF Spec

LEMMA SameSequence ==
    ASSUME NEW S, NEW s \in Seq(S), NEW u \in Seq(S), Len(s) = Len(u),
           \A k \in 1..Len(s) : s[k] = u[k]
    PROVE  s = u
OBVIOUS

LEMMA HostSeesAll == Inv /\ HostInv => NothingLost
<1>. SUFFICES ASSUME Inv, HostInv, connected PROVE read \o Unread = written
  BY DEF NothingLost
<1>1. ReadPrefix /\ RestInRing
  BY DEF HostInv
<1>2. /\ Unread \in Seq(Cells) /\ Len(Unread) = Ahead
      /\ \A k \in 1..Ahead : Unread[k] = ring[(rd + k - 1) % Size]
  <2>1. \A k \in 1..Ahead : ring[(rd + k - 1) % Size] \in Cells
    <3>1. \A k \in 1..Ahead : rd + k - 1 \in Int
      BY AheadFacts
    <3>2. QED
      BY <3>1, ModBounds DEF Inv, RingShape
  <2>2. QED
    <3>1. Unread = [k \in 1..Ahead |-> ring[(rd + k - 1) % Size]]
      BY DEF Unread, Ahead
    <3>2. Ahead \in Nat
      BY AheadFacts
    <3>3. QED
      BY <2>1, <3>1, <3>2
<1>3. read \in Seq(Cells) /\ written \in Seq(Cells)
  BY DEF Inv, RingShape, Cells
<1>4. /\ read \o Unread \in Seq(Cells) /\ Len(read \o Unread) = Len(written)
      /\ \A k \in 1..Len(read) : (read \o Unread)[k] = written[k]
      /\ \A k \in 1..Ahead : (read \o Unread)[Len(read) + k] = written[Len(read) + k]
  <2>1. /\ read \o Unread \in Seq(Cells) /\ Len(read \o Unread) = Len(read) + Ahead
        /\ \A k \in 1..Len(read) : (read \o Unread)[k] = read[k]
        /\ \A k \in 1..Ahead : (read \o Unread)[Len(read) + k] = Unread[k]
    BY <1>2, <1>3, ConcatType, ConcatElements
  <2>2. Len(read \o Unread) = Len(written)
    BY <1>1, <2>1 DEF ReadPrefix
  <2>3. \A k \in 1..Len(read) : (read \o Unread)[k] = written[k]
    BY <1>1, <2>1 DEF ReadPrefix
  <2>4. \A k \in 1..Ahead : (read \o Unread)[Len(read) + k] = written[Len(read) + k]
    BY <1>1, <1>2, <2>1 DEF RestInRing
  <2>5. QED
    BY <2>1, <2>2, <2>3, <2>4
<1>5. ASSUME NEW k \in 1..Len(written) PROVE (read \o Unread)[k] = written[k]
  <2>1. CASE k <= Len(read)
    BY <1>4, <2>1, AheadFacts
  <2>2. CASE ~(k <= Len(read))
    <3>1. k - Len(read) \in 1..Ahead /\ Len(read) + (k - Len(read)) = k
      BY <1>1, <2>2, AheadFacts DEF ReadPrefix
    <3>2. QED
      BY <1>4, <3>1
  <2>3. QED
    BY <2>1, <2>2
<1>6. QED
  BY <1>3, <1>4, <1>5, SameSequence

\* A connected host sees every byte once, in order, for every size of the ring.
THEOREM NoByteLost == Spec => []NothingLost
BY InvHolds, HostSeesAll, PTL

\* When flush returns a connected host has read all that was written.
THEOREM FlushCompletes == Spec => FlushIsComplete
<1>1. ASSUME Inv, HostInv, [Next]_vars, NEW t \in Tasks,
             pc[t] = "flush", pc'[t] = "release", connected
      PROVE  read = written
  <2>1. rd = wr
    BY <1>1
    DEF Inv, Shape, Next, Proceed, Call, Acquire, Backoff, StartTicker, TickerFails, Wait,
        Drop, Tick, Reenter, Load, Copy, Publish, Flush, CaughtUp, Release, HostRead,
        vars, GoTo
  <2>2. Ahead = 0 /\ Len(read) = Len(written)
    BY <1>1, <2>1, AheadFacts DEF HostInv, ReadPrefix
  <2>3. read \in Seq(Cells) /\ written \in Seq(Cells)
    BY <1>1 DEF Inv, RingShape, Cells
  <2>4. \A k \in 1..Len(read) : read[k] = written[k]
    BY <1>1 DEF HostInv, ReadPrefix
  <2>5. QED
    BY <2>2, <2>3, <2>4, SameSequence
<1>2. Inv /\ HostInv /\ [Next]_vars =>
        [\A t \in Tasks : (pc[t] = "flush" /\ pc'[t] = "release" /\ connected)
                              => read = written]_vars
  BY <1>1
<1>3. QED
  BY <1>2, InvHolds, PTL DEF Spec, FlushIsComplete

\* The state of the logger is always well-formed: no cursor leaves the ring, and what the
\* host has read are bytes of frames.
THEOREM TypeCorrect == Spec => []TypeOK
<1>1. Inv /\ HostInv => read \in Seq(Bytes)
  <2>. SUFFICES ASSUME Inv, HostInv PROVE read \in Seq(Bytes)
    OBVIOUS
  <2>1. CASE connected
    <3>1. \A k \in 1..Len(read) : read[k] = written[k] /\ k \in 1..Len(written)
      BY <2>1, AheadFacts DEF HostInv, ReadPrefix
    <3>2. \A k \in 1..Len(read) : read[k] \in Bytes
      BY <3>1 DEF Inv, RingShape
    <3>3. read = [k \in 1..Len(read) |-> read[k]] /\ Len(read) \in Nat
      BY DEF Inv, RingShape
    <3>4. QED
      BY <3>2, <3>3
  <2>2. CASE ~connected
    BY <2>2 DEF HostInv
  <2>3. QED
    BY <2>1, <2>2
<1>2. Inv /\ HostInv => TypeOK
  BY <1>1 DEF Inv, Shape, RingShape, Cells, TypeOK
<1>3. QED
  BY <1>2, InvHolds, PTL

-----------------------------------------------------------------------------
(***************************************************************************)
(* The frames.  While a task writes, the last byte in the channel is its   *)
(* own, or the last of a frame before it wrote its first; while nobody     *)
(* writes it is the last of a frame, unless a writer was aborted.          *)
(***************************************************************************)
Framing(t) == pc[t] \in {"load", "copy", "publish"}

FrameEnded == written = <<>> \/ written[Len(written)][2] = FrameLen

OwnFrame(t) ==
    IF done[t] = 0 THEN FrameEnded
    ELSE written # <<>> /\ written[Len(written)] = <<t, done[t]>>

FrameInv ==
    /\ FramesWhole
    /\ \A t \in Tasks : Framing(t) =>
          /\ done[t] < FrameLen /\ OwnFrame(t)
          /\ pc[t] # "load" => len[t] \in 1..Size
    /\ (\A t \in Tasks : ~Framing(t) /\ pc[t] # "aborted") => FrameEnded

LEMMA FrameInvLockwork ==
    ASSUME Inv, FrameInv, NEW t \in Tasks, Lockwork(t)
    PROVE  FrameInv'
<1>1. UNCHANGED <<len, written>>
  BY LockworkUnchanged DEF Inv, ringVars
<1>2. FramesWhole'
  BY <1>1 DEF FrameInv, FramesWhole
<1>3. CASE Acquire(t)
  <2>1. /\ lock = Nobody /\ done' = [done EXCEPT ![t] = 0]
        /\ pc' \in {[pc EXCEPT ![t] = "load"], [pc EXCEPT ![t] = "flush"]}
    BY <1>3 DEF Acquire, CompareExchange, GoTo
  <2>2. \A u \in Tasks : pc[u] \notin Critical
    BY <2>1 DEF Inv, OneLogger
  <2>3. FrameEnded
    BY <2>2 DEF FrameInv, Framing, Critical
  <2>4. \A u \in Tasks : Framing(u)' => u = t /\ pc'[u] = "load" /\ done'[u] = 0
    BY <2>1, <2>2 DEF Framing, Critical, Inv, Shape, RingShape
  <2>5. FrameEnded'
    BY <1>1, <2>3 DEF FrameEnded
  <2>6. QED
    BY <1>2, <2>4, <2>5 DEF FrameInv, OwnFrame, Framing, FrameEnded
<1>4. CASE ~Acquire(t)
  <2>1. UNCHANGED done
    BY <1>4 DEF Lockwork, Backoff, StartTicker, TickerFails, Wait, Drop, Reenter, Flush,
                Release, Tick, Call
  <2>2. \A u \in Tasks : Framing(u)' => pc'[u] = pc[u]
    BY <1>4 DEF Lockwork, Backoff, StartTicker, TickerFails, Wait, Drop, Reenter, Flush,
                Release, Tick, Call, Framing, GoTo, Inv, Shape
  <2>3. \A u \in Tasks : Framing(u) => Framing(u)' \/ pc'[u] = "aborted"
    BY <1>4 DEF Lockwork, Backoff, StartTicker, TickerFails, Wait, Drop, Reenter, Flush,
                Release, Tick, Call, Framing, GoTo, Inv, Shape
  <2>4. \A u \in Tasks : pc[u] = "aborted" => pc'[u] = "aborted"
    BY <1>4 DEF Lockwork, Backoff, StartTicker, TickerFails, Wait, Drop, Reenter, Flush,
                Release, Tick, Call, GoTo, Inv, Shape
  <2>5. (\A u \in Tasks : ~Framing(u)' /\ pc'[u] # "aborted") => FrameEnded'
    BY <1>1, <2>3, <2>4 DEF FrameInv, FrameEnded
  <2>6. \A u \in Tasks : Framing(u)' =>
            Framing(u) /\ pc'[u] = pc[u] /\ (OwnFrame(u) => OwnFrame(u)')
    BY <1>1, <2>1, <2>2 DEF Framing, OwnFrame, FrameEnded
  <2>7. QED
    BY <1>1, <1>2, <2>1, <2>5, <2>6 DEF FrameInv
<1>5. QED
  BY <1>3, <1>4

LEMMA FrameInvLoad ==
    ASSUME Inv, FrameInv, NEW t \in Tasks, Load(t)
    PROVE  FrameInv'
<1>1. /\ pc[t] = "load" /\ pc' = [pc EXCEPT ![t] = "copy"]
      /\ UNCHANGED <<done, written>>
      /\ \A u \in Tasks : u # t => len'[u] = len[u]
  BY DEF Load, GoTo, ringVars, Inv, RingShape
<1>2. done[t] \in Nat /\ done[t] < FrameLen
  BY <1>1 DEF FrameInv, Framing, Inv, RingShape
<1>3. len'[t] \in 1..Size
  <2>1. Room \in Int /\ Room > 0 /\ Room <= Size
    <3>1. Room \in Int /\ Room > 0
      BY RoomFacts DEF Load, Inv
    <3>2. CASE connected
      <4>1. Room <= Size - 1 - Ahead /\ Ahead \in Nat
        BY <3>2, RoomFacts, AheadFacts DEF Inv, Ahead
      <4>2. QED
        BY <3>1, <4>1
    <3>3. CASE ~connected
      BY <3>3 DEF Room
    <3>4. QED
      BY <3>1, <3>2, <3>3
  <2>2. len'[t] = Least(FrameLen - done[t], Room)
    BY DEF Load, Inv, RingShape
  <2>3. QED
    BY <1>2, <2>1, <2>2 DEF Least
<1>4. \A u \in Tasks : Framing(u)' <=> Framing(u)
  BY <1>1 DEF Framing, Inv, Shape
<1>5. \A u \in Tasks : pc'[u] # "load" => u = t \/ pc[u] # "load"
  BY <1>1 DEF Inv, Shape
<1>6. \A u \in Tasks : pc'[u] = "aborted" <=> pc[u] = "aborted"
  BY <1>1 DEF Inv, Shape
<1>7. /\ FramesWhole' /\ (FrameEnded <=> FrameEnded')
      /\ \A u \in Tasks : OwnFrame(u) <=> OwnFrame(u)'
  BY <1>1 DEF FrameInv, FramesWhole, FrameEnded, OwnFrame
<1>8. QED
  BY <1>1, <1>3, <1>4, <1>5, <1>6, <1>7 DEF FrameInv

\* The bytes of one write continue the frame of their task.
LEMMA FrameInvPublish ==
    ASSUME Inv, FrameInv, NEW t \in Tasks, Publish(t)
    PROVE  FrameInv'
<1>1. /\ pc[t] = "publish" /\ written' = written \o Added(t)
      /\ done' = [done EXCEPT ![t] = @ + len[t]]
      /\ pc' = [pc EXCEPT ![t] = IF done[t] + len[t] = FrameLen THEN "release" ELSE "load"]
  BY DEF Publish, Added, GoTo
<1>2. /\ done[t] \in Nat /\ done[t] < FrameLen /\ len[t] \in Nat /\ len[t] >= 1
      /\ done[t] + len[t] <= FrameLen /\ OwnFrame(t)
  BY <1>1 DEF FrameInv, Framing, Inv, RingShape
<1>3. /\ Len(written') = Len(written) + len[t] /\ Len(written) \in Nat
      /\ \A k \in 1..Len(written) : written'[k] = written[k]
      /\ \A k \in 1..len[t] : written'[Len(written) + k] = <<t, done[t] + k>>
  <2>1. Added(t) \in Seq(Bytes) /\ Len(Added(t)) = len[t] /\ written \in Seq(Bytes)
        /\ \A k \in 1..len[t] : Added(t)[k] = <<t, done[t] + k>>
    BY <1>1, AddedType DEF Inv, RingShape
  <2>2. Len(written') = Len(written) + len[t] /\ Len(written) \in Nat
    <3>1. Len(written \o Added(t)) = Len(written) + Len(Added(t))
      BY <2>1, ConcatType
    <3>2. QED
      BY <1>1, <2>1, <3>1
  <2>3. \A k \in 1..Len(written) : written'[k] = written[k]
    BY <1>1, <2>1, ConcatElements
  <2>4. \A k \in 1..len[t] : written'[Len(written) + k] = <<t, done[t] + k>>
    BY <1>1, <2>1, ConcatElements
  <2>5. QED
    BY <2>2, <2>3, <2>4
<1>4. FramesWhole'
  <2>. SUFFICES ASSUME NEW i \in 1..(Len(written) + len[t])
                PROVE  IF i = 1 \/ written'[i][2] = 1
                       THEN written'[i][2] = 1 /\ (i > 1 => written'[i - 1][2] = FrameLen)
                       ELSE written'[i] = <<written'[i - 1][1], written'[i - 1][2] + 1>>
    BY <1>3 DEF FramesWhole
  <2>1. CASE i <= Len(written)
    <3>1. i \in 1..Len(written) /\ (i # 1 => i - 1 \in 1..Len(written))
      BY <1>3, <2>1
    <3>2. written'[i] = written[i] /\ (i # 1 => written'[i - 1] = written[i - 1])
      BY <1>3, <3>1
    <3>3. IF i = 1 \/ written[i][2] = 1
          THEN written[i][2] = 1 /\ (i > 1 => written[i - 1][2] = FrameLen)
          ELSE written[i] = <<written[i - 1][1], written[i - 1][2] + 1>>
      BY <3>1 DEF FrameInv, FramesWhole
    <3>4. QED
      BY <3>2, <3>3
  <2>2. CASE i = Len(written) + 1
    <3>1. written'[i] = <<t, done[t] + 1>>
      <4>1. 1 \in 1..len[t]
        BY <1>2
      <4>2. QED
        BY <1>3, <2>2, <4>1
    <3>2. written # <<>> => Len(written) \in 1..Len(written)
      BY DEF Inv, RingShape
    <3>3. i > 1 <=> written # <<>>
      BY <1>3, <2>2 DEF Inv, RingShape
    <3>4. i > 1 => written'[i - 1] = written[Len(written)]
      BY <1>3, <2>2, <3>2, <3>3
    <3>5. CASE done[t] = 0
      <4>1. written'[i][2] = 1
        BY <3>1, <3>5
      <4>2. i > 1 => written'[i - 1][2] = FrameLen
        BY <1>2, <3>3, <3>4, <3>5 DEF OwnFrame, FrameEnded
      <4>3. QED
        BY <4>1, <4>2
    <3>6. CASE done[t] # 0
      <4>1. i > 1 /\ written'[i - 1] = <<t, done[t]>>
        BY <1>2, <3>3, <3>4, <3>6 DEF OwnFrame
      <4>2. written'[i][2] # 1 /\ i # 1
        BY <1>2, <2>2, <3>1, <3>6, <4>1
      <4>3. QED
        BY <3>1, <4>1, <4>2
    <3>7. QED
      BY <3>5, <3>6
  <2>3. CASE i > Len(written) + 1
    <3>1. PICK k \in 2..len[t] : i = Len(written) + k
      <4>1. i - Len(written) \in 2..len[t] /\ i = Len(written) + (i - Len(written))
        BY <1>2, <1>3, <2>3
      <4>2. QED
        BY <4>1
    <3>2. k \in 1..len[t] /\ k - 1 \in 1..len[t] /\ i - 1 = Len(written) + (k - 1) /\ i # 1
      BY <1>2, <1>3, <3>1
    <3>3. written'[i] = <<t, done[t] + k>> /\ written'[i - 1] = <<t, done[t] + (k - 1)>>
      BY <1>3, <3>1, <3>2
    <3>4. done[t] + k # 1 /\ done[t] + k = (done[t] + (k - 1)) + 1
      BY <1>2, <3>1
    <3>5. QED
      BY <3>2, <3>3, <3>4
  <2>4. QED
    BY <1>2, <1>3, <2>1, <2>2, <2>3
<1>5. /\ written' # <<>> /\ written'[Len(written')] = <<t, done[t] + len[t]>>
      /\ done'[t] = done[t] + len[t]
  <2>1. len[t] \in 1..len[t]
    BY <1>2
  <2>2. written'[Len(written')] = <<t, done[t] + len[t]>>
    BY <1>3, <2>1
  <2>3. written' # <<>>
    BY <1>2, <1>3
  <2>4. QED
    BY <1>1, <2>2, <2>3 DEF Inv, RingShape
<1>6. \A u \in Tasks : u # t => pc'[u] = pc[u] /\ pc[u] \notin Critical
  BY <1>1, Only DEF Critical, Inv, Shape
<1>7. \A u \in Tasks : Framing(u)' =>
          u = t /\ pc'[u] = "load" /\ done[t] + len[t] # FrameLen
  BY <1>1, <1>6 DEF Framing, Critical, Inv, Shape
<1>8. ~Framing(t)' => FrameEnded'
  <2>1. ~Framing(t)' => done[t] + len[t] = FrameLen
    BY <1>1 DEF Framing, Inv, Shape
  <2>2. QED
    BY <1>5, <2>1 DEF FrameEnded
<1>9. Framing(t)' => done'[t] < FrameLen /\ OwnFrame(t)'
  <2>1. done'[t] # 0
    BY <1>2, <1>5
  <2>2. OwnFrame(t)'
    BY <1>5, <2>1 DEF OwnFrame
  <2>3. Framing(t)' => done[t] + len[t] # FrameLen
    BY <1>7
  <2>4. done[t] + len[t] # FrameLen => done[t] + len[t] < FrameLen
    BY <1>2
  <2>5. QED
    BY <1>5, <2>2, <2>3, <2>4
<1>10. QED
  BY <1>4, <1>7, <1>8, <1>9 DEF FrameInv

LEMMA FrameInvStep == Inv /\ FrameInv /\ [Next]_vars => FrameInv'
<1>. SUFFICES ASSUME Inv, FrameInv, [Next]_vars PROVE FrameInv'
  OBVIOUS
<1>1. ASSUME NEW t \in Tasks, Lockwork(t) PROVE FrameInv'
  BY <1>1, FrameInvLockwork
<1>2. ASSUME NEW t \in Tasks, Load(t) \/ Publish(t) PROVE FrameInv'
  BY <1>2, FrameInvLoad, FrameInvPublish
<1>3. ASSUME NEW t \in Tasks, Copy(t) PROVE FrameInv'
  <2>1. /\ UNCHANGED <<done, len, written>>
        /\ pc[t] = "copy" /\ pc' = [pc EXCEPT ![t] = "publish"]
    BY <1>3 DEF Copy, GoTo
  <2>2. /\ \A u \in Tasks : Framing(u)' <=> Framing(u)
        /\ \A u \in Tasks : pc'[u] = "load" <=> pc[u] = "load"
        /\ \A u \in Tasks : pc'[u] = "aborted" <=> pc[u] = "aborted"
    BY <2>1 DEF Framing, Inv, Shape
  <2>3. QED
    BY <2>1, <2>2 DEF FrameInv, FramesWhole, FrameEnded, OwnFrame
<1>4. CASE HostRead \/ UNCHANGED vars
  BY <1>4 DEF HostRead, vars, ringVars, FrameInv, FramesWhole, FrameEnded, OwnFrame, Framing
<1>5. QED
  BY <1>1, <1>2, <1>3, <1>4 DEF Next, Proceed, Lockwork

(***************************************************************************)
(* The channel holds whole frames, whatever interrupts a writer: a full    *)
(* ring, a more urgent task, a task of another core, a panic.  Only a task *)
(* aborted for reentrancy leaves a frame unfinished, as the last one.      *)
(***************************************************************************)
THEOREM FramesStayWhole == Spec => []FramesWhole
<1>1. Init => FrameInv
  BY DEF Init, FrameInv, FramesWhole, FrameEnded, Framing
<1>2. FrameInv => FramesWhole
  BY DEF FrameInv
<1>3. QED
  BY <1>1, <1>2, InvInit, InvStep, FrameInvStep, PTL DEF Spec

-----------------------------------------------------------------------------
(***************************************************************************)
(* The ring as a record of the latest bytes, with a host or without: behind*)
(* the write cursor it holds what was written last, but for what a copy    *)
(* that is not published yet has overwritten.                              *)
(***************************************************************************)
Holds(n) ==
    \A k \in 1..n : k <= Len(written) => ring[(wr - k) % Size] = written[Len(written) + 1 - k]

LatestInv ==
    /\ \A t \in Tasks : pc[t] \in {"copy", "publish"} => cursor[t] = wr
    /\ CopyInRing
    /\ \A t \in Tasks : pc[t] = "publish" => Holds(Size - len[t])
    /\ (\A t \in Tasks : pc[t] # "publish") => Holds(Size)

\* The index k places behind the write cursor, seen from there.
LEMMA BehindCursor ==
    ASSUME Inv, NEW k \in 1..Size
    PROVE  /\ (wr - k) % Size \in Indices
           /\ (wr - k) % Size = IF k <= wr THEN wr - k ELSE wr - k + Size
<1>1. wr \in 0..(Size - 1) /\ wr - k \in Int
  BY AheadFacts
<1>2. (wr - k) % Size = IF k <= wr THEN wr - k ELSE wr - k + Size
  <2>1. CASE k <= wr
    <3>1. wr - k \in 0..(Size - 1)
      BY <1>1, <2>1
    <3>2. QED
      BY <2>1, <3>1, ModSmall
  <2>2. CASE ~(k <= wr)
    <3>1. wr - k \in (-Size)..(-1)
      BY <1>1, <2>2
    <3>2. QED
      BY <2>2, <3>1, ModDown
  <2>3. QED
    BY <2>1, <2>2
<1>3. QED
  BY <1>1, <1>2, ModBounds

LEMMA OffsetBehind ==
    ASSUME Inv, NEW t \in Tasks, cursor[t] = wr, NEW k \in 1..Size
    PROVE  Offset(t, (wr - k) % Size) = Size - k + 1
<1>. DEFINE i == (wr - k) % Size
<1>1. wr \in 0..(Size - 1) /\ i \in Indices /\ i = IF k <= wr THEN wr - k ELSE wr - k + Size
  BY AheadFacts, BehindCursor
<1>2. (i - wr) % Size = IF wr <= i THEN i - wr ELSE i - wr + Size
  BY <1>1, Distance DEF Indices
<1>3. Offset(t, i) = ((i - wr) % Size) + 1
  BY DEF Offset
<1>. HIDE DEF i
<1>4. Offset(t, i) = Size - k + 1
  BY <1>1, <1>2, <1>3 DEF Indices
<1>5. QED
  BY <1>4 DEF i

LEMMA LatestInvLockwork ==
    ASSUME Inv, LatestInv, NEW t \in Tasks, Lockwork(t)
    PROVE  LatestInv'
<1>1. UNCHANGED <<cursor, len, ring, wr, written>>
  BY LockworkUnchanged DEF Inv, ringVars
<1>2. \A u \in Tasks : pc'[u] \in {"copy", "publish"} => (pc'[u] = pc[u] /\ done'[u] = done[u])
  BY LockworkUnchanged DEF Inv
<1>3. \A u \in Tasks : pc[u] = "publish" => pc'[u] = "publish"
  BY DEF Lockwork, Acquire, Backoff, StartTicker, TickerFails, Wait, Drop, Reenter, Flush,
         Release, Tick, Call, GoTo, Inv, Shape
<1>4. \A n : Holds(n) <=> Holds(n)'
  BY <1>1 DEF Holds
<1>5. CopyInRing'
  BY <1>1, <1>2 DEF LatestInv, CopyInRing
<1>6. QED
  BY <1>1, <1>2, <1>3, <1>4, <1>5 DEF LatestInv

LEMMA LatestInvLoad ==
    ASSUME Inv, LatestInv, NEW t \in Tasks, Load(t)
    PROVE  LatestInv'
<1>1. /\ pc[t] = "load" /\ pc' = [pc EXCEPT ![t] = "copy"]
      /\ cursor' = [cursor EXCEPT ![t] = wr]
      /\ UNCHANGED <<done, ring, wr, written>>
  BY DEF Load, GoTo, ringVars
<1>2. \A u \in Tasks : pc'[u] # "publish" /\ pc[u] # "publish"
  BY <1>1, Only DEF Critical, Inv, Shape
<1>3. \A n : Holds(n) <=> Holds(n)'
  BY <1>1 DEF Holds
<1>4. \A u \in Tasks : pc'[u] \in {"copy", "publish"} => cursor'[u] = wr'
  BY <1>1 DEF LatestInv, Inv, Shape, RingShape
<1>5. QED
  BY <1>2, <1>3, <1>4 DEF LatestInv, CopyInRing

LEMMA LatestInvCopy ==
    ASSUME Inv, FrameInv, LatestInv, NEW t \in Tasks, Copy(t)
    PROVE  LatestInv'
<1>1. /\ UNCHANGED <<done, cursor, len, wr, written>>
      /\ pc[t] = "copy" /\ pc' = [pc EXCEPT ![t] = "publish"] /\ ring' = Copied(t)
  BY DEF Copy, GoTo
<1>2. cursor[t] = wr /\ len[t] \in 1..Size
  BY <1>1 DEF LatestInv, FrameInv, Framing
<1>3. \A u \in Tasks : pc'[u] = "publish" => u = t
  BY <1>1, Only DEF Critical, Inv, Shape
<1>4. CopyInRing'
  <2>1. ASSUME NEW k \in 1..len[t]
        PROVE  ring'[(wr + k - 1) % Size] = <<t, done[t] + k>>
    <3>1. k \in 1..Size /\ k <= len[t]
      BY <1>2
    <3>2. (wr + k - 1) % Size \in Indices /\ Offset(t, (wr + k - 1) % Size) = k
      BY <1>2, <3>1, CopyOffsets
    <3>3. QED
      BY <1>1, <3>1, <3>2, CopiedFacts DEF Inv
  <2>2. QED
    BY <1>1, <1>3, <2>1 DEF CopyInRing
<1>5. Holds(Size - len[t])'
  <2>1. ASSUME NEW k \in 1..(Size - len[t]), k <= Len(written)
        PROVE  ring'[(wr - k) % Size] = written[Len(written) + 1 - k]
    <3>1. k \in 1..Size
      BY <1>2
    <3>2. (wr - k) % Size \in Indices
      BY <3>1, BehindCursor
    <3>3. Offset(t, (wr - k) % Size) = Size - k + 1
      BY <1>2, <3>1, OffsetBehind
    <3>4. ~(Offset(t, (wr - k) % Size) <= len[t])
      BY <1>2, <3>1, <3>3
    <3>5. ring'[(wr - k) % Size] = ring[(wr - k) % Size]
      BY <1>1, <3>2, <3>4, CopiedFacts DEF Inv
    <3>6. \A u \in Tasks : pc[u] # "publish"
      BY <1>1, Only DEF Critical, Inv, Shape
    <3>7. QED
      BY <2>1, <3>1, <3>5, <3>6 DEF LatestInv, Holds
  <2>2. QED
    BY <1>1, <2>1 DEF Holds
<1>6. \A u \in Tasks : pc'[u] \in {"copy", "publish"} => cursor'[u] = wr'
  BY <1>1 DEF LatestInv, Inv, Shape
<1>7. pc'[t] = "publish"
  BY <1>1 DEF Inv, Shape
<1>8. QED
  BY <1>1, <1>3, <1>4, <1>5, <1>6, <1>7 DEF LatestInv

\* What was copied is now behind the cursor, and what was there before is behind that.
LEMMA LatestInvPublish ==
    ASSUME Inv, FrameInv, LatestInv, NEW t \in Tasks, Publish(t)
    PROVE  LatestInv'
<1>1. /\ pc[t] = "publish" /\ wr' = (cursor[t] + len[t]) % Size
      /\ written' = written \o Added(t) /\ UNCHANGED ring
      /\ \A u \in Tasks : pc'[u] \in {"copy", "publish"} => u # t /\ pc'[u] = pc[u]
  BY DEF Publish, Advanced, Added, GoTo, Inv, Shape
<1>2. cursor[t] = wr /\ len[t] \in 1..Size /\ Holds(Size - len[t])
  BY <1>1 DEF LatestInv, FrameInv, Framing
<1>3. \A u \in Tasks : pc'[u] \notin {"copy", "publish"}
  BY <1>1, Only DEF Critical
<1>4. /\ Len(written') = Len(written) + len[t] /\ Len(written) \in Nat
      /\ \A k \in 1..Len(written) : written'[k] = written[k]
      /\ \A k \in 1..len[t] : written'[Len(written) + k] = <<t, done[t] + k>>
  <2>1. Added(t) \in Seq(Bytes) /\ Len(Added(t)) = len[t] /\ written \in Seq(Bytes)
        /\ \A k \in 1..len[t] : Added(t)[k] = <<t, done[t] + k>>
    BY <1>1, AddedType DEF Inv, RingShape
  <2>2. Len(written \o Added(t)) = Len(written) + Len(Added(t))
    BY <2>1, ConcatType
  <2>3. \A k \in 1..Len(written) : written'[k] = written[k]
    BY <1>1, <2>1, ConcatElements
  <2>4. \A k \in 1..len[t] : written'[Len(written) + k] = <<t, done[t] + k>>
    BY <1>1, <2>1, ConcatElements
  <2>5. QED
    BY <1>1, <2>1, <2>2, <2>3, <2>4
<1>5. /\ wr \in 0..(Size - 1) /\ wr' \in 0..(Size - 1)
      /\ wr' = IF wr + len[t] < Size THEN wr + len[t] ELSE wr + len[t] - Size
  <2>1. wr \in Indices /\ wr \in 0..(Size - 1) /\ len[t] \in 0..Size /\ wr + len[t] \in Int
    BY <1>2, AheadFacts DEF Indices
  <2>2. wr' = IF wr + len[t] < Size THEN wr + len[t] ELSE wr + len[t] - Size
    BY <1>1, <1>2, <2>1, Forward
  <2>3. wr' \in Indices
    BY <1>1, <1>2, <2>1, ModBounds
  <2>4. QED
    BY <2>1, <2>2, <2>3 DEF Indices
<1>6. ASSUME NEW k \in 1..Size, k <= Len(written')
      PROVE  ring[(wr' - k) % Size] = written'[Len(written') + 1 - k]
  <2>. DEFINE i == IF k <= wr' THEN wr' - k ELSE wr' - k + Size
  <2>1. (wr' - k) % Size = i
    <3>1. CASE k <= wr'
      <4>1. wr' - k \in 0..(Size - 1)
        BY <1>5, <3>1
      <4>2. QED
        BY <3>1, <4>1, ModSmall
    <3>2. CASE ~(k <= wr')
      <4>1. wr' - k \in (-Size)..(-1)
        BY <1>5, <3>2
      <4>2. QED
        BY <3>2, <4>1, ModDown
    <3>3. QED
      BY <3>1, <3>2
  <2>2. CASE k <= len[t]
    <3>. DEFINE j == len[t] + 1 - k
    <3>1. j \in 1..len[t] /\ j - 1 \in 0..Size /\ wr + j - 1 = wr + (j - 1)
      BY <1>2, <1>5, <2>2
    <3>2. (wr + (j - 1)) % Size
              = IF wr + (j - 1) < Size THEN wr + (j - 1) ELSE wr + (j - 1) - Size
      BY <1>5, <3>1, Forward DEF Indices
    <3>3. i = IF wr + (j - 1) < Size THEN wr + (j - 1) ELSE wr + (j - 1) - Size
      BY <1>2, <1>5, <2>2
    <3>4. ring[(wr + j - 1) % Size] = <<t, done[t] + j>>
      BY <1>1, <3>1 DEF LatestInv, CopyInRing
    <3>5. written'[Len(written) + j] = <<t, done[t] + j>>
      BY <1>4, <3>1
    <3>6. Len(written') + 1 - k = Len(written) + j
      BY <1>2, <1>4
    <3>7. QED
      BY <2>1, <3>1, <3>2, <3>3, <3>4, <3>5, <3>6
  <2>3. CASE ~(k <= len[t])
    <3>. DEFINE j == k - len[t]
    <3>1. j \in 1..(Size - len[t]) /\ j \in 1..Size /\ j <= Len(written)
      BY <1>2, <1>4, <1>6, <2>3
    <3>2. (wr - j) % Size = IF j <= wr THEN wr - j ELSE wr - j + Size
      BY <3>1, BehindCursor
    <3>3. i = IF j <= wr THEN wr - j ELSE wr - j + Size
      BY <1>2, <1>5, <2>3
    <3>4. ring[(wr - j) % Size] = written[Len(written) + 1 - j]
      BY <1>2, <3>1 DEF Holds
    <3>5. /\ Len(written') + 1 - k = Len(written) + 1 - j
          /\ Len(written) + 1 - j \in 1..Len(written)
      <4>1. /\ Len(written') = Len(written) + len[t] /\ Len(written) \in Nat
            /\ len[t] \in Int /\ j \in 1..Size /\ j <= Len(written) /\ k = j + len[t]
        BY <1>2, <1>4, <3>1
      <4>2. QED
        BY <4>1
    <3>6. QED
      BY <1>4, <2>1, <3>2, <3>3, <3>4, <3>5
  <2>4. QED
    BY <2>2, <2>3
<1>7. Holds(Size)'
  BY <1>1, <1>6 DEF Holds
<1>8. QED
  BY <1>3, <1>7 DEF LatestInv, CopyInRing

LEMMA LatestInvStep == Inv /\ FrameInv /\ LatestInv /\ [Next]_vars => LatestInv'
<1>. SUFFICES ASSUME Inv, FrameInv, LatestInv, [Next]_vars PROVE LatestInv'
  OBVIOUS
<1>1. ASSUME NEW t \in Tasks, Lockwork(t) PROVE LatestInv'
  BY <1>1, LatestInvLockwork
<1>2. ASSUME NEW t \in Tasks, Writing(t) PROVE LatestInv'
  BY <1>2, LatestInvLoad, LatestInvCopy, LatestInvPublish DEF Writing
<1>3. CASE HostRead \/ UNCHANGED vars
  BY <1>3 DEF HostRead, vars, ringVars, LatestInv, CopyInRing, Holds
<1>4. QED
  BY <1>1, <1>2, <1>3 DEF Next, Proceed, Lockwork, Writing

(***************************************************************************)
(* What lies between the cursors is the latest that was written, wherever a*)
(* write wraps.  With a host it is all that is left; without one the read  *)
(* cursor stays at 0, and the write cursor has not gone further than that  *)
(* many bytes.                                                             *)
(***************************************************************************)
AbsentInv == ~connected => rd = 0 /\ wr <= Len(written)

LEMMA AbsentInvStep == Inv /\ AbsentInv /\ LatestInv /\ FrameInv /\ [Next]_vars => AbsentInv'
<1>. SUFFICES ASSUME Inv, AbsentInv, LatestInv, FrameInv, [Next]_vars PROVE AbsentInv'
  OBVIOUS
<1>1. ASSUME NEW t \in Tasks, Lockwork(t) PROVE AbsentInv'
  BY <1>1, LockworkUnchanged DEF Inv, ringVars, AbsentInv
<1>2. ASSUME NEW t \in Tasks, Load(t) \/ Copy(t) PROVE AbsentInv'
  BY <1>2 DEF Load, Copy, ringVars, AbsentInv
<1>3. ASSUME NEW t \in Tasks, Publish(t) PROVE AbsentInv'
  <2>1. /\ pc[t] = "publish" /\ wr' = (cursor[t] + len[t]) % Size
        /\ written' = written \o Added(t) /\ UNCHANGED <<rd, connected>>
    BY <1>3 DEF Publish, Advanced, Added
  <2>2. cursor[t] = wr /\ len[t] \in 1..Size
    BY <2>1 DEF LatestInv, FrameInv, Framing
  <2>3. Len(written') = Len(written) + len[t] /\ Len(written) \in Nat
    <3>1. Added(t) \in Seq(Bytes) /\ Len(Added(t)) = len[t] /\ written \in Seq(Bytes)
      BY <2>1, AddedType DEF Inv, RingShape
    <3>2. Len(written \o Added(t)) = Len(written) + Len(Added(t))
      BY <3>1, ConcatType
    <3>3. QED
      BY <2>1, <3>1, <3>2
  <2>4. wr' = IF wr + len[t] < Size THEN wr + len[t] ELSE wr + len[t] - Size
    <3>1. len[t] \in 0..Size
      BY <2>2
    <3>2. wr \in Indices
      BY AheadFacts DEF Indices
    <3>3. wr' = (wr + len[t]) % Size
      BY <2>1, <2>2
    <3>4. QED
      BY <3>1, <3>2, <3>3, Forward
  <2>5. wr \in Nat /\ wr' <= wr + len[t]
    BY <2>2, <2>4, AheadFacts, SizeAssumption
  <2>6. ASSUME ~connected PROVE rd = 0 /\ wr + len[t] <= Len(written')
    <3>1. rd = 0 /\ wr <= Len(written)
      BY <2>6 DEF AbsentInv
    <3>2. QED
      BY <2>2, <2>3, <2>5, <3>1
  <2>7. ASSUME ~connected PROVE rd' = 0 /\ wr' <= Len(written')
    <3>1. wr' \in Int /\ wr + len[t] \in Int /\ Len(written') \in Int
      BY <2>2, <2>3, <2>4, <2>5, SizeAssumption
    <3>2. QED
      BY <2>1, <2>5, <2>6, <2>7, <3>1
  <2>8. QED
    BY <2>1, <2>7 DEF AbsentInv
<1>4. CASE HostRead \/ UNCHANGED vars
  BY <1>4 DEF HostRead, vars, ringVars, AbsentInv
<1>5. QED
  BY <1>1, <1>2, <1>3, <1>4 DEF Next, Proceed, Lockwork

LEMMA LatestFollows ==
    ASSUME Inv, HostInv, LatestInv, AbsentInv
    PROVE  UnreadIsLatest
<1>. SUFFICES ASSUME \A t \in Tasks : pc[t] # "publish"
              PROVE  /\ Len(Unread) <= Len(written)
                     /\ \A k \in 1..Len(Unread) :
                            Unread[k] = written[Len(written) - Len(Unread) + k]
  BY DEF UnreadIsLatest
<1>1. /\ Ahead \in 0..(Size - 1) /\ Len(Unread) = Ahead
      /\ \A k \in 1..Ahead : Unread[k] = ring[(rd + k - 1) % Size]
  BY AheadFacts DEF Unread, Ahead
<1>2. CASE connected
  <2>1. Len(written) = Len(read) + Ahead /\ Len(read) \in Nat
    BY <1>2, AheadFacts DEF HostInv, ReadPrefix
  <2>2. \A k \in 1..Ahead : ring[(rd + k - 1) % Size] = written[Len(read) + k]
    BY <1>2 DEF HostInv, RestInRing
  <2>3. Len(written) - Ahead = Len(read)
    BY <1>1, <2>1
  <2>4. QED
    BY <1>1, <2>1, <2>2, <2>3
<1>3. CASE ~connected
  <2>1. rd = 0 /\ wr \in 0..(Size - 1) /\ wr <= Len(written) /\ Len(written) \in Nat
    BY <1>3, AheadFacts DEF AbsentInv
  <2>2. Ahead = wr
    BY <2>1, AheadFacts
  <2>3. ASSUME NEW k \in 1..Ahead
        PROVE  Unread[k] = written[Len(written) - Ahead + k]
    <3>. DEFINE j == wr - k + 1
    <3>1. j \in 1..Size /\ j <= wr /\ wr - j = k - 1 /\ k - 1 \in 0..(Size - 1)
      BY <2>1, <2>2
    <3>2. (wr - j) % Size = k - 1
      BY <2>1, <3>1, BehindCursor
    <3>3. (rd + k - 1) % Size = k - 1
      <4>1. rd + k - 1 = k - 1
        BY <2>1
      <4>2. QED
        BY <3>1, <4>1, ModSmall
    <3>4. ring[(wr - j) % Size] = written[Len(written) + 1 - j]
      BY <2>1, <3>1 DEF LatestInv, Holds
    <3>5. Len(written) + 1 - j = Len(written) - Ahead + k
      BY <2>1, <2>2
    <3>6. QED
      BY <1>1, <3>2, <3>3, <3>4, <3>5
  <2>4. QED
    BY <1>1, <2>1, <2>2, <2>3
<1>4. QED
  BY <1>2, <1>3

(***************************************************************************)
(* Theorem.  Outside a write, what lies between the two cursors is the end *)
(* of what the tasks have logged, with a host or without one: a write that *)
(* wraps in do_write (defmt_rtt.rs), and one that overwrites bytes nobody  *)
(* has read, leave no hole and no stale byte in between.                   *)
(***************************************************************************)
THEOREM LatestBetweenCursors == Spec => []UnreadIsLatest
<1>1. Init => FrameInv /\ LatestInv /\ AbsentInv
  BY DEF Init, FrameInv, FramesWhole, FrameEnded, Framing, LatestInv, CopyInRing, Holds,
         AbsentInv
<1>2. Spec => []FrameInv
  BY <1>1, InvInit, InvStep, FrameInvStep, PTL DEF Spec
<1>3. QED
  BY <1>1, <1>2, InvHolds, LatestInvStep, AbsentInvStep, LatestFollows, PTL DEF Spec
=============================================================================

-------------------------- MODULE ControllerProofs --------------------------
(***************************************************************************)
(* Theorems about Controller, for any finite set of threads, any number of *)
(* priorities and timers, and any bounds.                                  *)
(***************************************************************************)
EXTENDS Controller, FiniteSetTheorems, Induction, TLAPS

LEMMA ThreadFinite == IsFiniteSet(Thread)
  BY ThreadAssumption, FS_AddElement DEF Thread

\* Putting a message on a priority queue leaves a priority queue.
LEMMA PutType ==
  ASSUME NEW q \in [Priority -> Seq(Message)], NEW m \in Message
  PROVE  Put(q, m) \in [Priority -> Seq(Message)]
<1>1. m.prio \in Priority
  BY DEF Message
<1>2. Append(q[m.prio], m) \in Seq(Message)
  BY <1>1
<1> QED BY <1>1, <1>2 DEF Put

\* A priority queue holds a natural number of messages.
LEMMA CountType ==
  ASSUME NEW q \in [Priority -> Seq(Message)]
  PROVE  Count(q) \in Nat
<1> DEFINE Slots == {{p} \X DOMAIN q[p] : p \in Priority}
<1>1. IsFiniteSet(Priority)
  BY PriorityAssumption, FS_Interval DEF Priority
<1>2. IsFiniteSet(Slots)
  <2> DEFINE f == [p \in Priority |-> {p} \X DOMAIN q[p]]
  <2>1. f \in Surjection(Priority, Slots)
    BY DEF Surjection
  <2> QED BY <1>1, <2>1, FS_Surjection
<1>3. ASSUME NEW S \in Slots PROVE IsFiniteSet(S)
  <2>1. PICK p \in Priority : S = {p} \X DOMAIN q[p]
    BY <1>3
  <2>2. IsFiniteSet(DOMAIN q[p])
    <3>1. q[p] \in Seq(Message)
      OBVIOUS
    <3>2. DOMAIN q[p] = 1 .. Len(q[p]) /\ Len(q[p]) \in Nat
      BY <3>1
    <3> QED BY <3>2, FS_Interval
  <2> QED BY <2>1, <2>2, FS_Singleton, FS_Product
<1>4. IsFiniteSet(UNION Slots)
  BY <1>2, <1>3, FS_UNION
<1> QED BY <1>4, FS_CardinalityType DEF Count

\* The message a thread is about to send is a message, if it has not used up
\* the numbers.
LEMMA MessageOfType ==
  ASSUME TypeOK,
         NEW t \in Thread, NEW via \in Via, NEW kind \in Kind, NEW p \in Priority
  PROVE  MessageOf(t, via, kind, p) \in Message
<1>1. sent[t] + 1 \in 0 .. MaxSend + MaxOwn + 1
  BY BoundAssumption DEF TypeOK
<1> QED BY <1>1 DEF MessageOf, Message, Source

LEMMA TimerMessageType ==
  ASSUME NEW t \in Timer, NEW p \in Priority
  PROVE  TimerMessage(t, p) \in Message
  BY BoundAssumption DEF TimerMessage, Message, Source, Via, Kind

LEMMA EnqueueType ==
  ASSUME TypeOK, NEW t \in Thread, NEW kind \in Kind, NEW p \in Priority,
         sent[t] < MaxSend + MaxOwn,
         EnqueueIncoming(t, kind, p)
  PROVE  TypeOK'
<1>1. MessageOf(t, "incoming", kind, p) \in Message
  BY MessageOfType DEF Via
<1>2. incoming' \in [Priority -> Seq(Message)]
  BY <1>1, PutType DEF EnqueueIncoming, TypeOK
<1>3. sent' \in [Thread -> 0 .. MaxSend + MaxOwn]
  BY BoundAssumption DEF EnqueueIncoming, TypeOK
<1>4. notify' \in [Thread -> {"idle", "ioctl", "write"}]
  BY DEF EnqueueIncoming, TypeOK
<1> QED BY <1>2, <1>3, <1>4 DEF EnqueueIncoming, TypeOK, timerVars, loopVars

LEMMA InitTypeOK == Init => TypeOK
<1> SUFFICES ASSUME Init PROVE TypeOK
  OBVIOUS
<1>1. EmptyQueues \in [Priority -> Seq(Message)]
  BY DEF EmptyQueues
<1>2. sent \in [Thread -> 0 .. MaxSend + MaxOwn]
  <2>1. 0 \in 0 .. MaxSend + MaxOwn
    BY BoundAssumption
  <2> QED BY <2>1 DEF Init
<1>3. scan \in 0 .. NumPriority
  BY PriorityAssumption DEF Init
<1> QED BY <1>1, <1>2, <1>3 DEF Init, TypeOK, Pcs

\* Every step keeps the types.
LEMMA NextTypeOK == TypeOK /\ [Next]_vars => TypeOK'
<1> SUFFICES ASSUME TypeOK, [Next]_vars PROVE TypeOK'
  OBVIOUS
<1> USE DEF pipeVars, timerVars, loopVars
<1>1. ASSUME NEW t \in Remote, RemoteSend(t) PROVE TypeOK'
  <2>1. t \in Thread /\ sent[t] \in Nat
    BY BoundAssumption DEF Thread, TypeOK
  <2>2. sent[t] < MaxSend + MaxOwn
    BY <1>1, <2>1, BoundAssumption DEF RemoteSend
  <2>3. PICK kind \in Kind, p \in Priority : EnqueueIncoming(t, kind, p)
    BY <1>1 DEF RemoteSend
  <2> QED BY <2>1, <2>2, <2>3, EnqueueType
<1>2. ASSUME NEW t \in Thread, CheckPipe(t) PROVE TypeOK'
  BY <1>2 DEF CheckPipe, TypeOK
<1>3. ASSUME NEW t \in Thread, WriteByte(t) PROVE TypeOK'
  BY <1>3 DEF WriteByte, TypeOK
<1>4. CASE StoreTid
  BY <1>4 DEF StoreTid, TypeOK
<1>5. CASE OwnSend
  <2>1. capsule' \in [Priority -> Seq(Message)]
    <3>1. PICK kind \in Kind, p \in Priority :
            capsule' = Put(capsule, MessageOf(Self, "capsule", kind, p))
      BY <1>5 DEF OwnSend
    <3>2. MessageOf(Self, "capsule", kind, p) \in Message
      BY MessageOfType DEF Thread, Via
    <3> QED BY <3>1, <3>2, PutType DEF TypeOK
  <2>2. sent' \in [Thread -> 0 .. MaxSend + MaxOwn]
    <3>1. sent[Self] \in Nat
      BY BoundAssumption DEF TypeOK, Thread
    <3>2. (sent[Self] + 1) % (MaxOwn + 1) \in 0 .. MaxOwn
      BY <3>1, BoundAssumption
    <3>3. 0 .. MaxOwn \subseteq 0 .. MaxSend + MaxOwn
      BY BoundAssumption
    <3>4. sent' = [sent EXCEPT ![Self] = (sent[Self] + 1) % (MaxOwn + 1)]
      BY <1>5 DEF OwnSend
    <3> QED BY <3>2, <3>3, <3>4 DEF TypeOK
  <2> QED BY <1>5, <2>1, <2>2 DEF OwnSend, TypeOK
<1>6. CASE OwnSendEarly
  <2>1. Self \in Thread /\ sent[Self] \in Nat
    BY BoundAssumption DEF Thread, TypeOK
  <2>2. sent[Self] < MaxSend + MaxOwn
    BY <1>6, <2>1, BoundAssumption DEF OwnSendEarly
  <2>3. PICK kind \in Kind, p \in Priority : EnqueueIncoming(Self, kind, p)
    BY <1>6 DEF OwnSendEarly
  <2> QED BY <2>1, <2>2, <2>3, EnqueueType
<1>7. ASSUME NEW t \in Timer, StartTimer(t) PROVE TypeOK'
  BY <1>7 DEF StartTimer, TypeOK
<1>8. ASSUME NEW t \in Timer, CancelTimer(t) PROVE TypeOK'
  BY <1>8 DEF CancelTimer, TypeOK
<1>9. CASE UserReturns
  BY <1>9 DEF UserReturns, TypeOK, Pcs
<1>10. ASSUME NEW t \in Timer, QueueTimerMessage(t) PROVE TypeOK'
  <2>1. capsule' \in [Priority -> Seq(Message)]
    <3>1. PICK p \in Priority : capsule' = Put(capsule, TimerMessage(t, p))
      BY <1>10 DEF QueueTimerMessage
    <3> QED BY <3>1, TimerMessageType, PutType DEF TypeOK
  <2>2. timers' \subseteq Timer /\ due' \subseteq timers' /\ timerPipe' \in BOOLEAN
    BY <1>10 DEF QueueTimerMessage, TypeOK
  <2> QED BY <1>10, <2>1, <2>2 DEF QueueTimerMessage, TypeOK
<1>11. CASE NoMoreDue
  BY <1>11, PriorityAssumption DEF NoMoreDue, TypeOK, Pcs
<1>12. CASE MoveAll
  <2>1. scan \in Priority /\ scan + 1 \in 0 .. NumPriority
    BY <1>12, PriorityAssumption DEF MoveAll, TypeOK, Priority
  <2>2. capsule[scan] \o incoming[scan] \in Seq(Message)
    BY <2>1 DEF TypeOK
  <2>3. capsule' \in [Priority -> Seq(Message)]
    BY <1>12, <2>1, <2>2 DEF MoveAll, TypeOK
  <2>4. incoming' \in [Priority -> Seq(Message)]
    BY <1>12, <2>1 DEF MoveAll, TypeOK
  <2> QED BY <1>12, <2>1, <2>3, <2>4 DEF MoveAll, TypeOK
<1>13. CASE CountCapsule
  BY <1>13, CountType DEF CountCapsule, TypeOK, Pcs
<1>14. ASSUME NEW p \in Priority, TakeMessage(p) PROVE TypeOK'
  <2>1. capsule[p] \in Seq(Message) /\ capsule[p] # <<>>
    BY <1>14 DEF TakeMessage, IsHighest, TypeOK
  <2>2. Head(capsule[p]) \in Message /\ Tail(capsule[p]) \in Seq(Message)
    BY <2>1
  <2>3. capsule' \in [Priority -> Seq(Message)]
    BY <1>14, <2>2 DEF TakeMessage, TypeOK
  <2>4. Head(capsule[p]).kind \in Kind
    BY <2>2 DEF Message
  <2>5. /\ msg' \in Message \cup {NoMessage}
        /\ pc' \in Pcs
        /\ stop' \in {"no", "exit", "abort"}
    BY <1>14, <2>2, <2>4, CommandAssumption DEF TakeMessage, TypeOK, Pcs, Kind
  <2>6. left' \in Nat
    BY <1>14 DEF TakeMessage, MayTakeMore, TypeOK
  <2> QED BY <1>14, <2>3, <2>5, <2>6 DEF TakeMessage, TypeOK
<1>15. CASE EndInner
  BY <1>15 DEF EndInner, TypeOK, Pcs
<1>16. CASE CheckTimers
  BY <1>16, PriorityAssumption DEF CheckTimers, TypeOK, Pcs
<1>17. CASE CheckIncoming
  BY <1>17, PriorityAssumption DEF CheckIncoming, TypeOK, Pcs
<1>18. CASE Wake \/ WakeForNothing
  BY <1>18 DEF Wake, WakeForNothing, SelectReturns, Readable, TypeOK, Pcs
<1>19. CASE ClearFirst
  BY <1>19 DEF ClearFirst, TypeOK, Pcs
<1>20. CASE ClearRest
  BY <1>20 DEF ClearRest, TypeOK, Pcs
<1>21. CASE ClearTimer
  BY <1>21 DEF ClearTimer, TypeOK, Pcs
<1>22. ASSUME NEW t \in Timer, Elapse(t) PROVE TypeOK'
  BY <1>22 DEF Elapse, TypeOK
<1>23. CASE Returned \/ UNCHANGED vars
  BY <1>23 DEF Returned, vars, TypeOK
<1> QED
  BY <1>1, <1>2, <1>3, <1>4, <1>5, <1>6, <1>7, <1>8, <1>9, <1>10, <1>11, <1>12,
     <1>13, <1>14, <1>15, <1>16, <1>17, <1>18, <1>19, <1>20, <1>21, <1>22, <1>23
     DEF Next, User, Loop, Wait, Notify, Clock

\* The controller's state keeps its type.
THEOREM Typing == Spec => []TypeOK
  BY InitTypeOK, NextTypeOK, PTL DEF Spec
-----------------------------------------------------------------------------
LEMMA InitInv == Init => Inv
<1> SUFFICES ASSUME Init PROVE Inv
  OBVIOUS
<1>1. TypeOK
  BY InitTypeOK
<1>2. Announced
  BY DEF Init, EmptyQueues, Announced
<1>3. ClearFindsByte /\ ByteToClear
  BY DEF Init, ClearFindsByte, ByteToClear
<1>4. PipeBounded
  <2>1. {t \in Thread : notify[t] = "write"} = {}
    BY DEF Init
  <2> QED BY <2>1, FS_EmptySet, ThreadFinite, FS_CardinalityType DEF Init, PipeBounded
<1>5. Routed
  BY DEF Init, EmptyQueues, Routed, AllOn
<1> QED BY <1>1, <1>2, <1>3, <1>4, <1>5 DEF Inv

\* A message that is put on the incoming queue is announced by the thread that
\* puts it; a thread that leaves the pipe alone has found a byte in it; and the
\* controller, when it empties the pipe, goes back to moveAll.
LEMMA NextAnnounced == Inv /\ [Next]_vars => Announced'
<1> SUFFICES ASSUME Inv, [Next]_vars PROVE Announced'
  OBVIOUS
<1> USE DEF pipeVars, timerVars, loopVars
<1>1. ASSUME NEW t \in Thread, NEW kind \in Kind, NEW p \in Priority,
             EnqueueIncoming(t, kind, p)
      PROVE  Announced'
  BY <1>1 DEF EnqueueIncoming, Announced, Inv, TypeOK
<1>2. ASSUME NEW t \in Thread, CheckPipe(t) PROVE Announced'
  <2>1. CASE pipe = 0
    BY <1>2, <2>1 DEF CheckPipe, Announced, Inv, TypeOK
  <2>2. CASE pipe # 0
    BY <1>2, <2>2 DEF CheckPipe, Announced, Inv, TypeOK
  <2> QED BY <2>1, <2>2
<1>3. ASSUME NEW t \in Thread, WriteByte(t) PROVE Announced'
  BY <1>3 DEF WriteByte, Announced, Inv, TypeOK
<1>4. CASE StoreTid \/ OwnSend \/ \E t \in Timer : StartTimer(t) \/ CancelTimer(t)
  BY <1>4 DEF StoreTid, OwnSend, StartTimer, CancelTimer, Announced, Inv
<1>5. CASE UserReturns
  BY <1>5 DEF UserReturns, Announced, Inv
<1>6. CASE \E t \in Timer : QueueTimerMessage(t) \/ Elapse(t)
  BY <1>6 DEF QueueTimerMessage, Elapse, Announced, Inv
<1>7. CASE NoMoreDue
  BY <1>7 DEF NoMoreDue, Announced, Inv, Priority
<1>8. CASE MoveAll
  BY <1>8 DEF MoveAll, Announced, Inv, TypeOK, Priority
<1>9. CASE CountCapsule
  BY <1>9, PriorityAssumption DEF CountCapsule, Announced, Inv, Priority
<1>10. ASSUME NEW p \in Priority, TakeMessage(p) PROVE Announced'
  BY <1>10 DEF TakeMessage, Announced, Inv
<1>11. CASE EndInner
  BY <1>11 DEF EndInner, Announced, Inv
<1>12. CASE CheckTimers \/ CheckIncoming
  BY <1>12 DEF CheckTimers, CheckIncoming, Announced, Inv
<1>13. CASE Wake \/ WakeForNothing
  BY <1>13 DEF Wake, WakeForNothing, SelectReturns, Announced, Inv
<1>14. CASE ClearFirst \/ ClearRest
  BY <1>14 DEF ClearFirst, ClearRest, Announced, Inv, TypeOK, ByteToClear
<1>15. CASE ClearTimer
  BY <1>15 DEF ClearTimer, Announced, Inv
<1>16. CASE Returned \/ UNCHANGED vars
  BY <1>16 DEF Returned, vars, Announced, Inv
<1>17. Self \in Thread /\ Remote \subseteq Thread
  BY DEF Thread
<1> QED
  BY <1>1, <1>2, <1>3, <1>4, <1>5, <1>6, <1>7, <1>8, <1>9, <1>10, <1>11, <1>12,
     <1>13, <1>14, <1>15, <1>16, <1>17
     DEF Next, RemoteSend, OwnSendEarly, User, Loop, Wait, Notify, Clock

\* Nobody but the controller takes a byte out of the pipe.
LEMMA NextByte == Inv /\ [Next]_vars => ClearFindsByte' /\ ByteToClear'
<1> SUFFICES ASSUME Inv, [Next]_vars PROVE ClearFindsByte' /\ ByteToClear'
  OBVIOUS
<1> USE DEF pipeVars, timerVars, loopVars, Inv, ClearFindsByte, ByteToClear
<1>1. CASE \E t \in Remote : RemoteSend(t)
  BY <1>1 DEF RemoteSend, EnqueueIncoming
<1>2. CASE \E t \in Thread : Notify(t)
  BY <1>2 DEF Notify, CheckPipe, WriteByte, TypeOK
<1>3. CASE StoreTid \/ User
  BY <1>3 DEF StoreTid, User, OwnSend, OwnSendEarly, EnqueueIncoming, StartTimer,
              CancelTimer
<1>4. CASE Loop
  BY <1>4 DEF Loop, UserReturns, QueueTimerMessage, NoMoreDue, MoveAll,
              CountCapsule, TakeMessage, EndInner
<1>5. CASE Wait \/ WakeForNothing
  <2>1. CASE CheckTimers \/ CheckIncoming \/ ClearTimer
    BY <2>1 DEF CheckTimers, CheckIncoming, ClearTimer
  <2>2. CASE Wake \/ WakeForNothing
    BY <2>2 DEF Wake, WakeForNothing, SelectReturns, Readable
  <2>3. CASE ClearFirst \/ ClearRest
    BY <2>3 DEF ClearFirst, ClearRest
  <2> QED BY <1>5, <2>1, <2>2, <2>3 DEF Wait
<1>6. CASE Clock \/ Returned \/ UNCHANGED vars
  BY <1>6 DEF Clock, Elapse, Returned, vars
<1> QED BY <1>1, <1>2, <1>3, <1>4, <1>5, <1>6 DEF Next

\* A thread decides to write only when the pipe is empty, and then at most every
\* thread is about to write; after that the sum cannot grow.
LEMMA NextPipeBounded == Inv /\ [Next]_vars => PipeBounded'
<1> SUFFICES ASSUME Inv, [Next]_vars PROVE PipeBounded'
  OBVIOUS
<1> USE DEF pipeVars, timerVars, loopVars
<1> DEFINE Writers == {t \in Thread : notify[t] = "write"}
<1>1. /\ IsFiniteSet(Writers) /\ IsFiniteSet(Writers')
      /\ Cardinality(Writers) \in Nat /\ Cardinality(Writers') \in Nat
      /\ Cardinality(Writers') <= Cardinality(Thread)
      /\ Cardinality(Thread) \in Nat
  BY ThreadFinite, FS_Subset, FS_CardinalityType
<1>2. pipe + Cardinality(Writers) <= Cardinality(Thread) /\ pipe \in Nat
  BY DEF Inv, PipeBounded, TypeOK
<1>3. ASSUME pipe' = pipe, Writers' = Writers PROVE PipeBounded'
  BY <1>2, <1>3 DEF PipeBounded
<1>4. ASSUME NEW t \in Thread, NEW kind \in Kind, NEW p \in Priority,
             EnqueueIncoming(t, kind, p)
      PROVE  PipeBounded'
  <2>1. pipe' = pipe /\ Writers' = Writers
    BY <1>4 DEF EnqueueIncoming, Inv, TypeOK
  <2> QED BY <2>1, <1>3
<1>5. ASSUME NEW t \in Thread, CheckPipe(t) PROVE PipeBounded'
  <2>1. CASE pipe = 0
    BY <1>1, <1>5, <2>1 DEF CheckPipe, PipeBounded
  <2>2. CASE pipe # 0
    <3>1. pipe' = pipe /\ Writers' = Writers
      BY <1>5, <2>2 DEF CheckPipe, Inv, TypeOK
    <3> QED BY <3>1, <1>3
  <2> QED BY <2>1, <2>2
<1>6. ASSUME NEW t \in Thread, WriteByte(t) PROVE PipeBounded'
  <2>1. t \in Writers /\ Writers' = Writers \ {t} /\ pipe' = pipe + 1
    BY <1>6 DEF WriteByte, Inv, TypeOK
  <2>2. Cardinality(Writers') = Cardinality(Writers) - 1
    BY <1>1, <2>1, FS_RemoveElement
  <2>3. pipe' + Cardinality(Writers') <= Cardinality(Thread)
    BY <1>1, <1>2, <2>1, <2>2
  <2> QED BY <2>3 DEF PipeBounded
<1>7. CASE ClearFirst \/ ClearRest
  <2>1. Writers' = Writers /\ (pipe' = pipe \/ pipe' = pipe - 1)
    BY <1>7 DEF ClearFirst, ClearRest
  <2>2. pipe' + Cardinality(Writers') <= Cardinality(Thread)
    BY <1>1, <1>2, <2>1
  <2> QED BY <2>2 DEF PipeBounded
<1>8. CASE StoreTid \/ OwnSend \/ \E t \in Timer : StartTimer(t) \/ CancelTimer(t)
  BY <1>8, <1>3 DEF StoreTid, OwnSend, StartTimer, CancelTimer
<1>9. CASE Loop
  BY <1>9, <1>3 DEF Loop, UserReturns, QueueTimerMessage, NoMoreDue, MoveAll,
                    CountCapsule, TakeMessage, EndInner
<1>10. CASE CheckTimers \/ CheckIncoming \/ Wake \/ WakeForNothing \/ ClearTimer
  BY <1>10, <1>3 DEF CheckTimers, CheckIncoming, Wake, WakeForNothing,
                     SelectReturns, ClearTimer
<1>11. CASE Clock \/ Returned \/ UNCHANGED vars
  BY <1>11, <1>3 DEF Clock, Elapse, Returned, vars
<1>12. CASE (\E t \in Remote : RemoteSend(t)) \/ OwnSendEarly
  BY <1>12, <1>4 DEF Thread, RemoteSend, OwnSendEarly
<1>13. CASE Wait
  BY <1>13, <1>7, <1>10 DEF Wait
<1>14. CASE User
  BY <1>14, <1>8, <1>12 DEF User
<1>15. CASE \E t \in Thread : Notify(t)
  BY <1>15, <1>5, <1>6 DEF Notify
<1> HIDE DEF Writers
<1> QED
  BY <1>8, <1>9, <1>10, <1>11, <1>12, <1>13, <1>14, <1>15 DEF Next

-----------------------------------------------------------------------------
(* The messages of one route in a queue.                                   *)

\* The recursion that defines Along for the first n messages of s.
Taken(f, s, r, n) ==
  f = [i \in 0 .. n |-> IF i = 0 THEN <<>>
                        ELSE IF OnRoute(s[i], r) THEN Append(f[i - 1], s[i]) ELSE f[i - 1]]

\* It has a solution for any sequence.
LEMMA TakenExists ==
  ASSUME NEW s, NEW r, NEW n \in Nat
  PROVE  \E f : Taken(f, s, r, n)
<1> DEFINE T == {k \in Nat : \E f : Taken(f, s, r, k)}
<1>1. 0 \in T
  <2>1. Taken([i \in 0 .. 0 |-> <<>>], s, r, 0)
    BY DEF Taken
  <2> QED BY <2>1
<1>2. ASSUME NEW k \in T PROVE k + 1 \in T
  <2>1. PICK f : Taken(f, s, r, k)
    BY <1>2
  <2> DEFINE last == IF OnRoute(s[k + 1], r) THEN Append(f[k], s[k + 1]) ELSE f[k]
             g == [i \in 0 .. k + 1 |-> IF i \in 0 .. k THEN f[i] ELSE last]
  <2>2. ASSUME NEW i \in 0 .. k + 1
        PROVE  g[i] = IF i = 0 THEN <<>>
                      ELSE IF OnRoute(s[i], r) THEN Append(g[i - 1], s[i]) ELSE g[i - 1]
    <3>1. CASE i = 0
      BY <2>1, <3>1 DEF Taken
    <3>2. CASE i \in 1 .. k
      <4>1. g[i] = f[i] /\ g[i - 1] = f[i - 1] /\ i \in 0 .. k /\ i # 0
        BY <3>2
      <4> HIDE DEF g
      <4> QED BY <2>1, <4>1 DEF Taken
    <3>3. CASE i = k + 1
      <4>1. g[i] = last /\ g[i - 1] = f[k]
        BY <3>3
      <4> QED BY <3>3, <4>1
    <3> QED BY <3>1, <3>2, <3>3
  <2>3. \E h : Taken(h, s, r, k + 1)
    <3>1. Taken(g, s, r, k + 1)
      BY <2>2 DEF Taken
    <3> QED BY <3>1
  <2> QED BY <2>3
<1>3. T = Nat
  <2>1. T \in SUBSET Nat
    OBVIOUS
  <2> HIDE DEF T
  <2> QED BY <1>1, <1>2, <2>1, NumberInduction
<1> QED BY <1>3

\* So Along is the value for all of s, of one such solution.
LEMMA AlongTaken ==
  ASSUME NEW s \in Seq(Message), NEW r
  PROVE  \E f : Taken(f, s, r, Len(s)) /\ Along(s, r) = f[Len(s)]
<1>1. Len(s) \in Nat
  OBVIOUS
<1>2. \E f : Taken(f, s, r, Len(s))
  BY <1>1, TakenExists
<1> DEFINE taken == CHOOSE f : Taken(f, s, r, Len(s))
<1>3. Along(s, r) = taken[Len(s)]
  BY DEF Along, Taken
<1>4. Taken(taken, s, r, Len(s))
  BY <1>2
<1> QED BY <1>3, <1>4

\* The first n messages of two sequences are the same.
Agree(s, t, n) == \A i \in 1 .. n : s[i] = t[i]

\* Two solutions agree as far as the sequences agree.
LEMMA TakenUnique ==
  ASSUME NEW s, NEW t, NEW r, NEW f, NEW g, NEW n \in Nat, NEW m \in Nat, n <= m,
         Taken(f, s, r, n), Taken(g, t, r, m), Agree(s, t, n)
  PROVE  f[n] = g[n]
<1> DEFINE T == {k \in Nat : k <= n => f[k] = g[k]}
<1>1. 0 \in T
  BY DEF Taken
<1>2. ASSUME NEW k \in T PROVE k + 1 \in T
  <2> SUFFICES ASSUME k + 1 <= n PROVE f[k + 1] = g[k + 1]
    OBVIOUS
  <2>1. /\ f[k] = g[k] /\ k + 1 \in 1 .. n /\ k + 1 \in 0 .. m /\ k + 1 \in 0 .. n
        /\ k + 1 # 0 /\ (k + 1) - 1 = k
    OBVIOUS
  <2>2. f[k + 1] = IF OnRoute(s[k + 1], r) THEN Append(f[k], s[k + 1]) ELSE f[k]
    BY <2>1 DEF Taken
  <2>3. g[k + 1] = IF OnRoute(t[k + 1], r) THEN Append(g[k], t[k + 1]) ELSE g[k]
    BY <2>1 DEF Taken
  <2> QED BY <2>1, <2>2, <2>3 DEF Agree
<1>3. T = Nat
  <2>1. T \in SUBSET Nat
    OBVIOUS
  <2> HIDE DEF T
  <2> QED BY <1>1, <1>2, <2>1, NumberInduction
<1> QED BY <1>3

LEMMA AlongEmpty == ASSUME NEW r PROVE Along(<<>>, r) = <<>>
<1>1. <<>> \in Seq(Message) /\ Len(<<>>) = 0
  BY EmptySeq
<1>2. PICK f : Taken(f, <<>>, r, 0) /\ Along(<<>>, r) = f[0]
  BY <1>1, AlongTaken
<1> QED BY <1>2 DEF Taken

\* A message that is added to the queue is added to the messages of its route.
LEMMA AlongAppend ==
  ASSUME NEW s \in Seq(Message), NEW m \in Message, NEW r
  PROVE  Along(Append(s, m), r) =
           IF OnRoute(m, r) THEN Append(Along(s, r), m) ELSE Along(s, r)
<1>1. PICK n \in Nat : n = Len(s)
  OBVIOUS
<1>2. PICK t \in Seq(Message) : t = Append(s, m)
  BY AppendProperties
<1>3. Len(t) = n + 1 /\ t[n + 1] = m /\ \A i \in 1 .. n : s[i] = t[i]
  BY <1>1, <1>2, AppendProperties
<1>4. PICK f : Taken(f, s, r, n) /\ Along(s, r) = f[n]
  BY <1>1, AlongTaken
<1>5. PICK k \in Nat : k = n + 1
  BY <1>1
<1>6. PICK g : Taken(g, t, r, k) /\ Along(t, r) = g[k]
  BY <1>3, <1>5, AlongTaken
<1>7. f[n] = g[n]
  <2>1. n <= k
    BY <1>1, <1>5
  <2>2. Agree(s, t, n)
    BY <1>3 DEF Agree
  <2> QED BY <1>4, <1>6, <2>1, <2>2, TakenUnique
<1>8. g[k] = IF OnRoute(t[k], r) THEN Append(g[n], t[k]) ELSE g[n]
  <2>1. k \in 0 .. k /\ k # 0 /\ k - 1 = n
    BY <1>1, <1>5
  <2> QED BY <1>6, <2>1 DEF Taken
<1> QED BY <1>2, <1>3, <1>4, <1>5, <1>6, <1>7, <1>8

LEMMA AlongType ==
  ASSUME NEW s \in Seq(Message), NEW r
  PROVE  Along(s, r) \in Seq(Message)
<1> DEFINE T == {q \in Seq(Message) : Along(q, r) \in Seq(Message)}
<1>1. <<>> \in T
  BY AlongEmpty, EmptySeq
<1>2. ASSUME NEW q \in T, NEW m \in Message PROVE Append(q, m) \in T
  BY AlongAppend, AppendProperties
<1>3. T = Seq(Message)
  <2>1. T \in SUBSET Seq(Message)
    OBVIOUS
  <2> HIDE DEF T
  <2> QED BY <1>1, <1>2, <2>1, SequenceInduction
<1> QED BY <1>3

LEMMA ConcatAppend ==
  ASSUME NEW s \in Seq(Message), NEW t \in Seq(Message), NEW m \in Message
  PROVE  s \o Append(t, m) = Append(s \o t, m)
<1>1. <<m>> \in Seq(Message) /\ s \o t \in Seq(Message)
  BY ConcatProperties
<1> QED BY <1>1, AppendIsConcat, ConcatAssociative

\* The messages of a route in two queues, one behind the other.
LEMMA AlongConcat ==
  ASSUME NEW s \in Seq(Message), NEW t \in Seq(Message), NEW r
  PROVE  Along(s \o t, r) = Along(s, r) \o Along(t, r)
<1> DEFINE T == {q \in Seq(Message) : Along(s \o q, r) = Along(s, r) \o Along(q, r)}
<1>1. <<>> \in T
  BY AlongEmpty, AlongType, ConcatEmptySeq, EmptySeq
<1>2. ASSUME NEW q \in T, NEW m \in Message PROVE Append(q, m) \in T
  <2>1. s \o q \in Seq(Message) /\ Append(q, m) \in Seq(Message)
    BY ConcatProperties, AppendProperties
  <2>2. s \o Append(q, m) = Append(s \o q, m)
    BY ConcatAppend
  <2>3. Along(s, r) \in Seq(Message) /\ Along(q, r) \in Seq(Message)
    BY AlongType
  <2>4. Along(s, r) \o Append(Along(q, r), m) = Append(Along(s, r) \o Along(q, r), m)
    BY <2>3, ConcatAppend
  <2>5. Along(s \o q, r) = Along(s, r) \o Along(q, r)
    OBVIOUS
  <2>6. Along(s \o Append(q, m), r) = Along(s, r) \o Along(Append(q, m), r)
    <3>1. CASE OnRoute(m, r)
      BY <2>1, <2>2, <2>4, <2>5, <3>1, AlongAppend
    <3>2. CASE ~ OnRoute(m, r)
      <4>1. Along(Append(s \o q, m), r) = Along(s \o q, r) /\ Along(Append(q, m), r) = Along(q, r)
        BY <2>1, <3>2, AlongAppend
      <4> QED BY <2>2, <2>5, <4>1
    <3> QED BY <3>1, <3>2
  <2> QED BY <2>1, <2>6
<1>3. T = Seq(Message)
  <2>1. T \in SUBSET Seq(Message)
    OBVIOUS
  <2> HIDE DEF T
  <2> QED BY <1>1, <1>2, <2>1, SequenceInduction
<1> QED BY <1>3

\* The first message of a queue is the first one of its route.
LEMMA AlongFirst ==
  ASSUME NEW m \in Message, NEW s \in Seq(Message), NEW r
  PROVE  Along(<<m>> \o s, r) = IF OnRoute(m, r) THEN <<m>> \o Along(s, r) ELSE Along(s, r)
<1>1. PICK first : first = <<m>>
  OBVIOUS
<1>2. first \in Seq(Message) /\ first = Append(<<>>, m)
  BY <1>1
<1>3. <<>> \in Seq(Message)
  BY EmptySeq
<1>4. Along(first, r) = IF OnRoute(m, r) THEN Append(<<>>, m) ELSE <<>>
  BY <1>2, <1>3, AlongAppend, AlongEmpty
<1>5. Along(first \o s, r) = Along(first, r) \o Along(s, r)
  BY <1>2, AlongConcat
<1>6. Along(s, r) \in Seq(Message)
  BY AlongType
<1>7. <<>> \o Along(s, r) = Along(s, r)
  BY <1>6, ConcatEmptySeq
<1> QED BY <1>1, <1>2, <1>4, <1>5, <1>7

LEMMA FirstRest ==
  ASSUME NEW s \in Seq(Message), NEW t \in Seq(Message), s # <<>>
  PROVE  /\ Head(s) \in Message /\ Tail(s) \in Seq(Message)
         /\ s \o t = <<Head(s)>> \o (Tail(s) \o t)
         /\ Head(s) = s[1] /\ 1 \in DOMAIN s
<1>1. Head(s) \in Message /\ Tail(s) \in Seq(Message) /\ s = <<Head(s)>> \o Tail(s)
  BY HeadTailProperties
<1>2. PICK h, u : h = Head(s) /\ u = Tail(s)
  OBVIOUS
<1>3. <<h>> \in Seq(Message) /\ u \in Seq(Message)
  BY <1>1, <1>2
<1>4. (<<h>> \o u) \o t = <<h>> \o (u \o t)
  BY <1>3, ConcatAssociative
<1>5. Head(s) = s[1] /\ 1 \in DOMAIN s
  OBVIOUS
<1> QED BY <1>1, <1>2, <1>4, <1>5

\* There are none if no message came along the route.
LEMMA AlongNone ==
  ASSUME NEW s \in Seq(Message), NEW r, \A i \in DOMAIN s : ~ OnRoute(s[i], r)
  PROVE  Along(s, r) = <<>>
<1> DEFINE T == {q \in Seq(Message) : (\A i \in 1 .. Len(q) : ~ OnRoute(q[i], r))
                                        => Along(q, r) = <<>>}
<1>1. <<>> \in T
  BY AlongEmpty, EmptySeq
<1>2. ASSUME NEW q \in T, NEW m \in Message PROVE Append(q, m) \in T
  <2> SUFFICES ASSUME \A i \in 1 .. Len(Append(q, m)) : ~ OnRoute(Append(q, m)[i], r)
               PROVE  Along(Append(q, m), r) = <<>>
    BY AppendProperties
  <2>1. \A i \in 1 .. Len(q) : i \in 1 .. Len(Append(q, m)) /\ Append(q, m)[i] = q[i]
    BY AppendProperties
  <2>2. ~ OnRoute(m, r)
    <3>1. Len(q) + 1 \in 1 .. Len(Append(q, m)) /\ Append(q, m)[Len(q) + 1] = m
      BY AppendProperties
    <3> QED BY <3>1
  <2>3. Along(q, r) = <<>>
    BY <2>1
  <2> QED BY <2>2, <2>3, AlongAppend
<1>3. T = Seq(Message)
  <2>1. T \in SUBSET Seq(Message)
    OBVIOUS
  <2> HIDE DEF T
  <2> QED BY <1>1, <1>2, <2>1, SequenceInduction
<1>4. DOMAIN s = 1 .. Len(s)
  OBVIOUS
<1> QED BY <1>3, <1>4

-----------------------------------------------------------------------------
(* The controller is a mailbox.                                            *)

\* What Put does to each priority.
LEMMA PutAt ==
  ASSUME NEW q \in [Priority -> Seq(Message)], NEW m \in Message, NEW p \in Priority
  PROVE  Put(q, m)[p] = IF p = m.prio THEN Append(q[p], m) ELSE q[p]
  BY DEF Put, Message

LEMMA AllOnAppend ==
  ASSUME NEW s \in Seq(Message), NEW m \in Message, NEW R, AllOn(s, R),
         \E r \in R : OnRoute(m, r)
  PROVE  AllOn(Append(s, m), R)
  BY AppendProperties DEF AllOn

LEMMA AllOnConcat ==
  ASSUME NEW s \in Seq(Message), NEW t \in Seq(Message), NEW R, AllOn(s, R), AllOn(t, R)
  PROVE  AllOn(s \o t, R)
<1> SUFFICES ASSUME NEW i \in 1 .. Len(s) + Len(t)
             PROVE  \E r \in R : OnRoute((s \o t)[i], r)
  BY ConcatProperties DEF AllOn
<1>1. CASE i <= Len(s)
  <2>1. i \in DOMAIN s /\ (s \o t)[i] = s[i]
    BY <1>1, ConcatProperties
  <2> QED BY <2>1 DEF AllOn
<1>2. CASE i > Len(s)
  <2>1. i - Len(s) \in DOMAIN t /\ (s \o t)[i] = t[i - Len(s)]
    BY <1>2, ConcatProperties
  <2> QED BY <2>1 DEF AllOn
<1> QED BY <1>1, <1>2

LEMMA AllOnTail ==
  ASSUME NEW s \in Seq(Message), NEW R, AllOn(s, R), s # <<>>
  PROVE  AllOn(Tail(s), R)
  BY HeadTailProperties DEF AllOn

\* Every step keeps messages to the routes there are.
LEMMA NextRouted == Inv /\ [Next]_vars => Routed'
<1> SUFFICES ASSUME Inv, [Next]_vars PROVE Routed'
  OBVIOUS
<1>1. /\ TypeOK /\ incoming \in [Priority -> Seq(Message)]
      /\ capsule \in [Priority -> Seq(Message)]
  BY DEF Inv, TypeOK
<1>2. ASSUME incoming' = incoming, capsule' = capsule PROVE Routed'
  BY <1>2 DEF Inv, Routed
<1>3. ASSUME NEW t \in Thread, NEW kind \in Kind, NEW p \in Priority,
             EnqueueIncoming(t, kind, p)
      PROVE  Routed'
  <2> DEFINE m == MessageOf(t, "incoming", kind, p)
  <2>1. m \in Message
    BY <1>1, MessageOfType DEF Via
  <2>2. OnRoute(m, <<t, "incoming">>)
    BY DEF OnRoute, MessageOf
  <2>3. incoming' = Put(incoming, m) /\ capsule' = capsule
    BY <1>3 DEF EnqueueIncoming
  <2> HIDE DEF m
  <2>4. ASSUME NEW w \in Priority PROVE AllOn(incoming'[w], Thread \X {"incoming"})
    <3>1. incoming[w] \in Seq(Message) /\ AllOn(incoming[w], Thread \X {"incoming"})
      BY <1>1 DEF Inv, Routed
    <3>2. AllOn(Append(incoming[w], m), Thread \X {"incoming"})
      BY <2>1, <2>2, <3>1, AllOnAppend
    <3> QED BY <1>1, <2>1, <2>3, <3>1, <3>2, PutAt
  <2> QED BY <2>3, <2>4 DEF Inv, Routed
<1>4. ASSUME NEW m \in Message, NEW r \in Route, OnRoute(m, r),
             capsule' = Put(capsule, m), incoming' = incoming
      PROVE  Routed'
  <2>1. ASSUME NEW w \in Priority PROVE AllOn(capsule'[w], Route)
    <3>1. capsule[w] \in Seq(Message) /\ AllOn(capsule[w], Route)
      BY <1>1 DEF Inv, Routed
    <3>2. AllOn(Append(capsule[w], m), Route)
      BY <1>4, <3>1, AllOnAppend
    <3> QED BY <1>1, <1>4, <3>1, <3>2, PutAt
  <2> QED BY <1>4, <2>1 DEF Inv, Routed
<1>5. CASE OwnSend
  <2>1. PICK kind \in Kind, p \in Priority :
          capsule' = Put(capsule, MessageOf(Self, "capsule", kind, p))
    BY <1>5 DEF OwnSend
  <2>2. /\ MessageOf(Self, "capsule", kind, p) \in Message
        /\ <<Self, "capsule">> \in Route
        /\ OnRoute(MessageOf(Self, "capsule", kind, p), <<Self, "capsule">>)
        /\ incoming' = incoming
    BY <1>1, <1>5, MessageOfType DEF Thread, Via, Route, OnRoute, MessageOf, OwnSend
  <2> QED BY <1>4, <2>1, <2>2
<1>6. ASSUME NEW t \in Timer, QueueTimerMessage(t) PROVE Routed'
  <2>1. PICK p \in Priority : capsule' = Put(capsule, TimerMessage(t, p))
    BY <1>6 DEF QueueTimerMessage
  <2>2. /\ <<t, "capsule">> \in Route /\ OnRoute(TimerMessage(t, p), <<t, "capsule">>)
        /\ incoming' = incoming
    BY <1>6 DEF Route, OnRoute, TimerMessage, QueueTimerMessage
  <2> QED BY <1>4, <2>1, <2>2, TimerMessageType
<1>7. CASE MoveAll
  <2>1. scan \in Priority
    BY <1>1, <1>7, PriorityAssumption DEF MoveAll, TypeOK, Priority
  <2>2. ASSUME NEW w \in Priority
        PROVE  /\ AllOn(incoming'[w], Thread \X {"incoming"})
               /\ AllOn(capsule'[w], Route)
    <3>1. /\ incoming[w] \in Seq(Message) /\ capsule[w] \in Seq(Message)
          /\ AllOn(incoming[w], Thread \X {"incoming"}) /\ AllOn(capsule[w], Route)
      BY <1>1 DEF Inv, Routed
    <3>2. AllOn(incoming[w], Route)
      BY <3>1 DEF AllOn, Route
    <3>3. AllOn(capsule[w] \o incoming[w], Route)
      BY <3>1, <3>2, AllOnConcat
    <3>4. AllOn(<<>>, Thread \X {"incoming"})
      BY DEF AllOn
    <3> QED BY <1>1, <1>7, <2>1, <3>1, <3>3, <3>4 DEF MoveAll
  <2> QED BY <2>2 DEF Routed
<1>8. ASSUME NEW p \in Priority, TakeMessage(p) PROVE Routed'
  <2>1. ASSUME NEW w \in Priority PROVE AllOn(capsule'[w], Route)
    <3>1. capsule[w] \in Seq(Message) /\ AllOn(capsule[w], Route)
      BY <1>1 DEF Inv, Routed
    <3>2. capsule'[w] = IF w = p THEN Tail(capsule[w]) ELSE capsule[w]
      BY <1>1, <1>8 DEF TakeMessage
    <3> QED BY <1>8, <3>1, <3>2, AllOnTail DEF TakeMessage, IsHighest
  <2> QED BY <1>8, <2>1 DEF TakeMessage, Inv, Routed
<1>9. CASE \/ StoreTid \/ (\E t \in Timer : StartTimer(t) \/ CancelTimer(t))
           \/ UserReturns \/ NoMoreDue \/ CountCapsule \/ EndInner
  BY <1>2, <1>9 DEF StoreTid, StartTimer, CancelTimer, UserReturns, NoMoreDue,
                    CountCapsule, EndInner
<1>10. CASE Wait \/ WakeForNothing
  BY <1>2, <1>10 DEF Wait, WakeForNothing, CheckTimers, CheckIncoming, Wake,
                     SelectReturns, ClearFirst, ClearRest, ClearTimer
<1>11. CASE \/ Clock \/ Returned \/ UNCHANGED vars
            \/ \E t \in Thread : Notify(t)
  BY <1>2, <1>11 DEF Clock, Elapse, Returned, vars, Notify, CheckPipe, WriteByte
<1>12. CASE (\E t \in Remote : RemoteSend(t)) \/ OwnSendEarly
  BY <1>3, <1>12 DEF Thread, RemoteSend, OwnSendEarly
<1>13. CASE User
  BY <1>5, <1>9, <1>12, <1>13 DEF User
<1>14. CASE Loop
  BY <1>6, <1>7, <1>8, <1>9, <1>14 DEF Loop
<1> QED BY <1>9, <1>10, <1>11, <1>12, <1>13, <1>14 DEF Next

\* The conjuncts of Inv hold together.
THEOREM Invariance == Spec => []Inv
<1>1. Inv /\ [Next]_vars => Inv'
  BY NextTypeOK, NextAnnounced, NextByte, NextPipeBounded, NextRouted DEF Inv
<1> QED BY InitInv, <1>1, PTL DEF Spec

\* No wake-up is lost: for any number of threads, priorities and messages.
THEOREM WakeupNotLost == Spec => []NoLostWakeup
<1>1. Inv => NoLostWakeup
  BY DEF Inv, Announced, NoLostWakeup
<1> QED BY Invariance, <1>1, PTL

\* clearNotifyFd never ends the process.
THEOREM ClearNeverFatal == Spec => []ClearFindsByte
<1>1. Inv => ClearFindsByte
  BY DEF Inv
<1> QED BY Invariance, <1>1, PTL

\* The pipe holds at most one byte for each thread.
THEOREM PipeNeverFills == Spec => []PipeBounded
<1>1. Inv => PipeBounded
  BY DEF Inv
<1> QED BY Invariance, <1>1, PTL
-----------------------------------------------------------------------------
(* The controller is a mailbox: what its steps do to the channels.         *)

LEMMA ChannelType ==
  ASSUME TypeOK, NEW r, NEW p \in Priority
  PROVE  Channel(r, p) \in Seq(Message)
<1>1. capsule[p] \o incoming[p] \in Seq(Message)
  BY ConcatProperties DEF TypeOK
<1> QED BY <1>1, AlongType DEF Channel

\* A message that is added to one channel, and to no other, is sent.
LEMMA ChannelSend ==
  ASSUME TypeOK, NEW r \in Route, NEW p \in Priority, NEW m \in Message,
         Channel(r, p)' = Append(Channel(r, p), m),
         \A q \in Route, w \in Priority : ~ (q = r /\ w = p) => Channel(q, w)' = Channel(q, w),
         stop' = stop
  PROVE  Box!Next
<1>1. /\ Channels[r][p] = Channel(r, p) /\ Channels'[r][p] = Channel(r, p)'
      /\ Channel(r, p) \in Seq(Message)
  BY ChannelType DEF Channels
<1>2. /\ Len(Channels'[r][p]) = Len(Channels[r][p]) + 1
      /\ Channels'[r][p][Len(Channels'[r][p])] = m
  BY <1>1, AppendProperties
<1>3. Channels' = [Channels EXCEPT ![r][p] = Append(@, m)]
  BY <1>1 DEF Channels
<1>4. Box!Send(r, p)
  BY <1>2, <1>3 DEF Box!Send
<1> QED BY <1>4 DEF Box!Next

\* The first message of a channel that is taken from it, and no other, is taken.
LEMMA ChannelTake ==
  ASSUME TypeOK, NEW r \in Route, NEW p \in Priority, NEW m \in Message, stop = "no",
         Channel(r, p) = <<m>> \o Channel(r, p)',
         Channel(r, p)' \in Seq(Message),
         \A q \in Route, w \in Priority : ~ (q = r /\ w = p) => Channel(q, w)' = Channel(q, w)
  PROVE  Box!Next
<1>1. Channels[r][p] = Channel(r, p) /\ Channels'[r][p] = Channel(r, p)'
  BY DEF Channels
<1>2. Channels[r][p] # <<>> /\ Tail(Channels[r][p]) = Channel(r, p)'
  <2>1. <<m>> \in Seq(Message) /\ Len(<<m>>) = 1
    OBVIOUS
  <2>2. Len(Channel(r, p)) = 1 + Len(Channel(r, p)')
    BY <2>1, ConcatProperties
  <2>3. Tail(<<m>> \o Channel(r, p)') = Channel(r, p)'
    BY <2>1
  <2> QED BY <1>1, <2>1, <2>2, <2>3
<1>3. Channels' = [Channels EXCEPT ![r][p] = Tail(@)]
  <2>1. PICK tail : tail = Tail(Channels[r][p])
    OBVIOUS
  <2>2. \A q \in Route, w \in Priority :
          Channel(q, w)' = IF q = r /\ w = p THEN tail ELSE Channel(q, w)
    BY <1>2, <2>1
  <2>3. Channels' = [q \in Route |-> [w \in Priority |->
                       IF q = r /\ w = p THEN tail ELSE Channel(q, w)]]
    BY <2>2 DEF Channels
  <2>4. Channels' = [Channels EXCEPT ![r][p] = tail]
    BY <2>3 DEF Channels
  <2> QED BY <2>1, <2>4
<1>4. Box!Take(r, p)
  BY <1>2, <1>3 DEF Box!Take
<1> QED BY <1>4 DEF Box!Next

LEMMA ChannelStutter ==
  ASSUME \A q \in Route, w \in Priority : Channel(q, w)' = Channel(q, w), stop' = stop
  PROVE  UNCHANGED Box!vars
  BY DEF Box!vars, Channels

\* A message put on the incoming queue is sent along its route.
LEMMA IncomingSends ==
  ASSUME Inv, NEW t \in Thread, NEW kind \in Kind, NEW p \in Priority,
         EnqueueIncoming(t, kind, p)
  PROVE  Box!Next
<1>1. PICK m \in Message : m = MessageOf(t, "incoming", kind, p)
  BY MessageOfType DEF Via, Inv
<1>2. /\ \A r : OnRoute(m, r) <=> r = <<t, "incoming">>
      /\ m.prio = p /\ <<t, "incoming">> \in Route
  BY <1>1 DEF OnRoute, MessageOf, Route
<1>3. incoming' = Put(incoming, m) /\ capsule' = capsule /\ stop' = stop
  BY <1>1 DEF EnqueueIncoming, loopVars
<1>4. ASSUME NEW q, NEW w \in Priority
      PROVE  Channel(q, w)' = IF w = p /\ OnRoute(m, q) THEN Append(Channel(q, w), m)
                              ELSE Channel(q, w)
  <2>1. incoming[w] \in Seq(Message) /\ capsule[w] \in Seq(Message)
    BY DEF Inv, TypeOK
  <2>2. incoming'[w] = IF w = p THEN Append(incoming[w], m) ELSE incoming[w]
    <3>1. incoming \in [Priority -> Seq(Message)]
      BY DEF Inv, TypeOK
    <3> QED BY <1>1, <1>2, <1>3, <3>1, PutAt
  <2>3. capsule[w] \o Append(incoming[w], m) = Append(capsule[w] \o incoming[w], m)
    BY <1>1, <2>1, ConcatAppend
  <2>4. capsule[w] \o incoming[w] \in Seq(Message)
    BY <2>1, ConcatProperties
  <2>5. Channel(q, w)' = IF w = p THEN Along(Append(capsule[w] \o incoming[w], m), q)
                         ELSE Channel(q, w)
    BY <1>3, <2>2, <2>3 DEF Channel
  <2> QED BY <1>1, <2>4, <2>5, AlongAppend DEF Channel
<1> QED BY <1>1, <1>2, <1>3, <1>4, ChannelSend DEF Inv

\* A message put on the capsule queue goes past those incoming, which came along other
\* routes.
LEMMA CapsuleSends ==
  ASSUME Inv, NEW m \in Message, NEW t \in {Self} \cup Timer, m.src = t, m.via = "capsule",
         capsule' = Put(capsule, m), incoming' = incoming, stop' = stop
  PROVE  Box!Next
<1>1. /\ \A r : OnRoute(m, r) <=> r = <<t, "capsule">>
      /\ <<t, "capsule">> \in Route /\ m.prio \in Priority
  BY DEF OnRoute, Route, Message
<1>2. ASSUME NEW q, NEW w \in Priority
      PROVE  Channel(q, w)' = IF w = m.prio /\ OnRoute(m, q) THEN Append(Channel(q, w), m)
                              ELSE Channel(q, w)
  <2>1. incoming[w] \in Seq(Message) /\ capsule[w] \in Seq(Message)
    BY DEF Inv, TypeOK
  <2>2. capsule'[w] = IF w = m.prio THEN Append(capsule[w], m) ELSE capsule[w]
    <3>1. capsule \in [Priority -> Seq(Message)]
      BY DEF Inv, TypeOK
    <3> QED BY <3>1, PutAt
  <2>3. CASE w # m.prio
    BY <2>2, <2>3 DEF Channel
  <2>4. CASE w = m.prio
    <3>1. Channel(q, w)' = Along(Append(capsule[w], m), q) \o Along(incoming[w], q)
      <4>1. Append(capsule[w], m) \in Seq(Message)
        BY <2>1, AppendProperties
      <4>2. Channel(q, w)' = Along(Append(capsule[w], m) \o incoming[w], q)
        BY <2>2, <2>4 DEF Channel
      <4> QED BY <2>1, <4>1, <4>2, AlongConcat
    <3>2. Channel(q, w) = Along(capsule[w], q) \o Along(incoming[w], q)
      BY <2>1, AlongConcat DEF Channel
    <3>3. Along(capsule[w], q) \in Seq(Message)
      BY <2>1, AlongType
    <3>4. CASE ~ OnRoute(m, q)
      BY <2>1, <3>1, <3>2, <3>4, AlongAppend
    <3>5. CASE OnRoute(m, q)
      <4>1. Along(incoming[w], q) = <<>>
        <5>1. AllOn(incoming[w], Thread \X {"incoming"})
          BY DEF Inv, Routed
        <5>2. q \notin Thread \X {"incoming"}
          BY <1>1, <3>5
        <5>3. \A i \in DOMAIN incoming[w] : ~ OnRoute(incoming[w][i], q)
          BY <5>1, <5>2 DEF AllOn, OnRoute
        <5> QED BY <2>1, <5>3, AlongNone
      <4>2. Along(Append(capsule[w], m), q) = Append(Along(capsule[w], q), m)
        BY <2>1, <3>5, AlongAppend
      <4>3. Append(Along(capsule[w], q), m) \in Seq(Message)
        BY <3>3, AppendProperties
      <4> QED BY <2>4, <3>1, <3>2, <3>3, <3>5, <4>1, <4>2, <4>3, ConcatEmptySeq
    <3> QED BY <3>4, <3>5
  <2> QED BY <2>3, <2>4
<1> QED BY <1>1, <1>2, ChannelSend DEF Inv

\* moveAll leaves every channel as it is.
LEMMA MoveStutters ==
  ASSUME Inv, MoveAll
  PROVE  UNCHANGED Box!vars
<1>1. scan \in Priority
  BY PriorityAssumption DEF MoveAll, Inv, TypeOK, Priority
<1>2. ASSUME NEW q, NEW w \in Priority PROVE Channel(q, w)' = Channel(q, w)
  <2>1. incoming[w] \in Seq(Message) /\ capsule[w] \in Seq(Message)
    BY DEF Inv, TypeOK
  <2>2. /\ capsule'[w] = IF w = scan THEN capsule[w] \o incoming[w] ELSE capsule[w]
        /\ incoming'[w] = IF w = scan THEN <<>> ELSE incoming[w]
    BY <1>1 DEF MoveAll, Inv, TypeOK
  <2>3. (capsule[w] \o incoming[w]) \o <<>> = capsule[w] \o incoming[w]
    BY <2>1, ConcatProperties, ConcatEmptySeq
  <2> QED BY <2>2, <2>3 DEF Channel
<1> QED BY <1>2, ChannelStutter DEF MoveAll

\* dequeueHighestPriority takes the first message of its channel.
LEMMA TakeTakes ==
  ASSUME Inv, NEW p \in Priority, TakeMessage(p)
  PROVE  Box!Next
<1>1. /\ capsule[p] \in Seq(Message) /\ incoming[p] \in Seq(Message)
      /\ capsule[p] # <<>> /\ AllOn(capsule[p], Route) /\ stop = "no"
  BY DEF Inv, TypeOK, Routed, TakeMessage, IsHighest, MayTakeMore
<1>2. PICK m, rest : m = Head(capsule[p]) /\ rest = Tail(capsule[p])
  OBVIOUS
<1>3. /\ m \in Message /\ rest \in Seq(Message)
      /\ capsule[p] \o incoming[p] = <<m>> \o (rest \o incoming[p])
      /\ m = capsule[p][1] /\ 1 \in DOMAIN capsule[p]
  BY <1>1, <1>2, FirstRest
<1>4. PICK r \in Route : OnRoute(m, r)
  BY <1>1, <1>3 DEF AllOn
<1>5. ASSUME NEW q, NEW w \in Priority, w # p PROVE Channel(q, w)' = Channel(q, w)
  BY <1>5 DEF TakeMessage, Channel, Inv, TypeOK
<1>6. ASSUME NEW q
      PROVE  /\ Channel(q, p) = IF OnRoute(m, q) THEN <<m>> \o Channel(q, p)'
                                ELSE Channel(q, p)'
             /\ Channel(q, p)' \in Seq(Message)
  <2>1. capsule'[p] = rest /\ incoming'[p] = incoming[p]
    BY <1>2 DEF TakeMessage, Inv, TypeOK
  <2>2. rest \o incoming[p] \in Seq(Message)
    BY <1>1, <1>3, ConcatProperties
  <2>3. Channel(q, p)' = Along(rest \o incoming[p], q)
    BY <2>1 DEF Channel
  <2>4. Channel(q, p) = Along(<<m>> \o (rest \o incoming[p]), q)
    BY <1>3 DEF Channel
  <2> QED BY <1>3, <2>2, <2>3, <2>4, AlongType, AlongFirst
<1>7. ASSUME NEW q \in Route, q # r PROVE ~ OnRoute(m, q)
  BY <1>4, <1>7 DEF OnRoute
<1>8. /\ Channel(r, p) = <<m>> \o Channel(r, p)' /\ Channel(r, p)' \in Seq(Message)
      /\ \A q \in Route, w \in Priority : ~ (q = r /\ w = p) => Channel(q, w)' = Channel(q, w)
  BY <1>4, <1>5, <1>6, <1>7
<1> QED BY <1>1, <1>3, <1>8, ChannelTake DEF Inv

LEMMA InitMailbox == Init => Box!Init
<1> SUFFICES ASSUME Init PROVE Box!Init
  OBVIOUS
<1>1. ASSUME NEW q, NEW w \in Priority PROVE Channel(q, w) = <<>>
  <2>1. capsule[w] = <<>> /\ incoming[w] = <<>> /\ <<>> \o <<>> = <<>>
    BY DEF Init, EmptyQueues
  <2> QED BY <2>1, AlongEmpty DEF Channel
<1> QED BY <1>1 DEF Box!Init, Init, Channels

\* Every step of the controller is one of the mailbox, or leaves it alone.
LEMMA NextMailbox == Inv /\ [Next]_vars => [Box!Next]_(Box!vars)
<1> SUFFICES ASSUME Inv, [Next]_vars PROVE Box!Next \/ UNCHANGED Box!vars
  OBVIOUS
<1>1. ASSUME capsule' = capsule, incoming' = incoming, stop' = stop
      PROVE  UNCHANGED Box!vars
  BY <1>1, ChannelStutter DEF Channel
<1> USE DEF loopVars
<1>2. CASE OwnSend
  <2>1. PICK kind \in Kind, p \in Priority :
          capsule' = Put(capsule, MessageOf(Self, "capsule", kind, p))
    BY <1>2 DEF OwnSend
  <2>2. /\ MessageOf(Self, "capsule", kind, p) \in Message
        /\ MessageOf(Self, "capsule", kind, p).src = Self
        /\ MessageOf(Self, "capsule", kind, p).via = "capsule"
        /\ incoming' = incoming /\ stop' = stop
    BY <1>2, MessageOfType DEF Thread, Via, MessageOf, OwnSend, Inv
  <2> QED BY <2>1, <2>2, CapsuleSends
<1>3. ASSUME NEW t \in Timer, QueueTimerMessage(t) PROVE Box!Next
  <2>1. PICK p \in Priority : capsule' = Put(capsule, TimerMessage(t, p))
    BY <1>3 DEF QueueTimerMessage
  <2>2. /\ TimerMessage(t, p).src = t /\ TimerMessage(t, p).via = "capsule"
        /\ incoming' = incoming /\ stop' = stop
    BY <1>3 DEF TimerMessage, QueueTimerMessage
  <2> QED BY <2>1, <2>2, TimerMessageType, CapsuleSends
<1>4. CASE \/ StoreTid \/ (\E t \in Timer : StartTimer(t) \/ CancelTimer(t))
           \/ UserReturns \/ NoMoreDue \/ CountCapsule \/ EndInner
  BY <1>1, <1>4 DEF StoreTid, StartTimer, CancelTimer, UserReturns, NoMoreDue,
                    CountCapsule, EndInner
<1>5. CASE Wait \/ WakeForNothing
  BY <1>1, <1>5 DEF Wait, WakeForNothing, CheckTimers, CheckIncoming, Wake,
                    SelectReturns, ClearFirst, ClearRest, ClearTimer
<1>6. CASE \/ Clock \/ Returned \/ UNCHANGED vars
           \/ \E t \in Thread : Notify(t)
  BY <1>1, <1>6 DEF Clock, Elapse, Returned, vars, Notify, CheckPipe, WriteByte
<1>7. CASE (\E t \in Remote : RemoteSend(t)) \/ OwnSendEarly
  BY <1>7, IncomingSends DEF Thread, RemoteSend, OwnSendEarly
<1>8. CASE User
  BY <1>2, <1>4, <1>7, <1>8 DEF User
<1>9. CASE Loop
  BY <1>3, <1>4, <1>9, MoveStutters, TakeTakes DEF Loop
<1> QED BY <1>4, <1>5, <1>6, <1>7, <1>8, <1>9 DEF Next

\* The safety part of ImplementsMailbox: through deliver, moveAll and the inner loop of run, no
\* message is lost, duplicated, or overtaken by one of the same route and priority, and none is
\* taken after EXIT or ABORT.
THEOREM IsMailbox == Spec => Box!Init /\ [][Box!Next]_(Box!vars)
<1>1. Inv /\ [Next]_vars => [Box!Next]_(Box!vars)
  BY NextMailbox
<1> QED BY <1>1, InitMailbox, Invariance, PTL DEF Spec
=============================================================================

----------------------------- MODULE Controller -----------------------------
(***************************************************************************)
(* One UMLRTController: its run loop, its two priority message queues, the *)
(* notification pipe that wakes it, and the threads that send to it.       *)
(*                                                                         *)
(* The other threads (the other controllers, and the TCP and MQTT          *)
(* services) put a message on the incoming queue under that queue's mutex, *)
(* and notify the controller after the mutex is released: an ioctl asks    *)
(* whether the pipe holds a byte, and a byte is written if it held none.   *)
(* Nothing joins the three steps.  The controller empties the incoming     *)
(* queues, one priority at a time, runs what it found, and sleeps in       *)
(* select() when it believes that nothing is left.                         *)
(*                                                                         *)
(* The capsule queues and the timer queue belong to the controller's own   *)
(* thread; a step that touches only them is joined to the step before it.  *)
(* The due times of timers are abstracted to the set of those that are due *)
(* (module Timers keeps the times).  User code is the nondeterministic     *)
(* choice of what it may ask of its controller while a message is injected.*)
(***************************************************************************)
EXTENDS Integers, Sequences, FiniteSets

CONSTANTS Remote,       \* the other threads that send to this controller
          Self,         \* the controller's own thread
          NumPriority,  \* PRIORITY_MAXPLUS1; 0 is the most urgent
          CmdPriority,  \* the priority of a controller command
          Command,      \* the commands that may be sent
          Timer,        \* the timers user code may start
          Interval,     \* those of them that are periodic
          MaxSend,      \* bound: messages a remote thread sends
          MaxOwn        \* bound: own messages, and messages of a timer, queued

ASSUME ThreadAssumption ==
  /\ IsFiniteSet(Remote)
  /\ Self \notin Remote
  /\ Timer \cap (Remote \cup {Self}) = {}
  /\ Interval \subseteq Timer

ASSUME PriorityAssumption ==
  /\ NumPriority \in Nat \ {0}
  /\ CmdPriority \in 0 .. NumPriority - 1

ASSUME CommandAssumption == Command \subseteq {"exit", "abort"}

ASSUME BoundAssumption == MaxSend \in Nat /\ MaxOwn \in Nat

Thread   == Remote \cup {Self}
Source   == Thread \cup Timer
Priority == 0 .. NumPriority - 1
Kind     == {"signal"} \cup Command
Via      == {"incoming", "capsule"}

\* A UMLRTMessage: who sent it, on which queue it was first put, its priority,
\* its number among the messages of its sender, and what it is.
Message == [src : Source, via : Via, prio : Priority,
            seq : 0 .. MaxSend + MaxOwn + 1, kind : Kind]

NoMessage == [src |-> Self, via |-> "capsule", prio |-> CmdPriority, seq |-> 0,
              kind |-> "none"]

VARIABLES
  incoming,   \* incomingQueue: one FIFO queue for each priority
  capsule,    \* capsuleQueue: the same, private to the controller's thread
  pipe,       \* bytes in the notification pipe of the incoming queue
  timerPipe,  \* a byte is in the notification pipe of the timer queue
  timers,     \* the timers in timerQueue
  due,        \* those whose due time has passed
  tidKnown,   \* UMLRTBasicThread::tid was stored by the thread that spawned us
  sent,       \* sent[t]: number of the last message of thread t
  notify,     \* notify[t]: where thread t is in sendNotification
  pc,         \* where the controller's thread is in run() and wait()
  scan,       \* the priority that moveAll or isEmpty looks at next
  left,       \* countBeforeInnerLoop - innerLoopCount
  msg,        \* the message being injected or executed
  ready,      \* the descriptors select() returned as readable
  stop        \* which of _exit and _abort is set

vars == <<incoming, capsule, pipe, timerPipe, timers, due, tidKnown, sent,
          notify, pc, scan, left, msg, ready, stop>>

pipeVars  == <<pipe, notify>>
timerVars == <<timerPipe, timers, due>>
loopVars  == <<scan, left, msg, ready, stop>>

EmptyQueues == [p \in Priority |-> <<>>]

\* UMLRTPriorityMessageQueue::count
Count(q) == Cardinality(UNION {{p} \X DOMAIN q[p] : p \in Priority})

\* The highest priority at which q holds a message (the first one found by
\* dequeueHighestPriority).
IsHighest(q, p) == /\ q[p] # <<>>
                   /\ \A r \in Priority : r < p => q[r] = <<>>

Put(q, m) == [q EXCEPT ![m.prio] = Append(@, m)]

\* The messages of source s that q holds.
Held(q, s) == UNION {{i \in DOMAIN q[p] : q[p][i].src = s} : p \in Priority}

Pcs == {"user", "timers", "move", "count", "inner", "afterInner", "wait",
        "isEmpty", "select", "clear", "drain", "clearTimer", "exited", "fatal"}

TypeOK ==
  /\ incoming \in [Priority -> Seq(Message)]
  /\ capsule \in [Priority -> Seq(Message)]
  /\ pipe \in Nat
  /\ timerPipe \in BOOLEAN
  /\ timers \subseteq Timer
  /\ due \subseteq timers
  /\ tidKnown \in BOOLEAN
  /\ sent \in [Thread -> 0 .. MaxSend + MaxOwn]
  /\ notify \in [Thread -> {"idle", "ioctl", "write"}]
  /\ pc \in Pcs
  /\ scan \in 0 .. NumPriority
  /\ left \in Nat
  /\ msg \in Message \cup {NoMessage}
  /\ ready \subseteq {"incoming", "timer"}
  /\ stop \in {"no", "exit", "abort"}

\* The controller was constructed and its thread created: run() first calls the
\* initialize() of its capsules.
Init ==
  /\ incoming = EmptyQueues
  /\ capsule = EmptyQueues
  /\ pipe = 0
  /\ timerPipe = FALSE
  /\ timers = {}
  /\ due = {}
  /\ tidKnown = FALSE
  /\ sent = [t \in Thread |-> 0]
  /\ notify = [t \in Thread |-> "idle"]
  /\ pc = "user"
  /\ scan = 0
  /\ left = 0
  /\ msg = NoMessage
  /\ ready = {}
  /\ stop = "no"
-----------------------------------------------------------------------------
(* Sending: deliver(), enqueueCommand(), sendNotification().               *)

MessageOf(t, via, kind, p) ==
  [src |-> t, via |-> via, prio |-> p, seq |-> sent[t] + 1, kind |-> kind]

\* Commands all have one priority, signals have any.
MayHavePriority(kind, p) == kind = "signal" \/ p = CmdPriority

\* deliver() or enqueueCommand() on a thread that isMyThread() does not
\* recognise as the controller's: the incoming queue, under its mutex.
EnqueueIncoming(t, kind, p) ==
  /\ notify[t] = "idle"
  /\ MayHavePriority(kind, p)
  /\ incoming' = Put(incoming, MessageOf(t, "incoming", kind, p))
  /\ sent' = [sent EXCEPT ![t] = @ + 1]
  /\ notify' = [notify EXCEPT ![t] = "ioctl"]
  /\ UNCHANGED <<capsule, pipe, timerVars, tidKnown, pc, loopVars>>

RemoteSend(t) ==
  /\ sent[t] < MaxSend
  /\ \E kind \in Kind, p \in Priority : EnqueueIncoming(t, kind, p)

\* Mutants of CheckPipe: the test inverted, and no test.
CheckPipeInverted(t) ==
  /\ notify[t] = "ioctl"
  /\ notify' = [notify EXCEPT ![t] = IF pipe # 0 THEN "write" ELSE "idle"]
  /\ UNCHANGED <<incoming, capsule, pipe, timerVars, tidKnown, sent, pc, loopVars>>

CheckPipeNever(t) ==
  /\ notify[t] = "ioctl"
  /\ notify' = [notify EXCEPT ![t] = "write"]
  /\ UNCHANGED <<incoming, capsule, pipe, timerVars, tidKnown, sent, pc, loopVars>>

\* ioctl(FIONREAD): the byte is written only if the pipe was seen empty.
CheckPipe(t) ==
  /\ notify[t] = "ioctl"
  /\ notify' = [notify EXCEPT ![t] = IF pipe = 0 THEN "write" ELSE "idle"]
  /\ UNCHANGED <<incoming, capsule, pipe, timerVars, tidKnown, sent, pc, loopVars>>

WriteByte(t) ==
  /\ notify[t] = "write"
  /\ pipe' = pipe + 1
  /\ notify' = [notify EXCEPT ![t] = "idle"]
  /\ UNCHANGED <<incoming, capsule, timerVars, tidKnown, sent, pc, loopVars>>

\* The spawning thread stores the identity of the thread it has created, which
\* may by then have run for a while.
StoreTid ==
  /\ ~tidKnown
  /\ tidKnown' = TRUE
  /\ UNCHANGED <<incoming, capsule, pipeVars, timerVars, sent, pc, loopVars>>
-----------------------------------------------------------------------------
(* User code, run by the controller's thread while pc = "user".            *)

\* isMyThread() is true: the message goes straight to the capsule queue.  Its
\* notification is not modelled: nobody reads the capsule queue's pipe.  The
\* numbers of own messages are reused, so that user code may send for ever.
OwnSend ==
  /\ pc = "user" /\ notify[Self] = "idle"
  /\ tidKnown
  /\ Cardinality(Held(capsule, Self)) + Cardinality(Held(incoming, Self)) < MaxOwn
  /\ \E kind \in Kind, p \in Priority :
       /\ MayHavePriority(kind, p)
       /\ capsule' = Put(capsule, MessageOf(Self, "capsule", kind, p))
  /\ sent' = [sent EXCEPT ![Self] = (@ + 1) % (MaxOwn + 1)]
  /\ UNCHANGED <<incoming, pipeVars, timerVars, tidKnown, pc, loopVars>>

\* The same call before the spawner has stored our identity.
OwnSendEarly ==
  /\ pc = "user" /\ ~tidKnown
  /\ sent[Self] < MaxOwn
  /\ \E kind \in Kind, p \in Priority : EnqueueIncoming(Self, kind, p)

\* informAt, informIn, informEvery -> startTimer -> UMLRTTimerQueue::enqueue.
\* The queue notifies when the timer becomes its head.
StartTimer(t) ==
  /\ pc = "user" /\ notify[Self] = "idle"
  /\ t \notin timers
  /\ timers' = timers \cup {t}
  /\ \/ timerPipe' = TRUE
     \/ timers # {} /\ UNCHANGED timerPipe
  /\ UNCHANGED <<incoming, capsule, pipeVars, due, tidKnown, sent, pc, loopVars>>

\* UMLRTTimerQueue::cancel notifies when the timer was the head.
CancelTimer(t) ==
  /\ pc = "user" /\ notify[Self] = "idle"
  /\ t \in timers
  /\ timers' = timers \ {t}
  /\ due' = due \ {t}
  /\ \/ timerPipe' = TRUE
     \/ timers # {t} /\ UNCHANGED timerPipe
  /\ UNCHANGED <<incoming, capsule, pipeVars, tidKnown, sent, pc, loopVars>>

\* initialize() or inject() returns and the message goes back to its pool.
UserReturns ==
  /\ pc = "user" /\ notify[Self] = "idle"
  /\ pc' = IF msg = NoMessage THEN "timers" ELSE "inner"
  /\ msg' = NoMessage
  /\ UNCHANGED <<incoming, capsule, pipeVars, timerVars, tidKnown, sent, scan,
                 left, ready, stop>>
-----------------------------------------------------------------------------
(* The run loop.                                                           *)

\* Time passes and timer t becomes due.
Elapse(t) ==
  /\ t \in timers \ due
  /\ Cardinality(Held(capsule, t)) < MaxOwn
  /\ due' = due \cup {t}
  /\ UNCHANGED <<incoming, capsule, pipeVars, timerPipe, timers, tidKnown, sent,
                 pc, loopVars>>

TimerMessage(t, p) ==
  [src |-> t, via |-> "capsule", prio |-> p, seq |-> 0, kind |-> "signal"]

\* queueTimerMessages, one turn of its loop: a timer that is due becomes a
\* message; a periodic one is queued again, which notifies if it is the head.
QueueTimerMessage(t) ==
  /\ pc = "timers"
  /\ t \in due
  /\ due' = due \ {t}
  /\ \E p \in Priority : capsule' = Put(capsule, TimerMessage(t, p))
  /\ IF t \in Interval
     THEN /\ UNCHANGED timers
          /\ \/ timerPipe' = TRUE
             \/ timers # {t} /\ UNCHANGED timerPipe
     ELSE /\ timers' = timers \ {t}
          /\ UNCHANGED timerPipe
  /\ UNCHANGED <<incoming, pipeVars, tidKnown, sent, pc, loopVars>>

NoMoreDue ==
  /\ pc = "timers" /\ due = {}
  /\ pc' = "move" /\ scan' = 0
  /\ UNCHANGED <<incoming, capsule, pipeVars, timerVars, tidKnown, sent, left,
                 msg, ready, stop>>

\* Mutant of MoveAll: what arrives goes ahead of what was there.
MoveAllInFront ==
  /\ pc = "move" /\ scan < NumPriority
  /\ capsule' = [capsule EXCEPT ![scan] = incoming[scan] \o @]
  /\ incoming' = [incoming EXCEPT ![scan] = <<>>]
  /\ scan' = scan + 1
  /\ UNCHANGED <<pipeVars, timerVars, tidKnown, sent, pc, left, msg, ready, stop>>

\* moveAll takes the mutex of one priority's queue after another's.
MoveAll ==
  /\ pc = "move" /\ scan < NumPriority
  /\ capsule' = [capsule EXCEPT ![scan] = @ \o incoming[scan]]
  /\ incoming' = [incoming EXCEPT ![scan] = <<>>]
  /\ scan' = scan + 1
  /\ UNCHANGED <<pipeVars, timerVars, tidKnown, sent, pc, left, msg, ready, stop>>

CountCapsule ==
  /\ pc = "move" /\ scan = NumPriority
  /\ left' = Count(capsule)
  /\ pc' = "inner"
  /\ UNCHANGED <<incoming, capsule, pipeVars, timerVars, tidKnown, sent, scan,
                 msg, ready, stop>>

\* Mutant of MayTakeMore: the inner loop does not count.
MayTakeMoreUncounted == stop = "no"

MayTakeMore == left > 0 /\ stop = "no"

\* Mutant of TakeMessage: ++innerLoopCount is missing.
TakeMessageUncounted(p) ==
  /\ pc = "inner" /\ MayTakeMore
  /\ IsHighest(capsule, p)
  /\ LET m == Head(capsule[p])
     IN IF m.kind = "signal"
        THEN msg' = m /\ pc' = "user" /\ UNCHANGED stop
        ELSE stop' = m.kind /\ UNCHANGED <<msg, pc>>
  /\ capsule' = [capsule EXCEPT ![p] = Tail(@)]
  /\ UNCHANGED <<incoming, pipeVars, timerVars, tidKnown, sent, scan, left, ready>>

\* dequeueHighestPriority, and the first part of the inner loop's body:
\* a command is executed, a signal is injected into its capsule.
TakeMessage(p) ==
  /\ pc = "inner" /\ MayTakeMore
  /\ IsHighest(capsule, p)
  /\ LET m == Head(capsule[p])
     IN IF m.kind = "signal"
        THEN msg' = m /\ pc' = "user" /\ UNCHANGED stop
        ELSE stop' = m.kind /\ UNCHANGED <<msg, pc>>
  /\ capsule' = [capsule EXCEPT ![p] = Tail(@)]
  /\ left' = left - 1
  /\ UNCHANGED <<incoming, pipeVars, timerVars, tidKnown, sent, scan, ready>>

\* The inner loop ends; the controller waits only if it has nothing to inject.
EndInner ==
  /\ pc = "inner"
  /\ MayTakeMore => capsule = EmptyQueues
  /\ left' = 0
  /\ pc' = CASE stop # "no"            -> "exited"
             [] capsule # EmptyQueues  -> "timers"
             [] OTHER                  -> "wait"
  /\ UNCHANGED <<incoming, capsule, pipeVars, timerVars, tidKnown, sent, scan,
                 msg, ready, stop>>
-----------------------------------------------------------------------------
(* wait()                                                                  *)

\* A timer that is due means there is no waiting.
CheckTimers ==
  /\ pc = "wait"
  /\ pc' = IF due # {} THEN "timers" ELSE "isEmpty"
  /\ scan' = 0
  /\ UNCHANGED <<incoming, capsule, pipeVars, timerVars, tidKnown, sent, left,
                 msg, ready, stop>>

\* incomingQueue.isEmpty() reads the heads one by one, without a lock.
CheckIncoming ==
  /\ pc = "isEmpty"
  /\ IF scan < NumPriority /\ incoming[scan] = <<>>
     THEN scan' = scan + 1 /\ UNCHANGED pc
     ELSE /\ pc' = IF scan = NumPriority THEN "select" ELSE "timers"
          /\ UNCHANGED scan
  /\ UNCHANGED <<incoming, capsule, pipeVars, timerVars, tidKnown, sent, left,
                 msg, ready, stop>>

\* The descriptors that are readable when select() returns.
Readable == (IF pipe > 0 THEN {"incoming"} ELSE {})
              \cup (IF timerPipe THEN {"timer"} ELSE {})

\* Mutant of SelectReturns: FD_ISSET is not asked.
SelectReturnsUnasked ==
  /\ pc = "select"
  /\ ready' = Readable
  /\ pc' = "clear"
  /\ UNCHANGED <<incoming, capsule, pipeVars, timerVars, tidKnown, sent, scan,
                 left, msg, stop>>

SelectReturns ==
  /\ pc = "select"
  /\ ready' = Readable
  /\ pc' = IF "incoming" \in Readable THEN "clear" ELSE "clearTimer"
  /\ UNCHANGED <<incoming, capsule, pipeVars, timerVars, tidKnown, sent, scan,
                 left, msg, stop>>

\* select() wakes for a readable descriptor or for the timer it waits for.
Wake == (Readable # {} \/ due # {}) /\ SelectReturns

\* select() also wakes after ten seconds, or less than a microsecond before the
\* timer it waits for is due.  Nothing below relies on it.
WakeForNothing == Readable = {} /\ due = {} /\ SelectReturns

\* clearNotifyFd: the first read has to find a byte.
ClearFirst ==
  /\ pc = "clear"
  /\ IF pipe = 0
     THEN pc' = "fatal" /\ UNCHANGED pipe
     ELSE pc' = "drain" /\ pipe' = pipe - 1
  /\ UNCHANGED <<incoming, capsule, timerVars, tidKnown, sent, notify, loopVars>>

\* ... and the others go on until one of them finds none.
ClearRest ==
  /\ pc = "drain"
  /\ IF pipe = 0
     THEN pc' = "clearTimer" /\ UNCHANGED pipe
     ELSE pipe' = pipe - 1 /\ UNCHANGED pc
  /\ UNCHANGED <<incoming, capsule, timerVars, tidKnown, sent, notify, loopVars>>

\* The timer queue's pipe is written by no other thread.
ClearTimer ==
  /\ pc = "clearTimer"
  /\ timerPipe' = IF "timer" \in ready THEN FALSE ELSE timerPipe
  /\ ready' = {}
  /\ pc' = "timers"
  /\ UNCHANGED <<incoming, capsule, pipeVars, timers, due, tidKnown, sent, scan,
                 left, msg, stop>>

\* run() has returned: the process may be waiting in join().
Returned == pc = "exited" /\ UNCHANGED vars
-----------------------------------------------------------------------------
User == OwnSend \/ OwnSendEarly \/ (\E t \in Timer : StartTimer(t) \/ CancelTimer(t))

Loop == \/ UserReturns
        \/ \E t \in Timer : QueueTimerMessage(t)
        \/ NoMoreDue \/ MoveAll \/ CountCapsule
        \/ \E p \in Priority : TakeMessage(p)
        \/ EndInner

Wait == \/ CheckTimers \/ CheckIncoming \/ Wake
        \/ ClearFirst \/ ClearRest \/ ClearTimer

Notify(t) == CheckPipe(t) \/ WriteByte(t)

Clock == \E t \in Timer : Elapse(t)

Next == \/ \E t \in Remote : RemoteSend(t)
        \/ \E t \in Thread : Notify(t)
        \/ StoreTid
        \/ User
        \/ Loop
        \/ Wait
        \/ WakeForNothing
        \/ Clock
        \/ Returned

\* Every thread that can take a step of the runtime's code takes it: user code
\* returns, a thread that has put a message notifies, time passes.  There is no
\* fairness for what user code sends or starts, nor for the debugging wake-up.
Fairness == /\ WF_vars(Loop)
            /\ WF_vars(Wait)
            /\ \A t \in Thread : WF_vars(Notify(t))
            /\ WF_vars(StoreTid)
            /\ \A t \in Timer : WF_vars(Elapse(t))

Spec == Init /\ [][Next]_vars /\ Fairness
-----------------------------------------------------------------------------
(* Properties.                                                             *)

\* No lost wake-up: a controller that has gone to sleep while a message is on
\* its incoming queue is woken, because a byte is in the pipe or the thread that
\* put the message has not finished its sendNotification (enqueue notifies after
\* the queue's mutex is released, and wait() looks at the queue without it).
NoLostWakeup ==
  pc = "select" =>
    \A p \in Priority : incoming[p] # <<>> =>
      pipe > 0 \/ \E t \in Thread : notify[t] # "idle"

\* The inductive form of NoLostWakeup: at any time, a message that is on the
\* incoming queue is announced (by the pipe, or by a thread that is about to look
\* at the pipe or to write to it), or moveAll has not yet come to its priority.
Announced ==
  \A p \in Priority : incoming[p] # <<>> =>
    \/ pipe > 0
    \/ \E t \in Thread : notify[t] # "idle"
    \/ pc \in {"drain", "clearTimer", "timers"}
    \/ pc = "move" /\ scan <= p

\* "Should never find pipe empty when clearing a notification": clearNotifyFd
\* ends the process when the first read finds no byte, and it never does.
ClearFindsByte == pc # "fatal"

\* The inductive form of ClearFindsByte: only the controller reads the pipe, so the
\* byte select() saw is still there.
ByteToClear == pc = "clear" => pipe > 0

\* The bytes in the pipe never outnumber the threads, however long it runs: the
\* check-then-write race can add a byte for each thread and no more, so that a
\* write never blocks a sender (which may hold the runtime's lock).
PipeBounded ==
  pipe + Cardinality({t \in Thread : notify[t] = "write"}) <= Cardinality(Thread)

\* The routes messages may take to the capsule queue.
Route == (Thread \X {"incoming"}) \cup (({Self} \cup Timer) \X {"capsule"})

OnRoute(m, r) == <<m.src, m.via>> = r

AllOn(s, R) == \A i \in DOMAIN s : \E r \in R : OnRoute(s[i], r)

\* The messages in the queues came along these routes; so own messages, which go past the
\* incoming ones, go past none of their own route.
Routed == \A p \in Priority : /\ AllOn(incoming[p], Thread \X {"incoming"})
                             /\ AllOn(capsule[p], Route)

\* What the proofs show to be inductive.
Inv == TypeOK /\ Announced /\ ClearFindsByte /\ ByteToClear /\ PipeBounded /\ Routed

\* The messages of a queue that came along route r.
Along(s, r) ==
  LET taken[n \in 0 .. Len(s)] ==
        IF n = 0 THEN <<>>
        ELSE IF OnRoute(s[n], r) THEN Append(taken[n - 1], s[n])
        ELSE taken[n - 1]
  IN taken[Len(s)]

\* The messages of each route and priority form a channel of the mailbox: first
\* those that were moved to the capsule queue, then those still incoming.
Channel(r, p) == Along(capsule[p] \o incoming[p], r)

Channels == [r \in Route |-> [p \in Priority |-> Channel(r, p)]]

Box == INSTANCE Mailbox WITH chan <- Channels, closed <- stop # "no"

\* The controller is a mailbox: through moveAll, which takes one priority's
\* mutex after another's, no message is lost, duplicated or overtaken by one of
\* the same route and priority; nothing is injected after EXIT or ABORT; and a
\* controller with messages always takes another one, although nothing but
\* notifications wakes it.
ImplementsMailbox == Box!Spec

\* Part of AllServed: a message does not stay on the incoming queue however much the capsules send
\* to themselves ("Process only as many capsuleQueue messages as is currently
\* queued before exiting the inner loop and checking the incomingQueue again").
IncomingDrained ==
  \A p \in Priority : []<>(incoming[p] = <<>> \/ pc = "exited")

\* Part of AllServed: a timer that is due becomes a message (or is cancelled), whatever the
\* controller was doing when its time came.
DueTimerFires == \A t \in Timer : []<>(t \notin due \/ pc = "exited")

\* Neither other threads nor timers are starved by capsules that send to themselves.
AllServed == IncomingDrained /\ DueTimerFires
=============================================================================

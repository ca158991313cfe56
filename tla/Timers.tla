------------------------------- MODULE Timers -------------------------------
(***************************************************************************)
(* The timing service: the pool of timers, one queue of running timers for *)
(* each controller, and the adjustment of the platform clock.              *)
(*                                                                         *)
(* A timer queue is changed by its controller's own thread, except that    *)
(* timeAdjustComplete, called by a capsule of any controller, moves the due *)
(* times of all queued timers.  timeAdjustMutex is held from               *)
(* timeAdjustStart to timeAdjustComplete; what reads the clock or a due    *)
(* time takes it.  A timer that is being started, or that is periodic and  *)
(* has just expired, is in no queue while its thread does not hold it.     *)
(*                                                                         *)
(* The clock is time since the start (mono) plus what it was adjusted by   *)
(* (offset); the timeout of select() runs on the former.  Injecting a      *)
(* capsule's messages is the phase "user" of its controller, in which user *)
(* code starts and cancels timers and adjusts the clock.                   *)
(***************************************************************************)
EXTENDS Integers, Sequences, SequencesExt, FiniteSets

CONSTANTS Controller,  \* the controllers, each with a thread and a timer queue
          Timer,       \* bound: the timers in the pool, which does not grow
          Delay,       \* bound: the times user code asks for
          Delta,       \* the clock adjustments
          Periodic,    \* whether informEvery is called: a subset of BOOLEAN
          MaxTime,     \* bound: the end of time
          MaxStart,    \* bound: timers started
          MaxAdjust,   \* bound: adjustments of the clock
          Nobody       \* not a controller

ASSUME NobodyAssumption == Nobody \notin Controller

ASSUME TimeAssumption == /\ Delay \subseteq Nat
                         /\ Delta \subseteq Int
                         /\ MaxTime \in Nat
                         /\ MaxStart \in Nat
                         /\ MaxAdjust \in Nat
                         /\ Periodic \subseteq BOOLEAN

ASSUME FiniteAssumption == IsFiniteSet(Timer)

VARIABLES
  mono,       \* time since the start
  offset,     \* by how much the clock has been adjusted
  queue,      \* queue[c]: the timers running on c, first to expire first
  pool,       \* the timers in the pool: the last one put is the next one got
  allocated,  \* UMLRTTimer::allocated
  due,        \* UMLRTTimer::due
  interval,   \* UMLRTTimer::interval, or -1 if isInterval is false
  starts,     \* history: the timers started so far
  adjusts,    \* history: the adjustments started so far
  ids,        \* ids[c]: the UMLRTTimerIds that c's capsules hold
  adjuster,   \* who holds timeAdjustMutex between its two calls
  pc,         \* where the controller's thread is
  held,       \* held[c]: the timer its thread has in its hands, if any
  timeout     \* timeout[c]: when its select() returns, if it has a timeout

vars == <<mono, offset, queue, pool, allocated, due, interval,
          starts, adjusts, ids, adjuster, pc, held, timeout>>

timeVars   == <<mono, offset, adjusts>>
timerVars  == <<due, interval, starts>>
threadVars == <<held, timeout>>

Clock == mono + offset

Pcs == {"user", "start", "adjusting", "timers", "requeue", "wait", "select"}

TypeOK ==
  /\ mono \in 0 .. MaxTime
  /\ offset \in Int
  /\ queue \in [Controller -> Seq(Timer)]
  /\ pool \in Seq(Timer)
  /\ allocated \in [Timer -> BOOLEAN]
  /\ due \in [Timer -> Int]
  /\ interval \in [Timer -> Delay \cup {-1}]
  /\ starts \in 0 .. MaxStart
  /\ adjusts \in 0 .. MaxAdjust
  /\ ids \in [Controller -> SUBSET Timer]
  /\ adjuster \in Controller \cup {Nobody}
  /\ pc \in [Controller -> Pcs]
  /\ held \in [Controller -> SUBSET Timer]
  /\ timeout \in [Controller -> SUBSET Int]
  /\ \A c \in Controller : /\ (adjuster = c) <=> (pc[c] = "adjusting")
                           /\ (held[c] # {}) <=> (pc[c] \in {"start", "requeue"})

Init ==
  /\ mono = 0 /\ offset = 0
  /\ queue = [c \in Controller |-> <<>>]
  /\ pool \in SetToSeqs(Timer)
  /\ allocated = [t \in Timer |-> FALSE]
  /\ due = [t \in Timer |-> 0]
  /\ interval = [t \in Timer |-> -1]
  /\ starts = 0 /\ adjusts = 0
  /\ ids = [c \in Controller |-> {}]
  /\ adjuster = Nobody
  /\ pc = [c \in Controller |-> "user"]
  /\ held = [c \in Controller |-> {}]
  /\ timeout = [c \in Controller |-> {}]

Goto(c, label) == pc' = [pc EXCEPT ![c] = label]
-----------------------------------------------------------------------------
(* Starting and cancelling timers.                                         *)

\* allocateTimer: a timer from the pool; its due time, under timeAdjustMutex.
Allocate(c, d, iv) ==
  /\ pc[c] = "user" /\ adjuster = Nobody
  /\ starts < MaxStart /\ d <= MaxTime  \* bounds
  /\ pool # <<>>
  /\ LET t == Head(pool)
     IN /\ held' = [held EXCEPT ![c] = {t}]
        /\ allocated' = [allocated EXCEPT ![t] = TRUE]
        /\ due' = [due EXCEPT ![t] = d]
        /\ interval' = [interval EXCEPT ![t] = iv]
  /\ starts' = starts + 1
  /\ pool' = Tail(pool)
  /\ Goto(c, "start")
  /\ UNCHANGED <<timeVars, queue, ids, adjuster, timeout>>

InformAt(c, time) == Allocate(c, time, -1)
InformIn(c, d)    == Allocate(c, Clock + d, -1)
InformEvery(c, d) == TRUE \in Periodic /\ Allocate(c, Clock + d, d)

\* Mutant of Insert: the timer is put last.
InsertLast(q, t) == Append(q, t)

\* enqueue's place for timer t: before the first timer due after it.
Insert(q, t) ==
  LET later == {i \in DOMAIN q : due[q[i]] > due[t]}
  IN IF later = {} THEN Append(q, t)
     ELSE InsertAt(q, CHOOSE i \in later : \A j \in later : i <= j, t)

\* startTimer, and the id is returned to user code.
StartTimer(c) ==
  /\ pc[c] = "start" /\ adjuster = Nobody
  /\ \E t \in held[c] :
       /\ queue' = [queue EXCEPT ![c] = Insert(@, t)]
       /\ ids' = [ids EXCEPT ![c] = @ \cup {t}]
  /\ held' = [held EXCEPT ![c] = {}]
  /\ Goto(c, "user")
  /\ UNCHANGED <<timeVars, pool, allocated, timerVars, adjuster, timeout>>

\* TimerPutToPool
PutToPool(t) ==
  /\ allocated' = [allocated EXCEPT ![t] = FALSE]
  /\ pool' = <<t>> \o pool

\* cancelTimer looks for the pointer the id holds, which by now may be that of a
\* timer started later; it takes no timeAdjustMutex.  User code lets go of an id it
\* has used.
CancelTimer(c, t) ==
  /\ pc[c] \in {"user", "adjusting"} /\ t \in ids[c]
  /\ \/ \E i \in DOMAIN queue[c] :
          /\ queue[c][i] = t
          /\ PutToPool(t)
          /\ queue' = [queue EXCEPT ![c] = RemoveAt(@, i)]
     \/ t \notin Range(queue[c]) /\ UNCHANGED <<pool, allocated, queue>>
  /\ ids' = [ids EXCEPT ![c] = @ \ {t}]
  /\ UNCHANGED <<timeVars, timerVars, adjuster, pc, threadVars>>
-----------------------------------------------------------------------------
(* Adjusting the clock.                                                    *)

TimeAdjustStart(c) ==
  /\ pc[c] = "user" /\ adjuster = Nobody
  /\ adjusts < MaxAdjust  \* bound
  /\ adjusts' = adjusts + 1
  /\ adjuster' = c
  /\ Goto(c, "adjusting")
  /\ UNCHANGED <<mono, offset, queue, pool, allocated, timerVars, ids, threadVars>>

\* Mutant of TimeAdjustComplete: the mutex is not given back.
TimeAdjustCompleteLocked(c, delta) ==
  /\ pc[c] = "adjusting"
  /\ offset' = offset + delta
  /\ LET queued == UNION {Range(queue[d]) : d \in Controller}
     IN due' = [t \in Timer |-> IF t \in queued THEN due[t] - delta ELSE due[t]]
  /\ Goto(c, "user")
  /\ UNCHANGED <<mono, queue, pool, allocated, interval, starts, adjusts, ids, adjuster, threadVars>>

\* The user code adjusts the clock by delta, then timeAdjustComplete adjusts what
\* is in the queues.
TimeAdjustComplete(c, delta) ==
  /\ pc[c] = "adjusting"
  /\ offset' = offset + delta
  /\ LET queued == UNION {Range(queue[d]) : d \in Controller}
     IN due' = [t \in Timer |-> IF t \in queued THEN due[t] - delta ELSE due[t]]
  /\ adjuster' = Nobody
  /\ Goto(c, "user")
  /\ UNCHANGED <<mono, queue, pool, allocated, interval, starts, adjusts, ids, threadVars>>
-----------------------------------------------------------------------------
(* The controller's thread.                                                *)

\* Injection ends: the loop starts again, or waits if it had nothing to inject.
UserReturns(c) ==
  /\ pc[c] = "user"
  /\ \E label \in {"timers", "wait"} : Goto(c, label)
  /\ UNCHANGED <<timeVars, queue, pool, allocated, timerVars, ids, adjuster,
                 threadVars>>

\* Mutant of HeadIsDue: now > due.
HeadIsOverdue(c) == queue[c] # <<>> /\ Clock > due[Head(queue[c])]

HeadIsDue(c) == queue[c] # <<>> /\ Clock >= due[Head(queue[c])]

\* queueTimerMessages: the timer at the head has expired.  Its message is queued;
\* it goes back to the pool, or its next due time is set, unless it is held up by
\* an adjustment of the clock.
Dequeue(c) ==
  /\ pc[c] = "timers" /\ adjuster = Nobody
  /\ HeadIsDue(c)
  /\ queue' = [queue EXCEPT ![c] = Tail(@)]
  /\ LET t == Head(queue[c])
     IN IF interval[t] = -1
        THEN PutToPool(t) /\ UNCHANGED <<due, held, pc>>
        ELSE /\ due' = [due EXCEPT ![t] = @ + interval[t]]
             /\ held' = [held EXCEPT ![c] = {t}]
             /\ Goto(c, "requeue")
             /\ UNCHANGED <<pool, allocated>>
  /\ UNCHANGED <<timeVars, interval, starts, ids, adjuster,
                 timeout>>

\* ... and then it is queued again.
Requeue(c) ==
  /\ pc[c] = "requeue" /\ adjuster = Nobody
  /\ \E t \in held[c] : queue' = [queue EXCEPT ![c] = Insert(@, t)]
  /\ held' = [held EXCEPT ![c] = {}]
  /\ Goto(c, "timers")
  /\ UNCHANGED <<timeVars, pool, allocated, timerVars, ids, adjuster, timeout>>

NoneDue(c) ==
  /\ pc[c] = "timers" /\ adjuster = Nobody
  /\ ~HeadIsDue(c)
  /\ Goto(c, "user")
  /\ UNCHANGED <<timeVars, queue, pool, allocated, timerVars, ids, adjuster,
                 threadVars>>

\* Mutant of TimeRemaining: the time that remains to the last timer.
TimeRemainingLast(c) == due[Last(queue[c])] - Clock

TimeRemaining(c) == due[Head(queue[c])] - Clock

\* wait(): no waiting if the first timer is due (or a message has come in);
\* otherwise select() is given the time that remains.
Wait(c) ==
  /\ pc[c] = "wait"
  /\ queue[c] # <<>> => adjuster = Nobody
  /\ \/ /\ queue[c] = <<>>
        /\ timeout' = [timeout EXCEPT ![c] = {}]
        /\ Goto(c, "select")
     \/ /\ queue[c] # <<>> /\ TimeRemaining(c) > 0
        /\ timeout' = [timeout EXCEPT ![c] = {mono + TimeRemaining(c)}]
        /\ Goto(c, "select")
     \/ /\ queue[c] # <<>> /\ TimeRemaining(c) <= 0
        /\ Goto(c, "timers")
        /\ UNCHANGED timeout
  /\ UNCHANGED <<timeVars, queue, pool, allocated, timerVars, ids, adjuster, held>>

Woken(c) ==
  /\ pc[c] = "select"
  /\ timeout' = [timeout EXCEPT ![c] = {}]
  /\ Goto(c, "timers")
  /\ UNCHANGED <<timeVars, queue, pool, allocated, timerVars, ids, adjuster, held>>

WokenByTimeout(c) == (\E n \in timeout[c] : n <= mono) /\ Woken(c)

\* A message came in, or the debugging timeout ran out.
WokenOtherwise(c) == (\A n \in timeout[c] : n > mono) /\ Woken(c)

Tick ==
  /\ mono < MaxTime
  /\ mono' = mono + 1
  /\ UNCHANGED <<offset, adjusts, queue, pool, allocated, timerVars, ids,
                 adjuster, pc, threadVars>>
-----------------------------------------------------------------------------
User(c) == \/ \E d \in Delay : InformAt(c, d) \/ InformIn(c, d) \/ InformEvery(c, d)
           \/ \E t \in ids[c] : CancelTimer(c, t)
           \/ TimeAdjustStart(c)

Runtime(c) == \/ StartTimer(c)
              \/ \E delta \in Delta : TimeAdjustComplete(c, delta)
              \/ UserReturns(c)
              \/ Dequeue(c) \/ Requeue(c) \/ NoneDue(c)
              \/ Wait(c) \/ WokenByTimeout(c)

Next == \/ \E c \in Controller : User(c) \/ Runtime(c) \/ WokenOtherwise(c)
        \/ Tick

\* A thread that can go on goes on, and time passes.
Fairness == /\ \A c \in Controller : WF_vars(Runtime(c))
            /\ WF_vars(Tick)

Spec == Init /\ [][Next]_vars /\ Fairness
-----------------------------------------------------------------------------
(* Properties.                                                             *)

\* The number of places a timer is in.
Places(t) == Cardinality({i \in DOMAIN pool : pool[i] = t})
             + Cardinality({c \in Controller : t \in held[c]})
             + Cardinality({p \in UNION {{c} \X DOMAIN queue[c] : c \in Controller} :
                              queue[p[1]][p[2]] = t})

\* Part of QueuesSound: a timer is in the pool, or on one controller's queue, or in the
\* hands of one thread, and nowhere else; the allocated flag, on which TimerGetFromPool,
\* TimerPutToPool and queueTimerMessages end the process, tells which.
OneHome == \A t \in Timer : /\ Places(t) = 1
                            /\ allocated[t] <=> t \notin Range(pool)

InOrder(q) == \A i, j \in DOMAIN q : i < j => due[q[i]] <= due[q[j]]

\* Part of QueuesSound: a timer queue is in the order of the due times; dequeue and
\* timeRemaining look at nothing but the head.
Sorted == \A c \in Controller : InOrder(queue[c])

\* No timer is lost, linked twice or out of order, whatever is adjusted or cancelled
\* between the steps of starting a timer or of queueing a periodic timer again.
QueuesSound == OneHome /\ Sorted

\* A thread asleep in select() has a timeout that is no later than the first of
\* its timers.  It has to be said that the clock was not adjusted: timeAdjustElements
\* changes the due times of a queue and does not wake its controller, which then
\* sleeps on with the old timeout.
WakesInTime ==
  \A c \in Controller : adjusts = 0 /\ pc[c] = "select" /\ queue[c] # <<>> =>
    \E n \in timeout[c] : n <= due[Head(queue[c])] - offset

\* A timer that was started expires or is cancelled, even when the clock is moved
\* forward meanwhile: its controller does not sleep through it for ever and other
\* timers do not keep it from the head of the queue.  (Periodic timers do not end.)
TimerEnds == \A t \in Timer :
               allocated[t] /\ interval[t] = -1 ~> ~allocated[t]
-----------------------------------------------------------------------------
(* What makes the properties inductive.                                    *)

Distinct(q) == \A i, j \in DOMAIN q : i # j => q[i] # q[j]

\* The pool, the queues and the hands of the threads share no timer, hold none twice
\* and leave none out.
Apart ==
  /\ Distinct(pool)
  /\ \A c \in Controller :
       /\ Distinct(queue[c])
       /\ \A t, u \in held[c] : t = u
       /\ Range(queue[c]) \cap Range(pool) = {}
       /\ held[c] \cap Range(pool) = {}
       /\ \A d \in Controller : Range(queue[c]) \cap held[d] = {}
       /\ \A d \in Controller \ {c} : /\ Range(queue[c]) \cap Range(queue[d]) = {}
                                      /\ held[c] \cap held[d] = {}
  /\ \A t \in Timer : \/ t \in Range(pool)
                       \/ \E c \in Controller : t \in Range(queue[c]) \cup held[c]

Flags == \A t \in Timer : allocated[t] <=> t \notin Range(pool)

\* The offset and a thread that adjusts the clock show in the history.
AdjustsCounted ==
  /\ adjusts = 0 => offset = 0
  /\ \A c \in Controller : pc[c] = "adjusting" => adjusts > 0

Inv == TypeOK /\ Apart /\ Flags /\ Sorted /\ AdjustsCounted /\ WakesInTime
=============================================================================

---------------------------- MODULE SignalElement ----------------------------
(***************************************************************************)
(* The elements that UMLRTSignals refer to: their pool, their reference    *)
(* counts and their payload buffers.                                       *)
(*                                                                         *)
(* A UMLRTSignal (in a capsule's code, a message, a deferred message or a  *)
(* timer) is a counted reference to an element of the pool.  Copying it,   *)
(* which is how a message is delivered or deferred, shares the element, so *)
(* that controllers on different threads come to share it.  operator=      *)
(* lets go of one element and then takes hold of another, and the count of *)
(* an element, with its return to the pool, is under the element's mutex.  *)
(***************************************************************************)
EXTENDS Integers, Sequences, SequencesExt, FiniteSets

CONSTANTS Thread,    \* the threads
          Signal,    \* the UMLRTSignals, wherever they are
          Element,   \* bound: the elements of the pool, which does not grow
          Size,      \* the payloads asked for: "small" fits the default buffer
          MaxInit,   \* bound: how often a signal is initialized
          NULL       \* no element

ASSUME NullAssumption == NULL \notin Element
ASSUME FiniteAssumption == IsFiniteSet(Signal) /\ IsFiniteSet(Element)
ASSUME SizeAssumption == Size \subseteq {"small", "large"}
ASSUME BoundAssumption == MaxInit \in Nat

VARIABLES
  element,       \* element[s]: what signal s refers to
  owner,         \* owner[s]: the thread that may use s
  assigning,     \* assigning[t]: the operands of the operator= t is in, if any
  pool,          \* the free elements: the last one put is the next one got
  refCount,      \* UMLRTSignalElement::refCount
  allocated,     \* UMLRTSignalElement::allocated
  payload,       \* where the payload is: in the default buffer or one of its own
  nonDefault,    \* UMLRTSignalElement::nonDefaultPayload
  live,          \* live[e]: which of e's buffers are allocated on the heap
  content,       \* history: the initialization e's content comes from
  meant,         \* history: the initialization s is meant to refer to
  inits,         \* history: the initializations so far
  fatal          \* the process has ended

vars == <<element, owner, assigning, pool, refCount, allocated, payload,
          nonDefault, live, content, meant, inits, fatal>>

elementVars == <<pool, refCount, allocated, payload, nonDefault, live>>
history     == <<content, meant, inits>>

TypeOK ==
  /\ element \in [Signal -> Element \cup {NULL}]
  /\ owner \in [Signal -> Thread]
  /\ assigning \in [Thread -> SUBSET (Signal \X Signal)]
  /\ pool \in Seq(Element)
  /\ refCount \in [Element -> 0 .. Cardinality(Signal)]
  /\ allocated \in [Element -> BOOLEAN]
  /\ payload \in [Element -> {"default", "own"}]
  /\ nonDefault \in [Element -> BOOLEAN]
  /\ live \in [Element -> SUBSET {"default", "own"}]
  /\ content \in [Element -> 0 .. MaxInit]
  /\ meant \in [Signal -> 0 .. MaxInit]
  /\ inits \in 0 .. MaxInit
  /\ fatal \in BOOLEAN

Init ==
  /\ element = [s \in Signal |-> NULL]
  /\ owner \in [Signal -> Thread]
  /\ assigning = [t \in Thread |-> {}]
  /\ pool \in SetToSeqs(Element)
  /\ refCount = [e \in Element |-> 0]
  /\ allocated = [e \in Element |-> FALSE]
  /\ payload = [e \in Element |-> "default"]
  /\ nonDefault = [e \in Element |-> FALSE]
  /\ live = [e \in Element |-> {"default"}]
  /\ content = [e \in Element |-> 0]
  /\ meant = [s \in Signal |-> 0]
  /\ inits = 0
  /\ fatal = FALSE

\* Thread t can use signal s: it is its own and t is not inside operator=.
MayUse(t, s) == owner[s] = t /\ assigning[t] = {} /\ ~fatal
-----------------------------------------------------------------------------
(* Elements.                                                               *)

\* What setAllocated and initialize require of an element got from the pool: the
\* process ends otherwise.
IsFree(e) == ~allocated[e] /\ refCount[e] = 0

\* SignalElementGetFromPool and UMLRTSignalElement::initialize: a payload too
\* large for the default buffer is given a buffer of its own.
GetElement(e, size) ==
  /\ allocated' = [allocated EXCEPT ![e] = TRUE]
  /\ refCount' = [refCount EXCEPT ![e] = @ + 1]
  /\ IF size = "large"
     THEN /\ payload' = [payload EXCEPT ![e] = "own"]
          /\ nonDefault' = [nonDefault EXCEPT ![e] = TRUE]
          /\ live' = [live EXCEPT ![e] = @ \cup {"own"}]
     ELSE UNCHANGED <<payload, nonDefault, live>>

\* dealloc: frees the buffer if it was ever told that it is not the default one
\* (nonDefaultPayload is never set to false), which ends the process if the buffer
\* is already free, and puts the element back.
Dealloc(e) ==
  LET buffer == {b \in {payload[e]} : nonDefault[e]}
  IN /\ fatal' = ~(allocated[e] /\ buffer \subseteq live[e])
     /\ allocated' = [allocated EXCEPT ![e] = FALSE]
     /\ pool' = <<e>> \o pool
     /\ live' = [live EXCEPT ![e] = @ \ buffer]
     /\ payload' = [payload EXCEPT ![e] = IF nonDefault[e] THEN "default" ELSE @]
     /\ UNCHANGED nonDefault

\* Mutant of Decrement: the count goes down by two.
DecrementTwice(e) ==
  IF e = NULL
  THEN UNCHANGED <<elementVars, fatal>>
  ELSE /\ refCount' = [refCount EXCEPT ![e] = @ - 2]
       /\ UNCHANGED <<pool, allocated, payload, nonDefault, live, fatal>>

\* decrementRefCount, under the element's mutex.
Decrement(e) ==
  IF e = NULL
  THEN UNCHANGED <<elementVars, fatal>>
  ELSE /\ refCount' = [refCount EXCEPT ![e] = IF @ > 0 THEN @ - 1 ELSE 0]
       /\ CASE refCount[e] = 1 -> Dealloc(e)
            [] refCount[e] = 0 -> /\ fatal' = TRUE
                                  /\ UNCHANGED <<pool, allocated, payload, nonDefault, live>>
            [] OTHER -> UNCHANGED <<pool, allocated, payload, nonDefault, live, fatal>>

\* Mutant of Increment: no reference is counted.
IncrementNot(e) == UNCHANGED <<refCount>>

Increment(e) == IF e = NULL THEN UNCHANGED refCount
                ELSE refCount' = [refCount EXCEPT ![e] = @ + 1]
-----------------------------------------------------------------------------
(* Signals.                                                                *)

\* UMLRTSignal::initialize
Initialize(t, s, size) ==
  /\ MayUse(t, s) /\ element[s] = NULL
  /\ inits < MaxInit /\ pool # <<>>
  /\ LET e == Head(pool)
     IN IF IsFree(e)
        THEN /\ GetElement(e, size)
             /\ element' = [element EXCEPT ![s] = e]
             /\ content' = [content EXCEPT ![e] = inits + 1]
             /\ meant' = [meant EXCEPT ![s] = inits + 1]
             /\ pool' = Tail(pool)
             /\ UNCHANGED fatal
        ELSE /\ fatal' = TRUE
             /\ UNCHANGED <<element, content, meant, elementVars>>
  /\ inits' = inits + 1
  /\ UNCHANGED <<owner, assigning>>

\* The copy constructor: a signal that was not there refers to s's element.
Copy(t, d, s) ==
  /\ MayUse(t, s) /\ MayUse(t, d)
  /\ element[d] = NULL /\ element[s] # NULL
  /\ Increment(element[s])
  /\ element' = [element EXCEPT ![d] = element[s]]
  /\ meant' = [meant EXCEPT ![d] = meant[s]]
  /\ UNCHANGED <<owner, assigning, pool, allocated, payload, nonDefault, live,
                 content, inits, fatal>>

\* The destructor.
Destroy(t, s) ==
  /\ MayUse(t, s) /\ element[s] # NULL
  /\ Decrement(element[s])
  /\ element' = [element EXCEPT ![s] = NULL]
  /\ UNCHANGED <<owner, assigning, history>>

\* Mutant of MayAssign: a signal may be assigned to itself.
MayAssignAny(d, s) == TRUE

MayAssign(d, s) == d # s

\* operator=, first part: d lets go of what it referred to.
Release(t, d, s) ==
  /\ MayUse(t, s) /\ MayUse(t, d)
  /\ MayAssign(d, s)
  /\ Decrement(element[d])
  /\ assigning' = [assigning EXCEPT ![t] = {<<d, s>>}]
  /\ UNCHANGED <<element, owner, history>>

\* operator=, second part: d takes hold of what s refers to.
Assign(t) ==
  /\ ~fatal
  /\ \E a \in assigning[t] :
       /\ Increment(element[a[2]])
       /\ element' = [element EXCEPT ![a[1]] = element[a[2]]]
       /\ meant' = [meant EXCEPT ![a[1]] = meant[a[2]]]
  /\ assigning' = [assigning EXCEPT ![t] = {}]
  /\ UNCHANGED <<owner, pool, allocated, payload, nonDefault, live, content,
                 inits, fatal>>

\* A message, and the signal in it, passes to another thread through a queue.
HandOver(t, s, u) ==
  /\ MayUse(t, s) /\ element[s] # NULL
  /\ t # u
  /\ owner' = [owner EXCEPT ![s] = u]
  /\ UNCHANGED <<element, assigning, elementVars, history, fatal>>

Next ==
  \/ \E t \in Thread, s \in Signal :
       \/ \E size \in Size : Initialize(t, s, size)
       \/ \E d \in Signal : Copy(t, d, s) \/ Release(t, d, s)
       \/ Destroy(t, s)
       \/ \E u \in Thread : HandOver(t, s, u)
  \/ \E t \in Thread : Assign(t)

Spec == Init /\ [][Next]_vars
-----------------------------------------------------------------------------
(* Properties.                                                             *)

\* The signals that refer to e; the left operand of an operator= between its two
\* parts refers to nothing.
Referring(e) == {s \in Signal : /\ element[s] = e
                                /\ \A t \in Thread : \A a \in assigning[t] : a[1] # s}

\* Part of NoneLeaks: the count is exact between any two steps of any threads, so that the process
\* does not end in one of the reference count's FATALs and elements neither leak nor go
\* back to the pool while something refers to them.
RefsCounted == \A e \in Element : refCount[e] = Cardinality(Referring(e))

\* A signal refers, for as long as it lives, to the element it was initialized
\* with (or a copy of it): the element is not given to anyone else meanwhile.
SignalKeepsItsElement ==
  ~fatal => \A e \in Element : \A s \in Referring(e) :
              /\ allocated[e] /\ e \notin Range(pool)
              /\ content[e] = meant[s]

\* Part of NoneLeaks: the buffer obtained for a large payload is on the heap exactly as long as
\* an element is allocated with it, however often the element is used again.  It says
\* nothing of the default buffer, which Dealloc frees when an element that had a large payload
\* is used for a small one, since nonDefaultPayload stays set.
NoLeak == \A e \in Element : "own" \in live[e] <=> allocated[e] /\ payload[e] = "own"

\* Neither elements nor the buffers of large payloads leak or are given back too early,
\* whatever the threads do between the two halves of an operator=.
NoneLeaks == RefsCounted /\ NoLeak

-----------------------------------------------------------------------------
(* What makes the properties inductive.                                    *)

\* Two different signals of the thread itself are the operands of its operator=.
OperandsOwn ==
  \A t \in Thread : \A a, b \in assigning[t] :
    a = b /\ a[1] # a[2] /\ owner[a[1]] = t /\ owner[a[2]] = t

\* The pool holds elements that are not allocated, each once, and an element is
\* allocated as long as something refers to it.
PoolFree ==
  /\ \A i, j \in DOMAIN pool : i # j => pool[i] # pool[j]
  /\ \A i \in DOMAIN pool : ~allocated[pool[i]]
  /\ \A e \in Element : allocated[e] <=> refCount[e] > 0

\* A signal refers to what it was meant to, even when the process has ended.
MeantContent == \A e \in Element : \A s \in Referring(e) : content[e] = meant[s]

\* The flag is set on every element whose payload has a buffer of its own, and such an
\* element is allocated.
OwnIsNonDefault == \A e \in Element : payload[e] = "own" => nonDefault[e] /\ allocated[e]

Inv == /\ TypeOK /\ OperandsOwn /\ PoolFree /\ RefsCounted
       /\ MeantContent /\ NoLeak /\ OwnIsNonDefault
=============================================================================

----------------------------- MODULE LinkedQueue -----------------------------
(***************************************************************************)
(* The linked lists that messages are kept in: the pool of messages, the   *)
(* incoming and the capsule queue of a controller (one priority of each),  *)
(* and the defer queue of a port, down to the next pointers, heads, tails  *)
(* and counts.                                                             *)
(*                                                                         *)
(* The incoming queue and the pool are shared with the threads that send.  *)
(* moveAll takes the incoming list off in one critical section and appends *)
(* it to the capsule queue in another.  UMLRTQueue::remove walks the defer *)
(* queue and hands each message it unlinks to a callback, which returns it *)
(* to the pool (purge) or links it into the capsule queue (recall).        *)
(***************************************************************************)
EXTENDS Integers, Sequences, SequencesExt, FiniteSets

CONSTANTS Remote,    \* the threads that send
          Element,   \* bound: the UMLRTMessages of the pool, which does not grow
          NULL,      \* the null pointer
          Index,     \* the instances of the port
          Id,        \* the signal ids
          MaxSend    \* bound: messages sent

ASSUME NullAssumption == NULL \notin Element
ASSUME ElementAssumption == IsFiniteSet(Element) /\ Element # {}
ASSUME RemoteAssumption == IsFiniteSet(Remote) /\ "controller" \notin Remote
ASSUME BoundAssumption == Index \subseteq Nat /\ Id \subseteq Nat /\ MaxSend \in Nat

Queue   == {"incoming", "capsule", "defer"}
Pointer == Element \cup {NULL}
Message == [index : Index, id : Id, n : 1 .. MaxSend]

NoMessage == [index |-> -1, id |-> -1, n |-> 0]

VARIABLES
  next,       \* UMLRTQueueElement::next
  allocated,  \* UMLRTMessage::allocated
  body,       \* what the message is
  poolHead,   \* UMLRTPool::head
  head,       \* head[q], tail[q], count[q]: UMLRTQueue's members
  tail,
  count,
  hand,       \* hand[t]: the message a thread has taken, if any
  moved,      \* the list that moveAll has taken off the incoming queue
  pc,         \* where the controller's thread is
  removal,    \* the arguments and variables of remove
  sent,       \* history: the messages sent so far
  fatal       \* the process has ended

vars == <<next, allocated, body, poolHead, head, tail, count, hand, moved, pc,
          removal, sent, fatal>>

Controller == "controller"
Thread     == Remote \cup {Controller}

NoRemoval == [kind |-> "none", index |-> -1, id |-> -1, front |-> FALSE,
              one |-> FALSE, keeper |-> NULL, count |-> 0]

NoList == [all |-> NULL, last |-> NULL, count |-> 0]

Removal == [kind : {"none", "purge", "recall"}, index : Index \cup {-1},
            id : Id \cup {-1}, front : BOOLEAN, one : BOOLEAN,
            keeper : Pointer, count : Nat]

TypeOK ==
  /\ next \in [Element -> Pointer]
  /\ allocated \in [Element -> BOOLEAN]
  /\ body \in [Element -> Message \cup {NoMessage}]
  /\ poolHead \in Pointer
  /\ head \in [Queue -> Pointer]
  /\ tail \in [Queue -> Pointer]
  /\ count \in [Queue -> 0 .. Cardinality(Element)]
  /\ hand \in [Thread -> SUBSET Element]
  /\ moved \in [all : Pointer, last : Pointer, count : Nat]
  /\ pc \in {"loop", "moved", "user", "removeHead", "removeNext"}
  /\ removal \in Removal
  /\ sent \in 0 .. MaxSend
  /\ fatal \in BOOLEAN

\* The pool's constructor links the elements one after the other.
Init ==
  /\ LET s == SetToSeq(Element)
     IN /\ next = [e \in Element |-> LET i == CHOOSE i \in DOMAIN s : s[i] = e
                                     IN IF i = Len(s) THEN NULL ELSE s[i + 1]]
        /\ poolHead = s[1]
  /\ allocated = [e \in Element |-> FALSE]
  /\ body = [e \in Element |-> NoMessage]
  /\ head = [q \in Queue |-> NULL]
  /\ tail = [q \in Queue |-> NULL]
  /\ count = [q \in Queue |-> 0]
  /\ hand = [t \in Thread |-> {}]
  /\ moved = NoList
  /\ pc = "loop"
  /\ removal = NoRemoval
  /\ sent = 0
  /\ fatal = FALSE

Goto(from, to) == ~fatal /\ pc = from /\ pc' = to
-----------------------------------------------------------------------------
(* UMLRTPool and UMLRTQueue: each of these is one critical section.  The   *)
(* next pointer of e, and the other pointers, after the operation.         *)

queueVars == <<head, tail, count>>
poolVars  == <<poolHead, allocated, body>>

\* MessageGetFromPool, and the message is filled in.
Get(e, m) ==
  /\ e = poolHead
  /\ poolHead' = next[e]
  /\ allocated' = [allocated EXCEPT ![e] = TRUE]
  /\ body' = [body EXCEPT ![e] = m]

\* MessagePutToPool
Put(e) ==
  /\ poolHead' = e
  /\ next' = [next EXCEPT ![e] = poolHead]
  /\ allocated' = [allocated EXCEPT ![e] = FALSE]
  /\ body' = [body EXCEPT ![e] = NoMessage]

\* enqueue at the tail: an empty queue's tail is undefined.
EnqueueLast(q, e) ==
  /\ IF head[q] = NULL
     THEN /\ head' = [head EXCEPT ![q] = e]
          /\ next' = [next EXCEPT ![e] = NULL]
     ELSE /\ next' = [next EXCEPT ![e] = NULL, ![tail[q]] = e]
          /\ UNCHANGED head
  /\ tail' = [tail EXCEPT ![q] = e]
  /\ count' = [count EXCEPT ![q] = @ + 1]

\* dequeue
Dequeue(q) ==
  /\ head' = [head EXCEPT ![q] = next[@]]
  /\ count' = [count EXCEPT ![q] = @ - 1]
  /\ fatal' = (count[q] = 0)
  /\ UNCHANGED tail

\* enqueueAll
EnqueueAll(q, list) ==
  IF list.all = NULL
  THEN UNCHANGED <<next, queueVars, fatal>>
  ELSE /\ head' = [head EXCEPT ![q] = IF @ = NULL THEN list.all ELSE @]
       /\ next' = IF head[q] = NULL THEN next
                  ELSE [next EXCEPT ![tail[q]] = list.all]
       /\ tail' = [tail EXCEPT ![q] = list.last]
       /\ count' = [count EXCEPT ![q] = @ + list.count]
       /\ fatal' = (list.last = NULL \/ (head[q] = NULL /\ count[q] # 0))
-----------------------------------------------------------------------------
(* The threads that send.                                                  *)

Allocate(t) ==
  /\ ~fatal
  /\ hand[t] = {} /\ sent < MaxSend /\ poolHead # NULL
  /\ \E index \in Index, id \in Id :
       Get(poolHead, [index |-> index, id |-> id, n |-> sent + 1])
  /\ hand' = [hand EXCEPT ![t] = {poolHead}]
  /\ sent' = sent + 1
  /\ UNCHANGED <<next, queueVars, moved, pc, removal, fatal>>

Deliver(t) ==
  /\ ~fatal
  /\ \E e \in hand[t] : EnqueueLast("incoming", e)
  /\ hand' = [hand EXCEPT ![t] = {}]
  /\ UNCHANGED <<poolVars, moved, pc, removal, sent, fatal>>
-----------------------------------------------------------------------------
(* The controller.                                                         *)

\* moveAll: dequeueAll of the incoming queue ...
MoveOut ==
  /\ Goto("loop", "moved")
  /\ moved' = [all |-> head["incoming"], last |-> tail["incoming"],
               count |-> count["incoming"]]
  /\ head' = [head EXCEPT !["incoming"] = NULL]
  /\ tail' = [tail EXCEPT !["incoming"] = NULL]
  /\ count' = [count EXCEPT !["incoming"] = 0]
  /\ UNCHANGED <<next, poolVars, hand, removal, sent, fatal>>

\* ... and enqueueAll to the capsule queue.
MoveIn ==
  /\ Goto("moved", "loop")
  /\ EnqueueAll("capsule", moved)
  /\ moved' = NoList
  /\ UNCHANGED <<poolVars, hand, removal, sent>>

Inject ==
  /\ Goto("loop", "user")
  /\ head["capsule"] # NULL
  /\ Dequeue("capsule")
  /\ hand' = [hand EXCEPT ![Controller] = {head["capsule"]}]
  /\ UNCHANGED <<next, poolVars, moved, removal, sent>>

\* UMLRTMessage::defer: a copy of the message goes to the defer queue.
Defer ==
  /\ Goto("user", "user")
  /\ poolHead # NULL
  /\ \E e \in hand[Controller] : Get(poolHead, body[e])
  /\ EnqueueLast("defer", poolHead)
  /\ UNCHANGED <<hand, moved, removal, sent, fatal>>

\* inject() returns, and the message goes back to the pool.
Return ==
  /\ Goto("user", "loop")
  /\ \E e \in hand[Controller] : Put(e)
  /\ hand' = [hand EXCEPT ![Controller] = {}]
  /\ UNCHANGED <<queueVars, moved, removal, sent, fatal>>

\* The purge and recall operations of ports (id -1) and signals (their id).
Purge(index, id) ==
  /\ Goto("user", "removeHead")
  /\ removal' = [NoRemoval EXCEPT !.kind = "purge", !.index = index, !.id = id]
  /\ UNCHANGED <<next, poolVars, queueVars, hand, moved, sent, fatal>>

\* Mutant of Recall: instances are counted from 1.
RecallOffByOne(index, id, front, one) ==
  /\ Goto("user", "removeHead")
  /\ removal' = [NoRemoval EXCEPT !.kind = "recall", !.index = index - 1, !.id = id,
                                  !.front = front, !.one = one]
  /\ UNCHANGED <<next, poolVars, queueVars, hand, moved, sent, fatal>>

Recall(index, id, front, one) ==
  /\ Goto("user", "removeHead")
  /\ removal' = [NoRemoval EXCEPT !.kind = "recall", !.index = index, !.id = id,
                                  !.front = front, !.one = one]
  /\ UNCHANGED <<next, poolVars, queueVars, hand, moved, sent, fatal>>

\* Mutant of Matches: the id is never asked for.
MatchesInstance(e) == removal.index \in {-1, body[e].index}

\* purgeMatchCompare asks for the id only if it is given an index, and
\* recallMatchCompare never does.
Matches(e) ==
  \/ removal.index = -1
  \/ /\ removal.index = body[e].index
     /\ \/ removal.kind = "recall"
        \/ removal.id \in {-1, body[e].id}

\* An element is unlinked from the defer queue, whose head becomes h and in which
\* keeper, if there is one, is now followed by what followed the element; then it
\* is handed to the callback, which overwrites its next pointer.
Unlink(e, h, keeper) ==
  LET linked == IF keeper = NULL THEN next ELSE [next EXCEPT ![keeper] = next[e]]
      last   == tail["capsule"]
      first  == head["capsule"]
  IN /\ fatal' = (count["defer"] = 0)
     /\ IF removal.kind = "purge"
        THEN /\ next' = [linked EXCEPT ![e] = poolHead]
             /\ poolHead' = e
             /\ allocated' = [allocated EXCEPT ![e] = FALSE]
             /\ body' = [body EXCEPT ![e] = NoMessage]
             /\ head' = [head EXCEPT !["defer"] = h]
             /\ count' = [count EXCEPT !["defer"] = @ - 1]
             /\ UNCHANGED tail
        ELSE /\ head' = [head EXCEPT !["defer"] = h,
                           !["capsule"] = IF removal.front \/ first = NULL THEN e ELSE @]
             /\ tail' = [tail EXCEPT
                           !["capsule"] = IF removal.front /\ first # NULL THEN @ ELSE e]
             /\ next' = CASE removal.front  -> [linked EXCEPT ![e] = first]
                          [] first = NULL   -> [linked EXCEPT ![e] = NULL]
                          [] OTHER          -> [linked EXCEPT ![e] = NULL, ![last] = e]
             /\ count' = [count EXCEPT !["defer"] = @ - 1, !["capsule"] = @ + 1]
             /\ UNCHANGED poolVars

\* remove, first loop: from the head, until the head is to be kept.
RemoveHead ==
  LET e == head["defer"]
  IN /\ e # NULL /\ Matches(e)
     /\ Goto("removeHead", IF removal.one THEN "user" ELSE "removeHead")
     /\ Unlink(e, next[e], NULL)
     /\ removal' = IF removal.one THEN NoRemoval ELSE [removal EXCEPT !.count = @ + 1]
     /\ UNCHANGED <<hand, moved, sent>>

KeepHead ==
  LET e == head["defer"]
  IN /\ e # NULL /\ ~Matches(e)
     /\ Goto("removeHead", "removeNext")
     /\ removal' = [removal EXCEPT !.keeper = e]
     /\ UNCHANGED <<next, poolVars, queueVars, hand, moved, sent, fatal>>

NoHead ==
  /\ head["defer"] = NULL
  /\ Goto("removeHead", "user")
  /\ removal' = NoRemoval
  /\ UNCHANGED <<next, poolVars, queueVars, hand, moved, sent, fatal>>

\* remove, second loop: the rest of the queue.  It does not look at `one`.
RemoveNext ==
  LET e == next[removal.keeper]
  IN /\ pc = "removeNext"
     /\ e # NULL /\ Matches(e)
     /\ Goto("removeNext", "removeNext")
     /\ Unlink(e, head["defer"], removal.keeper)
     /\ removal' = [removal EXCEPT !.count = @ + 1]
     /\ UNCHANGED <<hand, moved, sent>>

KeepNext ==
  /\ pc = "removeNext"
  /\ LET e == next[removal.keeper]
     IN /\ e # NULL /\ ~Matches(e)
        /\ removal' = [removal EXCEPT !.keeper = e]
  /\ Goto("removeNext", "removeNext")
  /\ UNCHANGED <<next, poolVars, queueVars, hand, moved, sent, fatal>>

\* Mutant of NoNext: the tail is not set.
NoNextTail ==
  /\ pc = "removeNext"
  /\ next[removal.keeper] = NULL
  /\ Goto("removeNext", "user")
  /\ removal' = NoRemoval
  /\ UNCHANGED <<next, poolVars, queueVars, hand, moved, sent, fatal>>

NoNext ==
  /\ pc = "removeNext"
  /\ next[removal.keeper] = NULL
  /\ Goto("removeNext", "user")
  /\ tail' = [tail EXCEPT !["defer"] = removal.keeper]
  /\ removal' = NoRemoval
  /\ UNCHANGED <<next, poolVars, head, count, hand, moved, sent, fatal>>

RemoveStep == RemoveHead \/ KeepHead \/ NoHead \/ RemoveNext \/ KeepNext \/ NoNext

Next ==
  \/ \E t \in Remote : Allocate(t) \/ Deliver(t)
  \/ MoveOut \/ MoveIn \/ Inject \/ Defer \/ Return
  \/ \E index \in Index \cup {-1} :
       \E id \in Id \cup {-1} :
         \/ Purge(index, id)
         \/ \E front, one \in BOOLEAN : Recall(index, id, front, one)
  \/ RemoveStep

Spec == Init /\ [][Next]_vars
-----------------------------------------------------------------------------
(* Properties.                                                             *)

\* The elements from p on, as a sequence; longer than there are elements if the
\* list is a cycle.
Chain(p) ==
  LET N == Cardinality(Element)
      at[i \in 1 .. N + 1] == IF i = 1 THEN p
                              ELSE IF at[i - 1] = NULL THEN NULL ELSE next[at[i - 1]]
  IN [i \in 1 .. Cardinality({i \in 1 .. N + 1 : at[i] # NULL}) |-> at[i]]

\* Part of ListsSound: every list is as its head, tail and count say; while remove is in its second
\* loop it has yet to set the tail.
WellFormed ==
  /\ \A q \in Queue :
       LET c == Chain(head[q])
       IN /\ count[q] = Len(c)
          /\ c # <<>> /\ ~(q = "defer" /\ pc = "removeNext") => tail[q] = Last(c)
  /\ moved.count = Len(Chain(moved.all))

\* Part of ListsSound: no message is lost to all lists or on two of them; the allocated flags, on which the process
\* ends, are exact; and none of the queues' FATALs is reached.
OneHome ==
  LET pool   == Chain(poolHead)
      linked == pool \o Chain(moved.all) \o Chain(head["incoming"])
                     \o Chain(head["capsule"]) \o Chain(head["defer"])
      held   == UNION {hand[t] : t \in Thread}
  IN /\ ~fatal
     /\ Range(linked) \cup held = Element
     /\ Len(linked) + Cardinality(held) = Cardinality(Element)
     /\ {e \in Element : allocated[e]} = Element \ Range(pool)

\* The callbacks of remove relink the elements of the list it is walking, and senders
\* go on between the halves of moveAll: still, lists are whole and share nothing.
ListsSound == OneHome /\ WellFormed

\* The pointers nx lead from p through s, and no further.
Linked(nx, p, s) ==
  /\ s \in Seq(Element)
  /\ p = IF s = <<>> THEN NULL ELSE s[1]
  /\ \A i \in 1 .. Len(s) : nx[s[i]] = IF i = Len(s) THEN NULL ELSE s[i + 1]
  /\ \A i, j \in 1 .. Len(s) : s[i] = s[j] => i = j

Home   == Queue \cup {"pool", "moved"}
Starts == [h \in Home |-> IF h = "pool" THEN poolHead
                         ELSE IF h = "moved" THEN moved.all ELSE head[h]]
Lists  == [h \in Home |-> Chain(Starts[h])]
Held   == UNION {hand[t] : t \in Thread}

\* The lists l are linked by nx from where st says, share no element, and hold all but those of H.
Fits(nx, st, l, H) ==
  /\ nx \in [Element -> Pointer] /\ H \subseteq Element
  /\ st \in [Home -> Pointer] /\ l \in [Home -> Seq(Element)]
  /\ \A h \in Home : Linked(nx, st[h], l[h])
  /\ \A g, h \in Home : g # h => Range(l[g]) \cap Range(l[h]) = {}
  /\ \A e \in Element : e \in H <=> \A h \in Home : e \notin Range(l[h])

\* A thread has one message at a time in its hands, and the controller has one while it runs
\* user code.
Hands ==
  /\ \A t \in Thread : hand[t] = {} \/ \E e \in Element : hand[t] = {e}
  /\ \A t, u \in Thread : t # u => hand[t] \cap hand[u] = {}
  /\ hand[Controller] = {} <=> pc \in {"loop", "moved"}
  /\ pc # "moved" => moved = NoList
  /\ pc = "removeNext" => removal.keeper \in Range(Lists["defer"])

\* The counts, tails and flags for the lists l.
Counts(l) ==
  /\ \A q \in Queue : count[q] = Len(l[q])
  /\ \A q \in Queue : l[q] # <<>> /\ ~(q = "defer" /\ pc = "removeNext") => tail[q] = Last(l[q])
  /\ moved.count = Len(l["moved"])
  /\ l["moved"] # <<>> => moved.last = Last(l["moved"])
  /\ \A e \in Element : allocated[e] <=> e \notin Range(l["pool"])

\* What the proofs show to be inductive.
Inv == TypeOK /\ Fits(next, Starts, Lists, Held) /\ Counts(Lists) /\ Hands /\ ~fatal

\* Inductive with Inv: a message that is not in the pool has been filled in, remove has
\* arguments exactly while it runs, and what it has walked past, up to the element it
\* keeps, is none of what it looks for.
WalkedPast ==
  /\ \A e \in Element : allocated[e] => body[e] \in Message
  /\ IF pc \in {"removeHead", "removeNext"} THEN removal.kind \in {"purge", "recall"}
                                            ELSE removal = NoRemoval
  /\ pc = "removeNext" =>
       \E k \in 1 .. Len(Lists["defer"]) :
         /\ Lists["defer"][k] = removal.keeper
         /\ \A j \in 1 .. k : ~Matches(Lists["defer"][j])

\* The messages of the list that starts at p.
Bodies(p) == LET c == Chain(p) IN [i \in DOMAIN c |-> body[c[i]]]

Abstract == INSTANCE Deferral WITH
              incoming <- Bodies(moved.all) \o Bodies(head["incoming"]),
              capsule  <- Bodies(head["capsule"]),
              current  <- SetToSeq({body[e] : e \in hand[Controller]}),
              deferred <- Bodies(head["defer"]),
              request  <- [kind |-> removal.kind, index |-> removal.index, id |-> removal.id,
                           front |-> removal.front, one |-> removal.one]

\* The linked lists implement the sequences: what is injected and deferred is what
\* the order of the messages says, and a purge or recall takes all the messages that
\* the comparisons of umlrtcommsport.cc mean and no other, in their order, although
\* senders go on between the two halves of moveAll and the steps of remove.
ImplementsDeferral == Abstract!Spec

\* "Returns the number of recalled messages (0 or 1)", "'one' is true if only a
\* signal message (matching the criteria) are recalled": recall, recallAt and
\* recallFront recall one message at most.
RecallsOne == removal.one => removal.count <= 1
=============================================================================

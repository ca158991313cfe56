------------------------------ MODULE Deferral ------------------------------
(***************************************************************************)
(* What the queues of a controller and the defer queue of a port promise,  *)
(* with sequences for the linked lists: messages are injected in the order *)
(* in which they were delivered, except that a message that was deferred   *)
(* comes back when it is recalled, at the end or at the front; and a purge *)
(* or recall takes, one after the other, the messages that it means, and   *)
(* no other, until none is left.                                           *)
(*                                                                         *)
(* Which messages are meant is as in umlrtcommsport.cc, not as in the      *)
(* comments of UMLRTInSignal: the signal's id counts only for a purge on   *)
(* one instance.                                                           *)
(***************************************************************************)
EXTENDS Integers, Sequences, SequencesExt

CONSTANTS Message,   \* what is sent: records with an index and an id
          Index,     \* the instances of the port a message may be for
          Id         \* the signal ids

VARIABLES incoming,  \* delivered by other threads and not yet moved
          capsule,   \* ready to be injected
          current,   \* the message being injected, if any
          deferred,  \* the port's deferred messages
          request    \* the purge or recall under way

vars == <<incoming, capsule, current, deferred, request>>

Request == [kind : {"purge", "recall"}, index : Index \cup {-1}, id : Id \cup {-1},
            front : BOOLEAN, one : BOOLEAN]

NoRequest == [kind |-> "none", index |-> -1, id |-> -1, front |-> FALSE, one |-> FALSE]

Init == /\ incoming = <<>> /\ capsule = <<>>
        /\ current = <<>> /\ deferred = <<>>
        /\ request = NoRequest

Deliver(m) == /\ incoming' = Append(incoming, m)
              /\ UNCHANGED <<capsule, current, deferred, request>>

Move == /\ request = NoRequest
        /\ \E k \in 1 .. Len(incoming) :
             /\ capsule' = capsule \o SubSeq(incoming, 1, k)
             /\ incoming' = SubSeq(incoming, k + 1, Len(incoming))
        /\ UNCHANGED <<current, deferred, request>>

Inject == /\ request = NoRequest
          /\ current = <<>> /\ capsule # <<>>
          /\ current' = <<Head(capsule)>>
          /\ capsule' = Tail(capsule)
          /\ UNCHANGED <<incoming, deferred, request>>

Defer == /\ request = NoRequest
         /\ deferred' = deferred \o current
         /\ UNCHANGED <<incoming, capsule, current, request>>

Return == /\ request = NoRequest
          /\ current' = <<>>
          /\ UNCHANGED <<incoming, capsule, deferred, request>>

\* User code, which runs with a message, asks for a purge or a recall.
Ask(q) == /\ request = NoRequest /\ current # <<>>
          /\ request' = q
          /\ UNCHANGED <<incoming, capsule, current, deferred>>

\* The request means m: every message if it names no instance (-1), else those for its
\* instance, and of these a purge means those of its signal, if it names one.
Meant(m) == \/ request.index = -1
            \/ /\ request.index = m.index
               /\ request.kind = "recall" \/ request.id \in {-1, m.id}

\* The deferred message at i is the first that is meant.
IsFirst(i) == /\ i \in DOMAIN deferred
              /\ Meant(deferred[i])
              /\ \A j \in 1 .. i - 1 : ~Meant(deferred[j])

\* It is taken away, and made ready by a recall.  A recall of one message ends with it,
\* but only if it was the first message of all (RecallsOne).
Take(i) ==
  /\ request # NoRequest /\ IsFirst(i)
  /\ deferred' = RemoveAt(deferred, i)
  /\ capsule' = IF request.kind = "purge" THEN capsule
                ELSE IF request.front THEN <<deferred[i]>> \o capsule
                ELSE Append(capsule, deferred[i])
  /\ request' = IF request.one /\ i = 1 THEN NoRequest ELSE request
  /\ UNCHANGED <<incoming, current>>

Finish == /\ request # NoRequest
          /\ \A i \in DOMAIN deferred : ~Meant(deferred[i])
          /\ request' = NoRequest
          /\ UNCHANGED <<incoming, capsule, current, deferred>>

Next == \/ \E m \in Message : Deliver(m)
        \/ Move \/ Inject \/ Defer \/ Return
        \/ \E q \in Request : Ask(q)
        \/ \E i \in DOMAIN deferred : Take(i)
        \/ Finish

Spec == Init /\ [][Next]_vars
=============================================================================

------------------------------ MODULE Mailbox ------------------------------
(***************************************************************************)
(* What a controller promises to the threads that send it messages, with   *)
(* none of the queues, locks or pipes that make it work.                   *)
(*                                                                         *)
(* Messages that reach the controller along one route, with one priority,  *)
(* form a channel.  A channel never loses, duplicates or reorders what was *)
(* sent; nothing is taken from any channel after the mailbox is closed;    *)
(* and a mailbox that holds a message is never left alone for ever.        *)
(***************************************************************************)
EXTENDS Naturals, Sequences

CONSTANTS Route,        \* how a message reaches the controller
          Priority,     \* the priorities a message may have
          Message       \* what is sent

VARIABLES chan,         \* chan[r][p]: sent and not yet taken, oldest first
          closed        \* the controller has executed EXIT or ABORT

vars == <<chan, closed>>

TypeOK == /\ chan \in [Route -> [Priority -> Seq(Message)]]
          /\ closed \in BOOLEAN

Init == /\ chan = [r \in Route |-> [p \in Priority |-> <<>>]]
        /\ closed = FALSE

Send(r, p) == /\ Len(chan'[r][p]) = Len(chan[r][p]) + 1
              /\ LET m == chan'[r][p][Len(chan'[r][p])]
                 IN /\ m \in Message
                    /\ chan' = [chan EXCEPT ![r][p] = Append(@, m)]
              /\ UNCHANGED closed

\* The message taken may be the one that closes the mailbox.
Take(r, p) == /\ ~closed
              /\ chan[r][p] # <<>>
              /\ chan' = [chan EXCEPT ![r][p] = Tail(@)]
              /\ closed' \in BOOLEAN

TakeSome == \E r \in Route, p \in Priority : Take(r, p)

Next == \E r \in Route, p \in Priority : Send(r, p) \/ Take(r, p)

Spec == Init /\ [][Next]_vars /\ WF_vars(TakeSome)
=============================================================================

-------------------------- MODULE ServiceRegistry --------------------------
(***************************************************************************)
(* Service ports: a service access point (SAP) that registers under a      *)
(* service's name is bound to a free far end of the service provisioning   *)
(* point (SPP) registered under that name, or waits for one.  The maps     *)
(* from ports to names and from names to SPPs and queues of waiting SAPs   *)
(* are shared by all controllers and changed under the RTS lock, so each   *)
(* operation is one step here.  What an operation calls is a function from *)
(* the state of the registry to the next one, and a loop is a recursion.   *)
(***************************************************************************)
EXTENDS Integers, Sequences, SequencesExt, FiniteSets, FiniteSetsExt, Functions

CONSTANTS Sap, Spp,       \* the ports
          Service,        \* the names
          NumFarEnd,      \* NumFarEnd[p]: the replication of SPP p
          Locked,         \* the ports whose registration is locked
          Automatic,      \* Automatic[p]: what p is registered as when created
          Complementary,  \* the <<sap, spp>> with one protocol, one conjugated
          NONE

Port == Sap \cup Spp

ASSUME PortAssumption ==
  /\ Sap \cap Spp = {} /\ NONE \notin Port \cup Service
  /\ NumFarEnd \in [Spp -> Nat]
  /\ Locked \subseteq Port
  /\ Automatic \in [Port -> Service \cup {NONE}]
  /\ Complementary \subseteq Sap \X Spp

VARIABLES
  reg,     \* the registry and the far ends of the service ports
  exists   \* the ports that have been created and not destroyed

vars == <<reg, exists>>

NoEnd == [port |-> NONE, index |-> 0]

\* What a registry r holds.
Shape(r) ==
  /\ r = [name |-> r.name, provider |-> r.provider, waiting |-> r.waiting,
          sapEnd |-> r.sapEnd, sppEnds |-> r.sppEnds, fatal |-> r.fatal]
  /\ r.name \in [Port -> Service \cup {NONE}]      \* registeredName, portToName
  /\ r.provider \in [Service -> Spp \cup {NONE}]   \* nameToSppPort
  /\ r.waiting \in [Service -> Seq(Sap)]           \* nameToUnboundSapPorts
  /\ DOMAIN r.sapEnd = Sap                         \* farEnds[0] of the SAPs
  /\ \A s \in Sap : \/ r.sapEnd[s] = NoEnd
                    \/ \E p \in Spp : \E i \in 1 .. NumFarEnd[p] :
                         r.sapEnd[s] = [port |-> p, index |-> i]
  /\ DOMAIN r.sppEnds = Spp                        \* farEnds of the SPPs
  /\ \A p \in Spp : r.sppEnds[p] \in [1 .. NumFarEnd[p] -> Sap \cup {NONE}]
  /\ r.fatal \in BOOLEAN                           \* the process has ended

TypeOK == exists \subseteq Port /\ Shape(reg)

Init ==
  /\ exists = {}
  /\ reg = [name     |-> [p \in Port |-> NONE],
            provider |-> [n \in Service |-> NONE],
            waiting  |-> [n \in Service |-> <<>>],
            sapEnd   |-> [s \in Sap |-> NoEnd],
            sppEnds  |-> [p \in Spp |-> [i \in 1 .. NumFarEnd[p] |-> NONE]],
            fatal    |-> FALSE]
-----------------------------------------------------------------------------
(* The frame service's part.                                               *)

FreeEnds(r, p) == {i \in DOMAIN r.sppEnds[p] : r.sppEnds[p][i] = NONE}

\* Mutant of Bind: the index is that of the next far end.
BindNext(r, s, p) ==
  IF r.sapEnd[s] # NoEnd THEN [r EXCEPT !.fatal = TRUE]
  ELSE IF <<s, p>> \notin Complementary \/ FreeEnds(r, p) = {} THEN r
  ELSE LET i == Min(FreeEnds(r, p))
       IN [r EXCEPT !.sapEnd[s] = [port |-> p, index |-> i + 1], !.sppEnds[p][i] = s]

\* bindServicePort
Bind(r, s, p) ==
  IF r.sapEnd[s] # NoEnd THEN [r EXCEPT !.fatal = TRUE]
  ELSE IF <<s, p>> \notin Complementary \/ FreeEnds(r, p) = {} THEN r
  ELSE LET i == Min(FreeEnds(r, p))
       IN [r EXCEPT !.sapEnd[s] = [port |-> p, index |-> i], !.sppEnds[p][i] = s]

\* unbindServicePort
Unbind(r, s, p) ==
  LET ends == {i \in DOMAIN r.sppEnds[p] : r.sppEnds[p][i] = s}
  IN IF r.sapEnd[s] = NoEnd \/ ends = {} THEN r
     ELSE [r EXCEPT !.sapEnd[s] = NoEnd, !.sppEnds[p][Min(ends)] = NONE]
-----------------------------------------------------------------------------
(* The protocol class's part.                                              *)

\* Mutant of Enqueue: the SAP goes to the front.
EnqueueFirst(r, n, s) == [r EXCEPT !.waiting[n] = <<s>> \o @]

\* addSapToQueue
Enqueue(r, n, s) == [r EXCEPT !.waiting[n] = Append(@, s)]

\* One turn of the loop of bindQueuedSapsToSpp.
BindFirst(r, p) ==
  LET n == r.name[p]
  IN Bind([r EXCEPT !.waiting[n] = Tail(@)], Head(r.waiting[n]), p)

\* bindQueuedSapsToSpp: as many SAPs leave the queue as there are free ends,
\* whether they can be bound or not.
BindQueued(r, p) ==
  LET turns == Min({Len(r.waiting[r.name[p]]), Cardinality(FreeEnds(r, p))})
      after[k \in 0 .. turns] == IF k = 0 THEN r ELSE BindFirst(after[k - 1], p)
  IN after[turns]

CompleteRegistration(r, port, n) ==
  IF r.name[port] # NONE THEN [r EXCEPT !.fatal = TRUE]
  ELSE [r EXCEPT !.name[port] = n]

CompleteDeregistration(r, port) == [r EXCEPT !.name[port] = NONE]

\* removeSapFromQueue
Leave(r, n, s) ==
  LET places == {i \in DOMAIN r.waiting[n] : r.waiting[n][i] = s}
  IN IF places = {} THEN r ELSE [r EXCEPT !.waiting[n] = RemoveAt(@, Min(places))]

DeregisterSap(r, s) ==
  LET a == Leave(r, r.name[s], s)
      p == r.sapEnd[s].port
  IN IF r.name[s] = NONE THEN r
     ELSE CompleteDeregistration(IF p = NONE THEN a
                                 ELSE BindQueued(Unbind(a, s, p), p), s)

\* Mutant of Release: the SAP is unbound and that is all.
ReleaseOnly(r, p, i) ==
  LET s == r.sppEnds[p][i]
  IN IF s = NONE THEN r ELSE Unbind(r, s, p)

\* One turn of the loop of deregisterSppPort: a SAP that was bound is unbound and waits.
Release(r, p, i) ==
  LET s == r.sppEnds[p][i]
  IN IF s = NONE THEN r ELSE Enqueue(Unbind(r, s, p), r.name[p], s)

\* In the order of the far ends.
DeregisterSpp(r, p) ==
  LET n == r.name[p]
      after[k \in 0 .. NumFarEnd[p]] ==
        IF k = 0 THEN r ELSE Release(after[k - 1], p, k)
  IN IF n = NONE THEN r
     ELSE CompleteDeregistration([after[NumFarEnd[p]] EXCEPT !.provider[n] = NONE], p)

RegisterSap(r, s, n) ==
  LET a == DeregisterSap(r, s)
      b == IF a.provider[n] = NONE THEN a ELSE Bind(a, s, a.provider[n])
      c == IF b.sapEnd[s] = NoEnd THEN Enqueue(b, n, s) ELSE b
  IN IF r.name[s] = n THEN r ELSE CompleteRegistration(c, s, n)

\* A name that has an SPP, this one or another, is not given again.
RegisterSpp(r, p, n) ==
  IF r.provider[n] # NONE THEN r
  ELSE LET a == CompleteRegistration(DeregisterSpp(r, p), p, n)
       IN BindQueued([a EXCEPT !.provider[n] = p], p)

Register(r, port, n) ==
  IF port \in Sap THEN RegisterSap(r, port, n) ELSE RegisterSpp(r, port, n)

Deregister(r, port) ==
  IF port \in Sap THEN DeregisterSap(r, port) ELSE DeregisterSpp(r, port)
-----------------------------------------------------------------------------
(* The operations, each under the RTS lock.                                *)

\* initializePort, when the capsule that has the port is initialized
Create(port) ==
  /\ ~reg.fatal /\ port \notin exists
  /\ exists' = exists \cup {port}
  /\ reg' = IF Automatic[port] = NONE THEN reg
            ELSE Register(reg, port, Automatic[port])

\* Mutant of Destroy: a locked registration stays.
DestroyUnlocked(port) ==
  /\ ~reg.fatal /\ port \in exists
  /\ exists' = exists \ {port}
  /\ reg' = IF port \in Locked THEN reg ELSE Deregister(reg, port)

\* destroyPort, when it is destroyed
Destroy(port) ==
  /\ ~reg.fatal /\ port \in exists
  /\ exists' = exists \ {port}
  /\ reg' = Deregister(reg, port)

\* registerSAP, registerSPP
UserRegisters(port, n) ==
  /\ ~reg.fatal /\ port \in exists
  /\ reg' = Register(reg, port, n)
  /\ UNCHANGED exists

\* deregisterSAP, deregisterSPP
UserDeregisters(port) ==
  /\ ~reg.fatal /\ port \in exists \ Locked
  /\ reg' = Deregister(reg, port)
  /\ UNCHANGED exists

Next ==
  \E port \in Port :
    \/ Create(port) \/ Destroy(port) \/ UserDeregisters(port)
    \/ \E n \in Service : UserRegisters(port, n)

Spec == Init /\ [][Next]_vars
-----------------------------------------------------------------------------
(* Properties.                                                             *)

\* Part of BindingsSound: the two halves of a binding say the same, and bound ports share a name; the
\* maps agree on who the provider is; and no FATAL of the registry is reached.
FarEndsMirror ==
  /\ \A s \in Sap, p \in Spp : \A i \in 1 .. NumFarEnd[p] :
       (reg.sapEnd[s] = [port |-> p, index |-> i]) <=> (reg.sppEnds[p][i] = s)
  /\ \A s \in Sap : reg.sapEnd[s] # NoEnd =>
       reg.name[s] \in Service /\ reg.provider[reg.name[s]] = reg.sapEnd[s].port
  /\ \A n \in Service, p \in Spp : (reg.provider[n] = p) <=> (reg.name[p] = n)
  /\ ~reg.fatal

\* Part of NoneWaitsInVain: a SAP that is registered is bound or waits, once, under its own name, and
\* nothing waits under another; so no registration is forgotten when a provider
\* goes, comes back or changes its name.
NoneForgotten ==
  \A s \in Sap, n \in Service :
    Cardinality({i \in DOMAIN reg.waiting[n] : reg.waiting[n][i] = s}) =
      IF reg.name[s] = n /\ reg.sapEnd[s] = NoEnd THEN 1 ELSE 0

\* Part of BindingsSound: a port that has been destroyed is in no map, no queue and on no far end.
NoDanglingPort ==
  \A port \in Port \ exists :
    /\ reg.name[port] = NONE
    /\ \A n \in Service : reg.provider[n] # port /\ port \notin Range(reg.waiting[n])
    /\ \A p \in Spp : port \notin Range(reg.sppEnds[p])
    /\ \A s \in Sap : reg.sapEnd[s].port # port

\* However ports are registered, renamed and destroyed, far ends, maps and queues
\* agree with each other and with the ports that exist.
BindingsSound == FarEndsMirror /\ NoDanglingPort

\* Part of NoneWaitsInVain: no SAP waits while the SPP of its service has a free far end.
NoIdleFarEnd ==
  \A n \in Service :
    reg.provider[n] # NONE /\ FreeEnds(reg, reg.provider[n]) # {} => reg.waiting[n] = <<>>

\* Every registered SAP has its far end, or waits for one that is not there yet.
NoneWaitsInVain == NoneForgotten /\ NoIdleFarEnd

\* Those that wait for n longer than s does.
Ahead(r, n, s) ==
  LET q == r.waiting[n]
      i == CHOOSE i \in DOMAIN q : q[i] = s
  IN {q[j] : j \in 1 .. i - 1}

\* While a SAP waits, none that came later gets ahead of it or is bound.
NoOvertaking ==
  [][\A n \in Service :
       \A s \in Range(reg.waiting[n]) \cap Range(reg'.waiting[n]) :
         \A t \in Sap \ (Ahead(reg, n, s) \cup {s}) :
           /\ t \notin Ahead(reg', n, s)
           /\ reg'.name[t] = n /\ reg'.sapEnd[t] # NoEnd =>
                reg.name[t] = n /\ reg.sapEnd[t] # NoEnd]_vars
-----------------------------------------------------------------------------
(* The inductive invariant.  An operation passes through states in which some SAPs, T, are *)
(* in no queue and on no far end, whatever they are called, and in which the SPP of one     *)
(* service, m, may have far ends for those that wait.                                       *)

Mirror(r) ==
  \A s \in Sap, p \in Spp : \A i \in 1 .. NumFarEnd[p] :
    (r.sapEnd[s] = [port |-> p, index |-> i]) <=> (r.sppEnds[p][i] = s)

Provided(r) == \A n \in Service, p \in Spp : (r.provider[n] = p) <=> (r.name[p] = n)

BoundByName(r, T) ==
  \A s \in Sap : r.sapEnd[s] # NoEnd =>
    s \notin T /\ r.name[s] \in Service /\ r.provider[r.name[s]] = r.sapEnd[s].port

WaitsByName(r, T) ==
  \A n \in Service : \A s \in Range(r.waiting[n]) :
    s \notin T /\ r.name[s] = n /\ r.sapEnd[s] = NoEnd

WaitsOnce(r) == \A n \in Service : IsInjective(r.waiting[n])

Everyone(r, T) ==
  \A s \in Sap \ T : r.name[s] \in Service /\ r.sapEnd[s] = NoEnd =>
    s \in Range(r.waiting[r.name[s]])

NoneIdle(r, m) ==
  \A n \in Service \ {m} :
    r.provider[n] # NONE /\ FreeEnds(r, r.provider[n]) # {} => r.waiting[n] = <<>>

\* Every SAP can be bound to every SPP: without it a SAP that does not fit is forgotten.
AllFit == Complementary = Sap \X Spp

Sound(r, T, m) ==
  /\ Shape(r) /\ Mirror(r) /\ Provided(r) /\ BoundByName(r, T)
  /\ WaitsByName(r, T) /\ WaitsOnce(r) /\ ~r.fatal
  /\ AllFit => Everyone(r, T) /\ NoneIdle(r, m)

Unnamed == \A port \in Port \ exists : reg.name[port] = NONE

Inv == exists \subseteq Port /\ Sound(reg, {}, NONE) /\ Unnamed
=============================================================================

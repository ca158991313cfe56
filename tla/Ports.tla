------------------------------- MODULE Ports -------------------------------
(***************************************************************************)
(* The ports of capsules: how the frame service connects a capsule to what *)
(* its slots are connected to, when it is incarnated in an optional slot,  *)
(* imported into plugin slots, deported and destroyed, and what it tells   *)
(* the capsules of it (rtBound, rtUnbound).                                *)
(*                                                                         *)
(* Each capsule class and each slot has one border port, replicated, wired *)
(* and with notification.  The capsule of the main program contains all    *)
(* slots and operates on them; generated code connects their ports once    *)
(* and forwards bindPort and unbindPort to the runtime interface.  An      *)
(* operation changes far ends, ports and slots under the RTS lock, so that *)
(* operators from r to r, one for each function of the code, stand for it. *)
(* Only initializeCapsule reads far ends and notifies its own capsule      *)
(* after the lock is released; it is one step here all the same.  The      *)
(* races before the lock is taken are the subject of Frame, which leaves   *)
(* out ports.                                                              *)
(***************************************************************************)
EXTENDS Naturals, FiniteSets, Sequences, SequencesExt

CONSTANTS Main,    \* the slot of the main program, which always has its capsule
          Home,    \* its optional slots; a capsule has the name of its home slot
          Plug,    \* its plugin slots
          Other,   \* homes whose capsules are of another class than the slot
          There,   \* homes whose capsules run on another controller than Main
          Width,   \* Width[s]: instances of the port of slot s
          Large,   \* instances of the port of the classes of the capsules in Other
          Link,    \* pairs of port instances that generated code has connected
          None

Slot       == {Main} \cup Home \cup Plug
Own(x)     == <<x>>   \* the border port of capsule x, when it is not a port of a slot
Port       == Slot \cup {Own(x) : x \in Home}
SlotOf(p)  == IF p \in Slot THEN p ELSE p[1]
Controller == {"here", "there"}
End(p, i)  == [port |-> p, index |-> i]
Nil        == End(None, 1)
Ends       == UNION {{End(s, i) : i \in 1 .. Width[s]} : s \in Slot}

ASSUME SlotAssumption ==
  /\ Home \cap Plug = {} /\ Main \notin Home \cup Plug /\ None \notin Port
  /\ Other \subseteq Home /\ There \subseteq Home
  /\ Width \in [Slot -> Nat \ {0}] /\ \A s \in Slot \ {Main} : Width[s] <= Large

ASSUME LinkAssumption ==
  \A l \in Link : \A m \in Link : l \in Ends \X Ends /\ l[1] # l[2] /\
                     (l # m => {l[1], l[2]} \cap {m[1], m[2]} = {})

\* The number of instances that the class of capsule x gives its border port.
ClassWidth(x) == IF x \in Other THEN Large ELSE Width[x]

VARIABLES
  r,         \* far ends, border ports, occupants: what the RTS lock protects
  waiting    \* Main waits in enqueueDestroy for this capsule

vars == <<r, waiting>>

Linked(e) == {f \in Ends : <<e, f>> \in Link \/ <<f, e>> \in Link}

Init ==
  /\ r = [far     |-> [p \in Port |-> IF p \notin Slot THEN <<>> ELSE
                         [i \in 1 .. Width[p] |-> IF Linked(End(p, i)) = {} THEN Nil
                                                  ELSE CHOOSE f \in Linked(End(p, i)) : TRUE]],
          border  |-> [x \in Home |-> x],        \* of a capsule that lives
          capsule |-> [s \in Slot |-> IF s = Main THEN Main ELSE None],
          map     |-> [s \in Slot |-> "none"],   \* slotToBorderMap
          command |-> [c \in Controller |-> <<>>],
          own     |-> [e \in Ends |-> "nothing"], \* the last notification in the
          coming  |-> [e \in Ends |-> "nothing"], \* capsule's, in the incoming queue
          overtaken |-> {},  \* where the last one has overtaken another
          fatal   |-> FALSE]
  /\ waiting = None

-----------------------------------------------------------------------------
(* Notifications *)

RunsOn(x) == IF x \in There THEN "there" ELSE "here"

Border(q, x) == IF x = Main THEN Main ELSE q.border[x]

Unbound(q, p) == q.far[p] = <<>>

Occupied(q, p) == p # None /\ q.capsule[SlotOf(p)] # None

\* sendBoundUnbound and deliver, on controller c: to a port, about instance i of its far
\* end, and to the index that the far end has for it.
Notify(q, c, kind, to, from, i) ==
  LET e == End(to, IF from = to THEN 1 ELSE q.far[from][i].index)
  IN  IF Unbound(q, to) \/ ~Occupied(q, to) \/ e \notin Ends THEN q
      ELSE IF RunsOn(q.capsule[SlotOf(to)]) # c
        THEN [q EXCEPT !.coming[e] = kind, !.overtaken = @ \ {e}]
      ELSE [q EXCEPT !.own[e] = kind,
                     !.overtaken = IF q.coming[e] = "nothing" THEN @ \ {e} ELSE @ \cup {e}]

\* sendBoundUnbound of a port list, called by UMLRTRtsInterface::bindPort.
NotifyBoth(q, c, kind, p, i) ==
  LET f == q.far[p][i]
  IN  IF i > Len(q.far[p]) \/ ~Occupied(q, f.port) THEN q
      ELSE Notify(Notify(q, c, kind, p, f.port, f.index), c, kind, f.port, p, i)

BindPort(q, c, p, i) == NotifyBoth(q, c, "rtBound", p, i)

\* Mutant of UnbindPort: the instance stays connected.
UnbindPortOnly(q, c, p, i) == NotifyBoth(q, c, "rtUnbound", p, i)

\* UMLRTRtsInterface::unbindPort, disconnectPort
UnbindPort(q, c, p, i) ==
  [NotifyBoth(q, c, "rtUnbound", p, i) EXCEPT !.far[p][i] = Nil]

\* deallocateSlotResources, of which the notifications for the slot matter here
Purge(q, s) ==
  [q EXCEPT !.own    = [e \in Ends |-> IF e.port = s THEN "nothing" ELSE @[e]],
            !.coming = [e \in Ends |-> IF e.port = s THEN "nothing" ELSE @[e]],
            !.overtaken = {e \in @ : e.port # s}]

-----------------------------------------------------------------------------
(* Connections *)

Connected(q, p) == {i \in DOMAIN q.far[p] : q.far[p][i] # Nil}

\* A change of r for each connected instance of port p, in their order.
ForEach(q, p, change(_, _)) ==
  FoldLeft(change, q, SetToSortSeq(Connected(q, p), LAMBDA i, j : i < j))

\* Mutant of Reconnect: the far end is not looked up.
ReconnectItself(q, s, i) == [q EXCEPT !.far[s][i] = End(s, i)]

\* connectPorts of an instance with itself: with its far end, if it has one.
Reconnect(q, s, i) ==
  LET e == IF q.far[s][i] = Nil THEN End(s, i) ELSE q.far[s][i]
  IN  [q EXCEPT !.far[e.port][e.index] = End(s, i), !.far[s][i] = e]

\* Whether a class with so many instances, of which some are connected, fits the slot.
Fits(q, s, width, used) == width - used >= Cardinality(Connected(q, s))

\* Mutant of ProxyFar: the proxy has the size of the slot's port.
ProxyFarOfSlot(q, s, width) == q.far[s]

\* bindPortsCreateProxyPort: a proxy of the class's size begins with the slot's far ends.
ProxyFar(q, s, width) ==
  [i \in 1 .. width |-> IF i <= Width[s] THEN q.far[s][i] ELSE Nil]

\* The port of the slot can be the border port of a class of this width.
Same(q, s, width) == Width[s] >= width /\ Cardinality(Connected(q, s)) = Width[s]

MapOf(q, s) == IF Connected(q, s) = {} THEN "unmapped" ELSE "mapped"

\* bindPorts for a capsule that is incarnated in a slot of another class.
BindIncarnated(q, x) ==
  LET mapped == [q EXCEPT !.map[x] = MapOf(q, x)]
  IN  IF Connected(q, x) = {}
        THEN [mapped EXCEPT !.far[Own(x)] = <<>>, !.border[x] = Own(x)]
      ELSE IF Same(q, x, Large) THEN [mapped EXCEPT !.border[x] = x]
      ELSE [mapped EXCEPT !.far[Own(x)] = ProxyFar(q, x, Large), !.border[x] = Own(x)]

\* bindPortsAddFarEnds: an instance of the slot's port is added at the first free one.
AddFarEnd(q, c, s, i, x) ==
  LET b    == q.border[x]
      free == DOMAIN q.far[b] \ Connected(q, b)
      k    == CHOOSE k \in free : \A j \in free : k <= j
  IN  IF free = {} THEN [q EXCEPT !.fatal = TRUE]
      ELSE BindPort([q EXCEPT !.far[b][k] = q.far[s][i]], c, b, k)

\* bindPorts for a capsule that is imported: its border port is unbound, and replaced
\* by the slot's port or by a proxy, or it gets the slot's connections in addition.
BindImported(q, c, s, x) ==
  LET b == q.border[x]
      mapped == [q EXCEPT !.map[s] = MapOf(q, s)]
      proxy  == [mapped EXCEPT !.far[b] = ProxyFar(q, s, ClassWidth(x))]
      direct == [mapped EXCEPT !.border[x] = s]
  IN  IF q.map[s] # "none" THEN [q EXCEPT !.fatal = TRUE]
      ELSE IF Connected(q, s) = {} THEN mapped
      ELSE IF Unbound(q, b) /\ Same(q, s, ClassWidth(x))
        THEN ForEach(direct, s, LAMBDA a, i : BindPort(a, c, s, i))
      ELSE IF Unbound(q, b) THEN ForEach(proxy, b, LAMBDA a, i : BindPort(a, c, b, i))
      ELSE ForEach(mapped, s, LAMBDA a, i : AddFarEnd(a, c, s, i, x))

\* controllerDeportUnbind, for one instance: on a border port that is not the slot's, the
\* one with the same far end has to be found.
DeportUnbind(q, c, s, i, x) ==
  LET b     == q.border[x]
      found == {k \in DOMAIN q.far[b] : q.far[b][k] = q.far[s][i]}
      k     == IF b = s THEN i ELSE CHOOSE k \in found : \A j \in found : k <= j
  IN  IF b # s /\ found = {} THEN [q EXCEPT !.fatal = TRUE]
      ELSE Reconnect(UnbindPort(q, c, b, k), s, i)

-----------------------------------------------------------------------------
(* Operations, on controller c *)

Command(op, s, x) == [op |-> op, slot |-> s, capsule |-> x]

Enqueue(q, m) == [q EXCEPT !.command[RunsOn(m.capsule)] = Append(@, m)]

\* incarnateCapsule with incarnateSendBoundSlotFarEnd, which tells the far ends, though
\* always about the first instance.
Incarnated(q, x) ==
  LET bound == IF x \in Other THEN BindIncarnated(q, x) ELSE [q EXCEPT !.border[x] = x]
      begun == Enqueue([bound EXCEPT !.capsule[x] = x], Command("incarnate", x, x))
  IN  IF x \in Other /\ ~Fits(q, x, Large, 0) THEN q
      ELSE IF begun.map[x] = "unmapped" THEN begun
      ELSE ForEach(begun, x, LAMBDA a, i : Notify(a, "here", "rtBound", a.far[x][i].port, x, 1))

\* initializeCapsule: the capsule is told of the far ends that have a capsule.  The code
\* does not hold the lock here, so that a far end may come or go between two of the
\* notifications, or between the look at one and its notification.
Initialized(q, c, x) ==
  ForEach(q, q.border[x],
          LAMBDA a, i : LET f == a.far[q.border[x]][i]
                        IN  IF Occupied(a, f.port)
                              THEN Notify(a, c, "rtBound", q.border[x], f.port, f.index) ELSE a)

\* The compatibility check of bindPorts for an import.
Compatible(q, s, x) ==
  Fits(q, s, ClassWidth(x), Cardinality(Connected(q, q.border[x])))

\* controllerImport
Imported(q, c, s, x) ==
  IF q.capsule[s] # None \/ ~Compatible(q, s, x) THEN q
  ELSE [BindImported(q, c, s, x) EXCEPT !.capsule[s] = x]

\* Mutant of Deported: the slot keeps its map.
DeportedMapped(q, c, s) ==
  LET unbound == ForEach(q, s, LAMBDA a, i : DeportUnbind(a, c, s, i, q.capsule[s]))
  IN  IF q.capsule[s] = None THEN q ELSE [Purge(unbound, s) EXCEPT !.capsule[s] = None]

\* controllerDeport
Deported(q, c, s) ==
  LET unbound == IF q.map[s] = "unmapped" THEN q
                 ELSE ForEach(q, s, LAMBDA a, i : DeportUnbind(a, c, s, i, q.capsule[s]))
  IN  IF q.capsule[s] = None THEN q
      ELSE IF q.map[s] = "none" THEN [q EXCEPT !.fatal = TRUE]
      ELSE [Purge(unbound, s) EXCEPT !.map[s] = "none", !.capsule[s] = None]

\* Mutant of TellFarEnds: nobody is told.
TellNobody(q, c, x) == q

\* sendBoundUnboundForCapsule, of a capsule that is destroyed, whose own slot is
\* condemned
TellFarEnds(q, c, x) ==
  ForEach(q, q.border[x],
          LAMBDA a, i : LET f == a.far[q.border[x]][i]
                        IN  IF Occupied(a, f.port) /\ SlotOf(f.port) # x
                              THEN Notify(a, c, "rtUnbound", f.port, q.border[x], i) ELSE a)

\* controllerDestroy of a top slot.  All instances of the slot's port are connected
\* again, those that are not connected to themselves.
Destroyed(q, c, x) ==
  LET again == FoldLeft(LAMBDA a, i : Reconnect(a, x, i), TellFarEnds(q, c, x),
                        [i \in 1 .. Width[x] |-> i])
  IN  [Purge(again, x) EXCEPT
         !.far[Own(x)] = <<>>, !.map[x] = "none", !.capsule[x] = None,
         !.command[RunsOn(x)] = SelectSeq(@, LAMBDA m : m.capsule # x)]

-----------------------------------------------------------------------------
(* The capsule of Main calls its frame port.  It imports into a slot that no import is on
   the way to, and destroys a capsule that it has deported. *)

Pending == ToSet(r.command["here"]) \cup ToSet(r.command["there"])

Calls == waiting = None

Incarnate(x) == Calls /\ r.capsule[x] = None /\ r' = Incarnated(r, x) /\ UNCHANGED waiting

Request(m, done) ==
  /\ Calls
  /\ \A n \in Pending : n.op = m.op => n.slot # m.slot
  /\ r' = IF m.capsule \in There THEN Enqueue(r, m) ELSE done
  /\ UNCHANGED waiting

Import(s, x) ==
  /\ r.capsule[x] = x /\ r.capsule[s] = None /\ Compatible(r, s, x)
  /\ Request(Command("import", s, x), Imported(r, "here", s, x))

Deport(s) ==
  /\ r.capsule[s] # None
  /\ Request(Command("deport", s, r.capsule[s]), Deported(r, "here", s))

Destroy(x) ==
  /\ Calls
  /\ r.capsule[x] = x /\ \A s \in Plug : r.capsule[s] # x
  /\ \A m \in Pending : m.capsule = x => m.op = "incarnate"
  /\ IF x \in There
       THEN r' = Enqueue(r, Command("destroy", x, x)) /\ waiting' = x
       ELSE r' = Destroyed(r, "here", x) /\ UNCHANGED waiting

\* executeCommand, by the thread of a controller between two injections.
Execute(c) ==
  LET m == Head(r.command[c])
      q == [r EXCEPT !.command[c] = Tail(@)]
  IN  /\ r.command[c] # <<>>
      /\ c = "here" => Calls
      /\ r' = CASE m.op = "incarnate" -> Initialized(q, c, m.capsule)
                [] m.op = "import"    -> Imported(q, c, m.slot, m.capsule)
                [] m.op = "deport"    -> Deported(q, c, m.slot)
                [] m.op = "destroy"   -> Destroyed(q, c, m.slot)
      /\ waiting' = IF m.op = "destroy" THEN None ELSE waiting

\* moveAll: what is in the incoming queue follows what is in the capsule's.
Move(c) ==
  LET mine == {e \in Ends : /\ r.coming[e] # "nothing"
                            /\ Occupied(r, e.port) /\ RunsOn(r.capsule[e.port]) = c}
  IN  /\ mine # {} /\ (c = "here" => Calls)
      /\ r' = [r EXCEPT !.own    = [e \in Ends |-> IF e \in mine THEN r.coming[e] ELSE @[e]],
                        !.coming = [e \in Ends |-> IF e \in mine THEN "nothing" ELSE @[e]]]
      /\ UNCHANGED waiting

Next ==
  /\ ~r.fatal
  /\ \/ \E x \in Home : Incarnate(x) \/ Destroy(x)
     \/ \E s \in Plug : Deport(s) \/ \E x \in Home : Import(s, x)
     \/ \E c \in Controller : Execute(c) \/ Move(c)

Spec == Init /\ [][Next]_vars

-----------------------------------------------------------------------------
(* Properties *)

\* Ports and notifications have the values the program gives them; a living capsule's
\* border port is its own or a slot's and has the instances of its class, or none.
TypeOK ==
  /\ \A p \in Port : \A i \in DOMAIN r.far[p] : r.far[p][i] \in Ends \cup {Nil}
  /\ \A s \in Slot : Len(r.far[s]) = Width[s]
  /\ \A x \in Home : r.capsule[x] = x =>
       Len(r.far[r.border[x]]) \in {ClassWidth(x), IF x \in Other THEN 0 ELSE ClassWidth(x)}
  /\ r.capsule \in [Slot -> Home \cup {Main, None}]
  /\ r.map \in [Slot -> {"none", "unmapped", "mapped"}]
  /\ \A e \in Ends : {r.own[e], r.coming[e]} \subseteq {"nothing", "rtBound", "rtUnbound"}
  /\ r.fatal \in BOOLEAN /\ waiting \in There \cup {None}

\* No incarnation, import, deport or destruction takes away what generated code connected:
\* the slots' ports stay the far ends of each other, whoever occupies the slots.
LinksKept ==
  \A l \in Link : /\ r.far[l[1].port][l[1].index] = l[2]
                  /\ r.far[l[2].port][l[2].index] = l[1]

\* The capsules' sides of the connections follow the slots' occupants: exactly one
\* instance of the border ports of all living capsules has the far end of a slot's instance
\* if the slot is occupied, one of its occupant; and none if it is empty.
Users(f) ==
  {u \in ({Main} \cup Home) \X (1 .. Large + Width[Main]) :
     /\ r.capsule[u[1]] = u[1]
     /\ LET b == Border(r, u[1]) IN u[2] \in DOMAIN r.far[b] /\ r.far[b][u[2]] = f}

OccupantConnected ==
  \A l \in Link : \A e \in {l[1], l[2]} :
    LET f == IF e = l[1] THEN l[2] ELSE l[1]
        x == r.capsule[e.port]
    IN  IF x = None THEN Users(f) = {}
        ELSE Cardinality(Users(f)) = 1 /\ \A u \in Users(f) : u[1] = x

\* The frame service finds every far end it looks for and never binds a slot twice.
NoFatal == ~r.fatal

\* Once all commands are executed, the last notification for an instance of a capsule's own
\* slot port tells whether the slot at its far end is occupied, unless it has overtaken, by
\* the capsule's own controller, one of the other controller.
NotifiedLast(e) == IF r.coming[e] = "nothing" THEN r.own[e] ELSE r.coming[e]

Told ==
  Pending = {} =>
    \A l \in Link : \A e \in {l[1], l[2]} \ r.overtaken :
      LET f == IF e = l[1] THEN l[2] ELSE l[1]
          x == r.capsule[e.port]
      IN  x # None /\ Border(r, x) = e.port =>
            IF r.capsule[f.port] # None THEN NotifiedLast(e) = "rtBound"
            ELSE NotifiedLast(e) # "rtBound"
=============================================================================

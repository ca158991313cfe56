------------------------------- MODULE Frame -------------------------------
(***************************************************************************)
(* The frame service: capsules are incarnated in optional slots, imported  *)
(* into plugin slots, deported and destroyed, while each of them runs on   *)
(* the controller it was given.  What must happen on another controller is *)
(* sent to it as a command; only a destroy waits for it.  The container of *)
(* a slot, which alone operates on it, is a capsule of the main program or *)
(* (for the parts of a capsule) the capsule itself.                        *)
(*                                                                         *)
(* Functions from rt to rt are what runs under the RTS lock.  Signals and  *)
(* the order of what is queued are the subject of Controller; here signals *)
(* are a set for each controller, since priorities may reorder them.       *)
(***************************************************************************)
EXTENDS Naturals, FiniteSets, Sequences, Functions

CONSTANTS Controller,
          OptSlot,    \* optional slots of the main program
          PlugSlot,   \* plugin slots of the main program
          Owner,      \* Owner[s]: the controller of the container of slot s
          Capsule,    \* addresses of capsules, used again after a delete
          Roles,      \* the parts of a capsule: a "fixed" one, a "plug" one
          MaxSignals, \* bound: signals that wait at a time
          NULL

ASSUME FrameAssumption ==
  /\ MaxSignals \in Nat /\ Roles \subseteq {"fixed", "plug"}
  /\ Owner \in [OptSlot \cup PlugSlot -> Controller]
  /\ OptSlot \cap PlugSlot = {}
  /\ (OptSlot \cup PlugSlot \cup Capsule) \cap (Capsule \X Roles) = {}
  /\ NULL \notin Controller \cup OptSlot \cup PlugSlot \cup Capsule \cup (Capsule \X Roles)

Part     == Capsule \X Roles
Slot     == OptSlot \cup PlugSlot \cup Part
Plugin   == PlugSlot \cup {p \in Part : p[2] = "plug"}
\* A fixed part is never empty: its capsule has the name of the slot.
Instance == Capsule \cup (Part \ Plugin)

PartsOf(x) == {x} \X Roles

\* A change of r for each part of x, in their order.
EachPart(r, x, change(_, _)) ==
  LET fixed == IF "fixed" \in Roles THEN change(r, <<x, "fixed">>) ELSE r
  IN IF "plug" \in Roles THEN change(fixed, <<x, "plug">>) ELSE fixed

Command == [op : {"incarnate", "import", "deport", "destroy", "exit"},
            slot : Slot \cup {NULL}, capsule : Instance \cup {NULL},
            waiter : Controller \cup {NULL}]   \* of a destroy of a top slot

Msg(op, s, i, c) == [op |-> op, slot |-> s, capsule |-> i, waiter |-> c]

VARIABLES
  rt,      \* slots, capsules and queues, see TypeOK
  pc,      \* what the thread of a controller is doing
  hand,    \* the command it has taken from its queue
  plan,    \* history: the capsule its users have put into a plugin slot
  exiting  \* EXIT has been sent to all controllers

vars == <<rt, pc, hand, plan, exiting>>

TypeOK ==
  /\ rt.slot \in [Slot -> [exists : BOOLEAN, capsule : Instance \cup {NULL},
                           controller : Controller \cup {NULL},
                           condemned : BOOLEAN,
                           mapped : BOOLEAN]]          \* slotToBorderMap # NULL
  /\ rt.home \in [Capsule -> OptSlot \cup {NULL}]      \* NULL: deleted
  /\ rt.initialized \subseteq Instance
  /\ rt.incoming \in [Controller -> Seq(Command)]
  /\ rt.queue \in [Controller -> Seq(Command)]
  /\ rt.signals \in [Controller -> SUBSET (Slot \X Instance)]  \* and whom they are for
  /\ rt.fatal \in BOOLEAN
  /\ pc \in [Controller -> {"loop", "import", "deport", "waiting", "exited"}]
  /\ hand \in [Controller -> Command \cup {NULL}]
  /\ plan \in [Plugin -> Capsule \cup {NULL}]
  /\ exiting \in BOOLEAN

Vacant(c) == [exists |-> TRUE, capsule |-> NULL, controller |-> c,
              condemned |-> FALSE, mapped |-> FALSE]
Gone      == [Vacant(NULL) EXCEPT !.exists = FALSE]

Init ==
  /\ rt = [slot        |-> [s \in Slot |-> IF s \in Part THEN Gone ELSE Vacant(Owner[s])],
           home        |-> [x \in Capsule |-> NULL],
           initialized |-> {},
           incoming    |-> [c \in Controller |-> <<>>],
           queue       |-> [c \in Controller |-> <<>>],
           signals     |-> [c \in Controller |-> {}],
           fatal       |-> FALSE]
  /\ pc = [c \in Controller |-> "loop"]
  /\ hand = [c \in Controller |-> NULL]
  /\ plan = [p \in Plugin |-> NULL]
  /\ exiting = FALSE
-----------------------------------------------------------------------------
(* Under the lock.                                                         *)

Alive(r, i)  == IF i \in Capsule THEN r.home[i] # NULL ELSE r.slot[i].capsule = i
RunsOn(r, i) == r.slot[IF i \in Capsule THEN r.home[i] ELSE i].controller

\* enqueueCommand, by the thread of c, to controller d
Enqueue(r, c, d, m) ==
  IF c = d THEN [r EXCEPT !.queue[d] = Append(@, m)]
  ELSE [r EXCEPT !.incoming[d] = Append(@, m)]

\* Mutant of Matches: INCARNATE stays.
MatchesSlot(m, s, i, destroying) ==
  \/ m.op = "destroy" /\ m.slot = s /\ destroying
  \/ m.op \in {"import", "deport"} /\ m.slot = s /\ (destroying \/ m.capsule = i)

\* deallocateMsgMatchCompare
Matches(m, s, i, destroying) ==
  \/ m.op = "destroy" /\ m.slot = s /\ destroying
  \/ m.op \in {"import", "deport"} /\ m.slot = s /\ (destroying \/ m.capsule = i)
  \/ m.op = "incarnate" /\ m.capsule = i /\ destroying

\* PriorityMessageQueue::remove, which looks at one message after the other
Kept(q, s, i, destroying) ==
  LET kept[n \in 0 .. Len(q)] ==
        IF n = 0 THEN <<>>
        ELSE IF Matches(q[n], s, i, destroying) THEN kept[n - 1] ELSE Append(kept[n - 1], q[n])
  IN kept[Len(q)]

\* Mutant of Deallocate: only commands are removed.
DeallocateCommands(r, s, i, destroying) ==
  LET d == r.slot[s].controller
  IN [r EXCEPT !.incoming[d] = Kept(@, s, i, destroying), !.queue[d] = Kept(@, s, i, destroying)]

\* deallocateSlotResources, which does not know EXIT
Deallocate(r, s, i, destroying) ==
  LET d == r.slot[s].controller
      exits == {m \in Range(r.incoming[d] \o r.queue[d]) : m.op = "exit"}
  IN [r EXCEPT !.incoming[d] = Kept(@, s, i, destroying), !.queue[d] = Kept(@, s, i, destroying),
               !.signals[d] = {g \in @ : g[1] # s},
               !.fatal = @ \/ exits # {}]

Delete(r, i) ==
  [r EXCEPT !.home = [x \in Capsule |-> IF x = i THEN NULL ELSE @[x]],
            !.initialized = @ \ {i}]

\* The part of controllerImport that runs under the lock.  FATAL if ports of the
\* slot are bound; what follows the use of a deleted slot or capsule is left out.
Bind(r, p, y) ==
  IF r.slot[p].mapped \/ ~ r.slot[p].exists \/ ~ Alive(r, y) THEN [r EXCEPT !.fatal = TRUE]
  ELSE [r EXCEPT !.slot[p].capsule = y, !.slot[p].controller = RunsOn(r, y),
                 !.slot[p].mapped = TRUE]

\* Mutant of ControllerDeport: the map of the ports stays.
ControllerDeportMapped(r, p, synchronous) ==
  IF r.slot[p].capsule = NULL /\ ~ synchronous THEN r
  ELSE IF ~ r.slot[p].mapped THEN [r EXCEPT !.fatal = TRUE]
  ELSE [Deallocate(r, p, r.slot[p].capsule, FALSE) EXCEPT !.slot[p].capsule = NULL]

ControllerDeport(r, p, synchronous) ==
  IF r.slot[p].capsule = NULL /\ ~ synchronous THEN r
  ELSE IF ~ r.slot[p].mapped THEN [r EXCEPT !.fatal = TRUE]
  ELSE [Deallocate(r, p, r.slot[p].capsule, FALSE) EXCEPT !.slot[p].capsule = NULL,
                                                         !.slot[p].mapped = FALSE]

RequestDeport(r, c, p) ==
  IF p \notin Plugin \/ r.slot[p].capsule = NULL THEN r
  ELSE IF r.slot[p].controller = c THEN ControllerDeport(r, p, TRUE)
  ELSE Enqueue(r, c, r.slot[p].controller, Msg("deport", p, r.slot[p].capsule, NULL))

\* Mutant of RequestImport: the slot keeps its controller until the command runs.
RequestImportLater(r, c, p, y) ==
  LET d == RunsOn(r, y)
  IN IF d = c THEN Bind(r, p, y) ELSE Enqueue(r, c, d, Msg("import", p, y, NULL))

RequestImport(r, c, p, y) ==
  LET d == RunsOn(r, y)
  IN IF d = c THEN Bind(r, p, y)
     ELSE Enqueue([r EXCEPT !.slot[p].controller = d], c, d, Msg("import", p, y, NULL))

\* createParts and defineSlotControllers; a fixed part gets its capsule as well.
CreateParts(r, x, e) ==
  [r EXCEPT !.slot = [t \in Slot |->
     IF t \in PartsOf(x)
     THEN [Vacant(e[t[2]]) EXCEPT !.capsule = IF t \in Instance THEN t ELSE NULL]
     ELSE @[t]]]

RequestIncarnate(r, c, i) ==
  IF i \notin Instance THEN r ELSE Enqueue(r, c, RunsOn(r, i), Msg("incarnate", NULL, i, NULL))

\* A new capsule, then those in its parts.
IncarnateAll(r, c, x) ==
  EachPart(RequestIncarnate(r, c, x), x, LAMBDA w, p : RequestIncarnate(w, c, p))

\* controllerDestroy of a slot that is not the top slot: the slot goes too.
DestroyPart(r, p) ==
  LET i == r.slot[p].capsule
  IN [Deallocate(Delete(r, i), p, i, TRUE) EXCEPT !.slot[p] = Gone]

\* Mutant of RequestDestroyPart: a slot of another controller is left to it.
RequestDestroyPartHere(r, c, p) ==
  IF r.slot[p].controller = c THEN DestroyPart(r, p) ELSE r

RequestDestroyPart(r, c, p) ==
  IF r.slot[p].controller = c THEN DestroyPart(r, p)
  ELSE Enqueue(r, c, r.slot[p].controller, Msg("destroy", p, NULL, NULL))

Condemn(r, slots) ==
  [r EXCEPT !.slot = [s \in Slot |-> IF s \in slots THEN [@[s] EXCEPT !.condemned = TRUE]
                                     ELSE @[s]]]

\* controllerDestroy of a top slot, by its controller.
DestroyTop(r, s) ==
  LET c == r.slot[s].controller
      x == r.slot[s].capsule
      condemned == Condemn(r, {s} \cup PartsOf(x))
      deported  == EachPart(condemned, x, LAMBDA w, p : RequestDeport(w, c, p))
      destroyed == EachPart(deported, x, LAMBDA w, p : RequestDestroyPart(w, c, p))
      asked     == IF x = NULL THEN r ELSE destroyed
  IN [Deallocate(Delete(asked, x), s, x, TRUE) EXCEPT !.slot[s] = Vacant(c)]
-----------------------------------------------------------------------------
(* What users do: a handler of a capsule that runs on c.                   *)

\* A FATAL ends the process.
At(c, place) == ~ rt.fatal /\ pc[c] = place

Used(c) == At(c, "loop") /\ UNCHANGED <<hand, exiting>>

\* The container of slot s is a capsule that runs on c.
Operates(c, s) ==
  IF s \in Part THEN s[1] \in rt.initialized /\ RunsOn(rt, s[1]) = c ELSE Owner[s] = c

\* incarnateCapsule: the capsule and its parts may be given any controllers.
Incarnate(c, s, x) ==
  /\ Used(c) /\ Operates(c, s)
  /\ rt.slot[s].capsule = NULL
  /\ rt.home[x] = NULL /\ \A p \in PartsOf(x) : ~ rt.slot[p].exists
  /\ \E d \in Controller, e \in [Roles -> Controller] :
       LET made == [CreateParts(rt, x, e) EXCEPT !.home[x] = s, !.slot[s].capsule = x,
                                                 !.slot[s].controller = d]
       IN rt' = IncarnateAll(made, c, x)
  /\ UNCHANGED <<pc, plan>>

\* A destroy of capsule x has been asked for and not been done.
Doomed(x) ==
  \E c \in Controller : \E m \in Range(rt.incoming[c] \o rt.queue[c]) :
    m.op = "destroy" /\ m.slot = rt.home[x]

\* An import that a careful user may ask for: the last one into that slot has
\* been undone, and the capsules concerned are there to stay.
Settled(p, y) ==
  plan[p] = NULL /\ ~ Doomed(y) /\ (p \in Part => ~ Doomed(p[1]))

\* importCapsule of a capsule that fits
Import(c, p, y) ==
  /\ Used(c) /\ Operates(c, p) /\ Settled(p, y)
  /\ Alive(rt, y) /\ (p \in Part => p[1] # y)
  /\ rt.slot[p].capsule = NULL
  /\ rt' = RequestImport(rt, c, p, y)
  /\ plan' = [plan EXCEPT ![p] = y]
  /\ UNCHANGED pc

\* deport finds the slot...
Deport(c, p) ==
  /\ At(c, "loop") /\ Operates(c, p)
  /\ rt.slot[p].capsule # NULL /\ plan[p] # NULL
  /\ pc' = [pc EXCEPT ![c] = "deport"]
  /\ hand' = [hand EXCEPT ![c] = Msg("deport", p, NULL, NULL)]
  /\ plan' = [plan EXCEPT ![p] = NULL]
  /\ UNCHANGED <<rt, exiting>>

\* ... and requestControllerDeport looks again, still without the lock.
DeportFound(c) ==
  /\ At(c, "deport")
  /\ rt' = RequestDeport(rt, c, hand[c].slot)
  /\ pc' = [pc EXCEPT ![c] = "loop"]
  /\ hand' = [hand EXCEPT ![c] = NULL]
  /\ UNCHANGED <<plan, exiting>>

\* A careful user destroys a capsule that is in no plugin slot, or whose deport
\* from a slot of the same container, which runs on c, has been asked for, and
\* that has no import into a slot of its own under way.
Detached(c, x) ==
  \A p \in Plugin :
    /\ plan[p] # x
    /\ rt.slot[p].capsule = x => p \notin Part /\ Owner[p] = c
    /\ p \in PartsOf(x) => plan[p] \in {NULL, rt.slot[p].capsule}

\* destroy, which waits when another controller has to do it
Destroy(c, s) ==
  LET x == rt.slot[s].capsule
      d == rt.slot[s].controller
  IN /\ Used(c) /\ Operates(c, s)
     /\ x # NULL /\ Detached(c, x)
     /\ \/ /\ d = c
           /\ rt' = DestroyTop(rt, s)
           /\ UNCHANGED pc
        \/ /\ d # c
           /\ rt' = Enqueue(rt, c, d, Msg("destroy", s, NULL, c))
           /\ pc' = [pc EXCEPT ![c] = "waiting"]
     /\ plan' = [p \in Plugin |-> IF p \in PartsOf(x) THEN NULL ELSE plan[p]]

\* signalDeliver, from the container of slot s to the capsule in it
Send(c, s) ==
  /\ Used(c) /\ Operates(c, s)
  /\ s \in Part => ~ rt.slot[rt.home[s[1]]].condemned
  /\ ~ rt.slot[s].condemned /\ rt.slot[s].capsule # NULL
  /\ Cardinality(UNION Range(rt.signals)) < MaxSignals
  /\ rt' = [rt EXCEPT !.signals[rt.slot[s].controller] = @ \cup {<<s, rt.slot[s].capsule>>}]
  /\ UNCHANGED <<pc, plan>>

ExitAll(c) ==
  /\ At(c, "loop") /\ ~ exiting
  /\ exiting' = TRUE
  /\ LET exit == Msg("exit", NULL, NULL, NULL)
     IN rt' = [rt EXCEPT !.queue[c] = Append(@, exit),
                         !.incoming = [d \in Controller |-> IF d = c THEN @[d]
                                                            ELSE Append(@[d], exit)]]
  /\ UNCHANGED <<pc, hand, plan>>
-----------------------------------------------------------------------------
(* The run loop of controller c.                                           *)

\* moveAll
Move(c) ==
  /\ At(c, "loop") /\ rt.incoming[c] # <<>>
  /\ rt' = [rt EXCEPT !.queue[c] = @ \o rt.incoming[c], !.incoming[c] = <<>>]
  /\ UNCHANGED <<pc, hand, plan, exiting>>

\* dequeueHighestPriority; commands have one priority
Takes(c, op) == At(c, "loop") /\ rt.queue[c] # <<>> /\ Head(rt.queue[c]).op = op
First(c)     == Head(rt.queue[c])
Taken(c)     == [rt EXCEPT !.queue[c] = Tail(@)]

\* Mutant of ExecuteIncarnate: it looks for the capsule in the wrong field.
ExecuteIncarnateSlot(c) ==
  /\ Takes(c, "incarnate")
  /\ rt' = [Taken(c) EXCEPT !.initialized = @ \cup {First(c).slot}]
  /\ UNCHANGED <<pc, hand, plan, exiting>>

\* initialize() runs: what it does are steps of the user.
ExecuteIncarnate(c) ==
  /\ Takes(c, "incarnate")
  /\ rt' = [Taken(c) EXCEPT !.initialized = @ \cup {First(c).capsule}]
  /\ UNCHANGED <<pc, hand, plan, exiting>>

\* controllerImport looks at the slot before it takes the lock.
ExecuteImport(c) ==
  /\ Takes(c, "import")
  /\ rt' = Taken(c)
  /\ IF rt.slot[First(c).slot].capsule = NULL
     THEN /\ pc' = [pc EXCEPT ![c] = "import"]
          /\ hand' = [hand EXCEPT ![c] = First(c)]
     ELSE UNCHANGED <<pc, hand>>
  /\ UNCHANGED <<plan, exiting>>

BindImport(c) ==
  /\ At(c, "import")
  /\ rt' = Bind(rt, hand[c].slot, hand[c].capsule)
  /\ pc' = [pc EXCEPT ![c] = "loop"]
  /\ hand' = [hand EXCEPT ![c] = NULL]
  /\ UNCHANGED <<plan, exiting>>

ExecuteDeport(c) ==
  /\ Takes(c, "deport")
  /\ rt' = ControllerDeport(Taken(c), First(c).slot, FALSE)
  /\ UNCHANGED <<pc, hand, plan, exiting>>

\* Mutant of ExecuteDestroy: no post.
ExecuteDestroySilent(c) ==
  /\ Takes(c, "destroy")
  /\ LET m == First(c)
     IN rt' = IF m.waiter = NULL THEN DestroyPart(Taken(c), m.slot)
              ELSE DestroyTop(Taken(c), m.slot)
  /\ UNCHANGED <<pc, hand, plan, exiting>>

\* The semaphore's post and the end of its wait are one step.
ExecuteDestroy(c) ==
  /\ Takes(c, "destroy")
  /\ LET m == First(c)
     IN IF m.waiter = NULL
        THEN rt' = DestroyPart(Taken(c), m.slot) /\ UNCHANGED pc
        ELSE rt' = DestroyTop(Taken(c), m.slot) /\ pc' = [pc EXCEPT ![m.waiter] = "loop"]
  /\ UNCHANGED <<hand, plan, exiting>>

ExecuteExit(c) ==
  /\ Takes(c, "exit")
  /\ rt' = Taken(c)
  /\ pc' = [pc EXCEPT ![c] = "exited"]
  /\ UNCHANGED <<hand, plan, exiting>>

\* A signal is injected into the capsule in the slot, or dropped if the slot is
\* condemned; it must not be empty.
TakeSignal(c) ==
  /\ At(c, "loop")
  /\ \E g \in rt.signals[c] :
       rt' = [rt EXCEPT !.signals[c] = @ \ {g},
                        !.fatal = @ \/ rt.slot[g[1]].capsule = NULL]
  /\ UNCHANGED <<pc, hand, plan, exiting>>

Execute(c) == \/ ExecuteIncarnate(c)
              \/ ExecuteImport(c)
              \/ ExecuteDeport(c)
              \/ ExecuteDestroy(c)
              \/ ExecuteExit(c)

User(c) == \/ \E s \in OptSlot : Destroy(c, s) \/ \E x \in Capsule : Incarnate(c, s, x)
           \/ \E p \in Plugin : Deport(c, p) \/ \E y \in Capsule : Import(c, p, y)
           \/ \E s \in Slot : Send(c, s)
           \/ ExitAll(c)

Next == \E c \in Controller :
          \/ User(c) \/ DeportFound(c)
          \/ Move(c) \/ Execute(c) \/ BindImport(c) \/ TakeSignal(c)

\* A controller returns to its loop, and takes commands in turn with signals:
\* Controller shows it for its queues.
Fairness == \A c \in Controller :
              /\ WF_vars(DeportFound(c)) /\ WF_vars(BindImport(c))
              /\ SF_vars(Move(c)) /\ SF_vars(Execute(c))

Spec == Init /\ [][Next]_vars /\ Fairness
-----------------------------------------------------------------------------
(* Properties.                                                             *)

\* What controller c has still to execute.
Pending(c) == Range(rt.incoming[c] \o rt.queue[c])
              \cup (IF pc[c] = "import" THEN {hand[c]} ELSE {})

\* A signal that waits will be injected into the capsule it was sent to, on the
\* controller that runs it: through deports, second imports and destroys that are
\* done by several controllers, none is left for an empty slot (a FATAL in run),
\* for the next capsule in the slot, for a deleted slot, or on another thread.
SignalsForOccupant ==
  \A c \in Controller : \A g \in rt.signals[c] :
    rt.slot[g[1]].exists /\ rt.slot[g[1]].controller = c /\ rt.slot[g[1]].capsule = g[2]

\* Part of NothingDangles: no slot holds a deleted capsule, and "the capsule instance being imported into
\* the slot must run on the same controller it was originally incarnated on"; a
\* capsule that lives is in its optional slot.
SlotsHoldLive ==
  /\ \A s \in Slot : LET i == rt.slot[s].capsule
                     IN i # NULL => Alive(rt, i) /\ rt.slot[s].controller = RunsOn(rt, i)
  /\ \A x \in Capsule : rt.home[x] # NULL => rt.slot[rt.home[x]].capsule = x

\* Part of NothingDangles: a command that waits is about a slot that exists, and one that uses a capsule is
\* about a live one and waits on its controller: commands hold bare pointers, and
\* only the purge by deallocateSlotResources keeps them from outliving what they
\* point to.
CommandsLive ==
  \A c \in Controller : \A m \in Pending(c) :
    /\ m.slot # NULL => rt.slot[m.slot].exists
    /\ m.op \in {"incarnate", "import"} => Alive(rt, m.capsule) /\ RunsOn(rt, m.capsule) = c

\* Whatever several controllers deport and destroy, and although addresses are used
\* again, slots and commands refer to what lives.
NothingDangles == SlotsHoldLive /\ CommandsLive

\* An import that was accepted takes effect: the capsule is in the slot, or the
\* command that puts it there still waits on the controller of the slot.
ImportsKept ==
  \A p \in Plugin : plan[p] # NULL =>
    \/ rt.slot[p].capsule = plan[p]
    \/ Msg("import", p, plan[p], NULL) \in Pending(rt.slot[p].controller)

\* No interleaving of careful users and controllers ends the process, unless EXIT
\* has been sent: deallocateMsgMatchCompare ends it for an EXIT in the queue.
FatalOnlyOnExit == rt.fatal => exiting

\* enqueueDestroy waits for another controller inside the run loop of its own; the
\* other one, which sends commands back meanwhile, gets the destroy done.
DestroyReturns ==
  \A c \in Controller : pc[c] = "waiting" ~> (pc[c] = "loop" \/ exiting)

\* Part of CommandsTakeEffect: every capsule that is incarnated, be it in a part of another one, is initialized
\* unless it is destroyed before: its INCARNATE is neither lost nor purged.
CapsulesInitialized ==
  \A i \in Instance : Alive(rt, i) ~> (i \in rt.initialized \/ ~ Alive(rt, i) \/ exiting)

\* Part of CommandsTakeEffect: the parts of a destroyed capsule are deleted too, by whatever controllers run
\* them and although nobody waits for it.
PartsGo == \A p \in Part : rt.slot[p].condemned ~> (~ rt.slot[p].exists \/ exiting)

\* Part of CommandsTakeEffect: an import into a slot is done in the end, unless it is given up.
ImportsDone ==
  \A p \in Plugin, y \in Capsule :
    plan[p] = y ~> (rt.slot[p].capsule = y \/ plan[p] # y \/ exiting)

\* What was asked of another controller and is not waited for is done in the end.
CommandsTakeEffect == CapsulesInitialized /\ PartsGo /\ ImportsDone
=============================================================================

# UML-RT runtime services: TLA+ models, checks and proofs

The repository holds a Visual Studio Code extension for the RTPoet language and,
in `src/devcontainer/umlrts`, the C++ runtime that generated programs are linked
with: it runs *capsules* (state machines with ports) on *controllers* (threads
with message queues). The extension starts a language server that is not in the
repository; the program's own logic is the runtime, and that is what is modelled.
Below, file names are those of `src/src/devcontainer/umlrts/umlrt` unless a path
is given.

## 1. Inventory

### Parts

| Part | State it keeps | Operations | Model |
|---|---|---|---|
| Controller (`umlrtcontroller.cc`) | incoming and capsule queues, timer queue, `_exit`/`_abort` | `deliver`, `enqueue...` commands, `run`, `wait`, `executeCommand`, purges | `Controller`, `Mailbox`; commands on capsules and purges: `Frame` |
| Priority message queues (`umlrtprioritymessagequeue.cc`) | a FIFO queue per priority, a notification pipe | `enqueue`, `moveAll`, `isEmpty`, `dequeueHighestPriority`, `queueTimerMessages` | `Controller` |
| Notification pipes (`os/linux/osnotify.cc`) | bytes in a pipe | notify (FIONREAD, write), clear (read until empty) | `Controller` |
| Threads (`os/linux/osbasicthread.cc`) | the identity of the thread | `start`, `isMyThread` | `Controller` (`StoreTid`) |
| Timers (`umlrttimerqueue.cc`, `umlrttimerprotocol.cc`, `umlrttimerpool.cc`) | a sorted queue per controller, a LIFO pool, `timeAdjustMutex` | `informAt`, `informIn`, `informEvery`, `cancelTimer`, `timeAdjustStart`, `timeAdjustComplete` | `Timers` |
| Signals (`umlrtsignal.cc`, `umlrtsignalelement.cc`, pool) | reference counts, payload buffers, a LIFO pool | initialize, copy, assign, destroy | `SignalElement` |
| Message lists (`umlrtqueue.cc`, `umlrtpool.cc`, `umlrtcommsport.cc`) | next pointers, heads, tails, counts | enqueue, dequeue, `moveAll`, `remove`, defer, recall, purge | `LinkedQueue`, `Deferral` |
| Service registry (`umlrtprotocol.cc`, part of `umlrtframeservice.cc`) | registered SAPs and SPPs, queues of waiting SAPs, far ends | register, deregister, bind, unbind, create and destroy ports | `ServiceRegistry` |
| Frame service (`umlrtframeservice.cc`, `umlrtframeprotocol.cc`) | slots, capsules, controllers of slots, far ends of ports, the global lock | incarnate, import, deport, destroy; bind, unbind, connect | slots and commands: `Frame`; ports and their connections: `Ports`; services: `ServiceRegistry` |
| Sending (`umlrtoutsignal.cc`) | none of its own | `send`, `sendAt`, `signalDeliver` | delivery in `Controller`; its checks in `Frame` |
| Hash maps (`umlrthashmap.cc`) | a sorted array | `insert`, `remove`, `getObject`, `locate`, iterate | `HashMap`, `PointerMap`, `Dictionary`; functions in `ServiceRegistry` |
| TCP service (`umlrttcpservice.cc`, `umlrttcpprotocol.cc`) | maps of sockets, ports and slots; queues of messages, of accepts and of ports to disconnect | connect, listen, attach, accept, disconnect, send, the service loop | `TcpService` |
| MQTT service (`umlrtmqttservice.cc`) | maps of clients and ports, the queue of messages | connect, subscribe, publish, the service loop | not modelled |

The remaining parts (capsule to controller map, of which only the broadcast of EXIT is modelled, JSON coder, object classes,
signal registry, log, main program, time values, mutexes, the Windows and stub
ports, debug output, the ZMQ service, the extension, the vendored Paho client
and RapidJSON) are listed in `PROJECT.json` with the reason they are not modelled.

### How they interact

A capsule runs on the thread of its controller: `run` injects one message at a
time. User code called from there sends (`send` looks up the far end of its port
under the global lock and calls `deliver` of the receiving controller), starts
and cancels timers of its own controller, defers and recalls messages,
registers ports with the service registry, and asks the frame service for
capsules to be incarnated, imported, deported and destroyed. A capsule with a TCP port
calls the TCP service, whose own thread reads and writes the sockets and delivers to the
capsule's controller. What concerns a
capsule of another controller becomes a command in that controller's incoming
queue. Controllers share the incoming queues (a mutex for each priority, a pipe
for waking up), the pools of messages, signal elements and timers (a mutex
each), the signal elements, the adjustment of the clock, the registry, and the
slots (the global lock).

### What is hard

- *Waking up.* Enqueueing, asking whether the pipe is empty and writing the
  byte are separate steps of a sender; looking at the queue, sleeping and clearing
  the pipe are separate steps of the controller. No lock joins them.
- *Ordering.* A message passes two queues, is moved priority by priority
  while others send, may be deferred and recalled to either end.
- *Progress.* Capsules may send to themselves for ever; others must be served.
- *Time.* The due times of all controllers are moved by one of them, while
  others are starting timers, waiting, or holding a timer in their hands.
- *Recycling.* Elements, timers and messages return to LIFO pools, so a
  reference that is kept too long designates something else at once.
- *Long sequences.* Registrations come and go in every order, with queues of
  those that wait.
- *Connections.* The ports of a capsule are those of its slot, or proxies that
  share far ends with several slots, and every import and deport rearranges them.
- *Sockets.* Three maps with three mutexes are changed by two threads while one iterates
  over them, and a descriptor that is closed is the next one that is opened.
- *Commands.* Between the request for a destroy, deport or import and its
  execution in another controller, the slot may have changed.

`PROJECT.json` lists each hazard at its line, with the properties that cover it,
or the module that is to.

### What makes each part correct

- Controller: never asleep on a message nobody will announce; never ends the
  process on an empty pipe; never blocks a sender on a full one; FIFO for every
  route and priority, nothing lost or duplicated, nothing after EXIT; every
  message and every timer is eventually served.
- Timers: each timer in one place; queues in order; no thread sleeps past its
  first timer; a started timer ends.
- Signals: exact counts; an element is not given out while something refers to
  it; the buffer of a large payload is freed exactly once, with its element. (The
  comments promise as much of the default buffer, which the code does not keep: section 3.)
- Lists: no message on two lists or on none; pointers and counts agree; they
  behave as sequences, from which a purge or recall takes what it means and no more.
- Registry: both ends of a binding agree; a registered SAP is bound or waits; no
  SAP waits while a far end of its service is free; first come, first served; a
  destroyed port is gone from it.
- Frame service: slots and commands never refer to a capsule or slot that is gone;
  a signal reaches the capsule it was sent to, on its own thread, or nobody; an
  accepted import is done; every capsule is initialized; parts go with their
  container; a synchronous destroy returns; nothing but EXIT ends the process.
- Ports: the links between slots survive whatever their occupants do; an occupied slot's
  connections are its occupant's, each on one port instance, and an empty slot's are
  nobody's; every far end that has to be undone is found; capsules are told.
- TCP service: maps agree; lines and messages go to and come from the right connection in
  order; the end of a connection is reported, a client that is asked for is accepted, as far as
  peers let the one thread go on;
  the process does not end for a connection that is there.
- Hash map: a dictionary.

## 2. Modules

| Module | Role |
|---|---|
| `Mailbox` | abstract: channels that keep their order, drained until closed |
| `Controller` | the run loop, its queues and pipes, the sending threads; implements `Mailbox` |
| `ControllerProofs` | theorems about `Controller` |
| `Timers` | pool, queues and adjustment of the clock |
| `TimersProofs` | theorems about `Timers` |
| `SignalElement` | counted references to pooled elements |
| `SignalElementProofs` | theorems about `SignalElement` |
| `Deferral` | abstract: messages as sequences, with defer, and what a recall or purge means |
| `LinkedQueue` | the same with pointers; implements `Deferral` |
| `LinkedQueueProofs` | theorems about `LinkedQueue` |
| `ServiceRegistry` | SAPs, SPPs and far ends |
| `ServiceRegistryProofs` | theorems about `ServiceRegistry` |
| `Frame` | slots and capsules, and the commands between controllers that change them |
| `FrameProofs` | theorems about `Frame` |
| `Ports` | border ports, far ends and notifications, through import, deport and destroy |
| `HashMap` | operators: the sorted array with its bisection, for any comparison of keys |
| `Dictionary` | abstract: keys and objects |
| `PointerMap` | a `HashMap` whose keys are addresses, compared by a truncated difference; implements `Dictionary` |
| `TcpService` | three `HashMap`s, the capsules' thread, the service's thread, sockets and peers |
| `TcpServiceProofs` | theorems about `TcpService`, and lemmas about its `HashMap`s |
| `Induction` | lemmas: induction, and facts on folds, sorted arrays and bisection that need it |
| `MC...` | the instances that TLC checks, with a `.cfg` for each run |

An operator whose comment starts with *Mutant of* is a plausible bug in the
definition it precedes; substituting it must make the named property fail
(`mutants` in `PROJECT.json`). The specifications do not use these operators.

### Controller

`pc` follows the controller's thread: `user` (initialize or inject), `timers`
(`queueTimerMessages`), `move` (`moveAll`), `inner` (the inner loop of `run`),
`wait`, `isEmpty`, `select`, then `clear`, `drain` and `clearTimer` (the handling
of readable descriptors), `exited`. Every access to something shared is a step
of its own: one priority of `moveAll` or `isEmpty`, each read of the pipe, and of a
sender the enqueue, the FIONREAD and the write. Steps that touch only the
thread's own state are joined to their neighbours. Messages are records of
sender, route (`incoming` or `capsule`), priority and number. `StoreTid` is the
assignment that `start` makes after `pthread_create`: until then `isMyThread`
is false for the controller itself (`OwnSendEarly`). Which timers are due is a set here;
`Timers` has their times.

### Timers

`mono` is the time that `select` runs on; the clock is `mono + offset`. A
timer that is being started or queued again is in `held`, outside all
queues, and an adjustment may come between. `starts` and `adjusts` count for the
bounds. `ids` are the `UMLRTTimerId`s that
user code keeps after their timers have expired.

### SignalElement

`operator=` is two steps (`decrement` of the old element, `increment` of
the new one), all else is one critical section. `live` is the set of heap buffers an element
has: its default buffer and one of its own for a large payload, both of which `Dealloc` may free; `content`
and `meant` are history: which initialization an element holds and which one a signal is meant to refer to.
`HandOver` is what `deliver` does with the copy of a signal that it puts into a message for another thread.

### LinkedQueue and Deferral

Every method of `UMLRTQueue` and `UMLRTPool` is a change of next pointers, heads, tails
and counts; `remove` goes element by element, with its callbacks. The refinement
mapping reads each list into a sequence, and a list that `moveAll` has taken off
is still part of the incoming one until it is appended. `Deferral` has the purge or recall that is under way
(`request`, which the mapping makes of what `remove` has in hand): it takes the first message that is meant, as
often as there is one, and ends when there is none, or after one. What is meant (`Meant`) is what the
comparisons of `umlrtcommsport.cc` say, instance and signal id as in the code, which is not what the comments say
(section 3).

### ServiceRegistry

The public operations and the creation and destruction of ports hold the global
lock, so each is one step, built from operators that take and return the
registry's record, one for each function of the code. Names, the
automatic registration of a port, its lock and the number of far ends are
constants of the instance. Maps are functions. Whether two ports fit
(`Complementary`) is a constant relation.

### Frame

`rt` is what the global lock protects, together with the queues of commands:
slots, the home slot of each capsule (`NULL` once it is deleted), and for each
controller its incoming and its own queue. The operators from `rt` to `rt` are the functions of
`umlrtframeservice.cc` that run under the lock, composed as the code composes them:
`DestroyTop` condemns, asks for the deports, asks for the destroys of the
parts, deletes the capsule and purges the queues. A request (`Request...`) is executed at once if the
slot belongs to the running controller and becomes a command if not.
`pc` and `hand` are for what is not atomic: an IMPORT between its look at the slot and the lock
(`ExecuteImport`, `BindImport`), a deport between finding the slot and asking for it (`Deport`,
`DeportFound`), and a controller that waits for its destroy. Commands are a queue; signals
are a set, since they have other priorities than commands. A signal and a command
are related by the capsule and slot they name, and by the purge.

What an application does is bounded by the code that is not in the repository.
`Operates` says who may: the container of a slot, through its frame port. The container of the
slots of the main program is never destroyed. `Settled` and `Detached` are the discipline of a
*careful* user: it imports a capsule into a slot only when it has given up what it
imported there before and no destroy of the capsule or of the slot's container is under way,
and destroys a capsule only after asking for its deport from plugin slots and when no import
into its own parts is under way. Nothing in the code enforces it; `plan`, the
capsule that was put into a plugin slot, is the history it needs. It leaves in every
race between a request and its execution: a capsule may be destroyed with the DEPORT
still in the queue, and imported elsewhere before it. The capsule that is destroyed may be in a plugin slot
of the main program, whose deport is then on its way, and in no slot of another capsule (`Detached`): only its
own container and the main program have its id.

### Ports

`Frame` takes a capsule to fit its slot; `Ports` is about what `bindPorts`, `connectPorts`,
`controllerDeportUnbind` and their callers do to far ends. `r` is what the global lock protects, and
each operation of the frame port and each command is one step, composed from operators
from `r` to `r`, one for each function. The races outside the lock are left to `Frame`, so
that there the user of the frame port (always the main program) asks for one import into a slot at a
time. One thing the code does without the lock is a step here as well: `initializeCapsule` reads the far ends of its
capsule and sends rtBound (`umlrtframeservice.cc:1695`) after the creating operation is over and the lock is released,
while another controller may change a far end; the model has no such change between two of its notifications. A class and a slot have one border port each, with `Width` or `Large` instances; a
port's far ends are a sequence, empty for an unbound port. `border` says which port a capsule
works with: the one of its home slot, that of a slot it was imported into, or a proxy
(`Own`). What generated code does in `bindPort` and `unbindPort` is to call the runtime interface, which
sends rtBound and rtUnbound to both sides (`NotifyBoth`) and, for the latter, disconnects.
A notification on the capsule's own controller goes into its queue (`own`), any other into the
incoming one (`coming`), which `Move` empties; only the last of each for an instance is kept.
`overtaken` is history: the instances whose last notification went past one that was on its way.

### HashMap, PointerMap and Dictionary

`Locate` is `locate`: its bisection, with the first and last candidate as in the code, returns
an index from which `Insert` and `Remove` work whether or not the key is there. `PointerMap`
compares addresses as `compareValue` does, by a difference that becomes an `int` of `Bits` bits, and
assumes that they span less than half of that range (`SpanAssumption`).

### TcpService

`pc` and `at` say where the capsules' thread (`user`) and the service's are, and with which
port, descriptor and connection. Each map is changed under its own mutex, so `connekt`,
`listn` and `attach` are four steps with `putSocket` in three, and `removeSocket` three. The service writes one message
after another, holds the mutex of `slotIdMap` while it visits all its entries (`slotLocked`; the
other thread then waits in `PutSlot` or `RemoveSlot`), disconnects, and tries one accept. A descriptor
refers to nothing, a socket, a listening socket or a connection (`file`), and `socket()` gives
the lowest free one; `conn` is what peers see. `written`, `asked` and `left` are history.
`write()` to a connection blocks when the peer does not read (only listening sockets are made non-blocking), so that the
service may stay at `write` for ever: `WriteWaits` says when, and there is no fairness then. `Patient` capsules connect again only after "disconnected" has reached them; an impatient one loses
its new entry of `slotIdMap` to the end of the old disconnect (line 88).

## 3. Runs

| Run | Question | Instance and why it is enough |
|---|---|---|
| `live` | lost wake-ups, empty pipe, full pipe, types; implements `Mailbox`; incoming messages and timers are always served | 1 remote thread with 2 messages, unlimited own messages (1 queued at a time, numbers reused), a periodic timer, 2 priorities, EXIT. Two threads write to the pipe, since the controller itself sends as a remote thread before its identity is known (`OwnSendEarly`): both may see it empty, and hold two bytes in flight; the second message of the remote thread comes before, while and after its first byte is drained. The theorems have any number of threads. |
| `timers_running` | places, order, timeouts, termination | 2 controllers, 2 timers, 3 starts, one-shot and periodic, delays 1 and 2, one adjustment by 1, times 0 to 2: the second timer can go before, behind or beside the first, and an adjustment can fall between any two steps |
| `signal_refs` | counts, pool, the buffers of large payloads | 2 threads, 3 signals, 2 elements, 4 initializations, small and large payloads: an element is shared by two threads, and reused with another size |
| `lists` | lists, pool, implements `Deferral` | 4 elements, 2 messages, which may differ in signal, instance or both, 2 signals, 2 instances: a message may be deferred more than once, so that the defer queue gets a first, a middle and a last element and the pool can run out while a message is copied; purges and recalls may name a signal or an instance that some deferred messages are of and others are not. Elements differ only by the lists they are on (symmetry). |
| `recall` | *violated*: `recallAt` recalls at most one message | the same, with 1 signal and 3 messages |
| `registry_all` | bindings, queues, order, destruction | 4 SAPs (one automatic and locked), 2 SPPs with 1 and 2 far ends, 2 names. Nothing is bounded: the state space is finite. |
| `parts` | slots, commands, signals, imports, FATAL | 2 controllers, one with the main program and 2 optional slots, 2 capsules, each with a fixed and a plugin part: each capsule can be imported into the other, and container, parts and imports may all be on either controller. Addresses and slots are used again after a destroy; slots and capsules are exchangeable (symmetry). 1 signal at a time: signals do not change anything, and each is judged by itself. |
| `served` | destroys, initialization, parts and imports come to an end | 2 controllers, 1 optional and 1 plugin slot of the main program, 2 capsules one after the other, with a fixed part. No symmetry. |
| `ports` | links, connections, far ends, notifications | 2 controllers, 3 optional slots (one linked to the main program, one to a plugin slot, one with a larger class that is not linked), 2 plugin slots, 2 of the capsules of a class with a larger port, 2 of them on the other controller: a border port is the slot's or a proxy, a capsule can be in two plugin slots at once, and both ends of a link come and go. Nothing is bounded. |
| `tcp` | maps, order, end of the process | one port that connects or attaches, one that listens, 2 descriptors, 2 connections, 2 lines, 2 calls of the bounded kinds (send, accept, disconnect, failures, destroys). The second connection gets the descriptor of the first; a peer's close can meet the next connect, and a message a closed connection. |
| `tcp_live` | ends are reported, clients accepted | two ports that connect, one that listens, 3 descriptors (a free one beside a connection and a listening socket), 2 connections, 2 calls, no lines: the service may wait in a write for one port while the peer of another closes or a client of the third waits. Without the exception for such a write both properties fail here. |
| `map` | implements `Dictionary` | 6 addresses that span 7 of the 8 values below half of a 4-bit range, 2 objects: arrays of all lengths up to 6, and each key before, between and behind the others |

Deadlock is checked wherever the system cannot stop. It is not checked for
`SignalElement` and `LinkedQueue`, whose histories end at the bound on
initializations and messages or with the end of the process, nor for `TcpService`, which may end
with the process, nor for `Frame`, which
ends when all controllers have executed EXIT or one has met a FATAL. In `Controller` the
return of `run` is a step of its own (`Returned`).

### Findings

The run marked *violated* contradicts a comment in the source (quoted in
`PROJECT.json`): the second loop of `remove` does not stop after one message, so that `recallAt` recalls
all messages of the instance when the head of the queue is another one's.

The models also show, without a run of their own:

- `purge`, `recall`, `recallAll`, `recallAt` and `recallAllAt` of a signal are said to take messages "of this
  type" (`include/umlrtinsignal.hh:33-49`), but the comparisons look at the signal's id only when a purge names an instance
  (`umlrtcommsport.cc:19` and `47`): everything else takes other signals' messages as well. `Deferral` says of each request what it means in the code (`Meant`).
- `nonDefaultPayload` is never reset, so after a large payload the next small one
  makes `dealloc` free the element's default buffer, which the element goes on using and frees again
  (`umlrtsignalelement.cc:56`; in the model `live` loses "default"), although `include/umlrtsignalelement.hh:25` says that it
  "remains for future use (is never deallocated.)".
- A capsule that sends to itself in `initialize` before its creator has stored the
  thread identity puts the message on the incoming queue (`OwnSendEarly`).
- Pools are LIFO and timer ids are pointers, so a kept id cancels whatever timer was
  started next (`CancelTimer` for any id in `ids`).
- `timeAdjustElements` moves the due times of `informAt` timers along with the
  relative ones, so they expire before their clock time (`TimeAdjustComplete`).
- `deallocateMsgMatchCompare` does not know EXIT: a destroy or deport while an EXIT waits
  in the queue of that controller is a FATAL (`Deallocate`; `FatalOnlyOnExit` allows for it).
- Two controllers that destroy capsules of each other would wait for each other for ever; so
  does a destroy that is sent to a controller after its EXIT. In `served` one controller has all the
  top slots, and the properties allow for EXIT.
- A slot whose IMPORT is under way still looks free to `getNextFreeCapsuleSlot`; the second import is
  dropped without a word when it is executed.
- A waiting SAP whose protocol does not fit the new SPP is taken from the queue and dropped
  (`umlrtprotocol.cc:70`; with a `Complementary` that lacks a pair), although line 479 says "Queue for binding when an SPP port
  comes free".
- A capsule on its way into a part that is destroyed is deleted with it (`umlrtframeservice.cc:869`). `deportParts` runs when
  the slot is still empty, so no DEPORT comes between the IMPORT and the DESTROY, and the
  capsule's own slot keeps the pointer. `Detached` keeps users from it.
- A capsule that got the port of a plugin slot itself as its border port (its class has as many instances
  as the slot, all connected) leaves the slot without its link when it is deported: `unbindPort`
  has set the far end to NULL before `connectPorts` connects the instance, now with itself (lines 752-755).
  In `ports` the classes that can be imported unbound are larger, so that they get proxies.
- A destroy connects an instance that was not connected with itself (line 843), after which the next capsule
  in that slot counts it as used and is refused by a linked slot.
- `incarnateSendBoundSlotFarEnd` tells every far end about the first instance (line 1620). In `ports` the
  slots of capsules have one instance.
- rtBound can come twice, from the incarnation of one end and the initialization of the other, and one
  by the capsule's own controller can overtake an rtUnbound of the other: `Told` allows for both.
- The process ends when a message is queued for a connection that is closed before the service writes it
  (`umlrttcpservice.cc:232`), the FATAL of line 268 prints a message that is NULL there, and, where nothing ignores
  SIGPIPE, a write to a closed connection ends it too. `EndsOnlyAfterLoss` says that until some capsule calls disconnect
  nothing else does, and that a socket to read is missing only for a port that was itself disconnected by its capsule.
- A message queued on one connection of a port is written to the next one. After a disconnect by a capsule
  while the service has its descriptor in hand, the service may read, write or close what the descriptor
  is by then: `left` tells where the promises end.
- A peer that stops reading can hold the service's only thread in `write` for ever (`umlrttcpservice.cc:238`): from then
  on no port of the program is written, read, told of an end or given a client. Without `<>[]WriteWaits`, `tcp_live`
  fails with exactly this behaviour.
- A failed connect or listen leaks its socket; the socket of a destroyed capsule is never closed. Lines that arrive in
  two pieces are delivered as two (`Lines` abstracts from that).

The models keep this behaviour, and every other property is checked with it, except where an instance
is said to keep clear of it.

## 4. Fairness

`Controller`: weak fairness of the loop, of waiting, of the notification of each
thread, of `StoreTid` and of the clock. The threads are preemptive threads of the
operating system, which run what can run, and critical sections are finite. It
also assumes that user code returns (`UserReturns`). There is none for sending,
starting or cancelling, nor for the ten-second debugging timeout of `select`, so
that progress rests on notifications only.

`Timers`: weak fairness of each controller's thread and of the clock's tick, for the
same reason, including that an adjustment that was started is completed; none for user
code that starts anything and none for a wake-up without cause.

`Frame`: weak fairness of the second halves of a deport and an import, strong fairness of moving and
of executing commands, for each controller. `Controller` justifies both
(`AllServed`, `ImplementsMailbox`): the loop always comes back to `moveAll`, and a
command in the queue is always taken, whatever signals are sent meanwhile. None for users.

`TcpService`: weak fairness of the service's thread except in a `write` to a connection whose peer is there
(`WriteWaits`), which returns only if the peer reads, strong fairness of the capsules' thread,
both inside calls only: it may find the mutex of `slotIdMap` taken again and again, and the operating system
lets a waiter have it in the end. None for peers, which need never read,
for clients and for calling anything. `EndReported` and `ClientAccepted` hold as they stand or the
service waits in one `write` for ever.

The other modules have safety properties and refinements of their steps only.

## 5. Proofs

`ControllerProofs` proves, for any set of remote threads, timers and commands, any
number of priorities and any bounds (the assumptions of `Controller`: threads are
finitely many, the controller is not a remote thread, a timer is neither,
commands have a valid priority):

- `Typing`: `Spec => []TypeOK`
- `Invariance`: `Spec => []Inv`
- `WakeupNotLost`: `Spec => []NoLostWakeup`
- `ClearNeverFatal`: `Spec => []ClearFindsByte`
- `PipeNeverFills`: `Spec => []PipeBounded`
- `IsMailbox`: `Spec => Box!Init /\ [][Box!Next]_(Box!vars)`, the safety part of `ImplementsMailbox`

`NoLostWakeup` speaks of a controller in `select`, and is not inductive: the
message may have come before, and the controller may have looked at its queue
before that. `Announced` says at every point of the loop who will still see the
message: the pipe holds a byte, or a thread is between its enqueue and the end of
its notification, or the controller has cleared the pipe and `moveAll` has yet to
come to the priority. The crucial step is a sender that sees a
non-empty pipe and does not write: the byte it saw is the announcement. `ByteToClear` says
that the byte `select` saw is still there when the first read comes, as
only the controller reads. `PipeBounded` counts a thread about to write as a byte:
`CheckPipe` can raise the sum only from an empty pipe, when the sum is a number of threads, and
`WriteByte` keeps it. Each conjunct of `Inv` is first checked by TLC on small
instances, then proved action by action; lemmas on sequences and on counting finite sets are
stated once. `IsMailbox` says that every step of the loop, of the senders and of the timers is a step of `Mailbox`
or leaves its variables alone; `moveAll` appends a whole queue to another, while the mapping sees
one queue.

`TimersProofs` proves, for any controllers, a finite pool of timers, and any bounds, times and adjustments
(`Nobody` is no controller):

- `Typing`: `Spec => []TypeOK`, including that `timeAdjustMutex` is held by the thread that adjusts the clock
- `Invariance`: `Spec => []Inv`
- `TimersHeld`: `Spec => []QueuesSound`
- `WokenInTime`: `Spec => []WakesInTime`

`Inv` says where timers are without counting: pool, queues and the hands of the threads are disjoint, hold no
timer twice and leave none out (`Apart`), so that `allocateTimer` and the next due time of a periodic timer change
the due time of a timer that is in no queue, and the queues of others stay in order. `timeAdjustElements` moves all
queued timers by the same amount. That `Places(t) = 1` follows by counting (`PlacesCounted`). `InsertFacts`
is the lemma about `enqueue`: the place before the first timer due later keeps the order.
`WakesInTime` needs that no step of another controller changes a sleeper's queue, its timeout or the due time of its
first timer, which is what `AsleepKept` asks of a step.

`SignalElementProofs` proves, for any threads, finitely many signals and elements, and any number of initializations:

- `Typing`: `Spec => []TypeOK`
- `Invariance`: `Spec => []Inv`
- `NothingLeaks`: `Spec => []NoneLeaks`
- `SignalsKeepElements`: `Spec => []SignalKeepsItsElement`

A signal in the middle of `operator=` does not refer to its old element any more (it has been let go) nor to the
new one yet; with that, `refCount` is exactly the number of signals that refer to an element
(`RefsCounted`). The crucial step is `Initialize`: the element at the head of the pool is not
allocated, so its count is 0, so no signal of any thread refers to it and it may be filled anew. That needs
`PoolFree` (an element is in the pool at most once, and not while it is allocated), and this in turn that `decrementRefCount`
is only called for a signal that was counted, which is so because the operands of `operator=` belong
to the thread that executes it (`OperandsOwn`). `OwnIsNonDefault` says that the flag is set, and the
element allocated, when there is a buffer of a large payload to free. `NoneLeaks` is exact for these buffers and says nothing of
the default one, which `Dealloc` does lose (section 3).

`LinkedQueueProofs` proves, for any finite, nonempty set of elements, any finite set of sending threads, and any
messages and bounds (`ElementAssumption`, `RemoteAssumption`: the controller is not a sender):

- `Typing`: `Spec => []TypeOK`
- `Invariance`: `Spec => []Inv`
- `Soundness`: `Spec => []ListsSound`
- `IsDeferral`: `Spec => ImplementsDeferral`, all of the refinement

`Inv` reads every list as the sequence that its pointers make (`Fits`): the sequences and what the threads have in
hand are disjoint, leave out no element, and tails and counts are theirs (`Counts`). The list that `moveAll` has taken off is one
of them. Each method of `UMLRTQueue` is a lemma that says what it makes of the sequences; changing the pointer of
an element in one list leaves the others as they are because they are disjoint (`LinkedFrame`). `remove` is the hard one: it is an
induction over the elements it walks along, whose statement is what the list, the pool and the hands are in the middle
of the loop. `ListsSound` defines its lists with `Chain`, a recursive function, and the last lemmas show that `Chain` is the
sequence that `Fits` speaks of.
For `IsDeferral` each lemma on a step says what all lists are after it, and the messages of lists follow (`SaidBehind`, `SaidWithout`).
`Deferral` takes the first message that is meant, and ends a request only when none is left. To show that `remove` does
both takes `WalkedPast`, which is inductive with `Inv`: nothing up to the element it keeps is what it looks for, though senders
fill the pool's elements and the callbacks relink others meanwhile; at the end of the list that is the whole queue. It also says that elements in use have been filled in, so that what is delivered is a message.

`ServiceRegistryProofs` proves, for any sets of SAPs, SPPs and names, any numbers of far ends, and any
choice of automatic and locked ports:

- `Typing`: `Spec => []TypeOK`
- `Invariance`: `Spec => []Inv`
- `Bindings`: `Spec => []BindingsSound`
- `Waiting`: `AllFit => (Spec => []NoneWaitsInVain)`
- `Order`: `AllFit => (Spec => NoOvertaking)`, an action property

`AllFit` says that every SAP's protocol fits every SPP's. It is needed: a SAP that does not fit is taken from the queue and forgotten
(`umlrtprotocol.cc:70`), so that without it both properties are false; the other three do not need it.
An operation of the registry is composed from many functions, between which the registry is not sound. `Sound(r, T, m)` is what
holds in between: the SAPs in `T` are, for the moment, in no queue, and the far ends of service `m` may be idle
although somebody waits. The functions are lemmas that take `Sound` for some `T` and `m` to `Sound` for others, and every operation
begins and ends with `Sound(reg, {}, NONE)`. The loops of the code over far ends are recursive functions, and their lemmas are inductions.
`Order` compares the queue of a service before and after each operation.

`TcpServiceProofs` proves, for any finite sets of ports, of which any listen, any numbers of
descriptors, connections and lines, and any bounds on the calls:

- `Typing`: `Spec => []TypeOK`, including that the three maps stay sorted
- `Invariance`: `Spec => []Inv`
- `Written`: `Spec => []WrittenInOrder`
- `Endings`: `Spec => []EndsOnlyAfterLoss`
- `Agreement`: `Patient => (Spec => []MapsAgree)`
- `Telling`: `Patient => (Spec => []SignalsInOrder)`

`Locate` is proved to find the place of a key in any sorted array (`Located`), and with it `Insert`, `Remove` and
`GetObject` are what they are of a function with finite domain. `Inv` has the places of the two threads (`Places`), the
iterator, which the other thread does not disturb because the service holds the mutex of `slotIdMap` (`Iterates`), the growing numbers of
messages (`NumbersGrow`), the queue of ports to disconnect (`EachDroppedOnce`), the order in which a port enters and
leaves the three maps (`Nested`), and the table of descriptors (`OneDescriptor`). `Nested` is what makes line 86 safe: a port that the
iteration meets still has its socket, since only the service itself takes it away unless the capsule calls disconnect.
`SocketsOwn` says whose descriptors the threads use, at every point between reading one from a map and using
it, and `Tidy` what a capsule has been told and is yet to be told. Both hold until some capsule
calls disconnect (`Undisturbed`): its `close` may come between the service's `getSocket` and `recv`, and from there
on one port can act on the descriptor of another. `Tidy` also needs patient capsules (line 88).
The proof corrected one property: `EndsOnlyAfterLoss` used to promise every port that the process does not end over its messages
before its own connection is lost. It is false for enough ports, since a disconnect of one can make the service close the
socket of another; now the promise ends with the first disconnect of anybody.

`FrameProofs` proves, for any sets of controllers, of optional and plugin slots and of capsules, any
kinds of parts and any bound on signals (`FrameAssumption`: the names of slots, parts and capsules are
different, and slots of the main program have a controller):

- `FrameInvariant`: `Spec => []IInv`
- `FrameTypes`: `Spec => []TypeOK`
- `FrameSignals`: `Spec => []SignalsForOccupant`
- `FrameNothingDangles`: `Spec => []NothingDangles`
- `FrameImportsKept`: `Spec => []ImportsKept`
- `FrameNoFatal`: `Spec => []FatalOnlyOnExit`

None of these is inductive: whether a command will meet what it expects depends on what is executed before it. `Inv`
is a predicate of a state `r` of the frame service, of threads, plans, and of `gone`, a capsule whose destruction
is not complete: an operation is a composition of functions from `rt` to `rt`, and in the middle of `DestroyTop`
the capsule's parts may be gone while it is not. The parts of `Inv` say when each kind of command is in order
(`Imports`, `Deports`, `PartDestroys`, `TopDestroys`). A DESTROY may wait while the capsule is still in a plugin slot only if
the DEPORT that removes it from there is ahead of it in the commands of the same controller (`Ahead`): incoming and own queue are one
line, which `moveAll` keeps. The crucial step is the request: the plugin slot runs where the capsule in it runs
(`Occupants`), so the DEPORT went to the controller that gets the DESTROY. If that is the controller that destroys,
the deport was executed at once, and the capsule is in no slot. `Undone` says who is to remove a capsule
that its user has given up: a DEPORT, or the thread between `Deport` and `DeportFound`. An IMPORT that waits
is the only one into its slot, which is empty (`Importable`), and its capsule and container are not condemned by
any DESTROY that waits (`Leaves`, through the plans), so that neither the purge of `Deallocate` nor the
end of the capsule takes it away. `Waiters` is what ends a wait exactly once.
The proof has three layers: lemmas about sequences (what `Append`, `moveAll`, `Tail` and the purge do to
the order of a line), lemmas that say what each operator makes of the slots and the lines (`Grown`,
`Purged`, `Took`, `Cut`, `Turned`), and one lemma for each kind of change that it keeps `Inv` (`AskedInv`, `BindInv`, `DeportInv`, `PartInv`,
`FinishInv`, `LostInv`, `RestInv`); the steps compose them as the code composes its functions.
The proof corrected the model in one place. `Detached` used to let a user destroy a capsule that was still in a plugin slot of
the main program on *another* controller, whose deport was in the hand of that controller; the deport then found the
capsule gone. No instance has a slot of the main program on a second controller, so that TLC did not meet it.

`Induction` has the technique these proofs share. The library's induction theorems take an operator as parameter, which
the provers cannot instantiate; here induction is about a *set* of numbers or of sequences (`NumberInduction`,
`SequenceInduction`), and a proof applies it to the set of those that have the property. A recursive function is
first unfolded, by showing that a solution of its equation exists and that it has only one. In the same way the module has folds over sequences,
the bisection of `HashMap`, and arrays in the order of their keys.

Only model-checked: liveness (`AllServed`, `TimerEnds`, `EndReported`, `ClientAccepted`, those of `served`, and the fairness part of `ImplementsMailbox`), which is beyond
the prover; the refinement `ImplementsDictionary`; and everything in `Ports` and `PointerMap`. The functions of `Ports`
are folds over the instances of ports: no obstacle any more, but not done.
`Dictionary` is out of reach as `PointerMap` stands, since its range is the power `2 ^ Bits`, which the provers do
not know.


## 6. Not modelled

Encoding of payloads, growth of pools and maps (the sizes of pools are bounds; running out
is modelled as the code's error path where there is one), wording and debug output,
the Windows port and third-party code (the Paho client and RapidJSON are most of the lines of the tree, and no
control of the runtime is in them).

- MQTT service: built like the TCP service (maps changed one by one, a queue of messages, a thread of its own), around
  callbacks of the Paho client, whose threads and retries are not in this repository's hands.
- Object classes, JSON coder, signal registry: tables that are filled at start-up and conversions of data.
- In `Frame`: parts of parts, replicated parts, signals from a part to its container, ABORT and the debug command, and the window
  inside `requestControllerDeport` between its check and its command.
- In `Ports`: several ports of a class (their matching by name), relay ports (`connectFarEnds`,
  `connectRelayPort`), internal ports, deferred messages of ports, and the read of the far end by `signalDeliver` before
  it has the lock (`umlrtoutsignal.cc:162`).
- In `TcpService`: several controllers (each starts the one service again), lazy creation of the maps, reuse of a slot
  after its capsule is destroyed, the contents of lines.

## 7. Plan

1. Proofs: the connections of `Ports`; `ImplementsDictionary`, with half of the range of an `int` as a constant.
2. `Ports`: relay ports, and `signalDeliver` on top with its read of the far end before the lock.
3. Growth of the array in `HashMap`.

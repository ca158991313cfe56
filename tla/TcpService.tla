----------------------------- MODULE TcpService -----------------------------
(***************************************************************************)
(* UMLRTTCPService: sockets for the ports of capsules.                     *)
(*                                                                         *)
(* Two threads work on three maps from the id of a port: to its socket, to *)
(* the port, and to its slot.  The controller's thread runs the capsules,  *)
(* whose connect, listen, attach and disconnect add and remove entries,    *)
(* one map after another, each under the mutex of that map only; send and  *)
(* accept leave requests in queues.  The service's thread, in a loop,      *)
(* writes the queued messages, reads every socket while it holds the mutex *)
(* of slotIdMap, disconnects the ports whose peers have closed, and tries  *)
(* one accept.  What it delivers goes through the incoming queue of the    *)
(* controller (module Controller); what a capsule's own call delivers goes *)
(* straight to the capsule's queue.                                        *)
(*                                                                         *)
(* The descriptors, connections and peers are what the operating system    *)
(* makes of socket, connect, listen, accept, recv, write and close.  Error *)
(* signals tell a capsule of a failure and change nothing here.  The       *)
(* program has one controller, so that there is one service thread, and a  *)
(* slot is not used again after its capsule is destroyed.                  *)
(***************************************************************************)
EXTENDS Integers, Sequences, FiniteSets, FiniteSetsExt, Functions

CONSTANTS Port,           \* ports of the TCP protocol, each in a slot of its own
          Listener,       \* those whose capsules listen; the others connect
          Fd,             \* the descriptors the process may have open
          MaxConn,        \* bound: connections ever made
          MaxLine,        \* bound: lines the peers send
          Leaver,         \* those whose capsules may call disconnect; bound: they do
                          \* not connect again after that
          MaxCall,        \* bound: calls of send, accept and disconnect, calls that
                          \* fail, and destroyed capsules
          Patient         \* capsules connect again only once they have been told
                          \* that their last connection is gone

ASSUME PortAssumption == Port \subseteq Nat \ {0} /\ IsFiniteSet(Port) /\
                         Listener \subseteq Port /\ Leaver \subseteq Port

ASSUME FdAssumption == Fd \subseteq Nat /\ IsFiniteSet(Fd)

ASSUME TcpBoundAssumption == {MaxConn, MaxLine, MaxCall} \subseteq Nat

ASSUME PatientAssumption == Patient \in BOOLEAN

Conn   == 1 .. MaxConn
Thread == {"user", "service"}
None   == 0  \* no port, no connection
NoFd   == -1 \* what getSocket returns for a port without a socket

\* compareString on the ids, which are in the order of the ports.
Order(id1, id2) == id1 - id2

Map == INSTANCE HashMap WITH Compare <- Order, Missing <- NoFd

VARIABLES
  portSocketMap,  \* id to descriptor
  portIdMap,      \* id to port
  slotIdMap,      \* id to slot, named by its port
  slotLocked,     \* the service holds the mutex of slotIdMap for its iteration
  outQueue,       \* messages to be written: their port and number
  acceptRequests, \* port and listening socket
  toDisconnect,   \* ports whose peers have closed
  alive,          \* the ports whose slots hold their capsules
  coming,         \* signals the service has delivered: in the incoming queue
  signals,        \* signals that have reached the queue of the port's capsule
  pc,             \* where each thread is
  at,             \* the port and descriptor it is working with, and, once it has
                  \* made or closed a connection, that one
  index,          \* the iterator on slotIdMap
  file,           \* what each descriptor refers to
  conn,           \* the connections, as the peers see them
  written,        \* written[p]: those that were written, and to which connection
  asked,          \* asked[p]: how often its capsule has called accept
  calls,          \* how many calls of the bounded kinds there were
  left,           \* the ports whose capsules have called disconnect
  ended           \* the process has ended, and why; for which port

maps    == <<portSocketMap, portIdMap, slotIdMap>>
queues  == <<outQueue, acceptRequests, toDisconnect>>
network == <<file, conn>>
loop    == <<slotLocked, index>>
inbox   == <<coming, signals>>
history == <<written, asked, left>>
vars    == <<maps, queues, network, loop, inbox, history, calls, alive, pc, at, ended>>

NoConn   == [state |-> "none", fd |-> NoFd, sent |-> 0, read |-> 0, owner |-> None]
Free     == [kind |-> "free", conn |-> None]
Signal(kind, c, n) == [kind |-> kind, conn |-> c, n |-> n]
Idle     == [port |-> None, fd |-> NoFd, conn |-> None, n |-> 0]

Init ==
  /\ portSocketMap = Map!Empty /\ portIdMap = Map!Empty /\ slotIdMap = Map!Empty
  /\ outQueue = <<>> /\ acceptRequests = <<>> /\ toDisconnect = <<>>
  /\ file = [fd \in Fd |-> Free]
  /\ conn = [c \in Conn |-> NoConn]
  /\ slotLocked = FALSE /\ index = 0
  /\ coming = [p \in Port |-> <<>>] /\ signals = [p \in Port |-> <<>>]
  /\ calls = 0 /\ left = {} /\ asked = [p \in Port |-> 0]
  /\ alive = Port
  /\ pc = [user |-> "idle", service |-> "send"]
  /\ at = [t \in Thread |-> Idle]
  /\ written = [p \in Port |-> <<>>]
  /\ ended = [why |-> "no", port |-> None]

-----------------------------------------------------------------------------
(* The operating system *)

Listening(fd) == fd \in Fd /\ file[fd].kind = "listen"

\* The connection a descriptor refers to, or None.
ConnOf(fd) == IF fd \in Fd THEN file[fd].conn ELSE None

PeerClosed(c) == c \in Conn /\ conn[c].state = "closed"

FreeFds == {fd \in Fd : file[fd] = Free}
NextFd  == IF FreeFds = {} THEN NoFd ELSE Min(FreeFds)

NextConn == {c \in Conn : conn[c] = NoConn /\ \A d \in Conn : d < c => conn[d] # NoConn}

Waiting(fd) == {c \in Conn : conn[c].state = "waiting" /\ conn[c].fd = fd}

\* close(): clients that wait at a listening socket are turned away.
Close(fd) ==
  IF fd \notin Fd THEN UNCHANGED network
  ELSE /\ file' = [file EXCEPT ![fd] = Free]
       /\ conn' = [c \in Conn |-> IF c \in Waiting(fd)
                                  THEN [conn[c] EXCEPT !.state = "closed"] ELSE conn[c]]

Peer(c) ==
  /\ conn' \in {[conn EXCEPT ![c].sent = @ + 1], [conn EXCEPT ![c].state = "closed"]}
  /\ MapThenSumSet(LAMBDA d : conn'[d].sent, Conn) <= MaxLine
  /\ conn[c].state = "open"
  /\ \E fd \in Fd : ConnOf(fd) = c
  /\ UNCHANGED <<maps, queues, file, loop, inbox, calls, alive, pc, at, history, ended>>

ClientArrives(fd) ==
  /\ Listening(fd)
  /\ \E c \in NextConn :
       conn' = [conn EXCEPT ![c] = [NoConn EXCEPT !.state = "waiting", !.fd = fd]]
  /\ UNCHANGED <<maps, queues, file, loop, inbox, calls, alive, pc, at, history, ended>>

-----------------------------------------------------------------------------
(* Calls of capsules, on the controller's thread *)

Goto(t, label) == pc' = [pc EXCEPT ![t] = label]

\* Mutant of Deliver: any thread is taken for the controller's own.
DeliverDirectly(t, p, signal) ==
  signals' = [signals EXCEPT ![p] = Append(@, signal)] /\ UNCHANGED coming

\* deliver(): by the controller's own thread to the queue of the capsule, by the
\* service's to the incoming queue.
Deliver(t, p, signal) ==
  IF t = "user"
    THEN signals' = [signals EXCEPT ![p] = Append(@, signal)] /\ UNCHANGED coming
    ELSE coming' = [coming EXCEPT ![p] = Append(@, signal)] /\ UNCHANGED signals

\* moveAll, between two injections.
Collect ==
  /\ pc["user"] = "idle"
  /\ \E p \in Port : coming[p] # <<>>
  /\ signals' = [p \in Port |-> signals[p] \o coming[p]]
  /\ coming' = [p \in Port |-> <<>>]
  /\ UNCHANGED <<maps, queues, network, loop, calls, alive, pc, at, history, ended>>

GetSocket(p) == Map!GetObject(portSocketMap, p)

\* A capsule calls a function of the service, and does not get back false at once.
MayCall(p)      == pc["user"] = "idle" /\ p \in alive
Unconnected(p)  ==
  /\ MayCall(p) /\ GetSocket(p) = NoFd /\ p \notin left
  /\ Patient => \A c \in Conn : conn[c].owner = p =>
                  Signal("disconnected", c, 0) \in Range(signals[p])
HasSocket(p)    == MayCall(p) /\ GetSocket(p) # NoFd
Enter(label, p, fd, c) ==
  Goto("user", label) /\ at' = [at EXCEPT !["user"] = [port |-> p, fd |-> fd, conn |-> c, n |-> 0]]
Count == calls < MaxCall /\ calls' = calls + 1
Return == Enter("idle", None, NoFd, None)

\* connekt, when connect() succeeds.  Only the capsule's own thread adds
\* sockets, so that the port still has none.
Connect(p) ==
  /\ Unconnected(p) /\ p \notin Listener
  /\ FreeFds # {}
  /\ \E c \in NextConn :
       /\ file' = [file EXCEPT ![NextFd] = [kind |-> "conn", conn |-> c]]
       /\ conn' = [conn EXCEPT ![c] = [NoConn EXCEPT !.state = "open", !.owner = p]]
       /\ Enter("putSocket", p, NextFd, c)
  /\ UNCHANGED <<maps, queues, loop, inbox, calls, alive, history, ended>>

\* listn, when bind() and listen() succeed.
Listen(p) ==
  /\ Unconnected(p) /\ p \in Listener
  /\ FreeFds # {}
  /\ file' = [file EXCEPT ![NextFd] = [Free EXCEPT !.kind = "listen"]]
  /\ Enter("putSocket", p, NextFd, None)
  /\ UNCHANGED <<maps, queues, conn, loop, inbox, calls, alive, history, ended>>

\* A call of connekt or listn fails: the socket, if there is one, stays open.
Fail(p) ==
  /\ Unconnected(p)
  /\ Count
  /\ file' = [fd \in Fd |-> IF fd = NextFd THEN [Free EXCEPT !.kind = "raw"] ELSE file[fd]]
  /\ UNCHANGED <<maps, queues, conn, loop, inbox, alive, pc, at, history, ended>>

\* In connekt, socket(), inet_pton() or connect().
ConnectFails(p) == p \notin Listener /\ Fail(p)

\* In listn, socket(), bind() or listen().
ListenFails(p) == p \in Listener /\ Fail(p)

\* attach, for the descriptor in a "connected" signal that a listener was sent.
Attach(p, fd) ==
  /\ Unconnected(p) /\ p \notin Listener
  /\ \E c \in Conn, q \in Listener :
       /\ ConnOf(fd) = c /\ conn[c].owner = None
       /\ Signal("connected", c, 0) \in Range(signals[q])
       /\ conn' = [conn EXCEPT ![c].owner = p]
  /\ Enter("putSocket", p, fd, None)
  /\ UNCHANGED <<maps, queues, file, loop, inbox, calls, alive, history, ended>>

\* putSocket: one map after another.
Put(map, object) == map' = Map!Insert(map, at["user"].port, object)

PutSocket ==
  /\ pc["user"] = "putSocket"
  /\ Put(portSocketMap, at["user"].fd) /\ UNCHANGED <<portIdMap, slotIdMap>>
  /\ Goto("user", "putId")
  /\ UNCHANGED <<queues, network, loop, inbox, calls, alive, at, history, ended>>

PutId ==
  /\ pc["user"] = "putId"
  /\ Put(portIdMap, at["user"].port) /\ UNCHANGED <<portSocketMap, slotIdMap>>
  /\ Goto("user", "putSlot")
  /\ UNCHANGED <<queues, network, loop, inbox, calls, alive, at, history, ended>>

\* Then connekt delivers its signal, and the call returns.
PutSlot ==
  /\ pc["user"] = "putSlot" /\ ~slotLocked
  /\ Put(slotIdMap, at["user"].port) /\ UNCHANGED <<portSocketMap, portIdMap>>
  /\ IF at["user"].conn = None THEN UNCHANGED inbox
       ELSE Deliver("user", at["user"].port, Signal("connected", at["user"].conn, 0))
  /\ Return
  /\ UNCHANGED <<queues, network, loop, calls, alive, history, ended>>

\* Mutant of Send: the message goes to the front of the queue.
SendAhead(p) ==
  /\ HasSocket(p) /\ p \notin Listener
  /\ Count
  /\ outQueue' = <<[port |-> p, n |-> calls']>> \o outQueue
  /\ UNCHANGED <<maps, acceptRequests, toDisconnect, network, loop, inbox, alive, pc, at,
                 history, ended>>

\* send: a message goes to the queue of the service.
Send(p) ==
  /\ HasSocket(p) /\ p \notin Listener
  /\ Count
  /\ outQueue' = Append(outQueue, [port |-> p, n |-> calls'])
  /\ UNCHANGED <<maps, acceptRequests, toDisconnect, network, loop, inbox, alive, pc, at,
                 history, ended>>

\* akcept: so does a request, with the listening socket of now.
AcceptCall(p) ==
  /\ HasSocket(p) /\ p \in Listener
  /\ Count
  /\ acceptRequests' = Append(acceptRequests, [port |-> p, fd |-> GetSocket(p)])
  /\ asked' = [asked EXCEPT ![p] = @ + 1]
  /\ UNCHANGED <<maps, outQueue, toDisconnect, network, loop, inbox, alive, pc, at, written,
                 left, ended>>

DisconnectCall(p) ==
  /\ HasSocket(p) /\ p \in Leaver
  /\ Count
  /\ left' = left \cup {p}
  /\ Enter("close", p, GetSocket(p), None)
  /\ UNCHANGED <<maps, queues, network, loop, inbox, alive, written, asked, ended>>

\* The capsule is destroyed: its messages are purged, its slot is empty.
Destroy(p) ==
  /\ MayCall(p)
  /\ Count
  /\ alive' = alive \ {p}
  /\ coming' = [coming EXCEPT ![p] = <<>>]
  /\ UNCHANGED <<maps, queues, network, loop, signals, pc, at, history, ended>>

-----------------------------------------------------------------------------
(* disconnect, on either thread, once it has found a socket *)

CloseSocket(t) ==
  /\ pc[t] = "close"
  /\ Close(at[t].fd)
  /\ Goto(t, "removeSocket") /\ at' = [at EXCEPT ![t].conn = ConnOf(at[t].fd)]
  /\ UNCHANGED <<maps, queues, loop, inbox, calls, alive, history, ended>>

\* removeSocket: one map after another, in the order in which they were filled.
Forget(t, map) == map' = Map!Remove(map, at[t].port)

RemoveSocket(t) ==
  /\ pc[t] = "removeSocket"
  /\ Forget(t, portSocketMap) /\ UNCHANGED <<portIdMap, slotIdMap>>
  /\ Goto(t, "removeId")
  /\ UNCHANGED <<queues, network, loop, inbox, calls, alive, at, history, ended>>

\* Mutant of RemoveId: the port keeps its entry.
RemoveNothing(t) ==
  /\ pc[t] = "removeId" /\ Goto(t, "removeSlot")
  /\ UNCHANGED <<maps, queues, network, loop, inbox, calls, alive, at, history, ended>>

RemoveId(t) ==
  /\ pc[t] = "removeId"
  /\ Forget(t, portIdMap) /\ UNCHANGED <<portSocketMap, slotIdMap>>
  /\ Goto(t, "removeSlot")
  /\ UNCHANGED <<queues, network, loop, inbox, calls, alive, at, history, ended>>

\* Then disconnect delivers its signal, and returns.
RemoveSlot(t) ==
  /\ pc[t] = "removeSlot" /\ ~slotLocked
  /\ Forget(t, slotIdMap) /\ UNCHANGED <<portSocketMap, portIdMap>>
  /\ IF at[t].port \notin alive THEN UNCHANGED inbox
       ELSE Deliver(t, at[t].port, Signal("disconnected", at[t].conn, 0))
  /\ Goto(t, IF t = "user" THEN "idle" ELSE "drop")
  /\ at' = [at EXCEPT ![t] = Idle]
  /\ UNCHANGED <<queues, network, loop, calls, alive, history, ended>>

Disconnecting(t) == CloseSocket(t) \/ RemoveSocket(t) \/ RemoveId(t) \/ RemoveSlot(t)

-----------------------------------------------------------------------------
(* The service's thread *)

Serve(label) == pc["service"] = label
Using(p, fd) ==
  at' = [at EXCEPT !["service"] = [port |-> p, fd |-> fd, conn |-> None, n |-> 0]]
End(why, p)  == ended' = [why |-> why, port |-> p]

\* A message for a slot without a capsule is dropped; one without a socket is
\* FATAL.
TakeMessage ==
  /\ Serve("send") /\ outQueue # <<>>
  /\ LET message == Head(outQueue)
         fd      == GetSocket(message.port)
     IN  /\ outQueue' = Tail(outQueue)
         /\ \/ message.port \notin alive /\ UNCHANGED <<pc, at, ended>>
            \/ /\ message.port \in alive /\ fd = NoFd
               /\ End("no socket to write", message.port)
               /\ UNCHANGED <<pc, at>>
            \/ /\ message.port \in alive /\ fd # NoFd
               /\ at' = [at EXCEPT !["service"] = [port |-> message.port, fd |-> fd,
                                                  conn |-> None, n |-> message.n]]
               /\ Goto("service", "write")
               /\ UNCHANGED ended
  /\ UNCHANGED <<maps, acceptRequests, toDisconnect, network, loop, inbox, calls, alive,
                 history>>

\* The service is in a write() that may wait: the sockets of connections block, and
\* nothing but the peer, which reads, or closes, makes room in a buffer that is full.
WriteWaits ==
  LET c == ConnOf(at["service"].fd)
  IN  pc["service"] = "write" /\ c # None /\ ~PeerClosed(c)

\* write() returns, which it need not ever do (WriteWaits).  To a connection that the
\* peer has left it may succeed; otherwise it is an error, or the end of the process by
\* SIGPIPE, unless the MQTT library has set that signal to be ignored.  The connection
\* is that of the descriptor when the call begins: a call that is still waiting when a
\* capsule closes the descriptor is taken to have returned before.
Write ==
  /\ Serve("write")
  /\ LET p == at["service"].port
         c == ConnOf(at["service"].fd)
     IN  \/ /\ c # None
            /\ written' = [written EXCEPT ![p] = Append(@, [n |-> at["service"].n, conn |-> c])]
            /\ UNCHANGED <<asked, left, ended>>
         \/ /\ c = None \/ PeerClosed(c)
            /\ UNCHANGED <<history, ended>>
         \/ /\ Listening(at["service"].fd) \/ PeerClosed(c)
            /\ End("SIGPIPE", p)
            /\ UNCHANGED history
  /\ Goto("service", "send") /\ Using(None, NoFd)
  /\ UNCHANGED <<maps, queues, network, loop, inbox, calls, alive>>

\* The iterator begins, under the mutex of slotIdMap.
Lock ==
  /\ Serve("send") /\ outQueue = <<>>
  /\ slotLocked' = TRUE /\ index' = 1
  /\ Goto("service", "visit")
  /\ UNCHANGED <<maps, queues, network, inbox, calls, alive, at, history, ended>>

\* Mutant of CleanUp: the port is not forgotten.
CleanUpSocket(p) ==
  /\ portSocketMap' = IF p \in alive THEN portSocketMap ELSE Map!Remove(portSocketMap, p)
  /\ UNCHANGED portIdMap

\* A slot without its capsule: its socket and its port are forgotten, though neither
\* closed nor removed from slotIdMap.
CleanUp(p) ==
  LET cleaned(map) == IF p \in alive THEN map ELSE Map!Remove(map, p)
  IN  portSocketMap' = cleaned(portSocketMap) /\ portIdMap' = cleaned(portIdMap)

\* One slot of the iteration.
Visit ==
  /\ Serve("visit") /\ index <= Len(slotIdMap)
  /\ LET p == slotIdMap[index].key
     IN  /\ CleanUp(p)
         /\ IF Map!Found(portIdMap', p)
              THEN Goto("service", "getSocket") /\ Using(p, NoFd) /\ UNCHANGED index
              ELSE index' = index + 1 /\ UNCHANGED <<pc, at>>
  /\ UNCHANGED <<slotIdMap, queues, network, slotLocked, inbox, calls, alive, history, ended>>

FindSocket ==
  /\ Serve("getSocket")
  /\ LET p == at["service"].port
         fd == GetSocket(p)
     IN  IF fd = NoFd THEN End("no socket to read", p) /\ UNCHANGED <<pc, at>>
         ELSE Using(p, fd) /\ Goto("service", "recv") /\ UNCHANGED ended
  /\ UNCHANGED <<maps, queues, network, loop, inbox, calls, alive, history>>

\* The lines of a connection that have arrived and were not read.
Lines(c) == [i \in 1 .. conn[c].sent - conn[c].read |->
               Signal("received", c, conn[c].read + i)]

\* Mutant of AtEnd: the end is taken for nothing to read.
NeverAtEnd(c) == FALSE

AtEnd(c) == PeerClosed(c) /\ Lines(c) = <<>>

\* recv(): lines, the end, or nothing (also from a listening or closed descriptor).
Recv ==
  /\ Serve("recv")
  /\ LET p == at["service"].port
         c == ConnOf(at["service"].fd)
         got == IF c = None THEN <<>> ELSE Lines(c)
     IN  /\ coming' = [coming EXCEPT ![p] = IF p \in alive THEN @ \o got ELSE @]
         /\ conn' = IF c = None THEN conn ELSE [conn EXCEPT ![c].read = conn[c].sent]
         /\ toDisconnect' = IF AtEnd(c) THEN Append(toDisconnect, p) ELSE toDisconnect
  /\ index' = index + 1
  /\ Goto("service", "visit") /\ Using(None, NoFd)
  /\ UNCHANGED <<maps, outQueue, acceptRequests, file, slotLocked, signals, calls, alive,
                 history, ended>>

Unlock ==
  /\ Serve("visit") /\ index > Len(slotIdMap)
  /\ slotLocked' = FALSE /\ index' = 0
  /\ Goto("service", "drop")
  /\ UNCHANGED <<maps, queues, network, inbox, calls, alive, at, history, ended>>

\* Each port of toDisconnect that still has a socket is disconnected.
Drop ==
  /\ Serve("drop") /\ toDisconnect # <<>>
  /\ toDisconnect' = Tail(toDisconnect)
  /\ LET p == Head(toDisconnect)
     IN  IF GetSocket(p) = NoFd THEN UNCHANGED <<pc, at>>
         ELSE Using(p, GetSocket(p)) /\ Goto("service", "close")
  /\ UNCHANGED <<maps, outQueue, acceptRequests, network, loop, inbox, calls, alive, history,
                 ended>>

\* Mutant of Retry: a request that cannot be served is dropped.
RetryNever(request) == Tail(acceptRequests)

Retry(request) == Append(Tail(acceptRequests), request)

\* One request for accept(): served, dropped if the capsule is gone, or put back.
Accept ==
  /\ Serve("drop") /\ toDisconnect = <<>>
  /\ LET request == Head(acceptRequests)
         wanted   == acceptRequests # <<>> /\ request.port \in alive
         client  == Waiting(request.fd)
     IN  \/ /\ ~wanted
            /\ acceptRequests' = IF acceptRequests = <<>> THEN <<>> ELSE Tail(acceptRequests)
            /\ UNCHANGED <<network, inbox>>
         \/ /\ wanted /\ client # {} /\ FreeFds # {}
            /\ acceptRequests' = Tail(acceptRequests)
            /\ file' = [file EXCEPT ![NextFd] = [kind |-> "conn", conn |-> Min(client)]]
            /\ conn' = [conn EXCEPT ![Min(client)].state = "open"]
            /\ Deliver("service", request.port, Signal("connected", Min(client), 0))
         \/ /\ wanted /\ (client = {} \/ FreeFds = {})
            /\ acceptRequests' = Retry(request)
            /\ UNCHANGED <<network, inbox>>
  /\ Goto("service", "send")
  /\ UNCHANGED <<maps, outQueue, toDisconnect, loop, calls, alive, at, history, ended>>

-----------------------------------------------------------------------------
UserStep ==
  Collect \/ PutSocket \/ PutId \/ PutSlot \/ Disconnecting("user")

Call ==
  \/ \E p \in Port : \/ Connect(p) \/ ConnectFails(p) \/ Listen(p) \/ ListenFails(p)
                     \/ Send(p) \/ AcceptCall(p) \/ DisconnectCall(p) \/ Destroy(p)
  \/ \E p \in Port, fd \in Fd : Attach(p, fd)

ServiceStep ==
  \/ TakeMessage \/ Write \/ Lock \/ Visit \/ FindSocket \/ Recv \/ Unlock \/ Drop \/ Accept
  \/ Disconnecting("service")

Environment == (\E c \in Conn : Peer(c)) \/ (\E fd \in Fd : ClientArrives(fd))

Running == ended.why = "no"

Next == Running /\ (UserStep \/ Call \/ ServiceStep \/ Environment)

\* The controller and the service are threads of the operating system.  A capsule
\* may wait for the mutex of slotIdMap again and again; the service sleeps with
\* the mutex free, so that it gets it in the end.  The service may stay in a write()
\* for ever: peers need not read, nor do anything else.
Fairness ==
  SF_vars(Running /\ UserStep) /\ WF_vars(Running /\ ServiceStep /\ ~WriteWaits)

Spec == Init /\ [][Next]_vars /\ Fairness

-----------------------------------------------------------------------------
(* Properties *)

\* As long as no capsule has called disconnect, the service alone closes sockets.
Undisturbed == left = {}

Log(p) == signals[p] \o coming[p]

Reported(p, c) == Signal("disconnected", c, 0) \in Range(Log(p))

\* The maps are sorted, as the bisection needs, and every variable has the values
\* the program gives it.
TypeOK ==
  /\ \A map \in {portSocketMap, portIdMap, slotIdMap} : Map!InOrder(map)
  /\ portSocketMap \in Seq([key : Port, object : Fd])
  /\ {portIdMap, slotIdMap} \subseteq Seq({Map!Entry(p, p) : p \in Port})
  /\ slotLocked \in BOOLEAN /\ index \in 0 .. Cardinality(Port) + 1
  /\ outQueue \in Seq([port : Port, n : Nat])
  /\ acceptRequests \in Seq([port : Listener, fd : Fd])
  /\ toDisconnect \in Seq(Port)
  /\ alive \subseteq Port
  /\ {signals, coming} \subseteq
       [Port -> Seq([kind : {"connected", "received", "disconnected"},
                     conn : Conn \cup {None}, n : Nat])]
  /\ pc \in [Thread -> {"idle", "putSocket", "putId", "putSlot", "close", "removeSocket",
                        "removeId", "removeSlot", "send", "write", "visit", "getSocket",
                        "recv", "drop"}]
  /\ at \in [Thread -> [port : Port \cup {None}, fd : Fd \cup {NoFd}, conn : Conn \cup {None},
                      n : Nat]]
  /\ file \in [Fd -> [kind : {"free", "raw", "listen", "conn"}, conn : Conn \cup {None}]]
  /\ conn \in [Conn -> [state : {"none", "waiting", "open", "closed"}, fd : Fd \cup {NoFd},
                        sent : Nat, read : Nat, owner : Port \cup {None}]]
  /\ written \in [Port -> Seq([n : Nat, conn : Conn])]
  /\ calls \in Nat /\ asked \in [Port -> Nat] /\ left \subseteq Leaver

\* While nothing is being added or removed, the three maps agree on the ports whose
\* capsules live, and each of their sockets is open and is their own.
MapsAgree ==
  Undisturbed /\ pc["user"] = "idle" /\ at["service"].conn = None =>
    \A p \in alive :
      /\ p \in Map!Keys(portIdMap) <=> p \in Map!Keys(portSocketMap)
      /\ p \in Map!Keys(slotIdMap) <=> p \in Map!Keys(portSocketMap)
      /\ p \in Map!Keys(portSocketMap) =>
           IF p \in Listener THEN Listening(GetSocket(p))
           ELSE ConnOf(GetSocket(p)) # None /\ conn[ConnOf(GetSocket(p))].owner = p

\* The signals of a log come in order, connection by connection.
ToldInOrder(p, log) ==
  \A i \in 1 .. Len(log) :
    LET signal == log[i]
        before == {log[j] : j \in 1 .. i - 1}
        c == signal.conn
        told(kind, n) == Signal(kind, c, n) \in before
    IN  /\ conn[c].owner = p
        /\ signal \notin before /\ ~told("disconnected", 0)
        /\ signal.kind # "connected" /\ conn[c].fd = NoFd => told("connected", 0)
        /\ signal.kind = "received" /\ signal.n > 1 => told("received", signal.n - 1)
        /\ signal.kind = "disconnected" /\ conn[c].sent > 0 => told("received", conn[c].sent)

\* What a capsule is told of a connection, whatever descriptors the connections of
\* the program share in the course of time: that it is connected, first; all the lines
\* of the peer, each once, in order, and nobody else's; and its end, once, last.
SignalsInOrder == Undisturbed => \A p \in Port \ Listener : ToldInOrder(p, signals[p])

\* Messages leave in the order in which they were sent, none twice, and, as long as no
\* capsule has called disconnect, on a connection of the port that sent them.
WrittenInOrder ==
  \A p \in Port : \A i \in DOMAIN written[p] :
    /\ i > 1 => written[p][i - 1].n < written[p][i].n
    /\ Undisturbed => conn[written[p][i].conn].owner = p

Lost(p) == \E c \in Conn : conn[c].owner = p /\ conn[c].state = "closed"

\* The service ends the process only for a port that lost its connection: for the
\* socket of a message or by SIGPIPE, if the peer closed it, unless descriptors were mixed
\* up by some capsule's disconnect; for the socket of a port it reads from, only if this
\* capsule has called disconnect.
EndsOnlyAfterLoss ==
  /\ ended.why \in {"no socket to write", "SIGPIPE"} => Lost(ended.port) \/ ~Undisturbed
  /\ ended.why = "no socket to read" => ended.port \in left

\* A capsule is told when the peer of its connection has closed: none is left for ever
\* with a closed connection that it was not told of, unless the service, which has one
\* thread for all ports, waits for ever for some peer that does not read.
EndReported ==
  \A p \in Port \ Listener :
    LET unaware == /\ p \in alive /\ Undisturbed /\ Running
                   /\ \E c \in Conn : PeerClosed(c) /\ conn[c].owner = p /\ ~Reported(p, c)
    IN  []<>~unaware \/ <>[]WriteWaits

\* A capsule gets as many clients as it has asked for, one for each call: none waits for
\* ever at its socket while a call is owed one, unless the process has no descriptor left,
\* or the service waits for ever for some peer that does not read.
ClientAccepted ==
  \A p \in Listener :
    LET clients == {c \in Conn : Signal("connected", c, 0) \in Range(Log(p))}
        owed    == /\ p \in alive /\ Undisturbed /\ Running /\ FreeFds # {}
                   /\ asked[p] > Cardinality(clients) /\ Waiting(GetSocket(p)) # {}
    IN  []<>~owed \/ <>[]WriteWaits

-----------------------------------------------------------------------------
(* The inductive invariant *)

Sockets == Map!Keys(portSocketMap)
Ids     == Map!Keys(portIdMap)
Slots   == Map!Keys(slotIdMap)

\* The capsules' thread is putting a port into the maps; a thread is closing the socket
\* of one, or taking it out of the maps.
Putting(p)     == pc["user"] \in {"putSocket", "putId", "putSlot"} /\ at["user"].port = p
Closing(t, p)  == pc[t] \in {"close", "removeSocket"} /\ at[t].port = p
Dropping(t, p) == pc[t] \in {"removeId", "removeSlot"} /\ at[t].port = p
Removing(t, p) == pc[t] \in {"removeSocket", "removeId", "removeSlot"} /\ at[t].port = p

\* Each thread is at a place of its own program, with the values that place needs.
Places ==
  /\ pc["user"] \in {"idle", "putSocket", "putId", "putSlot", "close", "removeSocket",
                     "removeId", "removeSlot"}
  /\ pc["service"] \in {"send", "write", "visit", "getSocket", "recv", "drop", "close",
                        "removeSocket", "removeId", "removeSlot"}
  /\ \A t \in Thread : pc[t] \notin {"idle", "send", "visit", "drop"} => at[t].port \in Port
  /\ pc["user"] \in {"putSocket", "putId", "putSlot"} => at["user"].fd \in Fd
  /\ \A t \in Thread : pc[t] \in {"close", "write", "recv"} => at[t].fd \in Fd
  /\ pc["service"] \notin {"removeSocket", "removeId", "removeSlot"} =>
       at["service"].conn = None

\* The service has the mutex of slotIdMap during its iteration, and the iterator stays
\* within the map.
Iterates ==
  /\ slotLocked <=> pc["service"] \in {"visit", "getSocket", "recv"}
  /\ ~slotLocked => index = 0
  /\ slotLocked => index \in 1 .. Len(slotIdMap) + 1
  /\ pc["service"] \in {"getSocket", "recv"} =>
       index <= Len(slotIdMap) /\ slotIdMap[index].key = at["service"].port

\* The numbers of the messages that were written, of the one in hand, and of those
\* in the queue grow.
NumbersGrow ==
  /\ \A i \in 1 .. Len(outQueue) :
       /\ outQueue[i].n <= calls /\ outQueue[i].port \notin Listener
       /\ \A j \in 1 .. i - 1 : outQueue[j].n < outQueue[i].n
       /\ pc["service"] = "write" => at["service"].n < outQueue[i].n
       /\ \A p \in Port : \A j \in 1 .. Len(written[p]) : written[p][j].n < outQueue[i].n
  /\ pc["service"] = "write" => at["service"].n <= calls /\ at["service"].port \notin Listener
  /\ \A p \in Port : \A i \in 1 .. Len(written[p]) :
       /\ written[p][i].n <= calls
       /\ \A j \in 1 .. i - 1 : written[p][j].n < written[p][i].n
       /\ pc["service"] = "write" => written[p][i].n < at["service"].n

\* The ports whose peers have closed: each at most once, and none that the iteration has
\* yet to visit or that is being removed.
EachDroppedOnce ==
  /\ pc["service"] \in {"send", "write"} => toDisconnect = <<>>
  /\ \A i \in 1 .. Len(toDisconnect) :
       /\ \A j \in 1 .. i - 1 : toDisconnect[j] < toDisconnect[i]
       /\ slotLocked => \A j \in index .. Len(slotIdMap) : toDisconnect[i] < slotIdMap[j].key
       /\ pc["service"] \in {"close", "removeSocket", "removeId", "removeSlot"} =>
            toDisconnect[i] # at["service"].port

\* As long as the capsule of a port does not call disconnect, the service alone removes
\* the port, one map after another, and the port is not in the second or third map longer
\* than in the first; it can come back only while the service removes it.
Nested ==
  /\ pc["user"] \in {"close", "removeSocket", "removeId", "removeSlot"} =>
       at["user"].port \in left
  /\ \A p \in Port : Putting(p) =>
       /\ p \in alive \ left
       /\ p \in Sockets <=> pc["user"] # "putSocket"
       /\ p \in Slots => Dropping("service", p)
       /\ ~Closing("service", p)
       /\ p \notin Range(toDisconnect)
  /\ \A p \in Port \ left :
       /\ p \in Range(toDisconnect) => p \in Sockets
       /\ Closing("service", p) => p \in Sockets
       /\ pc["service"] \in {"getSocket", "recv"} /\ at["service"].port = p => p \in Sockets
       /\ p \in Ids => p \in Sockets \/ (pc["service"] = "removeId" /\ at["service"].port = p)
       /\ p \in Slots /\ p \in alive => p \in Sockets \/ Dropping("service", p)

\* A connection has at most one descriptor, and one that has a descriptor has begun.
OneDescriptor ==
  /\ \A fd \in Fd : file[fd].kind = "conn" <=> file[fd].conn # None
  /\ \A fd1, fd2 \in Fd : file[fd1].conn = file[fd2].conn /\ file[fd1].conn # None => fd1 = fd2
  /\ \A fd \in Fd : file[fd].conn # None => conn[file[fd].conn].state \in {"open", "closed"}
  /\ \A c \in Conn :
       /\ conn[c].state = "none" => conn[c] = NoConn
       /\ conn[c].fd = NoFd => conn[c] = NoConn \/ conn[c].owner # None
       /\ conn[c].state = "waiting" => conn[c].owner = None
       /\ conn[c].read <= conn[c].sent

\* The descriptor is one of the port's own.
Own(p, fd) ==
  IF p \in Listener THEN Listening(fd) ELSE ConnOf(fd) # None /\ conn[ConnOf(fd)].owner = p

\* The peer has closed, and everything it sent was read.
Finished(c) == c \in Conn /\ conn[c].state = "closed" /\ conn[c].read = conn[c].sent

\* The socket of a port is its own until the service has closed it.
SocketOwn(p) ==
  Own(p, GetSocket(p)) \/ (pc["service"] = "removeSocket" /\ at["service"].port = p)

PutOwn(p) ==
  Putting(p) =>
    /\ Own(p, at["user"].fd)
    /\ pc["user"] # "putSocket" => GetSocket(p) = at["user"].fd
    /\ at["user"].conn # None => /\ ConnOf(at["user"].fd) = at["user"].conn
                                 /\ conn[at["user"].conn].fd = NoFd

\* The service writes, reads and closes the socket that the port has.
HandOwn ==
  pc["service"] \in {"write", "recv", "close"} =>
    at["service"].port \in Sockets /\ GetSocket(at["service"].port) = at["service"].fd

\* Only connections that are finished are closed.
EndOwn(p) ==
  p \in Range(toDisconnect) \/ (pc["service"] = "close" /\ at["service"].port = p) =>
    p \notin Listener /\ Finished(ConnOf(GetSocket(p)))

GoneOwn(p) ==
  Removing("service", p) =>
    LET c == at["service"].conn IN
    /\ Finished(c) /\ conn[c].owner = p
    /\ p \notin Listener /\ \A fd \in Fd : ConnOf(fd) # c

\* As long as no capsule calls disconnect, nobody else's descriptor is read, written or
\* closed for a port.
SocketsOwn ==
  Undisturbed =>
    /\ \A p \in Sockets : SocketOwn(p)
    /\ \A p \in Port : PutOwn(p) /\ EndOwn(p) /\ GoneOwn(p)
    /\ HandOwn
    /\ \A c \in Conn : conn[c].owner = None => conn[c].read = 0
    /\ \A p \in Port : \A i \in 1 .. Len(written[p]) : conn[written[p][i].conn].owner = p
    /\ \A i \in 1 .. Len(outQueue) :
         outQueue[i].port \in alive => outQueue[i].port \in Sockets \/ Lost(outQueue[i].port)

\* What a capsule that connects is told, and what it has yet to be told.
LogSound(p) ==
  LET told(kind, c, n) == Signal(kind, c, n) \in Range(Log(p)) IN
  /\ ToldInOrder(p, Log(p))
  /\ \A signal \in Range(Log(p)) :
       /\ signal.conn \in Conn
       /\ IF signal.kind = "received" THEN signal.n \in 1 .. conn[signal.conn].read
                                      ELSE signal.n = 0
  /\ \A c \in Conn :
       /\ told("disconnected", c, 0) =>
            /\ conn[c].state = "closed" /\ \A fd \in Fd : ConnOf(fd) # c
            /\ Removing("service", p) => at["service"].conn # c
       /\ told("connected", c, 0) => ~(Putting(p) /\ at["user"].conn = c)
       /\ conn[c].owner = p /\ p \in alive =>
            /\ \A n \in 1 .. conn[c].read : told("received", c, n)
            /\ conn[c].fd = NoFd =>
                 told("connected", c, 0) \/ (Putting(p) /\ at["user"].conn = c)

\* As long as the capsules, moreover, wait for the end of their last connection, a port is
\* in all maps or in none while nobody puts or removes it.
Tidy ==
  Undisturbed /\ Patient =>
    /\ \A p \in Sockets : /\ p \in Ids \/ (Putting(p) /\ pc["user"] = "putId")
                          /\ p \in Slots \/ Putting(p)
    /\ \A p \in Port :
         /\ Dropping("service", p) => p \notin Sockets
         /\ Putting(p) => ~Removing("service", p)
    /\ \A p \in Port \ Listener : LogSound(p) /\ (Putting(p) => coming[p] = <<>>)

Inv ==
  /\ TypeOK /\ Places /\ Iterates /\ NumbersGrow /\ EachDroppedOnce /\ Nested /\ OneDescriptor
  /\ SocketsOwn /\ Tidy /\ EndsOnlyAfterLoss
=============================================================================

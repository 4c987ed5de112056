-------------------------------- MODULE Proxy --------------------------------
(***************************************************************************)
(* The proxy that relays packets between the clusters of a job             *)
(* (src/src/dcmpiproxy), with the gateways that use it: rank 0 of every    *)
(* cluster opens two connections, "in" and "out" as the proxy sees them,   *)
(* and each is served by a thread of the proxy.  A job is known by its     *)
(* cookie.  All jobs share the mutex of the cookies and the memory.        *)
(*                                                                         *)
(* A wire is a sequence of whole messages: a size line with its packet,    *)
(* "bye", or the end of the connection.  The threads are Python threads:   *)
(* every region under a semaphore is one step.  The mutex is a variable    *)
(* because the error path keeps it.                                        *)
(***************************************************************************)
EXTENDS Integers, FiniteSets, SequencesExt

CONSTANTS
  Jobs,          \* cookies
  NumClusters,   \* cluster_size of every job
  Traffic,       \* packets [to, size] every gateway sends, in order
  MemThreshold,  \* memthreshold
  MaxSize,       \* size of the largest packet
  WireCap,       \* bound: messages a connection holds before a write blocks
  MayCrash       \* bound: gateways that may fail of themselves

Gateways == Jobs \X (0 .. NumClusters - 1)
Peers(g) == {h \in Gateways : h[1] = g[1] /\ h # g}

ASSUME ProxyAssumption ==
  /\ NumClusters \in Nat \ {0, 1} /\ IsFiniteSet(Jobs)
  /\ MemThreshold \in Nat /\ MaxSize \in Nat /\ WireCap \in Nat /\ MayCrash \subseteq Gateways
  /\ DOMAIN Traffic = Gateways
  /\ \A g \in Gateways : Traffic[g] \in Seq([to : Peers(g), size : 1 .. MaxSize])

Bye      == [kind |-> "bye"]
Eof      == [kind |-> "eof"]      \* a connection that has ended
Reset    == [kind |-> "reset"]    \* a connection that has ended with an error
None     == [kind |-> "None"]     \* what an in-thread that fails leaves in the queues
NoPacket == [kind |-> "nothing"]

VARIABLES
  gateway,   \* of a gateway: in its main loop, after it, ProxyWriter joined, ended
  dead,      \* gateways whose process has died
  sent,      \* packets the gateway has written
  byeRead,   \* proxy_in_socket = -1
  got,       \* packets the gateway has read, in order
  toProxy,   \* the wire from every gateway
  toGateway, \* the wire to every gateway
  inThread, inHand,              \* where an in-thread is, and its packet
  outThread, outHand, byes,      \* where an out-thread is, its packet, byes_received
  queue,     \* cookie_outqueue
  users,     \* cookie_userofcookiecount
  known,     \* cookies in cookie_outqueue
  mutexHeld, \* cookie_mutex is held by a thread that will never release it
  memusage,
  promised   \* history: sizes that have passed the test and are not charged yet

gwVars    == <<gateway, dead, sent, byeRead, got>>
wires     == <<toProxy, toGateway>>
inVars    == <<inThread, inHand>>
outVars   == <<outThread, outHand, byes>>
tableVars == <<queue, users, known, mutexHeld>>
memVars   == <<memusage, promised>>
vars == <<gwVars, wires, inVars, outVars, tableVars, memVars>>

PacketsOf(g) ==
  UNION {{[kind |-> "packet", from |-> g, n |-> n, to |-> Traffic[g][n].to,
           size |-> Traffic[g][n].size, len |-> l] : l \in 0 .. Traffic[g][n].size} :
           n \in DOMAIN Traffic[g]}
Packets  == UNION {PacketsOf(g) : g \in Gateways}
IsPacket(m) == m.kind = "packet"
IsCut(p)    == p.len < p.size

\* gateways that send something
Senders == {g \in Gateways : Traffic[g] # <<>>}

\* the number of packets others have for this gateway
Expected == [g \in Gateways |-> Cardinality({p \in Packets : p.to = g /\ ~IsCut(p)})]

-----------------------------------------------------------------------------
(* Gateways                                                                *)

\* ProxyWriter::run: the packets of mpi_to_proxy_queue
GatewayWrite(g) ==
  /\ g \notin dead /\ gateway[g] = "loop" /\ sent[g] < Len(Traffic[g]) /\ Len(toProxy[g]) < WireCap
  /\ LET t == Traffic[g][sent[g] + 1]
         p == [kind |-> "packet", from |-> g, n |-> sent[g] + 1, to |-> t.to,
               size |-> t.size, len |-> t.size]
     IN  toProxy' = [toProxy EXCEPT ![g] = Append(@, p)]
  /\ sent' = [sent EXCEPT ![g] = @ + 1]
  /\ UNCHANGED <<gateway, dead, byeRead, got, toGateway, inVars, outVars, tableVars, memVars>>

\* handle incoming queue from proxy
GatewayRead(g) ==
  /\ g \notin dead /\ gateway[g] = "loop" /\ ~byeRead[g] /\ toGateway[g] # <<>> /\ Head(toGateway[g]) # Eof
  /\ toGateway' = [toGateway EXCEPT ![g] = Tail(@)]
  /\ IF Head(toGateway[g]) = Bye
     THEN byeRead' = [byeRead EXCEPT ![g] = TRUE] /\ UNCHANGED got
     ELSE got' = [got EXCEPT ![g] = Append(@, Head(toGateway[g]))] /\ UNCHANGED byeRead
  /\ UNCHANGED <<gateway, dead, sent, toProxy, inVars, outVars, tableVars, memVars>>

\* Mutant: packets that are still to come are not waited for.
GatewayLeavesEarly(g) ==
  /\ g \notin dead /\ gateway[g] = "loop" /\ sent[g] = Len(Traffic[g])
  /\ gateway' = [gateway EXCEPT ![g] = "left"]
  /\ UNCHANGED <<dead, sent, byeRead, got, wires, inVars, outVars, tableVars, memVars>>

\* The main loop ends when every done packet has come and the queue to the
\* proxy is empty: all that is for this cluster has arrived.
GatewayLeave(g) ==
  /\ g \notin dead /\ gateway[g] = "loop" /\ sent[g] = Len(Traffic[g]) /\ Len(got[g]) = Expected[g]
  /\ gateway' = [gateway EXCEPT ![g] = "left"]
  /\ UNCHANGED <<dead, sent, byeRead, got, wires, inVars, outVars, tableVars, memVars>>

\* mpi_to_proxy_queue->put(NULL): the writer says "bye", closes, is joined
GatewayBye(g) ==
  /\ g \notin dead /\ gateway[g] = "left" /\ Len(toProxy[g]) < WireCap
  /\ toProxy' = [toProxy EXCEPT ![g] = Append(@, Bye)]
  /\ gateway' = [gateway EXCEPT ![g] = "joined"]
  /\ UNCHANGED <<dead, sent, byeRead, got, toGateway, inVars, outVars, tableVars, memVars>>

\* dcmpiruntime_common_cleanup
GatewayCleanup(g) ==
  /\ g \notin dead /\ gateway[g] = "joined"
  /\ \/ byeRead[g] /\ UNCHANGED <<toGateway, byeRead>>
     \/ /\ ~byeRead[g] /\ toGateway[g] # <<>> /\ Head(toGateway[g]) = Bye
        /\ toGateway' = [toGateway EXCEPT ![g] = Tail(@)]
        /\ byeRead' = [byeRead EXCEPT ![g] = TRUE]
  /\ gateway' = [gateway EXCEPT ![g] = "ended"]
  /\ UNCHANGED <<dead, sent, got, toProxy, inVars, outVars, tableVars, memVars>>

\* The connections of a process that dies: what it wrote arrives whole, or the
\* packet it was writing arrives cut, or all that was not read yet is lost.
Die(g) ==
  /\ g \notin dead
  /\ dead' = dead \cup {g}
  /\ \/ gateway[g] = "joined" /\ UNCHANGED toProxy
     \/ /\ gateway[g] # "joined"
        /\ \/ toProxy' = [toProxy EXCEPT ![g] = Append(@, Eof)]
           \/ toProxy' = [toProxy EXCEPT ![g] = <<Reset>>]
           \/ /\ gateway[g] = "loop" /\ sent[g] < Len(Traffic[g])
              /\ \E p \in PacketsOf(g) :
                   /\ p.n = sent[g] + 1 /\ IsCut(p)
                   /\ toProxy' = [toProxy EXCEPT ![g] = @ \o <<p, Eof>>]
  /\ toGateway' = [toGateway EXCEPT ![g] = <<>>]
  /\ UNCHANGED <<gateway, sent, byeRead, got, inVars, outVars, tableVars, memVars>>

Crash(g) ==
  /\ gateway[g] # "ended"
  /\ Die(g)

\* dcmpi_socket_read_line asserts that there is a line, the cleanup that it is
\* "bye"
GatewayAbort(g) ==
  /\ ~byeRead[g] /\ toGateway[g] # <<>>
  /\ \/ gateway[g] = "loop" /\ Head(toGateway[g]) = Eof
     \/ gateway[g] = "joined" /\ Head(toGateway[g]) # Bye
  /\ Die(g)

-----------------------------------------------------------------------------
(* Threads of the proxy                                                    *)

\* Mutant: one user for every cluster.
RegisterOneEach(j) ==
  /\ ~mutexHeld
  /\ known' = known \cup {j}
  /\ users' = IF j \in known THEN users ELSE [users EXCEPT ![j] = NumClusters]
  /\ UNCHANGED <<queue, mutexHeld>>

\* The first client of a cookie makes its queues, one for every cluster.  An
\* out-thread takes the mutex a second time to look its queue up.
Register(j) ==
  /\ ~mutexHeld
  /\ known' = known \cup {j}
  /\ users' = IF j \in known THEN users ELSE [users EXCEPT ![j] = 2 * NumClusters]
  /\ UNCHANGED <<queue, mutexHeld>>

InRegister(g) ==
  /\ inThread[g] = "hello" /\ Register(g[1])
  /\ inThread' = [inThread EXCEPT ![g] = "line"]
  /\ UNCHANGED <<gwVars, wires, inHand, outVars, memVars>>

OutRegister(g) ==
  /\ outThread[g] = "hello" /\ Register(g[1])
  /\ outThread' = [outThread EXCEPT ![g] = "get"]
  /\ UNCHANGED <<gwVars, wires, inVars, outHand, byes, memVars>>

\* f.readline(): the line of a packet
InLine(g) ==
  /\ inThread[g] = "line" /\ toProxy[g] # <<>> /\ IsPacket(Head(toProxy[g]))
  /\ inThread' = [inThread EXCEPT ![g] = "wait"]
  /\ inHand' = [inHand EXCEPT ![g] = Head(toProxy[g])]
  /\ toProxy' = [toProxy EXCEPT ![g] = Tail(@)]
  /\ UNCHANGED <<gwVars, toGateway, outVars, tableVars, memVars>>

\* Mutant: a packet that just reaches the threshold passes.
InCheckOrEqual(g) ==
  /\ inThread[g] = "wait" /\ memusage + inHand[g].size <= MemThreshold
  /\ inThread' = [inThread EXCEPT ![g] = "charge"]
  /\ promised' = promised + inHand[g].size
  /\ UNCHANGED <<gwVars, wires, inHand, outVars, tableVars, memusage>>

\* wait for some stored-here packets to be picked up by receivers
InCheck(g) ==
  /\ inThread[g] = "wait" /\ memusage + inHand[g].size < MemThreshold
  /\ inThread' = [inThread EXCEPT ![g] = "charge"]
  /\ promised' = promised + inHand[g].size
  /\ UNCHANGED <<gwVars, wires, inHand, outVars, tableVars, memusage>>

\* q is looked up under the cookie mutex, then the memory is charged
InCharge(g) ==
  /\ inThread[g] = "charge" /\ ~mutexHeld
  /\ inThread' = [inThread EXCEPT ![g] = "read"]
  /\ memusage' = memusage + inHand[g].size
  /\ promised' = promised - inHand[g].size
  /\ UNCHANGED <<gwVars, wires, inHand, outVars, tableVars>>

\* f.read(size) returns what there is; q.put(input)
InPut(g) ==
  /\ inThread[g] = "read"
  /\ inThread' = [inThread EXCEPT ![g] = "line"]
  /\ inHand' = [inHand EXCEPT ![g] = NoPacket]
  /\ queue' = [queue EXCEPT ![inHand[g].to] = Append(@, inHand[g])]
  /\ UNCHANGED <<gwVars, wires, outVars, users, known, mutexHeld, memVars>>

\* The last message of every other queue of the cookie.
PutToOthers(g, m) ==
  queue' = [h \in Gateways |-> IF h \in Peers(g) THEN Append(queue[h], m) ELSE queue[h]]

InBye(g) ==
  /\ inThread[g] = "line" /\ toProxy[g] # <<>> /\ Head(toProxy[g]) = Bye /\ ~mutexHeld
  /\ PutToOthers(g, Bye)
  /\ toProxy' = [toProxy EXCEPT ![g] = Tail(@)]
  /\ inThread' = [inThread EXCEPT ![g] = "leave"]
  /\ UNCHANGED <<gwVars, toGateway, inHand, outVars, users, known, mutexHeld, memVars>>

\* f.readline() returns "" at the end of the connection: None to the others ...
InError(g) ==
  /\ inThread[g] = "line" /\ toProxy[g] # <<>> /\ Head(toProxy[g]) = Eof /\ ~mutexHeld
  /\ PutToOthers(g, None)
  /\ toProxy' = [toProxy EXCEPT ![g] = Tail(@)]
  /\ inThread' = [inThread EXCEPT ![g] = "error"]
  /\ UNCHANGED <<gwVars, toGateway, inHand, outVars, users, known, mutexHeld, memVars>>

\* ... then the mutex is taken at the end of the error path, and again on the
\* way out of the thread, which waits for itself
InErrorLocks(g) ==
  /\ inThread[g] = "error" /\ ~mutexHeld
  /\ mutexHeld' = TRUE
  /\ inThread' = [inThread EXCEPT ![g] = "leave"]
  /\ UNCHANGED <<gwVars, wires, inHand, outVars, queue, users, known, memVars>>

\* an exception ends a thread where it is
InRaises(g) ==
  /\ inThread[g] = "line" /\ toProxy[g] # <<>> /\ Head(toProxy[g]) = Reset
  /\ inThread' = [inThread EXCEPT ![g] = "raised"]
  /\ UNCHANGED <<gwVars, wires, inHand, outVars, tableVars, memVars>>

\* Mutants: the first "bye" is taken for the last; a "bye" of the gateway's own
\* cluster is waited for.
FirstBye(n) == n = 1
ByeOfAll(n) == n = NumClusters

\* byes_received == cluster_size-1
LastBye(n) == n = NumClusters - 1

\* myq.get() and what is done with the item; an empty string is an error as
\* None is
OutGet(g) ==
  /\ outThread[g] = "get" /\ queue[g] # <<>>
  /\ LET item == Head(queue[g]) IN
       IF item = Bye
       THEN /\ byes' = [byes EXCEPT ![g] = @ + 1]
            /\ outThread' = [outThread EXCEPT ![g] =
                              IF LastBye(byes'[g]) THEN "bye" ELSE "get"]
            /\ UNCHANGED outHand
       ELSE /\ outThread' = [outThread EXCEPT ![g] =
                              IF item # None /\ item.len > 0 THEN "write" ELSE "leave"]
            /\ outHand' = [outHand EXCEPT ![g] =
                            IF item # None /\ item.len > 0 THEN item ELSE NoPacket]
            /\ UNCHANGED byes
  /\ queue' = [queue EXCEPT ![g] = Tail(@)]
  /\ UNCHANGED <<gwVars, wires, inVars, users, known, mutexHeld, memVars>>

\* f.write, f.flush: waits for room in the connection; to a process that has
\* died it goes nowhere
OutWire(g, m) ==
  \/ /\ g \notin dead /\ Len(toGateway[g]) < WireCap
     /\ toGateway' = [toGateway EXCEPT ![g] = Append(@, m)]
  \/ g \in dead /\ UNCHANGED toGateway

OutWrite(g) ==
  /\ outThread[g] = "write" /\ OutWire(g, outHand[g])
  /\ outThread' = [outThread EXCEPT ![g] = "reduce"]
  /\ UNCHANGED <<gwVars, toProxy, inVars, outHand, byes, tableVars, memVars>>

OutBye(g) ==
  /\ outThread[g] = "bye" /\ OutWire(g, Bye)
  /\ outThread' = [outThread EXCEPT ![g] = "leave"]
  /\ UNCHANGED <<gwVars, toProxy, inVars, outHand, byes, tableVars, memVars>>

\* or raises an exception
OutRaises(g) ==
  /\ outThread[g] \in {"write", "bye"} /\ g \in dead
  /\ outThread' = [outThread EXCEPT ![g] = "raised"]
  /\ outHand' = [outHand EXCEPT ![g] = NoPacket]
  /\ UNCHANGED <<gwVars, wires, inVars, byes, tableVars, memVars>>

\* Mutant: the size line is given back with the packet.
OutReduceWithLine(g) ==
  /\ outThread[g] = "reduce"
  /\ memusage' = memusage - outHand[g].len - 1
  /\ outThread' = [outThread EXCEPT ![g] = "get"]
  /\ outHand' = [outHand EXCEPT ![g] = NoPacket]
  /\ UNCHANGED <<gwVars, wires, inVars, byes, tableVars, promised>>

\* memusage -= len(item)
OutReduce(g) ==
  /\ outThread[g] = "reduce"
  /\ memusage' = memusage - outHand[g].len
  /\ outThread' = [outThread EXCEPT ![g] = "get"]
  /\ outHand' = [outHand EXCEPT ![g] = NoPacket]
  /\ UNCHANGED <<gwVars, wires, inVars, byes, tableVars, promised>>

\* The last user of a cookie deletes it, with what is left in its queues.
Unregister(j) ==
  /\ ~mutexHeld
  /\ users' = [users EXCEPT ![j] = @ - 1]
  /\ IF users'[j] = 0
     THEN /\ known' = known \ {j}
          /\ queue' = [g \in Gateways |-> IF g[1] = j THEN <<>> ELSE queue[g]]
     ELSE UNCHANGED <<known, queue>>
  /\ UNCHANGED mutexHeld

InLeave(g) ==
  /\ inThread[g] = "leave" /\ Unregister(g[1])
  /\ inThread' = [inThread EXCEPT ![g] = "ended"]
  /\ UNCHANGED <<gwVars, wires, inHand, outVars, memVars>>

\* the thread's file object goes, and the connection with it
OutLeave(g) ==
  /\ outThread[g] = "leave" /\ Unregister(g[1])
  /\ outThread' = [outThread EXCEPT ![g] = "ended"]
  /\ toGateway' = IF g \in dead \/ byeRead[g] THEN toGateway
                  ELSE [toGateway EXCEPT ![g] = Append(@, Eof)]
  /\ UNCHANGED <<gwVars, toProxy, inVars, outHand, byes, memVars>>

-----------------------------------------------------------------------------
Init ==
  /\ gateway = [g \in Gateways |-> "loop"] /\ dead = {}
  /\ sent = [g \in Gateways |-> 0]
  /\ byeRead = [g \in Gateways |-> FALSE]
  /\ got = [g \in Gateways |-> <<>>]
  /\ toProxy = [g \in Gateways |-> <<>>] /\ toGateway = [g \in Gateways |-> <<>>]
  /\ inThread = [g \in Gateways |-> "hello"] /\ inHand = [g \in Gateways |-> NoPacket]
  /\ outThread = [g \in Gateways |-> "hello"] /\ outHand = [g \in Gateways |-> NoPacket]
  /\ byes = [g \in Gateways |-> 0]
  /\ queue = [g \in Gateways |-> <<>>]
  /\ users = [j \in Jobs |-> 0] /\ known = {} /\ mutexHeld = FALSE
  /\ memusage = 0 /\ promised = 0

GatewayStep(g) == GatewayWrite(g) \/ GatewayRead(g) \/ GatewayLeave(g) \/ GatewayBye(g)
                  \/ GatewayCleanup(g) \/ GatewayAbort(g)
InStep(g)  == InRegister(g) \/ InLine(g) \/ InCheck(g) \/ InCharge(g) \/ InPut(g) \/ InBye(g)
              \/ InError(g) \/ InErrorLocks(g) \/ InRaises(g) \/ InLeave(g)
OutStep(g) == OutRegister(g) \/ OutGet(g) \/ OutWrite(g) \/ OutBye(g) \/ OutRaises(g)
              \/ OutReduce(g) \/ OutLeave(g)

Next == \/ \E g \in Gateways : GatewayStep(g) \/ InStep(g) \/ OutStep(g)
        \/ \E g \in MayCrash : Crash(g)

Spec == Init /\ [][Next]_vars

\* Every thread runs.  The semaphores are handed over fairly enough: they are
\* held for single steps, or for ever.  An in-thread that finds no room sleeps
\* and looks again, and may always look at the wrong moment.
Fairness ==
  \A g \in Gateways :
    /\ WF_vars(GatewayWrite(g)) /\ WF_vars(GatewayRead(g)) /\ WF_vars(GatewayLeave(g))
    /\ WF_vars(GatewayBye(g)) /\ WF_vars(GatewayCleanup(g)) /\ WF_vars(GatewayAbort(g))
    /\ WF_vars(InStep(g)) /\ WF_vars(OutStep(g))

FairSpec == Spec /\ Fairness

-----------------------------------------------------------------------------
(* Properties                                                              *)

ThreadStates == {"hello", "line", "wait", "charge", "read", "error", "get", "write", "bye",
                 "reduce", "leave", "ended", "raised"}

\* Every variable has its type.
TypeOK ==
  /\ gateway \in [Gateways -> {"loop", "left", "joined", "ended"}] /\ dead \subseteq Gateways
  /\ sent \in [Gateways -> Nat]
  /\ byeRead \in [Gateways -> BOOLEAN]
  /\ got \in [Gateways -> Seq(Packets)]
  /\ \A g \in Gateways : toProxy[g] \in Seq(PacketsOf(g) \cup {Bye, Eof, Reset})
  /\ toGateway \in [Gateways -> Seq(Packets \cup {Bye, Eof})]
  /\ inThread \in [Gateways -> ThreadStates] /\ outThread \in [Gateways -> ThreadStates]
  /\ \A g \in Gateways : inHand[g] \in PacketsOf(g) \cup {NoPacket}
  /\ outHand \in [Gateways -> Packets \cup {NoPacket}]
  /\ byes \in [Gateways -> Nat]
  /\ queue \in [Gateways -> Seq(Packets \cup {Bye, None})]
  /\ users \in [Jobs -> Nat] /\ known \subseteq Jobs /\ mutexHeld \in BOOLEAN
  /\ memusage \in Int /\ promised \in Int
  /\ \A g \in Gateways :
       /\ inThread[g] \in {"wait", "charge", "read"} <=> inHand[g] # NoPacket
       /\ outThread[g] \in {"write", "reduce"} <=> outHand[g] # NoPacket

\* The test and the charge are two critical sections, so several in-threads can
\* pass the test on the same room: memusage goes past the threshold, but never
\* by more than a packet of every gateway that sends but one.
OvershootBounded ==
  memusage > 0 => memusage < MemThreshold + MaxSize * (Cardinality(Senders) - 1)

\* assert memusage >= 0; nothing is charged in the end if no gateway has
\* failed; and a thread has a packet in its hand as long as it accounts for it
\* (TypeOK).  A cut packet, or one that was on its way to a failed gateway, stays
\* charged for ever.
ChargesAreGivenBack ==
  /\ TypeOK
  /\ memusage >= 0
  /\ (\A g \in Gateways : inThread[g] = "ended" /\ outThread[g] = "ended") => memusage = 0

\* cookie_outqueue has a cookie as long as a thread may look it up (a missing
\* key would raise an exception), and loses it with its last user.
CookieOutlivesUsers ==
  \A j \in Jobs :
    LET Threads(states) == \E g \in Gateways :
          g[1] = j /\ (inThread[g] \in states \/ outThread[g] \in states)
    IN  /\ Threads(ThreadStates \ {"hello", "ended", "raised"}) => j \in known
        /\ ~Threads(ThreadStates \ {"ended"}) => j \notin known

\* A gateway that has left its main loop finds "bye" as the next line (the
\* assertion of dcmpiruntime_common_cleanup), unless a gateway of its job died:
\* no packet is left for it.
CleanupReadsBye ==
  \A g \in Gateways :
    /\ gateway[g] = "joined" /\ ~byeRead[g] /\ toGateway[g] # <<>>
    /\ \A h \in Peers(g) : h \notin dead
    => Head(toGateway[g]) = Bye

\* As long as no gateway has died, every packet reaches its cluster and every
\* thread of the proxy ends.
ProxyIsEmptied ==
  <>[](\/ dead # {}
       \/ \A g \in Gateways : gateway[g] = "ended" /\ inThread[g] = "ended"
                              /\ outThread[g] = "ended" /\ Len(got[g]) = Expected[g])

\* The packets under way from a to b, first in the connection to b, last in the
\* one from a.
UnderWay(a, b) ==
  LET Hand(h) == IF h = NoPacket THEN <<>> ELSE <<h>>
      here(m) == IsPacket(m) /\ m.from = a /\ m.to = b /\ m.len > 0
      ToDo    == IF outThread[b] = "write" THEN Hand(outHand[b]) ELSE <<>>
  IN  SelectSeq(toGateway[b] \o ToDo \o queue[b] \o Hand(inHand[a]) \o toProxy[a], here)

LinksOf == INSTANCE ClusterLinks WITH
  IsCut  <- IsCut,
  link   <- [a \in Gateways |-> [b \in Gateways |-> UnderWay(a, b)]],
  closed <- {g \in Gateways : gateway[g] \in {"joined", "ended"}},
  told   <- {g \in Gateways : byeRead[g]},
  failed <- dead

\* The proxy gives every two clusters the link that the abstract specification
\* promises: packets arrive in order, and "bye" after all of them.
ImplementsLinks == LinksOf!Links

=============================================================================

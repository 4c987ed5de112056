--------------------------- MODULE Runtime_proofs ---------------------------
(***************************************************************************)
(* Theorems about the MPI runtime, for every job: its types, and that a    *)
(* rank that has announced its end is quiet; then the order of what is     *)
(* under way, and what follows from it; last, what the routers need.       *)
(***************************************************************************)
EXTENDS Runtime, FiniteSetTheorems, TLAPS

\* Taking and adding packets keeps a queue a queue.
LEMMA Queues ==
  ASSUME NEW S, NEW q \in Seq(S)
  PROVE  /\ q # <<>> => Head(q) \in S /\ Tail(q) \in Seq(S)
         /\ \A e \in S : Append(q, e) \in Seq(S)
         /\ <<>> \in Seq(S)
OBVIOUS

\* The constants place every node in a cluster that has a gateway.
LEMMA Topology ==
  /\ 0 \in Ranks
  /\ Ranks \subseteq Nat
  /\ \A n \in AllNodes : ClusterRank(n) \in Clusters
  /\ \A c \in Clusters : Gateway(c) \in Ranks
  /\ Nodes \subseteq AllNodes
  /\ \A f \in Filters : HostOf[f] \in AllNodes
BY RanksAssumption, FiltersAssumption
   DEF Ranks, AllNodes, ClusterRank, Clusters, Gateway, Nodes, Console

\* Every packet a filter or a main loop makes is a packet.
LEMMA PacketTyped ==
  /\ \A w, g \in Filters, n \in Nat : DcBuf(w, g, n) \in Packet
  /\ \A w, g \in Filters : RemovePutter(w, g) \in Packet
  /\ \A m, n \in AllNodes : AllDone(m, n) \in Packet
  /\ Close \in Packet
BY Topology
   DEF DcBuf, RemovePutter, AllDone, Close, Packet, PacketTypes, NoFilter, AllNodes, Console

LEMMA EntryTyped ==
  \A p \in Packet, m \in Muid : EntryOf(p, m) \in InBuf
BY DEF Packet, EntryOf, InBuf

\* The next node to announce to is never the rank itself.
LEMMA AnnounceTyped ==
  ASSUME NEW r \in Ranks
  PROVE  /\ FirstAnnounced(r) \in NotAnnounced .. NumRanks
         /\ FirstAnnounced(r) # r
         /\ FirstAnnounced(r) # NotAnnounced
         /\ \A n \in Nodes \ {r} : /\ NextAnnounced(r, n) \in NotAnnounced .. NumRanks
                                   /\ NextAnnounced(r, n) # r
                                   /\ NextAnnounced(r, n) # NotAnnounced
BY RanksAssumption
   DEF FirstAnnounced, NextAnnounced, NotAnnounced, Ranks, Nodes, Console

-----------------------------------------------------------------------------
LEMMA InitTyped == Init => TypeOK
<1> SUFFICES ASSUME Init PROVE TypeOK
  OBVIOUS
<1>1. \A f \in Filters : Writers(f) \subseteq Filters
  BY FiltersAssumption DEF Writers
<1>2. <<Close>> \in Seq(Packet) /\ <<>> \in Seq(Packet) /\ <<>> \in Seq(InBuf)
  BY PacketTyped
<1>3. putters \in [Filters -> SUBSET Filters]
  BY <1>1 DEF Init
<1>4. consoleOut \in Seq(Packet)
  BY <1>2 DEF Init
<1>5. announced \in [Ranks -> NotAnnounced .. NumRanks] /\ \A r \in Ranks : announced[r] # r
  BY RanksAssumption DEF Init, NotAnnounced, Ranks
<1>6. /\ inq \in [Filters -> Seq(InBuf)]
      /\ outq \in [Ranks -> Seq(Packet)]
      /\ chan \in [Ranks -> [Ranks -> Seq(Packet)]]
      /\ toProxy \in [Clusters -> Seq(Packet)]
      /\ proxyIn \in [Clusters -> Seq(Packet)]
      /\ toConsole \in Seq(Packet)
      /\ fromConsole \in Seq(Packet)
  BY <1>2 DEF Init
<1>7. /\ status \in [Filters -> StatusValues]
      /\ blocked \in [Filters -> Filters \cup {NoFilter}]
      /\ closed \in [Filters -> SUBSET Filters]
      /\ wrote \in [Streams -> Nat]
      /\ got \in [Streams -> Nat]
      /\ usage \in [Filters -> Int]
      /\ rtUsage \in [Ranks -> Int]
      /\ pending \in [Ranks -> SUBSET Packet]
      /\ deferred \in [Ranks -> SUBSET Ranks]
  BY DEF Init, StatusValues
<1>8. /\ fromOpen \in BOOLEAN
      /\ consoleSent \in BOOLEAN
      /\ consoleClosed \in BOOLEAN
      /\ anyRunning \in [Ranks -> BOOLEAN]
      /\ doneReceived \in [Ranks -> Nat]
      /\ routed \in [Ranks -> Nat]
      /\ exited \in [Ranks -> BOOLEAN]
  BY DEF Init
<1>9. QED
  BY <1>3, <1>4, <1>5, <1>6, <1>7, <1>8 DEF TypeOK, FilterTypes, PortTypes, MpiTypes, BridgeTypes, LoopTypes

-----------------------------------------------------------------------------
\* What the parts of an action leave behind.

LEMMA ReleaseTyped ==
  ASSUME PortTypes, NEW r, NEW m, Release(r, m)
  PROVE  usage' \in [Filters -> Int] /\ rtUsage' \in [Ranks -> Int]
<1>1. usage' \in [Filters -> Int]
  BY DEF PortTypes, Release
<1>2. CASE r \in Ranks
  BY <1>1, <1>2 DEF PortTypes, Release
<1>3. CASE r \notin Ranks
  BY <1>1, <1>3 DEF PortTypes, Release
<1>4. QED
  BY <1>2, <1>3

LEMMA ChargeBodyTyped ==
  ASSUME PortTypes, NEW r \in Ranks, NEW p, ChargeBody(r, p)
  PROVE  usage' \in [Filters -> Int] /\ rtUsage' \in [Ranks -> Int]
BY DEF PortTypes, ChargeBody

LEMMA PutPacketTyped ==
  ASSUME MpiTypes, BridgeTypes, NEW r \in AllNodes, NEW p \in Packet, PutPacket(r, p)
  PROVE  /\ outq' \in [Ranks -> Seq(Packet)]
         /\ consoleOut' \in Seq(Packet)
         /\ toConsole' \in Seq(Packet)
         /\ toProxy' \in [Clusters -> Seq(Packet)]
<1>1. CASE r = Console
  <2>0. consoleOut' = Append(consoleOut, p)
    BY <1>1 DEF PutPacket
  <2>1. outq' = outq
    BY <1>1 DEF PutPacket
  <2>2. toConsole' = toConsole
    BY <1>1 DEF PutPacket
  <2>3. toProxy' = toProxy
    BY <1>1 DEF PutPacket
  <2>4. QED
    BY <2>0, <2>1, <2>2, <2>3 DEF MpiTypes, BridgeTypes
<1>2. CASE r # Console
  <2>1. r \in Ranks /\ ClusterOf[r] \in Clusters
    BY <1>2 DEF AllNodes, Clusters
  <2>2. CASE WriterHop(r, p.reader) = "outq"
    <3>1. /\ outq' = [outq EXCEPT ![r] = Append(@, p)]
          /\ consoleOut' = consoleOut /\ toConsole' = toConsole /\ toProxy' = toProxy
      BY <1>2, <2>2 DEF PutPacket
    <3>2. QED
      BY <2>1, <3>1 DEF MpiTypes, BridgeTypes
  <2>3. CASE WriterHop(r, p.reader) = "toConsole"
    <3>1. /\ toConsole' = Append(toConsole, p)
          /\ consoleOut' = consoleOut /\ outq' = outq /\ toProxy' = toProxy
      BY <1>2, <2>3 DEF PutPacket
    <3>2. QED
      BY <3>1 DEF MpiTypes, BridgeTypes
  <2>4. CASE WriterHop(r, p.reader) = "toProxy"
    <3>1. /\ toProxy' = [toProxy EXCEPT ![ClusterOf[r]] = Append(@, p)]
          /\ consoleOut' = consoleOut /\ outq' = outq /\ toConsole' = toConsole
      BY <1>2, <2>4 DEF PutPacket
    <3>2. QED
      BY <2>1, <3>1 DEF MpiTypes, BridgeTypes
  <2>5. QED
    BY <2>2, <2>3, <2>4 DEF WriterHop
<1>3. QED
  BY <1>1, <1>2

LEMMA DeliverInTyped ==
  ASSUME PortTypes, LoopTypes, NEW r \in Ranks, NEW p \in Packet, DeliverIn(r, p)
  PROVE  /\ inq' \in [Filters -> Seq(InBuf)]
         /\ putters' \in [Filters -> SUBSET Filters]
         /\ doneReceived' \in [Ranks -> Nat]
<1>1. EntryOf(p, RuntimeMuid) \in InBuf
  BY EntryTyped DEF Muid
<1>2. doneReceived' \in [Ranks -> Nat]
  BY DEF LoopTypes, DeliverIn
<1>3. inq' \in [Filters -> Seq(InBuf)]
  <2>1. CASE p.reader \in Filters
    <3>1. Append(inq[p.reader], EntryOf(p, RuntimeMuid)) \in Seq(InBuf)
      <4>1. inq[p.reader] \in Seq(InBuf)
        BY <2>1 DEF PortTypes
      <4>2. QED
        BY <1>1, <4>1, Queues
    <3>2. \/ inq' = inq
          \/ inq' = [inq EXCEPT ![p.reader] = Append(inq[p.reader], EntryOf(p, RuntimeMuid))]
      BY DEF DeliverIn
    <3>3. QED
      BY <3>1, <3>2 DEF PortTypes
  <2>2. CASE p.reader \notin Filters
    BY <2>2 DEF PortTypes, DeliverIn
  <2>3. QED
    BY <2>1, <2>2
<1>4. putters' \in [Filters -> SUBSET Filters]
  <2>1. \/ putters' = putters
        \/ putters' = [putters EXCEPT ![p.reader] = putters[p.reader] \ {p.writer}]
    BY DEF DeliverIn
  <2>2. p.reader \in Filters => putters[p.reader] \ {p.writer} \in SUBSET Filters
    BY DEF PortTypes
  <2>3. QED
    BY <2>1, <2>2 DEF PortTypes
<1>5. QED
  BY <1>2, <1>3, <1>4

LEMMA DeliverElsewhereTyped ==
  ASSUME MpiTypes, BridgeTypes, LoopTypes, NEW r \in Ranks, NEW p \in Packet,
         NEW ch \in [Ranks -> [Ranks -> Seq(Packet)]], DeliverElsewhere(r, p, ch)
  PROVE  /\ routed' \in [Ranks -> Nat]
         /\ toConsole' \in Seq(Packet)
         /\ toProxy' \in [Clusters -> Seq(Packet)]
         /\ chan' \in [Ranks -> [Ranks -> Seq(Packet)]]
         /\ pending' \in [Ranks -> SUBSET Packet]
<1>1. ClusterOf[r] \in Clusters
  BY DEF Clusters
<1>2. routed' \in [Ranks -> Nat]
  <2>1. routed' = routed \/ routed' = [routed EXCEPT ![r] = routed[r] + 1]
    BY DEF DeliverElsewhere
  <2>2. QED
    BY <2>1 DEF LoopTypes
<1>3. toConsole' \in Seq(Packet)
  <2>1. toConsole' = toConsole \/ toConsole' = Append(toConsole, p)
    BY DEF DeliverElsewhere
  <2>2. QED
    BY <2>1, Queues DEF BridgeTypes
<1>4. toProxy' \in [Clusters -> Seq(Packet)]
  <2>1. \/ toProxy' = toProxy
        \/ toProxy' = [toProxy EXCEPT ![ClusterOf[r]] = Append(toProxy[ClusterOf[r]], p)]
    BY DEF DeliverElsewhere
  <2>2. Append(toProxy[ClusterOf[r]], p) \in Seq(Packet)
    BY <1>1, Queues DEF BridgeTypes
  <2>3. QED
    BY <1>1, <2>1, <2>2 DEF BridgeTypes
<1>5. chan' \in [Ranks -> [Ranks -> Seq(Packet)]]
  BY DEF DeliverElsewhere
<1>6. pending' \in [Ranks -> SUBSET Packet]
  BY DEF MpiTypes, DeliverElsewhere
<1>7. QED
  BY <1>2, <1>3, <1>4, <1>5, <1>6

LEMMA DeliverTyped ==
  ASSUME TypeOK, NEW r \in Ranks, NEW p \in Packet,
         NEW ch \in [Ranks -> [Ranks -> Seq(Packet)]], Deliver(r, p, ch)
  PROVE  /\ inq' \in [Filters -> Seq(InBuf)]
         /\ putters' \in [Filters -> SUBSET Filters]
         /\ doneReceived' \in [Ranks -> Nat]
         /\ routed' \in [Ranks -> Nat]
         /\ toConsole' \in Seq(Packet)
         /\ toProxy' \in [Clusters -> Seq(Packet)]
         /\ chan' \in [Ranks -> [Ranks -> Seq(Packet)]]
         /\ pending' \in [Ranks -> SUBSET Packet]
<1>1. CASE p.to = r
  BY <1>1, DeliverInTyped
     DEF Deliver, TypeOK, MpiTypes, BridgeTypes, LoopTypes
<1>2. CASE p.to # r
  BY <1>2, DeliverElsewhereTyped
     DEF Deliver, TypeOK, PortTypes, MpiTypes, BridgeTypes, LoopTypes, portVars
<1>3. QED
  BY <1>1, <1>2

LEMMA FilterBlockTyped ==
  ASSUME TypeOK, NEW w \in Filters, NEW g \in Filters, FilterBlock(w, g)
  PROVE  TypeOK'
BY DEF FilterBlock, TypeOK, FilterTypes, PortTypes, MpiTypes, BridgeTypes, LoopTypes,
       filterVars, portVars, memVars, mpiVars, consoleVars, loopVars, countVars

LEMMA FilterReadTyped ==
  ASSUME TypeOK, NEW g \in Filters, FilterRead(g)
  PROVE  TypeOK'
<1>1. FilterTypes'
  <2>1. got' = [got EXCEPT ![<<Head(inq[g]).writer, g>>] = @ + 1]
    BY DEF FilterRead
  <2>2. got' \in [Streams -> Nat]
    <3>1. CASE <<Head(inq[g]).writer, g>> \in Streams
      BY <2>1, <3>1 DEF TypeOK, FilterTypes
    <3>2. CASE <<Head(inq[g]).writer, g>> \notin Streams
      BY <2>1, <3>2 DEF TypeOK, FilterTypes
    <3>3. QED
      BY <3>1, <3>2
  <2>3. QED
    BY <2>2 DEF FilterRead, TypeOK, FilterTypes
<1>2. PortTypes'
  <2>1. inq' \in [Filters -> Seq(InBuf)]
    BY DEF FilterRead, TypeOK, PortTypes
  <2>2. usage' \in [Filters -> Int] /\ rtUsage' \in [Ranks -> Int]
    BY ReleaseTyped DEF FilterRead, TypeOK
  <2>3. QED
    BY <2>1, <2>2 DEF FilterRead, TypeOK, PortTypes
<1>3. MpiTypes' /\ BridgeTypes' /\ LoopTypes'
  BY DEF FilterRead, TypeOK, MpiTypes, BridgeTypes, LoopTypes,
         mpiVars, consoleVars, loopVars, countVars
<1>4. QED
  BY <1>1, <1>2, <1>3 DEF TypeOK

LEMMA FilterReturnTyped ==
  ASSUME TypeOK, NEW f \in Filters, FilterReturn(f)
  PROVE  TypeOK'
BY DEF FilterReturn, TypeOK, FilterTypes, PortTypes, MpiTypes, BridgeTypes, LoopTypes,
       filterVars, portVars, memVars, mpiVars, consoleVars, loopVars, countVars, StatusValues

LEMMA FilterEraseTyped ==
  ASSUME TypeOK, NEW f \in Filters, FilterErase(f)
  PROVE  TypeOK'
BY DEF FilterErase, TypeOK, FilterTypes, PortTypes, MpiTypes, BridgeTypes, LoopTypes,
       filterVars, portVars, memVars, mpiVars, consoleVars, loopVars, countVars, StatusValues

LEMMA CheckFiltersTyped ==
  ASSUME TypeOK, NEW r \in Ranks, CheckFilters(r)
  PROVE  TypeOK'
BY DEF CheckFilters, TypeOK, FilterTypes, PortTypes, MpiTypes, BridgeTypes, LoopTypes,
       filterVars, portVars, memVars, mpiVars, consoleVars, loopVars, countVars

LEMMA AnnounceStepTyped ==
  ASSUME TypeOK, NEW r \in Ranks, Announce(r)
  PROVE  TypeOK'
<1>1. LoopTypes'
  <2>1. announced' = [announced EXCEPT ![r] = FirstAnnounced(r)]
    BY DEF Announce
  <2>2. /\ announced' \in [Ranks -> NotAnnounced .. NumRanks]
        /\ \A s \in Ranks : announced'[s] # s
    BY <2>1, AnnounceTyped DEF TypeOK, LoopTypes
  <2>3. QED
    BY <2>2 DEF Announce, TypeOK, LoopTypes, countVars
<1>2. FilterTypes' /\ PortTypes' /\ MpiTypes' /\ BridgeTypes'
  BY DEF Announce, TypeOK, FilterTypes, PortTypes, MpiTypes, BridgeTypes,
         filterVars, portVars, memVars, mpiVars, consoleVars
<1>3. QED
  BY <1>1, <1>2 DEF TypeOK

LEMMA ExitTyped ==
  ASSUME TypeOK, NEW r \in Ranks, Exit(r)
  PROVE  TypeOK'
BY DEF Exit, TypeOK, FilterTypes, PortTypes, MpiTypes, BridgeTypes, LoopTypes,
       filterVars, portVars, memVars, mpiVars, consoleVars, loopVars, countVars

LEMMA DeferTyped ==
  ASSUME TypeOK, NEW i \in Ranks, NEW r \in Ranks, Defer(i, r)
  PROVE  TypeOK'
BY DEF Defer, TypeOK, FilterTypes, PortTypes, MpiTypes, BridgeTypes, LoopTypes,
       filterVars, portVars, memVars, mpiVars, consoleVars, loopVars, countVars

LEMMA FinishSendTyped ==
  ASSUME TypeOK, NEW r \in Ranks, NEW p, FinishSend(r, p)
  PROVE  TypeOK'
BY ReleaseTyped DEF FinishSend, TypeOK, FilterTypes, PortTypes, MpiTypes, BridgeTypes, LoopTypes,
       filterVars, portVars, memVars, mpiVars, consoleVars, loopVars, countVars

LEMMA CloseConsoleTyped ==
  ASSUME TypeOK, CloseConsole
  PROVE  TypeOK'
BY DEF CloseConsole, TypeOK, FilterTypes, PortTypes, MpiTypes, BridgeTypes, LoopTypes,
       filterVars, portVars, memVars, mpiVars, consoleVars, loopVars, countVars

LEMMA FilterWriteTyped ==
  ASSUME TypeOK, NEW w \in Filters, NEW g \in Filters, FilterWrite(w, g)
  PROVE  TypeOK'
<1> DEFINE p == DcBuf(w, g, wrote[<<w, g>>] + 1)
<1>1. p \in Packet /\ EntryOf(p, w) \in InBuf
  <2>1. wrote[<<w, g>>] + 1 \in Nat
    BY DEF FilterWrite, TypeOK, FilterTypes
  <2>2. QED
    BY <2>1, PacketTyped, EntryTyped DEF Muid
<1>2. FilterTypes'
  BY DEF FilterWrite, TypeOK, FilterTypes
<1>3. usage' \in [Filters -> Int]
  BY DEF FilterWrite, TypeOK, PortTypes
<1>4. CASE HostOf[w] = HostOf[g]
  <2>1. inq' \in [Filters -> Seq(InBuf)]
    <3>1. inq' = [inq EXCEPT ![g] = Append(@, EntryOf(p, w))]
      BY <1>4 DEF FilterWrite
    <3>2. QED
      BY <1>1, <3>1, Queues DEF TypeOK, PortTypes
  <2>2. PortTypes'
    BY <1>3, <2>1 DEF FilterWrite, TypeOK, PortTypes
  <2>3. outq' = outq /\ consoleOut' = consoleOut /\ toConsole' = toConsole /\ toProxy' = toProxy
    BY <1>4 DEF FilterWrite
  <2>4. MpiTypes' /\ BridgeTypes'
    BY <2>3 DEF FilterWrite, TypeOK, MpiTypes, BridgeTypes
  <2>5. QED
    BY <1>2, <2>2, <2>4 DEF FilterWrite, TypeOK, LoopTypes, loopVars, countVars
<1>5. CASE HostOf[w] # HostOf[g]
  <2>1. PutPacket(HostOf[w], p) /\ inq' = inq
    BY <1>5 DEF FilterWrite
  <2>2. PortTypes'
    BY <1>3, <2>1 DEF FilterWrite, TypeOK, PortTypes
  <2>3. /\ outq' \in [Ranks -> Seq(Packet)]
        /\ consoleOut' \in Seq(Packet)
        /\ toConsole' \in Seq(Packet)
        /\ toProxy' \in [Clusters -> Seq(Packet)]
    BY <1>1, <2>1, PutPacketTyped, Topology DEF TypeOK
  <2>4. MpiTypes' /\ BridgeTypes'
    BY <2>3 DEF FilterWrite, TypeOK, MpiTypes, BridgeTypes
  <2>5. QED
    BY <1>2, <2>2, <2>4 DEF FilterWrite, TypeOK, LoopTypes, loopVars, countVars
<1>6. QED
  BY <1>4, <1>5

LEMMA FilterCloseTyped ==
  ASSUME TypeOK, NEW w \in Filters, NEW g \in Filters, FilterClose(w, g)
  PROVE  TypeOK'
<1>1. FilterTypes'
  BY DEF FilterClose, TypeOK, FilterTypes
<1>2. LoopTypes'
  BY DEF FilterClose, TypeOK, LoopTypes, loopVars, countVars
<1>3. CASE HostOf[w] = HostOf[g]
  <2>1. /\ putters' = [putters EXCEPT ![g] = @ \ {w}]
        /\ outq' = outq /\ consoleOut' = consoleOut /\ toConsole' = toConsole /\ toProxy' = toProxy
    BY <1>3 DEF FilterClose
  <2>2. PortTypes'
    BY <2>1 DEF FilterClose, TypeOK, PortTypes, memVars
  <2>3. MpiTypes' /\ BridgeTypes'
    BY <2>1 DEF FilterClose, TypeOK, MpiTypes, BridgeTypes
  <2>4. QED
    BY <1>1, <1>2, <2>2, <2>3 DEF TypeOK
<1>4. CASE HostOf[w] # HostOf[g]
  <2>1. PutPacket(HostOf[w], RemovePutter(w, g)) /\ putters' = putters
    BY <1>4 DEF FilterClose
  <2>2. /\ outq' \in [Ranks -> Seq(Packet)]
        /\ consoleOut' \in Seq(Packet)
        /\ toConsole' \in Seq(Packet)
        /\ toProxy' \in [Clusters -> Seq(Packet)]
    BY <2>1, PacketTyped, PutPacketTyped, Topology DEF TypeOK
  <2>3. PortTypes'
    BY <2>1 DEF FilterClose, TypeOK, PortTypes, memVars
  <2>4. MpiTypes' /\ BridgeTypes'
    BY <2>2 DEF FilterClose, TypeOK, MpiTypes, BridgeTypes
  <2>5. QED
    BY <1>1, <1>2, <2>3, <2>4 DEF TypeOK
<1>5. QED
  BY <1>3, <1>4

LEMMA AnnounceNextTyped ==
  ASSUME TypeOK, NEW r \in Ranks, AnnounceNext(r)
  PROVE  TypeOK'
<1>1. announced[r] \in Nodes \ {r} /\ AllDone(r, announced[r]) \in Packet
  <2>1. announced[r] \in Nodes
    BY DEF AnnounceNext, Announcing
  <2>2. announced[r] # r
    BY DEF TypeOK, LoopTypes
  <2>3. r \in AllNodes /\ announced[r] \in AllNodes
    BY <2>1, Topology DEF AllNodes
  <2>4. QED
    BY <2>1, <2>2, <2>3, PacketTyped
<1>2. /\ routed' \in [Ranks -> Nat]
      /\ toConsole' \in Seq(Packet)
      /\ toProxy' \in [Clusters -> Seq(Packet)]
      /\ chan' \in [Ranks -> [Ranks -> Seq(Packet)]]
      /\ pending' \in [Ranks -> SUBSET Packet]
  <2>1. DeliverElsewhere(r, AllDone(r, announced[r]), chan)
    BY DEF AnnounceNext
  <2>2. chan \in [Ranks -> [Ranks -> Seq(Packet)]]
    BY DEF TypeOK, MpiTypes
  <2>3. QED
    BY <1>1, <2>1, <2>2, DeliverElsewhereTyped DEF TypeOK
<1>3. /\ announced' \in [Ranks -> NotAnnounced .. NumRanks]
      /\ \A s \in Ranks : announced'[s] # s
  <2>1. announced' = [announced EXCEPT ![r] = NextAnnounced(r, announced[r])]
    BY DEF AnnounceNext
  <2>2. QED
    BY <1>1, <2>1, AnnounceTyped DEF TypeOK, LoopTypes
<1>4. FilterTypes' /\ PortTypes'
  BY DEF AnnounceNext, TypeOK, FilterTypes, PortTypes, filterVars, portVars, memVars
<1>5. MpiTypes' /\ BridgeTypes' /\ LoopTypes'
  BY <1>2, <1>3 DEF AnnounceNext, TypeOK, MpiTypes, BridgeTypes, LoopTypes, consoleVars
<1>6. QED
  BY <1>4, <1>5 DEF TypeOK

LEMMA StartSendTyped ==
  ASSUME TypeOK, NEW r \in Ranks, StartSend(r)
  PROVE  TypeOK'
<1>1. Head(outq[r]) \in Packet /\ outq' \in [Ranks -> Seq(Packet)]
  BY Queues DEF StartSend, TypeOK, MpiTypes
<1>2. /\ routed' \in [Ranks -> Nat]
      /\ toConsole' \in Seq(Packet)
      /\ toProxy' \in [Clusters -> Seq(Packet)]
      /\ chan' \in [Ranks -> [Ranks -> Seq(Packet)]]
      /\ pending' \in [Ranks -> SUBSET Packet]
  <2>1. DeliverElsewhere(r, Head(outq[r]), chan)
    BY DEF StartSend
  <2>2. chan \in [Ranks -> [Ranks -> Seq(Packet)]]
    BY DEF TypeOK, MpiTypes
  <2>3. QED
    BY <1>1, <2>1, <2>2, DeliverElsewhereTyped DEF TypeOK
<1>3. FilterTypes' /\ PortTypes'
  BY DEF StartSend, TypeOK, FilterTypes, PortTypes, filterVars, portVars, memVars
<1>4. MpiTypes' /\ BridgeTypes' /\ LoopTypes'
  BY <1>1, <1>2 DEF StartSend, TypeOK, MpiTypes, BridgeTypes, LoopTypes, consoleVars, loopVars
<1>5. QED
  BY <1>3, <1>4 DEF TypeOK

LEMMA ReceiveTyped ==
  ASSUME TypeOK, NEW i \in Ranks, NEW r \in Ranks, Receive(i, r)
  PROVE  TypeOK'
<1> DEFINE p == Head(chan[i][r])
           ch == [chan EXCEPT ![i][r] = Tail(@)]
<1>1. p \in Packet /\ ch \in [Ranks -> [Ranks -> Seq(Packet)]]
  <2>1. chan[i][r] \in Seq(Packet) /\ chan[i][r] # <<>>
    BY DEF Receive, TypeOK, MpiTypes
  <2>2. p \in Packet /\ Tail(chan[i][r]) \in Seq(Packet)
    BY <2>1, Queues
  <2>3. QED
    BY <2>2 DEF TypeOK, MpiTypes
<1>2. /\ inq' \in [Filters -> Seq(InBuf)]
      /\ putters' \in [Filters -> SUBSET Filters]
      /\ doneReceived' \in [Ranks -> Nat]
      /\ routed' \in [Ranks -> Nat]
      /\ toConsole' \in Seq(Packet)
      /\ toProxy' \in [Clusters -> Seq(Packet)]
      /\ chan' \in [Ranks -> [Ranks -> Seq(Packet)]]
      /\ pending' \in [Ranks -> SUBSET Packet]
  <2>1. Deliver(r, p, ch)
    BY DEF Receive
  <2>2. QED
    BY <1>1, <2>1, DeliverTyped
<1>3. usage' \in [Filters -> Int] /\ rtUsage' \in [Ranks -> Int]
  BY ChargeBodyTyped DEF Receive, TypeOK
<1>4. deferred' \in [Ranks -> SUBSET Ranks]
  BY DEF Receive, TypeOK, MpiTypes
<1>5. FilterTypes' /\ PortTypes'
  BY <1>2, <1>3 DEF Receive, TypeOK, FilterTypes, PortTypes, filterVars
<1>6. MpiTypes' /\ BridgeTypes' /\ LoopTypes'
  BY <1>2, <1>4 DEF Receive, TypeOK, MpiTypes, BridgeTypes, LoopTypes, consoleVars, loopVars
<1>7. QED
  BY <1>5, <1>6 DEF TypeOK

LEMMA HandleConsoleTyped ==
  ASSUME TypeOK, NEW r \in Ranks, HandleConsole(r)
  PROVE  TypeOK'
<1>1. Head(fromConsole) \in Packet /\ fromConsole' \in Seq(Packet)
  BY Queues DEF HandleConsole, TypeOK, BridgeTypes
<1>2. /\ inq' \in [Filters -> Seq(InBuf)]
      /\ putters' \in [Filters -> SUBSET Filters]
      /\ doneReceived' \in [Ranks -> Nat]
      /\ routed' \in [Ranks -> Nat]
      /\ toConsole' \in Seq(Packet)
      /\ toProxy' \in [Clusters -> Seq(Packet)]
      /\ chan' \in [Ranks -> [Ranks -> Seq(Packet)]]
      /\ pending' \in [Ranks -> SUBSET Packet]
  <2>1. Deliver(r, Head(fromConsole), chan)
    BY DEF HandleConsole
  <2>2. chan \in [Ranks -> [Ranks -> Seq(Packet)]]
    BY DEF TypeOK, MpiTypes
  <2>3. QED
    BY <1>1, <2>1, <2>2, DeliverTyped
<1>3. FilterTypes' /\ PortTypes'
  BY <1>2 DEF HandleConsole, TypeOK, FilterTypes, PortTypes, filterVars, memVars
<1>4. MpiTypes' /\ BridgeTypes' /\ LoopTypes'
  BY <1>1, <1>2 DEF HandleConsole, TypeOK, MpiTypes, BridgeTypes, LoopTypes, loopVars
<1>5. QED
  BY <1>3, <1>4 DEF TypeOK

LEMMA HandleProxyTyped ==
  ASSUME TypeOK, NEW r \in Ranks, HandleProxy(r)
  PROVE  TypeOK'
<1> DEFINE c == ClusterOf[r]
<1>1. c \in Clusters
  BY DEF Clusters
<1>2. Head(proxyIn[c]) \in Packet /\ proxyIn' \in [Clusters -> Seq(Packet)]
  <2>1. proxyIn[c] \in Seq(Packet) /\ proxyIn[c] # <<>>
    BY <1>1 DEF HandleProxy, TypeOK, BridgeTypes
  <2>2. Head(proxyIn[c]) \in Packet /\ Tail(proxyIn[c]) \in Seq(Packet)
    BY <2>1, Queues
  <2>3. proxyIn' = [proxyIn EXCEPT ![c] = Tail(@)]
    BY DEF HandleProxy
  <2>4. QED
    BY <1>1, <2>2, <2>3 DEF TypeOK, BridgeTypes
<1>3. /\ inq' \in [Filters -> Seq(InBuf)]
      /\ putters' \in [Filters -> SUBSET Filters]
      /\ doneReceived' \in [Ranks -> Nat]
      /\ routed' \in [Ranks -> Nat]
      /\ toConsole' \in Seq(Packet)
      /\ toProxy' \in [Clusters -> Seq(Packet)]
      /\ chan' \in [Ranks -> [Ranks -> Seq(Packet)]]
      /\ pending' \in [Ranks -> SUBSET Packet]
  <2>1. Deliver(r, Head(proxyIn[c]), chan)
    BY DEF HandleProxy
  <2>2. chan \in [Ranks -> [Ranks -> Seq(Packet)]]
    BY DEF TypeOK, MpiTypes
  <2>3. QED
    BY <1>2, <2>1, <2>2, DeliverTyped
<1>4. usage' \in [Filters -> Int] /\ rtUsage' \in [Ranks -> Int]
  BY ChargeBodyTyped DEF HandleProxy, TypeOK
<1>5. FilterTypes' /\ PortTypes'
  BY <1>3, <1>4 DEF HandleProxy, TypeOK, FilterTypes, PortTypes, filterVars
<1>6. MpiTypes' /\ BridgeTypes' /\ LoopTypes'
  BY <1>2, <1>3 DEF HandleProxy, TypeOK, MpiTypes, BridgeTypes, LoopTypes, consoleVars, loopVars
<1>7. QED
  BY <1>5, <1>6 DEF TypeOK

LEMMA ToConsoleThreadTyped ==
  ASSUME TypeOK, ToConsoleThread
  PROVE  TypeOK'
<1> DEFINE p == Head(toConsole)
<1>1. p \in Packet /\ toConsole' \in Seq(Packet)
  BY Queues DEF ToConsoleThread, TypeOK, BridgeTypes
<1>2. EntryOf(p, NoMuid) \in InBuf
  BY <1>1, EntryTyped DEF Muid
<1>3. usage' \in [Filters -> Int] /\ rtUsage' \in [Ranks -> Int]
  BY ReleaseTyped DEF ToConsoleThread, TypeOK
<1>4. inq' \in [Filters -> Seq(InBuf)] /\ putters' \in [Filters -> SUBSET Filters]
  <2>1. /\ inq' = IF p.type = "DCBUF"
                  THEN [inq EXCEPT ![p.reader] = Append(@, EntryOf(p, NoMuid))] ELSE inq
        /\ putters' = IF p.type = "REMOVE_PUTTER"
                      THEN [putters EXCEPT ![p.reader] = @ \ {p.writer}] ELSE putters
    BY DEF ToConsoleThread
  <2>2. CASE p.reader \in Filters
    BY <1>2, <2>1, <2>2 DEF TypeOK, PortTypes
  <2>3. CASE p.reader \notin Filters
    BY <2>1, <2>3 DEF TypeOK, PortTypes
  <2>4. QED
    BY <2>2, <2>3
<1>5. PortTypes'
  BY <1>3, <1>4 DEF PortTypes
<1>6. FilterTypes' /\ MpiTypes' /\ BridgeTypes' /\ LoopTypes'
  BY <1>1 DEF ToConsoleThread, TypeOK, FilterTypes, MpiTypes, BridgeTypes, LoopTypes,
              filterVars, mpiVars, consoleVars, loopVars, countVars
<1>7. QED
  BY <1>5, <1>6 DEF TypeOK

LEMMA ConsoleFinishTyped ==
  ASSUME TypeOK, ConsoleFinish
  PROVE  TypeOK'
<1> DEFINE done == [i \in 1 .. NumRanks |-> AllDone(Console, i - 1)]
<1>1. done \in Seq(Packet)
  <2>1. NumRanks \in Nat
    BY RanksAssumption
  <2>2. \A i \in 1 .. NumRanks : i - 1 \in AllNodes /\ Console \in AllNodes
    BY <2>1 DEF AllNodes, Ranks
  <2>3. \A i \in 1 .. NumRanks : AllDone(Console, i - 1) \in Packet
    BY <2>2, PacketTyped
  <2>4. QED
    BY <2>1, <2>3
<1>2. consoleOut \o done \in Seq(Packet)
  BY <1>1 DEF TypeOK, BridgeTypes
<1>3. consoleOut' \in Seq(Packet)
  <2>1. consoleOut' = Append(consoleOut \o done, Close)
    BY DEF ConsoleFinish
  <2>2. QED
    BY <1>2, <2>1, PacketTyped, Queues
<1>4. FilterTypes' /\ PortTypes' /\ MpiTypes' /\ BridgeTypes' /\ LoopTypes'
  BY <1>3 DEF ConsoleFinish, TypeOK, FilterTypes, PortTypes, MpiTypes, BridgeTypes, LoopTypes,
              filterVars, portVars, memVars, mpiVars, loopVars, countVars
<1>5. QED
  BY <1>4 DEF TypeOK

LEMMA FromConsoleThreadTyped ==
  ASSUME TypeOK, FromConsoleThread
  PROVE  TypeOK'
<1> DEFINE p == Head(consoleOut)
<1>1. p \in Packet /\ consoleOut' \in Seq(Packet)
  BY Queues DEF FromConsoleThread, TypeOK, BridgeTypes
<1>2. usage' \in [Filters -> Int] /\ rtUsage' \in [Ranks -> Int]
  BY Topology, ChargeBodyTyped DEF FromConsoleThread, TypeOK
<1>3. fromConsole' \in Seq(Packet) /\ fromOpen' \in BOOLEAN
  BY <1>1 DEF FromConsoleThread, TypeOK, BridgeTypes
<1>4. PortTypes'
  BY <1>2 DEF FromConsoleThread, TypeOK, PortTypes, portVars
<1>5. FilterTypes' /\ MpiTypes' /\ BridgeTypes' /\ LoopTypes'
  BY <1>1, <1>3 DEF FromConsoleThread, TypeOK, FilterTypes, MpiTypes, BridgeTypes, LoopTypes,
                    filterVars, mpiVars, loopVars, countVars
<1>6. QED
  BY <1>4, <1>5 DEF TypeOK

LEMMA ProxyWriterTyped ==
  ASSUME TypeOK, NEW c \in Clusters, ProxyWriter(c)
  PROVE  TypeOK'
<1> DEFINE p == Head(toProxy[c])
<1>1. p \in Packet /\ toProxy' \in [Clusters -> Seq(Packet)]
  BY Queues DEF ProxyWriter, TypeOK, BridgeTypes
<1>2. proxyIn' \in [Clusters -> Seq(Packet)]
  <2>1. proxyIn' = [proxyIn EXCEPT ![ClusterRank(p.to)] = Append(@, p)]
    BY DEF ProxyWriter
  <2>2. ClusterRank(p.to) \in Clusters
    BY <1>1, Topology DEF Packet
  <2>3. QED
    BY <1>1, <2>1, <2>2 DEF TypeOK, BridgeTypes
<1>3. usage' \in [Filters -> Int] /\ rtUsage' \in [Ranks -> Int]
  BY ReleaseTyped DEF ProxyWriter, TypeOK
<1>4. PortTypes'
  BY <1>3 DEF ProxyWriter, TypeOK, PortTypes, portVars
<1>5. FilterTypes' /\ MpiTypes' /\ BridgeTypes' /\ LoopTypes'
  BY <1>1, <1>2 DEF ProxyWriter, TypeOK, FilterTypes, MpiTypes, BridgeTypes, LoopTypes,
                    filterVars, mpiVars, consoleVars, loopVars, countVars
<1>6. QED
  BY <1>4, <1>5 DEF TypeOK

LEMMA StutterTyped ==
  ASSUME TypeOK, UNCHANGED vars
  PROVE  TypeOK'
BY DEF vars, TypeOK, FilterTypes, PortTypes, MpiTypes, BridgeTypes, LoopTypes,
       filterVars, portVars, memVars, mpiVars, consoleVars, loopVars, countVars

LEMMA NextTyped ==
  ASSUME TypeOK, [Next]_vars
  PROVE  TypeOK'
<1>1. \A s \in Streams : s[1] \in Filters /\ s[2] \in Filters
  BY FiltersAssumption
<1>2. ASSUME NEW s \in Streams,
             FilterBlock(s[1], s[2]) \/ FilterWrite(s[1], s[2]) \/ FilterClose(s[1], s[2])
      PROVE  TypeOK'
  BY <1>1, <1>2, FilterBlockTyped, FilterWriteTyped, FilterCloseTyped
<1>3. ASSUME NEW f \in Filters, FilterRead(f) \/ FilterReturn(f) \/ FilterErase(f)
      PROVE  TypeOK'
  BY <1>3, FilterReadTyped, FilterReturnTyped, FilterEraseTyped
<1>4. ASSUME NEW r \in Ranks,
             \/ CheckFilters(r) \/ Announce(r) \/ AnnounceNext(r) \/ Exit(r) \/ StartSend(r)
             \/ \E p \in pending[r] : FinishSend(r, p)
             \/ HandleConsole(r) \/ HandleProxy(r)
      PROVE  TypeOK'
  BY <1>4, CheckFiltersTyped, AnnounceStepTyped, AnnounceNextTyped, ExitTyped, StartSendTyped,
     FinishSendTyped, HandleConsoleTyped, HandleProxyTyped
<1>5. ASSUME NEW i \in Ranks, NEW r \in Ranks, Receive(i, r) \/ Defer(i, r)
      PROVE  TypeOK'
  BY <1>5, ReceiveTyped, DeferTyped
<1>6. ASSUME NEW c \in Clusters, ProxyWriter(c)
      PROVE  TypeOK'
  BY <1>6, ProxyWriterTyped
<1>7. CASE ToConsoleThread \/ CloseConsole \/ ConsoleFinish \/ FromConsoleThread
  BY <1>7, ToConsoleThreadTyped, CloseConsoleTyped, ConsoleFinishTyped, FromConsoleThreadTyped
<1>8. CASE UNCHANGED vars
  BY <1>8, StutterTyped
<1>9. CASE Idle
  BY <1>9, StutterTyped DEF Idle
<1>10. QED
  BY <1>2, <1>3, <1>4, <1>5, <1>6, <1>7, <1>8, <1>9 DEF Next

\* Every reachable state of every job is well typed; in particular no rank
\* addresses a done packet to itself (dcmpiruntime.cpp:566-579).
THEOREM TypeCorrect == Spec => []TypeOK
<1>1. TypeOK /\ [Next]_vars => TypeOK'
  BY NextTyped
<1>2. QED
  BY <1>1, InitTyped, PTL DEF Spec

-----------------------------------------------------------------------------
(* A rank that has announced that its filters are done is quiet.  Announce *)
(* looks at any_of_my_filters_running, not at the filters, so the          *)
(* inductive invariant adds what the flag stands for.                      *)

FlagIsRight ==
  \A r \in Ranks : ~anyRunning[r] => \A f \in FiltersOn(r) : status[f] = "erased"

AnnouncedIsIdle ==
  \A r \in Ranks : SentDone(r) => ~anyRunning[r] /\ outq[r] = <<>>

QuietInv == FlagIsRight /\ AnnouncedIsIdle

LEMMA QuietFromInv == QuietInv => QuietOnceAnnounced
BY DEF QuietInv, FlagIsRight, AnnouncedIsIdle, QuietOnceAnnounced

\* A step that touches none of the four variables cannot disturb it.
LEMMA QuietFrame ==
  ASSUME QuietInv, UNCHANGED <<status, outq, anyRunning, announced>>
  PROVE  QuietInv'
BY DEF QuietInv, FlagIsRight, AnnouncedIsIdle, SentDone

\* A thread that has not been erased runs on a rank that has not announced.
LEMMA LiveFilterNotAnnounced ==
  ASSUME QuietInv, NEW f \in Filters, HostOf[f] \in Ranks, status[f] # "erased"
  PROVE  anyRunning[HostOf[f]] /\ ~SentDone(HostOf[f])
BY DEF QuietInv, FlagIsRight, AnnouncedIsIdle, FiltersOn

\* Only the writer's own rank gets a packet on its out-queue.
LEMMA PutPacketOutq ==
  ASSUME MpiTypes, NEW n \in AllNodes, NEW p, PutPacket(n, p)
  PROVE  \A r \in Ranks : r # n => outq'[r] = outq[r]
<1>1. CASE outq' = outq
  BY <1>1
<1>2. CASE n # Console /\ outq' = [outq EXCEPT ![n] = Append(@, p)]
  BY <1>2 DEF MpiTypes
<1>3. QED
  BY <1>1, <1>2 DEF PutPacket

LEMMA FilterWriteQuiet ==
  ASSUME TypeOK, QuietInv, NEW w \in Filters, NEW g \in Filters,
         FilterWrite(w, g) \/ FilterClose(w, g)
  PROVE  QuietInv'
<1>1. status' = status /\ anyRunning' = anyRunning /\ announced' = announced
  BY DEF FilterWrite, FilterClose, loopVars
<1>2. status[w] # "erased"
  BY DEF FilterWrite, FilterClose
<1>3. FlagIsRight'
  BY <1>1 DEF QuietInv, FlagIsRight
<1>4. CASE outq' = outq
  BY <1>1, <1>4, QuietFrame
<1>5. CASE \E p : PutPacket(HostOf[w], p)
  <2>1. \A r \in Ranks : r # HostOf[w] => outq'[r] = outq[r]
    BY <1>5, PutPacketOutq, Topology DEF TypeOK
  <2>2. SUFFICES ASSUME NEW r \in Ranks, SentDone(r)'
                 PROVE  ~anyRunning'[r] /\ outq'[r] = <<>>
    BY <1>3 DEF QuietInv, AnnouncedIsIdle
  <2>3. SentDone(r) /\ ~anyRunning[r] /\ outq[r] = <<>>
    BY <1>1, <2>2 DEF SentDone, QuietInv, AnnouncedIsIdle
  <2>4. r # HostOf[w]
    BY <1>2, <2>3, LiveFilterNotAnnounced
  <2>5. QED
    BY <1>1, <2>1, <2>3, <2>4
<1>6. QED
  BY <1>4, <1>5 DEF FilterWrite, FilterClose

LEMMA FilterReturnQuiet ==
  ASSUME TypeOK, QuietInv, NEW f \in Filters, FilterReturn(f) \/ FilterErase(f)
  PROVE  QuietInv'
<1>1. outq' = outq /\ anyRunning' = anyRunning /\ announced' = announced
  BY DEF FilterReturn, FilterErase, mpiVars, loopVars
<1>2. \A g \in Filters : status[g] = "erased" => status'[g] = "erased"
  BY DEF FilterReturn, FilterErase, TypeOK, FilterTypes
<1>3. QED
  BY <1>1, <1>2 DEF QuietInv, FlagIsRight, AnnouncedIsIdle, SentDone, FiltersOn

LEMMA CheckFiltersQuiet ==
  ASSUME TypeOK, QuietInv, NEW r \in Ranks, CheckFilters(r)
  PROVE  QuietInv'
<1>1. status' = status /\ outq' = outq /\ announced' = announced
  BY DEF CheckFilters, filterVars, mpiVars
<1>2. anyRunning' = [anyRunning EXCEPT ![r] = FALSE]
  BY DEF CheckFilters
<1>3. \A f \in FiltersOn(r) : status[f] = "erased"
  BY DEF CheckFilters
<1>4. \A s \in Ranks : anyRunning'[s] = IF s = r THEN FALSE ELSE anyRunning[s]
  BY <1>2 DEF TypeOK, LoopTypes
<1>5. FlagIsRight'
  BY <1>1, <1>3, <1>4 DEF QuietInv, FlagIsRight
<1>6. AnnouncedIsIdle'
  BY <1>1, <1>4 DEF QuietInv, AnnouncedIsIdle, SentDone
<1>7. QED
  BY <1>5, <1>6 DEF QuietInv

LEMMA AnnounceQuiet ==
  ASSUME TypeOK, QuietInv, NEW r \in Ranks, Announce(r) \/ AnnounceNext(r)
  PROVE  QuietInv'
<1>1. status' = status /\ outq' = outq /\ anyRunning' = anyRunning
  BY DEF Announce, AnnounceNext, filterVars, mpiVars
<1>2. \A s \in Ranks : s # r => announced'[s] = announced[s]
  BY DEF Announce, AnnounceNext, TypeOK, LoopTypes
<1>3. ~anyRunning[r] /\ outq[r] = <<>>
  <2>1. CASE Announce(r)
    BY <2>1 DEF Announce
  <2>2. CASE AnnounceNext(r)
    <3>1. announced[r] \in Nodes
      BY <2>2 DEF AnnounceNext, Announcing
    <3>2. SentDone(r)
      BY <3>1, Topology DEF SentDone, NotAnnounced, AllNodes, Console
    <3>3. QED
      BY <3>2 DEF QuietInv, AnnouncedIsIdle
  <2>3. QED
    BY <2>1, <2>2
<1>4. FlagIsRight'
  BY <1>1 DEF QuietInv, FlagIsRight
<1>5. AnnouncedIsIdle'
  BY <1>1, <1>2, <1>3 DEF QuietInv, AnnouncedIsIdle, SentDone
<1>6. QED
  BY <1>4, <1>5 DEF QuietInv

LEMMA StartSendQuiet ==
  ASSUME TypeOK, QuietInv, NEW r \in Ranks, StartSend(r)
  PROVE  QuietInv'
<1>1. status' = status /\ anyRunning' = anyRunning /\ announced' = announced
  BY DEF StartSend, filterVars, loopVars
<1>2. ~SentDone(r)
  BY DEF StartSend, QuietInv, AnnouncedIsIdle
<1>3. \A s \in Ranks : s # r => outq'[s] = outq[s]
  BY DEF StartSend, TypeOK, MpiTypes
<1>4. FlagIsRight'
  BY <1>1 DEF QuietInv, FlagIsRight
<1>5. AnnouncedIsIdle'
  BY <1>1, <1>2, <1>3 DEF QuietInv, AnnouncedIsIdle, SentDone
<1>6. QED
  BY <1>4, <1>5 DEF QuietInv

LEMMA NextQuiet ==
  ASSUME TypeOK, QuietInv, [Next]_vars
  PROVE  QuietInv'
<1>1. \A s \in Streams : s[1] \in Filters /\ s[2] \in Filters
  BY FiltersAssumption
<1>2. ASSUME NEW s \in Streams,
             FilterWrite(s[1], s[2]) \/ FilterClose(s[1], s[2])
      PROVE  QuietInv'
  BY <1>1, <1>2, FilterWriteQuiet
<1>3. ASSUME NEW w, NEW g, FilterBlock(w, g)
      PROVE  QuietInv'
  BY <1>3, QuietFrame DEF FilterBlock, mpiVars, loopVars
<1>4. ASSUME NEW f \in Filters, FilterRead(f) \/ FilterReturn(f) \/ FilterErase(f)
      PROVE  QuietInv'
  <2>1. CASE FilterRead(f)
    BY <2>1, QuietFrame DEF FilterRead, mpiVars, loopVars
  <2>2. CASE FilterReturn(f) \/ FilterErase(f)
    BY <2>2, FilterReturnQuiet
  <2>3. QED
    BY <1>4, <2>1, <2>2
<1>5. ASSUME NEW r \in Ranks,
             \/ CheckFilters(r) \/ Announce(r) \/ AnnounceNext(r) \/ Exit(r) \/ StartSend(r)
             \/ \E p \in pending[r] : FinishSend(r, p)
             \/ HandleConsole(r) \/ HandleProxy(r)
      PROVE  QuietInv'
  <2>1. CASE Exit(r)
    BY <2>1, QuietFrame DEF Exit, filterVars, mpiVars
  <2>2. CASE \E p \in pending[r] : FinishSend(r, p)
    BY <2>2, QuietFrame DEF FinishSend, filterVars, loopVars
  <2>3. CASE HandleConsole(r) \/ HandleProxy(r)
    BY <2>3, QuietFrame DEF HandleConsole, HandleProxy, filterVars, loopVars
  <2>4. QED
    BY <1>5, <2>1, <2>2, <2>3, CheckFiltersQuiet, AnnounceQuiet, StartSendQuiet
<1>6. ASSUME NEW i \in Ranks, NEW r \in Ranks, Receive(i, r) \/ Defer(i, r)
      PROVE  QuietInv'
  BY <1>6, QuietFrame DEF Receive, Defer, filterVars, mpiVars, loopVars
<1>7. ASSUME NEW c \in Clusters, ProxyWriter(c)
      PROVE  QuietInv'
  BY <1>7, QuietFrame DEF ProxyWriter, filterVars, mpiVars, loopVars
<1>8. CASE ToConsoleThread \/ CloseConsole \/ ConsoleFinish \/ FromConsoleThread
  BY <1>8, QuietFrame
     DEF ToConsoleThread, CloseConsole, ConsoleFinish, FromConsoleThread,
         filterVars, mpiVars, loopVars
<1>9. CASE UNCHANGED vars
  BY <1>9, QuietFrame DEF vars, filterVars, mpiVars, loopVars
<1>10. CASE Idle
  BY <1>9, <1>10 DEF Idle
<1>11. QED
  BY <1>2, <1>3, <1>4, <1>5, <1>6, <1>7, <1>8, <1>9, <1>10 DEF Next

\* On every rank of every job, once ALL_MY_FILTERS_DONE is announced all filter
\* threads of the rank have been erased and its out-queue stays empty
\* (dcmpiruntime.cpp:540-583).
THEOREM Quiet == Spec => []QuietOnceAnnounced
<1>1. Init => QuietInv
  BY DEF Init, QuietInv, FlagIsRight, AnnouncedIsIdle, SentDone
<1>2. TypeOK /\ QuietInv /\ [Next]_vars => QuietInv'
  BY NextQuiet
<1>3. QED
  BY <1>1, <1>2, TypeCorrect, QuietFromInv, PTL DEF Spec

-----------------------------------------------------------------------------
(***************************************************************************)
(* Order in the MPI runtime, for every job: the packets from one node to   *)
(* another follow one route and do not overtake each other.  From that     *)
(* follow the order of streams, their ends, and that no rank leaves its    *)
(* main loop while a filter of the job runs; and, with the count of the    *)
(* done packets each router has passed on, that a rank that has left is    *)
(* on no packet's way.                                                     *)
(*                                                                         *)
(* All queues, channels and links of a job are places, and Queue is what   *)
(* each of them holds.  Every action then puts a packet at the end of a    *)
(* place, takes one off its head, or moves one from head to end.           *)
(***************************************************************************)

OutQ(r)     == <<"outq", r, r>>
Chan(i, r)  == <<"chan", i, r>>
ToConsole   == <<"toConsole", 0, 0>>
ConsoleOut  == <<"consoleOut", 0, 0>>
FromConsole == <<"fromConsole", 0, 0>>
ToProxy(c)  == <<"toProxy", c, c>>
ProxyIn(c)  == <<"proxyIn", c, c>>

Places ==
  {OutQ(r) : r \in Ranks} \cup {Chan(i, r) : i, r \in Ranks}
  \cup {ToConsole, ConsoleOut, FromConsole}
  \cup {ToProxy(c) : c \in Clusters} \cup {ProxyIn(c) : c \in Clusters}

Queue ==
  [a \in Places |->
     CASE a[1] = "outq"        -> outq[a[2]]
       [] a[1] = "chan"        -> chan[a[2]][a[3]]
       [] a[1] = "toConsole"   -> toConsole
       [] a[1] = "consoleOut"  -> consoleOut
       [] a[1] = "fromConsole" -> fromConsole
       [] a[1] = "toProxy"     -> toProxy[a[2]]
       [] a[1] = "proxyIn"     -> proxyIn[a[2]]]

\* The places a packet from node m to node n can be in.
OnRoute(a, m, n) ==
  \/ /\ a[1] = "outq" /\ m = a[2]
     /\ ~(n = Console /\ HandlesConsole(m)) /\ ~(IsGateway(m) /\ CrossCluster(m, n))
  \/ /\ a[1] = "chan" /\ a[2] = m /\ a[3] = Gateway(ClusterRank(m)) /\ a[3] # m /\ a[3] # n
     /\ n = Console \/ ClusterRank(m) # ClusterRank(n)
  \/ /\ a[1] = "chan" /\ a[3] = n /\ a[2] # n
     /\ a[2] = IF m # Console /\ ClusterRank(m) = ClusterRank(n) THEN m ELSE Gateway(ClusterRank(n))
  \/ a[1] \in {"consoleOut", "fromConsole"} /\ m = Console
  \/ a[1] = "toConsole" /\ n = Console
  \/ a[1] = "toProxy" /\ a[2] = ClusterRank(m) /\ ClusterRank(m) # ClusterRank(n)
  \/ a[1] = "proxyIn" /\ a[2] = ClusterRank(n) /\ ClusterRank(m) # ClusterRank(n)

\* How far from its destination a packet for n is.
Stage(a, n) ==
  CASE a[1] \in {"outq", "consoleOut"} -> 6
    [] a[1] = "fromConsole" \/ (a[1] = "chan" /\ a[3] # n) -> 5
    [] a[1] = "toProxy" -> 4
    [] a[1] = "proxyIn" -> 3
    [] a[1] = "toConsole" \/ (a[1] = "chan" /\ a[3] = n) -> 2

\* All packets that are somewhere.
Flying == UNION {SeqRange(Queue[a]) : a \in Places}

\* A node sends its done packet after all buffers and ends, a stream its end
\* after its buffers, and these in the order of their numbers.
SameStream(p, q) == p.writer = q.writer /\ p.reader = q.reader
Before(p, q) ==
  \/ p.type = "DCBUF" /\ q.type = "DCBUF" /\ SameStream(p, q) /\ p.seq < q.seq
  \/ p.type = "DCBUF" /\ q.type = "REMOVE_PUTTER" /\ SameStream(p, q)
  \/ /\ p.type \in {"DCBUF", "REMOVE_PUTTER"} /\ q.type = "ALL_MY_FILTERS_DONE"
     /\ p.from = q.from /\ p.to = q.to

\* Every packet is on its route, nowhere twice, and behind those before it.
Routed == \A a \in Places : \A k \in DOMAIN Queue[a] :
            OnRoute(a, Queue[a][k].from, Queue[a][k].to)
Single == \A a, b \in Places : \A i \in DOMAIN Queue[a], j \in DOMAIN Queue[b] :
            Queue[a][i] = Queue[b][j] => a = b /\ i = j
Ordered == \A a, b \in Places : \A i \in DOMAIN Queue[a], j \in DOMAIN Queue[b] :
             Before(Queue[a][i], Queue[b][j]) =>
               \/ Stage(a, Queue[a][i].to) < Stage(b, Queue[a][i].to)
               \/ a = b /\ i < j
QueuesInv == Routed /\ Single /\ Ordered

\* Node m has sent its done packet for node n.
SentTo(m, n) == IF m = Console THEN consoleSent ELSE SentDone(m) /\ n < announced[m]

\* Every packet is one that the job has sent.
IsGenuine(p) ==
  /\ p.from # p.to
  /\ \/ /\ p.type = "DCBUF" /\ <<p.writer, p.reader>> \in Streams
        /\ p = DcBuf(p.writer, p.reader, p.seq)
     \/ /\ p.type = "REMOVE_PUTTER" /\ <<p.writer, p.reader>> \in Streams
        /\ p = RemovePutter(p.writer, p.reader)
     \/ /\ p.type = "ALL_MY_FILTERS_DONE" /\ p.from \in Nodes /\ p.to \in Nodes
        /\ p = AllDone(p.from, p.to) /\ SentTo(p.from, p.to)
     \/ p = Close /\ (ConsolePresent => consoleSent)
Genuine == \A p \in Flying : IsGenuine(p)

\* Every buffer in an in-port came off a stream.
Arrived == \A g \in Filters : \A k \in DOMAIN inq[g] : <<inq[g][k].writer, g>> \in Streams

\* A buffer or the end of stream s.
BufferOf(p, s) == p.type = "DCBUF" /\ p.writer = s[1] /\ p.reader = s[2]
EndOf(p, s)    == p.type = "REMOVE_PUTTER" /\ p.writer = s[1] /\ p.reader = s[2]

\* Stream s has been read up to got, is in the in-port up to last, and is on
\* its way after that.
Split(s, last) ==
  /\ \A k \in Waiting(s[1], s[2]) : inq[s[2]][k].seq \in got[s] + 1 .. last
  /\ \A n \in got[s] + 1 .. last : \E k \in Waiting(s[1], s[2]) : inq[s[2]][k].seq = n
  /\ \A n \in last + 1 .. wrote[s] : DcBuf(s[1], s[2], n) \in Flying
  /\ \A p \in Flying : BufferOf(p, s) => p.seq \in last + 1 .. wrote[s]
  /\ s[1] \notin putters[s[2]] => last = wrote[s]

\* Its end comes from a filter that writes no more.
StreamOK(s) ==
  /\ \A j, k \in Waiting(s[1], s[2]) : j < k => inq[s[2]][j].seq < inq[s[2]][k].seq
  /\ \E last \in got[s] .. wrote[s] : Split(s, last)
  /\ s[1] \notin putters[s[2]] => s[2] \in closed[s[1]]
  /\ s[2] \in closed[s[1]] => status[s[1]] # "process"
  /\ \A p \in Flying : EndOf(p, s) => s[2] \in closed[s[1]]
StreamInv == Genuine /\ Arrived /\ \A s \in Streams : StreamOK(s)

ConsoleInv == consoleSent => \A f \in FiltersOn(Console) : status[f] = "erased"

\* Whose done packets rank r has got.
Heard(r) == {m \in Nodes \ {r} : SentTo(m, r) /\ AllDone(m, r) \notin Flying}
DoneInv == \A r \in Ranks : doneReceived[r] = Cardinality(Heard(r))

OrderInv == QueuesInv /\ StreamInv /\ ConsoleInv /\ DoneInv

\* What a step does to the places.
TakeStep(a) ==
  /\ a \in Places /\ Queue[a] # <<>>
  /\ \A x \in Places : Queue'[x] = IF x = a THEN Tail(Queue[x]) ELSE Queue[x]
PutStep(b, p) ==
  /\ b \in Places
  /\ \A x \in Places : Queue'[x] = IF x = b THEN Append(Queue[x], p) ELSE Queue[x]
MoveStep(a, b) ==
  /\ a \in Places /\ b \in Places /\ a # b /\ Queue[a] # <<>>
  /\ \A x \in Places : Queue'[x] = IF x = a THEN Tail(Queue[x])
                                   ELSE IF x = b THEN Append(Queue[x], Head(Queue[a]))
                                   ELSE Queue[x]
KeepStep == \A x \in Places : Queue'[x] = Queue[x]

\* b is the next place after a, or the first, on the route of p.
NextPlace(a, b, p) ==
  /\ OnRoute(b, p.from, p.to) /\ Stage(b, p.to) < Stage(a, p.to)
  /\ \A x \in Places : OnRoute(x, p.from, p.to) /\ Stage(x, p.to) < Stage(a, p.to)
                       => x = b \/ Stage(x, p.to) < Stage(b, p.to)
FirstPlace(b, p) ==
  /\ OnRoute(b, p.from, p.to)
  /\ \A x \in Places : OnRoute(x, p.from, p.to)
                       => x = b \/ Stage(x, p.to) < Stage(b, p.to) \/ Queue[x] = <<>>
-----------------------------------------------------------------------------
(* Places and what they hold                                               *)

\* Every place is one of seven kinds.
LEMMA PlaceKinds ==
  /\ \A r \in Ranks : OutQ(r) \in Places
  /\ \A i, r \in Ranks : Chan(i, r) \in Places
  /\ ToConsole \in Places /\ ConsoleOut \in Places /\ FromConsole \in Places
  /\ \A c \in Clusters : ToProxy(c) \in Places /\ ProxyIn(c) \in Places
  /\ \A a \in Places :
       \/ \E r \in Ranks : a = OutQ(r)
       \/ \E i, r \in Ranks : a = Chan(i, r)
       \/ a = ToConsole \/ a = ConsoleOut \/ a = FromConsole
       \/ \E c \in Clusters : a = ToProxy(c)
       \/ \E c \in Clusters : a = ProxyIn(c)
BY DEF Places

\* What each of them holds, in a state and in the next one.
LEMMA QueueAt ==
  /\ \A r \in Ranks : Queue[OutQ(r)] = outq[r]
  /\ \A i, r \in Ranks : Queue[Chan(i, r)] = chan[i][r]
  /\ Queue[ToConsole] = toConsole
  /\ Queue[ConsoleOut] = consoleOut
  /\ Queue[FromConsole] = fromConsole
  /\ \A c \in Clusters : Queue[ToProxy(c)] = toProxy[c]
  /\ \A c \in Clusters : Queue[ProxyIn(c)] = proxyIn[c]
BY PlaceKinds DEF Queue, OutQ, Chan, ToConsole, ConsoleOut, FromConsole, ToProxy, ProxyIn

LEMMA QueueNext ==
  /\ \A r \in Ranks : Queue'[OutQ(r)] = outq'[r]
  /\ \A i, r \in Ranks : Queue'[Chan(i, r)] = chan'[i][r]
  /\ Queue'[ToConsole] = toConsole'
  /\ Queue'[ConsoleOut] = consoleOut'
  /\ Queue'[FromConsole] = fromConsole'
  /\ \A c \in Clusters : Queue'[ToProxy(c)] = toProxy'[c]
  /\ \A c \in Clusters : Queue'[ProxyIn(c)] = proxyIn'[c]
BY PlaceKinds DEF Queue, OutQ, Chan, ToConsole, ConsoleOut, FromConsole, ToProxy, ProxyIn

LEMMA QueueTyped ==
  ASSUME TypeOK
  PROVE  \A a \in Places : Queue[a] \in Seq(Packet)
<1> SUFFICES ASSUME NEW a \in Places
             PROVE  Queue[a] \in Seq(Packet)
  OBVIOUS
<1>1. CASE \E r \in Ranks : a = OutQ(r)
  BY <1>1, QueueAt DEF TypeOK, MpiTypes
<1>2. CASE \E i, r \in Ranks : a = Chan(i, r)
  <2>1. PICK i \in Ranks, r \in Ranks : a = Chan(i, r)
    BY <1>2
  <2>2. chan[i][r] \in Seq(Packet)
    BY DEF TypeOK, MpiTypes
  <2>3. QED
    BY <2>1, <2>2, QueueAt
<1>3. CASE a = ToConsole \/ a = ConsoleOut \/ a = FromConsole
  BY <1>3, QueueAt DEF TypeOK, BridgeTypes
<1>4. CASE (\E c \in Clusters : a = ToProxy(c)) \/ (\E c \in Clusters : a = ProxyIn(c))
  BY <1>4, QueueAt DEF TypeOK, BridgeTypes
<1>5. QED
  BY <1>1, <1>2, <1>3, <1>4, PlaceKinds
-----------------------------------------------------------------------------
(* Taking, putting and moving packets                                      *)

LEMMA TailAt ==
  ASSUME NEW S, NEW q \in Seq(S), q # <<>>
  PROVE  /\ 1 \in DOMAIN q /\ Head(q) = q[1] /\ q[1] \in S
         /\ Tail(q) \in Seq(S)
         /\ \A j \in DOMAIN Tail(q) : j \in Nat /\ j + 1 \in DOMAIN q /\ Tail(q)[j] = q[j + 1]
         /\ \A i \in DOMAIN q : i = 1 \/ (i - 1 \in DOMAIN Tail(q) /\ Tail(q)[i - 1] = q[i])
OBVIOUS

LEMMA AppendAt ==
  ASSUME NEW S, NEW q \in Seq(S), NEW p
  PROVE  /\ \A i \in DOMAIN q : i \in DOMAIN Append(q, p) /\ Append(q, p)[i] = q[i]
                                /\ i \in Nat /\ i < Len(q) + 1
         /\ Len(q) + 1 \in DOMAIN Append(q, p) /\ Append(q, p)[Len(q) + 1] = p
         /\ \A i \in DOMAIN Append(q, p) : i \in DOMAIN q \/ i = Len(q) + 1
         /\ Len(q) \in Nat
OBVIOUS

\* Places count in natural numbers.
LEMMA StageTyped == \A a \in Places : \A n : Stage(a, n) \in Nat
BY PlaceKinds DEF Stage, OutQ, Chan, ToConsole, ConsoleOut, FromConsole, ToProxy, ProxyIn

\* Where the packets come from that are somewhere after a step.
LEMMA TakeOrigin ==
  ASSUME TypeOK, NEW a, TakeStep(a), NEW x \in Places, NEW j \in DOMAIN Queue'[x]
  PROVE  \/ x = a /\ j \in Nat /\ j + 1 \in DOMAIN Queue[a] /\ Queue'[x][j] = Queue[a][j + 1]
         \/ x # a /\ j \in Nat /\ j \in DOMAIN Queue[x] /\ Queue'[x][j] = Queue[x][j]
<1>1. Queue[x] \in Seq(Packet) /\ Queue[a] \in Seq(Packet) /\ Queue[a] # <<>>
  BY QueueTyped DEF TakeStep
<1>2. CASE x = a
  <2>1. Queue'[x] = Tail(Queue[a])
    BY <1>2 DEF TakeStep
  <2>2. QED
    BY <1>1, <1>2, <2>1, TailAt
<1>3. CASE x # a
  <2>1. Queue'[x] = Queue[x]
    BY <1>3 DEF TakeStep
  <2>2. j \in Nat
    BY <1>1, <2>1
  <2>3. QED
    BY <1>3, <2>1, <2>2
<1>4. QED
  BY <1>2, <1>3

LEMMA PutOrigin ==
  ASSUME TypeOK, NEW b, NEW p, PutStep(b, p), NEW x \in Places, NEW j \in DOMAIN Queue'[x]
  PROVE  \/ /\ j \in Nat /\ j \in DOMAIN Queue[x] /\ Queue'[x][j] = Queue[x][j]
            /\ j < Len(Queue[x]) + 1
         \/ x = b /\ j = Len(Queue[b]) + 1 /\ j \in Nat /\ Queue'[x][j] = p
<1>1. Queue[x] \in Seq(Packet)
  BY QueueTyped
<1>2. CASE x = b
  <2>1. Queue'[x] = Append(Queue[x], p)
    BY <1>2 DEF PutStep
  <2>2. Len(Queue[x]) \in Nat
    BY <1>1
  <2>3. QED
    BY <1>1, <1>2, <2>1, <2>2, AppendAt
<1>3. CASE x # b
  <2>1. Queue'[x] = Queue[x]
    BY <1>3 DEF PutStep
  <2>2. \A i \in DOMAIN Queue[x] : i \in Nat /\ i < Len(Queue[x]) + 1
    BY <1>1
  <2>3. QED
    BY <1>3, <2>1, <2>2
<1>4. QED
  BY <1>2, <1>3

LEMMA MoveOrigin ==
  ASSUME TypeOK, NEW a, NEW b, MoveStep(a, b), NEW x \in Places, NEW j \in DOMAIN Queue'[x]
  PROVE  \/ x = a /\ j \in Nat /\ j + 1 \in DOMAIN Queue[a] /\ Queue'[x][j] = Queue[a][j + 1]
         \/ /\ x # a /\ j \in Nat /\ j \in DOMAIN Queue[x] /\ Queue'[x][j] = Queue[x][j]
            /\ j < Len(Queue[x]) + 1
         \/ /\ x = b /\ j = Len(Queue[b]) + 1 /\ j \in Nat
            /\ Queue'[x][j] = Queue[a][1] /\ 1 \in DOMAIN Queue[a]
<1>1. Queue[x] \in Seq(Packet) /\ Queue[a] \in Seq(Packet) /\ Queue[a] # <<>> /\ a # b
  BY QueueTyped DEF MoveStep
<1>2. CASE x = a
  <2>1. Queue'[x] = Tail(Queue[a])
    BY <1>2 DEF MoveStep
  <2>2. QED
    BY <1>1, <1>2, <2>1, TailAt
<1>3. CASE x = b
  <2>0. 1 \in DOMAIN Queue[a] /\ Head(Queue[a]) = Queue[a][1]
    BY <1>1, TailAt
  <2>1. Queue'[x] = Append(Queue[x], Queue[a][1])
    BY <1>1, <1>3, <2>0 DEF MoveStep
  <2>2. Len(Queue[x]) \in Nat
    BY <1>1
  <2>3. QED
    BY <1>1, <1>3, <2>0, <2>1, <2>2, AppendAt
<1>4. CASE x # a /\ x # b
  <2>1. Queue'[x] = Queue[x]
    BY <1>4 DEF MoveStep
  <2>2. \A i \in DOMAIN Queue[x] : i \in Nat /\ i < Len(Queue[x]) + 1
    BY <1>1
  <2>3. QED
    BY <1>4, <2>1, <2>2
<1>5. QED
  BY <1>2, <1>3, <1>4

\* A packet is flying when it is at some position of some place.
LEMMA FlyingAt ==
  /\ \A p : p \in Flying <=> \E a \in Places : \E k \in DOMAIN Queue[a] : Queue[a][k] = p
  /\ \A p : p \in Flying' <=> \E a \in Places : \E k \in DOMAIN Queue'[a] : Queue'[a][k] = p
BY DEF Flying, SeqRange
-----------------------------------------------------------------------------
\* Each kind of step keeps the packets on their routes, apart and in order.

LEMMA OrderedAt ==
  ASSUME QueuesInv, NEW a \in Places, NEW b \in Places,
         NEW i \in DOMAIN Queue[a], NEW j \in DOMAIN Queue[b]
  PROVE  /\ OnRoute(a, Queue[a][i].from, Queue[a][i].to)
         /\ Queue[a][i] \in Flying
         /\ Queue[a][i] = Queue[b][j] => a = b /\ i = j
         /\ Before(Queue[a][i], Queue[b][j]) =>
               \/ Stage(a, Queue[a][i].to) < Stage(b, Queue[a][i].to)
               \/ a = b /\ i < j
BY FlyingAt DEF QueuesInv, Routed, Single, Ordered

LEMMA TakeKeeps ==
  ASSUME TypeOK, QueuesInv, NEW a, TakeStep(a)
  PROVE  QueuesInv' /\ Flying' = Flying \ {Queue[a][1]} /\ Queue[a][1] \in Flying
<1> DEFINE h == Queue[a][1]
<1>0. a \in Places /\ Queue[a] \in Seq(Packet) /\ Queue[a] # <<>>
  BY QueueTyped DEF TakeStep
<1>1. 1 \in DOMAIN Queue[a] /\ Queue'[a] = Tail(Queue[a])
  BY <1>0, TailAt DEF TakeStep
<1>2. ASSUME NEW x \in Places, NEW j \in DOMAIN Queue'[x]
      PROVE  /\ OnRoute(x, Queue'[x][j].from, Queue'[x][j].to)
             /\ Queue'[x][j] \in Flying /\ Queue'[x][j] # h
  <2>1. CASE x = a /\ j \in Nat /\ j + 1 \in DOMAIN Queue[a] /\ Queue'[x][j] = Queue[a][j + 1]
    BY <1>0, <1>1, <2>1, OrderedAt
  <2>2. CASE x # a /\ j \in DOMAIN Queue[x] /\ Queue'[x][j] = Queue[x][j]
    BY <1>0, <1>1, <2>2, OrderedAt
  <2>3. QED
    BY <2>1, <2>2, TakeOrigin
<1>3. Routed'
  BY <1>2 DEF Routed
<1>4. ASSUME NEW x \in Places, NEW y \in Places, NEW i \in DOMAIN Queue'[x],
             NEW j \in DOMAIN Queue'[y]
      PROVE  /\ Queue'[x][i] = Queue'[y][j] => x = y /\ i = j
             /\ Before(Queue'[x][i], Queue'[y][j]) =>
                  \/ Stage(x, Queue'[x][i].to) < Stage(y, Queue'[x][i].to)
                  \/ x = y /\ i < j
  <2>1. PICK k \in Nat : /\ k \in DOMAIN Queue[x] /\ Queue'[x][i] = Queue[x][k] /\ i \in Nat
                         /\ k = IF x = a THEN i + 1 ELSE i
    BY <1>0, TakeOrigin
  <2>2. PICK l \in Nat : /\ l \in DOMAIN Queue[y] /\ Queue'[y][j] = Queue[y][l] /\ j \in Nat
                         /\ l = IF y = a THEN j + 1 ELSE j
    BY <1>0, TakeOrigin
  <2>3. x = y => (k = l <=> i = j) /\ (k < l <=> i < j)
    BY <2>1, <2>2
  <2>4. QED
    BY <2>1, <2>2, <2>3, OrderedAt
<1>5. Single' /\ Ordered'
  BY <1>4 DEF Single, Ordered
<1>6. ASSUME NEW p \in Flying, p # h PROVE p \in Flying'
  <2>1. PICK x \in Places : \E k \in DOMAIN Queue[x] : Queue[x][k] = p
    BY FlyingAt
  <2>2. PICK k \in DOMAIN Queue[x] : Queue[x][k] = p
    BY <2>1
  <2>3. CASE x = a
    <3>1. k # 1
      BY <1>6, <2>2, <2>3
    <3>2. k - 1 \in DOMAIN Tail(Queue[a]) /\ Tail(Queue[a])[k - 1] = Queue[a][k]
      BY <1>0, <2>2, <2>3, <3>1, TailAt
    <3>3. QED
      BY <1>0, <1>1, <2>2, <2>3, <3>2, FlyingAt
  <2>4. CASE x # a
    <3>1. Queue'[x] = Queue[x]
      BY <2>4 DEF TakeStep
    <3>2. QED
      BY <2>2, <3>1, FlyingAt
  <2>5. QED
    BY <2>3, <2>4
<1>7. ASSUME NEW p \in Flying' PROVE p \in Flying /\ p # h
  <2>1. PICK x \in Places : \E k \in DOMAIN Queue'[x] : Queue'[x][k] = p
    BY FlyingAt
  <2>2. QED
    BY <1>2, <2>1
<1>8. h \in Flying
  BY <1>0, <1>1, FlyingAt
<1>9. QED
  BY <1>3, <1>5, <1>6, <1>7, <1>8 DEF QueuesInv

LEMMA PutKeeps ==
  ASSUME TypeOK, QueuesInv, NEW b, NEW p, PutStep(b, p), FirstPlace(b, p), p \notin Flying,
         ~Before(p, p), \A q \in Flying : ~Before(p, q),
         \A q \in Flying : Before(q, p) => q.from = p.from /\ q.to = p.to
  PROVE  QueuesInv' /\ Flying' = Flying \cup {p}
<1>0. b \in Places /\ Queue'[b] = Append(Queue[b], p) /\ Queue[b] \in Seq(Packet)
  BY QueueTyped DEF PutStep
<1>1. Routed'
  <2> SUFFICES ASSUME NEW x \in Places, NEW j \in DOMAIN Queue'[x]
               PROVE  OnRoute(x, Queue'[x][j].from, Queue'[x][j].to)
    BY DEF Routed
  <2>1. CASE j \in DOMAIN Queue[x] /\ Queue'[x][j] = Queue[x][j]
    BY <2>1, OrderedAt
  <2>2. CASE x = b /\ Queue'[x][j] = p
    BY <2>2 DEF FirstPlace
  <2>3. QED
    BY <2>1, <2>2, PutOrigin
<1>2. ASSUME NEW x \in Places, NEW y \in Places, NEW i \in DOMAIN Queue'[x],
             NEW j \in DOMAIN Queue'[y]
      PROVE  /\ Queue'[x][i] = Queue'[y][j] => x = y /\ i = j
             /\ Before(Queue'[x][i], Queue'[y][j]) =>
                  \/ Stage(x, Queue'[x][i].to) < Stage(y, Queue'[x][i].to)
                  \/ x = y /\ i < j
  <2>1. CASE i \in DOMAIN Queue[x] /\ Queue'[x][i] = Queue[x][i] /\ i < Len(Queue[x]) + 1
    <3>1. Queue[x][i] \in Flying /\ OnRoute(x, Queue[x][i].from, Queue[x][i].to)
      BY <2>1, OrderedAt
    <3>2. CASE j \in DOMAIN Queue[y] /\ Queue'[y][j] = Queue[y][j]
      BY <2>1, <3>2, OrderedAt
    <3>3. CASE y = b /\ j = Len(Queue[b]) + 1 /\ Queue'[y][j] = p
      <4>1. Queue'[x][i] # Queue'[y][j]
        BY <2>1, <3>1, <3>3
      <4>2. ASSUME Before(Queue[x][i], p)
            PROVE  Stage(x, Queue[x][i].to) < Stage(y, Queue[x][i].to) \/ (x = y /\ i < j)
        <5>1. OnRoute(x, p.from, p.to) /\ Queue[x][i].to = p.to
          BY <3>1, <4>2
        <5>2. Queue[x] # <<>>
          BY <2>1
        <5>3. x = b \/ Stage(x, p.to) < Stage(b, p.to)
          BY <5>1, <5>2 DEF FirstPlace
        <5>4. QED
          BY <2>1, <3>3, <5>1, <5>3
      <4>3. QED
        BY <2>1, <3>3, <4>1, <4>2
    <3>4. QED
      BY <3>2, <3>3, PutOrigin
  <2>2. CASE x = b /\ i = Len(Queue[b]) + 1 /\ Queue'[x][i] = p
    <3>1. CASE j \in DOMAIN Queue[y] /\ Queue'[y][j] = Queue[y][j]
      <4>1. Queue[y][j] \in Flying
        BY <3>1, OrderedAt
      <4>2. QED
        BY <2>2, <3>1, <4>1
    <3>2. CASE y = b /\ j = Len(Queue[b]) + 1 /\ Queue'[y][j] = p
      BY <2>2, <3>2
    <3>3. QED
      BY <3>1, <3>2, PutOrigin
  <2>3. QED
    BY <2>1, <2>2, PutOrigin
<1>3. Single' /\ Ordered'
  BY <1>2 DEF Single, Ordered
<1>4. ASSUME NEW q \in Flying PROVE q \in Flying'
  <2>1. PICK x \in Places : \E k \in DOMAIN Queue[x] : Queue[x][k] = q
    BY FlyingAt
  <2>2. PICK k \in DOMAIN Queue[x] : Queue[x][k] = q
    BY <2>1
  <2>3. k \in DOMAIN Queue'[x] /\ Queue'[x][k] = q
    <3>1. CASE x = b
      BY <1>0, <2>2, <3>1, AppendAt
    <3>2. CASE x # b
      BY <2>2, <3>2 DEF PutStep
    <3>3. QED
      BY <3>1, <3>2
  <2>4. QED
    BY <2>3, FlyingAt
<1>5. p \in Flying'
  <2>1. Len(Queue[b]) + 1 \in DOMAIN Queue'[b] /\ Queue'[b][Len(Queue[b]) + 1] = p
    BY <1>0, AppendAt
  <2>2. QED
    BY <1>0, <2>1, FlyingAt
<1>6. ASSUME NEW q \in Flying', q # p PROVE q \in Flying
  <2>1. PICK x \in Places : \E k \in DOMAIN Queue'[x] : Queue'[x][k] = q
    BY FlyingAt
  <2>2. PICK k \in DOMAIN Queue'[x] : Queue'[x][k] = q
    BY <2>1
  <2>3. k \in DOMAIN Queue[x] /\ Queue[x][k] = q
    BY <1>6, <2>2, PutOrigin
  <2>4. QED
    BY <2>3, FlyingAt
<1>7. QED
  BY <1>1, <1>3, <1>4, <1>5, <1>6 DEF QueuesInv
LEMMA KeepKeeps ==
  ASSUME QueuesInv, KeepStep
  PROVE  QueuesInv' /\ Flying' = Flying
<1>1. \A x \in Places : Queue'[x] = Queue[x]
  BY DEF KeepStep
<1>2. Routed' /\ Single' /\ Ordered'
  BY <1>1 DEF QueuesInv, Routed, Single, Ordered
<1>3. \A p : p \in Flying' <=> p \in Flying
  BY <1>1, FlyingAt
<1>4. QED
  BY <1>2, <1>3 DEF QueuesInv

\* The packets that come before or after another one are between its nodes.
LEMMA MoveKeeps ==
  ASSUME TypeOK, QueuesInv, NEW a, NEW b, MoveStep(a, b), NextPlace(a, b, Head(Queue[a])),
         \A p, q \in Flying : Before(p, q) => p.from = q.from /\ p.to = q.to
  PROVE  QueuesInv' /\ Flying' = Flying
<1> DEFINE h == Queue[a][1]
<1>0. /\ a \in Places /\ Queue[a] \in Seq(Packet) /\ Queue[a] # <<>>
      /\ b \in Places /\ Queue[b] \in Seq(Packet) /\ a # b
  BY QueueTyped DEF MoveStep
<1>1. 1 \in DOMAIN Queue[a] /\ Head(Queue[a]) = h /\ h \in Flying
  <2>1. 1 \in DOMAIN Queue[a] /\ Head(Queue[a]) = h
    BY <1>0, TailAt
  <2>2. QED
    BY <1>0, <2>1, FlyingAt
<1>2. Queue'[a] = Tail(Queue[a])
  BY <1>0 DEF MoveStep
<1>3. Queue'[b] = Append(Queue[b], h)
  BY <1>0, <1>1 DEF MoveStep
<1>4. /\ OnRoute(b, h.from, h.to) /\ Stage(b, h.to) < Stage(a, h.to)
      /\ \A x \in Places : OnRoute(x, h.from, h.to) /\ Stage(x, h.to) < Stage(a, h.to)
                           => x = b \/ Stage(x, h.to) < Stage(b, h.to)
  BY <1>1 DEF NextPlace
<1>5. \A n : Stage(a, n) \in Nat /\ Stage(b, n) \in Nat
  BY <1>0, StageTyped
<1>6. ASSUME NEW x \in Places, NEW i \in DOMAIN Queue'[x]
      PROVE  Queue'[x][i] \in Flying /\ OnRoute(x, Queue'[x][i].from, Queue'[x][i].to)
  <2>1. CASE x = a /\ i + 1 \in DOMAIN Queue[a] /\ Queue'[x][i] = Queue[a][i + 1]
    BY <1>0, <2>1, OrderedAt
  <2>2. CASE i \in DOMAIN Queue[x] /\ Queue'[x][i] = Queue[x][i]
    BY <2>2, OrderedAt
  <2>3. CASE x = b /\ Queue'[x][i] = h
    BY <1>1, <1>4, <2>3
  <2>4. QED
    BY <2>1, <2>2, <2>3, MoveOrigin
<1>7. Routed'
  BY <1>6 DEF Routed
<1>8. ASSUME NEW x \in Places, NEW y \in Places, NEW i \in DOMAIN Queue'[x],
             NEW j \in DOMAIN Queue'[y]
      PROVE  /\ Queue'[x][i] = Queue'[y][j] => x = y /\ i = j
             /\ Before(Queue'[x][i], Queue'[y][j]) =>
                  \/ Stage(x, Queue'[x][i].to) < Stage(y, Queue'[x][i].to)
                  \/ x = y /\ i < j
  <2> DEFINE Old(z, k, l) == /\ l \in Nat /\ l \in DOMAIN Queue[z] /\ Queue'[z][k] = Queue[z][l]
                             /\ l = IF z = a THEN k + 1 ELSE k
                             /\ k \in Nat /\ k < Len(Queue[z]) + 1
                             /\ z = a => l # 1
             New(z, k) == z = b /\ k = Len(Queue[b]) + 1 /\ Queue'[z][k] = h /\ k \in Nat
  <2>1. ASSUME NEW z \in Places, NEW k \in DOMAIN Queue'[z]
        PROVE  New(z, k) \/ \E l \in Nat : Old(z, k, l)
    <3>1. CASE z = a /\ k \in Nat /\ k + 1 \in DOMAIN Queue[a] /\ Queue'[z][k] = Queue[a][k + 1]
      <4>1. k + 1 \in Nat /\ k < Len(Queue[a]) + 1 /\ k + 1 # 1
        <5>1. k \in DOMAIN Tail(Queue[a])
          BY <1>2, <2>1, <3>1
        <5>2. Len(Queue[a]) \in Nat /\ k + 1 <= Len(Queue[a]) /\ k \in Nat /\ k # 0
          BY <1>0, <3>1, <5>1
        <5>3. QED
          BY <5>2
      <4>2. Old(z, k, k + 1)
        BY <3>1, <4>1
      <4>3. QED
        BY <4>1, <4>2
    <3>2. CASE /\ z # a /\ k \in Nat /\ k \in DOMAIN Queue[z] /\ Queue'[z][k] = Queue[z][k]
               /\ k < Len(Queue[z]) + 1
      <4>1. Old(z, k, k)
        BY <3>2
      <4>2. QED
        BY <3>2, <4>1
    <3>3. CASE z = b /\ k = Len(Queue[b]) + 1 /\ k \in Nat /\ Queue'[z][k] = h
      BY <3>3
    <3>4. QED
      BY <2>1, <3>1, <3>2, <3>3, MoveOrigin
  <2>2. CASE New(x, i) /\ New(y, j)
    <3>1. ~Before(h, h)
      BY <1>0, <1>1, <1>5, OrderedAt
    <3>2. QED
      BY <2>2, <3>1
  <2>3. ASSUME New(x, i), NEW l \in Nat, Old(y, j, l)
        PROVE  /\ Queue'[x][i] # Queue'[y][j]
               /\ Before(h, Queue[y][l]) => Stage(b, h.to) < Stage(y, h.to)
    <3>1. l \in DOMAIN Queue[y] /\ Queue'[y][j] = Queue[y][l] /\ Queue'[x][i] = h
      BY <2>3
    <3>2. h # Queue[y][l]
      BY <1>0, <1>1, <2>3, <3>1, OrderedAt
    <3>3. ASSUME Before(h, Queue[y][l]) PROVE Stage(b, h.to) < Stage(y, h.to)
      <4>1. Stage(a, h.to) < Stage(y, h.to) \/ a = y
        BY <1>0, <1>1, <3>1, <3>3, OrderedAt
      <4>2. Stage(y, h.to) \in Nat
        BY StageTyped
      <4>3. QED
        BY <1>4, <1>5, <4>1, <4>2
    <3>4. QED
      BY <3>1, <3>2, <3>3
  <2>4. ASSUME New(y, j), NEW l \in Nat, Old(x, i, l)
        PROVE  /\ Queue'[x][i] # Queue'[y][j]
               /\ Before(Queue[x][l], h) => \/ Stage(x, h.to) < Stage(b, h.to)
                                            \/ x = b /\ i < j
    <3>1. l \in DOMAIN Queue[x] /\ Queue'[x][i] = Queue[x][l] /\ Queue'[y][j] = h
      BY <2>4
    <3>2. h # Queue[x][l]
      BY <1>0, <1>1, <2>4, <3>1, OrderedAt
    <3>3. ASSUME Before(Queue[x][l], h)
          PROVE  Stage(x, h.to) < Stage(b, h.to) \/ (x = b /\ i < j)
      <4>1. Queue[x][l] \in Flying /\ OnRoute(x, Queue[x][l].from, Queue[x][l].to)
        BY <3>1, OrderedAt
      <4>2. Queue[x][l].from = h.from /\ Queue[x][l].to = h.to
        BY <1>1, <3>3, <4>1
      <4>3. Stage(x, h.to) < Stage(a, h.to) \/ (x = a /\ l < 1)
        BY <1>0, <1>1, <3>1, <3>3, <4>2, OrderedAt
      <4>4. ~(x = a /\ l < 1)
        BY <1>0, <3>1
      <4>5. x = b \/ Stage(x, h.to) < Stage(b, h.to)
        BY <1>4, <4>1, <4>2, <4>3, <4>4
      <4>6. x = b => i < j
        BY <1>0, <2>4
      <4>7. QED
        BY <4>5, <4>6
    <3>4. QED
      BY <3>1, <3>2, <3>3
  <2>5. ASSUME NEW k \in Nat, Old(x, i, k), NEW l \in Nat, Old(y, j, l)
        PROVE  /\ Queue'[x][i] = Queue'[y][j] => x = y /\ i = j
               /\ Before(Queue'[x][i], Queue'[y][j]) =>
                    \/ Stage(x, Queue'[x][i].to) < Stage(y, Queue'[x][i].to)
                    \/ x = y /\ i < j
    <3>1. x = y => (k = l <=> i = j) /\ (k < l <=> i < j)
      BY <2>5
    <3>2. QED
      BY <2>5, <3>1, OrderedAt
  <2>6. CASE New(x, i)
    <3>1. CASE New(y, j)
      BY <2>2, <2>6, <3>1
    <3>2. CASE \E l \in Nat : Old(y, j, l)
      <4>1. PICK l \in Nat : Old(y, j, l)
        BY <3>2
      <4>2. Queue'[x][i] = h /\ Queue'[y][j] = Queue[y][l] /\ x = b
        BY <2>6, <4>1
      <4>3. QED
        BY <2>3, <2>6, <4>1, <4>2
    <3>3. QED
      BY <2>1, <3>1, <3>2
  <2>7. CASE \E l \in Nat : Old(x, i, l)
    <3>1. PICK k \in Nat : Old(x, i, k)
      BY <2>7
    <3>2. CASE New(y, j)
      <4>1. Queue'[y][j] = h /\ Queue'[x][i] = Queue[x][k] /\ y = b
        BY <3>1, <3>2
      <4>2. Before(Queue[x][k], h) => Queue[x][k].to = h.to
        BY <1>1, <3>1, OrderedAt
      <4>3. QED
        BY <2>4, <3>1, <3>2, <4>1, <4>2
    <3>3. CASE \E l \in Nat : Old(y, j, l)
      BY <2>5, <3>1, <3>3
    <3>4. QED
      BY <2>1, <3>2, <3>3
  <2>8. QED
    BY <2>1, <2>6, <2>7
<1>9. Single' /\ Ordered'
  BY <1>8 DEF Single, Ordered
<1>10. ASSUME NEW p \in Flying PROVE p \in Flying'
  <2>1. PICK x \in Places : \E k \in DOMAIN Queue[x] : Queue[x][k] = p
    BY FlyingAt
  <2>2. PICK k \in DOMAIN Queue[x] : Queue[x][k] = p
    BY <2>1
  <2>3. CASE x = a /\ k = 1
    <3>1. Len(Queue[b]) + 1 \in DOMAIN Queue'[b] /\ Queue'[b][Len(Queue[b]) + 1] = p
      BY <1>0, <1>3, <2>2, <2>3, AppendAt
    <3>2. QED
      BY <1>0, <3>1, FlyingAt
  <2>4. CASE x = a /\ k # 1
    <3>1. k - 1 \in DOMAIN Queue'[a] /\ Queue'[a][k - 1] = p
      BY <1>0, <1>2, <2>2, <2>4, TailAt
    <3>2. QED
      BY <1>0, <3>1, FlyingAt
  <2>5. CASE x = b
    <3>1. k \in DOMAIN Queue'[b] /\ Queue'[b][k] = p
      BY <1>0, <1>3, <2>2, <2>5, AppendAt
    <3>2. QED
      BY <1>0, <3>1, FlyingAt
  <2>6. CASE x # a /\ x # b
    <3>1. Queue'[x] = Queue[x]
      BY <2>6 DEF MoveStep
    <3>2. QED
      BY <2>2, <3>1, FlyingAt
  <2>7. QED
    BY <2>3, <2>4, <2>5, <2>6
<1>11. ASSUME NEW p \in Flying' PROVE p \in Flying
  BY <1>6, <1>11, FlyingAt
<1>12. QED
  BY <1>7, <1>9, <1>10, <1>11 DEF QueuesInv
-----------------------------------------------------------------------------
(* Routes                                                                  *)

LEMMA Gateways ==
  /\ 0 \in Ranks /\ 0 \in Clusters /\ Gateway(0) = 0 /\ ClusterRank(0) = 0
  /\ Console \notin Ranks /\ ClusterRank(Console) = 0
  /\ \A n \in AllNodes : n \in Ranks \/ n = Console
  /\ \A n \in AllNodes : ClusterRank(n) \in Clusters
  /\ \A r \in Ranks : r \in AllNodes /\ ClusterRank(r) = ClusterOf[r] /\ ClusterOf[r] \in Clusters
  /\ \A c \in Clusters : /\ Gateway(c) \in Ranks /\ ClusterOf[Gateway(c)] = c
                         /\ IsGateway(Gateway(c))
  /\ \A r \in Ranks : IsGateway(r) <=> r = Gateway(ClusterOf[r])
  /\ \A r \in Ranks : \A n : CrossCluster(r, n) <=> ClusterRank(r) # ClusterRank(n)
<1>1. 0 \in Ranks /\ Ranks \subseteq Nat /\ Console \notin Ranks
  BY RanksAssumption DEF Ranks, Console
<1>2. ClusterOf[0] = 0 /\ 0 \in Clusters
  BY <1>1, RanksAssumption DEF Clusters
<1>3. ClusterOffset[0] \in Nat /\ ClusterOffset[0] <= 0
  BY <1>1, <1>2, RanksAssumption
<1>4. Gateway(0) = 0
  BY <1>3 DEF Gateway
<1>5. \A c \in Clusters : Gateway(c) \in Ranks /\ ClusterOf[Gateway(c)] = c
  BY RanksAssumption DEF Gateway
<1>6. \A r \in Ranks : ClusterRank(r) = ClusterOf[r] /\ ClusterOf[r] \in Clusters
  BY <1>1 DEF ClusterRank, Clusters
<1>7. ClusterRank(Console) = 0 /\ ClusterRank(0) = 0
  BY <1>1, <1>2, <1>6 DEF ClusterRank
<1>8. \A c \in Clusters : IsGateway(Gateway(c))
  BY <1>5 DEF IsGateway
<1>9. \A r \in Ranks : \A n : CrossCluster(r, n) <=> ClusterRank(r) # ClusterRank(n)
  BY <1>6 DEF CrossCluster
<1>10. \A n \in AllNodes : n \in Ranks \/ n = Console
  BY DEF AllNodes
<1>11. \A r \in Ranks : (IsGateway(r) <=> r = Gateway(ClusterOf[r])) /\ r \in AllNodes
  BY DEF IsGateway, AllNodes
<1>12. \A n \in AllNodes : ClusterRank(n) \in Clusters
  BY Topology
<1>13. QED
  BY <1>1, <1>2, <1>4, <1>5, <1>6, <1>7, <1>8, <1>9, <1>10, <1>11, <1>12

\* Packets cross clusters only in jobs that have a proxy.
LEMMA CrossingUsesProxy ==
  ASSUME NEW r \in Ranks, NEW n \in AllNodes, CrossCluster(r, n)
  PROVE  UseProxy
<1>1. ClusterOf[r] # ClusterRank(n)
  BY DEF CrossCluster
<1>2. CASE ClusterOf[r] # 0
  BY <1>2 DEF UseProxy
<1>3. CASE n \in Ranks /\ ClusterOf[n] # 0
  BY <1>3 DEF UseProxy
<1>4. QED
  BY <1>1, <1>2, <1>3, Gateways

\* Which routes the places are on, and how far from their ends.
LEMMA AtOutQ ==
  ASSUME NEW r \in Ranks, NEW m, NEW n
  PROVE  /\ OnRoute(OutQ(r), m, n) <=> /\ m = r /\ ~(n = Console /\ m = 0)
                                       /\ ~(IsGateway(m) /\ CrossCluster(m, n))
         /\ Stage(OutQ(r), n) = 6
<1>1. OnRoute(OutQ(r), m, n) <=> /\ m = r /\ ~(n = Console /\ m = 0)
                                 /\ ~(IsGateway(m) /\ CrossCluster(m, n))
  BY DEF OnRoute, OutQ, HandlesConsole
<1>2. Stage(OutQ(r), n) = 6
  BY DEF Stage, OutQ
<1>3. QED
  BY <1>1, <1>2

LEMMA AtChan ==
  ASSUME NEW i \in Ranks, NEW r \in Ranks, NEW m, NEW n
  PROVE  /\ OnRoute(Chan(i, r), m, n) <=>
              \/ /\ i = m /\ r = Gateway(ClusterRank(m)) /\ r # m /\ r # n
                 /\ n = Console \/ ClusterRank(m) # ClusterRank(n)
              \/ /\ r = n /\ i # n
                 /\ i = IF m # Console /\ ClusterRank(m) = ClusterRank(n) THEN m
                        ELSE Gateway(ClusterRank(n))
         /\ Stage(Chan(i, r), n) = IF r = n THEN 2 ELSE 5
<1>1. OnRoute(Chan(i, r), m, n) <=>
              \/ /\ i = m /\ r = Gateway(ClusterRank(m)) /\ r # m /\ r # n
                 /\ n = Console \/ ClusterRank(m) # ClusterRank(n)
              \/ /\ r = n /\ i # n
                 /\ i = IF m # Console /\ ClusterRank(m) = ClusterRank(n) THEN m
                        ELSE Gateway(ClusterRank(n))
  BY DEF OnRoute, Chan
<1>2. Stage(Chan(i, r), n) = IF r = n THEN 2 ELSE 5
  BY DEF Stage, Chan
<1>3. QED
  BY <1>1, <1>2

LEMMA AtConsole ==
  ASSUME NEW m, NEW n
  PROVE  /\ OnRoute(ConsoleOut, m, n) <=> m = Console
         /\ OnRoute(FromConsole, m, n) <=> m = Console
         /\ OnRoute(ToConsole, m, n) <=> n = Console
         /\ Stage(ConsoleOut, n) = 6 /\ Stage(FromConsole, n) = 5 /\ Stage(ToConsole, n) = 2
<1>1. /\ OnRoute(ConsoleOut, m, n) <=> m = Console
      /\ OnRoute(FromConsole, m, n) <=> m = Console
      /\ OnRoute(ToConsole, m, n) <=> n = Console
  BY DEF OnRoute, ConsoleOut, FromConsole, ToConsole
<1>2. Stage(ConsoleOut, n) = 6 /\ Stage(FromConsole, n) = 5 /\ Stage(ToConsole, n) = 2
  BY DEF Stage, ConsoleOut, FromConsole, ToConsole
<1>3. QED
  BY <1>1, <1>2

LEMMA AtProxy ==
  ASSUME NEW c \in Clusters, NEW m, NEW n
  PROVE  /\ OnRoute(ToProxy(c), m, n) <=> c = ClusterRank(m) /\ ClusterRank(m) # ClusterRank(n)
         /\ OnRoute(ProxyIn(c), m, n) <=> c = ClusterRank(n) /\ ClusterRank(m) # ClusterRank(n)
         /\ Stage(ToProxy(c), n) = 4 /\ Stage(ProxyIn(c), n) = 3
<1>1. /\ OnRoute(ToProxy(c), m, n) <=> c = ClusterRank(m) /\ ClusterRank(m) # ClusterRank(n)
      /\ OnRoute(ProxyIn(c), m, n) <=> c = ClusterRank(n) /\ ClusterRank(m) # ClusterRank(n)
  BY DEF OnRoute, ToProxy, ProxyIn
<1>2. Stage(ToProxy(c), n) = 4 /\ Stage(ProxyIn(c), n) = 3
  BY DEF Stage, ToProxy, ProxyIn
<1>3. QED
  BY <1>1, <1>2

\* The place deliver_elsewhere of rank r puts a packet for n in, and the one
\* a filter of node m puts it in.
HopPlace(r, n) ==
  IF n = Console /\ HandlesConsole(r) THEN ToConsole
  ELSE IF IsGateway(r) /\ CrossCluster(r, n) THEN ToProxy(ClusterOf[r])
  ELSE IF n = Console \/ CrossCluster(r, n) THEN Chan(r, Gateway(ClusterOf[r]))
  ELSE Chan(r, n)
WriterPlace(m, n) ==
  IF m = Console THEN ConsoleOut
  ELSE IF n = Console /\ HandlesConsole(m) THEN ToConsole
  ELSE IF IsGateway(m) /\ CrossCluster(m, n) THEN ToProxy(ClusterOf[m])
  ELSE OutQ(m)

\* The places deliver_elsewhere of rank r takes packets from.
HandledBy(a, r) ==
  \/ a = OutQ(r) \/ \E i \in Ranks : a = Chan(i, r)
  \/ a = FromConsole /\ HandlesConsole(r)
  \/ a = ProxyIn(ClusterOf[r]) /\ IsGateway(r)

\* The places on a route, from the last back to the first.
LEMMA RoutePlaces ==
  ASSUME NEW m \in AllNodes, NEW n \in AllNodes, NEW x \in Places, OnRoute(x, m, n)
  PROVE
  \/ /\ x = OutQ(m) /\ m \in Ranks /\ ~(n = Console /\ m = 0) /\ Stage(x, n) = 6
     /\ ~(IsGateway(m) /\ CrossCluster(m, n))
  \/ x = ConsoleOut /\ m = Console /\ Stage(x, n) = 6
  \/ x = FromConsole /\ m = Console /\ Stage(x, n) = 5
  \/ /\ x = Chan(m, Gateway(ClusterRank(m))) /\ m \in Ranks /\ Stage(x, n) = 5
     /\ Gateway(ClusterRank(m)) # m /\ Gateway(ClusterRank(m)) # n
     /\ n = Console \/ ClusterRank(m) # ClusterRank(n)
  \/ x = ToProxy(ClusterRank(m)) /\ ClusterRank(m) # ClusterRank(n) /\ Stage(x, n) = 4
  \/ x = ProxyIn(ClusterRank(n)) /\ ClusterRank(m) # ClusterRank(n) /\ Stage(x, n) = 3
  \/ x = ToConsole /\ n = Console /\ Stage(x, n) = 2
  \/ /\ x = Chan(m, n) /\ m \in Ranks /\ n \in Ranks /\ m # n
     /\ ClusterRank(m) = ClusterRank(n) /\ Stage(x, n) = 2
  \/ /\ x = Chan(Gateway(ClusterRank(n)), n) /\ n \in Ranks /\ Gateway(ClusterRank(n)) # n
     /\ m = Console \/ ClusterRank(m) # ClusterRank(n) 
     /\ Stage(x, n) = 2
<1>1. CASE \E r \in Ranks : x = OutQ(r)
  <2>1. PICK r \in Ranks : x = OutQ(r)
    BY <1>1
  <2>2. QED
    BY <2>1, AtOutQ
<1>2. CASE \E i, r \in Ranks : x = Chan(i, r)
  <2>1. PICK i \in Ranks, r \in Ranks : x = Chan(i, r)
    BY <1>2
  <2>2. Stage(x, n) = IF r = n THEN 2 ELSE 5
    BY <2>1, AtChan
  <2>3. CASE /\ i = m /\ r = Gateway(ClusterRank(m)) /\ r # m /\ r # n
             /\ n = Console \/ ClusterRank(m) # ClusterRank(n)
    BY <2>1, <2>2, <2>3
  <2>4. CASE /\ r = n /\ i # n
             /\ i = IF m # Console /\ ClusterRank(m) = ClusterRank(n) THEN m
                    ELSE Gateway(ClusterRank(n))
    BY <2>1, <2>2, <2>4
  <2>5. QED
    BY <2>1, <2>3, <2>4, AtChan
<1>3. CASE x = ToConsole \/ x = ConsoleOut \/ x = FromConsole
  BY <1>3, AtConsole
<1>4. CASE \E c \in Clusters : x = ToProxy(c)
  <2>1. PICK c \in Clusters : x = ToProxy(c)
    BY <1>4
  <2>2. QED
    BY <2>1, AtProxy
<1>5. CASE \E c \in Clusters : x = ProxyIn(c)
  <2>1. PICK c \in Clusters : x = ProxyIn(c)
    BY <1>5
  <2>2. QED
    BY <2>1, AtProxy
<1>6. QED
  BY <1>1, <1>2, <1>3, <1>4, <1>5, PlaceKinds

LEMMA HopIsNext ==
  ASSUME NEW r \in Ranks, NEW m \in AllNodes, NEW n \in AllNodes, m # n, n # r,
         NEW a \in Places, HandledBy(a, r), OnRoute(a, m, n), NEW b, b = HopPlace(r, n)
  PROVE  /\ b \in Places /\ OnRoute(b, m, n) /\ Stage(b, n) < Stage(a, n)
         /\ \A x \in Places : OnRoute(x, m, n) /\ Stage(x, n) < Stage(a, n)
                              => x = b \/ Stage(x, n) < Stage(b, n)
<1>1. HandlesConsole(r) <=> r = 0
  BY DEF HandlesConsole
<1>2. /\ ClusterRank(r) = ClusterOf[r]
      /\ IsGateway(r) <=> r = Gateway(ClusterRank(r))
      /\ CrossCluster(r, n) <=> ClusterRank(r) # ClusterRank(n)
      /\ ClusterRank(r) \in Clusters /\ ClusterRank(n) \in Clusters
      /\ Gateway(ClusterRank(r)) \in Ranks /\ Gateway(ClusterRank(n)) \in Ranks
      /\ n = Console => ClusterRank(n) = 0
      /\ Gateway(0) = 0 /\ ClusterRank(0) = 0 /\ r # Console
      /\ n \in Ranks \/ n = Console
      /\ Console \notin Ranks
      /\ ClusterRank(m) \in Clusters /\ ClusterOf[Gateway(ClusterRank(m))] = ClusterRank(m)
  BY Gateways
<1>3. \* where the packet is
      \/ /\ Stage(a, n) = 6 /\ m = r
         /\ ~(n = Console /\ m = 0) /\ ~(IsGateway(m) /\ CrossCluster(m, n))
      \/ Stage(a, n) = 5 /\ m = Console /\ r = 0
      \/ /\ Stage(a, n) = 5 /\ m \in Ranks /\ r = Gateway(ClusterRank(m)) /\ m # r
         /\ n = Console \/ ClusterRank(m) # ClusterRank(n)
      \/ Stage(a, n) = 3 /\ ClusterRank(m) # ClusterRank(n) /\ r = Gateway(ClusterRank(n))
  <2>1. CASE a = OutQ(r)
    BY <2>1, AtOutQ
  <2>2. CASE \E i \in Ranks : a = Chan(i, r)
    <3>1. PICK i \in Ranks : a = Chan(i, r)
      BY <2>2
    <3>2. QED
      BY <3>1, AtChan
  <2>3. CASE a = FromConsole /\ HandlesConsole(r)
    BY <1>1, <2>3, AtConsole
  <2>4. CASE a = ProxyIn(ClusterOf[r]) /\ IsGateway(r)
    BY <1>2, <2>4, AtProxy
  <2>5. QED
    BY <2>1, <2>2, <2>3, <2>4 DEF HandledBy
<1>4. b \in Places
  BY <1>2, PlaceKinds DEF HopPlace
<1>5. CASE n = Console /\ r = 0
  <2>1. b = ToConsole
    BY <1>1, <1>5 DEF HopPlace
  <2>2. OnRoute(b, m, n) /\ Stage(b, n) = 2
    BY <1>5, <2>1, AtConsole
  <2>3. Stage(a, n) > 2
    BY <1>3
  <2>4. ASSUME NEW x \in Places, OnRoute(x, m, n), Stage(x, n) < Stage(a, n)
        PROVE  x = b \/ Stage(x, n) < 2
    BY <1>2, <1>3, <1>5, <2>1, <2>4, RoutePlaces
  <2>5. QED
    BY <1>4, <2>2, <2>3, <2>4
<1>6. CASE ~(n = Console /\ r = 0) /\ IsGateway(r) /\ CrossCluster(r, n)
  <2>1. b = ToProxy(ClusterRank(r))
    BY <1>1, <1>2, <1>6 DEF HopPlace
  <2>2. Stage(a, n) > 4 /\ ClusterRank(m) = ClusterRank(r)
    BY <1>2, <1>3, <1>6, Gateways
  <2>3. OnRoute(b, m, n) /\ Stage(b, n) = 4
    BY <1>2, <1>6, <2>1, <2>2, AtProxy
  <2>4. ASSUME NEW x \in Places, OnRoute(x, m, n), Stage(x, n) < Stage(a, n)
        PROVE  x = b \/ Stage(x, n) < 4
    BY <1>2, <1>3, <1>6, <2>1, <2>2, <2>4, RoutePlaces
  <2>5. QED
    BY <1>4, <2>2, <2>3, <2>4
<1>7. CASE /\ ~(n = Console /\ r = 0) /\ ~(IsGateway(r) /\ CrossCluster(r, n))
           /\ n = Console \/ CrossCluster(r, n)
  <2>1. b = Chan(r, Gateway(ClusterRank(r)))
    BY <1>1, <1>2, <1>7 DEF HopPlace
  <2>2. Stage(a, n) = 6 /\ m = r /\ Gateway(ClusterRank(r)) # r /\ Gateway(ClusterRank(r)) # n
    BY <1>2, <1>3, <1>7, Gateways
  <2>3. OnRoute(b, m, n) /\ Stage(b, n) = 5
    BY <1>2, <1>7, <2>1, <2>2, AtChan
  <2>4. ASSUME NEW x \in Places, OnRoute(x, m, n), Stage(x, n) < Stage(a, n)
        PROVE  x = b \/ Stage(x, n) < 5
    BY <1>2, <1>3, <1>7, <2>1, <2>2, <2>4, RoutePlaces
  <2>5. QED
    BY <1>4, <2>2, <2>3, <2>4
<1>8. CASE n \in Ranks /\ ~CrossCluster(r, n)
  <2>1. b = Chan(r, n)
    BY <1>1, <1>2, <1>8 DEF HopPlace
  <2>2. OnRoute(b, m, n) /\ Stage(b, n) = 2 /\ Stage(a, n) > 2
    BY <1>2, <1>3, <1>8, <2>1, AtChan, Gateways
  <2>3. ASSUME NEW x \in Places, OnRoute(x, m, n), Stage(x, n) < Stage(a, n)
        PROVE  x = b \/ Stage(x, n) < 2
    BY <1>2, <1>3, <1>8, <2>1, <2>2, <2>3, RoutePlaces, Gateways
  <2>4. QED
    BY <1>4, <2>2, <2>3
<1>9. QED
  BY <1>2, <1>5, <1>6, <1>7, <1>8
\* The next place on a route after the bridge to rank 0, and after a gateway.
LEMMA LinkIsNext ==
  ASSUME NEW m \in AllNodes, NEW n \in AllNodes, NEW a \in Places, OnRoute(a, m, n), NEW b,
         \/ a = ConsoleOut /\ b = FromConsole
         \/ (\E c \in Clusters : a = ToProxy(c)) /\ b = ProxyIn(ClusterRank(n))
  PROVE  /\ b \in Places /\ OnRoute(b, m, n) /\ Stage(b, n) < Stage(a, n)
         /\ \A x \in Places : OnRoute(x, m, n) /\ Stage(x, n) < Stage(a, n)
                              => x = b \/ Stage(x, n) < Stage(b, n)
<1>1. CASE a = ConsoleOut /\ b = FromConsole
  <2>1. m = Console /\ Stage(a, n) = 6 /\ Stage(b, n) = 5 /\ OnRoute(b, m, n)
    BY <1>1, AtConsole
  <2>2. b \in Places
    BY <1>1, PlaceKinds
  <2>3. ASSUME NEW x \in Places, OnRoute(x, m, n), Stage(x, n) < 6
        PROVE  x = b \/ Stage(x, n) < 5
    BY <1>1, <2>1, <2>3, RoutePlaces, Gateways
  <2>4. QED
    BY <2>1, <2>2, <2>3
<1>2. CASE (\E c \in Clusters : a = ToProxy(c)) /\ b = ProxyIn(ClusterRank(n))
  <2>1. ClusterRank(m) # ClusterRank(n) /\ Stage(a, n) = 4
    BY <1>2, AtProxy
  <2>2. b \in Places /\ Stage(b, n) = 3 /\ OnRoute(b, m, n)
    BY <1>2, <2>1, AtProxy, PlaceKinds, Gateways
  <2>3. ASSUME NEW x \in Places, OnRoute(x, m, n), Stage(x, n) < 4
        PROVE  x = b \/ Stage(x, n) < 3
    BY <1>2, <2>3, RoutePlaces
  <2>4. QED
    BY <2>1, <2>2, <2>3
<1>3. QED
  BY <1>1, <1>2

\* A filter puts its packets in the first place of their route.
LEMMA WriterIsFirst ==
  ASSUME NEW m \in AllNodes, NEW n \in AllNodes, m # n, NEW b, b = WriterPlace(m, n)
  PROVE  /\ b \in Places /\ OnRoute(b, m, n)
         /\ \A x \in Places : OnRoute(x, m, n) => x = b \/ Stage(x, n) < Stage(b, n)
<1>1. CASE m = Console
  <2>1. b = ConsoleOut
    BY <1>1 DEF WriterPlace
  <2>2. b \in Places /\ OnRoute(b, m, n) /\ Stage(b, n) = 6
    BY <1>1, <2>1, AtConsole, PlaceKinds
  <2>3. ASSUME NEW x \in Places, OnRoute(x, m, n) PROVE x = b \/ Stage(x, n) < 6
    BY <1>1, <2>1, <2>3, RoutePlaces, Gateways
  <2>4. QED
    BY <2>2, <2>3
<1>2. CASE m # Console
  <2>1. /\ m \in Ranks /\ ClusterRank(m) = ClusterOf[m] /\ ClusterOf[m] \in Clusters
        /\ IsGateway(m) <=> m = Gateway(ClusterRank(m))
        /\ CrossCluster(m, n) <=> ClusterRank(m) # ClusterRank(n)
        /\ HandlesConsole(m) <=> m = 0
        /\ Gateway(0) = 0 /\ ClusterRank(0) = 0 /\ ClusterRank(Console) = 0
        /\ Console \notin Ranks
    BY <1>2, Gateways DEF HandlesConsole
  <2>2. CASE n = Console /\ m = 0
    <3>1. b = ToConsole
      BY <1>2, <2>1, <2>2 DEF WriterPlace
    <3>2. b \in Places /\ OnRoute(b, m, n) /\ Stage(b, n) = 2
      BY <2>2, <3>1, AtConsole, PlaceKinds
    <3>3. ASSUME NEW x \in Places, OnRoute(x, m, n) PROVE x = b \/ Stage(x, n) < 2
      BY <1>2, <2>1, <2>2, <3>1, <3>3, RoutePlaces
    <3>4. QED
      BY <3>2, <3>3
  <2>3. CASE ~(n = Console /\ m = 0) /\ IsGateway(m) /\ CrossCluster(m, n)
    <3>1. b = ToProxy(ClusterRank(m))
      BY <1>2, <2>1, <2>3 DEF WriterPlace
    <3>2. b \in Places /\ OnRoute(b, m, n) /\ Stage(b, n) = 4
      <4>1. b \in Places
        BY <2>1, <3>1, PlaceKinds
      <4>2. QED
        BY <2>1, <2>3, <3>1, <4>1, AtProxy
    <3>3. ASSUME NEW x \in Places, OnRoute(x, m, n) PROVE x = b \/ Stage(x, n) < 4
      BY <1>2, <2>1, <2>3, <3>1, <3>3, RoutePlaces
    <3>4. QED
      BY <3>2, <3>3
  <2>4. CASE ~(n = Console /\ m = 0) /\ ~(IsGateway(m) /\ CrossCluster(m, n))
    <3>1. b = OutQ(m)
      BY <1>2, <2>1, <2>4 DEF WriterPlace
    <3>2. b \in Places /\ OnRoute(b, m, n) /\ Stage(b, n) = 6
      BY <2>1, <2>4, <3>1, AtOutQ, PlaceKinds
    <3>3. ASSUME NEW x \in Places, OnRoute(x, m, n) PROVE x = b \/ Stage(x, n) < 6
      BY <1>2, <3>1, <3>3, RoutePlaces
    <3>4. QED
      BY <3>2, <3>3
  <2>5. QED
    BY <2>2, <2>3, <2>4
<1>3. QED
  BY <1>1, <1>2

\* A main loop puts its done packets in the first place of their route after
\* its out-queue.
LEMMA AnnounceIsFirst ==
  ASSUME NEW r \in Ranks, NEW n \in AllNodes, n # r, NEW b, b = HopPlace(r, n)
  PROVE  /\ b \in Places /\ OnRoute(b, r, n)
         /\ \A x \in Places : OnRoute(x, r, n)
              => x = b \/ Stage(x, n) < Stage(b, n) \/ x = OutQ(r)
<1>1. r \in AllNodes /\ OutQ(r) \in Places /\ HandledBy(OutQ(r), r)
  BY Gateways, PlaceKinds DEF HandledBy
<1>2. CASE OnRoute(OutQ(r), r, n)
  <2>1. Stage(OutQ(r), n) = 6
    BY AtOutQ
  <2>2. /\ b \in Places /\ OnRoute(b, r, n)
        /\ \A x \in Places : OnRoute(x, r, n) /\ Stage(x, n) < 6
             => x = b \/ Stage(x, n) < Stage(b, n)
    BY <1>1, <1>2, <2>1, HopIsNext
  <2>3. ASSUME NEW x \in Places, OnRoute(x, r, n) PROVE Stage(x, n) < 6 \/ x = OutQ(r)
    BY <1>1, <2>3, RoutePlaces, Gateways
  <2>4. QED
    BY <2>2, <2>3
<1>3. CASE ~OnRoute(OutQ(r), r, n)
  <2>1. (n = Console /\ r = 0) \/ (IsGateway(r) /\ CrossCluster(r, n))
    BY <1>3, AtOutQ
  <2>2. b = WriterPlace(r, n)
    BY <2>1, Gateways DEF HopPlace, WriterPlace, HandlesConsole
  <2>3. QED
    BY <1>1, <2>2, WriterIsFirst
<1>4. QED
  BY <1>2, <1>3

\* The places a node takes its own packets from, the last on their routes.
ReceivedAt(a, n) ==
  \/ n = Console /\ a = ToConsole
  \/ n \in Ranks /\ \E i \in Ranks : a = Chan(i, n)
  \/ n = 0 /\ a = FromConsole
  \/ \E c \in Clusters : a = ProxyIn(c) /\ n = Gateway(c)

LEMMA ReceiptIsLast ==
  ASSUME NEW m \in AllNodes, NEW n \in AllNodes, m # n,
         NEW a \in Places, ReceivedAt(a, n), OnRoute(a, m, n),
         NEW x \in Places, OnRoute(x, m, n)
  PROVE  x = a \/ Stage(a, n) < Stage(x, n)
<1>0. /\ Console \notin Ranks /\ ClusterRank(Console) = 0
      /\ Gateway(0) = 0 /\ ClusterRank(0) = 0
  BY Gateways
<1>1. CASE n = Console /\ a = ToConsole
  BY <1>0, <1>1, RoutePlaces, AtConsole
<1>2. CASE n \in Ranks /\ \E i \in Ranks : a = Chan(i, n)
  <2>1. PICK i \in Ranks : a = Chan(i, n)
    BY <1>2
  <2>2. Stage(a, n) = 2
    BY <1>2, <2>1, AtChan
  <2>3. i = IF m # Console /\ ClusterRank(m) = ClusterRank(n) THEN m ELSE Gateway(ClusterRank(n))
    BY <1>2, <2>1, AtChan
  <2>4. n # Console
    BY <1>0, <1>2
  <2>5. QED
    BY <1>0, <2>1, <2>2, <2>3, <2>4, RoutePlaces
<1>3. CASE n = 0 /\ a = FromConsole
  <2>1. m = Console /\ Stage(a, n) = 5
    BY <1>3, AtConsole
  <2>2. QED
    BY <1>0, <1>3, <2>1, RoutePlaces
<1>4. CASE \E c \in Clusters : a = ProxyIn(c) /\ n = Gateway(c)
  <2>1. PICK c \in Clusters : a = ProxyIn(c) /\ n = Gateway(c)
    BY <1>4
  <2>2. Stage(a, n) = 3 /\ c = ClusterRank(n) /\ ClusterRank(m) # ClusterRank(n)
    BY <2>1, AtProxy
  <2>3. n \in Ranks /\ n # Console
    BY <1>0, <2>1, Gateways
  <2>4. QED
    BY <1>0, <2>1, <2>2, <2>3, RoutePlaces
<1>5. QED
  BY <1>1, <1>2, <1>3, <1>4 DEF ReceivedAt
-----------------------------------------------------------------------------
(* What the actions do to the places                                       *)

LEMMA PacketHosts ==
  ASSUME NEW w, NEW g
  PROVE  /\ \A n : /\ DcBuf(w, g, n).from = HostOf[w] /\ DcBuf(w, g, n).to = HostOf[g]
                   /\ DcBuf(w, g, n).writer = w /\ DcBuf(w, g, n).reader = g
                   /\ DcBuf(w, g, n).type = "DCBUF" /\ DcBuf(w, g, n).seq = n
         /\ RemovePutter(w, g).from = HostOf[w] /\ RemovePutter(w, g).to = HostOf[g]
         /\ RemovePutter(w, g).writer = w /\ RemovePutter(w, g).reader = g
         /\ RemovePutter(w, g).type = "REMOVE_PUTTER"
BY DEF DcBuf, RemovePutter

LEMMA DoneFields ==
  /\ \A m, n : /\ AllDone(m, n).from = m /\ AllDone(m, n).to = n
               /\ AllDone(m, n).type = "ALL_MY_FILTERS_DONE"
  /\ Close.from = Console /\ Close.to = 0 /\ Close.type = "CLOSE"
BY DEF AllDone, Close

\* A packet is told from others by its type and fields.
LEMMA GenuineKinds ==
  ASSUME Genuine, NEW q \in Flying
  PROVE  /\ q.type \in {"DCBUF", "REMOVE_PUTTER"} =>
              /\ <<q.writer, q.reader>> \in Streams
              /\ q.from = HostOf[q.writer] /\ q.to = HostOf[q.reader]
         /\ q.type = "DCBUF" => q = DcBuf(q.writer, q.reader, q.seq)
         /\ q.type = "REMOVE_PUTTER" => q = RemovePutter(q.writer, q.reader)
         /\ q.type = "ALL_MY_FILTERS_DONE" =>
              /\ q.from \in Nodes /\ q.to \in Nodes
              /\ q = AllDone(q.from, q.to) /\ SentTo(q.from, q.to)
         /\ q.type = "CLOSE" => q = Close /\ (ConsolePresent => consoleSent)
         /\ q.from # q.to
<1>1. CASE /\ q.type = "DCBUF" /\ <<q.writer, q.reader>> \in Streams
           /\ q = DcBuf(q.writer, q.reader, q.seq)
  <2>1. q.from = HostOf[q.writer] /\ q.to = HostOf[q.reader]
    <3>1. /\ DcBuf(q.writer, q.reader, q.seq).from = HostOf[q.writer]
          /\ DcBuf(q.writer, q.reader, q.seq).to = HostOf[q.reader]
      BY DEF DcBuf
    <3>2. QED
      BY <1>1, <3>1
  <2>2. QED
    BY <1>1, <2>1 DEF Genuine, IsGenuine
<1>2. CASE /\ q.type = "REMOVE_PUTTER" /\ <<q.writer, q.reader>> \in Streams
           /\ q = RemovePutter(q.writer, q.reader)
  <2>1. q.from = HostOf[q.writer] /\ q.to = HostOf[q.reader]
    <3>1. /\ RemovePutter(q.writer, q.reader).from = HostOf[q.writer]
          /\ RemovePutter(q.writer, q.reader).to = HostOf[q.reader]
      BY PacketHosts
    <3>2. QED
      BY <1>2, <3>1
  <2>2. QED
    BY <1>2, <2>1 DEF Genuine, IsGenuine
<1>3. CASE /\ q.type = "ALL_MY_FILTERS_DONE" /\ q.from \in Nodes /\ q.to \in Nodes
           /\ q = AllDone(q.from, q.to) /\ SentTo(q.from, q.to)
  BY <1>3 DEF Genuine, IsGenuine
<1>4. CASE q = Close /\ (ConsolePresent => consoleSent)
  BY <1>4, DoneFields DEF Genuine, IsGenuine
<1>5. QED
  BY <1>1, <1>2, <1>3, <1>4 DEF Genuine, IsGenuine

LEMMA FlyingFacts ==
  ASSUME TypeOK, Genuine, NEW p \in Flying
  PROVE  p \in Packet /\ p.from \in AllNodes /\ p.to \in AllNodes /\ p.from # p.to
<1>1. PICK a \in Places : \E k \in DOMAIN Queue[a] : Queue[a][k] = p
  BY FlyingAt
<1>2. PICK k \in DOMAIN Queue[a] : Queue[a][k] = p
  BY <1>1
<1>3. Queue[a] \in Seq(Packet)
  BY QueueTyped
<1>4. p \in Packet
  BY <1>2, <1>3
<1>5. p.from # p.to
  BY DEF Genuine, IsGenuine
<1>6. QED
  BY <1>4, <1>5 DEF Packet

\* Packets that have to keep their order are between the same nodes.
LEMMA BeforeTogether ==
  ASSUME Genuine
  PROVE  \A p, q \in Flying : Before(p, q) => p.from = q.from /\ p.to = q.to
<1> SUFFICES ASSUME NEW p \in Flying, NEW q \in Flying, Before(p, q)
             PROVE  p.from = q.from /\ p.to = q.to
  OBVIOUS
<1>1. \A x \in Flying : x.type \in {"DCBUF", "REMOVE_PUTTER"} =>
        x.from = HostOf[x.writer] /\ x.to = HostOf[x.reader]
  BY GenuineKinds
<1>2. CASE SameStream(p, q) /\ p.type \in {"DCBUF", "REMOVE_PUTTER"}
           /\ q.type \in {"DCBUF", "REMOVE_PUTTER"}
  BY <1>1, <1>2 DEF SameStream
<1>3. CASE p.from = q.from /\ p.to = q.to
  BY <1>3
<1>4. QED
  BY <1>2, <1>3 DEF Before

\* deliver_elsewhere adds the packet to one place.
LEMMA ElsewhereAdds ==
  ASSUME MpiTypes, BridgeTypes, NEW r \in Ranks, NEW p, p.to \in AllNodes, p.to # r,
         NEW ch \in [Ranks -> [Ranks -> Seq(Packet)]], DeliverElsewhere(r, p, ch),
         NEW b, b = HopPlace(r, p.to)
  PROVE  /\ \A i, s \in Ranks :
              chan'[i][s] = IF Chan(i, s) = b THEN Append(ch[i][s], p) ELSE ch[i][s]
         /\ toConsole' = IF ToConsole = b THEN Append(toConsole, p) ELSE toConsole
         /\ \A c \in Clusters :
              toProxy'[c] = IF ToProxy(c) = b THEN Append(toProxy[c], p) ELSE toProxy[c]
         /\ \A s \in Ranks : OutQ(s) # b
         /\ \A c \in Clusters : ProxyIn(c) # b
         /\ ConsoleOut # b /\ FromConsole # b
<1> DEFINE n == p.to
           hop == Hop(r, p)
<1>1. /\ toConsole' = IF hop = ConsoleHop THEN Append(toConsole, p) ELSE toConsole
      /\ toProxy' = IF hop = ProxyHop
                    THEN [toProxy EXCEPT ![ClusterOf[r]] = Append(@, p)] ELSE toProxy
      /\ chan' = IF hop \in Ranks THEN [ch EXCEPT ![r][hop] = Append(@, p)] ELSE ch
  BY DEF DeliverElsewhere
<1>2. /\ \A i, s \in Ranks : /\ Chan(i, s) # ToConsole
                             /\ \A j, t \in Ranks : Chan(i, s) = Chan(j, t) <=> i = j /\ s = t
                             /\ \A c \in Clusters : Chan(i, s) # ToProxy(c)
      /\ \A c, d \in Clusters : /\ ToProxy(c) # ToConsole
                                /\ ToProxy(c) = ToProxy(d) <=> c = d
  BY DEF Chan, ToConsole, ToProxy
<1>3. /\ ClusterOf[r] \in Clusters /\ Gateway(ClusterOf[r]) \in Ranks
      /\ n \in Ranks \/ n = Console
      /\ ConsoleHop \notin Ranks /\ ProxyHop \notin Ranks /\ ConsoleHop # ProxyHop
  <2>1. ConsoleHop \notin Ranks /\ ProxyHop \notin Ranks /\ ConsoleHop # ProxyHop
    BY Topology DEF ConsoleHop, ProxyHop, Console
  <2>2. QED
    BY <2>1, Gateways
<1>4. CASE n = Console /\ HandlesConsole(r)
  <2>1. hop = ConsoleHop /\ b = ToConsole
    BY <1>4 DEF Hop, HopPlace
  <2>2. chan' = ch /\ toProxy' = toProxy /\ toConsole' = Append(toConsole, p)
    BY <1>1, <1>3, <2>1
  <2>3. QED
    BY <1>2, <2>1, <2>2 DEF OutQ, ProxyIn, ToConsole, ConsoleOut, FromConsole
<1>5. CASE ~(n = Console /\ HandlesConsole(r)) /\ IsGateway(r) /\ CrossCluster(r, n)
  <2>1. hop = ProxyHop /\ b = ToProxy(ClusterOf[r])
    BY <1>5, CrossingUsesProxy DEF Hop, HopPlace
  <2>2. /\ chan' = ch /\ toConsole' = toConsole
        /\ toProxy' = [toProxy EXCEPT ![ClusterOf[r]] = Append(@, p)]
    BY <1>1, <1>3, <2>1
  <2>3. \A c \in Clusters : toProxy'[c] = IF c = ClusterOf[r] THEN Append(toProxy[c], p)
                                          ELSE toProxy[c]
    BY <1>3, <2>2 DEF BridgeTypes
  <2>4. \A c \in Clusters : ToProxy(c) = b <=> c = ClusterOf[r]
    BY <1>2, <1>3, <2>1
  <2>5. ToConsole # b /\ (\A i, s \in Ranks : Chan(i, s) # b)
    BY <1>2, <1>3, <2>1
  <2>6. /\ \A s \in Ranks : OutQ(s) # b
        /\ \A c \in Clusters : ProxyIn(c) # b
        /\ ConsoleOut # b /\ FromConsole # b
    BY <2>1 DEF OutQ, ProxyIn, ToProxy, ConsoleOut, FromConsole
  <2>7. QED
    BY <2>2, <2>3, <2>4, <2>5, <2>6
<1>6. CASE /\ ~(n = Console /\ HandlesConsole(r)) /\ ~(IsGateway(r) /\ CrossCluster(r, n))
  <2>1. hop \in Ranks /\ b = Chan(r, hop)
    BY <1>3, <1>6 DEF Hop, HopPlace
  <2>2. /\ toProxy' = toProxy /\ toConsole' = toConsole
        /\ chan' = [ch EXCEPT ![r][hop] = Append(@, p)]
    BY <1>1, <1>3, <2>1
  <2>3. \A i, s \in Ranks : chan'[i][s] = IF i = r /\ s = hop THEN Append(ch[i][s], p)
                                          ELSE ch[i][s]
    BY <2>1, <2>2
  <2>4. \A i, s \in Ranks : Chan(i, s) = b <=> i = r /\ s = hop
    BY <1>2, <2>1
  <2>5. ToConsole # b /\ (\A c \in Clusters : ToProxy(c) # b)
    BY <1>2, <2>1
  <2>6. /\ \A s \in Ranks : OutQ(s) # b
        /\ \A c \in Clusters : ProxyIn(c) # b
        /\ ConsoleOut # b /\ FromConsole # b
    BY <2>1 DEF OutQ, ProxyIn, Chan, ConsoleOut, FromConsole
  <2>7. QED
    BY <2>2, <2>3, <2>4, <2>5, <2>6
<1>7. QED
  BY <1>4, <1>5, <1>6
\* The head of place a is taken by a main loop; ch is what this makes of the
\* channels.
Taken(a, ch) ==
  /\ a \in Places /\ Queue[a] # <<>>
  /\ ch \in [Ranks -> [Ranks -> Seq(Packet)]]
  /\ \A i, s \in Ranks : ch[i][s] = IF Chan(i, s) = a THEN Tail(chan[i][s]) ELSE chan[i][s]
  /\ \A s \in Ranks : outq'[s] = IF OutQ(s) = a THEN Tail(outq[s]) ELSE outq[s]
  /\ \A c \in Clusters : proxyIn'[c] = IF ProxyIn(c) = a THEN Tail(proxyIn[c]) ELSE proxyIn[c]
  /\ fromConsole' = IF FromConsole = a THEN Tail(fromConsole) ELSE fromConsole
  /\ consoleOut' = consoleOut

LEMMA HandledApart ==
  ASSUME NEW r \in Ranks, NEW a, HandledBy(a, r)
  PROVE  a # ToConsole /\ a # ConsoleOut /\ \A c \in Clusters : a # ToProxy(c)
BY DEF HandledBy, OutQ, Chan, FromConsole, ProxyIn, ToConsole, ConsoleOut, ToProxy

LEMMA TakenIsTaken ==
  ASSUME NEW r \in Ranks, NEW a, HandledBy(a, r), NEW ch, Taken(a, ch),
         chan' = ch, UNCHANGED <<toConsole, toProxy>>
  PROVE  TakeStep(a)
<1>1. a \in Places /\ Queue[a] # <<>>
  BY DEF Taken
<1>2. a # ToConsole /\ a # ConsoleOut /\ \A c \in Clusters : a # ToProxy(c)
  BY HandledApart
<1> SUFFICES ASSUME NEW x \in Places
             PROVE  Queue'[x] = IF x = a THEN Tail(Queue[x]) ELSE Queue[x]
  BY <1>1 DEF TakeStep
<1>3. CASE \E s \in Ranks : x = OutQ(s)
  <2>1. PICK s \in Ranks : x = OutQ(s)
    BY <1>3
  <2>2. QED
    BY <2>1, QueueAt, QueueNext DEF Taken
<1>4. CASE \E i, s \in Ranks : x = Chan(i, s)
  <2>1. PICK i \in Ranks, s \in Ranks : x = Chan(i, s)
    BY <1>4
  <2>2. chan'[i][s] = IF Chan(i, s) = a THEN Tail(chan[i][s]) ELSE chan[i][s]
    BY DEF Taken
  <2>3. QED
    BY <2>1, <2>2, QueueAt, QueueNext
<1>5. CASE x = ToConsole \/ x = ConsoleOut \/ x = FromConsole
  BY <1>2, <1>5, QueueAt, QueueNext DEF Taken
<1>6. CASE \E c \in Clusters : x = ToProxy(c)
  BY <1>2, <1>6, QueueAt, QueueNext
<1>7. CASE \E c \in Clusters : x = ProxyIn(c)
  <2>1. PICK c \in Clusters : x = ProxyIn(c)
    BY <1>7
  <2>2. QED
    BY <2>1, QueueAt, QueueNext DEF Taken
<1>8. QED
  BY <1>3, <1>4, <1>5, <1>6, <1>7, PlaceKinds

LEMMA TakenIsMoved ==
  ASSUME TypeOK, NEW r \in Ranks, NEW a, HandledBy(a, r), NEW ch, Taken(a, ch),
         NEW p, p = Head(Queue[a]), p.to \in AllNodes, p.to # r, DeliverElsewhere(r, p, ch),
         NEW b, b = HopPlace(r, p.to), b \in Places, a # b
  PROVE  MoveStep(a, b)
<1>0. MpiTypes /\ BridgeTypes /\ ch \in [Ranks -> [Ranks -> Seq(Packet)]]
  BY DEF TypeOK, Taken
<1>1. a \in Places /\ Queue[a] # <<>>
  BY DEF Taken
<1>2. a # ToConsole /\ a # ConsoleOut /\ \A c \in Clusters : a # ToProxy(c)
  BY HandledApart
<1>3. /\ \A i, s \in Ranks :
              chan'[i][s] = IF Chan(i, s) = b THEN Append(ch[i][s], p) ELSE ch[i][s]
      /\ toConsole' = IF ToConsole = b THEN Append(toConsole, p) ELSE toConsole
      /\ \A c \in Clusters :
              toProxy'[c] = IF ToProxy(c) = b THEN Append(toProxy[c], p) ELSE toProxy[c]
      /\ \A s \in Ranks : OutQ(s) # b
      /\ \A c \in Clusters : ProxyIn(c) # b
      /\ ConsoleOut # b /\ FromConsole # b
  <2>1. b = HopPlace(r, p.to) /\ p.to \in AllNodes /\ p.to # r /\ DeliverElsewhere(r, p, ch)
    OBVIOUS
  <2>2. QED
    BY ONLY <1>0, <2>1, r \in Ranks, ElsewhereAdds
<1> SUFFICES ASSUME NEW x \in Places
             PROVE  Queue'[x] = IF x = a THEN Tail(Queue[x])
                                ELSE IF x = b THEN Append(Queue[x], p)
                                ELSE Queue[x]
  BY <1>1 DEF MoveStep
<1>4. CASE \E s \in Ranks : x = OutQ(s)
  <2>1. PICK s \in Ranks : x = OutQ(s)
    BY <1>4
  <2>2. QED
    BY <1>3, <2>1, QueueAt, QueueNext DEF Taken
<1>5. CASE \E i, s \in Ranks : x = Chan(i, s)
  <2>1. PICK i \in Ranks, s \in Ranks : x = Chan(i, s)
    BY <1>5
  <2>2. ch[i][s] = IF Chan(i, s) = a THEN Tail(chan[i][s]) ELSE chan[i][s]
    BY DEF Taken
  <2>3. chan'[i][s] = IF Chan(i, s) = b THEN Append(ch[i][s], p) ELSE ch[i][s]
    BY <1>3
  <2>4. QED
    BY <2>1, <2>2, <2>3, QueueAt, QueueNext
<1>6. CASE x = ToConsole \/ x = ConsoleOut \/ x = FromConsole
  BY <1>2, <1>3, <1>6, QueueAt, QueueNext DEF Taken
<1>7. CASE \E c \in Clusters : x = ToProxy(c)
  <2>1. PICK c \in Clusters : x = ToProxy(c)
    BY <1>7
  <2>2. QED
    BY <1>2, <1>3, <2>1, QueueAt, QueueNext
<1>8. CASE \E c \in Clusters : x = ProxyIn(c)
  <2>1. PICK c \in Clusters : x = ProxyIn(c)
    BY <1>8
  <2>2. QED
    BY <1>3, <2>1, QueueAt, QueueNext DEF Taken
<1>9. QED
  BY <1>4, <1>5, <1>6, <1>7, <1>8, PlaceKinds

\* What the main loop takes a packet from.
LEMMA StartSendTakes ==
  ASSUME TypeOK, NEW r \in Ranks, StartSend(r)
  PROVE  /\ Taken(OutQ(r), chan) /\ Head(Queue[OutQ(r)]) = Head(outq[r])
         /\ DeliverElsewhere(r, Head(outq[r]), chan)
<1>1. Queue[OutQ(r)] = outq[r] /\ OutQ(r) \in Places
  BY QueueAt, PlaceKinds
<1>2. /\ outq[r] # <<>> /\ outq' = [outq EXCEPT ![r] = Tail(@)]
      /\ DeliverElsewhere(r, Head(outq[r]), chan)
      /\ UNCHANGED <<proxyIn, fromConsole, consoleOut>>
  BY DEF StartSend, consoleVars
<1>3. chan \in [Ranks -> [Ranks -> Seq(Packet)]] /\ outq \in [Ranks -> Seq(Packet)]
  BY DEF TypeOK, MpiTypes
<1>4. \A s \in Ranks : outq'[s] = IF s = r THEN Tail(outq[s]) ELSE outq[s]
  BY <1>2, <1>3
<1>5. /\ \A s \in Ranks : OutQ(s) = OutQ(r) <=> s = r
      /\ \A i, s \in Ranks : Chan(i, s) # OutQ(r)
      /\ \A c \in Clusters : ProxyIn(c) # OutQ(r)
      /\ FromConsole # OutQ(r)
  BY DEF OutQ, Chan, ProxyIn, FromConsole
<1>6. Taken(OutQ(r), chan)
  BY <1>1, <1>2, <1>3, <1>4, <1>5 DEF Taken
<1>7. QED
  BY <1>1, <1>2, <1>6

LEMMA ReceiveTakes ==
  ASSUME TypeOK, NEW i \in Ranks, NEW r \in Ranks, Receive(i, r),
         NEW ch, ch = [chan EXCEPT ![i][r] = Tail(@)]
  PROVE  /\ Taken(Chan(i, r), ch) /\ Head(Queue[Chan(i, r)]) = Head(chan[i][r])
         /\ Deliver(r, Head(chan[i][r]), ch)
<1>1. Queue[Chan(i, r)] = chan[i][r] /\ Chan(i, r) \in Places
  BY QueueAt, PlaceKinds
<1>2. /\ chan[i][r] # <<>> /\ Deliver(r, Head(chan[i][r]), ch)
      /\ UNCHANGED <<outq, proxyIn, fromConsole, consoleOut>>
  BY DEF Receive, consoleVars
<1>3. chan \in [Ranks -> [Ranks -> Seq(Packet)]]
  BY DEF TypeOK, MpiTypes
<1>4. Tail(chan[i][r]) \in Seq(Packet)
  <2>1. chan[i][r] \in Seq(Packet)
    BY <1>3
  <2>2. QED
    BY <1>2, <2>1, TailAt
<1>5. ch \in [Ranks -> [Ranks -> Seq(Packet)]]
  BY <1>3, <1>4
<1>6. \A j, s \in Ranks : ch[j][s] = IF j = i /\ s = r THEN Tail(chan[j][s]) ELSE chan[j][s]
  BY <1>3
<1>7. /\ \A j, s \in Ranks : Chan(j, s) = Chan(i, r) <=> j = i /\ s = r
      /\ \A s \in Ranks : OutQ(s) # Chan(i, r)
      /\ \A c \in Clusters : ProxyIn(c) # Chan(i, r)
      /\ FromConsole # Chan(i, r)
  BY DEF OutQ, Chan, ProxyIn, FromConsole
<1>8. Taken(Chan(i, r), ch)
  BY <1>1, <1>2, <1>5, <1>6, <1>7 DEF Taken
<1>9. QED
  BY <1>1, <1>2, <1>8

LEMMA HandleConsoleTakes ==
  ASSUME TypeOK, NEW r \in Ranks, HandleConsole(r)
  PROVE  /\ Taken(FromConsole, chan) /\ Head(Queue[FromConsole]) = Head(fromConsole)
         /\ Deliver(r, Head(fromConsole), chan)
<1>1. Queue[FromConsole] = fromConsole /\ FromConsole \in Places
  BY QueueAt, PlaceKinds
<1>2. /\ fromConsole # <<>> /\ fromConsole' = Tail(fromConsole)
      /\ Deliver(r, Head(fromConsole), chan)
      /\ UNCHANGED <<outq, proxyIn, consoleOut>>
  BY DEF HandleConsole
<1>3. chan \in [Ranks -> [Ranks -> Seq(Packet)]]
  BY DEF TypeOK, MpiTypes
<1>4. /\ \A i, s \in Ranks : Chan(i, s) # FromConsole
      /\ \A s \in Ranks : OutQ(s) # FromConsole
      /\ \A c \in Clusters : ProxyIn(c) # FromConsole
  BY DEF OutQ, Chan, ProxyIn, FromConsole
<1>5. Taken(FromConsole, chan)
  BY <1>1, <1>2, <1>3, <1>4 DEF Taken
<1>6. QED
  BY <1>1, <1>2, <1>5

LEMMA HandleProxyTakes ==
  ASSUME TypeOK, NEW r \in Ranks, HandleProxy(r), NEW c, c = ClusterOf[r]
  PROVE  /\ Taken(ProxyIn(c), chan) /\ Head(Queue[ProxyIn(c)]) = Head(proxyIn[c])
         /\ Deliver(r, Head(proxyIn[c]), chan)
<1>0. c \in Clusters
  BY Gateways
<1>1. Queue[ProxyIn(c)] = proxyIn[c] /\ ProxyIn(c) \in Places
  BY <1>0, QueueAt, PlaceKinds
<1>2. /\ proxyIn[c] # <<>> /\ proxyIn' = [proxyIn EXCEPT ![c] = Tail(@)]
      /\ Deliver(r, Head(proxyIn[c]), chan)
      /\ UNCHANGED <<outq, fromConsole, consoleOut>>
  BY DEF HandleProxy, consoleVars
<1>3. chan \in [Ranks -> [Ranks -> Seq(Packet)]] /\ proxyIn \in [Clusters -> Seq(Packet)]
  BY DEF TypeOK, MpiTypes, BridgeTypes
<1>4. \A d \in Clusters : proxyIn'[d] = IF d = c THEN Tail(proxyIn[d]) ELSE proxyIn[d]
  BY <1>2, <1>3
<1>5. /\ \A i, s \in Ranks : Chan(i, s) # ProxyIn(c)
      /\ \A s \in Ranks : OutQ(s) # ProxyIn(c)
      /\ \A d \in Clusters : ProxyIn(d) = ProxyIn(c) <=> d = c
      /\ FromConsole # ProxyIn(c)
  BY DEF OutQ, Chan, ProxyIn, FromConsole
<1>6. Taken(ProxyIn(c), chan)
  BY <1>1, <1>2, <1>3, <1>4, <1>5 DEF Taken
<1>7. QED
  BY <1>1, <1>2, <1>6
\* Nothing has to come before a packet that has arrived where it is for.
LEMMA NoneBefore ==
  ASSUME TypeOK, QueuesInv, Genuine, NEW a \in Places, Queue[a] # <<>>,
         NEW p, p = Queue[a][1], ReceivedAt(a, p.to), NEW q \in Flying
  PROVE  ~Before(q, p)
<1> SUFFICES ASSUME Before(q, p) PROVE FALSE
  OBVIOUS
<1>1. Queue[a] \in Seq(Packet)
  BY QueueTyped
<1>2. 1 \in DOMAIN Queue[a] /\ p = Queue[a][1]
  BY <1>1
<1>3. p \in Flying /\ OnRoute(a, p.from, p.to)
  BY <1>2, OrderedAt
<1>4. PICK x \in Places : \E k \in DOMAIN Queue[x] : Queue[x][k] = q
  BY FlyingAt
<1>5. PICK k \in DOMAIN Queue[x] : Queue[x][k] = q
  BY <1>4
<1>6. OnRoute(x, q.from, q.to)
  BY <1>5, OrderedAt
<1>7. q.from = p.from /\ q.to = p.to
  BY <1>3, BeforeTogether
<1>8. Stage(x, p.to) < Stage(a, p.to) \/ (x = a /\ k < 1)
  BY <1>2, <1>5, <1>7, OrderedAt
<1>9. p.from \in AllNodes /\ p.to \in AllNodes /\ p.from # p.to
  BY <1>3, FlyingFacts
<1>10. x = a \/ Stage(a, p.to) < Stage(x, p.to)
  BY <1>3, <1>6, <1>7, <1>9, ReceiptIsLast
<1>11. Stage(a, p.to) \in Nat /\ Stage(x, p.to) \in Nat
  BY StageTyped
<1>12. Queue[x] \in Seq(Packet)
  BY QueueTyped
<1>13. ~(k < 1)
  BY <1>5, <1>12
<1>14. QED
  BY <1>8, <1>10, <1>11, <1>13

LEMMA HeadFacts ==
  ASSUME TypeOK, QueuesInv, Genuine, NEW a \in Places, Queue[a] # <<>>
  PROVE  /\ Head(Queue[a]) = Queue[a][1] /\ Head(Queue[a]) \in Flying
         /\ Head(Queue[a]) \in Packet
         /\ OnRoute(a, Head(Queue[a]).from, Head(Queue[a]).to)
         /\ Head(Queue[a]).from \in AllNodes /\ Head(Queue[a]).to \in AllNodes
         /\ Head(Queue[a]).from # Head(Queue[a]).to
<1>1. Queue[a] \in Seq(Packet)
  BY QueueTyped
<1>2. 1 \in DOMAIN Queue[a] /\ Head(Queue[a]) = Queue[a][1]
  BY <1>1, TailAt
<1>3. Queue[a][1] \in Flying /\ OnRoute(a, Queue[a][1].from, Queue[a][1].to)
  BY <1>2, OrderedAt
<1>4. QED
  BY <1>2, <1>3, FlyingFacts

\* deliver_elsewhere moves a packet to the next place of its route.
LEMMA PassOnMoves ==
  ASSUME TypeOK, QueuesInv, Genuine, NEW r \in Ranks, NEW a, HandledBy(a, r), NEW ch, Taken(a, ch),
         NEW p, p = Head(Queue[a]), p.to # r, DeliverElsewhere(r, p, ch),
         NEW b, b = HopPlace(r, p.to)
  PROVE  MoveStep(a, b) /\ NextPlace(a, b, p)
<1>1. a \in Places /\ Queue[a] # <<>>
  BY DEF Taken
<1>2. /\ OnRoute(a, p.from, p.to) /\ p.from \in AllNodes /\ p.to \in AllNodes
      /\ p.from # p.to /\ p.to # r
  BY <1>1, HeadFacts
<1>3. /\ b \in Places /\ OnRoute(b, p.from, p.to) /\ Stage(b, p.to) < Stage(a, p.to)
      /\ \A x \in Places : OnRoute(x, p.from, p.to) /\ Stage(x, p.to) < Stage(a, p.to)
                              => x = b \/ Stage(x, p.to) < Stage(b, p.to)
  BY <1>1, <1>2, HopIsNext
<1>4. Stage(a, p.to) \in Nat
  BY <1>1, StageTyped
<1>5. a # b
  BY <1>3, <1>4
<1>6. MoveStep(a, b)
  BY <1>2, <1>3, <1>5, TakenIsMoved
<1>7. QED
  BY <1>3, <1>6 DEF NextPlace

\* A packet that is passed on keeps its place among the others.
LEMMA PassOnKeeps ==
  ASSUME TypeOK, QueuesInv, Genuine, NEW r \in Ranks, NEW a, HandledBy(a, r), NEW ch, Taken(a, ch),
         Head(Queue[a]).to # r, DeliverElsewhere(r, Head(Queue[a]), ch)
  PROVE  QueuesInv' /\ Flying' = Flying
<1>1. PICK p : p = Head(Queue[a])
  OBVIOUS
<1>2. PICK b : b = HopPlace(r, p.to)
  OBVIOUS
<1>3. MoveStep(a, b) /\ NextPlace(a, b, Head(Queue[a]))
  BY <1>1, <1>2, PassOnMoves
<1>4. \A x, y \in Flying : Before(x, y) => x.from = y.from /\ x.to = y.to
  BY BeforeTogether
<1>5. QED
  BY <1>3, <1>4, MoveKeeps

\* A packet that is delivered is gone, and nothing that should have come
\* before it is still on its way.
LEMMA DeliveryKeeps ==
  ASSUME TypeOK, QueuesInv, Genuine, NEW r \in Ranks, NEW a, HandledBy(a, r), NEW ch, Taken(a, ch),
         Head(Queue[a]).to = r, chan' = ch, UNCHANGED <<toConsole, toProxy>>
  PROVE  /\ QueuesInv' /\ Flying' = Flying \ {Head(Queue[a])} /\ Head(Queue[a]) \in Flying
         /\ \A q \in Flying : ~Before(q, Head(Queue[a]))
<1>1. a \in Places /\ Queue[a] # <<>>
  BY DEF Taken
<1>2. TakeStep(a)
  BY TakenIsTaken
<1>3. Head(Queue[a]) = Queue[a][1]
  BY <1>1, HeadFacts
<1>4. QueuesInv' /\ Flying' = Flying \ {Head(Queue[a])} /\ Head(Queue[a]) \in Flying
  BY <1>2, <1>3, TakeKeeps
<1>5. ReceivedAt(a, r)
  <2>1. OnRoute(a, Head(Queue[a]).from, r) /\ Head(Queue[a]).from # r
    BY <1>1, HeadFacts
  <2>2. a # OutQ(r)
    BY <2>1, AtOutQ
  <2>3. QED
    BY <2>2, Gateways DEF HandledBy, ReceivedAt, HandlesConsole
<1>6. QED
  BY <1>1, <1>3, <1>4, <1>5, NoneBefore
-----------------------------------------------------------------------------
\* The threads that are not main loops.

\* MPIToConsoleThread takes the head of its queue.
LEMMA ToConsoleThreadTakes ==
  ASSUME ToConsoleThread
  PROVE  /\ ToConsole \in Places /\ Queue[ToConsole] = toConsole /\ toConsole # <<>>
         /\ TakeStep(ToConsole)
<1>1. /\ toConsole # <<>> /\ toConsole' = Tail(toConsole)
      /\ UNCHANGED <<outq, chan, fromConsole, consoleOut, toProxy, proxyIn>>
  BY DEF ToConsoleThread, mpiVars, consoleVars
<1>2. ToConsole \in Places /\ Queue[ToConsole] = toConsole
  BY PlaceKinds, QueueAt
<1>3. TakeStep(ToConsole)
  <2> SUFFICES ASSUME NEW x \in Places
               PROVE  Queue'[x] = IF x = ToConsole THEN Tail(Queue[x]) ELSE Queue[x]
    BY <1>1, <1>2 DEF TakeStep
  <2>1. CASE \E s \in Ranks : x = OutQ(s)
    BY <1>1, <2>1, QueueAt, QueueNext DEF OutQ, ToConsole
  <2>2. CASE \E i, s \in Ranks : x = Chan(i, s)
    BY <1>1, <2>2, QueueAt, QueueNext DEF Chan, ToConsole
  <2>3. CASE x = ToConsole
    BY <1>1, <2>3, QueueAt, QueueNext
  <2>4. CASE x = ConsoleOut \/ x = FromConsole
    BY <1>1, <2>4, QueueAt, QueueNext DEF ConsoleOut, FromConsole, ToConsole
  <2>5. CASE \E c \in Clusters : x = ToProxy(c)
    BY <1>1, <2>5, QueueAt, QueueNext DEF ToProxy, ToConsole
  <2>6. CASE \E c \in Clusters : x = ProxyIn(c)
    BY <1>1, <2>6, QueueAt, QueueNext DEF ProxyIn, ToConsole
  <2>7. QED
    BY <2>1, <2>2, <2>3, <2>4, <2>5, <2>6, PlaceKinds
<1>4. QED
  BY <1>1, <1>2, <1>3

LEMMA ToConsoleThreadKeeps ==
  ASSUME TypeOK, QueuesInv, Genuine, ToConsoleThread
  PROVE  /\ QueuesInv' /\ Flying' = Flying \ {Head(toConsole)} /\ Head(toConsole) \in Flying
         /\ \A q \in Flying : ~Before(q, Head(toConsole))
         /\ Head(toConsole).to = Console
<1>1. /\ ToConsole \in Places /\ Queue[ToConsole] = toConsole /\ toConsole # <<>>
      /\ TakeStep(ToConsole)
  BY ToConsoleThreadTakes
<1>2. Head(toConsole) = Queue[ToConsole][1] /\ Head(toConsole).to = Console
  BY <1>1, HeadFacts, AtConsole
<1>3. QueuesInv' /\ Flying' = Flying \ {Head(toConsole)} /\ Head(toConsole) \in Flying
  BY <1>1, <1>2, TakeKeeps
<1>4. ReceivedAt(ToConsole, Console)
  BY DEF ReceivedAt
<1>5. \A q \in Flying : ~Before(q, Head(toConsole))
  BY <1>1, <1>2, <1>4, NoneBefore
<1>6. QED
  BY <1>2, <1>3, <1>5

\* The proxy of a cluster moves the head of its queue to the proxy of the next cluster.
LEMMA ProxyWriterMoves ==
  ASSUME TypeOK, QueuesInv, Genuine, NEW c \in Clusters, ProxyWriter(c),
         NEW p, p = Head(toProxy[c]), NEW b, b = ProxyIn(ClusterRank(p.to))
  PROVE  /\ ToProxy(c) \in Places /\ Queue[ToProxy(c)] = toProxy[c] /\ toProxy[c] # <<>>
         /\ MoveStep(ToProxy(c), b) /\ NextPlace(ToProxy(c), b, p)
<1> DEFINE d == ClusterRank(p.to)
<1>1. /\ toProxy[c] # <<>> /\ toProxy' = [toProxy EXCEPT ![c] = Tail(@)]
      /\ proxyIn' = [proxyIn EXCEPT ![d] = Append(@, p)]
      /\ UNCHANGED <<outq, chan, fromConsole, consoleOut, toConsole>>
  BY DEF ProxyWriter, mpiVars, consoleVars
<1>2. ToProxy(c) \in Places /\ Queue[ToProxy(c)] = toProxy[c]
  BY PlaceKinds, QueueAt
<1>3. /\ p \in Flying /\ OnRoute(ToProxy(c), p.from, p.to) /\ p.from \in AllNodes
      /\ p.to \in AllNodes /\ p = Head(Queue[ToProxy(c)]) /\ Queue[ToProxy(c)] # <<>>
  BY <1>1, <1>2, HeadFacts
<1>4. d \in Clusters
  BY <1>3, Gateways
<1>0. b = ProxyIn(d)
  OBVIOUS
<1> HIDE DEF d
<1>5. /\ b \in Places /\ OnRoute(b, p.from, p.to) /\ Stage(b, p.to) < Stage(ToProxy(c), p.to)
      /\ \A x \in Places : OnRoute(x, p.from, p.to) /\ Stage(x, p.to) < Stage(ToProxy(c), p.to)
                           => x = b \/ Stage(x, p.to) < Stage(b, p.to)
  <2>1. \E e \in Clusters : ToProxy(c) = ToProxy(e)
    OBVIOUS
  <2>2. QED
    BY <1>2, <1>3, <2>1, LinkIsNext
<1>6. NextPlace(ToProxy(c), b, p)
  BY <1>3, <1>5 DEF NextPlace
<1>7. /\ \A e \in Clusters : toProxy'[e] = IF e = c THEN Tail(toProxy[e]) ELSE toProxy[e]
      /\ \A e \in Clusters : proxyIn'[e] = IF e = d THEN Append(proxyIn[e], p) ELSE proxyIn[e]
  BY <1>1 DEF TypeOK, BridgeTypes
<1>8. MoveStep(ToProxy(c), b)
  <2>1. ToProxy(c) # b
    BY <1>0 DEF ToProxy, ProxyIn
  <2> SUFFICES ASSUME NEW x \in Places
               PROVE  Queue'[x] = IF x = ToProxy(c) THEN Tail(Queue[x])
                                  ELSE IF x = b THEN Append(Queue[x], p)
                                  ELSE Queue[x]
    BY <1>2, <1>3, <1>5, <2>1 DEF MoveStep
  <2>2. CASE \E s \in Ranks : x = OutQ(s)
    <3>1. x # ToProxy(c) /\ x # b
      BY <1>0, <2>2 DEF OutQ, ToProxy, ProxyIn
    <3>2. QED
      BY <1>1, <2>2, <3>1, QueueAt, QueueNext
  <2>3. CASE \E i, s \in Ranks : x = Chan(i, s)
    <3>1. x # ToProxy(c) /\ x # b
      BY <1>0, <2>3 DEF Chan, ToProxy, ProxyIn
    <3>2. QED
      BY <1>1, <2>3, <3>1, QueueAt, QueueNext
  <2>4. CASE x = ToConsole \/ x = ConsoleOut \/ x = FromConsole
    <3>1. x # ToProxy(c) /\ x # b
      BY <1>0, <2>4 DEF ToConsole, ConsoleOut, FromConsole, ToProxy, ProxyIn
    <3>2. QED
      BY <1>1, <2>4, <3>1, QueueAt, QueueNext
  <2>5. CASE \E e \in Clusters : x = ToProxy(e)
    <3>1. PICK e \in Clusters : x = ToProxy(e)
      BY <2>5
    <3>2. x # b /\ (x = ToProxy(c) <=> e = c)
      BY <1>0, <3>1 DEF ToProxy, ProxyIn
    <3>3. Queue'[x] = toProxy'[e] /\ Queue[x] = toProxy[e]
      BY <3>1, QueueAt, QueueNext
    <3>4. QED
      BY <1>7, <3>2, <3>3
  <2>6. CASE \E e \in Clusters : x = ProxyIn(e)
    <3>1. PICK e \in Clusters : x = ProxyIn(e)
      BY <2>6
    <3>2. x # ToProxy(c) /\ (x = b <=> e = d)
      BY <1>0, <3>1 DEF ToProxy, ProxyIn
    <3>3. Queue'[x] = proxyIn'[e] /\ Queue[x] = proxyIn[e]
      BY <3>1, QueueAt, QueueNext
    <3>4. QED
      BY <1>7, <3>2, <3>3
  <2>7. QED
    BY <2>2, <2>3, <2>4, <2>5, <2>6, PlaceKinds
<1>9. QED
  BY <1>1, <1>2, <1>6, <1>8

LEMMA ProxyWriterKeeps ==
  ASSUME TypeOK, QueuesInv, Genuine, NEW c \in Clusters, ProxyWriter(c)
  PROVE  QueuesInv' /\ Flying' = Flying
<1>1. PICK p : p = Head(toProxy[c])
  OBVIOUS
<1>2. PICK b : b = ProxyIn(ClusterRank(p.to))
  OBVIOUS
<1>3. MoveStep(ToProxy(c), b) /\ NextPlace(ToProxy(c), b, Head(Queue[ToProxy(c)]))
  BY <1>1, <1>2, ProxyWriterMoves
<1>4. \A x, y \in Flying : Before(x, y) => x.from = y.from /\ x.to = y.to
  BY BeforeTogether
<1>5. QED
  BY <1>3, <1>4, MoveKeeps

\* MPIFromConsoleThread moves what the console process has written to rank 0, or ends at CLOSE.
LEMMA FromConsoleThreadMoves ==
  ASSUME TypeOK, QueuesInv, Genuine, FromConsoleThread, NEW p, p = Head(consoleOut)
  PROVE  /\ ConsoleOut \in Places /\ Queue[ConsoleOut] = consoleOut /\ consoleOut # <<>>
         /\ p.type # "CLOSE" => MoveStep(ConsoleOut, FromConsole)
                                /\ NextPlace(ConsoleOut, FromConsole, p)
         /\ p.type = "CLOSE" => TakeStep(ConsoleOut)
<1>1. /\ consoleOut # <<>> /\ consoleOut' = Tail(consoleOut)
      /\ fromConsole' = IF p.type = "CLOSE" THEN fromConsole ELSE Append(fromConsole, p)
      /\ UNCHANGED <<outq, chan, toConsole, toProxy, proxyIn>>
  BY DEF FromConsoleThread, mpiVars
<1>2. /\ ConsoleOut \in Places /\ Queue[ConsoleOut] = consoleOut /\ FromConsole \in Places
      /\ ConsoleOut # FromConsole
  BY PlaceKinds, QueueAt DEF ConsoleOut, FromConsole
<1>3. /\ p \in Flying /\ OnRoute(ConsoleOut, p.from, p.to) /\ p.from \in AllNodes
      /\ p.to \in AllNodes /\ p = Head(Queue[ConsoleOut]) /\ Queue[ConsoleOut] # <<>>
      /\ p = Queue[ConsoleOut][1]
  BY <1>1, <1>2, HeadFacts
<1>4. ASSUME NEW x \in Places, x # ConsoleOut, x # FromConsole
      PROVE  Queue'[x] = Queue[x]
  <2>1. CASE \E s \in Ranks : x = OutQ(s)
    BY <1>1, <2>1, QueueAt, QueueNext
  <2>2. CASE \E i, s \in Ranks : x = Chan(i, s)
    BY <1>1, <2>2, QueueAt, QueueNext
  <2>3. CASE x = ToConsole
    BY <1>1, <2>3, QueueAt, QueueNext
  <2>4. CASE \E c \in Clusters : x = ToProxy(c)
    BY <1>1, <2>4, QueueAt, QueueNext
  <2>5. CASE \E c \in Clusters : x = ProxyIn(c)
    BY <1>1, <2>5, QueueAt, QueueNext
  <2>6. QED
    BY <1>4, <2>1, <2>2, <2>3, <2>4, <2>5, PlaceKinds
<1>5. /\ Queue[FromConsole] = fromConsole /\ Queue'[FromConsole] = fromConsole'
      /\ Queue'[ConsoleOut] = consoleOut'
  BY QueueAt, QueueNext
<1>6. CASE p.type # "CLOSE"
  <2>1. MoveStep(ConsoleOut, FromConsole)
    BY <1>1, <1>2, <1>3, <1>4, <1>5, <1>6 DEF MoveStep
  <2>2. NextPlace(ConsoleOut, FromConsole, p)
    BY <1>2, <1>3, LinkIsNext DEF NextPlace
  <2>3. QED
    BY <1>1, <1>2, <1>6, <2>1, <2>2
<1>7. CASE p.type = "CLOSE"
  <2>1. fromConsole' = fromConsole
    BY <1>1, <1>7
  <2>2. ASSUME NEW x \in Places
        PROVE  Queue'[x] = IF x = ConsoleOut THEN Tail(Queue[x]) ELSE Queue[x]
    <3>1. CASE x = ConsoleOut
      BY <1>1, <1>2, <1>5, <3>1
    <3>2. CASE x = FromConsole
      BY <1>2, <1>5, <2>1, <3>2
    <3>3. CASE x # ConsoleOut /\ x # FromConsole
      BY <1>4, <3>3
    <3>4. QED
      BY <3>1, <3>2, <3>3
  <2>3. TakeStep(ConsoleOut)
    BY <1>2, <1>3, <2>2 DEF TakeStep
  <2>4. QED
    BY <1>1, <1>2, <1>7, <2>3
<1>8. QED
  BY <1>1, <1>2, <1>6, <1>7

LEMMA FromConsoleThreadKeeps ==
  ASSUME TypeOK, QueuesInv, Genuine, FromConsoleThread
  PROVE  /\ QueuesInv' /\ Head(consoleOut) \in Flying
         /\ Head(consoleOut).type # "CLOSE" => Flying' = Flying
         /\ Head(consoleOut).type = "CLOSE" => Flying' = Flying \ {Head(consoleOut)}
<1>1. PICK p : p = Head(consoleOut)
  OBVIOUS
<1>2. /\ ConsoleOut \in Places /\ Queue[ConsoleOut] = consoleOut /\ consoleOut # <<>>
      /\ p.type # "CLOSE" => MoveStep(ConsoleOut, FromConsole)
                             /\ NextPlace(ConsoleOut, FromConsole, p)
      /\ p.type = "CLOSE" => TakeStep(ConsoleOut)
  BY <1>1, FromConsoleThreadMoves
<1>3. p = Queue[ConsoleOut][1] /\ p = Head(Queue[ConsoleOut]) /\ p \in Flying
  BY <1>1, <1>2, HeadFacts
<1>4. \A x, y \in Flying : Before(x, y) => x.from = y.from /\ x.to = y.to
  BY BeforeTogether
<1>5. CASE p.type # "CLOSE"
  BY <1>1, <1>2, <1>3, <1>4, <1>5, MoveKeeps
<1>6. CASE p.type = "CLOSE"
  BY <1>1, <1>2, <1>3, <1>6, TakeKeeps
<1>7. QED
  BY <1>5, <1>6

\* A filter's packet.
LEMMA PutPacketPuts ==
  ASSUME TypeOK, NEW m \in AllNodes, NEW p, PutPacket(m, p), HostOf[p.reader] \in AllNodes,
         UNCHANGED <<chan, fromConsole, proxyIn>>,
         NEW b, b = WriterPlace(m, HostOf[p.reader])
  PROVE  PutStep(b, p)
<1> DEFINE n == HostOf[p.reader]
<1>1. /\ \A s, t \in Ranks : OutQ(s) = OutQ(t) <=> s = t
      /\ \A c, d \in Clusters : ToProxy(c) = ToProxy(d) <=> c = d
      /\ \A s \in Ranks : \A c \in Clusters : OutQ(s) # ToProxy(c)
      /\ \A s \in Ranks : OutQ(s) # ToConsole /\ OutQ(s) # ConsoleOut
      /\ \A c \in Clusters : ToProxy(c) # ToConsole /\ ToProxy(c) # ConsoleOut
      /\ ToConsole # ConsoleOut
  BY DEF OutQ, ToProxy, ToConsole, ConsoleOut
<1>2. ASSUME NEW o \in Ranks, b = OutQ(o) \/ b = ConsoleOut \/ b = ToConsole
                               \/ b = ToProxy(ClusterOf[o])
      PROVE  /\ b # FromConsole /\ (\A i, s \in Ranks : b # Chan(i, s))
             /\ (\A c \in Clusters : b # ProxyIn(c))
  BY <1>2 DEF OutQ, ToProxy, ToConsole, ConsoleOut, FromConsole, Chan, ProxyIn
<1>3. ASSUME b \in Places, NEW o \in Ranks,
             b = OutQ(o) \/ b = ConsoleOut \/ b = ToConsole \/ b = ToProxy(ClusterOf[o]),
             \A s \in Ranks : outq'[s] = IF OutQ(s) = b THEN Append(outq[s], p) ELSE outq[s],
             \A c \in Clusters : toProxy'[c] = IF ToProxy(c) = b THEN Append(toProxy[c], p)
                                               ELSE toProxy[c],
             toConsole' = IF ToConsole = b THEN Append(toConsole, p) ELSE toConsole,
             consoleOut' = IF ConsoleOut = b THEN Append(consoleOut, p) ELSE consoleOut
      PROVE  PutStep(b, p)
  <2> SUFFICES ASSUME NEW x \in Places
               PROVE  Queue'[x] = IF x = b THEN Append(Queue[x], p) ELSE Queue[x]
    BY <1>3 DEF PutStep
  <2>0. /\ b # FromConsole /\ (\A i, s \in Ranks : b # Chan(i, s))
        /\ (\A c \in Clusters : b # ProxyIn(c))
    BY <1>2, <1>3
  <2>1. CASE \E s \in Ranks : x = OutQ(s)
    BY <1>3, <2>1, QueueAt, QueueNext
  <2>2. CASE \E i, s \in Ranks : x = Chan(i, s)
    BY <2>0, <2>2, QueueAt, QueueNext
  <2>3. CASE x = ToConsole \/ x = ConsoleOut
    BY <1>3, <2>3, QueueAt, QueueNext
  <2>4. CASE x = FromConsole
    BY <2>0, <2>4, QueueAt, QueueNext
  <2>5. CASE \E c \in Clusters : x = ToProxy(c)
    BY <1>3, <2>5, QueueAt, QueueNext
  <2>6. CASE \E c \in Clusters : x = ProxyIn(c)
    BY <2>0, <2>6, QueueAt, QueueNext
  <2>7. QED
    BY <2>1, <2>2, <2>3, <2>4, <2>5, <2>6, PlaceKinds
<1>4. CASE m = Console
  <2>1. b = ConsoleOut /\ b \in Places /\ 0 \in Ranks
    BY <1>4, PlaceKinds, Gateways DEF WriterPlace
  <2>2. consoleOut' = Append(consoleOut, p) /\ UNCHANGED <<outq, toConsole, toProxy>>
    BY <1>4 DEF PutPacket
  <2>3. QED
    BY <1>1, <1>3, <2>1, <2>2
<1>5. CASE m # Console
  <2>1. /\ m \in Ranks /\ ClusterOf[m] \in Clusters
        /\ outq \in [Ranks -> Seq(Packet)] /\ toProxy \in [Clusters -> Seq(Packet)]
    BY <1>5, Gateways DEF TypeOK, MpiTypes, BridgeTypes
  <2>2. CASE n = Console /\ HandlesConsole(m)
    <3>1. b = ToConsole /\ b \in Places /\ WriterHop(m, p.reader) = "toConsole"
      BY <1>5, <2>2, PlaceKinds DEF WriterPlace, WriterHop
    <3>2. toConsole' = Append(toConsole, p) /\ UNCHANGED <<outq, consoleOut, toProxy>>
      BY <1>5, <3>1 DEF PutPacket
    <3>3. QED
      BY <1>1, <1>3, <2>1, <3>1, <3>2
  <2>3. CASE ~(n = Console /\ HandlesConsole(m)) /\ IsGateway(m) /\ CrossCluster(m, n)
    <3>1. b = ToProxy(ClusterOf[m]) /\ b \in Places /\ WriterHop(m, p.reader) = "toProxy"
      BY <1>5, <2>1, <2>3, PlaceKinds DEF WriterPlace, WriterHop
    <3>2. /\ toProxy' = [toProxy EXCEPT ![ClusterOf[m]] = Append(@, p)]
          /\ UNCHANGED <<outq, consoleOut, toConsole>>
      BY <1>5, <3>1 DEF PutPacket
    <3>3. \A c \in Clusters : toProxy'[c] = IF c = ClusterOf[m] THEN Append(toProxy[c], p)
                                            ELSE toProxy[c]
      BY <2>1, <3>2
    <3>4. \A c \in Clusters : ToProxy(c) = b <=> c = ClusterOf[m]
      BY <1>1, <2>1, <3>1
    <3>5. /\ \A c \in Clusters : toProxy'[c] = IF ToProxy(c) = b THEN Append(toProxy[c], p)
                                               ELSE toProxy[c]
          /\ b # ToConsole /\ b # ConsoleOut /\ \A s \in Ranks : OutQ(s) # b
      BY <1>1, <2>1, <3>1, <3>3, <3>4
    <3>6. QED
      BY <1>3, <2>1, <3>1, <3>2, <3>5
  <2>4. CASE ~(n = Console /\ HandlesConsole(m)) /\ ~(IsGateway(m) /\ CrossCluster(m, n))
    <3>1. b = OutQ(m) /\ b \in Places /\ WriterHop(m, p.reader) = "outq"
      BY <1>5, <2>1, <2>4, PlaceKinds DEF WriterPlace, WriterHop
    <3>2. /\ outq' = [outq EXCEPT ![m] = Append(@, p)]
          /\ UNCHANGED <<consoleOut, toConsole, toProxy>>
      BY <1>5, <3>1 DEF PutPacket
    <3>3. \A s \in Ranks : outq'[s] = IF s = m THEN Append(outq[s], p) ELSE outq[s]
      BY <2>1, <3>2
    <3>4. \A s \in Ranks : OutQ(s) = b <=> s = m
      BY <1>1, <2>1, <3>1
    <3>5. /\ \A s \in Ranks : outq'[s] = IF OutQ(s) = b THEN Append(outq[s], p) ELSE outq[s]
          /\ b # ToConsole /\ b # ConsoleOut /\ \A c \in Clusters : ToProxy(c) # b
      BY <1>1, <2>1, <3>1, <3>3, <3>4
    <3>6. QED
      BY <1>3, <2>1, <3>1, <3>2, <3>5
  <2>5. QED
    BY <2>2, <2>3, <2>4
<1>6. QED
  BY <1>4, <1>5
\* A filter's packet goes behind all that its node has sent before.
LEMMA WriterKeeps ==
  ASSUME TypeOK, QueuesInv, Genuine, NEW w \in Filters, NEW g \in Filters,
         HostOf[w] # HostOf[g], NEW p, p = RemovePutter(w, g) \/ \E n \in Nat : p = DcBuf(w, g, n),
         PutPacket(HostOf[w], p), UNCHANGED <<chan, fromConsole, proxyIn>>,
         p \notin Flying, \A q \in Flying : ~Before(p, q)
  PROVE  QueuesInv' /\ Flying' = Flying \cup {p}
<1> DEFINE m == HostOf[w]
           b == WriterPlace(m, HostOf[g])
<1>1. /\ p.from = m /\ p.to = HostOf[g] /\ p.writer = w /\ p.reader = g
      /\ p.type \in {"DCBUF", "REMOVE_PUTTER"}
  BY PacketHosts
<1>2. m \in AllNodes /\ HostOf[g] \in AllNodes
  BY Topology
<1>3. PutStep(b, p)
  <2>1. b = WriterPlace(m, HostOf[p.reader]) /\ HostOf[p.reader] \in AllNodes
    BY <1>1, <1>2
  <2> HIDE DEF m, b
  <2>2. PutPacket(m, p) /\ UNCHANGED <<chan, fromConsole, proxyIn>>
    BY DEF m
  <2>3. QED
    BY ONLY TypeOK, <1>2, <2>1, <2>2, PutPacketPuts
<1>4. FirstPlace(b, p)
  <2>1. /\ b \in Places /\ OnRoute(b, m, HostOf[g])
        /\ \A x \in Places : OnRoute(x, m, HostOf[g])
             => x = b \/ Stage(x, HostOf[g]) < Stage(b, HostOf[g])
    <3>1. b = WriterPlace(m, HostOf[g])
      OBVIOUS
    <3> HIDE DEF b
    <3>2. QED
      BY <1>2, <3>1, WriterIsFirst
  <2>2. QED
    BY <1>1, <2>1 DEF FirstPlace
<1>5. ~Before(p, p)
  <2>1. CASE p = RemovePutter(w, g)
    BY <2>1, PacketHosts DEF Before
  <2>2. CASE \E n \in Nat : p = DcBuf(w, g, n)
    BY <2>2, PacketHosts DEF Before
  <2>3. QED
    BY <2>1, <2>2
<1>6. ASSUME NEW q \in Flying, Before(q, p) PROVE q.from = p.from /\ q.to = p.to
  <2>1. SameStream(q, p) /\ q.type = "DCBUF"
    BY <1>1, <1>6 DEF Before
  <2>2. q.from = HostOf[w] /\ q.to = HostOf[g]
    BY <1>1, <2>1, GenuineKinds DEF SameStream
  <2>3. QED
    BY <1>1, <2>2
<1> HIDE DEF m, b
<1>7. QED
  BY <1>3, <1>4, <1>5, <1>6, PutKeeps

\* A done packet goes out when the out-queue is empty.
LEMMA AnnouncingFacts ==
  ASSUME TypeOK, NEW r \in Ranks, Announcing(r)
  PROVE  /\ announced[r] \in Nodes /\ announced[r] # r /\ announced[r] \in AllNodes
         /\ SentDone(r) /\ ~SentTo(r, announced[r])
<1>1. announced[r] \in Nodes /\ announced[r] # r
  BY DEF Announcing, TypeOK, LoopTypes
<1>2. announced[r] \in AllNodes /\ announced[r] \in Int /\ announced[r] # NotAnnounced
  <2>1. announced[r] \in AllNodes /\ Ranks \subseteq Nat
    BY <1>1, Topology
  <2>2. announced[r] \in Nat \/ announced[r] = -1
    BY <2>1 DEF AllNodes, Console
  <2>3. QED
    BY <2>1, <2>2 DEF NotAnnounced
<1>3. r # Console
  BY Gateways
<1>4. QED
  BY <1>1, <1>2, <1>3 DEF SentDone, SentTo

\* A rank whose filters are done puts one ALL_MY_FILTERS_DONE at a time on its way.
LEMMA AnnounceNextPuts ==
  ASSUME TypeOK, AnnouncedIsIdle, NEW r \in Ranks, AnnounceNext(r),
         NEW p, p = AllDone(r, announced[r]), NEW b, b = HopPlace(r, announced[r])
  PROVE  PutStep(b, p) /\ FirstPlace(b, p)
<1> DEFINE n == announced[r]
<1>1. /\ DeliverElsewhere(r, p, chan) /\ UNCHANGED <<outq, fromConsole, consoleOut, proxyIn>>
  BY DEF AnnounceNext, consoleVars
<1>2. n \in Nodes /\ n # r /\ n \in AllNodes /\ SentDone(r) /\ ~SentTo(r, n)
  BY AnnouncingFacts DEF AnnounceNext
<1>3. p.from = r /\ p.to = n /\ p.type = "ALL_MY_FILTERS_DONE"
  BY DoneFields
<1>4. MpiTypes /\ BridgeTypes /\ chan \in [Ranks -> [Ranks -> Seq(Packet)]]
  BY DEF TypeOK, MpiTypes
<1>5. /\ b \in Places /\ OnRoute(b, r, n)
      /\ \A x \in Places : OnRoute(x, r, n)
              => x = b \/ Stage(x, n) < Stage(b, n) \/ x = OutQ(r)
  BY <1>2, AnnounceIsFirst
<1>6. Queue[OutQ(r)] = <<>>
  BY <1>2, QueueAt DEF AnnouncedIsIdle
<1>7. FirstPlace(b, p)
  BY <1>3, <1>5, <1>6 DEF FirstPlace
<1>8. /\ \A i, s \in Ranks :
              chan'[i][s] = IF Chan(i, s) = b THEN Append(chan[i][s], p) ELSE chan[i][s]
      /\ toConsole' = IF ToConsole = b THEN Append(toConsole, p) ELSE toConsole
      /\ \A c \in Clusters :
              toProxy'[c] = IF ToProxy(c) = b THEN Append(toProxy[c], p) ELSE toProxy[c]
      /\ \A s \in Ranks : OutQ(s) # b
      /\ \A c \in Clusters : ProxyIn(c) # b
      /\ ConsoleOut # b /\ FromConsole # b
  <2>1. b = HopPlace(r, p.to) /\ p.to \in AllNodes /\ p.to # r
    BY <1>2, <1>3
  <2> HIDE DEF n
  <2>2. QED
    BY ONLY <1>1, <1>4, <2>1, ElsewhereAdds, r \in Ranks
<1> HIDE DEF n
<1>9. PutStep(b, p)
  <2> SUFFICES ASSUME NEW x \in Places
               PROVE  Queue'[x] = IF x = b THEN Append(Queue[x], p) ELSE Queue[x]
    BY <1>5 DEF PutStep
  <2>1. CASE \E s \in Ranks : x = OutQ(s)
    BY <1>1, <1>8, <2>1, QueueAt, QueueNext
  <2>2. CASE \E i, s \in Ranks : x = Chan(i, s)
    <3>1. PICK i \in Ranks, s \in Ranks : x = Chan(i, s)
      BY <2>2
    <3>2. chan'[i][s] = IF Chan(i, s) = b THEN Append(chan[i][s], p) ELSE chan[i][s]
      BY <1>8
    <3>3. QED
      BY <3>1, <3>2, QueueAt, QueueNext
  <2>3. CASE x = ToConsole \/ x = ConsoleOut \/ x = FromConsole
    BY <1>1, <1>8, <2>3, QueueAt, QueueNext
  <2>4. CASE \E c \in Clusters : x = ToProxy(c)
    BY <1>8, <2>4, QueueAt, QueueNext
  <2>5. CASE \E c \in Clusters : x = ProxyIn(c)
    BY <1>1, <1>8, <2>5, QueueAt, QueueNext
  <2>6. QED
    BY <2>1, <2>2, <2>3, <2>4, <2>5, PlaceKinds
<1>10. QED
  BY <1>7, <1>9

LEMMA AnnounceNextKeeps ==
  ASSUME TypeOK, QueuesInv, Genuine, AnnouncedIsIdle, NEW r \in Ranks, AnnounceNext(r),
         NEW p, p = AllDone(r, announced[r])
  PROVE  QueuesInv' /\ Flying' = Flying \cup {p} /\ p \notin Flying
<1>1. PICK b : b = HopPlace(r, announced[r])
  OBVIOUS
<1>2. PutStep(b, p) /\ FirstPlace(b, p)
  BY <1>1, AnnounceNextPuts
<1>3. p.from = r /\ p.to = announced[r] /\ p.type = "ALL_MY_FILTERS_DONE"
  BY DoneFields
<1>4. ~SentTo(r, announced[r])
  BY AnnouncingFacts DEF AnnounceNext
<1>5. p \notin Flying
  BY <1>3, <1>4, GenuineKinds
<1>6. ~Before(p, p) /\ \A q \in Flying : ~Before(p, q)
  BY <1>3 DEF Before
<1>7. \A q \in Flying : Before(q, p) => q.from = p.from /\ q.to = p.to
  BY <1>3 DEF Before
<1>8. QED
  BY <1>2, <1>5, <1>6, <1>7, PutKeeps

LEMMA NoPlaceTouched ==
  ASSUME UNCHANGED <<outq, chan, toConsole, consoleOut, fromConsole, toProxy, proxyIn>>
  PROVE  KeepStep
<1> SUFFICES ASSUME NEW x \in Places PROVE Queue'[x] = Queue[x]
  BY DEF KeepStep
<1>1. CASE \E s \in Ranks : x = OutQ(s)
  BY <1>1, QueueAt, QueueNext
<1>2. CASE \E i, s \in Ranks : x = Chan(i, s)
  BY <1>2, QueueAt, QueueNext
<1>3. CASE x = ToConsole \/ x = ConsoleOut \/ x = FromConsole
  BY <1>3, QueueAt, QueueNext
<1>4. CASE (\E c \in Clusters : x = ToProxy(c)) \/ (\E c \in Clusters : x = ProxyIn(c))
  BY <1>4, QueueAt, QueueNext
<1>5. QED
  BY <1>1, <1>2, <1>3, <1>4, PlaceKinds
\* DCLayout::execute3 puts a done packet for every rank, and then CLOSE.
LEMMA ConsoleFinishPuts ==
  ASSUME TypeOK, ConsoleFinish, NEW L, L = Len(consoleOut)
  PROVE  /\ L \in Nat
         /\ \A j \in DOMAIN consoleOut : j \in DOMAIN consoleOut' /\ consoleOut'[j] = consoleOut[j]
                                         /\ j \in Nat /\ j <= L
         /\ \A j \in DOMAIN consoleOut' :
              \/ j \in DOMAIN consoleOut
              \/ j - L - 1 \in Ranks /\ j > L /\ consoleOut'[j] = AllDone(Console, j - L - 1)
                 /\ j \in Nat
              \/ j = L + NumRanks + 1 /\ j > L /\ consoleOut'[j] = Close /\ j \in Nat
         /\ \A n \in Ranks : /\ n + L + 1 \in DOMAIN consoleOut'
                             /\ consoleOut'[n + L + 1] = AllDone(Console, n)
         /\ L + NumRanks + 1 \in DOMAIN consoleOut' /\ consoleOut'[L + NumRanks + 1] = Close
<1> DEFINE dones == [i \in 1 .. NumRanks |-> AllDone(Console, i - 1)]
<1>1. NumRanks \in Nat
  BY RanksAssumption
<1>2. consoleOut \in Seq(Packet) /\ consoleOut' = Append(consoleOut \o dones, Close)
  BY DEF TypeOK, BridgeTypes, ConsoleFinish
<1>3. \A i \in 1 .. NumRanks : i - 1 \in AllNodes
  BY RanksAssumption DEF AllNodes, Ranks
<1>4. dones \in Seq(Packet) /\ Len(dones) = NumRanks
  <2>1. Console \in AllNodes
    BY DEF AllNodes
  <2>2. \A i \in 1 .. NumRanks : AllDone(Console, i - 1) \in Packet
    BY <1>3, <2>1, PacketTyped
  <2>3. QED
    BY <1>1, <2>2
<1>5. \A i \in 1 .. NumRanks : dones[i] = AllDone(Console, i - 1)
  OBVIOUS
<1>6. Close \in Packet
  BY PacketTyped
<1>7. \A n : n \in Ranks <=> n \in Int /\ 0 <= n /\ n < NumRanks
  BY <1>1 DEF Ranks
<1> HIDE DEF dones
<1>8. L \in Nat /\ DOMAIN consoleOut = 1 .. L /\ consoleOut \o dones \in Seq(Packet)
      /\ Len(consoleOut \o dones) = L + NumRanks
  <2>1. L \in Nat /\ DOMAIN consoleOut = 1 .. L /\ consoleOut \in Seq(Packet) /\ dones \in Seq(Packet)
    BY <1>2, <1>4
  <2>2. consoleOut \o dones \in Seq(Packet)
    BY <1>2, <1>4
  <2>3. Len(consoleOut \o dones) = Len(consoleOut) + Len(dones)
    BY ONLY <2>1
  <2>4. QED
    BY <1>4, <2>1, <2>2, <2>3
<1>9. /\ DOMAIN consoleOut' = 1 .. L + NumRanks + 1
      /\ \A j \in 1 .. L : consoleOut'[j] = consoleOut[j]
      /\ \A i \in 1 .. NumRanks : consoleOut'[L + i] = dones[i]
      /\ consoleOut'[L + NumRanks + 1] = Close
  <2> DEFINE both == consoleOut \o dones
  <2>1. both \in Seq(Packet) /\ Len(both) = L + NumRanks /\ consoleOut' = Append(both, Close)
    BY <1>2, <1>8
  <2>2. \A j \in 1 .. L : both[j] = consoleOut[j]
    BY <1>1, <1>2, <1>4
  <2>3. \A i \in 1 .. NumRanks : both[L + i] = dones[i]
    BY <1>1, <1>2, <1>4
  <2> HIDE DEF both
  <2>4. /\ DOMAIN consoleOut' = 1 .. L + NumRanks + 1
        /\ \A j \in 1 .. L + NumRanks : consoleOut'[j] = both[j]
        /\ consoleOut'[L + NumRanks + 1] = Close
    BY <1>1, <1>6, <1>8, <2>1
  <2>5. \A j \in 1 .. L : j \in 1 .. L + NumRanks
    BY <1>1, <1>8
  <2>6. \A i \in 1 .. NumRanks : L + i \in 1 .. L + NumRanks
    BY <1>1, <1>8
  <2>7. QED
    BY <2>2, <2>3, <2>4, <2>5, <2>6
<1>10. \A j \in DOMAIN consoleOut : j \in DOMAIN consoleOut' /\ consoleOut'[j] = consoleOut[j]
                                    /\ j \in Nat /\ j <= L
  BY <1>1, <1>8, <1>9
<1>11. ASSUME NEW j \in DOMAIN consoleOut'
       PROVE  \/ j \in DOMAIN consoleOut
              \/ j - L - 1 \in Ranks /\ j > L /\ consoleOut'[j] = AllDone(Console, j - L - 1)
                 /\ j \in Nat
              \/ j = L + NumRanks + 1 /\ j > L /\ consoleOut'[j] = Close /\ j \in Nat
  <2>1. j \in 1 .. L + NumRanks + 1
    BY <1>9
  <2>2. CASE j <= L
    BY <1>1, <1>8, <2>1, <2>2
  <2>3. CASE j > L /\ j < L + NumRanks + 1
    <3>1. PICK i : i = j - L
      OBVIOUS
    <3>2. j \in Int /\ L \in Nat /\ NumRanks \in Nat
      BY <1>1, <1>8, <2>1
    <3>3. i \in 1 .. NumRanks /\ j = L + i /\ j - L - 1 = i - 1
      BY <2>3, <3>1, <3>2
    <3>4. i - 1 \in Ranks
      BY <1>7, <3>2, <3>3
    <3>5. consoleOut'[L + i] = AllDone(Console, i - 1)
      BY <1>5, <1>9, <3>3
    <3>6. j \in Nat
      BY <2>3, <3>2
    <3>7. QED
      BY <2>3, <3>3, <3>4, <3>5, <3>6
  <2>4. CASE j = L + NumRanks + 1
    BY <1>1, <1>8, <1>9, <2>4
  <2>5. QED
    BY <1>1, <1>8, <2>1, <2>2, <2>3, <2>4
<1>12. ASSUME NEW n \in Ranks
       PROVE  n + L + 1 \in DOMAIN consoleOut' /\ consoleOut'[n + L + 1] = AllDone(Console, n)
  <2>1. n + 1 \in 1 .. NumRanks /\ n \in Int
    BY <1>1, <1>7
  <2>2. PICK i \in 1 .. NumRanks : i = n + 1
    BY <2>1
  <2>3. L + i = n + L + 1 /\ i - 1 = n /\ L + i \in 1 .. L + NumRanks + 1
    BY <1>1, <1>8, <2>1, <2>2
  <2>4. consoleOut'[L + i] = AllDone(Console, i - 1)
    BY <1>5, <1>9
  <2>5. QED
    BY <1>9, <2>3, <2>4
<1>13. L + NumRanks + 1 \in DOMAIN consoleOut'
  BY <1>1, <1>8, <1>9
<1>14. QED
  BY <1>8, <1>9, <1>10, <1>11, <1>12, <1>13

LEMMA ConsoleFinishKeeps ==
  ASSUME TypeOK, QueuesInv, Genuine, ConsoleFinish
  PROVE  /\ QueuesInv'
         /\ \A q : q \in Flying' <=> q \in Flying \/ q = Close \/ \E n \in Ranks : q = AllDone(Console, n)
<1> DEFINE L == Len(consoleOut)
           Done(j, n) == n \in Ranks /\ j = n + L + 1 /\ Queue'[ConsoleOut][j] = AllDone(Console, n)
           Last(j)    == j = L + NumRanks + 1 /\ Queue'[ConsoleOut][j] = Close
<1>1. /\ UNCHANGED <<outq, chan, toConsole, fromConsole, toProxy, proxyIn>>
      /\ ConsolePresent /\ ~consoleSent
  BY DEF ConsoleFinish, mpiVars
<1>2. /\ L \in Nat
      /\ \A j \in DOMAIN consoleOut : j \in DOMAIN consoleOut' /\ consoleOut'[j] = consoleOut[j]
                                         /\ j \in Nat /\ j <= L
      /\ \A j \in DOMAIN consoleOut' :
              \/ j \in DOMAIN consoleOut
              \/ j - L - 1 \in Ranks /\ j > L /\ consoleOut'[j] = AllDone(Console, j - L - 1)
                 /\ j \in Nat
              \/ j = L + NumRanks + 1 /\ j > L /\ consoleOut'[j] = Close /\ j \in Nat
      /\ \A n \in Ranks : /\ n + L + 1 \in DOMAIN consoleOut'
                          /\ consoleOut'[n + L + 1] = AllDone(Console, n)
      /\ L + NumRanks + 1 \in DOMAIN consoleOut' /\ consoleOut'[L + NumRanks + 1] = Close
  BY ConsoleFinishPuts
<1> HIDE DEF L
<1>3. ConsoleOut \in Places /\ Queue[ConsoleOut] = consoleOut /\ Queue'[ConsoleOut] = consoleOut'
  BY PlaceKinds, QueueAt, QueueNext
<1>4. ASSUME NEW x \in Places, x # ConsoleOut PROVE Queue'[x] = Queue[x]
  <2>1. CASE \E s \in Ranks : x = OutQ(s)
    BY <1>1, <2>1, QueueAt, QueueNext
  <2>2. CASE \E i, s \in Ranks : x = Chan(i, s)
    BY <1>1, <2>2, QueueAt, QueueNext
  <2>3. CASE x = ToConsole \/ x = FromConsole
    BY <1>1, <2>3, QueueAt, QueueNext
  <2>4. CASE (\E c \in Clusters : x = ToProxy(c)) \/ (\E c \in Clusters : x = ProxyIn(c))
    BY <1>1, <2>4, QueueAt, QueueNext
  <2>5. QED
    BY <1>4, <2>1, <2>2, <2>3, <2>4, PlaceKinds
<1>5. ASSUME NEW x \in Places, NEW j \in DOMAIN Queue'[x]
      PROVE  \/ j \in DOMAIN Queue[x] /\ Queue'[x][j] = Queue[x][j] /\ (x = ConsoleOut => j <= L)
                /\ (x = ConsoleOut => j \in Nat)
             \/ x = ConsoleOut /\ Done(j, j - L - 1) /\ j > L
             \/ x = ConsoleOut /\ Last(j) /\ j > L
  <2>1. CASE x # ConsoleOut
    BY <1>4, <1>5, <2>1
  <2>2. CASE x = ConsoleOut
    <3>1. \/ j \in DOMAIN consoleOut
          \/ j - L - 1 \in Ranks /\ j > L /\ consoleOut'[j] = AllDone(Console, j - L - 1)
             /\ j \in Nat
          \/ j = L + NumRanks + 1 /\ j > L /\ consoleOut'[j] = Close /\ j \in Nat
      BY <1>2, <1>3, <1>5, <2>2
    <3>2. CASE j \in DOMAIN consoleOut
      BY <1>2, <1>3, <2>2, <3>2
    <3>3. CASE j - L - 1 \in Ranks /\ j > L /\ consoleOut'[j] = AllDone(Console, j - L - 1)
               /\ j \in Nat
      <4>1. j = (j - L - 1) + L + 1
        BY <1>2, <3>3
      <4>2. QED
        BY <1>3, <2>2, <3>3, <4>1
    <3>4. CASE j = L + NumRanks + 1 /\ j > L /\ consoleOut'[j] = Close /\ j \in Nat
      BY <1>3, <2>2, <3>4
    <3>5. QED
      BY <3>1, <3>2, <3>3, <3>4
  <2>3. QED
    BY <2>1, <2>2
<1>6. ASSUME NEW q, q = Close \/ \E n \in Ranks : q = AllDone(Console, n)
      PROVE  /\ q.from = Console /\ q.to \in Ranks /\ q \notin Flying
             /\ q.type \in {"ALL_MY_FILTERS_DONE", "CLOSE"}
  <2>1. /\ q.from = Console /\ q.to \in Ranks
        /\ q.type \in {"ALL_MY_FILTERS_DONE", "CLOSE"}
    BY <1>6, DoneFields, Gateways
  <2>2. ASSUME q \in Flying PROVE FALSE
    <3>1. CASE q.type = "CLOSE"
      BY <1>1, <2>2, <3>1, GenuineKinds
    <3>2. CASE q.type = "ALL_MY_FILTERS_DONE"
      <4>1. SentTo(Console, q.to)
        BY <2>1, <2>2, <3>2, GenuineKinds
      <4>2. QED
        BY <1>1, <4>1 DEF SentTo
    <3>3. QED
      BY <2>1, <3>1, <3>2
  <2>3. QED
    BY <2>1, <2>2
<1>7. Routed'
  <2> SUFFICES ASSUME NEW x \in Places, NEW j \in DOMAIN Queue'[x]
               PROVE  OnRoute(x, Queue'[x][j].from, Queue'[x][j].to)
    BY DEF Routed
  <2>1. CASE j \in DOMAIN Queue[x] /\ Queue'[x][j] = Queue[x][j]
    BY <2>1, OrderedAt
  <2>2. CASE x = ConsoleOut /\ (Done(j, j - L - 1) \/ Last(j))
    BY <1>6, <2>2, AtConsole
  <2>3. QED
    BY <1>5, <2>1, <2>2
<1>8. ASSUME NEW n, NEW j, Done(j, n) \/ Last(j), NEW k, NEW m, Done(k, m) \/ Last(k),
             Queue'[ConsoleOut][j] = Queue'[ConsoleOut][k]
      PROVE  j = k
  <2>1. CASE Last(j)
    BY <1>8, <2>1, DoneFields
  <2>2. CASE Last(k)
    BY <1>8, <2>2, DoneFields
  <2>3. CASE Done(j, n) /\ Done(k, m)
    BY <1>8, <2>3, DoneFields
  <2>4. QED
    BY <1>8, <2>1, <2>2, <2>3
<1>9. ASSUME NEW x \in Places, NEW y \in Places, NEW i \in DOMAIN Queue'[x],
             NEW j \in DOMAIN Queue'[y]
      PROVE  /\ Queue'[x][i] = Queue'[y][j] => x = y /\ i = j
             /\ Before(Queue'[x][i], Queue'[y][j]) =>
                  \/ Stage(x, Queue'[x][i].to) < Stage(y, Queue'[x][i].to)
                  \/ x = y /\ i < j
  <2> DEFINE p == Queue'[x][i]
             q == Queue'[y][j]
  <2>1. CASE x = ConsoleOut /\ (Done(i, i - L - 1) \/ Last(i))
    <3>1. p \notin Flying /\ ~Before(p, q)
      BY <1>6, <2>1 DEF Before
    <3>2. CASE j \in DOMAIN Queue[y] /\ q = Queue[y][j]
      <4>1. q \in Flying
        BY <3>2, OrderedAt
      <4>2. QED
        BY <3>1, <4>1
    <3>3. CASE y = ConsoleOut /\ (Done(j, j - L - 1) \/ Last(j))
      BY <1>8, <2>1, <3>1, <3>3
    <3>4. QED
      BY <1>5, <3>2, <3>3
  <2>2. CASE /\ i \in DOMAIN Queue[x] /\ p = Queue[x][i] /\ (x = ConsoleOut => i <= L)
             /\ (x = ConsoleOut => i \in Nat)
    <3>1. p \in Flying /\ OnRoute(x, p.from, p.to)
      BY <2>2, OrderedAt
    <3>2. CASE j \in DOMAIN Queue[y] /\ q = Queue[y][j]
      BY <2>2, <3>2, OrderedAt
    <3>3. CASE y = ConsoleOut /\ (Done(j, j - L - 1) \/ Last(j)) /\ j > L
      <4>1. q \notin Flying /\ q.from = Console /\ q.to \in Ranks
            /\ q.type \in {"ALL_MY_FILTERS_DONE", "CLOSE"}
        BY <1>6, <3>3
      <4>2. ASSUME Before(p, q)
            PROVE  Stage(x, p.to) < Stage(y, p.to) \/ (x = y /\ i < j)
        <5>1. p.from = Console /\ p.to = q.to
          BY <4>1, <4>2 DEF Before
        <5>2. p.to \in AllNodes /\ Console \in AllNodes /\ p.to \in Ranks
          BY <4>1, <5>1, Gateways DEF AllNodes
        <5>3. x = ConsoleOut \/ Stage(x, p.to) < 6
          BY <3>1, <5>1, <5>2, RoutePlaces, Gateways
        <5>4. Stage(y, p.to) = 6
          BY <3>3, AtConsole
        <5>5. x = ConsoleOut => i < j
          <6>1. j \in Int
            BY <1>2, <3>3, RanksAssumption DEF Ranks
          <6>2. QED
            BY <1>2, <2>2, <3>3, <6>1
        <5>6. QED
          BY <3>3, <5>3, <5>4, <5>5
      <4>3. QED
        BY <3>1, <4>1, <4>2
    <3>4. QED
      BY <1>5, <3>2, <3>3
  <2>3. QED
    BY <1>5, <2>1, <2>2
<1>10. Single' /\ Ordered'
  BY <1>9 DEF Single, Ordered
<1>11. ASSUME NEW q \in Flying PROVE q \in Flying'
  <2>1. PICK x \in Places : \E k \in DOMAIN Queue[x] : Queue[x][k] = q
    BY FlyingAt
  <2>2. PICK k \in DOMAIN Queue[x] : Queue[x][k] = q
    BY <2>1
  <2>3. k \in DOMAIN Queue'[x] /\ Queue'[x][k] = q
    BY <1>2, <1>3, <1>4, <2>2
  <2>4. QED
    BY <2>3, FlyingAt
<1>12. ASSUME NEW q, q = Close \/ \E n \in Ranks : q = AllDone(Console, n)
       PROVE  q \in Flying'
  <2>1. \E j \in DOMAIN consoleOut' : consoleOut'[j] = q
    BY <1>2, <1>12
  <2>2. QED
    BY <1>3, <2>1, FlyingAt
<1>13. ASSUME NEW q \in Flying'
       PROVE  q \in Flying \/ q = Close \/ \E n \in Ranks : q = AllDone(Console, n)
  <2>1. PICK x \in Places : \E k \in DOMAIN Queue'[x] : Queue'[x][k] = q
    BY FlyingAt
  <2>2. PICK k \in DOMAIN Queue'[x] : Queue'[x][k] = q
    BY <2>1
  <2>3. CASE k \in DOMAIN Queue[x] /\ Queue'[x][k] = Queue[x][k]
    BY <2>2, <2>3, FlyingAt
  <2>4. CASE x = ConsoleOut /\ (Done(k, k - L - 1) \/ Last(k))
    BY <2>2, <2>4
  <2>5. QED
    BY <1>5, <2>3, <2>4
<1>14. QED
  BY <1>7, <1>10, <1>11, <1>12, <1>13 DEF QueuesInv
-----------------------------------------------------------------------------
(* What can happen to a stream                                             *)

LEMMA StreamParts ==
  ASSUME NEW s \in Streams
  PROVE  s = <<s[1], s[2]>> /\ s[1] \in Filters /\ s[2] \in Filters
BY FiltersAssumption

\* What an in-port gets behind its last buffer.
GetsBuffer(g, e) == inq'[g] = Append(inq[g], e)

LEMMA WaitingAppend ==
  ASSUME TypeOK, NEW g \in Filters, NEW e, GetsBuffer(g, e), NEW w
  PROVE  /\ \A k \in Waiting(w, g) : /\ k \in Waiting(w, g)' /\ inq'[g][k] = inq[g][k]
                                     /\ k \in Nat /\ k < Len(inq[g]) + 1
         /\ \A k \in Waiting(w, g)' : k \in Waiting(w, g) \/ (k = Len(inq[g]) + 1 /\ w = e.writer)
         /\ inq'[g][Len(inq[g]) + 1] = e /\ Len(inq[g]) \in Nat
         /\ w = e.writer => Len(inq[g]) + 1 \in Waiting(w, g)'
<1>1. inq[g] \in Seq(InBuf)
  BY DEF TypeOK, PortTypes
<1>2. /\ \A i \in DOMAIN inq[g] : i \in DOMAIN inq'[g] /\ inq'[g][i] = inq[g][i]
                                /\ i \in Nat /\ i < Len(inq[g]) + 1
      /\ Len(inq[g]) + 1 \in DOMAIN inq'[g] /\ inq'[g][Len(inq[g]) + 1] = e
      /\ \A i \in DOMAIN inq'[g] : i \in DOMAIN inq[g] \/ i = Len(inq[g]) + 1
      /\ Len(inq[g]) \in Nat
  BY <1>1, AppendAt DEF GetsBuffer
<1>3. QED
  BY <1>2 DEF Waiting

LEMMA BufferPackets ==
  ASSUME NEW s, NEW n
  PROVE  /\ BufferOf(DcBuf(s[1], s[2], n), s) /\ DcBuf(s[1], s[2], n).seq = n
         /\ EndOf(RemovePutter(s[1], s[2]), s)
BY DEF DcBuf, RemovePutter, BufferOf, EndOf

\* Steps that do not concern stream s.
LEMMA StreamFrame ==
  ASSUME NEW s \in Streams, StreamOK(s),
         \A k : k \in Waiting(s[1], s[2])' <=> k \in Waiting(s[1], s[2]),
         \A k \in Waiting(s[1], s[2]) : inq'[s[2]][k].seq = inq[s[2]][k].seq,
         got'[s] = got[s], wrote'[s] = wrote[s],
         s[1] \in putters'[s[2]] <=> s[1] \in putters[s[2]],
         s[2] \in closed'[s[1]] <=> s[2] \in closed[s[1]],
         status[s[1]] # "process" => status'[s[1]] # "process",
         \A p : BufferOf(p, s) \/ EndOf(p, s) => (p \in Flying' <=> p \in Flying)
  PROVE  StreamOK(s)'
<1>1. PICK last \in got[s] .. wrote[s] : Split(s, last)
  BY DEF StreamOK
<1>2. \A n : DcBuf(s[1], s[2], n) \in Flying' <=> DcBuf(s[1], s[2], n) \in Flying
  BY BufferPackets
<1>3. Split(s, last)'
  BY <1>1, <1>2 DEF Split, BufferOf
<1>4. last \in got'[s] .. wrote'[s]
  BY <1>1
<1>5. \E l \in got'[s] .. wrote'[s] : Split(s, l)'
  BY <1>3, <1>4
<1>6. \A j, k \in Waiting(s[1], s[2])' : j < k => inq'[s[2]][j].seq < inq'[s[2]][k].seq
  BY DEF StreamOK
<1>7. /\ s[1] \notin putters'[s[2]] => s[2] \in closed'[s[1]]
      /\ s[2] \in closed'[s[1]] => status'[s[1]] # "process"
      /\ \A p \in Flying' : EndOf(p, s) => s[2] \in closed'[s[1]]
  BY DEF StreamOK
<1>8. QED
  BY <1>5, <1>6, <1>7 DEF StreamOK, EndOf

\* A buffer is written to a stream that leaves the node.
LEMMA StreamSends ==
  ASSUME TypeOK, NEW s \in Streams, StreamOK(s), status[s[1]] = "process",
         wrote'[s] = wrote[s] + 1, got'[s] = got[s], inq'[s[2]] = inq[s[2]],
         putters'[s[2]] = putters[s[2]], closed'[s[1]] = closed[s[1]], status' = status,
         Flying' = Flying \cup {DcBuf(s[1], s[2], wrote[s] + 1)}
  PROVE  StreamOK(s)'
<1>1. PICK last \in got[s] .. wrote[s] : Split(s, last)
  BY DEF StreamOK
<1>2. s[1] \in putters[s[2]] /\ s[2] \notin closed[s[1]]
  BY DEF StreamOK
<1>3. got[s] \in Nat /\ wrote[s] \in Nat /\ last \in Nat
  BY <1>1 DEF TypeOK, FilterTypes
<1>4. Waiting(s[1], s[2])' = Waiting(s[1], s[2])
  BY DEF Waiting
<1> DEFINE new == DcBuf(s[1], s[2], wrote[s] + 1)
<1>5. new.seq = wrote[s] + 1 /\ ~EndOf(new, s) /\ BufferOf(new, s)
  BY BufferPackets DEF BufferOf, EndOf
<1>6. Split(s, last)'
  <2>1. \A n \in last + 1 .. wrote'[s] : DcBuf(s[1], s[2], n) \in Flying'
    <3> SUFFICES ASSUME NEW n \in last + 1 .. wrote[s] + 1
                 PROVE  DcBuf(s[1], s[2], n) \in Flying'
      OBVIOUS
    <3>1. CASE n = wrote[s] + 1
      BY <3>1
    <3>2. CASE n \in last + 1 .. wrote[s]
      BY <1>1, <3>2 DEF Split
    <3>3. QED
      BY <1>3, <3>1, <3>2
  <2>2. \A p \in Flying' : BufferOf(p, s) => p.seq \in last + 1 .. wrote'[s]
    <3> SUFFICES ASSUME NEW p \in Flying', BufferOf(p, s)
                 PROVE  p.seq \in last + 1 .. wrote[s] + 1
      OBVIOUS
    <3>1. CASE p = new
      BY <1>1, <1>3, <1>5, <3>1
    <3>2. CASE p \in Flying
      <4>1. p.seq \in last + 1 .. wrote[s]
        BY <1>1, <3>2 DEF Split
      <4>2. QED
        BY <1>3, <4>1
    <3>3. QED
      BY <3>1, <3>2
  <2>3. s[1] \in putters'[s[2]]
    BY <1>2
  <2>4. \A k \in Waiting(s[1], s[2])' : inq'[s[2]][k].seq \in got'[s] + 1 .. last
    BY <1>1, <1>4 DEF Split
  <2>5. \A n \in got'[s] + 1 .. last : \E k \in Waiting(s[1], s[2])' : inq'[s[2]][k].seq = n
    BY <1>1, <1>4 DEF Split
  <2> HIDE DEF new
  <2>6. QED
    BY <2>1, <2>2, <2>3, <2>4, <2>5 DEF Split, BufferOf
<1>7. last \in got'[s] .. wrote'[s]
  BY <1>1, <1>3
<1>8. \A p \in Flying' : ~EndOf(p, s)
  BY <1>2, <1>5 DEF StreamOK
<1>9. \A j, k \in Waiting(s[1], s[2])' : j < k => inq'[s[2]][j].seq < inq'[s[2]][k].seq
  BY <1>4 DEF StreamOK
<1>10. s[2] \notin closed'[s[1]] /\ s[1] \in putters'[s[2]]
  BY <1>2
<1>11. QED
  BY <1>6, <1>7, <1>8, <1>9, <1>10 DEF StreamOK, EndOf

\* A buffer gets to the in-port: all that were written before it have.
LEMMA StreamArrives ==
  ASSUME TypeOK, NEW s \in Streams, NEW last \in got[s] .. wrote[s], Split(s, last),
         \A j, k \in Waiting(s[1], s[2]) : j < k => inq[s[2]][j].seq < inq[s[2]][k].seq,
         NEW e, e.writer = s[1], e.seq = last + 1,
         GetsBuffer(s[2], e), got'[s] = got[s]
  PROVE  /\ \A j, k \in Waiting(s[1], s[2])' : j < k => inq'[s[2]][j].seq < inq'[s[2]][k].seq
         /\ \A k \in Waiting(s[1], s[2])' : inq'[s[2]][k].seq \in got'[s] + 1 .. last + 1
         /\ \A n \in got'[s] + 1 .. last + 1 :
              \E k \in Waiting(s[1], s[2])' : inq'[s[2]][k].seq = n
<1>0. PICK new : new = Len(inq[s[2]]) + 1
  OBVIOUS
<1>1. got[s] \in Nat /\ wrote[s] \in Nat /\ last \in Nat
  BY DEF TypeOK, FilterTypes
<1>2. s[2] \in Filters
  BY StreamParts
<1>3. /\ \A k \in Waiting(s[1], s[2]) : /\ k \in Waiting(s[1], s[2])'
                                        /\ inq'[s[2]][k] = inq[s[2]][k]
                                        /\ k \in Nat /\ k < new
      /\ \A k \in Waiting(s[1], s[2])' : k \in Waiting(s[1], s[2]) \/ k = new
      /\ inq'[s[2]][new] = e /\ new \in Waiting(s[1], s[2])' /\ new \in Nat
  <2>2. /\ \A k \in Waiting(s[1], s[2]) : /\ k \in Waiting(s[1], s[2])'
                                           /\ inq'[s[2]][k] = inq[s[2]][k]
                                           /\ k \in Nat /\ k < Len(inq[s[2]]) + 1
        /\ \A k \in Waiting(s[1], s[2])' :
             k \in Waiting(s[1], s[2]) \/ (k = Len(inq[s[2]]) + 1 /\ s[1] = e.writer)
        /\ inq'[s[2]][Len(inq[s[2]]) + 1] = e /\ Len(inq[s[2]]) \in Nat
    BY <1>2, WaitingAppend
  <2>3. s[1] = e.writer => Len(inq[s[2]]) + 1 \in Waiting(s[1], s[2])'
    BY <1>2, WaitingAppend
  <2>4. s[1] = e.writer
    OBVIOUS
  <2>5. QED
    BY ONLY <1>0, <2>2, <2>3, <2>4
<1>4. \A k \in Waiting(s[1], s[2]) : inq[s[2]][k].seq \in got[s] + 1 .. last
  BY DEF Split
<1>5. ASSUME NEW j \in Waiting(s[1], s[2])', NEW k \in Waiting(s[1], s[2])', j < k
      PROVE  inq'[s[2]][j].seq < inq'[s[2]][k].seq
  <2>1. CASE k \in Waiting(s[1], s[2])
    <3>1. j \in Waiting(s[1], s[2])
      <4>1. k \in Nat /\ k < new /\ new \in Nat
        BY <1>3, <2>1
      <4>2. j # new
        BY <1>5, <4>1
      <4>3. QED
        BY <1>3, <4>2
    <3>2. QED
      BY <1>3, <1>5, <2>1, <3>1
  <2>2. CASE k = new
    <3>1. j \in Waiting(s[1], s[2])
      <4>1. j # new
        BY <1>3, <1>5, <2>2
      <4>2. QED
        BY <1>3, <4>1
    <3>2. inq[s[2]][j].seq \in got[s] + 1 .. last /\ inq'[s[2]][j].seq = inq[s[2]][j].seq
      BY <1>3, <1>4, <3>1
    <3>3. inq'[s[2]][k].seq = last + 1
      BY <1>3, <2>2
    <3>4. QED
      BY <1>1, <3>2, <3>3
  <2>3. QED
    BY <1>3, <2>1, <2>2
<1>6. ASSUME NEW k \in Waiting(s[1], s[2])'
      PROVE  inq'[s[2]][k].seq \in got[s] + 1 .. last + 1
  <2>1. CASE k \in Waiting(s[1], s[2])
    <3>1. inq[s[2]][k].seq \in got[s] + 1 .. last /\ inq'[s[2]][k].seq = inq[s[2]][k].seq
      BY <1>3, <1>4, <2>1
    <3>2. QED
      BY <1>1, <3>1
  <2>2. CASE k = new
    <3>1. inq'[s[2]][k].seq = last + 1
      BY <1>3, <2>2
    <3>2. QED
      BY <1>1, <3>1
  <2>3. QED
    BY <1>3, <2>1, <2>2
<1>7. ASSUME NEW n \in got[s] + 1 .. last + 1
      PROVE  \E k \in Waiting(s[1], s[2])' : inq'[s[2]][k].seq = n
  <2>1. CASE n = last + 1
    BY <1>3, <2>1
  <2>2. CASE n \in got[s] + 1 .. last
    <3>1. PICK k \in Waiting(s[1], s[2]) : inq[s[2]][k].seq = n
      BY <2>2 DEF Split
    <3>2. QED
      BY <1>3, <3>1
  <2>3. n = last + 1 \/ n \in got[s] + 1 .. last
    BY <1>1, <1>7
  <2>4. QED
    BY <2>1, <2>2, <2>3
<1>8. QED
  BY <1>5, <1>6, <1>7
\* A stream without a buffer on its way has arrived as far as it is written.
LEMMA NothingOnItsWay ==
  ASSUME TypeOK, NEW s \in Streams, NEW last \in got[s] .. wrote[s], Split(s, last),
         \A p \in Flying : ~BufferOf(p, s)
  PROVE  last = wrote[s]
<1>1. got[s] \in Nat /\ wrote[s] \in Nat /\ last \in Nat
  BY DEF TypeOK, FilterTypes
<1>2. SUFFICES ASSUME last + 1 \in last + 1 .. wrote[s]
               PROVE  FALSE
  BY <1>1
<1>3. DcBuf(s[1], s[2], last + 1) \in Flying
  BY <1>2 DEF Split
<1>4. BufferOf(DcBuf(s[1], s[2], last + 1), s)
  BY BufferPackets
<1>5. QED
  BY <1>3, <1>4

\* A filter writes to a stream of its own node.
LEMMA StreamWritesHere ==
  ASSUME TypeOK, NEW s \in Streams, StreamOK(s), status[s[1]] = "process",
         \A p \in Flying : ~BufferOf(p, s) /\ ~EndOf(p, s),
         NEW e, e.writer = s[1], e.seq = wrote[s] + 1,
         GetsBuffer(s[2], e), got'[s] = got[s], wrote'[s] = wrote[s] + 1,
         putters'[s[2]] = putters[s[2]], closed'[s[1]] = closed[s[1]], Flying' = Flying
  PROVE  StreamOK(s)'
<1>1. PICK last \in got[s] .. wrote[s] : Split(s, last)
  BY DEF StreamOK
<1>2. last = wrote[s]
  BY <1>1, NothingOnItsWay
<1>3. s[1] \in putters[s[2]] /\ s[2] \notin closed[s[1]]
  BY DEF StreamOK
<1>4. \A j, k \in Waiting(s[1], s[2]) : j < k => inq[s[2]][j].seq < inq[s[2]][k].seq
  BY DEF StreamOK
<1>5. e.seq = last + 1
  BY <1>2
<1>6. /\ \A j, k \in Waiting(s[1], s[2])' : j < k => inq'[s[2]][j].seq < inq'[s[2]][k].seq
      /\ \A k \in Waiting(s[1], s[2])' : inq'[s[2]][k].seq \in got'[s] + 1 .. last + 1
      /\ \A n \in got'[s] + 1 .. last + 1 :
           \E k \in Waiting(s[1], s[2])' : inq'[s[2]][k].seq = n
  BY <1>1, <1>4, <1>5, StreamArrives
<1>7. got[s] \in Nat /\ wrote[s] \in Nat /\ last \in Nat
  BY <1>1 DEF TypeOK, FilterTypes
<1>8. Split(s, last + 1)'
  <2>1. last + 1 = wrote'[s]
    BY <1>2
  <2>2. \A n : n \notin last + 1 + 1 .. wrote'[s]
    BY <1>7, <2>1
  <2> QED
    BY <1>3, <1>6, <2>1, <2>2 DEF Split, BufferOf
<1>9. last + 1 \in got'[s] .. wrote'[s]
  BY <1>1, <1>2, <1>7
<1>10. \A p \in Flying' : ~EndOf(p, s)
  OBVIOUS
<1>11. s[2] \notin closed'[s[1]] /\ s[1] \in putters'[s[2]]
  BY <1>3
<1>12. \E l \in got'[s] .. wrote'[s] : Split(s, l)'
  BY <1>8, <1>9
<1>13. QED
  BY <1>6, <1>10, <1>11, <1>12 DEF StreamOK, EndOf

\* A buffer that is the first of its stream on its way is delivered.
LEMMA StreamDelivers ==
  ASSUME TypeOK, NEW s \in Streams, StreamOK(s), NEW p \in Flying, BufferOf(p, s),
         \A q \in Flying : ~Before(q, p),
         \A q \in Flying : BufferOf(q, s) => q = DcBuf(s[1], s[2], q.seq),
         NEW e, e.writer = s[1], e.seq = p.seq,
         GetsBuffer(s[2], e), got'[s] = got[s], wrote'[s] = wrote[s],
         putters'[s[2]] = putters[s[2]], closed'[s[1]] = closed[s[1]], status' = status,
         Flying' = Flying \ {p}
  PROVE  StreamOK(s)'
<1>1. PICK last \in got[s] .. wrote[s] : Split(s, last)
  BY DEF StreamOK
<1>2. got[s] \in Nat /\ wrote[s] \in Nat /\ last \in Nat
  BY <1>1 DEF TypeOK, FilterTypes
<1>3. p.seq \in last + 1 .. wrote[s]
  BY <1>1 DEF Split
<1>4. last + 1 \in last + 1 .. wrote[s]
  BY <1>2, <1>3
<1>5. p.seq = last + 1
  <2> SUFFICES ASSUME last + 1 < p.seq
               PROVE  FALSE
    BY <1>2, <1>3
  <2> DEFINE q == DcBuf(s[1], s[2], last + 1)
  <2>1. q \in Flying
    BY <1>1, <1>4 DEF Split
  <2>2. q.type = "DCBUF" /\ q.writer = s[1] /\ q.reader = s[2] /\ q.seq = last + 1
    BY DEF DcBuf
  <2> HIDE DEF q
  <2>3. BufferOf(p, s) /\ q.seq < p.seq
    BY <2>2
  <2>4. Before(q, p)
    BY ONLY <2>2, <2>3 DEF BufferOf, Before, SameStream
  <2>5. QED
    BY <2>1, <2>4
<1>6. s[1] \in putters[s[2]]
  BY <1>1, <1>2, <1>3 DEF Split
<1>7. \A j, k \in Waiting(s[1], s[2]) : j < k => inq[s[2]][j].seq < inq[s[2]][k].seq
  BY DEF StreamOK
<1>8. e.seq = last + 1
  BY <1>5
<1>9. /\ \A j, k \in Waiting(s[1], s[2])' : j < k => inq'[s[2]][j].seq < inq'[s[2]][k].seq
      /\ \A k \in Waiting(s[1], s[2])' : inq'[s[2]][k].seq \in got'[s] + 1 .. last + 1
      /\ \A n \in got'[s] + 1 .. last + 1 :
           \E k \in Waiting(s[1], s[2])' : inq'[s[2]][k].seq = n
  BY <1>1, <1>7, <1>8, StreamArrives
<1>10. ASSUME NEW n \in last + 1 + 1 .. wrote'[s]
       PROVE  DcBuf(s[1], s[2], n) \in Flying'
  <2>1. n \in last + 1 .. wrote[s] /\ n # last + 1
    BY <1>2
  <2>2. DcBuf(s[1], s[2], n) \in Flying
    BY <1>1, <2>1 DEF Split
  <2>3. DcBuf(s[1], s[2], n).seq = n
    BY BufferPackets
  <2>4. QED
    BY <1>5, <2>1, <2>2, <2>3
<1>11. ASSUME NEW q \in Flying', BufferOf(q, s)
       PROVE  q.seq \in last + 1 + 1 .. wrote'[s]
  <2>1. q \in Flying /\ q # p
    OBVIOUS
  <2>2. q.seq \in last + 1 .. wrote[s]
    BY <1>1, <1>11, <2>1 DEF Split
  <2>3. q.seq # last + 1
    <3>1. SUFFICES ASSUME q.seq = last + 1
                   PROVE  FALSE
      OBVIOUS
    <3>2. q = DcBuf(s[1], s[2], q.seq)
      BY <1>11, <2>1
    <3>3. QED
      BY <1>5, <2>1, <3>1, <3>2
  <2>4. QED
    BY <1>2, <2>2, <2>3
<1>12. Split(s, last + 1)'
  BY <1>6, <1>9, <1>10, <1>11 DEF Split, BufferOf
<1>13. last + 1 \in got'[s] .. wrote'[s]
  BY <1>1, <1>2, <1>4
<1>14. \A q \in Flying' : EndOf(q, s) => s[2] \in closed'[s[1]]
  BY DEF StreamOK
<1>15. \E l \in got'[s] .. wrote'[s] : Split(s, l)'
  BY <1>12, <1>13
<1>16. /\ s[1] \in putters'[s[2]]
       /\ s[2] \in closed'[s[1]] => status'[s[1]] # "process"
  BY <1>6 DEF StreamOK
<1>17. QED
  BY <1>9, <1>14, <1>15, <1>16 DEF StreamOK, EndOf

\* A filter ends its stream, or the end of the stream is delivered.
LEMMA StreamEnds ==
  ASSUME TypeOK, NEW s \in Streams, StreamOK(s),
         \A k : k \in Waiting(s[1], s[2])' <=> k \in Waiting(s[1], s[2]),
         \A k \in Waiting(s[1], s[2]) : inq'[s[2]][k].seq = inq[s[2]][k].seq,
         got'[s] = got[s], wrote'[s] = wrote[s],
         \A p : BufferOf(p, s) => (p \in Flying' <=> p \in Flying),
         s[2] \in closed'[s[1]], status'[s[1]] # "process",
         s[1] \notin putters'[s[2]] =>
           s[1] \notin putters[s[2]] \/ \A p \in Flying : ~BufferOf(p, s)
  PROVE  StreamOK(s)'
<1>1. PICK last \in got[s] .. wrote[s] : Split(s, last)
  BY DEF StreamOK
<1>2. s[1] \notin putters'[s[2]] => last = wrote'[s]
  <2>1. CASE s[1] \notin putters[s[2]]
    BY <1>1, <2>1 DEF Split
  <2>2. CASE \A p \in Flying : ~BufferOf(p, s)
    BY <1>1, <2>2, NothingOnItsWay
  <2>3. QED
    BY <2>1, <2>2
<1>3. \A n : DcBuf(s[1], s[2], n) \in Flying' <=> DcBuf(s[1], s[2], n) \in Flying
  BY BufferPackets
<1>4. Split(s, last)'
  <2>1. \A p \in Flying' : BufferOf(p, s) => p.seq \in last + 1 .. wrote'[s]
    BY <1>1 DEF Split
  <2>2. \A n \in last + 1 .. wrote'[s] : DcBuf(s[1], s[2], n) \in Flying'
    BY <1>1, <1>3 DEF Split
  <2>3. /\ \A k \in Waiting(s[1], s[2])' : inq'[s[2]][k].seq \in got'[s] + 1 .. last
        /\ \A n \in got'[s] + 1 .. last : \E k \in Waiting(s[1], s[2])' : inq'[s[2]][k].seq = n
    BY <1>1 DEF Split
  <2>4. QED
    BY <1>2, <2>1, <2>2, <2>3 DEF Split, BufferOf
<1>5. \E l \in got'[s] .. wrote'[s] : Split(s, l)'
  BY <1>1, <1>4
<1>6. \A j, k \in Waiting(s[1], s[2])' : j < k => inq'[s[2]][j].seq < inq'[s[2]][k].seq
  BY DEF StreamOK
<1>7. QED
  BY <1>5, <1>6 DEF StreamOK, EndOf

\* What an in-port keeps behind the buffer that is read.
LosesHead(g) == inq[g] # <<>> /\ inq'[g] = Tail(inq[g])

LEMMA WaitingTail ==
  ASSUME TypeOK, NEW g \in Filters, LosesHead(g), NEW w
  PROVE  /\ \A k \in Waiting(w, g)' : /\ k \in Nat /\ k >= 1 /\ k + 1 \in Waiting(w, g)
                                      /\ inq'[g][k] = inq[g][k + 1]
         /\ \A k \in Waiting(w, g) :
              \/ k = 1 /\ w = Head(inq[g]).writer
              \/ k - 1 \in Waiting(w, g)' /\ inq'[g][k - 1] = inq[g][k]
         /\ \A k \in Waiting(w, g) : k \in Nat /\ k >= 1
         /\ w = Head(inq[g]).writer => 1 \in Waiting(w, g) /\ inq[g][1] = Head(inq[g])
<1>1. inq[g] \in Seq(InBuf)
  BY DEF TypeOK, PortTypes
<1>2. /\ 1 \in DOMAIN inq[g] /\ Head(inq[g]) = inq[g][1]
      /\ \A j \in DOMAIN inq'[g] : j \in Nat /\ j + 1 \in DOMAIN inq[g] /\ inq'[g][j] = inq[g][j + 1]
      /\ \A i \in DOMAIN inq[g] : i = 1 \/ (i - 1 \in DOMAIN inq'[g] /\ inq'[g][i - 1] = inq[g][i])
  BY <1>1, TailAt DEF LosesHead
<1>3. \A i \in DOMAIN inq[g] : i \in Nat /\ i >= 1
  BY <1>1
<1>4. \A i \in DOMAIN inq'[g] : i \in Nat /\ i >= 1
  BY <1>1, TailAt DEF LosesHead
<1>5. QED
  BY <1>2, <1>3, <1>4 DEF Waiting

\* Another stream of an in-port that is read.
LEMMA StreamShifts ==
  ASSUME TypeOK, NEW s \in Streams, StreamOK(s), LosesHead(s[2]),
         s[1] # Head(inq[s[2]]).writer, got'[s] = got[s],
         UNCHANGED <<wrote, putters, closed, status, Flying>>
  PROVE  StreamOK(s)'
<1>1. PICK last \in got[s] .. wrote[s] : Split(s, last)
  BY DEF StreamOK
<1>2. s[2] \in Filters
  BY StreamParts
<1>3. /\ \A k \in Waiting(s[1], s[2])' : /\ k \in Nat /\ k + 1 \in Waiting(s[1], s[2])
                                         /\ inq'[s[2]][k] = inq[s[2]][k + 1]
      /\ \A k \in Waiting(s[1], s[2]) :
           k - 1 \in Waiting(s[1], s[2])' /\ inq'[s[2]][k - 1] = inq[s[2]][k]
  BY <1>2, WaitingTail
<1>4. ASSUME NEW j \in Waiting(s[1], s[2])', NEW k \in Waiting(s[1], s[2])', j < k
      PROVE  inq'[s[2]][j].seq < inq'[s[2]][k].seq
  <2>1. j + 1 \in Waiting(s[1], s[2]) /\ k + 1 \in Waiting(s[1], s[2]) /\ j + 1 < k + 1
    BY <1>3, <1>4
  <2>2. inq[s[2]][j + 1].seq < inq[s[2]][k + 1].seq
    BY <2>1 DEF StreamOK
  <2>3. QED
    BY <1>3, <2>2
<1>5. Split(s, last)'
  <2>1. \A k \in Waiting(s[1], s[2])' : inq'[s[2]][k].seq \in got'[s] + 1 .. last
    BY <1>1, <1>3 DEF Split
  <2>2. ASSUME NEW n \in got'[s] + 1 .. last
        PROVE  \E k \in Waiting(s[1], s[2])' : inq'[s[2]][k].seq = n
    <3>1. PICK k \in Waiting(s[1], s[2]) : inq[s[2]][k].seq = n
      BY <1>1, <2>2 DEF Split
    <3>2. QED
      BY <1>3, <3>1
  <2>3. QED
    BY <1>1, <2>1, <2>2 DEF Split
<1>6. QED
  BY <1>1, <1>4, <1>5 DEF StreamOK

\* The stream that is read: the head is its next buffer.
LEMMA StreamReads ==
  ASSUME TypeOK, NEW s \in Streams, StreamOK(s), LosesHead(s[2]),
         s[1] = Head(inq[s[2]]).writer, got'[s] = got[s] + 1,
         UNCHANGED <<wrote, putters, closed, status, Flying>>
  PROVE  StreamOK(s)'
<1>1. PICK last \in got[s] .. wrote[s] : Split(s, last)
  BY DEF StreamOK
<1>2. s[2] \in Filters
  BY StreamParts
<1>3. got[s] \in Nat /\ wrote[s] \in Nat /\ last \in Nat
  BY <1>1 DEF TypeOK, FilterTypes
<1> DEFINE W == Waiting(s[1], s[2])
           q == inq[s[2]]
<1>4. /\ \A k \in W' : k \in Nat /\ k >= 1 /\ k + 1 \in W /\ q'[k] = q[k + 1]
      /\ \A k \in W : k = 1 \/ (k - 1 \in W' /\ q'[k - 1] = q[k])
      /\ \A k \in W : k \in Nat /\ k >= 1
      /\ 1 \in W
  BY <1>2, WaitingTail
<1>5. \A j, k \in W : j < k => q[j].seq < q[k].seq
  BY DEF StreamOK
<1>6. /\ \A k \in W : q[k].seq \in got[s] + 1 .. last
      /\ \A n \in got[s] + 1 .. last : \E k \in W : q[k].seq = n
  BY <1>1 DEF Split
<1> HIDE DEF W, q
<1>7. got[s] + 1 \in got[s] + 1 .. last /\ q[1].seq \in got[s] + 1 .. last
  BY <1>3, <1>4, <1>6
<1>8. q[1].seq = got[s] + 1
  <2>1. PICK k \in W : q[k].seq = got[s] + 1
    BY <1>6, <1>7
  <2>2. CASE k = 1
    BY <2>1, <2>2
  <2>3. CASE 1 < k
    BY <1>3, <1>4, <1>5, <1>7, <2>1, <2>3
  <2>4. QED
    BY <1>4, <2>2, <2>3
<1>9. ASSUME NEW j \in W', NEW k \in W', j < k
      PROVE  q'[j].seq < q'[k].seq
  <2>1. j + 1 \in W /\ k + 1 \in W /\ j + 1 < k + 1
    BY <1>4, <1>9
  <2>2. QED
    BY <1>4, <1>5, <2>1
<1>10. ASSUME NEW k \in W'
       PROVE  q'[k].seq \in got[s] + 1 + 1 .. last
  <2>1. k + 1 \in W /\ 1 < k + 1
    <3>1. k + 1 \in W /\ k \in Nat /\ k >= 1
      BY <1>4
    <3>2. QED
      BY <3>1
  <2>2. q[1].seq < q[k + 1].seq /\ q[k + 1].seq \in got[s] + 1 .. last
    BY <1>4, <1>5, <1>6, <2>1
  <2>3. q'[k].seq = q[k + 1].seq
    BY <1>4
  <2>4. QED
    BY <1>3, <1>8, <2>2, <2>3
<1>11. ASSUME NEW n \in got[s] + 1 + 1 .. last
       PROVE  \E k \in W' : q'[k].seq = n
  <2>1. n \in got[s] + 1 .. last /\ n # got[s] + 1
    BY <1>3
  <2>2. PICK k \in W : q[k].seq = n
    BY <1>6, <2>1
  <2>3. k # 1
    BY <1>8, <2>1, <2>2
  <2>4. QED
    BY <1>4, <2>2, <2>3
<1>12. Split(s, last)'
  <2> USE DEF W, q
  <2>1. \A k \in Waiting(s[1], s[2])' : inq'[s[2]][k].seq \in got'[s] + 1 .. last
    BY <1>10
  <2>2. \A n \in got'[s] + 1 .. last : \E k \in Waiting(s[1], s[2])' : inq'[s[2]][k].seq = n
    BY <1>11
  <2>3. QED
    BY <1>1, <2>1, <2>2 DEF Split
<1>13. last \in got'[s] .. wrote'[s]
  BY <1>1, <1>3, <1>7
<1>14. \A j, k \in Waiting(s[1], s[2])' : j < k => inq'[s[2]][j].seq < inq'[s[2]][k].seq
  BY <1>9 DEF W, q
<1>15. QED
  BY <1>12, <1>13, <1>14 DEF StreamOK
-----------------------------------------------------------------------------
(* What a step leaves as it is                                             *)

LEMMA SentKept ==
  ASSUME UNCHANGED <<announced, consoleSent>>
  PROVE  \A m, n : SentTo(m, n)' <=> SentTo(m, n)
BY DEF SentTo, SentDone

LEMMA GenuineKept ==
  ASSUME Genuine, \A m, n \in Nodes : SentTo(m, n) => SentTo(m, n)',
         consoleSent => consoleSent', \A p \in Flying' : p \in Flying \/ IsGenuine(p)'
  PROVE  Genuine'
BY DEF Genuine, IsGenuine

LEMMA DoneKept ==
  ASSUME DoneInv, doneReceived' = doneReceived,
         \A r \in Ranks : \A m \in Nodes \ {r} :
           SentTo(m, r)' /\ AllDone(m, r) \notin Flying'
             <=> SentTo(m, r) /\ AllDone(m, r) \notin Flying
  PROVE  DoneInv'
<1>1. \A r \in Ranks : Heard(r)' = Heard(r)
  BY DEF Heard
<1>2. QED
  BY <1>1 DEF DoneInv

LEMMA OthersKept ==
  ASSUME Genuine, ConsoleInv, DoneInv, UNCHANGED <<announced, consoleSent, doneReceived>>,
         \A f \in Filters : status[f] = "erased" => status'[f] = "erased",
         \A p \in Flying' : p \in Flying \/ IsGenuine(p),
         \A m, n : AllDone(m, n) \in Flying' <=> AllDone(m, n) \in Flying
  PROVE  Genuine' /\ ConsoleInv' /\ DoneInv'
<1>1. \A m, n : SentTo(m, n)' <=> SentTo(m, n)
  BY SentKept
<1>2. \A p : IsGenuine(p) => IsGenuine(p)'
  BY <1>1 DEF IsGenuine
<1>3. Genuine'
  BY <1>1, <1>2, GenuineKept
<1>4. ConsoleInv'
  BY DEF ConsoleInv, FiltersOn
<1>5. DoneInv'
  BY <1>1, DoneKept
<1>6. QED
  BY <1>3, <1>4, <1>5

\* Packets of filters are the only ones that streams know.
IsOfStream(p) == p.type \in {"DCBUF", "REMOVE_PUTTER"}

LEMMA StreamsKept ==
  ASSUME Arrived, \A s \in Streams : StreamOK(s), UNCHANGED <<inq, got, wrote, putters, closed>>,
         \A f \in Filters : status[f] # "process" => status'[f] # "process",
         \A p : IsOfStream(p) => (p \in Flying' <=> p \in Flying)
  PROVE  Arrived' /\ \A s \in Streams : StreamOK(s)'
<1>1. Arrived'
  BY DEF Arrived
<1>2. ASSUME NEW s \in Streams
      PROVE  StreamOK(s)'
  <2>1. \A k : k \in Waiting(s[1], s[2])' <=> k \in Waiting(s[1], s[2])
    BY DEF Waiting
  <2>2. \A p : BufferOf(p, s) \/ EndOf(p, s) => (p \in Flying' <=> p \in Flying)
    BY DEF BufferOf, EndOf, IsOfStream
  <2>3. status[s[1]] # "process" => status'[s[1]] # "process"
    BY StreamParts
  <2>4. QED
    BY <2>1, <2>2, <2>3, StreamFrame
<1>3. QED
  BY <1>1, <1>2

LEMMA DoneIsNotOfStream == \A m, n : ~IsOfStream(AllDone(m, n)) /\ ~IsOfStream(Close)
BY DEF IsOfStream, AllDone, Close

\* A filter that runs is on a node that has not sent its done packets.
LEMMA WriterIsNotDone ==
  ASSUME QuietInv, ConsoleInv, NEW w \in Filters, status[w] # "erased", NEW n
  PROVE  ~SentTo(HostOf[w], n)
<1>1. HostOf[w] \in Ranks \/ HostOf[w] = Console
  BY FiltersAssumption DEF Nodes
<1>2. CASE HostOf[w] = Console
  BY <1>2 DEF ConsoleInv, FiltersOn, SentTo
<1>3. CASE HostOf[w] \in Ranks
  BY <1>3, LiveFilterNotAnnounced, Gateways DEF SentTo
<1>4. QED
  BY <1>1, <1>2, <1>3

\* What is on its way of a stream that is being written or closed.
LEMMA StreamOnItsWay ==
  ASSUME TypeOK, QuietInv, OrderInv, NEW w \in Filters, NEW g \in Filters, <<w, g>> \in Streams,
         status[w] # "erased", NEW q \in Flying
  PROVE  /\ ~(q.type = "ALL_MY_FILTERS_DONE" /\ q.from = HostOf[w])
         /\ q.type = "DCBUF" /\ q.writer = w /\ q.reader = g => q.seq \in 1 .. wrote[<<w, g>>]
         /\ q.type = "REMOVE_PUTTER" /\ q.writer = w /\ q.reader = g =>
              g \in closed[w] /\ status[w] # "process"
         /\ q.type \in {"DCBUF", "REMOVE_PUTTER"} /\ q.writer = w /\ q.reader = g =>
              HostOf[w] # HostOf[g]
<1> DEFINE s == <<w, g>>
<1>1. Genuine /\ StreamOK(s)
  BY DEF OrderInv, StreamInv
<1>2. ~(q.type = "ALL_MY_FILTERS_DONE" /\ q.from = HostOf[w])
  BY <1>1, GenuineKinds, WriterIsNotDone DEF OrderInv
<1>3. ASSUME q.type = "DCBUF", q.writer = w, q.reader = g
      PROVE  q.seq \in 1 .. wrote[s]
  <2>1. PICK last \in got[s] .. wrote[s] : Split(s, last)
    BY <1>1 DEF StreamOK
  <2>2. got[s] \in Nat /\ wrote[s] \in Nat /\ last \in Nat
    BY <2>1 DEF TypeOK, FilterTypes
  <2>3. BufferOf(q, s)
    BY <1>3 DEF BufferOf
  <2>4. q.seq \in last + 1 .. wrote[s]
    BY <2>1, <2>3 DEF Split
  <2>5. QED
    BY <2>2, <2>4
<1>4. ASSUME q.type = "REMOVE_PUTTER", q.writer = w, q.reader = g
      PROVE  g \in closed[w] /\ status[w] # "process"
  <2>1. EndOf(q, s)
    BY <1>4 DEF EndOf
  <2>2. QED
    BY <1>1, <2>1 DEF StreamOK
<1>5. q.type \in {"DCBUF", "REMOVE_PUTTER"} /\ q.writer = w /\ q.reader = g =>
        HostOf[w] # HostOf[g]
  BY <1>1, GenuineKinds
<1>6. QED
  BY <1>2, <1>3, <1>4, <1>5
-----------------------------------------------------------------------------
(* Steps of the filters                                                    *)

\* The other streams, when in-port g gets a buffer of writer w.
LEMMA OtherWaiting ==
  ASSUME TypeOK, NEW g \in Filters, NEW e, GetsBuffer(g, e),
         \A f \in Filters \ {g} : inq'[f] = inq[f], NEW t \in Streams, t # <<e.writer, g>>
  PROVE  /\ \A k : k \in Waiting(t[1], t[2])' <=> k \in Waiting(t[1], t[2])
         /\ \A k \in Waiting(t[1], t[2]) : inq'[t[2]][k].seq = inq[t[2]][k].seq
<1>1. t[1] \in Filters /\ t[2] \in Filters /\ t = <<t[1], t[2]>>
  BY StreamParts
<1>2. CASE t[2] # g
  BY <1>1, <1>2 DEF Waiting
<1>3. CASE t[2] = g
  <2>1. t[1] # e.writer
    BY <1>1, <1>3
  <2>2. /\ \A k \in Waiting(t[1], g) : k \in Waiting(t[1], g)' /\ inq'[g][k] = inq[g][k]
        /\ \A k \in Waiting(t[1], g)' : k \in Waiting(t[1], g)
    BY <2>1, WaitingAppend
  <2>3. QED
    BY <1>3, <2>2
<1>4. QED
  BY <1>2, <1>3

\* What the in-ports hold stays off streams when one more buffer comes in.
LEMMA ArrivedAppend ==
  ASSUME TypeOK, Arrived, NEW g \in Filters, NEW e, GetsBuffer(g, e), <<e.writer, g>> \in Streams,
         \A f \in Filters \ {g} : inq'[f] = inq[f]
  PROVE  Arrived'
<1>1. inq[g] \in Seq(InBuf)
  BY DEF TypeOK, PortTypes
<1>2. /\ \A i \in DOMAIN inq[g] : inq'[g][i] = inq[g][i]
      /\ inq'[g][Len(inq[g]) + 1] = e
      /\ \A i \in DOMAIN inq'[g] : i \in DOMAIN inq[g] \/ i = Len(inq[g]) + 1
  BY <1>1, AppendAt DEF GetsBuffer
<1>3. \A k \in DOMAIN inq'[g] : <<inq'[g][k].writer, g>> \in Streams
  BY <1>2 DEF Arrived
<1>4. QED
  BY <1>3 DEF Arrived

LEMMA WriteHereOrder ==
  ASSUME TypeOK, QuietInv, OrderInv, NEW w \in Filters, NEW g \in Filters,
         FilterWrite(w, g), HostOf[w] = HostOf[g]
  PROVE  OrderInv'
<1> DEFINE s == <<w, g>>
           e == EntryOf(DcBuf(w, g, wrote[s] + 1), w)
<1>1. /\ s \in Streams /\ status[w] = "process" /\ wrote' = [wrote EXCEPT ![s] = @ + 1]
      /\ inq' = [inq EXCEPT ![g] = Append(@, e)]
      /\ UNCHANGED <<outq, consoleOut, toConsole, toProxy, chan, fromConsole, proxyIn>>
      /\ UNCHANGED <<status, got, putters, closed, announced, consoleSent, doneReceived>>
  BY DEF FilterWrite, loopVars, countVars
<1>2. QueuesInv' /\ Flying' = Flying
  BY <1>1, NoPlaceTouched, KeepKeeps DEF OrderInv
<1>3. GetsBuffer(g, e) /\ \A f \in Filters \ {g} : inq'[f] = inq[f]
  BY <1>1 DEF GetsBuffer, TypeOK, PortTypes
<1>4. e.writer = w /\ e.seq = wrote[s] + 1
  BY DEF EntryOf, DcBuf
<1> HIDE DEF e
<1>5. Genuine /\ Arrived /\ \A t \in Streams : StreamOK(t)
  BY DEF OrderInv, StreamInv
<1>6. Arrived'
  BY <1>1, <1>3, <1>4, <1>5, ArrivedAppend
<1>7. StreamOK(s)'
  <2>1. \A p \in Flying : ~BufferOf(p, s) /\ ~EndOf(p, s)
    BY <1>1, StreamOnItsWay DEF BufferOf, EndOf
  <2>2. s[1] = w /\ s[2] = g
    OBVIOUS
  <2>3. wrote'[s] = wrote[s] + 1
    BY <1>1 DEF TypeOK, FilterTypes
  <2> HIDE DEF s
  <2>4. QED
    BY <1>1, <1>2, <1>3, <1>4, <1>5, <2>1, <2>2, <2>3, StreamWritesHere
<1>8. ASSUME NEW t \in Streams, t # s
      PROVE  StreamOK(t)'
  <2>1. /\ \A k : k \in Waiting(t[1], t[2])' <=> k \in Waiting(t[1], t[2])
        /\ \A k \in Waiting(t[1], t[2]) : inq'[t[2]][k].seq = inq[t[2]][k].seq
    BY <1>3, <1>4, <1>8, OtherWaiting
  <2>2. wrote'[t] = wrote[t]
    BY <1>1, <1>8 DEF TypeOK, FilterTypes
  <2>3. QED
    BY <1>1, <1>2, <1>5, <2>1, <2>2, StreamFrame
<1>9. Genuine' /\ ConsoleInv' /\ DoneInv'
  BY <1>1, <1>2, OthersKept DEF OrderInv, StreamInv
<1>10. QED
  BY <1>2, <1>6, <1>7, <1>8, <1>9 DEF OrderInv, StreamInv

LEMMA WriteAwayOrder ==
  ASSUME TypeOK, QuietInv, OrderInv, NEW w \in Filters, NEW g \in Filters,
         FilterWrite(w, g), HostOf[w] # HostOf[g]
  PROVE  OrderInv'
<1> DEFINE s == <<w, g>>
           n == wrote[s] + 1
           p == DcBuf(w, g, n)
<1>1. /\ s \in Streams /\ status[w] = "process" /\ wrote' = [wrote EXCEPT ![s] = @ + 1]
      /\ PutPacket(HostOf[w], p) /\ UNCHANGED <<inq, chan, fromConsole, proxyIn>>
      /\ UNCHANGED <<status, got, putters, closed, announced, consoleSent, doneReceived>>
  BY DEF FilterWrite, loopVars, countVars
<1>2. Genuine /\ Arrived /\ \A t \in Streams : StreamOK(t)
  BY DEF OrderInv, StreamInv
<1>3. n \in Nat /\ wrote'[s] = n /\ wrote[s] \in Nat
  BY <1>1 DEF TypeOK, FilterTypes
<1>4. p.type = "DCBUF" /\ p.writer = w /\ p.reader = g /\ p.seq = n /\ p.from = HostOf[w]
  BY DEF DcBuf
<1>5. p \notin Flying
  <2>1. n \notin 1 .. wrote[s]
    BY <1>3
  <2>2. QED
    BY <1>1, <1>4, <2>1, StreamOnItsWay
<1>6. \A q \in Flying : ~Before(p, q)
  <2> SUFFICES ASSUME NEW q \in Flying, Before(p, q)
               PROVE  FALSE
    OBVIOUS
  <2>1. /\ ~(q.type = "ALL_MY_FILTERS_DONE" /\ q.from = HostOf[w])
        /\ q.type = "DCBUF" /\ q.writer = w /\ q.reader = g => q.seq \in 1 .. wrote[s]
        /\ ~(q.type = "REMOVE_PUTTER" /\ q.writer = w /\ q.reader = g)
    BY <1>1, StreamOnItsWay
  <2>2. q.type = "DCBUF" /\ q.writer = w /\ q.reader = g /\ n < q.seq
    BY <1>4, <2>1 DEF Before, SameStream
  <2>3. QED
    BY <1>3, <2>1, <2>2
<1>7. QueuesInv' /\ Flying' = Flying \cup {p}
  <2>1. \E k \in Nat : p = DcBuf(w, g, k)
    BY <1>3
  <2> HIDE DEF p
  <2>2. QED
    BY <1>1, <1>2, <1>5, <1>6, <2>1, WriterKeeps DEF OrderInv
<1>8. IsGenuine(p)
  <2>1. p.from = HostOf[w] /\ p.to = HostOf[g] /\ p = DcBuf(p.writer, p.reader, p.seq)
    BY <1>4 DEF DcBuf
  <2> HIDE DEF p
  <2>2. QED
    BY <1>1, <1>4, <2>1 DEF IsGenuine
<1>9. StreamOK(s)'
  <2>1. s[1] = w /\ s[2] = g
    OBVIOUS
  <2>2. Flying' = Flying \cup {DcBuf(s[1], s[2], wrote[s] + 1)}
    BY <1>7, <2>1
  <2> HIDE DEF s, p
  <2>3. QED
    BY <1>1, <1>2, <1>3, <2>1, <2>2, StreamSends
<1>10. ASSUME NEW t \in Streams, t # s
       PROVE  StreamOK(t)'
  <2>1. wrote'[t] = wrote[t]
    BY <1>1, <1>10 DEF TypeOK, FilterTypes
  <2>2. t = <<t[1], t[2]>>
    BY StreamParts
  <2>3. ~BufferOf(p, t) /\ ~EndOf(p, t)
    BY <1>4, <1>10, <2>2 DEF BufferOf, EndOf
  <2>4. \A k : k \in Waiting(t[1], t[2])' <=> k \in Waiting(t[1], t[2])
    BY <1>1 DEF Waiting
  <2> HIDE DEF p
  <2>5. \A q : BufferOf(q, t) \/ EndOf(q, t) => (q \in Flying' <=> q \in Flying)
    BY <1>7, <2>3
  <2>6. QED
    BY <1>1, <1>2, <2>1, <2>4, <2>5, StreamFrame
<1>11. Arrived'
  BY <1>1, <1>2 DEF Arrived
<1>12. Genuine' /\ ConsoleInv' /\ DoneInv'
  <2>1. \A a, b : AllDone(a, b) # p
    BY <1>4, DoneFields
  <2> HIDE DEF p
  <2>2. \A q \in Flying' : q \in Flying \/ IsGenuine(q)
    BY <1>7, <1>8
  <2>3. \A a, b : AllDone(a, b) \in Flying' <=> AllDone(a, b) \in Flying
    BY <1>7, <2>1
  <2>4. QED
    BY <1>1, <2>2, <2>3, OthersKept DEF OrderInv, StreamInv
<1>13. QED
  BY <1>7, <1>9, <1>10, <1>11, <1>12 DEF OrderInv, StreamInv

LEMMA CloseOrder ==
  ASSUME TypeOK, QuietInv, OrderInv, NEW w \in Filters, NEW g \in Filters,
         <<w, g>> \in Streams, FilterClose(w, g)
  PROVE  OrderInv'
<1> DEFINE s == <<w, g>>
           p == RemovePutter(w, g)
<1>1. /\ status[w] = "closing" /\ g \notin closed[w]
      /\ closed' = [closed EXCEPT ![w] = @ \cup {g}]
      /\ UNCHANGED <<inq, chan, fromConsole, proxyIn>>
      /\ UNCHANGED <<status, got, wrote, announced, consoleSent, doneReceived>>
  BY DEF FilterClose, loopVars, countVars
<1>2. Genuine /\ Arrived /\ \A t \in Streams : StreamOK(t)
  BY DEF OrderInv, StreamInv
<1>3. closed'[w] = closed[w] \cup {g} /\ \A f \in Filters \ {w} : closed'[f] = closed[f]
  BY <1>1 DEF TypeOK, FilterTypes
<1>4. p.type = "REMOVE_PUTTER" /\ p.writer = w /\ p.reader = g /\ p.from = HostOf[w]
  BY DEF RemovePutter
<1>5. p \notin Flying
  BY <1>1, <1>4, StreamOnItsWay
<1>6. \A q \in Flying : ~Before(p, q)
  BY <1>1, <1>4, StreamOnItsWay DEF Before
\* Where the end of the stream is put.
<1>7. /\ QueuesInv' /\ \A q : q # p => (q \in Flying' <=> q \in Flying)
      /\ \A q \in Flying' : q \in Flying \/ IsGenuine(q)
      /\ \A f \in Filters : f # w => \A h \in Filters : f \in putters'[h] <=> f \in putters[h]
      /\ \A h \in Filters : h # g => putters'[h] = putters[h]
      /\ putters'[g] = putters[g] \/ \A q \in Flying : ~BufferOf(q, s)
  <2>1. CASE HostOf[w] = HostOf[g] /\ putters' = [putters EXCEPT ![g] = @ \ {w}]
             /\ UNCHANGED <<outq, consoleOut, toConsole, toProxy>>
    <3>1. QueuesInv' /\ Flying' = Flying
      BY <1>1, <2>1, NoPlaceTouched, KeepKeeps DEF OrderInv
    <3>2. \A q \in Flying : ~BufferOf(q, s)
      BY <1>1, <2>1, StreamOnItsWay DEF BufferOf
    <3>3. \A h \in Filters : putters'[h] = IF h = g THEN putters[h] \ {w} ELSE putters[h]
      BY <2>1 DEF TypeOK, PortTypes
    <3>4. QED
      BY <3>1, <3>2, <3>3
  <2>2. CASE HostOf[w] # HostOf[g] /\ PutPacket(HostOf[w], p) /\ putters' = putters
    <3>1. QueuesInv' /\ Flying' = Flying \cup {p}
      <4> HIDE DEF p
      <4>1. p = RemovePutter(w, g)
        BY DEF p
      <4>2. QED
        BY <1>1, <1>2, <1>5, <1>6, <2>2, <4>1, WriterKeeps DEF OrderInv
    <3>2. p.to = HostOf[g] /\ p = RemovePutter(p.writer, p.reader)
      BY <1>4 DEF RemovePutter
    <3> HIDE DEF p
    <3>3. IsGenuine(p)
      BY <1>4, <2>2, <3>2 DEF IsGenuine
    <3>4. QED
      BY <2>2, <3>1, <3>3
  <2>3. QED
    BY <2>1, <2>2 DEF FilterClose
<1> HIDE DEF p
<1>8. StreamOK(s)'
  <2>1. s[1] = w /\ s[2] = g
    OBVIOUS
  <2>2. \A k : k \in Waiting(s[1], s[2])' <=> k \in Waiting(s[1], s[2])
    BY <1>1 DEF Waiting
  <2>3. \A q : BufferOf(q, s) => (q \in Flying' <=> q \in Flying)
    BY <1>4, <1>7 DEF BufferOf
  <2> HIDE DEF s
  <2>4. s[2] \in closed'[s[1]] /\ status'[s[1]] # "process"
    BY <1>1, <1>3, <2>1
  <2>5. s[1] \notin putters'[s[2]] =>
           s[1] \notin putters[s[2]] \/ \A q \in Flying : ~BufferOf(q, s)
    BY <1>7, <2>1
  <2>6. s \in Streams
    BY DEF s
  <2>7. \A k \in Waiting(s[1], s[2]) : inq'[s[2]][k].seq = inq[s[2]][k].seq
    BY <1>1
  <2>8. got'[s] = got[s] /\ wrote'[s] = wrote[s]
    BY <1>1
  <2>9. QED
    BY <1>2, <2>2, <2>3, <2>4, <2>5, <2>6, <2>7, <2>8, StreamEnds
<1>9. ASSUME NEW t \in Streams, t # s
      PROVE  StreamOK(t)'
  <2>1. t = <<t[1], t[2]>> /\ t[1] \in Filters /\ t[2] \in Filters
    BY StreamParts
  <2>2. ~BufferOf(p, t) /\ ~EndOf(p, t)
    BY <1>4, <1>9, <2>1 DEF BufferOf, EndOf
  <2>3. \A k : k \in Waiting(t[1], t[2])' <=> k \in Waiting(t[1], t[2])
    BY <1>1 DEF Waiting
  <2>4. \A q : BufferOf(q, t) \/ EndOf(q, t) => (q \in Flying' <=> q \in Flying)
    BY <1>7, <2>2
  <2>5. t[2] \in closed'[t[1]] <=> t[2] \in closed[t[1]]
    BY <1>3, <1>9, <2>1
  <2>6. t[1] \in putters'[t[2]] <=> t[1] \in putters[t[2]]
    BY <1>7, <1>9, <2>1
  <2>7. QED
    BY <1>1, <1>2, <2>3, <2>4, <2>5, <2>6, StreamFrame
<1>10. Arrived'
  BY <1>1, <1>2 DEF Arrived
<1>11. Genuine' /\ ConsoleInv' /\ DoneInv'
  <2>1. \A a, b : AllDone(a, b) # p
    BY <1>4, DoneFields
  <2>2. \A a, b : AllDone(a, b) \in Flying' <=> AllDone(a, b) \in Flying
    BY <1>7, <2>1
  <2>3. QED
    BY <1>1, <1>7, <2>2, OthersKept DEF OrderInv, StreamInv
<1>12. QED
  BY <1>7, <1>8, <1>9, <1>10, <1>11 DEF OrderInv, StreamInv

LEMMA ReadOrder ==
  ASSUME TypeOK, OrderInv, NEW g \in Filters, FilterRead(g)
  PROVE  OrderInv'
<1>0. PICK s : s = <<Head(inq[g]).writer, g>>
  OBVIOUS
<1>1. /\ inq[g] # <<>> /\ inq' = [inq EXCEPT ![g] = Tail(@)]
      /\ got' = [got EXCEPT ![s] = @ + 1]
      /\ UNCHANGED <<outq, consoleOut, toConsole, toProxy, chan, fromConsole, proxyIn>>
      /\ UNCHANGED <<status, wrote, putters, closed, announced, consoleSent, doneReceived>>
  BY <1>0 DEF FilterRead, mpiVars, consoleVars, loopVars, countVars
<1>2. Genuine /\ Arrived /\ \A t \in Streams : StreamOK(t)
  BY DEF OrderInv, StreamInv
<1>3. QueuesInv' /\ Flying' = Flying
  BY <1>1, NoPlaceTouched, KeepKeeps DEF OrderInv
<1>4. LosesHead(g) /\ \A f \in Filters \ {g} : inq'[f] = inq[f]
  BY <1>1 DEF LosesHead, TypeOK, PortTypes
<1>5. inq[g] \in Seq(InBuf)
  BY DEF TypeOK, PortTypes
<1>6. /\ 1 \in DOMAIN inq[g] /\ Head(inq[g]) = inq[g][1]
      /\ \A j \in DOMAIN inq'[g] : j + 1 \in DOMAIN inq[g] /\ inq'[g][j] = inq[g][j + 1]
  BY ONLY <1>4, <1>5, TailAt DEF LosesHead
<1>7. s \in Streams
  BY <1>0, <1>2, <1>6 DEF Arrived
<1>8. Arrived'
  <2>1. \A k \in DOMAIN inq'[g] : <<inq'[g][k].writer, g>> \in Streams
    BY <1>2, <1>6 DEF Arrived
  <2>2. QED
    BY <1>2, <1>4, <2>1 DEF Arrived
<1>9. StreamOK(s)'
  <2>1. s[1] = Head(inq[s[2]]).writer /\ LosesHead(s[2]) /\ got'[s] = got[s] + 1
    BY <1>0, <1>1, <1>4, <1>7 DEF TypeOK, FilterTypes
  <2>2. UNCHANGED <<wrote, putters, closed, status, Flying>>
    BY <1>1, <1>3
  <2>3. QED
    BY ONLY TypeOK, <1>2, <1>7, <2>1, <2>2, StreamReads
<1>10. ASSUME NEW t \in Streams, t # s
       PROVE  StreamOK(t)'
  <2>1. t = <<t[1], t[2]>> /\ t[1] \in Filters /\ t[2] \in Filters
    BY StreamParts
  <2>2. got'[t] = got[t]
    BY <1>1, <1>10 DEF TypeOK, FilterTypes
  <2>3. CASE t[2] = g
    <3>1. LosesHead(t[2]) /\ t[1] # Head(inq[t[2]]).writer
      BY <1>0, <1>4, <1>10, <2>1, <2>3
    <3>2. QED
      BY <1>1, <1>2, <1>3, <2>2, <3>1, StreamShifts
  <2>4. CASE t[2] # g
    <3>1. /\ \A k : k \in Waiting(t[1], t[2])' <=> k \in Waiting(t[1], t[2])
          /\ \A k \in Waiting(t[1], t[2]) : inq'[t[2]][k].seq = inq[t[2]][k].seq
      BY <1>4, <2>1, <2>4 DEF Waiting
    <3>2. QED
      BY <1>1, <1>2, <1>3, <2>2, <3>1, StreamFrame
  <2>5. QED
    BY <2>3, <2>4
<1>11. Genuine' /\ ConsoleInv' /\ DoneInv'
  BY <1>1, <1>3, OthersKept DEF OrderInv, StreamInv
<1>12. QED
  BY <1>3, <1>8, <1>9, <1>10, <1>11 DEF OrderInv, StreamInv

\* Steps that move packets only, or take the end of the console's stream.
LEMMA OnlyMovesOrder ==
  ASSUME OrderInv, QueuesInv', Flying' = Flying \/ Flying' = Flying \ {Close},
         UNCHANGED <<inq, got, wrote, putters, closed, announced, consoleSent, doneReceived>>,
         \A f \in Filters : /\ status[f] # "process" => status'[f] # "process"
                            /\ status[f] = "erased" => status'[f] = "erased"
  PROVE  OrderInv'
<1>1. \A q : IsOfStream(q) => (q \in Flying' <=> q \in Flying)
  BY DoneIsNotOfStream
<1>2. Arrived' /\ \A s \in Streams : StreamOK(s)'
  BY <1>1, StreamsKept DEF OrderInv, StreamInv
<1>3. \A m, n : AllDone(m, n) # Close
  BY DoneFields
<1>4. \A m, n : AllDone(m, n) \in Flying' <=> AllDone(m, n) \in Flying
  BY <1>3
<1>5. Genuine' /\ ConsoleInv' /\ DoneInv'
  BY <1>4, OthersKept DEF OrderInv, StreamInv
<1>6. QED
  BY <1>2, <1>5 DEF OrderInv, StreamInv

\* Steps after which every place and every stream is as it was.
LEMMA NothingMovesOrder ==
  ASSUME OrderInv,
         UNCHANGED <<outq, consoleOut, toConsole, toProxy, chan, fromConsole, proxyIn>>,
         UNCHANGED <<inq, got, wrote, putters, closed, announced, consoleSent, doneReceived>>,
         \A f \in Filters : /\ status[f] # "process" => status'[f] # "process"
                            /\ status[f] = "erased" => status'[f] = "erased"
  PROVE  OrderInv'
<1>1. QueuesInv' /\ Flying' = Flying
  BY NoPlaceTouched, KeepKeeps DEF OrderInv
<1>2. QED
  BY <1>1, OnlyMovesOrder
-----------------------------------------------------------------------------
(* Packets that get to their destination                                   *)

\* Packet p is handed to the filters of its node.
HandedOver(p) ==
  /\ QueuesInv' /\ p \in Flying /\ Flying' = Flying \ {p} /\ \A q \in Flying : ~Before(q, p)
  /\ UNCHANGED <<status, closed, got, wrote, announced, consoleSent>>
  /\ \/ /\ p.type = "DCBUF"
        /\ \E muid \in Muid : inq' = [inq EXCEPT ![p.reader] = Append(@, EntryOf(p, muid))]
     \/ p.type # "DCBUF" /\ inq' = inq
  /\ \/ p.type = "REMOVE_PUTTER" /\ putters' = [putters EXCEPT ![p.reader] = @ \ {p.writer}]
     \/ p.type # "REMOVE_PUTTER" /\ putters' = putters
  /\ \/ /\ p.type = "ALL_MY_FILTERS_DONE" /\ p.to \in Ranks
        /\ doneReceived' = [doneReceived EXCEPT ![p.to] = @ + 1]
     \/ ~(p.type = "ALL_MY_FILTERS_DONE" /\ p.to \in Ranks) /\ doneReceived' = doneReceived

LEMMA BufferHandedOver ==
  ASSUME TypeOK, OrderInv, NEW p, HandedOver(p), p.type = "DCBUF"
  PROVE  OrderInv'
<1>1. Genuine /\ Arrived /\ \A t \in Streams : StreamOK(t)
  BY DEF OrderInv, StreamInv
<1>2. p \in Flying /\ Flying' = Flying \ {p} /\ \A q \in Flying : ~Before(q, p)
  BY DEF HandedOver
<1>3. UNCHANGED <<status, closed, got, wrote, announced, consoleSent, putters, doneReceived>>
  BY DEF HandedOver
<1>4. PICK s \in Streams : s = <<p.writer, p.reader>> /\ p = DcBuf(s[1], s[2], p.seq)
  <2>1. <<p.writer, p.reader>> \in Streams /\ p = DcBuf(p.writer, p.reader, p.seq)
    BY <1>1, <1>2, GenuineKinds
  <2>2. QED
    BY <2>1
<1>5. s[1] = p.writer /\ s[2] = p.reader /\ s[2] \in Filters
  BY <1>4, StreamParts
<1>6. PICK e : /\ inq' = [inq EXCEPT ![s[2]] = Append(@, e)]
               /\ e.writer = s[1] /\ e.seq = p.seq
  <2>1. PICK muid \in Muid : inq' = [inq EXCEPT ![p.reader] = Append(@, EntryOf(p, muid))]
    BY DEF HandedOver
  <2>2. EntryOf(p, muid).writer = s[1] /\ EntryOf(p, muid).seq = p.seq
    BY <1>5 DEF EntryOf
  <2>3. QED
    BY <1>5, <2>1, <2>2
<1>7. GetsBuffer(s[2], e) /\ \A f \in Filters \ {s[2]} : inq'[f] = inq[f]
  BY <1>5, <1>6 DEF GetsBuffer, TypeOK, PortTypes
<1>8. <<e.writer, s[2]>> = s
  BY <1>5, <1>6, StreamParts
<1>9. Arrived'
  BY <1>1, <1>5, <1>7, <1>8, ArrivedAppend
<1>10. StreamOK(s)'
  <2>1. BufferOf(p, s)
    BY <1>5 DEF BufferOf
  <2>2. \A q \in Flying : BufferOf(q, s) => q = DcBuf(s[1], s[2], q.seq)
    BY <1>1, GenuineKinds DEF BufferOf
  <2>3. \A q \in Flying : ~Before(q, p)
    BY <1>2
  <2>4. e.writer = s[1] /\ e.seq = p.seq /\ GetsBuffer(s[2], e) /\ StreamOK(s)
    BY <1>1, <1>6, <1>7
  <2>5. /\ got'[s] = got[s] /\ wrote'[s] = wrote[s] /\ status' = status
        /\ putters'[s[2]] = putters[s[2]] /\ closed'[s[1]] = closed[s[1]]
    BY <1>3
  <2>6. p \in Flying /\ Flying' = Flying \ {p}
    BY <1>2
  <2>7. QED
    BY ONLY TypeOK, <2>1, <2>2, <2>3, <2>4, <2>5, <2>6, StreamDelivers
<1>11. ASSUME NEW t \in Streams, t # s
       PROVE  StreamOK(t)'
  <2>1. t # <<e.writer, s[2]>>
    BY <1>8, <1>11
  <2>2. /\ \A k : k \in Waiting(t[1], t[2])' <=> k \in Waiting(t[1], t[2])
        /\ \A k \in Waiting(t[1], t[2]) : inq'[t[2]][k].seq = inq[t[2]][k].seq
    BY <1>5, <1>7, <2>1, OtherWaiting
  <2>3. t = <<t[1], t[2]>>
    BY StreamParts
  <2>4. ~BufferOf(p, t) /\ ~EndOf(p, t)
    BY <1>4, <1>11, <2>3 DEF BufferOf, EndOf
  <2>5. \A q : BufferOf(q, t) \/ EndOf(q, t) => (q \in Flying' <=> q \in Flying)
    BY <1>2, <2>4
  <2>6. QED
    BY <1>1, <1>3, <2>2, <2>5, StreamFrame
<1>12. \A m, n : AllDone(m, n) # p
  BY DoneFields
<1>13. Genuine' /\ ConsoleInv' /\ DoneInv'
  <2>1. \A m, n : AllDone(m, n) \in Flying' <=> AllDone(m, n) \in Flying
    BY <1>2, <1>12
  <2>2. QED
    BY <1>2, <1>3, <2>1, OthersKept DEF OrderInv, StreamInv
<1>14. QueuesInv'
  BY DEF HandedOver
<1>15. QED
  BY <1>9, <1>10, <1>11, <1>13, <1>14 DEF OrderInv, StreamInv

LEMMA EndHandedOver ==
  ASSUME TypeOK, OrderInv, NEW p, HandedOver(p), p.type = "REMOVE_PUTTER"
  PROVE  OrderInv'
<1>1. Genuine /\ Arrived /\ \A t \in Streams : StreamOK(t)
  BY DEF OrderInv, StreamInv
<1>2. p \in Flying /\ Flying' = Flying \ {p} /\ \A q \in Flying : ~Before(q, p)
  BY DEF HandedOver
<1>3. UNCHANGED <<status, closed, got, wrote, announced, consoleSent, inq, doneReceived>>
  BY DEF HandedOver
<1>4. PICK s \in Streams : s = <<p.writer, p.reader>>
  BY <1>1, <1>2, GenuineKinds
<1>5. s[1] = p.writer /\ s[2] = p.reader /\ s[2] \in Filters /\ s[1] \in Filters
  BY <1>4, StreamParts
<1>6. \A h \in Filters : putters'[h] = IF h = s[2] THEN putters[h] \ {s[1]} ELSE putters[h]
  BY <1>5 DEF HandedOver, TypeOK, PortTypes
<1>7. StreamOK(s)'
  <2>1. \A q \in Flying : ~BufferOf(q, s)
    BY <1>2, <1>5 DEF BufferOf, Before, SameStream
  <2>2. \A q : BufferOf(q, s) => (q \in Flying' <=> q \in Flying)
    BY <1>2 DEF BufferOf
  <2>3. EndOf(p, s)
    BY <1>5 DEF EndOf
  <2>4. s[2] \in closed'[s[1]] /\ status'[s[1]] # "process"
    BY <1>1, <1>2, <1>3, <2>3 DEF StreamOK
  <2>5. /\ \A k : k \in Waiting(s[1], s[2])' <=> k \in Waiting(s[1], s[2])
        /\ \A k \in Waiting(s[1], s[2]) : inq'[s[2]][k].seq = inq[s[2]][k].seq
    BY <1>3 DEF Waiting
  <2>6. got'[s] = got[s] /\ wrote'[s] = wrote[s] /\ StreamOK(s)
    BY <1>1, <1>3
  <2>7. QED
    BY ONLY TypeOK, <2>1, <2>2, <2>4, <2>5, <2>6, StreamEnds
<1>8. ASSUME NEW t \in Streams, t # s
      PROVE  StreamOK(t)'
  <2>1. t = <<t[1], t[2]>> /\ t[1] \in Filters /\ t[2] \in Filters
    BY StreamParts
  <2>2. ~BufferOf(p, t) /\ ~EndOf(p, t)
    BY <1>4, <1>8, <2>1 DEF BufferOf, EndOf
  <2>3. \A q : BufferOf(q, t) \/ EndOf(q, t) => (q \in Flying' <=> q \in Flying)
    BY <1>2, <2>2
  <2>4. s = <<s[1], s[2]>>
    BY StreamParts
  <2>5. t[1] \in putters'[t[2]] <=> t[1] \in putters[t[2]]
    BY <1>6, <1>8, <2>1, <2>4
  <2>6. /\ \A k : k \in Waiting(t[1], t[2])' <=> k \in Waiting(t[1], t[2])
        /\ \A k \in Waiting(t[1], t[2]) : inq'[t[2]][k].seq = inq[t[2]][k].seq
    BY <1>3 DEF Waiting
  <2>7. QED
    BY <1>1, <1>3, <2>3, <2>5, <2>6, StreamFrame
<1>9. Arrived'
  BY <1>1, <1>3 DEF Arrived
<1>10. \A m, n : AllDone(m, n) # p
  BY DoneFields
<1>11. Genuine' /\ ConsoleInv' /\ DoneInv'
  <2>1. \A m, n : AllDone(m, n) \in Flying' <=> AllDone(m, n) \in Flying
    BY <1>2, <1>10
  <2>2. QED
    BY <1>2, <1>3, <2>1, OthersKept DEF OrderInv, StreamInv
<1>12. QueuesInv'
  BY DEF HandedOver
<1>13. QED
  BY <1>7, <1>8, <1>9, <1>11, <1>12 DEF OrderInv, StreamInv

LEMMA NodesFinite == \A S \in SUBSET Nodes : IsFiniteSet(S) /\ Cardinality(S) \in Nat
<1>1. IsFiniteSet(Ranks)
  BY RanksAssumption, FS_Interval DEF Ranks
<1>2. IsFiniteSet(Ranks \cup {Console})
  BY <1>1, FS_AddElement
<1>3. IsFiniteSet(Nodes)
  BY <1>1, <1>2 DEF Nodes
<1>4. QED
  BY <1>3, FS_Subset, FS_CardinalityType

LEMMA DoneHandedOver ==
  ASSUME TypeOK, OrderInv, NEW p, HandedOver(p), p.type = "ALL_MY_FILTERS_DONE"
  PROVE  OrderInv'
<1>1. Genuine /\ Arrived /\ DoneInv /\ \A t \in Streams : StreamOK(t)
  BY DEF OrderInv, StreamInv
<1>2. QueuesInv' /\ p \in Flying /\ Flying' = Flying \ {p}
  BY DEF HandedOver
<1>3. UNCHANGED <<status, closed, got, wrote, announced, consoleSent, inq, putters>>
  BY DEF HandedOver
<1>4. PICK m \in Nodes : /\ m = p.from /\ p.to \in Nodes /\ m # p.to
                         /\ p = AllDone(m, p.to) /\ SentTo(m, p.to)
  BY <1>1, <1>2, GenuineKinds
<1>5. Arrived' /\ \A t \in Streams : StreamOK(t)'
  <2>1. \A q : IsOfStream(q) => (q \in Flying' <=> q \in Flying)
    BY <1>2 DEF IsOfStream
  <2>2. QED
    BY <1>1, <1>3, <2>1, StreamsKept
<1>6. \A a, b : SentTo(a, b)' <=> SentTo(a, b)
  BY <1>3, SentKept
<1>7. Genuine'
  BY <1>1, <1>2, <1>3, <1>6, GenuineKept
<1>8. ConsoleInv'
  BY <1>3 DEF OrderInv, ConsoleInv, FiltersOn
<1>9. ASSUME NEW r \in Ranks
      PROVE  doneReceived'[r] = Cardinality(Heard(r)')
  <2>1. doneReceived[r] = Cardinality(Heard(r)) /\ doneReceived[r] \in Nat
    BY <1>1 DEF DoneInv, TypeOK, LoopTypes
  <2>2. CASE r # p.to
    <3>1. doneReceived'[r] = doneReceived[r]
      BY <2>2 DEF HandedOver, TypeOK, LoopTypes
    <3>2. \A a : AllDone(a, r) # p
      BY <2>2, DoneFields
    <3>3. Heard(r)' = Heard(r)
      BY <1>2, <1>6, <3>2 DEF Heard
    <3>4. QED
      BY <2>1, <3>1, <3>3
  <2>3. CASE r = p.to
    <3>1. doneReceived'[r] = doneReceived[r] + 1
      BY <2>3 DEF HandedOver, TypeOK, LoopTypes
    <3>2. \A a : AllDone(a, r) = p <=> a = m
      BY <1>4, <2>3, DoneFields
    <3>3. m \notin Heard(r) /\ Heard(r)' = Heard(r) \cup {m}
      BY <1>2, <1>4, <1>6, <2>3, <3>2 DEF Heard
    <3>4. IsFiniteSet(Heard(r))
      BY NodesFinite DEF Heard
    <3>5. Cardinality(Heard(r) \cup {m}) = Cardinality(Heard(r)) + 1
      BY <3>3, <3>4, FS_AddElement
    <3>6. QED
      BY <2>1, <3>1, <3>3, <3>5
  <2>4. QED
    BY <2>2, <2>3
<1>10. DoneInv'
  BY <1>9 DEF DoneInv
<1>11. QED
  BY <1>2, <1>5, <1>7, <1>8, <1>10 DEF OrderInv, StreamInv

LEMMA HandedOverOrder ==
  ASSUME TypeOK, OrderInv, NEW p, HandedOver(p)
  PROVE  OrderInv'
<1>1. CASE p.type = "CLOSE"
  <2>1. p = Close
    BY <1>1, GenuineKinds DEF HandedOver, OrderInv, StreamInv
  <2>2. /\ QueuesInv' /\ Flying' = Flying \ {Close}
        /\ UNCHANGED <<inq, got, wrote, putters, closed, announced, consoleSent, doneReceived>>
        /\ status' = status
    BY <1>1, <2>1 DEF HandedOver
  <2>3. QED
    BY <2>2, OnlyMovesOrder
<1>2. p.type \in PacketTypes
  <2>1. p \in Packet
    BY FlyingFacts DEF HandedOver, OrderInv, StreamInv
  <2>2. QED
    BY <2>1 DEF Packet
<1>3. QED
  BY <1>1, <1>2, BufferHandedOver, EndHandedOver, DoneHandedOver DEF PacketTypes

\* deliver_in and deliver_elsewhere, for a packet taken from a place of rank r.
LEMMA DeliverOrder ==
  ASSUME TypeOK, OrderInv, NEW r \in Ranks, NEW a, HandledBy(a, r), NEW ch, Taken(a, ch),
         Deliver(r, Head(Queue[a]), ch),
         UNCHANGED <<filterVars, announced, consoleSent>>
  PROVE  OrderInv'
<1> DEFINE p == Head(Queue[a])
<1>1. QueuesInv /\ Genuine
  BY DEF OrderInv, StreamInv
<1>2. CASE p.to = r
  <2>1. DeliverIn(r, p) /\ chan' = ch /\ UNCHANGED <<toConsole, toProxy>>
    BY <1>2 DEF Deliver
  <2>2. /\ QueuesInv' /\ Flying' = Flying \ {p} /\ p \in Flying
        /\ \A q \in Flying : ~Before(q, p)
    BY <1>1, <1>2, <2>1, DeliveryKeeps
  <2> HIDE DEF p
  <2>3. RuntimeMuid \in Muid
    BY DEF Muid
  <2>4. /\ \/ /\ p.type = "DCBUF"
              /\ \E muid \in Muid : inq' = [inq EXCEPT ![p.reader] = Append(@, EntryOf(p, muid))]
           \/ p.type # "DCBUF" /\ inq' = inq
        /\ \/ p.type = "REMOVE_PUTTER" /\ putters' = [putters EXCEPT ![p.reader] = @ \ {p.writer}]
           \/ p.type # "REMOVE_PUTTER" /\ putters' = putters
        /\ \/ /\ p.type = "ALL_MY_FILTERS_DONE" /\ p.to \in Ranks
              /\ doneReceived' = [doneReceived EXCEPT ![p.to] = @ + 1]
           \/ ~(p.type = "ALL_MY_FILTERS_DONE" /\ p.to \in Ranks) /\ doneReceived' = doneReceived
    BY <1>2, <2>1, <2>3 DEF DeliverIn
  <2>5. UNCHANGED <<status, closed, got, wrote, announced, consoleSent>>
    BY DEF filterVars
  <2>6. HandedOver(p)
    BY <2>2, <2>4, <2>5 DEF HandedOver
  <2>7. QED
    BY <2>6, HandedOverOrder
<1>3. CASE p.to # r
  <2>1. DeliverElsewhere(r, p, ch) /\ UNCHANGED <<inq, putters, doneReceived>>
    BY <1>3 DEF Deliver, portVars
  <2>2. QueuesInv' /\ Flying' = Flying
    BY <1>1, <1>3, <2>1, PassOnKeeps
  <2>3. UNCHANGED <<got, wrote, closed, status>>
    BY DEF filterVars
  <2>4. QED
    BY <2>1, <2>2, <2>3, OnlyMovesOrder
<1>4. QED
  BY <1>2, <1>3
-----------------------------------------------------------------------------
(* The announcements                                                       *)

LEMMA AnnounceOrder ==
  ASSUME TypeOK, OrderInv, NEW r \in Ranks, Announce(r)
  PROVE  OrderInv'
<1>1. /\ UNCHANGED <<outq, consoleOut, toConsole, toProxy, chan, fromConsole, proxyIn>>
      /\ UNCHANGED <<inq, got, wrote, putters, closed, status, consoleSent, doneReceived>>
      /\ ~SentDone(r) /\ announced' = [announced EXCEPT ![r] = FirstAnnounced(r)]
  BY DEF Announce, filterVars, portVars, mpiVars, consoleVars, countVars
<1>2. QueuesInv' /\ Flying' = Flying
  BY <1>1, NoPlaceTouched, KeepKeeps DEF OrderInv
<1>3. /\ announced'[r] = FirstAnnounced(r)
      /\ \A m \in Ranks \ {r} : announced'[m] = announced[m]
  BY <1>1 DEF TypeOK, LoopTypes
<1>4. \A m \in Nodes : m # Console => m \in Ranks
  BY DEF Nodes
<1>5. r # Console
  BY Gateways
<1>6. \A m, n \in Nodes : m # r => (SentTo(m, n)' <=> SentTo(m, n))
  BY <1>1, <1>3, <1>4 DEF SentTo, SentDone
<1>7. \A n : ~SentTo(r, n)
  BY <1>1, <1>5 DEF SentTo
<1>8. \A n \in Ranks \ {r} : ~(n < FirstAnnounced(r))
  <2>1. FirstAnnounced(r) = IF ConsolePresent THEN -1 ELSE IF r = 0 THEN 1 ELSE 0
    BY DEF FirstAnnounced, NextAnnounced, Console, Ranks
  <2>2. \A n \in Ranks : n \in Nat
    BY RanksAssumption DEF Ranks
  <2>3. QED
    BY <2>1, <2>2
<1>9. \A n \in Ranks \ {r} : ~SentTo(r, n)'
  BY <1>3, <1>5, <1>8 DEF SentTo
<1>10. Arrived' /\ \A t \in Streams : StreamOK(t)'
  BY <1>1, <1>2, StreamsKept DEF OrderInv, StreamInv
<1>11. Genuine'
  BY <1>1, <1>2, <1>6, <1>7, GenuineKept DEF OrderInv, StreamInv
<1>12. ConsoleInv'
  BY <1>1 DEF OrderInv, ConsoleInv, FiltersOn
<1>13. \A n \in Ranks : n \in Nodes
  BY DEF Nodes
<1>14. DoneInv'
  BY <1>1, <1>2, <1>6, <1>7, <1>9, <1>13, DoneKept DEF OrderInv
<1>15. QED
  BY <1>2, <1>10, <1>11, <1>12, <1>14 DEF OrderInv, StreamInv

LEMMA AnnounceNextOrder ==
  ASSUME TypeOK, QuietInv, OrderInv, NEW r \in Ranks, AnnounceNext(r)
  PROVE  OrderInv'
<1>1. PICK n : n = announced[r]
  OBVIOUS
<1>2. /\ UNCHANGED <<inq, got, wrote, putters, closed, status, consoleSent, doneReceived>>
      /\ announced' = [announced EXCEPT ![r] = NextAnnounced(r, @)] /\ Announcing(r)
  BY DEF AnnounceNext, filterVars, portVars, consoleVars
<1>3. n \in Nodes /\ n # r /\ SentDone(r) /\ ~SentTo(r, n)
  BY <1>1, <1>2, AnnouncingFacts
<1> DEFINE p == AllDone(r, n)
<1>4. QueuesInv' /\ Flying' = Flying \cup {p} /\ p \notin Flying
  BY <1>1, AnnounceNextKeeps DEF OrderInv, StreamInv, QuietInv
<1>5. p.type = "ALL_MY_FILTERS_DONE" /\ p.from = r /\ p.to = n /\ ~IsOfStream(p)
  BY DoneFields, DoneIsNotOfStream
<1>6. /\ announced'[r] = NextAnnounced(r, n)
      /\ \A m \in Ranks \ {r} : announced'[m] = announced[m]
  BY <1>1, <1>2 DEF TypeOK, LoopTypes
<1>7. r # Console /\ \A m \in Nodes : m # Console => m \in Ranks
  BY Gateways DEF Nodes
<1>8. \A m, k \in Nodes : m # r => (SentTo(m, k)' <=> SentTo(m, k))
  BY <1>2, <1>6, <1>7 DEF SentTo, SentDone
\* Node n is the one that is announced to, beside those that were.
<1>9. \A k \in Nodes \ {r} : SentTo(r, k)' <=> SentTo(r, k) \/ k = n
  <2>1. \A k \in Nodes : k \in Int
    BY RanksAssumption DEF Nodes, Ranks, Console
  <2>2. n \in Int /\ r \in Int /\ n >= -1
    BY <1>3, RanksAssumption DEF Nodes, Ranks, Console
  <2>3. \A k \in Nodes \ {r} : k < NextAnnounced(r, n) <=> k < n \/ k = n
    BY <2>1, <2>2 DEF NextAnnounced
  <2>4. NextAnnounced(r, n) # NotAnnounced
    BY <2>2 DEF NextAnnounced, NotAnnounced
  <2>5. QED
    BY <1>1, <1>3, <1>6, <1>7, <2>3, <2>4 DEF SentTo, SentDone
<1>10. \A m, k \in Nodes : SentTo(m, k) => SentTo(m, k)'
  <2>1. SentTo(r, r) => SentTo(r, r)'
    <3>1. n \in Int /\ r \in Int /\ n >= -1
      BY <1>3, RanksAssumption DEF Nodes, Ranks, Console
    <3>2. r < n => r < NextAnnounced(r, n)
      BY <3>1 DEF NextAnnounced
    <3>3. NextAnnounced(r, n) # NotAnnounced
      BY <3>1 DEF NextAnnounced, NotAnnounced
    <3>4. QED
      BY <1>1, <1>6, <1>7, <3>2, <3>3 DEF SentTo, SentDone
  <2>2. QED
    BY <1>8, <1>9, <2>1
<1>11. IsGenuine(p)'
  <2>1. r \in Nodes
    BY DEF Nodes
  <2>2. SentTo(r, n)'
    BY <1>3, <1>9
  <2>3. p = AllDone(p.from, p.to)
    BY <1>5
  <2> HIDE DEF p
  <2>4. QED
    BY <1>3, <1>5, <2>1, <2>2, <2>3 DEF IsGenuine
<1>12. Arrived' /\ \A t \in Streams : StreamOK(t)'
  <2> HIDE DEF p
  <2>1. \A q : IsOfStream(q) => (q \in Flying' <=> q \in Flying)
    BY <1>4, <1>5
  <2>2. QED
    BY <1>2, <2>1, StreamsKept DEF OrderInv, StreamInv
<1>13. Genuine'
  <2> HIDE DEF p
  <2>1. \A q \in Flying' : q \in Flying \/ IsGenuine(q)'
    BY <1>4, <1>11
  <2>2. QED
    BY <1>2, <1>10, <2>1, GenuineKept DEF OrderInv, StreamInv
<1>14. ConsoleInv'
  BY <1>2 DEF OrderInv, ConsoleInv, FiltersOn
<1>15. DoneInv'
  <2>1. \A m, k : AllDone(m, k) = p <=> m = r /\ k = n
    BY DoneFields
  <2> HIDE DEF p
  <2>2. ASSUME NEW k \in Ranks, NEW m \in Nodes \ {k}
        PROVE  SentTo(m, k)' /\ AllDone(m, k) \notin Flying'
                 <=> SentTo(m, k) /\ AllDone(m, k) \notin Flying
    <3>1. k \in Nodes
      BY DEF Nodes
    <3>2. CASE m = r /\ k = n
      BY <1>3, <1>4, <2>1, <3>2
    <3>3. CASE m # r
      BY <1>4, <1>8, <2>1, <3>1, <3>3
    <3>4. CASE m = r /\ k # n
      BY <1>4, <1>9, <2>1, <2>2, <3>1, <3>4
    <3>5. QED
      BY <3>2, <3>3, <3>4
  <2>3. QED
    BY <1>2, <2>2, DoneKept DEF OrderInv
<1>16. QED
  BY <1>4, <1>12, <1>13, <1>14, <1>15 DEF OrderInv, StreamInv

LEMMA ConsoleFinishOrder ==
  ASSUME TypeOK, OrderInv, ConsoleFinish
  PROVE  OrderInv'
<1>1. /\ UNCHANGED <<inq, got, wrote, putters, closed, status, announced, doneReceived>>
      /\ ~consoleSent /\ consoleSent' = TRUE /\ ConsolePresent
      /\ \A f \in FiltersOn(Console) : status[f] = "erased"
  BY DEF ConsoleFinish, filterVars, portVars, loopVars, countVars
<1>2. /\ QueuesInv'
      /\ \A q : q \in Flying' <=> q \in Flying \/ q = Close
                                  \/ \E n \in Ranks : q = AllDone(Console, n)
  BY ConsoleFinishKeeps DEF OrderInv, StreamInv
<1>3. \A m, n : m # Console => (SentTo(m, n)' <=> SentTo(m, n))
  BY <1>1 DEF SentTo, SentDone
<1>4. \A n : ~SentTo(Console, n) /\ SentTo(Console, n)'
  BY <1>1 DEF SentTo
<1>5. \A q : IsOfStream(q) => (q \in Flying' <=> q \in Flying)
  BY <1>2, DoneIsNotOfStream
<1>6. Arrived' /\ \A t \in Streams : StreamOK(t)'
  BY <1>1, <1>5, StreamsKept DEF OrderInv, StreamInv
<1>7. IsGenuine(Close)'
  BY <1>1, Gateways, DoneFields DEF IsGenuine
<1>8. ASSUME NEW n \in Ranks
      PROVE  IsGenuine(AllDone(Console, n))'
  <2>1. PICK q : q = AllDone(Console, n)
    OBVIOUS
  <2>2. q.type = "ALL_MY_FILTERS_DONE" /\ q.from = Console /\ q.to = n
    BY <2>1, DoneFields
  <2>3. n # Console /\ n \in Nodes /\ Console \in Nodes
    BY <1>1, Gateways DEF Nodes
  <2>4. IsGenuine(q)'
    BY <1>4, <2>1, <2>2, <2>3 DEF IsGenuine
  <2>5. QED
    BY <2>1, <2>4
<1>9. Genuine'
  BY <1>1, <1>2, <1>3, <1>4, <1>7, <1>8, GenuineKept DEF OrderInv, StreamInv
<1>10. ConsoleInv'
  BY <1>1 DEF ConsoleInv, FiltersOn
<1>11. DoneInv'
  <2>1. ASSUME NEW r \in Ranks, NEW m \in Nodes \ {r}
        PROVE  SentTo(m, r)' /\ AllDone(m, r) \notin Flying'
                 <=> SentTo(m, r) /\ AllDone(m, r) \notin Flying
    <3>1. CASE m = Console
      BY <1>2, <1>4, <3>1
    <3>2. CASE m # Console
      <4>1. AllDone(m, r) # Close /\ \A n : AllDone(m, r) # AllDone(Console, n)
        BY <3>2, DoneFields
      <4>2. QED
        BY <1>2, <1>3, <3>2, <4>1
    <3>3. QED
      BY <3>1, <3>2
  <2>2. QED
    BY <1>1, <2>1, DoneKept DEF OrderInv
<1>12. QED
  BY <1>2, <1>6, <1>9, <1>10, <1>11 DEF OrderInv, StreamInv
-----------------------------------------------------------------------------
(* The steps of the system                                                 *)

LEMMA MoveOrder ==
  ASSUME TypeOK, OrderInv, NEW r \in Ranks, StartSend(r)
  PROVE  OrderInv'
<1> DEFINE a == OutQ(r)
<1>1. QueuesInv /\ Genuine
  BY DEF OrderInv, StreamInv
<1>2. Taken(a, chan) /\ Head(Queue[a]) = Head(outq[r]) /\ HandledBy(a, r)
  BY StartSendTakes DEF HandledBy
<1>3. DeliverElsewhere(r, Head(Queue[a]), chan)
  BY <1>2, StartSendTakes
<1>4. /\ UNCHANGED <<inq, got, wrote, putters, closed, announced, consoleSent, doneReceived>>
      /\ status' = status
  BY DEF StartSend, filterVars, portVars, consoleVars, loopVars
<1> HIDE DEF a
<1>5. Head(Queue[a]).to # r
  <2>1. a \in Places /\ Queue[a] # <<>>
    BY <1>2 DEF Taken
  <2>2. OnRoute(a, Head(Queue[a]).from, Head(Queue[a]).to) /\ Head(Queue[a]).from # Head(Queue[a]).to
    BY <1>1, <2>1, HeadFacts
  <2>3. Head(Queue[a]).from = r
    BY <2>2, AtOutQ DEF a
  <2>4. QED
    BY <2>2, <2>3
<1>6. QueuesInv' /\ Flying' = Flying
  BY <1>1, <1>2, <1>3, <1>5, PassOnKeeps
<1>7. QED
  BY <1>4, <1>6, OnlyMovesOrder

LEMMA ReceiveOrder ==
  ASSUME TypeOK, OrderInv, NEW i \in Ranks, NEW r \in Ranks, Receive(i, r)
  PROVE  OrderInv'
<1> DEFINE a == Chan(i, r)
           ch == [chan EXCEPT ![i][r] = Tail(@)]
<1>1. Taken(a, ch) /\ Head(Queue[a]) = Head(chan[i][r]) /\ Deliver(r, Head(chan[i][r]), ch)
  BY ReceiveTakes
<1>2. HandledBy(a, r)
  BY DEF HandledBy
<1>3. UNCHANGED <<filterVars, announced, consoleSent>>
  BY DEF Receive, consoleVars, loopVars
<1> HIDE DEF a, ch
<1>4. Deliver(r, Head(Queue[a]), ch)
  BY <1>1
<1>5. QED
  BY <1>1, <1>2, <1>3, <1>4, DeliverOrder

LEMMA HandleConsoleOrder ==
  ASSUME TypeOK, OrderInv, NEW r \in Ranks, HandleConsole(r)
  PROVE  OrderInv'
<1> DEFINE a == FromConsole
<1>1. /\ Taken(a, chan) /\ Head(Queue[a]) = Head(fromConsole)
      /\ Deliver(r, Head(fromConsole), chan)
  BY HandleConsoleTakes
<1>2. HandledBy(a, r)
  BY DEF HandledBy, HandleConsole
<1>3. UNCHANGED <<filterVars, announced, consoleSent>>
  BY DEF HandleConsole, loopVars
<1> HIDE DEF a
<1>4. Deliver(r, Head(Queue[a]), chan)
  BY <1>1
<1>5. QED
  BY <1>1, <1>2, <1>3, <1>4, DeliverOrder

LEMMA HandleProxyOrder ==
  ASSUME TypeOK, OrderInv, NEW r \in Ranks, HandleProxy(r)
  PROVE  OrderInv'
<1> DEFINE c == ClusterOf[r]
           a == ProxyIn(c)
<1>1. /\ Taken(a, chan) /\ Head(Queue[a]) = Head(proxyIn[c])
      /\ Deliver(r, Head(proxyIn[c]), chan)
  BY HandleProxyTakes
<1>2. HandledBy(a, r)
  BY DEF HandledBy, HandleProxy
<1>3. UNCHANGED <<filterVars, announced, consoleSent>>
  BY DEF HandleProxy, consoleVars, loopVars
<1> HIDE DEF a, c
<1>4. Deliver(r, Head(Queue[a]), chan)
  BY <1>1
<1>5. QED
  BY <1>1, <1>2, <1>3, <1>4, DeliverOrder

LEMMA ToConsoleOrder ==
  ASSUME TypeOK, OrderInv, ToConsoleThread
  PROVE  OrderInv'
<1>1. PICK p : p = Head(toConsole)
  OBVIOUS
<1>2. /\ QueuesInv' /\ Flying' = Flying \ {p} /\ p \in Flying
      /\ \A q \in Flying : ~Before(q, p)
      /\ p.to = Console
  BY <1>1, ToConsoleThreadKeeps DEF OrderInv, StreamInv
<1>3. /\ inq' = IF p.type = "DCBUF"
                THEN [inq EXCEPT ![p.reader] = Append(@, EntryOf(p, NoMuid))] ELSE inq
      /\ putters' = IF p.type = "REMOVE_PUTTER"
                    THEN [putters EXCEPT ![p.reader] = @ \ {p.writer}] ELSE putters
      /\ UNCHANGED <<status, closed, got, wrote, announced, consoleSent, doneReceived>>
  BY <1>1 DEF ToConsoleThread, filterVars, consoleVars, loopVars, countVars
<1>4. NoMuid \in Muid /\ Console \notin Ranks
  BY Gateways DEF Muid
<1>5. HandedOver(p)
  BY <1>2, <1>3, <1>4 DEF HandedOver
<1>6. QED
  BY <1>5, HandedOverOrder

LEMMA LinksOrder ==
  ASSUME TypeOK, OrderInv, FromConsoleThread \/ \E c \in Clusters : ProxyWriter(c)
  PROVE  OrderInv'
<1>1. QueuesInv /\ Genuine
  BY DEF OrderInv, StreamInv
<1>2. /\ UNCHANGED <<inq, got, wrote, putters, closed, announced, consoleSent, doneReceived>>
      /\ status' = status
  BY DEF FromConsoleThread, ProxyWriter, filterVars, portVars, consoleVars, loopVars, countVars
<1>3. CASE FromConsoleThread
  <2>1. /\ QueuesInv' /\ Head(consoleOut) \in Flying
        /\ Head(consoleOut).type # "CLOSE" => Flying' = Flying
        /\ Head(consoleOut).type = "CLOSE" => Flying' = Flying \ {Head(consoleOut)}
    BY <1>1, <1>3, FromConsoleThreadKeeps
  <2>2. Head(consoleOut).type = "CLOSE" => Head(consoleOut) = Close
    BY <1>1, <2>1, GenuineKinds
  <2>3. QED
    BY <1>2, <2>1, <2>2, OnlyMovesOrder
<1>4. CASE \E c \in Clusters : ProxyWriter(c)
  <2>1. QueuesInv' /\ Flying' = Flying
    BY <1>1, <1>4, ProxyWriterKeeps
  <2>2. QED
    BY <1>2, <2>1, OnlyMovesOrder
<1>5. QED
  BY <1>3, <1>4

LEMMA RestOrder ==
  ASSUME TypeOK, OrderInv,
         \/ \E w, g : FilterBlock(w, g)
         \/ \E f \in Filters : FilterReturn(f) \/ FilterErase(f)
         \/ \E r \in Ranks : CheckFilters(r) \/ Exit(r) \/ \E p \in pending[r] : FinishSend(r, p)
         \/ \E i, r \in Ranks : Defer(i, r)
         \/ CloseConsole \/ UNCHANGED vars
  PROVE  OrderInv'
<1>1. /\ UNCHANGED <<outq, consoleOut, toConsole, toProxy, chan, fromConsole, proxyIn>>
      /\ UNCHANGED <<inq, got, wrote, putters, closed, announced, consoleSent, doneReceived>>
  BY DEF FilterBlock, FilterReturn, FilterErase, CheckFilters, Exit, FinishSend, Defer,
         CloseConsole, vars, filterVars, portVars, mpiVars, consoleVars, loopVars, countVars
<1>2. \/ status' = status
      \/ \E f \in Filters : /\ status[f] = "process"
                            /\ status' = [status EXCEPT ![f] = "closing"]
      \/ \E f \in Filters : /\ status[f] = "closing"
                            /\ status' = [status EXCEPT ![f] = "erased"]
  BY DEF FilterBlock, FilterReturn, FilterErase, CheckFilters, Exit, FinishSend, Defer,
         CloseConsole, vars, filterVars
<1>3. \A f \in Filters : /\ status[f] # "process" => status'[f] # "process"
                         /\ status[f] = "erased" => status'[f] = "erased"
  BY <1>2 DEF TypeOK, FilterTypes
<1>4. QED
  BY <1>1, <1>3, NothingMovesOrder

LEMMA NextOrder ==
  ASSUME TypeOK, QuietInv, OrderInv, [Next]_vars
  PROVE  OrderInv'
<1>1. ASSUME NEW s \in Streams,
             FilterBlock(s[1], s[2]) \/ FilterWrite(s[1], s[2]) \/ FilterClose(s[1], s[2])
      PROVE  OrderInv'
  <2>1. s[1] \in Filters /\ s[2] \in Filters /\ <<s[1], s[2]>> \in Streams
    BY StreamParts
  <2>2. CASE FilterBlock(s[1], s[2])
    BY <2>2, RestOrder
  <2>3. CASE FilterWrite(s[1], s[2])
    BY <2>1, <2>3, WriteHereOrder, WriteAwayOrder
  <2>4. CASE FilterClose(s[1], s[2])
    BY <2>1, <2>4, CloseOrder
  <2>5. QED
    BY <1>1, <2>2, <2>3, <2>4
<1>2. ASSUME NEW f \in Filters, FilterRead(f) \/ FilterReturn(f) \/ FilterErase(f)
      PROVE  OrderInv'
  BY <1>2, ReadOrder, RestOrder
<1>3. ASSUME NEW r \in Ranks,
             \/ CheckFilters(r) \/ Announce(r) \/ AnnounceNext(r) \/ Exit(r) \/ StartSend(r)
             \/ \E p \in pending[r] : FinishSend(r, p)
             \/ HandleConsole(r) \/ HandleProxy(r)
      PROVE  OrderInv'
  BY <1>3, RestOrder, AnnounceOrder, AnnounceNextOrder, MoveOrder, HandleConsoleOrder,
     HandleProxyOrder
<1>4. ASSUME NEW i \in Ranks, NEW r \in Ranks, Receive(i, r) \/ Defer(i, r)
      PROVE  OrderInv'
  BY <1>4, ReceiveOrder, RestOrder
<1>5. ASSUME NEW c \in Clusters, ProxyWriter(c)
      PROVE  OrderInv'
  BY <1>5, LinksOrder
<1>6. CASE ToConsoleThread \/ CloseConsole \/ ConsoleFinish \/ FromConsoleThread
  BY <1>6, ToConsoleOrder, RestOrder, ConsoleFinishOrder, LinksOrder
<1>7. CASE UNCHANGED vars
  BY <1>7, RestOrder
<1>8. CASE Idle
  BY <1>7, <1>8 DEF Idle
<1>9. QED
  BY <1>1, <1>2, <1>3, <1>4, <1>5, <1>6, <1>7, <1>8 DEF Next
LEMMA InitOrder == Init => OrderInv
<1> SUFFICES ASSUME Init
             PROVE  OrderInv
  OBVIOUS
<1>1. \A a \in Places : a # ConsoleOut => Queue[a] = <<>>
  <2>1. /\ \A r \in Ranks : outq[r] = <<>> /\ \A i \in Ranks : chan[i][r] = <<>>
        /\ toConsole = <<>> /\ fromConsole = <<>>
        /\ \A c \in Clusters : toProxy[c] = <<>> /\ proxyIn[c] = <<>>
    BY DEF Init
  <2>2. QED
    BY <2>1, PlaceKinds, QueueAt
<1>2. Queue[ConsoleOut] = IF ConsolePresent THEN <<>> ELSE <<Close>>
  BY QueueAt DEF Init
<1>3. \A a \in Places : \A k \in DOMAIN Queue[a] :
        a = ConsoleOut /\ k = 1 /\ Queue[a][k] = Close /\ ~ConsolePresent
  <2>1. \A k : k \notin DOMAIN <<>>
    OBVIOUS
  <2>2. \A k \in DOMAIN <<Close>> : k = 1 /\ <<Close>>[k] = Close
    OBVIOUS
  <2>3. QED
    BY <1>1, <1>2, <2>1, <2>2
<1>4. \A p \in Flying : p = Close /\ ~ConsolePresent
  BY <1>3, FlyingAt
<1>5. QueuesInv
  <2>1. Routed
    BY <1>3, AtConsole, DoneFields DEF Routed
  <2>2. Single
    BY <1>3 DEF Single
  <2>3. ~Before(Close, Close)
    BY DoneFields DEF Before
  <2>4. Ordered
    BY <1>3, <2>3 DEF Ordered
  <2>5. QED
    BY <2>1, <2>2, <2>4 DEF QueuesInv
<1>6. Genuine
  BY <1>4, Gateways, DoneFields DEF Genuine, IsGenuine
<1>7. \A g \in Filters : inq[g] = <<>>
  BY DEF Init
<1>8. Arrived
  BY <1>7 DEF Arrived
<1>9. ASSUME NEW s \in Streams
      PROVE  StreamOK(s)
  <2>1. s[1] \in Filters /\ s[2] \in Filters /\ s = <<s[1], s[2]>>
    BY StreamParts
  <2>2. \A k : k \notin Waiting(s[1], s[2])
    BY <1>7, <2>1 DEF Waiting
  <2>3. got[s] = 0 /\ wrote[s] = 0 /\ closed[s[1]] = {}
    BY <2>1 DEF Init
  <2>4. s[1] \in putters[s[2]]
    BY <2>1 DEF Init, Writers
  <2>5. \A p \in Flying : ~BufferOf(p, s) /\ ~EndOf(p, s)
    BY <1>4, DoneFields DEF BufferOf, EndOf
  <2>6. Split(s, 0)
    <3>1. \A n : n \notin got[s] + 1 .. 0 /\ n \notin 0 + 1 .. wrote[s]
      BY <2>3
    <3>2. QED
      BY <2>2, <2>4, <2>5, <3>1 DEF Split
  <2>7. 0 \in got[s] .. wrote[s]
    BY <2>3
  <2>8. QED
    BY <2>2, <2>3, <2>4, <2>5, <2>6, <2>7 DEF StreamOK
<1>10. ConsoleInv
  BY DEF Init, ConsoleInv
<1>11. ASSUME NEW r \in Ranks
       PROVE  doneReceived[r] = Cardinality(Heard(r))
  <2>1. \A m \in Nodes : ~SentTo(m, r)
    BY DEF Init, SentTo, SentDone, Nodes
  <2>2. Heard(r) = {}
    BY <2>1 DEF Heard
  <2>3. QED
    BY <2>2, FS_EmptySet DEF Init
<1>12. QED
  BY <1>5, <1>6, <1>8, <1>9, <1>10, <1>11 DEF OrderInv, StreamInv, DoneInv

\* The order invariant, with what it rests on.
JobInv == TypeOK /\ QuietInv /\ OrderInv

\* At every point of a job the packets of each stream lie along the route of
\* dcmpiruntime.cpp:600-760 in the order they were written, a node's done
\* packet behind its last buffer: the inductive invariant from which the two
\* theorems below follow, and the one on routers rests on it.
THEOREM JobInvariant == Spec => []JobInv
<1>1. Init => JobInv
  BY InitTyped, InitOrder DEF JobInv, Init, QuietInv, FlagIsRight, AnnouncedIsIdle, SentDone
<1>2. JobInv /\ [Next]_vars => JobInv'
  BY NextTyped, NextQuiet, NextOrder DEF JobInv
<1>3. QED
  BY <1>1, <1>2, PTL DEF Spec

-----------------------------------------------------------------------------
(* Streams                                                                 *)

LEMMA InOrderFromInv == JobInv => StreamsInOrder
<1> SUFFICES ASSUME JobInv, NEW s \in Streams
             PROVE  /\ \A j, k \in Waiting(s[1], s[2]) :
                         j < k => inq[s[2]][j].seq < inq[s[2]][k].seq
                    /\ \E last \in got[s] .. wrote[s] :
                         /\ {inq[s[2]][k].seq : k \in Waiting(s[1], s[2])} = got[s] + 1 .. last
                         /\ s[1] \notin putters[s[2]] => last = wrote[s]
  BY DEF StreamsInOrder
<1>1. StreamOK(s)
  BY DEF JobInv, OrderInv, StreamInv
<1>2. PICK last \in got[s] .. wrote[s] : Split(s, last)
  BY <1>1 DEF StreamOK
<1>3. {inq[s[2]][k].seq : k \in Waiting(s[1], s[2])} = got[s] + 1 .. last
  BY <1>2 DEF Split
<1>4. s[1] \notin putters[s[2]] => last = wrote[s]
  BY <1>2 DEF Split
<1>5. \A j, k \in Waiting(s[1], s[2]) : j < k => inq[s[2]][j].seq < inq[s[2]][k].seq
  BY <1>1 DEF StreamOK
<1>6. QED
  BY <1>2, <1>3, <1>4, <1>5

\* In every job, whatever its clusters, the buffers of a stream get to their
\* reader once each, without a gap and in the order they were written, over the
\* channels between ranks, the console's bridge and the links of the proxy; and
\* the writer leaves the putters of the in-port only after its last buffer has
\* arrived (dcmpiruntime.cpp:600-760, DCFilterThread.cpp).
THEOREM StreamsOrdered == Spec => []StreamsInOrder
BY JobInvariant, InOrderFromInv, PTL

-----------------------------------------------------------------------------
(* The end of a job                                                        *)

LEMMA AllHeard ==
  ASSUME JobInv, NEW r \in Ranks, doneReceived[r] = NumDoneExpected
  PROVE  \A m \in Nodes \ {r} : SentTo(m, r)
<1>1. Cardinality(Heard(r)) = Cardinality(Nodes) - 1
  BY DEF JobInv, OrderInv, DoneInv, NumDoneExpected
<1>2. r \in Nodes /\ IsFiniteSet(Nodes) /\ Cardinality(Nodes) \in Nat
  BY NodesFinite DEF Nodes
<1>3. IsFiniteSet(Nodes \ {r}) /\ Cardinality(Nodes \ {r}) = Cardinality(Nodes) - 1
  BY <1>2, FS_RemoveElement
<1>4. PICK T : T = Heard(r) /\ T \subseteq Nodes \ {r}
  BY DEF Heard
<1>5. PICK S : S = Nodes \ {r}
  OBVIOUS
<1>6. S \cap T = T /\ IsFiniteSet(S \ T)
  BY <1>3, <1>4, <1>5, FS_Difference
<1>7. Cardinality(S \ T) = Cardinality(S) - Cardinality(S \cap T)
  BY <1>3, <1>5, FS_Difference
<1>8. Cardinality(S \ T) = 0
  BY <1>1, <1>2, <1>3, <1>4, <1>5, <1>6, <1>7
<1>9. S \ T = {}
  BY <1>6, <1>8, FS_EmptySet
<1>10. QED
  BY <1>4, <1>5, <1>9 DEF Heard

\* A node that has sent its done packet to some other has no filter left.
LEMMA SentIsOver ==
  ASSUME JobInv, NEW m \in Nodes, NEW n, SentTo(m, n), NEW f \in Filters, HostOf[f] = m
  PROVE  status[f] = "erased"
BY WriterIsNotDone DEF JobInv, OrderInv

LEMMA ExitIsLast ==
  ASSUME JobInv, NEW r \in Ranks, Exit(r)
  PROVE  \A f \in Filters : status[f] = "erased"
<1>1. doneReceived[r] = NumDoneExpected /\ SentDone(r) /\ ~anyRunning[r]
  BY DEF Exit
<1>2. SUFFICES ASSUME NEW f \in Filters
               PROVE  status[f] = "erased"
  OBVIOUS
<1>3. HostOf[f] \in Nodes
  BY FiltersAssumption
<1>4. CASE HostOf[f] = r
  BY <1>1, <1>4 DEF JobInv, QuietInv, FlagIsRight, FiltersOn
<1>5. CASE HostOf[f] # r
  BY <1>1, <1>3, <1>5, AllHeard, SentIsOver
<1>6. QED
  BY <1>4, <1>5

LEMMA StepsOfJob ==
  ASSUME TypeOK, [Next]_vars
  PROVE  \/ exited' = exited /\ \A f \in Filters : status'[f] = "erased" <=> status[f] = "erased"
         \/ /\ \E f \in Filters : FilterErase(f)
            /\ exited' = exited
         \/ \E r \in Ranks : Exit(r)
<1> DEFINE Same == exited' = exited /\ \A f \in Filters : status'[f] = "erased" <=> status[f] = "erased"
<1>1. ASSUME NEW s \in Streams,
             FilterBlock(s[1], s[2]) \/ FilterWrite(s[1], s[2]) \/ FilterClose(s[1], s[2])
      PROVE  Same
  BY <1>1 DEF FilterBlock, FilterWrite, FilterClose, loopVars
<1>2. ASSUME NEW f \in Filters, FilterRead(f) \/ FilterReturn(f)
      PROVE  Same
  BY <1>2 DEF FilterRead, FilterReturn, loopVars, TypeOK, FilterTypes
<1>3. ASSUME NEW f \in Filters, FilterErase(f)
      PROVE  exited' = exited
  BY <1>3 DEF FilterErase, loopVars
<1>4. ASSUME NEW r \in Ranks,
             \/ CheckFilters(r) \/ Announce(r) \/ AnnounceNext(r) \/ StartSend(r)
             \/ \E p \in pending[r] : FinishSend(r, p)
             \/ HandleConsole(r) \/ HandleProxy(r)
      PROVE  Same
  BY <1>4 DEF CheckFilters, Announce, AnnounceNext, StartSend, FinishSend, HandleConsole,
              HandleProxy, filterVars, loopVars
<1>5. ASSUME NEW i \in Ranks, NEW r \in Ranks, Receive(i, r) \/ Defer(i, r)
      PROVE  Same
  BY <1>5 DEF Receive, Defer, filterVars, loopVars
<1>6. ASSUME NEW c \in Clusters, ProxyWriter(c)
      PROVE  Same
  BY <1>6 DEF ProxyWriter, filterVars, loopVars
<1>7. CASE ToConsoleThread \/ CloseConsole \/ ConsoleFinish \/ FromConsoleThread
  BY <1>7 DEF ToConsoleThread, CloseConsole, ConsoleFinish, FromConsoleThread, filterVars, loopVars
<1>8. CASE UNCHANGED vars \/ Idle
  BY <1>8 DEF Idle, vars, filterVars, loopVars
<1>9. QED
  BY <1>1, <1>2, <1>3, <1>4, <1>5, <1>6, <1>7, <1>8 DEF Next

\* Each step of a job is a step of its abstract end, or none.
LEMMA EndStep ==
  ASSUME JobInv, [Next]_vars
  PROVE  [JT!Next]_<<{f \in Filters : status[f] # "erased"}, {r \in Ranks : exited[r]}>>
<1> DEFINE running == {f \in Filters : status[f] # "erased"}
           left    == {r \in Ranks : exited[r]}
<1>1. TypeOK
  BY DEF JobInv
<1>2. CASE exited' = exited /\ \A f \in Filters : status'[f] = "erased" <=> status[f] = "erased"
  <2>1. running' = running /\ left' = left
    BY <1>2
  <2>2. QED
    BY <2>1
<1>3. ASSUME NEW f \in Filters, FilterErase(f), exited' = exited
      PROVE  JT!Finish(f)
  <2>1. /\ status[f] = "closing" /\ status'[f] = "erased"
        /\ \A g \in Filters \ {f} : status'[g] = status[g]
    BY <1>1, <1>3 DEF FilterErase, TypeOK, FilterTypes
  <2>2. f \in running /\ running' = running \ {f} /\ left' = left
    BY <1>3, <2>1
  <2>3. QED
    BY <2>2 DEF JT!Finish
<1>4. ASSUME NEW r \in Ranks, Exit(r)
      PROVE  JT!Leave(r)
  <2>1. running = {}
    BY <1>4, ExitIsLast
  <2>2. status' = status /\ ~exited[r] /\ exited' = [exited EXCEPT ![r] = TRUE]
    BY <1>4 DEF Exit, InLoop, filterVars
  <2>3. exited'[r] /\ \A i \in Ranks \ {r} : exited'[i] = exited[i]
    BY <1>1, <2>2 DEF TypeOK, LoopTypes
  <2>4. r \notin left /\ left' = left \cup {r} /\ running' = running
    BY <2>2, <2>3
  <2>5. QED
    BY <2>1, <2>4 DEF JT!Leave
<1>5. QED
  BY <1>1, <1>2, <1>3, <1>4, StepsOfJob DEF JT!Next

\* No rank of a job leaves its main loop while a filter of the job is running,
\* on whatever rank or in the console process: when the rank has counted a done
\* packet of every other node, everything that was announced is true
\* ("we'll receive nothing more from others", dcmpiruntime.cpp:592-607).
THEOREM EndsTogether == Spec => JT!SafeSpec
<1>1. Init => JT!Init
  BY DEF Init, JT!Init
<1>2. JobInv /\ [Next]_vars =>
        [JT!Next]_<<{f \in Filters : status[f] # "erased"}, {r \in Ranks : exited[r]}>>
  BY EndStep
<1>3. QED
  BY <1>1, <1>2, JobInvariant, PTL DEF Spec, JT!SafeSpec

-----------------------------------------------------------------------------
(* Where a packet is after a step                                          *)

\* A packet is in the queue of a place.
At(a, q) == \E k \in DOMAIN Queue[a] : Queue[a][k] = q

\* Being at a place is being flying there.
LEMMA AtFlying ==
  ASSUME NEW a \in Places, NEW q
  PROVE  (At(a, q) => q \in Flying) /\ (At(a, q)' => q \in Flying')
BY FlyingAt DEF At

\* After the head of a queue is taken, everything but that packet is where it was.
LEMMA AtTake ==
  ASSUME TypeOK, QueuesInv, NEW a, TakeStep(a), NEW p, p = Head(Queue[a]),
         NEW x \in Places, NEW q
  PROVE  /\ At(x, q)' <=> At(x, q) /\ ~(x = a /\ q = p)
         /\ At(a, p)
<1>1. Queue[a] \in Seq(Packet) /\ Queue[a] # <<>> /\ a \in Places
  BY QueueTyped DEF TakeStep
<1>2. /\ 1 \in DOMAIN Queue[a] /\ p = Queue[a][1]
      /\ \A j \in DOMAIN Tail(Queue[a]) : j \in Nat /\ j + 1 \in DOMAIN Queue[a]
                                          /\ Tail(Queue[a])[j] = Queue[a][j + 1]
      /\ \A i \in DOMAIN Queue[a] : i = 1 \/ (i - 1 \in DOMAIN Tail(Queue[a])
                                              /\ Tail(Queue[a])[i - 1] = Queue[a][i])
  BY <1>1, TailAt
<1>3. \A i, j \in DOMAIN Queue[a] : Queue[a][i] = Queue[a][j] => i = j
  BY <1>1 DEF QueuesInv, Single
<1>4. CASE x = a
  <2>1. Queue'[x] = Tail(Queue[a])
    BY <1>4 DEF TakeStep
  <2>2. ASSUME At(x, q)'
        PROVE  At(x, q) /\ q # p
    <3>1. PICK j \in DOMAIN Tail(Queue[a]) : Tail(Queue[a])[j] = q
      BY <2>1, <2>2 DEF At
    <3>2. j \in Nat /\ j + 1 \in DOMAIN Queue[a] /\ Queue[a][j + 1] = q
      BY <3>1, <1>2
    <3>3. j # 0
      BY <1>1, <3>1
    <3>4. QED
      BY <1>2, <1>3, <1>4, <3>2, <3>3 DEF At
  <2>3. ASSUME At(x, q), q # p
        PROVE  At(x, q)'
    <3>1. PICK i \in DOMAIN Queue[a] : Queue[a][i] = q
      BY <1>4, <2>3 DEF At
    <3>2. i - 1 \in DOMAIN Tail(Queue[a]) /\ Tail(Queue[a])[i - 1] = q
      BY <1>2, <2>3, <3>1
    <3>3. QED
      BY <2>1, <3>2 DEF At
  <2>4. QED
    BY <1>2, <1>4, <2>2, <2>3 DEF At
<1>5. CASE x # a
  <2>1. Queue'[x] = Queue[x]
    BY <1>5 DEF TakeStep
  <2>2. QED
    BY <1>2, <1>5, <2>1 DEF At
<1>6. QED
  BY <1>4, <1>5

\* After a packet is put in a queue, it is there and all others are where they were.
LEMMA AtPut ==
  ASSUME TypeOK, NEW b, NEW p, PutStep(b, p), NEW x \in Places, NEW q
  PROVE  At(x, q)' <=> At(x, q) \/ (x = b /\ q = p)
<1>1. Queue[b] \in Seq(Packet) /\ b \in Places
  BY QueueTyped DEF PutStep
<1>2. CASE x = b
  <2>1. Queue'[x] = Append(Queue[b], p)
    BY <1>2 DEF PutStep
  <2>2. /\ \A i \in DOMAIN Queue[b] : i \in DOMAIN Append(Queue[b], p)
                                      /\ Append(Queue[b], p)[i] = Queue[b][i]
        /\ Len(Queue[b]) + 1 \in DOMAIN Append(Queue[b], p)
        /\ Append(Queue[b], p)[Len(Queue[b]) + 1] = p
        /\ \A i \in DOMAIN Append(Queue[b], p) : i \in DOMAIN Queue[b] \/ i = Len(Queue[b]) + 1
    BY <1>1, AppendAt
  <2>3. QED
    BY <1>2, <2>1, <2>2 DEF At
<1>3. CASE x # b
  <2>1. Queue'[x] = Queue[x]
    BY <1>3 DEF PutStep
  <2>2. QED
    BY <1>3, <2>1 DEF At
<1>4. QED
  BY <1>2, <1>3

\* A packet that is taken from one place and put in another is at the second only.
LEMMA AtMove ==
  ASSUME TypeOK, QueuesInv, NEW a, NEW b, MoveStep(a, b), NEW p, p = Head(Queue[a]),
         NEW x \in Places, NEW q
  PROVE  /\ At(x, q)' <=> (At(x, q) /\ ~(x = a /\ q = p)) \/ (x = b /\ q = p)
         /\ At(a, p)
<1>1. /\ Queue[a] \in Seq(Packet) /\ Queue[b] \in Seq(Packet) /\ Queue[a] # <<>>
      /\ a \in Places /\ b \in Places /\ a # b
  BY QueueTyped DEF MoveStep
<1>2. /\ 1 \in DOMAIN Queue[a] /\ p = Queue[a][1]
      /\ \A j \in DOMAIN Tail(Queue[a]) : j \in Nat /\ j + 1 \in DOMAIN Queue[a]
                                          /\ Tail(Queue[a])[j] = Queue[a][j + 1]
      /\ \A i \in DOMAIN Queue[a] : i = 1 \/ (i - 1 \in DOMAIN Tail(Queue[a])
                                              /\ Tail(Queue[a])[i - 1] = Queue[a][i])
  BY <1>1, TailAt
<1>3. \A i, j \in DOMAIN Queue[a] : Queue[a][i] = Queue[a][j] => i = j
  BY <1>1 DEF QueuesInv, Single
<1>4. CASE x = a
  <2>1. Queue'[x] = Tail(Queue[a]) /\ x # b
    BY <1>1, <1>4 DEF MoveStep
  <2>2. ASSUME At(x, q)'
        PROVE  At(x, q) /\ q # p
    <3>1. PICK j \in DOMAIN Tail(Queue[a]) : Tail(Queue[a])[j] = q
      BY <2>1, <2>2 DEF At
    <3>2. j \in Nat /\ j + 1 \in DOMAIN Queue[a] /\ Queue[a][j + 1] = q
      BY <3>1, <1>2
    <3>3. j # 0
      BY <1>1, <3>1
    <3>4. QED
      BY <1>2, <1>3, <1>4, <3>2, <3>3 DEF At
  <2>3. ASSUME At(x, q), q # p
        PROVE  At(x, q)'
    <3>1. PICK i \in DOMAIN Queue[a] : Queue[a][i] = q
      BY <1>4, <2>3 DEF At
    <3>2. i - 1 \in DOMAIN Tail(Queue[a]) /\ Tail(Queue[a])[i - 1] = q
      BY <1>2, <2>3, <3>1
    <3>3. QED
      BY <2>1, <3>2 DEF At
  <2>4. QED
    BY <1>2, <1>4, <2>1, <2>2, <2>3 DEF At
<1>5. CASE x = b
  <2>1. Queue'[x] = Append(Queue[b], p) /\ x # a
    BY <1>1, <1>5 DEF MoveStep
  <2>2. /\ \A i \in DOMAIN Queue[b] : i \in DOMAIN Append(Queue[b], p)
                                      /\ Append(Queue[b], p)[i] = Queue[b][i]
        /\ Len(Queue[b]) + 1 \in DOMAIN Append(Queue[b], p)
        /\ Append(Queue[b], p)[Len(Queue[b]) + 1] = p
        /\ \A i \in DOMAIN Append(Queue[b], p) : i \in DOMAIN Queue[b] \/ i = Len(Queue[b]) + 1
    BY <1>1, AppendAt
  <2>3. QED
    BY <1>2, <1>5, <2>1, <2>2 DEF At
<1>6. CASE x # a /\ x # b
  <2>1. Queue'[x] = Queue[x]
    BY <1>6 DEF MoveStep
  <2>2. QED
    BY <1>2, <1>6, <2>1 DEF At
<1>7. QED
  BY <1>4, <1>5, <1>6

\* A step that keeps the queues keeps where every packet is.
LEMMA AtKeep ==
  ASSUME KeepStep, NEW x \in Places, NEW q
  PROVE  At(x, q)' <=> At(x, q)
BY DEF KeepStep, At

\* A packet is at one place.
LEMMA AtOne ==
  ASSUME QueuesInv, NEW a \in Places, NEW b \in Places, NEW q, At(a, q), At(b, q)
  PROVE  a = b
BY DEF QueuesInv, Single, At

\* A packet is only at places of its route.
LEMMA AtRoute ==
  ASSUME QueuesInv, NEW a \in Places, NEW q, At(a, q)
  PROVE  OnRoute(a, q.from, q.to)
BY DEF QueuesInv, Routed, At
-----------------------------------------------------------------------------
(* Routers                                                                 *)

\* Rank r passes on what node m sends to node n, and these are the pairs of
\* nodes it does so for: the gateways of the two clusters if they differ, rank
\* 0 for the console.
Passes(r, m, n) ==
  /\ IsGateway(r) /\ r # m /\ r # n /\ m # n
  /\ ClusterOf[r] \in {ClusterRank(m), ClusterRank(n)}
  /\ m = Console \/ n = Console \/ ClusterRank(m) # ClusterRank(n)
Pairs(r) == {x \in Nodes \X Nodes : Passes(r, x[1], x[2])}

\* The done packets that rank r has passed on.
Behind(r, m, n) == \A a \in Places : At(a, AllDone(m, n)) => Stage(a, n) <= Stage(HopPlace(r, n), n)
Passed(r) == {x \in Pairs(r) : SentTo(x[1], x[2]) /\ Behind(r, x[1], x[2])}
RoutedInv == \A r \in Ranks : routed[r] = Cardinality(Passed(r))

\* Once the done packet of m for n has arrived, nothing else is under way.
DrainedInv == \A p \in Flying :
  IsOfStream(p) /\ SentTo(p.from, p.to) => AllDone(p.from, p.to) \in Flying

\* Rank 0 hears CLOSE after it was sent, and does not hear it twice.
CloseInv ==
  /\ ConsolePresent /\ ~consoleSent => fromOpen
  /\ Close \in Flying => fromOpen

\* A buffer that waits for memory is still at the head of its channel.
DeferredInv == \A r \in Ranks : \A i \in deferred[r] : chan[i][r] # <<>>

\* What let a rank leave its main loop goes on to be true.
GoneInv == \A r \in Ranks : exited[r] =>
  /\ SentDone(r) /\ ~Announcing(r)
  /\ doneReceived[r] = NumDoneExpected /\ routed[r] = ToRoute(r)
  /\ r = 0 => ~fromOpen

RouterInv == RoutedInv /\ DrainedInv /\ CloseInv /\ DeferredInv /\ GoneInv

-----------------------------------------------------------------------------
(* Where a router stands on a route                                        *)

\* Cluster and gateway of a router, and how far on the place is that it passes
\* packets on to.
LEMMA RouterStage ==
  ASSUME NEW s \in Ranks, NEW m \in AllNodes, NEW n \in AllNodes, Passes(s, m, n)
  PROVE  /\ s = Gateway(ClusterOf[s]) /\ s # m /\ s # n /\ (s = 0 <=> ClusterOf[s] = 0)
         /\ \/ /\ ClusterOf[s] = ClusterRank(m) /\ ClusterRank(n) # ClusterRank(m)
               /\ Stage(HopPlace(s, n), n) = 4
            \/ /\ ClusterOf[s] = ClusterRank(n) /\ Stage(HopPlace(s, n), n) = 2
               /\ m = Console \/ n = Console \/ ClusterRank(m) # ClusterRank(n)
<1>1. /\ s = Gateway(ClusterOf[s]) /\ IsGateway(s) /\ ClusterRank(s) = ClusterOf[s]
      /\ ClusterOf[s] \in Clusters /\ (CrossCluster(s, n) <=> ClusterRank(s) # ClusterRank(n))
  BY Gateways DEF Passes
<1>2. s = 0 <=> ClusterOf[s] = 0
  BY <1>1, Gateways
<1>3. CASE ClusterRank(n) # ClusterOf[s]
  <2>1. ~(n = Console /\ s = 0) /\ CrossCluster(s, n)
    BY <1>1, <1>2, <1>3, Gateways
  <2>2. HopPlace(s, n) = ToProxy(ClusterOf[s])
    BY <1>1, <2>1 DEF HopPlace, HandlesConsole
  <2>3. Stage(HopPlace(s, n), n) = 4
    BY <1>1, <2>2, AtProxy
  <2>4. QED
    BY <1>1, <1>2, <1>3, <2>3 DEF Passes
<1>4. CASE ClusterRank(n) = ClusterOf[s]
  <2>1. ~CrossCluster(s, n)
    BY <1>1, <1>4
  <2>2. CASE n = Console
    <3>1. HopPlace(s, n) = ToConsole
      BY <1>2, <1>4, <2>2, Gateways DEF HopPlace, HandlesConsole
    <3>2. Stage(HopPlace(s, n), n) = 2
      BY <3>1, AtConsole
    <3>3. QED
      BY <1>1, <1>2, <1>4, <3>2 DEF Passes
  <2>3. CASE n # Console
    <3>1. n \in Ranks
      BY <2>3, Gateways
    <3>2. HopPlace(s, n) = Chan(s, n)
      BY <2>1, <2>3 DEF HopPlace
    <3>3. Stage(HopPlace(s, n), n) = 2
      BY <3>1, <3>2, AtChan
    <3>4. QED
      BY <1>1, <1>2, <1>4, <3>3 DEF Passes
  <2>4. QED
    BY <2>2, <2>3
<1>5. QED
  BY <1>3, <1>4

\* What node m sends itself is not past any router.
LEMMA OriginIsBefore ==
  ASSUME NEW s \in Ranks, NEW m \in Ranks, NEW n \in AllNodes, Passes(s, m, n)
  PROVE  Stage(HopPlace(m, n), n) > Stage(HopPlace(s, n), n)
<1>1. m \in AllNodes /\ ClusterRank(m) = ClusterOf[m] /\ ClusterOf[m] \in Clusters
  BY Gateways
<1>2. PICK k : k = Stage(HopPlace(s, n), n)
  OBVIOUS
<1>3. /\ s = Gateway(ClusterOf[s]) /\ s # m /\ s # n
      /\ \/ ClusterOf[s] = ClusterOf[m] /\ ClusterRank(n) # ClusterOf[m] /\ k = 4
         \/ ClusterOf[s] = ClusterRank(n) /\ k = 2 /\ (n = Console \/ ClusterOf[m] # ClusterRank(n))
  BY <1>1, <1>2, RouterStage, Gateways
<1>4. m # 0 \/ n # Console
  BY <1>3, Gateways
<1>5. CASE IsGateway(m) /\ CrossCluster(m, n)
  <2>1. HopPlace(m, n) = ToProxy(ClusterOf[m])
    BY <1>4, <1>5 DEF HopPlace, HandlesConsole
  <2>2. Stage(HopPlace(m, n), n) = 4
    BY <1>1, <2>1, AtProxy
  <2>3. k = 2
    BY <1>3, <1>5 DEF IsGateway
  <2>4. QED
    BY <1>2, <2>2, <2>3
<1>6. CASE ~(IsGateway(m) /\ CrossCluster(m, n))
  <2>1. n = Console \/ CrossCluster(m, n)
    BY <1>1, <1>3, Gateways
  <2>2. HopPlace(m, n) = Chan(m, Gateway(ClusterOf[m]))
    BY <1>4, <1>6, <2>1 DEF HopPlace, HandlesConsole
  <2>3. Gateway(ClusterOf[m]) \in Ranks /\ Gateway(ClusterOf[m]) # n
    BY <1>1, <1>3, <2>1, Gateways
  <2>4. Stage(HopPlace(m, n), n) = 5
    BY <2>2, <2>3, AtChan
  <2>5. QED
    BY <1>2, <1>3, <2>4
<1>7. QED
  BY <1>5, <1>6

\* A main loop that passes a packet on gets it past itself, and past no other.
LEMMA OthersStay ==
  ASSUME NEW s \in Ranks, NEW m \in AllNodes, NEW n \in AllNodes, Passes(s, m, n),
         NEW t \in Ranks, t # s, t # n, NEW a \in Places, HandledBy(a, t), OnRoute(a, m, n),
         NEW b \in Places, b = HopPlace(t, n), OnRoute(b, m, n), Stage(b, n) < Stage(a, n)
  PROVE  Stage(b, n) <= Stage(HopPlace(s, n), n) <=> Stage(a, n) <= Stage(HopPlace(s, n), n)
<1>1. PICK k : k = Stage(HopPlace(s, n), n)
  OBVIOUS
<1>2. /\ s = Gateway(ClusterOf[s]) /\ s # m /\ s # n /\ (s = 0 <=> ClusterOf[s] = 0)
      /\ \/ ClusterOf[s] = ClusterRank(m) /\ ClusterRank(n) # ClusterRank(m) /\ k = 4
         \/ /\ ClusterOf[s] = ClusterRank(n) /\ k = 2
            /\ m = Console \/ n = Console \/ ClusterRank(m) # ClusterRank(n)
  BY <1>1, RouterStage
<1>3. /\ m # n /\ (t = Gateway(ClusterRank(n)) => ClusterRank(n) # ClusterOf[s])
      /\ (t = Gateway(ClusterRank(m)) => ClusterRank(m) # ClusterOf[s])
      /\ (t = 0 => ClusterOf[s] # 0)
  BY <1>2, Gateways DEF Passes
<1>4. \/ m = t /\ Stage(a, n) = 6
      \/ m = Console /\ t = 0 /\ Stage(a, n) = 5
      \/ m # Console /\ t = Gateway(ClusterRank(m)) /\ Stage(a, n) = 5
      \/ t = Gateway(ClusterRank(n)) /\ Stage(a, n) = 3
  <2>1. CASE a = OutQ(t)
    BY <2>1, AtOutQ
  <2>2. CASE \E i \in Ranks : a = Chan(i, t)
    BY <2>2, AtChan, Gateways
  <2>3. CASE a = FromConsole /\ HandlesConsole(t)
    BY <2>3, AtConsole DEF HandlesConsole
  <2>4. CASE a = ProxyIn(ClusterOf[t]) /\ IsGateway(t)
    BY <2>4, AtProxy, Gateways
  <2>5. QED
    BY <2>1, <2>2, <2>3, <2>4 DEF HandledBy
<1>5. Stage(b, n) \in {2, 3, 4, 5, 6}
  BY RoutePlaces
<1>6. CASE m = t /\ Stage(a, n) = 6
  <2>1. Stage(b, n) > k
    BY <1>1, <1>6, OriginIsBefore
  <2>2. k \in {2, 4}
    BY <1>2
  <2>3. QED
    BY <1>1, <1>6, <2>1, <2>2, <1>5
<1>7. CASE Stage(a, n) = 5
  <2>1. ClusterRank(m) # ClusterOf[s]
    BY <1>3, <1>4, <1>7, Gateways
  <2>2. k = 2 /\ ClusterOf[s] = ClusterRank(n)
    BY <1>2, <2>1
  <2>3. ClusterOf[t] = ClusterRank(m) /\ IsGateway(t)
    BY <1>4, <1>7, Gateways
  <2>4. CrossCluster(t, n) /\ ~(n = Console /\ HandlesConsole(t))
    BY <2>1, <2>2, <2>3, Gateways DEF HandlesConsole
  <2>5. b = ToProxy(ClusterOf[t])
    BY <2>3, <2>4 DEF HopPlace
  <2>6. Stage(b, n) = 4
    BY <2>5, AtProxy, Gateways
  <2>7. QED
    BY <1>1, <1>7, <2>2, <2>6
<1>8. CASE t = Gateway(ClusterRank(n)) /\ Stage(a, n) = 3
  <2>1. k = 4
    BY <1>2, <1>3, <1>8
  <2>2. QED
    BY <1>1, <1>5, <1>8, <2>1
<1>9. QED
  BY <1>4, <1>6, <1>7, <1>8

\* The other links of a route pass no router.
LEMMA LinksPassNone ==
  ASSUME NEW s \in Ranks, NEW m \in AllNodes, NEW n \in AllNodes, Passes(s, m, n)
  PROVE  /\ Stage(ConsoleOut, n) > Stage(HopPlace(s, n), n)
         /\ Stage(FromConsole, n) > Stage(HopPlace(s, n), n)
         /\ \A c, d \in Clusters : Stage(ToProxy(c), n) <= Stage(HopPlace(s, n), n)
                                   <=> Stage(ProxyIn(d), n) <= Stage(HopPlace(s, n), n)
         /\ Stage(HopPlace(s, n), n) \in {2, 4}
<1>1. Stage(HopPlace(s, n), n) \in {2, 4}
  BY RouterStage
<1>2. Stage(ConsoleOut, n) = 6 /\ Stage(FromConsole, n) = 5
  BY AtConsole
<1>3. \A c \in Clusters : Stage(ToProxy(c), n) = 4 /\ Stage(ProxyIn(c), n) = 3
  BY AtProxy
<1>4. PICK k : k = Stage(HopPlace(s, n), n)
  OBVIOUS
<1>5. k \in {2, 4}
  BY <1>1, <1>4
<1>6. (4 <= k <=> 3 <= k) /\ 6 > k /\ 5 > k
  BY <1>5
<1>7. QED
  BY <1>2, <1>3, <1>4, <1>5, <1>6

\* Where the last node that has handled a packet has still to send it.
HandlerAt(a, m) ==
  CASE a[1] = "outq" -> a[2]
    [] a[1] = "chan" -> a[2]
    [] a[1] = "toConsole" -> 0
    [] a[1] \in {"consoleOut", "fromConsole"} -> Console
    [] a[1] = "toProxy" -> Gateway(a[2])
    [] a[1] = "proxyIn" -> Gateway(ClusterRank(m))

\* A rank on the rest of the way is its end or a router not passed yet.
LEMMA RestOfRoute ==
  ASSUME NEW m \in AllNodes, NEW n \in AllNodes, m # n, NEW a \in Places, OnRoute(a, m, n),
         NEW r \in Ranks, r \in Route(HandlerAt(a, m), n)
  PROVE  r = n \/ (Passes(r, m, n) /\ ~(Stage(a, n) <= Stage(HopPlace(r, n), n)))
<1> SUFFICES ASSUME r # n
             PROVE  Passes(r, m, n) /\ ~(Stage(a, n) <= Stage(HopPlace(r, n), n))
  OBVIOUS
<1>1. PICK h : h = HandlerAt(a, m)
  OBVIOUS
<1>2. /\ r \in {Gateway(ClusterRank(h)), Gateway(ClusterRank(n))} /\ r # h
      /\ h = Console \/ n = Console \/ ClusterRank(h) # ClusterRank(n)
  BY <1>1 DEF Route
<1>3. /\ \A c \in Clusters : Gateway(c) \in Ranks /\ ClusterOf[Gateway(c)] = c /\ IsGateway(Gateway(c))
      /\ ClusterRank(n) \in Clusters /\ ClusterRank(m) \in Clusters /\ Gateway(0) = 0 /\ 0 \in Clusters
      /\ \A i \in Ranks : ClusterRank(i) = ClusterOf[i]
      /\ ClusterRank(Console) = 0 /\ Console \notin Ranks
  BY Gateways
<1>4. \/ h = m /\ Stage(a, n) \in {5, 6}
      \/ /\ h = Gateway(ClusterRank(m)) /\ ClusterRank(m) # ClusterRank(n)
         /\ Stage(a, n) \in {3, 4}
  <2>1. CASE a = OutQ(m) /\ Stage(a, n) = 6
    BY <1>1, <2>1 DEF HandlerAt, OutQ
  <2>2. CASE (a = ConsoleOut /\ m = Console /\ Stage(a, n) = 6)
             \/ (a = FromConsole /\ m = Console /\ Stage(a, n) = 5)
    BY <1>1, <2>2 DEF HandlerAt, ConsoleOut, FromConsole
  <2>3. CASE a = Chan(m, Gateway(ClusterRank(m))) /\ Stage(a, n) = 5
    BY <1>1, <2>3 DEF HandlerAt, Chan
  <2>4. CASE a = ToProxy(ClusterRank(m)) /\ ClusterRank(m) # ClusterRank(n) /\ Stage(a, n) = 4
    BY <1>1, <2>4 DEF HandlerAt, ToProxy
  <2>5. CASE a = ProxyIn(ClusterRank(n)) /\ ClusterRank(m) # ClusterRank(n) /\ Stage(a, n) = 3
    BY <1>1, <2>5 DEF HandlerAt, ProxyIn
  <2>6. CASE a = ToConsole /\ n = Console
    <3>1. h = 0
      BY <1>1, <2>6 DEF HandlerAt, ToConsole
    <3>2. FALSE
      BY <1>2, <1>3, <2>6, <3>1, Gateways
    <3>3. QED
      BY <3>2
  <2>7. CASE a = Chan(m, n) /\ m \in Ranks /\ n \in Ranks /\ ClusterRank(m) = ClusterRank(n)
    <3>1. h = m
      BY <1>1, <2>7 DEF HandlerAt, Chan
    <3>2. FALSE
      BY <1>2, <1>3, <2>7, <3>1
    <3>3. QED
      BY <3>2
  <2>8. CASE a = Chan(Gateway(ClusterRank(n)), n) /\ n \in Ranks
    <3>1. h = Gateway(ClusterRank(n))
      BY <1>1, <2>8 DEF HandlerAt, Chan
    <3>2. FALSE
      BY <1>2, <1>3, <2>8, <3>1
    <3>3. QED
      BY <3>2
  <2>9. QED
    BY <2>1, <2>2, <2>3, <2>4, <2>5, <2>6, <2>7, <2>8, RoutePlaces
<1>5. IsGateway(r) /\ ClusterOf[r] \in {ClusterRank(m), ClusterRank(n)}
  BY <1>2, <1>3, <1>4
<1>6. r # m
  BY <1>2, <1>3, <1>4
<1>7. m = Console \/ n = Console \/ ClusterRank(m) # ClusterRank(n)
  BY <1>2, <1>4
<1>8. Passes(r, m, n)
  BY <1>5, <1>6, <1>7 DEF Passes
<1>9. PICK k : k = Stage(HopPlace(r, n), n)
  OBVIOUS
<1>10. \/ ClusterOf[r] = ClusterRank(m) /\ ClusterRank(n) # ClusterRank(m) /\ k = 4
       \/ ClusterOf[r] = ClusterRank(n) /\ k = 2
  BY <1>8, <1>9, RouterStage
<1>11. CASE Stage(a, n) \in {5, 6}
  BY <1>8, <1>9, <1>10, <1>11
<1>12. CASE h = Gateway(ClusterRank(m)) /\ Stage(a, n) \in {3, 4}
  <2>1. k = 2
    BY <1>2, <1>3, <1>10, <1>12
  <2>2. QED
    BY <1>8, <1>9, <1>12, <2>1
<1>13. QED
  BY <1>4, <1>11, <1>12

-----------------------------------------------------------------------------
(* How many done packets a router passes on                                *)

\* Two disjoint sets.
LEMMA SumOfTwo ==
  ASSUME NEW S, NEW T, IsFiniteSet(S), IsFiniteSet(T), \A x \in S : x \notin T
  PROVE  IsFiniteSet(S \cup T) /\ Cardinality(S \cup T) = Cardinality(S) + Cardinality(T)
<1>1. S \cap T = {}
  OBVIOUS
<1>2. Cardinality(S \cap T) = 0 /\ Cardinality(S) \in Nat /\ Cardinality(T) \in Nat
  BY <1>1, FS_EmptySet, FS_CardinalityType
<1>3. /\ IsFiniteSet(S \cup T)
      /\ Cardinality(S \cup T) = Cardinality(S) + Cardinality(T) - Cardinality(S \cap T)
  BY FS_Union
<1>4. QED
  BY <1>2, <1>3

\* All pairs of one member of A and one of O, either way.
LEMMA PairsBothWays ==
  ASSUME NEW A, NEW O, IsFiniteSet(A), IsFiniteSet(O), \A x \in A : x \notin O
  PROVE  /\ IsFiniteSet((A \X O) \cup (O \X A))
         /\ Cardinality((A \X O) \cup (O \X A)) = Cardinality(A) * Cardinality(O) * 2
<1>1. /\ IsFiniteSet(A \X O) /\ Cardinality(A \X O) = Cardinality(A) * Cardinality(O)
      /\ IsFiniteSet(O \X A) /\ Cardinality(O \X A) = Cardinality(O) * Cardinality(A)
  BY FS_Product
<1>2. \A x \in A \X O : x \notin O \X A
  OBVIOUS
<1>3. /\ IsFiniteSet((A \X O) \cup (O \X A))
      /\ Cardinality((A \X O) \cup (O \X A)) = Cardinality(A \X O) + Cardinality(O \X A)
  BY <1>1, <1>2, SumOfTwo
<1>4. Cardinality(A) \in Nat /\ Cardinality(O) \in Nat
  BY FS_CardinalityType
<1>5. ASSUME NEW i \in Nat, NEW j \in Nat
      PROVE  i * j + j * i = i * j * 2
  OBVIOUS
<1>6. QED
  BY <1>1, <1>3, <1>4, <1>5

\* The ranks of a cluster, and the console with those of cluster 0; the rest.
RanksOf(r)  == {i \in Ranks : ClusterOf[i] = ClusterOf[r]}
Bridges(r)  == ClusterOf[r] = 0 /\ ConsolePresent
Members(r)  == IF Bridges(r) THEN RanksOf(r) \cup {Console} ELSE RanksOf(r)
Outside(r)  == Nodes \ Members(r)
Mates(r)    == RanksOf(r) \ {r}

\* A gateway passes on what its members and the rest send each other, and rank
\* 0 what the console and the ranks of its cluster do.
LEMMA PairsAre ==
  ASSUME NEW r \in Ranks, IsGateway(r), NEW A, A = Members(r) \ {r}, NEW O, O = Outside(r),
         NEW X, X = IF Bridges(r) THEN (Mates(r) \X {Console}) \cup ({Console} \X Mates(r)) ELSE {}
  PROVE  Pairs(r) = ((A \X O) \cup (O \X A)) \cup X
<1>1. /\ Console \notin Ranks /\ ClusterRank(Console) = 0
      /\ \A i \in Ranks : ClusterRank(i) = ClusterOf[i] /\ i \in Nodes
      /\ \A i \in Nodes : i \in Ranks \/ (i = Console /\ ConsolePresent)
      /\ ConsolePresent => Console \in Nodes
  BY Gateways DEF Nodes
<1>2. PICK c : c = ClusterOf[r]
  OBVIOUS
<1>3. \A i \in Nodes : i \in Members(r) <=> ClusterRank(i) = c
  BY <1>1, <1>2 DEF Members, RanksOf, Bridges
<1>4. /\ Members(r) \subseteq Nodes /\ r \in Members(r)
      /\ \A i : i \in O <=> i \in Nodes /\ ClusterRank(i) # c
      /\ \A i : i \in A <=> i \in Nodes /\ ClusterRank(i) = c /\ i # r
  BY <1>1, <1>2, <1>3 DEF Members, RanksOf, Outside, Bridges
<1>5. Bridges(r) => \A i : i \in Mates(r) <=> i \in A /\ i # Console
  BY <1>1, <1>2, <1>4 DEF Mates, RanksOf
<1>6. ASSUME NEW x \in Pairs(r)
      PROVE  x \in ((A \X O) \cup (O \X A)) \cup X
  <2>1. PICK m \in Nodes, n \in Nodes : x = <<m, n>>
    BY DEF Pairs
  <2>2. /\ r # m /\ r # n /\ m # n /\ (ClusterRank(m) = c \/ ClusterRank(n) = c)
        /\ m = Console \/ n = Console \/ ClusterRank(m) # ClusterRank(n)
    BY <1>2, <2>1 DEF Pairs, Passes
  <2>3. CASE ClusterRank(m) # ClusterRank(n)
    BY <1>4, <2>1, <2>2, <2>3
  <2>4. CASE ClusterRank(m) = ClusterRank(n)
    <3>1. m \in A /\ n \in A /\ (m = Console \/ n = Console)
      BY <1>4, <2>2, <2>4
    <3>2. Bridges(r)
      BY <1>1, <1>2, <2>2, <2>4, <3>1 DEF Bridges
    <3>3. QED
      BY <1>5, <2>1, <2>2, <3>1, <3>2
  <2>5. QED
    BY <2>3, <2>4
<1>7. ASSUME NEW m, NEW n, <<m, n>> \in A \X O \/ <<m, n>> \in O \X A
      PROVE  <<m, n>> \in Pairs(r)
  <2>1. /\ m \in Nodes /\ n \in Nodes /\ ClusterRank(m) # ClusterRank(n) /\ m # r /\ n # r
        /\ c \in {ClusterRank(m), ClusterRank(n)}
    BY <1>1, <1>2, <1>4, <1>7
  <2>2. QED
    BY <1>2, <2>1 DEF Pairs, Passes
<1>8. ASSUME Bridges(r), NEW i \in Mates(r)
      PROVE  <<i, Console>> \in Pairs(r) /\ <<Console, i>> \in Pairs(r)
  <2>1. i \in Nodes /\ ClusterRank(i) = c /\ i # r /\ i # Console /\ Console \in Nodes /\ r # Console
    BY <1>1, <1>4, <1>5, <1>8 DEF Bridges
  <2>2. QED
    BY <1>2, <2>1 DEF Pairs, Passes
<1>9. ASSUME NEW x \in ((A \X O) \cup (O \X A)) \cup X
      PROVE  x \in Pairs(r)
  <2>1. CASE x \in (A \X O) \cup (O \X A)
    <3>1. x = <<x[1], x[2]>>
      BY <2>1
    <3>2. QED
      BY <1>7, <2>1, <3>1
  <2>2. CASE x \in X
    <3>1. Bridges(r) /\ \E i \in Mates(r) : x = <<i, Console>> \/ x = <<Console, i>>
      BY <2>2
    <3>2. QED
      BY <1>8, <3>1
  <2>3. QED
    BY <1>9, <2>1, <2>2
<1>10. QED
  BY <1>6, <1>9

\* all_filter_done_messages_to_route counts them right.
LEMMA ToRouteIsExact ==
  ASSUME NEW r \in Ranks
  PROVE  IsFiniteSet(Pairs(r)) /\ ToRoute(r) = Cardinality(Pairs(r))
<1>1. CASE ~IsGateway(r)
  <2>1. Pairs(r) = {}
    BY <1>1 DEF Pairs, Passes
  <2>2. QED
    BY <1>1, <2>1, FS_EmptySet DEF ToRoute
<1>2. CASE IsGateway(r)
  <2>1. PICK A : A = Members(r) \ {r}
    OBVIOUS
  <2>2. PICK O : O = Outside(r)
    OBVIOUS
  <2>3. PICK M : M = Mates(r)
    OBVIOUS
  <2>4. PICK X : X = IF Bridges(r) THEN (M \X {Console}) \cup ({Console} \X M) ELSE {}
    OBVIOUS
  <2>5. Pairs(r) = ((A \X O) \cup (O \X A)) \cup X
    BY <1>2, <2>1, <2>2, <2>3, <2>4, PairsAre
  <2>6. PICK size : size = Cardinality(RanksOf(r))
    OBVIOUS
  <2>7. PICK total : total = Cardinality(Nodes)
    OBVIOUS
  <2>8. PICK others : others = IF Bridges(r) THEN size ELSE size - 1
    OBVIOUS
  <2>9. /\ IsFiniteSet(Nodes) /\ IsFiniteSet(RanksOf(r)) /\ IsFiniteSet(Members(r))
        /\ size \in Nat /\ total \in Nat /\ RanksOf(r) \subseteq Nodes /\ Members(r) \subseteq Nodes
        /\ r \in RanksOf(r) /\ r \in Members(r) /\ Console \notin RanksOf(r)
    <3>1. /\ RanksOf(r) \subseteq Nodes /\ Members(r) \subseteq Nodes
          /\ r \in RanksOf(r) /\ r \in Members(r) /\ Console \notin RanksOf(r)
      BY Gateways DEF RanksOf, Members, Nodes, Bridges
    <3>2. QED
      BY <2>6, <2>7, <3>1, NodesFinite
  <2>10. /\ IsFiniteSet(M) /\ Cardinality(M) = size - 1 /\ Console \notin M
    BY <2>3, <2>6, <2>9, FS_RemoveElement DEF Mates
  <2>11. Cardinality(Members(r)) = others + 1 /\ others \in Int
    <3>1. Cardinality(RanksOf(r) \cup {Console}) = size + 1
      BY <2>6, <2>9, FS_AddElement
    <3>2. QED
      BY <2>6, <2>8, <2>9, <3>1 DEF Members
  <2>12. IsFiniteSet(A) /\ Cardinality(A) = others
    <3>1. /\ IsFiniteSet(Members(r) \ {r})
          /\ Cardinality(Members(r) \ {r}) = Cardinality(Members(r)) - 1
      BY <2>9, FS_RemoveElement
    <3>2. QED
      BY <2>1, <2>11, <3>1
  <2>13. IsFiniteSet(O) /\ Cardinality(O) = total - (others + 1)
    <3>1. Nodes \cap Members(r) = Members(r)
      BY <2>9
    <3>2. /\ IsFiniteSet(Nodes \ Members(r))
          /\ Cardinality(Nodes \ Members(r)) = Cardinality(Nodes) - Cardinality(Nodes \cap Members(r))
      BY <2>9, FS_Difference
    <3>3. QED
      BY <2>2, <2>7, <2>11, <3>1, <3>2 DEF Outside
  <2>14. PICK Y : Y = (A \X O) \cup (O \X A)
    OBVIOUS
  <2>15. IsFiniteSet(Y) /\ Cardinality(Y) = others * (total - (others + 1)) * 2
    <3>1. \A x \in A : x \notin O
      BY <2>1, <2>2 DEF Outside
    <3>2. QED
      BY <2>12, <2>13, <2>14, <3>1, PairsBothWays
  <2>16. IsFiniteSet(X) /\ Cardinality(X) = IF Bridges(r) THEN 2 * (size - 1) ELSE 0
    <3>1. IsFiniteSet({Console}) /\ Cardinality({Console}) = 1
      BY FS_Singleton
    <3>2. /\ IsFiniteSet((M \X {Console}) \cup ({Console} \X M))
          /\ Cardinality((M \X {Console}) \cup ({Console} \X M))
               = Cardinality(M) * Cardinality({Console}) * 2
      BY <2>10, <3>1, PairsBothWays
    <3>3. (size - 1) * 1 * 2 = 2 * (size - 1)
      BY <2>9
    <3>4. QED
      BY <2>4, <2>10, <3>1, <3>2, <3>3, FS_EmptySet
  <2>17. \A x \in Y : x \notin X
    <3>1. \A x \in X : x[1] \notin O /\ x[2] \notin O
      BY <2>2, <2>3, <2>4 DEF Outside, Mates, Members
    <3>2. \A x \in Y : x[1] \in O \/ x[2] \in O
      BY <2>14
    <3>3. QED
      BY <3>1, <3>2
  <2>18. IsFiniteSet(Y \cup X) /\ Cardinality(Y \cup X) = Cardinality(Y) + Cardinality(X)
    BY <2>15, <2>16, <2>17, SumOfTwo
  <2>19. ToRoute(r) = (IF Bridges(r) THEN 2 * (size - 1) ELSE 0) + others * (total - (others + 1)) * 2
    <3>1. ClusterSize(ClusterOf[r]) = size
      BY <2>6 DEF ClusterSize, RanksOf
    <3>2. QED
      BY <1>2, <2>7, <2>8, <3>1 DEF ToRoute, Bridges
  <2>20. PICK z : z = others * (total - (others + 1)) * 2
    OBVIOUS
  <2>21. z \in Int
    BY <2>9, <2>11, <2>20
  <2>22. PICK y : y = IF Bridges(r) THEN 2 * (size - 1) ELSE 0
    OBVIOUS
  <2>23. y \in Int
    BY <2>9, <2>22
  <2>24. ToRoute(r) = y + z /\ Cardinality(Y) = z /\ Cardinality(X) = y
    BY <2>15, <2>16, <2>19, <2>20, <2>22
  <2>25. QED
    BY <2>5, <2>14, <2>18, <2>21, <2>23, <2>24
<1>3. QED
  BY <1>1, <1>2

-----------------------------------------------------------------------------
(* What a step does to the count of what a rank has passed on              *)

\* A place past router r, or the one it passes packets for n on to.
Near(a, r, n) == Stage(a, n) <= Stage(HopPlace(r, n), n)

\* A step that passes no done packet on and sends none.
LEMMA RoutedKept ==
  ASSUME RoutedInv, routed' = routed,
         \A r \in Ranks : \A x \in Pairs(r) :
           SentTo(x[1], x[2])' /\ Behind(r, x[1], x[2])' <=> SentTo(x[1], x[2]) /\ Behind(r, x[1], x[2])
  PROVE  RoutedInv'
<1>1. \A r \in Ranks : Passed(r)' = Passed(r)
  BY DEF Passed
<1>2. QED
  BY <1>1 DEF RoutedInv

\* The members of Pairs(r).
LEMMA PairParts ==
  ASSUME NEW r \in Ranks, NEW x \in Pairs(r)
  PROVE  /\ x = <<x[1], x[2]>> /\ x[1] \in Nodes /\ x[2] \in Nodes /\ x[1] # x[2]
         /\ x[1] \in AllNodes /\ x[2] \in AllNodes /\ Passes(r, x[1], x[2])
BY DEF Pairs, Passes, Nodes, AllNodes

\* Steps that move no done packet.
LEMMA RoutedQuiet ==
  ASSUME RoutedInv, routed' = routed,
         \A m, n \in Nodes : m # n => (SentTo(m, n)' <=> SentTo(m, n)),
         \A x \in Places : \A m, n : At(x, AllDone(m, n))' <=> At(x, AllDone(m, n))
  PROVE  RoutedInv'
<1>1. \A r \in Ranks : \A m, n : Behind(r, m, n)' <=> Behind(r, m, n)
  BY DEF Behind
<1>2. QED
  BY <1>1, RoutedKept, PairParts

\* A done packet is past a router if the one place where it is is.
LEMMA BehindAt ==
  ASSUME QueuesInv, NEW m, NEW n, NEW a \in Places, At(a, AllDone(m, n)), NEW r
  PROVE  Behind(r, m, n) <=> Near(a, r, n)
BY AtOne DEF Behind, Near

\* The done packet that moves, and the others.
LEMMA BehindMove ==
  ASSUME TypeOK, QueuesInv, NEW a, NEW b, MoveStep(a, b), NEW p, p = Head(Queue[a])
  PROVE  /\ \A m, n : AllDone(m, n) = p => \A r : /\ Behind(r, m, n) <=> Near(a, r, n)
                                                  /\ Behind(r, m, n)' <=> Near(b, r, n)
         /\ \A m, n : AllDone(m, n) # p => \A r : Behind(r, m, n)' <=> Behind(r, m, n)
<1>1. /\ \A x \in Places : \A q : At(x, q)' <=> (At(x, q) /\ ~(x = a /\ q = p)) \/ (x = b /\ q = p)
      /\ a \in Places /\ b \in Places
  BY AtMove DEF MoveStep
<1>2. At(a, p)
  BY <1>1, AtMove
<1>3. ASSUME NEW m, NEW n, AllDone(m, n) = p, NEW r
      PROVE  /\ Behind(r, m, n) <=> Near(a, r, n)
             /\ Behind(r, m, n)' <=> Near(b, r, n)
  <2>1. Behind(r, m, n) <=> Near(a, r, n)
    BY <1>1, <1>2, <1>3, BehindAt
  <2>2. \A x \in Places : At(x, p) => x = a
    BY <1>1, <1>2, AtOne
  <2>3. \A x \in Places : At(x, p)' <=> x = b
    BY <1>1, <2>2
  <2>4. Behind(r, m, n)' <=> Near(b, r, n)
    BY <1>1, <1>3, <2>3 DEF Behind, Near
  <2>5. QED
    BY <2>1, <2>4
<1>4. ASSUME NEW m, NEW n, AllDone(m, n) # p, NEW r
      PROVE  Behind(r, m, n)' <=> Behind(r, m, n)
  <2>1. \A x \in Places : At(x, AllDone(m, n))' <=> At(x, AllDone(m, n))
    BY <1>1, <1>4
  <2>2. QED
    BY <2>1 DEF Behind
<1>5. QED
  BY <1>3, <1>4

\* A step that moves a packet past no router.
LEMMA RoutedSame ==
  ASSUME TypeOK, QueuesInv, RoutedInv, routed' = routed,
         \A m, n \in Nodes : m # n => (SentTo(m, n)' <=> SentTo(m, n)),
         NEW a, NEW b, MoveStep(a, b), NEW p, p = Head(Queue[a]),
         \A m, n \in Nodes : \A r \in Ranks : p = AllDone(m, n) /\ Passes(r, m, n) =>
           (Near(b, r, n) <=> Near(a, r, n))
  PROVE  RoutedInv'
<1> SUFFICES ASSUME NEW r \in Ranks, NEW x \in Pairs(r)
             PROVE  SentTo(x[1], x[2])' /\ Behind(r, x[1], x[2])'
                      <=> SentTo(x[1], x[2]) /\ Behind(r, x[1], x[2])
  BY RoutedKept
<1>1. PICK m, n : m = x[1] /\ n = x[2]
  OBVIOUS
<1>2. m \in Nodes /\ n \in Nodes /\ m # n /\ Passes(r, m, n)
  BY <1>1, PairParts
<1>3. Behind(r, m, n)' <=> Behind(r, m, n)
  BY <1>2, BehindMove
<1>4. QED
  BY <1>1, <1>2, <1>3

\* Router t passes a done packet on.
LEMMA RoutedMore ==
  ASSUME TypeOK, QueuesInv, Genuine, RoutedInv,
         \A m, n \in Nodes : m # n => (SentTo(m, n)' <=> SentTo(m, n)),
         NEW a, NEW b, MoveStep(a, b), NEW p, p = Head(Queue[a]), p.type = "ALL_MY_FILTERS_DONE",
         NEW t \in Ranks, Passes(t, p.from, p.to), ~Near(a, t, p.to), Near(b, t, p.to),
         \A r \in Ranks : r # t /\ Passes(r, p.from, p.to) => (Near(b, r, p.to) <=> Near(a, r, p.to)),
         routed' = [routed EXCEPT ![t] = @ + 1]
  PROVE  RoutedInv'
<1>1. PICK m, n : m = p.from /\ n = p.to
  OBVIOUS
<1>2. p \in Flying
  <2>1. At(a, p) /\ a \in Places
    BY AtMove DEF MoveStep
  <2>2. QED
    BY <2>1, AtFlying
<1>3. p = AllDone(m, n) /\ m \in Nodes /\ n \in Nodes /\ m # n /\ SentTo(m, n)
  BY <1>1, <1>2, GenuineKinds
<1>4. /\ \A r : (Behind(r, m, n) <=> Near(a, r, n)) /\ (Behind(r, m, n)' <=> Near(b, r, n))
      /\ \A i, j : AllDone(i, j) # p => \A r : Behind(r, i, j)' <=> Behind(r, i, j)
  BY <1>3, BehindMove
<1>5. \A i, j : AllDone(i, j) = p <=> i = m /\ j = n
  BY <1>3, DoneFields
<1>6. routed \in [Ranks -> Nat]
  BY DEF TypeOK, LoopTypes
<1>7. SentTo(m, n)'
  BY <1>3
<1>8. ASSUME NEW r \in Ranks, r # t
      PROVE  routed'[r] = Cardinality(Passed(r)')
  <2>1. ASSUME NEW x \in Pairs(r)
        PROVE  x \in Passed(r)' <=> x \in Passed(r)
    <3>1. PICK i, j : i = x[1] /\ j = x[2]
      OBVIOUS
    <3>2. i \in Nodes /\ j \in Nodes /\ i # j /\ Passes(r, i, j)
      BY <3>1, PairParts
    <3>3. CASE i = m /\ j = n
      <4>1. Behind(r, m, n)' <=> Behind(r, m, n)
        BY <1>1, <1>4, <1>8, <3>2, <3>3
      <4>2. QED
        BY <3>1, <3>2, <3>3, <4>1 DEF Passed
    <3>4. CASE ~(i = m /\ j = n)
      <4>1. Behind(r, i, j)' <=> Behind(r, i, j)
        BY <1>4, <1>5, <3>4
      <4>2. QED
        BY <3>1, <3>2, <4>1 DEF Passed
    <3>5. QED
      BY <3>3, <3>4
  <2>2. Passed(r)' = Passed(r)
    BY <2>1 DEF Passed
  <2>3. QED
    BY <1>6, <1>8, <2>2 DEF RoutedInv
<1>9. routed'[t] = Cardinality(Passed(t)')
  <2>1. PICK y : y = <<m, n>>
    OBVIOUS
  <2>2. y \in Pairs(t) /\ y[1] = m /\ y[2] = n
    BY <1>1, <1>3, <2>1 DEF Pairs
  <2>3. y \notin Passed(t) /\ y \in Passed(t)'
    BY <1>1, <1>4, <1>7, <2>2 DEF Passed
  <2>4. ASSUME NEW x \in Pairs(t), x # y
        PROVE  x \in Passed(t)' <=> x \in Passed(t)
    <3>1. PICK i, j : i = x[1] /\ j = x[2]
      OBVIOUS
    <3>2. i \in Nodes /\ j \in Nodes /\ i # j /\ x = <<i, j>>
      BY <3>1, PairParts
    <3>3. AllDone(i, j) # p
      BY <1>5, <2>1, <2>4, <3>2
    <3>4. QED
      BY <1>4, <3>1, <3>2, <3>3 DEF Passed
  <2>5. Passed(t)' = Passed(t) \cup {y}
    BY <2>2, <2>3, <2>4 DEF Passed
  <2>6. IsFiniteSet(Passed(t))
    <3>1. IsFiniteSet(Pairs(t))
      BY ToRouteIsExact
    <3>2. QED
      BY <3>1, FS_Subset DEF Passed
  <2>7. Cardinality(Passed(t) \cup {y}) = Cardinality(Passed(t)) + 1
    BY <2>3, <2>6, FS_AddElement
  <2>8. QED
    BY <1>6, <2>5, <2>7 DEF RoutedInv
<1>10. QED
  BY <1>8, <1>9 DEF RoutedInv

\* A packet that gets to its end has passed all routers.
LEMMA RoutedTake ==
  ASSUME TypeOK, QueuesInv, RoutedInv, routed' = routed,
         \A m, n \in Nodes : m # n => (SentTo(m, n)' <=> SentTo(m, n)),
         NEW a, TakeStep(a), NEW p, p = Head(Queue[a]),
         p.type = "ALL_MY_FILTERS_DONE" =>
           \A r \in Ranks : Passes(r, p.from, p.to) => Near(a, r, p.to)
  PROVE  RoutedInv'
<1>1. /\ \A x \in Places : \A q : At(x, q)' <=> At(x, q) /\ ~(x = a /\ q = p)
      /\ a \in Places
  BY AtTake DEF TakeStep
<1>2. At(a, p)
  BY <1>1, AtTake
<1> SUFFICES ASSUME NEW r \in Ranks, NEW x \in Pairs(r)
             PROVE  SentTo(x[1], x[2])' /\ Behind(r, x[1], x[2])'
                      <=> SentTo(x[1], x[2]) /\ Behind(r, x[1], x[2])
  BY RoutedKept
<1>3. PICK m, n : m = x[1] /\ n = x[2]
  OBVIOUS
<1>4. m \in Nodes /\ n \in Nodes /\ m # n /\ Passes(r, m, n) /\ m \in AllNodes /\ n \in AllNodes
  BY <1>3, PairParts
<1>5. CASE AllDone(m, n) # p
  <2>1. \A y \in Places : At(y, AllDone(m, n))' <=> At(y, AllDone(m, n))
    BY <1>1, <1>5
  <2>2. Behind(r, m, n)' <=> Behind(r, m, n)
    BY <2>1 DEF Behind
  <2>3. QED
    BY <1>3, <1>4, <2>2
<1>6. CASE AllDone(m, n) = p
  <2>1. p.type = "ALL_MY_FILTERS_DONE" /\ p.from = m /\ p.to = n
    BY <1>6, DoneFields
  <2>2. Near(a, r, n)
    BY <1>4, <2>1
  <2>3. Behind(r, m, n)
    BY <1>1, <1>2, <1>6, <2>2, BehindAt
  <2>4. \A y \in Places : ~At(y, AllDone(m, n))'
    BY <1>1, <1>2, <1>6, AtOne
  <2>5. Behind(r, m, n)'
    BY <2>4 DEF Behind
  <2>6. QED
    BY <1>3, <1>4, <2>3, <2>5
<1>7. QED
  BY <1>5, <1>6

\* Where a packet is received all routers are behind it.
LEMMA ReceivedIsNear ==
  ASSUME NEW r \in Ranks, NEW m \in AllNodes, NEW n \in AllNodes, Passes(r, m, n),
         NEW a \in Places, ReceivedAt(a, n), OnRoute(a, m, n)
  PROVE  Near(a, r, n)
<1>1. PICK k : k = Stage(HopPlace(r, n), n)
  OBVIOUS
<1>2. /\ r = Gateway(ClusterOf[r]) /\ r # n /\ (r = 0 <=> ClusterOf[r] = 0)
      /\ \/ ClusterOf[r] = ClusterRank(m) /\ ClusterRank(n) # ClusterRank(m) /\ k = 4
         \/ ClusterOf[r] = ClusterRank(n) /\ k = 2
  BY <1>1, RouterStage
<1>3. CASE n = Console /\ a = ToConsole
  <2>1. Stage(a, n) = 2
    BY <1>3, AtConsole
  <2>2. QED
    BY <1>1, <1>2, <2>1 DEF Near
<1>4. CASE n \in Ranks /\ \E i \in Ranks : a = Chan(i, n)
  <2>1. Stage(a, n) = 2
    BY <1>4, AtChan
  <2>2. QED
    BY <1>1, <1>2, <2>1 DEF Near
<1>5. CASE n = 0 /\ a = FromConsole
  <2>1. m = Console
    BY <1>5, AtConsole
  <2>2. FALSE
    BY <1>2, <1>5, <2>1, Gateways
  <2>3. QED
    BY <2>2
<1>6. CASE \E c \in Clusters : a = ProxyIn(c) /\ n = Gateway(c)
  <2>1. PICK c \in Clusters : a = ProxyIn(c) /\ n = Gateway(c)
    BY <1>6
  <2>2. Stage(a, n) = 3
    BY <2>1, AtProxy
  <2>3. ClusterRank(n) = c
    BY <2>1, Gateways
  <2>4. k = 4
    BY <1>2, <2>1, <2>3
  <2>5. QED
    BY <1>1, <2>2, <2>4 DEF Near
<1>7. QED
  BY <1>3, <1>4, <1>5, <1>6 DEF ReceivedAt

\* A main loop that passes on what another node has sent is a router of it.
LEMMA PassesOn ==
  ASSUME NEW t \in Ranks, NEW m \in AllNodes, NEW n \in AllNodes, m # n, m # t, n # t,
         NEW a \in Places, HandledBy(a, t), OnRoute(a, m, n)
  PROVE  Passes(t, m, n)
<1>1. CASE a = OutQ(t)
  BY <1>1, AtOutQ
<1>2. CASE \E i \in Ranks : a = Chan(i, t)
  <2>1. /\ t = Gateway(ClusterRank(m)) /\ (n = Console \/ ClusterRank(m) # ClusterRank(n))
    BY <1>2, AtChan
  <2>2. QED
    BY <2>1, Gateways DEF Passes
<1>3. CASE a = FromConsole /\ HandlesConsole(t)
  <2>1. m = Console /\ t = 0
    BY <1>3, AtConsole DEF HandlesConsole
  <2>2. QED
    BY <2>1, Gateways DEF Passes
<1>4. CASE a = ProxyIn(ClusterOf[t]) /\ IsGateway(t)
  <2>1. ClusterOf[t] = ClusterRank(n) /\ ClusterRank(m) # ClusterRank(n)
    BY <1>4, AtProxy, Gateways
  <2>2. QED
    BY <1>4, <2>1 DEF Passes
<1>5. QED
  BY <1>1, <1>2, <1>3, <1>4 DEF HandledBy

-----------------------------------------------------------------------------
(* What a step does to the rest of the invariant                           *)

\* Nothing of a stream is left once the done packet behind it is gone.
LEMMA DrainedKept ==
  ASSUME Genuine, DrainedInv,
         \A p \in Flying' : IsOfStream(p) => p \in Flying \/ ~SentTo(p.from, p.to)',
         \A m, n \in Nodes : m # n /\ SentTo(m, n)' => SentTo(m, n) \/ AllDone(m, n) \in Flying',
         \A m, n : AllDone(m, n) \in Flying =>
           AllDone(m, n) \in Flying' \/ \A q \in Flying : ~Before(q, AllDone(m, n))
  PROVE  DrainedInv'
<1> SUFFICES ASSUME NEW p \in Flying', IsOfStream(p), SentTo(p.from, p.to)'
             PROVE  AllDone(p.from, p.to) \in Flying'
  BY DEF DrainedInv
<1>1. p \in Flying
  OBVIOUS
<1>2. PICK m, n : m = p.from /\ n = p.to
  OBVIOUS
<1>3. m \in Nodes /\ n \in Nodes /\ m # n
  <2>1. /\ <<p.writer, p.reader>> \in Streams /\ m = HostOf[p.writer] /\ n = HostOf[p.reader]
        /\ m # n
    BY <1>1, <1>2, GenuineKinds DEF IsOfStream
  <2>2. p.writer \in Filters /\ p.reader \in Filters
    BY <2>1, FiltersAssumption
  <2>3. QED
    BY <2>1, <2>2, FiltersAssumption
<1>4. CASE AllDone(m, n) \in Flying'
  BY <1>2, <1>4
<1>5. CASE AllDone(m, n) \notin Flying'
  <2>1. SentTo(m, n)
    BY <1>2, <1>3, <1>5
  <2>2. AllDone(m, n) \in Flying
    BY <1>1, <1>2, <2>1 DEF DrainedInv
  <2>3. Before(p, AllDone(m, n))
    BY <1>2, DoneFields DEF Before, IsOfStream
  <2>4. QED
    BY <1>1, <1>5, <2>2, <2>3
<1>6. QED
  BY <1>4, <1>5

\* Steps that move packets, or take one that is not a done packet.
LEMMA DrainedQuiet ==
  ASSUME Genuine, DrainedInv, \A m, n \in Nodes : m # n => (SentTo(m, n)' <=> SentTo(m, n)),
         \A p \in Flying' : p \in Flying,
         \A m, n : AllDone(m, n) \in Flying =>
           AllDone(m, n) \in Flying' \/ \A q \in Flying : ~Before(q, AllDone(m, n))
  PROVE  DrainedInv'
BY DrainedKept

\* A step that does not touch the flags of the CLOSE packet.
LEMMA CloseKept ==
  ASSUME CloseInv, UNCHANGED <<fromOpen, consoleSent>>, Close \in Flying' => Close \in Flying
  PROVE  CloseInv'
BY DEF CloseInv

\* A channel keeps its packets unless the step takes from it.
LEMMA DeferredKept ==
  ASSUME TypeOK, DeferredInv, \A r \in Ranks : \A i \in deferred'[r] : i \in deferred[r] /\ i \in Ranks,
         \A i, r \in Ranks : i \in deferred'[r] /\ chan[i][r] # <<>> => chan'[i][r] # <<>>
  PROVE  DeferredInv'
BY DEF DeferredInv

\* No channel becomes empty but the one a step takes from.
LEMMA ChannelsKept ==
  ASSUME TypeOK, NEW a,
         \/ KeepStep \/ TakeStep(a) \/ (\E b : MoveStep(a, b)) \/ \E b, p : PutStep(b, p)
  PROVE  \A i, r \in Ranks : Chan(i, r) # a /\ chan[i][r] # <<>> => chan'[i][r] # <<>>
<1> SUFFICES ASSUME NEW i \in Ranks, NEW r \in Ranks, Chan(i, r) # a, chan[i][r] # <<>>
             PROVE  chan'[i][r] # <<>>
  OBVIOUS
<1>1. PICK x \in Places : x = Chan(i, r)
  BY PlaceKinds
<1>2. Queue[x] = chan[i][r] /\ Queue'[x] = chan'[i][r]
  BY <1>1, QueueAt, QueueNext
<1>3. PICK q \in Seq(Packet) : q = Queue[x]
  BY <1>1, QueueTyped
<1>4. q # <<>> /\ x # a
  BY <1>1, <1>2, <1>3
<1>5. \A e : Append(q, e) # <<>>
  BY <1>3
<1>6. CASE KeepStep
  BY <1>2, <1>3, <1>4, <1>6 DEF KeepStep
<1>7. CASE TakeStep(a)
  BY <1>2, <1>3, <1>4, <1>7 DEF TakeStep
<1>8. CASE \E b : MoveStep(a, b)
  BY <1>2, <1>3, <1>4, <1>5, <1>8 DEF MoveStep
<1>9. CASE \E b, p : PutStep(b, p)
  BY <1>2, <1>3, <1>4, <1>5, <1>9 DEF PutStep
<1>10. QED
  BY <1>6, <1>7, <1>8, <1>9

\* A step that touches no counter of a rank that has left.
LEMMA GoneKept ==
  ASSUME GoneInv, fromOpen' => fromOpen,
         \A r \in Ranks : exited'[r] =>
           /\ exited[r] /\ announced'[r] = announced[r]
           /\ doneReceived'[r] = doneReceived[r] /\ routed'[r] = routed[r]
  PROVE  GoneInv'
BY DEF GoneInv, SentDone, Announcing

-----------------------------------------------------------------------------
(* The main loops                                                          *)

\* What a main loop gets for its own rank has come to its end.
LEMMA HandledIsReceived ==
  ASSUME NEW r \in Ranks, NEW a, HandledBy(a, r), NEW m, OnRoute(a, m, r), m # r
  PROVE  ReceivedAt(a, r)
<1>1. a # OutQ(r)
  BY AtOutQ
<1>2. QED
  BY <1>1, Gateways DEF HandledBy, ReceivedAt, HandlesConsole

\* A main loop that handles a packet counts a done packet as routed exactly when
\* it passes it on.
LEMMA DeliverRouted ==
  ASSUME TypeOK, OrderInv, RoutedInv, NEW r \in Ranks, NEW a, HandledBy(a, r), NEW ch, Taken(a, ch),
         Deliver(r, Head(Queue[a]), ch), UNCHANGED <<announced, consoleSent>>
  PROVE  RoutedInv'
<1>1. PICK p : p = Head(Queue[a])
  OBVIOUS
<1>2. PICK m, n : m = p.from /\ n = p.to
  OBVIOUS
<1>3. QueuesInv /\ Genuine /\ \A i, j \in Nodes : i # j => (SentTo(i, j)' <=> SentTo(i, j))
  BY SentKept DEF OrderInv, StreamInv
<1>4. /\ a \in Places /\ Queue[a] # <<>> /\ p \in Flying
      /\ OnRoute(a, m, n) /\ m \in AllNodes /\ n \in AllNodes /\ m # n
  BY <1>1, <1>2, <1>3, HeadFacts DEF Taken
<1>5. CASE n = r
  <2>1. chan' = ch /\ UNCHANGED <<toConsole, toProxy, routed>>
    BY <1>1, <1>2, <1>5 DEF Deliver
  <2>2. TakeStep(a)
    BY <2>1, TakenIsTaken
  <2>3. \A s \in Ranks : Passes(s, m, n) => Near(a, s, n)
    BY <1>4, <1>5, HandledIsReceived, ReceivedIsNear
  <2>4. QED
    BY <1>1, <1>2, <1>3, <2>1, <2>2, <2>3, RoutedTake
<1>6. CASE n # r
  <2>1. DeliverElsewhere(r, p, ch)
    BY <1>1, <1>2, <1>6 DEF Deliver
  <2>2. PICK b : b = HopPlace(r, n)
    OBVIOUS
  <2>3. MoveStep(a, b)
    BY <1>1, <1>2, <1>3, <1>6, <2>1, <2>2, PassOnMoves
  <2>4. b \in Places /\ OnRoute(b, m, n) /\ Stage(b, n) < Stage(a, n)
    BY <1>4, <1>6, <2>2, HopIsNext
  <2>5. \A s \in Ranks : s # r /\ Passes(s, m, n) => (Near(b, s, n) <=> Near(a, s, n))
    BY <1>4, <1>6, <2>2, <2>4, OthersStay DEF Near
  <2>6. CASE p.type = "ALL_MY_FILTERS_DONE" /\ m # r
    <3>1. Passes(r, m, n)
      BY <1>4, <1>6, <2>6, PassesOn
    <3>2. Stage(a, n) \in Nat /\ Stage(b, n) \in Nat
      BY <1>4, <2>4, StageTyped
    <3>3. ~Near(a, r, n) /\ Near(b, r, n)
      BY <2>2, <2>4, <3>2 DEF Near
    <3>4. routed' = [routed EXCEPT ![r] = @ + 1]
      BY <1>2, <2>1, <2>6 DEF DeliverElsewhere
    <3>5. QED
      BY <1>1, <1>2, <1>3, <2>3, <2>5, <2>6, <3>1, <3>3, <3>4, RoutedMore
  <2>7. CASE ~(p.type = "ALL_MY_FILTERS_DONE" /\ m # r)
    <3>1. routed' = routed
      BY <1>2, <2>1, <2>7 DEF DeliverElsewhere
    <3>2. ASSUME NEW i \in Nodes, NEW j \in Nodes, NEW s \in Ranks, p = AllDone(i, j), Passes(s, i, j)
          PROVE  Near(b, s, j) <=> Near(a, s, j)
      <4>1. p.type = "ALL_MY_FILTERS_DONE" /\ i = m /\ j = n
        BY <1>2, <3>2, DoneFields
      <4>2. s # r
        BY <2>7, <3>2, <4>1 DEF Passes
      <4>3. QED
        BY <2>5, <3>2, <4>1, <4>2
    <3>3. QED
      BY <1>1, <1>3, <2>3, <3>1, <3>2, RoutedSame
  <2>8. QED
    BY <2>6, <2>7
<1>7. QED
  BY <1>5, <1>6

\* Handling a packet, from wherever the main loop got it.
LEMMA DeliverRouter ==
  ASSUME TypeOK, OrderInv, RouterInv, NEW r \in Ranks, ~exited[r],
         NEW a, HandledBy(a, r), NEW ch, Taken(a, ch), Deliver(r, Head(Queue[a]), ch),
         UNCHANGED <<announced, consoleSent, fromOpen, exited>>,
         \A s \in Ranks : \A i \in deferred'[s] : i \in deferred[s] /\ i \in Ranks /\ Chan(i, s) # a
  PROVE  RouterInv'
<1>1. PICK p : p = Head(Queue[a])
  OBVIOUS
<1>2. QueuesInv /\ Genuine /\ \A i, j \in Nodes : i # j => (SentTo(i, j)' <=> SentTo(i, j))
  BY SentKept DEF OrderInv, StreamInv
<1>3. \/ /\ p.to = r /\ chan' = ch /\ UNCHANGED <<toConsole, toProxy, routed>>
         /\ DeliverIn(r, p)
      \/ p.to # r /\ DeliverElsewhere(r, p, ch) /\ doneReceived' = doneReceived
  BY <1>1 DEF Deliver
<1>4. \/ Flying' = Flying
      \/ Flying' = Flying \ {p} /\ \A q \in Flying : ~Before(q, p)
  <2>1. CASE p.to = r
    BY <1>1, <1>2, <1>3, <2>1, DeliveryKeeps
  <2>2. CASE p.to # r
    BY <1>1, <1>2, <1>3, <2>2, PassOnKeeps
  <2>3. QED
    BY <2>1, <2>2
<1>5. TakeStep(a) \/ \E b : MoveStep(a, b)
  <2>1. CASE p.to = r
    BY <1>3, <2>1, TakenIsTaken
  <2>2. CASE p.to # r
    <3>1. PICK b : b = HopPlace(r, p.to)
      OBVIOUS
    <3>2. MoveStep(a, b)
      BY <1>1, <1>2, <1>3, <2>2, <3>1, PassOnMoves
    <3>3. QED
      BY <3>2
  <2>3. QED
    BY <2>1, <2>2
<1>6. RoutedInv'
  BY DeliverRouted DEF RouterInv
<1>7. DrainedInv'
  BY <1>2, <1>4, DrainedQuiet DEF RouterInv
<1>8. CloseInv'
  BY <1>4, CloseKept DEF RouterInv
<1>9. DeferredInv'
  <2>1. \A i, s \in Ranks : Chan(i, s) # a /\ chan[i][s] # <<>> => chan'[i][s] # <<>>
    BY <1>5, ChannelsKept
  <2>2. QED
    BY <2>1, DeferredKept DEF RouterInv
<1>10. GoneInv'
  <2>1. \A s \in Ranks : s # r => doneReceived'[s] = doneReceived[s] /\ routed'[s] = routed[s]
    <3>1. doneReceived \in [Ranks -> Nat] /\ routed \in [Ranks -> Nat]
      BY DEF TypeOK, LoopTypes
    <3>2. doneReceived' = doneReceived \/ doneReceived' = [doneReceived EXCEPT ![r] = @ + 1]
      BY <1>3 DEF DeliverIn
    <3>3. routed' = routed \/ routed' = [routed EXCEPT ![r] = @ + 1]
      BY <1>3 DEF DeliverElsewhere
    <3>4. QED
      BY <3>1, <3>2, <3>3
  <2>2. QED
    BY <2>1, GoneKept DEF RouterInv
<1>11. QED
  BY <1>6, <1>7, <1>8, <1>9, <1>10 DEF RouterInv

LEMMA StartSendRouter ==
  ASSUME TypeOK, OrderInv, RouterInv, NEW r \in Ranks, StartSend(r)
  PROVE  RouterInv'
<1> DEFINE a == OutQ(r)
<1>1. QueuesInv /\ Genuine
  BY DEF OrderInv, StreamInv
<1>2. /\ Taken(a, chan) /\ Head(Queue[a]) = Head(outq[r]) /\ HandledBy(a, r)
      /\ DeliverElsewhere(r, Head(Queue[a]), chan)
  BY StartSendTakes DEF HandledBy
<1>3. /\ ~exited[r] /\ UNCHANGED <<announced, consoleSent, fromOpen, exited, deferred>>
      /\ UNCHANGED <<portVars, doneReceived>>
  BY DEF StartSend, InLoop, consoleVars, loopVars
<1>4. \A s \in Ranks : \A i \in deferred'[s] : i \in deferred[s] /\ i \in Ranks /\ Chan(i, s) # a
  BY <1>3 DEF TypeOK, MpiTypes, Chan, OutQ
<1>5. Head(Queue[a]).to # r
  <2>1. a \in Places /\ Queue[a] # <<>>
    BY <1>2 DEF Taken
  <2>2. /\ OnRoute(a, Head(Queue[a]).from, Head(Queue[a]).to)
        /\ Head(Queue[a]).from # Head(Queue[a]).to
    BY <1>1, <2>1, HeadFacts
  <2>3. Head(Queue[a]).from = r
    BY <2>2, AtOutQ
  <2>4. QED
    BY <2>2, <2>3
<1> HIDE DEF a
<1>6. Deliver(r, Head(Queue[a]), chan)
  BY <1>2, <1>3, <1>5 DEF Deliver
<1>7. QED
  BY <1>2, <1>3, <1>4, <1>6, DeliverRouter

\* A packet from MPI (dcmpiruntime.cpp:624-710).
LEMMA ReceiveRouter ==
  ASSUME TypeOK, OrderInv, RouterInv, NEW i \in Ranks, NEW r \in Ranks, Receive(i, r)
  PROVE  RouterInv'
<1> DEFINE a == Chan(i, r)
           ch == [chan EXCEPT ![i][r] = Tail(@)]
<1>1. Taken(a, ch) /\ Head(Queue[a]) = Head(chan[i][r]) /\ Deliver(r, Head(chan[i][r]), ch)
  BY ReceiveTakes
<1>2. HandledBy(a, r)
  BY DEF HandledBy
<1>3. /\ ~exited[r] /\ UNCHANGED <<announced, consoleSent, fromOpen, exited>>
      /\ deferred' = [deferred EXCEPT ![r] = @ \ {i}]
  BY DEF Receive, InLoop, consoleVars, loopVars
<1>4. ASSUME NEW s \in Ranks, NEW j \in deferred'[s]
      PROVE  j \in deferred[s] /\ j \in Ranks /\ Chan(j, s) # a
  <2>1. deferred \in [Ranks -> SUBSET Ranks]
    BY DEF TypeOK, MpiTypes
  <2>2. j \in deferred[s] /\ ~(s = r /\ j = i)
    BY <1>3, <1>4, <2>1
  <2>3. QED
    BY <2>1, <2>2 DEF Chan
<1> HIDE DEF a, ch
<1>5. Deliver(r, Head(Queue[a]), ch)
  BY <1>1
<1>6. QED
  BY <1>1, <1>2, <1>3, <1>4, <1>5, DeliverRouter

\* A packet from the console's bridge.
LEMMA HandleConsoleRouter ==
  ASSUME TypeOK, OrderInv, RouterInv, NEW r \in Ranks, HandleConsole(r)
  PROVE  RouterInv'
<1> DEFINE a == FromConsole
<1>1. /\ Taken(a, chan) /\ Head(Queue[a]) = Head(fromConsole)
      /\ Deliver(r, Head(fromConsole), chan)
  BY HandleConsoleTakes
<1>2. HandledBy(a, r)
  BY DEF HandledBy, HandleConsole
<1>3. ~exited[r] /\ UNCHANGED <<announced, consoleSent, fromOpen, exited, deferred>>
  BY DEF HandleConsole, InLoop, loopVars
<1>4. \A s \in Ranks : \A i \in deferred'[s] : i \in deferred[s] /\ i \in Ranks /\ Chan(i, s) # a
  BY <1>3 DEF TypeOK, MpiTypes, Chan, FromConsole
<1> HIDE DEF a
<1>5. Deliver(r, Head(Queue[a]), chan)
  BY <1>1
<1>6. QED
  BY <1>1, <1>2, <1>3, <1>4, <1>5, DeliverRouter

\* A packet from the proxy of the cluster.
LEMMA HandleProxyRouter ==
  ASSUME TypeOK, OrderInv, RouterInv, NEW r \in Ranks, HandleProxy(r)
  PROVE  RouterInv'
<1> DEFINE c == ClusterOf[r]
           a == ProxyIn(c)
<1>1. /\ Taken(a, chan) /\ Head(Queue[a]) = Head(proxyIn[c])
      /\ Deliver(r, Head(proxyIn[c]), chan)
  BY HandleProxyTakes
<1>2. HandledBy(a, r)
  BY DEF HandledBy, HandleProxy
<1>3. ~exited[r] /\ UNCHANGED <<announced, consoleSent, fromOpen, exited, deferred>>
  BY DEF HandleProxy, InLoop, consoleVars, loopVars
<1>4. \A s \in Ranks : \A i \in deferred'[s] : i \in deferred[s] /\ i \in Ranks /\ Chan(i, s) # a
  BY <1>3 DEF TypeOK, MpiTypes, Chan, ProxyIn
<1> HIDE DEF a, c
<1>5. Deliver(r, Head(Queue[a]), chan)
  BY <1>1
<1>6. QED
  BY <1>1, <1>2, <1>3, <1>4, <1>5, DeliverRouter
-----------------------------------------------------------------------------
(* The bridges and the links between clusters                              *)

\* The bridge of rank 0 that writes to the console.
LEMMA ToConsoleRouter ==
  ASSUME TypeOK, OrderInv, RouterInv, ToConsoleThread
  PROVE  RouterInv'
<1>1. PICK p : p = Head(toConsole)
  OBVIOUS
<1>2. QueuesInv /\ Genuine
  BY DEF OrderInv, StreamInv
<1>3. /\ ToConsole \in Places /\ Queue[ToConsole] = toConsole /\ toConsole # <<>>
      /\ TakeStep(ToConsole)
  BY ToConsoleThreadTakes
<1>4. /\ UNCHANGED <<announced, consoleSent, fromOpen, exited, deferred, routed, doneReceived>>
  BY DEF ToConsoleThread, consoleVars, loopVars, countVars
<1>5. /\ Flying' = Flying \ {p} /\ \A q \in Flying : ~Before(q, p)
      /\ p.to = Console
  BY <1>1, <1>2, ToConsoleThreadKeeps
<1>6. /\ OnRoute(ToConsole, p.from, Console) /\ p.from \in AllNodes /\ Console \in AllNodes
  BY <1>1, <1>2, <1>3, <1>5, HeadFacts
<1>7. \A i, j \in Nodes : i # j => (SentTo(i, j)' <=> SentTo(i, j))
  BY <1>4, SentKept
<1>8. RoutedInv'
  <2>1. ReceivedAt(ToConsole, Console)
    BY DEF ReceivedAt
  <2>2. \A s \in Ranks : Passes(s, p.from, p.to) => Near(ToConsole, s, p.to)
    BY <1>3, <1>5, <1>6, <2>1, ReceivedIsNear
  <2>3. QED
    BY <1>1, <1>2, <1>3, <1>4, <1>7, <2>2, RoutedTake DEF RouterInv
<1>9. DrainedInv'
  BY <1>2, <1>5, <1>7, DrainedQuiet DEF RouterInv
<1>10. CloseInv'
  BY <1>4, <1>5, CloseKept DEF RouterInv
<1>11. DeferredInv'
  <2>1. \A i, s \in Ranks : Chan(i, s) # ToConsole
    BY DEF Chan, ToConsole
  <2>2. \A i, s \in Ranks : chan[i][s] # <<>> => chan'[i][s] # <<>>
    BY <1>3, <2>1, ChannelsKept
  <2>3. deferred \in [Ranks -> SUBSET Ranks]
    BY DEF TypeOK, MpiTypes
  <2>4. QED
    BY <1>4, <2>2, <2>3, DeferredKept DEF RouterInv
<1>12. GoneInv'
  BY <1>4, GoneKept DEF RouterInv
<1>13. QED
  BY <1>8, <1>9, <1>10, <1>11, <1>12 DEF RouterInv

\* The thread that writes to a cluster's proxy.
LEMMA ProxyWriterRouter ==
  ASSUME TypeOK, OrderInv, RouterInv, NEW c \in Clusters, ProxyWriter(c)
  PROVE  RouterInv'
<1>1. PICK p : p = Head(toProxy[c])
  OBVIOUS
<1>2. PICK d : d = ClusterRank(p.to)
  OBVIOUS
<1>3. QueuesInv /\ Genuine
  BY DEF OrderInv, StreamInv
<1>4. /\ ToProxy(c) \in Places /\ Queue[ToProxy(c)] = toProxy[c] /\ toProxy[c] # <<>>
      /\ MoveStep(ToProxy(c), ProxyIn(d))
  BY <1>1, <1>2, <1>3, ProxyWriterMoves
<1>5. UNCHANGED <<announced, consoleSent, fromOpen, exited, deferred, routed, doneReceived>>
  BY DEF ProxyWriter, consoleVars, loopVars, countVars
<1>6. Flying' = Flying
  BY <1>3, ProxyWriterKeeps
<1>7. \A i, j \in Nodes : i # j => (SentTo(i, j)' <=> SentTo(i, j))
  BY <1>5, SentKept
<1>8. RoutedInv'
  <2>1. p.to \in AllNodes /\ d \in Clusters
    BY <1>1, <1>2, <1>3, <1>4, HeadFacts, Gateways
  <2>2. ASSUME NEW i \in Nodes, NEW j \in Nodes, NEW s \in Ranks, Passes(s, i, j)
        PROVE  Near(ProxyIn(d), s, j) <=> Near(ToProxy(c), s, j)
    <3>1. i \in AllNodes /\ j \in AllNodes
      BY DEF Nodes, AllNodes
    <3>2. QED
      BY <2>1, <2>2, <3>1, LinksPassNone DEF Near
  <2>3. p = Head(Queue[ToProxy(c)])
    BY <1>1, <1>4
  <2>4. QED
    BY <1>3, <1>4, <1>5, <1>7, <2>2, <2>3, RoutedSame DEF RouterInv
<1>9. DrainedInv'
  BY <1>3, <1>6, <1>7, DrainedQuiet DEF RouterInv
<1>10. CloseInv'
  BY <1>5, <1>6, CloseKept DEF RouterInv
<1>11. DeferredInv'
  <2>1. \A i, s \in Ranks : Chan(i, s) # ToProxy(c)
    BY DEF Chan, ToProxy
  <2>2. \A i, s \in Ranks : chan[i][s] # <<>> => chan'[i][s] # <<>>
    BY <1>4, <2>1, ChannelsKept
  <2>3. deferred \in [Ranks -> SUBSET Ranks]
    BY DEF TypeOK, MpiTypes
  <2>4. QED
    BY <1>5, <2>2, <2>3, DeferredKept DEF RouterInv
<1>12. GoneInv'
  BY <1>5, GoneKept DEF RouterInv
<1>13. QED
  BY <1>8, <1>9, <1>10, <1>11, <1>12 DEF RouterInv

\* The bridge of rank 0 that reads from the console.
LEMMA FromConsoleRouter ==
  ASSUME TypeOK, OrderInv, RouterInv, FromConsoleThread
  PROVE  RouterInv'
<1>1. PICK p : p = Head(consoleOut)
  OBVIOUS
<1>2. QueuesInv /\ Genuine
  BY DEF OrderInv, StreamInv
<1>3. /\ ConsoleOut \in Places /\ Queue[ConsoleOut] = consoleOut /\ consoleOut # <<>>
      /\ p.type # "CLOSE" => MoveStep(ConsoleOut, FromConsole)
      /\ p.type = "CLOSE" => TakeStep(ConsoleOut)
  BY <1>1, <1>2, FromConsoleThreadMoves
<1>4. /\ UNCHANGED <<announced, consoleSent, exited, deferred, routed, doneReceived>>
      /\ fromOpen' = (fromOpen /\ p.type # "CLOSE")
  BY <1>1 DEF FromConsoleThread, loopVars, countVars
<1>5. /\ p \in Flying
      /\ p.type # "CLOSE" => Flying' = Flying
      /\ p.type = "CLOSE" => p = Close /\ Flying' = Flying \ {Close} /\ (ConsolePresent => consoleSent)
  BY <1>1, <1>2, FromConsoleThreadKeeps, GenuineKinds
<1>6. \A i, j \in Nodes : i # j => (SentTo(i, j)' <=> SentTo(i, j))
  BY <1>4, SentKept
<1>7. p = Head(Queue[ConsoleOut])
  BY <1>1, <1>3
<1>8. RoutedInv'
  <2>1. CASE p.type = "CLOSE"
    BY <1>2, <1>3, <1>4, <1>6, <1>7, <2>1, RoutedTake DEF RouterInv
  <2>2. CASE p.type # "CLOSE"
    <3>1. ASSUME NEW i \in Nodes, NEW j \in Nodes, NEW s \in Ranks, Passes(s, i, j)
          PROVE  Near(FromConsole, s, j) <=> Near(ConsoleOut, s, j)
      <4>1. i \in AllNodes /\ j \in AllNodes
        BY DEF Nodes, AllNodes
      <4>2. PICK k : k = Stage(HopPlace(s, j), j)
        OBVIOUS
      <4>3. k \in {2, 4} /\ Stage(ConsoleOut, j) = 6 /\ Stage(FromConsole, j) = 5
        BY <3>1, <4>1, <4>2, LinksPassNone, AtConsole
      <4>4. QED
        BY <4>2, <4>3 DEF Near
    <3>2. QED
      BY <1>2, <1>3, <1>4, <1>6, <1>7, <2>2, <3>1, RoutedSame DEF RouterInv
  <2>3. QED
    BY <2>1, <2>2
<1>9. DrainedInv'
  <2>1. \A m, n : AllDone(m, n) # Close
    BY DoneFields
  <2>2. Flying' = Flying \/ Flying' = Flying \ {Close}
    BY <1>5
  <2>3. QED
    BY <1>2, <1>6, <2>1, <2>2, DrainedQuiet DEF RouterInv
<1>10. CloseInv'
  BY <1>4, <1>5 DEF CloseInv, RouterInv
<1>11. DeferredInv'
  <2>1. \A i, s \in Ranks : Chan(i, s) # ConsoleOut
    BY DEF Chan, ConsoleOut
  <2>2. TakeStep(ConsoleOut) \/ \E b : MoveStep(ConsoleOut, b)
    BY <1>3
  <2>3. \A i, s \in Ranks : chan[i][s] # <<>> => chan'[i][s] # <<>>
    BY <2>1, <2>2, ChannelsKept
  <2>4. deferred \in [Ranks -> SUBSET Ranks]
    BY DEF TypeOK, MpiTypes
  <2>5. QED
    BY <1>4, <2>3, <2>4, DeferredKept DEF RouterInv
<1>12. GoneInv'
  BY <1>4, GoneKept DEF RouterInv
<1>13. QED
  BY <1>8, <1>9, <1>10, <1>11, <1>12 DEF RouterInv

-----------------------------------------------------------------------------
(* Filters and announcements                                               *)

\* Steps that move no packet.
LEMMA KeepRouter ==
  ASSUME TypeOK, OrderInv, RouterInv, KeepStep,
         \A i, j \in Nodes : i # j => (SentTo(i, j)' <=> SentTo(i, j)),
         UNCHANGED <<routed, fromOpen, consoleSent>>, DeferredInv', GoneInv'
  PROVE  RouterInv'
<1>1. QueuesInv /\ Genuine
  BY DEF OrderInv, StreamInv
<1>2. Flying' = Flying
  BY <1>1, KeepKeeps
<1>3. \A x \in Places : \A i, j : At(x, AllDone(i, j))' <=> At(x, AllDone(i, j))
  BY AtKeep
<1>4. RoutedInv'
  BY <1>3, RoutedQuiet DEF RouterInv
<1>5. DrainedInv'
  BY <1>1, <1>2, DrainedQuiet DEF RouterInv
<1>6. CloseInv'
  BY <1>2, CloseKept DEF RouterInv
<1>7. QED
  BY <1>4, <1>5, <1>6 DEF RouterInv

\* Steps that touch no queue and none of what the invariant is about.
LEMMA RestRouter ==
  ASSUME TypeOK, OrderInv, RouterInv,
         \/ \E w, g : FilterBlock(w, g)
         \/ \E f \in Filters : FilterRead(f) \/ FilterReturn(f) \/ FilterErase(f)
         \/ \E r \in Ranks : CheckFilters(r) \/ \E p \in pending[r] : FinishSend(r, p)
         \/ CloseConsole \/ UNCHANGED vars
  PROVE  RouterInv'
<1>1. /\ UNCHANGED <<outq, consoleOut, toConsole, toProxy, chan, fromConsole, proxyIn>>
      /\ UNCHANGED <<announced, consoleSent, fromOpen, exited, deferred, routed, doneReceived>>
  BY DEF FilterBlock, FilterRead, FilterReturn, FilterErase, CheckFilters, FinishSend,
         CloseConsole, vars, mpiVars, consoleVars, loopVars, countVars
<1>2. KeepStep
  BY <1>1, NoPlaceTouched
<1>3. \A i, j \in Nodes : i # j => (SentTo(i, j)' <=> SentTo(i, j))
  BY <1>1, SentKept
<1>4. DeferredInv'
  BY <1>1 DEF RouterInv, DeferredInv
<1>5. GoneInv'
  BY <1>1, GoneKept DEF RouterInv
<1>6. QED
  BY <1>1, <1>2, <1>3, <1>4, <1>5, KeepRouter

\* A receive that waits for memory leaves its packet in the channel.
LEMMA DeferRouter ==
  ASSUME TypeOK, OrderInv, RouterInv, NEW i \in Ranks, NEW r \in Ranks, Defer(i, r)
  PROVE  RouterInv'
<1>1. /\ UNCHANGED <<outq, consoleOut, toConsole, toProxy, chan, fromConsole, proxyIn>>
      /\ UNCHANGED <<announced, consoleSent, fromOpen, exited, routed, doneReceived>>
      /\ deferred' = [deferred EXCEPT ![r] = @ \cup {i}] /\ chan[i][r] # <<>>
  BY DEF Defer, mpiVars, consoleVars, loopVars, countVars
<1>2. KeepStep
  BY <1>1, NoPlaceTouched
<1>3. \A m, n \in Nodes : m # n => (SentTo(m, n)' <=> SentTo(m, n))
  BY <1>1, SentKept
<1>4. DeferredInv'
  <2>1. deferred \in [Ranks -> SUBSET Ranks]
    BY DEF TypeOK, MpiTypes
  <2>2. \A s \in Ranks : \A j \in deferred'[s] : j \in deferred[s] \/ (s = r /\ j = i)
    BY <1>1, <2>1
  <2>3. QED
    BY <1>1, <2>2 DEF RouterInv, DeferredInv
<1>5. GoneInv'
  BY <1>1, GoneKept DEF RouterInv
<1>6. QED
  BY <1>1, <1>2, <1>3, <1>4, <1>5, KeepRouter

\* A rank leaves its main loop.
LEMMA ExitRouter ==
  ASSUME TypeOK, OrderInv, RouterInv, NEW r \in Ranks, Exit(r)
  PROVE  RouterInv'
<1>1. /\ UNCHANGED <<outq, consoleOut, toConsole, toProxy, chan, fromConsole, proxyIn>>
      /\ UNCHANGED <<announced, consoleSent, fromOpen, deferred, routed, doneReceived>>
      /\ exited' = [exited EXCEPT ![r] = TRUE]
  BY DEF Exit, mpiVars, consoleVars, countVars
<1>2. KeepStep
  BY <1>1, NoPlaceTouched
<1>3. \A m, n \in Nodes : m # n => (SentTo(m, n)' <=> SentTo(m, n))
  BY <1>1, SentKept
<1>4. DeferredInv'
  BY <1>1 DEF RouterInv, DeferredInv
<1>5. GoneInv'
  <2>1. \A s \in Ranks : exited'[s] => exited[s] \/ s = r
    BY <1>1 DEF TypeOK, LoopTypes
  <2>2. /\ SentDone(r) /\ ~Announcing(r) /\ doneReceived[r] = NumDoneExpected
        /\ routed[r] = ToRoute(r) /\ (r = 0 => ~fromOpen)
    BY DEF Exit, InLoop, HandlesConsole
  <2>3. \A s \in Ranks : (SentDone(s)' <=> SentDone(s)) /\ (Announcing(s)' <=> Announcing(s))
    BY <1>1 DEF SentDone, Announcing
  <2>4. QED
    BY <1>1, <2>1, <2>2, <2>3 DEF RouterInv, GoneInv
<1>6. QED
  BY <1>1, <1>2, <1>3, <1>4, <1>5, KeepRouter

\* A rank starts to announce: it has sent no done packet yet.
LEMMA AnnounceRouter ==
  ASSUME TypeOK, OrderInv, RouterInv, NEW r \in Ranks, Announce(r)
  PROVE  RouterInv'
<1>1. /\ UNCHANGED <<outq, consoleOut, toConsole, toProxy, chan, fromConsole, proxyIn>>
      /\ UNCHANGED <<consoleSent, fromOpen, exited, deferred, routed, doneReceived>>
      /\ ~exited[r] /\ ~SentDone(r) /\ announced' = [announced EXCEPT ![r] = FirstAnnounced(r)]
  BY DEF Announce, InLoop, mpiVars, consoleVars, countVars
<1>2. KeepStep
  BY <1>1, NoPlaceTouched
<1>3. /\ announced'[r] = FirstAnnounced(r)
      /\ \A m \in Ranks \ {r} : announced'[m] = announced[m]
  BY <1>1 DEF TypeOK, LoopTypes
<1>4. r # Console /\ \A m \in Nodes : m # Console => m \in Ranks
  BY Gateways DEF Nodes
<1>5. \A m, n \in Nodes : m # r => (SentTo(m, n)' <=> SentTo(m, n))
  BY <1>1, <1>3, <1>4 DEF SentTo, SentDone
<1>6. ASSUME NEW n \in Nodes \ {r}
      PROVE  ~SentTo(r, n)' /\ ~SentTo(r, n)
  <2>1. FirstAnnounced(r) = IF ConsolePresent THEN -1 ELSE IF r = 0 THEN 1 ELSE 0
    BY DEF FirstAnnounced, NextAnnounced, Console, Ranks
  <2>2. n \in Nat \/ (n = -1 /\ ConsolePresent)
    BY RanksAssumption DEF Nodes, Ranks, Console
  <2>3. ~(n < FirstAnnounced(r))
    BY <2>1, <2>2
  <2>4. QED
    BY <1>1, <1>3, <1>4, <2>3 DEF SentTo
<1>7. \A m, n \in Nodes : m # n => (SentTo(m, n)' <=> SentTo(m, n))
  BY <1>5, <1>6
<1>8. DeferredInv'
  BY <1>1 DEF RouterInv, DeferredInv
<1>9. GoneInv'
  <2>1. \A s \in Ranks : exited'[s] => announced'[s] = announced[s]
    BY <1>1, <1>3
  <2>2. QED
    BY <1>1, <2>1, GoneKept DEF RouterInv
<1>10. QED
  BY <1>1, <1>2, <1>7, <1>8, <1>9, KeepRouter

\* A packet that is new somewhere.
LEMMA PutFlies ==
  ASSUME TypeOK, NEW b, NEW p, PutStep(b, p)
  PROVE  \A q : q \in Flying' <=> q \in Flying \/ q = p
<1>1. \A x \in Places : \A q : At(x, q)' <=> At(x, q) \/ (x = b /\ q = p)
  BY AtPut
<1>2. b \in Places
  BY DEF PutStep
<1>3. \A q : (q \in Flying <=> \E x \in Places : At(x, q)) /\ (q \in Flying' <=> \E x \in Places : At(x, q)')
  BY FlyingAt DEF At
<1>4. QED
  BY <1>1, <1>2, <1>3

\* A filter that runs puts a buffer or an end on its way: its node has sent no
\* done packet.
LEMMA FilterPuts ==
  ASSUME TypeOK, QuietInv, OrderInv, RouterInv, NEW w \in Filters, status[w] # "erased",
         NEW b, NEW p, PutStep(b, p), IsOfStream(p), p.from = HostOf[w],
         UNCHANGED <<announced, consoleSent, fromOpen, exited, deferred, routed, doneReceived>>
  PROVE  RouterInv'
<1>1. QueuesInv /\ Genuine
  BY DEF OrderInv, StreamInv
<1>2. \A q : q \in Flying' <=> q \in Flying \/ q = p
  BY PutFlies
<1>3. \A m, n : SentTo(m, n)' <=> SentTo(m, n)
  BY SentKept
<1>4. Close # p /\ \A m, n : AllDone(m, n) # p
  BY DoneIsNotOfStream
<1>5. RoutedInv'
  <2>1. \A x \in Places : \A m, n : At(x, AllDone(m, n))' <=> At(x, AllDone(m, n))
    BY <1>4, AtPut
  <2>2. QED
    BY <1>3, <2>1, RoutedQuiet DEF RouterInv
<1>6. DrainedInv'
  <2>1. ~SentTo(p.from, p.to)
    BY WriterIsNotDone DEF OrderInv
  <2>2. \A q \in Flying' : IsOfStream(q) => q \in Flying \/ ~SentTo(q.from, q.to)'
    BY <1>2, <1>3, <2>1
  <2>3. \A m, n : AllDone(m, n) \in Flying => AllDone(m, n) \in Flying'
    BY <1>2
  <2>4. QED
    BY <1>1, <1>3, <2>2, <2>3, DrainedKept DEF RouterInv
<1>7. CloseInv'
  BY <1>2, <1>4, CloseKept DEF RouterInv
<1>8. DeferredInv'
  <2>1. \A i, r \in Ranks : Chan(i, r) # ToConsole
    BY DEF Chan, ToConsole
  <2>2. \A i, r \in Ranks : chan[i][r] # <<>> => chan'[i][r] # <<>>
    BY <2>1, ChannelsKept
  <2>3. deferred \in [Ranks -> SUBSET Ranks]
    BY DEF TypeOK, MpiTypes
  <2>4. QED
    BY <2>2, <2>3, DeferredKept DEF RouterInv
<1>9. GoneInv'
  BY GoneKept DEF RouterInv
<1>10. QED
  BY <1>5, <1>6, <1>7, <1>8, <1>9 DEF RouterInv

\* A filter that writes or closes is not over, so its node has announced nothing.
LEMMA FilterRouter ==
  ASSUME TypeOK, QuietInv, OrderInv, RouterInv, NEW w \in Filters, NEW g \in Filters,
         FilterWrite(w, g) \/ FilterClose(w, g)
  PROVE  RouterInv'
<1>1. /\ status[w] # "erased" /\ UNCHANGED <<chan, fromConsole, proxyIn>>
      /\ UNCHANGED <<announced, consoleSent, fromOpen, exited, deferred, routed, doneReceived>>
  BY DEF FilterWrite, FilterClose, loopVars, countVars
<1>2. \/ UNCHANGED <<outq, consoleOut, toConsole, toProxy>>
      \/ \E p : /\ PutPacket(HostOf[w], p)
                /\ p = RemovePutter(w, g) \/ p = DcBuf(w, g, wrote[<<w, g>>] + 1)
  BY DEF FilterWrite, FilterClose
<1>3. CASE UNCHANGED <<outq, consoleOut, toConsole, toProxy>>
  <2>1. KeepStep
    BY <1>1, <1>3, NoPlaceTouched
  <2>2. \A i, j \in Nodes : i # j => (SentTo(i, j)' <=> SentTo(i, j))
    BY <1>1, SentKept
  <2>3. DeferredInv'
    BY <1>1 DEF RouterInv, DeferredInv
  <2>4. GoneInv'
    BY <1>1, GoneKept DEF RouterInv
  <2>5. QED
    BY <1>1, <2>1, <2>2, <2>3, <2>4, KeepRouter
<1>4. ASSUME NEW p, PutPacket(HostOf[w], p),
             p = RemovePutter(w, g) \/ p = DcBuf(w, g, wrote[<<w, g>>] + 1)
      PROVE  RouterInv'
  <2>1. IsOfStream(p) /\ p.from = HostOf[w] /\ p.reader = g
    BY <1>4, PacketHosts DEF IsOfStream
  <2>2. HostOf[w] \in AllNodes /\ HostOf[g] \in AllNodes
    BY Topology
  <2>3. PICK b : b = WriterPlace(HostOf[w], HostOf[g])
    OBVIOUS
  <2>4. PutStep(b, p)
    BY <1>1, <1>4, <2>1, <2>2, <2>3, PutPacketPuts
  <2>5. QED
    BY <1>1, <2>1, <2>4, FilterPuts
<1>5. QED
  BY <1>2, <1>3, <1>4

\* One round of the announcements: the next node, and no other, is told.
LEMMA AnnounceNextSends ==
  ASSUME TypeOK, NEW r \in Ranks, AnnounceNext(r), NEW n, n = announced[r]
  PROVE  /\ n \in Nodes /\ n # r /\ ~SentTo(r, n)
         /\ \A m, k \in Nodes : m # k => (SentTo(m, k)' <=> SentTo(m, k) \/ (m = r /\ k = n))
<1>1. /\ consoleSent' = consoleSent /\ Announcing(r)
      /\ announced' = [announced EXCEPT ![r] = NextAnnounced(r, @)]
  BY DEF AnnounceNext, consoleVars
<1>2. n \in Nodes /\ n # r /\ SentDone(r) /\ ~SentTo(r, n)
  BY <1>1, AnnouncingFacts
<1>3. /\ announced'[r] = NextAnnounced(r, n)
      /\ \A m \in Ranks \ {r} : announced'[m] = announced[m]
  BY <1>1 DEF TypeOK, LoopTypes
<1>4. r # Console /\ \A m \in Nodes : m # Console => m \in Ranks
  BY Gateways DEF Nodes
<1>5. \A m, k \in Nodes : m # r => (SentTo(m, k)' <=> SentTo(m, k))
  BY <1>1, <1>3, <1>4 DEF SentTo, SentDone
<1>6. \A k \in Nodes \ {r} : SentTo(r, k)' <=> SentTo(r, k) \/ k = n
  <2>1. \A k \in Nodes : k \in Int
    BY RanksAssumption DEF Nodes, Ranks, Console
  <2>2. n \in Int /\ r \in Int /\ n >= -1
    BY <1>2, RanksAssumption DEF Nodes, Ranks, Console
  <2>3. \A k \in Nodes \ {r} : k < NextAnnounced(r, n) <=> k < n \/ k = n
    BY <2>1, <2>2 DEF NextAnnounced
  <2>4. NextAnnounced(r, n) # NotAnnounced
    BY <2>2 DEF NextAnnounced, NotAnnounced
  <2>5. QED
    BY <1>2, <1>3, <1>4, <2>3, <2>4 DEF SentTo, SentDone
<1>7. QED
  BY <1>2, <1>5, <1>6

\* One round of the announcements.
LEMMA AnnounceNextRouter ==
  ASSUME TypeOK, QuietInv, OrderInv, RouterInv, NEW r \in Ranks, AnnounceNext(r)
  PROVE  RouterInv'
<1>1. PICK n : n = announced[r]
  OBVIOUS
<1>2. PICK p : p = AllDone(r, n)
  OBVIOUS
<1>3. PICK b : b = HopPlace(r, n)
  OBVIOUS
<1>4. QueuesInv /\ Genuine /\ AnnouncedIsIdle
  BY DEF OrderInv, StreamInv, QuietInv
<1>5. /\ UNCHANGED <<consoleSent, fromOpen, exited, deferred, doneReceived>>
      /\ ~exited[r] /\ announced' = [announced EXCEPT ![r] = NextAnnounced(r, @)]
      /\ DeliverElsewhere(r, p, chan)
  BY <1>1, <1>2 DEF AnnounceNext, consoleVars
<1>6. PutStep(b, p)
  BY <1>1, <1>2, <1>3, <1>4, AnnounceNextPuts
<1>7. /\ n \in Nodes /\ n # r /\ ~SentTo(r, n)
      /\ \A m, k \in Nodes : m # k => (SentTo(m, k)' <=> SentTo(m, k) \/ (m = r /\ k = n))
  BY <1>1, AnnounceNextSends
<1>8. /\ \A m, k : AllDone(m, k) = p <=> m = r /\ k = n
      /\ ~IsOfStream(p) /\ p # Close /\ p.from = r
  BY <1>2, DoneFields, DoneIsNotOfStream
<1>9. \A q : q \in Flying' <=> q \in Flying \/ q = p
  BY <1>6, PutFlies
<1>10. RoutedInv'
  <2>1. routed' = routed
    BY <1>5, <1>8 DEF DeliverElsewhere
  <2>2. ASSUME NEW s \in Ranks, NEW x \in Pairs(s)
        PROVE  SentTo(x[1], x[2])' /\ Behind(s, x[1], x[2])'
                 <=> SentTo(x[1], x[2]) /\ Behind(s, x[1], x[2])
    <3>1. PICK i, j : i = x[1] /\ j = x[2]
      OBVIOUS
    <3>2. i \in Nodes /\ j \in Nodes /\ i # j /\ Passes(s, i, j) /\ j \in AllNodes
      BY <3>1, PairParts
    <3>3. CASE i = r /\ j = n
      <4>1. Stage(b, n) > Stage(HopPlace(s, n), n)
        BY <1>3, <3>2, <3>3, OriginIsBefore
      <4>2. b \in Places /\ At(b, p)'
        BY <1>6, AtPut DEF PutStep
      <4>3. Stage(b, n) \in Nat /\ Stage(HopPlace(s, n), n) \in Nat
        <5>1. Stage(HopPlace(s, n), n) \in {2, 4}
          BY <3>2, <3>3, Gateways, LinksPassNone
        <5>2. QED
          BY <4>2, <5>1, StageTyped
      <4>4. ~(Stage(b, n) <= Stage(HopPlace(s, n), n))
        BY <4>1, <4>3
      <4>5. ~Behind(s, r, n)'
        BY <1>2, <4>2, <4>4 DEF Behind
      <4>6. QED
        BY <1>7, <3>1, <3>3, <4>5
    <3>4. CASE ~(i = r /\ j = n)
      <4>1. \A y \in Places : At(y, AllDone(i, j))' <=> At(y, AllDone(i, j))
        BY <1>6, <1>8, <3>4, AtPut
      <4>2. Behind(s, i, j)' <=> Behind(s, i, j)
        BY <4>1 DEF Behind
      <4>3. SentTo(i, j)' <=> SentTo(i, j)
        BY <1>7, <3>2, <3>4
      <4>4. QED
        BY <3>1, <4>2, <4>3
    <3>5. QED
      BY <3>3, <3>4
  <2>3. QED
    BY <2>1, <2>2, RoutedKept DEF RouterInv
<1>11. DrainedInv'
  <2>1. \A q \in Flying' : IsOfStream(q) => q \in Flying
    BY <1>8, <1>9
  <2>2. \A m, k \in Nodes : m # k /\ SentTo(m, k)' => SentTo(m, k) \/ AllDone(m, k) \in Flying'
    BY <1>7, <1>8, <1>9
  <2>3. \A m, k : AllDone(m, k) \in Flying => AllDone(m, k) \in Flying'
    BY <1>9
  <2>4. QED
    BY <1>4, <2>1, <2>2, <2>3, DrainedKept DEF RouterInv
<1>12. CloseInv'
  BY <1>5, <1>8, <1>9, CloseKept DEF RouterInv
<1>13. DeferredInv'
  <2>1. \A i, s \in Ranks : Chan(i, s) # ToConsole
    BY DEF Chan, ToConsole
  <2>2. \A i, s \in Ranks : chan[i][s] # <<>> => chan'[i][s] # <<>>
    BY <1>6, <2>1, ChannelsKept
  <2>3. deferred \in [Ranks -> SUBSET Ranks]
    BY DEF TypeOK, MpiTypes
  <2>4. QED
    BY <1>5, <2>2, <2>3, DeferredKept DEF RouterInv
<1>14. GoneInv'
  <2>1. \A s \in Ranks : exited'[s] => announced'[s] = announced[s]
    BY <1>5 DEF TypeOK, LoopTypes
  <2>2. routed' = routed
    BY <1>5, <1>8 DEF DeliverElsewhere
  <2>3. QED
    BY <1>5, <2>1, <2>2, GoneKept DEF RouterInv
<1>15. QED
  BY <1>10, <1>11, <1>12, <1>13, <1>14 DEF RouterInv

\* The console process tells every rank, and then CLOSE.
LEMMA ConsoleFinishRouter ==
  ASSUME TypeOK, OrderInv, RouterInv, ConsoleFinish
  PROVE  RouterInv'
<1>1. QueuesInv /\ Genuine
  BY DEF OrderInv, StreamInv
<1>2. /\ UNCHANGED <<outq, chan, toConsole, fromConsole, toProxy, proxyIn>>
      /\ UNCHANGED <<announced, fromOpen, exited, deferred, routed, doneReceived>>
      /\ ConsolePresent /\ ~consoleSent /\ consoleSent' = TRUE
  BY DEF ConsoleFinish, mpiVars, loopVars, countVars
<1>3. \A q : q \in Flying' <=> q \in Flying \/ q = Close \/ \E n \in Ranks : q = AllDone(Console, n)
  BY <1>1, ConsoleFinishKeeps
<1>4. \A n : ~SentTo(Console, n) /\ SentTo(Console, n)'
  BY <1>2 DEF SentTo
<1>5. \A m, n : m # Console => (SentTo(m, n)' <=> SentTo(m, n))
  BY <1>2 DEF SentTo, SentDone
<1>6. PICK k : k = Len(consoleOut)
  OBVIOUS
<1>7. /\ \A j \in DOMAIN consoleOut : j \in DOMAIN consoleOut' /\ consoleOut'[j] = consoleOut[j]
      /\ \A j \in DOMAIN consoleOut' :
           j \in DOMAIN consoleOut \/ consoleOut'[j] = Close
           \/ (j - k - 1 \in Ranks /\ consoleOut'[j] = AllDone(Console, j - k - 1))
      /\ \A n \in Ranks : /\ n + k + 1 \in DOMAIN consoleOut'
                          /\ consoleOut'[n + k + 1] = AllDone(Console, n)
  BY <1>6, ConsoleFinishPuts
<1>8. /\ ConsoleOut \in Places /\ Queue[ConsoleOut] = consoleOut /\ Queue'[ConsoleOut] = consoleOut'
  BY PlaceKinds, QueueAt, QueueNext
<1>9. \A n \in Ranks : At(ConsoleOut, AllDone(Console, n))'
  BY <1>7, <1>8 DEF At
<1>10. \A x \in Places : x # ConsoleOut => Queue'[x] = Queue[x]
  <2> SUFFICES ASSUME NEW x \in Places, x # ConsoleOut
               PROVE  Queue'[x] = Queue[x]
    OBVIOUS
  <2>1. CASE \E s \in Ranks : x = OutQ(s)
    BY <1>2, <2>1, QueueAt, QueueNext
  <2>2. CASE \E i, s \in Ranks : x = Chan(i, s)
    BY <1>2, <2>2, QueueAt, QueueNext
  <2>3. CASE x = ToConsole \/ x = FromConsole
    BY <1>2, <2>3, QueueAt, QueueNext
  <2>4. CASE (\E c \in Clusters : x = ToProxy(c)) \/ (\E c \in Clusters : x = ProxyIn(c))
    BY <1>2, <2>4, QueueAt, QueueNext
  <2>5. QED
    BY <2>1, <2>2, <2>3, <2>4, PlaceKinds
<1>11. ASSUME NEW i, NEW j, i # Console, NEW x \in Places
       PROVE  At(x, AllDone(i, j))' <=> At(x, AllDone(i, j))
  <2>1. AllDone(i, j) # Close /\ \A n : AllDone(i, j) # AllDone(Console, n)
    BY <1>11, DoneFields
  <2>2. PICK q : q = AllDone(i, j)
    OBVIOUS
  <2>3. CASE x = ConsoleOut
    <3>1. (\E l \in DOMAIN consoleOut' : consoleOut'[l] = q) <=> \E l \in DOMAIN consoleOut : consoleOut[l] = q
      BY <1>7, <2>1, <2>2
    <3>2. QED
      BY <1>8, <2>2, <2>3, <3>1 DEF At
  <2>4. CASE x # ConsoleOut
    BY <1>10, <2>4 DEF At
  <2>5. QED
    BY <2>3, <2>4
<1>12. RoutedInv'
  <2>1. ASSUME NEW s \in Ranks, NEW x \in Pairs(s)
        PROVE  SentTo(x[1], x[2])' /\ Behind(s, x[1], x[2])'
                 <=> SentTo(x[1], x[2]) /\ Behind(s, x[1], x[2])
    <3>1. PICK i, j : i = x[1] /\ j = x[2]
      OBVIOUS
    <3>2. i \in Nodes /\ j \in Nodes /\ i # j /\ Passes(s, i, j) /\ i \in AllNodes /\ j \in AllNodes
      BY <3>1, PairParts
    <3>3. CASE i = Console
      <4>1. j \in Ranks
        BY <3>2, <3>3, Gateways
      <4>2. PICK l : l = Stage(HopPlace(s, j), j)
        OBVIOUS
      <4>3. l \in {2, 4} /\ Stage(ConsoleOut, j) = 6
        BY <3>2, <4>2, LinksPassNone, AtConsole
      <4>4. ~Behind(s, Console, j)'
        BY <1>8, <1>9, <4>1, <4>2, <4>3 DEF Behind
      <4>5. QED
        BY <1>4, <3>1, <3>3, <4>4
    <3>4. CASE i # Console
      <4>1. Behind(s, i, j)' <=> Behind(s, i, j)
        BY <1>11, <3>4 DEF Behind
      <4>2. QED
        BY <1>5, <3>1, <3>4, <4>1
    <3>5. QED
      BY <3>3, <3>4
  <2>2. QED
    BY <1>2, <2>1, RoutedKept DEF RouterInv
<1>13. DrainedInv'
  <2>1. \A q \in Flying' : IsOfStream(q) => q \in Flying
    BY <1>3, DoneIsNotOfStream
  <2>2. \A m, n \in Nodes : m # n /\ SentTo(m, n)' => SentTo(m, n) \/ AllDone(m, n) \in Flying'
    BY <1>3, <1>5 DEF Nodes
  <2>3. \A m, n : AllDone(m, n) \in Flying => AllDone(m, n) \in Flying'
    BY <1>3
  <2>4. QED
    BY <1>1, <2>1, <2>2, <2>3, DrainedKept DEF RouterInv
<1>14. CloseInv'
  BY <1>2 DEF RouterInv, CloseInv
<1>15. DeferredInv'
  BY <1>2 DEF RouterInv, DeferredInv
<1>16. GoneInv'
  BY <1>2, GoneKept DEF RouterInv
<1>17. QED
  BY <1>12, <1>13, <1>14, <1>15, <1>16 DEF RouterInv

-----------------------------------------------------------------------------
(* The steps of the system                                                 *)

\* Every step keeps the invariant.
LEMMA NextRouter ==
  ASSUME TypeOK, QuietInv, OrderInv, RouterInv, [Next]_vars
  PROVE  RouterInv'
<1>1. ASSUME NEW s \in Streams,
             FilterBlock(s[1], s[2]) \/ FilterWrite(s[1], s[2]) \/ FilterClose(s[1], s[2])
      PROVE  RouterInv'
  <2>1. s[1] \in Filters /\ s[2] \in Filters
    BY StreamParts
  <2>2. CASE FilterBlock(s[1], s[2])
    BY <2>2, RestRouter
  <2>3. CASE FilterWrite(s[1], s[2]) \/ FilterClose(s[1], s[2])
    BY <2>1, <2>3, FilterRouter
  <2>4. QED
    BY <1>1, <2>2, <2>3
<1>2. ASSUME NEW f \in Filters, FilterRead(f) \/ FilterReturn(f) \/ FilterErase(f)
      PROVE  RouterInv'
  BY <1>2, RestRouter
<1>3. ASSUME NEW r \in Ranks,
             \/ CheckFilters(r) \/ Announce(r) \/ AnnounceNext(r) \/ Exit(r) \/ StartSend(r)
             \/ \E p \in pending[r] : FinishSend(r, p)
             \/ HandleConsole(r) \/ HandleProxy(r)
      PROVE  RouterInv'
  BY <1>3, RestRouter, AnnounceRouter, AnnounceNextRouter, ExitRouter, StartSendRouter,
     HandleConsoleRouter, HandleProxyRouter
<1>4. ASSUME NEW i \in Ranks, NEW r \in Ranks, Receive(i, r) \/ Defer(i, r)
      PROVE  RouterInv'
  BY <1>4, ReceiveRouter, DeferRouter
<1>5. ASSUME NEW c \in Clusters, ProxyWriter(c)
      PROVE  RouterInv'
  BY <1>5, ProxyWriterRouter
<1>6. CASE ToConsoleThread \/ CloseConsole \/ ConsoleFinish \/ FromConsoleThread
  BY <1>6, ToConsoleRouter, RestRouter, ConsoleFinishRouter, FromConsoleRouter
<1>7. CASE UNCHANGED vars
  BY <1>7, RestRouter
<1>8. CASE Idle
  BY <1>7, <1>8 DEF Idle
<1>9. QED
  BY <1>1, <1>2, <1>3, <1>4, <1>5, <1>6, <1>7, <1>8 DEF Next

\* It holds of every new job.
LEMMA InitRouter == Init => RouterInv
<1> SUFFICES ASSUME Init
             PROVE  RouterInv
  OBVIOUS
<1>1. \A m, n \in Nodes : ~SentTo(m, n)
  BY DEF Init, SentTo, SentDone, Nodes
<1>2. Genuine
  BY InitOrder DEF OrderInv, StreamInv
<1>3. RoutedInv
  <2>1. \A r \in Ranks : Passed(r) = {}
    BY <1>1, PairParts DEF Passed
  <2>2. QED
    BY <2>1, FS_EmptySet DEF Init, RoutedInv
<1>4. DrainedInv
  <2> SUFFICES ASSUME NEW p \in Flying, IsOfStream(p), SentTo(p.from, p.to)
               PROVE  FALSE
    BY DEF DrainedInv
  <2>1. /\ <<p.writer, p.reader>> \in Streams
        /\ p.from = HostOf[p.writer] /\ p.to = HostOf[p.reader]
    BY <1>2, GenuineKinds DEF IsOfStream
  <2>2. p.writer \in Filters /\ p.reader \in Filters
    BY <2>1, FiltersAssumption
  <2>3. p.from \in Nodes /\ p.to \in Nodes
    BY <2>1, <2>2, FiltersAssumption
  <2>4. QED
    BY <1>1, <2>3
<1>5. CloseInv
  BY DEF Init, CloseInv
<1>6. DeferredInv
  BY DEF Init, DeferredInv
<1>7. GoneInv
  BY DEF Init, GoneInv
<1>8. QED
  BY <1>3, <1>4, <1>5, <1>6, <1>7 DEF RouterInv

\* Every router has counted exactly the done packets that it has passed on and
\* every rank that has left still satisfies the conditions it left under
\* (dcmpiruntime.cpp:592-607): the inductive invariant of the routers.
THEOREM RouterInvariant == Spec => [](JobInv /\ RouterInv)
<1>1. Init => RouterInv
  BY InitRouter
<1>2. JobInv /\ RouterInv /\ [Next]_vars => RouterInv'
  BY NextRouter DEF JobInv
<1>3. QED
  BY <1>1, <1>2, JobInvariant, PTL DEF Spec

\* Subset of the same size.
LEMMA FullSubset ==
  ASSUME NEW S, NEW T, IsFiniteSet(S), T \subseteq S, Cardinality(T) = Cardinality(S)
  PROVE  T = S
<1>1. S \cap T = T
  OBVIOUS
<1>2. IsFiniteSet(S \ T) /\ Cardinality(S \ T) = Cardinality(S) - Cardinality(S \cap T)
  BY FS_Difference
<1>3. Cardinality(S) \in Nat
  BY FS_CardinalityType
<1>4. Cardinality(S \ T) = 0
  BY <1>1, <1>2, <1>3
<1>5. S \ T = {}
  BY <1>2, <1>4, FS_EmptySet
<1>6. QED
  BY <1>5

\* A rank that has left has got the done packet of every other node.
LEMMA GoneHeard ==
  ASSUME JobInv, RouterInv, NEW r \in Ranks, exited[r], NEW m \in Nodes, m # r
  PROVE  SentTo(m, r) /\ AllDone(m, r) \notin Flying
<1>1. Cardinality(Heard(r)) = Cardinality(Nodes) - 1
  BY DEF RouterInv, GoneInv, JobInv, OrderInv, DoneInv, NumDoneExpected
<1>2. r \in Nodes /\ IsFiniteSet(Nodes)
  BY NodesFinite DEF Nodes
<1>3. PICK S : S = Nodes \ {r}
  OBVIOUS
<1>4. IsFiniteSet(S) /\ Cardinality(S) = Cardinality(Nodes) - 1
  BY <1>2, <1>3, FS_RemoveElement
<1>5. Heard(r) \subseteq S
  BY <1>3 DEF Heard
<1>6. Heard(r) = S
  BY <1>1, <1>4, <1>5, FullSubset
<1>7. m \in Heard(r)
  BY <1>3, <1>6
<1>8. QED
  BY <1>7 DEF Heard

\* And every done packet on its way through it is past it.
LEMMA GonePassed ==
  ASSUME JobInv, RouterInv, NEW r \in Ranks, exited[r],
         NEW m \in Nodes, NEW n \in Nodes, Passes(r, m, n)
  PROVE  SentTo(m, n) /\ Behind(r, m, n)
<1>1. Cardinality(Passed(r)) = Cardinality(Pairs(r)) /\ IsFiniteSet(Pairs(r))
  BY ToRouteIsExact DEF RouterInv, GoneInv, RoutedInv
<1>2. Passed(r) \subseteq Pairs(r)
  BY DEF Passed
<1>3. Passed(r) = Pairs(r)
  BY <1>1, <1>2, FullSubset
<1>4. PICK x : x = <<m, n>>
  OBVIOUS
<1>5. x \in Pairs(r) /\ x[1] = m /\ x[2] = n
  BY <1>4 DEF Pairs
<1>6. QED
  BY <1>3, <1>5 DEF Passed

\* No packet is before a rank that has left, on its way to it or through it.
LEMMA GoneIsBehind ==
  ASSUME JobInv, RouterInv, NEW r \in Ranks, exited[r],
         NEW a \in Places, NEW p, At(a, p)
  PROVE  p.to # r /\ (Passes(r, p.from, p.to) => Near(a, r, p.to))
<1>1. /\ TypeOK /\ QueuesInv /\ Genuine /\ DrainedInv /\ CloseInv /\ GoneInv
  BY DEF JobInv, OrderInv, StreamInv, RouterInv
<1>2. PICK m, n : m = p.from /\ n = p.to
  OBVIOUS
<1>3. p \in Flying /\ p \in Packet
  <2>1. p \in Flying
    BY AtFlying
  <2>2. QED
    BY <1>1, <2>1, FlyingFacts
<1>4. CASE p.type = "ALL_MY_FILTERS_DONE"
  <2>1. m \in Nodes /\ n \in Nodes /\ p = AllDone(m, n) /\ m # n
    BY <1>1, <1>2, <1>3, <1>4, GenuineKinds
  <2>2. n # r
    BY <1>3, <2>1, GoneHeard
  <2>3. ASSUME Passes(r, m, n)
        PROVE  Near(a, r, n)
    <3>1. Behind(r, m, n)
      BY <2>1, <2>3, GonePassed
    <3>2. QED
      BY <2>1, <3>1 DEF Behind, Near
  <2>4. QED
    BY <1>2, <2>2, <2>3
<1>5. CASE IsOfStream(p)
  <2>1. m \in Nodes /\ n \in Nodes /\ m # n
    <3>1. /\ <<p.writer, p.reader>> \in Streams /\ m = HostOf[p.writer] /\ n = HostOf[p.reader]
          /\ m # n
      BY <1>1, <1>2, <1>3, <1>5, GenuineKinds DEF IsOfStream
    <3>2. p.writer \in Filters /\ p.reader \in Filters
      BY <3>1, FiltersAssumption
    <3>3. QED
      BY <3>1, <3>2, FiltersAssumption
  <2>2. SentTo(m, n) => AllDone(m, n) \in Flying
    BY <1>1, <1>2, <1>3, <1>5 DEF DrainedInv
  <2>3. n # r
    BY <2>1, <2>2, GoneHeard
  <2>4. ASSUME Passes(r, m, n)
        PROVE  Near(a, r, n)
    <3>1. SentTo(m, n) /\ Behind(r, m, n)
      BY <2>1, <2>4, GonePassed
    <3>2. PICK b \in Places : At(b, AllDone(m, n))
      BY <2>2, <3>1, FlyingAt DEF At
    <3>3. Near(b, r, n)
      BY <3>1, <3>2 DEF Behind, Near
    <3>4. Before(p, AllDone(m, n))
      BY <1>2, <1>5, DoneFields DEF Before, IsOfStream
    <3>5. Stage(a, n) < Stage(b, n) \/ a = b
      BY <1>1, <1>2, <3>2, <3>4, OrderedAt DEF At
    <3>6. Stage(a, n) \in Nat /\ Stage(b, n) \in Nat /\ Stage(HopPlace(r, n), n) \in {2, 4}
      <4>1. m \in AllNodes /\ n \in AllNodes
        BY <2>1 DEF Nodes, AllNodes
      <4>2. QED
        BY <2>4, <4>1, StageTyped, LinksPassNone
    <3>7. QED
      BY <3>3, <3>5, <3>6 DEF Near
  <2>5. QED
    BY <1>2, <2>3, <2>4
<1>6. CASE p.type = "CLOSE"
  <2>1. p = Close
    BY <1>1, <1>3, <1>6, GenuineKinds
  <2>2. r # 0
    BY <1>1, <1>3, <2>1 DEF CloseInv, GoneInv
  <2>3. m = Console /\ n = 0
    BY <1>2, <2>1, DoneFields
  <2>4. ~Passes(r, Console, 0)
    BY <2>2, Gateways DEF Passes
  <2>5. QED
    BY <1>2, <2>2, <2>3, <2>4
<1>7. QED
  BY <1>3, <1>4, <1>5, <1>6 DEF Packet, PacketTypes, IsOfStream

\* Everything in flight is somewhere, with the node that has handled it last.
LEMMA InFlightAt ==
  ASSUME JobInv, NEW x \in InFlight
  PROVE  \E a \in Places : At(a, x[1]) /\ x[2] = HandlerAt(a, x[1].from)
<1>1. CASE \E r \in Ranks : x \in SeqRange(outq[r]) \X {r}
  <2>1. PICK r \in Ranks : x \in SeqRange(outq[r]) \X {r}
    BY <1>1
  <2>2. At(OutQ(r), x[1]) /\ OutQ(r) \in Places
    BY <2>1, QueueAt, PlaceKinds DEF At, SeqRange
  <2>3. x[2] = HandlerAt(OutQ(r), x[1].from)
    BY <2>1 DEF HandlerAt, OutQ
  <2>4. QED
    BY <2>2, <2>3
<1>2. CASE \E i, r \in Ranks : x \in SeqRange(chan[i][r]) \X {i}
  <2>1. PICK i \in Ranks, r \in Ranks : x \in SeqRange(chan[i][r]) \X {i}
    BY <1>2
  <2>2. At(Chan(i, r), x[1]) /\ Chan(i, r) \in Places
    BY <2>1, QueueAt, PlaceKinds DEF At, SeqRange
  <2>3. x[2] = HandlerAt(Chan(i, r), x[1].from)
    BY <2>1 DEF HandlerAt, Chan
  <2>4. QED
    BY <2>2, <2>3
<1>3. CASE x \in SeqRange(toConsole) \X {0}
  <2>1. At(ToConsole, x[1]) /\ ToConsole \in Places
    BY <1>3, QueueAt, PlaceKinds DEF At, SeqRange
  <2>2. x[2] = HandlerAt(ToConsole, x[1].from)
    BY <1>3 DEF HandlerAt, ToConsole
  <2>3. QED
    BY <2>1, <2>2
<1>4. CASE x \in (SeqRange(consoleOut) \cup SeqRange(fromConsole)) \X {Console}
  <2>1. \/ At(ConsoleOut, x[1]) /\ ConsoleOut \in Places
        \/ At(FromConsole, x[1]) /\ FromConsole \in Places
    BY <1>4, QueueAt, PlaceKinds DEF At, SeqRange
  <2>2. /\ x[2] = HandlerAt(ConsoleOut, x[1].from)
        /\ x[2] = HandlerAt(FromConsole, x[1].from)
    BY <1>4 DEF HandlerAt, ConsoleOut, FromConsole
  <2>3. QED
    BY <2>1, <2>2
<1>5. CASE \E c \in Clusters : x \in SeqRange(toProxy[c]) \X {Gateway(c)}
  <2>1. PICK c \in Clusters : x \in SeqRange(toProxy[c]) \X {Gateway(c)}
    BY <1>5
  <2>2. At(ToProxy(c), x[1]) /\ ToProxy(c) \in Places
    BY <2>1, QueueAt, PlaceKinds DEF At, SeqRange
  <2>3. x[2] = HandlerAt(ToProxy(c), x[1].from)
    BY <2>1 DEF HandlerAt, ToProxy
  <2>4. QED
    BY <2>2, <2>3
<1>6. CASE \E c \in Clusters : x \in {<<p, Gateway(ClusterRank(p.from))>> : p \in SeqRange(proxyIn[c])}
  <2>1. PICK c \in Clusters : x \in {<<p, Gateway(ClusterRank(p.from))>> : p \in SeqRange(proxyIn[c])}
    BY <1>6
  <2>2. PICK p \in SeqRange(proxyIn[c]) : x = <<p, Gateway(ClusterRank(p.from))>>
    BY <2>1
  <2>3. x[1] = p /\ x[2] = Gateway(ClusterRank(p.from))
    BY <2>2
  <2>4. At(ProxyIn(c), p) /\ ProxyIn(c) \in Places
    BY <2>2, QueueAt, PlaceKinds DEF At, SeqRange
  <2>5. x[2] = HandlerAt(ProxyIn(c), p.from)
    BY <2>3 DEF HandlerAt, ProxyIn
  <2>6. QED
    BY <2>3, <2>4, <2>5
<1>7. QED
  BY <1>1, <1>2, <1>3, <1>4, <1>5, <1>6 DEF InFlight

\* A rank that is gone is on no packet's way.
LEMMA RoutersFromInv == JobInv /\ RouterInv => ExitedRankIsNotNeeded
<1> SUFFICES ASSUME JobInv, RouterInv, NEW r \in Ranks, exited[r]
             PROVE  /\ \A x \in InFlight : r \notin Route(x[2], x[1].to)
                    /\ \A f \in FiltersOn(r) : status[f] = "erased"
                    /\ deferred[r] = {}
  BY DEF ExitedRankIsNotNeeded
<1>1. TypeOK /\ QueuesInv /\ Genuine /\ QuietInv
  BY DEF JobInv, OrderInv, StreamInv
<1>2. ASSUME NEW x \in InFlight, r \in Route(x[2], x[1].to)
      PROVE  FALSE
  <2>1. PICK a \in Places : At(a, x[1]) /\ x[2] = HandlerAt(a, x[1].from)
    BY InFlightAt
  <2>2. PICK p : p = x[1]
    OBVIOUS
  <2>3. /\ p \in Flying /\ OnRoute(a, p.from, p.to)
        /\ p.from \in AllNodes /\ p.to \in AllNodes /\ p.from # p.to
    <3>1. p \in Flying
      BY <2>1, <2>2, AtFlying
    <3>2. QED
      BY <1>1, <2>1, <2>2, <3>1, AtRoute, FlyingFacts
  <2>4. p.to # r /\ (Passes(r, p.from, p.to) => Near(a, r, p.to))
    BY <2>1, <2>2, GoneIsBehind
  <2>5. QED
    BY <1>2, <2>1, <2>2, <2>3, <2>4, RestOfRoute DEF Near
<1>3. \A f \in FiltersOn(r) : status[f] = "erased"
  BY <1>1, QuietFromInv DEF QuietOnceAnnounced, RouterInv, GoneInv
<1>4. ASSUME NEW i \in deferred[r]
      PROVE  FALSE
  <2>1. i \in Ranks /\ chan[i][r] # <<>>
    BY <1>1 DEF TypeOK, MpiTypes, RouterInv, DeferredInv
  <2>2. PICK a \in Places : a = Chan(i, r)
    BY <2>1, PlaceKinds
  <2>3. Queue[a] # <<>>
    BY <2>1, <2>2, QueueAt
  <2>4. PICK p : p = Head(Queue[a])
    OBVIOUS
  <2>5. /\ p = Queue[a][1] /\ OnRoute(a, p.from, p.to)
        /\ p.from \in AllNodes /\ p.to \in AllNodes /\ p.from # p.to
    BY <1>1, <2>3, <2>4, HeadFacts
  <2>6. At(a, p)
    <3>1. Queue[a] \in Seq(Packet)
      BY <1>1, QueueTyped
    <3>2. QED
      BY <2>3, <2>5, <3>1, TailAt DEF At
  <2>7. p.to # r /\ (Passes(r, p.from, p.to) => Near(a, r, p.to))
    BY <2>6, GoneIsBehind
  <2>8. p.from # r /\ Stage(a, p.to) = 5
    BY <2>1, <2>2, <2>5, <2>7, AtChan
  <2>9. HandledBy(a, r)
    BY <2>1, <2>2 DEF HandledBy
  <2>10. Passes(r, p.from, p.to)
    BY <2>5, <2>7, <2>8, <2>9, PassesOn
  <2>11. PICK k : k = Stage(HopPlace(r, p.to), p.to)
    OBVIOUS
  <2>12. k \in {2, 4}
    BY <2>5, <2>10, <2>11, LinksPassNone
  <2>13. QED
    BY <2>7, <2>8, <2>10, <2>11, <2>12 DEF Near
<1>5. QED
  BY <1>2, <1>3, <1>4

\* A rank that has left its main loop is not on the way of any packet that is
\* still in flight, in no job: when it has counted a done packet of every other
\* node, and has passed on all_filter_done_messages_to_route of them, nothing
\* for it or through it is left ("we'll receive nothing more from others",
\* "we've routed all we need to": dcmpiruntime.cpp:595, 605).
THEOREM RoutersStay == Spec => []ExitedRankIsNotNeeded
BY RouterInvariant, RoutersFromInv, PTL

=============================================================================

------------------------------ MODULE Runtime ------------------------------
(***************************************************************************)
(* The MPI runtime of dcmpi: filter threads, the main loop of every rank,  *)
(* the bridge to the console process and the links between clusters, up to *)
(* the distributed termination of a job.                                   *)
(*                                                                         *)
(* A job runs on ranks 0..NumRanks-1, partitioned into clusters; the first *)
(* rank of a cluster (its MPI rank 0) is the cluster's gateway.  The       *)
(* console process is rank -1 and is attached to rank 0 only.  Filters are *)
(* threads of their rank; a stream <<w, g>> is one target of an out-port   *)
(* of filter w, feeding the in-port of filter g.                           *)
(*                                                                         *)
(* The main loop (dcmpiruntime.cpp) is one thread that runs the segments   *)
(* of its body over and over.  Each segment, or one round of its inner     *)
(* loop, is an action of that rank; the order of the segments within one   *)
(* pass is abstracted, except that the value one segment leaves for a      *)
(* later one (any_of_my_filters_running) is a variable and that the loop   *)
(* that sends the ALL_MY_FILTERS_DONE packets is not interrupted.          *)
(***************************************************************************)
EXTENDS Integers, Sequences, FiniteSets

CONSTANTS
  NumRanks,        \* ranks of the job, the console's excluded
  ClusterOf,       \* dcmpi_cluster_rank of every rank
  ClusterOffset,   \* cluster_offset of every cluster: its first rank
  ConsolePresent,  \* does the layout have a console filter?
  Filters,         \* gftids of the filter instances
  HostOf,          \* dcmpi_rank of every filter (-1: the console filter)
  Streams,         \* the resolved port connections, <<writer, reader>>
  EarlyExit,       \* filters that may return with input unread
  EagerSends,      \* may MPI report a send done before its message is received?
  MaxWrites,       \* bound: buffers written on each stream
  FilterMem,       \* memory_threshold of a filter, in buffers
  RuntimeMem       \* memory_threshold of a rank's runtime, in buffers

Console    == -1
Ranks      == 0 .. NumRanks - 1
Nodes      == IF ConsolePresent THEN Ranks \cup {Console} ELSE Ranks
AllNodes   == Ranks \cup {Console}
Clusters   == {ClusterOf[r] : r \in Ranks}

ClusterRank(n) == IF n = Console THEN 0 ELSE ClusterOf[n]

\* dcmpi ranks are numbered cluster by cluster, so the process whose MPI rank
\* is 0 is the one at the cluster's offset.
Gateway(c)   == ClusterOffset[c]
IsGateway(r) == r = Gateway(ClusterOf[r])
ClusterSize(c) == Cardinality({r \in Ranks : ClusterOf[r] = c})
UseProxy     == \E r \in Ranks : ClusterOf[r] # 0
HandlesConsole(r) == r = 0

ASSUME RanksAssumption ==
  /\ NumRanks \in Nat \ {0}
  /\ ClusterOf \in [Ranks -> Nat]
  /\ ClusterOf[0] = 0
  /\ ClusterOffset \in [Clusters -> Ranks]
  /\ \A c \in Clusters : ClusterOf[ClusterOffset[c]] = c
  /\ \A r, s \in Ranks : r <= s => ClusterOf[r] <= ClusterOf[s]
  /\ \A r \in Ranks : ClusterOffset[ClusterOf[r]] <= r
  /\ ConsolePresent \in BOOLEAN

ASSUME FiltersAssumption ==
  /\ HostOf \in [Filters -> Nodes]
  /\ Streams \subseteq Filters \X Filters
  /\ \A f, g \in Filters : HostOf[f] = Console /\ HostOf[g] = Console => f = g
  /\ \A r \in Ranks \ {0} : \E f \in Filters : HostOf[f] = r
  /\ \A s \in Streams : ~(HostOf[s[1]] = Console /\ HostOf[s[2]] = Console)
  /\ EarlyExit \subseteq Filters
  /\ "none" \notin Filters /\ "dcmpiruntime" \notin Filters

ASSUME BoundsAssumption ==
  /\ MaxWrites \in [Streams -> Nat]
  /\ EagerSends \in BOOLEAN
  /\ FilterMem \in Nat \ {0}
  /\ RuntimeMem \in Nat \ {0}

Readers(w) == {s[2] : s \in {t \in Streams : t[1] = w}}
Writers(g) == {s[1] : s \in {t \in Streams : t[2] = g}}
FiltersOn(n) == {f \in Filters : HostOf[f] = n}

-----------------------------------------------------------------------------
(* Packets.  CLOSE ends the stream of a console bridge socket.             *)

NoFilter == "none"
PacketTypes == {"DCBUF", "REMOVE_PUTTER", "ALL_MY_FILTERS_DONE", "CLOSE"}

Packet == [type : PacketTypes, from : AllNodes, to : AllNodes,
           writer : Filters \cup {NoFilter}, reader : Filters \cup {NoFilter},
           seq : Nat]

DcBuf(w, g, n)     == [type |-> "DCBUF", from |-> HostOf[w], to |-> HostOf[g],
                       writer |-> w, reader |-> g, seq |-> n]
RemovePutter(w, g) == [type |-> "REMOVE_PUTTER",
                       from |-> HostOf[w], to |-> HostOf[g],
                       writer |-> w, reader |-> g, seq |-> 0]
AllDone(m, n)      == [type |-> "ALL_MY_FILTERS_DONE", from |-> m, to |-> n,
                       writer |-> NoFilter, reader |-> NoFilter, seq |-> 0]
Close              == [type |-> "CLOSE", from |-> Console, to |-> 0,
                       writer |-> NoFilter, reader |-> NoFilter, seq |-> 0]

\* MUIDs: who is charged for a queued buffer (Buffer_MUID).  A filter is
\* charged for what it wrote, the rank's runtime for what came off a link;
\* the console process charges nobody for what it received (muid -1).
RuntimeMuid == "dcmpiruntime"
NoMuid      == "none"
Muid        == Filters \cup {RuntimeMuid, NoMuid}
InBuf       == [writer : Filters \cup {NoFilter}, seq : Nat, muid : Muid]
EntryOf(p, muid) == [writer |-> p.writer, seq |-> p.seq, muid |-> muid]

-----------------------------------------------------------------------------
VARIABLES
  status,        \* filter thread: running process(), closing its ports, erased
  blocked,       \* reader of the stream whose write waits for memory
  closed,        \* readers whose stream the closing filter has closed
  wrote,         \* buffers written on each stream so far
  got,           \* buffers read from each stream so far
  inq,           \* in-port queue of every filter
  putters,       \* putters of that in-port queue
  usage,         \* MUID_MemUsage[f].current_usage, in buffers
  rtUsage,       \* MUID_MemUsage[MUID_of_dcmpiruntime] of every rank
  outq,          \* single_mpi_outqueue of every rank
  chan,          \* MPI messages from rank to rank, in matching order
  pending,       \* outreq_pending_state: Isends not yet tested complete
  deferred,      \* sources whose receive waits for memory (READY_FOR_BODY)
  toConsole,     \* mpi_to_console_queue
  consoleOut,    \* console_to_mpi_queue and the socket it is written to
  fromConsole,   \* mpi_from_console_queue
  fromOpen,      \* mpi_from_console_queue has its putter
  consoleSent,   \* execute3 has queued its ALL_MY_FILTERS_DONE packets
  consoleClosed, \* the console's from-MPI thread has seen CLOSE
  toProxy,       \* mpi_to_proxy_queue of every cluster's gateway
  proxyIn,       \* packets the proxy holds for every cluster
  anyRunning,    \* any_of_my_filters_running
  announced,     \* next node to get an ALL_MY_FILTERS_DONE packet
  doneReceived,  \* num_all_filters_done_received
  routed,        \* all_filter_done_messages_routed
  exited         \* the rank has left the main loop

filterVars  == <<status, blocked, closed, wrote, got>>
portVars    == <<inq, putters>>
memVars     == <<usage, rtUsage>>
mpiVars     == <<outq, chan, pending>>
consoleVars == <<consoleOut, fromConsole, fromOpen, consoleSent, consoleClosed>>
loopVars    == <<anyRunning, announced, exited>>
countVars   == <<doneReceived, routed>>
vars == <<filterVars, portVars, memVars, mpiVars, deferred, toConsole,
          consoleVars, toProxy, proxyIn, loopVars, countVars>>

NotAnnounced == -2          \* sent_all_filters_done_message is false
ConsoleHop   == Console
ProxyHop     == -2

StatusValues == {"process", "closing", "erased"}

-----------------------------------------------------------------------------
(* Routing: where deliver_elsewhere sends a packet that is not for rank r.  *)

CrossCluster(r, n) == ClusterRank(n) # ClusterOf[r]

Hop(r, p) ==
  IF p.to = Console /\ HandlesConsole(r) THEN ConsoleHop
  ELSE IF IsGateway(r) /\ UseProxy /\ CrossCluster(r, p.to) THEN ProxyHop
  ELSE IF p.to = Console \/ CrossCluster(r, p.to) THEN Gateway(ClusterOf[r])
  ELSE p.to

\* The queue a filter thread of rank r feeds for reader g: the bridge queues
\* directly when r serves them, the main loop's out-queue otherwise.
WriterHop(r, g) ==
  IF HostOf[g] = Console /\ HandlesConsole(r) THEN "toConsole"
  ELSE IF IsGateway(r) /\ CrossCluster(r, HostOf[g]) THEN "toProxy"
  ELSE "outq"

\* Mutants: the done packets that come back are forgotten; the console is not
\* one of the nodes behind the gateway of cluster 0.
ToRouteOneWay(r) ==
  LET size == ClusterSize(ClusterOf[r])
  IN  IF IsGateway(r) THEN (size - 1) * (Cardinality(Nodes) - size) ELSE 0
ToRouteNoConsole(r) ==
  LET size == ClusterSize(ClusterOf[r])
  IN  IF IsGateway(r) THEN (size - 1) * (Cardinality(Nodes) - size) * 2 ELSE 0

\* all_filter_done_messages_to_route
ToRoute(r) ==
  LET size   == ClusterSize(ClusterOf[r])
      total  == Cardinality(Nodes)
      bridge == ClusterOf[r] = 0 /\ ConsolePresent
      others == IF bridge THEN size ELSE size - 1
  IN  IF ~IsGateway(r) THEN 0
      ELSE (IF bridge THEN 2 * (size - 1) ELSE 0) + others * (total - (others + 1)) * 2

NumDoneExpected == Cardinality(Nodes) - 1

-----------------------------------------------------------------------------
(* Memory accounting: MemUsage.reduce on behalf of the charged MUID.       *)

\* Mutant: nobody gives back what the runtime was charged for.
ReleaseFilterOnly(r, muid) ==
  /\ usage' = IF muid \in Filters THEN [usage EXCEPT ![muid] = @ - 1] ELSE usage
  /\ UNCHANGED rtUsage

Release(r, muid) ==
  /\ usage' = IF muid \in Filters THEN [usage EXCEPT ![muid] = @ - 1] ELSE usage
  /\ rtUsage' = IF muid = RuntimeMuid THEN [rtUsage EXCEPT ![r] = @ - 1] ELSE rtUsage

HasRoom(r) == rtUsage[r] < RuntimeMem

\* accumulate_if_not_exceeding_limit for the body of a DCBUF at rank r
ChargeBody(r, p) ==
  /\ p.type = "DCBUF" => HasRoom(r)
  /\ rtUsage' = IF p.type = "DCBUF" THEN [rtUsage EXCEPT ![r] = @ + 1] ELSE rtUsage
  /\ UNCHANGED usage

\* Mutants: a packet from another cluster, or one that came over the bridge,
\* is taken for one of the rank's own filters when its send is done.
BridgeOwnerWriter(r, p) == p.writer
SendOwnerProxy(r, p) ==
  IF HandlesConsole(r) /\ p.from = Console THEN RuntimeMuid ELSE p.writer

\* Whom a finished Isend, the proxy writer and the console writer reduce.
SendOwner(r, p) ==
  IF \/ HandlesConsole(r) /\ p.from = Console
     \/ CrossCluster(r, p.from)
  THEN RuntimeMuid ELSE p.writer
BridgeOwner(r, p) == IF p.from = r THEN p.writer ELSE RuntimeMuid
OwnerIfBody(p, owner) == IF p.type = "DCBUF" THEN owner ELSE NoMuid

-----------------------------------------------------------------------------
(* Filter threads                                                          *)

\* DCFilter::write on a stream: charge the writer, then feed the reader's
\* in-port directly or a packet to a queue of the rank.  The console's 64 MB
\* outgoing budget is not modelled.
PutPacket(r, p) ==
  \/ /\ r = Console
     /\ consoleOut' = Append(consoleOut, p)
     /\ UNCHANGED <<outq, toConsole, toProxy>>
  \/ /\ r # Console /\ WriterHop(r, p.reader) = "outq"
     /\ outq' = [outq EXCEPT ![r] = Append(@, p)]
     /\ UNCHANGED <<consoleOut, toConsole, toProxy>>
  \/ /\ r # Console /\ WriterHop(r, p.reader) = "toConsole"
     /\ toConsole' = Append(toConsole, p)
     /\ UNCHANGED <<outq, consoleOut, toProxy>>
  \/ /\ r # Console /\ WriterHop(r, p.reader) = "toProxy"
     /\ toProxy' = [toProxy EXCEPT ![ClusterOf[r]] = Append(@, p)]
     /\ UNCHANGED <<outq, consoleOut, toConsole>>

CanPay(w) == HostOf[w] # Console => usage[w] < FilterMem

\* in MemUsage.accumulate: the thread can do nothing else until it has room
FilterBlock(w, g) ==
  /\ status[w] = "process"
  /\ blocked[w] = NoFilter
  /\ <<w, g>> \in Streams
  /\ wrote[<<w, g>>] < MaxWrites[<<w, g>>]
  /\ ~CanPay(w)
  /\ blocked' = [blocked EXCEPT ![w] = g]
  /\ UNCHANGED <<status, closed, wrote, got, portVars, memVars, mpiVars, deferred,
                 toConsole, consoleVars, toProxy, proxyIn, loopVars, countVars>>

FilterWrite(w, g) ==
  LET p == DcBuf(w, g, wrote[<<w, g>>] + 1) IN
  /\ status[w] = "process"
  /\ blocked[w] \in {NoFilter, g}
  /\ <<w, g>> \in Streams
  /\ wrote[<<w, g>>] < MaxWrites[<<w, g>>]
  /\ CanPay(w)
  /\ blocked' = [blocked EXCEPT ![w] = NoFilter]
  /\ usage' = IF HostOf[w] # Console THEN [usage EXCEPT ![w] = @ + 1] ELSE usage
  /\ wrote' = [wrote EXCEPT ![<<w, g>>] = @ + 1]
  /\ \/ /\ HostOf[w] = HostOf[g]
        /\ inq' = [inq EXCEPT ![g] = Append(@, EntryOf(p, w))]
        /\ UNCHANGED <<outq, consoleOut, toConsole, toProxy>>
     \/ /\ HostOf[w] # HostOf[g]
        /\ PutPacket(HostOf[w], p)
        /\ UNCHANGED inq
  /\ UNCHANGED <<status, closed, got, putters, rtUsage, chan, pending, deferred,
                 fromConsole, fromOpen, consoleSent, consoleClosed, proxyIn,
                 loopVars, countVars>>

\* DCFilter::read and its variants: take the oldest buffer of the in-port and
\* give its memory back.
FilterRead(g) ==
  LET b == Head(inq[g]) IN
  /\ status[g] = "process" /\ blocked[g] = NoFilter
  /\ inq[g] # <<>>
  /\ inq' = [inq EXCEPT ![g] = Tail(@)]
  /\ got' = [got EXCEPT ![<<b.writer, g>>] = @ + 1]
  /\ Release(HostOf[g], b.muid)
  /\ UNCHANGED <<status, blocked, closed, wrote, putters, mpiVars, deferred, toConsole,
                 consoleVars, toProxy, proxyIn, loopVars, countVars>>

\* process() and fini() return.  A filter that reads until upstream exit
\* returns when its in-port is empty and has no putter left; one in EarlyExit
\* may return at any time.
FilterReturn(f) ==
  /\ status[f] = "process" /\ blocked[f] = NoFilter
  /\ f \in EarlyExit \/ (putters[f] = {} /\ inq[f] = <<>>)
  /\ status' = [status EXCEPT ![f] = "closing"]
  /\ UNCHANGED <<blocked, closed, wrote, got, portVars, memVars, mpiVars, deferred, toConsole,
                 consoleVars, toProxy, proxyIn, loopVars, countVars>>

\* DCFilterThread::run, end: remove_putter on one target of an out-port.
FilterClose(w, g) ==
  /\ status[w] = "closing"
  /\ g \in Readers(w) \ closed[w]
  /\ closed' = [closed EXCEPT ![w] = @ \cup {g}]
  /\ \/ /\ HostOf[w] = HostOf[g]
        /\ putters' = [putters EXCEPT ![g] = @ \ {w}]
        /\ UNCHANGED <<outq, consoleOut, toConsole, toProxy>>
     \/ /\ HostOf[w] # HostOf[g]
        /\ PutPacket(HostOf[w], RemovePutter(w, g))
        /\ UNCHANGED putters
  /\ UNCHANGED <<status, blocked, wrote, got, inq, memVars, chan, pending, deferred, fromConsole,
                 fromOpen, consoleSent, consoleClosed, proxyIn, loopVars, countVars>>

\* DCFilterThread::run, last step: erase the gftid from unfinished_local_gftids.
FilterErase(f) ==
  /\ status[f] = "closing"
  /\ closed[f] = Readers(f)
  /\ status' = [status EXCEPT ![f] = "erased"]
  /\ UNCHANGED <<blocked, closed, wrote, got, portVars, memVars, mpiVars, deferred, toConsole,
                 consoleVars, toProxy, proxyIn, loopVars, countVars>>

-----------------------------------------------------------------------------
(* The main loop of rank r                                                 *)

SentDone(r)   == announced[r] # NotAnnounced
Announcing(r) == announced[r] \in Nodes
\* The loop that sends the done packets runs to its end.
InLoop(r)     == ~exited[r] /\ ~Announcing(r)

NextAnnounced(r, n) == IF n + 1 = r THEN n + 2 ELSE n + 1
FirstAnnounced(r)   == NextAnnounced(r, IF ConsolePresent THEN Console - 1 ELSE Console)

\* deliver_in: hand a packet to the filters of rank r
DeliverIn(r, p) ==
  /\ inq' = IF p.type = "DCBUF"
            THEN [inq EXCEPT ![p.reader] = Append(@, EntryOf(p, RuntimeMuid))] ELSE inq
  /\ putters' = IF p.type = "REMOVE_PUTTER"
                THEN [putters EXCEPT ![p.reader] = @ \ {p.writer}] ELSE putters
  /\ doneReceived' = IF p.type = "ALL_MY_FILTERS_DONE"
                     THEN [doneReceived EXCEPT ![r] = @ + 1] ELSE doneReceived

\* deliver_elsewhere: count a routed done packet, then put the packet on the
\* bridge queue that serves its destination, or Isend it.  ch is the state of
\* the channels once the packet has been taken off its own.
DeliverElsewhere(r, p, ch) ==
  LET hop == Hop(r, p) IN
  /\ routed' = IF p.type = "ALL_MY_FILTERS_DONE" /\ p.from # r
               THEN [routed EXCEPT ![r] = @ + 1] ELSE routed
  /\ toConsole' = IF hop = ConsoleHop THEN Append(toConsole, p) ELSE toConsole
  /\ toProxy' = IF hop = ProxyHop
                THEN [toProxy EXCEPT ![ClusterOf[r]] = Append(@, p)] ELSE toProxy
  /\ chan' = IF hop \in Ranks THEN [ch EXCEPT ![r][hop] = Append(@, p)] ELSE ch
  /\ pending' = IF hop \in Ranks THEN [pending EXCEPT ![r] = @ \cup {p}] ELSE pending

Deliver(r, p, ch) ==
  \/ /\ p.to = r
     /\ DeliverIn(r, p)
     /\ chan' = ch
     /\ UNCHANGED <<routed, toConsole, toProxy, pending>>
  \/ /\ p.to # r
     /\ DeliverElsewhere(r, p, ch)
     /\ UNCHANGED <<portVars, doneReceived>>

\* any_of_my_filters_running is read under the mutex
CheckFilters(r) ==
  /\ InLoop(r) /\ ~SentDone(r)
  /\ anyRunning[r]
  /\ \A f \in FiltersOn(r) : status[f] = "erased"
  /\ anyRunning' = [anyRunning EXCEPT ![r] = FALSE]
  /\ UNCHANGED <<filterVars, portVars, memVars, mpiVars, deferred, toConsole, consoleVars,
                 toProxy, proxyIn, announced, exited, countVars>>

\* Mutant: what is still queued to go out is not looked at.
AnnounceEarly(r) ==
  /\ InLoop(r) /\ ~SentDone(r)
  /\ ~anyRunning[r]
  /\ announced' = [announced EXCEPT ![r] = FirstAnnounced(r)]
  /\ UNCHANGED <<filterVars, portVars, memVars, mpiVars, deferred, toConsole, consoleVars,
                 toProxy, proxyIn, anyRunning, exited, countVars>>

\* no filter running and nothing queued to go out: start announcing
Announce(r) ==
  /\ InLoop(r) /\ ~SentDone(r)
  /\ ~anyRunning[r]
  /\ outq[r] = <<>>
  /\ IsGateway(r) => toProxy[ClusterOf[r]] = <<>>
  /\ announced' = [announced EXCEPT ![r] = FirstAnnounced(r)]
  /\ UNCHANGED <<filterVars, portVars, memVars, mpiVars, deferred, toConsole, consoleVars,
                 toProxy, proxyIn, anyRunning, exited, countVars>>

\* one round of the loop that sends ALL_MY_FILTERS_DONE to every other node
AnnounceNext(r) ==
  /\ ~exited[r] /\ Announcing(r)
  /\ DeliverElsewhere(r, AllDone(r, announced[r]), chan)
  /\ announced' = [announced EXCEPT ![r] = NextAnnounced(r, @)]
  /\ UNCHANGED <<filterVars, portVars, memVars, outq, deferred, consoleVars, proxyIn,
                 anyRunning, exited, doneReceived>>

\* Mutants: a rank leaves without counting the others' done packets, or with
\* the console bridge open.
ExitOthersRunning(r) ==
  /\ InLoop(r) /\ SentDone(r)
  /\ ~anyRunning[r] /\ outq[r] = <<>> /\ routed[r] = ToRoute(r) /\ pending[r] = {}
  /\ HandlesConsole(r) => ~fromOpen /\ fromConsole = <<>>
  /\ exited' = [exited EXCEPT ![r] = TRUE]
  /\ UNCHANGED <<filterVars, portVars, memVars, mpiVars, deferred, toConsole, consoleVars,
                 toProxy, proxyIn, anyRunning, announced, countVars>>
ExitBridgeOpen(r) ==
  /\ InLoop(r) /\ SentDone(r)
  /\ ~anyRunning[r] /\ outq[r] = <<>> /\ doneReceived[r] = NumDoneExpected
  /\ routed[r] = ToRoute(r) /\ pending[r] = {}
  /\ exited' = [exited EXCEPT ![r] = TRUE]
  /\ UNCHANGED <<filterVars, portVars, memVars, mpiVars, deferred, toConsole, consoleVars,
                 toProxy, proxyIn, anyRunning, announced, countVars>>

\* the conditions for breaking out of the main loop
Exit(r) ==
  /\ InLoop(r) /\ SentDone(r)
  /\ doneReceived[r] = NumDoneExpected
  /\ ~anyRunning[r]
  /\ outq[r] = <<>>
  /\ routed[r] = ToRoute(r)
  /\ pending[r] = {}
  /\ HandlesConsole(r) => ~fromOpen /\ fromConsole = <<>>
  /\ exited' = [exited EXCEPT ![r] = TRUE]
  /\ UNCHANGED <<filterVars, portVars, memVars, mpiVars, deferred, toConsole, consoleVars,
                 toProxy, proxyIn, anyRunning, announced, countVars>>

\* start sends: take a packet off single_mpi_outqueue and pass it on
StartSend(r) ==
  /\ InLoop(r)
  /\ outq[r] # <<>>
  /\ outq' = [outq EXCEPT ![r] = Tail(@)]
  /\ DeliverElsewhere(r, Head(outq[r]), chan)
  /\ UNCHANGED <<filterVars, portVars, memVars, deferred, consoleVars, proxyIn, loopVars,
                 doneReceived>>

\* Mutant: a buffer that waits for memory lets the next message pass.
ReceiveBypassing(i, r) ==
  LET k == IF Head(chan[i][r]).type = "DCBUF" /\ ~HasRoom(r) THEN 2 ELSE 1
      p == chan[i][r][k]
  IN
  /\ InLoop(r)
  /\ chan[i][r] # <<>>
  /\ k \in DOMAIN chan[i][r]
  /\ ChargeBody(r, p)
  /\ deferred' = [deferred EXCEPT ![r] = @ \ {i}]
  /\ Deliver(r, p, [chan EXCEPT ![i][r] =
                      SubSeq(@, 1, k - 1) \o SubSeq(@, k + 1, Len(@))])
  /\ UNCHANGED <<filterVars, outq, consoleVars, proxyIn, loopVars>>

\* finish receives: the message at the head of the channel from rank i.  A
\* buffer the runtime has no room for stays there, its header received.
Receive(i, r) ==
  LET p == Head(chan[i][r]) IN
  /\ InLoop(r)
  /\ chan[i][r] # <<>>
  /\ ChargeBody(r, p)
  /\ deferred' = [deferred EXCEPT ![r] = @ \ {i}]
  /\ Deliver(r, p, [chan EXCEPT ![i][r] = Tail(@)])
  /\ UNCHANGED <<filterVars, outq, consoleVars, proxyIn, loopVars>>

Defer(i, r) ==
  /\ InLoop(r)
  /\ i \notin deferred[r]
  /\ chan[i][r] # <<>>
  /\ Head(chan[i][r]).type = "DCBUF" /\ ~HasRoom(r)
  /\ deferred' = [deferred EXCEPT ![r] = @ \cup {i}]
  /\ UNCHANGED <<filterVars, portVars, memVars, mpiVars, toConsole, consoleVars,
                 toProxy, proxyIn, loopVars, countVars>>

Received(r, p) == \A k \in DOMAIN chan[r][Hop(r, p)] : chan[r][Hop(r, p)][k] # p

\* finish pending sends: MPI_Test reports p sent.  A message the MPI library
\* buffers is sent at once, any other when its receiver has taken it.
FinishSend(r, p) ==
  /\ InLoop(r)
  /\ p \in pending[r]
  /\ EagerSends \/ Received(r, p)
  /\ pending' = [pending EXCEPT ![r] = @ \ {p}]
  /\ Release(r, OwnerIfBody(p, SendOwner(r, p)))
  /\ UNCHANGED <<filterVars, portVars, outq, chan, deferred, toConsole, consoleVars,
                 toProxy, proxyIn, loopVars, countVars>>

\* handle incoming queue from console
HandleConsole(r) ==
  /\ InLoop(r) /\ HandlesConsole(r)
  /\ fromConsole # <<>>
  /\ fromConsole' = Tail(fromConsole)
  /\ Deliver(r, Head(fromConsole), chan)
  /\ UNCHANGED <<filterVars, memVars, outq, deferred, consoleOut, fromOpen, consoleSent,
                 consoleClosed, proxyIn, loopVars>>

\* handle incoming queue from proxy; a body that finds no room is left unread
\* (PROXY_IN_NEED_BODY)
HandleProxy(r) ==
  LET c == ClusterOf[r]
      p == Head(proxyIn[c])
  IN
  /\ InLoop(r) /\ IsGateway(r)
  /\ proxyIn[c] # <<>>
  /\ ChargeBody(r, p)
  /\ proxyIn' = [proxyIn EXCEPT ![c] = Tail(@)]
  /\ Deliver(r, p, chan)
  /\ UNCHANGED <<filterVars, outq, deferred, consoleVars, loopVars>>

-----------------------------------------------------------------------------
(* Bridge threads.  They go on after the main loop has exited, until the   *)
(* NULL that dcmpiruntime_common_execute then puts on their queues.        *)

\* MPIToConsoleThread and, in the console process, ConsoleFromMPIThread: one
\* packet crosses to the console filter
ToConsoleThread ==
  LET p == Head(toConsole) IN
  /\ toConsole # <<>>
  /\ toConsole' = Tail(toConsole)
  /\ Release(0, OwnerIfBody(p, BridgeOwner(0, p)))
  /\ inq' = IF p.type = "DCBUF"
            THEN [inq EXCEPT ![p.reader] = Append(@, EntryOf(p, NoMuid))] ELSE inq
  /\ putters' = IF p.type = "REMOVE_PUTTER"
                THEN [putters EXCEPT ![p.reader] = @ \ {p.writer}] ELSE putters
  /\ UNCHANGED <<filterVars, mpiVars, deferred, consoleVars, toProxy, proxyIn, loopVars,
                 countVars>>

\* rank 0 is out of its main loop and the queue is drained: CLOSE is sent
CloseConsole ==
  /\ exited[0] /\ toConsole = <<>> /\ ~consoleClosed
  /\ consoleClosed' = TRUE
  /\ UNCHANGED <<filterVars, portVars, memVars, mpiVars, deferred, toConsole, consoleOut,
                 fromConsole, fromOpen, consoleSent, toProxy, proxyIn, loopVars, countVars>>

\* DCLayout::execute3, once the console filter has closed its out-ports: a
\* done packet to every rank, then the NULL that makes the thread send CLOSE
ConsoleFinish ==
  /\ ConsolePresent /\ ~consoleSent
  /\ \A f \in FiltersOn(Console) : status[f] = "erased"
  /\ consoleSent' = TRUE
  /\ consoleOut' = Append(consoleOut \o [i \in 1 .. NumRanks |-> AllDone(Console, i - 1)],
                          Close)
  /\ UNCHANGED <<filterVars, portVars, memVars, mpiVars, deferred, toConsole, fromConsole,
                 fromOpen, consoleClosed, toProxy, proxyIn, loopVars, countVars>>

\* Mutant: the end of the console filter's stream overtakes its last buffer.
FromConsoleThreadUnordered ==
  LET k == IF Len(consoleOut) > 1 THEN 2 ELSE 1
      p == consoleOut[k]
  IN
  /\ consoleOut # <<>>
  /\ ChargeBody(0, p)
  /\ consoleOut' = SubSeq(consoleOut, 1, k - 1) \o SubSeq(consoleOut, k + 1, Len(consoleOut))
  /\ fromConsole' = IF p.type = "CLOSE" THEN fromConsole ELSE Append(fromConsole, p)
  /\ fromOpen' = (fromOpen /\ p.type # "CLOSE")
  /\ UNCHANGED <<filterVars, portVars, mpiVars, deferred, toConsole, consoleSent,
                 consoleClosed, toProxy, proxyIn, loopVars, countVars>>

\* ConsoleToMPIThread and MPIFromConsoleThread: one packet crosses to rank 0;
\* the thread waits (accumulate) until the runtime has room for a body
FromConsoleThread ==
  LET p == Head(consoleOut) IN
  /\ consoleOut # <<>>
  /\ ChargeBody(0, p)
  /\ consoleOut' = Tail(consoleOut)
  /\ fromConsole' = IF p.type = "CLOSE" THEN fromConsole ELSE Append(fromConsole, p)
  /\ fromOpen' = (fromOpen /\ p.type # "CLOSE")
  /\ UNCHANGED <<filterVars, portVars, mpiVars, deferred, toConsole, consoleSent,
                 consoleClosed, toProxy, proxyIn, loopVars, countVars>>

\* ProxyWriter at the gateway of cluster c, and the proxy: one packet crosses
\* to the proxy's queue for the cluster it is addressed to
ProxyWriter(c) ==
  LET p == Head(toProxy[c]) IN
  /\ toProxy[c] # <<>>
  /\ toProxy' = [toProxy EXCEPT ![c] = Tail(@)]
  /\ proxyIn' = [proxyIn EXCEPT ![ClusterRank(p.to)] = Append(@, p)]
  /\ Release(Gateway(c), OwnerIfBody(p, BridgeOwner(Gateway(c), p)))
  /\ UNCHANGED <<filterVars, portVars, mpiVars, deferred, toConsole, consoleVars, loopVars,
                 countVars>>

-----------------------------------------------------------------------------
Init ==
  /\ status = [f \in Filters |-> "process"]
  /\ blocked = [f \in Filters |-> NoFilter]
  /\ closed = [f \in Filters |-> {}]
  /\ wrote  = [s \in Streams |-> 0]
  /\ got    = [s \in Streams |-> 0]
  /\ inq     = [f \in Filters |-> <<>>]
  /\ putters = [f \in Filters |-> Writers(f)]
  /\ usage   = [f \in Filters |-> 0]
  /\ rtUsage = [r \in Ranks |-> 0]
  /\ outq    = [r \in Ranks |-> <<>>]
  /\ chan    = [r \in Ranks |-> [s \in Ranks |-> <<>>]]
  /\ pending  = [r \in Ranks |-> {}]
  /\ deferred = [r \in Ranks |-> {}]
  /\ toConsole   = <<>>
  /\ consoleOut  = IF ConsolePresent THEN <<>> ELSE <<Close>>
  /\ fromConsole = <<>>
  /\ fromOpen      = TRUE
  /\ consoleSent   = FALSE
  /\ consoleClosed = FALSE
  /\ toProxy = [c \in Clusters |-> <<>>]
  /\ proxyIn = [c \in Clusters |-> <<>>]
  /\ anyRunning = [r \in Ranks |-> TRUE]
  /\ announced  = [r \in Ranks |-> NotAnnounced]
  /\ doneReceived = [r \in Ranks |-> 0]
  /\ routed = [r \in Ranks |-> 0]
  /\ exited = [r \in Ranks |-> FALSE]

\* The job is over: every rank is out, the console bridge is closed.
Finished == (\A r \in Ranks : exited[r]) /\ consoleClosed

Idle == Finished /\ UNCHANGED vars

Next ==
  \/ \E s \in Streams :
       \/ FilterBlock(s[1], s[2])
       \/ FilterWrite(s[1], s[2])
       \/ FilterClose(s[1], s[2])
  \/ \E f \in Filters : FilterRead(f) \/ FilterReturn(f) \/ FilterErase(f)
  \/ \E r \in Ranks :
       \/ CheckFilters(r)
       \/ Announce(r)
       \/ AnnounceNext(r)
       \/ Exit(r)
       \/ StartSend(r)
       \/ \E p \in pending[r] : FinishSend(r, p)
       \/ HandleConsole(r)
       \/ HandleProxy(r)
  \/ \E i, r \in Ranks : Receive(i, r) \/ Defer(i, r)
  \/ ToConsoleThread
  \/ CloseConsole
  \/ ConsoleFinish
  \/ FromConsoleThread
  \/ \E c \in Clusters : ProxyWriter(c)
  \/ Idle

\* The main loop never blocks and polls, so every segment that stays enabled
\* is run; the filter and bridge threads are scheduled by the OS.  MPI
\* completes an Isend once the message has been received.  Filters keep
\* reading and return at the end of their input; nothing makes one start a
\* write, but a write it has started is finished when there is room.
Fairness ==
  /\ \A f \in Filters : /\ WF_vars(FilterRead(f))
                        /\ WF_vars(FilterReturn(f))
                        /\ WF_vars(FilterErase(f))
  /\ \A s \in Streams :
       /\ WF_vars(blocked[s[1]] = s[2] /\ FilterWrite(s[1], s[2]))
       /\ WF_vars(FilterClose(s[1], s[2]))
  /\ \A r \in Ranks :
       /\ WF_vars(CheckFilters(r))
       /\ WF_vars(Announce(r))
       /\ WF_vars(AnnounceNext(r))
       /\ WF_vars(Exit(r))
       /\ WF_vars(StartSend(r))
       /\ WF_vars(\E p \in pending[r] : Received(r, p) /\ FinishSend(r, p))
       /\ WF_vars(HandleConsole(r))
       /\ WF_vars(HandleProxy(r))
       /\ \A i \in Ranks : WF_vars(Receive(i, r))
  /\ WF_vars(ToConsoleThread)
  /\ WF_vars(CloseConsole)
  /\ WF_vars(ConsoleFinish)
  /\ WF_vars(FromConsoleThread)
  /\ \A c \in Clusters : WF_vars(ProxyWriter(c))

Spec     == Init /\ [][Next]_vars
FairSpec == Spec /\ Fairness

-----------------------------------------------------------------------------
(* Properties                                                              *)

FilterTypes ==
  /\ status \in [Filters -> StatusValues]
  /\ blocked \in [Filters -> Filters \cup {NoFilter}]
  /\ closed \in [Filters -> SUBSET Filters]
  /\ wrote \in [Streams -> Nat]
  /\ got \in [Streams -> Nat]

PortTypes ==
  /\ inq \in [Filters -> Seq(InBuf)]
  /\ putters \in [Filters -> SUBSET Filters]
  /\ usage \in [Filters -> Int]
  /\ rtUsage \in [Ranks -> Int]

MpiTypes ==
  /\ outq \in [Ranks -> Seq(Packet)]
  /\ chan \in [Ranks -> [Ranks -> Seq(Packet)]]
  /\ pending \in [Ranks -> SUBSET Packet]
  /\ deferred \in [Ranks -> SUBSET Ranks]

BridgeTypes ==
  /\ toConsole \in Seq(Packet)
  /\ consoleOut \in Seq(Packet)
  /\ fromConsole \in Seq(Packet)
  /\ fromOpen \in BOOLEAN
  /\ consoleSent \in BOOLEAN
  /\ consoleClosed \in BOOLEAN
  /\ toProxy \in [Clusters -> Seq(Packet)]
  /\ proxyIn \in [Clusters -> Seq(Packet)]

\* A rank never addresses a done packet to itself.
LoopTypes ==
  /\ anyRunning \in [Ranks -> BOOLEAN]
  /\ announced \in [Ranks -> NotAnnounced .. NumRanks]
  /\ \A r \in Ranks : announced[r] # r
  /\ doneReceived \in [Ranks -> Nat]
  /\ routed \in [Ranks -> Nat]
  /\ exited \in [Ranks -> BOOLEAN]

\* Every variable has its type.
TypeOK == FilterTypes /\ PortTypes /\ MpiTypes /\ BridgeTypes /\ LoopTypes

\* Once a rank has begun to tell the others that its filters are done, all its
\* filter threads have finished and its out-queue stays empty: the done packet
\* is the last thing that can leave the rank, although filter threads and the
\* main loop run concurrently (dcmpiruntime.cpp:559-563, 592-607).
QuietOnceAnnounced ==
  \A r \in Ranks : SentDone(r) =>
    /\ \A f \in FiltersOn(r) : status[f] = "erased"
    /\ outq[r] = <<>>

\* The nodes a packet for d has still to visit when it leaves node n.
Route(n, d) ==
  (IF n # Console /\ d # Console /\ ClusterRank(n) = ClusterRank(d)
   THEN {d}
   ELSE {Gateway(ClusterRank(n)), Gateway(ClusterRank(d)), d}) \ {n}

SeqRange(q) == {q[k] : k \in DOMAIN q}

\* All packets in flight, each with the last node that has handled it.
InFlight ==
  UNION {
    UNION {SeqRange(outq[r]) \X {r} : r \in Ranks},
    UNION {SeqRange(chan[i][r]) \X {i} : i, r \in Ranks},
    SeqRange(toConsole) \X {0},
    (SeqRange(consoleOut) \cup SeqRange(fromConsole)) \X {Console},
    UNION {SeqRange(toProxy[c]) \X {Gateway(c)} : c \in Clusters},
    UNION {{<<p, Gateway(ClusterRank(p.from))>> : p \in SeqRange(proxyIn[c])} :
             c \in Clusters} }

\* A rank that has left its main loop ("we'll receive nothing more from
\* others", "we've routed all we need to": dcmpiruntime.cpp:595, 605) is not
\* on the way of any packet still in flight, neither as its destination nor
\* as a router, and its own filters have all finished.
ExitedRankIsNotNeeded ==
  \A r \in Ranks : exited[r] =>
    /\ \A m \in InFlight : r \notin Route(m[2], m[1].to)
    /\ \A f \in FiltersOn(r) : status[f] = "erased"
    /\ deferred[r] = {}

\* The buffers rank r holds, by the MUID they are charged to: what one of its
\* filters wrote and has not been read or sent, and what came off a link and
\* has not been read or passed on.
ChargedTo(r, p) == IF p.type # "DCBUF" THEN NoMuid
                   ELSE IF p.from = r THEN p.writer ELSE RuntimeMuid
CountIn(r, m, q) == Cardinality({k \in DOMAIN q : ChargedTo(r, q[k]) = m})
Held(r, m) ==
  CountIn(r, m, outq[r])
  + Cardinality({p \in pending[r] : ChargedTo(r, p) = m})
  + Cardinality({x \in UNION {{f} \X DOMAIN inq[f] : f \in FiltersOn(r)} :
                   inq[x[1]][x[2]].muid = m})
  + (IF r = 0 THEN CountIn(r, m, toConsole) + CountIn(r, m, fromConsole) ELSE 0)
  + (IF IsGateway(r) THEN CountIn(r, m, toProxy[ClusterOf[r]]) ELSE 0)

\* Every MemUsage counter of a rank equals the buffers it is charged for, so
\* that reduce() never drives it below zero (assert in MemUsage.cpp:75), no
\* credit leaks, and no counter passes its threshold.  A buffer changes owner
\* at every hop, and four threads charge and release (MemUsage.h:9-22).
MemoryBalanced ==
  /\ \A r \in Ranks : rtUsage[r] = Held(r, RuntimeMuid) /\ rtUsage[r] <= RuntimeMem
  /\ \A f \in Filters :
       IF HostOf[f] = Console THEN usage[f] = 0
       ELSE usage[f] = Held(HostOf[f], f) /\ usage[f] <= FilterMem

\* Buffers of one stream are delivered once each and in the order they were
\* written, whatever the number of hops and of memory deferrals on their way:
\* those that wait in the in-port are the next ones, without a gap.  And its end
\* comes last: a writer disappears from the putters of an in-port, which is what
\* readers wait for (read_until_upstream_exit, readany), only when all that it
\* wrote to the port has arrived there.
Waiting(w, g) == {k \in DOMAIN inq[g] : inq[g][k].writer = w}
StreamsInOrder ==
  \A s \in Streams : LET waiting == Waiting(s[1], s[2])
                         q       == inq[s[2]]
    IN
    /\ \A j, k \in waiting : j < k => q[j].seq < q[k].seq
    /\ \E last \in got[s] .. wrote[s] :
         /\ {q[k].seq : k \in waiting} = got[s] + 1 .. last
         /\ s[1] \notin putters[s[2]] => last = wrote[s]

\* A receive that is deferred because the rank's runtime has no memory left is
\* completed some day: "wait for memory usage to be reduced before continuing"
\* (dcmpiruntime.cpp:684-685).
DeferredReceiveResumes ==
  \A i, r \in Ranks : i \in deferred[r] ~> i \notin deferred[r]

\* The same comment as a safety property: while a receive waits for memory,
\* something in the job can still move that could reduce its usage.
DeferralNeverStallsJob ==
  (\E r \in Ranks : deferred[r] # {}) => ENABLED Next

\* Every job whose filters return ends: every rank leaves its main loop and
\* the console's bridge threads see CLOSE.
JobEnds == <>Finished

\* The runtime implements the abstract end of a job: no rank leaves its main
\* loop while a filter of any rank is still running.
JT == INSTANCE JobTermination
        WITH running <- {f \in Filters : status[f] # "erased"},
             left    <- {r \in Ranks : exited[r]}
ImplementsJobTermination == JT!Spec

=============================================================================

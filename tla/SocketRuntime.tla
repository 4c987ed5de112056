--------------------------- MODULE SocketRuntime ---------------------------
(***************************************************************************)
(* The socket (TCP) runtime of one cluster: dcmpi_socket_mainloop.         *)
(*                                                                         *)
(* Every rank runs three kinds of threads: its filters, which put packets  *)
(* into single_mpi_outqueue; outq_handler, which takes them off and writes *)
(* them to the sockets; and the main loop, which reads the sockets, routes *)
(* what comes from the console and sends the ALL_MY_FILTERS_DONE packets.  *)
(* outq_handler and the main loop call the same deliver_elsewhere and write *)
(* to the same rank_fds, a header and then a body, without a lock.         *)
(*                                                                         *)
(* One cluster, the console filter attached to rank 0.  What goes to the   *)
(* console is only counted: mpi_to_console_queue and its thread are those  *)
(* of module Runtime, as are jobs with streams into the console.           *)
(***************************************************************************)
EXTENDS Integers, Sequences, FiniteSets

CONSTANTS
  NumRanks,        \* size: ranks of the job, the console's excluded
  ConsolePresent,  \* console_filter_present
  Filters,         \* gftids of the filter instances
  HostOf,          \* dcmpi_rank of every filter (-1: the console filter)
  Streams,         \* the resolved port connections, <<writer, reader>>
  EarlyExit,       \* filters that may return with input unread
  MaxWrites,       \* bound: buffers written on each stream
  FilterMem,       \* memory_threshold of a filter, in buffers
  RuntimeMem,      \* memory_threshold of a rank's runtime, in buffers
  WireCap          \* bodies a connection holds before a write blocks

Console == -1
Ranks   == 0 .. NumRanks - 1
Nodes   == IF ConsolePresent THEN Ranks \cup {Console} ELSE Ranks

NoFilter == "none"

ASSUME JobAssumption ==
  /\ NumRanks \in Nat \ {0}
  /\ ConsolePresent \in BOOLEAN
  /\ HostOf \in [Filters -> Nodes]
  /\ Streams \subseteq Filters \X Filters
  /\ \A s \in Streams : HostOf[s[2]] # Console
  /\ \A f, g \in Filters : HostOf[f] = Console /\ HostOf[g] = Console => f = g
  /\ \A r \in Ranks \ {0} : \E f \in Filters : HostOf[f] = r
  /\ EarlyExit \subseteq Filters
  /\ MaxWrites \in [Streams -> Nat] /\ WireCap \in Nat \ {0}
  /\ FilterMem \in Nat \ {0} /\ RuntimeMem \in Nat \ {0}
  /\ NoFilter \notin Filters

Readers(w) == {s[2] : s \in {t \in Streams : t[1] = w}}
Writers(g) == {s[1] : s \in {t \in Streams : t[2] = g}}
FiltersOn(n) == {f \in Filters : HostOf[f] = n}

Packet == [type : {"DCBUF", "REMOVE_PUTTER", "ALL_MY_FILTERS_DONE"},
           from : Ranks \cup {Console}, to : Ranks \cup {Console},
           writer : Filters \cup {NoFilter}, reader : Filters \cup {NoFilter},
           seq : Nat]
DcBuf(w, g, n) == [type |-> "DCBUF", from |-> HostOf[w], to |-> HostOf[g],
                   writer |-> w, reader |-> g, seq |-> n]
RemovePutter(w, g) == [type |-> "REMOVE_PUTTER", from |-> HostOf[w], to |-> HostOf[g],
                       writer |-> w, reader |-> g, seq |-> 0]
AllDone(m, n) == [type |-> "ALL_MY_FILTERS_DONE", from |-> m, to |-> n,
                  writer |-> NoFilter, reader |-> NoFilter, seq |-> 0]
NoPacket == [type |-> "none"]

\* What is on a connection: whole headers and bodies of packets.
Item == [part : {"header", "body"}, packet : Packet]
HeaderOf(p) == [part |-> "header", packet |-> p]
BodyOf(p)   == [part |-> "body", packet |-> p]

\* The threads that write to the sockets of a rank.
SenderThreads == {"main", "outq"}

VARIABLES
  status,       \* filter thread: running process(), closing its ports, erased
  blocked,      \* reader of the stream whose write waits for memory
  closed,       \* readers whose stream the closing filter has closed
  wrote,        \* buffers written on each stream so far
  usage,        \* MUID_MemUsage[f].current_usage, in buffers
  inq,          \* in-port queue of every filter: <<writer, seq, who pays>>
  putters,      \* putters of that queue
  outq,         \* single_mpi_outqueue of every rank
  sending,      \* packet a thread is writing to a socket
  stage,        \* the part of it that is to be written next
  wire,         \* the connection from one rank to another
  heads,        \* heads_without_bodies
  reading,      \* the rank whose body the main loop is blocked on, or itself
  rtUsage,      \* memory the rank's runtime is charged for, in buffers
  fromConsole,  \* mpi_from_console_queue of rank 0
  fromOpen,     \* it has its putter
  announced,    \* next node to get an ALL_MY_FILTERS_DONE packet
  doneReceived, \* num_all_filters_done_received
  routed,       \* all_filter_done_messages_routed
  exited,       \* the rank has left the main loop
  unknown       \* the rank has taken other bytes for a packet's header or body

filterVars == <<status, blocked, closed, wrote, usage>>
portVars   == <<inq, putters>>
wireVars   == <<sending, stage, wire>>
consoleVars == <<fromConsole, fromOpen>>
vars == <<filterVars, portVars, outq, wireVars, heads, reading, rtUsage, consoleVars,
          announced, doneReceived, routed, exited, unknown>>

NotAnnounced == -2

-----------------------------------------------------------------------------
(* Filter threads, of the ranks and of the console process                 *)

HasRoom(r) == rtUsage[r] < RuntimeMem

\* A buffer from the console filter reaches rank 0 once MPIFromConsoleThread
\* has memory for it.
CanPay(w) == IF HostOf[w] = Console THEN HasRoom(0) ELSE usage[w] < FilterMem

\* in MemUsage.accumulate: the thread can do nothing else until it has room
FilterBlock(w, g) ==
  /\ status[w] = "process" /\ blocked[w] = NoFilter
  /\ <<w, g>> \in Streams /\ wrote[<<w, g>>] < MaxWrites[<<w, g>>]
  /\ ~CanPay(w)
  /\ blocked' = [blocked EXCEPT ![w] = g]
  /\ UNCHANGED <<status, closed, wrote, usage, portVars, outq, wireVars, heads, reading,
                 rtUsage, consoleVars, announced, doneReceived, routed, exited, unknown>>

\* DCFilter::write, with the memory it has asked for
FilterWrite(w, g) ==
  LET n == wrote[<<w, g>>] + 1 IN
  /\ status[w] = "process" /\ blocked[w] \in {NoFilter, g}
  /\ <<w, g>> \in Streams /\ n <= MaxWrites[<<w, g>>]
  /\ CanPay(w)
  /\ blocked' = [blocked EXCEPT ![w] = NoFilter]
  /\ wrote' = [wrote EXCEPT ![<<w, g>>] = n]
  /\ \/ /\ HostOf[w] = HostOf[g]
        /\ usage' = [usage EXCEPT ![w] = @ + 1]
        /\ inq' = [inq EXCEPT ![g] = Append(@, <<w, n, "writer">>)]
        /\ UNCHANGED <<outq, fromConsole, rtUsage>>
     \/ /\ HostOf[w] # HostOf[g] /\ HostOf[w] # Console
        /\ usage' = [usage EXCEPT ![w] = @ + 1]
        /\ outq' = [outq EXCEPT ![HostOf[w]] = Append(@, DcBuf(w, g, n))]
        /\ UNCHANGED <<inq, fromConsole, rtUsage>>
     \/ /\ HostOf[w] = Console
        /\ rtUsage' = [rtUsage EXCEPT ![0] = @ + 1]
        /\ fromConsole' = Append(fromConsole, DcBuf(w, g, n))
        /\ UNCHANGED <<usage, inq, outq>>
  /\ UNCHANGED <<status, closed, putters, wireVars, heads, reading, fromOpen, announced,
                 doneReceived, routed, exited, unknown>>

\* the oldest buffer of the in-port; its memory is given back
FilterRead(g) ==
  LET b == Head(inq[g]) IN
  /\ status[g] = "process" /\ blocked[g] = NoFilter
  /\ inq[g] # <<>>
  /\ inq' = [inq EXCEPT ![g] = Tail(@)]
  /\ \/ /\ b[3] = "runtime"
        /\ rtUsage' = [rtUsage EXCEPT ![HostOf[g]] = @ - 1]
        /\ UNCHANGED usage
     \/ /\ b[3] = "writer"
        /\ usage' = [usage EXCEPT ![b[1]] = @ - 1]
        /\ UNCHANGED rtUsage
  /\ UNCHANGED <<status, blocked, closed, wrote, putters, outq, wireVars, heads, reading,
                 consoleVars, announced, doneReceived, routed, exited, unknown>>

FilterReturn(f) ==
  /\ status[f] = "process" /\ blocked[f] = NoFilter
  /\ f \in EarlyExit \/ (putters[f] = {} /\ inq[f] = <<>>)
  /\ status' = [status EXCEPT ![f] = "closing"]
  /\ UNCHANGED <<blocked, closed, wrote, usage, portVars, outq, wireVars, heads, reading,
                 rtUsage, consoleVars, announced, doneReceived, routed, exited, unknown>>

\* DCFilterThread::run, end: remove_putter on one target of an out-port
FilterClose(w, g) ==
  /\ status[w] = "closing"
  /\ g \in Readers(w) \ closed[w]
  /\ closed' = [closed EXCEPT ![w] = @ \cup {g}]
  /\ \/ /\ HostOf[w] = HostOf[g]
        /\ putters' = [putters EXCEPT ![g] = @ \ {w}]
        /\ UNCHANGED <<outq, fromConsole>>
     \/ /\ HostOf[w] # HostOf[g] /\ HostOf[w] # Console
        /\ outq' = [outq EXCEPT ![HostOf[w]] = Append(@, RemovePutter(w, g))]
        /\ UNCHANGED <<putters, fromConsole>>
     \/ /\ HostOf[w] = Console
        /\ fromConsole' = Append(fromConsole, RemovePutter(w, g))
        /\ UNCHANGED <<putters, outq>>
  /\ UNCHANGED <<status, blocked, wrote, usage, inq, wireVars, heads, reading, rtUsage,
                 fromOpen, announced, doneReceived, routed, exited, unknown>>

FilterErase(f) ==
  /\ status[f] = "closing"
  /\ closed[f] = Readers(f)
  /\ status' = [status EXCEPT ![f] = "erased"]
  /\ UNCHANGED <<blocked, closed, wrote, usage, portVars, outq, wireVars, heads, reading,
                 rtUsage, consoleVars, announced, doneReceived, routed, exited, unknown>>

\* DCLayout::execute3, once the console filter has returned
ConsoleFinish ==
  /\ fromOpen
  /\ \A f \in FiltersOn(Console) : status[f] = "erased"
  /\ fromConsole' = fromConsole \o (IF ConsolePresent
                                    THEN [i \in 1 .. NumRanks |-> AllDone(Console, i - 1)]
                                    ELSE <<>>)
  /\ fromOpen' = FALSE
  /\ UNCHANGED <<filterVars, portVars, outq, wireVars, heads, reading, rtUsage, announced,
                 doneReceived, routed, exited, unknown>>

-----------------------------------------------------------------------------
(* dcmpisock_deliver_elsewhere: a thread t of rank r counts a done packet it *)
(* routes, hands the packet to the console bridge or writes it to a socket. *)

\* Mutant: rank 0 expects to route for itself, too.
ToRouteOwn(r) == IF r = 0 /\ ConsolePresent THEN 2 * NumRanks ELSE 0

ToRoute(r) == IF r = 0 /\ ConsolePresent THEN 2 * (NumRanks - 1) ELSE 0
NumDoneExpected == Cardinality(Nodes) - 1

\* everything that is not for this cluster's ranks goes through rank 0
OutRank(p) == IF p.to = Console THEN 0 ELSE p.to

StartDelivery(t, r, p) ==
  /\ routed' = IF p.type = "ALL_MY_FILTERS_DONE" /\ p.from # r
               THEN [routed EXCEPT ![r] = @ + 1] ELSE routed
  /\ IF p.to = Console /\ r = 0
     THEN UNCHANGED <<sending, stage>>
     ELSE /\ sending' = [sending EXCEPT ![t][r] = p]
          /\ stage' = [stage EXCEPT ![t][r] = "header"]

\* Headers are small: only bodies fill a connection.
WireFull(i, r) ==
  Cardinality({k \in DOMAIN wire[i][r] : wire[i][r][k].part = "body"}) >= WireCap

\* DC_write_all of the header: it blocks while the connection is full
WriteHeader(t, r) ==
  LET p == sending[t][r] IN
  /\ p # NoPacket /\ stage[t][r] = "header"
  /\ ~WireFull(r, OutRank(p))
  /\ wire' = [wire EXCEPT ![r][OutRank(p)] = Append(@, HeaderOf(p))]
  /\ IF p.type = "DCBUF"
     THEN stage' = [stage EXCEPT ![t][r] = "body"] /\ UNCHANGED sending
     ELSE sending' = [sending EXCEPT ![t][r] = NoPacket] /\ UNCHANGED stage
  /\ UNCHANGED <<filterVars, portVars, outq, heads, reading, rtUsage, consoleVars, announced,
                 doneReceived, routed, exited, unknown>>

\* Mutant: every body is taken for one the rank has passed on.
WriteBodyPassedOn(t, r) ==
  LET p == sending[t][r] IN
  /\ p # NoPacket /\ stage[t][r] = "body"
  /\ ~WireFull(r, OutRank(p))
  /\ wire' = [wire EXCEPT ![r][OutRank(p)] = Append(@, BodyOf(p))]
  /\ sending' = [sending EXCEPT ![t][r] = NoPacket]
  /\ rtUsage' = [rtUsage EXCEPT ![r] = @ - 1]
  /\ UNCHANGED <<filterVars, portVars, outq, stage, heads, reading, consoleVars, announced,
                 doneReceived, routed, exited, unknown>>

\* and of the body, whose memory is then given back
WriteBody(t, r) ==
  LET p == sending[t][r] IN
  /\ p # NoPacket /\ stage[t][r] = "body"
  /\ ~WireFull(r, OutRank(p))
  /\ wire' = [wire EXCEPT ![r][OutRank(p)] = Append(@, BodyOf(p))]
  /\ sending' = [sending EXCEPT ![t][r] = NoPacket]
  /\ \/ /\ p.from = Console
        /\ rtUsage' = [rtUsage EXCEPT ![r] = @ - 1]
        /\ UNCHANGED usage
     \/ /\ p.from # Console
        /\ usage' = [usage EXCEPT ![p.writer] = @ - 1]
        /\ UNCHANGED rtUsage
  /\ UNCHANGED <<status, blocked, closed, wrote, portVars, outq, stage, heads, reading,
                 consoleVars, announced, doneReceived, routed, exited, unknown>>

\* Mutant: the newest packet goes out first.
TakeOutNewest(r) ==
  /\ ~exited[r]
  /\ sending["outq"][r] = NoPacket
  /\ outq[r] # <<>>
  /\ outq' = [outq EXCEPT ![r] = SubSeq(@, 1, Len(@) - 1)]
  /\ StartDelivery("outq", r, outq[r][Len(outq[r])])
  /\ UNCHANGED <<filterVars, portVars, wire, heads, reading, rtUsage, consoleVars, announced,
                 doneReceived, exited, unknown>>

\* outq_handler::run: the next packet.  After the main loop has exited the
\* queue holds the NULL that ends the thread.
TakeOut(r) ==
  /\ ~exited[r]
  /\ sending["outq"][r] = NoPacket
  /\ outq[r] # <<>>
  /\ outq' = [outq EXCEPT ![r] = Tail(@)]
  /\ StartDelivery("outq", r, Head(outq[r]))
  /\ UNCHANGED <<filterVars, portVars, wire, heads, reading, rtUsage, consoleVars, announced,
                 doneReceived, exited, unknown>>

-----------------------------------------------------------------------------
(* The main loop of rank r.  It does nothing else while it is blocked in a  *)
(* write or in the read of a body, and it runs the loop that sends the done *)
(* packets to its end.                                                     *)

Free(r) == /\ ~exited[r] /\ ~unknown[r]
           /\ sending["main"][r] = NoPacket
           /\ reading[r] = r
SentDone(r) == announced[r] # NotAnnounced
Announcing(r) == announced[r] \in Nodes
InLoop(r) == Free(r) /\ ~Announcing(r)

NextAnnounced(r, n) == IF n + 1 = r THEN n + 2 ELSE n + 1
FirstAnnounced(r)   == NextAnnounced(r, IF ConsolePresent THEN Console - 1 ELSE Console)

\* Mutant: the out-queue is not looked at.
AnnounceEarly(r) ==
  /\ InLoop(r) /\ ~SentDone(r)
  /\ \A f \in FiltersOn(r) : status[f] = "erased"
  /\ announced' = [announced EXCEPT ![r] = FirstAnnounced(r)]
  /\ UNCHANGED <<filterVars, portVars, outq, wireVars, heads, reading, rtUsage, consoleVars,
                 doneReceived, routed, exited, unknown>>

\* no filter is running, the out-queue is empty: begin to announce
Announce(r) ==
  /\ InLoop(r) /\ ~SentDone(r)
  /\ \A f \in FiltersOn(r) : status[f] = "erased"
  /\ outq[r] = <<>>
  /\ announced' = [announced EXCEPT ![r] = FirstAnnounced(r)]
  /\ UNCHANGED <<filterVars, portVars, outq, wireVars, heads, reading, rtUsage, consoleVars,
                 doneReceived, routed, exited, unknown>>

AnnounceNext(r) ==
  /\ Free(r) /\ Announcing(r)
  /\ StartDelivery("main", r, AllDone(r, announced[r]))
  /\ announced' = [announced EXCEPT ![r] = NextAnnounced(r, @)]
  /\ UNCHANGED <<filterVars, portVars, outq, wire, heads, reading, rtUsage, consoleVars,
                 doneReceived, exited, unknown>>

\* Mutant: a rank does not wait for the others.
ExitUncounted(r) ==
  /\ InLoop(r) /\ SentDone(r)
  /\ outq[r] = <<>>
  /\ routed[r] = ToRoute(r)
  /\ exited' = [exited EXCEPT ![r] = TRUE]
  /\ UNCHANGED <<filterVars, portVars, outq, wireVars, heads, reading, rtUsage, consoleVars,
                 announced, doneReceived, routed, unknown>>

\* the conditions for breaking out of the main loop
Exit(r) ==
  /\ InLoop(r) /\ SentDone(r)
  /\ doneReceived[r] = NumDoneExpected
  /\ outq[r] = <<>>
  /\ routed[r] = ToRoute(r)
  /\ r = 0 => ~fromOpen /\ fromConsole = <<>>
  /\ exited' = [exited EXCEPT ![r] = TRUE]
  /\ UNCHANGED <<filterVars, portVars, outq, wireVars, heads, reading, rtUsage, consoleVars,
                 announced, doneReceived, routed, unknown>>

\* dcmpisock_deliver_in
DeliverIn(r, p) ==
  /\ inq' = IF p.type = "DCBUF"
            THEN [inq EXCEPT ![p.reader] = Append(@, <<p.writer, p.seq, "runtime">>)]
            ELSE inq
  /\ putters' = IF p.type = "REMOVE_PUTTER"
                THEN [putters EXCEPT ![p.reader] = @ \ {p.writer}] ELSE putters
  /\ doneReceived' = IF p.type = "ALL_MY_FILTERS_DONE"
                     THEN [doneReceived EXCEPT ![r] = @ + 1] ELSE doneReceived

Deliver(r, p) ==
  \/ p.to = r /\ DeliverIn(r, p) /\ UNCHANGED <<routed, sending, stage>>
  \/ p.to # r /\ StartDelivery("main", r, p) /\ UNCHANGED <<portVars, doneReceived>>

Misread(r) ==
  /\ unknown' = [unknown EXCEPT ![r] = TRUE]
  /\ UNCHANGED <<portVars, doneReceived, routed, wireVars, heads, reading, rtUsage>>

TakeItem(i, r) == wire' = [wire EXCEPT ![i][r] = Tail(@)]

\* Having the header of a buffer, the loop goes on to read its body at once if
\* the runtime has memory for it, and otherwise in a later pass.
BeginBody(i, r) ==
  \/ /\ HasRoom(r)
     /\ rtUsage' = [rtUsage EXCEPT ![r] = @ + 1]
     /\ reading' = [reading EXCEPT ![r] = i]
  \/ ~HasRoom(r) /\ UNCHANGED <<rtUsage, reading>>

\* data is ready on rank_fds[i] and no header is kept: read one.  The bytes
\* need not be a header.
ReadHeader(i, r) ==
  LET item == Head(wire[i][r])
      p    == item.packet
  IN
  /\ InLoop(r)
  /\ wire[i][r] # <<>> /\ heads[r][i] = NoPacket
  /\ \/ /\ item.part = "body"
        /\ Misread(r)
     \/ /\ item.part = "header" /\ p.type = "DCBUF"
        /\ heads' = [heads EXCEPT ![r][i] = p]
        /\ BeginBody(i, r)
        /\ TakeItem(i, r)
        /\ UNCHANGED <<portVars, doneReceived, routed, sending, stage, unknown>>
     \/ /\ item.part = "header" /\ p.type # "DCBUF"
        /\ Deliver(r, p)
        /\ TakeItem(i, r)
        /\ UNCHANGED <<heads, reading, rtUsage, unknown>>
  /\ UNCHANGED <<filterVars, outq, consoleVars, announced, exited>>

\* Mutant: the memory is not asked for again.
ReadDeferredUncharged(i, r) ==
  /\ InLoop(r)
  /\ wire[i][r] # <<>> /\ heads[r][i] # NoPacket
  /\ reading' = [reading EXCEPT ![r] = i]
  /\ UNCHANGED <<filterVars, portVars, outq, wireVars, heads, rtUsage, consoleVars, announced,
                 doneReceived, routed, exited, unknown>>

\* a header is kept, data is ready and there is memory for the body now
ReadDeferred(i, r) ==
  /\ InLoop(r)
  /\ wire[i][r] # <<>> /\ heads[r][i] # NoPacket
  /\ HasRoom(r)
  /\ rtUsage' = [rtUsage EXCEPT ![r] = @ + 1]
  /\ reading' = [reading EXCEPT ![r] = i]
  /\ UNCHANGED <<filterVars, portVars, outq, wireVars, heads, consoleVars, announced,
                 doneReceived, routed, exited, unknown>>

\* DC_read_all of the body returns what comes next on the connection
ReadBody(r) ==
  LET i == reading[r]
      p == heads[r][i]
  IN
  /\ ~unknown[r] /\ i # r
  /\ wire[i][r] # <<>>
  /\ \/ /\ Head(wire[i][r]) # BodyOf(p)
        /\ Misread(r)
     \/ /\ Head(wire[i][r]) = BodyOf(p)
        /\ Deliver(r, p)
        /\ TakeItem(i, r)
        /\ heads' = [heads EXCEPT ![r][i] = NoPacket]
        /\ reading' = [reading EXCEPT ![r] = r]
        /\ UNCHANGED <<rtUsage, unknown>>
  /\ UNCHANGED <<filterVars, outq, consoleVars, announced, exited>>

\* handle incoming queue from console
HandleConsole ==
  /\ InLoop(0)
  /\ fromConsole # <<>>
  /\ fromConsole' = Tail(fromConsole)
  /\ Deliver(0, Head(fromConsole))
  /\ UNCHANGED <<filterVars, outq, wire, heads, reading, rtUsage, fromOpen, announced,
                 exited, unknown>>

-----------------------------------------------------------------------------
Init ==
  /\ status = [f \in Filters |-> "process"]
  /\ blocked = [f \in Filters |-> NoFilter]
  /\ closed = [f \in Filters |-> {}]
  /\ wrote = [s \in Streams |-> 0]
  /\ usage = [f \in Filters |-> 0]
  /\ inq = [f \in Filters |-> <<>>]
  /\ putters = [f \in Filters |-> Writers(f)]
  /\ outq = [r \in Ranks |-> <<>>]
  /\ sending = [t \in SenderThreads |-> [r \in Ranks |-> NoPacket]]
  /\ stage = [t \in SenderThreads |-> [r \in Ranks |-> "header"]]
  /\ wire = [i \in Ranks |-> [r \in Ranks |-> <<>>]]
  /\ heads = [r \in Ranks |-> [i \in Ranks |-> NoPacket]]
  /\ reading = [r \in Ranks |-> r]
  /\ rtUsage = [r \in Ranks |-> 0]
  /\ fromConsole = <<>>
  /\ fromOpen = TRUE
  /\ announced = [r \in Ranks |-> NotAnnounced]
  /\ doneReceived = [r \in Ranks |-> 0]
  /\ routed = [r \in Ranks |-> 0]
  /\ exited = [r \in Ranks |-> FALSE]
  /\ unknown = [r \in Ranks |-> FALSE]

\* Every rank is out of its main loop; or one has read bytes it cannot make
\* sense of, and what it does from there on is not modelled.
Finished == \A r \in Ranks : exited[r]
Stop == (Finished \/ \E r \in Ranks : unknown[r]) /\ UNCHANGED vars

Next ==
  \/ \E s \in Streams : \/ FilterBlock(s[1], s[2])
                         \/ FilterWrite(s[1], s[2])
                         \/ FilterClose(s[1], s[2])
  \/ \E f \in Filters : FilterRead(f) \/ FilterReturn(f) \/ FilterErase(f)
  \/ ConsoleFinish
  \/ \E r \in Ranks :
       \/ \E t \in SenderThreads : WriteHeader(t, r) \/ WriteBody(t, r)
       \/ TakeOut(r)
       \/ Announce(r)
       \/ AnnounceNext(r)
       \/ Exit(r)
       \/ ReadBody(r)
  \/ \E i, r \in Ranks : ReadHeader(i, r) \/ ReadDeferred(i, r)
  \/ HandleConsole
  \/ Stop

Spec == Init /\ [][Next]_vars

\* The main loop polls and the OS schedules every thread; a write goes on when
\* its connection has room.  Filters read on and return at the end of their
\* input; nothing makes one start a write, but a write it has started is
\* finished when there is memory.
FairSpec ==
  /\ Spec
  /\ \A f \in Filters : /\ WF_vars(FilterRead(f))
                        /\ WF_vars(FilterReturn(f))
                        /\ WF_vars(FilterErase(f))
  /\ \A s \in Streams : /\ WF_vars(blocked[s[1]] = s[2] /\ FilterWrite(s[1], s[2]))
                        /\ WF_vars(FilterClose(s[1], s[2]))
  /\ WF_vars(ConsoleFinish)
  /\ \A r \in Ranks :
       /\ \A t \in SenderThreads : WF_vars(WriteHeader(t, r)) /\ WF_vars(WriteBody(t, r))
       /\ WF_vars(TakeOut(r))
       /\ WF_vars(Announce(r)) /\ WF_vars(AnnounceNext(r)) /\ WF_vars(Exit(r))
       /\ WF_vars(ReadBody(r))
       /\ \A i \in Ranks : WF_vars(ReadHeader(i, r)) /\ WF_vars(ReadDeferred(i, r))
  /\ WF_vars(HandleConsole)

-----------------------------------------------------------------------------
(* Properties                                                              *)

NodePacket == Packet \cup {NoPacket}

\* Every variable has its type.
TypeOK ==
  /\ status \in [Filters -> {"process", "closing", "erased"}]
  /\ blocked \in [Filters -> Filters \cup {NoFilter}]
  /\ closed \in [Filters -> SUBSET Filters]
  /\ wrote \in [Streams -> Nat]
  /\ usage \in [Filters -> Int]
  /\ \A g \in Filters : \A k \in DOMAIN inq[g] :
       inq[g][k] \in Filters \X Nat \X {"writer", "runtime"}
  /\ putters \in [Filters -> SUBSET Filters]
  /\ outq \in [Ranks -> Seq(Packet)]
  /\ sending \in [SenderThreads -> [Ranks -> NodePacket]]
  /\ stage \in [SenderThreads -> [Ranks -> {"header", "body"}]]
  /\ wire \in [Ranks -> [Ranks -> Seq(Item)]]
  /\ heads \in [Ranks -> [Ranks -> NodePacket]]
  /\ reading \in [Ranks -> Ranks]
  /\ rtUsage \in [Ranks -> Int]
  /\ fromConsole \in Seq(Packet)
  /\ fromOpen \in BOOLEAN
  /\ announced \in [Ranks -> NotAnnounced .. NumRanks]
  /\ \A r \in Ranks : announced[r] # r
  /\ doneReceived \in [Ranks -> Nat]
  /\ routed \in [Ranks -> Nat]
  /\ exited \in [Ranks -> BOOLEAN]
  /\ unknown \in [Ranks -> BOOLEAN]

\* What a rank reads as a header is the header of a packet, and what it reads
\* as a body the body of that packet: every type deliver_in meets is one of
\* the three ("default: assert(0)", dcmpiruntime-socket.cpp:178-179).
PacketsStayWhole == \A r \in Ranks : ~unknown[r]

SeqRange(q) == {q[k] : k \in DOMAIN q}

\* Packets on their way, a buffer's header and body together.
OnTheWay ==
  (UNION {SeqRange(outq[r]) : r \in Ranks})
  \cup ({sending[t][r] : t \in SenderThreads, r \in Ranks} \ {NoPacket})
  \cup (UNION {{x.packet : x \in SeqRange(wire[i][r])} : i, r \in Ranks})
  \cup ({heads[r][i] : r, i \in Ranks} \ {NoPacket})
  \cup SeqRange(fromConsole)

\* The end of a stream arrives after all its buffers, although they go through
\* a queue, two threads and a connection.
EndOfStreamIsLast ==
  \A s \in Streams : s[1] \notin putters[s[2]] =>
    \A p \in OnTheWay : ~(p.type = "DCBUF" /\ p.writer = s[1] /\ p.reader = s[2])

\* "we'll receive nothing more from others" (dcmpiruntime-socket.cpp:531): when
\* a rank leaves its main loop no packet is on its way to it.
NothingMoreIsReceived ==
  \A r \in Ranks : exited[r] => \A p \in OnTheWay : p.to # r

\* The runtime's memory counter of a rank is what it holds: bodies being read,
\* buffers from other ranks in its in-ports, and buffers of the console it has
\* not passed on; it stays within its threshold, as the others stay within
\* their types.
RuntimeMemoryBalanced ==
  /\ TypeOK
  /\ \A r \in Ranks :
       /\ rtUsage[r] =
            Cardinality({x \in UNION {{f} \X DOMAIN inq[f] : f \in FiltersOn(r)} :
                           inq[x[1]][x[2]][3] = "runtime"})
            + (IF reading[r] # r THEN 1 ELSE 0)
            + (IF r = 0
               THEN Cardinality({k \in DOMAIN fromConsole : fromConsole[k].type = "DCBUF"})
                    + (IF sending["main"][0] # NoPacket /\ sending["main"][0].type = "DCBUF"
                       THEN 1 ELSE 0)
               ELSE 0)
       /\ rtUsage[r] <= RuntimeMem

\* The buffers a filter is charged for are those it has written and nobody has
\* read, if their reader is on its rank, or outq_handler has not written to the
\* end (reduce follows the write, dcmpiruntime-socket.cpp:258-271); no filter
\* has more than its threshold.
WritersMemoryBalanced ==
  \A f \in Filters :
    LET n    == HostOf[f]
        IsOf(p) == p # NoPacket /\ p.type = "DCBUF" /\ p.writer = f
    IN
    /\ usage[f] =
         IF n = Console THEN 0
         ELSE Cardinality({k \in DOMAIN outq[n] : IsOf(outq[n][k])})
              + (IF IsOf(sending["outq"][n]) THEN 1 ELSE 0)
              + Cardinality({x \in UNION {{g} \X DOMAIN inq[g] : g \in Filters} :
                               inq[x[1]][x[2]][1] = f /\ inq[x[1]][x[2]][3] = "writer"})
    /\ usage[f] <= FilterMem

\* A thread waits in DC_write_all of rank r to rank s.
WaitsToWrite(t, r, s) ==
  sending[t][r] # NoPacket /\ OutRank(sending[t][r]) = s /\ WireFull(r, s)

\* Two ranks that wait for each other for ever: the main loop of r does not
\* read while it waits to write to s; s does not read from r as it has no
\* memory for the body that is next; its memory is that of buffers for filters
\* that wait for memory of their own; and that is not given back while
\* outq_handler of s waits to write to r.
Jammed ==
  \E r, s \in Ranks :
    /\ WaitsToWrite("main", r, s) /\ WaitsToWrite("outq", s, r)
    /\ heads[s][r] # NoPacket /\ ~HasRoom(s)
    /\ \A f \in FiltersOn(s) :
         (\E k \in DOMAIN inq[f] : inq[f][k][3] = "runtime")
           => blocked[f] # NoFilter /\ ~CanPay(f)

\* Every job ends whose filters return, unless it jams in just that way: in the
\* end all ranks have left their main loops.
JobEnds == <>[](Finished \/ Jammed)

=============================================================================

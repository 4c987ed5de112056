------------------------ MODULE SocketRuntime_proofs ------------------------
(***************************************************************************)
(* The packets and the memory of the socket runtime, for every job.        *)
(*                                                                         *)
(* A packet is in the queue of its node, in the hand of the thread that    *)
(* writes it, on the connection to the rank it is for, or kept there as a  *)
(* header (Way).  PacketInv says that packets are at such places only,     *)
(* that a stream's buffers stay before its end at each place and from one  *)
(* place to the next (Ordered), and that ports and counters agree with     *)
(* what has arrived (JobInv).  Every action is one of a few moves: it adds *)
(* packets to a queue, takes one off it, writes or reads an item.  What    *)
(* a rank knows that leaves the main loop (ExitInv) follows.               *)
(*                                                                         *)
(* The memory counter of a rank is counted out against what it holds       *)
(* (MemoryInv).  Last, the two threads that write to a socket: a rank      *)
(* sends done packets only when outq_handler has no buffer left, since the *)
(* end of every stream waits behind its buffers (TailInv, AloneInv), so    *)
(* every header on a connection is followed by its own body (WholeInv).    *)
(***************************************************************************)
EXTENDS SocketRuntime, FiniteSetTheorems, FunctionTheorems, TLAPS

-----------------------------------------------------------------------------
(* Where a packet is                                                       *)

\* The thread that writes a packet to a socket, the rank it does so on, and
\* the queue it takes the packet from.
Thread(p) == IF p.from = Console \/ p.type = "ALL_MY_FILTERS_DONE" THEN "main" ELSE "outq"
InRank(p) == IF p.from = Console THEN 0 ELSE p.from
Source(m) == IF m = Console THEN fromConsole ELSE outq[m]
Line(p)   == wire[InRank(p)][OutRank(p)]

Queued(p)   == \E k \in 1 .. Len(Source(p.from)) : Source(p.from)[k] = p
InHand(p)   == sending[Thread(p)][InRank(p)] = p
OnLine(p)   == \E k \in 1 .. Len(Line(p)) : Line(p)[k].packet = p
HeaderIn(p) == heads[OutRank(p)][InRank(p)] = p
Way(p)      == Queued(p) \/ InHand(p) \/ OnLine(p) \/ HeaderIn(p)

\* The packets of the job that leave their node.
OfStream(p, s) ==
  /\ HostOf[s[1]] # HostOf[s[2]] /\ p.seq \in Nat
  /\ p = RemovePutter(s[1], s[2]) \/ p = DcBuf(s[1], s[2], p.seq)
Genuine(p) ==
  \/ \E s \in Streams : OfStream(p, s)
  \/ \E m, n \in Nodes : m # n /\ p = AllDone(m, n)

\* Everything is where it should be.
SourceInv == \A m \in Ranks \cup {Console} : \A k \in 1 .. Len(Source(m)) :
  LET p == Source(m)[k] IN
    Genuine(p) /\ p.from = m /\ (m # Console => p.type # "ALL_MY_FILTERS_DONE")
HandInv == \A t \in SenderThreads, i \in Ranks : sending[t][i] # NoPacket =>
  LET p == sending[t][i] IN
    /\ Genuine(p) /\ Thread(p) = t /\ InRank(p) = i /\ OutRank(p) # i
    /\ stage[t][i] = "body" => p.type = "DCBUF"
OfLine(i, r, x) ==
  /\ Genuine(x.packet) /\ InRank(x.packet) = i /\ OutRank(x.packet) = r /\ i # r
  /\ x.part = "body" => x.packet.type = "DCBUF"
LineInv == \A i, r \in Ranks : \A k \in 1 .. Len(wire[i][r]) : OfLine(i, r, wire[i][r][k])
HeadsInv == \A i, r \in Ranks : heads[r][i] # NoPacket =>
  LET p == heads[r][i] IN
    Genuine(p) /\ p.type = "DCBUF" /\ InRank(p) = i /\ OutRank(p) = r /\ i # r
ReadingInv == \A r \in Ranks : reading[r] # r =>
  heads[r][reading[r]] # NoPacket /\ sending["main"][r] = NoPacket
PlaceInv == SourceInv /\ HandInv /\ LineInv /\ HeadsInv /\ ReadingInv

\* What may not come after e: e itself, and if e is the end of a stream, the
\* buffers of the stream.
Before(d, e) ==
  /\ e.type # "DCBUF" /\ Genuine(d) /\ Genuine(e)
  /\ \/ d = e
     \/ /\ d.type = "DCBUF" /\ e.type = "REMOVE_PUTTER"
        /\ d.writer = e.writer /\ d.reader = e.reader
InOrder(d, e) ==
  /\ \A j, k \in 1 .. Len(Source(e.from)) :
       Source(e.from)[j] = e /\ Source(e.from)[k] = d => k <= j
  /\ InHand(e) => ~Queued(d)
  /\ OnLine(e) => ~Queued(d) /\ ~InHand(d)
  /\ \A j, k \in 1 .. Len(Line(e)) : Line(e)[j].packet = e /\ Line(e)[k].packet = d => k <= j
Ordered == \A d, e \in Packet : Before(d, e) => InOrder(d, e)

\* Filters, and the ends of their streams.
FilterInv ==
  /\ \A f \in Filters : /\ status[f] = "process" => closed[f] = {}
                        /\ status[f] = "erased" => closed[f] = Readers(f)
                        /\ status[f] # "process" /\ f \notin EarlyExit => putters[f] = {}
  /\ \A s \in Streams : s[1] \notin putters[s[2]] => s[2] \in closed[s[1]]
CloseInv == \A s \in Streams : Way(RemovePutter(s[1], s[2])) => s[2] \in closed[s[1]]
EndInv == \A s \in Streams : s[1] \notin putters[s[2]] =>
  \A p \in Packet : OfStream(p, s) => ~Way(p)

\* Node m has sent its done packet to node n; which have arrived.
Sent(m, n) == IF m = Console THEN ~fromOpen ELSE announced[m] > n
Arrived(n) == {m \in Nodes \ {n} : Sent(m, n) /\ ~Way(AllDone(m, n))}
DoneInv ==
  /\ \A m, n \in Nodes : m # n /\ Way(AllDone(m, n)) => Sent(m, n)
  /\ \A n \in Ranks : doneReceived[n] = Cardinality(Arrived(n))
ExitInv == \A r \in Ranks :
  /\ SentDone(r) => \A f \in FiltersOn(r) : status[f] = "erased"
  /\ exited[r] => SentDone(r) /\ doneReceived[r] = NumDoneExpected /\ reading[r] = r

\* What a rank's runtime is charged for.
Entries(r) == {x \in UNION {{f} \X DOMAIN inq[f] : f \in FiltersOn(r)} : inq[x[1]][x[2]][3] = "runtime"}
FromConsoleBufs == {k \in DOMAIN fromConsole : fromConsole[k].type = "DCBUF"}
ReadingOne(r) == IF reading[r] # r THEN 1 ELSE 0
HandOne == IF sending["main"][0] # NoPacket /\ sending["main"][0].type = "DCBUF" THEN 1 ELSE 0
Held(r) == ReadingOne(r) + (IF r = 0 THEN Cardinality(FromConsoleBufs) + HandOne ELSE 0)
MemoryInv ==
  /\ IsFiniteSet(FromConsoleBufs)
  /\ \A r \in Ranks : /\ IsFiniteSet(Entries(r))
                      /\ rtUsage[r] = Cardinality(Entries(r)) + Held(r)
                      /\ rtUsage[r] <= RuntimeMem

\* Types is the type invariant with in-ports that are sequences.
Types == TypeOK /\ inq \in [Filters -> Seq(Filters \X Nat \X {"writer", "runtime"})]

-----------------------------------------------------------------------------
(* The job and its packets                                                 *)

\* What the assumptions on the job say of ranks, nodes and streams.
LEMMA JobFacts ==
  /\ Ranks \subseteq Int /\ 0 \in Ranks /\ Console \notin Ranks /\ NumRanks \in Nat
  /\ Nodes \subseteq Ranks \cup {Console} /\ Ranks \subseteq Nodes
  /\ \A f \in Filters : HostOf[f] \in Nodes /\ f # NoFilter
  /\ \A s \in Streams : /\ s[1] \in Filters /\ s[2] \in Filters /\ s = <<s[1], s[2]>>
                        /\ HostOf[s[1]] \in Nodes /\ HostOf[s[2]] \in Ranks
  /\ \A r \in Ranks : 0 <= r /\ r < NumRanks
  /\ (~ConsolePresent => Console \notin Nodes)
  /\ RuntimeMem \in Nat \ {0}
BY JobAssumption DEF Ranks, Nodes, Console

\* The fields of the packets the program makes.
LEMMA PacketFacts ==
  /\ \A w, g : \A n : /\ DcBuf(w, g, n).type = "DCBUF" /\ DcBuf(w, g, n).writer = w
                      /\ DcBuf(w, g, n).reader = g /\ DcBuf(w, g, n).seq = n
                      /\ DcBuf(w, g, n).from = HostOf[w] /\ DcBuf(w, g, n).to = HostOf[g]
  /\ \A w, g : /\ RemovePutter(w, g).type = "REMOVE_PUTTER" /\ RemovePutter(w, g).writer = w
               /\ RemovePutter(w, g).reader = g /\ RemovePutter(w, g).seq = 0
               /\ RemovePutter(w, g).from = HostOf[w] /\ RemovePutter(w, g).to = HostOf[g]
  /\ \A m, n : /\ AllDone(m, n).type = "ALL_MY_FILTERS_DONE" /\ AllDone(m, n).from = m
               /\ AllDone(m, n).to = n /\ AllDone(m, n).reader = NoFilter
  /\ \A p \in Packet : /\ p # NoPacket
                       /\ p.type \in {"DCBUF", "REMOVE_PUTTER", "ALL_MY_FILTERS_DONE"}
  /\ \A w, g \in Filters, n \in Nat : DcBuf(w, g, n) \in Packet /\ RemovePutter(w, g) \in Packet
  /\ \A m, n \in Nodes : AllDone(m, n) \in Packet
<1>1. \A f \in Filters : HostOf[f] \in Ranks \cup {Console}
  BY JobFacts
<1>2. \A w, g \in Filters, n \in Nat : DcBuf(w, g, n) \in Packet /\ RemovePutter(w, g) \in Packet
  BY <1>1 DEF DcBuf, RemovePutter, Packet
<1>3. \A m, n \in Nodes : AllDone(m, n) \in Packet
  BY JobFacts DEF AllDone, Packet
<1>4. \A p \in Packet : /\ p # NoPacket
                        /\ p.type \in {"DCBUF", "REMOVE_PUTTER", "ALL_MY_FILTERS_DONE"}
  BY DEF Packet, NoPacket
<1>5. QED
  BY <1>2, <1>3, <1>4 DEF DcBuf, RemovePutter, AllDone

\* What a packet of the job looks like.
LEMMA GenuineFacts ==
  ASSUME NEW p, Genuine(p)
  PROVE  /\ p \in Packet /\ p # NoPacket /\ p.from \in Nodes /\ p.to \in Nodes /\ p.from # p.to
         /\ InRank(p) \in Ranks /\ OutRank(p) \in Ranks /\ Thread(p) \in SenderThreads
         /\ p.type \in {"DCBUF", "REMOVE_PUTTER", "ALL_MY_FILTERS_DONE"}
         /\ p.type # "ALL_MY_FILTERS_DONE" =>
              /\ p.writer \in Filters /\ p.reader \in Filters /\ p.seq \in Nat
              /\ HostOf[p.writer] = p.from /\ HostOf[p.reader] = p.to /\ p.to \in Ranks
              /\ <<p.writer, p.reader>> \in Streams /\ OfStream(p, <<p.writer, p.reader>>)
         /\ p.type = "REMOVE_PUTTER" => p = RemovePutter(p.writer, p.reader)
         /\ p.type = "DCBUF" => p = DcBuf(p.writer, p.reader, p.seq)
         /\ p.type = "ALL_MY_FILTERS_DONE" => p = AllDone(p.from, p.to)
<1>1. CASE \E s \in Streams : OfStream(p, s)
  <2>1. PICK s \in Streams : OfStream(p, s)
    BY <1>1
  <2>2. PICK w, g : s = <<w, g>> /\ w = s[1] /\ g = s[2]
    BY JobFacts
  <2>3. /\ w \in Filters /\ g \in Filters /\ HostOf[w] \in Nodes /\ HostOf[g] \in Ranks
        /\ HostOf[w] # HostOf[g] /\ p.seq \in Nat
        /\ p = RemovePutter(w, g) \/ p = DcBuf(w, g, p.seq)
    BY <2>1, <2>2, JobFacts DEF OfStream
  <2>4. /\ p \in Packet /\ p # NoPacket /\ p.writer = w /\ p.reader = g
        /\ p.from = HostOf[w] /\ p.to = HostOf[g] /\ p.type # "ALL_MY_FILTERS_DONE"
        /\ p.type \in {"DCBUF", "REMOVE_PUTTER"}
        /\ p.type = "REMOVE_PUTTER" => p = RemovePutter(w, g)
        /\ p.type = "DCBUF" => p = DcBuf(w, g, p.seq)
    BY <2>3, PacketFacts
  <2>5. InRank(p) \in Ranks /\ OutRank(p) \in Ranks /\ Thread(p) \in SenderThreads
    BY <2>3, <2>4, JobFacts DEF InRank, OutRank, Thread, SenderThreads
  <2>6. p.from \in Nodes /\ p.to \in Nodes /\ p.from # p.to
    BY <2>3, <2>4, JobFacts
  <2>7. QED
    BY <2>1, <2>2, <2>3, <2>4, <2>5, <2>6
<1>2. CASE \E m, n \in Nodes : m # n /\ p = AllDone(m, n)
  <2>1. PICK m \in Nodes, n \in Nodes : m # n /\ p = AllDone(m, n)
    BY <1>2
  <2>2. p \in Packet /\ p # NoPacket /\ p.from = m /\ p.to = n /\ p.type = "ALL_MY_FILTERS_DONE"
    BY <2>1, PacketFacts
  <2>3. InRank(p) \in Ranks /\ OutRank(p) \in Ranks /\ Thread(p) \in SenderThreads
    BY <2>2, JobFacts DEF InRank, OutRank, Thread, SenderThreads
  <2>4. QED
    BY <2>1, <2>2, <2>3
<1>3. QED
  BY <1>1, <1>2 DEF Genuine

\* The packets of a stream between two nodes.
LEMMA StreamPackets ==
  ASSUME NEW s \in Streams, HostOf[s[1]] # HostOf[s[2]]
  PROVE  /\ OfStream(RemovePutter(s[1], s[2]), s) /\ Genuine(RemovePutter(s[1], s[2]))
         /\ \A n \in Nat : OfStream(DcBuf(s[1], s[2], n), s) /\ Genuine(DcBuf(s[1], s[2], n))
         /\ \A p : OfStream(p, s) => /\ Genuine(p) /\ p.writer = s[1] /\ p.reader = s[2]
                                     /\ p.type # "ALL_MY_FILTERS_DONE"
<1>1. /\ OfStream(RemovePutter(s[1], s[2]), s)
      /\ \A n \in Nat : OfStream(DcBuf(s[1], s[2], n), s)
  BY PacketFacts DEF OfStream
<1>2. \A p : OfStream(p, s) => p.writer = s[1] /\ p.reader = s[2] /\ p.type # "ALL_MY_FILTERS_DONE"
  BY PacketFacts DEF OfStream
<1>3. \A p : OfStream(p, s) => Genuine(p)
  BY DEF Genuine
<1>4. QED
  BY <1>1, <1>2, <1>3

\* A packet that is on its way is where PlaceInv says.
LEMMA WayIsOnTheWay ==
  ASSUME Types, PlaceInv, NEW p \in OnTheWay
  PROVE  Genuine(p) /\ Way(p)
<1>1. CASE \E r \in Ranks : p \in SeqRange(outq[r])
  <2>1. PICK r \in Ranks : p \in SeqRange(outq[r])
    BY <1>1
  <2>2. outq[r] \in Seq(Packet) /\ Source(r) = outq[r]
    BY JobFacts DEF Types, TypeOK, Source
  <2>3. PICK k \in 1 .. Len(Source(r)) : Source(r)[k] = p
    BY <2>1, <2>2 DEF SeqRange
  <2>4. Genuine(p) /\ p.from = r
    BY <2>3 DEF PlaceInv, SourceInv
  <2>5. QED
    BY <2>3, <2>4 DEF Way, Queued
<1>2. CASE \E t \in SenderThreads, r \in Ranks : p = sending[t][r] /\ p # NoPacket
  BY <1>2 DEF PlaceInv, HandInv, Way, InHand
<1>3. CASE \E i, r \in Ranks : p \in {x.packet : x \in SeqRange(wire[i][r])}
  <2>1. PICK i \in Ranks, r \in Ranks : p \in {x.packet : x \in SeqRange(wire[i][r])}
    BY <1>3
  <2>2. wire[i][r] \in Seq(Item)
    BY DEF Types, TypeOK
  <2>3. PICK k \in 1 .. Len(wire[i][r]) : wire[i][r][k].packet = p
    BY <2>1, <2>2 DEF SeqRange
  <2>4. Genuine(p) /\ InRank(p) = i /\ OutRank(p) = r
    BY <2>3 DEF PlaceInv, LineInv, OfLine
  <2>5. QED
    BY <2>3, <2>4 DEF Way, OnLine, Line
<1>4. CASE \E i, r \in Ranks : p = heads[r][i] /\ p # NoPacket
  BY <1>4 DEF PlaceInv, HeadsInv, Way, HeaderIn
<1>5. CASE p \in SeqRange(fromConsole)
  <2>1. fromConsole \in Seq(Packet) /\ Source(Console) = fromConsole
    BY DEF Types, TypeOK, Source
  <2>2. PICK k \in 1 .. Len(Source(Console)) : Source(Console)[k] = p
    BY <1>5, <2>1 DEF SeqRange
  <2>3. Genuine(p) /\ p.from = Console
    BY <2>2 DEF PlaceInv, SourceInv
  <2>4. QED
    BY <2>2, <2>3 DEF Way, Queued
<1>6. QED
  BY <1>1, <1>2, <1>3, <1>4, <1>5 DEF OnTheWay

-----------------------------------------------------------------------------
(* Moves: how a step changes the places                                    *)

\* The places of a packet exist and hold packets.
LEMMA PlaceTypes ==
  /\ \A p \in Packet : /\ p.from \in Ranks \cup {Console} /\ p # NoPacket
                       /\ InRank(p) \in Ranks /\ OutRank(p) \in Ranks
                       /\ Thread(p) \in SenderThreads
  /\ Types => /\ \A m \in Ranks \cup {Console} : Source(m) \in Seq(Packet)
              /\ \A i, r \in Ranks : /\ wire[i][r] \in Seq(Item)
                                     /\ \A k \in 1 .. Len(wire[i][r]) : wire[i][r][k].packet \in Packet
  /\ \A d, e : Before(d, e) =>
       /\ d \in Packet /\ e \in Packet /\ d.from = e.from /\ Thread(d) = Thread(e)
       /\ InRank(d) = InRank(e) /\ OutRank(d) = OutRank(e)
<1>1. \A p \in Packet : /\ p.from \in Ranks \cup {Console} /\ p # NoPacket
                        /\ InRank(p) \in Ranks /\ OutRank(p) \in Ranks
                        /\ Thread(p) \in SenderThreads
  <2>1. SUFFICES ASSUME NEW p \in Packet
                 PROVE  /\ p.from \in Ranks \cup {Console} /\ p # NoPacket
                        /\ InRank(p) \in Ranks /\ OutRank(p) \in Ranks
                        /\ Thread(p) \in SenderThreads
    OBVIOUS
  <2>2. p.from \in Ranks \cup {Console} /\ p.to \in Ranks \cup {Console}
    BY DEF Packet
  <2>3. QED
    BY <2>2, JobFacts, PacketFacts DEF InRank, OutRank, Thread, SenderThreads
<1>2. ASSUME Types, NEW m \in Ranks \cup {Console}
      PROVE  Source(m) \in Seq(Packet)
  BY <1>2, JobFacts DEF Types, TypeOK, Source
<1>3. ASSUME Types, NEW i \in Ranks, NEW r \in Ranks
      PROVE  /\ wire[i][r] \in Seq(Item)
             /\ \A k \in 1 .. Len(wire[i][r]) : wire[i][r][k].packet \in Packet
  <2>1. PICK q : q = wire[i][r]
    OBVIOUS
  <2>2. q \in Seq(Item)
    BY <1>3, <2>1 DEF Types, TypeOK
  <2>3. \A k \in 1 .. Len(q) : q[k] \in Item
    BY <2>2
  <2>4. \A x \in Item : x.packet \in Packet
    BY DEF Item
  <2>5. QED
    BY <2>1, <2>2, <2>3, <2>4
<1>4. ASSUME NEW d, NEW e, Before(d, e)
      PROVE  /\ d \in Packet /\ e \in Packet /\ d.from = e.from /\ Thread(d) = Thread(e)
             /\ InRank(d) = InRank(e) /\ OutRank(d) = OutRank(e)
  <2>1. Genuine(d) /\ Genuine(e)
    BY <1>4 DEF Before
  <2>2. d \in Packet /\ e \in Packet
    BY <2>1, GenuineFacts
  <2>3. CASE d = e
    BY <2>2, <2>3
  <2>4. CASE d # e
    <3>1. d.type = "DCBUF" /\ e.type = "REMOVE_PUTTER" /\ d.writer = e.writer /\ d.reader = e.reader
      BY <1>4, <2>4 DEF Before
    <3>2. HostOf[d.writer] = d.from /\ HostOf[d.reader] = d.to
      BY <2>1, <3>1, GenuineFacts
    <3>3. HostOf[e.writer] = e.from /\ HostOf[e.reader] = e.to
      BY <2>1, <3>1, GenuineFacts
    <3>4. d.from = e.from /\ d.to = e.to
      BY <3>1, <3>2, <3>3
    <3>5. QED
      BY <2>2, <3>1, <3>4 DEF Thread, InRank, OutRank
  <2>5. QED
    BY <2>3, <2>4
<1>5. QED
  BY <1>1, <1>2, <1>3, <1>4

\* What a step may do to the packets that are on their way: nothing, take
\* one away together with all that may not come after it, or add some.
Kept    == \A x \in Packet : Way(x)' <=> Way(x)
Gone(p) == /\ Way(p) /\ p \in Packet
           /\ \A x \in Packet : Way(x)' => Way(x)
           /\ \A x \in Packet \ {p} : Way(x) => Way(x)'
           /\ \A d \in Packet : Before(d, p) => ~Way(d)'
Come(ps) == \A x \in Packet : Way(x)' <=> (Way(x) \/ \E j \in 1 .. Len(ps) : x = ps[j])
Placed  == SourceInv' /\ HandInv' /\ LineInv' /\ HeadsInv' /\ Ordered'

\* The places of no packet change.
Stays == UNCHANGED <<outq, fromConsole, sending, stage, wire, heads>>

\* Nothing moves.
LEMMA StaysMove ==
  ASSUME PlaceInv, Ordered, Stays
  PROVE  Placed /\ Kept
<1>1. /\ \A m : Source(m)' = Source(m)
      /\ \A p : Line(p)' = Line(p) /\ InHand(p)' = InHand(p) /\ HeaderIn(p)' = HeaderIn(p)
  BY DEF Stays, Source, Line, InHand, HeaderIn
<1>2. \A p : Queued(p)' = Queued(p) /\ OnLine(p)' = OnLine(p)
  BY <1>1 DEF Queued, OnLine
<1>3. SourceInv'
  BY <1>1 DEF PlaceInv, SourceInv
<1>4. HandInv' /\ LineInv' /\ HeadsInv'
  BY DEF PlaceInv, HandInv, LineInv, HeadsInv, Stays
<1>5. Ordered'
  BY <1>1, <1>2 DEF Ordered, InOrder
<1>6. Kept
  BY <1>1, <1>2 DEF Kept, Way
<1>7. QED
  BY <1>3, <1>4, <1>5, <1>6 DEF Placed

\* Packets ps are put at the end of a queue.
Adds(m, ps) ==
  /\ Source(m)' = Source(m) \o ps
  /\ \A n \in (Ranks \cup {Console}) \ {m} : Source(n)' = Source(n)
  /\ UNCHANGED <<sending, stage, wire, heads>>

\* Packets that are nowhere yet join the end of the queue of their node.
LEMMA AddsMove ==
  ASSUME Types, PlaceInv, Ordered,
         NEW m \in Ranks \cup {Console}, NEW ps \in Seq(Packet), Adds(m, ps),
         \A k \in 1 .. Len(ps) : /\ Genuine(ps[k]) /\ ps[k].from = m
                                 /\ m # Console => ps[k].type # "ALL_MY_FILTERS_DONE",
         \A j \in 1 .. Len(ps) : \A e \in Packet : Before(ps[j], e) =>
           ~Way(e) /\ \A k \in 1 .. Len(ps) : ps[k] = e => j <= k
  PROVE  Placed /\ Come(ps)
<1>1. PICK q : q = Source(m)
  OBVIOUS
<1>2. PICK q2 : q2 = Source(m)'
  OBVIOUS
<1>3. q \in Seq(Packet) /\ q2 = q \o ps
  BY <1>1, <1>2, PlaceTypes DEF Adds
<1>4. /\ q2 \in Seq(Packet) /\ Len(q) \in Nat /\ Len(ps) \in Nat /\ Len(q2) = Len(q) + Len(ps)
      /\ \A k \in 1 .. Len(q) : q2[k] = q[k]
      /\ \A k \in 1 .. Len(ps) : q2[Len(q) + k] = ps[k]
      /\ \A k \in 1 .. Len(q2) : k <= Len(q) \/ (k - Len(q) \in 1 .. Len(ps) /\ q2[k] = ps[k - Len(q)])
  BY <1>3
<1>5. /\ \A p : Line(p)' = Line(p) /\ (InHand(p)' <=> InHand(p)) /\ (HeaderIn(p)' <=> HeaderIn(p))
      /\ \A n \in (Ranks \cup {Console}) \ {m} : Source(n)' = Source(n)
  BY DEF Adds, Line, InHand, HeaderIn
<1>6. \A p : OnLine(p)' <=> OnLine(p)
  BY <1>5 DEF OnLine
<1>7. SourceInv'
  <2>1. SUFFICES ASSUME NEW n \in Ranks \cup {Console}, NEW k \in 1 .. Len(Source(n)')
                 PROVE  /\ Genuine(Source(n)'[k]) /\ Source(n)'[k].from = n
                        /\ n # Console => Source(n)'[k].type # "ALL_MY_FILTERS_DONE"
    BY DEF SourceInv
  <2>2. CASE n # m
    BY <2>2, <1>5 DEF PlaceInv, SourceInv
  <2>3. CASE n = m
    <3>1. k \in 1 .. Len(q2) /\ Source(n)'[k] = q2[k]
      BY <2>1, <2>3, <1>2
    <3>2. CASE k <= Len(q)
      <4>1. k \in 1 .. Len(q) /\ q2[k] = q[k]
        BY <3>1, <3>2, <1>4
      <4>2. QED
        BY <4>1, <3>1, <2>3, <1>1 DEF PlaceInv, SourceInv
    <3>3. CASE ~(k <= Len(q))
      BY <3>1, <3>3, <1>4, <2>3
    <3>4. QED
      BY <3>2, <3>3
  <2>4. QED
    BY <2>2, <2>3
<1>8. HandInv' /\ LineInv' /\ HeadsInv'
  BY DEF PlaceInv, HandInv, LineInv, HeadsInv, Adds
<1>9. \A x \in Packet : Queued(x)' <=> (Queued(x) \/ \E j \in 1 .. Len(ps) : x = ps[j])
  <2>1. SUFFICES ASSUME NEW x \in Packet
                 PROVE  Queued(x)' <=> (Queued(x) \/ \E j \in 1 .. Len(ps) : x = ps[j])
    OBVIOUS
  <2>2. CASE x.from # m
    <3>1. Source(x.from)' = Source(x.from)
      BY <2>2, <1>5, PlaceTypes
    <3>2. \A j \in 1 .. Len(ps) : x # ps[j]
      BY <2>2
    <3>3. QED
      BY <3>1, <3>2 DEF Queued
  <2>3. CASE x.from = m
    <3>1. /\ Queued(x) <=> \E k \in 1 .. Len(q) : q[k] = x
          /\ Queued(x)' <=> \E k \in 1 .. Len(q2) : q2[k] = x
      BY <2>3, <1>1, <1>2 DEF Queued
    <3>2. ASSUME NEW k \in 1 .. Len(q), q[k] = x
          PROVE  k \in 1 .. Len(q2) /\ q2[k] = x
      BY <3>2, <1>4
    <3>3. ASSUME NEW j \in 1 .. Len(ps), x = ps[j]
          PROVE  Len(q) + j \in 1 .. Len(q2) /\ q2[Len(q) + j] = x
      BY <3>3, <1>4
    <3>4. ASSUME NEW k \in 1 .. Len(q2), q2[k] = x
          PROVE  (\E j \in 1 .. Len(q) : q[j] = x) \/ \E j \in 1 .. Len(ps) : x = ps[j]
      <4>1. CASE k <= Len(q)
        <5>1. k \in 1 .. Len(q)
          BY <4>1, <1>4
        <5>2. QED
          BY <5>1, <3>4, <1>4
      <4>2. CASE ~(k <= Len(q))
        BY <4>2, <3>4, <1>4
      <4>3. QED
        BY <4>1, <4>2
    <3>5. QED
      BY <3>1, <3>2, <3>3, <3>4
  <2>4. QED
    BY <2>2, <2>3
<1>10. Ordered'
  <2>1. SUFFICES ASSUME NEW d \in Packet, NEW e \in Packet, Before(d, e)
                 PROVE  InOrder(d, e)'
    BY DEF Ordered
  <2>2. InOrder(d, e)
    BY <2>1 DEF Ordered
  <2>3. d.from = e.from
    BY <2>1, PlaceTypes
  <2>4. \A j \in 1 .. Len(ps) : d = ps[j] => ~Way(e) /\ \A k \in 1 .. Len(ps) : ps[k] = e => j <= k
    BY <2>1
  <2>5. \A j, k \in 1 .. Len(Source(e.from)') :
          Source(e.from)'[j] = e /\ Source(e.from)'[k] = d => k <= j
    <3>1. CASE e.from # m
      <4>1. Source(e.from)' = Source(e.from)
        BY <3>1, <1>5, PlaceTypes
      <4>2. QED
        BY <4>1, <2>2 DEF InOrder
    <3>2. CASE e.from = m
      <4>1. SUFFICES ASSUME NEW j \in 1 .. Len(q2), NEW k \in 1 .. Len(q2), q2[j] = e, q2[k] = d
                     PROVE  k <= j
        BY <3>2, <1>2
      <4>2. CASE k <= Len(q) /\ j <= Len(q)
        <5>1. j \in 1 .. Len(q) /\ k \in 1 .. Len(q) /\ q[j] = e /\ q[k] = d
          BY <4>1, <4>2, <1>4
        <5>2. QED
          BY <5>1, <2>2, <3>2, <1>1 DEF InOrder
      <4>3. CASE k <= Len(q) /\ ~(j <= Len(q))
        BY <4>3, <1>4
      <4>4. CASE ~(k <= Len(q))
        <5>1. k - Len(q) \in 1 .. Len(ps) /\ d = ps[k - Len(q)]
          BY <4>1, <4>4, <1>4
        <5>2. ~Way(e) /\ \A l \in 1 .. Len(ps) : ps[l] = e => k - Len(q) <= l
          BY <5>1, <2>4
        <5>3. ~(\E l \in 1 .. Len(q) : q[l] = e)
          BY <5>2, <3>2, <1>1 DEF Way, Queued
        <5>4. ~(j <= Len(q))
          <6>1. SUFFICES ASSUME j <= Len(q)
                         PROVE  FALSE
            OBVIOUS
          <6>2. j \in 1 .. Len(q) /\ q[j] = e
            BY <6>1, <4>1, <1>4
          <6>3. QED
            BY <6>2, <5>3
        <5>5. j - Len(q) \in 1 .. Len(ps) /\ ps[j - Len(q)] = e
          BY <5>4, <4>1, <1>4
        <5>6. k - Len(q) <= j - Len(q)
          BY <5>5, <5>2
        <5>7. QED
          BY <5>6, <1>4
      <4>5. QED
        BY <4>2, <4>3, <4>4
    <3>3. QED
      BY <3>1, <3>2
  <2>6. InHand(e)' => ~Queued(d)'
    BY <1>5, <1>9, <2>2, <2>4 DEF InOrder, Way
  <2>7. OnLine(e)' => ~Queued(d)' /\ ~InHand(d)'
    BY <1>5, <1>6, <1>9, <2>2, <2>4 DEF InOrder, Way
  <2>8. \A j, k \in 1 .. Len(Line(e)') : Line(e)'[j].packet = e /\ Line(e)'[k].packet = d => k <= j
    BY <1>5, <2>2 DEF InOrder
  <2>9. QED
    BY <2>5, <2>6, <2>7, <2>8 DEF InOrder
<1>11. Come(ps)
  BY <1>5, <1>6, <1>9 DEF Come, Way
<1>12. QED
  BY <1>7, <1>8, <1>10, <1>11 DEF Placed

\* The first packet p of a queue is taken off it.
Pops(m, p) ==
  /\ Source(m) # <<>> /\ p = Head(Source(m))
  /\ Source(m)' = Tail(Source(m))
  /\ \A n \in (Ranks \cup {Console}) \ {m} : Source(n)' = Source(n)
QueueOrder == \A d, e \in Packet : Before(d, e) =>
  \A j, k \in 1 .. Len(Source(e.from)) : Source(e.from)[j] = e /\ Source(e.from)[k] = d => k <= j

\* The first packet of a queue leaves it: nothing that precedes it is left there.
LEMMA PopsMove ==
  ASSUME Types, PlaceInv, Ordered, NEW m \in Ranks \cup {Console}, NEW p, Pops(m, p)
  PROVE  /\ Genuine(p) /\ p.from = m /\ (m # Console => p.type # "ALL_MY_FILTERS_DONE")
         /\ Queued(p) /\ SourceInv' /\ QueueOrder'
         /\ \A x \in Packet : /\ Queued(x)' => Queued(x)
                              /\ Queued(x) => Queued(x)' \/ x = p
         /\ \A d \in Packet : Before(d, p) => ~Queued(d)'
<1>1. PICK q : q = Source(m)
  OBVIOUS
<1>2. PICK q2 : q2 = Source(m)'
  OBVIOUS
<1>3. q \in Seq(Packet) /\ q # <<>> /\ q2 = Tail(q) /\ p = Head(q)
  BY <1>1, <1>2, PlaceTypes DEF Pops
<1>4. /\ q2 \in Seq(Packet) /\ Len(q) \in Nat /\ Len(q) > 0 /\ Len(q2) = Len(q) - 1 /\ p = q[1]
      /\ \A k \in 1 .. Len(q2) : k + 1 \in 1 .. Len(q) /\ q2[k] = q[k + 1]
  BY <1>3
<1>5. 1 \in 1 .. Len(q)
  BY <1>4
<1>6. /\ Genuine(p) /\ p.from = m /\ p \in Packet
      /\ m # Console => p.type # "ALL_MY_FILTERS_DONE"
  <2>1. 1 \in 1 .. Len(Source(m)) /\ Source(m)[1] = p
    BY <1>1, <1>4, <1>5
  <2>2. /\ Genuine(p) /\ p.from = m
        /\ m # Console => p.type # "ALL_MY_FILTERS_DONE"
    BY <2>1 DEF PlaceInv, SourceInv
  <2>3. QED
    BY <2>2, GenuineFacts
<1>7. Queued(p)
  BY <1>1, <1>4, <1>5, <1>6 DEF Queued
<1>8. \A n \in (Ranks \cup {Console}) \ {m} : Source(n)' = Source(n)
  BY DEF Pops
<1>9. SourceInv'
  <2>1. SUFFICES ASSUME NEW n \in Ranks \cup {Console}, NEW k \in 1 .. Len(Source(n)')
                 PROVE  /\ Genuine(Source(n)'[k]) /\ Source(n)'[k].from = n
                        /\ n # Console => Source(n)'[k].type # "ALL_MY_FILTERS_DONE"
    BY DEF SourceInv
  <2>2. CASE n # m
    BY <2>2, <1>8 DEF PlaceInv, SourceInv
  <2>3. CASE n = m
    <3>1. k + 1 \in 1 .. Len(q) /\ Source(n)'[k] = q[k + 1]
      BY <2>1, <2>3, <1>2, <1>4
    <3>2. QED
      BY <3>1, <2>3, <1>1 DEF PlaceInv, SourceInv
  <2>4. QED
    BY <2>2, <2>3
<1>10. \A x \in Packet : /\ Queued(x)' => Queued(x)
                         /\ Queued(x) => Queued(x)' \/ x = p
  <2>1. SUFFICES ASSUME NEW x \in Packet
                 PROVE  /\ Queued(x)' => Queued(x)
                        /\ Queued(x) => Queued(x)' \/ x = p
    OBVIOUS
  <2>2. CASE x.from # m
    <3>1. Source(x.from)' = Source(x.from)
      BY <2>2, <1>8, PlaceTypes
    <3>2. QED
      BY <3>1 DEF Queued
  <2>3. CASE x.from = m
    <3>1. /\ Queued(x) <=> \E k \in 1 .. Len(q) : q[k] = x
          /\ Queued(x)' <=> \E k \in 1 .. Len(q2) : q2[k] = x
      BY <2>3, <1>1, <1>2 DEF Queued
    <3>2. ASSUME NEW k \in 1 .. Len(q), q[k] = x
          PROVE  x = p \/ \E l \in 1 .. Len(q2) : q2[l] = x
      <4>1. CASE k = 1
        BY <4>1, <3>2, <1>4
      <4>2. CASE k # 1
        <5>1. k - 1 \in 1 .. Len(q2) /\ (k - 1) + 1 = k
          BY <4>2, <1>4
        <5>2. PICK l \in 1 .. Len(q2) : l + 1 = k
          BY <5>1
        <5>3. q2[l] = x
          BY <5>2, <3>2, <1>4
        <5>4. QED
          BY <5>3
      <4>3. QED
        BY <4>1, <4>2
    <3>3. QED
      BY <3>1, <3>2, <1>4
  <2>4. QED
    BY <2>2, <2>3
<1>11. QueueOrder'
  <2>1. SUFFICES ASSUME NEW d \in Packet, NEW e \in Packet, Before(d, e),
                        NEW j \in 1 .. Len(Source(e.from)'), NEW k \in 1 .. Len(Source(e.from)'),
                        Source(e.from)'[j] = e, Source(e.from)'[k] = d
                 PROVE  k <= j
    BY DEF QueueOrder
  <2>2. InOrder(d, e)
    BY <2>1 DEF Ordered
  <2>3. CASE e.from # m
    <3>1. Source(e.from)' = Source(e.from)
      BY <2>3, <1>8, PlaceTypes
    <3>2. QED
      BY <3>1, <2>1, <2>2 DEF InOrder
  <2>4. CASE e.from = m
    <3>1. j \in 1 .. Len(q2) /\ k \in 1 .. Len(q2) /\ q2[j] = e /\ q2[k] = d
      BY <2>1, <2>4, <1>2
    <3>2. j + 1 \in 1 .. Len(q) /\ k + 1 \in 1 .. Len(q) /\ q[j + 1] = e /\ q[k + 1] = d
      BY <3>1, <1>4
    <3>3. k + 1 <= j + 1
      BY <3>2, <2>2, <2>4, <1>1 DEF InOrder
    <3>4. QED
      BY <3>3, <3>1
  <2>5. QED
    BY <2>3, <2>4
<1>12. ASSUME NEW d \in Packet, Before(d, p), Queued(d)'
       PROVE  FALSE
  <2>1. d.from = m
    BY <1>12, <1>6, PlaceTypes
  <2>2. PICK k \in 1 .. Len(q2) : q2[k] = d
    BY <1>12, <2>1, <1>2 DEF Queued
  <2>3. k + 1 \in 1 .. Len(q) /\ q[k + 1] = d
    BY <2>2, <1>4
  <2>4. InOrder(d, p)
    BY <1>12, <1>6 DEF Ordered
  <2>5. k + 1 <= 1
    BY <2>3, <2>4, <1>1, <1>4, <1>5, <1>6 DEF InOrder
  <2>6. QED
    BY <2>5
<1>13. QED
  BY <1>6, <1>7, <1>9, <1>10, <1>11, <1>12

\* A packet goes from its queue to the thread that writes it to a socket.
LEMMA TakesMove ==
  ASSUME Types, PlaceInv, Ordered, NEW m \in Ranks \cup {Console}, NEW p, Pops(m, p),
         NEW t \in SenderThreads, NEW i \in Ranks, Thread(p) = t, InRank(p) = i, OutRank(p) # i,
         sending[t][i] = NoPacket, sending' = [sending EXCEPT ![t][i] = p],
         stage' = [stage EXCEPT ![t][i] = "header"], UNCHANGED <<wire, heads>>
  PROVE  Placed /\ Kept
<1>1. /\ Genuine(p) /\ p.from = m /\ (m # Console => p.type # "ALL_MY_FILTERS_DONE")
      /\ Queued(p) /\ SourceInv' /\ QueueOrder'
      /\ \A x \in Packet : /\ Queued(x)' => Queued(x)
                           /\ Queued(x) => Queued(x)' \/ x = p
      /\ \A d \in Packet : Before(d, p) => ~Queued(d)'
  BY PopsMove
<1>2. p \in Packet /\ p # NoPacket
  BY <1>1, GenuineFacts
<1>3. /\ sending'[t][i] = p /\ stage'[t][i] = "header"
      /\ \A u \in SenderThreads, j \in Ranks : u # t \/ j # i =>
           sending'[u][j] = sending[u][j] /\ stage'[u][j] = stage[u][j]
  BY DEF Types, TypeOK
<1>4. \A x \in Packet : /\ (OnLine(x)' <=> OnLine(x)) /\ (HeaderIn(x)' <=> HeaderIn(x))
                        /\ Line(x)' = Line(x)
  BY DEF OnLine, HeaderIn, Line
<1>5. \A x \in Packet : InHand(x)' <=> (InHand(x) \/ x = p)
  <2>1. SUFFICES ASSUME NEW x \in Packet
                 PROVE  InHand(x)' <=> (InHand(x) \/ x = p)
    OBVIOUS
  <2>2. CASE Thread(x) = t /\ InRank(x) = i
    BY <2>2, <1>3, PlaceTypes DEF InHand
  <2>3. CASE ~(Thread(x) = t /\ InRank(x) = i)
    <3>1. sending'[Thread(x)][InRank(x)] = sending[Thread(x)][InRank(x)]
      BY <2>3, <1>3, PlaceTypes
    <3>2. QED
      BY <3>1, <2>3 DEF InHand
  <2>4. QED
    BY <2>2, <2>3
<1>6. HandInv'
  <2>1. SUFFICES ASSUME NEW u \in SenderThreads, NEW j \in Ranks, sending'[u][j] # NoPacket
                 PROVE  /\ Genuine(sending'[u][j]) /\ Thread(sending'[u][j]) = u
                        /\ InRank(sending'[u][j]) = j /\ OutRank(sending'[u][j]) # j
                        /\ stage'[u][j] = "body" => sending'[u][j].type = "DCBUF"
    BY DEF HandInv
  <2>2. CASE u = t /\ j = i
    BY <2>2, <1>1, <1>3
  <2>3. CASE ~(u = t /\ j = i)
    BY <2>1, <2>3, <1>3 DEF PlaceInv, HandInv
  <2>4. QED
    BY <2>2, <2>3
<1>7. LineInv' /\ HeadsInv'
  BY DEF PlaceInv, LineInv, HeadsInv
<1>8. Ordered'
  <2>1. SUFFICES ASSUME NEW d \in Packet, NEW e \in Packet, Before(d, e)
                 PROVE  InOrder(d, e)'
    BY DEF Ordered
  <2>2. InOrder(d, e)
    BY <2>1 DEF Ordered
  <2>3. InHand(e)' => ~Queued(d)'
    BY <2>1, <2>2, <1>1, <1>5 DEF InOrder
  <2>4. OnLine(e)' => ~Queued(d)' /\ ~InHand(d)'
    BY <2>2, <1>1, <1>4, <1>5 DEF InOrder
  <2>5. QED
    BY <2>1, <2>2, <2>3, <2>4, <1>1, <1>4 DEF InOrder, QueueOrder
<1>9. Kept
  BY <1>1, <1>2, <1>4, <1>5 DEF Kept, Way
<1>10. QED
  BY <1>1, <1>6, <1>7, <1>8, <1>9 DEF Placed

\* A packet from a queue arrives at once.
LEMMA ArrivesMove ==
  ASSUME Types, PlaceInv, Ordered, NEW m \in Ranks \cup {Console}, NEW p, Pops(m, p),
         OutRank(p) = InRank(p), UNCHANGED <<sending, stage, wire, heads>>
  PROVE  Placed /\ Gone(p)
<1>1. /\ Genuine(p) /\ p.from = m /\ (m # Console => p.type # "ALL_MY_FILTERS_DONE")
      /\ Queued(p) /\ SourceInv' /\ QueueOrder'
      /\ \A x \in Packet : /\ Queued(x)' => Queued(x)
                           /\ Queued(x) => Queued(x)' \/ x = p
      /\ \A d \in Packet : Before(d, p) => ~Queued(d)'
  BY PopsMove
<1>2. p \in Packet /\ p # NoPacket
  BY <1>1, GenuineFacts
<1>3. \A x \in Packet : /\ (OnLine(x)' <=> OnLine(x)) /\ (HeaderIn(x)' <=> HeaderIn(x))
                        /\ Line(x)' = Line(x) /\ (InHand(x)' <=> InHand(x))
  BY DEF OnLine, HeaderIn, Line, InHand
<1>4. HandInv' /\ LineInv' /\ HeadsInv'
  BY DEF PlaceInv, HandInv, LineInv, HeadsInv
<1>5. Ordered'
  BY <1>1, <1>3 DEF Ordered, InOrder, QueueOrder
<1>6. ASSUME NEW d \in Packet, Before(d, p)
      PROVE  ~Way(d)'
  <2>1. OutRank(d) = InRank(d) /\ InRank(d) \in Ranks /\ Thread(d) \in SenderThreads /\ d # NoPacket
    BY <1>6, <1>2, PlaceTypes
  <2>2. ~InHand(d)
    BY <2>1 DEF InHand, PlaceInv, HandInv
  <2>3. ~HeaderIn(d)
    BY <2>1 DEF HeaderIn, PlaceInv, HeadsInv
  <2>4. ~OnLine(d)
    <3>1. SUFFICES ASSUME NEW k \in 1 .. Len(Line(d)), Line(d)[k].packet = d
                   PROVE  FALSE
      BY DEF OnLine
    <3>2. Line(d) = wire[InRank(d)][OutRank(d)]
      BY DEF Line
    <3>3. InRank(d) # OutRank(d)
      BY <2>1, <3>1, <3>2 DEF PlaceInv, LineInv, OfLine
    <3>4. QED
      BY <3>3, <2>1
  <2>5. QED
    BY <2>2, <2>3, <2>4, <1>1, <1>3, <1>6 DEF Way
<1>7. Gone(p)
  BY <1>1, <1>2, <1>3, <1>6 DEF Gone, Way
<1>8. QED
  BY <1>1, <1>4, <1>5, <1>7 DEF Placed

\* A rank's main loop begins to send a packet of its own.
LEMMA OwnMove ==
  ASSUME Types, PlaceInv, Ordered, NEW i \in Ranks, NEW n \in Nodes, i # n, OutRank(AllDone(i, n)) # i,
         ~Way(AllDone(i, n)), sending["main"][i] = NoPacket,
         sending' = [sending EXCEPT !["main"][i] = AllDone(i, n)],
         stage' = [stage EXCEPT !["main"][i] = "header"],
         UNCHANGED <<outq, fromConsole, wire, heads>>
  PROVE  Placed /\ Come(<<AllDone(i, n)>>)
<1>1. PICK p : p = AllDone(i, n)
  OBVIOUS
<1>2. /\ p \in Packet /\ p # NoPacket /\ Genuine(p) /\ Thread(p) = "main" /\ InRank(p) = i
      /\ OutRank(p) # i /\ ~Way(p) /\ p.type = "ALL_MY_FILTERS_DONE"
  <2>1. i \in Nodes /\ i # Console
    BY JobFacts
  <2>2. Genuine(p)
    BY <1>1, <2>1 DEF Genuine
  <2>3. p.type = "ALL_MY_FILTERS_DONE" /\ p.from = i
    BY <1>1, PacketFacts
  <2>4. QED
    BY <1>1, <2>1, <2>2, <2>3, GenuineFacts DEF Thread, InRank
<1>3. /\ sending'["main"][i] = p /\ stage'["main"][i] = "header"
      /\ \A u \in SenderThreads, j \in Ranks : u # "main" \/ j # i =>
           sending'[u][j] = sending[u][j] /\ stage'[u][j] = stage[u][j]
  BY <1>1 DEF Types, TypeOK, SenderThreads
<1>4. /\ \A x \in Packet : /\ (OnLine(x)' <=> OnLine(x)) /\ (HeaderIn(x)' <=> HeaderIn(x))
                           /\ Line(x)' = Line(x) /\ (Queued(x)' <=> Queued(x))
      /\ \A m : Source(m)' = Source(m)
  BY DEF OnLine, HeaderIn, Line, Queued, Source
<1>5. \A x \in Packet : InHand(x)' <=> (InHand(x) \/ x = p)
  <2>1. SUFFICES ASSUME NEW x \in Packet
                 PROVE  InHand(x)' <=> (InHand(x) \/ x = p)
    OBVIOUS
  <2>2. CASE Thread(x) = "main" /\ InRank(x) = i
    BY <2>2, <1>3, PlaceTypes DEF InHand
  <2>3. CASE ~(Thread(x) = "main" /\ InRank(x) = i)
    <3>1. sending'[Thread(x)][InRank(x)] = sending[Thread(x)][InRank(x)]
      BY <2>3, <1>3, PlaceTypes
    <3>2. QED
      BY <3>1, <2>3, <1>2 DEF InHand
  <2>4. QED
    BY <2>2, <2>3
<1>6. HandInv'
  <2>1. SUFFICES ASSUME NEW u \in SenderThreads, NEW j \in Ranks, sending'[u][j] # NoPacket
                 PROVE  /\ Genuine(sending'[u][j]) /\ Thread(sending'[u][j]) = u
                        /\ InRank(sending'[u][j]) = j /\ OutRank(sending'[u][j]) # j
                        /\ stage'[u][j] = "body" => sending'[u][j].type = "DCBUF"
    BY DEF HandInv
  <2>2. CASE u = "main" /\ j = i
    BY <2>2, <1>2, <1>3
  <2>3. CASE ~(u = "main" /\ j = i)
    BY <2>1, <2>3, <1>3 DEF PlaceInv, HandInv
  <2>4. QED
    BY <2>2, <2>3
<1>7. SourceInv' /\ LineInv' /\ HeadsInv'
  BY <1>4 DEF PlaceInv, LineInv, HeadsInv, SourceInv
<1>8. Ordered'
  <2>1. SUFFICES ASSUME NEW d \in Packet, NEW e \in Packet, Before(d, e)
                 PROVE  InOrder(d, e)'
    BY DEF Ordered
  <2>2. InOrder(d, e)
    BY <2>1 DEF Ordered
  <2>3. d = p <=> e = p
    BY <2>1, <1>2 DEF Before
  <2>4. (InHand(e)' => ~Queued(d)') /\ (OnLine(e)' => ~Queued(d)' /\ ~InHand(d)')
    <3>1. CASE e = p
      BY <3>1, <2>3, <1>2, <1>4 DEF Way
    <3>2. CASE e # p
      BY <3>2, <2>2, <2>3, <1>4, <1>5 DEF InOrder
    <3>3. QED
      BY <3>1, <3>2
  <2>5. QED
    BY <2>2, <2>4, <1>4 DEF InOrder
<1>9. \A x \in Packet : Way(x)' <=> (Way(x) \/ x = p)
  BY <1>4, <1>5 DEF Way
<1>10. \A x : (x = p <=> \E j \in 1 .. Len(<<p>>) : x = <<p>>[j])
  OBVIOUS
<1>11. QED
  BY <1>1, <1>6, <1>7, <1>8, <1>9, <1>10 DEF Placed, Come

\* A part of the packet p that thread t of rank i writes goes into its
\* connection; there is more of it to be written, or not.
LEMMA WritesMove ==
  ASSUME Types, PlaceInv, Ordered, NEW i \in Ranks, NEW t \in SenderThreads,
         NEW p, p = sending[t][i], p # NoPacket, NEW item \in Item, item.packet = p,
         item.part = "body" => p.type = "DCBUF",
         wire' = [wire EXCEPT ![i][OutRank(p)] = Append(@, item)],
         \/ p.type = "DCBUF" /\ stage' = [stage EXCEPT ![t][i] = "body"] /\ sending' = sending
         \/ sending' = [sending EXCEPT ![t][i] = NoPacket] /\ stage' = stage,
         UNCHANGED <<outq, fromConsole, heads>>
  PROVE  Placed /\ Kept
<1>1. /\ Genuine(p) /\ Thread(p) = t /\ InRank(p) = i /\ OutRank(p) # i
      /\ OutRank(p) \in Ranks /\ p \in Packet
  <2>1. Genuine(p) /\ Thread(p) = t /\ InRank(p) = i /\ OutRank(p) # i
    BY DEF PlaceInv, HandInv
  <2>2. QED
    BY <2>1, GenuineFacts
<1>2. PICK o \in Ranks : o = OutRank(p)
  BY <1>1
<1>3. PICK q : q = wire[i][o]
  OBVIOUS
<1>4. PICK q2 : q2 = wire'[i][o]
  OBVIOUS
<1>5. /\ q2 = Append(q, item)
      /\ \A j, r \in Ranks : j # i \/ r # o => wire'[j][r] = wire[j][r]
  BY <1>2, <1>3, <1>4 DEF Types, TypeOK
<1>6. q \in Seq(Item)
  BY <1>3, PlaceTypes
<1>7. /\ Len(q) \in Nat /\ Len(q2) = Len(q) + 1 /\ q2[Len(q) + 1] = item
      /\ \A k \in 1 .. Len(q) : k \in 1 .. Len(q2) /\ q2[k] = q[k]
      /\ \A k \in 1 .. Len(q2) : k \in 1 .. Len(q) \/ k = Len(q) + 1
      /\ Len(q) + 1 \in 1 .. Len(q2)
  BY <1>5, <1>6
<1>8. /\ \A x \in Packet : (Queued(x)' <=> Queued(x)) /\ (HeaderIn(x)' <=> HeaderIn(x))
      /\ \A m : Source(m)' = Source(m)
  BY DEF HeaderIn, Queued, Source
<1>9. /\ \A u \in SenderThreads, j \in Ranks : sending'[u][j] \in {sending[u][j], NoPacket}
      /\ sending'[t][i] = NoPacket \/ (sending'[t][i] = p /\ p.type = "DCBUF")
      /\ \A u \in SenderThreads, j \in Ranks : u # t \/ j # i =>
           sending'[u][j] = sending[u][j] /\ stage'[u][j] = stage[u][j]
  <2>1. CASE p.type = "DCBUF" /\ stage' = [stage EXCEPT ![t][i] = "body"] /\ sending' = sending
    BY <2>1 DEF Types, TypeOK
  <2>2. CASE sending' = [sending EXCEPT ![t][i] = NoPacket] /\ stage' = stage
    BY <2>2 DEF Types, TypeOK
  <2>3. QED
    BY <2>1, <2>2
<1>10. \A x \in Packet : /\ InHand(x)' => InHand(x)
                         /\ InHand(x) => InHand(x)' \/ x = p
  <2>1. SUFFICES ASSUME NEW x \in Packet
                 PROVE  /\ InHand(x)' => InHand(x)
                        /\ InHand(x) => InHand(x)' \/ x = p
    OBVIOUS
  <2>2. PICK u \in SenderThreads : u = Thread(x)
    BY PlaceTypes
  <2>3. PICK j \in Ranks : j = InRank(x)
    BY PlaceTypes
  <2>4. (InHand(x)' <=> sending'[u][j] = x) /\ (InHand(x) <=> sending[u][j] = x) /\ x # NoPacket
    BY <2>2, <2>3, PlaceTypes DEF InHand
  <2>5. QED
    BY <2>4, <1>9
<1>11. InHand(p) /\ (InHand(p)' => p.type = "DCBUF")
  BY <1>1, <1>9, PlaceTypes DEF InHand
<1>12. \A x \in Packet : OnLine(x)' <=> (OnLine(x) \/ x = p)
  <2>1. SUFFICES ASSUME NEW x \in Packet
                 PROVE  OnLine(x)' <=> (OnLine(x) \/ x = p)
    OBVIOUS
  <2>2. CASE InRank(x) = i /\ OutRank(x) = o
    <3>1. /\ OnLine(x) <=> \E k \in 1 .. Len(q) : q[k].packet = x
          /\ OnLine(x)' <=> \E k \in 1 .. Len(q2) : q2[k].packet = x
      BY <2>2, <1>3, <1>4 DEF OnLine, Line
    <3>2. (\E k \in 1 .. Len(q2) : q2[k].packet = x) <=> ((\E k \in 1 .. Len(q) : q[k].packet = x) \/ x = p)
      BY <1>7
    <3>3. QED
      BY <3>1, <3>2
  <2>3. CASE ~(InRank(x) = i /\ OutRank(x) = o)
    <3>1. Line(x)' = Line(x)
      BY <2>3, <1>5, PlaceTypes DEF Line
    <3>2. x # p
      BY <2>3, <1>1, <1>2
    <3>3. QED
      BY <3>1, <3>2 DEF OnLine
  <2>4. QED
    BY <2>2, <2>3
<1>13. HandInv'
  <2>1. SUFFICES ASSUME NEW u \in SenderThreads, NEW j \in Ranks, sending'[u][j] # NoPacket
                 PROVE  /\ Genuine(sending'[u][j]) /\ Thread(sending'[u][j]) = u
                        /\ InRank(sending'[u][j]) = j /\ OutRank(sending'[u][j]) # j
                        /\ stage'[u][j] = "body" => sending'[u][j].type = "DCBUF"
    BY DEF HandInv
  <2>2. CASE u = t /\ j = i
    BY <2>1, <2>2, <1>1, <1>9
  <2>3. CASE ~(u = t /\ j = i)
    BY <2>1, <2>3, <1>9 DEF PlaceInv, HandInv
  <2>4. QED
    BY <2>2, <2>3
<1>14. LineInv'
  <2>1. SUFFICES ASSUME NEW j \in Ranks, NEW r \in Ranks, NEW k \in 1 .. Len(wire'[j][r])
                 PROVE  OfLine(j, r, wire'[j][r][k])
    BY DEF LineInv, OfLine
  <2>2. CASE j # i \/ r # o
    BY <2>1, <2>2, <1>5 DEF PlaceInv, LineInv
  <2>3. CASE j = i /\ r = o
    <3>1. k \in 1 .. Len(q2) /\ wire'[j][r][k] = q2[k]
      BY <2>1, <2>3, <1>4
    <3>2. CASE k = Len(q) + 1
      BY <3>1, <3>2, <2>3, <1>1, <1>2, <1>7 DEF OfLine
    <3>3. CASE k \in 1 .. Len(q)
      <4>1. wire'[j][r][k] = wire[i][o][k] /\ k \in 1 .. Len(wire[i][o])
        BY <3>1, <3>3, <1>3, <1>7
      <4>2. QED
        BY <4>1, <2>3 DEF PlaceInv, LineInv
    <3>4. QED
      BY <3>1, <3>2, <3>3, <1>7
  <2>4. QED
    BY <2>2, <2>3
<1>15. SourceInv' /\ HeadsInv'
  BY <1>8 DEF PlaceInv, HeadsInv, SourceInv
<1>16. Ordered'
  <2>1. SUFFICES ASSUME NEW d \in Packet, NEW e \in Packet, Before(d, e)
                 PROVE  InOrder(d, e)'
    BY DEF Ordered
  <2>2. InOrder(d, e)
    BY <2>1 DEF Ordered
  <2>3. /\ Thread(d) = Thread(e) /\ InRank(d) = InRank(e) /\ OutRank(d) = OutRank(e) /\ d.from = e.from
        /\ d # NoPacket /\ e # NoPacket /\ e.type # "DCBUF"
    BY <2>1, PlaceTypes DEF Before
  <2>4. InHand(e)' => ~Queued(d)'
    BY <2>2, <1>8, <1>10 DEF InOrder
  <2>5. OnLine(e)' => ~Queued(d)' /\ ~InHand(d)'
    <3>1. CASE e = p
      <4>1. ~Queued(d)
        BY <3>1, <2>2, <1>11 DEF InOrder
      <4>2. InHand(d)' => d = p
        BY <3>1, <2>3, <1>1, <1>9 DEF InHand
      <4>3. QED
        BY <4>1, <4>2, <3>1, <2>3, <1>8, <1>11
    <3>2. CASE e # p
      BY <3>2, <2>2, <1>8, <1>10, <1>12 DEF InOrder
    <3>3. QED
      BY <3>1, <3>2
  <2>6. \A j, k \in 1 .. Len(Line(e)') : Line(e)'[j].packet = e /\ Line(e)'[k].packet = d => k <= j
    <3>1. CASE ~(InRank(e) = i /\ OutRank(e) = o)
      <4>1. Line(e)' = Line(e)
        BY <3>1, <1>5, PlaceTypes DEF Line
      <4>2. QED
        BY <4>1, <2>2 DEF InOrder
    <3>2. CASE InRank(e) = i /\ OutRank(e) = o
      <4>1. Line(e) = q /\ Line(e)' = q2
        BY <3>2, <1>3, <1>4 DEF Line
      <4>2. SUFFICES ASSUME NEW j \in 1 .. Len(q2), NEW k \in 1 .. Len(q2), q2[j].packet = e, q2[k].packet = d
                     PROVE  k <= j
        BY <4>1
      <4>3. CASE j = Len(q) + 1
        BY <4>3, <1>7
      <4>4. CASE j \in 1 .. Len(q) /\ k \in 1 .. Len(q)
        BY <4>1, <4>2, <4>4, <1>7, <2>2 DEF InOrder
      <4>5. CASE j \in 1 .. Len(q) /\ k = Len(q) + 1
        <5>1. d = p
          BY <4>2, <4>5, <1>7
        <5>2. OnLine(e)
          BY <4>1, <4>2, <4>5, <1>7 DEF OnLine
        <5>3. QED
          BY <5>1, <5>2, <2>2, <1>11 DEF InOrder
      <4>6. QED
        BY <4>3, <4>4, <4>5, <1>7
    <3>3. QED
      BY <3>1, <3>2
  <2>7. QED
    BY <2>2, <2>4, <2>5, <2>6, <1>8 DEF InOrder
<1>17. Kept
  BY <1>8, <1>10, <1>11, <1>12 DEF Kept, Way
<1>18. QED
  BY <1>13, <1>14, <1>15, <1>16, <1>17 DEF Placed

\* The first item of a connection, of packet p, is taken off it.
Shifts(i, r, p) ==
  /\ wire[i][r] # <<>> /\ p = Head(wire[i][r]).packet
  /\ wire' = [wire EXCEPT ![i][r] = Tail(@)]
  /\ UNCHANGED <<outq, fromConsole, sending, stage>>

\* The first item of a connection leaves it, and the order of the others holds.
LEMMA ShiftsMove ==
  ASSUME Types, PlaceInv, Ordered, NEW i \in Ranks, NEW r \in Ranks, NEW p, Shifts(i, r, p)
  PROVE  /\ OfLine(i, r, Head(wire[i][r])) /\ Genuine(p) /\ p \in Packet
         /\ InRank(p) = i /\ OutRank(p) = r /\ i # r /\ OnLine(p)
         /\ SourceInv' /\ HandInv' /\ LineInv' /\ Ordered'
         /\ \A x \in Packet : /\ (Queued(x)' <=> Queued(x)) /\ (InHand(x)' <=> InHand(x))
                              /\ OnLine(x)' => OnLine(x)
                              /\ OnLine(x) => OnLine(x)' \/ x = p
         /\ \A d \in Packet : Before(d, p) => ~Queued(d)' /\ ~InHand(d)' /\ ~OnLine(d)'
<1>1. PICK q : q = wire[i][r]
  OBVIOUS
<1>2. PICK q2 : q2 = wire'[i][r]
  OBVIOUS
<1>3. /\ q2 = Tail(q) /\ q # <<>> /\ p = Head(q).packet
      /\ \A j, n \in Ranks : j # i \/ n # r => wire'[j][n] = wire[j][n]
  BY <1>1, <1>2 DEF Types, TypeOK, Shifts
<1>4. q \in Seq(Item)
  BY <1>1, PlaceTypes
<1>5. /\ Len(q) \in Nat /\ Len(q) > 0 /\ Len(q2) = Len(q) - 1 /\ p = q[1].packet /\ Head(q) = q[1]
      /\ \A k \in 1 .. Len(q2) : k + 1 \in 1 .. Len(q) /\ q2[k] = q[k + 1]
      /\ 1 \in 1 .. Len(q)
  BY <1>3, <1>4
<1>6. OfLine(i, r, Head(wire[i][r]))
  BY <1>1, <1>5 DEF PlaceInv, LineInv
<1>7. /\ Genuine(p) /\ p \in Packet
      /\ InRank(p) = i /\ OutRank(p) = r /\ i # r
  BY <1>1, <1>3, <1>6, GenuineFacts DEF OfLine
<1>8. OnLine(p)
  BY <1>1, <1>5, <1>7 DEF OnLine, Line
<1>9. /\ \A x \in Packet : (Queued(x)' <=> Queued(x)) /\ (InHand(x)' <=> InHand(x))
      /\ \A m : Source(m)' = Source(m)
  BY DEF Queued, Source, InHand, Shifts
<1>10. SourceInv' /\ HandInv'
  BY <1>9 DEF PlaceInv, SourceInv, HandInv, Shifts
<1>11. LineInv'
  <2>1. SUFFICES ASSUME NEW j \in Ranks, NEW n \in Ranks, NEW k \in 1 .. Len(wire'[j][n])
                 PROVE  OfLine(j, n, wire'[j][n][k])
    BY DEF LineInv, OfLine
  <2>2. CASE j # i \/ n # r
    BY <2>1, <2>2, <1>3 DEF PlaceInv, LineInv
  <2>3. CASE j = i /\ n = r
    <3>1. k + 1 \in 1 .. Len(q) /\ wire'[j][n][k] = q[k + 1]
      BY <2>1, <2>3, <1>2, <1>5
    <3>2. QED
      BY <3>1, <2>3, <1>1 DEF PlaceInv, LineInv
  <2>4. QED
    BY <2>2, <2>3
<1>12. \A x \in Packet : /\ OnLine(x)' => OnLine(x)
                         /\ OnLine(x) => OnLine(x)' \/ x = p
  <2>1. SUFFICES ASSUME NEW x \in Packet
                 PROVE  /\ OnLine(x)' => OnLine(x)
                        /\ OnLine(x) => OnLine(x)' \/ x = p
    OBVIOUS
  <2>2. CASE ~(InRank(x) = i /\ OutRank(x) = r)
    <3>1. Line(x)' = Line(x)
      BY <2>2, <1>3, PlaceTypes DEF Line
    <3>2. QED
      BY <3>1 DEF OnLine
  <2>3. CASE InRank(x) = i /\ OutRank(x) = r
    <3>1. /\ OnLine(x) <=> \E k \in 1 .. Len(q) : q[k].packet = x
          /\ OnLine(x)' <=> \E k \in 1 .. Len(q2) : q2[k].packet = x
      BY <2>3, <1>1, <1>2 DEF OnLine, Line
    <3>2. ASSUME NEW k \in 1 .. Len(q), q[k].packet = x
          PROVE  x = p \/ \E l \in 1 .. Len(q2) : q2[l].packet = x
      <4>1. CASE k = 1
        BY <4>1, <3>2, <1>5
      <4>2. CASE k # 1
        <5>1. k - 1 \in 1 .. Len(q2) /\ (k - 1) + 1 = k
          BY <4>2, <1>5
        <5>2. PICK l \in 1 .. Len(q2) : l + 1 = k
          BY <5>1
        <5>3. q2[l].packet = x
          BY <5>2, <3>2, <1>5
        <5>4. QED
          BY <5>3
      <4>3. QED
        BY <4>1, <4>2
    <3>3. QED
      BY <3>1, <3>2, <1>5
  <2>4. QED
    BY <2>2, <2>3
<1>13. Ordered'
  <2>1. SUFFICES ASSUME NEW d \in Packet, NEW e \in Packet, Before(d, e)
                 PROVE  InOrder(d, e)'
    BY DEF Ordered
  <2>2. InOrder(d, e)
    BY <2>1 DEF Ordered
  <2>3. \A j, k \in 1 .. Len(Line(e)') : Line(e)'[j].packet = e /\ Line(e)'[k].packet = d => k <= j
    <3>1. CASE ~(InRank(e) = i /\ OutRank(e) = r)
      <4>1. Line(e)' = Line(e)
        BY <3>1, <1>3, PlaceTypes DEF Line
      <4>2. QED
        BY <4>1, <2>2 DEF InOrder
    <3>2. CASE InRank(e) = i /\ OutRank(e) = r
      <4>1. Line(e) = q /\ Line(e)' = q2
        BY <3>2, <1>1, <1>2 DEF Line
      <4>2. SUFFICES ASSUME NEW j \in 1 .. Len(q2), NEW k \in 1 .. Len(q2), q2[j].packet = e, q2[k].packet = d
                     PROVE  k <= j
        BY <4>1
      <4>3. j + 1 \in 1 .. Len(q) /\ k + 1 \in 1 .. Len(q) /\ q[j + 1].packet = e /\ q[k + 1].packet = d
        BY <4>2, <1>5
      <4>4. k + 1 <= j + 1
        BY <4>3, <4>1, <2>2 DEF InOrder
      <4>5. QED
        BY <4>4, <4>2
    <3>3. QED
      BY <3>1, <3>2
  <2>4. QED
    BY <2>2, <2>3, <1>9, <1>12 DEF InOrder
<1>14. ASSUME NEW d \in Packet, Before(d, p)
       PROVE  ~Queued(d)' /\ ~InHand(d)' /\ ~OnLine(d)'
  <2>1. InOrder(d, p)
    BY <1>7, <1>14 DEF Ordered
  <2>2. ~Queued(d) /\ ~InHand(d)
    BY <2>1, <1>8 DEF InOrder
  <2>3. ASSUME OnLine(d)'
        PROVE  FALSE
    <3>1. InRank(d) = i /\ OutRank(d) = r
      BY <1>7, <1>14, PlaceTypes
    <3>2. PICK k \in 1 .. Len(q2) : q2[k].packet = d
      BY <2>3, <3>1, <1>2 DEF OnLine, Line
    <3>3. k + 1 \in 1 .. Len(q) /\ q[k + 1].packet = d /\ Line(p) = q
      BY <3>2, <1>1, <1>5, <1>7 DEF Line
    <3>4. k + 1 <= 1
      BY <3>3, <2>1, <1>5 DEF InOrder
    <3>5. QED
      BY <3>2, <3>4
  <2>4. QED
    BY <2>2, <2>3, <1>9
<1>15. QED
  BY <1>6, <1>7, <1>8, <1>9, <1>10, <1>11, <1>12, <1>13, <1>14

\* The header of a buffer is kept until its body is read.
LEMMA HeaderMove ==
  ASSUME Types, PlaceInv, Ordered, NEW i \in Ranks, NEW r \in Ranks, NEW p, Shifts(i, r, p),
         p.type = "DCBUF", heads[r][i] = NoPacket, heads' = [heads EXCEPT ![r][i] = p]
  PROVE  Placed /\ Kept
<1>1. /\ Genuine(p) /\ p \in Packet /\ p # NoPacket
      /\ InRank(p) = i /\ OutRank(p) = r /\ i # r /\ OnLine(p)
      /\ SourceInv' /\ HandInv' /\ LineInv' /\ Ordered'
      /\ \A x \in Packet : /\ (Queued(x)' <=> Queued(x)) /\ (InHand(x)' <=> InHand(x))
                           /\ OnLine(x)' => OnLine(x)
                           /\ OnLine(x) => OnLine(x)' \/ x = p
  BY ShiftsMove, PacketFacts
<1>2. /\ heads'[r][i] = p
      /\ \A j, n \in Ranks : j # i \/ n # r => heads'[n][j] = heads[n][j]
  BY DEF Types, TypeOK
<1>3. HeadsInv'
  <2>1. SUFFICES ASSUME NEW j \in Ranks, NEW n \in Ranks, heads'[n][j] # NoPacket
                 PROVE  /\ Genuine(heads'[n][j]) /\ heads'[n][j].type = "DCBUF"
                        /\ InRank(heads'[n][j]) = j /\ OutRank(heads'[n][j]) = n /\ j # n
    BY DEF HeadsInv
  <2>2. CASE j = i /\ n = r
    BY <2>2, <1>1, <1>2
  <2>3. CASE j # i \/ n # r
    BY <2>1, <2>3, <1>2 DEF PlaceInv, HeadsInv
  <2>4. QED
    BY <2>2, <2>3
<1>4. \A x \in Packet : HeaderIn(x)' <=> (HeaderIn(x) \/ x = p)
  <2>1. SUFFICES ASSUME NEW x \in Packet
                 PROVE  HeaderIn(x)' <=> (HeaderIn(x) \/ x = p)
    OBVIOUS
  <2>2. CASE InRank(x) = i /\ OutRank(x) = r
    BY <2>2, <1>2, PlaceTypes DEF HeaderIn
  <2>3. CASE ~(InRank(x) = i /\ OutRank(x) = r)
    <3>1. heads'[OutRank(x)][InRank(x)] = heads[OutRank(x)][InRank(x)]
      BY <2>3, <1>2, PlaceTypes
    <3>2. QED
      BY <3>1, <2>3, <1>1 DEF HeaderIn
  <2>4. QED
    BY <2>2, <2>3
<1>5. Kept
  BY <1>1, <1>4 DEF Kept, Way
<1>6. QED
  BY <1>1, <1>3, <1>5 DEF Placed

\* A packet without a body arrives.
LEMMA PacketMove ==
  ASSUME Types, PlaceInv, Ordered, NEW i \in Ranks, NEW r \in Ranks, NEW p, Shifts(i, r, p),
         heads[r][i] = NoPacket, heads' = heads
  PROVE  Placed /\ Gone(p)
<1>1. /\ Genuine(p) /\ p \in Packet
      /\ InRank(p) = i /\ OutRank(p) = r /\ i # r /\ OnLine(p)
      /\ SourceInv' /\ HandInv' /\ LineInv' /\ Ordered'
      /\ \A x \in Packet : /\ (Queued(x)' <=> Queued(x)) /\ (InHand(x)' <=> InHand(x))
                           /\ OnLine(x)' => OnLine(x)
                           /\ OnLine(x) => OnLine(x)' \/ x = p
      /\ \A d \in Packet : Before(d, p) => ~Queued(d)' /\ ~InHand(d)' /\ ~OnLine(d)'
  BY ShiftsMove
<1>2. HeadsInv' /\ \A x : HeaderIn(x)' <=> HeaderIn(x)
  BY DEF PlaceInv, HeadsInv, HeaderIn
<1>3. ASSUME NEW d \in Packet, Before(d, p)
      PROVE  ~HeaderIn(d)
  <2>1. InRank(d) = i /\ OutRank(d) = r /\ d # NoPacket
    BY <1>1, <1>3, PlaceTypes
  <2>2. QED
    BY <2>1 DEF HeaderIn
<1>4. Gone(p)
  BY <1>1, <1>2, <1>3 DEF Gone, Way
<1>5. QED
  BY <1>1, <1>2, <1>4 DEF Placed

\* The body of a buffer is read.
LEMMA BodyMove ==
  ASSUME Types, PlaceInv, Ordered, NEW i \in Ranks, NEW r \in Ranks, NEW p, Shifts(i, r, p),
         heads[r][i] = p, heads' = [heads EXCEPT ![r][i] = NoPacket]
  PROVE  Placed /\ Gone(p)
<1>1. /\ Genuine(p) /\ p \in Packet /\ p # NoPacket
      /\ InRank(p) = i /\ OutRank(p) = r /\ i # r /\ OnLine(p)
      /\ SourceInv' /\ HandInv' /\ LineInv' /\ Ordered'
      /\ \A x \in Packet : /\ (Queued(x)' <=> Queued(x)) /\ (InHand(x)' <=> InHand(x))
                           /\ OnLine(x)' => OnLine(x)
                           /\ OnLine(x) => OnLine(x)' \/ x = p
  BY ShiftsMove, PacketFacts
<1>2. /\ heads'[r][i] = NoPacket
      /\ \A j, n \in Ranks : j # i \/ n # r => heads'[n][j] = heads[n][j]
  BY DEF Types, TypeOK
<1>3. HeadsInv'
  <2>1. SUFFICES ASSUME NEW j \in Ranks, NEW n \in Ranks, heads'[n][j] # NoPacket
                 PROVE  /\ Genuine(heads'[n][j]) /\ heads'[n][j].type = "DCBUF"
                        /\ InRank(heads'[n][j]) = j /\ OutRank(heads'[n][j]) = n /\ j # n
    BY DEF HeadsInv
  <2>2. j # i \/ n # r
    BY <2>1, <1>2
  <2>3. QED
    BY <2>1, <2>2, <1>2 DEF PlaceInv, HeadsInv
<1>4. \A x \in Packet : /\ HeaderIn(x)' => HeaderIn(x)
                        /\ HeaderIn(x) => HeaderIn(x)' \/ x = p
  <2>1. SUFFICES ASSUME NEW x \in Packet
                 PROVE  /\ HeaderIn(x)' => HeaderIn(x)
                        /\ HeaderIn(x) => HeaderIn(x)' \/ x = p
    OBVIOUS
  <2>2. CASE InRank(x) = i /\ OutRank(x) = r
    BY <2>2, <1>2, PlaceTypes DEF HeaderIn
  <2>3. CASE ~(InRank(x) = i /\ OutRank(x) = r)
    <3>1. heads'[OutRank(x)][InRank(x)] = heads[OutRank(x)][InRank(x)]
      BY <2>3, <1>2, PlaceTypes
    <3>2. QED
      BY <3>1 DEF HeaderIn
  <2>4. QED
    BY <2>2, <2>3
<1>5. p.type = "DCBUF"
  BY <1>1 DEF PlaceInv, HeadsInv
<1>6. Gone(p)
  BY <1>1, <1>4, <1>5 DEF Gone, Way, Before
<1>7. QED
  BY <1>1, <1>3, <1>6 DEF Placed

-----------------------------------------------------------------------------
(* Types                                                                   *)

\* Functions with one value changed.
LEMMA Grid ==
  ASSUME NEW A, NEW B, NEW S, NEW F \in [A -> [B -> S]], NEW a, NEW b, NEW v \in S
  PROVE  [F EXCEPT ![a][b] = v] \in [A -> [B -> S]]
OBVIOUS

LEMMA Row ==
  ASSUME NEW A, NEW S, NEW F \in [A -> S], NEW a, NEW v \in S
  PROVE  [F EXCEPT ![a] = v] \in [A -> S]
OBVIOUS

LEMMA Counter ==
  ASSUME NEW V \in [Ranks -> Int], NEW W, NEW r,
         W = V \/ W = [V EXCEPT ![r] = V[r] + 1] \/ W = [V EXCEPT ![r] = V[r] - 1]
  PROVE  /\ W \in [Ranks -> Int]
         /\ V \in [Ranks -> Nat] /\ W # [V EXCEPT ![r] = V[r] - 1] => W \in [Ranks -> Nat]
<1>1. CASE r \in Ranks
  <2>1. V[r] + 1 \in Int /\ V[r] - 1 \in Int
    BY <1>1
  <2>2. W \in [Ranks -> Int]
    BY <2>1
  <2>3. ASSUME V \in [Ranks -> Nat], W # [V EXCEPT ![r] = V[r] - 1]
        PROVE  W \in [Ranks -> Nat]
    <3>1. V[r] + 1 \in Nat
      BY <1>1, <2>3
    <3>2. QED
      BY <2>3, <3>1
  <2>4. QED
    BY <2>2, <2>3
<1>2. CASE r \notin Ranks
  BY <1>2
<1>3. QED
  BY <1>1, <1>2

LEMMA Budget ==
  ASSUME NEW V \in [Filters -> Int], NEW W, NEW f,
         W = V \/ W = [V EXCEPT ![f] = V[f] + 1] \/ W = [V EXCEPT ![f] = V[f] - 1]
  PROVE  W \in [Filters -> Int]
<1>1. CASE f \in Filters
  <2>1. V[f] + 1 \in Int /\ V[f] - 1 \in Int
    BY <1>1
  <2>2. QED
    BY <2>1
<1>2. CASE f \notin Filters
  BY <1>2
<1>3. QED
  BY <1>1, <1>2

\* Every action keeps the types.
LEMMA BlockTypes ==
  ASSUME Types, NEW s \in Streams, FilterBlock(s[1], s[2])
  PROVE  Types'
<1>1. s[1] \in Filters /\ s[2] \in Filters
  BY JobFacts
<1>2. blocked' \in [Filters -> Filters \cup {NoFilter}]
  <2>1. /\ blocked \in [Filters -> Filters \cup {NoFilter}]
        /\ blocked' = [blocked EXCEPT ![s[1]] = s[2]] /\ s[2] \in Filters \cup {NoFilter}
    BY <1>1 DEF FilterBlock, Types, TypeOK
  <2>2. QED
    BY <2>1, Row
<1>3. QED
  BY <1>2 DEF FilterBlock, Types, TypeOK, portVars, wireVars, consoleVars

LEMMA FilterTypes ==
  ASSUME Types, NEW s \in Streams, FilterWrite(s[1], s[2]) \/ FilterClose(s[1], s[2])
  PROVE  Types'
<1>1. PICK w \in Filters, g \in Filters : w = s[1] /\ g = s[2] /\ s = <<w, g>>
  BY JobFacts
<1>2. HostOf[w] \in Nodes /\ HostOf[g] \in Ranks /\ 0 \in Ranks
  BY <1>1, JobFacts
<1>3. CASE FilterWrite(w, g)
  <2>1. PICK n \in Nat : n = wrote[<<w, g>>] + 1
    BY <1>1, JobAssumption DEF Types, TypeOK
  <2>2. /\ wrote' = [wrote EXCEPT ![<<w, g>>] = n] /\ blocked' = [blocked EXCEPT ![w] = NoFilter]
        /\ usage' = usage \/ usage' = [usage EXCEPT ![w] = usage[w] + 1]
    BY <1>3, <2>1 DEF FilterWrite
  <2>3. /\ wrote' \in [Streams -> Nat] /\ usage' \in [Filters -> Int]
        /\ blocked' \in [Filters -> Filters \cup {NoFilter}]
    <3>1. /\ wrote \in [Streams -> Nat] /\ usage \in [Filters -> Int]
          /\ blocked \in [Filters -> Filters \cup {NoFilter}] /\ NoFilter \in Filters \cup {NoFilter}
      BY DEF Types, TypeOK
    <3>2. QED
      BY <2>1, <2>2, <3>1, Budget, Row
  <2>4. DcBuf(w, g, n) \in Packet
    BY PacketFacts
  <2>5. CASE HostOf[w] = HostOf[g]
    <3>1. /\ inq' = [inq EXCEPT ![g] = Append(@, <<w, n, "writer">>)]
          /\ UNCHANGED <<outq, fromConsole, rtUsage>>
      BY <1>2, <1>3, <2>1, <2>5, JobFacts DEF FilterWrite
    <3>2. Append(inq[g], <<w, n, "writer">>) \in Seq(Filters \X Nat \X {"writer", "runtime"})
      BY DEF Types
    <3>3. inq' \in [Filters -> Seq(Filters \X Nat \X {"writer", "runtime"})]
      BY <3>1, <3>2 DEF Types
    <3>4. \A f \in Filters : \A k \in DOMAIN inq'[f] : inq'[f][k] \in Filters \X Nat \X {"writer", "runtime"}
      BY <3>3
    <3>5. QED
      BY <1>3, <2>3, <3>1, <3>3, <3>4 DEF FilterWrite, Types, TypeOK, filterVars, portVars, wireVars, consoleVars
  <2>6. CASE HostOf[w] # HostOf[g] /\ HostOf[w] # Console
    <3>1. HostOf[w] \in Ranks
      BY <1>2, <2>6, JobFacts
    <3>2. /\ outq' = [outq EXCEPT ![HostOf[w]] = Append(@, DcBuf(w, g, n))]
          /\ UNCHANGED <<inq, fromConsole, rtUsage>>
      BY <1>3, <2>1, <2>6 DEF FilterWrite
    <3>3. outq' \in [Ranks -> Seq(Packet)]
      BY <3>1, <3>2, <2>4 DEF Types, TypeOK
    <3>4. QED
      BY <1>3, <2>3, <3>2, <3>3 DEF FilterWrite, Types, TypeOK, filterVars, portVars, wireVars, consoleVars
  <2>7. CASE HostOf[w] = Console
    <3>1. /\ fromConsole' = Append(fromConsole, DcBuf(w, g, n))
          /\ rtUsage' = [rtUsage EXCEPT ![0] = @ + 1]
          /\ UNCHANGED <<inq, outq>>
      BY <1>2, <1>3, <2>1, <2>7, JobFacts DEF FilterWrite
    <3>2. fromConsole' \in Seq(Packet) /\ rtUsage' \in [Ranks -> Int]
      <4>1. fromConsole \in Seq(Packet) /\ rtUsage \in [Ranks -> Int]
        BY DEF Types, TypeOK
      <4>2. rtUsage' = [rtUsage EXCEPT ![0] = rtUsage[0] + 1]
        BY <3>1
      <4>3. rtUsage' \in [Ranks -> Int]
        BY <4>1, <4>2, Counter
      <4>4. QED
        BY <3>1, <4>1, <4>3, <2>4
    <3>3. QED
      BY <1>3, <2>3, <3>1, <3>2 DEF FilterWrite, Types, TypeOK, filterVars, portVars, wireVars, consoleVars
  <2>8. QED
    BY <2>5, <2>6, <2>7
<1>4. CASE FilterClose(w, g)
  <2>1. closed' \in [Filters -> SUBSET Filters]
    BY <1>4 DEF FilterClose, Types, TypeOK
  <2>2. RemovePutter(w, g) \in Packet
    BY PacketFacts
  <2>3. putters' \in [Filters -> SUBSET Filters]
    <3>1. putters' = putters \/ putters' = [putters EXCEPT ![g] = @ \ {w}]
      BY <1>4 DEF FilterClose
    <3>2. putters \in [Filters -> SUBSET Filters] /\ putters[g] \ {w} \in SUBSET Filters
      BY DEF Types, TypeOK
    <3>3. QED
      BY <3>1, <3>2, Row
  <2>4. outq' \in [Ranks -> Seq(Packet)]
    <3>1. outq' = outq \/ (HostOf[w] \in Ranks /\ outq' = [outq EXCEPT ![HostOf[w]] = Append(@, RemovePutter(w, g))])
      BY <1>2, <1>4, JobFacts DEF FilterClose
    <3>2. HostOf[w] \in Ranks => Append(outq[HostOf[w]], RemovePutter(w, g)) \in Seq(Packet)
      BY <2>2 DEF Types, TypeOK
    <3>3. QED
      BY <3>1, <3>2 DEF Types, TypeOK
  <2>5. fromConsole' \in Seq(Packet)
    <3>1. fromConsole' = fromConsole \/ fromConsole' = Append(fromConsole, RemovePutter(w, g))
      BY <1>4 DEF FilterClose
    <3>2. fromConsole \in Seq(Packet)
      BY DEF Types, TypeOK
    <3>3. QED
      BY <3>1, <3>2, <2>2
  <2>6. QED
    BY <1>4, <2>1, <2>3, <2>4, <2>5 DEF FilterClose, Types, TypeOK, filterVars, portVars, wireVars, consoleVars
<1>5. QED
  BY <1>1, <1>3, <1>4

LEMMA OtherFilterTypes ==
  ASSUME Types, NEW f \in Filters, FilterRead(f) \/ FilterReturn(f) \/ FilterErase(f)
  PROVE  Types'
<1>1. CASE FilterRead(f)
  <2>1. HostOf[f] \in Nodes
    BY JobFacts
  <2>2. inq' \in [Filters -> Seq(Filters \X Nat \X {"writer", "runtime"})]
    BY <1>1 DEF FilterRead, Types
  <2>3. rtUsage' \in [Ranks -> Int]
    <3>1. PICK V \in [Ranks -> Int] : V = rtUsage
      BY DEF Types, TypeOK
    <3>2. rtUsage' = V \/ rtUsage' = [V EXCEPT ![HostOf[f]] = V[HostOf[f]] - 1]
      BY <1>1, <3>1 DEF FilterRead
    <3>3. CASE HostOf[f] \in Ranks
      BY <3>2, <3>3
    <3>4. CASE HostOf[f] \notin Ranks
      BY <3>2, <3>4
    <3>5. QED
      BY <3>3, <3>4
  <2>4. \A g \in Filters : \A k \in DOMAIN inq'[g] : inq'[g][k] \in Filters \X Nat \X {"writer", "runtime"}
    BY <2>2
  <2>5. usage' \in [Filters -> Int]
    <3>1. usage \in [Filters -> Int]
      BY DEF Types, TypeOK
    <3>2. PICK w : usage' = usage \/ usage' = [usage EXCEPT ![w] = usage[w] - 1]
      BY <1>1 DEF FilterRead
    <3>3. QED
      BY <3>1, <3>2, Budget
  <2>6. QED
    BY <1>1, <2>2, <2>3, <2>4, <2>5 DEF FilterRead, Types, TypeOK, filterVars, portVars, wireVars, consoleVars
<1>2. CASE FilterReturn(f)
  BY <1>2 DEF FilterReturn, Types, TypeOK, filterVars, portVars, wireVars, consoleVars
<1>3. CASE FilterErase(f)
  BY <1>3 DEF FilterErase, Types, TypeOK, filterVars, portVars, wireVars, consoleVars
<1>4. QED
  BY <1>1, <1>2, <1>3

LEMMA ConsoleFinishTypes ==
  ASSUME Types, ConsoleFinish
  PROVE  Types'
<1>1. PICK ps : /\ ps = IF ConsolePresent THEN [i \in 1 .. NumRanks |-> AllDone(Console, i - 1)] ELSE <<>>
                /\ fromConsole' = fromConsole \o ps
  BY DEF ConsoleFinish
<1>2. ps \in Seq(Packet)
  <2>1. CASE ConsolePresent
    <3>1. \A i \in 1 .. NumRanks : AllDone(Console, i - 1) \in Packet
      BY <2>1, JobFacts, PacketFacts DEF Nodes, Ranks
    <3>2. PICK S : S = Packet
      OBVIOUS
    <3>3. ps = [i \in 1 .. NumRanks |-> AllDone(Console, i - 1)] /\ NumRanks \in Nat
      BY <1>1, <2>1, JobFacts
    <3>4. \A i \in 1 .. NumRanks : AllDone(Console, i - 1) \in S
      BY <3>1, <3>2
    <3>5. ps \in [1 .. NumRanks -> S]
      BY <3>3, <3>4
    <3>6. ps \in Seq(S)
      BY <3>3, <3>5
    <3>7. QED
      BY <3>2, <3>6
  <2>2. CASE ~ConsolePresent
    BY <1>1, <2>2
  <2>3. QED
    BY <2>1, <2>2
<1>3. fromConsole' \in Seq(Packet)
  BY <1>1, <1>2 DEF Types, TypeOK
<1>4. QED
  BY <1>3 DEF ConsoleFinish, Types, TypeOK, filterVars, portVars, wireVars

LEMMA WriteTypes ==
  ASSUME Types, PlaceInv, NEW t \in SenderThreads, NEW r \in Ranks, WriteHeader(t, r) \/ WriteBody(t, r)
  PROVE  /\ Types' /\ sending[t][r] \in Packet /\ OutRank(sending[t][r]) \in Ranks
         /\ HeaderOf(sending[t][r]) \in Item /\ BodyOf(sending[t][r]) \in Item
<1>1. PICK p : p = sending[t][r]
  OBVIOUS
<1>2. p \in Packet /\ OutRank(p) \in Ranks
  <2>1. p # NoPacket
    BY <1>1 DEF WriteHeader, WriteBody
  <2>2. p \in NodePacket
    BY <1>1 DEF Types, TypeOK
  <2>3. QED
    BY <2>1, <2>2, PlaceTypes DEF NodePacket
<1>3. HeaderOf(p) \in Item /\ BodyOf(p) \in Item
  BY <1>2 DEF HeaderOf, BodyOf, Item
<1>4. wire' \in [Ranks -> [Ranks -> Seq(Item)]]
  <2>1. PICK x \in Item : wire' = [wire EXCEPT ![r][OutRank(p)] = Append(@, x)]
    BY <1>1, <1>3 DEF WriteHeader, WriteBody
  <2>2. PICK V \in [Ranks -> [Ranks -> Seq(Item)]] : V = wire
    BY DEF Types, TypeOK
  <2>3. Append(V[r][OutRank(p)], x) \in Seq(Item)
    BY <1>2
  <2>4. QED
    BY <2>1, <2>2, <2>3, Grid
<1>5. sending' \in [SenderThreads -> [Ranks -> NodePacket]]
  <2>1. sending' = sending \/ sending' = [sending EXCEPT ![t][r] = NoPacket]
    BY DEF WriteHeader, WriteBody
  <2>2. NoPacket \in NodePacket
    BY DEF NodePacket
  <2>3. sending \in [SenderThreads -> [Ranks -> NodePacket]]
    BY DEF Types, TypeOK
  <2>4. [sending EXCEPT ![t][r] = NoPacket] \in [SenderThreads -> [Ranks -> NodePacket]]
    BY <2>2, <2>3, Grid
  <2>5. QED
    BY <2>1, <2>3, <2>4
<1>6. stage' \in [SenderThreads -> [Ranks -> {"header", "body"}]]
  <2>1. stage \in [SenderThreads -> [Ranks -> {"header", "body"}]]
    BY DEF Types, TypeOK
  <2>2. stage' = stage \/ stage' = [stage EXCEPT ![t][r] = "body"]
    BY DEF WriteHeader, WriteBody
  <2>3. QED
    BY <2>1, <2>2, Grid
<1>7. rtUsage' \in [Ranks -> Int]
  <2>1. PICK V \in [Ranks -> Int] : V = rtUsage
    BY DEF Types, TypeOK
  <2>2. rtUsage' = V \/ rtUsage' = [V EXCEPT ![r] = V[r] - 1]
    BY <2>1 DEF WriteHeader, WriteBody
  <2>3. QED
    BY <2>2, Counter
<1>8. usage' \in [Filters -> Int]
  <2>1. usage \in [Filters -> Int]
    BY DEF Types, TypeOK
  <2>2. usage' = usage \/ usage' = [usage EXCEPT ![p.writer] = usage[p.writer] - 1]
    BY <1>1 DEF WriteHeader, WriteBody, filterVars
  <2>3. QED
    BY <2>1, <2>2, Budget
<1>9. Types'
  BY <1>4, <1>5, <1>6, <1>7, <1>8 DEF WriteHeader, WriteBody, Types, TypeOK, filterVars, portVars, wireVars, consoleVars
<1>10. QED
  BY <1>1, <1>2, <1>3, <1>9

LEMMA StartDeliveryTypes ==
  ASSUME Types, NEW t \in SenderThreads, NEW r \in Ranks, NEW p \in Packet, StartDelivery(t, r, p)
  PROVE  /\ sending' \in [SenderThreads -> [Ranks -> NodePacket]]
         /\ stage' \in [SenderThreads -> [Ranks -> {"header", "body"}]]
         /\ routed' \in [Ranks -> Nat]
<1>1. /\ sending \in [SenderThreads -> [Ranks -> NodePacket]]
      /\ stage \in [SenderThreads -> [Ranks -> {"header", "body"}]]
      /\ routed \in [Ranks -> Nat]
  BY DEF Types, TypeOK
<1>2. p \in NodePacket
  BY DEF NodePacket
<1>3. sending' = sending \/ sending' = [sending EXCEPT ![t][r] = p]
  BY DEF StartDelivery
<1>4. [sending EXCEPT ![t][r] = p] \in [SenderThreads -> [Ranks -> NodePacket]]
  BY <1>1, <1>2, Grid
<1>5. stage' = stage \/ stage' = [stage EXCEPT ![t][r] = "header"]
  BY DEF StartDelivery
<1>6. [stage EXCEPT ![t][r] = "header"] \in [SenderThreads -> [Ranks -> {"header", "body"}]]
  BY <1>1, Grid
<1>7. routed' = routed \/ routed' = [routed EXCEPT ![r] = routed[r] + 1]
  BY DEF StartDelivery
<1>8. routed[r] + 1 \in Nat
  BY <1>1
<1>9. [routed EXCEPT ![r] = routed[r] + 1] \in [Ranks -> Nat]
  BY <1>1, <1>8, Row
<1>10. QED
  BY <1>1, <1>3, <1>4, <1>5, <1>6, <1>7, <1>9

LEMMA DeliverInTypes ==
  ASSUME Types, NEW r \in Ranks, NEW p, Genuine(p), DeliverIn(r, p)
  PROVE  /\ inq' \in [Filters -> Seq(Filters \X Nat \X {"writer", "runtime"})]
         /\ \A f \in Filters : \A k \in DOMAIN inq'[f] : inq'[f][k] \in Filters \X Nat \X {"writer", "runtime"}
         /\ putters' \in [Filters -> SUBSET Filters]
         /\ doneReceived' \in [Ranks -> Nat]
<1>1. /\ inq \in [Filters -> Seq(Filters \X Nat \X {"writer", "runtime"})]
      /\ putters \in [Filters -> SUBSET Filters]
      /\ doneReceived \in [Ranks -> Nat]
  BY DEF Types, TypeOK
<1>2. p.type # "ALL_MY_FILTERS_DONE" => p.writer \in Filters /\ p.reader \in Filters /\ p.seq \in Nat
  BY GenuineFacts
<1>3. inq' \in [Filters -> Seq(Filters \X Nat \X {"writer", "runtime"})]
  <2>1. CASE p.type = "DCBUF"
    <3>1. Append(inq[p.reader], <<p.writer, p.seq, "runtime">>) \in Seq(Filters \X Nat \X {"writer", "runtime"})
      BY <2>1, <1>1, <1>2
    <3>2. inq' = [inq EXCEPT ![p.reader] = Append(inq[p.reader], <<p.writer, p.seq, "runtime">>)]
      BY <2>1 DEF DeliverIn
    <3>3. QED
      BY <3>1, <3>2, <1>1, Row
  <2>2. CASE p.type # "DCBUF"
    BY <2>2, <1>1 DEF DeliverIn
  <2>3. QED
    BY <2>1, <2>2
<1>4. \A f \in Filters : \A k \in DOMAIN inq'[f] : inq'[f][k] \in Filters \X Nat \X {"writer", "runtime"}
  BY <1>3
<1>5. putters' \in [Filters -> SUBSET Filters]
  <2>1. putters' = putters \/ (p.reader \in Filters /\ putters' = [putters EXCEPT ![p.reader] = putters[p.reader] \ {p.writer}])
    BY <1>2 DEF DeliverIn
  <2>2. p.reader \in Filters => putters[p.reader] \ {p.writer} \in SUBSET Filters
    BY <1>1
  <2>3. QED
    BY <1>1, <2>1, <2>2, Row
<1>6. doneReceived' \in [Ranks -> Nat]
  <2>1. doneReceived' = doneReceived \/ doneReceived' = [doneReceived EXCEPT ![r] = doneReceived[r] + 1]
    BY DEF DeliverIn
  <2>2. doneReceived[r] + 1 \in Nat
    BY <1>1
  <2>3. QED
    BY <1>1, <2>1, <2>2, Row
<1>7. QED
  BY <1>3, <1>4, <1>5, <1>6

LEMMA AnnouncedRange ==
  ASSUME NEW r \in Ranks, NEW n \in NotAnnounced .. NumRanks - 1
  PROVE  NextAnnounced(r, n) \in NotAnnounced + 1 .. NumRanks /\ NextAnnounced(r, n) # r
BY JobFacts DEF NextAnnounced, NotAnnounced, Ranks

LEMMA TakeOutTypes ==
  ASSUME Types, NEW r \in Ranks, TakeOut(r)
  PROVE  Types'
<1>1. outq[r] \in Seq(Packet) /\ outq[r] # <<>> /\ outq' = [outq EXCEPT ![r] = Tail(outq[r])]
  BY DEF TakeOut, Types, TypeOK
<1>2. Head(outq[r]) \in Packet /\ Tail(outq[r]) \in Seq(Packet)
  BY <1>1
<1>3. outq' \in [Ranks -> Seq(Packet)]
  BY <1>1, <1>2 DEF Types, TypeOK
<1>4. /\ sending' \in [SenderThreads -> [Ranks -> NodePacket]]
      /\ stage' \in [SenderThreads -> [Ranks -> {"header", "body"}]]
      /\ routed' \in [Ranks -> Nat]
  BY <1>2, StartDeliveryTypes DEF TakeOut, SenderThreads
<1>5. QED
  BY <1>3, <1>4 DEF TakeOut, Types, TypeOK, filterVars, portVars, consoleVars

LEMMA RankTypes ==
  ASSUME Types, NEW r \in Ranks, Announce(r) \/ AnnounceNext(r) \/ Exit(r)
  PROVE  Types'
<1>1. CASE Announce(r)
  <2>1. announced' = [announced EXCEPT ![r] = FirstAnnounced(r)]
    BY <1>1 DEF Announce
  <2>2. FirstAnnounced(r) \in NotAnnounced .. NumRanks /\ FirstAnnounced(r) # r
    BY AnnouncedRange, JobFacts DEF FirstAnnounced, NotAnnounced, Console, Ranks
  <2>3. announced' \in [Ranks -> NotAnnounced .. NumRanks] /\ \A i \in Ranks : announced'[i] # i
    BY <2>1, <2>2 DEF Types, TypeOK
  <2>4. QED
    BY <1>1, <2>3 DEF Announce, Types, TypeOK, filterVars, portVars, wireVars, consoleVars
<1>2. CASE AnnounceNext(r)
  <2>1. PICK n : n = announced[r]
    OBVIOUS
  <2>2. n \in Nodes /\ n \in NotAnnounced .. NumRanks - 1
    BY <1>2, <2>1, JobFacts DEF AnnounceNext, Announcing, Nodes, Ranks, Console, NotAnnounced
  <2>3. announced' = [announced EXCEPT ![r] = NextAnnounced(r, n)] /\ StartDelivery("main", r, AllDone(r, n))
    BY <1>2, <2>1 DEF AnnounceNext
  <2>4. NextAnnounced(r, n) \in NotAnnounced .. NumRanks /\ NextAnnounced(r, n) # r
    BY <2>2, AnnouncedRange DEF NotAnnounced
  <2>5. announced' \in [Ranks -> NotAnnounced .. NumRanks] /\ \A i \in Ranks : announced'[i] # i
    BY <2>3, <2>4 DEF Types, TypeOK
  <2>6. AllDone(r, n) \in Packet
    BY <2>2, JobFacts, PacketFacts
  <2>7. /\ sending' \in [SenderThreads -> [Ranks -> NodePacket]]
        /\ stage' \in [SenderThreads -> [Ranks -> {"header", "body"}]]
        /\ routed' \in [Ranks -> Nat]
    BY <2>3, <2>6, StartDeliveryTypes DEF SenderThreads
  <2>8. QED
    BY <1>2, <2>5, <2>7 DEF AnnounceNext, Types, TypeOK, filterVars, portVars, consoleVars
<1>3. CASE Exit(r)
  BY <1>3 DEF Exit, Types, TypeOK, filterVars, portVars, wireVars, consoleVars
<1>4. QED
  BY <1>1, <1>2, <1>3

LEMMA MisreadTypes ==
  ASSUME Types, NEW r \in Ranks, Misread(r), UNCHANGED <<filterVars, outq, consoleVars, announced, exited>>
  PROVE  Types'
<1>1. unknown' \in [Ranks -> BOOLEAN]
  BY DEF Misread, Types, TypeOK
<1>2. QED
  BY <1>1 DEF Misread, Types, TypeOK, filterVars, portVars, wireVars, consoleVars

LEMMA ShiftsTypes ==
  ASSUME Types, NEW i \in Ranks, NEW r \in Ranks, wire[i][r] # <<>>, TakeItem(i, r)
  PROVE  /\ wire' \in [Ranks -> [Ranks -> Seq(Item)]]
         /\ Head(wire[i][r]) \in Item /\ Head(wire[i][r]).packet \in Packet
<1>1. wire \in [Ranks -> [Ranks -> Seq(Item)]] /\ wire[i][r] \in Seq(Item)
  BY DEF Types, TypeOK
<1>2. Tail(wire[i][r]) \in Seq(Item) /\ Head(wire[i][r]) \in Item
  BY <1>1
<1>3. wire' = [wire EXCEPT ![i][r] = Tail(wire[i][r])]
  BY DEF TakeItem
<1>4. [wire EXCEPT ![i][r] = Tail(wire[i][r])] \in [Ranks -> [Ranks -> Seq(Item)]]
  BY <1>1, <1>2, Grid
<1>5. QED
  BY <1>2, <1>3, <1>4 DEF Item

\* A rank reads the bodies of buffers for its own filters: it delivers them.
LEMMA ReadBodyDelivers ==
  ASSUME Types, PlaceInv, NEW r \in Ranks, ReadBody(r), NEW i, i = reading[r], NEW p, p = heads[r][i]
  PROVE  \/ Misread(r)
         \/ /\ Head(wire[i][r]) = BodyOf(p) /\ DeliverIn(r, p) /\ TakeItem(i, r)
            /\ heads' = [heads EXCEPT ![r][i] = NoPacket]
            /\ reading' = [reading EXCEPT ![r] = r]
            /\ UNCHANGED <<routed, sending, stage, rtUsage, unknown>>
<1>1. i \in Ranks /\ i # r
  BY DEF ReadBody, Types, TypeOK
<1>2. Genuine(p) /\ p.type = "DCBUF" /\ OutRank(p) = r
  BY <1>1 DEF PlaceInv, ReadingInv, HeadsInv
<1>3. p.to = r
  BY <1>2, GenuineFacts, JobFacts DEF OutRank
<1>4. QED
  BY <1>3 DEF ReadBody, Deliver

LEMMA ReadBodyTypes ==
  ASSUME Types, PlaceInv, NEW r \in Ranks, ReadBody(r)
  PROVE  Types'
<1>1. PICK i \in Ranks : i = reading[r]
  BY DEF Types, TypeOK
<1>2. PICK p : p = heads[r][i]
  OBVIOUS
<1>3. /\ i # r /\ wire[i][r] # <<>>
      /\ UNCHANGED <<filterVars, outq, consoleVars, announced, exited>>
      /\ \/ Misread(r)
         \/ /\ DeliverIn(r, p) /\ TakeItem(i, r)
            /\ heads' = [heads EXCEPT ![r][i] = NoPacket]
            /\ reading' = [reading EXCEPT ![r] = r]
            /\ UNCHANGED <<routed, sending, stage, rtUsage, unknown>>
  BY <1>1, <1>2, ReadBodyDelivers DEF ReadBody
<1>4. CASE Misread(r)
  BY <1>3, <1>4, MisreadTypes
<1>5. CASE /\ DeliverIn(r, p) /\ TakeItem(i, r)
           /\ heads' = [heads EXCEPT ![r][i] = NoPacket]
           /\ reading' = [reading EXCEPT ![r] = r]
           /\ UNCHANGED <<routed, sending, stage, rtUsage, unknown>>
  <2>1. Genuine(p)
    BY <1>1, <1>2, <1>3 DEF PlaceInv, ReadingInv, HeadsInv
  <2>2. /\ inq' \in [Filters -> Seq(Filters \X Nat \X {"writer", "runtime"})]
        /\ \A f \in Filters : \A k \in DOMAIN inq'[f] : inq'[f][k] \in Filters \X Nat \X {"writer", "runtime"}
        /\ putters' \in [Filters -> SUBSET Filters]
        /\ doneReceived' \in [Ranks -> Nat]
    BY <1>5, <2>1, DeliverInTypes
  <2>3. wire' \in [Ranks -> [Ranks -> Seq(Item)]]
    BY <1>3, <1>5, ShiftsTypes
  <2>4. heads' \in [Ranks -> [Ranks -> NodePacket]]
    <3>1. heads \in [Ranks -> [Ranks -> NodePacket]] /\ NoPacket \in NodePacket
      BY DEF Types, TypeOK, NodePacket
    <3>2. [heads EXCEPT ![r][i] = NoPacket] \in [Ranks -> [Ranks -> NodePacket]]
      BY <3>1, Grid
    <3>3. QED
      BY <1>5, <3>2
  <2>5. reading' \in [Ranks -> Ranks]
    BY <1>5 DEF Types, TypeOK
  <2>6. QED
    BY <1>3, <1>5, <2>2, <2>3, <2>4, <2>5 DEF Types, TypeOK, filterVars, consoleVars
<1>6. QED
  BY <1>3, <1>4, <1>5

LEMMA ReadHeaderTypes ==
  ASSUME Types, PlaceInv, NEW i \in Ranks, NEW r \in Ranks, ReadHeader(i, r) \/ ReadDeferred(i, r)
  PROVE  Types'
<1>1. CASE ReadDeferred(i, r)
  <2>1. rtUsage \in [Ranks -> Int] /\ rtUsage' = [rtUsage EXCEPT ![r] = rtUsage[r] + 1]
    BY <1>1 DEF ReadDeferred, Types, TypeOK
  <2>2. rtUsage' \in [Ranks -> Int]
    BY <2>1, Counter
  <2>3. reading' \in [Ranks -> Ranks]
    BY <1>1 DEF ReadDeferred, Types, TypeOK
  <2>4. QED
    BY <1>1, <2>2, <2>3 DEF ReadDeferred, Types, TypeOK, filterVars, portVars, wireVars, consoleVars
<1>2. CASE ReadHeader(i, r)
  <2>1. PICK p : p = Head(wire[i][r]).packet
    OBVIOUS
  <2>2. /\ wire[i][r] # <<>>
        /\ UNCHANGED <<filterVars, outq, consoleVars, announced, exited>>
    BY <1>2 DEF ReadHeader
  <2>3. CASE Misread(r)
    BY <2>2, <2>3, MisreadTypes
  <2>4. CASE /\ heads' = [heads EXCEPT ![r][i] = p] /\ BeginBody(i, r) /\ TakeItem(i, r)
             /\ UNCHANGED <<portVars, doneReceived, routed, sending, stage, unknown>>
    <3>1. wire' \in [Ranks -> [Ranks -> Seq(Item)]] /\ p \in NodePacket
      BY <2>1, <2>2, <2>4, ShiftsTypes DEF NodePacket
    <3>2. heads' \in [Ranks -> [Ranks -> NodePacket]]
      <4>1. heads \in [Ranks -> [Ranks -> NodePacket]]
        BY DEF Types, TypeOK
      <4>2. [heads EXCEPT ![r][i] = p] \in [Ranks -> [Ranks -> NodePacket]]
        BY <3>1, <4>1, Grid
      <4>3. QED
        BY <2>4, <4>2
    <3>3. rtUsage' \in [Ranks -> Int]
      <4>1. rtUsage \in [Ranks -> Int]
        BY DEF Types, TypeOK
      <4>2. rtUsage' = rtUsage \/ rtUsage' = [rtUsage EXCEPT ![r] = rtUsage[r] + 1]
        BY <2>4 DEF BeginBody
      <4>3. QED
        BY <4>1, <4>2, Counter
    <3>4. reading' \in [Ranks -> Ranks]
      BY <2>4 DEF BeginBody, Types, TypeOK
    <3>5. QED
      BY <2>2, <2>4, <3>1, <3>2, <3>3, <3>4 DEF Types, TypeOK, filterVars, portVars, consoleVars
  <2>5. CASE /\ Deliver(r, p) /\ TakeItem(i, r)
             /\ UNCHANGED <<heads, reading, rtUsage, unknown>>
    <3>1. wire' \in [Ranks -> [Ranks -> Seq(Item)]] /\ p \in Packet
      BY <2>1, <2>2, <2>5, ShiftsTypes
    <3>2. CASE DeliverIn(r, p) /\ UNCHANGED <<routed, sending, stage>>
      <4>1. Genuine(p)
        <5>1. PICK q \in Seq(Item) : q = wire[i][r]
          BY PlaceTypes
        <5>2. 1 \in 1 .. Len(q) /\ p = q[1].packet
          BY <2>1, <2>2, <5>1
        <5>3. QED
          BY <5>1, <5>2 DEF PlaceInv, LineInv, OfLine
      <4>2. /\ inq' \in [Filters -> Seq(Filters \X Nat \X {"writer", "runtime"})]
            /\ \A f \in Filters : \A k \in DOMAIN inq'[f] : inq'[f][k] \in Filters \X Nat \X {"writer", "runtime"}
            /\ putters' \in [Filters -> SUBSET Filters]
            /\ doneReceived' \in [Ranks -> Nat]
        BY <3>2, <4>1, DeliverInTypes
      <4>3. QED
        BY <2>2, <2>5, <3>1, <3>2, <4>2 DEF Types, TypeOK, filterVars, consoleVars
    <3>3. CASE StartDelivery("main", r, p) /\ UNCHANGED <<portVars, doneReceived>>
      <4>1. /\ sending' \in [SenderThreads -> [Ranks -> NodePacket]]
            /\ stage' \in [SenderThreads -> [Ranks -> {"header", "body"}]]
            /\ routed' \in [Ranks -> Nat]
        BY <3>1, <3>3, StartDeliveryTypes DEF SenderThreads
      <4>2. QED
        BY <2>2, <2>5, <3>1, <3>3, <4>1 DEF Types, TypeOK, filterVars, portVars, consoleVars
    <3>4. QED
      BY <2>5, <3>2, <3>3 DEF Deliver
  <2>6. QED
    BY <1>2, <2>1, <2>3, <2>4, <2>5 DEF ReadHeader
<1>3. QED
  BY <1>1, <1>2

LEMMA HandleConsoleTypes ==
  ASSUME Types, PlaceInv, HandleConsole
  PROVE  Types'
<1>1. PICK r \in Ranks : r = 0
  BY JobFacts
<1>2. fromConsole \in Seq(Packet) /\ fromConsole # <<>> /\ fromConsole' = Tail(fromConsole)
  BY DEF HandleConsole, Types, TypeOK
<1>3. PICK p : p = Head(fromConsole)
  OBVIOUS
<1>4. p \in Packet /\ fromConsole' \in Seq(Packet) /\ 1 \in 1 .. Len(fromConsole) /\ p = fromConsole[1]
  BY <1>2, <1>3
<1>5. Genuine(p)
  <2>1. Source(Console) = fromConsole
    BY DEF Source
  <2>2. QED
    BY <1>4, <2>1 DEF PlaceInv, SourceInv
<1>6. CASE DeliverIn(r, p) /\ UNCHANGED <<routed, sending, stage>>
  <2>1. /\ inq' \in [Filters -> Seq(Filters \X Nat \X {"writer", "runtime"})]
        /\ \A f \in Filters : \A k \in DOMAIN inq'[f] : inq'[f][k] \in Filters \X Nat \X {"writer", "runtime"}
        /\ putters' \in [Filters -> SUBSET Filters]
        /\ doneReceived' \in [Ranks -> Nat]
    BY <1>5, <1>6, DeliverInTypes
  <2>2. QED
    BY <1>4, <1>6, <2>1 DEF HandleConsole, Types, TypeOK, filterVars
<1>7. CASE StartDelivery("main", r, p) /\ UNCHANGED <<portVars, doneReceived>>
  <2>1. /\ sending' \in [SenderThreads -> [Ranks -> NodePacket]]
        /\ stage' \in [SenderThreads -> [Ranks -> {"header", "body"}]]
        /\ routed' \in [Ranks -> Nat]
    BY <1>4, <1>7, StartDeliveryTypes DEF SenderThreads
  <2>2. QED
    BY <1>4, <1>7, <2>1 DEF HandleConsole, Types, TypeOK, filterVars, portVars
<1>8. QED
  BY <1>1, <1>3, <1>6, <1>7 DEF HandleConsole, Deliver

-----------------------------------------------------------------------------
(* Ends of streams and done packets, by what a step does to the packets    *)

JobInv == FilterInv /\ CloseInv /\ EndInv /\ DoneInv
jobVars == <<status, closed, putters, fromOpen, announced, doneReceived>>

\* The ends of streams and the done packets are packets.
LEMMA JobPackets ==
  /\ \A s \in Streams : RemovePutter(s[1], s[2]) \in Packet
  /\ \A m, n \in Nodes : AllDone(m, n) \in Packet
  /\ \A p, s : OfStream(p, s) => p.type # "ALL_MY_FILTERS_DONE"
  /\ \A m, n : AllDone(m, n).type = "ALL_MY_FILTERS_DONE"
<1>1. \A s \in Streams : RemovePutter(s[1], s[2]) \in Packet
  BY JobFacts, PacketFacts
<1>2. \A p, s : OfStream(p, s) => p.type # "ALL_MY_FILTERS_DONE"
  BY PacketFacts DEF OfStream
<1>3. QED
  BY <1>1, <1>2, PacketFacts

\* The done packets that have arrived can be counted.
LEMMA NodesAreFinite == IsFiniteSet(Nodes) /\ \A n : IsFiniteSet(Arrived(n))
<1>1. PICK a \in Int, b \in Int : a = -1 /\ b = NumRanks - 1
  BY JobFacts
<1>2. Nodes \subseteq a .. b
  BY <1>1, JobFacts DEF Nodes, Ranks, Console
<1>3. IsFiniteSet(Nodes)
  BY <1>2, FS_Interval, FS_Subset
<1>4. \A n : Arrived(n) \subseteq Nodes
  BY DEF Arrived
<1>5. QED
  BY <1>3, <1>4, FS_Subset

\* Nothing about the done packets changes.
LEMMA SameDone ==
  ASSUME DoneInv, UNCHANGED <<fromOpen, announced, doneReceived>>,
         \A m, n \in Nodes : Way(AllDone(m, n))' <=> Way(AllDone(m, n))
  PROVE  DoneInv'
<1>1. \A m, n : Sent(m, n)' <=> Sent(m, n)
  BY DEF Sent
<1>2. ASSUME NEW n \in Ranks
      PROVE  Arrived(n)' = Arrived(n)
  <2>1. n \in Nodes
    BY JobFacts
  <2>2. QED
    BY <1>1, <2>1 DEF Arrived
<1>3. QED
  BY <1>1, <1>2 DEF DoneInv

\* A step that moves no packet and changes none of jobVars.
LEMMA QuietJob ==
  ASSUME JobInv, Kept, UNCHANGED jobVars
  PROVE  JobInv'
<1>1. FilterInv'
  BY DEF JobInv, FilterInv, jobVars
<1>2. CloseInv'
  BY JobPackets DEF JobInv, CloseInv, Kept, jobVars
<1>3. EndInv'
  BY DEF JobInv, EndInv, Kept, jobVars
<1>4. DoneInv'
  BY SameDone, JobPackets DEF JobInv, Kept, jobVars
<1>5. QED
  BY <1>1, <1>2, <1>3, <1>4 DEF JobInv

\* A buffer is written on a stream to another node.
LEMMA WriteJob ==
  ASSUME JobInv, NEW s \in Streams, NEW n \in Nat, status[s[1]] = "process",
         Come(<<DcBuf(s[1], s[2], n)>>), UNCHANGED jobVars
  PROVE  JobInv'
<1>1. PICK p : p = DcBuf(s[1], s[2], n)
  OBVIOUS
<1>2. \A x \in Packet : Way(x)' <=> (Way(x) \/ x = p)
  <2>1. \A x : (x = p <=> \E j \in 1 .. Len(<<p>>) : x = <<p>>[j])
    OBVIOUS
  <2>2. QED
    BY <1>1, <2>1 DEF Come
<1>3. /\ p.type = "DCBUF" /\ p.writer = s[1] /\ p.reader = s[2]
      /\ \A w, g : RemovePutter(w, g) # p
  BY <1>1, PacketFacts
<1>4. FilterInv'
  BY DEF JobInv, FilterInv, jobVars
<1>5. CloseInv'
  BY <1>2, <1>3, JobPackets DEF JobInv, CloseInv, jobVars
<1>6. EndInv'
  <2>1. SUFFICES ASSUME NEW u \in Streams, u[1] \notin putters'[u[2]],
                        NEW x \in Packet, OfStream(x, u)
                 PROVE  ~Way(x)'
    BY DEF EndInv, OfStream
  <2>2. u[1] \notin putters[u[2]] /\ u[2] \in closed[u[1]]
    BY <2>1 DEF JobInv, FilterInv, jobVars
  <2>3. ~Way(x)
    BY <2>1, <2>2 DEF JobInv, EndInv
  <2>4. x # p
    <3>1. x.writer = u[1]
      BY <2>1, PacketFacts DEF OfStream
    <3>2. closed[s[1]] = {}
      BY JobFacts DEF JobInv, FilterInv
    <3>3. QED
      BY <3>1, <3>2, <2>2, <1>3
  <2>5. QED
    BY <1>2, <2>3, <2>4
<1>7. DoneInv'
  <2>1. \A m, l \in Nodes : Way(AllDone(m, l))' <=> Way(AllDone(m, l))
    BY <1>2, <1>3, JobPackets
  <2>2. QED
    BY <2>1, SameDone DEF JobInv, jobVars
<1>8. QED
  BY <1>4, <1>5, <1>6, <1>7 DEF JobInv

\* A filter returns, or is erased.
LEMMA StatusJob ==
  ASSUME Types, JobInv, Kept, NEW f \in Filters, FilterReturn(f) \/ FilterErase(f)
  PROVE  JobInv'
<1>1. UNCHANGED <<closed, putters, fromOpen, announced, doneReceived>>
  BY DEF FilterReturn, FilterErase, portVars, consoleVars
<1>2. FilterInv'
  <2>1. CASE FilterReturn(f)
    BY <1>1, <2>1 DEF FilterReturn, JobInv, FilterInv, Types, TypeOK
  <2>2. CASE FilterErase(f)
    BY <1>1, <2>2 DEF FilterErase, JobInv, FilterInv, Types, TypeOK
  <2>3. QED
    BY <2>1, <2>2
<1>3. CloseInv'
  BY <1>1, JobPackets DEF JobInv, CloseInv, Kept
<1>4. EndInv'
  BY <1>1 DEF JobInv, EndInv, Kept
<1>5. DoneInv'
  BY <1>1, SameDone, JobPackets DEF JobInv, Kept
<1>6. QED
  BY <1>2, <1>3, <1>4, <1>5 DEF JobInv

\* A filter closes a stream: on its own node, or by a packet.
LEMMA CloseJob ==
  ASSUME Types, JobInv, NEW s \in Streams, FilterClose(s[1], s[2]),
         \/ HostOf[s[1]] = HostOf[s[2]] /\ Kept
         \/ HostOf[s[1]] # HostOf[s[2]] /\ Come(<<RemovePutter(s[1], s[2])>>)
  PROVE  JobInv'
<1>1. PICK w \in Filters, g \in Filters : w = s[1] /\ g = s[2] /\ s = <<w, g>>
  BY JobFacts
<1>2. /\ status[w] = "closing" /\ g \in Readers(w) \ closed[w]
      /\ closed' = [closed EXCEPT ![w] = @ \cup {g}]
      /\ UNCHANGED <<status, fromOpen, announced, doneReceived>>
      /\ putters' = putters \/ putters' = [putters EXCEPT ![g] = @ \ {w}]
      /\ HostOf[w] # HostOf[g] => putters' = putters
  BY <1>1, JobFacts DEF FilterClose
<1>3. PICK p : p = RemovePutter(w, g)
  OBVIOUS
<1>4. /\ \A x \in Packet : Way(x)' => (Way(x) \/ x = p)
      /\ \A x \in Packet : Way(x) => Way(x)'
      /\ HostOf[w] = HostOf[g] => Kept
  <2>1. \A x : (x = p <=> \E j \in 1 .. Len(<<p>>) : x = <<p>>[j])
    OBVIOUS
  <2>2. QED
    BY <1>1, <1>3, <2>1 DEF Come, Kept
<1>5. /\ \A f \in Filters : closed[f] \subseteq closed'[f] /\ (f # w => closed'[f] = closed[f])
      /\ g \in closed'[w] /\ g \notin closed[w]
      /\ \A f \in Filters : putters'[f] \subseteq putters[f]
      /\ \A u \in Streams : u[1] \notin putters'[u[2]] => u[1] \notin putters[u[2]] \/ u = s
  <2>1. \A u \in Streams : u = <<u[1], u[2]>> /\ u[1] \in Filters /\ u[2] \in Filters
    BY JobFacts
  <2>2. /\ \A f \in Filters : closed[f] \subseteq closed'[f] /\ (f # w => closed'[f] = closed[f])
        /\ g \in closed'[w] /\ g \notin closed[w]
    BY <1>2 DEF Types, TypeOK
  <2>3. \A f \in Filters : putters'[f] \subseteq putters[f] /\ (\A h : h \in putters[f] \ putters'[f] => f = g /\ h = w)
    BY <1>2 DEF Types, TypeOK
  <2>4. QED
    BY <1>1, <2>1, <2>2, <2>3
<1>6. FilterInv'
  <2>1. \A u \in Streams : u[1] \notin putters'[u[2]] => u[2] \in closed'[u[1]]
    BY <1>1, <1>5, JobFacts DEF JobInv, FilterInv
  <2>2. \A f \in Filters : status'[f] # "process" /\ f \notin EarlyExit => putters'[f] = {}
    BY <1>2, <1>5 DEF JobInv, FilterInv
  <2>3. \A f \in Filters : /\ status'[f] = "process" => closed'[f] = {}
                           /\ status'[f] = "erased" => closed'[f] = Readers(f)
    BY <1>2, <1>5 DEF JobInv, FilterInv
  <2>4. QED
    BY <2>1, <2>2, <2>3 DEF FilterInv
<1>7. CloseInv'
  <2>1. SUFFICES ASSUME NEW u \in Streams, Way(RemovePutter(u[1], u[2]))'
                 PROVE  u[2] \in closed'[u[1]]
    BY DEF CloseInv
  <2>2. RemovePutter(u[1], u[2]) \in Packet /\ u[1] \in Filters
    BY JobPackets, JobFacts
  <2>3. CASE RemovePutter(u[1], u[2]) = p
    <3>1. u[1] = w /\ u[2] = g
      BY <2>3, <1>3, PacketFacts
    <3>2. QED
      BY <3>1, <1>5
  <2>4. CASE Way(RemovePutter(u[1], u[2]))
    BY <2>2, <2>4, <1>5 DEF JobInv, CloseInv
  <2>5. QED
    BY <2>1, <2>2, <2>3, <2>4, <1>4
<1>8. EndInv'
  <2>1. SUFFICES ASSUME NEW u \in Streams, u[1] \notin putters'[u[2]],
                        NEW x \in Packet, OfStream(x, u), Way(x)'
                 PROVE  FALSE
    BY DEF EndInv, OfStream
  <2>2. HostOf[u[1]] # HostOf[u[2]] /\ x.writer = u[1] /\ x.reader = u[2]
    BY <2>1, PacketFacts DEF OfStream
  <2>3. CASE HostOf[w] = HostOf[g]
    <3>1. u # s /\ Way(x)
      BY <2>1, <2>2, <2>3, <1>1, <1>4 DEF Kept
    <3>2. QED
      BY <3>1, <2>1, <1>5 DEF JobInv, EndInv
  <2>4. CASE HostOf[w] # HostOf[g]
    <3>1. u[1] \notin putters[u[2]]
      BY <2>1, <2>4, <1>2
    <3>2. ~Way(x) /\ u[2] \in closed[u[1]]
      BY <2>1, <3>1 DEF JobInv, EndInv, FilterInv
    <3>3. x = p
      BY <2>1, <3>2, <1>4
    <3>4. u[1] = w /\ u[2] = g
      BY <2>2, <3>3, <1>3, PacketFacts
    <3>5. QED
      BY <3>2, <3>4, <1>5
  <2>5. QED
    BY <2>3, <2>4
<1>9. DoneInv'
  <2>1. \A m, l \in Nodes : AllDone(m, l) \in Packet /\ AllDone(m, l) # p
    BY <1>3, JobPackets, PacketFacts
  <2>2. \A m, l \in Nodes : Way(AllDone(m, l))' <=> Way(AllDone(m, l))
    BY <2>1, <1>4
  <2>3. QED
    BY <1>2, <2>2, SameDone DEF JobInv
<1>10. QED
  BY <1>6, <1>7, <1>8, <1>9 DEF JobInv

\* A done packet n -> x is new, or gone: what that does to the counts.
LEMMA ArrivedFacts ==
  \A n, m : m \in Arrived(n) <=> m \in Nodes /\ m # n /\ Sent(m, n) /\ ~Way(AllDone(m, n))
BY DEF Arrived

\* The console process announces to every rank.
LEMMA FinishJob ==
  ASSUME JobInv, ConsoleFinish, NEW ps, Come(ps),
         ps = IF ConsolePresent THEN [i \in 1 .. NumRanks |-> AllDone(Console, i - 1)] ELSE <<>>
  PROVE  JobInv'
<1>1. fromOpen /\ fromOpen' = FALSE /\ UNCHANGED <<status, closed, putters, announced, doneReceived>>
  BY DEF ConsoleFinish, filterVars, portVars
<1>2. \A x : (\E j \in 1 .. Len(ps) : x = ps[j]) <=> (ConsolePresent /\ \E r \in Ranks : x = AllDone(Console, r))
  <2>1. CASE ConsolePresent
    <3>1. PICK N \in Nat : N = NumRanks
      BY JobFacts
    <3>2. Len(ps) = N /\ \A i \in 1 .. N : ps[i] = AllDone(Console, i - 1)
      BY <2>1, <3>1
    <3>3. ASSUME NEW r \in Ranks
          PROVE  r + 1 \in 1 .. N /\ ps[r + 1] = AllDone(Console, r)
      <4>1. r + 1 \in 1 .. N /\ (r + 1) - 1 = r
        BY <3>1 DEF Ranks
      <4>2. QED
        BY <4>1, <3>2
    <3>4. \A i \in 1 .. N : i - 1 \in Ranks
      BY <3>1 DEF Ranks
    <3>5. QED
      BY <2>1, <3>2, <3>3, <3>4
  <2>2. CASE ~ConsolePresent
    <3>1. Len(ps) = 0
      BY <2>2
    <3>2. QED
      BY <2>2, <3>1
  <2>3. QED
    BY <2>1, <2>2
<1>3. \A x \in Packet : Way(x)' <=> (Way(x) \/ (ConsolePresent /\ \E r \in Ranks : x = AllDone(Console, r)))
  BY <1>2 DEF Come
<1>4. FilterInv'
  BY <1>1 DEF JobInv, FilterInv
<1>5. CloseInv'
  <2>1. \A s \in Streams : RemovePutter(s[1], s[2]) \in Packet /\ \A r : RemovePutter(s[1], s[2]) # AllDone(Console, r)
    BY JobPackets, PacketFacts
  <2>2. QED
    BY <1>1, <1>3, <2>1 DEF JobInv, CloseInv
<1>6. EndInv'
  BY <1>1, <1>3, JobPackets DEF JobInv, EndInv
<1>7. DoneInv'
  <2>1. ASSUME NEW m \in Nodes, NEW n \in Nodes
        PROVE  Way(AllDone(m, n))' <=> (Way(AllDone(m, n)) \/ (m = Console /\ n \in Ranks))
    <3>1. AllDone(m, n) \in Packet /\ \A r : (AllDone(m, n) = AllDone(Console, r) <=> (m = Console /\ r = n))
      BY JobPackets, PacketFacts
    <3>2. m = Console => ConsolePresent
      BY JobFacts
    <3>3. QED
      BY <1>3, <3>1, <3>2
  <2>2. \A m, n : Sent(m, n)' <=> (Sent(m, n) \/ m = Console)
    BY <1>1 DEF Sent
  <2>3. \A m, n \in Nodes : m # n /\ Way(AllDone(m, n))' => Sent(m, n)'
    BY <2>1, <2>2 DEF JobInv, DoneInv
  <2>4. ASSUME NEW n \in Ranks
        PROVE  Arrived(n)' = Arrived(n)
    <3>1. n \in Nodes
      BY JobFacts
    <3>2. ~Sent(Console, n)
      BY <1>1 DEF Sent
    <3>3. ASSUME NEW m
          PROVE  m \in Arrived(n)' <=> m \in Arrived(n)
      <4>1. m \in Arrived(n)' <=> m \in Nodes /\ m # n /\ Sent(m, n)' /\ ~Way(AllDone(m, n))'
        BY DEF Arrived
      <4>2. QED
        BY <4>1, <2>1, <2>2, <3>1, <3>2, ArrivedFacts
    <3>4. QED
      BY <3>3
  <2>5. QED
    BY <1>1, <2>3, <2>4 DEF JobInv, DoneInv
<1>8. QED
  BY <1>4, <1>5, <1>6, <1>7 DEF JobInv

\* Between nodes none of which is r, the next one announced comes next.
LEMMA SentNext ==
  ASSUME NEW r \in Ranks
  PROVE  /\ \A x \in Nodes \ {r} : ~(FirstAnnounced(r) > x) /\ ~(NotAnnounced > x)
         /\ \A n \in Nodes, x \in Nodes \ {r} : n # r => (NextAnnounced(r, n) > x <=> (n > x \/ x = n))
<1>1. \A x \in Nodes : x \in Int /\ x >= -1 /\ (~ConsolePresent => x >= 0)
  BY JobFacts DEF Nodes, Ranks, Console
<1>2. r \in Int /\ r >= 0
  BY JobFacts
<1>3. \A x \in Nodes \ {r} : ~(FirstAnnounced(r) > x) /\ ~(NotAnnounced > x)
  BY <1>1, <1>2 DEF FirstAnnounced, NextAnnounced, NotAnnounced, Console
<1>4. \A n \in Nodes, x \in Nodes \ {r} : n # r => (NextAnnounced(r, n) > x <=> (n > x \/ x = n))
  BY <1>1, <1>2 DEF NextAnnounced
<1>5. QED
  BY <1>3, <1>4

\* A rank begins to announce: to nobody so far.
LEMMA AnnounceJob ==
  ASSUME Types, JobInv, Kept, NEW r \in Ranks, Announce(r)
  PROVE  JobInv'
<1>1. /\ announced[r] = NotAnnounced /\ announced' = [announced EXCEPT ![r] = FirstAnnounced(r)]
      /\ UNCHANGED <<status, closed, putters, fromOpen, doneReceived>>
  BY DEF Announce, SentDone, filterVars, portVars, consoleVars
<1>2. FilterInv'
  BY <1>1 DEF JobInv, FilterInv
<1>3. CloseInv'
  BY <1>1, JobPackets DEF JobInv, CloseInv, Kept
<1>4. EndInv'
  BY <1>1 DEF JobInv, EndInv, Kept
<1>5. ASSUME NEW m \in Nodes, NEW n \in Nodes, m # n
      PROVE  Sent(m, n)' <=> Sent(m, n)
  <2>1. CASE m = Console
    BY <1>1, <2>1 DEF Sent
  <2>2. CASE m # Console /\ m # r
    BY <1>1, <2>2, JobFacts DEF Sent, Types, TypeOK
  <2>3. CASE m # Console /\ m = r
    <3>1. announced'[r] = FirstAnnounced(r)
      BY <1>1 DEF Types, TypeOK
    <3>2. QED
      BY <1>1, <1>5, <2>3, <3>1, SentNext DEF Sent
  <2>4. QED
    BY <2>1, <2>2, <2>3
<1>6. \A m, n \in Nodes : Way(AllDone(m, n))' <=> Way(AllDone(m, n))
  BY JobPackets DEF Kept
<1>7. DoneInv'
  <2>1. \A m, n \in Nodes : m # n /\ Way(AllDone(m, n))' => Sent(m, n)'
    BY <1>5, <1>6 DEF JobInv, DoneInv
  <2>2. ASSUME NEW n \in Ranks
        PROVE  Arrived(n)' = Arrived(n)
    <3>1. n \in Nodes
      BY JobFacts
    <3>2. QED
      BY <1>5, <1>6, <3>1 DEF Arrived
  <2>3. QED
    BY <1>1, <2>1, <2>2 DEF JobInv, DoneInv
<1>8. QED
  BY <1>2, <1>3, <1>4, <1>7 DEF JobInv

\* What keeps the other invariants when only done packets come or go.
LEMMA OnlyDone ==
  ASSUME JobInv, UNCHANGED <<status, closed, putters>>,
         \A x \in Packet : x.type # "ALL_MY_FILTERS_DONE" => (Way(x)' => Way(x))
  PROVE  FilterInv' /\ CloseInv' /\ EndInv'
<1>1. FilterInv'
  BY DEF JobInv, FilterInv
<1>2. \A s \in Streams : RemovePutter(s[1], s[2]).type # "ALL_MY_FILTERS_DONE"
  BY PacketFacts
<1>3. CloseInv'
  BY <1>2, JobPackets DEF JobInv, CloseInv
<1>4. EndInv'
  BY JobPackets DEF JobInv, EndInv
<1>5. QED
  BY <1>1, <1>3, <1>4

\* It announces to one more node.
LEMMA AnnounceNextJob ==
  ASSUME Types, JobInv, NEW r \in Ranks, AnnounceNext(r), NEW n, n = announced[r],
         Come(<<AllDone(r, n)>>) \/ (Kept /\ n = Console)
  PROVE  JobInv'
<1>1. /\ n \in Nodes /\ n # r /\ announced' = [announced EXCEPT ![r] = NextAnnounced(r, n)]
      /\ UNCHANGED <<status, closed, putters, fromOpen, doneReceived>>
  BY DEF AnnounceNext, Announcing, filterVars, portVars, consoleVars, Types, TypeOK
<1>2. r \in Nodes /\ r # Console
  BY JobFacts
<1>3. PICK p \in Packet : p = AllDone(r, n) /\ p.type = "ALL_MY_FILTERS_DONE"
  BY <1>1, <1>2, JobPackets
<1>4. \A x : (x = p <=> \E j \in 1 .. Len(<<p>>) : x = <<p>>[j])
  OBVIOUS
<1>5. \A x \in Packet : /\ Way(x)' => Way(x) \/ x = p
                        /\ Way(x) => Way(x)'
                        /\ n # Console => Way(p)'
  BY <1>3, <1>4 DEF Come, Kept
<1>6. FilterInv' /\ CloseInv' /\ EndInv'
  BY <1>1, <1>3, <1>5, OnlyDone
<1>7. ASSUME NEW m \in Nodes, NEW x \in Nodes, m # x
      PROVE  Sent(m, x)' <=> (Sent(m, x) \/ (m = r /\ x = n))
  <2>1. CASE m = Console
    BY <1>1, <1>2, <2>1 DEF Sent
  <2>2. CASE m # Console /\ m # r
    BY <1>1, <2>2, JobFacts DEF Sent, Types, TypeOK
  <2>3. CASE m # Console /\ m = r
    <3>1. announced'[r] = NextAnnounced(r, n)
      BY <1>1 DEF Types, TypeOK
    <3>2. QED
      BY <1>1, <1>7, <2>3, <3>1, SentNext DEF Sent
  <2>4. QED
    BY <2>1, <2>2, <2>3
<1>8. ASSUME NEW m \in Nodes, NEW x \in Nodes
      PROVE  AllDone(m, x) \in Packet /\ (AllDone(m, x) = p <=> (m = r /\ x = n))
  BY <1>3, JobPackets, PacketFacts
<1>9. \A m, x \in Nodes : m # x /\ Way(AllDone(m, x))' => Sent(m, x)'
  BY <1>5, <1>7, <1>8 DEF JobInv, DoneInv
<1>10. ~Sent(r, n)
  <2>1. n \in Int
    BY <1>1, JobFacts DEF Console
  <2>2. QED
    BY <1>2, <2>1 DEF Sent
<1>11. ASSUME NEW x \in Ranks
       PROVE  Arrived(x)' = Arrived(x)
  <2>1. x \in Nodes /\ x # Console
    BY JobFacts
  <2>2. ASSUME NEW m
        PROVE  m \in Arrived(x)' <=> m \in Arrived(x)
    <3>1. /\ m \in Arrived(x)' <=> m \in Nodes /\ m # x /\ Sent(m, x)' /\ ~Way(AllDone(m, x))'
          /\ m \in Arrived(x) <=> m \in Nodes /\ m # x /\ Sent(m, x) /\ ~Way(AllDone(m, x))
      BY DEF Arrived
    <3>2. CASE m \in Nodes /\ m # x
      <4>1. CASE m = r /\ x = n
        BY <2>1, <3>1, <4>1, <1>3, <1>5, <1>10
      <4>2. CASE ~(m = r /\ x = n)
        <5>1. Sent(m, x)' <=> Sent(m, x)
          BY <3>2, <4>2, <2>1, <1>7
        <5>2. Way(AllDone(m, x))' <=> Way(AllDone(m, x))
          BY <3>2, <4>2, <2>1, <1>5, <1>8
        <5>3. QED
          BY <3>1, <5>1, <5>2
      <4>3. QED
        BY <4>1, <4>2
    <3>3. QED
      BY <3>1, <3>2
  <2>3. QED
    BY <2>2
<1>12. DoneInv'
  BY <1>1, <1>9, <1>11 DEF JobInv, DoneInv
<1>13. QED
  BY <1>6, <1>12 DEF JobInv

\* A packet p arrives at rank r, or leaves for the console process.
LEMMA ArriveJob ==
  ASSUME Types, JobInv, NEW r \in Ranks, NEW p, Genuine(p), Gone(p),
         UNCHANGED <<status, closed, fromOpen, announced>>,
         \/ p.to = r /\ DeliverIn(r, p)
         \/ p.to = Console /\ p.type # "DCBUF" /\ UNCHANGED <<putters, doneReceived>>
  PROVE  JobInv'
<1>1. /\ p \in Packet /\ Way(p)
      /\ \A x \in Packet : Way(x)' => Way(x)
      /\ \A x \in Packet : x # p /\ Way(x) => Way(x)'
      /\ \A d \in Packet : Before(d, p) => ~Way(d)'
  BY DEF Gone
<1>2. \A m, n : Sent(m, n)' <=> Sent(m, n)
  BY DEF Sent
<1>3. \A m, n \in Nodes : m # n /\ Way(AllDone(m, n))' => Sent(m, n)'
  BY <1>1, <1>2, JobPackets DEF JobInv, DoneInv
<1>4. CASE p.type # "REMOVE_PUTTER"
  <2>1. UNCHANGED putters
    BY <1>4 DEF DeliverIn
  <2>2. FilterInv' /\ CloseInv' /\ EndInv'
    BY <1>1, <2>1, OnlyDone
  <2>3. CASE p.type = "DCBUF"
    <3>1. \A m, n \in Nodes : AllDone(m, n) \in Packet /\ AllDone(m, n) # p
      BY <2>3, JobPackets, PacketFacts
    <3>2. doneReceived' = doneReceived
      BY <2>3 DEF DeliverIn
    <3>3. DoneInv'
      BY <1>1, <3>1, <3>2, SameDone DEF JobInv
    <3>4. QED
      BY <2>2, <3>3 DEF JobInv
  <2>4. CASE p.type = "ALL_MY_FILTERS_DONE"
    <3>1. p = AllDone(p.from, p.to) /\ p.from \in Nodes /\ p.to \in Nodes /\ p.from # p.to
      BY <2>4, GenuineFacts
    <3>2. PICK m \in Nodes, n \in Nodes : m = p.from /\ n = p.to /\ m # n /\ p = AllDone(m, n)
      BY <3>1
    <3>3. ASSUME NEW a \in Nodes, NEW x \in Nodes
          PROVE  AllDone(a, x) \in Packet /\ (AllDone(a, x) = p <=> (a = m /\ x = n))
      BY <3>2, JobPackets, PacketFacts
    <3>4. ~Way(p)'
      BY <1>1, <2>4 DEF Before
    <3>5. Sent(m, n)
      BY <3>2, <1>1 DEF JobInv, DoneInv
    <3>6. ASSUME NEW x \in Ranks
          PROVE  Arrived(x)' = IF x = n THEN Arrived(x) \cup {m} ELSE Arrived(x)
      <4>1. x \in Nodes
        BY JobFacts
      <4>2. ASSUME NEW a
            PROVE  a \in Arrived(x)' <=> (a \in Arrived(x) \/ (x = n /\ a = m))
        <5>1. /\ a \in Arrived(x)' <=> a \in Nodes /\ a # x /\ Sent(a, x)' /\ ~Way(AllDone(a, x))'
              /\ a \in Arrived(x) <=> a \in Nodes /\ a # x /\ Sent(a, x) /\ ~Way(AllDone(a, x))
          BY DEF Arrived
        <5>2. CASE a = m /\ x = n
          BY <5>1, <5>2, <3>2, <3>4, <3>5, <1>2
        <5>3. CASE a \in Nodes /\ ~(a = m /\ x = n)
          <6>1. Way(AllDone(a, x))' <=> Way(AllDone(a, x))
            BY <5>3, <4>1, <3>3, <1>1
          <6>2. QED
            BY <5>1, <5>3, <6>1, <1>2
        <5>4. QED
          BY <5>1, <5>2, <5>3, <3>2
      <4>3. QED
        BY <4>2
    <3>7. ASSUME NEW x \in Ranks
          PROVE  doneReceived'[x] = Cardinality(Arrived(x)')
      <4>1. doneReceived[x] = Cardinality(Arrived(x)) /\ doneReceived \in [Ranks -> Nat]
        BY DEF JobInv, DoneInv, Types, TypeOK
      <4>2. CASE x # n
        <5>1. doneReceived'[x] = doneReceived[x]
          BY <4>1, <4>2, <2>4, <3>2 DEF DeliverIn
        <5>2. QED
          BY <5>1, <4>1, <4>2, <3>6
      <4>3. CASE x = n
        <5>1. x = r /\ DeliverIn(r, p)
          BY <4>3, <3>2, JobFacts
        <5>2. doneReceived'[x] = doneReceived[x] + 1
          BY <5>1, <2>4, <4>1 DEF DeliverIn
        <5>3. m \notin Arrived(x)
          BY <4>3, <3>2, <1>1 DEF Arrived
        <5>4. Cardinality(Arrived(x) \cup {m}) = Cardinality(Arrived(x)) + 1
          BY <5>3, NodesAreFinite, FS_AddElement
        <5>5. QED
          BY <5>2, <5>4, <4>1, <4>3, <3>6
      <4>4. QED
        BY <4>2, <4>3
    <3>8. QED
      BY <1>3, <2>2, <3>7 DEF JobInv, DoneInv
  <2>5. QED
    BY <1>1, <1>4, <2>3, <2>4, PacketFacts
<1>5. CASE p.type = "REMOVE_PUTTER"
  <2>1. /\ p = RemovePutter(p.writer, p.reader) /\ p.writer \in Filters /\ p.reader \in Filters
        /\ <<p.writer, p.reader>> \in Streams /\ OfStream(p, <<p.writer, p.reader>>) /\ p.to \in Ranks
    BY <1>5, GenuineFacts
  <2>2. PICK w \in Filters, g \in Filters : w = p.writer /\ g = p.reader
    BY <2>1
  <2>3. p.to # Console
    BY <2>1, JobFacts
  <2>4. doneReceived' = doneReceived /\ putters' = [putters EXCEPT ![g] = @ \ {w}]
    BY <1>5, <2>2, <2>3 DEF DeliverIn
  <2>5. /\ \A f \in Filters : putters'[f] \subseteq putters[f]
        /\ \A f, h \in Filters : h \notin putters'[f] => h \notin putters[f] \/ (h = w /\ f = g)
    BY <2>4 DEF Types, TypeOK
  <2>6. g \in closed[w]
    <3>1. <<w, g>> \in Streams /\ Way(RemovePutter(w, g))
      BY <1>1, <2>1, <2>2
    <3>2. QED
      BY <3>1 DEF JobInv, CloseInv
  <2>7. FilterInv'
    <3>1. \A s \in Streams : s[1] \notin putters'[s[2]] => s[2] \in closed'[s[1]]
      BY <2>5, <2>6, JobFacts DEF JobInv, FilterInv
    <3>2. QED
      BY <3>1, <2>5 DEF JobInv, FilterInv
  <2>8. CloseInv'
    BY <1>1, JobPackets DEF JobInv, CloseInv
  <2>9. EndInv'
    <3>1. SUFFICES ASSUME NEW u \in Streams, u[1] \notin putters'[u[2]],
                          NEW x \in Packet, OfStream(x, u), Way(x)'
                   PROVE  FALSE
      BY DEF EndInv, OfStream
    <3>2. HostOf[u[1]] # HostOf[u[2]] /\ u[1] \in Filters /\ u[2] \in Filters
      BY <3>1, JobFacts DEF OfStream
    <3>3. CASE u[1] \notin putters[u[2]]
      BY <3>1, <3>3, <1>1 DEF JobInv, EndInv
    <3>4. CASE u[1] = w /\ u[2] = g
      <4>1. /\ Genuine(x) /\ x.writer = w /\ x.reader = g
            /\ x = RemovePutter(w, g) \/ x = DcBuf(w, g, x.seq)
        BY <3>1, <3>2, <3>4, StreamPackets DEF OfStream
      <4>2. Before(x, p)
        BY <4>1, <1>5, <2>1, <2>2, PacketFacts DEF Before
      <4>3. QED
        BY <4>2, <3>1, <1>1
    <3>5. QED
      BY <3>1, <3>2, <3>3, <3>4, <2>5
  <2>10. DoneInv'
    <3>1. \A m, n \in Nodes : AllDone(m, n) \in Packet /\ AllDone(m, n) # p
      BY <1>5, JobPackets, PacketFacts
    <3>2. QED
      BY <1>1, <2>4, <3>1, SameDone DEF JobInv
  <2>11. QED
    BY <2>7, <2>8, <2>9, <2>10 DEF JobInv
<1>6. QED
  BY <1>4, <1>5

-----------------------------------------------------------------------------
(* Every action is one of the moves                                        *)

PacketInv == Types /\ PlaceInv /\ Ordered /\ JobInv

\* The parts of PacketInv, as the moves give them.
LEMMA PacketInvFrom ==
  ASSUME Types', Placed, ReadingInv', JobInv'
  PROVE  PacketInv'
BY DEF PacketInv, Placed, PlaceInv

\* A step that neither begins nor ends the read of a body.
LEMMA SameReading ==
  ASSUME ReadingInv, UNCHANGED <<reading, heads>>,
         \A r \in Ranks : reading[r] # r => sending'["main"][r] \in {sending["main"][r], NoPacket}
  PROVE  ReadingInv'
BY DEF ReadingInv

\* A filter that begins to wait for memory.
LEMMA BlockMove ==
  ASSUME PacketInv, NEW s \in Streams, FilterBlock(s[1], s[2])
  PROVE  PacketInv'
<1>1. Stays /\ UNCHANGED reading /\ UNCHANGED jobVars
  BY DEF FilterBlock, Stays, jobVars, wireVars, consoleVars, portVars
<1>2. Types' /\ Placed /\ Kept
  BY <1>1, BlockTypes, StaysMove DEF PacketInv
<1>3. ReadingInv'
  BY <1>1, SameReading DEF PacketInv, PlaceInv, Stays
<1>4. QED
  BY <1>1, <1>2, <1>3, QuietJob, PacketInvFrom DEF PacketInv

LEMMA FilterWriteMove ==
  ASSUME PacketInv, NEW s \in Streams, FilterWrite(s[1], s[2])
  PROVE  PacketInv'
<1>1. PICK w \in Filters, g \in Filters : w = s[1] /\ g = s[2] /\ s = <<w, g>>
  BY JobFacts
<1>2. Types' /\ HostOf[w] \in Nodes /\ HostOf[g] \in Ranks
  BY <1>1, FilterTypes, JobFacts DEF PacketInv
<1>3. PICK n \in Nat : n = wrote[<<w, g>>] + 1
  BY <1>1, JobAssumption DEF PacketInv, Types, TypeOK
<1>4. /\ status[w] = "process" /\ UNCHANGED jobVars
      /\ UNCHANGED <<sending, stage, wire, heads, reading>>
  BY <1>1 DEF FilterWrite, jobVars, wireVars
<1>5. ReadingInv'
  BY <1>4, SameReading DEF PacketInv, PlaceInv
<1>6. CASE HostOf[w] = HostOf[g]
  <2>1. Stays
    BY <1>1, <1>2, <1>4, <1>6, JobFacts DEF FilterWrite, Stays
  <2>2. Placed /\ Kept
    BY <2>1, StaysMove DEF PacketInv
  <2>3. QED
    BY <2>2, <1>2, <1>4, <1>5, QuietJob, PacketInvFrom DEF PacketInv
<1>7. CASE HostOf[w] # HostOf[g]
  <2>1. PICK p : p = DcBuf(w, g, n)
    OBVIOUS
  <2>2. PICK m \in Ranks \cup {Console} : m = HostOf[w]
    BY <1>2, JobFacts
  <2>3. PICK ps : ps = <<p>>
    OBVIOUS
  <2>4. Genuine(p) /\ p \in Packet /\ p.from = m /\ p.type = "DCBUF" /\ p.writer = w /\ p.reader = g
    <3>1. p \in Packet /\ p.from = m /\ p.type = "DCBUF" /\ p.writer = w /\ p.reader = g
      BY <2>1, <2>2, PacketFacts
    <3>2. HostOf[s[1]] # HostOf[s[2]] /\ p = DcBuf(s[1], s[2], n)
      BY <1>1, <1>7, <2>1
    <3>3. Genuine(p)
      BY <3>2, StreamPackets
    <3>4. QED
      BY <3>1, <3>3
  <2>5. ps \in Seq(Packet) /\ Len(ps) = 1 /\ ps[1] = p /\ \A k \in 1 .. Len(ps) : k = 1
    BY <2>3, <2>4
  <2>6. Adds(m, ps)
    <3>1. CASE m = Console
      <4>1. fromConsole' = Append(fromConsole, p) /\ outq' = outq
        BY <1>1, <1>2, <1>3, <2>1, <2>2, <3>1, JobFacts DEF FilterWrite
      <4>2. fromConsole' = fromConsole \o ps
        <5>1. fromConsole \in Seq(Packet)
          BY DEF PacketInv, Types, TypeOK
        <5>2. QED
          BY <4>1, <5>1, <2>3, <2>4
      <4>3. QED
        BY <4>1, <4>2, <3>1, <1>4, JobFacts DEF Adds, Source
    <3>2. CASE m # Console
      <4>1. m \in Ranks /\ outq' = [outq EXCEPT ![m] = Append(@, p)] /\ fromConsole' = fromConsole
        BY <1>1, <1>3, <1>7, <2>1, <2>2, <3>2 DEF FilterWrite
      <4>2. /\ outq'[m] = Append(outq[m], p) /\ outq[m] \in Seq(Packet)
            /\ \A l \in Ranks \ {m} : outq'[l] = outq[l]
        BY <4>1 DEF PacketInv, Types, TypeOK
      <4>3. outq'[m] = outq[m] \o ps
        BY <4>2, <2>3, <2>4
      <4>4. QED
        BY <4>1, <4>2, <4>3, <3>2, <1>4 DEF Adds, Source
    <3>3. QED
      BY <3>1, <3>2
  <2>7. ASSUME NEW e \in Packet, Before(p, e)
        PROVE  ~Way(e)
    <3>1. e.type = "REMOVE_PUTTER" /\ e.writer = w /\ e.reader = g /\ Genuine(e)
      BY <2>4, <2>7 DEF Before
    <3>2. e = RemovePutter(w, g)
      BY <3>1, GenuineFacts
    <3>3. closed[w] = {}
      BY <1>4 DEF PacketInv, JobInv, FilterInv
    <3>4. QED
      BY <1>1, <3>2, <3>3 DEF PacketInv, JobInv, CloseInv
  <2>8. /\ \A k \in 1 .. Len(ps) : /\ Genuine(ps[k]) /\ ps[k].from = m
                                   /\ m # Console => ps[k].type # "ALL_MY_FILTERS_DONE"
        /\ \A j \in 1 .. Len(ps) : \A e \in Packet : Before(ps[j], e) =>
             ~Way(e) /\ \A k \in 1 .. Len(ps) : ps[k] = e => j <= k
    BY <2>4, <2>5, <2>7
  <2>9. Placed /\ Come(ps)
    BY <2>5, <2>6, <2>8, AddsMove DEF PacketInv
  <2>10. JobInv'
    BY <1>1, <1>4, <2>1, <2>3, <2>9, WriteJob DEF PacketInv
  <2>11. QED
    BY <2>9, <2>10, <1>2, <1>5, PacketInvFrom
<1>8. QED
  BY <1>6, <1>7

LEMMA FilterCloseMove ==
  ASSUME PacketInv, NEW s \in Streams, FilterClose(s[1], s[2])
  PROVE  PacketInv'
<1>1. PICK w \in Filters, g \in Filters : w = s[1] /\ g = s[2] /\ s = <<w, g>>
  BY JobFacts
<1>2. Types' /\ HostOf[w] \in Nodes /\ HostOf[g] \in Ranks
  BY <1>1, FilterTypes, JobFacts DEF PacketInv
<1>3. UNCHANGED <<sending, stage, wire, heads, reading>> /\ g \notin closed[w]
  BY <1>1 DEF FilterClose, wireVars
<1>4. ReadingInv'
  BY <1>3, SameReading DEF PacketInv, PlaceInv
<1>5. CASE HostOf[w] = HostOf[g]
  <2>1. Stays
    BY <1>1, <1>2, <1>3, <1>5, JobFacts DEF FilterClose, Stays
  <2>2. Placed /\ Kept
    BY <2>1, StaysMove DEF PacketInv
  <2>3. JobInv'
    BY <1>1, <1>5, <2>2, CloseJob DEF PacketInv
  <2>4. QED
    BY <2>2, <2>3, <1>2, <1>4, PacketInvFrom
<1>6. CASE HostOf[w] # HostOf[g]
  <2>1. PICK p : p = RemovePutter(w, g)
    OBVIOUS
  <2>2. PICK m \in Ranks \cup {Console} : m = HostOf[w]
    BY <1>2, JobFacts
  <2>3. PICK ps : ps = <<p>>
    OBVIOUS
  <2>4. Genuine(p) /\ p \in Packet /\ p.from = m /\ p.type = "REMOVE_PUTTER"
    BY <1>1, <1>6, <2>1, <2>2, StreamPackets, PacketFacts
  <2>5. ps \in Seq(Packet) /\ Len(ps) = 1 /\ ps[1] = p /\ \A k \in 1 .. Len(ps) : k = 1
    BY <2>3, <2>4
  <2>6. Adds(m, ps)
    <3>1. CASE m = Console
      <4>1. fromConsole' = Append(fromConsole, p) /\ outq' = outq
        BY <1>1, <1>2, <2>1, <2>2, <3>1, JobFacts DEF FilterClose
      <4>2. fromConsole' = fromConsole \o ps
        BY <4>1, <2>3, <2>4 DEF PacketInv, Types, TypeOK
      <4>3. QED
        BY <4>1, <4>2, <3>1, <1>3, JobFacts DEF Adds, Source
    <3>2. CASE m # Console
      <4>1. m \in Ranks /\ outq' = [outq EXCEPT ![m] = Append(@, p)] /\ fromConsole' = fromConsole
        BY <1>1, <1>6, <2>1, <2>2, <3>2 DEF FilterClose
      <4>2. /\ outq'[m] = Append(outq[m], p) /\ outq[m] \in Seq(Packet)
            /\ \A l \in Ranks \ {m} : outq'[l] = outq[l]
        BY <4>1 DEF PacketInv, Types, TypeOK
      <4>3. outq'[m] = outq[m] \o ps
        BY <4>2, <2>3, <2>4
      <4>4. QED
        BY <4>1, <4>2, <4>3, <3>2, <1>3 DEF Adds, Source
    <3>3. QED
      BY <3>1, <3>2
  <2>7. ASSUME NEW e \in Packet, Before(p, e)
        PROVE  ~Way(e)
    <3>1. e = p
      BY <2>4, <2>7 DEF Before
    <3>2. QED
      BY <1>1, <1>3, <2>1, <3>1 DEF PacketInv, JobInv, CloseInv
  <2>8. /\ \A k \in 1 .. Len(ps) : /\ Genuine(ps[k]) /\ ps[k].from = m
                                   /\ m # Console => ps[k].type # "ALL_MY_FILTERS_DONE"
        /\ \A j \in 1 .. Len(ps) : \A e \in Packet : Before(ps[j], e) =>
             ~Way(e) /\ \A k \in 1 .. Len(ps) : ps[k] = e => j <= k
    BY <2>4, <2>5, <2>7
  <2>9. Placed /\ Come(ps)
    BY <2>5, <2>6, <2>8, AddsMove DEF PacketInv
  <2>10. JobInv'
    BY <1>1, <1>6, <2>1, <2>3, <2>9, CloseJob DEF PacketInv
  <2>11. QED
    BY <2>9, <2>10, <1>2, <1>4, PacketInvFrom
<1>7. QED
  BY <1>5, <1>6

LEMMA OtherFilterMove ==
  ASSUME PacketInv, NEW f \in Filters, FilterRead(f) \/ FilterReturn(f) \/ FilterErase(f)
  PROVE  PacketInv'
<1>1. Stays /\ UNCHANGED reading
  BY DEF FilterRead, FilterReturn, FilterErase, Stays, wireVars, consoleVars
<1>2. Types' /\ Placed /\ Kept
  BY <1>1, OtherFilterTypes, StaysMove DEF PacketInv
<1>3. ReadingInv'
  BY <1>1, SameReading DEF PacketInv, PlaceInv, Stays
<1>4. JobInv'
  <2>1. CASE FilterRead(f)
    BY <2>1, <1>2, QuietJob DEF PacketInv, FilterRead, jobVars, filterVars, consoleVars
  <2>2. CASE FilterReturn(f) \/ FilterErase(f)
    BY <2>2, <1>2, StatusJob DEF PacketInv
  <2>3. QED
    BY <2>1, <2>2
<1>5. QED
  BY <1>2, <1>3, <1>4, PacketInvFrom

LEMMA ConsoleFinishMove ==
  ASSUME PacketInv, ConsoleFinish
  PROVE  PacketInv'
<1>1. PICK ps : /\ ps = IF ConsolePresent THEN [i \in 1 .. NumRanks |-> AllDone(Console, i - 1)] ELSE <<>>
                /\ fromConsole' = fromConsole \o ps
  BY DEF ConsoleFinish
<1>2. PICK N \in Nat : N = NumRanks
  BY JobFacts
<1>3. PICK L \in Nat : L = IF ConsolePresent THEN N ELSE 0
  BY <1>2
<1>4. /\ Len(ps) = L
      /\ \A k \in 1 .. L : /\ ps[k] = AllDone(Console, k - 1) /\ k - 1 \in Ranks /\ Console \in Nodes
  <2>1. CASE ConsolePresent
    BY <2>1, <1>1, <1>2, <1>3 DEF Ranks, Nodes
  <2>2. CASE ~ConsolePresent
    BY <2>2, <1>1, <1>3
  <2>3. QED
    BY <2>1, <2>2
<1>5. \A k \in 1 .. L : /\ Genuine(ps[k]) /\ ps[k] \in Packet /\ ps[k].from = Console /\ ps[k].to = k - 1
                        /\ ps[k].type = "ALL_MY_FILTERS_DONE" /\ ~Way(ps[k])
  <2>1. SUFFICES ASSUME NEW k \in 1 .. L
                 PROVE  /\ Genuine(ps[k]) /\ ps[k] \in Packet /\ ps[k].from = Console /\ ps[k].to = k - 1
                        /\ ps[k].type = "ALL_MY_FILTERS_DONE" /\ ~Way(ps[k])
    OBVIOUS
  <2>2. PICK r \in Ranks : r = k - 1 /\ ps[k] = AllDone(Console, r) /\ Console \in Nodes
    BY <1>4
  <2>3. r \in Nodes /\ r # Console
    BY JobFacts
  <2>4. ~Sent(Console, r)
    BY DEF ConsoleFinish, Sent
  <2>5. ~Way(AllDone(Console, r))
    BY <2>2, <2>3, <2>4 DEF PacketInv, JobInv, DoneInv
  <2>6. Genuine(ps[k])
    BY <2>2, <2>3 DEF Genuine
  <2>7. QED
    BY <2>2, <2>3, <2>5, <2>6, PacketFacts
<1>6. ps \in Seq(Packet)
  <2>1. PICK S : S = Packet
    OBVIOUS
  <2>2. ps = [k \in 1 .. L |-> ps[k]]
    <3>1. CASE ConsolePresent
      BY <3>1, <1>1, <1>2, <1>3
    <3>2. CASE ~ConsolePresent
      BY <3>2, <1>1, <1>3
    <3>3. QED
      BY <3>1, <3>2
  <2>3. ps \in [1 .. L -> S]
    BY <2>1, <2>2, <1>5
  <2>4. ps \in Seq(S)
    BY <2>3
  <2>5. QED
    BY <2>1, <2>4
<1>7. UNCHANGED <<outq, sending, stage, wire, heads, reading>> /\ Types'
  BY ConsoleFinishTypes DEF ConsoleFinish, wireVars, PacketInv
<1>8. Adds(Console, ps)
  BY <1>1, <1>7, JobFacts DEF Adds, Source
<1>9. ASSUME NEW j \in 1 .. Len(ps), NEW e \in Packet, Before(ps[j], e)
      PROVE  ~Way(e) /\ \A k \in 1 .. Len(ps) : ps[k] = e => j <= k
  <2>1. j \in 1 .. L /\ e = ps[j]
    BY <1>4, <1>5, <1>9 DEF Before
  <2>2. ASSUME NEW k \in 1 .. L, ps[k] = e
        PROVE  j <= k
    <3>1. j - 1 = k - 1
      BY <2>1, <2>2, <1>5
    <3>2. QED
      BY <3>1, <2>1
  <2>3. QED
    BY <2>1, <2>2, <1>4, <1>5
<1>10. Placed /\ Come(ps)
  BY <1>4, <1>5, <1>6, <1>8, <1>9, AddsMove DEF PacketInv
<1>11. JobInv'
  BY <1>1, <1>10, FinishJob DEF PacketInv
<1>12. ReadingInv'
  BY <1>7, SameReading DEF PacketInv, PlaceInv
<1>13. QED
  BY <1>7, <1>10, <1>11, <1>12, PacketInvFrom

LEMMA WriteMove ==
  ASSUME PacketInv, NEW t \in SenderThreads, NEW r \in Ranks, WriteHeader(t, r) \/ WriteBody(t, r)
  PROVE  PacketInv'
<1>1. PICK p : p = sending[t][r]
  OBVIOUS
<1>2. Types' /\ p \in Packet /\ HeaderOf(p) \in Item /\ BodyOf(p) \in Item /\ p # NoPacket
  BY <1>1, WriteTypes, PacketFacts DEF PacketInv
<1>3. PICK item \in Item : /\ item.packet = p /\ (item.part = "body" => p.type = "DCBUF")
                           /\ wire' = [wire EXCEPT ![r][OutRank(p)] = Append(@, item)]
  <2>1. CASE WriteHeader(t, r)
    BY <2>1, <1>1, <1>2 DEF WriteHeader, HeaderOf
  <2>2. CASE WriteBody(t, r)
    <3>1. p.type = "DCBUF"
      BY <2>2, <1>1 DEF WriteBody, PacketInv, PlaceInv, HandInv
    <3>2. QED
      BY <2>2, <3>1, <1>1, <1>2 DEF WriteBody, BodyOf
  <2>3. QED
    BY <2>1, <2>2
<1>4. /\ \/ p.type = "DCBUF" /\ stage' = [stage EXCEPT ![t][r] = "body"] /\ sending' = sending
         \/ sending' = [sending EXCEPT ![t][r] = NoPacket] /\ stage' = stage
      /\ UNCHANGED <<outq, fromConsole, heads, reading>> /\ UNCHANGED jobVars
  BY <1>1 DEF WriteHeader, WriteBody, jobVars, filterVars, portVars, consoleVars
<1>5. Placed /\ Kept
  BY <1>1, <1>2, <1>3, <1>4, WritesMove DEF PacketInv
<1>6. \A i \in Ranks : sending'["main"][i] \in {sending["main"][i], NoPacket}
  <2>1. sending' = sending \/ sending' = [sending EXCEPT ![t][r] = NoPacket]
    BY <1>4
  <2>2. sending \in [SenderThreads -> [Ranks -> NodePacket]] /\ "main" \in SenderThreads
    BY DEF PacketInv, Types, TypeOK, SenderThreads
  <2>3. CASE sending' = sending
    BY <2>3
  <2>4. CASE sending' = [sending EXCEPT ![t][r] = NoPacket]
    BY <2>2, <2>4
  <2>5. QED
    BY <2>1, <2>3, <2>4
<1>7. ReadingInv'
  BY <1>4, <1>6, SameReading DEF PacketInv, PlaceInv
<1>8. QED
  BY <1>2, <1>4, <1>5, <1>7, QuietJob, PacketInvFrom DEF PacketInv

LEMMA TakeOutMove ==
  ASSUME PacketInv, NEW r \in Ranks, TakeOut(r)
  PROVE  PacketInv'
<1>1. /\ outq[r] # <<>> /\ outq' = [outq EXCEPT ![r] = Tail(@)] /\ sending["outq"][r] = NoPacket
      /\ StartDelivery("outq", r, Head(outq[r]))
      /\ UNCHANGED <<fromConsole, wire, heads, reading>> /\ UNCHANGED jobVars
  BY DEF TakeOut, jobVars, filterVars, portVars, consoleVars
<1>2. PICK p : p = Head(outq[r])
  OBVIOUS
<1>3. r \in Ranks \cup {Console} /\ r # Console /\ Source(r) = outq[r]
  BY JobFacts DEF Source
<1>4. Pops(r, p)
  BY <1>1, <1>2, <1>3 DEF Pops, Source, PacketInv, Types, TypeOK
<1>5. Genuine(p) /\ p.from = r /\ p.type # "ALL_MY_FILTERS_DONE"
  BY <1>3, <1>4, PopsMove DEF PacketInv
<1>6. p.to \in Ranks /\ p.to # r
  BY <1>5, GenuineFacts
<1>7. Thread(p) = "outq" /\ InRank(p) = r /\ OutRank(p) # r /\ "outq" \in SenderThreads
  BY <1>3, <1>5, <1>6, JobFacts DEF Thread, InRank, OutRank, SenderThreads
<1>8. /\ sending' = [sending EXCEPT !["outq"][r] = p]
      /\ stage' = [stage EXCEPT !["outq"][r] = "header"]
  BY <1>1, <1>2, <1>6, JobFacts DEF StartDelivery
<1>9. Placed /\ Kept
  BY <1>1, <1>3, <1>4, <1>7, <1>8, TakesMove DEF PacketInv
<1>10. \A i \in Ranks : sending'["main"][i] = sending["main"][i]
  BY <1>8 DEF PacketInv, Types, TypeOK, SenderThreads
<1>11. ReadingInv'
  BY <1>1, <1>10, SameReading DEF PacketInv, PlaceInv
<1>12. Types'
  BY TakeOutTypes DEF PacketInv
<1>13. QED
  BY <1>1, <1>9, <1>11, <1>12, QuietJob, PacketInvFrom DEF PacketInv

LEMMA AnnounceMove ==
  ASSUME PacketInv, NEW r \in Ranks, Announce(r) \/ Exit(r)
  PROVE  PacketInv'
<1>1. Stays /\ UNCHANGED reading
  BY DEF Announce, Exit, Stays, wireVars, consoleVars
<1>2. Types' /\ Placed /\ Kept
  BY <1>1, RankTypes, StaysMove DEF PacketInv
<1>3. ReadingInv'
  BY <1>1, SameReading DEF PacketInv, PlaceInv, Stays
<1>4. JobInv'
  <2>1. CASE Announce(r)
    BY <2>1, <1>2, AnnounceJob DEF PacketInv
  <2>2. CASE Exit(r)
    BY <2>2, <1>2, QuietJob DEF PacketInv, Exit, jobVars, filterVars, consoleVars, portVars
  <2>3. QED
    BY <2>1, <2>2
<1>5. QED
  BY <1>2, <1>3, <1>4, PacketInvFrom

LEMMA AnnounceNextMove ==
  ASSUME PacketInv, NEW r \in Ranks, AnnounceNext(r)
  PROVE  PacketInv'
<1>1. PICK n : n = announced[r]
  OBVIOUS
<1>2. /\ n \in Nodes /\ n # r /\ sending["main"][r] = NoPacket /\ reading[r] = r
      /\ StartDelivery("main", r, AllDone(r, n))
      /\ UNCHANGED <<outq, fromConsole, wire, heads, reading>>
  BY <1>1 DEF AnnounceNext, Announcing, Free, consoleVars, PacketInv, Types, TypeOK
<1>3. Types'
  BY RankTypes DEF PacketInv
<1>4. r \in Nodes /\ r # Console /\ AllDone(r, n).to = n /\ n \in Ranks \cup {Console}
  BY <1>2, JobFacts, PacketFacts
<1>5. CASE n = Console /\ r = 0
  <2>1. UNCHANGED <<sending, stage>>
    BY <1>2, <1>4, <1>5 DEF StartDelivery
  <2>2. Stays
    BY <1>2, <2>1 DEF Stays
  <2>3. Placed /\ Kept
    BY <2>2, StaysMove DEF PacketInv
  <2>4. JobInv'
    BY <1>1, <1>5, <2>3, AnnounceNextJob DEF PacketInv
  <2>5. ReadingInv'
    BY <1>2, <2>1, SameReading DEF PacketInv, PlaceInv
  <2>6. QED
    BY <1>3, <2>3, <2>4, <2>5, PacketInvFrom
<1>6. CASE ~(n = Console /\ r = 0)
  <2>1. /\ sending' = [sending EXCEPT !["main"][r] = AllDone(r, n)]
        /\ stage' = [stage EXCEPT !["main"][r] = "header"]
    BY <1>2, <1>4, <1>6 DEF StartDelivery
  <2>2. OutRank(AllDone(r, n)) # r
    BY <1>2, <1>4, <1>6 DEF OutRank
  <2>3. ~Sent(r, n)
    <3>1. n \in Int
      BY <1>4, JobFacts DEF Console
    <3>2. QED
      BY <1>1, <1>4, <3>1 DEF Sent
  <2>4. ~Way(AllDone(r, n))
    BY <1>2, <1>4, <2>3 DEF PacketInv, JobInv, DoneInv
  <2>5. Placed /\ Come(<<AllDone(r, n)>>)
    BY <1>2, <2>1, <2>2, <2>4, OwnMove DEF PacketInv
  <2>6. JobInv'
    BY <1>1, <2>5, AnnounceNextJob DEF PacketInv
  <2>7. ASSUME NEW i \in Ranks, reading[i] # i
        PROVE  sending'["main"][i] = sending["main"][i]
    <3>1. i # r
      BY <1>2, <2>7
    <3>2. QED
      BY <2>1, <3>1 DEF PacketInv, Types, TypeOK, SenderThreads
  <2>8. ReadingInv'
    BY <1>2, <2>7, SameReading DEF PacketInv, PlaceInv
  <2>9. QED
    BY <1>3, <2>5, <2>6, <2>8, PacketInvFrom
<1>7. QED
  BY <1>5, <1>6

LEMMA MisreadMove ==
  ASSUME PacketInv, NEW r \in Ranks, Misread(r), UNCHANGED <<filterVars, outq, consoleVars, announced, exited>>
  PROVE  PacketInv'
<1>1. Stays /\ UNCHANGED reading /\ UNCHANGED jobVars
  BY DEF Misread, Stays, jobVars, wireVars, consoleVars, filterVars, portVars
<1>2. Types' /\ Placed /\ Kept
  BY <1>1, MisreadTypes, StaysMove DEF PacketInv
<1>3. ReadingInv'
  BY <1>1, SameReading DEF PacketInv, PlaceInv, Stays
<1>4. QED
  BY <1>1, <1>2, <1>3, QuietJob, PacketInvFrom DEF PacketInv

LEMMA ReadBodyMove ==
  ASSUME PacketInv, NEW r \in Ranks, ReadBody(r)
  PROVE  PacketInv'
<1>1. PICK i \in Ranks : i = reading[r]
  BY DEF PacketInv, Types, TypeOK
<1>2. PICK p : p = heads[r][i]
  OBVIOUS
<1>3. /\ i # r /\ wire[i][r] # <<>>
      /\ UNCHANGED <<filterVars, outq, consoleVars, announced, exited>>
      /\ \/ Misread(r)
         \/ /\ Head(wire[i][r]) = BodyOf(p) /\ DeliverIn(r, p) /\ TakeItem(i, r)
            /\ heads' = [heads EXCEPT ![r][i] = NoPacket]
            /\ reading' = [reading EXCEPT ![r] = r]
            /\ UNCHANGED <<routed, sending, stage, rtUsage, unknown>>
  BY <1>1, <1>2, ReadBodyDelivers DEF ReadBody, PacketInv
<1>4. CASE Misread(r)
  BY <1>3, <1>4, MisreadMove
<1>5. CASE /\ Head(wire[i][r]) = BodyOf(p) /\ DeliverIn(r, p) /\ TakeItem(i, r)
           /\ heads' = [heads EXCEPT ![r][i] = NoPacket]
           /\ reading' = [reading EXCEPT ![r] = r]
           /\ UNCHANGED <<routed, sending, stage, rtUsage, unknown>>
  <2>1. p = Head(wire[i][r]).packet
    BY <1>5 DEF BodyOf
  <2>2. Shifts(i, r, p)
    BY <1>3, <1>5, <2>1 DEF Shifts, TakeItem, consoleVars
  <2>3. Placed /\ Gone(p)
    BY <1>2, <1>5, <2>2, BodyMove DEF PacketInv
  <2>4. Genuine(p) /\ p.type = "DCBUF" /\ OutRank(p) = r
    BY <1>1, <1>2, <1>3 DEF PacketInv, PlaceInv, ReadingInv, HeadsInv
  <2>5. p.to = r
    BY <2>4, GenuineFacts, JobFacts DEF OutRank
  <2>6. UNCHANGED <<status, closed, fromOpen, announced>>
    BY <1>3 DEF filterVars, consoleVars
  <2>7. JobInv'
    BY <1>5, <2>3, <2>4, <2>5, <2>6, ArriveJob DEF PacketInv
  <2>8. ReadingInv'
    <3>1. /\ reading'[r] = r /\ \A n \in Ranks \ {r} : reading'[n] = reading[n]
          /\ \A n \in Ranks \ {r}, j \in Ranks : heads'[n][j] = heads[n][j]
          /\ \A n \in Ranks : reading[n] \in Ranks
      BY <1>5 DEF PacketInv, Types, TypeOK
    <3>2. QED
      BY <1>5, <3>1 DEF PacketInv, PlaceInv, ReadingInv
  <2>9. Types'
    BY ReadBodyTypes DEF PacketInv
  <2>10. QED
    BY <2>3, <2>7, <2>8, <2>9, PacketInvFrom
<1>6. QED
  BY <1>3, <1>4, <1>5

LEMMA ReadHeaderMove ==
  ASSUME PacketInv, NEW i \in Ranks, NEW r \in Ranks, ReadHeader(i, r)
  PROVE  PacketInv'
<1>1. PICK p : p = Head(wire[i][r]).packet
  OBVIOUS
<1>2. /\ wire[i][r] # <<>> /\ heads[r][i] = NoPacket /\ InLoop(r)
      /\ UNCHANGED <<filterVars, outq, consoleVars, announced, exited>>
  BY DEF ReadHeader
<1>3. Types'
  BY ReadHeaderTypes DEF PacketInv
<1>4. sending["main"][r] = NoPacket /\ reading[r] = r
  BY <1>2 DEF InLoop, Free
<1>5. CASE Misread(r)
  BY <1>2, <1>5, MisreadMove
<1>6. CASE /\ p.type = "DCBUF" /\ heads' = [heads EXCEPT ![r][i] = p] /\ BeginBody(i, r) /\ TakeItem(i, r)
           /\ UNCHANGED <<portVars, doneReceived, routed, sending, stage, unknown>>
  <2>1. Shifts(i, r, p)
    BY <1>1, <1>2, <1>6 DEF Shifts, TakeItem, consoleVars
  <2>2. Placed /\ Kept
    BY <1>2, <1>6, <2>1, HeaderMove DEF PacketInv
  <2>3. UNCHANGED jobVars
    BY <1>2, <1>6 DEF jobVars, filterVars, portVars, consoleVars
  <2>4. ReadingInv'
    <3>1. /\ reading'[r] \in {r, i} /\ \A n \in Ranks \ {r} : reading'[n] = reading[n]
          /\ heads'[r][i] = p /\ \A n \in Ranks \ {r}, j \in Ranks : heads'[n][j] = heads[n][j]
          /\ \A n \in Ranks : reading[n] \in Ranks
      BY <1>4, <1>6 DEF BeginBody, PacketInv, Types, TypeOK
    <3>2. p # NoPacket
      BY <2>1, ShiftsMove, GenuineFacts DEF PacketInv
    <3>3. QED
      BY <1>4, <1>6, <3>1, <3>2 DEF PacketInv, PlaceInv, ReadingInv
  <2>5. QED
    BY <1>3, <2>2, <2>3, <2>4, QuietJob, PacketInvFrom DEF PacketInv
<1>7. CASE /\ p.type # "DCBUF" /\ Deliver(r, p) /\ TakeItem(i, r)
           /\ UNCHANGED <<heads, reading, rtUsage, unknown>>
  <2>1. wire' = [wire EXCEPT ![i][r] = Tail(@)]
    BY <1>7 DEF TakeItem
  <2>2. \/ p.to = r /\ DeliverIn(r, p) /\ UNCHANGED <<sending, stage>>
        \/ p.to # r /\ StartDelivery("main", r, p) /\ UNCHANGED <<putters, doneReceived>>
    BY <1>7 DEF Deliver, portVars
  <2>3. Genuine(p) /\ OutRank(p) = r
    <3>1. PICK q \in Seq(Item) : q = wire[i][r]
      BY PlaceTypes DEF PacketInv
    <3>2. 1 \in 1 .. Len(q) /\ p = q[1].packet
      BY <1>1, <1>2, <3>1
    <3>3. QED
      BY <3>1, <3>2 DEF PacketInv, PlaceInv, LineInv, OfLine
  <2>4. p.to # r => p.to = Console /\ r = 0
    BY <2>3 DEF OutRank
  <2>5. UNCHANGED <<sending, stage>>
    BY <2>2, <2>4 DEF StartDelivery
  <2>6. Shifts(i, r, p)
    BY <1>1, <1>2, <2>1, <2>5 DEF Shifts, consoleVars
  <2>7. Placed /\ Gone(p)
    BY <1>2, <1>7, <2>6, PacketMove DEF PacketInv
  <2>8. UNCHANGED <<status, closed, fromOpen, announced>>
    BY <1>2 DEF filterVars, consoleVars
  <2>9. JobInv'
    BY <1>7, <2>2, <2>3, <2>4, <2>7, <2>8, ArriveJob DEF PacketInv
  <2>10. ReadingInv'
    BY <1>7, <2>5, SameReading DEF PacketInv, PlaceInv
  <2>11. QED
    BY <1>3, <2>7, <2>9, <2>10, PacketInvFrom
<1>8. QED
  BY <1>1, <1>5, <1>6, <1>7 DEF ReadHeader

LEMMA ReadDeferredMove ==
  ASSUME PacketInv, NEW i \in Ranks, NEW r \in Ranks, ReadDeferred(i, r)
  PROVE  PacketInv'
<1>1. Stays /\ UNCHANGED jobVars
  BY DEF ReadDeferred, Stays, jobVars, wireVars, consoleVars, filterVars, portVars
<1>2. Types' /\ Placed /\ Kept
  BY <1>1, ReadHeaderTypes, StaysMove DEF PacketInv
<1>3. ReadingInv'
  <2>1. /\ reading' = [reading EXCEPT ![r] = i] /\ heads[r][i] # NoPacket /\ sending["main"][r] = NoPacket
        /\ UNCHANGED <<heads, sending>>
    BY DEF ReadDeferred, InLoop, Free, wireVars
  <2>2. reading'[r] = i /\ \A n \in Ranks \ {r} : reading'[n] = reading[n]
    BY <2>1 DEF PacketInv, Types, TypeOK
  <2>3. QED
    BY <2>1, <2>2 DEF PacketInv, PlaceInv, ReadingInv
<1>4. QED
  BY <1>1, <1>2, <1>3, QuietJob, PacketInvFrom DEF PacketInv

LEMMA HandleConsoleMove ==
  ASSUME PacketInv, HandleConsole
  PROVE  PacketInv'
<1>1. PICK r \in Ranks : r = 0
  BY JobFacts
<1>2. PICK p : p = Head(fromConsole)
  OBVIOUS
<1>3. /\ fromConsole # <<>> /\ fromConsole' = Tail(fromConsole) /\ Deliver(r, p)
      /\ sending["main"][r] = NoPacket /\ reading[r] = r
      /\ UNCHANGED <<filterVars, outq, wire, heads, reading, rtUsage, fromOpen, announced,
                     exited, unknown>>
  BY <1>1, <1>2 DEF HandleConsole, InLoop, Free
<1>4. Source(Console) = fromConsole /\ Console \in Ranks \cup {Console} /\ Console \notin Ranks
  BY JobFacts DEF Source
<1>5. Pops(Console, p)
  BY <1>2, <1>3, <1>4 DEF Pops, Source
<1>6. Genuine(p) /\ p.from = Console
  BY <1>4, <1>5, PopsMove DEF PacketInv
<1>7. p.to \in Ranks /\ OutRank(p) = p.to /\ InRank(p) = r /\ Thread(p) = "main"
  BY <1>1, <1>6, GenuineFacts, JobFacts DEF OutRank, InRank, Thread
<1>8. Types'
  BY HandleConsoleTypes DEF PacketInv
<1>9. CASE p.to = r
  <2>1. DeliverIn(r, p) /\ UNCHANGED <<routed, sending, stage>>
    BY <1>3, <1>9 DEF Deliver
  <2>2. Placed /\ Gone(p)
    BY <1>3, <1>4, <1>5, <1>7, <1>9, <2>1, ArrivesMove DEF PacketInv
  <2>3. UNCHANGED <<status, closed, fromOpen, announced>>
    BY <1>3 DEF filterVars
  <2>4. JobInv'
    BY <1>6, <1>9, <2>1, <2>2, <2>3, ArriveJob DEF PacketInv
  <2>5. ReadingInv'
    BY <1>3, <2>1, SameReading DEF PacketInv, PlaceInv
  <2>6. QED
    BY <1>8, <2>2, <2>4, <2>5, PacketInvFrom
<1>10. CASE p.to # r
  <2>1. StartDelivery("main", r, p) /\ UNCHANGED <<portVars, doneReceived>>
    BY <1>3, <1>10 DEF Deliver
  <2>2. /\ sending' = [sending EXCEPT !["main"][r] = p]
        /\ stage' = [stage EXCEPT !["main"][r] = "header"]
    BY <1>4, <1>7, <2>1 DEF StartDelivery
  <2>3. "main" \in SenderThreads /\ OutRank(p) # r
    BY <1>7, <1>10 DEF SenderThreads
  <2>4. Placed /\ Kept
    BY <1>3, <1>4, <1>5, <1>7, <2>2, <2>3, TakesMove DEF PacketInv
  <2>5. UNCHANGED jobVars
    BY <1>3, <2>1 DEF jobVars, filterVars, portVars
  <2>6. ASSUME NEW i \in Ranks, reading[i] # i
        PROVE  sending'["main"][i] = sending["main"][i]
    <3>1. i # r
      BY <1>3, <2>6
    <3>2. QED
      BY <2>2, <3>1 DEF PacketInv, Types, TypeOK, SenderThreads
  <2>7. ReadingInv'
    BY <1>3, <2>6, SameReading DEF PacketInv, PlaceInv
  <2>8. QED
    BY <1>8, <2>4, <2>5, <2>7, QuietJob, PacketInvFrom DEF PacketInv
<1>11. QED
  BY <1>9, <1>10

LEMMA StutterMove ==
  ASSUME PacketInv, UNCHANGED vars
  PROVE  PacketInv'
<1>1. Stays /\ UNCHANGED reading /\ UNCHANGED jobVars
  BY DEF vars, Stays, jobVars, wireVars, consoleVars, filterVars, portVars
<1>2. Types'
  BY DEF PacketInv, Types, TypeOK, vars, wireVars, consoleVars, filterVars, portVars
<1>3. Placed /\ Kept /\ ReadingInv'
  BY <1>1, StaysMove, SameReading DEF PacketInv, PlaceInv, Stays
<1>4. QED
  BY <1>1, <1>2, <1>3, QuietJob, PacketInvFrom DEF PacketInv

\* PacketInv is inductive.
LEMMA PacketInvStep ==
  ASSUME PacketInv, [Next]_vars
  PROVE  PacketInv'
<1>1. CASE \E s \in Streams : FilterWrite(s[1], s[2]) \/ FilterClose(s[1], s[2])
  BY <1>1, FilterWriteMove, FilterCloseMove
<1>2. CASE \E f \in Filters : FilterRead(f) \/ FilterReturn(f) \/ FilterErase(f)
  BY <1>2, OtherFilterMove
<1>3. CASE ConsoleFinish
  BY <1>3, ConsoleFinishMove
<1>4. CASE \E r \in Ranks : \E t \in SenderThreads : WriteHeader(t, r) \/ WriteBody(t, r)
  BY <1>4, WriteMove
<1>5. CASE \E r \in Ranks : TakeOut(r) \/ Announce(r) \/ AnnounceNext(r) \/ Exit(r) \/ ReadBody(r)
  BY <1>5, TakeOutMove, AnnounceMove, AnnounceNextMove, ReadBodyMove
<1>6. CASE \E i, r \in Ranks : ReadHeader(i, r) \/ ReadDeferred(i, r)
  BY <1>6, ReadHeaderMove, ReadDeferredMove
<1>7. CASE HandleConsole
  BY <1>7, HandleConsoleMove
<1>8. CASE Stop \/ UNCHANGED vars
  BY <1>8, StutterMove DEF Stop
<1>9. CASE \E s \in Streams : FilterBlock(s[1], s[2])
  BY <1>9, BlockMove
<1>10. QED
  BY <1>1, <1>2, <1>3, <1>4, <1>5, <1>6, <1>7, <1>8, <1>9 DEF Next

LEMMA PacketInvInit ==
  ASSUME Init
  PROVE  PacketInv
<1>1. Types
  <2>1. \A f \in Filters : Writers(f) \subseteq Filters
    BY JobFacts DEF Writers
  <2>2. \A r \in Ranks : -2 \in NotAnnounced .. NumRanks /\ -2 # r
    BY JobFacts DEF NotAnnounced
  <2>3. NoPacket \in NodePacket /\ <<>> \in Seq(Packet) /\ <<>> \in Seq(Item)
        /\ <<>> \in Seq(Filters \X Nat \X {"writer", "runtime"})
    BY DEF NodePacket
  <2>4. /\ inq \in [Filters -> Seq(Filters \X Nat \X {"writer", "runtime"})]
        /\ \A g \in Filters : \A k \in DOMAIN inq[g] : inq[g][k] \in Filters \X Nat \X {"writer", "runtime"}
    BY <2>3 DEF Init
  <2>5. /\ putters \in [Filters -> SUBSET Filters] /\ wrote \in [Streams -> Nat]
        /\ blocked \in [Filters -> Filters \cup {NoFilter}] /\ usage \in [Filters -> Int]
        /\ outq \in [Ranks -> Seq(Packet)] /\ fromConsole \in Seq(Packet)
        /\ sending \in [SenderThreads -> [Ranks -> NodePacket]]
        /\ wire \in [Ranks -> [Ranks -> Seq(Item)]]
        /\ heads \in [Ranks -> [Ranks -> NodePacket]]
    BY <2>1, <2>3 DEF Init
  <2>6. /\ announced \in [Ranks -> NotAnnounced .. NumRanks]
        /\ \A r \in Ranks : announced[r] # r
    BY <2>2 DEF Init, NotAnnounced
  <2>7. /\ status \in [Filters -> {"process", "closing", "erased"}]
        /\ closed \in [Filters -> SUBSET Filters]
        /\ stage \in [SenderThreads -> [Ranks -> {"header", "body"}]]
        /\ reading \in [Ranks -> Ranks] /\ rtUsage \in [Ranks -> Int] /\ fromOpen \in BOOLEAN
        /\ doneReceived \in [Ranks -> Nat] /\ routed \in [Ranks -> Nat]
        /\ exited \in [Ranks -> BOOLEAN] /\ unknown \in [Ranks -> BOOLEAN]
    BY DEF Init
  <2>8. QED
    BY <2>4, <2>5, <2>6, <2>7 DEF Types, TypeOK
<1>2. /\ \A m \in Ranks \cup {Console} : Source(m) = <<>>
      /\ \A i, r \in Ranks : wire[i][r] = <<>> /\ heads[r][i] = NoPacket
      /\ \A t \in SenderThreads, r \in Ranks : sending[t][r] = NoPacket
      /\ \A r \in Ranks : reading[r] = r
  BY JobFacts DEF Init, Source
<1>3. PlaceInv
  BY <1>2 DEF PlaceInv, SourceInv, HandInv, LineInv, HeadsInv, ReadingInv
<1>4. \A p \in Packet : ~Queued(p) /\ ~InHand(p) /\ ~OnLine(p) /\ ~HeaderIn(p)
  <2>1. SUFFICES ASSUME NEW p \in Packet
                 PROVE  ~Queued(p) /\ ~InHand(p) /\ ~OnLine(p) /\ ~HeaderIn(p)
    OBVIOUS
  <2>2. Source(p.from) = <<>> /\ Line(p) = <<>>
    BY <1>2, PlaceTypes DEF Line
  <2>3. ~Queued(p) /\ ~OnLine(p)
    BY <2>2 DEF Queued, OnLine
  <2>4. ~InHand(p) /\ ~HeaderIn(p)
    BY <1>2, PlaceTypes DEF InHand, HeaderIn
  <2>5. QED
    BY <2>3, <2>4
<1>5. \A p \in Packet : ~Way(p)
  BY <1>4 DEF Way
<1>6. Ordered
  <2>1. SUFFICES ASSUME NEW d \in Packet, NEW e \in Packet
                 PROVE  InOrder(d, e)
    BY DEF Ordered
  <2>2. Source(e.from) = <<>> /\ Line(e) = <<>>
    BY <1>2, PlaceTypes DEF Line
  <2>3. QED
    BY <2>2, <1>4 DEF InOrder
<1>7. FilterInv
  <2>1. \A f \in Filters : status[f] = "process" /\ closed[f] = {}
    BY DEF Init
  <2>2. \A s \in Streams : s[1] \in putters[s[2]]
    BY JobFacts DEF Init, Writers
  <2>3. QED
    BY <2>1, <2>2 DEF FilterInv
<1>8. CloseInv /\ EndInv
  BY <1>5, JobPackets DEF CloseInv, EndInv
<1>9. DoneInv
  <2>1. \A m, n \in Nodes : ~Way(AllDone(m, n))
    BY <1>5, JobPackets
  <2>2. ASSUME NEW n \in Ranks
        PROVE  doneReceived[n] = Cardinality(Arrived(n))
    <3>1. ASSUME NEW m \in Nodes
          PROVE  ~Sent(m, n)
      <4>1. CASE m = Console
        BY <4>1 DEF Init, Sent
      <4>2. CASE m # Console
        <5>1. announced[m] = -2
          BY <4>2, JobFacts DEF Init, NotAnnounced
        <5>2. QED
          BY <4>2, <5>1, JobFacts DEF Sent
      <4>3. QED
        BY <4>1, <4>2
    <3>2. Arrived(n) = {}
      BY <3>1 DEF Arrived
    <3>3. QED
      BY <3>2, FS_EmptySet DEF Init
  <2>3. QED
    BY <2>1, <2>2 DEF DoneInv
<1>10. QED
  BY <1>1, <1>3, <1>6, <1>7, <1>8, <1>9 DEF PacketInv, JobInv

\* In every state every packet is at its place, in order, and the ends of
\* streams and the done packets agree with the ports and the counters.
LEMMA SocketPackets == Spec => []PacketInv
<1>1. Init => PacketInv
  BY PacketInvInit
<1>2. PacketInv /\ [Next]_vars => PacketInv'
  BY PacketInvStep
<1>3. QED
  BY <1>1, <1>2, PTL DEF Spec

\* The end of a stream arrives after all its buffers.
THEOREM EndsAreLast == Spec => []EndOfStreamIsLast
<1>1. PacketInv => EndOfStreamIsLast
  <2>1. SUFFICES ASSUME PacketInv, NEW s \in Streams, s[1] \notin putters[s[2]],
                        NEW p \in OnTheWay, p.type = "DCBUF", p.writer = s[1], p.reader = s[2]
                 PROVE  FALSE
    BY DEF EndOfStreamIsLast
  <2>2. Genuine(p) /\ Way(p)
    BY <2>1, WayIsOnTheWay DEF PacketInv
  <2>3. p \in Packet /\ OfStream(p, <<p.writer, p.reader>>)
    BY <2>1, <2>2, GenuineFacts
  <2>4. s = <<p.writer, p.reader>>
    BY <2>1, JobFacts
  <2>5. QED
    BY <2>1, <2>2, <2>3, <2>4 DEF PacketInv, JobInv, EndInv
<1>2. QED
  BY <1>1, SocketPackets, PTL

-----------------------------------------------------------------------------
(* Leaving the main loop                                                   *)

\* ExitInv is inductive, given PacketInv.
LEMMA ExitStep ==
  ASSUME PacketInv, ExitInv, [Next]_vars
  PROVE  ExitInv'
<1>1. /\ announced \in [Ranks -> NotAnnounced .. NumRanks] /\ doneReceived \in [Ranks -> Nat]
      /\ exited \in [Ranks -> BOOLEAN] /\ reading \in [Ranks -> Ranks]
      /\ status \in [Filters -> {"process", "closing", "erased"}]
  BY DEF PacketInv, Types, TypeOK
<1>2. CASE UNCHANGED <<announced, doneReceived, exited, reading>>
           /\ \A f \in Filters : status[f] = "erased" => status'[f] = "erased"
  BY <1>2 DEF ExitInv, SentDone, FiltersOn
<1>3. ASSUME NEW r \in Ranks, Announce(r)
      PROVE  ExitInv'
  <2>1. /\ \A f \in FiltersOn(r) : status[f] = "erased"
        /\ announced' = [announced EXCEPT ![r] = FirstAnnounced(r)] /\ announced[r] = NotAnnounced
        /\ UNCHANGED <<status, doneReceived, exited, reading>>
    BY <1>3 DEF Announce, SentDone, filterVars
  <2>2. \A n \in Ranks \ {r} : announced'[n] = announced[n]
    BY <1>1, <2>1
  <2>3. ~exited[r]
    BY <1>3 DEF Announce, InLoop, Free
  <2>4. QED
    BY <2>1, <2>2, <2>3 DEF ExitInv, SentDone
<1>4. ASSUME NEW r \in Ranks, AnnounceNext(r)
      PROVE  ExitInv'
  <2>1. PICK n : n = announced[r]
    OBVIOUS
  <2>2. /\ n \in Nodes /\ n # r /\ announced' = [announced EXCEPT ![r] = NextAnnounced(r, n)]
        /\ UNCHANGED <<status, doneReceived, exited, reading>> /\ ~exited[r]
    BY <1>4, <2>1 DEF AnnounceNext, Announcing, Free, filterVars, PacketInv, Types, TypeOK
  <2>3. \A i \in Ranks \ {r} : announced'[i] = announced[i]
    BY <1>1, <2>2
  <2>4. n # NotAnnounced
    BY <2>2, JobFacts DEF NotAnnounced, Console
  <2>5. QED
    BY <2>1, <2>2, <2>3, <2>4 DEF ExitInv, SentDone
<1>5. ASSUME NEW r \in Ranks, Exit(r)
      PROVE  ExitInv'
  BY <1>1, <1>5 DEF Exit, InLoop, Free, ExitInv, SentDone, filterVars
<1>6. ASSUME NEW r \in Ranks, ~exited[r], UNCHANGED <<status, announced, exited>>,
             \A i \in Ranks \ {r} : doneReceived'[i] = doneReceived[i] /\ reading'[i] = reading[i]
      PROVE  ExitInv'
  BY <1>6 DEF ExitInv, SentDone
<1>7. ASSUME NEW r \in Ranks, ReadBody(r)
      PROVE  ExitInv'
  <2>1. ~exited[r]
    BY <1>7 DEF ReadBody, ExitInv
  <2>2. UNCHANGED <<status, announced, exited>>
    BY <1>7 DEF ReadBody, filterVars
  <2>3. /\ doneReceived' = doneReceived \/ doneReceived' = [doneReceived EXCEPT ![r] = @ + 1]
        /\ reading' = reading \/ reading' = [reading EXCEPT ![r] = r]
    BY <1>7, ReadBodyDelivers DEF PacketInv, Misread, DeliverIn
  <2>4. QED
    BY <1>1, <1>6, <2>1, <2>2, <2>3
<1>8. ASSUME NEW i \in Ranks, NEW r \in Ranks, ReadHeader(i, r) \/ ReadDeferred(i, r)
      PROVE  ExitInv'
  <2>1. ~exited[r]
    BY <1>8 DEF ReadHeader, ReadDeferred, InLoop, Free
  <2>2. UNCHANGED <<status, announced, exited>>
    BY <1>8 DEF ReadHeader, ReadDeferred, filterVars
  <2>3. /\ doneReceived' = doneReceived \/ doneReceived' = [doneReceived EXCEPT ![r] = @ + 1]
        /\ reading' = reading \/ reading' = [reading EXCEPT ![r] = i]
    BY <1>8 DEF ReadHeader, ReadDeferred, Misread, Deliver, DeliverIn, BeginBody
  <2>4. QED
    BY <1>1, <1>6, <2>1, <2>2, <2>3
<1>9. ASSUME HandleConsole
      PROVE  ExitInv'
  <2>1. PICK r \in Ranks : r = 0
    BY JobFacts
  <2>2. ~exited[r]
    BY <1>9, <2>1 DEF HandleConsole, InLoop, Free
  <2>3. UNCHANGED <<status, announced, exited, reading>>
    BY <1>9 DEF HandleConsole, filterVars
  <2>4. doneReceived' = doneReceived \/ doneReceived' = [doneReceived EXCEPT ![r] = @ + 1]
    BY <1>9, <2>1 DEF HandleConsole, Deliver, DeliverIn
  <2>5. QED
    BY <1>1, <1>6, <2>2, <2>3, <2>4
<1>10. ASSUME NEW s \in Streams,
              FilterBlock(s[1], s[2]) \/ FilterWrite(s[1], s[2]) \/ FilterClose(s[1], s[2])
       PROVE  ExitInv'
  BY <1>2, <1>10 DEF FilterBlock, FilterWrite, FilterClose
<1>11. ASSUME NEW f \in Filters, FilterRead(f) \/ FilterReturn(f) \/ FilterErase(f)
       PROVE  ExitInv'
  <2>1. UNCHANGED <<announced, doneReceived, exited, reading>>
    BY <1>11 DEF FilterRead, FilterReturn, FilterErase
  <2>2. \A h \in Filters : status[h] = "erased" => status'[h] = "erased"
    BY <1>1, <1>11 DEF FilterRead, FilterReturn, FilterErase, filterVars
  <2>3. QED
    BY <1>2, <2>1, <2>2
<1>12. ASSUME ConsoleFinish
       PROVE  ExitInv'
  BY <1>2, <1>12 DEF ConsoleFinish, filterVars
<1>13. ASSUME NEW t \in SenderThreads, NEW r \in Ranks, WriteHeader(t, r) \/ WriteBody(t, r)
       PROVE  ExitInv'
  BY <1>2, <1>13 DEF WriteHeader, WriteBody, filterVars
<1>14. ASSUME NEW r \in Ranks, TakeOut(r)
       PROVE  ExitInv'
  BY <1>2, <1>14 DEF TakeOut, filterVars
<1>15. ASSUME UNCHANGED vars
       PROVE  ExitInv'
  BY <1>2, <1>15 DEF vars, filterVars
<1>16. QED
  BY <1>3, <1>4, <1>5, <1>7, <1>8, <1>9, <1>10, <1>11, <1>12, <1>13, <1>14, <1>15 DEF Next, Stop

\* A rank that has announced has no filter left, one that has left the main
\* loop has heard from all the others.
LEMMA SocketExits == Spec => []ExitInv
<1>1. Init => ExitInv
  BY DEF Init, ExitInv, SentDone
<1>2. PacketInv /\ ExitInv /\ [Next]_vars => ExitInv'
  BY ExitStep
<1>3. QED
  BY <1>1, <1>2, SocketPackets, PTL DEF Spec

\* A rank leaves its main loop when all the others have told it that they are
\* done; what may still be on its way to it is for a filter that did not read
\* its input to the end.
OnlyEarlyIsReceived == \A r \in Ranks : exited[r] =>
  \A p \in OnTheWay : p.to = r => p.reader \in EarlyExit

\* What may be on its way to a rank that has left its main loop.
LEMMA ExitedHasAll ==
  ASSUME PacketInv, ExitInv, NEW r \in Ranks, exited[r], NEW p \in OnTheWay, p.to = r
  PROVE  p.reader \in EarlyExit
<1>1. /\ SentDone(r) /\ doneReceived[r] = NumDoneExpected
      /\ \A f \in FiltersOn(r) : status[f] = "erased"
  BY DEF ExitInv
<1>2. Genuine(p) /\ Way(p)
  BY WayIsOnTheWay DEF PacketInv
<1>3. CASE p.type = "ALL_MY_FILTERS_DONE"
  <2>1. PICK m \in Nodes : m # r /\ p = AllDone(m, r)
    BY <1>2, <1>3, GenuineFacts
  <2>2. m \notin Arrived(r)
    BY <1>2, <2>1 DEF Arrived
  <2>3. r \in Nodes /\ IsFiniteSet(Nodes)
    BY JobFacts, NodesAreFinite
  <2>4. PICK N \in Nat : N = Cardinality(Nodes)
    BY <2>3, FS_CardinalityType
  <2>5. Cardinality(Nodes \ {r}) = N - 1 /\ IsFiniteSet(Nodes \ {r})
    BY <2>3, <2>4, FS_RemoveElement
  <2>6. Arrived(r) \subseteq (Nodes \ {r}) \ {m} /\ m \in Nodes \ {r}
    BY <2>1, <2>2 DEF Arrived
  <2>7. Cardinality((Nodes \ {r}) \ {m}) = (N - 1) - 1 /\ IsFiniteSet((Nodes \ {r}) \ {m})
    BY <2>5, <2>6, FS_RemoveElement
  <2>8. Cardinality(Arrived(r)) <= Cardinality((Nodes \ {r}) \ {m})
    BY <2>6, <2>7, FS_Subset
  <2>9. Cardinality(Arrived(r)) = N - 1
    BY <1>1, <2>4 DEF PacketInv, JobInv, DoneInv, NumDoneExpected
  <2>10. QED
    BY <2>4, <2>7, <2>8, <2>9
<1>4. CASE p.type # "ALL_MY_FILTERS_DONE"
  <2>1. /\ p \in Packet /\ p.reader \in Filters /\ HostOf[p.reader] = r
        /\ <<p.writer, p.reader>> \in Streams /\ OfStream(p, <<p.writer, p.reader>>)
    BY <1>2, <1>4, GenuineFacts
  <2>2. status[p.reader] = "erased"
    BY <1>1, <2>1 DEF FiltersOn
  <2>3. ASSUME p.reader \notin EarlyExit
        PROVE  FALSE
    <3>1. putters[p.reader] = {}
      BY <2>1, <2>2, <2>3 DEF PacketInv, JobInv, FilterInv
    <3>2. QED
      BY <1>2, <2>1, <3>1 DEF PacketInv, JobInv, EndInv
  <2>4. QED
    BY <2>3
<1>5. QED
  BY <1>3, <1>4

\* When a rank leaves its main loop ("we'll receive nothing more from others",
\* dcmpiruntime-socket.cpp:531), every packet still on its way to it is for a
\* filter that may return with input unread, whatever the job.
THEOREM OnlyEarlyExits == Spec => []OnlyEarlyIsReceived
<1>1. PacketInv /\ ExitInv => OnlyEarlyIsReceived
  BY ExitedHasAll DEF OnlyEarlyIsReceived
<1>2. QED
  BY <1>1, SocketPackets, SocketExits, PTL

\* If every filter reads its input to the end, nothing is on its way to a rank
\* that has left its main loop.
THEOREM NothingMore ==
  ASSUME EarlyExit = {}
  PROVE  Spec => []NothingMoreIsReceived
<1>1. PacketInv /\ ExitInv => NothingMoreIsReceived
  BY ExitedHasAll DEF NothingMoreIsReceived
<1>2. QED
  BY <1>1, SocketPackets, SocketExits, PTL

-----------------------------------------------------------------------------
(* Memory                                                                  *)

\* What is where in a sequence that loses its first element or gets another.
LEMMA TailAt ==
  ASSUME NEW S, NEW q \in Seq(S), q # <<>>
  PROVE  /\ 1 \in DOMAIN q /\ Head(q) = q[1] /\ q[1] \in S
         /\ \A j \in DOMAIN Tail(q) : j \in Nat /\ j # 0 /\ j + 1 \in DOMAIN q /\ Tail(q)[j] = q[j + 1]
         /\ \A i \in DOMAIN q : i \in Nat /\ (i = 1 \/ (i - 1 \in DOMAIN Tail(q) /\ Tail(q)[i - 1] = q[i]))
OBVIOUS

LEMMA AppendAt ==
  ASSUME NEW S, NEW q \in Seq(S), NEW p
  PROVE  /\ \A i \in DOMAIN q : i \in DOMAIN Append(q, p) /\ Append(q, p)[i] = q[i] /\ i # Len(q) + 1
         /\ Len(q) + 1 \in DOMAIN Append(q, p) /\ Append(q, p)[Len(q) + 1] = p
         /\ \A i \in DOMAIN Append(q, p) : i \in DOMAIN q \/ i = Len(q) + 1
OBVIOUS

\* A set of which one element goes, or not, and the others get other names.
LEMMA Renamed ==
  ASSUME NEW S, NEW T, NEW a, IsFiniteSet(S), NEW F \in [T -> S \ {a}],
         \A x, y \in T : F[x] = F[y] => x = y, \A y \in S \ {a} : \E x \in T : F[x] = y
  PROVE  /\ IsFiniteSet(T) /\ Cardinality(S) \in Nat
         /\ Cardinality(T) = IF a \in S THEN Cardinality(S) - 1 ELSE Cardinality(S)
<1>1. PICK B : B = S \ {a}
  OBVIOUS
<1>2. F \in Bijection(T, B)
  BY <1>1 DEF Bijection, Injection, Surjection, IsInjective
<1>3. ExistsBijection(B, T)
  BY <1>2, Fun_ExistsBijSymmetric DEF ExistsBijection
<1>4. IsFiniteSet(B) /\ Cardinality(B) = IF a \in S THEN Cardinality(S) - 1 ELSE Cardinality(S)
  BY <1>1, FS_RemoveElement
<1>5. IsFiniteSet(T) /\ Cardinality(T) = Cardinality(B)
  BY <1>3, <1>4, FS_Bijection
<1>6. QED
  BY <1>4, <1>5, FS_CardinalityType

\* The buffers in mpi_from_console_queue.
LEMMA BufsMore ==
  ASSUME Types, IsFiniteSet(FromConsoleBufs), NEW p, fromConsole' = Append(fromConsole, p)
  PROVE  /\ IsFiniteSet(FromConsoleBufs') /\ Cardinality(FromConsoleBufs) \in Nat
         /\ Cardinality(FromConsoleBufs') =
              IF p.type = "DCBUF" THEN Cardinality(FromConsoleBufs) + 1 ELSE Cardinality(FromConsoleBufs)
<1>1. fromConsole \in Seq(Packet)
  BY DEF Types, TypeOK
<1>2. PICK n : n = Len(fromConsole) + 1
  OBVIOUS
<1>3. /\ \A i \in DOMAIN fromConsole : i \in DOMAIN fromConsole' /\ fromConsole'[i] = fromConsole[i] /\ i # n
      /\ n \in DOMAIN fromConsole' /\ fromConsole'[n] = p
      /\ \A i \in DOMAIN fromConsole' : i \in DOMAIN fromConsole \/ i = n
  BY <1>1, <1>2, AppendAt
<1>4. n \notin FromConsoleBufs
  BY <1>3 DEF FromConsoleBufs
<1>5. CASE p.type = "DCBUF"
  <2>1. FromConsoleBufs' = FromConsoleBufs \cup {n}
    BY <1>3, <1>5 DEF FromConsoleBufs
  <2>2. QED
    BY <1>4, <1>5, <2>1, FS_AddElement, FS_CardinalityType
<1>6. CASE p.type # "DCBUF"
  <2>1. FromConsoleBufs' = FromConsoleBufs
    BY <1>3, <1>6 DEF FromConsoleBufs
  <2>2. QED
    BY <1>6, <2>1, FS_CardinalityType
<1>7. QED
  BY <1>5, <1>6

LEMMA BufsLess ==
  ASSUME Types, IsFiniteSet(FromConsoleBufs), fromConsole # <<>>,
         NEW p, p = Head(fromConsole), fromConsole' = Tail(fromConsole)
  PROVE  /\ IsFiniteSet(FromConsoleBufs') /\ Cardinality(FromConsoleBufs) \in Nat
         /\ Cardinality(FromConsoleBufs') =
              IF p.type = "DCBUF" THEN Cardinality(FromConsoleBufs) - 1 ELSE Cardinality(FromConsoleBufs)
<1>1. PICK q \in Seq(Packet) : q = fromConsole
  BY DEF Types, TypeOK
<1>2. PICK q2 : q2 = Tail(q) /\ fromConsole' = q2
  BY <1>1
<1>3. /\ 1 \in DOMAIN q /\ p = q[1]
      /\ \A j \in DOMAIN q2 : j \in Nat /\ j # 0 /\ j + 1 \in DOMAIN q /\ q2[j] = q[j + 1]
      /\ \A i \in DOMAIN q : i \in Nat /\ (i = 1 \/ (i - 1 \in DOMAIN q2 /\ q2[i - 1] = q[i]))
  BY <1>1, <1>2, TailAt
<1>4. PICK S : S = FromConsoleBufs
  OBVIOUS
<1>5. PICK T : T = FromConsoleBufs'
  OBVIOUS
<1>6. /\ \A k : k \in S <=> k \in DOMAIN q /\ q[k].type = "DCBUF"
      /\ \A k : k \in T <=> k \in DOMAIN q2 /\ q2[k].type = "DCBUF"
  BY <1>1, <1>2, <1>4, <1>5 DEF FromConsoleBufs
<1>7. PICK F : F = [k \in T |-> k + 1]
  OBVIOUS
<1>8. F \in [T -> S \ {1}]
  <2>1. \A k \in T : k \in Nat /\ k # 0 /\ k + 1 \in S
    BY <1>3, <1>6
  <2>2. \A k \in T : k + 1 \in S \ {1}
    BY <2>1
  <2>3. QED
    BY <2>2, <1>7
<1>9. \A x, y \in T : F[x] = F[y] => x = y
  <2>1. \A x \in T : x \in Nat
    BY <1>3, <1>6
  <2>2. QED
    BY <2>1, <1>7
<1>10. ASSUME NEW y \in S \ {1}
       PROVE  \E x \in T : F[x] = y
  <2>1. y \in DOMAIN q /\ q[y].type = "DCBUF" /\ y # 1
    BY <1>6
  <2>2. y \in Nat /\ y - 1 \in DOMAIN q2 /\ q2[y - 1] = q[y]
    BY <1>3, <2>1
  <2>3. PICK x : x = y - 1
    OBVIOUS
  <2>4. x \in T
    BY <1>6, <2>1, <2>2, <2>3
  <2>5. F[x] = x + 1
    BY <1>7, <2>4
  <2>6. x + 1 = y
    BY <2>2, <2>3
  <2>7. QED
    BY <2>4, <2>5, <2>6
<1>11. 1 \in S <=> p.type = "DCBUF"
  BY <1>3, <1>6
<1>12. /\ IsFiniteSet(T) /\ Cardinality(S) \in Nat
       /\ Cardinality(T) = IF 1 \in S THEN Cardinality(S) - 1 ELSE Cardinality(S)
  BY <1>4, <1>8, <1>9, <1>10, Renamed
<1>13. QED
  BY <1>4, <1>5, <1>11, <1>12

\* What is where in two sequences joined.
LEMMA ConcatAt ==
  ASSUME NEW S, NEW q \in Seq(S), NEW ps \in Seq(S)
  PROVE  /\ \A k \in DOMAIN q : k \in DOMAIN (q \o ps) /\ (q \o ps)[k] = q[k]
         /\ \A k \in DOMAIN (q \o ps) :
              \/ k \in DOMAIN q
              \/ k - Len(q) \in 1 .. Len(ps) /\ (q \o ps)[k] = ps[k - Len(q)]
<1>1. PICK n \in Nat : n = Len(q)
  OBVIOUS
<1>2. PICK l \in Nat : l = Len(ps)
  OBVIOUS
<1>3. DOMAIN (q \o ps) = 1 .. n + l /\ DOMAIN q = 1 .. n
  BY <1>1, <1>2
<1>4. \A k \in 1 .. n : (q \o ps)[k] = q[k]
  BY <1>1, <1>2
<1>5. \A k \in 1 .. n + l : k > n => (q \o ps)[k] = ps[k - n]
  BY <1>1, <1>2
<1>6. \A k \in 1 .. n : k \in 1 .. n + l
  OBVIOUS
<1>7. \A k \in 1 .. n + l : k \in 1 .. n \/ (k > n /\ k - n \in 1 .. l)
  OBVIOUS
<1>8. QED
  BY <1>1, <1>2, <1>3, <1>4, <1>5, <1>6, <1>7

LEMMA BufsSame ==
  ASSUME Types, IsFiniteSet(FromConsoleBufs), NEW ps \in Seq(Packet), fromConsole' = fromConsole \o ps,
         \A k \in 1 .. Len(ps) : ps[k].type # "DCBUF"
  PROVE  FromConsoleBufs' = FromConsoleBufs
<1>1. PICK q \in Seq(Packet) : q = fromConsole
  BY DEF Types, TypeOK
<1>2. PICK q2 : q2 = q \o ps /\ q2 = fromConsole'
  BY <1>1
<1>3. /\ \A k \in DOMAIN q : k \in DOMAIN q2 /\ q2[k] = q[k]
      /\ \A k \in DOMAIN q2 : k \in DOMAIN q \/ (k - Len(q) \in 1 .. Len(ps) /\ q2[k] = ps[k - Len(q)])
  <2>1. /\ \A k \in DOMAIN q : k \in DOMAIN (q \o ps) /\ (q \o ps)[k] = q[k]
        /\ \A k \in DOMAIN (q \o ps) :
             \/ k \in DOMAIN q
             \/ k - Len(q) \in 1 .. Len(ps) /\ (q \o ps)[k] = ps[k - Len(q)]
    BY ConcatAt, Zenon
  <2>2. QED
    BY ONLY <1>2, <2>1, Zenon
<1>4. \A k : (k \in DOMAIN q2 /\ q2[k].type = "DCBUF") <=> (k \in DOMAIN q /\ q[k].type = "DCBUF")
  BY <1>3
<1>5. QED
  BY <1>1, <1>2, <1>4 DEF FromConsoleBufs

\* The buffers in the in-ports of a rank that its runtime pays for.
LEMMA EntriesAt ==
  ASSUME NEW r, NEW x
  PROVE  /\ x \in Entries(r) <=>
              \E f \in Filters : \E k \in DOMAIN inq[f] :
                x = <<f, k>> /\ HostOf[f] = r /\ inq[f][k][3] = "runtime"
         /\ x \in Entries(r)' <=>
              \E f \in Filters : \E k \in DOMAIN inq'[f] :
                x = <<f, k>> /\ HostOf[f] = r /\ inq'[f][k][3] = "runtime"
BY DEF Entries, FiltersOn

LEMMA EntriesMore ==
  ASSUME Types, NEW g \in Filters, NEW e, inq' = [inq EXCEPT ![g] = Append(@, e)],
         NEW r, IsFiniteSet(Entries(r))
  PROVE  /\ IsFiniteSet(Entries(r)') /\ Cardinality(Entries(r)) \in Nat
         /\ Cardinality(Entries(r)') =
              IF HostOf[g] = r /\ e[3] = "runtime" THEN Cardinality(Entries(r)) + 1 ELSE Cardinality(Entries(r))
<1>1. inq \in [Filters -> Seq(Filters \X Nat \X {"writer", "runtime"})]
  BY DEF Types
<1>2. PICK q : q = inq[g]
  OBVIOUS
<1>3. PICK n : n = Len(q) + 1
  OBVIOUS
<1>4. /\ q \in Seq(Filters \X Nat \X {"writer", "runtime"})
      /\ \A f \in Filters : inq'[f] = IF f = g THEN Append(q, e) ELSE inq[f]
  BY <1>1, <1>2
<1>5. /\ \A i \in DOMAIN q : i \in DOMAIN Append(q, e) /\ Append(q, e)[i] = q[i] /\ i # n
      /\ n \in DOMAIN Append(q, e) /\ Append(q, e)[n] = e
      /\ \A i \in DOMAIN Append(q, e) : i \in DOMAIN q \/ i = n
  BY <1>3, <1>4, AppendAt
<1>6. ASSUME NEW x
      PROVE  x \in Entries(r)' <=> (x \in Entries(r) \/ (x = <<g, n>> /\ HostOf[g] = r /\ e[3] = "runtime"))
  <2>1. ASSUME x \in Entries(r)'
        PROVE  x \in Entries(r) \/ (x = <<g, n>> /\ HostOf[g] = r /\ e[3] = "runtime")
    <3>1. PICK f \in Filters : \E k \in DOMAIN inq'[f] :
            x = <<f, k>> /\ HostOf[f] = r /\ inq'[f][k][3] = "runtime"
      BY <2>1, EntriesAt
    <3>2. PICK k \in DOMAIN inq'[f] : x = <<f, k>> /\ HostOf[f] = r /\ inq'[f][k][3] = "runtime"
      BY <3>1
    <3>3. (k \in DOMAIN inq[f] /\ inq'[f][k] = inq[f][k]) \/ (f = g /\ k = n /\ inq'[f][k] = e)
      BY <1>2, <1>4, <1>5, <3>2
    <3>4. QED
      BY <3>2, <3>3, EntriesAt
  <2>2. ASSUME x \in Entries(r)
        PROVE  x \in Entries(r)'
    <3>1. PICK f \in Filters : \E k \in DOMAIN inq[f] :
            x = <<f, k>> /\ HostOf[f] = r /\ inq[f][k][3] = "runtime"
      BY <2>2, EntriesAt
    <3>2. PICK k \in DOMAIN inq[f] : x = <<f, k>> /\ HostOf[f] = r /\ inq[f][k][3] = "runtime"
      BY <3>1
    <3>3. k \in DOMAIN inq'[f] /\ inq'[f][k] = inq[f][k]
      BY <1>2, <1>4, <1>5, <3>2
    <3>4. QED
      BY <3>2, <3>3, EntriesAt
  <2>3. ASSUME x = <<g, n>>, HostOf[g] = r, e[3] = "runtime"
        PROVE  x \in Entries(r)'
    <3>1. n \in DOMAIN inq'[g] /\ inq'[g][n] = e
      BY <1>4, <1>5
    <3>2. QED
      BY <2>3, <3>1, EntriesAt
  <2>4. QED
    BY <2>1, <2>2, <2>3
<1>7. <<g, n>> \notin Entries(r)
  <2> SUFFICES ASSUME <<g, n>> \in Entries(r)
               PROVE  FALSE
    OBVIOUS
  <2>1. \E f \in Filters : \E k \in DOMAIN inq[f] : <<g, n>> = <<f, k>>
    BY EntriesAt
  <2>2. n \in DOMAIN q
    BY <1>2, <2>1
  <2>3. QED
    BY <1>5, <2>2
<1>8. CASE HostOf[g] = r /\ e[3] = "runtime"
  <2>1. Entries(r)' = Entries(r) \cup {<<g, n>>}
    BY <1>6, <1>8
  <2>2. QED
    BY <1>7, <1>8, <2>1, FS_AddElement, FS_CardinalityType
<1>9. CASE ~(HostOf[g] = r /\ e[3] = "runtime")
  <2>1. Entries(r)' = Entries(r)
    BY <1>6, <1>9
  <2>2. QED
    BY <1>9, <2>1, FS_CardinalityType
<1>10. QED
  BY <1>8, <1>9

LEMMA EntriesLess ==
  ASSUME Types, NEW g \in Filters, inq[g] # <<>>, inq' = [inq EXCEPT ![g] = Tail(@)],
         NEW e, e = Head(inq[g]), NEW r, IsFiniteSet(Entries(r))
  PROVE  /\ IsFiniteSet(Entries(r)') /\ Cardinality(Entries(r)) \in Nat
         /\ Cardinality(Entries(r)') =
              IF HostOf[g] = r /\ e[3] = "runtime" THEN Cardinality(Entries(r)) - 1 ELSE Cardinality(Entries(r))
<1>1. inq \in [Filters -> Seq(Filters \X Nat \X {"writer", "runtime"})]
  BY DEF Types
<1>2. PICK q : q = inq[g]
  OBVIOUS
<1>3. PICK q2 : q2 = Tail(q)
  OBVIOUS
<1>4. /\ q \in Seq(Filters \X Nat \X {"writer", "runtime"})
      /\ \A f \in Filters : inq'[f] = IF f = g THEN q2 ELSE inq[f]
  BY <1>1, <1>2, <1>3
<1>5. /\ 1 \in DOMAIN q /\ e = q[1]
      /\ \A j \in DOMAIN q2 : j \in Nat /\ j # 0 /\ j + 1 \in DOMAIN q /\ q2[j] = q[j + 1]
      /\ \A i \in DOMAIN q : i \in Nat /\ (i = 1 \/ (i - 1 \in DOMAIN q2 /\ q2[i - 1] = q[i]))
  BY <1>2, <1>3, <1>4, TailAt
<1>6. PICK S, a : S = Entries(r) /\ a = <<g, 1>>
  OBVIOUS
<1>7. PICK T : T = Entries(r)'
  OBVIOUS
<1>8. PICK F : F = [x \in T |-> IF x[1] = g THEN <<g, x[2] + 1>> ELSE x]
  OBVIOUS
<1>9. ASSUME NEW x \in T
      PROVE  /\ F[x] \in S \ {a} /\ (x[1] = g => x = <<g, x[2]>> /\ x[2] \in Nat)
             /\ F[x] = IF x[1] = g THEN <<g, x[2] + 1>> ELSE x
  <2>1. PICK f \in Filters : \E k \in DOMAIN inq'[f] :
          x = <<f, k>> /\ HostOf[f] = r /\ inq'[f][k][3] = "runtime"
    BY <1>7, EntriesAt
  <2>2. PICK k \in DOMAIN inq'[f] : x = <<f, k>> /\ HostOf[f] = r /\ inq'[f][k][3] = "runtime"
    BY <2>1
  <2>3. F[x] = IF x[1] = g THEN <<g, x[2] + 1>> ELSE x
    BY <1>8
  <2>4. x[1] = f /\ x[2] = k
    BY <2>2
  <2>5. CASE f = g
    <3>1. k \in DOMAIN q2 /\ inq'[g] = q2
      BY <1>4, <2>2, <2>5
    <3>2. k \in Nat /\ k # 0 /\ k + 1 \in DOMAIN inq[g] /\ inq[g][k + 1] = inq'[g][k]
      BY <1>2, <1>5, <3>1
    <3>3. <<g, k + 1>> \in S
      BY <1>6, <2>2, <2>5, <3>2, EntriesAt
    <3>4. <<g, k + 1>> # a
      BY <1>6, <3>2
    <3>5. QED
      BY <2>2, <2>3, <2>4, <2>5, <3>2, <3>3, <3>4
  <2>6. CASE f # g
    <3>1. inq'[f] = inq[f]
      BY <1>4, <2>6
    <3>2. k \in DOMAIN inq[f] /\ x = <<f, k>> /\ HostOf[f] = r /\ inq[f][k][3] = "runtime"
      BY <2>2, <3>1
    <3>5. x \in Entries(r)
      BY <3>2, EntriesAt
    <3>6. x \in S
      BY <1>6, <3>5
    <3>3. x # a
      BY <1>6, <2>4, <2>6
    <3>4. QED
      BY <2>3, <2>4, <2>6, <3>6, <3>3
  <2>7. QED
    BY <2>5, <2>6
<1>10. ASSUME NEW x \in T, NEW y \in T, F[x] = F[y]
       PROVE  x = y
  <2>1. /\ F[x] = IF x[1] = g THEN <<g, x[2] + 1>> ELSE x
        /\ F[y] = IF y[1] = g THEN <<g, y[2] + 1>> ELSE y
        /\ x[1] = g => x = <<g, x[2]>> /\ x[2] \in Nat
        /\ y[1] = g => y = <<g, y[2]>> /\ y[2] \in Nat
    BY <1>9
  <2>2. CASE x[1] = g /\ y[1] = g
    <3>1. PICK i, k : i = x[2] + 1 /\ k = y[2] + 1
      OBVIOUS
    <3>2. <<g, i>> = <<g, k>>
      BY <1>10, <2>1, <2>2, <3>1
    <3>3. i = k
      BY ONLY <3>2
    <3>4. QED
      BY <2>1, <2>2, <3>1, <3>3
  <2>3. CASE x[1] # g /\ y[1] # g
    BY <1>10, <2>1, <2>3
  <2>4. CASE x[1] = g /\ y[1] # g
    <3>1. y = <<g, x[2] + 1>>
      BY <1>10, <2>1, <2>4
    <3>2. QED
      BY <2>4, <3>1
  <2>5. CASE x[1] # g /\ y[1] = g
    <3>1. x = <<g, y[2] + 1>>
      BY <1>10, <2>1, <2>5
    <3>2. QED
      BY <2>5, <3>1
  <2>6. QED
    BY <2>2, <2>3, <2>4, <2>5
<1>11. ASSUME NEW y \in S \ {a}
       PROVE  \E x \in T : F[x] = y
  <2>1. PICK f \in Filters : \E k \in DOMAIN inq[f] :
          y = <<f, k>> /\ HostOf[f] = r /\ inq[f][k][3] = "runtime"
    BY <1>6, EntriesAt
  <2>2. PICK k \in DOMAIN inq[f] : y = <<f, k>> /\ HostOf[f] = r /\ inq[f][k][3] = "runtime"
    BY <2>1
  <2>3. CASE f = g
    <3>1. k # 1 /\ k \in Nat
      BY <1>2, <1>5, <1>6, <2>2, <2>3
    <3>2. k \in DOMAIN q
      BY <1>2, <2>2, <2>3
    <3>3. k - 1 \in DOMAIN q2 /\ q2[k - 1] = q[k]
      BY <1>5, <3>1, <3>2
    <3>4. k - 1 \in DOMAIN inq'[g] /\ inq'[g][k - 1] = inq[g][k]
      BY <1>2, <1>4, <3>3
    <3>5. <<g, k - 1>> \in T
      BY <1>7, <2>2, <2>3, <3>4, EntriesAt
    <3>11. PICK l : l = k - 1
      OBVIOUS
    <3>12. PICK z : z = <<g, l>>
      OBVIOUS
    <3>6. z = <<g, k - 1>> /\ z[1] = g /\ z[2] = k - 1
      BY <3>11, <3>12
    <3>7. (k - 1) + 1 = k
      BY <3>1
    <3>8. F[z] = <<g, z[2] + 1>> /\ z \in T
      BY <1>9, <3>5, <3>6
    <3>9. F[z] = y
      BY <2>2, <2>3, <3>6, <3>7, <3>8
    <3>10. QED
      BY <3>8, <3>9
  <2>4. CASE f # g
    <3>1. inq'[f] = inq[f]
      BY <1>4, <2>4
    <3>2. y \in T /\ y[1] # g
      BY <1>7, <2>2, <2>4, <3>1, EntriesAt
    <3>3. QED
      BY <1>9, <3>2
  <2>5. QED
    BY <2>3, <2>4
<1>12. F \in [T -> S \ {a}]
  BY <1>8, <1>9
<1>13. a \in S <=> HostOf[g] = r /\ e[3] = "runtime"
  <2>1. \A f \in Filters : \A k \in DOMAIN inq[f] : a = <<f, k>> => f = g /\ k = 1
    BY <1>6
  <2>2. QED
    BY <1>2, <1>5, <1>6, <2>1, EntriesAt
<1>14. /\ IsFiniteSet(T) /\ Cardinality(S) \in Nat
       /\ Cardinality(T) = IF a \in S THEN Cardinality(S) - 1 ELSE Cardinality(S)
  <2>1. IsFiniteSet(S)
    BY <1>6
  <2>2. \A x, y \in T : F[x] = F[y] => x = y
    BY <1>10
  <2>3. \A y \in S \ {a} : \E x \in T : F[x] = y
    BY <1>11
  <2>4. QED
    BY <1>12, <2>1, <2>2, <2>3, Renamed
<1>15. QED
  BY <1>6, <1>7, <1>13, <1>14

IsBuf(p) == p # NoPacket /\ p.type = "DCBUF"

\* What a rank is charged and what it holds change by as much.
LEMMA MemoryAt ==
  ASSUME Types, MemoryInv, NEW r \in Ranks,
         NEW u \in Int, NEW e \in Int, NEW g \in Int, NEW b \in Int, NEW h \in Int,
         rtUsage'[r] = rtUsage[r] + u, u <= 0 \/ (u = 1 /\ HasRoom(r)),
         Cardinality(Entries(r)') = Cardinality(Entries(r)) + e,
         ReadingOne(r)' = ReadingOne(r) + g,
         Cardinality(FromConsoleBufs') = Cardinality(FromConsoleBufs) + b,
         HandOne' = HandOne + h,
         u = e + g + (IF r = 0 THEN b + h ELSE 0)
  PROVE  rtUsage'[r] = Cardinality(Entries(r)') + Held(r)' /\ rtUsage'[r] <= RuntimeMem
<1>1. PICK k \in Nat : k = Cardinality(Entries(r))
  BY FS_CardinalityType DEF MemoryInv
<1>2. PICK n \in Nat : n = Cardinality(FromConsoleBufs)
  BY FS_CardinalityType DEF MemoryInv
<1>3. PICK x \in {0, 1} : x = ReadingOne(r)
  BY DEF ReadingOne
<1>4. PICK y \in {0, 1} : y = HandOne
  BY DEF HandOne
<1>5. PICK m \in Int : m = rtUsage[r]
  BY DEF Types, TypeOK
<1>6. m = k + (x + (IF r = 0 THEN n + y ELSE 0)) /\ m <= RuntimeMem
  BY <1>1, <1>2, <1>3, <1>4, <1>5 DEF MemoryInv, Held
<1>7. Held(r)' = (x + g) + (IF r = 0 THEN (n + b) + (y + h) ELSE 0)
  BY <1>2, <1>3, <1>4 DEF Held
<1>8. RuntimeMem \in Int /\ (u = 1 => m + 1 <= RuntimeMem)
  BY <1>5, <1>6, JobFacts DEF HasRoom
<1>9. rtUsage'[r] = m + u /\ Cardinality(Entries(r)') = k + e
  BY <1>1, <1>5
<1>10. m + u <= RuntimeMem
  BY <1>6, <1>8
<1>11. m + u = (k + e) + ((x + g) + (IF r = 0 THEN (n + b) + (y + h) ELSE 0))
  <2>1. CASE r = 0
    BY <2>1, <1>6
  <2>2. CASE r # 0
    BY <2>2, <1>6
  <2>3. QED
    BY <2>1, <2>2
<1>12. QED
  BY <1>7, <1>9, <1>10, <1>11

\* Nothing is read from or put into an in-port.
LEMMA SameEntries ==
  ASSUME MemoryInv, UNCHANGED inq, NEW r \in Ranks
  PROVE  /\ IsFiniteSet(Entries(r)')
         /\ Cardinality(Entries(r)') = Cardinality(Entries(r)) + 0
<1>1. Entries(r)' = Entries(r) /\ IsFiniteSet(Entries(r))
  BY DEF Entries, MemoryInv
<1>2. QED
  BY <1>1, FS_CardinalityType

\* The same buffers of the console wait.
LEMMA SameBufs ==
  ASSUME MemoryInv, FromConsoleBufs' = FromConsoleBufs
  PROVE  IsFiniteSet(FromConsoleBufs') /\ Cardinality(FromConsoleBufs') = Cardinality(FromConsoleBufs) + 0
BY FS_CardinalityType DEF MemoryInv

\* The main loop of rank 0 holds the same buffer of the console, or none.
LEMMA SameHand ==
  ASSUME \/ sending'["main"][0] = sending["main"][0]
         \/ ~IsBuf(sending'["main"][0]) /\ ~IsBuf(sending["main"][0])
  PROVE  HandOne' = HandOne + 0
BY DEF HandOne, IsBuf

\* The same bodies are being read.
LEMMA SameReadingOne ==
  ASSUME NEW r, reading'[r] = reading[r]
  PROVE  ReadingOne(r)' = ReadingOne(r) + 0
BY DEF ReadingOne

\* A step that neither charges nor moves a buffer that is paid for.
LEMMA QuietMemory ==
  ASSUME Types, MemoryInv, UNCHANGED <<inq, rtUsage, reading>>,
         FromConsoleBufs' = FromConsoleBufs, HandOne' = HandOne + 0
  PROVE  MemoryInv'
<1>1. ASSUME NEW r \in Ranks
      PROVE  /\ IsFiniteSet(Entries(r)') /\ rtUsage'[r] = Cardinality(Entries(r)') + Held(r)'
             /\ rtUsage'[r] <= RuntimeMem
  <2>1. IsFiniteSet(Entries(r)') /\ Cardinality(Entries(r)') = Cardinality(Entries(r)) + 0
    BY SameEntries
  <2>2. Cardinality(FromConsoleBufs') = Cardinality(FromConsoleBufs) + 0
    BY SameBufs
  <2>3. ReadingOne(r)' = ReadingOne(r) + 0
    BY SameReadingOne
  <2>4. rtUsage'[r] = rtUsage[r] + 0
    BY DEF Types, TypeOK
  <2>5. 0 = 0 + 0 + (IF r = 0 THEN 0 + 0 ELSE 0) /\ 0 \in Int /\ 0 <= 0
    OBVIOUS
  <2>6. QED
    BY <2>1, <2>2, <2>3, <2>4, <2>5, MemoryAt
<1>2. QED
  BY <1>1, SameBufs DEF MemoryInv

\* Every action keeps the accounts.
LEMMA FilterWriteMemory ==
  ASSUME Types, MemoryInv, NEW s \in Streams, FilterWrite(s[1], s[2])
  PROVE  MemoryInv'
<1>1. PICK w \in Filters, g \in Filters : w = s[1] /\ g = s[2] /\ s = <<w, g>>
  BY JobFacts
<1>2. PICK n : n = wrote[<<w, g>>] + 1
  OBVIOUS
<1>3. UNCHANGED <<sending, reading>> /\ HandOne' = HandOne + 0
  <2>1. UNCHANGED <<sending, reading>>
    BY <1>1 DEF FilterWrite, wireVars
  <2>2. QED
    BY <2>1, SameHand
<1>4. CASE /\ inq' = [inq EXCEPT ![g] = Append(@, <<w, n, "writer">>)]
           /\ UNCHANGED <<outq, fromConsole, rtUsage>>
  <2>1. ASSUME NEW r \in Ranks
        PROVE  /\ IsFiniteSet(Entries(r)') /\ rtUsage'[r] = Cardinality(Entries(r)') + Held(r)'
               /\ rtUsage'[r] <= RuntimeMem
    <3>1. PICK e : e = <<w, n, "writer">>
      OBVIOUS
    <3>2. e[3] # "runtime" /\ inq' = [inq EXCEPT ![g] = Append(@, e)]
      BY <1>4, <3>1
    <3>3. IsFiniteSet(Entries(r)') /\ Cardinality(Entries(r)') = Cardinality(Entries(r)) + 0
      <4>1. IsFiniteSet(Entries(r))
        BY DEF MemoryInv
      <4>2. IsFiniteSet(Entries(r)') /\ Cardinality(Entries(r)) \in Nat
            /\ Cardinality(Entries(r)') = Cardinality(Entries(r))
        BY <3>2, <4>1, EntriesMore
      <4>3. QED
        BY <4>2
    <3>4. FromConsoleBufs' = FromConsoleBufs
      BY <1>4 DEF FromConsoleBufs
    <3>5. Cardinality(FromConsoleBufs') = Cardinality(FromConsoleBufs) + 0
      BY <3>4, SameBufs
    <3>6. ReadingOne(r)' = ReadingOne(r) + 0
      BY <1>3, SameReadingOne
    <3>7. rtUsage'[r] = rtUsage[r] + 0
      BY <1>4 DEF Types, TypeOK
    <3>8. 0 = 0 + 0 + (IF r = 0 THEN 0 + 0 ELSE 0) /\ 0 \in Int /\ 0 <= 0
      OBVIOUS
    <3>9. QED
      BY <1>3, <3>3, <3>5, <3>6, <3>7, <3>8, MemoryAt
  <2>2. FromConsoleBufs' = FromConsoleBufs
    BY <1>4 DEF FromConsoleBufs
  <2>3. QED
    BY <2>1, <2>2, SameBufs DEF MemoryInv
<1>5. CASE UNCHANGED <<inq, fromConsole, rtUsage>>
  <2>1. FromConsoleBufs' = FromConsoleBufs
    BY <1>5 DEF FromConsoleBufs
  <2>2. QED
    BY <1>3, <1>5, <2>1, QuietMemory
<1>6. CASE /\ HasRoom(0) /\ rtUsage' = [rtUsage EXCEPT ![0] = @ + 1]
           /\ fromConsole' = Append(fromConsole, DcBuf(w, g, n)) /\ UNCHANGED <<inq, outq>>
  <2>1. DcBuf(w, g, n).type = "DCBUF"
    BY PacketFacts
  <2>2. IsFiniteSet(FromConsoleBufs') /\ Cardinality(FromConsoleBufs') = Cardinality(FromConsoleBufs) + 1
    BY <1>6, <2>1, BufsMore DEF MemoryInv
  <2>3. ASSUME NEW r \in Ranks
        PROVE  /\ IsFiniteSet(Entries(r)') /\ rtUsage'[r] = Cardinality(Entries(r)') + Held(r)'
               /\ rtUsage'[r] <= RuntimeMem
    <3>1. IsFiniteSet(Entries(r)') /\ Cardinality(Entries(r)') = Cardinality(Entries(r)) + 0
      BY <1>6, SameEntries
    <3>2. ReadingOne(r)' = ReadingOne(r) + 0
      BY <1>3, SameReadingOne
    <3>3. PICK u \in Int : u = IF r = 0 THEN 1 ELSE 0
      OBVIOUS
    <3>4. rtUsage'[r] = rtUsage[r] + u
      BY <1>6, <3>3 DEF Types, TypeOK
    <3>5. /\ u <= 0 \/ (u = 1 /\ HasRoom(r))
          /\ u = 0 + 0 + (IF r = 0 THEN 1 + 0 ELSE 0) /\ 0 \in Int /\ 1 \in Int
      BY <1>6, <3>3
    <3>6. QED
      BY <1>3, <2>2, <3>1, <3>2, <3>4, <3>5, MemoryAt
  <2>4. QED
    BY <2>2, <2>3 DEF MemoryInv
<1>7. QED
  BY <1>1, <1>2, <1>4, <1>5, <1>6 DEF FilterWrite, CanPay

LEMMA FilterCloseMemory ==
  ASSUME Types, MemoryInv, NEW s \in Streams, FilterClose(s[1], s[2])
  PROVE  MemoryInv'
<1>1. PICK w, g : w = s[1] /\ g = s[2]
  OBVIOUS
<1>2. /\ UNCHANGED <<inq, sending, reading, rtUsage>>
      /\ fromConsole' = fromConsole \/ fromConsole' = Append(fromConsole, RemovePutter(w, g))
  BY <1>1 DEF FilterClose, wireVars
<1>3. HandOne' = HandOne + 0
  BY <1>2, SameHand
<1>4. FromConsoleBufs' = FromConsoleBufs
  <2>1. CASE fromConsole' = fromConsole
    BY <2>1 DEF FromConsoleBufs
  <2>2. CASE fromConsole' = Append(fromConsole, RemovePutter(w, g))
    <3>1. PICK p : p = RemovePutter(w, g) /\ p.type # "DCBUF"
      BY PacketFacts
    <3>2. fromConsole \in Seq(Packet) /\ fromConsole' = Append(fromConsole, p)
      BY <2>2, <3>1 DEF Types, TypeOK
    <3>3. /\ \A i \in DOMAIN fromConsole : i \in DOMAIN fromConsole' /\ fromConsole'[i] = fromConsole[i]
          /\ fromConsole'[Len(fromConsole) + 1] = p
          /\ \A i \in DOMAIN fromConsole' : i \in DOMAIN fromConsole \/ i = Len(fromConsole) + 1
      BY <3>2, AppendAt
    <3>4. QED
      BY <3>1, <3>3 DEF FromConsoleBufs
  <2>3. QED
    BY <1>2, <2>1, <2>2
<1>5. QED
  BY <1>2, <1>3, <1>4, QuietMemory

LEMMA FilterReadMemory ==
  ASSUME Types, MemoryInv, NEW g \in Filters, FilterRead(g)
  PROVE  MemoryInv'
<1>1. PICK e : e = Head(inq[g])
  OBVIOUS
<1>2. /\ inq[g] # <<>> /\ inq' = [inq EXCEPT ![g] = Tail(@)]
      /\ rtUsage' = IF e[3] = "runtime" THEN [rtUsage EXCEPT ![HostOf[g]] = @ - 1] ELSE rtUsage
      /\ UNCHANGED <<sending, reading, fromConsole>>
  BY <1>1 DEF FilterRead, wireVars, consoleVars
<1>3. HandOne' = HandOne + 0
  BY <1>2, SameHand
<1>4. FromConsoleBufs' = FromConsoleBufs
  BY <1>2 DEF FromConsoleBufs
<1>5. IsFiniteSet(FromConsoleBufs') /\ Cardinality(FromConsoleBufs') = Cardinality(FromConsoleBufs) + 0
  BY <1>4, SameBufs
<1>6. ASSUME NEW r \in Ranks
      PROVE  /\ IsFiniteSet(Entries(r)') /\ rtUsage'[r] = Cardinality(Entries(r)') + Held(r)'
             /\ rtUsage'[r] <= RuntimeMem
  <2>1. PICK u \in Int : u = IF HostOf[g] = r /\ e[3] = "runtime" THEN -1 ELSE 0
    OBVIOUS
  <2>2. /\ IsFiniteSet(Entries(r)') /\ Cardinality(Entries(r)) \in Nat
        /\ Cardinality(Entries(r)') =
             IF HostOf[g] = r /\ e[3] = "runtime" THEN Cardinality(Entries(r)) - 1 ELSE Cardinality(Entries(r))
    BY <1>1, <1>2, EntriesLess DEF MemoryInv
  <2>3. Cardinality(Entries(r)') = Cardinality(Entries(r)) + u
    BY <2>1, <2>2
  <2>4. ReadingOne(r)' = ReadingOne(r) + 0
    BY <1>2, SameReadingOne
  <2>5. rtUsage'[r] = rtUsage[r] + u
    <3>1. rtUsage \in [Ranks -> Int]
      BY DEF Types, TypeOK
    <3>2. CASE e[3] = "runtime" /\ HostOf[g] = r
      <4>1. rtUsage' = [rtUsage EXCEPT ![r] = @ - 1] /\ u = -1
        BY <1>2, <2>1, <3>2
      <4>2. QED
        BY <3>1, <4>1
    <3>3. CASE ~(e[3] = "runtime" /\ HostOf[g] = r)
      <4>1. rtUsage'[r] = rtUsage[r] /\ u = 0
        BY <1>2, <2>1, <3>1, <3>3
      <4>2. QED
        BY <3>1, <4>1
    <3>4. QED
      BY <3>2, <3>3
  <2>6. u <= 0 /\ u = u + 0 + (IF r = 0 THEN 0 + 0 ELSE 0) /\ 0 \in Int
    BY <2>1
  <2>7. QED
    BY <1>3, <1>5, <2>2, <2>3, <2>4, <2>5, <2>6, MemoryAt
<1>7. QED
  BY <1>5, <1>6 DEF MemoryInv

\* What the main loop of rank 0 writes after a thread has begun or ended.
LEMMA MainSends ==
  ASSUME Types, NEW t \in SenderThreads, NEW r \in Ranks, NEW p, sending' = [sending EXCEPT ![t][r] = p]
  PROVE  sending'["main"][0] = IF t = "main" /\ r = 0 THEN p ELSE sending["main"][0]
<1>1. sending \in [SenderThreads -> [Ranks -> NodePacket]] /\ "main" \in SenderThreads /\ 0 \in Ranks
  BY JobFacts DEF Types, TypeOK, SenderThreads
<1>2. QED
  BY <1>1

\* What deliver_in does to the entries of the in-ports.
LEMMA DeliverMemory ==
  ASSUME Types, MemoryInv, NEW r \in Ranks, NEW p, Genuine(p), p.to = r, DeliverIn(r, p), NEW n \in Ranks
  PROVE  /\ IsFiniteSet(Entries(n)')
         /\ Cardinality(Entries(n)') = Cardinality(Entries(n)) + (IF p.type = "DCBUF" /\ n = r THEN 1 ELSE 0)
<1>1. CASE p.type = "DCBUF"
  <2>1. p.reader \in Filters /\ HostOf[p.reader] = r
    BY <1>1, GenuineFacts
  <2>2. PICK e : e = <<p.writer, p.seq, "runtime">>
    OBVIOUS
  <2>3. e[3] = "runtime" /\ inq' = [inq EXCEPT ![p.reader] = Append(@, e)]
    BY <1>1, <2>2 DEF DeliverIn
  <2>4. IsFiniteSet(Entries(n))
    BY DEF MemoryInv
  <2>5. PICK g \in Filters : g = p.reader
    BY <2>1
  <2>6. inq' = [inq EXCEPT ![g] = Append(@, e)] /\ HostOf[g] = r
    BY <2>1, <2>3, <2>5
  <2>7. /\ IsFiniteSet(Entries(n)') /\ Cardinality(Entries(n)) \in Nat
        /\ Cardinality(Entries(n)') =
             IF HostOf[g] = n /\ e[3] = "runtime" THEN Cardinality(Entries(n)) + 1 ELSE Cardinality(Entries(n))
    BY <2>4, <2>6, EntriesMore
  <2>8. HostOf[g] = n /\ e[3] = "runtime" <=> p.type = "DCBUF" /\ n = r
    BY <1>1, <2>3, <2>6
  <2>9. QED
    BY <2>7, <2>8
<1>2. CASE p.type # "DCBUF"
  <2>1. UNCHANGED inq
    BY <1>2 DEF DeliverIn
  <2>2. QED
    BY <1>2, <2>1, SameEntries
<1>3. QED
  BY <1>1, <1>2

\* What the console process sends when its filter has returned has no buffer.
LEMMA FinishAdds ==
  ASSUME ConsoleFinish
  PROVE  \E ps \in Seq(Packet) : /\ fromConsole' = fromConsole \o ps
                                 /\ \A k \in 1 .. Len(ps) : ps[k].type # "DCBUF"
<1>1. PICK ps : ps = IF ConsolePresent THEN [i \in 1 .. NumRanks |-> AllDone(Console, i - 1)] ELSE <<>>
  OBVIOUS
<1>2. fromConsole' = fromConsole \o ps
  BY <1>1 DEF ConsoleFinish
<1>3. ps \in Seq(Packet) /\ \A k \in 1 .. Len(ps) : ps[k].type # "DCBUF"
  <2>1. CASE ConsolePresent
    <3>1. \A i \in 1 .. NumRanks : i - 1 \in Ranks /\ Console \in Nodes
      BY <2>1, JobFacts DEF Ranks, Nodes
    <3>2. \A i \in 1 .. NumRanks : AllDone(Console, i - 1) \in Packet
      BY <3>1, JobFacts, PacketFacts
    <3>3. ps = [i \in 1 .. NumRanks |-> AllDone(Console, i - 1)]
      BY <1>1, <2>1
    <3>4. PICK l \in Nat : l = NumRanks
      BY JobFacts
    <3>5. ps \in [1 .. l -> Packet]
      BY <3>2, <3>3, <3>4
    <3>6. ps \in Seq(Packet) /\ Len(ps) = l
      BY <3>5
    <3>7. \A k \in 1 .. l : ps[k] = AllDone(Console, k - 1)
      BY <3>3, <3>4
    <3>8. QED
      BY <3>6, <3>7, PacketFacts
  <2>2. CASE ~ConsolePresent
    BY <1>1, <2>2
  <2>3. QED
    BY <2>1, <2>2
<1>4. QED
  BY <1>2, <1>3

LEMMA ConsoleFinishMemory ==
  ASSUME Types, MemoryInv, ConsoleFinish
  PROVE  MemoryInv'
<1>1. PICK ps \in Seq(Packet) : /\ fromConsole' = fromConsole \o ps
                                /\ \A k \in 1 .. Len(ps) : ps[k].type # "DCBUF"
  BY FinishAdds
<1>2. UNCHANGED <<inq, sending, reading, rtUsage>>
  BY DEF ConsoleFinish, portVars, wireVars
<1>3. FromConsoleBufs' = FromConsoleBufs
  BY <1>1, BufsSame DEF MemoryInv
<1>4. HandOne' = HandOne + 0
  BY <1>2, SameHand
<1>5. QED
  BY <1>2, <1>3, <1>4, QuietMemory

LEMMA WriteHeaderMemory ==
  ASSUME Types, MemoryInv, NEW t \in SenderThreads, NEW r \in Ranks, WriteHeader(t, r)
  PROVE  MemoryInv'
<1>1. UNCHANGED <<inq, reading, rtUsage, fromConsole>>
  BY DEF WriteHeader, portVars, consoleVars
<1>2. \/ sending' = sending
      \/ sending[t][r].type # "DCBUF" /\ sending' = [sending EXCEPT ![t][r] = NoPacket]
  BY DEF WriteHeader
<1>3. HandOne' = HandOne + 0
  <2>1. CASE sending' = sending
    BY <2>1, SameHand
  <2>2. CASE sending[t][r].type # "DCBUF" /\ sending' = [sending EXCEPT ![t][r] = NoPacket]
    <3>1. sending'["main"][0] = IF t = "main" /\ r = 0 THEN NoPacket ELSE sending["main"][0]
      BY <2>2, MainSends
    <3>2. QED
      BY <2>2, <3>1, SameHand DEF IsBuf
  <2>3. QED
    BY <1>2, <2>1, <2>2
<1>4. FromConsoleBufs' = FromConsoleBufs
  BY <1>1 DEF FromConsoleBufs
<1>5. QED
  BY <1>1, <1>3, <1>4, QuietMemory

LEMMA WriteBodyMemory ==
  ASSUME PacketInv, MemoryInv, NEW t \in SenderThreads, NEW r \in Ranks, WriteBody(t, r)
  PROVE  MemoryInv'
<1>1. PICK p : p = sending[t][r]
  OBVIOUS
<1>2. /\ p # NoPacket /\ stage[t][r] = "body" /\ sending' = [sending EXCEPT ![t][r] = NoPacket]
      /\ rtUsage' = IF p.from = Console THEN [rtUsage EXCEPT ![r] = @ - 1] ELSE rtUsage
      /\ UNCHANGED <<inq, reading, fromConsole>>
  BY <1>1 DEF WriteBody, portVars, consoleVars
<1>3. Types
  BY DEF PacketInv
<1>4. Thread(p) = t /\ InRank(p) = r /\ p.type = "DCBUF"
  BY <1>1, <1>2 DEF PacketInv, PlaceInv, HandInv
<1>5. sending'["main"][0] = IF t = "main" /\ r = 0 THEN NoPacket ELSE sending["main"][0]
  BY <1>2, <1>3, MainSends
<1>6. FromConsoleBufs' = FromConsoleBufs
  BY <1>2 DEF FromConsoleBufs
<1>7. CASE p.from # Console
  <2>1. t # "main"
    BY <1>4, <1>7 DEF Thread
  <2>2. HandOne' = HandOne + 0
    BY <1>5, <2>1, SameHand
  <2>3. QED
    BY <1>2, <1>3, <1>6, <1>7, <2>2, QuietMemory
<1>8. CASE p.from = Console
  <2>1. t = "main" /\ r = 0
    BY <1>4, <1>8 DEF Thread, InRank
  <2>2. HandOne = 1 /\ HandOne' = 0
    BY <1>1, <1>2, <1>4, <1>5, <2>1 DEF HandOne
  <2>3. PICK m \in Int : m = -1
    OBVIOUS
  <2>4. HandOne' = HandOne + m
    BY <2>2, <2>3
  <2>5. IsFiniteSet(FromConsoleBufs') /\ Cardinality(FromConsoleBufs') = Cardinality(FromConsoleBufs) + 0
    BY <1>6, SameBufs
  <2>6. ASSUME NEW n \in Ranks
        PROVE  /\ IsFiniteSet(Entries(n)') /\ rtUsage'[n] = Cardinality(Entries(n)') + Held(n)'
               /\ rtUsage'[n] <= RuntimeMem
    <3>1. IsFiniteSet(Entries(n)') /\ Cardinality(Entries(n)') = Cardinality(Entries(n)) + 0
      BY <1>2, SameEntries
    <3>2. ReadingOne(n)' = ReadingOne(n) + 0
      BY <1>2, SameReadingOne
    <3>3. PICK u \in Int : u = IF n = 0 THEN -1 ELSE 0
      OBVIOUS
    <3>4. rtUsage \in [Ranks -> Int] /\ rtUsage' = [rtUsage EXCEPT ![0] = @ - 1]
      BY <1>2, <1>3, <1>8, <2>1 DEF Types, TypeOK
    <3>5. rtUsage'[n] = rtUsage[n] + u
      BY <3>3, <3>4
    <3>6. u <= 0 /\ u = 0 + 0 + (IF n = 0 THEN 0 + m ELSE 0) /\ 0 \in Int
      BY <2>3, <3>3
    <3>7. QED
      BY <1>3, <2>4, <2>5, <3>1, <3>2, <3>5, <3>6, MemoryAt
  <2>7. QED
    BY <2>5, <2>6 DEF MemoryInv
<1>9. QED
  BY <1>7, <1>8

LEMMA TakeOutMemory ==
  ASSUME Types, MemoryInv, NEW r \in Ranks, TakeOut(r)
  PROVE  MemoryInv'
<1>1. UNCHANGED <<inq, reading, rtUsage, fromConsole>> /\ StartDelivery("outq", r, Head(outq[r]))
  BY DEF TakeOut, portVars, consoleVars
<1>2. sending' = sending \/ sending' = [sending EXCEPT !["outq"][r] = Head(outq[r])]
  BY <1>1 DEF StartDelivery
<1>3. sending'["main"][0] = sending["main"][0]
  BY <1>2, MainSends DEF SenderThreads
<1>4. FromConsoleBufs' = FromConsoleBufs
  BY <1>1 DEF FromConsoleBufs
<1>5. QED
  BY <1>1, <1>3, <1>4, SameHand, QuietMemory

LEMMA AnnounceMemory ==
  ASSUME Types, MemoryInv, NEW r \in Ranks, Announce(r) \/ AnnounceNext(r) \/ Exit(r)
  PROVE  MemoryInv'
<1>1. UNCHANGED <<inq, reading, rtUsage, fromConsole>>
  BY DEF Announce, AnnounceNext, Exit, portVars, consoleVars
<1>2. FromConsoleBufs' = FromConsoleBufs
  BY <1>1 DEF FromConsoleBufs
<1>3. HandOne' = HandOne + 0
  <2>1. CASE Announce(r) \/ Exit(r)
    BY <2>1, SameHand DEF Announce, Exit, wireVars
  <2>2. CASE AnnounceNext(r)
    <3>1. PICK p : p = AllDone(r, announced[r]) /\ p.type = "ALL_MY_FILTERS_DONE"
      BY PacketFacts
    <3>2. sending["main"][r] = NoPacket /\ StartDelivery("main", r, p)
      BY <2>2, <3>1 DEF AnnounceNext, Free
    <3>3. sending' = sending \/ sending' = [sending EXCEPT !["main"][r] = p]
      BY <3>2 DEF StartDelivery
    <3>4. \/ sending'["main"][0] = sending["main"][0]
          \/ r = 0 /\ sending'["main"][0] = p
      BY <3>3, MainSends DEF SenderThreads
    <3>5. QED
      BY <3>1, <3>2, <3>4, SameHand DEF IsBuf
  <2>3. QED
    BY <2>1, <2>2
<1>4. QED
  BY <1>1, <1>2, <1>3, QuietMemory

LEMMA MisreadMemory ==
  ASSUME Types, MemoryInv, NEW r \in Ranks, Misread(r), UNCHANGED consoleVars
  PROVE  MemoryInv'
<1>1. UNCHANGED <<inq, reading, rtUsage, fromConsole, sending>>
  BY DEF Misread, portVars, consoleVars, wireVars
<1>2. FromConsoleBufs' = FromConsoleBufs
  BY <1>1 DEF FromConsoleBufs
<1>3. QED
  BY <1>1, <1>2, SameHand, QuietMemory

\* A body that is being read is charged already: it becomes an entry.
LEMMA ReadBodyMemory ==
  ASSUME PacketInv, MemoryInv, NEW r \in Ranks, ReadBody(r)
  PROVE  MemoryInv'
<1>1. PICK i \in Ranks : i = reading[r]
  BY DEF PacketInv, Types, TypeOK
<1>2. PICK p : p = heads[r][i]
  OBVIOUS
<1>3. /\ i # r /\ UNCHANGED consoleVars
      /\ \/ Misread(r)
         \/ DeliverIn(r, p) /\ reading' = [reading EXCEPT ![r] = r] /\ UNCHANGED <<sending, rtUsage>>
  BY <1>1, <1>2, ReadBodyDelivers DEF ReadBody, PacketInv
<1>4. Types
  BY DEF PacketInv
<1>5. CASE Misread(r)
  BY <1>3, <1>4, <1>5, MisreadMemory
<1>6. CASE DeliverIn(r, p) /\ reading' = [reading EXCEPT ![r] = r] /\ UNCHANGED <<sending, rtUsage>>
  <2>1. Genuine(p) /\ p.type = "DCBUF" /\ OutRank(p) = r
    BY <1>1, <1>2, <1>3 DEF PacketInv, PlaceInv, ReadingInv, HeadsInv
  <2>2. p.to = r
    BY <2>1, GenuineFacts, JobFacts DEF OutRank
  <2>3. FromConsoleBufs' = FromConsoleBufs
    BY <1>3 DEF FromConsoleBufs, consoleVars
  <2>4. IsFiniteSet(FromConsoleBufs') /\ Cardinality(FromConsoleBufs') = Cardinality(FromConsoleBufs) + 0
    BY <2>3, SameBufs
  <2>5. HandOne' = HandOne + 0
    BY <1>6, SameHand
  <2>6. ASSUME NEW n \in Ranks
        PROVE  /\ IsFiniteSet(Entries(n)') /\ rtUsage'[n] = Cardinality(Entries(n)') + Held(n)'
               /\ rtUsage'[n] <= RuntimeMem
    <3>1. PICK e \in Int : e = IF n = r THEN 1 ELSE 0
      OBVIOUS
    <3>2. PICK g \in Int : g = IF n = r THEN -1 ELSE 0
      OBVIOUS
    <3>3. /\ IsFiniteSet(Entries(n)')
          /\ Cardinality(Entries(n)') = Cardinality(Entries(n)) + (IF p.type = "DCBUF" /\ n = r THEN 1 ELSE 0)
      BY <1>4, <1>6, <2>1, <2>2, DeliverMemory
    <3>4. Cardinality(Entries(n)') = Cardinality(Entries(n)) + e
      BY <2>1, <3>1, <3>3
    <3>5. reading'[n] = IF n = r THEN r ELSE reading[n]
      BY <1>4, <1>6 DEF Types, TypeOK
    <3>6. ReadingOne(n)' = ReadingOne(n) + g
      <4>1. CASE n = r
        BY <1>1, <1>3, <3>2, <3>5, <4>1 DEF ReadingOne
      <4>2. CASE n # r
        BY <3>2, <3>5, <4>2 DEF ReadingOne
      <4>3. QED
        BY <4>1, <4>2
    <3>7. rtUsage'[n] = rtUsage[n] + 0
      BY <1>4, <1>6 DEF Types, TypeOK
    <3>8. 0 <= 0 /\ 0 = e + g + (IF n = 0 THEN 0 + 0 ELSE 0) /\ 0 \in Int
      BY <3>1, <3>2
    <3>9. QED
      BY <1>4, <2>4, <2>5, <3>3, <3>4, <3>6, <3>7, <3>8, MemoryAt
  <2>7. QED
    BY <2>4, <2>6 DEF MemoryInv
<1>7. QED
  BY <1>3, <1>5, <1>6

\* Rank r begins to read the body of a buffer, and is charged for it.
LEMMA BeginMemory ==
  ASSUME Types, MemoryInv, NEW i \in Ranks, NEW r \in Ranks, i # r, reading[r] = r, HasRoom(r),
         rtUsage' = [rtUsage EXCEPT ![r] = @ + 1], reading' = [reading EXCEPT ![r] = i],
         UNCHANGED <<inq, fromConsole, sending>>
  PROVE  MemoryInv'
<1>1. FromConsoleBufs' = FromConsoleBufs
  BY DEF FromConsoleBufs
<1>2. IsFiniteSet(FromConsoleBufs') /\ Cardinality(FromConsoleBufs') = Cardinality(FromConsoleBufs) + 0
  BY <1>1, SameBufs
<1>3. HandOne' = HandOne + 0
  BY SameHand
<1>4. ASSUME NEW n \in Ranks
      PROVE  /\ IsFiniteSet(Entries(n)') /\ rtUsage'[n] = Cardinality(Entries(n)') + Held(n)'
             /\ rtUsage'[n] <= RuntimeMem
  <2>1. PICK u \in Int : u = IF n = r THEN 1 ELSE 0
    OBVIOUS
  <2>2. IsFiniteSet(Entries(n)') /\ Cardinality(Entries(n)') = Cardinality(Entries(n)) + 0
    BY SameEntries
  <2>3. reading'[n] = IF n = r THEN i ELSE reading[n]
    BY DEF Types, TypeOK
  <2>4. ReadingOne(n)' = ReadingOne(n) + u
    <3>1. CASE n = r
      BY <2>1, <2>3, <3>1 DEF ReadingOne
    <3>2. CASE n # r
      BY <2>1, <2>3, <3>2 DEF ReadingOne
    <3>3. QED
      BY <3>1, <3>2
  <2>5. rtUsage \in [Ranks -> Int]
    BY DEF Types, TypeOK
  <2>6. rtUsage'[n] = rtUsage[n] + u
    BY <2>1, <2>5
  <2>7. /\ u <= 0 \/ (u = 1 /\ HasRoom(n))
        /\ u = 0 + u + (IF n = 0 THEN 0 + 0 ELSE 0) /\ 0 \in Int
    BY <2>1
  <2>8. QED
    BY <1>2, <1>3, <2>2, <2>4, <2>6, <2>7, MemoryAt
<1>5. QED
  BY <1>2, <1>4 DEF MemoryInv

LEMMA ReadDeferredMemory ==
  ASSUME PacketInv, MemoryInv, NEW i \in Ranks, NEW r \in Ranks, ReadDeferred(i, r)
  PROVE  MemoryInv'
<1>1. /\ heads[r][i] # NoPacket /\ reading[r] = r /\ HasRoom(r)
      /\ rtUsage' = [rtUsage EXCEPT ![r] = @ + 1] /\ reading' = [reading EXCEPT ![r] = i]
      /\ UNCHANGED <<inq, fromConsole, sending>>
  BY DEF ReadDeferred, InLoop, Free, portVars, consoleVars, wireVars
<1>2. Types /\ i # r
  BY <1>1 DEF PacketInv, PlaceInv, HeadsInv
<1>3. QED
  BY <1>1, <1>2, BeginMemory

LEMMA ReadHeaderMemory ==
  ASSUME PacketInv, MemoryInv, NEW i \in Ranks, NEW r \in Ranks, ReadHeader(i, r)
  PROVE  MemoryInv'
<1>1. PICK p : p = Head(wire[i][r]).packet
  OBVIOUS
<1>2. /\ wire[i][r] # <<>> /\ InLoop(r) /\ reading[r] = r /\ sending["main"][r] = NoPacket
      /\ UNCHANGED consoleVars /\ UNCHANGED fromConsole
  BY DEF ReadHeader, InLoop, Free, consoleVars
<1>3. Types /\ FromConsoleBufs' = FromConsoleBufs
  BY <1>2 DEF PacketInv, FromConsoleBufs
<1>4. Genuine(p) /\ OutRank(p) = r /\ i # r
  <2>1. PICK q \in Seq(Item) : q = wire[i][r]
    BY PlaceTypes DEF PacketInv
  <2>2. 1 \in 1 .. Len(q) /\ p = q[1].packet
    BY <1>1, <1>2, <2>1
  <2>3. QED
    BY <2>1, <2>2 DEF PacketInv, PlaceInv, LineInv, OfLine
<1>5. CASE Misread(r)
  BY <1>2, <1>3, <1>5, MisreadMemory
<1>6. CASE BeginBody(i, r) /\ UNCHANGED <<portVars, sending>>
  <2>1. CASE UNCHANGED <<rtUsage, reading>>
    BY <1>3, <1>6, <2>1, SameHand, QuietMemory DEF portVars
  <2>2. CASE /\ HasRoom(r) /\ rtUsage' = [rtUsage EXCEPT ![r] = @ + 1]
             /\ reading' = [reading EXCEPT ![r] = i]
    BY <1>2, <1>3, <1>4, <1>6, <2>2, BeginMemory DEF portVars
  <2>3. QED
    BY <1>6, <2>1, <2>2 DEF BeginBody
<1>7. CASE p.type # "DCBUF" /\ Deliver(r, p) /\ UNCHANGED <<reading, rtUsage>>
  <2>1. p.to # r => p.to = Console /\ r = 0
    BY <1>4 DEF OutRank
  <2>2. UNCHANGED <<inq, sending>>
    BY <1>7, <2>1 DEF Deliver, DeliverIn, StartDelivery, portVars
  <2>3. QED
    BY <1>3, <1>7, <2>2, SameHand, QuietMemory
<1>8. QED
  BY <1>1, <1>5, <1>6, <1>7 DEF ReadHeader

\* Rank 0 takes a packet of the console: a buffer of it goes to the in-port or
\* into the hand of the main loop.
LEMMA HandleConsoleMemory ==
  ASSUME PacketInv, MemoryInv, HandleConsole
  PROVE  MemoryInv'
<1>1. PICK r \in Ranks : r = 0
  BY JobFacts
<1>2. PICK p : p = Head(fromConsole)
  OBVIOUS
<1>3. /\ fromConsole # <<>> /\ fromConsole' = Tail(fromConsole) /\ Deliver(r, p)
      /\ sending["main"][r] = NoPacket /\ UNCHANGED <<reading, rtUsage>>
  BY <1>1, <1>2 DEF HandleConsole, InLoop, Free
<1>4. Types
  BY DEF PacketInv
<1>5. Genuine(p) /\ p.from = Console
  <2>1. Source(Console) = fromConsole /\ fromConsole \in Seq(Packet)
    BY <1>4 DEF Source, Types, TypeOK
  <2>2. 1 \in 1 .. Len(Source(Console)) /\ Source(Console)[1] = p
    BY <1>2, <1>3, <2>1
  <2>3. QED
    BY <2>2 DEF PacketInv, PlaceInv, SourceInv
<1>6. p.to \in Ranks
  BY <1>5, GenuineFacts, JobFacts
<1>7. PICK d \in Int : d = IF p.type = "DCBUF" THEN 1 ELSE 0
  OBVIOUS
<1>8. PICK b \in Int : b = 0 - d
  BY <1>7
<1>9. IsFiniteSet(FromConsoleBufs') /\ Cardinality(FromConsoleBufs') = Cardinality(FromConsoleBufs) + b
  <2>1. /\ IsFiniteSet(FromConsoleBufs') /\ Cardinality(FromConsoleBufs) \in Nat
        /\ Cardinality(FromConsoleBufs') =
             IF p.type = "DCBUF" THEN Cardinality(FromConsoleBufs) - 1 ELSE Cardinality(FromConsoleBufs)
    BY <1>2, <1>3, <1>4, BufsLess DEF MemoryInv
  <2>2. QED
    BY <1>7, <1>8, <2>1
<1>10. PICK e \in [Ranks -> Int], h \in Int :
         /\ \A n \in Ranks : /\ IsFiniteSet(Entries(n)')
                             /\ Cardinality(Entries(n)') = Cardinality(Entries(n)) + e[n]
                             /\ n # 0 => e[n] = 0
         /\ HandOne' = HandOne + h /\ e[0] + h = d
  <2>1. CASE p.to = r
    <3>1. DeliverIn(r, p) /\ UNCHANGED sending
      BY <1>3, <2>1 DEF Deliver
    <3>2. PICK e : e = [n \in Ranks |-> IF n = r THEN d ELSE 0]
      OBVIOUS
    <3>3. ASSUME NEW n \in Ranks
          PROVE  /\ IsFiniteSet(Entries(n)')
                 /\ Cardinality(Entries(n)') = Cardinality(Entries(n)) + e[n]
      <4>1. /\ IsFiniteSet(Entries(n)')
            /\ Cardinality(Entries(n)') = Cardinality(Entries(n)) + (IF p.type = "DCBUF" /\ n = r THEN 1 ELSE 0)
        BY <1>4, <1>5, <2>1, <3>1, DeliverMemory
      <4>2. e[n] = IF p.type = "DCBUF" /\ n = r THEN 1 ELSE 0
        BY <1>7, <3>2
      <4>3. QED
        BY <4>1, <4>2
    <3>4. HandOne' = HandOne + 0
      BY <3>1, SameHand
    <3>5. e \in [Ranks -> Int] /\ e[0] + 0 = d /\ 0 \in Int /\ \A n \in Ranks : n # 0 => e[n] = 0
      BY <1>1, <3>2
    <3>6. QED
      BY <3>3, <3>4, <3>5
  <2>2. CASE p.to # r
    <3>1. StartDelivery("main", r, p) /\ UNCHANGED inq
      BY <1>3, <2>2 DEF Deliver, portVars
    <3>2. sending' = [sending EXCEPT !["main"][r] = p]
      BY <1>6, <3>1, JobFacts DEF StartDelivery
    <3>3. sending'["main"][0] = p /\ sending["main"][0] = NoPacket /\ p # NoPacket
      <4>1. "main" \in SenderThreads /\ p # NoPacket
        BY <1>5, GenuineFacts DEF SenderThreads
      <4>2. sending'["main"][0] = p
        BY <1>1, <1>4, <3>2, <4>1, MainSends
      <4>3. QED
        BY <1>1, <1>3, <4>1, <4>2
    <3>4. HandOne' = HandOne + d
      BY <1>7, <3>3 DEF HandOne
    <3>5. PICK e : e = [n \in Ranks |-> 0]
      OBVIOUS
    <3>6. ASSUME NEW n \in Ranks
          PROVE  /\ IsFiniteSet(Entries(n)')
                 /\ Cardinality(Entries(n)') = Cardinality(Entries(n)) + e[n]
      BY <3>1, <3>5, SameEntries
    <3>7. e \in [Ranks -> Int] /\ e[0] + d = d /\ \A n \in Ranks : n # 0 => e[n] = 0
      BY <1>1, <3>5
    <3>8. QED
      BY <3>4, <3>6, <3>7
  <2>3. QED
    BY <2>1, <2>2
<1>11. ASSUME NEW n \in Ranks
       PROVE  /\ IsFiniteSet(Entries(n)') /\ rtUsage'[n] = Cardinality(Entries(n)') + Held(n)'
              /\ rtUsage'[n] <= RuntimeMem
  <2>1. PICK x \in Int : x = e[n]
    BY <1>10
  <2>2. Cardinality(Entries(n)') = Cardinality(Entries(n)) + x
    BY <1>10, <2>1
  <2>3. ReadingOne(n)' = ReadingOne(n) + 0
    BY <1>3, SameReadingOne
  <2>4. rtUsage'[n] = rtUsage[n] + 0
    BY <1>3, <1>4 DEF Types, TypeOK
  <2>5. 0 <= 0 /\ 0 = x + 0 + (IF n = 0 THEN b + h ELSE 0) /\ 0 \in Int
    <3>1. CASE n = 0
      BY <1>7, <1>8, <1>10, <2>1, <3>1
    <3>2. CASE n # 0
      BY <1>10, <2>1, <3>2
    <3>3. QED
      BY <3>1, <3>2
  <2>6. QED
    BY <1>4, <1>9, <1>10, <2>2, <2>3, <2>4, <2>5, MemoryAt
<1>12. QED
  BY <1>9, <1>11 DEF MemoryInv

\* MemoryInv is inductive, given PacketInv.
LEMMA MemoryStep ==
  ASSUME PacketInv, MemoryInv, [Next]_vars
  PROVE  MemoryInv'
<1>1. Types
  BY DEF PacketInv
<1>2. CASE \E s \in Streams : FilterWrite(s[1], s[2]) \/ FilterClose(s[1], s[2])
  BY <1>1, <1>2, FilterWriteMemory, FilterCloseMemory
<1>3. CASE \E f \in Filters : FilterRead(f) \/ FilterReturn(f) \/ FilterErase(f)
  <2>1. PICK f \in Filters : FilterRead(f) \/ FilterReturn(f) \/ FilterErase(f)
    BY <1>3
  <2>2. CASE FilterRead(f)
    BY <1>1, <2>2, FilterReadMemory
  <2>3. CASE FilterReturn(f) \/ FilterErase(f)
    <3>1. UNCHANGED <<inq, rtUsage, reading, fromConsole, sending>>
      BY <2>3 DEF FilterReturn, FilterErase, portVars, consoleVars, wireVars
    <3>2. FromConsoleBufs' = FromConsoleBufs
      BY <3>1 DEF FromConsoleBufs
    <3>3. QED
      BY <1>1, <3>1, <3>2, SameHand, QuietMemory
  <2>4. QED
    BY <2>1, <2>2, <2>3
<1>4. CASE ConsoleFinish
  BY <1>1, <1>4, ConsoleFinishMemory
<1>5. CASE \E r \in Ranks : \E t \in SenderThreads : WriteHeader(t, r) \/ WriteBody(t, r)
  BY <1>1, <1>5, WriteHeaderMemory, WriteBodyMemory
<1>6. CASE \E r \in Ranks : TakeOut(r) \/ Announce(r) \/ AnnounceNext(r) \/ Exit(r) \/ ReadBody(r)
  BY <1>1, <1>6, TakeOutMemory, AnnounceMemory, ReadBodyMemory
<1>7. CASE \E i, r \in Ranks : ReadHeader(i, r) \/ ReadDeferred(i, r)
  BY <1>7, ReadHeaderMemory, ReadDeferredMemory
<1>8. CASE HandleConsole
  BY <1>8, HandleConsoleMemory
<1>9. CASE Stop \/ UNCHANGED vars
  <2>1. UNCHANGED <<inq, rtUsage, reading, fromConsole, sending>>
    BY <1>9 DEF Stop, vars, portVars, consoleVars, wireVars
  <2>2. FromConsoleBufs' = FromConsoleBufs
    BY <2>1 DEF FromConsoleBufs
  <2>3. QED
    BY <1>1, <2>1, <2>2, SameHand, QuietMemory
<1>10. CASE \E s \in Streams : FilterBlock(s[1], s[2])
  <2>1. UNCHANGED <<inq, rtUsage, reading, fromConsole, sending>>
    BY <1>10 DEF FilterBlock, portVars, consoleVars, wireVars
  <2>2. FromConsoleBufs' = FromConsoleBufs
    BY <2>1 DEF FromConsoleBufs
  <2>3. QED
    BY <1>1, <2>1, <2>2, SameHand, QuietMemory
<1>11. QED
  BY <1>2, <1>3, <1>4, <1>5, <1>6, <1>7, <1>8, <1>9, <1>10 DEF Next

LEMMA MemoryInit ==
  ASSUME Init
  PROVE  MemoryInv
<1>1. FromConsoleBufs = {} /\ IsFiniteSet({}) /\ Cardinality({}) = 0
  BY FS_EmptySet DEF Init, FromConsoleBufs
<1>2. ASSUME NEW r \in Ranks
      PROVE  /\ IsFiniteSet(Entries(r)) /\ rtUsage[r] = Cardinality(Entries(r)) + Held(r)
             /\ rtUsage[r] <= RuntimeMem
  <2>1. \A f \in FiltersOn(r) : inq[f] = <<>>
    BY DEF Init, FiltersOn
  <2>2. Entries(r) = {}
    BY <2>1 DEF Entries
  <2>3. ReadingOne(r) = 0
    BY DEF Init, ReadingOne
  <2>4. HandOne = 0
    BY JobFacts DEF Init, HandOne, SenderThreads
  <2>5. rtUsage[r] = 0 /\ 0 <= RuntimeMem
    BY JobFacts DEF Init
  <2>6. QED
    BY <1>1, <2>2, <2>3, <2>4, <2>5 DEF Held
<1>3. QED
  BY <1>1, <1>2 DEF MemoryInv

\* The runtime's memory counter of every rank is what the rank holds, and
\* stays within its threshold.
THEOREM MemoryIsBalanced == Spec => []RuntimeMemoryBalanced
<1>1. Init => MemoryInv
  BY MemoryInit
<1>2. PacketInv /\ MemoryInv /\ [Next]_vars => MemoryInv'
  BY MemoryStep
<1>3. PacketInv /\ MemoryInv => RuntimeMemoryBalanced
  <2>1. SUFFICES ASSUME PacketInv, MemoryInv
                 PROVE  RuntimeMemoryBalanced
    OBVIOUS
  <2>2. ASSUME NEW r \in Ranks
        PROVE  /\ rtUsage[r] = Cardinality(Entries(r)) + ReadingOne(r)
                               + (IF r = 0 THEN Cardinality(FromConsoleBufs) + HandOne ELSE 0)
               /\ rtUsage[r] <= RuntimeMem
    <3>1. PICK k \in Nat : k = Cardinality(Entries(r))
      BY <2>1, FS_CardinalityType DEF MemoryInv
    <3>2. PICK n \in Nat : n = Cardinality(FromConsoleBufs)
      BY <2>1, FS_CardinalityType DEF MemoryInv
    <3>3. PICK x \in {0, 1} : x = ReadingOne(r)
      BY DEF ReadingOne
    <3>4. PICK y \in {0, 1} : y = HandOne
      BY DEF HandOne
    <3>5. rtUsage[r] = k + (x + (IF r = 0 THEN n + y ELSE 0)) /\ rtUsage[r] <= RuntimeMem
      BY <2>1, <3>1, <3>2, <3>3, <3>4 DEF MemoryInv, Held
    <3>6. QED
      BY <3>1, <3>2, <3>3, <3>4, <3>5
  <2>3. TypeOK
    BY <2>1 DEF PacketInv, Types
  <2>4. QED
    BY <2>2, <2>3, Zenon DEF RuntimeMemoryBalanced, Entries, FromConsoleBufs, ReadingOne, HandOne
<1>4. QED
  BY <1>1, <1>2, <1>3, SocketPackets, PTL DEF Spec

-----------------------------------------------------------------------------
(* Whole packets                                                           *)

\* A connection q with the header h that its reader keeps and the packet d
\* that its writer is half-way through: every header of a buffer is followed
\* by its body, here or in the writer's hand, and every body preceded by its
\* header, here or with the reader.
Whole(q, h, d) ==
  /\ \A k \in 1 .. Len(q) : q[k].part = "header" /\ q[k].packet.type = "DCBUF" =>
       IF k < Len(q) THEN q[k + 1] = BodyOf(q[k].packet) ELSE d = q[k].packet
  /\ \A k \in 1 .. Len(q) : q[k].part = "body" =>
       /\ q[k].packet.type = "DCBUF"
       /\ IF k > 1 THEN q[k - 1] = HeaderOf(q[k].packet) ELSE h = q[k].packet
  /\ h # NoPacket => IF q # <<>> THEN q[1] = BodyOf(h) ELSE d = h
  /\ d # NoPacket => IF q # <<>> THEN q[Len(q)] = HeaderOf(d) ELSE h = d

\* The buffer that a thread of rank i is half-way through writing to rank r.
HalfOf(t, i, r) == sending[t][i] # NoPacket /\ stage[t][i] = "body" /\ OutRank(sending[t][i]) = r
Half(i, r) == IF HalfOf("main", i, r) THEN sending["main"][i]
              ELSE IF HalfOf("outq", i, r) THEN sending["outq"][i] ELSE NoPacket
WholeInv == \A i, r \in Ranks : Whole(wire[i][r], heads[r][i], Half(i, r))

\* The main loop and outq_handler have no common connection if rank 0, which
\* routes what comes from the console, writes nothing of its own.
OneWriter == ConsolePresent => \A s \in Streams : HostOf[s[1]] = 0 => HostOf[s[2]] = 0

\* A buffer that is not on a connection yet is followed by the end of its
\* stream in the queue, once that is closed.
TailInv == \A s \in Streams : \A d \in Packet :
  OfStream(d, s) /\ d.type = "DCBUF" /\ (Queued(d) \/ InHand(d)) /\ s[2] \in closed[s[1]]
    => Queued(RemovePutter(s[1], s[2]))

\* While one thread of a rank writes a buffer the other writes nothing.
AloneInv == \A i \in Ranks :
  /\ SentDone(i) => /\ outq[i] = <<>>
                    /\ sending["outq"][i] # NoPacket => sending["outq"][i].type # "DCBUF"
  /\ sending["main"][i] # NoPacket => SentDone(i) \/ sending["main"][i].from = Console
  /\ ConsolePresent => outq[0] = <<>> /\ sending["outq"][0] = NoPacket

\* A header joins a connection on which no buffer is half-way, or the body of
\* the buffer that is.
LEMMA AddHeader ==
  ASSUME NEW q \in Seq(Item), NEW h, NEW p \in Packet, Whole(q, h, NoPacket)
  PROVE  Whole(Append(q, HeaderOf(p)), h, IF p.type = "DCBUF" THEN p ELSE NoPacket)
<1>1. PICK q2 : q2 = Append(q, HeaderOf(p))
  OBVIOUS
<1>2. PICK n \in Nat : n = Len(q)
  OBVIOUS
<1>3. HeaderOf(p) \in Item /\ p # NoPacket /\ HeaderOf(p).part = "header" /\ HeaderOf(p).packet = p
  BY PacketFacts DEF HeaderOf, Item
<1>4. /\ Len(q2) = n + 1 /\ q2 # <<>> /\ q2[n + 1] = HeaderOf(p) /\ (q = <<>> <=> n = 0)
      /\ \A k \in 1 .. n : q2[k] = q[k] /\ q[k] \in Item
  BY <1>1, <1>2, <1>3
<1>5. \A k \in 1 .. n : q[k].packet # NoPacket
  BY <1>4, PacketFacts DEF Item
<1>6. PICK d : d = IF p.type = "DCBUF" THEN p ELSE NoPacket
  OBVIOUS
<1>7. ASSUME NEW k \in 1 .. n + 1, q2[k].part = "header", q2[k].packet.type = "DCBUF"
      PROVE  IF k < n + 1 THEN q2[k + 1] = BodyOf(q2[k].packet) ELSE d = q2[k].packet
  <2>1. CASE k = n + 1
    BY <1>3, <1>4, <1>6, <1>7, <2>1
  <2>2. CASE k # n + 1
    <3>1. k \in 1 .. n /\ q2[k] = q[k] /\ k < n + 1
      BY <1>4, <2>2
    <3>2. IF k < n THEN q[k + 1] = BodyOf(q[k].packet) ELSE NoPacket = q[k].packet
      BY <1>2, <1>7, <3>1 DEF Whole
    <3>3. k < n /\ q[k + 1] = BodyOf(q[k].packet)
      BY <1>5, <3>1, <3>2
    <3>4. q2[k + 1] = q[k + 1]
      BY <1>4, <3>1, <3>3
    <3>5. QED
      BY <3>1, <3>3, <3>4
  <2>3. QED
    BY <2>1, <2>2
<1>8. ASSUME NEW k \in 1 .. n + 1, q2[k].part = "body"
      PROVE  /\ q2[k].packet.type = "DCBUF"
             /\ IF k > 1 THEN q2[k - 1] = HeaderOf(q2[k].packet) ELSE h = q2[k].packet
  <2>1. k # n + 1
    BY <1>3, <1>4, <1>8
  <2>2. k \in 1 .. n /\ q2[k] = q[k]
    BY <1>4, <2>1
  <2>3. /\ q[k].packet.type = "DCBUF"
        /\ IF k > 1 THEN q[k - 1] = HeaderOf(q[k].packet) ELSE h = q[k].packet
    BY <1>2, <1>8, <2>2 DEF Whole
  <2>4. k > 1 => q2[k - 1] = q[k - 1]
    BY <1>4, <2>2
  <2>5. QED
    BY <2>2, <2>3, <2>4
<1>9. ASSUME h # NoPacket
      PROVE  q2[1] = BodyOf(h)
  <2>1. n # 0 /\ q[1] = BodyOf(h)
    BY <1>4, <1>9 DEF Whole
  <2>2. 1 \in 1 .. n
    BY <2>1
  <2>3. QED
    BY <1>4, <2>1, <2>2
<1>10. d # NoPacket => q2[n + 1] = HeaderOf(d)
  BY <1>4, <1>6
<1>11. Whole(q2, h, d)
  BY <1>4, <1>7, <1>8, <1>9, <1>10 DEF Whole
<1>12. QED
  BY <1>1, <1>6, <1>11

LEMMA AddBody ==
  ASSUME NEW q \in Seq(Item), NEW h, NEW p \in Packet, p.type = "DCBUF", Whole(q, h, p)
  PROVE  Whole(Append(q, BodyOf(p)), h, NoPacket)
<1>1. PICK q2 : q2 = Append(q, BodyOf(p))
  OBVIOUS
<1>2. PICK n \in Nat : n = Len(q)
  OBVIOUS
<1>3. BodyOf(p) \in Item /\ p # NoPacket /\ BodyOf(p).part = "body" /\ BodyOf(p).packet = p
  BY PacketFacts DEF BodyOf, Item
<1>4. /\ Len(q2) = n + 1 /\ q2 # <<>> /\ q2[n + 1] = BodyOf(p) /\ (q = <<>> <=> n = 0)
      /\ \A k \in 1 .. n : q2[k] = q[k] /\ q[k] \in Item
  BY <1>1, <1>2, <1>3
<1>5. IF n # 0 THEN q[n] = HeaderOf(p) ELSE h = p
  BY <1>2, <1>3, <1>4 DEF Whole
<1>6. ASSUME NEW k \in 1 .. n + 1, q2[k].part = "header", q2[k].packet.type = "DCBUF"
      PROVE  IF k < n + 1 THEN q2[k + 1] = BodyOf(q2[k].packet) ELSE NoPacket = q2[k].packet
  <2>1. k # n + 1
    BY <1>3, <1>4, <1>6
  <2>2. k \in 1 .. n /\ q2[k] = q[k] /\ k < n + 1
    BY <1>4, <2>1
  <2>3. IF k < n THEN q[k + 1] = BodyOf(q[k].packet) ELSE p = q[k].packet
    BY <1>2, <1>6, <2>2 DEF Whole
  <2>4. CASE k < n
    <3>1. q2[k + 1] = q[k + 1]
      BY <1>4, <2>2, <2>4
    <3>2. QED
      BY <2>2, <2>3, <2>4, <3>1
  <2>5. CASE ~(k < n)
    <3>1. k = n
      BY <2>2, <2>5
    <3>2. QED
      BY <1>4, <2>2, <2>3, <2>5, <3>1
  <2>6. QED
    BY <2>4, <2>5
<1>7. ASSUME NEW k \in 1 .. n + 1, q2[k].part = "body"
      PROVE  /\ q2[k].packet.type = "DCBUF"
             /\ IF k > 1 THEN q2[k - 1] = HeaderOf(q2[k].packet) ELSE h = q2[k].packet
  <2>1. CASE k = n + 1
    <3>1. q2[k].packet = p
      BY <1>3, <1>4, <2>1
    <3>2. CASE n = 0
      BY <1>5, <2>1, <3>1, <3>2
    <3>3. CASE n # 0
      <4>1. n \in 1 .. n /\ k - 1 = n /\ k > 1
        BY <2>1, <3>3
      <4>2. q2[n] = HeaderOf(p)
        BY <1>4, <1>5, <3>3, <4>1
      <4>3. QED
        BY <3>1, <4>1, <4>2
    <3>4. QED
      BY <3>2, <3>3
  <2>2. CASE k # n + 1
    <3>1. k \in 1 .. n /\ q2[k] = q[k]
      BY <1>4, <2>2
    <3>2. /\ q[k].packet.type = "DCBUF"
          /\ IF k > 1 THEN q[k - 1] = HeaderOf(q[k].packet) ELSE h = q[k].packet
      BY <1>2, <1>7, <3>1 DEF Whole
    <3>3. k > 1 => q2[k - 1] = q[k - 1]
      BY <1>4, <3>1
    <3>4. QED
      BY <3>1, <3>2, <3>3
  <2>3. QED
    BY <2>1, <2>2
<1>8. ASSUME h # NoPacket
      PROVE  q2[1] = BodyOf(h)
  <2>1. CASE n = 0
    BY <1>4, <1>5, <2>1
  <2>2. CASE n # 0
    <3>1. q[1] = BodyOf(h) /\ 1 \in 1 .. n
      BY <1>4, <1>8, <2>2 DEF Whole
    <3>2. QED
      BY <1>4, <3>1
  <2>3. QED
    BY <2>1, <2>2
<1>9. Whole(q2, h, NoPacket)
  BY <1>4, <1>6, <1>7, <1>8 DEF Whole
<1>10. QED
  BY <1>1, <1>9

\* A connection without its first item.
LEMMA RestAt ==
  ASSUME NEW S, NEW q \in Seq(S), q # <<>>, NEW n \in Nat, n + 1 = Len(q)
  PROVE  /\ Len(Tail(q)) = n /\ (Tail(q) = <<>> <=> n = 0)
         /\ \A k \in 1 .. n : Tail(q)[k] = q[k + 1] /\ k + 1 \in 1 .. n + 1
<1>1. PICK q2 : q2 = Tail(q)
  OBVIOUS
<1>2. q2 \in Seq(S) /\ Len(q) \in Nat /\ Len(q) > 0 /\ Len(q2) = Len(q) - 1
  BY <1>1
<1>3. \A k \in 1 .. Len(q2) : q2[k] = q[k + 1]
  BY <1>1, <1>2
<1>4. Len(q2) = n
  BY <1>2
<1>5. q2 = <<>> <=> n = 0
  BY <1>2, <1>4
<1>6. \A k \in 1 .. n : k + 1 \in 1 .. n + 1
  OBVIOUS
<1>7. QED
  BY <1>1, <1>3, <1>4, <1>5, <1>6

\* The reader takes a header off, or the body of the header it keeps.
LEMMA TakeHeader ==
  ASSUME NEW q \in Seq(Item), NEW d, Whole(q, NoPacket, d), d # NoPacket => d.type = "DCBUF",
         q # <<>>, q[1].part = "header", NEW p, p = q[1].packet
  PROVE  Whole(Tail(q), IF p.type = "DCBUF" THEN p ELSE NoPacket, d)
<1>1. PICK q2 : q2 = Tail(q)
  OBVIOUS
<1>2. PICK n \in Nat : n + 1 = Len(q)
  <2>1. Len(q) \in Nat /\ Len(q) # 0
    OBVIOUS
  <2>2. QED
    BY <2>1
<1>3. PICK h : h = IF p.type = "DCBUF" THEN p ELSE NoPacket
  OBVIOUS
<1>4. /\ Len(q2) = n /\ (q2 = <<>> <=> n = 0)
      /\ \A k \in 1 .. n : q2[k] = q[k + 1] /\ k + 1 \in 1 .. n + 1
  BY <1>1, <1>2, RestAt
<1>5. \A x : HeaderOf(x).packet = x
  BY DEF HeaderOf
<1>6. ASSUME NEW k \in 1 .. n, q2[k].part = "header", q2[k].packet.type = "DCBUF"
      PROVE  IF k < n THEN q2[k + 1] = BodyOf(q2[k].packet) ELSE d = q2[k].packet
  <2>1. k + 1 \in 1 .. n + 1 /\ q2[k] = q[k + 1]
    BY <1>4
  <2>2. IF k + 1 < n + 1 THEN q[(k + 1) + 1] = BodyOf(q[k + 1].packet) ELSE d = q[k + 1].packet
    BY <1>2, <1>6, <2>1 DEF Whole
  <2>3. k < n => q2[k + 1] = q[(k + 1) + 1]
    BY <1>4
  <2>4. QED
    BY <2>1, <2>2, <2>3
<1>7. ASSUME NEW k \in 1 .. n, q2[k].part = "body"
      PROVE  /\ q2[k].packet.type = "DCBUF"
             /\ IF k > 1 THEN q2[k - 1] = HeaderOf(q2[k].packet) ELSE h = q2[k].packet
  <2>0. k + 1 > 1 /\ (k + 1) - 1 = k
    OBVIOUS
  <2>1. k + 1 \in 1 .. n + 1 /\ q2[k] = q[k + 1] /\ k + 1 > 1 /\ (k + 1) - 1 = k
    BY <1>4, <2>0
  <2>2. q2[k].packet.type = "DCBUF" /\ q[(k + 1) - 1] = HeaderOf(q2[k].packet)
    BY <1>2, <1>7, <2>1 DEF Whole
  <2>3. q[k] = HeaderOf(q2[k].packet)
    BY <2>1, <2>2
  <2>4. CASE k = 1
    BY <1>3, <1>5, <2>2, <2>3, <2>4
  <2>5. CASE k # 1
    <3>1. PICK l \in 1 .. n : k = l + 1 /\ l = k - 1
      BY <2>5
    <3>2. q2[l] = q[k] /\ k > 1
      BY <1>4, <3>1
    <3>3. QED
      BY <2>2, <2>3, <3>1, <3>2
  <2>6. QED
    BY <2>4, <2>5
<1>8. ASSUME h # NoPacket
      PROVE  IF q2 # <<>> THEN q2[1] = BodyOf(h) ELSE d = h
  <2>1. h = p /\ p.type = "DCBUF"
    BY <1>3, <1>8
  <2>2. 1 \in 1 .. n + 1
    OBVIOUS
  <2>3. IF 1 < n + 1 THEN q[1 + 1] = BodyOf(p) ELSE d = p
    BY <1>2, <2>1, <2>2 DEF Whole
  <2>4. CASE n = 0
    BY <1>4, <2>1, <2>3, <2>4
  <2>5. CASE n # 0
    <3>1. 1 \in 1 .. n /\ 1 < n + 1
      BY <2>5
    <3>2. q2[1] = q[1 + 1]
      BY <1>4, <3>1
    <3>3. QED
      BY <1>4, <2>1, <2>3, <2>5, <3>1, <3>2
  <2>6. QED
    BY <2>4, <2>5
<1>9. ASSUME d # NoPacket
      PROVE  IF q2 # <<>> THEN q2[n] = HeaderOf(d) ELSE h = d
  <2>1. q[n + 1] = HeaderOf(d)
    BY <1>2, <1>9 DEF Whole
  <2>2. CASE n = 0
    <3>1. q[1] = HeaderOf(d)
      BY <2>1, <2>2
    <3>2. QED
      BY <1>3, <1>4, <1>5, <1>9, <2>2, <3>1
  <2>3. CASE n # 0
    <3>1. n \in 1 .. n
      BY <2>3
    <3>2. QED
      BY <1>4, <2>1, <2>3, <3>1
  <2>4. QED
    BY <2>2, <2>3
<1>10. Whole(q2, h, d)
  BY <1>4, <1>6, <1>7, <1>8, <1>9 DEF Whole
<1>11. QED
  BY <1>1, <1>3, <1>10

LEMMA TakeBody ==
  ASSUME NEW q \in Seq(Item), NEW h, NEW d, Whole(q, h, d), q # <<>>, q[1].part = "body"
  PROVE  Whole(Tail(q), NoPacket, d)
<1>1. PICK q2 : q2 = Tail(q)
  OBVIOUS
<1>2. PICK n \in Nat : n + 1 = Len(q)
  <2>1. Len(q) \in Nat /\ Len(q) # 0
    OBVIOUS
  <2>2. QED
    BY <2>1
<1>4. /\ Len(q2) = n /\ (q2 = <<>> <=> n = 0)
      /\ \A k \in 1 .. n : q2[k] = q[k + 1] /\ k + 1 \in 1 .. n + 1
  BY <1>1, <1>2, RestAt
<1>5. \A x : HeaderOf(x).part = "header"
  BY DEF HeaderOf
<1>6. ASSUME NEW k \in 1 .. n, q2[k].part = "header", q2[k].packet.type = "DCBUF"
      PROVE  IF k < n THEN q2[k + 1] = BodyOf(q2[k].packet) ELSE d = q2[k].packet
  <2>1. k + 1 \in 1 .. n + 1 /\ q2[k] = q[k + 1]
    BY <1>4
  <2>2. IF k + 1 < n + 1 THEN q[(k + 1) + 1] = BodyOf(q[k + 1].packet) ELSE d = q[k + 1].packet
    BY <1>2, <1>6, <2>1 DEF Whole
  <2>3. k < n => q2[k + 1] = q[(k + 1) + 1]
    BY <1>4
  <2>4. QED
    BY <2>1, <2>2, <2>3
<1>7. ASSUME NEW k \in 1 .. n, q2[k].part = "body"
      PROVE  /\ q2[k].packet.type = "DCBUF"
             /\ k > 1 /\ q2[k - 1] = HeaderOf(q2[k].packet)
  <2>0. k + 1 > 1 /\ (k + 1) - 1 = k
    OBVIOUS
  <2>1. k + 1 \in 1 .. n + 1 /\ q2[k] = q[k + 1] /\ k + 1 > 1 /\ (k + 1) - 1 = k
    BY <1>4, <2>0
  <2>2. q2[k].packet.type = "DCBUF" /\ q[(k + 1) - 1] = HeaderOf(q2[k].packet)
    BY <1>2, <1>7, <2>1 DEF Whole
  <2>3. q[k] = HeaderOf(q2[k].packet)
    BY <2>1, <2>2
  <2>4. k # 1
    BY <1>5, <2>3
  <2>5. PICK l \in 1 .. n : k = l + 1 /\ l = k - 1
    BY <2>4
  <2>6. q2[l] = q[k] /\ k > 1
    BY <1>4, <2>5
  <2>7. QED
    BY <2>2, <2>3, <2>5, <2>6
<1>9. ASSUME d # NoPacket
      PROVE  q2 # <<>> /\ q2[n] = HeaderOf(d)
  <2>1. q[n + 1] = HeaderOf(d)
    BY <1>2, <1>9 DEF Whole
  <2>2. n # 0
    BY <1>5, <2>1
  <2>3. n \in 1 .. n
    BY <2>2
  <2>4. QED
    BY <1>4, <2>1, <2>2, <2>3
<1>10. Whole(q2, NoPacket, d)
  BY <1>4, <1>6, <1>7, <1>9 DEF Whole
<1>11. QED
  BY <1>1, <1>10

\* A packet joins a queue.
LEMMA AddsOne ==
  ASSUME Types, NEW m \in Ranks \cup {Console}, NEW p \in Packet, p.from = m,
         \/ m = Console /\ fromConsole' = Append(fromConsole, p) /\ outq' = outq
         \/ m # Console /\ outq' = [outq EXCEPT ![m] = Append(@, p)] /\ fromConsole' = fromConsole
  PROVE  \A x \in Packet : Queued(x)' <=> Queued(x) \/ x = p
<1>1. PICK q \in Seq(Packet) : q = Source(m)
  BY PlaceTypes
<1>2. PICK q2 : q2 = Source(m)'
  OBVIOUS
<1>3. q2 = Append(q, p) /\ \A n \in (Ranks \cup {Console}) \ {m} : Source(n)' = Source(n)
  <2>1. CASE m = Console
    BY <1>1, <1>2, <2>1 DEF Source
  <2>2. CASE m # Console
    <3>1. outq \in [Ranks -> Seq(Packet)] /\ m \in Ranks
      BY <2>2 DEF Types, TypeOK
    <3>2. outq'[m] = Append(outq[m], p) /\ \A n \in Ranks \ {m} : outq'[n] = outq[n]
      BY <2>2, <3>1
    <3>3. QED
      BY <1>1, <1>2, <2>2, <3>2 DEF Source
  <2>3. QED
    BY <2>1, <2>2
<1>4. /\ \A k \in 1 .. Len(q) : k \in 1 .. Len(q2) /\ q2[k] = q[k]
      /\ Len(q) + 1 \in 1 .. Len(q2) /\ q2[Len(q) + 1] = p
      /\ \A k \in 1 .. Len(q2) : k \in 1 .. Len(q) \/ k = Len(q) + 1
  BY <1>3
<1>5. SUFFICES ASSUME NEW x \in Packet
               PROVE  Queued(x)' <=> Queued(x) \/ x = p
  OBVIOUS
<1>6. CASE x.from # m
  <2>1. Source(x.from)' = Source(x.from)
    BY <1>3, <1>6, PlaceTypes
  <2>2. QED
    BY <1>6, <2>1 DEF Queued
<1>7. CASE x.from = m
  <2>1. /\ Queued(x) <=> \E k \in 1 .. Len(q) : q[k] = x
        /\ Queued(x)' <=> \E k \in 1 .. Len(q2) : q2[k] = x
    BY <1>1, <1>2, <1>7 DEF Queued
  <2>2. QED
    BY <1>4, <2>1
<1>8. QED
  BY <1>6, <1>7

\* No queue changes.
LEMMA SameQueues ==
  ASSUME UNCHANGED <<outq, fromConsole>>
  PROVE  \A x : Queued(x)' <=> Queued(x)
BY DEF Queued, Source

\* What the threads hold once one of them has begun to write p, or ended.
LEMMA HandAfter ==
  ASSUME Types, NEW t \in SenderThreads, NEW i \in Ranks, NEW p, sending' = [sending EXCEPT ![t][i] = p]
  PROVE  \A x \in Packet : InHand(x)' => InHand(x) \/ x = p
<1>1. sending \in [SenderThreads -> [Ranks -> NodePacket]]
  BY DEF Types, TypeOK
<1>2. \A u \in SenderThreads, j \in Ranks : sending'[u][j] = sending[u][j] \/ sending'[u][j] = p
  BY <1>1
<1>3. QED
  BY <1>2, PlaceTypes DEF InHand

\* No buffer is put into a queue or into a hand, no end is taken off a queue.
LEMMA TailKeeps ==
  ASSUME TailInv, UNCHANGED closed,
         \A x \in Packet : x.type = "DCBUF" /\ (Queued(x)' \/ InHand(x)') => Queued(x) \/ InHand(x),
         \A x \in Packet : Queued(x) => Queued(x)'
  PROVE  TailInv'
<1>1. SUFFICES ASSUME NEW s \in Streams, NEW d \in Packet, OfStream(d, s), d.type = "DCBUF",
                      Queued(d)' \/ InHand(d)', s[2] \in closed'[s[1]]
               PROVE  Queued(RemovePutter(s[1], s[2]))'
  BY DEF TailInv, OfStream
<1>2. Queued(RemovePutter(s[1], s[2]))
  BY <1>1 DEF TailInv
<1>3. QED
  BY <1>2, JobPackets

\* The first packet of a queue leaves it, for the hand of its thread or for good.
LEMMA TailPops ==
  ASSUME PacketInv, TailInv, UNCHANGED closed,
         NEW m \in Ranks \cup {Console}, NEW p, Pops(m, p), sending[Thread(p)][InRank(p)] = NoPacket,
         \A x \in Packet : InHand(x)' => InHand(x) \/ x = p
  PROVE  TailInv'
<1>1. /\ Genuine(p) /\ Queued(p) /\ \A x \in Packet : /\ Queued(x)' => Queued(x)
                                                      /\ Queued(x) => Queued(x)' \/ x = p
      /\ \A d \in Packet : Before(d, p) => ~Queued(d)'
  BY PopsMove DEF PacketInv
<1>2. SUFFICES ASSUME NEW s \in Streams, NEW d \in Packet, OfStream(d, s), d.type = "DCBUF",
                      Queued(d)' \/ InHand(d)', s[2] \in closed'[s[1]]
               PROVE  Queued(RemovePutter(s[1], s[2]))'
  BY DEF TailInv, OfStream
<1>3. PICK e \in Packet : e = RemovePutter(s[1], s[2])
  BY JobPackets
<1>4. Queued(e)
  <2>1. Queued(d) \/ InHand(d)
    BY <1>1, <1>2
  <2>2. QED
    BY <1>2, <1>3, <2>1 DEF TailInv
<1>5. CASE e # p
  BY <1>1, <1>3, <1>4, <1>5
<1>6. CASE e = p
  <2>1. HostOf[s[1]] # HostOf[s[2]]
    BY <1>2 DEF OfStream
  <2>2. Genuine(d) /\ d.writer = s[1] /\ d.reader = s[2]
    BY <1>2, <2>1, StreamPackets
  <2>3. e.type = "REMOVE_PUTTER" /\ e.writer = s[1] /\ e.reader = s[2]
    BY <1>3, PacketFacts
  <2>4. Before(d, p)
    BY <1>1, <1>2, <1>6, <2>2, <2>3 DEF Before
  <2>5. InHand(d) /\ Thread(d) = Thread(p) /\ InRank(d) = InRank(p) /\ d # NoPacket
    BY <1>1, <1>2, <1>6, <2>3, <2>4, PlaceTypes
  <2>6. QED
    BY <2>5 DEF InHand
<1>7. QED
  BY <1>5, <1>6

\* A header that is read and does not go on takes no thread's hand.
LEMMA ReadHeaderSends ==
  ASSUME PacketInv, NEW i \in Ranks, NEW r \in Ranks, ReadHeader(i, r)
  PROVE  UNCHANGED <<sending, stage>>
<1>1. PICK p : p = Head(wire[i][r]).packet
  OBVIOUS
<1>2. OutRank(p) = r
  <2>1. PICK q \in Seq(Item) : q = wire[i][r]
    BY PlaceTypes DEF PacketInv
  <2>2. 1 \in 1 .. Len(q) /\ p = q[1].packet
    BY <1>1, <2>1 DEF ReadHeader
  <2>3. QED
    BY <2>1, <2>2 DEF PacketInv, PlaceInv, LineInv, OfLine
<1>3. CASE Deliver(r, p)
  <2>1. p.to # r => p.to = Console /\ r = 0
    BY <1>2 DEF OutRank
  <2>2. QED
    BY <1>3, <2>1 DEF Deliver, StartDelivery
<1>4. QED
  BY <1>1, <1>3 DEF ReadHeader, Misread, wireVars

\* A buffer is written on an open stream; the end of a stream joins the queue
\* behind its buffers.
LEMMA TailFilters ==
  ASSUME PacketInv, TailInv, NEW s \in Streams, FilterWrite(s[1], s[2]) \/ FilterClose(s[1], s[2])
  PROVE  TailInv'
<1>1. PICK w \in Filters, g \in Filters : w = s[1] /\ g = s[2] /\ s = <<w, g>>
  BY JobFacts
<1>2. HostOf[w] \in Ranks \cup {Console} /\ HostOf[g] \in Ranks /\ Types
  BY <1>1, JobFacts DEF PacketInv
<1>3. PICK m \in Ranks \cup {Console} : m = HostOf[w]
  BY <1>2
<1>4. sending' = sending
  BY <1>1 DEF FilterWrite, FilterClose, wireVars
<1>5. \A x : InHand(x)' <=> InHand(x)
  BY <1>4 DEF InHand
<1>6. CASE FilterWrite(s[1], s[2])
  <2>1. PICK n \in Nat : n = wrote[<<w, g>>] + 1
    <3>1. wrote \in [Streams -> Nat] /\ <<w, g>> \in Streams
      BY <1>1, <1>2 DEF Types, TypeOK
    <3>2. QED
      BY <3>1
  <2>2. PICK p \in Packet : p = DcBuf(w, g, n)
    BY <2>1, PacketFacts
  <2>3. status[w] = "process" /\ closed' = closed
    BY <1>1, <1>6 DEF FilterWrite
  <2>4. CASE UNCHANGED <<outq, fromConsole>>
    BY <1>5, <2>3, <2>4, SameQueues, TailKeeps
  <2>5. CASE /\ HostOf[w] # HostOf[g]
             /\ \/ m = Console /\ fromConsole' = Append(fromConsole, p) /\ outq' = outq
                \/ m # Console /\ outq' = [outq EXCEPT ![m] = Append(@, p)] /\ fromConsole' = fromConsole
    <3>1. p.from = m /\ p.writer = w /\ p.reader = g
      BY <1>3, <2>2, PacketFacts
    <3>2. \A x \in Packet : Queued(x)' <=> Queued(x) \/ x = p
      BY <1>2, <2>5, <3>1, AddsOne
    <3>3. closed[w] = {}
      BY <2>3 DEF PacketInv, JobInv, FilterInv
    <3>4. SUFFICES ASSUME NEW z \in Streams, NEW d \in Packet, OfStream(d, z), d.type = "DCBUF",
                          Queued(d)' \/ InHand(d)', z[2] \in closed'[z[1]]
                   PROVE  Queued(RemovePutter(z[1], z[2]))'
      BY DEF TailInv, OfStream
    <3>5. HostOf[z[1]] # HostOf[z[2]]
      BY <3>4 DEF OfStream
    <3>6. d.writer = z[1]
      BY <3>4, <3>5, StreamPackets
    <3>7. d # p
      BY <2>3, <3>1, <3>3, <3>4, <3>6
    <3>8. Queued(d) \/ InHand(d)
      BY <1>5, <3>2, <3>4, <3>7
    <3>9. Queued(RemovePutter(z[1], z[2]))
      BY <2>3, <3>4, <3>8 DEF TailInv
    <3>10. QED
      BY <3>2, <3>9, JobPackets
  <2>6. QED
    BY <1>1, <1>2, <1>3, <1>6, <2>1, <2>2, <2>4, <2>5, JobFacts DEF FilterWrite
<1>7. CASE FilterClose(s[1], s[2])
  <2>1. PICK p \in Packet : p = RemovePutter(w, g)
    BY PacketFacts
  <2>2. closed' = [closed EXCEPT ![w] = @ \cup {g}]
    BY <1>1, <1>7 DEF FilterClose
  <2>3. closed \in [Filters -> SUBSET Filters]
    BY <1>2 DEF Types, TypeOK
  <2>4. \A z \in Streams : z[2] \in closed'[z[1]] => z[2] \in closed[z[1]] \/ z = s
    <3>1. SUFFICES ASSUME NEW z \in Streams, z[2] \in closed'[z[1]]
                   PROVE  z[2] \in closed[z[1]] \/ z = s
      OBVIOUS
    <3>2. z[1] \in Filters /\ z = <<z[1], z[2]>>
      BY JobFacts
    <3>3. CASE z[1] = w
      BY <1>1, <2>2, <2>3, <3>1, <3>2, <3>3
    <3>4. CASE z[1] # w
      BY <2>2, <2>3, <3>1, <3>2, <3>4
    <3>5. QED
      BY <3>3, <3>4
  <2>5. /\ \A x \in Packet : Queued(x) => Queued(x)'
        /\ \A x \in Packet : Queued(x)' => Queued(x) \/ x = p
        /\ HostOf[w] # HostOf[g] => Queued(p)'
    <3>1. CASE UNCHANGED <<outq, fromConsole>> /\ HostOf[w] = HostOf[g]
      BY <3>1, SameQueues
    <3>2. CASE \/ m = Console /\ fromConsole' = Append(fromConsole, p) /\ outq' = outq
               \/ m # Console /\ outq' = [outq EXCEPT ![m] = Append(@, p)] /\ fromConsole' = fromConsole
      <4>1. p.from = m
        BY <1>3, <2>1, PacketFacts
      <4>2. QED
        BY <1>2, <3>2, <4>1, AddsOne
    <3>3. QED
      BY <1>1, <1>2, <1>3, <1>7, <2>1, <3>1, <3>2, JobFacts DEF FilterClose
  <2>6. p.type = "REMOVE_PUTTER"
    BY <2>1, PacketFacts
  <2>7. SUFFICES ASSUME NEW z \in Streams, NEW d \in Packet, OfStream(d, z), d.type = "DCBUF",
                        Queued(d)' \/ InHand(d)', z[2] \in closed'[z[1]]
                 PROVE  Queued(RemovePutter(z[1], z[2]))'
    BY DEF TailInv, OfStream
  <2>8. CASE z = s
    <3>1. HostOf[w] # HostOf[g]
      BY <1>1, <2>7, <2>8 DEF OfStream
    <3>2. QED
      BY <1>1, <2>1, <2>5, <2>8, <3>1
  <2>9. CASE z # s
    <3>1. Queued(d) \/ InHand(d)
      BY <1>5, <2>5, <2>6, <2>7
    <3>2. z[2] \in closed[z[1]]
      BY <2>4, <2>7, <2>9
    <3>3. Queued(RemovePutter(z[1], z[2]))
      BY <2>7, <3>1, <3>2 DEF TailInv
    <3>4. QED
      BY <2>5, <3>3, JobPackets
  <2>10. QED
    BY <2>8, <2>9
<1>8. QED
  BY <1>6, <1>7

\* A thread that begins to write a packet of its rank's queue.
LEMMA TakeOutPops ==
  ASSUME PacketInv, NEW r \in Ranks, TakeOut(r)
  PROVE  \E p : /\ Pops(r, p) /\ Genuine(p) /\ p.from = r /\ p.type # "ALL_MY_FILTERS_DONE"
                /\ Thread(p) = "outq" /\ InRank(p) = r
                /\ sending' = [sending EXCEPT !["outq"][r] = p]
                /\ stage' = [stage EXCEPT !["outq"][r] = "header"]
<1>1. /\ outq[r] # <<>> /\ outq' = [outq EXCEPT ![r] = Tail(@)]
      /\ StartDelivery("outq", r, Head(outq[r])) /\ UNCHANGED fromConsole
  BY DEF TakeOut, consoleVars
<1>2. PICK p : p = Head(outq[r])
  OBVIOUS
<1>3. r \in Ranks \cup {Console} /\ r # Console /\ Source(r) = outq[r]
  BY JobFacts DEF Source
<1>4. Pops(r, p)
  BY <1>1, <1>2, <1>3 DEF Pops, Source, PacketInv, Types, TypeOK
<1>5. Genuine(p) /\ p.from = r /\ p.type # "ALL_MY_FILTERS_DONE"
  BY <1>3, <1>4, PopsMove DEF PacketInv
<1>6. p.to \in Ranks
  BY <1>5, GenuineFacts
<1>7. Thread(p) = "outq" /\ InRank(p) = r
  BY <1>3, <1>5 DEF Thread, InRank
<1>8. /\ sending' = [sending EXCEPT !["outq"][r] = p]
      /\ stage' = [stage EXCEPT !["outq"][r] = "header"]
  BY <1>1, <1>2, <1>6, JobFacts DEF StartDelivery
<1>9. QED
  BY <1>4, <1>5, <1>7, <1>8

\* The main loop of rank 0 takes a packet of the console, for itself or to send
\* it on.
LEMMA ConsolePops ==
  ASSUME PacketInv, HandleConsole
  PROVE  \E p : /\ Pops(Console, p) /\ Genuine(p) /\ p.from = Console
                /\ Thread(p) = "main" /\ InRank(p) = 0
                /\ \/ UNCHANGED <<sending, stage>>
                   \/ /\ sending' = [sending EXCEPT !["main"][0] = p]
                      /\ stage' = [stage EXCEPT !["main"][0] = "header"]
<1>1. PICK p : p = Head(fromConsole)
  OBVIOUS
<1>2. /\ fromConsole # <<>> /\ fromConsole' = Tail(fromConsole) /\ Deliver(0, p) /\ UNCHANGED outq
  BY <1>1 DEF HandleConsole
<1>3. Source(Console) = fromConsole /\ Console \in Ranks \cup {Console} /\ Console \notin Ranks
  BY JobFacts DEF Source
<1>4. Pops(Console, p)
  BY <1>1, <1>2, <1>3 DEF Pops, Source
<1>5. Genuine(p) /\ p.from = Console
  BY <1>3, <1>4, PopsMove DEF PacketInv
<1>6. Thread(p) = "main" /\ InRank(p) = 0
  BY <1>5 DEF Thread, InRank
<1>7. \/ UNCHANGED <<sending, stage>>
      \/ /\ sending' = [sending EXCEPT !["main"][0] = p]
         /\ stage' = [stage EXCEPT !["main"][0] = "header"]
  BY <1>2 DEF Deliver, StartDelivery
<1>8. QED
  BY <1>4, <1>5, <1>6, <1>7

\* TailInv is inductive, given PacketInv.
LEMMA TailStep ==
  ASSUME PacketInv, TailInv, [Next]_vars
  PROVE  TailInv'
<1>1. Types /\ 0 \in Ranks /\ "main" \in SenderThreads /\ "outq" \in SenderThreads
  BY JobFacts DEF PacketInv, SenderThreads
<1>2. CASE UNCHANGED <<outq, fromConsole, closed, sending>>
  <2>1. \A x : InHand(x)' <=> InHand(x)
    BY <1>2 DEF InHand
  <2>2. QED
    BY <1>2, <2>1, SameQueues, TailKeeps
<1>3. ASSUME NEW t \in SenderThreads, NEW r \in Ranks, NEW p, sending' = [sending EXCEPT ![t][r] = p],
             p = NoPacket \/ p.type # "DCBUF", UNCHANGED <<outq, fromConsole, closed>>
      PROVE  TailInv'
  <2>1. \A x \in Packet : InHand(x)' => InHand(x) \/ x = p
    BY <1>1, <1>3, HandAfter
  <2>2. \A x \in Packet : x # NoPacket
    BY PacketFacts
  <2>3. QED
    BY <1>3, <2>1, <2>2, SameQueues, TailKeeps
<1>4. ASSUME NEW t \in SenderThreads, NEW r \in Ranks, WriteHeader(t, r) \/ WriteBody(t, r)
      PROVE  TailInv'
  <2>1. UNCHANGED <<outq, fromConsole, closed>>
    BY <1>4 DEF WriteHeader, WriteBody, filterVars, consoleVars
  <2>2. sending' = sending \/ sending' = [sending EXCEPT ![t][r] = NoPacket]
    BY <1>4 DEF WriteHeader, WriteBody
  <2>3. QED
    BY <1>2, <1>3, <2>1, <2>2
<1>5. ASSUME NEW r \in Ranks, TakeOut(r)
      PROVE  TailInv'
  <2>1. PICK p : /\ Pops(r, p) /\ Thread(p) = "outq" /\ InRank(p) = r
                 /\ sending' = [sending EXCEPT !["outq"][r] = p]
    BY <1>5, TakeOutPops
  <2>2. sending["outq"][r] = NoPacket /\ UNCHANGED closed
    BY <1>5 DEF TakeOut, filterVars
  <2>3. \A x \in Packet : InHand(x)' => InHand(x) \/ x = p
    BY <1>1, <2>1, HandAfter
  <2>4. QED
    BY <2>1, <2>2, <2>3, TailPops
<1>6. ASSUME NEW r \in Ranks, Announce(r) \/ Exit(r)
      PROVE  TailInv'
  BY <1>2, <1>6 DEF Announce, Exit, filterVars, consoleVars, wireVars
<1>7. ASSUME NEW r \in Ranks, AnnounceNext(r)
      PROVE  TailInv'
  <2>1. PICK p : p = AllDone(r, announced[r]) /\ p.type = "ALL_MY_FILTERS_DONE"
    BY PacketFacts
  <2>2. UNCHANGED <<outq, fromConsole, closed>>
    BY <1>7 DEF AnnounceNext, filterVars, consoleVars
  <2>3. sending' = sending \/ sending' = [sending EXCEPT !["main"][r] = p]
    BY <1>7, <2>1 DEF AnnounceNext, StartDelivery
  <2>4. QED
    BY <1>1, <1>2, <1>3, <2>1, <2>2, <2>3
<1>8. ASSUME NEW r \in Ranks, ReadBody(r)
      PROVE  TailInv'
  <2>1. UNCHANGED <<outq, fromConsole, closed>>
    BY <1>8 DEF ReadBody, filterVars, consoleVars
  <2>2. sending' = sending
    BY <1>8, ReadBodyDelivers DEF PacketInv, Misread, wireVars
  <2>3. QED
    BY <1>2, <2>1, <2>2
<1>9. ASSUME NEW i \in Ranks, NEW r \in Ranks, ReadHeader(i, r) \/ ReadDeferred(i, r)
      PROVE  TailInv'
  <2>1. CASE ReadHeader(i, r)
    <3>1. UNCHANGED <<outq, fromConsole, closed>>
      BY <2>1 DEF ReadHeader, filterVars, consoleVars
    <3>2. QED
      BY <1>2, <2>1, <3>1, ReadHeaderSends
  <2>2. CASE ReadDeferred(i, r)
    BY <1>2, <2>2 DEF ReadDeferred, filterVars, consoleVars, wireVars
  <2>3. QED
    BY <1>9, <2>1, <2>2
<1>10. ASSUME HandleConsole
       PROVE  TailInv'
  <2>1. PICK p : /\ Pops(Console, p) /\ Thread(p) = "main" /\ InRank(p) = 0
                 /\ sending' = sending \/ sending' = [sending EXCEPT !["main"][0] = p]
    BY <1>10, ConsolePops
  <2>2. sending["main"][0] = NoPacket /\ UNCHANGED closed
    BY <1>10 DEF HandleConsole, InLoop, Free, filterVars
  <2>3. \A x \in Packet : InHand(x)' => InHand(x) \/ x = p
    <3>1. CASE sending' = sending
      BY <3>1 DEF InHand
    <3>2. CASE sending' = [sending EXCEPT !["main"][0] = p]
      BY <1>1, <3>2, HandAfter
    <3>3. QED
      BY <2>1, <3>1, <3>2
  <2>4. QED
    BY <2>1, <2>2, <2>3, TailPops
<1>11. ASSUME ConsoleFinish
       PROVE  TailInv'
  <2>1. PICK ps \in Seq(Packet) : /\ fromConsole' = fromConsole \o ps
                                  /\ \A k \in 1 .. Len(ps) : ps[k].type # "DCBUF"
    BY <1>11, FinishAdds
  <2>2. UNCHANGED <<outq, closed, sending>>
    BY <1>11 DEF ConsoleFinish, filterVars, wireVars
  <2>3. PICK q \in Seq(Packet) : q = fromConsole
    BY <1>1 DEF Types, TypeOK
  <2>4. PICK q2 : q2 = q \o ps /\ q2 = fromConsole'
    BY <2>1, <2>3
  <2>5. /\ \A k \in DOMAIN q : k \in DOMAIN q2 /\ q2[k] = q[k]
        /\ \A k \in DOMAIN q2 : k \in DOMAIN q \/ (k - Len(q) \in 1 .. Len(ps) /\ q2[k] = ps[k - Len(q)])
    <3>1. /\ \A k \in DOMAIN q : k \in DOMAIN (q \o ps) /\ (q \o ps)[k] = q[k]
          /\ \A k \in DOMAIN (q \o ps) :
               \/ k \in DOMAIN q
               \/ k - Len(q) \in 1 .. Len(ps) /\ (q \o ps)[k] = ps[k - Len(q)]
      BY ConcatAt, Zenon
    <3>2. QED
      BY ONLY <2>4, <3>1, Zenon
  <2>6. DOMAIN q = 1 .. Len(q) /\ DOMAIN q2 = 1 .. Len(q2)
    <3>1. (q \o ps) \in Seq(Packet)
      OBVIOUS
    <3>2. q2 \in Seq(Packet)
      BY ONLY <2>4, <3>1, Zenon
    <3>3. QED
      BY <3>2
  <2>7. ASSUME NEW x \in Packet
        PROVE  /\ Queued(x) => Queued(x)'
               /\ x.type = "DCBUF" /\ Queued(x)' => Queued(x)
    <3>1. CASE x.from = Console
      <4>1. /\ Queued(x) <=> \E k \in DOMAIN q : q[k] = x
            /\ Queued(x)' <=> \E k \in DOMAIN q2 : q2[k] = x
        BY <2>3, <2>4, <2>6, <3>1 DEF Queued, Source
      <4>2. QED
        BY <2>1, <2>5, <4>1
    <3>2. CASE x.from # Console
      BY <2>2, <3>2 DEF Queued, Source
    <3>3. QED
      BY <3>1, <3>2
  <2>8. \A x : InHand(x)' <=> InHand(x)
    BY <2>2 DEF InHand
  <2>9. QED
    BY <2>2, <2>7, <2>8, TailKeeps
<1>12. ASSUME NEW f \in Filters, FilterRead(f) \/ FilterReturn(f) \/ FilterErase(f)
       PROVE  TailInv'
  BY <1>2, <1>12 DEF FilterRead, FilterReturn, FilterErase, filterVars, consoleVars, wireVars
<1>13. ASSUME Stop \/ UNCHANGED vars
       PROVE  TailInv'
  BY <1>2, <1>13 DEF Stop, vars, filterVars, consoleVars, wireVars
<1>14. ASSUME NEW s \in Streams, FilterBlock(s[1], s[2])
       PROVE  TailInv'
  BY <1>2, <1>14 DEF FilterBlock, consoleVars, wireVars
<1>15. QED
  BY <1>4, <1>5, <1>6, <1>7, <1>8, <1>9, <1>10, <1>11, <1>12, <1>13, <1>14, TailFilters DEF Next

\* While one thread of a rank has a buffer to write the other has nothing.
LEMMA OnlyOne ==
  ASSUME PacketInv, AloneInv, NEW i \in Ranks, NEW t \in SenderThreads, sending[t][i] # NoPacket,
         NEW u \in SenderThreads, sending[u][i] # NoPacket, sending[u][i].type = "DCBUF"
  PROVE  u = t
<1>1. ASSUME NEW v \in SenderThreads, sending[v][i] # NoPacket, v = "main", sending[v][i].from = Console
      PROVE  sending["outq"][i] = NoPacket
  <2>1. Genuine(sending[v][i]) /\ InRank(sending[v][i]) = i
    BY <1>1 DEF PacketInv, PlaceInv, HandInv
  <2>2. i = 0 /\ Console \in Nodes
    BY <1>1, <2>1, GenuineFacts DEF InRank
  <2>3. QED
    BY <2>2, JobFacts DEF AloneInv
<1>2. CASE t = "main" /\ u = "outq"
  <2>1. SentDone(i) \/ sending[t][i].from = Console
    BY <1>2 DEF AloneInv
  <2>2. CASE SentDone(i)
    BY <1>2, <2>2 DEF AloneInv
  <2>3. CASE sending[t][i].from = Console
    BY <1>1, <1>2, <2>3
  <2>4. QED
    BY <2>1, <2>2, <2>3
<1>3. CASE t = "outq" /\ u = "main"
  <2>1. Thread(sending[u][i]) = "main"
    BY <1>3 DEF PacketInv, PlaceInv, HandInv
  <2>2. sending[u][i].from = Console
    BY <2>1 DEF Thread
  <2>3. QED
    BY <1>1, <1>3, <2>2
<1>4. QED
  BY <1>2, <1>3 DEF SenderThreads

\* No thread begins to write.
LEMMA AloneKeeps ==
  ASSUME AloneInv, UNCHANGED <<outq, announced>>,
         \A t \in SenderThreads, i \in Ranks : sending'[t][i] \in {sending[t][i], NoPacket}
  PROVE  AloneInv'
<1>1. "main" \in SenderThreads /\ "outq" \in SenderThreads /\ 0 \in Ranks
  BY JobFacts DEF SenderThreads
<1>2. \A i \in Ranks : SentDone(i)' <=> SentDone(i)
  BY DEF SentDone
<1>3. \A i \in Ranks : /\ sending'["main"][i] \in {sending["main"][i], NoPacket}
                       /\ sending'["outq"][i] \in {sending["outq"][i], NoPacket}
  BY <1>1
<1>4. QED
  BY <1>1, <1>2, <1>3 DEF AloneInv

\* A filter puts a packet into the out-queue: its rank has not announced.
LEMMA AloneFilters ==
  ASSUME OneWriter, PacketInv, ExitInv, AloneInv,
         NEW s \in Streams, FilterWrite(s[1], s[2]) \/ FilterClose(s[1], s[2])
  PROVE  AloneInv'
<1>1. PICK w \in Filters, g \in Filters : w = s[1] /\ g = s[2] /\ s = <<w, g>>
  BY JobFacts
<1>2. UNCHANGED <<sending, announced>> /\ status[w] # "erased"
  BY <1>1 DEF FilterWrite, FilterClose, wireVars
<1>3. CASE outq' = outq
  BY <1>2, <1>3, AloneKeeps
<1>4. CASE /\ HostOf[w] # HostOf[g] /\ HostOf[w] # Console
           /\ \E p : outq' = [outq EXCEPT ![HostOf[w]] = Append(@, p)]
  <2>1. PICK m \in Ranks : m = HostOf[w]
    BY <1>4, JobFacts
  <2>2. \A i \in Ranks \ {m} : outq'[i] = outq[i]
    BY <1>4, <2>1 DEF PacketInv, Types, TypeOK
  <2>3. ~SentDone(m)
    BY <1>2, <2>1 DEF ExitInv, FiltersOn
  <2>4. ConsolePresent => m # 0
    BY <1>1, <1>4, <2>1 DEF OneWriter
  <2>5. \A i \in Ranks : SentDone(i)' <=> SentDone(i)
    BY <1>2 DEF SentDone
  <2>6. 0 \in Ranks
    BY JobFacts
  <2>7. QED
    BY <1>2, <2>2, <2>3, <2>4, <2>5, <2>6 DEF AloneInv
<1>5. QED
  BY <1>1, <1>3, <1>4, JobFacts DEF FilterWrite, FilterClose

\* AloneInv is inductive, given the invariants before it and OneWriter.
LEMMA AloneStep ==
  ASSUME OneWriter, PacketInv, ExitInv, TailInv, AloneInv, [Next]_vars
  PROVE  AloneInv'
<1>1. /\ Types /\ 0 \in Ranks /\ "main" \in SenderThreads /\ "outq" \in SenderThreads
      /\ sending \in [SenderThreads -> [Ranks -> NodePacket]]
      /\ announced \in [Ranks -> NotAnnounced .. NumRanks] /\ outq \in [Ranks -> Seq(Packet)]
  BY JobFacts DEF PacketInv, Types, TypeOK, SenderThreads
<1>2. CASE UNCHANGED <<outq, announced, sending>>
  BY <1>2, AloneKeeps
<1>3. ASSUME NEW t \in SenderThreads, NEW r \in Ranks, WriteHeader(t, r) \/ WriteBody(t, r)
      PROVE  AloneInv'
  <2>1. UNCHANGED <<outq, announced>>
    BY <1>3 DEF WriteHeader, WriteBody
  <2>2. sending' = sending \/ sending' = [sending EXCEPT ![t][r] = NoPacket]
    BY <1>3 DEF WriteHeader, WriteBody
  <2>3. \A u \in SenderThreads, i \in Ranks : sending'[u][i] \in {sending[u][i], NoPacket}
    <3>1. sending \in [SenderThreads -> [Ranks -> NodePacket]]
      BY <1>1
    <3>2. CASE sending' = sending
      BY <3>2
    <3>3. CASE sending' = [sending EXCEPT ![t][r] = NoPacket]
      BY <3>1, <3>3
    <3>4. QED
      BY <2>2, <3>2, <3>3
  <2>4. QED
    BY <2>1, <2>3, AloneKeeps
<1>4. ASSUME NEW r \in Ranks, TakeOut(r)
      PROVE  AloneInv'
  <2>1. outq[r] # <<>> /\ outq' = [outq EXCEPT ![r] = Tail(@)] /\ announced' = announced
    BY <1>4 DEF TakeOut
  <2>2. PICK p : sending' = [sending EXCEPT !["outq"][r] = p]
    BY <1>4, TakeOutPops
  <2>3. ~SentDone(r) /\ (ConsolePresent => r # 0)
    BY <2>1 DEF AloneInv
  <2>4. /\ \A i \in Ranks : sending'["main"][i] = sending["main"][i]
        /\ \A i \in Ranks \ {r} : sending'["outq"][i] = sending["outq"][i] /\ outq'[i] = outq[i]
    BY <1>1, <2>1, <2>2
  <2>5. \A i \in Ranks : SentDone(i)' <=> SentDone(i)
    BY <2>1 DEF SentDone
  <2>6. QED
    BY <1>1, <2>3, <2>4, <2>5 DEF AloneInv
<1>5. ASSUME NEW r \in Ranks, Announce(r)
      PROVE  AloneInv'
  <2>1. /\ outq[r] = <<>> /\ \A f \in FiltersOn(r) : status[f] = "erased"
        /\ announced' = [announced EXCEPT ![r] = FirstAnnounced(r)]
        /\ UNCHANGED <<outq, sending>>
    BY <1>5 DEF Announce, wireVars
  <2>2. \A i \in Ranks \ {r} : SentDone(i)' <=> SentDone(i)
    BY <1>1, <2>1 DEF SentDone
  <2>3. ~SentDone(r)
    BY <1>5 DEF Announce
  <2>4. ASSUME sending["outq"][r] # NoPacket, sending["outq"][r].type = "DCBUF"
        PROVE  FALSE
    <3>1. PICK d : d = sending["outq"][r]
      OBVIOUS
    <3>2. Genuine(d) /\ Thread(d) = "outq" /\ InRank(d) = r /\ d.type = "DCBUF"
      BY <1>1, <2>4, <3>1 DEF PacketInv, PlaceInv, HandInv
    <3>3. d.from = r /\ InHand(d)
      BY <3>1, <3>2 DEF Thread, InRank, InHand
    <3>4. PICK s \in Streams : s = <<d.writer, d.reader>> /\ OfStream(d, s)
      BY <3>2, GenuineFacts
    <3>5. d \in Packet /\ s[1] \in Filters /\ HostOf[s[1]] = r /\ s[1] = d.writer
      BY <3>2, <3>3, <3>4, GenuineFacts, JobFacts
    <3>6. status[s[1]] = "erased"
      BY <2>1, <3>5 DEF FiltersOn
    <3>7. s[2] \in closed[s[1]]
      <4>1. closed[s[1]] = Readers(s[1])
        BY <3>5, <3>6 DEF PacketInv, JobInv, FilterInv
      <4>2. QED
        BY <4>1 DEF Readers
    <3>8. Queued(RemovePutter(s[1], s[2]))
      BY <3>2, <3>3, <3>4, <3>5, <3>7 DEF TailInv
    <3>9. RemovePutter(s[1], s[2]).from = r /\ r # Console
      BY <3>5, PacketFacts, JobFacts
    <3>10. Source(r) = <<>>
      BY <2>1, <3>9 DEF Source
    <3>11. QED
      BY <3>8, <3>9, <3>10 DEF Queued
  <2>5. QED
    BY <1>1, <2>1, <2>2, <2>3, <2>4 DEF AloneInv
<1>6. ASSUME NEW r \in Ranks, AnnounceNext(r)
      PROVE  AloneInv'
  <2>1. PICK n : n = announced[r]
    OBVIOUS
  <2>2. PICK p : p = AllDone(r, n)
    OBVIOUS
  <2>3. /\ n \in Nodes /\ announced' = [announced EXCEPT ![r] = NextAnnounced(r, n)]
        /\ outq' = outq /\ StartDelivery("main", r, p)
    BY <1>6, <2>1, <2>2 DEF AnnounceNext, Announcing
  <2>4. n \in Int /\ n >= -1
    BY <2>3, JobFacts DEF Nodes, Ranks, Console
  <2>5. n # NotAnnounced /\ NextAnnounced(r, n) # NotAnnounced
    BY <2>4, JobFacts DEF NotAnnounced, NextAnnounced
  <2>6. \A i \in Ranks : (SentDone(i)' <=> SentDone(i)) /\ (i = r => SentDone(i))
    BY <1>1, <2>1, <2>3, <2>5 DEF SentDone
  <2>7. sending' = sending \/ sending' = [sending EXCEPT !["main"][r] = p]
    BY <2>3 DEF StartDelivery
  <2>8. /\ \A i \in Ranks : sending'["outq"][i] = sending["outq"][i]
        /\ \A i \in Ranks \ {r} : sending'["main"][i] = sending["main"][i]
    BY <1>1, <2>7
  <2>9. QED
    BY <1>1, <2>3, <2>6, <2>8 DEF AloneInv
<1>7. ASSUME NEW r \in Ranks, Exit(r) \/ ReadBody(r)
      PROVE  AloneInv'
  <2>1. UNCHANGED <<outq, announced>>
    BY <1>7 DEF Exit, ReadBody
  <2>2. sending' = sending
    BY <1>7, ReadBodyDelivers DEF PacketInv, Exit, Misread, wireVars
  <2>3. QED
    BY <1>2, <2>1, <2>2
<1>8. ASSUME NEW i \in Ranks, NEW r \in Ranks, ReadHeader(i, r) \/ ReadDeferred(i, r)
      PROVE  AloneInv'
  <2>1. CASE ReadHeader(i, r)
    <3>1. UNCHANGED <<outq, announced>>
      BY <2>1 DEF ReadHeader
    <3>2. QED
      BY <1>2, <2>1, <3>1, ReadHeaderSends
  <2>2. CASE ReadDeferred(i, r)
    BY <1>2, <2>2 DEF ReadDeferred, wireVars
  <2>3. QED
    BY <1>8, <2>1, <2>2
<1>9. ASSUME HandleConsole
      PROVE  AloneInv'
  <2>1. PICK p : /\ p.from = Console
                 /\ sending' = sending \/ sending' = [sending EXCEPT !["main"][0] = p]
    BY <1>9, ConsolePops
  <2>2. UNCHANGED <<outq, announced>>
    BY <1>9 DEF HandleConsole
  <2>3. /\ \A i \in Ranks : sending'["outq"][i] = sending["outq"][i]
        /\ \A i \in Ranks : \/ sending'["main"][i] = sending["main"][i]
                            \/ sending'["main"][i] = p
    BY <1>1, <2>1
  <2>4. \A i \in Ranks : SentDone(i)' <=> SentDone(i)
    BY <2>2 DEF SentDone
  <2>5. QED
    BY <1>1, <2>1, <2>2, <2>3, <2>4 DEF AloneInv
<1>10. ASSUME ConsoleFinish \/ Stop \/ UNCHANGED vars
       PROVE  AloneInv'
  BY <1>2, <1>10 DEF ConsoleFinish, Stop, vars, wireVars
<1>11. ASSUME NEW f \in Filters, FilterRead(f) \/ FilterReturn(f) \/ FilterErase(f)
       PROVE  AloneInv'
  BY <1>2, <1>11 DEF FilterRead, FilterReturn, FilterErase, wireVars
<1>12. ASSUME NEW s \in Streams, FilterBlock(s[1], s[2])
       PROVE  AloneInv'
  BY <1>2, <1>12 DEF FilterBlock, wireVars
<1>13. QED
  BY <1>3, <1>4, <1>5, <1>6, <1>7, <1>8, <1>9, <1>10, <1>11, <1>12, AloneFilters DEF Next

\* Nothing moves on the connections.
LEMMA WholeSame ==
  ASSUME WholeInv, UNCHANGED <<wire, heads, sending, stage>>
  PROVE  WholeInv'
<1>1. \A i, r \in Ranks : Half(i, r)' = Half(i, r)
  BY DEF Half, HalfOf
<1>2. QED
  BY <1>1 DEF WholeInv

\* The threads of rank i are t and another one; what the others do is the same.
LEMMA SendsAt ==
  ASSUME Types, NEW t \in SenderThreads, NEW i \in Ranks,
         \/ /\ sending' = sending
            /\ stage' = stage \/ \E y : stage' = [stage EXCEPT ![t][i] = y]
         \/ /\ \E x : sending' = [sending EXCEPT ![t][i] = x]
            /\ stage' = stage \/ \E y : stage' = [stage EXCEPT ![t][i] = y]
  PROVE  \A u \in SenderThreads, j \in Ranks : u # t \/ j # i =>
           sending'[u][j] = sending[u][j] /\ stage'[u][j] = stage[u][j]
<1>1. /\ sending \in [SenderThreads -> [Ranks -> NodePacket]]
      /\ stage \in [SenderThreads -> [Ranks -> {"header", "body"}]]
  BY DEF Types, TypeOK
<1>2. SUFFICES ASSUME NEW u \in SenderThreads, NEW j \in Ranks, u # t \/ j # i
               PROVE  sending'[u][j] = sending[u][j] /\ stage'[u][j] = stage[u][j]
  OBVIOUS
<1>3. sending'[u][j] = sending[u][j]
  BY <1>1, <1>2
<1>4. stage'[u][j] = stage[u][j]
  BY <1>1, <1>2
<1>5. QED
  BY <1>3, <1>4

\* Beginning with a header is not being half-way.
LEMMA WholeStarts ==
  ASSUME Types, WholeInv, NEW t \in SenderThreads, NEW i \in Ranks, NEW p, sending[t][i] = NoPacket,
         sending' = [sending EXCEPT ![t][i] = p], stage' = [stage EXCEPT ![t][i] = "header"],
         UNCHANGED <<wire, heads>>
  PROVE  WholeInv'
<1>1. \A u \in SenderThreads, j \in Ranks : u # t \/ j # i =>
        sending'[u][j] = sending[u][j] /\ stage'[u][j] = stage[u][j]
  BY SendsAt
<1>2. stage'[t][i] = "header"
  BY DEF Types, TypeOK
<1>3. \A u \in SenderThreads, j, r \in Ranks : /\ HalfOf(u, j, r)' <=> HalfOf(u, j, r)
                                               /\ HalfOf(u, j, r) => sending'[u][j] = sending[u][j]
  BY <1>1, <1>2 DEF HalfOf
<1>4. "main" \in SenderThreads /\ "outq" \in SenderThreads
  BY DEF SenderThreads
<1>5. \A j, r \in Ranks : Half(j, r)' = Half(j, r)
  BY <1>3, <1>4 DEF Half
<1>6. QED
  BY <1>5 DEF WholeInv

\* Only a thread that is alone is half-way through a buffer.
LEMMA HalfIs ==
  ASSUME PacketInv, AloneInv, NEW t \in SenderThreads, NEW i \in Ranks, sending[t][i] # NoPacket
  PROVE  /\ \A u \in SenderThreads \ {t}, r \in Ranks : ~HalfOf(u, i, r)
         /\ \A r \in Ranks : Half(i, r) = IF HalfOf(t, i, r) THEN sending[t][i] ELSE NoPacket
<1>1. ASSUME NEW u \in SenderThreads \ {t}, NEW r \in Ranks, HalfOf(u, i, r)
      PROVE  FALSE
  <2>1. sending[u][i] # NoPacket /\ stage[u][i] = "body"
    BY <1>1 DEF HalfOf
  <2>2. sending[u][i].type = "DCBUF"
    BY <2>1 DEF PacketInv, PlaceInv, HandInv
  <2>3. QED
    BY <2>1, <2>2, OnlyOne
<1>2. QED
  BY <1>1 DEF Half, SenderThreads

\* A thread writes a header, or the body that belongs to it.
LEMMA WriteHeaderWhole ==
  ASSUME PacketInv, AloneInv, WholeInv, NEW t \in SenderThreads, NEW i \in Ranks, WriteHeader(t, i)
  PROVE  WholeInv'
<1>1. PICK p : p = sending[t][i]
  OBVIOUS
<1>2. /\ p # NoPacket /\ stage[t][i] = "header"
      /\ wire' = [wire EXCEPT ![i][OutRank(p)] = Append(@, HeaderOf(p))]
      /\ \/ p.type = "DCBUF" /\ stage' = [stage EXCEPT ![t][i] = "body"] /\ sending' = sending
         \/ p.type # "DCBUF" /\ sending' = [sending EXCEPT ![t][i] = NoPacket] /\ stage' = stage
      /\ heads' = heads
  BY <1>1 DEF WriteHeader
<1>3. Types /\ Genuine(p)
  BY <1>1, <1>2 DEF PacketInv, PlaceInv, HandInv
<1>4. PICK o \in Ranks : o = OutRank(p)
  BY <1>3, GenuineFacts
<1>5. p \in Packet
  BY <1>3, GenuineFacts
<1>6. \A u \in SenderThreads, j \in Ranks : u # t \/ j # i =>
        sending'[u][j] = sending[u][j] /\ stage'[u][j] = stage[u][j]
  BY <1>2, <1>3, SendsAt
<1>7. IF p.type = "DCBUF" THEN sending'[t][i] = p /\ stage'[t][i] = "body" ELSE sending'[t][i] = NoPacket
  BY <1>1, <1>2, <1>3 DEF Types, TypeOK
<1>8. \A r \in Ranks : HalfOf(t, i, r)' <=> p.type = "DCBUF" /\ r = o
  BY <1>2, <1>4, <1>7 DEF HalfOf
<1>9. \A u \in SenderThreads \ {t}, r \in Ranks : ~HalfOf(u, i, r)'
  <2>1. \A u \in SenderThreads \ {t}, r \in Ranks : ~HalfOf(u, i, r)
    BY <1>1, <1>2, HalfIs
  <2>2. QED
    BY <1>6, <2>1 DEF HalfOf
<1>10. \A r \in Ranks : /\ Half(i, r) = NoPacket
                        /\ Half(i, r)' = IF p.type = "DCBUF" /\ r = o THEN p ELSE NoPacket
  <2>1. \A r \in Ranks : ~HalfOf(t, i, r)
    BY <1>2 DEF HalfOf
  <2>2. \A r \in Ranks : Half(i, r) = NoPacket
    BY <1>1, <1>2, <2>1, HalfIs
  <2>3. \A r \in Ranks : Half(i, r)' = IF HalfOf(t, i, r)' THEN sending'[t][i] ELSE NoPacket
    BY <1>9 DEF Half, SenderThreads
  <2>4. QED
    BY <1>7, <1>8, <2>2, <2>3
<1>11. \A j \in Ranks \ {i}, r \in Ranks : Half(j, r)' = Half(j, r)
  BY <1>6 DEF Half, HalfOf, SenderThreads
<1>12. /\ wire'[i][o] = Append(wire[i][o], HeaderOf(p)) /\ wire[i][o] \in Seq(Item)
       /\ \A j, r \in Ranks : j # i \/ r # o => wire'[j][r] = wire[j][r]
  <2>1. wire \in [Ranks -> [Ranks -> Seq(Item)]]
    BY <1>3 DEF Types, TypeOK
  <2>2. PICK x : x = HeaderOf(p)
    OBVIOUS
  <2>3. wire' = [wire EXCEPT ![i][o] = Append(@, x)]
    BY <1>2, <1>4, <2>2
  <2>4. wire'[i][o] = Append(wire[i][o], x) /\ wire[i][o] \in Seq(Item)
    BY <2>1, <2>3
  <2>5. \A j, r \in Ranks : j # i \/ r # o => wire'[j][r] = wire[j][r]
    BY <2>1, <2>3
  <2>6. QED
    BY <2>2, <2>4, <2>5
<1>13. Whole(wire[i][o], heads[o][i], NoPacket)
  BY <1>10 DEF WholeInv
<1>14. Whole(wire'[i][o], heads'[o][i], Half(i, o)')
  <2>1. Whole(Append(wire[i][o], HeaderOf(p)), heads[o][i], IF p.type = "DCBUF" THEN p ELSE NoPacket)
    BY <1>5, <1>12, <1>13, AddHeader
  <2>2. Half(i, o)' = IF p.type = "DCBUF" THEN p ELSE NoPacket
    BY <1>10
  <2>3. QED
    BY <1>2, <1>12, <2>1, <2>2
<1>15. ASSUME NEW j \in Ranks, NEW r \in Ranks, j # i \/ r # o
       PROVE  Whole(wire'[j][r], heads'[r][j], Half(j, r)')
  <2>1. Half(j, r)' = Half(j, r)
    BY <1>10, <1>11, <1>15
  <2>2. QED
    BY <1>2, <1>12, <1>15, <2>1 DEF WholeInv
<1>16. QED
  BY <1>14, <1>15 DEF WholeInv

LEMMA WriteBodyWhole ==
  ASSUME PacketInv, AloneInv, WholeInv, NEW t \in SenderThreads, NEW i \in Ranks, WriteBody(t, i)
  PROVE  WholeInv'
<1>1. PICK p : p = sending[t][i]
  OBVIOUS
<1>2. /\ p # NoPacket /\ stage[t][i] = "body"
      /\ wire' = [wire EXCEPT ![i][OutRank(p)] = Append(@, BodyOf(p))]
      /\ sending' = [sending EXCEPT ![t][i] = NoPacket] /\ stage' = stage /\ heads' = heads
  BY <1>1 DEF WriteBody
<1>3. Types /\ Genuine(p) /\ p.type = "DCBUF"
  BY <1>1, <1>2 DEF PacketInv, PlaceInv, HandInv
<1>4. PICK o \in Ranks : o = OutRank(p)
  BY <1>3, GenuineFacts
<1>5. p \in Packet
  BY <1>3, GenuineFacts
<1>6. \A u \in SenderThreads, j \in Ranks : u # t \/ j # i =>
        sending'[u][j] = sending[u][j] /\ stage'[u][j] = stage[u][j]
  BY <1>2, <1>3, SendsAt
<1>7. sending'[t][i] = NoPacket
  BY <1>2, <1>3 DEF Types, TypeOK
<1>8. \A r \in Ranks : /\ HalfOf(t, i, r) <=> r = o
                       /\ ~HalfOf(t, i, r)'
  BY <1>1, <1>2, <1>4, <1>7 DEF HalfOf
<1>9. \A u \in SenderThreads \ {t}, r \in Ranks : ~HalfOf(u, i, r)'
  <2>1. \A u \in SenderThreads \ {t}, r \in Ranks : ~HalfOf(u, i, r)
    BY <1>1, <1>2, HalfIs
  <2>2. QED
    BY <1>6, <2>1 DEF HalfOf
<1>10. \A r \in Ranks : /\ Half(i, r) = IF r = o THEN p ELSE NoPacket
                        /\ Half(i, r)' = NoPacket
  <2>1. \A r \in Ranks : Half(i, r) = IF HalfOf(t, i, r) THEN sending[t][i] ELSE NoPacket
    BY <1>1, <1>2, HalfIs
  <2>2. \A r \in Ranks : Half(i, r)' = NoPacket
    BY <1>8, <1>9 DEF Half, SenderThreads
  <2>3. QED
    BY <1>1, <1>8, <2>1, <2>2
<1>11. \A j \in Ranks \ {i}, r \in Ranks : Half(j, r)' = Half(j, r)
  BY <1>6 DEF Half, HalfOf, SenderThreads
<1>12. /\ wire'[i][o] = Append(wire[i][o], BodyOf(p)) /\ wire[i][o] \in Seq(Item)
       /\ \A j, r \in Ranks : j # i \/ r # o => wire'[j][r] = wire[j][r]
  <2>1. wire \in [Ranks -> [Ranks -> Seq(Item)]]
    BY <1>3 DEF Types, TypeOK
  <2>2. PICK x : x = BodyOf(p)
    OBVIOUS
  <2>3. wire' = [wire EXCEPT ![i][o] = Append(@, x)]
    BY <1>2, <1>4, <2>2
  <2>4. wire'[i][o] = Append(wire[i][o], x) /\ wire[i][o] \in Seq(Item)
    BY <2>1, <2>3
  <2>5. \A j, r \in Ranks : j # i \/ r # o => wire'[j][r] = wire[j][r]
    BY <2>1, <2>3
  <2>6. QED
    BY <2>2, <2>4, <2>5
<1>13. Whole(wire[i][o], heads[o][i], p)
  BY <1>10 DEF WholeInv
<1>14. Whole(wire'[i][o], heads'[o][i], Half(i, o)')
  <2>1. Whole(Append(wire[i][o], BodyOf(p)), heads[o][i], NoPacket)
    BY <1>3, <1>5, <1>12, <1>13, AddBody
  <2>2. QED
    BY <1>2, <1>10, <1>12, <2>1
<1>15. ASSUME NEW j \in Ranks, NEW r \in Ranks, j # i \/ r # o
       PROVE  Whole(wire'[j][r], heads'[r][j], Half(j, r)')
  <2>1. Half(j, r)' = Half(j, r)
    BY <1>10, <1>11, <1>15
  <2>2. QED
    BY <1>2, <1>12, <1>15, <2>1 DEF WholeInv
<1>16. QED
  BY <1>14, <1>15 DEF WholeInv

\* An item is taken off a connection.
LEMMA TakeWhole ==
  ASSUME PacketInv, WholeInv, NEW i \in Ranks, NEW r \in Ranks, wire[i][r] # <<>>,
         TakeItem(i, r), UNCHANGED <<sending, stage>>,
         \/ /\ Head(wire[i][r]).part = "header" /\ heads[r][i] = NoPacket
            /\ LET p == Head(wire[i][r]).packet IN
                 heads' = IF p.type = "DCBUF" THEN [heads EXCEPT ![r][i] = p] ELSE heads
         \/ /\ Head(wire[i][r]).part = "body"
            /\ heads' = [heads EXCEPT ![r][i] = NoPacket]
  PROVE  WholeInv'
<1>1. /\ wire \in [Ranks -> [Ranks -> Seq(Item)]] /\ heads \in [Ranks -> [Ranks -> NodePacket]]
  BY DEF PacketInv, Types, TypeOK
<1>2. PICK q \in Seq(Item) : q = wire[i][r]
  BY <1>1
<1>3. PICK d : d = Half(i, r)
  OBVIOUS
<1>4. \A j, n \in Ranks : Half(j, n)' = Half(j, n)
  BY DEF Half, HalfOf
<1>5. d # NoPacket => d.type = "DCBUF"
  <2>1. ASSUME NEW u \in SenderThreads, HalfOf(u, i, r)
        PROVE  sending[u][i].type = "DCBUF"
    BY <2>1 DEF HalfOf, PacketInv, PlaceInv, HandInv
  <2>2. QED
    BY <1>3, <2>1 DEF Half, SenderThreads
<1>6. /\ wire'[i][r] = Tail(q)
      /\ \A j, n \in Ranks : j # i \/ n # r => wire'[j][n] = wire[j][n]
  BY <1>1, <1>2 DEF TakeItem
<1>7. \A j, n \in Ranks : j # i \/ n # r => heads'[n][j] = heads[n][j]
  <2>1. PICK p : p = Head(wire[i][r]).packet
    OBVIOUS
  <2>2. heads' = heads \/ \E x : heads' = [heads EXCEPT ![r][i] = x]
    <3>1. CASE heads' = IF p.type = "DCBUF" THEN [heads EXCEPT ![r][i] = p] ELSE heads
      BY <3>1
    <3>2. CASE heads' = [heads EXCEPT ![r][i] = NoPacket]
      BY <3>2
    <3>3. QED
      BY <2>1, <3>1, <3>2
  <2>3. CASE heads' = heads
    BY <2>3
  <2>4. ASSUME NEW x, heads' = [heads EXCEPT ![r][i] = x]
        PROVE  \A j, n \in Ranks : j # i \/ n # r => heads'[n][j] = heads[n][j]
    BY <1>1, <2>4
  <2>5. QED
    BY <2>2, <2>3, <2>4
<1>8. q # <<>> /\ Head(q) = q[1]
  BY <1>2
<1>9. Whole(q, heads[r][i], d)
  BY <1>2, <1>3 DEF WholeInv
<1>10. Whole(Tail(q), heads'[r][i], d)
  <2>1. CASE Head(wire[i][r]).part = "header" /\ heads[r][i] = NoPacket
    <3>1. PICK p : p = q[1].packet
      OBVIOUS
    <3>2. heads'[r][i] = IF p.type = "DCBUF" THEN p ELSE NoPacket
      BY <1>1, <1>2, <1>8, <2>1, <3>1
    <3>3. q[1].part = "header" /\ Whole(q, NoPacket, d)
      BY <1>2, <1>8, <1>9, <2>1
    <3>4. Whole(Tail(q), IF p.type = "DCBUF" THEN p ELSE NoPacket, d)
      BY <1>5, <1>8, <3>1, <3>3, TakeHeader
    <3>5. QED
      BY <3>2, <3>4
  <2>2. CASE Head(wire[i][r]).part = "body" /\ heads' = [heads EXCEPT ![r][i] = NoPacket]
    <3>1. q[1].part = "body"
      BY <1>2, <1>8, <2>2
    <3>2. Whole(Tail(q), NoPacket, d)
      BY <1>8, <1>9, <3>1, TakeBody
    <3>3. QED
      BY <1>1, <2>2, <3>2
  <2>3. QED
    BY <2>1, <2>2
<1>11. ASSUME NEW j \in Ranks, NEW n \in Ranks, j # i \/ n # r
       PROVE  Whole(wire'[j][n], heads'[n][j], Half(j, n)')
  BY <1>4, <1>6, <1>7, <1>11 DEF WholeInv
<1>12. Whole(wire'[i][r], heads'[r][i], Half(i, r)')
  BY <1>3, <1>4, <1>6, <1>10
<1>13. QED
  BY <1>11, <1>12 DEF WholeInv

\* The main loop reads what comes next.
LEMMA WholeReads ==
  ASSUME PacketInv, WholeInv, NEW i \in Ranks, NEW r \in Ranks, ReadHeader(i, r) \/ ReadDeferred(i, r)
  PROVE  WholeInv'
<1>1. CASE ReadDeferred(i, r)
  BY <1>1, WholeSame DEF ReadDeferred, wireVars
<1>2. CASE ReadHeader(i, r)
  <2>1. UNCHANGED <<sending, stage>>
    BY <1>2, ReadHeaderSends
  <2>2. CASE Misread(r)
    BY <2>2, WholeSame DEF Misread, wireVars
  <2>3. CASE ~Misread(r)
    <3>1. /\ wire[i][r] # <<>> /\ heads[r][i] = NoPacket /\ TakeItem(i, r)
          /\ Head(wire[i][r]).part = "header"
          /\ LET p == Head(wire[i][r]).packet IN
               heads' = IF p.type = "DCBUF" THEN [heads EXCEPT ![r][i] = p] ELSE heads
      BY <1>2, <2>3 DEF ReadHeader
    <3>2. QED
      BY <2>1, <3>1, TakeWhole
  <2>4. QED
    BY <2>2, <2>3
<1>3. QED
  BY <1>1, <1>2

LEMMA WholeReadsBody ==
  ASSUME PacketInv, WholeInv, NEW r \in Ranks, ReadBody(r)
  PROVE  WholeInv'
<1>1. CASE Misread(r)
  BY <1>1, WholeSame DEF Misread, wireVars
<1>2. CASE ~Misread(r)
  <2>1. PICK i \in Ranks : i = reading[r]
    BY DEF PacketInv, Types, TypeOK
  <2>2. /\ wire[i][r] # <<>> /\ Head(wire[i][r]) = BodyOf(heads[r][i]) /\ TakeItem(i, r)
        /\ heads' = [heads EXCEPT ![r][i] = NoPacket] /\ UNCHANGED <<sending, stage>>
    BY <1>2, <2>1, ReadBodyDelivers DEF ReadBody, PacketInv
  <2>3. Head(wire[i][r]).part = "body"
    BY <2>2 DEF BodyOf
  <2>4. QED
    BY <2>2, <2>3, TakeWhole
<1>3. QED
  BY <1>1, <1>2

\* WholeInv is inductive, given PacketInv and AloneInv.
LEMMA WholeStep ==
  ASSUME PacketInv, AloneInv, WholeInv, [Next]_vars
  PROVE  WholeInv'
<1>1. Types /\ 0 \in Ranks /\ "main" \in SenderThreads /\ "outq" \in SenderThreads
  BY JobFacts DEF PacketInv, SenderThreads
<1>2. CASE UNCHANGED <<wire, heads, sending, stage>>
  BY <1>2, WholeSame
<1>3. ASSUME NEW r \in Ranks, TakeOut(r)
      PROVE  WholeInv'
  <2>1. PICK p : /\ sending' = [sending EXCEPT !["outq"][r] = p]
                 /\ stage' = [stage EXCEPT !["outq"][r] = "header"]
    BY <1>3, TakeOutPops
  <2>2. sending["outq"][r] = NoPacket /\ UNCHANGED <<wire, heads>>
    BY <1>3 DEF TakeOut
  <2>3. QED
    BY <1>1, <2>1, <2>2, WholeStarts
<1>4. ASSUME NEW r \in Ranks, AnnounceNext(r)
      PROVE  WholeInv'
  <2>1. sending["main"][r] = NoPacket /\ UNCHANGED <<wire, heads>>
    BY <1>4 DEF AnnounceNext, Free
  <2>2. PICK p : StartDelivery("main", r, p)
    BY <1>4 DEF AnnounceNext
  <2>3. CASE UNCHANGED <<sending, stage>>
    BY <1>2, <2>1, <2>3
  <2>4. CASE /\ sending' = [sending EXCEPT !["main"][r] = p]
             /\ stage' = [stage EXCEPT !["main"][r] = "header"]
    BY <1>1, <2>1, <2>4, WholeStarts
  <2>5. QED
    BY <2>2, <2>3, <2>4 DEF StartDelivery
<1>5. ASSUME HandleConsole
      PROVE  WholeInv'
  <2>1. sending["main"][0] = NoPacket /\ UNCHANGED <<wire, heads>>
    BY <1>5 DEF HandleConsole, InLoop, Free
  <2>2. PICK p : \/ UNCHANGED <<sending, stage>>
                 \/ /\ sending' = [sending EXCEPT !["main"][0] = p]
                    /\ stage' = [stage EXCEPT !["main"][0] = "header"]
    BY <1>5, ConsolePops
  <2>3. CASE UNCHANGED <<sending, stage>>
    BY <1>2, <2>1, <2>3
  <2>4. CASE /\ sending' = [sending EXCEPT !["main"][0] = p]
             /\ stage' = [stage EXCEPT !["main"][0] = "header"]
    BY <1>1, <2>1, <2>4, WholeStarts
  <2>5. QED
    BY <2>2, <2>3, <2>4
<1>6. ASSUME NEW s \in Streams,
             FilterBlock(s[1], s[2]) \/ FilterWrite(s[1], s[2]) \/ FilterClose(s[1], s[2])
      PROVE  WholeInv'
  BY <1>2, <1>6 DEF FilterBlock, FilterWrite, FilterClose, wireVars
<1>7. ASSUME NEW f \in Filters, FilterRead(f) \/ FilterReturn(f) \/ FilterErase(f)
      PROVE  WholeInv'
  BY <1>2, <1>7 DEF FilterRead, FilterReturn, FilterErase, wireVars
<1>8. ASSUME ConsoleFinish
      PROVE  WholeInv'
  BY <1>2, <1>8 DEF ConsoleFinish, wireVars
<1>9. ASSUME NEW r \in Ranks, Announce(r) \/ Exit(r)
      PROVE  WholeInv'
  BY <1>2, <1>9 DEF Announce, Exit, wireVars
<1>10. ASSUME Stop \/ UNCHANGED vars
       PROVE  WholeInv'
  BY <1>2, <1>10 DEF Stop, vars, wireVars
<1>11. QED
  BY <1>3, <1>4, <1>5, <1>6, <1>7, <1>8, <1>9, <1>10, WriteHeaderWhole, WriteBodyWhole,
     WholeReads, WholeReadsBody DEF Next

\* What comes first on a connection is what its reader waits for.
LEMMA ReadsRight ==
  ASSUME PacketInv, WholeInv, NEW i \in Ranks, NEW r \in Ranks, wire[i][r] # <<>>
  PROVE  IF heads[r][i] = NoPacket THEN Head(wire[i][r]).part = "header"
         ELSE Head(wire[i][r]) = BodyOf(heads[r][i])
<1>1. PICK q \in Seq(Item) : q = wire[i][r]
  BY DEF PacketInv, Types, TypeOK
<1>2. q # <<>> /\ Head(q) = q[1] /\ 1 \in 1 .. Len(q) /\ q[1] \in Item
  BY <1>1
<1>3. PICK d : Whole(q, heads[r][i], d)
  BY <1>1 DEF WholeInv
<1>4. CASE heads[r][i] = NoPacket
  <2>1. q[1].part \in {"header", "body"} /\ q[1].packet # NoPacket
    BY <1>2, PacketFacts DEF Item
  <2>2. q[1].part = "body" => heads[r][i] = q[1].packet
    BY <1>2, <1>3 DEF Whole
  <2>3. QED
    BY <1>1, <1>2, <1>4, <2>1, <2>2
<1>5. CASE heads[r][i] # NoPacket
  BY <1>1, <1>2, <1>3, <1>5 DEF Whole
<1>6. QED
  BY <1>4, <1>5

\* So nothing is misread.
LEMMA UnknownStep ==
  ASSUME PacketInv, WholeInv, PacketsStayWhole, [Next]_vars
  PROVE  PacketsStayWhole'
<1>1. CASE unknown' = unknown
  BY <1>1 DEF PacketsStayWhole
<1>2. ASSUME NEW i \in Ranks, NEW r \in Ranks, ReadHeader(i, r)
      PROVE  unknown' = unknown
  <2>1. Head(wire[i][r]).part = "header"
    BY <1>2, ReadsRight DEF ReadHeader
  <2>2. QED
    BY <1>2, <2>1 DEF ReadHeader
<1>3. ASSUME NEW r \in Ranks, ReadBody(r)
      PROVE  unknown' = unknown
  <2>1. PICK i \in Ranks : i = reading[r]
    BY DEF PacketInv, Types, TypeOK
  <2>2. i # r /\ wire[i][r] # <<>>
    BY <1>3, <2>1 DEF ReadBody
  <2>3. heads[r][i] # NoPacket
    BY <2>1, <2>2 DEF PacketInv, PlaceInv, ReadingInv
  <2>4. Head(wire[i][r]) = BodyOf(heads[r][i])
    BY <2>2, <2>3, ReadsRight
  <2>5. QED
    BY <1>3, <2>1, <2>4 DEF ReadBody
<1>4. ASSUME NEW s \in Streams,
             FilterBlock(s[1], s[2]) \/ FilterWrite(s[1], s[2]) \/ FilterClose(s[1], s[2])
      PROVE  unknown' = unknown
  BY <1>4 DEF FilterBlock, FilterWrite, FilterClose
<1>5. ASSUME NEW f \in Filters, FilterRead(f) \/ FilterReturn(f) \/ FilterErase(f)
      PROVE  unknown' = unknown
  BY <1>5 DEF FilterRead, FilterReturn, FilterErase
<1>6. ASSUME NEW t \in SenderThreads, NEW r \in Ranks, WriteHeader(t, r) \/ WriteBody(t, r)
      PROVE  unknown' = unknown
  BY <1>6 DEF WriteHeader, WriteBody
<1>7. ASSUME NEW r \in Ranks, TakeOut(r) \/ Announce(r) \/ AnnounceNext(r) \/ Exit(r)
      PROVE  unknown' = unknown
  BY <1>7 DEF TakeOut, Announce, AnnounceNext, Exit
<1>8. ASSUME NEW i \in Ranks, NEW r \in Ranks, ReadDeferred(i, r)
      PROVE  unknown' = unknown
  BY <1>8 DEF ReadDeferred
<1>9. ASSUME ConsoleFinish \/ HandleConsole \/ Stop \/ UNCHANGED vars
      PROVE  unknown' = unknown
  BY <1>9 DEF ConsoleFinish, HandleConsole, Stop, vars
<1>10. QED
  BY <1>1, <1>2, <1>3, <1>4, <1>5, <1>6, <1>7, <1>8, <1>9 DEF Next

\* The four hold initially.
LEMMA WholeInit ==
  ASSUME Init
  PROVE  TailInv /\ AloneInv /\ WholeInv /\ PacketsStayWhole
<1>1. /\ \A m \in Ranks \cup {Console} : Source(m) = <<>>
      /\ \A t \in SenderThreads, i \in Ranks : sending[t][i] = NoPacket
      /\ \A i, r \in Ranks : wire[i][r] = <<>> /\ heads[r][i] = NoPacket
  BY DEF Init, Source
<1>2. "main" \in SenderThreads /\ "outq" \in SenderThreads /\ 0 \in Ranks
  BY JobFacts DEF SenderThreads
<1>3. TailInv
  <2>1. \A s \in Streams : closed[s[1]] = {}
    BY JobFacts DEF Init
  <2>2. QED
    BY <2>1 DEF TailInv
<1>4. AloneInv
  <2>1. \A i \in Ranks : outq[i] = <<>>
    BY DEF Init
  <2>2. QED
    BY <1>1, <1>2, <2>1 DEF AloneInv
<1>5. WholeInv
  <2>1. \A i, r \in Ranks : Half(i, r) = NoPacket
    BY <1>1, <1>2 DEF Half, HalfOf
  <2>2. Whole(<<>>, NoPacket, NoPacket)
    BY DEF Whole
  <2>3. QED
    BY <1>1, <2>1, <2>2 DEF WholeInv
<1>6. PacketsStayWhole
  BY DEF Init, PacketsStayWhole
<1>7. QED
  BY <1>3, <1>4, <1>5, <1>6

\* What a rank reads as a header or a body is one, if rank 0 does not write for
\* filters of its own while it routes for the console: the two threads that
\* share the sockets without a lock then never write to the same one.  Without
\* the hypothesis the packets do mix.
THEOREM StayWhole ==
  ASSUME OneWriter
  PROVE  Spec => []PacketsStayWhole
<1>1. Init => TailInv /\ AloneInv /\ WholeInv /\ PacketsStayWhole
  BY WholeInit
<1>2. PacketInv /\ TailInv /\ [Next]_vars => TailInv'
  BY TailStep
<1>3. PacketInv /\ ExitInv /\ TailInv /\ AloneInv /\ [Next]_vars => AloneInv'
  BY AloneStep
<1>4. PacketInv /\ AloneInv /\ WholeInv /\ [Next]_vars => WholeInv'
  BY WholeStep
<1>5. PacketInv /\ WholeInv /\ PacketsStayWhole /\ [Next]_vars => PacketsStayWhole'
  BY UnknownStep
<1>6. QED
  BY <1>1, <1>2, <1>3, <1>4, <1>5, SocketPackets, SocketExits, PTL DEF Spec

=============================================================================

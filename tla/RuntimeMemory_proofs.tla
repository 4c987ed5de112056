-------------------------- MODULE RuntimeMemory_proofs --------------------------
(***************************************************************************)
(* The memory accounts of the MPI runtime, for every job: what a filter or *)
(* the runtime of a rank is charged for is what the rank holds for it, at  *)
(* every point between the write of a buffer and its read.                 *)
(*                                                                         *)
(* The buffers a rank holds are a set: since a packet is at one place only *)
(* (Single) and is not handed to MPI twice (PendingInv), every step adds   *)
(* one buffer to the set or takes one from it, or leaves it as it is.      *)
(***************************************************************************)
EXTENDS Runtime_proofs, FunctionTheorems

Buffer(q) == q.type = "DCBUF"

\* The places whose buffers a rank is charged for, and what it holds.
HeldPlaces(r) ==
  {OutQ(r)} \cup (IF r = 0 THEN {ToConsole, FromConsole} ELSE {})
            \cup (IF IsGateway(r) THEN {ToProxy(ClusterOf[r])} ELSE {})
Placed(r, q) == \E a \in HeldPlaces(r) : At(a, q)
Holds(r, q)  == q \in pending[r] \/ Placed(r, q)

\* Who has an account at rank r, and what is charged to it.
MuidsOf(r) == FiltersOn(r) \cup {RuntimeMuid}
UsageOf(r, m) == IF m = RuntimeMuid THEN rtUsage[r] ELSE usage[m]
PacketsOf(r, m) == {q \in Packet : Buffer(q) /\ Holds(r, q) /\ ChargedTo(r, q) = m}
EntriesOf(r, m) == {x \in UNION {{f} \X DOMAIN inq[f] : f \in FiltersOn(r)} :
                      inq[x[1]][x[2]].muid = m}
Balanced(r, m) ==
  /\ IsFiniteSet(PacketsOf(r, m)) /\ IsFiniteSet(EntriesOf(r, m))
  /\ UsageOf(r, m) = Cardinality(PacketsOf(r, m)) + Cardinality(EntriesOf(r, m))
AccountsInv == \A r \in Ranks : \A m \in MuidsOf(r) : Balanced(r, m)

\* A budget is not exceeded, and the console filter has none.
LimitsInv ==
  /\ \A r \in Ranks : rtUsage[r] <= RuntimeMem
  /\ \A f \in Filters : IF HostOf[f] = Console THEN usage[f] = 0 ELSE usage[f] <= FilterMem

\* A buffer whose send is not done yet has gone to another rank, and its send
\* will be accounted to the one who is charged for it.
SentOn(r, q) ==
  /\ <<q.writer, q.reader>> \in Streams /\ q = DcBuf(q.writer, q.reader, q.seq)
  /\ q.seq <= wrote[<<q.writer, q.reader>>]
  /\ q.to # r /\ \E s \in Ranks : HopPlace(r, q.to) = Chan(r, s)
  /\ SendOwner(r, q) = ChargedTo(r, q)
  /\ \A a \in Places : At(a, q) => Stage(a, q.to) <= Stage(HopPlace(r, q.to), q.to)
PendingInv == \A r \in Ranks : \A q \in pending[r] : Buffer(q) => SentOn(r, q)

\* What waits in an in-port is charged at the rank of its reader.
EntryInv == \A g \in Filters : \A k \in DOMAIN inq[g] :
  IF HostOf[g] = Console THEN inq[g][k].muid = NoMuid
  ELSE inq[g][k].muid \in MuidsOf(HostOf[g])

MemInv == PendingInv /\ EntryInv /\ AccountsInv /\ LimitsInv

-----------------------------------------------------------------------------
(* The places of a rank                                                    *)

\* What a rank is charged for is at known places, each of one rank, and no link or
\* channel of MPI is one of them.
LEMMA HeldPlacesFacts ==
  /\ \A r \in Ranks : HeldPlaces(r) \subseteq Places /\ OutQ(r) \in HeldPlaces(r)
  /\ ToConsole \in HeldPlaces(0) /\ FromConsole \in HeldPlaces(0)
  /\ \A c \in Clusters : ToProxy(c) \in HeldPlaces(Gateway(c))
  /\ \A r, s \in Ranks : \A a \in HeldPlaces(r) : a \in HeldPlaces(s) => r = s
  /\ \A r \in Ranks : \A i, s \in Ranks : Chan(i, s) \notin HeldPlaces(r)
  /\ \A r \in Ranks : ConsoleOut \notin HeldPlaces(r)
  /\ \A r \in Ranks : \A c \in Clusters : ProxyIn(c) \notin HeldPlaces(r)
<1>1. \A r \in Ranks : HeldPlaces(r) \subseteq Places /\ OutQ(r) \in HeldPlaces(r)
  BY PlaceKinds, Gateways DEF HeldPlaces
<1>2. \A c \in Clusters : ToProxy(c) \in HeldPlaces(Gateway(c))
  BY Gateways DEF HeldPlaces
<1>3. \A r, s \in Ranks : \A a \in HeldPlaces(r) : a \in HeldPlaces(s) => r = s
  <2> SUFFICES ASSUME NEW r \in Ranks, NEW s \in Ranks, NEW a \in HeldPlaces(r),
                      a \in HeldPlaces(s)
               PROVE  r = s
    OBVIOUS
  <2>1. /\ a = OutQ(r) \/ (r = 0 /\ a \in {ToConsole, FromConsole})
           \/ (r = Gateway(ClusterOf[r]) /\ a = ToProxy(ClusterOf[r]))
        /\ a = OutQ(s) \/ (s = 0 /\ a \in {ToConsole, FromConsole})
           \/ (s = Gateway(ClusterOf[s]) /\ a = ToProxy(ClusterOf[s]))
    BY DEF HeldPlaces, IsGateway
  <2>2. QED
    BY <2>1 DEF OutQ, ToConsole, FromConsole, ToProxy
<1>4. \A r \in Ranks : /\ \A i, s \in Ranks : Chan(i, s) \notin HeldPlaces(r)
                       /\ ConsoleOut \notin HeldPlaces(r)
                       /\ \A c \in Clusters : ProxyIn(c) \notin HeldPlaces(r)
  BY DEF HeldPlaces, OutQ, Chan, ToConsole, FromConsole, ConsoleOut, ToProxy, ProxyIn
<1>5. QED
  BY <1>1, <1>2, <1>3, <1>4 DEF HeldPlaces

-----------------------------------------------------------------------------
(* Buffers whose send is not done                                          *)

\* Where deliver_elsewhere puts a packet.
LEMMA HopKinds ==
  ASSUME NEW r \in Ranks, NEW p, p.to \in AllNodes, p.to # r
  PROVE  \/ Hop(r, p) = ConsoleHop /\ Hop(r, p) \notin Ranks /\ r = 0
            /\ HopPlace(r, p.to) = ToConsole
         \/ Hop(r, p) = ProxyHop /\ Hop(r, p) \notin Ranks /\ IsGateway(r)
            /\ HopPlace(r, p.to) = ToProxy(ClusterOf[r])
         \/ Hop(r, p) \in Ranks /\ HopPlace(r, p.to) = Chan(r, Hop(r, p))
<1>1. ConsoleHop \notin Ranks /\ ProxyHop \notin Ranks
  BY RanksAssumption DEF ConsoleHop, ProxyHop, Console, Ranks
<1>2. CASE p.to = Console /\ HandlesConsole(r)
  BY <1>1, <1>2 DEF Hop, HopPlace, HandlesConsole
<1>3. CASE ~(p.to = Console /\ HandlesConsole(r)) /\ IsGateway(r) /\ CrossCluster(r, p.to)
  <2>1. UseProxy
    BY <1>3, CrossingUsesProxy
  <2>2. QED
    BY <1>1, <1>3, <2>1 DEF Hop, HopPlace
<1>4. CASE /\ ~(p.to = Console /\ HandlesConsole(r)) /\ ~(IsGateway(r) /\ CrossCluster(r, p.to))
           /\ p.to = Console \/ CrossCluster(r, p.to)
  <2>1. Gateway(ClusterOf[r]) \in Ranks
    BY Gateways
  <2>2. QED
    BY <1>4, <2>1 DEF Hop, HopPlace
<1>5. CASE /\ ~(p.to = Console /\ HandlesConsole(r)) /\ ~(IsGateway(r) /\ CrossCluster(r, p.to))
           /\ ~(p.to = Console \/ CrossCluster(r, p.to))
  <2>1. p.to \in Ranks
    BY <1>5, Gateways
  <2>2. QED
    BY <1>5, <2>1 DEF Hop, HopPlace
<1>6. QED
  BY <1>2, <1>3, <1>4, <1>5

\* Whom FinishSend accounts a buffer to is whom it was charged to.
LEMMA OwnerIsCharged ==
  ASSUME NEW r \in Ranks, NEW a \in Places, HandledBy(a, r), NEW q, Buffer(q),
         q.from \in AllNodes, q.to \in AllNodes, q.from # q.to, q.to # r,
         OnRoute(a, q.from, q.to), NEW s \in Ranks, HopPlace(r, q.to) = Chan(r, s)
  PROVE  SendOwner(r, q) = ChargedTo(r, q)
<1> DEFINE m == q.from
           n == q.to
<1>1. m = r \/ CrossCluster(r, m) \/ (r = 0 /\ m = Console)
  <2>1. CASE a = OutQ(r)
    BY <2>1, AtOutQ
  <2>2. CASE \E i \in Ranks : a = Chan(i, r)
    <3>1. PICK i \in Ranks : a = Chan(i, r)
      BY <2>2
    <3>2. /\ i = m /\ r = Gateway(ClusterRank(m)) /\ r # m
          /\ n = Console \/ ClusterRank(m) # ClusterRank(n)
      BY <3>1, AtChan
    <3>3. IsGateway(r) /\ ClusterOf[r] = ClusterRank(m) /\ ClusterRank(m) \in Clusters
      BY <3>2, Gateways
    <3>4. CASE CrossCluster(r, n)
      <4>1. HopPlace(r, n) = ToConsole \/ HopPlace(r, n) = ToProxy(ClusterOf[r])
        BY <3>3, <3>4 DEF HopPlace
      <4>2. QED
        BY <4>1 DEF ToConsole, ToProxy, Chan
    <3>5. CASE ~CrossCluster(r, n)
      <4>1. n = Console /\ ClusterOf[r] = 0
        BY <3>2, <3>3, <3>5, Gateways
      <4>2. r = 0
        BY <3>2, <3>3, <4>1, Gateways
      <4>3. HopPlace(r, n) = ToConsole
        BY <4>1, <4>2 DEF HopPlace, HandlesConsole
      <4>4. QED
        BY <4>3 DEF ToConsole, Chan
    <3>6. QED
      BY <3>4, <3>5
  <2>3. CASE a = FromConsole /\ HandlesConsole(r)
    BY <2>3, AtConsole DEF HandlesConsole
  <2>4. CASE a = ProxyIn(ClusterOf[r]) /\ IsGateway(r)
    <3>1. ClusterOf[r] = ClusterRank(n) /\ ClusterRank(m) # ClusterRank(n)
      BY <2>4, AtProxy, Gateways
    <3>2. QED
      BY <3>1, Gateways
  <2>5. QED
    BY <2>1, <2>2, <2>3, <2>4 DEF HandledBy
<1>2. CASE m = r
  <2>1. ~CrossCluster(r, m) /\ m # Console
    BY <1>2, Gateways
  <2>2. QED
    BY <1>2, <2>1 DEF SendOwner, ChargedTo, Buffer
<1>3. CASE m # r /\ (CrossCluster(r, m) \/ (r = 0 /\ m = Console))
  BY <1>3 DEF SendOwner, ChargedTo, Buffer, HandlesConsole
<1>4. QED
  BY <1>1, <1>2, <1>3

\* Such a buffer is behind the places of its rank.
LEMMA PendingApart ==
  ASSUME TypeOK, QueuesInv, Genuine, PendingInv, NEW r \in Ranks, NEW q \in pending[r], Buffer(q),
         NEW a \in Places, HandledBy(a, r) \/ a \in HeldPlaces(r)
  PROVE  ~At(a, q)
<1> SUFFICES ASSUME At(a, q)
             PROVE  FALSE
  OBVIOUS
<1> DEFINE b == HopPlace(r, q.to)
<1>1. q.to # r /\ (\E s \in Ranks : b = Chan(r, s)) /\ Stage(a, q.to) <= Stage(b, q.to)
  BY DEF PendingInv, SentOn
<1>2. q.from \in AllNodes /\ q.to \in AllNodes /\ q.from # q.to /\ OnRoute(a, q.from, q.to)
  BY AtFlying, AtRoute, FlyingFacts
<1>3. CASE HandledBy(a, r)
  <2>1. b \in Places /\ Stage(b, q.to) < Stage(a, q.to)
    BY <1>1, <1>2, <1>3, HopIsNext
  <2>2. Stage(a, q.to) \in Nat /\ Stage(b, q.to) \in Nat
    BY <2>1, StageTyped
  <2>3. QED
    BY <1>1, <2>1, <2>2
<1>4. CASE a \in HeldPlaces(r) /\ ~HandledBy(a, r)
  <2>1. (r = 0 /\ a = ToConsole) \/ (IsGateway(r) /\ a = ToProxy(ClusterOf[r]))
    BY <1>4 DEF HeldPlaces, HandledBy, HandlesConsole
  <2>2. CASE r = 0 /\ a = ToConsole
    <3>1. q.to = Console
      BY <1>2, <2>2, AtConsole
    <3>2. b = ToConsole
      BY <2>2, <3>1 DEF HopPlace, HandlesConsole
    <3>3. QED
      BY <1>1, <3>2 DEF ToConsole, Chan
  <2>3. CASE IsGateway(r) /\ a = ToProxy(ClusterOf[r])
    <3>1. ClusterOf[r] = ClusterRank(q.from) /\ ClusterRank(q.from) # ClusterRank(q.to)
      BY <1>2, <2>3, AtProxy, Gateways
    <3>2. CrossCluster(r, q.to)
      BY <3>1, Gateways
    <3>3. b = ToConsole \/ b = ToProxy(ClusterOf[r])
      BY <2>3, <3>2 DEF HopPlace
    <3>4. QED
      BY <1>1, <3>3 DEF ToConsole, ToProxy, Chan
  <2>4. QED
    BY <2>1, <2>2, <2>3
<1>5. QED
  BY <1>3, <1>4

\* A buffer moves towards its destination, if it moves.
Onward(q) == \A x \in Places : At(x, q)' =>
               \E y \in Places : At(y, q) /\ Stage(x, q.to) <= Stage(y, q.to)

\* PendingInv survives a step that adds no pending buffer and moves none backwards.
LEMMA PendingKept ==
  ASSUME TypeOK, TypeOK', PendingInv, \A st \in Streams : wrote[st] <= wrote'[st],
         \A r \in Ranks : \A q \in pending'[r] : Buffer(q) =>
           (q \in pending[r] /\ Onward(q)) \/ SentOn(r, q)'
  PROVE  PendingInv'
<1> SUFFICES ASSUME NEW r \in Ranks, NEW q \in pending'[r], Buffer(q)
             PROVE  SentOn(r, q)'
  BY DEF PendingInv
<1>1. CASE q \in pending[r] /\ Onward(q)
  <2>1. SentOn(r, q)
    BY <1>1 DEF PendingInv
  <2> DEFINE st == <<q.writer, q.reader>>
             b  == HopPlace(r, q.to)
  <2>2. q.seq <= wrote'[st]
    <3>1. st \in Streams /\ q.seq <= wrote[st] /\ wrote[st] <= wrote'[st]
      BY <2>1 DEF SentOn
    <3>2. wrote[st] \in Nat /\ wrote'[st] \in Nat
      BY <3>1 DEF TypeOK, FilterTypes
    <3>3. q.seq \in Nat
      BY <1>1 DEF TypeOK, MpiTypes, Packet
    <3>4. QED
      BY <3>1, <3>2, <3>3
  <2>3. ASSUME NEW x \in Places, At(x, q)'
        PROVE  Stage(x, q.to) <= Stage(b, q.to)
    <3>1. PICK y \in Places : At(y, q) /\ Stage(x, q.to) <= Stage(y, q.to)
      BY <1>1, <2>3 DEF Onward
    <3>2. Stage(y, q.to) <= Stage(b, q.to)
      BY <2>1, <3>1 DEF SentOn
    <3>3. b \in Places
      BY <2>1, PlaceKinds DEF SentOn
    <3>4. Stage(x, q.to) \in Nat /\ Stage(y, q.to) \in Nat /\ Stage(b, q.to) \in Nat
      BY <3>3, StageTyped
    <3>5. QED
      BY <3>1, <3>2, <3>4
  <2>4. QED
    BY <2>1, <2>2, <2>3 DEF SentOn
<1>2. QED
  BY <1>1

\* Buffers do not move back in a step of any kind.
LEMMA OnwardKeep ==
  ASSUME KeepStep, NEW q
  PROVE  Onward(q)
<1> SUFFICES ASSUME NEW x \in Places, At(x, q)'
             PROVE  \E y \in Places : At(y, q) /\ Stage(x, q.to) <= Stage(y, q.to)
  BY DEF Onward
<1>1. At(x, q) /\ Stage(x, q.to) \in Nat
  BY AtKeep, StageTyped
<1>2. QED
  BY <1>1

\* Nor when a packet is taken from its queue.
LEMMA OnwardTake ==
  ASSUME TypeOK, QueuesInv, NEW a, TakeStep(a), NEW q
  PROVE  Onward(q)
<1> SUFFICES ASSUME NEW x \in Places, At(x, q)'
             PROVE  \E y \in Places : At(y, q) /\ Stage(x, q.to) <= Stage(y, q.to)
  BY DEF Onward
<1>1. At(x, q) /\ Stage(x, q.to) \in Nat
  BY AtTake, StageTyped
<1>2. QED
  BY <1>1

\* Nor when a packet is written that flew nowhere before.
LEMMA OnwardPut ==
  ASSUME TypeOK, NEW b, NEW p, PutStep(b, p), NEW q, q # p
  PROVE  Onward(q)
<1> SUFFICES ASSUME NEW x \in Places, At(x, q)'
             PROVE  \E y \in Places : At(y, q) /\ Stage(x, q.to) <= Stage(y, q.to)
  BY DEF Onward
<1>1. At(x, q) /\ Stage(x, q.to) \in Nat
  BY AtPut, StageTyped
<1>2. QED
  BY <1>1

\* Nor when a packet is moved to a later stage of its route.
LEMMA OnwardMove ==
  ASSUME TypeOK, QueuesInv, NEW a, NEW b, MoveStep(a, b), NEW p, p = Head(Queue[a]),
         Stage(b, p.to) < Stage(a, p.to), NEW q
  PROVE  Onward(q)
<1> SUFFICES ASSUME NEW x \in Places, At(x, q)'
             PROVE  \E y \in Places : At(y, q) /\ Stage(x, q.to) <= Stage(y, q.to)
  BY DEF Onward
<1>0. a \in Places /\ b \in Places /\ At(a, p)
  BY AtMove DEF MoveStep
<1>1. At(x, q) \/ (x = b /\ q = p)
  BY AtMove
<1>2. Stage(x, q.to) \in Nat /\ Stage(a, p.to) \in Nat /\ Stage(b, p.to) \in Nat
  BY <1>0, StageTyped
<1>3. CASE At(x, q)
  BY <1>2, <1>3
<1>4. CASE x = b /\ q = p
  BY <1>0, <1>2, <1>4
<1>5. QED
  BY <1>1, <1>3, <1>4

-----------------------------------------------------------------------------
(* What a rank holds after a step                                          *)

\* Rank r gets buffer p, or gives it away; no rank gets or gives any other.
HoldsMore(r, p) == \A s \in Ranks : \A q : Buffer(q) =>
                     (Holds(s, q)' <=> Holds(s, q) \/ (s = r /\ q = p))
HoldsLess(r, p) == \A s \in Ranks : \A q : Buffer(q) =>
                     (Holds(s, q)' <=> Holds(s, q) /\ ~(s = r /\ q = p))
HoldsSame == \A s \in Ranks : \A q : Buffer(q) => (Holds(s, q)' <=> Holds(s, q))

\* Which of the places a rank handles are charged to it.
LEMMA HandledHeld ==
  ASSUME NEW r \in Ranks, NEW a \in Places, HandledBy(a, r), NEW s \in Ranks, a \in HeldPlaces(s)
  PROVE  s = r
<1>1. CASE a = OutQ(r)
  BY <1>1, HeldPlacesFacts
<1>2. CASE \E i \in Ranks : a = Chan(i, r)
  BY <1>2, HeldPlacesFacts
<1>3. CASE a = FromConsole /\ HandlesConsole(r)
  BY <1>3, HeldPlacesFacts DEF HandlesConsole
<1>4. CASE a = ProxyIn(ClusterOf[r])
  BY <1>4, HeldPlacesFacts, Gateways
<1>5. QED
  BY <1>1, <1>2, <1>3, <1>4 DEF HandledBy

\* A packet at place a is placed at the rank that is charged for place a.
LEMMA PlacedAt ==
  ASSUME QueuesInv, NEW a \in Places, NEW p, At(a, p), NEW s \in Ranks
  PROVE  Placed(s, p) <=> a \in HeldPlaces(s)
BY AtOne, HeldPlacesFacts DEF Placed

\* A packet that is taken is placed nowhere any more.
LEMMA PlacedTake ==
  ASSUME TypeOK, QueuesInv, NEW a, TakeStep(a), NEW p, p = Head(Queue[a]),
         NEW s \in Ranks, NEW q
  PROVE  Placed(s, q)' <=> Placed(s, q) /\ ~(a \in HeldPlaces(s) /\ q = p)
<1>1. HeldPlaces(s) \subseteq Places /\ a \in Places
  BY HeldPlacesFacts DEF TakeStep
<1>2. At(a, p)
  BY <1>1, AtTake
<1>3. \A x \in HeldPlaces(s) : At(x, q)' <=> At(x, q) /\ ~(x = a /\ q = p)
  BY <1>1, AtTake
<1>4. \A x \in HeldPlaces(s) : At(x, p) => x = a
  BY <1>1, <1>2, AtOne
<1>5. QED
  BY <1>3, <1>4 DEF Placed

\* A packet that is put is placed where its new place is charged.
LEMMA PlacedPut ==
  ASSUME TypeOK, NEW b, NEW p, PutStep(b, p), NEW s \in Ranks, NEW q
  PROVE  Placed(s, q)' <=> Placed(s, q) \/ (b \in HeldPlaces(s) /\ q = p)
<1>1. HeldPlaces(s) \subseteq Places
  BY HeldPlacesFacts
<1>2. \A x \in HeldPlaces(s) : At(x, q)' <=> At(x, q) \/ (x = b /\ q = p)
  BY <1>1, AtPut
<1>3. QED
  BY <1>2 DEF Placed

\* A packet that is moved is placed where its new place is charged.
LEMMA PlacedMove ==
  ASSUME TypeOK, QueuesInv, NEW a, NEW b, MoveStep(a, b), NEW p, p = Head(Queue[a]),
         NEW s \in Ranks, NEW q
  PROVE  Placed(s, q)' <=> (Placed(s, q) /\ ~(a \in HeldPlaces(s) /\ q = p))
                           \/ (b \in HeldPlaces(s) /\ q = p)
<1>1. HeldPlaces(s) \subseteq Places /\ a \in Places
  BY HeldPlacesFacts DEF MoveStep
<1>2. At(a, p)
  BY <1>1, AtMove
<1>3. \A x \in HeldPlaces(s) : At(x, q)' <=> (At(x, q) /\ ~(x = a /\ q = p)) \/ (x = b /\ q = p)
  BY <1>1, AtMove
<1>4. \A x \in HeldPlaces(s) : At(x, p) => x = a
  BY <1>1, <1>2, AtOne
<1>5. QED
  BY <1>3, <1>4 DEF Placed

\* A step that keeps where the packets are keeps what is placed.
LEMMA PlacedKeep ==
  ASSUME KeepStep, NEW s \in Ranks, NEW q
  PROVE  Placed(s, q)' <=> Placed(s, q)
<1>1. \A x \in HeldPlaces(s) : At(x, q)' <=> At(x, q)
  BY HeldPlacesFacts, AtKeep
<1>2. QED
  BY <1>1 DEF Placed

\* A step that moves no packet and changes no pending buffer changes no holding.
LEMMA KeepHolds ==
  ASSUME KeepStep, pending' = pending
  PROVE  HoldsSame
BY PlacedKeep DEF HoldsSame, Holds

\* A buffer that a main loop takes is held by the rank if its place was.
LEMMA TakenIsHeld ==
  ASSUME TypeOK, QueuesInv, Genuine, PendingInv, NEW r \in Ranks, NEW a \in Places,
         HandledBy(a, r), NEW p, Buffer(p), At(a, p)
  PROVE  Holds(r, p) <=> a \in HeldPlaces(r)
<1>1. p \notin pending[r]
  BY PendingApart
<1>2. QED
  BY <1>1, PlacedAt DEF Holds

\* What every number of a stream that flies is.
LEMMA FlyingWritten ==
  ASSUME OrderInv, TypeOK, NEW p \in Flying, Buffer(p)
  PROVE  /\ <<p.writer, p.reader>> \in Streams /\ p = DcBuf(p.writer, p.reader, p.seq)
         /\ p.seq <= wrote[<<p.writer, p.reader>>]
<1>1. <<p.writer, p.reader>> \in Streams /\ p = DcBuf(p.writer, p.reader, p.seq)
  BY GenuineKinds DEF OrderInv, StreamInv, Buffer
<1> DEFINE s == <<p.writer, p.reader>>
<1>2. BufferOf(p, s)
  BY DEF BufferOf, Buffer
<1> HIDE DEF s
<1>3. PICK last \in got[s] .. wrote[s] : Split(s, last)
  BY <1>1 DEF OrderInv, StreamInv, StreamOK, s
<1>4. p.seq \in last + 1 .. wrote[s]
  BY <1>2, <1>3 DEF Split
<1>5. QED
  BY <1>1, <1>4 DEF s

\* deliver_elsewhere: the rank holds what it passes on, until the send is done.
LEMMA PassOnHolds ==
  ASSUME TypeOK, OrderInv, PendingInv, NEW r \in Ranks, NEW a, HandledBy(a, r), NEW ch,
         Taken(a, ch), NEW p, p = Head(Queue[a]), p.to # r, DeliverElsewhere(r, p, ch)
  PROVE  HoldsMore(r, p)
<1>0. QueuesInv /\ Genuine /\ a \in Places /\ Queue[a] # <<>>
  BY DEF OrderInv, StreamInv, Taken
<1>1. PICK b : b = HopPlace(r, p.to)
  OBVIOUS
<1>2. MoveStep(a, b) /\ p.to \in AllNodes
  BY <1>0, <1>1, PassOnMoves, HeadFacts
<1>3. \A s \in Ranks : \A q : Placed(s, q)' <=>
        (Placed(s, q) /\ ~(a \in HeldPlaces(s) /\ q = p)) \/ (b \in HeldPlaces(s) /\ q = p)
  BY <1>0, <1>2, PlacedMove
<1>4. At(a, p)
  BY <1>0, <1>2, AtMove
<1>5. \A s \in Ranks : a \in HeldPlaces(s) => s = r
  BY <1>0, HandledHeld
<1>6. pending' = IF Hop(r, p) \in Ranks THEN [pending EXCEPT ![r] = @ \cup {p}] ELSE pending
  BY DEF DeliverElsewhere
<1>7. pending \in [Ranks -> SUBSET Packet]
  BY DEF TypeOK, MpiTypes
<1>8. \A s \in Ranks : pending'[s] = IF s = r /\ Hop(r, p) \in Ranks THEN pending[s] \cup {p}
                                     ELSE pending[s]
  BY <1>6, <1>7
<1>9. /\ \A s \in Ranks : b \in HeldPlaces(s) => s = r
      /\ b \in HeldPlaces(r) \/ Hop(r, p) \in Ranks
  <2>1. CASE r = 0 /\ b = ToConsole
    BY <2>1, HeldPlacesFacts
  <2>2. CASE IsGateway(r) /\ b = ToProxy(ClusterOf[r])
    <3>1. ClusterOf[r] \in Clusters /\ r = Gateway(ClusterOf[r])
      BY <2>2, Gateways
    <3>2. b \in HeldPlaces(r)
      BY <2>2, <3>1, HeldPlacesFacts
    <3>3. QED
      BY <3>2, HeldPlacesFacts
  <2>3. CASE Hop(r, p) \in Ranks /\ b = Chan(r, Hop(r, p))
    BY <2>3, HeldPlacesFacts
  <2>4. QED
    BY <1>1, <1>2, <2>1, <2>2, <2>3, HopKinds
<1>10. ASSUME NEW s \in Ranks, NEW q
       PROVE  Holds(s, q)' <=> Holds(s, q) \/ (s = r /\ q = p)
  <2>1. CASE q # p
    <3>1. q \in pending'[s] <=> q \in pending[s]
      BY <1>8, <2>1
    <3>2. Placed(s, q)' <=> Placed(s, q)
      BY <1>3, <2>1
    <3>3. QED
      BY <2>1, <3>1, <3>2 DEF Holds
  <2>2. CASE q = p /\ s = r
    BY <1>3, <1>8, <1>9, <2>2 DEF Holds
  <2>3. CASE q = p /\ s # r
    BY <1>3, <1>5, <1>8, <1>9, <2>3 DEF Holds
  <2>4. QED
    BY <2>1, <2>2, <2>3
<1>11. QED
  BY <1>10 DEF HoldsMore

\* deliver_elsewhere: a buffer handed to MPI is pending until SentDone.
LEMMA PassOnPending ==
  ASSUME TypeOK, TypeOK', OrderInv, PendingInv, NEW r \in Ranks, NEW a, HandledBy(a, r), NEW ch,
         Taken(a, ch), NEW p, p = Head(Queue[a]), p.to # r, DeliverElsewhere(r, p, ch),
         wrote' = wrote
  PROVE  PendingInv'
<1>0. QueuesInv /\ Genuine /\ a \in Places /\ Queue[a] # <<>>
  BY DEF OrderInv, StreamInv, Taken
<1>1. PICK b : b = HopPlace(r, p.to)
  OBVIOUS
<1>2. MoveStep(a, b) /\ NextPlace(a, b, p) /\ b \in Places
  BY <1>0, <1>1, PassOnMoves DEF MoveStep
<1>3. /\ p \in Flying /\ OnRoute(a, p.from, p.to) /\ p.from \in AllNodes /\ p.to \in AllNodes
      /\ p.from # p.to
  BY <1>0, HeadFacts
<1>4. \A q : Onward(q)
  BY <1>0, <1>2, OnwardMove DEF NextPlace
<1>5. pending \in [Ranks -> SUBSET Packet]
  BY DEF TypeOK, MpiTypes
<1>6. pending' = IF Hop(r, p) \in Ranks THEN [pending EXCEPT ![r] = @ \cup {p}] ELSE pending
  BY DEF DeliverElsewhere
<1>7. \A s \in Ranks : \A q \in pending'[s] :
        q \in pending[s] \/ (s = r /\ q = p /\ Hop(r, p) \in Ranks)
  BY <1>5, <1>6
<1>8. ASSUME Buffer(p), Hop(r, p) \in Ranks
      PROVE  SentOn(r, p)'
  <2>1. HopPlace(r, p.to) = Chan(r, Hop(r, p))
    BY <1>3, <1>8, HopKinds
  <2>2. SendOwner(r, p) = ChargedTo(r, p)
    BY <1>0, <1>3, <1>8, <2>1, OwnerIsCharged
  <2>3. /\ <<p.writer, p.reader>> \in Streams /\ p = DcBuf(p.writer, p.reader, p.seq)
        /\ p.seq <= wrote[<<p.writer, p.reader>>]
    BY <1>3, <1>8, FlyingWritten
  <2>4. ASSUME NEW x \in Places, At(x, p)'
        PROVE  Stage(x, p.to) <= Stage(b, p.to)
    <3>1. At(a, p) /\ ((At(x, p) /\ x # a) \/ x = b)
      BY <1>0, <1>2, <2>4, AtMove
    <3>2. x = b
      BY <1>0, <3>1, AtOne
    <3>3. Stage(b, p.to) \in Nat
      BY <1>2, StageTyped
    <3>4. QED
      BY <3>2, <3>3
  <2>5. \A x \in Places : At(x, p)' => Stage(x, p.to) <= Stage(HopPlace(r, p.to), p.to)
    BY <1>1, <2>4
  <2>6. \E s \in Ranks : HopPlace(r, p.to) = Chan(r, s)
    BY <1>8, <2>1
  <2>7. QED
    BY <2>2, <2>3, <2>5, <2>6 DEF SentOn
<1>9. \A s \in Ranks : \A q \in pending'[s] : Buffer(q) =>
        (q \in pending[s] /\ Onward(q)) \/ SentOn(s, q)'
  BY <1>4, <1>7, <1>8
<1>10. \A st \in Streams : wrote[st] <= wrote'[st]
  <2>1. \A st \in Streams : wrote[st] \in Nat
    BY DEF TypeOK, FilterTypes
  <2>2. QED
    BY <2>1
<1>11. QED
  BY <1>9, <1>10, PendingKept

\* deliver_in: the rank gives away what came from its bridge.
LEMMA DeliveredHolds ==
  ASSUME TypeOK, OrderInv, PendingInv, NEW r \in Ranks, NEW a, HandledBy(a, r), NEW ch,
         Taken(a, ch), NEW p, p = Head(Queue[a]), p.to = r, chan' = ch,
         UNCHANGED <<toConsole, toProxy, pending>>
  PROVE  HoldsLess(r, p)
<1>0. QueuesInv /\ Genuine /\ a \in Places /\ Queue[a] # <<>>
  BY DEF OrderInv, StreamInv, Taken
<1>1. TakeStep(a)
  BY TakenIsTaken
<1>2. \A s \in Ranks : \A q : Placed(s, q)' <=> Placed(s, q) /\ ~(a \in HeldPlaces(s) /\ q = p)
  BY <1>0, <1>1, PlacedTake
<1>3. At(a, p)
  BY <1>0, <1>1, AtTake
<1>4. \A s \in Ranks : a \in HeldPlaces(s) => s = r
  BY <1>0, HandledHeld
<1>5. ASSUME NEW s \in Ranks, NEW q, Buffer(q)
      PROVE  Holds(s, q)' <=> Holds(s, q) /\ ~(s = r /\ q = p)
  <2>1. q \in pending'[s] <=> q \in pending[s]
    OBVIOUS
  <2>2. CASE s = r /\ q = p
    <3>1. p \notin pending[r]
      BY <1>0, <1>3, <1>5, <2>2, PendingApart
    <3>2. Placed(r, p) <=> a \in HeldPlaces(r)
      BY <1>0, <1>3, PlacedAt
    <3>3. ~Placed(r, p)'
      BY <1>2, <3>2
    <3>4. QED
      BY <2>1, <2>2, <3>1, <3>3 DEF Holds
  <2>3. CASE ~(s = r /\ q = p)
    <3>1. Placed(s, q)' <=> Placed(s, q)
      BY <1>2, <1>4, <2>3
    <3>2. QED
      BY <2>1, <2>3, <3>1 DEF Holds
  <2>4. QED
    BY <2>2, <2>3
<1>6. QED
  BY <1>5 DEF HoldsLess

\* deliver_in leaves the pending buffers as they are.
LEMMA DeliveredPending ==
  ASSUME TypeOK, TypeOK', QueuesInv, PendingInv, NEW a, TakeStep(a), pending' = pending,
         wrote' = wrote
  PROVE  PendingInv'
<1>1. \A q : Onward(q)
  BY OnwardTake
<1>2. \A st \in Streams : wrote[st] <= wrote'[st]
  <2>1. \A st \in Streams : wrote[st] \in Nat
    BY DEF TypeOK, FilterTypes
  <2>2. QED
    BY <2>1
<1>3. \A r \in Ranks : \A q \in pending'[r] : q \in pending[r] /\ Onward(q)
  BY <1>1
<1>4. QED
  BY <1>2, <1>3, PendingKept

\* The threads of the bridge and the proxy.
LEMMA ToConsoleHolds ==
  ASSUME TypeOK, TypeOK', OrderInv, PendingInv, ToConsoleThread, NEW p, p = Head(toConsole)
  PROVE  /\ HoldsLess(0, p) /\ PendingInv'
         /\ Buffer(p) => Holds(0, p)
<1>0. QueuesInv /\ Genuine /\ UNCHANGED <<pending, wrote>>
  BY DEF OrderInv, StreamInv, ToConsoleThread, mpiVars, filterVars
<1> DEFINE a == ToConsole
<1>1. a \in Places /\ Queue[a] = toConsole /\ toConsole # <<>> /\ TakeStep(a)
  BY ToConsoleThreadTakes
<1>2. 0 \in Ranks /\ a \in HeldPlaces(0) /\ \A s \in Ranks : a \in HeldPlaces(s) => s = 0
  BY HeldPlacesFacts, Gateways
<1> HIDE DEF a
<1>3. \A s \in Ranks : \A q : Placed(s, q)' <=> Placed(s, q) /\ ~(a \in HeldPlaces(s) /\ q = p)
  BY <1>0, <1>1, PlacedTake
<1>4. At(a, p)
  BY <1>0, <1>1, AtTake
<1>5. ASSUME NEW s \in Ranks, NEW q, Buffer(q)
      PROVE  Holds(s, q)' <=> Holds(s, q) /\ ~(s = 0 /\ q = p)
  <2>1. q \in pending'[s] <=> q \in pending[s]
    BY <1>0
  <2>2. CASE s = 0 /\ q = p
    <3>1. p \notin pending[0]
      BY <1>0, <1>1, <1>2, <1>4, <1>5, <2>2, PendingApart
    <3>2. QED
      BY <1>2, <1>3, <2>1, <2>2, <3>1 DEF Holds
  <2>3. CASE ~(s = 0 /\ q = p)
    <3>1. Placed(s, q)' <=> Placed(s, q)
      BY <1>2, <1>3, <2>3
    <3>2. QED
      BY <2>1, <2>3, <3>1 DEF Holds
  <2>4. QED
    BY <2>2, <2>3
<1>6. Holds(0, p)
  BY <1>2, <1>4 DEF Holds, Placed
<1>7. PendingInv'
  BY <1>0, <1>1, DeliveredPending
<1>8. QED
  BY <1>5, <1>6, <1>7 DEF HoldsLess

LEMMA ProxyWriterHolds ==
  ASSUME TypeOK, TypeOK', OrderInv, PendingInv, NEW c \in Clusters, ProxyWriter(c),
         NEW p, p = Head(toProxy[c])
  PROVE  /\ HoldsLess(Gateway(c), p) /\ PendingInv'
         /\ Holds(Gateway(c), p)
<1>0. QueuesInv /\ Genuine /\ UNCHANGED <<pending, wrote>>
  BY DEF OrderInv, StreamInv, ProxyWriter, mpiVars, filterVars
<1> DEFINE a == ToProxy(c)
<1>1. PICK b : b = ProxyIn(ClusterRank(p.to))
  OBVIOUS
<1>2. /\ a \in Places /\ Queue[a] = toProxy[c] /\ toProxy[c] # <<>> /\ MoveStep(a, b)
      /\ NextPlace(a, b, p)
  BY <1>0, <1>1, ProxyWriterMoves
<1>3. PICK g : g = Gateway(c)
  OBVIOUS
<1>4. g \in Ranks /\ a \in HeldPlaces(g) /\ \A s \in Ranks : a \in HeldPlaces(s) => s = g
  BY <1>3, HeldPlacesFacts, Gateways
<1>5. \A s \in Ranks : b \notin HeldPlaces(s)
  <2>1. ClusterRank(p.to) \in Clusters
    BY <1>0, <1>2, HeadFacts, Gateways
  <2>2. QED
    BY <1>1, <2>1, HeldPlacesFacts
<1> HIDE DEF a
<1>6. \A s \in Ranks : \A q : Placed(s, q)' <=> Placed(s, q) /\ ~(a \in HeldPlaces(s) /\ q = p)
  BY <1>0, <1>2, <1>5, PlacedMove
<1>7. At(a, p)
  BY <1>0, <1>2, AtMove
<1>8. ASSUME NEW s \in Ranks, NEW q, Buffer(q)
      PROVE  Holds(s, q)' <=> Holds(s, q) /\ ~(s = g /\ q = p)
  <2>1. q \in pending'[s] <=> q \in pending[s]
    BY <1>0
  <2>2. CASE s = g /\ q = p
    <3>1. p \notin pending[g]
      BY <1>0, <1>2, <1>4, <1>7, <1>8, <2>2, PendingApart
    <3>2. QED
      BY <1>4, <1>6, <2>1, <2>2, <3>1 DEF Holds
  <2>3. CASE ~(s = g /\ q = p)
    <3>1. Placed(s, q)' <=> Placed(s, q)
      BY <1>4, <1>6, <2>3
    <3>2. QED
      BY <2>1, <2>3, <3>1 DEF Holds
  <2>4. QED
    BY <2>2, <2>3
<1>9. Holds(g, p)
  BY <1>4, <1>7 DEF Holds, Placed
<1>10. PendingInv'
  <2>1. \A q : Onward(q)
    BY <1>0, <1>2, OnwardMove DEF NextPlace
  <2>2. \A st \in Streams : wrote[st] <= wrote'[st]
    <3>1. \A st \in Streams : wrote[st] \in Nat
      BY DEF TypeOK, FilterTypes
    <3>2. QED
      BY <1>0, <3>1
  <2>3. \A r \in Ranks : \A q \in pending'[r] : q \in pending[r] /\ Onward(q)
    BY <1>0, <2>1
  <2>4. QED
    BY <2>2, <2>3, PendingKept
<1>11. QED
  BY <1>3, <1>8, <1>9, <1>10 DEF HoldsLess

LEMMA FromConsoleHolds ==
  ASSUME TypeOK, TypeOK', OrderInv, PendingInv, FromConsoleThread, NEW p, p = Head(consoleOut)
  PROVE  /\ IF p.type = "CLOSE" THEN HoldsSame ELSE HoldsMore(0, p)
         /\ PendingInv'
         /\ Buffer(p) => ~Holds(0, p)
<1>0. QueuesInv /\ Genuine /\ UNCHANGED <<pending, wrote>>
  BY DEF OrderInv, StreamInv, FromConsoleThread, mpiVars, filterVars
<1> DEFINE a == ConsoleOut
           b == FromConsole
<1>1. /\ a \in Places /\ Queue[a] = consoleOut /\ consoleOut # <<>>
      /\ p.type # "CLOSE" => MoveStep(a, b) /\ NextPlace(a, b, p)
      /\ p.type = "CLOSE" => TakeStep(a)
  BY <1>0, FromConsoleThreadMoves
<1>2. /\ 0 \in Ranks /\ b \in HeldPlaces(0) /\ \A s \in Ranks : b \in HeldPlaces(s) => s = 0
      /\ \A s \in Ranks : a \notin HeldPlaces(s)
  BY HeldPlacesFacts, Gateways
<1>3. \A q \in pending[0] : Buffer(q) => ~At(a, q)
  <2> SUFFICES ASSUME NEW q \in pending[0], Buffer(q), At(a, q)
               PROVE  FALSE
    OBVIOUS
  <2>1. PICK s \in Ranks : HopPlace(0, q.to) = Chan(0, s)
    BY <1>2 DEF PendingInv, SentOn
  <2>2. Stage(a, q.to) <= Stage(Chan(0, s), q.to)
    BY <1>1, <1>2, <2>1 DEF PendingInv, SentOn
  <2>3. Stage(a, q.to) = 6
    BY AtConsole
  <2>4. Stage(Chan(0, s), q.to) = IF s = q.to THEN 2 ELSE 5
    BY <1>2, AtChan
  <2>5. QED
    BY <2>2, <2>3, <2>4
<1> HIDE DEF a, b
<1>4. At(a, p)
  <2>1. CASE p.type = "CLOSE"
    BY <1>0, <1>1, <2>1, AtTake
  <2>2. CASE p.type # "CLOSE"
    BY <1>0, <1>1, <2>2, AtMove
  <2>3. QED
    BY <2>1, <2>2
<1>5. Buffer(p) => ~Holds(0, p)
  <2>1. ~Placed(0, p)
    BY <1>0, <1>1, <1>2, <1>4, PlacedAt
  <2>2. QED
    BY <1>3, <1>4, <2>1 DEF Holds
<1>6. CASE p.type = "CLOSE"
  <2>1. \A s \in Ranks : \A q : Placed(s, q)' <=> Placed(s, q)
    BY <1>0, <1>1, <1>2, <1>6, PlacedTake
  <2>2. HoldsSame
    BY <1>0, <2>1 DEF HoldsSame, Holds
  <2>3. PendingInv'
    BY <1>0, <1>1, <1>6, DeliveredPending
  <2>4. QED
    BY <1>5, <1>6, <2>2, <2>3
<1>7. CASE p.type # "CLOSE"
  <2>1. \A s \in Ranks : \A q : Placed(s, q)' <=> Placed(s, q) \/ (b \in HeldPlaces(s) /\ q = p)
    BY <1>0, <1>1, <1>2, <1>7, PlacedMove
  <2>2. \A s \in Ranks : \A q : Placed(s, q)' <=> Placed(s, q) \/ (s = 0 /\ q = p)
    BY <1>2, <2>1
  <2>3. HoldsMore(0, p)
    BY <1>0, <2>2 DEF HoldsMore, Holds
  <2>4. \A q : Onward(q)
    BY <1>0, <1>1, <1>7, OnwardMove DEF NextPlace
  <2>5. \A st \in Streams : wrote[st] <= wrote'[st]
    <3>1. \A st \in Streams : wrote[st] \in Nat
      BY DEF TypeOK, FilterTypes
    <3>2. QED
      BY <1>0, <3>1
  <2>6. \A r \in Ranks : \A q \in pending'[r] : q \in pending[r] /\ Onward(q)
    BY <1>0, <2>4
  <2>7. PendingInv'
    BY <2>5, <2>6, PendingKept
  <2>8. QED
    BY <1>5, <1>7, <2>3, <2>7
<1>8. QED
  BY <1>6, <1>7

\* Steps that leave all buffers where they are.
LEMMA SameHolds ==
  ASSUME TypeOK, TypeOK', PendingInv, wrote' = wrote,
         \A x \in Places : \A q : Buffer(q) => (At(x, q)' <=> At(x, q)),
         \A r \in Ranks : \A q : Buffer(q) => (q \in pending'[r] <=> q \in pending[r])
  PROVE  HoldsSame /\ PendingInv'
<1>1. ASSUME NEW s \in Ranks, NEW q, Buffer(q)
      PROVE  Holds(s, q)' <=> Holds(s, q)
  <2>1. HeldPlaces(s) \subseteq Places
    BY HeldPlacesFacts
  <2>2. Placed(s, q)' <=> Placed(s, q)
    BY <1>1, <2>1 DEF Placed
  <2>3. q \in pending'[s] <=> q \in pending[s]
    BY <1>1
  <2>4. QED
    BY <2>2, <2>3 DEF Holds
<1>2. ASSUME NEW q, Buffer(q)
      PROVE  Onward(q)
  <2> SUFFICES ASSUME NEW x \in Places, At(x, q)'
               PROVE  \E y \in Places : At(y, q) /\ Stage(x, q.to) <= Stage(y, q.to)
    BY DEF Onward
  <2>1. At(x, q) /\ Stage(x, q.to) \in Nat
    BY <1>2, StageTyped
  <2>2. QED
    BY <2>1
<1>3. \A st \in Streams : wrote[st] <= wrote'[st]
  <2>1. \A st \in Streams : wrote[st] \in Nat
    BY DEF TypeOK, FilterTypes
  <2>2. QED
    BY <2>1
<1>4. \A r \in Ranks : \A q \in pending'[r] : Buffer(q) => q \in pending[r] /\ Onward(q)
  BY <1>2
<1>5. PendingInv'
  BY <1>3, <1>4, PendingKept
<1>6. QED
  BY <1>1, <1>5 DEF HoldsSame

\* The same, said of the variables that are places and of the pending buffers.
LEMMA NoPlaceHolds ==
  ASSUME TypeOK, TypeOK', PendingInv,
         UNCHANGED <<outq, chan, toConsole, consoleOut, fromConsole, toProxy, proxyIn>>,
         UNCHANGED <<pending, wrote>>
  PROVE  HoldsSame /\ PendingInv'
<1>1. \A x \in Places : \A q : At(x, q)' <=> At(x, q)
  BY NoPlaceTouched, AtKeep
<1>2. \A r \in Ranks : \A q : q \in pending'[r] <=> q \in pending[r]
  OBVIOUS
<1>3. QED
  BY <1>1, <1>2, SameHolds

\* The packet that is put somewhere is not a buffer.
LEMMA PutOtherHolds ==
  ASSUME TypeOK, TypeOK', PendingInv, wrote' = wrote, NEW b, NEW p, PutStep(b, p), ~Buffer(p),
         \A r \in Ranks : \A q : Buffer(q) => (q \in pending'[r] <=> q \in pending[r])
  PROVE  HoldsSame /\ PendingInv'
<1>1. \A x \in Places : \A q : Buffer(q) => (At(x, q)' <=> At(x, q))
  BY AtPut
<1>2. QED
  BY <1>1, SameHolds

\* The announcements of the end of a filter are not buffers.
LEMMA AnnounceNextHolds ==
  ASSUME TypeOK, TypeOK', AnnouncedIsIdle, PendingInv, NEW r \in Ranks, AnnounceNext(r)
  PROVE  HoldsSame /\ PendingInv'
<1>1. PICK p : p = AllDone(r, announced[r])
  OBVIOUS
<1>2. PICK b : b = HopPlace(r, announced[r])
  OBVIOUS
<1>3. PutStep(b, p)
  BY <1>1, <1>2, AnnounceNextPuts
<1>4. ~Buffer(p)
  BY <1>1, DoneFields DEF Buffer
<1>5. wrote' = wrote /\ DeliverElsewhere(r, p, chan)
  BY <1>1 DEF AnnounceNext, filterVars
<1>6. pending' = IF Hop(r, p) \in Ranks THEN [pending EXCEPT ![r] = @ \cup {p}] ELSE pending
  BY <1>5 DEF DeliverElsewhere
<1>7. pending \in [Ranks -> SUBSET Packet]
  BY DEF TypeOK, MpiTypes
<1>8. ASSUME NEW s \in Ranks, NEW q, Buffer(q)
      PROVE  q \in pending'[s] <=> q \in pending[s]
  <2>1. q # p
    BY <1>4, <1>8
  <2>2. QED
    BY <1>6, <1>7, <2>1
<1>9. QED
  BY <1>3, <1>4, <1>5, <1>8, PutOtherHolds

\* Neither are the done packets and CLOSE that the console sends at the end.
LEMMA ConsoleFinishHolds ==
  ASSUME TypeOK, TypeOK', PendingInv, ConsoleFinish
  PROVE  HoldsSame /\ PendingInv'
<1>1. /\ UNCHANGED <<outq, chan, toConsole, fromConsole, toProxy, proxyIn>>
      /\ UNCHANGED <<pending, wrote>>
  BY DEF ConsoleFinish, mpiVars, filterVars
<1>2. PICK L : L = Len(consoleOut)
  OBVIOUS
<1>3. /\ \A j \in DOMAIN consoleOut : j \in DOMAIN consoleOut' /\ consoleOut'[j] = consoleOut[j]
      /\ \A j \in DOMAIN consoleOut' :
              \/ j \in DOMAIN consoleOut
              \/ consoleOut'[j] = AllDone(Console, j - L - 1)
              \/ consoleOut'[j] = Close
  BY <1>2, ConsoleFinishPuts
<1>4. Queue[ConsoleOut] = consoleOut /\ Queue'[ConsoleOut] = consoleOut'
  BY QueueAt, QueueNext
<1>5. ASSUME NEW q, Buffer(q)
      PROVE  At(ConsoleOut, q)' <=> At(ConsoleOut, q)
  <2>1. q # Close /\ \A n : q # AllDone(Console, n)
    BY <1>5, DoneFields DEF Buffer
  <2>2. QED
    BY <1>3, <1>4, <2>1 DEF At
<1>6. ASSUME NEW x \in Places, x # ConsoleOut PROVE Queue'[x] = Queue[x]
  <2>1. CASE \E s \in Ranks : x = OutQ(s)
    BY <1>1, <2>1, QueueAt, QueueNext
  <2>2. CASE \E i, s \in Ranks : x = Chan(i, s)
    BY <1>1, <2>2, QueueAt, QueueNext
  <2>3. CASE x = ToConsole \/ x = FromConsole
    BY <1>1, <2>3, QueueAt, QueueNext
  <2>4. CASE (\E c \in Clusters : x = ToProxy(c)) \/ (\E c \in Clusters : x = ProxyIn(c))
    BY <1>1, <2>4, QueueAt, QueueNext
  <2>5. QED
    BY <1>6, <2>1, <2>2, <2>3, <2>4, PlaceKinds
<1>7. \A x \in Places : \A q : Buffer(q) => (At(x, q)' <=> At(x, q))
  BY <1>5, <1>6 DEF At
<1>8. \A r \in Ranks : \A q : q \in pending'[r] <=> q \in pending[r]
  BY <1>1
<1>9. QED
  BY <1>1, <1>7, <1>8, SameHolds

\* What a filter puts on its way.
LEMMA WriterPlaceHeld ==
  ASSUME NEW m \in Ranks, NEW n \in AllNodes
  PROVE  WriterPlace(m, n) \in HeldPlaces(m)
<1>1. m # Console
  BY Gateways
<1>2. CASE n = Console /\ HandlesConsole(m)
  BY <1>1, <1>2, HeldPlacesFacts DEF WriterPlace, HandlesConsole
<1>3. CASE ~(n = Console /\ HandlesConsole(m)) /\ IsGateway(m) /\ CrossCluster(m, n)
  <2>1. ClusterOf[m] \in Clusters /\ m = Gateway(ClusterOf[m])
    BY <1>3, Gateways
  <2>2. ToProxy(ClusterOf[m]) \in HeldPlaces(m)
    BY <2>1, HeldPlacesFacts
  <2>3. QED
    BY <1>1, <1>3, <2>2 DEF WriterPlace
<1>4. CASE ~(n = Console /\ HandlesConsole(m)) /\ ~(IsGateway(m) /\ CrossCluster(m, n))
  BY <1>1, <1>4, HeldPlacesFacts DEF WriterPlace
<1>5. QED
  BY <1>2, <1>3, <1>4

\* Nor is the packet by which a filter closes its port.
LEMMA CloseHolds ==
  ASSUME TypeOK, TypeOK', PendingInv, NEW w \in Filters, NEW g \in Filters, FilterClose(w, g)
  PROVE  HoldsSame /\ PendingInv'
<1>1. /\ UNCHANGED <<chan, pending, wrote, fromConsole, proxyIn>>
      /\ \/ UNCHANGED <<outq, consoleOut, toConsole, toProxy>>
         \/ PutPacket(HostOf[w], RemovePutter(w, g))
  BY DEF FilterClose
<1>2. CASE UNCHANGED <<outq, consoleOut, toConsole, toProxy>>
  BY <1>1, <1>2, NoPlaceHolds
<1>3. CASE PutPacket(HostOf[w], RemovePutter(w, g))
  <2>1. PICK p : p = RemovePutter(w, g)
    OBVIOUS
  <2>2. p.reader = g /\ ~Buffer(p)
    BY <2>1, PacketHosts DEF Buffer
  <2>3. PICK b : b = WriterPlace(HostOf[w], HostOf[p.reader])
    OBVIOUS
  <2>4. HostOf[w] \in AllNodes /\ HostOf[p.reader] \in AllNodes
    BY <2>2, Topology
  <2>5. PutStep(b, p)
    BY <1>1, <1>3, <2>1, <2>3, <2>4, PutPacketPuts
  <2>6. \A r \in Ranks : \A q : q \in pending'[r] <=> q \in pending[r]
    BY <1>1
  <2>7. QED
    BY <1>1, <2>2, <2>5, <2>6, PutOtherHolds
<1>4. QED
  BY <1>1, <1>2, <1>3

\* A filter that writes to a filter elsewhere: its rank holds the buffer from then on.
LEMMA WriteAwayHolds ==
  ASSUME TypeOK, TypeOK', OrderInv, PendingInv, NEW w \in Filters, NEW g \in Filters,
         FilterWrite(w, g), HostOf[w] # HostOf[g],
         NEW p, p = DcBuf(w, g, wrote[<<w, g>>] + 1)
  PROVE  /\ PendingInv'
         /\ IF HostOf[w] = Console THEN HoldsSame
            ELSE HoldsMore(HostOf[w], p) /\ ~Holds(HostOf[w], p)
<1> DEFINE s == <<w, g>>
<1>1. /\ s \in Streams /\ wrote' = [wrote EXCEPT ![s] = @ + 1]
      /\ PutPacket(HostOf[w], p) /\ UNCHANGED <<chan, fromConsole, proxyIn, pending>>
  BY DEF FilterWrite
<1>2. wrote \in [Streams -> Nat]
  BY DEF TypeOK, FilterTypes
<1>3. p.writer = w /\ p.reader = g /\ p.seq = wrote[s] + 1 /\ Buffer(p)
  BY DEF DcBuf, Buffer
<1>4. HostOf[w] \in AllNodes /\ HostOf[g] \in AllNodes
  BY Topology
<1>5. PICK b : b = WriterPlace(HostOf[w], HostOf[g])
  OBVIOUS
<1>6. PutStep(b, p)
  <2>1. b = WriterPlace(HostOf[w], HostOf[p.reader]) /\ HostOf[p.reader] \in AllNodes
    BY <1>3, <1>4, <1>5
  <2>2. QED
    BY <1>1, <1>4, <2>1, PutPacketPuts
<1>7. p \notin Flying
  <2> SUFFICES ASSUME p \in Flying
               PROVE  FALSE
    OBVIOUS
  <2>1. p.seq <= wrote[s]
    BY <1>3, FlyingWritten
  <2>2. QED
    BY <1>1, <1>2, <1>3, <2>1
<1>8. \A r \in Ranks : p \notin pending[r]
  <2> SUFFICES ASSUME NEW r \in Ranks, p \in pending[r]
               PROVE  FALSE
    OBVIOUS
  <2>1. p.seq <= wrote[s]
    BY <1>3 DEF PendingInv, SentOn
  <2>2. QED
    BY <1>1, <1>2, <1>3, <2>1
<1>9. \A r \in Ranks : ~Holds(r, p)
  <2>1. \A r \in Ranks : ~Placed(r, p)
    BY <1>7, HeldPlacesFacts, AtFlying DEF Placed
  <2>2. QED
    BY <1>8, <2>1 DEF Holds
<1>10. \A r \in Ranks : \A q : Placed(r, q)' <=> Placed(r, q) \/ (b \in HeldPlaces(r) /\ q = p)
  BY <1>6, PlacedPut
<1>11. ASSUME HostOf[w] = Console
       PROVE  HoldsSame
  <2>1. b = ConsoleOut
    BY <1>5, <1>11 DEF WriterPlace
  <2>2. \A r \in Ranks : \A q : Placed(r, q)' <=> Placed(r, q)
    BY <1>10, <2>1, HeldPlacesFacts
  <2>3. \A r \in Ranks : \A q : q \in pending'[r] <=> q \in pending[r]
    BY <1>1
  <2>4. QED
    BY <2>2, <2>3 DEF HoldsSame, Holds
<1>12. ASSUME HostOf[w] # Console
       PROVE  HoldsMore(HostOf[w], p) /\ ~Holds(HostOf[w], p)
  <2>1. PICK m : m = HostOf[w]
    OBVIOUS
  <2>2. m \in Ranks
    BY <1>4, <1>12, <2>1 DEF AllNodes
  <2>3. b \in HeldPlaces(m)
    BY <1>4, <1>5, <2>1, <2>2, WriterPlaceHeld
  <2>4. \A r \in Ranks : b \in HeldPlaces(r) <=> r = m
    BY <2>2, <2>3, HeldPlacesFacts
  <2>5. \A r \in Ranks : \A q : Placed(r, q)' <=> Placed(r, q) \/ (r = m /\ q = p)
    BY <1>10, <2>4
  <2>6. HoldsMore(m, p)
    <3>1. \A r \in Ranks : \A q : q \in pending'[r] <=> q \in pending[r]
      BY <1>1
    <3>2. \A r \in Ranks : \A q : Holds(r, q)' <=> Holds(r, q) \/ (r = m /\ q = p)
      BY <2>5, <3>1 DEF Holds
    <3>3. QED
      BY <3>2 DEF HoldsMore
  <2>7. QED
    BY <1>9, <1>12, <2>1, <2>2, <2>6
<1>13. PendingInv'
  <2>1. ASSUME NEW r \in Ranks, NEW q \in pending'[r]
        PROVE  q \in pending[r] /\ Onward(q)
    <3>0. pending' = pending
      BY <1>1
    <3>1. q \in pending[r] /\ q # p
      BY <1>8, <2>1, <3>0
    <3>2. QED
      BY <1>6, <3>1, OnwardPut
  <2>2. \A st \in Streams : wrote[st] <= wrote'[st]
    BY <1>1, <1>2
  <2>3. QED
    BY <2>1, <2>2, PendingKept
<1>14. QED
  BY <1>11, <1>12, <1>13

\* A send that is done: the rank does not hold the buffer any more.
LEMMA FinishSendHolds ==
  ASSUME TypeOK, TypeOK', OrderInv, PendingInv, NEW r \in Ranks, NEW p \in pending[r],
         FinishSend(r, p)
  PROVE  /\ HoldsLess(r, p) /\ PendingInv' /\ Holds(r, p)
         /\ Buffer(p) => SendOwner(r, p) = ChargedTo(r, p)
<1>0. QueuesInv /\ Genuine
  BY DEF OrderInv, StreamInv
<1>1. /\ UNCHANGED <<outq, chan, toConsole, consoleOut, fromConsole, toProxy, proxyIn, wrote>>
      /\ pending' = [pending EXCEPT ![r] = @ \ {p}]
  BY DEF FinishSend, filterVars, consoleVars
<1>2. pending \in [Ranks -> SUBSET Packet]
  BY DEF TypeOK, MpiTypes
<1>3. KeepStep
  BY <1>1, NoPlaceTouched
<1>4. \A s \in Ranks : \A q : Placed(s, q)' <=> Placed(s, q)
  BY <1>3, PlacedKeep
<1>5. \A s \in Ranks : \A q : q \in pending'[s] <=> q \in pending[s] /\ ~(s = r /\ q = p)
  BY <1>1, <1>2
<1>6. Buffer(p) => ~Placed(r, p)
  BY <1>0, PendingApart, HeldPlacesFacts DEF Placed
<1>7. HoldsLess(r, p)
  BY <1>4, <1>5, <1>6 DEF HoldsLess, Holds
<1>8. PendingInv'
  <2>1. \A q : Onward(q)
    BY <1>3, OnwardKeep
  <2>2. \A st \in Streams : wrote[st] <= wrote'[st]
    <3>1. \A st \in Streams : wrote[st] \in Nat
      BY DEF TypeOK, FilterTypes
    <3>2. QED
      BY <1>1, <3>1
  <2>3. \A s \in Ranks : \A q \in pending'[s] : q \in pending[s] /\ Onward(q)
    BY <1>5, <2>1
  <2>4. QED
    BY <2>2, <2>3, PendingKept
<1>9. QED
  BY <1>7, <1>8 DEF Holds, PendingInv, SentOn

-----------------------------------------------------------------------------
(* How much a step changes what is counted                                 *)

One(b) == IF b THEN 1 ELSE 0
PacketsStep(r, m, d) ==
  IsFiniteSet(PacketsOf(r, m)') /\ Cardinality(PacketsOf(r, m)') = Cardinality(PacketsOf(r, m)) + d
EntriesStep(r, m, d) ==
  IsFiniteSet(EntriesOf(r, m)') /\ Cardinality(EntriesOf(r, m)') = Cardinality(EntriesOf(r, m)) + d
UsageStep(r, m, d) == UsageOf(r, m)' = UsageOf(r, m) + d

\* An account stays balanced that changes by what its buffers do.
LEMMA BalanceKept ==
  ASSUME NEW r, NEW m, Balanced(r, m), NEW d \in Int, NEW e \in Int, NEW c, c = d + e,
         PacketsStep(r, m, d), EntriesStep(r, m, e), UsageStep(r, m, c)
  PROVE  Balanced(r, m)'
<1>1. Cardinality(PacketsOf(r, m)) \in Nat /\ Cardinality(EntriesOf(r, m)) \in Nat
  BY FS_CardinalityType DEF Balanced
<1>2. PICK a, b, u : /\ a = Cardinality(PacketsOf(r, m)) /\ b = Cardinality(EntriesOf(r, m))
                     /\ u = UsageOf(r, m)
  OBVIOUS
<1>3. u = a + b /\ a \in Nat /\ b \in Nat
  BY <1>1, <1>2 DEF Balanced
<1>4. u + (d + e) = (a + d) + (b + e)
  BY ONLY <1>3, d \in Int, e \in Int
<1>5. /\ Cardinality(PacketsOf(r, m)') = a + d /\ Cardinality(EntriesOf(r, m)') = b + e
      /\ UsageOf(r, m)' = u + (d + e)
  BY <1>2 DEF PacketsStep, EntriesStep, UsageStep
<1>6. QED
  BY <1>4, <1>5 DEF Balanced, PacketsStep, EntriesStep

\* The buffers of a rank after a step of each kind.
LEMMA PacketsSame ==
  ASSUME HoldsSame, NEW r \in Ranks, NEW m, IsFiniteSet(PacketsOf(r, m))
  PROVE  PacketsStep(r, m, 0)
<1>1. PacketsOf(r, m)' = PacketsOf(r, m)
  BY DEF PacketsOf, HoldsSame
<1>2. Cardinality(PacketsOf(r, m)) \in Nat
  BY FS_CardinalityType
<1>3. QED
  BY <1>1, <1>2 DEF PacketsStep

\* The rank that gets a buffer has one more packet, for whom it is charged to.
LEMMA PacketsMore ==
  ASSUME NEW r0 \in Ranks, NEW p \in Packet, Buffer(p), HoldsMore(r0, p), ~Holds(r0, p),
         NEW r \in Ranks, NEW m, IsFiniteSet(PacketsOf(r, m))
  PROVE  PacketsStep(r, m, One(r = r0 /\ ChargedTo(r0, p) = m))
<1>0. Cardinality(PacketsOf(r, m)) \in Nat
  BY FS_CardinalityType
<1>1. \A q : q \in PacketsOf(r, m)' <=>
        q \in Packet /\ Buffer(q) /\ (Holds(r, q) \/ (r = r0 /\ q = p)) /\ ChargedTo(r, q) = m
  BY DEF PacketsOf, HoldsMore
<1>2. CASE r = r0 /\ ChargedTo(r0, p) = m
  <2>1. PacketsOf(r, m)' = PacketsOf(r, m) \cup {p}
    BY <1>1, <1>2 DEF PacketsOf
  <2>2. p \notin PacketsOf(r, m)
    BY <1>2 DEF PacketsOf
  <2>3. QED
    BY <1>2, <2>1, <2>2, FS_AddElement DEF PacketsStep, One
<1>3. CASE ~(r = r0 /\ ChargedTo(r0, p) = m)
  <2>1. PacketsOf(r, m)' = PacketsOf(r, m)
    BY <1>1, <1>3 DEF PacketsOf
  <2>2. QED
    BY <1>0, <1>3, <2>1 DEF PacketsStep, One
<1>4. QED
  BY <1>2, <1>3

\* The rank that gives a buffer away has one less.
LEMMA PacketsLess ==
  ASSUME NEW r0 \in Ranks, NEW p \in Packet, Buffer(p), HoldsLess(r0, p), Holds(r0, p),
         NEW r \in Ranks, NEW m, IsFiniteSet(PacketsOf(r, m))
  PROVE  PacketsStep(r, m, -One(r = r0 /\ ChargedTo(r0, p) = m))
<1>0. Cardinality(PacketsOf(r, m)) \in Nat
  BY FS_CardinalityType
<1>1. \A q : q \in PacketsOf(r, m)' <=>
        q \in Packet /\ Buffer(q) /\ Holds(r, q) /\ ~(r = r0 /\ q = p) /\ ChargedTo(r, q) = m
  BY DEF PacketsOf, HoldsLess
<1>2. CASE r = r0 /\ ChargedTo(r0, p) = m
  <2>1. PacketsOf(r, m)' = PacketsOf(r, m) \ {p}
    BY <1>1, <1>2 DEF PacketsOf
  <2>2. p \in PacketsOf(r, m)
    BY <1>2 DEF PacketsOf
  <2>3. /\ IsFiniteSet(PacketsOf(r, m)')
        /\ Cardinality(PacketsOf(r, m)') = Cardinality(PacketsOf(r, m)) - 1
    BY <2>1, <2>2, FS_RemoveElement
  <2>4. QED
    BY <1>0, <1>2, <2>3 DEF PacketsStep, One
<1>3. CASE ~(r = r0 /\ ChargedTo(r0, p) = m)
  <2>1. PacketsOf(r, m)' = PacketsOf(r, m)
    BY <1>1, <1>3 DEF PacketsOf
  <2>2. QED
    BY <1>0, <1>3, <2>1 DEF PacketsStep, One
<1>4. QED
  BY <1>2, <1>3

\* Nothing changes if the rank held it before, or does not hold it anyway.
LEMMA HeldAlready ==
  ASSUME NEW r \in Ranks, NEW p
  PROVE  /\ HoldsMore(r, p) /\ (~Buffer(p) \/ Holds(r, p)) => HoldsSame
         /\ HoldsLess(r, p) /\ (~Buffer(p) \/ ~Holds(r, p)) => HoldsSame
BY DEF HoldsMore, HoldsLess, HoldsSame

\* The entries of an in-port.
LEMMA EntriesAt ==
  ASSUME NEW r, NEW m, NEW x
  PROVE  /\ x \in EntriesOf(r, m) <=>
              \E f \in Filters : \E k \in DOMAIN inq[f] :
                x = <<f, k>> /\ HostOf[f] = r /\ inq[f][k].muid = m
         /\ x \in EntriesOf(r, m)' <=>
              \E f \in Filters : \E k \in DOMAIN inq'[f] :
                x = <<f, k>> /\ HostOf[f] = r /\ inq'[f][k].muid = m
BY DEF EntriesOf, FiltersOn

\* In-ports that do not change hold the same entries.
LEMMA EntriesSame ==
  ASSUME inq' = inq, NEW r, NEW m, IsFiniteSet(EntriesOf(r, m))
  PROVE  EntriesStep(r, m, 0)
<1>1. EntriesOf(r, m)' = EntriesOf(r, m)
  BY DEF EntriesOf
<1>2. Cardinality(EntriesOf(r, m)) \in Nat
  BY FS_CardinalityType
<1>3. QED
  BY <1>1, <1>2 DEF EntriesStep

\* One more entry, when a buffer is put in an in-port.
LEMMA EntriesMore ==
  ASSUME TypeOK, NEW g \in Filters, NEW e \in InBuf, inq' = [inq EXCEPT ![g] = Append(@, e)],
         NEW r, NEW m, IsFiniteSet(EntriesOf(r, m))
  PROVE  EntriesStep(r, m, One(HostOf[g] = r /\ e.muid = m))
<1>0. Cardinality(EntriesOf(r, m)) \in Nat
  BY FS_CardinalityType
<1>1. inq \in [Filters -> Seq(InBuf)]
  BY DEF TypeOK, PortTypes
<1>2. PICK q : q = inq[g]
  OBVIOUS
<1>3. PICK n : n = Len(q) + 1
  OBVIOUS
<1>4. q \in Seq(InBuf) /\ \A f \in Filters : inq'[f] = IF f = g THEN Append(q, e) ELSE inq[f]
  BY <1>1, <1>2
<1>5. /\ \A i \in DOMAIN q : i \in DOMAIN Append(q, e) /\ Append(q, e)[i] = q[i] /\ i # n
      /\ n \in DOMAIN Append(q, e) /\ Append(q, e)[n] = e
      /\ \A i \in DOMAIN Append(q, e) : i \in DOMAIN q \/ i = n
  BY <1>3, <1>4, AppendAt
<1>6. ASSUME NEW x
      PROVE  x \in EntriesOf(r, m)' <=>
               x \in EntriesOf(r, m) \/ (x = <<g, n>> /\ HostOf[g] = r /\ e.muid = m)
  <2>1. ASSUME x \in EntriesOf(r, m)'
        PROVE  x \in EntriesOf(r, m) \/ (x = <<g, n>> /\ HostOf[g] = r /\ e.muid = m)
    <3>1. PICK f \in Filters : \E k \in DOMAIN inq'[f] :
            x = <<f, k>> /\ HostOf[f] = r /\ inq'[f][k].muid = m
      BY <2>1, EntriesAt
    <3>2. PICK k \in DOMAIN inq'[f] : x = <<f, k>> /\ HostOf[f] = r /\ inq'[f][k].muid = m
      BY <3>1
    <3>3. (k \in DOMAIN inq[f] /\ inq'[f][k] = inq[f][k]) \/ (f = g /\ k = n /\ inq'[f][k] = e)
      BY <1>2, <1>4, <1>5, <3>2
    <3>4. QED
      BY <3>2, <3>3, EntriesAt
  <2>2. ASSUME x \in EntriesOf(r, m)
        PROVE  x \in EntriesOf(r, m)'
    <3>1. PICK f \in Filters : \E k \in DOMAIN inq[f] :
            x = <<f, k>> /\ HostOf[f] = r /\ inq[f][k].muid = m
      BY <2>2, EntriesAt
    <3>2. PICK k \in DOMAIN inq[f] : x = <<f, k>> /\ HostOf[f] = r /\ inq[f][k].muid = m
      BY <3>1
    <3>3. k \in DOMAIN inq'[f] /\ inq'[f][k] = inq[f][k]
      BY <1>2, <1>4, <1>5, <3>2
    <3>4. QED
      BY <3>2, <3>3, EntriesAt
  <2>3. ASSUME x = <<g, n>>, HostOf[g] = r, e.muid = m
        PROVE  x \in EntriesOf(r, m)'
    <3>1. n \in DOMAIN inq'[g] /\ inq'[g][n] = e
      BY <1>4, <1>5
    <3>2. QED
      BY <2>3, <3>1, EntriesAt
  <2>4. QED
    BY <2>1, <2>2, <2>3
<1>7. <<g, n>> \notin EntriesOf(r, m)
  <2> SUFFICES ASSUME <<g, n>> \in EntriesOf(r, m)
               PROVE  FALSE
    OBVIOUS
  <2>1. \E f \in Filters : \E k \in DOMAIN inq[f] : <<g, n>> = <<f, k>>
    BY EntriesAt
  <2>2. n \in DOMAIN q
    BY <1>2, <2>1
  <2>3. QED
    BY <1>5, <2>2
<1>8. CASE HostOf[g] = r /\ e.muid = m
  <2>1. EntriesOf(r, m)' = EntriesOf(r, m) \cup {<<g, n>>}
    BY <1>6, <1>8
  <2>2. /\ IsFiniteSet(EntriesOf(r, m)')
        /\ Cardinality(EntriesOf(r, m)') = Cardinality(EntriesOf(r, m)) + 1
    BY <1>7, <2>1, FS_AddElement
  <2>3. QED
    BY <1>0, <1>8, <2>2 DEF EntriesStep, One
<1>9. CASE ~(HostOf[g] = r /\ e.muid = m)
  <2>1. EntriesOf(r, m)' = EntriesOf(r, m)
    BY <1>6, <1>9
  <2>2. QED
    BY <1>0, <1>9, <2>1 DEF EntriesStep, One
<1>10. QED
  BY <1>8, <1>9

\* One entry less, when a filter reads it.
LEMMA EntriesLess ==
  ASSUME TypeOK, NEW g \in Filters, inq[g] # <<>>, inq' = [inq EXCEPT ![g] = Tail(@)],
         NEW e, e = Head(inq[g]), NEW r, NEW m, IsFiniteSet(EntriesOf(r, m))
  PROVE  EntriesStep(r, m, -One(HostOf[g] = r /\ e.muid = m))
<1>0. Cardinality(EntriesOf(r, m)) \in Nat
  BY FS_CardinalityType
<1>1. inq \in [Filters -> Seq(InBuf)]
  BY DEF TypeOK, PortTypes
<1>2. PICK q : q = inq[g]
  OBVIOUS
<1>3. q \in Seq(InBuf) /\ \A f \in Filters : inq'[f] = IF f = g THEN Tail(q) ELSE inq[f]
  BY <1>1, <1>2
<1>4. /\ 1 \in DOMAIN q /\ e = q[1]
      /\ \A j \in DOMAIN Tail(q) : j \in Nat /\ j + 1 \in DOMAIN q /\ Tail(q)[j] = q[j + 1] /\ j # 0
      /\ \A i \in DOMAIN q : i = 1 \/ (i - 1 \in DOMAIN Tail(q) /\ Tail(q)[i - 1] = q[i])
      /\ \A i \in DOMAIN q : i \in Nat
  BY <1>2, <1>3, TailAt
<1> DEFINE A == EntriesOf(r, m)'
           B == EntriesOf(r, m) \ {<<g, 1>>}
           F == [x \in A |-> IF x[1] = g THEN <<g, x[2] + 1>> ELSE x]
<1>5. ASSUME NEW x \in A
      PROVE  F[x] \in B /\ (x[1] = g => x = <<g, x[2]>> /\ x[2] \in Nat)
  <2>1. PICK f \in Filters : \E k \in DOMAIN inq'[f] :
          x = <<f, k>> /\ HostOf[f] = r /\ inq'[f][k].muid = m
    BY EntriesAt
  <2>2. PICK k \in DOMAIN inq'[f] : x = <<f, k>> /\ HostOf[f] = r /\ inq'[f][k].muid = m
    BY <2>1
  <2>3. F[x] = IF f = g THEN <<g, k + 1>> ELSE <<f, k>>
    <3>1. F[x] = IF x[1] = g THEN <<g, x[2] + 1>> ELSE x
      OBVIOUS
    <3>2. x = <<f, k>> /\ x[1] = f /\ x[2] = k
      BY <2>2
    <3> HIDE DEF A, B, F
    <3>3. QED
      BY <3>1, <3>2
  <2> HIDE DEF F
  <2>4. CASE f = g
    <3>0. k \in DOMAIN Tail(q) /\ inq'[g] = Tail(q)
      BY <1>3, <2>2, <2>4
    <3>1. k \in Nat /\ k + 1 \in DOMAIN inq[g] /\ inq[g][k + 1] = inq'[g][k] /\ k # 0
      BY ONLY <1>2, <1>4, <3>0
    <3>2. <<g, k + 1>> \in EntriesOf(r, m)
      BY <2>2, <2>4, <3>1, EntriesAt
    <3>3. <<g, k + 1>> # <<g, 1>>
      BY <3>1
    <3>4. QED
      BY <2>2, <2>3, <2>4, <3>1, <3>2, <3>3
  <2>5. CASE f # g
    <3>1. inq'[f] = inq[f]
      BY <1>3, <2>5
    <3>2. <<f, k>> \in EntriesOf(r, m)
      BY <2>2, <3>1, EntriesAt
    <3>3. QED
      BY <2>2, <2>3, <2>5, <3>2
  <2>6. QED
    BY <2>4, <2>5
<1>6. ASSUME NEW x \in A, NEW y \in A, F[x] = F[y]
      PROVE  x = y
  <2>1. /\ F[x] = IF x[1] = g THEN <<g, x[2] + 1>> ELSE x
        /\ F[y] = IF y[1] = g THEN <<g, y[2] + 1>> ELSE y
    OBVIOUS
  <2> HIDE DEF A, B, F
  <2>2. /\ x[1] = g => x = <<g, x[2]>> /\ x[2] \in Nat
        /\ y[1] = g => y = <<g, y[2]>> /\ y[2] \in Nat
    BY <1>5
  <2>3. CASE x[1] = g /\ y[1] = g
    <3>1. PICK i, k : i = x[2] + 1 /\ k = y[2] + 1
      OBVIOUS
    <3>2. <<g, i>> = <<g, k>>
      BY <1>6, <2>1, <2>3, <3>1
    <3>3. i = k
      BY ONLY <3>2
    <3>4. QED
      BY <2>2, <2>3, <3>1, <3>3
  <2>4. CASE x[1] # g /\ y[1] # g
    BY <1>6, <2>1, <2>4
  <2>5. CASE x[1] = g /\ y[1] # g
    <3>1. y = <<g, x[2] + 1>>
      BY <1>6, <2>1, <2>5
    <3>2. QED
      BY <2>5, <3>1
  <2>6. CASE x[1] # g /\ y[1] = g
    <3>1. x = <<g, y[2] + 1>>
      BY <1>6, <2>1, <2>6
    <3>2. QED
      BY <2>6, <3>1
  <2>7. QED
    BY <2>3, <2>4, <2>5, <2>6
<1>7. ASSUME NEW y \in B
      PROVE  \E x \in A : F[x] = y
  <2>1. PICK f \in Filters : \E k \in DOMAIN inq[f] :
          y = <<f, k>> /\ HostOf[f] = r /\ inq[f][k].muid = m
    BY EntriesAt
  <2>2. PICK k \in DOMAIN inq[f] : y = <<f, k>> /\ HostOf[f] = r /\ inq[f][k].muid = m
    BY <2>1
  <2>3. CASE f = g
    <3>1. k # 1 /\ k \in Nat
      BY <1>2, <1>4, <2>2, <2>3
    <3>2. k - 1 \in DOMAIN inq'[g] /\ inq'[g][k - 1] = inq[g][k]
      <4>1. k \in DOMAIN q
        BY <1>2, <2>2, <2>3
      <4>2. k - 1 \in DOMAIN Tail(q) /\ Tail(q)[k - 1] = q[k]
        BY ONLY <1>4, <3>1, <4>1
      <4>3. inq'[g] = Tail(q)
        BY <1>3
      <4>4. QED
        BY <1>2, <4>2, <4>3
    <3>3. <<g, k - 1>> \in A
      BY <2>2, <2>3, <3>2, EntriesAt
    <3>4. F[<<g, k - 1>>] = <<g, (k - 1) + 1>>
      BY <3>3
    <3>5. (k - 1) + 1 = k
      BY <3>1
    <3> HIDE DEF A, F
    <3>6. QED
      BY <2>2, <2>3, <3>3, <3>4, <3>5
  <2>4. CASE f # g
    <3>1. inq'[f] = inq[f]
      BY <1>3, <2>4
    <3>2. <<f, k>> \in A
      BY <2>2, <3>1, EntriesAt
    <3>3. F[<<f, k>>] = <<f, k>>
      BY <2>4, <3>2
    <3> HIDE DEF A, F
    <3>4. QED
      BY <2>2, <3>2, <3>3
  <2>5. QED
    BY <2>3, <2>4
<1>8. F \in [A -> B]
  BY <1>5
<1> HIDE DEF A, B, F
<1>9. F \in Bijection(A, B)
  BY <1>6, <1>7, <1>8 DEF Bijection, Injection, Surjection, IsInjective
<1>10. /\ IsFiniteSet(B)
       /\ Cardinality(B) = Cardinality(EntriesOf(r, m)) - One(<<g, 1>> \in EntriesOf(r, m))
  <2>1. PICK S, x : S = EntriesOf(r, m) /\ x = <<g, 1>>
    OBVIOUS
  <2>2. /\ IsFiniteSet(S \ {x})
        /\ Cardinality(S \ {x}) = IF x \in S THEN Cardinality(S) - 1 ELSE Cardinality(S)
    BY <2>1, FS_RemoveElement
  <2>3. Cardinality(S) \in Nat
    BY <1>0, <2>1
  <2>4. Cardinality(S \ {x}) = Cardinality(S) - One(x \in S)
    BY <2>2, <2>3 DEF One
  <2>5. QED
    BY <2>1, <2>2, <2>4 DEF B
<1>11. IsFiniteSet(A) /\ Cardinality(A) = Cardinality(B)
  <2>1. ExistsBijection(B, A)
    BY <1>9, Fun_ExistsBijSymmetric DEF ExistsBijection
  <2>2. QED
    BY <1>10, <2>1, FS_Bijection
<1>12. <<g, 1>> \in EntriesOf(r, m) <=> HostOf[g] = r /\ e.muid = m
  <2>1. \A f \in Filters : \A k \in DOMAIN inq[f] : <<g, 1>> = <<f, k>> => f = g /\ k = 1
    OBVIOUS
  <2>2. QED
    BY <1>2, <1>4, <2>1, EntriesAt
<1>13. QED
  BY <1>0, <1>10, <1>11, <1>12 DEF EntriesStep, One, A

-----------------------------------------------------------------------------
(* How much a step charges and gives back                                  *)

\* The runtime and nobody are not filters; who has an account at a rank runs there.
LEMMA MuidFacts ==
  /\ RuntimeMuid \notin Filters /\ NoMuid \notin Filters /\ NoMuid # RuntimeMuid
  /\ \A r \in Ranks : \A m \in MuidsOf(r) :
       /\ m # NoMuid
       /\ m = RuntimeMuid \/ (m \in Filters /\ HostOf[m] = r /\ m # RuntimeMuid)
  /\ \A r \in Ranks : RuntimeMuid \in MuidsOf(r)
  /\ \A f \in Filters : HostOf[f] # Console => HostOf[f] \in Ranks /\ f \in MuidsOf(HostOf[f])
BY FiltersAssumption, Topology DEF RuntimeMuid, NoMuid, MuidsOf, FiltersOn, AllNodes

\* A step that changes what muid is charged at rank r0 by d, and nothing else.
ChargeStep(r0, muid, d) ==
  \A r \in Ranks : \A m \in MuidsOf(r) : UsageStep(r, m, IF r = r0 /\ m = muid THEN d ELSE 0)

\* Accounts that are not touched.
LEMMA UsageSame ==
  ASSUME TypeOK, LimitsInv, UNCHANGED <<usage, rtUsage>>, NEW r0, NEW muid
  PROVE  LimitsInv' /\ ChargeStep(r0, muid, 0)
<1>1. LimitsInv'
  BY DEF LimitsInv
<1>2. \A r \in Ranks : \A m \in MuidsOf(r) : UsageOf(r, m)' = UsageOf(r, m) /\ UsageOf(r, m) \in Int
  BY MuidFacts DEF UsageOf, TypeOK, PortTypes
<1>3. QED
  BY <1>1, <1>2 DEF ChargeStep, UsageStep

\* MemUsage::reduce gives one buffer back to one account of one rank.
LEMMA ReleaseUsage ==
  ASSUME TypeOK, LimitsInv, NEW r0 \in Ranks, NEW muid, Release(r0, muid),
         muid \in Filters => HostOf[muid] = r0
  PROVE  LimitsInv' /\ ChargeStep(r0, muid, -1)
<1>1. usage \in [Filters -> Int] /\ rtUsage \in [Ranks -> Int]
  BY DEF TypeOK, PortTypes
<1>2. \A f \in Filters : usage'[f] = IF f = muid THEN usage[f] - 1 ELSE usage[f]
  BY <1>1 DEF Release
<1>3. \A r \in Ranks : rtUsage'[r] = IF muid = RuntimeMuid /\ r = r0 THEN rtUsage[r] - 1
                                     ELSE rtUsage[r]
  BY <1>1 DEF Release
<1>4. LimitsInv'
  <2>1. \A r \in Ranks : rtUsage'[r] <= RuntimeMem
    <3>1. \A r \in Ranks : rtUsage[r] <= RuntimeMem /\ rtUsage[r] \in Int
      BY <1>1 DEF LimitsInv
    <3>2. RuntimeMem \in Int
      BY BoundsAssumption
    <3>3. QED
      BY <1>3, <3>1, <3>2
  <2>2. ASSUME NEW f \in Filters
        PROVE  IF HostOf[f] = Console THEN usage'[f] = 0 ELSE usage'[f] <= FilterMem
    <3>1. usage[f] \in Int /\ FilterMem \in Int
      BY <1>1, BoundsAssumption
    <3>2. HostOf[f] = Console => f # muid
      BY Gateways
    <3>3. IF HostOf[f] = Console THEN usage[f] = 0 ELSE usage[f] <= FilterMem
      BY DEF LimitsInv
    <3>4. QED
      BY <1>2, <3>1, <3>2, <3>3
  <2>3. QED
    BY <2>1, <2>2 DEF LimitsInv
<1>5. ASSUME NEW r \in Ranks, NEW m \in MuidsOf(r)
      PROVE  UsageOf(r, m)' = UsageOf(r, m) + (IF r = r0 /\ m = muid THEN -1 ELSE 0)
  <2>1. CASE m = RuntimeMuid
    <3>1. rtUsage[r] \in Int
      BY <1>1
    <3>2. QED
      BY <1>3, <2>1, <3>1 DEF UsageOf
  <2>2. CASE m \in Filters /\ HostOf[m] = r /\ m # RuntimeMuid
    <3>1. usage[m] \in Int
      BY <1>1, <2>2
    <3>2. m = muid => r = r0
      BY <2>2
    <3>3. QED
      BY <1>2, <2>2, <3>1, <3>2 DEF UsageOf
  <2>3. QED
    BY <2>1, <2>2, MuidFacts
<1>6. QED
  BY <1>4, <1>5 DEF ChargeStep, UsageStep

\* MemUsage::accumulate charges one buffer to one account of one rank.
LEMMA ChargeUsage ==
  ASSUME TypeOK, LimitsInv, NEW r0 \in Ranks, NEW p, ChargeBody(r0, p)
  PROVE  LimitsInv' /\ ChargeStep(r0, RuntimeMuid, One(Buffer(p)))
<1>1. usage \in [Filters -> Int] /\ rtUsage \in [Ranks -> Int] /\ usage' = usage
  BY DEF TypeOK, PortTypes, ChargeBody
<1>2. CASE ~Buffer(p)
  <2>1. rtUsage' = rtUsage /\ One(Buffer(p)) = 0
    BY <1>2 DEF ChargeBody, Buffer, One
  <2>2. QED
    BY <1>1, <2>1, UsageSame
<1>3. CASE Buffer(p)
  <2>1. rtUsage[r0] < RuntimeMem /\ rtUsage' = [rtUsage EXCEPT ![r0] = @ + 1] /\ One(Buffer(p)) = 1
    BY <1>3 DEF ChargeBody, Buffer, One, HasRoom
  <2>2. \A r \in Ranks : rtUsage'[r] = IF r = r0 THEN rtUsage[r] + 1 ELSE rtUsage[r]
    BY <1>1, <2>1
  <2>3. LimitsInv'
    <3>1. \A r \in Ranks : rtUsage[r] <= RuntimeMem /\ rtUsage[r] \in Int
      BY <1>1 DEF LimitsInv
    <3>2. RuntimeMem \in Int
      BY BoundsAssumption
    <3>3. \A r \in Ranks : rtUsage'[r] <= RuntimeMem
      BY <2>1, <2>2, <3>1, <3>2
    <3>4. QED
      BY <1>1, <3>3 DEF LimitsInv
  <2>4. ASSUME NEW r \in Ranks, NEW m \in MuidsOf(r)
        PROVE  UsageOf(r, m)' = UsageOf(r, m) + (IF r = r0 /\ m = RuntimeMuid THEN 1 ELSE 0)
    <3>1. CASE m = RuntimeMuid
      <4>1. rtUsage[r] \in Int
        BY <1>1
      <4>2. QED
        BY <2>2, <3>1, <4>1 DEF UsageOf
    <3>2. CASE m \in Filters /\ m # RuntimeMuid
      <4>1. usage[m] \in Int
        BY <1>1, <3>2
      <4>2. QED
        BY <1>1, <3>2, <4>1 DEF UsageOf
    <3>3. QED
      BY <3>1, <3>2, MuidFacts
  <2>5. QED
    BY <2>1, <2>3, <2>4 DEF ChargeStep, UsageStep
<1>4. QED
  BY <1>2, <1>3

\* A filter that writes is charged itself, unless it runs in the console process.
LEMMA WriteUsage ==
  ASSUME TypeOK, LimitsInv, NEW w \in Filters, HostOf[w] # Console, CanPay(w),
         usage' = [usage EXCEPT ![w] = @ + 1], rtUsage' = rtUsage
  PROVE  LimitsInv' /\ ChargeStep(HostOf[w], w, 1)
<1>1. usage \in [Filters -> Int] /\ rtUsage \in [Ranks -> Int]
  BY DEF TypeOK, PortTypes
<1>2. /\ usage[w] < FilterMem
      /\ \A f \in Filters : usage'[f] = IF f = w THEN usage[f] + 1 ELSE usage[f]
  BY <1>1 DEF CanPay
<1>3. LimitsInv'
  <2>1. ASSUME NEW f \in Filters
        PROVE  IF HostOf[f] = Console THEN usage'[f] = 0 ELSE usage'[f] <= FilterMem
    <3>1. usage[f] \in Int /\ FilterMem \in Int
      BY <1>1, BoundsAssumption
    <3>2. IF HostOf[f] = Console THEN usage[f] = 0 ELSE usage[f] <= FilterMem
      BY DEF LimitsInv
    <3>3. QED
      BY <1>2, <3>1, <3>2
  <2>2. QED
    BY <2>1 DEF LimitsInv
<1>4. ASSUME NEW r \in Ranks, NEW m \in MuidsOf(r)
      PROVE  UsageOf(r, m)' = UsageOf(r, m) + (IF r = HostOf[w] /\ m = w THEN 1 ELSE 0)
  <2>1. CASE m = RuntimeMuid
    <3>1. rtUsage[r] \in Int /\ m # w
      BY <1>1, <2>1, MuidFacts
    <3>2. QED
      BY <2>1, <3>1 DEF UsageOf
  <2>2. CASE m \in Filters /\ HostOf[m] = r /\ m # RuntimeMuid
    <3>1. usage[m] \in Int
      BY <1>1, <2>2
    <3>2. QED
      BY <1>2, <2>2, <3>1 DEF UsageOf
  <2>3. QED
    BY <2>1, <2>2, MuidFacts
<1>5. QED
  BY <1>3, <1>4 DEF ChargeStep, UsageStep

\* Who is charged for what waits in the in-ports.
LEMMA EntryInvMore ==
  ASSUME TypeOK, EntryInv, NEW g \in Filters, NEW e \in InBuf,
         inq' = [inq EXCEPT ![g] = Append(@, e)],
         IF HostOf[g] = Console THEN e.muid = NoMuid ELSE e.muid \in MuidsOf(HostOf[g])
  PROVE  EntryInv'
<1>1. inq \in [Filters -> Seq(InBuf)]
  BY DEF TypeOK, PortTypes
<1>2. /\ inq[g] \in Seq(InBuf)
      /\ \A f \in Filters : inq'[f] = IF f = g THEN Append(inq[g], e) ELSE inq[f]
  BY <1>1
<1>3. ASSUME NEW f \in Filters, NEW k \in DOMAIN inq'[f]
      PROVE  (k \in DOMAIN inq[f] /\ inq'[f][k] = inq[f][k]) \/ (f = g /\ inq'[f][k] = e)
  BY <1>2, AppendAt
<1>4. ASSUME NEW f \in Filters, NEW k \in DOMAIN inq'[f]
      PROVE  IF HostOf[f] = Console THEN inq'[f][k].muid = NoMuid
             ELSE inq'[f][k].muid \in MuidsOf(HostOf[f])
  BY <1>3, <1>4 DEF EntryInv
<1>5. QED
  BY <1>4 DEF EntryInv, MuidsOf, FiltersOn

\* Reading an in-port keeps EntryInv.
LEMMA EntryInvLess ==
  ASSUME TypeOK, EntryInv, NEW g \in Filters, inq[g] # <<>>, inq' = [inq EXCEPT ![g] = Tail(@)]
  PROVE  EntryInv'
<1>1. inq \in [Filters -> Seq(InBuf)]
  BY DEF TypeOK, PortTypes
<1>2. /\ inq[g] \in Seq(InBuf)
      /\ \A f \in Filters : inq'[f] = IF f = g THEN Tail(inq[g]) ELSE inq[f]
  BY <1>1
<1>3. ASSUME NEW f \in Filters, NEW k \in DOMAIN inq'[f]
      PROVE  \E j \in DOMAIN inq[f] : inq'[f][k] = inq[f][j]
  BY <1>2, TailAt
<1>4. ASSUME NEW f \in Filters, NEW k \in DOMAIN inq'[f]
      PROVE  IF HostOf[f] = Console THEN inq'[f][k].muid = NoMuid
             ELSE inq'[f][k].muid \in MuidsOf(HostOf[f])
  BY <1>3, <1>4 DEF EntryInv
<1>5. QED
  BY <1>4 DEF EntryInv, MuidsOf, FiltersOn

\* Steps that do not touch the in-ports keep EntryInv.
LEMMA EntryInvSame ==
  ASSUME EntryInv, inq' = inq
  PROVE  EntryInv'
BY DEF EntryInv, MuidsOf, FiltersOn

-----------------------------------------------------------------------------
(* Each action keeps the accounts                                          *)

\* A step of which no account can tell anything.
LEMMA NothingCharged ==
  ASSUME TypeOK, MemInv, HoldsSame, PendingInv', UNCHANGED <<inq, usage, rtUsage>>
  PROVE  MemInv'
<1>1. LimitsInv' /\ ChargeStep(0, NoMuid, 0)
  BY UsageSame DEF MemInv
<1>2. EntryInv'
  BY EntryInvSame DEF MemInv
<1>3. ASSUME NEW r \in Ranks, NEW m \in MuidsOf(r)
      PROVE  Balanced(r, m)'
  <2>1. Balanced(r, m)
    BY DEF MemInv, AccountsInv
  <2>2. PacketsStep(r, m, 0) /\ EntriesStep(r, m, 0)
    BY <2>1, PacketsSame, EntriesSame DEF Balanced
  <2>3. UsageStep(r, m, 0)
    <3>1. UsageStep(r, m, IF r = 0 /\ m = NoMuid THEN 0 ELSE 0)
      BY <1>1 DEF ChargeStep
    <3>2. QED
      BY <3>1
  <2>4. QED
    BY <2>1, <2>2, <2>3, BalanceKept
<1>4. AccountsInv'
  BY <1>3 DEF AccountsInv, MuidsOf, FiltersOn
<1>5. QED
  BY <1>1, <1>2, <1>4 DEF MemInv

\* Rank r0 gets a buffer, and charges it to whom it is charged to.
LEMMA PacketCharged ==
  ASSUME TypeOK, MemInv, NEW r0 \in Ranks, NEW p \in Packet, Buffer(p),
         HoldsMore(r0, p), ~Holds(r0, p), PendingInv', LimitsInv', inq' = inq,
         NEW muid, muid = ChargedTo(r0, p), ChargeStep(r0, muid, 1)
  PROVE  MemInv'
<1>1. EntryInv'
  BY EntryInvSame DEF MemInv
<1>2. ASSUME NEW r \in Ranks, NEW m \in MuidsOf(r)
      PROVE  Balanced(r, m)'
  <2>1. Balanced(r, m)
    BY DEF MemInv, AccountsInv
  <2>2. EntriesStep(r, m, 0)
    BY <2>1, EntriesSame DEF Balanced
  <2>3. PICK d \in Int : d = IF r = r0 /\ m = muid THEN 1 ELSE 0
    OBVIOUS
  <2>4. PacketsStep(r, m, d)
    <3>1. PacketsStep(r, m, One(r = r0 /\ ChargedTo(r0, p) = m))
      BY <2>1, PacketsMore DEF Balanced
    <3>2. One(r = r0 /\ ChargedTo(r0, p) = m) = d
      BY <2>3 DEF One
    <3>3. QED
      BY <3>1, <3>2
  <2>5. UsageStep(r, m, d)
    BY <2>3 DEF ChargeStep
  <2>6. d = d + 0
    OBVIOUS
  <2>7. QED
    BY <2>1, <2>2, <2>4, <2>5, <2>6, BalanceKept
<1>3. AccountsInv'
  BY <1>2 DEF AccountsInv, MuidsOf, FiltersOn
<1>4. QED
  BY <1>1, <1>3 DEF MemInv

\* Rank r0 gives a buffer away, and gives back whom it was charged to.
LEMMA PacketReleased ==
  ASSUME TypeOK, MemInv, NEW r0 \in Ranks, NEW p \in Packet, Buffer(p),
         HoldsLess(r0, p), Holds(r0, p), PendingInv', LimitsInv', EntryInv',
         \A r \in Ranks : \A m \in MuidsOf(r) :
           IsFiniteSet(EntriesOf(r, m)) => EntriesStep(r, m, 0),
         NEW muid, muid = ChargedTo(r0, p), ChargeStep(r0, muid, -1)
  PROVE  MemInv'
<1>1. ASSUME NEW r \in Ranks, NEW m \in MuidsOf(r)
      PROVE  Balanced(r, m)'
  <2>1. Balanced(r, m)
    BY DEF MemInv, AccountsInv
  <2>2. EntriesStep(r, m, 0)
    BY <2>1 DEF Balanced
  <2>3. PICK d \in Int : d = IF r = r0 /\ m = muid THEN -1 ELSE 0
    OBVIOUS
  <2>4. PacketsStep(r, m, d)
    <3>1. PacketsStep(r, m, -One(r = r0 /\ ChargedTo(r0, p) = m))
      BY <2>1, PacketsLess DEF Balanced
    <3>2. -One(r = r0 /\ ChargedTo(r0, p) = m) = d
      BY <2>3 DEF One
    <3>3. QED
      BY <3>1, <3>2
  <2>5. UsageStep(r, m, d)
    BY <2>3 DEF ChargeStep
  <2>6. d = d + 0
    OBVIOUS
  <2>7. QED
    BY <2>1, <2>2, <2>4, <2>5, <2>6, BalanceKept
<1>2. AccountsInv'
  BY <1>1 DEF AccountsInv, MuidsOf, FiltersOn
<1>3. QED
  BY <1>2 DEF MemInv

\* A buffer comes to an in-port of rank r0, charged to muid.
LEMMA EntryCharged ==
  ASSUME TypeOK, MemInv, HoldsSame, PendingInv', LimitsInv', NEW g \in Filters,
         NEW r0 \in Ranks, HostOf[g] = r0, NEW e \in InBuf, e.muid \in MuidsOf(r0),
         inq' = [inq EXCEPT ![g] = Append(@, e)],
         NEW muid, muid = e.muid, ChargeStep(r0, muid, 1)
  PROVE  MemInv'
<1>1. EntryInv'
  BY EntryInvMore, Gateways DEF MemInv
<1>2. ASSUME NEW r \in Ranks, NEW m \in MuidsOf(r)
      PROVE  Balanced(r, m)'
  <2>1. Balanced(r, m)
    BY DEF MemInv, AccountsInv
  <2>2. PacketsStep(r, m, 0)
    BY <2>1, PacketsSame DEF Balanced
  <2>3. PICK d \in Int : d = IF r = r0 /\ m = muid THEN 1 ELSE 0
    OBVIOUS
  <2>4. EntriesStep(r, m, d)
    <3>1. EntriesStep(r, m, One(HostOf[g] = r /\ e.muid = m))
      BY <2>1, EntriesMore DEF Balanced
    <3>2. One(HostOf[g] = r /\ e.muid = m) = d
      BY <2>3 DEF One
    <3>3. QED
      BY <3>1, <3>2
  <2>5. UsageStep(r, m, d)
    BY <2>3 DEF ChargeStep
  <2>6. d = 0 + d
    OBVIOUS
  <2>7. QED
    BY <2>1, <2>2, <2>4, <2>5, <2>6, BalanceKept
<1>3. AccountsInv'
  BY <1>2 DEF AccountsInv, MuidsOf, FiltersOn
<1>4. QED
  BY <1>1, <1>3 DEF MemInv

\* A buffer goes from the bridge to an in-port, and stays charged to the same.
LEMMA PacketEntered ==
  ASSUME TypeOK, MemInv, NEW r0 \in Ranks, NEW p \in Packet, Buffer(p),
         HoldsLess(r0, p), Holds(r0, p), PendingInv', UNCHANGED <<usage, rtUsage>>,
         NEW g \in Filters, HostOf[g] = r0, NEW e \in InBuf, e.muid \in MuidsOf(r0),
         inq' = [inq EXCEPT ![g] = Append(@, e)], e.muid = ChargedTo(r0, p)
  PROVE  MemInv'
<1>1. EntryInv'
  BY EntryInvMore, Gateways DEF MemInv
<1>2. LimitsInv' /\ ChargeStep(r0, NoMuid, 0)
  BY UsageSame DEF MemInv
<1>3. ASSUME NEW r \in Ranks, NEW m \in MuidsOf(r)
      PROVE  Balanced(r, m)'
  <2>1. Balanced(r, m)
    BY DEF MemInv, AccountsInv
  <2>2. PICK d : d = One(r = r0 /\ e.muid = m)
    OBVIOUS
  <2>3. d \in Int /\ -d \in Int /\ 0 = (-d) + d
    BY <2>2 DEF One
  <2>4. EntriesStep(r, m, d)
    <3>1. EntriesStep(r, m, One(HostOf[g] = r /\ e.muid = m))
      BY <2>1, EntriesMore DEF Balanced
    <3>2. One(HostOf[g] = r /\ e.muid = m) = d
      BY <2>2 DEF One
    <3>3. QED
      BY <3>1, <3>2
  <2>5. PacketsStep(r, m, -d)
    <3>1. PacketsStep(r, m, -One(r = r0 /\ ChargedTo(r0, p) = m))
      BY <2>1, PacketsLess DEF Balanced
    <3>2. QED
      BY <2>2, <3>1
  <2>6. UsageStep(r, m, 0)
    <3>1. UsageStep(r, m, IF r = r0 /\ m = NoMuid THEN 0 ELSE 0)
      BY <1>2 DEF ChargeStep
    <3>2. QED
      BY <3>1
  <2>7. QED
    BY <2>1, <2>3, <2>4, <2>5, <2>6, BalanceKept
<1>4. AccountsInv'
  BY <1>3 DEF AccountsInv, MuidsOf, FiltersOn
<1>5. QED
  BY <1>1, <1>2, <1>4 DEF MemInv

-----------------------------------------------------------------------------
\* What the main loop does with the buffer it has taken from place a.  If it
\* came off a link its body is charged now; if it came over the bridge it was
\* charged by MPIFromConsoleThread.
LEMMA DeliverMem ==
  ASSUME TypeOK, TypeOK', OrderInv, MemInv, NEW r \in Ranks, NEW a, HandledBy(a, r), NEW ch,
         Taken(a, ch), NEW p, p = Head(Queue[a]), p.from # r, Deliver(r, p, ch), wrote' = wrote,
         \/ a \notin HeldPlaces(r) /\ ChargeBody(r, p)
         \/ a \in HeldPlaces(r) /\ UNCHANGED <<usage, rtUsage>>
  PROVE  MemInv'
<1>0. /\ QueuesInv /\ Genuine /\ a \in Places /\ Queue[a] # <<>>
      /\ PendingInv /\ EntryInv /\ AccountsInv /\ LimitsInv
  BY DEF OrderInv, StreamInv, Taken, MemInv
<1>1. /\ p \in Flying /\ p \in Packet /\ At(a, p)
  <2>1. p = Queue[a][1] /\ p \in Flying /\ p \in Packet
    BY <1>0, HeadFacts
  <2>2. 1 \in DOMAIN Queue[a]
    BY <1>0, QueueTyped, TailAt
  <2>3. QED
    BY <2>1, <2>2 DEF At
<1>2. Buffer(p) => (Holds(r, p) <=> a \in HeldPlaces(r))
  BY <1>0, <1>1, TakenIsHeld
<1>3. Buffer(p) => /\ p.reader \in Filters /\ HostOf[p.reader] = p.to
                   /\ ChargedTo(r, p) = RuntimeMuid
  <2>1. ASSUME Buffer(p)
        PROVE  p.reader \in Filters /\ HostOf[p.reader] = p.to
    <3>1. <<p.writer, p.reader>> \in Streams /\ p.to = HostOf[p.reader]
      BY <1>0, <1>1, <2>1, GenuineKinds DEF Buffer
    <3>2. QED
      BY <3>1, FiltersAssumption
  <2>2. QED
    BY <2>1 DEF ChargedTo, Buffer
<1>4. ASSUME ~Buffer(p)
      PROVE  UNCHANGED <<usage, rtUsage>> /\ (p.to = r => inq' = inq)
  BY <1>4 DEF Deliver, DeliverIn, ChargeBody, Buffer
<1>5. a \notin HeldPlaces(r) => LimitsInv' /\ ChargeStep(r, RuntimeMuid, One(Buffer(p)))
  BY <1>0, ChargeUsage
<1>6. CASE p.to = r
  <2>1. /\ DeliverIn(r, p) /\ chan' = ch /\ UNCHANGED <<toConsole, toProxy, pending>>
    BY <1>6 DEF Deliver
  <2>2. HoldsLess(r, p)
    BY <1>0, <1>6, <2>1, DeliveredHolds
  <2>3. PendingInv'
    <3>1. TakeStep(a) /\ pending' = pending
      BY <2>1, TakenIsTaken
    <3>2. QED
      BY <1>0, <3>1, DeliveredPending
  <2>4. CASE ~Buffer(p)
    BY <1>0, <1>4, <1>6, <2>2, <2>3, <2>4, HeldAlready, NothingCharged DEF MemInv
  <2>5. CASE Buffer(p)
    <3>1. PICK e : e = EntryOf(p, RuntimeMuid)
      OBVIOUS
    <3>2. e \in InBuf /\ e.muid = RuntimeMuid /\ RuntimeMuid \in MuidsOf(r)
      <4>1. RuntimeMuid \in Muid
        BY DEF Muid
      <4>2. QED
        BY <1>1, <3>1, <4>1, EntryTyped, MuidFacts DEF EntryOf
    <3>3. PICK g : g = p.reader
      OBVIOUS
    <3>4. g \in Filters /\ HostOf[g] = r /\ inq' = [inq EXCEPT ![g] = Append(@, e)]
      BY <1>3, <1>6, <2>1, <2>5, <3>1, <3>3 DEF DeliverIn, Buffer
    <3>5. CASE a \notin HeldPlaces(r)
      <4>1. HoldsSame
        BY <1>2, <2>2, <2>5, <3>5, HeldAlready
      <4>2. LimitsInv' /\ ChargeStep(r, RuntimeMuid, 1)
        BY <1>5, <2>5, <3>5 DEF One
      <4>3. QED
        BY <2>3, <3>2, <3>4, <4>1, <4>2, EntryCharged
    <3>6. CASE a \in HeldPlaces(r)
      <4>1. Holds(r, p) /\ UNCHANGED <<usage, rtUsage>> /\ e.muid = ChargedTo(r, p)
        BY <1>2, <1>3, <2>5, <3>2, <3>6
      <4>2. QED
        BY <1>1, <2>2, <2>3, <2>5, <3>2, <3>4, <4>1, PacketEntered
    <3>7. QED
      BY <3>5, <3>6
  <2>6. QED
    BY <2>4, <2>5
<1>7. CASE p.to # r
  <2>1. DeliverElsewhere(r, p, ch) /\ inq' = inq
    BY <1>7 DEF Deliver, portVars
  <2>2. HoldsMore(r, p) /\ PendingInv'
    BY <1>0, <1>7, <2>1, PassOnHolds, PassOnPending
  <2>3. CASE ~Buffer(p) \/ a \in HeldPlaces(r)
    <3>1. HoldsSame
      BY <1>2, <2>2, <2>3, HeldAlready
    <3>2. UNCHANGED <<usage, rtUsage>>
      BY <1>4, <2>3
    <3>3. QED
      BY <2>1, <2>2, <3>1, <3>2, NothingCharged
  <2>4. CASE Buffer(p) /\ a \notin HeldPlaces(r)
    <3>1. ~Holds(r, p) /\ RuntimeMuid = ChargedTo(r, p)
      BY <1>2, <1>3, <2>4
    <3>2. LimitsInv' /\ ChargeStep(r, RuntimeMuid, 1)
      BY <1>5, <2>4 DEF One
    <3>3. QED
      BY <1>1, <2>1, <2>2, <2>4, <3>1, <3>2, PacketCharged
  <2>5. QED
    BY <2>3, <2>4
<1>8. QED
  BY <1>6, <1>7

\* No link brings a rank its own packets back.
LEMMA FromElsewhere ==
  ASSUME TypeOK, QueuesInv, Genuine, NEW r \in Ranks, NEW a \in Places, Queue[a] # <<>>,
         \/ \E i \in Ranks : a = Chan(i, r)
         \/ a = FromConsole
         \/ a = ProxyIn(ClusterOf[r])
  PROVE  Head(Queue[a]).from # r
<1>1. PICK m, n : m = Head(Queue[a]).from /\ n = Head(Queue[a]).to
  OBVIOUS
<1>2. OnRoute(a, m, n) /\ m \in AllNodes /\ n \in AllNodes /\ m # n
  BY <1>1, HeadFacts
<1>3. CASE \E i \in Ranks : a = Chan(i, r)
  <2>1. PICK i \in Ranks : a = Chan(i, r)
    BY <1>3
  <2>2. CASE r = n
    BY <1>1, <1>2, <2>2
  <2>3. CASE r # n
    BY <1>1, <1>2, <2>1, <2>3, AtChan
  <2>4. QED
    BY <2>2, <2>3
<1>4. CASE a = FromConsole
  BY <1>1, <1>2, <1>4, AtConsole, Gateways
<1>5. CASE a = ProxyIn(ClusterOf[r])
  <2>1. ClusterOf[r] = ClusterRank(n) /\ ClusterRank(m) # ClusterRank(n)
    BY <1>2, <1>5, AtProxy, Gateways
  <2>2. QED
    BY <1>1, <2>1, Gateways
<1>6. QED
  BY <1>3, <1>4, <1>5

-----------------------------------------------------------------------------
\* The main loop sends a packet of its out-queue.
LEMMA StartSendMem ==
  ASSUME TypeOK, TypeOK', OrderInv, MemInv, NEW r \in Ranks, StartSend(r)
  PROVE  MemInv'
<1> DEFINE a == OutQ(r)
<1>0. QueuesInv /\ Genuine /\ PendingInv
  BY DEF OrderInv, StreamInv, MemInv
<1>1. Taken(a, chan) /\ Head(Queue[a]) = Head(outq[r]) /\ HandledBy(a, r) /\ a \in HeldPlaces(r)
  BY StartSendTakes, HeldPlacesFacts DEF HandledBy
<1>2. PICK p : p = Head(Queue[a])
  OBVIOUS
<1>3. DeliverElsewhere(r, p, chan)
  BY <1>1, <1>2, StartSendTakes
<1>4. UNCHANGED <<inq, wrote, usage, rtUsage>>
  BY DEF StartSend, filterVars, portVars, memVars
<1>5. p.to # r
  <2>1. a \in Places /\ Queue[a] # <<>>
    BY <1>1 DEF Taken
  <2>2. OnRoute(a, p.from, p.to) /\ p.from # p.to
    BY <1>0, <1>2, <2>1, HeadFacts
  <2>3. p.from = r
    BY <2>2, AtOutQ
  <2>4. QED
    BY <2>2, <2>3
<1> HIDE DEF a
<1>6. HoldsMore(r, p) /\ PendingInv'
  BY <1>0, <1>1, <1>2, <1>3, <1>4, <1>5, PassOnHolds, PassOnPending
<1>7. Buffer(p) => Holds(r, p)
  <2>1. a \in Places /\ Queue[a] # <<>>
    BY <1>1 DEF Taken
  <2>2. At(a, p)
    <3>1. p = Queue[a][1] /\ 1 \in DOMAIN Queue[a]
      BY <1>0, <1>2, <2>1, HeadFacts, QueueTyped, TailAt
    <3>2. QED
      BY <3>1 DEF At
  <2>3. QED
    BY <1>0, <1>1, <2>1, <2>2, TakenIsHeld
<1>8. HoldsSame
  BY <1>6, <1>7, HeldAlready
<1>9. QED
  BY <1>4, <1>6, <1>8, NothingCharged

\* The main loop receives a packet from another rank.
LEMMA ReceiveMem ==
  ASSUME TypeOK, TypeOK', OrderInv, MemInv, NEW i \in Ranks, NEW r \in Ranks, Receive(i, r)
  PROVE  MemInv'
<1> DEFINE a == Chan(i, r)
           ch == [chan EXCEPT ![i][r] = Tail(@)]
<1>0. QueuesInv /\ Genuine
  BY DEF OrderInv, StreamInv
<1>1. Taken(a, ch) /\ Head(Queue[a]) = Head(chan[i][r]) /\ Deliver(r, Head(chan[i][r]), ch)
  BY ReceiveTakes
<1>2. HandledBy(a, r) /\ a \notin HeldPlaces(r)
  BY HeldPlacesFacts DEF HandledBy
<1>3. wrote' = wrote /\ ChargeBody(r, Head(chan[i][r]))
  BY DEF Receive, filterVars
<1>4. PICK p : p = Head(Queue[a])
  OBVIOUS
<1>5. p.from # r
  BY <1>0, <1>1, <1>4, FromElsewhere DEF Taken
<1> HIDE DEF a, ch
<1>6. Deliver(r, p, ch) /\ ChargeBody(r, p)
  BY <1>1, <1>3, <1>4
<1>7. QED
  BY <1>1, <1>2, <1>3, <1>4, <1>5, <1>6, DeliverMem

\* Rank 0 handles what MPIFromConsoleThread has read.
LEMMA HandleConsoleMem ==
  ASSUME TypeOK, TypeOK', OrderInv, MemInv, NEW r \in Ranks, HandleConsole(r)
  PROVE  MemInv'
<1> DEFINE a == FromConsole
<1>0. QueuesInv /\ Genuine /\ r = 0
  BY DEF OrderInv, StreamInv, HandleConsole, HandlesConsole
<1>1. /\ Taken(a, chan) /\ Head(Queue[a]) = Head(fromConsole)
      /\ Deliver(r, Head(fromConsole), chan)
  BY HandleConsoleTakes
<1>2. HandledBy(a, r) /\ a \in HeldPlaces(r)
  BY <1>0, HeldPlacesFacts DEF HandledBy, HandlesConsole
<1>3. UNCHANGED <<wrote, usage, rtUsage>>
  BY DEF HandleConsole, filterVars, memVars
<1>4. PICK p : p = Head(Queue[a])
  OBVIOUS
<1>5. p.from # r
  BY <1>0, <1>1, <1>4, FromElsewhere DEF Taken
<1> HIDE DEF a
<1>6. Deliver(r, p, chan)
  BY <1>1, <1>4
<1>7. QED
  BY <1>1, <1>2, <1>3, <1>4, <1>5, <1>6, DeliverMem

\* A gateway handles what came over its link.
LEMMA HandleProxyMem ==
  ASSUME TypeOK, TypeOK', OrderInv, MemInv, NEW r \in Ranks, HandleProxy(r)
  PROVE  MemInv'
<1> DEFINE c == ClusterOf[r]
           a == ProxyIn(c)
<1>0. QueuesInv /\ Genuine
  BY DEF OrderInv, StreamInv
<1>1. /\ Taken(a, chan) /\ Head(Queue[a]) = Head(proxyIn[c])
      /\ Deliver(r, Head(proxyIn[c]), chan)
  BY HandleProxyTakes
<1>2. HandledBy(a, r) /\ a \notin HeldPlaces(r)
  BY HeldPlacesFacts, Gateways DEF HandledBy, HandleProxy
<1>3. wrote' = wrote /\ ChargeBody(r, Head(proxyIn[c]))
  BY DEF HandleProxy, filterVars
<1>4. PICK p : p = Head(Queue[a])
  OBVIOUS
<1>5. p.from # r
  BY <1>0, <1>1, <1>4, FromElsewhere DEF Taken
<1> HIDE DEF a, c
<1>6. Deliver(r, p, chan) /\ ChargeBody(r, p)
  BY <1>1, <1>3, <1>4
<1>7. QED
  BY <1>1, <1>2, <1>3, <1>4, <1>5, <1>6, DeliverMem

\* A filter that a buffer is charged to at rank r is one of the rank's own.
LEMMA ChargedHere ==
  ASSUME NEW r \in Ranks, NEW p, Buffer(p), p.from = HostOf[p.writer], ChargedTo(r, p) \in Filters
  PROVE  HostOf[ChargedTo(r, p)] = r
BY MuidFacts DEF ChargedTo, Buffer

\* MPIToConsoleThread writes a packet to the console process.
LEMMA ToConsoleMem ==
  ASSUME TypeOK, TypeOK', OrderInv, MemInv, ToConsoleThread
  PROVE  MemInv'
<1>0. Genuine /\ QueuesInv /\ PendingInv /\ EntryInv /\ LimitsInv /\ 0 \in Ranks
  BY Gateways DEF OrderInv, StreamInv, MemInv
<1>1. PICK p : p = Head(toConsole)
  OBVIOUS
<1>2. /\ HoldsLess(0, p) /\ PendingInv'
      /\ Buffer(p) => Holds(0, p)
  BY <1>0, <1>1, ToConsoleHolds
<1>3. PICK muid : muid = OwnerIfBody(p, BridgeOwner(0, p))
  OBVIOUS
<1>4. muid = ChargedTo(0, p) /\ Release(0, muid)
  BY <1>1, <1>3 DEF ToConsoleThread, OwnerIfBody, BridgeOwner, ChargedTo
<1>5. p \in Flying /\ p \in Packet /\ p.to = Console
  <2>1. ToConsole \in Places /\ Queue[ToConsole] = toConsole /\ toConsole # <<>>
    BY ToConsoleThreadTakes
  <2>2. p \in Flying /\ p \in Packet /\ OnRoute(ToConsole, p.from, p.to)
    BY <1>0, <1>1, <2>1, HeadFacts
  <2>3. QED
    BY <2>2, AtConsole
<1>6. CASE Buffer(p)
  <2>1. p.from = HostOf[p.writer] /\ p.to = HostOf[p.reader] /\ p.reader \in Filters
    <3>1. <<p.writer, p.reader>> \in Streams /\ p.from = HostOf[p.writer] /\ p.to = HostOf[p.reader]
      BY <1>0, <1>5, <1>6, GenuineKinds DEF Buffer
    <3>2. QED
      BY <3>1, FiltersAssumption
  <2>2. muid \in Filters => HostOf[muid] = 0
    BY <1>0, <1>4, <1>6, <2>1, ChargedHere
  <2>3. LimitsInv' /\ ChargeStep(0, muid, -1)
    BY <1>0, <1>4, <2>2, ReleaseUsage
  <2>4. PICK e : e = EntryOf(p, NoMuid)
    OBVIOUS
  <2>5. PICK g : g = p.reader
    OBVIOUS
  <2>6. g \in Filters /\ HostOf[g] = Console /\ inq' = [inq EXCEPT ![g] = Append(@, e)]
    BY <1>1, <1>5, <1>6, <2>1, <2>4, <2>5 DEF ToConsoleThread, Buffer
  <2>7. e \in InBuf /\ e.muid = NoMuid
    <3>1. NoMuid \in Muid
      BY DEF Muid
    <3>2. QED
      BY <1>5, <2>4, <3>1, EntryTyped DEF EntryOf
  <2>8. EntryInv'
    BY <1>0, <2>6, <2>7, EntryInvMore
  <2>9. ASSUME NEW r \in Ranks, NEW m \in MuidsOf(r), IsFiniteSet(EntriesOf(r, m))
        PROVE  EntriesStep(r, m, 0)
    <3>1. EntriesStep(r, m, One(HostOf[g] = r /\ e.muid = m))
      BY <2>6, <2>7, <2>9, EntriesMore
    <3>2. One(HostOf[g] = r /\ e.muid = m) = 0
      BY <2>6, Gateways DEF One
    <3>3. QED
      BY <3>1, <3>2
  <2>10. QED
    BY <1>0, <1>2, <1>4, <1>5, <1>6, <2>3, <2>8, <2>9, PacketReleased
<1>7. CASE ~Buffer(p)
  <2>1. muid = NoMuid
    BY <1>4, <1>7 DEF ChargedTo, Buffer
  <2>2. UNCHANGED <<inq, usage, rtUsage>>
    BY <1>1, <1>4, <1>7, <2>1, MuidFacts DEF Release, ToConsoleThread, Buffer
  <2>3. HoldsSame
    BY <1>0, <1>2, <1>7, HeldAlready
  <2>4. QED
    BY <1>2, <2>2, <2>3, NothingCharged
<1>8. QED
  BY <1>6, <1>7

\* A buffer that leaves rank r for good, over a link or once MPI has sent it.
LEMMA LeavesMem ==
  ASSUME TypeOK, TypeOK', MemInv, NEW r \in Ranks, NEW p \in Packet, HoldsLess(r, p), Holds(r, p),
         PendingInv', inq' = inq, NEW muid, Release(r, muid), muid = ChargedTo(r, p),
         Buffer(p) => p.from = HostOf[p.writer]
  PROVE  MemInv'
<1>0. EntryInv' /\ LimitsInv
  BY EntryInvSame DEF MemInv
<1>1. CASE Buffer(p)
  <2>1. LimitsInv' /\ ChargeStep(r, muid, -1)
    BY <1>0, <1>1, ChargedHere, ReleaseUsage
  <2>2. \A s \in Ranks : \A m \in MuidsOf(s) : IsFiniteSet(EntriesOf(s, m)) => EntriesStep(s, m, 0)
    BY EntriesSame
  <2>3. QED
    BY <1>0, <1>1, <2>1, <2>2, PacketReleased
<1>2. CASE ~Buffer(p)
  <2>1. muid = NoMuid
    BY <1>2 DEF ChargedTo, Buffer
  <2>2. UNCHANGED <<usage, rtUsage>>
    BY <2>1, MuidFacts DEF Release
  <2>3. HoldsSame
    BY <1>2, HeldAlready
  <2>4. QED
    BY <2>2, <2>3, NothingCharged
<1>3. QED
  BY <1>1, <1>2

\* The proxy of a cluster takes a packet of its gateway over the link.
LEMMA ProxyWriterMem ==
  ASSUME TypeOK, TypeOK', OrderInv, MemInv, NEW c \in Clusters, ProxyWriter(c)
  PROVE  MemInv'
<1>0. Genuine /\ QueuesInv /\ PendingInv
  BY DEF OrderInv, StreamInv, MemInv
<1>1. PICK p : p = Head(toProxy[c])
  OBVIOUS
<1>2. PICK r : r = Gateway(c)
  OBVIOUS
<1>3. r \in Ranks /\ HoldsLess(r, p) /\ PendingInv' /\ Holds(r, p)
  BY <1>0, <1>1, <1>2, ProxyWriterHolds, Gateways
<1>4. PICK muid : muid = OwnerIfBody(p, BridgeOwner(r, p))
  OBVIOUS
<1>5. muid = ChargedTo(r, p) /\ Release(r, muid) /\ inq' = inq
  BY <1>1, <1>2, <1>4 DEF ProxyWriter, portVars, OwnerIfBody, BridgeOwner, ChargedTo
<1>6. p \in Flying /\ p \in Packet
  <2>1. ToProxy(c) \in Places /\ Queue[ToProxy(c)] = toProxy[c] /\ toProxy[c] # <<>>
    BY <1>0, ProxyWriterMoves
  <2>2. QED
    BY <1>0, <1>1, <2>1, HeadFacts
<1>7. Buffer(p) => p.from = HostOf[p.writer]
  BY <1>0, <1>6, GenuineKinds DEF Buffer
<1>8. QED
  BY <1>3, <1>5, <1>6, <1>7, LeavesMem

\* The main loop finds a send done and accounts for its buffer.
LEMMA FinishSendMem ==
  ASSUME TypeOK, TypeOK', OrderInv, MemInv, NEW r \in Ranks, NEW p \in pending[r], FinishSend(r, p)
  PROVE  MemInv'
<1>0. Genuine /\ QueuesInv /\ PendingInv
  BY DEF OrderInv, StreamInv, MemInv
<1>1. /\ HoldsLess(r, p) /\ PendingInv' /\ Holds(r, p)
      /\ Buffer(p) => SendOwner(r, p) = ChargedTo(r, p)
  BY <1>0, FinishSendHolds
<1>2. PICK muid : muid = OwnerIfBody(p, SendOwner(r, p))
  OBVIOUS
<1>3. muid = ChargedTo(r, p)
  BY <1>1, <1>2 DEF OwnerIfBody, ChargedTo, Buffer
<1>4. Release(r, muid) /\ inq' = inq
  BY <1>2 DEF FinishSend, portVars
<1>5. p \in Packet
  BY DEF TypeOK, MpiTypes
<1>6. ASSUME Buffer(p)
      PROVE  p.from = HostOf[p.writer]
  <2>1. PICK w, g, n : w = p.writer /\ g = p.reader /\ n = p.seq
    OBVIOUS
  <2>2. p = DcBuf(w, g, n)
    BY <1>0, <1>6, <2>1 DEF PendingInv, SentOn
  <2>3. p.from = HostOf[w]
    BY <2>2 DEF DcBuf
  <2>4. QED
    BY <2>1, <2>3
<1>7. QED
  BY <1>1, <1>3, <1>4, <1>5, <1>6, LeavesMem

\* MPIFromConsoleThread reads a packet and charges the runtime of rank 0 for it.
LEMMA FromConsoleMem ==
  ASSUME TypeOK, TypeOK', OrderInv, MemInv, FromConsoleThread
  PROVE  MemInv'
<1>0. Genuine /\ QueuesInv /\ PendingInv /\ LimitsInv /\ 0 \in Ranks
  BY Gateways DEF OrderInv, StreamInv, MemInv
<1>1. PICK p : p = Head(consoleOut)
  OBVIOUS
<1>2. /\ IF p.type = "CLOSE" THEN HoldsSame ELSE HoldsMore(0, p)
      /\ PendingInv'
      /\ Buffer(p) => ~Holds(0, p)
  BY <1>0, <1>1, FromConsoleHolds
<1>3. ChargeBody(0, p) /\ inq' = inq
  BY <1>1 DEF FromConsoleThread, portVars
<1>4. p \in Packet /\ p.from = Console
  <2>1. ConsoleOut \in Places /\ Queue[ConsoleOut] = consoleOut /\ consoleOut # <<>>
    BY <1>0, FromConsoleThreadMoves
  <2>2. p \in Packet /\ OnRoute(ConsoleOut, p.from, p.to)
    BY <1>0, <1>1, <2>1, HeadFacts
  <2>3. QED
    BY <2>2, AtConsole
<1>5. CASE Buffer(p)
  <2>1. HoldsMore(0, p) /\ ~Holds(0, p)
    BY <1>2, <1>5 DEF Buffer
  <2>2. RuntimeMuid = ChargedTo(0, p)
    BY <1>0, <1>4, <1>5, Gateways DEF ChargedTo, Buffer
  <2>3. LimitsInv' /\ ChargeStep(0, RuntimeMuid, 1)
    BY <1>0, <1>3, <1>5, ChargeUsage DEF One
  <2>4. QED
    BY <1>0, <1>2, <1>3, <1>4, <1>5, <2>1, <2>2, <2>3, PacketCharged
<1>6. CASE ~Buffer(p)
  <2>1. HoldsSame
    BY <1>0, <1>2, <1>6, HeldAlready
  <2>2. UNCHANGED <<usage, rtUsage>>
    BY <1>3, <1>6 DEF ChargeBody, Buffer
  <2>3. QED
    BY <1>2, <1>3, <2>1, <2>2, NothingCharged
<1>7. QED
  BY <1>5, <1>6

\* Filters that write and read.
LEMMA WriteMem ==
  ASSUME TypeOK, TypeOK', OrderInv, MemInv, NEW w \in Filters, NEW g \in Filters, FilterWrite(w, g)
  PROVE  MemInv'
<1>0. PendingInv /\ LimitsInv /\ EntryInv /\ HostOf[w] \in AllNodes
  BY Topology DEF MemInv
<1>1. PICK p : p = DcBuf(w, g, wrote[<<w, g>>] + 1)
  OBVIOUS
<1>2. /\ <<w, g>> \in Streams /\ CanPay(w) /\ rtUsage' = rtUsage
      /\ usage' = IF HostOf[w] # Console THEN [usage EXCEPT ![w] = @ + 1] ELSE usage
      /\ wrote' = [wrote EXCEPT ![<<w, g>>] = @ + 1]
  BY DEF FilterWrite
<1>3. /\ Buffer(p) /\ p.writer = w /\ p.from = HostOf[w] /\ p \in Packet
  <2>1. wrote[<<w, g>>] + 1 \in Nat
    BY <1>2 DEF TypeOK, FilterTypes
  <2>2. QED
    BY <1>1, <2>1, PacketHosts, PacketTyped DEF Buffer
<1>4. CASE HostOf[w] # HostOf[g]
  <2>1. /\ PendingInv'
        /\ IF HostOf[w] = Console THEN HoldsSame
           ELSE HoldsMore(HostOf[w], p) /\ ~Holds(HostOf[w], p)
    BY <1>0, <1>1, <1>4, WriteAwayHolds
  <2>2. inq' = inq
    BY <1>4 DEF FilterWrite
  <2>3. CASE HostOf[w] = Console
    BY <1>2, <2>1, <2>2, <2>3, NothingCharged
  <2>4. CASE HostOf[w] # Console
    <3>1. PICK r : r = HostOf[w]
      OBVIOUS
    <3>2. r \in Ranks /\ HoldsMore(r, p) /\ ~Holds(r, p) /\ w = ChargedTo(r, p)
      BY <1>0, <1>3, <2>1, <2>4, <3>1 DEF AllNodes, ChargedTo, Buffer
    <3>3. LimitsInv' /\ ChargeStep(r, w, 1)
      BY <1>0, <1>2, <2>4, <3>1, WriteUsage
    <3>4. QED
      BY <1>3, <2>1, <2>2, <3>2, <3>3, PacketCharged
  <2>5. QED
    BY <2>3, <2>4
<1>5. CASE HostOf[w] = HostOf[g]
  <2>1. PICK e : e = EntryOf(p, w)
    OBVIOUS
  <2>2. /\ inq' = [inq EXCEPT ![g] = Append(@, e)]
        /\ UNCHANGED <<outq, chan, toConsole, consoleOut, fromConsole, toProxy, proxyIn, pending>>
    BY <1>1, <1>5, <2>1 DEF FilterWrite
  <2>3. e \in InBuf /\ e.muid = w
    <3>1. w \in Muid
      BY DEF Muid
    <3>2. QED
      BY <1>3, <2>1, <3>1, EntryTyped DEF EntryOf
  <2>4. HostOf[w] # Console
    <3>1. <<w, g>>[1] = w /\ <<w, g>>[2] = g
      OBVIOUS
    <3>2. ~(HostOf[w] = Console /\ HostOf[g] = Console)
      BY <1>2, <3>1, FiltersAssumption
    <3>3. QED
      BY <1>5, <3>2
  <2>5. PICK r : r = HostOf[w]
    OBVIOUS
  <2>6. r \in Ranks /\ HostOf[g] = r /\ w \in MuidsOf(r)
    BY <1>5, <2>4, <2>5, MuidFacts
  <2>7. LimitsInv' /\ ChargeStep(r, w, 1)
    BY <1>0, <1>2, <2>4, <2>5, WriteUsage
  <2>8. KeepStep
    BY <2>2, NoPlaceTouched
  <2>9. HoldsSame
    BY <2>2, <2>8, KeepHolds
  <2>10. PendingInv'
    <3>1. \A q : Onward(q)
      BY <2>8, OnwardKeep
    <3>2. \A st \in Streams : wrote[st] <= wrote'[st]
      BY <1>2 DEF TypeOK, FilterTypes
    <3>3. \A s \in Ranks : \A q \in pending'[s] : q \in pending[s] /\ Onward(q)
      BY <2>2, <3>1
    <3>4. QED
      BY <1>0, <3>2, <3>3, PendingKept
  <2>11. QED
    BY <2>2, <2>3, <2>6, <2>7, <2>9, <2>10, EntryCharged
<1>6. QED
  BY <1>4, <1>5

\* A filter reads a buffer and gives it back to whom it was charged to.
LEMMA ReadMem ==
  ASSUME TypeOK, TypeOK', MemInv, NEW g \in Filters, FilterRead(g)
  PROVE  MemInv'
<1>0. PendingInv /\ LimitsInv /\ EntryInv /\ HostOf[g] \in AllNodes
  BY Topology DEF MemInv
<1>1. PICK e : e = Head(inq[g])
  OBVIOUS
<1>2. /\ inq[g] # <<>> /\ inq' = [inq EXCEPT ![g] = Tail(@)] /\ Release(HostOf[g], e.muid)
      /\ UNCHANGED <<outq, chan, toConsole, consoleOut, fromConsole, toProxy, proxyIn>>
      /\ UNCHANGED <<pending, wrote>>
  BY <1>1 DEF FilterRead, mpiVars, consoleVars
<1>3. HoldsSame /\ PendingInv'
  BY <1>0, <1>2, NoPlaceHolds
<1>4. EntryInv'
  BY <1>0, <1>2, EntryInvLess
<1>5. IF HostOf[g] = Console THEN e.muid = NoMuid ELSE e.muid \in MuidsOf(HostOf[g])
  <2>1. inq[g] \in Seq(InBuf)
    BY DEF TypeOK, PortTypes
  <2>2. 1 \in DOMAIN inq[g] /\ e = inq[g][1]
    BY <1>1, <1>2, <2>1, TailAt
  <2>3. QED
    BY <1>0, <2>2 DEF EntryInv
<1>6. PICK muid : muid = e.muid
  OBVIOUS
<1>7. LimitsInv' /\ \A r \in Ranks : \A m \in MuidsOf(r) :
                      UsageStep(r, m, -One(HostOf[g] = r /\ e.muid = m))
  <2>1. CASE HostOf[g] = Console
    <3>1. UNCHANGED <<usage, rtUsage>>
      BY <1>2, <1>5, <2>1, MuidFacts DEF Release
    <3>2. LimitsInv' /\ ChargeStep(0, muid, 0)
      BY <1>0, <3>1, UsageSame
    <3>3. ASSUME NEW r \in Ranks, NEW m \in MuidsOf(r)
          PROVE  UsageStep(r, m, -One(HostOf[g] = r /\ e.muid = m))
      <4>1. UsageStep(r, m, IF r = 0 /\ m = muid THEN 0 ELSE 0)
        BY <3>2 DEF ChargeStep
      <4>2. HostOf[g] # r
        BY <2>1, Gateways
      <4>3. One(HostOf[g] = r /\ e.muid = m) = 0
        BY <4>2 DEF One
      <4>4. QED
        BY <4>1, <4>3
    <3>4. QED
      BY <3>2, <3>3
  <2>2. CASE HostOf[g] # Console
    <3>1. PICK r0 : r0 = HostOf[g]
      OBVIOUS
    <3>2. r0 \in Ranks /\ Release(r0, muid) /\ (muid \in Filters => HostOf[muid] = r0)
      BY <1>0, <1>2, <1>5, <1>6, <2>2, <3>1, MuidFacts DEF AllNodes
    <3>3. LimitsInv' /\ ChargeStep(r0, muid, -1)
      BY <1>0, <3>2, ReleaseUsage
    <3>4. ASSUME NEW r \in Ranks, NEW m \in MuidsOf(r)
          PROVE  UsageStep(r, m, -One(HostOf[g] = r /\ e.muid = m))
      <4>1. UsageStep(r, m, IF r = r0 /\ m = muid THEN -1 ELSE 0)
        BY <3>3 DEF ChargeStep
      <4>2. -One(HostOf[g] = r /\ e.muid = m) = IF r = r0 /\ m = muid THEN -1 ELSE 0
        BY <1>6, <3>1 DEF One
      <4>3. QED
        BY <4>1, <4>2
    <3>5. QED
      BY <3>3, <3>4
  <2>3. QED
    BY <2>1, <2>2
<1>8. ASSUME NEW r \in Ranks, NEW m \in MuidsOf(r)
      PROVE  Balanced(r, m)'
  <2>1. Balanced(r, m)
    BY DEF MemInv, AccountsInv
  <2>2. PICK d : d = -One(HostOf[g] = r /\ e.muid = m)
    OBVIOUS
  <2>3. d \in Int /\ d = 0 + d
    BY <2>2 DEF One
  <2>4. PacketsStep(r, m, 0)
    BY <1>3, <2>1, PacketsSame DEF Balanced
  <2>5. EntriesStep(r, m, d)
    BY <1>1, <1>2, <2>1, <2>2, EntriesLess DEF Balanced
  <2>6. UsageStep(r, m, d)
    BY <1>7, <2>2
  <2>7. QED
    BY <2>1, <2>3, <2>4, <2>5, <2>6, BalanceKept
<1>9. AccountsInv'
  BY <1>8 DEF AccountsInv, MuidsOf, FiltersOn
<1>10. QED
  BY <1>3, <1>4, <1>7, <1>9 DEF MemInv

\* The other steps move no buffer.
LEMMA OthersMem ==
  ASSUME TypeOK, TypeOK', QuietInv, MemInv,
         \/ \E w, g : FilterBlock(w, g)
         \/ \E w, g \in Filters : FilterClose(w, g)
         \/ \E f \in Filters : FilterReturn(f) \/ FilterErase(f)
         \/ \E r \in Ranks : CheckFilters(r) \/ Announce(r) \/ AnnounceNext(r) \/ Exit(r)
         \/ \E i, r \in Ranks : Defer(i, r)
         \/ CloseConsole \/ ConsoleFinish \/ UNCHANGED vars
  PROVE  MemInv'
<1>0. PendingInv /\ AnnouncedIsIdle
  BY DEF MemInv, QuietInv
<1>1. CASE \E w, g \in Filters : FilterClose(w, g)
  <2>1. PICK w, g \in Filters : FilterClose(w, g)
    BY <1>1
  <2>2. UNCHANGED <<inq, usage, rtUsage>>
    BY <2>1 DEF FilterClose, memVars
  <2>3. QED
    BY <1>0, <2>1, <2>2, CloseHolds, NothingCharged
<1>2. CASE \E r \in Ranks : AnnounceNext(r)
  <2>1. PICK r \in Ranks : AnnounceNext(r)
    BY <1>2
  <2>2. UNCHANGED <<inq, usage, rtUsage>>
    BY <2>1 DEF AnnounceNext, memVars, portVars
  <2>3. QED
    BY <1>0, <2>1, <2>2, AnnounceNextHolds, NothingCharged
<1>3. CASE ConsoleFinish
  <2>1. UNCHANGED <<inq, usage, rtUsage>>
    BY <1>3 DEF ConsoleFinish, memVars, portVars
  <2>2. QED
    BY <1>0, <1>3, <2>1, ConsoleFinishHolds, NothingCharged
<1>4. CASE \/ \E w, g : FilterBlock(w, g)
           \/ \E f \in Filters : FilterReturn(f) \/ FilterErase(f)
           \/ \E r \in Ranks : CheckFilters(r) \/ Announce(r) \/ Exit(r)
           \/ \E i, r \in Ranks : Defer(i, r)
           \/ CloseConsole \/ UNCHANGED vars
  <2>1. /\ UNCHANGED <<outq, chan, toConsole, consoleOut, fromConsole, toProxy, proxyIn>>
        /\ UNCHANGED <<pending, wrote>> /\ UNCHANGED <<inq, usage, rtUsage>>
    BY <1>4 DEF FilterBlock, FilterReturn, FilterErase, CheckFilters, Announce, Exit, Defer,
                CloseConsole, vars, filterVars, portVars, memVars, mpiVars, consoleVars
  <2>2. QED
    BY <1>0, <2>1, NoPlaceHolds, NothingCharged
<1>5. QED
  BY <1>1, <1>2, <1>3, <1>4

\* Every step of the runtime keeps the memory invariant.
LEMMA NextMem ==
  ASSUME JobInv, JobInv', MemInv, [Next]_vars
  PROVE  MemInv'
<1>0. TypeOK /\ TypeOK' /\ QuietInv /\ OrderInv
  BY DEF JobInv
<1>1. ASSUME NEW s \in Streams,
             FilterBlock(s[1], s[2]) \/ FilterWrite(s[1], s[2]) \/ FilterClose(s[1], s[2])
      PROVE  MemInv'
  <2>1. s[1] \in Filters /\ s[2] \in Filters
    BY StreamParts
  <2>2. CASE FilterBlock(s[1], s[2])
    BY <1>0, <2>2, OthersMem
  <2>3. CASE FilterWrite(s[1], s[2])
    BY <1>0, <2>1, <2>3, WriteMem
  <2>4. CASE FilterClose(s[1], s[2])
    BY <1>0, <2>1, <2>4, OthersMem
  <2>5. QED
    BY <1>1, <2>2, <2>3, <2>4
<1>2. ASSUME NEW f \in Filters, FilterRead(f) \/ FilterReturn(f) \/ FilterErase(f)
      PROVE  MemInv'
  BY <1>0, <1>2, ReadMem, OthersMem
<1>3. ASSUME NEW r \in Ranks,
             \/ CheckFilters(r) \/ Announce(r) \/ AnnounceNext(r) \/ Exit(r) \/ StartSend(r)
             \/ \E p \in pending[r] : FinishSend(r, p)
             \/ HandleConsole(r) \/ HandleProxy(r)
      PROVE  MemInv'
  BY <1>0, <1>3, OthersMem, StartSendMem, FinishSendMem, HandleConsoleMem, HandleProxyMem
<1>4. ASSUME NEW i \in Ranks, NEW r \in Ranks, Receive(i, r) \/ Defer(i, r)
      PROVE  MemInv'
  BY <1>0, <1>4, ReceiveMem, OthersMem
<1>5. ASSUME NEW c \in Clusters, ProxyWriter(c)
      PROVE  MemInv'
  BY <1>0, <1>5, ProxyWriterMem
<1>6. CASE ToConsoleThread \/ CloseConsole \/ ConsoleFinish \/ FromConsoleThread
  BY <1>0, <1>6, ToConsoleMem, OthersMem, FromConsoleMem
<1>7. CASE UNCHANGED vars
  BY <1>0, <1>7, OthersMem
<1>8. CASE Idle
  BY <1>7, <1>8 DEF Idle
<1>9. QED
  BY <1>1, <1>2, <1>3, <1>4, <1>5, <1>6, <1>7, <1>8 DEF Next

\* The memory invariant holds at the start, when nothing is held or charged.
LEMMA InitMem == Init => MemInv
<1> SUFFICES ASSUME Init
             PROVE  MemInv
  OBVIOUS
<1>1. PendingInv
  BY DEF Init, PendingInv
<1>2. \A g \in Filters : inq[g] = <<>>
  BY DEF Init
<1>3. EntryInv
  BY <1>2 DEF EntryInv
<1>4. LimitsInv
  <2>1. RuntimeMem \in Nat /\ FilterMem \in Nat
    BY BoundsAssumption
  <2>2. QED
    BY <2>1 DEF Init, LimitsInv
<1>5. ASSUME NEW r \in Ranks, NEW m \in MuidsOf(r)
      PROVE  Balanced(r, m)
  <2>1. \A a \in HeldPlaces(r) : Queue[a] = <<>>
    <3>1. /\ \A s \in Ranks : outq[s] = <<>>
          /\ toConsole = <<>> /\ fromConsole = <<>>
          /\ \A c \in Clusters : toProxy[c] = <<>>
      BY DEF Init
    <3>2. ClusterOf[r] \in Clusters
      BY Gateways
    <3>3. QED
      BY <3>1, <3>2, QueueAt DEF HeldPlaces
  <2>2. \A q : ~Holds(r, q)
    BY <2>1 DEF Holds, Placed, At, Init
  <2>3. PacketsOf(r, m) = {}
    BY <2>2 DEF PacketsOf
  <2>4. EntriesOf(r, m) = {}
    BY <1>2, EntriesAt
  <2>5. UsageOf(r, m) = 0
    BY MuidFacts DEF UsageOf, Init
  <2>6. QED
    BY <2>3, <2>4, <2>5, FS_EmptySet DEF Balanced
<1>6. QED
  BY <1>1, <1>3, <1>4, <1>5 DEF MemInv, AccountsInv

-----------------------------------------------------------------------------
(* The sum of what a rank holds                                            *)

ChargedAt(r, m, a) == {q \in Packet : Buffer(q) /\ At(a, q) /\ ChargedTo(r, q) = m}

\* No buffer is in a place twice, so counting places counts buffers.
LEMMA CountedAt ==
  ASSUME TypeOK, QueuesInv, NEW r, NEW m, m # NoMuid, NEW a \in Places
  PROVE  /\ IsFiniteSet(ChargedAt(r, m, a))
         /\ CountIn(r, m, Queue[a]) = Cardinality(ChargedAt(r, m, a))
<1>1. PICK q : q = Queue[a]
  OBVIOUS
<1>2. q \in Seq(Packet)
  BY <1>1, QueueTyped
<1>3. \A i, k \in DOMAIN q : q[i] = q[k] => i = k
  BY <1>1 DEF QueuesInv, Single
<1> DEFINE K == {k \in DOMAIN q : ChargedTo(r, q[k]) = m}
           P == ChargedAt(r, m, a)
           f == [k \in K |-> q[k]]
<1>4. IsFiniteSet(K)
  <2>1. DOMAIN q = 1 .. Len(q) /\ Len(q) \in Nat
    BY <1>2
  <2>2. IsFiniteSet(DOMAIN q)
    BY <2>1, FS_Interval
  <2>3. K \in SUBSET DOMAIN q
    OBVIOUS
  <2>4. QED
    BY <2>2, <2>3, FS_Subset
<1>5. \A k \in K : f[k] = q[k] /\ k \in DOMAIN q /\ f[k] \in P
  <2> SUFFICES ASSUME NEW k \in K
               PROVE  q[k] \in P
    OBVIOUS
  <2>1. k \in DOMAIN q /\ q[k] \in Packet /\ ChargedTo(r, q[k]) = m
    BY <1>2
  <2>2. Buffer(q[k])
    BY <2>1 DEF ChargedTo, Buffer
  <2>3. At(a, q[k])
    BY <1>1, <2>1 DEF At
  <2>4. QED
    BY <2>1, <2>2, <2>3 DEF ChargedAt
<1>6. ASSUME NEW x \in P
      PROVE  \E k \in K : f[k] = x
  <2>1. At(a, x) /\ ChargedTo(r, x) = m
    BY DEF ChargedAt
  <2>2. PICK k \in DOMAIN q : q[k] = x
    BY <1>1, <2>1 DEF At
  <2>3. QED
    BY <2>1, <2>2
<1>7. f \in [K -> P]
  BY <1>5
<1> HIDE DEF K, P, f
<1>8. \A i, k \in K : f[i] = f[k] => i = k
  BY <1>3, <1>5
<1>9. f \in Bijection(K, P)
  BY <1>6, <1>7, <1>8 DEF Bijection, Injection, Surjection, IsInjective
<1>10. IsFiniteSet(P) /\ Cardinality(P) = Cardinality(K)
  BY <1>4, <1>9, FS_Bijection DEF ExistsBijection
<1>11. CountIn(r, m, Queue[a]) = Cardinality(K)
  BY <1>1 DEF CountIn, K
<1>12. QED
  BY <1>10, <1>11 DEF P

\* Held, the sum the runs check, is the size of the sets that AccountsInv counts.
LEMMA HeldCounted ==
  ASSUME TypeOK, QueuesInv, Genuine, PendingInv, NEW r \in Ranks, NEW m, m # NoMuid,
         IsFiniteSet(PacketsOf(r, m))
  PROVE  Held(r, m) = Cardinality(PacketsOf(r, m)) + Cardinality(EntriesOf(r, m))
<1> DEFINE P == {p \in pending[r] : ChargedTo(r, p) = m}
           O == ChargedAt(r, m, OutQ(r))
           A == IF r = 0 THEN ChargedAt(r, m, ToConsole) ELSE {}
           B == IF r = 0 THEN ChargedAt(r, m, FromConsole) ELSE {}
           C == IF IsGateway(r) THEN ChargedAt(r, m, ToProxy(ClusterOf[r])) ELSE {}
<1>1. /\ OutQ(r) \in Places /\ ToConsole \in Places /\ FromConsole \in Places
      /\ ToProxy(ClusterOf[r]) \in Places /\ ClusterOf[r] \in Clusters
      /\ Queue[OutQ(r)] = outq[r] /\ Queue[ToConsole] = toConsole
      /\ Queue[FromConsole] = fromConsole /\ Queue[ToProxy(ClusterOf[r])] = toProxy[ClusterOf[r]]
  <2>1. ClusterOf[r] \in Clusters
    BY Gateways
  <2>2. QED
    BY <2>1, QueueAt, PlaceKinds
<1>2. /\ OutQ(r) # ToConsole /\ OutQ(r) # FromConsole /\ ToConsole # FromConsole
      /\ OutQ(r) # ToProxy(ClusterOf[r]) /\ ToConsole # ToProxy(ClusterOf[r])
      /\ FromConsole # ToProxy(ClusterOf[r])
  BY DEF OutQ, ToConsole, FromConsole, ToProxy
<1>3. \A a, b \in Places : \A q : q \in ChargedAt(r, m, a) /\ q \in ChargedAt(r, m, b) => a = b
  BY AtOne DEF ChargedAt
<1>4. \A a \in HeldPlaces(r) : \A q \in P : q \notin ChargedAt(r, m, a)
  BY PendingApart, HeldPlacesFacts DEF ChargedAt
<1>5. /\ \A q \in P : q \notin O /\ q \notin A /\ q \notin B /\ q \notin C
      /\ \A q \in O : q \notin A /\ q \notin B /\ q \notin C
      /\ \A q \in A : q \notin B /\ q \notin C
      /\ \A q \in B : q \notin C
  <2>1. /\ OutQ(r) \in HeldPlaces(r)
        /\ (r = 0 => ToConsole \in HeldPlaces(r) /\ FromConsole \in HeldPlaces(r))
        /\ (IsGateway(r) => ToProxy(ClusterOf[r]) \in HeldPlaces(r))
    BY DEF HeldPlaces
  <2>2. \A q \in P : q \notin O /\ q \notin A /\ q \notin B /\ q \notin C
    BY <1>4, <2>1
  <2>3. \A q \in O : q \notin A /\ q \notin B /\ q \notin C
    BY <1>1, <1>2, <1>3
  <2>4. \A q \in A : q \notin B /\ q \notin C
    BY <1>1, <1>2, <1>3
  <2>5. \A q \in B : q \notin C
    BY <1>1, <1>2, <1>3
  <2>6. QED
    BY <2>2, <2>3, <2>4, <2>5
<1>6. PacketsOf(r, m) = P \cup (O \cup (A \cup (B \cup C)))
  <2>1. pending[r] \in SUBSET Packet
    BY DEF TypeOK, MpiTypes
  <2>2. \A q : ChargedTo(r, q) = m => Buffer(q)
    BY DEF ChargedTo, Buffer
  <2>3. ASSUME NEW q
        PROVE  Placed(r, q) <=> \/ At(OutQ(r), q)
                                \/ r = 0 /\ (At(ToConsole, q) \/ At(FromConsole, q))
                                \/ IsGateway(r) /\ At(ToProxy(ClusterOf[r]), q)
    BY DEF Placed, HeldPlaces
  <2>4. ASSUME NEW q
        PROVE  q \in PacketsOf(r, m) <=> q \in P \cup (O \cup (A \cup (B \cup C)))
    BY <2>1, <2>2, <2>3 DEF PacketsOf, Holds, ChargedAt
  <2>5. QED
    BY <2>4
<1>7. IsFiniteSet(P) /\ IsFiniteSet(O) /\ IsFiniteSet(A) /\ IsFiniteSet(B) /\ IsFiniteSet(C)
  <2>1. IsFiniteSet({})
    BY FS_EmptySet
  <2>2. IsFiniteSet(O) /\ IsFiniteSet(A) /\ IsFiniteSet(B) /\ IsFiniteSet(C)
    BY <1>1, <2>1, CountedAt
  <2>3. P \in SUBSET PacketsOf(r, m)
    BY <1>6
  <2>4. QED
    BY <2>2, <2>3, FS_Subset
<1>8. /\ CountIn(r, m, outq[r]) = Cardinality(O)
      /\ IF r = 0 THEN /\ CountIn(r, m, toConsole) = Cardinality(A)
                       /\ CountIn(r, m, fromConsole) = Cardinality(B)
         ELSE Cardinality(A) = 0 /\ Cardinality(B) = 0
      /\ IF IsGateway(r) THEN CountIn(r, m, toProxy[ClusterOf[r]]) = Cardinality(C)
         ELSE Cardinality(C) = 0
  <2>1. Cardinality({}) = 0
    BY FS_EmptySet
  <2>2. CountIn(r, m, outq[r]) = Cardinality(O)
    BY <1>1, CountedAt
  <2>3. CASE r = 0
    <3>1. /\ CountIn(r, m, toConsole) = Cardinality(ChargedAt(r, m, ToConsole))
          /\ CountIn(r, m, fromConsole) = Cardinality(ChargedAt(r, m, FromConsole))
      BY <1>1, CountedAt
    <3>2. IsGateway(r) => CountIn(r, m, toProxy[ClusterOf[r]]) = Cardinality(C)
      BY <1>1, CountedAt
    <3>3. ~IsGateway(r) => Cardinality(C) = 0
      BY <2>1
    <3>4. QED
      BY <2>2, <2>3, <3>1, <3>2, <3>3
  <2>4. CASE r # 0
    <3>1. Cardinality(A) = 0 /\ Cardinality(B) = 0
      BY <2>1, <2>4
    <3>2. IsGateway(r) => CountIn(r, m, toProxy[ClusterOf[r]]) = Cardinality(C)
      BY <1>1, CountedAt
    <3>3. ~IsGateway(r) => Cardinality(C) = 0
      BY <2>1
    <3>4. QED
      BY <2>2, <2>4, <3>1, <3>2, <3>3
  <2>5. QED
    BY <2>3, <2>4
<1>9. Held(r, m) = CountIn(r, m, outq[r]) + Cardinality(P) + Cardinality(EntriesOf(r, m))
                   + (IF r = 0 THEN CountIn(r, m, toConsole) + CountIn(r, m, fromConsole) ELSE 0)
                   + (IF IsGateway(r) THEN CountIn(r, m, toProxy[ClusterOf[r]]) ELSE 0)
  BY DEF Held, EntriesOf
<1> HIDE DEF P, O, A, B, C
<1>10. PICK nP, nO, nA, nB, nC, nE :
         /\ nP = Cardinality(P) /\ nO = Cardinality(O) /\ nA = Cardinality(A)
         /\ nB = Cardinality(B) /\ nC = Cardinality(C) /\ nE = Cardinality(EntriesOf(r, m))
  OBVIOUS
<1>11. nP \in Nat /\ nO \in Nat /\ nA \in Nat /\ nB \in Nat /\ nC \in Nat
  BY <1>7, <1>10, FS_CardinalityType
<1>12. Cardinality(PacketsOf(r, m)) = nP + (nO + (nA + (nB + nC)))
  <2>1. IsFiniteSet(B \cup C) /\ Cardinality(B \cup C) = nB + nC
    BY <1>5, <1>7, <1>10, SumOfTwo
  <2>2. IsFiniteSet(A \cup (B \cup C)) /\ Cardinality(A \cup (B \cup C)) = nA + (nB + nC)
    BY <1>5, <1>7, <1>10, <2>1, SumOfTwo
  <2>3. /\ IsFiniteSet(O \cup (A \cup (B \cup C)))
        /\ Cardinality(O \cup (A \cup (B \cup C))) = nO + (nA + (nB + nC))
    BY <1>5, <1>7, <1>10, <2>2, SumOfTwo
  <2>4. Cardinality(P \cup (O \cup (A \cup (B \cup C)))) = nP + (nO + (nA + (nB + nC)))
    BY <1>5, <1>7, <1>10, <2>3, SumOfTwo
  <2>5. QED
    BY <1>6, <2>4
<1>13. Held(r, m) = nO + nP + nE + (nA + nB) + nC
  BY <1>8, <1>9, <1>10, <1>11
<1>14. QED
  BY <1>10, <1>11, <1>12, <1>13

-----------------------------------------------------------------------------
\* In every job the accounts of a rank are in balance: the books and the
\* buffers agree at every point of the main loop and of the bridge threads.
\* The inductive invariant from which the next theorem follows.
THEOREM MemoryInvariant == Spec => [](JobInv /\ MemInv)
<1>1. Init => MemInv
  BY InitMem
<1>2. JobInv /\ JobInv' /\ MemInv /\ [Next]_vars => MemInv'
  BY NextMem
<1>3. QED
  BY <1>1, <1>2, JobInvariant, PTL DEF Spec

\* The two invariants imply what the runs check of the accounts.
LEMMA BalancedFromInv ==
  ASSUME JobInv, MemInv
  PROVE  MemoryBalanced
<1>0. TypeOK /\ QueuesInv /\ Genuine /\ PendingInv /\ AccountsInv /\ LimitsInv
  BY DEF JobInv, OrderInv, StreamInv, MemInv
<1>1. ASSUME NEW r \in Ranks, NEW m \in MuidsOf(r)
      PROVE  UsageOf(r, m) = Held(r, m)
  <2>1. Balanced(r, m)
    BY <1>0 DEF AccountsInv
  <2>2. m # NoMuid
    BY MuidFacts
  <2>3. Held(r, m) = Cardinality(PacketsOf(r, m)) + Cardinality(EntriesOf(r, m))
    BY <1>0, <2>1, <2>2, HeldCounted DEF Balanced
  <2>4. QED
    BY <2>1, <2>3 DEF Balanced
<1>2. \A r \in Ranks : rtUsage[r] = Held(r, RuntimeMuid) /\ rtUsage[r] <= RuntimeMem
  <2>1. \A r \in Ranks : UsageOf(r, RuntimeMuid) = Held(r, RuntimeMuid)
    BY <1>1, MuidFacts
  <2>2. QED
    BY <1>0, <2>1 DEF UsageOf, LimitsInv
<1>3. ASSUME NEW f \in Filters
      PROVE  IF HostOf[f] = Console THEN usage[f] = 0
             ELSE usage[f] = Held(HostOf[f], f) /\ usage[f] <= FilterMem
  <2>1. CASE HostOf[f] = Console
    BY <1>0, <2>1 DEF LimitsInv
  <2>2. CASE HostOf[f] # Console
    <3>1. HostOf[f] \in Ranks /\ f \in MuidsOf(HostOf[f]) /\ f # RuntimeMuid
      BY <2>2, MuidFacts
    <3>2. UsageOf(HostOf[f], f) = Held(HostOf[f], f)
      BY <1>1, <3>1
    <3>3. QED
      BY <1>0, <2>2, <3>1, <3>2 DEF UsageOf, LimitsInv
  <2>3. QED
    BY <2>1, <2>2
<1>4. QED
  BY <1>2, <1>3 DEF MemoryBalanced

\* In every job the memory usage of each filter and of each rank's runtime is
\* the number of buffers the rank holds on its behalf, and within its budget
\* (MemUsage.cpp:75, MemUsage.h:9-22): no buffer is charged twice on its way
\* over gateways, proxies and the console bridge, and none is forgotten.
THEOREM MemoryIsBalanced == Spec => []MemoryBalanced
<1>1. JobInv /\ MemInv => MemoryBalanced
  BY BalancedFromInv
<1>2. QED
  BY <1>1, MemoryInvariant, PTL
=============================================================================

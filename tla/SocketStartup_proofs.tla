------------------------ MODULE SocketStartup_proofs ------------------------
(***************************************************************************)
(* The socket runtime finds all its processes and joins them, and its      *)
(* barrier is one, for any number of ranks and of rounds.                  *)
(*                                                                         *)
(* First socket_barrier.  The invariant says where the byte of every rank  *)
(* is: the bytes rank 0 has read from a rank in all its rounds (Read) and  *)
(* those on the way are what the rank has written; the bytes rank 0 has    *)
(* written to it (Told) are those the rank has read and those on the way.  *)
(*                                                                         *)
(* Then the start-up (StartInv).  What every process holds follows from    *)
(* how far it is and from what waits on its connections: the lines on a    *)
(* data connection are those rank 0 has said less those the rank has read, *)
(* and a connection is with the one who opened it, and either waits to be  *)
(* accepted or is with the other as well.                                  *)
(***************************************************************************)
EXTENDS SocketStartup, FiniteSetTheorems, SequenceTheorems, TLAPS

InBarrier == entered[0] = left[0] + 1
Read(r) == IF InBarrier /\ (loop = "tell" \/ r < next) THEN left[0] + 1 ELSE left[0]
Told(r) == IF InBarrier /\ loop = "tell" /\ r < next THEN left[0] + 1 ELSE left[0]

Types ==
  /\ entered \in [Members -> Nat] /\ left \in [Members -> Nat]
  /\ up \in [Others -> Nat] /\ down \in [Others -> Nat]
  /\ loop \in {"collect", "tell"} /\ next \in 1 .. Size

InOrOut ==
  \A r \in Members : \/ entered[r] = left[r] /\ left[r] <= Rounds
                     \/ entered[r] = left[r] + 1 /\ left[r] < Rounds
Bytes == \A r \in Others : entered[r] = Read(r) + up[r] /\ Told(r) = left[r] + down[r]

Inv == Types /\ InOrOut /\ Bytes

\* The ranks are numbers, 0 is one, and the others are those from 1 on.
LEMMA MembersFact ==
  /\ Size \in Nat /\ Size >= 1 /\ Rounds \in Nat
  /\ 0 \in Members /\ Others \subseteq Members
  /\ \A r \in Members : r = 0 \/ r \in Others
  /\ \A r \in Others : r \in Int /\ 1 <= r /\ r < Size /\ r # 0
  /\ \A r \in Int : 1 <= r /\ r < Size => r \in Others
  BY SizeAssumption DEF Members, Others

\* The invariant holds at the start.
LEMMA InvInit == BarrierInit => Inv
<1>. SUFFICES ASSUME BarrierInit PROVE Inv
  OBVIOUS
<1>. USE MembersFact DEF BarrierInit
<1>1. Types
  BY DEF Types
<1>2. InOrOut
  BY DEF InOrOut
<1>3. Bytes
  BY DEF Bytes, Read, Told, InBarrier
<1>. QED BY <1>1, <1>2, <1>3 DEF Inv

\* Every step of socket_barrier keeps it.
LEMMA InvNext == Inv /\ [BarrierNext]_barrierVars => Inv'
<1>. SUFFICES ASSUME Inv, [BarrierNext]_barrierVars PROVE Inv'
  OBVIOUS
<1>. USE MembersFact
<1>t. Types /\ InOrOut /\ Bytes
  BY DEF Inv
<1>n. \A s \in Others : entered[s] \in Nat /\ left[s] \in Nat /\ up[s] \in Nat /\ down[s] \in Nat
  BY <1>t DEF Types
<1>z. entered[0] \in Nat /\ left[0] \in Nat /\ next \in Int /\ 1 <= next /\ next <= Size
  BY <1>t DEF Types
<1>b. \A s \in Others : entered[s] = Read(s) + up[s] /\ Told(s) = left[s] + down[s]
  BY <1>t DEF Bytes
<1>1. ASSUME NEW r \in Others, Arrive(r) PROVE Inv'
  <2>1. Types'
    BY <1>1, <1>t, <1>z, <1>n DEF Arrive, Types
  <2>2. InOrOut'
    BY <1>1, <1>t DEF Arrive, Types, InOrOut
  <2>3. ASSUME NEW s \in Others
        PROVE  (entered[s] = Read(s) + up[s] /\ Told(s) = left[s] + down[s])'
    BY <1>1, <1>n, <1>z, <1>b, <1>t DEF Arrive, Types, Read, Told, InBarrier
  <2>. QED BY <2>1, <2>2, <2>3 DEF Inv, Bytes
<1>2. ASSUME NEW r \in Others, Leave(r) PROVE Inv'
  <2>1. Types'
    BY <1>2, <1>t, <1>z, <1>n DEF Leave, Types
  <2>2. InOrOut'
    BY <1>2, <1>t DEF Leave, Types, InOrOut
  <2>3. ASSUME NEW s \in Others
        PROVE  (entered[s] = Read(s) + up[s] /\ Told(s) = left[s] + down[s])'
    BY <1>2, <1>n, <1>z, <1>b, <1>t DEF Leave, Types, Read, Told, InBarrier
  <2>. QED BY <2>1, <2>2, <2>3 DEF Inv, Bytes
<1>3. CASE RootArrives
  <2>1. Types'
    BY <1>3, <1>t, <1>z, <1>n DEF RootArrives, Types
  <2>2. InOrOut'
    BY <1>3, <1>t DEF RootArrives, Types, InOrOut
  <2>3. ASSUME NEW s \in Others
        PROVE  (entered[s] = Read(s) + up[s] /\ Told(s) = left[s] + down[s])'
    BY <1>3, <1>n, <1>z, <1>b, <1>t DEF RootArrives, Types, Read, Told, InBarrier
  <2>. QED BY <2>1, <2>2, <2>3 DEF Inv, Bytes
<1>4. CASE Collect
  <2>0. next \in Others
    BY <1>4, <1>z DEF Collect
  <2>1. Types'
    BY <1>4, <1>t, <1>z, <1>n, <2>0 DEF Collect, Types
  <2>2. InOrOut'
    BY <1>4, <1>t DEF Collect, Types, InOrOut
  <2>3. ASSUME NEW s \in Others
        PROVE  (entered[s] = Read(s) + up[s] /\ Told(s) = left[s] + down[s])'
    BY <1>4, <1>n, <1>z, <1>b, <1>t, <2>0 DEF Collect, Types, Read, Told, InBarrier
  <2>. QED BY <2>1, <2>2, <2>3 DEF Inv, Bytes
<1>5. CASE Collected
  <2>1. Types'
    BY <1>5, <1>t, <1>z, <1>n DEF Collected, Types
  <2>2. InOrOut'
    BY <1>5, <1>t DEF Collected, Types, InOrOut
  <2>3. ASSUME NEW s \in Others
        PROVE  (entered[s] = Read(s) + up[s] /\ Told(s) = left[s] + down[s])'
    BY <1>5, <1>n, <1>z, <1>b, <1>t DEF Collected, Types, Read, Told, InBarrier
  <2>. QED BY <2>1, <2>2, <2>3 DEF Inv, Bytes
<1>6. CASE Tell
  <2>0. next \in Others
    BY <1>6, <1>z DEF Tell
  <2>1. Types'
    BY <1>6, <1>t, <1>z, <1>n, <2>0 DEF Tell, Types
  <2>2. InOrOut'
    BY <1>6, <1>t DEF Tell, Types, InOrOut
  <2>3. ASSUME NEW s \in Others
        PROVE  (entered[s] = Read(s) + up[s] /\ Told(s) = left[s] + down[s])'
    BY <1>6, <1>n, <1>z, <1>b, <1>t, <2>0 DEF Tell, Types, Read, Told, InBarrier
  <2>. QED BY <2>1, <2>2, <2>3 DEF Inv, Bytes
<1>7. CASE RootLeaves
  <2>1. Types'
    BY <1>7, <1>t, <1>z, <1>n DEF RootLeaves, Types
  <2>2. InOrOut'
    BY <1>7, <1>t DEF RootLeaves, Types, InOrOut
  <2>3. ASSUME NEW s \in Others
        PROVE  (entered[s] = Read(s) + up[s] /\ Told(s) = left[s] + down[s])'
    BY <1>7, <1>n, <1>z, <1>b, <1>t DEF RootLeaves, Types, Read, Told, InBarrier
  <2>. QED BY <2>1, <2>2, <2>3 DEF Inv, Bytes
<1>8. CASE UNCHANGED barrierVars
  BY <1>8, <1>t DEF barrierVars, Inv, Types, InOrOut, Bytes, Read, Told, InBarrier
<1>. QED BY <1>1, <1>2, <1>3, <1>4, <1>5, <1>6, <1>7, <1>8 DEF BarrierNext, RootStep

LEMMA InvAlways == BarrierSpec => []Inv
  BY InvInit, InvNext, PTL DEF BarrierSpec

\* What has left and what has entered differ by less than a round: a rank that
\* has left k rounds was told so by rank 0, which had read k bytes from each.
LEMMA InvIsSafe == Inv => NobodyLeavesEarly
<1>. SUFFICES ASSUME Inv, NEW r \in Members, NEW s \in Members PROVE left[r] <= entered[s]
  BY DEF NobodyLeavesEarly
<1>. USE MembersFact
<1>t. Types /\ InOrOut /\ Bytes
  BY DEF Inv
<1>n. \A q \in Others : entered[q] \in Nat /\ left[q] \in Nat /\ up[q] \in Nat /\ down[q] \in Nat
  BY <1>t DEF Types
<1>z. entered[0] \in Nat /\ left[0] \in Nat /\ left[0] <= entered[0] /\ entered[0] <= left[0] + 1
  BY <1>t DEF Types, InOrOut
<1>1. \A q \in Others : left[0] <= entered[q] /\ left[q] <= entered[0]
  BY <1>n, <1>z, <1>t DEF Bytes, Read, Told, InBarrier
<1>2. ASSUME r \in Others, s \in Others PROVE left[r] <= entered[s]
  <2>1. loop = "tell" /\ InBarrier => entered[s] >= left[0] + 1
    BY <1>2, <1>n, <1>z, <1>t DEF Bytes, Read
  <2>2. left[r] <= left[0] \/ (loop = "tell" /\ InBarrier /\ left[r] <= left[0] + 1)
    BY <1>2, <1>n, <1>z, <1>t DEF Bytes, Told
  <2>. QED BY <2>1, <2>2, <1>2, <1>1, <1>n, <1>z
<1>. QED BY <1>1, <1>2, <1>z

LEMMA InvIsTyped == Inv => BarrierTypeOK
<1>. SUFFICES ASSUME Inv PROVE BarrierTypeOK
  OBVIOUS
<1>. USE MembersFact
<1>t. Types /\ InOrOut /\ Bytes
  BY DEF Inv
<1>n. \A q \in Members : entered[q] \in Nat /\ left[q] \in Nat
  BY <1>t DEF Types
<1>m. \A q \in Others : up[q] \in Nat /\ down[q] \in Nat
  BY <1>t DEF Types
<1>1. \A q \in Members : entered[q] \in 0 .. Rounds /\ left[q] \in 0 .. Rounds
  BY <1>t, <1>n DEF InOrOut
<1>2. \A q \in Members : left[q] <= entered[q] /\ entered[q] <= left[q] + 1
  BY <1>t, <1>n DEF InOrOut
<1>3. ASSUME NEW q \in Others PROVE up[q] \in 0 .. 1 /\ down[q] \in 0 .. 1
  <2>1. entered[q] = Read(q) + up[q] /\ Told(q) = left[q] + down[q]
    BY <1>t DEF Bytes
  <2>2. left[q] <= left[0] + 1 /\ left[0] <= entered[q]
    BY <2>1, <1>n, <1>m DEF Read, Told
  <2>3. CASE InBarrier /\ loop = "tell"
    <3>1. entered[q] = left[0] + 1 + up[q]
      BY <2>1, <2>3, <1>n, <1>m DEF Read
    <3>. QED BY <3>1, <2>1, <2>2, <2>3, <1>2, <1>n, <1>m DEF Told
  <2>4. CASE ~(InBarrier /\ loop = "tell")
    <3>1. left[0] = left[q] + down[q]
      BY <2>1, <2>4, <1>n, <1>m DEF Told
    <3>. QED BY <3>1, <2>1, <2>2, <2>4, <1>2, <1>n, <1>m DEF Read
  <2>. QED BY <2>3, <2>4
<1>. QED BY <1>1, <1>3, <1>t DEF Types, BarrierTypeOK

\* Type correctness: at most one byte of a rank is on its way to rank 0, and
\* at most one back (socket_barrier, dcmpiruntime-socket.cpp).
THEOREM BarrierTypesHold == BarrierSpec => []BarrierTypeOK
  BY InvAlways, InvIsTyped, PTL

\* No rank leaves a round of socket_barrier before every rank has entered it,
\* whatever the number of ranks and of rounds.
THEOREM BarrierIsSafe == BarrierSpec => []NobodyLeavesEarly
  BY InvAlways, InvIsSafe, PTL

\* A step of socket_barrier enters or passes the barrier, or does nothing
\* that can be seen of it.
LEMMA StepIsBarrierStep ==
  Inv /\ Inv' /\ [BarrierNext]_barrierVars => [BarrierOf!Step]_<<entered, left>>
<1>. SUFFICES ASSUME Inv, Inv', [BarrierNext]_barrierVars
              PROVE  [BarrierOf!Step]_<<entered, left>>
  OBVIOUS
<1>. USE MembersFact
<1>t. Types
  BY DEF Inv
<1>s. NobodyLeavesEarly'
  BY InvIsSafe, PTL
<1>e. ASSUME NEW r \in Members, entered[r] = left[r], left[r] < Rounds,
             entered' = [entered EXCEPT ![r] = @ + 1], left' = left
      PROVE  BarrierOf!Step
  BY <1>e DEF BarrierOf!Step, BarrierOf!Enter
<1>p. ASSUME NEW r \in Members, entered[r] = left[r] + 1, entered' = entered,
             left' = [left EXCEPT ![r] = @ + 1]
      PROVE  BarrierOf!Step
  <2>1. ASSUME NEW s \in Members PROVE entered[s] > left[r]
    <3>1. left'[r] = left[r] + 1 /\ left[r] \in Nat /\ entered[s] \in Nat
      BY <1>p, <1>t, <2>1 DEF Types
    <3>2. left'[r] <= entered'[s]
      BY <1>s, <1>p, <2>1 DEF NobodyLeavesEarly
    <3>. QED BY <3>1, <3>2, <1>p
  <2>. QED BY <2>1, <1>p DEF BarrierOf!Step, BarrierOf!Pass
<1>1. ASSUME NEW r \in Others, Arrive(r) PROVE BarrierOf!Step
  BY <1>1, <1>e DEF Arrive
<1>2. ASSUME NEW r \in Others, Leave(r) PROVE BarrierOf!Step
  BY <1>2, <1>p DEF Leave
<1>3. CASE RootArrives
  BY <1>3, <1>e DEF RootArrives
<1>4. CASE RootLeaves
  BY <1>4, <1>p DEF RootLeaves
<1>5. CASE Collect \/ Collected \/ Tell \/ UNCHANGED barrierVars
  BY <1>5 DEF Collect, Collected, Tell, barrierVars
<1>. QED BY <1>1, <1>2, <1>3, <1>4, <1>5 DEF BarrierNext, RootStep

\* socket_barrier implements the abstract barrier.
THEOREM BarrierIsImplemented == BarrierSpec => ImplementsBarrier
<1>1. BarrierInit => BarrierOf!Outside
  BY DEF BarrierInit, BarrierOf!Outside
<1>. QED BY <1>1, InvAlways, StepIsBarrierStep, PTL
         DEF BarrierSpec, ImplementsBarrier, BarrierOf!Barrier

-----------------------------------------------------------------------------
(* The start-up: what every process holds on the way to its connections    *)

Lines == [what : {"port", "header", "endianness", "layout"}, rank : Members,
          port : -1 .. Size - 1]

StartTypes ==
  /\ stage \in [Members -> Stages]
  /\ backlog \in [Members -> Seq(Conns)]
  /\ \A r \in Members : Len(backlog[r]) <= Backlog
  /\ fd \in [Members -> [Members -> Conns \cup {None, Failed}]]
  /\ barrierFd \in [Members -> [Members -> Conns \cup {None}]]
  /\ ports \in [Members -> [Members -> -1 .. Size - 1]]
  /\ accepted \in [Members -> Nat]
  /\ peer \in [Members -> 1 .. Size]
  /\ data \in [Members -> Seq(Lines)]
  /\ bcasts \in [Members -> 0 .. 3]
  /\ heard \in [Members -> Seq({"header", "endianness", "layout"})]

\* How far a process is, and what it has done by then.
RootStage ==
  /\ stage[0] \in {"accept", "tell", "bcast", "run"}
  /\ stage[0] = "accept" => peer[0] = 1
  /\ stage[0] # "accept" => accepted[0] = 2 * (Size - 1)
  /\ stage[0] = "tell" => peer[0] < Size
  /\ Ready(0) => peer[0] = Size
  /\ bcasts[0] > 0 => Ready(0)
  /\ bcasts[0] = 3 <=> stage[0] = "run"
RankStage(r) ==
  /\ stage[r] # "tell"
  /\ stage[r] \in {"connect", "barrier"} => Known(r) = 0
  /\ stage[r] = "ports" => Known(r) < Size - 2
  /\ stage[r] \in {"accept", "peers", "bcast", "run"} => Known(r) = Size - 2
  /\ stage[r] = "accept" => accepted[r] < r - 1
  /\ stage[r] \in {"connect", "barrier", "ports"} => accepted[r] = 0
  /\ stage[r] \in {"peers", "bcast", "run"} /\ r > 1 => accepted[r] = r - 1
  /\ stage[r] = "peers" => peer[r] < Size
  /\ stage[r] \in {"connect", "barrier", "ports", "accept"} => peer[r] = r + 1
  /\ Ready(r) => peer[r] = Size
  /\ bcasts[r] > 0 => Ready(r)
  /\ bcasts[r] = 3 <=> stage[r] = "run"
  /\ peer[r] > r
StageInv == RootStage /\ \A r \in Others : RankStage(r)

\* What rank 0 says to rank r: the ports of the others, then the broadcasts.
\* How much of it has been said, and how much has been read.
Line(r, j)   == IF j < r THEN j ELSE j + 1
Msg(r, j)    == IF j <= Size - 2 THEN PortLine(Line(r, j), Line(r, j))
                ELSE BcastOf(Bcasts[j - (Size - 2)])
LinesTold(r) == IF peer[0] > r THEN peer[0] - 2 ELSE peer[0] - 1
Said(r)      == LinesTold(r) + bcasts[0]
Done(r)      == Known(r) + bcasts[r]
DataInv == \A r \in Others :
  /\ Len(data[r]) = Said(r) - Done(r)
  /\ \A k \in 1 .. Len(data[r]) : data[r][k] = Msg(r, Done(r) + k)

\* The ports that are known are those of the lines read so far.
PortsInv == \A r \in Others :
  /\ Known(r) \in 0 .. Size - 2
  /\ \A s \in Others : ports[r][s] = IF s # r /\ s < Line(r, Known(r) + 1) THEN s ELSE -1

HeardInv == \A r \in Others :
  /\ Len(heard[r]) = bcasts[r]
  /\ \A k \in 1 .. Len(heard[r]) : heard[r][k] = Bcasts[k]

\* A connection waits to be accepted.
In(s, c) == \E k \in 1 .. Len(backlog[s]) : backlog[s][k] = c
OnceInv  == \A s \in Members : \A j, k \in 1 .. Len(backlog[s]) :
              backlog[s][j] = backlog[s][k] => j = k

\* The connections of the others to rank 0, the one for data before the other.
DataConn(s)    == Conn(s, 0, "data")
BarrierConn(s) == Conn(s, 0, "barrier")
RootBacklog ==
  /\ \A k \in 1 .. Len(backlog[0]) : \E s \in Others : backlog[0][k] \in {DataConn(s), BarrierConn(s)}
  /\ \A s \in Others : \A j, k \in 1 .. Len(backlog[0]) :
       backlog[0][j] = BarrierConn(s) /\ backlog[0][k] = DataConn(s) => k < j
RootJoined == \A s \in Others :
  /\ In(0, DataConn(s)) => stage[s] # "connect"
  /\ In(0, BarrierConn(s)) => stage[s] \notin {"connect", "barrier"}
  /\ fd[s][0] = IF stage[s] = "connect" THEN None ELSE DataConn(s)
  /\ barrierFd[s][0] = IF stage[s] \in {"connect", "barrier"} THEN None ELSE BarrierConn(s)
  /\ fd[0][s] = IF stage[s] = "connect" \/ In(0, DataConn(s)) THEN None ELSE DataConn(s)
  /\ barrierFd[0][s] = IF stage[s] \in {"connect", "barrier"} \/ In(0, BarrierConn(s)) THEN None
                       ELSE BarrierConn(s)
  /\ ports[0][s] = IF fd[0][s] = None THEN -1 ELSE s
RootCount == accepted[0] = Cardinality({s \in Others : fd[0][s] # None})
                           + Cardinality({s \in Others : barrierFd[0][s] # None})

\* The connection of two other ranks, opened by the lower one.
PeersInv == \A s \in Others :
  /\ \A k \in 1 .. Len(backlog[s]) : \E r \in 1 .. s - 1 : backlog[s][k] = Conn(r, s, "data")
  /\ \A r \in 1 .. s - 1 :
       /\ In(s, Conn(r, s, "data")) => s < peer[r]
       /\ fd[r][s] = IF s < peer[r] THEN Conn(r, s, "data") ELSE None
       /\ fd[s][r] = IF s < peer[r] /\ ~In(s, Conn(r, s, "data")) THEN Conn(r, s, "data") ELSE None
PeersCount == \A s \in Others : accepted[s] = Cardinality({r \in 1 .. s - 1 : fd[s][r] # None})

StartInv ==
  /\ StartTypes /\ StageInv /\ DataInv /\ PortsInv /\ HeardInv /\ OnceInv
  /\ RootBacklog /\ RootJoined /\ RootCount /\ PeersInv /\ PeersCount

-----------------------------------------------------------------------------
(* Numbers of connections, queues of connections                           *)

\* Connections are told apart by who opened them, to whom and what for.
LEMMA ConnFacts ==
  /\ \A a, b, k, c, d, l : Conn(a, b, k) = Conn(c, d, l) => a = c /\ b = d /\ k = l
  /\ \A a, b \in Members : \A k \in {"data", "barrier"} :
       Conn(a, b, k) \in Conns /\ Conn(a, b, k) # None /\ Conn(a, b, k) # Failed
  /\ \A a, b, k : Conn(a, b, k).client = a /\ Conn(a, b, k).server = b /\ Conn(a, b, k).kind = k
BY MembersFact DEF Conn, Conns, None, Failed, Members

\* A number of ranks that grows by one, or stays as it is.
LEMMA OneMore ==
  ASSUME NEW S, IsFiniteSet(S), NEW T, NEW x, x \notin S, T = S \cup {x}
  PROVE  IsFiniteSet(T) /\ Cardinality(T) = Cardinality(S) + 1
BY FS_AddElement

\* The ranks other than 0, and those below one of them, are as many as they should be.
LEMMA RanksFinite ==
  /\ IsFiniteSet(Others) /\ Cardinality(Others) = Size - 1
  /\ \A S \in SUBSET Others : IsFiniteSet(S) /\ Cardinality(S) \in Nat /\ Cardinality(S) <= Size - 1
                              /\ (Cardinality(S) = Size - 1 => S = Others)
  /\ \A s \in Others : \A S \in SUBSET (1 .. s - 1) :
       IsFiniteSet(S) /\ Cardinality(S) \in Nat /\ Cardinality(S) <= s - 1
       /\ (Cardinality(S) = s - 1 => S = 1 .. s - 1)
<1>1. IsFiniteSet(Others) /\ Cardinality(Others) = Size - 1
  BY FS_Interval, MembersFact DEF Others
<1>2. ASSUME NEW S \in SUBSET Others
      PROVE  IsFiniteSet(S) /\ Cardinality(S) \in Nat /\ Cardinality(S) <= Size - 1
             /\ (Cardinality(S) = Size - 1 => S = Others)
  BY <1>1, FS_Subset, FS_CardinalityType
<1>3. ASSUME NEW s \in Others, NEW S \in SUBSET (1 .. s - 1)
      PROVE  IsFiniteSet(S) /\ Cardinality(S) \in Nat /\ Cardinality(S) <= s - 1
             /\ (Cardinality(S) = s - 1 => S = 1 .. s - 1)
  <2>0. PICK k \in Nat : k = s - 1
    BY MembersFact
  <2>1. IsFiniteSet(1 .. k) /\ Cardinality(1 .. k) = k
    BY FS_Interval
  <2>2. QED
    BY <2>0, <2>1, FS_Subset, FS_CardinalityType
<1>4. QED
  BY <1>1, <1>2, <1>3

\* A connection that is opened waits behind the others.
LEMMA OpenedIn ==
  ASSUME StartTypes, NEW c \in Members, NEW s \in Members, NEW k \in {"data", "barrier"},
         Opened(c, s, k)
  PROVE  /\ backlog' \in [Members -> Seq(Conns)]
         /\ \A x \in Members : Len(backlog'[x]) <= Backlog
         /\ \A x \in Members : x # s => backlog'[x] = backlog[x]
         /\ Len(backlog'[s]) = Len(backlog[s]) + 1 /\ Len(backlog[s]) \in Nat
         /\ \A j \in 1 .. Len(backlog[s]) : backlog'[s][j] = backlog[s][j]
         /\ backlog'[s][Len(backlog[s]) + 1] = Conn(c, s, k)
         /\ \A x \in Members : \A d : In(x, d)' <=> In(x, d) \/ (x = s /\ d = Conn(c, s, k))
<1>1. Conn(c, s, k) \in Conns /\ backlog[s] \in Seq(Conns) /\ Backlog \in Nat
  BY ConnFacts, BacklogAssumption DEF StartTypes
<1>2. backlog' = [backlog EXCEPT ![s] = Append(@, Conn(c, s, k))] /\ Len(backlog[s]) < Backlog
  BY DEF Opened
<1>3. backlog'[s] = Append(backlog[s], Conn(c, s, k)) /\ \A x \in Members : x # s => backlog'[x] = backlog[x]
  BY <1>2 DEF StartTypes
<1>4. PICK q : q = backlog[s]
  OBVIOUS
<1>5. /\ Append(q, Conn(c, s, k)) \in Seq(Conns) /\ Len(Append(q, Conn(c, s, k))) = Len(q) + 1
      /\ Len(q) \in Nat /\ \A j \in 1 .. Len(q) : Append(q, Conn(c, s, k))[j] = q[j]
      /\ Append(q, Conn(c, s, k))[Len(q) + 1] = Conn(c, s, k)
  BY <1>1, <1>4
<1>6. ASSUME NEW x \in Members, NEW d
      PROVE  In(x, d)' <=> In(x, d) \/ (x = s /\ d = Conn(c, s, k))
  <2>1. CASE x = s
    BY <2>1, <1>3, <1>4, <1>5 DEF In
  <2>2. CASE x # s
    BY <2>2, <1>3 DEF In
  <2>3. QED
    BY <2>1, <2>2
<1>7. backlog' \in [Members -> Seq(Conns)]
  BY <1>2, <1>4, <1>5 DEF StartTypes
<1>8. \A x \in Members : Len(backlog'[x]) <= Backlog
  BY <1>1, <1>2, <1>3, <1>4, <1>5 DEF StartTypes
<1>9. QED
  BY <1>3, <1>4, <1>5, <1>6, <1>7, <1>8

\* It stays in one place.
LEMMA OpenedOnce ==
  ASSUME StartTypes, OnceInv, NEW c \in Members, NEW s \in Members, NEW k \in {"data", "barrier"},
         Opened(c, s, k), ~In(s, Conn(c, s, k))
  PROVE  OnceInv'
<1> SUFFICES ASSUME NEW x \in Members, NEW i \in 1 .. Len(backlog'[x]), NEW j \in 1 .. Len(backlog'[x]),
                    backlog'[x][i] = backlog'[x][j]
             PROVE  i = j
  BY DEF OnceInv
<1>1. CASE x # s
  BY <1>1, OpenedIn DEF OnceInv
<1>2. CASE x = s
  <2>1. PICK n : n = Len(backlog[s])
    OBVIOUS
  <2>2. n \in Nat /\ Len(backlog'[s]) = n + 1 /\ backlog'[s][n + 1] = Conn(c, s, k)
        /\ \A l \in 1 .. n : backlog'[s][l] = backlog[s][l]
    BY <2>1, OpenedIn
  <2>3. \A l \in 1 .. n : backlog'[s][l] # Conn(c, s, k)
    BY <2>1, <2>2 DEF In
  <2>4. i \in 1 .. n \/ i = n + 1
    BY <1>2, <2>2
  <2>5. j \in 1 .. n \/ j = n + 1
    BY <1>2, <2>2
  <2>6. QED
    BY <1>2, <2>1, <2>2, <2>3, <2>4, <2>5 DEF OnceInv
<1>3. QED
  BY <1>1, <1>2

\* The first one is accepted.
LEMMA AcceptedOut ==
  ASSUME StartTypes, OnceInv, NEW s \in Members, backlog[s] # <<>>,
         backlog' = [backlog EXCEPT ![s] = Tail(@)]
  PROVE  /\ backlog' \in [Members -> Seq(Conns)]
         /\ \A x \in Members : Len(backlog'[x]) <= Backlog
         /\ \A x \in Members : x # s => backlog'[x] = backlog[x]
         /\ Len(backlog[s]) \in Nat \ {0} /\ Len(backlog'[s]) = Len(backlog[s]) - 1
         /\ \A j \in 1 .. Len(backlog'[s]) : backlog'[s][j] = backlog[s][j + 1]
         /\ Head(backlog[s]) = backlog[s][1] /\ Head(backlog[s]) \in Conns
         /\ In(s, Head(backlog[s]))
         /\ \A x \in Members : \A d : In(x, d)' <=> In(x, d) /\ ~(x = s /\ d = Head(backlog[s]))
         /\ OnceInv'
<1>1. backlog[s] \in Seq(Conns) /\ Backlog \in Nat
  BY BacklogAssumption DEF StartTypes
<1>2. backlog'[s] = Tail(backlog[s]) /\ \A x \in Members : x # s => backlog'[x] = backlog[x]
  BY DEF StartTypes
<1>3. PICK q : q = backlog[s]
  OBVIOUS
<1>4. PICK n : n = Len(q)
  OBVIOUS
<1>5. /\ n \in Nat \ {0} /\ Tail(q) \in Seq(Conns) /\ Len(Tail(q)) = n - 1 /\ Head(q) = q[1]
      /\ \A j \in 1 .. n - 1 : Tail(q)[j] = q[j + 1]
      /\ Head(q) \in Conns
  BY <1>1, <1>3, <1>4
<1>6. \A i, j \in 1 .. n : q[i] = q[j] => i = j
  BY <1>3, <1>4 DEF OnceInv
<1>7. In(s, Head(backlog[s]))
  BY <1>3, <1>4, <1>5 DEF In
<1>8. ASSUME NEW x \in Members, NEW d
      PROVE  In(x, d)' <=> In(x, d) /\ ~(x = s /\ d = Head(backlog[s]))
  <2>1. CASE x # s
    BY <2>1, <1>2 DEF In
  <2>2. CASE x = s
    <3>0. Len(backlog'[s]) = n - 1 /\ \A k \in 1 .. n - 1 : backlog'[s][k] = q[k + 1]
      BY <1>2, <1>3, <1>4, <1>5
    <3>1. In(x, d)' <=> \E k \in 1 .. n - 1 : q[k + 1] = d
      BY <2>2, <3>0 DEF In
    <3>2. In(x, d) <=> \E k \in 1 .. n : q[k] = d
      BY <2>2, <1>3, <1>4 DEF In
    <3>3. (\E k \in 1 .. n - 1 : q[k + 1] = d) <=> (\E k \in 1 .. n : q[k] = d) /\ d # q[1]
      <4>1. ASSUME NEW k \in 1 .. n - 1, q[k + 1] = d
            PROVE  (\E l \in 1 .. n : q[l] = d) /\ d # q[1]
        <5>1. k + 1 \in 1 .. n /\ 1 \in 1 .. n /\ k + 1 # 1
          BY <1>5
        <5>2. QED
          BY <4>1, <5>1, <1>6
      <4>2. ASSUME NEW k \in 1 .. n, q[k] = d, d # q[1]
            PROVE  \E l \in 1 .. n - 1 : q[l + 1] = d
        <5>1. k # 1
          BY <4>2
        <5>2. k - 1 \in 1 .. n - 1 /\ (k - 1) + 1 = k
          BY <5>1, <1>5
        <5>3. QED
          BY <4>2, <5>2
      <4>3. QED
        BY <4>1, <4>2
    <3>4. QED
      BY <2>2, <3>1, <3>2, <3>3, <1>3, <1>5
  <2>3. QED
    BY <2>1, <2>2
<1>9. OnceInv'
  <2> SUFFICES ASSUME NEW x \in Members, NEW i \in 1 .. Len(backlog'[x]), NEW j \in 1 .. Len(backlog'[x]),
                      backlog'[x][i] = backlog'[x][j]
               PROVE  i = j
    BY DEF OnceInv
  <2>1. CASE x # s
    BY <2>1, <1>2 DEF OnceInv
  <2>2. CASE x = s
    <3>0. Len(backlog'[s]) = n - 1 /\ \A k \in 1 .. n - 1 : backlog'[s][k] = q[k + 1]
      BY <1>2, <1>3, <1>4, <1>5
    <3>1. /\ i \in 1 .. n - 1 /\ j \in 1 .. n - 1 /\ i \in Nat /\ j \in Nat
          /\ i + 1 \in 1 .. n /\ j + 1 \in 1 .. n
      BY <2>2, <3>0, <1>5
    <3>2. q[i + 1] = q[j + 1]
      BY <2>2, <3>0, <3>1
    <3>3. QED
      BY <3>1, <3>2, <1>6
  <2>3. QED
    BY <2>1, <2>2
<1>10. backlog' \in [Members -> Seq(Conns)]
  BY <1>3, <1>5 DEF StartTypes
<1>11. \A x \in Members : Len(backlog'[x]) <= Backlog
  BY <1>1, <1>2, <1>3, <1>4, <1>5 DEF StartTypes
<1>12. QED
  BY <1>2, <1>3, <1>4, <1>5, <1>7, <1>8, <1>9, <1>10, <1>11

-----------------------------------------------------------------------------
(* What a step does not touch                                              *)

\* The numbers a step computes with.
LEMMA StartNumbers ==
  ASSUME StartTypes
  PROVE  /\ Size \in Nat /\ Size >= 1 /\ 0 \in Members /\ Others \subseteq Members
         /\ \A r \in Others : r \in Int /\ 1 <= r /\ r < Size /\ r # 0
         /\ \A r \in Int : 1 <= r /\ r < Size => r \in Others
         /\ \A r \in Members : /\ peer[r] \in Int /\ 1 <= peer[r] /\ peer[r] <= Size
                               /\ bcasts[r] \in Int /\ 0 <= bcasts[r] /\ bcasts[r] <= 3
                               /\ accepted[r] \in Nat /\ stage[r] \in Stages
         /\ \A r \in Others : Known(r) \in Nat /\ Len(data[r]) \in Nat /\ data[r] \in Seq(Lines)
<1>1. ASSUME NEW r \in Others
      PROVE  Known(r) \in Nat
  BY RanksFinite DEF Known
<1>2. \A r \in Others : Len(data[r]) \in Nat /\ data[r] \in Seq(Lines)
  BY MembersFact DEF StartTypes
<1>3. ASSUME NEW r \in Members
      PROVE  /\ peer[r] \in Int /\ 1 <= peer[r] /\ peer[r] <= Size
             /\ bcasts[r] \in Int /\ 0 <= bcasts[r] /\ bcasts[r] <= 3
             /\ accepted[r] \in Nat /\ stage[r] \in Stages
  <2>1. peer[r] \in 1 .. Size
    BY DEF StartTypes
  <2>2. bcasts[r] \in 0 .. 3
    BY DEF StartTypes
  <2>3. accepted[r] \in Nat /\ stage[r] \in Stages
    BY DEF StartTypes
  <2>4. QED
    BY <2>1, <2>2, <2>3, MembersFact
<1>4. QED
  BY <1>1, <1>2, <1>3, MembersFact

\* A rank knows as many ports as before when its table is the same.
LEMMA KnownSame ==
  ASSUME NEW r \in Others, \A s \in Others : ports'[r][s] = ports[r][s]
  PROVE  Known(r)' = Known(r)
BY DEF Known

\* Only rank r moves on.
LEMMA RankMoves ==
  ASSUME StageInv, NEW r \in Others, r # 0, \A x \in Others : x # 0,
         RankStage(r)',
         \A x \in Others \cup {0} : x # r =>
           /\ stage'[x] = stage[x] /\ accepted'[x] = accepted[x]
           /\ peer'[x] = peer[x] /\ bcasts'[x] = bcasts[x],
         \A x \in Others : x # r => Known(x)' = Known(x)
  PROVE  StageInv'
<1>1. RootStage'
  BY DEF StageInv, RootStage, Ready
<1>2. ASSUME NEW x \in Others, x # r
      PROVE  RankStage(x)'
  BY <1>2 DEF StageInv, RankStage, Ready
<1>3. QED
  BY <1>1, <1>2 DEF StageInv

\* Nothing is said or read.
LEMMA WordsKept ==
  ASSUME DataInv, PortsInv, HeardInv, UNCHANGED <<data, bcasts, heard>>, peer'[0] = peer[0],
         \A r, s \in Others : ports'[r][s] = ports[r][s]
  PROVE  /\ DataInv' /\ PortsInv' /\ HeardInv'
         /\ \A r \in Others : Known(r)' = Known(r)
<1>1. \A r \in Others : Known(r)' = Known(r)
  BY KnownSame
<1>2. DataInv'
  BY <1>1 DEF DataInv, Said, Done, LinesTold, Msg
<1>3. PortsInv'
  BY <1>1 DEF PortsInv
<1>4. HeardInv'
  BY DEF HeardInv
<1>5. QED
  BY <1>1, <1>2, <1>3, <1>4

\* No connection to rank 0 changes.
LEMMA RootKept ==
  ASSUME RootBacklog, RootJoined, RootCount, backlog'[0] = backlog[0], accepted'[0] = accepted[0],
         \A s \in Others : /\ fd'[s][0] = fd[s][0] /\ fd'[0][s] = fd[0][s]
                           /\ barrierFd'[s][0] = barrierFd[s][0]
                           /\ barrierFd'[0][s] = barrierFd[0][s]
                           /\ ports'[0][s] = ports[0][s]
                           /\ (stage'[s] = "connect" <=> stage[s] = "connect")
                           /\ (stage'[s] = "barrier" <=> stage[s] = "barrier")
  PROVE  RootBacklog' /\ RootJoined' /\ RootCount'
<1>1. \A d : In(0, d)' <=> In(0, d)
  BY DEF In
<1>2. RootBacklog'
  BY DEF RootBacklog
<1>3. RootJoined'
  BY <1>1 DEF RootJoined
<1>4. /\ {s \in Others : fd'[0][s] # None} = {s \in Others : fd[0][s] # None}
      /\ {s \in Others : barrierFd'[0][s] # None} = {s \in Others : barrierFd[0][s] # None}
  OBVIOUS
<1>5. RootCount'
  BY <1>4 DEF RootCount
<1>6. QED
  BY <1>2, <1>3, <1>5

\* No connection between other ranks changes.
LEMMA PeersKept ==
  ASSUME PeersInv, PeersCount,
         \A s \in Others : backlog'[s] = backlog[s] /\ accepted'[s] = accepted[s] /\ peer'[s] = peer[s],
         \A r, s \in Others : fd'[r][s] = fd[r][s]
  PROVE  PeersInv' /\ PeersCount'
<1>1. \A s \in Others : \A r \in 1 .. s - 1 : r \in Others
  BY MembersFact
<1>2. \A s \in Others : \A d : In(s, d)' <=> In(s, d)
  BY DEF In
<1>3. PeersInv'
  BY <1>1, <1>2 DEF PeersInv
<1>4. ASSUME NEW s \in Others
      PROVE  {r \in 1 .. s - 1 : fd'[s][r] # None} = {r \in 1 .. s - 1 : fd[s][r] # None}
  BY <1>1
<1>5. PeersCount'
  BY <1>4 DEF PeersCount
<1>6. QED
  BY <1>3, <1>5

-----------------------------------------------------------------------------
(* The connections to rank 0                                               *)

\* A rank connects for data.
LEMMA ConnectToRootKeeps ==
  ASSUME StartInv, NEW r \in Others, ConnectToRoot(r)
  PROVE  StartInv'
<1> USE DEF StartInv
<1>1. /\ r \in Members /\ 0 \in Members /\ r # 0
      /\ Opened(r, 0, "data") /\ stage[r] = "connect"
      /\ fd' = [fd EXCEPT ![r][0] = DataConn(r)] /\ stage' = [stage EXCEPT ![r] = "barrier"]
      /\ UNCHANGED <<barrierFd, ports, accepted, peer, data, bcasts, heard>>
  BY StartNumbers DEF ConnectToRoot, DataConn
<1>2. DataConn(r) \in Conns /\ DataConn(r) = Conn(r, 0, "data")
  BY <1>1, ConnFacts DEF DataConn
<1>3. /\ \A x, y \in Members : fd'[x][y] = IF x = r /\ y = 0 THEN DataConn(r) ELSE fd[x][y]
      /\ \A x \in Members : stage'[x] = IF x = r THEN "barrier" ELSE stage[x]
  BY <1>1 DEF StartTypes
<1>4. StartTypes'
  BY <1>1, <1>2, OpenedIn DEF StartTypes, Stages
<1>5. DataInv' /\ PortsInv' /\ HeardInv' /\ \A x \in Others : Known(x)' = Known(x)
  BY <1>1, WordsKept
<1>6. StageInv'
  BY <1>1, <1>3, <1>5, StartNumbers DEF StageInv, RankStage, RootStage, Ready
<1>7. ~In(0, DataConn(r)) /\ ~In(0, BarrierConn(r))
  BY <1>1 DEF RootJoined
<1>8. OnceInv'
  BY <1>1, <1>2, <1>7, OpenedOnce
<1>9. \A d : In(0, d)' <=> In(0, d) \/ d = DataConn(r)
  BY <1>1, <1>2, OpenedIn
<1>10. RootBacklog'
  <2>1. PICK n : n = Len(backlog[0])
    OBVIOUS
  <2>2. /\ n \in Nat /\ Len(backlog'[0]) = n + 1 /\ backlog'[0][n + 1] = DataConn(r)
        /\ \A l \in 1 .. n : backlog'[0][l] = backlog[0][l]
    BY <1>1, <1>2, <2>1, OpenedIn
  <2>3. \A l \in 1 .. n + 1 : l \in 1 .. n \/ l = n + 1
    BY <2>2
  <2>4. \A s \in Others : DataConn(r) # BarrierConn(s) /\ (DataConn(r) = DataConn(s) => r = s)
    BY ConnFacts DEF DataConn, BarrierConn
  <2>5. \A l \in 1 .. n : backlog[0][l] # BarrierConn(r)
    BY <1>7, <2>1 DEF In
  <2>6. \A k \in 1 .. n + 1 : \E s \in Others : backlog'[0][k] \in {DataConn(s), BarrierConn(s)}
    BY <2>1, <2>2, <2>3 DEF RootBacklog
  <2>7. ASSUME NEW s \in Others, NEW j \in 1 .. n + 1, NEW k \in 1 .. n + 1,
               backlog'[0][j] = BarrierConn(s), backlog'[0][k] = DataConn(s)
        PROVE  k < j
    <3>1. j \in 1 .. n
      BY <2>2, <2>3, <2>4, <2>7
    <3>2. s # r
      BY <2>2, <2>5, <2>7, <3>1
    <3>3. k \in 1 .. n
      BY <2>2, <2>3, <2>4, <2>7, <3>2
    <3>4. QED
      BY <2>1, <2>2, <2>7, <3>1, <3>3 DEF RootBacklog
  <2>8. QED
    BY <2>2, <2>6, <2>7 DEF RootBacklog
<1>11. RootJoined'
  <2> SUFFICES ASSUME NEW s \in Others
               PROVE  (/\ In(0, DataConn(s)) => stage[s] # "connect"
                       /\ In(0, BarrierConn(s)) => stage[s] \notin {"connect", "barrier"}
                       /\ fd[s][0] = IF stage[s] = "connect" THEN None ELSE DataConn(s)
                       /\ barrierFd[s][0] = IF stage[s] \in {"connect", "barrier"} THEN None ELSE BarrierConn(s)
                       /\ fd[0][s] = IF stage[s] = "connect" \/ In(0, DataConn(s)) THEN None ELSE DataConn(s)
                       /\ barrierFd[0][s] = IF stage[s] \in {"connect", "barrier"} \/ In(0, BarrierConn(s)) THEN None
                                            ELSE BarrierConn(s)
                       /\ ports[0][s] = IF fd[0][s] = None THEN -1 ELSE s)'
    BY DEF RootJoined
  <2>1. s \in Members /\ s # 0 /\ fd'[0][s] = fd[0][s]
    BY <1>1, <1>3, StartNumbers
  <2>2. (DataConn(s) = DataConn(r) => s = r) /\ BarrierConn(s) # DataConn(r)
    BY ConnFacts DEF DataConn, BarrierConn
  <2>3. CASE s = r
    BY <1>1, <1>3, <1>7, <1>9, <2>1, <2>2, <2>3 DEF RootJoined
  <2>4. CASE s # r
    BY <1>1, <1>3, <1>9, <2>1, <2>2, <2>4 DEF RootJoined
  <2>5. QED
    BY <2>3, <2>4
<1>12. RootCount'
  <2>1. \A s \in Others : fd'[0][s] = fd[0][s]
    BY <1>1, <1>3, StartNumbers
  <2>2. {s \in Others : fd'[0][s] # None} = {s \in Others : fd[0][s] # None}
    BY <2>1
  <2>3. QED
    BY <1>1, <2>2 DEF RootCount
<1>13. PeersInv' /\ PeersCount'
  <2>1. \A s \in Others : backlog'[s] = backlog[s]
    BY <1>1, OpenedIn, StartNumbers
  <2>2. \A x, y \in Others : fd'[x][y] = fd[x][y]
    BY <1>3, StartNumbers
  <2>3. QED
    BY <1>1, <2>1, <2>2, PeersKept
<1>14. QED
  BY <1>4, <1>5, <1>6, <1>8, <1>10, <1>11, <1>12, <1>13

\* It connects for the barrier.
LEMMA ConnectBarrierKeeps ==
  ASSUME StartInv, NEW r \in Others, ConnectBarrier(r)
  PROVE  StartInv'
<1> USE DEF StartInv
<1>0. PICK t : t = IF Size > 2 THEN "ports" ELSE "bcast"
  OBVIOUS
<1>1. /\ r \in Members /\ 0 \in Members /\ r # 0
      /\ Opened(r, 0, "barrier") /\ stage[r] = "barrier"
      /\ barrierFd' = [barrierFd EXCEPT ![r][0] = BarrierConn(r)] /\ stage' = [stage EXCEPT ![r] = t]
      /\ UNCHANGED <<fd, ports, accepted, peer, data, bcasts, heard>>
  BY <1>0, StartNumbers DEF ConnectBarrier, BarrierConn
<1>2. BarrierConn(r) \in Conns /\ BarrierConn(r) = Conn(r, 0, "barrier")
  BY <1>1, ConnFacts DEF BarrierConn
<1>3. /\ \A x, y \in Members : barrierFd'[x][y] = IF x = r /\ y = 0 THEN BarrierConn(r) ELSE barrierFd[x][y]
      /\ \A x \in Members : stage'[x] = IF x = r THEN t ELSE stage[x]
  BY <1>1 DEF StartTypes
<1>4. StartTypes'
  BY <1>0, <1>1, <1>2, OpenedIn DEF StartTypes, Stages
<1>5. DataInv' /\ PortsInv' /\ HeardInv' /\ \A x \in Others : Known(x)' = Known(x)
  BY <1>1, WordsKept
<1>6. StageInv'
  <2>1. /\ Known(r) = 0 /\ accepted[r] = 0 /\ peer[r] = r + 1 /\ ~(bcasts[r] > 0)
        /\ bcasts[r] # 3
    BY <1>1, StartNumbers DEF StageInv, RankStage, RootStage, Ready
  <2>2. CASE Size > 2
    BY <1>0, <1>1, <1>3, <1>5, <2>1, <2>2, StartNumbers DEF StageInv, RankStage, RootStage, Ready
  <2>3. CASE ~(Size > 2)
    <3>1. r = 1 /\ Size = 2
      BY <2>3, StartNumbers
    <3>2. QED
      BY <1>0, <1>1, <1>3, <1>5, <2>1, <2>3, <3>1, StartNumbers DEF StageInv, RankStage, RootStage, Ready
  <2>4. QED
    BY <2>2, <2>3
<1>7. ~In(0, BarrierConn(r)) /\ t \notin {"connect", "barrier"}
  BY <1>0, <1>1 DEF RootJoined
<1>8. OnceInv'
  BY <1>1, <1>2, <1>7, OpenedOnce
<1>9. \A d : In(0, d)' <=> In(0, d) \/ d = BarrierConn(r)
  BY <1>1, <1>2, OpenedIn
<1>10. RootBacklog'
  <2>1. PICK n : n = Len(backlog[0])
    OBVIOUS
  <2>2. /\ n \in Nat /\ Len(backlog'[0]) = n + 1 /\ backlog'[0][n + 1] = BarrierConn(r)
        /\ \A l \in 1 .. n : backlog'[0][l] = backlog[0][l]
    BY <1>1, <1>2, <2>1, OpenedIn
  <2>3. \A l \in 1 .. n + 1 : l \in 1 .. n \/ l = n + 1
    BY <2>2
  <2>4. \A s \in Others : DataConn(s) # BarrierConn(r)
    BY ConnFacts DEF DataConn, BarrierConn
  <2>6. \A k \in 1 .. n + 1 : \E s \in Others : backlog'[0][k] \in {DataConn(s), BarrierConn(s)}
    BY <2>1, <2>2, <2>3 DEF RootBacklog
  <2>7. ASSUME NEW s \in Others, NEW j \in 1 .. n + 1, NEW k \in 1 .. n + 1,
               backlog'[0][j] = BarrierConn(s), backlog'[0][k] = DataConn(s)
        PROVE  k < j
    <3>1. k \in 1 .. n
      BY <2>2, <2>3, <2>4, <2>7
    <3>2. CASE j = n + 1
      BY <2>2, <3>1, <3>2
    <3>3. CASE j \in 1 .. n
      BY <2>1, <2>2, <2>7, <3>1, <3>3 DEF RootBacklog
    <3>4. QED
      BY <2>3, <3>2, <3>3
  <2>8. QED
    BY <2>2, <2>6, <2>7 DEF RootBacklog
<1>11. RootJoined'
  <2> SUFFICES ASSUME NEW s \in Others
               PROVE  (/\ In(0, DataConn(s)) => stage[s] # "connect"
                       /\ In(0, BarrierConn(s)) => stage[s] \notin {"connect", "barrier"}
                       /\ fd[s][0] = IF stage[s] = "connect" THEN None ELSE DataConn(s)
                       /\ barrierFd[s][0] = IF stage[s] \in {"connect", "barrier"} THEN None ELSE BarrierConn(s)
                       /\ fd[0][s] = IF stage[s] = "connect" \/ In(0, DataConn(s)) THEN None ELSE DataConn(s)
                       /\ barrierFd[0][s] = IF stage[s] \in {"connect", "barrier"} \/ In(0, BarrierConn(s)) THEN None
                                            ELSE BarrierConn(s)
                       /\ ports[0][s] = IF fd[0][s] = None THEN -1 ELSE s)'
    BY DEF RootJoined
  <2>1. s \in Members /\ s # 0 /\ barrierFd'[0][s] = barrierFd[0][s]
    BY <1>1, <1>3, StartNumbers
  <2>2. (BarrierConn(s) = BarrierConn(r) => s = r) /\ DataConn(s) # BarrierConn(r)
    BY ConnFacts DEF DataConn, BarrierConn
  <2>3. CASE s = r
    BY <1>1, <1>3, <1>7, <1>9, <2>1, <2>2, <2>3 DEF RootJoined
  <2>4. CASE s # r
    BY <1>1, <1>3, <1>9, <2>1, <2>2, <2>4 DEF RootJoined
  <2>5. QED
    BY <2>3, <2>4
<1>12. RootCount'
  <2>1. \A s \in Others : barrierFd'[0][s] = barrierFd[0][s]
    BY <1>1, <1>3, StartNumbers
  <2>2. {s \in Others : barrierFd'[0][s] # None} = {s \in Others : barrierFd[0][s] # None}
    BY <2>1
  <2>3. QED
    BY <1>1, <2>2 DEF RootCount
<1>13. PeersInv' /\ PeersCount'
  <2>1. \A s \in Others : backlog'[s] = backlog[s]
    BY <1>1, OpenedIn, StartNumbers
  <2>2. QED
    BY <1>1, <2>1, PeersKept
<1>14. QED
  BY <1>4, <1>5, <1>6, <1>8, <1>10, <1>11, <1>12, <1>13

-----------------------------------------------------------------------------
(* The lines from rank 0, and the connections between the others           *)

\* A rank reads the next thing rank 0 has said to it.
LEMMA ReadNext ==
  ASSUME StartTypes, DataInv, NEW r \in Others, data[r] # <<>>,
         data' = [data EXCEPT ![r] = Tail(@)], peer'[0] = peer[0], bcasts'[0] = bcasts[0],
         Done(r) \in Nat, Done(r)' = Done(r) + 1,
         \A x \in Others : x # r => Done(x)' = Done(x)
  PROVE  /\ data' \in [Members -> Seq(Lines)] /\ DataInv'
         /\ Head(data[r]) = Msg(r, Done(r) + 1) /\ Head(data[r]) \in Lines
<1>1. r \in Members /\ data[r] \in Seq(Lines)
  BY StartNumbers
<1>2. PICK q : q = data[r]
  OBVIOUS
<1>3. PICK n : n = Len(q)
  OBVIOUS
<1>4. /\ n \in Nat \ {0} /\ Tail(q) \in Seq(Lines) /\ Len(Tail(q)) = n - 1 /\ Head(q) = q[1]
      /\ \A k \in 1 .. n - 1 : Tail(q)[k] = q[k + 1]
      /\ Head(q) \in Lines
  BY <1>1, <1>2, <1>3
<1>5. data'[r] = Tail(q) /\ \A x \in Members : x # r => data'[x] = data[x]
  BY <1>1, <1>2 DEF StartTypes
<1>6. data' \in [Members -> Seq(Lines)]
  BY <1>2, <1>4 DEF StartTypes
<1>7. n = Said(r) - Done(r) /\ \A k \in 1 .. n : q[k] = Msg(r, Done(r) + k)
  BY <1>2, <1>3 DEF DataInv
<1>8. PICK d \in Nat : d = Done(r)
  OBVIOUS
<1>9. Head(q) = Msg(r, d + 1)
  BY <1>4, <1>7, <1>8
<1>10. \A x \in Others : Said(x)' = Said(x)
  BY DEF Said, LinesTold
<1>11. \A x : \A j : Msg(x, j)' = Msg(x, j)
  BY DEF Msg, Line
<1>12. ASSUME NEW x \in Others
       PROVE  (/\ Len(data[x]) = Said(x) - Done(x)
               /\ \A k \in 1 .. Len(data[x]) : data[x][k] = Msg(x, Done(x) + k))'
  <2>1. CASE x = r
    <3>1. PICK w : w = Said(r)
      OBVIOUS
    <3>2. n = w - d
      BY <1>7, <1>8, <3>1
    <3>3. w \in Int
      BY StartNumbers, <3>1 DEF Said, LinesTold
    <3>4. n - 1 = w - (d + 1)
      BY <1>4, <3>2, <3>3
    <3>5. ASSUME NEW k \in 1 .. n - 1
          PROVE  Tail(q)[k] = Msg(r, (d + 1) + k)
      <4>1. k + 1 \in 1 .. n /\ d + (k + 1) = (d + 1) + k
        BY <1>4
      <4>2. QED
        BY <1>4, <1>7, <1>8, <4>1
    <3>6. QED
      BY <2>1, <1>4, <1>5, <1>8, <1>10, <1>11, <3>1, <3>4, <3>5
  <2>2. CASE x # r
    BY <2>2, <1>5, <1>10, <1>11, StartNumbers DEF DataInv
  <2>3. QED
    BY <2>1, <2>2
<1>13. DataInv'
  BY <1>12 DEF DataInv
<1>14. QED
  BY <1>2, <1>4, <1>6, <1>8, <1>9, <1>13

\* A rank reads the port of another.
LEMMA ReadPortKeeps ==
  ASSUME StartInv, NEW r \in Others, ReadPort(r)
  PROVE  StartInv'
<1> USE DEF StartInv
<1>0. PICK t : t = IF Known(r) + 1 < Size - 2 THEN "ports" ELSE IF r >= 2 THEN "accept" ELSE "peers"
  OBVIOUS
<1>1. /\ r \in Members /\ 0 \in Members /\ r # 0 /\ stage[r] = "ports" /\ data[r] # <<>>
      /\ ports' = [ports EXCEPT ![r][Head(data[r]).rank] = Head(data[r]).port]
      /\ data' = [data EXCEPT ![r] = Tail(@)] /\ stage' = [stage EXCEPT ![r] = t]
      /\ UNCHANGED <<backlog, fd, barrierFd, accepted, peer, bcasts, heard>>
  BY <1>0, StartNumbers DEF ReadPort
<1>2. PICK n \in Nat : n = Known(r)
  BY StartNumbers
<1>3. n < Size - 2 /\ bcasts[r] = 0 /\ peer[r] = r + 1 /\ accepted[r] = 0
  <2>1. RankStage(r) /\ bcasts[r] \in Int /\ 0 <= bcasts[r]
    BY <1>1, StartNumbers DEF StageInv
  <2>2. ~(bcasts[r] > 0)
    BY <2>1, <1>1 DEF RankStage, Ready
  <2>3. n < Size - 2 /\ peer[r] = r + 1 /\ accepted[r] = 0
    BY <2>1, <1>1, <1>2 DEF RankStage
  <2>4. QED
    BY <2>1, <2>2, <2>3
<1>4. PICK l : l = Line(r, n + 1)
  OBVIOUS
<1>5. l \in Others /\ l # r /\ l \in Members /\ l \in -1 .. Size - 1
  BY <1>3, <1>4, StartNumbers DEF Line
<1>6. Done(r) = n /\ n <= Len(data[r]) + n
  BY <1>2, <1>3, StartNumbers DEF Done
<1>7. data[r][1] = Msg(r, n + 1) /\ Head(data[r]) = data[r][1]
  <2>1. PICK q : q = data[r]
    OBVIOUS
  <2>2. 1 \in 1 .. Len(q) /\ Head(q) = q[1]
    BY <1>1, <2>1, StartNumbers
  <2>3. QED
    BY <2>1, <2>2, <1>6 DEF DataInv
<1>8. Head(data[r]) = PortLine(l, l)
  <2>1. n + 1 <= Size - 2
    BY <1>3, StartNumbers
  <2>2. QED
    BY <1>4, <1>7, <2>1 DEF Msg
<1>9. ports' = [ports EXCEPT ![r][l] = l]
  <2>1. Head(data[r]).rank = l /\ Head(data[r]).port = l
    BY <1>8 DEF PortLine
  <2>2. QED
    BY <1>1, <2>1
<1>10. \A x, y \in Members : ports'[x][y] = IF x = r /\ y = l THEN l ELSE ports[x][y]
  <2>1. ports \in [Members -> [Members -> -1 .. Size - 1]]
    BY DEF StartTypes
  <2>2. PICK V : V = -1 .. Size - 1
    OBVIOUS
  <2>3. r \in Members /\ l \in Members
    BY <1>1, <1>5
  <2>4. QED
    BY <1>9, <2>1, <2>2, <2>3
<1>11. Known(r)' = n + 1
  <2>1. \A s \in Others : s \in Members
    BY StartNumbers
  <2>2. ports[r][l] = -1
    <3>1. ~(l < l)
      BY <1>5, StartNumbers
    <3>2. QED
      BY <1>2, <1>4, <1>5, <3>1 DEF PortsInv
  <2>3. {s \in Others : ports'[r][s] # -1} = {s \in Others : ports[r][s] # -1} \cup {l}
    <3>1. ASSUME NEW s \in Others
          PROVE  ports'[r][s] # -1 <=> ports[r][s] # -1 \/ s = l
      <4>1. ports'[r][s] = IF s = l THEN l ELSE ports[r][s]
        BY <1>1, <1>10, <2>1
      <4>2. l # -1
        BY <1>5, StartNumbers
      <4>3. QED
        BY <4>1, <4>2
    <3>2. QED
      BY <1>5, <3>1
  <2>4. l \notin {s \in Others : ports[r][s] # -1} /\ IsFiniteSet({s \in Others : ports[r][s] # -1})
    BY <2>2, RanksFinite
  <2>5. QED
    BY <2>3, <2>4, <1>2, OneMore DEF Known
<1>12. \A x \in Others : x # r => Known(x)' = Known(x)
  BY <1>10, KnownSame, StartNumbers
<1>13. DataInv' /\ data' \in [Members -> Seq(Lines)]
  <2>1. Done(r)' = n + 1 /\ \A x \in Others : x # r => Done(x)' = Done(x)
    BY <1>1, <1>3, <1>11, <1>12 DEF Done
  <2>2. QED
    BY <1>1, <1>6, <2>1, ReadNext
<1>14. PortsInv'
  <2>1. ASSUME NEW x \in Others, NEW s \in Others
        PROVE  /\ Known(x)' \in 0 .. Size - 2
               /\ ports'[x][s] = IF s # x /\ s < Line(x, Known(x)' + 1) THEN s ELSE -1
    <3>1. CASE x # r
      <4>1. x \in Members /\ s \in Members /\ Known(x)' = Known(x)
        BY <1>12, <3>1, StartNumbers
      <4>2. ports'[x][s] = ports[x][s]
        BY <1>10, <3>1, <4>1
      <4>3. QED
        BY <4>1, <4>2 DEF PortsInv
    <3>2. CASE x = r
      <4>1. n + 1 \in 0 .. Size - 2
        BY <1>3, StartNumbers
      <4>2. (s # r /\ s < Line(r, (n + 1) + 1)) <=> (s # r /\ s < l) \/ s = l
        BY <1>3, <1>4, <1>5, StartNumbers DEF Line
      <4>3. ports[r][s] = IF s # r /\ s < l THEN s ELSE -1
        BY <1>2, <1>4 DEF PortsInv
      <4>4. ports'[r][s] = IF s = l THEN l ELSE ports[r][s]
        BY <1>1, <1>10, StartNumbers
      <4>5. QED
        BY <3>2, <1>11, <4>1, <4>2, <4>3, <4>4
    <3>3. QED
      BY <3>1, <3>2
  <2>2. Line(0, 0)' = Line(0, 0) /\ \A x, j : Line(x, j)' = Line(x, j)
    BY DEF Line
  <2>3. QED
    BY <2>1, <2>2 DEF PortsInv
<1>15. HeardInv'
  BY <1>1 DEF HeardInv
<1>16. StartTypes'
  <2>1. ports \in [Members -> [Members -> -1 .. Size - 1]]
    BY DEF StartTypes
  <2>2. PICK V : V = -1 .. Size - 1
    OBVIOUS
  <2>3. r \in Members /\ l \in Members /\ l \in V
    BY <1>1, <1>5, <2>2
  <2>4. ports' \in [Members -> [Members -> -1 .. Size - 1]]
    BY <1>9, <2>1, <2>2, <2>3
  <2>5. stage' \in [Members -> Stages]
    BY <1>0, <1>1 DEF StartTypes, Stages
  <2>6. QED
    BY <1>1, <1>13, <2>4, <2>5 DEF StartTypes
<1>17. \A x \in Members : stage'[x] = IF x = r THEN t ELSE stage[x]
  BY <1>1 DEF StartTypes
<1>18. StageInv'
  <2>1. /\ stage'[r] = t /\ Known(r)' = n + 1 /\ bcasts'[r] = 0 /\ peer'[r] = r + 1 /\ accepted'[r] = 0
        /\ r \in Int /\ 1 <= r /\ r < Size /\ Size \in Nat
    BY <1>1, <1>3, <1>11, <1>17, StartNumbers
  <2>2. RankStage(r)'
    <3>1. CASE n + 1 < Size - 2
      BY <1>0, <1>2, <1>3, <2>1, <3>1 DEF RankStage, Ready
    <3>2. CASE ~(n + 1 < Size - 2) /\ r >= 2
      <4>1. n + 1 = Size - 2 /\ t = "accept" /\ 0 < r - 1
        BY <1>0, <1>2, <1>3, <2>1, <3>2
      <4>2. QED
        BY <2>1, <4>1 DEF RankStage, Ready
    <3>3. CASE ~(n + 1 < Size - 2) /\ ~(r >= 2)
      <4>1. n + 1 = Size - 2 /\ t = "peers" /\ r = 1 /\ 2 < Size
        BY <1>0, <1>2, <1>3, <2>1, <3>3
      <4>2. QED
        BY <2>1, <4>1 DEF RankStage, Ready
    <3>4. QED
      BY <3>1, <3>2, <3>3
  <2>3. QED
    BY <1>1, <1>12, <1>17, <2>2, RankMoves, StartNumbers
<1>19. OnceInv'
  BY <1>1 DEF OnceInv
<1>20. RootBacklog' /\ RootJoined' /\ RootCount'
  <2>1. \A s \in Others : ports'[0][s] = ports[0][s]
    BY <1>1, <1>10, StartNumbers
  <2>2. \A s \in Others : (stage'[s] = "connect" <=> stage[s] = "connect")
                          /\ (stage'[s] = "barrier" <=> stage[s] = "barrier")
    BY <1>0, <1>1, <1>17, StartNumbers
  <2>3. QED
    BY <1>1, <2>1, <2>2, RootKept
<1>21. PeersInv' /\ PeersCount'
  BY <1>1, PeersKept
<1>22. QED
  BY <1>13, <1>14, <1>15, <1>16, <1>18, <1>19, <1>20, <1>21

\* A rank reads a broadcast.
LEMMA HearBcastKeeps ==
  ASSUME StartInv, NEW r \in Others, HearBcast(r)
  PROVE  StartInv'
<1> USE DEF StartInv
<1>0. PICK t : t = IF bcasts[r] + 1 < Len(Bcasts) THEN "bcast" ELSE "run"
  OBVIOUS
<1>1. /\ r \in Members /\ 0 \in Members /\ r # 0 /\ stage[r] = "bcast" /\ data[r] # <<>>
      /\ data' = [data EXCEPT ![r] = Tail(@)] /\ stage' = [stage EXCEPT ![r] = t]
      /\ heard' = [heard EXCEPT ![r] = Append(@, Head(data[r]).what)]
      /\ bcasts' = [bcasts EXCEPT ![r] = @ + 1]
      /\ UNCHANGED <<backlog, fd, barrierFd, ports, accepted, peer>>
  BY <1>0, StartNumbers DEF HearBcast
<1>2. PICK b \in Nat : b = bcasts[r]
  BY <1>1, StartNumbers
<1>3. Known(r) = Size - 2 /\ b \in 0 .. 2 /\ peer[r] = Size /\ (r > 1 => accepted[r] = r - 1)
  <2>1. RankStage(r) /\ b <= 3
    BY <1>1, <1>2, StartNumbers DEF StageInv
  <2>2. b # 3
    BY <2>1, <1>1, <1>2 DEF RankStage
  <2>3. Known(r) = Size - 2 /\ peer[r] = Size /\ (r > 1 => accepted[r] = r - 1)
    BY <2>1, <1>1 DEF RankStage, Ready
  <2>4. QED
    BY <2>1, <2>2, <2>3
<1>4. Len(Bcasts) = 3 /\ \A k \in 1 .. 3 : Bcasts[k] \in {"header", "endianness", "layout"}
  BY DEF Bcasts
<1>5. \A x \in Others : Known(x)' = Known(x)
  BY <1>1, KnownSame
<1>6. \A x \in Members : /\ bcasts'[x] = IF x = r THEN b + 1 ELSE bcasts[x]
                         /\ stage'[x] = IF x = r THEN t ELSE stage[x]
  BY <1>1, <1>2 DEF StartTypes
<1>7. Done(r) \in Nat /\ Done(r) = Size - 2 + b /\ Done(r)' = Done(r) + 1
      /\ \A x \in Others : x # r => Done(x)' = Done(x)
  <2>1. PICK z \in Nat : z = Size - 2
    BY <1>3, StartNumbers
  <2>2. Done(r) = z + b /\ Done(r)' = z + (b + 1)
    BY <1>1, <1>2, <1>3, <1>5, <1>6, <2>1 DEF Done
  <2>3. \A x \in Others : x # r => Done(x)' = Done(x)
    BY <1>5, <1>6, StartNumbers DEF Done
  <2>4. QED
    BY <2>1, <2>2, <2>3
<1>8. DataInv' /\ data' \in [Members -> Seq(Lines)] /\ Head(data[r]) = Msg(r, (Size - 2 + b) + 1)
  BY <1>1, <1>6, <1>7, ReadNext, StartNumbers
<1>9. Head(data[r]).what = Bcasts[b + 1]
  <2>1. PICK m : m = (Size - 2 + b) + 1
    OBVIOUS
  <2>2. ~(m <= Size - 2) /\ m - (Size - 2) = b + 1
    BY <1>2, <2>1, StartNumbers
  <2>3. Msg(r, m) = BcastOf(Bcasts[b + 1])
    BY <2>2 DEF Msg
  <2>4. QED
    BY <1>8, <2>1, <2>3 DEF BcastOf
<1>10. PortsInv'
  BY <1>1, <1>5 DEF PortsInv, Line
<1>11. HeardInv' /\ heard' \in [Members -> Seq({"header", "endianness", "layout"})]
  <2>1. PICK h : h = heard[r]
    OBVIOUS
  <2>2. PICK e : e = Bcasts[b + 1]
    OBVIOUS
  <2>3. /\ h \in Seq({"header", "endianness", "layout"}) /\ e \in {"header", "endianness", "layout"}
        /\ Len(h) = b /\ \A k \in 1 .. b : h[k] = Bcasts[k]
    <3>1. h \in Seq({"header", "endianness", "layout"})
      BY <1>1, <2>1 DEF StartTypes
    <3>2. b + 1 \in 1 .. 3
      BY <1>3
    <3>3. e \in {"header", "endianness", "layout"}
      BY <1>4, <2>2, <3>2
    <3>4. Len(h) = b /\ \A k \in 1 .. Len(h) : h[k] = Bcasts[k]
      BY <1>2, <2>1 DEF HeardInv
    <3>5. QED
      BY <3>1, <3>3, <3>4
  <2>4. /\ Append(h, e) \in Seq({"header", "endianness", "layout"}) /\ Len(Append(h, e)) = b + 1
        /\ \A k \in 1 .. b + 1 : Append(h, e)[k] = Bcasts[k]
    BY <2>2, <2>3
  <2>5. heard'[r] = Append(h, e) /\ \A x \in Members : x # r => heard'[x] = heard[x]
    BY <1>1, <1>9, <2>1, <2>2 DEF StartTypes
  <2>6. heard' \in [Members -> Seq({"header", "endianness", "layout"})]
    BY <1>1, <1>9, <2>1, <2>2, <2>4 DEF StartTypes
  <2>7. ASSUME NEW x \in Others
        PROVE  Len(heard'[x]) = bcasts'[x] /\ \A k \in 1 .. Len(heard'[x]) : heard'[x][k] = Bcasts[k]
    <3>1. CASE x = r
      <4>1. heard'[x] = Append(h, e) /\ bcasts'[x] = b + 1
        BY <3>1, <1>1, <1>6, <2>5
      <4>2. QED
        BY <4>1, <2>4
    <3>2. CASE x # r
      BY <3>2, <1>6, <2>5, StartNumbers DEF HeardInv
    <3>3. QED
      BY <3>1, <3>2
  <2>8. QED
    BY <2>6, <2>7 DEF HeardInv
<1>12. StartTypes'
  <2>1. stage' \in [Members -> Stages]
    BY <1>0, <1>1 DEF StartTypes, Stages
  <2>2. b + 1 \in 0 .. 3
    BY <1>3
  <2>3. bcasts' \in [Members -> 0 .. 3]
    BY <1>1, <1>2, <2>2 DEF StartTypes
  <2>4. QED
    BY <1>1, <1>8, <1>11, <2>1, <2>3 DEF StartTypes
<1>13. StageInv'
  <2>1. (b + 1 = 3 <=> t = "run") /\ t \in {"bcast", "run"}
    BY <1>0, <1>2, <1>3, <1>4
  <2>2. /\ stage'[r] = t /\ Known(r)' = Size - 2 /\ bcasts'[r] = b + 1 /\ peer'[r] = Size
        /\ (r > 1 => accepted'[r] = r - 1) /\ r < Size
    BY <1>1, <1>3, <1>5, <1>6, StartNumbers
  <2>3. RankStage(r)'
    BY <2>1, <2>2 DEF RankStage, Ready
  <2>4. QED
    BY <1>1, <1>5, <1>6, <2>3, RankMoves, StartNumbers
<1>14. OnceInv'
  BY <1>1 DEF OnceInv
<1>15. RootBacklog' /\ RootJoined' /\ RootCount'
  <2>1. \A s \in Others : (stage'[s] = "connect" <=> stage[s] = "connect")
                          /\ (stage'[s] = "barrier" <=> stage[s] = "barrier")
    BY <1>0, <1>1, <1>6, StartNumbers
  <2>2. QED
    BY <1>1, <2>1, RootKept
<1>16. PeersInv' /\ PeersCount'
  BY <1>1, PeersKept
<1>17. QED
  BY <1>8, <1>10, <1>11, <1>12, <1>13, <1>14, <1>15, <1>16

\* A rank accepts the connection of a lower one.
LEMMA AcceptPeerKeeps ==
  ASSUME StartInv, NEW r \in Others, AcceptPeer(r)
  PROVE  StartInv'
<1> USE DEF StartInv
<1>0. PICK t : t = IF accepted[r] + 1 < r - 1 THEN "accept" ELSE IF r < Size - 1 THEN "peers" ELSE "bcast"
  OBVIOUS
<1>1. /\ r \in Members /\ 0 \in Members /\ r # 0 /\ stage[r] = "accept" /\ backlog[r] # <<>>
      /\ backlog' = [backlog EXCEPT ![r] = Tail(@)]
      /\ fd' = [fd EXCEPT ![r][Head(backlog[r]).client] = Head(backlog[r])]
      /\ accepted' = [accepted EXCEPT ![r] = @ + 1] /\ stage' = [stage EXCEPT ![r] = t]
      /\ UNCHANGED <<barrierFd, ports, peer, data, bcasts, heard>>
  BY <1>0, StartNumbers DEF AcceptPeer
<1>2. PICK c : c = Head(backlog[r])
  OBVIOUS
<1>7. /\ backlog' \in [Members -> Seq(Conns)] /\ \A x \in Members : Len(backlog'[x]) <= Backlog
      /\ \A x \in Members : x # r => backlog'[x] = backlog[x]
      /\ Len(backlog[r]) \in Nat \ {0} /\ Len(backlog'[r]) = Len(backlog[r]) - 1
      /\ \A j \in 1 .. Len(backlog'[r]) : backlog'[r][j] = backlog[r][j + 1]
      /\ c = backlog[r][1] /\ c \in Conns /\ In(r, c)
      /\ \A x \in Members : \A d : In(x, d)' <=> In(x, d) /\ ~(x = r /\ d = c)
      /\ OnceInv'
  <2>1. /\ backlog' \in [Members -> Seq(Conns)] /\ \A x \in Members : Len(backlog'[x]) <= Backlog
        /\ \A x \in Members : x # r => backlog'[x] = backlog[x]
        /\ Len(backlog[r]) \in Nat \ {0} /\ Len(backlog'[r]) = Len(backlog[r]) - 1
        /\ \A j \in 1 .. Len(backlog'[r]) : backlog'[r][j] = backlog[r][j + 1]
        /\ Head(backlog[r]) = backlog[r][1] /\ Head(backlog[r]) \in Conns /\ In(r, Head(backlog[r]))
        /\ \A x \in Members : \A d : In(x, d)' <=> In(x, d) /\ ~(x = r /\ d = Head(backlog[r]))
        /\ OnceInv'
    BY <1>1, AcceptedOut
  <2>2. QED
    BY <1>2, <2>1
<1>3. PICK q : q \in 1 .. r - 1 /\ c = Conn(q, r, "data")
  <2>1. 1 \in 1 .. Len(backlog[r])
    BY <1>7
  <2>2. QED
    BY <1>7, <2>1 DEF PeersInv
<1>4. q \in Others /\ q \in Members /\ q # 0 /\ q < r
  BY <1>1, <1>3, StartNumbers
<1>5. c # None /\ fd' = [fd EXCEPT ![r][q] = c]
  <2>1. c.client = q
    BY <1>3, ConnFacts
  <2>2. c # None
    BY <1>1, <1>3, <1>4, ConnFacts
  <2>3. QED
    BY <1>1, <1>2, <2>1, <2>2
<1>6. \A x, y \in Members : fd'[x][y] = IF x = r /\ y = q THEN c ELSE fd[x][y]
  <2>1. q \in Members /\ r \in Members
    BY <1>1, <1>4
  <2>2. QED
    BY <1>5, <2>1 DEF StartTypes
<1>8. DataInv' /\ PortsInv' /\ HeardInv' /\ \A x \in Others : Known(x)' = Known(x)
  BY <1>1, WordsKept
<1>9. \A x \in Members : /\ stage'[x] = IF x = r THEN t ELSE stage[x]
                         /\ accepted'[x] = IF x = r THEN accepted[r] + 1 ELSE accepted[x]
  BY <1>1 DEF StartTypes
<1>10. StartTypes'
  <2>1. fd' \in [Members -> [Members -> Conns \cup {None, Failed}]]
    <3>1. q \in Members /\ r \in Members /\ c \in Conns
      BY <1>1, <1>4, <1>7
    <3>2. QED
      BY <1>5, <3>1 DEF StartTypes
  <2>2. stage' \in [Members -> Stages]
    BY <1>0, <1>1 DEF StartTypes, Stages
  <2>3. accepted' \in [Members -> Nat]
    <3>1. accepted \in [Members -> Nat]
      BY DEF StartTypes
    <3>2. PICK a \in Nat : a = accepted[r]
      BY <1>1, <3>1
    <3>3. accepted' = [accepted EXCEPT ![r] = a + 1]
      BY <1>1, <3>2
    <3>4. a + 1 \in Nat
      OBVIOUS
    <3>5. QED
      BY <3>1, <3>3, <3>4
  <2>4. QED
    BY <1>1, <1>7, <2>1, <2>2, <2>3 DEF StartTypes
<1>11. StageInv'
  <2>1. PICK a \in Nat : a = accepted[r]
    BY <1>1, StartNumbers
  <2>2. /\ RankStage(r) /\ r \in Int /\ 1 <= r /\ r < Size /\ Size \in Nat
    BY StartNumbers DEF StageInv
  <2>3. /\ Known(r) = Size - 2 /\ a < r - 1 /\ peer[r] = r + 1 /\ ~(bcasts[r] > 0)
        /\ bcasts[r] # 3
    BY <1>1, <2>1, <2>2 DEF RankStage, Ready
  <2>4. /\ stage'[r] = t /\ Known(r)' = Size - 2 /\ accepted'[r] = a + 1 /\ peer'[r] = r + 1
        /\ ~(bcasts'[r] > 0) /\ bcasts'[r] # 3
    BY <1>1, <1>8, <1>9, <2>1, <2>3
  <2>5. RankStage(r)'
    <3>1. CASE a + 1 < r - 1
      <4>1. t = "accept"
        BY <1>0, <2>1, <3>1
      <4>2. QED
        BY <2>2, <2>4, <3>1, <4>1 DEF RankStage, Ready
    <3>2. CASE ~(a + 1 < r - 1) /\ r < Size - 1
      <4>1. t = "peers" /\ a + 1 = r - 1
        BY <1>0, <2>1, <2>2, <2>3, <3>2
      <4>2. QED
        BY <2>2, <2>4, <3>2, <4>1 DEF RankStage, Ready
    <3>3. CASE ~(a + 1 < r - 1) /\ ~(r < Size - 1)
      <4>1. t = "bcast" /\ a + 1 = r - 1 /\ r + 1 = Size
        BY <1>0, <2>1, <2>2, <2>3, <3>3
      <4>2. QED
        BY <2>2, <2>4, <3>3, <4>1 DEF RankStage, Ready
    <3>4. QED
      BY <3>1, <3>2, <3>3
  <2>6. QED
    BY <1>1, <1>8, <1>9, <2>5, RankMoves, StartNumbers
<1>12. RootBacklog' /\ RootJoined' /\ RootCount'
  <2>1. \A s \in Others : (stage'[s] = "connect" <=> stage[s] = "connect")
                          /\ (stage'[s] = "barrier" <=> stage[s] = "barrier")
    BY <1>0, <1>1, <1>9, StartNumbers
  <2>2. \A s \in Others : fd'[s][0] = fd[s][0] /\ fd'[0][s] = fd[0][s]
    BY <1>1, <1>4, <1>6, StartNumbers
  <2>3. backlog'[0] = backlog[0] /\ accepted'[0] = accepted[0]
    BY <1>1, <1>7, <1>9
  <2>4. QED
    BY <1>1, <2>1, <2>2, <2>3, RootKept
<1>13. PeersInv'
  <2>1. ASSUME NEW s \in Others
        PROVE  \A k \in 1 .. Len(backlog'[s]) : \E x \in 1 .. s - 1 : backlog'[s][k] = Conn(x, s, "data")
    <3>1. CASE s = r
      <4>1. PICK n \in Nat : n = Len(backlog[r])
        BY <1>7
      <4>2. \A k \in 1 .. n - 1 : k + 1 \in 1 .. n
        BY <4>1
      <4>3. \A k \in 1 .. n : \E x \in 1 .. r - 1 : backlog[r][k] = Conn(x, r, "data")
        BY <4>1 DEF PeersInv
      <4>4. Len(backlog'[r]) = n - 1 /\ \A k \in 1 .. n - 1 : backlog'[r][k] = backlog[r][k + 1]
        BY <1>7, <4>1
      <4>5. \A k \in 1 .. n - 1 : \E x \in 1 .. r - 1 : backlog'[r][k] = Conn(x, r, "data")
        BY <4>2, <4>3, <4>4
      <4>6. QED
        BY <3>1, <4>4, <4>5
    <3>2. CASE s # r
      <4>1. s \in Members /\ backlog'[s] = backlog[s]
        BY <1>7, <3>2, StartNumbers
      <4>2. QED
        BY <4>1 DEF PeersInv
    <3>3. QED
      BY <3>1, <3>2
  <2>2. ASSUME NEW s \in Others, NEW x \in 1 .. s - 1
        PROVE  (/\ In(s, Conn(x, s, "data")) => s < peer[x]
                /\ fd[x][s] = IF s < peer[x] THEN Conn(x, s, "data") ELSE None
                /\ fd[s][x] = IF s < peer[x] /\ ~In(s, Conn(x, s, "data")) THEN Conn(x, s, "data") ELSE None)'
    <3>1. s \in Members /\ x \in Members /\ x < s
      BY MembersFact
    <3>2. fd'[x][s] = fd[x][s]
      BY <1>4, <1>6, <3>1
    <3>3. Conn(x, s, "data") = c <=> (x = q /\ s = r)
      BY <1>3, ConnFacts
    <3>4. CASE x = q /\ s = r
      BY <1>1, <1>3, <1>4, <1>5, <1>6, <1>7, <3>1, <3>2, <3>4 DEF PeersInv
    <3>5. CASE ~(x = q /\ s = r)
      BY <1>1, <1>6, <1>7, <3>1, <3>2, <3>3, <3>5 DEF PeersInv
    <3>6. QED
      BY <3>4, <3>5
  <2>3. QED
    BY <2>1, <2>2 DEF PeersInv
<1>14. PeersCount'
  <2>1. ASSUME NEW s \in Others
        PROVE  accepted'[s] = Cardinality({x \in 1 .. s - 1 : fd'[s][x] # None})
    <3>0. \A x \in 1 .. s - 1 : x \in Members
      BY StartNumbers
    <3>1. CASE s # r
      <4>1. {x \in 1 .. s - 1 : fd'[s][x] # None} = {x \in 1 .. s - 1 : fd[s][x] # None}
        BY <1>6, <3>0, <3>1, StartNumbers
      <4>2. QED
        BY <1>9, <3>1, <4>1, StartNumbers DEF PeersCount
    <3>2. CASE s = r
      <4>1. fd[r][q] = None
        BY <1>3, <1>7 DEF PeersInv
      <4>2. {x \in 1 .. r - 1 : fd'[r][x] # None} = {x \in 1 .. r - 1 : fd[r][x] # None} \cup {q}
        BY <1>1, <1>3, <1>4, <1>5, <1>6, <3>0, <3>2
      <4>3. q \notin {x \in 1 .. r - 1 : fd[r][x] # None} /\ IsFiniteSet({x \in 1 .. r - 1 : fd[r][x] # None})
        BY <4>1, RanksFinite
      <4>4. accepted[r] = Cardinality({x \in 1 .. r - 1 : fd[r][x] # None})
        BY DEF PeersCount
      <4>5. PICK S : S = {x \in 1 .. r - 1 : fd[r][x] # None}
        OBVIOUS
      <4>6. Cardinality(S \cup {q}) = Cardinality(S) + 1
        BY <4>3, <4>5, OneMore
      <4>7. accepted'[r] = accepted[r] + 1
        BY <1>1, <1>9
      <4>8. QED
        BY <3>2, <4>2, <4>4, <4>5, <4>6, <4>7
    <3>3. QED
      BY <3>1, <3>2
  <2>2. QED
    BY <2>1 DEF PeersCount
<1>15. QED
  BY <1>7, <1>8, <1>10, <1>11, <1>12, <1>13, <1>14

\* A rank connects to a higher one, whose port it knows.
LEMMA ConnectPeerKeeps ==
  ASSUME StartInv, NEW r \in Others, ConnectPeer(r)
  PROVE  StartInv'
<1> USE DEF StartInv
<1>0. PICK t : t = IF peer[r] < Size - 1 THEN "peers" ELSE "bcast"
  OBVIOUS
<1>1. PICK p : p = peer[r]
  OBVIOUS
<1>2. /\ r \in Members /\ 0 \in Members /\ r # 0 /\ stage[r] = "peers"
      /\ peer' = [peer EXCEPT ![r] = p + 1] /\ stage' = [stage EXCEPT ![r] = t]
      /\ UNCHANGED <<barrierFd, ports, accepted, data, bcasts, heard>>
  BY <1>0, <1>1, StartNumbers DEF ConnectPeer
<1>3. /\ RankStage(r) /\ r \in Int /\ 1 <= r /\ r < Size /\ Size \in Nat
      /\ p \in Int /\ r < p /\ p < Size /\ Known(r) = Size - 2
      /\ (r > 1 => accepted[r] = r - 1) /\ ~(bcasts[r] > 0) /\ bcasts[r] # 3
  <2>1. RankStage(r) /\ r \in Int /\ 1 <= r /\ r < Size /\ Size \in Nat /\ p \in Int
    BY <1>1, <1>2, StartNumbers DEF StageInv
  <2>2. QED
    BY <1>1, <1>2, <2>1 DEF RankStage, Ready
<1>4. p \in Others /\ p \in Members /\ p # 0 /\ p # r
  BY <1>3, StartNumbers
<1>5. ports[r][p] = p /\ p # -1
  <2>1. p < Line(r, (Size - 2) + 1)
    BY <1>3 DEF Line
  <2>2. QED
    BY <1>3, <1>4, <2>1 DEF PortsInv
<1>6. PICK c : c = Conn(r, p, "data")
  OBVIOUS
<1>7. Opened(r, p, "data") /\ fd' = [fd EXCEPT ![r][p] = c]
  BY <1>1, <1>5, <1>6 DEF ConnectPeer
<1>8. c \in Conns /\ c # None
  BY <1>2, <1>4, <1>6, ConnFacts
<1>9. \A x, y \in Members : fd'[x][y] = IF x = r /\ y = p THEN c ELSE fd[x][y]
  BY <1>2, <1>4, <1>7 DEF StartTypes
<1>10. ~In(p, c) /\ r \in 1 .. p - 1
  <2>1. r \in 1 .. p - 1
    BY <1>3
  <2>2. In(p, c) => p < peer[r]
    BY <1>4, <1>6, <2>1 DEF PeersInv
  <2>3. QED
    BY <1>1, <1>3, <2>1, <2>2
<1>11. /\ backlog' \in [Members -> Seq(Conns)] /\ \A x \in Members : Len(backlog'[x]) <= Backlog
       /\ \A x \in Members : x # p => backlog'[x] = backlog[x]
       /\ Len(backlog'[p]) = Len(backlog[p]) + 1 /\ Len(backlog[p]) \in Nat
       /\ \A j \in 1 .. Len(backlog[p]) : backlog'[p][j] = backlog[p][j]
       /\ backlog'[p][Len(backlog[p]) + 1] = c
       /\ \A x \in Members : \A d : In(x, d)' <=> In(x, d) \/ (x = p /\ d = c)
       /\ OnceInv'
  BY <1>2, <1>4, <1>6, <1>7, <1>10, OpenedIn, OpenedOnce
<1>12. \A x \in Members : /\ stage'[x] = IF x = r THEN t ELSE stage[x]
                          /\ peer'[x] = IF x = r THEN p + 1 ELSE peer[x]
  BY <1>2 DEF StartTypes
<1>13. DataInv' /\ PortsInv' /\ HeardInv' /\ \A x \in Others : Known(x)' = Known(x)
  BY <1>2, <1>12, WordsKept
<1>14. StartTypes'
  <2>1. fd' \in [Members -> [Members -> Conns \cup {None, Failed}]]
    BY <1>2, <1>4, <1>7, <1>8 DEF StartTypes
  <2>2. stage' \in [Members -> Stages]
    BY <1>0, <1>2 DEF StartTypes, Stages
  <2>3. p + 1 \in 1 .. Size
    BY <1>3
  <2>4. peer' \in [Members -> 1 .. Size]
    BY <1>2, <2>3 DEF StartTypes
  <2>5. QED
    BY <1>2, <1>11, <2>1, <2>2, <2>4 DEF StartTypes
<1>15. StageInv'
  <2>1. /\ stage'[r] = t /\ Known(r)' = Size - 2 /\ peer'[r] = p + 1 /\ accepted'[r] = accepted[r]
        /\ ~(bcasts'[r] > 0) /\ bcasts'[r] # 3
    BY <1>2, <1>3, <1>12, <1>13
  <2>2. RankStage(r)'
    <3>1. CASE p < Size - 1
      <4>1. t = "peers"
        BY <1>0, <1>1, <3>1
      <4>2. QED
        BY <1>3, <2>1, <3>1, <4>1 DEF RankStage, Ready
    <3>2. CASE ~(p < Size - 1)
      <4>1. t = "bcast" /\ p + 1 = Size
        BY <1>0, <1>1, <1>3, <3>2
      <4>2. QED
        BY <1>3, <2>1, <4>1 DEF RankStage, Ready
    <3>3. QED
      BY <3>1, <3>2
  <2>3. QED
    BY <1>2, <1>12, <1>13, <2>2, RankMoves, StartNumbers
<1>16. RootBacklog' /\ RootJoined' /\ RootCount'
  <2>1. \A s \in Others : (stage'[s] = "connect" <=> stage[s] = "connect")
                          /\ (stage'[s] = "barrier" <=> stage[s] = "barrier")
    BY <1>0, <1>2, <1>12, StartNumbers
  <2>2. \A s \in Others : fd'[s][0] = fd[s][0] /\ fd'[0][s] = fd[0][s]
    BY <1>2, <1>4, <1>9, StartNumbers
  <2>3. backlog'[0] = backlog[0]
    BY <1>2, <1>4, <1>11
  <2>4. QED
    BY <1>2, <2>1, <2>2, <2>3, RootKept
<1>17. PeersInv'
  <2>1. ASSUME NEW s \in Others
        PROVE  \A k \in 1 .. Len(backlog'[s]) : \E x \in 1 .. s - 1 : backlog'[s][k] = Conn(x, s, "data")
    <3>1. CASE s = p
      <4>1. PICK n \in Nat : n = Len(backlog[p])
        BY <1>11
      <4>2. \A k \in 1 .. n + 1 : k \in 1 .. n \/ k = n + 1
        BY <4>1
      <4>3. \A k \in 1 .. n : \E x \in 1 .. p - 1 : backlog[p][k] = Conn(x, p, "data")
        BY <1>4, <4>1 DEF PeersInv
      <4>4. \A k \in 1 .. n : \E x \in 1 .. p - 1 : backlog'[p][k] = Conn(x, p, "data")
        BY <1>11, <4>1, <4>3
      <4>5. Len(backlog'[p]) = n + 1 /\ backlog'[p][n + 1] = Conn(r, p, "data")
        BY <1>6, <1>11, <4>1
      <4>6. ASSUME NEW k \in 1 .. n + 1
            PROVE  \E x \in 1 .. p - 1 : backlog'[p][k] = Conn(x, p, "data")
        BY <1>10, <4>2, <4>4, <4>5
      <4>7. QED
        BY <3>1, <4>5, <4>6
    <3>2. CASE s # p
      <4>1. s \in Members /\ backlog'[s] = backlog[s]
        BY <1>11, <3>2, StartNumbers
      <4>2. QED
        BY <4>1 DEF PeersInv
    <3>3. QED
      BY <3>1, <3>2
  <2>2. ASSUME NEW s \in Others, NEW x \in 1 .. s - 1
        PROVE  (/\ In(s, Conn(x, s, "data")) => s < peer[x]
                /\ fd[x][s] = IF s < peer[x] THEN Conn(x, s, "data") ELSE None
                /\ fd[s][x] = IF s < peer[x] /\ ~In(s, Conn(x, s, "data")) THEN Conn(x, s, "data") ELSE None)'
    <3>1. s \in Members /\ x \in Members /\ x < s /\ s \in Int /\ x \in Int
      BY StartNumbers
    <3>2. fd'[s][x] = fd[s][x]
      BY <1>3, <1>9, <3>1
    <3>3. Conn(x, s, "data") = c <=> (x = r /\ s = p)
      BY <1>6, ConnFacts
    <3>4. /\ In(s, Conn(x, s, "data")) => s < peer[x]
          /\ fd[x][s] = IF s < peer[x] THEN Conn(x, s, "data") ELSE None
          /\ fd[s][x] = IF s < peer[x] /\ ~In(s, Conn(x, s, "data")) THEN Conn(x, s, "data") ELSE None
      BY DEF PeersInv
    <3>5. In(s, Conn(x, s, "data"))' <=> In(s, Conn(x, s, "data")) \/ (x = r /\ s = p)
      BY <1>6, <1>11, <3>1, <3>3
    <3>6. fd'[x][s] = IF x = r /\ s = p THEN c ELSE fd[x][s]
      BY <1>9, <3>1
    <3>7. CASE x = r /\ s = p
      <4>1. p < p + 1 /\ ~(p < p)
        BY <1>3
      <4>2. QED
        BY <1>1, <1>2, <1>6, <1>12, <3>2, <3>4, <3>5, <3>6, <3>7, <4>1
    <3>8. CASE x = r /\ s # p
      <4>1. s < p + 1 <=> s < p
        BY <1>3, <3>1, <3>8
      <4>2. QED
        BY <1>1, <1>2, <1>12, <3>2, <3>4, <3>5, <3>6, <3>8, <4>1
    <3>9. CASE x # r
      BY <1>12, <3>1, <3>2, <3>4, <3>5, <3>6, <3>9
    <3>10. QED
      BY <3>7, <3>8, <3>9
  <2>3. QED
    BY <2>1, <2>2 DEF PeersInv
<1>18. PeersCount'
  <2>1. ASSUME NEW s \in Others
        PROVE  {x \in 1 .. s - 1 : fd'[s][x] # None} = {x \in 1 .. s - 1 : fd[s][x] # None}
    <3>1. \A x \in 1 .. s - 1 : x \in Members /\ x < s /\ s \in Members
      BY StartNumbers
    <3>2. \A x \in 1 .. s - 1 : fd'[s][x] = fd[s][x]
      BY <1>3, <1>9, <3>1
    <3>3. QED
      BY <3>2
  <2>2. QED
    BY <1>2, <2>1 DEF PeersCount
<1>19. QED
  BY <1>11, <1>13, <1>14, <1>15, <1>16, <1>17, <1>18

-----------------------------------------------------------------------------
(* Rank 0                                                                  *)

\* Only rank 0 moves on.
LEMMA RootMoves ==
  ASSUME StageInv, \A x \in Others : x # 0, RootStage',
         \A x \in Others : /\ stage'[x] = stage[x] /\ accepted'[x] = accepted[x]
                           /\ peer'[x] = peer[x] /\ bcasts'[x] = bcasts[x]
                           /\ Known(x)' = Known(x)
  PROVE  StageInv'
<1>1. ASSUME NEW x \in Others
      PROVE  RankStage(x)'
  BY DEF StageInv, RankStage, Ready
<1>2. QED
  BY <1>1 DEF StageInv

\* It accepts no more than two connections of a rank.
LEMMA RootCounts ==
  ASSUME RootCount
  PROVE  /\ accepted[0] \in Nat /\ accepted[0] <= 2 * (Size - 1)
         /\ accepted[0] = 2 * (Size - 1) =>
              \A s \in Others : fd[0][s] # None /\ barrierFd[0][s] # None
<1>1. PICK S : S = {s \in Others : fd[0][s] # None}
  OBVIOUS
<1>2. PICK T : T = {s \in Others : barrierFd[0][s] # None}
  OBVIOUS
<1>3. PICK m \in Nat : m = Cardinality(S) /\ m <= Size - 1 /\ (m = Size - 1 => S = Others)
  BY <1>1, RanksFinite
<1>4. PICK n \in Nat : n = Cardinality(T) /\ n <= Size - 1 /\ (n = Size - 1 => T = Others)
  BY <1>2, RanksFinite
<1>5. accepted[0] = m + n
  BY <1>1, <1>2, <1>3, <1>4 DEF RootCount
<1>6. m + n \in Nat /\ m + n <= 2 * (Size - 1) /\ (m + n = 2 * (Size - 1) => m = Size - 1 /\ n = Size - 1)
  BY <1>3, <1>4, MembersFact
<1>7. QED
  BY <1>1, <1>2, <1>3, <1>4, <1>5, <1>6

\* When it has accepted them all, it knows the port of everyone.
LEMMA AllAccepted ==
  ASSUME StageInv, RootJoined, RootCount, stage[0] # "accept"
  PROVE  \A s \in Others : /\ fd[0][s] = DataConn(s) /\ barrierFd[0][s] = BarrierConn(s)
                           /\ ports[0][s] = s
<1>1. \A s \in Others : fd[0][s] # None /\ barrierFd[0][s] # None
  BY RootCounts DEF StageInv, RootStage
<1>2. QED
  BY <1>1 DEF RootJoined

\* It says one thing to some ranks.
LEMMA SayMore ==
  ASSUME StartTypes, DataInv, NEW S \in SUBSET Others, NEW m \in Lines,
         data' = [s \in Members |-> IF s \in S THEN Append(data[s], m) ELSE data[s]],
         \A s \in Others : Done(s)' = Done(s) /\ Done(s) \in Int /\ Said(s) \in Int,
         \A s \in S : m = Msg(s, Said(s) + 1) /\ Said(s)' = Said(s) + 1,
         \A s \in Others : s \notin S => Said(s)' = Said(s)
  PROVE  DataInv' /\ data' \in [Members -> Seq(Lines)]
<1>1. \A x : \A j : Msg(x, j)' = Msg(x, j)
  BY DEF Msg, Line
<1>2. ASSUME NEW s \in Members
      PROVE  (IF s \in S THEN Append(data[s], m) ELSE data[s]) \in Seq(Lines)
  BY DEF StartTypes
<1>3. ASSUME NEW s \in Others
      PROVE  (/\ Len(data[s]) = Said(s) - Done(s)
              /\ \A k \in 1 .. Len(data[s]) : data[s][k] = Msg(s, Done(s) + k))'
  <2>1. s \in Members /\ data[s] \in Seq(Lines)
    BY StartNumbers
  <2>2. CASE s \in S
    <3>1. PICK q : q = data[s]
      OBVIOUS
    <3>2. PICK n : n = Len(q)
      OBVIOUS
    <3>3. PICK d \in Int : d = Done(s)
      OBVIOUS
    <3>4. PICK w \in Int : w = Said(s)
      OBVIOUS
    <3>5. n \in Nat /\ n = w - d /\ \A k \in 1 .. n : q[k] = Msg(s, d + k)
      BY <2>1, <3>1, <3>2, <3>3, <3>4 DEF DataInv
    <3>6. /\ Len(Append(q, m)) = n + 1 /\ Append(q, m)[n + 1] = m
          /\ \A k \in 1 .. n : Append(q, m)[k] = q[k]
      BY <2>1, <3>1, <3>2
    <3>7. data'[s] = Append(q, m) /\ Done(s)' = d /\ Said(s)' = w + 1 /\ m = Msg(s, w + 1)
      BY <2>1, <2>2, <3>1, <3>3, <3>4
    <3>8. n + 1 = (w + 1) - d /\ w + 1 = d + (n + 1) /\ \A k \in 1 .. n + 1 : k \in 1 .. n \/ k = n + 1
      BY <3>5
    <3>9. \A k \in 1 .. n + 1 : Append(q, m)[k] = Msg(s, d + k)
      BY <3>5, <3>6, <3>7, <3>8
    <3>10. QED
      BY <1>1, <3>6, <3>7, <3>8, <3>9
  <2>3. CASE s \notin S
    BY <1>1, <2>1, <2>3 DEF DataInv
  <2>4. QED
    BY <2>2, <2>3
<1>4. data' \in [Members -> Seq(Lines)]
  BY <1>2
<1>5. DataInv'
  BY <1>3 DEF DataInv
<1>6. QED
  BY <1>4, <1>5

\* It tells the others about a rank.
LEMMA TellAboutKeeps ==
  ASSUME StartInv, TellAbout
  PROVE  StartInv'
<1> USE DEF StartInv
<1>0. PICK t : t = IF peer[0] < Size - 1 THEN "tell" ELSE "bcast"
  OBVIOUS
<1>1. PICK p : p = peer[0]
  OBVIOUS
<1>2. /\ 0 \in Members /\ stage[0] = "tell" /\ \A x \in Others : x # 0 /\ x \in Members
      /\ peer' = [peer EXCEPT ![0] = p + 1] /\ stage' = [stage EXCEPT ![0] = t]
      /\ UNCHANGED <<backlog, fd, barrierFd, ports, accepted, bcasts, heard>>
  BY <1>0, <1>1, StartNumbers DEF TellAbout
<1>3. /\ p \in Int /\ 1 <= p /\ p < Size /\ Size \in Nat /\ p \in Others
      /\ bcasts[0] = 0 /\ accepted[0] = 2 * (Size - 1)
  <2>1. /\ RootStage /\ p \in Int /\ 1 <= p /\ Size \in Nat /\ bcasts[0] \in Int /\ 0 <= bcasts[0]
    BY <1>1, <1>2, StartNumbers DEF StageInv
  <2>2. p < Size /\ ~(bcasts[0] > 0) /\ accepted[0] = 2 * (Size - 1)
    BY <1>1, <1>2, <2>1 DEF RootStage, Ready
  <2>3. QED
    BY <2>1, <2>2, StartNumbers
<1>4. ports[0][p] = p
  BY <1>2, <1>3, AllAccepted
<1>5. PICK m : m = PortLine(p, p)
  OBVIOUS
<1>6. m \in Lines
  BY <1>2, <1>3, <1>5 DEF PortLine, Lines
<1>7. PICK S \in SUBSET Others : S = Others \ {p}
  OBVIOUS
<1>8. data' = [s \in Members |-> IF s \in S THEN Append(data[s], m) ELSE data[s]]
  BY <1>1, <1>4, <1>5, <1>7 DEF TellAbout
<1>9. \A x \in Members : /\ stage'[x] = IF x = 0 THEN t ELSE stage[x]
                         /\ peer'[x] = IF x = 0 THEN p + 1 ELSE peer[x]
  BY <1>2 DEF StartTypes
<1>10. \A x \in Others : Known(x)' = Known(x)
  BY <1>2, KnownSame
<1>11. \A s \in Others : Done(s)' = Done(s) /\ Done(s) \in Int
  BY <1>2, <1>10, StartNumbers DEF Done
<1>12. ASSUME NEW s \in Others
       PROVE  /\ Said(s) = IF p > s THEN p - 2 ELSE p - 1
              /\ Said(s)' = IF p + 1 > s THEN p - 1 ELSE p
  <2>1. (p + 1) - 2 = p - 1 /\ (p + 1) - 1 = p /\ (p - 2) + 0 = p - 2 /\ (p - 1) + 0 = p - 1 /\ p + 0 = p
    BY <1>3
  <2>2. Said(s) = IF p > s THEN p - 2 ELSE p - 1
    BY <1>1, <1>3, <2>1 DEF Said, LinesTold
  <2>3. Said(s)' = IF p + 1 > s THEN p - 1 ELSE p
    BY <1>2, <1>3, <1>9, <2>1 DEF Said, LinesTold
  <2>4. QED
    BY <2>2, <2>3
<1>13. ASSUME NEW s \in S
       PROVE  m = Msg(s, Said(s) + 1) /\ Said(s)' = Said(s) + 1
  <2>1. s \in Others /\ s # p /\ s \in Int /\ 1 <= s /\ s < Size
    BY <1>7, StartNumbers
  <2>2. CASE s < p
    <3>1. Said(s) + 1 = p - 1 /\ Said(s)' = p - 1
      BY <1>3, <1>12, <2>1, <2>2
    <3>2. p - 1 <= Size - 2 /\ ~(p - 1 < s) /\ (p - 1) + 1 = p
      BY <1>3, <2>1, <2>2
    <3>3. QED
      BY <1>5, <3>1, <3>2 DEF Msg, Line
  <2>3. CASE s > p
    <3>1. Said(s) + 1 = p /\ Said(s)' = p
      BY <1>3, <1>12, <2>1, <2>3
    <3>2. p <= Size - 2 /\ p < s
      BY <1>3, <2>1, <2>3
    <3>3. QED
      BY <1>5, <3>1, <3>2 DEF Msg, Line
  <2>4. QED
    BY <1>3, <2>1, <2>2, <2>3
<1>14. \A s \in Others : Said(s) \in Int /\ (s \notin S => Said(s)' = Said(s))
  BY <1>3, <1>7, <1>12, StartNumbers
<1>15. DataInv' /\ data' \in [Members -> Seq(Lines)]
  BY <1>6, <1>8, <1>11, <1>13, <1>14, SayMore
<1>16. PortsInv' /\ HeardInv' /\ OnceInv'
  BY <1>2, <1>10 DEF PortsInv, Line, HeardInv, OnceInv
<1>17. StartTypes'
  <2>1. stage' \in [Members -> Stages]
    BY <1>0, <1>2 DEF StartTypes, Stages
  <2>2. p + 1 \in 1 .. Size
    BY <1>3
  <2>3. peer' \in [Members -> 1 .. Size]
    BY <1>2, <2>2 DEF StartTypes
  <2>4. QED
    BY <1>2, <1>15, <2>1, <2>3 DEF StartTypes
<1>18. StageInv'
  <2>1. /\ stage'[0] = t /\ peer'[0] = p + 1 /\ accepted'[0] = 2 * (Size - 1) /\ bcasts'[0] = 0
    BY <1>2, <1>3, <1>9
  <2>2. RootStage'
    <3>1. CASE p < Size - 1
      <4>1. t = "tell" /\ p + 1 < Size
        BY <1>0, <1>1, <1>3, <3>1
      <4>2. QED
        BY <2>1, <4>1 DEF RootStage, Ready
    <3>2. CASE ~(p < Size - 1)
      <4>1. t = "bcast" /\ p + 1 = Size
        BY <1>0, <1>1, <1>3, <3>2
      <4>2. QED
        BY <2>1, <4>1 DEF RootStage, Ready
    <3>3. QED
      BY <3>1, <3>2
  <2>3. QED
    BY <1>2, <1>9, <1>10, <2>2, RootMoves
<1>19. RootBacklog' /\ RootJoined' /\ RootCount'
  BY <1>2, <1>9, RootKept
<1>20. PeersInv' /\ PeersCount'
  BY <1>2, <1>9, PeersKept
<1>21. QED
  BY <1>15, <1>16, <1>17, <1>18, <1>19, <1>20

\* It broadcasts.
LEMMA BcastKeeps ==
  ASSUME StartInv, Bcast
  PROVE  StartInv'
<1> USE DEF StartInv
<1>0. PICK t : t = IF bcasts[0] + 1 < Len(Bcasts) THEN "bcast" ELSE "run"
  OBVIOUS
<1>1. PICK b : b = bcasts[0]
  OBVIOUS
<1>2. /\ 0 \in Members /\ stage[0] = "bcast" /\ \A x \in Others : x # 0 /\ x \in Members
      /\ bcasts' = [bcasts EXCEPT ![0] = b + 1] /\ stage' = [stage EXCEPT ![0] = t]
      /\ UNCHANGED <<backlog, fd, barrierFd, ports, accepted, peer, heard>>
  BY <1>0, <1>1, StartNumbers DEF Bcast
<1>3. /\ b \in 0 .. 2 /\ b \in Int /\ Size \in Nat /\ peer[0] = Size /\ accepted[0] = 2 * (Size - 1)
  <2>1. /\ RootStage /\ b \in Int /\ 0 <= b /\ b <= 3 /\ Size \in Nat
    BY <1>1, <1>2, StartNumbers DEF StageInv
  <2>2. b # 3 /\ peer[0] = Size /\ accepted[0] = 2 * (Size - 1)
    BY <1>1, <1>2, <2>1 DEF RootStage, Ready
  <2>3. QED
    BY <2>1, <2>2
<1>4. Len(Bcasts) = 3 /\ \A k \in 1 .. 3 : Bcasts[k] \in {"header", "endianness", "layout"}
  BY DEF Bcasts
<1>5. PICK m : m = BcastOf(Bcasts[b + 1])
  OBVIOUS
<1>6. m \in Lines
  <2>1. b + 1 \in 1 .. 3
    BY <1>3
  <2>2. Bcasts[b + 1] \in {"header", "endianness", "layout"}
    BY <1>4, <2>1
  <2>3. 0 \in -1 .. Size - 1
    BY MembersFact
  <2>4. QED
    BY <1>2, <1>5, <2>2, <2>3 DEF BcastOf, Lines
<1>7. PICK S \in SUBSET Others : S = Others
  OBVIOUS
<1>8. data' = [s \in Members |-> IF s \in S THEN Append(data[s], m) ELSE data[s]]
  BY <1>1, <1>5, <1>7 DEF Bcast
<1>9. \A x \in Members : /\ stage'[x] = IF x = 0 THEN t ELSE stage[x]
                         /\ bcasts'[x] = IF x = 0 THEN b + 1 ELSE bcasts[x]
  BY <1>2 DEF StartTypes
<1>10. \A x \in Others : Known(x)' = Known(x)
  BY <1>2, KnownSame
<1>11. \A s \in Others : Done(s)' = Done(s) /\ Done(s) \in Int
  BY <1>2, <1>9, <1>10, StartNumbers DEF Done
<1>12. ASSUME NEW s \in Others
       PROVE  /\ Said(s) = (Size - 2) + b /\ Said(s)' = (Size - 2) + (b + 1)
              /\ m = Msg(s, Said(s) + 1)
  <2>1. Size > s
    BY StartNumbers
  <2>2. Said(s) = (Size - 2) + b /\ Said(s)' = (Size - 2) + (b + 1)
    BY <1>1, <1>2, <1>3, <1>9, <2>1 DEF Said, LinesTold
  <2>3. PICK w : w = Said(s) + 1
    OBVIOUS
  <2>4. ~(w <= Size - 2) /\ w - (Size - 2) = b + 1
    BY <1>3, <2>2, <2>3
  <2>5. Msg(s, w) = m
    BY <1>5, <2>4 DEF Msg
  <2>6. QED
    BY <2>2, <2>3, <2>5
<1>13. \A s \in Others : Said(s) \in Int /\ Said(s)' = Said(s) + 1
  BY <1>3, <1>12
<1>14. DataInv' /\ data' \in [Members -> Seq(Lines)]
  BY <1>6, <1>7, <1>8, <1>11, <1>12, <1>13, SayMore
<1>15. PortsInv' /\ OnceInv'
  BY <1>2, <1>10 DEF PortsInv, Line, OnceInv
<1>16. HeardInv'
  BY <1>2, <1>9 DEF HeardInv
<1>17. StartTypes'
  <2>1. stage' \in [Members -> Stages]
    BY <1>0, <1>2 DEF StartTypes, Stages
  <2>2. b + 1 \in 0 .. 3
    BY <1>3
  <2>3. bcasts' \in [Members -> 0 .. 3]
    BY <1>2, <2>2 DEF StartTypes
  <2>4. QED
    BY <1>2, <1>14, <2>1, <2>3 DEF StartTypes
<1>18. StageInv'
  <2>1. /\ stage'[0] = t /\ peer'[0] = Size /\ accepted'[0] = 2 * (Size - 1) /\ bcasts'[0] = b + 1
    BY <1>2, <1>3, <1>9
  <2>2. (b + 1 = 3 <=> t = "run") /\ t \in {"bcast", "run"}
    BY <1>0, <1>1, <1>3, <1>4
  <2>3. RootStage'
    BY <2>1, <2>2 DEF RootStage, Ready
  <2>4. QED
    BY <1>2, <1>9, <1>10, <2>3, RootMoves
<1>19. RootBacklog' /\ RootJoined' /\ RootCount'
  BY <1>2, <1>9, RootKept
<1>20. PeersInv' /\ PeersCount'
  BY <1>2, PeersKept
<1>21. QED
  BY <1>14, <1>15, <1>16, <1>17, <1>18, <1>19, <1>20

\* Rank 0 accepts a connection: the first of a rank is the one for data.
LEMMA RootAcceptsKeeps ==
  ASSUME StartInv, RootAccepts
  PROVE  StartInv'
<1> USE DEF StartInv
<1>0. PICK t : t = IF accepted[0] + 1 < 2 * (Size - 1) THEN "accept" ELSE "tell"
  OBVIOUS
<1>1. /\ 0 \in Members /\ stage[0] = "accept" /\ backlog[0] # <<>>
      /\ \A x \in Others : x # 0 /\ x \in Members
      /\ backlog' = [backlog EXCEPT ![0] = Tail(@)]
      /\ accepted' = [accepted EXCEPT ![0] = @ + 1] /\ stage' = [stage EXCEPT ![0] = t]
      /\ UNCHANGED <<peer, data, bcasts, heard>>
  BY <1>0, StartNumbers DEF RootAccepts
<1>2. PICK c : c = Head(backlog[0])
  OBVIOUS
<1>3. /\ backlog' \in [Members -> Seq(Conns)] /\ \A x \in Members : Len(backlog'[x]) <= Backlog
      /\ \A x \in Members : x # 0 => backlog'[x] = backlog[x]
      /\ Len(backlog[0]) \in Nat \ {0} /\ Len(backlog'[0]) = Len(backlog[0]) - 1
      /\ \A j \in 1 .. Len(backlog'[0]) : backlog'[0][j] = backlog[0][j + 1]
      /\ c = backlog[0][1] /\ c \in Conns /\ In(0, c)
      /\ \A x \in Members : \A d : In(x, d)' <=> In(x, d) /\ ~(x = 0 /\ d = c)
      /\ OnceInv'
  <2>1. PICK z : z = 0 /\ z \in Members
    BY <1>1
  <2>2. backlog[z] # <<>> /\ backlog' = [backlog EXCEPT ![z] = Tail(@)]
    BY <1>1, <2>1
  <2>3. /\ backlog' \in [Members -> Seq(Conns)] /\ \A x \in Members : Len(backlog'[x]) <= Backlog
        /\ \A x \in Members : x # z => backlog'[x] = backlog[x]
        /\ Len(backlog[z]) \in Nat \ {0} /\ Len(backlog'[z]) = Len(backlog[z]) - 1
        /\ \A j \in 1 .. Len(backlog'[z]) : backlog'[z][j] = backlog[z][j + 1]
        /\ Head(backlog[z]) = backlog[z][1] /\ Head(backlog[z]) \in Conns /\ In(z, Head(backlog[z]))
        /\ \A x \in Members : \A d : In(x, d)' <=> In(x, d) /\ ~(x = z /\ d = Head(backlog[z]))
        /\ OnceInv'
    BY <2>1, <2>2, AcceptedOut
  <2>4. QED
    BY <1>2, <2>1, <2>3
<1>4. PICK s \in Others : c \in {DataConn(s), BarrierConn(s)}
  <2>1. 1 \in 1 .. Len(backlog[0])
    BY <1>3
  <2>2. QED
    BY <1>3, <2>1 DEF RootBacklog
<1>5. /\ c.client = s /\ s \in Members /\ s # 0 /\ c # None
      /\ DataConn(s).kind = "data" /\ BarrierConn(s).kind = "barrier"
      /\ s \in -1 .. Size - 1 /\ s # -1
  BY <1>1, <1>4, ConnFacts, StartNumbers DEF DataConn, BarrierConn
<1>6. \A x \in Others : /\ (DataConn(x) = c <=> x = s /\ c = DataConn(s))
                        /\ (BarrierConn(x) = c <=> x = s /\ c = BarrierConn(s))
                        /\ DataConn(x) # BarrierConn(x)
  BY <1>4, ConnFacts DEF DataConn, BarrierConn
<1>7. \/ /\ c = DataConn(s) /\ fd[0][s] = None
         /\ fd' = [fd EXCEPT ![0][s] = c] /\ ports' = [ports EXCEPT ![0][s] = s]
         /\ barrierFd' = barrierFd
      \/ /\ c = BarrierConn(s) /\ barrierFd[0][s] = None
         /\ barrierFd' = [barrierFd EXCEPT ![0][s] = c]
         /\ fd' = fd /\ ports' = ports
  <2>1. CASE fd[0][s] = None
    <3>1. c.kind = "data"
      BY <1>2, <1>5, <2>1 DEF RootAccepts
    <3>2. c = DataConn(s)
      BY <1>4, <1>5, <3>1
    <3>3. QED
      BY <1>2, <1>5, <2>1, <3>2 DEF RootAccepts
  <2>2. CASE fd[0][s] # None
    <3>1. c # DataConn(s)
      BY <1>3, <2>2 DEF RootJoined
    <3>2. c = BarrierConn(s) /\ barrierFd[0][s] = None
      BY <1>3, <1>4, <3>1 DEF RootJoined
    <3>3. QED
      BY <1>2, <1>5, <2>2, <3>2 DEF RootAccepts
  <2>3. QED
    BY <2>1, <2>2
<1>8. /\ fd' \in [Members -> [Members -> Conns \cup {None, Failed}]]
      /\ barrierFd' \in [Members -> [Members -> Conns \cup {None}]]
      /\ ports' \in [Members -> [Members -> -1 .. Size - 1]]
      /\ \A x, y \in Members : x # 0 \/ y # s =>
           /\ fd'[x][y] = fd[x][y] /\ barrierFd'[x][y] = barrierFd[x][y] /\ ports'[x][y] = ports[x][y]
      /\ c = DataConn(s) => /\ fd[0][s] = None /\ fd'[0][s] = c /\ ports'[0][s] = s
                            /\ barrierFd'[0][s] = barrierFd[0][s]
      /\ c = BarrierConn(s) => /\ barrierFd[0][s] = None /\ barrierFd'[0][s] = c
                               /\ fd'[0][s] = fd[0][s] /\ ports'[0][s] = ports[0][s]
  <2>1. PICK V : V = -1 .. Size - 1
    OBVIOUS
  <2>2. /\ fd \in [Members -> [Members -> Conns \cup {None, Failed}]]
        /\ barrierFd \in [Members -> [Members -> Conns \cup {None}]]
        /\ ports \in [Members -> [Members -> V]]
    BY <2>1 DEF StartTypes
  <2>3. 0 \in Members /\ s \in Members /\ s \in V /\ c \in Conns /\ DataConn(s) # BarrierConn(s)
    BY <1>1, <1>3, <1>5, <1>6, <2>1
  <2>4. CASE /\ c = DataConn(s) /\ fd[0][s] = None
              /\ fd' = [fd EXCEPT ![0][s] = c] /\ ports' = [ports EXCEPT ![0][s] = s]
              /\ barrierFd' = barrierFd
    <3>1. fd' \in [Members -> [Members -> Conns \cup {None, Failed}]]
      BY <2>2, <2>3, <2>4
    <3>2. ports' \in [Members -> [Members -> V]]
      BY <2>2, <2>3, <2>4
    <3>3. \A x, y \in Members : fd'[x][y] = IF x = 0 /\ y = s THEN c ELSE fd[x][y]
      BY <2>2, <2>3, <2>4
    <3>4. \A x, y \in Members : ports'[x][y] = IF x = 0 /\ y = s THEN s ELSE ports[x][y]
      BY <2>2, <2>3, <2>4
    <3>5. ASSUME NEW x \in Members, NEW y \in Members, x # 0 \/ y # s
          PROVE  fd'[x][y] = fd[x][y] /\ barrierFd'[x][y] = barrierFd[x][y] /\ ports'[x][y] = ports[x][y]
      BY <2>4, <3>3, <3>4, <3>5
    <3>6. fd'[0][s] = c /\ ports'[0][s] = s /\ barrierFd'[0][s] = barrierFd[0][s]
      BY <2>3, <2>4, <3>3, <3>4
    <3>7. ports' \in [Members -> [Members -> -1 .. Size - 1]]
      BY <2>1, <3>2
    <3>8. barrierFd' \in [Members -> [Members -> Conns \cup {None}]]
      BY <2>2, <2>4
    <3>9. c # BarrierConn(s)
      BY <2>3, <2>4
    <3>10. QED
      BY <2>4, <3>1, <3>5, <3>6, <3>7, <3>8, <3>9
  <2>5. CASE /\ c = BarrierConn(s) /\ barrierFd[0][s] = None
              /\ barrierFd' = [barrierFd EXCEPT ![0][s] = c]
              /\ fd' = fd /\ ports' = ports
    <3>1. barrierFd' \in [Members -> [Members -> Conns \cup {None}]]
      BY <2>2, <2>3, <2>5
    <3>2. \A x, y \in Members : barrierFd'[x][y] = IF x = 0 /\ y = s THEN c ELSE barrierFd[x][y]
      BY <2>2, <2>3, <2>5
    <3>3. QED
      BY <2>1, <2>2, <2>3, <2>5, <3>1, <3>2
  <2>6. QED
    BY <1>7, <2>4, <2>5
<1>9. \A x \in Members : stage'[x] = IF x = 0 THEN t ELSE stage[x]
  BY <1>1 DEF StartTypes
<1>10. \A x \in Others : accepted'[x] = accepted[x]
  BY <1>1 DEF StartTypes
<1>11. accepted'[0] = accepted[0] + 1
  BY <1>1 DEF StartTypes
<1>12. StartTypes'
  <2>1. stage' \in [Members -> Stages]
    BY <1>0, <1>1 DEF StartTypes, Stages
  <2>2. accepted' \in [Members -> Nat]
    <3>1. accepted \in [Members -> Nat]
      BY DEF StartTypes
    <3>2. PICK a \in Nat : a = accepted[0]
      BY <1>1, <3>1
    <3>3. accepted' = [accepted EXCEPT ![0] = a + 1]
      BY <1>1, <3>2
    <3>4. a + 1 \in Nat
      OBVIOUS
    <3>5. QED
      BY <3>1, <3>3, <3>4
  <2>3. QED
    BY <1>1, <1>3, <1>8, <2>1, <2>2 DEF StartTypes
<1>13. DataInv' /\ PortsInv' /\ HeardInv' /\ \A x \in Others : Known(x)' = Known(x)
  BY <1>1, <1>8, WordsKept
<1>14. RootBacklog'
  <2>1. PICK n \in Nat : n = Len(backlog[0])
    BY <1>3
  <2>2. \A k \in 1 .. n - 1 : k \in Int /\ k + 1 \in 1 .. n
    BY <2>1
  <2>3. Len(backlog'[0]) = n - 1 /\ \A k \in 1 .. n - 1 : backlog'[0][k] = backlog[0][k + 1]
    BY <1>3, <2>1
  <2>4. ASSUME NEW k \in 1 .. n - 1
        PROVE  \E x \in Others : backlog'[0][k] \in {DataConn(x), BarrierConn(x)}
    BY <2>1, <2>2, <2>3 DEF RootBacklog
  <2>5. ASSUME NEW x \in Others, NEW j \in 1 .. n - 1, NEW k \in 1 .. n - 1,
               backlog'[0][j] = BarrierConn(x), backlog'[0][k] = DataConn(x)
        PROVE  k < j
    <3>1. backlog[0][j + 1] = BarrierConn(x) /\ backlog[0][k + 1] = DataConn(x)
      BY <2>3, <2>5
    <3>2. k + 1 < j + 1
      BY <2>1, <2>2, <3>1 DEF RootBacklog
    <3>3. QED
      BY <2>2, <3>2
  <2>6. QED
    BY <2>3, <2>4, <2>5 DEF RootBacklog
<1>15. RootJoined'
  <2> SUFFICES ASSUME NEW x \in Others
               PROVE  (/\ In(0, DataConn(x)) => stage[x] # "connect"
                       /\ In(0, BarrierConn(x)) => stage[x] \notin {"connect", "barrier"}
                       /\ fd[x][0] = IF stage[x] = "connect" THEN None ELSE DataConn(x)
                       /\ barrierFd[x][0] = IF stage[x] \in {"connect", "barrier"} THEN None ELSE BarrierConn(x)
                       /\ fd[0][x] = IF stage[x] = "connect" \/ In(0, DataConn(x)) THEN None ELSE DataConn(x)
                       /\ barrierFd[0][x] = IF stage[x] \in {"connect", "barrier"} \/ In(0, BarrierConn(x)) THEN None
                                            ELSE BarrierConn(x)
                       /\ ports[0][x] = IF fd[0][x] = None THEN -1 ELSE x)'
    BY DEF RootJoined
  <2>1. /\ In(0, DataConn(x)) => stage[x] # "connect"
        /\ In(0, BarrierConn(x)) => stage[x] \notin {"connect", "barrier"}
        /\ fd[x][0] = IF stage[x] = "connect" THEN None ELSE DataConn(x)
        /\ barrierFd[x][0] = IF stage[x] \in {"connect", "barrier"} THEN None ELSE BarrierConn(x)
        /\ fd[0][x] = IF stage[x] = "connect" \/ In(0, DataConn(x)) THEN None ELSE DataConn(x)
        /\ barrierFd[0][x] = IF stage[x] \in {"connect", "barrier"} \/ In(0, BarrierConn(x)) THEN None
                             ELSE BarrierConn(x)
        /\ ports[0][x] = IF fd[0][x] = None THEN -1 ELSE x
    BY DEF RootJoined
  <2>2. x \in Members /\ x # 0 /\ stage'[x] = stage[x] /\ fd'[x][0] = fd[x][0] /\ barrierFd'[x][0] = barrierFd[x][0]
    BY <1>1, <1>8, <1>9
  <2>3. /\ In(0, DataConn(x))' <=> In(0, DataConn(x)) /\ ~(x = s /\ c = DataConn(s))
        /\ In(0, BarrierConn(x))' <=> In(0, BarrierConn(x)) /\ ~(x = s /\ c = BarrierConn(s))
    BY <1>1, <1>3, <1>6
  <2>4. CASE x # s
    <3>1. fd'[0][x] = fd[0][x] /\ barrierFd'[0][x] = barrierFd[0][x] /\ ports'[0][x] = ports[0][x]
      BY <1>1, <1>8, <2>2, <2>4
    <3>2. QED
      BY <2>1, <2>2, <2>3, <2>4, <3>1
  <2>5. CASE x = s /\ c = DataConn(s)
    <3>1. /\ fd'[0][x] = DataConn(x) /\ barrierFd'[0][x] = barrierFd[0][x] /\ ports'[0][x] = x
          /\ DataConn(x) # None /\ c # BarrierConn(s) /\ In(0, DataConn(x))
      BY <1>3, <1>5, <1>6, <1>8, <2>5
    <3>2. QED
      BY <2>1, <2>2, <2>3, <2>5, <3>1
  <2>6. CASE x = s /\ c = BarrierConn(s)
    <3>1. /\ barrierFd'[0][x] = BarrierConn(x) /\ fd'[0][x] = fd[0][x] /\ ports'[0][x] = ports[0][x]
          /\ c # DataConn(s) /\ In(0, BarrierConn(x))
      BY <1>3, <1>5, <1>6, <1>8, <2>6
    <3>2. QED
      BY <2>1, <2>2, <2>3, <2>6, <3>1
  <2>7. QED
    BY <1>4, <2>4, <2>5, <2>6
<1>16. RootCount'
  <2>1. PICK S : S = {x \in Others : fd[0][x] # None}
    OBVIOUS
  <2>2. PICK T : T = {x \in Others : barrierFd[0][x] # None}
    OBVIOUS
  <2>3. PICK m \in Nat : m = Cardinality(S) /\ IsFiniteSet(S)
    BY <2>1, RanksFinite
  <2>4. PICK n \in Nat : n = Cardinality(T) /\ IsFiniteSet(T)
    BY <2>2, RanksFinite
  <2>5. accepted[0] = m + n
    BY <2>1, <2>2, <2>3, <2>4 DEF RootCount
  <2>6. PICK S1 : S1 = {x \in Others : fd'[0][x] # None}
    OBVIOUS
  <2>7. PICK T1 : T1 = {x \in Others : barrierFd'[0][x] # None}
    OBVIOUS
  <2>8. CASE c = DataConn(s)
    <3>0. ASSUME NEW x \in Others
          PROVE  (fd'[0][x] # None <=> fd[0][x] # None \/ x = s) /\ barrierFd'[0][x] = barrierFd[0][x]
      BY <1>1, <1>5, <1>8, <2>8
    <3>1. S1 = S \cup {s} /\ s \notin S /\ T1 = T
      BY <1>8, <2>1, <2>2, <2>6, <2>7, <2>8, <3>0
    <3>2. Cardinality(S1) = m + 1 /\ Cardinality(T1) = n
      BY <2>3, <2>4, <3>1, OneMore
    <3>3. (m + n) + 1 = (m + 1) + n
      OBVIOUS
    <3>4. QED
      BY <1>11, <2>5, <2>6, <2>7, <3>2, <3>3 DEF RootCount
  <2>9. CASE c = BarrierConn(s)
    <3>0. ASSUME NEW x \in Others
          PROVE  (barrierFd'[0][x] # None <=> barrierFd[0][x] # None \/ x = s) /\ fd'[0][x] = fd[0][x]
      BY <1>1, <1>5, <1>8, <2>9
    <3>1. T1 = T \cup {s} /\ s \notin T /\ S1 = S
      BY <1>8, <2>1, <2>2, <2>6, <2>7, <2>9, <3>0
    <3>2. Cardinality(T1) = n + 1 /\ Cardinality(S1) = m
      BY <2>3, <2>4, <3>1, OneMore
    <3>3. (m + n) + 1 = m + (n + 1)
      OBVIOUS
    <3>4. QED
      BY <1>11, <2>5, <2>6, <2>7, <3>2, <3>3 DEF RootCount
  <2>10. QED
    BY <1>4, <2>8, <2>9
<1>17. StageInv'
  <2>1. PICK a \in Nat : a = accepted[0]
    BY RootCounts
  <2>2. a + 1 <= 2 * (Size - 1)
    <3>1. PICK S \in SUBSET Others, T \in SUBSET Others : accepted'[0] = Cardinality(S) + Cardinality(T)
      BY <1>16 DEF RootCount
    <3>2. PICK m \in Nat : m = Cardinality(S) /\ m <= Size - 1
      BY RanksFinite
    <3>3. PICK n \in Nat : n = Cardinality(T) /\ n <= Size - 1
      BY RanksFinite
    <3>4. m + n <= 2 * (Size - 1)
      BY <3>2, <3>3, MembersFact
    <3>5. QED
      BY <1>11, <2>1, <3>1, <3>2, <3>3, <3>4
  <2>3. RootStage /\ peer[0] = 1 /\ 1 < Size /\ Size \in Nat /\ bcasts[0] # 3 /\ ~(bcasts[0] > 0)
    <3>1. RootStage /\ peer[0] = 1 /\ ~(bcasts[0] > 0) /\ bcasts[0] # 3
      BY <1>1 DEF StageInv, RootStage, Ready
    <3>2. QED
      BY <1>4, <3>1, StartNumbers
  <2>4. /\ stage'[0] = t /\ peer'[0] = 1 /\ accepted'[0] = a + 1 /\ bcasts'[0] # 3 /\ ~(bcasts'[0] > 0)
    BY <1>1, <1>9, <1>11, <2>1, <2>3
  <2>5. RootStage'
    <3>1. CASE a + 1 < 2 * (Size - 1)
      <4>1. t = "accept"
        BY <1>0, <2>1, <3>1
      <4>2. QED
        BY <2>4, <4>1 DEF RootStage, Ready
    <3>2. CASE ~(a + 1 < 2 * (Size - 1))
      <4>1. t = "tell" /\ a + 1 = 2 * (Size - 1)
        BY <1>0, <2>1, <2>2, <2>3, <3>2
      <4>2. QED
        BY <2>3, <2>4, <4>1 DEF RootStage, Ready
    <3>3. QED
      BY <3>1, <3>2
  <2>6. QED
    BY <1>1, <1>9, <1>10, <1>13, <2>5, RootMoves
<1>18. PeersInv' /\ PeersCount'
  <2>1. \A x \in Others : backlog'[x] = backlog[x] /\ accepted'[x] = accepted[x] /\ peer'[x] = peer[x]
    BY <1>1, <1>3, <1>10
  <2>2. \A x, y \in Others : fd'[x][y] = fd[x][y]
    BY <1>1, <1>8
  <2>3. QED
    BY <2>1, <2>2, PeersKept
<1>19. QED
  BY <1>3, <1>12, <1>13, <1>14, <1>15, <1>16, <1>17, <1>18

-----------------------------------------------------------------------------
(* Every step, and what it amounts to                                      *)

\* Before the first connection everything is empty.
LEMMA StartInit == Init => StartInv
<1> SUFFICES ASSUME Init
             PROVE  StartInv
  OBVIOUS
<1>1. Size \in Nat /\ Size >= 1 /\ 0 \in Members /\ Others \subseteq Members
  BY MembersFact
<1>2. \A r \in Others : r \in Int /\ 1 <= r /\ r < Size /\ r # 0
  BY MembersFact
<1>3. /\ \A r \in Members : /\ stage[r] = IF r = 0 THEN "accept" ELSE "connect"
                            /\ backlog[r] = <<>> /\ accepted[r] = 0 /\ peer[r] = r + 1
                            /\ data[r] = <<>> /\ bcasts[r] = 0 /\ heard[r] = <<>>
      /\ \A r, s \in Members : /\ fd[r][s] = None /\ barrierFd[r][s] = None
                               /\ ports[r][s] = IF s = 0 /\ r # 0 THEN 0 ELSE -1
  BY DEF Init
<1>4. StartTypes
  <2>1. stage \in [Members -> Stages]
    BY DEF Init, Stages
  <2>2. backlog \in [Members -> Seq(Conns)] /\ data \in [Members -> Seq(Lines)]
        /\ heard \in [Members -> Seq({"header", "endianness", "layout"})]
    BY DEF Init
  <2>3. fd \in [Members -> [Members -> Conns \cup {None, Failed}]]
        /\ barrierFd \in [Members -> [Members -> Conns \cup {None}]]
    BY DEF Init
  <2>4. ports \in [Members -> [Members -> -1 .. Size - 1]]
    <3>1. 0 \in -1 .. Size - 1 /\ -1 \in -1 .. Size - 1
      BY <1>1
    <3>2. QED
      BY <3>1 DEF Init
  <2>5. accepted \in [Members -> Nat] /\ bcasts \in [Members -> 0 .. 3]
    BY DEF Init
  <2>6. peer \in [Members -> 1 .. Size]
    <3>1. \A r \in Members : r + 1 \in 1 .. Size
      BY <1>1 DEF Members
    <3>2. QED
      BY <3>1 DEF Init
  <2>7. \A r \in Members : Len(backlog[r]) <= Backlog
    BY <1>3, BacklogAssumption
  <2>8. QED
    BY <2>1, <2>2, <2>3, <2>4, <2>5, <2>6, <2>7 DEF StartTypes
<1>5. \A r \in Others : Known(r) = 0
  <2>1. ASSUME NEW r \in Others
        PROVE  {s \in Others : ports[r][s] # -1} = {}
    BY <1>1, <1>2, <1>3
  <2>2. QED
    BY <2>1, FS_EmptySet DEF Known
<1>6. StageInv
  <2>1. RootStage
    BY <1>1, <1>3 DEF RootStage, Ready
  <2>2. ASSUME NEW r \in Others
        PROVE  RankStage(r)
    <3>1. /\ stage[r] = "connect" /\ accepted[r] = 0 /\ peer[r] = r + 1 /\ bcasts[r] = 0
          /\ r + 1 > r
      BY <1>1, <1>2, <1>3
    <3>2. QED
      BY <1>5, <3>1 DEF RankStage, Ready
  <2>3. QED
    BY <2>1, <2>2 DEF StageInv
<1>7. DataInv
  <2>1. ASSUME NEW r \in Others
        PROVE  Said(r) = 0 /\ Done(r) = 0
    <3>1. peer[0] = 1 /\ bcasts[0] = 0 /\ bcasts[r] = 0 /\ ~(1 > r)
      BY <1>1, <1>2, <1>3
    <3>2. QED
      BY <1>5, <3>1 DEF Said, Done, LinesTold
  <2>2. QED
    BY <1>1, <1>3, <2>1 DEF DataInv
<1>8. PortsInv
  <2>1. ASSUME NEW r \in Others, NEW s \in Others
        PROVE  0 \in 0 .. Size - 2 \/ Size < 2
    BY <1>1
  <2>2. ASSUME NEW r \in Others
        PROVE  Known(r) \in 0 .. Size - 2
    BY <1>1, <1>2, <1>5
  <2>3. ASSUME NEW r \in Others, NEW s \in Others
        PROVE  ~(s # r /\ s < Line(r, Known(r) + 1)) /\ ports[r][s] = -1
    <3>1. Known(r) + 1 = 1 /\ 1 + 1 = 2
      BY <1>5
    <3>2. s # r => ~(s < Line(r, 1))
      BY <1>2 DEF Line
    <3>3. QED
      BY <1>1, <1>2, <1>3, <3>1, <3>2
  <2>4. QED
    BY <2>2, <2>3 DEF PortsInv
<1>9. HeardInv
  BY <1>1, <1>3 DEF HeardInv
<1>10. \A s \in Members : \A d : ~In(s, d)
  BY <1>3 DEF In
<1>11. OnceInv /\ RootBacklog
  BY <1>1, <1>3 DEF OnceInv, RootBacklog
<1>12. RootJoined
  BY <1>1, <1>2, <1>3, <1>10 DEF RootJoined
<1>13. RootCount
  <2>1. {s \in Others : fd[0][s] # None} = {} /\ {s \in Others : barrierFd[0][s] # None} = {}
    BY <1>1, <1>3
  <2>2. accepted[0] = 0 /\ Cardinality({}) = 0 /\ 0 + 0 = 0
    BY <1>1, <1>3, FS_EmptySet
  <2>3. QED
    BY <2>1, <2>2 DEF RootCount
<1>14. PeersInv
  <2>1. ASSUME NEW s \in Others, NEW r \in 1 .. s - 1
        PROVE  r \in Members /\ s \in Members /\ ~(s < peer[r]) /\ fd[r][s] = None /\ fd[s][r] = None
    <3>1. r \in Others /\ r < s /\ r \in Int
      BY <1>2, MembersFact
    <3>2. peer[r] = r + 1
      BY <1>1, <1>3, <3>1
    <3>3. QED
      BY <1>1, <1>2, <1>3, <3>1, <3>2
  <2>2. QED
    BY <1>1, <1>3, <1>10, <2>1 DEF PeersInv
<1>15. PeersCount
  <2>1. ASSUME NEW s \in Others
        PROVE  {r \in 1 .. s - 1 : fd[s][r] # None} = {}
    <3>1. \A r \in 1 .. s - 1 : r \in Others
      BY <1>2, MembersFact
    <3>2. QED
      BY <1>1, <1>3, <3>1
  <2>2. QED
    BY <1>1, <1>3, <2>1, FS_EmptySet DEF PeersCount
<1>16. QED
  BY <1>4, <1>6, <1>7, <1>8, <1>9, <1>11, <1>12, <1>13, <1>14, <1>15 DEF StartInv

\* The barriers leave the start-up as it is.
LEMMA StartUnchanged == StartInv /\ UNCHANGED startVars => StartInv'
<1> SUFFICES ASSUME StartInv, UNCHANGED startVars
             PROVE  StartInv'
  OBVIOUS
<1> USE DEF StartInv, startVars
<1>1. /\ UNCHANGED <<stage, backlog, fd, barrierFd, ports, accepted, peer, data, bcasts, heard>>
      /\ \A s \in Members : \A d : In(s, d)' <=> In(s, d)
  BY DEF In
<1>2. DataInv' /\ PortsInv' /\ HeardInv' /\ \A x \in Others : Known(x)' = Known(x)
  BY <1>1, WordsKept
<1>3. StartTypes'
  BY <1>1 DEF StartTypes
<1>4. StageInv'
  <2>1. RootStage'
    BY <1>1 DEF StageInv, RootStage, Ready
  <2>2. QED
    BY <1>1, <1>2, <2>1, RootMoves, StartNumbers
<1>5. OnceInv'
  BY <1>1 DEF OnceInv
<1>6. RootBacklog' /\ RootJoined' /\ RootCount'
  BY <1>1, RootKept
<1>7. PeersInv' /\ PeersCount'
  BY <1>1, PeersKept
<1>8. QED
  BY <1>2, <1>3, <1>4, <1>5, <1>6, <1>7

\* Every step keeps the invariant.
LEMMA StartNext == StartInv /\ [Next]_allVars => StartInv'
<1> SUFFICES ASSUME StartInv, [Next]_allVars
             PROVE  StartInv'
  OBVIOUS
<1>1. CASE Root
  <2>1. CASE RootAccepts
    BY <2>1, RootAcceptsKeeps
  <2>2. CASE TellAbout
    BY <2>2, TellAboutKeeps
  <2>3. CASE Bcast
    BY <2>3, BcastKeeps
  <2>4. CASE RootBarrier
    BY <2>4, StartUnchanged DEF RootBarrier
  <2>5. QED
    BY <1>1, <2>1, <2>2, <2>3, <2>4 DEF Root
<1>2. ASSUME NEW r \in Others, RankStep(r)
      PROVE  StartInv'
  <2>1. CASE ConnectToRoot(r)
    BY <2>1, ConnectToRootKeeps
  <2>2. CASE ConnectBarrier(r)
    BY <2>2, ConnectBarrierKeeps
  <2>3. CASE ReadPort(r)
    BY <2>3, ReadPortKeeps
  <2>4. CASE AcceptPeer(r)
    BY <2>4, AcceptPeerKeeps
  <2>5. CASE ConnectPeer(r)
    BY <2>5, ConnectPeerKeeps
  <2>6. CASE HearBcast(r)
    BY <2>6, HearBcastKeeps
  <2>7. CASE RankBarrierStep(r)
    BY <2>7, StartUnchanged DEF RankBarrierStep
  <2>8. QED
    BY <1>2, <2>1, <2>2, <2>3, <2>4, <2>5, <2>6, <2>7 DEF RankStep
<1>3. CASE UNCHANGED allVars
  BY <1>3, StartUnchanged DEF allVars
<1>4. QED
  BY <1>1, <1>2, <1>3 DEF Next

\* So it holds in every state.
LEMMA StartAlways == Spec => []StartInv
<1>1. QED
  BY StartInit, StartNext, PTL DEF Spec

\* A step of the start-up does nothing to the barriers, the others are steps
\* of socket_barrier.
LEMMA StepOfBarrier == [Next]_allVars => [BarrierNext]_barrierVars
<1> SUFFICES ASSUME Next \/ UNCHANGED allVars
             PROVE  BarrierNext \/ UNCHANGED barrierVars
  OBVIOUS
<1>1. CASE Root
  BY <1>1 DEF Root, RootAccepts, TellAbout, Bcast, RootBarrier, BarrierNext
<1>2. ASSUME NEW r \in Others, RankStep(r)
      PROVE  BarrierNext \/ UNCHANGED barrierVars
  BY <1>2 DEF RankStep, ConnectToRoot, ConnectBarrier, ReadPort, AcceptPeer, ConnectPeer, HearBcast,
              RankBarrierStep, BarrierNext
<1>3. QED
  BY <1>1, <1>2 DEF Next, allVars

\* Whatever the start-up does, the barriers behave as those of SocketBarrier.
LEMMA BarriersAreThose == Spec => BarrierSpec
<1>1. Init => BarrierInit
  BY DEF Init
<1>2. QED
  BY <1>1, StepOfBarrier, PTL DEF Spec, BarrierSpec

\* The types of everything a process holds follow from the invariants.
LEMMA StartIsTyped == StartInv /\ Inv => TypeOK
<1> SUFFICES ASSUME StartInv, Inv
             PROVE  TypeOK
  OBVIOUS
<1> USE DEF StartInv
<1>1. BarrierTypeOK
  BY InvIsTyped
<1>2. ASSUME NEW r \in Members
      PROVE  accepted[r] \in 0 .. 2 * (Size - 1)
  <2>1. CASE r = 0
    BY <2>1, RootCounts, MembersFact
  <2>2. CASE r # 0
    <3>1. r \in Others /\ r \in Int /\ 1 <= r /\ r < Size /\ Size \in Nat
      BY <2>2, MembersFact
    <3>2. PICK n \in Nat : n = accepted[r] /\ n <= r - 1
      BY <3>1, RanksFinite DEF PeersCount
    <3>3. QED
      BY <3>1, <3>2
  <2>3. QED
    BY <2>1, <2>2
<1>3. accepted \in [Members -> 0 .. 2 * (Size - 1)]
  BY <1>2 DEF StartTypes
<1>4. bcasts \in [Members -> 0 .. Len(Bcasts)]
  BY DEF StartTypes, Bcasts
<1>5. QED
  BY <1>1, <1>3, <1>4 DEF TypeOK, StartTypes

\* What MeshIsJoined says of two ranks follows from what each of them has done.
LEMMA StartIsJoined == StartInv /\ Inv => MeshIsJoined
<1> SUFFICES ASSUME StartInv, Inv
             PROVE  MeshIsJoined
  OBVIOUS
<1> USE DEF StartInv
<1>1. ASSUME NEW r \in Members, NEW s \in Members, r < s, Ready(r), Ready(s)
      PROVE  /\ fd[r][s] = fd[s][r]
             /\ fd[r][s] = IF r = 0 THEN Conn(s, 0, "data") ELSE Conn(r, s, "data")
             /\ r = 0 => barrierFd[0][s] = barrierFd[s][0] /\ barrierFd[0][s].kind = "barrier"
  <2>1. s \in Others /\ (r = 0 \/ r \in Others)
    BY <1>1 DEF Members, Others
  <2>2. CASE r = 0
    <3>1. stage[0] # "accept" /\ stage[s] \notin {"connect", "barrier"}
      BY <1>1, <2>2 DEF Ready
    <3>2. fd[0][s] = DataConn(s) /\ barrierFd[0][s] = BarrierConn(s)
      BY <2>1, <3>1, AllAccepted
    <3>3. fd[s][0] = DataConn(s) /\ barrierFd[s][0] = BarrierConn(s)
      BY <2>1, <3>1 DEF RootJoined
    <3>4. QED
      BY <2>2, <3>2, <3>3, ConnFacts DEF DataConn, BarrierConn
  <2>3. CASE r \in Others
    <3>1. /\ r \in Int /\ s \in Int /\ 1 <= r /\ s < Size /\ s > 1 /\ r # 0 /\ r \in 1 .. s - 1
      BY <1>1, <2>1, <2>3, StartNumbers
    <3>2. peer[r] = Size /\ accepted[s] = s - 1
      BY <1>1, <2>1, <2>3, <3>1 DEF StageInv, RankStage, Ready
    <3>3. PICK S : S = {x \in 1 .. s - 1 : fd[s][x] # None}
      OBVIOUS
    <3>4. Cardinality(S) = s - 1
      BY <2>1, <3>2, <3>3 DEF PeersCount
    <3>5. S = 1 .. s - 1
      BY <2>1, <3>3, <3>4, RanksFinite
    <3>6. fd[s][r] # None
      BY <3>1, <3>3, <3>5
    <3>7. QED
      BY <2>1, <3>1, <3>2, <3>6 DEF PeersInv
  <2>4. QED
    BY <2>1, <2>2, <2>3
<1>2. QED
  BY <1>1, StartIsTyped DEF MeshIsJoined

\* What has been read as broadcasts is the beginning of what is broadcast.
LEMMA StartIsHeard == StartInv => BroadcastsAreHeardInOrder
<1> SUFFICES ASSUME StartInv, NEW r \in Others
             PROVE  IsPrefix(heard[r], Bcasts)
  BY DEF BroadcastsAreHeardInOrder
<1>1. PICK h : h = heard[r]
  OBVIOUS
<1>2. PICK W : W = {"header", "endianness", "layout"}
  OBVIOUS
<1>3. h \in Seq(W) /\ Bcasts \in Seq(W) /\ Len(Bcasts) = 3
  BY <1>1, <1>2, StartNumbers DEF StartInv, StartTypes, Bcasts
<1>4. PICK n \in 0 .. 3 : n = Len(h)
  <2>1. r \in Members
    BY MembersFact
  <2>2. bcasts[r] \in 0 .. 3
    BY <2>1 DEF StartInv, StartTypes
  <2>3. QED
    BY <1>1, <2>2 DEF StartInv, HeardInv
<1>5. \A k \in 1 .. n : h[k] = Bcasts[k]
  BY <1>1, <1>4 DEF StartInv, HeardInv
<1>6. SubSeq(h, 1, n) = SubSeq(Bcasts, 1, n)
  <2>1. n \in Int /\ n <= Len(h) /\ n <= Len(Bcasts)
    BY <1>3, <1>4
  <2>2. /\ SubSeq(h, 1, n) = [k \in 1 .. n |-> h[k]]
        /\ SubSeq(Bcasts, 1, n) = [k \in 1 .. n |-> Bcasts[k]]
    BY <1>3, <1>4, <2>1
  <2>3. QED
    BY <1>5, <2>2
<1>7. QED
  BY <1>1, <1>3, <1>4, <1>6 DEF IsPrefix

\* The processes of a job are joined as they should be, for any number of
\* ranks and any backlog of the listening sockets: two ranks that are done
\* with dcmpisock_startup hold the two ends of one connection, and rank 0 has
\* told the data connections and the barrier connections apart.
THEOREM MeshJoined == Spec => []MeshIsJoined
<1>1. QED
  BY StartAlways, BarriersAreThose, InvAlways, StartIsJoined, PTL

\* No rank takes a line about a port for a broadcast, or the other way round.
THEOREM BroadcastsInOrder == Spec => []BroadcastsAreHeardInOrder
<1>1. QED
  BY StartAlways, StartIsHeard, PTL

\* The socket runtime, from its start-up on, implements the abstract barrier.
THEOREM StartupImplementsBarrier == Spec => ImplementsBarrier
<1>1. QED
  BY BarriersAreThose, BarrierIsImplemented, PTL

\* What the guards of rank 0 could wait for in vain: a line that does not come
\* on the first connection of a rank, a barrier connection that is another's.
RootWaitsForWhatComes ==
  /\ stage[0] = "accept" /\ backlog[0] # <<>> =>
       LET c == Head(backlog[0]) IN fd[0][c.client] = None => c.kind = "data"
  /\ stage[0] = "run" => \A s \in Others : barrierFd[0][s] = Conn(s, 0, "barrier")

\* The first connection of a rank that rank 0 accepts carries the line of its
\* port, and the barriers read from and write to the rank they mean: neither
\* blocks rank 0, whatever the order in which the others connect.
THEOREM RootIsNotMisled == Spec => []RootWaitsForWhatComes
<1>1. ASSUME StartInv
      PROVE  RootWaitsForWhatComes
  <2> USE DEF StartInv
  <2>1. ASSUME stage[0] = "accept", backlog[0] # <<>>, NEW c, c = Head(backlog[0]), fd[0][c.client] = None
        PROVE  c.kind = "data"
    <3>1. PICK q : q = backlog[0]
      OBVIOUS
    <3>2. PICK n : n = Len(q)
      OBVIOUS
    <3>3. q \in Seq(Conns) /\ n \in Nat \ {0} /\ c = q[1] /\ 1 \in 1 .. n
      BY <1>1, <2>1, <3>1, <3>2, StartNumbers DEF StartTypes
    <3>4. PICK s \in Others : c \in {DataConn(s), BarrierConn(s)}
      BY <1>1, <3>1, <3>2, <3>3 DEF RootBacklog
    <3>5. c.client = s /\ DataConn(s).kind = "data" /\ DataConn(s) # None
      BY <3>4, <1>1, ConnFacts, StartNumbers DEF DataConn, BarrierConn
    <3>6. ASSUME c = BarrierConn(s)
          PROVE  FALSE
      <4>1. In(0, BarrierConn(s))
        BY <3>1, <3>2, <3>3, <3>6 DEF In
      <4>2. stage[s] # "connect" /\ In(0, DataConn(s))
        BY <1>1, <2>1, <3>5, <4>1 DEF RootJoined
      <4>3. PICK k \in 1 .. n : q[k] = DataConn(s)
        BY <3>1, <3>2, <4>2 DEF In
      <4>4. k < 1
        BY <1>1, <3>1, <3>2, <3>3, <3>6, <4>3 DEF RootBacklog
      <4>5. QED
        BY <4>3, <4>4
    <3>7. QED
      BY <3>4, <3>5, <3>6
  <2>2. ASSUME stage[0] = "run", NEW s \in Others
        PROVE  barrierFd[0][s] = Conn(s, 0, "barrier")
    BY <1>1, <2>2, AllAccepted DEF BarrierConn
  <2>3. QED
    BY <2>1, <2>2 DEF RootWaitsForWhatComes
<1>2. QED
  BY <1>1, StartAlways, PTL

=============================================================================

---------------------------- MODULE Proxy_proofs ----------------------------
(***************************************************************************)
(* What the proxy promises for any number of jobs and clusters, any        *)
(* traffic and any gateways that fail.                                     *)
(*                                                                         *)
(* First, how far its memory can go past the threshold.  The bound is not  *)
(* inductive: what in-threads have been allowed to charge and have not     *)
(* charged yet counts as well.  That this is never more than the other     *)
(* senders' largest packets when another one is allowed to charge follows  *)
(* from what it is: the bytes of the packets in the hands of the           *)
(* in-threads that are about to charge.                                    *)
(*                                                                         *)
(* Then, what becomes of a job: its queues live as long as its threads,    *)
(* its packets are given back, and its gateways find "bye" at the end.     *)
(* These rest on one invariant, JobInv, with a part for each question:     *)
(*   CookieInv  the count of a cookie is that of the threads not ended     *)
(*   PlacesInv  a packet is at one place on its way                        *)
(*   EndInv     how the connection of a gateway to the proxy ends          *)
(*   ByeInv     "bye" of a peer comes after its packets, in the queue too  *)
(*   LineEnds   how the connection from the proxy to a gateway ends        *)
(*   MemoryInv  what is charged is what the proxy holds                    *)
(***************************************************************************)
EXTENDS Proxy, FiniteSetTheorems, SequenceTheorems, TLAPS

\* what the connection from gateway g carries
FromGateway(g) == PacketsOf(g) \cup {Bye, Eof, Reset}

WireTypes ==
  /\ toProxy = [g \in Gateways |-> toProxy[g]]
  /\ \A g \in Gateways : toProxy[g] \in Seq(FromGateway(g))
InTypes ==
  /\ inThread = [g \in Gateways |-> inThread[g]]
  /\ inHand = [g \in Gateways |-> inHand[g]]
  /\ \A g \in Gateways :
       inThread[g] \in {"wait", "charge", "read"} => inHand[g] \in PacketsOf(g)
OutTypes ==
  /\ outThread = [g \in Gateways |-> outThread[g]]
  /\ outHand = [g \in Gateways |-> outHand[g]]
  /\ \A g \in Gateways : outThread[g] \in {"write", "reduce"} => outHand[g] \in Packets
QueueTypes == queue \in [Gateways -> Seq(Packets \cup {Bye, None})]
SentTypes  == sent \in [Gateways -> Nat]
Types == WireTypes /\ InTypes /\ OutTypes /\ QueueTypes /\ SentTypes
         /\ memusage \in Int /\ promised \in Int

\* the bytes that in-threads are about to charge
Bytes == {u \in Gateways \X Nat : inThread[u[1]] = "charge" /\ u[2] \in 1 .. inHand[u[1]].size}

Accounts == IsFiniteSet(Bytes) /\ promised = Cardinality(Bytes)
Limit    == MemThreshold + MaxSize * (Cardinality(Senders) - 1)
Bounded  == memusage + promised > 0 => memusage + promised < Limit

Inv == Types /\ Accounts /\ Bounded

-----------------------------------------------------------------------------
(* Packets                                                                 *)

\* What a packet of g is.
LEMMA PacketFacts ==
  ASSUME NEW g \in Gateways, NEW p \in PacketsOf(g)
  PROVE  /\ p.kind = "packet" /\ p.size \in 1 .. MaxSize /\ p.len \in 0 .. p.size
         /\ p.to \in Gateways /\ p \in Packets /\ g \in Senders
<1>1. PICK n \in DOMAIN Traffic[g] : \E l \in 0 .. Traffic[g][n].size :
        p = [kind |-> "packet", from |-> g, n |-> n, to |-> Traffic[g][n].to,
             size |-> Traffic[g][n].size, len |-> l]
  BY DEF PacketsOf
<1>2. Traffic[g] \in Seq([to : Peers(g), size : 1 .. MaxSize])
  BY ProxyAssumption
<1>3. Traffic[g][n] \in [to : Peers(g), size : 1 .. MaxSize]
  <2> DEFINE T == [to : Peers(g), size : 1 .. MaxSize]
  <2> HIDE DEF T
  <2>1. Traffic[g] \in Seq(T)
    BY <1>2 DEF T
  <2>2. Traffic[g][n] \in T
    BY <2>1
  <2>3. QED
    BY <2>2 DEF T
<1>4. Traffic[g] # <<>>
  BY <1>1, <1>2
<1>5. p \in Packets
  BY DEF Packets
<1>6. QED
  BY <1>1, <1>3, <1>4, <1>5 DEF Peers, Senders

\* So is every packet, whoever has sent it.
LEMMA AnyPacket == \A p \in Packets : p.size \in Nat /\ p.len \in Nat /\ p.kind = "packet"
<1> SUFFICES ASSUME NEW g \in Gateways, NEW p \in PacketsOf(g)
             PROVE  p.size \in Nat /\ p.len \in Nat /\ p.kind = "packet"
  BY DEF Packets
<1>1. p.size \in 1 .. MaxSize /\ p.len \in 0 .. p.size /\ p.kind = "packet"
  BY PacketFacts
<1>2. MaxSize \in Nat
  BY ProxyAssumption
<1>3. QED
  BY <1>1, <1>2

\* The n-th packet of a gateway, whole or cut.
LEMMA PacketOfTraffic ==
  ASSUME NEW g \in Gateways, NEW n \in 1 .. Len(Traffic[g])
  PROVE  [kind |-> "packet", from |-> g, n |-> n, to |-> Traffic[g][n].to,
          size |-> Traffic[g][n].size, len |-> Traffic[g][n].size] \in PacketsOf(g)
<1>1. Traffic[g] \in Seq([to : Peers(g), size : 1 .. MaxSize])
  BY ProxyAssumption
<1>2. n \in DOMAIN Traffic[g] /\ Traffic[g][n] \in [to : Peers(g), size : 1 .. MaxSize]
  <2> DEFINE T == [to : Peers(g), size : 1 .. MaxSize]
  <2> HIDE DEF T
  <2>1. Traffic[g] \in Seq(T)
    BY <1>1 DEF T
  <2>2. n \in DOMAIN Traffic[g] /\ Traffic[g][n] \in T
    BY <2>1
  <2>3. QED
    BY <2>2 DEF T
<1>3. Traffic[g][n].size \in 0 .. Traffic[g][n].size
  BY <1>2, ProxyAssumption
<1>4. QED
  BY <1>2, <1>3 DEF PacketsOf

\* There are finitely many gateways.
LEMMA FiniteGateways == IsFiniteSet(Gateways)
<1>1. IsFiniteSet(Jobs) /\ IsFiniteSet(0 .. NumClusters - 1)
  BY FS_Interval, ProxyAssumption
<1>2. QED
  BY <1>1, FS_Product DEF Gateways

-----------------------------------------------------------------------------
(* What is about to be charged                                             *)

\* Only what an in-thread has in its hand when it is about to charge counts.
LEMMA BytesKept ==
  ASSUME \A g \in Gateways : /\ inThread'[g] = "charge" <=> inThread[g] = "charge"
                             /\ inThread[g] = "charge" => inHand'[g] = inHand[g]
  PROVE  Bytes' = Bytes
  BY DEF Bytes

\* The bytes of one packet.
LEMMA PacketBytes ==
  ASSUME NEW g, NEW n \in Nat
  PROVE  IsFiniteSet({g} \X (1 .. n)) /\ Cardinality({g} \X (1 .. n)) = n
<1>1. IsFiniteSet({g}) /\ Cardinality({g}) = 1
  BY FS_Singleton
<1>2. IsFiniteSet(1 .. n) /\ Cardinality(1 .. n) = n
  BY FS_Interval
<1>3. /\ IsFiniteSet({g} \X (1 .. n))
      /\ Cardinality({g} \X (1 .. n)) = Cardinality({g}) * Cardinality(1 .. n)
  BY <1>1, <1>2, FS_Product
<1>4. QED
  BY <1>1, <1>2, <1>3

\* Of all in-threads but g, no more than the largest packet of every sender
\* but g is waiting to be charged.
LEMMA OthersPromised ==
  ASSUME Types, Accounts, NEW g \in Senders, inThread[g] # "charge"
  PROVE  promised <= MaxSize * (Cardinality(Senders) - 1) /\ promised \in Nat
<1> DEFINE S == Senders \ {g}
<1>1. Senders \subseteq Gateways /\ IsFiniteSet(Senders)
  BY FiniteGateways, FS_Subset DEF Senders
<1>2. IsFiniteSet(S) /\ Cardinality(S) = Cardinality(Senders) - 1 /\ Cardinality(S) \in Nat
  BY <1>1, FS_RemoveElement, FS_CardinalityType
<1>3. IsFiniteSet(1 .. MaxSize) /\ Cardinality(1 .. MaxSize) = MaxSize /\ MaxSize \in Nat
  BY FS_Interval, ProxyAssumption
<1>4. IsFiniteSet(S \X (1 .. MaxSize)) /\ Cardinality(S \X (1 .. MaxSize)) = Cardinality(S) * MaxSize
  BY <1>2, <1>3, FS_Product
<1>5. Bytes \subseteq S \X (1 .. MaxSize)
  <2> SUFFICES ASSUME NEW h \in Gateways, NEW k \in Nat, inThread[h] = "charge",
                      k \in 1 .. inHand[h].size
               PROVE  h \in S /\ k \in 1 .. MaxSize
    BY DEF Bytes
  <2>1. inHand[h] \in PacketsOf(h)
    BY DEF Types, InTypes
  <2>2. h \in Senders /\ inHand[h].size \in 1 .. MaxSize
    BY <2>1, PacketFacts
  <2>3. QED
    BY <1>3, <2>2
<1>6. Cardinality(Bytes) <= Cardinality(S) * MaxSize /\ Cardinality(Bytes) \in Nat
  <2> HIDE DEF S
  <2> QED
    BY <1>4, <1>5, FS_Subset, FS_CardinalityType
<1> HIDE DEF S
<1>7. Cardinality(S) * MaxSize = MaxSize * (Cardinality(Senders) - 1)
  BY <1>2, <1>3
<1>8. QED
  BY <1>6, <1>7 DEF Accounts

-----------------------------------------------------------------------------
(* Steps                                                                   *)

\* What changes nothing that counts keeps the accounts and the bound.
LEMMA AccountsKept ==
  ASSUME Inv, Bytes' = Bytes, promised' = promised, memusage' \in Int, memusage' <= memusage
  PROVE  Accounts' /\ Bounded'
<1>1. promised \in Int /\ memusage \in Int
  BY DEF Inv, Types
<1>2. Limit' = Limit
  BY DEF Limit
<1>3. Limit \in Int
  <2>1. Senders \subseteq Gateways
    BY DEF Senders
  <2>2. Cardinality(Senders) \in Nat
    BY <2>1, FiniteGateways, FS_Subset, FS_CardinalityType
  <2>3. QED
    BY <2>2, ProxyAssumption DEF Limit
<1>4. QED
  BY <1>1, <1>2, <1>3 DEF Inv, Accounts, Bounded

\* What a wire carries after one more message, or one less.
LEMMA WireStep ==
  ASSUME WireTypes, NEW g \in Gateways, NEW w \in Seq(FromGateway(g)),
         toProxy' = [toProxy EXCEPT ![g] = w]
  PROVE  WireTypes'
<1>1. toProxy' = [h \in Gateways |-> IF h = g THEN w ELSE toProxy[h]]
  BY DEF WireTypes
<1>2. \A h \in Gateways : toProxy'[h] = (IF h = g THEN w ELSE toProxy[h])
  BY <1>1
<1>3. \A h \in Gateways : toProxy'[h] \in Seq(FromGateway(h))
  BY <1>2 DEF WireTypes
<1>4. toProxy' = [h \in Gateways |-> toProxy'[h]]
  BY <1>1, <1>2
<1>5. QED
  BY <1>3, <1>4 DEF WireTypes

\* A message is taken from a wire.
LEMMA WireTail ==
  ASSUME WireTypes, NEW g \in Gateways, toProxy[g] # <<>>,
         toProxy' = [toProxy EXCEPT ![g] = Tail(@)]
  PROVE  WireTypes'
<1>1. Tail(toProxy[g]) \in Seq(FromGateway(g))
  <2> DEFINE T == FromGateway(g)
  <2> HIDE DEF T
  <2>1. toProxy[g] \in Seq(T)
    BY DEF WireTypes, T
  <2>2. Tail(toProxy[g]) \in Seq(T)
    BY <2>1, HeadTailProperties
  <2>3. QED
    BY <2>2 DEF T
<1>2. toProxy' = [toProxy EXCEPT ![g] = Tail(toProxy[g])]
  OBVIOUS
<1>3. QED
  BY <1>1, <1>2, WireStep

\* A message is put on a wire.
LEMMA WireAppend ==
  ASSUME WireTypes, NEW g \in Gateways, NEW m \in FromGateway(g),
         toProxy' = [toProxy EXCEPT ![g] = Append(@, m)]
  PROVE  WireTypes'
<1>1. Append(toProxy[g], m) \in Seq(FromGateway(g))
  <2> DEFINE T == FromGateway(g)
  <2> HIDE DEF T
  <2>1. toProxy[g] \in Seq(T) /\ m \in T
    BY DEF WireTypes, T
  <2>2. Append(toProxy[g], m) \in Seq(T)
    BY <2>1
  <2>3. QED
    BY <2>2 DEF T
<1>2. toProxy' = [toProxy EXCEPT ![g] = Append(toProxy[g], m)]
  OBVIOUS
<1>3. QED
  BY <1>1, <1>2, WireStep

\* A gateway that dies leaves on its wire what it can have sent.
LEMMA WireOfDead ==
  ASSUME WireTypes, NEW g \in Gateways, Die(g)
  PROVE  WireTypes'
<1>1. CASE UNCHANGED toProxy
  BY <1>1 DEF WireTypes
<1>2. CASE toProxy' = [toProxy EXCEPT ![g] = Append(@, Eof)]
  <2>1. Eof \in FromGateway(g)
    BY DEF FromGateway
  <2>2. QED
    BY <1>2, <2>1, WireAppend
<1>3. CASE toProxy' = [toProxy EXCEPT ![g] = <<Reset>>]
  <2>1. Reset \in FromGateway(g)
    BY DEF FromGateway
  <2>2. <<Reset>> \in Seq(FromGateway(g))
    BY <2>1
  <2>3. QED
    BY <1>3, <2>2, WireStep
<1>4. ASSUME NEW p \in PacketsOf(g), toProxy' = [toProxy EXCEPT ![g] = @ \o <<p, Eof>>]
      PROVE  WireTypes'
  <2> DEFINE T == FromGateway(g)
  <2>1. p \in T /\ Eof \in T
    BY DEF FromGateway
  <2>2. toProxy[g] \in Seq(T)
    BY DEF WireTypes
  <2>3. toProxy[g] \o <<p, Eof>> \in Seq(T)
    <3> HIDE DEF T
    <3>1. <<p, Eof>> \in Seq(T)
      BY <2>1
    <3>2. QED
      BY <2>2, <3>1, ConcatProperties
  <2>4. toProxy' = [toProxy EXCEPT ![g] = toProxy[g] \o <<p, Eof>>]
    BY <1>4
  <2>5. QED
    BY <2>3, <2>4, WireStep
<1>5. QED
  BY <1>1, <1>2, <1>3, <1>4 DEF Die

\* Gateways change nothing that counts but their wires.
LEMMA GatewayKeeps ==
  ASSUME Inv, NEW g \in Gateways, GatewayStep(g) \/ Crash(g)
  PROVE  Inv'
<1>0. WireTypes
  BY DEF Inv, Types
<1>1. UNCHANGED <<inVars, outVars, tableVars, memVars>>
  BY DEF GatewayStep, GatewayWrite, GatewayRead, GatewayLeave, GatewayBye, GatewayCleanup,
         GatewayAbort, Crash, Die
<1>2. WireTypes'
  <2>1. CASE GatewayWrite(g)
    <3> DEFINE t == Traffic[g][sent[g] + 1]
               p == [kind |-> "packet", from |-> g, n |-> sent[g] + 1, to |-> t.to,
                     size |-> t.size, len |-> t.size]
    <3>1. toProxy' = [toProxy EXCEPT ![g] = Append(@, p)] /\ sent[g] < Len(Traffic[g])
      BY <2>1 DEF GatewayWrite
    <3>2. sent[g] + 1 \in 1 .. Len(Traffic[g])
      <4>1. Traffic[g] \in Seq([to : Peers(g), size : 1 .. MaxSize])
        BY ProxyAssumption
      <4>2. Len(Traffic[g]) \in Nat
        <5> DEFINE T == [to : Peers(g), size : 1 .. MaxSize]
        <5> HIDE DEF T
        <5>1. Traffic[g] \in Seq(T)
          BY <4>1 DEF T
        <5>2. QED
          BY <5>1
      <4>3. sent[g] \in Nat
        BY DEF Inv, Types, SentTypes
      <4>4. QED
        BY <3>1, <4>2, <4>3
    <3>3. p \in PacketsOf(g)
      BY <3>2, PacketOfTraffic
    <3>4. p \in FromGateway(g)
      BY <3>3 DEF FromGateway
    <3> HIDE DEF p
    <3>5. QED
      BY <1>0, <3>1, <3>4, WireAppend
  <2>2. CASE GatewayBye(g)
    <3>1. Bye \in FromGateway(g)
      BY DEF FromGateway
    <3>2. QED
      BY <1>0, <2>2, <3>1, WireAppend DEF GatewayBye
  <2>3. CASE GatewayAbort(g) \/ Crash(g)
    BY <1>0, <2>3, WireOfDead DEF GatewayAbort, Crash
  <2>4. CASE UNCHANGED toProxy
    BY <1>0, <2>4 DEF WireTypes
  <2>5. QED
    BY <2>1, <2>2, <2>3, <2>4 DEF GatewayStep, GatewayRead, GatewayLeave, GatewayCleanup, wires
<1>3. Bytes' = Bytes
  BY <1>1 DEF Bytes, inVars
<1>4. Accounts' /\ Bounded'
  <2>1. promised' = promised /\ memusage' = memusage /\ memusage \in Int
    BY <1>1 DEF memVars, Inv, Types
  <2>2. QED
    BY <1>3, <2>1, AccountsKept
<1>5. SentTypes'
  <2>1. sent' = sent \/ sent' = [sent EXCEPT ![g] = @ + 1]
    BY DEF GatewayStep, GatewayWrite, GatewayRead, GatewayLeave, GatewayBye, GatewayCleanup,
           GatewayAbort, Crash, Die
  <2>2. QED
    BY <2>1 DEF Inv, Types, SentTypes
<1>6. Types'
  BY <1>1, <1>2, <1>5
     DEF Inv, Types, InTypes, OutTypes, QueueTypes, inVars, outVars, tableVars, memVars
<1>7. QED
  BY <1>4, <1>6 DEF Inv

\* Queues after an item has been added to one, or to the others of a job.
LEMMA QueuesAfterPut ==
  ASSUME QueueTypes, NEW g \in Gateways, NEW m \in Packets \cup {Bye, None},
         PutToOthers(g, m) \/ (\E h \in Gateways : queue' = [queue EXCEPT ![h] = Append(@, m)])
  PROVE  QueueTypes'
<1> DEFINE T == Packets \cup {Bye, None}
<1>1. m \in T /\ queue \in [Gateways -> Seq(T)]
  BY DEF QueueTypes
<1> HIDE DEF T
<1>2. CASE PutToOthers(g, m)
  BY <1>1, <1>2 DEF PutToOthers, QueueTypes, T
<1>3. CASE \E h \in Gateways : queue' = [queue EXCEPT ![h] = Append(@, m)]
  BY <1>1, <1>3 DEF QueueTypes, T
<1>4. QED
  BY <1>2, <1>3

\* Queues after a thread has left, or has taken an item.
LEMMA QueuesAfterTake ==
  ASSUME QueueTypes, NEW g \in Gateways,
         \/ Unregister(g[1])
         \/ queue[g] # <<>> /\ queue' = [queue EXCEPT ![g] = Tail(@)]
  PROVE  QueueTypes'
<1> DEFINE T == Packets \cup {Bye, None}
<1>1. queue \in [Gateways -> Seq(T)]
  BY DEF QueueTypes
<1> HIDE DEF T
<1>2. CASE Unregister(g[1])
  <2>1. \/ queue' = queue
        \/ queue' = [h \in Gateways |-> IF h[1] = g[1] THEN <<>> ELSE queue[h]]
    BY <1>2 DEF Unregister
  <2>2. queue' \in [Gateways -> Seq(T)]
    <3>1. <<>> \in Seq(T)
      OBVIOUS
    <3>2. CASE queue' = queue
      BY <1>1, <3>2
    <3>3. CASE queue' = [h \in Gateways |-> IF h[1] = g[1] THEN <<>> ELSE queue[h]]
      BY <1>1, <3>1, <3>3
    <3>4. QED
      BY <2>1, <3>2, <3>3
  <2>3. QED
    BY <2>2 DEF QueueTypes, T
<1>3. CASE queue[g] # <<>> /\ queue' = [queue EXCEPT ![g] = Tail(@)]
  <2>1. Tail(queue[g]) \in Seq(T)
    BY <1>1, <1>3, HeadTailProperties
  <2>2. queue' \in [Gateways -> Seq(T)]
    BY <1>1, <1>3, <2>1
  <2>3. QED
    BY <2>2 DEF QueueTypes, T
<1>4. QED
  BY <1>2, <1>3

\* An in-thread that gets hold of a packet or lets it go keeps the types.
LEMMA HandsKept ==
  ASSUME InTypes, NEW g \in Gateways, NEW state, NEW hand,
         inThread' = [inThread EXCEPT ![g] = state],
         inHand' = [inHand EXCEPT ![g] = hand],
         state \in {"wait", "charge", "read"} => hand \in PacketsOf(g)
  PROVE  InTypes'
<1>1. \A h \in Gateways : /\ inThread'[h] = (IF h = g THEN state ELSE inThread[h])
                          /\ inHand'[h] = (IF h = g THEN hand ELSE inHand[h])
  BY DEF InTypes
<1>2. /\ inThread' = [h \in Gateways |-> inThread'[h]]
      /\ inHand' = [h \in Gateways |-> inHand'[h]]
  BY DEF InTypes
<1>3. QED
  BY <1>1, <1>2 DEF InTypes

\* The steps of an in-thread that are not about the memory.
LEMMA InKeeps ==
  ASSUME Inv, NEW g \in Gateways,
         InRegister(g) \/ InLine(g) \/ InPut(g) \/ InBye(g) \/ InError(g) \/ InErrorLocks(g)
         \/ InRaises(g) \/ InLeave(g)
  PROVE  Inv'
<1>0. WireTypes /\ InTypes /\ QueueTypes /\ OutTypes /\ SentTypes
      /\ memusage \in Int /\ promised \in Int
  BY DEF Inv, Types
<1>1. UNCHANGED <<outVars, memVars, sent>>
  BY DEF InRegister, InLine, InPut, InBye, InError, InErrorLocks, InRaises, InLeave, gwVars, outVars
<1>2. inThread[g] # "charge" /\ inThread' = [inThread EXCEPT ![g] = inThread'[g]]
      /\ inThread'[g] # "charge"
  BY <1>0 DEF InTypes, InRegister, InLine, InPut, InBye, InError, InErrorLocks, InRaises, InLeave
<1>3. inHand' = inHand \/ (\E h : inHand' = [inHand EXCEPT ![g] = h])
  BY DEF InRegister, InLine, InPut, InBye, InError, InErrorLocks, InRaises, InLeave
<1>4. Bytes' = Bytes
  <2>1. \A h \in Gateways : /\ inThread'[h] = "charge" <=> inThread[h] = "charge"
                            /\ inThread[h] = "charge" => inHand'[h] = inHand[h]
    BY <1>0, <1>2, <1>3 DEF InTypes
  <2>2. QED
    BY <2>1, BytesKept
<1>5. WireTypes'
  <2>1. CASE UNCHANGED toProxy
    BY <1>0, <2>1 DEF WireTypes
  <2>2. CASE toProxy[g] # <<>> /\ toProxy' = [toProxy EXCEPT ![g] = Tail(@)]
    BY <1>0, <2>2, WireTail
  <2>3. QED
    BY <2>1, <2>2
       DEF InRegister, InLine, InPut, InBye, InError, InErrorLocks, InRaises, InLeave, wires
<1>6. InTypes'
  <2>1. CASE InLine(g)
    <3> DEFINE T == FromGateway(g)
    <3>1. toProxy[g] \in Seq(T) /\ toProxy[g] # <<>>
      BY <1>0, <2>1 DEF WireTypes, InLine
    <3>2. Head(toProxy[g]) \in T
      <4> HIDE DEF T
      <4> QED
        BY <3>1, HeadTailProperties
    <3>3. Head(toProxy[g]) \in PacketsOf(g)
      BY <2>1, <3>2 DEF InLine, IsPacket, FromGateway, Bye, Eof, Reset
    <3>4. QED
      BY <1>0, <2>1, <3>3, HandsKept DEF InLine
  <2>2. CASE InPut(g)
    BY <1>0, <2>2, HandsKept DEF InPut
  <2>3. CASE InRegister(g) \/ InBye(g) \/ InError(g) \/ InErrorLocks(g) \/ InRaises(g) \/ InLeave(g)
    <3>1. inHand' = inHand /\ inThread'[g] \notin {"wait", "charge", "read"}
      BY <1>0, <2>3
         DEF InTypes, InRegister, InBye, InError, InErrorLocks, InRaises, InLeave
    <3>2. \A h \in Gateways : inThread'[h] = IF h = g THEN inThread'[g] ELSE inThread[h]
      BY <1>0, <1>2 DEF InTypes
    <3>3. inThread' = [h \in Gateways |-> inThread'[h]] /\ inHand' = [h \in Gateways |-> inHand'[h]]
      BY <1>0, <1>2, <3>1 DEF InTypes
    <3>4. \A h \in Gateways :
            inThread'[h] \in {"wait", "charge", "read"} => inHand'[h] \in PacketsOf(h)
      BY <1>0, <3>1, <3>2 DEF InTypes
    <3>5. QED
      BY <3>3, <3>4 DEF InTypes
  <2>4. QED
    BY <2>1, <2>2, <2>3
<1>7. QueueTypes'
  <2>1. CASE UNCHANGED queue
    BY <1>0, <2>1 DEF QueueTypes
  <2>2. CASE InPut(g)
    <3>1. inHand[g] \in PacketsOf(g)
      BY <1>0, <2>2 DEF InTypes, InPut
    <3>2. inHand[g] \in Packets /\ inHand[g].to \in Gateways
      BY <3>1, PacketFacts
    <3>3. QED
      BY <1>0, <2>2, <3>2, QueuesAfterPut DEF InPut
  <2>3. CASE PutToOthers(g, Bye) \/ PutToOthers(g, None)
    BY <1>0, <2>3, QueuesAfterPut
  <2>4. CASE Unregister(g[1])
    BY <1>0, <2>4, QueuesAfterTake
  <2>5. QED
    BY <2>1, <2>2, <2>3, <2>4
       DEF InRegister, Register, InLine, InBye, InError, InErrorLocks, InRaises, InLeave, tableVars
<1>8. Types'
  BY <1>0, <1>1, <1>5, <1>6, <1>7 DEF Types, OutTypes, SentTypes, outVars, memVars
<1>9. Accounts' /\ Bounded'
  BY <1>0, <1>1, <1>4, AccountsKept DEF memVars
<1>10. QED
  BY <1>8, <1>9 DEF Inv

\* An out-thread gives back what its packet has, and never charges.
LEMMA OutKeeps ==
  ASSUME Inv, NEW g \in Gateways, OutStep(g)
  PROVE  Inv'
<1>0. WireTypes /\ InTypes /\ QueueTypes /\ OutTypes /\ SentTypes
      /\ memusage \in Int /\ promised \in Int
  BY DEF Inv, Types
<1>1. UNCHANGED <<inVars, sent, toProxy, promised>>
  BY DEF OutStep, OutRegister, OutGet, OutWrite, OutBye, OutRaises, OutReduce, OutLeave,
         gwVars, wires, memVars
<1>2. QueueTypes'
  <2>1. CASE UNCHANGED queue
    BY <1>0, <2>1 DEF QueueTypes
  <2>2. CASE OutGet(g)
    BY <1>0, <2>2, QueuesAfterTake DEF OutGet
  <2>3. CASE OutLeave(g)
    BY <1>0, <2>3, QueuesAfterTake DEF OutLeave
  <2>4. QED
    BY <2>1, <2>2, <2>3
       DEF OutStep, OutRegister, Register, OutWrite, OutBye, OutRaises, OutReduce, tableVars
<1>3. OutTypes'
  <2>1. CASE OutGet(g)
    <3> DEFINE T == Packets \cup {Bye, None}
               item == Head(queue[g])
    <3>1. queue[g] \in Seq(T) /\ queue[g] # <<>>
      BY <1>0, <2>1 DEF QueueTypes, OutGet
    <3>2. item \in T
      <4> HIDE DEF T
      <4> QED
        BY <3>1, HeadTailProperties
    <3>3. \/ /\ outThread' = [outThread EXCEPT ![g] = outThread'[g]]
             /\ outThread'[g] \notin {"write", "reduce"} /\ UNCHANGED outHand
          \/ /\ outThread' = [outThread EXCEPT ![g] = outThread'[g]]
             /\ outThread'[g] \notin {"write", "reduce"}
             /\ outHand' = [outHand EXCEPT ![g] = NoPacket]
          \/ /\ item # Bye /\ item # None
             /\ outThread' = [outThread EXCEPT ![g] = "write"]
             /\ outHand' = [outHand EXCEPT ![g] = item]
      BY <1>0, <2>1 DEF OutGet, OutTypes
    <3> HIDE DEF item
    <3>4. QED
      BY <1>0, <3>2, <3>3 DEF OutTypes
  <2>2. CASE OutWrite(g)
    BY <1>0, <2>2 DEF OutTypes, OutWrite
  <2>3. CASE OutRegister(g) \/ OutBye(g) \/ OutRaises(g) \/ OutReduce(g) \/ OutLeave(g)
    <3>1. /\ outThread' = [outThread EXCEPT ![g] = outThread'[g]]
          /\ outThread'[g] \notin {"write", "reduce"}
      BY <1>0, <2>3
         DEF OutTypes, OutRegister, OutBye, OutRaises, OutReduce, OutLeave
    <3>2. outHand' = outHand \/ outHand' = [outHand EXCEPT ![g] = NoPacket]
      BY <2>3 DEF OutRegister, OutBye, OutRaises, OutReduce, OutLeave
    <3>3. QED
      BY <1>0, <3>1, <3>2 DEF OutTypes
  <2>4. QED
    BY <2>1, <2>2, <2>3 DEF OutStep
<1>4. memusage' \in Int /\ memusage' <= memusage
  <2>1. CASE OutReduce(g)
    <3>1. outHand[g] \in Packets
      BY <1>0, <2>1 DEF OutTypes, OutReduce
    <3>2. outHand[g].len \in Nat
      BY <3>1, AnyPacket
    <3>3. QED
      BY <1>0, <2>1, <3>2 DEF OutReduce
  <2>2. CASE UNCHANGED memusage
    BY <1>0, <2>2
  <2>3. QED
    BY <2>1, <2>2 DEF OutStep, OutRegister, OutGet, OutWrite, OutBye, OutRaises, OutLeave, memVars
<1>5. Types'
  BY <1>0, <1>1, <1>2, <1>3, <1>4 DEF Types, InTypes, WireTypes, SentTypes, inVars
<1>6. Bytes' = Bytes
  BY <1>1, BytesKept DEF inVars
<1>7. Accounts' /\ Bounded'
  BY <1>1, <1>4, <1>6, AccountsKept
<1>8. QED
  BY <1>5, <1>7 DEF Inv

\* The senders can be counted.
LEMMA SendersCounted == Cardinality(Senders) \in Nat /\ Limit \in Int
<1>1. Senders \subseteq Gateways
  BY DEF Senders
<1>2. Cardinality(Senders) \in Nat
  BY <1>1, FiniteGateways, FS_Subset, FS_CardinalityType
<1>3. QED
  BY <1>2, ProxyAssumption DEF Limit

\* An in-thread that passes the test promises to charge its packet: the others
\* have promised no more than their largest packets.
LEMMA CheckKeeps ==
  ASSUME Inv, NEW g \in Gateways, InCheck(g)
  PROVE  Inv'
<1> DEFINE n == inHand[g].size
           own == {g} \X (1 .. n)
<1>0. WireTypes /\ InTypes /\ QueueTypes /\ OutTypes /\ SentTypes
      /\ memusage \in Int /\ promised \in Int
  BY DEF Inv, Types
<1>1. inHand[g] \in PacketsOf(g) /\ inThread[g] = "wait"
  BY <1>0 DEF InCheck, InTypes
<1>2. n \in Nat /\ g \in Senders
  BY <1>1, PacketFacts, ProxyAssumption
<1>3. Types'
  <2>1. inThread' = [inThread EXCEPT ![g] = "charge"] /\ inHand' = [inHand EXCEPT ![g] = inHand[g]]
    BY <1>0 DEF InCheck, InTypes
  <2>2. InTypes'
    BY <1>0, <1>1, <2>1, HandsKept
  <2>3. QED
    BY <1>0, <1>2, <2>2
       DEF InCheck, Types, WireTypes, OutTypes, QueueTypes, SentTypes, wires, outVars, tableVars,
           gwVars
<1>4. promised <= MaxSize * (Cardinality(Senders) - 1) /\ promised \in Nat
  BY <1>1, <1>2, OthersPromised DEF Inv
<1>5. Bytes' = Bytes \cup own /\ Bytes \cap own = {}
  <2>1. \A h \in Gateways : inThread'[h] = (IF h = g THEN "charge" ELSE inThread[h])
    BY <1>0 DEF InCheck, InTypes
  <2>2. inHand' = inHand
    BY DEF InCheck
  <2>3. \A u \in Gateways \X Nat : u \in own <=> u[1] = g /\ u[2] \in 1 .. n
    OBVIOUS
  <2>4. own \subseteq Gateways \X Nat
    OBVIOUS
  <2> HIDE DEF own
  <2>5. ASSUME NEW u \in Gateways \X Nat
        PROVE  u \in Bytes' <=> u \in Bytes \/ u \in own
    BY <1>1, <2>1, <2>2, <2>3 DEF Bytes
  <2>6. Bytes' \subseteq Gateways \X Nat /\ Bytes \subseteq Gateways \X Nat
    BY DEF Bytes
  <2>7. Bytes' = Bytes \cup own
    BY <2>4, <2>5, <2>6
  <2>8. Bytes \cap own = {}
    BY <1>1, <2>3, <2>4, <2>6 DEF Bytes
  <2>9. QED
    BY <2>7, <2>8
<1>6. IsFiniteSet(own) /\ Cardinality(own) = n
  BY <1>2, PacketBytes
<1>7. Accounts'
  <2>1. IsFiniteSet(Bytes) /\ promised = Cardinality(Bytes) /\ Cardinality(Bytes) \in Nat
    BY FS_CardinalityType DEF Inv, Accounts
  <2> HIDE DEF own
  <2>2. /\ IsFiniteSet(Bytes \cup own)
        /\ Cardinality(Bytes \cup own) = Cardinality(Bytes) + Cardinality(own)
             - Cardinality(Bytes \cap own)
    BY <1>6, <2>1, FS_Union
  <2>3. Cardinality({}) = 0
    BY FS_EmptySet
  <2>4. promised' = promised + n
    BY DEF InCheck
  <2> HIDE DEF n
  <2>5. Cardinality(Bytes \cap own) = 0
    BY <1>5, <2>3
  <2>6. Cardinality(Bytes \cup own) = Cardinality(Bytes) + n
    BY <1>2, <1>6, <2>1, <2>2, <2>5
  <2>7. IsFiniteSet(Bytes') /\ Cardinality(Bytes') = Cardinality(Bytes) + n
    BY <1>5, <2>2, <2>6
  <2>8. QED
    BY <2>1, <2>4, <2>7 DEF Accounts
<1>8. Bounded'
  <2>1. memusage + n < MemThreshold /\ memusage' = memusage /\ promised' = promised + n
    BY DEF InCheck
  <2>2. Limit' = Limit
    BY DEF Limit
  <2> DEFINE most == MaxSize * (Cardinality(Senders) - 1)
  <2>3. most \in Int /\ MemThreshold \in Int
    BY SendersCounted, ProxyAssumption
  <2>4. Limit = MemThreshold + most
    BY DEF Limit
  <2> HIDE DEF most, n
  <2>5. memusage + n + promised < MemThreshold + most
    BY <1>0, <1>2, <1>4, <2>1, <2>3 DEF most
  <2>6. QED
    BY <1>0, <1>2, <2>1, <2>2, <2>4, <2>5 DEF Bounded
<1>9. QED
  BY <1>3, <1>7, <1>8 DEF Inv

\* The charge keeps the promise.
LEMMA ChargeKeeps ==
  ASSUME Inv, NEW g \in Gateways, InCharge(g)
  PROVE  Inv'
<1> DEFINE n == inHand[g].size
           own == {g} \X (1 .. n)
<1>0. WireTypes /\ InTypes /\ QueueTypes /\ OutTypes /\ SentTypes
      /\ memusage \in Int /\ promised \in Int
  BY DEF Inv, Types
<1>1. inHand[g] \in PacketsOf(g) /\ inThread[g] = "charge"
  BY <1>0 DEF InCharge, InTypes
<1>2. n \in Nat
  BY <1>1, PacketFacts, ProxyAssumption
<1>3. Types'
  <2>1. inThread' = [inThread EXCEPT ![g] = "read"] /\ inHand' = [inHand EXCEPT ![g] = inHand[g]]
    BY <1>0 DEF InCharge, InTypes
  <2>2. InTypes'
    BY <1>0, <1>1, <2>1, HandsKept
  <2>3. QED
    BY <1>0, <1>2, <2>2
       DEF InCharge, Types, WireTypes, OutTypes, QueueTypes, SentTypes, wires, outVars, tableVars,
           gwVars
<1>4. Bytes' = Bytes \ own /\ own \subseteq Bytes
  <2>1. \A h \in Gateways : inThread'[h] = (IF h = g THEN "read" ELSE inThread[h])
    BY <1>0 DEF InCharge, InTypes
  <2>2. inHand' = inHand
    BY DEF InCharge
  <2>3. \A u \in Gateways \X Nat : u \in own <=> u[1] = g /\ u[2] \in 1 .. n
    OBVIOUS
  <2>4. own \subseteq Gateways \X Nat
    OBVIOUS
  <2> HIDE DEF own
  <2>5. ASSUME NEW u \in Gateways \X Nat
        PROVE  /\ u \in Bytes' <=> u \in Bytes /\ u \notin own
               /\ u \in own => u \in Bytes
    BY <1>1, <2>1, <2>2, <2>3 DEF Bytes
  <2>6. Bytes' \subseteq Gateways \X Nat /\ Bytes \subseteq Gateways \X Nat
    BY DEF Bytes
  <2>7. QED
    BY <2>4, <2>5, <2>6
<1>5. IsFiniteSet(own) /\ Cardinality(own) = n
  BY <1>2, PacketBytes
<1>6. promised' = promised - n /\ memusage' = memusage + n
  BY DEF InCharge
<1>7. Accounts'
  <2>1. IsFiniteSet(Bytes) /\ promised = Cardinality(Bytes) /\ Cardinality(Bytes) \in Nat
    BY FS_CardinalityType DEF Inv, Accounts
  <2> HIDE DEF own
  <2>2. Bytes \cap own = own
    BY <1>4
  <2>3. /\ IsFiniteSet(Bytes \ own)
        /\ Cardinality(Bytes \ own) = Cardinality(Bytes) - Cardinality(Bytes \cap own)
    BY <1>5, <2>1, FS_Difference
  <2>4. QED
    BY <1>2, <1>4, <1>5, <1>6, <2>1, <2>2, <2>3 DEF Accounts
<1>8. Bounded'
  <2>1. Limit' = Limit
    BY DEF Limit
  <2>2. Bounded
    BY DEF Inv
  <2> HIDE DEF n
  <2>3. memusage' + promised' = memusage + promised
    BY <1>0, <1>2, <1>6
  <2>4. QED
    BY <2>1, <2>2, <2>3 DEF Bounded
<1>9. QED
  BY <1>3, <1>7, <1>8 DEF Inv

-----------------------------------------------------------------------------
(* Theorems                                                                *)

LEMMA InvInit == Init => Inv
<1> SUFFICES ASSUME Init
             PROVE  Inv
  OBVIOUS
<1>1. \A g \in Gateways : <<>> \in Seq(FromGateway(g))
  OBVIOUS
<1>2. Types
  BY <1>1 DEF Init, Types, WireTypes, InTypes, OutTypes, QueueTypes, SentTypes
<1>3. Bytes = {}
  BY DEF Init, Bytes
<1>4. Accounts
  BY <1>3, FS_EmptySet DEF Init, Accounts
<1>5. Bounded
  BY DEF Init, Bounded
<1>6. QED
  BY <1>2, <1>4, <1>5 DEF Inv

LEMMA InvNext == Inv /\ [Next]_vars => Inv'
<1> SUFFICES ASSUME Inv, [Next]_vars
             PROVE  Inv'
  OBVIOUS
<1>1. ASSUME NEW g \in Gateways, GatewayStep(g)
      PROVE  Inv'
  BY <1>1, GatewayKeeps
<1>2. ASSUME NEW g \in Gateways, InStep(g)
      PROVE  Inv'
  BY <1>2, InKeeps, CheckKeeps, ChargeKeeps DEF InStep
<1>3. ASSUME NEW g \in Gateways, OutStep(g)
      PROVE  Inv'
  BY <1>3, OutKeeps
<1>4. ASSUME NEW g \in MayCrash, Crash(g)
      PROVE  Inv'
  BY <1>4, GatewayKeeps, ProxyAssumption
<1>5. CASE UNCHANGED vars
  BY <1>5
     DEF vars, gwVars, wires, inVars, outVars, tableVars, memVars, Inv, Types, WireTypes, InTypes,
         OutTypes, QueueTypes, SentTypes, Accounts, Bounded, Bytes, Limit
<1>6. QED
  BY <1>1, <1>2, <1>3, <1>4, <1>5 DEF Next

\* In-threads test the memory of dcmpiproxy and charge it in two critical
\* sections, so that several of them pass the test on the same room.  Whatever
\* they do, the threshold is exceeded by less than the largest packet of all
\* gateways that send but one.
THEOREM Overshoot == Spec => []OvershootBounded
<1>1. Inv => OvershootBounded
  <2> SUFFICES ASSUME Inv, memusage > 0
               PROVE  memusage < Limit
    BY DEF OvershootBounded, Limit
  <2>1. promised \in Nat
    BY FS_CardinalityType DEF Inv, Accounts
  <2>2. memusage \in Int /\ Bounded
    BY DEF Inv, Types
  <2>3. QED
    BY <2>1, <2>2, SendersCounted DEF Bounded
<1>2. QED
  BY <1>1, InvInit, InvNext, PTL DEF Spec

-----------------------------------------------------------------------------
(* Cookies                                                                 *)

\* The threads that serve a job, two for every gateway, and where they are.
ThreadsOf(j) == ({j} \X (0 .. NumClusters - 1)) \X {"in", "out"}
StateOf(t)   == IF t[2] = "in" THEN inThread[t[1]] ELSE outThread[t[1]]
EndedOf(j)   == {t \in ThreadsOf(j) : StateOf(t) = "ended"}
Started(j)   == \E t \in ThreadsOf(j) : StateOf(t) # "hello"

\* The count of a cookie says how many of its threads have not ended.
CookieInv ==
  /\ users = [j \in Jobs |-> users[j]]
  /\ \A j \in Jobs :
       /\ users[j] \in Nat
       /\ j \in known <=> Started(j) /\ EndedOf(j) # ThreadsOf(j)
       /\ j \in known => users[j] = 2 * NumClusters - Cardinality(EndedOf(j))

-----------------------------------------------------------------------------
(* Where a packet is                                                       *)

Holds(s, p) == \E k \in 1 .. Len(s) : s[k] = p

OnWire(p)   == Holds(toProxy[p.from], p)
InHands(p)  == inHand[p.from] = p
Queued(p)   == Holds(queue[p.to], p)
Taken(p)    == outHand[p.to] = p
OnLine(p)   == Holds(toGateway[p.to], p)
Received(p) == Holds(got[p.to], p)

\* A packet is at one place, but while its out-thread gives back its memory.
OncePlaced(p) ==
  /\ ~(OnWire(p) /\ (InHands(p) \/ Queued(p) \/ Taken(p) \/ OnLine(p) \/ Received(p)))
  /\ ~(InHands(p) /\ (Queued(p) \/ Taken(p) \/ OnLine(p) \/ Received(p)))
  /\ ~(Queued(p) /\ (Taken(p) \/ OnLine(p) \/ Received(p)))
  /\ ~(Taken(p) /\ outThread[p.to] = "write" /\ (OnLine(p) \/ Received(p)))
  /\ ~(OnLine(p) /\ Received(p))

Somewhere(p) == OnWire(p) \/ InHands(p) \/ Queued(p) \/ Taken(p) \/ OnLine(p) \/ Received(p)

\* gateways that have died before they could say "bye"
Broken == {g \in dead : gateway[g] \in {"loop", "left"}}

\* A packet has been written, or was being written when its gateway died.
Written(p) == /\ p.n <= sent[p.from] \/ p.from \in Broken
              /\ IsCut(p) => p.from \in Broken

PacketInv == \A p \in Packets : OncePlaced(p) /\ (Somewhere(p) => Written(p))

\* The packets of a sequence are different, and all for gateway g.
NoRepeat(s) == \A k, l \in 1 .. Len(s) : IsPacket(s[k]) /\ k # l => s[k] # s[l]
AllFor(s, g) == \A k \in 1 .. Len(s) : IsPacket(s[k]) => s[k].to = g

LinesInv ==
  \A g \in Gateways :
    /\ NoRepeat(toProxy[g]) /\ NoRepeat(queue[g]) /\ NoRepeat(toGateway[g]) /\ NoRepeat(got[g])
    /\ AllFor(queue[g], g) /\ AllFor(toGateway[g], g) /\ AllFor(got[g], g)
    /\ outHand[g] # NoPacket => outHand[g].to = g

-----------------------------------------------------------------------------
(* How a gateway ends                                                      *)

\* Only the last message of a connection to the proxy is not a packet.
Closed(s) == \A k \in 1 .. Len(s) : ~IsPacket(s[k]) => k = Len(s)

\* After it nothing comes.
WireEnds(g) ==
  /\ Closed(toProxy[g])
  /\ Holds(toProxy[g], Bye) => gateway[g] \in {"joined", "ended"}
  /\ Holds(toProxy[g], Eof) \/ Holds(toProxy[g], Reset) => g \in Broken
  /\ inThread[g] \in {"leave", "ended"} =>
       /\ toProxy[g] = <<>>
       /\ gateway[g] \in {"joined", "ended"} \/ (mutexHeld /\ inThread[g] = "leave" /\ g \in Broken)
  /\ inThread[g] = "error" => toProxy[g] = <<>> /\ g \in Broken
  /\ gateway[g] \in {"left", "joined", "ended"} => Len(got[g]) = Expected[g]
  /\ g \in dead => toGateway[g] = <<>>
EndInv == \A g \in Gateways : WireEnds(g)

\* no gateway that would have sent to g has died too early
Sound(g) == \A h \in Peers(g) : h \notin Broken

Told(a)    == inThread[a] \in {"leave", "ended"}
HeardOf(g) == {a \in Peers(g) : Told(a)}

\* the "bye"s of a sequence, up to the element before the k-th
Byes(s, k) == Cardinality({i \in 1 .. k - 1 : s[i] = Bye})

\* Every peer that has told is one "bye", counted or in the queue; the last of
\* them is behind all packets.
ByesOf(g) ==
  /\ byes[g] + Byes(queue[g], Len(queue[g]) + 1) = Cardinality(HeardOf(g))
  /\ \A k \in 1 .. Len(queue[g]) :
       IsPacket(queue[g][k]) => byes[g] + Byes(queue[g], k) < NumClusters - 1
  /\ outThread[g] \in {"bye", "leave", "ended"} => byes[g] = NumClusters - 1
  /\ ~Holds(queue[g], None)

ByeInv == \A g \in Gateways : Sound(g) => ByesOf(g)

\* The end of the connection to a gateway comes last, and after "bye".
LineOf(g) ==
  /\ Holds(toGateway[g], Eof) => outThread[g] = "ended" /\ g \notin dead
  /\ \A k \in 1 .. Len(toGateway[g]) : toGateway[g][k] = Eof => k = Len(toGateway[g])
  /\ Sound(g) /\ g \notin dead /\ outThread[g] \in {"leave", "ended"} =>
       byeRead[g] \/ Holds(toGateway[g], Bye)
LineEnds == \A g \in Gateways : LineOf(g)

-----------------------------------------------------------------------------
(* What is charged                                                         *)

Charged(p) == Queued(p) \/ (InHands(p) /\ inThread[p.from] = "read") \/ Taken(p)
Held == {u \in Packets \X Nat : Charged(u[1]) /\ u[2] \in 1 .. u[1].len}
Clean == Broken = {} /\ \A g \in Gateways : outThread[g] # "raised"
MemoryInv ==
  /\ IsFiniteSet(Held)
  /\ memusage >= Cardinality(Held)
  /\ Clean => memusage = Cardinality(Held)

-----------------------------------------------------------------------------
(* Sequences                                                               *)

\* What a sequence holds when an element is added to it.
LEMMA AppendHolds ==
  ASSUME NEW S, NEW s \in Seq(S), NEW m \in S
  PROVE  \A p : Holds(Append(s, m), p) <=> Holds(s, p) \/ p = m
<1>1. /\ Len(s) \in Nat /\ Len(Append(s, m)) = Len(s) + 1
      /\ \A i \in 1 .. Len(s) : Append(s, m)[i] = s[i]
      /\ Append(s, m)[Len(s) + 1] = m
  BY AppendProperties, LenProperties
<1>2. QED
  BY ONLY <1>1 DEF Holds

\* What it holds when its first element is taken.
LEMMA TailHolds ==
  ASSUME NEW S, NEW s \in Seq(S), s # <<>>
  PROVE  \A p : Holds(s, p) <=> Holds(Tail(s), p) \/ p = Head(s)
<1>1. /\ Len(s) \in Nat \ {0} /\ Len(Tail(s)) = Len(s) - 1
      /\ \A i \in 1 .. Len(Tail(s)) : Tail(s)[i] = s[i + 1]
      /\ Head(s) = s[1]
  BY HeadTailProperties, LenProperties
<1>2. ASSUME NEW p, NEW k \in 1 .. Len(s), s[k] = p
      PROVE  Holds(Tail(s), p) \/ p = Head(s)
  <2>1. CASE k = 1
    BY <1>1, <1>2, <2>1
  <2>2. CASE k # 1
    <3>1. PICK i : i = k - 1
      OBVIOUS
    <3>2. i \in 1 .. Len(Tail(s)) /\ Tail(s)[i] = p
      BY <1>1, <1>2, <2>2, <3>1
    <3>3. QED
      BY <3>2 DEF Holds
  <2>3. QED
    BY <2>1, <2>2
<1>3. ASSUME NEW p, NEW i \in 1 .. Len(Tail(s)), Tail(s)[i] = p
      PROVE  Holds(s, p)
  <2>1. i + 1 \in 1 .. Len(s) /\ s[i + 1] = p
    BY <1>1, <1>3
  <2>2. QED
    BY <2>1 DEF Holds
<1>4. \A p : Holds(s, p) => Holds(Tail(s), p) \/ p = Head(s)
  BY <1>2 DEF Holds
<1>5. \A p : Holds(Tail(s), p) => Holds(s, p)
  BY <1>3 DEF Holds
<1>6. Holds(s, Head(s))
  BY <1>1 DEF Holds
<1>7. QED
  BY <1>4, <1>5, <1>6

\* The empty sequence holds nothing.
LEMMA NothingHeld == \A p : ~Holds(<<>>, p)
  BY DEF Holds

\* The packets of a sequence stay different when a new one is added ...
LEMMA AppendApart ==
  ASSUME NEW S, NEW s \in Seq(S), NEW m \in S, NoRepeat(s),
         IsPacket(m) => ~Holds(s, m)
  PROVE  NoRepeat(Append(s, m))
<1>1. /\ Len(s) \in Nat /\ Len(Append(s, m)) = Len(s) + 1
      /\ \A i \in 1 .. Len(s) : Append(s, m)[i] = s[i]
      /\ Append(s, m)[Len(s) + 1] = m
  BY AppendProperties, LenProperties
<1> DEFINE t == Append(s, m)
<1>2. PICK n : n = Len(s)
  OBVIOUS
<1>3. n \in Nat /\ Len(t) = n + 1 /\ (\A i \in 1 .. n : t[i] = s[i]) /\ t[n + 1] = m
  BY <1>1, <1>2
<1> HIDE DEF t
<1>4. SUFFICES ASSUME NEW k \in 1 .. Len(t), NEW l \in 1 .. Len(t), IsPacket(t[k]), k # l
               PROVE  t[k] # t[l]
  BY DEF NoRepeat, t
<1>5. \A i \in 1 .. n : IsPacket(s[i]) => s[i] # m
  BY <1>2 DEF Holds
<1>6. CASE k \in 1 .. n /\ l \in 1 .. n
  BY <1>2, <1>3, <1>4, <1>6 DEF NoRepeat
<1>7. CASE k = n + 1
  <2>1. l \in 1 .. n
    BY <1>3, <1>4, <1>7
  <2>2. QED
    BY <1>3, <1>4, <1>5, <1>7, <2>1
<1>8. CASE k \in 1 .. n /\ l = n + 1
  BY <1>3, <1>4, <1>5, <1>8
<1>9. QED
  BY <1>3, <1>6, <1>7, <1>8

\* ... and when the first one is taken, which is not in the rest.
LEMMA TailApart ==
  ASSUME NEW S, NEW s \in Seq(S), s # <<>>, NoRepeat(s)
  PROVE  NoRepeat(Tail(s)) /\ (IsPacket(Head(s)) => ~Holds(Tail(s), Head(s)))
<1>1. /\ Len(s) \in Nat \ {0} /\ Len(Tail(s)) = Len(s) - 1
      /\ \A i \in 1 .. Len(Tail(s)) : Tail(s)[i] = s[i + 1]
      /\ Head(s) = s[1]
  BY HeadTailProperties, LenProperties
<1>2. \A i \in 1 .. Len(Tail(s)) : i + 1 \in 1 .. Len(s) /\ i + 1 # 1 /\ 1 \in 1 .. Len(s)
  BY <1>1
<1>3. NoRepeat(Tail(s))
  <2> SUFFICES ASSUME NEW k \in 1 .. Len(Tail(s)), NEW l \in 1 .. Len(Tail(s)),
                      IsPacket(Tail(s)[k]), k # l
               PROVE  Tail(s)[k] # Tail(s)[l]
    BY DEF NoRepeat
  <2>1. PICK k1, l1 : k1 = k + 1 /\ l1 = l + 1
    OBVIOUS
  <2>2. k1 # l1 /\ Tail(s)[k] = s[k1] /\ Tail(s)[l] = s[l1]
        /\ k1 \in 1 .. Len(s) /\ l1 \in 1 .. Len(s)
    BY <1>1, <1>2, <2>1
  <2>3. QED
    BY <2>2 DEF NoRepeat
<1>4. ASSUME IsPacket(Head(s)), NEW i \in 1 .. Len(Tail(s)), Tail(s)[i] = Head(s)
      PROVE  FALSE
  <2>1. PICK k : k = i + 1
    OBVIOUS
  <2>2. k \in 1 .. Len(s) /\ 1 \in 1 .. Len(s) /\ k # 1 /\ s[k] = s[1] /\ IsPacket(s[1])
    BY <1>1, <1>2, <1>4, <2>1
  <2>3. QED
    BY <2>2 DEF NoRepeat
<1>5. QED
  BY <1>3, <1>4 DEF Holds

\* All packets of a sequence stay for one gateway.
LEMMA AppendAllFor ==
  ASSUME NEW S, NEW s \in Seq(S), NEW m \in S, NEW g, AllFor(s, g), IsPacket(m) => m.to = g
  PROVE  AllFor(Append(s, m), g)
<1>1. /\ Len(s) \in Nat /\ Len(Append(s, m)) = Len(s) + 1
      /\ \A i \in 1 .. Len(s) : Append(s, m)[i] = s[i]
      /\ Append(s, m)[Len(s) + 1] = m
  BY AppendProperties, LenProperties
<1>2. QED
  BY <1>1 DEF AllFor

LEMMA TailAllFor ==
  ASSUME NEW S, NEW s \in Seq(S), s # <<>>, NEW g, AllFor(s, g)
  PROVE  AllFor(Tail(s), g) /\ (IsPacket(Head(s)) => Head(s).to = g)
<1>1. /\ Len(s) \in Nat \ {0} /\ Len(Tail(s)) = Len(s) - 1
      /\ \A i \in 1 .. Len(Tail(s)) : Tail(s)[i] = s[i + 1]
      /\ Head(s) = s[1]
  BY HeadTailProperties, LenProperties
<1>2. \A i \in 1 .. Len(Tail(s)) : i + 1 \in 1 .. Len(s)
  BY <1>1
<1>3. 1 \in 1 .. Len(s)
  BY <1>1
<1>4. ASSUME NEW i \in 1 .. Len(Tail(s)), IsPacket(Tail(s)[i])
      PROVE  Tail(s)[i].to = g
  <2>1. PICK k : k = i + 1
    OBVIOUS
  <2>2. k \in 1 .. Len(s) /\ Tail(s)[i] = s[k]
    BY <1>1, <1>2, <2>1
  <2>3. QED
    BY <1>4, <2>2 DEF AllFor
<1>5. IsPacket(Head(s)) => Head(s).to = g
  BY <1>1, <1>3 DEF AllFor
<1>6. QED
  BY <1>4, <1>5 DEF AllFor

\* In the empty sequence all of this holds.
LEMMA EmptyApart == NoRepeat(<<>>) /\ (\A g : AllFor(<<>>, g))
  BY DEF NoRepeat, AllFor

\* To add two elements is to add one and then the other.
LEMMA AppendTwo ==
  ASSUME NEW S, NEW s \in Seq(S), NEW a \in S, NEW b \in S
  PROVE  s \o <<a, b>> = Append(Append(s, a), b)
<1>1. <<a>> \in Seq(S) /\ <<b>> \in Seq(S) /\ <<a>> \o <<b>> = <<a, b>>
  <2>1. <<a>> \in Seq(S) /\ <<b>> \in Seq(S) /\ <<a, b>> \in Seq(S)
        /\ Len(<<a>>) = 1 /\ Len(<<b>>) = 1 /\ Len(<<a, b>>) = 2
    OBVIOUS
  <2>2. /\ <<a>> \o <<b>> \in Seq(S) /\ Len(<<a>> \o <<b>>) = 2
        /\ \A i \in 1 .. 2 : (<<a>> \o <<b>>)[i] = IF i <= 1 THEN <<a>>[i] ELSE <<b>>[i - 1]
    BY <2>1, ConcatProperties
  <2>3. \A i \in 1 .. 2 : (<<a>> \o <<b>>)[i] = <<a, b>>[i]
    BY <2>2
  <2>4. QED
    BY <2>1, <2>2, <2>3, SeqEqual
<1>2. Append(s, a) = s \o <<a>> /\ s \o <<a>> \in Seq(S)
  BY <1>1, AppendIsConcat, ConcatProperties
<1>3. Append(s \o <<a>>, b) = (s \o <<a>>) \o <<b>>
  BY <1>2, AppendIsConcat
<1>4. (s \o <<a>>) \o <<b>> = s \o (<<a>> \o <<b>>)
  BY <1>1, ConcatAssociative
<1>5. QED
  BY <1>1, <1>2, <1>3, <1>4

-----------------------------------------------------------------------------
(* Types                                                                   *)

GatewayTypes ==
  /\ gateway \in [Gateways -> {"loop", "left", "joined", "ended"}] /\ dead \subseteq Gateways
  /\ byeRead \in [Gateways -> BOOLEAN]
  /\ got \in [Gateways -> Seq(Packets)]
  /\ toGateway \in [Gateways -> Seq(Packets \cup {Bye, Eof})]
ThreadTypes ==
  /\ inThread \in [Gateways -> ThreadStates] /\ outThread \in [Gateways -> ThreadStates]
  /\ \A g \in Gateways : inHand[g] \in PacketsOf(g) \cup {NoPacket}
  /\ outHand \in [Gateways -> Packets \cup {NoPacket}]
  /\ \A g \in Gateways :
       /\ inThread[g] \in {"wait", "charge", "read"} <=> inHand[g] # NoPacket
       /\ outThread[g] \in {"write", "reduce"} <=> outHand[g] # NoPacket
TableTypes == byes \in [Gateways -> Nat] /\ known \subseteq Jobs /\ mutexHeld \in BOOLEAN

\* With the count of the cookies this is TypeOK.
AllTypes == Inv /\ GatewayTypes /\ ThreadTypes /\ TableTypes

\* A packet is no other message, and no empty hand.
LEMMA PacketIsOther ==
  \A p \in Packets : /\ p # NoPacket /\ p # Bye /\ p # Eof /\ p # Reset /\ p # None
                     /\ IsPacket(p)
<1>1. \A p \in Packets : p.kind = "packet"
  BY AnyPacket
<1>2. QED
  BY <1>1 DEF NoPacket, Bye, Eof, Reset, None, IsPacket

\* The other messages are different and no packets.
LEMMA OthersAreOther ==
  /\ ~IsPacket(Bye) /\ ~IsPacket(Eof) /\ ~IsPacket(Reset) /\ ~IsPacket(None)
  /\ Bye # Eof /\ Bye # Reset /\ Bye # None /\ Eof # Reset /\ Eof # None /\ None # NoPacket
  /\ Bye # NoPacket
  BY DEF NoPacket, Bye, Eof, Reset, None, IsPacket

\* What a gateway writes is a packet.
LEMMA OwnPackets == \A g \in Gateways : PacketsOf(g) \subseteq Packets
  BY DEF Packets

\* A gateway's cookie is that of a job.
LEMMA GatewaysAreOfJobs == \A g \in Gateways : g[1] \in Jobs
  BY DEF Gateways

\* What gateways do.
LEMMA GatewayTypesKept ==
  ASSUME AllTypes, NEW g \in Gateways, GatewayStep(g) \/ Crash(g)
  PROVE  GatewayTypes' /\ ThreadTypes' /\ TableTypes'
<1> DEFINE T == Packets \cup {Bye, Eof}
<1>0. GatewayTypes /\ ThreadTypes /\ TableTypes
  BY DEF AllTypes
<1>1. UNCHANGED <<inVars, outVars, tableVars, memVars>>
  BY DEF GatewayStep, GatewayWrite, GatewayRead, GatewayLeave, GatewayBye, GatewayCleanup,
         GatewayAbort, Crash, Die
<1>2. ThreadTypes' /\ TableTypes'
  BY <1>0, <1>1 DEF ThreadTypes, TableTypes, inVars, outVars, tableVars
<1>3. toGateway \in [Gateways -> Seq(T)]
  BY <1>0 DEF GatewayTypes
<1>4. ASSUME toGateway[g] # <<>>
      PROVE  Head(toGateway[g]) \in T /\ Tail(toGateway[g]) \in Seq(T)
  <2> HIDE DEF T
  <2>1. toGateway[g] \in Seq(T)
    BY <1>3
  <2>2. QED
    BY <1>4, <2>1, HeadTailProperties
<1>5. CASE GatewayRead(g)
  <2>1. CASE Head(toGateway[g]) = Bye
    BY <1>0, <1>2, <1>4, <1>5, <2>1 DEF GatewayRead, GatewayTypes
  <2>2. CASE Head(toGateway[g]) # Bye
    <3>1. Head(toGateway[g]) \in Packets
      BY <1>4, <1>5, <2>2 DEF GatewayRead
    <3>2. got[g] \in Seq(Packets)
      BY <1>0 DEF GatewayTypes
    <3>3. Append(got[g], Head(toGateway[g])) \in Seq(Packets)
      BY <3>1, <3>2, AppendProperties
    <3>4. toGateway' \in [Gateways -> Seq(T)]
      <4>1. toGateway' = [toGateway EXCEPT ![g] = Tail(toGateway[g])]
        BY <1>5 DEF GatewayRead
      <4>2. Tail(toGateway[g]) \in Seq(T)
        BY <1>4, <1>5 DEF GatewayRead
      <4> HIDE DEF T
      <4>3. QED
        BY <1>3, <4>1, <4>2
    <3>5. got' \in [Gateways -> Seq(Packets)]
      <4>1. got' = [got EXCEPT ![g] = Append(got[g], Head(toGateway[g]))]
        BY <1>5, <2>2 DEF GatewayRead
      <4>2. got \in [Gateways -> Seq(Packets)]
        BY <1>0 DEF GatewayTypes
      <4>3. QED
        BY <3>3, <4>1, <4>2
    <3>6. QED
      BY <1>0, <1>2, <1>5, <2>2, <3>4, <3>5 DEF GatewayRead, GatewayTypes
  <2>3. QED
    BY <2>1, <2>2
<1>6. CASE GatewayCleanup(g)
  <2>1. toGateway' = toGateway
        \/ (toGateway' = [toGateway EXCEPT ![g] = Tail(toGateway[g])] /\ toGateway[g] # <<>>)
    BY <1>6 DEF GatewayCleanup
  <2>2. toGateway' \in [Gateways -> Seq(T)]
    <3>1. ASSUME toGateway[g] # <<>>
          PROVE  Tail(toGateway[g]) \in Seq(T)
      BY <1>4, <3>1
    <3> HIDE DEF T
    <3>2. QED
      BY <1>3, <2>1, <3>1
  <2>3. gateway' = [gateway EXCEPT ![g] = "ended"] /\ dead' = dead /\ got' = got
    BY <1>6 DEF GatewayCleanup
  <2>4. byeRead' = byeRead \/ byeRead' = [byeRead EXCEPT ![g] = TRUE]
    BY <1>6 DEF GatewayCleanup
  <2>5. QED
    BY <1>0, <1>2, <2>2, <2>3, <2>4 DEF GatewayTypes
<1>7. CASE Die(g)
  <2>1. <<>> \in Seq(T)
    OBVIOUS
  <2>2. toGateway' \in [Gateways -> Seq(T)]
    <3>1. toGateway' = [toGateway EXCEPT ![g] = <<>>]
      BY <1>7 DEF Die
    <3> HIDE DEF T
    <3>2. QED
      BY <1>3, <2>1, <3>1
  <2>3. dead' = dead \cup {g} /\ UNCHANGED <<gateway, byeRead, got>>
    BY <1>7 DEF Die
  <2>4. QED
    BY <1>0, <1>2, <2>2, <2>3 DEF GatewayTypes
<1>8. CASE GatewayWrite(g) \/ GatewayLeave(g) \/ GatewayBye(g)
  <2>1. UNCHANGED <<dead, byeRead, got, toGateway>>
    BY <1>8 DEF GatewayWrite, GatewayLeave, GatewayBye, wires
  <2>2. \/ gateway' = gateway
        \/ gateway' = [gateway EXCEPT ![g] = "left"]
        \/ gateway' = [gateway EXCEPT ![g] = "joined"]
    BY <1>8 DEF GatewayWrite, GatewayLeave, GatewayBye
  <2>3. QED
    BY <1>0, <1>2, <2>1, <2>2 DEF GatewayTypes
<1>9. QED
  BY <1>5, <1>6, <1>7, <1>8 DEF GatewayStep, GatewayAbort, Crash

\* A thread gets to a state, with what it has in its hand.
InMoves(g, state, hand) ==
  /\ inThread' = [inThread EXCEPT ![g] = state] /\ state \in ThreadStates
  /\ inHand' = [inHand EXCEPT ![g] = hand] /\ hand \in PacketsOf(g) \cup {NoPacket}
  /\ state \in {"wait", "charge", "read"} <=> hand # NoPacket
OutMoves(g, state, hand) ==
  /\ outThread' = [outThread EXCEPT ![g] = state] /\ state \in ThreadStates
  /\ outHand' = [outHand EXCEPT ![g] = hand] /\ hand \in Packets \cup {NoPacket}
  /\ state \in {"write", "reduce"} <=> hand # NoPacket

\* What in-threads do.
LEMMA InTypesKept ==
  ASSUME AllTypes, NEW g \in Gateways, InStep(g)
  PROVE  GatewayTypes' /\ ThreadTypes' /\ TableTypes'
<1>0. GatewayTypes /\ ThreadTypes /\ TableTypes /\ WireTypes /\ InTypes
  BY DEF AllTypes, Inv, Types
<1>1. UNCHANGED <<gateway, dead, byeRead, got, toGateway, outVars>>
  BY DEF InStep, InRegister, InLine, InCheck, InCharge, InPut, InBye, InError, InErrorLocks,
         InRaises, InLeave, gwVars, wires, outVars
<1>2. GatewayTypes'
  BY <1>0, <1>1 DEF GatewayTypes
<1>3. g[1] \in Jobs
  BY GatewaysAreOfJobs
<1>4. TableTypes'
  <2>1. known' = known \/ known' = known \cup {g[1]} \/ known' = known \ {g[1]}
    BY DEF InStep, InRegister, Register, InLine, InCheck, InCharge, InPut, InBye, InError,
           InErrorLocks, InRaises, InLeave, Unregister, tableVars
  <2>2. mutexHeld' = mutexHeld \/ mutexHeld' = TRUE
    BY DEF InStep, InRegister, Register, InLine, InCheck, InCharge, InPut, InBye, InError,
           InErrorLocks, InRaises, InLeave, Unregister, tableVars
  <2>3. QED
    BY <1>0, <1>1, <1>3, <2>1, <2>2 DEF TableTypes, outVars
<1>5. ASSUME toProxy[g] # <<>>, IsPacket(Head(toProxy[g]))
      PROVE  Head(toProxy[g]) \in PacketsOf(g)
  <2> DEFINE T == FromGateway(g)
  <2>1. toProxy[g] \in Seq(T)
    BY <1>0 DEF WireTypes
  <2>2. Head(toProxy[g]) \in T
    <3> HIDE DEF T
    <3>1. QED
      BY <1>5, <2>1, HeadTailProperties
  <2>3. QED
    BY <1>5, <2>2, OthersAreOther DEF FromGateway
<1>6. \A h \in Gateways : \A p \in PacketsOf(h) : p # NoPacket
  BY PacketIsOther, OwnPackets
<1>7. PICK state, hand : InMoves(g, state, hand)
  <2>1. CASE InLine(g)
    <3>1. InMoves(g, "wait", Head(toProxy[g]))
      BY <1>5, <1>6, <2>1 DEF InLine, ThreadStates, InMoves
    <3>2. QED
      BY <3>1
  <2>2. CASE InPut(g)
    <3>1. InMoves(g, "line", NoPacket)
      BY <2>2 DEF InPut, ThreadStates, InMoves
    <3>2. QED
      BY <3>1
  <2>3. CASE InCheck(g) \/ InCharge(g)
    <3>1. inHand' = [inHand EXCEPT ![g] = inHand[g]]
      BY <1>0, <2>3 DEF InCheck, InCharge, InTypes
    <3>2. inHand[g] \in PacketsOf(g) \cup {NoPacket} /\ inHand[g] # NoPacket
      BY <1>0, <2>3 DEF InCheck, InCharge, ThreadTypes
    <3>3. inThread' = [inThread EXCEPT ![g] = "charge"] \/ inThread' = [inThread EXCEPT ![g] = "read"]
      BY <2>3 DEF InCheck, InCharge
    <3>4. InMoves(g, "charge", inHand[g]) \/ InMoves(g, "read", inHand[g])
      BY <3>1, <3>2, <3>3 DEF ThreadStates, InMoves
    <3>5. QED
      BY <3>4
  <2>4. CASE InRegister(g) \/ InBye(g) \/ InError(g) \/ InErrorLocks(g) \/ InRaises(g) \/ InLeave(g)
    <3>1. inHand' = [inHand EXCEPT ![g] = inHand[g]]
      BY <1>0, <2>4
         DEF InRegister, InBye, InError, InErrorLocks, InRaises, InLeave, InTypes
    <3>2. inHand[g] = NoPacket
      BY <1>0, <2>4
         DEF InRegister, InBye, InError, InErrorLocks, InRaises, InLeave, ThreadTypes
    <3>3. PICK state \in {"line", "error", "leave", "raised", "ended"} :
            inThread' = [inThread EXCEPT ![g] = state]
      BY <2>4 DEF InRegister, InBye, InError, InErrorLocks, InRaises, InLeave
    <3>4. InMoves(g, state, NoPacket)
      BY <3>1, <3>2, <3>3 DEF ThreadStates, InMoves
    <3>5. QED
      BY <3>4
  <2>5. QED
    BY <2>1, <2>2, <2>3, <2>4 DEF InStep
<1>8. \A h \in Gateways : /\ inThread'[h] = (IF h = g THEN state ELSE inThread[h])
                          /\ inHand'[h] = (IF h = g THEN hand ELSE inHand[h])
  BY <1>0, <1>7 DEF InTypes, InMoves
<1>9. inThread' \in [Gateways -> ThreadStates]
  BY <1>0, <1>7 DEF ThreadTypes, InMoves
<1>10. ThreadTypes'
  BY <1>0, <1>1, <1>7, <1>8, <1>9 DEF ThreadTypes, outVars, InMoves
<1>11. QED
  BY <1>2, <1>4, <1>10

\* What out-threads do.
LEMMA OutTypesKept ==
  ASSUME AllTypes, NEW g \in Gateways, OutStep(g)
  PROVE  GatewayTypes' /\ ThreadTypes' /\ TableTypes'
<1> DEFINE T == Packets \cup {Bye, Eof}
<1>0. GatewayTypes /\ ThreadTypes /\ TableTypes /\ QueueTypes
  BY DEF AllTypes, Inv, Types
<1>1. UNCHANGED <<gateway, dead, byeRead, got, inVars>>
  BY DEF OutStep, OutRegister, OutGet, OutWrite, OutBye, OutRaises, OutReduce, OutLeave,
         gwVars, inVars
<1>2. toGateway' = toGateway
      \/ (\E m \in T : toGateway' = [toGateway EXCEPT ![g] = Append(toGateway[g], m)])
  <2>1. CASE OutWrite(g)
    <3>1. outHand[g] \in Packets
      BY <1>0, <2>1 DEF OutWrite, ThreadTypes
    <3>2. QED
      BY <2>1, <3>1 DEF OutWrite, OutWire
  <2>2. CASE OutBye(g)
    BY <2>2 DEF OutBye, OutWire
  <2>3. CASE OutLeave(g)
    BY <2>3 DEF OutLeave
  <2>4. QED
    BY <2>1, <2>2, <2>3 DEF OutStep, OutRegister, OutGet, OutRaises, OutReduce, wires
<1>3. toGateway' \in [Gateways -> Seq(T)]
  <2>1. toGateway \in [Gateways -> Seq(T)]
    BY <1>0 DEF GatewayTypes
  <2> HIDE DEF T
  <2>2. CASE toGateway' = toGateway
    BY <2>1, <2>2
  <2>3. ASSUME NEW m \in T, toGateway' = [toGateway EXCEPT ![g] = Append(toGateway[g], m)]
        PROVE  toGateway' \in [Gateways -> Seq(T)]
    <3>1. Append(toGateway[g], m) \in Seq(T)
      BY <2>1, AppendProperties
    <3>2. QED
      BY <2>1, <2>3, <3>1
  <2>4. QED
    BY <1>2, <2>2, <2>3
<1>4. GatewayTypes'
  BY <1>0, <1>1, <1>3 DEF GatewayTypes
<1>5. g[1] \in Jobs
  BY GatewaysAreOfJobs
<1>6. TableTypes'
  <2>1. known' = known \/ known' = known \cup {g[1]} \/ known' = known \ {g[1]}
    BY DEF OutStep, OutRegister, Register, OutGet, OutWrite, OutBye, OutRaises, OutReduce, OutLeave,
           Unregister, tableVars
  <2>2. mutexHeld' = mutexHeld
    BY DEF OutStep, OutRegister, Register, OutGet, OutWrite, OutBye, OutRaises, OutReduce, OutLeave,
           Unregister, tableVars
  <2>3. byes' = byes \/ byes' = [byes EXCEPT ![g] = @ + 1]
    BY DEF OutStep, OutRegister, OutGet, OutWrite, OutBye, OutRaises, OutReduce, OutLeave, outVars
  <2>4. QED
    BY <1>0, <1>5, <2>1, <2>2, <2>3 DEF TableTypes
<1>7. PICK state, hand : OutMoves(g, state, hand)
  <2>1. CASE OutGet(g)
    <3> DEFINE U == Packets \cup {Bye, None}
               item == Head(queue[g])
    <3>1. queue[g] \in Seq(U) /\ queue[g] # <<>>
      BY <1>0, <2>1 DEF QueueTypes, OutGet
    <3>2. item \in U
      <4> HIDE DEF U
      <4> QED
        BY <3>1, HeadTailProperties
    <3>3. outHand[g] = NoPacket /\ outHand = [outHand EXCEPT ![g] = outHand[g]]
      BY <1>0, <2>1 DEF OutGet, ThreadTypes
    <3>4. CASE item = Bye
      <4>1. outHand' = [outHand EXCEPT ![g] = NoPacket]
        BY <2>1, <3>3, <3>4 DEF OutGet
      <4>2. outThread' = [outThread EXCEPT ![g] = "bye"] \/ outThread' = [outThread EXCEPT ![g] = "get"]
        BY <2>1, <3>4 DEF OutGet
      <4>3. OutMoves(g, "bye", NoPacket) \/ OutMoves(g, "get", NoPacket)
        BY <4>1, <4>2 DEF OutMoves, ThreadStates
      <4>4. QED
        BY <4>3
    <3>5. CASE item # Bye /\ item # None /\ item.len > 0
      <4>1. item \in Packets /\ item # NoPacket
        BY <3>2, <3>5, PacketIsOther
      <4>2. OutMoves(g, "write", item)
        BY <2>1, <3>5, <4>1 DEF OutGet, OutMoves, ThreadStates
      <4>3. QED
        BY <4>2
    <3>6. CASE item # Bye /\ ~(item # None /\ item.len > 0)
      <4>1. OutMoves(g, "leave", NoPacket)
        BY <2>1, <3>6 DEF OutGet, OutMoves, ThreadStates
      <4>2. QED
        BY <4>1
    <3>7. QED
      BY <3>4, <3>5, <3>6
  <2>2. CASE OutWrite(g)
    <3>1. outHand' = [outHand EXCEPT ![g] = outHand[g]] /\ outHand[g] # NoPacket
          /\ outHand[g] \in Packets \cup {NoPacket}
      BY <1>0, <2>2 DEF OutWrite, ThreadTypes
    <3>2. OutMoves(g, "reduce", outHand[g])
      BY <2>2, <3>1 DEF OutWrite, ThreadStates, OutMoves
    <3>3. QED
      BY <3>2
  <2>3. CASE OutRegister(g) \/ OutBye(g) \/ OutLeave(g)
    <3>1. outHand' = [outHand EXCEPT ![g] = NoPacket]
      BY <1>0, <2>3 DEF OutRegister, OutBye, OutLeave, ThreadTypes
    <3>2. PICK state \in {"get", "leave", "ended"} : outThread' = [outThread EXCEPT ![g] = state]
      BY <2>3 DEF OutRegister, OutBye, OutLeave
    <3>3. OutMoves(g, state, NoPacket)
      BY <3>1, <3>2 DEF ThreadStates, OutMoves
    <3>4. QED
      BY <3>3
  <2>4. CASE OutRaises(g) \/ OutReduce(g)
    <3>1. OutMoves(g, "raised", NoPacket) \/ OutMoves(g, "get", NoPacket)
      BY <2>4 DEF OutRaises, OutReduce, ThreadStates, OutMoves
    <3>2. QED
      BY <3>1
  <2>5. QED
    BY <2>1, <2>2, <2>3, <2>4 DEF OutStep
<1>8. \A h \in Gateways : /\ outThread'[h] = (IF h = g THEN state ELSE outThread[h])
                          /\ outHand'[h] = (IF h = g THEN hand ELSE outHand[h])
  BY <1>0, <1>7 DEF ThreadTypes, OutMoves
<1>9. /\ outThread' \in [Gateways -> ThreadStates]
      /\ outHand' \in [Gateways -> Packets \cup {NoPacket}]
  BY <1>0, <1>7 DEF ThreadTypes, OutMoves
<1>10. ThreadTypes'
  BY <1>0, <1>1, <1>7, <1>8, <1>9 DEF ThreadTypes, inVars, OutMoves
<1>11. QED
  BY <1>4, <1>6, <1>10

-----------------------------------------------------------------------------
(* Cookies                                                                 *)

\* A job has two threads for every cluster.
LEMMA ThreadsCounted ==
  ASSUME NEW j \in Jobs
  PROVE  IsFiniteSet(ThreadsOf(j)) /\ Cardinality(ThreadsOf(j)) = 2 * NumClusters
<1>1. IsFiniteSet({j}) /\ Cardinality({j}) = 1
  BY FS_Singleton
<1>2. IsFiniteSet(0 .. NumClusters - 1) /\ Cardinality(0 .. NumClusters - 1) = NumClusters
      /\ NumClusters \in Nat
  BY FS_Interval, ProxyAssumption
<1>3. /\ IsFiniteSet({j} \X (0 .. NumClusters - 1))
      /\ Cardinality({j} \X (0 .. NumClusters - 1))
           = Cardinality({j}) * Cardinality(0 .. NumClusters - 1)
  BY <1>1, <1>2, FS_Product
<1>4. IsFiniteSet({"in", "out"}) /\ Cardinality({"in", "out"}) = 2
  <2>1. IsFiniteSet({"in"}) /\ Cardinality({"in"}) = 1
    BY FS_Singleton
  <2>2. /\ IsFiniteSet({"in"} \cup {"out"})
        /\ Cardinality({"in"} \cup {"out"})
             = IF "out" \in {"in"} THEN Cardinality({"in"}) ELSE Cardinality({"in"}) + 1
    BY <2>1, FS_AddElement
  <2>3. {"in", "out"} = {"in"} \cup {"out"} /\ "out" \notin {"in"}
    OBVIOUS
  <2>4. QED
    BY <2>1, <2>2, <2>3
<1> DEFINE A == {j} \X (0 .. NumClusters - 1)
<1>5. IsFiniteSet(A) /\ Cardinality(A) = NumClusters
  BY <1>1, <1>2, <1>3
<1>6. ThreadsOf(j) = A \X {"in", "out"}
  BY DEF ThreadsOf
<1> HIDE DEF A
<1>7. /\ IsFiniteSet(A \X {"in", "out"})
      /\ Cardinality(A \X {"in", "out"}) = Cardinality(A) * Cardinality({"in", "out"})
  BY <1>4, <1>5, FS_Product
<1>8. QED
  BY <1>2, <1>4, <1>5, <1>6, <1>7

\* The threads that have ended can be counted.
LEMMA EndedCounted ==
  ASSUME NEW j \in Jobs
  PROVE  /\ IsFiniteSet(EndedOf(j)) /\ Cardinality(EndedOf(j)) \in Nat
         /\ Cardinality(EndedOf(j)) <= 2 * NumClusters
         /\ Cardinality(EndedOf(j)) = 2 * NumClusters <=> EndedOf(j) = ThreadsOf(j)
<1>1. EndedOf(j) \subseteq ThreadsOf(j)
  BY DEF EndedOf
<1>2. IsFiniteSet(ThreadsOf(j)) /\ Cardinality(ThreadsOf(j)) = 2 * NumClusters
  BY ThreadsCounted
<1>3. IsFiniteSet(EndedOf(j)) /\ Cardinality(EndedOf(j)) <= Cardinality(ThreadsOf(j))
      /\ (Cardinality(ThreadsOf(j)) = Cardinality(EndedOf(j)) => ThreadsOf(j) = EndedOf(j))
  BY <1>1, <1>2, FS_Subset
<1>4. QED
  BY <1>2, <1>3, FS_CardinalityType

\* Thread t gets to a state, and no other thread anywhere.
MovesTo(t, state) ==
  \A j \in Jobs : \A u \in ThreadsOf(j) : StateOf(u)' = IF u = t THEN state ELSE StateOf(u)

\* A thread's cookie is that of its gateway.
LEMMA ThreadFacts ==
  ASSUME NEW g \in Gateways, NEW d \in {"in", "out"}
  PROVE  /\ g[1] \in Jobs /\ <<g, d>> \in ThreadsOf(g[1])
         /\ \A j \in Jobs : <<g, d>> \in ThreadsOf(j) => j = g[1]
  BY DEF Gateways, ThreadsOf

\* A thread of a job serves one of its gateways.
LEMMA ThreadsOfJob ==
  ASSUME NEW j \in Jobs, NEW t \in ThreadsOf(j)
  PROVE  t[1] \in Gateways /\ t[1][1] = j /\ t[2] \in {"in", "out"} /\ t = <<t[1], t[2]>>
  BY DEF Gateways, ThreadsOf

\* Only one thread moves when an in-thread or an out-thread does.
LEMMA InMovesTo ==
  ASSUME ThreadTypes, NEW g \in Gateways, NEW state,
         inThread' = [inThread EXCEPT ![g] = state], outThread' = outThread
  PROVE  MovesTo(<<g, "in">>, state)
<1> SUFFICES ASSUME NEW j \in Jobs, NEW u \in ThreadsOf(j)
             PROVE  StateOf(u)' = IF u = <<g, "in">> THEN state ELSE StateOf(u)
  BY DEF MovesTo
<1>1. u[1] \in Gateways /\ u[2] \in {"in", "out"} /\ u = <<u[1], u[2]>>
  BY ThreadsOfJob
<1>2. \A h \in Gateways : inThread'[h] = IF h = g THEN state ELSE inThread[h]
  BY DEF ThreadTypes
<1>3. QED
  BY <1>1, <1>2 DEF StateOf

LEMMA OutMovesTo ==
  ASSUME ThreadTypes, NEW g \in Gateways, NEW state,
         outThread' = [outThread EXCEPT ![g] = state], inThread' = inThread
  PROVE  MovesTo(<<g, "out">>, state)
<1> SUFFICES ASSUME NEW j \in Jobs, NEW u \in ThreadsOf(j)
             PROVE  StateOf(u)' = IF u = <<g, "out">> THEN state ELSE StateOf(u)
  BY DEF MovesTo
<1>1. u[1] \in Gateways /\ u[2] \in {"in", "out"} /\ u = <<u[1], u[2]>>
  BY ThreadsOfJob
<1>2. \A h \in Gateways : outThread'[h] = IF h = g THEN state ELSE outThread[h]
  BY DEF ThreadTypes
<1>3. QED
  BY <1>1, <1>2 DEF StateOf

\* A thread that neither registers nor ends.
LEMMA CookieKept ==
  ASSUME CookieInv, NEW g \in Gateways, NEW d \in {"in", "out"}, NEW state,
         MovesTo(<<g, d>>, state), UNCHANGED <<users, known>>,
         state \notin {"hello", "ended"}, StateOf(<<g, d>>) \notin {"hello", "ended"}
  PROVE  CookieInv'
<1>1. ASSUME NEW j \in Jobs
      PROVE  EndedOf(j)' = EndedOf(j) /\ (Started(j)' <=> Started(j))
  <2>1. \A u \in ThreadsOf(j) : /\ StateOf(u)' = "ended" <=> StateOf(u) = "ended"
                                /\ StateOf(u)' # "hello" <=> StateOf(u) # "hello"
    BY DEF MovesTo
  <2>2. EndedOf(j)' = EndedOf(j)
    BY <2>1 DEF EndedOf, ThreadsOf
  <2>3. Started(j)' <=> Started(j)
    BY <2>1 DEF Started, ThreadsOf
  <2>4. QED
    BY <2>2, <2>3
<1>2. \A j \in Jobs : ThreadsOf(j)' = ThreadsOf(j)
  BY DEF ThreadsOf
<1>3. QED
  BY <1>1, <1>2 DEF CookieInv

\* A thread that registers.
LEMMA CookieRegistered ==
  ASSUME CookieInv, NEW g \in Gateways, NEW d \in {"in", "out"}, NEW state,
         MovesTo(<<g, d>>, state), Register(g[1]),
         state \notin {"hello", "ended"}, StateOf(<<g, d>>) = "hello"
  PROVE  CookieInv'
<1> DEFINE k == g[1]
           t == <<g, d>>
<1>0. k \in Jobs /\ t \in ThreadsOf(k) /\ \A j \in Jobs : t \in ThreadsOf(j) => j = k
  BY ThreadFacts
<1>1. ASSUME NEW j \in Jobs
      PROVE  EndedOf(j)' = EndedOf(j) /\ ThreadsOf(j)' = ThreadsOf(j)
  <2>1. \A u \in ThreadsOf(j) : StateOf(u)' = "ended" <=> StateOf(u) = "ended"
    BY DEF MovesTo
  <2>2. QED
    BY <2>1 DEF EndedOf, ThreadsOf
<1>2. Started(k)' /\ EndedOf(k) # ThreadsOf(k)
  <2>1. StateOf(t)' # "hello"
    BY <1>0 DEF MovesTo
  <2>2. t \notin EndedOf(k)
    BY DEF EndedOf
  <2>3. Started(k)'
    BY <1>0, <2>1 DEF Started, ThreadsOf
  <2>4. QED
    BY <1>0, <2>2, <2>3
<1>3. ASSUME NEW j \in Jobs, j # k
      PROVE  Started(j)' <=> Started(j)
  <2>1. \A u \in ThreadsOf(j) : StateOf(u)' = StateOf(u)
    BY <1>0, <1>3 DEF MovesTo
  <2>2. QED
    BY <2>1 DEF Started, ThreadsOf
<1>4. known' = known \cup {k}
      /\ users' = IF k \in known THEN users ELSE [users EXCEPT ![k] = 2 * NumClusters]
  BY DEF Register
<1>5. k \notin known => Cardinality(EndedOf(k)) = 0
  <2> SUFFICES ASSUME k \notin known
               PROVE  EndedOf(k) = {}
    BY FS_EmptySet
  <2>1. ~Started(k)
    BY <1>0, <1>2 DEF CookieInv
  <2>2. QED
    BY <2>1 DEF EndedOf, Started
<1>6. users' = [j \in Jobs |-> users'[j]] /\ \A j \in Jobs : j # k => users'[j] = users[j]
  BY <1>4 DEF CookieInv
<1>7. users'[k] = IF k \in known THEN users[k] ELSE 2 * NumClusters
  BY <1>0, <1>4 DEF CookieInv
<1> HIDE DEF k, t
<1>8. ASSUME NEW j \in Jobs
      PROVE  /\ users'[j] \in Nat
             /\ j \in known' <=> Started(j)' /\ EndedOf(j)' # ThreadsOf(j)'
             /\ j \in known' => users'[j] = 2 * NumClusters - Cardinality(EndedOf(j)')
  <2>1. CASE j # k
    BY <1>1, <1>3, <1>4, <1>6, <2>1 DEF CookieInv
  <2>2. CASE j = k
    <3>1. users'[k] \in Nat
      BY <1>0, <1>7, ProxyAssumption DEF CookieInv
    <3>2. k \in known'
      BY <1>4
    <3>3. users'[k] = 2 * NumClusters - Cardinality(EndedOf(k))
      BY <1>0, <1>5, <1>7, ProxyAssumption DEF CookieInv
    <3>4. QED
      BY <1>1, <1>2, <2>2, <3>1, <3>2, <3>3
  <2>3. QED
    BY <2>1, <2>2
<1>9. QED
  BY <1>6, <1>8 DEF CookieInv

\* A thread that leaves: the last of its job, if its cookie is deleted.
LEMMA CookieLeft ==
  ASSUME CookieInv, NEW g \in Gateways, NEW d \in {"in", "out"},
         MovesTo(<<g, d>>, "ended"), Unregister(g[1]), StateOf(<<g, d>>) = "leave"
  PROVE  CookieInv' /\ (users'[g[1]] = 0 => EndedOf(g[1])' = ThreadsOf(g[1]))
<1> DEFINE k == g[1]
           t == <<g, d>>
<1>0. k \in Jobs /\ t \in ThreadsOf(k) /\ \A j \in Jobs : t \in ThreadsOf(j) => j = k
  BY ThreadFacts
<1>1. \A j \in Jobs : ThreadsOf(j)' = ThreadsOf(j)
  BY DEF ThreadsOf
<1>2. EndedOf(k)' = EndedOf(k) \cup {t} /\ t \notin EndedOf(k)
  <2>1. \A u \in ThreadsOf(k) : StateOf(u)' = "ended" <=> StateOf(u) = "ended" \/ u = t
    BY <1>0 DEF MovesTo
  <2>2. QED
    BY <1>0, <2>1 DEF EndedOf, ThreadsOf
<1>3. Started(k) /\ Started(k)'
  <2>1. StateOf(t)' # "hello"
    BY <1>0 DEF MovesTo
  <2>2. Started(k)'
    BY <1>0, <2>1 DEF Started, ThreadsOf
  <2>3. QED
    BY <1>0, <2>2 DEF Started
<1>4. ASSUME NEW j \in Jobs, j # k
      PROVE  (Started(j)' <=> Started(j)) /\ EndedOf(j)' = EndedOf(j)
  <2>1. \A u \in ThreadsOf(j) : StateOf(u)' = StateOf(u)
    BY <1>0, <1>4 DEF MovesTo
  <2>2. QED
    BY <2>1 DEF Started, EndedOf, ThreadsOf
<1>5. k \in known /\ users[k] = 2 * NumClusters - Cardinality(EndedOf(k)) /\ users[k] \in Nat
  BY <1>0, <1>2, <1>3 DEF CookieInv
<1>6. Cardinality(EndedOf(k)') = Cardinality(EndedOf(k)) + 1 /\ Cardinality(EndedOf(k)) \in Nat
  BY <1>0, <1>2, EndedCounted, FS_AddElement
<1>7. users' = [users EXCEPT ![k] = @ - 1]
  BY DEF Unregister
<1>8. /\ users' = [j \in Jobs |-> users'[j]] /\ users'[k] = users[k] - 1
      /\ \A j \in Jobs : j # k => users'[j] = users[j]
  BY <1>0, <1>7 DEF CookieInv
<1>9. IF users'[k] = 0 THEN known' = known \ {k} ELSE known' = known
  BY DEF Unregister
<1>10. /\ IsFiniteSet(EndedOf(k)')
       /\ Cardinality(EndedOf(k)') <= 2 * NumClusters
       /\ Cardinality(EndedOf(k)') = 2 * NumClusters <=> EndedOf(k)' = ThreadsOf(k)
  <2>1. EndedOf(k)' \subseteq ThreadsOf(k)
    BY <1>0, <1>2 DEF EndedOf
  <2>2. IsFiniteSet(ThreadsOf(k)) /\ Cardinality(ThreadsOf(k)) = 2 * NumClusters
    BY <1>0, ThreadsCounted
  <2>3. IsFiniteSet(EndedOf(k)') /\ Cardinality(EndedOf(k)') <= Cardinality(ThreadsOf(k))
        /\ (Cardinality(ThreadsOf(k)) = Cardinality(EndedOf(k)') => ThreadsOf(k) = EndedOf(k)')
    BY <2>1, <2>2, FS_Subset
  <2>4. QED
    BY <2>2, <2>3
<1>11. users'[k] \in Nat /\ users'[k] = 2 * NumClusters - Cardinality(EndedOf(k)')
  BY <1>5, <1>6, <1>8, <1>10, ProxyAssumption
<1>12. users'[k] = 0 <=> EndedOf(k)' = ThreadsOf(k)
  BY <1>5, <1>6, <1>10, <1>11, ProxyAssumption
<1> HIDE DEF k, t
<1>13. ASSUME NEW j \in Jobs
       PROVE  /\ users'[j] \in Nat
              /\ j \in known' <=> Started(j)' /\ EndedOf(j)' # ThreadsOf(j)'
              /\ j \in known' => users'[j] = 2 * NumClusters - Cardinality(EndedOf(j)')
  <2>1. CASE j # k
    BY <1>1, <1>4, <1>8, <1>9, <2>1 DEF CookieInv
  <2>2. CASE j = k
    <3>1. k \in known' <=> users'[k] # 0
      BY <1>5, <1>9
    <3>2. QED
      BY <1>1, <1>3, <1>11, <1>12, <2>2, <3>1
  <2>3. QED
    BY <2>1, <2>2
<1>14. CookieInv'
  BY <1>8, <1>13 DEF CookieInv
<1>15. QED
  BY <1>12, <1>14 DEF k

\* Gateways change no cookie.
LEMMA CookieUntouched ==
  ASSUME CookieInv, UNCHANGED <<inThread, outThread, users, known>>
  PROVE  CookieInv'
<1>1. \A j \in Jobs : ThreadsOf(j)' = ThreadsOf(j) /\ EndedOf(j)' = EndedOf(j)
                      /\ (Started(j)' <=> Started(j))
  BY DEF ThreadsOf, EndedOf, StateOf, Started
<1>2. QED
  BY <1>1 DEF CookieInv

\* The count of the cookies is right after every step.
LEMMA InCookie ==
  ASSUME AllTypes, CookieInv, NEW g \in Gateways, InStep(g)
  PROVE  CookieInv'
<1>0. ThreadTypes
  BY DEF AllTypes
<1>1. CASE InRegister(g)
  <2>1. PICK state : state = "line"
    OBVIOUS
  <2>2. MovesTo(<<g, "in">>, state)
    BY <1>0, <1>1, <2>1, InMovesTo DEF InRegister, outVars
  <2>3. StateOf(<<g, "in">>) = "hello" /\ Register(g[1]) /\ state \notin {"hello", "ended"}
    BY <1>1, <2>1 DEF InRegister, StateOf
  <2>4. QED
    BY <2>2, <2>3, CookieRegistered
<1>2. CASE InLeave(g)
  <2>1. MovesTo(<<g, "in">>, "ended") /\ StateOf(<<g, "in">>) = "leave" /\ Unregister(g[1])
    BY <1>0, <1>2, InMovesTo DEF InLeave, StateOf, outVars
  <2>2. QED
    BY <2>1, CookieLeft
<1>3. CASE InLine(g) \/ InCheck(g) \/ InCharge(g) \/ InPut(g) \/ InBye(g) \/ InError(g)
           \/ InErrorLocks(g) \/ InRaises(g)
  <2>1. PICK state \in {"wait", "charge", "read", "line", "leave", "error", "raised"} :
          inThread' = [inThread EXCEPT ![g] = state]
    BY <1>3 DEF InLine, InCheck, InCharge, InPut, InBye, InError, InErrorLocks, InRaises
  <2>2. UNCHANGED <<outThread, users, known>>
    BY <1>3 DEF InLine, InCheck, InCharge, InPut, InBye, InError, InErrorLocks, InRaises, outVars,
                tableVars
  <2>3. StateOf(<<g, "in">>) \notin {"hello", "ended"}
    BY <1>3 DEF InLine, InCheck, InCharge, InPut, InBye, InError, InErrorLocks, InRaises, StateOf
  <2>4. MovesTo(<<g, "in">>, state)
    BY <1>0, <2>1, <2>2, InMovesTo
  <2>5. state \notin {"hello", "ended"}
    BY <2>1
  <2>6. QED
    BY <2>2, <2>3, <2>4, <2>5, CookieKept
<1>4. QED
  BY <1>1, <1>2, <1>3 DEF InStep

LEMMA OutCookie ==
  ASSUME AllTypes, CookieInv, NEW g \in Gateways, OutStep(g)
  PROVE  CookieInv'
<1>0. ThreadTypes
  BY DEF AllTypes
<1>1. CASE OutRegister(g)
  <2>1. PICK state : state = "get"
    OBVIOUS
  <2>2. MovesTo(<<g, "out">>, state)
    BY <1>0, <1>1, <2>1, OutMovesTo DEF OutRegister, inVars
  <2>3. StateOf(<<g, "out">>) = "hello" /\ Register(g[1]) /\ state \notin {"hello", "ended"}
    BY <1>1, <2>1 DEF OutRegister, StateOf
  <2>4. QED
    BY <2>2, <2>3, CookieRegistered
<1>2. CASE OutLeave(g)
  <2>1. MovesTo(<<g, "out">>, "ended") /\ StateOf(<<g, "out">>) = "leave" /\ Unregister(g[1])
    BY <1>0, <1>2, OutMovesTo DEF OutLeave, StateOf, inVars
  <2>2. QED
    BY <2>1, CookieLeft
<1>3. CASE OutGet(g) \/ OutWrite(g) \/ OutBye(g) \/ OutRaises(g) \/ OutReduce(g)
  <2>1. PICK state \in {"bye", "get", "write", "leave", "reduce", "raised"} :
          outThread' = [outThread EXCEPT ![g] = state]
    <3>1. CASE OutGet(g)
      <4>1. \/ outThread' = [outThread EXCEPT ![g] = "bye"]
            \/ outThread' = [outThread EXCEPT ![g] = "get"]
            \/ outThread' = [outThread EXCEPT ![g] = "write"]
            \/ outThread' = [outThread EXCEPT ![g] = "leave"]
        BY <3>1 DEF OutGet
      <4>2. QED
        BY <4>1
    <3>2. CASE OutWrite(g) \/ OutBye(g) \/ OutRaises(g) \/ OutReduce(g)
      BY <3>2 DEF OutWrite, OutBye, OutRaises, OutReduce
    <3>3. QED
      BY <1>3, <3>1, <3>2
  <2>2. UNCHANGED <<inThread, users, known>>
    BY <1>3 DEF OutGet, OutWrite, OutBye, OutRaises, OutReduce, inVars, tableVars
  <2>3. StateOf(<<g, "out">>) \notin {"hello", "ended"}
    BY <1>3 DEF OutGet, OutWrite, OutBye, OutRaises, OutReduce, StateOf
  <2>4. MovesTo(<<g, "out">>, state)
    BY <1>0, <2>1, <2>2, OutMovesTo
  <2>5. state \notin {"hello", "ended"}
    BY <2>1
  <2>6. QED
    BY <2>2, <2>3, <2>4, <2>5, CookieKept
<1>4. QED
  BY <1>1, <1>2, <1>3 DEF OutStep

LEMMA GatewayCookie ==
  ASSUME CookieInv, NEW g \in Gateways, GatewayStep(g) \/ Crash(g)
  PROVE  CookieInv'
<1>1. UNCHANGED <<inThread, outThread, users, known>>
  BY DEF GatewayStep, GatewayWrite, GatewayRead, GatewayLeave, GatewayBye, GatewayCleanup,
         GatewayAbort, Crash, Die, inVars, outVars, tableVars
<1>2. QED
  BY <1>1, CookieUntouched

-----------------------------------------------------------------------------
(* What a step leaves alone                                                *)

\* A step of gateway h or of its threads leaves g alone.
Still(g) ==
  /\ toProxy'[g] = toProxy[g] /\ toGateway'[g] = toGateway[g]
  /\ gateway'[g] = gateway[g] /\ sent'[g] = sent[g] /\ byeRead'[g] = byeRead[g]
  /\ got'[g] = got[g] /\ (g \in dead' <=> g \in dead)
  /\ inThread'[g] = inThread[g] /\ inHand'[g] = inHand[g]
  /\ outThread'[g] = outThread[g] /\ outHand'[g] = outHand[g] /\ byes'[g] = byes[g]

\* Every step leaves the other gateways alone.
LEMMA GatewayAlone ==
  ASSUME AllTypes, NEW g \in Gateways, GatewayStep(g) \/ Crash(g)
  PROVE  \A h \in Gateways : h # g => Still(h)
<1>0. GatewayTypes /\ ThreadTypes /\ TableTypes /\ WireTypes /\ SentTypes
  BY DEF AllTypes, Inv, Types
<1> SUFFICES ASSUME NEW h \in Gateways, h # g
             PROVE  Still(h)
  OBVIOUS
<1>1. UNCHANGED <<inThread, inHand, outThread, outHand, byes>>
  BY DEF GatewayStep, GatewayWrite, GatewayRead, GatewayLeave, GatewayBye, GatewayCleanup,
         GatewayAbort, Crash, Die, inVars, outVars
<1>2. toProxy'[h] = toProxy[h]
  BY <1>0 DEF GatewayStep, GatewayWrite, GatewayRead, GatewayLeave, GatewayBye, GatewayCleanup,
         GatewayAbort, Crash, Die, WireTypes, wires
<1>3. toGateway'[h] = toGateway[h]
  BY <1>0 DEF GatewayStep, GatewayWrite, GatewayRead, GatewayLeave, GatewayBye, GatewayCleanup,
         GatewayAbort, Crash, Die, GatewayTypes, wires
<1>4. gateway'[h] = gateway[h] /\ sent'[h] = sent[h]
  BY <1>0 DEF GatewayStep, GatewayWrite, GatewayRead, GatewayLeave, GatewayBye, GatewayCleanup,
         GatewayAbort, Crash, Die, GatewayTypes, SentTypes
<1>5. byeRead'[h] = byeRead[h] /\ got'[h] = got[h]
  BY <1>0 DEF GatewayStep, GatewayWrite, GatewayRead, GatewayLeave, GatewayBye, GatewayCleanup,
         GatewayAbort, Crash, Die, GatewayTypes
<1>6. h \in dead' <=> h \in dead
  BY DEF GatewayStep, GatewayWrite, GatewayRead, GatewayLeave, GatewayBye, GatewayCleanup,
         GatewayAbort, Crash, Die
<1>7. QED
  BY <1>1, <1>2, <1>3, <1>4, <1>5, <1>6 DEF Still

LEMMA InAlone ==
  ASSUME AllTypes, NEW g \in Gateways, InStep(g)
  PROVE  /\ \A h \in Gateways : h # g => Still(h)
         /\ UNCHANGED <<gateway, dead, sent, byeRead, got, toGateway, outThread, outHand, byes>>
<1>0. ThreadTypes /\ WireTypes /\ InTypes
  BY DEF AllTypes, Inv, Types
<1>1. UNCHANGED <<gateway, dead, sent, byeRead, got, toGateway, outThread, outHand, byes>>
  BY DEF InStep, InRegister, InLine, InCheck, InCharge, InPut, InBye, InError, InErrorLocks,
         InRaises, InLeave, gwVars, wires, outVars
<1>2. ASSUME NEW h \in Gateways, h # g
      PROVE  Still(h)
  <2>1. toProxy'[h] = toProxy[h]
    BY <1>0, <1>2 DEF InStep, InRegister, InLine, InCheck, InCharge, InPut, InBye, InError, InErrorLocks,
         InRaises, InLeave, WireTypes, wires
  <2>2. inThread'[h] = inThread[h]
    BY <1>0, <1>2 DEF InStep, InRegister, InLine, InCheck, InCharge, InPut, InBye, InError, InErrorLocks,
         InRaises, InLeave, ThreadTypes
  <2>3. inHand'[h] = inHand[h]
    BY <1>0, <1>2 DEF InStep, InRegister, InLine, InCheck, InCharge, InPut, InBye, InError, InErrorLocks,
         InRaises, InLeave, InTypes
  <2>4. QED
    BY <1>1, <2>1, <2>2, <2>3 DEF Still
<1>3. QED
  BY <1>1, <1>2

LEMMA OutAlone ==
  ASSUME AllTypes, NEW g \in Gateways, OutStep(g)
  PROVE  /\ \A h \in Gateways : h # g => Still(h)
         /\ UNCHANGED <<gateway, dead, sent, byeRead, got, toProxy, inThread, inHand, mutexHeld>>
<1>0. ThreadTypes /\ GatewayTypes /\ TableTypes
  BY DEF AllTypes
<1>1. UNCHANGED <<gateway, dead, sent, byeRead, got, toProxy, inThread, inHand>>
  BY DEF OutStep, OutRegister, OutGet, OutWrite, OutBye, OutRaises, OutReduce, OutLeave,
         gwVars, wires, inVars
<1>2. mutexHeld' = mutexHeld
  BY DEF OutStep, OutRegister, Register, OutGet, OutWrite, OutBye, OutRaises, OutReduce, OutLeave,
         Unregister, tableVars
<1>3. ASSUME NEW h \in Gateways, h # g
      PROVE  Still(h)
  <2>1. toGateway'[h] = toGateway[h]
    BY <1>0, <1>3 DEF OutStep, OutRegister, OutGet, OutWrite, OutBye, OutRaises, OutReduce, OutLeave,
         OutWire, GatewayTypes, wires
  <2>2. outThread'[h] = outThread[h]
    BY <1>0, <1>3 DEF OutStep, OutRegister, OutGet, OutWrite, OutBye, OutRaises, OutReduce, OutLeave,
         ThreadTypes
  <2>3. outHand'[h] = outHand[h]
    BY <1>0, <1>3 DEF OutStep, OutRegister, OutGet, OutWrite, OutBye, OutRaises, OutReduce, OutLeave,
         ThreadTypes
  <2>4. byes'[h] = byes[h]
    BY <1>0, <1>3 DEF OutStep, OutRegister, OutGet, OutWrite, OutBye, OutRaises, OutReduce, OutLeave,
         TableTypes, outVars
  <2>5. QED
    BY <1>1, <2>1, <2>2, <2>3, <2>4 DEF Still
<1>4. QED
  BY <1>1, <1>2, <1>3

\* Only a gateway that dies becomes broken; it stays so.
LEMMA BrokenByGateway ==
  ASSUME AllTypes, NEW g \in Gateways, GatewayStep(g) \/ Crash(g)
  PROVE  Broken' = Broken \/ (Broken' = Broken \cup {g} /\ g \notin dead /\ gateway[g] # "joined")
<1>0. GatewayTypes
  BY DEF AllTypes
<1>1. CASE Die(g)
  <2>1. dead' = dead \cup {g} /\ gateway' = gateway /\ g \notin dead
    BY <1>1 DEF Die
  <2>2. gateway[g] = "joined" => Broken' = Broken
    BY <2>1 DEF Broken
  <2>3. QED
    BY <2>1, <2>2 DEF Broken
<1>2. CASE GatewayWrite(g) \/ GatewayRead(g) \/ GatewayLeave(g) \/ GatewayBye(g) \/ GatewayCleanup(g)
  <2>1. g \notin dead /\ dead' = dead
    BY <1>2 DEF GatewayWrite, GatewayRead, GatewayLeave, GatewayBye, GatewayCleanup
  <2>2. \A h \in Gateways : h # g => gateway'[h] = gateway[h]
    BY GatewayAlone, <1>2 DEF GatewayStep, Still
  <2>3. QED
    BY <1>0, <2>1, <2>2 DEF Broken, GatewayTypes
<1>3. QED
  BY <1>1, <1>2 DEF GatewayStep, GatewayAbort, Crash

\* Threads of the proxy break no gateway.
LEMMA BrokenByThread ==
  ASSUME UNCHANGED <<gateway, dead>>
  PROVE  Broken' = Broken
BY DEF Broken

-----------------------------------------------------------------------------
(* Packets and where they come from                                        *)

\* Where a packet comes from and where it goes.
LEMMA PacketOrigin ==
  ASSUME NEW g \in Gateways, NEW p \in PacketsOf(g)
  PROVE  p.from = g /\ p.to \in Peers(g) /\ p.n \in 1 .. Len(Traffic[g])
<1>1. PICK n \in DOMAIN Traffic[g] : \E l \in 0 .. Traffic[g][n].size :
        p = [kind |-> "packet", from |-> g, n |-> n, to |-> Traffic[g][n].to,
             size |-> Traffic[g][n].size, len |-> l]
  BY DEF PacketsOf
<1>2. Traffic[g] \in Seq([to : Peers(g), size : 1 .. MaxSize])
  BY ProxyAssumption
<1>3. Traffic[g][n] \in [to : Peers(g), size : 1 .. MaxSize] /\ n \in 1 .. Len(Traffic[g])
  <2> DEFINE T == [to : Peers(g), size : 1 .. MaxSize]
  <2> HIDE DEF T
  <2>1. Traffic[g] \in Seq(T)
    BY <1>2 DEF T
  <2>2. Traffic[g][n] \in T /\ n \in 1 .. Len(Traffic[g])
    BY <2>1
  <2>3. QED
    BY <2>2 DEF T
<1>4. QED
  BY <1>1, <1>3

\* The number of messages a gateway has is a number.
LEMMA TrafficCounted == \A g \in Gateways : Len(Traffic[g]) \in Nat
<1> SUFFICES ASSUME NEW g \in Gateways
             PROVE  Len(Traffic[g]) \in Nat
  OBVIOUS
<1> DEFINE T == [to : Peers(g), size : 1 .. MaxSize]
<1>1. Traffic[g] \in Seq(T)
  BY ProxyAssumption
<1> HIDE DEF T
<1>2. QED
  BY <1>1

\* The same of any packet.
LEMMA PacketRoute ==
  \A p \in Packets :
    /\ p \in PacketsOf(p.from) /\ p.from \in Gateways /\ p.to \in Gateways
    /\ p.to \in Peers(p.from) /\ p.from \in Peers(p.to) /\ p.n \in Nat
<1> SUFFICES ASSUME NEW g \in Gateways, NEW p \in PacketsOf(g)
             PROVE  /\ p \in PacketsOf(p.from) /\ p.from \in Gateways /\ p.to \in Gateways
                    /\ p.to \in Peers(p.from) /\ p.from \in Peers(p.to) /\ p.n \in Nat
  BY DEF Packets
<1>1. p.from = g /\ p.to \in Peers(g) /\ p.n \in 1 .. Len(Traffic[g])
  BY PacketOrigin
<1>2. p.n \in Nat
  BY <1>1, TrafficCounted
<1>3. QED
  BY <1>1, <1>2 DEF Peers

\* What ProxyWriter::run writes is the next packet, whole.
LEMMA WritesPacket ==
  ASSUME WireTypes, SentTypes, NEW g \in Gateways, GatewayWrite(g)
  PROVE  \E p \in PacketsOf(g) :
           /\ toProxy'[g] = Append(toProxy[g], p)
           /\ p.n = sent[g] + 1 /\ p.len = p.size
<1> DEFINE t == Traffic[g][sent[g] + 1]
           p == [kind |-> "packet", from |-> g, n |-> sent[g] + 1, to |-> t.to,
                 size |-> t.size, len |-> t.size]
<1>1. toProxy' = [toProxy EXCEPT ![g] = Append(@, p)] /\ sent[g] < Len(Traffic[g])
  BY DEF GatewayWrite
<1>2. sent[g] + 1 \in 1 .. Len(Traffic[g])
  <2>1. Len(Traffic[g]) \in Nat /\ sent[g] \in Nat
    BY TrafficCounted DEF SentTypes
  <2>2. QED
    BY <1>1, <2>1
<1>3. p \in PacketsOf(g)
  BY <1>2, PacketOfTraffic
<1>4. p.n = sent[g] + 1 /\ p.len = p.size
  OBVIOUS
<1> HIDE DEF p
<1>5. toProxy'[g] = Append(toProxy[g], p)
  BY <1>1 DEF WireTypes
<1>6. QED
  BY <1>3, <1>4, <1>5

-----------------------------------------------------------------------------
(* How a gateway ends                                                      *)

\* A connection that ends stays so when a message is taken from it ...
LEMMA ClosedTail ==
  ASSUME NEW S, NEW s \in Seq(S), s # <<>>, Closed(s)
  PROVE  Closed(Tail(s)) /\ (~IsPacket(Head(s)) => Tail(s) = <<>>)
<1>1. /\ Len(s) \in Nat \ {0} /\ Len(Tail(s)) = Len(s) - 1 /\ Tail(s) \in Seq(S)
      /\ \A i \in 1 .. Len(Tail(s)) : Tail(s)[i] = s[i + 1]
      /\ Head(s) = s[1]
  BY HeadTailProperties, LenProperties
<1>2. ASSUME NEW i \in 1 .. Len(Tail(s)), ~IsPacket(Tail(s)[i])
      PROVE  i = Len(Tail(s))
  <2>1. PICK k : k = i + 1
    OBVIOUS
  <2>2. k \in 1 .. Len(s) /\ Tail(s)[i] = s[k]
    BY <1>1, <2>1
  <2>3. k = Len(s)
    BY <1>2, <2>2 DEF Closed
  <2>4. i + 1 = Len(s) /\ Len(Tail(s)) = Len(s) - 1 /\ Len(s) \in Nat
    BY <1>1, <2>1, <2>3
  <2>5. QED
    BY ONLY <2>4, i \in 1 .. Len(Tail(s))
<1>3. ASSUME ~IsPacket(Head(s))
      PROVE  Tail(s) = <<>>
  <2>1. 1 \in 1 .. Len(s)
    BY <1>1
  <2>2. Len(s) = 1
    BY <1>1, <1>3, <2>1 DEF Closed
  <2>3. Len(Tail(s)) = 0
    BY <1>1, <2>2
  <2>4. QED
    BY <1>1, <2>3, EmptySeq
<1>4. QED
  BY <1>2, <1>3 DEF Closed

\* ... and when the end is added.
LEMMA ClosedAppend ==
  ASSUME NEW S, NEW s \in Seq(S), NEW m \in S, \A k \in 1 .. Len(s) : IsPacket(s[k])
  PROVE  Closed(Append(s, m))
<1>1. /\ Len(s) \in Nat /\ Len(Append(s, m)) = Len(s) + 1
      /\ \A i \in 1 .. Len(s) : Append(s, m)[i] = s[i]
      /\ Append(s, m)[Len(s) + 1] = m
  BY AppendProperties, LenProperties
<1>2. QED
  BY <1>1 DEF Closed

\* A connection whose gateway has not said how it ends carries packets only.
LEMMA OnlyPackets ==
  ASSUME WireTypes, NEW g \in Gateways,
         ~Holds(toProxy[g], Bye), ~Holds(toProxy[g], Eof), ~Holds(toProxy[g], Reset)
  PROVE  \A k \in 1 .. Len(toProxy[g]) : IsPacket(toProxy[g][k])
<1> SUFFICES ASSUME NEW k \in 1 .. Len(toProxy[g])
             PROVE  IsPacket(toProxy[g][k])
  OBVIOUS
<1> DEFINE T == FromGateway(g)
<1>1. toProxy[g] \in Seq(T)
  BY DEF WireTypes
<1>2. toProxy[g][k] \in T
  <2> HIDE DEF T
  <2> QED
    BY <1>1, ElementOfSeq
<1>3. toProxy[g][k] # Bye /\ toProxy[g][k] # Eof /\ toProxy[g][k] # Reset
  BY DEF Holds
<1>4. toProxy[g][k] \in Packets
  BY <1>2, <1>3, OwnPackets DEF FromGateway
<1>5. QED
  BY <1>4, PacketIsOther

\* What a step of others does not change.
LEMMA WireEndsStill ==
  ASSUME NEW g \in Gateways, WireEnds(g), Still(g), g \in Broken => g \in Broken', mutexHeld => mutexHeld'
  PROVE  WireEnds(g)'
<1>1. Expected' = Expected
  BY DEF Expected
<1>2. QED
  BY <1>1 DEF WireEnds, Still, Closed, Holds

\* The connection of a gateway that is in its main loop, or has left it.
LEMMA WireOpen ==
  ASSUME NEW g \in Gateways, WireEnds(g), g \notin dead, gateway[g] \in {"loop", "left"}
  PROVE  /\ ~Holds(toProxy[g], Bye) /\ ~Holds(toProxy[g], Eof) /\ ~Holds(toProxy[g], Reset)
         /\ inThread[g] \notin {"leave", "ended", "error"}
  BY DEF WireEnds, Broken

\* The message that such a gateway sends.
LEMMA OpenAppend ==
  ASSUME WireTypes, NEW g \in Gateways, WireEnds(g), g \notin dead,
         gateway[g] \in {"loop", "left"}, NEW m \in FromGateway(g)
  PROVE  /\ Closed(Append(toProxy[g], m))
         /\ \A p : Holds(Append(toProxy[g], m), p) <=> Holds(toProxy[g], p) \/ p = m
<1>1. \A k \in 1 .. Len(toProxy[g]) : IsPacket(toProxy[g][k])
  BY WireOpen, OnlyPackets
<1> DEFINE T == FromGateway(g)
<1>2. toProxy[g] \in Seq(T) /\ m \in T
  BY DEF WireTypes
<1> HIDE DEF T
<1>3. Closed(Append(toProxy[g], m))
  BY <1>1, <1>2, ClosedAppend
<1>4. \A p : Holds(Append(toProxy[g], m), p) <=> Holds(toProxy[g], p) \/ p = m
  BY <1>2, AppendHolds
<1>5. QED
  BY <1>3, <1>4

\* A gateway that dies.
LEMMA DieEnds ==
  ASSUME AllTypes, EndInv, NEW g \in Gateways, Die(g), gateway[g] # "ended",
         UNCHANGED <<inThread, got, gateway>>
  PROVE  WireEnds(g)'
<1>0. GatewayTypes /\ ThreadTypes /\ WireTypes /\ WireEnds(g)
  BY DEF AllTypes, Inv, Types, EndInv
<1>1. /\ dead' = dead \cup {g} /\ toGateway'[g] = <<>> /\ g \notin dead /\ Expected' = Expected
      /\ gateway[g] \in {"loop", "left", "joined", "ended"}
  BY <1>0 DEF Die, Expected, GatewayTypes
<1>2. CASE gateway[g] = "joined"
  <2>1. toProxy' = toProxy
    BY <1>2 DEF Die
  <2>2. g \notin Broken /\ g \notin Broken'
    BY <1>1, <1>2 DEF Broken
  <2>3. QED
    BY <1>0, <1>1, <1>2, <2>1, <2>2 DEF WireEnds
<1>3. CASE gateway[g] # "joined"
  <2>0. gateway[g] \in {"loop", "left"}
    BY <1>1, <1>3
  <2>1. g \in Broken'
    BY <1>1, <2>0 DEF Broken
  <2>2. /\ ~Holds(toProxy[g], Bye) /\ inThread[g] \notin {"leave", "ended", "error"}
    BY <1>0, <1>1, <2>0, WireOpen
  <2>3. Closed(toProxy'[g]) /\ ~Holds(toProxy'[g], Bye)
    <3>1. CASE toProxy' = [toProxy EXCEPT ![g] = Append(@, Eof)]
      <4>1. toProxy'[g] = Append(toProxy[g], Eof)
        BY <1>0, <3>1 DEF WireTypes
      <4>2. Eof \in FromGateway(g)
        BY DEF FromGateway
      <4>3. /\ Closed(Append(toProxy[g], Eof))
            /\ Holds(Append(toProxy[g], Eof), Bye) <=> Holds(toProxy[g], Bye) \/ Bye = Eof
        BY <1>0, <1>1, <2>0, <4>2, OpenAppend
      <4>4. QED
        BY <2>2, <4>1, <4>3, OthersAreOther
    <3>2. CASE toProxy' = [toProxy EXCEPT ![g] = <<Reset>>]
      <4>1. toProxy'[g] = <<Reset>>
        BY <1>0, <3>2 DEF WireTypes
      <4>2. QED
        BY <4>1, OthersAreOther DEF Closed, Holds
    <3>3. ASSUME NEW p \in PacketsOf(g), toProxy' = [toProxy EXCEPT ![g] = @ \o <<p, Eof>>]
          PROVE  Closed(toProxy'[g]) /\ ~Holds(toProxy'[g], Bye)
      <4> DEFINE T == FromGateway(g)
      <4>1. toProxy'[g] = toProxy[g] \o <<p, Eof>>
        BY <1>0, <3>3 DEF WireTypes
      <4>2. p \in T /\ Eof \in T /\ toProxy[g] \in Seq(T)
        BY <1>0 DEF FromGateway, WireTypes
      <4>3. \A k \in 1 .. Len(toProxy[g]) : IsPacket(toProxy[g][k])
        BY <1>0, <1>1, <2>0, OnlyPackets, WireOpen
      <4>4. IsPacket(p)
        BY OwnPackets, PacketIsOther
      <4> HIDE DEF T
      <4>5. toProxy'[g] = Append(Append(toProxy[g], p), Eof)
        BY <4>1, <4>2, AppendTwo
      <4>6. PICK s : s = Append(toProxy[g], p)
        OBVIOUS
      <4>7. s \in Seq(T) /\ (\A k \in 1 .. Len(s) : IsPacket(s[k])) /\ ~Holds(s, Bye)
        <5>1. /\ s \in Seq(T) /\ Len(toProxy[g]) \in Nat /\ Len(s) = Len(toProxy[g]) + 1
              /\ \A i \in 1 .. Len(toProxy[g]) : s[i] = toProxy[g][i]
              /\ s[Len(toProxy[g]) + 1] = p
          BY <4>2, <4>6, AppendProperties, LenProperties
        <5>2. \A k \in 1 .. Len(s) : IsPacket(s[k])
          BY <4>3, <4>4, <5>1
        <5>3. QED
          BY <5>1, <5>2, OthersAreOther DEF Holds
      <4>8. Closed(Append(s, Eof)) /\ (Holds(Append(s, Eof), Bye) <=> Holds(s, Bye) \/ Bye = Eof)
        BY <4>2, <4>7, ClosedAppend, AppendHolds
      <4>9. QED
        BY <4>5, <4>6, <4>7, <4>8, OthersAreOther
    <3>4. QED
      BY <1>3, <3>1, <3>2, <3>3 DEF Die
  <2>4. QED
    BY <1>0, <1>1, <2>1, <2>2, <2>3 DEF WireEnds
<1>4. QED
  BY <1>2, <1>3

\* A gateway ends its connection to the proxy in one of three ways.
LEMMA GatewayEnds ==
  ASSUME AllTypes, EndInv, NEW g \in Gateways, GatewayStep(g) \/ Crash(g)
  PROVE  EndInv'
<1>0. GatewayTypes /\ ThreadTypes /\ WireTypes /\ WireEnds(g) /\ SentTypes
  BY DEF AllTypes, Inv, Types, EndInv
<1>1. /\ UNCHANGED <<inThread, mutexHeld>>
  BY DEF GatewayStep, GatewayWrite, GatewayRead, GatewayLeave, GatewayBye, GatewayCleanup,
         GatewayAbort, Crash, Die, inVars, tableVars
<1>2. ASSUME NEW h \in Gateways, h # g
      PROVE  WireEnds(h)'
  <2>1. Still(h) /\ WireEnds(h)
    BY <1>2, GatewayAlone DEF EndInv
  <2>2. h \in Broken => h \in Broken'
    BY BrokenByGateway
  <2>3. QED
    BY <1>1, <2>1, <2>2, WireEndsStill
<1>3. WireEnds(g)'
  <2>0. Expected' = Expected
    BY DEF Expected
  <2>1. CASE GatewayWrite(g)
    <3>1. PICK m \in FromGateway(g) : toProxy'[g] = Append(toProxy[g], m) /\ IsPacket(m)
      <4>1. PICK p \in PacketsOf(g) : toProxy'[g] = Append(toProxy[g], p)
        BY <1>0, <2>1, WritesPacket
      <4>2. p \in FromGateway(g) /\ IsPacket(p)
        BY OwnPackets, PacketIsOther DEF FromGateway
      <4>3. QED
        BY <4>1, <4>2
    <3>2. g \notin dead /\ gateway[g] = "loop"
      BY <2>1 DEF GatewayWrite
    <3>3. /\ Closed(toProxy'[g])
          /\ ~Holds(toProxy'[g], Bye) /\ ~Holds(toProxy'[g], Eof) /\ ~Holds(toProxy'[g], Reset)
          /\ inThread[g] \notin {"leave", "ended", "error"}
      <4>1. /\ Closed(Append(toProxy[g], m))
            /\ \A p : Holds(Append(toProxy[g], m), p) <=> Holds(toProxy[g], p) \/ p = m
        BY <1>0, <3>2, OpenAppend
      <4>2. m # Bye /\ m # Eof /\ m # Reset
        BY <3>1, OthersAreOther
      <4>3. /\ ~Holds(toProxy[g], Bye) /\ ~Holds(toProxy[g], Eof) /\ ~Holds(toProxy[g], Reset)
            /\ inThread[g] \notin {"leave", "ended", "error"}
        BY <1>0, <3>2, WireOpen
      <4>4. QED
        BY <3>1, <4>1, <4>2, <4>3
    <3>4. UNCHANGED <<gateway, dead, got, toGateway>>
      BY <2>1 DEF GatewayWrite
    <3>5. QED
      BY <1>0, <1>1, <2>0, <3>3, <3>4 DEF WireEnds
  <2>2. CASE GatewayRead(g)
    <3>1. UNCHANGED <<toProxy, gateway, dead>> /\ gateway[g] = "loop" /\ g \notin dead
      BY <2>2 DEF GatewayRead
    <3>2. QED
      BY <1>0, <1>1, <2>0, <3>1 DEF WireEnds, Broken
  <2>3. CASE GatewayLeave(g)
    <3>1. /\ UNCHANGED <<toProxy, toGateway, dead, got>> /\ gateway'[g] = "left" /\ gateway[g] = "loop"
          /\ g \notin dead /\ Len(got[g]) = Expected[g]
      BY <1>0, <2>3 DEF GatewayLeave, GatewayTypes, wires
    <3>2. /\ ~Holds(toProxy[g], Bye) /\ ~Holds(toProxy[g], Eof) /\ ~Holds(toProxy[g], Reset)
          /\ inThread[g] \notin {"leave", "ended", "error"}
      BY <1>0, <3>1, WireOpen
    <3>3. QED
      BY <1>0, <1>1, <2>0, <3>1, <3>2 DEF WireEnds
  <2>4. CASE GatewayBye(g)
    <3>1. /\ UNCHANGED <<toGateway, dead, got>> /\ gateway'[g] = "joined" /\ gateway[g] = "left"
          /\ g \notin dead /\ toProxy'[g] = Append(toProxy[g], Bye)
      BY <1>0, <2>4 DEF GatewayBye, GatewayTypes, WireTypes
    <3>2. Bye \in FromGateway(g)
      BY DEF FromGateway
    <3>3. /\ Closed(toProxy'[g])
          /\ ~Holds(toProxy'[g], Eof) /\ ~Holds(toProxy'[g], Reset)
          /\ inThread[g] \notin {"leave", "ended", "error"}
      <4>1. /\ Closed(Append(toProxy[g], Bye))
            /\ \A p : Holds(Append(toProxy[g], Bye), p) <=> Holds(toProxy[g], p) \/ p = Bye
        BY <1>0, <3>1, <3>2, OpenAppend
      <4>2. /\ ~Holds(toProxy[g], Eof) /\ ~Holds(toProxy[g], Reset)
            /\ inThread[g] \notin {"leave", "ended", "error"}
        BY <1>0, <3>1, WireOpen
      <4>3. QED
        BY <3>1, <4>1, <4>2, OthersAreOther
    <3>4. QED
      BY <1>0, <1>1, <2>0, <3>1, <3>3 DEF WireEnds
  <2>5. CASE GatewayCleanup(g)
    <3>1. /\ UNCHANGED <<toProxy, dead, got>> /\ gateway'[g] = "ended" /\ gateway[g] = "joined"
          /\ g \notin dead
      BY <1>0, <2>5 DEF GatewayCleanup, GatewayTypes
    <3>2. g \notin Broken
      BY <3>1 DEF Broken
    <3>3. QED
      BY <1>0, <1>1, <2>0, <3>1, <3>2 DEF WireEnds
  <2>6. CASE GatewayAbort(g) \/ Crash(g)
    <3>1. Die(g) /\ gateway[g] # "ended" /\ UNCHANGED <<got, gateway>>
      BY <2>6 DEF GatewayAbort, Crash, Die
    <3>2. QED
      BY <1>1, <3>1, DieEnds
  <2>7. QED
    BY <2>1, <2>2, <2>3, <2>4, <2>5, <2>6 DEF GatewayStep
<1>4. QED
  BY <1>2, <1>3 DEF EndInv

\* An in-thread reads to the end of the connection.
LEMMA InEnds ==
  ASSUME AllTypes, EndInv, NEW g \in Gateways, InStep(g)
  PROVE  EndInv'
<1>0. GatewayTypes /\ ThreadTypes /\ WireTypes /\ WireEnds(g) /\ TableTypes
  BY DEF AllTypes, Inv, Types, EndInv
<1>1. UNCHANGED <<gateway, dead, got, toGateway>> /\ Broken' = Broken /\ Expected' = Expected
  BY InAlone, BrokenByThread DEF Expected
<1>2. mutexHeld => mutexHeld'
  BY DEF InStep, InRegister, Register, InLine, InCheck, InCharge, InPut, InBye, InError,
         InErrorLocks, InRaises, InLeave, Unregister, tableVars
<1>3. ASSUME NEW h \in Gateways, h # g
      PROVE  WireEnds(h)'
  <2>1. Still(h) /\ WireEnds(h)
    BY <1>3, InAlone DEF EndInv
  <2>2. QED
    BY <1>1, <1>2, <2>1, WireEndsStill
<1>4. ASSUME toProxy[g] # <<>>, toProxy'[g] = Tail(toProxy[g])
      PROVE  /\ Closed(toProxy'[g]) /\ (~IsPacket(Head(toProxy[g])) => toProxy'[g] = <<>>)
             /\ \A p : Holds(toProxy[g], p) <=> Holds(toProxy'[g], p) \/ p = Head(toProxy[g])
  <2> DEFINE T == FromGateway(g)
  <2>1. toProxy[g] \in Seq(T) /\ Closed(toProxy[g])
    BY <1>0 DEF WireTypes, WireEnds
  <2> HIDE DEF T
  <2>2. QED
    BY <1>4, <2>1, ClosedTail, TailHolds
<1>5. WireEnds(g)'
  <2>1. CASE InLine(g)
    <3>1. toProxy[g] # <<>> /\ toProxy'[g] = Tail(toProxy[g]) /\ inThread'[g] = "wait"
      BY <1>0, <2>1 DEF InLine, WireTypes, ThreadTypes
    <3>2. QED
      BY <1>0, <1>1, <1>4, <3>1 DEF WireEnds
  <2>2. CASE InBye(g)
    <3>1. /\ toProxy[g] # <<>> /\ toProxy'[g] = Tail(toProxy[g]) /\ inThread'[g] = "leave"
          /\ Head(toProxy[g]) = Bye
      BY <1>0, <2>2 DEF InBye, WireTypes, ThreadTypes
    <3>2. toProxy'[g] = <<>> /\ Holds(toProxy[g], Bye) /\ Closed(toProxy'[g])
          /\ \A p : ~Holds(toProxy'[g], p)
      BY <1>4, <3>1, OthersAreOther, NothingHeld
    <3>3. QED
      BY <1>0, <1>1, <3>1, <3>2 DEF WireEnds
  <2>3. CASE InError(g)
    <3>1. /\ toProxy[g] # <<>> /\ toProxy'[g] = Tail(toProxy[g]) /\ inThread'[g] = "error"
          /\ Head(toProxy[g]) = Eof
      BY <1>0, <2>3 DEF InError, WireTypes, ThreadTypes
    <3>2. toProxy'[g] = <<>> /\ Holds(toProxy[g], Eof) /\ Closed(toProxy'[g])
          /\ \A p : ~Holds(toProxy'[g], p)
      BY <1>4, <3>1, OthersAreOther, NothingHeld
    <3>3. QED
      BY <1>0, <1>1, <3>1, <3>2 DEF WireEnds
  <2>4. CASE InErrorLocks(g)
    <3>1. /\ UNCHANGED toProxy /\ inThread'[g] = "leave" /\ inThread[g] = "error" /\ mutexHeld'
      BY <1>0, <2>4 DEF InErrorLocks, wires, ThreadTypes
    <3>2. QED
      BY <1>0, <1>1, <3>1 DEF WireEnds
  <2>5. CASE InLeave(g)
    <3>1. /\ UNCHANGED toProxy /\ inThread'[g] = "ended" /\ inThread[g] = "leave" /\ ~mutexHeld
      BY <1>0, <2>5 DEF InLeave, Unregister, wires, ThreadTypes
    <3>2. QED
      BY <1>0, <1>1, <3>1 DEF WireEnds
  <2>6. CASE InRegister(g) \/ InCheck(g) \/ InCharge(g) \/ InPut(g) \/ InRaises(g)
    <3>1. /\ UNCHANGED toProxy /\ inThread'[g] \notin {"leave", "ended", "error"}
      BY <1>0, <2>6 DEF InRegister, InCheck, InCharge, InPut, InRaises, wires, ThreadTypes
    <3>2. QED
      BY <1>0, <1>1, <3>1 DEF WireEnds
  <2>7. QED
    BY <2>1, <2>2, <2>3, <2>4, <2>5, <2>6 DEF InStep
<1>6. QED
  BY <1>3, <1>5 DEF EndInv

\* An out-thread has nothing to do with it.
LEMMA OutEnds ==
  ASSUME AllTypes, EndInv, NEW g \in Gateways, OutStep(g)
  PROVE  EndInv'
<1>0. GatewayTypes /\ ThreadTypes /\ WireEnds(g)
  BY DEF AllTypes, EndInv
<1>1. UNCHANGED <<gateway, dead, got, toProxy, inThread, mutexHeld>> /\ Broken' = Broken
      /\ Expected' = Expected
  BY OutAlone, BrokenByThread DEF Expected
<1>2. ASSUME NEW h \in Gateways, h # g
      PROVE  WireEnds(h)'
  <2>1. Still(h) /\ WireEnds(h)
    BY <1>2, OutAlone DEF EndInv
  <2>2. QED
    BY <1>1, <2>1, WireEndsStill
<1>3. g \in dead => toGateway' = toGateway
  BY DEF OutStep, OutRegister, OutGet, OutWrite, OutBye, OutRaises, OutReduce, OutLeave, OutWire,
         wires
<1>4. WireEnds(g)'
  BY <1>0, <1>1, <1>3 DEF WireEnds
<1>5. QED
  BY <1>2, <1>4 DEF EndInv

-----------------------------------------------------------------------------
(* Where packets go                                                        *)

Items == Packets \cup {Bye, None}
Lines == Packets \cup {Bye, Eof}

\* The sequences of a gateway are of their types.
LEMMA Sequences ==
  ASSUME AllTypes, NEW g \in Gateways
  PROVE  /\ toProxy[g] \in Seq(FromGateway(g)) /\ queue[g] \in Seq(Items)
         /\ toGateway[g] \in Seq(Lines) /\ got[g] \in Seq(Packets)
<1>1. toProxy[g] \in Seq(FromGateway(g))
  BY DEF AllTypes, Inv, Types, WireTypes
<1>2. queue \in [Gateways -> Seq(Items)]
  BY DEF AllTypes, Inv, Types, QueueTypes, Items
<1>3. toGateway \in [Gateways -> Seq(Lines)] /\ got \in [Gateways -> Seq(Packets)]
  BY DEF AllTypes, GatewayTypes, Lines
<1> HIDE DEF Items
<1>4. QED
  BY <1>1, <1>2, <1>3

\* The first element of a sequence is taken, or one is added to it.
LEMMA Taking ==
  ASSUME NEW S, NEW s \in Seq(S), s # <<>>, NoRepeat(s)
  PROVE  /\ Head(s) \in S /\ Holds(s, Head(s)) /\ NoRepeat(Tail(s))
         /\ \A p \in Packets : Holds(Tail(s), p) <=> Holds(s, p) /\ p # Head(s)
         /\ \A g : AllFor(s, g) => AllFor(Tail(s), g) /\ (IsPacket(Head(s)) => Head(s).to = g)
<1>1. \A p : Holds(s, p) <=> Holds(Tail(s), p) \/ p = Head(s)
  BY TailHolds
<1>2. NoRepeat(Tail(s)) /\ (IsPacket(Head(s)) => ~Holds(Tail(s), Head(s)))
  BY TailApart
<1>3. \A g : AllFor(s, g) => AllFor(Tail(s), g) /\ (IsPacket(Head(s)) => Head(s).to = g)
  BY TailAllFor
<1>4. Head(s) \in S
  BY HeadTailProperties
<1>5. QED
  BY <1>1, <1>2, <1>3, <1>4, PacketIsOther

LEMMA Adding ==
  ASSUME NEW S, NEW s \in Seq(S), NEW m \in S, NoRepeat(s), IsPacket(m) => ~Holds(s, m)
  PROVE  /\ NoRepeat(Append(s, m))
         /\ \A p : Holds(Append(s, m), p) <=> Holds(s, p) \/ p = m
         /\ \A g : AllFor(s, g) /\ (IsPacket(m) => m.to = g) => AllFor(Append(s, m), g)
<1>1. NoRepeat(Append(s, m))
  BY AppendApart
<1>2. \A p : Holds(Append(s, m), p) <=> Holds(s, p) \/ p = m
  BY AppendHolds
<1>3. \A g : AllFor(s, g) /\ (IsPacket(m) => m.to = g) => AllFor(Append(s, m), g)
  BY AppendAllFor
<1>4. QED
  BY <1>1, <1>2, <1>3

PlacesInv == PacketInv /\ LinesInv

\* Gateways put packets on their wires and take them from theirs.
LEMMA WriteFlows ==
  ASSUME AllTypes, PlacesInv, NEW g \in Gateways, GatewayWrite(g)
  PROVE  PlacesInv'
<1>0. WireTypes /\ SentTypes /\ toProxy[g] \in Seq(FromGateway(g)) /\ NoRepeat(toProxy[g])
  BY Sequences DEF AllTypes, Inv, Types, PlacesInv, LinesInv
<1>1. PICK q \in PacketsOf(g) : /\ toProxy'[g] = Append(toProxy[g], q)
                                /\ q.n = sent[g] + 1 /\ q.len = q.size
  BY <1>0, WritesPacket
<1>2. q \in Packets /\ q.from = g /\ q \in FromGateway(g)
  BY OwnPackets, PacketOrigin DEF FromGateway
<1>3. ~Somewhere(q)
  <2>1. g \notin dead /\ sent[g] \in Nat
    BY <1>0 DEF GatewayWrite, SentTypes
  <2>2. ~(q.n <= sent[g]) /\ g \notin Broken
    BY <1>1, <2>1 DEF Broken
  <2>3. ~Written(q)
    BY <1>2, <2>2 DEF Written
  <2>4. QED
    BY <1>2, <2>3 DEF PlacesInv, PacketInv
<1>4. ~Holds(toProxy[g], q)
  BY <1>2, <1>3 DEF Somewhere, OnWire
<1>5. /\ NoRepeat(toProxy'[g])
      /\ \A p : Holds(toProxy'[g], p) <=> Holds(toProxy[g], p) \/ p = q
  BY <1>0, <1>1, <1>2, <1>4, Adding
<1>6. \A h \in Gateways : h # g => Still(h)
  BY GatewayAlone DEF GatewayStep
<1>7. UNCHANGED <<gateway, dead, got, toGateway, queue, inHand, outHand, outThread>> /\ Broken' = Broken
  BY BrokenByThread DEF GatewayWrite, inVars, outVars, tableVars
<1>8. sent'[g] = sent[g] + 1 /\ sent[g] \in Nat
  BY <1>0 DEF GatewayWrite, SentTypes
<1>9. ASSUME NEW p \in Packets
      PROVE  OncePlaced(p)' /\ (Somewhere(p)' => Written(p)')
  <2>0. p.from \in Gateways /\ p.n \in Nat /\ OncePlaced(p) /\ (Somewhere(p) => Written(p))
    BY PacketRoute DEF PlacesInv, PacketInv
  <2>1. OnWire(p)' <=> OnWire(p) \/ p = q
    BY <1>2, <1>5, <1>6, <2>0 DEF OnWire, Still
  <2>2. /\ (InHands(p)' <=> InHands(p)) /\ (Queued(p)' <=> Queued(p)) /\ (Taken(p)' <=> Taken(p))
    BY <1>7 DEF InHands, Queued, Taken
  <2>3. (OnLine(p)' <=> OnLine(p)) /\ (Received(p)' <=> Received(p))
    BY <1>7 DEF OnLine, Received
  <2>4. OncePlaced(p)'
    <3>1. CASE p = q
      BY <1>3, <1>7, <2>1, <2>2, <2>3, <3>1 DEF OncePlaced, Somewhere
    <3>2. CASE p # q
      BY <1>7, <2>0, <2>1, <2>2, <2>3, <3>2 DEF OncePlaced
    <3>3. QED
      BY <3>1, <3>2
  <2>5. Written(p) => Written(p)'
    <3>1. sent'[p.from] = sent[p.from] \/ (p.from = g /\ sent'[p.from] = sent[p.from] + 1)
      BY <1>6, <1>8, <2>0 DEF Still
    <3>2. sent[p.from] \in Nat
      BY <1>0, <2>0 DEF SentTypes
    <3>3. p.n <= sent[p.from] => p.n <= sent'[p.from]
      BY <2>0, <3>1, <3>2
    <3>4. QED
      BY <1>7, <3>3 DEF Written, IsCut
  <2>6. p = q => Written(p)'
    <3>1. q.n <= sent'[q.from] /\ ~IsCut(q)
      <4>1. q.size \in Nat
        BY <1>2, AnyPacket
      <4>2. QED
        BY <1>1, <1>2, <1>8, <4>1 DEF IsCut
    <3>2. QED
      BY <3>1 DEF Written, IsCut
  <2>7. QED
    BY <2>0, <2>1, <2>2, <2>3, <2>4, <2>5, <2>6 DEF Somewhere
<1>10. LinesInv'
  BY <1>5, <1>6, <1>7 DEF PlacesInv, LinesInv, Still
<1>11. QED
  BY <1>9, <1>10 DEF PlacesInv, PacketInv

\* A gateway reads what the proxy has written.
LEMMA ReadFlows ==
  ASSUME AllTypes, PlacesInv, NEW g \in Gateways, GatewayRead(g)
  PROVE  PlacesInv'
<1> DEFINE q == Head(toGateway[g])
<1>0. /\ GatewayTypes /\ toGateway[g] \in Seq(Lines) /\ got[g] \in Seq(Packets)
      /\ NoRepeat(toGateway[g]) /\ AllFor(toGateway[g], g) /\ NoRepeat(got[g]) /\ AllFor(got[g], g)
      /\ toGateway[g] # <<>> /\ q # Eof
  BY Sequences DEF AllTypes, PlacesInv, LinesInv, GatewayRead
<1>1. /\ toGateway'[g] = Tail(toGateway[g])
      /\ IF q = Bye THEN got' = got ELSE got'[g] = Append(got[g], q)
  BY <1>0 DEF GatewayRead, GatewayTypes
<1>2. UNCHANGED <<gateway, dead, sent, toProxy, queue, inHand, outHand, outThread>> /\ Broken' = Broken
  BY BrokenByThread DEF GatewayRead, inVars, outVars, tableVars
<1>3. \A h \in Gateways : h # g => Still(h)
  BY GatewayAlone DEF GatewayStep
<1>4. /\ q \in Lines /\ Holds(toGateway[g], q) /\ NoRepeat(toGateway'[g]) /\ AllFor(toGateway'[g], g)
      /\ \A p \in Packets : Holds(toGateway'[g], p) <=> Holds(toGateway[g], p) /\ p # q
      /\ IsPacket(q) => q.to = g
  BY <1>0, <1>1, Taking
<1> HIDE DEF q
<1>5. CASE q = Bye
  <2>1. ASSUME NEW p \in Packets
        PROVE  OncePlaced(p)' /\ (Somewhere(p)' => Written(p)')
    <3>0. p.to \in Gateways /\ p # Bye /\ OncePlaced(p) /\ (Somewhere(p) => Written(p))
      BY PacketRoute, PacketIsOther DEF PlacesInv, PacketInv
    <3>1. /\ (OnWire(p)' <=> OnWire(p)) /\ (InHands(p)' <=> InHands(p)) /\ (Queued(p)' <=> Queued(p))
          /\ (Taken(p)' <=> Taken(p))
      BY <1>2 DEF OnWire, InHands, Queued, Taken
    <3>2. Received(p)' <=> Received(p)
      BY <1>1, <1>5 DEF Received
    <3>3. OnLine(p)' <=> OnLine(p)
      BY <1>3, <1>4, <1>5, <3>0 DEF OnLine, Still
    <3>4. Written(p)' <=> Written(p)
      BY <1>2 DEF Written, IsCut
    <3>5. QED
      BY <1>2, <3>0, <3>1, <3>2, <3>3, <3>4 DEF OncePlaced, Somewhere
  <2>2. LinesInv'
    BY <1>1, <1>2, <1>3, <1>4, <1>5 DEF PlacesInv, LinesInv, Still
  <2>3. QED
    BY <2>1, <2>2 DEF PlacesInv, PacketInv
<1>6. CASE q # Bye
  <2>0. q \in Packets /\ IsPacket(q) /\ q.to = g
    BY <1>0, <1>4, <1>6, PacketIsOther DEF Lines
  <2>1. OnLine(q) /\ ~Received(q) /\ ~OnWire(q) /\ ~InHands(q) /\ ~Queued(q)
        /\ ~(Taken(q) /\ outThread[g] = "write")
    <3>1. OnLine(q)
      BY <1>4, <2>0 DEF OnLine
    <3>2. OncePlaced(q)
      BY <2>0 DEF PlacesInv, PacketInv
    <3>3. QED
      BY <2>0, <3>1, <3>2 DEF OncePlaced
  <2>2. /\ NoRepeat(got'[g]) /\ AllFor(got'[g], g)
        /\ \A p : Holds(got'[g], p) <=> Holds(got[g], p) \/ p = q
    <3>1. ~Holds(got[g], q)
      BY <2>0, <2>1 DEF Received
    <3>2. /\ NoRepeat(Append(got[g], q)) /\ AllFor(Append(got[g], q), g)
          /\ \A p : Holds(Append(got[g], q), p) <=> Holds(got[g], p) \/ p = q
      BY <1>0, <2>0, <3>1, Adding
    <3>3. QED
      BY <1>1, <1>6, <3>2
  <2>3. ASSUME NEW p \in Packets
        PROVE  OncePlaced(p)' /\ (Somewhere(p)' => Written(p)')
    <3>0. p.to \in Gateways /\ OncePlaced(p) /\ (Somewhere(p) => Written(p))
      BY PacketRoute DEF PlacesInv, PacketInv
    <3>1. /\ (OnWire(p)' <=> OnWire(p)) /\ (InHands(p)' <=> InHands(p)) /\ (Queued(p)' <=> Queued(p))
          /\ (Taken(p)' <=> Taken(p))
      BY <1>2 DEF OnWire, InHands, Queued, Taken
    <3>2. Received(p)' <=> Received(p) \/ p = q
      BY <1>3, <2>0, <2>2, <3>0 DEF Received, Still
    <3>3. OnLine(p)' <=> OnLine(p) /\ p # q
      BY <1>3, <1>4, <2>0, <3>0 DEF OnLine, Still
    <3>4. Written(p)' <=> Written(p)
      BY <1>2 DEF Written, IsCut
    <3>5. CASE p = q
      BY <1>2, <2>0, <2>1, <3>0, <3>1, <3>2, <3>3, <3>4, <3>5 DEF OncePlaced, Somewhere
    <3>6. CASE p # q
      BY <1>2, <3>0, <3>1, <3>2, <3>3, <3>4, <3>6 DEF OncePlaced, Somewhere
    <3>7. QED
      BY <3>5, <3>6
  <2>4. LinesInv'
    BY <1>1, <1>2, <1>3, <1>4, <2>2 DEF PlacesInv, LinesInv, Still
  <2>5. QED
    BY <2>3, <2>4 DEF PlacesInv, PacketInv
<1>7. QED
  BY <1>5, <1>6

\* A step that leaves the packets where they are, or loses some.
LEMMA NoFlow ==
  ASSUME PlacesInv,
         \A p \in Packets :
           /\ (OnWire(p)' => OnWire(p)) /\ (InHands(p)' => InHands(p)) /\ (Queued(p)' => Queued(p))
           /\ (Taken(p)' => Taken(p)) /\ (OnLine(p)' => OnLine(p)) /\ (Received(p)' => Received(p))
           /\ Taken(p)' /\ outThread'[p.to] = "write" => outThread[p.to] = "write"
           /\ Written(p) => Written(p)'
  PROVE  PacketInv'
<1> SUFFICES ASSUME NEW p \in Packets
             PROVE  OncePlaced(p)' /\ (Somewhere(p)' => Written(p)')
  BY DEF PacketInv
<1>1. OncePlaced(p) /\ (Somewhere(p) => Written(p))
  BY DEF PlacesInv, PacketInv
<1>2. Somewhere(p)' => Somewhere(p)
  BY DEF Somewhere
<1>3. OncePlaced(p)'
  BY <1>1 DEF OncePlaced
<1>4. QED
  BY <1>1, <1>2, <1>3

\* A gateway that leaves, says "bye" or reads it.
LEMMA EndingFlows ==
  ASSUME AllTypes, PlacesInv, NEW g \in Gateways,
         GatewayLeave(g) \/ GatewayBye(g) \/ GatewayCleanup(g)
  PROVE  PlacesInv'
<1>0. /\ GatewayTypes /\ WireTypes /\ toProxy[g] \in Seq(FromGateway(g)) /\ toGateway[g] \in Seq(Lines)
      /\ NoRepeat(toProxy[g]) /\ NoRepeat(toGateway[g]) /\ AllFor(toGateway[g], g)
  BY Sequences DEF AllTypes, Inv, Types, PlacesInv, LinesInv
<1>1. UNCHANGED <<dead, sent, got, queue, inHand, outHand, outThread>>
  BY DEF GatewayLeave, GatewayBye, GatewayCleanup, inVars, outVars, tableVars
<1>2. Broken \subseteq Broken' /\ \A h \in Gateways : h # g => Still(h)
  BY GatewayAlone, BrokenByGateway DEF GatewayStep
<1>3. /\ NoRepeat(toProxy'[g])
      /\ \A p \in Packets : Holds(toProxy'[g], p) <=> Holds(toProxy[g], p)
  <2>1. CASE GatewayLeave(g) \/ GatewayCleanup(g)
    BY <1>0, <2>1 DEF GatewayLeave, GatewayCleanup, wires
  <2>2. CASE GatewayBye(g)
    <3>1. toProxy'[g] = Append(toProxy[g], Bye)
      BY <1>0, <2>2 DEF GatewayBye, WireTypes
    <3>2. Bye \in FromGateway(g) /\ ~IsPacket(Bye)
      BY OthersAreOther DEF FromGateway
    <3>3. /\ NoRepeat(Append(toProxy[g], Bye))
          /\ \A p : Holds(Append(toProxy[g], Bye), p) <=> Holds(toProxy[g], p) \/ p = Bye
      BY <1>0, <3>2, Adding
    <3>4. QED
      BY <3>1, <3>3, PacketIsOther
  <2>3. QED
    BY <2>1, <2>2
<1>4. /\ NoRepeat(toGateway'[g]) /\ AllFor(toGateway'[g], g)
      /\ \A p \in Packets : Holds(toGateway'[g], p) => Holds(toGateway[g], p)
  <2>1. CASE toGateway'[g] = toGateway[g]
    BY <1>0, <2>1
  <2>2. CASE toGateway[g] # <<>> /\ toGateway'[g] = Tail(toGateway[g])
    <3>1. /\ NoRepeat(Tail(toGateway[g])) /\ AllFor(Tail(toGateway[g]), g)
          /\ \A p \in Packets : Holds(Tail(toGateway[g]), p)
                                  <=> Holds(toGateway[g], p) /\ p # Head(toGateway[g])
      BY <1>0, <2>2, Taking
    <3>2. QED
      BY <2>2, <3>1
  <2>3. QED
    BY <1>0, <2>1, <2>2 DEF GatewayLeave, GatewayBye, GatewayCleanup, GatewayTypes, wires
<1>5. ASSUME NEW p \in Packets
      PROVE  /\ (OnWire(p)' => OnWire(p)) /\ (OnLine(p)' => OnLine(p))
             /\ (InHands(p)' => InHands(p)) /\ (Queued(p)' => Queued(p))
             /\ (Taken(p)' => Taken(p)) /\ (Received(p)' => Received(p))
             /\ (Written(p) => Written(p)')
  <2>1. p.from \in Gateways /\ p.to \in Gateways
    BY PacketRoute
  <2>2. (OnWire(p)' => OnWire(p)) /\ (OnLine(p)' => OnLine(p))
    BY <1>2, <1>3, <1>4, <2>1 DEF OnWire, OnLine, Still
  <2>3. QED
    BY <1>1, <1>2, <2>2 DEF InHands, Queued, Taken, Received, Written, IsCut
<1>6. PacketInv'
  BY <1>1, <1>5, NoFlow
<1>7. LinesInv'
  BY <1>1, <1>2, <1>3, <1>4 DEF PlacesInv, LinesInv, Still
<1>8. QED
  BY <1>6, <1>7 DEF PlacesInv

\* The packet a gateway was writing when it died may arrive cut.
LEMMA DieFlows ==
  ASSUME AllTypes, PlacesInv, NEW g \in Gateways, Die(g), GatewayAbort(g) \/ Crash(g)
  PROVE  PlacesInv'
<1>0. /\ GatewayTypes /\ WireTypes /\ SentTypes /\ toProxy[g] \in Seq(FromGateway(g))
      /\ NoRepeat(toProxy[g])
  BY Sequences DEF AllTypes, Inv, Types, PlacesInv, LinesInv
<1>1. UNCHANGED <<gateway, sent, got, queue, inHand, outHand, outThread>>
  BY DEF Die, inVars, outVars, tableVars
<1>2. Broken \subseteq Broken' /\ \A h \in Gateways : h # g => Still(h)
  BY GatewayAlone, BrokenByGateway DEF GatewayStep
<1>3. toGateway'[g] = <<>> /\ g \notin dead /\ dead' = dead \cup {g}
  BY <1>0 DEF Die, GatewayTypes
<1>4. Eof \in FromGateway(g) /\ ~IsPacket(Eof) /\ Reset \in FromGateway(g) /\ ~IsPacket(Reset)
  BY OthersAreOther DEF FromGateway
<1>5. ASSUME NEW p \in Packets
      PROVE  /\ (p.from # g => (OnWire(p)' <=> OnWire(p))) /\ (OnLine(p)' => OnLine(p))
             /\ (InHands(p)' <=> InHands(p)) /\ (Queued(p)' <=> Queued(p))
             /\ (Taken(p)' <=> Taken(p)) /\ (Received(p)' <=> Received(p))
             /\ (Written(p) => Written(p)')
  <2>1. p.from \in Gateways /\ p.to \in Gateways
    BY PacketRoute
  <2>2. (p.from # g => (OnWire(p)' <=> OnWire(p))) /\ (OnLine(p)' => OnLine(p))
    BY <1>2, <1>3, <2>1, NothingHeld DEF OnWire, OnLine, Still
  <2>3. QED
    BY <1>1, <1>2, <2>2 DEF InHands, Queued, Taken, Received, Written, IsCut
<1>6. /\ \A h \in Gateways : NoRepeat(toGateway'[h]) /\ AllFor(toGateway'[h], h)
      /\ \A h \in Gateways : h # g => NoRepeat(toProxy'[h])
  BY <1>2, <1>3, EmptyApart DEF PlacesInv, LinesInv, Still
<1>7. ASSUME NoRepeat(toProxy'[g])
      PROVE  LinesInv'
  BY <1>1, <1>6, <1>7 DEF PlacesInv, LinesInv
<1>8. ASSUME NoRepeat(toProxy'[g]),
             \A p \in Packets : Holds(toProxy'[g], p) => Holds(toProxy[g], p)
      PROVE  PlacesInv'
  <2>1. \A p \in Packets : OnWire(p)' => OnWire(p)
    BY <1>5, <1>8 DEF OnWire
  <2>2. PacketInv'
    BY <1>1, <1>5, <2>1, NoFlow
  <2>3. QED
    BY <1>7, <1>8, <2>2 DEF PlacesInv
<1>9. CASE toProxy' = toProxy
  BY <1>0, <1>8, <1>9
<1>10. CASE toProxy' = [toProxy EXCEPT ![g] = Append(@, Eof)]
  <2>1. toProxy'[g] = Append(toProxy[g], Eof)
    BY <1>0, <1>10 DEF WireTypes
  <2>2. /\ NoRepeat(Append(toProxy[g], Eof))
        /\ \A p : Holds(Append(toProxy[g], Eof), p) <=> Holds(toProxy[g], p) \/ p = Eof
    BY <1>0, <1>4, Adding
  <2>3. QED
    BY <1>8, <2>1, <2>2, PacketIsOther
<1>11. CASE toProxy' = [toProxy EXCEPT ![g] = <<Reset>>]
  <2>1. toProxy'[g] = <<Reset>>
    BY <1>0, <1>11 DEF WireTypes
  <2>2. NoRepeat(<<Reset>>)
    BY DEF NoRepeat
  <2>3. \A p : Holds(<<Reset>>, p) => p = Reset
    BY DEF Holds
  <2>4. QED
    BY <1>8, <2>1, <2>2, <2>3, PacketIsOther
<1>12. ASSUME NEW q \in PacketsOf(g), q.n = sent[g] + 1, IsCut(q), gateway[g] = "loop",
              toProxy' = [toProxy EXCEPT ![g] = @ \o <<q, Eof>>]
       PROVE  PlacesInv'
  <2>0. q \in Packets /\ q.from = g /\ q \in FromGateway(g) /\ q # Eof /\ sent[g] \in Nat
    BY <1>0, OwnPackets, PacketOrigin, PacketIsOther DEF FromGateway, SentTypes
  <2>1. ~Somewhere(q)
    <3>1. ~(q.n <= sent[g]) /\ g \notin Broken
      BY <1>3, <1>12, <2>0 DEF Broken
    <3>2. ~Written(q)
      BY <2>0, <3>1 DEF Written
    <3>3. QED
      BY <2>0, <3>2 DEF PlacesInv, PacketInv
  <2>2. ~Holds(toProxy[g], q)
    BY <2>0, <2>1 DEF Somewhere, OnWire
  <2>3. toProxy'[g] = Append(Append(toProxy[g], q), Eof)
    <3>1. toProxy'[g] = toProxy[g] \o <<q, Eof>>
      BY <1>0, <1>12 DEF WireTypes
    <3>2. QED
      BY <1>0, <1>4, <2>0, <3>1, AppendTwo
  <2>4. /\ NoRepeat(Append(toProxy[g], q)) /\ Append(toProxy[g], q) \in Seq(FromGateway(g))
        /\ \A p : Holds(Append(toProxy[g], q), p) <=> Holds(toProxy[g], p) \/ p = q
    BY <1>0, <2>0, <2>2, Adding, AppendProperties
  <2>5. PICK s : s = Append(toProxy[g], q)
    OBVIOUS
  <2>6. /\ NoRepeat(Append(s, Eof))
        /\ \A p : Holds(Append(s, Eof), p) <=> Holds(s, p) \/ p = Eof
    <3>1. s \in Seq(FromGateway(g)) /\ NoRepeat(s)
      BY <2>4, <2>5
    <3>2. QED
      BY <1>4, <3>1, Adding
  <2>7. /\ NoRepeat(toProxy'[g])
        /\ \A p \in Packets : Holds(toProxy'[g], p) <=> Holds(toProxy[g], p) \/ p = q
    BY <2>3, <2>4, <2>5, <2>6, PacketIsOther
  <2>8. \A p \in Packets : OnWire(p)' <=> OnWire(p) \/ p = q
    BY <1>5, <2>0, <2>7 DEF OnWire
  <2>9. g \in Broken'
    BY <1>1, <1>3, <1>12 DEF Broken
  <2>10. ASSUME NEW p \in Packets
         PROVE  OncePlaced(p)' /\ (Somewhere(p)' => Written(p)')
    <3>0. OncePlaced(p) /\ (Somewhere(p) => Written(p)) /\ (OnWire(p)' <=> OnWire(p) \/ p = q)
      BY <2>8 DEF PlacesInv, PacketInv
    <3>1. CASE p = q
      <4>1. Written(q)'
        BY <2>0, <2>9 DEF Written
      <4>2. ~InHands(p)' /\ ~Queued(p)' /\ ~Taken(p)' /\ ~OnLine(p)' /\ ~Received(p)'
        BY <1>5, <2>1, <3>1 DEF Somewhere
      <4>3. QED
        BY <3>1, <4>1, <4>2 DEF OncePlaced
    <3>2. CASE p # q
      <4>1. Somewhere(p)' => Somewhere(p)
        BY <1>5, <3>0, <3>2 DEF Somewhere
      <4>2. OncePlaced(p)'
        BY <1>1, <1>5, <3>0, <3>2 DEF OncePlaced
      <4>3. QED
        BY <1>5, <3>0, <4>1, <4>2
    <3>3. QED
      BY <3>1, <3>2
  <2>11. QED
    BY <1>7, <2>7, <2>10 DEF PlacesInv, PacketInv
<1>13. QED
  BY <1>9, <1>10, <1>11, <1>12 DEF Die

\* No step of a gateway doubles a packet.
LEMMA GatewayFlows ==
  ASSUME AllTypes, PlacesInv, NEW g \in Gateways, GatewayStep(g) \/ Crash(g)
  PROVE  PlacesInv'
<1>1. CASE GatewayAbort(g) \/ Crash(g)
  BY <1>1, DieFlows DEF GatewayAbort, Crash
<1>2. QED
  BY <1>1, WriteFlows, ReadFlows, EndingFlows DEF GatewayStep

-----------------------------------------------------------------------------
(* In-threads                                                              *)

\* An in-thread has read the line of a packet.
LEMMA LineFlows ==
  ASSUME AllTypes, PlacesInv, NEW g \in Gateways, InLine(g)
  PROVE  PlacesInv'
<1> DEFINE q == Head(toProxy[g])
<1>0. /\ ThreadTypes /\ WireTypes /\ InTypes /\ toProxy[g] \in Seq(FromGateway(g))
      /\ NoRepeat(toProxy[g]) /\ toProxy[g] # <<>> /\ IsPacket(q)
  BY Sequences DEF AllTypes, Inv, Types, PlacesInv, LinesInv, InLine
<1>1. toProxy'[g] = Tail(toProxy[g]) /\ inHand'[g] = q /\ inHand[g] = NoPacket
  BY <1>0 DEF InLine, WireTypes, InTypes, ThreadTypes
<1>2. UNCHANGED <<gateway, dead, sent, got, toGateway, queue, outHand, outThread>> /\ Broken' = Broken
  BY BrokenByThread DEF InLine, gwVars, outVars, tableVars
<1>3. \A h \in Gateways : h # g => Still(h)
  BY InAlone DEF InStep
<1>4. /\ q \in FromGateway(g) /\ Holds(toProxy[g], q) /\ NoRepeat(toProxy'[g])
      /\ \A p \in Packets : Holds(toProxy'[g], p) <=> Holds(toProxy[g], p) /\ p # q
  BY <1>0, <1>1, Taking
<1> HIDE DEF q
<1>5. q \in PacketsOf(g) /\ q \in Packets /\ q.from = g
  BY <1>0, <1>4, OwnPackets, PacketOrigin, OthersAreOther DEF FromGateway
<1>6. ~InHands(q) /\ ~Queued(q) /\ ~Taken(q) /\ ~OnLine(q) /\ ~Received(q) /\ OnWire(q)
  <2>1. OncePlaced(q) /\ OnWire(q)
    BY <1>4, <1>5 DEF PlacesInv, PacketInv, OnWire
  <2>2. QED
    BY <2>1 DEF OncePlaced
<1>7. ASSUME NEW p \in Packets
      PROVE  OncePlaced(p)' /\ (Somewhere(p)' => Written(p)')
  <2>0. p.from \in Gateways /\ p # NoPacket /\ OncePlaced(p) /\ (Somewhere(p) => Written(p))
    BY PacketRoute, PacketIsOther DEF PlacesInv, PacketInv
  <2>1. OnWire(p)' <=> OnWire(p) /\ p # q
    BY <1>3, <1>4, <1>5, <2>0 DEF OnWire, Still
  <2>2. InHands(p)' <=> InHands(p) \/ p = q
    BY <1>1, <1>3, <1>5, <2>0 DEF InHands, Still
  <2>3. /\ (Queued(p)' <=> Queued(p)) /\ (Taken(p)' <=> Taken(p)) /\ (OnLine(p)' <=> OnLine(p))
        /\ (Received(p)' <=> Received(p)) /\ (Written(p)' <=> Written(p))
    BY <1>2 DEF Queued, Taken, OnLine, Received, Written, IsCut
  <2>4. CASE p = q
    BY <1>2, <1>6, <2>0, <2>1, <2>2, <2>3, <2>4 DEF OncePlaced, Somewhere
  <2>5. CASE p # q
    BY <1>2, <2>0, <2>1, <2>2, <2>3, <2>5 DEF OncePlaced, Somewhere
  <2>6. QED
    BY <2>4, <2>5
<1>8. LinesInv'
  BY <1>2, <1>3, <1>4 DEF PlacesInv, LinesInv, Still
<1>9. QED
  BY <1>7, <1>8 DEF PlacesInv, PacketInv

\* An in-thread has read the packet and puts it in the queue of its receiver.
LEMMA PutFlows ==
  ASSUME AllTypes, PlacesInv, NEW g \in Gateways, InPut(g)
  PROVE  PlacesInv'
<1> DEFINE q == inHand[g]
           b == q.to
<1>0. /\ ThreadTypes /\ WireTypes /\ InTypes /\ QueueTypes /\ inThread[g] = "read"
  BY DEF AllTypes, Inv, Types, InPut
<1>1. q \in PacketsOf(g) /\ q \in Packets /\ q.from = g /\ b \in Gateways
  BY <1>0, OwnPackets, PacketOrigin, PacketRoute DEF InTypes
<1>2. /\ UNCHANGED <<gateway, dead, sent, got, toProxy, toGateway, outHand, outThread>>
      /\ Broken' = Broken
  BY BrokenByThread DEF InPut, gwVars, wires, outVars
<1>3. \A h \in Gateways : h # g => Still(h)
  BY InAlone DEF InStep
<1>4. inHand'[g] = NoPacket /\ queue'[b] = Append(queue[b], q)
      /\ \A h \in Gateways : h # b => queue'[h] = queue[h]
  BY <1>0, <1>1 DEF InPut, InTypes, QueueTypes
<1> HIDE DEF q, b
<1>5. InHands(q) /\ ~Queued(q) /\ ~Taken(q) /\ ~OnLine(q) /\ ~Received(q) /\ ~OnWire(q)
  <2>1. OncePlaced(q) /\ InHands(q)
    BY <1>1 DEF PlacesInv, PacketInv, InHands, q
  <2>2. QED
    BY <2>1 DEF OncePlaced
<1>6. /\ NoRepeat(Append(queue[b], q)) /\ AllFor(Append(queue[b], q), b)
      /\ \A p : Holds(Append(queue[b], q), p) <=> Holds(queue[b], p) \/ p = q
  <2>1. queue[b] \in Seq(Items) /\ NoRepeat(queue[b]) /\ AllFor(queue[b], b) /\ q \in Items
    BY <1>1, Sequences DEF PlacesInv, LinesInv, Items
  <2>2. ~Holds(queue[b], q) /\ q.to = b
    BY <1>5 DEF Queued, b
  <2>3. QED
    BY <2>1, <2>2, Adding
<1>7. ASSUME NEW p \in Packets
      PROVE  OncePlaced(p)' /\ (Somewhere(p)' => Written(p)')
  <2>0. p.from \in Gateways /\ p.to \in Gateways /\ p # NoPacket /\ OncePlaced(p)
        /\ (Somewhere(p) => Written(p))
    BY PacketRoute, PacketIsOther DEF PlacesInv, PacketInv
  <2>1. InHands(p)' <=> InHands(p) /\ p # q
    BY <1>1, <1>3, <1>4, <2>0 DEF InHands, Still, q
  <2>2. Queued(p)' <=> Queued(p) \/ p = q
    BY <1>4, <1>6, <2>0 DEF Queued, b
  <2>3. /\ (OnWire(p)' <=> OnWire(p)) /\ (Taken(p)' <=> Taken(p)) /\ (OnLine(p)' <=> OnLine(p))
        /\ (Received(p)' <=> Received(p)) /\ (Written(p)' <=> Written(p))
    BY <1>2 DEF OnWire, Taken, OnLine, Received, Written, IsCut
  <2>4. CASE p = q
    BY <1>2, <1>5, <2>0, <2>1, <2>2, <2>3, <2>4 DEF OncePlaced, Somewhere
  <2>5. CASE p # q
    BY <1>2, <2>0, <2>1, <2>2, <2>3, <2>5 DEF OncePlaced, Somewhere
  <2>6. QED
    BY <2>4, <2>5
<1>8. LinesInv'
  BY <1>2, <1>4, <1>6 DEF PlacesInv, LinesInv
<1>9. QED
  BY <1>7, <1>8 DEF PlacesInv, PacketInv

\* What is not a packet is added to the queues of others.
LEMMA PutOthersFlows ==
  ASSUME AllTypes, PlacesInv, NEW g \in Gateways, NEW m \in {Bye, None}, PutToOthers(g, m)
  PROVE  \A h \in Gateways :
           /\ NoRepeat(queue'[h]) /\ AllFor(queue'[h], h)
           /\ \A p \in Packets : Holds(queue'[h], p) <=> Holds(queue[h], p)
<1> SUFFICES ASSUME NEW h \in Gateways
             PROVE  /\ NoRepeat(queue'[h]) /\ AllFor(queue'[h], h)
                    /\ \A p \in Packets : Holds(queue'[h], p) <=> Holds(queue[h], p)
  OBVIOUS
<1>1. queue'[h] = queue[h] \/ queue'[h] = Append(queue[h], m)
  BY DEF PutToOthers
<1>2. queue[h] \in Seq(Items) /\ NoRepeat(queue[h]) /\ AllFor(queue[h], h)
      /\ m \in Items /\ ~IsPacket(m)
  BY Sequences, OthersAreOther DEF PlacesInv, LinesInv, Items
<1>3. /\ NoRepeat(Append(queue[h], m)) /\ AllFor(Append(queue[h], m), h)
      /\ \A p : Holds(Append(queue[h], m), p) <=> Holds(queue[h], p) \/ p = m
  BY <1>2, Adding
<1>4. \A p \in Packets : p # m
  BY PacketIsOther
<1>5. QED
  BY <1>1, <1>2, <1>3, <1>4

\* A thread that leaves may delete the queues of its job.
LEMMA UnregisterFlows ==
  ASSUME AllTypes, PlacesInv, NEW g \in Gateways, Unregister(g[1])
  PROVE  \A h \in Gateways :
           /\ NoRepeat(queue'[h]) /\ AllFor(queue'[h], h)
           /\ \A p \in Packets : Holds(queue'[h], p) => Holds(queue[h], p)
<1> SUFFICES ASSUME NEW h \in Gateways
             PROVE  /\ NoRepeat(queue'[h]) /\ AllFor(queue'[h], h)
                    /\ \A p \in Packets : Holds(queue'[h], p) => Holds(queue[h], p)
  OBVIOUS
<1>1. queue'[h] = queue[h] \/ queue'[h] = <<>>
  BY DEF Unregister
<1>2. QED
  BY <1>1, EmptyApart, NothingHeld DEF PlacesInv, LinesInv

\* No step of an in-thread doubles a packet.
LEMMA InFlows ==
  ASSUME AllTypes, PlacesInv, NEW g \in Gateways, InStep(g)
  PROVE  PlacesInv'
<1>1. CASE InLine(g) \/ InPut(g)
  BY <1>1, LineFlows, PutFlows
<1>2. CASE InRegister(g) \/ InCheck(g) \/ InCharge(g) \/ InBye(g) \/ InError(g) \/ InErrorLocks(g)
           \/ InRaises(g) \/ InLeave(g)
  <2>0. WireTypes /\ ThreadTypes
    BY DEF AllTypes, Inv, Types
  <2>1. UNCHANGED <<gateway, dead, sent, got, toGateway, inHand, outHand, outThread>> /\ Broken' = Broken
    BY <1>2, BrokenByThread
       DEF InRegister, InCheck, InCharge, InBye, InError, InErrorLocks, InRaises, InLeave, gwVars,
           wires, outVars
  <2>2. \A h \in Gateways :
          /\ NoRepeat(queue'[h]) /\ AllFor(queue'[h], h)
          /\ \A p \in Packets : Holds(queue'[h], p) => Holds(queue[h], p)
    <3>1. CASE queue' = queue
      BY <3>1 DEF PlacesInv, LinesInv
    <3>2. CASE PutToOthers(g, Bye) \/ PutToOthers(g, None)
      BY <3>2, PutOthersFlows
    <3>3. CASE Unregister(g[1])
      BY <3>3, UnregisterFlows
    <3>4. QED
      BY <1>2, <3>1, <3>2, <3>3
         DEF InRegister, Register, InCheck, InCharge, InBye, InError, InErrorLocks, InRaises, InLeave,
             tableVars
  <2>3. \A h \in Gateways :
          /\ NoRepeat(toProxy'[h])
          /\ \A p \in Packets : Holds(toProxy'[h], p) => Holds(toProxy[h], p)
    <3>1. CASE toProxy' = toProxy
      BY <3>1 DEF PlacesInv, LinesInv
    <3>2. CASE toProxy[g] # <<>> /\ toProxy' = [toProxy EXCEPT ![g] = Tail(@)]
      <4>1. /\ NoRepeat(Tail(toProxy[g]))
            /\ \A p \in Packets : Holds(Tail(toProxy[g]), p)
                                    <=> Holds(toProxy[g], p) /\ p # Head(toProxy[g])
        <5>1. toProxy[g] \in Seq(FromGateway(g)) /\ NoRepeat(toProxy[g])
          BY Sequences DEF PlacesInv, LinesInv
        <5>2. QED
          BY <3>2, <5>1, Taking
      <4>2. \A h \in Gateways : toProxy'[h] = IF h = g THEN Tail(toProxy[g]) ELSE toProxy[h]
        BY <2>0, <3>2 DEF WireTypes
      <4>3. QED
        BY <4>1, <4>2 DEF PlacesInv, LinesInv
    <3>3. QED
      BY <1>2, <3>1, <3>2
         DEF InRegister, InCheck, InCharge, InBye, InError, InErrorLocks, InRaises, InLeave, wires
  <2>4. ASSUME NEW p \in Packets
        PROVE  /\ (OnWire(p)' => OnWire(p)) /\ (OnLine(p)' => OnLine(p))
               /\ (InHands(p)' => InHands(p)) /\ (Queued(p)' => Queued(p))
               /\ (Taken(p)' => Taken(p)) /\ (Received(p)' => Received(p))
               /\ (Written(p) => Written(p)')
    <3>1. p.from \in Gateways /\ p.to \in Gateways
      BY PacketRoute
    <3>2. (OnWire(p)' => OnWire(p)) /\ (Queued(p)' => Queued(p))
      BY <2>2, <2>3, <3>1 DEF OnWire, Queued
    <3>3. QED
      BY <2>1, <3>2 DEF InHands, OnLine, Taken, Received, Written, IsCut
  <2>5. PacketInv'
    BY <2>1, <2>4, NoFlow
  <2>6. LinesInv'
    BY <2>1, <2>2, <2>3 DEF PlacesInv, LinesInv
  <2>7. QED
    BY <2>5, <2>6 DEF PlacesInv
<1>3. QED
  BY <1>1, <1>2 DEF InStep

-----------------------------------------------------------------------------
(* Out-threads                                                             *)

\* An out-thread takes an item from its queue.
LEMMA GetFlows ==
  ASSUME AllTypes, PlacesInv, NEW g \in Gateways, OutGet(g)
  PROVE  PlacesInv'
<1> DEFINE q == Head(queue[g])
<1>0. /\ ThreadTypes /\ QueueTypes /\ queue[g] \in Seq(Items) /\ NoRepeat(queue[g])
      /\ AllFor(queue[g], g) /\ queue[g] # <<>> /\ outThread[g] = "get" /\ outHand[g] = NoPacket
  BY Sequences DEF AllTypes, Inv, Types, PlacesInv, LinesInv, OutGet, ThreadTypes
<1>1. queue'[g] = Tail(queue[g]) /\ \A h \in Gateways : h # g => queue'[h] = queue[h]
  BY <1>0 DEF OutGet, QueueTypes
<1>2. UNCHANGED <<gateway, dead, sent, got, toProxy, toGateway, inHand>> /\ Broken' = Broken
  BY BrokenByThread DEF OutGet, gwVars, wires, inVars
<1>3. \A h \in Gateways : h # g => Still(h)
  BY OutAlone DEF OutStep
<1>4. /\ q \in Items /\ Holds(queue[g], q) /\ NoRepeat(queue'[g]) /\ AllFor(queue'[g], g)
      /\ \A p \in Packets : Holds(queue'[g], p) <=> Holds(queue[g], p) /\ p # q
      /\ IsPacket(q) => q.to = g
  BY <1>0, <1>1, Taking
<1>5. \/ outHand'[g] = q /\ q # Bye /\ q # None /\ outThread'[g] = "write"
      \/ outHand'[g] = NoPacket /\ outThread'[g] # "write"
  <2>1. CASE q = Bye
    BY <1>0, <2>1 DEF OutGet, ThreadTypes
  <2>2. CASE q # Bye /\ q # None /\ q.len > 0
    BY <1>0, <2>2 DEF OutGet, ThreadTypes
  <2>3. CASE q # Bye /\ ~(q # None /\ q.len > 0)
    BY <1>0, <2>3 DEF OutGet, ThreadTypes
  <2>4. QED
    BY <2>1, <2>2, <2>3
<1> HIDE DEF q
<1>6. ASSUME NEW p \in Packets
      PROVE  /\ p.to \in Gateways /\ p # NoPacket /\ OncePlaced(p) /\ (Somewhere(p) => Written(p))
             /\ (Queued(p)' <=> Queued(p) /\ p # q)
             /\ (OnWire(p)' <=> OnWire(p)) /\ (InHands(p)' <=> InHands(p))
             /\ (OnLine(p)' <=> OnLine(p)) /\ (Received(p)' <=> Received(p))
             /\ (Written(p)' <=> Written(p))
  <2>1. p.to \in Gateways /\ p # NoPacket /\ OncePlaced(p) /\ (Somewhere(p) => Written(p))
    BY PacketRoute, PacketIsOther DEF PlacesInv, PacketInv
  <2>2. Queued(p)' <=> Queued(p) /\ p # q
    <3>1. p = q => p.to = g
      BY <1>4, PacketIsOther
    <3>2. QED
      BY <1>1, <1>4, <2>1, <3>1 DEF Queued
  <2>3. QED
    BY <1>2, <2>1, <2>2 DEF OnWire, InHands, OnLine, Received, Written, IsCut
<1>7. CASE outHand'[g] = q /\ q # Bye /\ q # None /\ outThread'[g] = "write"
  <2>1. q \in Packets /\ IsPacket(q) /\ q.to = g
    BY <1>4, <1>7, PacketIsOther DEF Items
  <2>2. Queued(q) /\ ~InHands(q) /\ ~OnWire(q) /\ ~Taken(q) /\ ~OnLine(q) /\ ~Received(q)
    <3>1. Queued(q) /\ OncePlaced(q)
      BY <1>4, <2>1 DEF Queued, PlacesInv, PacketInv
    <3>2. QED
      BY <3>1 DEF OncePlaced
  <2>3. ASSUME NEW p \in Packets
        PROVE  OncePlaced(p)' /\ (Somewhere(p)' => Written(p)')
    <3>1. Taken(p)' <=> Taken(p) \/ p = q
      BY <1>0, <1>3, <1>6, <1>7, <2>1 DEF Taken, Still
    <3>2. p.to # g => outThread'[p.to] = outThread[p.to]
      BY <1>3, <1>6 DEF Still
    <3>3. CASE p = q
      BY <1>6, <2>1, <2>2, <3>1, <3>3 DEF OncePlaced, Somewhere
    <3>4. CASE p # q
      <4>1. Taken(p) => p.to # g
        BY <1>0, <1>6 DEF Taken
      <4>2. Taken(p)' /\ outThread'[p.to] = "write" => Taken(p) /\ outThread[p.to] = "write"
        BY <3>1, <3>2, <3>4, <4>1
      <4>3. QED
        BY <1>6, <3>1, <3>4, <4>2 DEF OncePlaced, Somewhere
    <3>5. QED
      BY <3>3, <3>4
  <2>4. LinesInv'
    BY <1>1, <1>2, <1>3, <1>4, <1>7, <2>1 DEF PlacesInv, LinesInv, Still
  <2>5. QED
    BY <2>3, <2>4 DEF PlacesInv, PacketInv
<1>8. CASE outHand'[g] = NoPacket /\ outThread'[g] # "write"
  <2>1. ASSUME NEW p \in Packets
        PROVE  (Taken(p)' => Taken(p)) /\ (Taken(p)' /\ outThread'[p.to] = "write"
                                                        => outThread[p.to] = "write")
    <3>1. p.to = g => ~Taken(p)'
      BY <1>6, <1>8 DEF Taken
    <3>2. p.to # g => outHand'[p.to] = outHand[p.to] /\ outThread'[p.to] = outThread[p.to]
      BY <1>3, <1>6 DEF Still
    <3>3. QED
      BY <3>1, <3>2 DEF Taken
  <2>2. PacketInv'
    <3>1. \A p \in Packets :
           /\ (OnWire(p)' => OnWire(p)) /\ (InHands(p)' => InHands(p)) /\ (Queued(p)' => Queued(p))
           /\ (Taken(p)' => Taken(p)) /\ (OnLine(p)' => OnLine(p)) /\ (Received(p)' => Received(p))
           /\ (Taken(p)' /\ outThread'[p.to] = "write" => outThread[p.to] = "write")
           /\ (Written(p) => Written(p)')
      BY <1>6, <2>1
    <3>2. QED
      BY <3>1, NoFlow
  <2>3. LinesInv'
    BY <1>1, <1>2, <1>3, <1>4, <1>8 DEF PlacesInv, LinesInv, Still
  <2>4. QED
    BY <2>2, <2>3 DEF PlacesInv
<1>9. QED
  BY <1>5, <1>7, <1>8

\* An out-thread writes its packet and keeps it until its memory is given back.
LEMMA WriteOutFlows ==
  ASSUME AllTypes, PlacesInv, NEW g \in Gateways, OutWrite(g)
  PROVE  PlacesInv'
<1> DEFINE q == outHand[g]
<1>0. /\ ThreadTypes /\ GatewayTypes /\ outThread[g] = "write" /\ outThread'[g] = "reduce"
      /\ outHand' = outHand
      /\ toGateway[g] \in Seq(Lines) /\ NoRepeat(toGateway[g]) /\ AllFor(toGateway[g], g)
  BY Sequences DEF AllTypes, PlacesInv, LinesInv, OutWrite, ThreadTypes
<1>1. q \in Packets /\ IsPacket(q) /\ q.to = g /\ q \in Lines
  BY <1>0, PacketIsOther DEF ThreadTypes, PlacesInv, LinesInv, Lines
<1>2. UNCHANGED <<gateway, dead, sent, got, toProxy, inHand, queue>> /\ Broken' = Broken
  BY BrokenByThread DEF OutWrite, gwVars, inVars, tableVars
<1>3. \A h \in Gateways : h # g => Still(h)
  BY OutAlone DEF OutStep
<1>4. Taken(q) /\ ~Queued(q) /\ ~InHands(q) /\ ~OnWire(q) /\ ~OnLine(q) /\ ~Received(q)
  <2>1. Taken(q) /\ OncePlaced(q)
    BY <1>1 DEF Taken, PlacesInv, PacketInv
  <2>2. QED
    BY <1>0, <1>1, <2>1 DEF OncePlaced
<1>5. toGateway'[g] = toGateway[g] \/ toGateway'[g] = Append(toGateway[g], q)
  BY <1>0 DEF OutWrite, OutWire, GatewayTypes
<1>6. /\ NoRepeat(Append(toGateway[g], q)) /\ AllFor(Append(toGateway[g], q), g)
      /\ \A p : Holds(Append(toGateway[g], q), p) <=> Holds(toGateway[g], p) \/ p = q
  <2>1. ~Holds(toGateway[g], q)
    BY <1>1, <1>4 DEF OnLine
  <2> HIDE DEF q
  <2>2. QED
    BY <1>0, <1>1, <2>1, Adding
<1> HIDE DEF q
<1>7. ASSUME NEW p \in Packets
      PROVE  OncePlaced(p)' /\ (Somewhere(p)' => Written(p)')
  <2>0. p.to \in Gateways /\ OncePlaced(p) /\ (Somewhere(p) => Written(p))
    BY PacketRoute DEF PlacesInv, PacketInv
  <2>1. (OnLine(p) => OnLine(p)') /\ (OnLine(p)' => OnLine(p) \/ p = q)
    <3>1. CASE p.to = g
      <4>1. Holds(toGateway'[g], p) => Holds(toGateway[g], p) \/ p = q
        BY <1>5, <1>6
      <4>2. Holds(toGateway[g], p) => Holds(toGateway'[g], p)
        BY <1>5, <1>6
      <4>3. QED
        BY <3>1, <4>1, <4>2 DEF OnLine
    <3>2. CASE p.to # g
      BY <1>3, <2>0, <3>2 DEF OnLine, Still
    <3>3. QED
      BY <3>1, <3>2
  <2>2. /\ (OnWire(p)' <=> OnWire(p)) /\ (InHands(p)' <=> InHands(p)) /\ (Queued(p)' <=> Queued(p))
        /\ (Taken(p)' <=> Taken(p)) /\ (Received(p)' <=> Received(p)) /\ (Written(p)' <=> Written(p))
    BY <1>0, <1>2 DEF OnWire, InHands, Queued, Taken, Received, Written, IsCut
  <2>3. outThread'[p.to] = "write" => outThread[p.to] = "write" /\ p.to # g
    BY <1>0, <1>3, <2>0 DEF Still
  <2>4. CASE p = q
    BY <1>1, <1>4, <2>0, <2>1, <2>2, <2>3, <2>4 DEF OncePlaced, Somewhere
  <2>5. CASE p # q
    BY <2>0, <2>1, <2>2, <2>3, <2>5 DEF OncePlaced, Somewhere
  <2>6. QED
    BY <2>4, <2>5
<1>8. LinesInv'
  BY <1>0, <1>2, <1>3, <1>5, <1>6 DEF PlacesInv, LinesInv, Still
<1>9. QED
  BY <1>7, <1>8 DEF PlacesInv, PacketInv

\* No step of an out-thread doubles a packet.
LEMMA OutFlows ==
  ASSUME AllTypes, PlacesInv, NEW g \in Gateways, OutStep(g)
  PROVE  PlacesInv'
<1>1. CASE OutGet(g) \/ OutWrite(g)
  BY <1>1, GetFlows, WriteOutFlows
<1>2. CASE OutRegister(g) \/ OutBye(g) \/ OutRaises(g) \/ OutReduce(g) \/ OutLeave(g)
  <2>0. GatewayTypes /\ ThreadTypes
    BY DEF AllTypes
  <2>1. UNCHANGED <<gateway, dead, sent, got, toProxy, inHand>> /\ Broken' = Broken
    BY OutAlone, BrokenByThread
  <2>2. \A h \in Gateways : h # g => Still(h)
    BY OutAlone
  <2>3. \A h \in Gateways :
          /\ NoRepeat(queue'[h]) /\ AllFor(queue'[h], h)
          /\ \A p \in Packets : Holds(queue'[h], p) => Holds(queue[h], p)
    <3>1. CASE queue' = queue
      BY <3>1 DEF PlacesInv, LinesInv
    <3>2. CASE Unregister(g[1])
      BY <3>2, UnregisterFlows
    <3>3. QED
      BY <1>2, <3>1, <3>2
         DEF OutRegister, Register, OutBye, OutRaises, OutReduce, OutLeave, tableVars
  <2>4. /\ NoRepeat(toGateway'[g]) /\ AllFor(toGateway'[g], g)
        /\ \A p \in Packets : Holds(toGateway'[g], p) => Holds(toGateway[g], p)
    <3>1. CASE toGateway' = toGateway
      BY <3>1 DEF PlacesInv, LinesInv
    <3>2. ASSUME NEW m \in {Bye, Eof}, toGateway' = [toGateway EXCEPT ![g] = Append(@, m)]
          PROVE  /\ NoRepeat(toGateway'[g]) /\ AllFor(toGateway'[g], g)
                 /\ \A p \in Packets : Holds(toGateway'[g], p) => Holds(toGateway[g], p)
      <4>1. toGateway'[g] = Append(toGateway[g], m)
        BY <2>0, <3>2 DEF GatewayTypes
      <4>2. toGateway[g] \in Seq(Lines) /\ NoRepeat(toGateway[g]) /\ AllFor(toGateway[g], g)
            /\ m \in Lines /\ ~IsPacket(m)
        BY Sequences, OthersAreOther DEF PlacesInv, LinesInv, Lines
      <4>3. /\ NoRepeat(Append(toGateway[g], m)) /\ AllFor(Append(toGateway[g], m), g)
            /\ \A p : Holds(Append(toGateway[g], m), p) <=> Holds(toGateway[g], p) \/ p = m
        BY <4>2, Adding
      <4>4. \A p \in Packets : p # m
        BY PacketIsOther
      <4>5. QED
        BY <4>1, <4>3, <4>4
    <3>3. QED
      BY <1>2, <3>1, <3>2
         DEF OutRegister, OutBye, OutWire, OutRaises, OutReduce, OutLeave, wires
  <2>5. /\ outThread'[g] # "write"
        /\ outHand'[g] = outHand[g] \/ outHand'[g] = NoPacket
    BY <1>2, <2>0 DEF OutRegister, OutBye, OutRaises, OutReduce, OutLeave, ThreadTypes
  <2>6. ASSUME NEW p \in Packets
        PROVE  /\ (OnWire(p)' => OnWire(p)) /\ (InHands(p)' => InHands(p)) /\ (Queued(p)' => Queued(p))
               /\ (Taken(p)' => Taken(p)) /\ (OnLine(p)' => OnLine(p)) /\ (Received(p)' => Received(p))
               /\ (Taken(p)' /\ outThread'[p.to] = "write" => outThread[p.to] = "write")
               /\ (Written(p) => Written(p)')
    <3>1. p.to \in Gateways /\ p # NoPacket
      BY PacketRoute, PacketIsOther
    <3>2. (Taken(p)' => Taken(p)) /\ (outThread'[p.to] = "write" => outThread[p.to] = "write")
      BY <2>2, <2>5, <3>1 DEF Taken, Still
    <3>3. (Queued(p)' => Queued(p)) /\ (OnLine(p)' => OnLine(p))
      BY <2>2, <2>3, <2>4, <3>1 DEF Queued, OnLine, Still
    <3>4. QED
      BY <2>1, <3>2, <3>3 DEF OnWire, InHands, Received, Written, IsCut
  <2>7. PacketInv'
    BY <2>6, NoFlow
  <2>8. LinesInv'
    BY <2>1, <2>2, <2>3, <2>4, <2>5 DEF PlacesInv, LinesInv, Still
  <2>9. QED
    BY <2>7, <2>8 DEF PlacesInv
<1>3. QED
  BY <1>1, <1>2 DEF OutStep

-----------------------------------------------------------------------------
(* The "bye"s of a sequence                                                *)

ByeAt(s, k) == {i \in 1 .. k - 1 : s[i] = Bye}

\* They can be counted.
LEMMA ByesCounted ==
  ASSUME NEW s, NEW k \in Nat
  PROVE  IsFiniteSet(ByeAt(s, k)) /\ Byes(s, k) = Cardinality(ByeAt(s, k)) /\ Byes(s, k) \in Nat
<1>1. IsFiniteSet(1 .. k - 1)
  BY FS_Interval
<1>2. ByeAt(s, k) \subseteq 1 .. k - 1
  BY DEF ByeAt
<1>3. IsFiniteSet(ByeAt(s, k)) /\ Cardinality(ByeAt(s, k)) \in Nat
  BY <1>1, <1>2, FS_Subset, FS_CardinalityType
<1>4. QED
  BY <1>3 DEF Byes, ByeAt

\* Shifted by one, the numbers of a set are as many.
LEMMA ShiftCounted ==
  ASSUME NEW A \in SUBSET Nat, IsFiniteSet(A), NEW B \in SUBSET Nat,
         \A i \in Nat : i \in A <=> i + 1 \in B, 0 \notin B
  PROVE  IsFiniteSet(B) /\ Cardinality(B) = Cardinality(A)
<1> DEFINE f == [i \in A |-> i + 1]
<1>1. f \in [A -> B]
  OBVIOUS
<1>2. \A i, k \in A : f[i] = f[k] => i = k
  OBVIOUS
<1>3. \A b \in B : \E i \in A : f[i] = b
  <2> SUFFICES ASSUME NEW b \in B
               PROVE  \E i \in A : f[i] = b
    OBVIOUS
  <2>1. PICK i : i = b - 1
    OBVIOUS
  <2>2. i \in Nat /\ i + 1 = b
    BY <2>1
  <2>3. i \in A
    BY <2>2
  <2>4. QED
    BY <2>2, <2>3
<1>4. f \in Bijection(A, B)
  BY <1>1, <1>2, <1>3 DEF Bijection, Injection, Surjection, IsInjective
<1>5. ExistsBijection(A, B)
  BY <1>4 DEF ExistsBijection
<1>6. QED
  BY <1>5, FS_Bijection

\* A "bye" at the front counts for every other place.
LEMMA ByesOfTail ==
  ASSUME NEW S, NEW s \in Seq(S), s # <<>>, NEW k \in 1 .. Len(s)
  PROVE  Byes(s, k + 1) = Byes(Tail(s), k) + (IF Head(s) = Bye THEN 1 ELSE 0)
<1>1. /\ Len(s) \in Nat /\ k \in Nat /\ k <= Len(s) /\ k + 1 \in Nat /\ Len(Tail(s)) = Len(s) - 1
      /\ \A i \in 1 .. Len(Tail(s)) : Tail(s)[i] = s[i + 1]
      /\ Head(s) = s[1]
  BY HeadTailProperties, LenProperties
<1> DEFINE A == ByeAt(Tail(s), k)
           B == ByeAt(s, k + 1) \ {1}
<1>2. \A i \in Nat : i \in A <=> i + 1 \in B
  <2> SUFFICES ASSUME NEW i \in Nat
               PROVE  i \in A <=> i + 1 \in B
    OBVIOUS
  <2>1. i \in 1 .. k - 1 <=> i + 1 \in 1 .. (k + 1) - 1 /\ i + 1 # 1
    BY <1>1
  <2>2. i \in 1 .. k - 1 => Tail(s)[i] = s[i + 1]
    BY <1>1
  <2>3. QED
    BY <2>1, <2>2 DEF ByeAt
<1>3. A \in SUBSET Nat /\ B \in SUBSET Nat /\ 0 \notin B
  BY <1>1 DEF ByeAt
<1>4. IsFiniteSet(A) /\ Cardinality(A) = Byes(Tail(s), k) /\ Byes(Tail(s), k) \in Nat
  BY <1>1, ByesCounted
<1>5. IsFiniteSet(B) /\ Cardinality(B) = Cardinality(A)
  <2> HIDE DEF A, B
  <2> QED
    BY <1>2, <1>3, <1>4, ShiftCounted
<1>6. 1 \in ByeAt(s, k + 1) <=> Head(s) = Bye
  BY <1>1 DEF ByeAt
<1>7. /\ IsFiniteSet(ByeAt(s, k + 1)) /\ Byes(s, k + 1) = Cardinality(ByeAt(s, k + 1))
      /\ Byes(s, k + 1) \in Nat
  BY <1>1, ByesCounted
<1>8. Cardinality(B) = IF 1 \in ByeAt(s, k + 1) THEN Byes(s, k + 1) - 1 ELSE Byes(s, k + 1)
  BY <1>7, FS_RemoveElement
<1>9. QED
  BY <1>4, <1>5, <1>6, <1>7, <1>8

\* What is appended counts for the places behind it.
LEMMA ByesOfAppend ==
  ASSUME NEW S, NEW s \in Seq(S), NEW m \in S
  PROVE  /\ \A k \in 1 .. Len(s) + 1 : Byes(Append(s, m), k) = Byes(s, k)
         /\ Byes(Append(s, m), Len(s) + 2) = Byes(s, Len(s) + 1) + (IF m = Bye THEN 1 ELSE 0)
<1>1. /\ Len(s) \in Nat
      /\ \A i \in 1 .. Len(s) : Append(s, m)[i] = s[i]
      /\ Append(s, m)[Len(s) + 1] = m
  BY AppendProperties, LenProperties
<1>2. \A k \in 1 .. Len(s) + 1 : Byes(Append(s, m), k) = Byes(s, k)
  <2> SUFFICES ASSUME NEW k \in 1 .. Len(s) + 1
               PROVE  Byes(Append(s, m), k) = Byes(s, k)
    OBVIOUS
  <2>1. \A i \in 1 .. k - 1 : Append(s, m)[i] = s[i]
    BY <1>1
  <2>2. QED
    BY <2>1 DEF Byes
<1>3. Byes(Append(s, m), Len(s) + 2) = Byes(s, Len(s) + 1) + (IF m = Bye THEN 1 ELSE 0)
  <2> DEFINE n == Len(s) + 1
  <2>1. /\ Len(s) + 1 \in Nat /\ IsFiniteSet(ByeAt(s, n)) /\ Byes(s, n) = Cardinality(ByeAt(s, n))
        /\ Byes(s, n) \in Nat
    BY <1>1, ByesCounted
  <2>2. n \notin ByeAt(s, n)
    BY <1>1 DEF ByeAt
  <2>3. ByeAt(Append(s, m), n + 1) = IF m = Bye THEN ByeAt(s, n) \cup {n} ELSE ByeAt(s, n)
    <3>1. \A i : i \in 1 .. (n + 1) - 1 <=> i \in 1 .. n - 1 \/ i = n
      BY <1>1
    <3>2. \A i \in 1 .. n - 1 : Append(s, m)[i] = s[i]
      BY <1>1
    <3>3. n \notin 1 .. n - 1 /\ Append(s, m)[n] = m
      BY <1>1
    <3> HIDE DEF n
    <3>4. QED
      BY <3>1, <3>2, <3>3 DEF ByeAt
  <2>4. Byes(Append(s, m), n + 1) = Cardinality(ByeAt(Append(s, m), n + 1)) /\ n + 1 = Len(s) + 2
    BY <1>1 DEF Byes, ByeAt
  <2>5. Cardinality(ByeAt(s, n) \cup {n}) = Cardinality(ByeAt(s, n)) + 1
    BY <2>1, <2>2, FS_AddElement
  <2>6. QED
    BY <2>1, <2>3, <2>4, <2>5
<1>4. QED
  BY <1>2, <1>3

\* A gateway has a peer less than there are clusters.
LEMMA PeersCounted ==
  ASSUME NEW g \in Gateways
  PROVE  IsFiniteSet(Peers(g)) /\ Cardinality(Peers(g)) = NumClusters - 1 /\ NumClusters \in Nat
<1> DEFINE S == {g[1]} \X (0 .. NumClusters - 1)
<1>1. IsFiniteSet({g[1]}) /\ Cardinality({g[1]}) = 1
  BY FS_Singleton
<1>2. /\ IsFiniteSet(0 .. NumClusters - 1) /\ Cardinality(0 .. NumClusters - 1) = NumClusters
      /\ NumClusters \in Nat
  BY FS_Interval, ProxyAssumption
<1>3. /\ IsFiniteSet(S)
      /\ Cardinality(S) = Cardinality({g[1]}) * Cardinality(0 .. NumClusters - 1)
  BY <1>1, <1>2, FS_Product
<1>4. g \in S /\ Peers(g) = S \ {g}
  BY DEF Peers, Gateways
<1>5. Cardinality(S) = NumClusters
  BY <1>1, <1>2, <1>3
<1>6. IsFiniteSet(S \ {g}) /\ Cardinality(S \ {g}) = Cardinality(S) - 1
  <2> HIDE DEF S
  <2> QED
    BY <1>3, <1>4, FS_RemoveElement
<1>7. QED
  BY <1>2, <1>4, <1>5, <1>6

-----------------------------------------------------------------------------
(* "bye" is the last that a gateway hears of its peers                     *)

\* What tells: an in-thread that has got to its end.
LEMMA HeardSame ==
  ASSUME NEW g \in Gateways, \A a \in Peers(g) : Told(a)' <=> Told(a)
  PROVE  HeardOf(g)' = HeardOf(g)
  BY DEF HeardOf

\* A peer that has not told is missing in the count.
LEMMA HeardCounted ==
  ASSUME NEW g \in Gateways
  PROVE  /\ IsFiniteSet(HeardOf(g)) /\ Cardinality(HeardOf(g)) \in Nat
         /\ Cardinality(HeardOf(g)) <= NumClusters - 1 /\ NumClusters \in Nat
         /\ \A a \in Peers(g) : ~Told(a) => Cardinality(HeardOf(g)) < NumClusters - 1
<1>1. IsFiniteSet(Peers(g)) /\ Cardinality(Peers(g)) = NumClusters - 1 /\ NumClusters \in Nat
  BY PeersCounted
<1>2. HeardOf(g) \subseteq Peers(g)
  BY DEF HeardOf
<1>3. /\ IsFiniteSet(HeardOf(g)) /\ Cardinality(HeardOf(g)) \in Nat
      /\ Cardinality(HeardOf(g)) <= NumClusters - 1
      /\ Cardinality(Peers(g)) = Cardinality(HeardOf(g)) => Peers(g) = HeardOf(g)
  BY <1>1, <1>2, FS_Subset, FS_CardinalityType
<1>4. ASSUME NEW a \in Peers(g), ~Told(a)
      PROVE  Cardinality(HeardOf(g)) < NumClusters - 1
  <2>1. HeardOf(g) # Peers(g)
    BY <1>4 DEF HeardOf
  <2>2. QED
    BY <1>1, <1>3, <2>1
<1>5. QED
  BY <1>1, <1>3, <1>4

\* Nothing changes for a gateway when its queue, its out-thread and its peers
\* stay as they are.
LEMMA ByesStill ==
  ASSUME NEW g \in Gateways, ByesOf(g), queue'[g] = queue[g], byes'[g] = byes[g],
         outThread'[g] \in {"bye", "leave", "ended"} => outThread[g] \in {"bye", "leave", "ended"},
         HeardOf(g)' = HeardOf(g)
  PROVE  ByesOf(g)'
  BY DEF ByesOf, Byes, Holds

\* An item that is added to a queue: a packet of a peer that has not told, or a
\* peer's "bye".
LEMMA ByesAdded ==
  ASSUME AllTypes, NEW g \in Gateways, ByesOf(g), NEW m \in Items, m # None,
         queue'[g] = Append(queue[g], m), byes'[g] = byes[g], outThread'[g] = outThread[g],
         IsPacket(m) => \E a \in Peers(g) : ~Told(a),
         Cardinality(HeardOf(g)') = Cardinality(HeardOf(g)) + (IF m = Bye THEN 1 ELSE 0)
  PROVE  ByesOf(g)'
<1> DEFINE n == Len(queue[g])
<1>1. /\ queue[g] \in Seq(Items) /\ n \in Nat /\ Len(queue'[g]) = n + 1
      /\ \A i \in 1 .. n : queue'[g][i] = queue[g][i]
      /\ queue'[g][n + 1] = m
  BY Sequences, AppendProperties, LenProperties
<1>2. /\ \A k \in 1 .. n + 1 : Byes(queue'[g], k) = Byes(queue[g], k)
      /\ Byes(queue'[g], n + 2) = Byes(queue[g], n + 1) + (IF m = Bye THEN 1 ELSE 0)
  BY <1>1, ByesOfAppend
<1>3. byes[g] \in Nat /\ Byes(queue[g], n + 1) \in Nat /\ Cardinality(HeardOf(g)) \in Nat
  BY <1>1, ByesCounted, HeardCounted DEF AllTypes, TableTypes
<1>4. byes'[g] + Byes(queue'[g], Len(queue'[g]) + 1) = Cardinality(HeardOf(g)')
  <2>1. Len(queue'[g]) + 1 = n + 2
    BY <1>1
  <2>2. byes[g] + Byes(queue[g], n + 1) = Cardinality(HeardOf(g))
    BY DEF ByesOf
  <2>3. Byes(queue'[g], Len(queue'[g]) + 1) = Byes(queue[g], n + 1) + (IF m = Bye THEN 1 ELSE 0)
    BY <1>2, <2>1
  <2>4. QED
    BY <1>3, <2>2, <2>3
<1>5. ASSUME NEW k \in 1 .. Len(queue'[g]), IsPacket(queue'[g][k])
      PROVE  byes'[g] + Byes(queue'[g], k) < NumClusters - 1
  <2>1. k \in 1 .. n \/ k = n + 1
    BY <1>1
  <2>2. CASE k \in 1 .. n
    <3>1. k \in 1 .. n + 1 /\ IsPacket(queue[g][k])
      BY <1>1, <1>5, <2>2
    <3>2. byes[g] + Byes(queue[g], k) < NumClusters - 1
      BY <2>2, <3>1 DEF ByesOf
    <3>3. QED
      BY <1>2, <3>1, <3>2
  <2>3. CASE k = n + 1
    <3>1. IsPacket(m) /\ k \in 1 .. n + 1
      BY <1>1, <1>5, <2>3
    <3>2. Cardinality(HeardOf(g)) < NumClusters - 1
      BY <3>1, HeardCounted
    <3>3. byes[g] + Byes(queue[g], n + 1) = Cardinality(HeardOf(g))
      BY DEF ByesOf
    <3>4. QED
      BY <1>2, <2>3, <3>1, <3>2, <3>3
  <2>4. QED
    BY <2>1, <2>2, <2>3
<1>6. ~Holds(queue'[g], None)
  <2>1. \A p : Holds(Append(queue[g], m), p) <=> Holds(queue[g], p) \/ p = m
    BY <1>1, AppendHolds
  <2>2. QED
    BY <2>1 DEF ByesOf
<1>7. outThread'[g] \in {"bye", "leave", "ended"} => byes'[g] = NumClusters - 1
  BY DEF ByesOf
<1>8. QED
  BY <1>4, <1>5, <1>6, <1>7 DEF ByesOf

\* When "bye" has been heard of all, nothing is left in the queue.
LEMMA AllHeard ==
  ASSUME AllTypes, NEW g \in Gateways, ByesOf(g), byes[g] = NumClusters - 1
  PROVE  queue[g] = <<>> /\ \A a \in Peers(g) : Told(a)
<1> DEFINE n == Len(queue[g])
<1>1. queue[g] \in Seq(Items) /\ n \in Nat
  BY Sequences, LenProperties
<1>2. /\ Byes(queue[g], n + 1) \in Nat /\ Cardinality(HeardOf(g)) \in Nat
      /\ Cardinality(HeardOf(g)) <= NumClusters - 1 /\ NumClusters \in Nat
  BY <1>1, ByesCounted, HeardCounted
<1>3. byes[g] + Byes(queue[g], n + 1) = Cardinality(HeardOf(g))
  BY DEF ByesOf
<1>4. Byes(queue[g], n + 1) = 0 /\ Cardinality(HeardOf(g)) = NumClusters - 1
  BY <1>2, <1>3
<1>5. ASSUME NEW k \in 1 .. n
      PROVE  FALSE
  <2>1. queue[g][k] \in Items
    <3> HIDE DEF Items
    <3>1. QED
      BY <1>1, ElementOfSeq
  <2>2. queue[g][k] # None
    BY DEF ByesOf, Holds
  <2>3. queue[g][k] # Bye
    <3>1. ByeAt(queue[g], n + 1) = {}
      <4>1. n + 1 \in Nat
        BY <1>1
      <4>2. /\ IsFiniteSet(ByeAt(queue[g], n + 1))
            /\ Byes(queue[g], n + 1) = Cardinality(ByeAt(queue[g], n + 1))
        BY <4>1, ByesCounted
      <4>3. QED
        BY <1>4, <4>2, FS_EmptySet
    <3>2. k \in 1 .. (n + 1) - 1
      BY <1>1
    <3>3. QED
      BY <3>1, <3>2 DEF ByeAt
  <2>4. IsPacket(queue[g][k])
    BY <2>1, <2>2, <2>3, PacketIsOther DEF Items
  <2>5. byes[g] + Byes(queue[g], k) < NumClusters - 1 /\ Byes(queue[g], k) \in Nat
    BY <2>4, ByesCounted DEF ByesOf
  <2>6. QED
    BY <1>2, <2>5
<1>6. queue[g] = <<>>
  <2>1. n = 0
    BY <1>1, <1>5
  <2>2. QED
    BY <1>1, <2>1, EmptySeq
<1>7. QED
  BY <1>2, <1>4, <1>6, HeardCounted

\* Gateways that die make fewer gateways sound.
LEMMA GatewayByes ==
  ASSUME AllTypes, ByeInv, NEW g \in Gateways, GatewayStep(g) \/ Crash(g)
  PROVE  ByeInv'
<1>1. UNCHANGED <<inThread, outThread, byes, queue>>
  BY DEF GatewayStep, GatewayWrite, GatewayRead, GatewayLeave, GatewayBye, GatewayCleanup,
         GatewayAbort, Crash, Die, inVars, outVars, tableVars
<1>2. ASSUME NEW h \in Gateways, Sound(h)'
      PROVE  ByesOf(h)'
  <2>1. Sound(h)
    BY <1>2, BrokenByGateway DEF Sound
  <2>2. HeardOf(h)' = HeardOf(h)
    BY <1>1 DEF HeardOf, Told
  <2>3. ByesOf(h)
    BY <2>1 DEF ByeInv
  <2>4. QED
    BY <1>1, <2>2, <2>3, ByesStill
<1>3. QED
  BY <1>2 DEF ByeInv

\* An item that is taken from a queue.
LEMMA ByesTaken ==
  ASSUME AllTypes, NEW g \in Gateways, ByesOf(g), queue[g] # <<>>, queue'[g] = Tail(queue[g]),
         byes'[g] = byes[g] + (IF Head(queue[g]) = Bye THEN 1 ELSE 0),
         outThread'[g] \in {"bye", "leave", "ended"} => byes'[g] = NumClusters - 1,
         HeardOf(g)' = HeardOf(g)
  PROVE  ByesOf(g)'
<1> DEFINE n == Len(queue[g])
           t == Tail(queue[g])
           one == IF Head(queue[g]) = Bye THEN 1 ELSE 0
<1>1. /\ queue[g] \in Seq(Items) /\ n \in Nat \ {0} /\ Len(t) = n - 1
      /\ \A i \in 1 .. Len(t) : t[i] = queue[g][i + 1]
      /\ t \in Seq(Items)
  BY Sequences, HeadTailProperties, LenProperties
<1>2. \A k \in 1 .. n : Byes(queue[g], k + 1) = Byes(t, k) + one
  BY <1>1, ByesOfTail
<1>3. byes[g] \in Nat /\ one \in Nat /\ \A k \in 1 .. n : Byes(t, k) \in Nat
  BY <1>1, ByesCounted DEF AllTypes, TableTypes
<1>4. byes'[g] + Byes(t, Len(t) + 1) = Cardinality(HeardOf(g)')
  <2>1. n \in 1 .. n /\ Len(t) + 1 = n
    BY <1>1
  <2>2. byes[g] + Byes(queue[g], n + 1) = Cardinality(HeardOf(g))
    BY DEF ByesOf
  <2>3. Byes(queue[g], n + 1) = Byes(t, n) + one /\ Byes(t, n) \in Nat
    BY <1>2, <1>3, <2>1
  <2>4. byes'[g] = byes[g] + one
    OBVIOUS
  <2>5. byes'[g] + Byes(t, n) = byes[g] + Byes(queue[g], n + 1)
    <3> HIDE DEF one, t, n
    <3>1. QED
      BY <1>3, <2>3, <2>4
  <2>6. QED
    BY <2>1, <2>2, <2>5
<1>5. ASSUME NEW k \in 1 .. Len(t), IsPacket(t[k])
      PROVE  byes'[g] + Byes(t, k) < NumClusters - 1
  <2>1. PICK l : l = k + 1
    OBVIOUS
  <2>2. k \in 1 .. n /\ l \in 1 .. n /\ t[k] = queue[g][l]
    BY <1>1, <2>1
  <2>3. byes[g] + Byes(queue[g], l) < NumClusters - 1
    BY <1>5, <2>2 DEF ByesOf
  <2>4. Byes(queue[g], l) = Byes(t, k) + one /\ Byes(t, k) \in Nat
    BY <1>2, <1>3, <2>1, <2>2
  <2>5. byes'[g] = byes[g] + one /\ NumClusters \in Nat
    BY ProxyAssumption
  <2> HIDE DEF one, t, n
  <2>6. QED
    BY <1>3, <2>3, <2>4, <2>5
<1>6. ~Holds(t, None)
  <2>1. \A p : Holds(queue[g], p) <=> Holds(Tail(queue[g]), p) \/ p = Head(queue[g])
    BY <1>1, TailHolds
  <2>2. QED
    BY <2>1 DEF ByesOf
<1>7. QED
  BY <1>4, <1>5, <1>6 DEF ByesOf

\* The last thread of a job deletes queues that are empty.
LEMMA QueueStays ==
  ASSUME AllTypes, CookieInv, NEW g \in Gateways, NEW d \in {"in", "out"},
         MovesTo(<<g, d>>, "ended"), Unregister(g[1]), StateOf(<<g, d>>) = "leave",
         NEW h \in Gateways, ByesOf(h),
         outThread'[h] = "ended" => outThread[h] \in {"leave", "ended"}
  PROVE  queue'[h] = queue[h]
<1>1. CASE users'[g[1]] = 0 /\ h[1] = g[1]
  <2>1. EndedOf(g[1])' = ThreadsOf(g[1])
    BY <1>1, CookieLeft
  <2>2. <<h, "out">> \in ThreadsOf(g[1])
    BY <1>1, ThreadFacts
  <2>3. outThread'[h] = "ended"
    <3>1. StateOf(<<h, "out">>)' = "ended"
      BY <2>1, <2>2 DEF EndedOf
    <3>2. QED
      BY <3>1 DEF StateOf
  <2>4. byes[h] = NumClusters - 1
    BY <2>3 DEF ByesOf
  <2>5. queue[h] = <<>>
    BY <2>4, AllHeard
  <2>6. queue'[h] = <<>>
    BY <1>1 DEF Unregister
  <2>7. QED
    BY <2>5, <2>6
<1>2. CASE ~(users'[g[1]] = 0 /\ h[1] = g[1])
  <2>1. CASE users'[g[1]] = 0
    BY <1>2, <2>1 DEF Unregister
  <2>2. CASE users'[g[1]] # 0
    BY <2>2 DEF Unregister
  <2>3. QED
    BY <2>1, <2>2
<1>3. QED
  BY <1>1, <1>2

\* An in-thread tells all others once.
LEMMA InByes ==
  ASSUME AllTypes, CookieInv, EndInv, ByeInv, NEW g \in Gateways, InStep(g)
  PROVE  ByeInv'
<1>0. ThreadTypes /\ WireTypes /\ InTypes /\ QueueTypes /\ WireEnds(g)
  BY DEF AllTypes, Inv, Types, EndInv
<1>1. /\ UNCHANGED <<gateway, dead, outThread, byes>> /\ Broken' = Broken
      /\ \A h \in Gateways : h # g => Still(h)
  BY InAlone, BrokenByThread
<1>2. \A h \in Gateways : h # g => (Told(h)' <=> Told(h))
  BY <1>1 DEF Told, Still
<1>3. SUFFICES ASSUME NEW h \in Gateways, Sound(h), ByesOf(h)
               PROVE  ByesOf(h)'
  BY <1>1 DEF ByeInv, Sound
<1>4. g \in Broken => g \notin Peers(h)
  BY <1>3 DEF Sound
<1>5. ASSUME g \notin Peers(h) \/ (Told(g)' <=> Told(g)), queue'[h] = queue[h]
      PROVE  ByesOf(h)'
  <2>1. \A a \in Peers(h) : Told(a)' <=> Told(a)
    BY <1>2, <1>5 DEF Peers
  <2>2. HeardOf(h)' = HeardOf(h)
    BY <2>1, HeardSame
  <2>3. QED
    BY <1>1, <1>3, <1>5, <2>2, ByesStill
<1>6. CASE InBye(g)
  <2>1. /\ ~Told(g) /\ Told(g)'
    BY <1>0, <1>6 DEF InBye, Told, ThreadTypes
  <2>2. CASE h \in Peers(g)
    <3>1. queue'[h] = Append(queue[h], Bye) /\ g \in Peers(h)
      BY <1>6, <2>2 DEF InBye, PutToOthers, Peers
    <3>2. HeardOf(h)' = HeardOf(h) \cup {g} /\ g \notin HeardOf(h)
      BY <1>2, <2>1, <3>1 DEF HeardOf, Peers
    <3>3. Cardinality(HeardOf(h)') = Cardinality(HeardOf(h)) + 1
      BY <3>2, HeardCounted, FS_AddElement
    <3>4. Bye \in Items /\ Bye # None /\ ~IsPacket(Bye)
      BY OthersAreOther DEF Items
    <3>5. byes'[h] = byes[h] /\ outThread'[h] = outThread[h]
      BY <1>1
    <3>6. Cardinality(HeardOf(h)') = Cardinality(HeardOf(h)) + (IF Bye = Bye THEN 1 ELSE 0)
      BY <3>3
    <3>7. QED
      BY <1>3, <3>1, <3>4, <3>5, <3>6, ByesAdded
  <2>3. CASE h \notin Peers(g)
    <3>1. queue'[h] = queue[h] /\ g \notin Peers(h)
      BY <1>6, <2>3 DEF InBye, PutToOthers, Peers
    <3>2. QED
      BY <1>5, <3>1
  <2>4. QED
    BY <2>2, <2>3
<1>7. CASE InPut(g)
  <2> DEFINE q == inHand[g]
  <2>1. q \in PacketsOf(g) /\ q \in Packets /\ q.from = g /\ q.to \in Gateways /\ g \in Peers(q.to)
    BY <1>0, <1>7, OwnPackets, PacketOrigin, PacketRoute DEF InPut, InTypes
  <2>2. ~Told(g) /\ ~Told(g)'
    BY <1>0, <1>7 DEF InPut, Told, ThreadTypes
  <2>3. CASE h = q.to
    <3>1. queue'[h] = Append(queue[h], q)
      BY <1>0, <1>7, <2>1, <2>3 DEF InPut, QueueTypes
    <3>2. HeardOf(h)' = HeardOf(h)
      <4>1. \A a \in Peers(h) : Told(a)' <=> Told(a)
        BY <1>2, <2>2 DEF Peers
      <4>2. QED
        BY <4>1, HeardSame
    <3>3. q \in Items /\ q # None /\ q # Bye
      BY <2>1, PacketIsOther DEF Items
    <3>4. byes'[h] = byes[h] /\ outThread'[h] = outThread[h]
      BY <1>1
    <3>5. Cardinality(HeardOf(h)') = Cardinality(HeardOf(h)) + (IF q = Bye THEN 1 ELSE 0)
      BY <3>2, <3>3, HeardCounted
    <3>6. \E a \in Peers(h) : ~Told(a)
      BY <2>1, <2>2, <2>3
    <3> HIDE DEF q
    <3>7. QED
      BY <1>3, <3>1, <3>3, <3>4, <3>5, <3>6, ByesAdded
  <2>4. CASE h # q.to
    <3>1. queue'[h] = queue[h]
      BY <1>0, <1>7, <2>1, <2>4 DEF InPut, QueueTypes
    <3>2. QED
      BY <1>5, <2>2, <3>1
  <2>5. QED
    BY <2>3, <2>4
<1>8. CASE InError(g)
  <2>1. ~Told(g) /\ ~Told(g)'
    BY <1>0, <1>8 DEF InError, Told, ThreadTypes
  <2>2. g \in Broken
    <3>1. toProxy[g] \in Seq(FromGateway(g)) /\ toProxy[g] # <<>> /\ Head(toProxy[g]) = Eof
      BY <1>0, <1>8 DEF InError, WireTypes
    <3>2. Holds(toProxy[g], Eof)
      BY <3>1, TailHolds
    <3>3. QED
      BY <1>0, <3>2 DEF WireEnds
  <2>3. queue'[h] = queue[h]
    BY <1>4, <1>8, <2>2 DEF InError, PutToOthers, Peers
  <2>4. QED
    BY <1>5, <2>1, <2>3
<1>9. CASE InErrorLocks(g)
  <2>1. g \in Broken /\ queue' = queue
    BY <1>0, <1>9 DEF InErrorLocks, WireEnds
  <2>2. QED
    BY <1>4, <1>5, <2>1
<1>10. CASE InLeave(g)
  <2>1. Told(g) /\ Told(g)'
    BY <1>0, <1>10 DEF InLeave, Told, ThreadTypes
  <2>2. Unregister(g[1]) /\ StateOf(<<g, "in">>) = "leave"
    BY <1>10 DEF InLeave, StateOf
  <2>3. MovesTo(<<g, "in">>, "ended")
    BY <1>0, <1>1, <1>10, InMovesTo DEF InLeave
  <2>4. outThread'[h] = "ended" => outThread[h] \in {"leave", "ended"}
    BY <1>1
  <2>5. queue'[h] = queue[h]
    BY <1>3, <2>2, <2>3, <2>4, QueueStays
  <2>6. QED
    BY <1>5, <2>1, <2>5
<1>11. CASE InRegister(g) \/ InLine(g) \/ InCheck(g) \/ InCharge(g) \/ InRaises(g)
  <2>1. ~Told(g) /\ ~Told(g)'
    BY <1>0, <1>11 DEF InRegister, InLine, InCheck, InCharge, InRaises, Told, ThreadTypes
  <2>2. queue' = queue
    BY <1>11 DEF InRegister, Register, InLine, InCheck, InCharge, InRaises, tableVars
  <2>3. QED
    BY <1>5, <2>1, <2>2
<1>12. QED
  BY <1>6, <1>7, <1>8, <1>9, <1>10, <1>11 DEF InStep

\* A packet that a sound gateway's proxy holds for it is whole.
LEMMA SoundIsWhole ==
  ASSUME PlacesInv, NEW p \in Packets, Somewhere(p), Sound(p.to)
  PROVE  ~IsCut(p) /\ p.len = p.size /\ p.len > 0
<1>1. p.from \in Peers(p.to) /\ p.from \in Gateways /\ p \in PacketsOf(p.from)
  BY PacketRoute
<1>2. ~IsCut(p)
  BY <1>1 DEF PlacesInv, PacketInv, Written, Sound
<1>3. p.size \in 1 .. MaxSize /\ p.len \in 0 .. p.size /\ MaxSize \in Nat
  BY <1>1, PacketFacts, ProxyAssumption
<1>4. QED
  BY <1>2, <1>3 DEF IsCut

\* An out-thread counts every "bye" it takes from its queue.
LEMMA OutByes ==
  ASSUME AllTypes, CookieInv, PlacesInv, ByeInv, NEW g \in Gateways, OutStep(g)
  PROVE  ByeInv'
<1>0. ThreadTypes /\ QueueTypes /\ TableTypes
  BY DEF AllTypes, Inv, Types
<1>1. /\ UNCHANGED <<gateway, dead, inThread>> /\ Broken' = Broken
      /\ \A h \in Gateways : h # g => Still(h)
  BY OutAlone, BrokenByThread
<1>2. \A h \in Gateways : HeardOf(h)' = HeardOf(h)
  BY <1>1 DEF HeardOf, Told
<1>3. SUFFICES ASSUME NEW h \in Gateways, Sound(h), ByesOf(h)
               PROVE  ByesOf(h)'
  BY <1>1 DEF ByeInv, Sound
<1>4. ASSUME queue'[h] = queue[h], byes'[h] = byes[h],
             outThread'[h] \in {"bye", "leave", "ended"} => outThread[h] \in {"bye", "leave", "ended"}
      PROVE  ByesOf(h)'
  BY <1>2, <1>3, <1>4, ByesStill
<1>5. CASE OutGet(g)
  <2>1. CASE h # g
    <3>1. queue'[h] = queue[h]
      BY <1>0, <1>5, <2>1 DEF OutGet, QueueTypes
    <3>2. byes'[h] = byes[h] /\ outThread'[h] = outThread[h]
      BY <1>1, <2>1 DEF Still
    <3>3. QED
      BY <1>4, <3>1, <3>2
  <2>2. CASE h = g
    <3> DEFINE q == Head(queue[g])
    <3>1. /\ queue[g] # <<>> /\ queue'[g] = Tail(queue[g]) /\ queue[g] \in Seq(Items)
          /\ NoRepeat(queue[g]) /\ AllFor(queue[g], g)
      BY <1>0, <1>5, Sequences DEF OutGet, QueueTypes, PlacesInv, LinesInv
    <3>2. q \in Items /\ Holds(queue[g], q) /\ (IsPacket(q) => q.to = g)
      BY <3>1, Taking
    <3>3. q # None
      BY <1>3, <2>2, <3>2 DEF ByesOf
    <3>4. CASE q = Bye
      <4>1. byes'[g] = byes[g] + 1
        BY <1>0, <1>5, <3>4 DEF OutGet, TableTypes
      <4>2. outThread'[g] \in {"bye", "leave", "ended"} => byes'[g] = NumClusters - 1
        BY <1>0, <1>5, <3>4 DEF OutGet, ThreadTypes, LastBye
      <4>3. HeardOf(g)' = HeardOf(g)
        BY <1>2
      <4>4. byes'[g] = byes[g] + (IF Head(queue[g]) = Bye THEN 1 ELSE 0)
        BY <3>4, <4>1
      <4>5. ByesOf(g)
        BY <1>3, <2>2
      <4>6. ByesOf(g)'
        BY <3>1, <4>2, <4>3, <4>4, <4>5, ByesTaken
      <4>7. QED
        BY <2>2, <4>6
    <3>5. CASE q # Bye
      <4>1. q \in Packets /\ q.to = g
        BY <3>2, <3>3, <3>5, PacketIsOther DEF Items
      <4>2. q.len > 0
        <5>1. Somewhere(q) /\ Sound(q.to)
          BY <1>3, <2>2, <3>2, <4>1 DEF Somewhere, Queued
        <5> HIDE DEF q
        <5>2. QED
          BY <4>1, <5>1, SoundIsWhole
      <4>3. outThread'[g] = "write" /\ byes' = byes
        BY <1>0, <1>5, <3>3, <3>5, <4>2 DEF OutGet, ThreadTypes
      <4>4. byes'[g] = byes[g] + (IF Head(queue[g]) = Bye THEN 1 ELSE 0)
        BY <1>0, <3>5, <4>3 DEF TableTypes
      <4>5. ByesOf(g) /\ HeardOf(g)' = HeardOf(g)
        BY <1>2, <1>3, <2>2
      <4>6. outThread'[g] \in {"bye", "leave", "ended"} => byes'[g] = NumClusters - 1
        BY <4>3
      <4>7. ByesOf(g)'
        BY <3>1, <4>4, <4>5, <4>6, ByesTaken
      <4>8. QED
        BY <2>2, <4>7
    <3>6. QED
      BY <3>4, <3>5
  <2>3. QED
    BY <2>1, <2>2
<1>6. CASE OutLeave(g)
  <2>1. /\ Unregister(g[1]) /\ StateOf(<<g, "out">>) = "leave" /\ byes' = byes
        /\ outThread[g] = "leave" /\ outThread'[g] = "ended"
    BY <1>0, <1>6 DEF OutLeave, StateOf, ThreadTypes
  <2>2. MovesTo(<<g, "out">>, "ended")
    BY <1>0, <1>1, <1>6, OutMovesTo DEF OutLeave
  <2>3. h # g => outThread'[h] = outThread[h]
    BY <1>1 DEF Still
  <2>4. outThread'[h] = "ended" => outThread[h] \in {"leave", "ended"}
    BY <2>1, <2>3
  <2>5. queue'[h] = queue[h]
    BY <1>3, <2>1, <2>2, <2>4, QueueStays
  <2>6. QED
    BY <1>4, <2>1, <2>3, <2>5
<1>7. CASE OutRegister(g) \/ OutWrite(g) \/ OutBye(g) \/ OutRaises(g) \/ OutReduce(g)
  <2>1. queue' = queue /\ byes' = byes
    BY <1>7 DEF OutRegister, Register, OutWrite, OutBye, OutRaises, OutReduce, tableVars
  <2>2. outThread'[g] \in {"bye", "leave", "ended"} => outThread[g] = "bye"
    BY <1>0, <1>7 DEF OutRegister, OutWrite, OutBye, OutRaises, OutReduce, ThreadTypes
  <2>3. h # g => outThread'[h] = outThread[h]
    BY <1>1 DEF Still
  <2>4. QED
    BY <1>4, <2>1, <2>2, <2>3
<1>8. QED
  BY <1>5, <1>6, <1>7 DEF OutStep

-----------------------------------------------------------------------------
(* How the connection to a gateway ends                                    *)

\* A step of others does not change how a connection ends.
LEMMA LineStill ==
  ASSUME NEW g \in Gateways, LineOf(g), Still(g), Sound(g)' => Sound(g)
  PROVE  LineOf(g)'
  BY DEF LineOf, Still, Holds

\* A message that is not the end of the connection is taken from it, or added.
LEMMA LineShorter ==
  ASSUME AllTypes, NEW g \in Gateways, LineOf(g), toGateway[g] # <<>>,
         toGateway'[g] = Tail(toGateway[g]), Head(toGateway[g]) # Bye \/ byeRead'[g],
         byeRead[g] => byeRead'[g], outThread'[g] = outThread[g], g \in dead' <=> g \in dead,
         Sound(g)' => Sound(g)
  PROVE  LineOf(g)'
<1> DEFINE s == toGateway[g]
<1>1. /\ s \in Seq(Lines) /\ Len(s) \in Nat \ {0} /\ Len(Tail(s)) = Len(s) - 1
      /\ \A i \in 1 .. Len(Tail(s)) : Tail(s)[i] = s[i + 1]
  BY Sequences, HeadTailProperties, LenProperties
<1>2. \A p : Holds(s, p) <=> Holds(Tail(s), p) \/ p = Head(s)
  <2>1. s \in Seq(Lines) /\ s # <<>>
    BY <1>1
  <2> HIDE DEF s
  <2>2. QED
    BY <2>1, TailHolds
<1>3. ASSUME NEW k \in 1 .. Len(Tail(s)), Tail(s)[k] = Eof
      PROVE  k = Len(Tail(s))
  <2>1. PICK l : l = k + 1
    OBVIOUS
  <2>2. l \in 1 .. Len(s) /\ s[l] = Eof
    BY <1>1, <1>3, <2>1
  <2>3. l = Len(s)
    BY <2>2 DEF LineOf
  <2>4. QED
    BY <1>1, <2>1, <2>3
<1>4. QED
  BY <1>2, <1>3 DEF LineOf

\* Nothing has been added after the end of a connection.
LEMMA LineLonger ==
  ASSUME AllTypes, NEW g \in Gateways, LineOf(g), NEW m \in Lines, outThread[g] # "ended",
         toGateway'[g] = Append(toGateway[g], m)
  PROVE  /\ \A p : Holds(toGateway'[g], p) <=> Holds(toGateway[g], p) \/ p = m
         /\ \A k \in 1 .. Len(toGateway'[g]) : toGateway'[g][k] = Eof => k = Len(toGateway'[g])
<1>1. /\ toGateway[g] \in Seq(Lines) /\ Len(toGateway[g]) \in Nat
      /\ Len(toGateway'[g]) = Len(toGateway[g]) + 1
      /\ \A i \in 1 .. Len(toGateway[g]) : toGateway'[g][i] = toGateway[g][i]
  BY Sequences, AppendProperties, LenProperties
<1>2. \A p : Holds(toGateway'[g], p) <=> Holds(toGateway[g], p) \/ p = m
  BY <1>1, AppendHolds
<1>3. \A i \in 1 .. Len(toGateway[g]) : toGateway[g][i] # Eof
  BY DEF LineOf, Holds
<1>4. \A k \in 1 .. Len(toGateway'[g]) : toGateway'[g][k] = Eof => k = Len(toGateway'[g])
  BY <1>1, <1>3
<1>5. QED
  BY <1>2, <1>4

\* A gateway reads no end of its connection, or dies of it.
LEMMA GatewayLines ==
  ASSUME AllTypes, LineEnds, NEW g \in Gateways, GatewayStep(g) \/ Crash(g)
  PROVE  LineEnds'
<1>0. GatewayTypes /\ outThread' = outThread
  BY DEF AllTypes, GatewayStep, GatewayWrite, GatewayRead, GatewayLeave, GatewayBye,
         GatewayCleanup, GatewayAbort, Crash, Die, outVars
<1>1. \A h \in Gateways : (Sound(h)' => Sound(h)) /\ LineOf(h)
  BY BrokenByGateway DEF Sound, LineEnds
<1>2. ASSUME NEW h \in Gateways, h # g
      PROVE  LineOf(h)'
  BY <1>1, <1>2, GatewayAlone, LineStill
<1>3. LineOf(g)'
  <2>1. CASE GatewayRead(g) \/ (GatewayCleanup(g) /\ ~byeRead[g])
    <3>1. /\ toGateway[g] # <<>> /\ toGateway'[g] = Tail(toGateway[g])
          /\ Head(toGateway[g]) # Bye \/ byeRead'[g]
          /\ byeRead[g] => byeRead'[g]
          /\ dead' = dead
      BY <1>0, <2>1 DEF GatewayRead, GatewayCleanup, GatewayTypes
    <3>2. QED
      BY <1>0, <1>1, <3>1, LineShorter
  <2>2. CASE GatewayWrite(g) \/ GatewayLeave(g) \/ GatewayBye(g) \/ (GatewayCleanup(g) /\ byeRead[g])
    <3>1. UNCHANGED <<toGateway, byeRead, dead>>
      BY <2>2 DEF GatewayWrite, GatewayLeave, GatewayBye, GatewayCleanup, wires
    <3>2. QED
      BY <1>0, <1>1, <3>1 DEF LineOf
  <2>3. CASE GatewayAbort(g) \/ Crash(g)
    <3>1. toGateway'[g] = <<>> /\ g \in dead'
      BY <1>0, <2>3 DEF GatewayAbort, Crash, Die, GatewayTypes
    <3>2. QED
      BY <3>1, NothingHeld DEF LineOf
  <2>4. QED
    BY <2>1, <2>2, <2>3 DEF GatewayStep
<1>4. QED
  BY <1>2, <1>3 DEF LineEnds

\* An in-thread has nothing to do with it.
LEMMA InLines ==
  ASSUME AllTypes, LineEnds, NEW g \in Gateways, InStep(g)
  PROVE  LineEnds'
<1>1. UNCHANGED <<dead, byeRead, toGateway, outThread>> /\ Broken' = Broken
  BY InAlone, BrokenByThread
<1>2. QED
  BY <1>1 DEF LineEnds, LineOf, Sound

\* An out-thread of a sound gateway leaves when it has said "bye".
LEMMA OutLines ==
  ASSUME AllTypes, ByeInv, ByeInv', LineEnds, NEW g \in Gateways, OutStep(g)
  PROVE  LineEnds'
<1>0. ThreadTypes /\ GatewayTypes /\ LineOf(g)
  BY DEF AllTypes, LineEnds
<1>1. UNCHANGED <<dead, byeRead>> /\ Broken' = Broken /\ \A h \in Gateways : h # g => Still(h)
  BY OutAlone, BrokenByThread
<1>2. \A h \in Gateways : Sound(h)' <=> Sound(h)
  BY <1>1 DEF Sound
<1>3. ASSUME NEW h \in Gateways, h # g
      PROVE  LineOf(h)'
  BY <1>1, <1>2, <1>3, LineStill DEF LineEnds
<1>4. LineOf(g)'
  <2>1. CASE OutGet(g)
    <3>1. toGateway' = toGateway /\ outThread[g] = "get" /\ outThread'[g] # "ended"
      BY <1>0, <2>1 DEF OutGet, ThreadTypes, wires
    <3>2. Sound(g) => outThread'[g] # "leave"
      <4> SUFFICES ASSUME Sound(g), outThread'[g] = "leave"
                   PROVE  FALSE
        OBVIOUS
      <4>1. byes'[g] = NumClusters - 1
        BY <1>2 DEF ByeInv, ByesOf
      <4>2. byes' = byes
        <5>1. CASE Head(queue[g]) = Bye
          BY <1>0, <2>1, <5>1 DEF OutGet, ThreadTypes
        <5>2. CASE Head(queue[g]) # Bye
          BY <2>1, <5>2 DEF OutGet
        <5>3. QED
          BY <5>1, <5>2
      <4>3. queue[g] = <<>>
        BY <4>1, <4>2, AllHeard DEF ByeInv
      <4>4. QED
        BY <2>1, <4>3 DEF OutGet
    <3>3. QED
      BY <1>0, <1>1, <1>2, <3>1, <3>2 DEF LineOf
  <2>2. CASE OutWrite(g)
    <3>1. /\ outThread[g] = "write" /\ outThread'[g] = "reduce" /\ outHand[g] \in Packets
          /\ toGateway'[g] = toGateway[g] \/ toGateway'[g] = Append(toGateway[g], outHand[g])
      BY <1>0, <2>2 DEF OutWrite, OutWire, ThreadTypes, GatewayTypes
    <3>2. outHand[g] \in Lines /\ outHand[g] # Eof
      BY <3>1, PacketIsOther DEF Lines
    <3>3. CASE toGateway'[g] = toGateway[g]
      BY <1>0, <1>1, <3>1, <3>3 DEF LineOf
    <3>4. CASE toGateway'[g] = Append(toGateway[g], outHand[g])
      <4>1. /\ \A p : Holds(toGateway'[g], p) <=> Holds(toGateway[g], p) \/ p = outHand[g]
            /\ \A k \in 1 .. Len(toGateway'[g]) :
                 toGateway'[g][k] = Eof => k = Len(toGateway'[g])
        BY <1>0, <3>1, <3>2, <3>4, LineLonger
      <4>2. QED
        BY <1>0, <3>1, <3>2, <4>1 DEF LineOf
    <3>5. QED
      BY <3>1, <3>3, <3>4
  <2>3. CASE OutBye(g)
    <3>1. /\ outThread[g] = "bye" /\ outThread'[g] = "leave"
          /\ \/ g \in dead /\ toGateway'[g] = toGateway[g]
             \/ toGateway'[g] = Append(toGateway[g], Bye)
      BY <1>0, <2>3 DEF OutBye, OutWire, ThreadTypes, GatewayTypes
    <3>2. Bye \in Lines /\ Bye # Eof
      BY OthersAreOther DEF Lines
    <3>3. CASE g \in dead /\ toGateway'[g] = toGateway[g]
      BY <1>0, <1>1, <3>1, <3>3 DEF LineOf
    <3>4. CASE toGateway'[g] = Append(toGateway[g], Bye)
      <4>1. /\ \A p : Holds(toGateway'[g], p) <=> Holds(toGateway[g], p) \/ p = Bye
            /\ \A k \in 1 .. Len(toGateway'[g]) :
                 toGateway'[g][k] = Eof => k = Len(toGateway'[g])
        BY <1>0, <3>1, <3>2, <3>4, LineLonger
      <4>2. QED
        BY <1>0, <3>1, <3>2, <4>1 DEF LineOf
    <3>5. QED
      BY <3>1, <3>3, <3>4
  <2>4. CASE OutLeave(g)
    <3>1. /\ outThread[g] = "leave" /\ outThread'[g] = "ended"
          /\ \/ (g \in dead \/ byeRead[g]) /\ toGateway'[g] = toGateway[g]
             \/ g \notin dead /\ toGateway'[g] = Append(toGateway[g], Eof)
      BY <1>0, <2>4 DEF OutLeave, ThreadTypes, GatewayTypes
    <3>2. Eof \in Lines
      BY DEF Lines
    <3>3. CASE (g \in dead \/ byeRead[g]) /\ toGateway'[g] = toGateway[g]
      BY <1>0, <1>1, <1>2, <3>1, <3>3 DEF LineOf
    <3>4. CASE g \notin dead /\ toGateway'[g] = Append(toGateway[g], Eof)
      <4>1. /\ \A p : Holds(toGateway'[g], p) <=> Holds(toGateway[g], p) \/ p = Eof
            /\ \A k \in 1 .. Len(toGateway'[g]) :
                 toGateway'[g][k] = Eof => k = Len(toGateway'[g])
        BY <1>0, <3>1, <3>2, <3>4, LineLonger
      <4>2. QED
        BY <1>0, <1>1, <1>2, <3>1, <3>4, <4>1 DEF LineOf
    <3>5. QED
      BY <3>1, <3>3, <3>4
  <2>5. CASE OutRegister(g) \/ OutRaises(g) \/ OutReduce(g)
    <3>1. /\ toGateway' = toGateway /\ outThread'[g] \notin {"leave", "ended"}
          /\ outThread[g] # "ended"
      BY <1>0, <2>5 DEF OutRegister, OutRaises, OutReduce, ThreadTypes, wires
    <3>2. QED
      BY <1>0, <1>1, <3>1 DEF LineOf
  <2>6. QED
    BY <2>1, <2>2, <2>3, <2>4, <2>5 DEF OutStep
<1>5. QED
  BY <1>3, <1>4 DEF LineEnds

-----------------------------------------------------------------------------
(* What is charged                                                         *)

\* The bytes of a packet.
BytesOf(p) == {p} \X (1 .. p.len)

\* A packet without bytes does not matter.
LEMMA HeldSame ==
  ASSUME \A p \in Packets : p.len > 0 => (Charged(p)' <=> Charged(p))
  PROVE  Held' = Held
<1>1. \A u \in Packets \X Nat : u[2] \in 1 .. u[1].len => u[1].len > 0
  BY AnyPacket
<1>2. QED
  BY <1>1 DEF Held

\* Packets that are lost are not held.
LEMMA HeldLess ==
  ASSUME IsFiniteSet(Held), \A p \in Packets : Charged(p)' => Charged(p)
  PROVE  IsFiniteSet(Held') /\ Cardinality(Held') <= Cardinality(Held)
<1>1. Held' \subseteq Held
  BY DEF Held
<1>2. QED
  BY <1>1, FS_Subset

\* One packet more, or less.
LEMMA HeldMore ==
  ASSUME IsFiniteSet(Held), NEW q \in Packets, ~Charged(q),
         \A p \in Packets : Charged(p)' <=> Charged(p) \/ p = q
  PROVE  IsFiniteSet(Held') /\ Cardinality(Held') = Cardinality(Held) + q.len
<1>1. q.len \in Nat
  BY AnyPacket
<1>2. IsFiniteSet(BytesOf(q)) /\ Cardinality(BytesOf(q)) = q.len
  BY <1>1, PacketBytes DEF BytesOf
<1>3. Held' = Held \cup BytesOf(q)
  <2>1. ASSUME NEW u \in Packets \X Nat
        PROVE  u \in Held' <=> u \in Held \/ u \in BytesOf(q)
    <3>1. u \in BytesOf(q) <=> u[1] = q /\ u[2] \in 1 .. q.len
      BY DEF BytesOf
    <3>2. u \in Held <=> Charged(u[1]) /\ u[2] \in 1 .. u[1].len
      BY DEF Held
    <3>3. u \in Held' <=> Charged(u[1])' /\ u[2] \in 1 .. u[1].len
      BY DEF Held
    <3>4. u[1] \in Packets
      OBVIOUS
    <3>5. QED
      BY <3>1, <3>2, <3>3, <3>4
  <2>2. BytesOf(q) \subseteq Packets \X Nat
    BY <1>1 DEF BytesOf
  <2>3. QED
    BY <2>1, <2>2 DEF Held
<1>4. Held \cap BytesOf(q) = {}
  BY DEF Held, BytesOf
<1>5. /\ IsFiniteSet(Held \cup BytesOf(q))
      /\ Cardinality(Held \cup BytesOf(q))
           = Cardinality(Held) + Cardinality(BytesOf(q)) - Cardinality(Held \cap BytesOf(q))
  BY <1>2, FS_Union
<1>6. Cardinality(Held) \in Nat /\ Cardinality(Held \cap BytesOf(q)) = 0
  BY <1>4, FS_CardinalityType, FS_EmptySet
<1>7. Cardinality(Held \cup BytesOf(q)) = Cardinality(Held) + q.len
  BY <1>1, <1>2, <1>5, <1>6
<1>8. QED
  BY <1>3, <1>5, <1>7

LEMMA HeldFewer ==
  ASSUME IsFiniteSet(Held), NEW q \in Packets, Charged(q),
         \A p \in Packets : Charged(p)' <=> Charged(p) /\ p # q
  PROVE  IsFiniteSet(Held') /\ Cardinality(Held') = Cardinality(Held) - q.len
<1>1. q.len \in Nat
  BY AnyPacket
<1>2. IsFiniteSet(BytesOf(q)) /\ Cardinality(BytesOf(q)) = q.len
  BY <1>1, PacketBytes DEF BytesOf
<1>3. Held' = Held \ BytesOf(q)
  <2>1. ASSUME NEW u \in Packets \X Nat
        PROVE  u \in Held' <=> u \in Held /\ u \notin BytesOf(q)
    <3>1. u \in BytesOf(q) <=> u[1] = q /\ u[2] \in 1 .. q.len
      BY DEF BytesOf
    <3>2. u \in Held <=> Charged(u[1]) /\ u[2] \in 1 .. u[1].len
      BY DEF Held
    <3>3. u \in Held' <=> Charged(u[1])' /\ u[2] \in 1 .. u[1].len
      BY DEF Held
    <3>4. u[1] \in Packets
      OBVIOUS
    <3>5. QED
      BY <3>1, <3>2, <3>3, <3>4
  <2>2. QED
    BY <2>1 DEF Held
<1>4. BytesOf(q) \subseteq Held
  <2>1. ASSUME NEW u \in BytesOf(q)
        PROVE  u \in Held
    <3>1. u \in Packets \X Nat /\ u[1] = q /\ u[2] \in 1 .. q.len
      BY <1>1 DEF BytesOf
    <3>2. QED
      BY <3>1 DEF Held
  <2>2. QED
    BY <2>1
<1>5. Held \cap BytesOf(q) = BytesOf(q)
  BY <1>4
<1>6. /\ IsFiniteSet(Held \ BytesOf(q))
      /\ Cardinality(Held \ BytesOf(q)) = Cardinality(Held) - Cardinality(Held \cap BytesOf(q))
  BY FS_Difference
<1>7. QED
  BY <1>2, <1>3, <1>5, <1>6

\* No thread fails in a clean state, and no state before it had a failure.
LEMMA CleanStays ==
  ASSUME Broken \subseteq Broken',
         \A g \in Gateways : outThread'[g] # "raised" => outThread[g] # "raised"
  PROVE  Clean' => Clean
  BY DEF Clean

\* Gateways charge nothing and give nothing back.
LEMMA GatewayMemory ==
  ASSUME AllTypes, MemoryInv, NEW g \in Gateways, GatewayStep(g) \/ Crash(g)
  PROVE  MemoryInv'
<1>1. UNCHANGED <<inThread, inHand, outThread, outHand, queue, memusage>>
  BY DEF GatewayStep, GatewayWrite, GatewayRead, GatewayLeave, GatewayBye, GatewayCleanup,
         GatewayAbort, Crash, Die, inVars, outVars, tableVars, memVars
<1>2. \A p \in Packets : Charged(p)' <=> Charged(p)
  BY <1>1 DEF Charged, Queued, InHands, Taken
<1>3. Held' = Held
  BY <1>2, HeldSame
<1>4. Broken \subseteq Broken'
  BY BrokenByGateway
<1>5. Clean' => Clean
  BY <1>1, <1>4, CleanStays
<1>6. QED
  BY <1>1, <1>3, <1>5 DEF MemoryInv

\* In a clean state all gateways are sound.
LEMMA CleanIsSound ==
  ASSUME Clean, NEW g \in Gateways
  PROVE  Sound(g)
  BY DEF Clean, Sound

\* A thread that leaves gives back no packet, unless a gateway has died.
LEMMA LeavesMemory ==
  ASSUME AllTypes, CookieInv, ByeInv, MemoryInv, NEW g \in Gateways, NEW d \in {"in", "out"},
         MovesTo(<<g, d>>, "ended"), Unregister(g[1]), StateOf(<<g, d>>) = "leave",
         \A h \in Gateways : outThread'[h] = "ended" => outThread[h] \in {"leave", "ended"},
         \A h \in Gateways : outThread'[h] # "raised" => outThread[h] # "raised",
         UNCHANGED <<inHand, outHand, memusage, gateway, dead>>,
         \A h \in Gateways : inThread'[h] = "read" <=> inThread[h] = "read"
  PROVE  MemoryInv'
<1>1. Broken' = Broken
  BY BrokenByThread
<1>2. Clean' => Clean
  BY <1>1, CleanStays
<1>3. ASSUME NEW p \in Packets
      PROVE  /\ p.to \in Gateways
             /\ InHands(p)' /\ inThread'[p.from] = "read" <=> InHands(p) /\ inThread[p.from] = "read"
             /\ (Taken(p)' <=> Taken(p))
  BY PacketRoute DEF InHands, Taken
<1>4. \A p \in Packets : Charged(p)' => Charged(p)
  <2> SUFFICES ASSUME NEW p \in Packets
               PROVE  (Queued(p)' => Queued(p))
    BY <1>3 DEF Charged
  <2>1. p.to \in Gateways
    BY <1>3
  <2>2. queue'[p.to] = queue[p.to] \/ queue'[p.to] = <<>>
    BY <2>1 DEF Unregister
  <2>3. QED
    BY <2>2, NothingHeld DEF Queued
<1>5. IsFiniteSet(Held') /\ Cardinality(Held') <= Cardinality(Held)
  BY <1>4, HeldLess DEF MemoryInv
<1>6. ASSUME Clean
      PROVE  Held' = Held
  <2>1. \A h \in Gateways : queue'[h] = queue[h]
    <3>1. \A h \in Gateways : ByesOf(h)
      BY <1>6, CleanIsSound DEF ByeInv
    <3>2. QED
      BY <3>1, QueueStays
  <2>2. \A p \in Packets : Charged(p)' <=> Charged(p)
    BY <1>3, <2>1 DEF Charged, Queued
  <2>3. QED
    BY <2>2, HeldSame
<1>7. memusage \in Int /\ Cardinality(Held) \in Nat /\ Cardinality(Held') \in Nat
  BY <1>5, FS_CardinalityType DEF AllTypes, Inv, Types, MemoryInv
<1>8. memusage' >= Cardinality(Held')
  BY <1>5, <1>7 DEF MemoryInv
<1>9. QED
  BY <1>2, <1>5, <1>6, <1>8 DEF MemoryInv

\* An in-thread charges a packet once, before it is in a queue.
LEMMA InMemory ==
  ASSUME AllTypes, CookieInv, PlacesInv, ByeInv, MemoryInv, NEW g \in Gateways, InStep(g)
  PROVE  MemoryInv'
<1>0. /\ ThreadTypes /\ InTypes /\ WireTypes /\ QueueTypes /\ memusage \in Int
      /\ Cardinality(Held) \in Nat
  BY FS_CardinalityType DEF AllTypes, Inv, Types, MemoryInv
<1>1. /\ UNCHANGED <<gateway, dead, outThread, outHand>> /\ Broken' = Broken
      /\ \A h \in Gateways : h # g => Still(h)
  BY InAlone, BrokenByThread
<1>2. Clean' <=> Clean
  BY <1>1 DEF Clean
<1>3. ASSUME NEW p \in Packets
      PROVE  /\ p.from \in Gateways /\ p.to \in Gateways /\ p # NoPacket
             /\ (Taken(p)' <=> Taken(p))
             /\ p.from # g => /\ (InHands(p)' <=> InHands(p))
                              /\ inThread'[p.from] = inThread[p.from]
  BY <1>1, PacketRoute, PacketIsOther DEF Taken, InHands, Still
<1>4. ASSUME memusage' = memusage,
             \A p \in Packets : /\ Queued(p)' <=> Queued(p)
                                /\ p.from = g => (InHands(p)' /\ inThread'[g] = "read"
                                                    <=> InHands(p) /\ inThread[g] = "read")
      PROVE  MemoryInv'
  <2>1. \A p \in Packets : Charged(p)' <=> Charged(p)
    BY <1>3, <1>4 DEF Charged
  <2>2. Held' = Held
    BY <2>1, HeldSame
  <2>3. QED
    BY <1>2, <1>4, <2>2 DEF MemoryInv
<1>5. CASE InCharge(g)
  <2> DEFINE q == inHand[g]
  <2>1. /\ inThread[g] = "charge" /\ inThread'[g] = "read" /\ inHand' = inHand /\ queue' = queue
        /\ memusage' = memusage + q.size
    BY <1>0, <1>5 DEF InCharge, ThreadTypes, tableVars
  <2>2. q \in PacketsOf(g) /\ q \in Packets /\ q.from = g
    BY <1>0, <2>1, OwnPackets, PacketOrigin DEF InTypes
  <2>3. q.size \in Nat /\ q.len \in Nat /\ q.len <= q.size
    <3>1. q.len \in 0 .. q.size /\ q.size \in Nat
      BY <2>2, PacketFacts, AnyPacket
    <3> HIDE DEF q
    <3>2. QED
      BY <3>1
  <2>4. InHands(q) /\ ~Queued(q) /\ ~Taken(q)
    <3>1. OncePlaced(q) /\ InHands(q)
      BY <2>2 DEF PlacesInv, PacketInv, InHands
    <3>2. QED
      BY <3>1 DEF OncePlaced
  <2>5. ~Charged(q)
    BY <2>1, <2>2, <2>4 DEF Charged
  <2>6. \A p \in Packets : Charged(p)' <=> Charged(p) \/ p = q
    <3> SUFFICES ASSUME NEW p \in Packets
                 PROVE  Charged(p)' <=> Charged(p) \/ p = q
      OBVIOUS
    <3>1. Queued(p)' <=> Queued(p)
      BY <2>1 DEF Queued
    <3>2. CASE p.from = g
      <4>1. InHands(p)' /\ inThread'[p.from] = "read" <=> p = q
        BY <2>1, <3>2 DEF InHands
      <4>2. ~(InHands(p) /\ inThread[p.from] = "read")
        BY <2>1, <3>2
      <4>3. QED
        BY <1>3, <3>1, <4>1, <4>2 DEF Charged
    <3>3. CASE p.from # g
      BY <1>3, <2>2, <3>1, <3>3 DEF Charged
    <3>4. QED
      BY <3>2, <3>3
  <2>7. Clean => q.len = q.size
    <3>1. Clean => Sound(q.to)
      BY <2>2, PacketRoute, CleanIsSound
    <3>2. Somewhere(q)
      BY <2>4 DEF Somewhere
    <3> HIDE DEF q
    <3>3. QED
      BY <2>2, <3>1, <3>2, SoundIsWhole
  <2>8. IsFiniteSet(Held') /\ Cardinality(Held') = Cardinality(Held) + q.len
    <3> HIDE DEF q
    <3>1. IsFiniteSet(Held)
      BY DEF MemoryInv
    <3>2. QED
      BY <2>2, <2>5, <2>6, <3>1, HeldMore
  <2> HIDE DEF q
  <2>9. memusage' >= Cardinality(Held')
    BY <1>0, <2>1, <2>3, <2>8 DEF MemoryInv
  <2>10. Clean => memusage' = Cardinality(Held')
    BY <1>0, <2>1, <2>7, <2>8 DEF MemoryInv
  <2>11. QED
    BY <1>2, <2>8, <2>9, <2>10 DEF MemoryInv
<1>6. CASE InPut(g)
  <2> DEFINE q == inHand[g]
  <2>1. /\ inThread[g] = "read" /\ inThread'[g] = "line" /\ inHand'[g] = NoPacket
        /\ memusage' = memusage
    BY <1>0, <1>6 DEF InPut, ThreadTypes, InTypes, memVars
  <2>2. q \in PacketsOf(g) /\ q \in Packets /\ q.from = g /\ q.to \in Gateways
    BY <1>0, <2>1, OwnPackets, PacketOrigin, PacketRoute DEF InTypes
  <2>3. /\ queue'[q.to] = Append(queue[q.to], q)
        /\ \A h \in Gateways : h # q.to => queue'[h] = queue[h]
    BY <1>0, <1>6, <2>2 DEF InPut, QueueTypes
  <2>4. \A p : Holds(queue'[q.to], p) <=> Holds(queue[q.to], p) \/ p = q
    <3>1. queue[q.to] \in Seq(Items) /\ q \in Items
      BY <2>2, Sequences DEF Items
    <3> HIDE DEF q
    <3>2. QED
      BY <2>3, <3>1, AppendHolds
  <2> HIDE DEF q
  <2>5. \A p \in Packets : Queued(p)' <=> Queued(p) \/ p = q
    BY <1>3, <2>3, <2>4 DEF Queued
  <2>6. \A p \in Packets : p.from = g => ~InHands(p)' /\ (InHands(p) <=> p = q)
    BY <1>3, <2>1 DEF InHands, q
  <2>7. \A p \in Packets : Charged(p)' <=> Charged(p)
    <3> SUFFICES ASSUME NEW p \in Packets
                 PROVE  Charged(p)' <=> Charged(p)
      OBVIOUS
    <3>1. CASE p.from = g
      BY <1>3, <2>1, <2>5, <2>6, <3>1 DEF Charged
    <3>2. CASE p.from # g
      BY <1>3, <2>2, <2>5, <3>2 DEF Charged
    <3>3. QED
      BY <3>1, <3>2
  <2>8. Held' = Held
    BY <2>7, HeldSame
  <2>9. QED
    BY <1>2, <2>1, <2>8 DEF MemoryInv
<1>7. CASE InBye(g) \/ InError(g)
  <2>1. PutToOthers(g, Bye) \/ PutToOthers(g, None)
    BY <1>7 DEF InBye, InError
  <2>2. \A h \in Gateways : \A p \in Packets : Holds(queue'[h], p) <=> Holds(queue[h], p)
    BY <2>1, PutOthersFlows
  <2>3. memusage' = memusage /\ inThread[g] # "read" /\ inThread'[g] # "read"
    BY <1>0, <1>7 DEF InBye, InError, ThreadTypes, memVars
  <2>4. \A p \in Packets : Queued(p)' <=> Queued(p)
    BY <1>3, <2>2 DEF Queued
  <2>5. QED
    BY <1>4, <2>3, <2>4
<1>8. CASE InRegister(g) \/ InLine(g) \/ InCheck(g) \/ InErrorLocks(g) \/ InRaises(g)
  <2>1. /\ memusage' = memusage /\ queue' = queue /\ inThread[g] # "read" /\ inThread'[g] # "read"
    BY <1>0, <1>8 DEF InRegister, Register, InLine, InCheck, InErrorLocks, InRaises, ThreadTypes,
                      tableVars, memVars
  <2>2. \A p \in Packets : Queued(p)' <=> Queued(p)
    BY <2>1 DEF Queued
  <2>3. QED
    BY <1>4, <2>1, <2>2
<1>9. CASE InLeave(g)
  <2>1. Unregister(g[1]) /\ StateOf(<<g, "in">>) = "leave"
    BY <1>9 DEF InLeave, StateOf
  <2>2. MovesTo(<<g, "in">>, "ended")
    BY <1>0, <1>1, <1>9, InMovesTo DEF InLeave
  <2>3. /\ \A h \in Gateways : outThread'[h] = "ended" => outThread[h] \in {"leave", "ended"}
        /\ \A h \in Gateways : outThread'[h] # "raised" => outThread[h] # "raised"
    BY <1>1
  <2>4. UNCHANGED <<inHand, outHand, memusage, gateway, dead>>
    BY <1>9 DEF InLeave, gwVars, outVars, memVars
  <2>5. \A h \in Gateways : inThread'[h] = "read" <=> inThread[h] = "read"
    BY <1>0, <1>9 DEF InLeave, ThreadTypes
  <2>6. QED
    BY <2>1, <2>2, <2>3, <2>4, <2>5, LeavesMemory
<1>10. QED
  BY <1>5, <1>6, <1>7, <1>8, <1>9 DEF InStep

\* An out-thread gives a packet back once, when it is nowhere else.
LEMMA OutMemory ==
  ASSUME AllTypes, CookieInv, PlacesInv, ByeInv, MemoryInv, NEW g \in Gateways, OutStep(g)
  PROVE  MemoryInv'
<1>0. /\ ThreadTypes /\ QueueTypes /\ memusage \in Int /\ Cardinality(Held) \in Nat
      /\ IsFiniteSet(Held)
  BY FS_CardinalityType DEF AllTypes, Inv, Types, MemoryInv
<1>1. /\ UNCHANGED <<gateway, dead, inThread, inHand>> /\ Broken' = Broken
      /\ \A h \in Gateways : h # g => Still(h)
  BY OutAlone, BrokenByThread
<1>2. Clean' => Clean
  <2>1. outThread[g] # "raised"
    BY DEF OutStep, OutRegister, OutGet, OutWrite, OutBye, OutRaises, OutReduce, OutLeave
  <2>2. \A h \in Gateways : outThread'[h] # "raised" => outThread[h] # "raised"
    BY <1>1, <2>1 DEF Still
  <2>3. QED
    BY <1>1, <2>2, CleanStays
<1>3. ASSUME NEW p \in Packets
      PROVE  /\ p.to \in Gateways /\ p # NoPacket
             /\ (InHands(p)' /\ inThread'[p.from] = "read" <=> InHands(p) /\ inThread[p.from] = "read")
             /\ p.to # g => (Taken(p)' <=> Taken(p))
  BY <1>1, PacketRoute, PacketIsOther DEF Taken, InHands, Still
<1>4. ASSUME memusage' = memusage,
             \A p \in Packets : p.len > 0 => (Queued(p)' \/ Taken(p)' <=> Queued(p) \/ Taken(p))
      PROVE  MemoryInv'
  <2>1. \A p \in Packets : p.len > 0 => (Charged(p)' <=> Charged(p))
    BY <1>3, <1>4 DEF Charged
  <2>2. Held' = Held
    BY <2>1, HeldSame
  <2>3. QED
    BY <1>2, <1>4, <2>2 DEF MemoryInv
<1>5. CASE OutGet(g)
  <2> DEFINE q == Head(queue[g])
  <2>1. /\ queue[g] # <<>> /\ queue'[g] = Tail(queue[g]) /\ queue[g] \in Seq(Items)
        /\ NoRepeat(queue[g]) /\ AllFor(queue[g], g) /\ outHand[g] = NoPacket
        /\ \A h \in Gateways : h # g => queue'[h] = queue[h]
        /\ memusage' = memusage
    BY <1>0, <1>5, Sequences DEF OutGet, QueueTypes, PlacesInv, LinesInv, ThreadTypes, memVars
  <2>2. /\ q \in Items /\ Holds(queue[g], q)
        /\ \A p \in Packets : Holds(queue'[g], p) <=> Holds(queue[g], p) /\ p # q
        /\ IsPacket(q) => q.to = g
    BY <2>1, Taking
  <2>3. \/ q \in Packets /\ q.len > 0 /\ outHand'[g] = q
        \/ ~(q \in Packets /\ q.len > 0) /\ outHand'[g] = NoPacket
    <3>1. CASE q = Bye
      BY <1>0, <1>5, <2>1, <3>1, PacketIsOther DEF OutGet, ThreadTypes
    <3>2. CASE q = None
      BY <1>0, <1>5, <3>2, PacketIsOther, OthersAreOther DEF OutGet, ThreadTypes
    <3>3. CASE q \in Packets
      BY <1>0, <1>5, <3>3, PacketIsOther DEF OutGet, ThreadTypes
    <3>4. QED
      BY <2>2, <3>1, <3>2, <3>3 DEF Items
  <2> HIDE DEF q
  <2>4. ASSUME NEW p \in Packets, p.len > 0
        PROVE  Queued(p)' \/ Taken(p)' <=> Queued(p) \/ Taken(p)
    <3>1. CASE p.to = g
      <4>1. Queued(p)' <=> Queued(p) /\ p # q
        BY <2>2, <3>1 DEF Queued
      <4>2. ~Taken(p)
        BY <1>3, <2>1, <3>1 DEF Taken
      <4>3. p = q => Queued(p)
        BY <2>2, <3>1 DEF Queued
      <4>4. Taken(p)' <=> p = q
        BY <1>3, <2>3, <2>4, <3>1 DEF Taken
      <4>5. QED
        BY <4>1, <4>2, <4>3, <4>4
    <3>2. CASE p.to # g
      BY <1>3, <2>1, <3>2 DEF Queued
    <3>3. QED
      BY <3>1, <3>2
  <2>5. QED
    BY <1>4, <2>1, <2>4
<1>6. CASE OutReduce(g)
  <2> DEFINE q == outHand[g]
  <2>1. /\ memusage' = memusage - q.len /\ outHand'[g] = NoPacket /\ queue' = queue
        /\ q \in Packets
    BY <1>0, <1>6 DEF OutReduce, ThreadTypes, tableVars
  <2>2. q.to = g
    BY <2>1, PacketIsOther DEF PlacesInv, LinesInv
  <2>3. Taken(q) /\ ~Queued(q) /\ ~InHands(q)
    <3>1. OncePlaced(q) /\ Taken(q)
      BY <2>1, <2>2 DEF PlacesInv, PacketInv, Taken
    <3>2. QED
      BY <3>1 DEF OncePlaced
  <2>4. q.len \in Nat
    BY <2>1, AnyPacket
  <2>5. ASSUME NEW p \in Packets
        PROVE  Charged(p)' <=> Charged(p) /\ p # q
    <3>1. Queued(p)' <=> Queued(p)
      BY <2>1 DEF Queued
    <3>2. Taken(p)' <=> Taken(p) /\ p # q
      <4>1. CASE p.to = g
        BY <1>3, <2>1, <4>1 DEF Taken
      <4>2. CASE p.to # g
        BY <1>3, <2>2, <4>2
      <4>3. QED
        BY <4>1, <4>2
    <3>3. CASE p = q
      BY <1>3, <2>3, <3>1, <3>2, <3>3 DEF Charged
    <3>4. CASE p # q
      BY <1>3, <3>1, <3>2, <3>4 DEF Charged
    <3>5. QED
      BY <3>3, <3>4
  <2>6. Charged(q)
    BY <2>3 DEF Charged
  <2> HIDE DEF q
  <2>7. IsFiniteSet(Held') /\ Cardinality(Held') = Cardinality(Held) - q.len
    BY <1>0, <2>1, <2>5, <2>6, HeldFewer
  <2>8. memusage' >= Cardinality(Held') /\ (Clean => memusage' = Cardinality(Held'))
    BY <1>0, <2>1, <2>4, <2>7 DEF MemoryInv
  <2>9. QED
    BY <1>2, <2>7, <2>8 DEF MemoryInv
<1>7. CASE OutRaises(g)
  <2>1. /\ memusage' = memusage /\ outHand'[g] = NoPacket /\ queue' = queue
        /\ outThread'[g] = "raised"
    BY <1>0, <1>7 DEF OutRaises, ThreadTypes, tableVars, memVars
  <2>2. ~Clean'
    BY <2>1 DEF Clean
  <2>3. ASSUME NEW p \in Packets
        PROVE  Charged(p)' => Charged(p)
    <3>1. Queued(p)' <=> Queued(p)
      BY <2>1 DEF Queued
    <3>2. Taken(p)' => Taken(p)
      BY <1>3, <2>1 DEF Taken
    <3>3. QED
      BY <1>3, <3>1, <3>2 DEF Charged
  <2>4. IsFiniteSet(Held') /\ Cardinality(Held') <= Cardinality(Held)
    BY <1>0, <2>3, HeldLess
  <2>5. Cardinality(Held') \in Nat
    BY <2>4, FS_CardinalityType
  <2>6. memusage' >= Cardinality(Held')
    BY <1>0, <2>1, <2>4, <2>5 DEF MemoryInv
  <2>7. QED
    BY <2>2, <2>4, <2>6 DEF MemoryInv
<1>8. CASE OutRegister(g) \/ OutWrite(g) \/ OutBye(g)
  <2>1. memusage' = memusage /\ queue' = queue /\ outHand' = outHand
    BY <1>8 DEF OutRegister, Register, OutWrite, OutBye, tableVars, memVars
  <2>2. QED
    BY <1>4, <2>1 DEF Queued, Taken
<1>9. CASE OutLeave(g)
  <2>1. /\ Unregister(g[1]) /\ StateOf(<<g, "out">>) = "leave"
        /\ outThread[g] = "leave" /\ outThread'[g] = "ended"
    BY <1>0, <1>9 DEF OutLeave, StateOf, ThreadTypes
  <2>2. MovesTo(<<g, "out">>, "ended")
    BY <1>0, <1>1, <1>9, OutMovesTo DEF OutLeave
  <2>3. /\ \A h \in Gateways : outThread'[h] = "ended" => outThread[h] \in {"leave", "ended"}
        /\ \A h \in Gateways : outThread'[h] # "raised" => outThread[h] # "raised"
    BY <1>1, <2>1 DEF Still
  <2>4. UNCHANGED <<inHand, outHand, memusage, gateway, dead>>
    BY <1>1, <1>9 DEF OutLeave, memVars
  <2>5. \A h \in Gateways : inThread'[h] = "read" <=> inThread[h] = "read"
    BY <1>1
  <2>6. QED
    BY <2>1, <2>2, <2>3, <2>4, <2>5, LeavesMemory
<1>10. QED
  BY <1>5, <1>6, <1>7, <1>8, <1>9 DEF OutStep

-----------------------------------------------------------------------------
(* All that is for a gateway                                               *)

WholeOf(a) == {p \in PacketsOf(a) : ~IsCut(p)}
WholeTo(g) == {p \in Packets : p.to = g /\ ~IsCut(p)}

\* A gateway writes finitely many packets ...
LEMMA WholeFinite ==
  ASSUME NEW a \in Gateways
  PROVE  IsFiniteSet(WholeOf(a))
<1> DEFINE whole(n) == [kind |-> "packet", from |-> a, n |-> n, to |-> Traffic[a][n].to,
                        size |-> Traffic[a][n].size, len |-> Traffic[a][n].size]
           f == [n \in 1 .. Len(Traffic[a]) |-> whole(n)]
<1>1. Len(Traffic[a]) \in Nat
  BY TrafficCounted
<1>2. \A n \in 1 .. Len(Traffic[a]) : whole(n) \in WholeOf(a)
  <2> SUFFICES ASSUME NEW n \in 1 .. Len(Traffic[a])
               PROVE  whole(n) \in WholeOf(a)
    OBVIOUS
  <2>1. whole(n) \in PacketsOf(a)
    BY PacketOfTraffic
  <2>2. whole(n).len = whole(n).size
    OBVIOUS
  <2>3. whole(n).size \in Nat
    BY <2>1, OwnPackets, AnyPacket
  <2> HIDE DEF whole
  <2>4. QED
    BY <2>1, <2>2, <2>3 DEF WholeOf, IsCut
<1>3. ASSUME NEW p \in WholeOf(a)
      PROVE  \E n \in 1 .. Len(Traffic[a]) : whole(n) = p
  <2>1. PICK n \in DOMAIN Traffic[a] : \E l \in 0 .. Traffic[a][n].size :
          p = [kind |-> "packet", from |-> a, n |-> n, to |-> Traffic[a][n].to,
               size |-> Traffic[a][n].size, len |-> l]
    BY DEF WholeOf, PacketsOf
  <2>2. p.n = n /\ p.size = Traffic[a][n].size
    BY <2>1
  <2>3. n \in 1 .. Len(Traffic[a])
    BY <2>2, PacketOrigin DEF WholeOf
  <2>4. p.len = p.size
    <3>1. p.size \in 1 .. MaxSize /\ p.len \in 0 .. p.size /\ ~(p.len < p.size) /\ MaxSize \in Nat
      BY PacketFacts, ProxyAssumption DEF WholeOf, IsCut
    <3>2. QED
      BY <3>1
  <2>5. whole(n) = p
    BY <2>1, <2>2, <2>4
  <2>6. QED
    BY <2>3, <2>5
<1> HIDE DEF whole
<1>4. f \in Surjection(1 .. Len(Traffic[a]), WholeOf(a))
  BY <1>2, <1>3 DEF Surjection
<1>5. IsFiniteSet(1 .. Len(Traffic[a]))
  BY <1>1, FS_Interval
<1>6. QED
  BY <1>4, <1>5, FS_Surjection

\* ... and so do all of them together.
LEMMA WholeToFinite ==
  ASSUME NEW g \in Gateways
  PROVE  IsFiniteSet(WholeTo(g)) /\ Expected[g] = Cardinality(WholeTo(g)) /\ Expected[g] \in Nat
<1> DEFINE A == {WholeOf(a) : a \in Gateways}
           f == [a \in Gateways |-> WholeOf(a)]
<1>1. f \in Surjection(Gateways, A)
  BY DEF Surjection
<1>2. IsFiniteSet(A)
  BY <1>1, FiniteGateways, FS_Surjection
<1>3. IsFiniteSet(UNION A)
  <2>1. \A W \in A : IsFiniteSet(W)
    BY WholeFinite
  <2>2. QED
    BY <1>2, <2>1, FS_UNION
<1>4. WholeTo(g) \subseteq UNION A
  BY PacketRoute DEF WholeTo, WholeOf
<1>5. IsFiniteSet(WholeTo(g))
  BY <1>3, <1>4, FS_Subset
<1>6. Expected[g] = Cardinality(WholeTo(g))
  BY DEF Expected, WholeTo
<1>7. QED
  BY <1>5, <1>6, FS_CardinalityType

\* When all that is for a gateway has arrived, nothing more comes.
LEMMA NothingMoreComes ==
  ASSUME AllTypes, PlacesInv, NEW g \in Gateways, Sound(g), Len(got[g]) = Expected[g],
         NEW q \in Packets, OnLine(q), q.to = g
  PROVE  FALSE
<1> DEFINE n == Len(got[g])
           f == [k \in 1 .. n + 1 |-> IF k = n + 1 THEN q ELSE got[g][k]]
<1>1. got[g] \in Seq(Packets) /\ n \in Nat /\ NoRepeat(got[g]) /\ AllFor(got[g], g)
  BY Sequences, LenProperties DEF PlacesInv, LinesInv
<1>2. \A k \in 1 .. n : got[g][k] \in Packets /\ IsPacket(got[g][k]) /\ got[g][k].to = g
  BY <1>1, ElementOfSeq, PacketIsOther DEF AllFor
<1>3. \A k \in 1 .. n : got[g][k] \in WholeTo(g)
  <2> SUFFICES ASSUME NEW k \in 1 .. n
               PROVE  got[g][k] \in WholeTo(g)
    OBVIOUS
  <2>1. PICK p : p = got[g][k]
    OBVIOUS
  <2>2. p \in Packets /\ p.to = g /\ Received(p)
    BY <1>2, <2>1 DEF Received, Holds
  <2>3. ~IsCut(p)
    BY <2>2, SoundIsWhole DEF Somewhere
  <2>4. QED
    BY <2>1, <2>2, <2>3 DEF WholeTo
<1>4. q \in WholeTo(g)
  BY SoundIsWhole DEF Somewhere, WholeTo
<1>5. \A k \in 1 .. n : got[g][k] # q
  <2>1. ~Received(q)
    BY DEF PlacesInv, PacketInv, OncePlaced
  <2>2. QED
    BY <2>1 DEF Received, Holds
<1>6. f \in [1 .. n + 1 -> WholeTo(g)]
  BY <1>1, <1>3, <1>4
<1>7. ASSUME NEW k \in 1 .. n + 1, NEW l \in 1 .. n + 1, f[k] = f[l]
      PROVE  k = l
  <2>1. CASE k \in 1 .. n /\ l \in 1 .. n
    <3>1. k # n + 1 /\ l # n + 1
      BY <1>1, <2>1
    <3>2. got[g][k] = got[g][l]
      BY <1>7, <3>1
    <3>3. QED
      BY <1>1, <1>2, <2>1, <3>2 DEF NoRepeat
  <2>2. CASE k = n + 1 /\ l \in 1 .. n
    <3>1. l # n + 1
      BY <1>1, <2>2
    <3>2. QED
      BY <1>5, <1>7, <2>2, <3>1
  <2>3. CASE k \in 1 .. n /\ l = n + 1
    <3>1. k # n + 1
      BY <1>1, <2>3
    <3>2. QED
      BY <1>5, <1>7, <2>3, <3>1
  <2>4. k \in 1 .. n \/ k = n + 1
    BY <1>1
  <2>5. l \in 1 .. n \/ l = n + 1
    BY <1>1
  <2>6. QED
    BY <2>1, <2>2, <2>3, <2>4, <2>5
<1>8. f \in Injection(1 .. n + 1, WholeTo(g))
  <2> HIDE DEF f
  <2>1. QED
    BY <1>6, <1>7 DEF Injection, IsInjective
<1>9. IsFiniteSet(WholeTo(g)) /\ Expected[g] = Cardinality(WholeTo(g))
  BY WholeToFinite
<1>10. Cardinality(1 .. n + 1) <= Cardinality(WholeTo(g))
  BY <1>8, <1>9, FS_Injection
<1>11. Cardinality(1 .. n + 1) = n + 1
  BY <1>1, FS_Interval
<1>12. QED
  BY <1>1, <1>9, <1>10, <1>11

-----------------------------------------------------------------------------
(* The invariants of the specification                                     *)

JobInv == AllTypes /\ CookieInv /\ PlacesInv /\ EndInv /\ ByeInv /\ LineEnds /\ MemoryInv

\* All of this holds at first.
LEMMA JobInvInit == Init => JobInv
<1> SUFFICES ASSUME Init
             PROVE  JobInv
  OBVIOUS
<1>1. AllTypes
  <2>1. Inv
    BY InvInit
  <2>2. GatewayTypes
    <3>1. \A S : <<>> \in Seq(S)
      OBVIOUS
    <3>2. QED
      BY <3>1 DEF Init, GatewayTypes
  <2>3. ThreadTypes
    BY DEF Init, ThreadTypes, ThreadStates
  <2>4. TableTypes
    BY DEF Init, TableTypes
  <2>5. QED
    BY <2>1, <2>2, <2>3, <2>4 DEF AllTypes
<1>2. CookieInv
  <2> SUFFICES ASSUME NEW j \in Jobs
               PROVE  ~Started(j)
    BY DEF Init, CookieInv
  <2>1. \A t \in ThreadsOf(j) : t[1] \in Gateways
    BY ThreadsOfJob
  <2>2. QED
    BY <2>1 DEF Init, Started, StateOf
<1>3. ASSUME NEW p \in Packets
      PROVE  ~Somewhere(p)
  <2>1. p.from \in Gateways /\ p.to \in Gateways /\ p # NoPacket
    BY PacketRoute, PacketIsOther
  <2>2. QED
    BY <2>1, NothingHeld
       DEF Init, Somewhere, OnWire, InHands, Queued, Taken, OnLine, Received
<1>4. PlacesInv
  <2>1. PacketInv
    BY <1>3 DEF PacketInv, OncePlaced, Somewhere
  <2>2. LinesInv
    BY EmptyApart DEF Init, LinesInv
  <2>3. QED
    BY <2>1, <2>2 DEF PlacesInv
<1>5. EndInv
  BY NothingHeld DEF Init, EndInv, WireEnds, Closed
<1>6. ByeInv
  <2> SUFFICES ASSUME NEW g \in Gateways
               PROVE  ByesOf(g)
    BY DEF ByeInv
  <2>1. queue[g] = <<>> /\ byes[g] = 0 /\ outThread[g] = "hello"
    BY DEF Init
  <2>2. HeardOf(g) = {}
    BY DEF Init, HeardOf, Told, Peers
  <2>3. Byes(<<>>, 1) = 0 /\ Cardinality({}) = 0
    BY FS_EmptySet DEF Byes
  <2>4. Len(queue[g]) + 1 = 1
    BY <2>1
  <2>5. QED
    BY <2>1, <2>2, <2>3, <2>4, NothingHeld DEF ByesOf
<1>7. LineEnds
  BY NothingHeld DEF Init, LineEnds, LineOf
<1>8. MemoryInv
  <2>1. Held = {}
    BY <1>3 DEF Held, Charged, Somewhere
  <2>2. QED
    BY <2>1, FS_EmptySet DEF Init, MemoryInv
<1>9. QED
  BY <1>1, <1>2, <1>4, <1>5, <1>6, <1>7, <1>8 DEF JobInv

\* Every step keeps it.
LEMMA JobInvNext == JobInv /\ [Next]_vars => JobInv'
<1> SUFFICES ASSUME JobInv, [Next]_vars
             PROVE  JobInv'
  OBVIOUS
<1>0. AllTypes /\ CookieInv /\ PlacesInv /\ EndInv /\ ByeInv /\ LineEnds /\ MemoryInv
  BY DEF JobInv
<1>1. Inv'
  BY <1>0, InvNext DEF AllTypes
<1>2. ASSUME NEW g \in Gateways, GatewayStep(g) \/ Crash(g)
      PROVE  JobInv'
  <2>1. AllTypes'
    BY <1>0, <1>1, <1>2, GatewayTypesKept DEF AllTypes
  <2>2. CookieInv' /\ PlacesInv' /\ EndInv'
    BY <1>0, <1>2, GatewayCookie, GatewayFlows, GatewayEnds
  <2>3. ByeInv' /\ LineEnds' /\ MemoryInv'
    BY <1>0, <1>2, GatewayByes, GatewayLines, GatewayMemory
  <2>4. QED
    BY <2>1, <2>2, <2>3 DEF JobInv
<1>3. ASSUME NEW g \in Gateways, InStep(g)
      PROVE  JobInv'
  <2>1. AllTypes'
    BY <1>0, <1>1, <1>3, InTypesKept DEF AllTypes
  <2>2. CookieInv' /\ PlacesInv' /\ EndInv'
    BY <1>0, <1>3, InCookie, InFlows, InEnds
  <2>3. ByeInv' /\ LineEnds' /\ MemoryInv'
    BY <1>0, <1>3, InByes, InLines, InMemory
  <2>4. QED
    BY <2>1, <2>2, <2>3 DEF JobInv
<1>4. ASSUME NEW g \in Gateways, OutStep(g)
      PROVE  JobInv'
  <2>1. AllTypes'
    BY <1>0, <1>1, <1>4, OutTypesKept DEF AllTypes
  <2>2. CookieInv' /\ PlacesInv' /\ EndInv'
    BY <1>0, <1>4, OutCookie, OutFlows, OutEnds
  <2>3. ByeInv' /\ MemoryInv'
    BY <1>0, <1>4, OutByes, OutMemory
  <2>4. LineEnds'
    BY <1>0, <1>4, <2>3, OutLines
  <2>5. QED
    BY <2>1, <2>2, <2>3, <2>4 DEF JobInv
<1>5. CASE UNCHANGED vars
  <2> USE <1>5 DEF vars, gwVars, wires, inVars, outVars, tableVars, memVars
  <2>1. AllTypes'
    BY <1>0, <1>1 DEF AllTypes, GatewayTypes, ThreadTypes, TableTypes
  <2>2. CookieInv'
    BY <1>0, CookieUntouched
  <2>3. Broken' = Broken /\ Expected' = Expected
    BY DEF Broken, Expected
  <2>4. \A p \in Packets : (OncePlaced(p)' <=> OncePlaced(p)) /\ (Somewhere(p)' <=> Somewhere(p))
                           /\ (Written(p)' <=> Written(p)) /\ (Charged(p)' <=> Charged(p))
    BY <2>3 DEF OncePlaced, Somewhere, OnWire, InHands, Queued, Taken, OnLine, Received, Written,
                Charged, IsCut
  <2>5. PlacesInv'
    BY <1>0, <2>4 DEF PlacesInv, PacketInv, LinesInv
  <2>6. EndInv'
    BY <1>0, <2>3 DEF EndInv, WireEnds
  <2>7. ByeInv'
    <3>1. \A g \in Gateways : HeardOf(g)' = HeardOf(g) /\ (Sound(g)' => Sound(g))
      BY <2>3 DEF HeardOf, Told, Sound
    <3>2. QED
      BY <1>0, <3>1, ByesStill DEF ByeInv
  <2>8. LineEnds'
    BY <1>0, <2>3 DEF LineEnds, LineOf, Sound
  <2>9. MemoryInv'
    <3>1. Held' = Held
      BY <2>4, HeldSame
    <3>2. QED
      BY <1>0, <2>3, <3>1 DEF MemoryInv, Clean
  <2>10. QED
    BY <2>1, <2>2, <2>5, <2>6, <2>7, <2>8, <2>9 DEF JobInv
<1>6. MayCrash \subseteq Gateways
  BY ProxyAssumption
<1>7. QED
  BY <1>2, <1>3, <1>4, <1>5, <1>6 DEF Next

\* cookie_outqueue has the queues of a cookie as long as a thread of its job may
\* look them up, and no longer: the count that the last user brings to zero is
\* the number of threads that have not ended.
THEOREM CookieOutlives == Spec => []CookieOutlivesUsers
<1>1. JobInv => CookieOutlivesUsers
  <2> SUFFICES ASSUME JobInv, NEW j \in Jobs
               PROVE  LET Threads(states) == \E g \in Gateways :
                            g[1] = j /\ (inThread[g] \in states \/ outThread[g] \in states)
                      IN  /\ Threads(ThreadStates \ {"hello", "ended", "raised"}) => j \in known
                          /\ ~Threads(ThreadStates \ {"ended"}) => j \notin known
    BY DEF CookieOutlivesUsers
  <2> DEFINE Threads(states) == \E g \in Gateways :
               g[1] = j /\ (inThread[g] \in states \/ outThread[g] \in states)
  <2>0. ThreadTypes /\ (j \in known <=> Started(j) /\ EndedOf(j) # ThreadsOf(j))
    BY DEF JobInv, AllTypes, CookieInv
  <2>1. ASSUME NEW g \in Gateways, g[1] = j, NEW d \in {"in", "out"},
               StateOf(<<g, d>>) \notin {"hello", "ended"}
        PROVE  j \in known
    <3>1. <<g, d>> \in ThreadsOf(j)
      BY <2>1, ThreadFacts
    <3>2. QED
      BY <2>0, <2>1, <3>1 DEF Started, EndedOf
  <2>2. Threads(ThreadStates \ {"hello", "ended", "raised"}) => j \in known
    <3> SUFFICES ASSUME NEW g \in Gateways, g[1] = j,
                        \/ inThread[g] \in ThreadStates \ {"hello", "ended", "raised"}
                        \/ outThread[g] \in ThreadStates \ {"hello", "ended", "raised"}
                 PROVE  j \in known
      OBVIOUS
    <3>1. StateOf(<<g, "in">>) = inThread[g] /\ StateOf(<<g, "out">>) = outThread[g]
      BY DEF StateOf
    <3>2. QED
      BY <2>1, <3>1
  <2>3. ~Threads(ThreadStates \ {"ended"}) => j \notin known
    <3> SUFFICES ASSUME ~Threads(ThreadStates \ {"ended"})
                 PROVE  EndedOf(j) = ThreadsOf(j)
      BY <2>0
    <3> SUFFICES ASSUME NEW t \in ThreadsOf(j)
                 PROVE  StateOf(t) = "ended"
      BY DEF EndedOf
    <3>1. t[1] \in Gateways /\ t[1][1] = j /\ t[2] \in {"in", "out"}
      BY ThreadsOfJob
    <3>2. inThread[t[1]] \in ThreadStates /\ outThread[t[1]] \in ThreadStates
      BY <2>0, <3>1 DEF ThreadTypes
    <3>3. inThread[t[1]] = "ended" /\ outThread[t[1]] = "ended"
      BY <3>1, <3>2
    <3>4. QED
      BY <3>1, <3>3 DEF StateOf
  <2>4. QED
    BY <2>2, <2>3
<1>2. QED
  BY <1>1, JobInvInit, JobInvNext, PTL DEF Spec

\* memusage never becomes negative (the assertion in the out-thread), and what
\* the packets of all jobs were charged is given back when every thread has
\* ended: it is never less than the bytes the proxy holds, and that much as long
\* as no gateway has broken off and no thread has failed.
THEOREM ChargesGivenBack == Spec => []ChargesAreGivenBack
<1>1. JobInv => ChargesAreGivenBack
  <2> SUFFICES ASSUME JobInv
               PROVE  ChargesAreGivenBack
    OBVIOUS
  <2>0. AllTypes /\ CookieInv /\ PlacesInv /\ EndInv /\ ByeInv /\ MemoryInv /\ Inv
        /\ GatewayTypes /\ ThreadTypes /\ TableTypes /\ Types
    BY DEF JobInv, AllTypes, Inv
  <2>1. TypeOK
    <3>1. users \in [Jobs -> Nat]
      BY <2>0 DEF CookieInv
    <3>2. /\ \A g \in Gateways : toProxy[g] \in Seq(PacketsOf(g) \cup {Bye, Eof, Reset})
          /\ queue \in [Gateways -> Seq(Packets \cup {Bye, None})]
          /\ sent \in [Gateways -> Nat] /\ memusage \in Int /\ promised \in Int
      BY <2>0 DEF Types, WireTypes, FromGateway, QueueTypes, SentTypes
    <3>3. QED
      BY <2>0, <3>1, <3>2 DEF TypeOK, GatewayTypes, ThreadTypes, TableTypes
  <2>2. memusage >= 0
    <3>1. Cardinality(Held) \in Nat /\ memusage >= Cardinality(Held) /\ memusage \in Int
      BY <2>0, FS_CardinalityType DEF MemoryInv, Types
    <3>2. QED
      BY <3>1
  <2>3. ASSUME \A g \in Gateways : inThread[g] = "ended" /\ outThread[g] = "ended"
        PROVE  memusage = 0
    <3>1. Clean
      <4>1. \A g \in Gateways : g \notin Broken
        BY <2>0, <2>3 DEF EndInv, WireEnds, Broken
      <4>2. Broken = {}
        BY <2>0, <4>1 DEF Broken, GatewayTypes
      <4>3. QED
        BY <2>3, <4>2 DEF Clean
    <3>2. \A g \in Gateways : queue[g] = <<>>
      <4> SUFFICES ASSUME NEW g \in Gateways
                   PROVE  queue[g] = <<>>
        OBVIOUS
      <4>1. ByesOf(g)
        BY <2>0, <3>1, CleanIsSound DEF ByeInv
      <4>2. byes[g] = NumClusters - 1
        BY <2>3, <4>1 DEF ByesOf
      <4>3. QED
        BY <2>0, <4>1, <4>2, AllHeard
    <3>3. ASSUME NEW p \in Packets
          PROVE  ~Charged(p)
      <4>1. p.from \in Gateways /\ p.to \in Gateways /\ p # NoPacket
        BY PacketRoute, PacketIsOther
      <4>2. inHand[p.from] = NoPacket /\ outHand[p.to] = NoPacket
        BY <2>0, <2>3, <4>1 DEF ThreadTypes
      <4>3. QED
        BY <3>2, <4>1, <4>2, NothingHeld DEF Charged, Queued, InHands, Taken
    <3>4. Held = {}
      BY <3>3 DEF Held
    <3>5. QED
      BY <2>0, <3>1, <3>4, FS_EmptySet DEF MemoryInv
  <2>4. QED
    BY <2>1, <2>2, <2>3 DEF ChargesAreGivenBack
<1>2. QED
  BY <1>1, JobInvInit, JobInvNext, PTL DEF Spec

\* The assertion of dcmpiruntime_common_cleanup: the next line that a gateway
\* finds after its main loop is "bye", unless a peer has died.  A packet would be
\* one more than there are for it, and the end of the connection is behind "bye".
THEOREM CleanupFindsBye == Spec => []CleanupReadsBye
<1>1. JobInv => CleanupReadsBye
  <2> SUFFICES ASSUME JobInv, NEW g \in Gateways, gateway[g] = "joined", ~byeRead[g],
                      toGateway[g] # <<>>, \A h \in Peers(g) : h \notin dead
               PROVE  Head(toGateway[g]) = Bye
    BY DEF CleanupReadsBye
  <2>0. AllTypes /\ PlacesInv /\ WireEnds(g) /\ LineOf(g)
    BY DEF JobInv, EndInv, LineEnds
  <2>1. Sound(g)
    BY DEF Sound, Broken
  <2>2. g \notin dead /\ Len(got[g]) = Expected[g]
    BY <2>0 DEF WireEnds
  <2> DEFINE q == Head(toGateway[g])
  <2>3. q \in Lines /\ Holds(toGateway[g], q) /\ (IsPacket(q) => q.to = g)
    BY <2>0, Sequences, Taking DEF PlacesInv, LinesInv
  <2>4. q \notin Packets
    <3> SUFFICES ASSUME q \in Packets
                 PROVE  FALSE
      OBVIOUS
    <3>1. q.to = g /\ OnLine(q)
      BY <2>3, PacketIsOther DEF OnLine
    <3> HIDE DEF q
    <3>2. QED
      BY <2>0, <2>1, <2>2, <3>1, NothingMoreComes
  <2>5. q # Eof
    <3> SUFFICES ASSUME q = Eof
                 PROVE  FALSE
      OBVIOUS
    <3>1. outThread[g] = "ended"
      BY <2>0, <2>3 DEF LineOf
    <3>2. Holds(toGateway[g], Bye)
      BY <2>0, <2>1, <2>2, <3>1 DEF LineOf
    <3>3. PICK k \in 1 .. Len(toGateway[g]) : toGateway[g][k] = Bye
      BY <3>2 DEF Holds
    <3>4. /\ toGateway[g] \in Seq(Lines) /\ Len(toGateway[g]) \in Nat
          /\ toGateway[g][1] = Eof
      BY <2>0, Sequences, LenProperties, HeadTailProperties
    <3>5. 1 \in 1 .. Len(toGateway[g])
      BY <3>3, <3>4
    <3>6. 1 = Len(toGateway[g])
      BY <2>0, <3>4, <3>5 DEF LineOf
    <3>7. k = 1
      BY <3>3, <3>6
    <3>8. QED
      BY <3>3, <3>4, <3>7, OthersAreOther
  <2>6. QED
    BY <2>3, <2>4, <2>5 DEF Lines
<1>2. QED
  BY <1>1, JobInvInit, JobInvNext, PTL DEF Spec

=============================================================================

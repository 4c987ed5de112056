-------------------------- MODULE MemUsage_proofs --------------------------
(***************************************************************************)
(* Proofs about a memory budget, for any threads, sizes and threshold.     *)
(***************************************************************************)
EXTENDS MemUsage, FiniteSetTheorems, FunctionTheorems, TLAPS

\* Sizes are natural numbers.
LEMMA SizesAreNat == \A b \in Sizes : b \in Nat
<1> SUFFICES ASSUME NEW t \in Threads, NEW b \in SizesOf[t] PROVE b \in Nat
  BY DEF Sizes
<1>1. SizesOf[t] \in SUBSET Nat
  BY MemAssumption
<1>2. QED
  BY <1>1

\* So is the argument of every call.
LEMMA BytesAreNat ==
  ASSUME TypeOK, NEW t \in Threads PROVE bytes[t] \in Nat
<1>1. bytes[t] \in Sizes \cup {0}
  BY DEF TypeOK
<1>2. QED
  BY <1>1, SizesAreNat

\* At the start every variable has its type.
LEMMA InitTypes == Init => TypeOK
<1> SUFFICES ASSUME Init PROVE TypeOK
  OBVIOUS
<1>1. usage \in Int
  BY DEF Init
<1>6. aborted \in BOOLEAN
  BY Zenon DEF Init
<1>2. charged \in [Sizes -> Nat] /\ charges \in [Threads -> Nat]
  BY DEF Init
<1>3. pc \in [Threads -> {"idle", "test", "wait", "deferred"}]
  BY DEF Init
<1>4. bytes \in [Threads -> Sizes \cup {0}]
  BY DEF Init
<1>5. QED
  BY <1>1, <1>2, <1>3, <1>4, <1>6 DEF TypeOK

\* Every step keeps the types: what is charged is a size, and is counted.
LEMMA StepTypes ==
  ASSUME TypeOK, [Next]_vars PROVE TypeOK'
<1> USE SizesAreNat, MemAssumption DEF TypeOK
<1>1. ASSUME NEW t \in Threads, NEW b \in SizesOf[t], Accumulate(t, b) PROVE TypeOK'
  <2>1. b \in Sizes
    BY DEF Sizes
  <2>2. QED
    BY <1>1, <2>1 DEF Accumulate
<1>2. ASSUME NEW t \in Threads, NEW b \in SizesOf[t], AccumulateIf(t, b) PROVE TypeOK'
  <2>1. b \in Sizes
    BY DEF Sizes
  <2>2. CASE usage + b > Threshold
    BY <1>2, <2>1, <2>2 DEF AccumulateIf, Charge
  <2>3. CASE usage + b <= Threshold
    BY <1>2, <2>1, <2>3 DEF AccumulateIf, Charge
  <2>4. QED
    BY <2>1, <2>2, <2>3
<1>3. ASSUME NEW t \in Threads, Test(t) PROVE TypeOK'
  <2>4. bytes[t] \in Nat
    BY BytesAreNat
  <2>1. CASE usage + bytes[t] > Threshold
    BY <1>3, <2>1, <2>4 DEF Test, Charge
  <2>2. CASE usage + bytes[t] <= Threshold
    <3>1. charged' = [charged EXCEPT ![bytes[t]] = @ + 1]
      BY <1>3, <2>2, <2>4 DEF Test, Charge
    <3>2. charged' \in [Sizes -> Nat]
      <4>1. CASE bytes[t] \in Sizes
        <5>1. charged[bytes[t]] + 1 \in Nat
          BY <4>1
        <5>2. QED
          BY <3>1, <4>1, <5>1
      <4>2. CASE bytes[t] \notin Sizes
        BY <3>1, <4>2
      <4>3. QED
        BY <4>1, <4>2
    <3>3. QED
      BY <1>3, <2>2, <2>4, <3>2 DEF Test, Charge
  <2>3. QED
    BY <2>1, <2>2, <2>4
<1>4. ASSUME NEW b \in Sizes, Reduce(b) PROVE TypeOK'
  BY <1>4 DEF Reduce
<1>5. CASE Stop \/ UNCHANGED vars
  BY <1>5 DEF Stop, vars
<1>6. QED
  BY <1>1, <1>2, <1>3, <1>4, <1>5 DEF Next

\* TypeOK is inductive by itself.
THEOREM TypeCorrect == Spec => []TypeOK
<1>1. Init => TypeOK
  BY InitTypes
<1>2. TypeOK /\ [Next]_vars => TypeOK'
  BY StepTypes
<1>3. QED
  BY <1>1, <1>2, PTL DEF Spec

\* A thread in accumulate asks for no more than can be had, and waits only for
\* what cannot be had now.
Fits(w) ==
  /\ pc[w] = "wait" => usage + bytes[w] > Threshold
  /\ pc[w] \in {"test", "wait"} => bytes[w] <= Threshold

\* Only reduce makes room, and it wakes up everybody.
LEMMA StepFits ==
  ASSUME TypeOK, WaitsForRoomOnly, [Next]_vars, NEW w \in Waiters
  PROVE  Fits(w)'
<1> USE SizesAreNat, MemAssumption DEF TypeOK, WaitsForRoomOnly, Threads, Fits
<1>1. ASSUME NEW t \in Threads, NEW b \in SizesOf[t], Accumulate(t, b)
      PROVE  Fits(w)'
  BY <1>1 DEF Accumulate
<1>2. ASSUME NEW t \in Threads, NEW b \in SizesOf[t], AccumulateIf(t, b)
      PROVE  Fits(w)'
  <2>1. w # t /\ b \in Nat /\ bytes'[w] = bytes[w] /\ pc'[w] = pc[w]
    BY <1>2 DEF AccumulateIf, Charge
  <2>4. bytes[w] \in Nat
    BY BytesAreNat DEF Threads
  <2>2. usage' >= usage /\ usage' \in Int
    BY <1>2, <2>1 DEF AccumulateIf, Charge
  <2>3. QED
    BY <2>1, <2>2, <2>4
<1>3. ASSUME NEW t \in Threads, Test(t)
      PROVE  Fits(w)'
  <2>5. bytes[w] \in Nat /\ bytes[t] \in Nat
    BY BytesAreNat DEF Threads
  <2>1. bytes' = bytes /\ usage' >= usage /\ usage' \in Int
    BY <1>3, <2>5 DEF Test, Charge
  <2>2. CASE w # t
    <3>1. pc'[w] = pc[w]
      BY <1>3, <2>2 DEF Test, Charge
    <3>2. QED
      BY <2>1, <2>5, <3>1
  <2>3. CASE w = t
    BY <1>3, <2>1, <2>3, <2>5 DEF Test, Charge
  <2>4. QED
    BY <2>2, <2>3
<1>4. ASSUME NEW b \in Sizes, Reduce(b)
      PROVE  Fits(w)'
  BY <1>4 DEF Reduce
<1>5. CASE Stop \/ UNCHANGED vars
  BY <1>5 DEF Stop, vars
<1>6. QED
  BY <1>1, <1>2, <1>3, <1>4, <1>5 DEF Next

\* A thread waits only while there is no room for its buffer, and never for
\* more than the threshold: with the broadcast in reduce no wake-up is lost,
\* for any number of threads and any sizes.
THEOREM WaitsForRoom == Spec => []WaitsForRoomOnly
<1>1. Init => WaitsForRoomOnly
  BY DEF Init, WaitsForRoomOnly, Threads
<1>2. TypeOK /\ WaitsForRoomOnly /\ [Next]_vars => WaitsForRoomOnly'
  BY StepFits DEF WaitsForRoomOnly, Fits
<1>3. QED
  BY <1>1, <1>2, TypeCorrect, PTL DEF Spec

-----------------------------------------------------------------------------
(* The counter stays within its bounds.  That it does not become negative  *)
(* needs what it counts: the bytes of the buffers that are charged, of     *)
(* which reduce takes away those of one buffer.                            *)

\* byte k of the n-th buffer of size b
Buffer(b, n) == {<<b, n, k>> : k \in 1 .. b}
Bytes == {u \in Sizes \X Nat \X Nat : u[2] \in 1 .. charged[u[1]] /\ u[3] \in 1 .. u[1]}

Accounts == IsFiniteSet(Bytes) /\ usage = Cardinality(Bytes)
Calls    == \A t \in Threads : pc[t] # "idle" => bytes[t] \in Sizes
BudgetInv == TypeOK /\ Accounts /\ Calls /\ usage <= Threshold

\* A buffer of b bytes has b bytes.
LEMMA BufferSize ==
  ASSUME NEW b \in Nat, NEW n
  PROVE  IsFiniteSet(Buffer(b, n)) /\ Cardinality(Buffer(b, n)) = b
<1> DEFINE f == [k \in 1 .. b |-> <<b, n, k>>]
<1>1. f \in Bijection(1 .. b, Buffer(b, n))
  <2>1. f \in [1 .. b -> Buffer(b, n)]
    BY DEF Buffer
  <2>2. \A k, m \in 1 .. b : f[k] = f[m] => k = m
    OBVIOUS
  <2>3. \A u \in Buffer(b, n) : \E k \in 1 .. b : f[k] = u
    BY DEF Buffer
  <2> HIDE DEF f
  <2>4. QED
    BY <2>1, <2>2, <2>3 DEF Bijection, Injection, Surjection, IsInjective
<1>2. IsFiniteSet(1 .. b) /\ Cardinality(1 .. b) = b
  BY FS_Interval
<1>3. QED
  BY <1>1, <1>2, FS_Bijection DEF ExistsBijection

\* A charge of b bytes adds the bytes of one buffer, and keeps the counter.
LEMMA ChargeCounts ==
  ASSUME TypeOK, Accounts, NEW t, NEW b \in Sizes, Charge(t, b)
  PROVE  Accounts'
<1> DEFINE n == charged[b] + 1
<1>1. b \in Nat /\ n \in Nat
  BY SizesAreNat DEF TypeOK
<1>2. charged' = [charged EXCEPT ![b] = n] /\ usage' = usage + b
  BY DEF Charge
<1>3. \A c \in Sizes : charged[c] \in Nat /\ charged'[c] = IF c = b THEN n ELSE charged[c]
  BY <1>2 DEF TypeOK
<1>4. Bytes' = Bytes \cup Buffer(b, n)
  <2>1. ASSUME NEW u \in Bytes' PROVE u \in Bytes \cup Buffer(b, n)
    <3>1. PICK c \in Sizes, m \in Nat, k \in Nat : u = <<c, m, k>>
      BY DEF Bytes
    <3>2. m \in 1 .. charged'[c] /\ k \in 1 .. c
      BY <2>1, <3>1 DEF Bytes
    <3>3. CASE c = b /\ m = n
      BY <3>1, <3>2, <3>3 DEF Buffer
    <3>4. CASE ~(c = b /\ m = n)
      <4>1. m \in 1 .. charged[c]
        BY <1>1, <1>3, <3>2, <3>4
      <4>2. QED
        BY <3>1, <3>2, <4>1 DEF Bytes
    <3>5. QED
      BY <3>3, <3>4
  <2>2. ASSUME NEW u \in Bytes PROVE u \in Bytes'
    <3>1. PICK c \in Sizes, m \in Nat, k \in Nat : u = <<c, m, k>>
      BY DEF Bytes
    <3>2. m \in 1 .. charged[c] /\ k \in 1 .. c
      BY <2>2, <3>1 DEF Bytes
    <3>3. m \in 1 .. charged'[c]
      BY <1>1, <1>3, <3>2
    <3>4. QED
      BY <3>1, <3>2, <3>3 DEF Bytes
  <2>3. ASSUME NEW u \in Buffer(b, n) PROVE u \in Bytes'
    <3>1. PICK k \in 1 .. b : u = <<b, n, k>>
      BY DEF Buffer
    <3>2. n \in 1 .. charged'[b] /\ k \in Nat
      BY <1>1, <1>3, <3>1 DEF TypeOK
    <3>3. QED
      BY <1>1, <3>1, <3>2 DEF Bytes
  <2>4. QED
    BY <2>1, <2>2, <2>3
<1>5. Bytes \cap Buffer(b, n) = {}
  <2> SUFFICES ASSUME NEW u \in Bytes, u \in Buffer(b, n) PROVE FALSE
    OBVIOUS
  <2>1. u[1] = b /\ u[2] = n
    BY DEF Buffer
  <2>2. u[2] \in 1 .. charged[b]
    BY <2>1 DEF Bytes
  <2>3. QED
    BY <1>1, <1>3, <2>1, <2>2
<1>6. IsFiniteSet(Buffer(b, n)) /\ Cardinality(Buffer(b, n)) = b
  BY <1>1, BufferSize
<1> HIDE DEF n
<1>7. IsFiniteSet(Bytes) /\ Cardinality(Bytes) \in Nat /\ usage = Cardinality(Bytes)
  BY FS_CardinalityType DEF Accounts
<1>8. IsFiniteSet(Bytes') /\ Cardinality(Bytes') = Cardinality(Bytes) + b
  <2>1. Cardinality(Bytes \cap Buffer(b, n)) = 0
    BY <1>5, FS_EmptySet
  <2>2. /\ IsFiniteSet(Bytes \cup Buffer(b, n))
        /\ Cardinality(Bytes \cup Buffer(b, n)) =
              Cardinality(Bytes) + Cardinality(Buffer(b, n)) - Cardinality(Bytes \cap Buffer(b, n))
    BY <1>6, <1>7, FS_Union
  <2>3. QED
    BY <1>1, <1>4, <1>6, <1>7, <2>1, <2>2
<1>9. QED
  BY <1>2, <1>7, <1>8 DEF Accounts

\* reduce takes the bytes of the last buffer of the size.
LEMMA ReduceCounts ==
  ASSUME TypeOK, Accounts, NEW b \in Sizes, Reduce(b)
  PROVE  Accounts' /\ usage' <= usage
<1> DEFINE n == charged[b]
<1>1. b \in Nat /\ n \in Nat /\ n > 0
  BY SizesAreNat DEF TypeOK, Reduce
<1>2. charged' = [charged EXCEPT ![b] = n - 1] /\ usage' = usage - b
  BY DEF Reduce
<1>3. \A c \in Sizes : charged[c] \in Nat /\ charged'[c] = IF c = b THEN n - 1 ELSE charged[c]
  BY <1>2 DEF TypeOK
<1>4. Buffer(b, n) \subseteq Bytes
  <2> SUFFICES ASSUME NEW k \in 1 .. b PROVE <<b, n, k>> \in Bytes
    BY DEF Buffer
  <2>1. n \in 1 .. charged[b] /\ k \in Nat
    BY <1>1
  <2>2. QED
    BY <1>1, <2>1 DEF Bytes
<1>5. Bytes' = Bytes \ Buffer(b, n)
  <2>1. ASSUME NEW u \in Bytes' PROVE u \in Bytes \ Buffer(b, n)
    <3>1. PICK c \in Sizes, m \in Nat, k \in Nat : u = <<c, m, k>>
      BY DEF Bytes
    <3>2. m \in 1 .. charged'[c] /\ k \in 1 .. c
      BY <2>1, <3>1 DEF Bytes
    <3>3. m \in 1 .. charged[c] /\ ~(c = b /\ m = n)
      BY <1>1, <1>3, <3>2
    <3>4. u \in Bytes
      BY <3>1, <3>2, <3>3 DEF Bytes
    <3>5. u \notin Buffer(b, n)
      BY <3>1, <3>3 DEF Buffer
    <3>6. QED
      BY <3>4, <3>5
  <2>2. ASSUME NEW u \in Bytes, u \notin Buffer(b, n) PROVE u \in Bytes'
    <3>1. PICK c \in Sizes, m \in Nat, k \in Nat : u = <<c, m, k>>
      BY DEF Bytes
    <3>2. m \in 1 .. charged[c] /\ k \in 1 .. c
      BY <2>2, <3>1 DEF Bytes
    <3>3. ~(c = b /\ m = n)
      BY <2>2, <3>1, <3>2 DEF Buffer
    <3>4. m \in 1 .. charged'[c]
      BY <1>1, <1>3, <3>2, <3>3
    <3>5. QED
      BY <3>1, <3>2, <3>4 DEF Bytes
  <2>3. QED
    BY <2>1, <2>2
<1> HIDE DEF n
<1>6. Cardinality(Buffer(b, n)) = b
  BY <1>1, BufferSize
<1>7. IsFiniteSet(Bytes) /\ Cardinality(Bytes) \in Nat /\ usage = Cardinality(Bytes)
  BY FS_CardinalityType DEF Accounts
<1>8. IsFiniteSet(Bytes') /\ Cardinality(Bytes') = Cardinality(Bytes) - b
  <2>1. Bytes \cap Buffer(b, n) = Buffer(b, n)
    BY <1>4
  <2>2. /\ IsFiniteSet(Bytes \ Buffer(b, n))
        /\ Cardinality(Bytes \ Buffer(b, n)) = Cardinality(Bytes) - Cardinality(Bytes \cap Buffer(b, n))
    BY <1>7, FS_Difference
  <2>3. QED
    BY <1>1, <1>5, <1>6, <2>1, <2>2
<1>9. QED
  BY <1>1, <1>2, <1>7, <1>8 DEF Accounts

\* A charge follows a test that there is room, a reduce only makes more of it.
LEMMA StepBudget ==
  ASSUME BudgetInv, TypeOK', [Next]_vars PROVE BudgetInv'
<1> USE DEF BudgetInv
<1>u. usage \in Int /\ Threshold \in Nat
  BY MemAssumption DEF TypeOK
<1>0. ASSUME UNCHANGED <<usage, charged>> PROVE Accounts' /\ usage' <= Threshold
  BY <1>0 DEF Accounts, Bytes
<1>1. ASSUME NEW t \in Threads, NEW b \in SizesOf[t], Accumulate(t, b) PROVE BudgetInv'
  <2>1. b \in Sizes
    BY DEF Sizes
  <2>2. Calls'
    BY <1>1, <2>1 DEF Accumulate, Calls, TypeOK
  <2>3. QED
    BY <1>0, <1>1, <2>2 DEF Accumulate
<1>2. ASSUME NEW t \in Threads, NEW b \in SizesOf[t], AccumulateIf(t, b) PROVE BudgetInv'
  <2>1. b \in Sizes /\ b \in Nat
    BY SizesAreNat DEF Sizes
  <2>2. Calls'
    BY <1>2, <2>1 DEF AccumulateIf, Charge, Calls, TypeOK
  <2>3. CASE UNCHANGED <<usage, charged>>
    BY <1>0, <2>2, <2>3
  <2>4. CASE usage + b <= Threshold /\ Charge(t, b)
    <3>1. Accounts'
      BY <2>1, <2>4, ChargeCounts
    <3>2. usage' <= Threshold
      BY <2>4 DEF Charge
    <3>3. QED
      BY <2>2, <3>1, <3>2
  <2>5. QED
    BY <1>2, <2>3, <2>4 DEF AccumulateIf
<1>3. ASSUME NEW t \in Threads, Test(t) PROVE BudgetInv'
  <2>1. bytes[t] \in Sizes
    BY <1>3 DEF Test, Calls
  <2>2. Calls'
    BY <1>3, <2>1 DEF Test, Charge, Calls, TypeOK
  <2>3. CASE UNCHANGED <<usage, charged>>
    BY <1>0, <2>2, <2>3
  <2>4. CASE usage + bytes[t] <= Threshold /\ Charge(t, bytes[t])
    <3>1. Accounts'
      BY <2>1, <2>4, ChargeCounts
    <3>2. usage' <= Threshold
      BY <2>4 DEF Charge
    <3>3. QED
      BY <2>2, <3>1, <3>2
  <2>5. QED
    BY <1>3, <2>3, <2>4 DEF Test
<1>4. ASSUME NEW b \in Sizes, Reduce(b) PROVE BudgetInv'
  <2>1. Accounts' /\ usage' <= usage
    BY <1>4, ReduceCounts
  <2>2. Calls'
    BY <1>4 DEF Reduce, Calls, TypeOK
  <2>3. usage' \in Int
    BY DEF TypeOK
  <2>4. QED
    BY <1>u, <2>1, <2>2, <2>3
<1>5. CASE Stop \/ UNCHANGED vars
  BY <1>0, <1>5 DEF Stop, vars, Calls
<1>6. QED
  BY <1>1, <1>2, <1>3, <1>4, <1>5 DEF Next

\* The counter stays between zero and the threshold, for any threads, sizes and
\* threshold, whichever of the two ways of charging they mix.
THEOREM StaysWithin == Spec => []WithinThreshold
<1>1. Init => BudgetInv
  <2> SUFFICES ASSUME Init PROVE BudgetInv
    OBVIOUS
  <2>1. TypeOK
    BY InitTypes
  <2>2. Bytes = {}
    BY DEF Init, Bytes
  <2>3. Accounts
    BY <2>2, FS_EmptySet DEF Init, Accounts
  <2>4. Calls
    BY DEF Init, Calls
  <2>5. QED
    BY <2>1, <2>3, <2>4, MemAssumption DEF Init, BudgetInv
<1>2. BudgetInv /\ TypeOK' /\ [Next]_vars => BudgetInv'
  BY StepBudget
<1>3. BudgetInv => WithinThreshold
  BY FS_CardinalityType DEF BudgetInv, Accounts, WithinThreshold
<1>4. QED
  BY <1>1, <1>2, <1>3, TypeCorrect, PTL DEF Spec

=============================================================================

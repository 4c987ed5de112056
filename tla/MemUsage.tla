------------------------------ MODULE MemUsage ------------------------------
(***************************************************************************)
(* One MemUsage object, in bytes: the memory budget of a filter or of a    *)
(* rank's runtime, with the threads that charge it and give back to it.    *)
(*                                                                         *)
(* A waiter (a filter that writes, MPIFromConsoleThread) charges with      *)
(* accumulate() and waits for room; a poller (the main loop, which has a   *)
(* header and wants its body) tries accumulate_if_not_exceeding_limit() and *)
(* comes back later.  Whoever holds a buffer gives it back with reduce():  *)
(* what is charged is a bag of buffers, a number of them for every size.   *)
(* A body's size has passed the threshold of the rank that wrote it only;  *)
(* thresholds are computed by every rank for itself.                       *)
(***************************************************************************)
EXTENDS Integers, FiniteSets

CONSTANTS
  Waiters,     \* threads that call accumulate
  Pollers,     \* threads that call accumulate_if_not_exceeding_limit
  SizesOf,     \* sizes of the buffers a thread charges, in bytes
  Threshold,   \* memory_threshold
  MaxCharges   \* bound: buffers a thread charges

Threads == Waiters \cup Pollers
Sizes   == UNION {SizesOf[t] : t \in Threads}

ASSUME MemAssumption ==
  /\ Waiters \cap Pollers = {}
  /\ SizesOf \in [Threads -> SUBSET Nat]
  /\ Threshold \in Nat
  /\ MaxCharges \in Nat

VARIABLES
  usage,     \* current_usage
  charged,   \* how many buffers of each size are charged
  pc,        \* "idle", "test" (about to take the mutex), "wait" (cond.wait), "deferred"
  bytes,     \* the argument of the call
  charges,   \* charges made so far
  aborted    \* the process has called exit(1)

vars == <<usage, charged, pc, bytes, charges, aborted>>

Alive == ~aborted

Charge(t, b) ==
  /\ usage' = usage + b
  /\ charged' = [charged EXCEPT ![b] = @ + 1]
  /\ charges' = [charges EXCEPT ![t] = @ + 1]
  /\ pc' = [pc EXCEPT ![t] = "idle"]

\* accumulate, up to its acquire: more than the threshold can never be had
Accumulate(t, b) ==
  /\ Alive /\ t \in Waiters /\ b \in SizesOf[t]
  /\ pc[t] = "idle" /\ charges[t] < MaxCharges
  /\ \/ b > Threshold /\ aborted' = TRUE /\ UNCHANGED <<pc, bytes>>
     \/ /\ b <= Threshold
        /\ pc' = [pc EXCEPT ![t] = "test"]
        /\ bytes' = [bytes EXCEPT ![t] = b]
        /\ UNCHANGED aborted
  /\ UNCHANGED <<usage, charged, charges>>

\* Mutant: the test does not count the buffer itself.
TestUsageOnly(t) ==
  /\ Alive /\ pc[t] = "test"
  /\ \/ /\ usage > Threshold
        /\ pc' = [pc EXCEPT ![t] = "wait"]
        /\ UNCHANGED <<usage, charged, charges>>
     \/ usage <= Threshold /\ Charge(t, bytes[t])
  /\ UNCHANGED <<bytes, aborted>>

\* one turn of its loop, under the mutex
Test(t) ==
  /\ Alive /\ pc[t] = "test"
  /\ \/ /\ usage + bytes[t] > Threshold
        /\ pc' = [pc EXCEPT ![t] = "wait"]
        /\ UNCHANGED <<usage, charged, charges>>
     \/ usage + bytes[t] <= Threshold /\ Charge(t, bytes[t])
  /\ UNCHANGED <<bytes, aborted>>

\* Mutant: the last byte of the budget cannot be had.
AccumulateIfStrict(t, b) ==
  /\ Alive /\ t \in Pollers /\ b \in SizesOf[t]
  /\ \/ pc[t] = "idle" /\ charges[t] < MaxCharges
     \/ pc[t] = "deferred" /\ b = bytes[t]
  /\ bytes' = [bytes EXCEPT ![t] = b]
  /\ \/ /\ usage + b >= Threshold
        /\ pc' = [pc EXCEPT ![t] = "deferred"]
        /\ UNCHANGED <<usage, charged, charges>>
     \/ usage + b < Threshold /\ Charge(t, b)
  /\ UNCHANGED aborted

\* accumulate_if_not_exceeding_limit, on a new header or on a kept one
AccumulateIf(t, b) ==
  /\ Alive /\ t \in Pollers /\ b \in SizesOf[t]
  /\ \/ pc[t] = "idle" /\ charges[t] < MaxCharges
     \/ pc[t] = "deferred" /\ b = bytes[t]
  /\ bytes' = [bytes EXCEPT ![t] = b]
  /\ \/ /\ usage + b > Threshold
        /\ pc' = [pc EXCEPT ![t] = "deferred"]
        /\ UNCHANGED <<usage, charged, charges>>
     \/ usage + b <= Threshold /\ Charge(t, b)
  /\ UNCHANGED aborted

\* Mutant: nobody is woken up.
ReduceSilent(b) ==
  /\ Alive /\ charged[b] > 0
  /\ usage' = usage - b
  /\ charged' = [charged EXCEPT ![b] = @ - 1]
  /\ UNCHANGED <<pc, bytes, charges, aborted>>

\* reduce, under the mutex: notifyAll
Reduce(b) ==
  /\ Alive /\ charged[b] > 0
  /\ usage' = usage - b
  /\ charged' = [charged EXCEPT ![b] = @ - 1]
  /\ pc' = [t \in Threads |-> IF pc[t] = "wait" THEN "test" ELSE pc[t]]
  /\ UNCHANGED <<bytes, charges, aborted>>

Init ==
  /\ usage = 0
  /\ charged = [b \in Sizes |-> 0]
  /\ pc = [t \in Threads |-> "idle"]
  /\ bytes = [t \in Threads |-> 0]
  /\ charges = [t \in Threads |-> 0]
  /\ aborted = FALSE

\* Nobody has anything left to charge, or the process is gone.
Stop ==
  /\ \/ aborted
     \/ \A t \in Threads : pc[t] = "idle" /\ charges[t] = MaxCharges
  /\ UNCHANGED vars

Next ==
  \/ \E t \in Threads :
       \/ \E b \in SizesOf[t] : Accumulate(t, b) \/ AccumulateIf(t, b)
       \/ Test(t)
  \/ \E b \in Sizes : Reduce(b)
  \/ Stop

Spec == Init /\ [][Next]_vars

\* Threads are scheduled, the main loop polls, and every buffer is read or
\* sent some day.
FairSpec ==
  /\ Spec
  /\ \A t \in Waiters : WF_vars(Test(t))
  /\ \A t \in Pollers : WF_vars(pc[t] = "deferred" /\ AccumulateIf(t, bytes[t]))
  /\ \A b \in Sizes : WF_vars(Reduce(b))

-----------------------------------------------------------------------------
(* Properties                                                              *)

\* Every variable has its type.
TypeOK ==
  /\ usage \in Int
  /\ charged \in [Sizes -> Nat]
  /\ pc \in [Threads -> {"idle", "test", "wait", "deferred"}]
  /\ bytes \in [Threads -> Sizes \cup {0}]
  /\ charges \in [Threads -> Nat]
  /\ aborted \in BOOLEAN

\* The counter stays between zero (the assertion of MemUsage.cpp:75) and the
\* threshold, whichever of the two ways of charging the threads mix.
WithinThreshold == 0 <= usage /\ usage <= Threshold

\* A thread waits in accumulate only while there is no room for its buffer,
\* and a buffer for which there never will be any does not wait: a thread in
\* accumulate is not forgotten, and the message of MemUsage.cpp:29-40 ("this
\* write will wait forever") is the only way to lose a write.
WaitsForRoomOnly ==
  \A t \in Waiters :
    /\ pc[t] = "wait" => usage + bytes[t] > Threshold
    /\ pc[t] \in {"test", "wait"} => bytes[t] <= Threshold

\* A call of accumulate returns, although the main loop takes memory as well,
\* provided that the main loop some day has nothing more to receive
\* (MaxCharges): a thread that needs the whole budget can be overtaken as long
\* as smaller buffers keep coming.
AccumulateReturns ==
  \A t \in Waiters : pc[t] \in {"test", "wait"} ~> (pc[t] = "idle" \/ aborted)

\* A body the main loop has no memory for is read some day: it goes on to
\* "wait for memory usage to be reduced before continuing"
\* (dcmpiruntime.cpp:684-685).
DeferredBodyIsRead ==
  \A t \in Pollers : pc[t] = "deferred" ~> (pc[t] # "deferred" \/ aborted)

=============================================================================

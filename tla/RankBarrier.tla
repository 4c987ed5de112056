----------------------------- MODULE RankBarrier -----------------------------
(***************************************************************************)
(* What a barrier promises: ranks enter and leave it again and again, and  *)
(* none leaves a round that another one has not entered.                   *)
(***************************************************************************)
EXTENDS Integers

CONSTANTS Members, Rounds

VARIABLES
  entered,   \* rounds a member has entered
  left       \* rounds it has left

Outside == /\ entered = [r \in Members |-> 0]
           /\ left = [r \in Members |-> 0]

Enter(r) == /\ entered[r] = left[r] /\ left[r] < Rounds
            /\ entered' = [entered EXCEPT ![r] = @ + 1]
            /\ UNCHANGED left

Pass(r) == /\ entered[r] = left[r] + 1
           /\ \A s \in Members : entered[s] > left[r]
           /\ left' = [left EXCEPT ![r] = @ + 1]
           /\ UNCHANGED entered

Step == \E r \in Members : Enter(r) \/ Pass(r)

Barrier == Outside /\ [][Step]_<<entered, left>>

=============================================================================

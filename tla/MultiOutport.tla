---------------------------- MODULE MultiOutport ----------------------------
(***************************************************************************)
(* One out-port of a filter that feeds several in-ports: how               *)
(* MultiOutportManager::select_target picks the target of every write.  A  *)
(* filter may mix plain writes, writes to a label, writes with the ticket  *)
(* of an earlier write and broadcasts on the same port.                    *)
(*                                                                         *)
(* Targets are numbered as in the vector targets, after note_final_target  *)
(* has shuffled it.  A label or a ticket the port does not have ends the   *)
(* process (assert(0), exit(1)) and is not an input here.                   *)
(***************************************************************************)
EXTENDS Integers, FiniteSets

CONSTANTS
  NumTargets,   \* num_targets
  Labels,       \* labels of the port's readers
  LabelsOf,     \* runtime_labels of every target
  MaxWrites     \* bound: writes to one target

Targets == 0 .. NumTargets - 1
NoTarget == -1

\* label_to_targets
LabelTargets(l) == {t \in Targets : l \in LabelsOf[t]}

ASSUME TargetsAssumption ==
  /\ NumTargets \in Nat \ {0}
  /\ LabelsOf \in [Targets -> SUBSET Labels]
  /\ \A l \in Labels : LabelTargets(l) # {}
  /\ MaxWrites \in Nat

VARIABLES
  policy,                \* write_policy of the file portconfig, read at start
  rr_nextvictim,         \* the next target of the round robin
  last_chosen_target,
  label_to_targets_pos,  \* the next target of every label
  plain,                 \* plain writes each target has got
  labelled,              \* writes to each label each target has got
  received               \* buffers each target has got in all

vars == <<policy, rr_nextvictim, last_chosen_target, label_to_targets_pos, plain, labelled, received>>

First(S) == CHOOSE t \in S : \A u \in S : t <= u

\* Mutant: the last of a label's targets is skipped.
AfterSkipping(l, t) ==
  LET S == LabelTargets(l)
      later == {u \in S : u > t /\ \E v \in S : v > u}
  IN  IF later = {} THEN First(S) ELSE First(later)

\* the successor of t among the targets of label l, in the order of the set
After(l, t) ==
  LET later == {u \in LabelTargets(l) : u > t}
  IN  IF later = {} THEN First(LabelTargets(l)) ELSE First(later)

Feed(t) ==
  /\ received[t] < MaxWrites
  /\ received' = [received EXCEPT ![t] = @ + 1]
  /\ last_chosen_target' = t

WriteLabel(l) ==
  LET t == label_to_targets_pos[l] IN
  /\ Feed(t)
  /\ label_to_targets_pos' = [label_to_targets_pos EXCEPT ![l] = After(l, t)]
  /\ labelled' = [labelled EXCEPT ![l][t] = @ + 1]
  /\ UNCHANGED <<policy, rr_nextvictim, plain>>

\* Mutant: the round robin goes on from the target with the ticket.
WriteTicketMovesRoundRobin(t) ==
  /\ Feed(t)
  /\ rr_nextvictim' = IF t + 1 = NumTargets THEN 0 ELSE t + 1
  /\ UNCHANGED <<policy, label_to_targets_pos, plain, labelled>>

\* a ticket is the number of a target; get_last_write_ticket hands it out
WriteTicket(t) ==
  /\ Feed(t)
  /\ UNCHANGED <<policy, rr_nextvictim, label_to_targets_pos, plain, labelled>>

\* of a single target the next one is always that target
WriteRoundRobin ==
  /\ policy = "RR"
  /\ Feed(rr_nextvictim)
  /\ plain' = [plain EXCEPT ![rr_nextvictim] = @ + 1]
  /\ rr_nextvictim' = IF rr_nextvictim + 1 = NumTargets THEN 0 ELSE rr_nextvictim + 1
  /\ UNCHANGED <<policy, label_to_targets_pos, labelled>>

WriteRandom(t) ==
  /\ policy = "random"
  /\ Feed(t)
  /\ plain' = [plain EXCEPT ![t] = @ + 1]
  /\ UNCHANGED <<policy, rr_nextvictim, label_to_targets_pos, labelled>>

\* write_broadcast: a write with the ticket of every target in turn
WriteBroadcast ==
  /\ \A t \in Targets : received[t] < MaxWrites
  /\ received' = [t \in Targets |-> received[t] + 1]
  /\ last_chosen_target' = NumTargets - 1
  /\ UNCHANGED <<policy, rr_nextvictim, label_to_targets_pos, plain, labelled>>

Init ==
  /\ policy \in {"RR", "random"}
  /\ rr_nextvictim = 0
  /\ last_chosen_target = NoTarget
  /\ label_to_targets_pos = [l \in Labels |-> First(LabelTargets(l))]
  /\ plain = [t \in Targets |-> 0]
  /\ labelled = [l \in Labels |-> [t \in Targets |-> 0]]
  /\ received = [t \in Targets |-> 0]

Next ==
  \/ WriteRoundRobin
  \/ \E l \in Labels : WriteLabel(l)
  \/ \E t \in Targets : WriteTicket(t) \/ WriteRandom(t)
  \/ WriteBroadcast

Spec == Init /\ [][Next]_vars

-----------------------------------------------------------------------------
(* Properties                                                              *)

\* Every variable has its type; a label is never served by a target that does
\* not carry it.
TypeOK ==
  /\ policy \in {"RR", "random"}
  /\ rr_nextvictim \in Targets
  /\ last_chosen_target \in Targets \cup {NoTarget}
  /\ label_to_targets_pos \in [Labels -> Targets]
  /\ \A l \in Labels : label_to_targets_pos[l] \in LabelTargets(l)
  /\ plain \in [Targets -> Nat]
  /\ labelled \in [Labels -> [Targets -> Nat]]
  /\ received \in [Targets -> Nat]

\* The round robin of plain writes is even, whatever writes to labels, tickets
\* and broadcasts come in between: no target is ever two ahead of another.
RoundRobinIsEven ==
  policy = "RR" => \A t, u \in Targets : plain[t] <= plain[u] + 1

\* So is the round robin of every label over the targets that carry it.
LabelsAreEven ==
  \A l \in Labels : \A t, u \in LabelTargets(l) : labelled[l][t] <= labelled[l][u] + 1

\* The four ways of writing share the positions of the rounds, and none of them
\* disturbs the round of another.
WritesAreEven == RoundRobinIsEven /\ LabelsAreEven

=============================================================================

------------------------ MODULE MultiOutport_proofs ------------------------
(***************************************************************************)
(* Proofs about the selection of targets, for any number of targets and    *)
(* labels, whatever ways of writing a filter mixes.                        *)
(*                                                                         *)
(* Evenness is not inductive: that no target is two ahead does not say     *)
(* which ones are ahead.  The invariant does: those before the position of *)
(* the round robin have one more than those from it on.                    *)
(***************************************************************************)
EXTENDS MultiOutport, NaturalsInduction, WellFoundedInduction, TLAPS

\* a round over S has come to pos: who is before it is one ahead of the others
InRound(S, count, pos) ==
  \A t, u \in S :
    /\ (t < pos /\ u < pos) \/ (t >= pos /\ u >= pos) => count[t] = count[u]
    /\ t < pos /\ u >= pos => count[t] = count[u] + 1

Rounds ==
  /\ policy = "RR" => InRound(Targets, plain, rr_nextvictim)
  /\ \A l \in Labels : InRound(LabelTargets(l), labelled[l], label_to_targets_pos[l])

Inv == TypeOK /\ Rounds

\* A nonempty set of targets has a first one.
LEMMA FirstOf ==
  ASSUME NEW S \in SUBSET Targets, S # {}
  PROVE  First(S) \in S /\ \A u \in S : First(S) <= u
<1> DEFINE R == {ss \in Nat \X Nat : ss[1] < ss[2]}
<1>1. Targets \subseteq Nat
  BY TargetsAssumption DEF Targets
<1>2. IsWellFoundedOn(R, Nat)
  BY NatLessThanWellFounded DEF OpToRel
<1>3. PICK x \in S : \A y \in S : ~ (<<y, x>> \in R)
  <2> HIDE DEF R
  <2> QED
    BY <1>1, <1>2, WFMin
<1>4. \A y \in S : x <= y
  <2> SUFFICES ASSUME NEW y \in S PROVE x <= y
    OBVIOUS
  <2>1. x \in Nat /\ y \in Nat
    BY <1>1
  <2>2. <<y, x>> \notin R
    BY <1>3
  <2>3. ~ (y < x)
    BY <2>1, <2>2
  <2>4. QED
    BY <2>1, <2>3
<1>5. QED
  BY <1>3, <1>4 DEF First

\* After(l, t) is a target of the label: the next one, or the first one when t
\* is the last.
LEMMA AfterIsNext ==
  ASSUME NEW l \in Labels, NEW t \in LabelTargets(l)
  PROVE  /\ After(l, t) \in LabelTargets(l)
         /\ \/ /\ After(l, t) > t
               /\ \A u \in LabelTargets(l) : u > t <=> u >= After(l, t)
            \/ \A u \in LabelTargets(l) : u <= t /\ u >= After(l, t)
<1> DEFINE S == LabelTargets(l)
           later == {u \in S : u > t}
<1>1. S \in SUBSET Targets /\ S # {}
  BY TargetsAssumption DEF LabelTargets
<1>2. S \subseteq Nat
  BY <1>1, TargetsAssumption DEF Targets
<1>3. CASE later = {}
  <2>1. After(l, t) = First(S)
    BY <1>3 DEF After
  <2>2. First(S) \in S /\ \A u \in S : First(S) <= u
    BY <1>1, FirstOf
  <2>3. \A u \in S : u <= t
    BY <1>2, <1>3
  <2>4. QED
    BY <1>2, <2>1, <2>2, <2>3
<1>4. CASE later # {}
  <2>1. After(l, t) = First(later)
    BY <1>4 DEF After
  <2>2. First(later) \in later /\ \A u \in later : First(later) <= u
    BY <1>1, <1>4, FirstOf
  <2>3. QED
    BY <1>2, <2>1, <2>2
<1>5. QED
  BY <1>3, <1>4

\* The step of a round: the target at pos is fed and pos goes to the next one,
\* or to the first one.
LEMMA RoundGoesOn ==
  ASSUME NEW S \in SUBSET Targets, NEW count \in [Targets -> Nat],
         NEW pos \in S, NEW next \in S, InRound(S, count, pos),
         \/ /\ next > pos
            /\ \A u \in S : u > pos <=> u >= next
         \/ \A u \in S : u <= pos /\ u >= next
  PROVE  InRound(S, [count EXCEPT ![pos] = @ + 1], next)
<1> DEFINE fed == [count EXCEPT ![pos] = @ + 1]
<1>1. S \subseteq Nat /\ S \subseteq Targets
  BY TargetsAssumption DEF Targets
<1>2. \A t \in S : fed[t] = (IF t = pos THEN count[t] + 1 ELSE count[t]) /\ count[t] \in Nat
  BY <1>1
<1>3. \A t \in S : t < pos => count[t] = count[pos] + 1
  BY <1>1 DEF InRound
<1>4. \A t \in S : t >= pos => count[t] = count[pos]
  BY <1>1 DEF InRound
<1>5. CASE next > pos /\ \A u \in S : u > pos <=> u >= next
  <2>1. \A t \in S : t < next => fed[t] = count[pos] + 1
    BY <1>1, <1>2, <1>3, <1>5
  <2>2. \A t \in S : t >= next => fed[t] = count[pos]
    BY <1>1, <1>2, <1>4, <1>5
  <2> HIDE DEF fed
  <2>3. QED
    BY <1>1, <1>2, <2>1, <2>2 DEF InRound
<1>6. CASE \A u \in S : u <= pos /\ u >= next
  <2>1. \A t \in S : t >= next /\ fed[t] = count[pos] + 1
    BY <1>1, <1>2, <1>3, <1>6
  <2> HIDE DEF fed
  <2>2. QED
    BY <1>1, <2>1 DEF InRound
<1>7. QED
  BY <1>5, <1>6

\* TypeOK holds at the start.
LEMMA InitTypes == Init => TypeOK
<1> SUFFICES ASSUME Init PROVE TypeOK
  OBVIOUS
<1>1. \A l \in Labels : First(LabelTargets(l)) \in LabelTargets(l)
  BY FirstOf, TargetsAssumption DEF LabelTargets
<1>2. \A l \in Labels : LabelTargets(l) \subseteq Targets
  BY DEF LabelTargets
<1>3. 0 \in Targets
  BY TargetsAssumption DEF Targets
<1>4. QED
  BY <1>1, <1>2, <1>3 DEF Init, TypeOK

\* A label's target is a target, and so is the one after it.
LEMMA LabelTargetsAreTargets == \A l \in Labels : LabelTargets(l) \subseteq Targets
  BY DEF LabelTargets

\* Every way of writing keeps the types and the rounds.
LEMMA Step == Inv /\ [Next]_vars => Inv'
<1> SUFFICES ASSUME Inv, [Next]_vars PROVE Inv'
  OBVIOUS
<1> USE DEF Inv, TypeOK, Feed
<1>t. Targets \subseteq Nat /\ \A t \in Targets : t + 1 # NumTargets => t + 1 \in Targets
  BY TargetsAssumption DEF Targets
<1>1. CASE WriteRoundRobin
  <2> DEFINE pos == rr_nextvictim
             next == IF pos + 1 = NumTargets THEN 0 ELSE pos + 1
  <2>1. pos \in Targets /\ next \in Targets
    BY <1>t, TargetsAssumption DEF Targets
  <2>2. \/ next > pos /\ \A u \in Targets : u > pos <=> u >= next
        \/ \A u \in Targets : u <= pos /\ u >= next
    BY <2>1, TargetsAssumption DEF Targets
  <2>3. InRound(Targets, plain, pos)
    BY <1>1 DEF WriteRoundRobin, Rounds
  <2>4. plain' = [plain EXCEPT ![pos] = @ + 1] /\ rr_nextvictim' = next
    BY <1>1 DEF WriteRoundRobin
  <2>5. InRound(Targets, [plain EXCEPT ![pos] = @ + 1], next)
    <3> HIDE DEF next, pos
    <3> QED
      BY <2>1, <2>2, <2>3, RoundGoesOn
  <2>6. InRound(Targets, plain', rr_nextvictim')
    BY <2>4, <2>5
  <2>7. Rounds'
    BY <1>1, <2>6 DEF WriteRoundRobin, Rounds
  <2>8. TypeOK'
    BY <1>1, <1>t, <2>1, <2>4 DEF WriteRoundRobin
  <2>9. QED
    BY <2>7, <2>8
<1>2. ASSUME NEW l \in Labels, WriteLabel(l) PROVE Inv'
  <2> DEFINE t == label_to_targets_pos[l]
  <2>1. t \in LabelTargets(l) /\ t \in Targets /\ After(l, t) \in LabelTargets(l)
        /\ After(l, t) \in Targets /\ LabelTargets(l) \in SUBSET Targets
    BY AfterIsNext, LabelTargetsAreTargets
  <2>2. /\ label_to_targets_pos' = [label_to_targets_pos EXCEPT ![l] = After(l, t)]
        /\ labelled' = [labelled EXCEPT ![l] = [labelled[l] EXCEPT ![t] = @ + 1]]
        /\ received' = [received EXCEPT ![t] = @ + 1] /\ last_chosen_target' = t
        /\ UNCHANGED <<policy, rr_nextvictim, plain>>
    BY <1>2 DEF WriteLabel
  <2>3. TypeOK'
    <3> HIDE DEF t
    <3>1. label_to_targets_pos' \in [Labels -> Targets]
          /\ \A k \in Labels : label_to_targets_pos'[k] \in LabelTargets(k)
      BY <2>1, <2>2
    <3>2. labelled' \in [Labels -> [Targets -> Nat]]
      <4>1. [labelled[l] EXCEPT ![t] = @ + 1] \in [Targets -> Nat]
        BY <2>1
      <4>2. QED
        BY <2>2, <4>1
    <3>3. QED
      BY <2>1, <2>2, <3>1, <3>2
  <2>4. InRound(LabelTargets(l), labelled[l], t)
    BY DEF Rounds
  <2>5. InRound(LabelTargets(l), [labelled[l] EXCEPT ![t] = @ + 1], After(l, t))
    <3>1. \/ /\ After(l, t) > t
             /\ \A u \in LabelTargets(l) : u > t <=> u >= After(l, t)
          \/ \A u \in LabelTargets(l) : u <= t /\ u >= After(l, t)
      BY <2>1, AfterIsNext
    <3>2. labelled[l] \in [Targets -> Nat]
      OBVIOUS
    <3> HIDE DEF t
    <3> QED
      BY <2>1, <2>4, <3>1, <3>2, RoundGoesOn
  <2>6. ASSUME NEW k \in Labels
        PROVE  InRound(LabelTargets(k), labelled'[k], label_to_targets_pos'[k])
    <3>1. CASE k = l
      <4>1. labelled'[l] = [labelled[l] EXCEPT ![t] = @ + 1]
            /\ label_to_targets_pos'[l] = After(l, t)
        BY <2>2
      <4>2. QED
        BY <2>5, <3>1, <4>1
    <3>2. CASE k # l
      <4>1. labelled'[k] = labelled[k] /\ label_to_targets_pos'[k] = label_to_targets_pos[k]
        BY <2>2, <3>2
      <4>2. QED
        BY <4>1 DEF Rounds
    <3>3. QED
      BY <3>1, <3>2
  <2>7. Rounds'
    BY <2>2, <2>6 DEF Rounds
  <2>8. QED
    BY <2>3, <2>7
<1>3. ASSUME NEW t \in Targets, WriteTicket(t) PROVE Inv'
  <2>1. TypeOK'
    BY <1>3, <1>t DEF WriteTicket
  <2>2. Rounds'
    BY <1>3 DEF WriteTicket, Rounds
  <2>3. QED
    BY <2>1, <2>2
<1>4. ASSUME NEW t \in Targets, WriteRandom(t) PROVE Inv'
  <2>1. TypeOK'
    BY <1>4, <1>t DEF WriteRandom
  <2>2. Rounds'
    BY <1>4 DEF WriteRandom, Rounds
  <2>3. QED
    BY <2>1, <2>2
<1>5. CASE WriteBroadcast
  <2>1. NumTargets - 1 \in Targets
    BY TargetsAssumption DEF Targets
  <2>2. TypeOK'
    BY <1>5, <2>1 DEF WriteBroadcast
  <2>3. Rounds'
    BY <1>5 DEF WriteBroadcast, Rounds
  <2>4. QED
    BY <2>2, <2>3
<1>6. CASE UNCHANGED vars
  BY <1>6 DEF vars, Rounds
<1>7. QED
  BY <1>1, <1>2, <1>3, <1>4, <1>5, <1>6 DEF Next

\* The rounds start with nothing written.
LEMMA InitInv == Init => Inv
<1> SUFFICES ASSUME Init PROVE Inv
  OBVIOUS
<1>1. TypeOK
  BY InitTypes
<1>2. \A t \in Targets : t \in Nat
  BY TargetsAssumption DEF Targets
<1>3. InRound(Targets, plain, rr_nextvictim)
  BY <1>2 DEF Init, InRound
<1>4. ASSUME NEW l \in Labels
      PROVE  InRound(LabelTargets(l), labelled[l], label_to_targets_pos[l])
  <2> DEFINE p == First(LabelTargets(l))
  <2>1. p \in LabelTargets(l) /\ \A u \in LabelTargets(l) : p <= u
    BY FirstOf, TargetsAssumption DEF LabelTargets
  <2>2. \A u \in LabelTargets(l) : u \in Targets /\ u >= p /\ u \in Nat
    BY <1>2, <2>1, LabelTargetsAreTargets
  <2>3. \A u \in LabelTargets(l) : labelled[l][u] = 0
    BY <2>2 DEF Init
  <2>4. label_to_targets_pos[l] = p
    BY DEF Init
  <2> HIDE DEF p
  <2>5. QED
    BY <1>2, <2>1, <2>2, <2>3, <2>4 DEF InRound
<1>5. QED
  BY <1>1, <1>3, <1>4 DEF Inv, Rounds

\* Every variable keeps its type, and a label is served by targets that carry
\* it, for any number of targets and labels.
THEOREM TypeCorrect == Spec => []TypeOK
<1>1. Inv => TypeOK
  BY DEF Inv
<1>2. QED
  BY <1>1, InitInv, Step, PTL DEF Spec

\* No target is ever two plain writes ahead of another, whatever labels,
\* tickets and broadcasts come in between.
THEOREM RoundRobin == Spec => []RoundRobinIsEven
<1>1. Inv => RoundRobinIsEven
  <2> SUFFICES ASSUME Inv, policy = "RR", NEW t \in Targets, NEW u \in Targets
               PROVE  plain[t] <= plain[u] + 1
    BY DEF RoundRobinIsEven
  <2>1. plain[t] \in Nat /\ plain[u] \in Nat /\ t \in Nat /\ u \in Nat /\ rr_nextvictim \in Nat
    BY TargetsAssumption DEF Inv, TypeOK, Targets
  <2>2. InRound(Targets, plain, rr_nextvictim)
    BY DEF Inv, Rounds
  <2>3. QED
    BY <2>1, <2>2 DEF InRound
<1>2. QED
  BY <1>1, InitInv, Step, PTL DEF Spec

\* Nor is a target of a label ahead of another one that carries it.
THEOREM LabelRounds == Spec => []LabelsAreEven
<1>1. Inv => LabelsAreEven
  <2> SUFFICES ASSUME Inv, NEW l \in Labels,
                      NEW t \in LabelTargets(l), NEW u \in LabelTargets(l)
               PROVE  labelled[l][t] <= labelled[l][u] + 1
    BY DEF LabelsAreEven
  <2>1. /\ t \in Targets /\ u \in Targets /\ label_to_targets_pos[l] \in Targets
        /\ \A v \in Targets : v \in Nat /\ labelled[l][v] \in Nat
    BY LabelTargetsAreTargets, TargetsAssumption DEF Inv, TypeOK, Targets
  <2>2. InRound(LabelTargets(l), labelled[l], label_to_targets_pos[l])
    BY DEF Inv, Rounds
  <2>3. QED
    BY <2>1, <2>2 DEF InRound
<1>2. QED
  BY <1>1, InitInv, Step, PTL DEF Spec

\* So the rounds of plain writes and of all labels are even, in any mixture.
THEOREM AllRounds == Spec => []WritesAreEven
<1>1. RoundRobinIsEven /\ LabelsAreEven => WritesAreEven
  BY DEF WritesAreEven
<1>2. QED
  BY <1>1, RoundRobin, LabelRounds, PTL

=============================================================================

-------------------------- MODULE PortQueue_proofs --------------------------
(***************************************************************************)
(* Proofs about the in-ports of a filter, for any ports, writers and       *)
(* numbers of buffers: when a filter may conclude that its input has ended. *)
(***************************************************************************)
EXTENDS PortQueue, TLAPS

\* A writer is taken off the putters of a port only after its process() has
\* returned, so it can put nothing more.
RemovedIsClosing ==
  \A f \in Feeds : f[1] \notin putters[f[2]] => status[f[1]] = "closing"

\* Ports a filter has been told about have no putters, and had none when the
\* current pass over the ports went by.
EndedHasNoPutters == \A p \in Ports : nulls[p] > 0 => putters[p] = {}
PassSawNoPutters ==
  pc \in {"poll", "look"} /\ ((op = "any" /\ ~seen) \/ op = "upstream") =>
    \A p \in visited : putters[p] = {}
ExitedIsRight == answer = "exited" => \A p \in Ports : putters[p] = {}

\* A port that was at its end before the call began is empty once the call has
\* polled it.
EndedIsPolledEmpty ==
  /\ pc = "look" /\ op \in {"until", "any"} => (nulls[at] > 0 => queued[at] = 0)
  /\ pc \in {"poll", "look"} /\ op = "any" =>
       \A p \in visited : nulls[p] > 0 => queued[p] = 0

EndInv ==
  /\ RemovedIsClosing
  /\ EndedHasNoPutters
  /\ PassSawNoPutters
  /\ ExitedIsRight
  /\ EndedIsPolledEmpty
  /\ SecondEndIsFinal

-----------------------------------------------------------------------------
\* Answers that end a call keep the types of the reader's variables.
LEMMA ReplyTyped ==
  ASSUME TypeOK, NEW a \in Answers, Reply(a)
  PROVE  /\ pc' = "idle" /\ answer' \in Answers
         /\ nulls' \in [Ports -> 0 .. 2]
         /\ \A p \in Ports : nulls'[p] >= nulls[p]
         /\ \A p \in Ports : p \notin Ended \/ a # "NULL" => nulls'[p] = nulls[p]
         /\ \A p \in Ports : nulls'[p] = 2 => nulls[p] > 0
         /\ op' = op /\ at' = at /\ visited' = visited /\ start' = start /\ seen' = seen
<1>1. CASE a = "NULL"
  BY <1>1 DEF Reply, TypeOK
<1>2. CASE a # "NULL"
  BY <1>2 DEF Reply, TypeOK
<1>3. QED
  BY <1>1, <1>2

\* TypeOK is inductive by itself.
THEOREM TypeCorrect == Spec => []TypeOK
<1>1. Init => TypeOK
  <2> SUFFICES ASSUME Init PROVE TypeOK
    OBVIOUS
  <2>1. queued \in [Ports -> Nat] /\ nulls \in [Ports -> 0 .. 2]
    BY DEF Init
  <2>2. putters \in [Ports -> SUBSET Writers]
    BY DEF Init
  <2>3. written \in [Feeds -> 0 .. MaxPuts]
    BY PortsAssumption DEF Init
  <2>4. status \in [Writers -> {"process", "closing"}] /\ open \subseteq Feeds
    BY DEF Init
  <2>5. at \in Ports /\ start \in Ports /\ visited \subseteq Ports
    BY PortsAssumption DEF Init, Ports
  <2>6. seen \in BOOLEAN
    BY Zenon DEF Init
  <2>7. /\ pc \in {"idle", "get", "wait", "poll", "look", "sleep"}
        /\ op \in Operations /\ answer \in Answers
    BY DEF Init, Operations, Answers
  <2>8. QED
    BY <2>1, <2>2, <2>3, <2>4, <2>5, <2>6, <2>7 DEF TypeOK
<1>2. TypeOK /\ [Next]_vars => TypeOK'
  <2> SUFFICES ASSUME TypeOK, [Next]_vars PROVE TypeOK'
    OBVIOUS
  <2>1. ASSUME NEW f \in Feeds, Put(f[1], f[2]) PROVE TypeOK'
    <3>1. f = <<f[1], f[2]>> /\ f[2] \in Ports
      BY PortsAssumption
    <3>2. written' \in [Feeds -> 0 .. MaxPuts]
      <4>1. written[f] + 1 \in 0 .. MaxPuts
        BY <2>1, <3>1, PortsAssumption DEF Put, TypeOK
      <4>2. QED
        BY <2>1, <3>1, <4>1 DEF Put, TypeOK
    <3>3. queued' \in [Ports -> Nat]
      BY <2>1, <3>1 DEF Put, TypeOK
    <3>4. QED
      BY <2>1, <3>2, <3>3 DEF Put, TypeOK
  <2>2. ASSUME NEW f \in Feeds, RemovePutter(f[1], f[2]) PROVE TypeOK'
    BY <2>2 DEF RemovePutter, TypeOK, readerVars
  <2>3. ASSUME NEW w \in Writers, Return(w) PROVE TypeOK'
    BY <2>3 DEF Return, TypeOK, readerVars
  <2>4. ASSUME NEW o \in Operations, NEW p \in Ports, Call(o, p) PROVE TypeOK'
    <3>1. at' \in Ports
      BY <2>4, PortsAssumption DEF Call, Ports
    <3>2. pc' \in {"get", "look", "poll"}
      BY <2>4 DEF Call
    <3>3. seen' \in BOOLEAN
      BY <2>4, Zenon DEF Call
    <3>4. QED
      BY <2>4, <3>1, <3>2, <3>3 DEF Call, TypeOK, writerVars
  <2>5. CASE Get
    <3>1. CASE queued[at] = 0
      BY <2>5, <3>1 DEF Get, TypeOK, writerVars
    <3>2. CASE queued[at] > 0
      <4>1. queued' \in [Ports -> Nat] /\ Reply("buffer")
        BY <2>5, <3>2 DEF Get, TypeOK
      <4>2. QED
        BY <2>5, <4>1, ReplyTyped DEF Get, TypeOK, writerVars, Answers
    <3>3. QED
      BY <3>1, <3>2 DEF TypeOK
  <2>6. CASE SpuriousWakeup
    BY <2>6 DEF SpuriousWakeup, TypeOK, writerVars
  <2>7. CASE Poll
    <3>1. queued' \in [Ports -> Nat]
      BY <2>7 DEF Poll, TypeOK
    <3>2. CASE Reply("buffer") \/ Reply("NULL")
      BY <2>7, <3>1, <3>2, ReplyTyped DEF Poll, TypeOK, writerVars, Answers
    <3>3. CASE ~(Reply("buffer") \/ Reply("NULL"))
      BY <2>7, <3>1, <3>3 DEF Poll, TypeOK, writerVars
    <3>4. QED
      BY <3>2, <3>3
  <2>8. CASE LookUntil
    <3>1. CASE Reply("NULL")
      BY <2>8, <3>1, ReplyTyped DEF LookUntil, TypeOK, writerVars, Answers
    <3>2. CASE ~Reply("NULL")
      BY <2>8, <3>2 DEF LookUntil, TypeOK, writerVars
    <3>3. QED
      BY <3>1, <3>2
  <2>9. CASE LookAny
    <3>1. CASE Reply("NULL")
      BY <2>9, <3>1, ReplyTyped DEF LookAny, TypeOK, writerVars, Answers
    <3>2. CASE ~Reply("NULL") /\ ~LastVisit
      <4>1. seen' = (seen \/ putters[at] # {})
        BY <2>9, <3>2, Zenon DEF LookAny
      <4>2. seen' \in BOOLEAN
        BY <4>1, Zenon
      <4>3. NextPort(at) \in Ports
        BY PortsAssumption DEF NextPort, Ports, TypeOK
      <4>4. QED
        BY <2>9, <3>2, <4>2, <4>3 DEF LookAny, TypeOK, writerVars
    <3>3. CASE ~Reply("NULL") /\ LastVisit
      BY <2>9, <3>3 DEF LookAny, TypeOK, writerVars
    <3>4. QED
      BY <3>1, <3>2, <3>3
  <2>10. CASE LookUpstream
    <3>1. CASE Reply("running") \/ Reply("exited")
      BY <2>10, <3>1, ReplyTyped DEF LookUpstream, TypeOK, writerVars, Answers
    <3>2. CASE ~(Reply("running") \/ Reply("exited"))
      <4>1. NextPort(at) \in Ports
        BY PortsAssumption DEF NextPort, Ports, TypeOK
      <4>2. QED
        BY <2>10, <3>2, <4>1 DEF LookUpstream, TypeOK, writerVars
    <3>3. QED
      BY <3>1, <3>2
  <2>11. CASE Wake
    <3>1. seen' \in BOOLEAN
      BY <2>11, Zenon DEF Wake
    <3>2. QED
      BY <2>11, <3>1 DEF Wake, TypeOK, writerVars
  <2>12. CASE Starved \/ UNCHANGED vars
    BY <2>12 DEF Starved, vars, TypeOK, writerVars, readerVars
  <2>13. QED
    BY <2>1, <2>2, <2>3, <2>4, <2>5, <2>6, <2>7, <2>8, <2>9, <2>10, <2>11, <2>12
    DEF Next, Reader
<1>3. QED
  BY <1>1, <1>2, PTL DEF Spec

-----------------------------------------------------------------------------
\* A buffer is never put into a port whose end the filter has been told.
LEMMA NoPutAfterEnd ==
  ASSUME EndInv, NEW f \in Feeds, Put(f[1], f[2]) PROVE ~(nulls[f[2]] > 0)
BY PortsAssumption DEF EndInv, RemovedIsClosing, EndedHasNoPutters, Put

\* The writers preserve EndInv: they put only into ports that have not ended,
\* and putters only ever become fewer.
LEMMA WritersKeepEndInv ==
  ASSUME TypeOK, EndInv,
         \/ \E f \in Feeds : Put(f[1], f[2]) \/ RemovePutter(f[1], f[2])
         \/ \E w \in Writers : Return(w)
  PROVE  EndInv'
<1>1. ASSUME NEW f \in Feeds, Put(f[1], f[2]) PROVE EndInv'
  <2>1. f[1] \in Writers /\ f[2] \in Ports /\ ~(nulls[f[2]] > 0)
    BY <1>1, NoPutAfterEnd, PortsAssumption
  <2>2. \A p \in Ports : p # f[2] => queued'[p] = queued[p]
    BY <1>1, <2>1 DEF Put, TypeOK
  <2>3. /\ pc' \in {"poll", "look"} => pc' = pc
        /\ pc' = "look" => pc = "look"
    BY <1>1 DEF Put
  <2>4. /\ putters' = putters /\ status' = status /\ op' = op /\ at' = at
        /\ visited' = visited /\ seen' = seen /\ answer' = answer /\ nulls' = nulls
    BY <1>1 DEF Put
  <2>5. RemovedIsClosing' /\ EndedHasNoPutters' /\ ExitedIsRight'
    BY <2>4 DEF EndInv, RemovedIsClosing, EndedHasNoPutters, ExitedIsRight
  <2>6. PassSawNoPutters'
    BY <2>3, <2>4 DEF EndInv, PassSawNoPutters
  <2>7. EndedIsPolledEmpty'
    BY <2>1, <2>2, <2>3, <2>4 DEF EndInv, EndedIsPolledEmpty, TypeOK
  <2>8. SecondEndIsFinal'
    BY <2>1, <2>2, <2>4 DEF EndInv, SecondEndIsFinal, TypeOK
  <2>9. QED
    BY <2>5, <2>6, <2>7, <2>8 DEF EndInv
<1>2. ASSUME NEW f \in Feeds, RemovePutter(f[1], f[2]) PROVE EndInv'
  <2>1. f[1] \in Writers /\ f[2] \in Ports /\ status[f[1]] = "closing"
    BY <1>2, PortsAssumption DEF RemovePutter
  <2>2. \A p \in Ports : putters'[p] \subseteq putters[p]
    BY <1>2, <2>1 DEF RemovePutter, TypeOK
  <2>3. UNCHANGED <<queued, status, readerVars>>
    BY <1>2 DEF RemovePutter
  <2>4. RemovedIsClosing'
    <3> SUFFICES ASSUME NEW g \in Feeds, g[1] \notin putters'[g[2]] PROVE status'[g[1]] = "closing"
      BY DEF RemovedIsClosing
    <3>1. g[2] \in Ports
      BY PortsAssumption
    <3>2. g[1] \notin putters[g[2]] \/ g[1] = f[1]
      BY <1>2, <2>1, <3>1 DEF RemovePutter, TypeOK
    <3>3. QED
      BY <2>1, <2>3, <3>2 DEF EndInv, RemovedIsClosing
  <2>5. EndedHasNoPutters' /\ PassSawNoPutters' /\ ExitedIsRight' /\ SecondEndIsFinal'
    BY <2>2, <2>3
    DEF EndInv, EndedHasNoPutters, PassSawNoPutters, ExitedIsRight, SecondEndIsFinal,
        readerVars, TypeOK
  <2>6. EndedIsPolledEmpty'
    BY <2>3 DEF EndInv, EndedIsPolledEmpty, readerVars
  <2>7. QED
    BY <2>4, <2>5, <2>6 DEF EndInv
<1>3. ASSUME NEW w \in Writers, Return(w) PROVE EndInv'
  <2>1. \A v \in Writers : status[v] = "closing" => status'[v] = "closing"
    BY <1>3 DEF Return, TypeOK
  <2>2. UNCHANGED <<queued, putters, readerVars>>
    BY <1>3 DEF Return
  <2>3. RemovedIsClosing'
    BY <2>1, <2>2, PortsAssumption DEF EndInv, RemovedIsClosing
  <2>4. QED
    BY <2>2, <2>3
    DEF EndInv, EndedHasNoPutters, PassSawNoPutters, ExitedIsRight, EndedIsPolledEmpty,
        SecondEndIsFinal, readerVars
<1>4. QED
  BY <1>1, <1>2, <1>3

\* An answer preserves EndInv if NULL is given only for ports that have no
\* putters and, when it is the second time, no buffers; and "exited" only when
\* no port has putters.
LEMMA AnswersKeepEndInv ==
  ASSUME TypeOK, EndInv, NEW a \in Answers, Reply(a),
         UNCHANGED <<putters, status>>,
         queued' \in [Ports -> Nat], \A p \in Ports : queued'[p] <= queued[p],
         a = "NULL" => \A p \in Ended : putters[p] = {} /\ (nulls[p] > 0 => queued[p] = 0),
         a = "exited" => \A p \in Ports : putters[p] = {}
  PROVE  EndInv'
<1>1. /\ pc' = "idle" /\ answer' = a /\ nulls' \in [Ports -> 0 .. 2]
      /\ \A p \in Ports : p \notin Ended \/ a # "NULL" => nulls'[p] = nulls[p]
      /\ \A p \in Ports : nulls'[p] = 2 => nulls[p] > 0
  BY ReplyTyped DEF Reply
<1>2. RemovedIsClosing' /\ ExitedIsRight'
  BY <1>1 DEF EndInv, RemovedIsClosing, ExitedIsRight
<1>3. EndedHasNoPutters'
  BY <1>1 DEF EndInv, EndedHasNoPutters, TypeOK
<1>4. PassSawNoPutters' /\ EndedIsPolledEmpty'
  BY <1>1 DEF PassSawNoPutters, EndedIsPolledEmpty
<1>5. SecondEndIsFinal'
  <2> SUFFICES ASSUME NEW p \in Ports, nulls'[p] = 2 PROVE queued'[p] = 0 /\ putters'[p] = {}
    BY DEF SecondEndIsFinal
  <2>1. CASE p \in Ended /\ a = "NULL"
    BY <1>1, <2>1 DEF TypeOK
  <2>2. CASE p \notin Ended \/ a # "NULL"
    BY <1>1, <2>2 DEF EndInv, SecondEndIsFinal, TypeOK
  <2>3. QED
    BY <2>1, <2>2
<1>6. QED
  BY <1>2, <1>3, <1>4, <1>5 DEF EndInv

\* The reader's own steps preserve EndInv.
LEMMA ReaderKeepsEndInv ==
  ASSUME TypeOK, EndInv, TypeOK',
         Reader \/ SpuriousWakeup \/ \E o \in Operations, p \in Ports : Call(o, p)
  PROVE  EndInv'
<1> USE DEF EndInv
<1>1. CASE UNCHANGED <<queued, putters, status, op, at, visited, seen, answer, nulls>>
           /\ pc' \notin {"poll", "look"}
  BY <1>1 DEF RemovedIsClosing, EndedHasNoPutters, PassSawNoPutters, ExitedIsRight,
              EndedIsPolledEmpty, SecondEndIsFinal
<1>2. ASSUME NEW o \in Operations, NEW p \in Ports, Call(o, p) PROVE EndInv'
  <2>1. /\ visited' = {} /\ (pc' = "look" => op' = "upstream")
        /\ UNCHANGED <<queued, putters, status, answer, nulls>>
    BY <1>2 DEF Call, writerVars
  <2>2. QED
    BY <2>1 DEF RemovedIsClosing, EndedHasNoPutters, PassSawNoPutters, ExitedIsRight,
                EndedIsPolledEmpty, SecondEndIsFinal
<1>3. CASE Get
  <2>1. CASE queued[at] = 0
    BY <1>1, <1>3, <2>1 DEF Get, writerVars
  <2>2. CASE queued[at] > 0
    <3>1. Reply("buffer") /\ UNCHANGED <<putters, status>>
      BY <1>3, <2>2 DEF Get, writerVars
    <3>2. queued' \in [Ports -> Nat] /\ \A p \in Ports : queued'[p] <= queued[p]
      BY <1>3, <2>2 DEF Get, TypeOK
    <3>3. QED
      BY <3>1, <3>2, AnswersKeepEndInv DEF Answers
  <2>3. QED
    BY <1>3, <2>1, <2>2 DEF Get
<1>4. CASE SpuriousWakeup
  BY <1>1, <1>4 DEF SpuriousWakeup, writerVars
<1>5. CASE Poll
  <2>1. queued' \in [Ports -> Nat] /\ \A p \in Ports : queued'[p] <= queued[p]
    BY <1>5 DEF Poll, TypeOK
  <2>2. UNCHANGED <<putters, status>>
    BY <1>5 DEF Poll, writerVars
  <2>3. CASE Reply("buffer")
    BY <2>1, <2>2, <2>3, AnswersKeepEndInv DEF Answers
  <2>4. CASE op = "nonblocking" /\ Reply("NULL")
    BY <2>1, <2>2, <2>4, AnswersKeepEndInv DEF Answers, Ended
  <2>5. CASE queued[at] = 0 /\ pc' = "look" /\ pc = "poll"
             /\ UNCHANGED <<queued, op, at, visited, seen, answer, nulls>>
    BY <2>2, <2>5 DEF RemovedIsClosing, EndedHasNoPutters, PassSawNoPutters, ExitedIsRight,
                      EndedIsPolledEmpty, SecondEndIsFinal
  <2>6. QED
    BY <1>5, <2>3, <2>4, <2>5 DEF Poll
<1>6. CASE LookUntil
  <2>1. UNCHANGED <<queued, putters, status>>
    BY <1>6 DEF LookUntil, writerVars
  <2>2. CASE putters[at] # {}
    BY <1>1, <1>6, <2>1, <2>2 DEF LookUntil
  <2>3. CASE putters[at] = {}
    <3>1. nulls[at] > 0 => queued[at] = 0
      BY <1>6 DEF LookUntil, EndedIsPolledEmpty
    <3>2. Ended = {at} /\ Reply("NULL")
      BY <1>6, <2>3 DEF LookUntil, Ended
    <3>3. queued' \in [Ports -> Nat] /\ \A p \in Ports : queued'[p] <= queued[p]
      BY <2>1 DEF TypeOK
    <3>4. QED
      BY <2>1, <2>3, <3>1, <3>2, <3>3, AnswersKeepEndInv DEF Answers
  <2>4. QED
    BY <2>2, <2>3
<1>7. CASE LookAny
  <2>1. UNCHANGED <<queued, putters, status>> /\ pc = "look" /\ op = "any"
    BY <1>7 DEF LookAny, writerVars
  <2>2. CASE ~LastVisit
    <3>1. /\ visited' = visited \cup {at} /\ pc' = "poll"
          /\ ~seen' => ~seen /\ putters[at] = {}
          /\ UNCHANGED <<op, answer, nulls>>
      BY <1>7, <2>2 DEF LookAny
    <3>2. PassSawNoPutters'
      BY <2>1, <3>1 DEF PassSawNoPutters
    <3>3. EndedIsPolledEmpty'
      BY <2>1, <3>1 DEF EndedIsPolledEmpty
    <3>4. QED
      BY <2>1, <3>1, <3>2, <3>3
      DEF RemovedIsClosing, EndedHasNoPutters, ExitedIsRight, SecondEndIsFinal
  <2>3. CASE LastVisit /\ (seen \/ putters[at] # {})
    BY <1>1, <1>7, <2>1, <2>3 DEF LookAny
  <2>4. CASE LastVisit /\ ~(seen \/ putters[at] # {})
    <3>1. Reply("NULL")
      BY <1>7, <2>4 DEF LookAny
    <3>2. \A p \in Ports : putters[p] = {} /\ (nulls[p] > 0 => queued[p] = 0)
      BY <2>1, <2>4 DEF LastVisit, PassSawNoPutters, EndedIsPolledEmpty
    <3>3. queued' \in [Ports -> Nat] /\ \A p \in Ports : queued'[p] <= queued[p]
      BY <2>1 DEF TypeOK
    <3>4. QED
      BY <2>1, <3>1, <3>2, <3>3, AnswersKeepEndInv DEF Answers, Ended
  <2>5. QED
    BY <2>2, <2>3, <2>4
<1>8. CASE LookUpstream
  <2>1. UNCHANGED <<queued, putters, status>> /\ pc = "look" /\ op = "upstream"
    BY <1>8 DEF LookUpstream, writerVars
  <2>2. queued' \in [Ports -> Nat] /\ \A p \in Ports : queued'[p] <= queued[p]
    BY <2>1 DEF TypeOK
  <2>3. CASE Reply("running")
    BY <2>1, <2>2, <2>3, AnswersKeepEndInv DEF Answers
  <2>4. CASE putters[at] = {} /\ ~LastVisit
    <3>1. visited' = visited \cup {at} /\ UNCHANGED <<pc, op, seen, answer, nulls>>
      BY <1>8, <2>4 DEF LookUpstream
    <3>2. QED
      BY <2>1, <2>4, <3>1
      DEF RemovedIsClosing, EndedHasNoPutters, PassSawNoPutters, ExitedIsRight,
          EndedIsPolledEmpty, SecondEndIsFinal
  <2>5. CASE putters[at] = {} /\ LastVisit
    <3>1. Reply("exited")
      BY <1>8, <2>5 DEF LookUpstream
    <3>2. \A p \in Ports : putters[p] = {}
      BY <2>1, <2>5 DEF LastVisit, PassSawNoPutters
    <3>3. QED
      BY <2>1, <2>2, <3>1, <3>2, AnswersKeepEndInv DEF Answers
  <2>6. QED
    BY <1>8, <2>3, <2>4, <2>5 DEF LookUpstream
<1>9. CASE Wake
  <2>1. /\ visited' = {} /\ pc' = "poll"
        /\ UNCHANGED <<queued, putters, status, op, answer, nulls>>
    BY <1>9 DEF Wake, writerVars
  <2>2. QED
    BY <2>1 DEF RemovedIsClosing, EndedHasNoPutters, PassSawNoPutters, ExitedIsRight,
                EndedIsPolledEmpty, SecondEndIsFinal
<1>10. QED
  BY <1>2, <1>3, <1>4, <1>5, <1>6, <1>7, <1>8, <1>9 DEF Reader

\* What the filter has been told about its input stays true in every state.
THEOREM EndsAreRight == Spec => []EndInv
<1>1. Init => EndInv
  BY PortsAssumption
  DEF Init, EndInv, RemovedIsClosing, EndedHasNoPutters, PassSawNoPutters, ExitedIsRight,
      EndedIsPolledEmpty, SecondEndIsFinal
<1>2. TypeOK /\ TypeOK' /\ EndInv /\ [Next]_vars => EndInv'
  <2>1. CASE UNCHANGED vars
    BY <2>1
    DEF vars, writerVars, readerVars, EndInv, RemovedIsClosing, EndedHasNoPutters,
        PassSawNoPutters, ExitedIsRight, EndedIsPolledEmpty, SecondEndIsFinal
  <2>2. QED
    BY <2>1, WritersKeepEndInv, ReaderKeepsEndInv DEF Next, Starved
<1>3. QED
  BY <1>1, <1>2, TypeCorrect, PTL DEF Spec

\* A filter is told NULL a second time only when its input is read to the end:
\* the code's promise that no buffer is lost, for any ports and writers.
THEOREM SecondEnd == Spec => []SecondEndIsFinal
<1>1. EndInv => SecondEndIsFinal
  BY DEF EndInv
<1>2. QED
  BY <1>1, EndsAreRight, PTL

\* NULL and false mean that the writers have gone.
THEOREM WritersGone == Spec => []EndMeansWritersGone
<1>1. TypeOK /\ EndInv => EndMeansWritersGone
  BY PortsAssumption
  DEF EndInv, EndedHasNoPutters, RemovedIsClosing, ExitedIsRight, EndMeansWritersGone
<1>2. QED
  BY <1>1, TypeCorrect, EndsAreRight, PTL

\* A reader that waits on a port waits for a buffer that is not there.
THEOREM NoWakeupIsLost == Spec => []NoLostWakeup
<1>1. Init => NoLostWakeup
  BY DEF Init, NoLostWakeup
<1>2. TypeOK /\ NoLostWakeup /\ [Next]_vars => NoLostWakeup'
  <2> SUFFICES ASSUME TypeOK, NoLostWakeup, [Next]_vars, pc' = "wait" PROVE queued'[at'] = 0
    BY DEF NoLostWakeup
  <2>1. ASSUME NEW f \in Feeds, Put(f[1], f[2]) PROVE queued'[at'] = 0
    <3>1. pc = "wait" /\ at # f[2] /\ at' = at /\ f[2] \in Ports
      BY <2>1, PortsAssumption DEF Put
    <3>2. queued'[at] = queued[at]
      BY <2>1, <3>1 DEF Put, TypeOK
    <3>3. QED
      BY <3>1, <3>2 DEF NoLostWakeup
  <2>2. CASE UNCHANGED <<queued, pc, at>>
    BY <2>2 DEF NoLostWakeup
  <2>3. CASE Get
    BY <2>3 DEF Get, Reply
  <2>4. QED
    BY <2>1, <2>2, <2>3
    DEF Next, Reader, RemovePutter, Return, Call, Poll, LookUntil, LookAny, LookUpstream, Wake,
        SpuriousWakeup, Starved, Reply, vars, readerVars
<1>3. QED
  BY <1>1, <1>2, TypeCorrect, PTL DEF Spec

=============================================================================

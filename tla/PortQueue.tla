----------------------------- MODULE PortQueue -----------------------------
(***************************************************************************)
(* The in-ports of one filter: a Queue<Buffer_MUID> per port, the writers   *)
(* that put into it and remove themselves from its putters, and the read   *)
(* operations of DCFilterExecutor the filter's thread calls one after      *)
(* another.                                                                *)
(*                                                                         *)
(* A step is what one thread does between two points where another thread  *)
(* can come in between: a region under the queue's mutex, or one unlocked  *)
(* look at the putters (Queue::has_more_putters takes no lock; it reads the *)
(* size of the set, which is either the old or the new one while another   *)
(* thread erases).                                                         *)
(*                                                                         *)
(* A writer stands for whichever thread puts its buffers into the port: the *)
(* writing filter itself on the same rank, the runtime's main loop for a   *)
(* writer elsewhere; either way its puts come before its remove_putter.    *)
(* The contents of buffers do not matter here: a queue is its length.      *)
(***************************************************************************)
EXTENDS Integers, FiniteSets

CONSTANTS
  NumPorts,   \* in-ports of the filter, in the order of the map in_ports
  Writers,    \* upstream filters
  Feeds,      \* <<w, p>>: w writes to port p
  MaxPuts     \* bound: buffers put by each writer into each port

Ports == 1 .. NumPorts

ASSUME PortsAssumption ==
  /\ NumPorts \in Nat \ {0}
  /\ Feeds \subseteq Writers \X Ports
  /\ MaxPuts \in Nat

\* read, read_nonblocking, read_until_upstream_exit, readany,
\* any_upstream_running
Operations == {"read", "nonblocking", "until", "any", "upstream"}

\* What the last call returned; "running" and "exited" are the answers true
\* and false of any_upstream_running.
Answers == {"none", "buffer", "NULL", "running", "exited"}

VARIABLES
  queued,    \* length of the queue of every port
  putters,   \* its putters
  written,   \* buffers put so far, by feed
  status,    \* writer: running process(), or closing its out-ports
  open,      \* feeds whose remove_putter is still to come
  pc,        \* where the reader is in its call
  op,        \* the call
  at,        \* the port it is looking at
  visited,   \* ports it has been to in this pass over in_ports (counter)
  start,     \* the port a pass of readany starts from
  seen,      \* has_more_putters, the local variable
  answer,    \* what the last call returned
  nulls      \* how often (at most 2) the filter was told a port is at its end

writerVars == <<written, status, open>>
readerVars == <<pc, op, at, visited, start, seen, answer, nulls>>
vars == <<queued, putters, writerVars, readerVars>>

-----------------------------------------------------------------------------
(* Writers                                                                 *)

\* Mutant: the waiting reader is not notified.
PutSilent(w, p) ==
  /\ status[w] = "process"
  /\ written[<<w, p>>] < MaxPuts
  /\ written' = [written EXCEPT ![<<w, p>>] = @ + 1]
  /\ queued' = [queued EXCEPT ![p] = @ + 1]
  /\ UNCHANGED <<putters, status, open, readerVars>>

\* Queue::put, under the mutex: the reader is the only thread that waits
Put(w, p) ==
  /\ status[w] = "process"
  /\ written[<<w, p>>] < MaxPuts
  /\ written' = [written EXCEPT ![<<w, p>>] = @ + 1]
  /\ queued' = [queued EXCEPT ![p] = @ + 1]
  /\ pc' = IF pc = "wait" /\ at = p THEN "get" ELSE pc
  /\ UNCHANGED <<putters, status, open, op, at, visited, start, seen, answer, nulls>>

\* the writer's process() returns
Return(w) ==
  /\ status[w] = "process"
  /\ status' = [status EXCEPT ![w] = "closing"]
  /\ UNCHANGED <<queued, putters, written, open, readerVars>>

\* Queue::remove_putter, at the end of DCFilterThread::run or from deliver_in
RemovePutter(w, p) ==
  /\ status[w] = "closing"
  /\ <<w, p>> \in open
  /\ open' = open \ {<<w, p>>}
  /\ putters' = [putters EXCEPT ![p] = @ \ {w}]
  /\ UNCHANGED <<queued, written, status, readerVars>>

-----------------------------------------------------------------------------
(* The reader                                                              *)

NextPort(p) == IF p = NumPorts THEN 1 ELSE p + 1

\* Ports whose end an answer NULL of the current call reports.
Ended == IF op = "any" THEN Ports ELSE IF op = "until" THEN {at} ELSE {}

LastVisit == visited \cup {at} = Ports

Reply(a) ==
  /\ pc' = "idle"
  /\ answer' = a
  /\ nulls' = IF a = "NULL"
              THEN [p \in Ports |-> IF p \in Ended /\ nulls[p] < 2
                                    THEN nulls[p] + 1 ELSE nulls[p]]
              ELSE nulls
  /\ UNCHANGED <<op, at, visited, start, seen>>

Call(o, p) ==
  /\ pc = "idle"
  /\ op' = o
  /\ pc' = IF o = "read" THEN "get" ELSE IF o = "upstream" THEN "look" ELSE "poll"
  /\ at' = IF o = "upstream" THEN 1 ELSE p
  /\ start' = p
  /\ visited' = {}
  /\ seen' = FALSE
  /\ UNCHANGED <<queued, putters, writerVars, answer, nulls>>

\* Mutant: an empty queue ends the call.
LookUntilGiveUp ==
  /\ pc = "look" /\ op = "until"
  /\ Reply("NULL")
  /\ UNCHANGED <<queued, putters, writerVars>>

\* Queue::get, one turn of its loop
Get ==
  /\ pc = "get"
  /\ \/ /\ queued[at] = 0
        /\ pc' = "wait"
        /\ UNCHANGED <<queued, op, at, visited, start, seen, answer, nulls>>
     \/ /\ queued[at] > 0
        /\ queued' = [queued EXCEPT ![at] = @ - 1]
        /\ Reply("buffer")
  /\ UNCHANGED <<putters, writerVars>>

\* a wake-up nobody has signalled
SpuriousWakeup ==
  /\ pc = "wait"
  /\ pc' = "get"
  /\ UNCHANGED <<queued, putters, writerVars, op, at, visited, start, seen, answer, nulls>>

\* Queue::get_if_item_present
Poll ==
  /\ pc = "poll"
  /\ \/ /\ queued[at] > 0
        /\ queued' = [queued EXCEPT ![at] = @ - 1]
        /\ Reply("buffer")
     \/ /\ queued[at] = 0 /\ op = "nonblocking"
        /\ Reply("NULL")
        /\ UNCHANGED queued
     \/ /\ queued[at] = 0 /\ op # "nonblocking"
        /\ pc' = "look"
        /\ UNCHANGED <<queued, op, at, visited, start, seen, answer, nulls>>
  /\ UNCHANGED <<putters, writerVars>>

\* read_until_upstream_exit looks at the putters of a port it found empty
LookUntil ==
  /\ pc = "look" /\ op = "until"
  /\ \/ /\ putters[at] # {}
        /\ pc' = "sleep"
        /\ UNCHANGED <<op, at, visited, start, seen, answer, nulls>>
     \/ /\ putters[at] = {}
        /\ Reply("NULL")
  /\ UNCHANGED <<queued, putters, writerVars>>

\* Mutant: only the last port visited decides whether writers are left.
LookAnyLast ==
  /\ pc = "look" /\ op = "any"
  /\ \/ /\ ~LastVisit
        /\ visited' = visited \cup {at} /\ at' = NextPort(at) /\ pc' = "poll"
        /\ UNCHANGED <<op, start, seen, answer, nulls>>
     \/ /\ LastVisit /\ putters[at] # {}
        /\ pc' = "sleep"
        /\ UNCHANGED <<op, at, visited, start, seen, answer, nulls>>
     \/ /\ LastVisit /\ putters[at] = {}
        /\ Reply("NULL")
  /\ UNCHANGED <<queued, putters, writerVars>>

\* readany does so port after port, and gives up only when it has seen no
\* putter in a whole pass
LookAny ==
  LET more == seen \/ putters[at] # {} IN
  /\ pc = "look" /\ op = "any"
  /\ \/ /\ ~LastVisit
        /\ visited' = visited \cup {at} /\ at' = NextPort(at) /\ pc' = "poll" /\ seen' = more
        /\ UNCHANGED <<op, start, answer, nulls>>
     \/ /\ LastVisit /\ more
        /\ pc' = "sleep"
        /\ UNCHANGED <<op, at, visited, start, seen, answer, nulls>>
     \/ /\ LastVisit /\ ~more
        /\ Reply("NULL")
  /\ UNCHANGED <<queued, putters, writerVars>>

\* any_upstream_running
LookUpstream ==
  /\ pc = "look" /\ op = "upstream"
  /\ \/ /\ putters[at] # {}
        /\ Reply("running")
     \/ /\ putters[at] = {} /\ ~LastVisit
        /\ visited' = visited \cup {at} /\ at' = NextPort(at)
        /\ UNCHANGED <<pc, op, start, seen, answer, nulls>>
     \/ /\ putters[at] = {} /\ LastVisit
        /\ Reply("exited")
  /\ UNCHANGED <<queued, putters, writerVars>>

\* Mutant: what the pass before has seen is not forgotten.
WakeRemembering ==
  /\ pc = "sleep"
  /\ pc' = "poll"
  /\ at' = start /\ visited' = {}
  /\ UNCHANGED <<queued, putters, writerVars, op, start, seen, answer, nulls>>

\* dcmpi_doublesleep is over: the next pass
Wake ==
  /\ pc = "sleep"
  /\ pc' = "poll"
  /\ at' = start /\ visited' = {} /\ seen' = FALSE
  /\ UNCHANGED <<queued, putters, writerVars, op, start, answer, nulls>>

-----------------------------------------------------------------------------
Init ==
  /\ queued = [p \in Ports |-> 0]
  /\ putters = [p \in Ports |-> {w \in Writers : <<w, p>> \in Feeds}]
  /\ written = [f \in Feeds |-> 0]
  /\ status = [w \in Writers |-> "process"]
  /\ open = Feeds
  /\ pc = "idle" /\ op = "read" /\ at = 1 /\ visited = {} /\ start = 1
  /\ seen = FALSE
  /\ answer = "none"
  /\ nulls = [p \in Ports |-> 0]

\* read() on a port nobody writes to any more waits for ever.
Starved ==
  /\ pc = "wait" /\ open = {}
  /\ UNCHANGED vars

Reader == Get \/ Poll \/ LookUntil \/ LookAny \/ LookUpstream \/ Wake

Next ==
  \/ \E f \in Feeds : Put(f[1], f[2]) \/ RemovePutter(f[1], f[2])
  \/ \E w \in Writers : Return(w)
  \/ \E o \in Operations, p \in Ports : Call(o, p)
  \/ Reader
  \/ SpuriousWakeup
  \/ Starved

Spec == Init /\ [][Next]_vars

\* The reader's thread is scheduled, and its sleeps end; writers that close
\* their out-ports go through all of them.
FairSpec ==
  /\ Spec
  /\ WF_vars(Reader)
  /\ \A f \in Feeds : WF_vars(RemovePutter(f[1], f[2]))

-----------------------------------------------------------------------------
(* Properties                                                              *)

\* Every variable has its type.
TypeOK ==
  /\ queued \in [Ports -> Nat]
  /\ putters \in [Ports -> SUBSET Writers]
  /\ written \in [Feeds -> 0 .. MaxPuts]
  /\ status \in [Writers -> {"process", "closing"}]
  /\ open \subseteq Feeds
  /\ pc \in {"idle", "get", "wait", "poll", "look", "sleep"}
  /\ op \in Operations
  /\ at \in Ports /\ start \in Ports /\ visited \subseteq Ports
  /\ seen \in BOOLEAN
  /\ answer \in Answers
  /\ nulls \in [Ports -> 0 .. 2]

\* A reader that waits in Queue::get on a port waits for a buffer that is not
\* there: no put is missed between its test and its wait (Queue.h:21-44).
NoLostWakeup == pc = "wait" => queued[at] = 0

\* A filter is told that its input has ended (NULL from
\* read_until_upstream_exit or readany, false from any_upstream_running) only
\* when no writer of the ports in question can put anything any more.
EndMeansWritersGone ==
  /\ \A p \in Ports : nulls[p] > 0 =>
       \A f \in Feeds : f[2] = p => status[f[1]] = "closing"
  /\ pc = "idle" /\ answer = "exited" => \A p \in Ports : putters[p] = {}

\* The second time a filter is told that a port has ended, the port is empty
\* for good; the first time a buffer that was put between the look into the
\* queue and the look at the putters may still be there
\* (DCFilterExecutor.cpp:158-161, 205-211).
SecondEndIsFinal ==
  \A p \in Ports : nulls[p] = 2 => queued[p] = 0 /\ putters[p] = {}

\* A call of read_until_upstream_exit or readany does not outlast its writers.
UpstreamExitIsNoticed ==
  (\A w \in Writers : status[w] = "closing") /\ pc # "idle" /\ op \in {"until", "any"}
    ~> pc = "idle"

\* The senders of the ticket and label tests write a header and three more
\* buffers before they return, and their readers, having read the header,
\* "assert(in)" the other three (labelfilters.cpp:40, ticketfilters.cpp:39):
\* a filter that has read one buffer of its only writer gets the others before
\* it gets NULL.
NullMeansAllRead ==
  pc = "idle" /\ answer = "NULL" /\ op \in {"until", "any"} =>
    \A f \in Feeds : LET p == f[2] IN
      nulls[p] = 1 /\ queued[p] < written[f] => queued[p] = 0

=============================================================================

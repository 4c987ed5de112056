---------------------------- MODULE SocketBarrier ----------------------------
(***************************************************************************)
(* socket_barrier of the socket runtime.  Every rank but 0 writes a byte   *)
(* to rank 0 and waits for one; rank 0 reads a byte from each in turn,     *)
(* then writes a byte to each in turn.  The bytes are all zero: a          *)
(* connection is the number of bytes on their way.                         *)
(***************************************************************************)
EXTENDS Integers

CONSTANTS
  Size,     \* ranks of the cluster
  Rounds    \* barriers a rank goes through

ASSUME SizeAssumption == Size \in Nat \ {0} /\ Rounds \in Nat

Members == 0 .. Size - 1
Others  == 1 .. Size - 1

VARIABLES
  entered,   \* calls of socket_barrier by every rank
  left,      \* returns from it
  up,        \* bytes on the way to rank 0
  down,      \* bytes on the way from rank 0
  loop,      \* the loop of rank 0: "collect" or "tell"
  next       \* its loop variable

barrierVars == <<entered, left, up, down, loop, next>>

BarrierInit ==
  /\ entered = [r \in Members |-> 0] /\ left = [r \in Members |-> 0]
  /\ up = [r \in Others |-> 0] /\ down = [r \in Others |-> 0]
  /\ loop = "collect" /\ next = 1

\* A rank other than 0 writes its byte.
Arrive(r) ==
  /\ r \in Others /\ entered[r] = left[r] /\ left[r] < Rounds
  /\ entered' = [entered EXCEPT ![r] = @ + 1]
  /\ up' = [up EXCEPT ![r] = @ + 1]
  /\ UNCHANGED <<left, down, loop, next>>

\* It reads the one it waits for.
Leave(r) ==
  /\ r \in Others /\ entered[r] = left[r] + 1 /\ down[r] > 0
  /\ down' = [down EXCEPT ![r] = @ - 1]
  /\ left' = [left EXCEPT ![r] = @ + 1]
  /\ UNCHANGED <<entered, up, loop, next>>

RootArrives ==
  /\ entered[0] = left[0] /\ left[0] < Rounds
  /\ entered' = [entered EXCEPT ![0] = @ + 1]
  /\ loop' = "collect" /\ next' = 1
  /\ UNCHANGED <<left, up, down>>

\* "wait for all other ranks to get here"
Collect ==
  /\ entered[0] = left[0] + 1 /\ loop = "collect" /\ next < Size /\ up[next] > 0
  /\ up' = [up EXCEPT ![next] = @ - 1]
  /\ next' = next + 1
  /\ UNCHANGED <<entered, left, down, loop>>

\* Mutant: the loop ends one rank too early.
CollectedAllButOne ==
  /\ entered[0] = left[0] + 1 /\ loop = "collect" /\ next >= Size - 1
  /\ loop' = "tell" /\ next' = 1
  /\ UNCHANGED <<entered, left, up, down>>

Collected ==
  /\ entered[0] = left[0] + 1 /\ loop = "collect" /\ next = Size
  /\ loop' = "tell" /\ next' = 1
  /\ UNCHANGED <<entered, left, up, down>>

\* "tell other ranks they can exit"
Tell ==
  /\ entered[0] = left[0] + 1 /\ loop = "tell" /\ next < Size
  /\ down' = [down EXCEPT ![next] = @ + 1]
  /\ next' = next + 1
  /\ UNCHANGED <<entered, left, up, loop>>

RootLeaves ==
  /\ entered[0] = left[0] + 1 /\ loop = "tell" /\ next = Size
  /\ left' = [left EXCEPT ![0] = @ + 1]
  /\ UNCHANGED <<entered, up, down, loop, next>>

RootStep == RootArrives \/ Collect \/ Collected \/ Tell \/ RootLeaves
BarrierNext == RootStep \/ \E r \in Others : Arrive(r) \/ Leave(r)

BarrierSpec == BarrierInit /\ [][BarrierNext]_barrierVars

-----------------------------------------------------------------------------
(* Properties                                                              *)

\* Types; at most one byte is on its way in each direction.
BarrierTypeOK ==
  /\ entered \in [Members -> 0 .. Rounds] /\ left \in [Members -> 0 .. Rounds]
  /\ up \in [Others -> 0 .. 1] /\ down \in [Others -> 0 .. 1]
  /\ loop \in {"collect", "tell"} /\ next \in 1 .. Size

\* No rank has left a round of socket_barrier that another has not entered:
\* no rank tears its executors and sockets down while another runs filters.
NobodyLeavesEarly == \A r, s \in Members : left[r] <= entered[s]

\* socket_barrier is a barrier.
BarrierOf == INSTANCE RankBarrier
ImplementsBarrier == BarrierOf!Barrier

=============================================================================

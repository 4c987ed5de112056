---------------------------- MODULE SocketStartup ----------------------------
(***************************************************************************)
(* How the processes of the socket runtime find each other                 *)
(* (dcmpisock_startup), and what they then say before and after the main   *)
(* loop: the broadcast of the layout and the barriers.                     *)
(*                                                                         *)
(* Every process listens on a port of its own.  All connect to rank 0      *)
(* twice, for data and for the barrier, and tell it their ports; rank 0    *)
(* tells everyone about everyone else; then each pair of other ranks is    *)
(* joined by one connection, opened by the lower rank.                     *)
(*                                                                         *)
(* Connections opened by one process are accepted in the order in which    *)
(* it opened them.  The lines that a process writes right after it has     *)
(* connected are there when the connection is accepted; host names are     *)
(* left out.  A listening port is known by the rank that listens on it.    *)
(***************************************************************************)
EXTENDS SocketBarrier, SequencesExt

CONSTANT Backlog   \* connections a listening socket holds that are not accepted

ASSUME BacklogAssumption == Backlog \in Nat \ {0}

None   == [client |-> -1, server |-> -1, kind |-> "none"]
Failed == [client |-> -1, server |-> -1, kind |-> "failed"]
Conn(c, s, k) == [client |-> c, server |-> s, kind |-> k]

\* What goes from rank 0 to a rank on its data connection.
PortLine(i, port) == [what |-> "port", rank |-> i, port |-> port]
BcastOf(m)        == [what |-> m, rank |-> 0, port |-> 0]
Bcasts            == <<"header", "endianness", "layout">>

VARIABLES
  stage,     \* what a process is about to do
  backlog,   \* connections to every process that are not accepted yet
  fd,        \* rank_fds
  barrierFd, \* rank0_barrier_fds; rank_non0_barrier_fd of the others
  ports,     \* rank_ports
  accepted,  \* connections a process has accepted
  peer,      \* i of a loop over the ranks
  data,      \* what rank 0 has written to a rank and the rank has not read
  bcasts,    \* broadcasts a process has done
  heard      \* history: what a rank has read as broadcasts

startVars == <<stage, backlog, fd, barrierFd, ports, accepted, peer, data, bcasts, heard>>
allVars == <<startVars, barrierVars>>

Stages == {"connect", "barrier", "ports", "accept", "peers", "tell", "bcast", "run"}

Init ==
  /\ BarrierInit
  /\ stage = [r \in Members |-> IF r = 0 THEN "accept" ELSE "connect"]
  /\ backlog = [r \in Members |-> <<>>]
  /\ fd = [r \in Members |-> [s \in Members |-> None]]
  /\ barrierFd = [r \in Members |-> [s \in Members |-> None]]
  /\ ports = [r \in Members |-> [s \in Members |-> IF s = 0 /\ r # 0 THEN 0 ELSE -1]]
  /\ accepted = [r \in Members |-> 0]
  /\ peer = [r \in Members |-> r + 1]
  /\ data = [r \in Members |-> <<>>]
  /\ bcasts = [r \in Members |-> 0]
  /\ heard = [r \in Members |-> <<>>]

Opened(c, s, k) ==
  /\ Len(backlog[s]) < Backlog
  /\ backlog' = [backlog EXCEPT ![s] = Append(@, Conn(c, s, k))]

-----------------------------------------------------------------------------
(* The ranks other than 0                                                  *)

ConnectToRoot(r) ==
  /\ stage[r] = "connect"
  /\ Opened(r, 0, "data")
  /\ fd' = [fd EXCEPT ![r][0] = Conn(r, 0, "data")]
  /\ stage' = [stage EXCEPT ![r] = "barrier"]
  /\ UNCHANGED <<barrierFd, ports, accepted, peer, data, bcasts, heard, barrierVars>>

ConnectBarrier(r) ==
  /\ stage[r] = "barrier"
  /\ Opened(r, 0, "barrier")
  /\ barrierFd' = [barrierFd EXCEPT ![r][0] = Conn(r, 0, "barrier")]
  /\ stage' = [stage EXCEPT ![r] = IF Size > 2 THEN "ports" ELSE "bcast"]
  /\ UNCHANGED <<fd, ports, accepted, peer, data, bcasts, heard, barrierVars>>

\* The number of entries read is not kept: the ports that are known tell.
Known(r) == Cardinality({s \in Others : ports[r][s] # -1})

ReadPort(r) ==
  /\ stage[r] = "ports" /\ data[r] # <<>>
  /\ ports' = [ports EXCEPT ![r][Head(data[r]).rank] = Head(data[r]).port]
  /\ data' = [data EXCEPT ![r] = Tail(@)]
  /\ stage' = [stage EXCEPT ![r] = IF Known(r) + 1 < Size - 2 THEN "ports"
                                   ELSE IF r >= 2 THEN "accept" ELSE "peers"]
  /\ UNCHANGED <<backlog, fd, barrierFd, accepted, peer, bcasts, heard, barrierVars>>

AcceptPeer(r) ==
  /\ r # 0 /\ stage[r] = "accept" /\ backlog[r] # <<>>
  /\ backlog' = [backlog EXCEPT ![r] = Tail(@)]
  /\ fd' = [fd EXCEPT ![r][Head(backlog[r]).client] = Head(backlog[r])]
  /\ accepted' = [accepted EXCEPT ![r] = @ + 1]
  /\ stage' = [stage EXCEPT ![r] = IF accepted[r] + 1 < r - 1 THEN "accept"
                                   ELSE IF r < Size - 1 THEN "peers" ELSE "bcast"]
  /\ UNCHANGED <<barrierFd, ports, peer, data, bcasts, heard, barrierVars>>

\* A connection that cannot be opened is reported, and the rank goes on.
ConnectPeer(r) ==
  /\ r # 0 /\ stage[r] = "peers"
  /\ LET port == ports[r][peer[r]]
     IN  IF port = -1
         THEN fd' = [fd EXCEPT ![r][peer[r]] = Failed] /\ UNCHANGED backlog
         ELSE Opened(r, port, "data") /\ fd' = [fd EXCEPT ![r][peer[r]] = Conn(r, port, "data")]
  /\ peer' = [peer EXCEPT ![r] = @ + 1]
  /\ stage' = [stage EXCEPT ![r] = IF peer[r] < Size - 1 THEN "peers" ELSE "bcast"]
  /\ UNCHANGED <<barrierFd, ports, accepted, data, bcasts, heard, barrierVars>>

\* socket_bcast
HearBcast(r) ==
  /\ r # 0 /\ stage[r] = "bcast" /\ data[r] # <<>>
  /\ data' = [data EXCEPT ![r] = Tail(@)]
  /\ heard' = [heard EXCEPT ![r] = Append(@, Head(data[r]).what)]
  /\ bcasts' = [bcasts EXCEPT ![r] = @ + 1]
  /\ stage' = [stage EXCEPT ![r] = IF bcasts[r] + 1 < Len(Bcasts) THEN "bcast" ELSE "run"]
  /\ UNCHANGED <<backlog, fd, barrierFd, ports, accepted, peer, barrierVars>>

-----------------------------------------------------------------------------
(* Rank 0                                                                  *)

\* Mutant: connections are told apart by how many have been accepted.
RootAcceptsByCount ==
  /\ stage[0] = "accept" /\ backlog[0] # <<>>
  /\ LET c == Head(backlog[0])
     IN  IF accepted[0] < Size - 1
         THEN /\ fd' = [fd EXCEPT ![0][c.client] = c]
              /\ ports' = [ports EXCEPT ![0][c.client] = c.client]
              /\ UNCHANGED barrierFd
         ELSE barrierFd' = [barrierFd EXCEPT ![0][c.client] = c] /\ UNCHANGED <<fd, ports>>
  /\ backlog' = [backlog EXCEPT ![0] = Tail(@)]
  /\ accepted' = [accepted EXCEPT ![0] = @ + 1]
  /\ stage' = [stage EXCEPT ![0] = IF accepted[0] + 1 < 2 * (Size - 1) THEN "accept" ELSE "tell"]
  /\ UNCHANGED <<peer, data, bcasts, heard, barrierVars>>

\* Accepts a connection and reads its lines: the first of a rank is its data
\* connection, with the line of its port, the second is the barrier's.
RootAccepts ==
  /\ stage[0] = "accept" /\ backlog[0] # <<>>
  /\ LET c == Head(backlog[0])
     IN  IF fd[0][c.client] = None
         THEN /\ c.kind = "data"     \* else it waits for a line that does not come
              /\ fd' = [fd EXCEPT ![0][c.client] = c]
              /\ ports' = [ports EXCEPT ![0][c.client] = c.client]
              /\ UNCHANGED barrierFd
         ELSE barrierFd' = [barrierFd EXCEPT ![0][c.client] = c] /\ UNCHANGED <<fd, ports>>
  /\ backlog' = [backlog EXCEPT ![0] = Tail(@)]
  /\ accepted' = [accepted EXCEPT ![0] = @ + 1]
  /\ stage' = [stage EXCEPT ![0] = IF accepted[0] + 1 < 2 * (Size - 1) THEN "accept" ELSE "tell"]
  /\ UNCHANGED <<peer, data, bcasts, heard, barrierVars>>

\* Mutant: only the ranks that connect to i are told about i.
TellAboutLower ==
  /\ stage[0] = "tell"
  /\ data' = [s \in Members |->
                IF s \in Others /\ s < peer[0]
                THEN Append(data[s], PortLine(peer[0], ports[0][peer[0]])) ELSE data[s]]
  /\ peer' = [peer EXCEPT ![0] = @ + 1]
  /\ stage' = [stage EXCEPT ![0] = IF peer[0] < Size - 1 THEN "tell" ELSE "bcast"]
  /\ UNCHANGED <<backlog, fd, barrierFd, ports, accepted, bcasts, heard, barrierVars>>

\* Mutant: a rank is told about itself as well.
TellEveryone ==
  /\ stage[0] = "tell"
  /\ data' = [s \in Members |->
                IF s \in Others
                THEN Append(data[s], PortLine(peer[0], ports[0][peer[0]])) ELSE data[s]]
  /\ peer' = [peer EXCEPT ![0] = @ + 1]
  /\ stage' = [stage EXCEPT ![0] = IF peer[0] < Size - 1 THEN "tell" ELSE "bcast"]
  /\ UNCHANGED <<backlog, fd, barrierFd, ports, accepted, bcasts, heard, barrierVars>>

\* "disseminate port info": one round of the outer loop
TellAbout ==
  /\ stage[0] = "tell"
  /\ data' = [s \in Members |->
                IF s \in Others /\ s # peer[0]
                THEN Append(data[s], PortLine(peer[0], ports[0][peer[0]])) ELSE data[s]]
  /\ peer' = [peer EXCEPT ![0] = @ + 1]
  /\ stage' = [stage EXCEPT ![0] = IF peer[0] < Size - 1 THEN "tell" ELSE "bcast"]
  /\ UNCHANGED <<backlog, fd, barrierFd, ports, accepted, bcasts, heard, barrierVars>>

Bcast ==
  /\ stage[0] = "bcast"
  /\ data' = [s \in Members |->
                IF s \in Others THEN Append(data[s], BcastOf(Bcasts[bcasts[0] + 1])) ELSE data[s]]
  /\ bcasts' = [bcasts EXCEPT ![0] = @ + 1]
  /\ stage' = [stage EXCEPT ![0] = IF bcasts[0] + 1 < Len(Bcasts) THEN "bcast" ELSE "run"]
  /\ UNCHANGED <<backlog, fd, barrierFd, ports, accepted, peer, heard, barrierVars>>

-----------------------------------------------------------------------------
(* The barriers use the connections that have been set up.                 *)

RootBarrier ==
  /\ stage[0] = "run"
  /\ entered[0] > left[0] /\ next < Size => barrierFd[0][next] = Conn(next, 0, "barrier")
  /\ RootStep
  /\ UNCHANGED startVars

RankBarrierStep(r) ==
  /\ stage[r] = "run"
  /\ Arrive(r) \/ Leave(r)
  /\ UNCHANGED startVars

RankStep(r) ==
  \/ ConnectToRoot(r) \/ ConnectBarrier(r) \/ ReadPort(r) \/ AcceptPeer(r)
  \/ ConnectPeer(r) \/ HearBcast(r) \/ RankBarrierStep(r)
Root == RootAccepts \/ TellAbout \/ Bcast \/ RootBarrier

Next == Root \/ \E r \in Others : RankStep(r)

Spec == Init /\ [][Next]_allVars

\* Every process goes on as long as it can.
FairSpec == Spec /\ WF_allVars(Root) /\ \A r \in Others : WF_allVars(RankStep(r))

-----------------------------------------------------------------------------
(* Properties                                                              *)

Conns == [client : Members, server : Members, kind : {"data", "barrier"}]

\* Types; every connection is held in at most one place of a process.
TypeOK ==
  /\ BarrierTypeOK
  /\ stage \in [Members -> Stages]
  /\ backlog \in [Members -> Seq(Conns)]
  /\ \A r \in Members : Len(backlog[r]) <= Backlog
  /\ \A r, s \in Members : /\ fd[r][s] \in Conns \cup {None, Failed}
                          /\ barrierFd[r][s] \in Conns \cup {None}
                          /\ ports[r][s] \in -1 .. Size - 1
  /\ accepted \in [Members -> 0 .. 2 * (Size - 1)]
  /\ peer \in [Members -> 1 .. Size]
  /\ bcasts \in [Members -> 0 .. Len(Bcasts)]

Ready(r) == stage[r] \in {"bcast", "run"}

\* When two ranks have done dcmpisock_startup, the connection that each has in
\* rank_fds for the other is one and the same, opened by the one that should;
\* and the barrier connections of rank 0 are those the others use.  Meanwhile a
\* process has in each place a connection, a failed one or none (TypeOK).
MeshIsJoined ==
  /\ TypeOK
  /\ \A r, s \in Members :
       r < s /\ Ready(r) /\ Ready(s) =>
         /\ fd[r][s] = fd[s][r]
         /\ fd[r][s] = IF r = 0 THEN Conn(s, 0, "data") ELSE Conn(r, s, "data")
         /\ r = 0 => barrierFd[0][s] = barrierFd[s][0] /\ barrierFd[0][s].kind = "barrier"

\* What a rank reads as the header, the endianness and the layout is that, and
\* not one of the lines about ports that come before on the same connection.
BroadcastsAreHeardInOrder == \A r \in Others : IsPrefix(heard[r], Bcasts)

\* Every process gets through the startup, the broadcasts and the barriers.
AllGetThrough == <>(\A r \in Members : left[r] = Rounds)

=============================================================================

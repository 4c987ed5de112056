----------------------------- MODULE ClusterLinks -----------------------------
(***************************************************************************)
(* What the clusters of a job expect of the proxy between them: a link     *)
(* from every gateway to every other one that delivers packets in order,   *)
(* and tells a gateway that nothing more will come only when every other   *)
(* gateway has closed its links and all they carried has been delivered.   *)
(* A gateway that fails may take with it any end of what it has sent; the  *)
(* last packet of it may arrive cut.  Runtime takes its links from here.   *)
(***************************************************************************)
EXTENDS Sequences, FiniteSets, Naturals

CONSTANTS Gateways, Peers(_), Packets, IsCut(_)

VARIABLES
  link,      \* packets under way between every two gateways
  closed,    \* gateways that will send nothing more
  told,      \* gateways that know that nothing more will come
  failed

linkVars == <<link, closed, told, failed>>

LinksInit ==
  /\ link = [a \in Gateways |-> [b \in Gateways |-> <<>>]]
  /\ closed = {} /\ told = {} /\ failed = {}

Send(a, b) ==
  /\ a \notin closed \cup failed
  /\ \E p \in Packets : ~IsCut(p) /\ link' = [link EXCEPT ![a][b] = Append(@, p)]
  /\ UNCHANGED <<closed, told, failed>>

Receive(a, b) ==
  /\ link[a][b] # <<>> /\ b \notin told
  /\ link' = [link EXCEPT ![a][b] = Tail(@)]
  /\ UNCHANGED <<closed, told, failed>>

Close(a) ==
  /\ closed' = closed \cup {a}
  /\ UNCHANGED <<link, told, failed>>

Tell(b) ==
  /\ \A a \in Peers(b) : a \in closed /\ link[a][b] = <<>>
  /\ told' = told \cup {b}
  /\ UNCHANGED <<link, closed, failed>>

\* what arrives of a failed gateway is a beginning of what it has sent, or all
\* of it and then a cut packet; what had come as far as its host is gone
Fail(a) ==
  /\ failed' = failed \cup {a}
  /\ link' \in [Gateways -> [Gateways -> Seq(Packets)]]
  /\ \A x, b \in Gateways :
       \/ link'[x][b] = link[x][b]
       \/ x = a /\ \E n \in 0 .. Len(link[x][b]) : link'[x][b] = SubSeq(link[x][b], 1, n)
       \/ x = a /\ \E p \in Packets : IsCut(p) /\ link'[x][b] = Append(link[x][b], p)
       \/ b = a /\ \E n \in 0 .. Len(link[x][b]) :
                     link'[x][b] = SubSeq(link[x][b], n + 1, Len(link[x][b]))
  /\ UNCHANGED <<closed, told>>

\* nothing is kept for a gateway that has failed
Discard(a, b) ==
  /\ b \in failed
  /\ link[a][b] # <<>>
  /\ link' = [link EXCEPT ![a][b] = Tail(@)]
  /\ UNCHANGED <<closed, told, failed>>

LinksNext ==
  \/ \E a \in Gateways : Close(a) \/ Tell(a) \/ Fail(a)
  \/ \E a \in Gateways : \E b \in Peers(a) : Send(a, b) \/ Receive(a, b) \/ Discard(a, b)

Links == LinksInit /\ [][LinksNext]_linkVars

=============================================================================

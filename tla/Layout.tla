------------------------------- MODULE Layout -------------------------------
(***************************************************************************)
(* What DCLayout makes of the layout a program describes, before any       *)
(* process runs: transparent filters are expanded into their copies,       *)
(* composite filters into the layouts they are made of, and every instance *)
(* that is left is placed on a host, which decides its rank, its cluster   *)
(* and its gftid.                                                          *)
(*                                                                         *)
(* An instance is named by its place in inst, the order in which instances *)
(* are allocated.  A filter has one out-port: the expansions handle every  *)
(* port on its own.  A host is a number, in the order of the names, which  *)
(* is the order of the std::sets of do_placement.                          *)
(***************************************************************************)
EXTENDS Integers, FiniteSets, SequencesExt

CONSTANTS
  Names,         \* distinguished names of the program's filter instances, a sequence
  ConsoleName,   \* the one whose filtername is "<console>"
  Composites,    \* name -> what its get_composite_layout returns; "binds" of a
                 \* member are the lists of hosts it may bind it to
  Wires,         \* pairs of instances the program may connect
  Pools,         \* exec_host_pool: the pools to choose from
  BindTargets,   \* hosts a program may bind to
  UserLabels,    \* labels a program may give
  Local,         \* hosts that resemble localhost
  RemoteEntry,   \* entry of remote_clusters that matches a host, 0: none
  MaxCopies,     \* bound: copies asked for
  MaxConnects,   \* bound: calls of add_port
  MaxCalls       \* bound: calls that configure an instance

NoHost      == -2     \* the empty string in bind_hosts
ConsoleHost == -1     \* "<console>"
Localhost   == 0

ASSUME LayoutAssumption ==
  /\ Localhost \in Local /\ NoHost \notin BindTargets /\ ConsoleHost \notin BindTargets
  /\ Wires \subseteq (DOMAIN Names) \X (DOMAIN Names)
  /\ \A h \in Local : RemoteEntry[h] = 0
  /\ \A c \in DOMAIN Composites : \A m \in DOMAIN Composites[c].members :
       LET binds == Composites[c].members[m].binds
       IN  binds # {} /\ \A b, d \in binds : Len(b) = Len(d)

VARIABLES
  phase,       \* where the call is that the program has made
  inst,        \* every DCFilterInstance
  order,       \* filter_instances
  wires,       \* history: how often the program has made each connection
  calls,       \* history: calls that have configured each instance
  pool,        \* exec_host_pool
  placed,      \* what do_placement says of order[i]; the gftid is i - 1
  runHosts,    \* run_hosts_no_console; run_hosts has "<console>" before it
  rankOf,      \* host_dcmpirank
  commands,    \* mpi_run_commands, one per cluster
  executions   \* bound: the program executes twice

apiVars    == <<wires, calls, pool>>
placeVars  == <<placed, runHosts, rankOf>>
vars == <<phase, inst, order, apiVars, placeVars, commands, executions>>

Stopped == {"exit", "aborted", "undefined"}
Phases  == {"build", "transparent", "composite", "transparent2", "place",
            "commands", "launch", "run", "returned"} \cup Stopped

\* path is a history: the copies this instance is made of, outermost first.
Fresh(path, bind) ==
  [path |-> path, copies |-> IF bind = <<>> THEN 1 ELSE Len(bind), expanded |-> FALSE,
   bind |-> bind, outs |-> <<>>,
   labels |-> IF NoHost \in ToSet(bind) THEN <<>> ELSE [k \in DOMAIN bind |-> <<bind[k]>>]]

NameOf(i)  == Last(inst[i].path).name
\* get_distinguished_name: the heritage knows names, not copies
Distinguished(i) == [k \in DOMAIN inst[i].path |-> inst[i].path[k].name]
IsConsole(i)     == NameOf(i) = ConsoleName
IsComposite(i)   == NameOf(i) \in DOMAIN Composites

Init ==
  /\ phase = "build" /\ order = <<>> /\ wires = [w \in Wires |-> 0] /\ executions = 0
  /\ inst = [i \in DOMAIN Names |-> Fresh(<<[name |-> Names[i], copy |-> 0]>>, <<>>)]
  /\ calls = [i \in DOMAIN Names |-> 0]
  /\ pool \in Pools
  /\ placed = <<>> /\ runHosts = <<>> /\ commands = <<>>
  /\ rankOf = [h \in {} |-> 0]

-----------------------------------------------------------------------------
(* Describing the layout                                                   *)

Add(i) ==
  /\ phase = "build"
  /\ IF i \in ToSet(order)
     THEN phase' = "exit" /\ UNCHANGED order
     ELSE order' = Append(order, i) /\ UNCHANGED phase
  /\ UNCHANGED <<inst, apiVars, placeVars, commands, executions>>

AddPort(w) ==
  /\ phase = "build" /\ FoldFunction(+, 0, wires) < MaxConnects
  /\ wires' = [wires EXCEPT ![w] = @ + 1]
  /\ inst' = [inst EXCEPT ![w[1]].outs = Append(@, w[2])]
  /\ UNCHANGED <<phase, order, calls, pool, placeVars, commands, executions>>

\* One call that configures instance i, and the instance it leaves.
Configure(i, end, new) ==
  /\ phase = "build" /\ FoldFunction(+, 0, calls) < MaxCalls
  /\ calls' = [calls EXCEPT ![i] = @ + 1]
  /\ phase' = end
  /\ inst' = [inst EXCEPT ![i] = new]
  /\ UNCHANGED <<order, wires, pool, placeVars, commands, executions>>

WithLabel(labels, l) ==
  IF labels = <<>> THEN <<<<l>>>> ELSE [labels EXCEPT ![1] = Append(@, l)]
WithLabels(labels, ls) ==
  [k \in 1 .. (IF labels = <<>> THEN Len(ls) ELSE Len(labels)) |->
     (IF labels = <<>> THEN <<>> ELSE labels[k]) \o (IF k <= Len(ls) THEN <<ls[k]>> ELSE <<>>)]

\* host_bind_internal
BindToHost(i, h) ==
  Configure(i, "build", [inst[i] EXCEPT !.bind = <<h>>, !.copies = 1,
                                        !.labels = WithLabel(@, h)])

\* add_labels_to_transparents indexes layout_labels by the new labels: with
\* fewer lists than labels it writes past the end.
GiveLabels(i, d, ls) ==
  IF d.copies < 2 \/ Len(ls) # d.copies THEN Configure(i, "exit", d)
  ELSE IF d.labels # <<>> /\ Len(d.labels) < Len(ls) THEN Configure(i, "undefined", d)
  ELSE Configure(i, "build", [d EXCEPT !.labels = WithLabels(@, ls)])

BindToHosts(i, hs) ==
  GiveLabels(i, [inst[i] EXCEPT !.bind = hs, !.copies = Len(hs)], hs)

AddLabelsToTransparents(i, ls) == GiveLabels(i, inst[i], ls)

AddLabel(i, l) ==
  IF inst[i].copies > 2 THEN Configure(i, "exit", inst[i])
  ELSE Configure(i, "build", [inst[i] EXCEPT !.labels = WithLabel(@, l)])

MakeTransparent(i, n) ==
  IF IsConsole(i) \/ n <= 0 THEN Configure(i, "exit", inst[i])
  ELSE Configure(i, "build", [inst[i] EXCEPT !.bind = @ \o [k \in 1 .. n |-> NoHost],
                                             !.copies = Len(inst[i].bind) + n])

-----------------------------------------------------------------------------
(* execute1: the expansions                                                *)

Dangling == \E i \in ToSet(order) : ToSet(inst[i].outs) \ ToSet(order) # {}

\* A second execution finds the instances the first has expanded, which
\* execute3 has deleted.
Execute ==
  /\ phase \in {"build", "returned"} /\ executions < 2 /\ order # <<>>
  /\ executions' = executions + 1
  /\ phase' = IF Len(inst) > Len(Names) THEN "undefined"
              ELSE IF Dangling THEN "exit" ELSE "transparent"
  /\ UNCHANGED <<inst, order, apiVars, placeVars, commands>>

First(S) == CHOOSE u \in S : \A v \in S : u <= v
Unexpanded == {u \in DOMAIN order : inst[order[u]].copies > 1 /\ ~inst[order[u]].expanded}
CompositesLeft == {u \in DOMAIN order : IsComposite(order[u])}

\* Mutant: every copy keeps all the hosts.
CopyOfAllHosts(x, k) ==
  LET i == inst[x]
  IN  [i EXCEPT !.expanded = TRUE,
                !.labels = IF @ = <<>> THEN <<>>
                           ELSE <<@[IF k + 1 <= Len(@) THEN k + 1 ELSE 1]>>,
                !.path[Len(i.path)].copy = k]

\* Copy k of instance x, k = 0 the instance itself: its own host, its own
\* list of labels (the first one when there are not enough), and the
\* connections x had.
CopyOf(x, k) ==
  LET i == inst[x]
  IN  [i EXCEPT !.expanded = TRUE, !.bind = <<i.bind[k + 1]>>,
                !.labels = IF @ = <<>> THEN <<>>
                           ELSE <<@[IF k + 1 <= Len(@) THEN k + 1 ELSE 1]>>,
                !.path[Len(i.path)].copy = k]

\* Mutant: a port that points at the expanded filter is looked at once.
MultiplyOnce(outs, x, new) == IF x \in ToSet(outs) THEN outs \o new ELSE outs

\* new_mappings: one more connection to every new copy, for each connection
\* to x, after the connections there are.
Multiply(outs, x, new) ==
  FoldLeft(LAMBDA s, y : IF y = x THEN s \o new ELSE s, outs, outs)

ExpandTransparent ==
  /\ phase \in {"transparent", "transparent2"} /\ Unexpanded # {}
  /\ LET u   == First(Unexpanded)
         x   == order[u]
         n   == inst[x].copies
         new == [k \in 1 .. n - 1 |-> Len(inst) + k]
     IN  IF Len(inst[x].bind) # n THEN phase' = "aborted" /\ UNCHANGED <<inst, order>>
         ELSE /\ UNCHANGED phase
              /\ inst' = [i \in 1 .. Len(inst) + n - 1 |->
                            IF i > Len(inst) THEN CopyOf(x, i - Len(inst))
                            ELSE LET kept == IF i = x THEN CopyOf(x, 0) ELSE inst[i]
                                 IN  IF i \in ToSet(order)
                                     THEN [kept EXCEPT !.outs = Multiply(@, x, new)]
                                     ELSE kept]
              /\ order' = SubSeq(order, 1, u - 1) \o new \o SubSeq(order, u, Len(order))
  /\ UNCHANGED <<apiVars, placeVars, commands, executions>>

\* A member keeps its own bind_hosts, or takes those of the composite.
Inherit(own, outer) == IF own = <<>> THEN outer ELSE own

Flagged(c, flag) == {m \in DOMAIN c.members : c.members[m][flag]}

\* the hosts that one call of get_composite_layout binds the members to
Bindings(c) ==
  {hosts \in [DOMAIN c.members -> UNION {c.members[m].binds : m \in DOMAIN c.members}] :
     \A m \in DOMAIN c.members : hosts[m] \in c.members[m].binds}

\* The member, with the connections of its own layout and, when it is the
\* outbound designate, those of the composite.
MemberOf(x, m, hosts, outs) ==
  LET c    == Composites[NameOf(x)]
      base == Len(inst)
      own  == SetToSortSeq({k \in DOMAIN c.members : <<m, k>> \in c.conns}, <)
      path == Append(inst[x].path, [name |-> c.members[m].name, copy |-> 0])
  IN  [Fresh(path, hosts) EXCEPT
         !.bind = Inherit(@, inst[x].bind),
         !.outs = [k \in DOMAIN own |-> base + own[k]] \o
                  (IF m \in Flagged(c, "out") THEN outs ELSE <<>>)]

ExpandComposite ==
  /\ phase = "composite" /\ CompositesLeft # {}
  /\ LET x == order[First(CompositesLeft)]
         c == Composites[NameOf(x)]
         members == [m \in DOMAIN c.members |-> Len(inst) + m]
         inbound == Len(inst) + First(Flagged(c, "in"))
         Redirected(outs) == ReplaceAll(outs, x, inbound)
     IN  IF Cardinality(Flagged(c, "in")) # 1 \/ Cardinality(Flagged(c, "out")) # 1
         THEN phase' = "exit" /\ UNCHANGED <<inst, order>>
         ELSE IF /\ inst[x].outs # <<>>
                 /\ \E m \in Flagged(c, "out"), k \in DOMAIN c.members : <<m, k>> \in c.conns
         THEN phase' = "aborted" /\ UNCHANGED <<inst, order>>
         ELSE /\ UNCHANGED phase
              /\ \E hosts \in Bindings(c) :
                   inst' = [i \in 1 .. Len(inst) + Len(members) |->
                     IF i > Len(inst)
                     THEN MemberOf(x, i - Len(inst), hosts[i - Len(inst)], Redirected(inst[x].outs))
                     ELSE IF i \in ToSet(order)
                     THEN [inst[i] EXCEPT !.outs = Redirected(@)] ELSE inst[i]]
              /\ order' = Remove(order, x) \o members
  /\ UNCHANGED <<apiVars, placeVars, commands, executions>>

\* Mutant: members are not expanded.
ExpandedOnce ==
  /\ \/ phase \in {"transparent", "transparent2"} /\ Unexpanded = {}
     \/ phase = "composite" /\ CompositesLeft = {}
  /\ phase' = CASE phase = "transparent"  -> "composite"
                [] phase = "composite"    -> "place"
                [] phase = "transparent2" -> "place"
  /\ UNCHANGED <<inst, order, apiVars, placeVars, commands, executions>>

\* the loops that find nothing more to expand
Expanded ==
  /\ \/ phase \in {"transparent", "transparent2"} /\ Unexpanded = {}
     \/ phase = "composite" /\ CompositesLeft = {}
  /\ phase' = CASE phase = "transparent"  -> "composite"
                [] phase = "composite"    -> "transparent2"
                [] phase = "transparent2" -> "place"
  /\ UNCHANGED <<inst, order, apiVars, placeVars, commands, executions>>

-----------------------------------------------------------------------------
(* execute1: do_placement                                                  *)

IsBound(i) == inst[i].bind # <<>> /\ inst[i].bind[1] # NoHost
FromPool(u) == ~IsBound(order[u]) /\ ~IsConsole(order[u])

Normal(h) == IF h \in Local THEN Localhost ELSE h

\* bind_hosts, the console's symbolic host, or the next host of the ring
GivenHost(u) ==
  IF IsBound(order[u]) THEN inst[order[u]].bind[1]
  ELSE IF IsConsole(order[u]) THEN ConsoleHost
  ELSE pool[1 + (Cardinality({v \in 1 .. u - 1 : FromPool(v)}) % Len(pool))]

HostAt(u) == Normal(GivenHost(u))

Same(u, v) == HostAt(u) = HostAt(v) /\ Distinguished(order[u]) = Distinguished(order[v])

\* Mutant: counted by the host that was given.
LocalRankByGiven(u) ==
  Cardinality({v \in 1 .. u - 1 : GivenHost(u) = GivenHost(v) /\ Same(u, v)})

\* local_copy_rank: host_to_placed_filter_counts when order[u] is placed
LocalRank(u) == Cardinality({v \in 1 .. u - 1 : Same(u, v)})

\* localhost, then the hosts taken from the pool, then those bound to
HostsToRun ==
  LET taken == {GivenHost(u) : u \in {v \in DOMAIN order : FromPool(v)}} \ Local
      bound == {GivenHost(u) : u \in {v \in DOMAIN order : IsBound(order[v])}} \ Local
  IN  <<Localhost>> \o SetToSortSeq(taken, <) \o SetToSortSeq(bound \ taken, <)

\* host_dcmpirank of the hosts in hs; operator[] of a host that is not there is 0
RanksOf(hs) ==
  [h \in ToSet(hs) \cup {ConsoleHost} |->
     IF h = ConsoleHost THEN -1 ELSE First({k \in DOMAIN hs : hs[k] = h}) - 1]
RankIn(ranks, h) == IF h \in DOMAIN ranks THEN ranks[h] ELSE 0

Place ==
  /\ phase = "place"
  /\ IF pool = <<>> /\ \E u \in DOMAIN order : FromPool(u)
     THEN phase' = "exit" /\ UNCHANGED placeVars
     ELSE IF \/ runHosts # <<>>
             \/ \E i \in ToSet(order) : \/ IsBound(i) /\ Len(inst[i].bind) # 1
                                        \/ Len(inst[i].labels) > 1
     THEN phase' = "aborted" /\ UNCHANGED placeVars
     ELSE /\ phase' = "commands"
          /\ runHosts' = HostsToRun
          /\ rankOf' = RanksOf(HostsToRun)
          /\ placed' = [u \in DOMAIN order |->
               [host |-> HostAt(u), rank |-> RankIn(RanksOf(HostsToRun), HostAt(u)),
                cluster |-> 0, local |-> LocalRank(u),
                locals |-> Cardinality({v \in DOMAIN order : Same(u, v)})]]
  /\ UNCHANGED <<inst, order, apiVars, commands, executions>>

-----------------------------------------------------------------------------
(* execute2: mpi_build_run_commands and the console's connections          *)

Entry(k) == RemoteEntry[runHosts[k]]

\* id of the remote cluster of the k-th host: entries get theirs in the order
\* in which they first match
ClusterAt(k) ==
  IF Entry(k) = 0 THEN 0
  ELSE Cardinality({Entry(j) : j \in {i \in DOMAIN runHosts :
                      i <= First({m \in DOMAIN runHosts : Entry(m) = Entry(k)})}} \ {0})
ClusterIds == {ClusterAt(k) : k \in DOMAIN runHosts}

Members(c) ==
  LET ks == SetToSortSeq({k \in DOMAIN runHosts : ClusterAt(k) = c}, <)
  IN  [i \in DOMAIN ks |-> runHosts[ks[i]]]

\* Mutant: the ranks of do_placement stay.
RenumberedNot == runHosts

\* dcmpi_rank: non_remote_hosts first, then cluster after cluster
Renumbered == FlattenSeq([c \in 1 .. Cardinality(ClusterIds) |-> Members(c - 1)])

Offset(c) == Cardinality({k \in DOMAIN runHosts : ClusterAt(k) < c})

BuildRunCommands ==
  /\ phase = "commands"
  /\ phase' = "launch"
  /\ rankOf' = RanksOf(Renumbered)
  /\ placed' = [u \in DOMAIN placed |->
       [placed[u] EXCEPT
          !.rank = RankIn(RanksOf(Renumbered), placed[u].host),
          !.cluster = IF placed[u].host \in ToSet(runHosts)
                      THEN ClusterAt(First({k \in DOMAIN runHosts : runHosts[k] = placed[u].host}))
                      ELSE 0]]
  /\ commands' = [c \in 1 .. Cardinality(ClusterIds) |->
                    [cluster |-> c - 1, offset |-> Offset(c - 1), hosts |-> Members(c - 1)]]
  /\ UNCHANGED <<inst, order, apiVars, runHosts, executions>>

\* The console's connections: it must not be connected to itself.
Launch ==
  /\ phase = "launch"
  /\ phase' = IF \E i \in ToSet(order) : IsConsole(i) /\ i \in ToSet(inst[i].outs)
              THEN "aborted" ELSE "run"
  /\ UNCHANGED <<inst, order, apiVars, placeVars, commands, executions>>

\* execute3: the clusters its ALL_MY_FILTERS_DONE packets are addressed to
RankCluster(r) ==
  LET on == {u \in DOMAIN placed : placed[u].rank = r}
  IN  IF on = {} THEN 0 ELSE placed[First(on)].cluster

Return ==
  /\ phase = "run"
  /\ phase' = "returned"
  /\ UNCHANGED <<inst, order, apiVars, placeVars, commands, executions>>

-----------------------------------------------------------------------------
Describe ==
  \/ \E i \in DOMAIN Names : Add(i)
  \/ \E w \in Wires : AddPort(w)
  \/ \E i \in DOMAIN Names \ {j \in DOMAIN Names : Names[j] = ConsoleName}, h \in BindTargets :
       BindToHost(i, h)
  \/ \E i \in DOMAIN Names \ {j \in DOMAIN Names : Names[j] = ConsoleName} :
       \E n \in 2 .. MaxCopies : \E hs \in [1 .. n -> BindTargets] : BindToHosts(i, hs)
  \/ \E i \in DOMAIN Names, n \in 0 .. MaxCopies : MakeTransparent(i, n)
  \/ \E i \in DOMAIN Names, l \in UserLabels : AddLabel(i, l)
  \/ \E i \in DOMAIN Names : \E n \in 1 .. MaxCopies : \E ls \in [1 .. n -> UserLabels] :
       AddLabelsToTransparents(i, ls)

Next == Describe \/ Execute \/ ExpandTransparent \/ ExpandComposite \/ Expanded
        \/ Place \/ BuildRunCommands \/ Launch \/ Return

Spec == Init /\ [][Next]_vars

-----------------------------------------------------------------------------
(* Properties                                                              *)

IsPlaced == phase \in {"commands", "launch", "run", "returned"}
HasCommands == phase \in {"launch", "run", "returned"}

\* Types of the state; a local copy rank is below the local number of copies.
TypeOK ==
  /\ phase \in Phases
  /\ ToSet(order) \subseteq DOMAIN inst /\ Cardinality(ToSet(order)) = Len(order)
  /\ \A i \in DOMAIN inst : /\ ToSet(inst[i].outs) \subseteq DOMAIN inst
                             /\ inst[i].copies >= 1 /\ inst[i].expanded \in BOOLEAN
  /\ \A u \in DOMAIN placed : /\ placed[u].rank \in -1 .. Len(runHosts) - 1
                              /\ placed[u].local \in 0 .. placed[u].locals - 1
  /\ executions \in 0 .. 2

\* Is there a connection, among those of the layout that path p has at level
\* k, from p's filter to q's?  And do p and q stand for the ends of it: the
\* outbound designates of composites all the way in, and the inbound ones?
LevelWires(p, q, k) ==
  IF k = 0
  THEN FoldFunctionOnSet(+, 0, wires, {w \in Wires : /\ Names[w[1]] = p[1].name
                                                      /\ Names[w[2]] = q[1].name})
  ELSE LET c == Composites[p[k].name]
       IN  Cardinality({w \in c.conns : /\ c.members[w[1]].name = p[k + 1].name
                                        /\ c.members[w[2]].name = q[k + 1].name})
Stands(p, k, flag) ==
  \A j \in k + 1 .. Len(p) - 1 :
     \E m \in Flagged(Composites[p[j].name], flag) :
        Composites[p[j].name].members[m].name = p[j + 1].name

Expects(p, q) ==
  LET levels == {k \in 0 .. Len(p) - 1 :
                   /\ k < Len(q) /\ SubSeq(p, 1, k) = SubSeq(q, 1, k)
                   /\ Stands(p, k, "out") /\ Stands(q, k, "in")
                   /\ p[k + 1].name = q[k + 1].name => p[k + 1].copy = 0 \/ q[k + 1].copy = 0}
  IN  FoldSet(LAMBDA k, n : n + LevelWires(p, q, k), 0, levels)

\* When filters have been expanded, every copy of a filter is connected to
\* every copy of the filters its original was connected to, once for each
\* call of add_port, through the designates of composites, and to nothing
\* else; in particular to no instance that has been replaced.  A filter
\* connected to itself is the exception: the copies that are made of it know
\* only the original (expand_transparents, expand_composites).
ConnectionsAreComplete ==
  phase = "place" =>
    \A i \in ToSet(order) :
      /\ ToSet(inst[i].outs) \subseteq ToSet(order)
      /\ \A j \in ToSet(order) :
           Cardinality({n \in DOMAIN inst[i].outs : inst[i].outs[n] = j})
             = Expects(inst[i].path, inst[j].path)

\* All the copies of a filter exist, in every copy of the composite that it
\* is a member of.  A composite inside a composite is the exception: it is
\* replaced by one copy of its members before it could be expanded.
CopiesAreMade ==
  phase = "place" =>
    \A i \in ToSet(order) : \A k \in DOMAIN inst[i].path :
      LET p     == inst[i].path
          twin(c) == [SubSeq(p, 1, k) EXCEPT ![k].copy = c]
          like  == {inst[j].path[k].copy : j \in
                      {h \in ToSet(order) : /\ Len(inst[h].path) >= k
                                            /\ \E c \in 0 .. Len(inst) :
                                                 SubSeq(inst[h].path, 1, k) = twin(c)}}
          asked == IF k = 1
                   THEN inst[CHOOSE n \in DOMAIN Names : Names[n] = p[1].name].copies
                   ELSE LET c == Composites[p[k - 1].name]
                            m == CHOOSE n \in DOMAIN c.members : c.members[n].name = p[k].name
                            n == Len(CHOOSE hosts \in c.members[m].binds : TRUE)
                        IN  IF c.members[m].name \in DOMAIN Composites \/ n = 0 THEN 1 ELSE n
      IN  like = 0 .. asked - 1

\* A copy that bind_to_hosts put on a host answers to the label of that host;
\* and on each host, under whatever names it was given, the copies of one filter
\* have the local copy ranks 0 .. n - 1, one each, and n is what they are told.
CopiesKnowTheirHost ==
  IsPlaced =>
    /\ \A i \in ToSet(order) :
         Len(inst[i].path) = 1 /\ IsBound(i) => inst[i].bind[1] \in ToSet(Last(inst[i].labels))
    /\ \A u \in DOMAIN placed :
         LET same == {v \in DOMAIN placed : /\ placed[v].host = placed[u].host
                                            /\ Distinguished(order[v]) = Distinguished(order[u])}
         IN  /\ placed[u].locals = Cardinality(same)
             /\ {placed[v].local : v \in same} = 0 .. Cardinality(same) - 1

HostOfRank(r) == First({k \in DOMAIN runHosts : rankOf[runHosts[k]] = r})
RunRanks == 0 .. Len(runHosts) - 1

\* What the runtime takes for granted of a job's ranks (the assumptions of
\* module Runtime): rank 0 is localhost, the ranks number the hosts cluster
\* after cluster, a cluster's offset is its first rank, every rank but 0 has a
\* filter, and the ALL_MY_FILTERS_DONE packets that execute3 sends to every
\* rank name the rank's cluster, although it knows clusters of filters only.
RuntimeAssumptions ==
  HasCommands =>
    LET ClusterOf(r) == ClusterAt(HostOfRank(r))
    IN  /\ {rankOf[runHosts[k]] : k \in DOMAIN runHosts} = RunRanks
        /\ rankOf[Localhost] = 0 /\ ClusterOf(0) = 0
        /\ \A r, s \in RunRanks : r <= s => ClusterOf(r) <= ClusterOf(s)
        /\ \A n \in DOMAIN commands : ClusterOf(commands[n].offset) = commands[n].cluster
        /\ \A r \in RunRanks : commands[ClusterOf(r) + 1].offset <= r
        /\ \A r \in RunRanks \ {0} : \E u \in DOMAIN placed : placed[u].rank = r
        /\ \A u \in DOMAIN placed : placed[u].host # ConsoleHost =>
             /\ placed[u].host = runHosts[HostOfRank(placed[u].rank)]
             /\ placed[u].cluster = ClusterOf(placed[u].rank)
        /\ \A r \in RunRanks : RankCluster(r) = ClusterOf(r)

\* A composite inside a composite is not expanded into copies, but its members
\* inherit all the hosts it is bound to, as if each were made for one host
\* ("at this point every bind_hosts list should be of size 0 or 1",
\* DCLayout.cpp:1053).
InheritsSeveral ==
  \E i \in ToSet(order) :
    Len(inst[i].path) > 2 /\ inst[i].copies = 1 /\ IsBound(i) /\ Len(inst[i].bind) > 1

\* The assertions of do_placement and execute2 stop no program that
\* configures each instance at most once, does not connect the console to
\* itself, executes once and binds no composite inside a composite to several
\* hosts, which stops every program; nor is memory touched that is not there,
\* and the graph, the copies and the ranks are what their types say.
AssertionsHold ==
  /\ TypeOK
  /\ IsPlaced => ~InheritsSeveral
  /\ phase \in {"aborted", "undefined"} =>
       \/ executions = 2
       \/ InheritsSeveral
       \/ \E i \in DOMAIN Names : calls[i] > 1
       \/ \E w \in Wires : wires[w] > 0 /\ w[1] = w[2] /\ Names[w[1]] = ConsoleName

=============================================================================

# A verification project for dcmpi

dcmpi (DataCutter on MPI) runs jobs made of *filters*: threads that read
buffers from in-ports and write buffers to out-ports, spread over the processes
of one or several clusters, with an optional *console filter* in the process
that started the job. The modules in this directory specify the parts of that
system in which several threads, processes or messages interact; TLC checks
them on small jobs, and TLAPS proves what matters most for every job.

Paths below are relative to the root of the repository; line numbers of every
definition are in `PROJECT.json` under `map`.

## 1. Inventory

| part | source | state | operations | what makes it correct |
|---|---|---|---|---|
| MPI runtime | `src/src/dcmpiruntime.cpp`, `dcmpiruntime-util.{h,cpp}` | `single_mpi_outqueue`, pending Isends, `mpi_recv_info` per rank, done counters, `unfinished_local_gftids` | the segments of the main loop, `deliver_in`, `deliver_elsewhere`, `DCFilterThread::run` | streams arrive complete and in order; every rank stays as long as it is needed and then leaves; memory accounts balance |
| Console bridge | `ConsoleToMPIThread.h`, `MPIFromConsoleThread.h`, `MPIToConsoleThread.h`, `ConsoleFromMPIThread.h`, `DCLayout::execute1..3` | the queues on both sides, CLOSE | one packet per turn in each direction | same streams, same accounts, closed last |
| Socket runtime | `dcmpiruntime-socket.cpp` | the same plus `rank_fds`, `heads_without_bodies`, the thread `outq_handler` | blocking header and body writes from two threads, reads that may wait for memory | packets stay whole; nothing comes after the end |
| Socket start-up and barrier | `dcmpisock_startup`, `socket_bcast`, `socket_barrier` in `dcmpiruntime-socket.cpp` | `rank_fds`, `rank_ports`, barrier connections, backlogs of the listening sockets | two connections to rank 0, lines about ports, one connection for each pair of the others, broadcasts, rounds of the barrier | both ends of a connection agree whose it is; lines and broadcasts are not taken for each other; nobody leaves a barrier early; all get through |
| Proxy | `src/src/dcmpiproxy`, `ProxyWriter` and the proxy segments of the main loop | a queue per cookie and cluster, `memusage`, users per cookie, `cookie_mutex` | in and out thread per gateway, "bye", the error path | packets in order and before the "bye", memory bounded and given back, a cookie's queues live as long as its threads, ends with its job |
| In-ports | `Queue.h`, `DCFilterExecutor.cpp`, `DCFilter.cpp` | queue and putters per port | `read`, `read_nonblocking`, `read_until_upstream_exit`, `readany`, `any_upstream_running` | no lost wake-up; the end of an input is told neither early nor never |
| Out-ports | `MultiOutportManager.cpp`, `DCFilterExecutor.cpp` | round robin, position per label, last ticket | round robin, random, label, ticket, broadcast | even distribution whatever is mixed |
| Memory budgets | `MemUsage.{h,cpp}` | `current_usage`, `memory_threshold` | `accumulate`, `accumulate_if_not_exceeding_limit`, `reduce` | never beyond the threshold, never negative, no waiter forgotten |
| Layout | `DCLayout.cpp`, `DCFilterInstance.cpp` | graph of filter instances, `run_hosts`, ranks, commands | the calls that describe a layout, `expand_transparents`, `expand_composites`, `do_placement`, `mpi_build_run_commands`, `execute` | expansion keeps the connections and makes all copies; copies are numbered by host; ranks as the runtime assumes |
| Buffers, packets | `DCBuffer.cpp`, `DCMPIPacket.h` | bytes | append, extract, to and from bytes | round trips, endianness |
| Registry, threads, utilities, tools, bindings, extensions | see `PROJECT.json` | | | I/O and glue |

**How they interact.** A filter's write charges the filter's `MemUsage`, asks
the `MultiOutportManager` for a target and hands the buffer to a
`LocalQueueWriter` (the reader's `Queue`) or a `RemoteQueueWriter` (a packet in
the rank's out-queue, or directly in the queue to the console or to the proxy).
The main loop takes packets off the out-queue, off MPI, off the console bridge
and off the proxy, and puts each into an in-port (`deliver_in`) or passes it on
(`deliver_elsewhere`). At every hop the buffer changes the budget it is charged
to. When the filters of a rank have finished and its out-queue is empty, it
sends ALL_MY_FILTERS_DONE to every other node of the job; it leaves when it has
had as many such packets as there are other nodes, and has routed as many as it
computed beforehand from the shape of the job.

Before any of this, `DCLayout::execute` expands the layout a program describes,
places the instances on hosts and hands out ranks, clusters and offsets: what
the runtime takes for granted of a job. The processes of the socket runtime find
each other (`dcmpisock_startup`), hear the layout from rank 0 and meet in a
barrier. Packets between clusters go from the gateway's `ProxyWriter` to an
in-thread of the proxy, through a queue to the out-thread of the other gateway,
and into that gateway's main loop.

**What is hard.** Filters, bridge threads and the main loop interleave; the
end of a rank, of a stream and of the bridge are packets that must not overtake
data; memory that is full stops one channel and with it what is behind; the two
ways of charging a budget compete; the end of an input is found out with two
separate looks; the socket runtime has two writers per connection; processes
connect to each other in any order while others accept; the threads of the proxy
share one mutex and one memory counter over all jobs, and a gateway may die;
expansions of a layout change the list they run over. `hazards` in
`PROJECT.json` lists each one at its line.

## 2. Modules

| module | models | composed of |
|---|---|---|
| `Runtime` | MPI runtime, console bridge, links through the proxy, in-ports as FIFO queues, memory in units of buffers | instantiates `JobTermination` |
| `JobTermination` | the abstract end of a job: a rank leaves only when no filter of any rank runs | |
| `PortQueue` | the in-ports of one filter with every step between two locks | |
| `MemUsage` | one budget, in bytes, with its waiters and pollers | |
| `MultiOutport` | one out-port and its target selection | |
| `SocketRuntime` | main loop, `outq_handler` and connections of the socket runtime, one cluster | |
| `SocketStartup` | start-up mesh and broadcasts of the socket runtime | extends `SocketBarrier` |
| `SocketBarrier` | `socket_barrier`, byte by byte | instantiates `RankBarrier` |
| `RankBarrier` | the abstract barrier: nobody leaves a round that somebody has not entered | |
| `Proxy` | the threads of `dcmpiproxy` and the gateways that use them | instantiates `ClusterLinks` |
| `ClusterLinks` | what the clusters of a job expect of the proxy: an ordered link for every two gateways, closed last | |
| `Layout` | a layout from its description to the launch of its processes | |
| `*_proofs` | theorems about the module of that name; `RuntimeMemory_proofs` goes on from `Runtime_proofs`, `SocketStartup_proofs` has those about `SocketBarrier` too | extends it and TLAPS |
| `MC*` | the small jobs and inputs of the runs | extends it |

`Runtime` is where the parts meet. `PortQueue` and `MemUsage` look into two
operations that are one step there: `FilterRead`/`FilterReturn` stand for
`PortQueue`'s reads, and `HasRoom`, `Release`, `ChargeBody`, `CanPay` for
`MemUsage`.

### Runtime

Nodes are the ranks `0 .. NumRanks-1` and the console (-1). `ClusterOf` and
`ClusterOffset` are `cluster_rank` and `cluster_offset`; the first rank of a
cluster has MPI rank 0 and is its gateway. A job is given by `Filters`,
`HostOf` and `Streams`. Every rank but 0 hosts a filter, as `do_placement`
makes it (`FiltersAssumption`).

| code | variables | actions |
|---|---|---|
| `DCFilterThread::run`, `DCFilter::write`, `read` | `status`, `blocked`, `closed`, `wrote`, `got` | `FilterWrite`, `FilterBlock`, `FilterRead`, `FilterReturn`, `FilterClose`, `FilterErase` |
| in-port `Queue`, putters | `inq`, `putters` | `DeliverIn`, `FilterRead` |
| `MUID_MemUsage` | `usage`, `rtUsage` | `Release`, `ChargeBody` inside the actions |
| out-queue, Isend, Irecv | `outq`, `chan`, `pending`, `deferred` | `StartSend`, `FinishSend`, `Receive`, `Defer` |
| `sent_all_filters_done_message` and the loop that sends | `anyRunning`, `announced` | `CheckFilters`, `Announce`, `AnnounceNext` |
| done counters, leaving the loop | `doneReceived`, `routed`, `exited` | `DeliverIn`, `DeliverElsewhere`, `Exit` |
| console bridge | `toConsole`, `consoleOut`, `fromConsole`, `fromOpen`, `consoleSent`, `consoleClosed` | `HandleConsole`, `ToConsoleThread`, `FromConsoleThread`, `ConsoleFinish`, `CloseConsole` |
| proxy links | `toProxy`, `proxyIn` | `ProxyWriter`, `HandleProxy` |

Abstractions. The segments of the main loop are independent actions, so that
every order of them is allowed, the code's among them; the values one segment
leaves for another are variables, and the loop that sends the done packets is
not interrupted by other segments of its rank. A `getall` followed by a loop is
one packet per step, as the main loop is the only consumer. A socket and the
relay threads on its two ends are one queue. A filter reads whichever buffer of
its in-ports arrived first; a filter outside `EarlyExit` returns at the end of
its input. A buffer counts one unit of memory, of any size it is in `MemUsage`.
Not modelled: the console's 64 MB outgoing budget. The links between gateways are
the abstract ones of `ClusterLinks` (queues `toProxy` and `proxyIn`); how the proxy
implements them, `bye` included, is in `Proxy`.

### PortQueue

A step is one region under the mutex of a queue or one unlocked look at
`putters`. `pc` is where the reader is in its call, `seen` the local
`has_more_putters`. The contents of buffers do not matter, a queue is its length.
`nulls` counts how often the filter has been told that a port is at its end.
Wake-ups may be spurious. A read of a port without writers waits for ever
(`Starved`), which is what `Queue::get` does.

### SocketRuntime

`sending` and `stage` are the packet a thread is writing and the part to be
written next; `wire` holds whole headers and bodies, each written in one step (a
header that `DC_write_all` has to write in two pieces is not modelled). `WireCap` bodies fill a
connection, then a write blocks. The main loop does nothing while it writes or
reads a body (`Free`). A rank that takes other bytes for the header or the body
it expects (`Misread`) is stopped there: the model says nothing of what follows.
A filter's write that finds its budget full waits (`FilterBlock`, `blocked`) until
`outq_handler` has written a body of it to the end or a reader on its rank has
read one; from then on the filter does nothing else (`usage`, `CanPay`). What goes to the console is only
counted and no stream ends there (`JobAssumption`), so that a body read for
somebody else, which `ReadBody` hands to `Deliver` as the code does, does not
occur: rank 0 routes what it has from the bridge. Streams into the console are
in `Runtime`.

### SocketStartup, SocketBarrier

A process is at a `stage` of `dcmpisock_startup`; the loops over the ranks are
the variable `peer`. `backlog` holds what has been connected to a listening
socket and not yet accepted, `Backlog` connections at most (the code's `listen`
asks for 5; a smaller number is the harder case), and a connect to a full one
waits. The lines a process writes right after connecting are there when the
connection is accepted, host names are left out, and a port is known by the rank
that listens on it: `PortLine` and the broadcasts go through the same queue
`data`, so that reading one line too many or too few is a wrong broadcast.
Connections of one process are accepted in the order in which it opened them:
rank 0 tells data from barrier connections by that order and nothing else.
`SocketBarrier` counts the bytes on the barrier connections (`up`, `down`); rank 0
collects in the order of the ranks and answers in the same order. The barrier is
entered after the mesh stands (`Ready`), `Rounds` times.

### Proxy

| code | variables | actions |
|---|---|---|
| gateway: `ProxyWriter::run`, proxy segment of the main loop, cleanup | `gateway`, `sent`, `got`, `byeRead`, `dead` | `GatewayWrite`, `GatewayRead`, `GatewayLeave`, `GatewayBye`, `GatewayCleanup`, `GatewayAbort`, `Crash` |
| in-thread of a client | `inThread`, `inHand` | `InRegister`, `InLine`, `InCheck`, `InCharge`, `InPut`, `InBye`, `InError`, `InErrorLocks`, `InRaises`, `InLeave` |
| out-thread of a client | `outThread`, `outHand`, `byes` | `OutRegister`, `OutGet`, `OutWrite`, `OutBye`, `OutRaises`, `OutReduce`, `OutLeave` |
| cookie tables, `memusage` | `queue`, `users`, `known`, `mutexHeld`, `memusage`, `promised` | `Register`, `Unregister` inside the actions |

A wire carries whole messages: a size line with its packet, "bye", or the end of
the connection. Every region under a semaphore is one step; the mutex is a
variable only because the error path of an in-thread takes it twice and then
holds it for ever, which stops every other thread at its next look into the
tables. A gateway in `MayCrash` may die at any moment (`Die`): what it has
written arrives whole, the packet it is writing arrives cut, or all of it is lost
with a reset. `promised` is a history variable: sizes that have passed the test of
the threshold and are not charged yet. `UnderWay(a, b)` maps the places a packet
from a to b can be in - wire, hands of the threads, queue, wire - to the one link
of `ClusterLinks`.

### Layout

`phase` is the call the program is in: `build` while it describes the layout,
then the steps of `execute1` (`transparent`, `composite`, `transparent2`, `place`),
of `execute2` (`commands`, `launch`) and `execute3` (`run`, `returned`). `exit`,
`aborted` and `undefined` are the stops: a message and `exit(1)`, an assertion, and
memory that is not there or was deleted. `inst` holds every `DCFilterInstance` in
the order in which it is allocated, `order` the list `filter_instances`, which the
expansions change while they run over it. Each instance has one out-port, as the
expansions treat every port on its own. `path` is a history: the copies and
composites an instance comes from. It is what `ConnectionsAreComplete` compares
the graph with: how many connections two instances must have follows from their
paths and from the calls of the program alone (`Expects`). Hosts are numbers in
the order of their names, on which the code's sets and ranks depend; `Local` are
the names that resemble localhost, `RemoteEntry` the clusters of the configuration
file. `get_composite_layout` is a program's own and is called for every composite;
it answers with the same members and connections each time, but may bind each member to
any of the lists of hosts in its `binds` (`Bindings`), all of one length. Left out:
port names and policies, parameters, serialization, graphviz, and
the text of the commands.

### MemUsage, MultiOutport

`charged` is the bag of sizes that are charged, so that only what was charged
can be given back. Sizes of a poller are not limited by the threshold: they have
passed the writer's. In `MultiOutport`, targets are numbered after the shuffle
of `note_final_target`; `plain`, `labelled` and `received` count what each target
has got.

## 3. Runs

| run | job or input | shows |
|---|---|---|
| `runtime_pair` | 2 ranks, a@0 -> b@1 -> c@0, a -> c; two buffers from a to b, one unit of memory for every filter and runtime | quiet ranks, streams in order with their end last although receives are deferred; deferred receives resume; implements `JobTermination` |
| `runtime_clusters` | {0,1} and {2}, b@1 <-> c@2 | both gateways and the proxy, changes of owner, routers stay |
| `runtime_edge` | clusters {0} and {1}, console; con -> c@1 (two buffers), c -> b@0, c -> con | order and accounts over bridge and proxy, routers stay for the console too, every job ends: the count of packets to route is exact |
| `runtime_zigzag` | a@0 -> b@1 -> c@0 -> d@1 | **violated**: finding 1 |
| `portqueue_reads` | two writers, two ports, any reads | lost wake-ups; early, missing and final ends |
| `portqueue_last_buffer` | one writer, one port | **violated**: finding 2 |
| `socket_console` | con -> b@1 -> c@0, three buffers each, and b -> d@1; one unit of memory for every filter and runtime | whole packets, order, accounts of runtimes and filters, nothing after the end, the job ends unless it jams as `Jammed` says |
| `startup_mesh` | five processes, backlogs of two, two rounds of the barrier | both ends agree on every connection; lines are not taken for broadcasts; implements `RankBarrier`; all get through |
| `proxy_links` | three gateways of one job; 0 sends two packets to 2, 1 sends one to 0; 0 may die | overshoot, charges, cookies, "bye" last; implements `ClusterLinks`; ends empty unless a gateway dies |
| `layout_expand` | a console, a filter and a composite with a transparent member and a composite in it, which is bound to no host or to two; up to two copies, connections and calls; five hosts in three clusters, one with two names | the graph is the one that was meant, copies know their host, ranks as `Runtime` assumes, assertions hold but in named histories |
| `memusage_budget` | a waiter and a poller, threshold 4, sizes 0 to 5 | bounds, wake-ups, waits end |
| `multioutport_mixed` | three targets, two labels that share one, both policies | even distribution |

Every property of a passing run is broken by a mutant of a mapped definition
(`mutants` in `PROJECT.json`; the mutated forms stand before the originals).

**Bounds.** `MaxWrites` (buffers per stream, or per target in `MultiOutport`),
`MaxPuts`, `MaxCharges` and the memory constants are the only bounds; the done
packets are finite by themselves. Two ranks and three filters give every kind of
hop within a cluster, three ranks in two clusters every kind of hop there is
(rank, gateway, proxy, gateway, rank); with one unit of memory a second buffer
is deferred, and two buffers show an order. Between them the runs meet the
closed formula for the packets to route with each pair of its terms: console and
cluster, cluster and other cluster, console and other cluster. Five processes are
the fewest in which a rank other than 0 can be connected to by more than its
backlog holds; two rounds of the barrier are enough for a byte of one round to meet the other.
In `socket_console` three buffers each way are the fewest that fill both connections and
both budgets of rank 1 at once, which is what `Jammed` takes; the stream inside rank 1 is there
for memory that a reader gives back. `WireCap = 1` makes every write of the proxy wait; with
`MemThreshold = 3` a packet of size two passes the test only when nothing is stored, two can pass it
together, and the whole traffic, five units, is what `OvershootBounded` excludes: a test that
is missing, or lets one unit more pass, is seen. In `Layout` two calls of each kind
give every pair of them, in both orders; a composite inside a composite, a
transparent member, two names of one host and clusters out of order are in the
job itself. The inner composite is asked for twice, without naming hosts or for two hosts,
the least that reaches the assertion of `DCLayout.cpp:1055`.

**Fairness.** The main loop never blocks and polls each segment in turn (in the
socket runtime it blocks in one read or write at a time); threads are scheduled
by the OS; MPI completes an Isend once its message has been received, and that
alone is assumed. Nothing makes a filter start a write, in `Runtime` and in
`SocketRuntime`; a write it has started
is finished when there is room. Every thread of the proxy runs, as does every
gateway that has not died; an in-thread that finds no room sleeps and looks again,
and has to get on only if there is room from some moment on. At start-up every
process goes on when its connect, accept or read can. `CHECK_DEADLOCK FALSE` stands
where a liveness property of the run reports a stuck job (`runtime_pair`,
`runtime_edge`, `socket_console`, `memusage_budget`, `proxy_links`,
`startup_mesh`), in `runtime_zigzag`, which ends stuck, in `layout_expand`, where
the program stops or has executed twice, and in `multioutport_mixed`, where
writing stops at the bound. `AccumulateReturns`
relies on `MaxCharges`: with an endless supply of small bodies a waiter that
needs the whole budget can starve.

## 4. Findings

1. `runtime_zigzag`: two runtimes out of memory stop an acyclic pipeline
   (`src/src/dcmpiruntime.cpp:678-685`).
2. `portqueue_last_buffer`: NULL with buffers in the queue
   (`src/src/DCFilterExecutor.cpp:158-161`); the tests assert otherwise.

**Limits seen while modelling, without a run of their own.** Each is read in the source; where
a property would be false because of it, the property names the exception or the
run's job keeps clear of it.

* Socket runtime: the main loop and `outq_handler` write the same connection
  without a lock (`dcmpiruntime-socket.cpp:237, 258`), so their packets mix when
  rank 0 both routes for the console and hosts a filter that writes to the same
  rank: in the job con -> b@1, a@0 -> b@1 TLC finds `PacketsStayWhole` violated after eight
  steps. Theorem `StayWhole` says that it does not happen in a job where rank 0 does
  only one of the two, as in `socket_console`.
* Socket runtime: `single_mpi_outqueue` is empty while
  `outq_handler` still holds the last packet (`:497`), so the done packet can overtake it.
  A rank that does not wait for that packet, since its filter has returned with input
  unread, leaves its main loop before it has come, where the code says "we'll receive
  nothing more from others" (`:531`): in the job a@0 -> b@1 with b in `EarlyExit` TLC finds
  `NothingMoreIsReceived` violated. Theorem `OnlyEarlyExits` says that only packets for such
  filters can be late; in `socket_console` every filter reads to the end of its input.
* Socket runtime: two ranks can stop each other. The main loop of rank 0 is in
  `DC_write_all` of a body for rank 1 and does not read; rank 1 keeps that body's header,
  as its memory is in the in-port of a filter (`dcmpiruntime-socket.cpp:581`); that filter is in a write
  and waits for its own budget (`MemUsage.cpp:44`); the budget is given back when
  `outq_handler` of rank 1 has written a buffer to rank 0 (`:258-271`), which does not
  read. In the job of `socket_console` TLC finds a run of 33 states that ends so and refutes
  `<>Finished`. `JobEnds` says that this circle (`Jammed`) is the only way in which the job
  fails to end.
* Socket runtime: a connect that fails is reported and the
  rank goes on with -1 (`:1021`). The header buffer is shared by all ranks (`:595`).
* Proxy: the error path takes `cookie_mutex` and takes it again on its way out
  (`dcmpiproxy:92, 136`); a packet of `memthreshold` bytes or more is never relayed
  (`:114`); a packet cut by the death of its sender is relayed as if whole, and
  stays charged by the difference (`:131`).
* Layout: a second `execute` meets instances that the first has deleted, or the
  assertion on `run_hosts` (`DCLayout.cpp:1111`); a composite inside a composite loses
  copies (`:865`), and one bound to several hosts stops every program, because its members
  inherit all of them (`:930-936`) where "at this point every bind_hosts list should be of
  size 0 or 1" (`:1053`, asserted in `:1055`): `AssertionsHold` names it as `InheritsSeveral`; the copies of a filter that
  is connected to itself know the original only (`:789`); `bind_to_hosts` followed by
  `bind_to_host` fails an assertion (`:1083`); `bind_to_hosts` with one host exits
  (`DCFilterInstance.cpp:280`); `add_label` tests for more than two copies (`:302`);
  lists of labels are indexed past their end (`:366`); a cluster of a rank without
  filters is 0 by default (`DCLayout.cpp:1684`), which only `RuntimeAssumptions`
  makes harmless; the console's gftid is its place in the layout, where
  `dcmpi.h:552-555` says it is 0.
* In-ports: `dcmpi.h:592-593` says "on any port" where `read_until_upstream_exit`
  looks at one; a read of a port whose writers have gone waits for ever
  (`Queue.h:23`, `Starved` in `PortQueue`); `has_more_putters` reads the size of a
  set without a lock (`Queue.h:105`).
* Memory: the console process charges nobody for what it receives although
  `MemUsage.h:9-14` lists it (`ConsoleFromMPIThread.h:79`); a body above the
  receiver's threshold is deferred for ever (`MemUsage.cpp:100`; thresholds are
  computed by every rank for itself); a filter that returns with unread input
  leaves its buffers charged.

## 5. Proofs

All theorems hold for every value of the constants that satisfies the named
assumptions.

* `Runtime_proofs`: `TypeCorrect` (`TypeOK`) and `Quiet`
  (`QuietOnceAnnounced`). The second property is not inductive alone: that no
  filter of an announced rank runs depends on the value `any_of_my_filters_running`
  had when the main loop looked, and that nothing enters the out-queue depends on
  erased filters having closed all their ports. The invariant adds that a
  remembered "none running" is still true; then only filters of the rank feed its
  out-queue, and they are gone.
* `Runtime_proofs`, order: `StreamsOrdered` (`StreamsInOrder`) and `EndsTogether` (the
  safety part of the refinement of `JobTermination`), both from `JobInvariant`. All
  queues, channels and links are *places*, and `OnRoute(a, m, n)` says which of them a
  packet from m to n can be in: they form a line, and `Stage` counts down along it.
  Nearly every action then only puts a packet at the end of the first place of its
  route, moves it from the head of one place to the end of the next, or takes it from
  the last; one lemma for each says that packets stay on their routes, in one place
  only, and `Ordered`: a packet is behind those it must come after. On top of that a
  stream is cut at `last` (`Split`): up to `got` it has been read, up to `last` it waits
  in the in-port, the rest is under way, and its end is under way or delivered
  only if the writer has closed it, delivered only if nothing else is under way. A
  done packet comes after everything its sender has written, and `doneReceived[r]` is the
  number of nodes whose done packet for r was sent and is not under way any more
  (`Heard`); when that is the number of all others, everybody has finished, so
  a rank may leave.
* `Runtime_proofs`, last part: `RoutersStay` (`ExitedRankIsNotNeeded`) from
  `RouterInvariant`. A rank leaves its main loop when it has counted a done packet of
  every other node and has passed on `all_filter_done_messages_to_route` of them; the
  theorem says that these two numbers are enough: no packet in flight has that rank on the rest of
  its way, and no receive of its own is put off. `Pairs(r)` are the pairs of nodes rank r
  routes for, and `ToRouteIsExact` proves the formula of dcmpiruntime.cpp:516-531 to be
  their number, for any clusters and with or without a console. `RoutedInv`:
  `routed[r]` is the number of those pairs whose done packet has been sent and is past r
  (`Passed`), so when the two are equal, every one of them is past r. `DrainedInv`: nothing
  of a stream is under way whose done packet has arrived. `CloseInv`: rank 0 listens to the
  console until it has read CLOSE. `DeferredInv`: a receive that waits for memory has its
  packet in the channel. `GoneInv`: what let a rank leave stays true. What is
  behind r on its route came before a done packet that is past r, and
  packets do not overtake each other, so it is past r too. TLC has checked this invariant on the jobs
  of `runtime_pair`, `runtime_clusters` and `runtime_edge`.
* `RuntimeMemory_proofs`: `MemoryIsBalanced` (`MemoryBalanced`) from `MemoryInvariant`. The
  run's property adds up queue lengths, which no step argument can follow through
  sequences; in the proof the buffers a rank *holds* are a set. A rank holds what is in
  a place it is charged for (`HeldPlaces`: its out-queue, the two queues of the bridge at
  rank 0, the line to the proxy at a gateway) and what it has handed to MPI and not found
  sent (`pending`). By `JobInvariant` a packet is in one place only, so nearly every
  action adds one buffer to one rank's set or takes one from it
  (`HoldsMore`, `HoldsLess`, `HoldsSame`), and has to charge or give back one unit of
  just the account the buffer is charged to. Two things are not seen in the places and
  are invariants of their own. `PendingInv`: a buffer whose send is not done has gone to
  another rank and is at the place it was sent to or beyond, so it is not held a second
  time, and `SendOwner`, which decides whom `FinishSend` gives it back to, names whom it was charged
  to when it came. `EntryInv`: what waits in an in-port is charged to the runtime or
  to a filter of the reader's own rank, and to nobody in the console process. `LimitsInv` says that
  no budget is exceeded. In the end `HeldCounted` turns the sets back into the sums, and TLC
  has checked the invariant itself on the jobs of `runtime_pair`, `runtime_clusters` and
  `runtime_edge`.
* `PortQueue_proofs`: `TypeCorrect`, `NoWakeupIsLost`, `WritersGone`, `SecondEnd`.
  The invariant `EndInv` says that a removed writer is closing, that a port whose
  end was told has no putters, that a pass of `readany` that has seen no putter
  passed ports without any, and that a port is empty once it was polled after
  its end: hence the second NULL is final, the first is not (finding 2).
* `MemUsage_proofs`: `TypeCorrect`, `WaitsForRoom` (`WaitsForRoomOnly`) and
  `StaysWithin` (`WithinThreshold`). That the usage is the sum of what is charged is
  no sum in the proof: the bytes of a charged buffer are a set, `current_usage` is
  the number of elements of their union, and `accumulate` and `reduce` add and remove
  exactly the bytes of one buffer.
* `MultiOutport_proofs`: `TypeCorrect`, `RoundRobin` (`RoundRobinIsEven`),
  `LabelRounds` (`LabelsAreEven`) and `AllRounds`, which is both (`WritesAreEven`). Evenness is not inductive; where the round stands
  is: the targets before the position have had one buffer more than the others. For
  labels the round runs over the targets of the label only, however tickets,
  broadcasts and other labels are mixed in between.
* `SocketRuntime_proofs`: `EndsAreLast` (`EndOfStreamIsLast`), `OnlyEarlyExits`,
  `NothingMore` (`NothingMoreIsReceived`), `MemoryIsBalanced` (`RuntimeMemoryBalanced`,
  with `TypeOK`) and `StayWhole` (`PacketsStayWhole`), for any number of ranks, any
  filters and streams and any bounds. `NothingMore` has the hypothesis `EarlyExit = {}`
  (every filter reads its input to the end) and `StayWhole` the hypothesis `OneWriter`
  (with a console, no stream leaves rank 0); `socket_console` satisfies both, and
  the first two limits of section 4 are the jobs for which neither can be dropped. The other three have none.
  * `PlaceInv`: a packet is in the queue of its node, in the hand of the one thread that may
    write it, on the connection of its rank to the next, or kept there as a
    header; no other packets exist than those of the job.
  * `Ordered`: neither an end of stream nor a done packet is at two places, and no buffer of
    a stream is behind its end, in the queue, between queue and hand, between hand and
    connection, or on the connection. A packet of one stream always takes the same
    thread and the same connection; that is why two threads do no harm to the order.
  * `JobInv`: an end that has arrived has left nothing of its stream on the way (`EndInv`), and
    `doneReceived` is the number of nodes that have sent a done packet which is no longer on the way
    (`DoneInv`). Every action is shown to be one of a few moves (packets join a queue, one
    leaves it, an item is written or read), and every move to keep order and counts.
  * `ExitInv`: a rank announces when its filters are erased, and leaves when it has heard from all.
  * `MemoryInv`: the counter against the in-ports, the body being read and the console's buffers.
    Filters that wait for memory change only who acts when, so no invariant but the types mentions `usage`.
  * For `StayWhole`: a rank announces with `single_mpi_outqueue` empty, when `outq_handler` may
    still hold a packet, but not a buffer: the end of its stream would be in the queue behind it
    (`TailInv`). So when the main loop writes, `outq_handler` writes headers only
    (`AloneInv`), and a header of a buffer on a connection is followed by its body, there
    or in the hand of the thread, a body by its header, there or with the reader (`WholeInv`).

  TLC has checked these invariants on jobs with and without a console.
* `SocketStartup_proofs`, about `SocketBarrier`: `BarrierTypesHold`, `BarrierIsSafe` (no
  rank has left a round that another has not entered: `NobodyLeavesEarly`, for any number
  of ranks and rounds) and `BarrierIsImplemented` (`ImplementsBarrier`). The invariant says
  where every rank's byte of the round is: not sent, under way to rank 0, counted by
  it, under way back, or read.
* `SocketStartup_proofs`, about the start-up: `MeshJoined` (`MeshIsJoined`),
  `BroadcastsInOrder` (`BroadcastsAreHeardInOrder`), `StartupImplementsBarrier`
  (`ImplementsBarrier`, now of the whole specification) and `RootIsNotMisled`, for any number
  of ranks and any backlog. None of the first two is inductive. `StartInv` says for each
  process how far it is and what it has done by then (`StageInv`), and for each of its
  connections where it is: opened, waiting in the backlog of the other side, or
  accepted (`RootJoined`, `PeersInv`); a loop that counts what it accepts has counted just those
  it holds (`RootCount`, `PeersCount`), so a loop that ends has accepted everybody. Rank 0
  tells data and barrier connections apart by what it already holds, which is right
  because the connections of a rank wait in the order it opened them
  (`RootBacklog`; `RootIsNotMisled` draws the conclusion). What is unread on a data connection
  are the messages of a fixed list (`Msg`: the ports of the others, then the broadcasts) from
  the one the rank has come to (`Done`) to the one rank 0 has come to (`Said`), and the ports a rank knows
  are those of the lines it has read (`PortsInv`), so it never looks up a port it has not been
  told (a lookup that fails would leave `Failed` in its place). TLC has checked `StartInv` for 2 to 5 ranks.
* `Proxy_proofs`: `Overshoot` (`OvershootBounded`), `CookieOutlives`
  (`CookieOutlivesUsers`), `ChargesGivenBack` (`ChargesAreGivenBack`) and
  `CleanupFindsBye` (`CleanupReadsBye`), for any number of jobs and clusters, any traffic
  and any gateways that die. The bound of the first is not inductive: sizes that have
  passed the test of the threshold and are not charged yet count too. They are again
  a set of bytes, those in the hands of the in-threads that are about to charge, which
  has no place for more than the largest packet of each of the other senders when one
  more passes the test. The other three rest on `JobInv`:
  * `CookieInv`: the count of a cookie is that of the job's threads that have not ended.
  * `PlacesInv`: a packet is at one place of wire, in-thread, queue, out-thread, line and
    main loop (but while the out-thread gives back its memory), and is nowhere
    unless its gateway has written it, or was writing it when it died.
  * `EndInv`: "bye", or the end of a broken connection, is the last thing on a wire, and
    nothing is left of it when the in-thread leaves.
  * `ByeInv`, for a cluster none of whose peers broke off: the "bye"s counted by its
    out-thread and those in its queue are as many as the peers whose in-thread has told it,
    and no packet of the queue is behind all of them. Since only a peer that has told
    nothing can still put a packet there, the last "bye" is behind every packet.
  * `LineEnds`: the line to a gateway gets "bye" before it is closed.
  * `MemoryInv`: `memusage` is at least the number of bytes the proxy holds, and just that
    as long as no gateway broke off and no out-thread failed.

  `CleanupReadsBye` then is a matter of counting: a gateway leaves its main loop with
  `Expected` packets, which is all that exist for it, they are different, and a packet on
  the line is not among them; so what comes first on the line is not a packet, and
  the end of the connection is behind "bye".

`TypeOK` of `Runtime`, `PortQueue`, `MemUsage` and `MultiOutport` is proved and is in no
run; in the other modules it is a conjunct of a checked invariant.

Out of the provers' reach and left to TLC: liveness under fairness (in
`JobTermination`: that every rank leaves in the end), `ENABLED`, and
what the recursive functions of `Layout` compute. Model-checked only, so far:
the properties of `Layout`, the accounts of the filters in the socket runtime
(`WritersMemoryBalanced`; `RuntimeMemory_proofs` has them for MPI), and liveness (that a job of the socket runtime ends
but for the circle of section 4, `JobEnds`, and that its start-up gets through, `AllGetThrough`). Of `Proxy` the
refinement of `ClusterLinks` stays with TLC: its mapping filters sequences
(`SelectSeq`), about which the provers know nothing; that a packet is at one place only
and is not made up is part of `JobInv`.

## 6. Plan

1. Done: `Runtime`, `JobTermination`, `PortQueue`, `MemUsage`, `MultiOutport`,
   `SocketRuntime`; `Proxy` and the links it implements; `Layout` up to the launch;
   start-up and barrier of the socket runtime; the proofs of section 5.
2. Left to model: the console's outgoing budget of 64 MB and its hand-shake;
   `SocketRuntime` with the proxy segment; the
   header of a packet with its endian flag; two jobs at one proxy.
3. Left to prove: the order of the links in `Proxy`; `WritersMemoryBalanced` for every job.

## 7. Not modelled

* Vendored sqlite (`src/extensions/sqlite-3.3.5`) is about four fifths of the lines of
  the repository and not dcmpi's own code. The share of lines that `map` covers is
  small for that reason.
* Start-up of processes by ssh or mpirun and their death, the transfer and the
  serialization of the layout, configuration files, the command line tools,
  shared-library loading, the Java and Python bindings, `DCBuffer`, statistics and
  logging: I/O, glue or sequential conversion without shared state.
* MPI is external: an Isend completes after its message has been received, and
  messages between two ranks keep their order.
* The console and the proxy's threads never lose a connection but where a gateway dies
  in `Proxy`: `Runtime` and `SocketRuntime` have no faults, as the code answers every
  one of them with `exit` or an assertion.
* A packet that rank 0 passes on from the console to another rank of its own cluster
  is run in `socket_console`; in `Runtime` that term of `SendOwner` is read only.

`components` in `PROJECT.json` gives the state of each part.

----------------------------- MODULE MCRuntime -----------------------------
(***************************************************************************)
(* Small jobs for TLC.                                                     *)
(***************************************************************************)
EXTENDS Runtime

OneEach == [s \in Streams |-> 1]

\* One cluster of two ranks, no console filter: a pipeline that crosses from
\* rank 0 to rank 1 and back, and a local stream.
OneCluster  == [r \in 0 .. 1 |-> 0]
OneOffset   == [c \in {0} |-> 0]
PairHost    == [f \in {"a", "b", "c"} |-> IF f = "b" THEN 1 ELSE 0]
PairStreams == {<<"a", "b">>, <<"b", "c">>, <<"a", "c">>}
PairWrites  == [s \in PairStreams |-> IF s = <<"a", "b">> THEN 2 ELSE 1]

\* The same two ranks and a pipeline that crosses three times.
ZigzagHost    == [f \in {"a", "b", "c", "d"} |-> IF f \in {"a", "c"} THEN 0 ELSE 1]
ZigzagStreams == {<<"a", "b">>, <<"b", "c">>, <<"c", "d">>}
ZigzagWrites  == [s \in ZigzagStreams |-> IF s = <<"b", "c">> THEN 3 ELSE 2]

\* Two clusters, {0, 1} and {2}: ranks 1 and 2 reach each other through both
\* gateways.
TwoClusters     == [r \in 0 .. 2 |-> IF r < 2 THEN 0 ELSE 1]
TwoOffsets      == [c \in {0, 1} |-> 2 * c]
ClustersHost    == [f \in {"b", "c"} |-> IF f = "b" THEN 1 ELSE 2]
ClustersStreams == {<<"b", "c">>, <<"c", "b">>}

\* Two clusters of one rank; the filter of cluster 1 talks to the console
\* and, through the proxy, to a filter of cluster 0.
EdgeClusters == [r \in 0 .. 1 |-> r]
EdgeOffsets  == [c \in 0 .. 1 |-> c]
EdgeHost     == [f \in {"con", "b", "c"} |->
                   CASE f = "con" -> -1 [] f = "b" -> 0 [] f = "c" -> 1]
EdgeStreams  == {<<"con", "c">>, <<"c", "b">>, <<"c", "con">>}
EdgeWrites   == [s \in EdgeStreams |-> IF s = <<"con", "c">> THEN 2 ELSE 1]

=============================================================================

------------------------------ MODULE MCLayout ------------------------------
\* A console, a filter and a composite of three filters, of which the first
\* is transparent and the last is a composite itself, asked for twice without
\* naming hosts or for two hosts.
EXTENDS Layout

MCNames == <<"con", "a", "c">>

Two == <<NoHost, NoHost>>
Member(name, binds, in, out) == [name |-> name, binds |-> binds, in |-> in, out |-> out]

MCComposites ==
  [c |-> [members |-> <<Member("p", {Two}, TRUE, FALSE), Member("q", {<<>>}, FALSE, FALSE),
                        Member("d", {Two, <<1, 3>>}, FALSE, TRUE)>>,
          conns   |-> {<<1, 2>>, <<2, 3>>}],
   d |-> [members |-> <<Member("e", {<<>>}, TRUE, TRUE)>>, conns |-> {}]]

MCWires == {<<2, 3>>, <<3, 2>>, <<3, 3>>, <<1, 1>>}
MCPools == {<<0, 2, 4>>}

\* 0 is localhost and in the pool, 3 is a second name of it, 1 is in its
\* cluster, 2 and 4 are in clusters that the file lists in the other order.
MCLocal       == {0, 3}
MCRemoteEntry == [h \in 0 .. 4 |-> CASE h = 2 -> 2 [] h = 4 -> 1 [] OTHER -> 0]

=============================================================================

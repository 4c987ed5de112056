-------------------------- MODULE MCSocketRuntime --------------------------
(***************************************************************************)
(* A small job of two ranks for TLC.                                       *)
(***************************************************************************)
EXTENDS SocketRuntime

\* A console filter that feeds rank 1, which feeds rank 0 and a second filter
\* of its own: rank 0 sends rank 1 nothing but what it routes.  Three buffers
\* each way are the fewest that can stop both ranks.
ConsoleHost    == [f \in {"con", "b", "c", "d"} |->
                     CASE f = "con" -> -1 [] f = "c" -> 0 [] OTHER -> 1]
ConsoleStreams == {<<"con", "b">>, <<"b", "c">>, <<"b", "d">>}
ConsoleWrites  == [s \in ConsoleStreams |-> IF s = <<"b", "d">> THEN 1 ELSE 3]

=============================================================================

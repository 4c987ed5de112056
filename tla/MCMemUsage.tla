----------------------------- MODULE MCMemUsage -----------------------------
(***************************************************************************)
(* The budget of a rank's runtime: the thread that receives from the       *)
(* console waits, the main loop polls.                                     *)
(***************************************************************************)
EXTENDS MemUsage

\* Empty buffers, buffers that fill the budget, and for the console one that
\* exceeds it.
AnySizes == [t \in {"console", "mainloop"} |->
               IF t = "console" THEN {0, 1, 3, 4, 5} ELSE {0, 2, 4}]

=============================================================================

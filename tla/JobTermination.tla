--------------------------- MODULE JobTermination ---------------------------
(***************************************************************************)
(* What the runtime promises about the end of a job: the filters of a job  *)
(* finish one by one, a rank may leave its main loop only when no filter of *)
(* the job is running any more, on whatever rank, and then every rank does. *)
(***************************************************************************)
CONSTANTS Filters, Ranks

VARIABLES running,  \* filters that have not finished
          left      \* ranks that have left their main loop

Init == running = Filters /\ left = {}

Finish(f) == /\ f \in running
             /\ running' = running \ {f}
             /\ UNCHANGED left

Leave(r) == /\ running = {}
            /\ r \notin left
            /\ left' = left \cup {r}
            /\ UNCHANGED running

Next == (\E f \in Filters : Finish(f)) \/ (\E r \in Ranks : Leave(r))

SafeSpec == Init /\ [][Next]_<<running, left>>

Spec == /\ SafeSpec
        /\ \A r \in Ranks : WF_<<running, left>>(Leave(r))

=============================================================================

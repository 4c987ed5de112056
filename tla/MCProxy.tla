------------------------------- MODULE MCProxy -------------------------------
\* Three clusters of one job.  A large packet passes the test only when nothing
\* is stored, so that the two large ones are stored together only if both have
\* looked before; all three packets together are more than OvershootBounded
\* allows.
EXTENDS Proxy

CONSTANT job

To(k, s) == [to |-> <<job, k>>, size |-> s]

MCTraffic ==
  [g \in {job} \X (0 .. 2) |->
     CASE g[2] = 0 -> <<To(2, 1), To(2, 2)>>
       [] g[2] = 1 -> <<To(0, 2)>>
       [] g[2] = 2 -> <<>>]

MCMayCrash == {<<job, 0>>}

=============================================================================

---------------------------- MODULE MCPortQueue ----------------------------
(***************************************************************************)
(* Two upstream filters; one of them feeds both ports.                     *)
(***************************************************************************)
EXTENDS PortQueue

TwoFeeds == {<<"v", 1>>, <<"w", 1>>, <<"w", 2>>}
OneFeed == {<<"w", 1>>}

=============================================================================

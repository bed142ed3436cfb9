----------------------------- MODULE MCRouting ------------------------------
(* An instance of Routing for TLC.                                         *)
EXTENDS Routing

(* One name is the beginning of the other.                                 *)
TwoIds == {<<"d">>, <<"d", "e">>}
=============================================================================

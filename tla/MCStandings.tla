---------------------------- MODULE MCStandings ----------------------------
(* A group of three and a guest; the default rule and the other usual one, *)
(* head-to-head before goals.                                              *)
EXTENDS Standings

Default == <<"points", "gd", "gf", "head_to_head", "admin">>
MutualFirst == <<"points", "head_to_head", "gd", "gf">>

MCTieBreakerLists == {Default, MutualFirst}
=============================================================================

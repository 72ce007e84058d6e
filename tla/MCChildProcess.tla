--------------------------- MODULE MCChildProcess ---------------------------
(* Options in both orders; the violated run takes the shortest string that *)
(* a signed char does not count.                                           *)
EXTENDS ChildProcess

MCOptionSets == {<<"ipc">>, <<"detach", "stdout">>, <<"stdout", "detach">>, <<"stderr">>}
=============================================================================

------------------------------- MODULE MCNet --------------------------------
(* A stream of four bytes with a delimiter of two, that may come in       *)
(* pieces, and two coroutines that make four calls that wait.             *)
EXTENDS Net

MCStreams == {<<1, 0, 0, 2>>}
MCDelim == <<0, 0>>
=============================================================================

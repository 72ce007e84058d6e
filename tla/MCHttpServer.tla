---------------------------- MODULE MCHttpServer ----------------------------
(* Two requests on one connection, one write() for each response at most,  *)
(* of one byte or of one more than an unsigned short can count; a handler  *)
(* without hooks, or with both.                                            *)
EXTENDS HttpServer

MCSizes == {1, 65536}
MCHookSets == {{}, {"before", "after"}}
=============================================================================

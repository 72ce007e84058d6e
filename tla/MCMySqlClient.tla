--------------------------- MODULE MCMySqlClient ---------------------------
(* An instance of MySqlClient for TLC: two coroutines and three calls in   *)
(* all, so that one can connect, query and fetch while the other holds,    *)
(* drops or reconnects the same client, and one ping that may be anywhere  *)
(* on its way when the client is dropped.                                  *)
EXTENDS MySqlClient
=============================================================================

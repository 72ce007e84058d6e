----------------------------- MODULE MCClients ------------------------------
(* Two coroutines and four calls that wait; three objects (a client, a     *)
(* collection and a cursor), two redis connections, two HTTP requests.     *)
EXTENDS Clients

MCUrls == {<<>>, <<"auth", "select">>}
=============================================================================

------------------------------- MODULE MongoDb ------------------------------
(***************************************************************************)
(* flame\db\mongodb (src/flame/db/mongodb): a client, object 1, the        *)
(* collections made from it and the cursors made from these.  A collection *)
(* or cursor that nobody holds has its handle destroyed by the client's    *)
(* thread, which only the client ends.                                     *)
(***************************************************************************)
EXTENDS Worker

CONSTANT MaxRows \* bound: rows behind the cursors

ASSUME MongoAssumption == MaxRows \in Nat

VARIABLES
  rows,  \* rows the cursors have not returned yet
  stale  \* history: a connect() destroyed the client of live collections

mongoVars == <<rows, stale>>

MongoInit == WorkerInit("client", "none") /\ rows \in 0 .. MaxRows /\ stale = FALSE

MongoWk == UNCHANGED <<frames, st, calls, held, ref, thread>>

\* handles on their way to or from the main thread
InUse ==
  \/ \E o \in DOMAIN objs \ {1} : objs[o].lib = "live"
  \/ \E j \in Range(jobs) \union Range(backs) : j.res \in {"handle", "document"}

-----------------------------------------------------------------------------
(* The client.                                                             *)

ClientAsk(c) ==
  /\ UNCHANGED mongoVars
  /\ \/ Ask(c, "connect", 1, 0)
     \/ Len(objs) + Len(Waiting) < MaxObjects /\ Ask(c, "collection", 1, 0)

\* a uri that cannot be parsed is passed on, and aborts
ConnectWk ==
  /\ Serves("connect")
  /\ \/ Crashes /\ UNCHANGED <<objs, jobs, backs, stale>>
     \/ /\ \/ SetLib(1, "live") /\ Served("ok")
           \/ SetLib(1, "none") /\ Served("error")
        /\ stale' = (stale \/ (Client.lib = "live" /\ InUse))
        /\ UNCHANGED <<frames, st>>
  /\ UNCHANGED <<calls, held, ref, thread, rows>>

ConnectCbM ==
  /\ \/ Completes("connect", "ok") /\ Returns1(0) /\ UNCHANGED objs
     \/ Completes("connect", "error") /\ Fails
  /\ UNCHANGED mongoVars

CollectionWk ==
  /\ Serves("collection")
  /\ Served(IF Client.lib = "none" THEN "null" ELSE "handle")
  /\ MongoWk /\ UNCHANGED objs /\ UNCHANGED mongoVars

\* mutant: collection::init and cursor::init keep no reference
Made_NoRef(op, kind, of) ==
  /\ Completes(op, "handle")
  /\ objs' = Append(objs, Object(kind, 0, "live")) /\ Returns1(Len(objs) + 1)

\* collection::init, cursor::init: a new object with a reference to its maker
Made(op, kind, of) ==
  /\ Completes(op, "handle")
  /\ objs' = Append(objs, Object(kind, of, "live")) /\ Returns1(Len(objs) + 1)

CollectionCb ==
  /\ \/ Made("collection", "collection", 1)
     \/ Completes("collection", "null") /\ Returns1(0) /\ UNCHANGED objs
  /\ UNCHANGED mongoVars

-----------------------------------------------------------------------------
(* A collection.                                                           *)

\* op: "write" (count, insert, remove, update), "find_one", and "find"
\* (find_many, aggregate), which makes a cursor
CollectionAsk(c, o) ==
  /\ objs[o].k = "collection" /\ UNCHANGED mongoVars
  /\ \/ Ask(c, "write", o, 0)
     \/ Ask(c, "find_one", o, 0)
     \/ Len(objs) + Len(Waiting) < MaxObjects /\ Ask(c, "find", o, 0)

\* a find_one without a document leaves its cursor behind
CollectionOpWk ==
  /\ \/ Serves("write") /\ (Served("ok") \/ Served("error"))
     \/ Serves("find") /\ Served("handle")
     \/ Serves("find_one") /\ (Served("document") \/ Served("null"))
     \/ Serves("find_one_af") /\ Served("ok")
  /\ MongoWk /\ UNCHANGED objs /\ UNCHANGED mongoVars

FindOneCb ==
  /\ \/ Completes("find_one", "document") /\ Requeue("find_one_af") /\ UNCHANGED held
     \/ Completes("find_one", "null") /\ Returns1(0)
  /\ UNCHANGED objs /\ UNCHANGED mongoVars

CursorCb == Made("find", "cursor", Head(backs).o) /\ UNCHANGED mongoVars

\* an error is thrown in the coroutine by next
DefaultCbM(op) ==
  /\ Completes(op, "ok") \/ Completes(op, "error")
  /\ IF Head(backs).c # 0 THEN Returns1(0)
     ELSE backs' = Tail(backs) /\ UNCHANGED <<frames, st, calls, held, ref, jobs, thread>>
  /\ UNCHANGED objs /\ UNCHANGED mongoVars

-----------------------------------------------------------------------------
(* A cursor.                                                               *)

\* one coroutine reads a cursor
CursorAsk(c, o) ==
  /\ objs[o].k = "cursor" /\ ~\E j \in Range(Waiting) : j.o = o
  /\ Ask(c, "next", o, 0) \/ Ask(c, "to_array", o, 0)
  /\ UNCHANGED mongoVars

NextWk ==
  /\ Serves("next") \/ Serves("to_array")
  /\ IF rows = 0 THEN Served("end") /\ UNCHANGED rows
     ELSE Served("row") /\ rows' = rows - 1
  /\ MongoWk /\ UNCHANGED <<objs, stale>>

NextCb ==
  /\ Completes("next", "row") \/ Completes("next", "end")
  /\ Returns1(0) /\ UNCHANGED objs /\ UNCHANGED mongoVars

\* one row at a time, until there is none
ToArrayCb ==
  /\ \/ Completes("to_array", "row") /\ Requeue("to_array") /\ UNCHANGED held
     \/ Completes("to_array", "end") /\ Returns1(0)
  /\ UNCHANGED objs /\ UNCHANGED mongoVars

CloseHandleWk ==
  /\ Serves("close") /\ Served("ok") /\ SetLib(Head(jobs).o, "freed")
  /\ MongoWk /\ UNCHANGED mongoVars

MongoNext ==
  \/ ConnectWk \/ CollectionWk \/ CollectionOpWk \/ NextWk \/ CloseHandleWk
  \/ DestroyWk /\ UNCHANGED mongoVars
  \/ /\ Settled
     /\ \/ \E c \in Cos :
             \/ ClientAsk(c)
             \/ \E o \in held : CollectionAsk(c, o) \/ CursorAsk(c, o)
        \/ ConnectCbM \/ CollectionCb \/ FindOneCb \/ CursorCb \/ NextCb \/ ToArrayCb
        \/ \E op \in {"write", "find_one_af", "close"} : DefaultCbM(op)
        \/ WorkerStep /\ UNCHANGED mongoVars
  \/ \E o \in Unheld : Destruct(o, "close", 0) /\ UNCHANGED mongoVars
  \/ CloseWork /\ UNCHANGED mongoVars
=============================================================================

----------------------------- MODULE HttpClient -----------------------------
(***************************************************************************)
(* flame\net\http\client (src/flame/net/http/client.cpp, client_request):  *)
(* requests of coroutines, on the default client, 0, and on one that the   *)
(* script holds, 1.  libcurl is modelled by what it does: one event may    *)
(* complete several transfers, and every transfer ends (CURLOPT_TIMEOUT).  *)
(***************************************************************************)
EXTENDS Script

CONSTANT MaxRequests \* bound: requests made

ASSUME HttpAssumption == MaxRequests \in Nat \ {0}

VARIABLES
  reqs,   \* the requests: easy_ "idle", "added" or "null"; the client whose
          \* multi_ it is added to; coroutine and self of its exec_context_t
  msgs,   \* completed transfers curl_multi_info_read has not returned yet
  own,    \* client 1 is not destructed
  hlost   \* history: coroutines nobody will resume

httpVars == <<reqs, msgs, own, hlost>>

InfoCheck(m) == [k |-> "info", c |-> m]  \* the loop of curl_multi_info_check

HttpInit == reqs = <<>> /\ msgs = <<>> /\ own = TRUE /\ hlost = {}

\* new client_request
NewRequest(c) ==
  /\ Running(c) /\ Len(reqs) < MaxRequests
  /\ reqs' = Append(reqs, [easy |-> "idle", m |-> 0, c |-> 0, self |-> 0])
  /\ UNCHANGED <<frames, st, calls, msgs, own, hlost>>

\* get, post, put on client m; remove always takes the default client
Fetch(c, m) ==
  /\ Call(c) /\ Len(reqs) < MaxRequests /\ (m = 1 => own)
  /\ reqs' = Append(reqs, [easy |-> "added", m |-> m, c |-> c, self |-> m])
  /\ Waits(c, "http") /\ UNCHANGED <<msgs, own, hlost>>

\* exec2: a request that has ended has no easy_ and is refused; one that is
\* still on its way stays where it is and gets the context of this call,
\* which says that it is on client m
Exec(c, r, m) ==
  /\ Call(c) /\ (m = 1 => own)
  /\ reqs[r].easy # "null"
  /\ reqs' = [reqs EXCEPT ![r] =
       [easy |-> "added", m |-> IF @.easy = "added" THEN @.m ELSE m,
        c |-> c, self |-> m]]
  /\ hlost' = hlost \union ({reqs[r].c} \ {0})
  /\ Waits(c, "http") /\ UNCHANGED <<msgs, own>>

Added(m) == {r \in DOMAIN reqs : reqs[r].easy = "added" /\ reqs[r].m = m}

\* curl_multi_socket_poll, curl_multi_timer_cb
Transfers(m) ==
  /\ Loop
  /\ \E done \in SUBSET Added(m) \ {{}} : msgs' = SetToSeq(done)
  /\ frames' = <<InfoCheck(m)>>
  /\ UNCHANGED <<st, calls, reqs, own, hlost>>

Ended == [easy |-> "null", m |-> 0, c |-> 0, self |-> 0]

\* mutant: one message is read and not all of them
InfoRead_One(m) ==
  /\ frames # <<>> /\ Last(frames) = InfoCheck(m)
  /\ IF msgs = <<>> THEN frames' = Front(frames) /\ UNCHANGED <<st, reqs, msgs>>
     ELSE /\ msgs' = <<>>
          /\ reqs' = [r \in DOMAIN reqs |->
                        IF r \in Range(msgs) THEN Ended
                        ELSE reqs[r]]
          /\ Resume(reqs[Head(msgs)].c, frames)
  /\ UNCHANGED <<calls, own, hlost>>

\* curl_multi_info_check: the next message; the coroutine it resumes may
\* drop the client whose messages are being read.  The transfer is removed
\* from the client its context names, which may be gone; from another one
\* than its own that does nothing
InfoRead(m) ==
  /\ frames # <<>> /\ Last(frames) = InfoCheck(m)
  /\ IF ~own /\ (m = 1 \/ (msgs # <<>> /\ reqs[Head(msgs)].self = 1))
     THEN Crashes /\ UNCHANGED <<reqs, msgs>>
     ELSE IF msgs = <<>> THEN frames' = Front(frames) /\ UNCHANGED <<st, reqs, msgs>>
     ELSE /\ msgs' = Tail(msgs)
          /\ reqs' = [reqs EXCEPT ![Head(msgs)] = Ended]
          /\ Resume(reqs[Head(msgs)].c, frames)
  /\ UNCHANGED <<calls, own, hlost>>

\* ~client, though requests are on their way: the coroutines do not hold it
DropClient(c) ==
  /\ Running(c) /\ own /\ own' = FALSE
  /\ hlost' = hlost \union {reqs[r].c : r \in Added(1)}
  /\ reqs' = [r \in DOMAIN reqs |->
                IF r \in Added(1) THEN [easy |-> "idle", m |-> 0, c |-> 0, self |-> 0] ELSE reqs[r]]
  /\ UNCHANGED <<frames, st, calls, msgs>>

HttpNext ==
  \/ \E c \in Cos :
       \/ NewRequest(c) \/ DropClient(c)
       \/ \E m \in 0 .. 1 : Fetch(c, m) \/ \E r \in DOMAIN reqs : Exec(c, r, m)
       \/ (Begin(c) \/ Sleep(c) \/ End(c)) /\ UNCHANGED httpVars
  \/ \E m \in 0 .. 1 : Transfers(m) \/ InfoRead(m)

HttpPointers ==
  {Pointer(r, reqs[r].c) : r \in {r \in DOMAIN reqs : reqs[r].c # 0}}
=============================================================================

-------------------------- MODULE HttpServerProofs --------------------------
(***************************************************************************)
(* Proofs about HttpServer: what the connection of a server never does,    *)
(* for any number of requests and writes, any lengths and any hooks.       *)
(*                                                                         *)
(* The inductive invariant Inv says who holds the response and which       *)
(* coroutine runs for each request (RequestInv), whose turn it is          *)
(* (TurnInv), that refer_ counts the responses (CountInv), when the socket *)
(* is closed (ConnInv), and what the answers on the wire say of head, body *)
(* and n (WireInv).                                                        *)
(***************************************************************************)
EXTENDS HttpServer, FiniteSets, FiniteSetTheorems, TLAPS

Holders == {"none", "conn", "session", "kept", "gone"}
Stages  == {"none", "before", "handler", "after", "done"}
Status  == {"none", "ready", "run", "wait", "ended"}
Answer  == [req : Reqs, id : Nat, head : BOOLEAN, last : BOOLEAN, fin : BOOLEAN]

ConnTypes ==
  /\ conn \in {"none", "open", "closing", "deleted"} /\ is_closing \in BOOLEAN
  /\ refer \in Nat /\ reading \in BOOLEAN
ParsTypes ==
  /\ parser \in {"idle", "url", "head", "dead"} /\ v11 \in BOOLEAN /\ keep \in BOOLEAN
  /\ n \in 0 .. MaxReq /\ piped \in BOOLEAN /\ split \in BOOLEAN
SessTypes ==
  /\ res \in [Reqs -> Holders] /\ stage \in [Reqs -> Stages] /\ co \in [Reqs -> Status]
  /\ inread \in {"no", "fresh", "on"} /\ cur \in 0 .. MaxReq
OutTypes ==
  /\ head \in [Reqs -> BOOLEAN] /\ body \in [Reqs -> BOOLEAN]
  /\ writes \in [Reqs -> 0 .. MaxWrites]
  /\ pending \in Seq(Reqs) /\ wire \in Seq(Answer)

TypeOK ==
  /\ ConnTypes /\ ParsTypes /\ SessTypes /\ OutTypes
  /\ proto \in {"http", "fastcgi"} /\ hooks \in HookSets

LiveSet == {r \in Reqs : Live(r)}

RequestInv ==
  /\ \A r \in Reqs :
       /\ res[r] = "none" <=> r > n
       /\ res[r] = "conn" => r = n /\ parser \in {"url", "head"}
       /\ co[r] = "none" <=> res[r] \in {"none", "conn", "gone"}
       /\ res[r] = "session" <=> stage[r] \in {"before", "handler", "after"}
       /\ res[r] = "kept" => stage[r] = "done"
       /\ co[r] = "ended" => res[r] = "session"
  /\ parser \in {"url", "head"} => n \in Reqs /\ res[n] = "conn"

TurnInv ==
  /\ \A r \in Reqs : co[r] = "run" <=> cur = r
  /\ cur # 0 => inread = "no"
  /\ \A i \in DOMAIN pending : co[pending[i]] = "wait"
  /\ \A i, j \in DOMAIN pending : pending[i] = pending[j] => i = j

CountInv == refer = Cardinality(LiveSet)

ConnInv ==
  /\ conn = "none" => n = 0 /\ ~reading /\ inread = "no"
  /\ reading \/ inread # "no" => split \/ conn = "open"
  /\ conn \in {"closing", "deleted"} => split \/ LiveSet = {}

WireInv ==
  /\ \A i \in DOMAIN wire :
       /\ wire[i].req <= n
       /\ head[wire[i].req]
       /\ wire[i].fin => body[wire[i].req]
  /\ \A r \in Reqs : head[r] => is_closing \/ \E i \in DOMAIN wire : wire[i].req = r
  /\ ~piped => \A r \in 1 .. n - 1 : Answered(r) \/ res[r] = "gone"

Inv == RequestInv /\ TurnInv /\ CountInv /\ ConnInv /\ WireInv

-----------------------------------------------------------------------------
(* Types.                                                                  *)

\* One step of one coroutine, of one request.
ReqStep(r) ==
  \/ CoStart(r) \/ CoEnd(r) \/ Release(r)
  \/ OnSessionMiddle(r) \/ OnSessionAfter(r) \/ OnSessionFinish(r)
  \/ WriteHeader(r) \/ End(r) \/ \E size \in Sizes : Write(r, size)

ConnStep == Accept \/ ReadData \/ ReadParsed \/ ReadStops \/ CloseCb
ParsStep == HpUrl \/ HpHeaders \/ HpMessageComplete \/ FpBegin \/ FpEndRequest

LEMMA NextCases ==
  ASSUME Next
  PROVE  ConnStep \/ ParsStep \/ WriteCb \/ \E r \in Reqs : ReqStep(r)
BY DEF Next, ConnStep, ParsStep, ReqStep

\* The parser's part of the state, through every step.
LEMMA ParsTypesStep ==
  ASSUME ParsTypes, [Next]_vars
  PROVE  ParsTypes'
<1> USE BoundsAssumption DEF ParsTypes, parsVars, Reqs
<1>1. CASE ConnStep
  BY <1>1 DEF ConnStep, Accept, ReadData, ReadParsed, ReadStops, CloseCb
<1>2. CASE HpUrl
  <2>1. piped' \in BOOLEAN
    BY <1>2, Zenon DEF HpUrl
  <2>2. keep' \in BOOLEAN /\ split' \in BOOLEAN /\ v11' \in BOOLEAN
    BY <1>2, Zenon DEF HpUrl
  <2>3. n' \in 0 .. MaxReq /\ parser' = "url"
    BY <1>2 DEF HpUrl
  <2> QED BY <2>1, <2>2, <2>3
<1>3. CASE HpHeaders \/ HpMessageComplete \/ FpBegin \/ FpEndRequest
  <2>1. piped' \in BOOLEAN
    BY <1>3, Zenon DEF HpHeaders, HpMessageComplete, FpBegin, FpEndRequest
  <2>2. CASE FpBegin
    BY <2>1, <2>2 DEF FpBegin
  <2> QED BY <1>3, <2>1, <2>2 DEF HpHeaders, HpMessageComplete, FpEndRequest
<1>4. CASE WriteCb
  BY <1>4 DEF WriteCb
<1>5. ASSUME NEW r \in Reqs, ReqStep(r) PROVE ParsTypes'
  BY <1>5 DEF ReqStep, CoStart, CoEnd, Release, OnSessionMiddle, OnSessionAfter,
     OnSessionFinish, WriteHeader, End, Write
<1>6. CASE UNCHANGED vars
  BY <1>6 DEF vars
<1> QED BY <1>1, <1>2, <1>3, <1>4, <1>5, <1>6, NextCases DEF ParsStep

LEMMA SessTypesStep ==
  ASSUME SessTypes, ParsTypes, OutTypes, [Next]_vars
  PROVE  SessTypes'
<1> USE BoundsAssumption DEF SessTypes, Reqs, Holders, Stages, Status, sessVars
<1>1. CASE ConnStep
  BY <1>1 DEF ConnStep, Accept, ReadData, ReadParsed, ReadStops, CloseCb
<1>2. CASE ParsStep
  BY <1>2 DEF ParsTypes, ParsStep, HpUrl, HpHeaders, HpMessageComplete, FpBegin, FpEndRequest, OnSession
<1>3. CASE WriteCb
  <2>1. Head(pending) \in 1 .. MaxReq
    BY <1>3 DEF OutTypes, WriteCb
  <2> QED BY <1>3, <2>1 DEF WriteCb
<1>4. ASSUME NEW r \in Reqs, ReqStep(r) PROVE SessTypes'
  <2>1. CASE CoStart(r) \/ CoEnd(r) \/ Release(r)
    BY <1>4, <2>1 DEF CoStart, CoEnd, Release
  <2>2. CASE OnSessionMiddle(r) \/ OnSessionAfter(r) \/ OnSessionFinish(r)
    BY <1>4, <2>2 DEF OnSessionMiddle, OnSessionAfter, OnSessionFinish
  <2>3. CASE WriteHeader(r) \/ End(r) \/ \E size \in Sizes : Write(r, size)
    <3>1. ASSUME NEW hdr, NEW last, NEW fin, WriteBuffer(r, hdr, last, fin)
          PROVE  co' \in [Reqs -> Status] /\ cur' \in 0 .. MaxReq
      BY <3>1 DEF WriteBuffer
    <3> QED BY <2>3, <3>1 DEF WriteHeader, End, Write
  <2> QED BY <1>4, <2>1, <2>2, <2>3 DEF ReqStep
<1>5. CASE UNCHANGED vars
  BY <1>5 DEF vars
<1> QED BY <1>1, <1>2, <1>3, <1>4, <1>5, NextCases

LEMMA OutTypesStep ==
  ASSUME ParsTypes, OutTypes, [Next]_vars
  PROVE  OutTypes'
<1> USE BoundsAssumption DEF OutTypes, outVars
<1>1. CASE ConnStep
  BY <1>1 DEF ConnStep, Accept, ReadData, ReadParsed, ReadStops, CloseCb
<1>2. CASE ParsStep
  BY <1>2 DEF ParsStep, HpUrl, HpHeaders, HpMessageComplete, FpBegin, FpEndRequest
<1>3. CASE WriteCb
  BY <1>3 DEF WriteCb
<1>4. ASSUME NEW r \in Reqs, ReqStep(r) PROVE OutTypes'
  <2>1. ASSUME NEW hdr \in BOOLEAN, NEW last \in BOOLEAN, NEW fin \in BOOLEAN,
               WriteBuffer(r, hdr, last, fin)
        PROVE  pending' \in Seq(Reqs) /\ wire' \in Seq(Answer)
    <3> DEFINE x == [req |-> r, id |-> n, head |-> hdr, last |-> last, fin |-> fin]
    <3>1. x \in Answer
      BY <2>1 DEF Answer, ParsTypes
    <3>2. pending \in Seq(Reqs) /\ wire \in Seq(Answer)
      OBVIOUS
    <3> HIDE DEF OutTypes
    <3>3. CASE is_closing
      BY <2>1, <3>2, <3>3 DEF WriteBuffer
    <3>4. CASE ~is_closing
      <4>1. pending' = Append(pending, r) /\ wire' = Append(wire, x)
        BY <2>1, <3>4 DEF WriteBuffer
      <4> HIDE DEF x
      <4> QED BY <3>1, <3>2, <4>1
    <3> QED BY <3>3, <3>4
  <2>2. CASE WriteHeader(r)
    BY <2>1, <2>2 DEF WriteHeader
  <2>3. CASE End(r)
    BY <2>1, <2>3 DEF End
  <2>4. ASSUME NEW size \in Sizes, Write(r, size) PROVE OutTypes'
    <3>1. LastChunk(size) \in BOOLEAN
      BY SMT DEF LastChunk
    <3>11. (~head[r]) \in BOOLEAN
      BY SMT
    <3>2. pending' \in Seq(Reqs) /\ wire' \in Seq(Answer)
      BY <2>1, <2>4, <3>1, <3>11 DEF Write
    <3>3. writes' \in [Reqs -> 0 .. MaxWrites] /\ head' \in [Reqs -> BOOLEAN] /\ body' = body
      BY <2>4 DEF Write
    <3> QED BY <3>2, <3>3
  <2>5. CASE CoStart(r) \/ CoEnd(r) \/ Release(r) \/ OnSessionMiddle(r)
             \/ OnSessionAfter(r) \/ OnSessionFinish(r)
    BY <2>5 DEF CoStart, CoEnd, Release, OnSessionMiddle, OnSessionAfter, OnSessionFinish
  <2> QED BY <1>4, <2>2, <2>3, <2>4, <2>5 DEF ReqStep
<1>5. CASE UNCHANGED vars
  BY <1>5 DEF vars
<1> QED BY <1>1, <1>2, <1>3, <1>4, <1>5, NextCases

-----------------------------------------------------------------------------
(* Who holds the response of a request, and which coroutine runs for it.   *)

\* What happens to one request while the others stay as they are.
LEMMA RequestInvStep ==
  ASSUME TypeOK, RequestInv, TurnInv, [Next]_vars
  PROVE  RequestInv'
<1> USE BoundsAssumption DEF TypeOK, ParsTypes, SessTypes, Reqs, RequestInv, Holders, Stages, Status
<1>1. CASE ConnStep
  BY <1>1 DEF ConnStep, Accept, ReadData, ReadParsed, ReadStops, CloseCb, parsVars, sessVars
<1>2. CASE HpUrl
  <2>1. n' = n + 1 /\ parser' = "url" /\ n' \in Reqs /\ UNCHANGED <<stage, co>>
    BY <1>2 DEF HpUrl
  <2>2. CASE parser = "idle" /\ res' = [res EXCEPT ![n + 1] = "conn"]
    BY <2>1, <2>2
  <2>3. CASE parser = "url" /\ res' = [res EXCEPT ![n] = "gone", ![n + 1] = "conn"]
    BY <2>1, <2>3
  <2> QED BY <1>2, <2>1, <2>2, <2>3 DEF HpUrl
<1>3. CASE FpBegin
  BY <1>3 DEF FpBegin
<1>4. CASE HpHeaders
  BY <1>4 DEF HpHeaders, sessVars
<1>5. CASE HpMessageComplete \/ FpEndRequest
  <2>1. OnSession(n) /\ parser = "head" /\ parser' \in {"idle", "dead"} /\ n' = n
    BY <1>5 DEF HpMessageComplete, FpEndRequest
  <2> QED BY <2>1 DEF OnSession
<1>6. CASE WriteCb
  <2>1. Head(pending) \in Reqs /\ co[Head(pending)] = "wait"
    BY <1>6 DEF WriteCb, TurnInv, OutTypes
  <2>2. co' = [co EXCEPT ![Head(pending)] = "run"] /\ UNCHANGED <<res, stage, parser, n>>
    BY <1>6 DEF WriteCb, parsVars
  <2> QED BY <2>1, <2>2
<1>7. ASSUME NEW r \in Reqs, ReqStep(r) PROVE RequestInv'
  <2>1. UNCHANGED <<parser, n>>
    BY <1>7 DEF ReqStep, CoStart, CoEnd, Release, OnSessionMiddle, OnSessionAfter, OnSessionFinish,
       WriteHeader, End, Write, parsVars
  <2>2. CASE CoStart(r) \/ CoEnd(r) \/ Release(r)
    BY <2>1, <2>2 DEF CoStart, CoEnd, Release, TurnInv
  <2>3. CASE OnSessionMiddle(r) \/ OnSessionAfter(r)
    BY <2>1, <2>3 DEF OnSessionMiddle, OnSessionAfter
  <2>4. CASE OnSessionFinish(r)
    BY <2>1, <2>4 DEF OnSessionFinish
  <2>5. CASE WriteHeader(r) \/ End(r) \/ \E size \in Sizes : Write(r, size)
    <3>1. ASSUME NEW hdr, NEW last, NEW fin, WriteBuffer(r, hdr, last, fin)
          PROVE  co' = co \/ co' = [co EXCEPT ![r] = "wait"]
      BY <3>1 DEF WriteBuffer
    <3>2. cur = r /\ UNCHANGED <<res, stage>> /\ (co' = co \/ co' = [co EXCEPT ![r] = "wait"])
      BY <2>5, <3>1 DEF WriteHeader, End, Write
    <3>3. co[r] = "run"
      BY <3>2 DEF TurnInv
    <3> QED BY <2>1, <3>2, <3>3
  <2> QED BY <1>7, <2>2, <2>3, <2>4, <2>5 DEF ReqStep
<1>8. CASE UNCHANGED vars
  BY <1>8 DEF vars
<1> QED BY <1>1, <1>2, <1>3, <1>4, <1>5, <1>6, <1>7, <1>8, NextCases DEF ParsStep

\* A step that writes: what it puts on the wire unless the connection closes.
Puts(r, hdr, fin) ==
  /\ pending' = Append(pending, r) /\ co' = [co EXCEPT ![r] = "wait"] /\ cur' = 0
  /\ \E last : wire' = Append(wire, [req |-> r, id |-> n, head |-> hdr, last |-> last, fin |-> fin])

Withheld == is_closing /\ UNCHANGED <<pending, wire, co, cur>>

LEMMA WriteBufferPuts ==
  ASSUME NEW r, NEW hdr, NEW last, NEW fin, WriteBuffer(r, hdr, last, fin)
  PROVE  Withheld \/ (~is_closing /\ Puts(r, hdr, fin))
BY DEF WriteBuffer, Puts, Withheld

Writes(r) == WriteHeader(r) \/ End(r) \/ \E size \in Sizes : Write(r, size)

LEMMA WriteEffect ==
  ASSUME OutTypes, NEW r \in Reqs, Writes(r)
  PROVE  /\ cur = r /\ ~body[r] /\ head' = [head EXCEPT ![r] = TRUE]
         /\ UNCHANGED <<inread, res, stage, n, piped, split, is_closing, parser>>
         /\ UNCHANGED <<conn, refer, reading>>
         /\ \/ body' = body
            \/ body' = [body EXCEPT ![r] = TRUE]
         /\ \/ Withheld
            \/ ~is_closing /\ \E hdr, fin \in BOOLEAN :
                 Puts(r, hdr, fin) /\ (hdr <=> ~head[r]) /\ (fin => body'[r])
<1> USE DEF connVars, parsVars
<1>1. CASE WriteHeader(r)
  <2>1. Withheld \/ (~is_closing /\ Puts(r, TRUE, FALSE))
    BY <1>1, WriteBufferPuts DEF WriteHeader
  <2> QED BY <1>1, <2>1 DEF WriteHeader
<1>2. CASE End(r)
  <2>1. Withheld \/ (~is_closing /\ Puts(r, ~head[r], TRUE))
    BY <1>2, WriteBufferPuts DEF End
  <2>2. body'[r]
    BY <1>2 DEF End, OutTypes
  <2>3. (~head[r]) \in BOOLEAN
    OBVIOUS
  <2> QED BY <1>2, <2>1, <2>2, <2>3 DEF End
<1>3. ASSUME NEW size \in Sizes, Write(r, size)
      PROVE  Withheld \/ (~is_closing /\ Puts(r, ~head[r], FALSE))
  BY <1>3, WriteBufferPuts DEF Write
<1>4. CASE \E size \in Sizes : Write(r, size)
  <2>1. (~head[r]) \in BOOLEAN
    OBVIOUS
  <2> QED BY <1>3, <1>4, <2>1 DEF Write
<1> QED BY <1>1, <1>2, <1>4 DEF Writes

-----------------------------------------------------------------------------
(* Whose turn it is.                                                       *)

LEMMA TailElements ==
  ASSUME NEW S, NEW s \in Seq(S), s # <<>>
  PROVE  /\ Tail(s) \in Seq(S) /\ Head(s) = s[1] /\ 1 \in DOMAIN s
         /\ \A i \in DOMAIN Tail(s) : i + 1 \in DOMAIN s /\ i \in Nat /\ Tail(s)[i] = s[i + 1]
OBVIOUS

LEMMA AppendElements ==
  ASSUME NEW S, NEW s \in Seq(S), NEW e
  PROVE  /\ DOMAIN Append(s, e) = DOMAIN s \union {Len(s) + 1}
         /\ \A i \in DOMAIN s : Append(s, e)[i] = s[i] /\ i \in 1 .. Len(s)
         /\ Append(s, e)[Len(s) + 1] = e
         /\ Len(s) \in Nat
OBVIOUS

LEMMA TurnInvStep ==
  ASSUME TypeOK, RequestInv, TurnInv, [Next]_vars
  PROVE  TurnInv'
<1>a. pending \in Seq(Reqs) /\ co \in [Reqs -> Status] /\ n \in 0 .. MaxReq
  BY DEF TypeOK, OutTypes, SessTypes, ParsTypes
<1> USE DEF TurnInv
<1>1. CASE ConnStep
  BY <1>1 DEF ConnStep, Accept, ReadData, ReadParsed, ReadStops, CloseCb, sessVars, outVars, Loop
<1>2. CASE ParsStep
  <2>1. CASE HpUrl \/ HpHeaders \/ FpBegin
    BY <2>1 DEF HpUrl, HpHeaders, FpBegin, sessVars, outVars
  <2>2. CASE HpMessageComplete \/ FpEndRequest
    <3>1. co' = [co EXCEPT ![n] = "ready"] /\ n \in Reqs /\ co[n] = "none"
      BY <2>2, BoundsAssumption DEF HpMessageComplete, FpEndRequest, OnSession, RequestInv
    <3>2. UNCHANGED <<cur, pending>> /\ inread # "no"
      BY <2>2 DEF HpMessageComplete, FpEndRequest, outVars
    <3> QED BY <1>a, <3>1, <3>2 DEF Reqs
  <2> QED BY <1>2, <2>1, <2>2 DEF ParsStep
<1>3. CASE WriteCb
  <2> DEFINE h == Head(pending)
  <2>1. h \in Reqs /\ co[h] = "wait" /\ cur = 0 /\ inread' = "no"
    BY <1>a, <1>3, TailElements DEF WriteCb, Loop
  <2>2. pending' = Tail(pending) /\ cur' = h /\ co' = [co EXCEPT ![h] = "run"]
    BY <1>3 DEF WriteCb
  <2>3. pending # <<>>
    BY <1>3 DEF WriteCb
  <2>4. \A i \in DOMAIN pending' : pending'[i] # h /\ co[pending'[i]] = "wait" /\ pending'[i] \in Reqs
    BY <1>a, <2>2, <2>3, TailElements
  <2>5. \A i, j \in DOMAIN pending' : pending'[i] = pending'[j] => i = j
    BY <1>a, <2>2, <2>3, TailElements
  <2>6. \A r \in Reqs : co'[r] = "run" <=> cur' = r
    BY <1>a, <2>1, <2>2, BoundsAssumption DEF Reqs
  <2>7. \A i \in DOMAIN pending' : co'[pending'[i]] = "wait"
    BY <1>a, <2>2, <2>4
  <2> QED BY <2>1, <2>5, <2>6, <2>7
<1>4. ASSUME NEW r \in Reqs, ReqStep(r) PROVE TurnInv'
  <2>1. CASE CoStart(r)
    <3>1. UNCHANGED <<inread, pending>> /\ co[r] = "ready" /\ cur = 0 /\ inread = "no"
      BY <2>1 DEF CoStart, outVars, Loop
    <3>2. co' = [co EXCEPT ![r] = "run"] /\ cur' = r
      BY <2>1 DEF CoStart
    <3>3. \A q \in Reqs : co'[q] = "run" <=> cur' = q
      BY <1>a, <3>1, <3>2, BoundsAssumption DEF Reqs
    <3>4. \A i \in DOMAIN pending : pending[i] \in Reqs /\ pending[i] # r
      BY <1>a, <3>1
    <3>5. \A i \in DOMAIN pending' : co'[pending'[i]] = "wait"
      BY <1>a, <3>1, <3>2, <3>4
    <3>6. \A i, j \in DOMAIN pending' : pending'[i] = pending'[j] => i = j
      BY <3>1
    <3> QED BY <3>1, <3>3, <3>5, <3>6
  <2>2. CASE CoEnd(r) \/ Release(r)
    <3>1. UNCHANGED <<inread, pending>> /\ co[r] = "run" /\ cur' = 0
      BY <2>2 DEF CoEnd, Release, outVars
    <3>2. \E v \in {"ended", "none"} : co' = [co EXCEPT ![r] = v]
      BY <2>2 DEF CoEnd, Release
    <3>3. \A q \in Reqs : co'[q] = "run" <=> cur' = q
      BY <1>a, <2>2, <3>1, <3>2, BoundsAssumption DEF Reqs
    <3>4. \A i \in DOMAIN pending' : pending[i] \in Reqs /\ pending[i] # r
      BY <1>a, <3>1
    <3>5. \A i \in DOMAIN pending' : co'[pending'[i]] = "wait"
      BY <1>a, <3>1, <3>2, <3>4
    <3>6. \A i, j \in DOMAIN pending' : pending'[i] = pending'[j] => i = j
      BY <3>1
    <3> QED BY <3>1, <3>3, <3>5, <3>6
  <2>3. CASE OnSessionMiddle(r) \/ OnSessionAfter(r) \/ OnSessionFinish(r)
    <3>1. UNCHANGED <<cur, inread, pending>> /\ co[r] = "ended"
      BY <2>3 DEF OnSessionMiddle, OnSessionAfter, OnSessionFinish, outVars
    <3>2. \E v \in {"none", "ready"} : co' = [co EXCEPT ![r] = v]
      BY <2>3 DEF OnSessionMiddle, OnSessionAfter, OnSessionFinish
    <3> QED BY <1>a, <3>1, <3>2, BoundsAssumption DEF Reqs
  <2>4. CASE Writes(r)
    <3>1. cur = r /\ co[r] = "run" /\ inread' = inread
      BY <2>4, WriteEffect DEF TypeOK
    <3>2. CASE UNCHANGED <<pending, co, cur>>
      BY <3>1, <3>2
    <3>3. CASE pending' = Append(pending, r) /\ co' = [co EXCEPT ![r] = "wait"] /\ cur' = 0
      <4>1. \A i \in DOMAIN pending : pending[i] # r /\ pending[i] \in Reqs
        BY <1>a, <3>1
      <4>2. \A i, j \in DOMAIN pending' : pending'[i] = pending'[j] => i = j
        BY <1>a, <3>3, <4>1, AppendElements
      <4>3. \A i \in DOMAIN pending' : co'[pending'[i]] = "wait"
        BY <1>a, <3>3, <4>1, AppendElements
      <4>4. \A q \in Reqs : co'[q] = "run" <=> cur' = q
        BY <1>a, <3>1, <3>3, BoundsAssumption DEF Reqs
      <4> QED BY <3>1, <3>3, <4>2, <4>3, <4>4
    <3> QED BY <2>4, <3>2, <3>3, WriteEffect DEF Withheld, Puts, TypeOK
  <2> QED BY <1>4, <2>1, <2>2, <2>3, <2>4 DEF ReqStep, Writes
<1>5. CASE UNCHANGED vars
  BY <1>5 DEF vars
<1> QED BY <1>1, <1>2, <1>3, <1>4, <1>5, NextCases

-----------------------------------------------------------------------------
(* refer_ counts the responses.                                            *)

LEMMA LiveSetFinite ==
  ASSUME TypeOK
  PROVE  IsFiniteSet(LiveSet) /\ Cardinality(LiveSet) \in Nat /\ IsFiniteSet(LiveSet')
<1>1. IsFiniteSet(Reqs)
  BY FS_Interval, BoundsAssumption DEF Reqs
<1>2. LiveSet \subseteq Reqs /\ LiveSet' \subseteq Reqs
  BY DEF LiveSet
<1> QED BY <1>1, <1>2, FS_Subset, FS_CardinalityType

Same       == LiveSet' = LiveSet /\ refer' = refer
Gains(x)   == x \notin LiveSet /\ LiveSet' = LiveSet \union {x} /\ refer' = refer + 1
Loses(x)   == x \in LiveSet /\ LiveSet' = LiveSet \ {x} /\ refer' = refer - 1
Swaps(x, y) ==
  /\ x \in LiveSet /\ y \notin LiveSet
  /\ LiveSet' = (LiveSet \ {x}) \union {y} /\ refer' = refer

\* Every step changes refer_ as it changes the set of responses.
LEMMA ReferEffect ==
  ASSUME TypeOK, RequestInv, CountInv, ConnInv, [Next]_vars
  PROVE  Same \/ (\E x \in Reqs : Gains(x) \/ Loses(x)) \/ (\E x, y \in Reqs : Swaps(x, y))
<1>a. n \in 0 .. MaxReq /\ res \in [Reqs -> Holders] /\ refer \in Nat /\ MaxReq \in Nat
  BY BoundsAssumption DEF TypeOK, ParsTypes, SessTypes, ConnTypes
<1>1. CASE ConnStep
  <2>1. res' = res
    BY <1>1 DEF ConnStep, Accept, ReadData, ReadParsed, ReadStops, CloseCb, sessVars
  <2>2. LiveSet' = LiveSet
    BY <2>1 DEF LiveSet, Live
  <2>3. CASE Accept
    <3>1. LiveSet = {}
      BY <1>a, <2>3 DEF Accept, ConnInv, LiveSet, Live, RequestInv, Reqs
    <3>2. refer = 0
      BY <3>1, FS_EmptySet DEF CountInv
    <3> QED BY <2>2, <2>3, <3>2 DEF Accept, CloseEx, Same
  <2>4. CASE ReadData \/ ReadParsed \/ ReadStops \/ CloseCb
    BY <2>2, <2>4 DEF ReadData, ReadParsed, ReadStops, CloseCb, CloseEx, connVars, Same
  <2> QED BY <1>1, <2>3, <2>4 DEF ConnStep
<1>2. CASE HpUrl
  <2>1. n + 1 \in Reqs /\ n + 1 \notin LiveSet
    BY <1>a, <1>2 DEF HpUrl, RequestInv, LiveSet, Live, Reqs
  <2>2. CASE res' = [res EXCEPT ![n + 1] = "conn"] /\ refer' = refer + 1
    <3>1. LiveSet' = LiveSet \union {n + 1}
      BY <1>a, <2>1, <2>2 DEF LiveSet, Live
    <3> QED BY <2>1, <2>2, <3>1 DEF Gains
  <2>3. CASE res' = [res EXCEPT ![n] = "gone", ![n + 1] = "conn"] /\ refer' = refer /\ parser = "url"
    <3>1. n \in Reqs /\ n \in LiveSet
      BY <1>a, <2>3 DEF RequestInv, LiveSet, Live
    <3>2. LiveSet' = (LiveSet \ {n}) \union {n + 1}
      BY <1>a, <2>1, <2>3, <3>1 DEF LiveSet, Live
    <3> QED BY <2>1, <2>3, <3>1, <3>2 DEF Swaps
  <2> QED BY <1>2, <2>2, <2>3 DEF HpUrl
<1>3. CASE FpBegin
  <2>1. n + 1 \in Reqs /\ n + 1 \notin LiveSet
    BY <1>a, <1>3 DEF FpBegin, RequestInv, LiveSet, Live, Reqs
  <2>2. res' = [res EXCEPT ![n + 1] = "conn"] /\ refer' = refer + 1
    BY <1>3 DEF FpBegin
  <2>3. LiveSet' = LiveSet \union {n + 1}
    BY <1>a, <2>1, <2>2 DEF LiveSet, Live
  <2> QED BY <2>1, <2>2, <2>3 DEF Gains
<1>4. CASE HpHeaders \/ WriteCb \/ UNCHANGED vars
  <2>1. UNCHANGED <<res, refer>>
    BY <1>4 DEF HpHeaders, WriteCb, sessVars, connVars, vars
  <2> QED BY <2>1 DEF LiveSet, Live, Same
<1>5. CASE HpMessageComplete \/ FpEndRequest
  <2>1. res' = [res EXCEPT ![n] = "session"] /\ refer' = refer /\ parser = "head"
    BY <1>5 DEF HpMessageComplete, FpEndRequest, OnSession, connVars
  <2>2. n \in Reqs /\ res[n] = "conn"
    BY <2>1 DEF RequestInv
  <2> QED BY <1>a, <2>1, <2>2 DEF LiveSet, Live, Same
<1>6. ASSUME NEW r \in Reqs, ReqStep(r)
      PROVE  Same \/ \E x \in Reqs : Loses(x)
  <2>1. CASE UNCHANGED <<res, refer>>
    BY <2>1 DEF LiveSet, Live, Same
  <2>2. CASE res' = [res EXCEPT ![r] = "gone"] /\ Close(keep) /\ r \in LiveSet
    <3>1. LiveSet' = LiveSet \ {r}
      BY <1>a, <2>2 DEF LiveSet, Live
    <3>2. refer' = refer - 1
      BY <2>2 DEF Close, CloseEx
    <3> QED BY <2>2, <3>1, <3>2 DEF Loses
  <2>3. CASE OnSessionFinish(r)
    <3>1. res[r] = "session" /\ r \in LiveSet
      BY <2>3 DEF OnSessionFinish, RequestInv, LiveSet, Live
    <3>2. CASE res' = [res EXCEPT ![r] = "kept"] /\ UNCHANGED connVars
      BY <1>a, <3>1, <3>2 DEF LiveSet, Live, Same, connVars
    <3> QED BY <2>2, <2>3, <3>1, <3>2 DEF OnSessionFinish
  <2>4. CASE Release(r)
    <3>1. r \in LiveSet
      BY <2>4 DEF Release, LiveSet, Live
    <3> QED BY <2>2, <2>4, <3>1 DEF Release
  <2>5. CASE CoStart(r) \/ CoEnd(r) \/ OnSessionMiddle(r) \/ OnSessionAfter(r)
    BY <2>1, <2>5 DEF CoStart, CoEnd, OnSessionMiddle, OnSessionAfter, connVars
  <2>6. CASE Writes(r)
    BY <2>1, <2>6, WriteEffect DEF TypeOK
  <2> QED BY <1>6, <2>3, <2>4, <2>5, <2>6 DEF ReqStep, Writes
<1> QED BY <1>1, <1>2, <1>3, <1>4, <1>5, <1>6, NextCases DEF ParsStep

LEMMA CountInvStep ==
  ASSUME TypeOK, RequestInv, CountInv, ConnInv, [Next]_vars
  PROVE  CountInv' /\ refer' \in Nat
<1>1. IsFiniteSet(LiveSet) /\ refer \in Nat /\ refer = Cardinality(LiveSet)
  BY LiveSetFinite DEF CountInv
<1>2. CASE Same
  BY <1>1, <1>2 DEF Same, CountInv
<1>3. ASSUME NEW x \in Reqs, Gains(x) PROVE CountInv' /\ refer' \in Nat
  BY <1>1, <1>3, FS_AddElement DEF Gains, CountInv
<1>4. ASSUME NEW x \in Reqs, Loses(x) PROVE CountInv' /\ refer' \in Nat
  <2>1. IsFiniteSet(LiveSet \ {x}) /\ Cardinality(LiveSet \ {x}) = Cardinality(LiveSet) - 1
    BY <1>1, <1>4, FS_RemoveElement DEF Loses
  <2>2. Cardinality(LiveSet \ {x}) \in Nat
    BY <2>1, FS_CardinalityType
  <2> QED BY <1>1, <1>4, <2>1, <2>2 DEF Loses, CountInv
<1>5. ASSUME NEW x \in Reqs, NEW y \in Reqs, Swaps(x, y) PROVE CountInv' /\ refer' \in Nat
  <2>1. IsFiniteSet(LiveSet \ {x}) /\ Cardinality(LiveSet \ {x}) = Cardinality(LiveSet) - 1
    BY <1>1, <1>5, FS_RemoveElement DEF Swaps
  <2>2. Cardinality((LiveSet \ {x}) \union {y}) = Cardinality(LiveSet \ {x}) + 1
    BY <1>5, <2>1, FS_AddElement DEF Swaps
  <2> QED BY <1>1, <1>5, <2>1, <2>2 DEF Swaps, CountInv
<1> QED BY <1>2, <1>3, <1>4, <1>5, ReferEffect

-----------------------------------------------------------------------------
(* When the connection is closed.                                          *)

LEMMA ConnTypesStep ==
  ASSUME TypeOK, [Next]_vars
  PROVE  conn' \in {"none", "open", "closing", "deleted"} /\ is_closing' \in BOOLEAN
         /\ reading' \in BOOLEAN
<1> USE DEF TypeOK, ConnTypes
<1>1. CASE ConnStep
  BY <1>1 DEF ConnStep, Accept, ReadData, ReadParsed, ReadStops, CloseCb, CloseEx, connVars
<1>2. CASE ParsStep
  BY <1>2 DEF ParsStep, HpUrl, HpHeaders, HpMessageComplete, FpBegin, FpEndRequest, connVars
<1>3. CASE WriteCb \/ UNCHANGED vars
  BY <1>3 DEF WriteCb, connVars, vars
<1>4. ASSUME NEW r \in Reqs, ReqStep(r)
      PROVE conn' \in {"none", "open", "closing", "deleted"} /\ is_closing' \in BOOLEAN
            /\ reading' \in BOOLEAN
  <2>1. CASE Writes(r)
    BY <2>1, WriteEffect
  <2>2. CASE CoStart(r) \/ CoEnd(r) \/ Release(r) \/ OnSessionMiddle(r) \/ OnSessionAfter(r)
             \/ OnSessionFinish(r)
    BY <2>2 DEF CoStart, CoEnd, Release, OnSessionMiddle, OnSessionAfter, OnSessionFinish,
       Close, CloseEx, connVars
  <2> QED BY <1>4, <2>1, <2>2 DEF ReqStep, Writes
<1> QED BY <1>1, <1>2, <1>3, <1>4, NextCases

\* close_ex leaves the connection open while a response is left.
LEMMA EmptyIsZero ==
  ASSUME TypeOK, CountInv
  PROVE  refer = 0 <=> LiveSet = {}
BY LiveSetFinite, FS_EmptySet DEF CountInv

LEMMA ConnInvStep ==
  ASSUME TypeOK, RequestInv, TurnInv, CountInv, CountInv', ConnInv, [Next]_vars
  PROVE  ConnInv'
<1>a. n \in 0 .. MaxReq /\ res \in [Reqs -> Holders] /\ refer \in Nat
  BY DEF TypeOK, ParsTypes, SessTypes, ConnTypes
<1>b. refer' = 0 => LiveSet' = {}
  BY LiveSetFinite, FS_EmptySet DEF CountInv
<1>1. CASE ConnStep
  <2>1. UNCHANGED <<n, res, split>> /\ LiveSet' = LiveSet
    BY <1>1 DEF ConnStep, Accept, ReadData, ReadParsed, ReadStops, CloseCb, sessVars, parsVars, LiveSet, Live
  <2>2. CASE Accept
    <3>1. LiveSet = {} /\ n = 0
      BY <1>a, <2>2 DEF Accept, ConnInv, LiveSet, Live, RequestInv, Reqs
    <3> QED BY <2>1, <2>2, <3>1 DEF Accept, CloseEx, ConnInv, Loop
  <2>3. CASE ReadData \/ ReadParsed
    BY <2>1, <2>3 DEF ReadData, ReadParsed, connVars, ConnInv
  <2>4. CASE ReadStops
    BY <1>b, <2>1, <2>4 DEF ReadStops, CloseEx, ConnInv
  <2>5. CASE CloseCb
    BY <2>1, <2>5 DEF CloseCb, ConnInv, Loop
  <2> QED BY <1>1, <2>2, <2>3, <2>4, <2>5 DEF ConnStep
<1>2. CASE HpUrl
  <2>1. inread # "no" /\ inread' = "on"
    BY <1>2 DEF HpUrl
  <2>2. CASE UNCHANGED <<conn, is_closing, reading, split>>
    BY <2>1, <2>2 DEF ConnInv
  <2>3. CASE split' = TRUE /\ conn' \in {conn, "closing"} /\ parser = "url"
    BY <1>a, <2>3 DEF ConnInv, RequestInv, Reqs
  <2> QED BY <1>2, <2>2, <2>3 DEF HpUrl
<1>3. CASE FpBegin
  BY <1>3 DEF FpBegin, ConnInv
<1>4. CASE HpHeaders \/ WriteCb \/ UNCHANGED vars
  <2>1. UNCHANGED <<conn, n, reading, split, res>> /\ (inread' # "no" => inread # "no")
    BY <1>4 DEF HpHeaders, WriteCb, sessVars, connVars, parsVars, vars
  <2> QED BY <2>1 DEF ConnInv, LiveSet, Live
<1>5. CASE HpMessageComplete \/ FpEndRequest
  BY <1>5 DEF HpMessageComplete, FpEndRequest, connVars, ConnInv
<1>6. ASSUME NEW r \in Reqs, ReqStep(r) PROVE ConnInv'
  <2>1. CASE UNCHANGED <<conn, n, reading, split, res, inread>>
    BY <2>1 DEF ConnInv, LiveSet, Live
  <2>2. CASE Close(keep) /\ r \in LiveSet /\ inread = "no" /\ UNCHANGED <<n, split, inread>>
    <3>1. n # 0
      BY <1>a, <2>2 DEF RequestInv, LiveSet, Live, Reqs
    <3>2. conn # "none" /\ (conn \in {"closing", "deleted"} => split)
      BY <2>2, <3>1 DEF ConnInv
    <3>3. conn' = conn \/ (conn' = "closing" /\ refer' = 0 /\ reading' = FALSE)
      BY <2>2 DEF Close, CloseEx
    <3>4. reading' => reading
      BY <2>2 DEF Close, CloseEx
    <3>5. CASE conn' = conn
      BY <2>2, <3>2, <3>4, <3>5 DEF ConnInv
    <3>6. CASE conn' = "closing" /\ LiveSet' = {} /\ inread = "no" /\ ~reading'
      BY <2>2, <3>6 DEF ConnInv
    <3> QED BY <1>b, <2>2, <3>3, <3>5, <3>6
  <2>3. CASE OnSessionFinish(r)
    <3>1. r \in LiveSet /\ inread = "no"
      BY <2>3 DEF OnSessionFinish, RequestInv, LiveSet, Live, Loop
    <3>2. CASE res' = [res EXCEPT ![r] = "kept"] /\ UNCHANGED connVars
      <4>1. UNCHANGED <<conn, n, reading, split, inread>> /\ LiveSet' = LiveSet
        BY <1>a, <2>3, <3>1, <3>2 DEF OnSessionFinish, LiveSet, Live, connVars, parsVars
      <4> QED BY <4>1 DEF ConnInv
    <3> QED BY <2>2, <2>3, <3>1, <3>2 DEF OnSessionFinish, parsVars
  <2>4. CASE Release(r)
    <3>1. r \in LiveSet /\ inread = "no"
      BY <2>4, BoundsAssumption DEF Release, LiveSet, Live, TurnInv, Reqs
    <3> QED BY <2>2, <2>4, <3>1 DEF Release, parsVars
  <2>5. CASE CoStart(r) \/ CoEnd(r) \/ OnSessionMiddle(r) \/ OnSessionAfter(r)
    BY <2>1, <2>5 DEF CoStart, CoEnd, OnSessionMiddle, OnSessionAfter, connVars, parsVars
  <2>6. CASE Writes(r)
    BY <2>1, <2>6, WriteEffect DEF TypeOK
  <2> QED BY <1>6, <2>3, <2>4, <2>5, <2>6 DEF ReqStep, Writes
<1> QED BY <1>1, <1>2, <1>3, <1>4, <1>5, <1>6, NextCases DEF ParsStep

-----------------------------------------------------------------------------
(* What the wire says of the responses.                                    *)

\* The clauses of WireInv by name.
WireFlags == \A i \in DOMAIN wire :
  /\ wire[i].req <= n
  /\ head[wire[i].req]
  /\ wire[i].fin => body[wire[i].req]
WireHeads == \A r \in Reqs : head[r] => is_closing \/ \E i \in DOMAIN wire : wire[i].req = r
WireAnswers == ~piped => \A r \in 1 .. n - 1 : Answered(r) \/ res[r] = "gone"

LEMMA WireReq ==
  ASSUME TypeOK
  PROVE  wire \in Seq(Answer) /\ \A i \in DOMAIN wire : wire[i].req \in Reqs
<1>1. wire \in Seq(Answer)
  BY DEF TypeOK, OutTypes
<1>2. \A i \in DOMAIN wire : wire[i] \in Answer
  BY <1>1
<1>3. \A a \in Answer : a.req \in Reqs
  BY DEF Answer
<1> QED BY <1>1, <1>2, <1>3

LEMMA WirePartsNext ==
  ASSUME WireFlags', WireHeads', WireAnswers'
  PROVE  WireInv'
BY DEF WireInv, WireFlags, WireHeads, WireAnswers

\* Steps that write nothing.
LEMMA WireQuiet ==
  ASSUME TypeOK, WireInv, UNCHANGED <<head, body, wire>>, n' \in {n, n + 1},
         is_closing => is_closing', WireAnswers'
  PROVE  WireInv'
<1>a. n \in 0 .. MaxReq /\ wire \in Seq(Answer) /\ MaxReq \in Nat
  BY BoundsAssumption DEF TypeOK, OutTypes, ParsTypes
<1>1. WireFlags'
  <2>1. ASSUME NEW i \in DOMAIN wire
        PROVE  wire[i].req <= n' /\ head[wire[i].req] /\ (wire[i].fin => body[wire[i].req])
    <3>2. wire[i].req \in Nat
      BY <2>1, WireReq DEF Reqs
    <3>3. wire[i].req <= n /\ head[wire[i].req] /\ (wire[i].fin => body[wire[i].req])
      BY <2>1 DEF WireInv
    <3> QED BY <1>a, <3>2, <3>3
  <2> QED BY <2>1 DEF WireFlags
<1>2. WireHeads'
  BY DEF WireHeads, WireInv
<1> QED BY <1>1, <1>2, WirePartsNext

LEMMA WirePut ==
  ASSUME TypeOK, WireInv, NEW r \in Reqs, NEW hdr, NEW fin, Puts(r, hdr, fin), r <= n,
         UNCHANGED <<n, piped, res, is_closing>>, fin => body'[r],
         head' = [head EXCEPT ![r] = TRUE], body' = body \/ body' = [body EXCEPT ![r] = TRUE]
  PROVE  WireInv'
<1>a. /\ wire \in Seq(Answer) /\ head \in [Reqs -> BOOLEAN] /\ body \in [Reqs -> BOOLEAN]
      /\ \A i \in DOMAIN wire : wire[i].req \in Reqs
  BY WireReq DEF TypeOK, OutTypes
<1>b. PICK last : wire' = Append(wire, [req |-> r, id |-> n, head |-> hdr, last |-> last, fin |-> fin])
  BY DEF Puts
<1>c. /\ DOMAIN wire' = DOMAIN wire \union {Len(wire) + 1}
      /\ \A i \in DOMAIN wire : wire'[i] = wire[i]
      /\ wire'[Len(wire) + 1].req = r /\ wire'[Len(wire) + 1].fin = fin
  BY <1>a, <1>b, AppendElements
<1>d. \A q \in Reqs : (head[q] => head'[q]) /\ (body[q] => body'[q])
  BY <1>a
<1>1. WireFlags'
  <2>1. head'[r]
    BY <1>a
  <2> QED BY <1>a, <1>c, <1>d, <2>1 DEF WireFlags, WireInv
<1>2. WireHeads'
  <2>1. ASSUME NEW q \in Reqs, head'[q], ~is_closing'
        PROVE \E i \in DOMAIN wire' : wire'[i].req = q
    <3>1. CASE q = r
      BY <1>c, <3>1
    <3>2. CASE q # r
      BY <1>a, <1>c, <2>1, <3>2 DEF WireInv
    <3> QED BY <3>1, <3>2
  <2> QED BY <2>1 DEF WireHeads
<1>3. WireAnswers'
  <2>1. \A q : Answered(q) => Answered(q)'
    BY <1>c DEF Answered
  <2> QED BY <2>1 DEF WireAnswers, WireInv
<1> QED BY <1>1, <1>2, <1>3, WirePartsNext

\* A response that is not the parser's any more stays answered, or gone.
LEMMA WireAnswersKept ==
  ASSUME TypeOK, WireInv, UNCHANGED <<wire, n>>, ~piped' => ~piped,
         \A r \in Reqs : res[r] = "gone" => res'[r] = "gone"
  PROVE  WireAnswers'
<1>1. n \in 0 .. MaxReq /\ MaxReq \in Nat
  BY BoundsAssumption DEF TypeOK, ParsTypes
<1>2. 1 .. n - 1 \subseteq Reqs
  BY <1>1 DEF Reqs
<1>3. \A r : Answered(r)' <=> Answered(r)
  BY DEF Answered
<1> QED BY <1>2, <1>3 DEF WireAnswers, WireInv

\* The parser begins request n + 1.
LEMMA WireAnswersBegin ==
  ASSUME TypeOK, WireInv, UNCHANGED wire, n' = n + 1, 
         ~piped' => \A r \in 1 .. n : Answered(r) \/ res'[r] = "gone"
  PROVE  WireAnswers'
<1>1. n \in 0 .. MaxReq
  BY BoundsAssumption DEF TypeOK, ParsTypes
<1>2. n' - 1 = n
  BY <1>1
<1>3. \A r : Answered(r)' <=> Answered(r)
  BY DEF Answered
<1> QED BY <1>2, <1>3 DEF WireAnswers

LEMMA WireInvStep ==
  ASSUME TypeOK, RequestInv, TurnInv, WireInv, [Next]_vars
  PROVE  WireInv'
<1>a. /\ n \in 0 .. MaxReq /\ MaxReq \in Nat /\ res \in [Reqs -> Holders] /\ piped \in BOOLEAN
      /\ co \in [Reqs -> Status]
  BY BoundsAssumption DEF TypeOK, ParsTypes, SessTypes
<1>1. CASE ConnStep
  <2>1. UNCHANGED <<head, body, wire, piped, n, res>> /\ (is_closing => is_closing')
    BY <1>1 DEF ConnStep, Accept, ReadData, ReadParsed, ReadStops, CloseCb, CloseEx,
       sessVars, parsVars, outVars, connVars
  <2> QED BY <2>1, WireQuiet, WireAnswersKept
<1>2. CASE HpUrl
  <2>1. UNCHANGED <<head, body, wire>> /\ n' = n + 1 /\ (is_closing => is_closing')
    BY <1>2 DEF HpUrl, outVars
  <2>2. CASE piped' = (piped \/ \E r \in 1 .. n : ~Answered(r))
    BY <2>1, <2>2, WireAnswersBegin, WireQuiet
  <2>3. CASE res' = [res EXCEPT ![n] = "gone", ![n + 1] = "conn"] /\ piped' = piped /\ parser = "url"
    <3>1. n \in Reqs /\ n + 1 # n /\ res'[n] = "gone"
      BY <1>a, <2>3 DEF RequestInv, Reqs
    <3>2. \A r \in Reqs : r # n /\ r # n + 1 => res'[r] = res[r]
      BY <1>a, <2>3
    <3>3. ~piped => \A r \in 1 .. n : Answered(r) \/ res'[r] = "gone"
      BY <1>a, <3>1, <3>2 DEF WireInv, Reqs
    <3> QED BY <2>1, <2>3, <3>3, WireAnswersBegin, WireQuiet
  <2> QED BY <1>2, <2>2, <2>3 DEF HpUrl
<1>3. CASE FpBegin
  <2>1. UNCHANGED <<head, body, wire, is_closing>> /\ n' = n + 1
        /\ piped' = (piped \/ \E r \in 1 .. n : ~Answered(r))
    BY <1>3 DEF FpBegin, outVars
  <2> QED BY <2>1, WireAnswersBegin, WireQuiet
<1>4. CASE HpHeaders \/ WriteCb \/ UNCHANGED vars
  <2>1. UNCHANGED <<head, body, wire, piped, n, res, is_closing>>
    BY <1>4 DEF HpHeaders, WriteCb, sessVars, connVars, outVars, parsVars, vars
  <2> QED BY <2>1, WireQuiet, WireAnswersKept
<1>5. CASE HpMessageComplete \/ FpEndRequest
  <2>1. res' = [res EXCEPT ![n] = "session"] /\ parser = "head"
        /\ UNCHANGED <<head, body, wire, piped, n, is_closing>>
    BY <1>5 DEF HpMessageComplete, FpEndRequest, OnSession, connVars, outVars
  <2>2. n \in Reqs /\ res[n] = "conn"
    BY <2>1 DEF RequestInv
  <2>3. \A r \in Reqs : res[r] = "gone" => res'[r] = "gone"
    BY <1>a, <2>1, <2>2
  <2> QED BY <2>1, <2>3, WireQuiet, WireAnswersKept
<1>6. ASSUME NEW r \in Reqs, ReqStep(r) PROVE WireInv'
  <2>1. CASE CoStart(r) \/ CoEnd(r) \/ Release(r) \/ OnSessionMiddle(r) \/ OnSessionAfter(r)
             \/ OnSessionFinish(r)
    <3>1. UNCHANGED <<head, body, wire, piped, n>> /\ (is_closing => is_closing')
      BY <2>1 DEF CoStart, CoEnd, Release, OnSessionMiddle, OnSessionAfter, OnSessionFinish,
         Close, CloseEx, connVars, outVars, parsVars
    <3>2. res' = res \/ res' = [res EXCEPT ![r] = "gone"]
          \/ (res' = [res EXCEPT ![r] = "kept"] /\ co[r] = "ended")
      BY <2>1 DEF CoStart, CoEnd, Release, OnSessionMiddle, OnSessionAfter, OnSessionFinish
    <3>3. \A q \in Reqs : res[q] = "gone" => res'[q] = "gone"
      BY <1>a, <3>2 DEF RequestInv
    <3> QED BY <3>1, <3>3, WireQuiet, WireAnswersKept
  <2>2. CASE Writes(r)
    <3>1. r <= n
      <4>1. co[r] = "run"
        BY <2>2, WriteEffect DEF TypeOK, TurnInv
      <4> QED BY <1>a, <4>1 DEF RequestInv, Reqs
    <3>2. CASE Withheld
      <4>1. UNCHANGED <<wire, n, piped, res, is_closing>> /\ is_closing
            /\ head' = [head EXCEPT ![r] = TRUE] /\ (body' = body \/ body' = [body EXCEPT ![r] = TRUE])
        BY <2>2, <3>2, WriteEffect DEF TypeOK, Withheld
      <4>2. WireFlags'
        <5>1. \A i \in DOMAIN wire : wire[i].req \in Reqs
          BY WireReq
        <5>2. head \in [Reqs -> BOOLEAN] /\ body \in [Reqs -> BOOLEAN]
          BY DEF TypeOK, OutTypes
        <5> QED BY <4>1, <5>1, <5>2 DEF WireFlags, WireInv
      <4>3. WireHeads'
        BY <4>1 DEF WireHeads
      <4>4. WireAnswers'
        BY <4>1, WireAnswersKept
      <4> QED BY <4>2, <4>3, <4>4, WirePartsNext
    <3>3. ASSUME NEW hdr \in BOOLEAN, NEW fin \in BOOLEAN, Puts(r, hdr, fin), fin => body'[r]
          PROVE  WireInv'
      <4>1. /\ UNCHANGED <<n, piped, res, is_closing>> /\ head' = [head EXCEPT ![r] = TRUE]
            /\ body' = body \/ body' = [body EXCEPT ![r] = TRUE]
        BY <2>2, WriteEffect DEF TypeOK
      <4> HIDE DEF Puts
      <4> QED BY <3>1, <3>3, <4>1, WirePut
    <3> QED BY <2>2, <3>2, <3>3, WriteEffect DEF TypeOK
  <2> QED BY <1>6, <2>1, <2>2 DEF ReqStep, Writes
<1> QED BY <1>1, <1>2, <1>3, <1>4, <1>5, <1>6, NextCases DEF ParsStep

-----------------------------------------------------------------------------
(* The answers are in order.                                               *)

\* Nothing else writes, and a request that came too early stays noted.
LEMMA WritersOnly ==
  ASSUME TypeOK, [Next]_vars
  PROVE  (UNCHANGED wire \/ \E r \in Reqs : Writes(r)) /\ (piped => piped')
<1>a. piped \in BOOLEAN
  BY DEF TypeOK, ParsTypes
<1>1. CASE ConnStep
  BY <1>1 DEF ConnStep, Accept, ReadData, ReadParsed, ReadStops, CloseCb, outVars, parsVars
<1>2. CASE ParsStep
  BY <1>a, <1>2 DEF ParsStep, HpUrl, HpHeaders, HpMessageComplete, FpBegin, FpEndRequest, outVars
<1>3. CASE WriteCb \/ UNCHANGED vars
  BY <1>3 DEF WriteCb, parsVars, vars
<1>4. ASSUME NEW r \in Reqs, ReqStep(r)
      PROVE  (UNCHANGED wire \/ Writes(r)) /\ (piped => piped')
  <2>1. CASE CoStart(r) \/ CoEnd(r) \/ Release(r) \/ OnSessionMiddle(r) \/ OnSessionAfter(r)
             \/ OnSessionFinish(r)
    BY <2>1 DEF CoStart, CoEnd, Release, OnSessionMiddle, OnSessionAfter, OnSessionFinish,
       outVars, parsVars
  <2>2. CASE Writes(r)
    BY <2>2, WriteEffect DEF TypeOK
  <2> QED BY <1>4, <2>1, <2>2 DEF ReqStep, Writes
<1> QED BY <1>1, <1>2, <1>3, <1>4, NextCases

\* Who writes to a client that waits is the request the parser is at: the
\* ones before have their end() behind them.
LEMMA WriterIsLast ==
  ASSUME TypeOK, RequestInv, TurnInv, WireInv, ~piped, NEW r \in Reqs, Writes(r)
  PROVE  r = n
<1>1. cur = r /\ ~body[r] /\ co[r] = "run"
  BY WriteEffect DEF TypeOK, TurnInv
<1>2. r <= n /\ res[r] # "gone" /\ n \in 0 .. MaxReq
  BY <1>1 DEF TypeOK, ParsTypes, RequestInv, Reqs
<1>3. ~Answered(r)
  BY <1>1 DEF Answered, WireInv
<1> QED BY <1>2, <1>3 DEF WireInv, Reqs

LEMMA InOrderStep ==
  ASSUME TypeOK, RequestInv, TurnInv, WireInv, InOrder, [Next]_vars
  PROVE  InOrder'
<1>1. CASE UNCHANGED wire
  BY <1>1, WritersOnly DEF InOrder
<1>2. ASSUME NEW r \in Reqs, Writes(r), NEW hdr \in BOOLEAN, NEW fin \in BOOLEAN,
             Puts(r, hdr, fin), hdr <=> ~head[r], ~is_closing
      PROVE  InOrder'
  <2>1. ~body[r] /\ (~piped' => ~piped /\ r = n)
    BY <1>2, WritersOnly, WriterIsLast, WriteEffect DEF TypeOK
  <2>2. PICK last : wire' = Append(wire, [req |-> r, id |-> n, head |-> hdr, last |-> last, fin |-> fin])
    BY <1>2 DEF Puts
  <2>3. /\ Len(wire) \in Nat /\ DOMAIN wire = 1 .. Len(wire) /\ DOMAIN wire' = 1 .. Len(wire) + 1
        /\ \A i \in DOMAIN wire : wire'[i] = wire[i]
        /\ wire'[Len(wire) + 1] = [req |-> r, id |-> n, head |-> hdr, last |-> last, fin |-> fin]
    BY <2>2, WireReq, AppendElements
  <2>4. ASSUME NEW i \in DOMAIN wire
        PROVE  /\ wire'[i].head <=> \A j \in 1 .. i - 1 : wire'[j].req # wire'[i].req
               /\ \A j \in 1 .. i - 1 : wire'[j].fin => wire'[j].req # wire'[i].req
               /\ ~piped' => /\ wire'[i].id = wire'[i].req
                             /\ \A j \in 1 .. i - 1 : wire'[j].req <= wire'[i].req
    <3>1. \A j \in 1 .. i - 1 : wire'[j] = wire[j]
      BY <2>3
    <3> QED BY <2>1, <2>3, <2>4, <3>1 DEF InOrder
  <2>5. /\ r = n => \A j \in 1 .. Len(wire) : wire[j].req <= r
        /\ \A j \in 1 .. Len(wire) : wire[j].fin => wire[j].req # r
    BY <2>1, <2>3 DEF WireInv
  <2>6. ~head[r] <=> \A j \in 1 .. Len(wire) : wire[j].req # r
    BY <1>2, <2>3 DEF WireInv
  <2>7. LET i == Len(wire) + 1 IN
        /\ wire'[i].head <=> \A j \in 1 .. i - 1 : wire'[j].req # wire'[i].req
        /\ \A j \in 1 .. i - 1 : wire'[j].fin => wire'[j].req # wire'[i].req
        /\ ~piped' => /\ wire'[i].id = wire'[i].req
                      /\ \A j \in 1 .. i - 1 : wire'[j].req <= wire'[i].req
    <3>1. Len(wire) + 1 - 1 = Len(wire)
      BY <2>3
    <3>2. wire'[Len(wire) + 1].req = r /\ wire'[Len(wire) + 1].id = n
          /\ wire'[Len(wire) + 1].head = hdr
      BY <2>3
    <3> QED BY <1>2, <2>1, <2>3, <2>5, <2>6, <3>1, <3>2
  <2> QED BY <2>3, <2>4, <2>7 DEF InOrder
<1>3. ASSUME NEW r \in Reqs, Writes(r) PROVE InOrder'
  BY <1>1, <1>2, <1>3, WriteEffect DEF Withheld, TypeOK
<1> QED BY <1>1, <1>3, WritersOnly

-----------------------------------------------------------------------------
(* The theorems.                                                           *)

LEMMA Initially ==
  ASSUME Init
  PROVE  TypeOK /\ Inv /\ InOrder
<1> USE BoundsAssumption DEF Init, Reqs
<1>1. TypeOK
  <2>1. ConnTypes /\ ParsTypes
    <3>1. n = 0 /\ 0 \in 0 .. MaxReq /\ refer = 0 /\ 0 \in Nat
      OBVIOUS
    <3>2. parser = "idle" /\ v11 = FALSE /\ keep = FALSE /\ piped = FALSE /\ split = FALSE
      BY Zenon
    <3>3. conn = "none" /\ is_closing = FALSE /\ reading = FALSE
      BY Zenon
    <3> HIDE DEF Init
    <3> QED BY <3>1, <3>2, <3>3 DEF ConnTypes, ParsTypes
  <2>2. SessTypes
    <3>1. res \in [Reqs -> Holders] /\ stage \in [Reqs -> Stages] /\ co \in [Reqs -> Status]
      BY DEF Holders, Stages, Status
    <3>2. inread = "no" /\ cur = 0 /\ 0 \in 0 .. MaxReq
      OBVIOUS
    <3> QED BY <3>1, <3>2 DEF SessTypes
  <2>3. OutTypes
    BY DEF OutTypes
  <2> QED BY <2>1, <2>2, <2>3 DEF TypeOK
<1>2. RequestInv /\ TurnInv /\ ConnInv /\ WireInv
  BY DEF RequestInv, TurnInv, ConnInv, WireInv
<1>3. CountInv
  <2>1. LiveSet = {}
    BY DEF LiveSet, Live
  <2> QED BY <2>1, FS_EmptySet DEF CountInv
<1> QED BY <1>1, <1>2, <1>3 DEF Inv, InOrder

LEMMA OneStep ==
  ASSUME TypeOK, Inv, InOrder, [Next]_vars
  PROVE  (TypeOK /\ Inv /\ InOrder)'
<1>1. RequestInv' /\ TurnInv' /\ CountInv' /\ refer' \in Nat /\ WireInv' /\ InOrder'
  BY RequestInvStep, TurnInvStep, CountInvStep, WireInvStep, InOrderStep DEF Inv
<1>2. ConnInv'
  BY <1>1, ConnInvStep DEF Inv
<1>3. ConnTypes' /\ ParsTypes' /\ SessTypes' /\ OutTypes'
  BY <1>1, ConnTypesStep, ParsTypesStep, SessTypesStep, OutTypesStep DEF TypeOK, ConnTypes
<1>4. proto' \in {"http", "fastcgi"} /\ hooks' \in HookSets
  <2>1. UNCHANGED <<proto, hooks>>
    <3>1. CASE ConnStep \/ WriteCb \/ UNCHANGED vars
      BY <3>1 DEF ConnStep, Accept, ReadData, ReadParsed, ReadStops, CloseCb, WriteCb, vars
    <3>2. CASE ParsStep
      BY <3>2 DEF ParsStep, HpUrl, HpHeaders, HpMessageComplete, FpBegin, FpEndRequest
    <3>3. ASSUME NEW r \in Reqs, ReqStep(r) PROVE UNCHANGED <<proto, hooks>>
      BY <3>3 DEF ReqStep, CoStart, CoEnd, Release, OnSessionMiddle, OnSessionAfter,
         OnSessionFinish, WriteHeader, End, Write
    <3> QED BY <3>1, <3>2, <3>3, NextCases
  <2> QED BY <2>1 DEF TypeOK
<1> QED BY <1>1, <1>2, <1>3, <1>4 DEF TypeOK, Inv

(* The inductive invariant holds throughout, and with it the types of all  *)
(* variables: refer_ is never negative, and always the number of responses *)
(* that are alive (server_connection_base.cpp line 19 compares it with 1). *)
THEOREM InvHolds == Spec => [](TypeOK /\ Inv /\ InOrder)
<1>1. TypeOK /\ Inv /\ InOrder /\ [Next]_vars => (TypeOK /\ Inv /\ InOrder)'
  BY OneStep
<1> QED BY Initially, <1>1, PTL DEF Spec

(* Unless a URL came in pieces, the connection is not destroyed while a    *)
(* response refers to it.                                                  *)
THEOREM ConnectionLives == Spec => []LivesWhileUsed
<1>1. TypeOK /\ Inv /\ InOrder => LivesWhileUsed
  BY DEF Inv, ConnInv, LivesWhileUsed, LiveSet
<1> QED BY InvHolds, <1>1, PTL

(* Unless a URL came in pieces, the socket is not closed while an answer   *)
(* is being sent: who waits for write_cb has a response.                   *)
THEOREM SocketStaysForAnswers == Spec => []AnswersNotCutOff
<1>1. TypeOK /\ Inv /\ InOrder => AnswersNotCutOff
  <2> SUFFICES ASSUME TypeOK, Inv, ~split, conn \in {"closing", "deleted"}, pending # <<>>
               PROVE  FALSE
    BY DEF AnswersNotCutOff
  <2>1. 1 \in DOMAIN pending /\ pending[1] \in Reqs
    BY TailElements DEF TypeOK, OutTypes
  <2>2. co[pending[1]] = "wait"
    BY <2>1 DEF Inv, TurnInv
  <2>3. pending[1] \in LiveSet
    <3>1. res[pending[1]] \in Holders
      BY <2>1 DEF TypeOK, SessTypes
    <3> QED BY <2>1, <2>2, <3>1 DEF Inv, RequestInv, LiveSet, Live, Holders
  <2> QED BY <2>3 DEF Inv, ConnInv
<1> QED BY InvHolds, <1>1, PTL

(* Every response has its header first and once and nothing after its end, *)
(* also beside other responses; to a client that waits for each answer     *)
(* they come in order, each under the id of its request.                   *)
THEOREM AnswersComeInOrder == Spec => []InOrder
BY InvHolds, PTL
=============================================================================

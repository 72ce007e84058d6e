------------------------- MODULE ChildProcessProofs -------------------------
(***************************************************************************)
(* Proofs about ChildProcess and the Messenger in it, for any coroutines,  *)
(* strings, sockets and options.                                           *)
(*                                                                         *)
(* For the message pipe the inductive invariant says that there is a way   *)
(* to cut the whole stream of bytes ever written into messages (Stream),   *)
(* such that the receiver stands at a place in it that its state stat_,    *)
(* size_ and data_ describe (Receiver).  It holds as long as the receiver  *)
(* can read the length of every string sent: parse keeps it in a short     *)
(* that it fills from signed chars, so a low byte above 127 spoils it (the *)
(* run ChildProcessLengths).                                               *)
(***************************************************************************)
EXTENDS ChildProcess, Integers, TLAPS

-----------------------------------------------------------------------------
(* The child.                                                              *)

ChildInv ==
  /\ obj = "none" => child = "none"
  /\ exit_ => signalled \/ child = "reaped"
  /\ NoOrphan

LEMMA ChildInvStep ==
  ASSUME ChildInv, [Next]_vars
  PROVE  ChildInv'
<1> USE DEF ChildInv, NoOrphan
<1>1. CASE UNCHANGED procVars
  BY <1>1 DEF procVars
<1>2. CASE ChildEnds \/ ExitCb \/ ExitCbEnds
  BY <1>2 DEF ChildEnds, ExitCb, ExitCbEnds
<1>3. ASSUME NEW c \in Cos, NEW opts \in OptionSets, Spawn(c, opts) PROVE ChildInv'
  BY <1>3 DEF Spawn
<1>4. ASSUME NEW c \in Cos, Kill(c) PROVE ChildInv'
  BY <1>4 DEF Kill
<1>5. ASSUME NEW c \in Cos, Wait(c) PROVE ChildInv'
  BY <1>5 DEF Wait
<1>6. ASSUME NEW c \in Cos, Drop(c) PROVE ChildInv'
  BY <1>6 DEF Drop
<1>7. ASSUME UNCHANGED vars PROVE UNCHANGED procVars
  BY <1>7 DEF vars, procVars
<1> QED BY <1>1, <1>2, <1>3, <1>4, <1>5, <1>6, <1>7 DEF Next, Send

(* Unless it was detached, or sent a signal by kill(), the child does not  *)
(* outlive its object (process.cpp, ~process).                             *)
THEOREM NoOrphanLeft == Spec => []NoOrphan
<1>1. Init => ChildInv
  BY DEF Init, ChildInv, NoOrphan
<1>2. ChildInv /\ [Next]_vars => ChildInv'
  BY ChildInvStep
<1>3. ChildInv => NoOrphan
  BY DEF ChildInv
<1> QED BY <1>1, <1>2, <1>3, PTL DEF Spec

-----------------------------------------------------------------------------
(* The message pipe.                                                       *)

PipeVars == <<wire, stat_, size_, data_, pend, sent, got, sentSocks, gotSocks, unheard>>

Bytes == [b : Nat, m : Nat, s : Socks \union {0}]

MsgTypes ==
  /\ wire \in Seq(Bytes)
  /\ stat_ \in {"size0", "size1", "data"} /\ size_ \in Nat /\ (stat_ = "data" => size_ > 0)
  /\ sent \in Seq(Seq(Nat)) /\ {got} \subseteq Seq(Seq(Nat)) /\ data_ \in Seq(Nat)
  /\ {pend, sentSocks, gotSocks} \subseteq Seq(Socks)
  /\ \A m \in 1 .. Len(sent) : Len(sent[m]) \in Lens /\ \A i \in 1 .. Len(sent[m]) : sent[m][i] = m

\* The receiver can read the length of every string sent.
Readable == \A m \in 1 .. Len(sent) : Len(sent[m]) % 256 < 128

(* A stream of N messages, of which the first R bytes were parsed: where   *)
(* each message ends, and how many strings and sockets there are up to it. *)
Size(n, i)    == IF n[i] = n[i - 1] THEN 0 ELSE Len(sent[n[i]])
SockAt(q, i)  == IF q[i] = q[i - 1] THEN 0 ELSE sentSocks[q[i]]
ByteAt(n, q, i, j) ==
  IF j = 1 THEN Byte(Size(n, i) % 256, 0, SockAt(q, i))
  ELSE IF j = 2 THEN Byte(Size(n, i) \div 256, 0, 0)
  ELSE Byte(0, n[i], 0)

StreamTypes(N, end, n, q, R) ==
  /\ N \in Nat /\ R \in Nat /\ end \in [0 .. N -> Nat]
  /\ n \in [0 .. N -> Nat] /\ q \in [0 .. N -> Nat]
  /\ \A i \in 0 .. N : n[i] <= Len(sent) /\ q[i] <= Len(sentSocks) /\ end[i] <= end[N]

Stream(N, end, n, q, R) ==
  /\ n[N] = Len(sent) /\ q[N] = Len(sentSocks) /\ end[N] = R + Len(wire)
  /\ \A i \in 1 .. N :
       /\ n[i] \in {n[i - 1], n[i - 1] + 1} /\ q[i] \in {q[i - 1], q[i - 1] + 1}
       /\ end[i] = end[i - 1] + 2 + Size(n, i)
       /\ \A p \in R + 1 .. end[i] : p > end[i - 1] => wire[p - R] = ByteAt(n, q, i, p - end[i - 1])

(* The receiver has parsed k messages, and part of the next unless stat_   *)
(* is "size0".                                                            *)
Reading(N, end, n, R, k) ==
  /\ k \in 0 .. N
  /\ stat_ = "size0" => R = end[k]
  /\ stat_ = "size1" => k < N /\ R = end[k] + 1 /\ size_ = Size(n, k + 1) % 256
  /\ stat_ = "data" => /\ k < N /\ n[k + 1] # n[k] /\ size_ > 0
                       /\ R >= end[k] + 2 /\ R + size_ = end[k + 1]

Strings(end, n, R, k) ==
  ~unheard =>
    /\ Len(got) = n[k] /\ \A j \in 1 .. n[k] : got[j] = sent[j]
    /\ Len(data_) = IF stat_ = "data" THEN R - end[k] - 2 ELSE 0
    /\ \A j \in 1 .. Len(data_) : data_[j] = n[k + 1]

\* The sockets accepted, and those that wait, are the first Q that were sent.
Arrived(accepted, waiting, Q) ==
  /\ Len(accepted) + Len(waiting) = Q
  /\ \A j \in 1 .. Len(accepted) : accepted[j] = sentSocks[j]
  /\ \A j \in 1 .. Len(waiting) : waiting[j] = sentSocks[Len(accepted) + j]

Sockets(q, k) == Arrived(gotSocks, pend, IF stat_ = "size0" THEN q[k] ELSE q[k + 1])

Placed(N, end, n, q, R, k) ==
  /\ StreamTypes(N, end, n, q, R) /\ Stream(N, end, n, q, R)
  /\ Reading(N, end, n, R, k) /\ Strings(end, n, R, k) /\ Sockets(q, k)

PipeInv ==
  Readable => \E N, end, n, q, R, k : Placed(N, end, n, q, R, k)

\* What a send does: len bytes of a new string, or a socket sk, or neither.
Wrote(len, sk) ==
  /\ len \in Nat /\ Len(wire') = Len(wire) + 2 + len
  /\ \A p \in 1 .. Len(wire) : wire'[p] = wire[p]
  /\ wire'[Len(wire) + 1] = Byte(len % 256, 0, sk) /\ wire'[Len(wire) + 2] = Byte(len \div 256, 0, 0)
  /\ \A j \in 3 .. len + 2 : wire'[Len(wire) + j] = Byte(0, Len(sent) + 1, 0)
  /\ \A m \in 1 .. Len(sent) : sent'[m] = sent[m]
  /\ Len(sent') = IF len = 0 THEN Len(sent) ELSE Len(sent) + 1
  /\ len > 0 => Len(sent'[Len(sent) + 1]) = len
  /\ \A m \in 1 .. Len(sentSocks) : sentSocks'[m] = sentSocks[m]
  /\ Len(sentSocks') = IF sk = 0 THEN Len(sentSocks) ELSE Len(sentSocks) + 1
  /\ sk # 0 => sentSocks'[Len(sentSocks) + 1] = sk
  /\ UNCHANGED <<stat_, size_, data_, pend, got, gotSocks, unheard>>

\* Sequences put together, element by element.
LEMMA Concat ==
  ASSUME NEW S, NEW s \in Seq(S), NEW t \in Seq(S)
  PROVE  /\ s \o t \in Seq(S) /\ Len(s \o t) = Len(s) + Len(t)
         /\ \A p \in 1 .. Len(s) : (s \o t)[p] = s[p]
         /\ \A j \in 1 .. Len(t) : (s \o t)[Len(s) + j] = t[j]
OBVIOUS

LEMMA LenRange ==
  ASSUME NEW len \in Lens
  PROVE  len \in Nat \ {0} /\ len % 256 \in Nat /\ len \div 256 \in Nat
<1>1. len \in 1 .. TwoBytes - 1
  BY MessengerAssumption
<1> QED BY <1>1

LEMMA StringWritten ==
  ASSUME MsgTypes, NEW c, NEW len \in Lens, SendString(c, len)
  PROVE  MsgTypes' /\ Wrote(len, 0)
<1> DEFINE m == Len(sent) + 1
           string == [i \in 1 .. len |-> m]
           head == <<Byte(len % 256, 0, 0), Byte(len \div 256, 0, 0)>>
           body == [i \in 1 .. len |-> Byte(0, m, 0)]
<1>a. /\ len \in Nat \ {0} /\ len % 256 \in Nat /\ len \div 256 \in Nat
      /\ Len(sent) \in Nat /\ m \in Nat
  BY LenRange DEF MsgTypes
<1>1. /\ sent' = Append(sent, string) /\ wire' = wire \o head \o body
      /\ UNCHANGED <<sentSocks, stat_, size_, data_, pend, got, gotSocks, unheard>>
  BY DEF SendString
<1>2. string \in Seq(Nat) /\ Len(string) = len /\ \A i \in 1 .. len : string[i] = m
  BY <1>a
<1>3. /\ head \in Seq(Bytes) /\ Len(head) = 2
      /\ head[1] = Byte(len % 256, 0, 0) /\ head[2] = Byte(len \div 256, 0, 0)
  BY <1>a DEF Bytes, Byte
<1>4. body \in Seq(Bytes) /\ Len(body) = len /\ \A i \in 1 .. len : body[i] = Byte(0, m, 0)
  BY <1>a DEF Bytes, Byte
<1> HIDE DEF string, head, body
<1>5. /\ wire' \in Seq(Bytes) /\ Len(wire') = Len(wire) + 2 + len
      /\ \A p \in 1 .. Len(wire) : wire'[p] = wire[p]
      /\ wire'[Len(wire) + 1] = head[1] /\ wire'[Len(wire) + 2] = head[2]
      /\ \A j \in 3 .. len + 2 : wire'[Len(wire) + j] = body[j - 2]
  <2>1. wire \in Seq(Bytes) /\ Len(wire) \in Nat
    BY DEF MsgTypes
  <2> DEFINE w == wire \o head
             v == w \o body
  <2>2. /\ w \in Seq(Bytes) /\ Len(w) = Len(wire) + Len(head)
        /\ \A p \in 1 .. Len(wire) : w[p] = wire[p]
        /\ \A j \in 1 .. Len(head) : w[Len(wire) + j] = head[j]
    <3>1. wire \in Seq(Bytes) /\ head \in Seq(Bytes)
      BY <2>1, <1>3
    <3> QED BY <3>1, Concat
  <2>3. v = wire'
    BY <1>1
  <2> HIDE DEF w
  <2>4. /\ v \in Seq(Bytes) /\ Len(v) = Len(w) + Len(body)
        /\ \A p \in 1 .. Len(w) : v[p] = w[p]
        /\ \A j \in 1 .. Len(body) : v[Len(w) + j] = body[j]
    <3>1. w \in Seq(Bytes) /\ body \in Seq(Bytes)
      BY <2>2, <1>4
    <3> QED BY <3>1, Concat
  <2> HIDE DEF v
  <2>5. \A j \in 3 .. len + 2 : v[Len(wire) + j] = body[j - 2]
    <3> TAKE j \in 3 .. len + 2
    <3>1. j - 2 \in 1 .. Len(body) /\ Len(w) + (j - 2) = Len(wire) + j
      BY <2>1, <2>2, <1>a, <1>3, <1>4
    <3>2. v[Len(w) + (j - 2)] = body[j - 2]
      BY <2>4, <3>1
    <3> QED BY <3>1, <3>2
  <2>6. /\ Len(v) = Len(wire) + 2 + len
        /\ \A p \in 1 .. Len(wire) : v[p] = wire[p]
        /\ v[Len(wire) + 1] = head[1] /\ v[Len(wire) + 2] = head[2]
    <3>1. Len(w) = Len(wire) + 2 /\ Len(wire) \in Nat /\ len \in Nat /\ Len(body) = len
      BY <2>1, <2>2, <1>a, <1>3, <1>4
    <3>2. w[Len(wire) + 1] = head[1] /\ w[Len(wire) + 2] = head[2]
      BY <2>2, <1>3
    <3>3. \A p \in 1 .. Len(wire) + 2 : v[p] = w[p]
      BY <2>4, <3>1
    <3>4. \A p \in 1 .. Len(wire) : v[p] = wire[p]
      BY <2>2, <3>1, <3>3
    <3>5. Len(v) = Len(wire) + 2 + len
      BY <2>4, <3>1
    <3>6. v[Len(wire) + 1] = w[Len(wire) + 1] /\ v[Len(wire) + 2] = w[Len(wire) + 2]
      BY <3>1, <3>3
    <3> QED BY <3>2, <3>4, <3>5, <3>6
  <2> QED BY <2>3, <2>4, <2>5, <2>6
<1>6. /\ sent' \in Seq(Seq(Nat)) /\ Len(sent') = Len(sent) + 1 /\ sent'[m] = string
      /\ \A i \in 1 .. Len(sent) : sent'[i] = sent[i]
  BY <1>a, <1>1, <1>2 DEF MsgTypes
<1>7. MsgTypes'
  <2>1. \A i \in 1 .. Len(sent') :
          Len(sent'[i]) \in Lens /\ \A j \in 1 .. Len(sent'[i]) : sent'[i][j] = i
    <3>1. ASSUME NEW i \in 1 .. Len(sent)
          PROVE  Len(sent'[i]) \in Lens /\ \A j \in 1 .. Len(sent'[i]) : sent'[i][j] = i
      BY <1>6 DEF MsgTypes
    <3>2. Len(sent'[m]) \in Lens /\ \A j \in 1 .. Len(sent'[m]) : sent'[m][j] = m
      BY <1>2, <1>6
    <3>3. \A i \in 1 .. Len(sent') : i \in 1 .. Len(sent) \/ i = m
      BY <1>a, <1>6
    <3> QED BY <3>1, <3>2, <3>3
  <2> QED BY <1>1, <1>5, <1>6, <2>1 DEF MsgTypes
<1>8. Wrote(len, 0)
  BY <1>a, <1>1, <1>2, <1>3, <1>4, <1>5, <1>6, SMTT(30) DEF Wrote
<1> QED BY <1>7, <1>8

LEMMA SocketWritten ==
  ASSUME MsgTypes, NEW c, NEW s \in Socks, SendSocket(c, s)
  PROVE  MsgTypes' /\ \E sk \in {0, s} : Wrote(0, sk)
<1> DEFINE sk == IF local[s] = "open" THEN s ELSE 0
           head == <<Byte(0, 0, sk), Byte(0, 0, 0)>>
<1>a. sk \in Socks \union {0} /\ s # 0 /\ s \in Nat /\ sk \in {0, s}
  BY MessengerAssumption
<1>1. /\ wire' = wire \o head
      /\ sentSocks' = IF sk = 0 THEN sentSocks ELSE Append(sentSocks, sk)
      /\ UNCHANGED <<sent, stat_, size_, data_, pend, got, gotSocks, unheard>>
  BY <1>a DEF SendSocket
<1> HIDE DEF sk
<1>2. /\ head \in Seq(Bytes) /\ Len(head) = 2
      /\ head[1] = Byte(0, 0, sk) /\ head[2] = Byte(0, 0, 0)
  BY <1>a DEF Bytes, Byte
<1> HIDE DEF head
<1>3. /\ wire' \in Seq(Bytes) /\ Len(wire') = Len(wire) + 2
      /\ \A p \in 1 .. Len(wire) : wire'[p] = wire[p]
      /\ wire'[Len(wire) + 1] = head[1] /\ wire'[Len(wire) + 2] = head[2]
  <2>1. wire \in Seq(Bytes) /\ Len(wire) \in Nat
    BY DEF MsgTypes
  <2> DEFINE w == wire \o head
  <2>2. /\ w \in Seq(Bytes) /\ Len(w) = Len(wire) + Len(head)
        /\ \A p \in 1 .. Len(wire) : w[p] = wire[p]
        /\ \A j \in 1 .. Len(head) : w[Len(wire) + j] = head[j]
    <3>1. wire \in Seq(Bytes) /\ head \in Seq(Bytes)
      BY <2>1, <1>2
    <3> QED BY <3>1, Concat
  <2> QED BY <1>1, <1>2, <2>1, <2>2
<1>4. /\ sentSocks' \in Seq(Socks) /\ Len(sentSocks) \in Nat
      /\ \A i \in 1 .. Len(sentSocks) : sentSocks'[i] = sentSocks[i]
      /\ Len(sentSocks') = IF sk = 0 THEN Len(sentSocks) ELSE Len(sentSocks) + 1
      /\ sk # 0 => sentSocks'[Len(sentSocks) + 1] = sk
  BY <1>a, <1>1 DEF MsgTypes
<1>5. MsgTypes'
  BY <1>1, <1>3, <1>4 DEF MsgTypes
<1>6. Wrote(0, sk)
  BY <1>1, <1>2, <1>3, <1>4 DEF Wrote, MsgTypes
<1> QED BY <1>a, <1>5, <1>6

\* What a placement says of the numbers in it.
LEMMA PlacedFacts ==
  ASSUME MsgTypes, NEW N, NEW end, NEW n, NEW q, NEW R, NEW k, Placed(N, end, n, q, R, k)
  PROVE  /\ N \in Nat /\ R \in Nat /\ k \in 0 .. N
         /\ Len(wire) \in Nat /\ Len(sent) \in Nat /\ Len(sentSocks) \in Nat
         /\ Len(got) \in Nat /\ Len(data_) \in Nat /\ Len(gotSocks) \in Nat /\ Len(pend) \in Nat
         /\ \A i \in 0 .. N : /\ end[i] \in Nat /\ end[i] <= end[N]
                              /\ n[i] \in 0 .. Len(sent) /\ q[i] \in 0 .. Len(sentSocks)
         /\ \A i \in 1 .. N : Size(n, i) \in Nat
         /\ stat_ # "size0" => k < N
<1>1. /\ N \in Nat /\ R \in Nat /\ k \in 0 .. N /\ end \in [0 .. N -> Nat]
      /\ n \in [0 .. N -> Nat] /\ q \in [0 .. N -> Nat]
      /\ \A i \in 0 .. N : n[i] <= Len(sent) /\ q[i] <= Len(sentSocks) /\ end[i] <= end[N]
  BY DEF Placed, StreamTypes, Reading
<1>2. /\ Len(wire) \in Nat /\ Len(sent) \in Nat /\ Len(sentSocks) \in Nat
      /\ Len(got) \in Nat /\ Len(data_) \in Nat /\ Len(gotSocks) \in Nat /\ Len(pend) \in Nat
  BY DEF MsgTypes
<1>3. ASSUME NEW i \in 1 .. N PROVE Size(n, i) \in Nat
  <2>1. /\ i \in 0 .. N /\ i - 1 \in 0 .. N /\ n[i] \in Nat /\ n[i - 1] \in Nat
        /\ n[i] \in {n[i - 1], n[i - 1] + 1} /\ n[i] <= Len(sent)
    BY <1>1 DEF Placed, Stream
  <2>2. CASE n[i] = n[i - 1]
    BY <2>2 DEF Size
  <2>3. CASE n[i] = n[i - 1] + 1
    <3>1. n[i] \in 1 .. Len(sent)
      BY <2>1, <2>3, <1>2
    <3>2. Len(sent[n[i]]) \in Lens
      BY <3>1 DEF MsgTypes
    <3> QED BY <2>1, <2>3, <3>2, LenRange DEF Size
  <2> QED BY <2>1, <2>2, <2>3
<1>4. stat_ # "size0" => k < N
  BY DEF Placed, Reading, MsgTypes
<1>5. \A i \in 0 .. N : end[i] \in Nat /\ n[i] \in Nat /\ q[i] \in Nat
  BY <1>1
<1>6. ASSUME NEW i \in 0 .. N
      PROVE  /\ end[i] \in Nat /\ end[i] <= end[N]
             /\ n[i] \in 0 .. Len(sent) /\ q[i] \in 0 .. Len(sentSocks)
  <2>1. end[i] \in Nat /\ n[i] \in Nat /\ q[i] \in Nat
    BY <1>5
  <2>2. n[i] <= Len(sent) /\ q[i] <= Len(sentSocks) /\ end[i] <= end[N]
    BY <1>1
  <2> QED BY <2>1, <2>2, <1>2
<1> HIDE DEF Size
<1>7. N \in Nat /\ R \in Nat /\ k \in 0 .. N
  BY <1>1
<1> QED BY <1>2, <1>3, <1>4, <1>6, <1>7

\* Of a count that goes up by one at most: where it does, it counts something.
LEMMA Counted ==
  ASSUME NEW a \in Nat, NEW b \in Nat, NEW L \in Nat, a <= L, a \in {b, b + 1}, a # b
  PROVE  a \in 1 .. L
OBVIOUS


\* A message is added at the end of the stream.
LEMMA MessageAdded ==
  ASSUME MsgTypes, NEW len, NEW sk \in Nat, Wrote(len, sk),
         NEW N, NEW end, NEW n, NEW q, NEW R, NEW k, Placed(N, end, n, q, R, k)
  PROVE  \E N2, end2, n2, q2 : Placed(N2, end2, n2, q2, R, k)'
<1> DEFINE M    == N + 1
           end2 == [i \in 0 .. M |-> IF i = M THEN end[N] + 2 + len ELSE end[i]]
           n2   == [i \in 0 .. M |-> IF i = M THEN (IF len = 0 THEN n[N] ELSE n[N] + 1) ELSE n[i]]
           q2   == [i \in 0 .. M |-> IF i = M THEN (IF sk = 0 THEN q[N] ELSE q[N] + 1) ELSE q[i]]
<1>a. /\ N \in Nat /\ R \in Nat /\ k \in 0 .. N /\ len \in Nat
      /\ Len(wire) \in Nat /\ Len(sent) \in Nat /\ Len(sentSocks) \in Nat
      /\ Len(got) \in Nat /\ Len(data_) \in Nat /\ Len(gotSocks) \in Nat /\ Len(pend) \in Nat
      /\ stat_ # "size0" => k < N
  BY PlacedFacts DEF Wrote
<1>r. ASSUME NEW i \in 0 .. N
      PROVE  /\ end[i] \in Nat /\ end[i] <= end[N]
             /\ n[i] \in Nat /\ n[i] <= Len(sent) /\ q[i] \in Nat /\ q[i] <= Len(sentSocks)
  <2>1. /\ end[i] \in Nat /\ end[i] <= end[N]
        /\ n[i] \in 0 .. Len(sent) /\ q[i] \in 0 .. Len(sentSocks)
    BY PlacedFacts
  <2> QED BY <2>1, <1>a
<1>b. /\ n[N] = Len(sent) /\ q[N] = Len(sentSocks) /\ end[N] = R + Len(wire)
      /\ \A i \in 1 .. N :
           /\ n[i] \in {n[i - 1], n[i - 1] + 1} /\ q[i] \in {q[i - 1], q[i - 1] + 1}
           /\ end[i] = end[i - 1] + 2 + Size(n, i)
           /\ \A p \in R + 1 .. end[i] : p > end[i - 1] => wire[p - R] = ByteAt(n, q, i, p - end[i - 1])
  BY DEF Placed, Stream
<1>c. M \in Nat /\ M = N + 1 /\ M \notin 0 .. N /\ 0 .. N \subseteq 0 .. M /\ N \in 0 .. N
  BY <1>a
<1>w. /\ wire'[Len(wire) + 1] = Byte(len % 256, 0, sk)
      /\ wire'[Len(wire) + 2] = Byte(len \div 256, 0, 0)
      /\ \A j \in 1 .. len + 2 : j \notin {1, 2} => wire'[Len(wire) + j] = Byte(0, Len(sent) + 1, 0)
  <2>1. \A j \in 1 .. len + 2 : j \notin {1, 2} => j \in 3 .. len + 2
    BY <1>a
  <2> QED BY <2>1 DEF Wrote
<1>1. /\ end2 \in [0 .. M -> Nat] /\ n2 \in [0 .. M -> Nat] /\ q2 \in [0 .. M -> Nat]
      /\ \A i \in 0 .. N : end2[i] = end[i] /\ n2[i] = n[i] /\ q2[i] = q[i]
      /\ end2[M] = end[N] + 2 + len
      /\ n2[M] = IF len = 0 THEN n[N] ELSE n[N] + 1
      /\ q2[M] = IF sk = 0 THEN q[N] ELSE q[N] + 1
  <2>1. end[N] \in Nat /\ n[N] \in Nat /\ q[N] \in Nat
    BY <1>c, <1>r
  <2>2. M \in 0 .. M /\ \A i \in 0 .. N : i \in 0 .. M /\ i # M
    BY <1>a, <1>c
  <2>3. \A i \in 0 .. M : i # M => i \in 0 .. N
    BY <1>a, <1>c
  <2> HIDE DEF M
  <2>a. /\ end[N] + 2 + len \in Nat
        /\ (IF len = 0 THEN n[N] ELSE n[N] + 1) \in Nat
        /\ (IF sk = 0 THEN q[N] ELSE q[N] + 1) \in Nat
    <3>1. len \in Nat
      BY <1>a
    <3>2. \A x \in Nat : x + 2 + len \in Nat /\ x + 1 \in Nat
      BY <3>1
    <3> QED BY <2>1, <3>2
  <2>b. \A i \in 0 .. M : i # M => end[i] \in Nat /\ n[i] \in Nat /\ q[i] \in Nat
    BY <1>r, <2>3
  <2>4. end2 \in [0 .. M -> Nat]
    BY <2>a, <2>b
  <2>5. n2 \in [0 .. M -> Nat]
    BY <2>a, <2>b
  <2>6. q2 \in [0 .. M -> Nat]
    BY <2>a, <2>b
  <2>7. \A i \in 0 .. N : end2[i] = end[i] /\ n2[i] = n[i] /\ q2[i] = q[i]
    BY <2>2
  <2> QED BY <2>2, <2>4, <2>5, <2>6, <2>7
<1> HIDE DEF end2, n2, q2, M
<1>2. n2[M] = Len(sent') /\ q2[M] = Len(sentSocks') /\ end2[M] = R + Len(wire')
  BY <1>a, <1>b, <1>1 DEF Wrote
<1>3. StreamTypes(M, end2, n2, q2, R)'
  <2>1. \A i \in 0 .. M : n2[i] <= Len(sent') /\ q2[i] <= Len(sentSocks') /\ end2[i] <= end2[M]
    <3>1. Len(sent') >= Len(sent) /\ Len(sentSocks') >= Len(sentSocks) /\ end2[M] >= end[N]
          /\ end2[M] \in Nat /\ Len(sent') \in Nat /\ Len(sentSocks') \in Nat
      <4>1. end[N] \in Nat
        BY <1>c, <1>r
      <4>2. end2[M] = end[N] + 2 + len
        BY <1>1
      <4>3. Len(sent') \in {Len(sent), Len(sent) + 1} /\ Len(sentSocks') \in {Len(sentSocks), Len(sentSocks) + 1}
        BY DEF Wrote
      <4>4. Len(sent') >= Len(sent) /\ Len(sentSocks') >= Len(sentSocks)
            /\ Len(sent') \in Nat /\ Len(sentSocks') \in Nat
        BY <4>3, <1>a, SMTT(30)
      <4>5. end2[M] \in Nat /\ end2[M] >= end[N]
        BY <4>1, <4>2, <1>a, SMTT(30)
      <4> QED BY <4>4, <4>5
    <3>2. ASSUME NEW i \in 0 .. N
          PROVE  n2[i] <= Len(sent') /\ q2[i] <= Len(sentSocks') /\ end2[i] <= end2[M]
      <4>1. n2[i] = n[i] /\ q2[i] = q[i] /\ end2[i] = end[i]
        BY <1>1
      <4>2. /\ end[i] \in Nat /\ end[i] <= end[N] /\ end[N] \in Nat
            /\ n[i] \in Nat /\ n[i] <= Len(sent) /\ q[i] \in Nat /\ q[i] <= Len(sentSocks)
        BY <1>c, <1>r
      <4>3. n[i] <= Len(sent')
        BY <4>2, <3>1, <1>a, SMTT(30)
      <4>4. q[i] <= Len(sentSocks')
        BY <4>2, <3>1, <1>a, SMTT(30)
      <4>5. end[i] <= end2[M]
        BY <4>2, <3>1
      <4> QED BY <4>1, <4>3, <4>4, <4>5
    <3>3. \A i \in 0 .. M : i \in 0 .. N \/ i = M
      BY <1>a, <1>c
    <3> QED BY <1>2, <3>1, <3>2, <3>3
  <2> QED BY <1>a, <1>c, <1>1, <2>1 DEF StreamTypes
<1>4. ASSUME NEW i \in 1 .. N
      PROVE  /\ i \in 0 .. N /\ i - 1 \in 0 .. N
             /\ Size(n2, i)' = Size(n, i) /\ SockAt(q2, i)' = SockAt(q, i)
  <2>1. i \in 0 .. N /\ i - 1 \in 0 .. N
    BY <1>a
  <2>2. n2[i] = n[i] /\ n2[i - 1] = n[i - 1] /\ q2[i] = q[i] /\ q2[i - 1] = q[i - 1]
    BY <1>1, <2>1
  <2>3. /\ n[i] # n[i - 1] => n[i] \in 1 .. Len(sent)
        /\ q[i] # q[i - 1] => q[i] \in 1 .. Len(sentSocks)
    <3>1. /\ n[i] \in Nat /\ n[i - 1] \in Nat /\ n[i] <= Len(sent)
          /\ q[i] \in Nat /\ q[i - 1] \in Nat /\ q[i] <= Len(sentSocks)
      BY <1>r, <2>1
    <3>2. n[i] \in {n[i - 1], n[i - 1] + 1} /\ q[i] \in {q[i - 1], q[i - 1] + 1}
      BY <1>b
    <3> QED BY <3>1, <3>2, <1>a, Counted
  <2>4. /\ n[i] # n[i - 1] => Len(sent'[n[i]]) = Len(sent[n[i]])
        /\ q[i] # q[i - 1] => sentSocks'[q[i]] = sentSocks[q[i]]
    BY <2>3 DEF Wrote
  <2> QED BY <2>1, <2>2, <2>4 DEF Size, SockAt
<1>5. Size(n2, M)' = len /\ SockAt(q2, M)' = sk
  <2>1. M - 1 = N /\ n2[M - 1] = n[N] /\ q2[M - 1] = q[N]
    BY <1>a, <1>c, <1>1
  <2>2. n[N] = Len(sent) /\ q[N] = Len(sentSocks)
    BY <1>b
  <2>3. /\ len = 0 => n2[M] = n[N]
        /\ len # 0 => n2[M] = Len(sent) + 1 /\ n2[M] # n[N]
        /\ sk = 0 => q2[M] = q[N]
        /\ sk # 0 => q2[M] = Len(sentSocks) + 1 /\ q2[M] # q[N]
    BY <1>a, <1>1, <2>2
  <2>4. len # 0 => Len(sent'[Len(sent) + 1]) = len
    BY <1>a DEF Wrote
  <2>5. sk # 0 => sentSocks'[Len(sentSocks) + 1] = sk
    BY DEF Wrote
  <2> QED BY <2>1, <2>3, <2>4, <2>5 DEF Size, SockAt
<1>6. ASSUME NEW i \in 1 .. M
      PROVE  /\ n2[i] \in {n2[i - 1], n2[i - 1] + 1} /\ q2[i] \in {q2[i - 1], q2[i - 1] + 1}
             /\ end2[i] = end2[i - 1] + 2 + Size(n2, i)'
             /\ \A p \in R + 1 .. end2[i] : p > end2[i - 1] =>
                  wire'[p - R] = ByteAt(n2, q2, i, p - end2[i - 1])'
  <2>1. CASE i \in 1 .. N
    <3>1. /\ i \in 0 .. N /\ i - 1 \in 0 .. N
          /\ Size(n2, i)' = Size(n, i) /\ SockAt(q2, i)' = SockAt(q, i)
      BY <2>1, <1>4
    <3>2. /\ n2[i] = n[i] /\ n2[i - 1] = n[i - 1] /\ q2[i] = q[i] /\ q2[i - 1] = q[i - 1]
          /\ end2[i] = end[i] /\ end2[i - 1] = end[i - 1]
      BY <1>1, <3>1
    <3>3. \A j : ByteAt(n2, q2, i, j)' = ByteAt(n, q, i, j)
      BY <3>1, <3>2 DEF ByteAt
    <3>4. ASSUME NEW p \in R + 1 .. end[i], p > end[i - 1]
          PROVE  wire'[p - R] = ByteAt(n, q, i, p - end[i - 1])
      <4>1. p - R \in 1 .. Len(wire)
        <5>1. end[i] \in Nat /\ end[i] <= R + Len(wire)
          BY <1>b, <1>r, <3>1
        <5> QED BY <5>1, <1>a, SMTT(30)
      <4>2. wire'[p - R] = wire[p - R]
        BY <4>1 DEF Wrote
      <4> QED BY <4>2, <3>4, <2>1, <1>b
    <3> QED BY <2>1, <1>b, <3>1, <3>2, <3>3, <3>4
  <2>2. CASE i = M
    <3>1. /\ n2[i - 1] = n[N] /\ q2[i - 1] = q[N] /\ end2[i - 1] = end[N] /\ i - 1 = N
      BY <2>2, <1>a, <1>c, <1>1
    <3>2. ASSUME NEW p \in R + 1 .. end2[i], p > end[N]
          PROVE  wire'[p - R] = ByteAt(n2, q2, i, p - end[N])'
      <4> DEFINE j == p - end[N]
      <4>1. j \in 1 .. len + 2 /\ p - R = Len(wire) + j
        <5>1. end2[i] = end[N] + 2 + len /\ end[N] = R + Len(wire) /\ end[N] \in Nat
          BY <2>2, <1>b, <1>c, <1>r, <1>1
        <5> QED BY <5>1, <3>2, <1>a
      <4> HIDE DEF j
      <4>2. n2[i] = Len(sent) + 1 \/ len = 0
        BY <2>2, <1>b, <1>1
      <4>3. wire'[Len(wire) + j] = IF j = 1 THEN Byte(len % 256, 0, sk)
                                   ELSE IF j = 2 THEN Byte(len \div 256, 0, 0)
                                   ELSE Byte(0, Len(sent) + 1, 0)
        BY <4>1, <1>w
      <4>4. j \notin {1, 2} => len # 0
        BY <4>1, <1>a
      <4>5. ByteAt(n2, q2, i, j)' = IF j = 1 THEN Byte(len % 256, 0, sk)
                                   ELSE IF j = 2 THEN Byte(len \div 256, 0, 0)
                                   ELSE Byte(0, n2[i], 0)
        BY <2>2, <1>5 DEF ByteAt
      <4>6. wire'[Len(wire) + j] = ByteAt(n2, q2, i, j)'
        BY <4>2, <4>3, <4>4, <4>5
      <4> QED BY <4>1, <4>6 DEF j
    <3>3. n2[i] \in {n2[i - 1], n2[i - 1] + 1} /\ q2[i] \in {q2[i - 1], q2[i - 1] + 1}
      BY <2>2, <3>1, <1>1
    <3>4. end2[i] = end2[i - 1] + 2 + Size(n2, i)'
      BY <2>2, <3>1, <1>1, <1>5
    <3> QED BY <3>1, <3>2, <3>3, <3>4
  <2> QED BY <2>1, <2>2, <1>a, <1>c
<1>7. Stream(M, end2, n2, q2, R)'
  BY <1>2, <1>6 DEF Stream
<1>8. /\ end2[k] = end[k] /\ n2[k] = n[k] /\ q2[k] = q[k] /\ k \in 0 .. M
      /\ stat_ # "size0" => /\ end2[k + 1] = end[k + 1] /\ n2[k + 1] = n[k + 1]
                            /\ q2[k + 1] = q[k + 1] /\ Size(n2, k + 1)' = Size(n, k + 1)
                            /\ k < M /\ k + 1 \in 0 .. N
  <2>1. k \in 0 .. N /\ k \in 0 .. M /\ (k < N => k + 1 \in 0 .. N /\ k + 1 \in 1 .. N /\ k < M)
    BY <1>a, <1>c
  <2>2. stat_ # "size0" => k < N
    BY <1>a
  <2>3. end2[k] = end[k] /\ n2[k] = n[k] /\ q2[k] = q[k]
    BY <1>1, <2>1
  <2> QED BY <1>1, <1>4, <2>1, <2>2, <2>3
<1>9. UNCHANGED <<stat_, size_, data_, pend, got, gotSocks, unheard>>
  BY DEF Wrote
<1>10. Reading(M, end2, n2, R, k)'
  BY <1>8, <1>9 DEF Placed, Reading
<1>11. Strings(end2, n2, R, k)'
  <2> SUFFICES ASSUME ~unheard
               PROVE  /\ Len(got) = n2[k] /\ \A j \in 1 .. n2[k] : got[j] = sent'[j]
                      /\ Len(data_) = IF stat_ = "data" THEN R - end2[k] - 2 ELSE 0
                      /\ \A j \in 1 .. Len(data_) : data_[j] = n2[k + 1]
    BY <1>9 DEF Strings
  <2>1. /\ Len(got) = n[k] /\ \A j \in 1 .. n[k] : got[j] = sent[j]
        /\ Len(data_) = IF stat_ = "data" THEN R - end[k] - 2 ELSE 0
        /\ \A j \in 1 .. Len(data_) : data_[j] = n[k + 1]
    BY DEF Placed, Strings
  <2>2. \A j \in 1 .. n[k] : sent'[j] = sent[j]
    <3>1. n[k] \in Nat /\ n[k] <= Len(sent)
      BY <1>a, <1>r
    <3>2. \A j \in 1 .. n[k] : j \in 1 .. Len(sent)
      BY <1>a, <3>1
    <3> QED BY <3>2 DEF Wrote
  <2>3. \A j \in 1 .. Len(data_) : data_[j] = n2[k + 1]
    BY <2>1, <1>8
  <2> QED BY <2>1, <2>2, <2>3, <1>8
<1>12. Sockets(q2, k)'
  <2>1. /\ Len(gotSocks) + Len(pend) = IF stat_ = "size0" THEN q[k] ELSE q[k + 1]
        /\ \A j \in 1 .. Len(gotSocks) : gotSocks[j] = sentSocks[j]
        /\ \A j \in 1 .. Len(pend) : pend[j] = sentSocks[Len(gotSocks) + j]
    BY DEF Placed, Sockets, Arrived
  <2>2. Len(gotSocks) + Len(pend) <= Len(sentSocks)
    <3>1. q[k] <= Len(sentSocks) /\ (stat_ # "size0" => q[k + 1] <= Len(sentSocks))
      BY <1>a, <1>8, <1>r
    <3> QED BY <2>1, <3>1
  <2>3. /\ \A j \in 1 .. Len(gotSocks) : sentSocks'[j] = sentSocks[j]
        /\ \A j \in 1 .. Len(pend) : sentSocks'[Len(gotSocks) + j] = sentSocks[Len(gotSocks) + j]
    <3>1. /\ \A j \in 1 .. Len(gotSocks) : j \in 1 .. Len(sentSocks)
          /\ \A j \in 1 .. Len(pend) : Len(gotSocks) + j \in 1 .. Len(sentSocks)
      BY <2>2, <1>a
    <3> QED BY <3>1 DEF Wrote
  <2> QED BY <2>1, <2>3, <1>8, <1>9 DEF Sockets, Arrived
<1> QED BY <1>3, <1>7, <1>10, <1>11, <1>12 DEF Placed

LEMMA SocketArrives ==
  ASSUME MsgTypes, NEW Q \in Nat, Arrived(gotSocks, pend, Q), NEW s \in Socks, s = sentSocks[Q + 1]
  PROVE  Append(pend, s) \in Seq(Socks) /\ Arrived(gotSocks, Append(pend, s), Q + 1)
<1>1. pend \in Seq(Socks) /\ Len(pend) \in Nat /\ Len(gotSocks) \in Nat
  BY DEF MsgTypes
<1>2. /\ Append(pend, s) \in Seq(Socks) /\ Len(Append(pend, s)) = Len(pend) + 1
      /\ \A j \in 1 .. Len(pend) : Append(pend, s)[j] = pend[j]
      /\ Append(pend, s)[Len(pend) + 1] = s
  BY <1>1
<1> DEFINE w == Append(pend, s)
<1> HIDE DEF w
<1>3. /\ w \in Seq(Socks) /\ Len(w) = Len(pend) + 1
      /\ \A j \in 1 .. Len(pend) : w[j] = pend[j]
      /\ w[Len(pend) + 1] = s
  BY <1>2 DEF w
<1>4. ASSUME NEW j \in 1 .. Len(w)
      PROVE  w[j] = sentSocks[Len(gotSocks) + j]
  <2>1. j \in 1 .. Len(pend) \/ j = Len(pend) + 1
    BY <1>1, <1>3
  <2>2. Len(gotSocks) + (Len(pend) + 1) = Q + 1
    BY <1>1 DEF Arrived
  <2> QED BY <2>1, <2>2, <1>3 DEF Arrived
<1>5. Len(gotSocks) + Len(w) = Q + 1
  BY <1>1, <1>3 DEF Arrived
<1>6. Arrived(gotSocks, w, Q + 1)
  BY <1>4, <1>5 DEF Arrived
<1> QED BY <1>3, <1>6 DEF w

LEMMA SocketAccepted ==
  ASSUME MsgTypes, NEW Q \in Nat, Arrived(gotSocks, pend, Q), pend # <<>>
  PROVE  /\ Append(gotSocks, Head(pend)) \in Seq(Socks) /\ Tail(pend) \in Seq(Socks)
         /\ Arrived(Append(gotSocks, Head(pend)), Tail(pend), Q)
<1>1. gotSocks \in Seq(Socks) /\ pend \in Seq(Socks) /\ Len(pend) \in Nat /\ Len(gotSocks) \in Nat
  BY DEF MsgTypes
<1> DEFINE g == Append(gotSocks, Head(pend))
           w == Tail(pend)
<1>2. /\ w \in Seq(Socks) /\ Len(w) = Len(pend) - 1 /\ Len(pend) > 0
      /\ Head(pend) = pend[1] /\ pend[1] \in Socks
      /\ \A j \in 1 .. Len(pend) - 1 : w[j] = pend[j + 1]
  BY <1>1
<1> HIDE DEF w
<1>3. /\ g \in Seq(Socks) /\ Len(g) = Len(gotSocks) + 1 /\ g[Len(gotSocks) + 1] = pend[1]
      /\ \A j \in 1 .. Len(gotSocks) : g[j] = gotSocks[j]
  BY <1>1, <1>2
<1> HIDE DEF g
<1>4. ASSUME NEW j \in 1 .. Len(g)
      PROVE  g[j] = sentSocks[j]
  <2>1. j \in 1 .. Len(gotSocks) \/ j = Len(gotSocks) + 1
    BY <1>1, <1>3
  <2>2. 1 \in 1 .. Len(pend)
    BY <1>1, <1>2
  <2>3. pend[1] = sentSocks[Len(gotSocks) + 1]
    BY <2>2 DEF Arrived
  <2> QED BY <2>1, <2>3, <1>3 DEF Arrived
<1>5. ASSUME NEW j \in 1 .. Len(w)
      PROVE  w[j] = sentSocks[Len(g) + j]
  <2>1. j + 1 \in 1 .. Len(pend) /\ j \in 1 .. Len(pend) - 1
    BY <1>1, <1>2
  <2>2. w[j] = sentSocks[Len(gotSocks) + (j + 1)]
    BY <2>1, <1>2 DEF Arrived
  <2>3. Len(gotSocks) + (j + 1) = Len(g) + j
    BY <1>1, <1>3
  <2> QED BY <2>2, <2>3
<1>6. Len(g) + Len(w) = Q
  <2>1. Len(gotSocks) + Len(pend) = Q
    BY DEF Arrived
  <2>2. Len(g) = Len(gotSocks) + 1 /\ Len(w) = Len(pend) - 1
    BY <1>2, <1>3
  <2> QED BY <2>1, <2>2, <1>1
<1>7. g \in Seq(Socks) /\ w \in Seq(Socks) /\ Arrived(g, w, Q)
  BY <1>2, <1>3, <1>4, <1>5, <1>6 DEF Arrived
<1> QED BY <1>7 DEF g, w

\* The next byte is of message k + 1.
LEMMA NextByte ==
  ASSUME MsgTypes, wire # <<>>,
         NEW N, NEW end, NEW n, NEW q, NEW R, NEW k, Placed(N, end, n, q, R, k)
  PROVE  /\ k < N /\ k + 1 \in 1 .. N
         /\ wire[1] = ByteAt(n, q, k + 1, R + 1 - end[k])
         /\ Size(n, k + 1) \in Nat /\ end[k + 1] = end[k] + 2 + Size(n, k + 1)
         /\ Size(n, k + 1) = 0 <=> n[k + 1] = n[k]
         /\ n[k + 1] # n[k] => /\ n[k + 1] \in 1 .. Len(sent) /\ n[k + 1] = n[k] + 1
                               /\ Size(n, k + 1) = Len(sent[n[k + 1]])
         /\ q[k + 1] = q[k] \/ (q[k + 1] = q[k] + 1 /\ q[k + 1] \in 1 .. Len(sentSocks))
         /\ Readable => Size(n, k + 1) % 256 < 128
<1>a. /\ N \in Nat /\ R \in Nat /\ k \in 0 .. N /\ Len(wire) \in Nat
      /\ Len(sent) \in Nat /\ Len(sentSocks) \in Nat
      /\ stat_ # "size0" => k < N
  BY PlacedFacts
<1>r. ASSUME NEW i \in 0 .. N
      PROVE  /\ end[i] \in Nat /\ end[i] <= end[N]
             /\ n[i] \in Nat /\ n[i] <= Len(sent) /\ q[i] \in Nat /\ q[i] <= Len(sentSocks)
  <2>1. /\ end[i] \in Nat /\ end[i] <= end[N]
        /\ n[i] \in 0 .. Len(sent) /\ q[i] \in 0 .. Len(sentSocks)
    BY PlacedFacts
  <2> QED BY <2>1, <1>a
<1>b. end[N] = R + Len(wire) /\ Len(wire) > 0
  <2>1. Len(wire) > 0
    BY DEF MsgTypes
  <2> QED BY <2>1 DEF Placed, Stream
<1>1. k < N /\ k + 1 \in 1 .. N /\ k \in 0 .. N /\ k + 1 \in 0 .. N /\ (k + 1) - 1 = k
  <2>1. stat_ = "size0" => k # N
    BY <1>a, <1>b DEF Placed, Reading
  <2>2. k < N
    BY <1>a, <2>1
  <2> QED BY <1>a, <2>2
<1>2. /\ end[k] \in Nat /\ end[k + 1] \in Nat /\ end[k + 1] <= R + Len(wire)
      /\ n[k] \in Nat /\ n[k + 1] \in Nat /\ n[k + 1] <= Len(sent)
      /\ q[k] \in Nat /\ q[k + 1] \in Nat /\ q[k + 1] <= Len(sentSocks)
  BY <1>1, <1>r, <1>b
<1>3. /\ n[k + 1] \in {n[k], n[k] + 1} /\ q[k + 1] \in {q[k], q[k] + 1}
      /\ end[k + 1] = end[k] + 2 + Size(n, k + 1)
      /\ \A p \in R + 1 .. end[k + 1] : p > end[k] =>
           wire[p - R] = ByteAt(n, q, k + 1, p - end[k])
  BY <1>1 DEF Placed, Stream
<1>4. Size(n, k + 1) \in Nat
  BY <1>1, PlacedFacts
<1>5. n[k + 1] # n[k] => n[k + 1] \in 1 .. Len(sent) /\ n[k + 1] = n[k] + 1
  BY <1>2, <1>3, <1>a, Counted
<1>6. q[k + 1] # q[k] => q[k + 1] \in 1 .. Len(sentSocks) /\ q[k + 1] = q[k] + 1
  BY <1>2, <1>3, <1>a, Counted
<1>7. /\ n[k + 1] = n[k] => Size(n, k + 1) = 0
      /\ n[k + 1] # n[k] => Size(n, k + 1) = Len(sent[n[k + 1]])
  BY <1>1 DEF Size
<1>8. n[k + 1] # n[k] => /\ Len(sent[n[k + 1]]) \in Lens
                         /\ Readable => Len(sent[n[k + 1]]) % 256 < 128
  BY <1>5 DEF MsgTypes, Readable
<1>9. Size(n, k + 1) = 0 <=> n[k + 1] = n[k]
  BY <1>7, <1>8, LenRange
<1>10. Readable => Size(n, k + 1) % 256 < 128
  <2>1. 0 % 256 < 128
    OBVIOUS
  <2> QED BY <1>7, <1>8, <2>1
<1>11. wire[1] = ByteAt(n, q, k + 1, R + 1 - end[k])
  <2>1. R + 1 > end[k] /\ R + 1 <= end[k + 1]
    <3>1. stat_ = "size0" => R = end[k]
      BY DEF Placed, Reading
    <3>2. stat_ = "size1" => R = end[k] + 1
      BY DEF Placed, Reading
    <3>3. stat_ = "data" => size_ > 0 /\ R >= end[k] + 2 /\ R + size_ = end[k + 1] /\ size_ \in Nat
      BY DEF Placed, Reading, MsgTypes
    <3>4. stat_ \in {"size0", "size1", "data"}
      BY DEF MsgTypes
    <3>5. end[k + 1] >= end[k] + 2
      BY <1>2, <1>3, <1>4
    <3>6. CASE stat_ = "size0"
      BY <1>2, <1>a, <3>1, <3>5, <3>6, SMTT(30)
    <3>7. CASE stat_ = "size1"
      BY <1>2, <1>a, <3>2, <3>5, <3>7, SMTT(30)
    <3>8. CASE stat_ = "data"
      BY <1>2, <1>a, <3>3, <3>8, SMTT(30)
    <3> QED BY <3>4, <3>6, <3>7, <3>8
  <2>2. PICK p \in R + 1 .. end[k + 1] : p = R + 1
    BY <2>1, <1>2, <1>a
  <2>3. p > end[k] /\ p - R = 1 /\ p - end[k] = R + 1 - end[k]
    <3>1. p > end[k]
      BY <2>1, <2>2
    <3>2. p - R = 1
      BY <2>2, <1>a
    <3>3. R \in Nat /\ end[k] \in Nat /\ p = R + 1
      BY <2>2, <1>a, <1>2
    <3>4. \A e \in Nat : p - e = R + 1 - e
      BY <3>3
    <3> QED BY <3>1, <3>2, <3>3, <3>4
  <2>4. wire[p - R] = ByteAt(n, q, k + 1, p - end[k])
    BY <1>3, <2>3
  <2> QED BY <2>3, <2>4
<1> HIDE DEF Size, ByteAt
<1>12. q[k + 1] = q[k] \/ (q[k + 1] = q[k] + 1 /\ q[k + 1] \in 1 .. Len(sentSocks))
  BY <1>6
<1>13. k < N /\ k + 1 \in 1 .. N /\ end[k + 1] = end[k] + 2 + Size(n, k + 1)
  BY <1>1, <1>3
<1>14. n[k + 1] # n[k] => /\ n[k + 1] \in 1 .. Len(sent) /\ n[k + 1] = n[k] + 1
                          /\ Size(n, k + 1) = Len(sent[n[k + 1]])
  BY <1>5, <1>7
<1> QED BY <1>4, <1>9, <1>10, <1>11, <1>12, <1>13, <1>14


LEMMA OnSocketEffect ==
  ASSUME MsgTypes, NEW Q \in Nat, Arrived(gotSocks, pend, Q), OnSocket(pend)
  PROVE  /\ gotSocks' \in Seq(Socks) /\ pend' \in Seq(Socks) /\ Arrived(gotSocks', pend', Q)
         /\ unheard => unheard'
<1>1. CASE UNCHANGED <<gotSocks, pend>> /\ (unheard => unheard')
  BY <1>1 DEF MsgTypes
<1>2. CASE /\ pend # <<>> /\ gotSocks' = Append(gotSocks, Head(pend)) /\ pend' = Tail(pend)
           /\ unheard' = unheard
  BY <1>2, SocketAccepted
<1> QED BY <1>1, <1>2 DEF OnSocket

LEMMA ParseTypes ==
  ASSUME MsgTypes, ParseByte
  PROVE  /\ MsgTypes' /\ wire # <<>> /\ wire[1] \in Bytes /\ Head(wire) = wire[1]
         /\ Len(wire') = Len(wire) - 1 /\ \A p \in 1 .. Len(wire) - 1 : wire'[p] = wire[p + 1]
         /\ sent' = sent /\ sentSocks' = sentSocks
<1> DEFINE x == wire[1]
           pending == IF x.s = 0 THEN pend ELSE Append(pend, x.s)
<1>1. /\ wire # <<>> /\ wire' = Tail(wire) /\ sent' = sent /\ sentSocks' = sentSocks
  BY DEF ParseByte
<1>2. /\ wire' \in Seq(Bytes) /\ x \in Bytes /\ Head(wire) = x
      /\ Len(wire') = Len(wire) - 1 /\ \A p \in 1 .. Len(wire) - 1 : wire'[p] = wire[p + 1]
  BY <1>1 DEF MsgTypes
<1>3. x.b \in Nat /\ x.m \in Nat /\ x.s \in Socks \union {0}
  BY <1>2 DEF Bytes
<1>4. pending \in Seq(Socks) /\ {pend, gotSocks} \subseteq Seq(Socks)
  BY <1>3 DEF MsgTypes
<1> HIDE DEF x, pending
<1>5. \/ /\ stat_ = "size0" /\ stat_' = "size1" /\ size_' = Size0(x.b)
         /\ pend' = pending /\ UNCHANGED <<data_, handlers, got, gotSocks, unheard>>
      \/ /\ stat_ = "size1" /\ size_' = Size1(size_, x.b)
         /\ IF size_' = 0 THEN stat_' = "size0" /\ OnSocket(pending)
            ELSE stat_' = "data" /\ pend' = pending /\ UNCHANGED <<handlers, gotSocks, unheard>>
         /\ UNCHANGED <<data_, got>>
      \/ /\ stat_ = "data" /\ size_' = size_ - 1
         /\ IF size_' = 0 THEN stat_' = "size0" /\ OnString(Append(data_, x.m))
            ELSE data_' = Append(data_, x.m) /\ UNCHANGED <<stat_, got, unheard>>
         /\ pend' = pending /\ UNCHANGED <<handlers, gotSocks>>
  BY <1>2 DEF ParseByte, x, pending
<1>6. size_ \in Nat /\ got \in Seq(Seq(Nat)) /\ data_ \in Seq(Nat)
  BY DEF MsgTypes
<1>7. {pend', gotSocks'} \subseteq Seq(Socks)
  <2>1. ASSUME OnSocket(pending) PROVE {pend', gotSocks'} \subseteq Seq(Socks)
    <3>1. CASE pend' = pending /\ gotSocks' = gotSocks
      BY <3>1, <1>4
    <3>2. CASE pending # <<>> /\ gotSocks' = Append(gotSocks, Head(pending)) /\ pend' = Tail(pending)
      BY <3>2, <1>4
    <3> QED BY <2>1, <3>1, <3>2 DEF OnSocket
  <2>2. CASE pend' = pending /\ gotSocks' = gotSocks
    BY <2>2, <1>4
  <2> QED BY <1>5, <2>1, <2>2
<1>8. got' \in Seq(Seq(Nat)) /\ data_' \in Seq(Nat)
  <2>1. Append(data_, x.m) \in Seq(Nat)
    BY <1>3, <1>6
  <2> DEFINE d == Append(data_, x.m)
  <2> HIDE DEF d
  <2>2. d \in Seq(Nat)
    BY <2>1 DEF d
  <2>3. CASE got' = got /\ data_' \in {data_, d}
    BY <2>2, <2>3, <1>6
  <2>4. CASE OnString(d)
    <3>1. Append(got, d) \in Seq(Seq(Nat)) /\ <<>> \in Seq(Nat)
      BY <2>2, <1>6
    <3>2. got' \in {got, Append(got, d)} /\ data_' \in {<<>>, d}
      BY <2>4 DEF OnString
    <3> QED BY <2>2, <3>1, <3>2, <1>6
  <2>5. (got' = got /\ data_' \in {data_, d}) \/ OnString(d)
    BY <1>5 DEF d
  <2> QED BY <2>3, <2>4, <2>5
<1>9. stat_' \in {"size0", "size1", "data"} /\ size_' \in Nat /\ (stat_' = "data" => size_' > 0)
  <2>1. Size0(x.b) \in Nat /\ Size1(size_, x.b) \in Nat
    BY <1>3, <1>6 DEF Size0, Size1, TwoBytes
  <2>2. stat_ = "data" => size_ > 0
    BY DEF MsgTypes
  <2>3. stat_ = "data" => size_ - 1 \in Nat
    BY <2>2, <1>6
  <2> QED BY <1>5, <2>1, <2>3
<1> QED BY <1>1, <1>2, <1>7, <1>8, <1>9 DEF MsgTypes, x

\* The rest of the stream is where it was.
LEMMA StreamParsed ==
  ASSUME MsgTypes, ParseByte,
         NEW N, NEW end, NEW n, NEW q, NEW R, NEW k, Placed(N, end, n, q, R, k)
  PROVE  (StreamTypes(N, end, n, q, R + 1) /\ Stream(N, end, n, q, R + 1))'
<1>a. N \in Nat /\ R \in Nat /\ Len(wire) \in Nat
  BY PlacedFacts
<1>1. /\ wire # <<>> /\ Len(wire') = Len(wire) - 1
      /\ \A p \in 1 .. Len(wire) - 1 : wire'[p] = wire[p + 1]
      /\ sent' = sent /\ sentSocks' = sentSocks
  BY ParseTypes
<1>2. StreamTypes(N, end, n, q, R + 1)'
  BY <1>a, <1>1 DEF Placed, StreamTypes
<1>3. \A i \in 1 .. N : \A j : Size(n, i)' = Size(n, i) /\ ByteAt(n, q, i, j)' = ByteAt(n, q, i, j)
  BY <1>1 DEF Size, SockAt, ByteAt
<1>4. n[N] = Len(sent) /\ q[N] = Len(sentSocks) /\ end[N] = (R + 1) + Len(wire')
  <2>1. n[N] = Len(sent) /\ q[N] = Len(sentSocks) /\ end[N] = R + Len(wire)
    BY DEF Placed, Stream
  <2> QED BY <2>1, <1>1, <1>a
<1>5. ASSUME NEW i \in 1 .. N, NEW p \in (R + 1) + 1 .. end[i], p > end[i - 1]
      PROVE  wire'[p - (R + 1)] = ByteAt(n, q, i, p - end[i - 1])
  <2>1. i \in 0 .. N
    BY <1>a
  <2>2. end[i] \in Nat /\ end[i] <= end[N] /\ end[N] = R + Len(wire)
    BY <2>1, PlacedFacts DEF Placed, Stream
  <2>3. p \in R + 1 .. end[i] /\ p - (R + 1) \in 1 .. Len(wire) - 1 /\ (p - (R + 1)) + 1 = p - R
    BY <2>2, <1>a
  <2>4. wire[p - R] = ByteAt(n, q, i, p - end[i - 1])
    BY <2>3, <1>5 DEF Placed, Stream
  <2>5. wire'[p - (R + 1)] = wire[(p - (R + 1)) + 1]
    BY <2>3, <1>1
  <2> QED BY <2>3, <2>4, <2>5
<1>6. \A i \in 1 .. N :
        /\ n[i] \in {n[i - 1], n[i - 1] + 1} /\ q[i] \in {q[i - 1], q[i - 1] + 1}
        /\ end[i] = end[i - 1] + 2 + Size(n, i)
  BY DEF Placed, Stream
<1> QED BY <1>1, <1>2, <1>3, <1>4, <1>5, <1>6 DEF Stream

\* The string that is complete with the next byte is the one that was sent.
LEMMA StringComplete ==
  ASSUME MsgTypes, NEW m \in 1 .. Len(sent), NEW d \in Seq(Nat),
         Len(d) = Len(sent[m]), \A i \in 1 .. Len(d) : d[i] = m
  PROVE  d = sent[m]
<1>1. sent[m] \in Seq(Nat) /\ \A i \in 1 .. Len(sent[m]) : sent[m][i] = m
  BY DEF MsgTypes
<1> QED BY <1>1

LEMMA ByteParsed ==
  ASSUME MsgTypes, ParseByte, Readable,
         NEW N, NEW end, NEW n, NEW q, NEW R, NEW k, Placed(N, end, n, q, R, k)
  PROVE  \E k2 : Placed(N, end, n, q, R + 1, k2)'
<1> DEFINE x == wire[1]
           sz == Size(n, k + 1)
           pending == IF x.s = 0 THEN pend ELSE Append(pend, x.s)
<1>a. /\ N \in Nat /\ R \in Nat /\ k \in 0 .. N /\ end[k] \in Nat /\ n[k] \in Nat /\ q[k] \in Nat
      /\ Len(got) \in Nat /\ Len(data_) \in Nat /\ size_ \in Nat
  <2>1. k \in 0 .. N
    BY PlacedFacts
  <2>2. end[k] \in Nat /\ n[k] \in 0 .. Len(sent) /\ q[k] \in 0 .. Len(sentSocks)
    BY <2>1, PlacedFacts
  <2>3. Len(sent) \in Nat /\ Len(sentSocks) \in Nat
    BY DEF MsgTypes
  <2>4. n[k] \in Nat /\ q[k] \in Nat
    BY <2>2, <2>3
  <2> QED BY <2>1, <2>2, <2>4, PlacedFacts DEF MsgTypes
<1>b. wire # <<>> /\ Head(wire) = x /\ sent' = sent /\ sentSocks' = sentSocks
  BY ParseTypes
<1>c. /\ k < N /\ k + 1 \in 1 .. N
      /\ x = ByteAt(n, q, k + 1, R + 1 - end[k])
      /\ sz \in Nat /\ end[k + 1] = end[k] + 2 + sz
      /\ q[k + 1] = q[k] \/ (q[k + 1] = q[k] + 1 /\ q[k + 1] \in 1 .. Len(sentSocks))
      /\ sz % 256 < 128
  BY <1>b, NextByte
<1>d. /\ sz = 0 <=> n[k + 1] = n[k]
      /\ n[k + 1] # n[k] => /\ n[k + 1] \in 1 .. Len(sent) /\ n[k + 1] = n[k] + 1
                            /\ sz = Len(sent[n[k + 1]])
  BY <1>b, NextByte
<1>e. (StreamTypes(N, end, n, q, R + 1) /\ Stream(N, end, n, q, R + 1))'
  BY StreamParsed
<1>f. Arrived(gotSocks, pend, IF stat_ = "size0" THEN q[k] ELSE q[k + 1])
  BY DEF Placed, Sockets
<1>g. ~unheard => /\ Len(got) = n[k] /\ \A j \in 1 .. n[k] : got[j] = sent[j]
                  /\ Len(data_) = IF stat_ = "data" THEN R - end[k] - 2 ELSE 0
                  /\ \A j \in 1 .. Len(data_) : data_[j] = n[k + 1]
  BY DEF Placed, Strings
<1>h. Size(n, k + 1)' = sz
  BY <1>b DEF Size
<1>i. \A accepted, waiting, Q : Arrived(accepted, waiting, Q)' <=> Arrived(accepted', waiting', Q)
  BY <1>b DEF Arrived
<1>k. q[k + 1] \in Nat /\ k + 1 \in 0 .. N
  BY <1>a, <1>c, SMTT(30)
<1> HIDE DEF x, sz, pending
<1>1. CASE stat_ = "size0"
  <2>1. R = end[k] /\ R + 1 - end[k] = 1
    BY <1>1, <1>a DEF Placed, Reading
  <2>2. x.b = sz % 256 /\ x.s = SockAt(q, k + 1)
    BY <2>1, <1>c DEF ByteAt, Byte, sz
  <2>3. /\ stat_' = "size1" /\ size_' = Size0(x.b) /\ pend' = pending
        /\ UNCHANGED <<data_, got, gotSocks, unheard>>
    BY <1>1, <1>b DEF ParseByte, pending
  <2>4. size_' = sz % 256
    BY <2>2, <2>3, <1>c DEF Size0
  <2>5. Reading(N, end, n, R + 1, k)'
    BY <2>1, <2>3, <2>4, <1>a, <1>c, <1>h DEF Reading
  <2>6. Strings(end, n, R + 1, k)'
    <3>1. ~unheard' => /\ Len(got') = n[k] /\ \A j \in 1 .. n[k] : got'[j] = sent'[j]
                       /\ Len(data_') = 0 /\ \A j \in 1 .. Len(data_') : data_'[j] = n[k + 1]
      BY <1>1, <1>b, <1>g, <2>3
    <3> QED BY <3>1, <2>3 DEF Strings
  <2>7. Arrived(gotSocks', pend', q[k + 1])
    <3>1. CASE q[k + 1] = q[k]
      <4>1. (k + 1) - 1 = k
        BY <1>a
      <4>2. x.s = 0
        BY <3>1, <4>1, <2>2 DEF SockAt
      <4>3. pend' = pend /\ gotSocks' = gotSocks
        BY <4>2, <2>3 DEF pending
      <4> QED BY <3>1, <4>3, <1>1, <1>f
    <3>2. CASE q[k + 1] = q[k] + 1 /\ q[k + 1] \in 1 .. Len(sentSocks)
      <4>1. x.s = sentSocks[q[k] + 1]
        BY <3>2, <1>a, <2>2 DEF SockAt
      <4>2. x.s \in Socks
        BY <4>1, <3>2 DEF MsgTypes
      <4>3. pend' = Append(pend, x.s)
        BY <4>2, <2>3, MessengerAssumption DEF pending
      <4>4. Arrived(gotSocks, Append(pend, x.s), q[k] + 1)
        BY <4>1, <4>2, <1>1, <1>a, <1>f, SocketArrives
      <4> QED BY <3>2, <4>3, <4>4, <2>3 DEF Arrived
    <3> QED BY <1>c, <3>1, <3>2
  <2>8. Sockets(q, k)'
    BY <2>3, <2>7, <1>b DEF Sockets, Arrived
  <2> QED BY <1>e, <2>5, <2>6, <2>8 DEF Placed
<1>2. CASE stat_ = "size1"
  <2>1. R = end[k] + 1 /\ R + 1 - end[k] = 2 /\ size_ = sz % 256
    BY <1>2, <1>a DEF Placed, Reading, sz
  <2>2. x.b = sz \div 256 /\ x.s = 0
    BY <2>1, <1>c DEF ByteAt, Byte, sz
  <2>3. /\ size_' = Size1(size_, x.b)
        /\ IF size_' = 0 THEN stat_' = "size0" /\ OnSocket(pend)
           ELSE stat_' = "data" /\ pend' = pend /\ UNCHANGED <<gotSocks, unheard>>
        /\ UNCHANGED <<data_, got>>
    BY <1>2, <1>b, <2>2 DEF ParseByte
  <2>4. size_' = sz
    <3>1. size_ < 256
      BY <1>c, <2>1
    <3>2. (sz % 256) + 256 * (sz \div 256) = sz
      BY <1>c
    <3> QED BY <2>1, <2>2, <2>3, <3>1, <3>2 DEF Size1
  <2>5. CASE sz = 0
    <3>1. /\ stat_' = "size0" /\ OnSocket(pend) /\ n[k + 1] = n[k]
          /\ R + 1 = end[k + 1] /\ UNCHANGED <<data_, got>>
      BY <2>1, <2>3, <2>4, <2>5, <1>a, <1>c, <1>d
    <3>2. Arrived(gotSocks', pend', q[k + 1]) /\ (unheard => unheard')
      BY <3>1, <1>2, <1>f, <1>k, OnSocketEffect
    <3>3. Reading(N, end, n, R + 1, k + 1)'
      BY <3>1, <1>k DEF Reading
    <3>4. Strings(end, n, R + 1, k + 1)'
      <4>1. ~unheard' => /\ Len(got') = n[k + 1] /\ \A j \in 1 .. n[k + 1] : got'[j] = sent'[j]
                         /\ Len(data_') = 0
        BY <1>2, <1>b, <1>g, <3>1, <3>2
      <4>2. Len(data_') = 0 => \A j \in 1 .. Len(data_') : data_'[j] = n[(k + 1) + 1]
        OBVIOUS
      <4> QED BY <3>1, <4>1, <4>2 DEF Strings
    <3>5. Sockets(q, k + 1)'
      BY <3>1, <3>2, <1>b DEF Sockets, Arrived
    <3> QED BY <1>e, <3>3, <3>4, <3>5 DEF Placed
  <2>6. CASE sz # 0
    <3>1. /\ stat_' = "data" /\ UNCHANGED <<pend, gotSocks, unheard, data_, got>>
          /\ n[k + 1] # n[k]
      BY <2>3, <2>4, <2>6, <1>d
    <3>2. Reading(N, end, n, R + 1, k)'
      <4>1. R + 1 = end[k] + 2 /\ (R + 1) + sz = end[k + 1] /\ sz > 0
        <5>1. R \in Nat /\ end[k] \in Nat /\ R = end[k] + 1
          BY <1>a, <2>1
        <5>2. R + 1 = end[k] + 2
          BY <5>1
        <5>3. end[k + 1] = end[k] + 2 + sz /\ sz \in Nat
          BY <1>c
        <5> QED BY <5>2, <5>3, <2>6
      <4> QED BY <4>1, <3>1, <2>4, <1>a, <1>c DEF Reading
    <3>3. Strings(end, n, R + 1, k)'
      <4>1. (R + 1) - end[k] - 2 = 0
        BY <1>a, <2>1
      <4>2. ~unheard' => /\ Len(got') = n[k] /\ \A j \in 1 .. n[k] : got'[j] = sent'[j]
                         /\ Len(data_') = 0 /\ \A j \in 1 .. Len(data_') : data_'[j] = n[k + 1]
        BY <1>2, <1>b, <1>g, <3>1
      <4> QED BY <3>1, <4>1, <4>2 DEF Strings
    <3>4. Sockets(q, k)'
      BY <3>1, <1>2, <1>b, <1>f DEF Sockets, Arrived
    <3> QED BY <1>e, <3>2, <3>3, <3>4 DEF Placed
  <2> QED BY <2>5, <2>6
<1>3. CASE stat_ = "data"
  <2>1. n[k + 1] # n[k] /\ size_ > 0 /\ R >= end[k] + 2 /\ R + size_ = end[k + 1]
    BY <1>3 DEF Placed, Reading
  <2>2. R + 1 - end[k] \notin {1, 2}
    BY <2>1, <1>a, SMTT(30)
  <2>3. x.m = n[k + 1] /\ x.s = 0
    BY <2>2, <1>c DEF ByteAt, Byte
  <2> DEFINE d == Append(data_, n[k + 1])
  <2>4. /\ size_' = size_ - 1
        /\ IF size_' = 0 THEN stat_' = "size0" /\ OnString(d)
           ELSE data_' = d /\ UNCHANGED <<stat_, got, unheard>>
        /\ UNCHANGED <<pend, gotSocks>>
    BY <1>3, <1>b, <2>3 DEF ParseByte
  <2>5. /\ n[k + 1] \in 1 .. Len(sent) /\ n[k + 1] = n[k] + 1 /\ sz = Len(sent[n[k + 1]])
        /\ n[k + 1] \in Nat
    BY <2>1, <1>a, <1>d
  <2>6. /\ d \in Seq(Nat) /\ Len(d) = Len(data_) + 1 /\ d[Len(data_) + 1] = n[k + 1]
        /\ \A j \in 1 .. Len(data_) : d[j] = data_[j]
    BY <2>5 DEF MsgTypes
  <2> HIDE DEF d
  <2>7. ~unheard => /\ Len(d) = (R + 1) - end[k] - 2
                    /\ \A j \in 1 .. Len(d) : d[j] = n[k + 1]
    <3> SUFFICES ASSUME ~unheard
                 PROVE  /\ Len(d) = (R + 1) - end[k] - 2
                        /\ \A j \in 1 .. Len(d) : d[j] = n[k + 1]
      OBVIOUS
    <3>1. Len(data_) = R - end[k] - 2 /\ \A j \in 1 .. Len(data_) : data_[j] = n[k + 1]
      BY <1>3, <1>g
    <3>2. Len(d) = (R + 1) - end[k] - 2
      <4>1. R \in Nat /\ end[k] \in Nat /\ Len(d) = Len(data_) + 1
        BY <2>6, <1>a
      <4>2. \A e \in Nat : R - e - 2 + 1 = (R + 1) - e - 2
        BY <4>1
      <4> QED BY <3>1, <4>1, <4>2
    <3>3. \A j \in 1 .. Len(d) : j \in 1 .. Len(data_) \/ j = Len(data_) + 1
      BY <2>6, <1>a
    <3> QED BY <3>1, <3>2, <3>3, <2>6
  <2>8. CASE size_' = 0
    <3>1. stat_' = "size0" /\ OnString(d) /\ R + 1 = end[k + 1]
      BY <2>1, <2>4, <2>8, <1>a
    <3>2. Reading(N, end, n, R + 1, k + 1)'
      BY <3>1, <1>k DEF Reading
    <3>3. Strings(end, n, R + 1, k + 1)'
      <4> SUFFICES ASSUME ~unheard'
                   PROVE  /\ Len(got') = n[k + 1] /\ \A j \in 1 .. n[k + 1] : got'[j] = sent'[j]
                          /\ Len(data_') = 0
        BY <3>1 DEF Strings
      <4>1. ~unheard /\ got' = Append(got, d) /\ data_' = <<>>
        BY <3>1 DEF OnString
      <4>2. d = sent[n[k + 1]]
        <5>1. Len(d) = sz
          <6>1. Len(d) = (R + 1) - end[k] - 2 /\ R + 1 = end[k + 1]
            BY <4>1, <2>7, <3>1
          <6>2. end[k + 1] = end[k] + 2 + sz /\ sz \in Nat /\ end[k] \in Nat
            BY <1>a, <1>c
          <6>3. \A e \in Nat : e + 2 + sz - e - 2 = sz
            BY <6>2
          <6> QED BY <6>1, <6>2, <6>3
        <5> QED BY <5>1, <4>1, <2>5, <2>6, <2>7, StringComplete
      <4>3. Len(got) = n[k] /\ got \in Seq(Seq(Nat)) /\ \A j \in 1 .. n[k] : got[j] = sent[j]
        BY <4>1, <1>g DEF MsgTypes
      <4>4. /\ Len(got') = n[k] + 1 /\ got'[n[k] + 1] = d
            /\ \A j \in 1 .. n[k] : got'[j] = got[j]
        BY <4>1, <4>3, <2>6
      <4>5. \A j \in 1 .. n[k + 1] : j \in 1 .. n[k] \/ j = n[k] + 1
        BY <2>5, <1>a
      <4> QED BY <4>1, <4>2, <4>3, <4>4, <4>5, <2>5, <1>b
    <3>4. Sockets(q, k + 1)'
      BY <3>1, <2>4, <1>3, <1>b, <1>f DEF Sockets, Arrived
    <3> QED BY <1>e, <3>2, <3>3, <3>4 DEF Placed
  <2>9. CASE size_' # 0
    <3>1. stat_' = "data" /\ data_' = d /\ UNCHANGED <<got, unheard>>
      BY <2>4, <2>9, <1>3
    <3>2. Reading(N, end, n, R + 1, k)'
      <4>1. size_' > 0 /\ R + 1 >= end[k] + 2 /\ (R + 1) + size_' = end[k + 1]
        BY <2>1, <2>4, <2>9, <1>a
      <4> QED BY <4>1, <3>1, <2>1, <1>a, <1>c DEF Reading
    <3>3. Strings(end, n, R + 1, k)'
      BY <3>1, <2>7, <1>b, <1>g DEF Strings
    <3>4. Sockets(q, k)'
      BY <3>1, <2>4, <1>3, <1>b, <1>f DEF Sockets, Arrived
    <3> QED BY <1>e, <3>2, <3>3, <3>4 DEF Placed
  <2> QED BY <2>8, <2>9
<1> QED BY <1>1, <1>2, <1>3 DEF MsgTypes

\* A handler that accepts moves a socket, and nothing else.
LEMMA HandlerAccepted ==
  ASSUME MsgTypes, HandlerAccepts,
         NEW N, NEW end, NEW n, NEW q, NEW R, NEW k, Placed(N, end, n, q, R, k)
  PROVE  Placed(N, end, n, q, R, k)'
<1>1. UNCHANGED <<wire, stat_, size_, data_, sent, got, sentSocks, unheard>>
  BY DEF HandlerAccepts
<1>2. Arrived(gotSocks, pend, IF stat_ = "size0" THEN q[k] ELSE q[k + 1])
  BY DEF Placed, Sockets
<1>3. (IF stat_ = "size0" THEN q[k] ELSE q[k + 1]) \in Nat
  <2>1. Len(gotSocks) \in Nat /\ Len(pend) \in Nat
    BY DEF MsgTypes
  <2> QED BY <2>1, <1>2 DEF Arrived
<1>4. Arrived(gotSocks', pend', IF stat_ = "size0" THEN q[k] ELSE q[k + 1])
  <2>1. CASE UNCHANGED <<pend, gotSocks>>
    BY <2>1, <1>2
  <2>2. CASE pend # <<>> /\ gotSocks' = Append(gotSocks, Head(pend)) /\ pend' = Tail(pend)
    BY <2>2, <1>2, <1>3, SocketAccepted
  <2> QED BY <2>1, <2>2 DEF HandlerAccepts
<1>5. Sockets(q, k)'
  BY <1>1, <1>4 DEF Sockets, Arrived
<1>6. Strings(end, n, R, k)' /\ Reading(N, end, n, R, k)'
  BY <1>1 DEF Placed, Strings, Reading, Size
<1>7. StreamTypes(N, end, n, q, R)' /\ Stream(N, end, n, q, R)'
  BY <1>1 DEF Placed, StreamTypes, Stream, ByteAt, Size, SockAt
<1> QED BY <1>5, <1>6, <1>7 DEF Placed

LEMMA HandlerTypes ==
  ASSUME MsgTypes, HandlerAccepts
  PROVE  MsgTypes'
<1>1. CASE UNCHANGED <<pend, gotSocks>>
  BY <1>1 DEF HandlerAccepts, MsgTypes
<1>2. CASE pend # <<>> /\ gotSocks' = Append(gotSocks, Head(pend)) /\ pend' = Tail(pend)
  <2>1. gotSocks' \in Seq(Socks) /\ pend' \in Seq(Socks)
    BY <1>2 DEF MsgTypes
  <2> QED BY <2>1 DEF HandlerAccepts, MsgTypes
<1> QED BY <1>1, <1>2 DEF HandlerAccepts

\* The steps that concern the pipe.
LEMMA PipeCases ==
  ASSUME [Next]_vars
  PROVE  \/ \E c \in Cos, len \in Lens : SendString(c, len)
         \/ \E c \in Cos, s \in Socks : SendSocket(c, s)
         \/ ParseByte
         \/ HandlerAccepts
         \/ UNCHANGED PipeVars
<1> USE DEF PipeVars
<1>1. CASE ChildEnds \/ ExitCb \/ ExitCbEnds \/ UNCHANGED vars
  BY <1>1 DEF ChildEnds, ExitCb, ExitCbEnds, msgVars, vars
<1>2. CASE SendCb
  BY <1>2 DEF SendCb
<1>3. CASE Ondata \/ \E kind \in {"socket", "handler"} : Handle(kind)
  BY <1>3 DEF Ondata, Handle
<1>4. ASSUME NEW c \in Cos, Kill(c) \/ Wait(c) \/ Drop(c) PROVE UNCHANGED PipeVars
  BY <1>4 DEF Kill, Wait, Drop, msgVars
<1>5. ASSUME NEW c \in Cos, NEW opts \in OptionSets, Spawn(c, opts) PROVE UNCHANGED PipeVars
  BY <1>5 DEF Spawn
<1>6. CASE UNCHANGED msgVars
  BY <1>6 DEF msgVars
<1> QED BY <1>1, <1>2, <1>3, <1>4, <1>5, <1>6 DEF Next, Send, ReceiverStep

LEMMA PipeInvStep ==
  ASSUME MsgTypes, PipeInv, [Next]_vars
  PROVE  MsgTypes' /\ PipeInv'
<1>1. ASSUME NEW len \in Nat, NEW sk \in Nat, Wrote(len, sk) PROVE PipeInv'
  <2> SUFFICES ASSUME Readable'
               PROVE  \E N, end, n, q, R, k : Placed(N, end, n, q, R, k)'
    BY DEF PipeInv
  <2>1. Readable
    <3>1. Len(sent) \in Nat /\ Len(sent') \in {Len(sent), Len(sent) + 1}
      BY <1>1 DEF Wrote, MsgTypes
    <3>2. \A m \in 1 .. Len(sent) : m \in 1 .. Len(sent') /\ sent'[m] = sent[m]
      BY <1>1, <3>1 DEF Wrote
    <3> QED BY <3>2 DEF Readable
  <2>2. PICK N, end, n, q, R, k : Placed(N, end, n, q, R, k)
    BY <2>1 DEF PipeInv
  <2> QED BY <1>1, <2>2, MessageAdded
<1>2. ASSUME NEW c \in Cos, NEW len \in Lens, SendString(c, len) PROVE MsgTypes' /\ PipeInv'
  <2>1. MsgTypes' /\ Wrote(len, 0) /\ len \in Nat
    BY <1>2, StringWritten, LenRange
  <2> QED BY <1>1, <2>1
<1>3. ASSUME NEW c \in Cos, NEW s \in Socks, SendSocket(c, s) PROVE MsgTypes' /\ PipeInv'
  <2>1. MsgTypes' /\ \E sk \in {0, s} : Wrote(0, sk)
    BY <1>3, SocketWritten
  <2>2. \A sk \in {0, s} : sk \in Nat
    BY MessengerAssumption
  <2> QED BY <1>1, <2>1, <2>2
<1>4. CASE ParseByte
  <2>1. MsgTypes' /\ sent' = sent
    BY <1>4, ParseTypes
  <2>2. ASSUME Readable PROVE \E N, end, n, q, R, k : Placed(N, end, n, q, R, k)'
    <3>1. PICK N, end, n, q, R, k : Placed(N, end, n, q, R, k)
      BY <2>2 DEF PipeInv
    <3> QED BY <1>4, <2>2, <3>1, ByteParsed
  <2> QED BY <2>1, <2>2 DEF PipeInv, Readable
<1>5. CASE HandlerAccepts
  <2>1. sent' = sent /\ MsgTypes'
    BY <1>5, HandlerTypes DEF HandlerAccepts
  <2>2. ASSUME Readable PROVE \E N, end, n, q, R, k : Placed(N, end, n, q, R, k)'
    <3>1. PICK N, end, n, q, R, k : Placed(N, end, n, q, R, k)
      BY <2>2 DEF PipeInv
    <3> QED BY <1>5, <3>1, HandlerAccepted
  <2> QED BY <2>1, <2>2 DEF PipeInv, Readable
<1>6. CASE UNCHANGED PipeVars
  <2>1. MsgTypes'
    BY <1>6 DEF PipeVars, MsgTypes
  <2>2. ASSUME Readable PROVE \E N, end, n, q, R, k : Placed(N, end, n, q, R, k)'
    <3>1. PICK N, end, n, q, R, k : Placed(N, end, n, q, R, k)
      BY <2>2 DEF PipeInv
    <3>2. UNCHANGED <<wire, stat_, size_, data_, pend, sent, got, sentSocks, gotSocks, unheard>>
      BY <1>6 DEF PipeVars
    <3>3. StreamTypes(N, end, n, q, R)' /\ Stream(N, end, n, q, R)'
      <4>1. StreamTypes(N, end, n, q, R)'
        BY <3>1, <3>2 DEF Placed, StreamTypes
      <4>2. \A i, j : Size(n, i)' = Size(n, i) /\ ByteAt(n, q, i, j)' = ByteAt(n, q, i, j)
        BY <3>2 DEF Size, SockAt, ByteAt
      <4> QED BY <3>1, <3>2, <4>1, <4>2 DEF Placed, Stream
    <3>4. Reading(N, end, n, R, k)' /\ Strings(end, n, R, k)'
      BY <3>1, <3>2 DEF Placed, Reading, Strings, Size
    <3>5. Sockets(q, k)'
      BY <3>1, <3>2 DEF Placed, Sockets, Arrived
    <3> QED BY <3>3, <3>4, <3>5 DEF Placed
  <2>3. sent' = sent
    BY <1>6 DEF PipeVars
  <2> QED BY <2>1, <2>2, <2>3 DEF PipeInv, Readable
<1> QED BY <1>2, <1>3, <1>4, <1>5, <1>6, PipeCases

LEMMA PipeInitially ==
  ASSUME Init
  PROVE  MsgTypes /\ PipeInv
<1> USE DEF Init, MessengerInit
<1>1. MsgTypes
  BY DEF MsgTypes
<1>2. PipeInv
  <2> DEFINE f == [i \in 0 .. 0 |-> 0]
  <2>1. f \in [0 .. 0 -> Nat] /\ f[0] = 0
    OBVIOUS
  <2> HIDE DEF f
  <2>2. StreamTypes(0, f, f, f, 0) /\ Stream(0, f, f, f, 0)
    BY <2>1 DEF StreamTypes, Stream
  <2>3. Reading(0, f, f, 0, 0) /\ Strings(f, f, 0, 0) /\ Sockets(f, 0)
    BY <2>1 DEF Reading, Strings, Sockets, Arrived
  <2> QED BY <2>2, <2>3 DEF PipeInv, Placed
<1> QED BY <1>1, <1>2

LEMMA PipeHolds == Spec => [](MsgTypes /\ PipeInv)
<1>1. MsgTypes /\ PipeInv /\ [Next]_vars => (MsgTypes /\ PipeInv)'
  BY PipeInvStep
<1> QED BY PipeInitially, <1>1, PTL DEF Spec

LEMMA PrefixOf ==
  ASSUME NEW S, NEW s \in Seq(S), NEW t \in Seq(S), Len(s) <= Len(t),
         \A i \in 1 .. Len(s) : s[i] = t[i]
  PROVE  s = SubSeq(t, 1, Len(s))
OBVIOUS

LEMMA PlacedInOrder ==
  ASSUME MsgTypes, NEW N, NEW end, NEW n, NEW q, NEW R, NEW k, Placed(N, end, n, q, R, k)
  PROVE  MessagesInOrder
<1>1. /\ k \in 0 .. N /\ n[k] \in 0 .. Len(sent)
      /\ q[k] \in 0 .. Len(sentSocks)
      /\ stat_ # "size0" => q[k + 1] \in 0 .. Len(sentSocks)
  <2>1. k \in 0 .. N /\ N \in Nat /\ (stat_ # "size0" => k < N)
    BY PlacedFacts
  <2>2. stat_ # "size0" => k + 1 \in 0 .. N
    BY <2>1
  <2> QED BY <2>1, <2>2, PlacedFacts
<1>2. gotSocks = SubSeq(sentSocks, 1, Len(gotSocks))
  <2>1. /\ Len(gotSocks) + Len(pend) <= Len(sentSocks)
        /\ \A j \in 1 .. Len(gotSocks) : gotSocks[j] = sentSocks[j]
    <3>1. Len(sentSocks) \in Nat
      BY DEF MsgTypes
    <3> QED BY <1>1, <3>1 DEF Placed, Sockets, Arrived
  <2>2. /\ gotSocks \in Seq(Socks) /\ sentSocks \in Seq(Socks)
        /\ Len(gotSocks) \in Nat /\ Len(pend) \in Nat /\ Len(sentSocks) \in Nat
    BY DEF MsgTypes
  <2>3. Len(gotSocks) <= Len(sentSocks)
    BY <2>1, <2>2
  <2> QED BY <2>1, <2>2, <2>3, PrefixOf
<1>3. ~unheard => got = SubSeq(sent, 1, Len(got))
  <2>1. ~unheard => Len(got) = n[k] /\ \A j \in 1 .. n[k] : got[j] = sent[j]
    BY DEF Placed, Strings
  <2>2. got \in Seq(Seq(Nat)) /\ sent \in Seq(Seq(Nat)) /\ Len(sent) \in Nat
    BY DEF MsgTypes
  <2>3. n[k] <= Len(sent)
    BY <1>1, <2>2
  <2> QED BY <2>1, <2>2, <2>3, PrefixOf
<1> QED BY <1>2, <1>3 DEF MessagesInOrder

(* As long as the receiver can read the lengths of the strings sent, the   *)
(* strings it hands over are the first of those sent, whole and in order,  *)
(* and so are the sockets, however strings, sockets and handlers that      *)
(* accept late are mixed (messenger.cpp, parse).                           *)
THEOREM ReadableInOrder == Spec => [](Readable => MessagesInOrder)
<1>1. MsgTypes /\ PipeInv => (Readable => MessagesInOrder)
  BY PlacedInOrder DEF PipeInv
<1> QED BY PipeHolds, <1>1, PTL

(* A script that sends only such lengths loses and mixes nothing.          *)
THEOREM MessagesComeInOrder ==
  ASSUME \A len \in Lens : len % 256 < 128
  PROVE  Spec => []MessagesInOrder
<1>1. MsgTypes => Readable
  BY DEF MsgTypes, Readable
<1>2. MsgTypes /\ PipeInv => MessagesInOrder
  BY <1>1, PlacedInOrder DEF PipeInv
<1> QED BY PipeHolds, <1>2, PTL

LEMMA SameSeq ==
  ASSUME NEW S, NEW s \in Seq(S), NEW t \in Seq(S), Len(s) = Len(t),
         \A i \in 1 .. Len(t) : s[i] = t[i]
  PROVE  s = t
OBVIOUS

LEMMA PlacedArrive ==
  ASSUME MsgTypes, NEW N, NEW end, NEW n, NEW q, NEW R, NEW k, Placed(N, end, n, q, R, k)
  PROVE  MessagesArrive
<1> SUFFICES ASSUME wire = <<>>, ~unheard
             PROVE  got = sent
  BY DEF MessagesArrive
<1>1. N \in Nat /\ R \in Nat /\ k \in 0 .. N /\ (stat_ # "size0" => k < N)
  BY PlacedFacts
<1>2. end[N] = R /\ n[N] = Len(sent)
  <2>1. end[N] = R + Len(wire) /\ Len(wire) = 0
    BY DEF Placed, Stream
  <2> QED BY <2>1, <1>1 DEF Placed, Stream
<1>3. ASSUME k < N PROVE FALSE
  <2>1. k + 1 \in 1 .. N /\ k + 1 \in 0 .. N /\ k \in 0 .. N /\ (k + 1) - 1 = k
    BY <1>1, <1>3
  <2>2. /\ Size(n, k + 1) \in Nat /\ end[k] \in Nat /\ end[k + 1] \in Nat
        /\ end[k + 1] <= R
    BY <2>1, <1>2, PlacedFacts
  <2>3. end[k + 1] = end[k] + 2 + Size(n, k + 1)
    BY <2>1 DEF Placed, Stream
  <2>4. R >= end[k] + 2
    BY <2>2, <2>3, <1>1
  <2>5. stat_ = "data"
    BY <2>2, <2>4, SMTT(30) DEF Placed, Reading, MsgTypes
  <2>6. R + size_ = end[k + 1] /\ size_ > 0 /\ size_ \in Nat
    BY <2>5 DEF Placed, Reading, MsgTypes
  <2> QED BY <2>2, <2>6, <1>1
<1>4. k = N
  BY <1>1, <1>3
<1>5. Len(got) = Len(sent) /\ \A j \in 1 .. Len(sent) : got[j] = sent[j]
  BY <1>2, <1>4 DEF Placed, Strings
<1>6. got \in Seq(Seq(Nat)) /\ sent \in Seq(Seq(Nat))
  BY DEF MsgTypes
<1> QED BY <1>5, <1>6, SameSeq

(* And none of them is lost: what docs/flame_os.md says of all lengths up  *)
(* to 65535, and the run ChildProcessLengths shows false of 128, is true   *)
(* of those that the receiver can read.                                    *)
THEOREM ReadableArrive == Spec => [](Readable => MessagesArrive)
<1>1. MsgTypes /\ PipeInv => (Readable => MessagesArrive)
  BY PlacedArrive DEF PipeInv
<1> QED BY PipeHolds, <1>1, PTL
=============================================================================

------------------------------ MODULE NetProofs ------------------------------
(***************************************************************************)
(* Proofs about Net: type correctness and the refinement of ByteStream,    *)
(* for any number of coroutines and calls, any stream and any delimiter.   *)
(*                                                                         *)
(* The invariant has two parts.  The first is about the stack of the       *)
(* thread: a coroutine is on it at most once, and those the objects and    *)
(* libuv point to are not on it, but wait for what the object answers.     *)
(* The second is about the reader, as long as the script keeps the rules:  *)
(* what rv_ holds is the answer to the read that waits, and who reads      *)
(* outside of close() finds rv_ empty.                                     *)
(***************************************************************************)
EXTENDS Net, TLAPS, SequenceTheorems, WellFoundedInduction

Waitings == {"connect", "read", "write", "recv", "send", "serve"}
States == {"ready", "run", "ended"} \cup Waitings
Rests  == {"reader", "eof", "socket", "udp", "server", "crash"}
Stack  == {Frame(c) : c \in Cos} \cup {Rest(k) : k \in Rests}

In(f, x) == \E i \in 1 .. Len(f) : f[i] = x

(* A stack f and states s of the coroutines that go together.              *)
OnStack(f, s) ==
  /\ f \in Seq(Stack) /\ s \in [Cos -> States]
  /\ \A c \in Cos : \A i, j \in 1 .. Len(f) : f[i] = Frame(c) /\ f[j] = Frame(c) => i = j
  /\ \A c \in Cos : s[c] = "run" <=> In(f, Frame(c))

(* A queue of coroutines that wait for w.                                  *)
Queued(q, w, s) ==
  /\ q \in Seq(Cos)
  /\ \A i, j \in 1 .. Len(q) : q[i] = q[j] => i = j
  /\ \A i \in 1 .. Len(q) : s[q[i]] = w

(* A pointer to a coroutine that waits for w, or null.                     *)
Points(p, w, s) == p = 0 \/ (p \in Cos /\ s[p] = w)

ScriptInv == OnStack(frames, st) /\ calls \in 0 .. MaxCalls
ReadTypes == /\ Points(co, "read", st)
             /\ tm \in {"idle", "armed", "gone"} /\ want \in Wants
             /\ buf \in Seq(Nat) /\ rv \in Seq(Nat)
             /\ reading \in BOOLEAN /\ misused \in BOOLEAN
WireTypes == /\ conn \in {"none", "pending", "yes", "failed"} /\ sck \in {"open", "closed"}
             /\ wcli \in BOOLEAN
             /\ inflight \in Seq(Nat) /\ peer \in {"up", "eof", "reset"}
WriteInv  == Queued(wreqs, "write", st)
UdpTypes  == /\ usck \in {"open", "closed"} /\ uinit \in BOOLEAN /\ ubound \in BOOLEAN
             /\ receiving \in BOOLEAN /\ ulost \subseteq Cos
             /\ Points(uco, "recv", st) /\ Queued(ureqs, "send", st)
ServTypes == /\ svr \in {"open", "bound", "closed"} /\ listening \in BOOLEAN
             /\ Points(aco, "serve", st)
Types     == ScriptInv /\ ReadTypes /\ WireTypes /\ WriteInv /\ UdpTypes /\ ServTypes

(* i bytes of stream r are an answer to the read w.                        *)
Answers(w, i, r) ==
  \/ w.k = "any" /\ i \in 1 .. Len(r)
  \/ w.k = "size" /\ i = w.n /\ i <= Len(r)
  \/ w.k = "delim" /\ i \in EndsWithDelim(r) /\ \A j \in EndsWithDelim(r) : i <= j
  \/ w.k = "all" /\ i = Len(r)

Left == rv \o buf \o inflight

(* A read that waits either has its answer in rv_, and return_cb will come *)
(* (the timer runs, and the stream is not read), or rv_ is empty.  While   *)
(* close() has told the reader and not returned, nobody reads.             *)
ReadInv ==
  /\ co # 0 => /\ ~In(frames, Rest("reader"))
               /\ \/ tm = "armed" /\ ~reading /\ Answers(want, Len(rv), Left)
                  \/ tm = "idle" /\ rv = <<>>
  /\ reading => co # 0 \/ In(frames, Rest("reader"))
  /\ tm = "armed" => co # 0 \/ In(frames, Rest("reader"))
  /\ rv # <<>> => tm \in {"armed", "gone"}

Inv == Types /\ (~misused => ReadInv)

-----------------------------------------------------------------------------
(* The stack.                                                              *)

LEMMA FramesDiffer ==
  /\ \A c \in Cos : Frame(c) \in Stack /\ Frame(c).k = "co" /\ Frame(c).c = c
  /\ \A k \in Rests : Rest(k) \in Stack /\ Rest(k).k = k
  /\ "co" \notin Rests /\ "reader" \in Rests /\ "crash" \in Rests /\ "eof" \in Rests
  /\ "socket" \in Rests /\ "udp" \in Rests /\ "server" \in Rests
BY DEF Frame, Rest, Stack, Rests

LEMMA Pushed ==
  ASSUME NEW f \in Seq(Stack), NEW x \in Stack
  PROVE  /\ Len(f) \in Nat
         /\ Append(f, x) \in Seq(Stack) /\ Len(Append(f, x)) = Len(f) + 1
         /\ \A i \in 1 .. Len(f) : Append(f, x)[i] = f[i]
         /\ Append(f, x)[Len(f) + 1] = x
         /\ \A y : In(Append(f, x), y) <=> In(f, y) \/ y = x
<1>1. /\ Len(f) \in Nat
      /\ Append(f, x) \in Seq(Stack) /\ Len(Append(f, x)) = Len(f) + 1
      /\ \A i \in 1 .. Len(f) : Append(f, x)[i] = f[i]
      /\ Append(f, x)[Len(f) + 1] = x
  OBVIOUS
<1>2. \A i : i \in 1 .. Len(f) + 1 <=> i \in 1 .. Len(f) \/ i = Len(f) + 1
  BY <1>1
<1>3. ASSUME NEW y PROVE In(Append(f, x), y) <=> In(f, y) \/ y = x
  BY <1>1, <1>2 DEF In
<1> QED
  BY <1>1, <1>3

LEMMA Popped ==
  ASSUME NEW f \in Seq(Stack), f # <<>>
  PROVE  /\ Len(f) \in Nat /\ Len(f) >= 1 /\ Last(f) = f[Len(f)]
         /\ Front(f) \in Seq(Stack) /\ Len(Front(f)) = Len(f) - 1
         /\ \A i \in 1 .. Len(f) - 1 : Front(f)[i] = f[i]
         /\ \A y : In(f, y) <=> In(Front(f), y) \/ y = Last(f)
<1>1. Len(f) \in Nat /\ Len(f) >= 1
  OBVIOUS
<1>2. \A i \in 1 .. Len(f) - 1 : f[i] \in Stack
  BY <1>1
<1>3. SubSeq(f, 1, Len(f) - 1) \in Seq(Stack)
  BY <1>1, <1>2
<1>a. Len(SubSeq(f, 1, Len(f) - 1)) = Len(f) - 1
  <2>1. 1 \in Int /\ Len(f) - 1 \in Int
    BY <1>1
  <2>2. Len(SubSeq(f, 1, Len(f) - 1)) = IF 1 <= Len(f) - 1 THEN (Len(f) - 1) - 1 + 1 ELSE 0
    BY <1>2, <2>1, SubSeqProperties
  <2>3. \A n \in Nat : n >= 1 => (IF 1 <= n - 1 THEN (n - 1) - 1 + 1 ELSE 0) = n - 1
    OBVIOUS
  <2> QED
    BY <1>1, <2>2, <2>3
<1>4. \A i \in 1 .. Len(f) - 1 : SubSeq(f, 1, Len(f) - 1)[i] = f[i]
  BY <1>1
<1>5. /\ Front(f) \in Seq(Stack) /\ Len(Front(f)) = Len(f) - 1 /\ Last(f) = f[Len(f)]
      /\ \A i \in 1 .. Len(f) - 1 : Front(f)[i] = f[i]
  BY <1>3, <1>a, <1>4 DEF Front, Last
<1>6. \A i : i \in 1 .. Len(f) <=> i \in 1 .. Len(f) - 1 \/ i = Len(f)
  BY <1>1
<1>7. ASSUME NEW y PROVE In(f, y) <=> In(Front(f), y) \/ y = Last(f)
  BY <1>5, <1>6 DEF In
<1> QED
  BY <1>1, <1>5, <1>7

LEMMA PushRest ==
  ASSUME NEW f, NEW s, OnStack(f, s), NEW k \in Rests
  PROVE  OnStack(Append(f, Rest(k)), s)
<1>1. f \in Seq(Stack) /\ Rest(k) \in Stack /\ \A c \in Cos : Frame(c) # Rest(k)
  BY FramesDiffer DEF OnStack
<1>2. /\ Len(f) \in Nat
      /\ Append(f, Rest(k)) \in Seq(Stack) /\ Len(Append(f, Rest(k))) = Len(f) + 1
      /\ \A i \in 1 .. Len(f) : Append(f, Rest(k))[i] = f[i]
      /\ Append(f, Rest(k))[Len(f) + 1] = Rest(k)
      /\ \A y : In(Append(f, Rest(k)), y) <=> In(f, y) \/ y = Rest(k)
  BY <1>1, Pushed
<1>3. ASSUME NEW c \in Cos, NEW i \in 1 .. Len(f) + 1, Append(f, Rest(k))[i] = Frame(c)
      PROVE  i \in 1 .. Len(f) /\ f[i] = Frame(c)
  BY <1>1, <1>2, <1>3
<1>4. \A c \in Cos : \A i, j \in 1 .. Len(Append(f, Rest(k))) :
        Append(f, Rest(k))[i] = Frame(c) /\ Append(f, Rest(k))[j] = Frame(c) => i = j
  BY <1>2, <1>3 DEF OnStack
<1> QED
  BY <1>1, <1>2, <1>4 DEF OnStack

LEMMA PopRest ==
  ASSUME NEW f, NEW s, OnStack(f, s), NEW k \in Rests, f # <<>>, Last(f) = Rest(k)
  PROVE  OnStack(Front(f), s)
<1>1. f \in Seq(Stack) /\ \A c \in Cos : Frame(c) # Rest(k)
  BY FramesDiffer DEF OnStack
<1>2. /\ Len(f) \in Nat /\ Len(f) >= 1
      /\ Front(f) \in Seq(Stack) /\ Len(Front(f)) = Len(f) - 1
      /\ \A i \in 1 .. Len(f) - 1 : Front(f)[i] = f[i]
      /\ \A y : In(f, y) <=> In(Front(f), y) \/ y = Last(f)
  BY <1>1, Popped
<1>3. \A c \in Cos : \A i, j \in 1 .. Len(Front(f)) :
        Front(f)[i] = Frame(c) /\ Front(f)[j] = Frame(c) => i = j
  BY <1>2 DEF OnStack
<1> QED
  BY <1>1, <1>2, <1>3 DEF OnStack

LEMMA PushCo ==
  ASSUME NEW f, NEW s, OnStack(f, s), NEW c \in Cos, s[c] # "run"
  PROVE  OnStack(Append(f, Frame(c)), [s EXCEPT ![c] = "run"])
<1>1. f \in Seq(Stack) /\ Frame(c) \in Stack /\ (\A d \in Cos : Frame(d) = Frame(c) => d = c)
  BY FramesDiffer DEF OnStack
<1>2. /\ Len(f) \in Nat
      /\ Append(f, Frame(c)) \in Seq(Stack) /\ Len(Append(f, Frame(c))) = Len(f) + 1
      /\ \A i \in 1 .. Len(f) : Append(f, Frame(c))[i] = f[i]
      /\ Append(f, Frame(c))[Len(f) + 1] = Frame(c)
      /\ \A y : In(Append(f, Frame(c)), y) <=> In(f, y) \/ y = Frame(c)
  BY <1>1, Pushed
<1>3. ~In(f, Frame(c))
  BY DEF OnStack
<1>4. ASSUME NEW d \in Cos, NEW i \in 1 .. Len(f) + 1, Append(f, Frame(c))[i] = Frame(d)
      PROVE  \/ d # c /\ i \in 1 .. Len(f) /\ f[i] = Frame(d)
             \/ d = c /\ i = Len(f) + 1
  BY <1>1, <1>2, <1>3, <1>4 DEF In
<1>5. \A d \in Cos : \A i, j \in 1 .. Len(Append(f, Frame(c))) :
        Append(f, Frame(c))[i] = Frame(d) /\ Append(f, Frame(c))[j] = Frame(d) => i = j
  BY <1>2, <1>4 DEF OnStack
<1>6. s \in [Cos -> States] /\ [s EXCEPT ![c] = "run"] \in [Cos -> States]
  BY DEF OnStack, States
<1>7. ASSUME NEW d \in Cos
      PROVE  [s EXCEPT ![c] = "run"][d] = "run" <=> In(Append(f, Frame(c)), Frame(d))
  BY <1>1, <1>2, <1>6, <1>7 DEF OnStack
<1> QED
  BY <1>2, <1>5, <1>6, <1>7 DEF OnStack

LEMMA PopCo ==
  ASSUME NEW f, NEW s, OnStack(f, s), NEW c \in Cos, f # <<>>, Last(f) = Frame(c),
         NEW w \in States, w # "run"
  PROVE  OnStack(Front(f), [s EXCEPT ![c] = w]) /\ s[c] = "run"
<1>1. f \in Seq(Stack) /\ Frame(c) \in Stack /\ (\A d \in Cos : Frame(d) = Frame(c) => d = c)
  BY FramesDiffer DEF OnStack
<1>2. /\ Len(f) \in Nat /\ Len(f) >= 1 /\ Last(f) = f[Len(f)]
      /\ Front(f) \in Seq(Stack) /\ Len(Front(f)) = Len(f) - 1
      /\ \A i \in 1 .. Len(f) - 1 : Front(f)[i] = f[i]
      /\ \A y : In(f, y) <=> In(Front(f), y) \/ y = Last(f)
  BY <1>1, Popped
<1>3. ~In(Front(f), Frame(c))
  <2> SUFFICES ASSUME NEW i \in 1 .. Len(f) - 1, f[i] = Frame(c) PROVE FALSE
    BY <1>2 DEF In
  <2>1. i \in 1 .. Len(f) /\ Len(f) \in 1 .. Len(f) /\ i # Len(f)
    BY <1>2
  <2> QED
    BY <1>2, <2>1 DEF OnStack
<1>4. \A d \in Cos : \A i, j \in 1 .. Len(Front(f)) :
        Front(f)[i] = Frame(d) /\ Front(f)[j] = Frame(d) => i = j
  BY <1>2 DEF OnStack
<1>5. s \in [Cos -> States] /\ [s EXCEPT ![c] = w] \in [Cos -> States]
  BY DEF OnStack, States
<1>6. ASSUME NEW d \in Cos
      PROVE  [s EXCEPT ![c] = w][d] = "run" <=> In(Front(f), Frame(d))
  <2>1. d # c => Frame(d) # Last(f)
    BY <1>1
  <2> QED
    BY <1>2, <1>3, <1>5, <2>1 DEF OnStack
<1>7. s[c] = "run"
  BY <1>2 DEF OnStack
<1> QED
  BY <1>2, <1>4, <1>5, <1>6, <1>7 DEF OnStack

-----------------------------------------------------------------------------
(* What a step does to the coroutines: those that wait for something that  *)
(* is not among ws go on waiting.                                          *)

Turn(ws) ==
  /\ OnStack(frames', st') /\ calls' \in 0 .. MaxCalls
  /\ \A d \in Cos : \A v \in Waitings \ ws : st[d] = v => st'[d] = v

LEMMA CallTyped ==
  ASSUME ScriptInv, NEW c \in Cos
  PROVE  /\ Running(c) => frames # <<>> /\ Last(frames) = Frame(c) /\ st[c] = "run"
         /\ Call(c) => Running(c) /\ calls' \in 0 .. MaxCalls
<1>1. ASSUME Running(c) PROVE st[c] = "run"
  <2>1. frames \in Seq(Stack) /\ frames # <<>> /\ Last(frames) = Frame(c)
    BY <1>1 DEF ScriptInv, OnStack, Running
  <2>2. In(frames, Frame(c))
    BY <2>1, Popped
  <2> QED
    BY <2>2 DEF ScriptInv, OnStack
<1>2. ASSUME Call(c) PROVE Running(c) /\ calls' \in 0 .. MaxCalls
  BY <1>2, ScriptAssumption DEF Call, ScriptInv
<1> QED
  BY <1>1, <1>2 DEF Running

LEMMA WaitsFacts ==
  ASSUME ScriptInv, NEW c \in Cos, Running(c), NEW w \in States, w # "run", Waits(c, w)
  PROVE  /\ OnStack(frames', st') /\ st[c] = "run" /\ st'[c] = w
         /\ \A d \in Cos : d # c => st'[d] = st[d]
         /\ \A k \in Rests : In(frames', Rest(k)) <=> In(frames, Rest(k))
<1>1. /\ OnStack(frames, st) /\ frames # <<>> /\ Last(frames) = Frame(c)
      /\ frames \in Seq(Stack) /\ st \in [Cos -> States]
      /\ frames' = Front(frames) /\ st' = [st EXCEPT ![c] = w]
  BY DEF ScriptInv, OnStack, Running, Waits
<1>2. OnStack(frames', st') /\ st[c] = "run"
  BY <1>1, PopCo
<1>3. st'[c] = w /\ \A d \in Cos : d # c => st'[d] = st[d]
  BY <1>1
<1>4. \A k \in Rests : In(frames', Rest(k)) <=> In(frames, Rest(k))
  <2>1. \A k \in Rests : Rest(k) # Last(frames)
    BY <1>1, FramesDiffer
  <2> QED
    BY <1>1, <2>1, Popped
<1> QED
  BY <1>2, <1>3, <1>4

LEMMA ResumeFacts ==
  ASSUME NEW f, OnStack(f, st), NEW c \in Cos, st[c] # "run", Resume(c, f)
  PROVE  /\ OnStack(frames', st') /\ st'[c] = "run"
         /\ \A d \in Cos : d # c => st'[d] = st[d]
         /\ \A k \in Rests : In(frames', Rest(k)) <=> In(f, Rest(k))
<1>1. /\ f \in Seq(Stack) /\ st \in [Cos -> States]
      /\ frames' = Append(f, Frame(c)) /\ st' = [st EXCEPT ![c] = "run"]
  BY DEF OnStack, Resume
<1>2. OnStack(frames', st')
  BY <1>1, PushCo
<1>3. st'[c] = "run" /\ \A d \in Cos : d # c => st'[d] = st[d]
  BY <1>1
<1>4. \A k \in Rests : In(frames', Rest(k)) <=> In(f, Rest(k))
  <2>1. Frame(c) \in Stack /\ \A k \in Rests : Rest(k) # Frame(c)
    BY FramesDiffer
  <2> QED
    BY <1>1, <2>1, Pushed
<1> QED
  BY <1>2, <1>3, <1>4

LEMMA CrashFacts ==
  ASSUME ScriptInv, Crashes
  PROVE  /\ OnStack(frames', st') /\ st' = st
         /\ In(frames', Rest("reader")) <=> In(frames, Rest("reader"))
<1>1. OnStack(frames, st) /\ frames' = Append(frames, Rest("crash")) /\ st' = st
  BY DEF ScriptInv, Crashes, Crash
<1>2. OnStack(frames', st')
  BY <1>1, PushRest, FramesDiffer
<1>3. In(frames', Rest("reader")) <=> In(frames, Rest("reader"))
  <2>1. frames \in Seq(Stack) /\ Rest("crash") \in Stack /\ Rest("crash") # Rest("reader")
    BY <1>1, FramesDiffer DEF OnStack
  <2> QED
    BY <1>1, <2>1, Pushed
<1> QED
  BY <1>1, <1>2, <1>3

(* The function on top returns.                                            *)
LEMMA ReturnFacts ==
  ASSUME ScriptInv, NEW k \in Rests, Returns(k)
  PROVE  /\ frames # <<>> /\ OnStack(Front(frames), st)
         /\ \A l \in Rests : In(frames, Rest(l)) <=> In(Front(frames), Rest(l)) \/ l = k
<1>1. OnStack(frames, st) /\ frames \in Seq(Stack) /\ frames # <<>> /\ Last(frames) = Rest(k)
  BY DEF ScriptInv, OnStack, Returns
<1>2. OnStack(Front(frames), st)
  BY <1>1, PopRest
<1>3. \A l \in Rests : Rest(l) = Rest(k) <=> l = k
  BY DEF Rest
<1> QED
  BY <1>1, <1>2, <1>3, Popped

LEMMA PushFacts ==
  ASSUME ScriptInv, NEW k \in Rests
  PROVE  /\ OnStack(Append(frames, Rest(k)), st)
         /\ \A l \in Rests : In(Append(frames, Rest(k)), Rest(l)) <=> In(frames, Rest(l)) \/ l = k
<1>1. OnStack(frames, st) /\ frames \in Seq(Stack) /\ Rest(k) \in Stack
  BY FramesDiffer DEF ScriptInv, OnStack
<1>2. OnStack(Append(frames, Rest(k)), st)
  BY <1>1, PushRest
<1>3. \A l \in Rests : Rest(l) = Rest(k) <=> l = k
  BY DEF Rest
<1> QED
  BY <1>1, <1>2, <1>3, Pushed

(* In the loop the stack is empty.                                         *)
LEMMA LoopFacts ==
  ASSUME ScriptInv, Loop
  PROVE  /\ OnStack(<<>>, st) /\ frames = <<>> /\ \A y : ~In(<<>>, y)
         /\ \A k \in Rests : /\ OnStack(<<Rest(k)>>, st)
                             /\ \A l \in Rests : In(<<Rest(k)>>, Rest(l)) <=> l = k
<1>1. OnStack(frames, st) /\ frames = <<>>
  BY DEF ScriptInv, Loop
<1>2. \A y : ~In(<<>>, y)
  BY DEF In
<1>3. \A k \in Rests : <<Rest(k)>> = Append(frames, Rest(k))
  BY <1>1
<1> QED
  BY <1>1, <1>2, <1>3, PushFacts

LEMMA PointsKept ==
  ASSUME NEW p, NEW w, Points(p, w, st), \A d \in Cos : st[d] = w => st'[d] = w
  PROVE  Points(p, w, st')
BY DEF Points

LEMMA QueuedKept ==
  ASSUME NEW q, NEW w, Queued(q, w, st), \A d \in Cos : st[d] = w => st'[d] = w
  PROVE  Queued(q, w, st')
BY DEF Queued

(* A coroutine that runs joins the queue.                                  *)
LEMMA QueuedMore ==
  ASSUME NEW q, NEW w, Queued(q, w, st), NEW c \in Cos, st[c] # w, st'[c] = w,
         \A d \in Cos : d # c => st'[d] = st[d]
  PROVE  Queued(Append(q, c), w, st')
<1>1. q \in Seq(Cos) /\ \A i \in 1 .. Len(q) : q[i] \in Cos /\ q[i] # c
  BY DEF Queued
<1>2. /\ Len(q) \in Nat
      /\ Append(q, c) \in Seq(Cos) /\ Len(Append(q, c)) = Len(q) + 1
      /\ \A i \in 1 .. Len(q) : Append(q, c)[i] = q[i]
      /\ Append(q, c)[Len(q) + 1] = c
  BY <1>1
<1>3. \A i \in 1 .. Len(q) + 1 : i \in 1 .. Len(q) \/ i = Len(q) + 1
  BY <1>2
<1>4. \A i \in 1 .. Len(q) + 1 : st'[Append(q, c)[i]] = w
  BY <1>1, <1>2, <1>3 DEF Queued
<1>5. \A i, j \in 1 .. Len(q) + 1 : Append(q, c)[i] = Append(q, c)[j] => i = j
  BY <1>1, <1>2, <1>3 DEF Queued
<1> QED
  BY <1>2, <1>4, <1>5 DEF Queued

LEMMA QueuedHead ==
  ASSUME NEW q, NEW w, NEW s, Queued(q, w, s), q # <<>>
  PROVE  Head(q) \in Cos /\ s[Head(q)] = w
<1>1. q \in Seq(Cos) /\ Len(q) >= 1 /\ Head(q) = q[1]
  BY DEF Queued
<1>2. 1 \in 1 .. Len(q)
  BY <1>1
<1> QED
  BY <1>1, <1>2 DEF Queued

(* The first of the queue leaves it, and goes on or stays where it is.     *)
LEMMA QueuedLess ==
  ASSUME NEW q, NEW w, Queued(q, w, st), q # <<>>,
         \A d \in Cos : d # Head(q) /\ st[d] = w => st'[d] = w
  PROVE  Head(q) \in Cos /\ st[Head(q)] = w /\ Queued(Tail(q), w, st')
<1>1. /\ q \in Seq(Cos) /\ Len(q) \in Nat /\ Len(q) >= 1
      /\ Head(q) = q[1] /\ Tail(q) \in Seq(Cos) /\ Len(Tail(q)) = Len(q) - 1
      /\ \A i \in 1 .. Len(q) - 1 : Tail(q)[i] = q[i + 1]
  BY DEF Queued
<1>2. 1 \in 1 .. Len(q) /\ \A i \in 1 .. Len(q) - 1 : i + 1 \in 1 .. Len(q) /\ i + 1 # 1
  BY <1>1
<1>3. Head(q) \in Cos /\ st[Head(q)] = w
  BY <1>1, <1>2 DEF Queued
<1>4. \A i, j \in 1 .. Len(q) - 1 : Tail(q)[i] = Tail(q)[j] => i = j
  <2> SUFFICES ASSUME NEW i \in 1 .. Len(q) - 1, NEW j \in 1 .. Len(q) - 1, q[i + 1] = q[j + 1]
               PROVE  i = j
    BY <1>1
  <2>1. i + 1 = j + 1
    BY <1>2 DEF Queued
  <2> QED
    BY <1>1, <2>1
<1>5. ASSUME NEW i \in 1 .. Len(q) - 1 PROVE st'[Tail(q)[i]] = w
  <2>1. i + 1 \in 1 .. Len(q) /\ q[i + 1] # q[1] /\ q[i + 1] \in Cos /\ st[q[i + 1]] = w
    BY <1>1, <1>2 DEF Queued
  <2> QED
    BY <1>1, <2>1
<1> QED
  BY <1>1, <1>3, <1>4, <1>5 DEF Queued

-----------------------------------------------------------------------------
(* Bytes.                                                                  *)

(* A set of naturals has a least element: what CHOOSE finds in Enough.     *)
LEMMA Least ==
  ASSUME NEW T \in SUBSET Nat, T # {}
  PROVE  \E x \in T : \A y \in T : x <= y
<1>1. PICK R : R = {ss \in Nat \X Nat : ss[1] < ss[2]}
  OBVIOUS
<1>2. IsWellFoundedOn(R, Nat)
  BY <1>1, NatLessThanWellFounded DEF OpToRel
<1>3. PICK x \in T : \A y \in T : ~ (<<y, x>> \in R)
  BY <1>2, WFMin
<1>4. \A y \in T : ~ (y < x) /\ x \in Nat /\ y \in Nat
  <2> SUFFICES ASSUME NEW y \in T PROVE ~ (y < x)
    OBVIOUS
  <2>1. <<y, x>> \in Nat \X Nat /\ <<y, x>>[1] = y /\ <<y, x>>[2] = x
    OBVIOUS
  <2> QED
    BY <1>1, <1>3, <2>1
<1> QED
  BY <1>4

LEMMA EnoughFacts ==
  ASSUME NEW w \in Wants, NEW b \in Seq(Nat), Enough(w, b) # 0
  PROVE  /\ Enough(w, b) \in 1 .. Len(b)
         /\ \/ w.k = "any" /\ Enough(w, b) = Len(b)
            \/ w.k = "size" /\ Enough(w, b) = w.n
            \/ /\ w.k = "delim" /\ Enough(w, b) \in EndsWithDelim(b)
               /\ \A j \in EndsWithDelim(b) : Enough(w, b) <= j
<1>1. Len(b) \in Nat /\ Len(Delim) \in Nat /\ Len(Delim) >= 1
  BY StreamAssumption
<1>2. w.k \in {"any", "delim", "all", "size"} /\ (w.k = "size" => w.n \in Nat /\ w.n >= 1)
  BY StreamAssumption DEF Wants
<1>3. CASE w.k = "any"
  <2>1. Enough(w, b) = Len(b)
    BY <1>3 DEF Enough
  <2> QED
    BY <1>1, <1>3, <2>1
<1>4. CASE w.k = "size"
  <2>1. Len(b) >= w.n /\ Enough(w, b) = w.n
    BY <1>4 DEF Enough
  <2> QED
    BY <1>1, <1>2, <1>4, <2>1
<1>5. CASE w.k = "delim"
  <2>1. /\ EndsWithDelim(b) # {}
        /\ Enough(w, b) = CHOOSE i \in EndsWithDelim(b) : \A j \in EndsWithDelim(b) : i <= j
    BY <1>5 DEF Enough
  <2>2. EndsWithDelim(b) \subseteq 1 .. Len(b)
    BY <1>1 DEF EndsWithDelim
  <2>3. \E i \in EndsWithDelim(b) : \A j \in EndsWithDelim(b) : i <= j
    BY <1>1, <2>1, <2>2, Least
  <2>4. /\ Enough(w, b) \in EndsWithDelim(b)
        /\ \A j \in EndsWithDelim(b) : Enough(w, b) <= j
    BY <2>1, <2>3
  <2> QED
    BY <1>5, <2>2, <2>4
<1>6. CASE w.k = "all"
  BY <1>6 DEF Enough
<1> QED
  BY <1>2, <1>3, <1>4, <1>5, <1>6

(* A delimiter is found in a prefix of the stream where it is found in     *)
(* the stream.                                                             *)
LEMMA DelimInPrefix ==
  ASSUME NEW b \in Seq(Nat), NEW t \in Seq(Nat), NEW i \in 1 .. Len(b)
  PROVE  i \in EndsWithDelim(b) <=> i \in EndsWithDelim(b \o t)
<1>1. /\ Len(b) \in Nat /\ Len(t) \in Nat /\ Len(Delim) \in Nat /\ Len(Delim) >= 1
      /\ Len(b \o t) = Len(b) + Len(t)
  BY StreamAssumption
<1>2. i \in Len(Delim) .. Len(b) <=> i \in Len(Delim) .. Len(b \o t)
  BY <1>1
<1>3. ASSUME i \in Len(Delim) .. Len(b)
      PROVE  SubSeq(b \o t, i + 1 - Len(Delim), i) = SubSeq(b, i + 1 - Len(Delim), i)
  <2>1. i + 1 - Len(Delim) \in 1 .. Len(b)
    BY <1>1, <1>3
  <2> QED
    BY <2>1, SubSeqOfConcat1
<1> QED
  BY <1>2, <1>3 DEF EndsWithDelim

LEMMA EnoughAnswers ==
  ASSUME NEW w \in Wants, NEW b \in Seq(Nat), NEW t \in Seq(Nat), Enough(w, b) # 0
  PROVE  Answers(w, Enough(w, b), b \o t)
<1> DEFINE n == Enough(w, b)
<1>1. /\ n \in 1 .. Len(b)
      /\ \/ w.k = "any" /\ n = Len(b)
         \/ w.k = "size" /\ n = w.n
         \/ w.k = "delim" /\ n \in EndsWithDelim(b) /\ \A j \in EndsWithDelim(b) : n <= j
  BY EnoughFacts
<1> HIDE DEF n
<1>2. Len(b) \in Nat /\ Len(t) \in Nat /\ Len(b \o t) = Len(b) + Len(t)
  OBVIOUS
<1>3. n \in 1 .. Len(b \o t)
  BY <1>1, <1>2
<1>4. ASSUME w.k = "delim", n \in EndsWithDelim(b), \A j \in EndsWithDelim(b) : n <= j
      PROVE  n \in EndsWithDelim(b \o t) /\ \A j \in EndsWithDelim(b \o t) : n <= j
  <2>1. n \in EndsWithDelim(b \o t)
    BY <1>1, <1>4, DelimInPrefix
  <2>2. ASSUME NEW j \in EndsWithDelim(b \o t) PROVE n <= j
    <3>1. j \in Nat /\ j >= 1
      BY <2>2, <1>2, StreamAssumption DEF EndsWithDelim
    <3>2. CASE j \in 1 .. Len(b)
      BY <1>4, <2>2, <3>2, DelimInPrefix
    <3>3. CASE j > Len(b)
      BY <1>1, <1>2, <3>1, <3>3
    <3> QED
      BY <1>2, <3>1, <3>2, <3>3
  <2> QED
    BY <2>1, <2>2
<1>5. Answers(w, n, b \o t)
  <2>1. CASE w.k = "any" /\ n = Len(b)
    BY <1>3, <2>1 DEF Answers
  <2>2. CASE w.k = "size" /\ n = w.n
    BY <1>2, <1>3, <2>2 DEF Answers
  <2>3. CASE w.k = "delim" /\ n \in EndsWithDelim(b) /\ \A j \in EndsWithDelim(b) : n <= j
    BY <1>4, <2>3 DEF Answers
  <2> QED
    BY <1>1, <2>1, <2>2, <2>3
<1> QED
  BY <1>5 DEF n

LEMMA Cut ==
  ASSUME NEW b \in Seq(Nat), NEW n \in 0 .. Len(b)
  PROVE  /\ SubSeq(b, 1, n) \in Seq(Nat) /\ Len(SubSeq(b, 1, n)) = n
         /\ SubSeq(b, n + 1, Len(b)) \in Seq(Nat)
         /\ SubSeq(b, 1, n) \o SubSeq(b, n + 1, Len(b)) = b
<1>1. Len(b) \in Nat /\ n \in Int /\ n + 1 \in Int /\ 1 \in Int /\ Len(b) \in Int
  OBVIOUS
<1>2. \A i \in 1 .. n : b[i] \in Nat
  BY <1>1
<1>3. \A i \in n + 1 .. Len(b) : b[i] \in Nat
  BY <1>1
<1>4. SubSeq(b, 1, n) \in Seq(Nat) /\ Len(SubSeq(b, 1, n)) = IF 1 <= n THEN n - 1 + 1 ELSE 0
  BY <1>1, <1>2, SubSeqProperties
<1>5. SubSeq(b, n + 1, Len(b)) \in Seq(Nat)
  BY <1>1, <1>3, SubSeqProperties
<1>6. \A m \in Nat : (IF 1 <= m THEN m - 1 + 1 ELSE 0) = m
  OBVIOUS
<1>7. SubSeq(b, 1, n) \o SubSeq(b, n + 1, Len(b)) = SubSeq(b, 1, Len(b))
  <2>1. 1 \in 1 .. Len(b) + 1 /\ n \in 1 - 1 .. Len(b) /\ Len(b) \in n .. Len(b)
    BY <1>1
  <2> QED
    BY <2>1, ConcatAdjacentSubSeq
<1>8. SubSeq(b, 1, Len(b)) = b
  BY SubSeqFull
<1>9. Len(SubSeq(b, 1, n)) = n
  BY <1>1, <1>4, <1>6
<1> QED
  BY <1>4, <1>5, <1>7, <1>8, <1>9

(* The stream without the bytes given to the reader.                       *)
LEMMA Dropped ==
  ASSUME NEW a \in Seq(Nat), NEW r \in Seq(Nat)
  PROVE  SubSeq(a \o r, Len(a) + 1, Len(a \o r)) = r
<1>1. Len(a) \in Nat /\ Len(r) \in Nat /\ Len(a \o r) = Len(a) + Len(r)
  OBVIOUS
<1>2. CASE r = <<>>
  BY <1>1, <1>2, SubSeqEmpty
<1>3. CASE r # <<>>
  <2>1. Len(r) >= 1
    BY <1>1, <1>3, EmptySeq
  <2>2. /\ Len(a) + 1 \in Len(a) + 1 .. Len(a) + Len(r)
        /\ Len(a) + Len(r) \in Len(a) + 1 .. Len(a) + Len(r)
    BY <1>1, <2>1
  <2>3. SubSeq(a \o r, Len(a) + 1, Len(a) + Len(r))
          = SubSeq(r, Len(a) + 1 - Len(a), Len(a) + Len(r) - Len(a))
    BY <2>2, SubSeqOfConcat2
  <2>4. Len(a) + 1 - Len(a) = 1 /\ Len(a) + Len(r) - Len(a) = Len(r)
    BY <1>1
  <2> QED
    BY <1>1, <2>3, <2>4, SubSeqFull
<1> QED
  BY <1>2, <1>3

-----------------------------------------------------------------------------
(* Types of the stream socket.                                             *)

LEMMA WaitsTurn ==
  ASSUME ScriptInv, NEW c \in Cos, Call(c), NEW w \in States, w # "run", Waits(c, w), NEW ws
  PROVE  Turn(ws) /\ st[c] = "run" /\ st'[c] = w /\ \A d \in Cos : d # c => st'[d] = st[d]
<1>1. Running(c) /\ calls' \in 0 .. MaxCalls
  BY CallTyped
<1>2. /\ OnStack(frames', st') /\ st[c] = "run" /\ st'[c] = w
      /\ \A d \in Cos : d # c => st'[d] = st[d]
  BY <1>1, WaitsFacts
<1>3. \A d \in Cos : \A v \in Waitings \ ws : st[d] = v => st'[d] = v
  BY <1>2 DEF Waitings
<1> QED
  BY <1>1, <1>2, <1>3 DEF Turn

LEMMA ResumeTurn ==
  ASSUME ScriptInv, NEW f, OnStack(f, st), NEW c \in Cos, st[c] # "run", Resume(c, f),
         calls' \in 0 .. MaxCalls, NEW ws, st[c] \in ws \/ st[c] \notin Waitings
  PROVE  Turn(ws) /\ st'[c] = "run" /\ \A d \in Cos : d # c => st'[d] = st[d]
<1>1. /\ OnStack(frames', st') /\ st'[c] = "run"
      /\ \A d \in Cos : d # c => st'[d] = st[d]
  BY ResumeFacts
<1>2. \A d \in Cos : \A v \in Waitings \ ws : st[d] = v => st'[d] = v
  BY <1>1
<1> QED
  BY <1>1, <1>2 DEF Turn

LEMMA StillTurn ==
  ASSUME ScriptInv, OnStack(frames', st), st' = st, calls' \in 0 .. MaxCalls, NEW ws
  PROVE  Turn(ws)
BY DEF Turn

LEMMA CrashTurn ==
  ASSUME ScriptInv, Crashes, calls' \in 0 .. MaxCalls, NEW ws
  PROVE  Turn(ws) /\ st' = st
BY CrashFacts, StillTurn

(* The reader's close tells who waits, and nobody is left waiting.         *)
LEMMA ReaderCloseFacts ==
  ASSUME Types, NEW f, OnStack(f, st), ReaderClose(f), calls' \in 0 .. MaxCalls
  PROVE  /\ Turn({"read"}) /\ co' = 0
         /\ \A d \in Cos : st[d] # "read" => st'[d] = st[d]
         /\ In(frames', Rest("reader")) <=> In(f, Rest("reader")) \/ co # 0
<1>1. ScriptInv /\ f \in Seq(Stack)
  BY DEF Types, OnStack
<1>2. CASE co = 0
  <2>1. frames' = f /\ co' = 0 /\ st' = st
    BY <1>2 DEF ReaderClose
  <2> QED
    BY <1>1, <1>2, <2>1, StillTurn
<1>3. CASE co # 0
  <2>1. co \in Cos /\ st[co] = "read"
    BY <1>3 DEF Types, ReadTypes, Points
  <2>2. co' = 0 /\ Resume(co, Append(f, Rest("reader")))
    BY <1>3 DEF ReaderClose
  <2>3. OnStack(Append(f, Rest("reader")), st)
    BY PushRest, FramesDiffer
  <2>4. Turn({"read"}) /\ \A d \in Cos : d # co => st'[d] = st[d]
    BY <1>1, <2>1, <2>2, <2>3, ResumeTurn
  <2>5. In(frames', Rest("reader")) <=> In(Append(f, Rest("reader")), Rest("reader"))
    BY <2>1, <2>2, <2>3, ResumeFacts, FramesDiffer
  <2>6. In(Append(f, Rest("reader")), Rest("reader"))
    BY <1>1, Pushed, FramesDiffer
  <2> QED
    BY <1>3, <2>1, <2>2, <2>4, <2>5, <2>6
<1> QED
  BY <1>2, <1>3

LEMMA ReadFromBufType ==
  ASSUME NEW w \in Wants, buf \in Seq(Nat), Enough(w, buf) # 0, ReadFromBuf(w, buf)
  PROVE  rv' \in Seq(Nat) /\ buf' \in Seq(Nat) /\ rv' \o buf' = buf /\ Len(rv') = Enough(w, buf)
<1>1. Enough(w, buf) \in 0 .. Len(buf)
  <2>1. Enough(w, buf) \in 1 .. Len(buf) /\ Len(buf) \in Nat
    BY EnoughFacts
  <2> QED
    BY <2>1
<1> QED
  BY <1>1, Cut DEF ReadFromBuf

(* What the parts of the socket that a step leaves alone need to stay      *)
(* typed.                                                                  *)
Keeps(v) == \A d \in Cos : st[d] = v => st'[d] = v

LEMMA TurnKeeps ==
  ASSUME NEW ws, Turn(ws), NEW v \in Waitings \ ws
  PROVE  Keeps(v)
BY DEF Turn, Keeps

LEMMA WriteKept ==
  ASSUME WriteInv, UNCHANGED wreqs, Keeps("write")
  PROVE  WriteInv'
BY QueuedKept DEF WriteInv, Keeps

LEMMA UdpKept ==
  ASSUME UdpTypes, UNCHANGED udpVars, Keeps("recv"), Keeps("send")
  PROVE  UdpTypes'
<1>1. Points(uco, "recv", st') /\ Queued(ureqs, "send", st')
  BY PointsKept, QueuedKept DEF UdpTypes, Keeps
<1> QED
  BY <1>1 DEF UdpTypes, udpVars

LEMMA ServKept ==
  ASSUME ServTypes, UNCHANGED acceptorVars, Keeps("serve")
  PROVE  ServTypes'
<1>1. Points(aco, "serve", st')
  BY PointsKept DEF ServTypes, Keeps
<1> QED
  BY <1>1 DEF ServTypes, acceptorVars

LEMMA ReadKept ==
  ASSUME ReadTypes, UNCHANGED rdVars, Keeps("read")
  PROVE  ReadTypes'
<1>1. Points(co, "read", st')
  BY PointsKept DEF ReadTypes, Keeps
<1> QED
  BY <1>1 DEF ReadTypes, rdVars

LEMMA TurnWider ==
  ASSUME NEW a, NEW b, Turn(a), a \subseteq b
  PROVE  Turn(b)
BY DEF Turn

LEMMA ReturnToFacts ==
  ASSUME Types, NEW f, OnStack(f, st), ReturnTo(f), calls' \in 0 .. MaxCalls
  PROVE  /\ Turn({"read"}) /\ co' = 0 /\ rv' = <<>>
         /\ \A d \in Cos : st[d] # "read" => st'[d] = st[d]
         /\ co # 0 => (In(frames', Rest("reader")) <=> In(f, Rest("reader")))
<1>1. ScriptInv /\ co' = 0 /\ rv' = <<>>
  BY DEF Types, ReturnTo
<1>2. CASE co = 0
  BY <1>1, <1>2, CrashTurn DEF ReturnTo
<1>3. CASE co # 0
  <2>1. co \in Cos /\ st[co] = "read" /\ Resume(co, f)
    BY <1>3 DEF Types, ReadTypes, Points, ReturnTo
  <2>2. Turn({"read"}) /\ \A d \in Cos : d # co => st'[d] = st[d]
    BY <1>1, <2>1, ResumeTurn
  <2>3. In(frames', Rest("reader")) <=> In(f, Rest("reader"))
    BY <2>1, ResumeFacts, FramesDiffer
  <2> QED
    BY <1>1, <2>1, <2>2, <2>3
<1> QED
  BY <1>2, <1>3

Streaming == {"connect", "read", "write"}

LEMMA NobodyReads ==
  ASSUME ReadTypes, co' = 0, tm' \in {"idle", "armed", "gone"}, want' = want,
         buf' \in Seq(Nat), rv' \in Seq(Nat), reading' \in BOOLEAN, misused' = misused
  PROVE  ReadTypes'
BY DEF ReadTypes, Points

LEMMA EmptyBytes == <<>> \in Seq(Nat)
OBVIOUS

LEMMA ReaderTypes ==
  ASSUME Types,
         \/ ReaderClosed \/ ReturnCb \/ ReadEof \/ ReadEofClose \/ ReadError
         \/ \E i \in Nat : ReadCb(i)
  PROVE  Turn(Streaming) /\ ReadTypes' /\ WireTypes' /\ WriteInv'
<1>t. /\ ScriptInv /\ ReadTypes /\ WireTypes /\ WriteInv
      /\ tm \in {"idle", "armed", "gone"} /\ buf \in Seq(Nat) /\ rv \in Seq(Nat)
      /\ inflight \in Seq(Nat) /\ want \in Wants /\ calls \in 0 .. MaxCalls
  BY DEF Types, ReadTypes, WireTypes, ScriptInv
<1>w. ASSUME Turn({"read"}), UNCHANGED wrVars, UNCHANGED <<conn, sck, peer>>,
             inflight' \in Seq(Nat)
      PROVE  Turn(Streaming) /\ WireTypes' /\ WriteInv'
  <2>1. Turn(Streaming)
    BY <1>w, TurnWider DEF Streaming
  <2>2. Keeps("write")
    BY <1>w, TurnKeeps DEF Waitings
  <2>3. WriteInv' /\ WireTypes'
    BY <1>t, <1>w, <2>2, WriteKept DEF wrVars, WireTypes
  <2> QED
    BY <2>1, <2>3
<1>1. CASE ReaderClosed
  <2>1. /\ calls' = calls /\ UNCHANGED <<co, want, buf, rv, misused>> /\ UNCHANGED wrVars
        /\ UNCHANGED <<conn, sck, peer, inflight>>
        /\ tm' \in {"idle", "armed", "gone"} /\ reading' \in BOOLEAN
        /\ \/ Crashes
           \/ Returns("reader") /\ frames' = Front(frames) /\ st' = st
    BY <1>1, <1>t DEF ReaderClosed, peerVars, ReadTypes
  <2>2. Turn({"read"}) /\ st' = st
    BY <1>t, <2>1, CrashTurn, StillTurn, ReturnFacts, FramesDiffer
  <2>3. ReadTypes'
    BY <1>t, <2>1, <2>2 DEF ReadTypes
  <2> QED
    BY <1>t, <1>w, <2>1, <2>2, <2>3
<1>2. CASE ReturnCb
  <2>1. /\ Loop /\ ReturnTo(<<>>) /\ calls' = calls /\ tm' = "idle"
        /\ UNCHANGED <<want, buf, reading, misused>> /\ UNCHANGED wrVars
        /\ UNCHANGED <<conn, sck, peer, inflight>>
    BY <1>2 DEF ReturnCb, peerVars
  <2>2. Turn({"read"}) /\ co' = 0 /\ rv' = <<>>
    BY <1>t, <2>1, LoopFacts, ReturnToFacts
  <2>3. ReadTypes'
    BY <1>t, <2>1, <2>2, NobodyReads, EmptyBytes DEF ReadTypes
  <2> QED
    BY <1>t, <1>w, <2>1, <2>2, <2>3
<1>3. CASE ReadEof
  <2>1. /\ Loop /\ calls' = calls /\ reading' = FALSE
        /\ UNCHANGED <<want, tm, misused>> /\ UNCHANGED wrVars
        /\ UNCHANGED <<conn, sck, peer, inflight>>
        /\ \/ buf' = <<>> /\ ReturnTo(<<Rest("eof")>>)
           \/ ReaderClose(<<>>) /\ UNCHANGED <<buf, rv>>
    BY <1>3 DEF ReadEof, peerVars
  <2>2. OnStack(<<>>, st) /\ OnStack(<<Rest("eof")>>, st)
    BY <1>t, <2>1, LoopFacts, FramesDiffer
  <2>3. Turn({"read"}) /\ co' = 0 /\ rv' \in {<<>>, rv}
    BY <1>t, <2>1, <2>2, ReturnToFacts, ReaderCloseFacts
  <2>4. ReadTypes'
    BY <1>t, <2>1, <2>3, NobodyReads, EmptyBytes DEF ReadTypes
  <2> QED
    BY <1>t, <1>w, <2>1, <2>3, <2>4
<1>4. CASE ReadEofClose
  <2>1. /\ Returns("eof") /\ ReaderClose(Front(frames)) /\ calls' = calls
        /\ UNCHANGED <<want, tm, misused, buf, rv, reading>> /\ UNCHANGED wrVars
        /\ UNCHANGED <<conn, sck, peer, inflight>>
    BY <1>4 DEF ReadEofClose, peerVars
  <2>2. Turn({"read"}) /\ co' = 0
    BY <1>t, <2>1, ReturnFacts, ReaderCloseFacts, FramesDiffer
  <2>3. ReadTypes'
    BY <1>t, <2>1, <2>2, NobodyReads DEF ReadTypes
  <2> QED
    BY <1>t, <1>w, <2>1, <2>2, <2>3
<1>5. CASE ReadError
  <2>1. /\ Loop /\ ReaderClose(<<>>) /\ calls' = calls /\ reading' = FALSE
        /\ UNCHANGED <<want, tm, misused, buf, rv>> /\ UNCHANGED wrVars
        /\ UNCHANGED <<conn, sck, peer, inflight>>
    BY <1>5 DEF ReadError, peerVars
  <2>2. Turn({"read"}) /\ co' = 0
    BY <1>t, <2>1, LoopFacts, ReaderCloseFacts
  <2>3. ReadTypes'
    BY <1>t, <2>1, <2>2, NobodyReads DEF ReadTypes
  <2> QED
    BY <1>t, <1>w, <2>1, <2>2, <2>3
<1>6. ASSUME NEW i \in Nat, ReadCb(i) PROVE Turn(Streaming) /\ ReadTypes' /\ WireTypes' /\ WriteInv'
  <2> DEFINE b == buf \o SubSeq(inflight, 1, i)
  <2>1. /\ Loop /\ i \in 1 .. Len(inflight) /\ calls' = calls
        /\ UNCHANGED <<want, tm, misused>> /\ UNCHANGED wrVars
        /\ UNCHANGED <<conn, sck, peer>>
        /\ inflight' = SubSeq(inflight, i + 1, Len(inflight))
        /\ \/ Enough(want, b) = 0 /\ buf' = b /\ UNCHANGED <<rv, co, reading, frames, st>>
           \/ /\ Enough(want, b) # 0 /\ reading' = FALSE /\ ReturnTo(<<>>)
              /\ buf' = SubSeq(b, Enough(want, b) + 1, Len(b))
    BY <1>6 DEF ReadCb
  <2>2. i \in 0 .. Len(inflight)
    BY <2>1
  <2>a. SubSeq(inflight, 1, i) \in Seq(Nat) /\ SubSeq(inflight, i + 1, Len(inflight)) \in Seq(Nat)
    BY <1>t, <2>2, Cut
  <2>3. b \in Seq(Nat) /\ inflight' \in Seq(Nat)
    BY <1>t, <2>1, <2>a
  <2> HIDE DEF b
  <2>4. CASE Enough(want, b) = 0
    <3>1. Turn({"read"})
      BY <1>t, <2>1, <2>4, StillTurn DEF ScriptInv
    <3>2. ReadTypes'
      BY <1>t, <2>1, <2>3, <2>4 DEF ReadTypes
    <3> QED
      BY <1>w, <2>1, <2>3, <3>1, <3>2
  <2>5. CASE Enough(want, b) # 0
    <3>1. Turn({"read"}) /\ co' = 0 /\ rv' = <<>>
      BY <1>t, <2>1, <2>5, LoopFacts, ReturnToFacts
    <3>2. buf' \in Seq(Nat)
      <4>1. Enough(want, b) \in 1 .. Len(b) /\ Len(b) \in Nat
        BY <1>t, <2>3, <2>5, EnoughFacts
      <4>2. Enough(want, b) \in 0 .. Len(b)
        BY <4>1
      <4>3. SubSeq(b, Enough(want, b) + 1, Len(b)) \in Seq(Nat)
        BY <2>3, <4>2, Cut
      <4> QED
        BY <2>1, <2>5, <4>3
    <3>3. ReadTypes'
      BY <1>t, <2>1, <2>5, <3>1, <3>2, NobodyReads, EmptyBytes
    <3> QED
      BY <1>w, <2>1, <2>3, <3>1, <3>3
  <2> QED
    BY <2>4, <2>5
<1> QED
  BY <1>1, <1>2, <1>3, <1>4, <1>5, <1>6

LEMMA SocketTypes ==
  ASSUME Types,
         \/ WriteCb \/ SocketClosed \/ PeerEnds
         \/ \E c \in Cos :
              \/ Connect(c) \/ ConnectCb(c) \/ ReadAllEnded(c) \/ Write(c) \/ SocketClose(c)
              \/ \E w \in Wants : Read(c, w)
  PROVE  Turn(Streaming) /\ ReadTypes' /\ WireTypes' /\ WriteInv'
<1>t. /\ ScriptInv /\ ReadTypes /\ WireTypes /\ WriteInv
      /\ tm \in {"idle", "armed", "gone"} /\ buf \in Seq(Nat) /\ rv \in Seq(Nat)
      /\ want \in Wants /\ calls \in 0 .. MaxCalls /\ OnStack(frames, st)
  BY DEF Types, ReadTypes, WireTypes, ScriptInv
<1>s. {"connect", "read", "write", "ended", "ready"} \subseteq States
  BY DEF States, Waitings
<1>1. CASE WriteCb
  <2>1. /\ Loop /\ wreqs # <<>> /\ wreqs' = Tail(wreqs) /\ Resume(Head(wreqs), <<>>)
        /\ UNCHANGED <<calls, conn, sck, inflight, peer>> /\ UNCHANGED rdVars
        /\ wcli' \in BOOLEAN
    BY <1>1, <1>t DEF WriteCb, peerVars, WireTypes
  <2>2. Head(wreqs) \in Cos /\ st[Head(wreqs)] = "write"
    <3>1. Queued(wreqs, "write", st) /\ wreqs # <<>>
      BY <1>t, <2>1 DEF WriteInv
    <3> QED
      BY <3>1, QueuedHead
  <2>3. Turn({"write"}) /\ \A d \in Cos : d # Head(wreqs) => st'[d] = st[d]
    BY <1>t, <2>1, <2>2, LoopFacts, ResumeTurn
  <2>4. WriteInv'
    BY <1>t, <2>1, <2>3, QueuedLess DEF WriteInv
  <2>5. ReadTypes'
    BY <1>t, <2>1, <2>3, TurnKeeps, ReadKept DEF Waitings
  <2>6. Turn(Streaming) /\ WireTypes'
    BY <1>t, <2>1, <2>3, TurnWider DEF Streaming, WireTypes
  <2> QED
    BY <2>4, <2>5, <2>6
<1>2. CASE SocketClosed
  <2>1. /\ Returns("socket") /\ UNCHANGED <<calls, conn, tm, co, want, buf, rv, misused, wreqs>>
        /\ UNCHANGED peerVars
        /\ reading' \in BOOLEAN /\ wcli' \in BOOLEAN /\ sck' \in {"open", "closed"}
        /\ \/ Crashes
           \/ frames' = Front(frames) /\ st' = st
    BY <1>2, <1>t DEF SocketClosed, ReadTypes, WireTypes
  <2>2. Turn({}) /\ st' = st
    BY <1>t, <2>1, CrashTurn, StillTurn, ReturnFacts, FramesDiffer
  <2>3. ReadTypes'
    BY <1>t, <2>1, <2>2 DEF ReadTypes
  <2>4. WriteInv' /\ WireTypes'
    BY <1>t, <2>1, <2>2 DEF WriteInv, WireTypes, peerVars
  <2> QED
    BY <2>2, <2>3, <2>4, TurnWider
<1>3. CASE PeerEnds
  <2>1. /\ peer' \in {"eof", "reset"} /\ UNCHANGED <<conn, sck, inflight, frames, st, calls>>
        /\ UNCHANGED rdVars /\ UNCHANGED wrVars
    BY <1>3 DEF PeerEnds, scriptVars
  <2>2. Turn(Streaming)
    BY <1>t, <2>1, StillTurn
  <2>3. ReadTypes' /\ WriteInv' /\ WireTypes'
    BY <1>t, <2>1 DEF ReadTypes, WriteInv, WireTypes, rdVars, wrVars
  <2> QED
    BY <2>2, <2>3
<1>4. ASSUME NEW c \in Cos, Connect(c)
      PROVE  Turn(Streaming) /\ ReadTypes' /\ WireTypes' /\ WriteInv'
  <2>1. /\ Call(c) /\ Waits(c, "connect") /\ conn' = "pending"
        /\ UNCHANGED <<sck, inflight, peer>> /\ UNCHANGED rdVars /\ UNCHANGED wrVars
    BY <1>4 DEF Connect, peerVars
  <2>2. Turn({}) /\ Turn(Streaming)
    BY <1>t, <1>s, <2>1, WaitsTurn
  <2>3. ReadTypes' /\ WriteInv' /\ WireTypes'
    BY <1>t, <2>1, <2>2, TurnKeeps, ReadKept, WriteKept DEF Waitings, WireTypes, wrVars
  <2> QED
    BY <2>2, <2>3
<1>5. ASSUME NEW c \in Cos, ConnectCb(c)
      PROVE  Turn(Streaming) /\ ReadTypes' /\ WireTypes' /\ WriteInv'
  <2>1. /\ Loop /\ st[c] = "connect" /\ Resume(c, <<>>) /\ conn' \in {"yes", "failed"}
        /\ UNCHANGED <<calls, sck, inflight, peer>> /\ UNCHANGED rdVars /\ UNCHANGED wrVars
    BY <1>5 DEF ConnectCb, peerVars
  <2>2. Turn({"connect"})
    BY <1>t, <2>1, LoopFacts, ResumeTurn
  <2>3. ReadTypes' /\ WriteInv' /\ WireTypes'
    BY <1>t, <2>1, <2>2, TurnKeeps, ReadKept, WriteKept DEF Waitings, WireTypes, wrVars
  <2> QED
    BY <2>2, <2>3, TurnWider DEF Streaming
<1>6. ASSUME NEW c \in Cos, ReadAllEnded(c)
      PROVE  Turn(Streaming) /\ ReadTypes' /\ WireTypes' /\ WriteInv'
  <2>1. /\ Call(c) /\ Crashes
        /\ UNCHANGED <<conn, sck, inflight, peer>> /\ UNCHANGED rdVars /\ UNCHANGED wrVars
    BY <1>6 DEF ReadAllEnded, peerVars
  <2>2. calls' \in 0 .. MaxCalls
    BY <1>t, <2>1, CallTyped
  <2>3. Turn(Streaming) /\ st' = st
    BY <1>t, <2>1, <2>2, CrashTurn
  <2>4. ReadTypes' /\ WriteInv' /\ WireTypes'
    BY <1>t, <2>1, <2>3 DEF ReadTypes, WriteInv, WireTypes, rdVars, wrVars
  <2> QED
    BY <2>3, <2>4
<1>7. ASSUME NEW c \in Cos, Write(c)
      PROVE  Turn(Streaming) /\ ReadTypes' /\ WireTypes' /\ WriteInv'
  <2>1. /\ Call(c) /\ Waits(c, "write") /\ wreqs' = Append(wreqs, c)
        /\ UNCHANGED <<conn, sck, wcli, inflight, peer>> /\ UNCHANGED rdVars
    BY <1>7 DEF Write, peerVars
  <2>2. /\ Turn({}) /\ Turn(Streaming)
        /\ st[c] = "run" /\ st'[c] = "write" /\ \A d \in Cos : d # c => st'[d] = st[d]
    BY <1>t, <1>s, <2>1, WaitsTurn
  <2>3. WriteInv'
    BY <1>t, <2>1, <2>2, QueuedMore DEF WriteInv
  <2>4. ReadTypes' /\ WireTypes'
    BY <1>t, <2>1, <2>2, TurnKeeps, ReadKept DEF Waitings, WireTypes
  <2> QED
    BY <2>2, <2>3, <2>4
<1>8. ASSUME NEW c \in Cos, SocketClose(c)
      PROVE  Turn(Streaming) /\ ReadTypes' /\ WireTypes' /\ WriteInv'
  <2>1. /\ Call(c) /\ ReaderClose(Append(frames, Rest("socket")))
        /\ UNCHANGED <<conn, sck, tm, want, buf, rv, reading, misused, inflight, peer>>
        /\ UNCHANGED wrVars
    BY <1>8 DEF SocketClose, peerVars
  <2>2. Turn({"read"}) /\ co' = 0
    BY <1>t, <2>1, CallTyped, PushFacts, ReaderCloseFacts, FramesDiffer
  <2>3. ReadTypes'
    BY <1>t, <2>1, <2>2, NobodyReads DEF ReadTypes
  <2>4. WriteInv' /\ WireTypes'
    BY <1>t, <2>1, <2>2, TurnKeeps, WriteKept DEF Waitings, WireTypes, wrVars
  <2> QED
    BY <2>2, <2>3, <2>4, TurnWider DEF Streaming
<1>9. ASSUME NEW c \in Cos, NEW w \in Wants, Read(c, w)
      PROVE  Turn(Streaming) /\ ReadTypes' /\ WireTypes' /\ WriteInv'
  <2>1. /\ Call(c) /\ Waits(c, "read") /\ co' = c /\ want' = w
        /\ misused' \in BOOLEAN /\ tm' \in {tm, "armed"} /\ reading' \in {reading, TRUE}
        /\ UNCHANGED <<conn, sck, inflight, peer>> /\ UNCHANGED wrVars
    BY <1>9, <1>t DEF Read, peerVars, ReadTypes
  <2>2. (Enough(w, buf) # 0 /\ ReadFromBuf(w, buf)) \/ UNCHANGED <<buf, rv>>
    <3>1. Enough(w, buf) > 0 => Enough(w, buf) # 0
      OBVIOUS
    <3> QED
      BY <1>9, <3>1 DEF Read
  <2>3. rv' \in Seq(Nat) /\ buf' \in Seq(Nat)
    BY <1>t, <2>2, ReadFromBufType
  <2>4. Turn({}) /\ Turn(Streaming) /\ st'[c] = "read"
    BY <1>t, <1>s, <2>1, WaitsTurn
  <2>5. ReadTypes'
    BY <1>t, <2>1, <2>3, <2>4 DEF ReadTypes, Points
  <2>6. WriteInv' /\ WireTypes'
    BY <1>t, <2>1, <2>4, TurnKeeps, WriteKept DEF Waitings, WireTypes, wrVars
  <2> QED
    BY <2>4, <2>5, <2>6
<1> QED
  BY <1>1, <1>2, <1>3, <1>4, <1>5, <1>6, <1>7, <1>8, <1>9

-----------------------------------------------------------------------------
(* Types of the UDP socket and of the server; their steps put no reader's  *)
(* close on the stack, and take none off.                                  *)

SameReader == In(frames', Rest("reader")) <=> In(frames, Rest("reader"))

LEMMA WaitsReader ==
  ASSUME ScriptInv, NEW c \in Cos, Call(c), NEW w \in States, w # "run", Waits(c, w)
  PROVE  SameReader
BY CallTyped, WaitsFacts, FramesDiffer DEF SameReader

LEMMA LoopReader ==
  ASSUME ScriptInv, Loop, NEW c \in Cos, st[c] # "run", Resume(c, <<>>)
  PROVE  SameReader
<1>1. OnStack(<<>>, st) /\ frames = <<>>
  BY LoopFacts
<1> QED
  BY <1>1, ResumeFacts, FramesDiffer DEF SameReader

LEMMA UdpCloseFacts ==
  ASSUME ScriptInv, UdpTypes, NEW f, OnStack(f, st), UdpCloseEx(f), calls' \in 0 .. MaxCalls
  PROVE  /\ Turn({"recv"}) /\ uco' = 0
         /\ In(frames', Rest("reader")) <=> In(f, Rest("reader"))
<1>1. CASE uco = 0
  <2>1. frames' = f /\ uco' = 0 /\ st' = st
    BY <1>1 DEF UdpCloseEx
  <2> QED
    BY <2>1, StillTurn
<1>2. CASE uco # 0
  <2>1. uco \in Cos /\ st[uco] = "recv"
    BY <1>2 DEF UdpTypes, Points
  <2>2. uco' = 0 /\ Resume(uco, Append(f, Rest("udp")))
    BY <1>2 DEF UdpCloseEx
  <2>3. OnStack(Append(f, Rest("udp")), st)
    BY PushRest, FramesDiffer
  <2>4. Turn({"recv"})
    BY <2>1, <2>2, <2>3, ResumeTurn
  <2>5. In(frames', Rest("reader")) <=> In(Append(f, Rest("udp")), Rest("reader"))
    BY <2>1, <2>2, <2>3, ResumeFacts, FramesDiffer
  <2>6. In(Append(f, Rest("udp")), Rest("reader")) <=> In(f, Rest("reader"))
    <3>1. f \in Seq(Stack) /\ Rest("udp") \in Stack /\ Rest("udp") # Rest("reader")
      BY FramesDiffer DEF OnStack
    <3> QED
      BY <3>1, Pushed
  <2> QED
    BY <2>2, <2>4, <2>5, <2>6
<1> QED
  BY <1>1, <1>2

LEMMA UdpStepTypes ==
  ASSUME Types, UdpNext
  PROVE  Turn({"recv", "send"}) /\ UdpTypes' /\ SameReader
<1>t. /\ ScriptInv /\ UdpTypes /\ calls \in 0 .. MaxCalls /\ OnStack(frames, st)
      /\ Points(uco, "recv", st) /\ Queued(ureqs, "send", st)
  BY DEF Types, ScriptInv, UdpTypes
<1>s. {"recv", "send"} \subseteq States /\ "run" \notin {"recv", "send"}
  BY DEF States, Waitings
<1>w. ASSUME Turn({"recv"}), uco' = 0, ureqs' = ureqs,
             usck' \in {"open", "closed"}, uinit' \in BOOLEAN, ubound' \in BOOLEAN,
             receiving' \in BOOLEAN, ulost' = ulost
      PROVE  Turn({"recv", "send"}) /\ UdpTypes'
  <2>1. Turn({"recv", "send"}) /\ Keeps("send")
    BY <1>w, TurnWider, TurnKeeps DEF Waitings
  <2>2. Queued(ureqs, "send", st')
    BY <1>t, <2>1, QueuedKept DEF Keeps
  <2> QED
    BY <1>t, <1>w, <2>1, <2>2 DEF UdpTypes, Points
<1>l. ASSUME Loop PROVE OnStack(<<>>, st) /\ ~In(<<>>, Rest("reader")) /\ frames = <<>>
  BY <1>l, <1>t, LoopFacts
<1>1. CASE RecvCb
  <2>1. /\ Loop /\ uco \in Cos /\ st[uco] = "recv" /\ uco' = 0 /\ Resume(uco, <<>>)
        /\ calls' = calls /\ receiving' = FALSE /\ UNCHANGED <<usck, uinit, ubound, ureqs, ulost>>
    BY <1>1, <1>t DEF RecvCb, Points
  <2>2. Turn({"recv"}) /\ SameReader
    BY <1>t, <1>l, <2>1, ResumeTurn, LoopReader
  <2> QED
    BY <1>t, <1>w, <2>1, <2>2 DEF UdpTypes
<1>2. CASE RecvFails
  <2>1. /\ Loop /\ UdpCloseEx(<<>>)
        /\ UNCHANGED <<calls, usck, uinit, ubound, receiving, ureqs, ulost>>
    BY <1>2 DEF RecvFails
  <2>2. Turn({"recv"}) /\ uco' = 0 /\ SameReader
    BY <1>t, <1>l, <2>1, UdpCloseFacts DEF SameReader
  <2> QED
    BY <1>t, <1>w, <2>1, <2>2 DEF UdpTypes
<1>3. CASE UdpClosed
  <2>1. /\ Returns("udp") /\ UNCHANGED <<calls, uinit, ubound, uco, ureqs, ulost>>
        /\ usck' \in {"open", "closed"} /\ receiving' \in BOOLEAN
        /\ \/ Crashes
           \/ frames' = Front(frames) /\ st' = st
    BY <1>3, <1>t DEF UdpClosed, UdpTypes
  <2>2. Turn({"recv", "send"}) /\ st' = st
    BY <1>t, <2>1, CrashTurn, StillTurn, ReturnFacts, FramesDiffer
  <2>3. SameReader
    BY <1>t, <2>1, CrashFacts, ReturnFacts, FramesDiffer DEF SameReader
  <2> QED
    BY <1>t, <2>1, <2>2, <2>3 DEF UdpTypes
<1>4. CASE SendCb
  <2>1. /\ Loop /\ ureqs # <<>> /\ ureqs' = Tail(ureqs) /\ Resume(Head(ureqs), <<>>)
        /\ UNCHANGED <<calls, usck, uinit, ubound, uco, receiving, ulost>>
    BY <1>4 DEF SendCb
  <2>2. Head(ureqs) \in Cos /\ st[Head(ureqs)] = "send"
    BY <1>t, <2>1, QueuedHead
  <2>3. /\ Turn({"send"}) /\ SameReader
        /\ \A d \in Cos : d # Head(ureqs) => st'[d] = st[d]
    BY <1>t, <1>l, <2>1, <2>2, ResumeTurn, LoopReader
  <2>4. Queued(ureqs', "send", st')
    BY <1>t, <2>1, <2>3, QueuedLess
  <2>5. Points(uco, "recv", st') /\ Turn({"recv", "send"})
    BY <1>t, <2>3, TurnKeeps, TurnWider, PointsKept DEF Waitings, Keeps
  <2> QED
    BY <1>t, <2>1, <2>3, <2>4, <2>5 DEF UdpTypes
<1>5. CASE SendFails
  <2>1. /\ Loop /\ ureqs # <<>> /\ ureqs' = Tail(ureqs) /\ UdpCloseEx(<<>>)
        /\ ulost' = ulost \union {Head(ureqs)}
        /\ UNCHANGED <<calls, usck, uinit, ubound, receiving>>
    BY <1>5 DEF SendFails
  <2>2. Head(ureqs) \in Cos
    BY <1>t, <2>1, QueuedHead
  <2>3. Turn({"recv"}) /\ uco' = 0 /\ SameReader
    BY <1>t, <1>l, <2>1, UdpCloseFacts DEF SameReader
  <2>4. Keeps("send") /\ Turn({"recv", "send"})
    BY <2>3, TurnKeeps, TurnWider DEF Waitings
  <2>5. Queued(ureqs', "send", st')
    BY <1>t, <2>1, <2>4, QueuedLess DEF Keeps
  <2> QED
    BY <1>t, <2>1, <2>2, <2>3, <2>4, <2>5 DEF UdpTypes, Points
<1>6. ASSUME NEW c \in Cos, UdpBind(c) PROVE Turn({"recv", "send"}) /\ UdpTypes' /\ SameReader
  <2>1. /\ uinit' = TRUE /\ ubound' \in BOOLEAN
        /\ UNCHANGED <<usck, uco, receiving, ureqs, ulost, frames, st, calls>>
    BY <1>6 DEF UdpBind, scriptVars
  <2>2. Turn({"recv", "send"}) /\ SameReader
    BY <1>t, <2>1, StillTurn DEF SameReader
  <2> QED
    BY <1>t, <2>1, <2>2 DEF UdpTypes
<1>7. ASSUME NEW c \in Cos, Recv(c) PROVE Turn({"recv", "send"}) /\ UdpTypes' /\ SameReader
  <2>1. /\ Call(c) /\ Waits(c, "recv") /\ receiving' = TRUE /\ uco' = c
        /\ UNCHANGED <<usck, uinit, ubound, ureqs, ulost>>
    BY <1>7 DEF Recv
  <2>2. Turn({}) /\ Turn({"recv", "send"}) /\ st'[c] = "recv" /\ SameReader
    BY <1>t, <1>s, <2>1, WaitsTurn, WaitsReader
  <2>3. Keeps("send")
    BY <2>2, TurnKeeps DEF Waitings
  <2>4. Queued(ureqs, "send", st')
    BY <1>t, <2>3, QueuedKept DEF Keeps
  <2> QED
    BY <1>t, <2>1, <2>2, <2>4 DEF UdpTypes, Points
<1>8. ASSUME NEW c \in Cos, UdpClose(c) PROVE Turn({"recv", "send"}) /\ UdpTypes' /\ SameReader
  <2>1. /\ Call(c) /\ UdpCloseEx(frames)
        /\ UNCHANGED <<usck, uinit, ubound, receiving, ureqs, ulost>>
    BY <1>8 DEF UdpClose
  <2>2. Turn({"recv"}) /\ uco' = 0 /\ SameReader
    BY <1>t, <2>1, CallTyped, UdpCloseFacts DEF SameReader
  <2> QED
    BY <1>t, <1>w, <2>1, <2>2 DEF UdpTypes
<1>9. ASSUME NEW c \in Cos, Send(c) PROVE Turn({"recv", "send"}) /\ UdpTypes' /\ SameReader
  <2>1. /\ Call(c) /\ Waits(c, "send") /\ uinit' = TRUE /\ ureqs' = Append(ureqs, c)
        /\ UNCHANGED <<usck, ubound, uco, receiving, ulost>>
    BY <1>9 DEF Send
  <2>2. /\ Turn({}) /\ Turn({"recv", "send"}) /\ SameReader
        /\ st[c] = "run" /\ st'[c] = "send" /\ \A d \in Cos : d # c => st'[d] = st[d]
    BY <1>t, <1>s, <2>1, WaitsTurn, WaitsReader
  <2>3. Queued(ureqs', "send", st')
    BY <1>t, <2>1, <2>2, QueuedMore
  <2>4. Points(uco, "recv", st')
    BY <1>t, <2>2, TurnKeeps, PointsKept DEF Waitings, Keeps
  <2> QED
    BY <1>t, <2>1, <2>2, <2>3, <2>4 DEF UdpTypes
<1> QED
  BY <1>1, <1>2, <1>3, <1>4, <1>5, <1>6, <1>7, <1>8, <1>9 DEF UdpNext

LEMMA AcceptorCloseFacts ==
  ASSUME ScriptInv, ServTypes, NEW f, OnStack(f, st), AcceptorClose(f), calls' \in 0 .. MaxCalls
  PROVE  /\ Turn({"serve"}) /\ aco' = 0
         /\ In(frames', Rest("reader")) <=> In(f, Rest("reader"))
<1>1. CASE aco = 0
  <2>1. frames' = f /\ aco' = 0 /\ st' = st
    BY <1>1 DEF AcceptorClose
  <2> QED
    BY <2>1, StillTurn
<1>2. CASE aco # 0
  <2>1. aco \in Cos /\ st[aco] = "serve" /\ aco' = 0 /\ Resume(aco, f)
    BY <1>2 DEF ServTypes, Points, AcceptorClose
  <2> QED
    BY <2>1, ResumeTurn, ResumeFacts, FramesDiffer
<1> QED
  BY <1>1, <1>2

LEMMA ServerStepTypes ==
  ASSUME Types, AcceptorNext
  PROVE  Turn({"serve"}) /\ ServTypes' /\ SameReader
<1>t. ScriptInv /\ ServTypes /\ calls \in 0 .. MaxCalls /\ OnStack(frames, st)
  BY DEF Types, ScriptInv
<1>s. "serve" \in States /\ "serve" # "run"
  BY DEF States, Waitings
<1>1. CASE ConnectionFails
  <2>1. OnStack(<<>>, st) /\ frames = <<>> /\ AcceptorClose(<<>>)
        /\ UNCHANGED <<svr, listening, calls>>
    BY <1>1, <1>t, LoopFacts DEF ConnectionFails
  <2>2. Turn({"serve"}) /\ aco' = 0 /\ SameReader
    BY <1>t, <2>1, AcceptorCloseFacts DEF SameReader
  <2> QED
    BY <1>t, <2>1, <2>2 DEF ServTypes, Points
<1>2. CASE ServerClosed
  <2>1. /\ Returns("server") /\ UNCHANGED <<calls, aco>>
        /\ svr' \in {"open", "bound", "closed"} /\ listening' \in BOOLEAN
        /\ \/ Crashes
           \/ frames' = Front(frames) /\ st' = st
    BY <1>2, <1>t DEF ServerClosed, ServTypes
  <2>2. Turn({"serve"}) /\ st' = st
    BY <1>t, <2>1, CrashTurn, StillTurn, ReturnFacts, FramesDiffer
  <2>3. SameReader
    BY <1>t, <2>1, CrashFacts, ReturnFacts, FramesDiffer DEF SameReader
  <2> QED
    BY <1>t, <2>1, <2>2, <2>3 DEF ServTypes
<1>3. ASSUME NEW c \in Cos, ServerBind(c) PROVE Turn({"serve"}) /\ ServTypes' /\ SameReader
  <2>1. svr' = "bound" /\ UNCHANGED <<listening, aco, frames, st, calls>>
    BY <1>3 DEF ServerBind, scriptVars
  <2>2. Turn({"serve"}) /\ SameReader
    BY <1>t, <2>1, StillTurn DEF SameReader
  <2> QED
    BY <1>t, <2>1, <2>2 DEF ServTypes
<1>4. ASSUME NEW c \in Cos, ServerRun(c) PROVE Turn({"serve"}) /\ ServTypes' /\ SameReader
  <2>1. Call(c) /\ svr' = svr /\ calls' \in 0 .. MaxCalls
    BY <1>4, <1>t, CallTyped DEF ServerRun
  <2>2. CASE aco' = c /\ listening' = TRUE /\ Waits(c, "serve")
    <3>1. Turn({"serve"}) /\ st'[c] = "serve" /\ SameReader
      BY <1>t, <1>s, <2>1, <2>2, WaitsTurn, WaitsReader
    <3> QED
      BY <1>t, <2>1, <2>2, <3>1 DEF ServTypes, Points
  <2>3. CASE UNCHANGED <<aco, listening, frames, st>>
    <3>1. Turn({"serve"}) /\ SameReader
      BY <1>t, <2>1, <2>3, StillTurn DEF SameReader
    <3> QED
      BY <1>t, <2>1, <2>3, <3>1 DEF ServTypes
  <2> QED
    BY <1>4, <2>2, <2>3 DEF ServerRun
<1>5. ASSUME NEW c \in Cos, ServerClose(c) PROVE Turn({"serve"}) /\ ServTypes' /\ SameReader
  <2>1. /\ Call(c) /\ AcceptorClose(Append(frames, Rest("server")))
        /\ UNCHANGED <<svr, listening>> /\ calls' \in 0 .. MaxCalls
    BY <1>5, <1>t, CallTyped DEF ServerClose
  <2>2. /\ OnStack(Append(frames, Rest("server")), st)
        /\ In(Append(frames, Rest("server")), Rest("reader")) <=> In(frames, Rest("reader"))
    BY <1>t, PushFacts, FramesDiffer
  <2>3. Turn({"serve"}) /\ aco' = 0 /\ SameReader
    BY <1>t, <2>1, <2>2, AcceptorCloseFacts DEF SameReader
  <2> QED
    BY <1>t, <2>1, <2>3 DEF ServTypes, Points
<1> QED
  BY <1>1, <1>2, <1>3, <1>4, <1>5 DEF AcceptorNext

LEMMA ScriptStepTypes ==
  ASSUME Types, NEW c \in Cos, Begin(c) \/ Sleep(c) \/ End(c)
  PROVE  Turn({}) /\ SameReader
<1>t. ScriptInv /\ calls \in 0 .. MaxCalls
  BY DEF Types, ScriptInv
<1>s. {"ready", "ended"} \subseteq States /\ "run" \notin {"ready", "ended"}
      /\ "ready" \notin Waitings
  BY DEF States, Waitings
<1>1. CASE Begin(c)
  <2>1. Loop /\ st[c] = "ready" /\ Resume(c, <<>>) /\ calls' = calls
    BY <1>1 DEF Begin
  <2> QED
    BY <1>t, <1>s, <2>1, LoopFacts, ResumeTurn, LoopReader
<1>2. CASE Sleep(c)
  BY <1>t, <1>s, <1>2, WaitsTurn, WaitsReader DEF Sleep
<1>3. CASE End(c)
  <2>1. Running(c) /\ Waits(c, "ended") /\ calls' = calls
    BY <1>3 DEF End
  <2>2. /\ OnStack(frames', st') /\ st[c] = "run" /\ SameReader
        /\ \A d \in Cos : d # c => st'[d] = st[d]
    BY <1>t, <1>s, <2>1, WaitsFacts, FramesDiffer DEF SameReader
  <2> QED
    BY <1>t, <2>1, <2>2 DEF Turn, Waitings
<1> QED
  BY <1>1, <1>2, <1>3

-----------------------------------------------------------------------------
(* Every step keeps the types.                                             *)

LEMMA TypesInit == Init => Types
<1> SUFFICES ASSUME Init PROVE Types
  OBVIOUS
<1>1. /\ frames = <<>> /\ st = [c \in Cos |-> "ready"] /\ calls = 0
      /\ co = 0 /\ uco = 0 /\ aco = 0 /\ wreqs = <<>> /\ ureqs = <<>>
  BY DEF Init, ScriptInit, StreamInit, UdpInit, AcceptorInit
<1>2. OnStack(<<>>, st)
  <2>1. <<>> \in Seq(Stack) /\ st \in [Cos -> States] /\ \A c \in Cos : st[c] # "run"
    BY <1>1 DEF States
  <2> QED
    BY <2>1 DEF OnStack, In
<1>3. Queued(<<>>, "write", st) /\ Queued(<<>>, "send", st)
  BY DEF Queued
<1>4. ScriptInv /\ WriteInv
  BY <1>1, <1>2, <1>3, ScriptAssumption DEF ScriptInv, WriteInv
<1>5. ReadTypes
  <2>1. /\ tm = "idle" /\ want = [k |-> "any", n |-> 0] /\ buf = <<>> /\ rv = <<>>
        /\ reading = FALSE /\ misused = FALSE
    BY DEF Init, StreamInit
  <2>2. want \in Wants
    BY <2>1 DEF Wants
  <2> QED
    BY <1>1, <2>1, <2>2, EmptyBytes DEF ReadTypes, Points
<1>6. WireTypes
  BY StreamAssumption DEF Init, StreamInit, WireTypes
<1>7. UdpTypes
  BY <1>1, <1>3 DEF Init, UdpInit, UdpTypes, Points
<1>8. ServTypes
  BY <1>1 DEF Init, AcceptorInit, ServTypes, Points
<1> QED
  BY <1>4, <1>5, <1>6, <1>7, <1>8 DEF Types

LEMMA StreamSplit ==
  ASSUME StreamNext, Types
  PROVE  \/ ReaderClosed \/ ReturnCb \/ ReadEof \/ ReadEofClose \/ ReadError
         \/ \E i \in Nat : ReadCb(i)
         \/ WriteCb \/ SocketClosed \/ PeerEnds
         \/ \E c \in Cos :
              \/ Connect(c) \/ ConnectCb(c) \/ ReadAllEnded(c) \/ Write(c) \/ SocketClose(c)
              \/ \E w \in Wants : Read(c, w)
<1>1. ASSUME NEW s \in Streams, NEW i \in DOMAIN s, ReadCb(i) PROVE \E j \in Nat : ReadCb(j)
  <2>1. s \in Seq(Nat)
    BY StreamAssumption
  <2>2. i \in Nat
    BY <2>1
  <2> QED
    BY <1>1, <2>2
<1> QED
  BY <1>1 DEF StreamNext

LEMMA TypesStep ==
  ASSUME Types, [Next]_vars
  PROVE  Types'
<1>t. ScriptInv /\ ReadTypes /\ WireTypes /\ WriteInv /\ UdpTypes /\ ServTypes
      /\ calls \in 0 .. MaxCalls
  BY DEF Types, ScriptInv
<1>e. ASSUME NEW ws, Turn(ws) PROVE ScriptInv'
  BY <1>e DEF Turn, ScriptInv
<1>u. ASSUME NEW ws, Turn(ws), "send" \notin ws, "recv" \notin ws, UNCHANGED udpVars PROVE UdpTypes'
  BY <1>t, <1>u, TurnKeeps, UdpKept DEF Waitings
<1>v. ASSUME NEW ws, Turn(ws), "serve" \notin ws, UNCHANGED acceptorVars PROVE ServTypes'
  BY <1>t, <1>v, TurnKeeps, ServKept DEF Waitings
<1>r. ASSUME NEW ws, Turn(ws), "read" \notin ws, "write" \notin ws, UNCHANGED streamVars
      PROVE  ReadTypes' /\ WireTypes' /\ WriteInv'
  <2>1. Keeps("read") /\ Keeps("write")
    BY <1>r, TurnKeeps DEF Waitings
  <2> QED
    BY <1>t, <1>r, <2>1, ReadKept, WriteKept DEF streamVars, rdVars, WireTypes
<1>1. CASE StreamNext /\ UNCHANGED udpVars /\ UNCHANGED acceptorVars
  <2>1. Turn(Streaming) /\ ReadTypes' /\ WireTypes' /\ WriteInv'
    BY <1>1, StreamSplit, ReaderTypes, SocketTypes
  <2> QED
    BY <1>1, <1>e, <1>u, <1>v, <2>1 DEF Types, Streaming
<1>2. CASE UdpNext /\ UNCHANGED streamVars /\ UNCHANGED acceptorVars
  <2>1. Turn({"recv", "send"}) /\ UdpTypes'
    BY <1>2, UdpStepTypes
  <2> QED
    BY <1>2, <1>e, <1>r, <1>v, <2>1 DEF Types
<1>3. CASE AcceptorNext /\ UNCHANGED streamVars /\ UNCHANGED udpVars
  <2>1. Turn({"serve"}) /\ ServTypes'
    BY <1>3, ServerStepTypes
  <2> QED
    BY <1>3, <1>e, <1>r, <1>u, <2>1 DEF Types
<1>4. CASE Accepted
  <2>1. /\ UNCHANGED <<frames, st, calls, sck, wcli, wreqs, inflight, peer>> /\ UNCHANGED rdVars
        /\ conn' = "yes" /\ UNCHANGED udpVars /\ UNCHANGED acceptorVars
    BY <1>4 DEF Accepted, Connection, scriptVars, rdVars
  <2>2. Turn({})
    BY <1>t, <2>1, StillTurn DEF ScriptInv
  <2>3. ReadTypes' /\ WriteInv' /\ WireTypes'
    BY <1>t, <2>1, <2>2, TurnKeeps, ReadKept, WriteKept DEF Waitings, WireTypes
  <2> QED
    BY <2>1, <2>2, <2>3, <1>e, <1>u, <1>v DEF Types
<1>5. CASE ScriptStep
  <2>1. Turn({})
    BY <1>5, ScriptStepTypes DEF ScriptStep
  <2> QED
    BY <1>5, <1>e, <1>r, <1>u, <1>v, <2>1 DEF Types, ScriptStep
<1>6. CASE UNCHANGED vars
  <2>1. /\ UNCHANGED <<frames, st, calls>> /\ UNCHANGED streamVars /\ UNCHANGED udpVars
        /\ UNCHANGED acceptorVars
    BY <1>6 DEF vars, streamVars, udpVars, acceptorVars
  <2>2. Turn({})
    BY <1>t, <2>1, StillTurn DEF ScriptInv
  <2> QED
    BY <2>1, <2>2, <1>e, <1>r, <1>u, <1>v DEF Types
<1> QED
  BY <1>1, <1>2, <1>3, <1>4, <1>5, <1>6 DEF Next

-----------------------------------------------------------------------------
(* The reader, as long as the script keeps the rules, and what its steps   *)
(* are to ByteStream.                                                      *)

asked  == IF co = 0 THEN [k |-> "none", n |-> 0] ELSE want
Serves == [BS!Ask \/ BS!Answer \/ BS!Misuse]_<<rv \o buf \o inflight, asked, misused>>

LEMMA Together ==
  ASSUME NEW r \in Seq(Nat), NEW s \in Seq(Nat), NEW t \in Seq(Nat)
  PROVE  (r \o s) \o t = r \o (s \o t)
OBVIOUS

LEMMA WantsSomething == \A w \in Wants : w # [k |-> "none", n |-> 0]
<1>1. \A w \in Wants : w.k # "none"
  BY DEF Wants
<1> QED
  BY <1>1

LEMMA Asks ==
  ASSUME co = 0, co' # 0, want' \in Wants, Left' = Left, misused' = misused
  PROVE  Serves
<1>1. asked = BS!Nothing /\ asked' # BS!Nothing
  BY WantsSomething DEF asked, BS!Nothing
<1>2. BS!Ask
  BY <1>1 DEF BS!Ask, Left, asked
<1> QED
  BY <1>2 DEF Serves

LEMMA AnswersIt ==
  ASSUME co # 0, co' = 0, misused' = misused, want \in Wants,
         NEW i \in 0 .. Len(Left), i = 0 \/ Answers(want, i, Left),
         Left' = SubSeq(Left, i + 1, Len(Left))
  PROVE  Serves
<1>1. asked = want /\ asked # BS!Nothing /\ asked' = BS!Nothing
  BY WantsSomething DEF asked, BS!Nothing
<1>2. ASSUME Answers(want, i, Left) PROVE BS!Meets(asked, i)
  <2>1. EndsWithDelim(Left) = BS!EndsWithDelim(Left)
    BY DEF EndsWithDelim, BS!EndsWithDelim
  <2> QED
    BY <1>1, <1>2, <2>1 DEF Answers, BS!Meets, Left
<1>3. BS!Answer
  BY <1>1, <1>2 DEF BS!Answer, Left, asked
<1> QED
  BY <1>3 DEF Serves

LEMMA Forgets ==
  ASSUME co # 0, co' = 0, misused' = misused, want \in Wants, Left \in Seq(Nat), Left' = Left
  PROVE  Serves
<1>1. 0 \in 0 .. Len(Left) /\ SubSeq(Left, 0 + 1, Len(Left)) = Left
  BY SubSeqFull
<1> QED
  BY <1>1, AnswersIt

LEMMA Stutters ==
  ASSUME co' = co, want' = want, misused' = misused, Left' = Left
  PROVE  Serves
BY DEF Serves, asked, Left

LEMMA ReaderKept ==
  ASSUME ReadInv, UNCHANGED rdVars, inflight' = inflight, SameReader
  PROVE  ReadInv' /\ Serves
<1>1. /\ co' = co /\ want' = want /\ misused' = misused /\ Left' = Left
      /\ tm' = tm /\ reading' = reading /\ rv' = rv
  BY DEF rdVars, Left
<1>2. In(frames', Rest("reader")) <=> In(frames, Rest("reader"))
  BY DEF SameReader
<1>3. Answers(want, Len(rv), Left) => Answers(want', Len(rv'), Left')
  BY <1>1
<1>4. ReadInv'
  BY <1>1, <1>2, <1>3 DEF ReadInv
<1> QED
  BY <1>1, <1>4, Stutters

(* Nobody reads any more, and whoever did is told by close() or has        *)
(* the answer.                                                             *)
LEMMA ReaderLeft ==
  ASSUME co' = 0, reading' => In(frames', Rest("reader")),
         tm' = "armed" => In(frames', Rest("reader")), rv' = <<>> \/ tm' \in {"armed", "gone"}
  PROVE  ReadInv'
BY DEF ReadInv

(* What close() of the reader does, whoever calls it.                      *)
LEMMA ReaderTold ==
  ASSUME Types, ReadInv, NEW f, OnStack(f, st), ReaderClose(f), calls' \in 0 .. MaxCalls,
         In(f, Rest("reader")) <=> In(frames, Rest("reader")),
         reading' \in {reading, FALSE}, UNCHANGED <<tm, want, rv, buf, inflight, misused>>
  PROVE  ReadInv' /\ Serves
<1>1. /\ co' = 0
      /\ In(frames', Rest("reader")) <=> In(frames, Rest("reader")) \/ co # 0
  BY ReaderCloseFacts
<1>2. ReadInv'
  <2>1. reading \in BOOLEAN
    BY DEF Types, ReadTypes
  <2>2. reading' => reading
    BY <2>1
  <2>3. reading' => In(frames', Rest("reader"))
    BY <1>1, <2>2 DEF ReadInv
  <2>4. tm' = "armed" => In(frames', Rest("reader"))
    BY <1>1 DEF ReadInv
  <2>5. rv' = <<>> \/ tm' \in {"armed", "gone"}
    BY DEF ReadInv
  <2> QED
    BY <1>1, <2>3, <2>4, <2>5, ReaderLeft
<1>3. Left' = Left /\ want \in Wants /\ Left \in Seq(Nat)
  BY ConcatProperties DEF Left, Types, ReadTypes, WireTypes
<1>4. Serves
  BY <1>1, <1>3, Stutters, Forgets
<1> QED
  BY <1>2, <1>4

LEMMA Readers ==
  ASSUME Types, ReadInv, ~misused,
         \/ ReaderClosed \/ ReturnCb \/ ReadEof \/ ReadEofClose \/ ReadError
         \/ \E i \in Nat : ReadCb(i)
  PROVE  ReadInv' /\ Serves
<1>t. /\ ScriptInv /\ calls \in 0 .. MaxCalls /\ want \in Wants
      /\ rv \in Seq(Nat) /\ buf \in Seq(Nat) /\ inflight \in Seq(Nat)
  BY DEF Types, ScriptInv, ReadTypes, WireTypes
<1>a. Left = rv \o (buf \o inflight) /\ Left \in Seq(Nat) /\ buf \o inflight \in Seq(Nat)
  <2>1. Left = rv \o (buf \o inflight)
    BY <1>t, Together DEF Left
  <2> QED
    BY <1>t, <2>1, ConcatProperties
<1>l. ASSUME Loop
      PROVE  /\ OnStack(<<>>, st) /\ ~In(<<>>, Rest("reader")) /\ ~In(frames, Rest("reader"))
             /\ frames = <<>>
  BY <1>l, <1>t, LoopFacts
<1>r. ASSUME Loop, reading PROVE co # 0 /\ tm = "idle" /\ rv = <<>>
  BY <1>r, <1>l DEF ReadInv
<1>1. CASE ReaderClosed
  <2>1. /\ Returns("reader") /\ UNCHANGED <<calls, co, want, buf, rv, misused, inflight>>
        /\ \/ Crashes /\ UNCHANGED <<tm, reading>>
           \/ tm' = "gone" /\ reading' = FALSE
    BY <1>1 DEF ReaderClosed, peerVars
  <2>2. In(frames, Rest("reader"))
    BY <1>t, <2>1, ReturnFacts, FramesDiffer
  <2>3. co = 0 /\ co' = 0
    BY <2>1, <2>2 DEF ReadInv
  <2>4. ReadInv'
    <3>1. CASE Crashes /\ UNCHANGED <<tm, reading>>
      <4>1. SameReader
        BY <1>t, <3>1, CrashFacts DEF SameReader
      <4> QED
        BY <2>1, <3>1, <4>1, ReaderKept DEF rdVars
    <3>2. CASE tm' = "gone" /\ reading' = FALSE
      BY <2>3, <3>2, ReaderLeft
    <3> QED
      BY <2>1, <3>1, <3>2
  <2> QED
    BY <2>1, <2>4, Stutters DEF Left
<1>2. CASE ReturnCb
  <2>1. /\ Loop /\ tm = "armed" /\ tm' = "idle" /\ ReturnTo(<<>>)
        /\ UNCHANGED <<calls, want, buf, reading, misused, inflight>>
    BY <1>2 DEF ReturnCb, peerVars
  <2>2. co' = 0 /\ rv' = <<>>
    BY <2>1 DEF ReturnTo
  <2>3. co # 0 /\ ~reading /\ Answers(want, Len(rv), Left)
    BY <1>l, <2>1 DEF ReadInv
  <2>4. ReadInv'
    BY <2>1, <2>2, <2>3, ReaderLeft
  <2>5. /\ Len(rv) \in 0 .. Len(Left)
        /\ SubSeq(Left, Len(rv) + 1, Len(Left)) = buf \o inflight
    <3>1. Len(Left) = Len(rv) + Len(buf \o inflight) /\ Len(rv) \in Nat /\ Len(buf \o inflight) \in Nat
      BY <1>t, <1>a, ConcatProperties
    <3>2. SubSeq(Left, Len(rv) + 1, Len(Left)) = buf \o inflight
      BY <1>t, <1>a, Dropped
    <3> QED
      BY <3>1, <3>2
  <2>6. Left' = buf \o inflight
    BY <1>t, <2>1, <2>2 DEF Left
  <2>7. Serves
    BY <1>t, <2>1, <2>2, <2>3, <2>5, <2>6, AnswersIt
  <2> QED
    BY <2>4, <2>7
<1>3. CASE ReadEof
  <2>1. /\ Loop /\ reading /\ inflight = <<>> /\ reading' = FALSE
        /\ UNCHANGED <<calls, want, tm, misused, inflight>>
        /\ \/ want.k = "all" /\ buf' = <<>> /\ ReturnTo(<<Rest("eof")>>)
           \/ ReaderClose(<<>>) /\ UNCHANGED <<buf, rv>>
    BY <1>3 DEF ReadEof, peerVars
  <2>2. CASE ReaderClose(<<>>) /\ UNCHANGED <<buf, rv>>
    BY <1>t, <1>l, <2>1, <2>2, ReaderTold
  <2>3. CASE want.k = "all" /\ buf' = <<>> /\ ReturnTo(<<Rest("eof")>>)
    <3>1. co # 0 /\ tm = "idle" /\ rv = <<>> /\ co' = 0 /\ rv' = <<>>
      BY <1>r, <2>1, <2>3 DEF ReturnTo
    <3>2. ReadInv'
      BY <2>1, <3>1, ReaderLeft
    <3>3. Left = buf /\ Left' = <<>>
      BY <1>t, <2>1, <2>3, <3>1 DEF Left
    <3>4. Len(Left) \in 0 .. Len(Left) /\ Answers(want, Len(Left), Left)
      BY <1>a, <2>3 DEF Answers
    <3>5. SubSeq(Left, Len(Left) + 1, Len(Left)) = <<>>
      BY <1>a, SubSeqEmpty
    <3>6. Serves
      BY <1>t, <2>1, <3>1, <3>3, <3>4, <3>5, AnswersIt
    <3> QED
      BY <3>2, <3>6
  <2> QED
    BY <2>1, <2>2, <2>3
<1>4. CASE ReadEofClose
  <2>1. /\ Returns("eof") /\ ReaderClose(Front(frames))
        /\ UNCHANGED <<calls, want, tm, misused, buf, rv, reading, inflight>>
    BY <1>4 DEF ReadEofClose, peerVars
  <2>2. /\ OnStack(Front(frames), st)
        /\ In(Front(frames), Rest("reader")) <=> In(frames, Rest("reader"))
    BY <1>t, <2>1, ReturnFacts, FramesDiffer
  <2> QED
    BY <1>t, <2>1, <2>2, ReaderTold
<1>5. CASE ReadError
  <2>1. /\ Loop /\ ReaderClose(<<>>) /\ reading' = FALSE
        /\ UNCHANGED <<calls, want, tm, misused, buf, rv, inflight>>
    BY <1>5 DEF ReadError, peerVars
  <2> QED
    BY <1>t, <1>l, <2>1, ReaderTold
<1>6. ASSUME NEW i \in Nat, ReadCb(i) PROVE ReadInv' /\ Serves
  <2> DEFINE p == SubSeq(inflight, 1, i)
             b == buf \o p
             t == SubSeq(inflight, i + 1, Len(inflight))
             n == Enough(want, b)
  <2>1. /\ Loop /\ reading /\ i \in 1 .. Len(inflight) /\ inflight' = t
        /\ UNCHANGED <<want, tm, misused>>
        /\ \/ n = 0 /\ buf' = b /\ UNCHANGED <<rv, co, reading, frames>>
           \/ n # 0 /\ reading' = FALSE /\ ReturnTo(<<>>) /\ buf' = SubSeq(b, n + 1, Len(b))
    BY <1>6 DEF ReadCb
  <2>2. co # 0 /\ tm = "idle" /\ rv = <<>>
    BY <1>r, <2>1
  <2>3. p \in Seq(Nat) /\ t \in Seq(Nat) /\ p \o t = inflight
    <3>1. i \in 0 .. Len(inflight)
      BY <2>1
    <3> QED
      BY <1>t, <3>1, Cut
  <2> HIDE DEF p, t
  <2>4. b \in Seq(Nat)
    BY <1>t, <2>3, ConcatProperties
  <2>5. b \o t = buf \o inflight
    <3>1. (buf \o p) \o t = buf \o (p \o t)
      <4>1. buf \in Seq(Nat) /\ p \in Seq(Nat) /\ t \in Seq(Nat)
        BY <1>t, <2>3
      <4> QED
        BY <4>1, Together
    <3> QED
      BY <2>3, <3>1
  <2> HIDE DEF b
  <2>6. Left = b \o t
    BY <1>t, <2>2, <2>5, ConcatEmptySeq DEF Left
  <2>7. CASE n = 0
    <3>1. buf' = b /\ UNCHANGED <<rv, co, reading, frames>>
      BY <2>1, <2>7
    <3>2. ReadInv'
      BY <2>1, <2>2, <3>1 DEF ReadInv
    <3>3. Left' = Left
      <4>1. Left' = (<<>> \o b) \o t
        BY <2>1, <2>2, <3>1 DEF Left
      <4> QED
        BY <2>4, <2>6, <4>1, ConcatEmptySeq
    <3> QED
      BY <2>1, <3>1, <3>2, <3>3, Stutters
  <2>8. CASE n # 0
    <3>1. reading' = FALSE /\ co' = 0 /\ rv' = <<>> /\ buf' = SubSeq(b, n + 1, Len(b))
      BY <2>1, <2>8 DEF ReturnTo
    <3>2. ReadInv'
      BY <2>1, <2>2, <3>1, ReaderLeft
    <3>3. n \in 1 .. Len(b) /\ Answers(want, n, Left)
      BY <1>t, <2>3, <2>4, <2>6, <2>8, EnoughFacts, EnoughAnswers
    <3> HIDE DEF n
    <3>4. Len(b) \in Nat /\ Len(t) \in Nat /\ Len(Left) = Len(b) + Len(t)
      BY <2>3, <2>4, <2>6
    <3>5. n \in 0 .. Len(b) /\ n \in 0 .. Len(Left)
      BY <3>3, <3>4
    <3>6. /\ SubSeq(b, 1, n) \in Seq(Nat) /\ Len(SubSeq(b, 1, n)) = n
          /\ buf' \in Seq(Nat) /\ SubSeq(b, 1, n) \o buf' = b
      BY <2>4, <3>1, <3>5, Cut
    <3>7. SubSeq(b, 1, n) \o (buf' \o t) = Left /\ buf' \o t \in Seq(Nat)
      <4>1. (SubSeq(b, 1, n) \o buf') \o t = SubSeq(b, 1, n) \o (buf' \o t)
        BY <2>3, <3>6, Together
      <4>2. buf' \o t \in Seq(Nat)
        BY <2>3, <3>6, ConcatProperties
      <4> QED
        BY <2>6, <3>6, <4>1, <4>2
    <3>8. SubSeq(Left, n + 1, Len(Left)) = buf' \o t
      BY <3>6, <3>7, Dropped
    <3>9. Left' = buf' \o t
      BY <2>1, <3>1, <3>6 DEF Left
    <3> QED
      BY <1>t, <2>1, <2>2, <3>1, <3>2, <3>3, <3>5, <3>8, <3>9, AnswersIt
  <2> QED
    BY <2>7, <2>8
<1> QED
  BY <1>1, <1>2, <1>3, <1>4, <1>5, <1>6

LEMMA Sockets ==
  ASSUME Types, ReadInv, ~misused, ~misused',
         \/ WriteCb \/ SocketClosed \/ PeerEnds
         \/ \E c \in Cos :
              \/ Connect(c) \/ ConnectCb(c) \/ ReadAllEnded(c) \/ Write(c) \/ SocketClose(c)
              \/ \E w \in Wants : Read(c, w)
  PROVE  ReadInv' /\ Serves
<1>t. /\ ScriptInv /\ OnStack(frames, st) /\ Queued(wreqs, "write", st)
      /\ rv \in Seq(Nat) /\ buf \in Seq(Nat) /\ inflight \in Seq(Nat)
      /\ tm \in {"idle", "armed", "gone"} /\ reading \in BOOLEAN /\ misused \in BOOLEAN
  BY DEF Types, ScriptInv, ReadTypes, WireTypes, WriteInv
<1>s. {"connect", "read", "write"} \subseteq States /\ "run" \notin {"connect", "read", "write"}
  BY DEF States, Waitings
<1>1. CASE WriteCb
  <2>1. /\ Loop /\ wreqs # <<>> /\ Resume(Head(wreqs), <<>>)
        /\ UNCHANGED inflight /\ UNCHANGED rdVars
    BY <1>1 DEF WriteCb, peerVars
  <2>2. Head(wreqs) \in Cos /\ st[Head(wreqs)] = "write"
    BY <1>t, <2>1, QueuedHead
  <2>3. SameReader
    BY <1>t, <2>1, <2>2, LoopReader
  <2> QED
    BY <2>1, <2>3, ReaderKept
<1>2. CASE SocketClosed
  <2>1. /\ Returns("socket") /\ UNCHANGED <<tm, co, want, buf, rv, misused, inflight>>
        /\ \/ Crashes /\ reading' = reading
           \/ reading' = FALSE /\ frames' = Front(frames)
    BY <1>2 DEF SocketClosed, peerVars
  <2>2. SameReader
    BY <1>t, <2>1, CrashFacts, ReturnFacts, FramesDiffer DEF SameReader
  <2>3. Left' = Left /\ (reading' => reading)
    BY <1>t, <2>1 DEF Left
  <2>4. ReadInv'
    BY <2>1, <2>2, <2>3 DEF ReadInv, SameReader
  <2> QED
    BY <2>1, <2>3, <2>4, Stutters
<1>3. CASE PeerEnds
  <2>1. UNCHANGED <<inflight, frames>> /\ UNCHANGED rdVars
    BY <1>3 DEF PeerEnds, scriptVars
  <2> QED
    BY <2>1, ReaderKept DEF SameReader
<1>4. ASSUME NEW c \in Cos, Connect(c) PROVE ReadInv' /\ Serves
  <2>1. Call(c) /\ Waits(c, "connect") /\ UNCHANGED inflight /\ UNCHANGED rdVars
    BY <1>4 DEF Connect, peerVars
  <2> QED
    BY <1>t, <1>s, <2>1, WaitsReader, ReaderKept
<1>5. ASSUME NEW c \in Cos, ConnectCb(c) PROVE ReadInv' /\ Serves
  <2>1. /\ Loop /\ st[c] = "connect" /\ Resume(c, <<>>)
        /\ UNCHANGED inflight /\ UNCHANGED rdVars
    BY <1>5 DEF ConnectCb, peerVars
  <2> QED
    BY <1>t, <2>1, LoopReader, ReaderKept
<1>6. ASSUME NEW c \in Cos, ReadAllEnded(c) PROVE ReadInv' /\ Serves
  <2>1. Crashes /\ UNCHANGED inflight /\ UNCHANGED rdVars
    BY <1>6 DEF ReadAllEnded, peerVars
  <2> QED
    BY <1>t, <2>1, CrashFacts, ReaderKept DEF SameReader
<1>7. ASSUME NEW c \in Cos, Write(c) PROVE ReadInv' /\ Serves
  <2>1. Call(c) /\ Waits(c, "write") /\ UNCHANGED inflight /\ UNCHANGED rdVars
    BY <1>7 DEF Write, peerVars
  <2> QED
    BY <1>t, <1>s, <2>1, WaitsReader, ReaderKept
<1>8. ASSUME NEW c \in Cos, SocketClose(c) PROVE ReadInv' /\ Serves
  <2>1. /\ Call(c) /\ ReaderClose(Append(frames, Rest("socket")))
        /\ UNCHANGED <<tm, want, buf, rv, reading, misused, inflight>>
    BY <1>8 DEF SocketClose, peerVars
  <2>2. /\ OnStack(Append(frames, Rest("socket")), st)
        /\ In(Append(frames, Rest("socket")), Rest("reader")) <=> In(frames, Rest("reader"))
        /\ calls' \in 0 .. MaxCalls
    BY <1>t, <2>1, CallTyped, PushFacts, FramesDiffer
  <2> QED
    BY <2>1, <2>2, ReaderTold
<1>9. ASSUME NEW c \in Cos, NEW w \in Wants, Read(c, w) PROVE ReadInv' /\ Serves
  <2>1. /\ Call(c) /\ Waits(c, "read") /\ tm # "gone" /\ co' = c /\ want' = w
        /\ misused' = (misused \/ co # 0 \/ \E i \in DOMAIN frames : frames[i] = Rest("reader"))
        /\ UNCHANGED inflight
        /\ \/ Enough(w, buf) # 0 /\ ReadFromBuf(w, buf) /\ tm' = "armed" /\ reading' = reading
           \/ reading' = TRUE /\ UNCHANGED <<tm, buf, rv>>
    <3>1. Enough(w, buf) > 0 => Enough(w, buf) # 0
      OBVIOUS
    <3> QED
      BY <1>9, <3>1 DEF Read, peerVars
  <2>2. co = 0 /\ misused' = misused /\ ~In(frames, Rest("reader"))
    <3>1. DOMAIN frames = 1 .. Len(frames)
      BY <1>t DEF OnStack
    <3> QED
      BY <1>t, <2>1, <3>1 DEF In
  <2>3. tm = "idle" /\ rv = <<>> /\ reading = FALSE
    BY <1>t, <2>1, <2>2 DEF ReadInv
  <2>4. SameReader /\ co' # 0 /\ ~In(frames', Rest("reader"))
    <3>1. SameReader
      BY <1>t, <1>s, <2>1, WaitsReader
    <3>2. co' # 0
      BY <2>1, ScriptAssumption
    <3> QED
      BY <2>2, <3>1, <3>2 DEF SameReader
  <2>5. CASE Enough(w, buf) # 0 /\ ReadFromBuf(w, buf) /\ tm' = "armed" /\ reading' = reading
    <3>1. /\ rv' \in Seq(Nat) /\ buf' \in Seq(Nat) /\ rv' \o buf' = buf
          /\ Len(rv') = Enough(w, buf)
      BY <1>t, <2>5, ReadFromBufType
    <3>2. Left' = buf \o inflight /\ Left' = Left
      <4>1. Left' = buf \o inflight
        BY <2>1, <3>1 DEF Left
      <4>2. Left = buf \o inflight
        BY <1>t, <2>3, ConcatEmptySeq DEF Left
      <4> QED
        BY <4>1, <4>2
    <3>3. Answers(want', Len(rv'), Left')
      BY <1>t, <2>1, <2>5, <3>1, <3>2, EnoughAnswers
    <3>4. ReadInv'
      BY <2>3, <2>4, <2>5, <3>3 DEF ReadInv
    <3> QED
      BY <2>1, <2>2, <2>4, <3>2, <3>4, Asks
  <2>6. CASE reading' = TRUE /\ UNCHANGED <<tm, buf, rv>>
    <3>1. ReadInv'
      BY <2>3, <2>4, <2>6 DEF ReadInv
    <3>2. Left' = Left
      BY <2>1, <2>6 DEF Left
    <3> QED
      BY <2>1, <2>2, <2>4, <3>1, <3>2, Asks
  <2> QED
    BY <2>1, <2>5, <2>6
<1> QED
  BY <1>1, <1>2, <1>3, <1>4, <1>5, <1>6, <1>7, <1>8, <1>9

LEMMA MisusedStays ==
  ASSUME Types, [Next]_vars, misused
  PROVE  misused'
<1>1. ASSUME StreamNext PROVE misused'
  BY <1>1 DEF StreamNext, ReaderClosed, ReturnCb, ReadEof, ReadEofClose, ReadError, ReadCb,
       WriteCb, SocketClosed, PeerEnds, Connect, ConnectCb, ReadAllEnded, Write, SocketClose,
       Read, rdVars
<1> QED
  BY <1>1 DEF Next, Accepted, ScriptStep, vars, streamVars

LEMMA ReadStep ==
  ASSUME Inv, [Next]_vars
  PROVE  (~misused' => ReadInv') /\ Serves
<1>1. CASE misused'
  <2>1. BS!Misuse
    BY <1>1 DEF BS!Misuse
  <2> QED
    BY <1>1, <2>1 DEF Serves
<1>2. CASE ~misused'
  <2>0. Types /\ ~misused /\ ReadInv /\ ScriptInv
    BY <1>2, MisusedStays DEF Inv, Types
  <2>s. ASSUME UNCHANGED streamVars, SameReader PROVE ReadInv' /\ Serves
    BY <2>0, <2>s, ReaderKept DEF streamVars, rdVars
  <2>1. CASE StreamNext
    BY <1>2, <2>0, <2>1, StreamSplit, Readers, Sockets
  <2>2. CASE UdpNext /\ UNCHANGED streamVars
    BY <2>0, <2>2, <2>s, UdpStepTypes
  <2>3. CASE AcceptorNext /\ UNCHANGED streamVars
    BY <2>0, <2>3, <2>s, ServerStepTypes
  <2>4. CASE Accepted
    <3>1. UNCHANGED rdVars /\ inflight' = inflight /\ frames' = frames
      BY <2>4 DEF Accepted, Connection, scriptVars, rdVars
    <3> QED
      BY <2>0, <3>1, ReaderKept DEF SameReader
  <2>5. CASE ScriptStep
    <3>1. UNCHANGED streamVars /\ SameReader
      BY <2>0, <2>5, ScriptStepTypes DEF ScriptStep
    <3> QED
      BY <2>s, <3>1
  <2>6. CASE UNCHANGED vars
    BY <2>6, <2>s DEF vars, streamVars, SameReader
  <2> QED
    BY <2>1, <2>2, <2>3, <2>4, <2>5, <2>6 DEF Next
<1> QED
  BY <1>1, <1>2

LEMMA ReadInit ==
  ASSUME Init
  PROVE  ReadInv /\ BS!Init
<1>1. /\ co = 0 /\ rv = <<>> /\ buf = <<>> /\ tm = "idle" /\ reading = FALSE
      /\ misused = FALSE /\ inflight \in Streams
  BY DEF Init, StreamInit
<1>2. ReadInv
  BY <1>1 DEF ReadInv
<1>3. rv \o buf \o inflight = inflight
  <2>1. inflight \in Seq(Nat)
    BY <1>1, StreamAssumption
  <2> QED
    BY <1>1, <2>1, ConcatEmptySeq
<1>4. BS!Init
  BY <1>1, <1>3 DEF BS!Init, BS!Nothing
<1> QED
  BY <1>2, <1>4

-----------------------------------------------------------------------------
(* The theorems.                                                           *)

(* In every behaviour the stack, the pointers and the queues agree, and as *)
(* long as the script keeps the rules the reader holds either nothing or   *)
(* the answer to the read that waits (stream_reader.cpp, rv_ and co_).     *)
THEOREM InvHolds == Spec => []Inv
<1>1. Init => Inv
  BY TypesInit, ReadInit DEF Inv
<1>2. Inv /\ [Next]_vars => Inv'
  <2> SUFFICES ASSUME Inv, [Next]_vars PROVE Inv'
    OBVIOUS
  <2> QED
    BY TypesStep, ReadStep DEF Inv
<1> QED
  BY <1>1, <1>2, PTL DEF Spec

(* Type correctness: who runs is exactly who is on the stack, and co_ of   *)
(* the reader, the UDP socket and the server and the queues of their       *)
(* requests point to coroutines that wait for them.                        *)
THEOREM TypeCorrect == Spec => []TypeOK
<1>1. Inv => TypeOK
  <2> SUFFICES ASSUME Inv PROVE TypeOK
    OBVIOUS
  <2>1. /\ OnStack(frames, st) /\ calls \in 0 .. MaxCalls
        /\ ReadTypes /\ WireTypes /\ WriteInv /\ UdpTypes /\ ServTypes
    BY DEF Inv, Types, ScriptInv
  <2>2. DOMAIN frames = 1 .. Len(frames)
    BY <2>1 DEF OnStack
  <2>3. st \in [Cos -> {"ready", "run", "ended", "connect", "read", "write",
                        "recv", "send", "serve"}]
    BY <2>1 DEF OnStack, States, Waitings
  <2>4. \A i \in DOMAIN frames :
          \/ frames[i].k = "co" /\ frames[i].c \in Cos
          \/ frames[i].k \in {"reader", "eof", "socket", "udp", "server", "crash"}
    <3> SUFFICES ASSUME NEW i \in 1 .. Len(frames)
                 PROVE  \/ frames[i].k = "co" /\ frames[i].c \in Cos
                        \/ frames[i].k \in Rests
      BY <2>2 DEF Rests
    <3>1. frames[i] \in Stack
      BY <2>1 DEF OnStack
    <3>2. PICK x \in Stack : x = frames[i]
      BY <3>1
    <3>3. (x.k = "co" /\ x.c \in Cos) \/ x.k \in Rests
      <4>1. (\E c \in Cos : x = Frame(c)) \/ (\E k \in Rests : x = Rest(k))
        BY DEF Stack
      <4> QED
        BY <4>1, FramesDiffer
    <3> QED
      BY <3>2, <3>3
  <2>5. \A c \in Cos : st[c] = "run" <=> Frame(c) \in Range(frames)
    BY <2>1, <2>2 DEF OnStack, In, Range
  <2>6. /\ \A i \in DOMAIN wreqs : st[wreqs[i]] = "write"
        /\ \A i \in DOMAIN ureqs : st[ureqs[i]] = "send"
    BY <2>1 DEF WriteInv, UdpTypes, Queued
  <2> QED
    BY <2>1, <2>3, <2>4, <2>5, <2>6 DEF TypeOK, ReadTypes, WireTypes, UdpTypes, ServTypes, Points
<1> QED
  BY <1>1, InvHolds, PTL

(* stream_reader.cpp implements ByteStream: whatever the stream and the    *)
(* delimiter, however the stream is cut into reads, whatever mix of read   *)
(* forms the coroutines use and whoever closes the socket meanwhile, each  *)
(* answer is the next bytes and as many as were asked for.                 *)
THEOREM Refinement == Spec => ImplementsByteStream
<1>1. Init => BS!Init
  BY ReadInit
<1>2. Inv /\ [Next]_vars => Serves
  BY ReadStep
<1> QED
  BY <1>1, <1>2, InvHolds, PTL DEF Spec, ImplementsByteStream, BS!Spec, Serves, asked
=============================================================================

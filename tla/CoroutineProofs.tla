--------------------------- MODULE CoroutineProofs ---------------------------
(***************************************************************************)
(* Proofs about Coroutine: type correctness, the four safety invariants    *)
(* and the action property that MCCoroutine checks, for any number of      *)
(* coroutines, operations and nested generators.                           *)
(*                                                                         *)
(* The inductive invariant has a part for the C++ call stack, one for the  *)
(* operations, and four for each coroutine: its life, its generators, the  *)
(* operation it waits for, and how it ends.                                *)
(***************************************************************************)
EXTENDS Coroutine, TLAPS

(* The call stack: no coroutine is on it twice; those below the top are in *)
(* PHP code with nothing to yield; the generator on top of a coroutine's   *)
(* own stack tells in which of run() and PHP code it is; and the pending   *)
(* exception is of the coroutine on top, or has crossed.                   *)
Stacked ==
  /\ \A i, j \in 1 .. Len(ctl) : ctl[i].co = ctl[j].co => i = j
  /\ \A i \in 1 .. Len(ctl) : i # Len(ctl) => ctl[i].at = "user" /\ status[ctl[i].co] = 0
  /\ \A i \in 1 .. Len(ctl) :
       (ctl[i].at = "user") <=> (Top(ctl[i].co) \in {"run", "plain"})

PendingOnTop ==
  /\ (ctl # << >> /\ exc # NoCo /\ Last(ctl).co # exc)
       => Last(ctl).co \in crossed /\ exc \in crossed
  /\ (ctl # << >> /\ exc # NoCo /\ Last(ctl).at = "run" /\ Last(ctl).co \notin crossed)
       => Top(Last(ctl).co) \in {"end", "thrown"}

StackInv == Stacked /\ PendingOnTop

(* The operations: only a coroutine that has been entered starts one, and  *)
(* the one it last asked for is its own.                                   *)
OpsInv ==
  /\ \A o \in 1 .. Len(owner) : gen[owner[o]] # << >>
  /\ \A c \in Cos : wait[c] \in 0 .. Len(owner) /\ (wait[c] # 0 => owner[wait[c]] = c)

(* The life of a coroutine, its status_ and the use of its timer_.         *)
LifeOf(c) ==
  /\ life[c] = "unborn" => status[c] = 0 /\ gen[c] = << >> /\ timer[c] = "idle"
  /\ life[c] = "freed" => status[c] = -1 /\ timer[c] = "idle"
  /\ timer[c] = "start" => life[c] = "alive" /\ status[c] = 0 /\ gen[c] = << >>
  /\ timer[c] = "resume" => life[c] = "alive" /\ status[c] # -1 /\ Len(gen[c]) >= 2
  /\ timer[c] = "closing" => life[c] = "alive" /\ status[c] = -1
  /\ after[c] => life[c] = "freed"
  /\ c \in Running => /\ life[c] = "alive" /\ status[c] # -1 /\ gen[c] # << >>
                      /\ timer[c] \in {"idle", "resume"}

(* Its generators: all but the top one are suspended at the yield of the   *)
(* one above; a coroutine that is not on the call stack is not in PHP      *)
(* code, and only the exception of another can leave it before an end or a *)
(* yield.                                                                  *)
GenOf(c) ==
  /\ \A i \in 1 .. Len(gen[c]) : i # Len(gen[c]) => gen[c][i] = "gen"
  /\ (gen[c] # << >> /\ Top(c) = "gen") => Len(gen[c]) < MaxDepth
  /\ (gen[c] # << >> /\ c \notin Running)
       => /\ Top(c) \notin {"run", "plain"}
          /\ c \notin crossed => Top(c) \in {"ptr", "gen", "end", "thrown"}

(* The coroutines whose count of operations went wrong: they forgot a      *)
(* yield and have been told of it, or the logger resumes them.             *)
Spoilt == (forgot \cap told) \cup logged

(* The operation a coroutine waits for: there is at most one, the one it   *)
(* last asked for, and status_ counts it until it is yielded.              *)
WakeOf(c) ==
  c \notin Spoilt =>
    /\ \A o \in 1 .. Len(owner) :
         (owner[o] = c /\ o \notin done) =>
           /\ life[c] = "alive" /\ timer[c] = "idle" /\ wait[c] = o
           /\ \/ status[c] = 0 /\ Top(c) = "ptr" /\ c \notin Running
              \/ status[c] = 1 /\ c \in Running
    /\ status[c] = 1 =>
         /\ c \in Running
         /\ c \notin forgot =>
              Last(ctl).at = "user" \/ (Top(c) = "ptr" /\ exc = NoCo)
    /\ stack[c] # 0 => stack[c] = 1 /\ wait[c] # 0 /\ wait[c] \notin done
    /\ c \in Running => timer[c] = "idle"

(* Its end, as long as no exception of another touches it: an uncaught     *)
(* exception stays pending until the coroutine is closed.                  *)
EndOf(c) ==
  c \notin crossed =>
    /\ status[c] = -1 => Len(gen[c]) = 1 /\ Top(c) \in {"end", "thrown"}
    /\ (gen[c] # << >> /\ Top(c) = "thrown" /\ life[c] = "alive") => exc = c
    /\ (gen[c] # << >> /\ exc = c /\ c \notin Running) => Top(c) \in {"end", "thrown"}
    /\ after[c] => Top(c) = "end"
    /\ (life[c] = "freed" /\ Top(c) = "end") => after[c] \/ stopped

Coro(c) == LifeOf(c) /\ GenOf(c) /\ WakeOf(c) /\ EndOf(c)
Inv == TypeOK /\ StackInv /\ OpsInv /\ \A c \in Cos : Coro(c)

-----------------------------------------------------------------------------
(* Sequences.                                                              *)

LEMMA FrontFacts ==
  ASSUME NEW S, NEW s \in Seq(S), s # << >>
  PROVE  /\ Len(s) \in Nat /\ Len(s) >= 1
         /\ Front(s) \in Seq(S) /\ Len(Front(s)) = Len(s) - 1
         /\ \A i \in 1 .. Len(s) : i # Len(s) => Front(s)[i] = s[i]
<1>1. Len(s) \in Nat /\ Len(s) >= 1
  OBVIOUS
<1>2. Front(s) = SubSeq(s, 1, Len(s) - 1)
  BY DEF Front
<1>3. \A i \in 1 .. Len(s) - 1 : s[i] \in S
  BY <1>1
<1>4. SubSeq(s, 1, Len(s) - 1) \in Seq(S)
  BY <1>1, <1>3
<1>5. Len(SubSeq(s, 1, Len(s) - 1)) = Len(s) - 1
  BY <1>1, SMTT(30)
<1>6. \A i \in 1 .. Len(s) - 1 : SubSeq(s, 1, Len(s) - 1)[i] = s[i]
  BY <1>1
<1> QED
  BY <1>1, <1>2, <1>4, <1>5, <1>6

LEMMA TwoOrMore ==
  ASSUME NEW S, NEW s \in Seq(S), s # << >>, Len(s) # 1
  PROVE  Len(s) >= 2
<1>1. Len(s) \in Nat /\ Len(s) >= 1
  OBVIOUS
<1>2. \A n \in Nat : n >= 1 /\ n # 1 => n >= 2
  OBVIOUS
<1> QED
  BY <1>1, <1>2

LEMMA AppendFacts ==
  ASSUME NEW S, NEW s \in Seq(S), NEW x \in S
  PROVE  /\ Len(s) \in Nat
         /\ Append(s, x) \in Seq(S) /\ Append(s, x) # << >>
         /\ Len(Append(s, x)) = Len(s) + 1 /\ Last(Append(s, x)) = x
         /\ \A i \in 1 .. Len(s) : Append(s, x)[i] = s[i]
BY DEF Last

LEMMA ReplaceTopFacts ==
  ASSUME NEW S, NEW s \in Seq(S), s # << >>, NEW x \in S
  PROVE  LET t == Append(Front(s), x) IN
         /\ Len(s) \in Nat /\ Len(s) >= 1
         /\ t \in Seq(S) /\ Len(t) = Len(s) /\ t # << >> /\ Last(t) = x
         /\ \A i \in 1 .. Len(s) : i # Len(s) => t[i] = s[i]
<1> DEFINE f == Front(s)
<1>1. /\ f \in Seq(S) /\ Len(f) = Len(s) - 1 /\ Len(s) \in Nat /\ Len(s) >= 1
      /\ \A i \in 1 .. Len(s) : i # Len(s) => f[i] = s[i]
  BY FrontFacts
<1> HIDE DEF f
<1> DEFINE t == Append(f, x)
<1>3. t \in Seq(S) /\ Len(t) = Len(s) /\ t[Len(t)] = x
  BY <1>1
<1>4. \A i \in 1 .. Len(s) : i # Len(s) => t[i] = s[i]
  BY <1>1
<1>5. t # << >>
  BY <1>1, <1>3
<1> QED
  BY <1>1, <1>3, <1>4, <1>5 DEF Last, f

LEMMA UnqueuedType ==
  ASSUME timerq \in Seq(Cos), NEW c \in Cos
  PROVE  Unqueued(c) \in Seq(Cos)
<1>1. ASSUME NEW i \in 1 .. Len(timerq)
      PROVE  RemoveAt(timerq, i) \in Seq(Cos)
  BY DEF RemoveAt
<1>2. CASE \E i \in 1 .. Len(timerq) : timerq[i] = c
  <2>1. PICK i \in 1 .. Len(timerq) : timerq[i] = c
    BY <1>2
  <2>2. (CHOOSE j \in 1 .. Len(timerq) : timerq[j] = c) \in 1 .. Len(timerq)
    BY <2>1
  <2> QED
    BY <1>1, <1>2, <2>2 DEF Unqueued
<1>3. CASE ~ \E i \in 1 .. Len(timerq) : timerq[i] = c
  BY <1>3 DEF Unqueued
<1> QED
  BY <1>2, <1>3

-----------------------------------------------------------------------------
(* The call stack and the generators: what the helpers of the model do.    *)

Calls == [co : Cos, at : {"user", "run"}]

\* c is on top of the call stack
OnTop(c) == ctl # << >> /\ Last(ctl).co = c

\* the calls below the top are what they were
SameBelow(n) == \A i \in 1 .. n : ctl'[i] = ctl[i]

LEMMA LastCall ==
  ASSUME ctl \in Seq(Calls), ctl # << >>
  PROVE  /\ Len(ctl) \in Nat /\ Len(ctl) >= 1 /\ Len(ctl) \in 1 .. Len(ctl)
         /\ Last(ctl) = ctl[Len(ctl)] /\ Last(ctl) \in Calls
         /\ Last(ctl).co \in Cos /\ Last(ctl).at \in {"user", "run"}
         /\ Last(ctl).co \in Running
<1>1. Len(ctl) \in Nat /\ Len(ctl) >= 1 /\ Len(ctl) \in 1 .. Len(ctl)
  OBVIOUS
<1>2. ctl[Len(ctl)] \in Calls
  BY <1>1
<1>3. ctl[Len(ctl)].co \in Cos /\ ctl[Len(ctl)].at \in {"user", "run"}
  BY <1>2 DEF Calls
<1> QED
  BY <1>1, <1>2, <1>3 DEF Last, Running

LEMMA InFacts ==
  ASSUME ctl \in Seq(Calls), NEW c \in Cos, NEW place \in {"user", "run"}, In(c, place)
  PROVE  ctl # << >> /\ Last(ctl).co = c /\ Last(ctl).at = place /\ OnTop(c) /\ c \in Running
<1>1. ctl # << >> /\ Last(ctl) = [co |-> c, at |-> place]
  BY DEF In
<1>2. Last(ctl).co = c /\ Last(ctl).at = place
  BY <1>1
<1> QED
  BY <1>1, <1>2, LastCall DEF OnTop

LEMMA EnterFacts ==
  ASSUME ctl \in Seq(Calls), NEW c \in Cos, NEW place \in {"user", "run"}, Enter(c, place)
  PROVE  /\ ctl' \in Seq(Calls) /\ ctl' # << >> /\ Len(ctl') = Len(ctl) + 1
         /\ Last(ctl').co = c /\ Last(ctl').at = place
         /\ SameBelow(Len(ctl))
         /\ Running' = Running \cup {c}
<1> DEFINE call == [co |-> c, at |-> place]
<1>1. call \in Calls /\ call.co = c /\ call.at = place
  BY DEF Calls
<1>2. ctl' = Append(ctl, call)
  BY DEF Enter
<1> HIDE DEF call
<1>3. /\ ctl' \in Seq(Calls) /\ ctl' # << >> /\ Len(ctl') = Len(ctl) + 1
      /\ Last(ctl') = call /\ \A i \in 1 .. Len(ctl) : ctl'[i] = ctl[i]
  BY <1>1, <1>2, AppendFacts
<1>4. ctl'[Len(ctl) + 1] = call /\ Len(ctl) \in Nat
  BY <1>3 DEF Last
<1>5. Running' = Running \cup {c}
  BY <1>1, <1>3, <1>4 DEF Running
<1> QED
  BY <1>1, <1>3, <1>5 DEF SameBelow

LEMMA GotoFacts ==
  ASSUME ctl \in Seq(Calls), ctl # << >>, NEW place \in {"user", "run"}, Goto(place)
  PROVE  /\ ctl' \in Seq(Calls) /\ ctl' # << >> /\ Len(ctl') = Len(ctl)
         /\ Last(ctl').co = Last(ctl).co /\ Last(ctl').at = place
         /\ SameBelow(Len(ctl) - 1)
         /\ Running' = Running
<1>1. Len(ctl) \in Nat /\ Len(ctl) >= 1 /\ Len(ctl) \in 1 .. Len(ctl) /\ ctl[Len(ctl)] \in Calls
  BY LastCall
<1>2. [ctl[Len(ctl)] EXCEPT !.at = place] \in Calls
  BY <1>1 DEF Calls
<1>3. ctl' = [ctl EXCEPT ![Len(ctl)] = [ctl[Len(ctl)] EXCEPT !.at = place]]
  BY DEF Goto
<1>4. ctl' \in Seq(Calls) /\ Len(ctl') = Len(ctl) /\ ctl' # << >>
  BY <1>1, <1>2, <1>3
<1>5. \A i \in 1 .. Len(ctl) : i # Len(ctl) => ctl'[i] = ctl[i]
  BY <1>1, <1>3
<1>6. ctl'[Len(ctl)] = [ctl[Len(ctl)] EXCEPT !.at = place]
  BY <1>1, <1>3
<1>7. ctl'[Len(ctl)].at = place /\ ctl'[Len(ctl)].co = ctl[Len(ctl)].co
  BY <1>1, <1>6 DEF Calls
<1>8. Running' = Running
  BY <1>1, <1>4, <1>5, <1>7 DEF Running
<1> QED
  BY <1>1, <1>4, <1>5, <1>7, <1>8 DEF Last, SameBelow

LEMMA LeaveFacts ==
  ASSUME ctl \in Seq(Calls), ctl # << >>,
         \A i, j \in 1 .. Len(ctl) : ctl[i].co = ctl[j].co => i = j,
         ctl' = Front(ctl)
  PROVE  /\ ctl' \in Seq(Calls) /\ Len(ctl') = Len(ctl) - 1
         /\ SameBelow(Len(ctl) - 1)
         /\ Running' = Running \ {Last(ctl).co}
<1>1. Len(ctl) \in Nat /\ Len(ctl) >= 1 /\ Len(ctl) \in 1 .. Len(ctl)
  BY LastCall
<1>2. /\ ctl' \in Seq(Calls) /\ Len(ctl') = Len(ctl) - 1
      /\ \A i \in 1 .. Len(ctl) : i # Len(ctl) => ctl'[i] = ctl[i]
  BY FrontFacts
<1>3. Running' = {ctl[i].co : i \in 1 .. Len(ctl) - 1}
  BY <1>1, <1>2 DEF Running
<1>4. \A i \in 1 .. Len(ctl) : i \in 1 .. Len(ctl) - 1 <=> ctl[i].co # ctl[Len(ctl)].co
  BY <1>1
<1>5. \A i \in 1 .. Len(ctl) - 1 : i \in 1 .. Len(ctl)
  BY <1>1
<1>6. Running' = Running \ {ctl[Len(ctl)].co}
  BY <1>3, <1>4, <1>5, ZenonT(30) DEF Running
<1> QED
  BY <1>1, <1>2, <1>6 DEF SameBelow, Last

LEMMA SetTopFacts ==
  ASSUME gen \in [Cos -> Seq(Frames)], NEW c \in Cos, gen[c] # << >>, NEW f \in Frames,
         SetTop(c, f)
  PROVE  /\ gen' \in [Cos -> Seq(Frames)] /\ gen'[c] # << >> /\ Top(c)' = f
         /\ Len(gen'[c]) = Len(gen[c])
         /\ \A i \in 1 .. Len(gen'[c]) : i # Len(gen'[c]) => gen'[c][i] = gen[c][i]
         /\ \A d \in Cos : d # c => gen'[d] = gen[d]
<1>1. gen[c] \in Seq(Frames) /\ gen'[c] = Append(Front(gen[c]), f)
  BY DEF SetTop
<1>2. /\ gen'[c] \in Seq(Frames) /\ Len(gen'[c]) = Len(gen[c]) /\ gen'[c] # << >>
      /\ Last(gen'[c]) = f
      /\ \A i \in 1 .. Len(gen[c]) : i # Len(gen[c]) => gen'[c][i] = gen[c][i]
  <2> DEFINE s == gen[c]  t == gen'[c]
  <2>1. s \in Seq(Frames) /\ s # << >> /\ t = Append(Front(s), f)
    BY <1>1
  <2> HIDE DEF s, t
  <2>2. /\ t \in Seq(Frames) /\ Len(t) = Len(s) /\ t # << >> /\ Last(t) = f
        /\ \A i \in 1 .. Len(s) : i # Len(s) => t[i] = s[i]
    BY <2>1, ReplaceTopFacts
  <2> QED
    BY <2>2 DEF s, t
<1>3. gen' = [gen EXCEPT ![c] = gen'[c]]
  BY <1>1 DEF SetTop
<1> QED
  BY <1>2, <1>3 DEF Top

-----------------------------------------------------------------------------
(* Type correctness, a group of variables at a time.                       *)

TypeLife   == /\ life \in [Cos -> {"unborn", "alive", "freed"}]
              /\ timer \in [Cos -> {"idle", "start", "resume", "closing"}]
              /\ timerq \in Seq(Cos)
TypeStatus == status \in [Cos -> -1 .. 1] /\ stack \in [Cos -> Nat] /\ after \in [Cos -> BOOLEAN]
TypeGen    == gen \in [Cos -> Seq(Frames)] /\ \A c \in Cos : Len(gen[c]) <= MaxDepth
TypeCtl    == /\ exc \in Cos \cup {NoCo}
              /\ ctl \in Seq([co : Cos, at : {"user", "run"}])
              /\ phase \in {"script", "timers", "poll", "closing"} \cup Over
              /\ stopped \in BOOLEAN
TypeOps    == /\ owner \in Seq(Cos) /\ Len(owner) <= MaxOps /\ done \subseteq 1 .. Len(owner)
              /\ wait \in [Cos -> 0 .. MaxOps]
TypeGhosts == /\ told \subseteq Cos /\ forgot \subseteq Cos /\ logged \subseteq Cos
              /\ crossed \subseteq Cos
TypeSteps  == steps \in 0 .. MaxSteps

LEMMA Types ==
  TypeOK <=> /\ TypeLife /\ TypeStatus /\ TypeGen /\ TypeCtl /\ TypeOps /\ TypeGhosts /\ TypeSteps
BY DEF TypeOK, TypeLife, TypeStatus, TypeGen, TypeCtl, TypeOps, TypeGhosts, TypeSteps

LEMMA SetTopType ==
  ASSUME TypeGen, NEW c \in Cos, gen[c] # << >>, NEW f \in Frames, SetTop(c, f)
  PROVE  TypeGen'
BY SetTopFacts DEF TypeGen

LEMMA AsksType ==
  ASSUME TypeOps, BoundsAssumption, NEW c \in Cos, Len(owner) < MaxOps,
         owner' = Append(owner, c), wait' = [wait EXCEPT ![c] = Len(owner) + 1], done' = done
  PROVE  TypeOps'
<1>1. Len(owner) \in Nat /\ owner' \in Seq(Cos) /\ Len(owner') = Len(owner) + 1
  BY AppendFacts DEF TypeOps
<1>2. Len(owner) + 1 \in 0 .. MaxOps
  BY <1>1 DEF BoundsAssumption
<1> QED
  BY <1>1, <1>2 DEF TypeOps, BoundsAssumption

LEMMA LeaveType ==
  ASSUME TypeCtl, TypeGhosts, Stacked, ctl # << >>, Leave
  PROVE  ctl' \in Seq(Calls) /\ crossed' \subseteq Cos
<1>1. ctl \in Seq(Calls) /\ exc \in Cos \cup {NoCo} /\ crossed \subseteq Cos
  BY DEF TypeCtl, TypeGhosts, Calls
<1>2. ctl' \in Seq(Calls)
  BY <1>1, LeaveFacts DEF Leave, Stacked
<1>3. Len(ctl) > 1 => ctl[Len(ctl) - 1] \in Calls
  BY <1>1
<1>4. Len(ctl) > 1 => ctl[Len(ctl) - 1].co \in Cos
  BY <1>3 DEF Calls
<1> QED
  BY <1>1, <1>2, <1>4 DEF Leave

LEMMA SpendType ==
  ASSUME TypeSteps, BoundsAssumption, Spend
  PROVE  TypeSteps'
BY DEF TypeSteps, BoundsAssumption, Spend

LEMMA UndisciplinedType ==
  ASSUME TypeGhosts, NEW c \in Cos, Undisciplined(c)
  PROVE  forgot' \subseteq Cos
BY DEF TypeGhosts, Undisciplined

LEMMA GoType ==
  ASSUME TypeLife, NEW d \in Cos, Go(d)
  PROVE  TypeLife'
<1>1. timerq' \in Seq(Cos)
  BY AppendFacts DEF TypeLife, Go
<1> QED
  BY <1>1 DEF TypeLife, Go

LEMMA CloseType ==
  ASSUME TypeOK, Stacked, NEW c \in Cos, ctl # << >>, NEW st, Close(c, st),
         UNCHANGED <<life, stack, after>>
  PROVE  TypeLife' /\ TypeStatus' /\ TypeCtl' /\ told' \subseteq Cos /\ crossed' \subseteq Cos
<1> TypeLife /\ TypeStatus /\ TypeCtl /\ TypeGhosts
  BY Types
<1>1. told' \subseteq Cos
  BY DEF Close, TypeGhosts
<1>2. CASE /\ phase' = "fatal"
           /\ UNCHANGED <<ctl, exc, stopped, status, timer, timerq, crossed>>
  BY <1>1, <1>2 DEF TypeLife, TypeStatus, TypeCtl, TypeGhosts, Over
<1>3. CASE /\ Leave
           /\ timerq' = IF Len(gen[c]) = 1 THEN Unqueued(c) ELSE Append(Unqueued(c), c)
           /\ status' = [status EXCEPT ![c] = IF Len(gen[c]) = 1 THEN -1 ELSE 0]
           /\ timer' = [timer EXCEPT ![c] = IF Len(gen[c]) = 1 THEN "closing" ELSE "resume"]
           /\ UNCHANGED <<phase, exc, stopped>>
  <2>1. ctl' \in Seq(Calls) /\ crossed' \subseteq Cos
    BY <1>3, LeaveType
  <2>2. Unqueued(c) \in Seq(Cos)
    BY UnqueuedType DEF TypeLife
  <2>3. Append(Unqueued(c), c) \in Seq(Cos)
    BY <2>2
  <2>4. timerq' \in Seq(Cos)
    BY <1>3, <2>2, <2>3
  <2>5. TypeLife'
    BY <1>3, <2>4 DEF TypeLife
  <2>6. TypeStatus'
    BY <1>3 DEF TypeStatus
  <2>7. TypeCtl'
    BY <1>3, <2>1 DEF TypeCtl, Calls
  <2> QED
    BY <1>1, <2>1, <2>5, <2>6, <2>7
<1> QED
  BY <1>2, <1>3 DEF Close

LEMMA DeliverType ==
  ASSUME TypeOK, BoundsAssumption, NEW c \in Cos, NEW g \in Seq(Frames), g # << >>,
         Len(g) <= MaxDepth, NEW e \in Cos \cup {NoCo}, Deliver(c, g, e),
         UNCHANGED <<phase, stopped, status, after>>,
         done' \subseteq 1 .. Len(owner)
  PROVE  TypeGen' /\ TypeCtl' /\ TypeOps' /\ TypeStatus' /\ crossed' \subseteq Cos
<1> TypeGen /\ TypeCtl /\ TypeOps /\ TypeStatus /\ TypeGhosts
  BY Types
<1> ctl \in Seq(Calls)
  BY DEF TypeCtl, Calls
<1>1. CASE /\ e = NoCo /\ stack[c] > 0 /\ Len(owner) < MaxOps
           /\ stack' = [stack EXCEPT ![c] = @ - 1]
           /\ owner' = Append(owner, c)
           /\ wait' = [wait EXCEPT ![c] = Len(owner) + 1]
           /\ gen' = [gen EXCEPT ![c] = g]
           /\ UNCHANGED <<exc, ctl, crossed>>
  <2>1. TypeGen'
    BY <1>1 DEF TypeGen
  <2>2. TypeCtl' /\ crossed' \subseteq Cos
    BY <1>1 DEF TypeCtl, TypeGhosts
  <2>3. TypeStatus'
    BY <1>1 DEF TypeStatus
  <2>4. Len(owner) \in Nat /\ owner' \in Seq(Cos) /\ Len(owner') = Len(owner) + 1
    BY <1>1, AppendFacts DEF TypeOps
  <2>5. Len(owner) + 1 \in 0 .. MaxOps
    BY <1>1, <2>4 DEF BoundsAssumption
  <2>6. TypeOps'
    BY <1>1, <2>4, <2>5 DEF TypeOps, BoundsAssumption
  <2> QED
    BY <2>1, <2>2, <2>3, <2>6
<1>2. CASE /\ stack' = [stack EXCEPT ![c] = IF e = NoCo /\ @ > 0 THEN @ - 1 ELSE 0]
           /\ Resume(c, g, e)
           /\ UNCHANGED <<owner, wait>>
  <2>1. TypeStatus' /\ TypeOps'
    BY <1>2 DEF TypeStatus, TypeOps
  <2>2. exc' \in Cos \cup {NoCo} /\ crossed' \subseteq Cos
    BY <1>2 DEF Resume, TypeCtl, TypeGhosts
  <2>3. ctl' \in Seq(Calls)
    BY <1>2, EnterFacts DEF Resume
  <2>4. LET h == Append(Front(g), "run") IN
        h \in Seq(Frames) /\ Len(h) = Len(g)
    BY ReplaceTopFacts DEF Frames
  <2>5. TypeGen'
    BY <1>2, <2>4 DEF Resume, TypeGen
  <2> QED
    BY <2>1, <2>2, <2>3, <2>5 DEF TypeCtl, Calls
<1> QED
  BY <1>1, <1>2 DEF Deliver

(* The coroutine that runs has a generator.                                *)
LEMMA RunningFacts ==
  ASSUME Inv, NEW c \in Cos, NEW place \in {"user", "run"}, In(c, place)
  PROVE  /\ gen[c] # << >> /\ ctl # << >> /\ c \in Running
         /\ Last(ctl).co = c /\ Last(ctl).at = place
         /\ life[c] = "alive" /\ status[c] \in {0, 1} /\ timer[c] \in {"idle", "resume"}
<1>1. ctl \in Seq(Calls) /\ status[c] \in -1 .. 1
  BY Types DEF Inv, TypeCtl, TypeStatus, Calls
<1>2. ctl # << >> /\ c \in Running /\ Last(ctl).co = c /\ Last(ctl).at = place
  BY <1>1, InFacts
<1>3. gen[c] # << >> /\ life[c] = "alive" /\ status[c] # -1 /\ timer[c] \in {"idle", "resume"}
  BY <1>2 DEF Inv, Coro, LifeOf
<1> QED
  BY <1>1, <1>2, <1>3

LEMMA UserType ==
  ASSUME Inv, BoundsAssumption, NEW c \in Cos,
         \/ CallAsync(c) \/ CallAsyncRefused(c) \/ CallLogs(c) \/ CallGo(c)
         \/ YieldPointer(c) \/ YieldGenerator(c) \/ YieldValue(c)
         \/ Return(c) \/ Throw(c) \/ Catch(c)
  PROVE  TypeOK'
<1> TypeOK /\ TypeLife /\ TypeStatus /\ TypeGen /\ TypeCtl /\ TypeOps /\ TypeGhosts /\ TypeSteps
  BY Types DEF Inv, StackInv
<1> In(c, "user")
  BY DEF CallAsync, CallAsyncRefused, CallLogs, CallGo, YieldPointer, YieldGenerator,
         YieldValue, Yield, Return, Throw, Catch, User
<1> gen[c] # << >> /\ ctl # << >> /\ ctl \in Seq(Calls)
  BY RunningFacts DEF TypeCtl, Calls
<1> SUFFICES TypeLife' /\ TypeStatus' /\ TypeGen' /\ TypeCtl' /\ TypeOps' /\ TypeGhosts' /\ TypeSteps'
  BY Types, PTL
<1>1. ASSUME UNCHANGED <<life, timer, timerq>> PROVE TypeLife'
  BY <1>1 DEF TypeLife
<1>2. ASSUME UNCHANGED <<status, stack, after>> PROVE TypeStatus'
  BY <1>2 DEF TypeStatus
<1>3. ASSUME UNCHANGED gen PROVE TypeGen'
  BY <1>3 DEF TypeGen
<1>4. ASSUME UNCHANGED <<exc, ctl, phase, stopped>> PROVE TypeCtl'
  BY <1>4 DEF TypeCtl
<1>5. ASSUME UNCHANGED <<owner, done, wait>> PROVE TypeOps'
  BY <1>5 DEF TypeOps
<1>6. ASSUME UNCHANGED steps PROVE TypeSteps'
  BY <1>6 DEF TypeSteps
<1>7. ASSUME Goto("run"), exc' \in Cos \cup {NoCo}, UNCHANGED <<phase, stopped>>
      PROVE  TypeCtl'
  BY <1>7, GotoFacts DEF TypeCtl, Calls
<1>8. ASSUME NEW f \in Frames, Yield(c, f)
      PROVE  TypeLife' /\ TypeStatus' /\ TypeGen' /\ TypeCtl' /\ TypeOps'
  BY <1>1, <1>2, <1>5, <1>7, <1>8, SetTopType DEF Yield, ops, TypeCtl
<1>10. CASE CallAsync(c)
  <2>1. TypeLife' /\ TypeGen' /\ TypeCtl' /\ TypeGhosts'
    BY <1>1, <1>3, <1>4, <1>10 DEF CallAsync, control, ghosts, TypeGhosts
  <2>2. stack' \in [Cos -> Nat]
    BY <1>10 DEF CallAsync, TypeStatus
  <2>3. TypeStatus'
    BY <1>10, <2>2 DEF CallAsync, TypeStatus
  <2>4. TypeOps' /\ TypeSteps'
    BY <1>10, AsksType, SpendType DEF CallAsync
  <2> QED
    BY <2>1, <2>3, <2>4
<1>11. CASE CallAsyncRefused(c)
  <2>1. TypeLife' /\ TypeStatus' /\ TypeGen'
    BY <1>1, <1>2, <1>3, <1>11 DEF CallAsyncRefused, coro
  <2>2. TypeCtl'
    BY <1>11 DEF CallAsyncRefused, TypeCtl
  <2>3. TypeGhosts' /\ TypeSteps'
    BY <1>11, UndisciplinedType, SpendType DEF CallAsyncRefused, TypeGhosts
  <2>4. owner' = owner \/ (owner' = Append(owner, c) /\ Len(owner) < MaxOps)
    <3>1. Len(owner) \in Nat /\ MaxOps \in Nat
      BY DEF TypeOps, BoundsAssumption
    <3> QED
      BY <1>11, <3>1 DEF CallAsyncRefused
  <2>5. CASE owner' = owner
    BY <1>5, <1>11, <2>1, <2>2, <2>3, <2>5 DEF CallAsyncRefused
  <2>6. CASE owner' = Append(owner, c) /\ Len(owner) < MaxOps
    <3>1. Len(owner) \in Nat /\ owner' \in Seq(Cos) /\ Len(owner') = Len(owner) + 1
      BY <2>6, AppendFacts DEF TypeOps
    <3>2. TypeOps'
      BY <1>11, <2>6, <3>1 DEF TypeOps, BoundsAssumption, CallAsyncRefused
    <3> QED
      BY <2>1, <2>2, <2>3, <3>2
  <2> QED
    BY <2>4, <2>5, <2>6
<1>12. CASE CallLogs(c)
  <2>1. TypeLife' /\ TypeStatus' /\ TypeGen' /\ TypeCtl' /\ TypeGhosts' /\ TypeSteps'
    BY <1>1, <1>2, <1>3, <1>4, <1>12, SpendType DEF CallLogs, coro, control, TypeGhosts
  <2>2. Len(owner) \in Nat /\ owner' \in Seq(Cos) /\ Len(owner') = Len(owner) + 1
    BY <1>12, AppendFacts DEF TypeOps, CallLogs
  <2>3. TypeOps'
    BY <1>12, <2>2 DEF TypeOps, BoundsAssumption, CallLogs
  <2> QED
    BY <2>1, <2>3
<1>13. CASE CallGo(c)
  <2>1. TypeLife'
    BY <1>13, GoType DEF CallGo
  <2>2. TypeStatus' /\ TypeGen' /\ TypeCtl' /\ TypeOps' /\ TypeSteps'
    BY <1>2, <1>3, <1>4, <1>5, <1>6, <1>13 DEF CallGo, control, ops
  <2> QED
    BY <1>13, <2>1, <2>2, UndisciplinedType DEF CallGo, TypeGhosts
<1>14. CASE YieldPointer(c)
  BY <1>6, <1>8, <1>14, SpendType DEF YieldPointer, Yield, Frames, TypeGhosts
<1>15. CASE YieldGenerator(c)
  BY <1>8, <1>15, SpendType, UndisciplinedType DEF YieldGenerator, Yield, Frames, TypeGhosts
<1>16. CASE YieldValue(c)
  BY <1>8, <1>16, SpendType, UndisciplinedType DEF YieldValue, Yield, Frames, TypeGhosts
<1>17. CASE Return(c)
  BY <1>1, <1>2, <1>5, <1>6, <1>7, <1>17, SetTopType, UndisciplinedType
     DEF Return, Frames, TypeGhosts, ops, TypeCtl
<1>18. CASE Throw(c)
  BY <1>1, <1>2, <1>5, <1>6, <1>7, <1>18, SetTopType, UndisciplinedType
     DEF Throw, Frames, TypeGhosts, ops, TypeCtl
<1>19. CASE Catch(c)
  <2>1. TypeLife' /\ TypeStatus' /\ TypeGen' /\ TypeOps' /\ TypeSteps' /\ TypeGhosts'
    BY <1>1, <1>2, <1>3, <1>5, <1>6, <1>19 DEF Catch, coro, ops, ghosts, TypeGhosts
  <2>2. TypeCtl'
    BY <1>19 DEF Catch, TypeCtl
  <2> QED
    BY <2>1, <2>2
<1> QED
  BY <1>10, <1>11, <1>12, <1>13, <1>14, <1>15, <1>16, <1>17, <1>18, <1>19

LEMMA RunType ==
  ASSUME Inv, BoundsAssumption, NEW c \in Cos,
         \/ RunFailed(c) \/ RunEnded(c) \/ RunOn(c) \/ RunNested(c) \/ RunPointer(c)
  PROVE  TypeOK'
<1> TypeOK /\ TypeLife /\ TypeStatus /\ TypeGen /\ TypeCtl /\ TypeOps /\ TypeGhosts /\ TypeSteps /\ Stacked
  BY Types DEF Inv, StackInv
<1> RunRest(c) /\ In(c, "run")
  BY DEF RunFailed, RunEnded, RunOn, RunNested, RunPointer, RunRest
<1> gen[c] # << >> /\ ctl # << >> /\ ctl \in Seq(Calls)
  BY RunningFacts DEF TypeCtl, Calls
<1> SUFFICES TypeLife' /\ TypeStatus' /\ TypeGen' /\ TypeCtl' /\ TypeOps' /\ TypeGhosts' /\ TypeSteps'
  BY Types, PTL
<1>1. TypeOps' /\ TypeSteps'
  BY DEF RunRest, ops, TypeOps, TypeSteps
<1>2. ASSUME UNCHANGED gen PROVE TypeGen'
  BY <1>2 DEF TypeGen
<1>3. ASSUME NEW st, Close(c, st), UNCHANGED gen
      PROVE  TypeLife' /\ TypeStatus' /\ TypeGen' /\ TypeCtl' /\ TypeGhosts'
  BY <1>2, <1>3, CloseType DEF RunRest, TypeGhosts
<1>4. ASSUME Goto("user"), exc' \in Cos \cup {NoCo}, UNCHANGED <<phase, stopped>>
      PROVE  TypeCtl'
  BY <1>4, GotoFacts DEF TypeCtl, Calls
<1>5. ASSUME UNCHANGED <<timer, timerq>> PROVE TypeLife'
  BY <1>5 DEF RunRest, TypeLife
<1>6. CASE RunFailed(c)
  BY <1>1, <1>3, <1>6 DEF RunFailed
<1>7. CASE RunEnded(c)
  BY <1>1, <1>3, <1>7 DEF RunEnded
<1>8. CASE RunOn(c)
  <2>1. TypeLife' /\ TypeGen' /\ TypeCtl'
    BY <1>4, <1>5, <1>8, SetTopType DEF RunOn, Frames, TypeCtl
  <2>2. TypeStatus' /\ TypeGhosts'
    BY <1>8 DEF RunOn, RunRest, TypeStatus, TypeGhosts
  <2> QED
    BY <1>1, <2>1, <2>2
<1>9. CASE RunNested(c)
  <2>1. gen[c] \in Seq(Frames) /\ "fresh" \in Frames /\ Len(gen[c]) < MaxDepth
    BY <1>9 DEF RunNested, TypeGen, Frames, Inv, Coro, GenOf
  <2> DEFINE g == Append(gen[c], "fresh")
  <2>2. g \in Seq(Frames) /\ Len(g) = Len(gen[c]) + 1
    BY <2>1, AppendFacts
  <2>3. Len(g) <= MaxDepth
    BY <2>1, <2>2, Len(gen[c]) \in Nat DEF BoundsAssumption
  <2>4. gen' = [gen EXCEPT ![c] = g]
    BY <1>9 DEF RunNested
  <2> HIDE DEF g
  <2>5. TypeGen'
    BY <2>2, <2>3, <2>4 DEF TypeGen
  <2>6. TypeLife' /\ TypeStatus' /\ TypeGhosts' /\ TypeCtl'
    BY <1>5, <1>9 DEF RunNested, RunRest, TypeStatus, TypeGhosts, TypeCtl, control
  <2> QED
    BY <1>1, <2>5, <2>6
<1>10. CASE RunPointer(c)
  <2>1. TypeLife' /\ TypeStatus'
    BY <1>5, <1>10 DEF RunPointer, RunRest, TypeStatus
  <2>2. CASE Leave /\ UNCHANGED <<gen, exc, told>>
    BY <1>1, <1>2, <1>10, <2>1, <2>2, LeaveType DEF RunPointer, RunRest, TypeCtl, TypeGhosts, Calls
  <2>3. CASE exc' = c /\ told' = told \cup {c} /\ SetTop(c, "run") /\ Goto("user") /\ UNCHANGED crossed
    BY <1>1, <1>4, <1>10, <2>1, <2>3, SetTopType DEF RunPointer, RunRest, Frames, TypeGhosts
  <2> QED
    BY <1>10, <2>2, <2>3 DEF RunPointer
<1> QED
  BY <1>6, <1>7, <1>8, <1>9, <1>10

(* next(), fail() and the timers.                                          *)
LEMMA WaitingFacts ==
  ASSUME Inv, BoundsAssumption, NEW c \in Cos, timer[c] = "resume"
  PROVE  /\ gen[c] \in Seq(Frames) /\ Len(gen[c]) >= 2 /\ gen[c] # << >>
         /\ Front(gen[c]) \in Seq(Frames) /\ Front(gen[c]) # << >>
         /\ Len(Front(gen[c])) = Len(gen[c]) - 1 /\ Len(Front(gen[c])) < MaxDepth
         /\ Last(Front(gen[c])) = "gen"
         /\ \A i \in 1 .. Len(Front(gen[c])) : Front(gen[c])[i] = "gen"
<1> DEFINE g == gen[c]  f == Front(gen[c])
<1>1. g \in Seq(Frames) /\ Len(g) <= MaxDepth /\ MaxDepth \in Nat
  BY Types DEF Inv, TypeGen, BoundsAssumption
<1>2. Len(g) >= 2 /\ \A i \in 1 .. Len(g) : i # Len(g) => g[i] = "gen"
  BY DEF Inv, Coro, LifeOf, GenOf
<1>3. g # << >>
  BY <1>1, <1>2
<1>4. /\ Len(g) \in Nat /\ f \in Seq(Frames) /\ Len(f) = Len(g) - 1
      /\ \A i \in 1 .. Len(g) : i # Len(g) => f[i] = g[i]
  BY <1>1, <1>3, FrontFacts
<1> HIDE DEF g, f
<1>5. \A i \in 1 .. Len(f) : i \in 1 .. Len(g) /\ i # Len(g)
  BY <1>4
<1>6. \A i \in 1 .. Len(f) : f[i] = "gen"
  BY <1>2, <1>4, <1>5
<1>7. f # << >> /\ Len(f) \in 1 .. Len(f) /\ Len(f) < MaxDepth
  BY <1>1, <1>2, <1>4
<1>8. Last(f) = "gen"
  BY <1>6, <1>7 DEF Last
<1> QED
  BY <1>1, <1>2, <1>3, <1>4, <1>6, <1>7, <1>8 DEF g, f

LEMMA LoopType ==
  ASSUME Inv, BoundsAssumption, CosAssumption,
         \/ \E c \in Cos : StartCb(c) \/ ResumeCb(c) \/ CloseCb(c)
         \/ \E o \in 1 .. MaxOps : Complete(o)
         \/ ScriptGo \/ LoopPhase \/ Gone
  PROVE  TypeOK'
<1> TypeOK /\ TypeLife /\ TypeStatus /\ TypeGen /\ TypeCtl /\ TypeOps /\ TypeGhosts /\ TypeSteps
  BY Types DEF Inv, StackInv
<1> ctl \in Seq(Calls)
  BY DEF TypeCtl, Calls
<1> SUFFICES TypeLife' /\ TypeStatus' /\ TypeGen' /\ TypeCtl' /\ TypeOps' /\ TypeGhosts' /\ TypeSteps'
  BY Types, PTL
<1>1. ASSUME NEW c \in Cos, StartCb(c)
      PROVE  TypeLife' /\ TypeStatus' /\ TypeGen' /\ TypeCtl' /\ TypeOps' /\ TypeGhosts' /\ TypeSteps'
  <2>1. timerq \in Seq(Cos) /\ timerq # << >>
    BY <1>1 DEF TypeLife, StartCb, Due
  <2>2. Tail(timerq) \in Seq(Cos)
    BY <2>1
  <2>3. TypeLife' /\ TypeStatus' /\ TypeOps' /\ TypeSteps'
    BY <1>1, <2>2 DEF StartCb, TypeLife, TypeStatus, TypeOps, TypeSteps, ops
  <2>4. crossed' \subseteq Cos
    BY <1>1 DEF StartCb, TypeGhosts, TypeCtl
  <2>5. TypeGhosts'
    BY <1>1, <2>4 DEF StartCb, TypeGhosts
  <2>6. <<"fresh">> \in Seq(Frames) /\ <<"plain">> \in Seq(Frames) /\ Len(<<"fresh">>) = 1
        /\ Len(<<"plain">>) = 1
    BY DEF Frames
  <2>7. \/ UNCHANGED <<gen, ctl>>
        \/ gen' = [gen EXCEPT ![c] = <<"fresh">>] /\ Enter(c, "run")
        \/ gen' = [gen EXCEPT ![c] = <<"plain">>] /\ Enter(c, "user")
    BY <1>1 DEF StartCb
  <2>8. TypeGen'
    <3>1. CASE UNCHANGED gen
      BY <3>1 DEF TypeGen
    <3>2. ASSUME NEW g \in Seq(Frames), Len(g) = 1, gen' = [gen EXCEPT ![c] = g]
          PROVE  TypeGen'
      <4>1. Len(g) <= MaxDepth
        BY <3>2 DEF BoundsAssumption
      <4>2. \A d \in Cos : gen'[d] \in Seq(Frames) /\ Len(gen'[d]) <= MaxDepth
        BY <3>2, <4>1 DEF TypeGen
      <4>3. gen' \in [Cos -> Seq(Frames)]
        BY <3>2 DEF TypeGen
      <4> QED
        BY <4>2, <4>3 DEF TypeGen
    <3> QED
      BY <2>6, <2>7, <3>1, <3>2
  <2>9. ctl' \in Seq(Calls)
    BY <2>7, EnterFacts
  <2>10. TypeCtl'
    BY <1>1, <2>9 DEF StartCb, TypeCtl, Calls
  <2> QED
    BY <2>3, <2>5, <2>8, <2>10
<1>2. ASSUME NEW c \in Cos, ResumeCb(c)
      PROVE  TypeLife' /\ TypeStatus' /\ TypeGen' /\ TypeCtl' /\ TypeOps' /\ TypeGhosts' /\ TypeSteps'
  <2>1. timerq \in Seq(Cos) /\ timerq # << >> /\ timer[c] = "resume"
    BY <1>2 DEF TypeLife, ResumeCb, Due
  <2>2. Tail(timerq) \in Seq(Cos)
    BY <2>1
  <2>3. TypeLife' /\ TypeSteps'
    BY <1>2, <2>2 DEF ResumeCb, TypeLife, TypeSteps
  <2> DEFINE g == Front(gen[c])
  <2>4. g \in Seq(Frames) /\ g # << >> /\ Len(g) <= MaxDepth
    BY <2>1, WaitingFacts, Len(Front(gen[c])) \in Int DEF BoundsAssumption
  <2>5. exc \in Cos \cup {NoCo} /\ Deliver(c, g, exc)
    BY <1>2 DEF ResumeCb, TypeCtl
  <2>6. UNCHANGED <<phase, stopped, status, after>> /\ done' \subseteq 1 .. Len(owner)
    BY <1>2 DEF ResumeCb, TypeOps
  <2> HIDE DEF g
  <2>7. TypeGen' /\ TypeCtl' /\ TypeOps' /\ TypeStatus' /\ crossed' \subseteq Cos
    BY <2>4, <2>5, <2>6, DeliverType
  <2> QED
    BY <1>2, <2>3, <2>7 DEF ResumeCb, TypeGhosts
<1>3. ASSUME NEW c \in Cos, CloseCb(c)
      PROVE  TypeLife' /\ TypeStatus' /\ TypeGen' /\ TypeCtl' /\ TypeOps' /\ TypeGhosts' /\ TypeSteps'
  <2>1. TypeGen' /\ TypeOps' /\ TypeGhosts' /\ TypeSteps' /\ TypeCtl'
    BY <1>3 DEF CloseCb, TypeGen, TypeOps, TypeGhosts, TypeSteps, TypeCtl, ops, ghosts
  <2>2. TypeStatus'
    BY <1>3 DEF CloseCb, TypeStatus
  <2>3. timerq' = timerq \/ \E d \in Cos : timerq' = Append(timerq, d)
    BY <1>3 DEF CloseCb
  <2>4. timerq' \in Seq(Cos)
    BY <2>3, AppendFacts, SMTT(30) DEF TypeLife
  <2>5. life' \in [Cos -> {"unborn", "alive", "freed"}]
        /\ timer' \in [Cos -> {"idle", "start", "resume", "closing"}]
    BY <1>3 DEF CloseCb, TypeLife
  <2> QED
    BY <2>1, <2>2, <2>4, <2>5 DEF TypeLife
<1>4. ASSUME NEW o \in 1 .. MaxOps, Complete(o)
      PROVE  TypeLife' /\ TypeStatus' /\ TypeGen' /\ TypeCtl' /\ TypeOps' /\ TypeGhosts' /\ TypeSteps'
  <2> DEFINE c == owner[o]
  <2>1. o \in 1 .. Len(owner) /\ c \in Cos
    BY <1>4 DEF Complete, Pending, TypeOps
  <2>2. /\ UNCHANGED <<life, status, timer, timerq, after, told, forgot, logged, stopped, steps>>
        /\ done' = done \cup {o}
    BY <1>4 DEF Complete
  <2>3. TypeLife' /\ TypeSteps' /\ done' \subseteq 1 .. Len(owner)
    BY <2>1, <2>2 DEF TypeLife, TypeSteps, TypeOps
  <2>4. gen[c] \in Seq(Frames) /\ gen[c] # << >> /\ Len(gen[c]) <= MaxDepth
    BY <2>1 DEF TypeGen, Inv, OpsInv
  <2>5. \/ /\ UNCHANGED <<gen, stack, exc, ctl, crossed, owner, wait>>
           /\ phase' \in {phase, "crashed"}
        \/ \E e \in {NoCo, c} : Deliver(c, gen[c], e) /\ UNCHANGED phase
    BY <1>4 DEF Complete
  <2> HIDE DEF c
  <2>6. CASE /\ UNCHANGED <<gen, stack, exc, ctl, crossed, owner, wait>>
             /\ phase' \in {phase, "crashed"}
    BY <2>2, <2>3, <2>6 DEF TypeStatus, TypeGen, TypeOps, TypeGhosts, TypeCtl, Over
  <2>7. CASE \E e \in {NoCo, c} : Deliver(c, gen[c], e) /\ UNCHANGED phase
    <3>1. PICK e \in {NoCo, c} : Deliver(c, gen[c], e) /\ UNCHANGED phase
      BY <2>7
    <3>2. TypeGen' /\ TypeCtl' /\ TypeOps' /\ TypeStatus' /\ crossed' \subseteq Cos
      BY <2>1, <2>2, <2>3, <2>4, <3>1, DeliverType
    <3> QED
      BY <2>2, <2>3, <3>2 DEF TypeGhosts
  <2> QED
    BY <2>5, <2>6, <2>7
<1>5. CASE ScriptGo
  BY <1>5, GoType DEF ScriptGo, TypeStatus, TypeGen, TypeCtl, TypeOps, TypeGhosts, TypeSteps,
     control, ops, ghosts
<1>6. CASE LoopPhase
  BY <1>6 DEF LoopPhase, TypeLife, TypeStatus, TypeGen, TypeCtl, TypeOps, TypeGhosts, TypeSteps,
     coro, ops, ghosts, Over
<1>7. CASE Gone
  BY <1>7 DEF Gone, vars, TypeLife, TypeStatus, TypeGen, TypeCtl, TypeOps, TypeGhosts, TypeSteps
<1> QED
  BY <1>1, <1>2, <1>3, <1>4, <1>5, <1>6, <1>7

LEMMA TypeStep ==
  ASSUME Inv, BoundsAssumption, CosAssumption, [Next]_vars
  PROVE  TypeOK'
<1>1. CASE UNCHANGED vars
  BY <1>1, Types DEF Inv, TypeOK, vars
<1> QED
  BY <1>1, UserType, RunType, LoopType DEF Next

-----------------------------------------------------------------------------
(* The call stack, whatever moves it.                                      *)

\* d is no part of the move
SameFrame(d) == status'[d] = status[d] /\ gen'[d] = gen[d]

\* run() or PHP code, as the top generator of c tells
RightPlace(c) == (Last(ctl).at = "user") <=> (Top(c) \in {"run", "plain"})

LEMMA CallTypes ==
  ASSUME ctl \in Seq(Calls)
  PROVE  \A i \in 1 .. Len(ctl) : ctl[i].co \in Cos
<1>1. \A i \in 1 .. Len(ctl) : ctl[i] \in Calls
  OBVIOUS
<1> QED
  BY <1>1 DEF Calls

LEMMA StackStays ==
  ASSUME Stacked, ctl \in Seq(Calls), ctl' \in Seq(Calls), ctl # << >>, Len(ctl') = Len(ctl),
         SameBelow(Len(ctl) - 1), Last(ctl').co = Last(ctl).co,
         \A d \in Cos : d # Last(ctl).co => SameFrame(d),
         RightPlace(Last(ctl).co)'
  PROVE  Stacked'
<1>1. Len(ctl) \in Nat /\ Len(ctl) >= 1 /\ ctl' # << >>
  BY LastCall
<1>2. \A i \in 1 .. Len(ctl) : ctl'[i].co = ctl[i].co /\ ctl[i].co \in Cos
  <2>1. \A i \in 1 .. Len(ctl) : i \in 1 .. Len(ctl) - 1 \/ i = Len(ctl)
    BY <1>1
  <2>2. \A i \in 1 .. Len(ctl) - 1 : ctl'[i].co = ctl[i].co
    BY DEF SameBelow
  <2>3. ctl'[Len(ctl)].co = ctl[Len(ctl)].co
    BY DEF Last
  <2> QED
    BY <2>1, <2>2, <2>3, CallTypes
<1>3. \A i \in 1 .. Len(ctl) : i # Len(ctl) => ctl'[i] = ctl[i] /\ ctl[i].co # Last(ctl).co
  BY <1>1 DEF SameBelow, Last, Stacked
<1>4. \A i \in 1 .. Len(ctl) : i # Len(ctl) => SameFrame(ctl[i].co)
  BY <1>2, <1>3
<1>5. \A i \in 1 .. Len(ctl) : i # Len(ctl) => (ctl'[i].at = "user" /\ status'[ctl'[i].co] = 0)
  BY <1>2, <1>3, <1>4 DEF Stacked, SameFrame
<1>6. \A i \in 1 .. Len(ctl) :
        i # Len(ctl) => ((ctl'[i].at = "user") <=> (Last(gen'[ctl'[i].co]) \in {"run", "plain"}))
  BY <1>2, <1>3, <1>4 DEF Stacked, SameFrame, Top
<1>7. (ctl'[Len(ctl)].at = "user") <=> (Last(gen'[ctl'[Len(ctl)].co]) \in {"run", "plain"})
  BY <1>1, <1>2 DEF RightPlace, Last, Top
<1> QED
  BY <1>1, <1>2, <1>5, <1>6, <1>7 DEF Stacked, Top

LEMMA StackGrows ==
  ASSUME Stacked, ctl \in Seq(Calls), ctl' \in Seq(Calls), ctl' # << >>, Len(ctl') = Len(ctl) + 1,
         SameBelow(Len(ctl)), Last(ctl').co \notin Running,
         ctl # << >> => Last(ctl).at = "user" /\ status[Last(ctl).co] = 0,
         \A d \in Cos : d # Last(ctl').co => SameFrame(d),
         RightPlace(Last(ctl).co)'
  PROVE  Stacked'
<1>1. Len(ctl) \in Nat /\ (Len(ctl) # 0 => ctl # << >>)
  OBVIOUS
<1>2. \A i \in 1 .. Len(ctl) : ctl'[i] = ctl[i] /\ ctl[i].co \in Cos /\ ctl[i].co # Last(ctl').co
  BY CallTypes DEF SameBelow, Running
<1>3. \A i \in 1 .. Len(ctl) : SameFrame(ctl[i].co)
  BY <1>2
<1>4. \A i \in 1 .. Len(ctl) : ctl[i].at = "user" /\ status[ctl[i].co] = 0
  <2>1. \A i \in 1 .. Len(ctl) : i # Len(ctl) => ctl[i].at = "user" /\ status[ctl[i].co] = 0
    BY DEF Stacked
  <2>2. Len(ctl) # 0 => ctl[Len(ctl)].at = "user" /\ status[ctl[Len(ctl)].co] = 0
    BY <1>1 DEF Last
  <2> QED
    BY <1>1, <2>1, <2>2
<1>5. \A i \in 1 .. Len(ctl) : ctl'[i].at = "user" /\ status'[ctl'[i].co] = 0
  BY <1>2, <1>3, <1>4 DEF SameFrame
<1>6. \A i \in 1 .. Len(ctl) :
        (ctl'[i].at = "user") <=> (Last(gen'[ctl'[i].co]) \in {"run", "plain"})
  BY <1>2, <1>3 DEF Stacked, SameFrame, Top
<1>7. (ctl'[Len(ctl')].at = "user") <=> (Last(gen'[ctl'[Len(ctl')].co]) \in {"run", "plain"})
  BY DEF RightPlace, Last, Top
<1>8. \A i, j \in 1 .. Len(ctl) : ctl'[i].co = ctl'[j].co => i = j
  BY <1>2 DEF Stacked
<1>9. \A i \in 1 .. Len(ctl) : ctl'[i].co # ctl'[Len(ctl')].co
  BY <1>2 DEF Last
<1>10. \A i \in 1 .. Len(ctl') : i \in 1 .. Len(ctl) \/ i = Len(ctl')
  BY <1>1
<1>11. \A i, j \in 1 .. Len(ctl') : ctl'[i].co = ctl'[j].co => i = j
  BY <1>8, <1>9, <1>10
<1>12. \A i \in 1 .. Len(ctl') : i # Len(ctl') => ctl'[i].at = "user" /\ status'[ctl'[i].co] = 0
  BY <1>5, <1>10
<1>13. \A i \in 1 .. Len(ctl') :
        (ctl'[i].at = "user") <=> (Last(gen'[ctl'[i].co]) \in {"run", "plain"})
  BY <1>6, <1>7, <1>10
<1> QED
  BY <1>11, <1>12, <1>13 DEF Stacked, Top

LEMMA StackShrinks ==
  ASSUME Stacked, ctl \in Seq(Calls), ctl # << >>, ctl' \in Seq(Calls), Len(ctl') = Len(ctl) - 1,
         SameBelow(Len(ctl) - 1),
         \A d \in Cos : d # Last(ctl).co => SameFrame(d)
  PROVE  Stacked' /\ (ctl' # << >> => Last(ctl').at = "user" /\ status'[Last(ctl').co] = 0)
<1>1. Len(ctl) \in Nat /\ Len(ctl) >= 1
  BY LastCall
<1>2. \A i \in 1 .. Len(ctl') : i \in 1 .. Len(ctl) /\ i # Len(ctl)
  BY <1>1
<1>3. \A i \in 1 .. Len(ctl') : ctl'[i] = ctl[i] /\ ctl[i].co \in Cos /\ ctl[i].co # Last(ctl).co
  <2>1. \A i \in 1 .. Len(ctl') : ctl'[i] = ctl[i]
    BY DEF SameBelow
  <2>2. \A i \in 1 .. Len(ctl') : ctl[i].co # ctl[Len(ctl)].co
    BY <1>1, <1>2 DEF Stacked
  <2> QED
    BY <1>2, <2>1, <2>2, CallTypes DEF Last
<1>4. \A i \in 1 .. Len(ctl') : SameFrame(ctl[i].co)
  BY <1>3
<1>5. \A i \in 1 .. Len(ctl') : ctl'[i].at = "user" /\ status'[ctl'[i].co] = 0
  BY <1>2, <1>3, <1>4 DEF Stacked, SameFrame
<1>6. \A i \in 1 .. Len(ctl') :
        (ctl'[i].at = "user") <=> (Last(gen'[ctl'[i].co]) \in {"run", "plain"})
  BY <1>2, <1>3, <1>4 DEF Stacked, SameFrame, Top
<1>7. \A i, j \in 1 .. Len(ctl') : ctl'[i].co = ctl'[j].co => i = j
  BY <1>2, <1>3 DEF Stacked
<1>8. Stacked'
  BY <1>5, <1>6, <1>7 DEF Stacked, Top
<1>9. ctl' # << >> => Len(ctl') \in 1 .. Len(ctl')
  OBVIOUS
<1> QED
  BY <1>5, <1>8, <1>9 DEF Last

LEMMA StackUntouched ==
  ASSUME Stacked, UNCHANGED ctl, \A d \in Running : SameFrame(d)
  PROVE  Stacked'
<1>1. \A i \in 1 .. Len(ctl) : SameFrame(ctl[i].co)
  BY DEF Running
<1> QED
  BY <1>1 DEF Stacked, SameFrame, Top

(* Only the coroutine on top has an operation to yield.                    *)
LEMMA OnlyTopCounts ==
  ASSUME Stacked, ctl \in Seq(Calls), NEW d \in Cos, WakeOf(d), d \notin Spoilt, status[d] = 1
  PROVE  ctl # << >> /\ Last(ctl).co = d
<1>1. PICK i \in 1 .. Len(ctl) : ctl[i].co = d
  BY DEF WakeOf, Running
<1>2. i = Len(ctl)
  BY <1>1 DEF Stacked
<1> QED
  BY <1>1, <1>2 DEF Last

-----------------------------------------------------------------------------
(* The operations, and the coroutines a step does not touch.               *)

\* c, and no other, may have started an operation
Asks(c) ==
  \/ UNCHANGED <<owner, wait>>
  \/ owner' = Append(owner, c) /\ gen'[c] # << >>
     /\ (UNCHANGED wait \/ wait' = [wait EXCEPT ![c] = Len(owner) + 1])

\* c, and no other, may have had an answer
Answers(c) == done \subseteq done' /\ \A o \in done' : o \in done \/ owner[o] = c

SameCo(d) ==
  /\ life'[d] = life[d] /\ status'[d] = status[d] /\ gen'[d] = gen[d]
  /\ stack'[d] = stack[d] /\ timer'[d] = timer[d] /\ after'[d] = after[d]
  /\ d \in Running' <=> d \in Running

HistoryGrows ==
  /\ crossed \subseteq crossed' /\ forgot \subseteq forgot' /\ told \subseteq told'
  /\ logged \subseteq logged' /\ (stopped => stopped')

LEMMA OwnersKept ==
  ASSUME TypeOps, NEW c \in Cos, Asks(c)
  PROVE  /\ Len(owner) \in Nat /\ Len(owner') \in {Len(owner), Len(owner) + 1}
         /\ \A o \in 1 .. Len(owner) : owner'[o] = owner[o]
         /\ \A o \in 1 .. Len(owner') : o \in 1 .. Len(owner) \/ (o = Len(owner) + 1 /\ owner'[o] = c)
         /\ \A d \in Cos : wait'[d] # wait[d] =>
              d = c /\ wait'[c] = Len(owner) + 1 /\ owner' = Append(owner, c)
<1>1. CASE UNCHANGED <<owner, wait>>
  BY <1>1 DEF TypeOps
<1>2. CASE owner' = Append(owner, c)
           /\ (UNCHANGED wait \/ wait' = [wait EXCEPT ![c] = Len(owner) + 1])
  <2>1. /\ Len(owner) \in Nat /\ Len(owner') = Len(owner) + 1 /\ owner'[Len(owner) + 1] = c
        /\ \A o \in 1 .. Len(owner) : owner'[o] = owner[o]
    BY <1>2, AppendFacts DEF TypeOps, Last
  <2>2. \A o \in 1 .. Len(owner') : o \in 1 .. Len(owner) \/ o = Len(owner) + 1
    BY <2>1
  <2> QED
    BY <1>2, <2>1, <2>2 DEF TypeOps
<1> QED
  BY <1>1, <1>2 DEF Asks

LEMMA OpsStep ==
  ASSUME OpsInv, TypeOps, NEW c \in Cos, Asks(c),
         \A d \in Cos : gen[d] # << >> => gen'[d] # << >>
  PROVE  OpsInv'
<1>1. \A o \in 1 .. Len(owner) : owner[o] \in Cos
  BY DEF TypeOps
<1>2. \A o \in 1 .. Len(owner') : gen'[owner'[o]] # << >>
  <2>1. \A o \in 1 .. Len(owner) : gen'[owner'[o]] # << >>
    BY <1>1, OwnersKept DEF OpsInv
  <2>2. Len(owner') = Len(owner) \/ gen'[c] # << >>
    BY DEF Asks
  <2>3. \A o \in 1 .. Len(owner') : o \in 1 .. Len(owner) \/ owner'[o] = c
    BY OwnersKept
  <2> QED
    BY <2>1, <2>2, <2>3
<1>3. ASSUME NEW d \in Cos
      PROVE  wait'[d] \in 0 .. Len(owner') /\ (wait'[d] # 0 => owner'[wait'[d]] = d)
  <2>1. wait[d] \in 0 .. Len(owner) /\ (wait[d] # 0 => owner[wait[d]] = d)
    BY DEF OpsInv
  <2>2. CASE wait'[d] = wait[d]
    <3>1. wait[d] \in 0 .. Len(owner')
      BY <2>1, OwnersKept
    <3>2. wait[d] # 0 => wait[d] \in 1 .. Len(owner)
      BY <2>1
    <3> QED
      BY <2>1, <2>2, <3>1, <3>2, OwnersKept
  <2>3. CASE d = c /\ wait'[c] = Len(owner) + 1 /\ owner' = Append(owner, c)
    <3>1. Len(owner) \in Nat /\ Len(owner') = Len(owner) + 1 /\ owner'[Len(owner) + 1] = c
      BY <2>3, AppendFacts DEF TypeOps, Last
    <3> QED
      BY <2>3, <3>1
  <2> QED
    BY <2>2, <2>3, OwnersKept
<1> QED
  BY <1>2, <1>3 DEF OpsInv

(* What the history says of a coroutine it goes on saying.                 *)
LEMMA SpoiltGrows ==
  ASSUME HistoryGrows
  PROVE  Spoilt \subseteq Spoilt'
BY DEF HistoryGrows, Spoilt

(* The operations in flight of a coroutine that neither asks nor is        *)
(* answered.                                                               *)
LEMMA OldOps ==
  ASSUME OpsInv, TypeOps, NEW c \in Cos, Asks(c), Answers(c), NEW d \in Cos, d # c
  PROVE  /\ wait'[d] = wait[d]
         /\ \A o \in 1 .. Len(owner') : (owner'[o] = d /\ o \notin done')
              => o \in 1 .. Len(owner) /\ owner[o] = d /\ o \notin done
         /\ (wait[d] # 0 /\ wait[d] \notin done) => wait'[d] \notin done'
<1>1. wait'[d] = wait[d]
  BY OwnersKept
<1>2. \A o \in 1 .. Len(owner') : (owner'[o] = d /\ o \notin done')
              => o \in 1 .. Len(owner) /\ owner[o] = d /\ o \notin done
  BY OwnersKept DEF Answers
<1>3. (wait[d] # 0 /\ wait[d] \notin done) => wait[d] \notin done'
  <2>1. wait[d] # 0 => owner[wait[d]] = d
    BY DEF OpsInv
  <2> QED
    BY <2>1 DEF Answers
<1> QED
  BY <1>1, <1>2, <1>3

\* d is created
Born(d) ==
  /\ life[d] = "unborn" /\ life'[d] = "alive" /\ timer'[d] = "start"
  /\ status'[d] = status[d] /\ gen'[d] = gen[d] /\ stack'[d] = stack[d] /\ after'[d] = after[d]
  /\ d \in Running' <=> d \in Running

LEMMA BornCoro ==
  ASSUME OpsInv, TypeOps, NEW c \in Cos, Asks(c), Answers(c), HistoryGrows,
         NEW d \in Cos, d # c, Coro(d), Born(d)
  PROVE  Coro(d)'
<1>1. gen'[d] = << >> /\ d \notin Running' /\ d \notin Running /\ status'[d] = 0 /\ life'[d] = "alive"
      /\ ~after'[d] /\ timer'[d] = "start"
  BY DEF Coro, LifeOf, Born
<1>2. LifeOf(d)'
  BY <1>1 DEF LifeOf
<1>3. GenOf(d)'
  <2>1. Len(<< >>) = 0 /\ 1 .. 0 = {}
    OBVIOUS
  <2> QED
    BY <1>1, <2>1 DEF GenOf
<1>4. WakeOf(d)'
  <2> SUFFICES ASSUME d \notin Spoilt' PROVE WakeOf(d)'
    BY DEF WakeOf
  <2>1. d \notin Spoilt /\ WakeOf(d) /\ life[d] # "alive"
    BY SpoiltGrows DEF Coro, Born
  <2>2. \A o \in 1 .. Len(owner') : owner'[o] = d => o \in done'
    BY <2>1, OldOps DEF WakeOf
  <2>3. stack'[d] # 0 => stack'[d] = 1 /\ wait'[d] # 0 /\ wait'[d] \notin done'
    BY <2>1, OldOps DEF WakeOf, Born
  <2> QED
    BY <1>1, <2>2, <2>3 DEF WakeOf
<1>5. EndOf(d)'
  BY <1>1 DEF EndOf
<1> QED
  BY <1>2, <1>3, <1>4, <1>5 DEF Coro

LEMMA OtherCoro ==
  ASSUME OpsInv, TypeOps, NEW c \in Cos, Asks(c), Answers(c), HistoryGrows,
         NEW d \in Cos, d # c, Coro(d), SameCo(d),
         d \notin Spoilt => status[d] # 1,
         exc = d => exc' = d \/ d \in crossed',
         exc' = d => exc = d
  PROVE  Coro(d)'
<1>1. LifeOf(d)'
  BY DEF Coro, LifeOf, SameCo
<1>2. GenOf(d)'
  BY DEF Coro, GenOf, SameCo, HistoryGrows, Top
<1>3. WakeOf(d)'
  <2> SUFFICES ASSUME d \notin Spoilt' PROVE WakeOf(d)'
    BY DEF WakeOf
  <2>1. d \notin Spoilt
    BY SpoiltGrows
  <2>2. WakeOf(d) /\ status[d] # 1
    BY <2>1 DEF Coro
  <2>3. \A o \in 1 .. Len(owner') :
         (owner'[o] = d /\ o \notin done') =>
           /\ life'[d] = "alive" /\ timer'[d] = "idle" /\ wait'[d] = o
           /\ status'[d] = 0 /\ Top(d)' = "ptr" /\ d \notin Running'
    BY <2>1, <2>2, OldOps DEF WakeOf, SameCo, Top
  <2>4. stack'[d] # 0 => stack'[d] = 1 /\ wait'[d] # 0 /\ wait'[d] \notin done'
    BY <2>1, <2>2, OldOps DEF WakeOf, SameCo
  <2>5. status'[d] # 1 /\ (d \in Running' => timer'[d] = "idle")
    BY <2>1, <2>2 DEF SameCo, WakeOf
  <2> QED
    BY <2>3, <2>4, <2>5 DEF WakeOf
<1>4. EndOf(d)'
  BY DEF Coro, EndOf, SameCo, HistoryGrows, Top
<1> QED
  BY <1>1, <1>2, <1>3, <1>4 DEF Coro

(* A step in which c moves, and no other coroutine but those it creates.   *)
LEMMA OneMoves ==
  ASSUME Inv, CosAssumption, TypeOK', StackInv',
         NEW c \in Cos, Asks(c), Answers(c), HistoryGrows,
         ctl # << >> => Last(ctl).co = c \/ status[Last(ctl).co] = 0,
         exc' = exc \/ exc \in {NoCo, c} \/ exc \in crossed',
         exc' \in {exc, c, NoCo},
         \A d \in Cos : d # c => SameCo(d) \/ Born(d),
         gen[c] # << >> => gen'[c] # << >>,
         Coro(c)'
  PROVE  Inv'
<1>1. ASSUME NEW d \in Cos, d # c PROVE Coro(d)'
  <2>1. TypeOps /\ OpsInv /\ Stacked /\ ctl \in Seq(Calls) /\ Coro(d)
    BY Types DEF Inv, StackInv, TypeCtl, Calls
  <2>2. d \notin Spoilt => status[d] # 1
    BY <1>1, <2>1, OnlyTopCounts DEF Coro
  <2>3. exc = d => exc' = d \/ d \in crossed'
    BY <1>1 DEF CosAssumption
  <2>4. exc' = d => exc = d
    BY <1>1 DEF CosAssumption
  <2> QED
    BY <1>1, <2>1, <2>2, <2>3, <2>4, OtherCoro, BornCoro
<1>2. OpsInv'
  <2>1. \A d \in Cos : gen[d] # << >> => gen'[d] # << >>
    BY DEF SameCo, Born
  <2> QED
    BY <2>1, OpsStep, Types DEF Inv
<1> QED
  BY <1>1, <1>2 DEF Inv

-----------------------------------------------------------------------------
(* In PHP code: calls, and what is caught.                                 *)

LEMMA UserStack ==
  ASSUME Inv, NEW c \in Cos, In(c, "user"), UNCHANGED <<gen, ctl>>, crossed \subseteq crossed',
         \A d \in Cos : d # c => status'[d] = status[d],
         exc' \in {exc, c, NoCo}
  PROVE  StackInv' /\ Running' = Running
<1>1. /\ ctl # << >> /\ Last(ctl).co = c /\ Last(ctl).at = "user" /\ Stacked /\ PendingOnTop
      /\ ctl \in Seq(Calls) /\ Len(ctl) \in 1 .. Len(ctl)
  BY RunningFacts, LastCall, Types DEF Inv, StackInv, TypeCtl, Calls
<1>2. SameBelow(Len(ctl) - 1) /\ \A d \in Cos : d # c => SameFrame(d)
  BY DEF SameBelow, SameFrame
<1>3. RightPlace(c)
  BY <1>1 DEF Stacked, RightPlace, Last
<1>4. RightPlace(c)'
  BY <1>3 DEF RightPlace, Top
<1>5. Stacked'
  BY <1>1, <1>2, <1>4, StackStays
<1>6. PendingOnTop'
  BY <1>1 DEF PendingOnTop
<1> QED
  BY <1>5, <1>6 DEF StackInv, Running

LEMMA CallStep ==
  ASSUME Inv, CosAssumption, BoundsAssumption, NEW c \in Cos,
         CallAsync(c) \/ CallAsyncRefused(c) \/ CallLogs(c) \/ CallGo(c) \/ Catch(c)
  PROVE  Inv'
<1>1. TypeOK' /\ TypeStatus /\ TypeOps /\ TypeCtl /\ OpsInv /\ Coro(c) /\ status[c] \in -1 .. 1
  BY UserType, Types DEF Inv, TypeStatus
<1>2. In(c, "user") /\ UNCHANGED <<gen, ctl>>
  BY DEF CallAsync, CallAsyncRefused, CallLogs, CallGo, Catch, User, coro, control
<1>3. /\ gen[c] # << >> /\ ctl # << >> /\ c \in Running /\ Last(ctl).co = c /\ Last(ctl).at = "user"
      /\ life[c] = "alive" /\ status[c] \in {0, 1} /\ timer[c] \in {"idle", "resume"}
  BY <1>2, RunningFacts
<1>4. UNCHANGED crossed /\ (Undisciplined(c) \/ UNCHANGED forgot)
  BY DEF CallAsync, CallAsyncRefused, CallLogs, CallGo, Catch, ghosts
<1>5. HistoryGrows
  BY <1>4 DEF CallAsync, CallAsyncRefused, CallLogs, CallGo, Catch, ghosts, control, HistoryGrows, Undisciplined
<1>6. exc' \in {exc, c, NoCo} /\ (exc' # exc => exc = NoCo \/ exc' = NoCo)
  BY DEF CallAsync, CallAsyncRefused, CallLogs, CallGo, Catch, control, User
<1>7. \A d \in Cos : d # c => status'[d] = status[d]
  BY <1>1 DEF CallAsync, CallAsyncRefused, CallLogs, CallGo, Catch, coro, TypeStatus
<1>8. StackInv' /\ Running' = Running
  BY <1>2, <1>4, <1>6, <1>7, UserStack
<1>9. \A d \in Cos : d # c => SameCo(d) \/ Born(d)
  <2>1. CASE CallGo(c)
    <3>1. PICK b \in Cos : Go(b)
      BY <2>1 DEF CallGo
    <3>2. \A d \in Cos : d # b => life'[d] = life[d] /\ timer'[d] = timer[d]
      BY <3>1, Types DEF Go, Inv, TypeLife
    <3>3. life[b] = "unborn" /\ life'[b] = "alive" /\ timer'[b] = "start"
      BY <3>1, Types DEF Go, Inv, TypeLife
    <3> QED
      BY <1>2, <1>8, <2>1, <3>2, <3>3 DEF CallGo, SameCo, Born
  <2>2. CASE CallAsync(c) \/ CallAsyncRefused(c) \/ CallLogs(c) \/ Catch(c)
    <3>1. UNCHANGED <<life, gen, timer, after>> /\ Running' = Running
      BY <1>2, <1>8, <2>2 DEF CallAsync, CallAsyncRefused, CallLogs, Catch, coro
    <3>2. \A d \in Cos : d # c => stack'[d] = stack[d]
      BY <1>1, <2>2 DEF CallAsync, CallAsyncRefused, CallLogs, Catch, coro, TypeStatus
    <3> QED
      BY <1>7, <3>1, <3>2 DEF SameCo
  <2> QED
    BY <2>1, <2>2
<1>10. /\ Asks(c) /\ Answers(c)
  <2>1. UNCHANGED done
    BY DEF CallAsync, CallAsyncRefused, CallLogs, CallGo, Catch, ops
  <2>2. \/ owner' = owner /\ wait' = wait
        \/ owner' = Append(owner, c) /\ wait' = wait
        \/ owner' = Append(owner, c) /\ wait' = [wait EXCEPT ![c] = Len(owner) + 1]
    <3>1. CASE CallAsyncRefused(c)
      BY <3>1 DEF CallAsyncRefused
    <3>2. CASE CallAsync(c) \/ CallLogs(c)
      BY <3>2 DEF CallAsync, CallLogs
    <3>3. CASE CallGo(c) \/ Catch(c)
      BY <3>3 DEF CallGo, Catch, ops
    <3> QED
      BY <3>1, <3>2, <3>3
  <2> QED
    BY <1>2, <1>3, <2>1, <2>2 DEF Asks, Answers
<1>11. life'[c] = life[c] /\ timer'[c] = timer[c] /\ after'[c] = after[c] /\ status'[c] \in {0, 1}
  BY <1>1, <1>3, Types DEF CallAsync, CallAsyncRefused, CallLogs, CallGo, Catch, coro, Go, Inv, TypeLife, TypeStatus
<1>12. LifeOf(c)'
  BY <1>1, <1>2, <1>3, <1>8, <1>11 DEF LifeOf, Coro
<1>13. GenOf(c)'
  BY <1>1, <1>2, <1>5, <1>8 DEF GenOf, Coro, HistoryGrows, Top
<1>14. EndOf(c)'
  <2>1. c \notin crossed' => c \notin crossed
    BY <1>5 DEF HistoryGrows
  <2>2. Top(c) \in {"run", "plain"}
    <3>1. Stacked /\ ctl \in Seq(Calls) /\ Len(ctl) \in 1 .. Len(ctl)
      BY <1>3, LastCall, Types DEF Inv, StackInv, TypeCtl, Calls
    <3> QED
      BY <1>3, <3>1 DEF Stacked, Last
  <2> QED
    BY <1>1, <1>2, <1>3, <1>8, <1>11, <2>1, <2>2 DEF EndOf, Coro, LifeOf, Top
<1>15. WakeOf(c)'
  <2> SUFFICES ASSUME c \notin Spoilt' PROVE WakeOf(c)'
    BY DEF WakeOf
  <2>1. c \notin Spoilt /\ WakeOf(c)
    BY <1>1, <1>5, SpoiltGrows DEF Coro
  <2>2. timer'[c] = "idle" /\ life'[c] = "alive" /\ c \in Running' /\ Last(ctl').at = "user"
    BY <1>2, <1>3, <1>8, <1>11, <2>1 DEF WakeOf
  <2>3. \A o \in 1 .. Len(owner) : (owner[o] = c /\ o \notin done) => wait[c] = o /\ status[c] = 1
    BY <1>3, <2>1 DEF WakeOf
  <2>4. status'[c] = status[c] /\ UNCHANGED <<owner, done, wait, stack>>
        => WakeOf(c)'
    BY <2>1, <2>2, <2>3 DEF WakeOf
  <2>5. CASE CallAsync(c)
    <3>1. wait[c] # 0 => wait[c] \in done
      <4>1. wait[c] \in 0 .. Len(owner) /\ (wait[c] # 0 => owner[wait[c]] = c) /\ status[c] = 0
        BY <1>1, <2>5 DEF OpsInv, CallAsync
      <4>2. wait[c] # 0 => wait[c] \in 1 .. Len(owner)
        BY <4>1
      <4> QED
        BY <2>3, <4>1, <4>2
    <3>2. stack[c] = 0
      BY <2>1, <3>1 DEF WakeOf
    <3>3. stack'[c] \in {0, 1}
      BY <1>1, <2>5, <3>2 DEF CallAsync, TypeStatus
    <3>4. /\ wait'[c] = Len(owner) + 1 /\ Len(owner) \in Nat /\ done' = done
          /\ owner' = Append(owner, c) /\ status'[c] = 1 /\ status[c] = 0
      BY <1>1, <2>5 DEF CallAsync, TypeOps, TypeStatus
    <3>5. Len(owner) + 1 \notin done'
      BY <1>1, <3>4 DEF TypeOps
    <3>6. \A o \in 1 .. Len(owner') : (owner'[o] = c /\ o \notin done') => o = Len(owner) + 1
      BY <1>1, <1>10, <2>3, <3>4, OwnersKept
    <3> QED
      BY <2>2, <3>3, <3>4, <3>5, <3>6 DEF WakeOf
  <2>6. CASE CallAsyncRefused(c)
    BY <1>1, <1>3, <2>6 DEF CallAsyncRefused, Undisciplined, Spoilt
  <2>7. CASE CallLogs(c)
    BY <2>7 DEF CallLogs, Spoilt
  <2>8. CASE CallGo(c) \/ Catch(c)
    BY <2>4, <2>8 DEF CallGo, Catch, coro, ops
  <2> QED
    BY <2>5, <2>6, <2>7, <2>8
<1>16. Coro(c)'
  BY <1>12, <1>13, <1>14, <1>15 DEF Coro
<1> QED
  <2>1. exc' = exc \/ exc \in {NoCo, c} \/ exc \in crossed'
    <3>1. PendingOnTop
      BY DEF Inv, StackInv
    <3> QED
      BY <1>3, <1>5, <1>6, <3>1 DEF PendingOnTop, HistoryGrows
  <2>2. gen[c] # << >> => gen'[c] # << >>
    BY <1>2
  <2> QED
    BY <1>1, <1>3, <1>5, <1>6, <1>8, <1>9, <1>10, <1>16, <2>1, <2>2, OneMoves

-----------------------------------------------------------------------------
(* Out of PHP code, into run(), and back.                                  *)

\* the generator on top of c is replaced, or a new one comes on top, in place
Turns(c, f, place) ==
  /\ gen' \in [Cos -> Seq(Frames)] /\ gen'[c] # << >> /\ Top(c)' = f
  /\ \A i \in 1 .. Len(gen'[c]) : i # Len(gen'[c]) => gen'[c][i] = "gen"
  /\ \A d \in Cos : d # c => gen'[d] = gen[d]
  /\ ctl' \in Seq(Calls) /\ ctl' # << >> /\ Len(ctl') = Len(ctl)
  /\ Last(ctl').co = Last(ctl).co /\ Last(ctl').at = place
  /\ SameBelow(Len(ctl) - 1)
  /\ Running' = Running

LEMMA GotoTurns ==
  ASSUME Inv, NEW c \in Cos, ctl # << >>, gen[c] # << >>, NEW f \in Frames, SetTop(c, f),
         NEW place \in {"user", "run"}, Goto(place)
  PROVE  Turns(c, f, place) /\ Len(gen'[c]) = Len(gen[c])
<1>1. gen \in [Cos -> Seq(Frames)] /\ ctl \in Seq(Calls) /\ GenOf(c)
  BY Types DEF Inv, TypeGen, TypeCtl, Calls, Coro
<1>2. /\ gen' \in [Cos -> Seq(Frames)] /\ gen'[c] # << >> /\ Top(c)' = f
      /\ Len(gen'[c]) = Len(gen[c])
      /\ \A i \in 1 .. Len(gen'[c]) : i # Len(gen'[c]) => gen'[c][i] = gen[c][i]
      /\ \A d \in Cos : d # c => gen'[d] = gen[d]
  BY <1>1, SetTopFacts
<1>3. /\ ctl' \in Seq(Calls) /\ ctl' # << >> /\ Len(ctl') = Len(ctl)
      /\ Last(ctl').co = Last(ctl).co /\ Last(ctl').at = place
      /\ SameBelow(Len(ctl) - 1)
      /\ Running' = Running
  BY <1>1, GotoFacts
<1>4. \A i \in 1 .. Len(gen'[c]) : i # Len(gen'[c]) => gen'[c][i] = "gen"
  BY <1>1, <1>2 DEF GenOf
<1> QED
  BY <1>2, <1>3, <1>4 DEF Turns

(* Whatever the turn, the invariant but for WakeOf and the exception.      *)
LEMMA TurnFacts ==
  ASSUME Inv, CosAssumption, TypeOK', NEW c \in Cos, In(c, "user") \/ In(c, "run"),
         NEW f, NEW place \in {"user", "run"}, Turns(c, f, place),
         (place = "user") <=> (f \in {"run", "plain"}),
         f = "gen" => Len(gen'[c]) < MaxDepth,
         Len(gen'[c]) >= Len(gen[c]),
         status' = [status EXCEPT ![c] = status'[c]], status'[c] \in {0, 1},
         UNCHANGED <<life, stack, timer, after, owner, wait, done, stopped>>,
         HistoryGrows,
         exc' \in {exc, c, NoCo},
         exc' = exc \/ exc \in {NoCo, c} \/ exc \in crossed',
         (place = "run" /\ exc' # NoCo /\ c \notin crossed') => f \in {"end", "thrown"},
         (f = "thrown" /\ c \notin crossed') => exc' = c,
         WakeOf(c)'
  PROVE  Inv'
<1> TypeStatus /\ TypeOps /\ TypeCtl /\ ctl \in Seq(Calls) /\ Coro(c) /\ Stacked /\ PendingOnTop /\ TypeGen
  BY Types DEF Inv, TypeCtl, Calls, StackInv
<1>1. /\ ctl # << >> /\ c \in Running /\ Last(ctl).co = c /\ gen[c] # << >>
      /\ life[c] = "alive" /\ status[c] \in {0, 1} /\ timer[c] \in {"idle", "resume"}
  BY RunningFacts
<1>2. \A d \in Cos : d # c => SameCo(d) /\ SameFrame(d)
  <2>1. \A d \in Cos : d # c => status'[d] = status[d]
    BY DEF TypeStatus
  <2> QED
    BY <2>1 DEF Turns, SameCo, SameFrame
<1>3. Asks(c) /\ Answers(c)
  BY DEF Asks, Answers
<1>4. RightPlace(Last(ctl).co)'
  <2>1. RightPlace(c)'
    BY DEF Turns, RightPlace
  <2> QED
    BY <1>1, <2>1 DEF Turns, RightPlace, Top
<1>5. Stacked'
  <2>1. \A d \in Cos : d # Last(ctl).co => SameFrame(d)
    BY <1>1, <1>2
  <2> QED
    BY <1>1, <1>4, <2>1, StackStays DEF Turns
<1>6. PendingOnTop'
  <2>1. Last(ctl').co = c /\ Last(ctl').at = place /\ Last(gen'[c]) = f
    BY <1>1 DEF Turns, Top
  <2>2. (exc' # NoCo /\ exc' # c) => c \in crossed' /\ exc' \in crossed'
    <3>1. (exc # NoCo /\ exc # c) => c \in crossed /\ exc \in crossed
      BY <1>1 DEF PendingOnTop
    <3> QED
      BY <3>1 DEF HistoryGrows
  <2>3. Last(gen'[Last(ctl').co]) = f
    BY <2>1
  <2> QED
    BY <2>1, <2>2, <2>3 DEF PendingOnTop, Top
<1>7. LifeOf(c)'
  <2>1. LifeOf(c) /\ c \in Running'
    BY <1>1 DEF Coro, Turns
  <2>2. Len(gen[c]) >= 2 => Len(gen'[c]) >= 2
    BY DEF Turns, TypeGen
  <2> QED
    BY <1>1, <2>1, <2>2 DEF LifeOf, Turns
<1>8. GenOf(c)'
  BY <1>1 DEF GenOf, Turns
<1>9. EndOf(c)'
  <2>1. c \notin crossed' => c \notin crossed
    BY DEF HistoryGrows
  <2>2. LifeOf(c)
    BY DEF Coro
  <2> QED
    BY <1>1, <2>1, <2>2 DEF EndOf, Turns, LifeOf
<1> QED
  BY <1>1, <1>2, <1>3, <1>5, <1>6, <1>7, <1>8, <1>9, OneMoves DEF StackInv, Coro, Turns

LEMMA YieldStep ==
  ASSUME Inv, CosAssumption, BoundsAssumption, NEW c \in Cos,
         YieldPointer(c) \/ YieldGenerator(c) \/ YieldValue(c) \/ Return(c) \/ Throw(c)
  PROVE  Inv'
<1> TypeOK' /\ TypeStatus /\ TypeOps /\ PendingOnTop /\ status[c] \in -1 .. 1 /\ Coro(c)
  BY UserType, Types DEF Inv, TypeStatus, StackInv
<1>1. PICK f \in {"ptr", "gen", "val", "end", "thrown"} :
        /\ SetTop(c, f)
        /\ f = "ptr" <=> YieldPointer(c)
        /\ f = "gen" => YieldGenerator(c)
        /\ f = "thrown" => Throw(c)
        /\ f # "thrown" => (User(c) /\ exc' = exc)
  <2>1. CASE YieldPointer(c)
    BY <2>1 DEF YieldPointer, Yield
  <2>2. CASE YieldGenerator(c) /\ ~YieldPointer(c)
    BY <2>2 DEF YieldGenerator, Yield
  <2>3. CASE YieldValue(c) /\ ~YieldPointer(c)
    BY <2>3 DEF YieldValue, Yield
  <2>4. CASE Return(c) /\ ~YieldPointer(c)
    BY <2>4 DEF Return
  <2>5. CASE Throw(c) /\ ~YieldPointer(c)
    BY <2>5 DEF Throw
  <2> QED
    BY <2>1, <2>2, <2>3, <2>4, <2>5
<1>2. /\ In(c, "user") /\ Goto("run")
      /\ UNCHANGED <<life, status, stack, timer, timerq, after, owner, wait, done, told, logged,
                     crossed, stopped>>
  BY DEF YieldPointer, YieldGenerator, YieldValue, Yield, Return, Throw, User, ops
<1>3. /\ ctl # << >> /\ c \in Running /\ Last(ctl).co = c /\ gen[c] # << >>
      /\ life[c] = "alive" /\ status[c] \in {0, 1}
  BY <1>2, RunningFacts
<1>4. Turns(c, f, "run") /\ Len(gen'[c]) = Len(gen[c])
  BY <1>1, <1>2, <1>3, GotoTurns DEF Frames
<1>5. YieldPointer(c) \/ Undisciplined(c)
  BY DEF YieldGenerator, YieldValue, Return, Throw
<1>6. HistoryGrows
  BY <1>2, <1>5 DEF HistoryGrows, Undisciplined, YieldPointer
<1>7. f = "thrown" => exc' = IF exc = NoCo THEN c ELSE exc
  BY <1>1 DEF Throw
<1>8. WakeOf(c)'
  <2> SUFFICES ASSUME c \notin Spoilt' PROVE WakeOf(c)'
    BY DEF WakeOf
  <2>1. c \notin Spoilt /\ WakeOf(c)
    BY <1>6, SpoiltGrows DEF Coro
  <2>2. c \in Running' /\ Last(ctl').at = "run" /\ Top(c)' = f
    BY <1>3, <1>4 DEF Turns
  <2>3. (status[c] = 1 /\ c \notin forgot') => f = "ptr" /\ exc' = NoCo
    BY <1>1, <1>5 DEF Undisciplined, User
  <2>4. \A o \in 1 .. Len(owner) : (owner[o] = c /\ o \notin done) =>
           life[c] = "alive" /\ timer[c] = "idle" /\ wait[c] = o /\ status[c] = 1
    BY <1>3, <2>1 DEF WakeOf
  <2> QED
    BY <1>2, <1>3, <2>1, <2>2, <2>3, <2>4 DEF WakeOf
<1>9. f = "gen" => Len(gen'[c]) < MaxDepth
  BY <1>1, <1>4 DEF YieldGenerator
<1>10. (exc' # NoCo /\ c \notin crossed') => f \in {"end", "thrown"}
  BY <1>1 DEF User
<1>11. (f = "thrown" /\ c \notin crossed') => exc' = c
  BY <1>2, <1>3, <1>7 DEF PendingOnTop
<1>12. exc' \in {exc, c, NoCo} /\ (exc' = exc \/ exc \in {NoCo, c})
  BY <1>1, <1>7
<1>13. status' = [status EXCEPT ![c] = status'[c]] /\ status'[c] \in {0, 1}
  BY <1>2, <1>3 DEF TypeStatus
<1>14. Len(gen'[c]) >= Len(gen[c])
  BY <1>4, Types DEF Inv, TypeGen
<1> QED
  BY <1>2, <1>4, <1>6, <1>8, <1>9, <1>10, <1>11, <1>12, <1>13, <1>14, TurnFacts

LEMMA RunOnStep ==
  ASSUME Inv, CosAssumption, BoundsAssumption, NEW c \in Cos, RunOn(c)
  PROVE  Inv'
<1> TypeOK' /\ TypeStatus /\ TypeOps /\ Coro(c) /\ exc = NoCo /\ exc' = exc
  BY RunType, Types DEF Inv, RunOn
<1>1. /\ SetTop(c, "run") /\ In(c, "run") /\ Goto("user") /\ Top(c) \in {"fresh", "val"}
      /\ UNCHANGED <<life, status, stack, timer, timerq, after, owner, wait, done, told, logged,
                     forgot, crossed, stopped>>
  BY DEF RunOn, RunRest, ops
<1>2. /\ ctl # << >> /\ c \in Running /\ Last(ctl).co = c /\ gen[c] # << >> /\ Last(ctl).at = "run"
      /\ life[c] = "alive" /\ status[c] \in {0, 1}
  BY <1>1, RunningFacts
<1>3. Turns(c, "run", "user") /\ Len(gen'[c]) = Len(gen[c])
  BY <1>1, <1>2, GotoTurns DEF Frames
<1>4. HistoryGrows
  BY <1>1 DEF HistoryGrows
<1>5. WakeOf(c)'
  <2> SUFFICES ASSUME c \notin Spoilt' PROVE WakeOf(c)'
    BY DEF WakeOf
  <2>1. c \notin Spoilt /\ WakeOf(c)
    BY <1>4, SpoiltGrows DEF Coro
  <2>2. c \in Running' /\ Last(ctl').at = "user"
    BY <1>2, <1>3 DEF Turns
  <2>3. \A o \in 1 .. Len(owner) : (owner[o] = c /\ o \notin done) =>
           life[c] = "alive" /\ timer[c] = "idle" /\ wait[c] = o /\ status[c] = 1
    BY <1>2, <2>1 DEF WakeOf
  <2> QED
    BY <1>1, <1>2, <2>1, <2>2, <2>3 DEF WakeOf
<1>6. status' = [status EXCEPT ![c] = status'[c]] /\ status'[c] \in {0, 1}
  BY <1>1, <1>2 DEF TypeStatus
<1>7. Len(gen'[c]) >= Len(gen[c])
  BY <1>3, Types DEF Inv, TypeGen
<1> QED
  BY <1>1, <1>3, <1>4, <1>5, <1>6, <1>7, TurnFacts

(* The missing yield is reported where the pointer was yielded.            *)
LEMMA RunPointerThrows ==
  ASSUME Inv, CosAssumption, BoundsAssumption, NEW c \in Cos, RunPointer(c), status[c] # 1
  PROVE  Inv'
<1> TypeOK' /\ TypeStatus /\ TypeOps /\ Coro(c) /\ exc = NoCo /\ exc' = c
  BY RunType, Types DEF Inv, RunPointer
<1>1. /\ SetTop(c, "run") /\ In(c, "run") /\ Goto("user") /\ Top(c) = "ptr" /\ told' = told \cup {c}
      /\ status' = [status EXCEPT ![c] = 0]
      /\ UNCHANGED <<life, stack, timer, timerq, after, owner, wait, done, logged,
                     forgot, crossed, stopped>>
  BY DEF RunPointer, RunRest, ops
<1>2. /\ ctl # << >> /\ c \in Running /\ Last(ctl).co = c /\ gen[c] # << >> /\ Last(ctl).at = "run"
      /\ life[c] = "alive" /\ status[c] = 0 /\ status'[c] = 0
  BY <1>1, RunningFacts DEF TypeStatus
<1>3. Turns(c, "run", "user") /\ Len(gen'[c]) = Len(gen[c])
  BY <1>1, <1>2, GotoTurns DEF Frames
<1>4. HistoryGrows
  BY <1>1 DEF HistoryGrows
<1>5. WakeOf(c)'
  <2> SUFFICES ASSUME c \notin Spoilt' PROVE WakeOf(c)'
    BY DEF WakeOf
  <2>1. c \notin Spoilt /\ WakeOf(c)
    BY <1>4, SpoiltGrows DEF Coro
  <2>2. c \in Running' /\ Last(ctl').at = "user"
    BY <1>2, <1>3 DEF Turns
  <2>3. \A o \in 1 .. Len(owner) : ~(owner[o] = c /\ o \notin done)
    BY <1>2, <2>1 DEF WakeOf
  <2> QED
    BY <1>1, <1>2, <2>1, <2>2, <2>3 DEF WakeOf
<1>6. status' = [status EXCEPT ![c] = status'[c]] /\ status'[c] \in {0, 1}
  BY <1>1, <1>2
<1>7. Len(gen'[c]) >= Len(gen[c])
  BY <1>3, Types DEF Inv, TypeGen
<1> QED
  BY <1>1, <1>3, <1>4, <1>5, <1>6, <1>7, TurnFacts

LEMMA RunNestedStep ==
  ASSUME Inv, CosAssumption, BoundsAssumption, NEW c \in Cos, RunNested(c)
  PROVE  Inv'
<1> TypeOK' /\ TypeStatus /\ TypeOps /\ Coro(c) /\ exc = NoCo /\ exc' = exc
  BY RunType, Types DEF Inv, RunNested, control
<1>1. /\ In(c, "run") /\ Top(c) = "gen"
      /\ gen' = [gen EXCEPT ![c] = Append(@, "fresh")]
      /\ UNCHANGED <<life, status, stack, timer, timerq, after, owner, wait, done, told, logged,
                     forgot, crossed, stopped, ctl>>
  BY DEF RunNested, RunRest, ops, control
<1>2. /\ ctl # << >> /\ c \in Running /\ Last(ctl).co = c /\ gen[c] # << >> /\ Last(ctl).at = "run"
      /\ life[c] = "alive" /\ status[c] \in {0, 1} /\ ctl \in Seq(Calls) /\ gen \in [Cos -> Seq(Frames)]
  BY <1>1, RunningFacts, Types DEF Inv, TypeCtl, Calls, TypeGen
<1>3. Turns(c, "fresh", "run") /\ Len(gen'[c]) = Len(gen[c]) + 1 /\ Len(gen[c]) \in Nat
  <2> DEFINE s == gen[c]  t == gen'[c]
  <2>1. s \in Seq(Frames) /\ "fresh" \in Frames /\ t = Append(s, "fresh")
    BY <1>1, <1>2 DEF Frames
  <2>2. s # << >> /\ Last(s) = "gen" /\ \A i \in 1 .. Len(s) : i # Len(s) => s[i] = "gen"
    BY <1>1, <1>2 DEF Coro, GenOf, Top
  <2>3. \A d \in Cos : d # c => gen'[d] = gen[d]
    BY <1>1, <1>2
  <2> HIDE DEF s, t
  <2>4. /\ Len(s) \in Nat /\ t \in Seq(Frames) /\ t # << >> /\ Len(t) = Len(s) + 1
        /\ Last(t) = "fresh" /\ \A i \in 1 .. Len(s) : t[i] = s[i]
    BY <2>1, AppendFacts
  <2>5. \A i \in 1 .. Len(s) : s[i] = "gen"
    BY <2>2 DEF Last
  <2>6. \A i \in 1 .. Len(t) : i # Len(t) => t[i] = "gen"
    BY <2>4, <2>5
  <2>7. gen' \in [Cos -> Seq(Frames)]
    BY <1>1, <1>2, <2>1, <2>4 DEF s, t
  <2>8. /\ ctl' \in Seq(Calls) /\ ctl' # << >> /\ Len(ctl') = Len(ctl)
        /\ Last(ctl').co = Last(ctl).co /\ Last(ctl').at = "run"
        /\ SameBelow(Len(ctl) - 1)
        /\ Running' = Running
    BY <1>1, <1>2 DEF SameBelow, Running
  <2> QED
    BY <2>3, <2>4, <2>6, <2>7, <2>8 DEF s, t, Turns, Top
<1>4. HistoryGrows
  BY <1>1 DEF HistoryGrows
<1>5. WakeOf(c)'
  <2> SUFFICES ASSUME c \notin Spoilt' PROVE WakeOf(c)'
    BY DEF WakeOf
  <2>1. c \notin Spoilt /\ WakeOf(c)
    BY <1>4, SpoiltGrows DEF Coro
  <2>2. c \in Running'
    BY <1>2, <1>3 DEF Turns
  <2>3. \A o \in 1 .. Len(owner) : (owner[o] = c /\ o \notin done) =>
           life[c] = "alive" /\ timer[c] = "idle" /\ wait[c] = o /\ status[c] = 1
    BY <1>2, <2>1 DEF WakeOf
  <2>4. status[c] = 1 => c \in forgot
    BY <1>1, <1>2, <2>1 DEF WakeOf
  <2> QED
    BY <1>1, <1>2, <2>1, <2>2, <2>3, <2>4 DEF WakeOf
<1>6. status' = [status EXCEPT ![c] = status'[c]] /\ status'[c] \in {0, 1}
  BY <1>1, <1>2 DEF TypeStatus
<1>7. Len(gen'[c]) >= Len(gen[c])
  BY <1>3
<1> QED
  BY <1>1, <1>3, <1>4, <1>5, <1>6, <1>7, TurnFacts

-----------------------------------------------------------------------------
(* Off the call stack.                                                     *)

(* The coroutine on top leaves with its generators as they are.            *)
LEMMA LeaveStep ==
  ASSUME Inv, CosAssumption, TypeOK', NEW c \in Cos, In(c, "run"), Leave,
         UNCHANGED <<life, gen, stack, after, owner, wait, done, stopped, exc, forgot, logged>>,
         told \subseteq told',
         \A d \in Cos : d # c => status'[d] = status[d] /\ timer'[d] = timer[d],
         c \notin crossed => Top(c) \in {"ptr", "gen", "end", "thrown"},
         (exc = c /\ c \notin crossed) => Top(c) \in {"end", "thrown"},
         \/ status'[c] = 0 /\ timer'[c] = timer[c]
         \/ status'[c] = 0 /\ timer'[c] = "resume" /\ Len(gen[c]) >= 2
         \/ /\ status'[c] = -1 /\ timer'[c] = "closing"
            /\ c \notin crossed => Len(gen[c]) = 1 /\ Top(c) \in {"end", "thrown"},
         WakeOf(c)'
  PROVE  Inv'
<1> TypeOps /\ TypeCtl /\ ctl \in Seq(Calls) /\ Coro(c) /\ Stacked /\ PendingOnTop /\ TypeGen
  BY Types DEF Inv, TypeCtl, Calls, StackInv
<1>1. /\ ctl # << >> /\ c \in Running /\ Last(ctl).co = c /\ gen[c] # << >> /\ Last(ctl).at = "run"
      /\ life[c] = "alive" /\ status[c] \in {0, 1} /\ timer[c] \in {"idle", "resume"}
  BY RunningFacts
<1>2. /\ ctl' \in Seq(Calls) /\ Len(ctl') = Len(ctl) - 1 /\ SameBelow(Len(ctl) - 1)
      /\ Running' = Running \ {c}
  BY <1>1, LeaveFacts DEF Leave, Stacked
<1>3. \A d \in Cos : d # c => SameCo(d) /\ SameFrame(d)
  BY <1>2 DEF SameCo, SameFrame
<1>4. Asks(c) /\ Answers(c) /\ HistoryGrows
  BY DEF Asks, Answers, HistoryGrows, Leave
<1>5. Stacked' /\ (ctl' # << >> => Last(ctl').at = "user" /\ status'[Last(ctl').co] = 0)
  BY <1>1, <1>2, <1>3, StackShrinks
<1>6. PendingOnTop'
  <2> SUFFICES ASSUME ctl' # << >>, exc # NoCo
               PROVE  Last(ctl').co \in crossed' /\ exc' \in crossed' /\ Last(ctl').at # "run"
    BY DEF PendingOnTop
  <2>1. Len(ctl) \in Nat /\ Len(ctl) > 1 /\ Len(ctl) - 1 \in 1 .. Len(ctl) - 1
    BY <1>1, <1>2
  <2>2. Last(ctl') = ctl[Len(ctl) - 1]
    BY <1>2, <2>1 DEF SameBelow, Last
  <2> QED
    BY <1>5, <2>1, <2>2 DEF Leave
<1>7. Top(c) \notin {"run", "plain"}
  BY <1>1, LastCall DEF Stacked, Last
<1>8. LifeOf(c)'
  BY <1>1, <1>2 DEF LifeOf, Coro
<1>9. GenOf(c)'
  BY <1>1, <1>2, <1>4, <1>7 DEF GenOf, Coro, Top, HistoryGrows
<1>10. EndOf(c)'
  <2>1. c \notin crossed' => c \notin crossed
    BY <1>4 DEF HistoryGrows
  <2>2. LifeOf(c) /\ EndOf(c)
    BY DEF Coro
  <2> QED
    BY <1>1, <2>1, <2>2 DEF EndOf, LifeOf, Top
<1>11. Coro(c)'
  BY <1>8, <1>9, <1>10 DEF Coro
<1> QED
  BY <1>1, <1>3, <1>4, <1>5, <1>6, <1>11, OneMoves DEF StackInv

LEMMA RunPointerLeaves ==
  ASSUME Inv, CosAssumption, BoundsAssumption, NEW c \in Cos, RunPointer(c), status[c] = 1
  PROVE  Inv'
<1> TypeOK' /\ TypeStatus /\ TypeOps /\ Coro(c) /\ Stacked /\ ctl \in Seq(Calls)
  BY RunType, Types DEF Inv, StackInv, TypeCtl, Calls
<1>1. /\ In(c, "run") /\ Leave /\ Top(c) = "ptr" /\ exc = NoCo
      /\ status' = [status EXCEPT ![c] = 0]
      /\ UNCHANGED <<life, gen, stack, timer, after, owner, wait, done, stopped, exc, forgot, logged, told>>
  BY DEF RunPointer, RunRest, ops
<1>2. ctl # << >> /\ c \in Running /\ Last(ctl).co = c /\ life[c] = "alive"
  BY <1>1, RunningFacts
<1>3. Running' = Running \ {c}
  BY <1>1, <1>2, LeaveFacts DEF Leave, Stacked
<1>4. WakeOf(c)'
  <2> SUFFICES ASSUME c \notin Spoilt' PROVE WakeOf(c)'
    BY DEF WakeOf
  <2>1. c \notin Spoilt /\ WakeOf(c)
    BY <1>1 DEF Spoilt, Coro
  <2>2. status'[c] = 0 /\ Top(c)' = "ptr" /\ c \notin Running'
    BY <1>1, <1>3 DEF TypeStatus, Top
  <2>3. \A o \in 1 .. Len(owner) : (owner[o] = c /\ o \notin done) =>
           life[c] = "alive" /\ timer[c] = "idle" /\ wait[c] = o
    BY <2>1 DEF WakeOf
  <2> QED
    BY <1>1, <2>1, <2>2, <2>3 DEF WakeOf
<1>5. \A d \in Cos : d # c => status'[d] = status[d] /\ timer'[d] = timer[d]
  BY <1>1 DEF TypeStatus
<1>6. status'[c] = 0 /\ timer'[c] = timer[c]
  BY <1>1 DEF TypeStatus
<1>7. exc # c
  BY <1>1 DEF CosAssumption
<1> QED
  BY <1>1, <1>4, <1>5, <1>6, <1>7, LeaveStep

(* A coroutine on its way out of run() at the end of a generator, or with  *)
(* an exception, has no operation in flight, or is told that it forgot to  *)
(* yield it.                                                               *)
LEMMA NothingLeft ==
  ASSUME Inv, NEW c \in Cos, In(c, "run"), c \notin Spoilt,
         exc # NoCo \/ Top(c) \in {"end", "thrown"}
  PROVE  \/ status[c] = 1 /\ c \in forgot
         \/ /\ status[c] = 0
            /\ \A o \in 1 .. Len(owner) : owner[o] = c => o \in done
            /\ stack[c] = 0
<1>1. /\ c \in Running /\ Last(ctl).at = "run" /\ status[c] \in {0, 1} /\ WakeOf(c) /\ OpsInv
      /\ stack[c] \in Nat /\ Len(owner) \in Nat
  BY RunningFacts, Types DEF Inv, Coro, TypeStatus, TypeOps
<1>2. status[c] = 1 => c \in forgot
  BY <1>1 DEF WakeOf
<1>3. status[c] = 0 => \A o \in 1 .. Len(owner) : owner[o] = c => o \in done
  BY <1>1 DEF WakeOf
<1>4. status[c] = 0 => stack[c] = 0
  <2>1. wait[c] \in 0 .. Len(owner) /\ (wait[c] # 0 => owner[wait[c]] = c)
    BY <1>1 DEF OpsInv
  <2>2. wait[c] # 0 => wait[c] \in 1 .. Len(owner)
    BY <1>1, <2>1
  <2> QED
    BY <1>1, <1>3, <2>1, <2>2 DEF WakeOf
<1> QED
  BY <1>1, <1>2, <1>3, <1>4

LEMMA CloseStep ==
  ASSUME Inv, CosAssumption, BoundsAssumption, NEW c \in Cos, RunFailed(c) \/ RunEnded(c)
  PROVE  Inv'
<1> /\ TypeOK' /\ TypeStatus /\ TypeOps /\ Coro(c) /\ Stacked /\ PendingOnTop /\ ctl \in Seq(Calls)
    /\ TypeGen /\ TypeLife
  BY RunType, Types DEF Inv, StackInv, TypeCtl, Calls
<1>1. /\ In(c, "run")
      /\ UNCHANGED <<life, gen, stack, after, owner, wait, done, forgot, logged>>
      /\ exc # NoCo \/ Top(c) \in {"end", "thrown"}
  BY DEF RunFailed, RunEnded, RunRest, ops
<1>2. PICK st \in {0, status[c]} :
        /\ Close(c, st)
        /\ exc = NoCo => st = status[c] /\ Top(c) \in {"end", "thrown"}
  BY DEF RunFailed, RunEnded
<1>3. /\ ctl # << >> /\ c \in Running /\ Last(ctl).co = c /\ life[c] = "alive" /\ gen[c] # << >>
      /\ Last(ctl).at = "run" /\ status[c] \in {0, 1} /\ timer[c] \in {"idle", "resume"}
  BY <1>1, RunningFacts
<1>4. told \subseteq told' /\ ((status[c] = 1 \/ exc # NoCo) => c \in told')
  BY <1>2 DEF Close
<1>5. c \notin Spoilt' =>
        /\ c \notin Spoilt /\ status[c] = 0
        /\ \A o \in 1 .. Len(owner) : owner[o] = c => o \in done
        /\ stack[c] = 0
  <2> SUFFICES ASSUME c \notin Spoilt'
               PROVE  /\ c \notin Spoilt /\ status[c] = 0
                      /\ \A o \in 1 .. Len(owner) : owner[o] = c => o \in done
                      /\ stack[c] = 0
    OBVIOUS
  <2>1. c \notin Spoilt
    BY <1>1, <1>4 DEF Spoilt
  <2>2. ~(status[c] = 1 /\ c \in forgot)
    BY <1>1, <1>4 DEF Spoilt
  <2> QED
    BY <1>1, <2>1, <2>2, NothingLeft
<1>6. ASSUME status'[c] \in {-1, 0} PROVE WakeOf(c)'
  <2> SUFFICES ASSUME c \notin Spoilt' PROVE WakeOf(c)'
    BY DEF WakeOf
  <2>1. c \in Running' => timer'[c] = "idle"
    <3>1. CASE Leave
      BY <1>3, <3>1, LeaveFacts DEF Leave, Stacked
    <3>2. CASE UNCHANGED <<ctl, timer>>
      BY <1>3, <1>5, <3>2 DEF WakeOf, Coro, Running
    <3> QED
      BY <1>2, <3>1, <3>2 DEF Close
  <2> QED
    BY <1>1, <1>5, <1>6, <2>1 DEF WakeOf
<1>7. CASE st > 0 /\ phase' = "fatal"
            /\ UNCHANGED <<ctl, exc, stopped, status, timer, timerq, crossed>>
  <2>1. status[c] = 1 /\ c \in told'
    BY <1>2, <1>3, <1>4, <1>7
  <2>2. WakeOf(c)'
    BY <1>5, <2>1 DEF WakeOf
  <2>3. /\ Asks(c) /\ Answers(c) /\ HistoryGrows /\ Running' = Running
        /\ \A d \in Cos : SameCo(d) /\ SameFrame(d)
    BY <1>1, <1>4, <1>7 DEF Asks, Answers, HistoryGrows, SameCo, SameFrame, Running
  <2>4. StackInv'
    <3>1. Stacked'
      <4>1. \A d \in Running : SameFrame(d)
        BY <1>1, <1>7 DEF SameFrame
      <4> QED
        BY <1>7, <4>1, StackUntouched
    <3>2. PendingOnTop'
      BY <1>1, <1>7 DEF PendingOnTop, Top
    <3> QED
      BY <3>1, <3>2 DEF StackInv
  <2>5. LifeOf(c)' /\ GenOf(c)' /\ EndOf(c)'
    BY <1>1, <1>7, <2>3 DEF Coro, LifeOf, GenOf, EndOf, Top
  <2> QED
    BY <1>1, <1>3, <1>7, <2>2, <2>3, <2>4, <2>5, OneMoves DEF Coro
<1>8. CASE /\ Leave
           /\ status' = [status EXCEPT ![c] = IF Len(gen[c]) = 1 THEN -1 ELSE 0]
           /\ timer' = [timer EXCEPT ![c] = IF Len(gen[c]) = 1 THEN "closing" ELSE "resume"]
           /\ UNCHANGED <<phase, exc, stopped>>
  <2>1. c \notin crossed => Top(c) \in {"end", "thrown"}
    BY <1>2, <1>3 DEF PendingOnTop
  <2>2. \A d \in Cos : d # c => status'[d] = status[d] /\ timer'[d] = timer[d]
    BY <1>8 DEF TypeStatus, TypeLife
  <2>3. \/ status'[c] = 0 /\ timer'[c] = "resume" /\ Len(gen[c]) # 1
        \/ status'[c] = -1 /\ timer'[c] = "closing" /\ Len(gen[c]) = 1
    BY <1>8 DEF TypeStatus, TypeLife
  <2>4. Len(gen[c]) # 1 => Len(gen[c]) >= 2
    <3>1. gen[c] \in Seq(Frames)
      BY DEF TypeGen
    <3> QED
      BY <1>3, <3>1, TwoOrMore
  <2>5. WakeOf(c)'
    BY <1>6, <2>3
  <2>6. \/ status'[c] = 0 /\ timer'[c] = "resume" /\ Len(gen[c]) >= 2
        \/ /\ status'[c] = -1 /\ timer'[c] = "closing"
           /\ c \notin crossed => Len(gen[c]) = 1 /\ Top(c) \in {"end", "thrown"}
    BY <2>1, <2>3, <2>4
  <2>7. c \notin crossed => Top(c) \in {"ptr", "gen", "end", "thrown"}
    BY <2>1
  <2> QED
    BY <1>1, <1>4, <1>8, <2>1, <2>2, <2>5, <2>6, <2>7, LeaveStep
<1> QED
  BY <1>2, <1>7, <1>8 DEF Close

-----------------------------------------------------------------------------
(* On the call stack: next(), fail() and the callbacks of timer_.          *)

(* How c goes on with the generators g: it stays where it is, its next     *)
(* stage started; it is in PHP code, its top generator resumed; or it is   *)
(* in run(), because the generator could not be entered.                   *)
StaysWaiting(c, g, e) ==
  /\ e = NoCo /\ stack[c] > 0 /\ stack'[c] = stack[c] - 1
  /\ owner' = Append(owner, c) /\ wait' = [wait EXCEPT ![c] = Len(owner) + 1]
  /\ gen'[c] = g /\ UNCHANGED <<exc, ctl, crossed>>

GoesOn(c, g, e) ==
  /\ stack'[c] = IF e = NoCo /\ stack[c] > 0 THEN stack[c] - 1 ELSE 0
  /\ UNCHANGED <<owner, wait>>
  /\ crossed' = IF exc \in {NoCo, c} THEN crossed ELSE crossed \cup {c, exc}
  /\ exc' = IF exc \in {NoCo, e} THEN e ELSE exc
  /\ gen'[c] \in Seq(Frames) /\ Len(gen'[c]) = Len(g) /\ gen'[c] # << >>
  /\ \A i \in 1 .. Len(gen'[c]) : i # Len(gen'[c]) => gen'[c][i] = g[i]
  /\ ctl' \in Seq(Calls) /\ ctl' # << >> /\ Len(ctl') = Len(ctl) + 1
  /\ SameBelow(Len(ctl)) /\ Running' = Running \cup {c} /\ Last(ctl').co = c
  /\ \/ /\ Top(c)' = "run" /\ Last(ctl').at = "user"
        /\ exc \in {NoCo, e}
     \/ /\ Top(c)' = Last(g) /\ Last(ctl').at = "run"
        /\ exc \in {NoCo, e} => Last(g) \notin {"ptr", "gen"}

LEMMA DeliverFacts ==
  ASSUME TypeOK, NEW c \in Cos, NEW g \in Seq(Frames), g # << >>, NEW e, Deliver(c, g, e)
  PROVE  /\ \A d \in Cos : d # c => gen'[d] = gen[d] /\ stack'[d] = stack[d]
         /\ StaysWaiting(c, g, e) \/ GoesOn(c, g, e)
<1> TypeGen /\ TypeStatus /\ ctl \in Seq(Calls)
  BY Types DEF TypeCtl, Calls
<1>1. CASE /\ e = NoCo /\ stack[c] > 0 /\ Len(owner) < MaxOps
           /\ stack' = [stack EXCEPT ![c] = @ - 1]
           /\ owner' = Append(owner, c)
           /\ wait' = [wait EXCEPT ![c] = Len(owner) + 1]
           /\ gen' = [gen EXCEPT ![c] = g]
           /\ UNCHANGED <<exc, ctl, crossed>>
  BY <1>1 DEF TypeGen, TypeStatus, StaysWaiting
<1>2. CASE /\ stack' = [stack EXCEPT ![c] = IF e = NoCo /\ @ > 0 THEN @ - 1 ELSE 0]
           /\ Resume(c, g, e)
           /\ UNCHANGED <<owner, wait>>
  <2>1. /\ stack'[c] = IF e = NoCo /\ stack[c] > 0 THEN stack[c] - 1 ELSE 0
        /\ \A d \in Cos : d # c => stack'[d] = stack[d]
    BY <1>2 DEF TypeStatus
  <2>2. /\ crossed' = IF exc \in {NoCo, c} THEN crossed ELSE crossed \cup {c, exc}
        /\ exc' = IF exc \in {NoCo, e} THEN e ELSE exc
    BY <1>2 DEF Resume
  <2> DEFINE h == Append(Front(g), "run")
  <2>3. /\ h \in Seq(Frames) /\ Len(h) = Len(g) /\ h # << >> /\ Last(h) = "run"
        /\ \A i \in 1 .. Len(g) : i # Len(g) => h[i] = g[i]
    BY ReplaceTopFacts DEF Frames
  <2>4. \/ /\ exc \in {NoCo, e} /\ Last(g) \in {"ptr", "gen"}
           /\ gen' = [gen EXCEPT ![c] = h] /\ Enter(c, "user")
        \/ /\ ~(exc \in {NoCo, e} /\ Last(g) \in {"ptr", "gen"})
           /\ gen' = [gen EXCEPT ![c] = g] /\ Enter(c, "run")
    BY <1>2 DEF Resume
  <2> HIDE DEF h
  <2>5. CASE /\ exc \in {NoCo, e} /\ Last(g) \in {"ptr", "gen"}
             /\ gen' = [gen EXCEPT ![c] = h] /\ Enter(c, "user")
    <3>1. gen'[c] = h /\ \A d \in Cos : d # c => gen'[d] = gen[d]
      BY <2>5 DEF TypeGen
    <3>2. /\ ctl' \in Seq(Calls) /\ ctl' # << >> /\ Len(ctl') = Len(ctl) + 1
          /\ Last(ctl').co = c /\ Last(ctl').at = "user"
          /\ SameBelow(Len(ctl)) /\ Running' = Running \cup {c}
      BY <2>5, EnterFacts
    <3> QED
      BY <1>2, <2>1, <2>2, <2>3, <2>5, <3>1, <3>2 DEF GoesOn, Top
  <2>6. CASE /\ ~(exc \in {NoCo, e} /\ Last(g) \in {"ptr", "gen"})
             /\ gen' = [gen EXCEPT ![c] = g] /\ Enter(c, "run")
    <3>1. gen'[c] = g /\ \A d \in Cos : d # c => gen'[d] = gen[d]
      BY <2>6 DEF TypeGen
    <3>2. /\ ctl' \in Seq(Calls) /\ ctl' # << >> /\ Len(ctl') = Len(ctl) + 1
          /\ Last(ctl').co = c /\ Last(ctl').at = "run"
          /\ SameBelow(Len(ctl)) /\ Running' = Running \cup {c}
      BY <2>6, EnterFacts
    <3> QED
      BY <1>2, <2>1, <2>2, <2>6, <3>1, <3>2 DEF GoesOn, Top
  <2> QED
    BY <2>4, <2>5, <2>6
<1> QED
  BY <1>1, <1>2 DEF Deliver

LEMMA DeliverStep ==
  ASSUME Inv, CosAssumption, TypeOK',
         NEW c \in Cos, NEW g \in Seq(Frames), g # << >>, NEW e \in {NoCo, c, exc}, Deliver(c, g, e),
         c \notin Running, life[c] = "alive", status[c] # -1, gen[c] # << >>,
         ctl # << >> => exc = NoCo /\ Last(ctl).at = "user" /\ status[Last(ctl).co] = 0,
         \A d \in Cos : d # c => timer'[d] = timer[d],
         timer'[c] = "idle" \/ (timer'[c] = timer[c] /\ Len(g) = Len(gen[c])),
         \A i \in 1 .. Len(g) : i # Len(g) => g[i] = "gen",
         Last(g) = "gen" => Len(g) < MaxDepth,
         Last(g) \notin {"run", "plain"},
         c \notin crossed => Last(g) \in {"ptr", "gen", "end", "thrown"},
         (c \notin crossed /\ exc = c /\ e = NoCo) => Last(g) \in {"end", "thrown"},
         (c \notin crossed /\ Last(g) = "thrown") => exc = c,
         UNCHANGED <<life, status, after, told, forgot, logged, stopped>>, Answers(c),
         WakeOf(c)'
  PROVE  Inv'
<1> TypeOK /\ TypeOps /\ TypeCtl /\ ctl \in Seq(Calls) /\ Coro(c) /\ Stacked /\ PendingOnTop
  BY Types DEF Inv, TypeCtl, Calls, StackInv
<1>1. /\ \A d \in Cos : d # c => gen'[d] = gen[d] /\ stack'[d] = stack[d]
      /\ StaysWaiting(c, g, e) \/ GoesOn(c, g, e)
  BY DeliverFacts
<1>2. timer[c] \in {"idle", "resume"} /\ ~after[c] /\ LifeOf(c) /\ EndOf(c)
  BY Types DEF Coro, LifeOf, TypeLife
<1>3. CASE StaysWaiting(c, g, e)
  <2>1. gen'[c] = g /\ UNCHANGED <<exc, ctl, crossed>> /\ Running' = Running /\ e = NoCo
    BY <1>3 DEF StaysWaiting, Running
  <2>2. Asks(c) /\ HistoryGrows
    BY <1>3, <2>1 DEF StaysWaiting, Asks, HistoryGrows
  <2>3. \A d \in Cos : d # c => SameCo(d) /\ SameFrame(d)
    BY <1>1, <2>1 DEF SameCo, SameFrame
  <2>4. StackInv'
    <3>1. \A d \in Running : d \in Cos /\ d # c
      BY CallTypes DEF Running
    <3>2. Stacked'
      BY <2>1, <2>3, <3>1, StackUntouched
    <3>3. ctl # << >> => exc = NoCo
      OBVIOUS
    <3>4. PendingOnTop'
      BY <2>1, <3>3 DEF PendingOnTop
    <3> QED
      BY <3>2, <3>4 DEF StackInv
  <2>5. LifeOf(c)'
    BY <1>2, <2>1 DEF LifeOf
  <2>6. GenOf(c)'
    BY <2>1 DEF GenOf, Top
  <2>7. EndOf(c)'
    BY <1>2, <2>1 DEF EndOf, Top
  <2> QED
    BY <2>1, <2>2, <2>3, <2>4, <2>5, <2>6, <2>7, OneMoves DEF Coro
<1>4. CASE GoesOn(c, g, e)
  <2>1. /\ crossed' = IF exc \in {NoCo, c} THEN crossed ELSE crossed \cup {c, exc}
        /\ exc' = IF exc \in {NoCo, e} THEN e ELSE exc
        /\ gen'[c] \in Seq(Frames) /\ Len(gen'[c]) = Len(g) /\ gen'[c] # << >>
        /\ \A i \in 1 .. Len(gen'[c]) : i # Len(gen'[c]) => gen'[c][i] = g[i]
        /\ ctl' \in Seq(Calls) /\ ctl' # << >> /\ Len(ctl') = Len(ctl) + 1
        /\ SameBelow(Len(ctl)) /\ Running' = Running \cup {c} /\ Last(ctl').co = c
        /\ UNCHANGED <<owner, wait>>
    BY <1>4 DEF GoesOn
  <2>2. \/ /\ Top(c)' = "run" /\ Last(ctl').at = "user"
           /\ exc \in {NoCo, e}
        \/ /\ Top(c)' = Last(g) /\ Last(ctl').at = "run"
           /\ exc \in {NoCo, e} => Last(g) \notin {"ptr", "gen"}
    BY <1>4 DEF GoesOn
  <2>3. Asks(c) /\ HistoryGrows
    BY <2>1 DEF Asks, HistoryGrows
  <2>4. \A d \in Cos : d # c => SameCo(d) /\ SameFrame(d)
    BY <1>1, <2>1 DEF SameCo, SameFrame
  <2>5. Stacked'
    <3>1. RightPlace(c)'
      BY <2>2 DEF RightPlace
    <3>2. RightPlace(Last(ctl).co)'
      BY <2>1, <3>1 DEF RightPlace, Top
    <3> QED
      BY <2>1, <2>4, <3>2, StackGrows
  <2>6. PendingOnTop'
    <3>1. (exc' # NoCo /\ exc' # c) => c \in crossed' /\ exc' \in crossed'
      BY <2>1
    <3>2. (exc' # NoCo /\ Last(ctl').at = "run" /\ c \notin crossed') => Last(g) \in {"end", "thrown"}
      BY <2>1, <2>2
    <3>3. (exc' # NoCo /\ Last(ctl').at = "run" /\ c \notin crossed')
            => Last(gen'[Last(ctl').co]) \in {"end", "thrown"}
      BY <2>1, <2>2, <3>2 DEF Top
    <3> QED
      BY <2>1, <3>1, <3>3 DEF PendingOnTop, Top
  <2>7. LifeOf(c)'
    BY <1>2, <2>1 DEF LifeOf
  <2>8. GenOf(c)'
    <3>1. c \in Running'
      BY <2>1
    <3>2. Top(c)' = "gen" => Len(gen'[c]) < MaxDepth
      BY <2>1, <2>2
    <3>3. \A i \in 1 .. Len(gen'[c]) : i # Len(gen'[c]) => gen'[c][i] = "gen"
      BY <2>1
    <3> QED
      BY <3>1, <3>2, <3>3 DEF GenOf
  <2>9. EndOf(c)'
    <3>1. c \notin crossed' => c \notin crossed /\ exc \in {NoCo, c}
      BY <2>1
    <3>2. (c \notin crossed' /\ Top(c)' = "thrown") => exc' = c
      BY <2>1, <2>2, <3>1
    <3> QED
      BY <1>2, <2>1, <3>1, <3>2 DEF EndOf
  <2>10. exc' \in {exc, c, NoCo} /\ (exc' = exc \/ exc \in {NoCo, c} \/ exc \in crossed')
    BY <2>1
  <2> QED
    BY <2>1, <2>3, <2>4, <2>5, <2>6, <2>7, <2>8, <2>9, <2>10, OneMoves DEF Coro, StackInv
<1> QED
  BY <1>1, <1>3, <1>4

LEMMA CompleteStep ==
  ASSUME Inv, CosAssumption, BoundsAssumption, NEW o \in 1 .. MaxOps, Complete(o)
  PROVE  Inv'
<1> /\ TypeOK' /\ TypeOps /\ TypeGen /\ TypeStatus /\ TypeLife /\ OpsInv /\ Stacked /\ PendingOnTop
    /\ ctl \in Seq(Calls)
  BY LoopType, Types DEF Inv, StackInv, TypeCtl, Calls
<1>0. PICK c \in Cos : c = owner[o]
  BY DEF Complete, Pending, TypeOps
<1>1. o \in 1 .. Len(owner) /\ o \notin done /\ CanComplete(c) /\ done' = done \cup {o}
  BY <1>0 DEF Complete, Pending, TypeOps
<1>2. \A p \in done' : p \in done \/ owner[p] = c
  BY <1>0, <1>1
<1>3. Coro(c) /\ gen[c] # << >>
  BY <1>0, <1>1 DEF Inv, OpsInv
<1>4. UNCHANGED <<life, status, timer, timerq, after, told, forgot, logged, stopped>>
  BY DEF Complete
<1>5. /\ c \notin Running
      /\ ctl # << >> => exc = NoCo /\ Last(ctl).at = "user" /\ status[Last(ctl).co] = 0
  <2>1. CASE ctl = << >>
    BY <2>1 DEF Running
  <2>2. CASE ctl # << >>
    <3>1. c \notin Running /\ \E d \in Running : User(d) /\ status[d] = 0
      BY <1>1, <2>2 DEF CanComplete, Looping
    <3>2. PICK d \in Running : User(d) /\ status[d] = 0
      BY <3>1
    <3>3. d \in Cos /\ exc = NoCo /\ In(d, "user")
      BY <3>2, CallTypes DEF User, Running
    <3>4. Last(ctl).co = d /\ Last(ctl).at = "user"
      BY <3>3, InFacts
    <3> QED
      BY <3>1, <3>2, <3>3, <3>4
  <2> QED
    BY <2>1, <2>2
<1>6. \/ /\ life[c] = "freed" \/ status[c] < 0
         /\ UNCHANGED <<gen, stack, exc, ctl, crossed, owner, wait>>
      \/ /\ life[c] = "alive" /\ status[c] >= 0
         /\ \E e \in {NoCo, c} : Deliver(c, gen[c], e)
  BY <1>0 DEF Complete
<1>7. Answers(c)
  BY <1>1, <1>2 DEF Answers
<1>8. c \notin Spoilt =>
        /\ life[c] = "alive" /\ timer[c] = "idle" /\ wait[c] = o /\ status[c] = 0 /\ Top(c) = "ptr"
        /\ \A p \in 1 .. Len(owner) : owner[p] = c => p \in done'
        /\ stack[c] \in {0, 1}
  <2>1. stack[c] \in Nat
    BY DEF TypeStatus
  <2> QED
    BY <1>0, <1>1, <1>3, <1>5, <2>1 DEF Coro, WakeOf
<1>9. Spoilt' = Spoilt
  BY <1>4 DEF Spoilt
<1>10. CASE /\ life[c] = "freed" \/ status[c] < 0
            /\ UNCHANGED <<gen, stack, exc, ctl, crossed, owner, wait>>
  <2>1. Running' = Running /\ Asks(c) /\ HistoryGrows
    BY <1>4, <1>10 DEF Running, Asks, HistoryGrows
  <2>2. \A d \in Cos : SameCo(d) /\ SameFrame(d)
    BY <1>4, <1>10, <2>1 DEF SameCo, SameFrame
  <2>3. Stacked'
    <3>1. \A d \in Running : SameFrame(d)
      BY <1>4, <1>10 DEF SameFrame
    <3> QED
      BY <1>10, <3>1, StackUntouched
  <2>4. PendingOnTop'
    BY <1>4, <1>10 DEF PendingOnTop, Top
  <2>5. c \in Spoilt
    BY <1>8, <1>10
  <2>6. WakeOf(c)'
    BY <1>9, <2>5 DEF WakeOf
  <2>7. LifeOf(c)' /\ GenOf(c)' /\ EndOf(c)'
    BY <1>3, <1>4, <1>10, <2>1 DEF Coro, LifeOf, GenOf, EndOf, Top
  <2> QED
    BY <1>1, <1>3, <1>5, <1>7, <1>10, <2>1, <2>2, <2>3, <2>4, <2>6, <2>7, OneMoves DEF Coro, StackInv
<1>11. CASE /\ life[c] = "alive" /\ status[c] >= 0
            /\ \E e \in {NoCo, c} : Deliver(c, gen[c], e)
  <2>0. PICK g \in Seq(Frames) : g = gen[c]
    BY DEF TypeGen
  <2>1. PICK e \in {NoCo, c} : Deliver(c, g, e)
    BY <1>11, <2>0
  <2>2. g # << >> /\ status[c] # -1
    BY <1>3, <1>11, <2>0
  <2>3. /\ \A i \in 1 .. Len(g) : i # Len(g) => g[i] = "gen"
        /\ Last(g) = "gen" => Len(g) < MaxDepth
        /\ Last(g) \notin {"run", "plain"}
        /\ c \notin crossed => Last(g) \in {"ptr", "gen", "end", "thrown"}
    BY <1>3, <1>5, <2>0 DEF Coro, GenOf, Top
  <2>4. /\ (c \notin crossed /\ exc = c /\ e = NoCo) => Last(g) \in {"end", "thrown"}
        /\ (c \notin crossed /\ Last(g) = "thrown") => exc = c
    BY <1>3, <1>5, <1>11, <2>0 DEF Coro, EndOf, Top
  <2>5. StaysWaiting(c, g, e) \/ GoesOn(c, g, e)
    BY <2>1, <2>2, DeliverFacts DEF Inv
  <2>6. WakeOf(c)'
    <3> SUFFICES ASSUME c \notin Spoilt' PROVE WakeOf(c)'
      BY DEF WakeOf
    <3>1. c \notin Spoilt
      BY <1>9
    <3>2. CASE StaysWaiting(c, g, e)
      <4>1. /\ stack[c] > 0 /\ stack'[c] = stack[c] - 1
            /\ owner' = Append(owner, c) /\ wait' = [wait EXCEPT ![c] = Len(owner) + 1]
            /\ Top(c)' = Last(g) /\ c \notin Running' /\ UNCHANGED ctl
        BY <1>5, <3>2 DEF StaysWaiting, Running, Top
      <4>2. Asks(c)
        BY <2>2, <3>2, <4>1 DEF StaysWaiting, Asks
      <4>3. stack'[c] = 0
        BY <1>8, <3>1, <4>1
      <4>4. \A p \in 1 .. Len(owner') : (owner'[p] = c /\ p \notin done') => p = Len(owner) + 1
        BY <1>1, <1>8, <3>1, <4>2, OwnersKept
      <4>5. wait'[c] = Len(owner) + 1
        BY <1>1, <4>1 DEF TypeOps
      <4>6. Last(g) = "ptr"
        BY <1>8, <2>0, <3>1 DEF Top
      <4> QED
        BY <1>4, <1>8, <3>1, <4>1, <4>3, <4>4, <4>5, <4>6 DEF WakeOf
    <3>3. CASE GoesOn(c, g, e)
      <4>1. stack'[c] = 0 /\ UNCHANGED <<owner, wait>>
        <5>1. stack'[c] = (IF e = NoCo /\ stack[c] > 0 THEN stack[c] - 1 ELSE 0)
              /\ UNCHANGED <<owner, wait>>
          BY <3>3 DEF GoesOn
        <5> QED
          BY <1>8, <3>1, <5>1
      <4>2. status'[c] = 0 /\ timer'[c] = "idle"
        BY <1>4, <1>8, <3>1
      <4> QED
        BY <1>8, <3>1, <4>1, <4>2 DEF WakeOf
    <3> QED
      BY <2>5, <3>2, <3>3
  <2>7. \A d \in Cos : timer'[d] = timer[d]
    BY <1>4
  <2>8. Len(g) = Len(gen[c])
    BY <2>0
  <2> QED
    BY <1>1, <1>3, <1>4, <1>5, <1>7, <1>11, <2>1, <2>2, <2>3, <2>4, <2>6, <2>7, <2>8, DeliverStep
<1> QED
  BY <1>6, <1>10, <1>11

LEMMA ResumeCbStep ==
  ASSUME Inv, CosAssumption, BoundsAssumption, NEW c \in Cos, ResumeCb(c)
  PROVE  Inv'
<1> /\ TypeOK' /\ TypeOps /\ TypeGen /\ TypeStatus /\ TypeLife /\ OpsInv /\ Coro(c)
    /\ ctl \in Seq(Calls)
  BY LoopType, Types DEF Inv, StackInv, TypeCtl, Calls
<1>1. /\ ctl = << >> /\ timer[c] = "resume" /\ timer' = [timer EXCEPT ![c] = "idle"]
      /\ Deliver(c, Front(gen[c]), exc)
      /\ UNCHANGED <<life, status, after, stopped, done, told, forgot, logged>>
  BY DEF ResumeCb, Due, Looping
<1>2. Running = {} /\ life[c] = "alive" /\ status[c] # -1
  BY <1>1 DEF Running, Coro, LifeOf
<1>3. PICK g \in Seq(Frames) : g = Front(gen[c])
  BY <1>1, WaitingFacts
<1>4. /\ g # << >> /\ gen[c] # << >> /\ Len(g) < MaxDepth /\ Last(g) = "gen"
      /\ \A i \in 1 .. Len(g) : i # Len(g) => g[i] = "gen"
  BY <1>1, <1>3, WaitingFacts
<1>5. PICK e \in {NoCo, c, exc} : e = exc /\ Deliver(c, g, e)
  BY <1>1, <1>3
<1>6. timer'[c] = "idle" /\ \A d \in Cos : d # c => timer'[d] = timer[d]
  BY <1>1 DEF TypeLife
<1>7. WakeOf(c)'
  <2> SUFFICES ASSUME c \notin Spoilt' PROVE WakeOf(c)'
    BY DEF WakeOf
  <2>1. c \notin Spoilt /\ WakeOf(c)
    BY <1>1 DEF Spoilt, Coro
  <2>2. \A o \in 1 .. Len(owner) : owner[o] = c => o \in done
    BY <1>1, <2>1 DEF WakeOf
  <2>3. stack[c] = 0 /\ status[c] # 1
    <3>1. wait[c] \in 0 .. Len(owner) /\ (wait[c] # 0 => owner[wait[c]] = c) /\ Len(owner) \in Nat
      BY DEF OpsInv, TypeOps
    <3>2. wait[c] # 0 => wait[c] \in 1 .. Len(owner)
      BY <3>1
    <3> QED
      BY <1>2, <2>1, <2>2, <3>1, <3>2 DEF WakeOf
  <2>4. GoesOn(c, g, e)
    <3>1. ~(stack[c] > 0)
      BY <2>3
    <3> QED
      BY <1>4, <1>5, <3>1, DeliverFacts DEF Inv, StaysWaiting
  <2>5. stack'[c] = 0 /\ UNCHANGED <<owner, wait>>
    BY <2>3, <2>4 DEF GoesOn
  <2> QED
    BY <1>1, <1>6, <2>2, <2>3, <2>5 DEF WakeOf
<1>8. Answers(c)
  BY <1>1 DEF Answers
<1>9. (c \notin crossed /\ exc = c /\ e = NoCo) => Last(g) \in {"end", "thrown"}
  BY <1>5 DEF CosAssumption
<1> QED
  BY <1>1, <1>2, <1>4, <1>5, <1>6, <1>7, <1>8, <1>9, DeliverStep

LEMMA StartCbStep ==
  ASSUME Inv, CosAssumption, BoundsAssumption, NEW c \in Cos, StartCb(c)
  PROVE  Inv'
<1> /\ TypeOK' /\ TypeOps /\ TypeGen /\ TypeStatus /\ TypeLife /\ OpsInv /\ Coro(c) /\ Stacked
    /\ ctl \in Seq(Calls)
  BY LoopType, Types DEF Inv, StackInv, TypeCtl, Calls
<1>1. /\ ctl = << >> /\ timer[c] = "start" /\ timer' = [timer EXCEPT ![c] = "idle"]
      /\ UNCHANGED <<life, status, stack, after, stopped, exc, owner, wait, done, told, forgot, logged>>
  BY DEF StartCb, Due, Looping, ops
<1>2. Running = {} /\ life[c] = "alive" /\ status[c] = 0 /\ gen[c] = << >> /\ ~after[c]
  BY <1>1 DEF Running, Coro, LifeOf
<1>3. /\ Asks(c) /\ Answers(c)
      /\ timer'[c] = "idle" /\ \A d \in Cos : d # c => timer'[d] = timer[d]
  BY <1>1 DEF TypeLife, Asks, Answers
<1>4. /\ crossed \subseteq crossed'
      /\ exc # NoCo => c \in crossed' /\ exc \in crossed'
  BY DEF StartCb
<1>5. HistoryGrows
  BY <1>1, <1>4 DEF HistoryGrows
<1>6. \/ UNCHANGED <<gen, ctl>>
      \/ \E f \in {"fresh", "plain"} :
            /\ gen' = [gen EXCEPT ![c] = <<f>>]
            /\ Enter(c, IF f = "plain" THEN "user" ELSE "run")
  BY DEF StartCb
<1>7. c \in Running' \/ UNCHANGED <<gen, ctl>>
  BY <1>6, EnterFacts
<1>8. WakeOf(c)'
  <2> SUFFICES ASSUME c \notin Spoilt' PROVE WakeOf(c)'
    BY DEF WakeOf
  <2>1. c \notin Spoilt /\ WakeOf(c)
    BY <1>1 DEF Spoilt, Coro
  <2>2. \A o \in 1 .. Len(owner) : owner[o] # c
    BY <1>2 DEF OpsInv
  <2> QED
    BY <1>1, <1>2, <1>3, <2>1, <2>2 DEF WakeOf
<1>9. CASE UNCHANGED <<gen, ctl>>
  <2>1. \A d \in Cos : d # c => SameCo(d)
    BY <1>1, <1>3, <1>9 DEF SameCo, Running
  <2>2. StackInv'
    <3>1. UNCHANGED ctl /\ \A d \in Running : SameFrame(d)
      BY <1>2, <1>9
    <3>2. Stacked'
      BY <3>1, StackUntouched
    <3>3. PendingOnTop'
      BY <1>1, <1>9 DEF PendingOnTop
    <3> QED
      BY <3>2, <3>3 DEF StackInv
  <2>3. c \notin Running'
    BY <1>2, <1>9 DEF Running
  <2>4. LifeOf(c)' /\ EndOf(c)'
    BY <1>1, <1>2, <1>3, <1>9, <2>3 DEF LifeOf, EndOf
  <2>5. GenOf(c)'
    <3>1. gen'[c] = << >> /\ Len(<< >>) = 0 /\ 1 .. 0 = {}
      BY <1>2, <1>9
    <3> QED
      BY <3>1 DEF GenOf
  <2> QED
    BY <1>1, <1>2, <1>3, <1>5, <1>8, <2>1, <2>2, <2>4, <2>5, OneMoves DEF Coro
<1>10. CASE \E f \in {"fresh", "plain"} :
              /\ gen' = [gen EXCEPT ![c] = <<f>>]
              /\ Enter(c, IF f = "plain" THEN "user" ELSE "run")
  <2>1. PICK f \in {"fresh", "plain"} :
              /\ gen' = [gen EXCEPT ![c] = <<f>>]
              /\ Enter(c, IF f = "plain" THEN "user" ELSE "run")
    BY <1>10
  <2>2. PICK place \in {"user", "run"} : Enter(c, place) /\ (place = "user" <=> f = "plain")
    BY <2>1
  <2>3. gen'[c] = <<f>> /\ \A d \in Cos : d # c => gen'[d] = gen[d]
    BY <2>1 DEF TypeGen
  <2>4. /\ gen'[c] # << >> /\ Len(gen'[c]) = 1 /\ Top(c)' = f
        /\ \A i \in 1 .. Len(gen'[c]) : i # Len(gen'[c]) => gen'[c][i] = "gen"
    <3>1. <<f>> # << >> /\ Len(<<f>>) = 1 /\ Last(<<f>>) = f
      BY DEF Last
    <3>2. \A i \in 1 .. 1 : i = 1
      OBVIOUS
    <3> QED
      BY <2>3, <3>1, <3>2 DEF Top
  <2>5. /\ ctl' \in Seq(Calls) /\ ctl' # << >> /\ Len(ctl') = Len(ctl) + 1
        /\ Last(ctl').co = c /\ Last(ctl').at = place
        /\ SameBelow(Len(ctl)) /\ Running' = Running \cup {c}
    BY <2>2, EnterFacts
  <2>6. \A d \in Cos : d # c => SameCo(d) /\ SameFrame(d)
    BY <1>1, <1>3, <2>3, <2>5 DEF SameCo, SameFrame
  <2>7. Stacked'
    <3>1. RightPlace(c)'
      BY <2>2, <2>4, <2>5 DEF RightPlace
    <3>2. RightPlace(Last(ctl).co)'
      BY <2>5, <3>1 DEF RightPlace, Top
    <3>3. c \notin Running
      BY <1>2
    <3> QED
      BY <1>1, <2>5, <2>6, <3>2, <3>3, StackGrows
  <2>8. PendingOnTop'
    BY <1>1, <1>4, <2>5 DEF PendingOnTop
  <2>9. LifeOf(c)'
    BY <1>1, <1>2, <1>3, <2>4 DEF LifeOf
  <2>10. GenOf(c)'
    BY <2>4, <2>5 DEF GenOf
  <2>11. EndOf(c)'
    BY <1>1, <1>2, <2>4, <2>5 DEF EndOf
  <2> QED
    BY <1>1, <1>2, <1>3, <1>5, <1>8, <2>4, <2>6, <2>7, <2>8, <2>9, <2>10, <2>11, OneMoves
       DEF Coro, StackInv
<1> QED
  BY <1>6, <1>9, <1>10

-----------------------------------------------------------------------------
(* The end of a coroutine, and the loop.                                   *)

LEMMA IdleStack ==
  ASSUME ctl = << >>, UNCHANGED ctl
  PROVE  StackInv' /\ Running = {} /\ Running' = {}
BY DEF StackInv, Stacked, PendingOnTop, Running

LEMMA CloseCbStep ==
  ASSUME Inv, CosAssumption, BoundsAssumption, NEW c \in Cos, CloseCb(c)
  PROVE  Inv'
<1> /\ TypeOK' /\ TypeGen /\ TypeStatus /\ TypeLife /\ Coro(c)
  BY LoopType, Types DEF Inv
<1>1. /\ ctl = << >> /\ timer[c] = "closing"
      /\ UNCHANGED <<status, gen, stack, exc, ctl, owner, wait, done, told, forgot, logged, crossed>>
  BY DEF CloseCb, Looping, ops, ghosts
<1>2. StackInv' /\ Running = {} /\ Running' = {}
  BY <1>1, IdleStack
<1>3. life[c] = "alive" /\ status[c] = -1 /\ ~after[c]
  BY <1>1 DEF Coro, LifeOf
<1>4. /\ life'[c] = "freed" /\ timer'[c] = "idle"
      /\ \A d \in Cos : d # c => after'[d] = after[d]
      /\ \A d \in Cos : d # c =>
           \/ life'[d] = life[d] /\ timer'[d] = timer[d]
           \/ life[d] = "unborn" /\ life'[d] = "alive" /\ timer'[d] = "start"
      /\ \/ exc # NoCo /\ after'[c] = FALSE /\ stopped' = TRUE
         \/ exc = NoCo /\ after'[c] = TRUE /\ stopped' = stopped
  <2>1. \/ exc # NoCo /\ UNCHANGED after /\ stopped' = TRUE
        \/ exc = NoCo /\ after' = [after EXCEPT ![c] = TRUE] /\ stopped' = stopped
    BY DEF CloseCb
  <2>2. \/ /\ life' = [life EXCEPT ![c] = "freed"]
           /\ timer' = [timer EXCEPT ![c] = "idle"]
        \/ \E d \in Cos :
             /\ life[d] = "unborn"
             /\ life' = [life EXCEPT ![c] = "freed", ![d] = "alive"]
             /\ timer' = [timer EXCEPT ![c] = "idle", ![d] = "start"]
    BY DEF CloseCb
  <2>3. /\ life'[c] = "freed" /\ timer'[c] = "idle"
        /\ \A d \in Cos : d # c =>
             \/ life'[d] = life[d] /\ timer'[d] = timer[d]
             \/ life[d] = "unborn" /\ life'[d] = "alive" /\ timer'[d] = "start"
    BY <1>3, <2>2 DEF TypeLife
  <2> QED
    BY <1>3, <2>1, <2>3 DEF TypeStatus
<1>5. HistoryGrows /\ Asks(c) /\ Answers(c)
  BY <1>1, <1>4 DEF HistoryGrows, Asks, Answers
<1>6. \A d \in Cos : d # c => SameCo(d) \/ Born(d)
  BY <1>1, <1>2, <1>4 DEF SameCo, Born
<1>7. LifeOf(c)' /\ GenOf(c)'
  BY <1>1, <1>2, <1>3, <1>4 DEF Coro, LifeOf, GenOf, Top
<1>8. WakeOf(c)'
  <2>1. Spoilt' = Spoilt
    BY <1>1 DEF Spoilt
  <2>2. c \notin Spoilt => \A o \in 1 .. Len(owner) : owner[o] = c => o \in done
    BY <1>1 DEF Coro, WakeOf
  <2>3. c \notin Spoilt => (stack[c] # 0 => stack[c] = 1 /\ wait[c] # 0 /\ wait[c] \notin done)
    BY DEF Coro, WakeOf
  <2> QED
    BY <1>1, <1>2, <1>3, <2>1, <2>2, <2>3 DEF WakeOf
<1>9. EndOf(c)'
  <2> SUFFICES ASSUME c \notin crossed' PROVE EndOf(c)'
    BY DEF EndOf
  <2>1. EndOf(c) /\ c \notin crossed
    BY <1>1 DEF Coro
  <2>2. /\ Len(gen[c]) = 1 /\ Top(c) \in {"end", "thrown"}
        /\ (gen[c] # << >> /\ Top(c) = "thrown") => exc = c
        /\ (gen[c] # << >> /\ exc = c) => Top(c) \in {"end", "thrown"}
    BY <1>2, <1>3, <2>1 DEF EndOf
  <2>3. gen[c] # << >>
    <3>1. Len(<< >>) = 0
      OBVIOUS
    <3> QED
      BY <2>2, <3>1
  <2>4. Top(c)' = Top(c)
    BY <1>1 DEF Top
  <2>5. exc = NoCo => Top(c) = "end"
    BY <2>2, <2>3 DEF CosAssumption
  <2> QED
    BY <1>1, <1>3, <1>4, <2>2, <2>4, <2>5 DEF EndOf
<1> QED
  BY <1>1, <1>2, <1>5, <1>6, <1>7, <1>8, <1>9, OneMoves DEF Coro

\* nothing that the invariant is about but phase and steps
LEMMA PhaseStep ==
  ASSUME Inv, TypeOK',
         UNCHANGED <<life, status, gen, stack, timer, after, exc, ctl, stopped, owner, done, wait,
                     told, forgot, logged, crossed>>
  PROVE  Inv'
<1>1. Running' = Running /\ Spoilt' = Spoilt
  BY DEF Running, Spoilt
<1>2. StackInv'
  BY DEF Inv, StackInv, Stacked, PendingOnTop, Top
<1>3. OpsInv'
  BY DEF Inv, OpsInv
<1>4. ASSUME NEW c \in Cos PROVE Coro(c)'
  <2>1. Coro(c)
    BY DEF Inv
  <2>2. LifeOf(c)' /\ GenOf(c)' /\ EndOf(c)'
    BY <1>1, <2>1 DEF Coro, LifeOf, GenOf, EndOf, Top
  <2>3. WakeOf(c)'
    BY <1>1, <2>1 DEF Coro, WakeOf, Top
  <2> QED
    BY <2>2, <2>3 DEF Coro
<1> QED
  BY <1>2, <1>3, <1>4 DEF Inv

LEMMA ScriptGoStep ==
  ASSUME Inv, CosAssumption, BoundsAssumption, ScriptGo
  PROVE  Inv'
<1>1. PICK b \in Cos : Go(b)
  BY DEF ScriptGo
<1>2. TypeOK' /\ TypeLife /\ TypeOps /\ OpsInv
  BY LoopType, Types DEF Inv
<1>3. /\ ctl = << >>
      /\ UNCHANGED <<status, gen, stack, after, exc, ctl, stopped, owner, done, wait,
                     told, forgot, logged, crossed>>
  BY DEF ScriptGo, Looping, control, ops, ghosts
<1>4. StackInv' /\ Running = {} /\ Running' = {}
  BY <1>3, IdleStack
<1>5. /\ life[b] = "unborn" /\ life'[b] = "alive" /\ timer'[b] = "start"
      /\ \A d \in Cos : d # b => life'[d] = life[d] /\ timer'[d] = timer[d]
  BY <1>1, <1>2 DEF Go, TypeLife
<1>6. OpsInv'
  BY <1>2, <1>3 DEF OpsInv
<1>7. ASSUME NEW d \in Cos PROVE Coro(d)'
  <2>1. Coro(d)
    BY DEF Inv
  <2>2. Spoilt' = Spoilt
    BY <1>3 DEF Spoilt
  <2>3. CASE d # b
    <3>1. LifeOf(d)' /\ GenOf(d)' /\ EndOf(d)'
      BY <1>3, <1>4, <1>5, <2>1, <2>3 DEF Coro, LifeOf, GenOf, EndOf, Top
    <3>2. WakeOf(d)'
      BY <1>3, <1>4, <1>5, <2>1, <2>2, <2>3 DEF Coro, WakeOf, Top
    <3> QED
      BY <3>1, <3>2 DEF Coro
  <2>4. CASE d = b
    <3>1. gen[d] = << >> /\ status[d] = 0 /\ ~after[d]
      BY <1>5, <2>1, <2>4 DEF Coro, LifeOf
    <3>2. LifeOf(d)'
      BY <1>3, <1>4, <1>5, <2>4, <3>1 DEF LifeOf
    <3>3. GenOf(d)'
      BY <1>3, <1>4, <2>1 DEF Coro, GenOf, Top
    <3>4. EndOf(d)'
      BY <1>3, <1>5, <2>4, <3>1 DEF EndOf
    <3>5. \A o \in 1 .. Len(owner) : owner[o] # d
      BY <1>2, <3>1 DEF OpsInv
    <3>6. WakeOf(d)'
      BY <1>3, <1>4, <2>1, <2>2, <3>1, <3>5 DEF Coro, WakeOf
    <3> QED
      BY <3>2, <3>3, <3>4, <3>6 DEF Coro
  <2> QED
    BY <2>3, <2>4
<1> QED
  BY <1>2, <1>4, <1>6, <1>7 DEF Inv

-----------------------------------------------------------------------------
(* The invariant.                                                          *)

LEMMA InvInit ==
  ASSUME Init, BoundsAssumption
  PROVE  Inv
<1>1. TypeOK
  <2>1. << >> \in Seq(Frames) /\ Len(<< >>) = 0 /\ 0 <= MaxDepth
    BY DEF BoundsAssumption
  <2>2. gen \in [Cos -> Seq(Frames)] /\ \A c \in Cos : Len(gen[c]) <= MaxDepth
    BY <2>1 DEF Init
  <2>3. TypeGen
    BY <2>2 DEF TypeGen
  <2>4. TypeLife /\ TypeStatus
    BY DEF Init, TypeLife, TypeStatus
  <2>5. TypeCtl /\ TypeGhosts /\ TypeSteps
    <3>1. << >> \in Seq(Calls)
      OBVIOUS
    <3>2. TypeCtl
      BY <3>1 DEF Init, TypeCtl, Calls, Over
    <3>3. TypeGhosts
      BY DEF Init, TypeGhosts
    <3>4. TypeSteps
      BY DEF Init, TypeSteps, BoundsAssumption
    <3> QED
      BY <3>2, <3>3, <3>4
  <2>6. TypeOps
    BY <2>1 DEF Init, TypeOps, BoundsAssumption
  <2> QED
    BY <2>3, <2>4, <2>5, <2>6, Types
<1>2. StackInv /\ Running = {}
  BY DEF Init, StackInv, Stacked, PendingOnTop, Running
<1>3. OpsInv
  BY DEF Init, OpsInv
<1>4. ASSUME NEW c \in Cos PROVE Coro(c)
  <2>1. /\ gen[c] = << >> /\ status[c] = 0 /\ life[c] = "unborn" /\ timer[c] = "idle" /\ ~after[c]
        /\ stack[c] = 0 /\ owner = << >>
    BY <1>4 DEF Init
  <2>2. Len(<< >>) = 0 /\ 1 .. 0 = {}
    OBVIOUS
  <2>3. LifeOf(c) /\ GenOf(c) /\ EndOf(c)
    BY <1>2, <2>1, <2>2 DEF LifeOf, GenOf, EndOf
  <2>4. WakeOf(c)
    BY <1>2, <2>1, <2>2 DEF WakeOf
  <2> QED
    BY <2>3, <2>4 DEF Coro
<1> QED
  BY <1>1, <1>2, <1>3, <1>4 DEF Inv

LEMMA InvStep ==
  ASSUME Inv, CosAssumption, BoundsAssumption, [Next]_vars
  PROVE  Inv'
<1>1. CASE UNCHANGED vars
  BY <1>1, TypeStep, PhaseStep DEF vars
<1>2. CASE LoopPhase \/ Gone
  BY <1>2, LoopType, PhaseStep DEF LoopPhase, Gone, vars, coro, ops, ghosts
<1>3. ASSUME NEW c \in Cos, RunPointer(c) PROVE Inv'
  BY <1>3, RunPointerThrows, RunPointerLeaves
<1> QED
  BY <1>1, <1>2, <1>3, CallStep, YieldStep, CloseStep, RunOnStep, RunNestedStep, CompleteStep,
     ResumeCbStep, StartCbStep, CloseCbStep, ScriptGoStep DEF Next

(* The invariant of the scheduler: the call stack, the operations, and of  *)
(* each coroutine its life, its generators, what it waits for and its end. *)
THEOREM InvHolds == Spec => []Inv
<1>1. Init => Inv
  BY BoundsAssumption, InvInit
<1>2. Inv /\ [Next]_vars => Inv'
  BY CosAssumption, BoundsAssumption, InvStep
<1> QED
  BY <1>1, <1>2, PTL DEF Spec

(* Every variable keeps its type; gen_ is never deeper than allowed, and   *)
(* status_ is -1, 0 or 1 (async() refuses a second operation).             *)
THEOREM TypeCorrect == Spec => []TypeOK
<1>1. Inv => TypeOK
  BY DEF Inv
<1> QED
  BY <1>1, InvHolds, PTL

(* next() and fail() find the coroutine alive, suspended at the yield of   *)
(* the operation they answer: coroutine.cpp, async, run, next, fail.       *)
THEOREM WakesItsYield == Spec => []WakesOwnYield
<1>1. Inv => WakesOwnYield
  <2> SUFFICES ASSUME Inv, NEW o \in 1 .. Len(owner), NEW c, c = owner[o], Pending(o),
                      c \notin forgot \cup logged
               PROVE  /\ life[c] = "alive" /\ timer[c] = "idle" /\ wait[c] = o
                      /\ \/ status[c] = 0 /\ Top(c) = "ptr" /\ c \notin Running
                         \/ status[c] \in {0, 1} /\ c \in Running
    BY DEF WakesOwnYield
  <2>1. c \in Cos /\ o \notin done /\ c \notin Spoilt
    BY Types DEF Inv, TypeOps, Pending, Spoilt
  <2> QED
    BY <2>1 DEF Inv, Coro, WakeOf
<1> QED
  BY <1>1, InvHolds, PTL

LEMMA OneGenerator ==
  ASSUME NEW s \in Seq(Frames)
  PROVE  /\ Len(s) = 1 => s = <<Last(s)>>
         /\ \A f \in Frames : s = <<f>> => Len(s) = 1 /\ Last(s) = f
<1>1. ASSUME Len(s) = 1 PROVE s = <<Last(s)>>
  <2>1. Last(s) = s[1] /\ s[1] \in Frames
    BY <1>1 DEF Last
  <2>2. <<s[1]>> \in Seq(Frames) /\ Len(<<s[1]>>) = 1 /\ <<s[1]>>[1] = s[1]
    BY <2>1
  <2>3. \A i \in 1 .. Len(s) : s[i] = <<s[1]>>[i]
    BY <1>1, <2>2
  <2> QED
    BY <1>1, <2>1, <2>2, <2>3
<1>2. ASSUME NEW f \in Frames, s = <<f>> PROVE Len(s) = 1 /\ Last(s) = f
  <2>1. Len(<<f>>) = 1 /\ <<f>>[1] = f
    OBVIOUS
  <2> QED
    BY <1>2, <2>1 DEF Last
<1> QED
  BY <1>1, <1>2

(* close() ends a coroutine when its outermost generator returned or threw *)
(* (coroutine.cpp, run and close), unless another's exception crossed it.  *)
THEOREM ClosesItself == Spec => []ClosesOnItsOwn
<1>1. Inv => ClosesOnItsOwn
  <2> SUFFICES ASSUME Inv, NEW c \in Cos, c \notin crossed, status[c] = -1
               PROVE  gen[c] \in {<<"end">>, <<"thrown">>}
    BY DEF ClosesOnItsOwn
  <2>1. gen[c] \in Seq(Frames)
    BY Types DEF Inv, TypeGen
  <2>2. Len(gen[c]) = 1 /\ Top(c) \in {"end", "thrown"}
    BY DEF Inv, Coro, EndOf
  <2>3. gen[c] = <<Top(c)>>
    BY <2>1, <2>2, OneGenerator DEF Top
  <2> QED
    BY <2>2, <2>3
<1> QED
  BY <1>1, InvHolds, PTL

(* A yield that was forgotten is reported (async, run and close), even to  *)
(* a coroutine that an exception of another has crossed.                   *)
THEOREM ForgottenYieldIsReported == Spec => []ForgottenYieldReported
<1>1. Inv => ForgottenYieldReported
  <2> SUFFICES ASSUME Inv, NEW c \in Cos, status[c] = -1, wait[c] # 0, Pending(wait[c]),
                      c \notin told, c \notin logged
               PROVE  FALSE
    BY DEF ForgottenYieldReported
  <2>1. c \notin Spoilt /\ wait[c] \in 1 .. Len(owner) /\ wait[c] \notin done /\ owner[wait[c]] = c
    BY DEF Spoilt, Pending, Inv, OpsInv
  <2> QED
    BY <2>1 DEF Inv, Coro, WakeOf
<1> QED
  BY <1>1, InvHolds, PTL

(* after_.func continues a session exactly when its coroutine returned     *)
(* (coroutine.cpp, close_cb).                                              *)
THEOREM SessionsContinue == Spec => []AfterSuccess
<1>1. Inv => AfterSuccess
  <2> SUFFICES ASSUME Inv, NEW c \in Cos, c \notin crossed
               PROVE  /\ after[c] => gen[c] = <<"end">>
                      /\ (life[c] = "freed" /\ gen[c] = <<"end">>) => after[c] \/ stopped
    BY DEF AfterSuccess
  <2>1. gen[c] \in Seq(Frames) /\ EndOf(c) /\ LifeOf(c)
    BY Types DEF Inv, TypeGen, Coro
  <2>2. after[c] => Len(gen[c]) = 1 /\ Top(c) = "end"
    BY <2>1 DEF EndOf, LifeOf
  <2>3. after[c] => gen[c] = <<"end">>
    BY <2>1, <2>2, OneGenerator DEF Top
  <2>4. gen[c] = <<"end">> => Top(c) = "end"
    BY <2>1, OneGenerator DEF Top, Frames
  <2> QED
    BY <2>1, <2>3, <2>4 DEF EndOf
<1> QED
  BY <1>1, InvHolds, PTL

(* Only resume_cb takes a generator off gen_.                              *)
LEMMA OnlyResumeCbPops ==
  ASSUME Inv, CosAssumption, BoundsAssumption, Next, NEW c \in Cos, Len(gen'[c]) < Len(gen[c])
  PROVE  ResumeCb(c)
<1> TypeGen /\ TypeOps /\ OpsInv /\ gen[c] \in Seq(Frames)
  BY Types DEF Inv, TypeGen
<1>0. gen'[c] # gen[c]
  OBVIOUS
<1>1. ASSUME NEW d \in Cos, gen[d] # << >>, NEW f \in Frames, SetTop(d, f) PROVE FALSE
  <2>1. Len(gen'[d]) = Len(gen[d]) /\ (c # d => gen'[c] = gen[c])
    BY <1>1, SetTopFacts DEF TypeGen
  <2> QED
    BY <1>0, <2>1
<1>2. ASSUME NEW d \in Cos, In(d, "user") \/ In(d, "run") PROVE gen[d] # << >>
  BY <1>2, RunningFacts
<1>3. ASSUME NEW d \in Cos,
             \/ CallAsync(d) \/ CallAsyncRefused(d) \/ CallLogs(d) \/ CallGo(d) \/ Catch(d)
             \/ RunFailed(d) \/ RunEnded(d) \/ CloseCb(d) \/ ScriptGo \/ LoopPhase \/ Gone
      PROVE  FALSE
  BY <1>0, <1>3 DEF CallAsync, CallAsyncRefused, CallLogs, CallGo, Catch, RunFailed, RunEnded,
     CloseCb, ScriptGo, LoopPhase, Gone, coro, vars
<1>4. ASSUME NEW d \in Cos,
             YieldPointer(d) \/ YieldGenerator(d) \/ YieldValue(d) \/ Return(d) \/ Throw(d)
      PROVE  FALSE
  <2>1. In(d, "user") /\ \E f \in Frames : SetTop(d, f)
    BY <1>4 DEF YieldPointer, YieldGenerator, YieldValue, Yield, Return, Throw, User, Frames
  <2> QED
    BY <1>1, <1>2, <2>1
<1>5. ASSUME NEW d \in Cos, RunOn(d) \/ RunPointer(d) PROVE FALSE
  <2>1. In(d, "run") /\ (UNCHANGED gen \/ \E f \in Frames : SetTop(d, f))
    BY <1>5 DEF RunOn, RunPointer, RunRest, Frames
  <2> QED
    BY <1>0, <1>1, <1>2, <2>1
<1>6. ASSUME NEW d \in Cos, RunNested(d) PROVE FALSE
  <2>1. gen' = [gen EXCEPT ![d] = Append(gen[d], "fresh")] /\ gen[d] \in Seq(Frames)
    BY <1>6 DEF RunNested, TypeGen
  <2>2. Len(Append(gen[d], "fresh")) = Len(gen[d]) + 1 /\ Len(gen[d]) \in Nat
    BY <2>1, AppendFacts DEF Frames
  <2>3. c = d /\ gen'[c] = Append(gen[d], "fresh")
    BY <1>0, <2>1 DEF TypeGen
  <2> QED
    BY <2>2, <2>3
<1>7. ASSUME NEW d \in Cos, StartCb(d) PROVE FALSE
  <2>1. gen[d] = << >> /\ (gen'[c] = gen[c] \/ c = d)
    BY <1>7 DEF StartCb, Due, Inv, Coro, LifeOf, TypeGen
  <2>2. Len(gen[c]) = 0
    BY <1>0, <2>1
  <2>3. Len(gen'[c]) \in Nat
    <3>1. TypeGen'
      <4>1. TypeOK'
        BY <1>7, LoopType DEF Inv
      <4> QED
        BY <4>1, Types, PTL
    <3> QED
      BY <3>1 DEF TypeGen
  <2> QED
    BY <2>2, <2>3
<1>8. ASSUME NEW o \in 1 .. MaxOps, Complete(o) PROVE FALSE
  <2>0. PICK d \in Cos : d = owner[o]
    BY <1>8 DEF Complete, Pending, TypeOps
  <2>1. \E e \in {NoCo, d} : Deliver(d, gen[d], e)
    BY <1>0, <1>8, <2>0 DEF Complete
  <2>2. PICK e \in {NoCo, d} : Deliver(d, gen[d], e)
    BY <2>1
  <2>3. gen[d] \in Seq(Frames) /\ gen[d] # << >>
    BY <1>8, <2>0 DEF Complete, Pending, TypeGen, OpsInv
  <2>4. c = d /\ (StaysWaiting(d, gen[d], e) \/ GoesOn(d, gen[d], e))
    BY <1>0, <2>2, <2>3, DeliverFacts DEF Inv
  <2>5. Len(gen'[d]) = Len(gen[d])
    BY <2>4 DEF StaysWaiting, GoesOn
  <2> QED
    BY <2>4, <2>5
<1>9. ASSUME NEW d \in Cos, ResumeCb(d) PROVE ResumeCb(c)
  <2>1. timer[d] = "resume" /\ Deliver(d, Front(gen[d]), exc)
    BY <1>9 DEF ResumeCb, Due
  <2>2. Front(gen[d]) \in Seq(Frames) /\ Front(gen[d]) # << >>
    BY <2>1, WaitingFacts
  <2>3. c = d
    BY <1>0, <2>1, <2>2, DeliverFacts DEF Inv
  <2> QED
    BY <1>9, <2>3
<1> QED
  BY <1>3, <1>4, <1>5, <1>6, <1>7, <1>8, <1>9 DEF Next

(* What a nested generator throws and does not catch is pending when       *)
(* resume_cb goes on with its parent (coroutine.cpp, close and resume_cb). *)
THEOREM FailureReachesParent == Spec => NestedFailureReachesParent
<1> DEFINE Reaches(c) ==
      (/\ Len(gen'[c]) < Len(gen[c]) /\ Len(gen'[c]) > 0
       /\ Top(c) = "thrown" /\ c \notin crossed')
        => exc' = c
<1>1. ASSUME Inv, Next, NEW c \in Cos PROVE Reaches(c)
  <2> SUFFICES ASSUME Len(gen'[c]) < Len(gen[c]), Top(c) = "thrown", c \notin crossed'
               PROVE  exc' = c
    OBVIOUS
  <2>1. ResumeCb(c)
    BY <1>1, CosAssumption, BoundsAssumption, OnlyResumeCbPops
  <2>2. timer[c] = "resume" /\ Deliver(c, Front(gen[c]), exc)
    BY <2>1 DEF ResumeCb, Due
  <2>3. Front(gen[c]) \in Seq(Frames) /\ Front(gen[c]) # << >> /\ gen[c] # << >>
    BY <1>1, <2>2, BoundsAssumption, WaitingFacts
  <2>4. StaysWaiting(c, Front(gen[c]), exc) \/ GoesOn(c, Front(gen[c]), exc)
    BY <1>1, <2>2, <2>3, DeliverFacts DEF Inv
  <2>5. c \notin crossed /\ exc' = exc
    BY <2>4 DEF StaysWaiting, GoesOn
  <2>6. life[c] = "alive"
    BY <1>1, <2>2 DEF Inv, Coro, LifeOf
  <2> QED
    BY <1>1, <2>3, <2>5, <2>6 DEF Inv, Coro, EndOf
<1>2. Inv /\ [Next]_vars => [\A c \in Cos : Reaches(c)]_vars
  BY <1>1
<1>3. [][\A c \in Cos : Reaches(c)]_vars <=> NestedFailureReachesParent
  BY DEF NestedFailureReachesParent
<1> HIDE DEF Reaches
<1> QED
  BY <1>2, <1>3, InvHolds, PTL DEF Spec
=============================================================================

------------------------- MODULE ThreadWorkerProofs -------------------------
(***************************************************************************)
(* Proofs about ThreadWorker, for every set of contexts and every bound.   *)
(* IInv is inductive: one lemma per conjunct, one step per action.  The    *)
(* safety properties and the refinement of WorkQueue follow from it.       *)
(***************************************************************************)
EXTENDS ThreadWorker, TLAPS

(* What Append and Tail do to a deque, index by index. *)
LEMMA AppendFacts ==
  ASSUME NEW S, NEW q \in Seq(S), NEW x \in S
  PROVE  /\ Append(q, x) \in Seq(S)
         /\ Len(q) \in Nat
         /\ Len(Append(q, x)) = Len(q) + 1
         /\ \A i \in 1 .. Len(q) : Append(q, x)[i] = q[i]
         /\ Append(q, x)[Len(q) + 1] = x
  OBVIOUS

LEMMA TailFacts ==
  ASSUME NEW S, NEW q \in Seq(S), q # << >>
  PROVE  /\ Len(q) \in Nat /\ Len(q) >= 1
         /\ Head(q) = q[1] /\ Head(q) \in S
         /\ Tail(q) \in Seq(S)
         /\ Len(Tail(q)) = Len(q) - 1
         /\ \A i \in 1 .. Len(q) - 1 : Tail(q)[i] = q[i + 1]
  OBVIOUS

(* Lengths are naturals and elements are requests. *)
LEMMA LenFacts ==
  ASSUME TypeOK
  PROVE  /\ Len(submitted) \in Nat /\ Len(served) \in Nat /\ Len(completed) \in Nat
         /\ Len(queue_worker) \in Nat /\ Len(queue_master) \in Nat
         /\ \A i \in 1 .. Len(submitted) : submitted[i] \in Reqs
         /\ \A i \in 1 .. Len(served) : served[i] \in Reqs
  BY DEF TypeOK

LEMMA TypeStep == TypeOK /\ RequestInv /\ ReplyInv /\ [Next]_vars => TypeOK'
<1> SUFFICES ASSUME TypeOK, RequestInv, ReplyInv, [Next]_vars PROVE TypeOK'
  OBVIOUS
<1> USE ReqsAssumption DEF vars, queues, asyncs, mainvar, workvar
<1>1. ASSUME NEW r \in Reqs, QueueWork(r) PROVE TypeOK'
  BY <1>1 DEF QueueWork, MayCall, TypeOK
<1>2. CASE CloseWork
  BY <1>2 DEF CloseWork, MayCall, TypeOK
<1>3. CASE QueueWorkSend
  BY <1>3 DEF QueueWorkSend, TypeOK
<1>4. CASE CloseWorkSend
  BY <1>4 DEF CloseWorkSend, TypeOK
<1>5. CASE CloseWorkJoined
  BY <1>5 DEF CloseWorkJoined, TypeOK
<1>6. CASE MasterWake
  BY <1>6, ZenonT(60) DEF MasterWake, TypeOK
<1>7. CASE MasterPop
  <2>1. /\ Head(queue_master) \in Reqs \cup {Exit}
        /\ Tail(queue_master) \in Seq(Reqs \cup {Exit})
    BY <1>7, TailFacts DEF MasterPop, TypeOK
  <2>2. queue_master' \in Seq(Reqs \cup {Exit}) /\ mpc' \in {"after", "exit"}
    BY <1>7, <2>1 DEF MasterPop
  <2>3. completed' \in Seq(Reqs)
    <3>1. CASE Head(queue_master) = Exit
      BY <1>7, <3>1 DEF MasterPop, TypeOK
    <3>2. CASE Head(queue_master) # Exit
      <4>1. Head(queue_master) \in Reqs /\ completed' = Append(completed, Head(queue_master))
        BY <1>7, <2>1, <3>2 DEF MasterPop
      <4> QED
        BY <4>1, AppendFacts DEF TypeOK
    <3> QED
      BY <3>1, <3>2
  <2> QED
    BY <1>7, <2>2, <2>3 DEF MasterPop, TypeOK
<1>8. CASE MasterAfterReturn
  BY <1>8 DEF MasterAfterReturn, TypeOK
<1>9. CASE MasterExit
  BY <1>9 DEF MasterExit, TypeOK
<1>10. CASE MasterEmpty
  BY <1>10 DEF MasterEmpty, TypeOK
<1>11. CASE MasterClosed
  BY <1>11 DEF MasterClosed, TypeOK
<1>12. CASE WorkerWake
  <2>1. /\ UNCHANGED queues /\ UNCHANGED mainvar /\ pend_worker' \in BOOLEAN /\ wpc' = "drain"
        /\ UNCHANGED <<pend_master, async_worker, async_master, loop, wreq, served, retired>>
    BY <1>12 DEF WorkerWake
  <2> QED
    BY <2>1 DEF TypeOK
<1>13. CASE WorkerPop
  <2>1. /\ Head(queue_worker) \in Reqs \cup {Exit}
        /\ Tail(queue_worker) \in Seq(Reqs \cup {Exit})
    BY <1>13, TailFacts DEF WorkerPop, TypeOK
  <2> QED
    BY <1>13, <2>1 DEF WorkerPop, TypeOK
<1>14. CASE WorkerRun
  <2>1. wreq \in Reqs
    BY <1>14, LenFacts DEF WorkerRun, RequestInv, Taken, B
  <2> QED
    BY <1>14, <2>1 DEF WorkerRun, TypeOK
<1>15. CASE WorkerPush
  <2>1. wreq \in Reqs
    BY <1>15, LenFacts DEF WorkerPush, ReplyInv, B
  <2> QED
    BY <1>15, <2>1 DEF WorkerPush, TypeOK
<1>16. CASE WorkerSend
  BY <1>16 DEF WorkerSend, TypeOK
<1>17. CASE WorkerExit
  BY <1>17 DEF WorkerExit, TypeOK
<1>18. CASE WorkerEmpty
  BY <1>18 DEF WorkerEmpty, TypeOK
<1>19. CASE WorkerClosed
  BY <1>19 DEF WorkerClosed, TypeOK
<1>20. CASE WorkerExitPush
  BY <1>20 DEF WorkerExitPush, TypeOK
<1>21. CASE WorkerExitSend
  BY <1>21 DEF WorkerExitSend, TypeOK
<1>22. CASE UNCHANGED vars
  BY <1>22 DEF TypeOK
<1> QED
  BY <1>1, <1>2, <1>3, <1>4, <1>5, <1>6, <1>7, <1>8, <1>9, <1>10, <1>11, <1>12, <1>13, <1>14, <1>15, <1>16, <1>17, <1>18, <1>19, <1>20, <1>21, <1>22 DEF Next, MainCalls, MainSteps, WorkerSteps, Gone

LEMMA ControlStep == IInv /\ [Next]_vars => ControlInv'
<1> SUFFICES ASSUME IInv, [Next]_vars PROVE ControlInv'
  OBVIOUS
<1> USE ReqsAssumption DEF vars, queues, asyncs, mainvar, workvar
<1>0. TypeOK /\ ControlInv /\ RequestInv /\ ReplyInv
  BY DEF IInv
<1>1. ASSUME NEW r \in Reqs, QueueWork(r) PROVE ControlInv'
  BY <1>0, <1>1 DEF QueueWork, MayCall, TypeOK, ControlInv, ExitTaken, ExitSeen, ExitBack
<1>2. CASE CloseWork
  BY <1>0, <1>2 DEF CloseWork, MayCall, TypeOK, ControlInv, ExitTaken, ExitSeen, ExitBack
<1>3. CASE QueueWorkSend
  BY <1>0, <1>3 DEF QueueWorkSend, TypeOK, ControlInv, ExitTaken, ExitSeen, ExitBack
<1>4. CASE CloseWorkSend
  BY <1>0, <1>4 DEF CloseWorkSend, TypeOK, ControlInv, ExitTaken, ExitSeen, ExitBack
<1>5. CASE CloseWorkJoined
  BY <1>0, <1>5 DEF CloseWorkJoined, TypeOK, ControlInv, ExitTaken, ExitSeen, ExitBack
<1>6. CASE MasterWake
  BY <1>0, <1>6 DEF MasterWake, TypeOK, ControlInv, ExitTaken, ExitSeen, ExitBack
<1>7. CASE MasterPop
  <2>1. Head(queue_master) = Exit => ExitBack
    <3>1. Head(queue_master) = queue_master[1] /\ Len(queue_master) >= 1
      BY <1>0, <1>7, TailFacts DEF MasterPop, TypeOK
    <3>2. SUFFICES ASSUME Head(queue_master) = Exit PROVE ExitBack
      OBVIOUS
    <3>3. ~(Len(completed) + 1 <= Len(served))
      BY <1>0, <3>1, <3>2, LenFacts DEF ReplyInv
    <3>4. Len(completed) + Len(queue_master) + B(wpc = "push")
            = Len(served) + B(ExitBack /\ ~ExitSeen)
      BY <1>0 DEF ReplyInv
    <3> QED
      BY <1>0, <3>1, <3>3, <3>4, LenFacts DEF B
  <2>2. CASE Head(queue_master) = Exit
    <3>1. mpc = "drain" /\ mpc' = "exit" /\ ExitBack
          /\ UNCHANGED <<exit_data, wpc, async_worker, async_master, loop, retired, call, finished>>
      BY <1>7, <2>1, <2>2 DEF MasterPop
    <3>2. async_master = "open"
      <4>1. Head(queue_master) = queue_master[1] /\ Len(queue_master) >= 1
        BY <1>0, <1>7, TailFacts DEF MasterPop, TypeOK
      <4>2. ~(Len(completed) + 1 <= Len(served))
        BY <1>0, <2>2, <4>1, LenFacts DEF ReplyInv
      <4> QED
        BY <1>0, <4>1, <4>2, LenFacts DEF ReplyInv, B, ExitSeen
    <3> QED
      BY <1>0, <3>1, <3>2 DEF ControlInv, ExitTaken, ExitSeen, ExitBack
  <2>3. CASE Head(queue_master) # Exit
    <3>1. mpc = "drain" /\ mpc' = "after"
          /\ UNCHANGED <<exit_data, wpc, async_worker, async_master, loop, retired, call, finished>>
      BY <1>7, <2>3 DEF MasterPop
    <3> QED
      BY <1>0, <3>1 DEF ControlInv, ExitTaken, ExitSeen, ExitBack
  <2> QED
    BY <2>2, <2>3
<1>8. CASE MasterAfterReturn
  BY <1>0, <1>8 DEF MasterAfterReturn, TypeOK, ControlInv, ExitTaken, ExitSeen, ExitBack
<1>9. CASE MasterExit
  BY <1>0, <1>9 DEF MasterExit, TypeOK, ControlInv, ExitTaken, ExitSeen, ExitBack
<1>10. CASE MasterEmpty
  BY <1>0, <1>10 DEF MasterEmpty, TypeOK, ControlInv, ExitTaken, ExitSeen, ExitBack
<1>11. CASE MasterClosed
  BY <1>0, <1>11 DEF MasterClosed, TypeOK, ControlInv, ExitTaken, ExitSeen, ExitBack
<1>12. CASE WorkerWake
  BY <1>0, <1>12 DEF WorkerWake, TypeOK, ControlInv, ExitTaken, ExitSeen, ExitBack
<1>13. CASE WorkerPop
  <2>1. Head(queue_worker) = Exit => exit_data
    <3>1. Head(queue_worker) = queue_worker[1] /\ Len(queue_worker) >= 1
      BY <1>0, <1>13, TailFacts DEF WorkerPop, TypeOK
    <3> QED
      BY <1>0, <1>13, <3>1, LenFacts DEF WorkerPop, RequestInv, Taken, B, ExitQueued
  <2>2. ~ExitTaken
    <3>1. Head(queue_worker) = queue_worker[1] /\ Len(queue_worker) >= 1
      BY <1>0, <1>13, TailFacts DEF WorkerPop, TypeOK
    <3> QED
      BY <1>0, <1>13, <3>1, LenFacts DEF WorkerPop, RequestInv, Taken, B, ExitQueued
  <2>5. CASE Head(queue_worker) = Exit
    <3>1. wpc = "drain" /\ wpc' = "exit" /\ exit_data /\ ~ExitTaken
          /\ UNCHANGED <<exit_data, mpc, async_worker, async_master, loop, retired, call, finished>>
      BY <1>13, <2>1, <2>2, <2>5 DEF WorkerPop
    <3> QED
      BY <1>0, <3>1 DEF ControlInv, ExitTaken, ExitSeen, ExitBack
  <2>6. CASE Head(queue_worker) # Exit
    <3>1. wpc = "drain" /\ wpc' = "work" /\ ~ExitTaken
          /\ UNCHANGED <<exit_data, mpc, async_worker, async_master, loop, retired, call, finished>>
      BY <1>13, <2>2, <2>6 DEF WorkerPop
    <3> QED
      BY <1>0, <3>1 DEF ControlInv, ExitTaken, ExitSeen, ExitBack
  <2> QED
    BY <2>5, <2>6
<1>14. CASE WorkerRun
  BY <1>0, <1>14 DEF WorkerRun, TypeOK, ControlInv, ExitTaken, ExitSeen, ExitBack
<1>15. CASE WorkerPush
  BY <1>0, <1>15 DEF WorkerPush, TypeOK, ControlInv, ExitTaken, ExitSeen, ExitBack
<1>16. CASE WorkerSend
  BY <1>0, <1>16 DEF WorkerSend, TypeOK, ControlInv, ExitTaken, ExitSeen, ExitBack
<1>17. CASE WorkerExit
  BY <1>0, <1>17 DEF WorkerExit, TypeOK, ControlInv, ExitTaken, ExitSeen, ExitBack
<1>18. CASE WorkerEmpty
  BY <1>0, <1>18 DEF WorkerEmpty, TypeOK, ControlInv, ExitTaken, ExitSeen, ExitBack
<1>19. CASE WorkerClosed
  BY <1>0, <1>19 DEF WorkerClosed, TypeOK, ControlInv, ExitTaken, ExitSeen, ExitBack
<1>20. CASE WorkerExitPush
  BY <1>0, <1>20 DEF WorkerExitPush, TypeOK, ControlInv, ExitTaken, ExitSeen, ExitBack
<1>21. CASE WorkerExitSend
  BY <1>0, <1>21 DEF WorkerExitSend, TypeOK, ControlInv, ExitTaken, ExitSeen, ExitBack
<1>22. CASE UNCHANGED vars
  BY <1>0, <1>22 DEF TypeOK, ControlInv, ExitTaken, ExitSeen, ExitBack
<1> QED
  BY <1>1, <1>2, <1>3, <1>4, <1>5, <1>6, <1>7, <1>8, <1>9, <1>10, <1>11, <1>12, <1>13, <1>14, <1>15, <1>16, <1>17, <1>18, <1>19, <1>20, <1>21, <1>22 DEF Next, MainCalls, MainSteps, WorkerSteps, Gone

LEMMA RequestStep == IInv /\ [Next]_vars => RequestInv'
<1> SUFFICES ASSUME IInv, [Next]_vars PROVE RequestInv'
  OBVIOUS
<1> USE ReqsAssumption DEF vars, queues, asyncs, mainvar, workvar
<1>0. TypeOK /\ ControlInv /\ RequestInv
  BY DEF IInv
<1>1. ASSUME NEW r \in Reqs, QueueWork(r) PROVE RequestInv'
  <2>1. /\ Len(submitted') = Len(submitted) + 1
        /\ \A i \in 1 .. Len(submitted) : submitted'[i] = submitted[i]
        /\ submitted'[Len(submitted) + 1] = r
    BY <1>0, <1>1, AppendFacts DEF QueueWork, TypeOK
  <2>2. /\ Len(queue_worker') = Len(queue_worker) + 1
        /\ \A i \in 1 .. Len(queue_worker) : queue_worker'[i] = queue_worker[i]
        /\ queue_worker'[Len(queue_worker) + 1] = r
    BY <1>0, <1>1, AppendFacts DEF QueueWork, TypeOK
  <2>3. /\ ~ExitTaken /\ ~ExitTaken' /\ ~ExitQueued /\ ~ExitQueued'
        /\ UNCHANGED <<served, wpc, wreq>>
    BY <1>0, <1>1 DEF QueueWork, ControlInv, ExitTaken, ExitQueued
  <2>4. Taken \in Nat /\ Taken' = Taken
    BY <1>0, <2>3, LenFacts DEF Taken, B
  <2>5. /\ Taken + Len(queue_worker) = Len(submitted)
        /\ \A i \in 1 .. Len(queue_worker) : queue_worker[i] = submitted[Taken + i]
    BY <1>0, <2>3, <2>4, LenFacts DEF RequestInv, B
  <2>6. \A i \in 1 .. Len(queue_worker') :
          Taken + i <= Len(submitted') /\ queue_worker'[i] = submitted'[Taken + i]
    <3> TAKE i \in 1 .. Len(queue_worker')
    <3>1. CASE i = Len(queue_worker) + 1
      <4>1. Taken + i = Len(submitted) + 1
        BY <1>0, <2>4, <2>5, <3>1, LenFacts
      <4> QED
        BY <1>0, <2>1, <2>2, <3>1, <4>1, LenFacts
    <3>2. CASE i \in 1 .. Len(queue_worker)
      <4>1. Taken + i \in 1 .. Len(submitted)
        BY <1>0, <2>4, <2>5, <3>2, LenFacts
      <4> QED
        BY <1>0, <2>1, <2>2, <2>5, <3>2, <4>1, LenFacts
    <3> QED
      BY <1>0, <2>2, <3>1, <3>2, LenFacts, SMTT(30)
  <2>7. wpc = "work" => wreq = submitted'[Len(served) + 1]
    BY <1>0, <2>1, LenFacts DEF RequestInv, Taken, B
  <2>8. \A i \in 1 .. Len(served) : served[i] = submitted'[i]
    BY <1>0, <2>1, LenFacts DEF RequestInv, Taken, B
  <2> QED
    BY <1>0, <2>1, <2>2, <2>3, <2>4, <2>5, <2>6, <2>7, <2>8, LenFacts DEF RequestInv, B
<1>2. CASE CloseWork
  <2>1. /\ Len(queue_worker') = Len(queue_worker) + 1
        /\ \A i \in 1 .. Len(queue_worker) : queue_worker'[i] = queue_worker[i]
        /\ queue_worker'[Len(queue_worker) + 1] = Exit
    BY <1>0, <1>2, AppendFacts DEF CloseWork, TypeOK
  <2>2. /\ ~ExitTaken /\ ~ExitTaken' /\ ~ExitQueued /\ ExitQueued'
        /\ UNCHANGED <<submitted, served, wpc, wreq>>
    BY <1>0, <1>2 DEF CloseWork, ControlInv, ExitTaken, ExitQueued
  <2>3. Taken \in Nat /\ Taken' = Taken
    BY <1>0, <2>2, LenFacts DEF Taken, B
  <2>4. Taken + Len(queue_worker) = Len(submitted)
    BY <1>0, <2>2, <2>3, LenFacts DEF RequestInv, B
  <2>5. \A i \in 1 .. Len(queue_worker') :
          queue_worker'[i] = IF Taken + i <= Len(submitted) THEN submitted[Taken + i] ELSE Exit
    BY <1>0, <2>1, <2>3, <2>4, LenFacts DEF RequestInv
  <2> QED
    BY <1>0, <2>1, <2>2, <2>3, <2>4, <2>5, LenFacts DEF RequestInv, B
<1>3. CASE QueueWorkSend
  BY <1>0, <1>3 DEF QueueWorkSend, RequestInv, Taken, B, ExitTaken, ExitQueued, ControlInv
<1>4. CASE CloseWorkSend
  BY <1>0, <1>4 DEF CloseWorkSend, RequestInv, Taken, B, ExitTaken, ExitQueued, ControlInv
<1>5. CASE CloseWorkJoined
  BY <1>0, <1>5 DEF CloseWorkJoined, RequestInv, Taken, B, ExitTaken, ExitQueued, ControlInv
<1>6. CASE MasterWake
  BY <1>0, <1>6 DEF MasterWake, RequestInv, Taken, B, ExitTaken, ExitQueued, ControlInv
<1>7. CASE MasterPop
  BY <1>0, <1>7 DEF MasterPop, RequestInv, Taken, B, ExitTaken, ExitQueued, ControlInv
<1>8. CASE MasterAfterReturn
  BY <1>0, <1>8 DEF MasterAfterReturn, RequestInv, Taken, B, ExitTaken, ExitQueued, ControlInv
<1>9. CASE MasterExit
  BY <1>0, <1>9 DEF MasterExit, RequestInv, Taken, B, ExitTaken, ExitQueued, ControlInv
<1>10. CASE MasterEmpty
  BY <1>0, <1>10 DEF MasterEmpty, RequestInv, Taken, B, ExitTaken, ExitQueued, ControlInv
<1>11. CASE MasterClosed
  BY <1>0, <1>11 DEF MasterClosed, RequestInv, Taken, B, ExitTaken, ExitQueued, ControlInv
<1>12. CASE WorkerWake
  BY <1>0, <1>12 DEF WorkerWake, RequestInv, Taken, B, ExitTaken, ExitQueued, ControlInv
<1>13. CASE WorkerPop
  <2>1. /\ Len(queue_worker) >= 1
        /\ Head(queue_worker) = queue_worker[1]
        /\ Len(queue_worker') = Len(queue_worker) - 1
        /\ \A i \in 1 .. Len(queue_worker) - 1 : queue_worker'[i] = queue_worker[i + 1]
    BY <1>0, <1>13, TailFacts DEF WorkerPop, TypeOK
  <2>2. /\ wpc = "drain" /\ Taken = Len(served)
        /\ UNCHANGED <<submitted, served, exit_data, async_worker>>
    BY <1>0, <1>13, LenFacts DEF WorkerPop, Taken, B
  <2>3. ~ExitTaken
    BY <1>0, <2>1, <2>2, LenFacts DEF RequestInv, B, ExitQueued
  <2>4. CASE Head(queue_worker) = Exit
    <3>1. ~(1 <= Len(submitted) - Len(served))
      BY <1>0, <2>1, <2>2, <2>4, LenFacts DEF RequestInv
    <3>4. wpc' = "exit" /\ Taken' = Len(served)
      BY <1>0, <1>13, <2>2, <2>4, LenFacts DEF WorkerPop, Taken, B
    <3>2. /\ Len(served) = Len(submitted) /\ Len(queue_worker') = 0
          /\ wpc' = "exit" /\ Taken' = Len(served)
      BY <1>0, <2>1, <2>2, <3>1, <3>4, LenFacts DEF RequestInv, B
    <3>3. ExitTaken' /\ ~ExitQueued'
      BY <3>2 DEF ExitTaken, ExitQueued
    <3> QED
      BY <1>0, <2>2, <3>2, <3>3, LenFacts DEF RequestInv, B
  <2>5. CASE Head(queue_worker) # Exit
    <3>1. /\ wpc' = "work" /\ wreq' = queue_worker[1]
          /\ Taken' = Taken + 1
      BY <1>0, <1>13, <2>1, <2>2, <2>5, LenFacts DEF WorkerPop, Taken, B
    <3>2. /\ Len(served) + 1 <= Len(submitted)
          /\ queue_worker[1] = submitted[Len(served) + 1]
      BY <1>0, <2>1, <2>2, <2>5, LenFacts DEF RequestInv
    <3>3. ~ExitTaken' /\ ExitQueued' = ExitQueued
      BY <2>2, <2>3, <3>1 DEF ExitTaken, ExitQueued
    <3>4. \A i \in 1 .. Len(queue_worker') :
            queue_worker'[i] = IF Taken' + i <= Len(submitted)
                               THEN submitted[Taken' + i] ELSE Exit
      <4> TAKE i \in 1 .. Len(queue_worker')
      <4>1. i + 1 \in 1 .. Len(queue_worker) /\ queue_worker'[i] = queue_worker[i + 1]
        BY <1>0, <2>1, LenFacts
      <4>2. queue_worker[i + 1] = IF Taken + (i + 1) <= Len(submitted)
                                  THEN submitted[Taken + (i + 1)] ELSE Exit
        BY <1>0, <4>1 DEF RequestInv
      <4>3. Taken + (i + 1) = Taken' + i
        BY <1>0, <2>2, <3>1, <4>1, LenFacts
      <4> QED
        BY <4>1, <4>2, <4>3
    <3>5. Taken' + Len(queue_worker') = Len(submitted) + B(ExitQueued')
      <4>1. Taken + Len(queue_worker) = Len(submitted) + B(ExitQueued)
        BY <1>0 DEF RequestInv
      <4>2. B(ExitQueued') = B(ExitQueued) /\ B(ExitQueued) \in Nat
        BY <3>3 DEF B
      <4>3. Taken \in Nat /\ Len(queue_worker) \in Nat
        BY <1>0, <2>2, LenFacts
      <4> QED
        BY <2>1, <2>2, <3>1, <4>1, <4>2, <4>3
    <3>6. \A i \in 1 .. Len(served) : served[i] = submitted[i]
      BY <1>0 DEF RequestInv
    <3> QED
      BY <2>2, <3>1, <3>2, <3>3, <3>4, <3>5, <3>6 DEF RequestInv
  <2> QED
    BY <2>4, <2>5
<1>14. CASE WorkerRun
  <2>1. /\ wpc = "work" /\ wpc' = "push"
        /\ UNCHANGED <<submitted, queue_worker, exit_data, async_worker, wreq>>
        /\ served' = Append(served, wreq)
    BY <1>14 DEF WorkerRun
  <2>2. /\ Taken = Len(served) + 1 /\ Len(served) + 1 <= Len(submitted)
        /\ wreq = submitted[Len(served) + 1]
    BY <1>0, <2>1, LenFacts DEF RequestInv, Taken, B
  <2>3. /\ Len(served') = Len(served) + 1
        /\ \A i \in 1 .. Len(served) : served'[i] = served[i]
        /\ served'[Len(served) + 1] = wreq
    BY <1>0, <2>1, <2>2, LenFacts, AppendFacts DEF TypeOK
  <2>4. Taken' = Taken
    BY <2>1, <2>2, <2>3 DEF Taken, B
  <2>5. ~ExitTaken /\ ~ExitTaken' /\ ExitQueued' = ExitQueued
    BY <1>0, <2>1 DEF ControlInv, ExitTaken, ExitQueued
  <2>6. \A i \in 1 .. Len(served') : served'[i] = submitted[i]
    BY <1>0, <2>2, <2>3, LenFacts DEF RequestInv
  <2> QED
    BY <1>0, <2>1, <2>4, <2>5, <2>6, LenFacts DEF RequestInv, B
<1>15. CASE WorkerPush
  BY <1>0, <1>15 DEF WorkerPush, RequestInv, Taken, B, ExitTaken, ExitQueued, ControlInv
<1>16. CASE WorkerSend
  BY <1>0, <1>16 DEF WorkerSend, RequestInv, Taken, B, ExitTaken, ExitQueued, ControlInv
<1>17. CASE WorkerExit
  BY <1>0, <1>17 DEF WorkerExit, RequestInv, Taken, B, ExitTaken, ExitQueued, ControlInv
<1>18. CASE WorkerEmpty
  BY <1>0, <1>18 DEF WorkerEmpty, RequestInv, Taken, B, ExitTaken, ExitQueued, ControlInv
<1>19. CASE WorkerClosed
  BY <1>0, <1>19 DEF WorkerClosed, RequestInv, Taken, B, ExitTaken, ExitQueued, ControlInv
<1>20. CASE WorkerExitPush
  BY <1>0, <1>20 DEF WorkerExitPush, RequestInv, Taken, B, ExitTaken, ExitQueued, ControlInv
<1>21. CASE WorkerExitSend
  BY <1>0, <1>21 DEF WorkerExitSend, RequestInv, Taken, B, ExitTaken, ExitQueued, ControlInv
<1>22. CASE UNCHANGED vars
  BY <1>0, <1>22 DEF RequestInv, Taken, B, ExitTaken, ExitQueued, ControlInv
<1> QED
  BY <1>1, <1>2, <1>3, <1>4, <1>5, <1>6, <1>7, <1>8, <1>9, <1>10, <1>11, <1>12, <1>13, <1>14, <1>15, <1>16, <1>17, <1>18, <1>19, <1>20, <1>21, <1>22 DEF Next, MainCalls, MainSteps, WorkerSteps, Gone

LEMMA ReplyStep == IInv /\ [Next]_vars => ReplyInv'
<1> SUFFICES ASSUME IInv, [Next]_vars PROVE ReplyInv'
  OBVIOUS
<1> USE ReqsAssumption DEF vars, queues, asyncs, mainvar, workvar
<1>0. TypeOK /\ ControlInv /\ RequestInv /\ ReplyInv
  BY DEF IInv
<1>1. ASSUME NEW r \in Reqs, QueueWork(r) PROVE ReplyInv'
  BY <1>0, <1>1 DEF QueueWork, MayCall, ReplyInv, B, ExitSeen, ExitBack, ControlInv
<1>2. CASE CloseWork
  BY <1>0, <1>2 DEF CloseWork, MayCall, ReplyInv, B, ExitSeen, ExitBack, ControlInv
<1>3. CASE QueueWorkSend
  BY <1>0, <1>3 DEF QueueWorkSend, ReplyInv, B, ExitSeen, ExitBack, ControlInv
<1>4. CASE CloseWorkSend
  BY <1>0, <1>4 DEF CloseWorkSend, ReplyInv, B, ExitSeen, ExitBack, ControlInv
<1>5. CASE CloseWorkJoined
  BY <1>0, <1>5 DEF CloseWorkJoined, ReplyInv, B, ExitSeen, ExitBack, ControlInv
<1>6. CASE MasterWake
  BY <1>0, <1>6 DEF MasterWake, ReplyInv, B, ExitSeen, ExitBack, ControlInv
<1>7. CASE MasterPop
  <2>1. /\ Len(queue_master) >= 1
        /\ Head(queue_master) = queue_master[1]
        /\ Len(queue_master') = Len(queue_master) - 1
        /\ \A i \in 1 .. Len(queue_master) - 1 : queue_master'[i] = queue_master[i + 1]
    BY <1>0, <1>7, TailFacts DEF MasterPop, TypeOK
  <2>2. /\ mpc = "drain"
        /\ UNCHANGED <<served, wpc, wreq, async_master>>
    BY <1>7 DEF MasterPop
  <2>3. CASE Head(queue_master) = Exit
    <3>1. ~(Len(completed) + 1 <= Len(served))
      BY <1>0, <2>1, <2>3, LenFacts DEF ReplyInv
    <3>4. mpc' = "exit" /\ UNCHANGED completed
      BY <1>7, <2>3 DEF MasterPop
    <3>2. /\ Len(completed) = Len(served) /\ wpc # "push" /\ Len(queue_master') = 0
          /\ mpc' = "exit" /\ UNCHANGED completed
      BY <1>0, <2>1, <3>1, <3>4, LenFacts DEF ReplyInv, B
    <3>3. ExitSeen'
      BY <3>2 DEF ExitSeen
    <3> QED
      BY <1>0, <2>2, <3>2, <3>3, LenFacts DEF ReplyInv, B
  <2>4. CASE Head(queue_master) # Exit
    <3>1. /\ Len(completed) + 1 <= Len(served)
          /\ queue_master[1] = served[Len(completed) + 1]
      BY <1>0, <2>1, <2>4, LenFacts, SMTT(30) DEF ReplyInv
    <3>2. /\ mpc' = "after" /\ completed' = Append(completed, queue_master[1])
          /\ queue_master[1] \in Reqs
      <4>1. Len(completed) + 1 \in 1 .. Len(served)
        BY <1>0, <3>1, LenFacts
      <4>2. queue_master[1] \in Reqs
        BY <1>0, <3>1, <4>1, LenFacts
      <4>3. mpc' = "after" /\ completed' = Append(completed, Head(queue_master))
        BY <1>7, <2>4 DEF MasterPop
      <4> QED
        BY <2>1, <4>2, <4>3
    <3>3. /\ Len(completed') = Len(completed) + 1
          /\ \A i \in 1 .. Len(completed) : completed'[i] = completed[i]
          /\ completed'[Len(completed) + 1] = queue_master[1]
      BY <1>0, <3>2, AppendFacts DEF TypeOK
    <3>4. ExitSeen' = ExitSeen /\ ExitBack' = ExitBack
      BY <2>2, <3>2 DEF ExitSeen, ExitBack
    <3>5. ~ExitSeen
      BY <1>0, <3>1, LenFacts DEF ReplyInv
    <3>6. \A i \in 1 .. Len(queue_master') :
            queue_master'[i] = IF Len(completed') + i <= Len(served)
                               THEN served[Len(completed') + i] ELSE Exit
      <4> TAKE i \in 1 .. Len(queue_master')
      <4>1. i + 1 \in 1 .. Len(queue_master) /\ queue_master'[i] = queue_master[i + 1]
        BY <1>0, <2>1, LenFacts
      <4>2. queue_master[i + 1] = IF Len(completed) + (i + 1) <= Len(served)
                                  THEN served[Len(completed) + (i + 1)] ELSE Exit
        BY <1>0, <4>1 DEF ReplyInv
      <4>3. Len(completed) + (i + 1) = Len(completed') + i
        BY <1>0, <3>3, <4>1, LenFacts
      <4> QED
        BY <4>1, <4>2, <4>3
    <3>7. \A i \in 1 .. Len(completed') : completed'[i] = served[i]
      BY <1>0, <3>1, <3>3, LenFacts, SMTT(30) DEF ReplyInv
    <3>8. Len(completed') + B(wpc = "push") <= Len(served)
      <4>1. CASE wpc = "push"
        <5>1. ~ExitBack
          BY <4>1 DEF ExitBack
        <5> QED
          BY <1>0, <2>1, <3>3, <4>1, <5>1, LenFacts DEF ReplyInv, B
      <4> QED
        BY <1>0, <3>1, <3>3, <4>1, LenFacts DEF B
    <3>9. Len(completed') + Len(queue_master') + B(wpc' = "push")
            = Len(served) + B(ExitBack' /\ ~ExitSeen')
      <4>1. Len(completed) + Len(queue_master) + B(wpc = "push")
              = Len(served) + B(ExitBack /\ ~ExitSeen)
        BY <1>0 DEF ReplyInv
      <4>2. B(wpc = "push") \in Nat
        BY DEF B
      <4> QED
        BY <1>0, <2>1, <2>2, <3>3, <3>4, <4>1, <4>2, LenFacts
    <3>10. wpc' = "push" => wreq' = served'[Len(served')]
      BY <1>0, <2>2 DEF ReplyInv
    <3> QED
      BY <2>2, <3>4, <3>5, <3>6, <3>7, <3>8, <3>9, <3>10 DEF ReplyInv
  <2> QED
    BY <2>3, <2>4
<1>8. CASE MasterAfterReturn
  BY <1>0, <1>8 DEF MasterAfterReturn, ReplyInv, B, ExitSeen, ExitBack, ControlInv
<1>9. CASE MasterExit
  BY <1>0, <1>9 DEF MasterExit, ReplyInv, B, ExitSeen, ExitBack, ControlInv
<1>10. CASE MasterEmpty
  BY <1>0, <1>10 DEF MasterEmpty, ReplyInv, B, ExitSeen, ExitBack, ControlInv
<1>11. CASE MasterClosed
  BY <1>0, <1>11 DEF MasterClosed, ReplyInv, B, ExitSeen, ExitBack, ControlInv
<1>12. CASE WorkerWake
  BY <1>0, <1>12 DEF WorkerWake, ReplyInv, B, ExitSeen, ExitBack, ControlInv
<1>13. CASE WorkerPop
  BY <1>0, <1>13 DEF WorkerPop, ReplyInv, B, ExitSeen, ExitBack, ControlInv
<1>14. CASE WorkerRun
  <2>1. /\ wpc = "work" /\ wpc' = "push"
        /\ UNCHANGED <<completed, queue_master, mpc, async_master, wreq>>
        /\ served' = Append(served, wreq)
    BY <1>14 DEF WorkerRun
  <2>2. wreq \in Reqs
    BY <1>0, <2>1, LenFacts DEF RequestInv, Taken, B
  <2>3. /\ Len(served') = Len(served) + 1
        /\ \A i \in 1 .. Len(served) : served'[i] = served[i]
        /\ served'[Len(served) + 1] = wreq
    BY <1>0, <2>1, <2>2, AppendFacts DEF TypeOK
  <2>4. ~ExitBack /\ ~ExitBack' /\ ~ExitSeen /\ ~ExitSeen'
    BY <1>0, <2>1 DEF ControlInv, ExitBack, ExitSeen
  <2>5. Len(completed) + Len(queue_master) = Len(served)
    BY <1>0, <2>1, <2>4, LenFacts DEF ReplyInv, B
  <2>6. \A i \in 1 .. Len(queue_master) :
          queue_master[i] = served'[Len(completed) + i]
    BY <1>0, <2>3, <2>5, LenFacts DEF ReplyInv
  <2>7. \A i \in 1 .. Len(completed) : completed[i] = served'[i]
    BY <1>0, <2>3, <2>5, LenFacts DEF ReplyInv
  <2>8. \A i \in 1 .. Len(queue_master) : Len(completed) + i <= Len(served')
    BY <1>0, <2>3, <2>5, LenFacts
  <2>9. /\ Len(completed) + B(wpc' = "push") <= Len(served')
        /\ Len(completed) + Len(queue_master) + B(wpc' = "push")
             = Len(served') + B(ExitBack' /\ ~ExitSeen')
    BY <1>0, <2>1, <2>3, <2>4, <2>5, LenFacts DEF B
  <2> QED
    BY <2>1, <2>3, <2>4, <2>6, <2>7, <2>8, <2>9 DEF ReplyInv
<1>15. CASE WorkerPush
  <2>1. /\ wpc = "push" /\ wpc' = "send" /\ queue_master' = Append(queue_master, wreq)
        /\ UNCHANGED <<served, completed, mpc, async_master>>
    BY <1>15 DEF WorkerPush
  <2>2. ~ExitBack /\ ~ExitBack' /\ ~ExitSeen /\ ~ExitSeen'
    BY <1>0, <2>1 DEF ControlInv, ExitBack, ExitSeen
  <2>3. /\ Len(completed) + Len(queue_master) + 1 = Len(served)
        /\ wreq = served[Len(served)] /\ wreq \in Reqs
    BY <1>0, <2>1, <2>2, LenFacts DEF ReplyInv, B
  <2>4. /\ Len(queue_master') = Len(queue_master) + 1
        /\ \A i \in 1 .. Len(queue_master) : queue_master'[i] = queue_master[i]
        /\ queue_master'[Len(queue_master) + 1] = wreq
    BY <1>0, <2>1, <2>3, AppendFacts DEF TypeOK
  <2>5. \A i \in 1 .. Len(queue_master') :
          Len(completed) + i <= Len(served) /\ queue_master'[i] = served[Len(completed) + i]
    <3> TAKE i \in 1 .. Len(queue_master')
    <3>1. CASE i = Len(queue_master) + 1
      BY <1>0, <2>3, <2>4, <3>1, LenFacts, SMTT(30)
    <3>2. CASE i \in 1 .. Len(queue_master)
      BY <1>0, <2>3, <2>4, <3>2, LenFacts DEF ReplyInv
    <3> QED
      BY <1>0, <2>4, <3>1, <3>2, LenFacts
  <2> QED
    BY <1>0, <2>1, <2>2, <2>3, <2>4, <2>5, LenFacts DEF ReplyInv, B
<1>16. CASE WorkerSend
  BY <1>0, <1>16 DEF WorkerSend, ReplyInv, B, ExitSeen, ExitBack, ControlInv
<1>17. CASE WorkerExit
  BY <1>0, <1>17 DEF WorkerExit, ReplyInv, B, ExitSeen, ExitBack, ControlInv
<1>18. CASE WorkerEmpty
  BY <1>0, <1>18 DEF WorkerEmpty, ReplyInv, B, ExitSeen, ExitBack, ControlInv
<1>19. CASE WorkerClosed
  BY <1>0, <1>19 DEF WorkerClosed, ReplyInv, B, ExitSeen, ExitBack, ControlInv
<1>20. CASE WorkerExitPush
  <2>1. /\ wpc = "exit_push" /\ wpc' = "exit_send" /\ queue_master' = Append(queue_master, Exit)
        /\ UNCHANGED <<served, completed, mpc, async_master>>
    BY <1>20 DEF WorkerExitPush
  <2>2. ~ExitBack /\ ExitBack' /\ ~ExitSeen /\ ~ExitSeen'
    BY <1>0, <2>1 DEF ControlInv, ExitBack, ExitSeen
  <2>3. Len(completed) + Len(queue_master) = Len(served)
    BY <1>0, <2>1, <2>2, LenFacts DEF ReplyInv, B
  <2>4. /\ Len(queue_master') = Len(queue_master) + 1
        /\ \A i \in 1 .. Len(queue_master) : queue_master'[i] = queue_master[i]
        /\ queue_master'[Len(queue_master) + 1] = Exit
    BY <1>0, <2>1, AppendFacts DEF TypeOK
  <2>5. \A i \in 1 .. Len(queue_master') :
          queue_master'[i] = IF Len(completed) + i <= Len(served)
                             THEN served[Len(completed) + i] ELSE Exit
    <3> TAKE i \in 1 .. Len(queue_master')
    <3>1. CASE i = Len(queue_master) + 1
      BY <1>0, <2>3, <2>4, <3>1, LenFacts
    <3>2. CASE i \in 1 .. Len(queue_master)
      BY <1>0, <2>4, <3>2, LenFacts DEF ReplyInv
    <3> QED
      BY <1>0, <2>4, <3>1, <3>2, LenFacts
  <2>6. /\ Len(completed) + B(wpc' = "push") <= Len(served)
        /\ Len(completed) + Len(queue_master') + B(wpc' = "push")
             = Len(served) + B(ExitBack' /\ ~ExitSeen')
    BY <1>0, <2>1, <2>2, <2>3, <2>4, LenFacts DEF B
  <2>7. \A i \in 1 .. Len(completed) : completed[i] = served[i]
    BY <1>0 DEF ReplyInv
  <2> QED
    BY <2>1, <2>2, <2>5, <2>6, <2>7 DEF ReplyInv
<1>21. CASE WorkerExitSend
  BY <1>0, <1>21 DEF WorkerExitSend, ReplyInv, B, ExitSeen, ExitBack, ControlInv
<1>22. CASE UNCHANGED vars
  BY <1>0, <1>22 DEF ReplyInv, B, ExitSeen, ExitBack, ControlInv
<1> QED
  BY <1>1, <1>2, <1>3, <1>4, <1>5, <1>6, <1>7, <1>8, <1>9, <1>10, <1>11, <1>12, <1>13, <1>14, <1>15, <1>16, <1>17, <1>18, <1>19, <1>20, <1>21, <1>22 DEF Next, MainCalls, MainSteps, WorkerSteps, Gone

LEMMA WakeStep == IInv /\ [Next]_vars => NoLostWakeup'
<1> SUFFICES ASSUME IInv, [Next]_vars PROVE NoLostWakeup'
  OBVIOUS
<1> USE ReqsAssumption DEF vars, queues, asyncs, mainvar, workvar
<1>0. TypeOK /\ ControlInv /\ NoLostWakeup
  BY DEF IInv
<1>1. ASSUME NEW r \in Reqs, QueueWork(r) PROVE NoLostWakeup'
  BY <1>0, <1>1 DEF QueueWork, MayCall, TypeOK, ControlInv, NoLostWakeup, ExitSeen, ExitBack, ExitTaken
<1>2. CASE CloseWork
  BY <1>0, <1>2 DEF CloseWork, MayCall, TypeOK, ControlInv, NoLostWakeup, ExitSeen, ExitBack, ExitTaken
<1>3. CASE QueueWorkSend
  BY <1>0, <1>3 DEF QueueWorkSend, TypeOK, ControlInv, NoLostWakeup, ExitSeen, ExitBack, ExitTaken
<1>4. CASE CloseWorkSend
  BY <1>0, <1>4 DEF CloseWorkSend, TypeOK, ControlInv, NoLostWakeup, ExitSeen, ExitBack, ExitTaken
<1>5. CASE CloseWorkJoined
  BY <1>0, <1>5 DEF CloseWorkJoined, TypeOK, ControlInv, NoLostWakeup, ExitSeen, ExitBack, ExitTaken
<1>6. CASE MasterWake
  BY <1>0, <1>6 DEF MasterWake, TypeOK, ControlInv, NoLostWakeup, ExitSeen, ExitBack, ExitTaken
<1>7. CASE MasterPop
  BY <1>0, <1>7 DEF MasterPop, TypeOK, ControlInv, NoLostWakeup, ExitSeen, ExitBack, ExitTaken
<1>8. CASE MasterAfterReturn
  BY <1>0, <1>8 DEF MasterAfterReturn, TypeOK, ControlInv, NoLostWakeup, ExitSeen, ExitBack, ExitTaken
<1>9. CASE MasterExit
  BY <1>0, <1>9 DEF MasterExit, TypeOK, ControlInv, NoLostWakeup, ExitSeen, ExitBack, ExitTaken
<1>10. CASE MasterEmpty
  BY <1>0, <1>10 DEF MasterEmpty, TypeOK, ControlInv, NoLostWakeup, ExitSeen, ExitBack, ExitTaken
<1>11. CASE MasterClosed
  BY <1>0, <1>11 DEF MasterClosed, TypeOK, ControlInv, NoLostWakeup, ExitSeen, ExitBack, ExitTaken
<1>12. CASE WorkerWake
  BY <1>0, <1>12 DEF WorkerWake, TypeOK, ControlInv, NoLostWakeup, ExitSeen, ExitBack, ExitTaken
<1>13. CASE WorkerPop
  BY <1>0, <1>13 DEF WorkerPop, TypeOK, ControlInv, NoLostWakeup, ExitSeen, ExitBack, ExitTaken
<1>14. CASE WorkerRun
  BY <1>0, <1>14 DEF WorkerRun, TypeOK, ControlInv, NoLostWakeup, ExitSeen, ExitBack, ExitTaken
<1>15. CASE WorkerPush
  BY <1>0, <1>15 DEF WorkerPush, TypeOK, ControlInv, NoLostWakeup, ExitSeen, ExitBack, ExitTaken
<1>16. CASE WorkerSend
  BY <1>0, <1>16 DEF WorkerSend, TypeOK, ControlInv, NoLostWakeup, ExitSeen, ExitBack, ExitTaken
<1>17. CASE WorkerExit
  BY <1>0, <1>17 DEF WorkerExit, TypeOK, ControlInv, NoLostWakeup, ExitSeen, ExitBack, ExitTaken
<1>18. CASE WorkerEmpty
  BY <1>0, <1>18 DEF WorkerEmpty, TypeOK, ControlInv, NoLostWakeup, ExitSeen, ExitBack, ExitTaken
<1>19. CASE WorkerClosed
  BY <1>0, <1>19 DEF WorkerClosed, TypeOK, ControlInv, NoLostWakeup, ExitSeen, ExitBack, ExitTaken
<1>20. CASE WorkerExitPush
  BY <1>0, <1>20 DEF WorkerExitPush, TypeOK, ControlInv, NoLostWakeup, ExitSeen, ExitBack, ExitTaken
<1>21. CASE WorkerExitSend
  BY <1>0, <1>21 DEF WorkerExitSend, TypeOK, ControlInv, NoLostWakeup, ExitSeen, ExitBack, ExitTaken
<1>22. CASE UNCHANGED vars
  BY <1>0, <1>22 DEF TypeOK, ControlInv, NoLostWakeup, ExitSeen, ExitBack, ExitTaken
<1> QED
  BY <1>1, <1>2, <1>3, <1>4, <1>5, <1>6, <1>7, <1>8, <1>9, <1>10, <1>11, <1>12, <1>13, <1>14, <1>15, <1>16, <1>17, <1>18, <1>19, <1>20, <1>21, <1>22 DEF Next, MainCalls, MainSteps, WorkerSteps, Gone

(* Two sequences of one length that agree at every index are the same. *)
LEMMA SameSeq ==
  ASSUME NEW S, NEW a \in Seq(S), NEW b \in Seq(S), Len(a) = Len(b),
         \A i \in 1 .. Len(a) : a[i] = b[i]
  PROVE  a = b
  OBVIOUS

LEMMA InitIInv == Init => IInv
<1> SUFFICES ASSUME Init PROVE IInv
  OBVIOUS
<1>1. TypeOK
  <2>1. << >> \in Seq(Reqs \cup {Exit}) /\ << >> \in Seq(Reqs)
    OBVIOUS
  <2> QED
    BY <2>1, Zenon DEF Init, TypeOK
<1>2. ControlInv
  BY DEF Init, ControlInv, ExitTaken, ExitSeen, ExitBack
<1>3. RequestInv
  BY DEF Init, RequestInv, Taken, B, ExitQueued, ExitTaken
<1>4. ReplyInv
  BY DEF Init, ReplyInv, B, ExitBack, ExitSeen
<1>5. NoLostWakeup
  BY DEF Init, NoLostWakeup
<1> QED
  BY <1>1, <1>2, <1>3, <1>4, <1>5 DEF IInv

LEMMA NextIInv == IInv /\ [Next]_vars => IInv'
  BY TypeStep, ControlStep, RequestStep, ReplyStep, WakeStep DEF IInv

(* IInv is an invariant of thread_worker. *)
THEOREM Invariance == Spec => []IInv
  BY InitIInv, NextIInv, PTL DEF Spec

(* Every variable keeps its type: in particular nothing but requests and   *)
(* exit_req ever travels in the two deques.                                *)
THEOREM TypeCorrect == Spec => []TypeOK
<1>1. IInv => TypeOK
  BY DEF IInv
<1> QED
  BY <1>1, Invariance, PTL

(* The asserts of thread_worker.cpp lines 54 and 80 never fail, though     *)
(* neither holds the mutex of the deque it reads.                          *)
THEOREM AssertsHold == Spec => []ExitIsLast
<1>1. IInv => ExitIsLast
  <2> SUFFICES ASSUME IInv PROVE ExitIsLast
    OBVIOUS
  <2>1. wpc = "exit" => Len(queue_worker) = 0
    BY LenFacts DEF IInv, RequestInv, Taken, B, ExitQueued, ExitTaken
  <2>2. mpc = "exit" => Len(queue_master) = 0
    BY LenFacts DEF IInv, ReplyInv, ControlInv, B, ExitBack, ExitSeen
  <2> QED
    BY <2>1, <2>2 DEF IInv, TypeOK, ExitIsLast
<1> QED
  BY <1>1, Invariance, PTL

(* Coalesced sends never leave a thread asleep on a deque with work.       *)
THEOREM WakeupsArrive == Spec => []NoLostWakeup
<1>1. IInv => NoLostWakeup
  BY DEF IInv
<1> QED
  BY <1>1, Invariance, PTL

(* When close_work returns, everything was served and the thread is dead.  *)
THEOREM CloseJoins == Spec => []ClosedMeansServed
<1>1. IInv => ClosedMeansServed
  <2> SUFFICES ASSUME IInv, exit_data, call = "none"
               PROVE  wpc = "dead" /\ served = submitted /\ retired
    BY DEF ClosedMeansServed
  <2>1. wpc = "dead" /\ retired
    BY DEF IInv, ControlInv
  <2>2. /\ Len(served) = Len(submitted)
        /\ \A i \in 1 .. Len(served) : served[i] = submitted[i]
    BY <2>1 DEF IInv, RequestInv, ExitTaken
  <2> QED
    BY <2>1, <2>2, SameSeq DEF IInv, TypeOK
<1> QED
  BY <1>1, Invariance, PTL

(* The abort close_work can run into costs no accepted request.            *)
THEOREM AbortIsLate == Spec => []AbortLosesNoWork
<1>1. IInv => AbortLosesNoWork
  <2> SUFFICES ASSUME IInv, call = "aborted"
               PROVE  /\ retired /\ served = submitted
                      /\ Exit \notin {queue_worker[i] : i \in 1 .. Len(queue_worker)}
    BY DEF AbortLosesNoWork
  <2>1. retired /\ ExitTaken
    BY DEF IInv, ControlInv, ExitTaken
  <2>2. /\ Len(served) = Len(submitted)
        /\ \A i \in 1 .. Len(served) : served[i] = submitted[i]
        /\ Len(queue_worker) = 0
    BY <2>1, LenFacts DEF IInv, RequestInv, Taken, B, ExitQueued
  <2> QED
    BY <2>1, <2>2, SameSeq DEF IInv, TypeOK
<1> QED
  BY <1>1, Invariance, PTL

(* A step of the code is a step of the service or a stutter. *)
LEMMA RefinementStep == IInv /\ [Next]_vars => [WQ!WQNext]_(WQ!wqvars)
<1> SUFFICES ASSUME IInv, [Next]_vars PROVE [WQ!WQNext]_(WQ!wqvars)
  OBVIOUS
<1> USE DEF vars, queues, asyncs, mainvar, workvar
<1>0. TypeOK /\ ControlInv /\ RequestInv /\ ReplyInv
  BY DEF IInv
<1>1. ASSUME NEW r \in Reqs, QueueWork(r) PROVE [WQ!WQNext]_(WQ!wqvars)
  <2>1. Stage = "open" /\ Stage' = "open"
    BY <1>0, <1>1 DEF QueueWork, ControlInv, ExitTaken, ExitBack, ExitSeen, Stage
  <2>2. WQ!Submit(r)
    BY <1>1, <2>1 DEF QueueWork, WQ!Submit
  <2> QED
    BY <2>2 DEF WQ!WQNext
<1>2. CASE CloseWork
  <2>1. Stage = "open" /\ Stage' = "closing"
    BY <1>0, <1>2 DEF CloseWork, ControlInv, ExitTaken, ExitBack, ExitSeen, Stage
  <2>2. WQ!Close
    BY <1>2, <2>1 DEF CloseWork, WQ!Close
  <2> QED
    BY <2>2 DEF WQ!WQNext
<1>3. CASE QueueWorkSend
  BY <1>3 DEF QueueWorkSend, Stage, WQ!wqvars
<1>4. CASE CloseWorkSend
  BY <1>4 DEF CloseWorkSend, Stage, WQ!wqvars
<1>5. CASE CloseWorkJoined
  BY <1>5 DEF CloseWorkJoined, Stage, WQ!wqvars
<1>6. CASE MasterWake
  BY <1>6 DEF MasterWake, Stage, WQ!wqvars
<1>7. CASE MasterPop
  <2>1. Head(queue_master) = queue_master[1] /\ Len(queue_master) >= 1
    BY <1>0, <1>7, TailFacts DEF MasterPop, TypeOK
  <2>2. CASE Head(queue_master) = Exit
    BY <1>7, <2>2 DEF MasterPop, Stage, WQ!wqvars
  <2>3. CASE Head(queue_master) # Exit
    <3>1. /\ Len(completed) < Len(served)
          /\ queue_master[1] = served[Len(completed) + 1]
      BY <1>0, <2>1, <2>3, LenFacts DEF ReplyInv
    <3>2. completed' = Append(completed, served[Len(completed) + 1])
      BY <1>7, <2>1, <2>3, <3>1 DEF MasterPop
    <3>3. Stage # "finished" /\ UNCHANGED <<submitted, served, Stage>>
      BY <1>0, <1>7, <3>1, LenFacts DEF MasterPop, ControlInv, ReplyInv, ExitSeen, Stage
    <3>4. WQ!Complete
      BY <3>1, <3>2, <3>3 DEF WQ!Complete
    <3> QED
      BY <3>4 DEF WQ!WQNext
  <2> QED
    BY <2>2, <2>3
<1>8. CASE MasterAfterReturn
  BY <1>8 DEF MasterAfterReturn, Stage, WQ!wqvars
<1>9. CASE MasterExit
  BY <1>9 DEF MasterExit, Stage, WQ!wqvars
<1>10. CASE MasterEmpty
  BY <1>10 DEF MasterEmpty, Stage, WQ!wqvars
<1>11. CASE MasterClosed
  <2>1. Len(completed) = Len(served) /\ Len(served) = Len(submitted)
    BY <1>0, <1>11 DEF MasterClosed, RequestInv, ReplyInv, ControlInv, ExitSeen, ExitBack, ExitTaken
  <2>2. completed = served /\ served = submitted
    <3>1. /\ \A i \in 1 .. Len(completed) : completed[i] = served[i]
          /\ \A i \in 1 .. Len(served) : served[i] = submitted[i]
      BY <1>0 DEF RequestInv, ReplyInv
    <3> QED
      BY <1>0, <2>1, <3>1, SameSeq DEF TypeOK
  <2>3. Stage = "retired" /\ Stage' = "finished"
    BY <1>0, <1>11 DEF MasterClosed, ControlInv, ExitSeen, ExitBack, Stage
  <2>4. WQ!Finish
    BY <1>11, <2>2, <2>3 DEF MasterClosed, WQ!Finish
  <2> QED
    BY <2>4 DEF WQ!WQNext
<1>12. CASE WorkerWake
  BY <1>12 DEF WorkerWake, Stage, WQ!wqvars
<1>13. CASE WorkerPop
  BY <1>13 DEF WorkerPop, Stage, WQ!wqvars
<1>14. CASE WorkerRun
  <2>1. Len(served) < Len(submitted) /\ wreq = submitted[Len(served) + 1]
    BY <1>0, <1>14, LenFacts DEF WorkerRun, RequestInv, Taken, B
  <2>2. Stage \in {"open", "closing"} /\ Stage' = Stage
    BY <1>0, <1>14 DEF WorkerRun, ControlInv, ExitSeen, ExitBack, Stage
  <2>3. WQ!Serve
    BY <1>14, <2>1, <2>2 DEF WorkerRun, WQ!Serve
  <2> QED
    BY <2>3 DEF WQ!WQNext
<1>15. CASE WorkerPush
  BY <1>15 DEF WorkerPush, Stage, WQ!wqvars
<1>16. CASE WorkerSend
  BY <1>16 DEF WorkerSend, Stage, WQ!wqvars
<1>17. CASE WorkerExit
  BY <1>17 DEF WorkerExit, Stage, WQ!wqvars
<1>18. CASE WorkerEmpty
  BY <1>18 DEF WorkerEmpty, Stage, WQ!wqvars
<1>19. CASE WorkerClosed
  <2>1. Len(served) = Len(submitted) /\ exit_data /\ ~retired /\ ~finished
    BY <1>0, <1>19 DEF WorkerClosed, RequestInv, ControlInv, ExitSeen, ExitBack, ExitTaken
  <2>2. served = submitted
    <3>1. \A i \in 1 .. Len(served) : served[i] = submitted[i]
      BY <1>0 DEF RequestInv
    <3> QED
      BY <1>0, <2>1, <3>1, SameSeq DEF TypeOK
  <2>3. Stage = "closing" /\ Stage' = "retired"
    BY <1>19, <2>1 DEF WorkerClosed, Stage
  <2>4. WQ!Retire
    BY <1>19, <2>2, <2>3 DEF WorkerClosed, WQ!Retire
  <2> QED
    BY <2>4 DEF WQ!WQNext
<1>20. CASE WorkerExitPush
  BY <1>20 DEF WorkerExitPush, Stage, WQ!wqvars
<1>21. CASE WorkerExitSend
  BY <1>21 DEF WorkerExitSend, Stage, WQ!wqvars
<1>22. CASE UNCHANGED vars
  BY <1>22 DEF Stage, WQ!wqvars
<1> QED
  BY <1>1, <1>2, <1>3, <1>4, <1>5, <1>6, <1>7, <1>8, <1>9, <1>10, <1>11, <1>12, <1>13, <1>14, <1>15, <1>16, <1>17, <1>18, <1>19, <1>20, <1>21, <1>22 DEF Next, MainCalls, MainSteps, WorkerSteps, Gone

LEMMA RefinementInit == Init => WQ!WQInit
  BY DEF Init, WQ!WQInit, Stage

(* thread_worker implements the FIFO, exactly-once service of WorkQueue.   *)
THEOREM Refinement == Spec => ImplementsWorkQueue
<1>1. Init => WQ!WQInit
  BY RefinementInit
<1>2. IInv /\ [Next]_vars => [WQ!WQNext]_(WQ!wqvars)
  BY RefinementStep
<1> QED
  BY <1>1, <1>2, Invariance, PTL DEF Spec, ImplementsWorkQueue, WQ!WQSpec
=============================================================================

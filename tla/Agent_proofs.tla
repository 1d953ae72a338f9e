---------------------------- MODULE Agent_proofs ----------------------------
(***************************************************************************)
(* Proofs about Agent, for every set of requests, every queue size, with   *)
(* the idle timer or without: types, the conservation of requests, the     *)
(* drain, that Agent implements RequestService, and what the shown state   *)
(* and the idle timer say about the loop.                                  *)
(***************************************************************************)
EXTENDS Agent, SequenceTheorems, TLAPS

(* Where the brackets stand does not matter.                               *)
LEMMA Regroup ==
  ASSUME NEW S, NEW c \in Seq(S), NEW h \in Seq(S), NEW t \in Seq(S)
  PROVE  c \o (h \o t) = (c \o h) \o t
BY ConcatAssociative, SMTT(60)

(* A request that leaves the queue for the empty hand keeps its place.     *)
LEMMA MoveToHand ==
  ASSUME NEW S, NEW c \in Seq(S), NEW q \in Seq(S), q # <<>>
  PROVE  (c \o <<>>) \o q = (c \o << Head(q) >>) \o Tail(q)
<1> DEFINE h == << Head(q) >>
           t == Tail(q)
<1>1. /\ Head(q) \in S /\ t \in Seq(S) /\ h \in Seq(S)
      /\ Len(t) = Len(q) - 1 /\ Len(h) = 1 /\ h[1] = q[1]
      /\ \A i \in 1..Len(t) : t[i] = q[i + 1]
  BY HeadTailProperties
<1>2. Len(q) \in Nat /\ Len(t) \in Nat
  BY LenProperties, <1>1
<1> HIDE DEF h, t
<1>a. h \in Seq(S) /\ t \in Seq(S)
  BY <1>1
<1>3. /\ h \o t \in Seq(S)
      /\ Len(h \o t) = Len(h) + Len(t)
      /\ \A i \in 1..Len(h) + Len(t) :
           (h \o t)[i] = IF i <= Len(h) THEN h[i] ELSE t[i - Len(h)]
  BY <1>a, ConcatProperties
<1>4. Len(q) = Len(h \o t) /\ \A i \in 1..Len(q) : q[i] = (h \o t)[i]
  BY <1>1, <1>2, <1>3
<1>5. q = h \o t
  <2>1. q \in Seq(S) /\ h \o t \in Seq(S)
    BY <1>3
  <2> QED BY <1>4, <2>1, SeqEqual
<1>6. c \o (h \o t) = (c \o h) \o t
  BY <1>a, Regroup, SMTT(60)
<1>7. (c \o <<>>) \o q = (c \o h) \o t
  BY <1>5, <1>6, ConcatEmptySeq
<1> QED BY <1>7 DEF h, t

(* A request that is appended to the queue is the last of all.             *)
LEMMA AppendToQueue ==
  ASSUME NEW c \in Seq(Requests), NEW h \in Seq(Requests),
         NEW q \in Seq(Requests), NEW r \in Requests
  PROVE  Append((c \o h) \o q, r) = (c \o h) \o Append(q, r)
<1>1. << r >> \in Seq(Requests)
  OBVIOUS
<1>2. c \o h \in Seq(Requests) /\ (c \o h) \o q \in Seq(Requests)
  BY ConcatProperties
<1>3. Append((c \o h) \o q, r) = ((c \o h) \o q) \o << r >>
  BY <1>2, AppendIsConcat
<1>4. Append(q, r) = q \o << r >>
  BY AppendIsConcat
<1>5. ((c \o h) \o q) \o << r >> = (c \o h) \o (q \o << r >>)
  BY <1>1, <1>2, ConcatAssociative, SMTT(60)
<1> QED BY <1>3, <1>4, <1>5

(* The request in hand is the next to be completed.                        *)
LEMMA CompleteFromHand ==
  ASSUME NEW S, NEW c \in Seq(S), NEW h \in Seq(S), NEW q \in Seq(S), Len(h) = 1
  PROVE  /\ (c \o h) \o q = (Append(c, h[1]) \o <<>>) \o q
         /\ Len(c) < Len((c \o h) \o q)
         /\ ((c \o h) \o q)[Len(c) + 1] = h[1]
         /\ h[1] \in S
<1>1. h[1] \in S
  <2>1. 1 \in 1..Len(h)
    OBVIOUS
  <2> QED BY <2>1, ElementOfSeq, Zenon
<1>2. h = << h[1] >>
  <2>1. << h[1] >> \in Seq(S) /\ Len(<< h[1] >>) = 1
    BY <1>1
  <2> QED BY <2>1, SeqEqual
<1>3. Append(c, h[1]) = c \o h /\ Append(c, h[1]) \in Seq(S)
  <2>1. Append(c, h[1]) = c \o << h[1] >> /\ Append(c, h[1]) \in Seq(S)
    BY <1>1, AppendIsConcat, AppendProperties
  <2> QED BY <1>2, <2>1, Zenon
<1>4. Append(c, h[1]) \o <<>> = c \o h
  BY <1>3, ConcatEmptySeq
<1>5. /\ c \o h \in Seq(S) /\ Len(c \o h) = Len(c) + 1
      /\ (c \o h)[Len(c) + 1] = h[1]
  BY <1>1, <1>3, AppendProperties
<1>6. /\ Len((c \o h) \o q) = Len(c) + 1 + Len(q)
      /\ Len(c) \in Nat /\ Len(q) \in Nat
      /\ \A i \in 1..(Len(c) + 1 + Len(q)) :
           ((c \o h) \o q)[i] = IF i <= Len(c) + 1 THEN (c \o h)[i]
                                ELSE q[i - (Len(c) + 1)]
  BY <1>5, ConcatProperties, LenProperties
<1>7. Len(c) + 1 \in 1..(Len(c) + 1 + Len(q))
  BY <1>6
<1> QED BY <1>1, <1>4, <1>5, <1>6, <1>7, SMTT(60)

-----------------------------------------------------------------------------
(* Every variable has its type in every reachable state; in particular the *)
(* queue never exceeds QueueSize and there is a request in hand exactly    *)
(* while one is being processed.                                           *)
THEOREM TypeCorrect == Spec => []TypeOK
<1>1. Init => TypeOK
  <2> SUFFICES ASSUME Init PROVE TypeOK
    OBVIOUS
  <2>1. /\ queue \in Seq(Requests) /\ Len(queue) <= QueueSize
        /\ inHand \in Seq(Requests) /\ Len(inHand) <= 1 /\ inHand = <<>>
        /\ accepted \in Seq(Requests) /\ completed \in Seq(Requests) /\ cut \in Nat
    BY EmptySeq, AgentAssumption DEF Init
  <2> QED BY <2>1 DEF Init, TypeOK, PCs, States, Timers
<1>2. TypeOK /\ [Next]_vars => TypeOK'
  <2> SUFFICES ASSUME TypeOK, [Next]_vars PROVE TypeOK'
    OBVIOUS
  <2>0. Len(queue) \in Nat /\ QueueSize \in Nat
    BY AgentAssumption, LenProperties DEF TypeOK
  <2> USE DEF TypeOK, PCs, States, Timers, workVars, histVars
  <2>1. CASE UNCHANGED vars
    BY <2>1 DEF vars
  <2>2. ASSUME NEW r \in Requests, Submit(r) PROVE TypeOK'
    <3>1. /\ queue' \in Seq(Requests) /\ Len(queue') <= QueueSize
          /\ accepted' \in Seq(Requests)
      BY <2>0, <2>2, AppendProperties DEF Submit
    <3> QED BY <2>2, <3>1 DEF Submit
  <2>3. CASE CancelCtx
    BY <2>3, LenProperties DEF CancelCtx
  <2>4. CASE TimerExpires
    BY <2>4 DEF TimerExpires
  <2>5. ASSUME queue # <<>>, queue' = Tail(queue), inHand' = << Head(queue) >>
        PROVE  /\ queue' \in Seq(Requests) /\ Len(queue') <= QueueSize
               /\ inHand' \in Seq(Requests) /\ Len(inHand') <= 1 /\ inHand' # <<>>
    <3>1. Head(queue) \in Requests /\ Tail(queue) \in Seq(Requests)
          /\ Len(Tail(queue)) = Len(queue) - 1
      BY <2>5, HeadTailProperties
    <3> QED BY <2>0, <2>5, <3>1
  <2>6. CASE TakeRequest
    BY <2>5, <2>6 DEF TakeRequest, Dequeue, StopTimer
  <2>7. CASE TakeIdle
    BY <2>7 DEF TakeIdle
  <2>8. CASE TakeDone
    BY <2>8 DEF TakeDone, StopTimer
  <2>9. CASE StartRun
    BY <2>9 DEF StartRun, ResetTimer
  <2>10. CASE BeginProcessing
    BY <2>10 DEF BeginProcessing
  <2>11. ASSUME Complete, inHand # <<>>
         PROVE  /\ completed' \in Seq(Requests)
                /\ inHand' \in Seq(Requests) /\ Len(inHand') <= 1 /\ inHand' = <<>>
    <3>1. inHand[1] \in Requests
      <4>1. 1 \in 1..Len(inHand)
        BY <2>11, EmptySeq
      <4> QED BY <4>1, ElementOfSeq
    <3>2. inHand' = <<>> /\ inHand' \in Seq(Requests) /\ Len(inHand') <= 1
      BY <2>11, EmptySeq DEF Complete
    <3>3. completed' \in Seq(Requests)
      BY <2>11, <3>1, AppendProperties DEF Complete
    <3> QED BY <2>11, <3>1, <3>2, <3>3 DEF Complete
  <2>12. CASE FinishRequest
    <3>1. Complete /\ inHand # <<>>
      BY <2>12 DEF FinishRequest
    <3> QED BY <2>11, <2>12, <3>1 DEF FinishRequest, Complete, ResetTimer
  <2>13. CASE CheckIdle
    BY <2>13 DEF CheckIdle, ResetTimer
  <2>14. CASE EnterIdle
    BY <2>14 DEF EnterIdle
  <2>15. CASE OnIdleReturns
    BY <2>15 DEF OnIdleReturns, ResetTimer
  <2>16. CASE DrainTake
    BY <2>5, <2>16 DEF DrainTake, Dequeue
  <2>17. CASE DrainFinish
    <3>1. Complete /\ inHand # <<>>
      BY <2>17 DEF DrainFinish
    <3> QED BY <2>11, <2>17, <3>1 DEF DrainFinish, Complete
  <2>18. CASE DrainEnds
    BY <2>18 DEF DrainEnds
  <2>19. CASE HookReturns
    BY <2>19 DEF HookReturns
  <2> QED BY <2>1, <2>2, <2>3, <2>4, <2>6, <2>7, <2>8, <2>9, <2>10, <2>12,
             <2>13, <2>14, <2>15, <2>16, <2>17, <2>18, <2>19 DEF Next, Steps
<1> QED BY <1>1, <1>2, PTL DEF Spec

-----------------------------------------------------------------------------
(* The three ways in which a step moves a request.                         *)
LEMMA TakeKeeps ==
  ASSUME TypeOK, NothingLostOrReordered, inHand = <<>>, queue # <<>>,
         inHand' = << Head(queue) >>, queue' = Tail(queue),
         UNCHANGED <<accepted, completed>>
  PROVE  NothingLostOrReordered'
<1>1. completed \in Seq(Requests) /\ queue \in Seq(Requests)
  BY DEF TypeOK
<1>2. (completed \o <<>>) \o queue = (completed \o << Head(queue) >>) \o Tail(queue)
  BY <1>1, MoveToHand
<1> QED BY <1>2 DEF NothingLostOrReordered

LEMMA HandIsOne == TypeOK /\ inHand # <<>> => Len(inHand) = 1
<1> SUFFICES ASSUME TypeOK, inHand # <<>> PROVE Len(inHand) = 1
  OBVIOUS
<1>1. inHand \in Seq(Requests) /\ Len(inHand) <= 1
  BY DEF TypeOK
<1>2. Len(inHand) \in Nat
  BY <1>1, LenProperties
<1>3. Len(inHand) # 0
  BY <1>1, EmptySeq
<1>4. \A n \in Nat : n <= 1 /\ n # 0 => n = 1
  OBVIOUS
<1> QED BY <1>1, <1>2, <1>3, <1>4, Zenon

LEMMA CompleteKeeps ==
  ASSUME TypeOK, NothingLostOrReordered, inHand # <<>>, Complete
  PROVE  /\ NothingLostOrReordered'
         /\ Len(completed) < Len(accepted)
         /\ completed' = Append(completed, accepted[Len(completed) + 1])
         /\ Len(completed') = Len(completed) + 1
<1>1. /\ completed \in Seq(Requests) /\ queue \in Seq(Requests)
      /\ inHand \in Seq(Requests) /\ Len(inHand) = 1
  <2>1. /\ completed \in Seq(Requests) /\ queue \in Seq(Requests)
        /\ inHand \in Seq(Requests)
    BY DEF TypeOK
  <2> QED BY <2>1, HandIsOne
<1>2. /\ (completed \o inHand) \o queue = (Append(completed, inHand[1]) \o <<>>) \o queue
      /\ Len(completed) < Len((completed \o inHand) \o queue)
      /\ ((completed \o inHand) \o queue)[Len(completed) + 1] = inHand[1]
      /\ inHand[1] \in Requests
  BY <1>1, CompleteFromHand
<1>3. Len(Append(completed, inHand[1])) = Len(completed) + 1
  BY <1>1, <1>2, AppendProperties
<1> QED BY <1>2, <1>3 DEF NothingLostOrReordered, Complete

LEMMA SubmitKeeps ==
  ASSUME TypeOK, NothingLostOrReordered, NEW r \in Requests, Submit(r)
  PROVE  NothingLostOrReordered'
<1>1. /\ completed \in Seq(Requests) /\ queue \in Seq(Requests)
      /\ inHand \in Seq(Requests)
  BY DEF TypeOK
<1>2. Append((completed \o inHand) \o queue, r) = (completed \o inHand) \o Append(queue, r)
  <2>1. PICK c, h, q : c = completed /\ h = inHand /\ q = queue
    OBVIOUS
  <2>2. c \in Seq(Requests) /\ h \in Seq(Requests) /\ q \in Seq(Requests)
    BY <1>1, <2>1
  <2>3. Append((c \o h) \o q, r) = (c \o h) \o Append(q, r)
    BY <2>2, AppendToQueue, ZenonT(60)
  <2> QED BY <2>1, <2>3
<1> QED BY <1>2 DEF NothingLostOrReordered, Submit

(* Every other step leaves the requests where they are.                    *)
Moves ==
  \/ \E r \in Requests : Submit(r)
  \/ TakeRequest \/ DrainTake \/ FinishRequest \/ DrainFinish

LEMMA OtherStepsKeepRequests ==
  ASSUME [Next]_vars, ~Moves
  PROVE  UNCHANGED <<workVars, accepted, completed>>
BY DEF Next, Steps, Moves, vars, histVars, workVars, CancelCtx, TimerExpires,
   TakeIdle, TakeDone, StartRun, BeginProcessing, CheckIdle, EnterIdle,
   OnIdleReturns, DrainEnds, HookReturns

LEMMA NothingLostInit == Init => NothingLostOrReordered
<1>1. <<>> \in Seq(Requests)
  BY EmptySeq
<1>2. (<<>> \o <<>>) \o <<>> = <<>>
  BY <1>1, ConcatEmptySeq
<1> QED BY <1>2 DEF Init, NothingLostOrReordered

LEMMA NothingLostStep ==
  TypeOK /\ NothingLostOrReordered /\ [Next]_vars => NothingLostOrReordered'
<1> SUFFICES ASSUME TypeOK, NothingLostOrReordered, [Next]_vars
             PROVE  NothingLostOrReordered'
  OBVIOUS
<1>1. CASE \E r \in Requests : Submit(r)
  BY <1>1, SubmitKeeps
<1>2. CASE TakeRequest
  <2>1. inHand = <<>>
    BY <1>2 DEF TakeRequest, TypeOK
  <2> QED BY <1>2, <2>1, TakeKeeps DEF TakeRequest, Dequeue, histVars
<1>3. CASE DrainTake
  <2>1. inHand = <<>>
    BY <1>3 DEF DrainTake, TypeOK
  <2> QED BY <1>3, <2>1, TakeKeeps DEF DrainTake, Dequeue, histVars
<1>4. CASE FinishRequest
  <2>1. inHand # <<>>
    BY <1>4 DEF FinishRequest, TypeOK
  <2> QED BY <1>4, <2>1, CompleteKeeps DEF FinishRequest
<1>5. CASE DrainFinish
  <2>1. inHand # <<>>
    BY <1>5 DEF DrainFinish, TypeOK
  <2> QED BY <1>5, <2>1, CompleteKeeps DEF DrainFinish
<1>6. CASE ~Moves
  BY <1>6, OtherStepsKeepRequests DEF NothingLostOrReordered, workVars
<1> QED BY <1>1, <1>2, <1>3, <1>4, <1>5, <1>6 DEF Moves

(* No request that Submit accepted is lost, overtaken or handled twice.    *)
THEOREM NothingLost == Spec => []NothingLostOrReordered
BY NothingLostInit, NothingLostStep, TypeCorrect, PTL DEF Spec

-----------------------------------------------------------------------------
(* What the drain rests on: it is only entered with ctx done, and the      *)
(* count taken at the cancellation stays within what was accepted.         *)
DrainInv ==
  /\ pc \in {"drain", "drainTake", "drainProcess", "hook", "returned"} => ctxDone
  /\ cut <= Len(accepted)
  /\ DrainCoversAccepted

LEMMA DrainInit == Init => DrainInv
<1>1. Init => cut = 0 /\ Len(accepted) = 0 /\ pc = "new"
  BY EmptySeq DEF Init
<1> QED BY <1>1 DEF DrainInv, DrainCoversAccepted

LEMMA DrainStep ==
  TypeOK /\ TypeOK' /\ NothingLostOrReordered /\ DrainInv /\ [Next]_vars => DrainInv'
<1> SUFFICES ASSUME TypeOK, TypeOK', NothingLostOrReordered, DrainInv, [Next]_vars
             PROVE  DrainInv'
  OBVIOUS
<1> USE DEF DrainInv, DrainCoversAccepted
<1>0. /\ Len(accepted) \in Nat /\ Len(completed) \in Nat /\ cut \in Nat
      /\ Len(accepted') \in Nat /\ Len(completed') \in Nat
  BY LenProperties DEF TypeOK
<1>1. ASSUME NEW r \in Requests, Submit(r) PROVE DrainInv'
  <2>1. Len(accepted') = Len(accepted) + 1
    BY <1>1, AppendProperties DEF Submit, TypeOK
  <2> QED BY <1>0, <1>1, <2>1 DEF Submit
<1>2. CASE CancelCtx
  BY <1>0, <1>2 DEF CancelCtx
<1>3. CASE DrainEnds
  <2>1. inHand = <<>> /\ queue = <<>> /\ completed \in Seq(Requests)
    BY <1>3 DEF DrainEnds, Drained, TypeOK
  <2>2. accepted = completed
    BY <2>1, ConcatEmptySeq DEF NothingLostOrReordered
  <2> QED BY <1>0, <1>3, <2>2 DEF DrainEnds, histVars
<1>4. CASE FinishRequest
  BY <1>0, <1>4 DEF FinishRequest, Complete
<1>5. CASE DrainFinish
  BY <1>0, <1>5 DEF DrainFinish, Complete
<1>6. CASE HookReturns
  BY <1>6 DEF HookReturns, histVars
<1>7. CASE UNCHANGED vars
  BY <1>7 DEF vars, histVars
<1>8. CASE TakeDone
  BY <1>8 DEF TakeDone, histVars
<1>9. CASE DrainTake
  BY <1>9 DEF DrainTake, Dequeue, histVars
<1>10. CASE \/ TimerExpires \/ TakeRequest \/ TakeIdle \/ StartRun
            \/ BeginProcessing \/ CheckIdle \/ EnterIdle \/ OnIdleReturns
  BY <1>10 DEF TimerExpires, TakeRequest, TakeIdle, StartRun, BeginProcessing,
     CheckIdle, EnterIdle, OnIdleReturns, histVars
<1> QED BY <1>1, <1>2, <1>3, <1>4, <1>5, <1>6, <1>7, <1>8, <1>9, <1>10
        DEF Next, Steps

(* Whatever was accepted before the cancellation has been completed when   *)
(* the shutdown hook runs and when Run returns.                            *)
THEOREM DrainCovers == Spec => []DrainCoversAccepted
<1>1. DrainInv => DrainCoversAccepted
  BY DEF DrainInv
<1> QED BY <1>1, DrainInit, DrainStep, NothingLost, TypeCorrect, PTL DEF Spec

-----------------------------------------------------------------------------
(* What State says is a function of where the loop is: ready in the select *)
(* and on the way to and from it, whichever branch was taken.              *)
StateAt ==
  /\ pc = "new" => state = "starting"
  /\ pc \in {"select", "take", "expired", "checked", "drain", "drainTake", "hook"}
       => state = "ready"
  /\ pc \in {"process", "drainProcess"} => state = "processing"
  /\ pc = "idle" => state = "idle"
  /\ pc = "returned" => state = "stopped"

LoopInv == StateAt /\ IdleTimerRuns

LEMMA LoopInit == Init => LoopInv
BY DEF Init, LoopInv, StateAt, IdleTimerRuns

LEMMA LoopStep == LoopInv /\ [Next]_vars => LoopInv'
<1> SUFFICES ASSUME LoopInv, [Next]_vars PROVE LoopInv'
  OBVIOUS
<1> USE DEF LoopInv, StateAt, IdleTimerRuns
<1>1. ASSUME UNCHANGED <<pc, state, timer>> PROVE LoopInv'
  BY <1>1
<1>2. CASE UNCHANGED vars
  BY <1>1, <1>2 DEF vars
<1>3. ASSUME NEW r \in Requests, Submit(r) PROVE LoopInv'
  BY <1>1, <1>3 DEF Submit
<1>4. CASE CancelCtx
  BY <1>1, <1>4 DEF CancelCtx
<1>5. CASE TimerExpires
  BY <1>5 DEF TimerExpires
<1>6. CASE TakeRequest \/ TakeIdle \/ TakeDone
  BY <1>6 DEF TakeRequest, TakeIdle, TakeDone
<1>7. CASE StartRun \/ FinishRequest \/ OnIdleReturns
  BY <1>7 DEF StartRun, FinishRequest, OnIdleReturns, Complete, ResetTimer
<1>8. CASE BeginProcessing
  BY <1>8 DEF BeginProcessing
<1>9. CASE CheckIdle
  BY <1>9 DEF CheckIdle, ResetTimer
<1>10. CASE EnterIdle
  BY <1>10 DEF EnterIdle
<1>11. CASE DrainTake \/ DrainFinish \/ DrainEnds \/ HookReturns
  BY <1>11 DEF DrainTake, DrainFinish, Complete, DrainEnds, HookReturns
<1> QED BY <1>2, <1>3, <1>4, <1>5, <1>6, <1>7, <1>8, <1>9, <1>10, <1>11
        DEF Next, Steps

(* Whenever the loop waits, its idle timer runs or has run out: no branch  *)
(* leads back to the select without a Reset.                               *)
THEOREM TimerRuns == Spec => []IdleTimerRuns
<1>1. LoopInv => IdleTimerRuns
  BY DEF LoopInv
<1> QED BY <1>1, LoopInit, LoopStep, PTL DEF Spec

(* State tells what the loop does, and the loop dreams with no request in  *)
(* hand only.                                                              *)
THEOREM StateTellsWork == Spec => []StateMatchesWork
<1>1. TypeOK /\ LoopInv => StateMatchesWork
  BY DEF TypeOK, PCs, LoopInv, StateAt, StateMatchesWork
<1> QED BY <1>1, LoopInit, LoopStep, TypeCorrect, PTL DEF Spec

-----------------------------------------------------------------------------
(* Agent implements RequestService: initial states and steps correspond.   *)
LEMMA ServiceInit == Init => Service!Init
BY DEF Init, Service!Init

LEMMA ServiceStep ==
  TypeOK /\ NothingLostOrReordered /\ [Next]_vars => [Service!Next]_Service!vars
<1> SUFFICES ASSUME TypeOK, NothingLostOrReordered, [Next]_vars
             PROVE  [Service!Next]_Service!vars
  OBVIOUS
<1> USE DEF Service!Next, Service!vars
<1>1. ASSUME NEW r \in Requests, Submit(r) PROVE [Service!Next]_Service!vars
  BY <1>1 DEF Submit, Service!Accept
<1>2. ASSUME Complete, inHand # <<>>, pc \notin {"hook", "returned"},
             pc' \notin {"hook", "returned"}
      PROVE  Service!Finish
  BY <1>2, CompleteKeeps DEF Service!Finish, Complete
<1>3. CASE FinishRequest
  <2>1. inHand # <<>>
    BY <1>3 DEF FinishRequest, TypeOK
  <2> QED BY <1>2, <1>3, <2>1 DEF FinishRequest
<1>4. CASE DrainFinish
  <2>1. inHand # <<>>
    BY <1>4 DEF DrainFinish, TypeOK
  <2> QED BY <1>2, <1>4, <2>1 DEF DrainFinish
<1>5. CASE DrainEnds
  <2>1. inHand = <<>> /\ queue = <<>> /\ completed \in Seq(Requests)
    BY <1>5 DEF DrainEnds, Drained, TypeOK
  <2>2. accepted = completed
    BY <2>1, ConcatEmptySeq DEF NothingLostOrReordered
  <2> QED BY <1>5, <2>2 DEF DrainEnds, histVars, Service!Stop
<1>6. ASSUME UNCHANGED <<accepted, completed>>,
             (pc' \in {"hook", "returned"}) = (pc \in {"hook", "returned"})
      PROVE  [Service!Next]_Service!vars
  BY <1>6
<1>7. CASE UNCHANGED vars
  BY <1>6, <1>7 DEF vars, histVars
<1>8. CASE CancelCtx \/ TimerExpires \/ TakeRequest \/ TakeIdle \/ TakeDone
  BY <1>6, <1>8 DEF CancelCtx, TimerExpires, TakeRequest, TakeIdle, TakeDone, histVars
<1>9. CASE \/ StartRun \/ BeginProcessing \/ CheckIdle \/ EnterIdle
           \/ OnIdleReturns \/ DrainTake \/ HookReturns
  BY <1>6, <1>9 DEF StartRun, BeginProcessing, CheckIdle, EnterIdle,
     OnIdleReturns, DrainTake, HookReturns, histVars
<1> QED BY <1>1, <1>3, <1>4, <1>5, <1>7, <1>8, <1>9 DEF Next, Steps

(* The agent with its queue, select and drain implements the abstract      *)
(* service that finishes requests in order and stops owing nothing.        *)
THEOREM ImplementsService == Spec => ServiceSpec
BY ServiceInit, ServiceStep, NothingLost, TypeCorrect, PTL
   DEF Spec, ServiceSpec, Service!Spec
=============================================================================

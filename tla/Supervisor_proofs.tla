-------------------------- MODULE Supervisor_proofs --------------------------
(***************************************************************************)
(* Proofs about Supervisor, for every MaxRestarts, Window and MaxTime:     *)
(* type correctness, the bound on the restart rate, and the watcher that   *)
(* every running child has.                                                *)
(***************************************************************************)
EXTENDS Supervisor, SequenceTheorems, TLAPS

(* The initial state is well typed.                                        *)
LEMMA InitTyped == Init => TypeOK
<1> SUFFICES ASSUME Init PROVE TypeOK
  OBVIOUS
<1>1. /\ late \in Nat /\ now \in Nat
      /\ timestamps \in Seq(Nat) /\ exits \in Seq(Nat)
  BY EmptySeq DEF Init
<1> QED BY <1>1, Zenon DEF Init, TypeOK, Final

(* Every variable has its type in every reachable state.                   *)
THEOREM TypeCorrect == Spec => []TypeOK
<1>1. Init => TypeOK
  BY InitTyped
<1>2. TypeOK /\ [Next]_vars => TypeOK'
  <2> SUFFICES ASSUME TypeOK, [Next]_vars PROVE TypeOK'
    OBVIOUS
  <2> USE SupervisorAssumption DEF TypeOK, Final, Exited, ChildCtxDone,
        loopVars, watchVars, sigVars, clockVars, debtVars
  <2>1. CASE UNCHANGED vars
    BY <2>1 DEF vars
  <2>2. CASE Loop
    <3>1. CASE CheckCtx BY <3>1 DEF CheckCtx
    <3>2. CASE CheckBreaker
      <4>1. timestamps' \in Seq(Nat)
        BY <3>2, SubSeqProperties, SMTT(60) DEF CheckBreaker, Prune
      <4> QED BY <3>2, <4>1 DEF CheckBreaker
    <3>3. CASE Launch
      <4>1. late' \in Nat
        BY <3>3 DEF Launch, NewWatcher
      <4> QED BY <3>3, <4>1 DEF Launch, NewWatcher
    <3>4. CASE StartChild BY <3>4 DEF StartChild
    <3>5. CASE StartFails BY <3>5 DEF StartFails
    <3>6. CASE StartReturns BY <3>6 DEF StartReturns, WakeWatcher
    <3>7. CASE RecordExit
      <4>1. Append(timestamps, now) \in Seq(Nat) /\ Append(exits, now) \in Seq(Nat)
        BY AppendProperties
      <4>2. timestamps' \in Seq(Nat)
        BY <3>7, <4>1, SubSeqProperties, SMTT(60) DEF RecordExit, Record, Prune
      <4> QED BY <3>7, <4>1, <4>2 DEF RecordExit
    <3>8. CASE BackoffElapses BY <3>8 DEF BackoffElapses
    <3>9. CASE BackoffCancelled BY <3>9 DEF BackoffCancelled
    <3> QED BY <2>2, <3>1, <3>2, <3>3, <3>4, <3>5, <3>6, <3>7, <3>8, <3>9 DEF Loop
  <2>3. CASE ChildExits
    BY <2>3 DEF ChildExits
  <2>4. CASE Goroutines
    <3>1. CASE WatcherRuns
      <4>1. watcher' \in {"won", "ended", "waiting"}
        BY <3>1 DEF WatcherRuns
      <4>2. restartCh' \in BOOLEAN
        BY <3>1, Zenon DEF WatcherRuns
      <4>3. UNCHANGED <<loopVars, late, sigVars, clockVars, debtVars>>
        BY <3>1 DEF WatcherRuns
      <4> QED BY <4>1, <4>2, <4>3
    <3>2. CASE WatcherCancels BY <3>2 DEF WatcherCancels
    <3>3. CASE LateWatcherRuns
      <4>1. late' \in Nat
        BY <3>3 DEF LateWatcherRuns
      <4>2. restartCh' \in BOOLEAN
        BY <3>3, Zenon DEF LateWatcherRuns
      <4>3. stolen' \in BOOLEAN
        BY <3>3, Zenon DEF LateWatcherRuns
      <4>4. UNCHANGED <<loopVars, watcher, sigVars, clockVars, owed>>
        BY <3>3 DEF LateWatcherRuns
      <4> QED BY <4>1, <4>2, <4>3, <4>4
    <3>4. CASE HandleUsr1 BY <3>4, ZenonT(60) DEF HandleUsr1, RestartChild
    <3>5. CASE HandleTerm BY <3>5 DEF HandleTerm, WakeWatcher
    <3> QED BY <2>4, <3>1, <3>2, <3>3, <3>4, <3>5 DEF Goroutines
  <2>5. ASSUME NEW s \in {"usr1", "term"}, Signal(s) PROVE TypeOK'
    BY <2>5 DEF Signal
  <2>6. CASE Tick
    BY <2>6 DEF Tick
  <2>7. CASE Terminated
    BY <2>7 DEF Terminated, vars
  <2> QED BY <2>1, <2>2, <2>3, <2>4, <2>5, <2>6, <2>7 DEF Next
<1> QED BY <1>1, <1>2, PTL DEF Spec

-----------------------------------------------------------------------------
(* IsSuffix(ts, log, c): ts is what is left of log after the loss of a     *)
(* prefix whose entries are all below c.                                   *)
IsSuffix(ts, log, c) ==
  /\ Len(ts) <= Len(log)
  /\ \A i \in 1..Len(ts) : ts[i] = log[Len(log) - Len(ts) + i]
  /\ \A i \in 1..(Len(log) - Len(ts)) : log[i] < c

(* Pruning n leading entries below c keeps a suffix a suffix.              *)
LEMMA PrunedSuffix ==
  ASSUME NEW ts \in Seq(Nat), NEW log \in Seq(Nat), NEW c \in Int,
         NEW n \in 0..Len(ts),
         IsSuffix(ts, log, c),
         \A i \in 1..n : ts[i] < c
  PROVE  /\ IsSuffix(SubSeq(ts, n + 1, Len(ts)), log, c)
         /\ Len(SubSeq(ts, n + 1, Len(ts))) = Len(ts) - n
<1> DEFINE new == SubSeq(ts, n + 1, Len(ts))
<1>1. /\ Len(new) = Len(ts) - n
      /\ \A i \in 1..Len(new) : new[i] = ts[n + i]
  <2>1. Len(ts) \in Nat /\ Len(log) \in Nat
    BY LenProperties
  <2> QED BY <2>1, SubSeqProperties
<1>2. /\ Len(ts) \in Nat /\ Len(log) \in Nat /\ Len(new) \in Nat
      /\ n \in Nat /\ n <= Len(ts)
  BY <1>1, LenProperties
<1> HIDE DEF new
<1>3. Len(new) <= Len(log)
  BY <1>1, <1>2 DEF IsSuffix
<1>4. \A i \in 1..Len(new) : new[i] = log[Len(log) - Len(new) + i]
  <2> SUFFICES ASSUME NEW i \in 1..Len(new)
               PROVE  new[i] = log[Len(log) - Len(new) + i]
    OBVIOUS
  <2>1. n + i \in 1..Len(ts) /\ new[i] = ts[n + i]
    BY <1>1, <1>2
  <2>2. ts[n + i] = log[Len(log) - Len(ts) + (n + i)]
    BY <2>1 DEF IsSuffix
  <2>3. Len(log) - Len(ts) + (n + i) = Len(log) - Len(new) + i
    BY <1>1, <1>2
  <2> QED BY <2>1, <2>2, <2>3
<1>5. \A i \in 1..(Len(log) - Len(new)) : log[i] < c
  <2> SUFFICES ASSUME NEW i \in 1..(Len(log) - Len(new))
               PROVE  log[i] < c
    OBVIOUS
  <2> DEFINE d == Len(log) - Len(ts)
  <2>1. CASE i <= d
    <3>1. i \in 1..d
      BY <2>1, <1>1, <1>2
    <3> QED BY <3>1 DEF IsSuffix
  <2>2. CASE i > d
    <3>1. i - d \in 1..n /\ i - d \in 1..Len(ts) /\ d + (i - d) = i
      <4>1. d \in Nat /\ Len(log) - Len(new) = d + n
        BY <1>1, <1>2 DEF IsSuffix
      <4>2. i \in Int /\ d < i /\ i <= d + n
        BY <2>2, <4>1
      <4> HIDE DEF d
      <4> QED BY <1>2, <4>1, <4>2
    <3>2. ts[i - d] = log[d + (i - d)]
      BY <3>1 DEF IsSuffix
    <3> QED BY <3>1, <3>2
  <2> QED BY <2>1, <2>2, <1>1, <1>2
<1>6. IsSuffix(new, log, c) /\ Len(new) = Len(ts) - n
  BY <1>1, <1>3, <1>4, <1>5 DEF IsSuffix
<1> QED BY <1>6 DEF new

(* A new entry at the end of both keeps a suffix a suffix.                 *)
LEMMA AppendedSuffix ==
  ASSUME NEW ts \in Seq(Nat), NEW log \in Seq(Nat), NEW c \in Int,
         NEW t \in Nat, IsSuffix(ts, log, c)
  PROVE  IsSuffix(Append(ts, t), Append(log, t), c)
<1> DEFINE a == Append(ts, t)
           b == Append(log, t)
<1>1. /\ Len(ts) \in Nat /\ Len(log) \in Nat
      /\ Len(a) = Len(ts) + 1
      /\ Len(b) = Len(log) + 1
      /\ \A i \in 1..Len(ts) : a[i] = ts[i]
      /\ \A i \in 1..Len(log) : b[i] = log[i]
      /\ a[Len(ts) + 1] = t
      /\ b[Len(log) + 1] = t
  BY LenProperties, AppendProperties
<1> HIDE DEF a, b
<1>2. \A i \in 1..Len(a) : a[i] = b[Len(b) - Len(a) + i]
  <2>0. Len(b) - Len(a) = Len(log) - Len(ts)
    BY <1>1
  <2> SUFFICES ASSUME NEW i \in 1..(Len(ts) + 1)
               PROVE  a[i] = b[Len(log) - Len(ts) + i]
    BY <1>1, <2>0
  <2>1. CASE i = Len(ts) + 1
    BY <2>1, <1>1
  <2>2. CASE i # Len(ts) + 1
    <3>1. i \in 1..Len(ts) /\ Len(log) - Len(ts) + i \in 1..Len(log)
      BY <2>2, <1>1, SMTT(60) DEF IsSuffix
    <3> QED BY <3>1, <1>1 DEF IsSuffix
  <2> QED BY <2>1, <2>2
<1>3. \A i \in 1..(Len(b) - Len(a)) : b[i] < c
  <2> SUFFICES ASSUME NEW i \in 1..(Len(log) - Len(ts))
               PROVE  b[i] < c
    BY <1>1
  <2>1. i \in 1..Len(log) /\ log[i] < c
    BY <1>1 DEF IsSuffix
  <2> QED BY <2>1, <1>1
<1>4. IsSuffix(a, b, c)
  BY <1>1, <1>2, <1>3 DEF IsSuffix
<1> QED BY <1>4 DEF a, b

-----------------------------------------------------------------------------
LaunchedPC == {"launch", "start", "running", "returned", "record"}

(* BreakerInv in terms of IsSuffix.                                        *)
LEMMA BreakerInvSuffix ==
  BreakerInv <=> /\ IsSuffix(timestamps, exits, now - Window)
                 /\ pc \in LaunchedPC => Len(timestamps) < MaxRestarts
BY DEF BreakerInv, IsSuffix, Dropped, Before, LaunchedPC

(* The type of what pruning leaves, and that it leaves a suffix.           *)
LEMMA PruneStep ==
  ASSUME TypeOK, NEW ts \in Seq(Nat), NEW log \in Seq(Nat),
         IsSuffix(ts, log, now - Window),
         \E n \in 0..Len(ts) :
           /\ \A i \in 1..n : ts[i] < now - Window
           /\ timestamps' = SubSeq(ts, n + 1, Len(ts))
  PROVE  IsSuffix(timestamps', log, now - Window) /\ Len(timestamps') <= Len(ts)
<1>1. now - Window \in Int
  BY SupervisorAssumption DEF TypeOK
<1>2. PICK n \in 0..Len(ts) :
           /\ \A i \in 1..n : ts[i] < now - Window
           /\ timestamps' = SubSeq(ts, n + 1, Len(ts))
  OBVIOUS
<1>3. /\ IsSuffix(timestamps', log, now - Window)
      /\ Len(timestamps') = Len(ts) - n
  BY <1>1, <1>2, PrunedSuffix, ZenonT(60)
<1> QED BY <1>2, <1>3, LenProperties

(* What the breaker remembers is inductive.                                *)
LEMMA BreakerInvStep == TypeOK /\ TypeOK' /\ BreakerInv /\ [Next]_vars => BreakerInv'
<1> SUFFICES ASSUME TypeOK, TypeOK', BreakerInv, [Next]_vars PROVE BreakerInv'
  OBVIOUS
<1> DEFINE Below == pc \in LaunchedPC => Len(timestamps) < MaxRestarts
<1>0. IsSuffix(timestamps, exits, now - Window) /\ Below
  BY BreakerInvSuffix
<1>a. SUFFICES IsSuffix(timestamps', exits', now' - Window) /\ Below'
  BY DEF BreakerInv, IsSuffix, Dropped, Before, LaunchedPC
<1>t. /\ timestamps \in Seq(Nat) /\ exits \in Seq(Nat)
      /\ Len(timestamps) \in Nat /\ Len(exits) \in Nat
      /\ now \in Nat /\ Window \in Nat /\ MaxRestarts \in Nat
  BY SupervisorAssumption, LenProperties DEF TypeOK
<1>1. CASE CheckBreaker
  <2>1. IsSuffix(timestamps', exits, now - Window)
    BY <1>1, <1>0, <1>t, PruneStep DEF CheckBreaker, Prune, Before
  <2>2. Len(timestamps') \in Nat
    BY LenProperties DEF TypeOK
  <2> QED BY <1>1, <2>1, <2>2, <1>t DEF CheckBreaker, IsOpen, LaunchedPC
<1>2. CASE RecordExit
  <2>1. IsSuffix(Append(timestamps, now), Append(exits, now), now - Window)
    BY <1>0, <1>t, AppendedSuffix
  <2>2. Append(timestamps, now) \in Seq(Nat) /\ Append(exits, now) \in Seq(Nat)
    BY <1>t, AppendProperties
  <2>3. IsSuffix(timestamps', Append(exits, now), now - Window)
    BY <1>2, <2>1, <2>2, PruneStep DEF RecordExit, Record, Prune, Before
  <2> QED BY <1>2, <2>3 DEF RecordExit, LaunchedPC
<1>3. CASE Tick
  <2>1. /\ timestamps' = timestamps /\ exits' = exits /\ pc' = pc
        /\ now' - Window = (now - Window) + 1
    BY <1>3, <1>t DEF Tick, loopVars
  <2>2. \A i \in 1..(Len(exits) - Len(timestamps)) : exits[i] \in Nat
    BY <1>t, ElementOfSeq DEF IsSuffix
  <2> QED BY <2>1, <2>2, <1>0, <1>t, SMTT(60) DEF IsSuffix
<1>4. ASSUME UNCHANGED clockVars,
             pc' \in LaunchedPC => pc \in LaunchedPC
      PROVE  IsSuffix(timestamps', exits', now' - Window) /\ Below'
  BY <1>4, <1>0 DEF clockVars
<1>5. CASE UNCHANGED vars
  BY <1>4, <1>5 DEF vars, loopVars
<1>6. CASE CheckCtx BY <1>4, <1>6 DEF CheckCtx, LaunchedPC
<1>7. CASE Launch BY <1>4, <1>7 DEF Launch, NewWatcher, LaunchedPC
<1>8. CASE StartChild BY <1>4, <1>8 DEF StartChild, LaunchedPC
<1>9. CASE StartFails BY <1>4, <1>9 DEF StartFails, LaunchedPC
<1>10. CASE StartReturns BY <1>4, <1>10 DEF StartReturns, LaunchedPC
<1>11. CASE BackoffElapses BY <1>4, <1>11 DEF BackoffElapses, LaunchedPC
<1>12. CASE BackoffCancelled BY <1>4, <1>12 DEF BackoffCancelled, LaunchedPC
<1>13. CASE ChildExits BY <1>4, <1>13 DEF ChildExits, LaunchedPC
<1>14. CASE Goroutines
  BY <1>4, <1>14 DEF Goroutines, WatcherRuns, WatcherCancels, LateWatcherRuns,
     HandleUsr1, HandleTerm, loopVars
<1>15. ASSUME NEW s \in {"usr1", "term"}, Signal(s)
       PROVE  IsSuffix(timestamps', exits', now' - Window) /\ Below'
  BY <1>4, <1>15 DEF Signal, loopVars
<1>16. CASE Terminated
  BY <1>5, <1>16 DEF Terminated
<1> QED
  BY <1>1, <1>2, <1>3, <1>5, <1>6, <1>7, <1>8, <1>9, <1>10, <1>11, <1>12,
     <1>13, <1>14, <1>15, <1>16 DEF Next, Loop

(* The new exit is more than a window later than the exit MaxRestarts      *)
(* before it, because that one has been dropped from timestamps.           *)
LEMMA RateStep ==
  TypeOK /\ BreakerInv /\ RestartRateBounded /\ [Next]_vars => RestartRateBounded'
<1> SUFFICES ASSUME TypeOK, BreakerInv, RestartRateBounded, [Next]_vars
             PROVE  RestartRateBounded'
  OBVIOUS
<1>1. CASE UNCHANGED exits
  BY <1>1 DEF RestartRateBounded
<1>2. CASE RecordExit
  <2> DEFINE n == Len(exits)
             e == Append(exits, now)
  <2>1. /\ n \in Nat /\ Len(timestamps) \in Nat
        /\ Len(e) = n + 1
        /\ \A i \in 1..n : e[i] = exits[i]
        /\ e[n + 1] = now
        /\ now \in Nat /\ Window \in Nat /\ MaxRestarts \in Nat
    BY SupervisorAssumption, LenProperties, AppendProperties DEF TypeOK
  <2>2. \A i \in 1..n : exits[i] \in Nat
    BY <2>1, ElementOfSeq DEF TypeOK
  <2>3. Len(timestamps) < MaxRestarts
    BY <1>2 DEF RecordExit, BreakerInv
  <2>4. exits' = e
    BY <1>2 DEF RecordExit
  <2> HIDE DEF e
  <2>5. SUFFICES ASSUME NEW i \in 1..(n + 1), i + MaxRestarts <= n + 1
                 PROVE  e[i + MaxRestarts] > e[i] + Window
    BY <2>1, <2>4 DEF RestartRateBounded
  <2>6. CASE i + MaxRestarts <= n
    <3>1. i \in 1..n /\ i + MaxRestarts \in 1..n
      BY <2>1, <2>6
    <3> QED BY <3>1, <2>1, <2>6 DEF RestartRateBounded
  <2>7. CASE i + MaxRestarts = n + 1
    <3>1. i \in 1..Dropped /\ i \in 1..n
      BY <2>1, <2>3, <2>7 DEF Dropped, BreakerInv
    <3>2. exits[i] < now - Window
      BY <3>1 DEF BreakerInv, Before
    <3>3. e[i] = exits[i] /\ e[i + MaxRestarts] = now
      BY <2>1, <2>7, <3>1
    <3> QED BY <2>1, <2>2, <3>1, <3>2, <3>3
  <2> QED BY <2>1, <2>5, <2>6, <2>7
<1>3. CASE ~RecordExit
  <2>1. UNCHANGED exits
    BY <1>3 DEF Next, vars, clockVars, Loop, Goroutines, CheckCtx, CheckBreaker,
       Launch, StartChild, StartFails, StartReturns, BackoffElapses,
       BackoffCancelled, ChildExits, WatcherRuns, WatcherCancels,
       LateWatcherRuns, HandleUsr1, HandleTerm, Signal, Tick, Terminated
  <2> QED BY <1>1, <2>1
<1> QED BY <1>2, <1>3

(* The circuit breaker bounds the restart rate: in no run of the program   *)
(* do MaxRestarts + 1 exits in a row fit in one window.                    *)
THEOREM RestartRate == Spec => []RestartRateBounded
<1>1. Init => TypeOK /\ BreakerInv /\ RestartRateBounded
  <2> SUFFICES ASSUME Init PROVE TypeOK /\ BreakerInv /\ RestartRateBounded
    OBVIOUS
  <2>1. Len(exits) = 0 /\ Len(timestamps) = 0 /\ pc = "top"
    BY EmptySeq DEF Init
  <2>2. BreakerInv /\ RestartRateBounded
    BY <2>1 DEF BreakerInv, RestartRateBounded, Dropped
  <2> QED BY <2>2, InitTyped
<1>2. TypeOK /\ TypeOK' /\ (BreakerInv /\ RestartRateBounded) /\ [Next]_vars
        => (BreakerInv /\ RestartRateBounded)'
  BY BreakerInvStep, RateStep
<1> QED BY <1>1, <1>2, TypeCorrect, PTL DEF Spec

-----------------------------------------------------------------------------
(* A running child that nobody has cancelled always has its watcher, and   *)
(* no request ever waits beside a watcher that sleeps: a restart request   *)
(* cannot be overlooked while a child runs, however the goroutines are     *)
(* scheduled.                                                              *)
THEOREM ChildIsWatched == Spec => []RunningChildIsWatched
<1> USE DEF RunningChildIsWatched, ChildCtxDone
<1>1. Init => RunningChildIsWatched
  BY DEF Init
<1>2. TypeOK /\ RunningChildIsWatched /\ [Next]_vars => RunningChildIsWatched'
  <2> SUFFICES ASSUME TypeOK, RunningChildIsWatched, [Next]_vars
               PROVE  RunningChildIsWatched'
    OBVIOUS
  <2>0. ctxDone \in BOOLEAN /\ childDone \in BOOLEAN /\ restartCh \in BOOLEAN
    BY DEF TypeOK
  <2> USE DEF loopVars, watchVars, sigVars, clockVars, debtVars
  <2>1. CASE UNCHANGED vars
    BY <2>1 DEF vars
  <2>2. CASE Loop
    <3>1. CASE CheckCtx BY <3>1 DEF CheckCtx
    <3>2. CASE CheckBreaker BY <3>2 DEF CheckBreaker
    <3>3. CASE Launch BY <3>3 DEF Launch, NewWatcher
    <3>4. CASE StartChild BY <3>4 DEF StartChild
    <3>5. CASE StartFails BY <3>5 DEF StartFails
    <3>6. CASE StartReturns BY <3>6 DEF StartReturns, WakeWatcher
    <3>7. CASE RecordExit BY <3>7 DEF RecordExit
    <3>8. CASE BackoffElapses BY <3>8 DEF BackoffElapses
    <3>9. CASE BackoffCancelled BY <3>9 DEF BackoffCancelled
    <3> QED BY <2>2, <3>1, <3>2, <3>3, <3>4, <3>5, <3>6, <3>7, <3>8, <3>9 DEF Loop
  <2>3. CASE ChildExits
    BY <2>3 DEF ChildExits
  <2>4. CASE Goroutines
    <3>1. CASE WatcherRuns BY <2>0, <3>1 DEF WatcherRuns
    <3>2. CASE WatcherCancels BY <3>2 DEF WatcherCancels
    <3>3. CASE LateWatcherRuns
      <4>1. UNCHANGED <<pc, ctxDone, childDone, watcher>>
        BY <3>3 DEF LateWatcherRuns
      <4>2. CASE restartCh' = restartCh
        BY <4>1, <4>2, Zenon
      <4>3. CASE restartCh' = FALSE
        BY <4>1, <4>3, Zenon
      <4> QED BY <3>3, <4>2, <4>3, Zenon DEF LateWatcherRuns
    <3>4. CASE HandleUsr1 BY <3>4 DEF HandleUsr1, RestartChild
    <3>5. CASE HandleTerm BY <3>5 DEF HandleTerm, WakeWatcher
    <3> QED BY <2>4, <3>1, <3>2, <3>3, <3>4, <3>5 DEF Goroutines
  <2>5. ASSUME NEW s \in {"usr1", "term"}, Signal(s) PROVE RunningChildIsWatched'
    BY <2>5 DEF Signal
  <2>6. CASE Tick
    BY <2>6 DEF Tick
  <2>7. CASE Terminated
    BY <2>7 DEF Terminated, vars
  <2> QED BY <2>1, <2>2, <2>3, <2>4, <2>5, <2>6, <2>7 DEF Next
<1> QED BY <1>1, <1>2, TypeCorrect, PTL DEF Spec
=============================================================================

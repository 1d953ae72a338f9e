----------------------------- MODULE Supervisor -----------------------------
(***************************************************************************)
(* The process supervisor: cmd/singugen's main and signal goroutine, the   *)
(* supervision loop of internal/supervisor, the watcher goroutine it       *)
(* spawns for every child, and the circuit breaker.                        *)
(*                                                                         *)
(* Goroutines that take steps of their own:                                *)
(*   - the supervision loop (pc);                                          *)
(*   - the watcher of the current child (watcher), and the watchers of     *)
(*     earlier children that the runtime has not scheduled yet (late);     *)
(*   - the signal goroutine of main (handler).                             *)
(* The operating system delivers signals and runs the child; time passes.  *)
(***************************************************************************)
EXTENDS Integers, Sequences

CONSTANTS
  MaxRestarts,  (* cfg.Supervisor.MaxRestarts                              *)
  Window,       (* cfg.Supervisor.RestartWindow, in clock ticks            *)
  MaxTime       (* bound of the model: the clock stops here                *)

ASSUME SupervisorAssumption ==
  /\ MaxRestarts \in Nat
  /\ Window \in Nat
  /\ MaxTime \in Nat

VARIABLES
  pc,          (* where the supervision loop is                            *)
  ctxDone,     (* main's ctx has been cancelled                            *)
  childDone,   (* childCancel of the current child has been called         *)
  restartCh,   (* the one slot of restartCh is full                        *)
  watcher,     (* the goroutine that watches the current child             *)
  late,        (* watchers of earlier children that have not run yet       *)
  sigCh,       (* the one slot of main's signal channel                    *)
  handler,     (* main's signal goroutine                                  *)
  now,         (* the clock                                                *)
  timestamps,  (* CircuitBreaker.timestamps                                *)
  exits,       (* history: the time of every exit the loop recorded        *)
  owed,        (* history: RestartChild was called and no child has been   *)
               (* launched since                                           *)
  stolen       (* history: since the last launch the watcher of an earlier *)
               (* child has taken a request                                *)

loopVars  == <<pc, ctxDone, childDone>>
watchVars == <<restartCh, watcher, late>>
sigVars   == <<sigCh, handler>>
clockVars == <<now, timestamps, exits>>
debtVars  == <<owed, stolen>>
vars == <<loopVars, watchVars, sigVars, clockVars, debtVars>>

Final == {"stopped", "tripped"}
Exited == pc \in Final          \* Run has returned, so main ends the process

(* Mutant: childCtx is derived from context.Background().                  *)
DetachedChildCtx == childDone

(* childCtx is derived from ctx: cancelling either one cancels it.         *)
ChildCtxDone == childDone \/ ctxDone

TypeOK ==
  /\ pc \in {"top", "breaker", "launch", "start", "running", "returned",
             "record", "backoff"} \cup Final
  /\ ctxDone \in BOOLEAN
  /\ childDone \in BOOLEAN
  /\ restartCh \in BOOLEAN
  /\ watcher \in {"none", "spawned", "waiting", "won", "ended"}
  /\ late \in Nat
  /\ sigCh \in {"empty", "usr1", "term"}
  /\ handler \in {"looping", "ended"}
  /\ now \in Nat
  /\ timestamps \in Seq(Nat)
  /\ exits \in Seq(Nat)
  /\ owed \in BOOLEAN
  /\ stolen \in BOOLEAN

Init ==
  /\ pc = "top"
  /\ ctxDone = FALSE
  /\ childDone = FALSE
  /\ restartCh = FALSE
  /\ watcher = "none"
  /\ late = 0
  /\ sigCh = "empty"
  /\ handler = "looping"
  /\ now = 0
  /\ timestamps = <<>>
  /\ exits = <<>>
  /\ owed = FALSE
  /\ stolen = FALSE

-----------------------------------------------------------------------------
(* The circuit breaker. Prune(ts) says that ts loses its leading entries   *)
(* older than the window: the loop stops at the first entry that is not    *)
(* Before(cutoff).                                                         *)

Before(t) == t < now - Window

Prune(ts) ==
  \E n \in 0..Len(ts) :
    /\ \A i \in 1..n : Before(ts[i])
    /\ n < Len(ts) => ~Before(ts[n + 1])
    /\ timestamps' = SubSeq(ts, n + 1, Len(ts))

Record == Prune(Append(timestamps, now))

(* Mutant: compares with > instead of >=.                                  *)
OverLimit(ts) == Len(ts) > MaxRestarts

IsOpen(ts) == Len(ts) >= MaxRestarts

-----------------------------------------------------------------------------
(* The supervision loop, Supervisor.Run.                                   *)

CheckCtx ==
  /\ pc = "top"
  /\ pc' = IF ctxDone THEN "stopped" ELSE "breaker"
  /\ UNCHANGED <<ctxDone, childDone, watchVars, sigVars, clockVars, debtVars>>

CheckBreaker ==
  /\ pc = "breaker"
  /\ Prune(timestamps)
  /\ pc' = IF IsOpen(timestamps') THEN "tripped" ELSE "launch"
  /\ UNCHANGED <<ctxDone, childDone, watchVars, sigVars, now, exits, debtVars>>

(* Mutant: one watcher for all children.                                   *)
OneWatcher == IF watcher = "none" THEN "spawned" ELSE watcher

NewWatcher == "spawned"

(* A new childCtx and its watcher. The previous watcher, when it has not   *)
(* run yet, stays behind; when it won a request it only has the cancelled  *)
(* context of a child that is gone left to cancel.                         *)
Launch ==
  /\ pc = "launch"
  /\ pc' = "start"
  /\ childDone' = FALSE
  /\ watcher' = NewWatcher
  /\ late' = IF watcher = "spawned" THEN late + 1 ELSE late
  /\ owed' = FALSE
  /\ stolen' = FALSE
  /\ UNCHANGED <<ctxDone, restartCh, sigVars, clockVars>>

(* ExecRunner.Start: os/exec refuses to start under a done context, and    *)
(* the start itself may fail.                                              *)
StartChild ==
  /\ pc = "start"
  /\ ~ChildCtxDone
  /\ pc' = "running"
  /\ UNCHANGED <<ctxDone, childDone, watchVars, sigVars, clockVars, debtVars>>

StartFails ==
  /\ pc = "start"
  /\ pc' = "returned"
  /\ UNCHANGED <<ctxDone, childDone, watchVars, sigVars, clockVars, debtVars>>

(* The child ends by itself, or because of the SIGTERM that follows the    *)
(* cancelled context, or of the SIGKILL five seconds after it.             *)
ChildExits ==
  /\ pc = "running"
  /\ pc' = "returned"
  /\ UNCHANGED <<ctxDone, childDone, watchVars, sigVars, clockVars, debtVars>>

(* A watcher blocked in its select takes the branch that becomes ready.    *)
WakeWatcher == watcher' = IF watcher = "waiting" THEN "ended" ELSE watcher

StartReturns ==
  /\ pc = "returned"
  /\ childDone' = TRUE
  /\ WakeWatcher
  /\ pc' = IF ctxDone THEN "stopped" ELSE "record"
  /\ UNCHANGED <<ctxDone, restartCh, late, sigVars, clockVars, debtVars>>

RecordExit ==
  /\ pc = "record"
  /\ Record
  /\ exits' = Append(exits, now)
  /\ pc' = "backoff"
  /\ UNCHANGED <<ctxDone, childDone, watchVars, sigVars, now, debtVars>>

(* Mutant: the backoff waits for a request, not for its timer.             *)
AwaitsRequest == restartCh

(* The backoff timer fires at some later time: no property depends on its  *)
(* length.                                                                 *)
TimerFires == TRUE

BackoffElapses ==
  /\ pc = "backoff"
  /\ TimerFires
  /\ pc' = "top"
  /\ UNCHANGED <<ctxDone, childDone, watchVars, sigVars, clockVars, debtVars>>

BackoffCancelled ==
  /\ pc = "backoff"
  /\ ctxDone
  /\ pc' = "stopped"
  /\ UNCHANGED <<ctxDone, childDone, watchVars, sigVars, clockVars, debtVars>>

-----------------------------------------------------------------------------
(* The watcher goroutines.                                                 *)

(* It reaches its select: a ready branch is taken, at random when both     *)
(* are, and it blocks when neither is.                                     *)
WatcherRuns ==
  /\ ~Exited
  /\ watcher = "spawned"
  /\ \/ /\ restartCh
        /\ restartCh' = FALSE
        /\ watcher' = "won"
     \/ /\ ChildCtxDone
        /\ watcher' = "ended"
        /\ UNCHANGED restartCh
     \/ /\ ~restartCh /\ ~ChildCtxDone
        /\ watcher' = "waiting"
        /\ UNCHANGED restartCh
  /\ UNCHANGED <<loopVars, late, sigVars, clockVars, debtVars>>

WatcherCancels ==
  /\ ~Exited
  /\ watcher = "won"
  /\ watcher' = "ended"
  /\ childDone' = TRUE
  /\ UNCHANGED <<pc, ctxDone, restartCh, late, sigVars, clockVars, debtVars>>

(* A watcher left behind: its own context is done, and a restart request   *)
(* that is waiting in the channel may go to it all the same.               *)
LateWatcherRuns ==
  /\ ~Exited
  /\ late > 0
  /\ late' = late - 1
  /\ \/ UNCHANGED <<restartCh, stolen>>
     \/ restartCh /\ restartCh' = FALSE /\ stolen' = TRUE
  /\ UNCHANGED <<loopVars, watcher, sigVars, clockVars, owed>>

-----------------------------------------------------------------------------
(* Signals. os/signal drops a signal when the channel has no room.         *)

Signal(s) ==
  /\ ~Exited
  /\ sigCh' = IF sigCh = "empty" THEN s ELSE sigCh
  /\ UNCHANGED <<loopVars, watchVars, handler, clockVars, debtVars>>

(* Mutant: restartCh has no buffer.                                        *)
UnbufferedRestart ==
  IF watcher = "waiting"
  THEN watcher' = "won" /\ UNCHANGED restartCh
  ELSE UNCHANGED <<restartCh, watcher>>

(* RestartChild: a send that never blocks. A watcher blocked in its select *)
(* receives the request at once, otherwise it waits in the channel unless  *)
(* one is there already.                                                   *)
RestartChild ==
  IF watcher = "waiting"
  THEN watcher' = "won" /\ UNCHANGED restartCh
  ELSE restartCh' = TRUE /\ UNCHANGED watcher

HandleUsr1 ==
  /\ ~Exited
  /\ handler = "looping"
  /\ sigCh = "usr1"
  /\ sigCh' = "empty"
  /\ RestartChild
  /\ owed' = TRUE
  /\ UNCHANGED <<loopVars, late, handler, clockVars, stolen>>

HandleTerm ==
  /\ ~Exited
  /\ handler = "looping"
  /\ sigCh = "term"
  /\ sigCh' = "empty"
  /\ handler' = "ended"
  /\ ctxDone' = TRUE
  /\ WakeWatcher
  /\ UNCHANGED <<pc, childDone, restartCh, late, clockVars, debtVars>>

-----------------------------------------------------------------------------
Tick ==
  /\ ~Exited
  /\ now < MaxTime
  /\ now' = now + 1
  /\ UNCHANGED <<loopVars, watchVars, sigVars, timestamps, exits, debtVars>>

Terminated == Exited /\ UNCHANGED vars

Loop ==
  \/ CheckCtx \/ CheckBreaker \/ Launch \/ StartChild \/ StartFails
  \/ StartReturns \/ RecordExit \/ BackoffElapses \/ BackoffCancelled

Goroutines ==
  \/ WatcherRuns \/ WatcherCancels \/ LateWatcherRuns
  \/ HandleUsr1 \/ HandleTerm

Next ==
  \/ Loop
  \/ ChildExits
  \/ Goroutines
  \/ \E s \in {"usr1", "term"} : Signal(s)
  \/ Tick
  \/ Terminated

Spec == Init /\ [][Next]_vars

(* The runtime schedules every goroutine, the timer fires, and a child     *)
(* whose context is done is killed within cmd.WaitDelay. A child that      *)
(* nobody cancels need never exit, and no signal need ever come.           *)
Fairness ==
  /\ WF_vars(Loop)
  /\ WF_vars(ChildExits /\ ChildCtxDone)
  /\ WF_vars(WatcherRuns)
  /\ WF_vars(WatcherCancels)
  /\ WF_vars(LateWatcherRuns)
  /\ WF_vars(HandleUsr1 \/ HandleTerm)

FairSpec == Spec /\ Fairness

-----------------------------------------------------------------------------
(* The circuit breaker stops crash loops (circuitbreaker.go:8): however    *)
(* exits, restart requests and pruning fall together, MaxRestarts + 1      *)
(* exits in a row never fit in one window.                                 *)
RestartRateBounded ==
  \A i \in 1..Len(exits) :
    i + MaxRestarts <= Len(exits) => exits[i + MaxRestarts] > exits[i] + Window

(* "RestartChild signals the supervision loop to kill and restart the      *)
(* child" (supervisor.go:40): as long as a child runs uncancelled, its own *)
(* watcher is there to take the next request, and a request never sits in  *)
(* the channel beside a watcher that sleeps.                               *)
RunningChildIsWatched ==
  /\ pc \in {"start", "running"} /\ ~ChildCtxDone =>
       watcher \in {"spawned", "waiting", "won"}
  /\ watcher = "waiting" => ~restartCh /\ ~ChildCtxDone

(* What the two invariants rest on: timestamps is what is left of exits    *)
(* after the loss of a prefix that is older than the window, and a child   *)
(* is launched only below the limit.                                       *)
Dropped == Len(exits) - Len(timestamps)

BreakerInv ==
  /\ Len(timestamps) <= Len(exits)
  /\ \A i \in 1..Len(timestamps) : timestamps[i] = exits[Dropped + i]
  /\ \A i \in 1..Dropped : Before(exits[i])
  /\ pc \in {"launch", "start", "running", "returned", "record"} =>
       Len(timestamps) < MaxRestarts

(* A shutdown signal that main received stops the supervisor, whatever the *)
(* loop is doing: between two children, in the backoff, or with a child    *)
(* still to be killed (supervisor.go:48).                                  *)
ShutdownCompletes == ctxDone ~> Exited

(* After an exit the child is launched again, unless the supervisor stops  *)
(* or trips (supervisor.go:20): the loop is never stuck between two        *)
(* children.                                                               *)
ChildComesBack == pc = "record" ~> pc = "start" \/ Exited

(* Every restart request is followed by a new child (ADR-0001: SIGUSR1     *)
(* restarts the child after a self-update), also one that arrives while    *)
(* the previous child is dying or during the backoff, unless a watcher     *)
(* that the runtime has not scheduled for the whole backoff takes it: that *)
(* is the one way in which a request is lost.                              *)
RestartRequestHonoured == owed ~> ~owed \/ stolen \/ Exited
=============================================================================

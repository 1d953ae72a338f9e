-------------------------------- MODULE Agent --------------------------------
(***************************************************************************)
(* internal/agent: the request queue, the processing loop with its idle    *)
(* timer, and the drain and the hook of a shutdown.                        *)
(*                                                                         *)
(* Submit runs in the caller's goroutine (the Telegram update loop), the   *)
(* loop in one that Pool.Spawn starts, and ctx is cancelled by Pool.Stop   *)
(* or by main. The session behind the agent is its Send alone: it may fail *)
(* at once, or its channel yields events and closes, with a result or      *)
(* without (see Session: every Send ends).                                 *)
(***************************************************************************)
EXTENDS Naturals, Sequences

CONSTANTS
  Requests,     (* the requests that callers may submit                    *)
  QueueSize,    (* cfg.QueueSize                                           *)
  IdleEnabled   (* IdleTimeout > 0 and OnIdle is set                       *)

ASSUME AgentAssumption ==
  /\ QueueSize \in Nat \ {0}
  /\ IdleEnabled \in BOOLEAN

VARIABLES
  pc,         (* where Run is                                              *)
  state,      (* Agent.state                                               *)
  queue,      (* Agent.queue                                               *)
  inHand,     (* the request in processRequest, in a sequence of one       *)
  timer,      (* the idle timer; "expired" when idleTimer.C is ready       *)
  ctxDone,    (* ctx has been cancelled                                    *)
  accepted,   (* history: the requests that Submit accepted, in order      *)
  completed,  (* history: the requests whose OnComplete was called         *)
  cut         (* history: Len(accepted) when ctx was cancelled             *)

workVars == <<queue, inHand>>
histVars == <<accepted, completed, cut>>
vars == <<pc, state, workVars, timer, ctxDone, histVars>>

PCs == {"new", "select", "take", "process", "expired", "checked", "idle",
        "drain", "drainTake", "drainProcess", "hook", "returned"}
States == {"starting", "ready", "processing", "idle", "stopped"}
Timers == {"off", "armed", "expired", "stopped"}

TypeOK ==
  /\ pc \in PCs
  /\ state \in States
  /\ queue \in Seq(Requests) /\ Len(queue) <= QueueSize
  /\ inHand \in Seq(Requests) /\ Len(inHand) <= 1
  /\ inHand = <<>> <=> pc \notin {"take", "process", "drainTake", "drainProcess"}
  /\ timer \in Timers
  /\ ctxDone \in BOOLEAN
  /\ accepted \in Seq(Requests)
  /\ completed \in Seq(Requests)
  /\ cut \in Nat

Init ==
  /\ pc = "new"
  /\ state = "starting"
  /\ queue = <<>>
  /\ inHand = <<>>
  /\ timer = "off"
  /\ ctxDone = FALSE
  /\ accepted = <<>>
  /\ completed = <<>>
  /\ cut = 0

-----------------------------------------------------------------------------
(* Submit: never blocks, and asks neither for the state nor for ctx. Every *)
(* caller submits a request of its own, once.                              *)

Submitted(r) == \E i \in 1..Len(accepted) : accepted[i] = r

Submit(r) ==
  /\ ~Submitted(r)
  /\ Len(queue) < QueueSize
  /\ queue' = Append(queue, r)
  /\ accepted' = Append(accepted, r)
  /\ UNCHANGED <<pc, state, inHand, timer, ctxDone, completed, cut>>

CancelCtx ==
  /\ ~ctxDone
  /\ ctxDone' = TRUE
  /\ cut' = Len(accepted)
  /\ UNCHANGED <<pc, state, workVars, timer, accepted, completed>>

-----------------------------------------------------------------------------
(* The idle timer. Timers have had no stale ticks since Go 1.23: Stop and  *)
(* Reset discard a tick that nobody received.                              *)

TimerExpires ==
  /\ timer = "armed"
  /\ timer' = "expired"
  /\ UNCHANGED <<pc, state, workVars, ctxDone, histVars>>

(* Mutant: the timer is left as it is.                                     *)
LeavesTimer == UNCHANGED timer

StopTimer == timer' = IF IdleEnabled THEN "stopped" ELSE timer
ResetTimer == timer' = IF IdleEnabled THEN "armed" ELSE timer

-----------------------------------------------------------------------------
(* Run: one action for each branch of the select, which chooses at random  *)
(* among those that are ready.                                             *)

StartRun ==
  /\ pc = "new"
  /\ pc' = "select"
  /\ state' = "ready"
  /\ ResetTimer
  /\ UNCHANGED <<workVars, ctxDone, histVars>>

(* Mutant: the newest request first.                                       *)
DequeueNewest ==
  /\ queue # <<>>
  /\ inHand' = << queue[Len(queue)] >>
  /\ queue' = SubSeq(queue, 1, Len(queue) - 1)

(* <-a.queue, in the loop and in drain                                     *)
Dequeue ==
  /\ queue # <<>>
  /\ inHand' = << Head(queue) >>
  /\ queue' = Tail(queue)

TakeRequest ==
  /\ pc = "select"
  /\ Dequeue
  /\ StopTimer
  /\ pc' = "take"
  /\ UNCHANGED <<state, ctxDone, histVars>>

TakeIdle ==
  /\ pc = "select"
  /\ timer = "expired"
  /\ timer' = "stopped"
  /\ pc' = "expired"
  /\ UNCHANGED <<state, workVars, ctxDone, histVars>>

TakeDone ==
  /\ pc = "select"
  /\ ctxDone
  /\ StopTimer
  /\ pc' = "drain"
  /\ UNCHANGED <<state, workVars, ctxDone, histVars>>

-----------------------------------------------------------------------------
(* processRequest, from the loop and from drain. What its Send yields (a   *)
(* result, an error, nothing) is for the handler alone.                    *)

BeginProcessing ==
  /\ pc \in {"take", "drainTake"}
  /\ pc' = IF pc = "take" THEN "process" ELSE "drainProcess"
  /\ state' = "processing"
  /\ UNCHANGED <<workVars, timer, ctxDone, histVars>>

Complete ==
  /\ completed' = Append(completed, inHand[1])
  /\ inHand' = <<>>
  /\ state' = "ready"
  /\ UNCHANGED <<queue, ctxDone, accepted, cut>>

FinishRequest ==
  /\ pc = "process"
  /\ Complete
  /\ ResetTimer
  /\ pc' = "select"

-----------------------------------------------------------------------------
(* The idle branch: the check, the state and the callback are separate     *)
(* steps, and a Submit may fall between them.                              *)

CheckIdle ==
  /\ pc = "expired"
  /\ IF state = "ready" /\ queue = <<>>
     THEN pc' = "checked" /\ UNCHANGED timer
     ELSE pc' = "select" /\ ResetTimer
  /\ UNCHANGED <<state, workVars, ctxDone, histVars>>

EnterIdle ==
  /\ pc = "checked"
  /\ pc' = "idle"
  /\ state' = "idle"
  /\ UNCHANGED <<workVars, timer, ctxDone, histVars>>

(* Mutant: the state stays idle.                                           *)
OnIdleKeepsState ==
  /\ pc = "idle"
  /\ pc' = "select"
  /\ ResetTimer
  /\ UNCHANGED <<state, workVars, ctxDone, histVars>>

OnIdleReturns ==
  /\ pc = "idle"
  /\ pc' = "select"
  /\ state' = "ready"
  /\ ResetTimer
  /\ UNCHANGED <<workVars, ctxDone, histVars>>

-----------------------------------------------------------------------------
(* The shutdown: drain until the queue is empty, then the hook.            *)

DrainTake ==
  /\ pc = "drain"
  /\ Dequeue
  /\ pc' = "drainTake"
  /\ UNCHANGED <<state, timer, ctxDone, histVars>>

DrainFinish ==
  /\ pc = "drainProcess"
  /\ Complete
  /\ pc' = "drain"
  /\ UNCHANGED timer

(* Mutant: whatever is queued.                                             *)
DrainedAtOnce == TRUE

Drained == queue = <<>>

DrainEnds ==
  /\ pc = "drain"
  /\ Drained
  /\ pc' = "hook"
  /\ UNCHANGED <<state, workVars, timer, ctxDone, histVars>>

(* OnShutdown, when there is one, has five minutes.                        *)
HookReturns ==
  /\ pc = "hook"
  /\ pc' = "returned"
  /\ state' = "stopped"
  /\ UNCHANGED <<workVars, timer, ctxDone, histVars>>

-----------------------------------------------------------------------------
Steps ==
  \/ StartRun \/ BeginProcessing \/ FinishRequest
  \/ CheckIdle \/ EnterIdle \/ OnIdleReturns
  \/ DrainTake \/ DrainFinish \/ DrainEnds \/ HookReturns

Next ==
  \/ \E r \in Requests : Submit(r)
  \/ CancelCtx
  \/ TimerExpires
  \/ TakeRequest \/ TakeIdle \/ TakeDone
  \/ Steps

Spec == Init /\ [][Next]_vars

(* The runtime schedules the loop, Send ends (its watchdog), the callbacks *)
(* return, and a select that meets a ready branch again and again takes it *)
(* at some time, because it chooses at random.                             *)
FairSpec ==
  /\ Spec
  /\ WF_vars(Steps)
  /\ SF_vars(TakeRequest)
  /\ SF_vars(TakeDone)

-----------------------------------------------------------------------------
(* Nothing that Submit accepted is lost, reordered or handled twice: what  *)
(* was completed, what is in processRequest and what is queued are, in     *)
(* this order, what was accepted (agent.go:82, 108, 189).                  *)
NothingLostOrReordered == accepted = completed \o inHand \o queue

(* "Drains remaining queue items before returning" (agent.go:92), for what *)
(* was accepted before ctx was cancelled: when the shutdown hook runs, and *)
(* when Run has returned, all of it has been completed.                    *)
DrainCoversAccepted == pc \in {"hook", "returned"} => Len(completed) >= cut

(* The loop never waits without a running idle timer (agent.go:118, 131):  *)
(* otherwise the agent would never dream again.                            *)
IdleTimerRuns == IdleEnabled /\ pc = "select" => timer \in {"armed", "expired"}

(* The agent never dreams while it works (ADR-0004), and never starts to   *)
(* with a request in hand: in the idle branch there is none, and State     *)
(* says Processing whenever Send is running.                               *)
StateMatchesWork ==
  /\ state = "idle" => inHand = <<>> /\ pc = "idle"
  /\ pc \in {"process", "drainProcess"} => state = "processing"
  /\ state = "stopped" <=> pc = "returned"

(* The agent implements the abstract service: requests finish once, in the *)
(* order of their acceptance, and the loop leaves the drain only when it   *)
(* owes nothing.                                                           *)
Service == INSTANCE RequestService WITH
  finished <- completed,
  stopped  <- pc \in {"hook", "returned"}

ServiceSpec == Service!Spec
ServiceFair == Service!FairSpec
=============================================================================

------------------------------- MODULE Session -------------------------------
(***************************************************************************)
(* One Claude session: internal/claude's Session and ReadEvents, the       *)
(* claude process behind them, and the agent that sends one request after  *)
(* the other (Agent.processRequest).                                       *)
(*                                                                         *)
(* Every Send starts two goroutines: a reader (ReadEvents), which scans    *)
(* the process's stdout, and a pump, which passes the reader's events to   *)
(* the agent until a result, the watchdog, the end of the stream or ctx    *)
(* ends it. A reader does not end with its pump: it goes on scanning the   *)
(* same stdout, and blocks for ever on the next event it has, because      *)
(* nobody receives from its channel any more.                              *)
(*                                                                         *)
(* An answer is an event "init", a stream of any length, of which every    *)
(* event is a "delta", and a "result".                                     *)
(***************************************************************************)
EXTENDS Integers, Sequences, FiniteSets

CONSTANTS
  Requests,   (* how many requests the agent sends                         *)
  MaxStarts,  (* how many times the process is launched                    *)
  MaxStream   (* bound of the model: lines in a pipe beside a stream       *)

ASSUME SessionAssumption ==
  /\ Requests \in Nat \ {0}
  /\ MaxStarts \in Nat \ {0}
  /\ MaxStream \in Nat

Reqs == 1..Requests
Gens == 1..MaxStarts
Event == [req : Reqs, kind : {"init", "delta", "result"}]

VARIABLES
  running,    (* Session.running                                           *)
  gen,        (* the launch that Session's stdin and stdout belong to      *)
  sessionID,  (* Session.sessionID: the launch that reported it, or 0      *)
  ctxDone,    (* the agent's ctx has been cancelled                        *)
  proc,       (* proc[g]: the process of launch g                          *)
  todo,       (* todo[g]: what it still has to answer, without the streams *)
  stdout,     (* stdout[g]: lines in the pipe                              *)
  agent,      (* where the agent is in processRequest                      *)
  cur,        (* the last request it sent                                  *)
  sendGen,    (* the launch whose stdin and stdout this Send uses          *)
  pump,       (* the goroutine of the current Send                         *)
  held,       (* the event it is passing on, in a sequence of at most one  *)
  reader,     (* reader[r]: the ReadEvents goroutine of request r          *)
  readerGen,  (* readerGen[r]: the launch whose stdout it scans            *)
  buf,        (* buf[r]: lines it has read and not passed on               *)
  delivered,  (* history: the events that request r yielded, but deltas    *)
  outcome     (* history: how request r ended                              *)

sessVars  == <<running, gen, sessionID>>
procVars  == <<proc, todo, stdout>>
agentVars == <<agent, cur, sendGen>>
readVars  == <<reader, readerGen, buf>>
histVars  == <<delivered, outcome>>
vars == <<sessVars, ctxDone, procVars, agentVars, pump, held, readVars, histVars>>

Outcome == {"none", "refused", "result", "watchdog", "nothing"}

TypeOK ==
  /\ running \in BOOLEAN
  /\ gen \in 0..MaxStarts
  /\ sessionID \in 0..MaxStarts
  /\ ctxDone \in BOOLEAN
  /\ proc \in [Gens -> {"none", "alive", "stopping", "dead"}]
  /\ todo \in [Gens -> Seq(Event)]
  /\ stdout \in [Gens -> Seq(Event)]
  /\ agent \in {"idle", "write", "receive"}
  /\ cur \in 0..Requests
  /\ sendGen \in 0..MaxStarts
  /\ pump \in {"receive", "deliver", "closed"}
  /\ held \in Seq(Event) /\ (pump = "deliver" <=> Len(held) = 1)
  /\ reader \in [Reqs -> {"none", "scanning", "offering", "ended"}]
  /\ readerGen \in [Reqs -> 0..MaxStarts]
  /\ buf \in [Reqs -> Seq(Event)]
  /\ delivered \in [Reqs -> Seq(Event)]
  /\ outcome \in [Reqs -> Outcome]

(* Spawn has started the session before the agent runs.                    *)
Init ==
  /\ running = TRUE
  /\ gen = 1
  /\ sessionID = 0
  /\ ctxDone = FALSE
  /\ proc = [g \in Gens |-> IF g = 1 THEN "alive" ELSE "none"]
  /\ todo = [g \in Gens |-> <<>>]
  /\ stdout = [g \in Gens |-> <<>>]
  /\ agent = "idle"
  /\ cur = 0
  /\ sendGen = 0
  /\ pump = "closed"
  /\ held = <<>>
  /\ reader = [r \in Reqs |-> "none"]
  /\ readerGen = [r \in Reqs |-> 0]
  /\ buf = [r \in Reqs |-> <<>>]
  /\ delivered = [r \in Reqs |-> <<>>]
  /\ outcome = [r \in Reqs |-> "none"]

-----------------------------------------------------------------------------
(* ExecLauncher.Launch: a process with pipes of its own.                   *)
Launch(g) == proc' = [proc EXCEPT ![g] = "alive"]

(* Mutant: does not look at running.                                       *)
AnyTime == TRUE
NotRunning == ~running

(* Session.Start and Session.Close, both under mu; Restart is a Close and  *)
(* then a Start, with anything in between. Start returns early when        *)
(* running, and leaves everything as it is when the launch fails.          *)
Start ==
  /\ NotRunning
  /\ gen < MaxStarts
  /\ running' = TRUE
  /\ gen' = gen + 1
  /\ Launch(gen')
  /\ UNCHANGED <<sessionID, ctxDone, todo, stdout, agentVars, pump, held,
                 readVars, histVars>>

(* cancel makes os/exec send SIGTERM; stdin is closed.                     *)
Close ==
  /\ running
  /\ running' = FALSE
  /\ proc' = [proc EXCEPT ![gen] = IF @ = "alive" THEN "stopping" ELSE @]
  /\ UNCHANGED <<gen, sessionID, ctxDone, todo, stdout, agentVars, pump, held,
                 readVars, histVars>>

CancelCtx ==
  /\ ~ctxDone
  /\ ctxDone' = TRUE
  /\ UNCHANGED <<sessVars, procVars, agentVars, pump, held, readVars, histVars>>

-----------------------------------------------------------------------------
(* The claude process: it answers the messages it reads in order.          *)

ProcEmit(g) ==
  /\ proc[g] \in {"alive", "stopping"}
  /\ todo[g] # <<>>
  /\ stdout' = [stdout EXCEPT ![g] = Append(@, Head(todo[g]))]
  /\ todo' = [todo EXCEPT ![g] = Tail(@)]
  /\ UNCHANGED <<sessVars, ctxDone, proc, agentVars, pump, held, readVars, histVars>>

(* Between "init" and "result" there may be any number of other events,    *)
(* also without an end.                                                    *)
Delta(r) == [req |-> r, kind |-> "delta"]

ProcStreams(g) ==
  /\ proc[g] \in {"alive", "stopping"}
  /\ todo[g] # <<>> /\ Head(todo[g]).kind = "result"
  /\ Len(stdout[g]) < MaxStream
  /\ stdout' = [stdout EXCEPT ![g] = Append(@, Delta(Head(todo[g]).req))]
  /\ UNCHANGED <<sessVars, ctxDone, proc, todo, agentVars, pump, held, readVars, histVars>>

ProcDies(g) ==
  /\ proc[g] \in {"alive", "stopping"}
  /\ proc' = [proc EXCEPT ![g] = "dead"]
  /\ todo' = [todo EXCEPT ![g] = <<>>]
  /\ UNCHANGED <<sessVars, ctxDone, stdout, agentVars, pump, held, readVars, histVars>>

-----------------------------------------------------------------------------
(* Session.Send.                                                           *)

(* The part under mu: refuse, or take the writer and stdout of the moment. *)
SendBegin ==
  /\ agent = "idle"
  /\ cur < Requests
  /\ cur' = cur + 1
  /\ IF running
     THEN /\ agent' = "write"
          /\ sendGen' = gen
          /\ UNCHANGED outcome
     ELSE /\ outcome' = [outcome EXCEPT ![cur + 1] = "refused"]
          /\ UNCHANGED <<agent, sendGen>>
  /\ UNCHANGED <<sessVars, ctxDone, procVars, pump, held, readVars, delivered>>

(* Writer.WriteMessage: one line on stdin, that the process will answer,   *)
(* with a stream between the two events (ProcStreams).                     *)
WriteMessage(g, r) ==
  todo' = [todo EXCEPT ![g] =
             @ \o << [req |-> r, kind |-> "init"], [req |-> r, kind |-> "result"] >>]

(* The part after mu: the write fails when the process or its stdin is     *)
(* gone, and otherwise a reader and a pump start.                          *)
SendWrite ==
  /\ agent = "write"
  /\ IF proc[sendGen] = "alive"
     THEN /\ WriteMessage(sendGen, cur)
          /\ agent' = "receive"
          /\ pump' = "receive"
          /\ reader' = [reader EXCEPT ![cur] = "scanning"]
          /\ readerGen' = [readerGen EXCEPT ![cur] = sendGen]
          /\ UNCHANGED outcome
     ELSE /\ agent' = "idle"
          /\ outcome' = [outcome EXCEPT ![cur] = "refused"]
          /\ UNCHANGED <<todo, pump, reader, readerGen>>
  /\ UNCHANGED <<sessVars, ctxDone, proc, stdout, cur, sendGen, held, buf, delivered>>

-----------------------------------------------------------------------------
(* What is left when n lines have been read; Mutant: all of it.            *)
Unconsumed(g, n) == stdout[g]
Remaining(g, n) == SubSeq(stdout[g], n + 1, Len(stdout[g]))

(* ReadEvents: a scan takes what the pipe holds, or part of it, and the    *)
(* lines are offered one by one.                                           *)
ReadChunk(r) ==
  LET g == readerGen[r] IN
  /\ reader[r] = "scanning"
  /\ buf[r] = <<>>
  /\ \E n \in 1..Len(stdout[g]) :
       /\ buf' = [buf EXCEPT ![r] = SubSeq(stdout[g], 1, n)]
       /\ stdout' = [stdout EXCEPT ![g] = Remaining(g, n)]
  /\ UNCHANGED <<sessVars, ctxDone, proc, todo, agentVars, pump, held, reader,
                 readerGen, histVars>>

(* The next line is offered on the reader's channel, unless ctx is done.   *)
OfferLine(r) ==
  /\ reader[r] = "scanning"
  /\ buf[r] # <<>>
  /\ ~ctxDone
  /\ reader' = [reader EXCEPT ![r] = "offering"]
  /\ UNCHANGED <<sessVars, ctxDone, procVars, agentVars, pump, held, readerGen,
                 buf, histVars>>

(* EOF, or ctx, which also closes stdout under the scanner.                *)
ReaderEnds(r) ==
  /\ \/ reader[r] \in {"scanning", "offering"} /\ ctxDone
     \/ /\ reader[r] = "scanning" /\ buf[r] = <<>>
        /\ stdout[readerGen[r]] = <<>> /\ proc[readerGen[r]] = "dead"
  /\ reader' = [reader EXCEPT ![r] = "ended"]
  /\ buf' = [buf EXCEPT ![r] = <<>>]
  /\ UNCHANGED <<sessVars, ctxDone, procVars, agentVars, pump, held, readerGen, histVars>>

-----------------------------------------------------------------------------
(* Mutant: an event without an id resets it.                               *)
TracksEmptyID == sessionID' \in {0, readerGen[cur]}

(* The pump of the current Send.                                           *)
TrackID == sessionID' = readerGen[cur]

(* The event that is on offer; Mutant: everything that was read.           *)
AllLines == buf[cur]
NextLine == << Head(buf[cur]) >>

(* An event from this Send's reader; an init event carries the session id. *)
PumpReceive ==
  /\ pump = "receive"
  /\ reader[cur] = "offering"
  /\ reader' = [reader EXCEPT ![cur] = "scanning"]
  /\ held' = NextLine
  /\ buf' = [buf EXCEPT ![cur] = Tail(@)]
  /\ pump' = "deliver"
  /\ IF Head(buf[cur]).kind = "init" THEN TrackID ELSE UNCHANGED sessionID
  /\ UNCHANGED <<running, gen, ctxDone, procVars, agentVars, readerGen, histVars>>

(* Mutant: the init event ends the interaction, too.                       *)
InitToo(event) == event.kind \in {"init", "result"}
IsResult(event) == event.kind = "result"

(* Deltas are shown, and not recorded.                                     *)
IsDelta(event) == event.kind = "delta"

(* The agent takes it (OnEvent); a result ends the interaction.            *)
PumpDeliver ==
  /\ pump = "deliver"
  /\ delivered' = [delivered EXCEPT ![cur] =
                      IF IsDelta(held[1]) THEN @ ELSE Append(@, held[1])]
  /\ held' = <<>>
  /\ IF IsResult(held[1])
     THEN /\ outcome' = [outcome EXCEPT ![cur] = "result"]
          /\ pump' = "closed"
          /\ TrackID
     ELSE /\ pump' = "receive"
          /\ UNCHANGED <<outcome, sessionID>>
  /\ UNCHANGED <<running, gen, ctxDone, procVars, agentVars, readVars>>

(* Without a result: the end of the stream, or ctx.                        *)
PumpEnds ==
  /\ \/ pump = "receive" /\ reader[cur] = "ended"
     \/ pump \in {"receive", "deliver"} /\ ctxDone
  /\ pump' = "closed"
  /\ held' = <<>>
  /\ outcome' = [outcome EXCEPT ![cur] = "nothing"]
  /\ UNCHANGED <<sessVars, ctxDone, procVars, agentVars, readVars, delivered>>

(* Mutant: the timer is never looked at.                                   *)
NeverFires == FALSE
MayFire == pump = "receive"

(* The watchdog may fire whenever the pump waits: how long claude takes is *)
(* not bounded. Every event resets it: a pump that receives one after the  *)
(* other is never seen waiting for ever. Its error result is made up here, *)
(* not read.                                                               *)
Watchdog ==
  /\ MayFire
  /\ pump' = "closed"
  /\ outcome' = [outcome EXCEPT ![cur] = "watchdog"]
  /\ UNCHANGED <<sessVars, ctxDone, procVars, agentVars, held, readVars, delivered>>

(* The channel is closed: processRequest calls OnComplete and returns.     *)
Complete ==
  /\ agent = "receive"
  /\ pump = "closed"
  /\ agent' = "idle"
  /\ UNCHANGED <<sessVars, ctxDone, procVars, cur, sendGen, pump, held, readVars, histVars>>

-----------------------------------------------------------------------------
Pump == PumpReceive \/ PumpDeliver \/ PumpEnds

Next ==
  \/ Start \/ Close \/ CancelCtx
  \/ \E g \in Gens : ProcEmit(g) \/ ProcStreams(g) \/ ProcDies(g)
  \/ SendBegin \/ SendWrite
  \/ \E r \in Reqs : ReadChunk(r) \/ OfferLine(r) \/ ReaderEnds(r)
  \/ Pump
  \/ Watchdog
  \/ Complete

Spec == Init /\ [][Next]_vars

(* Goroutines that can take a step take it, and the watchdog of a pump     *)
(* that waits for ever fires. Nothing is assumed of the process.           *)
Fairness ==
  /\ WF_vars(SendWrite)
  /\ WF_vars(Pump)
  /\ WF_vars(Watchdog)
  /\ WF_vars(Complete)
  /\ \A r \in Reqs : /\ WF_vars(ReadChunk(r))
                     /\ WF_vars(OfferLine(r))
                     /\ WF_vars(ReaderEnds(r))

FairSpec == Spec /\ Fairness

-----------------------------------------------------------------------------
(* The order of an answer: "init", the stream, "result".                   *)
Before(e, f) ==
  \/ e.req < f.req
  \/ e.req = f.req /\ e.kind # "result" /\ f.kind # "init"

(* However many readers race for one stdout, what a request yields is in   *)
(* the order in which claude wrote it, nothing of it belongs to a request  *)
(* that was sent after it, and no event is yielded to two requests         *)
(* (session.go:84, one channel per Send). Deltas are not told from each    *)
(* other, and left out.                                                    *)
EventsOnceInOrder ==
  /\ \A r \in Reqs : \A i, j \in 1..Len(delivered[r]) :
       /\ delivered[r][i].req <= r
       /\ i < j => Before(delivered[r][i], delivered[r][j])
  /\ \A r, s \in Reqs : \A i \in 1..Len(delivered[r]), j \in 1..Len(delivered[s]) :
       delivered[r][i] = delivered[s][j] => r = s

(* The request whose result ended r.                                       *)
AnswerOf(r) == delivered[r][Len(delivered[r])].req

(* A request is answered with another request's result only when the       *)
(* watchdog gave up on some request before (session.go:144): until then no *)
(* result goes to the wrong message. From then on every later answer may   *)
(* be that of the message before.                                          *)
AnswerIsOwn ==
  \A r \in Reqs :
    outcome[r] = "result" =>
      \/ AnswerOf(r) = r
      \/ \E q \in 1..(r - 1) : outcome[q] = "watchdog"

(* A process that Session no longer uses has been told to stop, whatever   *)
(* Start, Close and Restart calls overlap (session.go:61, 187): no claude  *)
(* process keeps running unowned.                                          *)
NoOrphanProcess == \A g \in Gens : proc[g] = "alive" => running /\ g = gen

(* The session id that the next launch resumes never goes back to that of  *)
(* an earlier launch (session.go:123, 138, 217).                           *)
ResumesLatest == [][sessionID' >= sessionID]_vars

(* Every Send ends, and the agent gets to its next request: the watchdog   *)
(* ends what neither a result nor the end of the stream nor ctx ended      *)
(* (session.go:144), unless the claude that it was written to goes on      *)
(* writing for ever: the watchdog counts from the last event, not from the *)
(* request (session.go:118).                                               *)
EverySendEnds ==
  \/ agent # "idle" ~> agent = "idle"
  \/ []<><<\E g \in Gens : g = sendGen /\ ProcStreams(g)>>_vars

(* "Send ... returns a channel that yields all output events until a       *)
(* result event is received" (session.go:84-85): a request that ended with *)
(* its own result has yielded what claude wrote first, the init event.     *)
(* Stated here only for runs in which no watchdog has fired.               *)
YieldsAllEvents ==
  (\A q \in Reqs : outcome[q] # "watchdog") =>
    \A r \in Reqs : outcome[r] = "result" /\ AnswerOf(r) = r =>
      delivered[r][1] = [req |-> r, kind |-> "init"]
=============================================================================

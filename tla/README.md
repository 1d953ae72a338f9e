# Singugen in TLA+

Singugen keeps Claude Code sessions alive as agents that a Telegram user talks
to, hires and fires, and that may rewrite the program they run in. This
directory holds TLA+ models of that program, the TLC configurations that check
them on small instances, and proofs, checked by TLAPS, of the properties that
matter most for every value of the constants.

    tlc -config MCAgent.cfg MCAgent.tla        # model-check one run
    tlapm Agent_proofs.tla                     # check one proof module

`PROJECT.json` lists the runs with the properties they check, for every
definition the source lines it stands for, the hazards the properties are for,
and the disagreements between code and documents that the models show.

## 1. The system

Two programs. `cmd/singugen` is the supervisor: it starts `cmd/agent` again
and again. `cmd/agent` is one process with several goroutines: `main`, the
Telegram update loop, one processing loop per agent, two more goroutines per
`Send` to a claude process, and the web server.

    signals --> cmd/singugen (Supervisor) --starts, SIGTERM--> cmd/agent
                      ^ SIGUSR1                                   |
                      |                                           |
     /update --> selfupdate: git, go build/vet/test, git commit --+
                                                                  |
     Telegram --> bot, commands --> Pool --> Agent (queue, loop) --> Session --> claude
                        |             |                                stdin/stdout
                        |             +--> Bus (inboxes)
                        +--> approval queue, router, chunker
     web server --> Board (kanban files), Store (memory files), Pool

| Component | State | Operations | What is hard | What makes it correct | Module |
|---|---|---|---|---|---|
| supervisor (`cmd/singugen`, `internal/supervisor`) | the loop's place, `restartCh`, the child's context, one watcher goroutine per child, the signal channel | `Run`, `RestartChild`, signals | a watcher per child, scheduled whenever; a request between two children; shutdown at any point | shutdown always ends; the child comes back; requests are not lost; crash loops stop | `Supervisor` |
| circuit breaker | `timestamps` | `Record`, `IsOpen`, `Reset` | the boundary of window and limit | never `MaxRestarts + 1` exits in one window | `Supervisor` |
| Claude session (`internal/claude`) | `running`, `sessionID`, stdin, stdout, process | `Start`, `Send`, `Close`, `Restart` | readers of earlier `Send`s on the same pipe; late answers; a stream without an end; death of claude; `Close` beside `Send` | answers are whole, in order and for the right request; one process; every `Send` ends, unless claude streams for ever | `Session` |
| agent (`internal/agent`) | `state`, `queue`, idle timer | `Submit`, `Run`, `State` | the random `select`, idle beside `Submit`, drain beside `Submit` | accepted requests finish once, in order; the loop stops; the timer runs | `Agent`, `RequestService` |
| agent pool (`internal/spawner/pool.go`, `cmd/agent`) | the map of agents | `Spawn`, `Stop`, `Get`, `SubmitTo`, `List`, `ShutdownAll` | each map operation has its own lock, each call takes several | no agent without an owner, inboxes match agents, shutdown is complete | `Pool` |
| message bus (`internal/comms`) | the map of inboxes | `Subscribe`, `Unsubscribe`, `Send`, `Broadcast` | a channel closed between the lookup and the send | no send on a closed inbox | `Pool` |
| self-update (`internal/selfupdate`) | the repository, the binary | `Apply`, `Validate`, `Commit`, `Push`, `SignalParentRestart` | agents edit meanwhile; the process dies between two commands; a commit fails | only validated, unprotected changes are committed; a failed commit leaves nothing hidden | `SelfUpdate` |
| Telegram bot (`internal/telegram`) | per request: the status message; pending approvals | messages, commands, handler callbacks, chunked answers | the update loop beside the agents' callbacks; API calls that fail; the end of ctx | every message gets its answer, whole, and no status message stays | `Telegram`; commands also in `Pool`, `SelfUpdate`, `Board` |
| approval queue (`internal/telegram/approval.go`) | the pending actions | `Request`, `Approve`, `Reject`, `HandleCallback` | a tap before the action is registered; a second tap; a restart that forgets what is pending | an action is decided once, and message and answer say what became of it | `Approval` |
| message router (`internal/spawner/router.go`) | none | `ParseAgentPrefix` | prefix and default | each message goes to one agent, or is refused | `Telegram` |
| kanban board (`internal/kanban`) | one directory of files per column | `Add`, `Move`, `Get`, `List`, `Delete`, `NextID` | ids given again; unreadable columns; half-written files; the front matter round trip | no task is lost, doubled or overwritten | `Board` |
| memory store and dreamer (`internal/memory`, `internal/dreaming`) | memory files, one lock per store | `Init`, `LoadAll`, `Save`, `Dream` | a write between `LoadAll` and `Save`; a second store on one directory; answers that break off, come late or quote the protocol | nothing newer is lost, only what claude meant is saved | `Dreaming` |
| extensions (`internal/extensions`) | an MCP file per agent, one skills directory for all | `Apply`, `Disable`, `Enable`, `Archive` | agents that install one skill; a process that dies half-way | what was applied is there, no skill is lost | `Extensions` |
| web application (`internal/webapp`) | none of its own | HTTP handlers, auth, tunnel | concurrent requests on Board, Store and Pool | that of Board and Store | `Board`, `Dreaming` (partly) |
| agent prompt, configuration, user API, Telegram library adapter, test fakes | none, or read once | | | | not modelled |

### What the program does not use

Some code is complete but has no caller in the two programs: `OnIdle` and
`OnShutdown` of the agent (so that the dreamer never runs),
`ApprovalQueue.Request`, `Bus.Send` and `Bus.Broadcast`, the extension manager,
the user API, `CircuitBreaker.Reset`, `Store.Delete` and `RevertLast`. The
dreamer, the approval queue, `Bus.Send` and the extensions are modelled with the
callers their documents intend (ADR-0004, 0006, 0009, 0010): their hazards begin
on the day that they are wired in. The rest is named in section 6.

## 2. Modules

Each `X.tla` models a component, `MCX.tla` and its `.cfg` files give it a small
instance, `X_proofs.tla` holds its theorems. Two modules of proofs extend two
components each: `Unwired_proofs.tla` has the theorems about `Approval` and
`Dreaming`, which neither program calls yet, and `Frontend_proofs.tla` those
about `Board` and `Telegram`, which the user looks at. So that their names can
stand side by side, `Init`, `Next`, `Spec` and `TypeOK` are `MemoryInit` and so
on in `Dreaming` and `BotInit` and so on in `Telegram`. Operators under a
comment that begins with "Mutant:" are not part of any specification: each is a definition with a
plausible bug in it, kept to show that a property of a run notices that bug;
`PROJECT.json` says which definition it stands in for.

### Supervisor

`pc` is the place of `Supervisor.Run`: `top` (the check of ctx), `breaker`
(`IsOpen`), `launch` (a new child context and its watcher), `start` and
`running` (`ExecRunner.Start`), `returned`, `record`, `backoff`. The goroutines
are variables of their own: `watcher` is the current child's, `late` counts the
watchers of earlier children that have not been scheduled yet, `handler` is the
signal goroutine of `main`. `restartCh` and `sigCh` are channels with one slot,
each with the rule of its sender: `RestartChild` gives up when the slot is full,
`os/signal` drops. The circuit breaker's `timestamps` is a sequence; `Prune`
drops the leading entries older than the window. `exits`, `owed` and `stolen`
are history.

Observed while modelling: `circuitbreaker.go:8` says "more than maxRestarts",
and `:42` compares with `>=`: the breaker opens at `MaxRestarts`. The property
is stated for what the code does.

### Session

One agent sends `Requests` requests one after the other, as
`Agent.processRequest` does. A launch of claude has a number: `proc`, `todo` and
`stdout` are functions of it. `SendBegin` is the part of `Send` under the mutex,
`SendWrite` the part after it, so `Close` and `Start` may fall between. Each
`Send` has its reader (`ReadEvents`, with the lines it has buffered: `ReadChunk`
takes any part of what the pipe holds, as a read does) and its pump, which
delivers, and ends at a result, the watchdog, the end of the stream or ctx.
The reader does not end with its pump. That is the centre of the model: readers
of earlier requests race with the current one for the same pipe.

An answer is an event `init`, with the session id, a stream of `delta`s
(`ProcStreams`: of any length, also without an end) and a `result`. Deltas are not
told from each other, and not recorded in `delivered`. Every event resets the
watchdog (`session.go:118`), so a `Send` to a claude that writes for ever never
ends: `EverySendEnds` names this as its exception, and without the exception
TLC finds it violated. `session.go:17` calls the timeout "watchdog
per-interaction"; it is one between two events.

Lines that do not parse are skipped by the code and have no effect; a line above 1 MB
ends the scanner, and its outcome (`nothing`) is that of the end of the stream.

Observed while modelling: when claude dies, `running` stays true (`session.go:61`),
so nothing starts it again and every later `Send` fails, until a `Close` or
`Restart`; `MaxRetries` ("auto-restart attempts", `session.go:18`) is read by
nothing.

### RequestService and Agent

`RequestService` is what an agent promises: accepted requests are finished in
order, once each, and the service stops at a moment when it owes nothing.
`Agent` is `Run` with one action for each branch of its `select`, `Submit` from
the callers' goroutines, the idle timer with its check, state and callback as
separate steps, and the drain and the hook of the shutdown. The session behind
it is reduced to what `Session` establishes: every `Send` ends, with a result or
without. `Agent` implements `RequestService` with `finished <- completed` and
`stopped <- pc \in {"hook", "returned"}`: the service stops when the drain has
found the queue empty, not when `Run` returns, because `Submit` accepts between
the two.

### Pool

`Pool.agents` and `Bus.subs` as functions of names, and every call as the steps
between its locks: `Spawn` is `SpawnCheck` (lock), `SpawnStart` (memory and
session, which may fail), `Subscribe` (the bus's lock), `SpawnInsert` (lock);
`Stop` is `StopDelete` (lock), `Unsubscribe` (the bus's lock), `StopCancel`;
`SubmitTo` is `SubmitGet` (lock) and `SubmitPut`. `ShutdownAll` takes the names
of the moment and stops one after the other. Today one goroutine, the Telegram
update loop, hires and fires, beside `main`'s shutdown. `Callers` is a constant:
with two, the model says which guarantees Pool's locks give by themselves and
which rest on the single loop; the properties name the overlaps (`twice`,
`mixed`, `inFlight`) that cost something. `Bus.Send` is `BusLookup` (lock) and
`BusSend`, after the lock: a send on a channel that was closed in between panics
and ends the process (`panicked`). How full an inbox is makes no difference to
any property, and nothing reads the inboxes, so their contents are left out.

### SelfUpdate

The repository is four trees: HEAD, index, working tree and what was pushed. A
tree gives each path its contents or `Absent`. Each git or go command of `Apply`
is one step, reads one view of the tree, and may fail. Agents edit at any time
(`Edit`), the process may die between any two steps (`ProcessDies`), and
`Relaunch` runs `child_binary`. `DiffFiles` is `git diff --name-only`: tracked
files that differ from the index, and neither untracked nor staged ones; that is
what makes the protected check weaker than the commit.

Observed while modelling: an `/update` without changes is reported as "Validation
failed", and "No changes to commit." (`commands.go:257-259`) cannot be reached.
`restart.go:9-10` sends SIGUSR1 "to trigger a child restart with updated code"
(so does `docs/ROADMAP.md:99`), but no step of the program puts updated code where the
supervisor looks for it: `go build ./cmd/agent/` (`validate.go:37`) leaves its
binary in the project directory, and `child_binary` is another file by default
(`config.go:126`), in `configs/singugen.example.yaml:19` and in the image
(`Dockerfile:38`). The restarted child is the old build. The model leaves the
binaries out, and claims nothing about the code that runs after a restart.

### Board

A task is a file: its directory, its id (a number and a slug), its title,
whether its contents were written to the end, and, as history, the call of `Add`
it came from. Every operation of the code holds the board's lock throughout, so
each is one action; the callers (`/task`, `/move`, `/done`, and the web
handlers) take turns. What can happen in between is the file system: `NextID`
may be unable to read some columns and skips them without an error, and a
process may die inside `os.WriteFile` (`AddTorn`). `Move` asks only that the
target directory exists: `""` and `"."` are the board's own directory, where
`NextID` and `findTask` do not look (`Outside`). A title is a model value with a
slug; `ParseTask` takes the text between the first two `---` for the header,
wherever they are.

Observed while modelling: the number of a deleted task, or of one that was moved
off the board, is given again when it was the highest; a half-written file, or
one whose title begins with `---` (`Unreadable`, from `task.go:27`), keeps its
number and can be neither read, moved nor deleted through the board.

### Telegram

`HandleText` routes a message (`AgentOf` is `ParseAgentPrefix` with the default
agent) and hands it to the agent's queue or answers with a refusal. Each agent
takes one request after the other (the detail is `Agent`'s), and the request's
`Handler` answers in the chat: `OnEvent` tries the status message once,
`OnComplete` deletes it from its place in the chat (`DeleteStatus`) and sends an
error or the chunks of the result one by one (`SendChunk`), up to the first that
fails. Every API call may fail; after the end of ctx every call does, because the
sender is made with main's ctx. `ChunkText` is a recursive function on sequences of
bytes, of which only the newline counts. Edits of the status message are left
out: they change neither its existence nor its id.

Observed while modelling: the sender's ctx is the one whose end starts the drain
of the agents (`cmd/agent/main.go:134`), so a request that is in hand at the
shutdown leaves its "Thinking..." behind and sends no answer. `ChunkText` counts
bytes (`chunker.go:8`), so that a cut at the limit may fall inside a character;
`AnswerWhole` says that no byte is lost, not that each piece is valid text.

### Approval

`Request` is `SendButtons`, which puts the message into the chat, and
`Register`, which puts the action into the map: a tap may fall between.
`HandleCallback` runs in the update loop, one tap after the other: `Decide`
(`Approve` and `Reject` under the lock, or the error that is only logged), `Act`
(the action itself, the lock released), `Edit` and `Answer`. The chat and the
user are external: a message keeps its buttons until an edit reaches it, every
call may fail, with or without its effect, and the process may die between any
two steps; the map is not persisted, and the tap in hand and those behind it are
lost or delivered again. `fate` is what really became of an action, which `chat`
and `told` are compared with.

Observed while modelling: a tap that finds nothing (too early, too late, or
after a restart) is answered "Approved" or "Rejected" all the same
(`approval.go:124`, `:129`).

### Dreaming

The memory files of the agents of one name. Every `Spawn` of the name makes
another `Store` on the same directory with a lock of its own, and `Stop` waits
neither for the dream nor for the web request that still use the old one.
`os.WriteFile` is two steps, `Truncate` and `Write`, under the lock of the
store; a web request is `WebGet` (the store of the moment) and `WebSave`; a
dream is `DreamLoad`, `Receive` or `DreamFails`, one `DreamSave` per file and
`DreamReturn`. Texts are sequences of words and of the protocol's markers, and
`ParseDreamResponse` is the parser on them, with its order of checks and its
slice bounds.

Claude is free. It is asked to change the texts (`dreamer.go:104-107`), and a
dream saves whatever comes (`dreamer.go:79-80`): `Answers` are all texts of
`ClaudeTexts` for all sets of files, the ones that were empty or absent included,
with anything of `Prefaces` in front, and every beginning of such an answer. That
the answer may come late, after the watchdog of its `Send` had fired, is known from
`Session` (`AnswerIsOwn`): `Receive` takes the answer to this prompt or to an
earlier one of the same store that had none yet (`asked`). The answer to
a request of the user that comes late for a dream is taken to hold no update; it
then saves nothing, as an empty one. `DreamLoad` and `Receive` do not
ask whether the session is open: a dream in `OnShutdown` whose `Send` is refused
saves nothing, either.

What a file should hold is therefore not only what the user last wrote. `due` is
what was last to be written, by the user or by a dream whose prompt is no older
than what the user wrote; `spoilt` names the files that are excused. A dream that
replaces a text it was shown does its work (`dreamer_test.go:56-74`); one whose
prompt is older than the text puts an old text back, and that is the exception.

Observed while modelling: an end marker in front of the start marker makes the
slice of `parser.go:44` panic, which ends the process (`ReceivePanic`); an answer
that first quotes the format of the prompt (`dreamer.go:109-114`) has the quotation
saved, placeholders for contents, as the parser takes the first of each marker; a
text that quotes `<<<FILE:` is split.

### Extensions

Each agent's `Apply` step by step: the MCP file truncated and written, and for
each skill of its configuration the check, `Mkdir`, `Create` and `Write`. All
agents share one skills directory without a lock, `Disable`, `Enable` and
`Archive` rename directories at any time, every call may fail, and the process
may die. A skill has three places, and each of them holds nothing, a directory
without `SKILL.md`, an empty one, or somebody's text; a text that is written
while another one is there may leave a mix of both. An open file moves with its
directory (`fd`).

Observed while modelling: a process that dies between the creation and the text
of `SKILL.md` leaves an empty file that every later `Apply` takes for installed
(`skills.go:120`) and `List` skips; `Apply` installs a disabled skill again, and
then `Enable` can only fail.

## 3. Runs

| Run | Instance | Shows |
|---|---|---|
| `supervisor` | 2 restarts in a window of 2 ticks, 4 ticks | `RestartRateBounded`, `RunningChildIsWatched`; `ShutdownCompletes`, `ChildComesBack`, `RestartRequestHonoured` |
| `session` | 2 requests, 2 launches, a stream goes on when the pipe is empty | events once and in order, an answer is the request's own unless a watchdog fired before, no process without an owner, the last launch's id, every `Send` ends unless claude streams for ever |
| `session_yield` | 2 requests, 1 launch | refutes "yields all output events until a result event is received" (`session.go:84-85`) |
| `agent` | a queue of 2, 4 requests, the idle timer | nothing lost or reordered, drain, idle timer, state; it implements `RequestService` with its fairness, which includes that it stops |
| `pool` | 2 loops and main, 2 names, 3 agents | which overlaps cost an agent, an inbox, a request or the process; the shutdown removes all and ends |
| `selfupdate` | an ordinary, a protected and a new protected file, 2 contents, 3 edits, 3 updates | a commit is what was validated unless an agent edited meanwhile; the ways a protected file gets in; what a failure leaves staged |
| `selfupdate_protected` | the same, edits only between updates, 2 updates | refutes "protected directories cannot be modified" |
| `board` | 3 columns, 4 titles of which two share a slug and one cannot be read back, 3 calls of `Add` | a task stays on the board, once, under a number of its own, unless a column could not be read |
| `telegram` | 2 agents with queues of 1, 2 messages, 8 results, chunks of 2 bytes, an API that may fail | every answer is whole or a beginning without a gap, however the agents' answers mix; no status message stays |
| `approval` | 2 actions, 3 taps, 1 death | an action is decided once; the message shows its result; an answered tap has decided or found it decided; a tap on a pending action decides it; each with its exceptions |
| `dreaming` | 2 files, one of them a default file, 2 texts of the user, 2 of claude of which one quotes the protocol, 3 prefaces, 2 web requests, 2 stores, 2 dreams | a dream saves only what claude meant unless the answer quotes the protocol; what was last written stays, unless one of the named overlaps, late answers, deaths or errors hit it |
| `extensions` | 2 agents, one skill of both and one of the first, servers for the first, 3 applies, 2 moves, 1 death | past each step of `Apply` the servers and skills are there; a whole `SKILL.md` only changes its place; each with its exceptions |

**Bounds, and why they are enough.** `MaxTime` is two windows: exits leave the
window while new ones come. The number of late watchers is bounded by the
number of restarts the breaker lets through in that time. Two requests and two
launches are the least with which a reader or a late answer meets another
request, and a `Close` and `Start` fall beside a `Send`; a third request only
repeats it with more readers. Four requests and a queue of two fill the queue
while one is in hand and leave one for the drain. Three agents let a name be
hired, fired and hired again. Three calls of `Add` let a number be given again,
after a deletion or a move off the board, beside a task that stays; a fourth
column would be one more like `review`. Two messages to two agents with queues
of one mix two answers, and two to one agent fill its queue; a refusal needs no
more. The eight results cover what `ChunkText` tells apart with chunks of two
bytes: nothing, a whole chunk, a cut at the limit, a cut at a newline, a
newline that begins the text, one before and one behind a cut. Three edits and
three updates let an update fail, leave something staged, and two more act on
it. Two actions and three taps let a tap overtake its request, come twice and
hit both buttons beside another action, before and after a restart. Two stores
are the least with which a lock misses a writer, and two requests and two
dreams the least with which each kind meets itself through one store, or a late
answer another dream. The prefaces are nothing, an end marker, and the format that
the prompt gives. Three
applies and two moves let two agents install the same skill at once, a skill be
disabled and enabled between a check and an `Install`, and an `Apply` follow
one that died half-way.

Deadlock is checked for the supervisor, where `Terminated` is the end. The other
systems may really stop: all requests handled, `Run` or the process ended, the
bounded number of edits and updates used up.

Symmetry is used in `dreaming` alone, where the two web requests are
interchangeable and no liveness is checked. Elsewhere the default agent, the
requests' order, the titles and the files' roles differ, and the larger runs check
liveness.

## 4. Fairness

Assumed, each for a reason in the code or its runtime:

- a goroutine that can take a step takes one: Go schedules every runnable
  goroutine (`WF` on the loops, watchers, readers, pumps and calls);
- timers fire: the backoff and the watchdog of a pump that waits for ever;
- a child whose context is done exits: `cmd.WaitDelay` kills it five seconds
  after SIGTERM;
- `SF` on `TakeRequest` and `TakeDone` of the agent: `select` chooses at random
  among the ready branches, so a branch that is ready again and again is taken.
  With `WF` a queue that never empties could keep the loop from seeing ctx;
- the update loop goes on (`TapDecides`): actions and API calls return;
- `Send` ends and the callbacks return (for `Agent`). The first half is
  `Session`'s `EverySendEnds`, under its exception: that claude does not write
  events to one request for ever. An agent whose claude does stays in that
  request, and its progress and its end are not claimed.

Not assumed in `Session`: anything of claude (it may be silent, die, or write
without an end). Nowhere assumed: that a child exits
which nobody cancels, that signals, commands or edits come.

## 5. Proofs

All theorems hold for every value of the constants that the modules' named
assumptions allow. These say only that limits are natural numbers, that a queue
has room for one request, that a flag is Boolean, that answers and what a user
or claude writes are sequences, that names of memory files are finitely
many and none of them is a marker (`ValidateName` allows 64 characters, `<` and
`>` not among them), and that requests and stores, texts and no file, and so on, are
not mistaken for each other. Nothing else is assumed of what claude answers to a
dream.

| Theorem | States | Argument |
|---|---|---|
| `Supervisor_proofs!TypeCorrect` | `Spec => []TypeOK` | inductive as it stands |
| `Supervisor_proofs!RestartRate` | `Spec => []RestartRateBounded` | see below |
| `Supervisor_proofs!ChildIsWatched` | `Spec => []RunningChildIsWatched` | `RunningChildIsWatched` with `TypeOK` is inductive: `Launch` makes a watcher, each step that fills `restartCh` or ends the context also wakes the one that waits |
| `Agent_proofs!TypeCorrect` | `Spec => []TypeOK` | inductive; the bound of the queue is that of `Submit`'s guard, and the loop only shortens it |
| `Agent_proofs!NothingLost` | `Spec => []NothingLostOrReordered` | inductive with `TypeOK`; each step moves one request across `completed \o inHand \o queue`, by the lemmas on concatenation |
| `Agent_proofs!DrainCovers` | `Spec => []DrainCoversAccepted` | with the above, `cut <= Len(accepted)` and that the hook begins with an empty queue and empty hands |
| `Agent_proofs!ImplementsService` | `Spec => ServiceSpec` | step simulation from `NothingLostOrReordered`: `FinishRequest` and `DrainFinish` are `Finish`, `DrainEnds` is `Stop`, `Submit` is `Accept`, every other step a stutter |
| `Agent_proofs!TimerRuns`, `!StateTellsWork` | `Spec => []IdleTimerRuns`, `Spec => []StateMatchesWork` | from `LoopInv`: the shown state is a function of the place of the loop, and no branch leads back to the `select` without a `Reset` of the timer |
| `Frontend_proofs!TypeCorrect` | `Spec => []TypeOK` | from `Frontend_proofs!Inv` |
| `Frontend_proofs!DistinctNumbers` | `Spec => []NumbersDistinct` | from `Inv`; `NextIDIsNew` is the step of `Add` |
| `Frontend_proofs!TasksRemain` | `Spec => []TasksStay` | from `Inv`: `Present` gives the file, `OneFileEach` that it is the only one |
| `Session_proofs!TypeCorrect` | `Spec => []TypeOK` | from `SessInv`, see below |
| `Session_proofs!NoneUnowned` | `Spec => []NoOrphanProcess` | from `SessInv`: a launch numbered above the Session's was never started, and `Start` reaches `exec` only when nothing runs |
| `Session_proofs!YieldsInOrder` | `Spec => []EventsOnceInOrder` | from `SessInv`: the places that events pass through form one line, in order |
| `Session_proofs!OwnAnswer` | `Spec => []AnswerIsOwn` | from `SessInv`: until a watchdog fires, a `Send` leaves nothing behind that a later one can be given |
| `Session_proofs!IdNeverBack` | `Spec => ResumesLatest` | from `SessInv`: the pump that writes the id scans the last launch a `Send` wrote to, and the id is never ahead of that |
| `Pool_proofs!TypeCorrect` | `Spec => []TypeOK` | inductive, because it ties the agent that a call holds to the step it is in |
| `Pool_proofs!AgentsReachable` | `Spec => []NoOrphan` | from `PoolInv`, see below |
| `Pool_proofs!SubscriptionsMatch`, `!NoSendOnClosed` | `Spec => []InboxMatches`, `Spec => []SendsOnOpenChannels` | from `PoolInv`: a subscribed inbox is open, and outside a hire or a fire it is that of the agent in the map |
| `Pool_proofs!SubmitsToEntry` | `Spec => []SubmitReachesLive` | from `PoolInv`: who holds an agent after `Get` has it from the map, or its removal is recorded |
| `Pool_proofs!ShutdownEmpties` | `Spec => []ShutdownRemovesAll` | from `PoolInv`: what is in the map is in the snapshot or was in flight when it was taken |
| `SelfUpdate_proofs!TypeCorrect` | `Spec => []TypeOK` | inductive |
| `SelfUpdate_proofs!CommitsValidated` | `Spec => CommitsWhatItValidated` | the commit takes the index, and the invariant says that it is what build, vet and test have seen, unless an agent edited |
| `SelfUpdate_proofs!ProtectedExplained` | `Spec => ProtectedChangesExplained` | the invariant keeps what the check established: each protected file of the tree it saw (`base`) was untracked, or as it was in the index |
| `SelfUpdate_proofs!StagedIsCommitted` | `Spec => []StagedOnlyWhenBroken` | inductive as it stands |
| `Unwired_proofs!TypeCorrect` | `Spec => []TypeOK` | from an invariant that adds: what is edited into a message is decided |
| `Unwired_proofs!OneDecision` | `Spec => []DecidedOnce` | from an invariant: what is pending, or in the hands of `Act`, is not decided, and an action that was taken out of the map never comes back, as ids are not used twice |
| `Unwired_proofs!ResultShown` | `Spec => []MessageShowsResult` | with it: the callback in hand is the only one whose message may lag behind |
| `Unwired_proofs!AnswersDecide` | `Spec => []AnswerMeansDecision` | from `AnswerInv`: a tap comes from buttons that a `Request` sent, and an action that left the map was decided, or a death took it |
| `Extensions_proofs!TypeCorrect` | `Spec => []TypeOK` | inductive, because it says that an `Apply` that installs is at one of its skills |
| `Extensions_proofs!CopiesRemain` | `Spec => CopiesKept` | by cases on the step, with the invariant `SawNone`: who installs has seen no `SKILL.md` |
| `Extensions_proofs!AppliedStays` | `Spec => []AppliedIsThere` | from `AppliedInv`: a skill is `Empty` only while it is being written or after a death, and each skill that `Apply` has passed was there when passed, or was moved away since |
| `Unwired_proofs!WritesRemain` | `MemorySpec => []NoWriteLost` | from `FilesKept` and `TypesInv`, see below |
| `Unwired_proofs!MemoryTypesCorrect` | `MemorySpec => []MemoryTypeOK` | from `TypesInv`: what the parser returns has names for its domain and texts for its values, whatever the answer (`ParsedTyped`), and each writer holds the lock of its own store (`Placed`) |
| `Unwired_proofs!DreamsSaveWhatWasMeant` | `MemorySpec => []SavesWhatWasMeant` | with `TypesInv`; `AnswerSaves` is the step that receives the answer, see below |
| `Frontend_proofs!BotTypeCorrect` | `BotSpec => []BotTypeOK` | from `BotTypeInv`, which adds that the chat is a sequence and that no agent has a message that was not asked |
| `Frontend_proofs!StatusGone` | `BotSpec => []StatusRemoved` | from `OnePlace` and `StatusInv`, see below |
| `Frontend_proofs!AnswersWhole` | `BotSpec => []AnswerWhole` | from `ChunkTextCuts` and `AnswerInv`, see below |

`RestartRateBounded` speaks of `exits`, the whole history, while the code decides
by `timestamps`, what pruning left of it. It is not inductive. `BreakerInv` ties
the two: `timestamps` is a suffix of `exits`, everything before it is older than
the window, and whenever a child is being launched or runs there are fewer than
`MaxRestarts` entries. Recording an exit then makes at most `MaxRestarts`
entries, so the exit `MaxRestarts` places earlier was dropped, hence older than
the window.

`TasksStay` is not inductive either: an `Add` or a `Move` overwrites whatever has
its name, so that it keeps a task only because no other file in the columns has
its number, and counts it once only because no call of `Add` has two files.
`Inv` says that, with the bounds of numbers that `NextID` needs. That
`NextID` returns something above every number it saw rests on the maximum of a
bounded set of numbers (`MaxOfBounded`, from the well-foundedness of `<`).

`PoolInv` is needed because the five properties speak of the map, the bus and
the agents, and a call is between two of them for most of its life. It says of
each thread what it is responsible for meanwhile: every agent that was started
is cancelled, in the map, or held by the call that is about to insert, stop or
undo it (`AllOwned`); the agent that `Subscribe` opens an inbox for has none
yet, and no other call holds it (`FreshInbox`); a subscription is that of the
map, or of the hire or fire that is on its way (`SubFollows`). The exceptions
that the properties make are invariants as well: two calls on one name at once
are recorded before either can do harm (`OverlapsSeen`, `HiresUnused`).
`ShutdownInv` is the snapshot of `ShutdownAll`: what is in the map and not in
it was in flight.

`SessInv` follows the events. The ones that the current `Send` can still be given
stand in a line: what its channel holds (`held`), what its reader has scanned
(`buf`), the pipe (`stdout`), what claude has yet to write (`todo`). `LineInOrder`
says that the line is in order and comes after everything that any request was
given; readers of earlier requests only take away from its pipe, which leaves
order alone. The lemmas on `Sorted` and `Precedes` say what each end of a sequence
does to it when an event moves to the next. That an answer is the request's own is
`NothingStale`: while no watchdog has fired, whatever a `Send` leaves has
been read to its end, so that the next line begins with its own request. After a
watchdog this is false, which is the exception of the property. `NoneAhead`,
`Readers`, `Places` and `Launches` say where these pieces can be at all: no event of
a request not yet written, no reader without a launch, a pump only while the agent
receives, no process above the number of the last launch.

`AnswerInv` ties the three views of an action: what the chat shows, whether
`Request` has returned, and the map. Buttons are only on actions that were
asked for, and one that is no longer in the map was decided, is with `Act`, or
was cut off by a death. `AppliedInv` lets an `Apply` look back: at every place of
its loop, each skill before the current one is installed or in `excused`, which
every move of a skill fills. `LoopInv` gives for each place of the agent's loop
the state it shows and whether the timer runs.

`FilesKept` speaks of the files that are not in `spoilt`, one by one (`Kept`): they
are written through the last store only, whose lock makes the writer unique, and
into an empty file, where nothing of another text can remain; a writer in
between has what is due, and without one the file holds it. Which texts dreams
save does not enter, but that they are texts (`DreamTypes`) does: it holds of
whatever the parser makes of whatever claude answers. `PromptsOK` is the part of
`TypesInv` that gives each prompt without an answer its set of files.

`StatusRemoved` needs to know that a message is nobody else's business.
`OnePlace` says that it is in one queue, once, or in the hands of one agent, or
completed, and only one of these: otherwise two handlers could each send its
status message, or one could send it when the other had deleted it. `StatusInv` then
follows the status messages by their places in the chat, which every deletion
shifts (`StatusesPosted`, `StatusesRemoved`): none before `OnEvent` has tried, at
most one after it, none while the answer is sent, unless a call failed.

`AnswerWhole` has two halves. The first is about `ChunkText`, a recursive function
on texts: its pieces are cuts of the text, in order, without a gap but for the
newline at which a piece ends (`ChunkTextCuts`). The second is about the chat, where
pieces of several answers and status messages stand between each other.
`AnswerInv` says of each message that the chat shows nothing of its answer before
`OnComplete` has begun to send it (`Begun`), then the first of its pieces, in order
(`PieceShown`), and that what is still to be sent are the others, or nothing after
a call that failed. The
deletion of a status message shifts every later place of the chat, and so the
rank of a piece among those of its answer is followed, not its place
(`CountMoved`, `RankMoved`). `OnePlace` says that no other handler sends them.

`SavesWhatWasMeant` says that parsing undoes rendering, and that half an answer is
none. The sections of the rendered files stand one behind the other, and every
file marker begins one (`Sectioned`), so that what `strings.Split` returns are those
sections (`PartIsSection`) and each of them is read as its file (`SectionParses`).
The first end marker is the last token, unless one stands in front of the start
marker; then the parser panics. That the first start marker is the answer's own,
and that the others stand nowhere else, is where the exception is needed
(`NotQuoted`). An answer that breaks off has no end marker behind its start marker
(`SavesNothing`). `OutcomeIs` puts this together for each member of `Parsed`.

What a recursive definition computes is proved with least counterexamples. A
recursive function is a `CHOOSE`: that it satisfies its own equation needs a
function that does. `ChunksExist` and `FoldsExist` build one for every bound on
the length of a text or on the number of names, and a least bound without one
(`LeastOf`, from the well-foundedness of `<`) contradicts itself; the same argument
then carries a property from smaller arguments to larger ones (`ChunkTextCuts`,
`SectionsRender`). The library's induction theorems would do this in one step,
but take an operator as a parameter, which the provers cannot instantiate.

**Only model-checked**: that `Supervisor` does not deadlock, and liveness
(`ShutdownCompletes`, `ChildComesBack`, `RestartRequestHonoured`,
`EverySendEnds`, `TapDecides`, `ServiceFair`, the fairness half of the refinement).
Both rest on `ENABLED`, which the provers do not handle.

## 6. What is not modelled, and why

| Part | Reason |
|---|---|
| agent prompt, configuration | functions without state; configured values are the CONSTANTS |
| user API, web authentication, the HTTP server, tunnel | I/O around libraries; the handlers that change the board are in `Board`, the one that saves a memory file in `Dreaming` |
| the bot's commands that only read, and the wording of replies | no state changes |
| edits of the status message | see `Telegram` |
| `CircuitBreaker.Reset`, `Store.Delete`, `RevertLast` | nothing but tests calls them |
| `Bus.Broadcast`, what is in the inboxes | nothing reads an inbox; `Broadcast` holds the lock of the bus while it sends, so that `SendsOnOpenChannels` is all it needs |
| whitespace in memory files, `.md` suffixes | trimmed by the parser on both sides; the model's texts have none |
| reading front matter of skills, malformed skills | `List` changes nothing; `Listed` is its outcome |
| dropped signals | modelled (`Signal`), but the code promises nothing about them |
| lengths of the backoff and the timeouts | a timer fires at some time; no property depends on its length |
| a git or go command that sees an edit halfway | each command is one view of the tree |

## 7. Findings

Disagreements between the code and its documents, each with a run that shows it:

1. **Lines of an answer go to an earlier request's reader** (`session_yield`):
   `session.go:103` starts a reader per `Send` and none ends with it. A second
   request may lose events, and with them its answer, with no timeout involved.
2. **A new file in a protected directory is committed** (`selfupdate_protected`):
   the check reads `git diff --name-only`, the commit takes `git add -A`.

An exception of a property is often the very hazard that led to it: two `Spawn`s of
one name, a `Stop` between lookup and use, a tap that overtakes `Request`, a dream
beside the user. The code guards against none of these. Such a property says
that the named case, and no other, has the effect; it does not say that the case is
harmless.

What else was observed is named with its module in section 2, and as an
exception in the property concerned; two of these also contradict a comment, the
restart that runs the old build (`restart.go:9-10`, under SelfUpdate) and the
watchdog that a stream postpones (`session.go:17`, under Session). Two more that
no document contradicts: `Submit` after the drain is accepted and never answered (`stopped` in the
refinement says so); a channel that closes without a result is reported as an
empty success, and the user sees nothing.

## 8. Plan

Written so far, in this order: `Supervisor`, `Session`, `RequestService` and
`Agent`, `Pool` with the bus, `SelfUpdate`, `Board`, `Telegram`, `Approval`,
`Dreaming`, `Extensions`. What is left of the program is listed in section 6; a
new module would take the place of a weaker run.

The theorems listed in section 5 cover every invariant and every action property
of the passing runs. What is left to TLC are the liveness properties named there.

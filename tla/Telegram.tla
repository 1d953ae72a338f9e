------------------------------ MODULE Telegram ------------------------------
(***************************************************************************)
(* internal/telegram between the user and the agents: Bot.HandleText, the  *)
(* Handler of each request, and ChunkText, as the user sees them in the    *)
(* chat.                                                                   *)
(*                                                                         *)
(* HandleText runs in the update loop, the handlers in the loops of their  *)
(* agents, which the module Agent describes in detail: here they take one  *)
(* request after the other. Every call of the Telegram API is a step; it   *)
(* may fail, and it always does when main's ctx is done, because the       *)
(* sender of main makes all its calls with that ctx. Edits of a status     *)
(* message (its wording and their debouncing) are left out.                *)
(*                                                                         *)
(* A text is a sequence of bytes, which ChunkText counts (chunker.go:8);   *)
(* of their values only the newline matters.                               *)
(***************************************************************************)
EXTENDS Naturals, Sequences, FiniteSetsExt, SequencesExt

CONSTANTS
  Agents,       (* the agents of the pool                                  *)
  DefaultName,  (* cfg.Agents.DefaultAgent                                 *)
  Addressed,    (* the names in "@name" of a message, and NoPrefix         *)
  NoPrefix,
  Texts,        (* the results that claude may give                        *)
  NL,           (* the newline                                             *)
  MaxLen,       (* MaxMessageLen                                           *)
  QueueSize,    (* cfg.QueueSize of the agents                             *)
  MaxMessages   (* bound of the model: messages of the user                *)

(* What texts are made of.                                                 *)
Bytes == UNION {Range(text) : text \in Texts}

ASSUME TelegramAssumption ==
  /\ DefaultName \in Agents /\ NoPrefix \notin Agents
  /\ MaxLen \in Nat \ {0}
  /\ QueueSize \in Nat \ {0}
  /\ MaxMessages \in Nat
  /\ Texts \subseteq Seq(Bytes)

Messages == 1..MaxMessages

VARIABLES
  ctxDone,    (* main's ctx has been cancelled                             *)
  asked,      (* how many messages HandleText has begun with               *)
  queue,      (* queue[a]: the messages in the queue of agent a            *)
  cur,        (* cur[a]: the message it processes, or 0                    *)
  phase,      (* phase[a]: where it is in processRequest and its handler   *)
  status,     (* status[m]: Handler.statusSent and statusMsgID             *)
  outcome,    (* outcome[m]: how the interaction ended                     *)
  left,       (* left[a]: what OnComplete still has to send                *)
  chat,       (* the messages of the bot in the chat                       *)
  result,     (* history: result[m] is claude's result for message m       *)
  failed,     (* history: messages with a failed call of the API           *)
  completed   (* history: messages whose OnComplete has returned           *)

loopVars == <<ctxDone, asked>>
agentVars == <<queue, cur, phase, left>>
msgVars == <<status, outcome, result>>
botVars == <<loopVars, agentVars, msgVars, chat, failed, completed>>

Outcomes == {"none", "refused", "stop", "text", "error", "nothing"}

BotTypeOK ==
  /\ ctxDone \in BOOLEAN
  /\ asked \in 0..MaxMessages
  /\ queue \in [Agents -> Seq(Messages)]
  /\ cur \in [Agents -> {0} \cup Messages]
  /\ phase \in [Agents -> {"idle", "events", "complete", "answer"}]
  /\ \A a \in Agents :
       /\ Len(queue[a]) <= QueueSize
       /\ cur[a] = 0 <=> phase[a] = "idle"
  /\ status \in [Messages -> {"unsent", "failed", "sent"}]
  /\ outcome \in [Messages -> Outcomes]
  /\ failed \subseteq 1..asked /\ completed \subseteq 1..asked

BotInit ==
  /\ ctxDone = FALSE
  /\ asked = 0
  /\ queue = [a \in Agents |-> <<>>]
  /\ cur = [a \in Agents |-> 0]
  /\ phase = [a \in Agents |-> "idle"]
  /\ status = [m \in Messages |-> "unsent"]
  /\ outcome = [m \in Messages |-> "none"]
  /\ left = [a \in Agents |-> <<>>]
  /\ chat = <<>>
  /\ result = [m \in Messages |-> <<>>]
  /\ failed = {} /\ completed = {}

-----------------------------------------------------------------------------
(* ChunkText.                                                              *)

(* The length of the first chunk of a text that is too long: up to the     *)
(* last newline that leaves something before it, or all that fits.         *)
CutAt(text) ==
  LET newlines == {i \in 2..MaxLen : text[i] = NL}
  IN IF newlines = {} THEN MaxLen ELSE Max(newlines) - 1

(* What is left, without the newline that it begins with.                  *)
Rest(text) ==
  LET rest == SubSeq(text, CutAt(text) + 1, Len(text))
  IN IF rest # <<>> /\ rest[1] = NL THEN Tail(rest) ELSE rest

Remainders ==
  UNION {{SubSeq(text, i, Len(text)) : i \in 1..(Len(text) + 1)} : text \in Texts}

ChunkText[text \in Remainders] ==
  IF text = <<>> THEN <<>>
  ELSE IF Len(text) <= MaxLen THEN <<text>>
  ELSE <<SubSeq(text, 1, CutAt(text))>> \o ChunkText[Rest(text)]

-----------------------------------------------------------------------------
(* The sender holds main's ctx.                                            *)
SenderDone == ctxDone

(* A call of the API for message m succeeds, with its effect on the chat,  *)
(* or fails.                                                               *)
Call(m, newChat) ==
  \/ ~SenderDone /\ chat' = newChat /\ UNCHANGED failed
  \/ failed' = failed \cup {m} /\ UNCHANGED chat

Message(m, kind, text) == [msg |-> m, kind |-> kind, text |-> text]

Post(m, kind, text) == Call(m, Append(chat, Message(m, kind, text)))

Posted == chat' # chat

CancelCtx ==
  /\ ~ctxDone
  /\ ctxDone' = TRUE
  /\ UNCHANGED <<asked, agentVars, msgVars, chat, failed, completed>>

-----------------------------------------------------------------------------
(* Bot.HandleText: one message after the other, of a user who is allowed.  *)

(* ParseAgentPrefix, and the default agent.                                *)
AgentOf(prefix) == IF prefix = NoPrefix THEN DefaultName ELSE prefix

(* Mutant: the queue of the agent takes any number of messages.            *)
TakesAny(a) == a \in Agents

(* Pool.SubmitTo: the agent exists, and its queue has room.                *)
Takes(a) == a \in Agents /\ Len(queue[a]) < QueueSize

HandleText(prefix) ==
  LET a == AgentOf(prefix) IN
  /\ asked < MaxMessages
  /\ asked' = asked + 1
  /\ \/ /\ Takes(a)
        /\ queue' = [queue EXCEPT ![a] = Append(@, asked')]
        /\ UNCHANGED <<outcome, chat, failed>>
     \/ /\ ~Takes(a)
        /\ outcome' = [outcome EXCEPT ![asked'] = "refused"]
        /\ Post(asked', "refusal", <<>>)
        /\ UNCHANGED queue
  /\ UNCHANGED <<ctxDone, cur, phase, left, status, result, completed>>

(* /stop: a farewell, and the end of ctx.                                  *)
StopCommand ==
  /\ asked < MaxMessages
  /\ asked' = asked + 1
  /\ outcome' = [outcome EXCEPT ![asked'] = "stop"]
  /\ Post(asked', "farewell", <<>>)
  /\ ctxDone' = TRUE
  /\ UNCHANGED <<agentVars, status, result, completed>>

(* The goroutine of startTelegramBot.                                      *)
UpdateLoop == StopCommand \/ \E prefix \in Addressed : HandleText(prefix)

-----------------------------------------------------------------------------
(* The loop of an agent, in processRequest.                                *)

Goto(a, p) == phase' = [phase EXCEPT ![a] = p]

(* It takes a request, and its Send succeeds or fails.                     *)
Begin(a) ==
  /\ phase[a] = "idle"
  /\ queue[a] # <<>>
  /\ LET m == Head(queue[a]) IN
     /\ cur' = [cur EXCEPT ![a] = m]
     /\ queue' = [queue EXCEPT ![a] = Tail(@)]
     /\ \/ Goto(a, "events") /\ UNCHANGED outcome
        \/ Goto(a, "complete") /\ outcome' = [outcome EXCEPT ![m] = "error"]
  /\ UNCHANGED <<loopVars, left, status, result, chat, failed, completed>>

(* OnEvent, at the first event: the status message is tried once.          *)
OnEvent(a) ==
  LET m == cur[a] IN
  /\ phase[a] = "events"
  /\ status[m] = "unsent"
  /\ Post(m, "status", <<>>)
  /\ status' = [status EXCEPT ![m] = IF Posted THEN "sent" ELSE "failed"]
  /\ UNCHANGED <<loopVars, agentVars, outcome, result, completed>>

(* The channel closes: after a result, which has been an event, with a     *)
(* text or an error, or without one.                                       *)
EventsEnd(a) ==
  LET m == cur[a] IN
  /\ phase[a] = "events"
  /\ \/ /\ status[m] # "unsent"
        /\ \E text \in Texts : result' = [result EXCEPT ![m] = text]
        /\ outcome' = [outcome EXCEPT ![m] = "text"]
     \/ /\ status[m] # "unsent"
        /\ outcome' = [outcome EXCEPT ![m] = "error"]
        /\ UNCHANGED result
     \/ /\ outcome' = [outcome EXCEPT ![m] = "nothing"]
        /\ UNCHANGED result
  /\ Goto(a, "complete")
  /\ UNCHANGED <<loopVars, queue, cur, left, status, chat, failed, completed>>

-----------------------------------------------------------------------------
(* OnComplete.                                                             *)

(* The texts it sends: that of an error is not looked at.                  *)
Answer(m) ==
  CASE outcome[m] = "error" -> << <<>> >>
    [] outcome[m] = "text" -> ChunkText[result[m]]
    [] OTHER -> <<>>

AnswerKind(m) == IF outcome[m] = "error" THEN "error" ELSE "chunk"

(* Where the chat shows status messages for m; they all show the same.     *)
StatusesOf(m) == {i \in DOMAIN chat : chat[i] = Message(m, "status", <<>>)}

(* Mutant: an error is sent without a look at the status message.          *)
StatusOnSuccess(m) == status[m] = "sent" /\ outcome[m] # "error"

HasStatus(m) == status[m] = "sent"

DeleteStatus(a) ==
  LET m == cur[a] IN
  /\ phase[a] = "complete"
  /\ IF HasStatus(m)
     THEN \E i \in StatusesOf(m) : Call(m, RemoveAt(chat, i))
     ELSE UNCHANGED <<chat, failed>>
  /\ left' = [left EXCEPT ![a] = Answer(m)]
  /\ Goto(a, "answer")
  /\ UNCHANGED <<loopVars, queue, cur, msgVars, completed>>

(* Mutant: goes on after a chunk that could not be sent.                   *)
GoesOn(a) == Tail(left[a])

AfterFailure(a) == <<>>

(* The first chunk that cannot be sent ends the answer.                    *)
SendChunk(a) ==
  /\ phase[a] = "answer"
  /\ left[a] # <<>>
  /\ Post(cur[a], AnswerKind(cur[a]), Head(left[a]))
  /\ left' = [left EXCEPT ![a] = IF Posted THEN Tail(@) ELSE AfterFailure(a)]
  /\ UNCHANGED <<loopVars, queue, cur, phase, msgVars, completed>>

Complete(a) ==
  /\ phase[a] = "answer"
  /\ left[a] = <<>>
  /\ completed' = completed \cup {cur[a]}
  /\ cur' = [cur EXCEPT ![a] = 0]
  /\ Goto(a, "idle")
  /\ UNCHANGED <<loopVars, queue, left, msgVars, chat, failed>>

-----------------------------------------------------------------------------
BotNext ==
  \/ CancelCtx
  \/ UpdateLoop
  \/ \E a \in Agents :
       \/ Begin(a) \/ OnEvent(a) \/ EventsEnd(a)
       \/ DeleteStatus(a) \/ SendChunk(a) \/ Complete(a)

BotSpec == BotInit /\ [][BotNext]_botVars

-----------------------------------------------------------------------------
(* The k-th chunk is what the text has from the place from[k] on, and the  *)
(* next begins behind it, or behind the newline that follows it.           *)
Stands(from, chunks, text, k) ==
  LET behind == from[k] + Len(chunks[k]) IN
  /\ chunks[k] = SubSeq(text, from[k], behind - 1)
  /\ \/ from[k + 1] = behind
     \/ from[k + 1] = behind + 1 /\ text[behind] = NL

(* Chunks are a text that was cut: none is empty, none too long, they      *)
(* stand side by side, and nothing is left out but a newline behind one.   *)
Cuts(chunks, text) ==
  /\ \A k \in 1..Len(chunks) : Len(chunks[k]) \in 1..MaxLen
  /\ \E from \in [1..(Len(chunks) + 1) -> 1..(Len(text) + 1)] :
       /\ from[1] = 1 /\ from[Len(chunks) + 1] = Len(text) + 1
       /\ \A k \in 1..Len(chunks) : Stands(from, chunks, text, k)

(* Where the chat shows a piece of the answer to m.                        *)
Pieces(m) == {i \in DOMAIN chat : chat[i].msg = m /\ chat[i].kind \in {"chunk", "error"}}

(* How many there are up to the i-th message of the chat.                  *)
Shown(m, i) == Cardinality({j \in Pieces(m) : j <= i})

(* What the user reads is claude's answer (ADR-0003:31, chunker.go:8-10):  *)
(* the chunks are the whole text but for newlines at the cuts, and however *)
(* the answers of several agents mix in the chat, it shows the first of    *)
(* each one's, in order, and all when OnComplete has returned and no call  *)
(* has failed; an error is one message.                                    *)
AnswerWhole ==
  \A m \in 1..asked :
    LET answer == Answer(m) IN
    /\ outcome[m] = "text" => Cuts(answer, result[m])
    /\ outcome[m] = "error" => Len(answer) = 1
    /\ Cardinality(Pieces(m)) <= Len(answer)
    /\ \A i \in Pieces(m) : chat[i] = Message(m, AnswerKind(m), answer[Shown(m, i)])
    /\ m \in completed \ failed => Cardinality(Pieces(m)) = Len(answer)

(* A status message never stays behind an answer (ADR-0003:29-31): there   *)
(* is at most one for each request, and none when OnComplete has returned, *)
(* unless a call of the API failed for it.                                 *)
StatusRemoved ==
  \A m \in 1..asked :
    /\ \A i, j \in StatusesOf(m) : i = j
    /\ m \in completed \ failed => StatusesOf(m) = {}
=============================================================================

------------------------------- MODULE Approval -------------------------------
(***************************************************************************)
(* internal/telegram's ApprovalQueue: an agent asks the user by a message  *)
(* with two buttons, and runs its action or discards it by the tap.        *)
(*                                                                         *)
(* Request runs in the goroutine of who asks, HandleCallback in the update *)
(* loop, one tap after the other. They meet in the map of pending actions, *)
(* under its lock, and in the chat, which has no lock: the message is in   *)
(* the chat before the action is in the map. The map is not persisted.     *)
(*                                                                         *)
(* External are the chat and the user: a call of the API that fails may    *)
(* have had its effect; the buttons of a message are there until it is     *)
(* edited; and a tap that was not handled when the process died is lost or *)
(* delivered again.                                                        *)
(***************************************************************************)
EXTENDS Naturals, Sequences

CONSTANTS
  Ids,       (* the actions that are ever requested, by generateID         *)
  MaxTaps,   (* bound of the model: how often the user taps                *)
  MaxDeaths  (* bound of the model: how often the process dies             *)

ASSUME ApprovalAssumption == MaxTaps \in Nat /\ MaxDeaths \in Nat

VARIABLES
  asking,   (* asking[i]: where the Request of i is                        *)
  pending,  (* ApprovalQueue.pending                                       *)
  chat,     (* chat[i]: what the message of i shows                        *)
  taps,     (* callbacks on their way to the update loop, in order         *)
  step,     (* where HandleCallback is                                     *)
  cur,      (* the callback it handles, or NoTap                           *)
  tapped, deaths,
  fate,     (* fate[i]: what became of the action                          *)
  ran,      (* history: ran[i] is how often Action of i was called         *)
  told,     (* history: the callbacks that were answered                   *)
  early,    (* history: actions with a tap between message and map         *)
  cutOff    (* history: actions that a death or a failed call cut off      *)

loopVars == <<step, cur>>
userVars == <<taps, tapped, deaths>>
history == <<ran, told, early, cutOff>>
vars == <<asking, pending, chat, loopVars, userVars, fate, history>>

Buttons == {"approve", "reject"}
Taps == [id : Ids, button : Buttons]
NoTap == [id |-> "none", button |-> "none"]

TypeOK ==
  /\ asking \in [Ids -> {"no", "sent", "returned", "failed"}]
  /\ pending \subseteq {i \in Ids : asking[i] = "returned"}
  /\ chat \in [Ids -> {"none", "buttons", "ok", "failed", "discarded"}]
  /\ taps \in Seq(Taps)
  /\ step \in {"idle", "act", "edit", "answer"}
  /\ cur \in IF step = "idle" THEN {NoTap} ELSE Taps
  /\ tapped \in 0..MaxTaps /\ deaths \in 0..MaxDeaths
  /\ fate \in [Ids -> {"open", "ok", "failed", "discarded"}]
  /\ ran \in [Ids -> Nat]
  /\ told \subseteq Taps
  /\ early \subseteq Ids /\ cutOff \subseteq Ids

Init ==
  /\ asking = [i \in Ids |-> "no"]
  /\ pending = {}
  /\ chat = [i \in Ids |-> "none"]
  /\ taps = <<>>
  /\ step = "idle" /\ cur = NoTap
  /\ tapped = 0 /\ deaths = 0
  /\ fate = [i \in Ids |-> "open"]
  /\ ran = [i \in Ids |-> 0]
  /\ told = {} /\ early = {} /\ cutOff = {}

-----------------------------------------------------------------------------
(* Request: SendMessageWithButtons, and then the map.                      *)

SendButtons(i) ==
  /\ asking[i] = "no"
  /\ \/ /\ asking' = [asking EXCEPT ![i] = "sent"]
        /\ chat' = [chat EXCEPT ![i] = "buttons"]
        /\ UNCHANGED cutOff
     \/ /\ asking' = [asking EXCEPT ![i] = "failed"]
        /\ \E shown \in {"none", "buttons"} : chat' = [chat EXCEPT ![i] = shown]
        /\ cutOff' = cutOff \cup {i}
  /\ UNCHANGED <<pending, loopVars, userVars, fate, ran, told, early>>

(* The map with i in it; Mutant: it has room for one.                      *)
OneSlot(i) == {i}
Inserted(i) == pending \cup {i}

Register(i) ==
  /\ asking[i] = "sent"
  /\ asking' = [asking EXCEPT ![i] = "returned"]
  /\ pending' = Inserted(i)
  /\ UNCHANGED <<chat, loopVars, userVars, fate, history>>

-----------------------------------------------------------------------------
(* The user.                                                               *)

Tap(i, b) ==
  /\ chat[i] = "buttons"
  /\ tapped < MaxTaps
  /\ tapped' = tapped + 1
  /\ taps' = Append(taps, [id |-> i, button |-> b])
  /\ UNCHANGED <<asking, pending, chat, loopVars, deaths, fate, history>>

-----------------------------------------------------------------------------
(* HandleCallback.                                                         *)

(* The map without i; Mutant: nothing is deleted.                          *)
KeepsPending(i) == pending
Deleted(i) == pending \ {i}

(* Found and deleted under the lock. An action that is not there is an     *)
(* error that is logged, and the callback is answered all the same.        *)
Decide ==
  /\ step = "idle"
  /\ taps # <<>>
  /\ cur' = Head(taps)
  /\ taps' = Tail(taps)
  /\ LET i == Head(taps).id
         b == Head(taps).button
     IN \/ /\ i \in pending
           /\ pending' = Deleted(i)
           /\ step' = IF b = "approve" THEN "act" ELSE "edit"
           /\ fate' = IF b = "approve" THEN fate ELSE [fate EXCEPT ![i] = "discarded"]
           /\ UNCHANGED early
        \/ /\ i \notin pending
           /\ step' = "answer"
           /\ early' = IF asking[i] = "sent" THEN early \cup {i} ELSE early
           /\ UNCHANGED <<pending, fate>>
  /\ UNCHANGED <<asking, chat, tapped, deaths, ran, told, cutOff>>

(* Action(), with the lock released.                                       *)
Act ==
  /\ step = "act"
  /\ \E result \in {"ok", "failed"} : fate' = [fate EXCEPT ![cur.id] = result]
  /\ ran' = [ran EXCEPT ![cur.id] = @ + 1]
  /\ step' = "edit"
  /\ UNCHANGED <<asking, pending, chat, cur, userVars, told, early, cutOff>>

(* What EditMessage shows; Mutant: the description of an approval whatever *)
(* the action returned.                                                    *)
AlwaysApproved(i) == IF fate[i] = "failed" THEN "ok" ELSE fate[i]
ResultText(i) == fate[i]

(* Nobody looks at the error of the edit.                                  *)
Edit ==
  /\ step = "edit"
  /\ \/ chat' = [chat EXCEPT ![cur.id] = ResultText(cur.id)] /\ UNCHANGED cutOff
     \/ cutOff' = cutOff \cup {cur.id} /\ UNCHANGED chat
  /\ step' = "answer"
  /\ UNCHANGED <<asking, pending, cur, userVars, fate, ran, told, early>>

(* AnswerCallback, "Approved" or "Rejected" by the button.                 *)
Answer ==
  /\ step = "answer"
  /\ \/ told' = told \cup {cur}
     \/ UNCHANGED told
  /\ step' = "idle"
  /\ cur' = NoTap
  /\ UNCHANGED <<asking, pending, chat, userVars, fate, ran, early, cutOff>>

-----------------------------------------------------------------------------
(* The process dies, and the supervisor starts another: the map is empty.  *)
Die ==
  /\ deaths < MaxDeaths
  /\ deaths' = deaths + 1
  /\ cutOff' = cutOff \cup pending \cup {i \in Ids : asking[i] = "sent"}
                      \cup (IF step = "idle" THEN {} ELSE {cur.id})
  /\ asking' = [i \in Ids |-> IF asking[i] = "sent" THEN "failed" ELSE asking[i]]
  /\ pending' = {}
  /\ taps' \in {<<>>, taps} \cup (IF step = "idle" THEN {} ELSE {<<cur>> \o taps})
  /\ step' = "idle" /\ cur' = NoTap
  /\ UNCHANGED <<chat, tapped, fate, ran, told, early>>

-----------------------------------------------------------------------------
HandleCallback == Decide \/ Act \/ Edit \/ Answer

Next ==
  \/ \E i \in Ids : SendButtons(i) \/ Register(i)
  \/ \E i \in Ids, b \in Buttons : Tap(i, b)
  \/ HandleCallback
  \/ Die

Spec == Init /\ [][Next]_vars

(* The update loop goes on, as long as actions and calls return.           *)
FairSpec == Spec /\ WF_vars(HandleCallback)

-----------------------------------------------------------------------------
(* One decision: whatever taps come, twice, on both buttons, late or again *)
(* after a restart, the action runs at most once, and not at all once it   *)
(* was rejected (approval.go:79, 101).                                     *)
DecidedOnce ==
  \A i \in Ids : ran[i] <= (IF fate[i] \in {"open", "discarded"} THEN 0 ELSE 1)

(* "Bot edits message to show result" (ADR-0010:31): the message shows     *)
(* what became of the action, as soon as no tap is being handled, unless   *)
(* the edit failed or the process died; and it never shows another result. *)
MessageShowsResult ==
  \A i \in Ids :
    /\ chat[i] \notin {"none", "buttons"} => chat[i] = fate[i]
    /\ fate[i] # "open" /\ cur.id # i /\ i \notin cutOff => chat[i] = fate[i]

(* "User taps button -> callback -> execute or discard" (ADR-0010:30): a   *)
(* tap that was answered has found the action or found it decided. Answers *)
(* to taps that did nothing are given in two cases only: the tap overtook  *)
(* Request on its way to the map (approval.go:51-56), or a death or a      *)
(* failed call cut the request off.                                        *)
AnswerMeansDecision ==
  \A t \in told : fate[t.id] # "open" \/ t.id \in early \cup cutOff

(* A pending action with a tap on its way is decided, unless the process   *)
(* dies (approval.go:73, 95).                                              *)
TapDecides ==
  \A i \in Ids :
    (i \in pending /\ \E k \in DOMAIN taps : taps[k].id = i) ~> i \notin pending
=============================================================================

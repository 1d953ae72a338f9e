---------------------------- MODULE Unwired_proofs ----------------------------
(***************************************************************************)
(* Proofs about the two components that are complete and that neither      *)
(* program calls yet.                                                      *)
(*                                                                         *)
(* Approval, for all actions and every number of taps and deaths: types,   *)
(* that every action is decided once, that the message says what became of *)
(* it, and what an answer means. Dreaming, for all files, texts, agents    *)
(* and requests: types, that no file loses what the user wrote into it,    *)
(* and that a dream saves what claude meant.                               *)
(***************************************************************************)
EXTENDS Approval, Dreaming, SequenceTheorems, FiniteSetTheorems, NaturalsInduction,
        WellFoundedInduction, TLAPS

(* What the message is edited to is a decision.                            *)
TypeInv ==
  /\ TypeOK
  /\ step = "edit" => fate[cur.id] # "open"

LEMMA TypeInvariant == Spec => []TypeInv
<1> USE ApprovalAssumption DEF TypeInv, TypeOK, loopVars, userVars, history
<1>1. Init => TypeInv
  <2> SUFFICES ASSUME Init PROVE TypeInv
    OBVIOUS
  <2>1. taps \in Seq(Taps)
    BY EmptySeq DEF Init
  <2>2. ran \in [Ids -> Nat] /\ tapped \in 0..MaxTaps /\ deaths \in 0..MaxDeaths
    BY DEF Init
  <2> QED BY <2>1, <2>2 DEF Init
<1>2. TypeInv /\ [Next]_vars => TypeInv'
  <2> SUFFICES ASSUME TypeInv, [Next]_vars PROVE TypeInv'
    OBVIOUS
  <2>1. ASSUME NEW i \in Ids, SendButtons(i) PROVE TypeInv'
    <3>0. /\ asking' \in [Ids -> {"no", "sent", "returned", "failed"}]
          /\ cutOff' \subseteq Ids
      BY <2>1 DEF SendButtons
    <3>1. chat' \in [Ids -> {"none", "buttons", "ok", "failed", "discarded"}]
      BY <2>1 DEF SendButtons
    <3>2. pending' \subseteq {j \in Ids : asking'[j] = "returned"}
      BY <2>1 DEF SendButtons
    <3> QED BY <2>1, <3>0, <3>1, <3>2 DEF SendButtons
  <2>2. ASSUME NEW i \in Ids, Register(i) PROVE TypeInv'
    <3>1. asking' \in [Ids -> {"no", "sent", "returned", "failed"}]
      BY <2>2 DEF Register
    <3>2. pending' \subseteq {j \in Ids : asking'[j] = "returned"}
      BY <2>2 DEF Register, Inserted
    <3> QED BY <2>2, <3>1, <3>2 DEF Register
  <2>3. ASSUME NEW i \in Ids, NEW b \in Buttons, Tap(i, b) PROVE TypeInv'
    <3>1. [id |-> i, button |-> b] \in Taps
      BY DEF Taps
    <3>2. taps' \in Seq(Taps)
      BY <2>3, <3>1, AppendProperties DEF Tap
    <3>3. tapped' \in 0..MaxTaps
      BY <2>3 DEF Tap
    <3> QED BY <2>3, <3>2, <3>3 DEF Tap
  <2>4. CASE Decide
    <3>1. Head(taps) \in Taps /\ Tail(taps) \in Seq(Taps)
      BY <2>4, HeadTailProperties DEF Decide
    <3>2. Head(taps).id \in Ids
      BY <3>1 DEF Taps
    <3>3. /\ pending' \subseteq pending /\ early' \subseteq Ids
          /\ fate' \in [Ids -> {"open", "ok", "failed", "discarded"}]
          /\ step' \in {"act", "edit", "answer"}
          /\ step' = "edit" => fate'[Head(taps).id] = "discarded"
      BY <2>4, <3>2 DEF Decide, Deleted
    <3>4. cur' \in Taps /\ taps' \in Seq(Taps)
      BY <2>4, <3>1 DEF Decide
    <3> QED BY <2>4, <3>3, <3>4 DEF Decide
  <2>5. CASE Act
    <3>1. cur \in Taps /\ cur.id \in Ids
      BY <2>5 DEF Act, Taps
    <3>2. /\ fate' \in [Ids -> {"open", "ok", "failed", "discarded"}]
          /\ fate'[cur.id] # "open"
          /\ ran' \in [Ids -> Nat]
      BY <2>5, <3>1 DEF Act
    <3> QED BY <2>5, <3>1, <3>2 DEF Act
  <2>6. CASE Edit
    <3>1. cur \in Taps /\ cur.id \in Ids
      BY <2>6 DEF Edit, Taps
    <3>2. /\ chat' \in [Ids -> {"none", "buttons", "ok", "failed", "discarded"}]
          /\ cutOff' \subseteq Ids
      <4>1. fate[cur.id] \in {"open", "ok", "failed", "discarded"}
        BY <3>1
      <4>2. cutOff' \subseteq Ids
        BY <2>6, <3>1 DEF Edit
      <4>3. chat' \in [Ids -> {"none", "buttons", "ok", "failed", "discarded"}]
        BY <2>6, <3>1, <4>1 DEF Edit, ResultText
      <4> QED BY <4>2, <4>3
    <3> QED BY <2>6, <3>1, <3>2 DEF Edit
  <2>7. CASE Answer
    BY <2>7 DEF Answer
  <2>8. CASE Die
    <3>1. step # "idle" => cur \in Taps /\ cur.id \in Ids /\ <<cur>> \o taps \in Seq(Taps)
      BY ConcatProperties DEF Taps
    <3>2. taps' \in Seq(Taps)
      BY <2>8, <3>1, EmptySeq DEF Die
    <3>3. cutOff' \subseteq Ids
      BY <2>8, <3>1 DEF Die
    <3>4. asking' \in [Ids -> {"no", "sent", "returned", "failed"}] /\ pending' = {}
      BY <2>8 DEF Die
    <3>5. deaths' \in 0..MaxDeaths
      BY <2>8 DEF Die
    <3> QED BY <2>8, <3>2, <3>3, <3>4, <3>5 DEF Die
  <2>9. CASE UNCHANGED vars
    BY <2>9 DEF vars
  <2> QED BY <2>1, <2>2, <2>3, <2>4, <2>5, <2>6, <2>7, <2>8, <2>9 DEF Next, HandleCallback
<1> QED BY <1>1, <1>2, PTL DEF Spec

(* Every variable has its type in every reachable state; in particular     *)
(* only what Request has put there is pending, and a callback is in hand   *)
(* exactly while HandleCallback runs.                                      *)
THEOREM TypeCorrect == Spec => []TypeOK
<1>1. TypeInv => TypeOK
  BY DEF TypeInv
<1> QED BY <1>1, TypeInvariant, PTL

-----------------------------------------------------------------------------
(* Why a decision is the only one: what is pending, or still to become so, *)
(* is undecided; what is being executed is no longer pending, and it was   *)
(* registered before, so that it never will be again.                      *)
DecisionInv ==
  /\ DecidedOnce
  /\ \A i \in Ids : asking[i] # "returned" \/ i \in pending => fate[i] = "open"
  /\ step = "act" => fate[cur.id] = "open" /\ asking[cur.id] = "returned"
                     /\ cur.id \notin pending

LEMMA DecisionInit == Init => DecisionInv
BY DEF Init, DecisionInv, DecidedOnce

LEMMA DecisionStep == TypeOK /\ DecisionInv /\ [Next]_vars => DecisionInv'
<1> SUFFICES ASSUME TypeOK, DecisionInv, [Next]_vars PROVE DecisionInv'
  OBVIOUS
<1> USE DEF DecisionInv, DecidedOnce, loopVars, userVars, history
<1>0. /\ asking \in [Ids -> {"no", "sent", "returned", "failed"}]
      /\ pending \subseteq Ids
      /\ fate \in [Ids -> {"open", "ok", "failed", "discarded"}]
      /\ ran \in [Ids -> Nat]
      /\ step # "idle" => cur.id \in Ids
  BY DEF TypeOK, Taps
<1>1. ASSUME NEW i \in Ids, SendButtons(i) PROVE DecisionInv'
  BY <1>0, <1>1 DEF SendButtons
<1>2. ASSUME NEW i \in Ids, Register(i) PROVE DecisionInv'
  BY <1>0, <1>2 DEF Register, Inserted
<1>3. ASSUME NEW i \in Ids, NEW b \in Buttons, Tap(i, b) PROVE DecisionInv'
  BY <1>3 DEF Tap
<1>4. CASE Decide
  <2> DEFINE i == Head(taps).id
  <2>1. i \in Ids
    <3>1. taps \in Seq(Taps) /\ taps # <<>>
      BY <1>4 DEF Decide, TypeOK
    <3>2. Head(taps) \in Taps
      BY <3>1, HeadTailProperties
    <3> QED BY <3>2 DEF Taps
  <2>2. CASE i \notin pending
    <3>1. UNCHANGED <<asking, pending, fate, ran>> /\ step' = "answer"
      BY <1>4, <2>2 DEF Decide
    <3> QED BY <3>1
  <2>3. CASE i \in pending
    <3>1. /\ pending' = pending \ {i} /\ cur'.id = i
          /\ UNCHANGED <<asking, ran>>
          /\ step' \in {"act", "edit"}
          /\ step' = "act" => fate' = fate
          /\ fate' = fate \/ fate' = [fate EXCEPT ![i] = "discarded"]
      BY <1>4, <2>3 DEF Decide, Deleted
    <3>2. fate[i] = "open" /\ asking[i] = "returned"
      BY <2>3 DEF TypeOK
    <3> HIDE DEF i
    <3>3. DecidedOnce'
      BY <1>0, <2>1, <3>1, <3>2
    <3>4. \A j \in Ids : asking'[j] # "returned" \/ j \in pending' => fate'[j] = "open"
      BY <1>0, <2>1, <3>1, <3>2
    <3>5. step' = "act" => fate'[cur'.id] = "open" /\ asking'[cur'.id] = "returned"
                           /\ cur'.id \notin pending'
      BY <3>1, <3>2
    <3> QED BY <3>3, <3>4, <3>5
  <2> QED BY <2>2, <2>3
<1>5. CASE Act
  <2> DEFINE i == cur.id
  <2>1. i \in Ids /\ fate[i] = "open" /\ asking[i] = "returned" /\ i \notin pending
    BY <1>0, <1>5 DEF Act
  <2>2. ran[i] = 0
    BY <1>0, <2>1
  <2>3. PICK result \in {"ok", "failed"} : fate' = [fate EXCEPT ![i] = result]
    BY <1>5 DEF Act
  <2>4. ran' = [ran EXCEPT ![i] = @ + 1] /\ step' = "edit" /\ UNCHANGED <<asking, pending>>
    BY <1>5 DEF Act
  <2> HIDE DEF i
  <2> QED BY <1>0, <2>1, <2>2, <2>3, <2>4
<1>6. CASE Edit
  BY <1>6 DEF Edit
<1>7. CASE Answer
  BY <1>7 DEF Answer
<1>8. CASE Die
  BY <1>0, <1>8 DEF Die
<1>9. CASE UNCHANGED vars
  BY <1>9 DEF vars
<1> QED BY <1>1, <1>2, <1>3, <1>4, <1>5, <1>6, <1>7, <1>8, <1>9 DEF Next, HandleCallback

(* However often and whenever the user taps, an action runs at most once,  *)
(* and never after it was rejected.                                        *)
THEOREM OneDecision == Spec => []DecidedOnce
<1>1. DecisionInv => DecidedOnce
  BY DEF DecisionInv
<1> QED BY <1>1, DecisionInit, DecisionStep, TypeCorrect, PTL DEF Spec

-----------------------------------------------------------------------------
(* Between the decision and the edit of its message, HandleCallback has    *)
(* the callback in hand; a message is never edited before the decision.    *)
ShownIsFate(i) == chat[i] \notin {"none", "buttons"} => chat[i] = fate[i] /\ fate[i] # "open"
FateIsShown(i) == fate[i] # "open" /\ i \notin cutOff => chat[i] = fate[i]

MessageInv ==
  \A i \in Ids :
    /\ ShownIsFate(i)
    /\ (step = "edit" => cur.id # i) => FateIsShown(i)

LEMMA MessageInit == Init => MessageInv
BY DEF Init, MessageInv, ShownIsFate, FateIsShown

LEMMA MessageStep ==
  TypeInv /\ DecisionInv /\ MessageInv /\ [Next]_vars => MessageInv'
<1> SUFFICES ASSUME TypeInv, DecisionInv, MessageInv, [Next]_vars, NEW j \in Ids
             PROVE  /\ ShownIsFate(j)'
                    /\ (step' = "edit" => cur'.id # j) => FateIsShown(j)'
  BY DEF MessageInv
<1> USE DEF ShownIsFate, FateIsShown, loopVars, userVars, history
<1>0. /\ chat \in [Ids -> {"none", "buttons", "ok", "failed", "discarded"}]
      /\ fate \in [Ids -> {"open", "ok", "failed", "discarded"}]
      /\ step # "idle" => cur.id \in Ids
      /\ ShownIsFate(j)
      /\ (step = "edit" => cur.id # j) => FateIsShown(j)
  BY DEF TypeInv, TypeOK, Taps, MessageInv
<1>1. ASSUME NEW i \in Ids, SendButtons(i)
      PROVE  ShownIsFate(j)' /\ ((step' = "edit" => cur'.id # j) => FateIsShown(j)')
  <2>1. fate[i] = "open"
    BY <1>1 DEF SendButtons, DecisionInv
  <2> QED BY <1>0, <1>1, <2>1 DEF SendButtons
<1>2. CASE \E i \in Ids : Register(i) \/ \E b \in Buttons : Tap(i, b)
  <2>1. UNCHANGED <<chat, fate, step, cur, cutOff>>
    BY <1>2 DEF Register, Tap
  <2> QED BY <1>0, <2>1
<1>4. CASE Decide
  <2> DEFINE i == Head(taps).id
  <2>1. step = "idle" /\ UNCHANGED <<chat, cutOff>>
    BY <1>4 DEF Decide
  <2>2. CASE i \notin pending
    <3>1. UNCHANGED fate
      BY <1>4, <2>2 DEF Decide
    <3> QED BY <1>0, <2>1, <3>1
  <2>3. CASE i \in pending
    <3>1. i \in Ids /\ fate[i] = "open"
      BY <2>3 DEF TypeInv, TypeOK, DecisionInv
    <3>2. \/ UNCHANGED fate
          \/ step' = "edit" /\ cur'.id = i /\ fate' = [fate EXCEPT ![i] = "discarded"]
      BY <1>4, <2>3 DEF Decide
    <3> HIDE DEF i
    <3>3. CASE UNCHANGED fate
      BY <1>0, <2>1, <3>3
    <3>4. CASE step' = "edit" /\ cur'.id = i /\ fate' = [fate EXCEPT ![i] = "discarded"]
      BY <1>0, <2>1, <3>1, <3>4
    <3> QED BY <3>2, <3>3, <3>4
  <2> QED BY <2>2, <2>3
<1>5. CASE Act
  <2> DEFINE i == cur.id
  <2>1. i \in Ids /\ fate[i] = "open" /\ step = "act"
    BY <1>0, <1>5 DEF Act, DecisionInv
  <2>2. \E result \in {"ok", "failed"} : fate' = [fate EXCEPT ![i] = result]
    BY <1>5 DEF Act
  <2>3. step' = "edit" /\ cur'.id = i /\ UNCHANGED <<chat, cutOff>>
    BY <1>5 DEF Act
  <2> HIDE DEF i
  <2>4. CASE j = i
    BY <1>0, <2>1, <2>2, <2>3, <2>4
  <2>5. CASE j # i
    <3>1. fate'[j] = fate[j]
      BY <1>0, <2>2, <2>5
    <3> QED BY <1>0, <2>1, <2>3, <3>1
  <2> QED BY <2>4, <2>5
<1>6. CASE Edit
  <2>1. cur.id \in Ids /\ fate[cur.id] # "open"
    BY <1>0, <1>6 DEF Edit, TypeInv
  <2> QED BY <1>0, <1>6, <2>1 DEF Edit, ResultText
<1>7. CASE Answer
  <2>1. step # "edit" /\ UNCHANGED <<chat, fate, cutOff>>
    BY <1>7 DEF Answer
  <2> QED BY <1>0, <2>1
<1>8. CASE Die
  <2>1. UNCHANGED <<chat, fate>> /\ cutOff \subseteq cutOff'
        /\ (step = "edit" => cur.id \in cutOff')
    BY <1>8 DEF Die
  <2> QED BY <1>0, <2>1
<1>9. CASE UNCHANGED vars
  BY <1>0, <1>9 DEF vars
<1> QED BY <1>1, <1>2, <1>4, <1>5, <1>6, <1>7, <1>8, <1>9 DEF Next, HandleCallback

(* A message shows the result of its action and no other, once no tap on   *)
(* it is being handled, unless an edit failed or the process died.         *)
THEOREM ResultShown == Spec => []MessageShowsResult
<1>1. MessageInv => MessageShowsResult
  BY DEF MessageInv, ShownIsFate, FateIsShown, MessageShowsResult
<1>2. TypeInv => TypeOK
  BY DEF TypeInv
<1> QED BY <1>1, <1>2, MessageInit, MessageStep, DecisionInit, DecisionStep, TypeInvariant,
           PTL DEF Spec

-----------------------------------------------------------------------------
(* Why an answer means a decision: a tap is on a message that was sent; a  *)
(* failed request was cut off; and a registered action leaves the map by a *)
(* decision, which only Act still has to carry out, or by a death.         *)
Settled(i) == fate[i] # "open" \/ i \in early \cup cutOff

Asked == {t \in Taps : asking[t.id] # "no"}

AnswerInv ==
  /\ taps \in Seq(Asked)
  /\ step # "idle" => cur \in Asked
  /\ step = "answer" => Settled(cur.id)
  /\ \A i \in Ids :
       /\ chat[i] = "buttons" => asking[i] # "no"
       /\ asking[i] = "failed" => i \in cutOff
       /\ asking[i] = "returned" /\ i \notin pending =>
            Settled(i) \/ (step = "act" /\ cur.id = i)
  /\ AnswerMeansDecision

LEMMA AnswerInit == Init => AnswerInv
<1> SUFFICES ASSUME Init PROVE AnswerInv
  OBVIOUS
<1>1. taps \in Seq(Asked)
  BY EmptySeq DEF Init
<1> QED BY <1>1 DEF Init, AnswerInv, AnswerMeansDecision

LEMMA AnswerStep == TypeInv /\ AnswerInv /\ [Next]_vars => AnswerInv'
<1> SUFFICES ASSUME TypeInv, AnswerInv, [Next]_vars PROVE AnswerInv'
  OBVIOUS
<1> USE DEF AnswerMeansDecision, Settled, loopVars, userVars, history
<1>0. /\ asking \in [Ids -> {"no", "sent", "returned", "failed"}]
      /\ pending \subseteq Ids /\ told \subseteq Taps
      /\ fate \in [Ids -> {"open", "ok", "failed", "discarded"}]
      /\ chat \in [Ids -> {"none", "buttons", "ok", "failed", "discarded"}]
      /\ step # "idle" => cur.id \in Ids
      /\ \A t \in Taps : t.id \in Ids
      /\ Asked \subseteq Taps
      /\ step = "edit" => fate[cur.id] # "open"
  BY DEF TypeInv, TypeOK, Taps, Asked
<1>1. ASSUME Asked \subseteq Asked' PROVE taps \in Seq(Asked')
  BY <1>1, SeqMonotonic DEF AnswerInv
(* A step of Request: the taps and the callback in hand stay asked.        *)
<1>2. ASSUME NEW i \in Ids, NEW s \in {"sent", "returned", "failed"},
             asking' = [asking EXCEPT ![i] = s], UNCHANGED <<taps, step, cur>>
      PROVE  taps' \in Seq(Asked') /\ (step' # "idle" => cur' \in Asked')
  <2>1. Asked \subseteq Asked'
    BY <1>0, <1>2 DEF Asked
  <2> QED BY <1>1, <1>2, <2>1 DEF AnswerInv
<1>3. ASSUME NEW i \in Ids, SendButtons(i) PROVE AnswerInv'
  <2>1. taps' \in Seq(Asked') /\ (step' # "idle" => cur' \in Asked')
    BY <1>2, <1>3 DEF SendButtons
  <2>2. /\ UNCHANGED <<pending, step, cur, fate, told, early>>
        /\ cutOff \subseteq cutOff'
        /\ asking[i] = "no" /\ asking'[i] \in {"sent", "failed"}
        /\ asking'[i] = "failed" => i \in cutOff'
        /\ \A j \in Ids : j # i => asking'[j] = asking[j] /\ chat'[j] = chat[j]
    BY <1>0, <1>3 DEF SendButtons
  <2>3. AnswerMeansDecision' /\ (step' = "answer" => Settled(cur.id)')
    BY <2>2 DEF AnswerInv
  <2>4. \A j \in Ids :
          /\ chat'[j] = "buttons" => asking'[j] # "no"
          /\ asking'[j] = "failed" => j \in cutOff'
          /\ asking'[j] = "returned" /\ j \notin pending' =>
               Settled(j)' \/ (step' = "act" /\ cur'.id = j)
    BY <1>0, <2>2 DEF AnswerInv
  <2> QED BY <2>1, <2>3, <2>4 DEF AnswerInv
<1>4. ASSUME NEW i \in Ids, Register(i) PROVE AnswerInv'
  <2>1. taps' \in Seq(Asked') /\ (step' # "idle" => cur' \in Asked')
    BY <1>2, <1>4 DEF Register
  <2> QED BY <1>0, <1>4, <2>1 DEF Register, Inserted, AnswerInv
<1>5. ASSUME NEW i \in Ids, NEW b \in Buttons, Tap(i, b) PROVE AnswerInv'
  <2>1. [id |-> i, button |-> b] \in Asked
    BY <1>5 DEF Tap, AnswerInv, Asked, Taps
  <2>2. Asked' = Asked
    BY <1>5 DEF Tap, Asked
  <2>3. taps' \in Seq(Asked')
    BY <1>5, <2>1, <2>2, AppendProperties DEF Tap, AnswerInv
  <2> QED BY <1>5, <2>2, <2>3 DEF Tap, AnswerInv
<1>6. CASE Decide
  <2>0. PICK c : c = Head(taps)
    OBVIOUS
  <2>1. c \in Asked /\ Tail(taps) \in Seq(Asked)
    BY <1>6, <2>0, HeadTailProperties DEF Decide, AnswerInv
  <2>2. c.id \in Ids /\ asking[c.id] # "no"
    BY <1>0, <2>1 DEF Asked
  <2>3. Asked' = Asked
    BY <1>6 DEF Decide, Asked
  <2>4. /\ step = "idle" /\ cur' = c /\ taps' = Tail(taps)
        /\ UNCHANGED <<asking, chat, told, cutOff>>
    BY <1>6, <2>0 DEF Decide
  <2>5. CASE c.id \in pending
    <3>1. /\ pending' = pending \ {c.id} /\ early' = early
          /\ \/ step' = "act" /\ fate' = fate
             \/ step' = "edit" /\ fate' = [fate EXCEPT ![c.id] = "discarded"]
      BY <1>6, <2>0, <2>5 DEF Decide, Deleted
    <3>2. AnswerMeansDecision'
      BY <1>0, <2>4, <3>1 DEF AnswerInv
    <3>3. \A j \in Ids : asking'[j] = "returned" /\ j \notin pending' =>
            Settled(j)' \/ (step' = "act" /\ cur'.id = j)
      BY <1>0, <2>2, <2>4, <3>1 DEF AnswerInv
    <3> QED BY <2>1, <2>3, <2>4, <3>1, <3>2, <3>3 DEF AnswerInv
  <2>6. CASE c.id \notin pending
    <3>1. /\ UNCHANGED <<pending, fate>> /\ step' = "answer"
          /\ early \subseteq early' /\ (asking[c.id] = "sent" => c.id \in early')
      BY <1>6, <2>0, <2>6 DEF Decide
    <3>2. asking[c.id] \in {"sent", "returned", "failed"}
      BY <1>0, <2>2
    <3>3. Settled(c.id)'
      BY <2>2, <2>4, <2>6, <3>1, <3>2 DEF AnswerInv
    <3> QED BY <1>0, <2>1, <2>3, <2>4, <3>1, <3>3 DEF AnswerInv
  <2> QED BY <2>5, <2>6
<1>7. CASE Act
  <2>1. Asked' = Asked
    BY <1>7 DEF Act, Asked
  <2>2. PICK r \in {"ok", "failed"} : fate' = [fate EXCEPT ![cur.id] = r]
    BY <1>7 DEF Act
  <2>3. step = "act" /\ step' = "edit"
        /\ UNCHANGED <<asking, pending, chat, cur, taps, told, early, cutOff>>
    BY <1>7 DEF Act
  <2>4. \A j \in Ids : Settled(j) \/ j = cur.id => Settled(j)'
    BY <1>0, <2>2, <2>3
  <2> QED BY <1>0, <2>1, <2>3, <2>4 DEF AnswerInv
<1>8. CASE Edit
  <2>1. Asked' = Asked
    BY <1>8 DEF Edit, Asked
  <2>2. /\ step = "edit" /\ step' = "answer" /\ cutOff \subseteq cutOff'
        /\ UNCHANGED <<asking, pending, cur, taps, fate, told, early>>
        /\ \A j \in Ids : chat'[j] = "buttons" => chat[j] = "buttons"
    BY <1>0, <1>8 DEF Edit, ResultText
  <2> QED BY <1>0, <2>1, <2>2 DEF AnswerInv
<1>9. CASE Answer
  <2>1. Asked' = Asked
    BY <1>9 DEF Answer, Asked
  <2> QED BY <1>9, <2>1 DEF Answer, AnswerInv
<1>10. CASE Die
  <2>1. Asked \subseteq Asked'
    BY <1>0, <1>10 DEF Die, Asked
  <2>2. step # "idle" => <<cur>> \o taps \in Seq(Asked)
    BY ConcatProperties DEF AnswerInv
  <2>3. taps' \in Seq(Asked)
    BY <1>10, <2>2, EmptySeq DEF Die, AnswerInv
  <2>4. taps' \in Seq(Asked')
    BY <2>1, <2>3, SeqMonotonic
  <2>5. /\ step' = "idle" /\ pending' = {} /\ UNCHANGED <<chat, fate, told, early>>
        /\ cutOff \subseteq cutOff' /\ pending \subseteq cutOff'
        /\ step # "idle" => cur.id \in cutOff'
        /\ \A j \in Ids : asking[j] = "sent" => j \in cutOff'
        /\ \A j \in Ids : asking'[j] = IF asking[j] = "sent" THEN "failed" ELSE asking[j]
    BY <1>10 DEF Die
  <2>6. \A j \in Ids :
          /\ chat'[j] = "buttons" => asking'[j] # "no"
          /\ asking'[j] = "failed" => j \in cutOff'
          /\ asking'[j] = "returned" => Settled(j)'
    BY <2>5 DEF AnswerInv
  <2> QED BY <2>4, <2>5, <2>6 DEF AnswerInv
<1>11. CASE UNCHANGED vars
  BY <1>11 DEF vars, AnswerInv, Asked
<1> QED BY <1>3, <1>4, <1>5, <1>6, <1>7, <1>8, <1>9, <1>10, <1>11
        DEF Next, HandleCallback

(* A tap that was answered has decided its action or found it decided,     *)
(* unless it overtook the registration or a death or a failed call had cut *)
(* the request off.                                                        *)
THEOREM AnswersDecide == Spec => []AnswerMeansDecision
<1>1. AnswerInv => AnswerMeansDecision
  BY DEF AnswerInv
<1> QED BY <1>1, AnswerInit, AnswerStep, TypeInvariant, PTL DEF Spec

-----------------------------------------------------------------------------
Stages == {"unborn", "init", "live", "loaded", "saving", "gone"}

(* The shapes of the variables. What is in the texts follows below.        *)
ShapesOK ==
  /\ file = [n \in Names |-> file[n]]
  /\ spawned \in 0..MaxSpawns /\ stopped \subseteq 1..spawned
  /\ at \in [Stores -> Stages]
  /\ create \in [Stores -> SUBSET DefaultFiles]
  /\ update = [s \in Stores |-> update[s]]
  /\ writing = [w \in Writers |-> writing[w]]
  /\ got \in [Requests -> {0} \cup Stores]
  /\ meant = [s \in Stores |-> meant[s]]
  /\ due = [n \in Names |-> due[n]]

(* A store exists from its Spawn, a handler has a store whose Init is      *)
(* over, each writer holds the lock of its own store, and no two the same. *)
Placed ==
  /\ \A s \in Stores : at[s] = "unborn" <=> s > spawned
  /\ \A r \in Requests : got[r] # 0 =>
       got[r] <= spawned /\ at[got[r]] # "init"
  /\ \A r \in Requests : writing[r] # NoWrite =>
       got[r] # 0 /\ writing[r].store = got[r]
  /\ \A s \in Stores : writing[s] # NoWrite =>
       at[s] = "saving" /\ writing[s].store = s
  /\ \A v, w \in Writers :
       writing[v] # NoWrite /\ writing[w] # NoWrite /\ writing[v].store = writing[w].store
         => v = w

-----------------------------------------------------------------------------
(* Stores are counted from one, and a request is none.                     *)
LEMMA Bounds ==
  /\ MaxSpawns \in Nat \ {0} /\ MaxDreams \in Nat
  /\ Stores \subseteq Nat \ {0} /\ Stores \cap Requests = {}
  /\ Writers = Requests \cup Stores
  /\ DefaultFiles \subseteq Names
BY DreamingAssumption DEF Stores, Writers

(* What the steps of a Save leave of the shapes.                           *)
LEMMA ShapesTruncate ==
  ASSUME ShapesOK, NEW w \in Writers, NEW s, NEW n, NEW text, Truncate(w, s, n, text),
         UNCHANGED <<spawned, stopped, at, create, got>>,
         update' = [d \in Stores |-> update'[d]],
         meant' = [d \in Stores |-> meant'[d]]
  PROVE  ShapesOK'
<1>1. /\ file' = [file EXCEPT ![n] = <<>>]
      /\ writing' = [writing EXCEPT ![w] = [store |-> s, name |-> n, text |-> text]]
      /\ due' = due \/ due' = [due EXCEPT ![n] = text]
  BY DEF Truncate
<1>2. /\ file' = [m \in Names |-> file'[m]]
      /\ writing' = [v \in Writers |-> writing'[v]]
      /\ due' = [m \in Names |-> due'[m]]
  BY <1>1 DEF ShapesOK
<1> QED BY <1>2 DEF ShapesOK

(* One step per action.                                                    *)
LEMMA ShapesStep ==
  ShapesOK /\ Placed /\ [MemoryNext]_memoryVars => ShapesOK'
<1> SUFFICES ASSUME ShapesOK, Placed, [MemoryNext]_memoryVars PROVE ShapesOK'
  OBVIOUS
<1> USE Bounds DEF agentVars, dreamVars, answerVars, webVars, Goto
<1>1. CASE Spawn
  BY <1>1 DEF Spawn, Stores, Stages, ShapesOK
<1>2. CASE Stop
  BY <1>2 DEF Stop, ShapesOK
<1>3. CASE ProcessDies
  BY <1>3 DEF ProcessDies, Stages, ShapesOK
<1>4. ASSUME NEW s \in Stores,
             Ready(s) \/ DreamLoad(s) \/ Receive(s) \/ DreamFails(s) \/ DreamReturn(s)
      PROVE  ShapesOK'
  <2>1. CASE Ready(s)
    BY <2>1 DEF Ready, Stages, ShapesOK
  <2>2. CASE DreamLoad(s)
    <3>1. /\ UNCHANGED <<file, spawned, stopped, create, update, meant, writing, got, due>>
          /\ at' = [at EXCEPT ![s] = "loaded"]
      BY <2>2 DEF DreamLoad
    <3> QED BY <3>1 DEF Stages, ShapesOK
  <2>3. CASE Receive(s)
    <3>1. /\ UNCHANGED <<file, spawned, stopped, create, writing, got, due>>
          /\ at' = [at EXCEPT ![s] = "live"] \/ at' = [at EXCEPT ![s] = "saving"]
          /\ \E texts : update' = [update EXCEPT ![s] = texts]
          /\ meant' = meant \/ \E texts : meant' = [meant EXCEPT ![s] = texts]
      BY <2>3, ZenonT(60) DEF Receive
    <3>2. at' \in [Stores -> Stages]
      BY <3>1 DEF Stages, ShapesOK
    <3>3. update' = [d \in Stores |-> update'[d]] /\ meant' = [d \in Stores |-> meant'[d]]
      BY <3>1, ZenonT(60) DEF ShapesOK
    <3> QED BY <3>1, <3>2, <3>3 DEF ShapesOK
  <2>4. CASE DreamFails(s)
    BY <2>4 DEF DreamFails, Stages, ShapesOK
  <2>5. CASE DreamReturn(s)
    BY <2>5 DEF DreamReturn, Stages, ShapesOK
  <2> QED BY <1>4, <2>1, <2>2, <2>3, <2>4, <2>5
<1>5. ASSUME NEW s \in Stores, DreamSave(s) PROVE ShapesOK'
  <2>1. PICK n : /\ Truncate(s, s, n, update[s][n])
                 /\ update' = [update EXCEPT ![s] = Restrict(@, DOMAIN @ \ {n})]
                 /\ meant' = [meant EXCEPT ![s] = Restrict(@, DOMAIN @ \ {n})]
    BY <1>5 DEF DreamSave
  <2>2. UNCHANGED <<spawned, stopped, at, create, got>>
    BY <1>5 DEF DreamSave
  <2>3. update' = [d \in Stores |-> update'[d]] /\ meant' = [d \in Stores |-> meant'[d]]
    BY <2>1 DEF ShapesOK
  <2> QED BY <2>1, <2>2, <2>3, ShapesTruncate
<1>6. ASSUME NEW w \in Writers, Write(w) PROVE ShapesOK'
  <2>1. /\ UNCHANGED <<spawned, stopped, at, create, update, meant, due>>
        /\ writing' = [writing EXCEPT ![w] = NoWrite]
        /\ file' \in {file, [file EXCEPT ![writing[w].name] = file'[writing[w].name]]}
        /\ got' = got \/ got' = [got EXCEPT ![w] = 0]
    BY <1>6, ZenonT(60) DEF Write
  <2>2. /\ got' \in [Requests -> {0} \cup Stores]
        /\ file' = [n \in Names |-> file'[n]]
    BY <2>1 DEF ShapesOK
  <2> QED BY <2>1, <2>2 DEF ShapesOK
<1>7. ASSUME NEW r \in Requests, WebGet(r) PROVE ShapesOK'
  BY <1>7 DEF WebGet, ShapesOK
<1>8. ASSUME NEW r \in Requests, NEW n \in Names, NEW text \in UserTexts, WebSave(r, n, text)
      PROVE  ShapesOK'
  <2>1. /\ Truncate(r, got[r], n, text)
        /\ UNCHANGED <<spawned, stopped, at, create, got, update, meant>>
    BY <1>8 DEF WebSave
  <2> QED BY <2>1, ShapesTruncate DEF ShapesOK
<1>9. CASE UNCHANGED memoryVars
  BY <1>9 DEF memoryVars, ShapesOK
<1>10. ASSUME NEW s \in Stores, ReceivePanic(s) PROVE ShapesOK'
  BY <1>3, <1>10 DEF ReceivePanic
<1> QED BY <1>1, <1>2, <1>3, <1>4, <1>5, <1>6, <1>7, <1>8, <1>9, <1>10
        DEF MemoryNext, DreamGoesOn

(* The locks of the stores and the stages of their dreams.                 *)
LEMMA PlacedStep ==
  ShapesOK /\ Placed /\ [MemoryNext]_memoryVars => Placed'
<1> SUFFICES ASSUME ShapesOK, Placed, [MemoryNext]_memoryVars PROVE Placed'
  OBVIOUS
<1> USE DEF agentVars, dreamVars, answerVars, webVars
<1>0. /\ \A s \in Stores : s \in Nat /\ s # 0
      /\ Stores \subseteq Writers /\ Requests \subseteq Writers
      /\ Stores \cap Requests = {}
      /\ spawned \in Nat
  BY Bounds DEF ShapesOK
<1>p. /\ \A s \in Stores : at[s] = "unborn" <=> s > spawned
      /\ \A r \in Requests : got[r] # 0 =>
           got[r] \in Stores /\ got[r] <= spawned /\ at[got[r]] # "init"
      /\ \A s \in Stores : writing[s] # NoWrite =>
           at[s] = "saving" /\ writing[s].store = s
  BY DEF Placed, ShapesOK
<1>1. CASE Spawn
  <2>1. /\ spawned' = spawned + 1 /\ spawned + 1 \in Stores
        /\ at' = [at EXCEPT ![spawned + 1] = "init"]
        /\ UNCHANGED <<writing, got>>
    BY <1>1, Bounds DEF Spawn, Goto, ShapesOK, Stores
  <2>2. \A s \in Stores : at'[s] = IF s = spawned + 1 THEN "init" ELSE at[s]
    BY <2>1 DEF ShapesOK
  <2>3. spawned \in Nat /\ at[spawned + 1] = "unborn"
    BY <1>0, <1>p, <2>1
  <2>5. ASSUME NEW s \in Stores PROVE at'[s] = "unborn" <=> s > spawned'
    <3>1. s > spawned + 1 <=> s > spawned /\ s # spawned + 1
      BY <1>0
    <3> QED BY <1>p, <2>1, <2>2, <3>1
  <2>6. \A r \in Requests : got[r] # 0 => got[r] <= spawned' /\ at'[got[r]] # "init"
    BY <1>0, <1>p, <2>1, <2>2
  <2>7. \A s \in Stores : writing[s] # NoWrite => at'[s] = "saving"
    BY <1>p, <2>2, <2>3
  <2> QED BY <2>1, <2>5, <2>6, <2>7 DEF Placed
<1>2. CASE Stop
  BY <1>2 DEF Stop, Placed
<1>3. CASE ProcessDies
  <2>1. /\ \A s \in Stores : at'[s] = IF s <= spawned THEN "gone" ELSE "unborn"
        /\ \A w \in Writers : writing'[w] = NoWrite
        /\ spawned' = spawned /\ \A r \in Requests : got'[r] = 0
    BY <1>3 DEF ProcessDies
  <2>2. \A s \in Stores : at'[s] = "unborn" <=> s > spawned
    BY <1>0, <2>1
  <2> QED BY <1>0, <2>1, <2>2 DEF Placed
<1>4. ASSUME NEW s \in Stores,
             Ready(s) \/ DreamLoad(s) \/ Receive(s) \/ DreamFails(s) \/ DreamReturn(s)
      PROVE  Placed'
  <2>1. /\ UNCHANGED <<spawned, writing, got>>
        /\ at[s] \in {"init", "live", "loaded", "saving"} /\ writing[s] = NoWrite
        /\ at' \in {[at EXCEPT ![s] = p] : p \in {"live", "loaded", "saving"}}
    BY <1>4, <1>p DEF Ready, DreamLoad, Receive, DreamFails, DreamReturn, Goto
  <2>2. /\ \A d \in Stores : d # s => at'[d] = at[d]
        /\ at'[s] \in {"live", "loaded", "saving"}
    BY <2>1 DEF ShapesOK
  <2>3. \A r \in Requests : got[r] # 0 => at'[got[r]] # "init"
    BY <1>p, <2>2
  <2>4. \A d \in Stores : writing[d] # NoWrite => at'[d] = "saving"
    BY <1>p, <2>1, <2>2
  <2>5. \A d \in Stores : at'[d] = "unborn" <=> at[d] = "unborn"
    BY <2>1, <2>2
  <2> QED BY <2>1, <2>3, <2>4, <2>5 DEF Placed
<1>5. ASSUME NEW w \in Writers, NEW s \in Stores, Free(s), at' = at, spawned' = spawned, got' = got,
             \E n, text :
               /\ writing' = [writing EXCEPT ![w] = [store |-> s, name |-> n, text |-> text]]
               /\ w \in Requests => got[w] = s
               /\ w \in Stores => w = s /\ at[s] = "saving"
      PROVE  Placed'
  <2>1. PICK n, text :
          /\ writing' = [writing EXCEPT ![w] = [store |-> s, name |-> n, text |-> text]]
          /\ w \in Requests => got[w] = s
          /\ w \in Stores => w = s /\ at[s] = "saving"
    BY <1>5
  <2>2. s # 0
    BY <1>0
  <2>3. \A v \in Writers : writing'[v] = IF v = w THEN [store |-> s, name |-> n, text |-> text]
                                                  ELSE writing[v]
    BY <2>1 DEF ShapesOK
  <2>4. \A v \in Writers : writing[v].store # s
    BY <1>5 DEF Free
  <2> QED BY <1>0, <1>5, <2>1, <2>2, <2>3, <2>4 DEF Placed
<1>6. ASSUME NEW s \in Stores, DreamSave(s) PROVE Placed'
  <2>1. PICK n \in DOMAIN update[s] : Truncate(s, s, n, update[s][n])
    BY <1>6 DEF DreamSave
  <2>2. s \in Writers /\ s \notin Requests /\ at[s] = "saving"
        /\ UNCHANGED <<spawned, at, got>>
    BY <1>0, <1>6 DEF DreamSave
  <2> QED BY <1>0, <1>5, <2>1, <2>2 DEF Truncate
<1>7. ASSUME NEW w \in Writers, Write(w) PROVE Placed'
  <2>1. /\ UNCHANGED <<spawned, at>>
        /\ writing' = [writing EXCEPT ![w] = NoWrite]
        /\ got' = got \/ got' = [got EXCEPT ![w] = 0]
    BY <1>7 DEF Write
  <2>2. \A v \in Writers : writing'[v] # NoWrite =>
          v # w /\ writing'[v] = writing[v] /\ writing[v] # NoWrite
    BY <2>1 DEF ShapesOK
  <2>3. /\ \A r \in Requests : got'[r] # 0 => got'[r] = got[r]
        /\ \A r \in Requests : r # w => got'[r] = got[r]
    BY <2>1 DEF ShapesOK
  <2> QED BY <1>0, <2>1, <2>2, <2>3 DEF Placed
<1>8. ASSUME NEW r \in Requests, WebGet(r) PROVE Placed'
  <2>1. PICK s \in Stores : Current(s) /\ at[s] # "init" /\ got' = [got EXCEPT ![r] = s]
    BY <1>8 DEF WebGet
  <2>2. UNCHANGED <<spawned, at, writing>> /\ got[r] = 0
    BY <1>8 DEF WebGet
  <2>3. \A q \in Requests : got'[q] = IF q = r THEN s ELSE got[q]
    BY <2>1 DEF ShapesOK
  <2>4. s <= spawned
    BY <1>0, <2>1 DEF Current
  <2>5. \A q \in Requests : writing[q] # NoWrite => q # r
    BY <2>2 DEF Placed
  <2> QED BY <2>1, <2>2, <2>3, <2>4, <2>5 DEF Placed
<1>9. ASSUME NEW r \in Requests, NEW n \in Names, NEW text \in UserTexts, WebSave(r, n, text)
      PROVE  Placed'
  <2>1. got[r] \in Stores
    BY <1>9 DEF WebSave, ShapesOK
  <2>2. /\ Free(got[r]) /\ UNCHANGED <<at, spawned, got>>
        /\ writing' = [writing EXCEPT ![r] = [store |-> got[r], name |-> n, text |-> text]]
    BY <1>9 DEF WebSave, Truncate
  <2>3. r \in Writers /\ r \notin Stores
    BY <1>0
  <2> QED BY <1>5, <2>1, <2>2, <2>3
<1>10. CASE UNCHANGED memoryVars
  BY <1>10 DEF memoryVars, Placed
<1>11. ASSUME NEW s \in Stores, ReceivePanic(s) PROVE Placed'
  BY <1>3, <1>11 DEF ReceivePanic
<1> QED BY <1>1, <1>2, <1>3, <1>4, <1>6, <1>7, <1>8, <1>9, <1>10, <1>11
        DEF MemoryNext, DreamGoesOn, Writers

-----------------------------------------------------------------------------
(* What claude renders and what the parser makes of it.                    *)

(* A set of numbers that is not empty has a least element.                 *)
LEMMA LeastOf ==
  ASSUME NEW T \in SUBSET Nat, T # {}
  PROVE  \E m \in T : \A x \in T : m <= x
<1> DEFINE R == OpToRel(<, Nat)
<1>1. IsWellFoundedOn(R, Nat)
  BY NatLessThanWellFounded, Zenon
<1>2. PICK m \in T : \A x \in T : <<x, m>> \notin R
  BY <1>1, WFMin, Zenon
<1>3. ASSUME NEW x \in T PROVE m <= x
  <2>1. m \in Nat /\ x \in Nat /\ ~(x < m)
    BY <1>2 DEF OpToRel
  <2> QED BY <2>1
<1> QED BY <1>3

(* One turn of the fold that renders the sections, given by f for smaller  *)
(* sets, and functions on the sets of at most k names that satisfy it.     *)
NextOf(ns) == CHOOSE n \in ns : TRUE
SectionStep(texts, f, ns) ==
  IF ns = {} THEN <<>>
  ELSE f[ns \ {NextOf(ns)}] \o <<FILE, NextOf(ns), CLOSE>> \o texts[NextOf(ns)]

AtMost(names, k) == {ns \in SUBSET names : Cardinality(ns) <= k}
FoldsUp(f, texts, names, k) == f = [ns \in AtMost(names, k) |-> SectionStep(texts, f, ns)]

SectionsOf(texts, names) ==
  CHOOSE f : f = [ns \in SUBSET names |-> SectionStep(texts, f, ns)]

(* What the fold does is this function.                                    *)
LEMMA SectionsFold ==
  ASSUME NEW texts, NEW names
  PROVE Sections(texts, names) = SectionsOf(texts, names)[names]
BY ZenonT(60) DEF Sections, FoldSet, MapThenFoldSet, SectionsOf, SectionStep, NextOf

(* A set loses one name with every turn.                                   *)
LEMMA OneLess ==
  ASSUME NEW names, IsFiniteSet(names), NEW ns \in SUBSET names, ns # {}
  PROVE  /\ NextOf(ns) \in ns
         /\ ns \ {NextOf(ns)} \in SUBSET names
         /\ Cardinality(ns) \in Nat
         /\ Cardinality(ns \ {NextOf(ns)}) = Cardinality(ns) - 1
<1>1. NextOf(ns) \in ns
  BY DEF NextOf
<1>2. IsFiniteSet(ns)
  BY FS_Subset
<1>3. Cardinality(ns) \in Nat /\ Cardinality(ns \ {NextOf(ns)}) = Cardinality(ns) - 1
  BY <1>1, <1>2, FS_CardinalityType, FS_RemoveElement
<1> QED BY <1>1, <1>3

(* For every bound on the number of names there is such a function, by a   *)
(* least bound for which there is none.                                    *)
LEMMA FoldsExist ==
  ASSUME NEW texts, NEW names, IsFiniteSet(names)
  PROVE  \A k \in Nat : \E f : FoldsUp(f, texts, names, k)
<1> DEFINE T == {k \in Nat : ~\E f : FoldsUp(f, texts, names, k)}
<1> SUFFICES ASSUME T # {} PROVE FALSE
  OBVIOUS
<1>1. PICK k \in T : \A m \in T : k <= m
  <2>1. T \in SUBSET Nat
    OBVIOUS
  <2> HIDE DEF T
  <2> QED BY <2>1, LeastOf
<1>2. k \in Nat /\ ~\E f : FoldsUp(f, texts, names, k)
  BY <1>1
<1>3. ASSUME NEW ns \in SUBSET names, Cardinality(ns) <= 0 PROVE ns = {}
  <2> SUFFICES ASSUME ns # {} PROVE FALSE
    OBVIOUS
  <2>1. IsFiniteSet(ns)
    BY FS_Subset
  <2>2. Cardinality(ns) = 0
    BY <1>3, <2>1, FS_CardinalityType
  <2> QED BY <2>1, <2>2, FS_EmptySet
<1>4. k # 0
  <2> SUFFICES ASSUME k = 0 PROVE FALSE
    OBVIOUS
  <2> DEFINE f == [ns \in AtMost(names, 0) |-> <<>>]
  <2>1. \A ns \in AtMost(names, 0) : SectionStep(texts, f, ns) = <<>>
    BY <1>3 DEF AtMost, SectionStep
  <2>2. f = [ns \in AtMost(names, 0) |-> SectionStep(texts, f, ns)]
    BY <2>1
  <2> HIDE DEF f
  <2> QED BY <1>2, <2>2 DEF FoldsUp
<1>5. k - 1 \in Nat
  BY <1>2, <1>4
<1>6. PICK g : FoldsUp(g, texts, names, k - 1)
  <2>1. k - 1 \notin T
    <3> HIDE DEF T
    <3> QED BY <1>1, <1>2, <1>5
  <2> QED BY <1>5, <2>1
<1> DEFINE f == [ns \in AtMost(names, k) |-> SectionStep(texts, g, ns)]
<1>7. ASSUME NEW ns \in AtMost(names, k) PROVE SectionStep(texts, g, ns) = SectionStep(texts, f, ns)
  <2>1. CASE ns = {}
    BY <2>1 DEF SectionStep
  <2>2. CASE ns # {}
    <3> DEFINE less == ns \ {NextOf(ns)}
    <3>1. ns \in SUBSET names /\ Cardinality(ns) <= k
      BY DEF AtMost
    <3>2. /\ less \in SUBSET names /\ Cardinality(ns) \in Nat
          /\ Cardinality(less) = Cardinality(ns) - 1
      BY <2>2, <3>1, OneLess
    <3>3. Cardinality(less) <= k /\ Cardinality(less) <= k - 1
      BY <1>2, <3>1, <3>2
    <3>4. less \in AtMost(names, k) /\ less \in AtMost(names, k - 1)
      BY <3>2, <3>3 DEF AtMost
    <3>5. f[less] = g[less]
      BY <1>6, <3>4 DEF FoldsUp
    <3> HIDE DEF f
    <3> QED BY <2>2, <3>5 DEF SectionStep
  <2> QED BY <2>1, <2>2
<1>8. f = [ns \in AtMost(names, k) |-> SectionStep(texts, f, ns)]
  BY <1>7
<1> HIDE DEF f
<1> QED BY <1>2, <1>8 DEF FoldsUp

(* So the recursive function that the fold declares satisfies its equation.*)
LEMMA SectionsAre ==
  ASSUME NEW texts, NEW names, IsFiniteSet(names), NEW ns \in SUBSET names
  PROVE  SectionsOf(texts, names)[ns] = SectionStep(texts, SectionsOf(texts, names), ns)
<1> DEFINE k == Cardinality(names)
<1>1. k \in Nat
  BY FS_CardinalityType
<1>2. \A m \in SUBSET names : Cardinality(m) <= k
  BY FS_Subset
<1>3. AtMost(names, k) = SUBSET names
  BY <1>2 DEF AtMost
<1>4. \E f : FoldsUp(f, texts, names, k)
  BY <1>1, FoldsExist
<1>5. \E f : f = [m \in SUBSET names |-> SectionStep(texts, f, m)]
  BY <1>3, <1>4 DEF FoldsUp
<1>6. SectionsOf(texts, names) =
        [m \in SUBSET names |-> SectionStep(texts, SectionsOf(texts, names), m)]
  BY <1>5, ZenonT(60) DEF SectionsOf
<1> HIDE DEF k
<1> QED BY <1>6

(* Names and what the user and claude write are made of tokens.            *)
LEMMA TokensAre ==
  /\ Names \subseteq Tokens
  /\ {START, END, FILE, CLOSE, NONE} \subseteq Tokens
  /\ UserTexts \cup ClaudeTexts \cup Prefaces \subseteq Seq(Tokens)
  /\ IsFiniteSet(Names)
  /\ \A n \in Names : n \notin {START, END, FILE, CLOSE, NONE}
<1>1. ASSUME NEW text \in UserTexts \cup ClaudeTexts \cup Prefaces PROVE text \in Seq(Tokens)
  <2>1. text \in Seq(Range(text))
    BY DreamingAssumption
  <2>2. Range(text) \subseteq Tokens
    BY DEF Tokens
  <2> QED BY <2>1, <2>2
<1> QED BY <1>1, DreamingAssumption DEF Tokens

(* The section of file n begins behind the marker at place i.              *)
SectionAt(body, i, n, text) ==
  /\ i + 2 + Len(text) <= Len(body)
  /\ body[i + 1] = n /\ body[i + 2] = CLOSE
  /\ \A j \in 1..Len(text) : body[i + 2 + j] = text[j]
  /\ i + 2 + Len(text) = Len(body) \/ body[i + 3 + Len(text)] = FILE

(* A body of sections and nothing else.                                    *)
Sectioned(body, texts, names) ==
  /\ \A i \in DOMAIN body : body[i] \notin {START, END, NONE}
  /\ body = <<>> \/ body[1] = FILE
  /\ \A i \in DOMAIN body : body[i] = FILE => \E n \in names : SectionAt(body, i, n, texts[n])

(* A text with one more section at its end.                                *)
LEMMA SectionAdded ==
  ASSUME NEW texts, NEW names \in SUBSET Names, \A n \in names : texts[n] \in Seq(Tokens),
         NEW n \in names, ~HasMarker(texts[n]),
         NEW body \in Seq(Tokens), Sectioned(body, texts, names)
  PROVE  Sectioned(body \o <<FILE, n, CLOSE>> \o texts[n], texts, names)
<1> DEFINE text == texts[n]
           new == body \o <<FILE, n, CLOSE>> \o text
<1>1. /\ text \in Seq(Tokens) /\ n \in Names
      /\ n \notin {START, END, FILE, CLOSE, NONE}
      /\ \A j \in 1..Len(text) : text[j] \notin {START, END, FILE, NONE}
  BY TokensAre DEF HasMarker
<1>2. /\ new \in Seq(Tokens) /\ Len(body) \in Nat /\ Len(text) \in Nat
      /\ Len(new) = Len(body) + 3 + Len(text)
      /\ \A i \in 1..Len(body) : new[i] = body[i]
      /\ new[Len(body) + 1] = FILE /\ new[Len(body) + 2] = n /\ new[Len(body) + 3] = CLOSE
      /\ \A j \in 1..Len(text) : new[Len(body) + 3 + j] = text[j]
  <2>1. <<FILE, n, CLOSE>> \in Seq(Tokens)
    BY <1>1, TokensAre
  <2>2. /\ body \o <<FILE, n, CLOSE>> \in Seq(Tokens)
        /\ Len(body \o <<FILE, n, CLOSE>>) = Len(body) + 3
        /\ \A i \in 1..Len(body) : (body \o <<FILE, n, CLOSE>>)[i] = body[i]
        /\ (body \o <<FILE, n, CLOSE>>)[Len(body) + 1] = FILE
        /\ (body \o <<FILE, n, CLOSE>>)[Len(body) + 2] = n
        /\ (body \o <<FILE, n, CLOSE>>)[Len(body) + 3] = CLOSE
    BY <2>1
  <2>3. Len(body) \in Nat /\ Len(text) \in Nat
    BY <1>1
  <2> DEFINE front == body \o <<FILE, n, CLOSE>>
  <2> HIDE DEF text, front
  <2> QED BY <1>1, <2>2, <2>3
<1> HIDE DEF text, new
<1>n. Len(body) \in Nat /\ Len(text) \in Nat
  BY <1>2
<1>3. ASSUME NEW i \in 1..Len(new)
      PROVE  \/ i \in 1..Len(body)
             \/ i = Len(body) + 1 \/ i = Len(body) + 2 \/ i = Len(body) + 3
             \/ \E j \in 1..Len(text) : i = Len(body) + 3 + j
  <2>1. i \in Nat /\ i >= 1 /\ i <= Len(body) + 3 + Len(text)
    BY <1>2
  <2>2. i > Len(body) + 3 => i - (Len(body) + 3) \in 1..Len(text)
                             /\ i = Len(body) + 3 + (i - (Len(body) + 3))
    BY <1>n, <2>1
  <2>3. CASE i > Len(body) + 3
    BY <2>2, <2>3
  <2>4. CASE ~(i > Len(body) + 3)
    BY <1>n, <2>1, <2>4
  <2> QED BY <2>3, <2>4
<1>4. DOMAIN body = 1..Len(body) /\ DOMAIN new = 1..Len(new)
  BY <1>2
<1>5. ASSUME NEW i \in DOMAIN new PROVE new[i] \notin {START, END, NONE}
  <2>1. CASE i \in 1..Len(body)
    BY <1>2, <1>4, <2>1 DEF Sectioned
  <2>2. CASE i = Len(body) + 1 \/ i = Len(body) + 2 \/ i = Len(body) + 3
    BY <1>1, <1>2, <2>2 DEF FILE, CLOSE, START, END, NONE
  <2>3. ASSUME NEW j \in 1..Len(text), i = Len(body) + 3 + j PROVE new[i] \notin {START, END, NONE}
    BY <1>1, <1>2, <2>3, ZenonT(60)
  <2> QED BY <1>3, <1>4, <2>1, <2>2, <2>3
<1>6. new[1] = FILE
  <2>1. CASE body = <<>>
    BY <1>2, <2>1
  <2>2. CASE body # <<>>
    BY <1>2, <2>2, SMTT(60) DEF Sectioned
  <2> QED BY <2>1, <2>2
<1>7. ASSUME NEW i \in DOMAIN new, new[i] = FILE
      PROVE  \E m \in names : SectionAt(new, i, m, texts[m])
  <2>1. CASE i \in 1..Len(body)
    <3>1. PICK m \in names : SectionAt(body, i, m, texts[m])
      BY <1>2, <1>4, <1>7, <2>1 DEF Sectioned
    <3> DEFINE l == Len(texts[m])
    <3>2. l \in Nat
      OBVIOUS
    <3> HIDE DEF l
    <3>3. /\ i + 2 + l <= Len(body)
          /\ body[i + 1] = m /\ body[i + 2] = CLOSE
          /\ \A j \in 1..l : body[i + 2 + j] = texts[m][j]
          /\ i + 2 + l = Len(body) \/ body[i + 3 + l] = FILE
      BY <3>1 DEF SectionAt, l
    <3>i. i \in Nat /\ i >= 1 /\ i <= Len(body)
      BY <1>n, <2>1
    <3>4. /\ i + 2 + l <= Len(new)
          /\ new[i + 1] = m /\ new[i + 2] = CLOSE
      <4>1. /\ i + 1 \in 1..Len(body) /\ i + 2 \in 1..Len(body)
            /\ i + 2 + l <= Len(body) + 3 + Len(text)
        BY <1>n, <3>2, <3>3, <3>i, SMTT(60)
      <4> QED BY <1>2, <3>3, <4>1
    <3>5. ASSUME NEW j \in 1..l PROVE new[i + 2 + j] = texts[m][j]
      <4>1. i + 2 + j \in 1..Len(body)
        BY <1>n, <3>2, <3>3, <3>i, SMTT(60)
      <4> QED BY <1>2, <3>3, <4>1
    <3>a. \A x, y, z \in Nat :
            /\ x + 2 + y = z => z + 1 = x + 3 + y
            /\ x + 2 + y # z /\ x + 2 + y <= z => x + 3 + y \in 1..z
      OBVIOUS
    <3>6. new[i + 3 + l] = FILE
      <4>1. CASE i + 2 + l = Len(body)
        <5>1. Len(body) + 1 = i + 3 + l
          BY <1>n, <3>2, <3>i, <3>a, <4>1, ZenonT(60)
        <5> QED BY <1>2, <5>1
      <4>2. CASE i + 2 + l # Len(body)
        <5>1. i + 3 + l \in 1..Len(body)
          BY <1>n, <3>2, <3>3, <3>i, <3>a, <4>2
        <5> QED BY <1>2, <3>3, <4>2, <5>1
      <4> QED BY <4>1, <4>2
    <3> QED BY <3>4, <3>5, <3>6 DEF SectionAt, l
  <2>2. CASE i = Len(body) + 1
    <3>1. SectionAt(new, i, n, text)
      <4>1. /\ i + 2 + Len(text) = Len(new)
            /\ i + 1 = Len(body) + 2 /\ i + 2 = Len(body) + 3
        BY <1>2, <2>2
      <4>2. \A j \in 1..Len(text) : new[i + 2 + j] = text[j]
        BY <1>2, <4>1
      <4> QED BY <1>2, <4>1, <4>2, SMTT(60) DEF SectionAt
    <3> QED BY <3>1 DEF text
  <2>3. ~(i = Len(body) + 2 \/ i = Len(body) + 3)
    BY <1>1, <1>2, <1>7 DEF CLOSE, FILE
  <2>4. ASSUME NEW j \in 1..Len(text), i = Len(body) + 3 + j PROVE FALSE
    <3>1. new[i] = text[j] /\ text[j] # FILE
      BY <1>1, <1>2, <2>4
    <3> QED BY <1>7, <3>1
  <2> QED BY <1>3, <1>4, <2>1, <2>2, <2>3, <2>4
<1>8. Sectioned(new, texts, names)
  BY <1>5, <1>6, <1>7 DEF Sectioned
<1> QED BY <1>8 DEF new, text

(* What the sections of some files are, when the texts hold no marker.     *)
RendersAs(body, texts, names) ==
  /\ body \in Seq(Tokens)
  /\ (\A n \in names : ~HasMarker(texts[n])) => Sectioned(body, texts, names)

(* A least set of names for which it fails is not empty, and the set       *)
(* without its next name is smaller.                                       *)
LEMMA SectionsRender ==
  ASSUME NEW texts, NEW names \in SUBSET Names, \A n \in names : texts[n] \in Seq(Tokens)
  PROVE  RendersAs(Sections(texts, names), texts, names)
<1> DEFINE F == SectionsOf(texts, names)
           T == {Cardinality(ns) : ns \in {m \in SUBSET names : ~RendersAs(F[m], texts, names)}}
<1>1. IsFiniteSet(names)
  BY TokensAre, FS_Subset
<1>2. T = {}
  <2> SUFFICES ASSUME T # {} PROVE FALSE
    OBVIOUS
  <2>1. T \subseteq Nat
    BY <1>1, FS_Subset, FS_CardinalityType
  <2>2. PICK k \in T : \A x \in T : k <= x
    <3> HIDE DEF T
    <3> QED BY <2>1, LeastOf
  <2>3. PICK ns \in SUBSET names : k = Cardinality(ns) /\ ~RendersAs(F[ns], texts, names)
    BY <2>2
  <2>4. F[ns] = SectionStep(texts, F, ns)
    BY <1>1, SectionsAre
  <2>5. CASE ns = {}
    <3>1. F[ns] = <<>>
      BY <2>4, <2>5 DEF SectionStep
    <3>2. RendersAs(<<>>, texts, names)
      BY DEF RendersAs, Sectioned
    <3> QED BY <2>3, <3>1, <3>2
  <2>6. CASE ns # {}
    <3> DEFINE n == NextOf(ns)
               less == ns \ {n}
    <3>1. /\ n \in names /\ less \in SUBSET names /\ Cardinality(ns) \in Nat
          /\ Cardinality(less) = Cardinality(ns) - 1
      BY <1>1, <2>6, OneLess
    <3>2. RendersAs(F[less], texts, names)
      <4> SUFFICES ASSUME ~RendersAs(F[less], texts, names) PROVE FALSE
        OBVIOUS
      <4>1. Cardinality(less) \in T
        BY <3>1
      <4>2. k <= Cardinality(less)
        BY <2>2, <4>1
      <4> HIDE DEF less
      <4> QED BY <2>3, <3>1, <4>2
    <3>3. F[ns] = F[less] \o <<FILE, n, CLOSE>> \o texts[n]
      BY <2>4, <2>6 DEF SectionStep
    <3> HIDE DEF n, less, F
    <3>4. F[less] \o <<FILE, n, CLOSE>> \o texts[n] \in Seq(Tokens)
      <4>1. <<FILE, n, CLOSE>> \in Seq(Tokens)
        BY <3>1, TokensAre
      <4> QED BY <3>1, <3>2, <4>1 DEF RendersAs
    <3>5. ASSUME \A m \in names : ~HasMarker(texts[m])
          PROVE  Sectioned(F[less] \o <<FILE, n, CLOSE>> \o texts[n], texts, names)
      BY <3>1, <3>2, <3>5, SectionAdded DEF RendersAs
    <3> QED BY <2>3, <3>3, <3>4, <3>5 DEF RendersAs
  <2> QED BY <2>5, <2>6
<1>3. RendersAs(F[names], texts, names)
  <2>1. names \in SUBSET names
    OBVIOUS
  <2> QED BY <1>2, <2>1
<1> QED BY <1>3, SectionsFold

(* The operators that the parser is built from: the least and the greatest *)
(* number of a set, a slice, a part.                                       *)
LEMMA MinOf ==
  ASSUME NEW S \in SUBSET Nat, S # {}
  PROVE  Min(S) \in S /\ \A x \in S : Min(S) <= x
BY LeastOf, Zenon DEF Min

(* A bounded set of numbers that is not empty has its maximum.             *)
LEMMA MaxOfBounded ==
  ASSUME NEW S \in SUBSET Nat, S # {}, NEW n \in Nat, \A x \in S : x <= n
  PROVE  Max(S) \in S /\ \A x \in S : x <= Max(S)
<1> DEFINE T == {n - x : x \in S}
<1>1. \A x \in S : x \in Nat /\ n - x \in Nat
  OBVIOUS
<1>2. T \in SUBSET Nat /\ T # {}
  BY <1>1
<1>3. PICK m \in T : \A y \in T : m <= y
  <2> HIDE DEF T
  <2> QED BY <1>2, LeastOf
<1>4. PICK x \in S : m = n - x
  BY <1>3
<1>5. ASSUME NEW y \in S PROVE x >= y
  <2>1. n - y \in T
    OBVIOUS
  <2>2. m <= n - y
    BY <1>3, <2>1
  <2> HIDE DEF T
  <2> QED BY <1>1, <1>4, <2>2
<1>6. Max(S) \in S /\ \A y \in S : Max(S) >= y
  BY <1>5, Zenon DEF Max
<1> QED BY <1>6

(* A slice of a text, which may be empty.                                  *)
LEMMA SliceOf ==
  ASSUME NEW text \in Seq(Tokens), NEW a \in Nat, NEW b \in Nat, a >= 1, b <= Len(text)
  PROVE  /\ SubSeq(text, a, b) \in Seq(Tokens)
         /\ Len(SubSeq(text, a, b)) = IF a <= b THEN b - a + 1 ELSE 0
         /\ \A j \in 1..Len(SubSeq(text, a, b)) : SubSeq(text, a, b)[j] = text[a + j - 1]
BY SMTT(60)

(* Two texts, one behind the other.                                        *)
LEMMA JoinOf ==
  ASSUME NEW front \in Seq(Tokens), NEW back \in Seq(Tokens)
  PROVE  /\ front \o back \in Seq(Tokens)
         /\ Len(front \o back) = Len(front) + Len(back)
         /\ \A i \in 1..Len(front) : (front \o back)[i] = front[i]
         /\ \A i \in 1..Len(back) : (front \o back)[Len(front) + i] = back[i]
OBVIOUS

(* Where the parts of a body begin, and where one ends.                    *)
LEMMA PartEnds ==
  ASSUME NEW body \in Seq(Tokens), NEW i \in PartStarts(body)
  PROVE  LET ends == {j \in PartStarts(body) : j > i} \cup {Len(body) + 1} IN
         /\ i \in Nat /\ i <= Len(body)
         /\ ends \in SUBSET Nat
         /\ Min(ends) \in ends /\ \A x \in ends : Min(ends) <= x
         /\ Part(body, i) = SubSeq(body, i + 1, Min(ends) - 1)
         /\ Min(ends) \in Nat /\ Min(ends) > i /\ Min(ends) <= Len(body) + 1
<1> DEFINE ends == {j \in PartStarts(body) : j > i} \cup {Len(body) + 1}
<1>1. Len(body) \in Nat /\ DOMAIN body = 1..Len(body)
  OBVIOUS
<1>2. \A j \in PartStarts(body) : j \in Nat /\ j <= Len(body)
  BY <1>1 DEF PartStarts
<1>3. ends \in SUBSET Nat /\ Len(body) + 1 \in ends /\ \A j \in ends : j > i
  BY <1>1, <1>2
<1> HIDE DEF ends
<1>4. Min(ends) \in ends /\ \A x \in ends : Min(ends) <= x
  BY <1>3, MinOf
<1>5. Min(ends) \in Nat /\ Min(ends) > i /\ Min(ends) <= Len(body) + 1
  BY <1>3, <1>4
<1> QED BY <1>2, <1>3, <1>4, <1>5 DEF ends, Part

(* A part of a text is a text.                                             *)
LEMMA PartTyped ==
  ASSUME NEW body \in Seq(Tokens), NEW i \in PartStarts(body)
  PROVE  Part(body, i) \in Seq(Tokens)
<1> DEFINE ends == {j \in PartStarts(body) : j > i} \cup {Len(body) + 1}
           e == Min(ends)
<1>1. /\ i \in Nat /\ e \in Nat /\ e > i /\ e <= Len(body) + 1
      /\ Part(body, i) = SubSeq(body, i + 1, e - 1)
  BY PartEnds
<1> HIDE DEF e
<1>2. Len(body) \in Nat
  OBVIOUS
<1>3. e - 1 \in Nat /\ e - 1 <= Len(body) /\ i + 1 \in Nat /\ i + 1 >= 1
  BY <1>1, <1>2
<1>4. SubSeq(body, i + 1, e - 1) \in Seq(Tokens)
  BY <1>3, SliceOf
<1> QED BY <1>1, <1>4

(* Each part of a body of sections is the section of a file, or empty.     *)
LEMMA PartIsSection ==
  ASSUME NEW texts, NEW names \in SUBSET Names, \A n \in names : texts[n] \in Seq(Tokens),
         \A n \in names : ~HasMarker(texts[n]),
         NEW body \in Seq(Tokens), Sectioned(body, texts, names),
         NEW i \in PartStarts(body)
  PROVE  \/ Part(body, i) = <<>>
         \/ \E n \in names : Part(body, i) = <<n, CLOSE>> \o texts[n]
<1> DEFINE ends == {j \in PartStarts(body) : j > i} \cup {Len(body) + 1}
           e == Min(ends)
<1>1. /\ i \in Nat /\ i <= Len(body) /\ e \in Nat /\ e \in ends /\ \A x \in ends : e <= x
      /\ ends \in SUBSET Nat /\ e > i
      /\ Part(body, i) = SubSeq(body, i + 1, e - 1)
  BY PartEnds
<1> HIDE DEF e
<1>2. Len(body) \in Nat /\ DOMAIN body = 1..Len(body)
  OBVIOUS
<1>3. CASE i = 0
  <2>1. 1 \in ends
    <3>1. CASE body = <<>>
      BY <3>1
    <3>2. CASE body # <<>>
      BY <1>2, <1>3, <3>2 DEF Sectioned, PartStarts
    <3> QED BY <3>1, <3>2
  <2>2. e = 1
    BY <1>1, <1>3, <2>1
  <2>3. SubSeq(body, 1, 0) = <<>>
    OBVIOUS
  <2> QED BY <1>1, <1>3, <2>2, <2>3
<1>4. CASE i # 0
  <2>1. i \in 1..Len(body) /\ body[i] = FILE
    BY <1>2, <1>4 DEF PartStarts
  <2>2. PICK n \in names : SectionAt(body, i, n, texts[n])
    BY <1>2, <2>1 DEF Sectioned
  <2> DEFINE text == texts[n]
             l == Len(text)
  <2>3. text \in Seq(Tokens) /\ l \in Nat /\ \A j \in 1..l : text[j] # FILE
    BY DEF HasMarker
  <2>4. n # FILE /\ CLOSE # FILE /\ n \in Tokens /\ CLOSE \in Tokens
    BY TokensAre DEF CLOSE, FILE
  <2>5. /\ i + 2 + l <= Len(body)
        /\ body[i + 1] = n /\ body[i + 2] = CLOSE
        /\ \A j \in 1..l : body[i + 2 + j] = text[j]
        /\ i + 2 + l = Len(body) \/ body[i + 3 + l] = FILE
    BY <2>2 DEF SectionAt
  <2> HIDE DEF text, l
  <2>a. i \in Nat /\ l \in Nat /\ Len(body) \in Nat
    BY <1>1, <1>2, <2>3
  <2>b. \A x, y, z \in Nat : x + 2 + y = z => z + 1 = x + 3 + y
    OBVIOUS
  <2>6. i + 3 + l \in ends
    <3>1. CASE i + 2 + l = Len(body)
      <4>1. Len(body) + 1 = i + 3 + l
        BY <2>a, <2>b, <3>1, ZenonT(60)
      <4> QED BY <4>1
    <3>2. CASE i + 2 + l # Len(body)
      <4>0. i + 2 + l <= Len(body)
        BY <2>5
      <4>1. i + 3 + l \in 1..Len(body) /\ i + 3 + l > i
        BY <2>a, <3>2, <4>0
      <4> QED BY <1>2, <2>5, <3>2, <4>1 DEF PartStarts
    <3> QED BY <3>1, <3>2
  <2>7. ASSUME NEW x \in ends PROVE i + 3 + l <= x
    <3>1. CASE x = Len(body) + 1
      BY <2>a, <2>5, <3>1
    <3>2. CASE x \in PartStarts(body) /\ x > i
      <4>1. x \in Nat /\ body[x] = FILE
        BY <1>1, <1>2, <3>2 DEF PartStarts
      <4>2. x # i + 1 /\ x # i + 2
        BY <2>4, <2>5, <4>1
      <4>3. ASSUME x < i + 3 + l PROVE FALSE
        <5>1. x - (i + 2) \in 1..l /\ i + 2 + (x - (i + 2)) = x
          BY <1>1, <2>3, <3>2, <4>1, <4>2, <4>3
        <5> QED BY <2>3, <2>5, <4>1, <5>1
      <4> QED BY <1>1, <2>3, <4>1, <4>3
    <3> QED BY <3>1, <3>2
  <2>8. e = i + 3 + l
    BY <1>1, <2>3, <2>6, <2>7
  <2>9. e - 1 = i + 2 + l /\ i + 1 \in Nat /\ i + 1 >= 1 /\ e - 1 \in Nat /\ e - 1 <= Len(body)
    BY <1>1, <2>3, <2>5, <2>8
  <2> DEFINE part == SubSeq(body, i + 1, e - 1)
             section == <<n, CLOSE>> \o text
  <2>10. /\ part \in Seq(Tokens)
         /\ Len(part) = IF i + 1 <= e - 1 THEN e - 1 - (i + 1) + 1 ELSE 0
         /\ \A j \in 1..Len(part) : part[j] = body[i + 1 + j - 1]
    BY <2>9, SliceOf, SMTT(60)
  <2>11. /\ section \in Seq(Tokens) /\ Len(section) = 2 + l
         /\ section[1] = n /\ section[2] = CLOSE
         /\ \A j \in 1..l : section[2 + j] = text[j]
    BY <2>3, <2>4 DEF l
  <2> HIDE DEF part, section
  <2>12. Len(part) = 2 + l
    BY <1>1, <2>3, <2>9, <2>10
  <2>13. ASSUME NEW j \in 1..(2 + l) PROVE part[j] = section[j]
    <3>1. part[j] = body[i + j]
      <4>1. i + 1 + j - 1 = i + j
        BY <1>1, <2>3
      <4> QED BY <2>10, <2>12, <4>1
    <3>2. CASE j = 1
      BY <2>5, <2>11, <3>1, <3>2
    <3>3. CASE j = 2
      BY <2>5, <2>11, <3>1, <3>3
    <3>4. CASE j > 2
      <4>1. j - 2 \in 1..l /\ i + 2 + (j - 2) = i + j /\ 2 + (j - 2) = j
        BY <1>1, <2>3, <3>4
      <4> QED BY <2>5, <2>11, <3>1, <4>1
    <3> QED BY <2>3, <3>2, <3>3, <3>4
  <2>14. part = section
    BY <2>10, <2>11, <2>12, <2>13
  <2> QED BY <1>1, <2>14 DEF part, section, text
<1> QED BY <1>3, <1>4

(* The parser reads a section as the file that it is.                      *)
LEMMA SectionParses ==
  ASSUME NEW n \in Names, NEW text \in Seq(Tokens)
  PROVE  /\ Closes(<<n, CLOSE>> \o text) # {}
         /\ FileName(<<n, CLOSE>> \o text) = <<n>>
         /\ Content(<<n, CLOSE>> \o text) = text
<1> DEFINE part == <<n, CLOSE>> \o text
<1>1. n \in Tokens /\ CLOSE \in Tokens /\ n \notin {CLOSE, START}
  BY TokensAre
<1>2. /\ part \in Seq(Tokens) /\ Len(text) \in Nat /\ Len(part) = 2 + Len(text)
      /\ part[1] = n /\ part[2] = CLOSE
      /\ \A j \in 1..Len(text) : part[2 + j] = text[j]
  BY <1>1
<1> HIDE DEF part
<1>3. DOMAIN part = 1..Len(part) /\ 1 \in DOMAIN part /\ 2 \in DOMAIN part
  BY <1>2
<1>4. /\ Closes(part) \in SUBSET Nat
      /\ 2 \in Closes(part) /\ 1 \notin Closes(part) /\ 0 \notin Closes(part)
  BY <1>1, <1>2, <1>3 DEF Closes
<1>5. Min(Closes(part)) = 2
  <2>1. Min(Closes(part)) \in Closes(part) /\ Min(Closes(part)) <= 2
    BY <1>4, MinOf
  <2> QED BY <1>4, <2>1
<1>6. FileName(part) = <<n>>
  <2>1. /\ SubSeq(part, 1, 1) \in Seq(Tokens) /\ Len(SubSeq(part, 1, 1)) = 1
        /\ SubSeq(part, 1, 1)[1] = n
    BY <1>2, SliceOf
  <2>2. <<n>> \in Seq(Tokens) /\ Len(<<n>>) = 1 /\ <<n>>[1] = n
    BY <1>1
  <2>3. SubSeq(part, 1, 1) = <<n>>
    <3> DEFINE first == SubSeq(part, 1, 1)
    <3> HIDE DEF first
    <3>1. \A j \in 1..Len(first) : first[j] = <<n>>[j]
      BY <2>1, <2>2 DEF first
    <3> QED BY <2>1, <2>2, <3>1, SeqEqual DEF first
  <2> QED BY <1>5, <2>3 DEF FileName
<1>7. Content(part) = text
  <2>1. Content(part) = SubSeq(part, 3, Len(part))
    BY <1>5 DEF Content
  <2>2. /\ SubSeq(part, 3, Len(part)) \in Seq(Tokens)
        /\ Len(SubSeq(part, 3, Len(part))) = Len(text)
        /\ \A j \in 1..Len(text) : SubSeq(part, 3, Len(part))[j] = part[2 + j]
    BY <1>2
  <2> QED BY <1>2, <2>1, <2>2
<1> QED BY <1>4, <1>6, <1>7 DEF part

(* So the files that the parser finds are those that were rendered.        *)
LEMMA FilesMeant ==
  ASSUME NEW texts, NEW names \in SUBSET Names, \A n \in names : texts[n] \in Seq(Tokens),
         \A n \in names : ~HasMarker(texts[n]),
         NEW body \in Seq(Tokens), Sectioned(body, texts, names),
         NEW n \in DOMAIN Files(body)
  PROVE  n \in names /\ Files(body)[n] = texts[n]
<1>1. ASSUME NEW i \in FileParts(body)
      PROVE  \E m \in names : /\ FileName(Part(body, i)) = <<m>>
                              /\ Content(Part(body, i)) = texts[m]
  <2>1. i \in PartStarts(body) /\ Closes(Part(body, i)) # {}
    BY DEF FileParts
  <2>2. Part(body, i) # <<>>
    <3>1. Closes(<<>>) = {}
      BY DEF Closes
    <3> QED BY <2>1, <3>1
  <2>3. PICK m \in names : Part(body, i) = <<m, CLOSE>> \o texts[m]
    BY <2>1, <2>2, PartIsSection
  <2>4. m \in Names /\ texts[m] \in Seq(Tokens)
    OBVIOUS
  <2> QED BY <2>3, <2>4, SectionParses
<1>2. DOMAIN Files(body) = {FileName(Part(body, i))[1] : i \in FileParts(body)}
  BY DEF Files
<1>3. PICK i \in FileParts(body) : n = FileName(Part(body, i))[1]
  BY <1>2
<1>4. n \in names /\ FileName(Part(body, i)) = <<n>>
  <2>1. PICK m \in names : FileName(Part(body, i)) = <<m>>
    BY <1>1
  <2>2. <<m>>[1] = m
    OBVIOUS
  <2> QED BY <1>3, <2>1, <2>2
<1> DEFINE same == {k \in FileParts(body) : FileName(Part(body, k)) = <<n>>}
<1>5. Max(same) \in same
  <2>1. Len(body) \in Nat /\ DOMAIN body = 1..Len(body)
    OBVIOUS
  <2>2. same \in SUBSET Nat /\ \A k \in same : k <= Len(body)
    BY <2>1 DEF FileParts, PartStarts
  <2>3. same # {}
    BY <1>4
  <2> HIDE DEF same
  <2> QED BY <2>1, <2>2, <2>3, MaxOfBounded
<1>6. Files(body)[n] = Content(Part(body, Max(same)))
  BY <1>2 DEF Files
<1>7. PICK m \in names : /\ FileName(Part(body, Max(same))) = <<m>>
                         /\ Content(Part(body, Max(same))) = texts[m]
  BY <1>1, <1>5
<1>8. m = n
  <2>1. <<m>> = <<n>>
    BY <1>5, <1>7
  <2> HIDE DEF same
  <2> QED BY <2>1
<1> QED BY <1>4, <1>6, <1>7, <1>8

(* Whatever the answer, what is saved are texts under names of files.      *)
LEMMA ParsedTyped ==
  ASSUME NEW text \in Seq(Tokens), ~Panics(text)
  PROVE  IsTexts(ParseDreamResponse(text))
<1>0. IsTexts(NoFiles)
  BY DEF IsTexts, NoFiles, Range
<1> DEFINE body == Body(text)
<1>1. SUFFICES ASSUME Holds(text, START), Holds(text, END), ~Holds(text, NONE),
                      \A i \in FileParts(body) : ValidName(Part(body, i))
               PROVE  IsTexts(Files(body))
  BY <1>0 DEF ParseDreamResponse
<1>2. body \in Seq(Tokens)
  <2>1. ASSUME NEW token, Holds(text, token)
        PROVE  Index(text, token) \in 1..Len(text)
    <3> DEFINE S == {i \in DOMAIN text : text[i] = token}
    <3>1. S \in SUBSET Nat /\ S # {} /\ S \subseteq 1..Len(text)
      BY <2>1 DEF Holds
    <3> HIDE DEF S
    <3>2. Min(S) \in 1..Len(text)
      BY <3>1, MinOf
    <3> QED BY <3>2 DEF S, Index
  <2> DEFINE a == Index(text, START) + 1
             b == Index(text, END) - 1
  <2>2. a \in Nat /\ a >= 1 /\ b \in Nat /\ b <= Len(text)
    <3>1. Index(text, START) \in 1..Len(text) /\ Index(text, END) \in 1..Len(text)
      BY <1>1, <2>1
    <3> QED BY <3>1
  <2> HIDE DEF a, b
  <2>3. SubSeq(text, a, b) \in Seq(Tokens)
    BY <2>2, SliceOf
  <2> QED BY <2>3 DEF a, b, Body
<1> HIDE DEF body
<1>3. ASSUME NEW i \in FileParts(body)
      PROVE  /\ Content(Part(body, i)) \in Seq(Tokens)
             /\ \E m \in Names : FileName(Part(body, i)) = <<m>>
  <2> DEFINE part == Part(body, i)
  <2>1. part \in Seq(Tokens) /\ Closes(part) # {}
    BY <1>2, PartTyped DEF FileParts
  <2> HIDE DEF part
  <2>2. Closes(part) \in SUBSET Nat /\ Closes(part) \subseteq 1..Len(part)
    BY <2>1 DEF Closes
  <2>3. Min(Closes(part)) \in 1..Len(part) /\ Len(part) \in Nat
    BY <2>1, <2>2, MinOf
  <2> DEFINE c == Min(Closes(part))
  <2>4. c + 1 \in Nat /\ c + 1 >= 1
    BY <2>3
  <2> HIDE DEF c
  <2>5. SubSeq(part, c + 1, Len(part)) \in Seq(Tokens)
    BY <2>1, <2>3, <2>4, SliceOf
  <2>6. Content(part) \in Seq(Tokens)
    BY <2>5 DEF c, Content
  <2>7. ValidName(part)
    BY <1>1 DEF part
  <2> QED BY <2>6, <2>7 DEF part, ValidName
<1>4. DOMAIN Files(body) = {FileName(Part(body, i))[1] : i \in FileParts(body)}
  BY DEF Files
<1>5. ASSUME NEW n \in DOMAIN Files(body) PROVE n \in Names /\ Files(body)[n] \in Seq(Tokens)
  <2>1. PICK i \in FileParts(body) : n = FileName(Part(body, i))[1]
    BY <1>4
  <2>2. n \in Names /\ FileName(Part(body, i)) = <<n>>
    <3>1. PICK m \in Names : FileName(Part(body, i)) = <<m>>
      BY <1>3
    <3>2. <<m>>[1] = m
      OBVIOUS
    <3> QED BY <2>1, <3>1, <3>2
  <2> DEFINE same == {k \in FileParts(body) : FileName(Part(body, k)) = <<n>>}
  <2>3. Max(same) \in same
    <3>1. Len(body) \in Nat /\ DOMAIN body = 1..Len(body)
      BY <1>2
    <3>2. same \in SUBSET Nat /\ \A k \in same : k <= Len(body)
      BY <3>1 DEF FileParts, PartStarts
    <3>3. same # {}
      BY <2>2
    <3> HIDE DEF same
    <3> QED BY <3>1, <3>2, <3>3, MaxOfBounded
  <2>4. Files(body)[n] = Content(Part(body, Max(same)))
    BY <1>4 DEF Files
  <2> QED BY <1>3, <2>2, <2>3, <2>4
<1> QED BY <1>5 DEF IsTexts, Range

(* A whole answer is what precedes the start marker, the sections of some  *)
(* files, and the end marker.                                              *)
Encloses(whole, p, body) ==
  /\ body \in Seq(Tokens) /\ whole \in Seq(Tokens)
  /\ Len(p) \in Nat /\ Len(body) \in Nat
  /\ Len(whole) = Len(p) + Len(body) + 2
  /\ \A i \in 1..Len(p) : whole[i] = p[i]
  /\ whole[Len(p) + 1] = START
  /\ \A j \in 1..Len(body) : whole[Len(p) + 1 + j] = body[j]
  /\ whole[Len(whole)] = END

LEMMA WholeIs ==
  ASSUME NEW p \in Prefaces, NEW names \in SUBSET Names, NEW texts \in [names -> Seq(Tokens)]
  PROVE  Encloses(p \o Render(texts), p, Sections(texts, names))
<1> DEFINE body == Sections(texts, names)
<1>1. body \in Seq(Tokens)
  BY SectionsRender DEF RendersAs
<1>2. p \in Seq(Tokens)
  BY TokensAre
<1> HIDE DEF body
<1>4. <<START>> \in Seq(Tokens) /\ <<END>> \in Seq(Tokens)
  BY TokensAre
<1> DEFINE front == <<START>> \o body
           answer == front \o <<END>>
           whole == p \o answer
<1>5. /\ front \in Seq(Tokens) /\ Len(front) = 1 + Len(body)
      /\ front[1] = START /\ \A j \in 1..Len(body) : front[1 + j] = body[j]
  BY <1>1, <1>4
<1> HIDE DEF front
<1>6. Len(body) \in Nat /\ Len(p) \in Nat /\ Len(front) \in Nat
  BY <1>1, <1>2, <1>5
<1>7. /\ answer \in Seq(Tokens) /\ Len(answer) = 2 + Len(body)
      /\ \A j \in 1..(1 + Len(body)) : answer[j] = front[j]
      /\ answer[2 + Len(body)] = END
  <2>1. /\ answer \in Seq(Tokens) /\ Len(answer) = Len(front) + 1
        /\ \A j \in 1..Len(front) : answer[j] = front[j]
        /\ answer[Len(front) + 1] = END
    BY <1>4, <1>5
  <2>2. Len(front) + 1 = 2 + Len(body)
    BY <1>5, <1>6
  <2> HIDE DEF answer
  <2> QED BY <1>5, <2>1, <2>2
<1> HIDE DEF answer
<1>8. /\ whole \in Seq(Tokens) /\ Len(whole) = Len(p) + Len(answer)
      /\ \A i \in 1..Len(p) : whole[i] = p[i]
      /\ \A i \in 1..Len(answer) : whole[Len(p) + i] = answer[i]
  BY <1>2, <1>7, JoinOf
<1> HIDE DEF whole
<1>9. Len(whole) = Len(p) + Len(body) + 2
  BY <1>6, <1>7, <1>8
<1>10. whole[Len(p) + 1] = START
  <2>1. 1 \in 1..Len(answer) /\ 1 \in 1..(1 + Len(body))
    BY <1>6, <1>7
  <2> QED BY <1>5, <1>7, <1>8, <2>1
<1>11. ASSUME NEW j \in 1..Len(body) PROVE whole[Len(p) + 1 + j] = body[j]
  <2>1. /\ 1 + j \in 1..Len(answer) /\ 1 + j \in 1..(1 + Len(body))
        /\ Len(p) + 1 + j = Len(p) + (1 + j)
    BY <1>6, <1>7
  <2> QED BY <1>5, <1>7, <1>8, <2>1, SMTT(60)
<1>12. whole[Len(whole)] = END
  <2>1. Len(whole) = Len(p) + (2 + Len(body)) /\ 2 + Len(body) \in 1..Len(answer)
    BY <1>6, <1>7, <1>8
  <2> QED BY <1>7, <1>8, <2>1
<1>13. Encloses(whole, p, body)
  BY <1>1, <1>6, <1>8, <1>9, <1>10, <1>11, <1>12 DEF Encloses
<1>14. whole = p \o Render(texts)
  BY DEF whole, answer, front, body, Render
<1> QED BY <1>13, <1>14 DEF body

(* The first occurrence of a token.                                        *)
LEMMA FirstOf ==
  ASSUME NEW text \in Seq(Tokens), NEW token, NEW i \in 1..Len(text), text[i] = token
  PROVE  /\ Holds(text, token)
         /\ Index(text, token) \in 1..i
         /\ text[Index(text, token)] = token
<1> DEFINE S == {j \in DOMAIN text : text[j] = token}
<1>1. S \in SUBSET Nat /\ S \subseteq 1..Len(text) /\ i \in S
  OBVIOUS
<1>2. \A j \in S : text[j] = token
  OBVIOUS
<1> HIDE DEF S
<1>3. Min(S) \in S /\ Min(S) <= i
  BY <1>1, MinOf
<1>4. Min(S) \in 1..i
  <2>1. Min(S) \in 1..Len(text)
    BY <1>1, MinOf
  <2>2. Len(text) \in Nat
    OBVIOUS
  <2> QED BY <1>3, <2>1, <2>2
<1>5. Index(text, token) = Min(S)
  BY DEF S, Index
<1>6. Holds(text, token)
  BY DEF Holds
<1> QED BY <1>2, <1>3, <1>4, <1>5, <1>6

(* A text whose only start marker, if any, comes after an end marker saves *)
(* nothing, or makes the parser panic; so does one without an end marker.  *)
LEMMA SavesNothing ==
  ASSUME NEW text \in Seq(Tokens), ~Panics(text),
         NEW k \in Nat, \A i \in DOMAIN text : text[i] = START => i > k,
         Holds(text, END) => \E i \in DOMAIN text : i <= k /\ text[i] = END
  PROVE  ParseDreamResponse(text) = NoFiles
<1> SUFFICES ASSUME Holds(text, START), Holds(text, END), ~Holds(text, NONE) PROVE FALSE
  BY DEF ParseDreamResponse
<1>1. PICK i \in DOMAIN text : i <= k /\ text[i] = END
  OBVIOUS
<1>2. PICK j \in DOMAIN text : text[j] = START
  BY DEF Holds
<1>3. i \in 1..Len(text) /\ j \in 1..Len(text)
  OBVIOUS
<1>4. Index(text, END) \in 1..i
  BY <1>1, <1>3, FirstOf
<1>5. Index(text, START) \in 1..j /\ text[Index(text, START)] = START
  BY <1>2, <1>3, FirstOf
<1>6. Index(text, START) \in DOMAIN text
  BY <1>3, <1>5
<1>7. Index(text, START) > k
  BY <1>5, <1>6
<1>8. Index(text, END) < Index(text, START)
  BY <1>1, <1>3, <1>4, <1>5, <1>7
<1> QED BY <1>8 DEF Panics

(* Claude's answer does not quote the protocol.                            *)
LEMMA NotQuoted ==
  ASSUME NEW p \in Prefaces, NEW names \in SUBSET Names, NEW texts \in [names -> Seq(Tokens)],
         ~Quotes(p, texts)
  PROVE  /\ \A i \in 1..Len(p) : p[i] # START
         /\ \A n \in names : ~HasMarker(texts[n])
<1>1. p \in Seq(Tokens)
  BY TokensAre
<1>2. \A i \in 1..Len(p) : i \in DOMAIN p
  BY <1>1
<1> QED BY <1>2 DEF Quotes, Holds

(* A whole answer saves the files that were rendered, as they were.        *)
LEMMA WholeSaves ==
  ASSUME NEW p \in Prefaces, NEW names \in SUBSET Names, NEW texts \in [names -> Seq(Tokens)],
         ~Quotes(p, texts),
         ~Panics(p \o Render(texts)),
         NEW n \in DOMAIN ParseDreamResponse(p \o Render(texts))
  PROVE  /\ n \in names
         /\ ParseDreamResponse(p \o Render(texts))[n] = texts[n]
<1> DEFINE body == Sections(texts, names)
           whole == p \o Render(texts)
<1>0. Encloses(whole, p, body)
  BY WholeIs
<1>1. /\ body \in Seq(Tokens) /\ whole \in Seq(Tokens)
      /\ Len(p) \in Nat /\ Len(body) \in Nat
      /\ Len(whole) = Len(p) + Len(body) + 2
      /\ \A i \in 1..Len(p) : whole[i] = p[i]
      /\ whole[Len(p) + 1] = START
      /\ \A j \in 1..Len(body) : whole[Len(p) + 1 + j] = body[j]
      /\ whole[Len(whole)] = END
  BY <1>0 DEF Encloses
<1>q. /\ \A i \in 1..Len(p) : p[i] # START
      /\ \A m \in names : ~HasMarker(texts[m])
  BY NotQuoted
<1>2. Sectioned(body, texts, names)
  BY <1>q, SectionsRender DEF RendersAs
<1> HIDE DEF body, whole
<1>3. \A j \in 1..Len(body) : body[j] \notin {START, END, NONE}
  BY <1>1, <1>2 DEF Sectioned
<1>4. DOMAIN whole = 1..Len(whole)
  BY <1>1
<1>a. /\ Len(p) \in Nat /\ Len(body) \in Nat /\ Len(whole) \in Nat
      /\ Len(whole) = Len(p) + Len(body) + 2
  BY <1>1
<1>5. ASSUME NEW i \in DOMAIN whole
      PROVE  \/ i \in 1..Len(p) \/ i = Len(p) + 1 \/ i = Len(whole)
             \/ \E j \in 1..Len(body) : i = Len(p) + 1 + j
  <2>1. i \in Nat /\ i >= 1 /\ i <= Len(p) + Len(body) + 2
    BY <1>1, <1>4
  <2>2. CASE i > Len(p) + 1 /\ i < Len(p) + Len(body) + 2
    <3>1. i - (Len(p) + 1) \in 1..Len(body) /\ i = Len(p) + 1 + (i - (Len(p) + 1))
      BY <1>a, <2>1, <2>2
    <3> QED BY <3>1
  <2>3. CASE i <= Len(p)
    <3>1. i \in 1..Len(p)
      BY <1>a, <2>1, <2>3
    <3> QED BY <3>1
  <2>4. CASE i = Len(p) + 1 \/ i = Len(p) + Len(body) + 2
    BY <1>a, <2>4
  <2>5. i > Len(p) /\ i # Len(p) + 1 /\ i # Len(p) + Len(body) + 2
          => i > Len(p) + 1 /\ i < Len(p) + Len(body) + 2
    BY <1>a, <2>1
  <2>6. i > Len(p) \/ i <= Len(p)
    BY <1>a, <2>1
  <2> QED BY <2>2, <2>3, <2>4, <2>5, <2>6, Zenon
<1>6. START # END
  BY DEF START, END
<1>7. ASSUME NEW i \in DOMAIN whole, whole[i] = START PROVE i = Len(p) + 1
  <2>1. i \notin 1..Len(p) /\ i # Len(whole)
    BY <1>1, <1>q, <1>6, <1>7
  <2>2. ASSUME NEW j \in 1..Len(body), i = Len(p) + 1 + j PROVE FALSE
    BY <1>1, <1>3, <1>7, <2>2
  <2> QED BY <1>5, <2>1, <2>2
<1>8. ASSUME NEW i \in DOMAIN whole, whole[i] = END PROVE i <= Len(p) \/ i = Len(whole)
  <2>1. CASE i \in 1..Len(p) \/ i = Len(whole)
    BY <1>a, <2>1
  <2>2. CASE i = Len(p) + 1
    BY <1>1, <1>6, <1>8, <2>2
  <2>3. ASSUME NEW j \in 1..Len(body), i = Len(p) + 1 + j PROVE FALSE
    BY <1>1, <1>3, <1>8, <2>3
  <2> QED BY <1>5, <2>1, <2>2, <2>3
<1>9. ASSUME ParseDreamResponse(whole) # NoFiles PROVE Body(whole) = body
  <2>1. ASSUME NEW i \in DOMAIN whole, i <= Len(p), whole[i] = END PROVE FALSE
    <3>1. \A x \in DOMAIN whole : whole[x] = START => x > Len(p)
      BY <1>1, <1>7
    <3>2. ~Panics(whole)
      BY DEF whole
    <3> QED BY <1>1, <1>9, <2>1, <3>1, <3>2, SavesNothing
  <2>2. Index(whole, START) = Len(p) + 1
    <3>1. Len(p) + 1 \in 1..Len(whole)
      BY <1>1
    <3>2. Index(whole, START) \in 1..(Len(p) + 1) /\ whole[Index(whole, START)] = START
      BY <1>1, <3>1, FirstOf, SMTT(60)
    <3>3. Index(whole, START) \in DOMAIN whole
      BY <1>1, <1>4, <3>2
    <3> QED BY <1>7, <3>2, <3>3
  <2>3. Index(whole, END) = Len(whole)
    <3>1. Len(whole) \in 1..Len(whole)
      BY <1>1
    <3>2. Index(whole, END) \in 1..Len(whole) /\ whole[Index(whole, END)] = END
      BY <1>1, <3>1, FirstOf
    <3> QED BY <1>4, <1>8, <2>1, <3>2
  <2>4. Body(whole) = SubSeq(whole, Len(p) + 2, Len(whole) - 1)
    <3>1. Len(p) + 1 + 1 = Len(p) + 2
      BY <1>1
    <3> QED BY <2>2, <2>3, <3>1 DEF Body
  <2> DEFINE a == Len(p) + 2
             b == Len(whole) - 1
             slice == SubSeq(whole, a, b)
  <2>5. a \in Nat /\ a >= 1 /\ b \in Nat /\ b <= Len(whole) /\ b = Len(p) + Len(body) + 1
    BY <1>1
  <2>6. /\ slice \in Seq(Tokens)
        /\ Len(slice) = IF a <= b THEN b - a + 1 ELSE 0
        /\ \A j \in 1..Len(slice) : slice[j] = whole[a + j - 1]
    <3> HIDE DEF a, b
    <3> QED BY <1>1, <2>5, SliceOf
  <2> HIDE DEF slice
  <2>7. Len(slice) = Len(body)
    BY <1>1, <2>5, <2>6
  <2>8. ASSUME NEW j \in 1..Len(slice) PROVE slice[j] = body[j]
    <3>1. a + j - 1 = Len(p) + 1 + j
      BY <1>1, <2>7
    <3> QED BY <1>1, <2>6, <2>7, <3>1
  <2>9. slice = body
    BY <1>1, <2>6, <2>7, <2>8, SeqEqual
  <2> QED BY <2>4, <2>9 DEF slice
<1>10. n \in DOMAIN ParseDreamResponse(whole)
  BY DEF whole
<1>11. ParseDreamResponse(whole) # NoFiles
  BY <1>10 DEF NoFiles
<1>12. ParseDreamResponse(whole) = Files(body)
  BY <1>9, <1>11 DEF ParseDreamResponse
<1>13. n \in names /\ Files(body)[n] = texts[n]
  <2>1. n \in DOMAIN Files(body)
    BY <1>10, <1>12
  <2>2. body \in Seq(Tokens)
    BY <1>1
  <2>3. /\ \A m \in names : texts[m] \in Seq(Tokens)
        /\ \A m \in names : ~HasMarker(texts[m])
    BY <1>q
  <2> QED BY <1>2, <2>1, <2>2, <2>3, FilesMeant
<1> QED BY <1>12, <1>13 DEF whole

(* An answer that breaks off saves nothing.                                *)
LEMMA BeginningSaves ==
  ASSUME NEW p \in Prefaces, NEW names \in SUBSET Names, NEW texts \in [names -> Seq(Tokens)],
         ~Quotes(p, texts),
         NEW k \in 0..(Len(p \o Render(texts)) - 1),
         ~Panics(SubSeq(p \o Render(texts), 1, k))
  PROVE  ParseDreamResponse(SubSeq(p \o Render(texts), 1, k)) = NoFiles
<1> DEFINE body == Sections(texts, names)
           whole == p \o Render(texts)
           text == SubSeq(whole, 1, k)
<1>0. Encloses(whole, p, body)
  BY WholeIs
<1>1. /\ body \in Seq(Tokens) /\ whole \in Seq(Tokens)
      /\ Len(p) \in Nat /\ Len(body) \in Nat
      /\ Len(whole) = Len(p) + Len(body) + 2
      /\ \A i \in 1..Len(p) : whole[i] = p[i]
      /\ whole[Len(p) + 1] = START
      /\ \A j \in 1..Len(body) : whole[Len(p) + 1 + j] = body[j]
  BY <1>0 DEF Encloses
<1>q. /\ \A i \in 1..Len(p) : p[i] # START
      /\ \A m \in names : ~HasMarker(texts[m])
  BY NotQuoted
<1>2. Sectioned(body, texts, names)
  BY <1>q, SectionsRender DEF RendersAs
<1> HIDE DEF body
<1>3. \A j \in 1..Len(body) : body[j] \notin {START, END, NONE}
  BY <1>1, <1>2 DEF Sectioned
<1>4. k \in 0..(Len(whole) - 1)
  BY DEF whole
<1> HIDE DEF whole
<1>5. /\ text \in Seq(Tokens) /\ Len(text) = k /\ k \in Nat /\ k < Len(whole)
      /\ \A i \in 1..k : text[i] = whole[i]
  BY <1>1, <1>4, SMTT(60)
<1> HIDE DEF text
<1>6. DOMAIN text = 1..k
  BY <1>5
<1>7. ASSUME NEW i \in DOMAIN text, i > Len(p) PROVE text[i] # END
  <2>1. i \in Nat /\ i <= Len(p) + Len(body) + 1 /\ i \in 1..k
    BY <1>1, <1>5, <1>6
  <2>2. CASE i = Len(p) + 1
    BY <1>1, <1>5, <2>1, <2>2 DEF START, END
  <2>3. CASE i # Len(p) + 1
    <3>1. i - (Len(p) + 1) \in 1..Len(body) /\ i = Len(p) + 1 + (i - (Len(p) + 1))
      BY <1>1, <1>7, <2>1, <2>3, SMTT(60)
    <3> QED BY <1>1, <1>3, <1>5, <2>1, <3>1, SMTT(60)
  <2> QED BY <2>2, <2>3
<1>8. ASSUME NEW i \in DOMAIN text, text[i] = START PROVE i > Len(p)
  <2>1. i \in 1..k /\ Len(p) \in Nat
    BY <1>1, <1>6
  <2>2. ASSUME i <= Len(p) PROVE FALSE
    <3>1. i \in 1..Len(p)
      BY <2>1, <2>2
    <3>2. text[i] = whole[i] /\ whole[i] = p[i] /\ p[i] # START
      BY <1>1, <1>q, <1>5, <2>1, <3>1
    <3> QED BY <1>8, <3>2
  <2>3. k \in Nat
    BY <1>5
  <2> QED BY <2>1, <2>2, <2>3
<1>9. ASSUME Holds(text, END) PROVE \E i \in DOMAIN text : i <= Len(p) /\ text[i] = END
  <2>1. PICK i \in DOMAIN text : text[i] = END
    BY <1>9 DEF Holds
  <2>2. i <= Len(p)
    BY <1>1, <1>6, <1>7, <2>1
  <2> QED BY <2>1, <2>2
<1>10. ~Panics(text)
  BY DEF text, whole
<1>11. ParseDreamResponse(text) = NoFiles
  BY <1>1, <1>5, <1>8, <1>9, <1>10, SavesNothing
<1> QED BY <1>11 DEF text, whole

-----------------------------------------------------------------------------
(* The texts that claude may put into files.                               *)
LEMMA RewriteIs ==
  ASSUME NEW texts \in Rewrites
  PROVE  \E names \in SUBSET Names : texts \in [names -> Seq(Tokens)]
<1>1. PICK names \in SUBSET Names : texts \in [names -> ClaudeTexts]
  BY DEF Rewrites
<1>2. ClaudeTexts \subseteq Seq(Tokens)
  BY TokensAre
<1> QED BY <1>1, <1>2

(* A dream that saves nothing.                                             *)
LEMMA NoTexts == IsTexts(NoFiles)
BY DEF IsTexts, NoFiles, Range

(* Claude's answer: whole, broken off, or the marker that nothing changes. *)
WholeAnswer(a, p, f) == a.text = p \o Render(f) /\ a.files = f
BrokenAnswer(a, p, f) ==
  /\ \E k \in 0..(Len(p \o Render(f)) - 1) : a.text = SubSeq(p \o Render(f), 1, k)
  /\ a.files = NoFiles

LEMMA AnswerIs ==
  ASSUME NEW a \in Answers
  PROVE  \/ a.text = <<NONE>> /\ a.files = NoFiles
         \/ \E p \in Prefaces, f \in Rewrites :
              a.quotes = Quotes(p, f) /\ (WholeAnswer(a, p, f) \/ BrokenAnswer(a, p, f))
<1> DEFINE none == [text |-> <<NONE>>, files |-> NoFiles, quotes |-> FALSE]
           wholes == {Reply(p, f) : p \in Prefaces, f \in Rewrites}
<1>1. CASE a = none
  BY <1>1
<1>2. \A w \in wholes : \E p \in Prefaces, f \in Rewrites : w = Reply(p, f)
  OBVIOUS
<1>3. a \in wholes \cup {none} \cup UNION {Broken(w) : w \in wholes}
  BY DEF Answers
<1> HIDE DEF wholes, none
<1>4. a = none \/ a \in wholes \/ \E w \in wholes : a \in Broken(w)
  BY <1>3
<1>5. CASE a \in wholes
  <2>1. PICK p \in Prefaces, f \in Rewrites : a = Reply(p, f)
    BY <1>2, <1>5
  <2>2. a.quotes = Quotes(p, f) /\ WholeAnswer(a, p, f)
    BY <2>1, Zenon DEF Reply, WholeAnswer
  <2> QED BY <2>2
<1>6. ASSUME NEW w \in wholes, a \in Broken(w)
      PROVE  \E p \in Prefaces, f \in Rewrites : a.quotes = Quotes(p, f) /\ BrokenAnswer(a, p, f)
  <2>1. PICK p \in Prefaces, f \in Rewrites : w = Reply(p, f)
    BY <1>2, SMTT(60)
  <2>2. PICK b \in Beginnings(w.text) : a = [w EXCEPT !.text = b, !.files = NoFiles]
    BY <1>6 DEF Broken
  <2>3. w.text = p \o Render(f) /\ w.quotes = Quotes(p, f)
    BY <2>1 DEF Reply
  <2>4. a.text = b /\ a.files = NoFiles /\ a.quotes = w.quotes
    BY <2>1, <2>2 DEF Reply
  <2>5. PICK k \in 0..(Len(w.text) - 1) : b = SubSeq(w.text, 1, k)
    BY DEF Beginnings
  <2>6. BrokenAnswer(a, p, f)
    BY <2>3, <2>4, <2>5 DEF BrokenAnswer
  <2> QED BY <2>3, <2>4, <2>6
<1> QED BY <1>1, <1>4, <1>5, <1>6, Zenon

(* What claude means, and what the parser makes of it, are texts of files. *)
LEMMA AnswerTyped ==
  ASSUME NEW a \in Answers, ~Panics(a.text)
  PROVE  IsTexts(ParseDreamResponse(a.text)) /\ IsTexts(a.files)
<1>1. CASE a.text = <<NONE>> /\ a.files = NoFiles
  <2>1. a.text \in Seq(Tokens)
    BY <1>1, TokensAre
  <2> QED BY <1>1, <2>1, NoTexts, ParsedTyped
<1>2. ASSUME NEW p \in Prefaces, NEW f \in Rewrites,
             WholeAnswer(a, p, f) \/ BrokenAnswer(a, p, f)
      PROVE  IsTexts(ParseDreamResponse(a.text)) /\ IsTexts(a.files)
  <2> DEFINE whole == p \o Render(f)
  <2>1. PICK names \in SUBSET Names : f \in [names -> Seq(Tokens)]
    BY RewriteIs
  <2>2. whole \in Seq(Tokens)
    BY <2>1, WholeIs DEF Encloses
  <2>3. IsTexts(f)
    BY <2>1 DEF IsTexts, Range
  <2>4. CASE WholeAnswer(a, p, f)
    BY <2>2, <2>3, <2>4, ParsedTyped DEF WholeAnswer
  <2>5. CASE BrokenAnswer(a, p, f)
    <3>1. PICK k \in 0..(Len(whole) - 1) : a.text = SubSeq(whole, 1, k)
      BY <2>5 DEF BrokenAnswer
    <3> HIDE DEF whole
    <3>2. k \in Nat /\ k <= Len(whole)
      BY <2>2
    <3>3. a.text \in Seq(Tokens)
      BY <2>2, <3>1, <3>2, SliceOf
    <3> QED BY <2>5, <3>3, NoTexts, ParsedTyped DEF BrokenAnswer
  <2> QED BY <1>2, <2>4, <2>5
<1> QED BY <1>1, <1>2, AnswerIs, Zenon

(* Unless the answer quotes the protocol, what the parser finds is what    *)
(* claude meant.                                                           *)
LEMMA AnswerSaves ==
  ASSUME NEW a \in Answers, ~Panics(a.text), ~a.quotes,
         NEW n \in DOMAIN ParseDreamResponse(a.text)
  PROVE  n \in DOMAIN a.files /\ ParseDreamResponse(a.text)[n] = a.files[n]
<1>1. ParseDreamResponse(a.text) # NoFiles
  BY DEF NoFiles
<1>2. CASE a.text = <<NONE>>
  <2>1. Holds(<<NONE>>, NONE)
    BY DEF Holds
  <2> QED BY <1>1, <1>2, <2>1 DEF ParseDreamResponse
<1>3. ASSUME NEW p \in Prefaces, NEW f \in Rewrites, ~Quotes(p, f),
             WholeAnswer(a, p, f) \/ BrokenAnswer(a, p, f)
      PROVE  n \in DOMAIN a.files /\ ParseDreamResponse(a.text)[n] = a.files[n]
  <2>1. PICK names \in SUBSET Names : f \in [names -> Seq(Tokens)]
    BY RewriteIs
  <2>2. CASE WholeAnswer(a, p, f)
    <3>1. n \in names /\ ParseDreamResponse(a.text)[n] = f[n]
      BY <1>3, <2>1, <2>2, WholeSaves, SMTT(60) DEF WholeAnswer
    <3> QED BY <2>1, <2>2, <3>1 DEF WholeAnswer
  <2>3. CASE BrokenAnswer(a, p, f)
    <3>1. PICK k \in 0..(Len(p \o Render(f)) - 1) : a.text = SubSeq(p \o Render(f), 1, k)
      BY <2>3 DEF BrokenAnswer
    <3>2. ParseDreamResponse(a.text) = NoFiles
      BY <1>3, <2>1, <3>1, BeginningSaves
    <3> QED BY <1>1, <3>2
  <2> QED BY <1>3, <2>2, <2>3
<1>4. ASSUME NEW p \in Prefaces, NEW f \in Rewrites, a.quotes = Quotes(p, f)
      PROVE  ~Quotes(p, f)
  BY <1>4
<1> QED BY <1>2, <1>3, <1>4, AnswerIs, Zenon

(* What a dream gets to save, and what claude meant of it.                 *)
LEMMA OutcomeIs ==
  ASSUME NEW o \in Parsed
  PROVE  /\ IsTexts(o.update) /\ IsTexts(o.files)
         /\ ~o.quotes => \A n \in DOMAIN o.update :
                           n \in DOMAIN o.files /\ o.update[n] = o.files[n]
<1>1. PICK a \in Answers : ~Panics(a.text) /\ o = Outcome(a)
  BY DEF Parsed
<1> DEFINE names == DOMAIN a.files \cap DOMAIN ParseDreamResponse(a.text)
<1>2. /\ o.update = ParseDreamResponse(a.text)
      /\ o.files = Restrict(a.files, names)
      /\ o.quotes = a.quotes
  BY <1>1, Zenon DEF Outcome
<1>3. IsTexts(o.update) /\ IsTexts(a.files)
  BY <1>1, <1>2, AnswerTyped
<1>4. DOMAIN o.files = names /\ \A n \in names : o.files[n] = a.files[n]
  BY <1>2 DEF Restrict
<1>5. IsTexts(o.files)
  BY <1>3, <1>4 DEF IsTexts, Range
<1>6. ASSUME ~o.quotes, NEW n \in DOMAIN o.update
      PROVE  n \in DOMAIN o.files /\ o.update[n] = o.files[n]
  <2>1. n \in DOMAIN a.files /\ ParseDreamResponse(a.text)[n] = a.files[n]
    BY <1>1, <1>2, <1>6, AnswerSaves
  <2> QED BY <1>2, <1>4, <1>6, <2>1
<1> QED BY <1>3, <1>5, <1>6

-----------------------------------------------------------------------------
(* Prompts that claude has not answered, and the files written since.      *)
PromptsOK ==
  /\ asked \in [Stores -> Seq(SUBSET Names)]
  /\ older \in [Stores -> SUBSET Names]
  /\ quoting \subseteq Stores

(* A prompt is added, prompts are answered, a file is written.             *)
LEMMA PromptsAre ==
  ASSUME NEW prompts \in Seq(SUBSET Names)
  PROVE  /\ Append(prompts, {}) \in Seq(SUBSET Names)
         /\ \A i \in DOMAIN prompts :
              /\ prompts[i] \in SUBSET Names
              /\ SubSeq(prompts, i + 1, Len(prompts)) \in Seq(SUBSET Names)
         /\ \A n \in Names : [i \in DOMAIN prompts |-> prompts[i] \cup {n}] \in Seq(SUBSET Names)
<1>1. Append(prompts, {}) \in Seq(SUBSET Names)
  OBVIOUS
<1>2. ASSUME NEW i \in DOMAIN prompts
      PROVE  /\ prompts[i] \in SUBSET Names
             /\ SubSeq(prompts, i + 1, Len(prompts)) \in Seq(SUBSET Names)
  OBVIOUS
<1>3. ASSUME NEW n \in Names
      PROVE  [i \in DOMAIN prompts |-> prompts[i] \cup {n}] \in Seq(SUBSET Names)
  <2>1. Len(prompts) \in Nat /\ DOMAIN prompts = 1..Len(prompts)
    OBVIOUS
  <2>2. \A i \in 1..Len(prompts) : prompts[i] \cup {n} \in SUBSET Names
    OBVIOUS
  <2> DEFINE since == [i \in 1..Len(prompts) |-> prompts[i] \cup {n}]
  <2>3. since \in [1..Len(prompts) -> SUBSET Names]
    BY <2>2, Zenon
  <2> HIDE DEF since
  <2>4. since \in Seq(SUBSET Names)
    BY <2>1, <2>3
  <2> QED BY <2>1, <2>4 DEF since
<1> QED BY <1>1, <1>2, <1>3

LEMMA PromptsStep ==
  ShapesOK /\ PromptsOK /\ [MemoryNext]_memoryVars => PromptsOK'
<1> SUFFICES ASSUME ShapesOK, PromptsOK, [MemoryNext]_memoryVars PROVE PromptsOK'
  OBVIOUS
<1> USE DEF agentVars, dreamVars, answerVars, webVars, PromptsOK
<1>1. CASE Spawn \/ Stop
  BY <1>1 DEF Spawn, Stop
<1>2. CASE ProcessDies
  <2>1. <<>> \in Seq(SUBSET Names)
    OBVIOUS
  <2> QED BY <1>2, <2>1 DEF ProcessDies
<1>3. ASSUME NEW s \in Stores, Ready(s) \/ DreamFails(s) \/ DreamReturn(s) PROVE PromptsOK'
  BY <1>3 DEF Ready, DreamFails, DreamReturn
<1>4. ASSUME NEW s \in Stores, DreamLoad(s) PROVE PromptsOK'
  <2>1. asked' = [asked EXCEPT ![s] = Append(asked[s], {})] /\ UNCHANGED <<older, quoting>>
    BY <1>4 DEF DreamLoad
  <2>2. Append(asked[s], {}) \in Seq(SUBSET Names)
    BY PromptsAre
  <2> QED BY <2>1, <2>2
<1>5. ASSUME NEW s \in Stores, Receive(s) PROVE PromptsOK'
  <2>1. PICK i \in DOMAIN asked[s], a \in Parsed :
          /\ asked' = [asked EXCEPT ![s] = SubSeq(asked[s], i + 1, Len(asked[s]))]
          /\ older' = [older EXCEPT ![s] = asked[s][i] \cap DOMAIN a.update]
          /\ quoting' = quoting \/ quoting' = quoting \cup {s}
    BY <1>5, ZenonT(60) DEF Receive
  <2>2. asked[s] \in Seq(SUBSET Names)
    OBVIOUS
  <2>3. /\ asked[s][i] \in SUBSET Names
        /\ SubSeq(asked[s], i + 1, Len(asked[s])) \in Seq(SUBSET Names)
    BY <2>2, PromptsAre
  <2>4. asked' \in [Stores -> Seq(SUBSET Names)]
    BY <2>1, <2>3
  <2>5. older' \in [Stores -> SUBSET Names]
    <3>1. asked[s][i] \cap DOMAIN a.update \in SUBSET Names
      BY <2>3
    <3> QED BY <2>1, <3>1
  <2> QED BY <2>1, <2>4, <2>5
<1>6. ASSUME NEW s \in Stores, DreamSave(s) PROVE PromptsOK'
  <2>1. PICK n : older' = [older EXCEPT ![s] = older[s] \ {n}]
    BY <1>6 DEF DreamSave
  <2>2. UNCHANGED <<asked, quoting>>
    BY <1>6 DEF DreamSave
  <2> QED BY <2>1, <2>2
<1>7. ASSUME NEW w \in Writers, Write(w) PROVE PromptsOK'
  BY <1>7 DEF Write
<1>8. ASSUME NEW r \in Requests, WebGet(r) PROVE PromptsOK'
  BY <1>8 DEF WebGet
<1>9. ASSUME NEW r \in Requests, NEW n \in Names, NEW text \in UserTexts, WebSave(r, n, text)
      PROVE  PromptsOK'
  <2> DEFINE since == [i \in DOMAIN asked[got[r]] |-> asked[got[r]][i] \cup {n}]
  <2>1. got[r] \in Stores
    BY <1>9 DEF WebSave, ShapesOK
  <2>2. /\ asked' = [asked EXCEPT ![got[r]] = since]
        /\ \/ older' = [older EXCEPT ![got[r]] = older[got[r]] \cup {n}]
           \/ older' = [older EXCEPT ![got[r]] = older[got[r]]]
        /\ quoting' = quoting
    BY <1>9, ZenonT(60) DEF WebSave
  <2>3. since \in Seq(SUBSET Names)
    BY <2>1, PromptsAre
  <2> HIDE DEF since
  <2>4. asked' \in [Stores -> Seq(SUBSET Names)]
    BY <2>2, <2>3
  <2>5. older' \in [Stores -> SUBSET Names]
    <3>1. PICK written \in SUBSET Names : older' = [older EXCEPT ![got[r]] = written]
      <4>1. older[got[r]] \in SUBSET Names /\ older[got[r]] \cup {n} \in SUBSET Names
        BY <2>1
      <4> QED BY <2>2, <4>1
    <3> QED BY <3>1
  <2> QED BY <2>2, <2>4, <2>5
<1>10. CASE UNCHANGED memoryVars
  BY <1>10 DEF memoryVars
<1>11. ASSUME NEW s \in Stores, ReceivePanic(s) PROVE PromptsOK'
  BY <1>2, <1>11 DEF ReceivePanic
<1> QED BY <1>1, <1>2, <1>3, <1>4, <1>5, <1>6, <1>7, <1>8, <1>9, <1>10, <1>11
        DEF MemoryNext, DreamGoesOn, Writers

(* What is in the variables. Who is between the two steps of a Save has a  *)
(* name and a text, and the file is there.                                 *)
DreamTypes ==
  /\ \A n \in Names : file[n] = Absent \/ file[n] \in Seq(Tokens)
  /\ \A n \in Names : due[n] \in Seq(Tokens)
  /\ \A s \in Stores : IsTexts(update[s]) /\ IsTexts(meant[s])
  /\ \A w \in Writers : writing[w] # NoWrite =>
       /\ writing[w].name \in Names /\ writing[w].text \in Seq(Tokens)
       /\ file[writing[w].name] \in Seq(Tokens)
  /\ dreams \in 0..MaxDreams /\ served \subseteq Requests
  /\ spoilt \subseteq Names

(* A dream that has less to save.                                          *)
LEMMA LessTexts ==
  ASSUME NEW texts, IsTexts(texts), NEW n
  PROVE  IsTexts(Restrict(texts, DOMAIN texts \ {n}))
BY DEF IsTexts, Range, Restrict

(* A Save begins.                                                          *)
LEMMA TypesTruncate ==
  ASSUME ShapesOK, DreamTypes, NEW w \in Writers, NEW s \in Stores, NEW n \in Names,
         NEW text \in Seq(Tokens), Truncate(w, s, n, text),
         UNCHANGED <<dreams, served>>,
         \A d \in Stores : IsTexts(update'[d]) /\ IsTexts(meant'[d])
  PROVE  DreamTypes'
<1>1. \A m \in Names : file'[m] = IF m = n THEN <<>> ELSE file[m]
  BY DEF Truncate, ShapesOK
<1>2. <<>> \in Seq(Tokens)
  OBVIOUS
<1>3. \A v \in Writers : writing'[v] = IF v = w THEN [store |-> s, name |-> n, text |-> text]
                                              ELSE writing[v]
  BY DEF Truncate, ShapesOK
<1>4. spoilt' \subseteq Names /\ \A m \in Names : due'[m] = due[m] \/ due'[m] = text
  BY DEF Truncate, DreamTypes, ShapesOK
<1>5. \A m \in Names : file'[m] = Absent \/ file'[m] \in Seq(Tokens)
  BY <1>1, <1>2 DEF DreamTypes
<1>6. ASSUME NEW v \in Writers, writing'[v] # NoWrite
      PROVE  /\ writing'[v].name \in Names /\ writing'[v].text \in Seq(Tokens)
             /\ file'[writing'[v].name] \in Seq(Tokens)
  <2>1. CASE v = w
    <3>1. writing'[v].name = n /\ writing'[v].text = text
      BY <1>3, <2>1
    <3>2. file'[n] \in Seq(Tokens)
      BY <1>1, <1>2
    <3> QED BY <3>1, <3>2
  <2>2. CASE v # w
    <3>1. writing'[v] = writing[v] /\ writing[v] # NoWrite
      BY <1>3, <1>6, <2>2
    <3>2. /\ writing[v].name \in Names /\ writing[v].text \in Seq(Tokens)
          /\ file[writing[v].name] \in Seq(Tokens)
      BY <3>1 DEF DreamTypes
    <3> QED BY <1>1, <1>2, <3>1, <3>2
  <2> QED BY <2>1, <2>2
<1>7. \A m \in Names : due'[m] \in Seq(Tokens)
  BY <1>4 DEF DreamTypes
<1> QED BY <1>4, <1>5, <1>6, <1>7 DEF DreamTypes

(* One step per action.                                                    *)
LEMMA TypesStep ==
  ShapesOK /\ Placed /\ DreamTypes /\ [MemoryNext]_memoryVars => DreamTypes'
<1> SUFFICES ASSUME ShapesOK, Placed, DreamTypes, [MemoryNext]_memoryVars PROVE DreamTypes'
  OBVIOUS
<1> USE DEF agentVars, dreamVars, answerVars, webVars
<1>0. /\ Stores \subseteq Writers /\ Requests \subseteq Writers
      /\ Writers = Requests \cup Stores /\ MaxDreams \in Nat
  BY Bounds
<1>1. CASE Spawn
  <2>1. /\ UNCHANGED <<file, update, meant, dreams, writing, served, due>>
        /\ spoilt' \subseteq spoilt \cup Names
    BY <1>1 DEF Spawn
  <2> QED BY <2>1 DEF DreamTypes
<1>2. CASE Stop
  BY <1>2 DEF Stop, DreamTypes
<1>3. CASE ProcessDies
  <2>1. /\ UNCHANGED <<file, dreams, due>>
        /\ \A s \in Stores : update'[s] = NoFiles /\ meant'[s] = NoFiles
        /\ \A w \in Writers : writing'[w] = NoWrite
        /\ served' \subseteq served \cup Requests /\ spoilt' \subseteq spoilt \cup Names
    BY <1>3 DEF ProcessDies
  <2> QED BY <2>1, NoTexts DEF DreamTypes
<1>4. ASSUME NEW s \in Stores, Ready(s) PROVE DreamTypes'
  <2>1. /\ UNCHANGED <<update, meant, dreams, writing, served, due, spoilt>>
        /\ \A n \in Names : file'[n] = IF n \in create[s] THEN <<>> ELSE file[n]
    BY <1>4 DEF Ready
  <2>2. <<>> \in Seq(Tokens)
    OBVIOUS
  <2> QED BY <2>1, <2>2 DEF DreamTypes
<1>5. ASSUME NEW s \in Stores, DreamLoad(s) PROVE DreamTypes'
  <2>1. /\ UNCHANGED <<file, update, meant, writing, served, due, spoilt>>
        /\ dreams < MaxDreams /\ dreams' = dreams + 1
    BY <1>5 DEF DreamLoad
  <2>2. dreams' \in 0..MaxDreams
    BY <1>0, <2>1 DEF DreamTypes
  <2> QED BY <2>1, <2>2 DEF DreamTypes
<1>6. ASSUME NEW s \in Stores, Receive(s) PROVE DreamTypes'
  <2>1. PICK o \in Parsed :
          /\ update' = [update EXCEPT ![s] = o.update]
          /\ meant' = meant \/ meant' = [meant EXCEPT ![s] = o.files]
    BY <1>6, ZenonT(60) DEF Receive
  <2>2. UNCHANGED <<file, dreams, writing, served, due, spoilt>>
    BY <1>6 DEF Receive
  <2>3. IsTexts(o.update) /\ IsTexts(o.files)
    BY OutcomeIs
  <2>4. \A d \in Stores : /\ update'[d] = o.update \/ update'[d] = update[d]
                          /\ meant'[d] = o.files \/ meant'[d] = meant[d]
    BY <2>1 DEF ShapesOK
  <2>5. \A d \in Stores : IsTexts(update'[d]) /\ IsTexts(meant'[d])
    BY <2>3, <2>4 DEF DreamTypes
  <2> QED BY <2>2, <2>5 DEF DreamTypes
<1>7. ASSUME NEW s \in Stores, DreamReturn(s) \/ DreamFails(s) PROVE DreamTypes'
  BY <1>7 DEF DreamReturn, DreamFails, DreamTypes
<1>8. ASSUME NEW s \in Stores, DreamSave(s) PROVE DreamTypes'
  <2>1. PICK m \in DOMAIN update[s] :
          /\ Truncate(s, s, m, update[s][m])
          /\ update' = [update EXCEPT ![s] = Restrict(@, DOMAIN @ \ {m})]
          /\ meant' = [meant EXCEPT ![s] = Restrict(@, DOMAIN @ \ {m})]
    BY <1>8 DEF DreamSave
  <2>2. UNCHANGED <<dreams, served>>
    BY <1>8 DEF DreamSave
  <2>3. m \in Names /\ update[s][m] \in Seq(Tokens)
    BY DEF DreamTypes, IsTexts, Range
  <2>4. ASSUME NEW d \in Stores PROVE IsTexts(update'[d]) /\ IsTexts(meant'[d])
    <3>1. /\ update'[d] = IF d = s THEN Restrict(update[s], DOMAIN update[s] \ {m}) ELSE update[d]
          /\ meant'[d] = IF d = s THEN Restrict(meant[s], DOMAIN meant[s] \ {m}) ELSE meant[d]
      BY <2>1 DEF ShapesOK
    <3>2. /\ IsTexts(update[s]) /\ IsTexts(update[d])
          /\ IsTexts(meant[s]) /\ IsTexts(meant[d])
      BY DEF DreamTypes
    <3> QED BY <3>1, <3>2, LessTexts
  <2> QED BY <1>0, <2>1, <2>2, <2>3, <2>4, TypesTruncate
<1>9. ASSUME NEW r \in Requests, NEW n \in Names, NEW text \in UserTexts, WebSave(r, n, text)
      PROVE  DreamTypes'
  <2>1. /\ Truncate(r, got[r], n, text) /\ got[r] \in Stores
        /\ UNCHANGED <<update, meant, dreams, served>>
    BY <1>9 DEF WebSave, ShapesOK
  <2>2. text \in Seq(Tokens)
    BY TokensAre
  <2>3. \A d \in Stores : IsTexts(update'[d]) /\ IsTexts(meant'[d])
    BY <2>1 DEF DreamTypes
  <2> QED BY <1>0, <2>1, <2>2, <2>3, TypesTruncate
<1>10. ASSUME NEW w \in Writers, Write(w) PROVE DreamTypes'
  <2> DEFINE n == writing[w].name
             text == writing[w].text
             rest == SubSeq(file[n], Len(text) + 1, Len(file[n]))
  <2>1. /\ UNCHANGED <<update, meant, dreams, due>>
        /\ writing[w] # NoWrite
        /\ writing' = [writing EXCEPT ![w] = NoWrite]
        /\ file' = [file EXCEPT ![n] = text \o rest] \/ file' = file
        /\ spoilt' = spoilt \cup {n} \/ spoilt' = spoilt
        /\ served' \subseteq served \cup (Requests \cap {w})
    BY <1>10, ZenonT(60) DEF Write
  <2>2. n \in Names /\ text \in Seq(Tokens) /\ file[n] \in Seq(Tokens)
    BY <2>1 DEF DreamTypes
  <2> HIDE DEF n, text
  <2>3. text \o rest \in Seq(Tokens)
    <3>1. Len(text) + 1 \in Nat /\ Len(text) + 1 >= 1 /\ Len(file[n]) \in Nat
      BY <2>2
    <3>2. rest \in Seq(Tokens)
      BY <2>2, <3>1, SliceOf
    <3> QED BY <2>2, <3>2
  <2> HIDE DEF rest
  <2>4. \A m \in Names : file'[m] = file[m] \/ file'[m] \in Seq(Tokens)
    BY <2>1, <2>3 DEF ShapesOK
  <2>5. \A v \in Writers : writing'[v] # NoWrite => writing'[v] = writing[v]
    BY <2>1 DEF ShapesOK
  <2>6. ASSUME NEW v \in Writers, writing'[v] # NoWrite
        PROVE  /\ writing'[v].name \in Names /\ writing'[v].text \in Seq(Tokens)
               /\ file'[writing'[v].name] \in Seq(Tokens)
    BY <2>4, <2>5, <2>6 DEF DreamTypes
  <2>7. spoilt' \subseteq Names /\ served' \subseteq Requests
    BY <2>1, <2>2 DEF DreamTypes
  <2> QED BY <2>1, <2>4, <2>6, <2>7 DEF DreamTypes
<1>11. ASSUME NEW r \in Requests, WebGet(r) PROVE DreamTypes'
  BY <1>11 DEF WebGet, DreamTypes
<1>12. CASE UNCHANGED memoryVars
  BY <1>12 DEF memoryVars, DreamTypes
<1>13. ASSUME NEW s \in Stores, ReceivePanic(s) PROVE DreamTypes'
  BY <1>3, <1>13 DEF ReceivePanic
<1> QED BY <1>0, <1>1, <1>2, <1>3, <1>4, <1>5, <1>6, <1>7, <1>8, <1>9, <1>10, <1>11, <1>12, <1>13
        DEF MemoryNext, DreamGoesOn

(* Files are empty or absent, and nothing is written at first.             *)
LEMMA TypesInit == MemoryInit => ShapesOK /\ Placed /\ PromptsOK /\ DreamTypes
<1> SUFFICES ASSUME MemoryInit PROVE ShapesOK /\ Placed /\ PromptsOK /\ DreamTypes
  OBVIOUS
<1>1. ShapesOK
  BY Bounds DEF MemoryInit, ShapesOK, Stages, Stores
<1>2. Placed
  BY Bounds DEF MemoryInit, Placed
<1>3. <<>> \in Seq(Tokens) /\ <<>> \in Seq(SUBSET Names)
  OBVIOUS
<1>4. PromptsOK
  BY <1>3 DEF MemoryInit, PromptsOK
<1>5. \A n \in Names : (file[n] = Absent \/ file[n] \in Seq(Tokens)) /\ due[n] \in Seq(Tokens)
  BY <1>3 DEF MemoryInit
<1>6. /\ \A s \in Stores : update[s] = NoFiles /\ meant[s] = NoFiles
      /\ \A w \in Writers : writing[w] = NoWrite
      /\ dreams \in 0..MaxDreams /\ served \subseteq Requests /\ spoilt \subseteq Names
  BY Bounds DEF MemoryInit
<1>7. DreamTypes
  BY <1>5, <1>6, NoTexts DEF DreamTypes
<1> QED BY <1>1, <1>2, <1>4, <1>7

(* The locks (Placed) are part of it: they say whose texts are written.    *)
TypesInv == ShapesOK /\ Placed /\ PromptsOK /\ DreamTypes

LEMMA TypesInvariant == MemorySpec => []TypesInv
<1>1. MemoryInit => TypesInv
  BY TypesInit DEF TypesInv
<1>2. TypesInv /\ [MemoryNext]_memoryVars => TypesInv'
  BY ShapesStep, PlacedStep, PromptsStep, TypesStep DEF TypesInv
<1> QED BY <1>1, <1>2, PTL DEF MemorySpec

(* Types of the files and of the dreams, with what a lock is for: no two   *)
(* writers hold the same store (store.go:24).                              *)
THEOREM MemoryTypesCorrect == MemorySpec => []MemoryTypeOK
<1>1. ASSUME TypesInv PROVE MemoryTypeOK
  <2>1. ShapesOK /\ Placed /\ PromptsOK /\ DreamTypes
    BY <1>1 DEF TypesInv
  <2>2. ASSUME NEW v \in Writers, NEW w \in Writers, writing[v].store = writing[w].store,
               v # w, writing[v] # NoWrite
        PROVE  FALSE
    <3>1. writing[v].store # 0
      <4>1. Writers = Requests \cup Stores /\ 0 \notin Stores
        BY Bounds
      <4>2. CASE v \in Requests
        BY <2>1, <2>2, <4>2 DEF Placed
      <4>3. CASE v \in Stores
        BY <2>1, <2>2, <4>1, <4>3 DEF Placed
      <4> QED BY <4>1, <4>2, <4>3
    <3>2. writing[w] # NoWrite
      BY <2>2, <3>1 DEF NoWrite
    <3> QED BY <2>1, <2>2, <3>2 DEF Placed
  <2>3. DOMAIN file = Names /\ DOMAIN due = Names
    BY <2>1 DEF ShapesOK
  <2>4. Range(due) \subseteq Seq(Tokens)
    BY <2>1, <2>3 DEF DreamTypes, Range
  <2> QED BY <2>1, <2>2, <2>3, <2>4
          DEF ShapesOK, Stages, PromptsOK, DreamTypes, MemoryTypeOK
<1> QED BY <1>1, TypesInvariant, PTL

-----------------------------------------------------------------------------
(* Writer w is between the two steps of a Save of file n.                  *)
Writing(w, n) == writing[w] # NoWrite /\ writing[w].name = n

(* The files that NoWriteLost speaks of.                                   *)
Unspoilt == Names \ spoilt

(* Such a file is written through the last store only, into an empty file, *)
(* with the text that is due; Init finds nothing to destroy; and whenever  *)
(* nobody is between the two steps of a Save, the file holds what is due.  *)
Kept(n) ==
  /\ \A w \in Writers : Writing(w, n) =>
       writing[w].store = spawned /\ file[n] = <<>> /\ writing[w].text = due[n]
  /\ \A s \in Stores : s = spawned /\ at[s] = "init" /\ n \in create[s] => Text(n) = <<>>
  /\ (\A w \in Writers : ~Writing(w, n)) => Text(n) = due[n]

FilesKept == \A n \in Unspoilt : Kept(n)

(* The exceptions of NoWriteLost only grow.                                *)
LEMMA SpoiltGrows == [MemoryNext]_memoryVars => Unspoilt' \subseteq Unspoilt
<1> SUFFICES ASSUME [MemoryNext]_memoryVars PROVE spoilt \subseteq spoilt'
  BY DEF Unspoilt
<1>1. ASSUME NEW s \in Stores,
             Ready(s) \/ DreamLoad(s) \/ Receive(s) \/ DreamFails(s) \/ DreamReturn(s)
      PROVE  spoilt \subseteq spoilt'
  BY <1>1 DEF Ready, DreamLoad, Receive, DreamFails, DreamReturn
<1>2. ASSUME NEW s \in Stores, DreamSave(s) PROVE spoilt \subseteq spoilt'
  BY <1>2 DEF DreamSave, Truncate
<1>3. CASE Spawn \/ Stop \/ ProcessDies
  BY <1>3 DEF Spawn, Stop, ProcessDies
<1>4. ASSUME NEW s \in Stores, ReceivePanic(s) PROVE spoilt \subseteq spoilt'
  BY <1>3, <1>4, SMTT(60) DEF ReceivePanic
<1>5. ASSUME NEW w, Write(w) PROVE spoilt \subseteq spoilt'
  BY <1>5 DEF Write
<1>6. ASSUME NEW r, NEW n, NEW text, WebGet(r) \/ WebSave(r, n, text)
      PROVE  spoilt \subseteq spoilt'
  BY <1>6 DEF WebGet, WebSave, Truncate
<1>7. CASE UNCHANGED memoryVars
  BY <1>7 DEF memoryVars
<1> QED BY <1>1, <1>2, <1>3, <1>4, <1>5, <1>6, <1>7 DEF MemoryNext, DreamGoesOn

(* Nobody else writes a file that is not spoilt.                           *)
LEMMA WriterAlone ==
  ASSUME Placed, NEW n \in Unspoilt, Kept(n),
         NEW v \in Writers, NEW w \in Writers, Writing(v, n), Writing(w, n)
  PROVE  v = w
BY DEF Kept, Placed, Writing

(* Over an empty file a Save writes its text and nothing else.             *)
LEMMA OverEmpty ==
  ASSUME NEW text \in Seq(Tokens)
  PROVE  text \o SubSeq(<<>>, Len(text) + 1, Len(<<>>)) = text
<1>1. Len(text) \in Nat /\ Len(<<>>) = 0
  BY LenProperties
<1>2. SubSeq(<<>>, Len(text) + 1, Len(<<>>)) = <<>>
  BY <1>1
<1> QED BY <1>2

(* A step that leaves the files and the writers alone.                     *)
LEMMA KeptAside ==
  ASSUME UNCHANGED <<file, writing, due, spawned>>, NEW n \in Unspoilt, Kept(n),
         \A s \in Stores : s = spawned /\ at'[s] = "init" /\ n \in create'[s] =>
                             at[s] = "init" /\ n \in create[s]
  PROVE  Kept(n)'
BY DEF Kept, Writing, Text

(* The first half of a Save, by a dream or for a request.                  *)
LEMMA KeptTruncate ==
  ASSUME ShapesOK, NEW n \in Unspoilt, n \in Unspoilt', Kept(n),
         NEW w \in Writers, NEW s \in Stores, NEW m, NEW text,
         writing[w] = NoWrite, Truncate(w, s, m, text),
         UNCHANGED <<spawned, at, create>>
  PROVE  Kept(n)'
<1>1. \A v \in Writers : writing'[v] = IF v = w THEN [store |-> s, name |-> m, text |-> text]
                                              ELSE writing[v]
  BY DEF Truncate, ShapesOK
<1>2. \A v \in Writers : v # w => (Writing(v, n)' <=> Writing(v, n))
  BY <1>1 DEF Writing
<1>3. ~Writing(w, n)
  BY DEF Writing
<1>4. Writing(w, n)' <=> m = n
  <2>1. writing'[w] = [store |-> s, name |-> m, text |-> text]
    BY <1>1
  <2>2. [store |-> s, name |-> m, text |-> text] # NoWrite
    BY Bounds DEF NoWrite
  <2> QED BY <2>1, <2>2 DEF Writing
<1>5. file'[n] = IF m = n THEN <<>> ELSE file[n]
  BY DEF Truncate, ShapesOK, Unspoilt
<1>6. \A d \in Stores : d = spawned' /\ at'[d] = "init" /\ n \in create'[d] => Text(n)' = <<>>
  BY <1>5 DEF Kept, Text
<1>7. CASE m = n
  <2>1. s = spawned /\ due' = [due EXCEPT ![n] = text]
    BY <1>7 DEF Truncate, Unspoilt, Current
  <2>2. due'[n] = text
    BY <2>1 DEF ShapesOK, Unspoilt
  <2>3. \A v \in Writers : v # w => ~Writing(v, n)
    BY <2>1 DEF Truncate, Free, Kept
  <2>4. \A v \in Writers : Writing(v, n)' <=> v = w
    BY <1>2, <1>4, <1>7, <2>3
  <2>5. \A v \in Writers : Writing(v, n)' =>
          writing'[v].store = spawned' /\ file'[n] = <<>> /\ writing'[v].text = due'[n]
    BY <1>1, <1>5, <1>7, <2>1, <2>2, <2>4
  <2> QED BY <1>6, <2>4, <2>5 DEF Kept
<1>8. CASE m # n
  <2>1. \A v \in Writers : Writing(v, n)' => Writing(v, n) /\ writing'[v] = writing[v]
    BY <1>1, <1>2, <1>4, <1>8
  <2>2. file'[n] = file[n] /\ Text(n)' = Text(n)
    BY <1>5, <1>8 DEF Text
  <2>3. due'[n] = due[n]
    BY <1>8 DEF Truncate, ShapesOK, Unspoilt
  <2>4. (\A v \in Writers : ~Writing(v, n)') => \A v \in Writers : v # w => ~Writing(v, n)
    BY <1>2
  <2>5. (\A v \in Writers : ~Writing(v, n)') => Text(n)' = due'[n]
    BY <1>3, <2>2, <2>3, <2>4 DEF Kept
  <2>6. \A v \in Writers : Writing(v, n)' =>
          writing'[v].store = spawned' /\ file'[n] = <<>> /\ writing'[v].text = due'[n]
    BY <2>1, <2>2, <2>3 DEF Kept
  <2> QED BY <1>6, <2>5, <2>6 DEF Kept
<1> QED BY <1>7, <1>8

(* The second half of a Save, whole or with an error.                      *)
LEMMA KeptWrite ==
  ASSUME ShapesOK, Placed, DreamTypes, NEW n \in Unspoilt, n \in Unspoilt', Kept(n),
         NEW w \in Writers, Write(w)
  PROVE  Kept(n)'
<1> USE DEF agentVars, dreamVars
<1>0. UNCHANGED <<spawned, at, create, due>> /\ writing[w] # NoWrite
  BY ZenonT(60) DEF Write
<1>1. \A v \in Writers : writing'[v] = IF v = w THEN NoWrite ELSE writing[v]
  BY DEF Write, ShapesOK
<1>2. \A v \in Writers : Writing(v, n)' <=> v # w /\ Writing(v, n)
  BY <1>1 DEF Writing
<1>3. CASE ~Writing(w, n)
  <2>1. writing[w].name # n
    BY <1>0, <1>3, SMTT(60) DEF Writing
  <2>2. file'[n] = file[n]
    BY <2>1 DEF Write, ShapesOK, Unspoilt
  <2>3. Text(n)' = Text(n)
    BY <2>2 DEF Text
  <2>4. \A v \in Writers : Writing(v, n)' =>
          writing'[v].store = spawned' /\ file'[n] = <<>> /\ writing'[v].text = due'[n]
    BY <1>0, <1>1, <1>2, <2>2 DEF Kept
  <2>5. (\A v \in Writers : ~Writing(v, n)') => Text(n)' = due'[n]
    BY <1>0, <1>2, <1>3, <2>3 DEF Kept
  <2> QED BY <1>0, <2>3, <2>4, <2>5 DEF Kept
<1>4. CASE Writing(w, n)
  <2> DEFINE text == writing[w].text
  <2>1. \A v \in Writers : ~Writing(v, n)'
    BY <1>2, <1>4, WriterAlone
  <2>2. /\ writing[w].name = n /\ writing[w].store = spawned /\ file[n] = <<>>
        /\ text = due[n] /\ n \in Names
    BY <1>4, SMTT(60) DEF Writing, Kept, Unspoilt
  <2>3. file'[n] = text \o SubSeq(file[n], Len(text) + 1, Len(file[n]))
    <3>1. n \notin spoilt'
      BY DEF Unspoilt
    <3> QED BY <2>2, <3>1 DEF Write, ShapesOK
  <2>4. text \in Seq(Tokens)
    BY <1>0 DEF DreamTypes
  <2>5. file'[n] = due'[n]
    BY <1>0, <2>2, <2>3, <2>4, OverEmpty
  <2>6. Text(n)' = due'[n]
    BY <1>0, <2>2, <2>4, <2>5, DreamingAssumption DEF Text
  <2>7. spawned \in Stores => at[spawned] # "init"
    <3>1. CASE w \in Requests
      BY <1>0, <2>2, <3>1 DEF Placed
    <3>2. CASE w \in Stores
      BY <1>0, <2>2, <3>2 DEF Placed
    <3> QED BY <3>1, <3>2, Bounds
  <2> QED BY <1>0, <2>1, <2>6, <2>7 DEF Kept
<1> QED BY <1>3, <1>4, SMTT(60)

(* Every step keeps every file that it does not spoil.                     *)
LEMMA KeptStep ==
  TypesInv /\ FilesKept /\ [MemoryNext]_memoryVars => FilesKept'
<1> SUFFICES ASSUME ShapesOK, Placed, DreamTypes, FilesKept, [MemoryNext]_memoryVars,
                    NEW n \in Unspoilt'
             PROVE  Kept(n)'
  BY DEF TypesInv, FilesKept
<1> USE DEF agentVars, dreamVars, answerVars, webVars
<1>0. n \in Unspoilt /\ Kept(n) /\ n \in Names
  BY SpoiltGrows DEF FilesKept, Unspoilt
<1>1. CASE Spawn
  <2>1. /\ UNCHANGED <<file, writing, due>>
        /\ spawned' = spawned + 1 /\ spawned' \in Stores
        /\ create' = [create EXCEPT ![spawned'] = {m \in DefaultFiles : file[m] = Absent}]
    BY <1>1, Bounds DEF Spawn, ShapesOK, Stores
  <2>2. \A w \in Writers : ~Writing(w, n)
    BY <1>0, <1>1 DEF Spawn, Unspoilt, Writing
  <2>3. n \in create'[spawned'] => Text(n) = <<>>
    BY <2>1 DEF ShapesOK, Text
  <2>4. \A w \in Writers : ~Writing(w, n)'
    BY <2>1, <2>2 DEF Writing
  <2>5. Text(n)' = Text(n) /\ Text(n) = due'[n]
    BY <1>0, <2>1, <2>2 DEF Text, Kept
  <2> QED BY <2>3, <2>4, <2>5 DEF Kept
<1>2. CASE Stop
  BY <1>0, <1>2, KeptAside DEF Stop
<1>3. CASE ProcessDies
  <2>1. /\ UNCHANGED <<file, due, spawned>>
        /\ \A w \in Writers : writing'[w] = NoWrite
        /\ \A s \in Stores : at'[s] \in {"gone", "unborn"}
    BY <1>3 DEF ProcessDies
  <2>2. \A w \in Writers : ~Writing(w, n)
    BY <1>0, <1>3 DEF ProcessDies, Unspoilt, Writing
  <2>3. \A w \in Writers : ~Writing(w, n)'
    BY <2>1 DEF Writing
  <2>4. Text(n)' = due'[n]
    BY <1>0, <2>1, <2>2 DEF Text, Kept
  <2> QED BY <2>1, <2>3, <2>4 DEF Kept
<1>4. ASSUME NEW s \in Stores, Ready(s) PROVE Kept(n)'
  <2>1. /\ UNCHANGED <<writing, due, spawned>>
        /\ at[s] = "init" /\ s = spawned
        /\ file'[n] = IF n \in create[s] THEN <<>> ELSE file[n]
    BY <1>0, <1>4 DEF Ready, Current
  <2>2. at'[s] = "live"
    BY <1>4 DEF Ready, Goto, ShapesOK
  <2>3. Text(n)' = Text(n) /\ (file[n] = <<>> => file'[n] = <<>>)
    BY <1>0, <2>1 DEF Text, Kept
  <2>4. \A w \in Writers : Writing(w, n)' <=> Writing(w, n)
    BY <2>1 DEF Writing
  <2>5. \A w \in Writers : Writing(w, n)' =>
          writing'[w].store = spawned' /\ file'[n] = <<>> /\ writing'[w].text = due'[n]
    BY <1>0, <2>1, <2>3, <2>4 DEF Kept
  <2>6. (\A w \in Writers : ~Writing(w, n)') => Text(n)' = due'[n]
    BY <1>0, <2>1, <2>3, <2>4 DEF Kept
  <2> QED BY <2>1, <2>2, <2>5, <2>6 DEF Kept
<1>5. ASSUME NEW s \in Stores, DreamLoad(s) \/ Receive(s) \/ DreamFails(s) \/ DreamReturn(s)
      PROVE  Kept(n)'
  <2>1. UNCHANGED <<file, writing, due, spawned, create>>
    BY <1>5 DEF DreamLoad, Receive, DreamFails, DreamReturn
  <2>2. \A d \in Stores : at'[d] = "init" => at[d] = "init"
    BY <1>5 DEF DreamLoad, Receive, DreamFails, DreamReturn, Goto, ShapesOK
  <2> QED BY <1>0, <2>1, <2>2, KeptAside
<1>6. ASSUME NEW s \in Stores, DreamSave(s) PROVE Kept(n)'
  <2>1. PICK m : Truncate(s, s, m, update[s][m])
    BY <1>6 DEF DreamSave
  <2>2. writing[s] = NoWrite /\ UNCHANGED <<spawned, at, create>> /\ s \in Writers
    BY <1>6, Bounds DEF DreamSave
  <2> QED BY <1>0, <2>1, <2>2, KeptTruncate
<1>7. ASSUME NEW r \in Requests, NEW m \in Names, NEW text \in UserTexts, WebSave(r, m, text)
      PROVE  Kept(n)'
  <2>1. /\ got[r] \in Stores /\ r \in Writers
        /\ writing[r] = NoWrite /\ Truncate(r, got[r], m, text)
        /\ UNCHANGED <<spawned, at, create>>
    BY <1>7, Bounds DEF WebSave, ShapesOK
  <2> QED BY <1>0, <2>1, KeptTruncate
<1>8. ASSUME NEW w \in Writers, Write(w) PROVE Kept(n)'
  BY <1>0, <1>8, KeptWrite
<1>9. ASSUME NEW r \in Requests, WebGet(r) PROVE Kept(n)'
  BY <1>0, <1>9, KeptAside DEF WebGet
<1>10. CASE UNCHANGED memoryVars
  BY <1>0, <1>10, KeptAside DEF memoryVars
<1>11. ASSUME NEW s \in Stores, ReceivePanic(s) PROVE Kept(n)'
  BY <1>3, <1>11 DEF ReceivePanic
<1> QED BY <1>1, <1>2, <1>3, <1>4, <1>5, <1>6, <1>7, <1>8, <1>9, <1>10, <1>11, Bounds
        DEF MemoryNext, DreamGoesOn

(* A memory file holds, whole, what the user last wrote into it, or what a *)
(* dream whose prompt is no older has saved since, across deaths and       *)
(* agents fired and hired again (store.go:24, dreamer.go:41-80), unless a  *)
(* dream with an older prompt has saved it, the agent of its store was     *)
(* stopped, or a death or an error cut it off. The texts that dreams save  *)
(* are any that the parser makes of any answer.                            *)
THEOREM WritesRemain ==
  MemorySpec => []NoWriteLost
<1>1. MemoryInit => FilesKept
  <2> SUFFICES ASSUME MemoryInit PROVE FilesKept
    OBVIOUS
  <2>1. \A w \in Writers, n \in Names : ~Writing(w, n)
    BY DEF MemoryInit, Writing
  <2>2. \A n \in Names : Text(n) = <<>> /\ due[n] = <<>>
    BY DEF MemoryInit, Text
  <2> QED BY <2>1, <2>2 DEF FilesKept, Kept, Unspoilt
<1>2. FilesKept => NoWriteLost
  BY DEF FilesKept, Kept, NoWriteLost, Unspoilt, Writing
<1> QED BY <1>1, <1>2, KeptStep, TypesInvariant, PTL DEF MemorySpec

-----------------------------------------------------------------------------
(* Only Receive gives a dream something to save, and, if the answer quotes *)
(* nothing, only what it means; DreamSave takes from both, and no other    *)
(* step touches them.                                                      *)
MeansIt(s) == \A n \in DOMAIN update[s] : n \in DOMAIN meant[s] /\ update[s][n] = meant[s][n]

LEMMA SavesStep ==
  TypesInv /\ SavesWhatWasMeant /\ [MemoryNext]_memoryVars => SavesWhatWasMeant'
<1> SUFFICES ASSUME TypesInv, SavesWhatWasMeant, [MemoryNext]_memoryVars,
                    NEW d \in Stores, d \notin quoting', at'[d] = "saving"
             PROVE  MeansIt(d)'
  BY DEF SavesWhatWasMeant, MeansIt
<1> USE DEF agentVars, dreamVars, answerVars, webVars
<1>0. /\ ShapesOK /\ Placed /\ Writers = Requests \cup Stores
      /\ at[d] = "saving" /\ d \notin quoting => MeansIt(d)
  BY Bounds DEF TypesInv, SavesWhatWasMeant, MeansIt
<1>1. ASSUME at[d] = "saving", d \notin quoting, UNCHANGED <<update, meant>> PROVE MeansIt(d)'
  BY <1>0, <1>1 DEF MeansIt
<1>2. CASE Spawn
  <2>1. at[d] = "saving"
    BY <1>0, <1>2 DEF Spawn, Goto, ShapesOK
  <2> QED BY <1>1, <1>2, <2>1 DEF Spawn
<1>3. CASE Stop
  BY <1>1, <1>3 DEF Stop
<1>4. CASE ProcessDies
  BY <1>4 DEF ProcessDies
<1>5. ASSUME NEW s \in Stores, Ready(s) \/ DreamLoad(s) \/ DreamFails(s) \/ DreamReturn(s)
      PROVE  MeansIt(d)'
  <2>1. UNCHANGED <<update, meant>> /\ quoting \subseteq quoting' \cup {s}
    BY <1>5 DEF Ready, DreamLoad, DreamFails, DreamReturn
  <2>2. at' \in {[at EXCEPT ![s] = p] : p \in {"live", "loaded"}}
    BY <1>5 DEF Ready, DreamLoad, DreamFails, DreamReturn, Goto
  <2>3. d # s /\ at[d] = "saving"
    BY <1>0, <2>2 DEF ShapesOK
  <2> QED BY <1>1, <2>1, <2>3
<1>6. ASSUME NEW s \in Stores, Receive(s) PROVE MeansIt(d)'
  <2>1. PICK o \in Parsed :
          /\ update' = [update EXCEPT ![s] = o.update]
          /\ IF o.update = NoFiles
             THEN at' = [at EXCEPT ![s] = "live"] /\ UNCHANGED <<meant, quoting>>
             ELSE /\ at' = [at EXCEPT ![s] = "saving"]
                  /\ IF o.quotes THEN quoting' = quoting \cup {s} /\ UNCHANGED meant
                     ELSE meant' = [meant EXCEPT ![s] = o.files] /\ UNCHANGED quoting
    BY <1>6, ZenonT(60) DEF Receive, Goto
  <2>2. CASE d = s
    <3>1. o.update # NoFiles
      BY <1>0, <2>1, <2>2 DEF ShapesOK
    <3>2. ~o.quotes
      BY <2>1, <2>2, <3>1
    <3>3. update'[d] = o.update /\ meant'[d] = o.files
      BY <1>0, <2>1, <2>2, <3>1, <3>2 DEF ShapesOK
    <3> QED BY <3>2, <3>3, OutcomeIs DEF MeansIt
  <2>3. CASE d # s
    <3>1. at[d] = "saving" /\ update'[d] = update[d] /\ meant'[d] = meant[d]
      BY <1>0, <2>1, <2>3 DEF ShapesOK
    <3>2. d \notin quoting
      BY <2>1
    <3> QED BY <1>0, <3>1, <3>2 DEF MeansIt
  <2> QED BY <2>2, <2>3
<1>7. ASSUME NEW s \in Stores, DreamSave(s) PROVE MeansIt(d)'
  <2>1. PICK m : /\ update' = [update EXCEPT ![s] = Restrict(@, DOMAIN @ \ {m})]
                 /\ meant' = [meant EXCEPT ![s] = Restrict(@, DOMAIN @ \ {m})]
    BY <1>7 DEF DreamSave
  <2>2. UNCHANGED <<at, quoting>>
    BY <1>7 DEF DreamSave
  <2>3. /\ update'[d] = IF d = s THEN Restrict(update[s], DOMAIN update[s] \ {m}) ELSE update[d]
        /\ meant'[d] = IF d = s THEN Restrict(meant[s], DOMAIN meant[s] \ {m}) ELSE meant[d]
    BY <1>0, <2>1 DEF ShapesOK
  <2> QED BY <1>0, <2>2, <2>3 DEF MeansIt, Restrict
<1>8. ASSUME NEW w \in Writers, Write(w) PROVE MeansIt(d)'
  <2>1. UNCHANGED <<at, quoting, update, meant>>
    BY <1>8, ZenonT(60) DEF Write
  <2> QED BY <1>1, <2>1
<1>9. ASSUME NEW r \in Requests, WebGet(r) PROVE MeansIt(d)'
  BY <1>1, <1>9 DEF WebGet
<1>10. ASSUME NEW r \in Requests, NEW n \in Names, NEW text \in UserTexts, WebSave(r, n, text)
       PROVE  MeansIt(d)'
  BY <1>1, <1>10 DEF WebSave
<1>11. CASE UNCHANGED memoryVars
  BY <1>1, <1>11 DEF memoryVars
<1>12. ASSUME NEW s \in Stores, ReceivePanic(s) PROVE MeansIt(d)'
  BY <1>4, <1>12 DEF ReceivePanic
<1> QED BY <1>0, <1>2, <1>3, <1>4, <1>5, <1>6, <1>7, <1>8, <1>9, <1>10, <1>11, <1>12
        DEF MemoryNext, DreamGoesOn

(* A dream saves nothing but what claude meant to save, wherever the       *)
(* answer breaks off and whatever stands in front of it (dreamer.go:69-80, *)
(* parser.go:24), unless the answer quotes the protocol: with a start      *)
(* marker in front of its own, or with a marker in a file.                 *)
THEOREM DreamsSaveWhatWasMeant == MemorySpec => []SavesWhatWasMeant
<1>1. MemoryInit => SavesWhatWasMeant
  BY DEF MemoryInit, SavesWhatWasMeant
<1> QED BY <1>1, SavesStep, TypesInvariant, PTL DEF MemorySpec
=============================================================================

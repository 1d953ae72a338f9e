--------------------------- MODULE RequestService ---------------------------
(***************************************************************************)
(* What an agent promises to those who submit requests, without a queue,   *)
(* a select or a session: accepted requests are finished in the order in   *)
(* which they were accepted, each of them once, and the service stops only *)
(* at a moment when it owes nothing. A request that is accepted after that *)
(* moment stays unanswered.                                                *)
(***************************************************************************)
EXTENDS Naturals, Sequences

CONSTANT Requests     (* the requests that may be submitted                *)

VARIABLES
  accepted,    (* the requests accepted so far, in order                   *)
  finished,    (* the requests finished so far, in order                   *)
  stopped

vars == <<accepted, finished, stopped>>

Init ==
  /\ accepted = <<>>
  /\ finished = <<>>
  /\ stopped = FALSE

Accept(r) ==
  /\ accepted' = Append(accepted, r)
  /\ UNCHANGED <<finished, stopped>>

Finish ==
  /\ ~stopped
  /\ Len(finished) < Len(accepted)
  /\ finished' = Append(finished, accepted[Len(finished) + 1])
  /\ UNCHANGED <<accepted, stopped>>

Stop ==
  /\ ~stopped
  /\ Len(finished) = Len(accepted)
  /\ stopped' = TRUE
  /\ UNCHANGED <<accepted, finished>>

Next == (\E r \in Requests : Accept(r)) \/ Finish \/ Stop

Spec == Init /\ [][Next]_vars

(* A service that has not stopped does not leave a request waiting.        *)
FairSpec == Spec /\ WF_vars(Finish)
=============================================================================

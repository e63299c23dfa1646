------------------------------ MODULE CommState ------------------------------
(***************************************************************************)
(* The session state each end of a link keeps beside the link itself       *)
(* (kbd_comm_state_t) and its transition on a packet from the peer.  Every *)
(* non-empty packet starts with the sender's state; an end in reset sends  *)
(* packets that carry nothing, which the receiver does not hand on.        *)
(***************************************************************************)

CommState == {"init", "ready", "data", "reset"}

Nothing == "nothing"

\* Faulty variants: a restarted peer is met without a reset; a peer that is ahead
\* by one step is not met at all.
UpdateWithoutReset(own, peer) ==
  IF own = "init" /\ peer \in {"init", "ready"} THEN "ready"
  ELSE IF own = "ready" /\ peer # "init" THEN "data"
  ELSE IF own = "data" /\ peer = "init" THEN "ready"
  ELSE own
UpdateInStep(own, peer) ==
  IF own = "init" /\ peer = "init" THEN "ready"
  ELSE IF own = "ready" /\ peer = "ready" THEN "data"
  ELSE IF own = "data" /\ peer = "init" THEN "reset"
  ELSE own

\* update_comm_state: the state after a packet from a peer in state peer.
update_comm_state(own, peer) ==
  IF own = "init" /\ peer \in {"init", "ready"} THEN "ready"
  ELSE IF own = "ready" /\ peer # "init" THEN "data"
  ELSE IF own = "data" /\ peer = "init" THEN "reset"
  ELSE own

Report == {"init", "ready", "data", Nothing}

\* Faulty variant: packets are filled in reset too.
ReportedAlways(own) == own

\* The state comm_produce reports, if it reports one.
Reported(own) == IF own = "reset" THEN Nothing ELSE own

=============================================================================

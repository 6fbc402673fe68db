----------------------------- MODULE Lifecycle -----------------------------
(***************************************************************************)
(* The fixture status machine of app/services/lifecycle.py: which status   *)
(* may follow which, and for whom.  Every handler that moves a fixture     *)
(* consults AssertTransition, except "correct", which sets COMPLETED       *)
(* from any status.                                                        *)
(***************************************************************************)

Transitions ==
  [ DRAFT        |-> {"SCHEDULED", "CANCELLED"},
    SCHEDULED    |-> {"WARMUP", "LIVE", "DELAYED", "POSTPONED", "CANCELLED",
                      "WALKOVER"},
    WARMUP       |-> {"LIVE", "DELAYED", "POSTPONED", "CANCELLED", "WALKOVER"},
    LIVE         |-> {"HALF_TIME", "PERIOD_BREAK", "PAUSED", "COMPLETED",
                      "UNDER_REVIEW"},
    HALF_TIME    |-> {"LIVE", "PERIOD_BREAK", "PAUSED"},
    PERIOD_BREAK |-> {"LIVE", "PAUSED"},
    PAUSED       |-> {"LIVE", "HALF_TIME", "POSTPONED", "CANCELLED"},
    DELAYED      |-> {"SCHEDULED", "LIVE", "POSTPONED", "CANCELLED"},
    POSTPONED    |-> {"SCHEDULED", "CANCELLED"},
    UNDER_REVIEW |-> {"LIVE", "COMPLETED", "CANCELLED"},
    COMPLETED    |-> {"UNDER_REVIEW", "LIVE"},
    WALKOVER     |-> {"UNDER_REVIEW"},
    CANCELLED    |-> {"SCHEDULED"} ]

Status ==
  {"DRAFT", "SCHEDULED", "WARMUP", "LIVE", "HALF_TIME", "PERIOD_BREAK",
   "PAUSED", "DELAYED", "POSTPONED", "COMPLETED", "CANCELLED", "WALKOVER",
   "UNDER_REVIEW"}

LiveEditable == {"WARMUP", "LIVE", "HALF_TIME", "PERIOD_BREAK", "PAUSED"}

AdminOnlyFrom == {"COMPLETED", "WALKOVER", "CANCELLED"}

CanTransition(current, target) == target \in Transitions[current]

(* The test of equality comes first: a move to the status the fixture      *)
(* already has is accepted from anybody, terminal or not.                  *)
AssertTransition(current, target, isAdmin) ==
  \/ current = target
  \/ /\ CanTransition(current, target)
     /\ current \in AdminOnlyFrom => isAdmin
=============================================================================

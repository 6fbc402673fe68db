--------------------------- MODULE FixtureService ---------------------------
(***************************************************************************)
(* What the fixture endpoints promise, one request at a time: each step is *)
(* one accepted request, and its effect is the whole effect.  The steps    *)
(* say what is promised (who may do it, from where, and how far the        *)
(* version and the live row go along), not how a handler does it:          *)
(* FixtureTxn has the handlers, and shows when they keep this promise.     *)
(***************************************************************************)
EXTENDS FixtureTables

VARIABLES row, live

vars == <<row, live>>

(* create_fixture leaves a live row, the seed leaves none. *)
Init == \E o \in Origin : row = o.row /\ live = o.live

(* The statuses an endpoint moves a fixture to, and those of an admin.     *)
(* COMPLETED is reached by an official, or from anywhere by "correct".     *)
Targets == {"LIVE", "PAUSED", "COMPLETED"}
AdminTargets == {"UNDER_REVIEW", "POSTPONED", "CANCELLED"}

(* start, pause, resume, complete; reopen, postpone, cancel.               *)
(* Only a start makes the live row a fixture does not have.                *)
Move(u, target) ==
  /\ \/ target \in Targets /\ Assigned(row, u)
     \/ target \in AdminTargets /\ IsAdmin(u)
  /\ AssertTransition(row.status, target, IsAdmin(u))
  /\ row' = Bumped(row, target)
  /\ \/ live' = Follow(live, row)
     \/ target = "LIVE" /\ live' = Follow(EnsureLive(live), row)

(* An official keeps the score of a match under way; a period may be set   *)
(* in any status.  With no other request about, the expected_version of    *)
(* the payload is that of the row.                                         *)
KeepScore(u) == \E score \in Scores \cup
                             {AddScore(EnsureLive(live).score, d) : d \in Deltas},
                   period \in Periods :
  /\ Assigned(row, u)
  /\ row.status \in LiveEditable
  /\ row' = Bumped(row, row.status)
  /\ live' = [score |-> score, period |-> period, version |-> row.version + 1]

KeepPeriod(u) == \E period \in Periods :
  /\ Assigned(row, u)
  /\ row' = Bumped(row, row.status)
  /\ live' = [Follow(EnsureLive(live), row) EXCEPT !.period = period]

(* An admin may impose a result on any fixture. *)
Correct(u) == \E score \in Scores \cup {EnsureLive(live).score} :
  /\ IsAdmin(u)
  /\ row' = Bumped(row, "COMPLETED")
  /\ live' = [Follow(EnsureLive(live), row) EXCEPT !.score = score]

(* Management of the fixture: no new version, and the live row untouched.  *)
Manage(u) ==
  /\ IsAdmin(u)
  /\ \E official \in Officials \cup {NoUser, row.official}, plan \in Plans,
        published \in Published :
       row' = Patched(row, official, plan, published)
  /\ UNCHANGED live

Delete(u) ==
  /\ IsAdmin(u)
  /\ row' = NoRow
  /\ live' = NoLive

Accept(u) ==
  /\ row # NoRow
  /\ \/ \E target \in Targets \cup AdminTargets : Move(u, target)
     \/ KeepScore(u) \/ KeepPeriod(u) \/ Correct(u)
     \/ Manage(u) \/ Delete(u)

Next == \E u \in Users : Accept(u)

Spec == Init /\ [][Next]_vars

-----------------------------------------------------------------------------
TypeOK == row \in Row \cup {NoRow} /\ live \in Live \cup {NoLive}

(* The public scoreboard and the fixture carry the same version: a client  *)
(* may compare the version of an event, of the live row and of the fixture *)
(* whatever requests came before (the assignments of .version in           *)
(* admin.py and scoring.py).                                               *)
ScoreboardInSync == live # NoLive => row # NoRow /\ live.version = row.version

(* Publication and status agree: a draft is never public and a scheduled   *)
(* fixture always is (create_fixture, update_fixture).                     *)
DraftsAreHidden ==
  row # NoRow => /\ row.status = "DRAFT" => row.published = "hidden"
                 /\ row.status = "SCHEDULED" => row.published = "public"

(* A postponed fixture is a dead end: no request puts it back on the       *)
(* schedule, though the status machine has POSTPONED -> SCHEDULED; the     *)
(* same holds of a cancelled one.  All that is left is to cancel it,       *)
(* delete it, or impose a result (admin.py has no route to SCHEDULED but   *)
(* the publication of a draft).                                            *)
NoWayBack ==
  [][row # NoRow /\ row' # NoRow =>
       /\ row.status = "POSTPONED"
            => row'.status \in {"POSTPONED", "CANCELLED", "COMPLETED"}
       /\ row.status = "CANCELLED" => row'.status \in {"CANCELLED", "COMPLETED"}
    ]_vars
=============================================================================

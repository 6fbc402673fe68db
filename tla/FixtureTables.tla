--------------------------- MODULE FixtureTables ---------------------------
(***************************************************************************)
(* The two rows that make up a fixture (app/models/fixtures.py), the users *)
(* who act on it, and what every handler does with the rows it has loaded. *)
(*                                                                         *)
(* Data: "official" is score_official_id; "plan" stands for the columns    *)
(* scheduled_start, scheduled_end, venue_id, round_name, match_day, label; *)
(* "score" for each of home_score, away_score, home_sets, away_sets;       *)
(* "period" for period, current_period_number, clock_text, extra;          *)
(* "published" is the Boolean column of that name.                         *)
(***************************************************************************)
EXTENDS Integers, Lifecycle

CONSTANTS
  Admins,          \* SUPER_ADMIN and TOURNAMENT_ADMIN users
  Officials,       \* SCORE_OFFICIAL users
  NoUser, NoRow, NoLive,     \* NULL, and the absent rows
  Plans,           \* values of the scheduling columns
  Scores,          \* absolute scores a payload may carry
  Deltas,          \* relative scores a payload may carry
  Periods,         \* values of the period columns
  Origin           \* the rows a fixture may have to begin with

Users == Admins \cup Officials

Visibility == {"public", "hidden"}

Row  == [status : Status, version : Nat, official : Users \cup {NoUser},
         published : Visibility, plan : Plans]
Live == [score : Nat, period : Periods, version : Nat]

ASSUME UserAssumption == NoUser \notin Users
ASSUME NullAssumption == NoRow \notin Row /\ NoLive \notin Live
ASSUME DataAssumption ==
  Scores \subseteq Nat /\ Deltas \subseteq Int /\ 0 \in Periods
ASSUME OriginAssumption == Origin \subseteq [row : Row, live : Live \cup {NoLive}]

IsAdmin(u) == u \in Admins

Assigned(fx, u) == IsAdmin(u) \/ fx.official = u

(* ensure_live_state: a new row has the column defaults. *)
FreshLive == [score |-> 0, period |-> 0, version |-> 0]

EnsureLiveAnew(lv) == FreshLive   \* mutant: does not look for the old row

EnsureLive(lv) == IF lv = NoLive THEN FreshLive ELSE lv

AddScoreUnfloored(score, delta) == score + delta   \* mutant: no max(0, ...)

AddScore(score, delta) == IF score + delta < 0 THEN 0 ELSE score + delta

(* Every change the clients must see takes the next version ... *)
Bumped(fx, status) == [fx EXCEPT !.status = status, !.version = @ + 1]

FollowNothing(lv, fx) == lv   \* mutant: the live version is left behind

(* ... which the live row, if there is one, repeats. *)
Follow(lv, fx) ==
  IF lv = NoLive THEN NoLive ELSE [lv EXCEPT !.version = fx.version + 1]

(* update_fixture: "published" is "unset" when the payload leaves it out.  *)
Published == Visibility \cup {"unset"}

(* Mutants: publishing does not look at the status; nor does hiding.       *)
PatchedAnyStatus(fx, official, plan, published) ==
  [fx EXCEPT !.official = official, !.plan = plan,
             !.published = IF published = "unset" THEN @ ELSE published,
             !.status = IF published = "public" THEN "SCHEDULED" ELSE @]

PatchedNoDraft(fx, official, plan, published) ==
  [fx EXCEPT !.official = official, !.plan = plan,
             !.published = IF published = "unset" THEN @ ELSE published]

Patched(fx, official, plan, published) ==
  [fx EXCEPT
     !.official = official,
     !.plan = plan,
     !.published = IF published = "unset" THEN @ ELSE published,
     !.status = CASE published = "public" /\ @ = "DRAFT" -> "SCHEDULED"
                  [] published = "hidden" /\ @ = "SCHEDULED" -> "DRAFT"
                  [] OTHER -> @]
=============================================================================

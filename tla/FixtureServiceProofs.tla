------------------------ MODULE FixtureServiceProofs ------------------------
(***************************************************************************)
(* FixtureService for every user, version, score and plan: the scoreboard  *)
(* carries the version of its fixture, drafts stay hidden, and postponed   *)
(* and cancelled fixtures never return to the schedule.  The first two     *)
(* need first rows that are so already (the rows create_fixture, the       *)
(* generation and the seed leave).                                         *)
(***************************************************************************)
EXTENDS FixtureService, TLAPS

-----------------------------------------------------------------------------
(* DraftsAreHidden, of one row. *)
Fitting(fx) ==
  /\ fx.status = "DRAFT" => fx.published = "hidden"
  /\ fx.status = "SCHEDULED" => fx.published = "public"

(* What the helpers on rows return. *)

(* A bumped row is a row with the next version and the given status; its   *)
(* publication is left as it is.                                           *)
LEMMA BumpedRow ==
  ASSUME NEW fx \in Row, NEW status \in Status
  PROVE  /\ Bumped(fx, status) \in Row
         /\ Bumped(fx, status).version = fx.version + 1
         /\ Bumped(fx, status).status = status
         /\ Bumped(fx, status).published = fx.published
<1> DEFINE v == fx.version + 1
<1>1. v \in Nat
  BY DEF Row
<1>2. Bumped(fx, status) = [fx EXCEPT !.status = status, !.version = v]
  BY DEF Bumped, Row
<1> HIDE DEF v
<1>3. /\ Bumped(fx, status) \in Row
      /\ Bumped(fx, status).version = v
      /\ Bumped(fx, status).status = status
      /\ Bumped(fx, status).published = fx.published
  BY <1>1, <1>2 DEF Row
<1> QED
  BY <1>3 DEF v

(* A live row that follows its fixture has its next version. *)
LEMMA FollowLive ==
  ASSUME NEW lv \in Live \cup {NoLive}, NEW fx \in Row
  PROVE  /\ Follow(lv, fx) \in Live \cup {NoLive}
         /\ lv = NoLive => Follow(lv, fx) = NoLive
         /\ lv # NoLive => /\ Follow(lv, fx) \in Live
                           /\ Follow(lv, fx).version = fx.version + 1
BY NullAssumption DEF Follow, Live, Row

(* The live row a handler works on exists. *)
LEMMA EnsuredLive ==
  ASSUME NEW lv \in Live \cup {NoLive}
  PROVE  EnsureLive(lv) \in Live
BY DataAssumption DEF EnsureLive, FreshLive, Live

(* A score never becomes negative. *)
LEMMA AddScoreNat ==
  ASSUME NEW score \in Nat, NEW delta \in Int
  PROVE  AddScore(score, delta) \in Nat
BY DEF AddScore

(* A patched row is a row of the same version; the status moves between    *)
(* DRAFT and SCHEDULED only, and together with the publication.            *)
LEMMA PatchedRow ==
  ASSUME NEW fx \in Row, NEW official \in Users \cup {NoUser},
         NEW plan \in Plans, NEW published \in Published
  PROVE  LET new == Patched(fx, official, plan, published)
         IN  /\ new \in Row
             /\ new.version = fx.version
             /\ new.status # fx.status =>
                  \/ /\ fx.status = "DRAFT" /\ new.status = "SCHEDULED"
                     /\ new.published = "public"
                  \/ /\ fx.status = "SCHEDULED" /\ new.status = "DRAFT"
                     /\ new.published = "hidden"
             /\ Fitting(fx) => Fitting(new)
<1> DEFINE pub == IF published = "unset" THEN fx.published ELSE published
           st == CASE published = "public" /\ fx.status = "DRAFT" -> "SCHEDULED"
                   [] published = "hidden" /\ fx.status = "SCHEDULED" -> "DRAFT"
                   [] OTHER -> fx.status
           new == Patched(fx, official, plan, published)
<1>1. pub \in Visibility /\ st \in Status
  BY DEF Row, Published, Status, Visibility
<1>2. new = [fx EXCEPT !.official = official, !.plan = plan,
                       !.published = pub, !.status = st]
  BY DEF Patched, Row
<1>3. st # fx.status =>
        \/ fx.status = "DRAFT" /\ st = "SCHEDULED" /\ pub = "public"
        \/ fx.status = "SCHEDULED" /\ st = "DRAFT" /\ pub = "hidden"
  OBVIOUS
<1>4. published = "public" /\ fx.status = "DRAFT" => st = "SCHEDULED"
  OBVIOUS
<1>5. published = "hidden" /\ fx.status = "SCHEDULED" => st = "DRAFT"
  OBVIOUS
<1>6. fx.published \in Visibility
  BY DEF Row
<1> HIDE DEF st, new
<1>7. /\ new \in Row
      /\ new.version = fx.version /\ new.status = st /\ new.published = pub
  BY <1>1, <1>2 DEF Row
<1> QED
  BY <1>3, <1>4, <1>5, <1>6, <1>7 DEF new, Published, Visibility, Fitting

-----------------------------------------------------------------------------
(* The inductive invariant. *)
SerialInv == TypeOK /\ ScoreboardInSync /\ DraftsAreHidden

(* A row with the next version, and a live row that repeats it. *)
NextVersion ==
  /\ row' \in Row /\ live' \in Live \cup {NoLive}
  /\ live' # NoLive => live'.version = row'.version

(* Each kind of accepted request: which status it leaves, and that version *)
(* and live row go together.                                               *)
LEMMA MoveEffect ==
  ASSUME TypeOK, row # NoRow, NEW u \in Users,
         NEW target \in Targets \cup AdminTargets, Move(u, target)
  PROVE  /\ NextVersion
         /\ row'.status = target
         /\ row'.status = row.status \/ row'.status \in Transitions[row.status]
         /\ row.status \in {"POSTPONED", "CANCELLED"} /\ row'.status # row.status
              => row.status = "POSTPONED" /\ row'.status = "CANCELLED"
<1>1. row \in Row /\ live \in Live \cup {NoLive}
  BY DEF TypeOK
<1>2. target \in Status
  BY DEF Targets, AdminTargets, Status
<1>3. row' = Bumped(row, target)
  BY DEF Move
<1>4. row' \in Row /\ row'.version = row.version + 1 /\ row'.status = target
  BY <1>1, <1>2, <1>3, BumpedRow
<1>5. live' \in Live \cup {NoLive} /\ (live' # NoLive => live'.version = row'.version)
  <2>1. CASE live' = Follow(live, row)
    BY <1>1, <1>4, <2>1, FollowLive
  <2>2. CASE live' = Follow(EnsureLive(live), row)
    <3>1. EnsureLive(live) \in Live
      BY <1>1, EnsuredLive
    <3> QED
      BY <1>1, <1>4, <2>2, <3>1, FollowLive
  <2> QED
    BY <2>1, <2>2 DEF Move
<1>6. row.status = target \/ target \in Transitions[row.status]
  BY DEF Move, AssertTransition, CanTransition
<1>7. row.status = "POSTPONED" => target \in {"POSTPONED", "SCHEDULED", "CANCELLED"}
  BY <1>6 DEF Transitions
<1>8. row.status = "CANCELLED" => target \in {"CANCELLED", "SCHEDULED"}
  BY <1>6 DEF Transitions
<1>9. target # "SCHEDULED"
  BY DEF Targets, AdminTargets
<1> QED
  BY <1>4, <1>5, <1>6, <1>7, <1>8, <1>9 DEF NextVersion

LEMMA KeepEffect ==
  ASSUME TypeOK, row # NoRow, NEW u \in Users, KeepScore(u) \/ KeepPeriod(u)
  PROVE  NextVersion /\ row'.status = row.status /\ row'.published = row.published
<1>1. row \in Row /\ live \in Live \cup {NoLive}
  BY DEF TypeOK
<1>2. row' = Bumped(row, row.status)
  BY DEF KeepScore, KeepPeriod
<1>3. row.status \in Status
  BY <1>1 DEF Row
<1>4. /\ row' \in Row /\ row'.version = row.version + 1
      /\ row'.status = row.status /\ row'.published = row.published
  BY <1>1, <1>2, <1>3, BumpedRow
<1>5. EnsureLive(live) \in Live
  BY <1>1, EnsuredLive
<1>6. CASE KeepScore(u)
  <2>1. PICK score \in Scores \cup
               {AddScore(EnsureLive(live).score, d) : d \in Deltas},
             period \in Periods :
          live' = [score |-> score, period |-> period,
                   version |-> row.version + 1]
    BY <1>6 DEF KeepScore
  <2>2. EnsureLive(live).score \in Nat
    BY <1>5 DEF Live
  <2>3. score \in Nat
    BY <2>2, DataAssumption, AddScoreNat
  <2>4. row.version + 1 \in Nat
    BY <1>1 DEF Row
  <2>5. live' \in Live /\ live'.version = row.version + 1
    BY <2>1, <2>3, <2>4 DEF Live
  <2> QED
    BY <1>4, <2>5 DEF NextVersion
<1>7. CASE KeepPeriod(u)
  <2>1. PICK period \in Periods :
          live' = [Follow(EnsureLive(live), row) EXCEPT !.period = period]
    BY <1>7 DEF KeepPeriod
  <2> DEFINE lv == Follow(EnsureLive(live), row)
  <2>2. lv \in Live /\ lv.version = row.version + 1
    BY <1>1, <1>5, FollowLive, NullAssumption
  <2> HIDE DEF lv
  <2>3. live' \in Live /\ live'.version = lv.version
    <3>1. live' = [lv EXCEPT !.period = period]
      BY <2>1 DEF lv
    <3> QED
      BY <2>2, <3>1 DEF Live
  <2> QED
    BY <1>4, <2>2, <2>3 DEF NextVersion
<1> QED
  BY <1>6, <1>7

LEMMA CorrectEffect ==
  ASSUME TypeOK, row # NoRow, NEW u \in Users, Correct(u)
  PROVE  NextVersion /\ row'.status = "COMPLETED"
<1>1. row \in Row /\ live \in Live \cup {NoLive}
  BY DEF TypeOK
<1>2. /\ row' \in Row /\ row'.version = row.version + 1
      /\ row'.status = "COMPLETED"
  BY <1>1, BumpedRow DEF Correct, Status
<1>3. EnsureLive(live) \in Live
  BY <1>1, EnsuredLive
<1> DEFINE lv == Follow(EnsureLive(live), row)
<1>4. lv \in Live /\ lv.version = row.version + 1
  BY <1>1, <1>3, FollowLive, NullAssumption
<1>5. PICK score \in Scores \cup {EnsureLive(live).score} :
        live' = [lv EXCEPT !.score = score]
  BY DEF Correct
<1>6. score \in Nat
  BY <1>3, DataAssumption DEF Live
<1> HIDE DEF lv
<1>7. live' \in Live /\ live'.version = lv.version
  BY <1>4, <1>5, <1>6 DEF Live
<1> QED
  BY <1>2, <1>4, <1>7 DEF NextVersion

LEMMA ManageEffect ==
  ASSUME TypeOK, row # NoRow, NEW u \in Users, Manage(u)
  PROVE  /\ row' \in Row /\ live' = live
         /\ row'.version = row.version
         /\ Fitting(row) => Fitting(row')
         /\ row'.status # row.status => row.status \in {"DRAFT", "SCHEDULED"}
<1>1. row \in Row
  BY DEF TypeOK
<1>2. PICK official \in Officials \cup {NoUser, row.official}, plan \in Plans,
           published \in Published :
        row' = Patched(row, official, plan, published)
  BY DEF Manage
<1>3. official \in Users \cup {NoUser}
  BY <1>1 DEF Row, Users
<1> DEFINE new == Patched(row, official, plan, published)
<1>4. /\ new \in Row /\ new.version = row.version
      /\ new.status # row.status => row.status \in {"DRAFT", "SCHEDULED"}
      /\ Fitting(row) => Fitting(new)
  BY <1>1, <1>3, PatchedRow
<1> HIDE DEF new
<1>5. row' = new /\ live' = live
  BY <1>2 DEF new, Manage
<1> QED
  BY <1>4, <1>5 DEF Fitting

LEMMA AcceptCases ==
  ASSUME NEW u \in Users, Accept(u)
  PROVE  /\ row # NoRow
         /\ \/ \E target \in Targets \cup AdminTargets : Move(u, target)
            \/ KeepScore(u) \/ KeepPeriod(u)
            \/ Correct(u)
            \/ Manage(u)
            \/ Delete(u)
BY DEF Accept

-----------------------------------------------------------------------------
(* Every request keeps the invariant. *)
LEMMA NextSerialInv ==
  ASSUME SerialInv, [Next]_vars
  PROVE  SerialInv'
<1>1. CASE UNCHANGED vars
  BY <1>1 DEF SerialInv, TypeOK, ScoreboardInSync, DraftsAreHidden, vars
<1>2. CASE Next
  <2> PICK u \in Users : Accept(u)
    BY <1>2 DEF Next
  <2> TypeOK /\ ScoreboardInSync /\ DraftsAreHidden
    BY DEF SerialInv
  <2>1. row # NoRow /\ row \in Row
    BY AcceptCases DEF TypeOK
  <2>2. Fitting(row)
    BY <2>1 DEF DraftsAreHidden, Fitting
  <2>3. ASSUME NextVersion, Fitting(row') PROVE SerialInv'
    BY <2>3, NullAssumption
    DEF SerialInv, TypeOK, ScoreboardInSync, DraftsAreHidden, NextVersion, Fitting
  <2>4. CASE \E target \in Targets \cup AdminTargets : Move(u, target)
    <3> PICK target \in Targets \cup AdminTargets : Move(u, target)
      BY <2>4
    <3>1. NextVersion /\ row'.status = target
      BY <2>1, MoveEffect
    <3>2. target \notin {"DRAFT", "SCHEDULED"}
      BY DEF Targets, AdminTargets
    <3> QED
      BY <2>3, <3>1, <3>2 DEF Fitting
  <2>5. CASE KeepScore(u) \/ KeepPeriod(u)
    BY <2>1, <2>2, <2>3, <2>5, KeepEffect DEF Fitting
  <2>6. CASE Correct(u)
    BY <2>1, <2>3, <2>6, CorrectEffect DEF Fitting
  <2>7. CASE Manage(u)
    <3>1. /\ row' \in Row /\ live' = live
          /\ row'.version = row.version /\ Fitting(row')
      BY <2>1, <2>2, <2>7, ManageEffect
    <3>2. NextVersion
      BY <3>1 DEF NextVersion, TypeOK, ScoreboardInSync
    <3> QED
      BY <2>3, <3>1, <3>2
  <2>8. CASE Delete(u)
    BY <2>8 DEF Delete, SerialInv, TypeOK, ScoreboardInSync, DraftsAreHidden
  <2> QED
    BY <2>4, <2>5, <2>6, <2>7, <2>8, AcceptCases
<1> QED
  BY <1>1, <1>2 DEF Next

LEMMA InitSerialInv ==
  ASSUME Init,
         \A o \in Origin : /\ o.live # NoLive => o.live.version = o.row.version
                           /\ Fitting(o.row)
  PROVE  SerialInv
<1>1. PICK o \in Origin : row = o.row /\ live = o.live
  BY DEF Init
<1>2. row \in Row /\ live \in Live \cup {NoLive}
  BY <1>1, OriginAssumption
<1> QED
  BY <1>1, <1>2, NullAssumption
  DEF SerialInv, TypeOK, ScoreboardInSync, DraftsAreHidden, Fitting

(* First rows that agree with each other and with their publication: the   *)
(* assumption of the two theorems that follow.                             *)
WellFormed ==
  \A o \in Origin : /\ o.live # NoLive => o.live.version = o.row.version
                    /\ Fitting(o.row)

LEMMA SerialInvariance == WellFormed => (Spec => []SerialInv)
<1> SUFFICES ASSUME WellFormed PROVE Spec => []SerialInv
  OBVIOUS
<1>1. Init => SerialInv
  BY InitSerialInv DEF WellFormed
<1>2. SerialInv /\ [Next]_vars => SerialInv'
  BY NextSerialInv
<1> QED
  BY <1>1, <1>2, PTL DEF Spec

(* The scoreboard is never of another version than the fixture, whatever   *)
(* requests came before (admin.py, scoring.py).                            *)
THEOREM ScoreboardFollows ==
  ASSUME WellFormed
  PROVE  Spec => []ScoreboardInSync
<1>1. SerialInv => ScoreboardInSync
  BY DEF SerialInv
<1>2. Spec => []SerialInv
  BY SerialInvariance
<1> QED
  BY <1>1, <1>2, PTL

(* What is not on the schedule yet is not public, and what is, is          *)
(* (create_fixture, update_fixture).                                       *)
THEOREM DraftsStayHidden ==
  ASSUME WellFormed
  PROVE  Spec => []DraftsAreHidden
<1>1. SerialInv => DraftsAreHidden
  BY DEF SerialInv
<1>2. Spec => []SerialInv
  BY SerialInvariance
<1> QED
  BY <1>1, <1>2, PTL

(* The rest needs nothing of the first row. *)
LEMMA InitTypeOK == Init => TypeOK
BY OriginAssumption DEF Init, TypeOK

LEMMA NextTypeOK ==
  ASSUME TypeOK, [Next]_vars
  PROVE  TypeOK'
<1>1. CASE UNCHANGED vars
  BY <1>1 DEF TypeOK, vars
<1>2. CASE Next
  <2> PICK u \in Users : Accept(u)
    BY <1>2 DEF Next
  <2> row # NoRow
    BY AcceptCases
  <2>1. CASE \E target \in Targets \cup AdminTargets : Move(u, target)
    BY <2>1, MoveEffect DEF NextVersion, TypeOK
  <2>2. CASE KeepScore(u) \/ KeepPeriod(u)
    BY <2>2, KeepEffect DEF NextVersion, TypeOK
  <2>3. CASE Correct(u)
    BY <2>3, CorrectEffect DEF NextVersion, TypeOK
  <2>4. CASE Manage(u)
    BY <2>4, ManageEffect DEF TypeOK
  <2>5. CASE Delete(u)
    BY <2>5 DEF Delete, TypeOK
  <2> QED
    BY <2>1, <2>2, <2>3, <2>4, <2>5, AcceptCases
<1> QED
  BY <1>1, <1>2

(* Type correctness, and with it the floor of the relative scores          *)
(* (scoring.py:46-48).                                                     *)
THEOREM TypeCorrectness == Spec => []TypeOK
<1>1. TypeOK /\ [Next]_vars => TypeOK'
  BY NextTypeOK
<1> QED
  BY <1>1, InitTypeOK, PTL DEF Spec

(* No request, of whomever, puts a postponed or a cancelled fixture back   *)
(* on the schedule (the routes of admin.py and the status machine).        *)
THEOREM DeadEnds == Spec => NoWayBack
<1> DEFINE Kept ==
      row # NoRow /\ row' # NoRow =>
        /\ row.status = "POSTPONED"
             => row'.status \in {"POSTPONED", "CANCELLED", "COMPLETED"}
        /\ row.status = "CANCELLED" => row'.status \in {"CANCELLED", "COMPLETED"}
<1>1. ASSUME TypeOK, Next PROVE Kept
  <2> PICK u \in Users : Accept(u)
    BY <1>1 DEF Next
  <2> row # NoRow /\ TypeOK
    BY <1>1, AcceptCases
  <2>1. CASE \E target \in Targets \cup AdminTargets : Move(u, target)
    <3> PICK target \in Targets \cup AdminTargets : Move(u, target)
      BY <2>1
    <3>1. row.status \in {"POSTPONED", "CANCELLED"} /\ row'.status # row.status
            => row.status = "POSTPONED" /\ row'.status = "CANCELLED"
      BY MoveEffect
    <3> QED
      BY <3>1
  <2>2. CASE KeepScore(u) \/ KeepPeriod(u)
    BY <2>2, KeepEffect
  <2>3. CASE Correct(u)
    BY <2>3, CorrectEffect
  <2>4. CASE Manage(u)
    <3>1. row'.status # row.status => row.status \in {"DRAFT", "SCHEDULED"}
      BY <2>4, ManageEffect
    <3> QED
      BY <3>1
  <2>5. CASE Delete(u)
    BY <2>5 DEF Delete
  <2> QED
    BY <2>1, <2>2, <2>3, <2>4, <2>5, AcceptCases
<1>2. TypeOK /\ [Next]_vars => [Kept]_vars
  BY <1>1
<1>3. TypeOK /\ [Next]_vars => TypeOK'
  BY NextTypeOK
<1> HIDE DEF Kept
<1>4. Spec => [][Kept]_vars
  BY <1>2, <1>3, InitTypeOK, PTL DEF Spec
<1> QED
  BY <1>4 DEF Kept, NoWayBack
=============================================================================

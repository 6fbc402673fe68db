-------------------------- MODULE FixtureTxnProofs --------------------------
(***************************************************************************)
(* FixtureTxn for every number of requests, users, scores and versions:    *)
(* type correctness, the lock and row invariants, the action properties    *)
(* that no request undoes what a request of another kind wrote and that    *)
(* the audit log explains every change, and the promise of FixtureService  *)
(* for a request that meets no other.  All rest on the inductive           *)
(* invariant Inv.                                                          *)
(***************************************************************************)
EXTENDS FixtureTxn, TLAPS

-----------------------------------------------------------------------------
(* What the helpers on rows return. *)

(* A bumped row is a row, with the next version and the given status. *)
LEMMA BumpedRow ==
  ASSUME NEW fx \in Row, NEW status \in Status
  PROVE  /\ Bumped(fx, status) \in Row
         /\ Bumped(fx, status).version = fx.version + 1
         /\ Bumped(fx, status).status = status
         /\ Bumped(fx, status).official = fx.official
         /\ Bumped(fx, status).published = fx.published
         /\ Bumped(fx, status).plan = fx.plan
<1> DEFINE v == fx.version + 1
<1>1. v \in Nat
  BY DEF Row
<1>2. Bumped(fx, status) = [fx EXCEPT !.status = status, !.version = v]
  BY DEF Bumped, Row
<1> HIDE DEF v
<1>3. /\ Bumped(fx, status) \in Row
      /\ Bumped(fx, status).version = v
      /\ Bumped(fx, status).status = status
      /\ Bumped(fx, status).official = fx.official
      /\ Bumped(fx, status).published = fx.published
      /\ Bumped(fx, status).plan = fx.plan
  BY <1>1, <1>2 DEF Row
<1> QED
  BY <1>3 DEF v

(* A live row that follows its fixture keeps its score and its period. *)
LEMMA FollowLive ==
  ASSUME NEW lv \in Live, NEW fx \in Row
  PROVE  /\ Follow(lv, fx) \in Live
         /\ Follow(lv, fx).score = lv.score
         /\ Follow(lv, fx).period = lv.period
BY NullAssumption DEF Follow, Live, Row

(* The live row a handler works on exists, and is the loaded one if any. *)
LEMMA EnsuredLive ==
  ASSUME NEW lv \in Live \cup {NoLive}
  PROVE  /\ EnsureLive(lv) \in Live
         /\ lv # NoLive => EnsureLive(lv) = lv
BY DataAssumption DEF EnsureLive, FreshLive, Live

(* A score never becomes negative. *)
LEMMA AddScoreNat ==
  ASSUME NEW score \in Nat, NEW delta \in Int
  PROVE  AddScore(score, delta) \in Nat
BY DEF AddScore

(* The administration of a fixture leaves its version alone. *)
LEMMA PatchedRow ==
  ASSUME NEW fx \in Row, NEW official \in Users \cup {NoUser},
         NEW plan \in Plans, NEW published \in Published
  PROVE  /\ Patched(fx, official, plan, published) \in Row
         /\ Patched(fx, official, plan, published).version = fx.version
<1> DEFINE pub == IF published = "unset" THEN fx.published ELSE published
           st == CASE published = "public" /\ fx.status = "DRAFT" -> "SCHEDULED"
                   [] published = "hidden" /\ fx.status = "SCHEDULED" -> "DRAFT"
                   [] OTHER -> fx.status
<1>1. pub \in Visibility
  BY DEF Row, Published
<1>2. st \in Status
  BY DEF Row, Status
<1>3. Patched(fx, official, plan, published)
        = [fx EXCEPT !.official = official, !.plan = plan,
                     !.published = pub, !.status = st]
  BY DEF Patched, Row
<1> HIDE DEF pub, st
<1> QED
  BY <1>1, <1>2, <1>3 DEF Row

(* Writing the changed columns of a row over the committed row gives a row *)
(* in which the unchanged columns are as committed.                        *)
LEMMA MergedRow ==
  ASSUME NEW o \in Row, NEW n \in Row, NEW c \in Row
  PROVE  /\ MergeRow(o, n, c) \in Row
         /\ n.status = o.status => MergeRow(o, n, c).status = c.status
         /\ n.version = o.version => MergeRow(o, n, c).version = c.version
         /\ n.official = o.official => MergeRow(o, n, c).official = c.official
         /\ n.published = o.published => MergeRow(o, n, c).published = c.published
         /\ n.plan = o.plan => MergeRow(o, n, c).plan = c.plan
BY DEF MergeRow, Col, Row

LEMMA MergedLive ==
  ASSUME NEW o \in Live, NEW n \in Live, NEW c \in Live
  PROVE  /\ MergeLive(o, n, c) \in Live
         /\ n.score = o.score => MergeLive(o, n, c).score = c.score
         /\ n.period = o.period => MergeLive(o, n, c).period = c.period
BY DEF MergeLive, Col, Live

-----------------------------------------------------------------------------
(* Steps that change no table. *)

LEMMA InitInv == Init => Inv
<1> SUFFICES ASSUME Init PROVE Inv
  OBVIOUS
<1>1. PICK come \in Coming :
        txn = [r \in Request |-> IF come[r] = "none" THEN EmptySession("done")
                                 ELSE [EmptySession("new") EXCEPT !.op = come[r]]]
  BY DEF Init
<1>2. come \in [Request -> Routes \cup {"none"}]
  BY ComingAssumption
<1>3. txn \in [Request -> Session]
  BY <1>1, <1>2 DEF EmptySession, Session, Phase
<1>4. TypeOK
  BY <1>3, OriginAssumption DEF Init, TypeOK
<1>5. NoOrphan
  BY OriginAssumption, NullAssumption DEF Init, NoOrphan
<1>6. \A r \in Request : txn[r].phase \in {"new", "done"}
  BY <1>1 DEF EmptySession
<1> QED
  BY <1>4, <1>5, <1>6, RequestAssumption
  DEF Init, Inv, LocksAreHeld, SessionInv, At, Open

(* A session closed without a commit: its locks are freed, nothing of it   *)
(* remains, and no other session notices.                                  *)
LEMMA RollbackInv ==
  ASSUME Inv, NEW r \in Request, NEW outcome \in {"rejected", "failed"},
         Rollback(r, outcome)
  PROVE  Inv'
<1>0. txn' = [txn EXCEPT ![r] = EmptySession(outcome)]
  BY DEF Rollback
<1>1. UNCHANGED <<row, live, events, audit>>
  BY DEF Rollback, tables
<1>2. EmptySession(outcome) \in Session
  BY DEF EmptySession, Session, Phase, Routes
<1>3. TypeOK'
  BY <1>0, <1>1, <1>2 DEF Inv, TypeOK, Rollback, Unlock
<1>4. \A q \in Request \ {r} : /\ txn'[q] = txn[q]
                               /\ rowLock = q => rowLock' = q
  BY <1>0 DEF Inv, TypeOK, Rollback, Unlock
<1>5. txn'[r].phase = outcome
  BY <1>0 DEF Inv, TypeOK, EmptySession
<1>6. LocksAreHeld'
  BY <1>4, <1>3, RequestAssumption
  DEF Inv, TypeOK, LocksAreHeld, Rollback, Unlock
<1>7. NoOrphan'
  BY <1>1 DEF Inv, NoOrphan
<1>8. ASSUME NEW q \in Request PROVE SessionInv(q)'
  <2>1. CASE q = r
    BY <2>1, <1>5 DEF SessionInv, At, Open
  <2>2. CASE q # r
    BY <2>2, <1>1, <1>4
    DEF Inv, SessionInv, At, InsertsLive
  <2> QED
    BY <2>1, <2>2
<1> QED
  BY <1>3, <1>6, <1>7, <1>8 DEF Inv

(* A session that stages writes of its route's own columns.                *)
LEMMA StageInv ==
  ASSUME Inv, NEW r \in Request, At(r, "loaded"),
         NEW op, NEW u, NEW nfx, NEW nlv \in Live \cup {NoLive},
         StagedWrites(Staged(r, op, u, nfx, nlv)),
         Stage(r, op, u, nfx, nlv)
  PROVE  Inv'
<1> DEFINE t == Staged(r, op, u, nfx, nlv)
<1>1. UNCHANGED <<row, live, events, audit, rowLock, liveLock>>
  BY DEF Stage, tables, locks
<1>2. txn' = [txn EXCEPT ![r] = t]
  BY DEF Stage
<1>3. /\ t.phase = "staged" /\ t.op = op /\ t.user = u /\ t.nfx = nfx
      /\ t.nlv = nlv /\ t.fx = txn[r].fx /\ t.lv = live
  BY DEF Staged
<1>4. op \in Routes /\ u \in Users /\ nfx \in Row
  BY <1>3 DEF StagedWrites
<1>5. txn[r].fx \in Row
  BY DEF Inv, SessionInv, At
<1>6. t \in Session
  BY <1>4, <1>5 DEF Inv, TypeOK, Session, Phase, Staged
<1>7. TypeOK'
  BY <1>1, <1>2, <1>6 DEF Inv, TypeOK
<1>8. txn'[r] = t /\ \A q \in Request \ {r} : txn'[q] = txn[q]
  BY <1>2 DEF Inv, TypeOK
<1>9. LocksAreHeld'
  BY <1>1, <1>8 DEF Inv, TypeOK, LocksAreHeld, At
<1>10. NoOrphan'
  BY <1>1 DEF Inv, NoOrphan
<1>11. ASSUME NEW q \in Request PROVE SessionInv(q)'
  <2>1. CASE q = r
    BY <2>1, <1>1, <1>3, <1>5, <1>8 DEF SessionInv, At, Open
  <2>2. CASE q # r
    BY <2>2, <1>1, <1>8 DEF Inv, SessionInv, At, InsertsLive
  <2> QED
    BY <2>1, <2>2
<1> QED
  BY <1>7, <1>9, <1>10, <1>11 DEF Inv

(* The routes that give the fixture its next version.                      *)
LEMMA VersionedWrites ==
  ASSUME Inv, NEW r \in Request, At(r, "loaded"),
         NEW op \in VersionRoutes, NEW u \in Users, NEW status \in Status,
         op \in {"score", "period"} => status = txn[r].fx.status,
         NEW nlv \in Live \cup {NoLive},
         live # NoLive => /\ nlv # NoLive
                          /\ nlv.score # live.score => op \in ScoreRoutes
                          /\ nlv.period # live.period => op \in PeriodRoutes
  PROVE  StagedWrites(Staged(r, op, u, Bumped(txn[r].fx, status), nlv))
<1>1. txn[r].fx \in Row
  BY DEF Inv, SessionInv, At
<1>2. op \in Routes /\ (op \in StatusRoutes \/ op \in {"score", "period"})
  BY DEF VersionRoutes, StatusRoutes, Routes
<1> QED
  BY <1>1, <1>2, BumpedRow DEF StagedWrites, Staged

(* The routes that leave version and live row alone.                       *)
LEMMA PlainWrites ==
  ASSUME Inv, NEW r \in Request, At(r, "loaded"),
         NEW op \in {"event", "patch", "reschedule", "delete"}, NEW u \in Users,
         NEW nfx \in Row,
         nfx.version = txn[r].fx.version,
         op # "patch" => /\ nfx.status = txn[r].fx.status
                         /\ nfx.official = txn[r].fx.official
                         /\ nfx.published = txn[r].fx.published,
         op \notin PlanRoutes => nfx.plan = txn[r].fx.plan
  PROVE  StagedWrites(Staged(r, op, u, nfx, live))
BY DEF StagedWrites, Staged, Routes, StatusRoutes, VersionRoutes, PlanRoutes

(* Every handler stages its own columns, or rolls back.                    *)
LEMMA HandleInv ==
  ASSUME Inv, NEW r \in Request, Handle(r)
  PROVE  Inv'
<1> DEFINE fx == txn[r].fx
           lv == EnsureLive(live)
           follow == Follow(lv, fx)
<1>1. At(r, "loaded")
  BY DEF Handle, Handling, StartFixture, UpdateScore, AddEvent, SetPeriod,
         PauseFixture, ResumeFixture, CompleteFixture, ReopenFixture,
         CorrectFixture, PostponeFixture, CancelFixture, UpdateFixture,
         RescheduleFixture, DeleteFixture
<1>2. fx \in Row /\ live \in Live \cup {NoLive}
  BY <1>1 DEF Inv, TypeOK, SessionInv, At
<1>3. lv \in Live /\ (live # NoLive => lv = live)
  BY <1>2, EnsuredLive
<1>4. follow \in Live /\ follow.score = lv.score /\ follow.period = lv.period
  BY <1>2, <1>3, FollowLive
<1>5. /\ Follow(live, fx) \in Live \cup {NoLive}
      /\ live # NoLive => /\ Follow(live, fx) \in Live
                          /\ Follow(live, fx).score = live.score
                          /\ Follow(live, fx).period = live.period
  BY <1>2, FollowLive DEF Follow
<1>6. fx.status \in Status
  BY <1>2 DEF Row
<1>7. /\ "LIVE" \in Status /\ "PAUSED" \in Status /\ "COMPLETED" \in Status
      /\ "UNDER_REVIEW" \in Status /\ "POSTPONED" \in Status
      /\ "CANCELLED" \in Status
  BY DEF Status
<1>8. Admins \subseteq Users
  BY DEF Users
<1> HIDE DEF fx, lv, follow
<1>10. ASSUME NEW op \in VersionRoutes, NEW u \in Users, NEW status \in Status,
              op \in {"score", "period"} => status = txn[r].fx.status,
              NEW nlv \in Live \cup {NoLive},
              live # NoLive => /\ nlv # NoLive
                               /\ nlv.score # live.score => op \in ScoreRoutes
                               /\ nlv.period # live.period => op \in PeriodRoutes,
              \/ Rollback(r, "rejected")
              \/ Stage(r, op, u, Bumped(txn[r].fx, status), nlv)
       PROVE  Inv'
  BY <1>1, <1>10, RollbackInv, VersionedWrites, StageInv
<1>11. CASE StartFixture(r)
  <2>1. PICK u \in Users : \/ Rollback(r, "rejected")
                           \/ Stage(r, "start", u, Bumped(fx, "LIVE"), follow)
    BY <1>11 DEF StartFixture, Respond, fx, lv, follow
  <2>2. "start" \in VersionRoutes
    BY DEF VersionRoutes, StatusRoutes
  <2> QED
    BY <1>3, <1>4, <1>7, <1>10, <2>1, <2>2, NullAssumption DEF fx
<1>12. CASE PauseFixture(r)
  <2>1. PICK u \in Users :
          \/ Rollback(r, "rejected")
          \/ Stage(r, "pause", u, Bumped(fx, "PAUSED"), Follow(live, fx))
    BY <1>12 DEF PauseFixture, ChangeStatus, Respond, fx
  <2>2. "pause" \in VersionRoutes
    BY DEF VersionRoutes, StatusRoutes
  <2> QED
    BY <1>5, <1>7, <1>8, <1>10, <2>1, <2>2, NullAssumption DEF fx
<1>13. CASE ResumeFixture(r)
  <2>1. PICK u \in Users :
          \/ Rollback(r, "rejected")
          \/ Stage(r, "resume", u, Bumped(fx, "LIVE"), Follow(live, fx))
    BY <1>13 DEF ResumeFixture, ChangeStatus, Respond, fx
  <2>2. "resume" \in VersionRoutes
    BY DEF VersionRoutes, StatusRoutes
  <2> QED
    BY <1>5, <1>7, <1>8, <1>10, <2>1, <2>2, NullAssumption DEF fx
<1>14. CASE CompleteFixture(r)
  <2>1. PICK u \in Users :
          \/ Rollback(r, "rejected")
          \/ Stage(r, "complete", u, Bumped(fx, "COMPLETED"), Follow(live, fx))
    BY <1>14 DEF CompleteFixture, Respond, fx
  <2>2. "complete" \in VersionRoutes
    BY DEF VersionRoutes, StatusRoutes
  <2> QED
    BY <1>5, <1>7, <1>8, <1>10, <2>1, <2>2, NullAssumption DEF fx
<1>15. CASE ReopenFixture(r)
  <2>1. PICK u \in Admins :
          \/ Rollback(r, "rejected")
          \/ Stage(r, "reopen", u, Bumped(fx, "UNDER_REVIEW"), Follow(live, fx))
    BY <1>15 DEF ReopenFixture, ChangeStatus, Respond, fx
  <2>2. "reopen" \in VersionRoutes
    BY DEF VersionRoutes, StatusRoutes
  <2> QED
    BY <1>5, <1>7, <1>8, <1>10, <2>1, <2>2, NullAssumption DEF fx
<1>16. CASE PostponeFixture(r)
  <2>1. PICK u \in Admins :
          \/ Rollback(r, "rejected")
          \/ Stage(r, "postpone", u, Bumped(fx, "POSTPONED"), Follow(live, fx))
    BY <1>16 DEF PostponeFixture, ChangeStatus, Respond, fx
  <2>2. "postpone" \in VersionRoutes
    BY DEF VersionRoutes, StatusRoutes
  <2> QED
    BY <1>5, <1>7, <1>8, <1>10, <2>1, <2>2, NullAssumption DEF fx
<1>17. CASE CancelFixture(r)
  <2>1. PICK u \in Admins :
          \/ Rollback(r, "rejected")
          \/ Stage(r, "cancel", u, Bumped(fx, "CANCELLED"), Follow(live, fx))
    BY <1>17 DEF CancelFixture, ChangeStatus, Respond, fx
  <2>2. "cancel" \in VersionRoutes
    BY DEF VersionRoutes, StatusRoutes
  <2> QED
    BY <1>5, <1>7, <1>8, <1>10, <2>1, <2>2, NullAssumption DEF fx
<1>18. CASE UpdateScore(r)
  <2>1. PICK u \in Users, period \in Periods, score \in Nat :
          \/ Rollback(r, "rejected")
          \/ Rollback(r, "failed")
          \/ Stage(r, "score", u, Bumped(fx, fx.status),
                   [follow EXCEPT !.score = score, !.period = period])
    <3>1. PICK u \in Users, expected \in Versions, period \in Periods :
            LET Reply(score) ==
                  \/ Rollback(r, "rejected")
                  \/ Stage(r, "score", u, Bumped(fx, fx.status),
                           [follow EXCEPT !.score = score, !.period = period])
            IN \/ \E score \in Scores : Reply(score)
               \/ /\ live # NoLive
                  /\ \E delta \in Deltas : Reply(AddScore(live.score, delta))
               \/ Rollback(r, "failed")
      BY <1>18 DEF UpdateScore, Respond, fx, lv, follow
    <3>2. ASSUME live # NoLive, NEW delta \in Deltas
          PROVE  AddScore(live.score, delta) \in Nat
      BY <1>2, <3>2, DataAssumption, AddScoreNat DEF Live
    <3> QED
      BY <3>1, <3>2, DataAssumption
  <2>2. [follow EXCEPT !.score = score, !.period = period] \in Live
    BY <1>4 DEF Live
  <2>3. "score" \in VersionRoutes /\ "score" \in ScoreRoutes /\ "score" \in PeriodRoutes
    BY DEF VersionRoutes, StatusRoutes, ScoreRoutes, PeriodRoutes
  <2> HIDE DEF follow
  <2> QED
    BY <1>1, <1>6, <1>10, <2>1, <2>2, <2>3, NullAssumption, RollbackInv DEF fx
<1>19. CASE SetPeriod(r)
  <2>1. PICK u \in Users, period \in Periods :
          \/ Rollback(r, "rejected")
          \/ Stage(r, "period", u, Bumped(fx, fx.status),
                   [follow EXCEPT !.period = period])
    BY <1>19 DEF SetPeriod, Respond, fx, lv, follow
  <2>2. /\ [follow EXCEPT !.period = period] \in Live
        /\ [follow EXCEPT !.period = period].score = follow.score
    BY <1>4 DEF Live
  <2>3. "period" \in VersionRoutes /\ "period" \in PeriodRoutes
    BY DEF VersionRoutes, StatusRoutes, PeriodRoutes
  <2> QED
    BY <1>3, <1>4, <1>6, <1>10, <2>1, <2>2, <2>3, NullAssumption DEF fx
<1>20. CASE CorrectFixture(r)
  <2>1. PICK u \in Admins, score \in Scores \cup {lv.score} :
          \/ Rollback(r, "rejected")
          \/ Stage(r, "correct", u, Bumped(fx, "COMPLETED"),
                   [follow EXCEPT !.score = score])
    BY <1>20 DEF CorrectFixture, Respond, fx, lv, follow
  <2>2. score \in Nat
    BY <1>3, DataAssumption DEF Live
  <2>3. /\ [follow EXCEPT !.score = score] \in Live
        /\ [follow EXCEPT !.score = score].period = follow.period
    BY <1>4, <2>2 DEF Live
  <2>4. "correct" \in VersionRoutes /\ "correct" \in ScoreRoutes
    BY DEF VersionRoutes, StatusRoutes, ScoreRoutes
  <2> QED
    BY <1>3, <1>4, <1>7, <1>8, <1>10, <2>1, <2>3, <2>4, NullAssumption DEF fx
<1>21. ASSUME NEW op \in {"event", "patch", "reschedule", "delete"},
              NEW u \in Users, NEW nfx \in Row,
              nfx.version = txn[r].fx.version,
              op # "patch" => /\ nfx.status = txn[r].fx.status
                              /\ nfx.official = txn[r].fx.official
                              /\ nfx.published = txn[r].fx.published,
              op \notin PlanRoutes => nfx.plan = txn[r].fx.plan,
              Rollback(r, "rejected") \/ Stage(r, op, u, nfx, live)
       PROVE  Inv'
  BY <1>1, <1>2, <1>21, RollbackInv, PlainWrites, StageInv
<1>22. CASE AddEvent(r)
  <2>1. PICK u \in Users :
          Rollback(r, "rejected") \/ Stage(r, "event", u, fx, live)
    BY <1>22 DEF AddEvent, Respond, fx
  <2> QED
    BY <1>2, <1>21, <2>1 DEF fx
<1>23. CASE UpdateFixture(r)
  <2>1. PICK u \in Admins, official \in Users \cup {NoUser}, plan \in Plans,
             published \in Published :
          \/ Rollback(r, "rejected")
          \/ Stage(r, "patch", u, Patched(fx, official, plan, published), live)
    <3>1. Officials \cup {NoUser, fx.official} \subseteq Users \cup {NoUser}
      BY <1>2 DEF Users, Row
    <3> QED
      BY <1>23, <3>1 DEF UpdateFixture, Respond, fx
  <2>2. "patch" \in PlanRoutes
    BY DEF PlanRoutes
  <2>3. /\ Patched(fx, official, plan, published) \in Row
        /\ Patched(fx, official, plan, published).version = fx.version
    BY <1>2, PatchedRow
  <2> QED
    BY <1>8, <1>21, <2>1, <2>2, <2>3 DEF fx
<1>24. CASE RescheduleFixture(r)
  <2>1. PICK u \in Admins, plan \in Plans :
          \/ Rollback(r, "rejected")
          \/ Stage(r, "reschedule", u, [fx EXCEPT !.plan = plan], live)
    BY <1>24 DEF RescheduleFixture, Respond, fx
  <2>2. /\ [fx EXCEPT !.plan = plan] \in Row
        /\ [fx EXCEPT !.plan = plan].version = fx.version
        /\ [fx EXCEPT !.plan = plan].status = fx.status
        /\ [fx EXCEPT !.plan = plan].official = fx.official
        /\ [fx EXCEPT !.plan = plan].published = fx.published
    BY <1>2 DEF Row
  <2>3. "reschedule" \in PlanRoutes
    BY DEF PlanRoutes
  <2> QED
    BY <1>8, <1>21, <2>1, <2>2, <2>3 DEF fx
<1>25. CASE DeleteFixture(r)
  <2>1. PICK u \in Admins :
          Rollback(r, "rejected") \/ Stage(r, "delete", u, fx, live)
    BY <1>25 DEF DeleteFixture, Respond, fx
  <2> QED
    BY <1>2, <1>8, <1>21, <2>1 DEF fx
<1> QED
  BY <1>11, <1>12, <1>13, <1>14, <1>15, <1>16, <1>17, <1>18, <1>19, <1>20,
     <1>22, <1>23, <1>24, <1>25 DEF Handle

-----------------------------------------------------------------------------
(* The steps in the database and at the end of a request. *)

(* Entering a phase changes the phase of that session and nothing else.    *)
LEMMA EnterPhase ==
  ASSUME TypeOK, NEW r \in Request, NEW phase \in Phase, Enter(r, phase)
  PROVE  /\ txn' \in [Request -> Session]
         /\ txn'[r].phase = phase
         /\ txn'[r].op = txn[r].op /\ txn'[r].user = txn[r].user
         /\ txn'[r].fx = txn[r].fx /\ txn'[r].nfx = txn[r].nfx
         /\ txn'[r].lv = txn[r].lv /\ txn'[r].nlv = txn[r].nlv
         /\ StagedWrites(txn[r]) => StagedWrites(txn'[r])
         /\ \A q \in Request \ {r} : txn'[q] = txn[q]
<1>1. txn \in [Request -> Session] /\ txn' = [txn EXCEPT ![r].phase = phase]
  BY DEF TypeOK, Enter
<1>2. /\ txn' \in [Request -> Session]
      /\ txn'[r] = [txn[r] EXCEPT !.phase = phase]
      /\ \A q \in Request \ {r} : txn'[q] = txn[q]
  BY <1>1 DEF Session
<1>3. /\ txn'[r].phase = phase
      /\ txn'[r].op = txn[r].op /\ txn'[r].user = txn[r].user
      /\ txn'[r].fx = txn[r].fx /\ txn'[r].nfx = txn[r].nfx
      /\ txn'[r].lv = txn[r].lv /\ txn'[r].nlv = txn[r].nlv
  BY <1>1, <1>2 DEF Session
<1> QED
  BY <1>2, <1>3 DEF StagedWrites

(* A step that writes no table, takes at most free locks, and leaves its   *)
(* session with what SessionInv asks of it.                                *)
LEMMA LockInv ==
  ASSUME Inv, NEW r \in Request, NEW phase \in Phase, Enter(r, phase),
         UNCHANGED <<row, live, events, audit>>,
         rowLock' = rowLock \/ (rowLock = NoRequest /\ rowLock' = r),
         liveLock' = liveLock \/ (liveLock = NoRequest /\ liveLock' = r),
         rowLock' = r => phase \in {"rowHeld", "flushed"},
         liveLock' = r => phase \in {"liveGone", "flushed"},
         SessionInv(r)'
  PROVE  Inv'
<1>1. /\ txn' \in [Request -> Session] /\ txn'[r].phase = phase
      /\ \A q \in Request \ {r} : txn'[q] = txn[q]
  BY EnterPhase DEF Inv
<1>2. TypeOK'
  BY <1>1 DEF Inv, TypeOK
<1>3. LocksAreHeld'
  BY <1>1 DEF Inv, TypeOK, LocksAreHeld
<1>4. NoOrphan'
  BY DEF Inv, NoOrphan
<1>5. ASSUME NEW q \in Request, q # r PROVE SessionInv(q)'
  <2>1. rowLock = q => rowLock' = q
    BY <1>5, RequestAssumption
  <2> QED
    BY <1>1, <1>5, <2>1 DEF Inv, SessionInv, At, InsertsLive
<1> QED
  BY <1>2, <1>3, <1>4, <1>5 DEF Inv

LEMMA LoadInv ==
  ASSUME Inv, NEW r \in Request, LoadFixture(r)
  PROVE  Inv'
<1>1. CASE row = NoRow /\ Rollback(r, "rejected")
  BY <1>1, RollbackInv
<1>2. CASE /\ row # NoRow
           /\ txn' = [txn EXCEPT ![r].phase = "loaded", ![r].fx = row]
           /\ UNCHANGED <<tables, locks>>
  <2> USE <1>2
  <2>1. /\ txn' \in [Request -> Session]
        /\ txn'[r].phase = "loaded" /\ txn'[r].fx = row
        /\ \A q \in Request \ {r} : txn'[q] = txn[q]
    <3>1. txn \in [Request -> Session] /\ row \in Row
      BY DEF Inv, TypeOK
    <3>2. "loaded" \in Phase
      BY DEF Phase
    <3>3. /\ [txn[r] EXCEPT !.phase = "loaded", !.fx = row] \in Session
          /\ [txn[r] EXCEPT !.phase = "loaded", !.fx = row].phase = "loaded"
          /\ [txn[r] EXCEPT !.phase = "loaded", !.fx = row].fx = row
      BY <3>1, <3>2 DEF Session
    <3> QED
      BY <3>1, <3>3
  <2>2. UNCHANGED <<row, live, events, audit, rowLock, liveLock>>
    BY DEF tables, locks
  <2>3. TypeOK' /\ NoOrphan'
    BY <2>1, <2>2 DEF Inv, TypeOK, NoOrphan
  <2>4. LocksAreHeld'
    BY <2>1, <2>2 DEF Inv, TypeOK, LocksAreHeld, LoadFixture, At
  <2>5. ASSUME NEW q \in Request PROVE SessionInv(q)'
    <3>1. CASE q = r
      BY <3>1, <2>1, <2>2 DEF Inv, TypeOK, SessionInv, At, Open
    <3>2. CASE q # r
      BY <3>2, <2>1, <2>2 DEF Inv, SessionInv, At, InsertsLive
    <3> QED
      BY <3>1, <3>2
  <2> QED
    BY <2>3, <2>4, <2>5 DEF Inv
<1> QED
  BY <1>1, <1>2 DEF LoadFixture

LEMMA FlushRowInv ==
  ASSUME Inv, NEW r \in Request, FlushRow(r)
  PROVE  Inv'
<1>1. CASE txn[r].nfx = txn[r].fx /\ Enter(r, "flushed")
           /\ UNCHANGED <<tables, locks>>
  <2>1. UNCHANGED <<row, live, events, audit, rowLock, liveLock>>
    BY <1>1 DEF tables, locks
  <2>2. "flushed" \in Phase
    BY DEF Phase
  <2>3. rowLock # r /\ liveLock # r
    BY RequestAssumption DEF Inv, LocksAreHeld, FlushRow, At
  <2>4. SessionInv(r)'
    BY <1>1, <2>1, <2>2, EnterPhase
    DEF Inv, SessionInv, FlushRow, At, Open
  <2> QED
    BY <1>1, <2>1, <2>2, <2>3, <2>4, LockInv
<1>2. CASE Rollback(r, "failed")
  BY <1>2, RollbackInv
<1>3. CASE /\ txn[r].nfx # txn[r].fx
           /\ rowLock = NoRequest /\ row # NoRow
           /\ Enter(r, "rowHeld") /\ rowLock' = r
           /\ UNCHANGED <<tables, liveLock>>
  <2>1. UNCHANGED <<row, live, events, audit, liveLock>>
    BY <1>3 DEF tables
  <2>2. "rowHeld" \in Phase
    BY DEF Phase
  <2>3. liveLock # r
    BY RequestAssumption DEF Inv, LocksAreHeld, FlushRow, At
  <2>4. SessionInv(r)'
    BY <1>3, <2>1, <2>2, EnterPhase
    DEF Inv, SessionInv, FlushRow, At, Open
  <2> QED
    BY <1>3, <2>1, <2>2, <2>3, <2>4, LockInv
<1> QED
  BY <1>1, <1>2, <1>3 DEF FlushRow

LEMMA FlushLiveInv ==
  ASSUME Inv, NEW r \in Request, FlushLive(r)
  PROVE  Inv'
<1>1. CASE Rollback(r, "failed")
  BY <1>1, RollbackInv
<1>2. CASE /\ InsertsLive(r) => live = NoLive
           /\ Enter(r, "flushed")
           /\ UNCHANGED tables /\ UNCHANGED rowLock
           /\ liveLock' = liveLock \/ (liveLock = NoRequest /\ liveLock' = r)
  <2>1. UNCHANGED <<row, live, events, audit, rowLock>>
    BY <1>2 DEF tables
  <2>2. "flushed" \in Phase
    BY DEF Phase
  <2>3. SessionInv(r)'
    BY <1>2, <2>1, <2>2, EnterPhase
    DEF Inv, SessionInv, FlushLive, InsertsLive, At, Open
  <2> QED
    BY <1>2, <2>1, <2>2, <2>3, LockInv
<1>3. \/ Rollback(r, "failed")
      \/ /\ InsertsLive(r) => live = NoLive
         /\ Enter(r, "flushed")
         /\ UNCHANGED tables /\ UNCHANGED rowLock
         /\ liveLock' = liveLock \/ (liveLock = NoRequest /\ liveLock' = r)
  <2>1. UNCHANGED <<tables, locks>>
          => UNCHANGED tables /\ UNCHANGED rowLock /\ UNCHANGED liveLock
    BY DEF locks
  <2>2. UNCHANGED <<tables, rowLock>> => UNCHANGED tables /\ UNCHANGED rowLock
    OBVIOUS
  <2>3. UpdatesLive(r) => ~InsertsLive(r)
    BY DEF UpdatesLive, InsertsLive
  <2> QED
    BY <2>1, <2>2, <2>3, Zenon DEF FlushLive
<1> QED
  BY <1>1, <1>2, <1>3

LEMMA DeleteInv ==
  ASSUME Inv, NEW r \in Request, DeleteLive(r) \/ DeleteRow(r)
  PROVE  Inv'
<1>1. CASE DeleteLive(r)
  <2>1. UNCHANGED <<row, live, events, audit, rowLock>> /\ Enter(r, "liveGone")
    BY <1>1 DEF DeleteLive, tables
  <2>2. "liveGone" \in Phase
    BY DEF Phase
  <2>3. rowLock # r
    BY <1>1, RequestAssumption DEF Inv, LocksAreHeld, DeleteLive, At
  <2>4. SessionInv(r)'
    BY <1>1, <2>1, <2>2, EnterPhase
    DEF Inv, SessionInv, DeleteLive, InsertsLive, At, Open
  <2>5. liveLock' = liveLock \/ (liveLock = NoRequest /\ liveLock' = r)
    BY <1>1 DEF DeleteLive
  <2> QED
    BY <2>1, <2>2, <2>3, <2>4, <2>5, LockInv
<1>2. CASE DeleteRow(r)
  <2>1. UNCHANGED <<row, live, events, audit, liveLock>> /\ Enter(r, "flushed")
    BY <1>2 DEF DeleteRow, tables
  <2>2. "flushed" \in Phase
    BY DEF Phase
  <2>3. SessionInv(r)'
    BY <1>2, <2>1, <2>2, EnterPhase
    DEF Inv, SessionInv, DeleteRow, InsertsLive, At, Open
  <2>4. rowLock = NoRequest /\ rowLock' \in {NoRequest, r}
    BY <1>2 DEF DeleteRow
  <2> QED
    BY <2>1, <2>2, <2>3, <2>4, LockInv
<1> QED
  BY <1>1, <1>2

(* Publishing, and dying after the commit, leave the data alone.           *)
LEMMA EndInv ==
  ASSUME Inv, NEW r \in Request, Publish(r) \/ Crash(r)
  PROVE  Inv'
<1>1. CASE Rollback(r, "failed")
  BY <1>1, RollbackInv
<1>2. ASSUME NEW phase \in {"done", "lost"}, At(r, "committed"),
             Enter(r, phase), UNCHANGED <<tables, locks>>
      PROVE  Inv'
  <2>1. UNCHANGED <<row, live, events, audit, rowLock, liveLock>>
    BY <1>2 DEF tables, locks
  <2>2. phase \in Phase
    BY DEF Phase
  <2>3. rowLock # r /\ liveLock # r
    BY <1>2, RequestAssumption DEF Inv, LocksAreHeld, At
  <2>4. SessionInv(r)'
    BY <1>2, <2>1, <2>2, EnterPhase DEF Inv, SessionInv, At, Open
  <2> QED
    BY <1>2, <2>1, <2>2, <2>3, <2>4, LockInv
<1> QED
  BY <1>1, <1>2 DEF Publish, Crash

-----------------------------------------------------------------------------
(* COMMIT *)

(* The columns a commit writes are those its route owns; the lock has kept *)
(* the row it writes over in place.                                        *)
LEMMA CommitUpdateFacts ==
  ASSUME Inv, NEW r \in Request, At(r, "flushed"), CommitUpdate(r)
  PROVE  /\ row' \in Row \cup {NoRow} /\ live' \in Live \cup {NoLive}
         /\ row' = NoRow <=> row = NoRow
         /\ live # NoLive => live' # NoLive
         /\ row = NoRow => live' = live
         /\ row' # row \/ live' # live => rowLock = r
         /\ row # NoRow => OwnsRow(txn[r].op)
         /\ live # NoLive => OwnsLive(txn[r].op)
<1> DEFINE t == txn[r]
<1>1. /\ StagedWrites(t) /\ t.fx \in Row /\ t.nfx \in Row
      /\ t.op # "delete" /\ t.op \in Routes
      /\ t.lv \in Live \cup {NoLive} /\ t.nlv \in Live \cup {NoLive}
      /\ t.lv # NoLive => t.nlv # NoLive /\ (live # NoLive \/ row = NoRow)
      /\ row \in Row \cup {NoRow} /\ live \in Live \cup {NoLive}
  BY DEF Inv, TypeOK, SessionInv, Session, At, Open, CommitUpdate, StagedWrites
<1>2. CASE t.nfx = t.fx
  <2>1. t.op \notin VersionRoutes
    BY <1>1, <1>2 DEF StagedWrites, Row
  <2>2. t.nlv = t.lv /\ t.op # "score"
    BY <1>1, <2>1 DEF StagedWrites, VersionRoutes
  <2>3. row' = row /\ live' = live
    BY <1>2, <2>2 DEF CommitUpdate, InsertsLive, UpdatesLive
  <2> QED
    BY <1>1, <2>3 DEF OwnsRow, OwnsLive
<1>3. CASE t.nfx # t.fx
  <2>1. /\ rowLock = r /\ row \in Row
        /\ InsertsLive(r) => live = NoLive
    BY <1>1, <1>3 DEF Inv, SessionInv, At
  <2>2. row' = MergeRow(t.fx, t.nfx, row)
    BY <1>3 DEF CommitUpdate
  <2>3. row' \in Row /\ OwnsRow(t.op)
    <3>1. t.nfx.version # t.fx.version => t.op \in VersionRoutes
      BY <1>1 DEF StagedWrites
    <3> QED
      BY <1>1, <2>1, <2>2, <3>1, MergedRow DEF StagedWrites, OwnsRow
  <2>4. CASE InsertsLive(r)
    <3>1. live' = t.nlv /\ live = NoLive /\ t.nlv \in Live
      BY <1>1, <2>1, <2>4 DEF CommitUpdate, InsertsLive, UpdatesLive
    <3> QED
      BY <2>1, <2>3, <3>1, NullAssumption
  <2>5. CASE ~InsertsLive(r) /\ UpdatesLive(r)
    <3>1. t.lv \in Live /\ t.nlv \in Live /\ live \in Live
      BY <1>1, <2>1, <2>5, NullAssumption DEF UpdatesLive
    <3>2. live' = MergeLive(t.lv, t.nlv, live)
      BY <2>5 DEF CommitUpdate
    <3>3. live' \in Live /\ OwnsLive(t.op)
      BY <1>1, <3>1, <3>2, MergedLive, NullAssumption
      DEF StagedWrites, OwnsLive
    <3> QED
      BY <2>1, <2>3, <3>3, NullAssumption
  <2>6. CASE ~InsertsLive(r) /\ ~UpdatesLive(r)
    <3>1. live' = live
      BY <2>6 DEF CommitUpdate
    <3> QED
      BY <1>1, <2>1, <2>3, <3>1, NullAssumption DEF OwnsLive
  <2> QED
    BY <2>4, <2>5, <2>6
<1> QED
  BY <1>2, <1>3

LEMMA CommitInv ==
  ASSUME Inv, NEW r \in Request, Commit(r)
  PROVE  Inv'
<1>1. CASE Rollback(r, "failed")
  BY <1>1, RollbackInv
<1>2. CASE /\ CommitDelete(r) \/ CommitUpdate(r) \/ CommitEvent(r)
           /\ audit' = audit \cup AuditEntries(r)
           /\ Enter(r, "committed")
           /\ Unlock(r)
  <2> USE <1>2
  <2>1. At(r, "flushed")
    BY DEF Commit
  <2>2. "committed" \in Phase
    BY DEF Phase
  <2>3. /\ txn' \in [Request -> Session] /\ txn'[r].phase = "committed"
        /\ \A q \in Request \ {r} : txn'[q] = txn[q]
    BY <2>2, EnterPhase DEF Inv
  <2>4. /\ row' \in Row \cup {NoRow} /\ live' \in Live \cup {NoLive}
        /\ row = NoRow => row' = NoRow
        /\ live # NoLive => live' # NoLive \/ row' = NoRow
        /\ row' = NoRow => live' = NoLive
        /\ row' # row \/ live' # live => rowLock = r \/ row = NoRow
        /\ row = NoRow => live' = live
    <3>1. CASE CommitDelete(r)
      BY <2>1, <3>1 DEF CommitDelete, Inv, SessionInv, NoOrphan, At
    <3>2. CASE CommitUpdate(r)
      BY <2>1, <3>2, CommitUpdateFacts DEF Inv, NoOrphan
    <3>3. CASE CommitEvent(r)
      BY <3>3 DEF CommitEvent, Inv, TypeOK, NoOrphan
    <3> QED
      BY <3>1, <3>2, <3>3
  <2>5. events' \in Nat
    BY DEF Inv, TypeOK, CommitDelete, CommitUpdate, CommitEvent
  <2>6. audit' \subseteq [request : Request, action : Routes, actor : Users]
    BY <2>1 DEF Inv, TypeOK, SessionInv, StagedWrites, At, Open, AuditEntries
  <2>7. rowLock' \in Request \cup {NoRequest} /\ liveLock' \in Request \cup {NoRequest}
    BY DEF Inv, TypeOK, Unlock
  <2>8. TypeOK' /\ NoOrphan'
    BY <2>3, <2>4, <2>5, <2>6, <2>7 DEF TypeOK, NoOrphan
  <2>9. LocksAreHeld'
    BY <2>3, <2>7, RequestAssumption DEF Inv, LocksAreHeld, Unlock
  <2>10. ASSUME NEW q \in Request PROVE SessionInv(q)'
    <3>1. CASE q = r
      BY <3>1, <2>3 DEF SessionInv, At, Open
    <3>2. CASE q # r
      <4>1. /\ txn'[q] = txn[q]
            /\ rowLock = q => rowLock' = q /\ (row' # row \/ live' # live => row = NoRow)
        BY <3>2, <2>3, <2>4 DEF Unlock
      <4> QED
        BY <4>1, <2>4 DEF Inv, SessionInv, At, InsertsLive
    <3> QED
      BY <3>1, <3>2
  <2> QED
    BY <2>8, <2>9, <2>10 DEF Inv
<1> QED
  BY <1>1, <1>2 DEF Commit

LEMMA NextInv == Inv /\ [Next]_vars => Inv'
<1> SUFFICES ASSUME Inv, [Next]_vars PROVE Inv'
  OBVIOUS
<1>1. ASSUME NEW r \in Request, Serve(r) PROVE Inv'
  <2>1. CASE BreakDeadlock(r)
    BY <2>1, RollbackInv DEF BreakDeadlock
  <2> QED
    BY <1>1, <2>1, LoadInv, HandleInv, FlushRowInv, FlushLiveInv, DeleteInv,
       CommitInv, EndInv
    DEF Serve, Database
<1>2. ASSUME NEW r \in Request, Crash(r) PROVE Inv'
  BY <1>2, EndInv
<1>3. CASE UNCHANGED vars
  <2>1. UNCHANGED <<row, live, events, audit, rowLock, liveLock, txn>>
    BY <1>3 DEF vars, tables, locks
  <2> QED
    BY <2>1 DEF Inv, TypeOK, LocksAreHeld, NoOrphan, SessionInv, At, InsertsLive
<1> QED
  BY <1>1, <1>2, <1>3 DEF Next, Quiet

-----------------------------------------------------------------------------
(* In every reachable state of any number of concurrent requests the       *)
(* inductive invariant holds: the rows, the sessions and the locks agree   *)
(* (get_db, _load_fixture, the handlers of admin.py, the unit of work).    *)
THEOREM Invariance == Spec => []Inv
<1>1. Init => Inv
  BY InitInv
<1>2. Inv /\ [Next]_vars => Inv'
  BY NextInv
<1> QED
  BY <1>1, <1>2, PTL DEF Spec

(* The rows keep the types of their columns (app/models/fixtures.py).      *)
THEOREM TypeCorrectness == Spec => []TypeOK
<1>1. Inv => TypeOK
  BY DEF Inv
<1> QED
  BY <1>1, Invariance, PTL

(* No row lock outlives the session that took it, whatever fails.          *)
THEOREM LockSafety == Spec => []LocksAreHeld
<1>1. Inv => LocksAreHeld
  BY DEF Inv
<1> QED
  BY <1>1, Invariance, PTL

(* A deletion leaves no live row behind, even one it has not seen.         *)
THEOREM OrphanFreedom == Spec => []NoOrphan
<1>1. Inv => NoOrphan
  BY DEF Inv
<1> QED
  BY <1>1, Invariance, PTL

LEMMA NextOwnStep == Inv /\ [Next]_vars => [OwnStep]_vars
<1> SUFFICES ASSUME Inv, Next PROVE OwnStep
  BY DEF OwnStep, vars, tables
<1>1. ASSUME NEW r \in Request, Commit(r), ~UNCHANGED tables PROVE OwnStep
  <2>1. /\ At(r, "flushed")
        /\ CommitDelete(r) \/ CommitUpdate(r) \/ CommitEvent(r)
        /\ Enter(r, "committed")
    BY <1>1 DEF Commit, Rollback
  <2>2. Commits(r)
    BY <2>1, EnterPhase DEF Commits, Inv, Phase
  <2>3. CASE CommitDelete(r)
    BY <2>2, <2>3 DEF CommitDelete, OwnStep
  <2>4. CASE CommitUpdate(r)
    <3>1. CASE row = NoRow
      BY <2>1, <2>4, <3>1, CommitUpdateFacts DEF OwnStep
    <3>2. CASE row # NoRow
      BY <2>1, <2>2, <2>4, <3>2, CommitUpdateFacts DEF OwnStep
    <3> QED
      BY <3>1, <3>2
  <2>5. CASE CommitEvent(r)
    BY <2>5 DEF CommitEvent, OwnStep
  <2> QED
    BY <2>1, <2>3, <2>4, <2>5
<1>2. ASSUME NEW r \in Request, Handle(r) PROVE UNCHANGED tables
  BY <1>2
  DEF Handle, StartFixture, UpdateScore, AddEvent, SetPeriod, PauseFixture,
      ResumeFixture, CompleteFixture, ReopenFixture, CorrectFixture,
      PostponeFixture, CancelFixture, UpdateFixture, RescheduleFixture,
      DeleteFixture, ChangeStatus, Respond, Stage, Rollback
<1>3. ASSUME NEW r \in Request,
             \/ LoadFixture(r) \/ FlushRow(r) \/ FlushLive(r) \/ DeleteLive(r)
             \/ DeleteRow(r) \/ BreakDeadlock(r) \/ Publish(r) \/ Crash(r)
      PROVE  UNCHANGED tables
  BY <1>3
  DEF LoadFixture, FlushRow, FlushLive, DeleteLive, DeleteRow, BreakDeadlock,
      Publish, Crash, Rollback, tables
<1>4. UNCHANGED tables => OwnStep
  BY DEF tables, OwnStep
<1> QED
  BY <1>1, <1>2, <1>3, <1>4 DEF Next, Serve, Database, Quiet, vars

(* No request undoes what a request of another kind wrote, however they    *)
(* overlap: the unit of work writes changed columns only, under the lock   *)
(* of the row (admin.py, scoring.py, models/fixtures.py fixture_id).       *)
THEOREM OwnColumns == Spec => OwnColumnsOnly
<1>1. Inv /\ [Next]_vars => [OwnStep]_vars
  BY NextOwnStep
<1> QED
  BY <1>1, Invariance, PTL DEF Spec, OwnColumnsOnly

-----------------------------------------------------------------------------
(* The audit log *)

(* The phases of a session whose writes have been committed.               *)
Recorded == {"committed", "done", "lost"}

(* Before its commit a session has nothing in the audit log.               *)
Unrecorded(r) ==
  txn[r].phase \notin Recorded => \A entry \in audit : entry.request # r

(* A step of a session touches no other session; it writes to the log in   *)
(* its commit only, and a committed session is not opened again.           *)
LEMMA SessionStep ==
  ASSUME Inv, NEW r \in Request, Serve(r) \/ Crash(r)
  PROVE  /\ \A q \in Request \ {r} : txn'[q] = txn[q]
         /\ \/ /\ At(r, "flushed") /\ txn'[r].phase = "committed"
               /\ CommitDelete(r) \/ CommitUpdate(r) \/ CommitEvent(r)
               /\ audit' = audit \cup AuditEntries(r)
            \/ /\ UNCHANGED tables
               /\ txn[r].phase \in Recorded => txn'[r].phase \in Recorded
<1> USE DEF Recorded
<1>0. txn \in [Request -> Session]
  BY DEF Inv, TypeOK
<1>1. ASSUME NEW outcome \in {"rejected", "failed"}, Rollback(r, outcome),
             txn[r].phase \notin Recorded
      PROVE  /\ \A q \in Request \ {r} : txn'[q] = txn[q]
             /\ UNCHANGED tables
  BY <1>0, <1>1 DEF Rollback
<1>2. ASSUME NEW phase \in Phase, Enter(r, phase)
      PROVE  /\ \A q \in Request \ {r} : txn'[q] = txn[q]
             /\ txn'[r].phase = phase
  BY <1>2, EnterPhase DEF Inv
<1>3. CASE LoadFixture(r)
  <2>1. txn[r].phase \notin Recorded
    BY <1>3 DEF LoadFixture, At
  <2> QED
    BY <1>0, <1>1, <1>3, <2>1 DEF LoadFixture
<1>4. CASE Handle(r)
  <2>1. At(r, "loaded")
    BY <1>4 DEF Handle, Handling, StartFixture, UpdateScore, AddEvent, SetPeriod,
         PauseFixture, ResumeFixture, CompleteFixture, ReopenFixture,
         CorrectFixture, PostponeFixture, CancelFixture, UpdateFixture,
         RescheduleFixture, DeleteFixture
  <2>2. \/ Rollback(r, "rejected") \/ Rollback(r, "failed")
        \/ \E op, u, nfx, nlv : Stage(r, op, u, nfx, nlv)
    BY <1>4
    DEF Handle, StartFixture, UpdateScore, AddEvent, SetPeriod, PauseFixture,
        ResumeFixture, CompleteFixture, ReopenFixture, CorrectFixture,
        PostponeFixture, CancelFixture, UpdateFixture, RescheduleFixture,
        DeleteFixture, ChangeStatus, Respond
  <2>3. ASSUME NEW op, NEW u, NEW nfx, NEW nlv, Stage(r, op, u, nfx, nlv)
        PROVE  /\ \A q \in Request \ {r} : txn'[q] = txn[q]
               /\ UNCHANGED tables
    BY <1>0, <2>3 DEF Stage
  <2> QED
    BY <1>1, <2>1, <2>2, <2>3 DEF At
<1>5. CASE FlushRow(r) \/ FlushLive(r) \/ DeleteLive(r) \/ DeleteRow(r)
  <2>1. txn[r].phase \notin Recorded
    BY <1>5 DEF FlushRow, FlushLive, DeleteLive, DeleteRow, At
  <2>2. UNCHANGED tables
    BY <1>5 DEF FlushRow, FlushLive, DeleteLive, DeleteRow, Rollback
  <2>3. \/ Rollback(r, "failed")
        \/ \E phase \in {"flushed", "rowHeld", "liveGone"} : Enter(r, phase)
    BY <1>5 DEF FlushRow, FlushLive, DeleteLive, DeleteRow
  <2>4. {"flushed", "rowHeld", "liveGone"} \subseteq Phase
    BY DEF Phase
  <2> QED
    BY <1>1, <1>2, <2>1, <2>2, <2>3, <2>4
<1>6. CASE BreakDeadlock(r)
  <2>1. txn[r].phase \notin Recorded
    BY <1>6 DEF BreakDeadlock, Deadlocked, At
  <2> QED
    BY <1>1, <1>6, <2>1 DEF BreakDeadlock
<1>7. CASE Commit(r)
  <2>1. txn[r].phase \notin Recorded /\ "committed" \in Phase
    BY <1>7 DEF Commit, At, Phase
  <2> QED
    BY <1>1, <1>2, <1>7, <2>1 DEF Commit
<1>8. CASE Publish(r) \/ Crash(r)
  <2>1. {"done", "lost"} \subseteq Phase
    BY DEF Phase
  <2>2. CASE txn[r].phase \in Active /\ Rollback(r, "failed")
    BY <1>1, <2>2 DEF Active
  <2>3. CASE (Enter(r, "done") \/ Enter(r, "lost")) /\ UNCHANGED tables
    BY <1>2, <2>1, <2>3
  <2> QED
    BY <1>8, <2>2, <2>3 DEF Publish, Crash
<1> QED
  BY <1>3, <1>4, <1>5, <1>6, <1>7, <1>8 DEF Serve, Database

LEMMA NextUnrecorded ==
  ASSUME Inv, \A r \in Request : Unrecorded(r), [Next]_vars
  PROVE  \A r \in Request : Unrecorded(r)'
<1>1. CASE UNCHANGED vars
  BY <1>1 DEF Unrecorded, vars, tables
<1>2. ASSUME NEW r \in Request, Serve(r) \/ Crash(r)
      PROVE  \A q \in Request : Unrecorded(q)'
  <2>1. \A entry \in AuditEntries(r) : entry.request = r
    BY DEF AuditEntries
  <2>2. UNCHANGED tables => audit' = audit
    BY DEF tables
  <2> QED
    BY <1>2, <2>1, <2>2, SessionStep DEF Unrecorded, Recorded
<1> QED
  BY <1>1, <1>2 DEF Next, Quiet

(* What AuditExplains says of one step.                                    *)
Explained ==
  \/ /\ audit' = audit
     /\ (row = NoRow) = (row' = NoRow)
     /\ row # NoRow => row'.status = row.status /\ row'.official = row.official
  \/ \E r \in Request :
       /\ Commits(r)
       /\ audit' \ audit = {[request |-> r, action |-> txn[r].op,
                             actor |-> txn[r].user]}

(* A route that owns the status, the official or the existence of a row is *)
(* an audited one.                                                         *)
LEMMA NextExplained ==
  ASSUME Inv, \A r \in Request : Unrecorded(r), Next
  PROVE  Explained
<1>1. UNCHANGED tables => Explained
  BY DEF Explained, tables
<1>2. ASSUME NEW r \in Request,
             At(r, "flushed"), txn'[r].phase = "committed",
             CommitDelete(r) \/ CommitUpdate(r) \/ CommitEvent(r),
             audit' = audit \cup AuditEntries(r)
      PROVE  Explained
  <2> DEFINE entry == [request |-> r, action |-> txn[r].op, actor |-> txn[r].user]
  <2>1. CASE txn[r].op \in AuditedRoutes
    <3>1. Unrecorded(r)
      OBVIOUS
    <3>2. AuditEntries(r) = {entry} /\ entry.request = r
      BY <2>1 DEF AuditEntries
    <3>3. entry \notin audit
      BY <1>2, <3>1, <3>2 DEF Unrecorded, Recorded, At
    <3>4. audit' \ audit = {entry}
      BY <1>2, <3>2, <3>3
    <3> QED
      BY <1>2, <3>4 DEF Explained, Commits
  <2>2. CASE txn[r].op \notin AuditedRoutes
    <3>1. audit' = audit
      BY <1>2, <2>2 DEF AuditEntries
    <3>2. ~CommitDelete(r)
      BY <2>2 DEF AuditedRoutes, Routes, CommitDelete
    <3>3. CASE CommitUpdate(r)
      <4>1. row' = NoRow <=> row = NoRow
        BY <1>2, <3>3, CommitUpdateFacts
      <4>2. row # NoRow => OwnsRow(txn[r].op)
        BY <1>2, <3>3, CommitUpdateFacts
      <4>3. row # NoRow => row'.status = row.status /\ row'.official = row.official
        BY <2>2, <4>2 DEF OwnsRow, StatusRoutes, AuditedRoutes, Routes
      <4> QED
        BY <3>1, <4>1, <4>3 DEF Explained
    <3>4. CASE CommitEvent(r)
      BY <3>1, <3>4 DEF CommitEvent, Explained
    <3> QED
      BY <1>2, <3>2, <3>3, <3>4
  <2> QED
    BY <2>1, <2>2
<1>3. Quiet => UNCHANGED tables
  BY DEF Quiet, vars
<1> QED
  BY <1>1, <1>2, <1>3, SessionStep DEF Next

(* Every change of status, official or existence is explained by the audit *)
(* entry of its author, written in the same commit, and nothing rolled     *)
(* back is in the log (record_audit, admin.py).                            *)
THEOREM AuditTrail == Spec => AuditExplains
<1> DEFINE AuditInv == \A r \in Request : Unrecorded(r)
<1>1. Init => AuditInv
  BY DEF Init, Unrecorded
<1>2. Inv /\ AuditInv /\ [Next]_vars => AuditInv'
  BY NextUnrecorded
<1>3. Inv /\ AuditInv /\ [Next]_vars => [Explained]_vars
  BY NextExplained
<1> HIDE DEF AuditInv
<1>4. Spec => [][Explained]_vars
  BY <1>1, <1>2, <1>3, Invariance, PTL DEF Spec
<1> QED
  BY <1>4 DEF Explained, AuditExplains

-----------------------------------------------------------------------------
(* The promise of FixtureService *)

(* The rows nfx and nlv are what the request of u may make of fx and lv:   *)
(* the steps of FixtureService, as conditions on what a session holds.     *)
MayMove(u, fx, lv, nfx, nlv) ==
  \E target \in {"LIVE", "PAUSED", "COMPLETED",
                 "UNDER_REVIEW", "POSTPONED", "CANCELLED"} :
    /\ \/ target \in {"LIVE", "PAUSED", "COMPLETED"} /\ Assigned(fx, u)
       \/ target \in {"UNDER_REVIEW", "POSTPONED", "CANCELLED"} /\ IsAdmin(u)
    /\ AssertTransition(fx.status, target, IsAdmin(u))
    /\ nfx = Bumped(fx, target)
    /\ \/ nlv = Follow(lv, fx)
       \/ target = "LIVE" /\ nlv = Follow(EnsureLive(lv), fx)

MayScore(u, fx, lv, nfx, nlv) ==
  \E score \in Scores \cup {AddScore(EnsureLive(lv).score, d) : d \in Deltas},
     period \in Periods :
    /\ Assigned(fx, u) /\ fx.status \in LiveEditable
    /\ nfx = Bumped(fx, fx.status)
    /\ nlv = [score |-> score, period |-> period, version |-> fx.version + 1]

MaySetPeriod(u, fx, lv, nfx, nlv) ==
  \E period \in Periods :
    /\ Assigned(fx, u)
    /\ nfx = Bumped(fx, fx.status)
    /\ nlv = [Follow(EnsureLive(lv), fx) EXCEPT !.period = period]

MayCorrect(u, fx, lv, nfx, nlv) ==
  \E score \in Scores \cup {EnsureLive(lv).score} :
    /\ IsAdmin(u)
    /\ nfx = Bumped(fx, "COMPLETED")
    /\ nlv = [Follow(EnsureLive(lv), fx) EXCEPT !.score = score]

MayManage(u, fx, lv, nfx, nlv) ==
  /\ IsAdmin(u)
  /\ \E official \in Officials \cup {NoUser, fx.official}, plan \in Plans,
        published \in Published :
       nfx = Patched(fx, official, plan, published)
  /\ nlv = lv

May(u, fx, lv, nfx, nlv) ==
  \/ MayMove(u, fx, lv, nfx, nlv) \/ MayScore(u, fx, lv, nfx, nlv)
  \/ MaySetPeriod(u, fx, lv, nfx, nlv) \/ MayCorrect(u, fx, lv, nfx, nlv)
  \/ MayManage(u, fx, lv, nfx, nlv)

(* An open session has passed the checks of its route.                     *)
Granted(t) ==
  \/ t.op = "event"
  \/ t.op = "delete" /\ IsAdmin(t.user)
  \/ t.op \notin {"event", "delete"} /\ May(t.user, t.fx, t.lv, t.nfx, t.nlv)

GrantedInv == \A r \in Request : txn[r].phase \in Open => Granted(txn[r])

(* Rows are equal if their columns are. *)
LEMMA EqualRows ==
  ASSUME NEW a \in Row, NEW b \in Row,
         a.status = b.status, a.version = b.version, a.official = b.official,
         a.published = b.published, a.plan = b.plan
  PROVE  a = b
BY DEF Row

LEMMA EqualLives ==
  ASSUME NEW a \in Live, NEW b \in Live,
         a.score = b.score, a.period = b.period, a.version = b.version
  PROVE  a = b
BY DEF Live

(* A live row with another score and period keeps its version only.        *)
LEMMA RescoredLive ==
  ASSUME NEW lv \in Live, NEW score \in Nat, NEW period \in Periods
  PROVE  [lv EXCEPT !.score = score, !.period = period]
           = [score |-> score, period |-> period, version |-> lv.version]
<1> DEFINE a == [lv EXCEPT !.score = score, !.period = period]
           b == [score |-> score, period |-> period, version |-> lv.version]
<1>1. a \in Live /\ a.score = score /\ a.period = period /\ a.version = lv.version
  BY DEF Live
<1>2. b \in Live /\ b.score = score /\ b.period = period /\ b.version = lv.version
  BY DEF Live
<1> SUFFICES a = b
  OBVIOUS
<1> HIDE DEF a, b
<1> QED
  BY <1>1, <1>2, EqualLives

(* Each handler makes of the rows it has loaded what its route may.        *)
LEMMA HandleGranted ==
  ASSUME Inv, NEW r \in Request, Handle(r)
  PROVE  \/ Rollback(r, "rejected") \/ Rollback(r, "failed")
         \/ \E op, u, nfx, nlv : /\ Stage(r, op, u, nfx, nlv)
                                 /\ Granted(Staged(r, op, u, nfx, nlv))
<1> DEFINE fx == txn[r].fx
           follow == Follow(EnsureLive(live), fx)
           Goal == \/ Rollback(r, "rejected") \/ Rollback(r, "failed")
                   \/ \E op, u, nfx, nlv :
                        /\ Stage(r, op, u, nfx, nlv)
                        /\ Granted(Staged(r, op, u, nfx, nlv))
<1>1. At(r, "loaded")
  BY DEF Handle, Handling, StartFixture, UpdateScore, AddEvent, SetPeriod,
         PauseFixture, ResumeFixture, CompleteFixture, ReopenFixture,
         CorrectFixture, PostponeFixture, CancelFixture, UpdateFixture,
         RescheduleFixture, DeleteFixture
<1>2. fx \in Row /\ live \in Live \cup {NoLive}
  BY <1>1 DEF Inv, TypeOK, SessionInv, At
<1>3. EnsureLive(live) \in Live /\ (live # NoLive => EnsureLive(live) = live)
  BY <1>2, EnsuredLive
<1>4. follow \in Live /\ follow.version = fx.version + 1
  BY <1>2, <1>3, NullAssumption DEF Follow, Live, Row
<1>5. \A u \in Admins : IsAdmin(u) /\ u \in Users
  BY DEF IsAdmin, Users
<1> DEFINE Ops == Routes \ {"event", "delete"}
<1>6. ASSUME NEW op \in Ops, NEW u \in Users, NEW nfx, NEW nlv,
             \/ Rollback(r, "rejected")
             \/ May(u, fx, live, nfx, nlv) /\ Stage(r, op, u, nfx, nlv)
      PROVE  Goal
  BY <1>6 DEF Staged, Granted
<1>7. {"start", "score", "period", "pause", "resume", "complete", "reopen",
       "correct", "postpone", "cancel", "patch", "reschedule"} \subseteq Ops
  BY DEF Routes
<1> SUFFICES Goal
  OBVIOUS
<1> HIDE DEF fx, follow, Goal, Ops
<1>8. ASSUME NEW op \in Ops, NEW u \in Users,
             NEW target \in {"LIVE", "PAUSED", "COMPLETED"},
             ChangeStatus(r, op, u, Assigned(fx, u), target)
      PROVE  Goal
  <2>1. /\ Assigned(fx, u)
        /\ AssertTransition(fx.status, target, IsAdmin(u))
        => May(u, fx, live, Bumped(fx, target), Follow(live, fx))
    BY <1>8 DEF May, MayMove
  <2> QED
    BY <1>6, <1>8, <2>1 DEF ChangeStatus, Respond, fx
<1>9. ASSUME NEW op \in Ops, NEW u \in Admins,
             NEW target \in {"UNDER_REVIEW", "POSTPONED", "CANCELLED"},
             ChangeStatus(r, op, u, TRUE, target)
      PROVE  Goal
  <2>1. AssertTransition(fx.status, target, IsAdmin(u))
        => May(u, fx, live, Bumped(fx, target), Follow(live, fx))
    BY <1>5, <1>9 DEF May, MayMove
  <2> QED
    BY <1>5, <1>6, <1>9, <2>1 DEF ChangeStatus, Respond, fx
<1>11. CASE StartFixture(r)
  <2>1. PICK u \in Users :
          \/ Rollback(r, "rejected")
          \/ /\ Assigned(fx, u) /\ AssertTransition(fx.status, "LIVE", IsAdmin(u))
             /\ Stage(r, "start", u, Bumped(fx, "LIVE"), follow)
    BY <1>11 DEF StartFixture, Respond, fx, follow
  <2>2. Assigned(fx, u) /\ AssertTransition(fx.status, "LIVE", IsAdmin(u))
        => May(u, fx, live, Bumped(fx, "LIVE"), follow)
    BY DEF May, MayMove, follow
  <2> QED
    BY <1>5, <1>6, <1>7, <2>1, <2>2
<1>12. CASE PauseFixture(r) \/ ResumeFixture(r)
  <2>1. PICK op \in {"pause", "resume"}, u \in Users, target \in {"LIVE", "PAUSED"} :
          ChangeStatus(r, op, u, Assigned(fx, u), target)
    BY <1>12 DEF PauseFixture, ResumeFixture, fx
  <2> QED
    BY <1>7, <1>8, <2>1
<1>13. CASE CompleteFixture(r)
  <2>1. PICK u \in Users, expected \in Versions :
          \/ Rollback(r, "rejected")
          \/ /\ Assigned(fx, u)
             /\ AssertTransition(fx.status, "COMPLETED", IsAdmin(u))
             /\ Stage(r, "complete", u, Bumped(fx, "COMPLETED"), Follow(live, fx))
    BY <1>13 DEF CompleteFixture, Respond, fx
  <2>2. Assigned(fx, u) /\ AssertTransition(fx.status, "COMPLETED", IsAdmin(u))
        => May(u, fx, live, Bumped(fx, "COMPLETED"), Follow(live, fx))
    BY DEF May, MayMove
  <2> QED
    BY <1>5, <1>6, <1>7, <2>1, <2>2
<1>14. CASE ReopenFixture(r) \/ PostponeFixture(r) \/ CancelFixture(r)
  <2>1. PICK op \in {"reopen", "postpone", "cancel"}, u \in Admins,
             target \in {"UNDER_REVIEW", "POSTPONED", "CANCELLED"} :
          ChangeStatus(r, op, u, TRUE, target)
    BY <1>14 DEF ReopenFixture, PostponeFixture, CancelFixture
  <2> QED
    BY <1>7, <1>9, <2>1
<1>15. CASE UpdateScore(r)
  <2> DEFINE Scored(score, period) == [follow EXCEPT !.score = score, !.period = period]
  <2>1. \/ Rollback(r, "failed")
        \/ \E u \in Users, expected \in Versions, period \in Periods,
             score \in Scores \cup {AddScore(EnsureLive(live).score, d) : d \in Deltas} :
             \/ Rollback(r, "rejected")
             \/ /\ Assigned(fx, u) /\ ScoreChecks(fx, expected)
                /\ Stage(r, "score", u, Bumped(fx, fx.status), Scored(score, period))
    <3>1. PICK u \in Users, expected \in Versions, period \in Periods :
            LET Reply(score) ==
                  \/ Rollback(r, "rejected")
                  \/ /\ Assigned(fx, u) /\ ScoreChecks(fx, expected)
                     /\ Stage(r, "score", u, Bumped(fx, fx.status),
                              Scored(score, period))
            IN \/ \E score \in Scores : Reply(score)
               \/ /\ live # NoLive
                  /\ \E delta \in Deltas : Reply(AddScore(live.score, delta))
               \/ Rollback(r, "failed")
      BY <1>15 DEF UpdateScore, Respond, fx, follow
    <3> QED
      BY <1>3, <3>1
  <2>2. ASSUME NEW u \in Users, NEW expected \in Versions, NEW period \in Periods,
               NEW score \in Scores
                 \cup {AddScore(EnsureLive(live).score, d) : d \in Deltas},
               \/ Rollback(r, "rejected")
               \/ /\ Assigned(fx, u) /\ ScoreChecks(fx, expected)
                  /\ Stage(r, "score", u, Bumped(fx, fx.status), Scored(score, period))
        PROVE  Goal
    <3> score \in Nat
      <4>1. \A d \in Deltas : AddScore(EnsureLive(live).score, d) \in Nat
        BY <1>3, DataAssumption, AddScoreNat DEF Live
      <4> QED
        BY <2>2, <4>1, DataAssumption
    <3>1. Scored(score, period)
            = [score |-> score, period |-> period, version |-> fx.version + 1]
      BY <1>4, RescoredLive
    <3>2. Assigned(fx, u) /\ ScoreChecks(fx, expected)
          => MayScore(u, fx, live, Bumped(fx, fx.status), Scored(score, period))
      BY <3>1 DEF MayScore, ScoreChecks
    <3>3. Assigned(fx, u) /\ ScoreChecks(fx, expected)
          => May(u, fx, live, Bumped(fx, fx.status), Scored(score, period))
      BY <3>2 DEF May
    <3> HIDE DEF Scored
    <3> QED
      BY <1>6, <1>7, <2>2, <3>3
  <2> QED
    BY <2>1, <2>2 DEF Goal
<1>16. CASE SetPeriod(r)
  <2>1. PICK u \in Users, expected \in Versions, period \in Periods :
          \/ Rollback(r, "rejected")
          \/ /\ Assigned(fx, u)
             /\ Stage(r, "period", u, Bumped(fx, fx.status),
                      [follow EXCEPT !.period = period])
    BY <1>16 DEF SetPeriod, Respond, fx, follow
  <2>2. Assigned(fx, u)
        => May(u, fx, live, Bumped(fx, fx.status), [follow EXCEPT !.period = period])
    BY DEF May, MaySetPeriod, follow
  <2> QED
    BY <1>5, <1>6, <1>7, <2>1, <2>2
<1>17. CASE CorrectFixture(r)
  <2>1. PICK u \in Admins, score \in Scores \cup {EnsureLive(live).score} :
          \/ Rollback(r, "rejected")
          \/ Stage(r, "correct", u, Bumped(fx, "COMPLETED"),
                  [follow EXCEPT !.score = score])
    BY <1>17 DEF CorrectFixture, Respond, fx, follow
  <2>2. May(u, fx, live, Bumped(fx, "COMPLETED"), [follow EXCEPT !.score = score])
    BY <1>5 DEF May, MayCorrect, follow
  <2> QED
    BY <1>5, <1>6, <1>7, <2>1, <2>2
<1>18. CASE UpdateFixture(r)
  <2>1. PICK u \in Admins, official \in Officials \cup {NoUser, fx.official},
             plan \in Plans, published \in Published :
          \/ Rollback(r, "rejected")
          \/ Stage(r, "patch", u, Patched(fx, official, plan, published), live)
    BY <1>18 DEF UpdateFixture, Respond, fx
  <2>2. May(u, fx, live, Patched(fx, official, plan, published), live)
    BY <1>5 DEF May, MayManage
  <2> QED
    BY <1>5, <1>6, <1>7, <2>1, <2>2
<1>19. CASE RescheduleFixture(r)
  <2>1. PICK u \in Admins, plan \in Plans :
          \/ Rollback(r, "rejected")
          \/ Stage(r, "reschedule", u, [fx EXCEPT !.plan = plan], live)
    BY <1>19 DEF RescheduleFixture, Respond, fx
  <2>2. [fx EXCEPT !.plan = plan] = Patched(fx, fx.official, plan, "unset")
    BY <1>2 DEF Patched, Row
  <2>3. "unset" \in Published
    BY DEF Published
  <2>4. May(u, fx, live, [fx EXCEPT !.plan = plan], live)
    BY <1>5, <2>2, <2>3 DEF May, MayManage
  <2> QED
    BY <1>5, <1>6, <1>7, <2>1, <2>4
<1>20. CASE AddEvent(r)
  BY <1>20 DEF AddEvent, Respond, Staged, Granted, Goal
<1>21. CASE DeleteFixture(r)
  BY <1>5, <1>21 DEF DeleteFixture, Respond, Staged, Granted, Goal
<1> QED
  BY <1>11, <1>12, <1>13, <1>14, <1>15, <1>16, <1>17, <1>18, <1>19, <1>20, <1>21
  DEF Handle, Goal

LEMMA NextGranted ==
  ASSUME Inv, GrantedInv, [Next]_vars
  PROVE  GrantedInv'
<1>0. txn \in [Request -> Session]
  BY DEF Inv, TypeOK
<1>1. CASE UNCHANGED vars
  BY <1>1 DEF GrantedInv, Granted, vars
<1>2. ASSUME NEW r \in Request,
             \A q \in Request \ {r} : txn'[q] = txn[q],
             txn'[r].phase \in Open => Granted(txn'[r])
      PROVE  GrantedInv'
  BY <1>2 DEF GrantedInv, Granted
<1>3. ASSUME NEW r \in Request, NEW outcome \in {"rejected", "failed"},
             Rollback(r, outcome)
      PROVE  GrantedInv'
  <2>1. /\ \A q \in Request \ {r} : txn'[q] = txn[q]
        /\ txn'[r].phase = outcome
    BY <1>0, <1>3 DEF Rollback, EmptySession
  <2> QED
    BY <1>2, <2>1 DEF Open
<1>4. ASSUME NEW r \in Request, NEW phase \in Phase, Enter(r, phase),
             phase \in Open => txn[r].phase \in Open
      PROVE  GrantedInv'
  <2>1. /\ \A q \in Request \ {r} : txn'[q] = txn[q]
        /\ txn'[r].phase = phase
        /\ txn'[r].op = txn[r].op /\ txn'[r].user = txn[r].user
        /\ txn'[r].fx = txn[r].fx /\ txn'[r].nfx = txn[r].nfx
        /\ txn'[r].lv = txn[r].lv /\ txn'[r].nlv = txn[r].nlv
    BY <1>4, EnterPhase DEF Inv
  <2>2. Granted(txn[r]) => Granted(txn'[r])
    BY <2>1 DEF Granted
  <2> QED
    BY <1>2, <1>4, <2>1, <2>2 DEF GrantedInv
<1>5. Phase = Open \cup {"new", "loaded", "committed", "done", "rejected",
                        "failed", "lost"}
  BY DEF Phase, Open
<1>6. ASSUME NEW r \in Request, Serve(r) \/ Crash(r) PROVE GrantedInv'
  <2>1. CASE LoadFixture(r)
    <3>1. CASE txn' = [txn EXCEPT ![r].phase = "loaded", ![r].fx = row]
      <4>1. /\ \A q \in Request \ {r} : txn'[q] = txn[q]
            /\ txn'[r].phase = "loaded"
        BY <1>0, <3>1 DEF Session
      <4> QED
        BY <1>2, <4>1 DEF Open
    <3> QED
      BY <1>3, <2>1, <3>1 DEF LoadFixture
  <2>2. CASE Handle(r)
    <3>1. ASSUME NEW op, NEW u, NEW nfx, NEW nlv, Stage(r, op, u, nfx, nlv),
                 Granted(Staged(r, op, u, nfx, nlv))
          PROVE  GrantedInv'
      <4>1. /\ txn'[r] = Staged(r, op, u, nfx, nlv)
            /\ \A q \in Request \ {r} : txn'[q] = txn[q]
        BY <1>0, <3>1 DEF Stage
      <4> QED
        BY <1>2, <3>1, <4>1
    <3> QED
      BY <1>3, <2>2, <3>1, HandleGranted
  <2>3. CASE FlushRow(r) \/ FlushLive(r) \/ DeleteLive(r) \/ DeleteRow(r)
    <3>1. txn[r].phase \in Open
      BY <2>3 DEF FlushRow, FlushLive, DeleteLive, DeleteRow, At, Open
    <3>2. \/ Rollback(r, "failed")
          \/ \E phase \in Open : Enter(r, phase)
      BY <2>3 DEF FlushRow, FlushLive, DeleteLive, DeleteRow, Open
    <3> QED
      BY <1>3, <1>4, <1>5, <3>1, <3>2
  <2>4. CASE BreakDeadlock(r) \/ Commit(r) \/ Publish(r) \/ Crash(r)
    <3>1. \/ Rollback(r, "failed")
          \/ \E phase \in {"committed", "done", "lost"} : Enter(r, phase)
      BY <2>4 DEF BreakDeadlock, Commit, Publish, Crash
    <3>2. /\ {"committed", "done", "lost"} \subseteq Phase
          /\ {"committed", "done", "lost"} \cap Open = {}
      BY DEF Phase, Open
    <3> QED
      BY <1>3, <1>4, <3>1, <3>2
  <2> QED
    BY <1>6, <2>1, <2>2, <2>3, <2>4 DEF Serve, Database
<1> QED
  BY <1>1, <1>6 DEF Next, Quiet

(* A session reaches "committed" by COMMIT alone.                          *)
LEMMA CommitsOnly ==
  ASSUME Inv, NEW r \in Request, Next, Commits(r)
  PROVE  /\ At(r, "flushed")
         /\ CommitDelete(r) \/ CommitUpdate(r) \/ CommitEvent(r)
<1>1. At(r, "flushed") /\ txn'[r].phase = "committed"
  BY DEF Commits
<1>2. PICK q \in Request : Serve(q) \/ Crash(q)
  BY <1>1 DEF Next, Quiet, vars, At
<1>3. q = r
  BY <1>1, <1>2, SessionStep DEF At
<1>4. ~Rollback(r, "failed")
  BY <1>1 DEF Inv, TypeOK, Rollback, EmptySession
<1>5. ~LoadFixture(r) /\ ~FlushRow(r) /\ ~FlushLive(r) /\ ~DeleteLive(r)
      /\ ~DeleteRow(r) /\ ~BreakDeadlock(r) /\ ~Publish(r) /\ ~Crash(r)
  BY <1>1, <1>4
  DEF LoadFixture, FlushRow, FlushLive, DeleteLive, DeleteRow, BreakDeadlock,
      Publish, Crash, At
<1>6. ~Handle(r)
  BY <1>1 DEF Handle, Handling, StartFixture, UpdateScore, AddEvent, SetPeriod,
         PauseFixture, ResumeFixture, CompleteFixture, ReopenFixture,
         CorrectFixture, PostponeFixture, CancelFixture, UpdateFixture,
         RescheduleFixture, DeleteFixture, At
<1>7. Commit(r)
  BY <1>2, <1>3, <1>5, <1>6 DEF Serve, Database
<1> QED
  BY <1>1, <1>4, <1>7 DEF Commit

(* If nobody has committed in between, the partial UPDATEs leave exactly   *)
(* the rows the handler had in memory.                                     *)
LEMMA CurrentCommit ==
  ASSUME Inv, NEW r \in Request, At(r, "flushed"), CommitUpdate(r), Current(r)
  PROVE  row' = txn[r].nfx /\ live' = txn[r].nlv
<1> DEFINE t == txn[r]
<1>1. /\ t.fx = row /\ t.lv = live /\ row \in Row /\ t.nfx \in Row
      /\ live \in Live \cup {NoLive} /\ t.nlv \in Live \cup {NoLive}
      /\ t.lv # NoLive => t.nlv # NoLive
  BY DEF Inv, TypeOK, SessionInv, Session, StagedWrites, At, Open, Current
<1>2. MergeRow(row, t.nfx, row) = t.nfx
  <2>1. /\ MergeRow(row, t.nfx, row) \in Row
        /\ MergeRow(row, t.nfx, row).status = t.nfx.status
        /\ MergeRow(row, t.nfx, row).version = t.nfx.version
        /\ MergeRow(row, t.nfx, row).official = t.nfx.official
        /\ MergeRow(row, t.nfx, row).published = t.nfx.published
        /\ MergeRow(row, t.nfx, row).plan = t.nfx.plan
    BY <1>1 DEF MergeRow, Col, Row
  <2> QED
    BY <1>1, <2>1, EqualRows
<1>3. ASSUME live # NoLive PROVE MergeLive(live, t.nlv, live) = t.nlv
  <2>1. live \in Live /\ t.nlv \in Live
    BY <1>1, <1>3
  <2>2. /\ MergeLive(live, t.nlv, live) \in Live
        /\ MergeLive(live, t.nlv, live).score = t.nlv.score
        /\ MergeLive(live, t.nlv, live).period = t.nlv.period
        /\ MergeLive(live, t.nlv, live).version = t.nlv.version
    BY <2>1 DEF MergeLive, Col, Live
  <2> QED
    BY <2>1, <2>2, EqualLives
<1>4. row' = t.nfx
  BY <1>1, <1>2 DEF CommitUpdate
<1>5. live' = t.nlv
  <2>1. CASE InsertsLive(r)
    BY <2>1 DEF CommitUpdate, InsertsLive, UpdatesLive
  <2>2. CASE UpdatesLive(r)
    BY <1>1, <1>3, <2>2 DEF CommitUpdate, InsertsLive, UpdatesLive
  <2>3. CASE ~InsertsLive(r) /\ ~UpdatesLive(r)
    BY <1>1, <2>3 DEF CommitUpdate, InsertsLive, UpdatesLive
  <2> QED
    BY <2>1, <2>2, <2>3
<1> QED
  BY <1>4, <1>5

(* What a session may do is a step of FixtureService.                      *)
LEMMA MayAccept ==
  ASSUME NEW u \in Users, row # NoRow, May(u, row, live, row', live')
  PROVE  Service!Accept(u)
<1> USE DEF Service!Bumped, Bumped, Service!Follow, Follow, Service!EnsureLive,
            EnsureLive, Service!FreshLive, FreshLive, Service!Assigned, Assigned,
            Service!IsAdmin, IsAdmin
<1>1. CASE MayMove(u, row, live, row', live')
  <2>1. PICK target \in {"LIVE", "PAUSED", "COMPLETED",
                         "UNDER_REVIEW", "POSTPONED", "CANCELLED"} :
          /\ \/ target \in {"LIVE", "PAUSED", "COMPLETED"} /\ Assigned(row, u)
             \/ /\ target \in {"UNDER_REVIEW", "POSTPONED", "CANCELLED"}
                /\ IsAdmin(u)
          /\ AssertTransition(row.status, target, IsAdmin(u))
          /\ row' = Bumped(row, target)
          /\ \/ live' = Follow(live, row)
             \/ target = "LIVE" /\ live' = Follow(EnsureLive(live), row)
    BY <1>1 DEF MayMove
  <2>2. AssertTransition(row.status, target, IsAdmin(u))
        => Service!AssertTransition(row.status, target, Service!IsAdmin(u))
    BY DEF AssertTransition, Service!AssertTransition, CanTransition,
           Service!CanTransition, Transitions, Service!Transitions,
           AdminOnlyFrom, Service!AdminOnlyFrom
  <2>3. Service!Move(u, target)
    BY <2>1, <2>2 DEF Service!Move, Service!Targets, Service!AdminTargets
  <2> QED
    BY <2>3 DEF Service!Accept, Service!Targets, Service!AdminTargets
<1>2. CASE MayScore(u, row, live, row', live')
  BY <1>2 DEF MayScore, Service!Accept, Service!KeepScore, AddScore,
     Service!AddScore, LiveEditable, Service!LiveEditable
<1>3. CASE MaySetPeriod(u, row, live, row', live')
  BY <1>3 DEF MaySetPeriod, Service!Accept, Service!KeepPeriod
<1>4. CASE MayCorrect(u, row, live, row', live')
  BY <1>4 DEF MayCorrect, Service!Accept, Service!Correct
<1>5. CASE MayManage(u, row, live, row', live')
  BY <1>5 DEF MayManage, Service!Accept, Service!Manage, Published,
     Service!Published, Visibility, Service!Visibility, Patched, Service!Patched
<1> QED
  BY <1>1, <1>2, <1>3, <1>4, <1>5 DEF May

(* A request that meets no other has, as a whole, the effect of one atomic *)
(* step of FixtureService: authorised, legal and complete (the handlers of *)
(* admin.py, the unit of work and the partial UPDATEs together).           *)
THEOREM AtomicAlone == Spec => AtomicWhenCurrent
<1> DEFINE Atomic ==
      \A r \in Request :
        Commits(r) /\ Current(r)
          => IF txn[r].op = "event" THEN UNCHANGED <<row, live>>
             ELSE Service!Accept(txn[r].user)
<1>1. Init => GrantedInv
  BY DEF Init, GrantedInv, EmptySession, Open
<1>2. Inv /\ GrantedInv /\ [Next]_vars => GrantedInv'
  BY NextGranted
<1>3. ASSUME Inv, GrantedInv, Next, NEW r \in Request, Commits(r), Current(r)
      PROVE  IF txn[r].op = "event" THEN UNCHANGED <<row, live>>
             ELSE Service!Accept(txn[r].user)
  <2>1. /\ At(r, "flushed")
        /\ CommitDelete(r) \/ CommitUpdate(r) \/ CommitEvent(r)
    BY <1>3, CommitsOnly
  <2>2. Granted(txn[r])
    BY <1>3, <2>1 DEF GrantedInv, At, Open
  <2>3. txn[r].fx = row /\ txn[r].lv = live /\ row \in Row /\ txn[r].user \in Users
    BY <1>3, <2>1 DEF Inv, SessionInv, StagedWrites, At, Open, Current
  <2>4. row # NoRow
    BY <2>3, NullAssumption
  <2>5. CASE CommitEvent(r)
    BY <2>5 DEF CommitEvent
  <2>6. CASE CommitDelete(r)
    BY <2>2, <2>4, <2>6
    DEF CommitDelete, Granted, Service!Accept, Service!Delete, Service!IsAdmin,
        IsAdmin
  <2>7. CASE CommitUpdate(r)
    <3>1. row' = txn[r].nfx /\ live' = txn[r].nlv
      BY <1>3, <2>1, <2>7, CurrentCommit
    <3>2. txn[r].op \notin {"event", "delete"}
      BY <2>7 DEF CommitUpdate
    <3>3. May(txn[r].user, row, live, row', live')
      BY <2>2, <2>3, <3>1, <3>2 DEF Granted
    <3> QED
      BY <2>3, <2>4, <3>2, <3>3, MayAccept
  <2> QED
    BY <2>1, <2>5, <2>6, <2>7
<1>4. Inv /\ GrantedInv /\ [Next]_vars => [Atomic]_vars
  BY <1>3
<1> HIDE DEF Atomic
<1>5. Spec => [][Atomic]_vars
  BY <1>1, <1>2, <1>4, Invariance, PTL DEF Spec
<1> QED
  BY <1>5 DEF Atomic, AtomicWhenCurrent
=============================================================================

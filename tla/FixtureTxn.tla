----------------------------- MODULE FixtureTxn -----------------------------
(***************************************************************************)
(* The endpoints of app/api/v1/endpoints/admin.py that act on one fixture, *)
(* as they run side by side: every HTTP request has a database session of  *)
(* its own (db/session.py get_db), PostgreSQL isolates the sessions at     *)
(* READ COMMITTED, and SQLAlchemy's unit of work turns what a handler did  *)
(* in memory into UPDATE statements.                                       *)
(*                                                                         *)
(* A request goes through these phases:                                    *)
(*   new -> loaded       SELECT of the fixture row          (LoadFixture)  *)
(*       -> staged       SELECT of its live row, then the handler's own    *)
(*                       code, in memory            (one action per route) *)
(*       -> rowHeld      UPDATE fixtures, row lock taken        (FlushRow) *)
(*       -> flushed      INSERT/UPDATE live_match_states       (FlushLive) *)
(*       -> committed    COMMIT, row locks released               (Commit) *)
(*       -> done         event published, response sent          (Publish) *)
(* or ends "rejected" (4xx), "failed" (rolled back) or "lost" (the process *)
(* died after the commit, before the event and the response).              *)
(***************************************************************************)
EXTENDS FixtureTables, FiniteSets

CONSTANTS
  Request,      \* the HTTP requests, each served once by its own session
  NoRequest,    \* holder of a lock nobody holds
  Versions,     \* values of expected_version a payload may carry
  Coming        \* the routes requests may come for together, "none" for one
                \* that does not come

Routes == {"start", "score", "event", "period", "pause", "resume", "complete",
           "reopen", "correct", "postpone", "cancel", "patch", "reschedule",
           "delete"}

AuditedButCorrect == Routes \ {"event", "period", "correct"}   \* mutant

(* Every route but "event" and "period" calls record_audit. *)
AuditedRoutes == Routes \ {"event", "period"}

ASSUME RequestAssumption == NoRequest \notin Request
ASSUME ComingAssumption == Coming \subseteq [Request -> Routes \cup {"none"}]

VARIABLES
  row,      \* the committed row of table fixtures, or NoRow
  live,     \* the committed row of table live_match_states, or NoLive
  events,   \* number of committed match_events rows of the fixture
  audit,    \* the committed audit_logs rows
  rowLock,  \* the session holding the lock on the fixture row
  liveLock, \* the session holding the lock on the live row
  txn       \* the session of each request

tables == <<row, live, events, audit>>
locks == <<rowLock, liveLock>>
vars == <<tables, locks, txn>>

Phase == {"new", "loaded", "staged", "rowHeld", "liveGone", "flushed",
          "committed", "done", "rejected", "failed", "lost"}

Session ==
  [phase : Phase, op : Routes \cup {"none"}, user : Users \cup {NoUser},
   fx : Row \cup {NoRow}, lv : Live \cup {NoLive},     \* as loaded
   nfx : Row \cup {NoRow}, nlv : Live \cup {NoLive}]   \* as the handler left them

EmptySession(phase) ==
  [phase |-> phase, op |-> "none", user |-> NoUser,
   fx |-> NoRow, lv |-> NoLive, nfx |-> NoRow, nlv |-> NoLive]

Init ==
  /\ \E o \in Origin : row = o.row /\ live = o.live
  /\ events = 0
  /\ audit = {}
  /\ rowLock = NoRequest
  /\ liveLock = NoRequest
  /\ \E come \in Coming :
       txn = [r \in Request |->
                IF come[r] = "none" THEN EmptySession("done")
                ELSE [EmptySession("new") EXCEPT !.op = come[r]]]

-----------------------------------------------------------------------------
(* Session bookkeeping *)

At(r, phase) == txn[r].phase = phase

Enter(r, phase) == txn' = [txn EXCEPT ![r].phase = phase]

Unlock(r) ==
  /\ rowLock' = IF rowLock = r THEN NoRequest ELSE rowLock
  /\ liveLock' = IF liveLock = r THEN NoRequest ELSE liveLock

RollbackKeepingLocks(r, outcome) ==   \* mutant
  /\ txn' = [txn EXCEPT ![r] = EmptySession(outcome)]
  /\ UNCHANGED <<tables, locks>>

(* The session is closed without a commit: its writes vanish. *)
Rollback(r, outcome) ==
  /\ txn' = [txn EXCEPT ![r] = EmptySession(outcome)]
  /\ Unlock(r)
  /\ UNCHANGED tables

(* _load_fixture, first statement.  The live row is read by a second       *)
(* SELECT (lazy="selectin"), in a snapshot of its own: see Respond.        *)
LoadFixture(r) ==
  /\ At(r, "new")
  /\ \/ row = NoRow /\ Rollback(r, "rejected")
     \/ /\ row # NoRow
        /\ txn' = [txn EXCEPT ![r].phase = "loaded", ![r].fx = row]
        /\ UNCHANGED <<tables, locks>>

(* The handler is done with its checks and assignments, all in memory.     *)
Staged(r, op, u, nfx, nlv) ==
  [phase |-> "staged", op |-> op, user |-> u,
   fx |-> txn[r].fx, lv |-> live, nfx |-> nfx, nlv |-> nlv]

Stage(r, op, u, nfx, nlv) ==
  /\ txn' = [txn EXCEPT ![r] = Staged(r, op, u, nfx, nlv)]
  /\ UNCHANGED <<tables, locks>>

(* Second SELECT, the checks, then the assignments.  "allowed" is the 403  *)
(* check, "fits" the 409 checks.                                           *)
Respond(r, op, u, allowed, fits, nfx, nlv) ==
  \/ ~(allowed /\ fits) /\ Rollback(r, "rejected")
  \/ allowed /\ fits /\ Stage(r, op, u, nfx, nlv)

Handling(r, op) == At(r, "loaded") /\ txn[r].op = op

-----------------------------------------------------------------------------
(* The routes of score officials and admins *)

StartFixture(r) ==
  /\ Handling(r, "start")
  /\ \E u \in Users :
       LET fx == txn[r].fx IN
       Respond(r, "start", u, Assigned(fx, u),
               AssertTransition(fx.status, "LIVE", IsAdmin(u)),
               Bumped(fx, "LIVE"), Follow(EnsureLive(live), fx))

ScoreChecksVersion(fx, expected) == expected = fx.version   \* mutant

ScoreChecks(fx, expected) ==
  fx.status \in LiveEditable /\ expected = fx.version

(* apply_score_update: an absolute score, then a delta, then the period.   *)
(* A live state made in the same request has no score yet (its column      *)
(* default is applied at the flush), so a delta raises a TypeError.        *)
UpdateScore(r) ==
  /\ Handling(r, "score")
  /\ \E u \in Users, expected \in Versions, period \in Periods :
       LET fx == txn[r].fx
           Reply(score) ==
             Respond(r, "score", u, Assigned(fx, u), ScoreChecks(fx, expected),
                     Bumped(fx, fx.status),
                     [Follow(EnsureLive(live), fx) EXCEPT !.score = score,
                                                          !.period = period])
       IN \/ \E score \in Scores : Reply(score)
          \/ /\ live # NoLive
             /\ \E delta \in Deltas : Reply(AddScore(live.score, delta))
          \/ /\ live = NoLive /\ Deltas # {}
             /\ Assigned(fx, u) /\ ScoreChecks(fx, expected)
             /\ Rollback(r, "failed")

AddEvent(r) ==
  /\ Handling(r, "event")
  /\ \E u \in Users :
       LET fx == txn[r].fx IN
       Respond(r, "event", u, Assigned(fx, u), TRUE, fx, live)

(* No check of the status: the period of any fixture may be set. *)
SetPeriod(r) ==
  /\ Handling(r, "period")
  /\ \E u \in Users, expected \in Versions, period \in Periods :
       LET fx == txn[r].fx IN
       Respond(r, "period", u, Assigned(fx, u), expected = fx.version,
               Bumped(fx, fx.status),
               [Follow(EnsureLive(live), fx) EXCEPT !.period = period])

(* _change_status: the live version follows only if there is a live row. *)
ChangeStatus(r, op, u, allowed, target) ==
  LET fx == txn[r].fx IN
  Respond(r, op, u, allowed,
          AssertTransition(fx.status, target, IsAdmin(u)),
          Bumped(fx, target), Follow(live, fx))

PauseFixture(r) ==
  /\ Handling(r, "pause")
  /\ \E u \in Users :
       ChangeStatus(r, "pause", u, Assigned(txn[r].fx, u), "PAUSED")

ResumeFixture(r) ==
  /\ Handling(r, "resume")
  /\ \E u \in Users :
       ChangeStatus(r, "resume", u, Assigned(txn[r].fx, u), "LIVE")

(* The recomputation of the standings inside this transaction changes      *)
(* neither the fixture nor its live row.                                   *)
CompleteFixture(r) ==
  /\ Handling(r, "complete")
  /\ \E u \in Users, expected \in Versions :
       LET fx == txn[r].fx IN
       Respond(r, "complete", u, Assigned(fx, u),
               /\ expected = fx.version
               /\ AssertTransition(fx.status, "COMPLETED", IsAdmin(u)),
               Bumped(fx, "COMPLETED"), Follow(live, fx))

-----------------------------------------------------------------------------
(* The routes of admins *)

ReopenFixture(r) ==
  /\ Handling(r, "reopen")
  /\ \E u \in Admins : ChangeStatus(r, "reopen", u, TRUE, "UNDER_REVIEW")

PostponeFixture(r) ==
  /\ Handling(r, "postpone")
  /\ \E u \in Admins : ChangeStatus(r, "postpone", u, TRUE, "POSTPONED")

CancelFixture(r) ==
  /\ Handling(r, "cancel")
  /\ \E u \in Admins : ChangeStatus(r, "cancel", u, TRUE, "CANCELLED")

(* No check at all: any status becomes COMPLETED. *)
CorrectFixture(r) ==
  /\ Handling(r, "correct")
  /\ \E u \in Admins, score \in Scores \cup {EnsureLive(live).score} :
       LET fx == txn[r].fx IN
       Respond(r, "correct", u, TRUE, TRUE, Bumped(fx, "COMPLETED"),
               [Follow(EnsureLive(live), fx) EXCEPT !.score = score])

UpdateFixture(r) ==
  /\ Handling(r, "patch")
  /\ \E u \in Admins, official \in Officials \cup {NoUser, txn[r].fx.official},
        plan \in Plans, published \in Published :
       Respond(r, "patch", u, TRUE, TRUE,
               Patched(txn[r].fx, official, plan, published), live)

RescheduleFixture(r) ==
  /\ Handling(r, "reschedule")
  /\ \E u \in Admins, plan \in Plans :
       Respond(r, "reschedule", u, TRUE, TRUE,
               [txn[r].fx EXCEPT !.plan = plan], live)

DeleteFixture(r) ==
  /\ Handling(r, "delete")
  /\ \E u \in Admins : Respond(r, "delete", u, TRUE, TRUE, txn[r].fx, live)

-----------------------------------------------------------------------------
(* The unit of work: only the columns whose value differs from the loaded  *)
(* one are written, so the other columns keep what is committed.           *)

Col(loaded, new, current) == IF new # loaded THEN new ELSE current

MergeRow(o, n, c) ==
  [status    |-> Col(o.status, n.status, c.status),
   version   |-> Col(o.version, n.version, c.version),
   official  |-> Col(o.official, n.official, c.official),
   published |-> Col(o.published, n.published, c.published),
   plan      |-> Col(o.plan, n.plan, c.plan)]

MergeLive(o, n, c) ==
  [score   |-> Col(o.score, n.score, c.score),
   period  |-> Col(o.period, n.period, c.period),
   version |-> Col(o.version, n.version, c.version)]

InsertsLive(r) == txn[r].lv = NoLive /\ txn[r].nlv # NoLive

(* last_updated_at makes every score update an UPDATE of the live row. *)
UpdatesLive(r) ==
  txn[r].lv # NoLive /\ (txn[r].lv # txn[r].nlv \/ txn[r].op = "score")

(* UPDATE fixtures ... WHERE id: waits for the row lock; a row deleted     *)
(* meanwhile matches nothing and the session raises StaleDataError.        *)
FlushRow(r) ==
  /\ At(r, "staged")
  /\ txn[r].op # "delete"
  /\ \/ /\ txn[r].nfx = txn[r].fx
        /\ Enter(r, "flushed")
        /\ UNCHANGED <<tables, locks>>
     \/ /\ txn[r].nfx # txn[r].fx
        /\ rowLock = NoRequest
        /\ row = NoRow
        /\ Rollback(r, "failed")
     \/ /\ txn[r].nfx # txn[r].fx
        /\ rowLock = NoRequest
        /\ row # NoRow
        /\ Enter(r, "rowHeld")
        /\ rowLock' = r
        /\ UNCHANGED <<tables, liveLock>>

(* A second live row for the fixture breaks the unique constraint on       *)
(* fixture_id (IntegrityError).                                            *)
FlushLive(r) ==
  /\ At(r, "rowHeld")
  /\ \/ /\ ~InsertsLive(r) /\ ~UpdatesLive(r)
        /\ Enter(r, "flushed")
        /\ UNCHANGED <<tables, locks>>
     \/ /\ InsertsLive(r) /\ live # NoLive
        /\ Rollback(r, "failed")
     \/ /\ InsertsLive(r) /\ live = NoLive
        /\ Enter(r, "flushed")
        /\ UNCHANGED <<tables, locks>>
     \/ /\ UpdatesLive(r) /\ liveLock = NoRequest
        /\ Enter(r, "flushed")
        /\ liveLock' = r
        /\ UNCHANGED <<tables, rowLock>>

(* db.delete: the unit of work deletes the child row first ... *)
DeleteLive(r) ==
  /\ At(r, "staged")
  /\ txn[r].op = "delete"
  /\ \/ /\ txn[r].lv = NoLive \/ live = NoLive
        /\ UNCHANGED liveLock
     \/ /\ txn[r].lv # NoLive /\ live # NoLive
        /\ liveLock = NoRequest
        /\ liveLock' = r
  /\ Enter(r, "liveGone")
  /\ UNCHANGED <<tables, rowLock>>

(* ... and the fixture last.  Deleting no row is only a warning. *)
DeleteRow(r) ==
  /\ At(r, "liveGone")
  /\ rowLock = NoRequest
  /\ rowLock' = IF row = NoRow THEN NoRequest ELSE r
  /\ Enter(r, "flushed")
  /\ UNCHANGED <<tables, liveLock>>

(* The locks of an update and of a delete are taken in opposite orders:    *)
(* PostgreSQL breaks the cycle by rolling one of the two back.             *)
Deadlocked(r, d) ==
  /\ At(r, "rowHeld") /\ UpdatesLive(r) /\ rowLock = r
  /\ At(d, "liveGone") /\ liveLock = d

BreakDeadlock(r) ==
  /\ \E q \in Request : Deadlocked(r, q) \/ Deadlocked(q, r)
  /\ Rollback(r, "failed")

(* COMMIT.  The match_events row of an AddEvent is inserted here; its      *)
(* foreign key waits for a deletion in progress and fails after it.        *)
AuditEntries(r) ==
  IF txn[r].op \in AuditedRoutes
  THEN {[request |-> r, action |-> txn[r].op, actor |-> txn[r].user]} ELSE {}

CommitDeleteLoaded(r) ==   \* mutant: no cascade in the database
  /\ txn[r].op = "delete"
  /\ row' = NoRow
  /\ live' = IF txn[r].lv = NoLive THEN live ELSE NoLive
  /\ events' = 0

CommitDelete(r) ==
  /\ txn[r].op = "delete"
  /\ row' = NoRow
  /\ live' = NoLive            \* by ON DELETE CASCADE if not loaded
  /\ events' = 0

CommitUpdate(r) ==
  /\ txn[r].op \notin {"delete", "event"}
  /\ row' = IF txn[r].nfx = txn[r].fx THEN row
            ELSE MergeRow(txn[r].fx, txn[r].nfx, row)
  /\ live' = CASE InsertsLive(r) -> txn[r].nlv
               [] UpdatesLive(r) -> MergeLive(txn[r].lv, txn[r].nlv, live)
               [] OTHER -> live
  /\ UNCHANGED events

CommitEvent(r) ==
  /\ txn[r].op = "event"
  /\ row # NoRow
  /\ rowLock # NoRequest => txn[rowLock].op # "delete"
  /\ events' = events + 1
  /\ UNCHANGED <<row, live>>

Commit(r) ==
  /\ At(r, "flushed")
  /\ \/ /\ CommitDelete(r) \/ CommitUpdate(r) \/ CommitEvent(r)
        /\ audit' = audit \cup AuditEntries(r)
        /\ Enter(r, "committed")
        /\ Unlock(r)
     \/ /\ txn[r].op = "event" /\ row = NoRow
        /\ Rollback(r, "failed")

(* publish_event and the response *)
Publish(r) ==
  /\ At(r, "committed")
  /\ Enter(r, "done")
  /\ UNCHANGED <<tables, locks>>

Active == {"loaded", "staged", "rowHeld", "liveGone", "flushed"}
Ended  == {"done", "rejected", "failed", "lost"}

(* The API process dies, or the connection to the database breaks. *)
Crash(r) ==
  \/ txn[r].phase \in Active /\ Rollback(r, "failed")
  \/ /\ At(r, "committed")
     /\ Enter(r, "lost")
     /\ UNCHANGED <<tables, locks>>

-----------------------------------------------------------------------------
Handle(r) ==
  \/ StartFixture(r) \/ UpdateScore(r) \/ AddEvent(r) \/ SetPeriod(r)
  \/ PauseFixture(r) \/ ResumeFixture(r) \/ CompleteFixture(r)
  \/ ReopenFixture(r) \/ CorrectFixture(r) \/ PostponeFixture(r)
  \/ CancelFixture(r) \/ UpdateFixture(r) \/ RescheduleFixture(r)
  \/ DeleteFixture(r)

Database(r) ==
  \/ FlushRow(r) \/ FlushLive(r) \/ DeleteLive(r) \/ DeleteRow(r)
  \/ BreakDeadlock(r) \/ Commit(r)

Serve(r) == LoadFixture(r) \/ Handle(r) \/ Database(r) \/ Publish(r)

(* Every request has ended; nothing is left to do. *)
Quiet == (\A r \in Request : txn[r].phase \in Ended) /\ UNCHANGED vars

Next == (\E r \in Request : Serve(r) \/ Crash(r)) \/ Quiet

Spec == Init /\ [][Next]_vars

(* The event loop runs every handler on, and PostgreSQL grants a free lock *)
(* to a waiter; nothing is assumed of crashes.                             *)
Fairness == \A r \in Request : WF_vars(Serve(r))

FairSpec == Spec /\ Fairness

-----------------------------------------------------------------------------
TypeOK ==
  /\ row \in Row \cup {NoRow}
  /\ live \in Live \cup {NoLive}
  /\ events \in Nat
  /\ audit \subseteq [request : Request, action : Routes, actor : Users]
  /\ rowLock \in Request \cup {NoRequest}
  /\ liveLock \in Request \cup {NoRequest}
  /\ txn \in [Request -> Session]

(* A row lock is held by a session that is still open and has written the  *)
(* row: a lock outliving its session (a rollback path that forgets it)     *)
(* would stop every later request on the fixture.                          *)
LocksAreHeld ==
  /\ rowLock # NoRequest => txn[rowLock].phase \in {"rowHeld", "flushed"}
  /\ liveLock # NoRequest => txn[liveLock].phase \in {"liveGone", "flushed"}

(* No live row without its fixture, although a deletion may not have seen  *)
(* the live row another request was creating (delete_fixture against       *)
(* start_fixture on a fixture of the seed).                                *)
NoOrphan == row = NoRow => live = NoLive

Commits(r) == At(r, "flushed") /\ txn'[r].phase = "committed"

StatusRoutes == {"start", "pause", "resume", "complete", "reopen", "correct",
                 "postpone", "cancel", "patch"}
VersionRoutes == (StatusRoutes \ {"patch"}) \cup {"score", "period"}
PlanRoutes == {"patch", "reschedule"}
ScoreRoutes == {"score", "correct"}
PeriodRoutes == {"score", "period"}

(* A commit of route op may change these columns, and no other. *)
OwnsRow(op) ==
  /\ row'.status # row.status => op \in StatusRoutes
  /\ row'.version # row.version => op \in VersionRoutes
  /\ row'.official # row.official => op = "patch"
  /\ row'.published # row.published => op = "patch"
  /\ row'.plan # row.plan => op \in PlanRoutes

OwnsLive(op) ==
  /\ live'.score # live.score => op \in ScoreRoutes
  /\ live'.period # live.period => op \in PeriodRoutes

(* However requests overlap, none undoes what a request of another kind    *)
(* wrote: a score entry with an old copy of the fixture restores neither   *)
(* the kick-off nor the official an admin changed meanwhile, and a pause   *)
(* or a second creation of the live row never resets the score.  (The unit *)
(* of work writes changed columns only; fixture_id is unique.)             *)
OwnStep ==
  \/ UNCHANGED <<row, live>>
  \/ \E r \in Request :
       /\ Commits(r)
       /\ IF row' = NoRow THEN txn[r].op = "delete"
          ELSE /\ OwnsRow(txn[r].op)
               /\ live # NoLive => OwnsLive(txn[r].op)

OwnColumnsOnly == [][OwnStep]_vars

Service == INSTANCE FixtureService

(* Nobody has committed anything since r read the two rows. *)
Current(r) == txn[r].fx = row /\ txn[r].lv = live

(* A request that meets no other keeps the promise of FixtureService:      *)
(* reading, deciding, writing and committing in five steps, with the locks *)
(* and the partial UPDATE, has the effect of one atomic, authorised and    *)
(* legal step of its user.                                                 *)
AtomicWhenCurrent ==
  [][\A r \in Request :
       Commits(r) /\ Current(r)
         => IF txn[r].op = "event" THEN UNCHANGED <<row, live>>
            ELSE Service!Accept(txn[r].user)
    ]_vars

(* Every change of the status, of the official in charge or of the         *)
(* existence of a fixture is in the audit log, under the name of its       *)
(* author, at the moment it can be seen, and nothing rolled back is there. *)
AuditExplains ==
  [][\/ /\ audit' = audit
        /\ (row = NoRow) = (row' = NoRow)
        /\ row # NoRow => row'.status = row.status /\ row'.official = row.official
     \/ \E r \in Request :
          /\ Commits(r)
          /\ audit' \ audit = {[request |-> r, action |-> txn[r].op,
                                actor |-> txn[r].user]}
    ]_vars

(* Every request that has read the fixture gets its answer, locks,         *)
(* deadlocks and failures of others notwithstanding.                       *)
EveryRequestEnds ==
  \A r \in Request : At(r, "loaded") ~> txn[r].phase \in Ended

-----------------------------------------------------------------------------
(* The inductive invariant behind the safety properties.                   *)

Open == {"staged", "rowHeld", "liveGone", "flushed"}

(* What a handler has assigned, relative to what it has loaded: its own    *)
(* columns only, and a new version exactly when it has touched what the    *)
(* clients see.                                                            *)
StagedWrites(t) ==
  /\ t.op \in Routes /\ t.user \in Users /\ t.nfx \in Row
  /\ t.nfx.status # t.fx.status => t.op \in StatusRoutes
  /\ t.nfx.official # t.fx.official => t.op = "patch"
  /\ t.nfx.published # t.fx.published => t.op = "patch"
  /\ t.nfx.plan # t.fx.plan => t.op \in PlanRoutes
  /\ t.op \in VersionRoutes => t.nfx.version = t.fx.version + 1
  /\ t.op \notin VersionRoutes => t.nfx.version = t.fx.version /\ t.nlv = t.lv
  /\ t.lv # NoLive =>
       /\ t.nlv # NoLive
       /\ t.nlv.score # t.lv.score => t.op \in ScoreRoutes
       /\ t.nlv.period # t.lv.period => t.op \in PeriodRoutes

(* What an open session may count on: a live row it has read is there as   *)
(* long as the fixture is, and from its first UPDATE on the lock keeps the *)
(* fixture row as it is.                                                   *)
SessionInv(r) ==
  /\ txn[r].phase \in {"loaded"} \cup Open => txn[r].fx \in Row
  /\ txn[r].phase \in Open =>
       /\ StagedWrites(txn[r])
       /\ txn[r].lv # NoLive => live # NoLive \/ row = NoRow
  /\ At(r, "rowHeld") =>
       /\ txn[r].op # "delete" /\ txn[r].nfx # txn[r].fx
       /\ rowLock = r /\ row # NoRow
  /\ At(r, "liveGone") => txn[r].op = "delete"
  /\ At(r, "flushed") /\ txn[r].op = "delete" => rowLock = r \/ row = NoRow
  /\ At(r, "flushed") /\ txn[r].op # "delete" /\ txn[r].nfx # txn[r].fx =>
       /\ rowLock = r /\ row # NoRow
       /\ InsertsLive(r) => live = NoLive

Inv == TypeOK /\ LocksAreHeld /\ NoOrphan /\ \A r \in Request : SessionInv(r)

-----------------------------------------------------------------------------
(* What the documentation says, and the code does not do (see README.md).  *)

(* scoring.py:3-5: "If another official has written since, we raise        *)
(* StaleVersionError (HTTP 409) so no update is silently overwritten."     *)
CheckedRoutes == {"score", "period", "complete"}

NoSilentOverwrite ==
  [][\A r \in Request :
       Commits(r) /\ txn[r].op \in CheckedRoutes /\ row # NoRow
         => txn[r].fx.version = row.version]_vars

(* schemas/admin.py:43-45: "idempotency_key lets a flaky mobile client     *)
(* retry safely without double-applying": of two updates accepted with the *)
(* same expected_version, none is added to the score the other has left.   *)
Accepted(r) ==
  txn[r].op = "score" /\ txn[r].phase \in {"committed", "done", "lost"}

RetryAppliesOnce ==
  \A r, q \in Request :
    r # q /\ Accepted(r) /\ Accepted(q) /\ txn[r].fx.version = txn[q].fx.version
    => \/ txn[q].lv.score # txn[r].nlv.score
       \/ txn[q].nlv.score = txn[q].lv.score
=============================================================================

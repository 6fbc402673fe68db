---------------------------- MODULE StandingsTxn ----------------------------
(***************************************************************************)
(* The group standings of one sport as stored (app/services/recompute.py), *)
(* and the fixture endpoints that rebuild them or should: complete and     *)
(* correct rebuild every group of the sport inside their transaction,      *)
(* cancel in a second one, reopen and delete not at all.  The sessions     *)
(* overlap at READ COMMITTED; the checks of a request and the UPDATE of    *)
(* its fixture are one step here (FixtureTxn has them one by one).  A      *)
(* fixture may be without a row in live_match_states: seeded fixtures are, *)
(* and resume makes them LIVE without giving them one, so that they can be *)
(* completed.                                                              *)
(*                                                                         *)
(* Data: a table is the set of results it was computed from, because       *)
(* compute_table is a function of that set (module Standings); a "copy" is *)
(* all the standing_rows one recomputation has inserted for a group.       *)
(***************************************************************************)
EXTENDS Lifecycle, FiniteSets

CONSTANTS
  Fixtures, Groups,
  GroupOf,          \* group_id of each fixture, or NoGroup
  NoGroup,
  Paired,           \* fixtures that have both a home and an away team
  Scores, NoLive,   \* the score in its live row, or NoLive if it has none
  Request, NoRequest,
  Coming,           \* the routes requests may come for together, "none" for
                    \* one that does not come
  FirstStatus       \* statuses the fixtures may have to begin with, or "gone"

Routes == {"complete", "correct", "cancel", "reopen", "delete"}
Gone == "gone"                                    \* the fixture is deleted

ASSUME FixtureAssumption == GroupOf \in [Fixtures -> Groups \cup {NoGroup}]
ASSUME NullAssumption ==
  NoGroup \notin Groups /\ NoRequest \notin Request /\ NoLive \notin Scores
ASSUME PairedAssumption == Paired \subseteq Fixtures
ASSUME StatusAssumption == FirstStatus \subseteq Status \cup {Gone}
ASSUME ComingAssumption == Coming \subseteq [Request -> Routes \cup {"none"}]

VARIABLES
  status, score,    \* committed, per fixture
  standings,        \* groups that have a row in table standings
  copies,           \* committed standing_rows
  fxLock,           \* holder of the lock on each fixture row
  txn               \* the session of each request

db == <<status, score, standings, copies>>
vars == <<db, fxLock, txn>>

Result == Fixtures \X Scores
Copy == [group : Groups, by : Request \cup {NoRequest}, results : SUBSET Result]

Phase == {"new", "loaded", "rebuilding", "read", "deleting", "founding",
          "done", "rejected", "failed"}

Session ==
  [phase : Phase, op : Routes \cup {"none"},
   fx : SUBSET Fixtures,       \* the fixture of the request: at most one
   status : SUBSET Status, score : SUBSET Scores,   \* in memory, if loaded
   update : [status : SUBSET Status, score : SUBSET Scores], \* not committed
   todo : SUBSET Groups,       \* groups not rebuilt yet
   at : Groups \cup {NoGroup}, \* group being rebuilt
   seen : SUBSET Result,       \* its results, as selected
   snap : SUBSET Copy,         \* its copies when the DELETE began
   gone : SUBSET Copy, made : SUBSET Copy, founded : SUBSET Groups, \* not committed
   others : {"none", "elsewhere", "here"}] \* history: commits of others since
                                           \* it began, on which fixture

NoUpdate == [status |-> {}, score |-> {}]

Ended(phase) == [phase |-> phase, op |-> "none", fx |-> {}, status |-> {},
  score |-> {}, update |-> NoUpdate, todo |-> {}, at |-> NoGroup, seen |-> {}, snap |-> {},
  gone |-> {}, made |-> {}, founded |-> {}, others |-> "none"]

Counting == {"COMPLETED", "WALKOVER"}

(* The SELECT joins the live rows, and skips fixtures without both teams.  *)
HasResult(sc, f) == sc[f] # NoLive /\ f \in Paired

Counted(st, sc, g) ==
  {<<f, sc[f]>> : f \in {x \in Fixtures :
     GroupOf[x] = g /\ st[x] \in Counting /\ HasResult(sc, x)}}

(* The seed has founded the standings of every group; a sport added later  *)
(* has none until its first result.                                        *)
Init ==
  /\ status \in [Fixtures -> FirstStatus]
  /\ score \in [Fixtures -> Scores \cup {NoLive}]
  /\ \/ standings = Groups
     \/ standings = {} /\ \A f \in Fixtures : status[f] \notin Counting
  /\ copies = {[group |-> g, by |-> NoRequest, results |-> Counted(status, score, g)]
                 : g \in standings}
  /\ fxLock = [f \in Fixtures |-> NoRequest]
  /\ \E come \in Coming :
       txn = [r \in Request |-> IF come[r] = "none" THEN Ended("done")
                               ELSE [Ended("new") EXCEPT !.op = come[r]]]

-----------------------------------------------------------------------------
At(r, phase) == txn[r].phase = phase
Idle(r) == txn[r].phase \in {"new", "done", "rejected", "failed"}

(* r goes on as s and has committed something: all others take note.       *)
Committing(r, s) ==
  txn' = [q \in Request |->
            IF q = r THEN s
            ELSE IF txn[q].fx = {} THEN txn[q]
            ELSE IF txn[q].fx = txn[r].fx
                 THEN [txn[q] EXCEPT !.others = "here"]
            ELSE [txn[q] EXCEPT !.others = IF @ = "none" THEN "elsewhere" ELSE @]]

Released(r) == [f \in Fixtures |-> IF fxLock[f] = r THEN NoRequest ELSE fxLock[f]]

Rollback(r, outcome) ==
  /\ txn' = [txn EXCEPT ![r] = Ended(outcome)]
  /\ fxLock' = Released(r)
  /\ UNCHANGED db

(* _load_fixture: the session keeps what it has read, the live row with    *)
(* the fixture, if there is one.                                           *)
Load(r) == \E f \in Fixtures :
  /\ At(r, "new") /\ status[f] # Gone
  /\ txn' = [txn EXCEPT ![r] = [@ EXCEPT !.phase = "loaded",
       !.fx = {f}, !.status = {status[f]}, !.score = {score[f]} \ {NoLive}]]
  /\ UNCHANGED <<db, fxLock>>

Loaded(r, op) == IF At(r, "loaded") /\ txn[r].op = op THEN txn[r].fx ELSE {}

Allowed(r, target) ==
  \A s \in txn[r].status : AssertTransition(s, target, TRUE)

(* The session once its rows have their new values in memory: new is the   *)
(* score, {} if it has no live row.                                        *)
Opened(r, f, new, update) ==
  [txn[r] EXCEPT !.phase = "rebuilding", !.status = {}, !.score = new,
                 !.update = update,
                 !.todo = IF GroupOf[f] = NoGroup THEN {} ELSE Groups]

(* The UPDATE of the fixture, flushed by record_audit before the results   *)
(* are read, so that they include this one.  It waits for the row lock,    *)
(* has only the columns that are not as loaded, and fails on a missing     *)
(* row; a live row that ensure_live_state has added is inserted with it,   *)
(* and fails if another session has inserted one (unique fixture_id).      *)
Hold(r, f, new) ==
  LET adds == txn[r].score = {} /\ new # {}
      fails == status[f] = Gone \/ (adds /\ score[f] # NoLive)
  IN
  /\ fxLock[f] = NoRequest
  /\ \/ fails /\ Rollback(r, "failed")
     \/ /\ ~fails
        /\ txn' = [txn EXCEPT ![r] = Opened(r, f, new,
                     [status |-> {"COMPLETED"} \ @.status, score |-> new \ @.score])]
        /\ fxLock' = [fxLock EXCEPT ![f] = r]
        /\ UNCHANGED db

Complete(r) == \E f \in Loaded(r, "complete") :
  \/ Allowed(r, "COMPLETED") /\ Hold(r, f, txn[r].score)
  \/ ~Allowed(r, "COMPLETED") /\ Rollback(r, "rejected")

Correct(r) == \E f \in Loaded(r, "correct"), sc \in Scores : Hold(r, f, {sc})

(* _change_status, committed, after which the session goes on as s.  The   *)
(* UPDATE has the status only if it is not the one loaded.                 *)
Change(r, f, target, s) ==
  \/ ~Allowed(r, target) /\ Rollback(r, "rejected")
  \/ /\ Allowed(r, target) /\ fxLock[f] = NoRequest
     /\ \/ status[f] = Gone /\ Rollback(r, "failed")
        \/ /\ status[f] # Gone
           /\ status' = IF target \in txn[r].status THEN status
                        ELSE [status EXCEPT ![f] = target]
           /\ Committing(r, s)
           /\ UNCHANGED <<score, standings, copies, fxLock>>

(* The standings are rebuilt by the same session in a second transaction:  *)
(* no lock is held, and the session still has the fixture it has loaded.   *)
Cancel(r) == \E f \in Loaded(r, "cancel") :
  Change(r, f, "CANCELLED", IF GroupOf[f] = NoGroup THEN Ended("done")
                            ELSE Opened(r, f, txn[r].score, NoUpdate))

Reopen(r) == \E f \in Loaded(r, "reopen") :
  Change(r, f, "UNDER_REVIEW", Ended("done"))

Delete(r) == \E f \in Loaded(r, "delete") :
  /\ fxLock[f] = NoRequest
  /\ status' = [status EXCEPT ![f] = Gone]
  /\ Committing(r, Ended("done"))
  /\ UNCHANGED <<score, standings, copies, fxLock>>

-----------------------------------------------------------------------------
(* recompute_group_standings *)

Mine(r, f) == f \in txn[r].fx

ResultsBeforeFlush(r, g) == Counted(status, score, g)   \* mutant

(* What the flushed UPDATE of r makes of a column. *)
Updated(r, column, new) ==
  [f \in Fixtures |-> IF Mine(r, f) /\ new # {} THEN CHOOSE v \in new : TRUE
                      ELSE column[f]]

(* SELECT of the counting fixtures of a group, the own uncommitted row     *)
(* included; but an object it has loaded before stays as it is in memory,  *)
(* even if the row has another score by now.  A live row it has not loaded *)
(* is read as it is stored.                                                *)
Results(r, g) ==
  LET stored == Updated(r, status, txn[r].update.status)
      known  == Updated(r, score, txn[r].score)
  IN Counted(stored, known, g)

(* The groups are selected in no particular order. *)
ReadResults(r) ==
  /\ At(r, "rebuilding")
  /\ \E g \in txn[r].todo :
       txn' = [txn EXCEPT ![r].phase = "read", ![r].at = g,
                          ![r].seen = Results(r, g)]
  /\ UNCHANGED <<db, fxLock>>

(* SELECT of the Standing, then the start of the DELETE of its rows, which *)
(* can only find the rows committed by now.                                *)
FindStanding(r) ==
  /\ At(r, "read")
  /\ txn' = IF txn[r].at \in standings
            THEN [txn EXCEPT ![r].phase = "deleting",
                             ![r].snap = {c \in copies : c.group = txn[r].at}]
            ELSE [txn EXCEPT ![r].phase = "founding"]
  /\ UNCHANGED <<db, fxLock>>

InsertUngrouped(r, s) ==   \* mutant: the group is forgotten too early
  [s EXCEPT !.phase = "rebuilding", !.todo = @ \ {s.at}, !.at = NoGroup,
            !.made = @ \cup {[group |-> NoGroup, by |-> r, results |-> s.seen]}]

InsertAgain(r, s) ==   \* mutant: the group stays on the list
  [s EXCEPT !.phase = "rebuilding", !.at = NoGroup, !.seen = {}, !.snap = {},
            !.made = @ \cup {[group |-> s.at, by |-> r, results |-> s.seen]}]

Insert(r, s) ==
  [s EXCEPT !.phase = "rebuilding", !.todo = @ \ {s.at}, !.at = NoGroup,
            !.seen = {}, !.snap = {},
            !.made = @ \cup {[group |-> s.at, by |-> r, results |-> s.seen]}]

(* The DELETE waits for the sessions that have deleted the same rows, and  *)
(* skips the rows that are gone in the end.                                *)
Waits(r, q) ==
  /\ r # q
  /\ \/ At(r, "deleting") /\ txn[r].snap \cap txn[q].gone # {}
     \/ At(r, "founding") /\ txn[r].at \in txn[q].founded

InsertOnly(r) ==   \* mutant: the old rows stay
  /\ At(r, "deleting")
  /\ txn' = [txn EXCEPT ![r] = Insert(r, txn[r])]
  /\ UNCHANGED <<db, fxLock>>

DeleteRows(r) ==
  /\ At(r, "deleting")
  /\ \A q \in Request : ~Waits(r, q)
  /\ txn' = [txn EXCEPT ![r] = Insert(r, [txn[r] EXCEPT
                 !.gone = @ \cup (txn[r].snap \cap copies)])]
  /\ UNCHANGED <<db, fxLock>>

(* INSERT of the Standing: waits for another session doing the same, and   *)
(* fails (unique sport_id, group_id) if that one has committed.            *)
FoundStanding(r) ==
  /\ At(r, "founding")
  /\ \A q \in Request : ~Waits(r, q)
  /\ \/ txn[r].at \in standings /\ Rollback(r, "failed")
     \/ /\ txn[r].at \notin standings
        /\ txn' = [txn EXCEPT ![r] = Insert(r, [txn[r] EXCEPT
                      !.founded = @ \cup {txn[r].at}])]
        /\ UNCHANGED <<db, fxLock>>

BreakDeadlock(r) ==
  /\ \E q \in Request : /\ Waits(r, q)
                        /\ \/ Waits(q, r)
                           \/ \E p \in Request : Waits(q, p) /\ Waits(p, r)
  /\ Rollback(r, "failed")

CommitDeletesOnly(r) ==   \* mutant: the new rows are never flushed
  /\ At(r, "rebuilding") /\ txn[r].todo = {}
  /\ status' = Updated(r, status, txn[r].update.status)
  /\ score' = Updated(r, score, txn[r].update.score)
  /\ copies' = copies \ txn[r].gone
  /\ standings' = standings \cup txn[r].founded
  /\ Committing(r, Ended("done"))
  /\ fxLock' = Released(r)

Commit(r) ==
  /\ At(r, "rebuilding") /\ txn[r].todo = {}
  /\ status' = Updated(r, status, txn[r].update.status)
  /\ score' = Updated(r, score, txn[r].update.score)
  /\ copies' = (copies \ txn[r].gone) \cup txn[r].made
  /\ standings' = standings \cup txn[r].founded
  /\ Committing(r, Ended("done"))
  /\ fxLock' = Released(r)

(* The process dies or the connection breaks in the middle. *)
Crash(r) == ~Idle(r) /\ Rollback(r, "failed")

Handle(r) == Load(r) \/ Complete(r) \/ Correct(r) \/ Cancel(r) \/ Reopen(r) \/ Delete(r)
Rebuild(r) == ReadResults(r) \/ FindStanding(r) \/ DeleteRows(r)
              \/ FoundStanding(r) \/ BreakDeadlock(r) \/ Commit(r)
Serve(r) == Handle(r) \/ Rebuild(r)

Quiet == (\A r \in Request : Idle(r)) /\ UNCHANGED vars

Next == (\E r \in Request : Serve(r) \/ Crash(r)) \/ Quiet

Spec == Init /\ [][Next]_vars

Fairness == \A r \in Request : WF_vars(Rebuild(r))

FairSpec == Spec /\ Fairness

-----------------------------------------------------------------------------
TypeOK ==
  /\ status \in [Fixtures -> Status \cup {Gone}]
  /\ score \in [Fixtures -> Scores \cup {NoLive}]
  /\ standings \subseteq Groups
  /\ copies \subseteq Copy
  /\ fxLock \in [Fixtures -> Request \cup {NoRequest}]
  /\ txn \in [Request -> Session]

CopiesOf(g) == {c \in copies : c.group = g}

(* Readers of the standings never find a group empty-handed: the old rows  *)
(* leave and the new ones come in one commit, whoever else is rebuilding.  *)
NeverVanish == \A g \in Groups : (CopiesOf(g) # {}) = (g \in standings)

Commits(r) == At(r, "rebuilding") /\ txn'[r].phase = "done"

(* A recomputation across which nobody else commits leaves every group     *)
(* with one table, that of the results of that moment, whatever stale or   *)
(* double tables there were before ("it fully rebuilds the affected        *)
(* standing rows each time", recompute.py:5).                              *)
AloneRebuilds ==
  [][\A r \in Request :
       Commits(r) /\ txn[r].others = "none" /\ txn[r].made # {}
         => \A g \in Groups :
              {c \in copies' : c.group = g} =
                {[group |-> g, by |-> r, results |-> Counted(status', score', g)]}
    ]_vars

(* Whatever happens to other fixtures meanwhile, the result just completed *)
(* or corrected is in a table of its group when the request is answered,   *)
(* if the fixture has a live row and both teams; otherwise it is COMPLETED *)
(* and in no table the request has made, and so is a cancelled one.        *)
(* Autoflush is off, so this rests on the flush in record_audit and on the *)
(* first commit of cancel.                                                 *)
OwnResultShown ==
  [][\A r \in Request : \A f \in Fixtures :
       LET shown == {c \in txn[r].made : \E s \in Scores : <<f, s>> \in c.results} IN
       Commits(r) /\ Mine(r, f) /\ txn[r].others # "here" /\ GroupOf[f] # NoGroup
         => IF txn[r].op = "cancel" \/ ~HasResult(score', f) THEN shown = {}
            ELSE \E c \in txn[r].made \cap copies' :
                   c.group = GroupOf[f] /\ <<f, score'[f]>> \in c.results
    ]_vars

(* A request that has begun to rebuild is answered: waits for each other's *)
(* rows, in whatever order of the groups, always end.                      *)
EveryRebuildEnds == \A r \in Request : At(r, "read") ~> Idle(r)

-----------------------------------------------------------------------------
(* What the documentation says, and the code does not do (see README.md).  *)

(* README.md:67-68: "Standings are recomputed server-side,                 *)
(* deterministically, on completion / correction / cancellation": once all *)
(* such requests have succeeded the table of a group is that of its        *)
(* results.                                                                *)
TablesFollowResults ==
  (\A r \in Request : At(r, "done"))
    => \A g \in standings :
         {c.results : c \in CopiesOf(g)} = {Counted(status, score, g)}
=============================================================================

------------------------------- MODULE Season -------------------------------
(***************************************************************************)
(* The life of the database: the migration, the seed that drops a season   *)
(* and builds it again (app/seeds/seed.py), the command that creates an    *)
(* account (app/cli.py), and requests that add to a season they have       *)
(* loaded (create_fixture, generate_fixtures, create_announcement), as     *)
(* overlapping sessions of PostgreSQL, which enforces the schema that the  *)
(* migration has made.                                                     *)
(*                                                                         *)
(* A season is named after the session that seeds it.  A flush, or an      *)
(* insert and the commit after it, is one step.                            *)
(***************************************************************************)
EXTENDS Schema, MedalTable

CONSTANTS
  Seeding, Creating, Requesting,   \* sessions, by what they may do
  Nothing,
  SlugOf,           \* the tournament in the data of each session that seeds
  EmailOf,          \* the account each session is to create
  Tallies,          \* medals of the departments that have any, as the data may be
  Points            \* medal_points in the data

Session == Seeding \cup Creating \cup Requesting

(* NULL is no season, and the medals and their points are numbers.         *)
ASSUME NothingAssumption == Nothing \notin Session
ASSUME TalliesAssumption == \A tally \in Tallies : IsTally(tally)
ASSUME PointsAssumption == Points \in [gold : Int, silver : Int, bronze : Int]

VARIABLES
  schema,           \* the tables there are
  ddl,              \* the migration under way
  rows,             \* committed rows
  current,          \* seasons with is_current
  points,           \* department_points, by season
  job,
  overlapped        \* history: seeds of two tournaments have overlapped

store == <<rows, current, points>>
vars == <<schema, ddl, store, job, overlapped>>

(* A row of a season, of an account or of Nothing, and who has made it.    *)
Row(table, of, by) == [table |-> table, of |-> of, by |-> by]

NoTable == [t \in {} |-> Root]
Idle == [op |-> "none", step |-> 0, made |-> NoTable]

Resting == [phase |-> "idle", demo |-> FALSE, of |-> Nothing,
            gone |-> {}, demotes |-> {}, new |-> {}]

Init ==
  /\ schema = NoTable /\ ddl = Idle
  /\ rows = {} /\ current = {} /\ points = [s \in {} |-> 0]
  /\ job = [s \in Session |-> Resting]
  /\ overlapped = FALSE

At(s, phase) == job[s].phase = phase
Open(s) == job[s].phase \notin {"idle", "ended"}
Goes(s, t) == job' = [job EXCEPT ![s] = t]
Ends(s) == Goes(s, [Resting EXCEPT !.phase = "ended"])

-----------------------------------------------------------------------------
(* alembic upgrade and downgrade, with the API stopped: one transaction, a *)
(* table at a time.  A table needs its parents first, and is dropped after *)
(* those that refer to it.                                                 *)
StartMigration ==
  /\ ddl.op = "none" /\ \A s \in Session : ~Open(s)
  /\ ddl' = [op |-> IF schema = NoTable THEN "upgrade" ELSE "downgrade",
             step |-> 1, made |-> schema]
  /\ UNCHANGED <<schema, store, job, overlapped>>

Parents(made, t) == made[t].must \cup made[t].may

Migrate(n, possible, made) ==
  IF ~possible
  THEN ddl' = [Idle EXCEPT !.op = "failed"] /\ UNCHANGED <<schema, store>>
  ELSE IF ddl.step < n
  THEN ddl' = [ddl EXCEPT !.step = @ + 1, !.made = made] /\ UNCHANGED <<schema, store>>
  ELSE /\ ddl' = Idle /\ schema' = made
       /\ rows' = {r \in rows : r.table \in DOMAIN made}
       /\ current' = {s \in current : "tournaments" \in DOMAIN made}
       /\ points' = [s \in {x \in DOMAIN points : "department_points" \in DOMAIN made} |->
                       points[s]]

CreateTable ==
  /\ ddl.op = "upgrade"
  /\ LET table == Creates[ddl.step][1]
         made == [t \in DOMAIN ddl.made \cup {table} |->
                    IF t = table THEN Creates[ddl.step][2] ELSE ddl.made[t]]
     IN Migrate(Len(Creates),
                table \notin DOMAIN ddl.made /\ Parents(made, table) \subseteq DOMAIN made,
                made)
  /\ UNCHANGED <<job, overlapped>>

DropTable ==
  /\ ddl.op = "downgrade"
  /\ LET table == Drops[ddl.step]
         made == [t \in DOMAIN ddl.made \ {table} |-> ddl.made[t]]
     IN Migrate(Len(Drops),
                table \in DOMAIN ddl.made
                  /\ \A t \in DOMAIN made : table \notin Parents(made, t),
                made)
  /\ UNCHANGED <<job, overlapped>>

(* The command is killed: PostgreSQL rolls the tables back.                *)
StopMigration ==
  /\ ddl.op \in {"upgrade", "downgrade"} /\ ddl' = Idle
  /\ UNCHANGED <<schema, store, job, overlapped>>

-----------------------------------------------------------------------------
(* What a session may insert, and what goes when a season goes. *)

(* The foreign keys of a row, under the tables of refs.                    *)
HasParents(r, there, refs) ==
  \A p \in refs[r.table].must :
    \E x \in there : /\ x.table = p
                     /\ x.of = Nothing \/ (x.of = r.of /\ x.by \in {r.by, r.of})

Allowed(new, there) == \A r \in new : HasParents(r, there \cup new, schema)

(* The tournaments, and what goes with them by ON DELETE CASCADE.          *)
Gone(seasons) ==
  {r \in rows : /\ r.of \in seasons
                /\ r.table \in {"tournaments"} \cup Cascaded(schema, {"tournaments"})}

Commit(s, gone, demotes, new) ==
  /\ rows' = (rows \ Gone(gone)) \cup new
  /\ current' = (current \ (gone \cup demotes)) \cup
                {r.of : r \in {x \in new : x.table = "tournaments"}}
  /\ Ends(s)

Seasons == {r.of : r \in {x \in rows : x.table = "tournaments"}}
HasAccount(email) == \E r \in rows : r.table = "users" /\ r.of = email
AdminAccount(s) == {Row("users", EmailOf[s], s), Row("user_roles", EmailOf[s], s)}

(* Another session has deleted the season, or changed it, and has not      *)
(* committed: who wants to change or to refer to it waits.                 *)
Locked(s, season) == \E q \in Session \ {s} : season \in job[q].gone
Held(s, season) == \E q \in Session \ {s} : season \in job[q].gone \cup job[q].demotes

-----------------------------------------------------------------------------
(* seed, and create-admin *)

Seed(s) ==
  /\ s \in Seeding /\ At(s, "idle") /\ ddl.op = "none" /\ schema # NoTable
  /\ \E demo \in BOOLEAN : Goes(s, [job[s] EXCEPT !.phase = "seeding", !.demo = demo])
  /\ overlapped' = (overlapped \/ \E q \in Session :
       /\ job[q].phase \in {"seeding", "selecting", "dropping", "dropped", "built"}
       /\ SlugOf[q] # SlugOf[s])
  /\ UNCHANGED <<schema, ddl, store>>

CreateAdmin(s) ==
  /\ s \in Creating /\ At(s, "idle") /\ ddl.op = "none" /\ schema # NoTable
  /\ Goes(s, [job[s] EXCEPT !.phase = "creating"])
  /\ UNCHANGED <<schema, ddl, store, overlapped>>

(* ensure_roles: a name that another session is inserting is waited for.   *)
EnsureRoles(s) ==
  /\ job[s].phase \in {"seeding", "creating"}
  /\ LET there == \E r \in rows : r.table = "roles"
         mine == {Row("roles", Nothing, s)}
     IN /\ there \/ \A q \in Session : job[q].new = {}
        /\ Goes(s, [job[s] EXCEPT
             !.phase = IF @ = "seeding" THEN "selecting" ELSE "account",
             !.new = IF there THEN {} ELSE mine])
  /\ UNCHANGED <<schema, ddl, store, overlapped>>

SelectSeason(s) ==
  /\ At(s, "selecting")
  /\ LET found == {x \in Seasons : SlugOf[x] = SlugOf[s]} IN
     \/ found = {} /\ Goes(s, [job[s] EXCEPT !.phase = "dropped"])
     \/ \E x \in found : Goes(s, [job[s] EXCEPT !.phase = "dropping", !.of = x])
  /\ UNCHANGED <<schema, ddl, store, overlapped>>

(* DELETE waits for whoever has the row, and may find it gone.             *)
DropSeasonAtOnce(s) ==   \* mutant: committed before the new season is built
  /\ At(s, "dropping") /\ ~Held(s, job[s].of)
  /\ rows' = rows \ Gone({job[s].of})
  /\ current' = current \ {job[s].of}
  /\ points' = [x \in DOMAIN points \ {job[s].of} |-> points[x]]
  /\ Goes(s, [job[s] EXCEPT !.phase = "dropped"])
  /\ UNCHANGED <<schema, ddl, overlapped>>

DropSeason(s) ==
  /\ At(s, "dropping") /\ ~Held(s, job[s].of)
  /\ Goes(s, [job[s] EXCEPT !.phase = "dropped", !.gone = {job[s].of} \cap Seasons])
  /\ UNCHANGED <<schema, ddl, store, overlapped>>

SeedTables ==
  {"tournaments", "departments", "venues", "sports", "sport_rules", "teams", "groups",
   "group_members", "fixtures", "standings", "standing_rows", "medals",
   "department_points"}
DemoTables == {"live_match_states", "announcements", "sponsors"}

(* The season, with is_current taken from the others there are.  The slug  *)
(* waits for one that another session has inserted or deleted, and fails   *)
(* on one that is committed.                                               *)
SlugBusy(s) == \E q \in Session \ {s} :
  \/ \E x \in job[q].gone : SlugOf[x] = SlugOf[s]
  \/ \E r \in job[q].new : r.table = "tournaments" /\ SlugOf[q] = SlugOf[s]

BuildSeasonAnyway(s) ==   \* mutant: the slug is not unique
  /\ At(s, "dropped") /\ ~SlugBusy(s)
  /\ LET others == current \ job[s].gone
         new == {Row(t, s, s) : t \in SeedTables \cup (IF job[s].demo THEN DemoTables ELSE {})}
     IN /\ \A x \in others : ~Held(s, x)
        /\ Goes(s, [job[s] EXCEPT !.phase = "built", !.demotes = others, !.new = @ \cup new])
  /\ UNCHANGED <<schema, ddl, store, overlapped>>

BuildSeason(s) ==
  /\ At(s, "dropped") /\ ~SlugBusy(s)
  /\ LET others == current \ job[s].gone
         new == {Row(t, s, s) : t \in SeedTables \cup (IF job[s].demo THEN DemoTables ELSE {})}
     IN /\ \A x \in others : ~Held(s, x)
        /\ IF \E x \in Seasons \ job[s].gone : SlugOf[x] = SlugOf[s]
           THEN Ends(s)
           ELSE Goes(s, [job[s] EXCEPT !.phase = "built", !.demotes = others,
                                       !.new = @ \cup new])
  /\ UNCHANGED <<schema, ddl, store, overlapped>>

(* _ensure_super_admin, which may find it is not configured, and commit.   *)
CommitSeed(s) ==
  /\ At(s, "built")
  /\ \E admin \in IF HasAccount(EmailOf[s]) THEN {{}} ELSE {{}, AdminAccount(s)},
        tally \in Tallies :
       LET new == job[s].new \cup admin IN
       /\ Allowed(new, rows \ Gone(job[s].gone))
       /\ Commit(s, job[s].gone, job[s].demotes, new)
       /\ points' = [x \in (DOMAIN points \ job[s].gone) \cup {s} |->
                       IF x = s THEN ComputeMedalTable(tally, Points) ELSE points[x]]
  /\ UNCHANGED <<schema, ddl, overlapped>>

(* The account, unless there is one of the address.                        *)
CommitAdmin(s) ==
  /\ At(s, "account")
  /\ IF HasAccount(EmailOf[s]) THEN Ends(s) /\ UNCHANGED rows
     ELSE /\ rows' = rows \cup job[s].new \cup AdminAccount(s)
          /\ Ends(s)
  /\ UNCHANGED <<schema, ddl, current, points, overlapped>>

-----------------------------------------------------------------------------
(* Requests: create_fixture and generate_fixtures go by a sport,           *)
(* create_announcement by the current tournament (without one, its         *)
(* tournament_id is NULL and refused).                                     *)
LoadSport(s) ==
  /\ s \in Requesting /\ At(s, "idle") /\ ddl.op = "none"
  /\ \E r \in rows : /\ r.table = "sports"
                     /\ Goes(s, [job[s] EXCEPT !.phase = "adding", !.of = r.of])
  /\ UNCHANGED <<schema, ddl, store, overlapped>>

LoadCurrent(s) ==
  /\ s \in Requesting /\ At(s, "idle") /\ ddl.op = "none"
  /\ \E x \in current : Goes(s, [job[s] EXCEPT !.phase = "announcing", !.of = x])
  /\ UNCHANGED <<schema, ddl, store, overlapped>>

(* The rows go in once nobody is about to delete what they refer to, and   *)
(* are refused if somebody has.                                            *)
InsertUnchecked(s, tables) ==   \* mutant: foreign keys are not enforced
  LET new == {Row(t, job[s].of, s) : t \in tables} IN
  /\ ~Locked(s, job[s].of)
  /\ rows' = rows \cup new \cup {Row("audit_logs", Nothing, s)}
  /\ Ends(s)
  /\ UNCHANGED <<schema, ddl, current, points, overlapped>>

Insert(s, tables) ==
  LET new == {Row(t, job[s].of, s) : t \in tables} IN
  /\ ~Locked(s, job[s].of)
  /\ rows' = IF Allowed(new, rows)
             THEN rows \cup new \cup {Row("audit_logs", Nothing, s)}
             ELSE rows
  /\ Ends(s)
  /\ UNCHANGED <<schema, ddl, current, points, overlapped>>

AddFixtures(s) == At(s, "adding") /\ Insert(s, {"fixtures", "live_match_states"})
Announce(s) == At(s, "announcing") /\ Insert(s, {"announcements"})

(* A session fails at any step: a constraint, a deadlock, its connection.  *)
Fail(s) == Open(s) /\ Ends(s) /\ UNCHANGED <<schema, ddl, store, overlapped>>

-----------------------------------------------------------------------------
Work(s) ==
  \/ Seed(s) \/ EnsureRoles(s) \/ SelectSeason(s) \/ DropSeason(s)
  \/ BuildSeason(s) \/ CommitSeed(s) \/ CreateAdmin(s) \/ CommitAdmin(s)
  \/ LoadSport(s) \/ LoadCurrent(s) \/ AddFixtures(s) \/ Announce(s) \/ Fail(s)

Migration == StartMigration \/ CreateTable \/ DropTable \/ StopMigration

Next == Migration \/ \E s \in Session : Work(s)

Spec == Init /\ [][Next]_vars

-----------------------------------------------------------------------------
(* The migration gives exactly what the models declare, whole or not at    *)
(* all, and none of its statements fails, up or down (alembic/versions).   *)
MigrationRuns == ddl.op # "failed" /\ schema \in {NoTable, Declared}

(* No row outlives what the models say it cannot be without, whatever was  *)
(* loaded before a season was dropped, and whoever inserts meanwhile.      *)
ReferencesHold == \A r \in rows : HasParents(r, rows, Declared)

(* "Re-running drops the existing ... tournament (cascade) and rebuilds it"*)
(* (seed.py:3): there is one tournament of a slug, and "Only one current   *)
(* tournament" (seed.py:112) unless seeds of two have overlapped.          *)
OneSeason ==
  /\ \A x, y \in Seasons : SlugOf[x] = SlugOf[y] => x = y
  /\ overlapped \/ \A x, y \in current : x = y

(* Readers always find the current tournament, once there has been one: no *)
(* seed, however it ends, leaves a moment without (seed).                  *)
SeasonStays == [][current # {} => current' # {} \/ schema' = NoTable]_vars

(* The medal table that is stored, and the one that the public page works  *)
(* out again (public.py:269-315), rank every department once, by points,   *)
(* then gold, silver and bronze, and agree as long as medal_points are the *)
(* default ones.                                                           *)
Ranked(board) ==
  LET Ahead(d, e) ==
        LET a == board[d] b == board[e] IN
        \/ a.total > b.total
        \/ a.total = b.total /\ a.medals.gold > b.medals.gold
        \/ /\ a.total = b.total /\ a.medals.gold = b.medals.gold
           /\ a.medals.silver > b.medals.silver
  IN /\ {board[d].position : d \in DOMAIN board} = 1 .. Cardinality(DOMAIN board)
     /\ \A d, e \in DOMAIN board : Ahead(d, e) => board[d].position < board[e].position

PublicTable(x) ==
  ComputeMedalTable([d \in DOMAIN points[x] |-> points[x][d].medals], DefaultPoints)

MedalsRanked ==
  /\ DOMAIN points = Seasons
  /\ \A x \in Seasons :
       /\ Ranked(points[x]) /\ Ranked(PublicTable(x))
       /\ Points = DefaultPoints => PublicTable(x) = points[x]
=============================================================================

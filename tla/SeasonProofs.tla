---------------------------- MODULE SeasonProofs ----------------------------
(***************************************************************************)
(* There is one tournament of a slug, and one that is current, and no seed *)
(* leaves the readers without, for any number of seeds, commands and       *)
(* requests, whenever they overlap.                                        *)
(*                                                                         *)
(* The argument: a seed that has built its season and not yet committed    *)
(* has seen every tournament of its slug that it does not delete, and      *)
(* demotes every other; it stays right because the sessions that have      *)
(* built at the same time have other slugs, and are known to overlap.      *)
(* The tables go down whole because every table that upgrade() makes is    *)
(* one that downgrade() drops.                                             *)
(*                                                                         *)
(* What the migration makes is what the models declare because each table  *)
(* has its place (Order), after those it refers to, and is made there as   *)
(* it is declared.  Rows keep what they refer to because what goes with a  *)
(* season is closed under the foreign keys that cascade.  The medal table  *)
(* ranks because its sort key is a strict order, whatever it is made of.   *)
(***************************************************************************)
EXTENDS Season, TLAPS, FiniteSetTheorems, WellFoundedInduction

Owner == Seeding \cup {Nothing} \cup {EmailOf[s] : s \in Session}

Filled == SeedTables \cup DemoTables \cup {"roles", "users", "user_roles", "audit_logs"}

RowType == [table : Filled, of : Owner, by : Session]

Phases ==
  {"idle", "creating", "account", "seeding", "selecting", "dropping", "dropped", "built",
   "adding", "announcing", "ended"}

JobType ==
  [phase : Phases, demo : BOOLEAN, of : Owner, gone : SUBSET Seeding,
   demotes : SUBSET Seeding, new : SUBSET RowType]

Busy == {"seeding", "selecting", "dropping", "dropped", "built"}

TableNames == {Creates[i][1] : i \in 1 .. Len(Creates)}

Typed ==
  /\ rows \subseteq RowType /\ current \subseteq Seeding /\ Seasons \subseteq Seeding
  /\ job \in [Session -> JobType]

Tables ==
  /\ DOMAIN schema \subseteq TableNames /\ DOMAIN ddl.made \subseteq TableNames
  /\ ddl = [op |-> ddl.op, step |-> ddl.step, made |-> ddl.made] /\ ddl.step \in Nat
  /\ schema = NoTable => rows = {} /\ current = {}
  /\ ddl.op = "upgrade" => schema = NoTable /\ ddl.step \in 1 .. Len(Creates)
  /\ ddl.op = "downgrade" =>
       /\ ddl.step \in 1 .. Len(Drops)
       /\ \A t \in DOMAIN ddl.made : \E k \in ddl.step .. Len(Drops) : Drops[k] = t

(* What a session of its own has to be.                                    *)
Alone ==
  \A s \in Session :
    /\ job[s].phase \in Busy => s \in Seeding
    /\ Open(s) => ddl.op = "none" /\ schema # NoTable
    /\ \A r \in job[s].new : r.table = "tournaments" => r.of = s /\ At(s, "built")
    /\ At(s, "built") => Row("tournaments", s, s) \in job[s].new

(* A season that is built knows the seasons it replaces.                   *)
Informed ==
  \A s \in Session : At(s, "built") =>
    /\ \A x \in Seasons \ job[s].gone : SlugOf[x] # SlugOf[s]
    /\ overlapped \/ current \subseteq job[s].gone \cup job[s].demotes

Together ==
  \A s, q \in Session :
    /\ At(s, "built") /\ At(q, "built") /\ s # q => SlugOf[s] # SlugOf[q]
    /\ job[s].phase \in Busy /\ job[q].phase \in Busy /\ SlugOf[s] # SlugOf[q] => overlapped

Inv == Typed /\ Tables /\ Alone /\ Informed /\ Together /\ OneSeason

-----------------------------------------------------------------------------
(* Every table that upgrade() makes is one that downgrade() drops.         *)

LEMMA DropNames ==
  /\ Len(Drops) = 39
  /\ \A i \in 1 .. 22 : Drops[i] = DropRecords[i]
  /\ \A i \in 1 .. 17 : Drops[22 + i] = DropAccounts[i]
BY DEF Drops, DropRecords, DropAccounts

Dropped == {DropRecords[i] : i \in 1 .. 22} \cup {DropAccounts[i] : i \in 1 .. 17}

LEMMA DroppedInOrder == \A t \in Dropped : \E k \in 1 .. Len(Drops) : Drops[k] = t
<1> TAKE t \in Dropped
<1>1. CASE \E i \in 1 .. 22 : t = DropRecords[i]
  BY <1>1, DropNames
<1>2. CASE \E i \in 1 .. 17 : t = DropAccounts[i]
  <2>1. PICK i \in 1 .. 17 : t = DropAccounts[i]
    BY <1>2
  <2>2. 22 + i \in 1 .. 39
    OBVIOUS
  <2> QED
    BY <2>1, <2>2, DropNames
<1> QED
  BY <1>1, <1>2 DEF Dropped

LEMMA Covered == Len(Creates) = 39 /\ \A i \in 1 .. Len(Creates) : Creates[i][1] \in Dropped
BY DEF Creates, CreateRoots, CreateAccounts, CreateSports, CreateMatches, CreateRecords,
       Dropped, DropRecords, DropAccounts

LEMMA AllDropped == ASSUME NEW t \in TableNames PROVE t \in Dropped
<1>1. PICK i \in 1 .. Len(Creates) : t = Creates[i][1]
  BY DEF TableNames
<1> QED
  BY <1>1, Covered

-----------------------------------------------------------------------------
LEMMA RestingTyped ==
  /\ Resting \in JobType /\ Resting.phase = "idle" /\ Resting.new = {}
  /\ [Resting EXCEPT !.phase = "ended"] \in JobType
  /\ [Resting EXCEPT !.phase = "ended"].phase = "ended"
  /\ [Resting EXCEPT !.phase = "ended"].new = {}
<1>1. Nothing \in Owner
  BY DEF Owner
<1>2. /\ Resting = [phase |-> "idle", demo |-> FALSE, of |-> Nothing,
                    gone |-> {}, demotes |-> {}, new |-> {}]
  BY DEF Resting
<1>3. Resting \in JobType /\ Resting.phase = "idle" /\ Resting.new = {}
  <2>1. Resting.phase \in Phases
    BY <1>2 DEF Phases
  <2>4. Resting.of \in Owner
    BY <1>1, <1>2
  <2>3. Resting.demo \in BOOLEAN
    BY <1>2
  <2>2. /\ Resting.gone \in SUBSET Seeding /\ Resting.demotes \in SUBSET Seeding
        /\ Resting.new \in SUBSET RowType /\ Resting.phase = "idle" /\ Resting.new = {}
    BY <1>2
  <2> QED
    BY <1>2, <2>1, <2>2, <2>3, <2>4 DEF JobType
<1>4. [Resting EXCEPT !.phase = "ended"] \in JobType
  BY <1>3 DEF JobType, Phases
<1>5. /\ [Resting EXCEPT !.phase = "ended"].phase = "ended"
      /\ [Resting EXCEPT !.phase = "ended"].new = {}
  BY <1>3 DEF JobType
<1> QED
  BY <1>3, <1>4, <1>5

LEMMA InitInv == Init => Inv
<1> SUFFICES ASSUME Init PROVE Inv
  OBVIOUS
<1>1. Typed
  BY RestingTyped DEF Init, Typed, Seasons
<1>2. Tables
  BY DEF Init, Tables, Idle, NoTable
<1>3. \A s \in Session : job[s].phase = "idle" /\ job[s].new = {}
  BY RestingTyped DEF Init
<1>4. Alone /\ Informed /\ Together
  BY <1>3 DEF Alone, Informed, Together, Busy, Open, At
<1>5. OneSeason
  BY DEF Init, OneSeason, Seasons
<1> QED
  BY <1>1, <1>2, <1>4, <1>5 DEF Inv

(* A session that goes on, or ends, and has built nothing.                 *)
LEMMA GoesInv ==
  ASSUME Inv, NEW s \in Session, NEW t \in JobType, Goes(s, t),
         UNCHANGED <<schema, ddl, rows, current>>, overlapped => overlapped',
         t.phase # "built", \A r \in t.new : r.table # "tournaments",
         t.phase \in Busy =>
           /\ s \in Seeding
           /\ \/ job[s].phase \in Busy
              \/ \A q \in Session : job[q].phase \in Busy /\ SlugOf[q] # SlugOf[s]
                                      => overlapped',
         t.phase \notin {"idle", "ended"} => ddl.op = "none" /\ schema # NoTable
  PROVE  Inv'
<1> USE DEF Inv
<1>1. /\ job' \in [Session -> JobType] /\ job'[s] = t
      /\ \A q \in Session \ {s} : job'[q] = job[q]
  BY DEF Goes, Typed
<1>2. Seasons' = Seasons
  BY DEF Seasons
<1>3. Typed'
  BY <1>1, <1>2 DEF Typed
<1>4. Tables'
  BY DEF Tables
<1>5. Alone'
  BY <1>1 DEF Alone, Open, At
<1>6. Informed'
  BY <1>1, <1>2 DEF Informed, At
<1>7. Together'
  BY <1>1 DEF Together, At
<1>8. OneSeason'
  BY <1>2 DEF OneSeason
<1> QED
  BY <1>3, <1>4, <1>5, <1>6, <1>7, <1>8

(* A session that ends and adds rows of seasons there may be.              *)
LEMMA InsertInv ==
  ASSUME Inv, NEW s \in Session, Ends(s), ddl.op = "none", schema # NoTable,
         UNCHANGED <<schema, ddl, current, overlapped>>,
         NEW new \in SUBSET RowType, \A r \in new : r.table # "tournaments",
         rows' = rows \cup new
  PROVE  Inv'
<1> USE DEF Inv
<1>2. /\ job' \in [Session -> JobType]
      /\ job'[s].phase = "ended" /\ job'[s].new = {}
      /\ \A q \in Session \ {s} : job'[q] = job[q]
  BY RestingTyped DEF Ends, Goes, Typed
<1>3. Seasons' = Seasons
  BY DEF Seasons
<1>4. Typed'
  BY <1>2, <1>3 DEF Typed
<1>5. Tables'
  BY DEF Tables
<1>6. Alone'
  BY <1>2 DEF Alone, Open, At, Busy
<1>7. Informed'
  BY <1>2, <1>3 DEF Informed, At
<1>8. Together'
  BY <1>2 DEF Together, At, Busy
<1>9. OneSeason'
  BY <1>3 DEF OneSeason
<1> QED
  BY <1>4, <1>5, <1>6, <1>7, <1>8, <1>9

LEMMA RowTyped ==
  ASSUME NEW t \in Filled, NEW o \in Owner, NEW s \in Session
  PROVE  /\ Row(t, o, s) \in RowType
         /\ Row(t, o, s).table = t /\ Row(t, o, s).of = o /\ Row(t, o, s).by = s
BY DEF Row, RowType

(* A session of another slug that is about to commit.                      *)
LEMMA BuildInv ==
  ASSUME Inv, NEW s \in Session, BuildSeason(s)
  PROVE  Inv'
<1> USE DEF Inv
<1> DEFINE others == current \ job[s].gone
           new == {Row(t, s, s) : t \in SeedTables \cup
                                          (IF job[s].demo THEN DemoTables ELSE {})}
<1>1. At(s, "dropped") /\ ~SlugBusy(s) /\ job[s].phase \in Busy
  BY DEF BuildSeason, At, Busy
<1>2. UNCHANGED <<schema, ddl, rows, current, overlapped>> /\ s \in Seeding
  BY <1>1 DEF BuildSeason, store, Alone
<1>3. CASE Ends(s)
  BY <1>2, <1>3, RestingTyped, GoesInv DEF Ends, Busy
<1>4. CASE /\ Goes(s, [job[s] EXCEPT !.phase = "built", !.demotes = others, !.new = @ \cup new])
           /\ \A x \in Seasons \ job[s].gone : SlugOf[x] # SlugOf[s]
  <2>1. s \in Owner
    BY <1>2 DEF Owner
  <2>2. new \subseteq RowType
    BY <2>1, RowTyped DEF Filled
  <2>3. \A r \in new : r.of = s
    BY <2>1, RowTyped DEF Filled
  <2>4. Row("tournaments", s, s) \in new
    BY DEF SeedTables
  <2> HIDE DEF new
  <2>5. job[s] \in JobType
    BY DEF Typed
  <2>6. others \in SUBSET Seeding
    BY DEF Typed
  <2>7. job[s].new \cup new \in SUBSET RowType
    BY <2>2, <2>5 DEF JobType
  <2> HIDE DEF others
  <2>8. [job[s] EXCEPT !.phase = "built", !.demotes = others, !.new = @ \cup new] \in JobType
    BY <2>5, <2>6, <2>7 DEF JobType, Phases
  <2>9. /\ job' \in [Session -> JobType]
        /\ job'[s].phase = "built" /\ job'[s].demotes = others
        /\ job'[s].new = job[s].new \cup new /\ job'[s].gone = job[s].gone
        /\ \A q \in Session \ {s} : job'[q] = job[q]
    BY <1>4, <2>5, <2>8 DEF Goes, Typed, JobType
  <2>10. Typed'
    BY <1>2, <2>9 DEF Typed, Seasons
  <2>11. Tables'
    BY <1>2 DEF Tables
  <2>12. Open(s)
    BY <1>1 DEF Open, At
  <2>13. Alone'
    BY <1>2, <2>3, <2>4, <2>9, <2>12 DEF Alone, Open, At
  <2>14. Seasons' = Seasons /\ OneSeason'
    BY <1>2 DEF Seasons, OneSeason
  <2>15. Informed'
    BY <1>2, <1>4, <2>9, <2>14 DEF Informed, At, others
  <2>16. \A q \in Session \ {s} : At(q, "built") => SlugOf[q] # SlugOf[s]
    <3>1. \A q \in Session \ {s} : At(q, "built") =>
            /\ Row("tournaments", q, q) \in job[q].new /\ q \in Owner
      BY DEF Alone, At, Busy, Owner
    <3>2. \A q \in Session \ {s} : At(q, "built") =>
            \E r \in job[q].new : r.table = "tournaments"
      BY <3>1, RowTyped DEF Filled, SeedTables
    <3> QED
      BY <1>1, <3>2 DEF SlugBusy
  <2>17. Together'
    BY <1>1, <1>2, <2>9, <2>16 DEF Together, At, Busy
  <2> QED
    BY <2>10, <2>11, <2>13, <2>14, <2>15, <2>17
<1> QED
  BY <1>3, <1>4 DEF BuildSeason

(* The season replaces those of its slug, and no other is current.         *)
LEMMA CommitInv ==
  ASSUME Inv, NEW s \in Session, CommitSeed(s)
  PROVE  Inv' /\ s \in current' /\ Seasons' = (Seasons \ job[s].gone) \cup {s}
<1> USE DEF Inv
<1>1. /\ At(s, "built") /\ UNCHANGED <<schema, ddl, overlapped>>
      /\ s \in Seeding /\ s \in Owner
      /\ ddl.op = "none" /\ schema # NoTable
  BY DEF CommitSeed, Alone, At, Busy, Open, Owner
<1>2. PICK admin \in {{}, AdminAccount(s)} :
        Commit(s, job[s].gone, job[s].demotes, job[s].new \cup admin)
  BY DEF CommitSeed
<1> DEFINE new == job[s].new \cup admin
           gone == job[s].gone
<1>3. job[s] \in JobType
  BY DEF Typed
<1>4. admin \subseteq RowType /\ \A r \in admin : r.table # "tournaments"
  <2>1. EmailOf[s] \in Owner
    BY DEF Owner
  <2> QED
    BY <2>1, RowTyped DEF AdminAccount, Filled
<1>5. new \subseteq RowType /\ gone \subseteq Seeding
  BY <1>3, <1>4 DEF JobType
<1>6. /\ {r.of : r \in {x \in new : x.table = "tournaments"}} = {s}
  <2>1. Row("tournaments", s, s) \in new
    BY <1>1 DEF Alone
  <2>2. Row("tournaments", s, s).table = "tournaments" /\ Row("tournaments", s, s).of = s
    BY DEF Row
  <2>3. \A r \in new : r.table = "tournaments" => r.of = s
    BY <1>4 DEF Alone
  <2> HIDE DEF new
  <2> QED
    BY <2>1, <2>2, <2>3
<1> HIDE DEF new, gone
<1>7. /\ rows' = (rows \ Gone(gone)) \cup new
      /\ current' = (current \ (gone \cup job[s].demotes)) \cup {s}
      /\ Ends(s)
  BY <1>2, <1>6 DEF Commit, new, gone
<1>8. /\ job' \in [Session -> JobType]
      /\ job'[s].phase = "ended" /\ job'[s].new = {}
      /\ \A q \in Session \ {s} : job'[q] = job[q]
  BY <1>7, RestingTyped DEF Ends, Goes, Typed
<1>9. Seasons' = (Seasons \ gone) \cup {s}
  <2>1. \A r \in rows : r.table = "tournaments" => (r \in Gone(gone) <=> r.of \in gone)
    BY DEF Gone
  <2>2. \A x \in Seasons' : x \in (Seasons \ gone) \cup {s}
    BY <1>6, <1>7, <2>1 DEF Seasons
  <2>3. \A x \in Seasons \ gone : x \in Seasons'
    BY <1>7, <2>1 DEF Seasons
  <2>4. s \in Seasons'
    <3>1. PICK r \in new : r.table = "tournaments" /\ r.of = s
      BY <1>6
    <3> QED
      BY <1>7, <3>1 DEF Seasons
  <2> QED
    BY <2>2, <2>3, <2>4
<1>10. Typed'
  BY <1>1, <1>5, <1>7, <1>8, <1>9 DEF Typed
<1>11. Tables'
  BY <1>1 DEF Tables
<1>12. Alone'
  BY <1>1, <1>8 DEF Alone, Open, At, Busy
<1>13. \A q \in Session \ {s} : At(q, "built") => SlugOf[s] # SlugOf[q] /\ overlapped
  BY <1>1 DEF Together, At, Busy
<1>14. Informed'
  BY <1>1, <1>8, <1>9, <1>13 DEF Informed, At
<1>15. Together'
  BY <1>1, <1>8 DEF Together, At, Busy
<1>16. OneSeason'
  <2>1. \A x \in Seasons \ gone : SlugOf[x] # SlugOf[s]
    BY <1>1 DEF Informed, gone
  <2>2. overlapped \/ current \subseteq gone \cup job[s].demotes
    BY <1>1 DEF Informed, gone
  <2> QED
    BY <1>1, <1>7, <1>9, <2>1, <2>2 DEF OneSeason
<1> QED
  BY <1>7, <1>9, <1>10, <1>11, <1>12, <1>14, <1>15, <1>16 DEF gone

-----------------------------------------------------------------------------
(* While tables are made and dropped nobody is at work.                    *)
LEMMA QuietInv ==
  ASSUME Inv, \A s \in Session : ~Open(s), UNCHANGED <<job, overlapped>>,
         rows' \subseteq rows, current' \subseteq current, Tables'
  PROVE  Inv'
<1> USE DEF Inv
<1>1. Seasons' \subseteq Seasons
  BY DEF Seasons
<1>2. Typed'
  BY <1>1 DEF Typed
<1>3. \A s \in Session : job[s].phase \in {"idle", "ended"}
  BY DEF Open
<1>4. Alone'
  BY <1>3 DEF Alone, At, Open, Busy
<1>5. Informed' /\ Together'
  BY <1>3 DEF Informed, Together, At, Busy
<1>6. OneSeason'
  BY <1>1 DEF OneSeason
<1> QED
  BY <1>2, <1>4, <1>5, <1>6

(* A table is made or dropped, and the last one ends the migration.        *)
LEMMA MigrateInv ==
  ASSUME Inv, ddl.op \in {"upgrade", "downgrade"}, UNCHANGED <<job, overlapped>>,
         NEW n \in Nat, NEW possible \in BOOLEAN, NEW made, Migrate(n, possible, made),
         DOMAIN made \subseteq TableNames, ddl.step <= n,
         ddl.op = "upgrade" => n = Len(Creates),
         ddl.op = "downgrade" =>
           /\ n = Len(Drops)
           /\ \A t \in DOMAIN made : \E k \in ddl.step + 1 .. Len(Drops) : Drops[k] = t,
         DOMAIN made = {} => made = NoTable
  PROVE  Inv' /\ (current # {} => current' # {} \/ schema' = NoTable)
<1> USE DEF Inv
<1>1. \A s \in Session : ~Open(s)
  BY DEF Alone
<1>2. CASE /\ ddl' = [Idle EXCEPT !.op = "failed"] /\ UNCHANGED <<schema, store>>
  <2>1. ddl'.op = "failed" /\ ddl'.made = NoTable /\ ddl'.step = 0 /\ DOMAIN ddl'.made = {}
        /\ ddl' = [op |-> ddl'.op, step |-> ddl'.step, made |-> ddl'.made]
    BY <1>2 DEF Idle, NoTable
  <2>2. Tables'
    BY <1>2, <2>1 DEF Tables, store
  <2> QED
    BY <1>1, <1>2, <2>2, QuietInv DEF store
<1>3. CASE /\ ddl.step < n /\ ddl' = [ddl EXCEPT !.step = @ + 1, !.made = made]
           /\ UNCHANGED <<schema, store>>
  <2>1. /\ ddl'.op = ddl.op /\ ddl'.step = ddl.step + 1 /\ ddl'.made = made
        /\ ddl' = [op |-> ddl'.op, step |-> ddl'.step, made |-> ddl'.made]
    BY <1>3 DEF Tables
  <2>2. ddl.step + 1 \in 1 .. n
    BY <1>3 DEF Tables
  <2>3. UNCHANGED <<schema, rows, current>>
    BY <1>3 DEF store
  <2>4. /\ ddl'.op = "upgrade" => schema' = NoTable /\ ddl'.step \in 1 .. Len(Creates)
        /\ ddl'.op = "downgrade" =>
             /\ ddl'.step \in 1 .. Len(Drops)
             /\ \A t \in DOMAIN ddl'.made : \E k \in ddl'.step .. Len(Drops) : Drops[k] = t
    BY <2>1, <2>2, <2>3 DEF Tables
  <2>5. Tables'
    BY <2>1, <2>2, <2>3, <2>4 DEF Tables
  <2> QED
    BY <1>1, <2>3, <2>5, QuietInv
<1>4. CASE /\ ~(ddl.step < n) /\ ddl' = Idle /\ schema' = made
           /\ rows' = {r \in rows : r.table \in DOMAIN made}
           /\ current' = {s \in current : "tournaments" \in DOMAIN made}
  <2>1. /\ ddl'.op = "none" /\ ddl'.step = 0 /\ ddl'.made = NoTable
        /\ DOMAIN ddl'.made = {} /\ DOMAIN NoTable = {}
        /\ ddl' = [op |-> ddl'.op, step |-> ddl'.step, made |-> ddl'.made]
    BY <1>4 DEF Idle, NoTable
  <2>2. schema' = NoTable => rows' = {} /\ current' = {}
    BY <1>4, <2>1
  <2>3. Tables'
    BY <1>4, <2>1, <2>2 DEF Tables
  <2>4. Inv'
    BY <1>1, <1>4, <2>3, QuietInv
  <2>5. CASE ddl.op = "upgrade"
    BY <2>4, <2>5 DEF Tables
  <2>6. CASE ddl.op = "downgrade"
    <3>1. ddl.step = n /\ n = 39
      BY <1>4, <2>6, DropNames DEF Tables
    <3>2. \A k \in ddl.step + 1 .. Len(Drops) : FALSE
      BY <3>1, DropNames
    <3>3. DOMAIN made = {}
      BY <2>6, <3>2
    <3> QED
      BY <1>4, <2>4, <3>3
  <2> QED
    BY <2>5, <2>6
<1> QED
  BY <1>2, <1>3, <1>4 DEF Migrate

LEMMA StepInv ==
  ASSUME Inv, Migration
  PROVE  Inv' /\ (current # {} => current' # {} \/ schema' = NoTable)
<1>1. CASE StartMigration
  <2>1. /\ ddl' = [op |-> IF schema = NoTable THEN "upgrade" ELSE "downgrade",
                   step |-> 1, made |-> schema]
        /\ UNCHANGED <<schema, rows, current, job, overlapped>>
        /\ \A s \in Session : ~Open(s)
    BY <1>1 DEF StartMigration, store
  <2>2. ASSUME NEW t \in DOMAIN schema PROVE \E k \in 1 .. Len(Drops) : Drops[k] = t
    <3>1. t \in TableNames
      BY DEF Inv, Tables
    <3>2. t \in Dropped
      BY <3>1, AllDropped
    <3> QED
      BY <3>2, DroppedInOrder
  <2>3. Tables'
    BY <2>1, <2>2, Covered, DropNames DEF Inv, Tables
  <2> QED
    BY <2>1, <2>3, QuietInv
<1>2. CASE CreateTable
  <2> DEFINE table == Creates[ddl.step][1]
             made == [t \in DOMAIN ddl.made \cup {table} |->
                        IF t = table THEN Creates[ddl.step][2] ELSE ddl.made[t]]
             possible == /\ table \notin DOMAIN ddl.made
                         /\ Parents(made, table) \subseteq DOMAIN made
  <2>1. /\ ddl.op = "upgrade" /\ UNCHANGED <<job, overlapped>>
        /\ Migrate(Len(Creates), possible, made)
    BY <1>2 DEF CreateTable
  <2>2. ddl.step \in 1 .. Len(Creates) /\ Len(Creates) = 39
    BY <2>1, Covered DEF Inv, Tables
  <2>3. table \in TableNames
    BY <2>2 DEF TableNames
  <2>4. DOMAIN made \subseteq TableNames /\ table \in DOMAIN made
    BY <2>3 DEF Inv, Tables
  <2> HIDE DEF made, table
  <2>5. possible \in BOOLEAN
    OBVIOUS
  <2> HIDE DEF possible
  <2>6. ddl.step <= Len(Creates) /\ Len(Creates) \in Nat
    BY <2>2
  <2>7. /\ ddl.op \in {"upgrade", "downgrade"} /\ ddl.op # "downgrade"
        /\ DOMAIN made = {} => made = NoTable
    BY <2>1, <2>4
  <2> QED
    BY <2>1, <2>4, <2>5, <2>6, <2>7, MigrateInv
<1>3. CASE DropTable
  <2> DEFINE table == Drops[ddl.step]
             made == [t \in DOMAIN ddl.made \ {table} |-> ddl.made[t]]
             possible == /\ table \in DOMAIN ddl.made
                         /\ \A t \in DOMAIN made : table \notin Parents(made, t)
  <2>1. /\ ddl.op = "downgrade" /\ UNCHANGED <<job, overlapped>>
        /\ Migrate(Len(Drops), possible, made)
    BY <1>3 DEF DropTable
  <2>2. ddl.step \in 1 .. Len(Drops) /\ Len(Drops) = 39
    BY <2>1, DropNames DEF Inv, Tables
  <2>3. DOMAIN made \subseteq TableNames
    BY DEF Inv, Tables
  <2>4. \A t \in DOMAIN made : \E k \in ddl.step + 1 .. Len(Drops) : Drops[k] = t
    <3> TAKE t \in DOMAIN made
    <3>1. PICK k \in ddl.step .. Len(Drops) : Drops[k] = t
      BY <2>1 DEF Inv, Tables
    <3>2. k # ddl.step
      BY <3>1
    <3> QED
      BY <2>2, <3>1, <3>2
  <2>5. DOMAIN made = {} => made = NoTable
    BY DEF NoTable
  <2> HIDE DEF made, table
  <2>6. possible \in BOOLEAN
    OBVIOUS
  <2> HIDE DEF possible
  <2>7. ddl.step <= Len(Drops) /\ Len(Drops) \in Nat
    BY <2>2
  <2>8. ddl.op \in {"upgrade", "downgrade"} /\ ddl.op # "upgrade"
    BY <2>1
  <2> QED
    BY <2>1, <2>3, <2>4, <2>5, <2>6, <2>7, <2>8, MigrateInv
<1>4. CASE StopMigration
  <2>1. /\ ddl' = Idle /\ UNCHANGED <<schema, rows, current, job, overlapped>>
        /\ \A s \in Session : ~Open(s)
    BY <1>4 DEF StopMigration, Inv, store, Alone
  <2>2. Tables'
    BY <2>1 DEF Inv, Tables, Idle, NoTable
  <2> QED
    BY <2>1, <2>2, QuietInv
<1> QED
  BY <1>1, <1>2, <1>3, <1>4 DEF Migration

-----------------------------------------------------------------------------
LEMMA WorkInv ==
  ASSUME Inv, NEW s \in Session, Work(s)
  PROVE  Inv' /\ (current # {} => current' # {})
<1>1. job[s] \in JobType /\ job \in [Session -> JobType]
  BY DEF Inv, Typed
<1>2. ~At(s, "built") => \A r \in job[s].new : r.table # "tournaments"
  BY DEF Inv, Alone
<1>3. Open(s) => ddl.op = "none" /\ schema # NoTable
  BY DEF Inv, Alone
<1>4. job[s].phase \in Busy => s \in Seeding
  BY DEF Inv, Alone
<1>6. /\ Row("roles", Nothing, s) \in RowType /\ Row("roles", Nothing, s).table = "roles"
      /\ Row("audit_logs", Nothing, s) \in RowType
      /\ Row("audit_logs", Nothing, s).table = "audit_logs"
  <2>1. Nothing \in Owner
    BY DEF Owner
  <2> QED
    BY <2>1, RowTyped DEF Filled
<1>7. CASE Seed(s)
  <2>1. PICK demo \in BOOLEAN :
          Goes(s, [job[s] EXCEPT !.phase = "seeding", !.demo = demo])
    BY <1>7 DEF Seed
  <2> DEFINE t == [job[s] EXCEPT !.phase = "seeding", !.demo = demo]
  <2>2. t \in JobType /\ t.phase = "seeding" /\ t.new = job[s].new
    BY <1>1 DEF JobType, Phases
  <2> HIDE DEF t
  <2>3. /\ s \in Seeding /\ At(s, "idle") /\ ddl.op = "none" /\ schema # NoTable
        /\ UNCHANGED <<schema, ddl, rows, current>>
        /\ overlapped => overlapped'
        /\ \A q \in Session : job[q].phase \in Busy /\ SlugOf[q] # SlugOf[s] => overlapped'
    BY <1>7 DEF Seed, store, Busy
  <2>4. Goes(s, t)
    BY <2>1 DEF t
  <2>5. \A r \in t.new : r.table # "tournaments"
    BY <1>2, <2>2, <2>3 DEF At
  <2> QED
    BY <2>2, <2>3, <2>4, <2>5, GoesInv
<1>8. CASE CreateAdmin(s)
  <2> DEFINE t == [job[s] EXCEPT !.phase = "creating"]
  <2>1. t \in JobType /\ t.phase = "creating" /\ t.new = job[s].new
    BY <1>1 DEF JobType, Phases
  <2> HIDE DEF t
  <2>2. /\ At(s, "idle") /\ ddl.op = "none" /\ schema # NoTable
        /\ UNCHANGED <<schema, ddl, rows, current, overlapped>> /\ Goes(s, t)
    BY <1>8 DEF CreateAdmin, store, t
  <2>3. \A r \in t.new : r.table # "tournaments"
    BY <1>2, <2>1, <2>2 DEF At
  <2> QED
    BY <2>1, <2>2, <2>3, GoesInv DEF Busy
<1>9. CASE EnsureRoles(s)
  <2>1. PICK phase \in {"selecting", "account"}, new \in {{}, {Row("roles", Nothing, s)}} :
          /\ Goes(s, [job[s] EXCEPT !.phase = phase, !.new = new])
          /\ phase = "selecting" => job[s].phase = "seeding"
    BY <1>9 DEF EnsureRoles
  <2> DEFINE t == [job[s] EXCEPT !.phase = phase, !.new = new]
  <2>2. new \in SUBSET RowType /\ \A r \in new : r.table # "tournaments"
    BY <1>6
  <2>3. t \in JobType /\ t.phase = phase /\ t.new = new
    BY <1>1, <2>2 DEF JobType, Phases
  <2> HIDE DEF t
  <2>4. /\ Open(s) /\ UNCHANGED <<schema, ddl, rows, current, overlapped>> /\ Goes(s, t)
    BY <1>9, <2>1 DEF EnsureRoles, store, Open, t
  <2>5. t.phase \in Busy => s \in Seeding /\ job[s].phase \in Busy
    BY <1>4, <2>1, <2>3 DEF Busy
  <2>6. t.phase # "built"
    BY <2>3
  <2> QED
    BY <1>3, <2>2, <2>3, <2>4, <2>5, <2>6, GoesInv
<1>10. CASE SelectSeason(s)
  <2>1. At(s, "selecting") /\ UNCHANGED <<schema, ddl, rows, current, overlapped>>
    BY <1>10 DEF SelectSeason, store
  <2>2. PICK t \in {[job[s] EXCEPT !.phase = "dropped"]} \cup
                   {[job[s] EXCEPT !.phase = "dropping", !.of = x] : x \in Seasons} :
          Goes(s, t)
    BY <1>10 DEF SelectSeason
  <2>3. Seasons \subseteq Owner
    BY DEF Inv, Typed, Owner
  <2>4. t \in JobType /\ t.phase \in {"dropped", "dropping"} /\ t.new = job[s].new
    BY <1>1, <2>3 DEF JobType, Phases
  <2>5. job[s].phase \in Busy /\ t.phase # "built" /\ Open(s) /\ ~At(s, "built")
    BY <2>1, <2>4 DEF At, Busy, Open
  <2> QED
    BY <1>2, <1>3, <1>4, <2>1, <2>2, <2>4, <2>5, GoesInv
<1>11. CASE DropSeason(s)
  <2> DEFINE t == [job[s] EXCEPT !.phase = "dropped", !.gone = {job[s].of} \cap Seasons]
  <2>1. {job[s].of} \cap Seasons \in SUBSET Seeding
    BY DEF Inv, Typed
  <2>2. t \in JobType /\ t.phase = "dropped" /\ t.new = job[s].new
    BY <1>1, <2>1 DEF JobType, Phases
  <2> HIDE DEF t
  <2>3. /\ At(s, "dropping") /\ UNCHANGED <<schema, ddl, rows, current, overlapped>>
        /\ Goes(s, t)
    BY <1>11 DEF DropSeason, store, t
  <2>4. job[s].phase \in Busy /\ t.phase # "built" /\ Open(s) /\ ~At(s, "built")
    BY <2>2, <2>3 DEF At, Busy, Open
  <2> QED
    BY <1>2, <1>3, <1>4, <2>2, <2>3, <2>4, GoesInv
<1>12. CASE BuildSeason(s)
  BY <1>12, BuildInv DEF BuildSeason, store
<1>13. CASE CommitSeed(s)
  BY <1>13, CommitInv
<1>14. CASE CommitAdmin(s)
  <2> DEFINE new == IF HasAccount(EmailOf[s]) THEN {} ELSE job[s].new \cup AdminAccount(s)
  <2>1. /\ At(s, "account") /\ UNCHANGED <<schema, ddl, current, overlapped>> /\ Ends(s)
    BY <1>14 DEF CommitAdmin
  <2>2. rows' = rows \cup new
    BY <1>14 DEF CommitAdmin
  <2>3. Open(s) /\ ~At(s, "built")
    BY <2>1 DEF At, Open
  <2>4. AdminAccount(s) \subseteq RowType /\ \A r \in AdminAccount(s) : r.table # "tournaments"
    <3>1. EmailOf[s] \in Owner
      BY DEF Owner
    <3> QED
      BY <3>1, RowTyped DEF AdminAccount, Filled
  <2>5. new \in SUBSET RowType /\ \A r \in new : r.table # "tournaments"
    BY <1>1, <1>2, <2>3, <2>4 DEF JobType
  <2> HIDE DEF new
  <2> QED
    BY <1>3, <2>1, <2>2, <2>3, <2>5, InsertInv
<1>15. CASE LoadSport(s)
  <2>1. PICK o \in Owner : Goes(s, [job[s] EXCEPT !.phase = "adding", !.of = o])
    BY <1>15 DEF LoadSport, Inv, Typed, RowType
  <2> DEFINE t == [job[s] EXCEPT !.phase = "adding", !.of = o]
  <2>2. t \in JobType /\ t.phase = "adding" /\ t.new = job[s].new
    BY <1>1 DEF JobType, Phases
  <2> HIDE DEF t
  <2>3. /\ At(s, "idle") /\ ddl.op = "none" /\ rows # {}
        /\ UNCHANGED <<schema, ddl, rows, current, overlapped>> /\ Goes(s, t)
    BY <1>15, <2>1 DEF LoadSport, store, t
  <2>4. schema # NoTable /\ t.phase \notin Busy /\ t.phase # "built" /\ ~At(s, "built")
    BY <2>2, <2>3 DEF Inv, Tables, Busy, At
  <2> QED
    BY <1>2, <2>2, <2>3, <2>4, GoesInv
<1>16. CASE LoadCurrent(s)
  <2>1. PICK x \in current : Goes(s, [job[s] EXCEPT !.phase = "announcing", !.of = x])
    BY <1>16 DEF LoadCurrent
  <2> DEFINE t == [job[s] EXCEPT !.phase = "announcing", !.of = x]
  <2>2. x \in Owner
    BY DEF Inv, Typed, Owner
  <2>3. t \in JobType /\ t.phase = "announcing" /\ t.new = job[s].new
    BY <1>1, <2>2 DEF JobType, Phases
  <2> HIDE DEF t
  <2>4. /\ At(s, "idle") /\ ddl.op = "none" /\ current # {}
        /\ UNCHANGED <<schema, ddl, rows, current, overlapped>> /\ Goes(s, t)
    BY <1>16, <2>1 DEF LoadCurrent, store, t
  <2>5. schema # NoTable /\ t.phase \notin Busy /\ t.phase # "built" /\ ~At(s, "built")
    BY <2>3, <2>4 DEF Inv, Tables, Busy, At
  <2> QED
    BY <1>2, <2>3, <2>4, <2>5, GoesInv
<1>17. CASE AddFixtures(s) \/ Announce(s)
  <2>1. PICK tables \in {{"fixtures", "live_match_states"}, {"announcements"}} :
          Open(s) /\ Insert(s, tables)
    BY <1>17 DEF AddFixtures, Announce, At, Open
  <2> DEFINE new == IF Allowed({Row(t, job[s].of, s) : t \in tables}, rows)
                    THEN {Row(t, job[s].of, s) : t \in tables} \cup
                         {Row("audit_logs", Nothing, s)}
                    ELSE {}
  <2>2. rows' = rows \cup new
    BY <2>1 DEF Insert
  <2>3. job[s].of \in Owner
    BY <1>1 DEF JobType
  <2>4. \A t \in tables : /\ Row(t, job[s].of, s) \in RowType
                          /\ Row(t, job[s].of, s).table # "tournaments"
    BY <2>3, RowTyped DEF Filled, SeedTables, DemoTables
  <2>5. new \in SUBSET RowType /\ \A r \in new : r.table # "tournaments"
    BY <1>6, <2>4
  <2> HIDE DEF new
  <2>6. UNCHANGED <<schema, ddl, current, overlapped>> /\ Ends(s)
    BY <2>1 DEF Insert
  <2> QED
    BY <1>3, <2>1, <2>2, <2>5, <2>6, InsertInv
<1>18. CASE Fail(s)
  <2>1. /\ Ends(s) /\ UNCHANGED <<schema, ddl, rows, current, overlapped>>
        /\ Open(s)
    BY <1>18 DEF Fail, store
  <2> QED
    BY <2>1, RestingTyped, GoesInv DEF Ends, Busy
<1> QED
  BY <1>7, <1>8, <1>9, <1>10, <1>11, <1>12, <1>13, <1>14, <1>15, <1>16, <1>17, <1>18 DEF Work

(* The invariant holds of any number of seeds, commands and requests.      *)
THEOREM Invariance == Spec => []Inv
<1>1. Inv /\ [Next]_vars => Inv'
  <2>1. Inv /\ Next => Inv'
    BY WorkInv, StepInv DEF Next
  <2>2. Inv /\ UNCHANGED vars => Inv'
    <3> SUFFICES ASSUME Inv, UNCHANGED vars PROVE Inv'
      OBVIOUS
    <3>1. UNCHANGED <<schema, ddl, rows, current, job, overlapped>> /\ Seasons' = Seasons
      BY DEF vars, store, Seasons
    <3>2. Typed' /\ Tables' /\ OneSeason'
      BY <3>1 DEF Inv, Typed, Tables, OneSeason
    <3>3. Alone' /\ Informed' /\ Together'
      BY <3>1 DEF Inv, Alone, Informed, Together, At, Open
    <3> QED
      BY <3>2, <3>3 DEF Inv
  <2> QED
    BY <2>1, <2>2
<1> QED
  BY InitInv, <1>1, PTL DEF Spec

(* One tournament of a slug, and one that is current unless seeds of two   *)
(* have overlapped: seed() replaces, and never adds.                       *)
THEOREM OneTournament == Spec => []OneSeason
BY Invariance, PTL DEF Inv

(* No seed, wherever it fails and whatever it overlaps with, and no        *)
(* migration but one down to nothing, leaves the readers without a current *)
(* tournament.                                                             *)
THEOREM NoGap == Spec => SeasonStays
<1>1. Inv /\ [Next]_vars => [current # {} => current' # {} \/ schema' = NoTable]_vars
  BY WorkInv, StepInv DEF Next
<1> QED
  BY Invariance, <1>1, PTL DEF Spec, SeasonStays

-----------------------------------------------------------------------------
(* The places of the tables in upgrade(), and what it makes of each.        *)

(* The tables that the models declare, by file.                            *)
Families ==
  <<CoreTables, EntryTables, MatchTables, RecordTables, TableTables,
    ContentTables, AuthTables, PushTables>>

(* The place of each table in upgrade().                                   *)
Order ==
  [notification_events |-> 1, notification_templates |-> 2, push_subscriptions |-> 3,
   roles |-> 4, tournaments |-> 5, users |-> 6, audit_logs |-> 7, departments |-> 8,
   notification_deliveries |-> 9, notification_preferences |-> 10, refresh_tokens |-> 11,
   sponsors |-> 12, sports |-> 13, uploaded_files |-> 14, user_roles |-> 15,
   venues |-> 16, brackets |-> 17, competition_stages |-> 18, department_points |-> 19,
   medals |-> 20, participants |-> 21, sport_rules |-> 22, teams |-> 23, groups |-> 24,
   team_members |-> 25, fixtures |-> 26, group_members |-> 27, standings |-> 28,
   announcements |-> 29, bracket_nodes |-> 30, fixture_participants |-> 31,
   live_match_states |-> 32, match_events |-> 33, match_periods |-> 34,
   race_heats |-> 35, set_scores |-> 36, standing_rows |-> 37, race_entries |-> 38,
   race_results |-> 39]

LEMMA FamilyDomains ==
  /\ DOMAIN CoreTables =
       {"tournaments", "sports", "departments", "venues", "sport_rules",
        "competition_stages", "teams", "participants"}
  /\ DOMAIN EntryTables = {"team_members", "groups", "group_members"}
  /\ DOMAIN MatchTables = {"fixtures", "fixture_participants", "live_match_states"}
  /\ DOMAIN RecordTables =
       {"match_periods", "set_scores", "match_events", "race_heats", "race_entries",
        "race_results"}
  /\ DOMAIN TableTables =
       {"standings", "standing_rows", "brackets", "bracket_nodes", "medals",
        "department_points"}
  /\ DOMAIN ContentTables = {"announcements", "sponsors", "uploaded_files"}
  /\ DOMAIN AuthTables = {"roles", "users", "user_roles", "refresh_tokens", "audit_logs"}
  /\ DOMAIN PushTables =
       {"push_subscriptions", "notification_events", "notification_templates",
        "notification_preferences", "notification_deliveries"}
BY DEF CoreTables, EntryTables, MatchTables, RecordTables, TableTables, ContentTables,
       AuthTables, PushTables

(* A table of one file only.                                              *)
LEMMA JoinedAt ==
  ASSUME NEW fs, NEW i \in DOMAIN fs, NEW t \in DOMAIN fs[i],
         \A j \in DOMAIN fs : t \in DOMAIN fs[j] => j = i
  PROVE  t \in DOMAIN Joined(fs) /\ Joined(fs)[t] = fs[i][t]
<1>1. t \in UNION {DOMAIN fs[j] : j \in DOMAIN fs}
  OBVIOUS
<1>2. (CHOOSE j \in DOMAIN fs : t \in DOMAIN fs[j]) = i
  OBVIOUS
<1> QED
  BY <1>1, <1>2 DEF Joined

LEMMA Disjoint ==
  \A i, j \in 1 .. 8 : \A t \in DOMAIN Families[i] : t \in DOMAIN Families[j] => i = j
<1>1. /\ DOMAIN Families[1] = DOMAIN CoreTables /\ DOMAIN Families[2] = DOMAIN EntryTables
      /\ DOMAIN Families[3] = DOMAIN MatchTables /\ DOMAIN Families[4] = DOMAIN RecordTables
      /\ DOMAIN Families[5] = DOMAIN TableTables /\ DOMAIN Families[6] = DOMAIN ContentTables
      /\ DOMAIN Families[7] = DOMAIN AuthTables /\ DOMAIN Families[8] = DOMAIN PushTables
  BY DEF Families
<1>2. \A i \in 1 .. 8 : \A t \in DOMAIN Families[i] :
        Order[t] \in 1 .. 39
  BY <1>1, FamilyDomains DEF Order
<1> DEFINE Part(t) ==
     CASE t \in DOMAIN CoreTables -> 1 [] t \in DOMAIN EntryTables -> 2
       [] t \in DOMAIN MatchTables -> 3 [] t \in DOMAIN RecordTables -> 4
       [] t \in DOMAIN TableTables -> 5 [] t \in DOMAIN ContentTables -> 6
       [] t \in DOMAIN AuthTables -> 7 [] t \in DOMAIN PushTables -> 8
<1>3. \A i \in 1 .. 8 : \A t \in DOMAIN Families[i] : Part(t) = i
  BY <1>1, FamilyDomains
<1> QED
  BY <1>3

LEMMA DeclaredAt ==
  ASSUME NEW i \in 1 .. 8, NEW t \in DOMAIN Families[i]
  PROVE  t \in DOMAIN Declared /\ Declared[t] = Families[i][t]
<1>1. DOMAIN Families = 1 .. 8
  BY DEF Families
<1>2. Declared = Joined(Families)
  BY DEF Declared, Families
<1> QED
  BY <1>1, <1>2, Disjoint, JoinedAt

LEMMA DeclaredFamilies ==
  /\ \A t \in DOMAIN CoreTables : t \in DOMAIN Declared /\ Declared[t] = CoreTables[t]
  /\ \A t \in DOMAIN EntryTables : t \in DOMAIN Declared /\ Declared[t] = EntryTables[t]
  /\ \A t \in DOMAIN MatchTables : t \in DOMAIN Declared /\ Declared[t] = MatchTables[t]
  /\ \A t \in DOMAIN RecordTables : t \in DOMAIN Declared /\ Declared[t] = RecordTables[t]
  /\ \A t \in DOMAIN TableTables : t \in DOMAIN Declared /\ Declared[t] = TableTables[t]
  /\ \A t \in DOMAIN ContentTables : t \in DOMAIN Declared /\ Declared[t] = ContentTables[t]
  /\ \A t \in DOMAIN AuthTables : t \in DOMAIN Declared /\ Declared[t] = AuthTables[t]
  /\ \A t \in DOMAIN PushTables : t \in DOMAIN Declared /\ Declared[t] = PushTables[t]
<1>1. /\ Families[1] = CoreTables /\ Families[2] = EntryTables /\ Families[3] = MatchTables
      /\ Families[4] = RecordTables /\ Families[5] = TableTables
      /\ Families[6] = ContentTables /\ Families[7] = AuthTables /\ Families[8] = PushTables
  BY DEF Families
<1> QED
  BY <1>1, DeclaredAt

LEMMA DeclaredDomain == DOMAIN Declared = DOMAIN Order
<1>1. DOMAIN Declared = UNION {DOMAIN Families[i] : i \in 1 .. 8}
  BY DEF Declared, Joined, Families
<1>2. UNION {DOMAIN Families[i] : i \in 1 .. 8} =
        DOMAIN CoreTables \cup DOMAIN EntryTables \cup DOMAIN MatchTables
          \cup DOMAIN RecordTables \cup DOMAIN TableTables \cup DOMAIN ContentTables
          \cup DOMAIN AuthTables \cup DOMAIN PushTables
  BY DEF Families
<1> QED
  BY <1>1, <1>2, FamilyDomains DEF Order

LEMMA CreateNames ==
  /\ \A i \in 1 .. 8 : CreateRoots[i][1] \in DOMAIN Order /\ Order[CreateRoots[i][1]] = i
  /\ \A i \in 1 .. 8 : CreateAccounts[i][1] \in DOMAIN Order /\ Order[CreateAccounts[i][1]] = 8 + i
  /\ \A i \in 1 .. 8 : CreateSports[i][1] \in DOMAIN Order /\ Order[CreateSports[i][1]] = 16 + i
  /\ \A i \in 1 .. 7 : CreateMatches[i][1] \in DOMAIN Order /\ Order[CreateMatches[i][1]] = 24 + i
  /\ \A i \in 1 .. 8 : CreateRecords[i][1] \in DOMAIN Order /\ Order[CreateRecords[i][1]] = 31 + i
BY DEF CreateRoots, CreateAccounts, CreateSports, CreateMatches, CreateRecords, Order

LEMMA CreateParts ==
  /\ Len(Creates) = 39
  /\ \A i \in 1 .. 8 : /\ Creates[i] = CreateRoots[i] /\ Creates[8 + i] = CreateAccounts[i]
                       /\ Creates[16 + i] = CreateSports[i]
                       /\ Creates[31 + i] = CreateRecords[i]
  /\ \A i \in 1 .. 7 : Creates[24 + i] = CreateMatches[i]
BY DEF Creates, CreateRoots, CreateAccounts, CreateSports, CreateMatches, CreateRecords

(* Parents that the models and the migration list in other orders.         *)
SameSets ==
  /\ {"departments", "tournaments"} = {"tournaments", "departments"}
  /\ {"users", "roles"} = {"roles", "users"}
  /\ {"tournaments", "sports", "departments"} = {"departments", "sports", "tournaments"}
  /\ {"teams", "participants"} = {"participants", "teams"}
  /\ {"sports", "groups"} = {"groups", "sports"}
  /\ {"tournaments", "sports"} = {"sports", "tournaments"}
  /\ {"competition_stages", "groups", "teams", "venues", "users"} =
       {"users", "venues", "groups", "competition_stages", "teams"}
  /\ {"sports", "departments", "fixtures", "users"} =
       {"users", "departments", "fixtures", "sports"}
  /\ {"fixtures", "bracket_nodes"} = {"bracket_nodes", "fixtures"}
  /\ {"teams", "participants", "users"} = {"users", "participants", "teams"}

LEMMA Same == SameSets
BY DEF SameSets

LEMMA MadeRoots == \A i \in 1 .. 8 : CreateRoots[i][2] = Declared[CreateRoots[i][1]]
BY DeclaredFamilies, FamilyDomains DEF CreateRoots, CoreTables, AuthTables, PushTables

LEMMA MadeAccounts == \A i \in 1 .. 8 : CreateAccounts[i][2] = Declared[CreateAccounts[i][1]]
BY DeclaredFamilies, FamilyDomains, Same DEF CreateAccounts, CoreTables, AuthTables, PushTables, ContentTables, SameSets

LEMMA MadeSports == \A i \in 1 .. 8 : CreateSports[i][2] = Declared[CreateSports[i][1]]
BY DeclaredFamilies, FamilyDomains, Same DEF CreateSports, CoreTables, TableTables, EntryTables, SameSets

LEMMA MadeMatches == \A i \in 1 .. 7 : CreateMatches[i][2] = Declared[CreateMatches[i][1]]
BY DeclaredFamilies, FamilyDomains, Same DEF CreateMatches, EntryTables, MatchTables, TableTables, ContentTables, SameSets

LEMMA MadeRecords == \A i \in 1 .. 8 : CreateRecords[i][2] = Declared[CreateRecords[i][1]]
BY DeclaredFamilies, FamilyDomains, Same DEF CreateRecords, RecordTables, MatchTables, TableTables, SameSets

LEMMA RefsColumns ==
  ASSUME NEW a, NEW b
  PROVE  Refs(a, b).must = a /\ Refs(a, b).may = b
BY DEF Refs

LEMMA KeyedColumns ==
  ASSUME NEW k, NEW a, NEW b
  PROVE  Keyed(k, Refs(a, b)).must = a /\ Keyed(k, Refs(a, b)).may = b
BY DEF Keyed, Refs

(* A table refers to tables of places up to n.                             *)
Earlier(c, n) == \A p \in c[2].must \cup c[2].may : p \in DOMAIN Order /\ Order[p] <= n

LEMMA EarlierRoots == \A i \in 1 .. 8 : Earlier(CreateRoots[i], i)
BY RefsColumns, KeyedColumns DEF Earlier, CreateRoots, Root, Of, OfTournament, OfSport, Order

LEMMA EarlierAccounts == \A i \in 1 .. 8 : Earlier(CreateAccounts[i], 8 + i)
BY RefsColumns, KeyedColumns DEF Earlier, CreateAccounts, Root, Of, OfTournament, OfSport, OfSubscription, Order

LEMMA EarlierSports == \A i \in 1 .. 8 : Earlier(CreateSports[i], 16 + i)
BY RefsColumns, KeyedColumns DEF Earlier, CreateSports, Root, Of, OfTournament, OfSport, Order

LEMMA EarlierMatches == \A i \in 1 .. 7 : Earlier(CreateMatches[i], 24 + i)
BY RefsColumns, KeyedColumns DEF Earlier, CreateMatches, Root, Of, OfTournament, OfSport, Order

LEMMA EarlierRecords == \A i \in 1 .. 8 : Earlier(CreateRecords[i], 31 + i)
BY RefsColumns, KeyedColumns DEF Earlier, CreateRecords, Root, Of, OfTournament, OfSport, OfFixture, Order

(* What a step of upgrade() makes, and what one of downgrade() drops.      *)
LEMMA UpStep ==
  ASSUME NEW i \in 1 .. 39
  PROVE  /\ Creates[i][1] \in DOMAIN Order /\ Order[Creates[i][1]] = i
         /\ Creates[i][2] = Declared[Creates[i][1]]
         /\ Earlier(Creates[i], i)
<1>1. CASE i \in 1 .. 8
  BY <1>1, CreateParts, CreateNames, MadeRoots, EarlierRoots
<1>2. CASE i \in 9 .. 16
  <2>1. PICK j \in 1 .. 8 : i = 8 + j
    BY <1>2
  <2> QED
    BY <2>1, CreateParts, CreateNames, MadeAccounts, EarlierAccounts
<1>3. CASE i \in 17 .. 24
  <2>1. PICK j \in 1 .. 8 : i = 16 + j
    BY <1>3
  <2> QED
    BY <2>1, CreateParts, CreateNames, MadeSports, EarlierSports
<1>4. CASE i \in 25 .. 31
  <2>1. PICK j \in 1 .. 7 : i = 24 + j
    BY <1>4
  <2> QED
    BY <2>1, CreateParts, CreateNames, MadeMatches, EarlierMatches
<1>5. CASE i \in 32 .. 39
  <2>1. PICK j \in 1 .. 8 : i = 31 + j
    BY <1>5
  <2> QED
    BY <2>1, CreateParts, CreateNames, MadeRecords, EarlierRecords
<1> QED
  BY <1>1, <1>2, <1>3, <1>4, <1>5

LEMMA DropsReverse ==
  /\ Len(Drops) = 39
  /\ \A i \in 1 .. 39 : Drops[i] \in DOMAIN Order /\ Order[Drops[i]] = 40 - i
<1>1. /\ Len(Drops) = 39
      /\ \A i \in 1 .. 22 : Drops[i] = DropRecords[i]
      /\ \A i \in 1 .. 17 : Drops[22 + i] = DropAccounts[i]
  BY DEF Drops, DropRecords, DropAccounts
<1>2. \A i \in 1 .. 22 : DropRecords[i] \in DOMAIN Order /\ Order[DropRecords[i]] = 40 - i
  BY DEF DropRecords, Order
<1>3. \A i \in 1 .. 17 : DropAccounts[i] \in DOMAIN Order /\ Order[DropAccounts[i]] = 18 - i
  BY DEF DropAccounts, Order
<1>4. ASSUME NEW i \in 1 .. 39
      PROVE  Drops[i] \in DOMAIN Order /\ Order[Drops[i]] = 40 - i
  <2>1. CASE i \in 1 .. 22
    BY <1>1, <1>2, <2>1
  <2>2. CASE i \in 23 .. 39
    <3>1. PICK j \in 1 .. 17 : i = 22 + j
      BY <2>2
    <3> QED
      BY <1>1, <1>3, <3>1
  <2> QED
    BY <2>1, <2>2
<1> QED
  BY <1>1, <1>4

LEMMA OrderInv ==
  ASSUME NEW t \in DOMAIN Order
  PROVE  /\ Order[t] \in 1 .. 39
BY DEF Order

LEMMA OrderInj ==
  ASSUME NEW x \in DOMAIN Order, NEW y \in DOMAIN Order, Order[x] = Order[y]
  PROVE  x = y
BY DEF Order

-----------------------------------------------------------------------------
(* The tables of the first n steps of upgrade().                           *)
Upto(n) == [t \in {x \in DOMAIN Order : Order[x] <= n} |-> Declared[t]]

(* How far the migration has come.                                         *)
Schemed ==
  /\ MigrationRuns
  /\ ddl.op = "upgrade" => ddl.made = Upto(ddl.step - 1)
  /\ ddl.op = "downgrade" => ddl.made = Upto(40 - ddl.step)

(* Nothing, and all the models declare.                                    *)
LEMMA UptoEnds == Upto(0) = NoTable /\ Upto(39) = Declared
<1>1. \A t \in DOMAIN Order : Order[t] \in 1 .. 39
  BY OrderInv
<1>2. {x \in DOMAIN Order : Order[x] <= 0} = {} /\ {x \in DOMAIN Order : Order[x] <= 39} = DOMAIN Order
  BY <1>1
<1>3. Declared = [t \in DOMAIN Declared |-> Declared[t]]
  BY DEF Declared, Joined
<1>4. Upto(0) = NoTable
  BY <1>2 DEF Upto, NoTable
<1>5. Upto(39) = Declared
  BY <1>2, <1>3, DeclaredDomain DEF Upto
<1> QED
  BY <1>4, <1>5

(* The step that makes, and the one that drops, the table of a place.      *)
LEMMA UptoAt ==
  ASSUME NEW n \in 1 .. 39, NEW t \in DOMAIN Order, Order[t] = n
  PROVE  /\ t \notin DOMAIN Upto(n - 1) /\ t \in DOMAIN Upto(n)
         /\ DOMAIN Upto(n) = DOMAIN Upto(n - 1) \cup {t}
         /\ DOMAIN Upto(n - 1) = DOMAIN Upto(n) \ {t}
<1>1. \A x \in DOMAIN Order : Order[x] \in 1 .. 39 /\ (Order[x] = n => x = t)
  BY OrderInv, OrderInj
<1>2. /\ DOMAIN Upto(n) = {x \in DOMAIN Order : Order[x] <= n}
      /\ DOMAIN Upto(n - 1) = {x \in DOMAIN Order : Order[x] <= n - 1}
  BY DEF Upto
<1>3. \A x \in DOMAIN Order : Order[x] <= n <=> (Order[x] <= n - 1 \/ x = t)
  BY <1>1
<1>4. ~(Order[t] <= n - 1)
  OBVIOUS
<1> QED
  BY <1>2, <1>3, <1>4

(* A table refers to nothing that comes later.                             *)
LEMMA MadeParents ==
  ASSUME NEW n \in 1 .. 39, NEW t \in DOMAIN Order, Order[t] = n
  PROVE  Declared[t].must \cup Declared[t].may \subseteq DOMAIN Upto(n)
<1>1. Creates[n][1] = t
  BY UpStep, OrderInj
<1>2. \A p \in Declared[t].must \cup Declared[t].may : p \in DOMAIN Order /\ Order[p] <= n
  BY <1>1, UpStep DEF Earlier
<1> QED
  BY <1>2 DEF Upto

LEMMA MigrateSchemed ==
  ASSUME ddl.op \in {"upgrade", "downgrade"}, schema \in {NoTable, Declared},
         ddl = [op |-> ddl.op, step |-> ddl.step, made |-> ddl.made],
         NEW made, Migrate(39, TRUE, made), ddl.step \in 1 .. 39,
         made = Upto(IF ddl.op = "upgrade" THEN ddl.step ELSE 39 - ddl.step)
  PROVE  Schemed'
<1>1. CASE ddl.step < 39 /\ ddl' = [ddl EXCEPT !.step = @ + 1, !.made = made] /\ UNCHANGED schema
  <2>1. ddl'.op = ddl.op /\ ddl'.step = ddl.step + 1 /\ ddl'.made = made
    BY <1>1
  <2>2. (ddl.step + 1) - 1 = ddl.step /\ 40 - (ddl.step + 1) = 39 - ddl.step
    OBVIOUS
  <2>3. Upto(ddl'.step - 1) = Upto(ddl.step) /\ Upto(40 - ddl'.step) = Upto(39 - ddl.step)
    BY <2>1, <2>2
  <2> QED
    BY <1>1, <2>1, <2>3 DEF Schemed, MigrationRuns
<1>2. CASE ~(ddl.step < 39) /\ ddl' = Idle /\ schema' = made
  <2>1. ddl.step = 39
    BY <1>2
  <2>2. made \in {NoTable, Declared}
    BY <2>1, UptoEnds
  <2>3. ddl'.op = "none"
    BY <1>2 DEF Idle
  <2> QED
    BY <1>2, <2>2, <2>3 DEF Schemed, MigrationRuns
<1> QED
  BY <1>1, <1>2 DEF Migrate, store

LEMMA MigrationSchemed ==
  ASSUME Inv, Schemed, Migration
  PROVE  Schemed'
<1> USE DEF Inv
<1>1. CASE StartMigration
  <2>1. /\ ddl'.op = IF schema = NoTable THEN "upgrade" ELSE "downgrade"
        /\ ddl'.step = 1 /\ ddl'.made = schema /\ schema' = schema
    BY <1>1 DEF StartMigration
  <2>2. schema \in {NoTable, Declared} /\ 1 - 1 = 0 /\ 40 - 1 = 39
    BY DEF Schemed, MigrationRuns
  <2> QED
    BY <2>1, <2>2, UptoEnds DEF Schemed, MigrationRuns
<1>2. CASE CreateTable
  <2> DEFINE n == ddl.step
             table == Creates[n][1]
             made == [t \in DOMAIN ddl.made \cup {table} |->
                        IF t = table THEN Creates[n][2] ELSE ddl.made[t]]
             possible == /\ table \notin DOMAIN ddl.made
                         /\ Parents(made, table) \subseteq DOMAIN made
  <2>1. ddl.op = "upgrade" /\ Migrate(Len(Creates), possible, made)
    BY <1>2 DEF CreateTable
  <2>2. n \in 1 .. 39 /\ Len(Creates) = 39 /\ ddl.made = Upto(n - 1)
    BY <2>1, Covered DEF Tables, Schemed
  <2>3. table \in DOMAIN Order /\ Order[table] = n /\ Creates[n][2] = Declared[table]
    BY <2>2, UpStep
  <2> HIDE DEF n, table
  <2>4. made = Upto(n) /\ table \notin DOMAIN ddl.made
    <3>1. DOMAIN Upto(n) = DOMAIN Upto(n - 1) \cup {table} /\ table \notin DOMAIN Upto(n - 1)
      BY <2>2, <2>3, UptoAt
    <3>2. /\ Upto(n) = [x \in DOMAIN Upto(n) |-> Declared[x]]
          /\ Upto(n - 1) = [x \in DOMAIN Upto(n - 1) |-> Declared[x]]
      BY DEF Upto
    <3> QED
      BY <2>2, <2>3, <3>1, <3>2
  <2>5. Parents(made, table) \subseteq DOMAIN made
    <3>1. made[table] = Declared[table]
      BY <2>3
    <3> HIDE DEF made
    <3> QED
      BY <2>2, <2>3, <2>4, <3>1, MadeParents DEF Parents
  <2> HIDE DEF made
  <2>6. Migrate(39, TRUE, made)
    BY <2>1, <2>2, <2>4, <2>5
  <2> QED
    BY <2>1, <2>2, <2>4, <2>6, MigrateSchemed DEF Tables, Schemed, MigrationRuns, n
<1>3. CASE DropTable
  <2> DEFINE n == ddl.step
             table == Drops[n]
             made == [t \in DOMAIN ddl.made \ {table} |-> ddl.made[t]]
             possible == /\ table \in DOMAIN ddl.made
                         /\ \A t \in DOMAIN made : table \notin Parents(made, t)
  <2>1. ddl.op = "downgrade" /\ Migrate(Len(Drops), possible, made)
    BY <1>3 DEF DropTable
  <2>2. n \in 1 .. 39 /\ Len(Drops) = 39 /\ ddl.made = Upto(40 - n)
    BY <2>1, DropNames DEF Tables, Schemed
  <2>3. table \in DOMAIN Order /\ Order[table] = 40 - n
    BY <2>2, DropsReverse
  <2> HIDE DEF n, table
  <2> DEFINE m == 40 - n
  <2>4. m \in 1 .. 39 /\ m - 1 = 39 - n
    BY <2>2
  <2> HIDE DEF m
  <2>5. made = Upto(m - 1) /\ table \in DOMAIN ddl.made /\ table \notin DOMAIN Upto(m - 1)
    <3>1. /\ DOMAIN Upto(m - 1) = DOMAIN Upto(m) \ {table}
          /\ table \in DOMAIN Upto(m) /\ table \notin DOMAIN Upto(m - 1)
      <4>1. Order[table] = m
        BY <2>3 DEF m
      <4> QED
        BY <2>3, <2>4, <4>1, UptoAt
    <3>2. ddl.made = Upto(m)
      BY <2>2 DEF m
    <3>3. /\ Upto(m) = [x \in DOMAIN Upto(m) |-> Declared[x]]
          /\ Upto(m - 1) = [x \in DOMAIN Upto(m - 1) |-> Declared[x]]
      BY DEF Upto
    <3> QED
      BY <3>1, <3>2, <3>3
  <2>6. ASSUME NEW t \in DOMAIN made PROVE table \notin Parents(made, t)
    <3>1. t \in DOMAIN Order /\ Order[t] <= m - 1 /\ made[t] = Declared[t]
      BY <2>5, <2>6 DEF Upto
    <3>2. Order[t] \in 1 .. 39
      BY <3>1, OrderInv
    <3>3. Declared[t].must \cup Declared[t].may \subseteq DOMAIN Upto(Order[t])
      BY <3>1, <3>2, MadeParents
    <3>4. table \notin DOMAIN Upto(Order[t])
      BY <2>3, <2>4, <3>1, <3>2 DEF Upto, m
    <3> QED
      BY <3>1, <3>3, <3>4 DEF Parents
  <2> HIDE DEF made
  <2>7. Migrate(39, TRUE, made)
    BY <2>1, <2>2, <2>5, <2>6
  <2> QED
    BY <2>1, <2>2, <2>4, <2>5, <2>7, MigrateSchemed DEF Tables, Schemed, MigrationRuns, n
<1>4. CASE StopMigration
  BY <1>4 DEF StopMigration, Schemed, MigrationRuns, Idle
<1> QED
  BY <1>1, <1>2, <1>3, <1>4 DEF Migration

LEMMA WorkSchema == ASSUME NEW s \in Session, Work(s) PROVE UNCHANGED <<schema, ddl>>
BY DEF Work, Seed, EnsureRoles, SelectSeason, DropSeason, BuildSeason, CommitSeed, CreateAdmin,
       CommitAdmin, LoadSport, LoadCurrent, AddFixtures, Announce, Insert, Fail

(* upgrade() never fails and ends in what the models declare, downgrade()  *)
(* never fails and leaves nothing: every table is made after those it      *)
(* refers to and dropped before them, and made as its model says.          *)
THEOREM WholeSchema == Spec => []MigrationRuns
<1>1. Init => Schemed
  BY DEF Init, Schemed, MigrationRuns, Idle
<1>2. Inv /\ Schemed /\ [Next]_vars => Schemed'
  <2>1. UNCHANGED <<schema, ddl>> /\ Schemed => Schemed'
    BY DEF Schemed, MigrationRuns
  <2> QED
    BY <2>1, MigrationSchemed, WorkSchema DEF Next, vars
<1> QED
  BY Invariance, <1>1, <1>2, PTL DEF Spec, Schemed

-----------------------------------------------------------------------------
(* Induction, over sets of numbers.                                        *)

Before == {ss \in Nat \X Nat : ss[1] < ss[2]}

LEMMA Least ==
  ASSUME NEW S \in SUBSET Nat, S # {}
  PROVE  \E x \in S : \A y \in S : x <= y
<1>1. IsWellFoundedOn(Before, Nat)
  BY NatLessThanWellFounded DEF OpToRel, Before
<1>2. PICK x \in S : \A y \in S : <<y, x>> \notin Before
  BY <1>1, WFMin
<1>4. ASSUME NEW y \in S PROVE x <= y
  <2>1. <<y, x>> \notin Before
    BY <1>2
  <2> QED
    BY <2>1 DEF Before
<1> QED
  BY <1>4

LEMMA Induction ==
  ASSUME NEW S \in SUBSET Nat, 0 \in S, \A n \in S : n + 1 \in S
  PROVE  S = Nat
<1> SUFFICES ASSUME Nat \ S # {} PROVE FALSE
  OBVIOUS
<1>1. PICK x \in Nat \ S : \A y \in Nat \ S : x <= y
  BY Least
<1>2. x - 1 \in Nat /\ x - 1 \in S
  BY <1>1
<1> QED
  BY <1>1, <1>2

(* The tables near, and those that cannot be without one of them.          *)
Near(made, near) == near \cup {t \in DOMAIN made : made[t].must \cap near # {}}

(* The ways from a table to those it needs, n at most.                     *)
Way(made, S, n, p) ==
  /\ p \in [0 .. n -> DOMAIN made] /\ p[0] \in S
  /\ \A i \in 1 .. n : p[i] = p[i - 1] \/ p[i - 1] \in made[p[i]].must

Within(made, S) ==
  [n \in Nat |-> {t \in DOMAIN made : \E p : Way(made, S, n, p) /\ p[n] = t}]

LEMMA WithinSteps ==
  ASSUME NEW made, NEW S \in SUBSET DOMAIN made
  PROVE  Within(made, S) = [n \in Nat |-> IF n = 0 THEN S ELSE Near(made, Within(made, S)[n - 1])]
<1> DEFINE W == Within(made, S)
           D == DOMAIN made
<1>1. \A n \in Nat : W[n] = {t \in D : \E p : Way(made, S, n, p) /\ p[n] = t}
  BY DEF Within
<1>2. W[0] = S
  <2>1. ASSUME NEW t \in S PROVE t \in W[0]
    <3>1. Way(made, S, 0, [i \in 0 .. 0 |-> t])
      BY DEF Way
    <3> QED
      BY <1>1, <3>1
  <2>2. ASSUME NEW t \in W[0] PROVE t \in S
    BY <1>1, <2>2 DEF Way
  <2> QED
    BY <1>1, <2>1, <2>2
<1>3. ASSUME NEW n \in Nat, n # 0 PROVE W[n] = Near(made, W[n - 1])
  <2>1. ASSUME NEW t \in W[n] PROVE t \in Near(made, W[n - 1])
    <3>1. PICK p : Way(made, S, n, p) /\ p[n] = t
      BY <1>1, <2>1
    <3> DEFINE u == p[n - 1]
    <3>2. n - 1 \in Nat /\ n - 1 \in 0 .. n /\ n \in 1 .. n /\ 0 .. n - 1 \subseteq 0 .. n
      BY <1>3
    <3>3. u \in D /\ (t = u \/ u \in made[t].must)
      BY <3>1, <3>2 DEF Way
    <3>4. Way(made, S, n - 1, [i \in 0 .. n - 1 |-> p[i]])
      BY <3>1, <3>2 DEF Way
    <3>5. u \in W[n - 1]
      <4>1. [i \in 0 .. n - 1 |-> p[i]][n - 1] = u
        BY <3>2
      <4> QED
        BY <1>1, <3>2, <3>3, <3>4, <4>1
    <3>6. t \in D
      BY <1>1, <2>1
    <3> HIDE DEF u
    <3> QED
      BY <3>3, <3>5, <3>6 DEF Near
  <2>2. ASSUME NEW t \in Near(made, W[n - 1]) PROVE t \in W[n]
    <3>1. n - 1 \in Nat /\ n = (n - 1) + 1
      BY <1>3
    <3>2. PICK u \in W[n - 1] : t = u \/ (t \in D /\ u \in made[t].must)
      BY <2>2 DEF Near
    <3>3. PICK p : Way(made, S, n - 1, p) /\ p[n - 1] = u
      BY <1>1, <3>1, <3>2
    <3>4. t \in D
      BY <1>1, <3>1, <3>2
    <3> DEFINE q == [i \in 0 .. n |-> IF i = n THEN t ELSE p[i]]
    <3>5. \A i \in 0 .. n - 1 : q[i] = p[i] /\ i \in 0 .. n /\ p[i] \in D
      BY <3>3 DEF Way
    <3>6. q[n] = t /\ q \in [0 .. n -> D]
      <4>1. \A i \in 0 .. n : i = n \/ i \in 0 .. n - 1
        OBVIOUS
      <4>2. \A i \in 0 .. n : q[i] \in D
        BY <3>4, <3>5, <4>1
      <4> QED
        BY <4>2
    <3> HIDE DEF q
    <3>7. q[0] \in S
      BY <3>1, <3>3, <3>5 DEF Way
    <3>8. ASSUME NEW i \in 1 .. n PROVE q[i] = q[i - 1] \/ q[i - 1] \in made[q[i]].must
      <4>1. CASE i = n
        BY <4>1, <3>1, <3>2, <3>3, <3>5, <3>6
      <4>2. CASE i # n
        <5>1. i \in 1 .. n - 1 /\ i - 1 \in 0 .. n - 1 /\ i \in 0 .. n - 1
          BY <4>2
        <5> QED
          BY <3>3, <3>5, <5>1 DEF Way
      <4> QED
        BY <4>1, <4>2
    <3>9. Way(made, S, n, q)
      BY <3>6, <3>7, <3>8 DEF Way
    <3> QED
      BY <1>1, <3>4, <3>6, <3>9
  <2> QED
    BY <2>1, <2>2
<1>4. W = [n \in Nat |-> W[n]]
  BY DEF Within
<1> HIDE DEF W
<1> SUFFICES W = [n \in Nat |-> IF n = 0 THEN S ELSE Near(made, W[n - 1])]
  BY DEF W
<1> QED
  BY <1>2, <1>3, <1>4

(* What a LET in Cascaded defines is what its equation says.               *)
LEMMA ReachSteps ==
  ASSUME NEW made, NEW S \in SUBSET DOMAIN made
  PROVE  \E reach : /\ Cascaded(made, S) = reach[Cardinality(DOMAIN made)]
                    /\ reach[0] = S
                    /\ \A n \in Nat : reach[n + 1] = Near(made, reach[n])
<1> DEFINE reach[n \in Nat] ==
             IF n = 0 THEN S
             ELSE LET near == reach[n - 1]
                  IN near \cup {t \in DOMAIN made : made[t].must \cap near # {}}
<1>1. Cascaded(made, S) = reach[Cardinality(DOMAIN made)]
  BY DEF Cascaded
<1>2. \E f : f = [n \in Nat |-> IF n = 0 THEN S
                               ELSE f[n - 1] \cup {t \in DOMAIN made : made[t].must \cap f[n - 1] # {}}]
  <2> DEFINE W == Within(made, S)
  <2>1. W = [n \in Nat |-> IF n = 0 THEN S ELSE Near(made, W[n - 1])]
    BY WithinSteps
  <2> HIDE DEF W
  <2>2. W = [n \in Nat |-> IF n = 0 THEN S
                           ELSE W[n - 1] \cup {t \in DOMAIN made : made[t].must \cap W[n - 1] # {}}]
    BY <2>1 DEF Near
  <2> QED
    BY <2>2
<1>3. reach = [n \in Nat |-> IF n = 0 THEN S
                            ELSE reach[n - 1] \cup {t \in DOMAIN made : made[t].must \cap reach[n - 1] # {}}]
  BY <1>2
<1> HIDE DEF reach
<1>4. reach[0] = S
  BY <1>3
<1>5. ASSUME NEW n \in Nat PROVE reach[n + 1] = Near(made, reach[n])
  <2>1. n + 1 \in Nat /\ n + 1 # 0 /\ (n + 1) - 1 = n
    OBVIOUS
  <2> QED
    BY <1>3, <2>1 DEF Near
<1> QED
  BY <1>1, <1>4, <1>5

(* What goes with a row of S is all that cannot be without what goes.      *)
LEMMA CascadedClosed ==
  ASSUME NEW made, IsFiniteSet(DOMAIN made), NEW S \in SUBSET DOMAIN made, S # {}
  PROVE  /\ S \subseteq Cascaded(made, S) /\ Cascaded(made, S) \subseteq DOMAIN made
         /\ \A t \in DOMAIN made : made[t].must \cap Cascaded(made, S) # {} =>
                                     t \in Cascaded(made, S)
<1> DEFINE D == DOMAIN made
<1>1. PICK reach : /\ Cascaded(made, S) = reach[Cardinality(D)]
                   /\ reach[0] = S
                   /\ \A n \in Nat : reach[n + 1] = Near(made, reach[n])
  BY ReachSteps
<1> DEFINE Known == {n \in Nat : S \subseteq reach[n] /\ reach[n] \subseteq D}
           Grown == {n \in Nat : \/ Near(made, reach[n]) = reach[n]
                                 \/ Cardinality(reach[n]) >= n + 1}
<1>2. Known = Nat
  <2>1. 0 \in Known
    BY <1>1
  <2>2. ASSUME NEW n \in Known PROVE n + 1 \in Known
    BY <1>1, <2>2 DEF Near
  <2> HIDE DEF Known
  <2> QED
    BY <2>1, <2>2, Induction DEF Known
<1>3. \A n \in Nat : S \subseteq reach[n] /\ reach[n] \subseteq D /\ IsFiniteSet(reach[n])
  BY <1>2, FS_Subset
<1> HIDE DEF D
<1>4. Grown = Nat
  <2>1. 0 \in Grown
    <3>1. S = reach[0] /\ IsFiniteSet(reach[0])
      BY <1>1, <1>3
    <3>2. Cardinality(S) # 0 /\ Cardinality(S) \in Nat
      BY <3>1, FS_EmptySet, FS_CardinalityType
    <3> QED
      BY <3>1, <3>2
  <2>2. ASSUME NEW n \in Grown PROVE n + 1 \in Grown
    <3>1. n \in Nat /\ n + 1 \in Nat /\ reach[n + 1] = Near(made, reach[n])
      BY <1>1, <2>2
    <3>2. CASE Near(made, reach[n]) = reach[n]
      BY <3>1, <3>2
    <3>3. CASE Near(made, reach[n]) # reach[n]
      <4>1. reach[n] \subseteq reach[n + 1] /\ reach[n] # reach[n + 1]
        BY <3>1, <3>3 DEF Near
      <4>2. Cardinality(reach[n]) < Cardinality(reach[n + 1])
        <5>1. IsFiniteSet(reach[n + 1])
          BY <1>3, <3>1
        <5> QED
          BY <4>1, <5>1, FS_Subset, FS_CardinalityType
      <4>3. Cardinality(reach[n]) \in Nat /\ Cardinality(reach[n + 1]) \in Nat
        BY <1>3, <3>1, FS_CardinalityType
      <4>4. Cardinality(reach[n]) >= n + 1
        BY <2>2, <3>3
      <4> QED
        BY <3>1, <4>2, <4>3, <4>4
    <3> QED
      BY <3>2, <3>3
  <2> HIDE DEF Grown
  <2>3. Grown \subseteq Nat
    BY DEF Grown
  <2> QED
    BY <2>1, <2>2, <2>3, Induction
<1> DEFINE c == Cardinality(D)
<1>5. c \in Nat
  BY FS_CardinalityType DEF D
<1>6. Cardinality(reach[c]) <= c /\ Cardinality(reach[c]) \in Nat
  BY <1>3, <1>5, FS_Subset, FS_CardinalityType DEF D
<1>7. Near(made, reach[c]) = reach[c]
  BY <1>4, <1>5, <1>6
<1> QED
  BY <1>1, <1>3, <1>5, <1>7 DEF Near, D

-----------------------------------------------------------------------------
(* Roles are of no season, and who is about to make an account has them.   *)
Rooted ==
  /\ ReferencesHold
  /\ \A r \in rows : r.table = "roles" => r.of = Nothing
  /\ \A s \in Session :
       /\ \A r \in job[s].new : r.table = "roles" => r.of = Nothing
       /\ At(s, "account") =>
            /\ \A r \in job[s].new : r.table = "roles"
            /\ \E r \in rows \cup job[s].new : r.table = "roles"

LEMMA DeclaredFinite == IsFiniteSet(DOMAIN Declared)
<1>1. Order \in Injection(DOMAIN Order, 1 .. 39)
  <2>1. Order = [t \in DOMAIN Order |-> Order[t]]
    BY DEF Order
  <2>2. Order \in [DOMAIN Order -> 1 .. 39]
    BY <2>1, OrderInv
  <2> QED
    BY <2>2, OrderInj DEF Injection, IsInjective
<1>2. IsFiniteSet(1 .. 39)
  <2>1. \A a, b \in Int : IsFiniteSet(a .. b)
    BY FS_Interval
  <2>2. PICK a \in Int, b \in Int : a = 1 /\ b = 39
    OBVIOUS
  <2>3. IsFiniteSet(a .. b)
    BY <2>1
  <2> QED
    BY <2>2, <2>3
<1> QED
  BY <1>1, <1>2, FS_Injection, DeclaredDomain

LEMMA FreeTables ==
  /\ Declared["audit_logs"].must = {} /\ Declared["roles"].must = {}
  /\ Declared["users"].must = {} /\ Declared["user_roles"].must = {"users", "roles"}
<1>1. /\ Declared["audit_logs"] = Refs({}, {"users"})
      /\ Declared["roles"] = Keyed({"name"}, Root)
      /\ Declared["users"] = Keyed({"email"}, Root)
      /\ Declared["user_roles"] = Keyed({"user", "role"}, Of({"users", "roles"}))
  BY DeclaredFamilies, FamilyDomains DEF AuthTables
<1> QED
  BY <1>1, RefsColumns, KeyedColumns DEF Root, Of

LEMMA FilledDeclared == Filled \subseteq DOMAIN Declared
BY DeclaredDomain DEF Filled, SeedTables, DemoTables, Order

(* Rows are added to, and nothing is taken away.                           *)
LEMMA MoreParents ==
  ASSUME NEW r, NEW there, NEW more, HasParents(r, there, Declared), there \subseteq more
  PROVE  HasParents(r, more, Declared)
BY DEF HasParents

(* What goes with a season goes with all that refers to it.                *)
LEMMA StaysWhole ==
  ASSUME Inv, ReferencesHold, schema = Declared, NEW gone \in SUBSET Seeding,
         NEW r \in rows \ Gone(gone)
  PROVE  HasParents(r, rows \ Gone(gone), Declared)
<1> DEFINE C == Cascaded(Declared, {"tournaments"})
<1>1. "tournaments" \in DOMAIN Declared
  BY FilledDeclared DEF Filled, SeedTables
<1>2. /\ "tournaments" \in C
      /\ \A t \in DOMAIN Declared : Declared[t].must \cap C # {} => t \in C
  <2>1. {"tournaments"} \in SUBSET DOMAIN Declared /\ {"tournaments"} # {}
    BY <1>1
  <2>2. /\ {"tournaments"} \subseteq C
        /\ \A t \in DOMAIN Declared : Declared[t].must \cap C # {} => t \in C
    BY <2>1, DeclaredFinite, CascadedClosed
  <2> HIDE DEF C
  <2> QED
    BY <2>2
<1>3. \A x \in rows : x \in Gone(gone) <=> x.of \in gone /\ x.table \in C
  <2> HIDE DEF C
  <2>1. Gone(gone) = {x \in rows : x.of \in gone /\ x.table \in {"tournaments"} \cup C}
    BY DEF Gone, C
  <2> QED
    BY <2>1, <1>2
<1> HIDE DEF C
<1>4. r.table \in DOMAIN Declared
  BY FilledDeclared DEF Inv, Typed, RowType
<1>5. ASSUME NEW p \in Declared[r.table].must
      PROVE  \E x \in rows \ Gone(gone) :
               /\ x.table = p
               /\ x.of = Nothing \/ (x.of = r.of /\ x.by \in {r.by, r.of})
  <2>1. PICK x \in rows : /\ x.table = p
                          /\ x.of = Nothing \/ (x.of = r.of /\ x.by \in {r.by, r.of})
    BY DEF ReferencesHold, HasParents
  <2>2. x \notin Gone(gone)
    BY <1>2, <1>3, <1>4, <2>1, NothingAssumption DEF Session
  <2> QED
    BY <2>1, <2>2
<1> QED
  BY <1>5 DEF HasParents

-----------------------------------------------------------------------------
LEMMA RootedGoes ==
  ASSUME Inv, Rooted, NEW s \in Session, NEW t \in JobType, Goes(s, t), rows' = rows,
         \A r \in t.new : r.table = "roles" => r.of = Nothing,
         t.phase = "account" =>
           /\ \A r \in t.new : r.table = "roles"
           /\ \E r \in rows \cup t.new : r.table = "roles"
  PROVE  Rooted'
<1>1. /\ job'[s] = t
      /\ \A q \in Session \ {s} : job'[q] = job[q]
  BY DEF Goes, Inv, Typed
<1>2. ReferencesHold'
  BY DEF Rooted, ReferencesHold
<1> QED
  BY <1>1, <1>2 DEF Rooted, At

LEMMA EndsJob ==
  ASSUME Inv, NEW s \in Session, Ends(s)
  PROVE  /\ job'[s].phase = "ended" /\ job'[s].new = {}
         /\ \A q \in Session \ {s} : job'[q] = job[q]
BY RestingTyped DEF Ends, Goes, Inv, Typed

(* A session ends, and leaves rows of which each has its parents.          *)
LEMMA RootedEnds ==
  ASSUME Inv, Rooted, NEW s \in Session, Ends(s), NEW new, ReferencesHold',
         NEW gone \in SUBSET Seeding, rows' = (rows \ Gone(gone)) \cup new,
         \A r \in new : r.table = "roles" => r.of = Nothing
  PROVE  Rooted'
<1>1. \A r \in rows : r.table = "roles" => r \in rows'
  BY NothingAssumption DEF Rooted, Gone, Session
<1>2. \A r \in rows' : r.table = "roles" => r.of = Nothing
  BY DEF Rooted
<1> QED
  BY <1>1, <1>2, EndsJob DEF Rooted, At

LEMMA RootedSchema ==
  ASSUME Inv, Schemed, NEW s \in Session, Open(s)
  PROVE  schema = Declared
BY DEF Inv, Alone, Schemed, MigrationRuns

LEMMA RootedCommit ==
  ASSUME Inv, Schemed, Rooted, NEW s \in Session, CommitSeed(s)
  PROVE  Rooted'
<1>1. PICK admin \in {{}, AdminAccount(s)} :
        LET new == job[s].new \cup admin IN
        Allowed(new, rows \ Gone(job[s].gone)) /\ Commit(s, job[s].gone, job[s].demotes, new)
  BY DEF CommitSeed
<1> DEFINE new == job[s].new \cup admin
           gone == job[s].gone
<1>2. gone \in SUBSET Seeding
  BY DEF Inv, Typed, JobType
<1>3. \A r \in new : r.table = "roles" => r.of = Nothing
  <2>1. \A r \in AdminAccount(s) : r.table # "roles"
    BY DEF AdminAccount, Row
  <2> QED
    BY <1>1, <2>1 DEF Rooted
<1>4. schema = Declared
  BY RootedSchema DEF CommitSeed, At, Open
<1> HIDE DEF new, gone
<1>5. Ends(s) /\ rows' = (rows \ Gone(gone)) \cup new
  BY <1>1 DEF Commit, new, gone
<1>6. \A r \in new : HasParents(r, rows', Declared)
  BY <1>1, <1>4, <1>5 DEF Allowed, new, gone
<1>7. \A r \in rows \ Gone(gone) : HasParents(r, rows', Declared)
  BY <1>2, <1>4, <1>5, StaysWhole, MoreParents DEF Rooted
<1>8. ReferencesHold'
  BY <1>5, <1>6, <1>7 DEF ReferencesHold
<1> QED
  BY <1>2, <1>3, <1>5, <1>8, RootedEnds

LEMMA NoneGone == rows \ Gone({}) = rows
BY DEF Gone

LEMMA RootedAdd ==
  ASSUME Inv, Rooted, NEW s \in Session, Ends(s), NEW new, rows' = rows \cup new,
         \A r \in new : HasParents(r, rows \cup new, Declared),
         \A r \in new : r.table = "roles" => r.of = Nothing
  PROVE  Rooted'
<1>1. \A r \in rows : HasParents(r, rows', Declared)
  BY MoreParents DEF Rooted, ReferencesHold
<1>2. ReferencesHold'
  BY <1>1 DEF ReferencesHold
<1>3. {} \in SUBSET Seeding /\ rows' = (rows \ Gone({})) \cup new
  BY NoneGone
<1> QED
  BY <1>2, <1>3, RootedEnds

LEMMA RootedFail ==
  ASSUME Inv, Rooted, NEW s \in Session, Ends(s), rows' = rows
  PROVE  Rooted'
<1>1. ReferencesHold'
  BY DEF Rooted, ReferencesHold
<1> QED
  BY <1>1, EndsJob DEF Rooted, At

LEMMA RootedAdmin ==
  ASSUME Inv, Schemed, Rooted, NEW s \in Session, CommitAdmin(s)
  PROVE  Rooted'
<1>1. CASE Ends(s) /\ rows' = rows
  BY <1>1, RootedFail
<1>2. CASE Ends(s) /\ rows' = rows \cup job[s].new \cup AdminAccount(s)
  <2> DEFINE new == job[s].new \cup AdminAccount(s)
  <2>1. /\ At(s, "account") /\ \A r \in job[s].new : r.table = "roles" /\ r.of = Nothing
        /\ \E r \in rows \cup new : r.table = "roles" /\ r.of = Nothing
    BY DEF CommitAdmin, Rooted
  <2>2. Row("users", EmailOf[s], s) \in new /\ rows' = rows \cup new
    BY <1>2 DEF AdminAccount
  <2>3. \A r \in new : r.table = "roles" \/ r \in AdminAccount(s)
    BY <2>1
  <2> HIDE DEF new
  <2>4. \A r \in new : r.table = "roles" => HasParents(r, rows \cup new, Declared)
    BY FreeTables DEF HasParents
  <2>5. HasParents(Row("users", EmailOf[s], s), rows \cup new, Declared)
    BY FreeTables DEF HasParents, Row
  <2>6. HasParents(Row("user_roles", EmailOf[s], s), rows \cup new, Declared)
    <3>1. /\ Row("user_roles", EmailOf[s], s).table = "user_roles"
          /\ Row("user_roles", EmailOf[s], s).of = EmailOf[s]
          /\ Row("user_roles", EmailOf[s], s).by = s
          /\ Row("users", EmailOf[s], s).table = "users"
          /\ Row("users", EmailOf[s], s).of = EmailOf[s]
          /\ Row("users", EmailOf[s], s).by = s
      BY DEF Row
    <3> QED
      BY <2>1, <2>2, <3>1, FreeTables DEF HasParents
  <2>7. \A r \in AdminAccount(s) : r.table # "roles"
    BY DEF AdminAccount, Row
  <2>8. \A r \in new : HasParents(r, rows \cup new, Declared)
    BY <2>3, <2>4, <2>5, <2>6 DEF AdminAccount
  <2>9. \A r \in new : r.table = "roles" => r.of = Nothing
    BY <2>1, <2>7 DEF new
  <2> QED
    BY <1>2, <2>2, <2>8, <2>9, RootedAdd
<1> QED
  BY <1>1, <1>2 DEF CommitAdmin

LEMMA RootedInsert ==
  ASSUME Inv, Schemed, Rooted, NEW s \in Session, Open(s),
         NEW tables \in {{"fixtures", "live_match_states"}, {"announcements"}},
         Insert(s, tables)
  PROVE  Rooted'
<1> DEFINE added == {Row(t, job[s].of, s) : t \in tables}
           log == Row("audit_logs", Nothing, s)
<1>1. Ends(s) /\ rows' = IF Allowed(added, rows) THEN rows \cup added \cup {log} ELSE rows
  BY DEF Insert
<1>2. schema = Declared
  BY RootedSchema
<1>3. \A r \in added : r.table # "roles"
  BY DEF Row
<1>4. log.table = "audit_logs" /\ log.table # "roles"
  BY DEF Row
<1> HIDE DEF added, log
<1>5. CASE Allowed(added, rows)
  <2>1. \A r \in added : HasParents(r, rows \cup added, Declared)
    BY <1>2, <1>5 DEF Allowed
  <2>2. HasParents(log, rows \cup (added \cup {log}), Declared)
    BY <1>4, FreeTables DEF HasParents
  <2>3. \A r \in added \cup {log} : HasParents(r, rows \cup (added \cup {log}), Declared)
    BY <2>1, <2>2, MoreParents
  <2>4. rows' = rows \cup (added \cup {log})
    BY <1>1, <1>5
  <2>5. \A r \in added \cup {log} : r.table = "roles" => r.of = Nothing
    BY <1>3, <1>4
  <2> QED
    BY <1>1, <2>3, <2>4, <2>5, RootedAdd
<1>6. CASE ~Allowed(added, rows)
  BY <1>1, <1>6, RootedFail
<1> QED
  BY <1>5, <1>6

LEMMA RootedWork ==
  ASSUME Inv, Schemed, Rooted, NEW s \in Session, Work(s)
  PROVE  Rooted'
<1>1. job[s] \in JobType /\ job \in [Session -> JobType]
  BY DEF Inv, Typed
<1>2. \A r \in job[s].new : r.table = "roles" => r.of = Nothing
  BY DEF Rooted
<1>3. ASSUME NEW t \in JobType, Goes(s, t), rows' = rows, t.new = job[s].new,
             t.phase # "account"
      PROVE  Rooted'
  BY <1>2, <1>3, RootedGoes
<1>4. ASSUME NEW phase \in Phases \ {"account"}, NEW demo \in BOOLEAN, NEW of \in Owner,
             NEW gone \in SUBSET Seeding, rows' = rows,
             \/ Goes(s, [job[s] EXCEPT !.phase = phase, !.demo = demo])
             \/ Goes(s, [job[s] EXCEPT !.phase = phase, !.of = of])
             \/ Goes(s, [job[s] EXCEPT !.phase = phase, !.gone = gone])
             \/ Goes(s, [job[s] EXCEPT !.phase = phase])
      PROVE  Rooted'
  <2>1. PICK t \in JobType : t.new = job[s].new /\ t.phase = phase /\ Goes(s, t)
    <3>1. [job[s] EXCEPT !.phase = phase, !.demo = demo] \in JobType
      BY <1>1 DEF JobType
    <3>2. [job[s] EXCEPT !.phase = phase, !.of = of] \in JobType
      BY <1>1 DEF JobType
    <3>3. [job[s] EXCEPT !.phase = phase, !.gone = gone] \in JobType
      BY <1>1 DEF JobType
    <3>4. [job[s] EXCEPT !.phase = phase] \in JobType
      BY <1>1 DEF JobType
    <3> QED
      BY <1>1, <1>4, <3>1, <3>2, <3>3, <3>4 DEF JobType
  <2> QED
    BY <1>3, <1>4, <2>1
<1>5. FALSE \in BOOLEAN /\ Nothing \in Owner /\ {} \in SUBSET Seeding
  BY DEF Owner
<1>6. CASE Seed(s) \/ CreateAdmin(s)
  <2>1. PICK phase \in {"seeding", "creating"}, demo \in BOOLEAN :
          \/ Goes(s, [job[s] EXCEPT !.phase = phase, !.demo = demo])
          \/ Goes(s, [job[s] EXCEPT !.phase = phase])
    BY <1>5, <1>6 DEF Seed, CreateAdmin
  <2>2. rows' = rows /\ phase \in Phases \ {"account"}
    BY <1>6 DEF Seed, CreateAdmin, store, Phases
  <2> QED
    BY <1>4, <1>5, <2>1, <2>2
<1>7. CASE EnsureRoles(s)
  <2> DEFINE there == \E r \in rows : r.table = "roles"
             mine == {Row("roles", Nothing, s)}
             t == [job[s] EXCEPT
                     !.phase = IF @ = "seeding" THEN "selecting" ELSE "account",
                     !.new = IF there THEN {} ELSE mine]
  <2>1. mine \subseteq RowType /\ \A r \in mine : r.table = "roles" /\ r.of = Nothing
    BY <1>5, RowTyped DEF Filled
  <2>2. mine # {}
    OBVIOUS
  <2> HIDE DEF mine
  <2>3. /\ t \in JobType /\ t.new = IF there THEN {} ELSE mine
    BY <1>1, <2>1 DEF JobType, Phases
  <2>4. Goes(s, t) /\ rows' = rows
    BY <1>7 DEF EnsureRoles, store, mine
  <2> HIDE DEF t
  <2> QED
    BY <2>1, <2>2, <2>3, <2>4, RootedGoes
<1>8. CASE SelectSeason(s)
  <2>1. rows' = rows /\ {"dropped", "dropping"} \subseteq Phases \ {"account"}
    BY <1>8 DEF SelectSeason, store, Phases
  <2>2. \/ Goes(s, [job[s] EXCEPT !.phase = "dropped"])
        \/ \E x \in Seasons : Goes(s, [job[s] EXCEPT !.phase = "dropping", !.of = x])
    BY <1>8 DEF SelectSeason
  <2>3. Seasons \subseteq Owner
    BY DEF Inv, Typed, Owner
  <2> QED
    BY <1>4, <1>5, <2>1, <2>2, <2>3
<1>9. CASE DropSeason(s)
  <2>1. rows' = rows /\ "dropped" \in Phases \ {"account"}
    BY <1>9 DEF DropSeason, store, Phases
  <2>2. PICK gone \in SUBSET Seeding :
          Goes(s, [job[s] EXCEPT !.phase = "dropped", !.gone = gone])
    BY <1>9 DEF DropSeason, Inv, Typed
  <2> QED
    BY <1>4, <1>5, <2>1, <2>2
<1>10. CASE BuildSeason(s)
  <2>1. CASE Ends(s)
    BY <1>10, <2>1, RootedFail DEF BuildSeason, store
  <2>2. CASE ~Ends(s)
    <3> DEFINE new == {Row(t, s, s) : t \in SeedTables \cup
                                            (IF job[s].demo THEN DemoTables ELSE {})}
               others == current \ job[s].gone
               u == [job[s] EXCEPT !.phase = "built", !.demotes = others, !.new = @ \cup new]
    <3>1. Goes(s, u) /\ rows' = rows
      BY <1>10, <2>2 DEF BuildSeason, store
    <3>2. s \in Owner
      BY <1>10 DEF BuildSeason, At, Inv, Alone, Busy, Owner
    <3>3. new \subseteq RowType /\ \A r \in new : r.table # "roles"
      BY <3>2, RowTyped DEF Filled, SeedTables, DemoTables
    <3>4. others \subseteq Seeding
      BY DEF Inv, Typed
    <3> HIDE DEF new, others
    <3>5. job[s].new \cup new \in SUBSET RowType
      BY <1>1, <3>3 DEF JobType
    <3>6. u \in JobType /\ u.phase = "built" /\ u.new = job[s].new \cup new
      BY <1>1, <3>4, <3>5 DEF JobType, Phases
    <3> HIDE DEF u
    <3> QED
      BY <1>2, <3>1, <3>3, <3>6, RootedGoes
  <2> QED
    BY <2>1, <2>2
<1>11. CASE CommitSeed(s)
  BY <1>11, RootedCommit
<1>12. CASE CommitAdmin(s)
  BY <1>12, RootedAdmin
<1>13. CASE LoadSport(s) \/ LoadCurrent(s)
  <2>1. rows' = rows /\ {"adding", "announcing"} \subseteq Phases \ {"account"}
    BY <1>13 DEF LoadSport, LoadCurrent, store, Phases
  <2>2. PICK phase \in {"adding", "announcing"}, of \in Owner :
          Goes(s, [job[s] EXCEPT !.phase = phase, !.of = of])
    BY <1>13 DEF LoadSport, LoadCurrent, Inv, Typed, RowType, Owner
  <2> QED
    BY <1>4, <1>5, <2>1, <2>2
<1>14. CASE AddFixtures(s) \/ Announce(s)
  <2>1. PICK tables \in {{"fixtures", "live_match_states"}, {"announcements"}} :
          Open(s) /\ Insert(s, tables)
    BY <1>14 DEF AddFixtures, Announce, At, Open
  <2> QED
    BY <2>1, RootedInsert
<1>15. CASE Fail(s)
  BY <1>15, RootedFail DEF Fail, store
<1> QED
  BY <1>6, <1>7, <1>8, <1>9, <1>10, <1>11, <1>12, <1>13, <1>14, <1>15 DEF Work

(* downgrade() ends with nothing.                                          *)
LEMMA LastDropped ==
  ASSUME Inv, DropTable
  PROVE  \E possible, made :
           /\ Migrate(Len(Drops), possible, made) /\ ddl.op = "downgrade"
           /\ ~(ddl.step < Len(Drops)) => DOMAIN made = {}
<1> DEFINE table == Drops[ddl.step]
           made == [t \in DOMAIN ddl.made \ {table} |-> ddl.made[t]]
           possible == /\ table \in DOMAIN ddl.made
                       /\ \A t \in DOMAIN made : table \notin Parents(made, t)
<1>1. Migrate(Len(Drops), possible, made) /\ ddl.op = "downgrade"
  BY DEF DropTable
<1>2. /\ ddl.step \in 1 .. Len(Drops) /\ Len(Drops) = 39
      /\ \A t \in DOMAIN ddl.made : \E k \in ddl.step .. Len(Drops) : Drops[k] = t
  BY <1>1, DropNames DEF Inv, Tables
<1>3. ~(ddl.step < Len(Drops)) => DOMAIN made = {}
  <2> SUFFICES ASSUME ddl.step = 39 PROVE DOMAIN ddl.made \subseteq {table}
    BY <1>2
  <2> QED
    BY <1>2
<1> HIDE DEF made, table, possible
<1> QED
  BY <1>1, <1>3

(* A migration is of nothing, or to nothing.                               *)
LEMMA MigrationRows ==
  ASSUME Inv, Migration
  PROVE  rows' = rows \/ rows' = {}
<1>1. CASE StartMigration \/ StopMigration
  BY <1>1 DEF StartMigration, StopMigration, store
<1>2. CASE CreateTable
  <2>1. PICK possible, made : Migrate(Len(Creates), possible, made) /\ ddl.op = "upgrade"
    BY <1>2 DEF CreateTable
  <2>2. schema = NoTable
    BY <2>1 DEF Inv, Tables
  <2>3. rows = {}
    BY <2>2 DEF Inv, Tables
  <2> QED
    BY <2>1, <2>3 DEF Migrate, store
<1>3. CASE DropTable
  <2>1. PICK possible, made :
          /\ Migrate(Len(Drops), possible, made) /\ ddl.op = "downgrade"
          /\ ~(ddl.step < Len(Drops)) => DOMAIN made = {}
    BY <1>3, LastDropped
  <2> QED
    BY <2>1 DEF Migrate, store
<1> QED
  BY <1>1, <1>2, <1>3 DEF Migration

LEMMA RootedMigration ==
  ASSUME Inv, Schemed, Rooted, Migration
  PROVE  Rooted'
<1>1. job' = job /\ (rows' = rows \/ rows' = {})
  BY MigrationRows DEF Migration, StartMigration, CreateTable, DropTable, StopMigration
<1>2. ReferencesHold'
  BY <1>1 DEF Rooted, ReferencesHold
<1>3. \A s \in Session : ~Open(s)
  BY DEF Migration, StartMigration, CreateTable, DropTable, StopMigration, Inv, Alone
<1>4. \A s \in Session : ~At(s, "account")
  BY <1>3 DEF Open, At
<1> QED
  BY <1>1, <1>2, <1>4 DEF Rooted, At

(* No row is without what its table says it cannot be without: what a      *)
(* deleted season takes with it is all that refers to it, and who inserts  *)
(* later is refused.                                                       *)
THEOREM WholeRows == Spec => []ReferencesHold
<1>1. Init => Schemed /\ Rooted
  <2>1. Init => \A s \in Session : job[s].phase = "idle" /\ job[s].new = {}
    BY RestingTyped DEF Init
  <2> QED
    BY <2>1 DEF Init, Schemed, MigrationRuns, Idle, Rooted, ReferencesHold, At
<1>2. Inv /\ Schemed /\ Rooted /\ [Next]_vars => Schemed' /\ Rooted'
  <2>1. UNCHANGED vars /\ Schemed => Schemed'
    BY DEF Schemed, MigrationRuns, vars
  <2>2. UNCHANGED vars /\ Rooted => Rooted'
    BY DEF Rooted, ReferencesHold, At, vars, store
  <2>3. Inv /\ Schemed /\ Next => Schemed'
    BY MigrationSchemed, WorkSchema DEF Next, Schemed, MigrationRuns
  <2>4. Inv /\ Schemed /\ Rooted /\ Next => Rooted'
    BY RootedMigration, RootedWork DEF Next
  <2> QED
    BY <2>1, <2>2, <2>3, <2>4
<1> QED
  BY Invariance, <1>1, <1>2, PTL DEF Spec, Rooted

-----------------------------------------------------------------------------
(* R says who comes before whom in D, and Ahead who is before each.        *)
Orders(R, D) ==
  /\ \A d \in D : <<d, d>> \notin R
  /\ \A d, e, f \in D : <<d, e>> \in R /\ <<e, f>> \in R => <<d, f>> \in R
  /\ \A d, e \in D : d # e => <<d, e>> \in R \/ <<e, d>> \in R

Counts(place, Ahead, R, D) ==
  /\ place \in [D -> Int] /\ Ahead \in [D -> SUBSET D]
  /\ \A d, e \in D : e \in Ahead[d] <=> <<e, d>> \in R
  /\ \A d \in D : place[d] = 1 + Cardinality(Ahead[d])

LEMMA Places ==
  ASSUME NEW D, IsFiniteSet(D), NEW R, Orders(R, D),
         NEW place, NEW Ahead, Counts(place, Ahead, R, D)
  PROVE  /\ {place[d] : d \in D} = 1 .. Cardinality(D)
         /\ \A d, e \in D : <<d, e>> \in R => place[d] < place[e]
<1> USE DEF Orders, Counts
<1> DEFINE n == Cardinality(D)
<1>1. n \in Nat /\ Cardinality(1 .. n) = n /\ IsFiniteSet(1 .. n)
  <2>1. n \in Nat
    BY FS_CardinalityType
  <2> HIDE DEF n
  <2>2. /\ IsFiniteSet(1 .. n)
        /\ Cardinality(1 .. n) = IF 1 > n THEN 0 ELSE n - 1 + 1
    BY <2>1, FS_Interval
  <2> QED
    BY <2>1, <2>2
<1>2. ASSUME NEW d \in D
      PROVE  IsFiniteSet(Ahead[d]) /\ Cardinality(Ahead[d]) \in 0 .. n - 1
  <2>1. Ahead[d] \subseteq D \ {d}
    OBVIOUS
  <2>2. IsFiniteSet(D \ {d}) /\ Cardinality(D \ {d}) = n - 1
    BY FS_RemoveElement
  <2>3. IsFiniteSet(Ahead[d]) /\ Cardinality(Ahead[d]) <= n - 1
    BY <2>1, <2>2, FS_Subset
  <2>4. Cardinality(Ahead[d]) \in Nat
    BY <2>3, FS_CardinalityType
  <2> HIDE DEF n
  <2> QED
    BY <1>1, <2>3, <2>4
<1>3. \A d \in D : place[d] = 1 + Cardinality(Ahead[d])
  OBVIOUS
<1>4. ASSUME NEW d \in D, NEW e \in D, <<d, e>> \in R
      PROVE  place[d] < place[e]
  <2>1. Ahead[d] \subseteq Ahead[e] /\ d \in Ahead[e] /\ d \notin Ahead[d]
    BY <1>4
  <2>2. Ahead[d] # Ahead[e]
    BY <2>1
  <2>3. Cardinality(Ahead[d]) <= Cardinality(Ahead[e])
        /\ Cardinality(Ahead[d]) # Cardinality(Ahead[e])
    BY <1>2, <2>1, <2>2, FS_Subset
  <2>4. Cardinality(Ahead[d]) \in Int /\ Cardinality(Ahead[e]) \in Int
    BY <1>2
  <2> QED
    BY <1>3, <2>3, <2>4
<1> HIDE DEF n
<1>5. place \in [D -> 1 .. n]
  <2>1. \A d \in D : place[d] \in 1 .. n
    BY <1>1, <1>2, <1>3
  <2> QED
    BY <2>1
<1>6. place \in Injection(D, 1 .. n)
  <2>1. ASSUME NEW d \in D, NEW e \in D, place[d] = place[e] PROVE d = e
    <3>1. ~(place[d] < place[e]) /\ ~(place[e] < place[d])
      BY <2>1
    <3> QED
      BY <1>4, <3>1
  <2> QED
    BY <1>5, <2>1 DEF Injection, IsInjective
<1>7. place \in Surjection(D, 1 .. n)
  <2>1. Cardinality(D) = Cardinality(1 .. n)
    BY <1>1 DEF n
  <2> QED
    BY <1>1, <1>6, <2>1, FS_Injection
<1>8. {place[d] : d \in D} = 1 .. n
  <2>1. \A k \in 1 .. n : \E d \in D : place[d] = k
    BY <1>7 DEF Surjection
  <2>2. \A d \in D : place[d] \in 1 .. n
    BY <1>5
  <2> QED
    BY <2>1, <2>2
<1> QED
  BY <1>4, <1>8 DEF n

LEMMA LessKey ==
  ASSUME NEW k, NEW l, DOMAIN k = 1 .. 5
  PROVE  Less(k, l) <=>
           \/ k[1] < l[1]
           \/ k[1] = l[1] /\ k[2] < l[2]
           \/ k[1] = l[1] /\ k[2] = l[2] /\ k[3] < l[3]
           \/ k[1] = l[1] /\ k[2] = l[2] /\ k[3] = l[3] /\ k[4] < l[4]
           \/ k[1] = l[1] /\ k[2] = l[2] /\ k[3] = l[3] /\ k[4] = l[4] /\ k[5] < l[5]
<1>2. Less(k, l) <=> \E i \in 1 .. 5 : k[i] < l[i] /\ \A j \in 1 .. i - 1 : k[j] = l[j]
  BY DEF Less
<1>3. /\ (\A j \in 1 .. 1 - 1 : k[j] = l[j]) <=> TRUE
      /\ (\A j \in 1 .. 2 - 1 : k[j] = l[j]) <=> k[1] = l[1]
      /\ (\A j \in 1 .. 3 - 1 : k[j] = l[j]) <=> k[1] = l[1] /\ k[2] = l[2]
      /\ (\A j \in 1 .. 4 - 1 : k[j] = l[j]) <=> k[1] = l[1] /\ k[2] = l[2] /\ k[3] = l[3]
      /\ (\A j \in 1 .. 5 - 1 : k[j] = l[j]) <=>
           k[1] = l[1] /\ k[2] = l[2] /\ k[3] = l[3] /\ k[4] = l[4]
  OBVIOUS
<1>4. Less(k, l) <=> \/ k[1] < l[1] \/ (k[2] < l[2] /\ \A j \in 1 .. 2 - 1 : k[j] = l[j])
                     \/ (k[3] < l[3] /\ \A j \in 1 .. 3 - 1 : k[j] = l[j])
                     \/ (k[4] < l[4] /\ \A j \in 1 .. 4 - 1 : k[j] = l[j])
                     \/ (k[5] < l[5] /\ \A j \in 1 .. 5 - 1 : k[j] = l[j])
  BY <1>2, <1>3
<1> QED
  BY <1>3, <1>4

LEMMA TotalInt ==
  ASSUME NEW tally, IsTally(tally), NEW d \in DOMAIN tally,
         NEW values \in [gold : Int, silver : Int, bronze : Int]
  PROVE  /\ Total(tally[d], values) \in Int
         /\ tally[d].gold \in Int /\ tally[d].silver \in Int /\ tally[d].bronze \in Int
         /\ d \in Int
<1>1. /\ tally[d].gold \in Nat /\ tally[d].silver \in Nat /\ tally[d].bronze \in Nat
      /\ d \in Int
  BY DEF IsTally
<1>2. /\ tally[d].gold * values.gold \in Int /\ tally[d].silver * values.silver \in Int
      /\ tally[d].bronze * values.bronze \in Int
  <2>1. \A i, j \in Int : i * j \in Int
    OBVIOUS
  <2> QED
    BY <1>1, <2>1
<1> QED
  BY <1>1, <1>2 DEF Total

(* The table ranks every department once, by points, then the medals.      *)
LEMMA TableRanked ==
  ASSUME NEW tally, IsTally(tally), NEW values \in [gold : Int, silver : Int, bronze : Int]
  PROVE  Ranked(ComputeMedalTable(tally, values))
<1> DEFINE D == DOMAIN tally
           T(d) == Total(tally[d], values)
           g(d) == tally[d].gold
           s(d) == tally[d].silver
           b(d) == tally[d].bronze
           R == {p \in D \X D : Less(Key(p[1], tally, values), Key(p[2], tally, values))}
           board == ComputeMedalTable(tally, values)
           ahead == [d \in D |-> {e \in D : <<e, d>> \in R}]
           place == [d \in D |-> 1 + Cardinality(ahead[d])]
<1>1. \A d \in D : T(d) \in Int /\ g(d) \in Int /\ s(d) \in Int /\ b(d) \in Int /\ d \in Int
  BY TotalInt
<1>2. \A d \in D : Key(d, tally, values) = <<-T(d), -g(d), -s(d), -b(d), d>>
  BY DEF Key
<1> HIDE DEF T, g, s, b
<1>3. \A d, e \in D : <<d, e>> \in R <=>
           \/ T(d) > T(e)
           \/ T(d) = T(e) /\ g(d) > g(e)
           \/ T(d) = T(e) /\ g(d) = g(e) /\ s(d) > s(e)
           \/ T(d) = T(e) /\ g(d) = g(e) /\ s(d) = s(e) /\ b(d) > b(e)
           \/ T(d) = T(e) /\ g(d) = g(e) /\ s(d) = s(e) /\ b(d) = b(e) /\ d < e
  <2> TAKE d, e \in D
  <2> DEFINE k == Key(d, tally, values)
             l == Key(e, tally, values)
  <2>1. <<d, e>> \in R <=> Less(k, l)
    OBVIOUS
  <2>2. /\ DOMAIN k = 1 .. 5
        /\ k[1] = -T(d) /\ k[2] = -g(d) /\ k[3] = -s(d) /\ k[4] = -b(d) /\ k[5] = d
        /\ l[1] = -T(e) /\ l[2] = -g(e) /\ l[3] = -s(e) /\ l[4] = -b(e) /\ l[5] = e
    BY <1>2
  <2> HIDE DEF R, k, l
  <2>3. Less(k, l) <=>
           \/ k[1] < l[1]
           \/ k[1] = l[1] /\ k[2] < l[2]
           \/ k[1] = l[1] /\ k[2] = l[2] /\ k[3] < l[3]
           \/ k[1] = l[1] /\ k[2] = l[2] /\ k[3] = l[3] /\ k[4] < l[4]
           \/ k[1] = l[1] /\ k[2] = l[2] /\ k[3] = l[3] /\ k[4] = l[4] /\ k[5] < l[5]
    BY <2>2, LessKey
  <2>4. /\ T(d) \in Int /\ g(d) \in Int /\ s(d) \in Int /\ b(d) \in Int /\ d \in Int
        /\ T(e) \in Int /\ g(e) \in Int /\ s(e) \in Int /\ b(e) \in Int /\ e \in Int
    BY <1>1
  <2> QED
    BY <2>1, <2>2, <2>3, <2>4
<1>5. /\ DOMAIN board = D
      /\ \A d \in D : /\ board[d].medals = tally[d] /\ board[d].total = T(d)
                      /\ board[d].position = place[d]
  <2>1. \A d \in D : {e \in D : Less(Key(e, tally, values), Key(d, tally, values))} =
                     ahead[d]
    OBVIOUS
  <2>2. board = [d \in D |->
          [medals |-> tally[d], total |-> T(d),
           position |-> 1 + Cardinality({e \in D :
                              Less(Key(e, tally, values), Key(d, tally, values))})]]
    BY DEF ComputeMedalTable, T
  <2> HIDE DEF board, R, ahead
  <2> QED
    BY <2>1, <2>2
<1> HIDE DEF R, board
<1>6. \A d \in D : <<d, d>> \notin R
  BY <1>1, <1>3
<1>7. \A d, e, f \in D : <<d, e>> \in R /\ <<e, f>> \in R => <<d, f>> \in R
  BY <1>1, <1>3
<1>8. \A d, e \in D : d # e => <<d, e>> \in R \/ <<e, d>> \in R
  BY <1>1, <1>3
<1>9. IsFiniteSet(D)
  BY DEF IsTally
<1> HIDE DEF D
<1>10. /\ {place[d] : d \in D} = 1 .. Cardinality(D)
       /\ \A d, e \in D : <<d, e>> \in R => place[d] < place[e]
  <2>1. /\ ahead \in [D -> SUBSET D]
        /\ \A d, e \in D : e \in ahead[d] <=> <<e, d>> \in R
    OBVIOUS
  <2> HIDE DEF ahead
  <2>2. \A d \in D : Cardinality(ahead[d]) \in Int
    <3>1. \A d \in D : IsFiniteSet(ahead[d])
      BY <1>9, <2>1, FS_Subset
    <3> QED
      BY <3>1, FS_CardinalityType
  <2>3. place \in [D -> Int] /\ \A d \in D : place[d] = 1 + Cardinality(ahead[d])
    BY <2>2
  <2> HIDE DEF place
  <2>4. Orders(R, D) /\ Counts(place, ahead, R, D)
    BY <1>6, <1>7, <1>8, <2>1, <2>3 DEF Orders, Counts
  <2> QED
    BY <1>9, <2>4, Places
<1> HIDE DEF place
<1>11. {board[d].position : d \in D} = {place[d] : d \in D}
  BY <1>5
<1>12. ASSUME NEW d \in D, NEW e \in D,
              \/ board[d].total > board[e].total
              \/ /\ board[d].total = board[e].total
                 /\ board[d].medals.gold > board[e].medals.gold
              \/ /\ board[d].total = board[e].total
                 /\ board[d].medals.gold = board[e].medals.gold
                 /\ board[d].medals.silver > board[e].medals.silver
       PROVE  board[d].position < board[e].position
  <2>1. /\ board[d].total = T(d) /\ board[e].total = T(e)
        /\ board[d].medals.gold = g(d) /\ board[e].medals.gold = g(e)
        /\ board[d].medals.silver = s(d) /\ board[e].medals.silver = s(e)
    BY <1>5 DEF g, s
  <2>2. <<d, e>> \in R
    BY <1>3, <1>12, <2>1
  <2> QED
    BY <1>5, <1>10, <2>2
<1>13. Ranked(board)
  BY <1>5, <1>10, <1>11, <1>12 DEF Ranked
<1> QED
  BY <1>13 DEF board

-----------------------------------------------------------------------------
(* There are points of every season, worked out from medals.               *)
Scored ==
  /\ DOMAIN points = Seasons
  /\ \A x \in DOMAIN points :
       \E tally \in Tallies : points[x] = ComputeMedalTable(tally, Points)

LEMMA ScoredRanked == ASSUME Scored PROVE MedalsRanked
<1>1. DefaultPoints \in [gold : Int, silver : Int, bronze : Int]
  BY DEF DefaultPoints
<1>2. ASSUME NEW x \in Seasons
      PROVE  /\ Ranked(points[x]) /\ Ranked(PublicTable(x))
             /\ Points = DefaultPoints => PublicTable(x) = points[x]
  <2>1. PICK tally \in Tallies : points[x] = ComputeMedalTable(tally, Points)
    BY DEF Scored
  <2>2. IsTally(tally) /\ Points \in [gold : Int, silver : Int, bronze : Int]
    BY TalliesAssumption, PointsAssumption
  <2>3. /\ DOMAIN points[x] = DOMAIN tally
        /\ \A d \in DOMAIN tally : points[x][d].medals = tally[d]
    BY <2>1 DEF ComputeMedalTable
  <2>4. tally = [d \in DOMAIN tally |-> tally[d]]
    BY <2>2 DEF IsTally
  <2>5. [d \in DOMAIN points[x] |-> points[x][d].medals] = tally
    BY <2>3, <2>4
  <2>6. PublicTable(x) = ComputeMedalTable(tally, DefaultPoints)
    BY <2>5 DEF PublicTable
  <2> QED
    BY <1>1, <2>1, <2>2, <2>6, TableRanked
<1> QED
  BY <1>2 DEF MedalsRanked, Scored

LEMMA AddedSeasons ==
  ASSUME NEW new, rows' = rows \cup new, \A r \in new : r.table # "tournaments"
  PROVE  Seasons' = Seasons
BY DEF Seasons

LEMMA ScoredWork ==
  ASSUME Inv, Scored, NEW s \in Session, Work(s)
  PROVE  Scored'
<1>1. CASE CommitSeed(s)
  <2>1. Seasons' = (Seasons \ job[s].gone) \cup {s}
    BY <1>1, CommitInv
  <2>2. PICK tally \in Tallies :
          points' = [x \in (DOMAIN points \ job[s].gone) \cup {s} |->
                       IF x = s THEN ComputeMedalTable(tally, Points) ELSE points[x]]
    BY <1>1 DEF CommitSeed
  <2> QED
    BY <2>1, <2>2 DEF Scored
<1>2. ASSUME points' = points, Seasons' = Seasons PROVE Scored'
  BY <1>2 DEF Scored
<1>3. CASE CommitAdmin(s)
  <2>1. \A r \in job[s].new \cup AdminAccount(s) : r.table # "tournaments"
    <3>1. \A r \in job[s].new : r.table # "tournaments"
      BY <1>3 DEF CommitAdmin, Inv, Alone, At
    <3>2. \A r \in AdminAccount(s) : r.table # "tournaments"
      BY DEF AdminAccount, Row
    <3> QED
      BY <3>1, <3>2
  <2>2. points' = points
    BY <1>3 DEF CommitAdmin
  <2>3. \/ rows' = rows
        \/ rows' = rows \cup (job[s].new \cup AdminAccount(s))
    BY <1>3 DEF CommitAdmin
  <2>4. Seasons' = Seasons
    BY <2>1, <2>3, AddedSeasons DEF Seasons
  <2> QED
    BY <1>2, <2>2, <2>4
<1>4. CASE AddFixtures(s) \/ Announce(s)
  <2>1. PICK tables \in {{"fixtures", "live_match_states"}, {"announcements"}} :
          Insert(s, tables)
    BY <1>4 DEF AddFixtures, Announce
  <2> DEFINE new == {Row(t, job[s].of, s) : t \in tables} \cup {Row("audit_logs", Nothing, s)}
  <2>2. \A r \in new : r.table # "tournaments"
    BY DEF Row
  <2>3. rows' = rows \/ rows' = rows \cup new
    BY <2>1 DEF Insert
  <2> HIDE DEF new
  <2>4. Seasons' = Seasons
    BY <2>2, <2>3, AddedSeasons DEF Seasons
  <2>5. points' = points
    BY <2>1 DEF Insert
  <2> QED
    BY <1>2, <2>4, <2>5
<1>5. CASE rows' = rows /\ points' = points
  BY <1>2, <1>5 DEF Seasons
<1> QED
  BY <1>1, <1>3, <1>4, <1>5
     DEF Work, Seed, EnsureRoles, SelectSeason, DropSeason, BuildSeason, CreateAdmin,
         LoadSport, LoadCurrent, Fail, store

LEMMA ScoredMigration ==
  ASSUME Inv, Schemed, Scored, Migration
  PROVE  Scored'
<1>1. CASE rows' = rows /\ points' = points
  BY <1>1 DEF Scored, Seasons
<1>2. CASE rows' = {} /\ DOMAIN points' = {}
  BY <1>2 DEF Scored, Seasons
<1>3. CASE StartMigration \/ StopMigration
  BY <1>1, <1>3 DEF StartMigration, StopMigration, store
<1>4. CASE CreateTable
  <2>1. PICK possible, made : Migrate(Len(Creates), possible, made) /\ ddl.op = "upgrade"
    BY <1>4 DEF CreateTable
  <2>2. schema = NoTable
    BY <2>1 DEF Inv, Tables
  <2>3. rows = {}
    BY <2>2 DEF Inv, Tables
  <2>4. DOMAIN points = {}
    BY <2>3 DEF Scored, Seasons
  <2> QED
    BY <1>1, <1>2, <2>1, <2>3, <2>4 DEF Migrate, store
<1>5. CASE DropTable
  <2>1. PICK possible, made :
          /\ Migrate(Len(Drops), possible, made) /\ ddl.op = "downgrade"
          /\ ~(ddl.step < Len(Drops)) => DOMAIN made = {}
    BY <1>5, LastDropped
  <2> QED
    BY <1>1, <1>2, <2>1 DEF Migrate, store
<1> QED
  BY <1>3, <1>4, <1>5 DEF Migration

(* Every department of every season has a place of its own, by points and  *)
(* then by medals, in the table that is stored and in the one that the     *)
(* public page works out, and the two are one while the points are the     *)
(* default ones, whatever the medals are.                                  *)
THEOREM MedalTables == Spec => []MedalsRanked
<1>1. Init => Schemed /\ Scored
  BY DEF Init, Schemed, MigrationRuns, Idle, Scored, Seasons
<1>2. Inv /\ Schemed /\ Scored /\ [Next]_vars => Schemed' /\ Scored'
  <2>1. UNCHANGED vars /\ Schemed /\ Scored => Schemed' /\ Scored'
    BY DEF Schemed, MigrationRuns, Scored, Seasons, vars, store
  <2>2. Inv /\ Schemed /\ Next => Schemed'
    BY MigrationSchemed, WorkSchema DEF Next, Schemed, MigrationRuns
  <2>3. Inv /\ Schemed /\ Scored /\ Next => Scored'
    BY ScoredMigration, ScoredWork DEF Next
  <2> QED
    BY <2>1, <2>2, <2>3
<1> QED
  BY Invariance, <1>1, <1>2, ScoredRanked, PTL DEF Spec

=============================================================================

----------------------------- MODULE MCDatabase -----------------------------
(* The two uses of the database that share no row both of them change: the *)
(* migrations and seeds (Season), which keep an account that is there, and *)
(* an account in use (Sessions).  A behaviour is one of the one part or of *)
(* the other.                                                              *)
EXTENDS Season, Sessions, TLC

CONSTANTS
  s1, s2, s3, s4,        \* s1 and s2 seed one season, s3 another, s4 is a request
  r1, r2, r3, r4, p1, p2

VARIABLE part

Symmetry == Permutations(Request) \cup Permutations(Password)

MCSlugOf == [s \in Seeding |-> IF s = s3 THEN "next" ELSE "2026"]
MCEmailOf == [s \in Seeding \cup Creating |-> "admin"]

(* Four departments: a leader, and three with the points of two silvers    *)
(* and a bronze, of whom two have the same medals.                         *)
Won(gold, silver, bronze) == [gold |-> gold, silver |-> silver, bronze |-> bronze]
MCTallies == {(1 :> Won(1, 0, 0)) @@ (2 :> Won(0, 2, 1)) @@ (3 :> Won(0, 1, 3))
                                  @@ (4 :> Won(0, 1, 3))}
MCPoints == [gold |-> 5, silver |-> 2, bronze |-> 1]

MCInit ==
  /\ Init /\ AccountInit
  /\ part \in {"account", "season"}
  /\ part = "season" => user.fresh

OfAccount == part = "account" /\ UNCHANGED <<vars, part>>
OfSeason == part = "season" /\ UNCHANGED <<account, part>>

(* The database is taken down again once all sessions have ended.          *)
DownAtTheEnd ==
  schema # NoTable /\ ddl'.op = "downgrade" => \A s \in Session : At(s, "ended")

MCNext ==
  \/ \E r \in Request :
       \/ OfAccount /\ Login(r)
       \/ OfAccount /\ LoginPasses(r)
       \/ OfAccount /\ LoginFails(r)
       \/ OfAccount /\ Refresh(r)
       \/ OfAccount /\ Rotate(r)
       \/ OfAccount /\ Logout(r)
       \/ OfAccount /\ Forget(r)
       \/ OfAccount /\ ChangePassword(r)
       \/ OfAccount /\ SelectTokens(r)
       \/ OfAccount /\ CommitChange(r)
  \/ OfAccount /\ Expire
  \/ OfAccount /\ Unlock
  \/ OfSeason /\ StartMigration /\ DownAtTheEnd
  \/ OfSeason /\ CreateTable
  \/ OfSeason /\ DropTable
  \/ OfSeason /\ StopMigration
  \/ \E s \in Session :
       \/ OfSeason /\ Seed(s)
       \/ OfSeason /\ EnsureRoles(s)
       \/ OfSeason /\ SelectSeason(s)
       \/ OfSeason /\ DropSeason(s)
       \/ OfSeason /\ BuildSeason(s)
       \/ OfSeason /\ CommitSeed(s)
       \/ OfSeason /\ CreateAdmin(s)
       \/ OfSeason /\ CommitAdmin(s)
       \/ OfSeason /\ LoadSport(s)
       \/ OfSeason /\ LoadCurrent(s)
       \/ OfSeason /\ AddFixtures(s)
       \/ OfSeason /\ Announce(s)
       \/ OfSeason /\ Fail(s)

MCSpec == MCInit /\ [][MCNext]_<<vars, account, part>>
=============================================================================

-------------------------- MODULE MCFixtureTables --------------------------
(* The users and the first rows of the small instances. *)
EXTENDS FixtureTables

CONSTANTS admin, official

MCAdmins == {admin}
MCOfficials == {official}

ARow(status, version, user) ==
  [status |-> status, version |-> version, official |-> user,
   published |-> IF status = "DRAFT" THEN "hidden" ELSE "public",
   plan |-> 0]
ALive(version) == [score |-> 0, period |-> 0, version |-> version]

(* create_fixture, unpublished and published; the seed (no live row). *)
Draft     == [row |-> ARow("DRAFT", 0, official), live |-> ALive(0)]
Scheduled == [row |-> ARow("SCHEDULED", 0, official), live |-> ALive(0)]
Seeded    == [row |-> ARow("SCHEDULED", 0, NoUser), live |-> NoLive]

(* Where requests served one at a time lead from there: a seeded fixture   *)
(* given its official, and resumed; one started, paused, completed.        *)
Given     == [row |-> ARow("SCHEDULED", 0, official), live |-> NoLive]
Bare      == [row |-> ARow("LIVE", 1, official), live |-> NoLive]
Running   == [row |-> ARow("LIVE", 1, official), live |-> ALive(1)]
Paused    == [row |-> ARow("PAUSED", 2, official), live |-> ALive(2)]
Finished  == [row |-> ARow("COMPLETED", 2, official), live |-> ALive(2)]

NewFixtures == {Draft, Scheduled, Seeded}
AnyFixture  == NewFixtures \cup {Given, Bare, Running, Paused, Finished}
OnlyRunning == {Running}
GivenOrRunning == {Given, Running}

BothDeltas == {-1, 1}
=============================================================================

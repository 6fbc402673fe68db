----------------------------- MODULE MCEventBus -----------------------------
(* Two followers of the global feed on two instances, and one of a fixture *)
(* on the second; two events are of that fixture, one of none.             *)
EXTENDS EventBus, TLC

CONSTANTS i1, i2, c1, c2, c3, e1, e2, e3, x1, NoFixture

OneInstance == {i1}
TwoInstances == {i1, i2}
TwoClients == {c1, c2}
LiveAndRoom == {c1, c3}
TwoEvents == {e1, e2}
ThreeEvents == {e1, e2, e3}

MCFixtureOf == (e1 :> x1) @@ (e2 :> NoFixture) @@ (e3 :> x1)
MCRoomOf == (c1 :> Live) @@ (c2 :> Live) @@ (c3 :> x1)
Spread == (c1 :> i1) @@ (c2 :> i2) @@ (c3 :> i2)
Together == (c1 :> i1) @@ (c2 :> i1) @@ (c3 :> i1)
=============================================================================

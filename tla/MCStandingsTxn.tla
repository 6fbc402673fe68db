--------------------------- MODULE MCStandingsTxn ---------------------------
(* Two groups of one sport: two matches in the first, and in the second    *)
(* one that has no teams yet; and a match of no group.                     *)
(* Two requests for any routes, or three that rebuild; each combination    *)
(* comes once, since it does not matter which request is which.            *)
EXTENDS StandingsTxn, TLC, Naturals, Sequences

CONSTANTS r1, r2, r3, f1, f2, f3, f4, g1, g2

TwoFixtures == {f1, f2}
FourFixtures == {f1, f2, f3, f4}
WithTeams == {f1, f2, f3}
MCGroups == {g1, g2}
BothInFirst == (f1 :> g1) @@ (f2 :> g1)
AllGroups == BothInFirst @@ (f3 :> NoGroup) @@ (f4 :> g2)

ThreeRequests == {r1, r2, r3}

Order == <<"complete", "correct", "cancel", "reopen", "delete">>

Come(a, b, c) == (r1 :> a) @@ (r2 :> b) @@ (r3 :> c)

Pairs == UNION {{Come(Order[i], Order[j], "none") : j \in i .. Len(Order)} :
                  i \in DOMAIN Order}
Trios == {Come("complete", "complete", "complete"),
          Come("complete", "complete", "cancel")}

PairsAndTrios == Pairs \cup Trios
TwoResults == {Come("complete", "complete", "none")}

(* One match of the first group has a goal, the other none or no live row; *)
(* the other two matches, which no table shows, are under review.  Three   *)
(* requests come to matches without a result, all with their teams.        *)
FewOrigins ==
  /\ score[f1] \in {NoLive, 0} /\ score[f2] = 1 /\ score[f3] = 0 /\ score[f4] = 0
  /\ status[f1] # Gone /\ status[f2] # Gone /\ status[f3] = "UNDER_REVIEW"
  /\ IF \A r \in Request : At(r, "new")
     THEN /\ \A f \in Fixtures : status[f] \notin Counting /\ score[f] # NoLive
          /\ status[f4] = Gone
     ELSE status[f4] = "UNDER_REVIEW"

BoundedInit == Init /\ FewOrigins

BoundedSpec == BoundedInit /\ [][Next]_vars /\ Fairness

(* The standings are there, and so are the live rows of both matches.      *)
PreparedInit == Init /\ standings = Groups /\ \A f \in Fixtures : score[f] # NoLive

PreparedSpec == PreparedInit /\ [][Next]_vars /\ Fairness
=============================================================================

---------------------------- MODULE MCFixtureTxn ----------------------------
(* Two requests for any routes on one fixture, or three for routes that    *)
(* are contended.  Which request comes for which route of a pair does not  *)
(* matter, so each pair comes once.                                        *)
EXTENDS FixtureTxn, MCFixtureTables, TLC, Sequences

CONSTANTS r1, r2, r3

ThreeRequests == {r1, r2, r3}

Order == <<"start", "score", "event", "period", "pause", "resume", "complete",
           "reopen", "correct", "postpone", "cancel", "patch", "reschedule",
           "delete">>

Come(a, b, c) == (r1 :> a) @@ (r2 :> b) @@ (r3 :> c)

Pairs == UNION {{Come(Order[i], Order[j], "none") : j \in i .. Len(Order)} :
                  i \in DOMAIN Order}
Trios == {Come("start", "start", "delete"), Come("start", "delete", "delete"),
          Come("start", "pause", "delete"), Come("pause", "pause", "delete"),
          Come("start", "score", "delete")}

PairsAndTrios == Pairs \cup Trios
TwoScores == {Come("score", "score", "none")}

(* Three come to a fixture that has no live row yet, or has one.           *)
FewOrigins ==
  (\A r \in Request : At(r, "new")) => [row |-> row, live |-> live] \in GivenOrRunning

BoundedInit == Init /\ FewOrigins

BoundedSpec == BoundedInit /\ [][Next]_vars /\ Fairness
=============================================================================

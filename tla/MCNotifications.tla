-------------------------- MODULE MCNotifications --------------------------
(* Bound: two of everything, but four new events, coming requests and      *)
(* registered browsers in all.                                             *)
EXTENDS Notifications

CONSTANTS b1, b2, k1, k2, t1, t2, w1, w2, r1, r2

MCTopicOf == [k \in Key |-> IF k = k1 THEN t1 ELSE t2]
MCWishes == {{t1, UrgentOnly}}

Load ==
  <<{k \in Key : event[k] = "none"}, {s[1] : s \in subs}, {r \in Request : At(r, "idle")}>>

MCInit ==
  /\ Init
  /\ Load \in {<<{k1, k2}, {b1}, {}>>, <<{k2}, {b1, b2}, {r1}>>, <<{k2}, {b1}, {r1, r2}>>}

MCSpec == MCInit /\ [][Next]_vars /\ Fairness
=============================================================================

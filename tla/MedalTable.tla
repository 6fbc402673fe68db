---------------------------- MODULE MedalTable ----------------------------
(***************************************************************************)
(* The medal table (app/services/medal_table.py).  A tally is a record of  *)
(* medals; participation, bonus and penalty points, which nothing sets,    *)
(* are left out, and floats are integers.  Departments are integers, the   *)
(* order of their ids.                                                     *)
(***************************************************************************)
EXTENDS Integers, FiniteSets

DefaultPoints == [gold |-> 5, silver |-> 2, bronze |-> 1]

(* Medals won, by department.                                              *)
IsTally(tally) ==
  /\ tally \in [DOMAIN tally -> [gold : Nat, silver : Nat, bronze : Nat]]
  /\ DOMAIN tally \subseteq Int /\ IsFiniteSet(DOMAIN tally)

Total(t, points) ==
  t.gold * points.gold + t.silver * points.silver + t.bronze * points.bronze

(* The sort key: by total, gold, silver and bronze, most first, then id.   *)
Key(d, tally, points) ==
  <<-Total(tally[d], points), -tally[d].gold, -tally[d].silver, -tally[d].bronze, d>>

Less(k, l) ==
  \E i \in DOMAIN k : k[i] < l[i] /\ \A j \in 1 .. i - 1 : k[j] = l[j]

SharedPlaces(tally, points) ==   \* mutant: departments with equal totals share a place
  [d \in DOMAIN tally |->
     [medals |-> tally[d], total |-> Total(tally[d], points),
      position |-> 1 + Cardinality({e \in DOMAIN tally :
                         Total(tally[e], points) > Total(tally[d], points)})]]

(* compute_medal_table, by department: its row, with its place in the      *)
(* sorted list.                                                            *)
ComputeMedalTable(tally, points) ==
  [d \in DOMAIN tally |->
     [medals |-> tally[d], total |-> Total(tally[d], points),
      position |-> 1 + Cardinality({e \in DOMAIN tally :
                         Less(Key(e, tally, points), Key(d, tally, points))})]]
=============================================================================

----------------------------- MODULE Standings -----------------------------
(***************************************************************************)
(* compute_table of app/services/standings.py: the table of one group from *)
(* the results of its fixtures.  Results come one at a time here, so that  *)
(* the table can be compared with the one before.                          *)
(*                                                                         *)
(* Team ids are numbers, in the order of str(team_id).                     *)
(***************************************************************************)
EXTENDS Integers, Sequences, FiniteSets, FiniteSetsExt

CONSTANTS
  Team,            \* members of the group
  Guest,           \* teams of other groups
  Win, Draw, Loss, \* points
  TieBreakerLists, \* values of rules.tie_breakers
  Goals,           \* goals a team may score
  MaxResults       \* bound: results of the group

ASSUME TeamAssumption == Team \subseteq Nat /\ IsFiniteSet(Team) /\ Guest \subseteq Nat
ASSUME PointsAssumption == {Win, Draw, Loss} \subseteq Int
ASSUME GoalsAssumption == Goals \subseteq Nat
ASSUME TieBreakersAssumption ==
  \A tb \in TieBreakerLists :
    tb \in Seq({"points", "gd", "gf", "head_to_head", "admin"})

(* What every row of sport_rules has: the seed writes 3, 1, 0, and nothing *)
(* writes tie_breakers but its default, which starts with points.          *)
ASSUME RulesAssumption ==
  /\ Win > Loss /\ Win > 0
  /\ \A tb \in TieBreakerLists : tb # <<>> /\ tb[1] = "points"

VARIABLES tie_breakers, results

vars == <<tie_breakers, results>>

MatchResult ==
  {r \in [home : Team \cup Guest, away : Team \cup Guest,
          home_score : Goals, away_score : Goals] : r.home # r.away}

BlankRow == [played |-> 0, won |-> 0, drawn |-> 0, lost |-> 0,
             goals_for |-> 0, goals_against |-> 0]

(* One side of a result. *)
Tally(row, gf, ga) ==
  [row EXCEPT !.played = @ + 1,
              !.goals_for = @ + gf,
              !.goals_against = @ + ga,
              !.won = IF gf > ga THEN @ + 1 ELSE @,
              !.drawn = IF gf = ga THEN @ + 1 ELSE @,
              !.lost = IF gf < ga THEN @ + 1 ELSE @]

PlayHomeTwice(rows, r) ==   \* mutant: the away row gets the home view
  IF {r.home, r.away} \subseteq Team
  THEN [rows EXCEPT ![r.home] = Tally(@, r.home_score, r.away_score),
                    ![r.away] = Tally(@, r.home_score, r.away_score)]
  ELSE rows

Play(rows, r) ==
  IF {r.home, r.away} \subseteq Team
  THEN [rows EXCEPT ![r.home] = Tally(@, r.home_score, r.away_score),
                    ![r.away] = Tally(@, r.away_score, r.home_score)]
  ELSE rows

Rows(rs) ==
  LET rows[n \in 0 .. Len(rs)] ==
        IF n = 0 THEN [t \in Team |-> BlankRow] ELSE Play(rows[n - 1], rs[n])
  IN rows[Len(rs)]

Points(row) == row.won * Win + row.drawn * Draw + row.lost * Loss
GoalDifference(row) == row.goals_for - row.goals_against

PointsOf(gf, ga) ==
  CASE gf > ga -> Win [] gf = ga -> Draw [] gf < ga -> Loss

(* Points of t in the matches among the tied teams. *)
Earned(t, r) ==
  IF r.home = t THEN PointsOf(r.home_score, r.away_score)
  ELSE PointsOf(r.away_score, r.home_score)

Between(t, tied, r) == {r.home, r.away} \subseteq tied /\ t \in {r.home, r.away}

HeadToHeadOfAll(t, tied, rs) ==   \* mutant: matches with others count
  LET pts[n \in 0 .. Len(rs)] ==
        IF n = 0 THEN 0
        ELSE pts[n - 1] + (IF t \in {rs[n].home, rs[n].away} THEN Earned(t, rs[n]) ELSE 0)
  IN pts[Len(rs)]

HeadToHeadOfLast(t, tied, rs) ==  \* mutant: assigns instead of adding
  LET pts[n \in 0 .. Len(rs)] ==
        CASE n = 0 -> 0
          [] n > 0 /\ Between(t, tied, rs[n]) -> Earned(t, rs[n])
          [] n > 0 /\ ~Between(t, tied, rs[n]) -> pts[n - 1]
  IN pts[Len(rs)]

HeadToHead(t, tied, rs) ==
  LET pts[n \in 0 .. Len(rs)] ==
        IF n = 0 THEN 0
        ELSE pts[n - 1] + (IF Between(t, tied, rs[n]) THEN Earned(t, rs[n]) ELSE 0)
  IN pts[Len(rs)]

(* The tied teams are those with the same points, whatever the criteria    *)
(* before head_to_head say.                                                *)
Tied(rows, t) == {u \in Team : Points(rows[u]) = Points(rows[t])}

CriterionAscending(tb, rows, t, rs) ==   \* mutant: a sign is lost
  CASE tb = "points" -> Points(rows[t])
    [] tb = "gd" -> -GoalDifference(rows[t])
    [] tb = "gf" -> -rows[t].goals_for
    [] tb = "head_to_head" -> -HeadToHead(t, Tied(rows, t), rs)
    [] tb = "admin" -> t

Criterion(tb, rows, t, rs) ==
  CASE tb = "points" -> -Points(rows[t])
    [] tb = "gd" -> -GoalDifference(rows[t])
    [] tb = "gf" -> -rows[t].goals_for
    [] tb = "head_to_head" -> -HeadToHead(t, Tied(rows, t), rs)
    [] tb = "admin" -> t

SortKey(rows, t, rs) ==
  [i \in DOMAIN tie_breakers |-> Criterion(tie_breakers[i], rows, t, rs)] \o <<t>>

(* Order of Python tuples. *)
Less(k, l) == \E i \in DOMAIN k : k[i] < l[i] /\ \A j \in 1..(i - 1) : k[j] = l[j]

(* The sorted keys, each of which ends with its team. *)
ComputeTable(rs) ==
  LET rows == Rows(rs)
      keys == {SortKey(rows, t, rs) : t \in Team}
      Place(k) == 1 + Cardinality({l \in keys : Less(l, k)})
  IN [i \in 1 .. Cardinality(keys) |->
        LET k == CHOOSE k \in keys : Place(k) = i IN k[Len(k)]]

-----------------------------------------------------------------------------
Init == tie_breakers \in TieBreakerLists /\ results = <<>>

AddResult ==
  /\ Len(results) < MaxResults
  /\ \E r \in MatchResult : results' = Append(results, r)
  /\ UNCHANGED tie_breakers

Next == AddResult

Spec == Init /\ [][Next]_vars

-----------------------------------------------------------------------------
(* Reference: the matches of t among the teams of a set, and the sums over *)
(* them as a mathematician writes them.                                    *)
MatchesOf(t, among, rs) ==
  {i \in DOMAIN rs : t \in {rs[i].home, rs[i].away} /\ {rs[i].home, rs[i].away} \subseteq among}
Scored(t, r) == IF r.home = t THEN r.home_score ELSE r.away_score
Against(t, r) == IF r.home = t THEN r.away_score ELSE r.home_score
WonBy(t, among, rs) ==
  {i \in MatchesOf(t, among, rs) : Scored(t, rs[i]) > Against(t, rs[i])}
LostBy(t, among, rs) ==
  {i \in MatchesOf(t, among, rs) : Scored(t, rs[i]) < Against(t, rs[i])}
LeaguePoints(t, among, rs) ==
  LET n == Cardinality(MatchesOf(t, among, rs))
      w == Cardinality(WonBy(t, among, rs))
      l == Cardinality(LostBy(t, among, rs))
  IN w * Win + l * Loss + (n - w - l) * Draw

(* The sum of f, over its domain of numbers.                               *)
Total(f) ==
  LET sum[n \in Nat] == (IF n \in DOMAIN f THEN f[n] ELSE 0)
                         + (IF n = 0 THEN 0 ELSE sum[n - 1])
  IN sum[Max(DOMAIN f \cup {0})]

(* Each row is the sum of the matches its team has played inside the       *)
(* group, and the books balance: every win is a loss of somebody, and the  *)
(* goal differences cancel out.                                            *)
RowsAddUp ==
  LET rows == Rows(results) IN
  /\ \A t \in Team :
       /\ rows[t].played = Cardinality(MatchesOf(t, Team, results))
       /\ Points(rows[t]) = LeaguePoints(t, Team, results)
       /\ rows[t].goals_for =
            Total([i \in MatchesOf(t, Team, results) |-> Scored(t, results[i])])
  /\ Total([t \in Team |-> rows[t].won]) = Total([t \in Team |-> rows[t].lost])
  /\ Total([t \in Team |-> GoalDifference(rows[t])]) = 0

(* Reference order: the first criterion that separates two teams decides,  *)
(* head-to-head being the points in the league of those tied with the team *)
(* alone.                                                                  *)
Separates(tb, t, u) ==
  LET rows == Rows(results)
      Rivals(x) == {y \in Team : LeaguePoints(y, Team, results) =
                                 LeaguePoints(x, Team, results)}
  IN CASE tb = "points" -> LeaguePoints(t, Team, results) - LeaguePoints(u, Team, results)
       [] tb = "gd" -> GoalDifference(rows[t]) - GoalDifference(rows[u])
       [] tb = "gf" -> rows[t].goals_for - rows[u].goals_for
       [] tb = "head_to_head" ->
            LeaguePoints(t, Rivals(t), results) - LeaguePoints(u, Rivals(u), results)
       [] tb = "admin" -> u - t

Better(t, u) ==
  LET open == {i \in DOMAIN tie_breakers : Separates(tie_breakers[i], t, u) # 0}
  IN IF open = {} THEN t < u
     ELSE Separates(tie_breakers[CHOOSE i \in open : \A j \in open : i <= j], t, u) > 0

(* The table lists every team once, the better one first.                  *)
RankedByRules ==
  LET table == ComputeTable(results) IN
  /\ Len(table) = Cardinality(Team)
  /\ \A i, j \in DOMAIN table : i < j => Better(table[i], table[j])

(* "Deterministic and idempotent": the SELECT of the results has no ORDER  *)
(* BY, so the table must not depend on the order they come in.             *)
Swapped(i) == [results EXCEPT ![i] = results[i + 1], ![i + 1] = results[i]]

OrderIrrelevant ==
  LET rows == Rows(results)
      table == ComputeTable(results)
  IN \A i \in 1..(Len(results) - 1) :
       Rows(Swapped(i)) = rows /\ ComputeTable(Swapped(i)) = table

(* A win never costs the winner a place: whomever it led before, it leads  *)
(* after, although the tied teams of head-to-head have changed.            *)
Leads(t, u, table) ==
  \E i, j \in DOMAIN table : i < j /\ table[i] = t /\ table[j] = u

Winner(r) == IF r.home_score > r.away_score THEN r.home ELSE r.away

WinNeverHurts ==
  [][LET last == results'[Len(results')]
         before == ComputeTable(results)
         after == ComputeTable(results')
     IN last.home_score # last.away_score /\ {last.home, last.away} \subseteq Team
          => \A u \in Team : Leads(Winner(last), u, before)
                               => Leads(Winner(last), u, after)]_vars
=============================================================================

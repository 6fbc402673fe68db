-------------------------- MODULE StandingsProofs --------------------------
(***************************************************************************)
(* Proofs about Standings, for groups and lists of results of any size:    *)
(* what the loops of compute_table and _head_to_head_points compute        *)
(* (induction over the results), that the sort puts every team at one      *)
(* place, and from these the four properties the runs check.               *)
(***************************************************************************)
EXTENDS Standings, TLAPS, FiniteSetTheorems, WellFoundedInduction

-----------------------------------------------------------------------------
(* Induction, over sets of numbers.                                        *)

Before == {ss \in Nat \X Nat : ss[1] < ss[2]}

LEMMA Least ==
  ASSUME NEW S \in SUBSET Nat, S # {}
  PROVE  \E x \in S : \A y \in S : x <= y
<1>1. IsWellFoundedOn(Before, Nat)
  BY NatLessThanWellFounded DEF OpToRel, Before
<1>2. PICK x \in S : \A y \in S : <<y, x>> \notin Before
  BY <1>1, WFMin
<1>4. ASSUME NEW y \in S PROVE x <= y
  <2>1. <<y, x>> \notin Before
    BY <1>2
  <2> QED
    BY <2>1 DEF Before
<1> QED
  BY <1>4

LEMMA Induction ==
  ASSUME NEW S \in SUBSET Nat, 0 \in S, \A n \in S : n + 1 \in S
  PROVE  S = Nat
<1> SUFFICES ASSUME Nat \ S # {} PROVE FALSE
  OBVIOUS
<1>1. PICK x \in Nat \ S : \A y \in Nat \ S : x <= y
  BY Least
<1>2. x - 1 \in Nat /\ x - 1 \in S
  BY <1>1
<1> QED
  BY <1>1, <1>2

-----------------------------------------------------------------------------
(* A loop over numbers: from x, value n gives F[<<n, value>>].             *)
Runs(g, X, x, F, n) ==
  /\ g \in [0 .. n -> X] /\ g[0] = x
  /\ \A i \in 1 .. n : g[i] = F[<<i, g[i - 1]>>]

LEMMA RunsAgree ==
  ASSUME NEW X, NEW x, NEW F, NEW m \in Nat, NEW n \in Nat, NEW f, NEW g,
         Runs(f, X, x, F, m), Runs(g, X, x, F, n), m <= n
  PROVE  f[m] = g[m]
<1> DEFINE S == {i \in Nat : i <= m => f[i] = g[i]}
<1>1. 0 \in S
  BY DEF Runs
<1>2. ASSUME NEW i \in S PROVE i + 1 \in S
  <2> SUFFICES ASSUME i + 1 <= m PROVE f[i + 1] = g[i + 1]
    OBVIOUS
  <2>1. i + 1 \in 1 .. m /\ i + 1 \in 1 .. n /\ (i + 1) - 1 = i /\ i <= m
    OBVIOUS
  <2>2. f[i] = g[i]
    BY <1>2, <2>1
  <2>3. f[i + 1] = F[<<i + 1, f[i]>>] /\ g[i + 1] = F[<<i + 1, g[i]>>]
    BY <2>1 DEF Runs
  <2> QED
    BY <2>2, <2>3
<1>3. S = Nat
  <2> HIDE DEF S
  <2> QED
    BY <1>1, <1>2, Induction DEF S
<1> QED
  BY <1>3

Goes(f, X, x, F) ==
  /\ f \in [Nat -> X] /\ f[0] = x
  /\ \A n \in Nat \ {0} : f[n] = F[<<n, f[n - 1]>>]

Takes(F, Y, X) == F \in [Y \X X -> X]

LEMMA Recursion ==
  ASSUME NEW X, NEW x \in X, NEW F, Takes(F, Nat, X)
  PROVE  \E f : Goes(f, X, x, F)
<1> USE DEF Takes
<1> DEFINE S == {n \in Nat : \E g : Runs(g, X, x, F, n)}
<1>1. 0 \in S
  <2>1. Runs([i \in 0 .. 0 |-> x], X, x, F, 0)
    BY DEF Runs
  <2> QED
    BY <2>1
<1>2. ASSUME NEW n \in S PROVE n + 1 \in S
  <2>1. PICK g : Runs(g, X, x, F, n)
    OBVIOUS
  <2> DEFINE h == [i \in 0 .. n + 1 |-> IF i = n + 1 THEN F[<<i, g[n]>>] ELSE g[i]]
  <2>2. g[n] \in X /\ F[<<n + 1, g[n]>>] \in X
    BY <2>1 DEF Runs
  <2>3. /\ DOMAIN h = 0 .. n + 1 /\ h[n + 1] = F[<<n + 1, g[n]>>]
        /\ \A i \in 0 .. n : h[i] = g[i] /\ g[i] \in X
    BY <2>1 DEF Runs
  <2>4. h \in [0 .. n + 1 -> X]
    <3>1. \A i \in 0 .. n + 1 : i = n + 1 \/ i \in 0 .. n
      OBVIOUS
    <3>2. \A i \in 0 .. n + 1 : h[i] \in X
      BY <2>2, <2>3, <3>1
    <3> QED
      BY <3>2
  <2> HIDE DEF h
  <2>5. ASSUME NEW i \in 1 .. n + 1 PROVE h[i] = F[<<i, h[i - 1]>>]
    <3>1. CASE i = n + 1
      BY <2>3, <3>1
    <3>2. CASE i # n + 1
      <4>1. i \in 1 .. n /\ i \in 0 .. n /\ i - 1 \in 0 .. n
        BY <3>2
      <4> QED
        BY <2>1, <2>3, <4>1 DEF Runs
    <3> QED
      BY <3>1, <3>2
  <2>6. h[0] = x
    BY <2>1, <2>3 DEF Runs
  <2>7. Runs(h, X, x, F, n + 1)
    BY <2>4, <2>5, <2>6 DEF Runs
  <2> QED
    BY <2>7
<1>3. S = Nat
  <2> HIDE DEF S
  <2> QED
    BY <1>1, <1>2, Induction DEF S
<1> DEFINE G(n) == CHOOSE g : Runs(g, X, x, F, n)
           f == [n \in Nat |-> G(n)[n]]
<1>4. \A n \in Nat : Runs(G(n), X, x, F, n)
  BY <1>3
<1> HIDE DEF G
<1>5. f \in [Nat -> X] /\ f[0] = x
  BY <1>4 DEF Runs
<1>6. ASSUME NEW n \in Nat \ {0} PROVE f[n] = F[<<n, f[n - 1]>>]
  <2>1. n - 1 \in Nat /\ n - 1 <= n /\ n \in 1 .. n
    OBVIOUS
  <2>2. G(n - 1)[n - 1] = G(n)[n - 1]
    BY <1>4, <2>1, RunsAgree
  <2>3. G(n)[n] = F[<<n, G(n)[n - 1]>>]
    BY <1>4, <2>1 DEF Runs
  <2> QED
    BY <2>1, <2>2, <2>3
<1> QED
  BY <1>5, <1>6 DEF Goes

-----------------------------------------------------------------------------
(* A loop over a list: from x, each member of rs is taken in by F.         *)
Walk(f, X, x, F, rs) ==
  /\ f \in [0 .. Len(rs) -> X] /\ f[0] = x
  /\ \A n \in 1 .. Len(rs) : f[n] = F[<<f[n - 1], rs[n]>>]

TakesIn(F, X, R) == F \in [X \X R -> X]

LEMMA WalkExists ==
  ASSUME NEW X, NEW R, NEW x \in X, NEW F, TakesIn(F, X, R), NEW rs \in Seq(R)
  PROVE  \E f : Walk(f, X, x, F, rs)
<1> USE DEF TakesIn
<1> DEFINE m == Len(rs)
           G == [p \in Nat \X X |-> IF p[1] \in 1 .. m THEN F[<<p[2], rs[p[1]]>>] ELSE p[2]]
<1>1. \A n \in 1 .. m : rs[n] \in R
  OBVIOUS
<1>2. G \in [Nat \X X -> X]
  <2>1. ASSUME NEW p \in Nat \X X
        PROVE  (IF p[1] \in 1 .. m THEN F[<<p[2], rs[p[1]]>>] ELSE p[2]) \in X
    BY <1>1
  <2> QED
    BY <2>1
<1>3. \A n \in 1 .. m, v \in X : G[<<n, v>>] = F[<<v, rs[n]>>]
  OBVIOUS
<1>4. PICK g : Goes(g, X, x, G)
  <2>1. Takes(G, Nat, X)
    BY <1>2 DEF Takes
  <2> HIDE DEF G
  <2> QED
    BY <2>1, Recursion
<1> HIDE DEF G
<1> DEFINE f == [n \in 0 .. m |-> g[n]]
<1>5. ASSUME NEW n \in 1 .. m PROVE f[n] = F[<<f[n - 1], rs[n]>>]
  <2>1. n \in Nat \ {0} /\ n - 1 \in Nat /\ n \in 0 .. m /\ n - 1 \in 0 .. m
    OBVIOUS
  <2>2. g[n] = G[<<n, g[n - 1]>>] /\ g[n - 1] \in X
    BY <1>4, <2>1 DEF Goes
  <2>3. f[n] = g[n] /\ f[n - 1] = g[n - 1]
    BY <2>1
  <2> QED
    BY <1>3, <2>2, <2>3
<1>6. f \in [0 .. m -> X] /\ f[0] = x
  BY <1>4 DEF Goes
<1> HIDE DEF f
<1>7. Walk(f, X, x, F, rs)
  BY <1>5, <1>6 DEF Walk
<1> QED
  BY <1>7

(* As far as two lists agree, so do the loops.                             *)
Agree(rs, qs, m) ==
  /\ m \in Nat /\ Len(rs) \in Nat /\ Len(qs) \in Nat /\ m <= Len(rs) /\ m <= Len(qs)
  /\ \A i \in 1 .. m : rs[i] = qs[i]

LEMMA WalkAgree ==
  ASSUME NEW X, NEW x, NEW F, NEW rs, NEW qs,
         NEW f, NEW g, Walk(f, X, x, F, rs), Walk(g, X, x, F, qs),
         NEW m, Agree(rs, qs, m)
  PROVE  f[m] = g[m]
<1> USE DEF Agree
<1> DEFINE S == {i \in Nat : i <= m => f[i] = g[i]}
<1>1. 0 \in S
  BY DEF Walk
<1>2. ASSUME NEW i \in S PROVE i + 1 \in S
  <2> SUFFICES ASSUME i + 1 <= m PROVE f[i + 1] = g[i + 1]
    OBVIOUS
  <2>1. /\ i + 1 \in 1 .. Len(rs) /\ i + 1 \in 1 .. Len(qs) /\ i + 1 \in 1 .. m
        /\ (i + 1) - 1 = i /\ i <= m
    OBVIOUS
  <2>2. f[i] = g[i] /\ rs[i + 1] = qs[i + 1]
    BY <1>2, <2>1
  <2>3. f[i + 1] = F[<<f[i], rs[i + 1]>>] /\ g[i + 1] = F[<<g[i], qs[i + 1]>>]
    BY <2>1 DEF Walk
  <2> QED
    BY <2>2, <2>3
<1>3. S = Nat
  <2> HIDE DEF S
  <2> QED
    BY <1>1, <1>2, Induction DEF S
<1> QED
  BY <1>3

LEMMA WalkAppend ==
  ASSUME NEW X, NEW R, NEW x, NEW F, NEW rs \in Seq(R), NEW r \in R,
         NEW f, NEW g, Walk(f, X, x, F, rs), Walk(g, X, x, F, Append(rs, r))
  PROVE  g[Len(rs) + 1] = F[<<f[Len(rs)], r>>]
<1> DEFINE m == Len(rs)
           qs == Append(rs, r)
<1>1. m \in Nat /\ qs \in Seq(R) /\ Len(qs) = m + 1 /\ qs[m + 1] = r
  OBVIOUS
<1>2. \A i \in 1 .. m : rs[i] = qs[i]
  OBVIOUS
<1> HIDE DEF qs
<1>3. Walk(g, X, x, F, qs)
  BY DEF qs
<1>4. f[m] = g[m]
  <2>1. Agree(rs, qs, m)
    BY <1>1, <1>2 DEF Agree
  <2> QED
    BY <1>3, <2>1, WalkAgree
<1>5. m + 1 \in 1 .. Len(qs) /\ (m + 1) - 1 = m
  BY <1>1
<1> QED
  BY <1>1, <1>3, <1>4, <1>5 DEF Walk

(* What goes by the equations of a walk is one.                            *)
LEMMA WalkHolds ==
  ASSUME NEW X, NEW R, NEW x \in X, NEW F, TakesIn(F, X, R), NEW rs \in Seq(R),
         NEW f, f = [n \in 0 .. Len(rs) |-> f[n]], f[0] = x,
         \A n \in 1 .. Len(rs) : f[n - 1] \in X => f[n] = F[<<f[n - 1], rs[n]>>]
  PROVE  Walk(f, X, x, F, rs)
<1> USE DEF TakesIn
<1> DEFINE S == {n \in Nat : n <= Len(rs) => f[n] \in X}
<1>1. 0 \in S
  OBVIOUS
<1>2. ASSUME NEW n \in S PROVE n + 1 \in S
  <2> SUFFICES ASSUME n + 1 <= Len(rs) PROVE f[n + 1] \in X
    OBVIOUS
  <2>1. n + 1 \in 1 .. Len(rs) /\ (n + 1) - 1 = n /\ n <= Len(rs)
    OBVIOUS
  <2>2. f[n] \in X /\ rs[n + 1] \in R
    BY <1>2, <2>1
  <2>3. f[n + 1] = F[<<f[n], rs[n + 1]>>]
    BY <2>1, <2>2
  <2> QED
    BY <2>2, <2>3
<1>3. S = Nat
  <2> HIDE DEF S
  <2> QED
    BY <1>1, <1>2, Induction DEF S
<1>4. ASSUME NEW n \in 0 .. Len(rs) PROVE f[n] \in X
  <2>1. n \in Nat /\ n <= Len(rs)
    OBVIOUS
  <2>2. n \in S
    <3> HIDE DEF S
    <3> QED
      BY <1>3, <2>1
  <2> QED
    BY <2>1, <2>2
<1>5. f \in [0 .. Len(rs) -> X]
  BY <1>4
<1>6. \A n \in 1 .. Len(rs) : n - 1 \in 0 .. Len(rs)
  OBVIOUS
<1> QED
  BY <1>4, <1>5, <1>6 DEF Walk

(* Two lists that differ by one exchange of neighbours.                    *)
Neighbours(rs, qs, i) ==
  /\ Len(qs) = Len(rs) /\ i \in 1 .. Len(rs) - 1
  /\ qs[i] = rs[i + 1] /\ qs[i + 1] = rs[i]
  /\ \A j \in 1 .. Len(rs) : j # i /\ j # i + 1 => qs[j] = rs[j]

Commutes(F, X, R) ==
  \A v \in X, r, q \in R : F[<<F[<<v, r>>], q>>] = F[<<F[<<v, q>>], r>>]

LEMMA WalkSwap ==
  ASSUME NEW X, NEW R, NEW x, NEW F, Commutes(F, X, R),
         NEW rs \in Seq(R), NEW qs \in Seq(R), NEW i \in Nat, Neighbours(rs, qs, i),
         NEW f, NEW g, Walk(f, X, x, F, rs), Walk(g, X, x, F, qs)
  PROVE  f[Len(rs)] = g[Len(rs)]
<1> DEFINE m == Len(rs)
           S == {n \in Nat : i + 1 + n <= m => f[i + 1 + n] = g[i + 1 + n]}
<1>1. m \in Nat /\ Len(qs) = m /\ i \in 1 .. m - 1
  BY DEF Neighbours
<1>2. \A n \in 1 .. m : f[n] = F[<<f[n - 1], rs[n]>>] /\ g[n] = F[<<g[n - 1], qs[n]>>]
  BY <1>1 DEF Walk
<1>3. f[i - 1] = g[i - 1] /\ f[i - 1] \in X
  <2>1. i - 1 \in Nat /\ i - 1 <= Len(rs) /\ i - 1 <= Len(qs) /\ i - 1 \in 0 .. m
    BY <1>1
  <2>2. \A j \in 1 .. i - 1 : rs[j] = qs[j]
    BY <1>1 DEF Neighbours
  <2>3. f[i - 1] \in X
    BY <2>1 DEF Walk
  <2>4. Agree(rs, qs, i - 1)
    BY <1>1, <2>1, <2>2 DEF Agree
  <2>5. f[i - 1] = g[i - 1]
    BY <2>4, WalkAgree
  <2> QED
    BY <2>3, <2>5
<1>4. f[i + 1] = g[i + 1]
  <2>1. /\ i \in 1 .. m /\ i + 1 \in 1 .. m /\ (i + 1) - 1 = i
        /\ rs[i] \in R /\ rs[i + 1] \in R
    BY <1>1
  <2>2. f[i] = F[<<f[i - 1], rs[i]>>] /\ f[i + 1] = F[<<f[i], rs[i + 1]>>]
    BY <1>2, <2>1
  <2>3. g[i] = F[<<f[i - 1], rs[i + 1]>>] /\ g[i + 1] = F[<<g[i], rs[i]>>]
    BY <1>2, <1>3, <2>1 DEF Neighbours
  <2> QED
    BY <1>3, <2>1, <2>2, <2>3 DEF Commutes
<1>5. 0 \in S
  BY <1>1, <1>4
<1>6. ASSUME NEW n \in S PROVE n + 1 \in S
  <2> SUFFICES ASSUME i + 1 + (n + 1) <= m PROVE f[i + 1 + (n + 1)] = g[i + 1 + (n + 1)]
    OBVIOUS
  <2> DEFINE k == i + 1 + (n + 1)
  <2>1. k \in 1 .. m /\ k - 1 = i + 1 + n /\ i + 1 + n <= m /\ k # i /\ k # i + 1
    BY <1>1
  <2>2. f[k - 1] = g[k - 1]
    BY <1>6, <2>1
  <2>3. qs[k] = rs[k]
    BY <2>1 DEF Neighbours
  <2> HIDE DEF k, m
  <2>4. f[k] = g[k]
    BY <1>2, <2>1, <2>2, <2>3
  <2> QED
    BY <2>4 DEF k
<1>7. S = Nat
  <2> HIDE DEF S
  <2> QED
    BY <1>5, <1>6, Induction DEF S
<1>8. m - (i + 1) \in Nat /\ i + 1 + (m - (i + 1)) = m
  BY <1>1
<1> HIDE DEF m
<1>9. f[m] = g[m]
  <2>1. m - (i + 1) \in S
    BY <1>7, <1>8
  <2>2. i + 1 + (m - (i + 1)) <= m
    BY <1>1, <1>8
  <2> QED
    BY <1>8, <2>1, <2>2
<1> QED
  BY <1>9 DEF m

-----------------------------------------------------------------------------
(* The loops of compute_table and _head_to_head_points.                    *)
Row == [played : Nat, won : Nat, drawn : Nat, lost : Nat,
        goals_for : Nat, goals_against : Nat]
Table == [Team -> Row]
Blank == [t \in Team |-> BlankRow]

PlayF == [p \in Table \X MatchResult |-> Play(p[1], p[2])]

(* What a result makes of the row of t.                                    *)
Side(row, t, r) ==
  IF Between(t, Team, r) THEN Tally(row, Scored(t, r), Against(t, r)) ELSE row

Share(t, tied, r) == IF Between(t, tied, r) THEN Earned(t, r) ELSE 0

HeadF(t, tied) == [p \in Int \X MatchResult |-> p[1] + Share(t, tied, p[2])]

LEMMA ResultTyped ==
  ASSUME NEW r \in MatchResult
  PROVE  /\ r.home_score \in Nat /\ r.away_score \in Nat /\ r.home # r.away
         /\ \A t : Scored(t, r) \in Nat /\ Against(t, r) \in Nat
BY GoalsAssumption DEF MatchResult, Scored, Against

LEMMA TallyTyped ==
  ASSUME NEW row \in Row, NEW gf \in Nat, NEW ga \in Nat
  PROVE  LET n == Tally(row, gf, ga) IN
         /\ n \in Row
         /\ n.played = row.played + 1
         /\ n.goals_for = row.goals_for + gf /\ n.goals_against = row.goals_against + ga
         /\ n.won = row.won + (IF gf > ga THEN 1 ELSE 0)
         /\ n.drawn = row.drawn + (IF gf = ga THEN 1 ELSE 0)
         /\ n.lost = row.lost + (IF gf < ga THEN 1 ELSE 0)
<1> DEFINE n == Tally(row, gf, ga)
           w == IF gf > ga THEN row.won + 1 ELSE row.won
           d == IF gf = ga THEN row.drawn + 1 ELSE row.drawn
           l == IF gf < ga THEN row.lost + 1 ELSE row.lost
<1>1. /\ n = [played |-> row.played + 1, won |-> w, drawn |-> d, lost |-> l,
              goals_for |-> row.goals_for + gf, goals_against |-> row.goals_against + ga]
  <2>1. row = [played |-> row.played, won |-> row.won, drawn |-> row.drawn,
               lost |-> row.lost, goals_for |-> row.goals_for,
               goals_against |-> row.goals_against]
    BY DEF Row
  <2>2. DOMAIN row = {"played", "won", "drawn", "lost", "goals_for", "goals_against"}
    BY <2>1
  <2>3. n = [i \in DOMAIN row |->
               CASE i = "played" -> row.played + 1
                 [] i = "won" -> w
                 [] i = "drawn" -> d
                 [] i = "lost" -> l
                 [] i = "goals_for" -> row.goals_for + gf
                 [] i = "goals_against" -> row.goals_against + ga]
    BY <2>2 DEF Tally
  <2> HIDE DEF n, w, d, l
  <2> QED
    BY <2>2, <2>3
<1>2. /\ row.played \in Nat /\ row.won \in Nat /\ row.drawn \in Nat /\ row.lost \in Nat
      /\ row.goals_for \in Nat /\ row.goals_against \in Nat
  BY DEF Row
<1>3. w \in Nat /\ d \in Nat /\ l \in Nat
  BY <1>2
<1>4. /\ n.played = row.played + 1 /\ n.won = w /\ n.drawn = d /\ n.lost = l
      /\ n.goals_for = row.goals_for + gf /\ n.goals_against = row.goals_against + ga
  BY <1>1
<1>5. n \in Row
  <2> HIDE DEF n, w, d, l
  <2>1. row.played + 1 \in Nat /\ row.goals_for + gf \in Nat /\ row.goals_against + ga \in Nat
    BY <1>2
  <2> QED
    BY <1>1, <1>3, <2>1 DEF Row
<1>6. /\ w = row.won + (IF gf > ga THEN 1 ELSE 0)
      /\ d = row.drawn + (IF gf = ga THEN 1 ELSE 0)
      /\ l = row.lost + (IF gf < ga THEN 1 ELSE 0)
  BY <1>2
<1> HIDE DEF n, w, d, l
<1> QED
  BY <1>4, <1>5, <1>6 DEF n

LEMMA PlaySides ==
  ASSUME NEW rows \in Table, NEW r \in MatchResult
  PROVE  /\ Play(rows, r) \in Table
         /\ \A t \in Team : Play(rows, r)[t] = Side(rows[t], t, r)
<1>1. /\ r.home # r.away
      /\ \A t : Scored(t, r) \in Nat /\ Against(t, r) \in Nat
  BY ResultTyped
<1>2. \A t \in Team : rows[t] \in Row
  BY DEF Table
<1>3. \A t \in Team : Side(rows[t], t, r) \in Row
  BY <1>1, <1>2, TallyTyped DEF Side
<1>4. /\ DOMAIN Play(rows, r) = Team
      /\ \A t \in Team : Play(rows, r)[t] = Side(rows[t], t, r)
      /\ Play(rows, r) = [t \in Team |-> Play(rows, r)[t]]
  <2>1. CASE {r.home, r.away} \subseteq Team
    <3>1. Scored(r.home, r) = r.home_score /\ Against(r.home, r) = r.away_score
          /\ Scored(r.away, r) = r.away_score /\ Against(r.away, r) = r.home_score
      BY <1>1 DEF Scored, Against
    <3>2. Play(rows, r) =
            [t \in Team |-> IF t = r.away THEN Tally(rows[t], r.away_score, r.home_score)
                            ELSE IF t = r.home THEN Tally(rows[t], r.home_score, r.away_score)
                            ELSE rows[t]]
      BY <1>1, <2>1 DEF Play, Table
    <3>3. \A t \in Team : Between(t, Team, r) <=> t = r.home \/ t = r.away
      BY <2>1 DEF Between
    <3> QED
      BY <1>1, <3>1, <3>2, <3>3 DEF Side
  <2>2. CASE ~({r.home, r.away} \subseteq Team)
    BY <2>2 DEF Play, Side, Between, Table
  <2> QED
    BY <2>1, <2>2
<1> QED
  BY <1>3, <1>4 DEF Table

LEMMA PlayTyped == TakesIn(PlayF, Table, MatchResult) /\ Blank \in Table
<1>1. \A p \in Table \X MatchResult : Play(p[1], p[2]) \in Table
  BY PlaySides
<1>2. BlankRow \in Row
  BY DEF BlankRow, Row
<1> QED
  BY <1>1, <1>2 DEF PlayF, Blank, Table, TakesIn

LEMMA ShareTyped ==
  ASSUME NEW t, NEW tied, NEW r \in MatchResult
  PROVE  Share(t, tied, r) \in Int
<1>1. \A x, y \in Nat : PointsOf(x, y) \in Int
  BY PointsAssumption DEF PointsOf
<1>2. Earned(t, r) \in Int
  BY <1>1, ResultTyped DEF Earned
<1> QED
  BY <1>2 DEF Share

LEMMA HeadTyped ==
  ASSUME NEW t, NEW tied
  PROVE  TakesIn(HeadF(t, tied), Int, MatchResult)
<1>1. \A p \in Int \X MatchResult : p[1] + Share(t, tied, p[2]) \in Int
  BY ShareTyped
<1> QED
  BY <1>1 DEF HeadF, TakesIn

(* What the loops return is where the walks end.                           *)
LEMMA RowsWalk ==
  ASSUME NEW rs \in Seq(MatchResult)
  PROVE  \E f : Walk(f, Table, Blank, PlayF, rs) /\ Rows(rs) = f[Len(rs)]
<1> DEFINE rows[n \in 0 .. Len(rs)] ==
             IF n = 0 THEN [t \in Team |-> BlankRow] ELSE Play(rows[n - 1], rs[n])
<1>1. Rows(rs) = rows[Len(rs)]
  BY DEF Rows
<1>2. \A n \in 1 .. Len(rs) : rs[n] \in MatchResult
  OBVIOUS
<1>3. \E f : f = [n \in 0 .. Len(rs) |->
                    IF n = 0 THEN [t \in Team |-> BlankRow] ELSE Play(f[n - 1], rs[n])]
  <2>1. PICK f : Walk(f, Table, Blank, PlayF, rs)
    BY PlayTyped, WalkExists
  <2>2. ASSUME NEW n \in 0 .. Len(rs)
        PROVE  f[n] = IF n = 0 THEN [t \in Team |-> BlankRow] ELSE Play(f[n - 1], rs[n])
    <3>1. CASE n = 0
      BY <2>1, <3>1 DEF Walk, Blank
    <3>2. CASE n # 0
      <4>1. n \in 1 .. Len(rs) /\ n - 1 \in 0 .. Len(rs)
        BY <3>2
      <4>2. f[n - 1] \in Table /\ rs[n] \in MatchResult
        BY <1>2, <2>1, <4>1 DEF Walk
      <4>3. f[n] = PlayF[<<f[n - 1], rs[n]>>]
        BY <2>1, <4>1 DEF Walk
      <4> QED
        BY <3>2, <4>2, <4>3 DEF PlayF
    <3> QED
      BY <3>1, <3>2
  <2>3. f = [n \in 0 .. Len(rs) |-> f[n]]
    BY <2>1 DEF Walk
  <2> QED
    BY <2>2, <2>3
<1>4. rows = [n \in 0 .. Len(rs) |->
                IF n = 0 THEN [t \in Team |-> BlankRow] ELSE Play(rows[n - 1], rs[n])]
  BY <1>3
<1> HIDE DEF rows
<1>5. rows[0] = Blank
  BY <1>4 DEF Blank
<1>6. rows = [n \in 0 .. Len(rs) |-> rows[n]]
  BY <1>4
<1>7. ASSUME NEW n \in 1 .. Len(rs), rows[n - 1] \in Table
      PROVE  rows[n] = PlayF[<<rows[n - 1], rs[n]>>]
  <2>1. n \in 0 .. Len(rs) /\ n # 0
    OBVIOUS
  <2>2. rows[n] = Play(rows[n - 1], rs[n])
    BY <1>4, <2>1
  <2> QED
    BY <1>2, <1>7, <2>2 DEF PlayF
<1>8. Walk(rows, Table, Blank, PlayF, rs)
  BY <1>5, <1>6, <1>7, PlayTyped, WalkHolds
<1> QED
  BY <1>1, <1>8

LEMMA HeadWalk ==
  ASSUME NEW rs \in Seq(MatchResult), NEW t, NEW tied
  PROVE  \E f : Walk(f, Int, 0, HeadF(t, tied), rs) /\ HeadToHead(t, tied, rs) = f[Len(rs)]
<1> DEFINE pts[n \in 0 .. Len(rs)] ==
             IF n = 0 THEN 0
             ELSE pts[n - 1] + (IF Between(t, tied, rs[n]) THEN Earned(t, rs[n]) ELSE 0)
           F == HeadF(t, tied)
<1>1. HeadToHead(t, tied, rs) = pts[Len(rs)]
  BY DEF HeadToHead
<1>2. \A n \in 1 .. Len(rs) : rs[n] \in MatchResult
  OBVIOUS
<1>3. \A n \in 1 .. Len(rs), v \in Int : F[<<v, rs[n]>>] = v + Share(t, tied, rs[n])
  BY <1>2 DEF HeadF
<1>4. TakesIn(F, Int, MatchResult)
  BY HeadTyped
<1> HIDE DEF F
<1>5. \E f : f = [n \in 0 .. Len(rs) |->
                    IF n = 0 THEN 0
                    ELSE f[n - 1] + (IF Between(t, tied, rs[n]) THEN Earned(t, rs[n]) ELSE 0)]
  <2>1. PICK f : Walk(f, Int, 0, F, rs)
    <3>1. 0 \in Int /\ rs \in Seq(MatchResult)
      OBVIOUS
    <3> QED
      BY <1>4, <3>1, WalkExists
  <2>2. ASSUME NEW n \in 0 .. Len(rs)
        PROVE  f[n] = IF n = 0 THEN 0
                      ELSE f[n - 1] + (IF Between(t, tied, rs[n]) THEN Earned(t, rs[n]) ELSE 0)
    <3>1. CASE n = 0
      BY <2>1, <3>1 DEF Walk
    <3>2. CASE n # 0
      <4>1. n \in 1 .. Len(rs) /\ n - 1 \in 0 .. Len(rs)
        BY <3>2
      <4>2. f[n] = F[<<f[n - 1], rs[n]>>] /\ f[n - 1] \in Int
        BY <2>1, <4>1 DEF Walk
      <4> QED
        BY <1>3, <3>2, <4>1, <4>2 DEF Share
    <3> QED
      BY <3>1, <3>2
  <2>3. f = [n \in 0 .. Len(rs) |-> f[n]]
    BY <2>1 DEF Walk
  <2> QED
    BY <2>2, <2>3
<1>6. pts = [n \in 0 .. Len(rs) |->
               IF n = 0 THEN 0
               ELSE pts[n - 1] + (IF Between(t, tied, rs[n]) THEN Earned(t, rs[n]) ELSE 0)]
  BY <1>5
<1> HIDE DEF pts
<1>7. pts[0] = 0 /\ pts = [n \in 0 .. Len(rs) |-> pts[n]]
  BY <1>6
<1>8. ASSUME NEW n \in 1 .. Len(rs), pts[n - 1] \in Int
      PROVE  pts[n] = F[<<pts[n - 1], rs[n]>>]
  <2>1. n \in 0 .. Len(rs) /\ n # 0
    OBVIOUS
  <2>2. pts[n] = pts[n - 1] + Share(t, tied, rs[n])
    BY <1>6, <2>1 DEF Share
  <2> QED
    BY <1>3, <1>8, <2>2
<1>9. Walk(pts, Int, 0, F, rs)
  BY <1>4, <1>7, <1>8, WalkHolds
<1> QED
  BY <1>1, <1>9 DEF F

-----------------------------------------------------------------------------
(* One result more.                                                        *)
LEMMA RowsMore ==
  /\ Rows(<<>>) = Blank
  /\ \A rs \in Seq(MatchResult) : Rows(rs) \in Table
  /\ \A rs \in Seq(MatchResult), r \in MatchResult :
       Rows(Append(rs, r)) = Play(Rows(rs), r)
<1>1. Rows(<<>>) = Blank
  <2>1. <<>> \in Seq(MatchResult) /\ Len(<<>>) = 0
    OBVIOUS
  <2> QED
    BY <2>1, RowsWalk DEF Walk
<1>2. ASSUME NEW rs \in Seq(MatchResult) PROVE Rows(rs) \in Table
  <2>1. Len(rs) \in 0 .. Len(rs)
    OBVIOUS
  <2> QED
    BY <2>1, RowsWalk DEF Walk
<1>3. ASSUME NEW rs \in Seq(MatchResult), NEW r \in MatchResult
      PROVE  Rows(Append(rs, r)) = Play(Rows(rs), r)
  <2>1. Append(rs, r) \in Seq(MatchResult) /\ Len(Append(rs, r)) = Len(rs) + 1
        /\ Len(rs) \in Nat /\ Len(rs) \in 0 .. Len(rs)
    OBVIOUS
  <2>2. PICK f : Walk(f, Table, Blank, PlayF, rs) /\ Rows(rs) = f[Len(rs)]
    BY RowsWalk
  <2>3. PICK g : /\ Walk(g, Table, Blank, PlayF, Append(rs, r))
                 /\ Rows(Append(rs, r)) = g[Len(rs) + 1]
    BY <2>1, RowsWalk
  <2>4. g[Len(rs) + 1] = PlayF[<<f[Len(rs)], r>>]
    BY <2>2, <2>3, WalkAppend
  <2>5. f[Len(rs)] \in Table
    BY <2>1, <2>2 DEF Walk
  <2> QED
    BY <2>2, <2>3, <2>4, <2>5 DEF PlayF
<1> QED
  BY <1>1, <1>2, <1>3

LEMMA HeadMore ==
  ASSUME NEW t, NEW tied
  PROVE  /\ HeadToHead(t, tied, <<>>) = 0
         /\ \A rs \in Seq(MatchResult) : HeadToHead(t, tied, rs) \in Int
         /\ \A rs \in Seq(MatchResult), r \in MatchResult :
              HeadToHead(t, tied, Append(rs, r)) =
                HeadToHead(t, tied, rs) + Share(t, tied, r)
<1> DEFINE F == HeadF(t, tied)
<1>1. HeadToHead(t, tied, <<>>) = 0
  <2>1. <<>> \in Seq(MatchResult) /\ Len(<<>>) = 0
    OBVIOUS
  <2> QED
    BY <2>1, HeadWalk DEF Walk
<1>2. ASSUME NEW rs \in Seq(MatchResult) PROVE HeadToHead(t, tied, rs) \in Int
  <2>1. Len(rs) \in 0 .. Len(rs)
    OBVIOUS
  <2> QED
    BY <2>1, HeadWalk DEF Walk
<1>3. ASSUME NEW rs \in Seq(MatchResult), NEW r \in MatchResult
      PROVE  HeadToHead(t, tied, Append(rs, r)) =
               HeadToHead(t, tied, rs) + Share(t, tied, r)
  <2>1. Append(rs, r) \in Seq(MatchResult) /\ Len(Append(rs, r)) = Len(rs) + 1
        /\ Len(rs) \in Nat /\ Len(rs) \in 0 .. Len(rs)
    OBVIOUS
  <2>2. PICK f : Walk(f, Int, 0, F, rs) /\ HeadToHead(t, tied, rs) = f[Len(rs)]
    BY HeadWalk
  <2>3. PICK g : /\ Walk(g, Int, 0, F, Append(rs, r))
                 /\ HeadToHead(t, tied, Append(rs, r)) = g[Len(rs) + 1]
    BY <2>1, HeadWalk
  <2>4. g[Len(rs) + 1] = F[<<f[Len(rs)], r>>]
    <3> HIDE DEF F
    <3> QED
      BY <2>2, <2>3, WalkAppend
  <2>5. f[Len(rs)] \in Int
    BY <2>1, <2>2 DEF Walk
  <2> QED
    BY <2>2, <2>3, <2>4, <2>5 DEF HeadF
<1> QED
  BY <1>1, <1>2, <1>3

-----------------------------------------------------------------------------
(* Two results may come in either order.                                   *)
LEMMA TalliesCommute ==
  ASSUME NEW row \in Row, NEW a \in Nat, NEW b \in Nat, NEW c \in Nat, NEW d \in Nat
  PROVE  Tally(Tally(row, a, b), c, d) = Tally(Tally(row, c, d), a, b)
<1> DEFINE p == Tally(row, a, b)
           q == Tally(row, c, d)
           m == Tally(p, c, d)
           n == Tally(q, a, b)
<1>1. p \in Row /\ q \in Row
  BY TallyTyped
<1>2. m \in Row /\ n \in Row
  BY <1>1, TallyTyped
<1>3. /\ row.played \in Nat /\ row.won \in Nat /\ row.drawn \in Nat /\ row.lost \in Nat
      /\ row.goals_for \in Nat /\ row.goals_against \in Nat
  BY DEF Row
<1>4. /\ p.played = row.played + 1 /\ q.played = row.played + 1
      /\ p.goals_for = row.goals_for + a /\ q.goals_for = row.goals_for + c
      /\ p.goals_against = row.goals_against + b /\ q.goals_against = row.goals_against + d
      /\ m.played = p.played + 1 /\ n.played = q.played + 1
      /\ m.goals_for = p.goals_for + c /\ n.goals_for = q.goals_for + a
      /\ m.goals_against = p.goals_against + d /\ n.goals_against = q.goals_against + b
  BY <1>1, TallyTyped
<1>5. /\ p.won = row.won + (IF a > b THEN 1 ELSE 0)
      /\ q.won = row.won + (IF c > d THEN 1 ELSE 0)
      /\ m.won = p.won + (IF c > d THEN 1 ELSE 0)
      /\ n.won = q.won + (IF a > b THEN 1 ELSE 0)
      /\ p.drawn = row.drawn + (IF a = b THEN 1 ELSE 0)
      /\ q.drawn = row.drawn + (IF c = d THEN 1 ELSE 0)
      /\ m.drawn = p.drawn + (IF c = d THEN 1 ELSE 0)
      /\ n.drawn = q.drawn + (IF a = b THEN 1 ELSE 0)
      /\ p.lost = row.lost + (IF a < b THEN 1 ELSE 0)
      /\ q.lost = row.lost + (IF c < d THEN 1 ELSE 0)
      /\ m.lost = p.lost + (IF c < d THEN 1 ELSE 0)
      /\ n.lost = q.lost + (IF a < b THEN 1 ELSE 0)
  BY <1>1, TallyTyped
<1> HIDE DEF p, q, m, n
<1>6. /\ m.played = n.played /\ m.goals_for = n.goals_for
      /\ m.goals_against = n.goals_against
  BY <1>3, <1>4
<1>7. m.won = n.won /\ m.drawn = n.drawn /\ m.lost = n.lost
  BY <1>3, <1>5
<1>8. m = n
  BY <1>2, <1>6, <1>7 DEF Row
<1> QED
  BY <1>8 DEF m, n, p, q

LEMMA PlayCommutes == Commutes(PlayF, Table, MatchResult)
<1>1. ASSUME NEW v \in Table, NEW r \in MatchResult, NEW q \in MatchResult
      PROVE  Play(Play(v, r), q) = Play(Play(v, q), r)
  <2> DEFINE a == Play(v, r)
             b == Play(v, q)
             c == Play(a, q)
             d == Play(b, r)
  <2>1. /\ a \in Table /\ \A t \in Team : a[t] = Side(v[t], t, r)
        /\ b \in Table /\ \A t \in Team : b[t] = Side(v[t], t, q)
    BY PlaySides
  <2>2. /\ c \in Table /\ \A t \in Team : c[t] = Side(a[t], t, q)
        /\ d \in Table /\ \A t \in Team : d[t] = Side(b[t], t, r)
    BY <2>1, PlaySides
  <2> HIDE DEF a, b, c, d
  <2>3. ASSUME NEW t \in Team PROVE c[t] = d[t]
    <3>1. v[t] \in Row
      BY DEF Table
    <3>2. Side(Side(v[t], t, r), t, q) = Side(Side(v[t], t, q), t, r)
      BY <3>1, ResultTyped, TalliesCommute DEF Side
    <3> QED
      BY <2>1, <2>2, <3>2
  <2>4. c = d
    BY <2>2, <2>3 DEF Table
  <2> QED
    BY <2>4 DEF a, b, c, d
<1>2. \A v \in Table, r \in MatchResult :
        PlayF[<<v, r>>] = Play(v, r) /\ Play(v, r) \in Table
  BY PlaySides DEF PlayF
<1> QED
  BY <1>1, <1>2 DEF Commutes

LEMMA HeadCommutes ==
  ASSUME NEW t, NEW tied
  PROVE  Commutes(HeadF(t, tied), Int, MatchResult)
<1> DEFINE F == HeadF(t, tied)
<1>1. \A v \in Int, r \in MatchResult :
        /\ F[<<v, r>>] = v + Share(t, tied, r) /\ Share(t, tied, r) \in Int
        /\ v + Share(t, tied, r) \in Int
  <2>1. \A r \in MatchResult : Share(t, tied, r) \in Int
    BY ShareTyped
  <2> QED
    BY <2>1 DEF HeadF
<1> HIDE DEF F
<1>2. ASSUME NEW v \in Int, NEW r \in MatchResult, NEW q \in MatchResult
      PROVE  F[<<F[<<v, r>>], q>>] = F[<<F[<<v, q>>], r>>]
  <2>1. /\ F[<<F[<<v, r>>], q>>] = (v + Share(t, tied, r)) + Share(t, tied, q)
        /\ F[<<F[<<v, q>>], r>>] = (v + Share(t, tied, q)) + Share(t, tied, r)
    BY <1>1
  <2>2. Share(t, tied, r) \in Int /\ Share(t, tied, q) \in Int
    BY <1>1
  <2> QED
    BY <2>1, <2>2
<1>3. Commutes(F, Int, MatchResult)
  BY <1>2 DEF Commutes
<1> QED
  BY <1>3 DEF F

(* The table of a set of keys.                                             *)
Place(k, keys) == 1 + Cardinality({l \in keys : Less(l, k)})
Key(i, keys) == CHOOSE k \in keys : Place(k, keys) = i
InOrder(keys) == [i \in 1 .. Cardinality(keys) |-> Key(i, keys)[Len(Key(i, keys))]]
Keys(rs) == {SortKey(Rows(rs), t, rs) : t \in Team}

LEMMA Sorted == ASSUME NEW rs PROVE ComputeTable(rs) = InOrder(Keys(rs))
BY DEF ComputeTable, InOrder, Place, Key, Keys

LEMMA TableSame ==
  ASSUME NEW rs, NEW qs, Rows(rs) = Rows(qs),
         \A t \in Team : \A tied : HeadToHead(t, tied, rs) = HeadToHead(t, tied, qs)
  PROVE  ComputeTable(rs) = ComputeTable(qs)
<1> DEFINE rows == Rows(rs)
<1>1. \A tb : \A t \in Team : Criterion(tb, rows, t, rs) = Criterion(tb, rows, t, qs)
  BY DEF Criterion
<1>2. ASSUME NEW t \in Team PROVE SortKey(rows, t, rs) = SortKey(rows, t, qs)
  <2>1. [i \in DOMAIN tie_breakers |-> Criterion(tie_breakers[i], rows, t, rs)] =
        [i \in DOMAIN tie_breakers |-> Criterion(tie_breakers[i], rows, t, qs)]
    BY <1>1
  <2> QED
    BY <2>1 DEF SortKey
<1> HIDE DEF rows
<1>3. Keys(rs) = Keys(qs)
  <2>1. {SortKey(rows, t, rs) : t \in Team} = {SortKey(rows, t, qs) : t \in Team}
    BY <1>2
  <2> QED
    BY <2>1 DEF Keys, rows
<1> QED
  BY <1>3, Sorted

LEMMA SwapSame ==
  ASSUME NEW rs \in Seq(MatchResult), NEW qs \in Seq(MatchResult), NEW i \in Nat,
         Neighbours(rs, qs, i)
  PROVE  Rows(rs) = Rows(qs) /\ ComputeTable(rs) = ComputeTable(qs)
<1>1. Len(qs) = Len(rs)
  BY DEF Neighbours
<1>2. Rows(rs) = Rows(qs)
  <2>1. PICK f : Walk(f, Table, Blank, PlayF, rs) /\ Rows(rs) = f[Len(rs)]
    BY RowsWalk
  <2>2. PICK g : Walk(g, Table, Blank, PlayF, qs) /\ Rows(qs) = g[Len(qs)]
    BY RowsWalk
  <2> QED
    BY <1>1, <2>1, <2>2, PlayCommutes, WalkSwap
<1>3. ASSUME NEW t \in Team, NEW tied
      PROVE  HeadToHead(t, tied, rs) = HeadToHead(t, tied, qs)
  <2> DEFINE F == HeadF(t, tied)
  <2>1. PICK f : Walk(f, Int, 0, F, rs) /\ HeadToHead(t, tied, rs) = f[Len(rs)]
    BY HeadWalk
  <2>2. PICK g : Walk(g, Int, 0, F, qs) /\ HeadToHead(t, tied, qs) = g[Len(qs)]
    BY HeadWalk
  <2>3. Commutes(F, Int, MatchResult)
    BY HeadCommutes
  <2> HIDE DEF F
  <2>4. f[Len(rs)] = g[Len(rs)]
    BY <2>1, <2>2, <2>3, WalkSwap
  <2> QED
    BY <1>1, <2>1, <2>2, <2>4
<1> QED
  BY <1>2, <1>3, TableSame

-----------------------------------------------------------------------------
Typed == tie_breakers \in TieBreakerLists /\ results \in Seq(MatchResult)

(* The results are a list of results of two teams each: what the proofs    *)
(* below know of the state.                                                *)
THEOREM Typing == Spec => []Typed
<1>1. Init => Typed
  BY DEF Init, Typed
<1>2. ASSUME Typed, [Next]_vars PROVE Typed'
  <2>1. CASE Next
    <3>1. PICK r \in MatchResult : results' = Append(results, r)
      BY <2>1 DEF Next, AddResult
    <3>2. results' \in Seq(MatchResult)
      BY <1>2, <3>1 DEF Typed
    <3> QED
      BY <1>2, <2>1, <3>2 DEF Typed, Next, AddResult
  <2>2. CASE UNCHANGED vars
    BY <1>2, <2>2 DEF Typed, vars
  <2> QED
    BY <1>2, <2>1, <2>2
<1> QED
  BY <1>1, <1>2, PTL DEF Spec

LEMMA Unordered == ASSUME Typed PROVE OrderIrrelevant
<1>1. ASSUME NEW i \in 1 .. Len(results) - 1
      PROVE  /\ Rows(Swapped(i)) = Rows(results)
             /\ ComputeTable(Swapped(i)) = ComputeTable(results)
  <2> DEFINE rs == results
             qs == Swapped(i)
  <2>1. /\ rs \in Seq(MatchResult) /\ Len(rs) \in Nat
        /\ i \in Nat /\ i \in 1 .. Len(rs) /\ i + 1 \in 1 .. Len(rs)
    BY DEF Typed
  <2>2. rs[i] \in MatchResult /\ rs[i + 1] \in MatchResult
    BY <2>1
  <2>3. /\ qs = [rs EXCEPT ![i] = rs[i + 1], ![i + 1] = rs[i]]
    BY DEF Swapped
  <2> HIDE DEF rs, qs
  <2>4. qs \in Seq(MatchResult) /\ Len(qs) = Len(rs)
    BY <2>1, <2>2, <2>3
  <2>5. Neighbours(rs, qs, i)
    BY <1>1, <2>1, <2>3, <2>4 DEF Neighbours, rs
  <2>6. Rows(rs) = Rows(qs) /\ ComputeTable(rs) = ComputeTable(qs)
    BY <2>1, <2>4, <2>5, SwapSame
  <2> QED
    BY <2>6 DEF rs, qs
<1> QED
  BY <1>1 DEF OrderIrrelevant

(* The table does not depend on the order the results come in: the SELECT  *)
(* of recompute_group_standings needs no ORDER BY.                         *)
THEOREM AnyOrder == Spec => []OrderIrrelevant
<1>1. Typed => OrderIrrelevant
  BY Unordered
<1> QED
  BY <1>1, Typing, PTL

-----------------------------------------------------------------------------
(* Sums over sets of numbers.                                              *)
LEMMA Bounded ==
  ASSUME NEW S \in SUBSET Nat, IsFiniteSet(S)
  PROVE  \E m \in Nat : \A x \in S : x <= m
<1> DEFINE Bound(T) == \E m \in Nat : \A x \in T : x <= m
           P == {n \in Nat : \A T \in SUBSET S : Cardinality(T) = n => Bound(T)}
<1>1. \A T \in SUBSET S : IsFiniteSet(T) /\ Cardinality(T) \in Nat
  BY FS_Subset, FS_CardinalityType
<1>2. 0 \in P
  <2>1. ASSUME NEW T \in SUBSET S, Cardinality(T) = 0 PROVE Bound(T)
    <3>1. T = {}
      BY <1>1, <2>1, FS_EmptySet
    <3>2. 0 \in Nat
      OBVIOUS
    <3> QED
      BY <3>1, <3>2
  <2> QED
    BY <2>1
<1>3. ASSUME NEW n \in P PROVE n + 1 \in P
  <2>1. ASSUME NEW T \in SUBSET S, Cardinality(T) = n + 1 PROVE Bound(T)
    <3>1. T # {}
      BY <2>1, FS_EmptySet
    <3>2. PICK x : x \in T
      BY <3>1
    <3>3. IsFiniteSet(T)
      BY <1>1
    <3>4. Cardinality(T \ {x}) = Cardinality(T) - 1
      BY <3>2, <3>3, FS_RemoveElement
    <3>5. Cardinality(T \ {x}) = n /\ T \ {x} \in SUBSET S
      <4>1. n \in Nat /\ (n + 1) - 1 = n
        OBVIOUS
      <4>2. T \ {x} \in SUBSET S
        OBVIOUS
      <4>3. Cardinality(T \ {x}) = (n + 1) - 1
        BY <2>1, <3>4
      <4> QED
        BY <4>1, <4>2, <4>3
    <3>6. Bound(T \ {x})
      BY <1>3, <3>5
    <3>7. PICK m \in Nat : \A y \in T \ {x} : y <= m
      BY <3>6
    <3>8. x \in Nat
      BY <3>2
    <3>9. \A y \in T : y \in Nat /\ y <= m + x
      BY <3>7, <3>8
    <3>10. m + x \in Nat
      BY <3>7, <3>8
    <3> QED
      BY <3>9, <3>10
  <2>2. n + 1 \in Nat
    OBVIOUS
  <2> HIDE DEF Bound
  <2> QED
    BY <2>1, <2>2
<1>4. P = Nat
  <2> HIDE DEF P
  <2> QED
    BY <1>2, <1>3, Induction DEF P
<1>5. Cardinality(S) \in P
  BY <1>1, <1>4
<1>6. Bound(S)
  <2> HIDE DEF Bound
  <2> QED
    BY <1>5
<1> QED
  BY <1>6

ValueAt(f, n) == IF n \in DOMAIN f THEN f[n] ELSE 0

Numbers(f) == /\ DOMAIN f \in SUBSET Nat /\ IsFiniteSet(DOMAIN f)
              /\ \A n \in DOMAIN f : f[n] \in Int

(* s adds up f, up to each number.                                         *)
Adds(s, f) ==
  /\ s \in [Nat -> Int]
  /\ \A n \in Nat : s[n] = ValueAt(f, n) + (IF n = 0 THEN 0 ELSE s[n - 1])

Above(m, f) == m \in Nat /\ \A x \in DOMAIN f : x <= m

LEMMA AddsExists ==
  ASSUME NEW f, Numbers(f)
  PROVE  \E s : Adds(s, f)
<1> DEFINE F == [p \in Nat \X Int |-> ValueAt(f, p[1]) + p[2]]
           x == ValueAt(f, 0)
<1>1. \A n \in Nat : ValueAt(f, n) \in Int
  BY DEF Numbers, ValueAt
<1>2. Takes(F, Nat, Int) /\ \A n \in Nat, v \in Int : F[<<n, v>>] = ValueAt(f, n) + v
  BY <1>1 DEF Takes
<1>3. x \in Int
  BY <1>1
<1> HIDE DEF F, x
<1>4. PICK s : Goes(s, Int, x, F)
  BY <1>2, <1>3, Recursion
<1>5. ASSUME NEW n \in Nat PROVE s[n] = ValueAt(f, n) + (IF n = 0 THEN 0 ELSE s[n - 1])
  <2>1. CASE n = 0
    BY <1>1, <1>4, <2>1 DEF Goes, x
  <2>2. CASE n # 0
    <3>1. n - 1 \in Nat /\ n \in Nat \ {0}
      BY <2>2
    <3>2. s[n] = F[<<n, s[n - 1]>>] /\ s[n - 1] \in Int
      BY <1>4, <3>1 DEF Goes
    <3> QED
      BY <1>2, <2>2, <3>2
  <2> QED
    BY <2>1, <2>2
<1> QED
  BY <1>4, <1>5 DEF Adds, Goes

LEMMA TotalIs ==
  ASSUME NEW f, Numbers(f)
  PROVE  \E s : Adds(s, f) /\ \A m : Above(m, f) => Total(f) = s[m]
<1> DEFINE sum[n \in Nat] == (IF n \in DOMAIN f THEN f[n] ELSE 0)
                              + (IF n = 0 THEN 0 ELSE sum[n - 1])
           top == Max(DOMAIN f \cup {0})
<1>1. Total(f) = sum[top]
  BY DEF Total
<1>2. PICK s : Adds(s, f)
  BY AddsExists
<1>3. \E g : g = [n \in Nat |-> (IF n \in DOMAIN f THEN f[n] ELSE 0)
                                + (IF n = 0 THEN 0 ELSE g[n - 1])]
  <2>1. s = [n \in Nat |-> s[n]]
    BY <1>2 DEF Adds
  <2>2. \A n \in Nat : s[n] = (IF n \in DOMAIN f THEN f[n] ELSE 0)
                              + (IF n = 0 THEN 0 ELSE s[n - 1])
    BY <1>2 DEF Adds, ValueAt
  <2> QED
    BY <2>1, <2>2
<1>4. sum = [n \in Nat |-> (IF n \in DOMAIN f THEN f[n] ELSE 0)
                           + (IF n = 0 THEN 0 ELSE sum[n - 1])]
  BY <1>3
<1> HIDE DEF sum
<1> DEFINE S == {n \in Nat : sum[n] = s[n]}
<1>5. \A n \in Nat : sum[n] = ValueAt(f, n) + (IF n = 0 THEN 0 ELSE sum[n - 1])
  BY <1>4 DEF ValueAt
<1>6. \A n \in Nat : s[n] = ValueAt(f, n) + (IF n = 0 THEN 0 ELSE s[n - 1])
  BY <1>2 DEF Adds
<1>7. 0 \in S
  BY <1>5, <1>6
<1>8. ASSUME NEW n \in S PROVE n + 1 \in S
  <2>1. n + 1 \in Nat /\ n + 1 # 0 /\ (n + 1) - 1 = n /\ sum[n] = s[n]
    OBVIOUS
  <2>2. sum[n + 1] = ValueAt(f, n + 1) + sum[n] /\ s[n + 1] = ValueAt(f, n + 1) + s[n]
    BY <1>5, <1>6, <2>1
  <2> QED
    BY <2>1, <2>2
<1>9. S = Nat
  <2> HIDE DEF S
  <2> QED
    BY <1>7, <1>8, Induction DEF S
<1>10. top \in DOMAIN f \cup {0} /\ \A x \in DOMAIN f \cup {0} : top >= x
  <2> DEFINE D == DOMAIN f \cup {0}
  <2>1. D \in SUBSET Nat /\ IsFiniteSet(D)
    BY FS_AddElement DEF Numbers
  <2>2. PICK b \in Nat : \A x \in D : x <= b
    BY <2>1, Bounded
  <2> DEFINE U == {n \in Nat : \A x \in D : x <= n}
  <2>3. U \in SUBSET Nat /\ U # {}
    BY <2>2
  <2>4. PICK u \in U : \A y \in U : u <= y
    <3> HIDE DEF U
    <3> QED
      BY <2>3, Least
  <2>5. u \in D
    <3> SUFFICES ASSUME u \notin D PROVE FALSE
      OBVIOUS
    <3>1. 0 \in D /\ u \in Nat /\ u # 0
      OBVIOUS
    <3>2. \A x \in D : x <= u - 1
      <4>1. \A x \in D : x \in Nat /\ x <= u /\ x # u
        BY <2>1
      <4> QED
        BY <3>1, <4>1
    <3>3. u - 1 \in U
      BY <3>1, <3>2
    <3> QED
      BY <2>4, <3>1, <3>3
  <2>6. \E x \in D : \A y \in D : x >= y
    BY <2>1, <2>5
  <2> QED
    BY <2>6 DEF Max
<1>11. top \in Nat
  BY <1>10 DEF Numbers
<1> HIDE DEF top
<1>12. ASSUME NEW m, Above(m, f) PROVE Total(f) = s[m]
  <2> DEFINE V == {n \in Nat : s[top + n] = s[top]}
  <2>1. 0 \in V
    BY <1>11
  <2>2. ASSUME NEW n \in V PROVE n + 1 \in V
    <3>1. top + (n + 1) \in Nat /\ (top + (n + 1)) - 1 = top + n /\ top + (n + 1) # 0
      BY <1>11
    <3>2. top + (n + 1) \notin DOMAIN f
      BY <1>10, <1>11 DEF Numbers
    <3>3. s[top + (n + 1)] = ValueAt(f, top + (n + 1)) + s[top + n]
      BY <1>6, <3>1
    <3>4. s[top] \in Int /\ s[top + n] = s[top]
      BY <1>2, <1>11 DEF Adds
    <3>5. s[top + (n + 1)] = s[top]
      BY <3>2, <3>3, <3>4 DEF ValueAt
    <3> QED
      BY <3>5
  <2>3. V = Nat
    <3> HIDE DEF V
    <3> QED
      BY <2>1, <2>2, Induction DEF V
  <2>4. top <= m /\ m \in Nat
    BY <1>10, <1>12 DEF Above
  <2>5. m - top \in Nat /\ top + (m - top) = m
    BY <1>11, <2>4
  <2>6. s[m] = s[top]
    BY <2>3, <2>5
  <2> QED
    BY <1>1, <1>9, <1>11, <2>6
<1> QED
  BY <1>2, <1>12

(* What changes at one number changes the sum by as much.                  *)
LEMMA TotalShift ==
  ASSUME NEW f, Numbers(f), NEW g, Numbers(g), NEW k \in Nat,
         \A n \in Nat : n # k => ValueAt(f, n) = ValueAt(g, n)
  PROVE  /\ Total(f) \in Int /\ Total(g) \in Int
         /\ Total(g) = Total(f) + (ValueAt(g, k) - ValueAt(f, k))
<1>1. PICK s : Adds(s, f) /\ \A m : Above(m, f) => Total(f) = s[m]
  BY TotalIs
<1>2. PICK u : Adds(u, g) /\ \A m : Above(m, g) => Total(g) = u[m]
  BY TotalIs
<1> DEFINE a == ValueAt(g, k) - ValueAt(f, k)
           S == {n \in Nat : u[n] = s[n] + (IF n < k THEN 0 ELSE a)}
<1>3. \A n \in Nat : /\ ValueAt(f, n) \in Int /\ ValueAt(g, n) \in Int
                     /\ s[n] \in Int /\ u[n] \in Int
  BY <1>1, <1>2 DEF Numbers, ValueAt, Adds
<1>4. /\ \A n \in Nat : s[n] = ValueAt(f, n) + (IF n = 0 THEN 0 ELSE s[n - 1])
      /\ \A n \in Nat : u[n] = ValueAt(g, n) + (IF n = 0 THEN 0 ELSE u[n - 1])
  BY <1>1, <1>2 DEF Adds
<1>5. 0 \in S
  <2>1. s[0] = ValueAt(f, 0) /\ u[0] = ValueAt(g, 0)
    BY <1>3, <1>4
  <2>2. CASE k = 0
    BY <1>3, <2>1, <2>2
  <2>3. CASE k # 0
    BY <1>3, <2>1, <2>3
  <2> QED
    BY <2>2, <2>3
<1>6. ASSUME NEW n \in S PROVE n + 1 \in S
  <2> DEFINE m == n + 1
  <2>1. m \in Nat /\ m # 0 /\ m - 1 = n /\ n \in Nat
    OBVIOUS
  <2>2. s[m] = ValueAt(f, m) + s[n] /\ u[m] = ValueAt(g, m) + u[n]
    BY <1>4, <2>1
  <2>3. u[n] = s[n] + (IF n < k THEN 0 ELSE a)
    OBVIOUS
  <2>4. /\ ValueAt(f, m) \in Int /\ ValueAt(g, m) \in Int /\ s[n] \in Int
        /\ ValueAt(f, k) \in Int /\ ValueAt(g, k) \in Int
    BY <1>3, <2>1
  <2>5. u[m] = s[m] + (IF m < k THEN 0 ELSE a)
    <3>1. CASE m = k
      <4>1. n < k /\ ~(m < k)
        BY <2>1, <3>1
      <4> QED
        BY <2>2, <2>3, <2>4, <3>1, <4>1
    <3>2. CASE m # k
      <4>1. ValueAt(f, m) = ValueAt(g, m) /\ (n < k <=> m < k)
        BY <2>1, <3>2
      <4>2. a \in Int
        BY <2>4
      <4> HIDE DEF a
      <4> QED
        BY <2>2, <2>3, <2>4, <4>1, <4>2
    <3> QED
      BY <3>1, <3>2
  <2> QED
    BY <2>1, <2>5
<1>7. S = Nat
  <2> HIDE DEF S
  <2> QED
    BY <1>5, <1>6, Induction DEF S
<1>8. PICK b \in Nat : \A x \in DOMAIN f : x <= b
  BY Bounded DEF Numbers
<1>9. PICK c \in Nat : \A x \in DOMAIN g : x <= c
  BY Bounded DEF Numbers
<1> DEFINE m == b + c + k
<1>10. Above(m, f) /\ Above(m, g) /\ m \in Nat /\ ~(m < k)
  <2>1. \A x \in DOMAIN f : x \in Nat /\ x <= b
    BY <1>8 DEF Numbers
  <2>2. \A x \in DOMAIN g : x \in Nat /\ x <= c
    BY <1>9 DEF Numbers
  <2> QED
    BY <2>1, <2>2 DEF Above
<1> HIDE DEF m
<1>11. Total(f) = s[m] /\ Total(g) = u[m]
  BY <1>1, <1>2, <1>10
<1>12. u[m] = s[m] + a
  <2> HIDE DEF a
  <2> QED
    BY <1>7, <1>10
<1> QED
  BY <1>3, <1>10, <1>11, <1>12

(* The same for two members of a set of numbers.                           *)
LEMMA TotalTwo ==
  ASSUME NEW S \in SUBSET Nat, IsFiniteSet(S), NEW f \in [S -> Int], NEW g \in [S -> Int],
         NEW h \in S, NEW a \in S, h # a,
         \A n \in S : n # h /\ n # a => f[n] = g[n]
  PROVE  /\ Total(f) \in Int /\ Total(g) \in Int
         /\ Total(g) = Total(f) + (g[h] - f[h]) + (g[a] - f[a])
<1> DEFINE e == [f EXCEPT ![h] = g[h]]
<1>1. e \in [S -> Int] /\ e[h] = g[h] /\ \A n \in S : n # h => e[n] = f[n]
  OBVIOUS
<1>2. \A x \in [S -> Int] : Numbers(x)
  BY DEF Numbers
<1> HIDE DEF e
<1>3. /\ \A n \in Nat : n # h => ValueAt(f, n) = ValueAt(e, n)
      /\ \A n \in Nat : n # a => ValueAt(e, n) = ValueAt(g, n)
      /\ ValueAt(f, h) = f[h] /\ ValueAt(e, h) = g[h]
      /\ ValueAt(e, a) = f[a] /\ ValueAt(g, a) = g[a]
  BY <1>1 DEF ValueAt
<1>4. h \in Nat /\ a \in Nat /\ Numbers(e) /\ Numbers(f) /\ Numbers(g)
  BY <1>1, <1>2
<1>5. /\ Total(f) \in Int /\ Total(e) \in Int
      /\ Total(e) = Total(f) + (ValueAt(e, h) - ValueAt(f, h))
  BY <1>3, <1>4, TotalShift
<1>6. Total(g) \in Int /\ Total(g) = Total(e) + (ValueAt(g, a) - ValueAt(e, a))
  BY <1>3, <1>4, TotalShift
<1>7. f[h] \in Int /\ g[h] \in Int /\ f[a] \in Int /\ g[a] \in Int
  OBVIOUS
<1> QED
  BY <1>3, <1>5, <1>6, <1>7

LEMMA TotalZero ==
  ASSUME NEW f, Numbers(f), \A n \in DOMAIN f : f[n] = 0
  PROVE  Total(f) = 0
<1>1. PICK s : Adds(s, f) /\ \A m : Above(m, f) => Total(f) = s[m]
  BY TotalIs
<1> DEFINE S == {n \in Nat : s[n] = 0}
<1>2. \A n \in Nat : s[n] = 0 + (IF n = 0 THEN 0 ELSE s[n - 1])
  BY <1>1 DEF Adds, ValueAt
<1>3. 0 \in S
  BY <1>2
<1>4. ASSUME NEW n \in S PROVE n + 1 \in S
  <2>1. n + 1 \in Nat /\ n + 1 # 0 /\ (n + 1) - 1 = n /\ s[n] = 0
    OBVIOUS
  <2>2. s[n + 1] = 0 + s[n]
    BY <1>2, <2>1
  <2> QED
    BY <2>1, <2>2
<1>5. S = Nat
  <2> HIDE DEF S
  <2> QED
    BY <1>3, <1>4, Induction DEF S
<1>6. PICK b \in Nat : \A x \in DOMAIN f : x <= b
  BY Bounded DEF Numbers
<1>7. Above(b, f)
  BY <1>6 DEF Above
<1> QED
  BY <1>1, <1>5, <1>6, <1>7

-----------------------------------------------------------------------------
(* The matches of a team, with one result more.                            *)
Last(c, rs) == IF c THEN {Len(rs) + 1} ELSE {}

LEMMA MatchesMore ==
  ASSUME NEW rs \in Seq(MatchResult), NEW r \in MatchResult, NEW t, NEW among
  PROVE  LET qs == Append(rs, r) IN
         /\ MatchesOf(t, among, qs) =
              MatchesOf(t, among, rs) \cup Last(Between(t, among, r), rs)
         /\ WonBy(t, among, qs) =
              WonBy(t, among, rs)
                \cup Last(Between(t, among, r) /\ Scored(t, r) > Against(t, r), rs)
         /\ LostBy(t, among, qs) =
              LostBy(t, among, rs)
                \cup Last(Between(t, among, r) /\ Scored(t, r) < Against(t, r), rs)
<1> DEFINE qs == Append(rs, r)
           n == Len(rs)
<1>1. /\ n \in Nat /\ DOMAIN rs = 1 .. n /\ DOMAIN qs = 1 .. n + 1 /\ qs[n + 1] = r
      /\ \A i \in 1 .. n : qs[i] = rs[i]
  OBVIOUS
<1>2. /\ n + 1 \in 1 .. n + 1 /\ n + 1 \notin 1 .. n
      /\ \A i \in 1 .. n + 1 : i \in 1 .. n \/ i = n + 1
      /\ \A i \in 1 .. n : i \in 1 .. n + 1
  BY <1>1
<1> HIDE DEF qs
<1>3. \A i : i \in MatchesOf(t, among, qs) <=>
               \/ i \in MatchesOf(t, among, rs)
               \/ i = n + 1 /\ Between(t, among, r)
  BY <1>1, <1>2 DEF MatchesOf, Between
<1>4. \A i \in MatchesOf(t, among, rs) : qs[i] = rs[i]
  BY <1>1 DEF MatchesOf
<1>5. \A c : Last(c, rs) = IF c THEN {n + 1} ELSE {}
  BY DEF Last
<1>6. MatchesOf(t, among, qs) = MatchesOf(t, among, rs) \cup Last(Between(t, among, r), rs)
  BY <1>3, <1>5
<1>7. WonBy(t, among, qs) =
        WonBy(t, among, rs)
          \cup Last(Between(t, among, r) /\ Scored(t, r) > Against(t, r), rs)
  BY <1>1, <1>3, <1>4, <1>5 DEF WonBy
<1>8. LostBy(t, among, qs) =
        LostBy(t, among, rs)
          \cup Last(Between(t, among, r) /\ Scored(t, r) < Against(t, r), rs)
  BY <1>1, <1>3, <1>4, <1>5 DEF LostBy
<1> QED
  BY <1>6, <1>7, <1>8 DEF qs

LEMMA MatchesFinite ==
  ASSUME NEW rs \in Seq(MatchResult), NEW t, NEW among
  PROVE  LET n == Len(rs) + 1 IN
         /\ MatchesOf(t, among, rs) \in SUBSET Nat
         /\ IsFiniteSet(MatchesOf(t, among, rs)) /\ n \notin MatchesOf(t, among, rs)
         /\ IsFiniteSet(WonBy(t, among, rs)) /\ n \notin WonBy(t, among, rs)
         /\ IsFiniteSet(LostBy(t, among, rs)) /\ n \notin LostBy(t, among, rs)
         /\ Cardinality(MatchesOf(t, among, rs)) \in Nat
         /\ Cardinality(WonBy(t, among, rs)) \in Nat
         /\ Cardinality(LostBy(t, among, rs)) \in Nat
<1> DEFINE n == Len(rs)
           D == 1 .. n
<1>1. n \in Nat /\ DOMAIN rs = D /\ n + 1 \notin D /\ D \in SUBSET Nat
  OBVIOUS
<1>2. IsFiniteSet(D)
  <2> HIDE DEF n
  <2> QED
    BY <1>1, FS_Interval
<1>3. /\ MatchesOf(t, among, rs) \subseteq D
      /\ WonBy(t, among, rs) \subseteq D /\ LostBy(t, among, rs) \subseteq D
  BY <1>1 DEF MatchesOf, WonBy, LostBy
<1> HIDE DEF D
<1> QED
  BY <1>1, <1>2, <1>3, FS_Subset, FS_CardinalityType

LEMMA OneMore ==
  ASSUME NEW S, IsFiniteSet(S), NEW n, n \notin S, NEW c \in BOOLEAN
  PROVE  Cardinality(S \cup (IF c THEN {n} ELSE {})) =
           Cardinality(S) + (IF c THEN 1 ELSE 0)
<1>1. Cardinality(S) \in Nat /\ Cardinality(S \cup {n}) = Cardinality(S) + 1
  BY FS_AddElement, FS_CardinalityType
<1>2. S \cup {} = S
  OBVIOUS
<1> QED
  BY <1>1, <1>2

LEMMA CountsMore ==
  ASSUME NEW rs \in Seq(MatchResult), NEW r \in MatchResult, NEW t, NEW among
  PROVE  LET qs == Append(rs, r)
             in == Between(t, among, r) IN
         /\ Cardinality(MatchesOf(t, among, qs)) =
              Cardinality(MatchesOf(t, among, rs)) + (IF in THEN 1 ELSE 0)
         /\ Cardinality(WonBy(t, among, qs)) =
              Cardinality(WonBy(t, among, rs))
                + (IF in /\ Scored(t, r) > Against(t, r) THEN 1 ELSE 0)
         /\ Cardinality(LostBy(t, among, qs)) =
              Cardinality(LostBy(t, among, rs))
                + (IF in /\ Scored(t, r) < Against(t, r) THEN 1 ELSE 0)
<1> DEFINE b == Between(t, among, r)
           w == b /\ Scored(t, r) > Against(t, r)
           l == b /\ Scored(t, r) < Against(t, r)
<1>1. b \in BOOLEAN /\ w \in BOOLEAN /\ l \in BOOLEAN
  BY DEF Between
<1>2. /\ MatchesOf(t, among, Append(rs, r)) = MatchesOf(t, among, rs) \cup Last(b, rs)
      /\ WonBy(t, among, Append(rs, r)) = WonBy(t, among, rs) \cup Last(w, rs)
      /\ LostBy(t, among, Append(rs, r)) = LostBy(t, among, rs) \cup Last(l, rs)
  BY MatchesMore
<1> HIDE DEF b, w, l
<1>3. /\ Cardinality(MatchesOf(t, among, rs) \cup Last(b, rs)) =
           Cardinality(MatchesOf(t, among, rs)) + (IF b THEN 1 ELSE 0)
      /\ Cardinality(WonBy(t, among, rs) \cup Last(w, rs)) =
           Cardinality(WonBy(t, among, rs)) + (IF w THEN 1 ELSE 0)
      /\ Cardinality(LostBy(t, among, rs) \cup Last(l, rs)) =
           Cardinality(LostBy(t, among, rs)) + (IF l THEN 1 ELSE 0)
  BY <1>1, MatchesFinite, OneMore DEF Last
<1> QED
  BY <1>2, <1>3 DEF b, w, l

LEMMA LeagueMore ==
  ASSUME NEW t, NEW among
  PROVE  /\ LeaguePoints(t, among, <<>>) = 0
         /\ \A rs \in Seq(MatchResult), r \in MatchResult :
              LeaguePoints(t, among, Append(rs, r)) =
                LeaguePoints(t, among, rs) + Share(t, among, r)
<1>1. Win \in Int /\ Draw \in Int /\ Loss \in Int
  BY PointsAssumption
<1>2. LeaguePoints(t, among, <<>>) = 0
  <2>1. /\ MatchesOf(t, among, <<>>) = {} /\ WonBy(t, among, <<>>) = {}
        /\ LostBy(t, among, <<>>) = {}
    BY DEF MatchesOf, WonBy, LostBy
  <2>2. Cardinality({}) = 0
    BY FS_EmptySet
  <2>3. 0 - 0 - 0 = 0 /\ \A k \in Int : 0 * k = 0
    OBVIOUS
  <2>4. LeaguePoints(t, among, <<>>) = 0 * Win + 0 * Loss + 0 * Draw
    BY <2>1, <2>2, <2>3 DEF LeaguePoints
  <2> QED
    BY <1>1, <2>3, <2>4
<1>3. ASSUME NEW rs \in Seq(MatchResult), NEW r \in MatchResult
      PROVE  LeaguePoints(t, among, Append(rs, r)) =
               LeaguePoints(t, among, rs) + Share(t, among, r)
  <2> DEFINE n == Cardinality(MatchesOf(t, among, rs))
             w == Cardinality(WonBy(t, among, rs))
             l == Cardinality(LostBy(t, among, rs))
             qs == Append(rs, r)
             nn == Cardinality(MatchesOf(t, among, qs))
             ww == Cardinality(WonBy(t, among, qs))
             ll == Cardinality(LostBy(t, among, qs))
             in == Between(t, among, r)
             x == Scored(t, r)
             y == Against(t, r)
  <2>1. n \in Nat /\ w \in Nat /\ l \in Nat
    BY MatchesFinite
  <2>2. /\ nn = n + (IF in THEN 1 ELSE 0)
        /\ ww = w + (IF in /\ x > y THEN 1 ELSE 0)
        /\ ll = l + (IF in /\ x < y THEN 1 ELSE 0)
    BY CountsMore
  <2>3. x \in Nat /\ y \in Nat
    BY ResultTyped
  <2>4. Share(t, among, r) = IF in THEN PointsOf(x, y) ELSE 0
    BY DEF Share, Earned, Scored, Against
  <2>5. /\ LeaguePoints(t, among, rs) = w * Win + l * Loss + (n - w - l) * Draw
        /\ LeaguePoints(t, among, qs) = ww * Win + ll * Loss + (nn - ww - ll) * Draw
    BY DEF LeaguePoints
  <2> HIDE DEF n, w, l, nn, ww, ll, x, y, in, qs
  <2>6. \A i, k \in Int : i * k \in Int /\ (i + 1) * k = i * k + k
    OBVIOUS
  <2>7. /\ w * Win \in Int /\ l * Loss \in Int /\ (n - w - l) * Draw \in Int
        /\ n - w - l \in Int
    BY <1>1, <2>1, <2>6
  <2>8. LeaguePoints(t, among, qs) = LeaguePoints(t, among, rs) + Share(t, among, r)
    <3>1. CASE ~in
      <4>1. nn = n /\ ww = w /\ ll = l
        BY <2>1, <2>2, <3>1
      <4> QED
        BY <2>4, <2>5, <2>7, <3>1, <4>1
    <3>2. CASE in /\ x > y
      <4>1. nn - ww - ll = n - w - l /\ ww = w + 1 /\ ll = l
        BY <2>1, <2>2, <2>3, <3>2
      <4>2. Share(t, among, r) = Win
        BY <2>3, <2>4, <3>2 DEF PointsOf
      <4>3. (w + 1) * Win = w * Win + Win
        BY <1>1, <2>1, <2>6
      <4> QED
        BY <1>1, <2>5, <2>7, <4>1, <4>2, <4>3
    <3>3. CASE in /\ x < y
      <4>1. nn - ww - ll = n - w - l /\ ww = w /\ ll = l + 1
        BY <2>1, <2>2, <2>3, <3>3
      <4>2. Share(t, among, r) = Loss
        BY <2>3, <2>4, <3>3 DEF PointsOf
      <4>3. (l + 1) * Loss = l * Loss + Loss
        BY <1>1, <2>1, <2>6
      <4> QED
        BY <1>1, <2>5, <2>7, <4>1, <4>2, <4>3
    <3>4. CASE in /\ x = y
      <4>1. nn - ww - ll = (n - w - l) + 1 /\ ww = w /\ ll = l
        BY <2>1, <2>2, <2>3, <3>4
      <4>2. Share(t, among, r) = Draw
        BY <2>3, <2>4, <3>4 DEF PointsOf
      <4>3. ((n - w - l) + 1) * Draw = (n - w - l) * Draw + Draw
        BY <1>1, <2>6, <2>7
      <4> QED
        BY <1>1, <2>5, <2>7, <4>1, <4>2, <4>3
    <3> QED
      BY <2>3, <3>1, <3>2, <3>3, <3>4
  <2> QED
    BY <2>8 DEF qs
<1> QED
  BY <1>2, <1>3

GoalsOf(t, rs) == [i \in MatchesOf(t, Team, rs) |-> Scored(t, rs[i])]

LEMMA GoalsMore ==
  ASSUME NEW rs \in Seq(MatchResult), NEW r \in MatchResult, NEW t
  PROVE  /\ Total(GoalsOf(t, rs)) \in Int
         /\ Total(GoalsOf(t, Append(rs, r))) =
              Total(GoalsOf(t, rs)) + (IF Between(t, Team, r) THEN Scored(t, r) ELSE 0)
<1> DEFINE qs == Append(rs, r)
           f == GoalsOf(t, rs)
           g == GoalsOf(t, qs)
           k == Len(rs) + 1
           M == MatchesOf(t, Team, rs)
           N == MatchesOf(t, Team, qs)
<1>1. /\ qs \in Seq(MatchResult) /\ Len(rs) \in Nat /\ k \in Nat /\ qs[k] = r
      /\ DOMAIN rs = 1 .. Len(rs) /\ \A i \in 1 .. Len(rs) : qs[i] = rs[i]
  OBVIOUS
<1>2. /\ N = M \cup Last(Between(t, Team, r), rs) /\ k \notin M
      /\ M \in SUBSET Nat /\ IsFiniteSet(M)
  BY MatchesMore, MatchesFinite
<1>3. N \in SUBSET Nat /\ IsFiniteSet(N)
  BY <1>1, MatchesFinite
<1>4. \A q \in Seq(MatchResult) :
        \A i \in MatchesOf(t, Team, q) : Scored(t, q[i]) \in Nat
  <2>1. ASSUME NEW q \in Seq(MatchResult), NEW i \in MatchesOf(t, Team, q)
        PROVE  Scored(t, q[i]) \in Nat
    <3>1. q[i] \in MatchResult
      BY DEF MatchesOf
    <3> QED
      BY <3>1, ResultTyped
  <2> QED
    BY <2>1
<1>5. /\ DOMAIN f = M /\ \A i \in M : f[i] = Scored(t, rs[i])
      /\ DOMAIN g = N /\ \A i \in N : g[i] = Scored(t, qs[i])
  BY DEF GoalsOf
<1>6. \A i \in M : qs[i] = rs[i]
  BY <1>1 DEF MatchesOf
<1>7. Numbers(f) /\ Numbers(g)
  <2>1. \A i \in M : f[i] \in Int
    BY <1>4, <1>5
  <2>2. ASSUME NEW i \in N PROVE g[i] \in Int
    <3>1. qs \in Seq(MatchResult) /\ g[i] = Scored(t, qs[i])
      BY <1>1, <1>5
    <3> HIDE DEF qs
    <3> QED
      BY <1>4, <3>1
  <2> HIDE DEF f, g, M, N
  <2> QED
    BY <1>2, <1>3, <1>5, <2>1, <2>2 DEF Numbers
<1> HIDE DEF f, g, M, N, qs
<1>8. \A n \in Nat : n # k => ValueAt(f, n) = ValueAt(g, n)
  BY <1>2, <1>5, <1>6 DEF ValueAt, Last
<1>9. /\ ValueAt(f, k) = 0
      /\ ValueAt(g, k) = IF Between(t, Team, r) THEN Scored(t, r) ELSE 0
  BY <1>1, <1>2, <1>5 DEF ValueAt, Last
<1>10. /\ Total(f) \in Int
       /\ Total(g) = Total(f) + (ValueAt(g, k) - ValueAt(f, k))
  BY <1>1, <1>7, <1>8, TotalShift
<1>11. (IF Between(t, Team, r) THEN Scored(t, r) ELSE 0) \in Int
  BY ResultTyped
<1> HIDE DEF k
<1> QED
  BY <1>9, <1>10, <1>11 DEF f, g, qs

WonIn(rows) == [t \in Team |-> rows[t].won]
LostIn(rows) == [t \in Team |-> rows[t].lost]
DifferenceIn(rows) == [t \in Team |-> GoalDifference(rows[t])]

Balanced(rows) ==
  Total(WonIn(rows)) = Total(LostIn(rows)) /\ Total(DifferenceIn(rows)) = 0

LEMMA RowFields ==
  ASSUME NEW row \in Row
  PROVE  /\ row.played \in Nat /\ row.won \in Nat /\ row.drawn \in Nat /\ row.lost \in Nat
         /\ row.goals_for \in Nat /\ row.goals_against \in Nat
         /\ GoalDifference(row) = row.goals_for - row.goals_against
         /\ GoalDifference(row) \in Int
BY DEF Row, GoalDifference

LEMMA BalanceMore ==
  ASSUME NEW rows \in Table, NEW r \in MatchResult, Balanced(rows)
  PROVE  Balanced(Play(rows, r))
<1> DEFINE new == Play(rows, r)
           h == r.home
           a == r.away
           x == r.home_score
           y == r.away_score
<1>1. new \in Table /\ \A t \in Team : new[t] = Side(rows[t], t, r)
  BY PlaySides
<1>2. h # a /\ x \in Nat /\ y \in Nat
  BY ResultTyped
<1>3. Team \in SUBSET Nat /\ IsFiniteSet(Team)
  BY TeamAssumption
<1>4. \A t \in Team : rows[t] \in Row /\ new[t] \in Row
  BY <1>1 DEF Table
<1> HIDE DEF new
<1>5. CASE {h, a} \subseteq Team
  <2>1. h \in Team /\ a \in Team
    BY <1>5
  <2>2. /\ new[h] = Tally(rows[h], x, y) /\ new[a] = Tally(rows[a], y, x)
        /\ \A t \in Team : t # h /\ t # a => new[t] = rows[t]
    BY <1>1, <1>2, <1>5 DEF Side, Between, Scored, Against
  <2>3. /\ new[h].won = rows[h].won + (IF x > y THEN 1 ELSE 0)
        /\ new[h].lost = rows[h].lost + (IF x < y THEN 1 ELSE 0)
        /\ new[h].goals_for = rows[h].goals_for + x
        /\ new[h].goals_against = rows[h].goals_against + y
        /\ new[a].won = rows[a].won + (IF y > x THEN 1 ELSE 0)
        /\ new[a].lost = rows[a].lost + (IF y < x THEN 1 ELSE 0)
        /\ new[a].goals_for = rows[a].goals_for + y
        /\ new[a].goals_against = rows[a].goals_against + x
    BY <1>2, <1>4, <2>1, <2>2, TallyTyped
  <2> HIDE DEF h, a, x, y
  <2>4. \A t \in Team : /\ rows[t].won \in Int /\ new[t].won \in Int
                        /\ rows[t].lost \in Int /\ new[t].lost \in Int
                        /\ GoalDifference(rows[t]) \in Int /\ GoalDifference(new[t]) \in Int
    BY <1>4, RowFields
  <2> DEFINE ow == WonIn(rows)
             nw == WonIn(new)
             ol == LostIn(rows)
             nl == LostIn(new)
             od == DifferenceIn(rows)
             nd == DifferenceIn(new)
  <2>5. /\ ow \in [Team -> Int] /\ nw \in [Team -> Int] /\ ol \in [Team -> Int]
        /\ nl \in [Team -> Int] /\ od \in [Team -> Int] /\ nd \in [Team -> Int]
    BY <2>4 DEF WonIn, LostIn, DifferenceIn
  <2>6. \A t \in Team : /\ ow[t] = rows[t].won /\ nw[t] = new[t].won
                        /\ ol[t] = rows[t].lost /\ nl[t] = new[t].lost
                        /\ od[t] = GoalDifference(rows[t])
                        /\ nd[t] = GoalDifference(new[t])
    BY DEF WonIn, LostIn, DifferenceIn
  <2> HIDE DEF ow, nw, ol, nl, od, nd
  <2>7. \A t \in Team : t # h /\ t # a => ow[t] = nw[t] /\ ol[t] = nl[t] /\ od[t] = nd[t]
    BY <2>2, <2>6
  <2>8. /\ Total(ow) \in Int /\ Total(nw) \in Int
        /\ Total(nw) = Total(ow) + (nw[h] - ow[h]) + (nw[a] - ow[a])
    BY <1>2, <1>3, <2>1, <2>5, <2>7, TotalTwo DEF h, a
  <2>9. /\ Total(ol) \in Int /\ Total(nl) \in Int
        /\ Total(nl) = Total(ol) + (nl[h] - ol[h]) + (nl[a] - ol[a])
    BY <1>2, <1>3, <2>1, <2>5, <2>7, TotalTwo DEF h, a
  <2>10. /\ Total(od) \in Int /\ Total(nd) \in Int
         /\ Total(nd) = Total(od) + (nd[h] - od[h]) + (nd[a] - od[a])
    BY <1>2, <1>3, <2>1, <2>5, <2>7, TotalTwo DEF h, a
  <2>11. Total(ow) = Total(ol) /\ Total(od) = 0
    BY DEF Balanced, ow, ol, od
  <2>12. /\ nw[h] - ow[h] = (IF x > y THEN 1 ELSE 0)
         /\ nw[a] - ow[a] = (IF y > x THEN 1 ELSE 0)
         /\ nl[h] - ol[h] = (IF x < y THEN 1 ELSE 0)
         /\ nl[a] - ol[a] = (IF y < x THEN 1 ELSE 0)
    BY <2>1, <2>3, <2>4, <2>6
  <2>13. x \in Nat /\ y \in Nat
    BY <1>2 DEF x, y
  <2>14. nd[h] - od[h] = x - y /\ nd[a] - od[a] = y - x
    <3>1. rows[h] \in Row /\ new[h] \in Row /\ rows[a] \in Row /\ new[a] \in Row
      BY <1>4, <2>1
    <3>2. /\ od[h] = rows[h].goals_for - rows[h].goals_against
          /\ nd[h] = new[h].goals_for - new[h].goals_against
          /\ od[a] = rows[a].goals_for - rows[a].goals_against
          /\ nd[a] = new[a].goals_for - new[a].goals_against
      BY <2>1, <2>6, <3>1, RowFields
    <3>3. /\ rows[h].goals_for \in Nat /\ rows[h].goals_against \in Nat
          /\ rows[a].goals_for \in Nat /\ rows[a].goals_against \in Nat
      BY <3>1, RowFields
    <3> QED
      BY <2>3, <2>13, <3>2, <3>3
  <2>15. Total(nw) = Total(nl)
    BY <2>8, <2>9, <2>11, <2>12, <2>13
  <2>16. Total(nd) = 0
    BY <2>10, <2>11, <2>13, <2>14
  <2> QED
    BY <2>15, <2>16 DEF Balanced, nw, nl, nd, new
<1>6. CASE ~({h, a} \subseteq Team)
  <2>1. new = rows
    BY <1>6 DEF new, Play
  <2> QED
    BY <2>1 DEF new
<1> QED
  BY <1>5, <1>6

-----------------------------------------------------------------------------
(* What the rows and the head-to-head points are made of.                  *)
Booked(row, t, rs) ==
  /\ row.played = Cardinality(MatchesOf(t, Team, rs))
  /\ row.won = Cardinality(WonBy(t, Team, rs))
  /\ row.lost = Cardinality(LostBy(t, Team, rs))
  /\ row.drawn = row.played - row.won - row.lost
  /\ row.goals_for = Total(GoalsOf(t, rs))

BooksOf(rs) ==
  /\ \A t \in Team : Booked(Rows(rs)[t], t, rs)
  /\ \A t : \A tied : HeadToHead(t, tied, rs) = LeaguePoints(t, tied, rs)
  /\ Balanced(Rows(rs))

Books == BooksOf(results)

LEMMA BookedMore ==
  ASSUME NEW rs \in Seq(MatchResult), NEW r \in MatchResult, NEW t \in Team,
         Booked(Rows(rs)[t], t, rs)
  PROVE  Booked(Rows(Append(rs, r))[t], t, Append(rs, r))
<1> DEFINE qs == Append(rs, r)
           old == Rows(rs)[t]
           new == Rows(qs)[t]
           in == Between(t, Team, r)
           x == Scored(t, r)
           y == Against(t, r)
<1>1. old \in Row /\ new = Side(old, t, r)
  <2>1. Rows(rs) \in Table /\ Rows(qs) = Play(Rows(rs), r)
    BY RowsMore
  <2> QED
    BY <2>1, PlaySides DEF Table
<1>2. x \in Nat /\ y \in Nat
  BY ResultTyped
<1>3. /\ new.played = old.played + (IF in THEN 1 ELSE 0)
      /\ new.won = old.won + (IF in /\ x > y THEN 1 ELSE 0)
      /\ new.lost = old.lost + (IF in /\ x < y THEN 1 ELSE 0)
      /\ new.drawn = old.drawn + (IF in /\ x = y THEN 1 ELSE 0)
      /\ new.goals_for = old.goals_for + (IF in THEN x ELSE 0)
  <2>1. CASE in
    <3>1. new = Tally(old, x, y)
      BY <1>1, <2>1 DEF Side
    <3> HIDE DEF old, new, x, y, in
    <3>2. /\ new.played = old.played + 1 /\ new.goals_for = old.goals_for + x
          /\ new.won = old.won + (IF x > y THEN 1 ELSE 0)
          /\ new.drawn = old.drawn + (IF x = y THEN 1 ELSE 0)
          /\ new.lost = old.lost + (IF x < y THEN 1 ELSE 0)
      <4> DEFINE n == Tally(old, x, y)
      <4>1. old \in Row
        BY <1>1
      <4>2. x \in Nat /\ y \in Nat
        BY <1>2
      <4>3. /\ n.goals_for = old.goals_for + x
            /\ n.won = old.won + (IF x > y THEN 1 ELSE 0)
        BY <4>1, <4>2, TallyTyped
      <4>5. n.played = old.played + 1
        BY <4>1, <4>2, TallyTyped
      <4>4. /\ n.drawn = old.drawn + (IF x = y THEN 1 ELSE 0)
            /\ n.lost = old.lost + (IF x < y THEN 1 ELSE 0)
        BY <4>1, <4>2, TallyTyped
      <4> QED
        BY <3>1, <4>3, <4>4, <4>5
    <3> QED
      BY <2>1, <3>2
  <2>2. CASE ~in
    <3>1. new = old
      BY <1>1, <2>2 DEF Side
    <3> HIDE DEF old, new, x, y, in
    <3> QED
      BY <1>1, <2>2, <3>1, RowFields
  <2> QED
    BY <2>1, <2>2
<1>4. /\ Cardinality(MatchesOf(t, Team, qs)) =
           Cardinality(MatchesOf(t, Team, rs)) + (IF in THEN 1 ELSE 0)
      /\ Cardinality(WonBy(t, Team, qs)) =
           Cardinality(WonBy(t, Team, rs)) + (IF in /\ x > y THEN 1 ELSE 0)
      /\ Cardinality(LostBy(t, Team, qs)) =
           Cardinality(LostBy(t, Team, rs)) + (IF in /\ x < y THEN 1 ELSE 0)
  BY CountsMore
<1>5. Total(GoalsOf(t, qs)) = Total(GoalsOf(t, rs)) + (IF in THEN x ELSE 0)
  BY GoalsMore
<1>6. /\ old.played = Cardinality(MatchesOf(t, Team, rs))
      /\ old.won = Cardinality(WonBy(t, Team, rs))
      /\ old.lost = Cardinality(LostBy(t, Team, rs))
      /\ old.drawn = old.played - old.won - old.lost
      /\ old.goals_for = Total(GoalsOf(t, rs))
  BY DEF Booked
<1>7. old.played \in Nat /\ old.won \in Nat /\ old.lost \in Nat
  BY <1>1, RowFields
<1> HIDE DEF old, new, x, y, in, qs
<1>8. new.drawn = new.played - new.won - new.lost
  BY <1>2, <1>3, <1>6, <1>7
<1>9. /\ new.played = Cardinality(MatchesOf(t, Team, qs))
      /\ new.won = Cardinality(WonBy(t, Team, qs))
      /\ new.lost = Cardinality(LostBy(t, Team, qs))
      /\ new.goals_for = Total(GoalsOf(t, qs))
  BY <1>3, <1>4, <1>5, <1>6
<1> QED
  BY <1>8, <1>9 DEF Booked, new, qs

LEMMA BooksInit == ASSUME Init PROVE Books
<1>1. results = <<>> /\ Rows(results) = Blank
  BY RowsMore DEF Init
<1>2. BlankRow.played = 0 /\ BlankRow.won = 0 /\ BlankRow.drawn = 0 /\ BlankRow.lost = 0
      /\ BlankRow.goals_for = 0 /\ GoalDifference(BlankRow) = 0
  BY DEF BlankRow, GoalDifference
<1>3. \A t \in Team : Blank[t] = BlankRow
  BY DEF Blank
<1>4. ASSUME NEW t \in Team PROVE Booked(Blank[t], t, <<>>)
  <2>1. /\ MatchesOf(t, Team, <<>>) = {} /\ WonBy(t, Team, <<>>) = {}
        /\ LostBy(t, Team, <<>>) = {}
    BY DEF MatchesOf, WonBy, LostBy
  <2>2. Cardinality({}) = 0 /\ IsFiniteSet({})
    BY FS_EmptySet
  <2>3. Numbers(GoalsOf(t, <<>>)) /\ DOMAIN GoalsOf(t, <<>>) = {}
    BY <2>1, <2>2 DEF Numbers, GoalsOf
  <2>4. Total(GoalsOf(t, <<>>)) = 0
    BY <2>3, TotalZero
  <2>5. 0 = 0 - 0 - 0
    OBVIOUS
  <2> QED
    BY <1>2, <1>3, <2>1, <2>2, <2>4, <2>5 DEF Booked
<1>5. Balanced(Blank)
  <2>1. Team \in SUBSET Nat /\ IsFiniteSet(Team)
    BY TeamAssumption
  <2>2. /\ DOMAIN WonIn(Blank) = Team /\ \A t \in Team : WonIn(Blank)[t] = 0
        /\ DOMAIN LostIn(Blank) = Team /\ \A t \in Team : LostIn(Blank)[t] = 0
        /\ DOMAIN DifferenceIn(Blank) = Team /\ \A t \in Team : DifferenceIn(Blank)[t] = 0
    BY <1>2, <1>3 DEF WonIn, LostIn, DifferenceIn
  <2>3. Numbers(WonIn(Blank)) /\ Numbers(LostIn(Blank)) /\ Numbers(DifferenceIn(Blank))
    <3>1. ASSUME NEW f, DOMAIN f = Team, \A t \in Team : f[t] = 0 PROVE Numbers(f)
      <4>1. \A t \in DOMAIN f : f[t] \in Int
        BY <3>1
      <4>2. DOMAIN f \in SUBSET Nat /\ IsFiniteSet(DOMAIN f)
        BY <2>1, <3>1
      <4> QED
        BY <4>1, <4>2 DEF Numbers
    <3> QED
      BY <2>2, <3>1
  <2>4. /\ Total(WonIn(Blank)) = 0 /\ Total(LostIn(Blank)) = 0
        /\ Total(DifferenceIn(Blank)) = 0
    BY <2>2, <2>3, TotalZero
  <2> QED
    BY <2>4 DEF Balanced
<1>6. \A t : \A tied : HeadToHead(t, tied, <<>>) = LeaguePoints(t, tied, <<>>)
  BY HeadMore, LeagueMore
<1> QED
  BY <1>1, <1>4, <1>5, <1>6 DEF Books, BooksOf

LEMMA BooksStep == ASSUME Typed, Books, [Next]_vars PROVE Books'
<1>1. CASE Next
  <2>1. PICK r \in MatchResult : results' = Append(results, r)
    BY <1>1 DEF Next, AddResult
  <2> DEFINE rs == results
             qs == Append(rs, r)
  <2>2. rs \in Seq(MatchResult)
    BY DEF Typed
  <2>3. \A t \in Team : Booked(Rows(qs)[t], t, qs)
    BY <2>2, BookedMore DEF Books, BooksOf
  <2>4. \A t : \A tied : HeadToHead(t, tied, qs) = LeaguePoints(t, tied, qs)
    <3>1. ASSUME NEW t, NEW tied PROVE HeadToHead(t, tied, qs) = LeaguePoints(t, tied, qs)
      <4>1. /\ HeadToHead(t, tied, qs) = HeadToHead(t, tied, rs) + Share(t, tied, r)
            /\ LeaguePoints(t, tied, qs) = LeaguePoints(t, tied, rs) + Share(t, tied, r)
        BY <2>2, HeadMore, LeagueMore
      <4> QED
        BY <4>1 DEF Books, BooksOf
    <3> QED
      BY <3>1
  <2>5. Balanced(Rows(qs))
    <3>1. Rows(rs) \in Table /\ Rows(qs) = Play(Rows(rs), r)
      BY <2>2, RowsMore
    <3> QED
      BY <3>1, BalanceMore DEF Books, BooksOf
  <2> HIDE DEF qs
  <2>6. results' = qs
    BY <2>1 DEF qs
  <2> QED
    BY <2>3, <2>4, <2>5, <2>6 DEF Books, BooksOf
<1>2. CASE UNCHANGED vars
  BY <1>2 DEF Books, BooksOf, vars
<1> QED
  BY <1>1, <1>2

(* The inductive invariant of the table.                                   *)
THEOREM Invariance == Spec => [](Typed /\ Books)
<1>1. Init => Books
  BY BooksInit
<1>2. Typed /\ Books /\ [Next]_vars => Books'
  BY BooksStep
<1> QED
  BY <1>1, <1>2, Typing, PTL DEF Spec

LEMMA PointsOfRow ==
  ASSUME NEW rs \in Seq(MatchResult), BooksOf(rs), NEW t \in Team
  PROVE  LET rows == Rows(rs) IN
         /\ rows[t] \in Row /\ Points(rows[t]) \in Int
         /\ Points(rows[t]) = LeaguePoints(t, Team, rs)
<1> DEFINE row == Rows(rs)[t]
<1>1. row \in Row
  BY RowsMore DEF Table
<1>2. /\ row.played = Cardinality(MatchesOf(t, Team, rs))
      /\ row.won = Cardinality(WonBy(t, Team, rs))
      /\ row.lost = Cardinality(LostBy(t, Team, rs))
      /\ row.drawn = row.played - row.won - row.lost
  BY DEF BooksOf, Booked
<1>3. Points(row) = row.won * Win + row.drawn * Draw + row.lost * Loss
  BY DEF Points
<1>4. LeaguePoints(t, Team, rs) =
        row.won * Win + row.lost * Loss + (row.played - row.won - row.lost) * Draw
  BY <1>2 DEF LeaguePoints
<1>5. row.won \in Nat /\ row.drawn \in Nat /\ row.lost \in Nat
  BY <1>1, RowFields
<1> HIDE DEF row
<1>6. Win \in Int /\ Draw \in Int /\ Loss \in Int
  BY PointsAssumption
<1>7. \A i, k \in Int : i * k \in Int
  OBVIOUS
<1>8. /\ row.won * Win \in Int /\ row.drawn * Draw \in Int /\ row.lost * Loss \in Int
  BY <1>5, <1>6, <1>7
<1>9. Points(row) \in Int
  BY <1>3, <1>8
<1>10. LeaguePoints(t, Team, rs) = row.won * Win + row.lost * Loss + row.drawn * Draw
  BY <1>2, <1>4
<1>11. Points(row) = LeaguePoints(t, Team, rs)
  BY <1>3, <1>8, <1>10
<1> QED
  BY <1>1, <1>9, <1>11 DEF row

(* Each row is the sum of the matches of its team inside the group, and    *)
(* over the group the books balance, whatever the results.                 *)
THEOREM AddUp == Spec => []RowsAddUp
<1>1. ASSUME Typed, Books PROVE RowsAddUp
  <2>1. ASSUME NEW t \in Team
        PROVE  /\ Rows(results)[t].played = Cardinality(MatchesOf(t, Team, results))
               /\ Points(Rows(results)[t]) = LeaguePoints(t, Team, results)
               /\ Rows(results)[t].goals_for =
                    Total([i \in MatchesOf(t, Team, results) |-> Scored(t, results[i])])
    <3>1. Booked(Rows(results)[t], t, results)
      BY <1>1 DEF Books, BooksOf
    <3>2. Points(Rows(results)[t]) = LeaguePoints(t, Team, results)
      BY <1>1, PointsOfRow DEF Typed, Books
    <3> QED
      BY <3>1, <3>2 DEF Booked, GoalsOf
  <2>2. /\ Total([t \in Team |-> Rows(results)[t].won]) =
             Total([t \in Team |-> Rows(results)[t].lost])
        /\ Total([t \in Team |-> GoalDifference(Rows(results)[t])]) = 0
    BY <1>1 DEF Books, BooksOf, Balanced, WonIn, LostIn, DifferenceIn
  <2> QED
    BY <2>1, <2>2 DEF RowsAddUp
<1>2. Typed /\ Books => RowsAddUp
  BY <1>1
<1> QED
  BY <1>2, Invariance, PTL

-----------------------------------------------------------------------------
(* Sorting.  R says who comes before whom in D, and Ahead who is before    *)
(* each.                                                                   *)
Orders(R, D) ==
  /\ \A d \in D : <<d, d>> \notin R
  /\ \A d, e, f \in D : <<d, e>> \in R /\ <<e, f>> \in R => <<d, f>> \in R
  /\ \A d, e \in D : d # e => <<d, e>> \in R \/ <<e, d>> \in R

Counts(place, Ahead, R, D) ==
  /\ place \in [D -> Int] /\ Ahead \in [D -> SUBSET D]
  /\ \A d, e \in D : e \in Ahead[d] <=> <<e, d>> \in R
  /\ \A d \in D : place[d] = 1 + Cardinality(Ahead[d])

LEMMA Places ==
  ASSUME NEW D, IsFiniteSet(D), NEW R, Orders(R, D),
         NEW place, NEW Ahead, Counts(place, Ahead, R, D)
  PROVE  /\ {place[d] : d \in D} = 1 .. Cardinality(D)
         /\ \A d, e \in D : <<d, e>> \in R => place[d] < place[e]
<1> USE DEF Orders, Counts
<1> DEFINE n == Cardinality(D)
<1>1. n \in Nat /\ Cardinality(1 .. n) = n /\ IsFiniteSet(1 .. n)
  <2>1. n \in Nat
    BY FS_CardinalityType
  <2> HIDE DEF n
  <2>2. /\ IsFiniteSet(1 .. n)
        /\ Cardinality(1 .. n) = IF 1 > n THEN 0 ELSE n - 1 + 1
    BY <2>1, FS_Interval
  <2> QED
    BY <2>1, <2>2
<1>2. ASSUME NEW d \in D
      PROVE  IsFiniteSet(Ahead[d]) /\ Cardinality(Ahead[d]) \in 0 .. n - 1
  <2>1. Ahead[d] \subseteq D \ {d}
    OBVIOUS
  <2>2. IsFiniteSet(D \ {d}) /\ Cardinality(D \ {d}) = n - 1
    BY FS_RemoveElement
  <2>3. IsFiniteSet(Ahead[d]) /\ Cardinality(Ahead[d]) <= n - 1
    BY <2>1, <2>2, FS_Subset
  <2>4. Cardinality(Ahead[d]) \in Nat
    BY <2>3, FS_CardinalityType
  <2> HIDE DEF n
  <2> QED
    BY <1>1, <2>3, <2>4
<1>3. \A d \in D : place[d] = 1 + Cardinality(Ahead[d])
  OBVIOUS
<1>4. ASSUME NEW d \in D, NEW e \in D, <<d, e>> \in R
      PROVE  place[d] < place[e]
  <2>1. Ahead[d] \subseteq Ahead[e] /\ d \in Ahead[e] /\ d \notin Ahead[d]
    BY <1>4
  <2>2. Ahead[d] # Ahead[e]
    BY <2>1
  <2>3. Cardinality(Ahead[d]) <= Cardinality(Ahead[e])
        /\ Cardinality(Ahead[d]) # Cardinality(Ahead[e])
    BY <1>2, <2>1, <2>2, FS_Subset
  <2>4. Cardinality(Ahead[d]) \in Int /\ Cardinality(Ahead[e]) \in Int
    BY <1>2
  <2> QED
    BY <1>3, <2>3, <2>4
<1> HIDE DEF n
<1>5. place \in [D -> 1 .. n]
  <2>1. \A d \in D : place[d] \in 1 .. n
    BY <1>1, <1>2, <1>3
  <2> QED
    BY <2>1
<1>6. place \in Injection(D, 1 .. n)
  <2>1. ASSUME NEW d \in D, NEW e \in D, place[d] = place[e] PROVE d = e
    <3>1. ~(place[d] < place[e]) /\ ~(place[e] < place[d])
      BY <2>1
    <3> QED
      BY <1>4, <3>1
  <2> QED
    BY <1>5, <2>1 DEF Injection, IsInjective
<1>7. place \in Surjection(D, 1 .. n)
  <2>1. Cardinality(D) = Cardinality(1 .. n)
    BY <1>1 DEF n
  <2> QED
    BY <1>1, <1>6, <2>1, FS_Injection
<1>8. {place[d] : d \in D} = 1 .. n
  <2>1. \A k \in 1 .. n : \E d \in D : place[d] = k
    BY <1>7 DEF Surjection
  <2>2. \A d \in D : place[d] \in 1 .. n
    BY <1>5
  <2> QED
    BY <2>1, <2>2
<1> QED
  BY <1>4, <1>8 DEF n

(* Python compares tuples of as many numbers lexicographically.            *)
LEMMA LexOrders ==
  ASSUME NEW n \in Nat, NEW K \in SUBSET [1 .. n -> Int]
  PROVE  Orders({p \in K \X K : Less(p[1], p[2])}, K)
<1> DEFINE R == {p \in K \X K : Less(p[1], p[2])}
           First(k, l, i) == i \in 1 .. n /\ k[i] < l[i] /\ \A j \in 1 .. i - 1 : k[j] = l[j]
<1>1. \A k, l \in K : <<k, l>> \in R <=> \E i : First(k, l, i)
  BY DEF Less
<1>2. \A k \in K : DOMAIN k = 1 .. n /\ \A i \in 1 .. n : k[i] \in Int
  OBVIOUS
<1> HIDE DEF R
<1>3. ASSUME NEW k \in K PROVE <<k, k>> \notin R
  BY <1>1, <1>2
<1>4. ASSUME NEW k \in K, NEW l \in K, NEW m \in K, <<k, l>> \in R, <<l, m>> \in R
      PROVE  <<k, m>> \in R
  <2>1. PICK i : First(k, l, i)
    BY <1>1, <1>4
  <2>2. PICK j : First(l, m, j)
    BY <1>1, <1>4
  <2>3. i \in 1 .. n /\ j \in 1 .. n
    BY <2>1, <2>2
  <2>4. CASE i <= j
    <3>1. k[i] < l[i] /\ (i < j => l[i] = m[i]) /\ (i = j => l[i] < m[i])
      BY <2>1, <2>2, <2>3, <2>4
    <3>2. k[i] < m[i]
      BY <1>2, <2>3, <2>4, <3>1
    <3>3. \A x \in 1 .. i - 1 : k[x] = m[x]
      <4>1. \A x \in 1 .. i - 1 : x \in 1 .. j - 1
        BY <2>3, <2>4
      <4> QED
        BY <2>1, <2>2, <4>1
    <3>4. First(k, m, i)
      BY <2>3, <3>2, <3>3
    <3> QED
      BY <1>1, <3>4
  <2>5. CASE j < i
    <3>1. k[j] = l[j] /\ l[j] < m[j]
      BY <2>1, <2>2, <2>3, <2>5
    <3>2. \A x \in 1 .. j - 1 : k[x] = m[x]
      <4>1. \A x \in 1 .. j - 1 : x \in 1 .. i - 1
        BY <2>3, <2>5
      <4> QED
        BY <2>1, <2>2, <4>1
    <3>3. First(k, m, j)
      BY <2>3, <3>1, <3>2
    <3> QED
      BY <1>1, <3>3
  <2> QED
    BY <2>3, <2>4, <2>5
<1>5. ASSUME NEW k \in K, NEW l \in K, k # l PROVE <<k, l>> \in R \/ <<l, k>> \in R
  <2> DEFINE S == {i \in 1 .. n : k[i] # l[i]}
  <2>1. S # {} /\ S \in SUBSET Nat
    <3>1. k \in [1 .. n -> Int] /\ l \in [1 .. n -> Int]
      OBVIOUS
    <3>2. \E i \in 1 .. n : k[i] # l[i]
      BY <1>5, <3>1
    <3> QED
      BY <3>2
  <2>2. PICK i \in S : \A j \in S : i <= j
    <3> HIDE DEF S
    <3> QED
      BY <2>1, Least
  <2>3. \A j \in 1 .. i - 1 : k[j] = l[j] /\ l[j] = k[j]
    <3>1. ASSUME NEW j \in 1 .. i - 1 PROVE k[j] = l[j]
      <4>1. j \in 1 .. n /\ ~(i <= j)
        BY <2>2
      <4> QED
        BY <2>2, <4>1
    <3> QED
      BY <3>1
  <2>4. i \in 1 .. n /\ (k[i] < l[i] \/ l[i] < k[i])
    BY <1>2
  <2>5. First(k, l, i) \/ First(l, k, i)
    BY <2>3, <2>4
  <2> QED
    BY <1>1, <2>5
<1>6. Orders(R, K)
  BY <1>3, <1>4, <1>5 DEF Orders
<1> QED
  BY <1>6 DEF R

LEMMA PointsTyped ==
  ASSUME NEW row \in Row
  PROVE  Points(row) \in Int
<1>1. Win \in Int /\ Draw \in Int /\ Loss \in Int
  BY PointsAssumption
<1>2. row.won \in Nat /\ row.drawn \in Nat /\ row.lost \in Nat
  BY RowFields
<1>3. \A i, k \in Int : i * k \in Int
  OBVIOUS
<1>4. row.won * Win \in Int /\ row.drawn * Draw \in Int /\ row.lost * Loss \in Int
  BY <1>1, <1>2, <1>3
<1> QED
  BY <1>4 DEF Points

Criteria == {"points", "gd", "gf", "head_to_head", "admin"}

KeyOf(t, rs) == SortKey(Rows(rs), t, rs)

LEMMA KeyTyped ==
  ASSUME Typed, NEW rs \in Seq(MatchResult), NEW t \in Team
  PROVE  LET n == Len(tie_breakers) IN
         /\ n \in Nat /\ DOMAIN tie_breakers = 1 .. n
         /\ KeyOf(t, rs) \in [1 .. n + 1 -> Int]
         /\ KeyOf(t, rs)[n + 1] = t /\ KeyOf(t, rs)[Len(KeyOf(t, rs))] = t
         /\ \A i \in 1 .. n : /\ tie_breakers[i] \in Criteria
                              /\ KeyOf(t, rs)[i] = Criterion(tie_breakers[i], Rows(rs), t, rs)
<1> DEFINE n == Len(tie_breakers)
           rows == Rows(rs)
           f == [i \in DOMAIN tie_breakers |-> Criterion(tie_breakers[i], rows, t, rs)]
           k == KeyOf(t, rs)
<1>1. tie_breakers \in Seq(Criteria)
  BY TieBreakersAssumption DEF Typed, Criteria
<1>2. /\ n \in Nat /\ DOMAIN tie_breakers = 1 .. n
      /\ \A i \in 1 .. n : tie_breakers[i] \in Criteria
  BY <1>1
<1>3. t \in Int
  BY TeamAssumption
<1>4. rows[t] \in Row
  BY RowsMore DEF Table
<1>5. \A c \in Criteria : Criterion(c, rows, t, rs) \in Int
  <2>1. /\ Points(rows[t]) \in Int /\ GoalDifference(rows[t]) \in Int
        /\ rows[t].goals_for \in Int /\ HeadToHead(t, Tied(rows, t), rs) \in Int
    <3>1. Points(rows[t]) \in Int
      BY <1>4, PointsTyped
    <3>2. GoalDifference(rows[t]) \in Int /\ rows[t].goals_for \in Nat
      BY <1>4, RowFields
    <3> HIDE DEF rows
    <3>3. HeadToHead(t, Tied(rows, t), rs) \in Int
      BY HeadMore
    <3> QED
      BY <3>1, <3>2, <3>3
  <2> HIDE DEF rows
  <2> QED
    BY <1>3, <2>1 DEF Criterion, Criteria
<1> HIDE DEF rows
<1>6. f \in Seq(Int) /\ Len(f) = n
  BY <1>2, <1>5
<1>7. \A i \in 1 .. n : f[i] = Criterion(tie_breakers[i], rows, t, rs)
  BY <1>2
<1>8. k = f \o <<t>>
  BY DEF SortKey, KeyOf, rows
<1> HIDE DEF f, k
<1>9. /\ k \in Seq(Int) /\ Len(k) = n + 1 /\ k[n + 1] = t
      /\ \A i \in 1 .. n : k[i] = f[i]
  BY <1>2, <1>3, <1>6, <1>8
<1>10. k \in [1 .. n + 1 -> Int]
  BY <1>9
<1> QED
  BY <1>2, <1>7, <1>9, <1>10 DEF k, rows

(* The table lists every team once, in the order of the keys.              *)
LEMMA TableOf ==
  ASSUME Typed, NEW rs \in Seq(MatchResult)
  PROVE  LET table == ComputeTable(rs) IN
         /\ DOMAIN table = 1 .. Cardinality(Team) /\ Len(table) = Cardinality(Team)
         /\ \A i \in DOMAIN table : table[i] \in Team
         /\ \A i, j \in DOMAIN table :
              i < j => Less(KeyOf(table[i], rs), KeyOf(table[j], rs))
         /\ \A t \in Team : \E i \in DOMAIN table : table[i] = t
<1> DEFINE n == Len(tie_breakers) + 1
           keys == Keys(rs)
           N == Cardinality(keys)
           R == {p \in keys \X keys : Less(p[1], p[2])}
           ahead == [k \in keys |-> {l \in keys : Less(l, k)}]
           place == [k \in keys |-> Place(k, keys)]
           table == ComputeTable(rs)
<1>1. IsFiniteSet(Team) /\ Cardinality(Team) \in Nat
  BY TeamAssumption, FS_CardinalityType
<1>2. /\ n \in Nat
      /\ \A t \in Team : /\ KeyOf(t, rs) \in [1 .. n -> Int]
                         /\ KeyOf(t, rs)[Len(KeyOf(t, rs))] = t
  <2>1. Len(tie_breakers) \in Nat
    <3>1. tie_breakers \in Seq(Criteria)
      BY TieBreakersAssumption DEF Typed, Criteria
    <3> QED
      BY <3>1
  <2> QED
    BY <2>1, KeyTyped
<1>3. keys = {KeyOf(t, rs) : t \in Team}
  BY DEF Keys, KeyOf
<1> HIDE DEF n, keys
<1>4. keys \in SUBSET [1 .. n -> Int]
  BY <1>2, <1>3
<1>5. IsFiniteSet(keys) /\ N = Cardinality(Team)
  <2> DEFINE f == [t \in Team |-> KeyOf(t, rs)]
  <2>1. f \in [Team -> keys] /\ \A t \in Team : f[t] = KeyOf(t, rs)
    BY <1>3
  <2> HIDE DEF f
  <2>2. \A t, u \in Team : f[t] = f[u] => t = u
    BY <1>2, <2>1
  <2>3. \A k \in keys : \E t \in Team : f[t] = k
    BY <1>3, <2>1
  <2>4. f \in Bijection(Team, keys)
    BY <2>1, <2>2, <2>3 DEF Bijection, Injection, IsInjective, Surjection
  <2>5. ExistsBijection(Team, keys)
    BY <2>4 DEF ExistsBijection
  <2> QED
    BY <1>1, <2>5, FS_Bijection
<1>6. Orders(R, keys)
  BY <1>2, <1>4, LexOrders
<1>7. \A k, l \in keys : <<k, l>> \in R <=> Less(k, l)
  OBVIOUS
<1> HIDE DEF R
<1>8. /\ \A k \in keys : place[k] = Place(k, keys)
      /\ {place[k] : k \in keys} = 1 .. N
      /\ \A k, l \in keys : <<k, l>> \in R => place[k] < place[l]
  <2>1. /\ ahead \in [keys -> SUBSET keys]
        /\ \A k, l \in keys : l \in ahead[k] <=> <<l, k>> \in R
        /\ \A k \in keys : ahead[k] = {l \in keys : Less(l, k)}
    BY <1>7
  <2> HIDE DEF ahead
  <2>2. \A k \in keys : Cardinality(ahead[k]) \in Int
    <3>1. \A k \in keys : IsFiniteSet(ahead[k])
      BY <1>5, <2>1, FS_Subset
    <3> QED
      BY <3>1, FS_CardinalityType
  <2>3. \A k \in keys : place[k] = Place(k, keys)
    OBVIOUS
  <2>4. \A k \in keys : Place(k, keys) = 1 + Cardinality(ahead[k])
    BY <2>1 DEF Place
  <2>5. place \in [keys -> Int]
    BY <2>2, <2>4
  <2> HIDE DEF place
  <2>6. Counts(place, ahead, R, keys)
    BY <2>1, <2>3, <2>4, <2>5 DEF Counts
  <2> QED
    BY <1>5, <1>6, <2>3, <2>6, Places
<1> HIDE DEF place
<1>9. \A k, l \in keys : place[k] = place[l] => k = l
  <2>1. ASSUME NEW k \in keys, NEW l \in keys, place[k] = place[l], k # l PROVE FALSE
    <3>1. <<k, l>> \in R \/ <<l, k>> \in R
      BY <1>6, <2>1 DEF Orders
    <3>2. place[k] < place[l] \/ place[l] < place[k]
      BY <1>8, <3>1
    <3>3. place[k] \in 1 .. N /\ place[l] \in 1 .. N
      BY <1>8
    <3> HIDE DEF N
    <3> QED
      BY <2>1, <3>2, <3>3
  <2> QED
    BY <2>1
<1>10. \A i \in 1 .. N : Key(i, keys) \in keys /\ place[Key(i, keys)] = i
  <2>1. ASSUME NEW i \in 1 .. N PROVE Key(i, keys) \in keys /\ place[Key(i, keys)] = i
    <3>1. \E k \in keys : Place(k, keys) = i
      BY <1>8
    <3>2. Key(i, keys) \in keys /\ Place(Key(i, keys), keys) = i
      BY <3>1 DEF Key
    <3> QED
      BY <1>8, <3>2
  <2> QED
    BY <2>1
<1>11. /\ DOMAIN table = 1 .. N
       /\ table = [i \in 1 .. N |-> table[i]]
       /\ \A i \in 1 .. N : table[i] = Key(i, keys)[Len(Key(i, keys))]
  <2>1. table = InOrder(keys)
    BY Sorted DEF keys
  <2> QED
    BY <2>1 DEF InOrder
<1> HIDE DEF table, N
<1>12. \A i \in 1 .. N : table[i] \in Team /\ KeyOf(table[i], rs) = Key(i, keys)
  <2>1. ASSUME NEW i \in 1 .. N
        PROVE  table[i] \in Team /\ KeyOf(table[i], rs) = Key(i, keys)
    <3>1. PICK t \in Team : KeyOf(t, rs) = Key(i, keys)
      BY <1>3, <1>10
    <3>2. table[i] = t
      BY <1>2, <1>11, <3>1
    <3> QED
      BY <3>1, <3>2
  <2> QED
    BY <2>1
<1>13. ASSUME NEW i \in 1 .. N, NEW j \in 1 .. N, i < j
       PROVE  Less(KeyOf(table[i], rs), KeyOf(table[j], rs))
  <2> DEFINE k == Key(i, keys)
             l == Key(j, keys)
  <2>1. k \in keys /\ l \in keys /\ place[k] = i /\ place[l] = j
    BY <1>10
  <2> HIDE DEF k, l
  <2>2. i \in Int /\ j \in Int /\ i # j /\ ~(j < i)
    BY <1>13
  <2>3. k # l /\ ~(<<l, k>> \in R)
    BY <1>8, <2>1, <2>2
  <2>4. <<k, l>> \in R
    BY <1>6, <2>1, <2>3 DEF Orders
  <2> QED
    BY <1>7, <1>12, <2>1, <2>4 DEF k, l
<1>14. ASSUME NEW t \in Team PROVE \E i \in 1 .. N : table[i] = t
  <2> DEFINE k == KeyOf(t, rs)
             i == place[k]
  <2>1. k \in keys
    BY <1>3
  <2>2. i \in 1 .. N
    BY <1>8, <2>1
  <2>3. Key(i, keys) = k
    BY <1>9, <1>10, <2>1, <2>2
  <2>4. table[i] = k[Len(k)]
    BY <1>11, <2>2, <2>3
  <2> HIDE DEF i
  <2>5. table[i] = t
    BY <1>2, <2>4
  <2> QED
    BY <2>2, <2>5
<1>15. Len(table) = N
  <2>1. N \in Nat
    BY <1>1, <1>5 DEF N
  <2>2. table \in Seq(Team)
    BY <1>11, <1>12, <2>1
  <2> QED
    BY <1>11, <2>1, <2>2
<1>16. N = Cardinality(Team)
  BY <1>5 DEF N
<1> QED
  BY <1>11, <1>12, <1>13, <1>14, <1>15, <1>16 DEF table

-----------------------------------------------------------------------------
(* A criterion separates two teams by as much as their keys differ.        *)
LEMMA SeparatesIs ==
  ASSUME Typed, Books, NEW t \in Team, NEW u \in Team, NEW c \in Criteria
  PROVE  Separates(c, t, u) =
           Criterion(c, Rows(results), u, results) - Criterion(c, Rows(results), t, results)
<1> DEFINE rows == Rows(results)
           P(x) == LeaguePoints(x, Team, results)
           Rivals(x) == {y \in Team : LeaguePoints(y, Team, results) =
                                      LeaguePoints(x, Team, results)}
<1>1. results \in Seq(MatchResult)
  BY DEF Typed
<1>2. \A x \in Team : /\ rows[x] \in Row /\ Points(rows[x]) \in Int
                      /\ Points(rows[x]) = P(x)
  BY <1>1, PointsOfRow DEF Books
<1>3. \A x \in Team : GoalDifference(rows[x]) \in Int /\ rows[x].goals_for \in Nat
  BY <1>2, RowFields
<1>4. \A x \in Team : Tied(rows, x) = Rivals(x)
  <2> HIDE DEF rows
  <2> QED
    BY <1>2 DEF Tied
<1>5. \A x \in Team : /\ HeadToHead(x, Tied(rows, x), results) =
                           LeaguePoints(x, Rivals(x), results)
                      /\ HeadToHead(x, Tied(rows, x), results) \in Int
  <2>1. \A x : \A tied : /\ HeadToHead(x, tied, results) = LeaguePoints(x, tied, results)
                         /\ HeadToHead(x, tied, results) \in Int
    BY <1>1, HeadMore DEF Books, BooksOf
  <2> HIDE DEF rows, Rivals
  <2> QED
    BY <1>4, <2>1
<1>6. t \in Int /\ u \in Int
  BY TeamAssumption
<1>7. Separates(c, t, u) =
        CASE c = "points" -> P(t) - P(u)
          [] c = "gd" -> GoalDifference(rows[t]) - GoalDifference(rows[u])
          [] c = "gf" -> rows[t].goals_for - rows[u].goals_for
          [] c = "head_to_head" -> LeaguePoints(t, Rivals(t), results)
                                     - LeaguePoints(u, Rivals(u), results)
          [] c = "admin" -> u - t
  BY DEF Separates
<1> HIDE DEF rows, P, Rivals
<1>8. CASE c = "points"
  BY <1>2, <1>7, <1>8 DEF Criterion, rows
<1>9. CASE c = "gd"
  <2>1. Separates(c, t, u) = GoalDifference(rows[t]) - GoalDifference(rows[u])
    BY <1>7, <1>9
  <2>2. /\ Criterion(c, rows, t, results) = -GoalDifference(rows[t])
        /\ Criterion(c, rows, u, results) = -GoalDifference(rows[u])
    BY <1>9 DEF Criterion
  <2> QED
    BY <1>3, <2>1, <2>2 DEF rows
<1>10. CASE c = "gf"
  <2>1. Separates(c, t, u) = rows[t].goals_for - rows[u].goals_for
    BY <1>7, <1>10
  <2>2. /\ Criterion(c, rows, t, results) = -rows[t].goals_for
        /\ Criterion(c, rows, u, results) = -rows[u].goals_for
    BY <1>10 DEF Criterion
  <2> QED
    BY <1>3, <2>1, <2>2 DEF rows
<1>11. CASE c = "head_to_head"
  <2>1. Separates(c, t, u) =
          HeadToHead(t, Tied(rows, t), results) - HeadToHead(u, Tied(rows, u), results)
    BY <1>5, <1>7, <1>11
  <2>2. /\ Criterion(c, rows, t, results) = -HeadToHead(t, Tied(rows, t), results)
        /\ Criterion(c, rows, u, results) = -HeadToHead(u, Tied(rows, u), results)
    BY <1>11 DEF Criterion
  <2> QED
    BY <1>5, <2>1, <2>2 DEF rows
<1>12. CASE c = "admin"
  BY <1>6, <1>7, <1>12 DEF Criterion
<1> QED
  BY <1>8, <1>9, <1>10, <1>11, <1>12 DEF Criteria

LEMMA LessBetter ==
  ASSUME Typed, Books, NEW t \in Team, NEW u \in Team,
         Less(KeyOf(t, results), KeyOf(u, results))
  PROVE  Better(t, u)
<1> DEFINE n == Len(tie_breakers)
           k == KeyOf(t, results)
           l == KeyOf(u, results)
           open == {i \in DOMAIN tie_breakers : Separates(tie_breakers[i], t, u) # 0}
<1>1. /\ n \in Nat /\ DOMAIN tie_breakers = 1 .. n
      /\ k \in [1 .. n + 1 -> Int] /\ l \in [1 .. n + 1 -> Int]
      /\ k[n + 1] = t /\ l[n + 1] = u
      /\ \A i \in 1 .. n :
           /\ tie_breakers[i] \in Criteria
           /\ k[i] = Criterion(tie_breakers[i], Rows(results), t, results)
           /\ l[i] = Criterion(tie_breakers[i], Rows(results), u, results)
  BY KeyTyped DEF Typed
<1>2. \A i \in 1 .. n : Separates(tie_breakers[i], t, u) = l[i] - k[i]
  BY <1>1, SeparatesIs
<1>3. PICK i \in DOMAIN k : k[i] < l[i] /\ \A j \in 1 .. i - 1 : k[j] = l[j]
  BY DEF Less
<1> HIDE DEF k, l, n
<1>4. /\ i \in 1 .. n + 1
      /\ \A j \in 1 .. n : k[j] \in Int /\ l[j] \in Int
  BY <1>1, <1>3
<1>5. \A j \in 1 .. n : Separates(tie_breakers[j], t, u) = 0 <=> k[j] = l[j]
  BY <1>2, <1>4
<1>6. CASE i = n + 1
  <2>1. open = {}
    BY <1>1, <1>3, <1>5, <1>6
  <2>2. t < u
    BY <1>1, <1>3, <1>6
  <2> QED
    BY <2>1, <2>2 DEF Better
<1>7. CASE i # n + 1
  <2>1. i \in 1 .. n
    BY <1>1, <1>4, <1>7
  <2>2. i \in open
    BY <1>1, <1>3, <1>4, <1>5, <2>1
  <2>3. ASSUME NEW j \in open PROVE i <= j
    <3>1. j \in 1 .. n /\ k[j] # l[j]
      BY <1>1, <1>5
    <3>2. j \notin 1 .. i - 1
      BY <1>3, <3>1
    <3> QED
      BY <1>1, <2>1, <3>1, <3>2
  <2> DEFINE first == CHOOSE x \in open : \A j \in open : x <= j
  <2>4. first \in open /\ \A j \in open : first <= j
    <3> HIDE DEF open
    <3> QED
      BY <2>2, <2>3
  <2>5. open \subseteq 1 .. n
    BY <1>1
  <2>6. Better(t, u) <=> Separates(tie_breakers[first], t, u) > 0
    BY <2>2 DEF Better
  <2> HIDE DEF first, open
  <2>7. first = i
    BY <1>1, <2>1, <2>2, <2>3, <2>4, <2>5
  <2>8. Separates(tie_breakers[i], t, u) > 0
    BY <1>2, <1>3, <1>4, <2>1
  <2> QED
    BY <2>6, <2>7, <2>8
<1> QED
  BY <1>6, <1>7

(* Every team has one place in the table, and the first criterion that     *)
(* separates two teams decides which of them is above, whatever the rules, *)
(* the group and the results.                                              *)
THEOREM Ranked == Spec => []RankedByRules
<1>1. ASSUME Typed, Books PROVE RankedByRules
  <2> DEFINE table == ComputeTable(results)
  <2>1. /\ DOMAIN table = 1 .. Cardinality(Team) /\ Len(table) = Cardinality(Team)
        /\ \A i \in DOMAIN table : table[i] \in Team
        /\ \A i, j \in DOMAIN table :
             i < j => Less(KeyOf(table[i], results), KeyOf(table[j], results))
    BY <1>1, TableOf DEF Typed
  <2> HIDE DEF table
  <2>2. \A i, j \in DOMAIN table : i < j => Better(table[i], table[j])
    BY <1>1, <2>1, LessBetter
  <2> QED
    BY <2>1, <2>2 DEF RankedByRules, table
<1>2. Typed /\ Books => RankedByRules
  BY <1>1
<1> QED
  BY <1>2, Invariance, PTL

-----------------------------------------------------------------------------
(* To lead is to have the smaller key.                                     *)
LEMMA LeadsIs ==
  ASSUME Typed, NEW rs \in Seq(MatchResult), NEW t \in Team, NEW u \in Team
  PROVE  /\ Leads(t, u, ComputeTable(rs)) <=> Less(KeyOf(t, rs), KeyOf(u, rs))
         /\ ~Less(KeyOf(t, rs), KeyOf(t, rs))
<1> DEFINE table == ComputeTable(rs)
           n == Len(tie_breakers) + 1
           K == {KeyOf(x, rs) : x \in Team}
           R == {p \in K \X K : Less(p[1], p[2])}
<1>1. /\ DOMAIN table = 1 .. Cardinality(Team)
      /\ \A i \in DOMAIN table : table[i] \in Team
      /\ \A i, j \in DOMAIN table : i < j => Less(KeyOf(table[i], rs), KeyOf(table[j], rs))
      /\ \A x \in Team : \E i \in DOMAIN table : table[i] = x
  BY TableOf
<1>2. n \in Nat /\ K \in SUBSET [1 .. n -> Int]
  <2>1. Len(tie_breakers) \in Nat
    <3>1. tie_breakers \in Seq(Criteria)
      BY TieBreakersAssumption DEF Typed, Criteria
    <3> QED
      BY <3>1
  <2>2. \A x \in Team : KeyOf(x, rs) \in [1 .. n -> Int]
    BY KeyTyped
  <2> QED
    BY <2>1, <2>2
<1>3. Orders(R, K)
  BY <1>2, LexOrders
<1>4. \A x, y \in Team : Less(KeyOf(x, rs), KeyOf(y, rs)) <=> <<KeyOf(x, rs), KeyOf(y, rs)>> \in R
  OBVIOUS
<1>5. \A x \in Team : KeyOf(x, rs) \in K
  OBVIOUS
<1> HIDE DEF table, n, R, K
<1>6. ~Less(KeyOf(t, rs), KeyOf(t, rs))
  BY <1>3, <1>4, <1>5 DEF Orders
<1>7. ASSUME Leads(t, u, table) PROVE Less(KeyOf(t, rs), KeyOf(u, rs))
  BY <1>1, <1>7 DEF Leads
<1>8. ASSUME Less(KeyOf(t, rs), KeyOf(u, rs)) PROVE Leads(t, u, table)
  <2>1. PICK i \in DOMAIN table : table[i] = t
    BY <1>1
  <2>2. PICK j \in DOMAIN table : table[j] = u
    BY <1>1
  <2>3. t # u
    BY <1>6, <1>8
  <2>4. ~(j < i)
    <3> SUFFICES ASSUME j < i PROVE FALSE
      OBVIOUS
    <3>1. Less(KeyOf(u, rs), KeyOf(t, rs))
      BY <1>1, <2>1, <2>2
    <3> QED
      BY <1>3, <1>4, <1>5, <1>6, <1>8, <3>1 DEF Orders
  <2>5. i \in Int /\ j \in Int /\ i # j
    <3>1. Cardinality(Team) \in Nat
      BY TeamAssumption, FS_CardinalityType
    <3> QED
      BY <1>1, <2>1, <2>2, <2>3, <3>1
  <2>6. i < j
    BY <2>4, <2>5
  <2> QED
    BY <2>1, <2>2, <2>6 DEF Leads
<1> QED
  BY <1>6, <1>7, <1>8 DEF table

LEMMA FirstByPoints ==
  ASSUME Typed, NEW rs \in Seq(MatchResult), NEW t \in Team, NEW u \in Team
  PROVE  LET rows == Rows(rs) IN
         /\ Points(rows[t]) > Points(rows[u]) => Less(KeyOf(t, rs), KeyOf(u, rs))
         /\ Less(KeyOf(t, rs), KeyOf(u, rs)) => Points(rows[t]) >= Points(rows[u])
<1> DEFINE n == Len(tie_breakers)
           k == KeyOf(t, rs)
           l == KeyOf(u, rs)
           p == Points(Rows(rs)[t])
           q == Points(Rows(rs)[u])
<1>1. tie_breakers # <<>> /\ tie_breakers[1] = "points"
  BY RulesAssumption DEF Typed
<1>2. /\ n \in Nat /\ DOMAIN tie_breakers = 1 .. n
      /\ DOMAIN k = 1 .. n + 1 /\ DOMAIN l = 1 .. n + 1
      /\ \A i \in 1 .. n :
           /\ k[i] = Criterion(tie_breakers[i], Rows(rs), t, rs)
           /\ l[i] = Criterion(tie_breakers[i], Rows(rs), u, rs)
  BY KeyTyped
<1>3. 1 \in 1 .. n
  <2>1. tie_breakers \in Seq(Criteria)
    BY TieBreakersAssumption DEF Typed, Criteria
  <2> QED
    BY <1>1, <2>1
<1>4. k[1] = -p /\ l[1] = -q
  BY <1>1, <1>2, <1>3 DEF Criterion
<1>5. p \in Int /\ q \in Int
  BY RowsMore, PointsTyped DEF Table
<1> HIDE DEF k, l, p, q, n
<1>6. ASSUME p > q PROVE Less(k, l)
  <2>1. 1 \in DOMAIN k /\ k[1] < l[1] /\ \A j \in 1 .. 1 - 1 : k[j] = l[j]
    BY <1>2, <1>4, <1>5, <1>6
  <2> QED
    BY <2>1 DEF Less
<1>7. ASSUME Less(k, l) PROVE p >= q
  <2>1. PICK i \in DOMAIN k : k[i] < l[i] /\ \A j \in 1 .. i - 1 : k[j] = l[j]
    BY <1>7 DEF Less
  <2>2. k[1] < l[1] \/ k[1] = l[1]
    <3>1. CASE i = 1
      BY <2>1, <3>1
    <3>2. CASE i # 1
      <4>1. 1 \in 1 .. i - 1
        BY <1>2, <2>1, <3>2
      <4> QED
        BY <2>1, <4>1
    <3> QED
      BY <3>1, <3>2
  <2> QED
    BY <1>4, <1>5, <2>2
<1> QED
  BY <1>6, <1>7 DEF k, l, p, q

LEMMA WinHelps ==
  ASSUME Typed, Books, NEW r \in MatchResult, BooksOf(Append(results, r)),
         r.home_score # r.away_score, {r.home, r.away} \subseteq Team,
         NEW u \in Team, Leads(Winner(r), u, ComputeTable(results))
  PROVE  Leads(Winner(r), u, ComputeTable(Append(results, r)))
<1> DEFINE w == Winner(r)
           rs == results
           qs == Append(rs, r)
           P(x) == Points(Rows(rs)[x])
           Q(x) == Points(Rows(qs)[x])
<1>1. rs \in Seq(MatchResult) /\ qs \in Seq(MatchResult)
  BY DEF Typed
<1>2. w \in Team /\ w \in {r.home, r.away}
  BY DEF Winner
<1>3. /\ r.home_score \in Nat /\ r.away_score \in Nat /\ r.home # r.away
  BY ResultTyped
<1>4. \A x \in Team : Share(x, Team, r) =
        IF x = w THEN Win ELSE IF x \in {r.home, r.away} THEN Loss ELSE 0
  BY <1>3 DEF Share, Between, Earned, PointsOf, Winner
<1>5. \A x \in Team : P(x) \in Int /\ P(x) = LeaguePoints(x, Team, rs)
  BY <1>1, PointsOfRow DEF Books
<1>6. \A x \in Team : Q(x) = LeaguePoints(x, Team, qs)
  BY <1>1, PointsOfRow
<1>7. \A x \in Team : LeaguePoints(x, Team, qs) = LeaguePoints(x, Team, rs) + Share(x, Team, r)
  BY <1>1, LeagueMore
<1> HIDE DEF w, P, Q, qs, rs
<1>8. Less(KeyOf(w, rs), KeyOf(u, rs)) /\ w # u
  BY <1>1, <1>2, LeadsIs DEF w, rs
<1>9. P(w) >= P(u)
  BY <1>1, <1>2, <1>8, FirstByPoints DEF P
<1>10. Win > Loss /\ Win > 0 /\ Win \in Int /\ Loss \in Int
  BY RulesAssumption, PointsAssumption
<1>11. Q(w) = P(w) + Win /\ Q(u) = P(u) + (IF u \in {r.home, r.away} THEN Loss ELSE 0)
  BY <1>2, <1>4, <1>5, <1>6, <1>7, <1>8
<1>12. Q(w) > Q(u)
  BY <1>2, <1>5, <1>9, <1>10, <1>11
<1>13. Less(KeyOf(w, qs), KeyOf(u, qs))
  BY <1>1, <1>2, <1>12, FirstByPoints DEF Q
<1>14. Leads(w, u, ComputeTable(qs))
  BY <1>1, <1>2, <1>13, LeadsIs
<1> QED
  BY <1>14 DEF w, qs, rs

(* A win never costs the winner a place, whatever else the result changes: *)
(* where points come first, and a win brings some, and more than a loss.   *)
THEOREM WinsPay == Spec => WinNeverHurts
<1> DEFINE last == results'[Len(results')]
           before == ComputeTable(results)
           after == ComputeTable(results')
           A == last.home_score # last.away_score /\ {last.home, last.away} \subseteq Team
                  => \A u \in Team : Leads(Winner(last), u, before)
                                       => Leads(Winner(last), u, after)
<1>1. ASSUME Typed, Books, Books', [Next]_vars PROVE [A]_vars
  <2>1. CASE Next
    <3>1. PICK r \in MatchResult : results' = Append(results, r)
      BY <2>1 DEF Next, AddResult
    <3>2. last = r
      BY <1>1, <3>1 DEF Typed
    <3>3. BooksOf(Append(results, r))
      BY <1>1, <3>1 DEF Books
    <3>4. ASSUME r.home_score # r.away_score, {r.home, r.away} \subseteq Team,
                 NEW u \in Team, Leads(Winner(r), u, before)
          PROVE  Leads(Winner(r), u, after)
      <4>1. Leads(Winner(r), u, ComputeTable(Append(results, r)))
        BY <1>1, <3>3, <3>4, WinHelps
      <4> QED
        BY <3>1, <4>1
    <3> HIDE DEF last, before, after
    <3>5. A
      BY <3>2, <3>4
    <3> QED
      BY <3>5
  <2>2. CASE UNCHANGED vars
    BY <2>2
  <2> QED
    BY <1>1, <2>1, <2>2
<1>2. Typed /\ Books /\ (Typed /\ Books)' /\ [Next]_vars => [A]_vars
  BY <1>1
<1> QED
  BY <1>2, Invariance, PTL DEF Spec, WinNeverHurts
=============================================================================

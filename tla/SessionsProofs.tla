--------------------------- MODULE SessionsProofs ---------------------------
(***************************************************************************)
(* Sessions for every number of requests, passwords and attempts: the lock *)
(* of the account, the one live token of a login and the change of         *)
(* password, from one inductive invariant.                                 *)
(***************************************************************************)
EXTENDS Sessions, TLAPS

Live == issued \ revoked

(* A request that rotates t: no other token of its login is live, unless   *)
(* the login has been rotated twice at once.                               *)
Rotation(r) ==
  InPhase(r, "rotate") =>
    /\ \E t \in issued : txn[r].tokens = {t}
    /\ \A t \in txn[r].tokens, u \in Live :
         family[u] = family[t] /\ family[t] \notin raced => u = t

(* Requests hold tokens that have been issued, and issue theirs last.      *)
Request1(r) ==
  /\ txn[r].tokens \subseteq issued /\ txn[r].there \subseteq issued
  /\ r \in issued => InPhase(r, "ended")
  /\ InPhase(r, "change") => txn[r].there \subseteq revoked \cup txn[r].tokens
  /\ Rotation(r)

(* Two requests that rotate tokens of one login have met.                  *)
Apart(r, q) ==
  InPhase(r, "rotate") /\ InPhase(q, "rotate") =>
    \A t \in txn[r].tokens, u \in txn[q].tokens :
      family[t] = family[u] /\ family[t] \notin raced => r = q

(* Nothing of the login f is live but what is in gone, and nobody is about *)
(* to issue a token for it.                                                *)
Over(f, gone) ==
  /\ \A u \in Live : family[u] = f => u \in gone
  /\ \A q \in Request : InPhase(q, "rotate") => \A t \in txn[q].tokens : family[t] # f

(* A change of password has selected all that is live of the logins there  *)
(* were when it began, and once it has committed they are over.            *)
Selected(r) ==
  InPhase(r, "change") =>
    \A t \in txn[r].there : family[t] \in slipped \/ Over(family[t], txn[r].tokens)

LoginsOver == \A t \in ended : family[t] \in slipped \/ Over(family[t], {})

Families == \A t \in issued : family[t] \in issued

Inv ==
  /\ TypeOK /\ LockedAfterMany /\ OneLivePerLogin
  /\ ended \subseteq revoked
  /\ Families /\ LoginsOver
  /\ \A r \in Request : Selected(r)
  /\ \A r \in Request : Request1(r)
  /\ \A r, q \in Request : Apart(r, q)

-----------------------------------------------------------------------------
LEMMA InitInv == AccountInit => Inv
<1> SUFFICES ASSUME AccountInit PROVE Inv
  OBVIOUS
<1>1. PICK pwd \in Password, fresh \in BOOLEAN :
        user = [pwd |-> pwd, fresh |-> fresh, failed |-> 0, lock |-> "none"]
  BY DEF AccountInit
<1>2. user \in User /\ user.pwd \in Password /\ user.failed = 0 /\ user.lock = "none"
  BY <1>1, LimitAssumption DEF User
<1>3. txn \in [Request -> Handler]
  BY <1>2 DEF AccountInit, Handler
<1>4. TypeOK
  BY <1>2, <1>3 DEF AccountInit, TypeOK
<1>5. \A r \in Request : /\ txn[r].phase = "idle" /\ txn[r].seen = user
                         /\ txn[r].tokens = {} /\ txn[r].there = {}
  BY DEF AccountInit
<1>6. LockedAfterMany
  BY <1>2, <1>5 DEF AccountInit, LockedAfterMany
<1> QED
  BY <1>4, <1>5, <1>6
  DEF AccountInit, Inv, OneLivePerLogin, Families, LoginsOver, Selected, Request1,
      Rotation, Apart, InPhase

(* A request that goes on, holding t, and has written nothing yet.         *)
LEMMA ContinueInv ==
  ASSUME Inv, NEW r \in Request, NEW t \in Handler, Continue(r, t), ~InPhase(r, "ended"),
         UNCHANGED <<table, expired, failures, family, ended>>,
         raced \subseteq raced', raced' \subseteq Request,
         slipped \subseteq slipped', slipped' \subseteq Request,
         t.tokens \subseteq issued, t.there \subseteq issued, t.seen.failed <= failures,
         t.phase = "change" => t.there \subseteq revoked \cup t.tokens,
         t.phase = "rotate" =>
           /\ \E x \in Live : t.tokens = {x}
           /\ \A x \in t.tokens, q \in Request \ {r} :
                InPhase(q, "rotate") /\ x \in txn[q].tokens => family[x] \in raced'
           /\ \A x \in t.tokens, q \in Request \ {r} :
                InPhase(q, "change") /\ x \in txn[q].tokens => family[x] \in slipped',
         t.phase = "change" =>
           /\ Live \subseteq t.tokens
           /\ \A q \in Request \ {r} : InPhase(q, "rotate") =>
                \A x \in txn[q].tokens : family[x] \in slipped'
  PROVE  Inv'
<1> USE DEF Inv
<1>1. /\ UNCHANGED <<user, issued, revoked, changes, expired, failures, family, ended>>
      /\ txn' = [txn EXCEPT ![r] = t]
  BY DEF Continue, table
<1>2. txn \in [Request -> Handler] /\ txn'[r] = t
      /\ \A q \in Request \ {r} : txn'[q] = txn[q]
  BY <1>1 DEF TypeOK
<1>3. TypeOK'
  BY <1>1, <1>2 DEF TypeOK
<1>4. LockedAfterMany'
  BY <1>1, <1>2 DEF LockedAfterMany
<1>5. OneLivePerLogin' /\ (ended \subseteq revoked)' /\ Families'
  BY <1>1 DEF OneLivePerLogin, Families
<1>9. ASSUME NEW f, NEW gone, Over(f, gone), f \notin slipped',
             t.phase = "rotate" => \A x \in t.tokens : family[x] # f
      PROVE  Over(f, gone)'
  BY <1>1, <1>2, <1>9 DEF Over, Live, InPhase
<1>10. LoginsOver'
  <2> SUFFICES ASSUME NEW u \in ended, family[u] \notin slipped' PROVE Over(family[u], {})'
    BY <1>1 DEF LoginsOver
  <2>1. Over(family[u], {})
    BY DEF LoginsOver
  <2>2. t.phase = "rotate" => \A x \in t.tokens : family[x] # family[u]
    BY <2>1 DEF Over
  <2> QED
    BY <1>9, <2>1, <2>2
<1>11. ASSUME NEW q \in Request PROVE Selected(q)'
  <2>1. CASE q # r
    <3> SUFFICES ASSUME InPhase(q, "change"), NEW u \in txn[q].there,
                        family[u] \notin slipped'
                 PROVE  Over(family[u], txn[q].tokens)'
      BY <1>1, <1>2, <2>1 DEF Selected, InPhase
    <3>1. Over(family[u], txn[q].tokens)
      BY DEF Selected
    <3>2. t.phase = "rotate" => \A x \in t.tokens : family[x] # family[u]
      BY <2>1, <3>1 DEF Over
    <3>3. txn[q].tokens' = txn[q].tokens
      BY <1>2, <2>1
    <3> QED
      BY <1>2, <1>9, <2>1, <3>1, <3>2
  <2>2. CASE q = r
    <3> SUFFICES ASSUME t.phase = "change", NEW u \in t.there, family[u] \notin slipped'
                 PROVE  Over(family[u], t.tokens)'
      BY <1>1, <1>2, <2>2 DEF Selected, InPhase
    <3> QED
      BY <1>1, <1>2 DEF Over, Live, InPhase
  <2> QED
    BY <2>1, <2>2
<1>6. ASSUME NEW q \in Request PROVE Request1(q)'
  <2>1. CASE q # r
    BY <1>1, <1>2, <2>1 DEF Request1, Rotation, InPhase, Live
  <2>2. CASE q = r
    <3>1. r \notin issued
      BY DEF Request1
    <3>2. Rotation(r)'
      BY <1>1, <1>2 DEF Rotation, InPhase, Live, OneLivePerLogin
    <3> QED
      BY <1>1, <1>2, <2>2, <3>1, <3>2 DEF Request1, InPhase
  <2> QED
    BY <2>1, <2>2
<1>7. ASSUME NEW p \in Request \ {r}, t.phase = "rotate", InPhase(p, "rotate"),
             NEW x \in t.tokens, NEW u \in txn[p].tokens,
             family[x] = family[u], family[x] \notin raced'
      PROVE  FALSE
  <2>1. x \in Live /\ family[u] \notin raced
    BY <1>7
  <2>2. x = u
    BY <1>7, <2>1 DEF Request1, Rotation
  <2> QED
    BY <1>7, <2>2
<1>8. ASSUME NEW p \in Request, NEW q \in Request PROVE Apart(p, q)'
  <2>1. CASE p # r /\ q # r
    BY <1>1, <1>2, <2>1 DEF Apart, InPhase
  <2>2. CASE p = r \/ q = r
    BY <1>1, <1>2, <1>7, <2>2 DEF Apart, InPhase
  <2> QED
    BY <2>1, <2>2
<1> QED
  BY <1>3, <1>4, <1>5, <1>6, <1>8, <1>10, <1>11

(* A request that ends, has revoked some tokens and changed the account,   *)
(* and has issued none.                                                    *)
LEMMA AnswerInv ==
  ASSUME Inv, NEW r \in Request, Answer(r), UNCHANGED <<issued, expired, family, raced, slipped>>,
         NEW gone \in SUBSET issued, revoked' = revoked \cup gone,
         user' \in User, changes' \subseteq Request, failures' \in Nat,
         failures <= failures', user'.lock = "none" \/ failures' >= MaxFailed,
         user'.failed <= failures',
         ended' \subseteq issued, ended' \subseteq revoked',
         \A t \in ended' : t \in ended \/ family[t] \in slipped \/ Over(family[t], gone)
  PROVE  Inv'
<1> USE DEF Inv
<1>1. /\ txn \in [Request -> Handler]
      /\ txn' = [txn EXCEPT ![r] = [txn[r] EXCEPT !.phase = "ended", !.tokens = {}]]
  BY DEF Answer, TypeOK
<1>2. /\ \A q \in Request \ {r} : txn'[q] = txn[q]
      /\ txn'[r].phase = "ended" /\ txn'[r].tokens = {}
      /\ txn'[r].seen = txn[r].seen /\ txn'[r].there = txn[r].there
  BY <1>1 DEF Handler
<1>3. txn' \in [Request -> Handler]
  <2>1. txn[r] \in Handler
    BY <1>1
  <2>2. [txn[r] EXCEPT !.phase = "ended", !.tokens = {}] \in Handler
    BY <2>1 DEF Handler
  <2> QED
    BY <1>1, <2>2
<1>4. TypeOK'
  BY <1>3 DEF TypeOK
<1>5. LockedAfterMany'
  <2>1. \A q \in Request : txn'[q].seen = txn[q].seen /\ txn[q].seen \in User
    BY <1>1, <1>2 DEF Handler
  <2>2. \A q \in Request : txn[q].seen.failed \in Nat /\ txn[q].seen.failed <= failures
    BY <2>1, LimitAssumption DEF LockedAfterMany, User
  <2>3. failures \in Nat
    BY DEF TypeOK
  <2> QED
    BY <2>1, <2>2, <2>3 DEF LockedAfterMany
<1>6. OneLivePerLogin' /\ (ended \subseteq revoked)' /\ Families'
  BY DEF OneLivePerLogin, Families
<1>9. ASSUME NEW f, NEW there, Over(f, there) PROVE Over(f, there \ gone)'
  BY <1>2, <1>9 DEF Over, Live, InPhase
<1>10. ASSUME NEW f, NEW there, Over(f, there) PROVE Over(f, there)'
  BY <1>2, <1>10 DEF Over, Live, InPhase
<1>11. LoginsOver'
  <2> SUFFICES ASSUME NEW u \in ended', family[u] \notin slipped PROVE Over(family[u], {})'
    BY DEF LoginsOver
  <2>1. CASE u \in ended
    BY <1>10, <2>1 DEF LoginsOver
  <2>2. CASE Over(family[u], gone)
    <3>1. gone \ gone = {}
      OBVIOUS
    <3> QED
      BY <1>9, <2>2, <3>1
  <2> QED
    BY <2>1, <2>2
<1>12. ASSUME NEW q \in Request PROVE Selected(q)'
  BY <1>2, <1>10 DEF Selected, InPhase
<1>7. ASSUME NEW q \in Request PROVE Request1(q)'
  <2>1. CASE q # r
    BY <1>2, <2>1 DEF Request1, Rotation, InPhase, Live
  <2>2. CASE q = r
    BY <1>2, <2>2 DEF Request1, Rotation, InPhase
  <2> QED
    BY <2>1, <2>2
<1>8. ASSUME NEW p \in Request, NEW q \in Request PROVE Apart(p, q)'
  BY <1>2 DEF Apart, InPhase
<1> QED
  BY <1>4, <1>5, <1>6, <1>7, <1>8, <1>11, <1>12

(* A request that ends with a token of its own, of the login l, of which   *)
(* nothing else is live: a new login, or one whose token is revoked.       *)
LEMMA IssueInv ==
  ASSUME Inv, NEW r \in Request, NEW l \in Request, Issue(r, l), Answer(r),
         ~InPhase(r, "ended"), UNCHANGED <<expired, failures, raced, ended, slipped>>,
         user' \in User, user'.lock = "none" \/ failures >= MaxFailed,
         user'.failed <= failures, changes' \subseteq Request,
         NEW gone \in SUBSET issued, revoked' = revoked \cup gone,
         l \in issued \cup {r},
         l \notin issued \/ \A there : ~Over(l, there),
         \A t \in Live : family[t] = l /\ l \notin raced => t \in gone,
         \A q \in Request \ {r}, t \in issued :
           InPhase(q, "rotate") /\ t \in txn[q].tokens /\ family[t] = l => l \in raced
  PROVE  Inv'
<1> USE DEF Inv
<1>1. /\ txn \in [Request -> Handler]
      /\ txn' = [txn EXCEPT ![r] = [txn[r] EXCEPT !.phase = "ended", !.tokens = {}]]
  BY DEF Answer, TypeOK
<1>2. /\ \A q \in Request \ {r} : txn'[q] = txn[q]
      /\ txn'[r].phase = "ended" /\ txn'[r].tokens = {}
      /\ txn'[r].seen = txn[r].seen /\ txn'[r].there = txn[r].there
  BY <1>1 DEF Handler
<1>3. txn' \in [Request -> Handler]
  <2>1. txn[r] \in Handler
    BY <1>1
  <2>2. [txn[r] EXCEPT !.phase = "ended", !.tokens = {}] \in Handler
    BY <2>1 DEF Handler
  <2> QED
    BY <1>1, <2>2
<1>4. /\ r \notin issued /\ issued' = issued \cup {r}
      /\ family'[r] = l /\ \A t \in Request \ {r} : family'[t] = family[t]
      /\ family' \in [Request -> Request]
  BY DEF Issue, TypeOK, Request1
<1>5. TypeOK'
  BY <1>3, <1>4 DEF TypeOK
<1>6. LockedAfterMany'
  BY <1>2 DEF LockedAfterMany
<1>7. (ended \subseteq revoked)' /\ ended \subseteq issued
  BY DEF TypeOK
<1>8. Families'
  BY <1>4 DEF Families, TypeOK
<1>9. Live' = (Live \ gone) \cup {r} /\ Live \subseteq Request /\ issued \subseteq Request
  BY <1>4 DEF Live, TypeOK
<1>13. ASSUME NEW u \in issued, NEW there, Over(family[u], there)
       PROVE  Over(family[u], there)' /\ family'[u] = family[u]
  <2>1. family[u] # l
    BY <1>13 DEF Families
  <2> QED
    BY <1>2, <1>4, <1>9, <1>13, <2>1 DEF Over, InPhase, Request1
<1>14. LoginsOver'
  BY <1>4, <1>7, <1>9, <1>13 DEF LoginsOver
<1>15. ASSUME NEW q \in Request PROVE Selected(q)'
  <2>1. CASE q = r
    BY <1>2, <2>1 DEF Selected, InPhase
  <2>2. CASE q # r
    <3>1. txn'[q] = txn[q] /\ txn[q].there \subseteq issued
      BY <1>2, <2>2 DEF Request1
    <3>2. ASSUME InPhase(q, "change"), NEW u \in txn[q].there, (family[u] \notin slipped)'
          PROVE  Over(family[u], txn[q].tokens)'
      <4>1. family'[u] = family[u] /\ u \in issued
        BY <1>4, <1>9, <3>1
      <4>2. Over(family[u], txn[q].tokens)
        BY <3>2, <4>1 DEF Selected
      <4>3. ASSUME NEW there, Over(family[u], there) PROVE Over(family[u], there)'
        BY <1>13, <4>1, <4>3
      <4>4. (txn[q].tokens)' = txn[q].tokens
        BY <3>1
      <4> QED
        BY <4>2, <4>3, <4>4
    <3> QED
      BY <3>1, <3>2 DEF Selected, InPhase
  <2> QED
    BY <2>1, <2>2
<1>10. OneLivePerLogin'
  BY <1>4, <1>9 DEF OneLivePerLogin, Live
<1>11. ASSUME NEW q \in Request PROVE Request1(q)'
  <2>1. CASE q # r
    <3>1. txn'[q] = txn[q] /\ txn[q].tokens \subseteq issued
      BY <1>2, <2>1 DEF Request1
    <3>2. ASSUME InPhase(q, "rotate"), NEW t \in txn[q].tokens, NEW u \in Live',
                 family'[u] = family'[t], family'[t] \notin raced
          PROVE  u = t
      <4>1. family'[t] = family[t] /\ Rotation(q)
        BY <1>4, <1>9, <3>1 DEF Request1
      <4>2. q \in Request \ {r} /\ t \in issued
        BY <2>1, <3>1, <3>2
      <4>3. family[t] = l => l \in raced
        BY <3>2, <4>2 DEF InPhase
      <4>4. u # r
        BY <1>4, <3>2, <4>1, <4>3
      <4> QED
        BY <1>4, <1>9, <3>2, <4>1, <4>2, <4>4 DEF Rotation
    <3>3. Rotation(q)'
      BY <1>4, <3>1, <3>2 DEF Request1, Rotation, InPhase
    <3> QED
      BY <1>2, <1>4, <2>1, <3>1, <3>3 DEF Request1, InPhase
  <2>2. CASE q = r
    BY <1>2, <1>4, <2>2 DEF Request1, Rotation, InPhase
  <2> QED
    BY <2>1, <2>2
<1>12. ASSUME NEW p \in Request, NEW q \in Request PROVE Apart(p, q)'
  BY <1>2, <1>4, <1>9 DEF Apart, InPhase, Request1
<1> QED
  BY <1>5, <1>6, <1>7, <1>8, <1>10, <1>11, <1>12, <1>14, <1>15

-----------------------------------------------------------------------------
(* What is loaded is well formed. *)
LEMMA Loaded ==
  ASSUME Inv, NEW r \in Request
  PROVE  /\ txn[r] \in Handler /\ user \in User /\ txn[r].seen \in User
         /\ txn[r].seen.failed \in Nat /\ user.failed \in Nat /\ failures \in Nat
         /\ issued \subseteq Request /\ txn[r].tokens \subseteq issued
         /\ txn[r].there \subseteq issued
BY LimitAssumption DEF Inv, TypeOK, Handler, User, Request1

LEMMA LoginInv ==
  ASSUME Inv, NEW r \in Request, Login(r)
  PROVE  Inv'
<1>1. PICK pwd \in Password :
        Continue(r, [txn[r] EXCEPT !.phase = "login", !.pwd = pwd, !.seen = user])
  BY DEF Login
<1>0. /\ txn[r] \in Handler /\ user \in User /\ issued \subseteq Request
      /\ txn[r].tokens \subseteq issued /\ txn[r].there \subseteq issued
  BY Loaded
<1> DEFINE t == [txn[r] EXCEPT !.phase = "login", !.pwd = pwd, !.seen = user]
<1>2. /\ t \in Handler /\ t.phase = "login" /\ t.seen = user
      /\ t.tokens = txn[r].tokens /\ t.there = txn[r].there
  BY <1>0 DEF Handler
<1>3. t.tokens \subseteq issued /\ t.there \subseteq issued /\ t.seen.failed <= failures
  BY <1>0, <1>2 DEF Inv, LockedAfterMany
<1>4. /\ Continue(r, t) /\ ~InPhase(r, "ended") /\ raced' = raced /\ raced \subseteq Request
      /\ slipped' = slipped /\ slipped \subseteq Request
      /\ UNCHANGED <<table, expired, failures, family, ended>>
  BY <1>1 DEF Login, InPhase, history, Inv, TypeOK
<1> HIDE DEF t
<1> QED
  BY <1>2, <1>3, <1>4, ContinueInv

LEMMA LogoutInv ==
  ASSUME Inv, NEW r \in Request, Logout(r)
  PROVE  Inv'
<1>1. PICK x \in issued \ revoked :
        Continue(r, [txn[r] EXCEPT !.phase = "logout", !.tokens = {x}])
  BY DEF Logout
<1>0. /\ txn[r] \in Handler /\ user \in User /\ issued \subseteq Request
      /\ txn[r].tokens \subseteq issued /\ txn[r].there \subseteq issued
  BY Loaded
<1> DEFINE t == [txn[r] EXCEPT !.phase = "logout", !.tokens = {x}]
<1>2. /\ t \in Handler /\ t.phase = "logout" /\ t.seen = txn[r].seen
      /\ t.tokens = {x} /\ t.there = txn[r].there
  BY <1>0 DEF Handler
<1>3. t.tokens \subseteq issued /\ t.there \subseteq issued /\ t.seen.failed <= failures
  BY <1>0, <1>2 DEF Inv, LockedAfterMany
<1>4. /\ Continue(r, t) /\ ~InPhase(r, "ended") /\ raced' = raced /\ raced \subseteq Request
      /\ slipped' = slipped /\ slipped \subseteq Request
      /\ UNCHANGED <<table, expired, failures, family, ended>>
  BY <1>1 DEF Logout, InPhase, history, Inv, TypeOK
<1> HIDE DEF t
<1> QED
  BY <1>2, <1>3, <1>4, ContinueInv

LEMMA ChangePasswordInv ==
  ASSUME Inv, NEW r \in Request, ChangePassword(r)
  PROVE  Inv'
<1>1. PICK new \in Password :
        Continue(r, [txn[r] EXCEPT !.phase = "verified", !.pwd = new, !.seen = user,
                                   !.there = issued])
  BY DEF ChangePassword
<1>0. /\ txn[r] \in Handler /\ user \in User /\ issued \subseteq Request
      /\ txn[r].tokens \subseteq issued /\ txn[r].there \subseteq issued
  BY Loaded
<1> DEFINE t == [txn[r] EXCEPT !.phase = "verified", !.pwd = new, !.seen = user,
                               !.there = issued]
<1>2. /\ t \in Handler /\ t.phase = "verified" /\ t.seen = user
      /\ t.tokens = txn[r].tokens /\ t.there = issued
  BY <1>0 DEF Handler
<1>3. t.tokens \subseteq issued /\ t.there \subseteq issued /\ t.seen.failed <= failures
  BY <1>0, <1>2 DEF Inv, LockedAfterMany
<1>4. /\ Continue(r, t) /\ ~InPhase(r, "ended") /\ raced' = raced /\ raced \subseteq Request
      /\ slipped' = slipped /\ slipped \subseteq Request
      /\ UNCHANGED <<table, expired, failures, family, ended>>
  BY <1>1 DEF ChangePassword, InPhase, history, Inv, TypeOK
<1> HIDE DEF t
<1> QED
  BY <1>2, <1>3, <1>4, ContinueInv

LEMMA SelectTokensInv ==
  ASSUME Inv, NEW r \in Request, SelectTokens(r)
  PROVE  Inv'
<1>0. /\ txn[r] \in Handler /\ user \in User /\ issued \subseteq Request
      /\ txn[r].tokens \subseteq issued /\ txn[r].there \subseteq issued
  BY Loaded
<1> DEFINE t == [txn[r] EXCEPT !.phase = "change", !.tokens = issued \ revoked]
<1>1. /\ t \in Handler /\ t.phase = "change" /\ t.seen = txn[r].seen
      /\ t.tokens = issued \ revoked /\ t.there = txn[r].there
  BY <1>0 DEF Handler
<1>2. /\ t.tokens \subseteq issued /\ t.there \subseteq issued /\ t.seen.failed <= failures
      /\ t.there \subseteq revoked \cup t.tokens
  BY <1>0, <1>1 DEF Inv, LockedAfterMany
<1>3. /\ Continue(r, t) /\ ~InPhase(r, "ended") /\ raced' = raced /\ raced \subseteq Request
      /\ slipped' = slipped \cup InRotation
      /\ UNCHANGED <<table, expired, failures, family, ended>>
  BY DEF SelectTokens, InPhase, Inv, TypeOK
<1>4. slipped \subseteq slipped' /\ slipped' \subseteq Request
  <2>1. \A q \in Request : txn[q].tokens \subseteq Request
    BY Loaded
  <2> QED
    BY <1>3, <2>1 DEF InRotation, Inv, TypeOK
<1>5. /\ Live \subseteq t.tokens
      /\ \A q \in Request \ {r} : InPhase(q, "rotate") =>
           \A x \in txn[q].tokens : family[x] \in slipped'
  BY <1>1, <1>3 DEF Live, InRotation
<1> HIDE DEF t
<1> QED
  BY <1>1, <1>2, <1>3, <1>4, <1>5, ContinueInv

(* Whoever rotates the same token meanwhile is noted in raced, and whoever *)
(* is about to revoke it with a change of password in slipped.             *)
LEMMA RefreshInv ==
  ASSUME Inv, NEW r \in Request, Refresh(r)
  PROVE  Inv'
<1>1. PICK x \in issued \ (revoked \cup expired) :
        /\ Continue(r, [txn[r] EXCEPT !.phase = "rotate", !.tokens = {x}])
        /\ raced' = raced \cup HeldIn("rotate", x)
        /\ slipped' = slipped \cup HeldIn("change", x)
  BY DEF Refresh
<1>0. /\ txn[r] \in Handler /\ user \in User /\ issued \subseteq Request
      /\ txn[r].tokens \subseteq issued /\ txn[r].there \subseteq issued
  BY Loaded
<1> DEFINE t == [txn[r] EXCEPT !.phase = "rotate", !.tokens = {x}]
<1>2. /\ t \in Handler /\ t.phase = "rotate" /\ t.seen = txn[r].seen
      /\ t.tokens = {x} /\ t.there = txn[r].there
  BY <1>0 DEF Handler
<1>3. t.tokens \subseteq issued /\ t.there \subseteq issued /\ t.seen.failed <= failures
  BY <1>0, <1>2 DEF Inv, LockedAfterMany
<1>4. family[x] \in Request /\ raced \subseteq Request /\ slipped \subseteq Request
  BY Loaded DEF Inv, TypeOK
<1>5. /\ raced \subseteq raced' /\ raced' \subseteq Request
      /\ slipped \subseteq slipped' /\ slipped' \subseteq Request
  BY <1>1, <1>4 DEF HeldIn
<1>6. /\ Continue(r, t) /\ ~InPhase(r, "ended")
      /\ UNCHANGED <<table, expired, failures, family, ended>>
  BY <1>1 DEF Refresh, InPhase
<1>7. /\ \E y \in Live : t.tokens = {y}
      /\ \A y \in t.tokens, q \in Request \ {r} :
           InPhase(q, "rotate") /\ y \in txn[q].tokens => family[y] \in raced'
      /\ \A y \in t.tokens, q \in Request \ {r} :
           InPhase(q, "change") /\ y \in txn[q].tokens => family[y] \in slipped'
  BY <1>1, <1>2 DEF Live, HeldIn
<1> HIDE DEF t
<1> QED
  BY <1>2, <1>3, <1>5, <1>6, <1>7, ContinueInv

-----------------------------------------------------------------------------
LEMMA UpgradedUser ==
  ASSUME Inv, NEW seen \in User
  PROVE  /\ Upgraded(seen) \in User
         /\ Upgraded(seen).lock = "none" \/ Upgraded(seen).lock = user.lock
         /\ Upgraded(seen).failed <= failures
<1>1. user \in User /\ user.failed \in Nat /\ failures \in Nat /\ user.failed <= failures
  BY LimitAssumption DEF Inv, TypeOK, User, LockedAfterMany
<1>2. 0 \in 0 .. MaxFailed - 1
  BY LimitAssumption
<1> DEFINE failed == IF seen.failed = 0 THEN user.failed ELSE 0
           lock == IF seen.lock = "none" THEN user.lock ELSE "none"
           pwd == IF seen.fresh THEN user.pwd ELSE seen.pwd
           fresh == IF seen.fresh THEN user.fresh ELSE TRUE
<1>3. /\ failed \in 0 .. MaxFailed - 1 /\ failed <= failures
      /\ lock \in {"none", "locked", "over"} /\ (lock = "none" \/ lock = user.lock)
      /\ pwd \in Password /\ fresh \in BOOLEAN
  <2>1. failed \in 0 .. MaxFailed - 1 /\ failed <= failures
    BY <1>1, <1>2 DEF User
  <2>2. lock \in {"none", "locked", "over"} /\ (lock = "none" \/ lock = user.lock)
    BY <1>1 DEF User
  <2>3. pwd \in Password
    BY <1>1 DEF User
  <2>4. fresh \in BOOLEAN
    BY <1>1 DEF User
  <2> QED
    BY <2>1, <2>2, <2>3, <2>4
<1>4. Upgraded(seen) = [user EXCEPT !.failed = failed, !.lock = lock, !.pwd = pwd,
                                    !.fresh = fresh]
  BY <1>1 DEF Upgraded, User
<1> HIDE DEF failed, lock, pwd, fresh
<1> QED
  BY <1>1, <1>3, <1>4 DEF User

LEMMA LoginPassesInv ==
  ASSUME Inv, NEW r \in Request, LoginPasses(r)
  PROVE  Inv'
<1>1. /\ txn[r].seen \in User /\ changes \subseteq Request /\ issued \subseteq Request
      /\ user.lock = "none" \/ failures >= MaxFailed
  BY Loaded DEF Inv, TypeOK, LockedAfterMany
<1>2. /\ user' = Upgraded(txn[r].seen) /\ Issue(r, r) /\ Answer(r) /\ ~InPhase(r, "ended")
      /\ UNCHANGED <<expired, failures, raced, ended, slipped, revoked, changes>>
  BY DEF LoginPasses, InPhase
<1>3. /\ user' \in User /\ (user'.lock = "none" \/ failures >= MaxFailed)
      /\ user'.failed <= failures
  BY <1>1, <1>2, UpgradedUser
<1>4. r \notin issued /\ \A t \in issued : family[t] # r
  BY <1>2 DEF Inv, Families, Request1
<1>5. PICK gone \in SUBSET issued : gone = {}
  OBVIOUS
<1>6. /\ \A t \in Live : family[t] = r /\ r \notin raced => t \in gone
      /\ \A q \in Request \ {r}, t \in issued :
           InPhase(q, "rotate") /\ t \in txn[q].tokens /\ family[t] = r => r \in raced
  BY <1>4 DEF Live
<1>7. revoked' = revoked \cup gone /\ r \in issued \cup {r} /\ changes' \subseteq Request
  BY <1>1, <1>2, <1>5
<1>8. UNCHANGED <<expired, failures, raced, ended, slipped>>
  BY <1>2
<1> QED
  BY <1>2, <1>3, <1>4, <1>6, <1>7, <1>8, IssueInv

LEMMA LoginFailsInv ==
  ASSUME Inv, NEW r \in Request, LoginFails(r)
  PROVE  Inv'
<1> DEFINE n == txn[r].seen.failed + 1
<1>1. /\ txn[r].seen.failed \in Nat /\ user \in User /\ failures \in Nat
      /\ txn[r].seen.failed <= failures
      /\ user.lock = "none" \/ failures >= MaxFailed
  BY Loaded DEF Inv, LockedAfterMany
<1>2. /\ user' = IF n >= MaxFailed THEN [user EXCEPT !.failed = 0, !.lock = "locked"]
                 ELSE [user EXCEPT !.failed = n]
      /\ failures' = failures + 1 /\ Answer(r)
      /\ UNCHANGED <<issued, revoked, changes, expired, family, raced, ended, slipped>>
  BY DEF LoginFails
<1>3. n \in Nat /\ n <= failures' /\ failures <= failures' /\ failures' \in Nat
  BY <1>1, <1>2
<1>4. CASE n >= MaxFailed
  <2>0. 0 \in 0 .. MaxFailed - 1 /\ user' = [user EXCEPT !.failed = 0, !.lock = "locked"]
    BY <1>2, <1>4, LimitAssumption
  <2>1. /\ user' \in User /\ user'.failed = 0 /\ user'.lock = "locked"
    BY <1>1, <2>0 DEF User
  <2>2. user'.failed <= failures' /\ failures' >= MaxFailed
    BY <1>3, <1>4, <2>1, LimitAssumption
  <2> HIDE DEF n
  <2> QED
    BY <1>2, <1>3, <2>1, <2>2, AnswerInv DEF Inv, TypeOK
<1>5. CASE ~(n >= MaxFailed)
  <2>1. n \in 0 .. MaxFailed - 1
    BY <1>3, <1>5, LimitAssumption
  <2> HIDE DEF n
  <2>2. /\ user' \in User /\ user'.failed = n /\ user'.lock = user.lock
    BY <1>1, <1>2, <1>5, <2>1 DEF User
  <2>3. user'.lock = "none" \/ failures' >= MaxFailed
    BY <1>1, <1>2, <2>2, LimitAssumption
  <2> QED
    BY <1>2, <1>3, <2>2, <2>3, AnswerInv DEF Inv, TypeOK
<1> QED
  BY <1>4, <1>5

LEMMA ForgetInv ==
  ASSUME Inv, NEW r \in Request, Forget(r)
  PROVE  Inv'
<1>1. txn[r].tokens \in SUBSET issued /\ failures \in Nat
  BY Loaded
<1>2. /\ Answer(r) /\ revoked' = revoked \cup txn[r].tokens
      /\ UNCHANGED <<user, issued, changes, expired, failures, family, raced, ended, slipped>>
  BY DEF Forget, history
<1>3. /\ user' \in User /\ changes' \subseteq Request /\ failures' \in Nat
      /\ failures <= failures' /\ (user'.lock = "none" \/ failures' >= MaxFailed)
      /\ user'.failed <= failures' /\ ended' \subseteq issued /\ ended' \subseteq revoked'
  BY <1>1, <1>2 DEF Inv, TypeOK, LockedAfterMany
<1> QED
  BY <1>1, <1>2, <1>3, AnswerInv

LEMMA CommitChangeInv ==
  ASSUME Inv, NEW r \in Request, CommitChange(r)
  PROVE  Inv'
<1>1. /\ txn[r] \in Handler /\ user \in User /\ failures \in Nat
      /\ txn[r].tokens \in SUBSET issued /\ txn[r].there \subseteq issued
  BY Loaded
<1>2. /\ Answer(r) /\ revoked' = revoked \cup txn[r].tokens /\ changes' = changes \cup {r}
      /\ user' = [user EXCEPT !.pwd = txn[r].pwd, !.fresh = TRUE]
      /\ ended' = ended \cup txn[r].there
      /\ UNCHANGED <<issued, expired, failures, family, raced, slipped>>
  BY DEF CommitChange
<1>3. txn[r].there \subseteq revoked \cup txn[r].tokens
  BY DEF CommitChange, Inv, Request1
<1>7. \A t \in txn[r].there : family[t] \in slipped \/ Over(family[t], txn[r].tokens)
  BY DEF CommitChange, Inv, Selected
<1>4. user' \in User /\ user'.lock = user.lock /\ user'.failed = user.failed
  BY <1>1, <1>2 DEF User, Handler
<1>5. /\ user'.lock = "none" \/ failures' >= MaxFailed
      /\ user'.failed <= failures' /\ failures <= failures'
  BY <1>1, <1>2, <1>4 DEF Inv, LockedAfterMany
<1>6. ended' \subseteq issued /\ ended' \subseteq revoked' /\ changes' \subseteq Request
  BY <1>1, <1>2, <1>3 DEF Inv, TypeOK
<1> QED
  BY <1>1, <1>2, <1>4, <1>5, <1>6, <1>7, AnswerInv

(* What r rotates is the only live token of its login, and r the only one  *)
(* who does.                                                               *)
LEMMA RotateInv ==
  ASSUME Inv, NEW r \in Request, Rotate(r)
  PROVE  Inv'
<1>1. PICK x \in issued : txn[r].tokens = {x}
  BY DEF Rotate, Inv, Request1, Rotation
<1>2. /\ Issue(r, family[x]) /\ revoked' = revoked \cup {x} /\ Answer(r)
      /\ InPhase(r, "rotate")
      /\ UNCHANGED <<user, changes, expired, failures, raced, ended, slipped>>
  BY <1>1 DEF Rotate
<1>3. /\ ~InPhase(r, "ended") /\ family[x] \in issued \cup {r} /\ family[x] \in Request
  BY <1>1, <1>2 DEF InPhase, Inv, Families, TypeOK
<1> PICK gone \in SUBSET issued : gone = {x}
  OBVIOUS
<1>4. \A t \in Live : family[t] = family[x] /\ family[x] \notin raced => t \in gone
  BY <1>1, <1>2 DEF Inv, Request1, Rotation
<1>5. \A q \in Request \ {r}, t \in issued :
        InPhase(q, "rotate") /\ t \in txn[q].tokens /\ family[t] = family[x]
          => family[x] \in raced
  BY <1>1, <1>2 DEF Inv, Apart
<1>6. /\ user' \in User /\ (user'.lock = "none" \/ failures >= MaxFailed)
      /\ user'.failed <= failures /\ changes' \subseteq Request
  BY <1>2 DEF Inv, TypeOK, LockedAfterMany
<1>7. revoked' = revoked \cup gone /\ UNCHANGED <<expired, failures, raced, ended, slipped>>
  BY <1>2
<1>8. \A there : ~Over(family[x], there)
  BY <1>1, <1>2 DEF Over
<1> QED
  BY <1>2, <1>3, <1>4, <1>5, <1>6, <1>7, <1>8, IssueInv

(* Time, and steps that change nothing. *)
LEMMA TimeInv ==
  ASSUME Inv, Expire \/ Unlock \/ UNCHANGED account
  PROVE  Inv'
<1> USE DEF Inv
<1>1. /\ UNCHANGED <<issued, revoked, changes, txn, failures, family, raced, ended, slipped>>
      /\ expired' \subseteq issued
      /\ user' \in User /\ user'.failed = user.failed
      /\ user'.lock = "none" \/ failures >= MaxFailed
  <2>1. CASE Expire
    BY <2>1 DEF Expire, table, history, TypeOK, LockedAfterMany
  <2>2. CASE Unlock
    BY <2>2 DEF Unlock, history, TypeOK, LockedAfterMany, User
  <2>3. CASE UNCHANGED account
    BY <2>3 DEF account, table, history, TypeOK, LockedAfterMany
  <2> QED
    BY <2>1, <2>2, <2>3
<1>2. TypeOK' /\ LockedAfterMany'
  BY <1>1 DEF TypeOK, LockedAfterMany
<1> QED
  BY <1>1, <1>2 DEF OneLivePerLogin, Families, LoginsOver, Selected, Over, Request1,
                    Rotation, Apart, InPhase, Live

-----------------------------------------------------------------------------
LEMMA StepInv == Inv /\ [AccountNext]_account => Inv'
<1> SUFFICES ASSUME Inv, [AccountNext]_account PROVE Inv'
  OBVIOUS
<1>1. CASE Expire \/ Unlock \/ UNCHANGED account
  BY <1>1, TimeInv
<1>2. ASSUME NEW r \in Request, Serve(r) PROVE Inv'
  BY <1>2, LoginInv, LoginPassesInv, LoginFailsInv, RefreshInv, RotateInv, LogoutInv,
     ForgetInv, ChangePasswordInv, SelectTokensInv, CommitChangeInv DEF Serve
<1> QED
  BY <1>1, <1>2 DEF AccountNext

(* The inductive invariant holds throughout. *)
THEOREM Invariance == AccountSpec => []Inv
<1>1. AccountInit => Inv
  BY InitInv
<1>2. Inv /\ [AccountNext]_account => Inv'
  BY StepInv
<1> QED
  BY <1>1, <1>2, PTL DEF AccountSpec

(* Sessions stay well formed: the count of failures never reaches the      *)
(* limit, tokens that are revoked have been issued (auth.py).              *)
THEOREM TypeCorrectness == AccountSpec => []TypeOK
<1>1. Inv => TypeOK
  BY DEF Inv
<1> QED
  BY <1>1, Invariance, PTL

(* Overlapping logins may lose failures, but never lock an account early.  *)
THEOREM NoEarlyLock == AccountSpec => []LockedAfterMany
<1>1. Inv => LockedAfterMany
  BY DEF Inv
<1> QED
  BY <1>1, Invariance, PTL

(* A login that nobody refreshes twice at once has one live token.         *)
THEOREM Rotating == AccountSpec => []OneLivePerLogin
<1>1. Inv => OneLivePerLogin
  BY DEF Inv
<1> QED
  BY <1>1, Invariance, PTL

(* A change of password ends every session there was when it began, the    *)
(* tokens it got later included, if no refresh of it was under way when    *)
(* the change selected the tokens or until it committed.                   *)
THEOREM Revoking == AccountSpec => []ChangeEndsSessions
<1>1. Inv => ChangeEndsSessions
  <2> SUFFICES ASSUME Inv, NEW t \in issued \ revoked
               PROVE  /\ t \notin ended
                      /\ \A u \in ended : family[t] = family[u] => family[t] \in slipped
    BY DEF ChangeEndsSessions
  <2> QED
    BY DEF Inv, LoginsOver, Over, Live
<1> QED
  BY <1>1, Invariance, PTL
=============================================================================

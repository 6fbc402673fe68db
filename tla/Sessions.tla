------------------------------ MODULE Sessions ------------------------------
(***************************************************************************)
(* One account and its refresh tokens (endpoints/auth.py): login with the  *)
(* count of failures and the lock, rotation, logout, change of password,   *)
(* as overlapping database sessions.  A session keeps what it has loaded,  *)
(* and its commit writes the columns it believes to have changed.          *)
(*                                                                         *)
(* A request is named once and names the token it issues.  One that is     *)
(* refused before it has written anything is left out; so is is_active,    *)
(* which no code clears, and the access tokens, which nothing stores.      *)
(* Time passes by Expire and Unlock.                                       *)
(***************************************************************************)
EXTENDS Naturals

CONSTANTS
  Request,
  Password,
  MaxFailed         \* MAX_FAILED_ATTEMPTS

ASSUME LimitAssumption == MaxFailed \in Nat \ {0}

VARIABLES
  user,             \* the row of users
  issued, revoked,  \* refresh_tokens, those with revoked
  expired,          \* those whose time is over
  changes,          \* password.changed in the audit log, by request
  txn,
  failures,         \* history: attempts with a wrong password
  family,           \* history: the login a token goes back to
  raced,            \* history: families with a token in two rotations at once
  ended,            \* history: tokens there were when a change of password began
  slipped           \* history: families with a refresh under way when a change
                    \* of password had selected the tokens and not committed

table == <<user, issued, revoked, changes>>
history == <<failures, family, raced, ended, slipped>>
account == <<table, expired, txn, history>>

User ==
  [pwd : Password,
   fresh : BOOLEAN,                \* hashed with today's parameters
   failed : 0 .. MaxFailed - 1,
   lock : {"none", "locked", "over"}]

Handler ==
  [phase : {"idle", "login", "rotate", "logout", "verified", "change", "ended"},
   pwd : Password,                 \* given, or to be set
   seen : User,
   tokens : SUBSET Request,        \* loaded with revoked FALSE
   there : SUBSET Request]         \* history: tokens there were when it began

InPhase(r, phase) == txn[r].phase = phase
Continue(r, t) == txn' = [txn EXCEPT ![r] = t]
Answer(r) == txn' = [txn EXCEPT ![r].phase = "ended", ![r].tokens = {}]

AccountInit ==
  /\ \E pwd \in Password, fresh \in BOOLEAN :
       user = [pwd |-> pwd, fresh |-> fresh, failed |-> 0, lock |-> "none"]
  /\ issued = {} /\ revoked = {} /\ expired = {} /\ changes = {}
  /\ txn = [r \in Request |-> [phase |-> "idle", pwd |-> user.pwd, seen |-> user,
                               tokens |-> {}, there |-> {}]]
  /\ failures = 0 /\ family = [t \in Request |-> t] /\ raced = {} /\ ended = {}
  /\ slipped = {}

(* _issue_tokens, for the login l *)
Issue(r, l) ==
  /\ issued' = issued \cup {r}
  /\ family' = [family EXCEPT ![r] = l]

-----------------------------------------------------------------------------
Login(r) ==
  /\ InPhase(r, "idle") /\ user.lock # "locked"
  /\ \E pwd \in Password :
       Continue(r, [txn[r] EXCEPT !.phase = "login", !.pwd = pwd, !.seen = user])
  /\ UNCHANGED <<table, expired, history>>

Upgraded(seen) == [user EXCEPT
  !.failed = IF seen.failed = 0 THEN @ ELSE 0,
  !.lock = IF seen.lock = "none" THEN @ ELSE "none",
  !.pwd = IF seen.fresh THEN @ ELSE seen.pwd,
  !.fresh = IF seen.fresh THEN @ ELSE TRUE]

LoginPasses(r) ==
  /\ InPhase(r, "login") /\ txn[r].pwd = txn[r].seen.pwd
  /\ user' = Upgraded(txn[r].seen)
  /\ Issue(r, r)
  /\ Answer(r)
  /\ UNCHANGED <<revoked, changes, expired, failures, raced, ended, slipped>>

LoginFailsEarly(r) ==   \* mutant: one attempt too early
  /\ InPhase(r, "login") /\ txn[r].pwd # txn[r].seen.pwd
  /\ LET n == txn[r].seen.failed + 1 IN
     user' = IF n >= MaxFailed - 1
             THEN [user EXCEPT !.failed = 0, !.lock = "locked"]
             ELSE [user EXCEPT !.failed = n]
  /\ failures' = failures + 1
  /\ Answer(r)
  /\ UNCHANGED <<issued, revoked, changes, expired, family, raced, ended, slipped>>

LoginFailsUncapped(r) ==   \* mutant: the count is not reset by the lock
  /\ InPhase(r, "login") /\ txn[r].pwd # txn[r].seen.pwd
  /\ LET n == txn[r].seen.failed + 1 IN
     user' = [user EXCEPT !.failed = n,
                          !.lock = IF n >= MaxFailed THEN "locked" ELSE @]
  /\ failures' = failures + 1
  /\ Answer(r)
  /\ UNCHANGED <<issued, revoked, changes, expired, family, raced, ended, slipped>>

LoginFails(r) ==
  /\ InPhase(r, "login") /\ txn[r].pwd # txn[r].seen.pwd
  /\ LET n == txn[r].seen.failed + 1 IN
     user' = IF n >= MaxFailed
             THEN [user EXCEPT !.failed = 0, !.lock = "locked"]
             ELSE [user EXCEPT !.failed = n]
  /\ failures' = failures + 1
  /\ Answer(r)
  /\ UNCHANGED <<issued, revoked, changes, expired, family, raced, ended, slipped>>

-----------------------------------------------------------------------------
(* The family of t, if a request in such a phase holds t. *)
HeldIn(phase, t) ==
  IF \E q \in Request : InPhase(q, phase) /\ t \in txn[q].tokens THEN {family[t]} ELSE {}

(* refresh: the token is checked as it was loaded. *)
RefreshUnchecked(r) ==   \* mutant: revoked is not looked at
  /\ InPhase(r, "idle")
  /\ \E t \in issued \ expired :
       /\ Continue(r, [txn[r] EXCEPT !.phase = "rotate", !.tokens = {t}])
       /\ raced' = raced \cup HeldIn("rotate", t)
       /\ slipped' = slipped \cup HeldIn("change", t)
  /\ UNCHANGED <<table, expired, failures, family, ended>>

Refresh(r) ==
  /\ InPhase(r, "idle")
  /\ \E t \in issued \ (revoked \cup expired) :
       /\ Continue(r, [txn[r] EXCEPT !.phase = "rotate", !.tokens = {t}])
       /\ raced' = raced \cup HeldIn("rotate", t)
       /\ slipped' = slipped \cup HeldIn("change", t)
  /\ UNCHANGED <<table, expired, failures, family, ended>>

Rotate(r) ==
  /\ InPhase(r, "rotate")
  /\ \E t \in txn[r].tokens : Issue(r, family[t])
  /\ revoked' = revoked \cup txn[r].tokens
  /\ Answer(r)
  /\ UNCHANGED <<user, changes, expired, failures, raced, ended, slipped>>

(* logout: one that has an expired token, or has loaded a revoked one,     *)
(* writes nothing.                                                         *)
Logout(r) ==
  /\ InPhase(r, "idle")
  /\ \E t \in issued \ (revoked \cup expired) :
       Continue(r, [txn[r] EXCEPT !.phase = "logout", !.tokens = {t}])
  /\ UNCHANGED <<table, expired, history>>

Forget(r) ==
  /\ InPhase(r, "logout")
  /\ revoked' = revoked \cup txn[r].tokens
  /\ Answer(r)
  /\ UNCHANGED <<user, issued, changes, expired, history>>

-----------------------------------------------------------------------------
(* change_password: the account is loaded by get_current_user, the tokens  *)
(* after the current password has been verified.                           *)
ChangePassword(r) ==
  /\ InPhase(r, "idle") /\ issued # {}
  /\ \E new \in Password :
       Continue(r, [txn[r] EXCEPT !.phase = "verified", !.pwd = new, !.seen = user,
                              !.there = issued])
  /\ UNCHANGED <<table, expired, history>>

InRotation ==
  LET holders == {q \in Request : InPhase(q, "rotate")}
  IN {family[t] : t \in UNION {txn[q].tokens : q \in holders}}

SelectEarly(r) ==   \* mutant: the tokens loaded along with the account
  /\ InPhase(r, "verified")
  /\ Continue(r, [txn[r] EXCEPT !.phase = "change", !.tokens = txn[r].there \ revoked])
  /\ slipped' = slipped \cup InRotation
  /\ UNCHANGED <<table, expired, failures, family, raced, ended>>

SelectTokens(r) ==
  /\ InPhase(r, "verified")
  /\ Continue(r, [txn[r] EXCEPT !.phase = "change", !.tokens = issued \ revoked])
  /\ slipped' = slipped \cup InRotation
  /\ UNCHANGED <<table, expired, failures, family, raced, ended>>

CommitChange(r) ==
  /\ InPhase(r, "change")
  /\ user' = [user EXCEPT !.pwd = txn[r].pwd, !.fresh = TRUE]
  /\ revoked' = revoked \cup txn[r].tokens
  /\ changes' = changes \cup {r}
  /\ ended' = ended \cup txn[r].there
  /\ Answer(r)
  /\ UNCHANGED <<issued, expired, failures, family, raced, slipped>>

-----------------------------------------------------------------------------
Expire ==
  /\ \E t \in issued \ expired : expired' = expired \cup {t}
  /\ UNCHANGED <<table, txn, history>>

Unlock ==
  /\ user.lock = "locked" /\ user' = [user EXCEPT !.lock = "over"]
  /\ UNCHANGED <<issued, revoked, changes, expired, txn, history>>

Serve(r) ==
  \/ Login(r) \/ LoginPasses(r) \/ LoginFails(r)
  \/ Refresh(r) \/ Rotate(r) \/ Logout(r) \/ Forget(r)
  \/ ChangePassword(r) \/ SelectTokens(r) \/ CommitChange(r)

AccountNext == (\E r \in Request : Serve(r)) \/ Expire \/ Unlock

AccountSpec == AccountInit /\ [][AccountNext]_account

-----------------------------------------------------------------------------
TypeOK ==
  /\ user \in User
  /\ revoked \subseteq issued /\ issued \subseteq Request /\ expired \subseteq issued
  /\ changes \subseteq Request
  /\ txn \in [Request -> Handler]
  /\ failures \in Nat
  /\ family \in [Request -> Request]
  /\ raced \subseteq Request /\ ended \subseteq issued /\ slipped \subseteq Request

(* An account is locked only after MAX_FAILED_ATTEMPTS wrong passwords:    *)
(* overlapping logins may lose counts, never invent them (login).          *)
LockedAfterMany ==
  /\ user.lock = "none" \/ failures >= MaxFailed
  /\ user.failed <= failures
  /\ \A r \in Request : txn[r].seen.failed <= failures

(* "Rotating refresh tokens" (README.md:11): a login has one token that    *)
(* can be used, however it is refreshed, logged out or revoked meanwhile,  *)
(* unless two requests have been rotating the same token at once.          *)
OneLivePerLogin ==
  \A t, u \in issued \ revoked :
    family[t] = family[u] /\ family[t] \notin raced => t = u

(* "Revoke all refresh tokens - force re-login elsewhere" (auth.py:181): no *)
(* token that was there when a change of password began outlives it, nor   *)
(* has its login a later one, whatever overlaps the change; except a login *)
(* with a refresh under way between the SELECT and the commit of a change, *)
(* whose new token no change has seen.                                     *)
ChangeEndsSessions ==
  \A t \in issued \ revoked :
    t \notin ended /\ (family[t] \in {family[u] : u \in ended} => family[t] \in slipped)
=============================================================================

--------------------------- MODULE Notifications ---------------------------
(***************************************************************************)
(* Web push: the tasks of the Celery workers (app/workers/tasks.py,        *)
(* app/services/notifications.py) and the requests on subscriptions        *)
(* (endpoints/push.py), as overlapping database sessions.  Tasks are       *)
(* started again and again by the beat, also while an earlier one is still *)
(* running; acks_late lets another worker repeat one that has died.        *)
(*                                                                         *)
(* A commit and the flush before it are one step.  Which reminders fall    *)
(* due is left open: a scan finds any of them.  A batch has all pending    *)
(* events in any order (the code takes the 50 oldest).  The rate limit of  *)
(* create_event is left out: it concerns score events, and no code makes   *)
(* one.                                                                    *)
(***************************************************************************)
EXTENDS Naturals

CONSTANTS
  Browser,          \* endpoints
  Key,              \* idempotency keys
  All, UrgentOnly, Topic,   \* preferences; a topic goes with its target
  TopicOf,          \* topic and target of each event
  Urgent,           \* events with is_urgent
  Worker, Request,
  First,            \* names the subscriptions there are to begin with
  Registered,       \* browsers that may have one
  Wishes,           \* preferences a payload may carry
  MaxCrashes        \* bound: sessions that break

Pref == {All, UrgentOnly} \cup Topic

ASSUME PrefAssumption ==
  /\ All # UrgentOnly /\ {All, UrgentOnly} \cap Topic = {}
  /\ TopicOf \in [Key -> Topic] /\ Urgent \subseteq Key
ASSUME SessionAssumption ==
  Worker \cap Request = {} /\ First \notin Request /\ MaxCrashes \in Nat
ASSUME PayloadAssumption ==
  Registered \subseteq Browser /\ Wishes \subseteq SUBSET Pref

(* A row of push_subscriptions is named by its endpoint and the request    *)
(* that inserted it, one of notification_preferences by its writer.        *)
Sub == Browser \X (Request \cup {First})
PrefRow == [sub : Sub, pref : Pref, by : Request \cup {First}]
EventState == {"none", "pending", "dispatched"}

VARIABLES
  subs, active,     \* rows of push_subscriptions, those with is_active
  prefs,
  event,            \* notification_events, by key
  deliveries,       \* notification_deliveries
  txn,              \* the session of each worker and request
  crashes,
  owed              \* history: the rows that match an event, ever since it was made

store == <<subs, active, prefs, event, deliveries>>
vars == <<store, txn, crashes, owed>>

Phase == {"idle", "scanning", "picking", "sending", "pruning",
          "inserting", "loaded", "clearing", "cleared", "removing", "ended"}

Session ==
  [phase : Phase, op : {"none", "post", "patch"},
   todo : SUBSET Key,                     \* events to make, or to dispatch
   event : SUBSET Key,                    \* the one being dispatched
   left : SUBSET Sub,                     \* recipients to go, or rows to delete
   sent : SUBSET Sub, gone : SUBSET Sub,  \* to be recorded; answered 404 or 410
   sub : SUBSET Sub, was : BOOLEAN,       \* row of a request, is_active as loaded
   want : SUBSET Pref, old : SUBSET PrefRow,
   alone : BOOLEAN]       \* history: nobody else has changed the row since

At(p, phase) == txn[p].phase = phase

Blank(phase) ==
  [phase |-> phase, op |-> "none", todo |-> {}, event |-> {}, left |-> {}, sent |-> {},
   gone |-> {}, sub |-> {}, was |-> TRUE, want |-> {}, old |-> {},
   alone |-> TRUE]

Resting(p) == Blank(IF p \in Worker THEN "idle" ELSE "ended")

(* Some of the events are long past, some of the requests never come.      *)
Init ==
  /\ \E B \in SUBSET Registered : subs = B \X {First}
  /\ active = subs
  /\ prefs = {[sub |-> s, pref |-> All, by |-> First] : s \in subs}
  /\ \E K \in SUBSET Key :
       event = [k \in Key |-> IF k \in K THEN "none" ELSE "dispatched"]
  /\ deliveries = {}
  /\ \E R \in SUBSET Request :
       txn = [p \in Worker \cup Request |->
                Blank(IF p \in Worker \cup R THEN "idle" ELSE "ended")]
  /\ crashes = 0
  /\ owed = [k \in Key |-> {}]

Pending == {k \in Key : event[k] = "pending"}

(* p goes on as t; the others whose row is in S take note.                 *)
Committing(p, t, S) ==
  txn' = [q \in Worker \cup Request |->
            IF q = p THEN t
            ELSE IF txn[q].sub \cap S = {} THEN txn[q]
            ELSE [txn[q] EXCEPT !.alone = FALSE]]

Goes(p, t) == txn' = [txn EXCEPT ![p] = t]
Rollback(p) == Goes(p, Resting(p)) /\ UNCHANGED store

(* DELETE of subscriptions, with the cascades.                             *)
Remove(p, S) ==
  /\ subs' = subs \ S
  /\ active' = active \ S
  /\ prefs' = {row \in prefs : row.sub \notin S}
  /\ deliveries' = {d \in deliveries : d[2] \notin S}
  /\ Committing(p, Resting(p), S)
  /\ UNCHANGED event

-----------------------------------------------------------------------------
(* scan_upcoming_fixtures: one transaction for all the reminders it finds, *)
(* lost if another session has made one of them since create_event looked. *)
StartScan(w) ==
  /\ At(w, "idle")
  /\ \E K \in SUBSET Key :
       /\ \E k \in K : event[k] = "none"
       /\ Goes(w, [Blank("scanning") EXCEPT !.todo = {k \in K : event[k] = "none"}])
  /\ UNCHANGED store

CommitScanAnyway(w) ==   \* mutant: idempotency_key is not unique
  /\ At(w, "scanning")
  /\ event' = [k \in Key |-> IF k \in txn[w].todo THEN "pending" ELSE event[k]]
  /\ Goes(w, Resting(w))
  /\ UNCHANGED <<subs, active, prefs, deliveries>>

CommitScan(w) ==
  /\ At(w, "scanning")
  /\ IF \A k \in txn[w].todo : event[k] = "none"
     THEN /\ event' = [k \in Key |-> IF k \in txn[w].todo THEN "pending" ELSE event[k]]
          /\ Goes(w, Resting(w))
          /\ UNCHANGED <<subs, active, prefs, deliveries>>
     ELSE Rollback(w)

(* dispatch_pending_notifications *)
StartDispatch(w) ==
  /\ At(w, "idle") /\ Pending # {}
  /\ Goes(w, [Blank("picking") EXCEPT !.todo = Pending])
  /\ UNCHANGED store

(* _matching_subscriptions: DISTINCT, so that a row counts once.           *)
Heard(k) == {All, TopicOf[k]} \cup (IF k \in Urgent THEN {UrgentOnly} ELSE {})
Matching(k) ==
  {s \in active : \E row \in prefs : row.sub = s /\ row.pref \in Heard(k)}

Match(w) ==
  /\ At(w, "picking")
  /\ \E k \in txn[w].todo :
       Goes(w, [txn[w] EXCEPT !.phase = "sending", !.event = {k}, !.todo = @ \ {k},
                              !.left = Matching(k)])
  /\ UNCHANGED store

(* One recipient: skipped if it is on record, else sent the message, which *)
(* may fail, or find the endpoint gone.                                    *)
Send(w) ==
  /\ At(w, "sending")
  /\ \E s \in txn[w].left, k \in txn[w].event, dead \in BOOLEAN :
       Goes(w, IF <<k, s>> \in deliveries
               THEN [txn[w] EXCEPT !.left = @ \ {s}]
               ELSE [txn[w] EXCEPT !.left = @ \ {s}, !.sent = @ \cup {s},
                                   !.gone = IF dead THEN @ \cup {s} ELSE @])
  /\ UNCHANGED store

(* dispatched_at and the commit.  A row that is gone, or a delivery that   *)
(* another session has recorded, loses everything, and ends the task.      *)
Recorded(w, k) ==
  /\ event' = [event EXCEPT ![k] = "dispatched"]
  /\ deliveries' = deliveries \cup ({k} \X txn[w].sent)
  /\ active' = active \ txn[w].gone
  /\ Committing(w, IF txn[w].todo = {} THEN Resting(w)
                   ELSE [Blank("picking") EXCEPT !.todo = txn[w].todo],
                txn[w].gone)
  /\ UNCHANGED <<subs, prefs>>

RecordEarly(w) ==   \* mutant: closes an event before its recipients
  /\ At(w, "sending")
  /\ \E k \in txn[w].event :
       IF txn[w].sent \subseteq subs /\ ({k} \X txn[w].sent) \cap deliveries = {}
       THEN Recorded(w, k)
       ELSE Rollback(w)

RecordOrphan(w) ==   \* mutant: no foreign key of the deliveries
  /\ At(w, "sending") /\ txn[w].left = {}
  /\ \E k \in txn[w].event :
       IF ({k} \X txn[w].sent) \cap deliveries = {}
       THEN Recorded(w, k)
       ELSE Rollback(w)

RecordIfHeard(w) ==   \* mutant: an event that nobody hears stays pending
  /\ At(w, "sending") /\ txn[w].left = {}
  /\ \E k \in txn[w].event :
       IF txn[w].sent # {} /\ txn[w].sent \subseteq subs
            /\ ({k} \X txn[w].sent) \cap deliveries = {}
       THEN Recorded(w, k)
       ELSE Rollback(w)

Record(w) ==
  /\ At(w, "sending") /\ txn[w].left = {}
  /\ \E k \in txn[w].event :
       IF txn[w].sent \subseteq subs /\ ({k} \X txn[w].sent) \cap deliveries = {}
       THEN Recorded(w, k)
       ELSE Rollback(w)

(* prune_stale_subscriptions: DELETE by id of what was inactive when       *)
(* selected, whatever it is now.                                           *)
StartPrune(w) ==
  /\ At(w, "idle") /\ subs # active
  /\ Goes(w, [Blank("pruning") EXCEPT !.left = subs \ active])
  /\ UNCHANGED store

(* The rows a replacement of preferences has deleted, and not committed.   *)
Locked(r) == IF At(r, "cleared") THEN txn[r].old \cap prefs ELSE {}
Blocked(S) == \E r \in Request, row \in prefs : row \in Locked(r) /\ row.sub \in S

CommitPruneSilent(w) ==   \* mutant: deliveries do not go with their row
  /\ At(w, "pruning") /\ ~Blocked(txn[w].left)
  /\ IF \E d \in deliveries : d[2] \in txn[w].left
     THEN Rollback(w)
     ELSE Remove(w, txn[w].left)

CommitPrune(w) ==
  /\ At(w, "pruning") /\ ~Blocked(txn[w].left)
  /\ Remove(w, txn[w].left)

-----------------------------------------------------------------------------
(* The requests of the browsers; preferences default to [ALL].             *)
Post(r) ==
  /\ At(r, "idle")
  /\ \E b \in Browser, want \in Wishes \ {{}} :
       LET found == {s \in subs : s[1] = b} IN
       Goes(r, IF found = {}
               THEN [Blank("inserting") EXCEPT !.op = "post", !.want = want,
                                               !.sub = {<<b, r>>}]
               ELSE [Blank("loaded") EXCEPT !.op = "post", !.want = want,
                                            !.sub = found, !.was = found \subseteq active])
  /\ UNCHANGED store

(* The INSERT waits for another one of the same endpoint, and fails after  *)
(* its commit.                                                             *)
InsertSub(r) ==
  /\ At(r, "inserting")
  /\ \E s \in txn[r].sub :
       /\ \A q \in Request \ {r} :
            txn[q].sub = {<<s[1], q>>} => txn[q].sub \subseteq subs \/ At(q, "inserting")
       /\ IF \E t \in subs : t[1] = s[1]
          THEN Rollback(r)
          ELSE Goes(r, [txn[r] EXCEPT !.phase = "loaded"]) /\ UNCHANGED store

Patch(r) ==
  /\ At(r, "idle")
  /\ \E s \in subs, want \in Wishes :
       Goes(r, [Blank("loaded") EXCEPT !.op = "patch", !.want = want, !.sub = {s}])
  /\ UNCHANGED store

(* _replace_prefs: the DELETE waits for whoever has deleted one of its rows *)
(* already, and does not find what has been committed meanwhile.           *)
Clear(r) ==
  /\ At(r, "loaded")
  /\ LET old == {row \in prefs : row.sub \in txn[r].sub}
         free == \A q \in Request : Locked(q) \cap old = {} IN
     Goes(r, [txn[r] EXCEPT !.phase = IF free THEN "cleared" ELSE "clearing", !.old = old])
  /\ UNCHANGED store

Cleared(r) ==
  /\ At(r, "clearing")
  /\ \A q \in Request : Locked(q) \cap txn[r].old = {}
  /\ Goes(r, [txn[r] EXCEPT !.phase = "cleared"])
  /\ UNCHANGED store

(* The new rows, and for a POST the UPDATE of the subscription, which has  *)
(* is_active only if it was loaded inactive.  It fails if the subscription *)
(* is gone, or on a row with the same target (NULL targets differ).        *)
Fails(r) ==
  LET new == {s \in txn[r].sub : s[2] = r}
  IN \/ /\ ~(txn[r].sub \subseteq subs \cup new)
        /\ txn[r].op = "post" \/ txn[r].want # {}
     \/ \E row \in prefs \ txn[r].old :
          row.sub \in txn[r].sub /\ row.pref \in txn[r].want \cap Topic

Rows(r) == {[sub |-> s, pref |-> p, by |-> r] : s \in txn[r].sub, p \in txn[r].want}

CommitPrefsActive(r) ==   \* mutant: the UPDATE leaves is_active out
  /\ At(r, "cleared")
  /\ IF Fails(r) THEN Rollback(r)
     ELSE /\ LET new == {s \in txn[r].sub : s[2] = r} IN
             subs' = subs \cup new /\ active' = active \cup new
          /\ prefs' = (prefs \ txn[r].old) \cup Rows(r)
          /\ Committing(r, Resting(r), txn[r].sub)
          /\ UNCHANGED <<event, deliveries>>

CommitPrefs(r) ==
  /\ At(r, "cleared")
  /\ IF Fails(r) THEN Rollback(r)
     ELSE /\ LET new == {s \in txn[r].sub : s[2] = r} IN
             /\ subs' = subs \cup new
             /\ active' = active \cup new \cup (IF txn[r].was THEN {} ELSE txn[r].sub)
          /\ prefs' = (prefs \ txn[r].old) \cup Rows(r)
          /\ Committing(r, Resting(r), txn[r].sub)
          /\ UNCHANGED <<event, deliveries>>

Delete(r) ==
  /\ At(r, "idle")
  /\ \E s \in subs : Goes(r, [Blank("removing") EXCEPT !.left = {s}])
  /\ UNCHANGED store

CommitDelete(r) ==
  /\ At(r, "removing") /\ ~Blocked(txn[r].left)
  /\ Remove(r, txn[r].left)

(* A deletion has the row of the subscription and waits for preferences    *)
(* that a replacement has deleted, while that one needs the row for its    *)
(* new ones: PostgreSQL ends one of them.                                  *)
BreakDeadlock(p, r) ==
  /\ txn[p].phase \in {"pruning", "removing"}
  /\ txn[r].want # {} /\ \E row \in Locked(r) : row.sub \in txn[p].left
  /\ Rollback(p) \/ Rollback(r)

-----------------------------------------------------------------------------
Work(w) == StartDispatch(w) \/ Match(w) \/ Send(w) \/ Record(w) \/ CommitScan(w)
           \/ StartPrune(w) \/ CommitPrune(w)

Call(r) == Post(r) \/ Patch(r) \/ Delete(r)
Serve(r) == InsertSub(r) \/ Clear(r) \/ Cleared(r) \/ CommitPrefs(r) \/ CommitDelete(r)

Process ==
  /\ \/ \E w \in Worker : StartScan(w) \/ Work(w)
     \/ \E r \in Request : Call(r) \/ Serve(r)
     \/ \E p \in Worker \cup Request, r \in Request : BreakDeadlock(p, r)
  /\ UNCHANGED crashes

(* A worker is killed, or its connection breaks. *)
Crash(w) ==
  /\ ~At(w, "idle") /\ crashes < MaxCrashes
  /\ crashes' = crashes + 1
  /\ Rollback(w)

Step == Process \/ \E w \in Worker : Crash(w)

(* History: a row is owed an event from its making, while it matches. *)
Owe ==
  owed' = [k \in Key |-> {s \in Matching(k)' :
             s \in owed[k] \/ (event[k] = "none" /\ event'[k] = "pending")}]

Quiet ==
  /\ Pending = {} /\ subs = active
  /\ \A p \in Worker \cup Request : txn[p].phase \in {"idle", "ended"}
  /\ UNCHANGED vars

Next == (Step /\ Owe) \/ Quiet

Spec == Init /\ [][Next]_vars

(* The beat goes on starting tasks, and sessions run on. *)
Fairness ==
  /\ \A w \in Worker : WF_vars(Work(w) /\ UNCHANGED crashes /\ Owe)
  /\ \A r \in Request : WF_vars(Serve(r) /\ UNCHANGED crashes /\ Owe)

FairSpec == Spec /\ Fairness

-----------------------------------------------------------------------------
TypeOK ==
  /\ subs \subseteq Sub /\ active \subseteq subs
  /\ prefs \subseteq PrefRow
  /\ event \in [Key -> EventState]
  /\ deliveries \subseteq Key \X subs
  /\ txn \in [Worker \cup Request -> Session]
  /\ crashes \in Nat
  /\ owed \in [Key -> SUBSET active]

(* Whoever was to hear of an event when it was made, and has been ever     *)
(* since, is on record once it is dispatched: no overlap of tasks, no      *)
(* failure of another recipient, no death of a worker leaves one out       *)
(* (dispatch_event).                                                       *)
NobodySkipped ==
  \A k \in Key : event[k] = "dispatched" => \A s \in owed[k] : <<k, s>> \in deliveries

(* "the same trigger never produces two events" (notifications.py:4), and  *)
(* the deliveries are recorded at once with the dispatch, each of them     *)
(* once.                                                                   *)
Box == INSTANCE Outbox WITH
         announced <- {k \in Key : event[k] # "none"},
         settled   <- {k \in Key : event[k] = "dispatched"},
         told      <- deliveries
KeepsOutbox == Box!Spec

(* A browser that registers or sets its preferences, and is interrupted by *)
(* nobody, has an active subscription afterwards (if it registers) with    *)
(* exactly the preferences it has asked for (create_subscription,          *)
(* update_subscription).                                                   *)
AloneReplaces ==
  [][\A r \in Request :
       At(r, "cleared") /\ txn'[r].phase = "ended" /\ prefs' # prefs /\ txn[r].alone
         => /\ txn[r].op = "post" => txn[r].sub \subseteq active'
            /\ \A s \in txn[r].sub :
                 {row.pref : row \in {x \in prefs' : x.sub = s}} = txn[r].want]_vars

(* Every event is dispatched in the end: a task that fails, or dies, has   *)
(* done no harm to the next one.                                           *)
EveryEventDispatched ==
  \A k \in Key : (event[k] = "pending") ~> (event[k] = "dispatched")

(* An endpoint that is gone does not stay ("prune dead endpoints").        *)
DeadPruned ==
  \A s \in Sub : (s \in subs \ active) ~> (s \notin subs \ active)
=============================================================================

------------------------ MODULE NotificationsProofs ------------------------
(***************************************************************************)
(* Web push for every number of workers, requests, events and browsers:    *)
(* nobody who is owed an event is skipped, and the notification tables     *)
(* keep what Outbox promises.                                              *)
(*                                                                         *)
(* The argument: as long as a row matches an event, it was among those     *)
(* that any dispatch of the event has selected; from then on the session   *)
(* has it left to send to, or to record, or has found it on record, and a  *)
(* record goes only with its row, which is owed nothing any more.          *)
(*                                                                         *)
(* And a browser nobody interrupts gets what it asks for: until others     *)
(* touch its row, what a request has read of it stands (Known).            *)
(***************************************************************************)
EXTENDS Notifications, TLAPS

(* A dispatch has everybody it owes the event still to go, or to record.   *)
JobOK(p) ==
  /\ ~txn[p].was => txn[p].op = "post"
  /\ At(p, "scanning") => txn[p].todo # {}
  /\ At(p, "picking") \/ At(p, "sending") =>
       \A k \in txn[p].todo \cup txn[p].event : event[k] # "none"
  /\ At(p, "sending") =>
       \E k \in Key : /\ txn[p].event = {k}
                      /\ \A s \in Sub : s \in owed[k] =>
                           s \in txn[p].left \cup txn[p].sent \/ <<k, s>> \in deliveries

OwedMatch ==
  \A k \in Key, s \in Sub : s \in owed[k] => s \in Matching(k) /\ event[k] # "none"

StoreOK ==
  /\ subs \subseteq Sub /\ active \subseteq subs /\ prefs \subseteq PrefRow
  /\ event \in [Key -> EventState] /\ deliveries \subseteq Key \X subs

Inv == TypeOK /\ OwedMatch /\ NobodySkipped /\ \A p \in Worker \cup Request : JobOK(p)

-----------------------------------------------------------------------------
LEMMA BlankTyped ==
  ASSUME NEW phase \in Phase
  PROVE  /\ Blank(phase) \in Session
         /\ Blank(phase).phase = phase /\ Blank(phase).was = TRUE
BY DEF Blank, Session

LEMMA RestingTyped ==
  ASSUME NEW p \in Worker \cup Request
  PROVE  /\ Resting(p) \in Session /\ Resting(p).was = TRUE
         /\ Resting(p).phase \in {"idle", "ended"}
<1>1. "idle" \in Phase /\ "ended" \in Phase
  BY DEF Phase
<1>2. CASE p \in Worker
  BY <1>1, <1>2, BlankTyped DEF Resting
<1>3. CASE p \notin Worker
  BY <1>1, <1>3, BlankTyped DEF Resting
<1> QED
  BY <1>2, <1>3

LEMMA InitInv == Init => Inv
<1> SUFFICES ASSUME Init PROVE Inv
  OBVIOUS
<1>1. \A p \in Worker \cup Request :
        txn[p] \in Session /\ txn[p].was = TRUE /\ txn[p].phase \in {"idle", "ended"}
  BY BlankTyped DEF Init, Phase
<1>2. txn \in [Worker \cup Request -> Session]
  BY <1>1 DEF Init
<1>3. event \in [Key -> EventState]
  BY DEF Init, EventState
<1>4. subs \subseteq Sub /\ active = subs
  BY PayloadAssumption DEF Init, Sub
<1>5. prefs \subseteq PrefRow
  BY <1>4 DEF Init, PrefRow, Pref
<1>6. TypeOK
  BY <1>2, <1>3, <1>4, <1>5 DEF Init, TypeOK
<1> QED
  BY <1>1, <1>6 DEF Init, Inv, OwedMatch, NobodySkipped, JobOK, At

(* Who is owed an event after a step.                                      *)
LEMMA OwedNext ==
  ASSUME Owe, NEW k \in Key, NEW s \in owed'[k]
  PROVE  /\ s \in Matching(k)'
         /\ s \notin owed[k] => event[k] = "none" /\ event'[k] = "pending"
BY DEF Owe

LEMMA OwedTyped ==
  ASSUME Owe, StoreOK'
  PROVE  owed' \in [Key -> SUBSET active']
BY DEF Owe, Matching, StoreOK

(* A step of p that loses no event, and no record but of a row that goes,  *)
(* and settles none before its recipients are on record.                   *)
LEMMA StepInv ==
  ASSUME Inv, Owe, StoreOK', crashes' \in Nat,
         NEW p \in Worker \cup Request, NEW t \in Session,
         txn' \in [Worker \cup Request -> Session], txn'[p] = t,
         \A q \in (Worker \cup Request) \ {p} :
           txn'[q] \in {txn[q], [txn[q] EXCEPT !.alone = FALSE]},
         JobOK(p)',
         \A k \in Key : event[k] # "none" => event'[k] # "none",
         \A k \in Key, s \in Sub :
           <<k, s>> \in deliveries => <<k, s>> \in deliveries' \/ s \notin active',
         \A k \in Key, s \in Sub :
           event'[k] = "dispatched" /\ event[k] # "dispatched" /\ s \in owed'[k]
             => <<k, s>> \in deliveries'
  PROVE  Inv'
<1>1. TypeOK'
  BY OwedTyped DEF TypeOK, StoreOK
<1>2. \A k \in Key, s \in Sub : s \in owed'[k] => s \in active'
  BY <1>1 DEF TypeOK
<1>3. OwedMatch'
  BY OwedNext DEF Inv, OwedMatch
<1>4. NobodySkipped'
  <2> SUFFICES ASSUME NEW k \in Key, event'[k] = "dispatched", NEW s \in owed'[k]
               PROVE  <<k, s>> \in deliveries'
    BY DEF NobodySkipped
  <2>1. s \in active' /\ s \in Sub
    BY <1>1 DEF TypeOK
  <2>2. s \in owed[k]
    BY OwedNext
  <2>3. CASE event[k] = "dispatched"
    BY <2>1, <2>2, <2>3 DEF Inv, NobodySkipped
  <2>4. CASE event[k] # "dispatched"
    BY <2>1, <2>4
  <2> QED
    BY <2>3, <2>4
<1>5. ASSUME NEW q \in (Worker \cup Request) \ {p}
      PROVE  JobOK(q)'
  <2>1. txn[q] \in Session
    BY DEF Inv, TypeOK
  <2>2. /\ txn'[q].phase = txn[q].phase /\ txn'[q].was = txn[q].was
        /\ txn'[q].op = txn[q].op /\ txn'[q].todo = txn[q].todo
        /\ txn'[q].event = txn[q].event /\ txn'[q].left = txn[q].left
        /\ txn'[q].sent = txn[q].sent
    BY <2>1 DEF Session
  <2>3. txn[q].todo \cup txn[q].event \subseteq Key
    BY <2>1 DEF Session
  <2>4. CASE At(q, "sending")
    <3>1. PICK k \in Key :
            /\ txn[q].event = {k}
            /\ \A s \in Sub : s \in owed[k] =>
                 s \in txn[q].left \cup txn[q].sent \/ <<k, s>> \in deliveries
      BY <2>4 DEF Inv, JobOK
    <3>2. event[k] # "none"
      BY <2>4, <3>1 DEF Inv, JobOK
    <3>3. \A s \in Sub : s \in owed'[k] =>
            s \in txn[q].left \cup txn[q].sent \/ <<k, s>> \in deliveries'
      BY <1>2, <3>1, <3>2, OwedNext
    <3> QED
      BY <2>2, <2>3, <2>4, <3>1, <3>3 DEF Inv, JobOK, At
  <2>5. CASE ~At(q, "sending")
    BY <2>2, <2>3, <2>5 DEF Inv, JobOK, At
  <2> QED
    BY <2>4, <2>5
<1> QED
  BY <1>1, <1>3, <1>4, <1>5 DEF Inv

LEMMA CommittingTyped ==
  ASSUME Inv, NEW p \in Worker \cup Request, NEW t \in Session, NEW S,
         Committing(p, t, S)
  PROVE  /\ txn' \in [Worker \cup Request -> Session] /\ txn'[p] = t
         /\ \A q \in (Worker \cup Request) \ {p} :
              txn'[q] \in {txn[q], [txn[q] EXCEPT !.alone = FALSE]}
<1>1. \A q \in Worker \cup Request :
        txn[q] \in Session /\ [txn[q] EXCEPT !.alone = FALSE] \in Session
  BY DEF Inv, TypeOK, Session
<1> QED
  BY <1>1 DEF Committing

(* Steps that change no table.                                             *)
LEMMA GoesInv ==
  ASSUME Inv, Owe, crashes' \in Nat, NEW p \in Worker \cup Request, NEW t \in Session,
         Goes(p, t), UNCHANGED store,
         ~t.was => t.op = "post",
         t.phase = "scanning" => t.todo # {},
         t.phase \in {"picking", "sending"} =>
           \A k \in t.todo \cup t.event : event[k] # "none",
         t.phase = "sending" =>
           \E k \in Key : /\ t.event = {k}
                          /\ \A s \in Sub : s \in owed[k] =>
                               s \in t.left \cup t.sent \/ <<k, s>> \in deliveries
  PROVE  Inv'
<1>1. /\ txn' \in [Worker \cup Request -> Session] /\ txn'[p] = t
      /\ \A q \in (Worker \cup Request) \ {p} : txn'[q] = txn[q]
  BY DEF Goes, Inv, TypeOK
<1>2. UNCHANGED <<subs, active, prefs, event, deliveries>>
  BY DEF store
<1>3. StoreOK'
  BY <1>2 DEF StoreOK, Inv, TypeOK
<1>4. \A k \in Key, s \in Sub : s \in owed'[k] => s \in owed[k]
  BY <1>2, OwedNext
<1>5. JobOK(p)'
  <2>1. CASE t.phase = "sending"
    <3>1. PICK k \in Key :
            /\ t.event = {k}
            /\ \A s \in Sub : s \in owed[k] =>
                 s \in t.left \cup t.sent \/ <<k, s>> \in deliveries
      BY <2>1
    <3>2. \A s \in Sub : s \in owed'[k] =>
            s \in t.left \cup t.sent \/ <<k, s>> \in deliveries
      BY <1>4, <3>1
    <3> QED
      BY <1>1, <1>2, <2>1, <3>1, <3>2 DEF JobOK, At
  <2>2. CASE t.phase # "sending"
    BY <1>1, <1>2, <2>2 DEF JobOK, At
  <2> QED
    BY <2>1, <2>2
<1> QED
  BY <1>1, <1>2, <1>3, <1>5, StepInv

LEMMA RollbackInv ==
  ASSUME Inv, Owe, crashes' \in Nat, NEW p \in Worker \cup Request, Rollback(p)
  PROVE  Inv'
BY RestingTyped, GoesInv DEF Rollback

(* Rows go, and what they are owed.                                        *)
LEMMA RemoveInv ==
  ASSUME Inv, Owe, crashes' \in Nat, NEW p \in Worker \cup Request,
         NEW S \in SUBSET Sub, Remove(p, S)
  PROVE  Inv'
<1>1. /\ Resting(p) \in Session /\ Resting(p).was = TRUE
      /\ Resting(p).phase \in {"idle", "ended"}
  BY RestingTyped
<1>2. /\ subs' = subs \ S /\ active' = active \ S /\ event' = event
      /\ prefs' = {row \in prefs : row.sub \notin S}
      /\ deliveries' = {d \in deliveries : d[2] \notin S}
      /\ Committing(p, Resting(p), S)
  BY DEF Remove
<1>3. deliveries' \subseteq Key \X (subs \ S)
  <2> SUFFICES ASSUME NEW d \in deliveries, d[2] \notin S PROVE d \in Key \X (subs \ S)
    BY <1>2
  <2>1. PICK k \in Key, s \in subs : d = <<k, s>>
    BY DEF Inv, TypeOK
  <2>2. s \notin S
    BY <2>1
  <2> QED
    BY <2>1, <2>2
<1>4. StoreOK'
  BY <1>2, <1>3 DEF StoreOK, Inv, TypeOK
<1>5. \A k \in Key, s \in Sub :
        <<k, s>> \in deliveries => <<k, s>> \in deliveries' \/ s \notin active'
  <2> TAKE k \in Key, s \in Sub
  <2>1. <<k, s>>[2] = s
    OBVIOUS
  <2> QED
    BY <1>2, <2>1
<1> QED
  BY <1>1, <1>2, <1>4, <1>5, CommittingTyped, StepInv DEF JobOK, At

-----------------------------------------------------------------------------
(* The tasks.                                                              *)
LEMMA ScanInv ==
  ASSUME Inv, Owe, crashes' \in Nat, NEW w \in Worker, StartScan(w) \/ CommitScan(w)
  PROVE  Inv'
<1>1. CASE StartScan(w)
  <2>1. PICK K \in SUBSET Key :
          /\ \E k \in K : event[k] = "none"
          /\ Goes(w, [Blank("scanning") EXCEPT !.todo = {k \in K : event[k] = "none"}])
    BY <1>1 DEF StartScan
  <2> DEFINE todo == {k \in K : event[k] = "none"}
             t == [Blank("scanning") EXCEPT !.todo = todo]
  <2>2. todo \in SUBSET Key /\ todo # {}
    BY <2>1
  <2> HIDE DEF todo
  <2>3. Blank("scanning") \in Session /\ Blank("scanning").was = TRUE
        /\ Blank("scanning").phase = "scanning"
    BY BlankTyped DEF Phase
  <2>4. t \in Session /\ t.was = TRUE /\ t.phase = "scanning" /\ t.todo = todo
    BY <2>2, <2>3 DEF Session
  <2>5. Goes(w, t) /\ UNCHANGED store
    BY <1>1, <2>1 DEF StartScan, todo
  <2> HIDE DEF t
  <2> QED
    BY <2>2, <2>4, <2>5, GoesInv
<1>2. CASE Rollback(w)
  BY <1>2, RollbackInv
<1>3. CASE /\ event' = [k \in Key |-> IF k \in txn[w].todo THEN "pending" ELSE event[k]]
           /\ Goes(w, Resting(w)) /\ UNCHANGED <<subs, active, prefs, deliveries>>
  <2>1. StoreOK'
    BY <1>3 DEF StoreOK, Inv, TypeOK, EventState
  <2>2. /\ txn' \in [Worker \cup Request -> Session] /\ txn'[w] = Resting(w)
        /\ \A q \in (Worker \cup Request) \ {w} : txn'[q] = txn[q]
    BY <1>3, RestingTyped DEF Goes, Inv, TypeOK
  <2>3. JobOK(w)'
    BY <2>2, RestingTyped DEF JobOK, At
  <2>4. \A k \in Key : /\ event[k] # "none" => event'[k] # "none"
                       /\ event'[k] = "dispatched" => event[k] = "dispatched"
    BY <1>3
  <2> QED
    BY <1>3, <2>1, <2>2, <2>3, <2>4, RestingTyped, StepInv
<1> QED
  BY <1>1, <1>2, <1>3 DEF CommitScan

LEMMA MatchInv ==
  ASSUME Inv, Owe, crashes' \in Nat, NEW w \in Worker, StartDispatch(w) \/ Match(w)
  PROVE  Inv'
<1>1. CASE StartDispatch(w)
  <2> DEFINE t == [Blank("picking") EXCEPT !.todo = Pending]
  <2>1. Blank("picking") \in Session /\ Blank("picking").was = TRUE
        /\ Blank("picking").phase = "picking" /\ Blank("picking").event = {}
    BY BlankTyped DEF Phase, Blank
  <2>2. /\ t \in Session /\ t.was = TRUE /\ t.phase = "picking" /\ t.todo = Pending
        /\ t.event = {}
    BY <2>1 DEF Session, Pending
  <2>3. Goes(w, t) /\ UNCHANGED store
    BY <1>1 DEF StartDispatch
  <2>4. \A k \in Pending : event[k] # "none"
    BY DEF Pending
  <2> HIDE DEF t
  <2> QED
    BY <2>2, <2>3, <2>4, GoesInv
<1>2. CASE Match(w)
  <2>1. PICK k \in txn[w].todo :
          Goes(w, [txn[w] EXCEPT !.phase = "sending", !.event = {k}, !.todo = @ \ {k},
                                 !.left = Matching(k)])
    BY <1>2 DEF Match
  <2> DEFINE t == [txn[w] EXCEPT !.phase = "sending", !.event = {k}, !.todo = @ \ {k},
                                 !.left = Matching(k)]
  <2>2. txn[w] \in Session /\ k \in Key /\ Matching(k) \in SUBSET Sub
    BY DEF Inv, TypeOK, Session, Matching
  <2>3. /\ t \in Session /\ t.was = txn[w].was /\ t.op = txn[w].op /\ t.phase = "sending"
        /\ t.event = {k} /\ t.todo = txn[w].todo \ {k} /\ t.left = Matching(k)
    BY <2>2 DEF Session, Phase
  <2>4. Goes(w, t) /\ UNCHANGED store
    BY <1>2, <2>1 DEF Match
  <2>5. JobOK(w) /\ At(w, "picking")
    BY <1>2 DEF Inv, Match
  <2>6. \A s \in Sub : s \in owed[k] => s \in Matching(k)
    BY <2>2 DEF Inv, OwedMatch
  <2> HIDE DEF t
  <2> QED
    BY <2>2, <2>3, <2>4, <2>5, <2>6, GoesInv DEF JobOK
<1> QED
  BY <1>1, <1>2

LEMMA SendInv ==
  ASSUME Inv, Owe, crashes' \in Nat, NEW w \in Worker, Send(w)
  PROVE  Inv'
<1>1. PICK k \in txn[w].event, s \in txn[w].left, dead \in BOOLEAN :
        Goes(w, IF <<k, s>> \in deliveries
                THEN [txn[w] EXCEPT !.left = @ \ {s}]
                ELSE [txn[w] EXCEPT !.left = @ \ {s}, !.sent = @ \cup {s},
                                    !.gone = IF dead THEN @ \cup {s} ELSE @])
  BY DEF Send
<1>2. UNCHANGED store /\ At(w, "sending") /\ txn[w] \in Session /\ JobOK(w)
  BY DEF Send, Inv, TypeOK
<1>3. PICK k0 \in Key :
        /\ txn[w].event = {k0}
        /\ \A x \in Sub : x \in owed[k0] =>
             x \in txn[w].left \cup txn[w].sent \/ <<k0, x>> \in deliveries
  BY <1>2 DEF JobOK
<1>4. k = k0 /\ s \in Sub
  BY <1>2, <1>3 DEF Session
<1>5. \A x \in txn[w].todo \cup txn[w].event : event[x] # "none"
  BY <1>2 DEF JobOK
<1>6. ~txn[w].was => txn[w].op = "post"
  BY <1>2 DEF JobOK
<1>7. CASE <<k, s>> \in deliveries
  <2> DEFINE t == [txn[w] EXCEPT !.left = @ \ {s}]
  <2>1. /\ t \in Session /\ t.phase = "sending" /\ t.was = txn[w].was /\ t.op = txn[w].op
        /\ t.todo = txn[w].todo /\ t.event = {k} /\ t.left = txn[w].left \ {s}
        /\ t.sent = txn[w].sent
    BY <1>2, <1>3, <1>4 DEF Session, At
  <2>2. Goes(w, t)
    BY <1>1, <1>7
  <2> HIDE DEF t
  <2>3. \A x \in Sub : x \in owed[k] => x \in t.left \cup t.sent \/ <<k, x>> \in deliveries
    BY <1>3, <1>4, <1>7, <2>1
  <2> QED
    BY <1>2, <1>3, <1>4, <1>5, <1>6, <2>1, <2>2, <2>3, GoesInv
<1>8. CASE <<k, s>> \notin deliveries
  <2> DEFINE gone == IF dead THEN txn[w].gone \cup {s} ELSE txn[w].gone
             t == [txn[w] EXCEPT !.left = @ \ {s}, !.sent = @ \cup {s}, !.gone = gone]
  <2>1. Goes(w, t)
    BY <1>1, <1>2, <1>8 DEF Session
  <2>2. gone \in SUBSET Sub
    BY <1>2, <1>4 DEF Session
  <2> HIDE DEF gone
  <2>3. /\ t \in Session /\ t.phase = "sending" /\ t.was = txn[w].was /\ t.op = txn[w].op
        /\ t.todo = txn[w].todo /\ t.event = {k} /\ t.left = txn[w].left \ {s}
        /\ t.sent = txn[w].sent \cup {s}
    BY <1>2, <1>3, <1>4, <2>2 DEF Session, At
  <2> HIDE DEF t
  <2>4. \A x \in Sub : x \in owed[k] => x \in t.left \cup t.sent \/ <<k, x>> \in deliveries
    BY <1>3, <1>4, <2>3
  <2> QED
    BY <1>2, <1>3, <1>4, <1>5, <1>6, <2>1, <2>3, <2>4, GoesInv
<1> QED
  BY <1>7, <1>8

(* Everybody has been reached or is on record already.                     *)
LEMMA RecordInv ==
  ASSUME Inv, Owe, crashes' \in Nat, NEW w \in Worker, Record(w)
  PROVE  Inv'
<1>1. CASE Rollback(w)
  BY <1>1, RollbackInv
<1>2. ASSUME NEW k \in txn[w].event, txn[w].sent \subseteq subs, Recorded(w, k)
      PROVE  Inv'
  <2>1. txn[w] \in Session /\ JobOK(w) /\ At(w, "sending") /\ txn[w].left = {}
    BY DEF Record, Inv, TypeOK
  <2>2. /\ k \in Key /\ event[k] # "none"
        /\ \A s \in Sub : s \in owed[k] => s \in txn[w].sent \/ <<k, s>> \in deliveries
    BY <1>2, <2>1 DEF JobOK
  <2>3. /\ event' = [event EXCEPT ![k] = "dispatched"]
        /\ deliveries' = deliveries \cup ({k} \X txn[w].sent)
        /\ active' = active \ txn[w].gone /\ UNCHANGED <<subs, prefs>>
    BY <1>2 DEF Recorded
  <2>4. StoreOK'
    BY <1>2, <2>2, <2>3 DEF StoreOK, Inv, TypeOK, EventState
  <2> DEFINE t == IF txn[w].todo = {} THEN Resting(w)
                  ELSE [Blank("picking") EXCEPT !.todo = txn[w].todo]
  <2>5. Committing(w, t, txn[w].gone)
    BY <1>2 DEF Recorded
  <2>6. /\ t \in Session /\ t.was = TRUE /\ t.phase \in {"idle", "ended", "picking"}
        /\ t.phase = "picking" => t.todo = txn[w].todo /\ t.event = {}
    <3>1. CASE txn[w].todo = {}
      BY <3>1, RestingTyped
    <3>2. CASE txn[w].todo # {}
      <4>1. Blank("picking") \in Session /\ Blank("picking").was = TRUE
            /\ Blank("picking").phase = "picking" /\ Blank("picking").event = {}
        BY BlankTyped DEF Phase, Blank
      <4> QED
        BY <2>1, <3>2, <4>1 DEF Session
    <3> QED
      BY <3>1, <3>2
  <2> HIDE DEF t
  <2>7. /\ txn' \in [Worker \cup Request -> Session] /\ txn'[w] = t
        /\ \A q \in (Worker \cup Request) \ {w} :
             txn'[q] \in {txn[q], [txn[q] EXCEPT !.alone = FALSE]}
    BY <2>5, <2>6, CommittingTyped
  <2>8. \A x \in Key : event[x] # "none" => event'[x] # "none"
    BY <2>3 DEF Inv, TypeOK
  <2>9. JobOK(w)'
    <3>1. \A x \in txn[w].todo : x \in Key /\ event[x] # "none"
      BY <2>1 DEF JobOK, Session
    <3> QED
      BY <2>6, <2>7, <2>8, <3>1 DEF JobOK, At
  <2>10. ASSUME NEW x \in Key, NEW s \in Sub, event'[x] = "dispatched",
                event[x] # "dispatched", s \in owed'[x]
         PROVE  <<x, s>> \in deliveries'
    <3>1. x = k
      BY <2>3, <2>10 DEF Inv, TypeOK
    <3>2. s \in owed[k]
      BY <2>2, <2>10, <3>1, OwedNext
    <3> QED
      BY <2>2, <2>3, <3>1, <3>2
  <2> QED
    BY <2>3, <2>4, <2>6, <2>7, <2>8, <2>9, <2>10, StepInv
<1> QED
  BY <1>1, <1>2 DEF Record

LEMMA PruneInv ==
  ASSUME Inv, Owe, crashes' \in Nat, NEW w \in Worker, StartPrune(w) \/ CommitPrune(w)
  PROVE  Inv'
<1>1. CASE StartPrune(w)
  <2> DEFINE t == [Blank("pruning") EXCEPT !.left = subs \ active]
  <2>1. Blank("pruning") \in Session /\ Blank("pruning").was = TRUE
        /\ Blank("pruning").phase = "pruning"
    BY BlankTyped DEF Phase
  <2>2. subs \ active \in SUBSET Sub
    BY DEF Inv, TypeOK
  <2>3. t \in Session /\ t.was = TRUE /\ t.phase = "pruning"
    BY <2>1, <2>2 DEF Session
  <2>4. Goes(w, t) /\ UNCHANGED store
    BY <1>1 DEF StartPrune
  <2> HIDE DEF t
  <2> QED
    BY <2>3, <2>4, GoesInv
<1>2. CASE CommitPrune(w)
  <2>1. txn[w].left \in SUBSET Sub /\ Remove(w, txn[w].left)
    BY <1>2 DEF CommitPrune, Inv, TypeOK, Session
  <2> QED
    BY <2>1, RemoveInv
<1> QED
  BY <1>1, <1>2

-----------------------------------------------------------------------------
(* The requests.                                                           *)
LEMMA CallInv ==
  ASSUME Inv, Owe, crashes' \in Nat, NEW r \in Request, Call(r)
  PROVE  Inv'
<1>1. \A phase \in {"inserting", "loaded", "removing"} :
        /\ Blank(phase) \in Session /\ Blank(phase).was = TRUE
        /\ Blank(phase).phase = phase
  BY BlankTyped DEF Phase
<1>2. Wishes \subseteq SUBSET Pref
  BY PayloadAssumption
<1>3. CASE Post(r)
  <2>1. PICK b \in Browser, want \in Wishes \ {{}} :
          LET found == {s \in subs : s[1] = b} IN
          Goes(r, IF found = {}
                  THEN [Blank("inserting") EXCEPT !.op = "post", !.want = want,
                                                  !.sub = {<<b, r>>}]
                  ELSE [Blank("loaded") EXCEPT !.op = "post", !.want = want,
                                               !.sub = found, !.was = found \subseteq active])
    BY <1>3 DEF Post
  <2>2. UNCHANGED store
    BY <1>3 DEF Post
  <2> DEFINE found == {s \in subs : s[1] = b}
  <2>3. CASE found = {}
    <3> DEFINE t == [Blank("inserting") EXCEPT !.op = "post", !.want = want, !.sub = {<<b, r>>}]
    <3>1. {<<b, r>>} \in SUBSET Sub
      BY DEF Sub
    <3>2. t \in Session /\ t.op = "post" /\ t.phase = "inserting"
      BY <1>1, <1>2, <3>1 DEF Session
    <3>3. Goes(r, t)
      BY <2>1, <2>3
    <3> HIDE DEF t
    <3> QED
      BY <2>2, <3>2, <3>3, GoesInv
  <2>4. CASE found # {}
    <3> DEFINE was == found \subseteq active
               t == [Blank("loaded") EXCEPT !.op = "post", !.want = want, !.sub = found,
                                            !.was = was]
    <3>1. found \in SUBSET Sub
      BY DEF Inv, TypeOK
    <3>2. Goes(r, t)
      BY <2>1, <2>4
    <3>3. was \in BOOLEAN
      OBVIOUS
    <3> HIDE DEF found, was
    <3>4. t \in Session /\ t.op = "post" /\ t.phase = "loaded"
      BY <1>1, <1>2, <3>1, <3>3 DEF Session
    <3> HIDE DEF t
    <3> QED
      BY <2>2, <3>2, <3>4, GoesInv
  <2> QED
    BY <2>3, <2>4
<1>4. CASE Patch(r)
  <2>1. PICK s \in subs, want \in Wishes :
          Goes(r, [Blank("loaded") EXCEPT !.op = "patch", !.want = want, !.sub = {s}])
    BY <1>4 DEF Patch
  <2> DEFINE t == [Blank("loaded") EXCEPT !.op = "patch", !.want = want, !.sub = {s}]
  <2>2. {s} \in SUBSET Sub
    BY DEF Inv, TypeOK
  <2>3. t \in Session /\ t.was = TRUE /\ t.phase = "loaded"
    BY <1>1, <1>2, <2>2 DEF Session
  <2>4. Goes(r, t) /\ UNCHANGED store
    BY <1>4, <2>1 DEF Patch
  <2> HIDE DEF t
  <2> QED
    BY <2>3, <2>4, GoesInv
<1>5. CASE Delete(r)
  <2>1. PICK s \in subs : Goes(r, [Blank("removing") EXCEPT !.left = {s}])
    BY <1>5 DEF Delete
  <2> DEFINE t == [Blank("removing") EXCEPT !.left = {s}]
  <2>2. {s} \in SUBSET Sub
    BY DEF Inv, TypeOK
  <2>3. t \in Session /\ t.was = TRUE /\ t.phase = "removing"
    BY <1>1, <2>2 DEF Session
  <2>4. Goes(r, t) /\ UNCHANGED store
    BY <1>5, <2>1 DEF Delete
  <2> HIDE DEF t
  <2> QED
    BY <2>3, <2>4, GoesInv
<1> QED
  BY <1>3, <1>4, <1>5 DEF Call

(* The preferences are replaced; the row of a POST is there and active.    *)
LEMMA PrefsInv ==
  ASSUME Inv, Owe, crashes' \in Nat, NEW r \in Request, CommitPrefs(r)
  PROVE  Inv'
<1>1. CASE Rollback(r)
  BY <1>1, RollbackInv
<1>2. CASE ~Fails(r) /\ ~Rollback(r)
  <2> DEFINE new == {s \in txn[r].sub : s[2] = r}
             up == IF txn[r].was THEN {} ELSE txn[r].sub
  <2>1. /\ subs' = subs \cup new /\ active' = active \cup new \cup up
        /\ prefs' = (prefs \ txn[r].old) \cup Rows(r)
        /\ Committing(r, Resting(r), txn[r].sub) /\ UNCHANGED <<event, deliveries>>
    BY <1>2 DEF CommitPrefs
  <2>2. txn[r] \in Session /\ JobOK(r)
    BY DEF Inv, TypeOK
  <2>3. new \subseteq Sub /\ txn[r].sub \subseteq Sub /\ txn[r].want \subseteq Pref
    BY <2>2 DEF Session
  <2>4. up \subseteq subs \cup new
    BY <1>2, <2>2 DEF JobOK, Fails
  <2>5. Rows(r) \subseteq PrefRow
    BY <2>3 DEF Rows, PrefRow
  <2> HIDE DEF new, up
  <2>6. StoreOK'
    BY <2>1, <2>3, <2>4, <2>5 DEF StoreOK, Inv, TypeOK
  <2>7. /\ Resting(r) \in Session /\ Resting(r).was = TRUE
        /\ Resting(r).phase \in {"idle", "ended"}
    BY RestingTyped
  <2>8. /\ txn' \in [Worker \cup Request -> Session] /\ txn'[r] = Resting(r)
        /\ \A q \in (Worker \cup Request) \ {r} :
             txn'[q] \in {txn[q], [txn[q] EXCEPT !.alone = FALSE]}
    BY <2>1, <2>7, CommittingTyped
  <2>9. JobOK(r)'
    BY <2>7, <2>8 DEF JobOK, At
  <2> QED
    BY <2>1, <2>6, <2>7, <2>8, <2>9, StepInv
<1> QED
  BY <1>1, <1>2 DEF CommitPrefs

LEMMA ServeInv ==
  ASSUME Inv, Owe, crashes' \in Nat, NEW r \in Request, Serve(r)
  PROVE  Inv'
<1>1. txn[r] \in Session /\ (~txn[r].was => txn[r].op = "post")
  BY DEF Inv, TypeOK, JobOK
<1>2. CASE Rollback(r)
  BY <1>2, RollbackInv
<1>3. CASE InsertSub(r) /\ ~Rollback(r)
  <2> DEFINE t == [txn[r] EXCEPT !.phase = "loaded"]
  <2>1. Goes(r, t) /\ UNCHANGED store
    BY <1>3 DEF InsertSub
  <2>2. t \in Session /\ t.phase = "loaded" /\ t.was = txn[r].was /\ t.op = txn[r].op
    BY <1>1 DEF Session, Phase
  <2> HIDE DEF t
  <2> QED
    BY <1>1, <2>1, <2>2, GoesInv
<1>4. CASE Clear(r)
  <2>1. PICK phase \in {"cleared", "clearing"}, old \in SUBSET prefs :
          Goes(r, [txn[r] EXCEPT !.phase = phase, !.old = old])
    BY <1>4 DEF Clear
  <2> DEFINE t == [txn[r] EXCEPT !.phase = phase, !.old = old]
  <2>2. old \in SUBSET PrefRow
    BY DEF Inv, TypeOK
  <2>3. t \in Session /\ t.phase = phase /\ t.was = txn[r].was /\ t.op = txn[r].op
    BY <1>1, <2>2 DEF Session, Phase
  <2>4. Goes(r, t) /\ UNCHANGED store
    BY <1>4, <2>1 DEF Clear
  <2> HIDE DEF t
  <2> QED
    BY <1>1, <2>3, <2>4, GoesInv
<1>5. CASE Cleared(r)
  <2> DEFINE t == [txn[r] EXCEPT !.phase = "cleared"]
  <2>1. Goes(r, t) /\ UNCHANGED store
    BY <1>5 DEF Cleared
  <2>2. t \in Session /\ t.phase = "cleared" /\ t.was = txn[r].was /\ t.op = txn[r].op
    BY <1>1 DEF Session, Phase
  <2> HIDE DEF t
  <2> QED
    BY <1>1, <2>1, <2>2, GoesInv
<1>6. CASE CommitPrefs(r)
  BY <1>6, PrefsInv
<1>7. CASE CommitDelete(r)
  <2>1. txn[r].left \in SUBSET Sub /\ Remove(r, txn[r].left)
    BY <1>1, <1>7 DEF CommitDelete, Session
  <2> QED
    BY <2>1, RemoveInv
<1> QED
  BY <1>2, <1>3, <1>4, <1>5, <1>6, <1>7 DEF Serve

(* The invariant holds of any number of workers and requests.              *)
THEOREM Invariance == Spec => []Inv
<1>1. ASSUME Inv, Step, Owe PROVE Inv'
  <2>1. crashes' \in Nat
    BY <1>1 DEF Step, Process, Crash, Inv, TypeOK
  <2>2. ASSUME NEW w \in Worker, StartScan(w) \/ Work(w) PROVE Inv'
    BY <1>1, <2>1, <2>2, ScanInv, MatchInv, SendInv, RecordInv, PruneInv DEF Work
  <2>3. ASSUME NEW r \in Request, Call(r) \/ Serve(r) PROVE Inv'
    BY <1>1, <2>1, <2>3, CallInv, ServeInv
  <2>4. ASSUME NEW p \in Worker \cup Request, NEW r \in Request, BreakDeadlock(p, r)
        PROVE  Inv'
    BY <1>1, <2>1, <2>4, RollbackInv DEF BreakDeadlock
  <2>5. ASSUME NEW w \in Worker, Crash(w) PROVE Inv'
    BY <1>1, <2>1, <2>5, RollbackInv DEF Crash
  <2> QED
    BY <1>1, <2>2, <2>3, <2>4, <2>5 DEF Step, Process
<1>2. ASSUME Inv, UNCHANGED vars PROVE Inv'
  <2>1. UNCHANGED <<subs, active, prefs, event, deliveries, txn, crashes, owed>>
    BY <1>2 DEF vars, store
  <2>2. TypeOK' /\ NobodySkipped'
    BY <1>2, <2>1 DEF Inv, TypeOK, NobodySkipped
  <2>3. OwedMatch'
    BY <1>2, <2>1 DEF Inv, OwedMatch, Matching
  <2>4. \A p \in Worker \cup Request : JobOK(p)'
    BY <1>2, <2>1 DEF Inv, JobOK, At
  <2> QED
    BY <2>2, <2>3, <2>4 DEF Inv
<1>3. Inv /\ [Next]_vars => Inv'
  BY <1>1, <1>2 DEF Next, Quiet
<1> QED
  BY InitInv, <1>3, PTL DEF Spec

(* The rows stay well formed: a delivery has its subscription, and what is *)
(* active is there (models/notifications.py, the commits of tasks and      *)
(* requests).                                                              *)
THEOREM TypeCorrectness == Spec => []TypeOK
BY Invariance, PTL DEF Inv

(* Whoever matches an event from its making to its dispatch is on record,  *)
(* whichever tasks overlap, fail or die (dispatch_event).                  *)
THEOREM NobodyIsSkipped == Spec => []NobodySkipped
BY Invariance, PTL DEF Inv

-----------------------------------------------------------------------------
(* The refinement of Outbox: only a scan announces, only a dispatch        *)
(* settles, and a record goes only with its row.                           *)
Announced == {k \in Key : event[k] # "none"}
Settled == {k \in Key : event[k] = "dispatched"}
BoxStep == Box!Next \/ UNCHANGED <<Announced, Settled, deliveries>>

LEMMA Unsettled ==
  ASSUME UNCHANGED <<event, deliveries>>
  PROVE  BoxStep
BY DEF BoxStep, Announced, Settled

LEMMA RollbackBox == ASSUME NEW p, Rollback(p) PROVE BoxStep
BY Unsettled DEF Rollback, store

LEMMA AnnounceBox ==
  ASSUME Inv, NEW w \in Worker, CommitScan(w)
  PROVE  BoxStep
<1>1. CASE Rollback(w)
  BY <1>1, RollbackBox
<1>2. CASE ~Rollback(w)
  <2>0. PICK K \in SUBSET Key : K = txn[w].todo
    BY DEF CommitScan, Inv, TypeOK, Session
  <2>1. K # {}
    BY <2>0 DEF CommitScan, Inv, JobOK
  <2>2. /\ \A k \in K : event[k] = "none"
        /\ event' = [k \in Key |-> IF k \in K THEN "pending" ELSE event[k]]
        /\ deliveries' = deliveries
    BY <1>2, <2>0 DEF CommitScan
  <2>3. Announced' = Announced \cup K /\ K \cap Announced = {}
    BY <2>1, <2>2 DEF Announced
  <2>4. Settled' = Settled
    BY <2>1, <2>2 DEF Settled
  <2>5. Box!Announce(K)
    BY <2>1, <2>2, <2>3, <2>4 DEF Box!Announce, Announced, Settled
  <2> QED
    BY <2>5 DEF BoxStep, Box!Next
<1> QED
  BY <1>1, <1>2

LEMMA SettleBox ==
  ASSUME Inv, NEW w \in Worker, Record(w)
  PROVE  BoxStep
<1>1. CASE Rollback(w)
  BY <1>1, RollbackBox
<1>2. ASSUME NEW k \in txn[w].event, ({k} \X txn[w].sent) \cap deliveries = {}, Recorded(w, k)
      PROVE  BoxStep
  <2>0. PICK S \in SUBSET Sub : S = txn[w].sent
    BY DEF Record, Inv, TypeOK, Session
  <2>1. k \in Key /\ event[k] # "none"
    BY <1>2 DEF Record, Inv, JobOK, TypeOK, Session
  <2>2. /\ event' = [event EXCEPT ![k] = "dispatched"]
        /\ deliveries' = deliveries \cup ({k} \X S)
    BY <1>2, <2>0 DEF Recorded
  <2>3. k \in Announced /\ Announced' = Announced
    BY <2>1, <2>2 DEF Announced, Inv, TypeOK
  <2>4. Settled' = Settled \cup {k}
    BY <2>1, <2>2 DEF Settled, Inv, TypeOK
  <2>5. Box!Settle(k, S)
    BY <1>2, <2>0, <2>2, <2>3, <2>4 DEF Box!Settle, Announced, Settled
  <2> QED
    BY <2>1, <2>5 DEF BoxStep, Box!Next
<1> QED
  BY <1>1, <1>2 DEF Record

LEMMA ForgetBox ==
  ASSUME Inv, NEW p, NEW S \in SUBSET Sub, Remove(p, S)
  PROVE  BoxStep
<1>1. event' = event /\ deliveries' = {d \in deliveries : d[2] \notin S}
  BY DEF Remove
<1>2. \A d \in deliveries : d \in Key \X S <=> d[2] \in S
  <2> TAKE d \in deliveries
  <2>1. PICK k \in Key, s \in subs : d = <<k, s>>
    BY DEF Inv, TypeOK
  <2> QED
    BY <2>1
<1>3. deliveries' = deliveries \ (Key \X S)
  BY <1>1, <1>2
<1>4. Box!Forget(S)
  BY <1>1, <1>3 DEF Box!Forget
<1> QED
  BY <1>4 DEF BoxStep, Box!Next

LEMMA StepBox ==
  ASSUME Inv, Step
  PROVE  BoxStep
<1>1. ASSUME NEW w \in Worker, StartScan(w) \/ StartDispatch(w) \/ Match(w) \/ Send(w)
                                \/ StartPrune(w)
      PROVE  BoxStep
  BY <1>1, Unsettled DEF StartScan, StartDispatch, Match, Send, StartPrune, store
<1>2. ASSUME NEW p \in Worker \cup Request, CommitPrune(p) \/ CommitDelete(p)
      PROVE  BoxStep
  <2>1. txn[p].left \in SUBSET Sub /\ Remove(p, txn[p].left)
    BY <1>2 DEF CommitPrune, CommitDelete, Inv, TypeOK, Session
  <2> QED
    BY <2>1, ForgetBox
<1>3. ASSUME NEW r \in Request, Call(r) \/ InsertSub(r) \/ Clear(r) \/ Cleared(r)
                                \/ CommitPrefs(r)
      PROVE  BoxStep
  BY <1>3, RollbackBox, Unsettled
  DEF Call, Post, Patch, Delete, InsertSub, Clear, Cleared, CommitPrefs, store
<1>4. ASSUME NEW p \in Worker \cup Request, NEW r \in Request, BreakDeadlock(p, r)
      PROVE  BoxStep
  BY <1>4, RollbackBox DEF BreakDeadlock
<1>5. ASSUME NEW w \in Worker, Crash(w) PROVE BoxStep
  BY <1>5, RollbackBox DEF Crash
<1>6. ASSUME NEW w \in Worker, CommitScan(w) \/ Record(w) PROVE BoxStep
  BY <1>6, AnnounceBox, SettleBox
<1> QED
  BY <1>1, <1>2, <1>3, <1>4, <1>5, <1>6 DEF Step, Process, Work, Serve

(* However the sessions overlap, fail and die, the tables are an outbox:   *)
(* an event is announced once, and settled in one step with the record of  *)
(* its recipients, each of them recorded once (UNIQUE and the one commit   *)
(* of dispatch_event).                                                     *)
THEOREM Refinement == Spec => KeepsOutbox
<1>1. Init => Box!Init
  <2> SUFFICES ASSUME Init PROVE Box!Init
    OBVIOUS
  <2>1. deliveries = {} /\ \A k \in Key : event[k] # "none" <=> event[k] = "dispatched"
    BY DEF Init
  <2>2. Announced = Settled
    BY <2>1 DEF Announced, Settled
  <2> QED
    BY <2>1, <2>2 DEF Box!Init, Announced, Settled
<1>2. Inv /\ [Next]_vars => [Box!Next]_<<Announced, Settled, deliveries>>
  <2>1. ASSUME UNCHANGED vars PROVE BoxStep
    BY <2>1, Unsettled DEF vars, store
  <2> QED
    BY <2>1, StepBox DEF Next, Quiet, BoxStep
<1> QED
  BY Invariance, <1>1, <1>2, PTL DEF Spec, KeepsOutbox, Box!Spec, Announced, Settled

-----------------------------------------------------------------------------
(* What a request knows of the rows it replaces, while nobody else changes *)
(* them: a row loaded as active still is, and all preferences there are    *)
(* have been seen, and are to go.                                          *)
RequestOK(r, t, live, rows) ==
  t.alone =>
    /\ t.phase \in {"inserting", "loaded", "clearing", "cleared"} /\ t.op = "post" /\ t.was
         => \A s \in t.sub : s[2] = r \/ s \in live
    /\ t.phase \in {"clearing", "cleared"} =>
         \A row \in rows : row.sub \in t.sub => row \in t.old

Stands == \A r \in Request : RequestOK(r, txn[r], active, prefs)
Known == Inv /\ Stands

(* A step of p: whoever has a row that it changes takes note.              *)
LEMMA StepStands ==
  ASSUME Known, Inv', NEW p \in Worker \cup Request, NEW t, txn'[p] = t,
         p \in Request => RequestOK(p, t, active', prefs'),
         NEW S,
         \A q \in (Worker \cup Request) \ {p} :
           txn'[q] = IF txn[q].sub \cap S = {} THEN txn[q]
                     ELSE [txn[q] EXCEPT !.alone = FALSE],
         \A s \in active : s \in active' \/ s \in S,
         \A row \in prefs' : row \in prefs \/ row.sub \in S
  PROVE  Known'
<1> SUFFICES ASSUME NEW q \in Request PROVE RequestOK(q, txn'[q], active', prefs')
  BY DEF Known, Stands
<1>1. CASE q = p
  BY <1>1
<1>2. CASE q # p
  <2>1. txn[q] \in Session /\ RequestOK(q, txn[q], active, prefs)
    BY DEF Known, Stands, Inv, TypeOK
  <2>2. CASE txn[q].sub \cap S = {}
    <3>1. txn'[q] = txn[q]
      BY <1>2, <2>2
    <3>2. \A s \in txn[q].sub : s \in active => s \in active'
      BY <2>2
    <3>3. \A row \in prefs' : row.sub \in txn[q].sub => row \in prefs
      BY <2>2
    <3> QED
      BY <2>1, <3>1, <3>2, <3>3 DEF RequestOK
  <2>3. CASE txn[q].sub \cap S # {}
    <3>1. txn'[q].alone = FALSE
      BY <1>2, <2>1, <2>3 DEF Session
    <3> QED
      BY <3>1 DEF RequestOK
  <2> QED
    BY <2>2, <2>3
<1> QED
  BY <1>1, <1>2

LEMMA GoesStands ==
  ASSUME Known, Inv', NEW p \in Worker \cup Request, NEW t, Goes(p, t), UNCHANGED store,
         p \in Request => RequestOK(p, t, active, prefs)
  PROVE  Known'
<1>1. /\ txn'[p] = t /\ \A q \in (Worker \cup Request) \ {p} : txn'[q] = txn[q]
  BY DEF Goes, Known, Inv, TypeOK
<1>2. active' = active /\ prefs' = prefs
  BY DEF store
<1>3. \A q \in (Worker \cup Request) \ {p} :
        txn'[q] = IF txn[q].sub \cap {} = {} THEN txn[q]
                  ELSE [txn[q] EXCEPT !.alone = FALSE]
  BY <1>1
<1> QED
  BY <1>1, <1>2, <1>3, StepStands

LEMMA BlankStands ==
  ASSUME NEW r, NEW phase, NEW live, NEW rows
  PROVE  RequestOK(r, Blank(phase), live, rows)
BY DEF RequestOK, Blank

LEMMA RestingStands ==
  ASSUME NEW r, NEW live, NEW rows
  PROVE  RequestOK(r, Resting(r), live, rows)
BY BlankStands DEF Resting

LEMMA RollbackStands ==
  ASSUME Known, Inv', NEW p \in Worker \cup Request, Rollback(p)
  PROVE  Known'
BY RestingStands, GoesStands DEF Rollback

LEMMA RemoveStands ==
  ASSUME Known, Inv', NEW p \in Worker \cup Request, NEW S, Remove(p, S)
  PROVE  Known'
<1>1. /\ active' = active \ S /\ prefs' \subseteq prefs
      /\ Committing(p, Resting(p), S)
  BY DEF Remove
<1>2. /\ txn'[p] = Resting(p)
      /\ \A q \in (Worker \cup Request) \ {p} :
           txn'[q] = IF txn[q].sub \cap S = {} THEN txn[q]
                     ELSE [txn[q] EXCEPT !.alone = FALSE]
  BY <1>1 DEF Committing
<1>3. RequestOK(p, Resting(p), active', prefs')
  BY RestingStands
<1> QED
  BY <1>1, <1>2, <1>3, StepStands

LEMMA WorkStands ==
  ASSUME Known, Inv', NEW w \in Worker, StartScan(w) \/ Work(w)
  PROVE  Known'
<1>0. w \notin Request
  BY SessionAssumption
<1>1. CASE Rollback(w)
  BY <1>1, RollbackStands
<1>2. CASE StartScan(w) \/ StartDispatch(w) \/ Match(w) \/ Send(w) \/ StartPrune(w)
  <2>1. UNCHANGED store /\ \E t : Goes(w, t)
    BY <1>2 DEF StartScan, StartDispatch, Match, Send, StartPrune
  <2> QED
    BY <1>0, <2>1, GoesStands
<1>3. CASE CommitScan(w) /\ ~Rollback(w)
  <2>1. Goes(w, Resting(w)) /\ active' = active /\ prefs' = prefs
    BY <1>3 DEF CommitScan
  <2>2. /\ txn'[w] = Resting(w)
        /\ \A q \in (Worker \cup Request) \ {w} : txn'[q] = txn[q]
    BY <2>1 DEF Goes, Known, Inv, TypeOK
  <2>3. \A q \in (Worker \cup Request) \ {w} :
          txn'[q] = IF txn[q].sub \cap {} = {} THEN txn[q]
                    ELSE [txn[q] EXCEPT !.alone = FALSE]
    BY <2>2
  <2> QED
    BY <1>0, <2>1, <2>2, <2>3, StepStands
<1>4. CASE Record(w) /\ ~Rollback(w)
  <2>1. PICK t : Committing(w, t, txn[w].gone)
    BY <1>4 DEF Record, Recorded
  <2>2. active' = active \ txn[w].gone /\ prefs' = prefs
    BY <1>4 DEF Record, Recorded
  <2>3. /\ txn'[w] = t
        /\ \A q \in (Worker \cup Request) \ {w} :
             txn'[q] = IF txn[q].sub \cap txn[w].gone = {} THEN txn[q]
                       ELSE [txn[q] EXCEPT !.alone = FALSE]
    BY <2>1 DEF Committing
  <2> QED
    BY <1>0, <2>2, <2>3, StepStands
<1>5. CASE CommitPrune(w)
  BY <1>5, RemoveStands DEF CommitPrune
<1> QED
  BY <1>1, <1>2, <1>3, <1>4, <1>5 DEF Work

LEMMA CallStands ==
  ASSUME Known, Inv', NEW r \in Request, Call(r)
  PROVE  Known'
<1>1. UNCHANGED store
  BY DEF Call, Post, Patch, Delete
<1>2. CASE Post(r)
  <2>1. PICK b \in Browser, want \in Wishes \ {{}} :
          LET found == {s \in subs : s[1] = b} IN
          Goes(r, IF found = {}
                  THEN [Blank("inserting") EXCEPT !.op = "post", !.want = want,
                                                  !.sub = {<<b, r>>}]
                  ELSE [Blank("loaded") EXCEPT !.op = "post", !.want = want,
                                               !.sub = found, !.was = found \subseteq active])
    BY <1>2 DEF Post
  <2> DEFINE found == {s \in subs : s[1] = b}
  <2>2. CASE found = {}
    <3> DEFINE t == [Blank("inserting") EXCEPT !.op = "post", !.want = want, !.sub = {<<b, r>>}]
    <3>1. t.phase = "inserting" /\ t.sub = {<<b, r>>}
      BY DEF Blank
    <3>2. RequestOK(r, t, active, prefs)
      <4> HIDE DEF t
      <4>1. \A s \in t.sub : s[2] = r
        BY <3>1
      <4> QED
        BY <3>1, <4>1 DEF RequestOK
    <3> QED
      BY <1>1, <2>1, <2>2, <3>2, GoesStands
  <2>3. CASE found # {}
    <3> DEFINE t == [Blank("loaded") EXCEPT !.op = "post", !.want = want, !.sub = found,
                                            !.was = found \subseteq active]
    <3>1. t.phase = "loaded" /\ t.sub = found /\ t.was = (found \subseteq active)
      BY DEF Blank
    <3>2. RequestOK(r, t, active, prefs)
      <4> HIDE DEF t, found
      <4>1. t.was => \A s \in t.sub : s \in active
        BY <3>1
      <4> QED
        BY <3>1, <4>1 DEF RequestOK
    <3> QED
      BY <1>1, <2>1, <2>3, <3>2, GoesStands
  <2> QED
    BY <2>2, <2>3
<1>3. CASE Patch(r)
  <2>1. PICK s \in subs, want \in Wishes :
          Goes(r, [Blank("loaded") EXCEPT !.op = "patch", !.want = want, !.sub = {s}])
    BY <1>3 DEF Patch
  <2> DEFINE t == [Blank("loaded") EXCEPT !.op = "patch", !.want = want, !.sub = {s}]
  <2>2. RequestOK(r, t, active, prefs)
    <3>1. t.phase = "loaded" /\ t.op = "patch"
      BY DEF Blank
    <3> HIDE DEF t
    <3> QED
      BY <3>1 DEF RequestOK
  <2> QED
    BY <1>1, <2>1, <2>2, GoesStands
<1>4. CASE Delete(r)
  <2>1. PICK s \in subs : Goes(r, [Blank("removing") EXCEPT !.left = {s}])
    BY <1>4 DEF Delete
  <2> DEFINE t == [Blank("removing") EXCEPT !.left = {s}]
  <2>2. RequestOK(r, t, active, prefs)
    <3>1. t.phase = "removing"
      BY DEF Blank
    <3> HIDE DEF t
    <3> QED
      BY <3>1 DEF RequestOK
  <2> QED
    BY <1>1, <2>1, <2>2, GoesStands
<1> QED
  BY <1>2, <1>3, <1>4 DEF Call

LEMMA ServeStands ==
  ASSUME Known, Inv', NEW r \in Request, Serve(r)
  PROVE  Known'
<1>1. txn[r] \in Session /\ RequestOK(r, txn[r], active, prefs)
  BY DEF Known, Stands, Inv, TypeOK
<1>2. CASE Rollback(r)
  BY <1>2, RollbackStands
<1>3. CASE InsertSub(r) /\ ~Rollback(r)
  <2> DEFINE t == [txn[r] EXCEPT !.phase = "loaded"]
  <2>1. Goes(r, t) /\ UNCHANGED store /\ txn[r].phase = "inserting"
    BY <1>3 DEF InsertSub, At
  <2>2. /\ t.phase = "loaded" /\ t.was = txn[r].was /\ t.op = txn[r].op
        /\ t.sub = txn[r].sub /\ t.alone = txn[r].alone
    BY <1>1 DEF Session
  <2> HIDE DEF t
  <2>3. RequestOK(r, t, active, prefs)
    BY <1>1, <2>1, <2>2 DEF RequestOK
  <2> QED
    BY <2>1, <2>3, GoesStands
<1>4. CASE Clear(r)
  <2> DEFINE old == {row \in prefs : row.sub \in txn[r].sub}
  <2>1. PICK phase \in {"cleared", "clearing"} :
          Goes(r, [txn[r] EXCEPT !.phase = phase, !.old = old])
    BY <1>4 DEF Clear
  <2> DEFINE t == [txn[r] EXCEPT !.phase = phase, !.old = old]
  <2>2. UNCHANGED store /\ txn[r].phase = "loaded"
    BY <1>4 DEF Clear, At
  <2>3. /\ t.phase = phase /\ t.was = txn[r].was /\ t.op = txn[r].op
        /\ t.sub = txn[r].sub /\ t.alone = txn[r].alone /\ t.old = old
    BY <1>1 DEF Session
  <2>4. \A row \in prefs : row.sub \in txn[r].sub => row \in old
    OBVIOUS
  <2>5. RequestOK(r, t, active, prefs)
    <3> HIDE DEF t, old
    <3> QED
      BY <1>1, <2>2, <2>3, <2>4 DEF RequestOK
  <2> QED
    BY <2>1, <2>2, <2>5, GoesStands
<1>5. CASE Cleared(r)
  <2> DEFINE t == [txn[r] EXCEPT !.phase = "cleared"]
  <2>1. Goes(r, t) /\ UNCHANGED store /\ txn[r].phase = "clearing"
    BY <1>5 DEF Cleared, At
  <2>2. /\ t.phase = "cleared" /\ t.was = txn[r].was /\ t.op = txn[r].op
        /\ t.sub = txn[r].sub /\ t.alone = txn[r].alone /\ t.old = txn[r].old
    BY <1>1 DEF Session
  <2> HIDE DEF t
  <2>3. RequestOK(r, t, active, prefs)
    BY <1>1, <2>1, <2>2 DEF RequestOK
  <2> QED
    BY <2>1, <2>3, GoesStands
<1>6. CASE CommitPrefs(r) /\ ~Rollback(r)
  <2>1. /\ active \subseteq active' /\ prefs' = (prefs \ txn[r].old) \cup Rows(r)
        /\ Committing(r, Resting(r), txn[r].sub)
    BY <1>6 DEF CommitPrefs
  <2>2. /\ txn'[r] = Resting(r)
        /\ \A q \in (Worker \cup Request) \ {r} :
             txn'[q] = IF txn[q].sub \cap txn[r].sub = {} THEN txn[q]
                       ELSE [txn[q] EXCEPT !.alone = FALSE]
    BY <2>1 DEF Committing
  <2>3. \A row \in Rows(r) : row.sub \in txn[r].sub
    BY DEF Rows
  <2>4. RequestOK(r, Resting(r), active', prefs')
    BY RestingStands
  <2> QED
    BY <2>1, <2>2, <2>3, <2>4, StepStands
<1>7. CASE CommitDelete(r)
  BY <1>7, RemoveStands DEF CommitDelete
<1> QED
  BY <1>2, <1>3, <1>4, <1>5, <1>6, <1>7 DEF Serve

LEMMA NextStands == Known /\ Inv' /\ [Next]_vars => Known'
<1> SUFFICES ASSUME Known, Inv', [Next]_vars PROVE Known'
  OBVIOUS
<1>1. ASSUME NEW p \in Worker \cup Request, NEW r \in Request, BreakDeadlock(p, r)
      PROVE  Known'
  BY <1>1, RollbackStands DEF BreakDeadlock
<1>2. ASSUME NEW w \in Worker, Crash(w) PROVE Known'
  BY <1>2, RollbackStands DEF Crash
<1>3. ASSUME UNCHANGED vars PROVE Known'
  BY <1>3 DEF vars, store, Known, Stands
<1> QED
  BY <1>1, <1>2, <1>3, WorkStands, CallStands, ServeStands DEF Next, Step, Process, Quiet

(* Only its commit ends a replacement with other preferences.              *)
LEMMA Replaces ==
  ASSUME Known, Step, NEW r \in Request, At(r, "cleared"), txn'[r].phase = "ended",
         prefs' # prefs
  PROVE  CommitPrefs(r) /\ ~Rollback(r)
<1>1. \A q \in Worker \cup Request : txn[q] \in Session
  BY DEF Known, Inv, TypeOK
<1>2. ~UNCHANGED store
  BY DEF store
<1>3. ASSUME NEW p \in Worker \cup Request, p # r, NEW t, NEW S, Committing(p, t, S)
      PROVE  FALSE
  <2>1. txn'[r].phase = txn[r].phase
    BY <1>1, <1>3 DEF Committing, Session
  <2> QED
    BY <2>1 DEF At
<1>4. ASSUME NEW w \in Worker, StartScan(w) \/ Work(w) PROVE FALSE
  <2>1. w # r
    BY SessionAssumption
  <2>2. CASE CommitPrune(w)
    BY <1>3, <2>1, <2>2 DEF CommitPrune, Remove
  <2> QED
    BY <1>2, <1>4, <2>2 DEF StartScan, Work, StartDispatch, Match, Send, StartPrune,
       CommitScan, Record, Recorded, Rollback
<1>5. ASSUME NEW q \in Request, Call(q) PROVE FALSE
  BY <1>2, <1>5 DEF Call, Post, Patch, Delete
<1>6. ASSUME NEW q \in Request, Serve(q) PROVE CommitPrefs(r) /\ ~Rollback(r)
  <2>1. ~InsertSub(q) /\ ~Clear(q) /\ ~Cleared(q) /\ ~Rollback(q)
    BY <1>2 DEF InsertSub, Clear, Cleared, Rollback
  <2>2. CASE CommitPrefs(q)
    BY <1>3, <2>1, <2>2 DEF CommitPrefs
  <2>3. CASE CommitDelete(q)
    <3>1. q # r
      BY <2>3 DEF CommitDelete, At
    <3> QED
      BY <1>3, <2>3, <3>1 DEF CommitDelete, Remove
  <2> QED
    BY <1>6, <2>1, <2>2, <2>3 DEF Serve
<1>7. ASSUME NEW p \in Worker \cup Request, NEW q \in Request, BreakDeadlock(p, q)
      PROVE  FALSE
  BY <1>2, <1>7 DEF BreakDeadlock, Rollback
<1>8. ASSUME NEW w \in Worker, Crash(w) PROVE FALSE
  BY <1>2, <1>8 DEF Crash, Rollback
<1> QED
  BY <1>4, <1>5, <1>6, <1>7, <1>8 DEF Step, Process

LEMMA ReplacesAlone ==
  ASSUME Known, NEW r \in Request, CommitPrefs(r), ~Rollback(r), txn[r].alone
  PROVE  /\ txn[r].op = "post" => txn[r].sub \subseteq active'
         /\ \A s \in txn[r].sub :
              {row.pref : row \in {x \in prefs' : x.sub = s}} = txn[r].want
<1>1. /\ txn[r].phase = "cleared"
      /\ active' = active \cup {s \in txn[r].sub : s[2] = r}
                          \cup (IF txn[r].was THEN {} ELSE txn[r].sub)
      /\ prefs' = (prefs \ txn[r].old) \cup Rows(r)
  BY DEF CommitPrefs, At
<1>2. RequestOK(r, txn[r], active, prefs)
  BY DEF Known, Stands
<1>3. txn[r].op = "post" => txn[r].sub \subseteq active'
  BY <1>1, <1>2 DEF RequestOK
<1>4. ASSUME NEW s \in txn[r].sub
      PROVE  {row.pref : row \in {x \in prefs' : x.sub = s}} = txn[r].want
  <2>1. \A row \in prefs : row.sub = s => row \in txn[r].old
    BY <1>1, <1>2 DEF RequestOK
  <2>2. ASSUME NEW row \in prefs', row.sub = s PROVE row.pref \in txn[r].want
    <3>1. row \in Rows(r)
      BY <1>1, <2>1, <2>2
    <3> QED
      BY <3>1 DEF Rows
  <2>3. ASSUME NEW pref \in txn[r].want
        PROVE  \E row \in prefs' : row.sub = s /\ row.pref = pref
    <3>1. [sub |-> s, pref |-> pref, by |-> r] \in prefs'
      BY <1>1 DEF Rows
    <3> QED
      BY <3>1
  <2> QED
    BY <2>2, <2>3
<1> QED
  BY <1>3, <1>4

(* A browser that registers or sets its preferences, and is interrupted by *)
(* nobody, has an active subscription with exactly the preferences it has  *)
(* asked for, for any number of browsers, requests and workers             *)
(* (create_subscription, update_subscription, _replace_prefs).             *)
THEOREM Replacement == Spec => AloneReplaces
<1> DEFINE Replaced ==
      \A r \in Request :
        At(r, "cleared") /\ txn'[r].phase = "ended" /\ prefs' # prefs /\ txn[r].alone
          => /\ txn[r].op = "post" => txn[r].sub \subseteq active'
             /\ \A s \in txn[r].sub :
                  {row.pref : row \in {x \in prefs' : x.sub = s}} = txn[r].want
<1>1. Init => Stands
  <2> SUFFICES ASSUME Init, NEW r \in Request PROVE RequestOK(r, txn[r], active, prefs)
    BY DEF Stands
  <2>1. \E phase : txn[r] = Blank(phase)
    BY DEF Init
  <2> QED
    BY <2>1, BlankStands
<1>2. Known /\ Inv' /\ [Next]_vars => Known'
  BY NextStands
<1>3. Known /\ [Next]_vars => Replaced
  <2> SUFFICES ASSUME Known, [Next]_vars, ~UNCHANGED vars PROVE Replaced
    BY DEF vars, store
  <2> QED
    BY Replaces, ReplacesAlone DEF Next, Quiet
<1> QED
  BY Invariance, InitInv, <1>1, <1>2, <1>3, PTL DEF Spec, AloneReplaces, Known

=============================================================================

------------------------ MODULE StandingsTxnProofs ------------------------
(***************************************************************************)
(* No group loses its table, for any number of requests, fixtures and      *)
(* groups, whenever the sessions overlap, fail or die.                     *)
(*                                                                         *)
(* The argument: a session deletes the rows of a group only together with  *)
(* making new ones, and founds the standings of a group the same way; it   *)
(* makes rows only where the standings are there or are founded with them. *)
(* Standings, once committed, stay.                                        *)
(*                                                                         *)
(* And a recomputation nobody disturbs shows what it should: what a        *)
(* session has read of a row still stands while its history says that      *)
(* nobody else has committed on it (Own), or anything (Alone).             *)
(***************************************************************************)
EXTENDS StandingsTxn, TLAPS

(* What the session t may have done where the groups of there have their   *)
(* standings.                                                              *)
Sound(t, there) ==
  /\ \A c \in t.gone : \E m \in t.made : m.group = c.group
  /\ \A g \in t.founded : \E m \in t.made : m.group = g
  /\ \A m \in t.made : m.group \in there \cup t.founded
  /\ \A c \in t.snap : t.phase = "deleting" /\ c.group = t.at
  /\ t.phase \in {"read", "deleting", "founding"} => t.at \in Groups
  /\ t.phase = "deleting" => t.at \in there

Inv == TypeOK /\ NeverVanish /\ \A r \in Request : Sound(txn[r], standings)

Locks == [Fixtures -> Request \cup {NoRequest}]

-----------------------------------------------------------------------------
(* Lemmas on sessions. *)

LEMMA EndedOK ==
  ASSUME NEW phase \in {"new", "done", "rejected", "failed"}, NEW there
  PROVE  /\ Ended(phase) \in Session
         /\ Sound(Ended(phase), there)
         /\ \A op \in Routes : [Ended(phase) EXCEPT !.op = op] \in Session
         /\ \A op \in Routes : Sound([Ended(phase) EXCEPT !.op = op], there)
<1>1. Ended(phase) \in Session
  <2>1. Ended(phase).update \in [status : SUBSET Status, score : SUBSET Scores]
    BY DEF Ended, NoUpdate
  <2>2. /\ Ended(phase).phase \in Phase
        /\ Ended(phase).others \in {"none", "elsewhere", "here"}
        /\ Ended(phase).op \in Routes \cup {"none"}
    BY DEF Ended, Phase
  <2> QED
    BY <2>1, <2>2 DEF Ended, Session
<1>2. Sound(Ended(phase), there)
  BY DEF Ended, Sound
<1>3. ASSUME NEW op \in Routes
      PROVE  /\ [Ended(phase) EXCEPT !.op = op] \in Session
             /\ Sound([Ended(phase) EXCEPT !.op = op], there)
  <2>1. [Ended(phase) EXCEPT !.op = op] \in Session
    BY <1>1 DEF Session
  <2> QED
    BY <2>1 DEF Ended, Sound
<1> QED
  BY <1>1, <1>2, <1>3

(* Other groups may get their standings meanwhile. *)
LEMMA StillSound ==
  ASSUME NEW t, NEW there, NEW new, Sound(t, there), there \subseteq new
  PROVE  Sound(t, new)
BY DEF Sound

(* What others note of a commit is no part of what makes a session sound.  *)
LEMMA NotedOK ==
  ASSUME NEW t \in Session, NEW there, Sound(t, there),
         NEW others \in {"none", "elsewhere", "here"}
  PROVE  /\ [t EXCEPT !.others = others] \in Session
         /\ Sound([t EXCEPT !.others = others], there)
BY DEF Session, Sound

(* A step of one session that commits nothing.                             *)
LEMMA GoesInv ==
  ASSUME Inv, NEW r \in Request, NEW t \in Session, Sound(t, standings),
         txn' = [txn EXCEPT ![r] = t], UNCHANGED db, fxLock' \in Locks
  PROVE  Inv'
<1>1. TypeOK'
  BY DEF Inv, TypeOK, db, Locks
<1>2. NeverVanish'
  BY DEF Inv, NeverVanish, CopiesOf, db
<1>3. \A q \in Request : Sound(txn'[q], standings')
  BY DEF Inv, TypeOK, db
<1> QED
  BY <1>1, <1>2, <1>3 DEF Inv

LEMMA ReleasedOK == ASSUME TypeOK, NEW r \in Request PROVE Released(r) \in Locks
BY DEF TypeOK, Released, Locks

LEMMA RollbackInv ==
  ASSUME Inv, NEW r \in Request, NEW phase \in {"new", "done", "rejected", "failed"},
         Rollback(r, phase)
  PROVE  Inv'
<1>1. fxLock' \in Locks
  BY ReleasedOK DEF Inv, Rollback
<1> QED
  BY <1>1, EndedOK, GoesInv DEF Rollback

(* A step of one session that commits something.                           *)
LEMMA CommittingInv ==
  ASSUME Inv, NEW r \in Request, NEW t \in Session, Committing(r, t),
         Sound(t, standings'), standings \subseteq standings',
         status' \in [Fixtures -> Status \cup {Gone}], score' \in [Fixtures -> Scores \cup {NoLive}],
         standings' \subseteq Groups, copies' \subseteq Copy, fxLock' \in Locks,
         NeverVanish'
  PROVE  Inv'
<1>1. ASSUME NEW q \in Request
      PROVE  txn'[q] \in Session /\ Sound(txn'[q], standings')
  <2>1. txn[q] \in Session /\ Sound(txn[q], standings')
    BY StillSound DEF Inv, TypeOK
  <2>2. txn[q].others \in {"none", "elsewhere", "here"}
    BY <2>1 DEF Session
  <2>3. \/ txn'[q] = t \/ txn'[q] = txn[q]
        \/ \E others \in {"none", "elsewhere", "here"} :
             txn'[q] = [txn[q] EXCEPT !.others = others]
    BY <2>2 DEF Committing
  <2> QED
    BY <2>1, <2>3, NotedOK
<1>2. txn' \in [Request -> Session]
  BY <1>1 DEF Committing
<1> QED
  BY <1>1, <1>2 DEF Inv, TypeOK, Locks

-----------------------------------------------------------------------------
LEMMA CountedOK ==
  ASSUME NEW st, NEW sc \in [Fixtures -> Scores \cup {NoLive}], NEW g
  PROVE  Counted(st, sc, g) \subseteq Result
BY DEF Counted, HasResult, Result

LEMMA UpdatedOK ==
  ASSUME NEW r, NEW S, NEW column \in [Fixtures -> S], NEW new \in SUBSET S
  PROVE  Updated(r, column, new) \in [Fixtures -> S]
BY DEF Updated

LEMMA InitInv == Init => Inv
<1> SUFFICES ASSUME Init PROVE Inv
  OBVIOUS
<1>1. PICK come \in Coming :
        txn = [r \in Request |-> IF come[r] = "none" THEN Ended("done")
                                 ELSE [Ended("new") EXCEPT !.op = come[r]]]
  BY DEF Init
<1>2. \A r \in Request : come[r] \in Routes \cup {"none"}
  BY ComingAssumption
<1>3. \A r \in Request : txn[r] \in Session /\ Sound(txn[r], standings)
  BY <1>1, <1>2, EndedOK
<1>4. txn \in [Request -> Session]
  BY <1>1, <1>3
<1>5. standings \subseteq Groups /\ score \in [Fixtures -> Scores \cup {NoLive}]
  BY DEF Init
<1>6. \A g \in Groups : Counted(status, score, g) \subseteq Result
  BY <1>5, CountedOK
<1>7. copies \subseteq Copy
  <2> SUFFICES ASSUME NEW c \in copies PROVE c \in Copy
    OBVIOUS
  <2>1. PICK g \in standings :
          c = [group |-> g, by |-> NoRequest, results |-> Counted(status, score, g)]
    BY DEF Init
  <2> QED
    BY <2>1, <1>5, <1>6 DEF Copy
<1>8. status \in [Fixtures -> Status \cup {Gone}]
  BY StatusAssumption DEF Init
<1>9. fxLock \in [Fixtures -> Request \cup {NoRequest}]
  BY DEF Init
<1>10. NeverVanish
  <2> SUFFICES ASSUME NEW g \in Groups PROVE (CopiesOf(g) # {}) = (g \in standings)
    BY DEF NeverVanish
  <2>1. copies = {[group |-> h, by |-> NoRequest, results |-> Counted(status, score, h)]
                    : h \in standings}
    BY DEF Init
  <2>2. ASSUME g \in standings PROVE CopiesOf(g) # {}
    <3>1. [group |-> g, by |-> NoRequest, results |-> Counted(status, score, g)] \in copies
      BY <2>1, <2>2
    <3> QED
      BY <3>1 DEF CopiesOf
  <2>3. ASSUME NEW c \in CopiesOf(g) PROVE g \in standings
    BY <2>1 DEF CopiesOf
  <2> QED
    BY <2>2, <2>3
<1> QED
  BY <1>3, <1>4, <1>5, <1>7, <1>8, <1>9, <1>10 DEF Inv, TypeOK

-----------------------------------------------------------------------------
(* The steps of a request.                                                 *)

LEMMA LoadInv == ASSUME Inv, NEW r \in Request, Load(r) PROVE Inv'
<1>1. PICK f \in Fixtures :
        /\ At(r, "new") /\ status[f] # Gone
        /\ txn' = [txn EXCEPT ![r] = [txn[r] EXCEPT !.phase = "loaded",
             !.fx = {f}, !.status = {status[f]}, !.score = {score[f]} \ {NoLive}]]
        /\ UNCHANGED <<db, fxLock>>
  BY DEF Load
<1> DEFINE t == [txn[r] EXCEPT !.phase = "loaded", !.fx = {f},
                               !.status = {status[f]}, !.score = {score[f]} \ {NoLive}]
<1>2. txn[r] \in Session /\ Sound(txn[r], standings) /\ txn[r].phase = "new"
  BY <1>1 DEF Inv, TypeOK, At
<1>3. status[f] \in Status /\ {score[f]} \ {NoLive} \subseteq Scores
  BY <1>1 DEF Inv, TypeOK
<1>4. t \in Session
  BY <1>2, <1>3 DEF Session, Phase
<1>5. Sound(t, standings)
  BY <1>2 DEF Sound, Session
<1>6. fxLock' \in Locks
  BY <1>1 DEF Inv, TypeOK, Locks
<1> QED
  BY <1>1, <1>4, <1>5, <1>6, GoesInv

(* A session that turns to the standings.                                  *)
LEMMA OpenedOK ==
  ASSUME Inv, NEW r \in Request, NEW f \in Fixtures, At(r, "loaded"),
         NEW new \in SUBSET Scores,
         NEW update \in [status : SUBSET Status, score : SUBSET Scores]
  PROVE  Opened(r, f, new, update) \in Session /\ Sound(Opened(r, f, new, update), standings)
<1>1. txn[r] \in Session /\ Sound(txn[r], standings) /\ txn[r].phase = "loaded"
  BY DEF Inv, TypeOK, At
<1>2. Opened(r, f, new, update) \in Session
  BY <1>1 DEF Opened, Session, Phase
<1>3. Sound(Opened(r, f, new, update), standings)
  BY <1>1 DEF Opened, Sound, Session
<1> QED
  BY <1>2, <1>3

LEMMA HoldInv ==
  ASSUME Inv, NEW r \in Request, NEW f \in Fixtures, At(r, "loaded"),
         NEW new \in SUBSET Scores, Hold(r, f, new)
  PROVE  Inv'
<1>1. CASE Rollback(r, "failed")
  BY <1>1, RollbackInv
<1>2. CASE ~Rollback(r, "failed")
  <2> DEFINE update == [status |-> {"COMPLETED"} \ txn[r].status,
                        score |-> new \ txn[r].score]
  <2>1. /\ txn' = [txn EXCEPT ![r] = Opened(r, f, new, update)]
        /\ fxLock' = [fxLock EXCEPT ![f] = r]
        /\ UNCHANGED db
    BY <1>2 DEF Hold
  <2>2. update \in [status : SUBSET Status, score : SUBSET Scores]
    <3>1. {"COMPLETED"} \ txn[r].status \in SUBSET Status
      BY DEF Status
    <3> QED
      BY <3>1
  <2>3. Opened(r, f, new, update) \in Session /\ Sound(Opened(r, f, new, update), standings)
    BY <2>2, OpenedOK
  <2>4. fxLock' \in Locks
    BY <2>1 DEF Inv, TypeOK, Locks
  <2> QED
    BY <2>1, <2>3, <2>4, GoesInv
<1> QED
  BY <1>1, <1>2

LEMMA LoadedOK ==
  ASSUME Inv, NEW r \in Request, NEW op, NEW f \in Loaded(r, op)
  PROVE  f \in Fixtures /\ At(r, "loaded") /\ txn[r].score \subseteq Scores
BY DEF Loaded, Inv, TypeOK, Session

LEMMA ChangeInv ==
  ASSUME Inv, NEW r \in Request, NEW f \in Fixtures, NEW target \in Status,
         NEW t \in Session, Sound(t, standings), Change(r, f, target, t)
  PROVE  Inv'
<1>1. CASE Rollback(r, "rejected") \/ Rollback(r, "failed")
  BY <1>1, RollbackInv
<1>2. CASE /\ status' = IF target \in txn[r].status THEN status
                        ELSE [status EXCEPT ![f] = target]
           /\ Committing(r, t)
           /\ UNCHANGED <<score, standings, copies, fxLock>>
  <2>1. NeverVanish'
    BY <1>2 DEF Inv, NeverVanish, CopiesOf
  <2>2. status' \in [Fixtures -> Status \cup {Gone}]
    BY <1>2 DEF Inv, TypeOK
  <2>3. /\ score' \in [Fixtures -> Scores \cup {NoLive}] /\ standings' \subseteq Groups
        /\ copies' \subseteq Copy /\ fxLock' \in Locks
    BY <1>2 DEF Inv, TypeOK, Locks
  <2>4. Sound(t, standings') /\ standings \subseteq standings'
    BY <1>2
  <2> QED
    BY <1>2, <2>1, <2>2, <2>3, <2>4, CommittingInv
<1> QED
  BY <1>1, <1>2 DEF Change

LEMMA CancelInv == ASSUME Inv, NEW r \in Request, Cancel(r) PROVE Inv'
<1>1. PICK f \in Loaded(r, "cancel") :
        Change(r, f, "CANCELLED", IF GroupOf[f] = NoGroup THEN Ended("done")
                                  ELSE Opened(r, f, txn[r].score, NoUpdate))
  BY DEF Cancel
<1>2. f \in Fixtures /\ At(r, "loaded") /\ txn[r].score \subseteq Scores
  BY LoadedOK
<1>3. NoUpdate \in [status : SUBSET Status, score : SUBSET Scores]
  BY DEF NoUpdate
<1>4. /\ Opened(r, f, txn[r].score, NoUpdate) \in Session
      /\ Sound(Opened(r, f, txn[r].score, NoUpdate), standings)
  BY <1>2, <1>3, OpenedOK
<1>5. "CANCELLED" \in Status
  BY DEF Status
<1>6. CASE GroupOf[f] = NoGroup
  BY <1>1, <1>2, <1>5, <1>6, EndedOK, ChangeInv
<1>7. CASE GroupOf[f] # NoGroup
  BY <1>1, <1>2, <1>4, <1>5, <1>7, ChangeInv
<1> QED
  BY <1>6, <1>7

LEMMA ReopenInv == ASSUME Inv, NEW r \in Request, Reopen(r) PROVE Inv'
<1>1. PICK f \in Loaded(r, "reopen") : Change(r, f, "UNDER_REVIEW", Ended("done"))
  BY DEF Reopen
<1>2. f \in Fixtures
  BY LoadedOK
<1>3. "UNDER_REVIEW" \in Status
  BY DEF Status
<1> QED
  BY <1>1, <1>2, <1>3, EndedOK, ChangeInv

LEMMA DeleteInv == ASSUME Inv, NEW r \in Request, Delete(r) PROVE Inv'
<1>1. PICK f \in Loaded(r, "delete") :
        /\ status' = [status EXCEPT ![f] = Gone]
        /\ Committing(r, Ended("done"))
        /\ UNCHANGED <<score, standings, copies, fxLock>>
  BY DEF Delete
<1>2. NeverVanish'
  BY <1>1 DEF Inv, NeverVanish, CopiesOf
<1>3. status' \in [Fixtures -> Status \cup {Gone}]
  BY <1>1 DEF Inv, TypeOK
<1>4. /\ score' \in [Fixtures -> Scores \cup {NoLive}] /\ standings' \subseteq Groups
      /\ copies' \subseteq Copy /\ fxLock' \in Locks
  BY <1>1 DEF Inv, TypeOK, Locks
<1>5. Ended("done") \in Session /\ Sound(Ended("done"), standings')
  BY EndedOK
<1>6. standings \subseteq standings'
  BY <1>1
<1> QED
  BY <1>1, <1>2, <1>3, <1>4, <1>5, <1>6, CommittingInv

LEMMA HandleInv == ASSUME Inv, NEW r \in Request, Handle(r) PROVE Inv'
<1>1. CASE Load(r)
  BY <1>1, LoadInv
<1>2. CASE Complete(r)
  <2>1. PICK f \in Loaded(r, "complete") :
          \/ Hold(r, f, txn[r].score)
          \/ Rollback(r, "rejected")
    BY <1>2 DEF Complete
  <2>2. f \in Fixtures /\ At(r, "loaded") /\ txn[r].score \subseteq Scores
    BY LoadedOK
  <2> QED
    BY <2>1, <2>2, HoldInv, RollbackInv
<1>3. CASE Correct(r)
  <2>1. PICK f \in Loaded(r, "correct"), sc \in Scores : Hold(r, f, {sc})
    BY <1>3 DEF Correct
  <2>2. f \in Fixtures /\ At(r, "loaded")
    BY LoadedOK
  <2> QED
    BY <2>1, <2>2, HoldInv
<1>4. CASE Cancel(r)
  BY <1>4, CancelInv
<1>5. CASE Reopen(r)
  BY <1>5, ReopenInv
<1>6. CASE Delete(r)
  BY <1>6, DeleteInv
<1> QED
  BY <1>1, <1>2, <1>3, <1>4, <1>5, <1>6 DEF Handle

-----------------------------------------------------------------------------
(* The steps of the recomputation.                                         *)

LEMMA ReadResultsInv == ASSUME Inv, NEW r \in Request, ReadResults(r) PROVE Inv'
<1>1. PICK g \in txn[r].todo :
        /\ At(r, "rebuilding")
        /\ txn' = [txn EXCEPT ![r] = [txn[r] EXCEPT !.phase = "read", !.at = g,
                                                   !.seen = Results(r, g)]]
        /\ UNCHANGED <<db, fxLock>>
  BY DEF ReadResults, Inv, TypeOK
<1> DEFINE t == [txn[r] EXCEPT !.phase = "read", !.at = g, !.seen = Results(r, g)]
<1>2. txn[r] \in Session /\ Sound(txn[r], standings) /\ txn[r].phase = "rebuilding"
  BY <1>1 DEF Inv, TypeOK, At
<1>3. g \in Groups /\ txn[r].score \in SUBSET Scores
  BY <1>2 DEF Session
<1>4. Results(r, g) \subseteq Result
  <2>1. Updated(r, score, txn[r].score) \in [Fixtures -> Scores \cup {NoLive}]
    BY <1>3, UpdatedOK DEF Inv, TypeOK
  <2> QED
    BY <2>1, CountedOK DEF Results
<1>5. t \in Session
  BY <1>2, <1>3, <1>4 DEF Session, Phase
<1>6. Sound(t, standings)
  BY <1>2, <1>3 DEF Sound, Session
<1>7. fxLock' \in Locks
  BY <1>1 DEF Inv, TypeOK, Locks
<1> QED
  BY <1>1, <1>5, <1>6, <1>7, GoesInv

LEMMA FindStandingInv == ASSUME Inv, NEW r \in Request, FindStanding(r) PROVE Inv'
<1>1. txn[r] \in Session /\ Sound(txn[r], standings) /\ txn[r].phase = "read"
  BY DEF FindStanding, Inv, TypeOK, At
<1>2. fxLock' \in Locks /\ UNCHANGED db
  BY DEF FindStanding, Inv, TypeOK, Locks
<1>3. CASE txn[r].at \in standings
  <2> DEFINE t == [txn[r] EXCEPT !.phase = "deleting",
                                 !.snap = {c \in copies : c.group = txn[r].at}]
  <2>1. txn' = [txn EXCEPT ![r] = t]
    BY <1>3 DEF FindStanding, Inv, TypeOK
  <2>2. t \in Session
    BY <1>1 DEF Session, Phase, Inv, TypeOK
  <2>3. Sound(t, standings)
    BY <1>1, <1>3 DEF Sound, Session
  <2> QED
    BY <1>2, <2>1, <2>2, <2>3, GoesInv
<1>4. CASE txn[r].at \notin standings
  <2> DEFINE t == [txn[r] EXCEPT !.phase = "founding"]
  <2>1. txn' = [txn EXCEPT ![r] = t]
    BY <1>4 DEF FindStanding, Inv, TypeOK
  <2>2. t \in Session
    BY <1>1 DEF Session, Phase
  <2>3. Sound(t, standings)
    BY <1>1 DEF Sound, Session
  <2> QED
    BY <1>2, <2>1, <2>2, <2>3, GoesInv
<1> QED
  BY <1>3, <1>4

(* A group is rebuilt: its old rows are to go, or it is founded, and there *)
(* are new ones.                                                           *)
LEMMA InsertOK ==
  ASSUME NEW r \in Request, NEW t \in Session, t.at \in Groups,
         NEW there, t.at \in there \cup t.founded,
         \A c \in t.gone : c.group = t.at \/ \E m \in t.made : m.group = c.group,
         \A g \in t.founded : g = t.at \/ \E m \in t.made : m.group = g,
         \A m \in t.made : m.group \in there \cup t.founded
  PROVE  Insert(r, t) \in Session /\ Sound(Insert(r, t), there)
<1> DEFINE copy == [group |-> t.at, by |-> r, results |-> t.seen]
           new == Insert(r, t)
<1>1. copy \in Copy /\ copy.group = t.at
  BY DEF Copy, Session
<1>2. new \in Session
  BY <1>1 DEF Insert, Session, Phase
<1>3. /\ new.made = t.made \cup {copy} /\ new.gone = t.gone /\ new.founded = t.founded
      /\ new.phase = "rebuilding" /\ new.snap = {}
  BY DEF Insert, Session
<1>4. Sound(new, there)
  BY <1>1, <1>3 DEF Sound
<1> QED
  BY <1>2, <1>4

LEMMA DeleteRowsInv == ASSUME Inv, NEW r \in Request, DeleteRows(r) PROVE Inv'
<1>1. txn[r] \in Session /\ Sound(txn[r], standings) /\ txn[r].phase = "deleting"
  BY DEF DeleteRows, Inv, TypeOK, At
<1> DEFINE t == [txn[r] EXCEPT !.gone = @ \cup (txn[r].snap \cap copies)]
<1>2. t \in Session
  BY <1>1 DEF Session
<1>3. /\ t.gone = txn[r].gone \cup (txn[r].snap \cap copies) /\ t.at = txn[r].at
      /\ t.made = txn[r].made /\ t.founded = txn[r].founded
  BY <1>1 DEF Session
<1>4. t.at \in Groups /\ t.at \in standings
  BY <1>1, <1>3 DEF Sound
<1>5. \A c \in t.gone : c.group = t.at \/ \E m \in t.made : m.group = c.group
  BY <1>1, <1>3 DEF Sound
<1>6. /\ \A g \in t.founded : g = t.at \/ \E m \in t.made : m.group = g
      /\ \A m \in t.made : m.group \in standings \cup t.founded
  BY <1>1, <1>3 DEF Sound
<1>7. Insert(r, t) \in Session /\ Sound(Insert(r, t), standings)
  BY <1>2, <1>4, <1>5, <1>6, InsertOK
<1>8. txn' = [txn EXCEPT ![r] = Insert(r, t)] /\ UNCHANGED db /\ fxLock' \in Locks
  BY DEF DeleteRows, Inv, TypeOK, Locks
<1> QED
  BY <1>7, <1>8, GoesInv

LEMMA FoundStandingInv == ASSUME Inv, NEW r \in Request, FoundStanding(r) PROVE Inv'
<1>1. CASE Rollback(r, "failed")
  BY <1>1, RollbackInv
<1>2. CASE ~Rollback(r, "failed")
  <2>1. txn[r] \in Session /\ Sound(txn[r], standings) /\ txn[r].phase = "founding"
    BY DEF FoundStanding, Inv, TypeOK, At
  <2> DEFINE t == [txn[r] EXCEPT !.founded = @ \cup {txn[r].at}]
  <2>2. txn[r].at \in Groups
    BY <2>1 DEF Sound
  <2>3. t \in Session
    BY <2>1, <2>2 DEF Session
  <2>4. /\ t.gone = txn[r].gone /\ t.at = txn[r].at
        /\ t.made = txn[r].made /\ t.founded = txn[r].founded \cup {t.at}
    BY <2>1 DEF Session
  <2>5. /\ \A c \in t.gone : c.group = t.at \/ \E m \in t.made : m.group = c.group
        /\ \A g \in t.founded : g = t.at \/ \E m \in t.made : m.group = g
        /\ \A m \in t.made : m.group \in standings \cup t.founded
    BY <2>1, <2>4 DEF Sound
  <2>6. t.at \in Groups /\ t.at \in standings \cup t.founded
    BY <2>2, <2>4
  <2>7. Insert(r, t) \in Session /\ Sound(Insert(r, t), standings)
    BY <2>3, <2>5, <2>6, InsertOK
  <2>8. txn' = [txn EXCEPT ![r] = Insert(r, t)] /\ UNCHANGED db /\ fxLock' \in Locks
    BY <1>2 DEF FoundStanding, Inv, TypeOK, Locks
  <2> QED
    BY <2>7, <2>8, GoesInv
<1> QED
  BY <1>1, <1>2

(* No group loses its table by a commit, and none gets one without its     *)
(* standings.                                                              *)
LEMMA CommitInv == ASSUME Inv, NEW r \in Request, Commit(r) PROVE Inv'
<1>1. txn[r] \in Session /\ Sound(txn[r], standings)
  BY DEF Inv, TypeOK
<1>2. /\ copies' = (copies \ txn[r].gone) \cup txn[r].made
      /\ standings' = standings \cup txn[r].founded
      /\ Committing(r, Ended("done")) /\ fxLock' = Released(r)
      /\ status' = Updated(r, status, txn[r].update.status)
      /\ score' = Updated(r, score, txn[r].update.score)
  BY DEF Commit
<1>3. /\ standings' \subseteq Groups /\ copies' \subseteq Copy
      /\ standings \subseteq standings'
  BY <1>1, <1>2 DEF Inv, TypeOK, Session
<1>4. status' \in [Fixtures -> Status \cup {Gone}] /\ score' \in [Fixtures -> Scores \cup {NoLive}]
  <2>1. /\ txn[r].update.status \in SUBSET (Status \cup {Gone})
        /\ txn[r].update.score \in SUBSET (Scores \cup {NoLive})
    BY <1>1 DEF Session
  <2> QED
    BY <1>2, <2>1, UpdatedOK DEF Inv, TypeOK
<1>5. fxLock' \in Locks
  BY <1>2, ReleasedOK DEF Inv
<1>6. NeverVanish'
  <2> SUFFICES ASSUME NEW g \in Groups
               PROVE  (CopiesOf(g)' # {}) = (g \in standings')
    BY DEF NeverVanish
  <2>1. ASSUME NEW c \in CopiesOf(g)' PROVE g \in standings'
    <3>1. c \in copies' /\ c.group = g
      BY DEF CopiesOf
    <3>2. CASE c \in copies
      BY <1>2, <3>1, <3>2 DEF Inv, NeverVanish, CopiesOf
    <3>3. CASE c \in txn[r].made
      BY <1>1, <1>2, <3>1, <3>3 DEF Sound
    <3> QED
      BY <1>2, <3>1, <3>2, <3>3
  <2>2. ASSUME g \in standings' PROVE \E c \in copies' : c.group = g
    <3>1. CASE g \in standings
      <4>1. PICK c \in copies : c.group = g
        BY <3>1 DEF Inv, NeverVanish, CopiesOf
      <4> QED
        BY <1>1, <1>2, <4>1 DEF Sound
    <3>2. CASE g \in txn[r].founded
      BY <1>1, <1>2, <3>2 DEF Sound
    <3> QED
      BY <1>2, <2>2, <3>1, <3>2
  <2> QED
    BY <2>1, <2>2 DEF CopiesOf
<1>7. Ended("done") \in Session /\ Sound(Ended("done"), standings')
  BY EndedOK
<1> QED
  BY <1>2, <1>3, <1>4, <1>5, <1>6, <1>7, CommittingInv

LEMMA NextInv == Inv /\ [Next]_vars => Inv'
<1> SUFFICES ASSUME Inv, [Next]_vars PROVE Inv'
  OBVIOUS
<1>1. ASSUME NEW r \in Request, Handle(r) PROVE Inv'
  BY <1>1, HandleInv
<1>2. ASSUME NEW r \in Request, Rebuild(r) PROVE Inv'
  BY <1>2, ReadResultsInv, FindStandingInv, DeleteRowsInv, FoundStandingInv, CommitInv,
     RollbackInv DEF Rebuild, BreakDeadlock
<1>3. ASSUME NEW r \in Request, Crash(r) PROVE Inv'
  BY <1>3, RollbackInv DEF Crash
<1>4. CASE UNCHANGED vars
  BY <1>4 DEF vars, db, Inv, TypeOK, NeverVanish, CopiesOf
<1> QED
  BY <1>1, <1>2, <1>3, <1>4 DEF Next, Serve, Quiet

-----------------------------------------------------------------------------
(* What a session knows of its fixture, and makes of the groups, while     *)
(* nobody else commits: on its fixture (Own), or at all (Alone).           *)

Recomputing == {"rebuilding", "read", "deleting", "founding"}

With(t, column, new) ==
  [f \in Fixtures |-> IF f \in t.fx /\ new # {} THEN CHOOSE v \in new : TRUE
                      ELSE column[f]]

(* The columns as they are once t has committed. *)
StatusAfter(t, st) == With(t, st, t.update.status)
ScoreAfter(t, sc) == With(t, sc, t.update.score)

Shape(t) ==
  /\ t.phase \in Recomputing \cup {"loaded"} => \E f \in Fixtures : t.fx = {f}
  /\ t.phase \in {"new", "loaded"} => t.made = {} /\ t.gone = {}
  /\ t.phase \in Recomputing => t.op \in {"complete", "correct", "cancel"}

(* No result of f is among results. *)
Absent(f, results) == \A value \in Scores : <<f, value>> \notin results

(* A result of t's own fixture f: none while a cancelled one is rebuilt,   *)
(* or one without a live row or without its teams, and otherwise there as  *)
(* soon as its group is.                                                   *)
Own(t, f, st, sc) ==
  LET after == ScoreAfter(t, sc)
      result == <<f, after[f]>>
  IN
  /\ t.phase = "loaded" => t.status = {st[f]} /\ t.score = {sc[f]} \ {NoLive}
  /\ t.phase \in Recomputing =>
       /\ With(t, sc, t.score)[f] = after[f]
       /\ StatusAfter(t, st)[f] = IF t.op = "cancel" THEN "CANCELLED" ELSE "COMPLETED"
       /\ IF t.op = "cancel" \/ ~HasResult(after, f)
          THEN /\ \A c \in t.made : Absent(f, c.results)
               /\ t.phase # "rebuilding" => Absent(f, t.seen)
          ELSE /\ \/ GroupOf[f] \in t.todo \cup {NoGroup}
                  \/ \E c \in t.made : c.group = GroupOf[f] /\ result \in c.results
               /\ t.phase # "rebuilding" /\ t.at = GroupOf[f] => result \in t.seen

Table(r, t, g, st, sc) ==
  [group |-> g, by |-> r, results |-> Counted(StatusAfter(t, st), ScoreAfter(t, sc), g)]

(* The groups off the list have all their rows replaced. *)
Alone(r, t, st, sc, stored) ==
  t.phase \in Recomputing =>
    /\ t.phase # "rebuilding" =>
         t.at \in t.todo /\ t.seen = Table(r, t, t.at, st, sc).results
    /\ t.phase = "deleting" => t.snap = {c \in stored : c.group = t.at}
    /\ \/ t.todo = {} /\ t.made = {}
       \/ \A g \in Groups :
            IF g \in t.todo THEN \A c \in t.made : c.group # g
            ELSE /\ {c \in t.made : c.group = g} = {Table(r, t, g, st, sc)}
                 /\ {c \in stored : c.group = g} \subseteq t.gone

(* All that holds of the session t of r. *)
Undisturbed(r, t, st, sc, stored) ==
  /\ Shape(t)
  /\ t.others # "here" => \A f \in t.fx : Own(t, f, st, sc)
  /\ t.others = "none" => Alone(r, t, st, sc, stored)

Kept == Inv /\ \A r \in Request : Undisturbed(r, txn[r], status, score, copies)

LEMMA Chosen == ASSUME NEW x PROVE (CHOOSE v \in {x} : TRUE) = x
OBVIOUS

LEMMA UpdatedIsWith ==
  ASSUME NEW r, NEW column, NEW new
  PROVE  Updated(r, column, new) = With(txn[r], column, new)
BY DEF Updated, With, Mine

LEMMA EndedKept ==
  ASSUME NEW r, NEW phase \in {"new", "done", "rejected", "failed"}, NEW st, NEW sc, NEW stored
  PROVE  /\ Undisturbed(r, Ended(phase), st, sc, stored)
         /\ \A op \in Routes : Undisturbed(r, [Ended(phase) EXCEPT !.op = op], st, sc, stored)
<1>1. Undisturbed(r, Ended(phase), st, sc, stored)
  BY DEF Undisturbed, Ended, Shape, Alone, Recomputing
<1>2. ASSUME NEW op \in Routes
      PROVE  Undisturbed(r, [Ended(phase) EXCEPT !.op = op], st, sc, stored)
  <2> DEFINE t == [Ended(phase) EXCEPT !.op = op]
  <2>1. /\ t.phase = phase /\ t.made = {} /\ t.gone = {} /\ t.fx = {}
    BY DEF Ended
  <2> QED
    BY <2>1 DEF Undisturbed, Shape, Alone, Recomputing
<1> QED
  BY <1>1, <1>2

(* A step of r that commits nothing leaves the others as they are.         *)
LEMMA GoesKept ==
  ASSUME Kept, Inv', NEW r \in Request, NEW t, txn' = [txn EXCEPT ![r] = t],
         UNCHANGED db, Undisturbed(r, t, status, score, copies)
  PROVE  Kept'
<1>1. ASSUME NEW q \in Request
      PROVE  Undisturbed(q, txn'[q], status', score', copies')
  <2>1. status' = status /\ score' = score /\ copies' = copies
    BY DEF db
  <2>2. txn'[q] = IF q = r THEN t ELSE txn[q]
    BY DEF Kept, Inv, TypeOK
  <2>3. Undisturbed(q, txn[q], status, score, copies)
    BY DEF Kept
  <2> QED
    BY <2>1, <2>2, <2>3
<1> QED
  BY <1>1 DEF Kept

LEMMA RollbackKept ==
  ASSUME Kept, NEW r \in Request, NEW phase \in {"new", "done", "rejected", "failed"},
         Rollback(r, phase)
  PROVE  Kept'
<1>1. Inv'
  BY RollbackInv DEF Kept
<1> QED
  BY <1>1, EndedKept, GoesKept DEF Rollback

(* What a session knows of its own fixture stands while the fixture does.  *)
LEMMA OwnStays ==
  ASSUME NEW t \in Session, NEW f \in Fixtures, NEW st, NEW sc, NEW st2, NEW sc2,
         st2[f] = st[f], sc2[f] = sc[f], Own(t, f, st, sc),
         NEW others \in {"none", "elsewhere", "here"}
  PROVE  Own([t EXCEPT !.others = others], f, st2, sc2)
<1> DEFINE u == [t EXCEPT !.others = others]
<1>1. /\ u.phase = t.phase /\ u.status = t.status /\ u.score = t.score /\ u.op = t.op
      /\ u.made = t.made /\ u.seen = t.seen /\ u.todo = t.todo /\ u.at = t.at
      /\ u.fx = t.fx /\ u.update = t.update
  BY DEF Session
<1>2. \A new : With(u, sc2, new)[f] = With(t, sc, new)[f]
  BY <1>1 DEF With
<1>3. \A new : With(u, st2, new)[f] = With(t, st, new)[f]
  BY <1>1 DEF With
<1>4. /\ With(u, sc2, u.score)[f] = With(t, sc, t.score)[f]
      /\ ScoreAfter(u, sc2)[f] = ScoreAfter(t, sc)[f]
      /\ StatusAfter(u, st2)[f] = StatusAfter(t, st)[f]
  BY <1>1, <1>2, <1>3 DEF ScoreAfter, StatusAfter
<1> DEFINE result == <<f, ScoreAfter(t, sc)[f]>>
<1>5. <<f, ScoreAfter(u, sc2)[f]>> = result
  BY <1>4
<1> SUFFICES Own(u, f, st2, sc2)
  OBVIOUS
<1> HIDE DEF u, result
<1>6. CASE t.phase = "loaded"
  <2>1. t.phase \notin Recomputing
    BY <1>6 DEF Recomputing
  <2> QED
    BY <1>1, <1>6, <2>1 DEF Own
<1>7. CASE t.phase \in Recomputing
  <2>1. t.phase # "loaded"
    BY <1>7 DEF Recomputing
  <2>2. u.phase # "loaded" /\ u.phase \in Recomputing
    BY <1>1, <1>7, <2>1
  <2>3. /\ With(u, sc2, u.score)[f] = ScoreAfter(u, sc2)[f]
        /\ StatusAfter(u, st2)[f] = IF u.op = "cancel" THEN "CANCELLED" ELSE "COMPLETED"
        /\ HasResult(ScoreAfter(u, sc2), f) = HasResult(ScoreAfter(t, sc), f)
    BY <1>1, <1>4, <1>7 DEF Own, HasResult
  <2>4. CASE t.op = "cancel" \/ ~HasResult(ScoreAfter(t, sc), f)
    <3>1. /\ \A c \in t.made : Absent(f, c.results)
          /\ t.phase # "rebuilding" => Absent(f, t.seen)
      BY <1>7, <2>4 DEF Own
    <3>2. /\ \A c \in u.made : Absent(f, c.results)
          /\ u.phase # "rebuilding" => Absent(f, u.seen)
      BY <1>1, <3>1
    <3> QED
      BY <1>1, <2>2, <2>3, <2>4, <3>2 DEF Own
  <2>5. CASE ~(t.op = "cancel" \/ ~HasResult(ScoreAfter(t, sc), f))
    <3>1. /\ \/ GroupOf[f] \in t.todo \cup {NoGroup}
             \/ \E c \in t.made : c.group = GroupOf[f] /\ result \in c.results
          /\ t.phase # "rebuilding" /\ t.at = GroupOf[f] => result \in t.seen
      BY <1>7, <2>5 DEF Own, result
    <3>2. /\ \/ GroupOf[f] \in u.todo \cup {NoGroup}
             \/ \E c \in u.made : c.group = GroupOf[f] /\ result \in c.results
          /\ u.phase # "rebuilding" /\ u.at = GroupOf[f] => result \in u.seen
      BY <1>1, <3>1
    <3> QED
      BY <1>1, <1>5, <2>2, <2>3, <2>5, <3>2 DEF Own
  <2> QED
    BY <2>4, <2>5
<1>8. CASE t.phase # "loaded" /\ t.phase \notin Recomputing
  BY <1>1, <1>8 DEF Own
<1> QED
  BY <1>6, <1>7, <1>8

(* A commit of r that changes its own fixture only.                        *)
LEMMA CommittingKept ==
  ASSUME Kept, Inv', NEW r \in Request, NEW t, Committing(r, t),
         Undisturbed(r, t, status', score', copies'),
         NEW g \in Fixtures, txn[r].fx = {g},
         \A f \in Fixtures : f # g => status'[f] = status[f] /\ score'[f] = score[f]
  PROVE  Kept'
<1> SUFFICES ASSUME NEW q \in Request
             PROVE  Undisturbed(q, txn'[q], status', score', copies')
  BY DEF Kept
<1>1. CASE q = r
  BY <1>1 DEF Committing
<1>2. CASE q # r
  <2>1. Undisturbed(q, txn[q], status, score, copies) /\ txn[q] \in Session
    BY DEF Kept, Inv, TypeOK
  <2>2. CASE txn[q].fx = {}
    <3>1. txn'[q] = txn[q]
      BY <1>2, <2>2 DEF Committing
    <3>2. txn[q].phase \notin Recomputing
      BY <2>1, <2>2 DEF Undisturbed, Shape
    <3>3. Alone(q, txn[q], status', score', copies')
      BY <3>2 DEF Alone
    <3> QED
      BY <2>1, <2>2, <3>1, <3>3 DEF Undisturbed
  <2>3. CASE txn[q].fx # {}
    <3>1. PICK others \in {"elsewhere", "here"} :
            /\ txn'[q] = [txn[q] EXCEPT !.others = others]
            /\ others # "here" => txn[q].fx # {g} /\ txn[q].others # "here"
      <4>1. CASE txn[q].fx = {g}
        <5>1. txn'[q] = [txn[q] EXCEPT !.others = "here"]
          BY <1>2, <2>3, <4>1 DEF Committing
        <5> QED
          BY <5>1
      <4>2. CASE txn[q].fx # {g}
        <5> DEFINE o == IF txn[q].others = "none" THEN "elsewhere" ELSE txn[q].others
        <5>1. txn'[q] = [txn[q] EXCEPT !.others = o]
          BY <1>2, <2>3, <4>2 DEF Committing
        <5>2. o \in {"elsewhere", "here"} /\ (o # "here" => txn[q].others # "here")
          BY <2>1 DEF Session
        <5> QED
          BY <4>2, <5>1, <5>2
      <4> QED
        BY <4>1, <4>2
    <3> DEFINE u == [txn[q] EXCEPT !.others = others]
    <3>2. /\ u.phase = txn[q].phase /\ u.fx = txn[q].fx /\ u.made = txn[q].made
          /\ u.gone = txn[q].gone /\ u.op = txn[q].op /\ u.others = others
      BY <2>1 DEF Session
    <3>3. Shape(u)
      BY <2>1, <3>2 DEF Undisturbed, Shape
    <3>4. ASSUME others # "here", NEW f \in txn[q].fx
          PROVE  Own(u, f, status', score')
      <4>1. f \in Fixtures
        BY <2>1 DEF Session
      <4>2. txn[q].phase \notin {"loaded"} \cup Recomputing \/ txn[q].fx = {f}
        BY <2>1 DEF Undisturbed, Shape
      <4>3. CASE txn[q].fx = {f}
        <5>1. status'[f] = status[f] /\ score'[f] = score[f]
          BY <3>1, <3>4, <4>1, <4>3
        <5>2. Own(txn[q], f, status, score)
          BY <2>1, <3>1, <3>4 DEF Undisturbed
        <5> QED
          BY <2>1, <4>1, <5>1, <5>2, OwnStays
      <4>4. CASE txn[q].phase \notin {"loaded"} \cup Recomputing
        BY <3>2, <4>4 DEF Own
      <4> QED
        BY <4>2, <4>3, <4>4
    <3>5. u.others # "none"
      BY <3>1, <3>2
    <3>6. u.others # "here" => \A f \in u.fx : Own(u, f, status', score')
      BY <3>2, <3>4
    <3> HIDE DEF u
    <3>7. Undisturbed(q, u, status', score', copies')
      BY <3>3, <3>5, <3>6 DEF Undisturbed
    <3> QED
      BY <3>1, <3>7 DEF u
  <2> QED
    BY <2>2, <2>3
<1> QED
  BY <1>1, <1>2

LEMMA InitKept == Init => Kept
<1> SUFFICES ASSUME Init PROVE Kept
  OBVIOUS
<1>1. PICK come \in Coming :
        txn = [r \in Request |-> IF come[r] = "none" THEN Ended("done")
                                 ELSE [Ended("new") EXCEPT !.op = come[r]]]
  BY DEF Init
<1>2. \A r \in Request : come[r] \in Routes \cup {"none"}
  BY ComingAssumption
<1>3. \A r \in Request : Undisturbed(r, txn[r], status, score, copies)
  BY <1>1, <1>2, EndedKept
<1> QED
  BY <1>3, InitInv DEF Kept

-----------------------------------------------------------------------------
(* The steps, for what a session knows.                                    *)

LEMMA LoadKept == ASSUME Kept, NEW r \in Request, Load(r) PROVE Kept'
<1>1. PICK f \in Fixtures :
        /\ At(r, "new")
        /\ txn' = [txn EXCEPT ![r] = [txn[r] EXCEPT !.phase = "loaded",
             !.fx = {f}, !.status = {status[f]}, !.score = {score[f]} \ {NoLive}]]
        /\ UNCHANGED <<db, fxLock>>
  BY DEF Load
<1> DEFINE t == [txn[r] EXCEPT !.phase = "loaded", !.fx = {f},
                               !.status = {status[f]}, !.score = {score[f]} \ {NoLive}]
<1>2. txn[r] \in Session /\ txn[r].phase = "new" /\ Shape(txn[r])
  BY <1>1 DEF Kept, Inv, TypeOK, At, Undisturbed
<1>3. /\ t.phase = "loaded" /\ t.fx = {f} /\ t.status = {status[f]}
      /\ t.score = {score[f]} \ {NoLive} /\ t.made = txn[r].made /\ t.gone = txn[r].gone
  BY <1>2 DEF Session
<1> HIDE DEF t
<1>4. t.made = {} /\ t.gone = {} /\ t.phase \notin Recomputing
  BY <1>2, <1>3 DEF Shape, Recomputing
<1>5. Shape(t)
  BY <1>3, <1>4 DEF Shape
<1>6. Own(t, f, status, score) /\ Alone(r, t, status, score, copies)
  BY <1>3, <1>4 DEF Own, Alone
<1>7. Undisturbed(r, t, status, score, copies)
  BY <1>3, <1>5, <1>6 DEF Undisturbed
<1>8. Inv' /\ txn' = [txn EXCEPT ![r] = t]
  BY <1>1, LoadInv DEF Kept, t
<1> QED
  BY <1>1, <1>7, <1>8, GoesKept

(* The session once it has the result in memory, stored in the end as st   *)
(* and sc have it.                                                         *)
LEMMA OpenedKept ==
  ASSUME Kept, NEW r \in Request, NEW f \in Fixtures, At(r, "loaded"), f \in txn[r].fx,
         txn[r].op \in {"complete", "correct", "cancel"},
         NEW new, NEW update, NEW st, NEW sc, NEW stored,
         txn[r].others # "here" =>
           /\ With(Opened(r, f, new, update), sc, update.score)[f] =
                With(Opened(r, f, new, update), sc, new)[f]
           /\ With(Opened(r, f, new, update), st, update.status)[f] =
                IF txn[r].op = "cancel" THEN "CANCELLED" ELSE "COMPLETED"
  PROVE  Undisturbed(r, Opened(r, f, new, update), st, sc, stored)
<1> DEFINE t == Opened(r, f, new, update)
<1>1. txn[r] \in Session /\ txn[r].phase = "loaded" /\ Shape(txn[r])
  BY DEF Kept, Inv, TypeOK, At, Undisturbed
<1>2. /\ t.phase = "rebuilding" /\ t.fx = txn[r].fx /\ t.score = new
      /\ t.update = update /\ t.op = txn[r].op /\ t.others = txn[r].others
      /\ t.made = txn[r].made /\ t.gone = txn[r].gone
      /\ t.todo = IF GroupOf[f] = NoGroup THEN {} ELSE Groups
  BY <1>1 DEF Opened, Session
<1> SUFFICES Undisturbed(r, t, st, sc, stored)
  OBVIOUS
<1>3. txn[r].others # "here" =>
           /\ With(t, sc, update.score)[f] = With(t, sc, new)[f]
           /\ With(t, st, update.status)[f] =
                IF txn[r].op = "cancel" THEN "CANCELLED" ELSE "COMPLETED"
  OBVIOUS
<1> HIDE DEF t
<1>4. txn[r].fx = {f} /\ t.made = {}
  BY <1>1, <1>2 DEF Shape
<1>5. Shape(t)
  BY <1>2, <1>4 DEF Shape
<1>6. ASSUME t.others # "here" PROVE Own(t, f, st, sc)
  <2>1. With(t, sc, t.score)[f] = ScoreAfter(t, sc)[f]
    BY <1>2, <1>3, <1>6 DEF ScoreAfter
  <2>2. t.phase # "loaded" /\ \A c \in t.made : Absent(f, c.results)
    BY <1>2, <1>4
  <2>3. StatusAfter(t, st)[f] = IF t.op = "cancel" THEN "CANCELLED" ELSE "COMPLETED"
    BY <1>2, <1>3, <1>6 DEF StatusAfter
  <2>4. t.op # "cancel" => GroupOf[f] \in t.todo \cup {NoGroup}
    BY <1>2, FixtureAssumption
  <2> QED
    BY <1>2, <1>4, <2>1, <2>2, <2>3, <2>4 DEF Own
<1>7. Alone(r, t, st, sc, stored)
  <2>1. \/ t.todo = {} /\ t.made = {}
        \/ \A g \in Groups : g \in t.todo /\ \A c \in t.made : c.group # g
    BY <1>2, <1>4
  <2> QED
    BY <1>2, <2>1 DEF Alone
<1> QED
  BY <1>2, <1>4, <1>5, <1>6, <1>7 DEF Undisturbed

LEMMA HoldKept ==
  ASSUME Kept, NEW r \in Request, NEW f \in Fixtures, At(r, "loaded"), f \in txn[r].fx,
         txn[r].op \in {"complete", "correct"}, NEW new \in SUBSET Scores,
         new = txn[r].score \/ \E sc \in Scores : new = {sc},
         Hold(r, f, new)
  PROVE  Kept'
<1>1. CASE Rollback(r, "failed")
  BY <1>1, RollbackKept
<1>2. CASE ~Rollback(r, "failed")
  <2> DEFINE update == [status |-> {"COMPLETED"} \ txn[r].status,
                        score |-> new \ txn[r].score]
             t == Opened(r, f, new, update)
  <2>1. txn' = [txn EXCEPT ![r] = t] /\ UNCHANGED db
    BY <1>2 DEF Hold
  <2>2. txn[r] \in Session /\ Undisturbed(r, txn[r], status, score, copies)
    BY DEF Kept, Inv, TypeOK
  <2>3. t.fx = txn[r].fx
    BY <2>2 DEF Opened, Session
  <2>4. ASSUME txn[r].others # "here"
        PROVE  /\ With(t, score, update.score)[f] = With(t, score, new)[f]
               /\ With(t, status, update.status)[f] = "COMPLETED"
    <3>1. txn[r].status = {status[f]} /\ txn[r].score = {score[f]} \ {NoLive}
      BY <2>2, <2>4 DEF Undisturbed, Own, At
    <3>2. With(t, score, update.score)[f] = With(t, score, new)[f]
      <4>1. CASE new \subseteq txn[r].score
        <5>1. update.score = {} /\ (new = {} \/ new = {score[f]})
          BY <3>1, <4>1
        <5> HIDE DEF t, update
        <5> QED
          BY <2>3, <5>1, Chosen DEF With
      <4>2. CASE ~(new \subseteq txn[r].score)
        <5>1. update.score = new
          BY <4>2
        <5> QED
          BY <5>1
      <4> QED
        BY <4>1, <4>2
    <3>3. With(t, status, update.status)[f] = "COMPLETED"
      <4>1. CASE status[f] = "COMPLETED"
        BY <2>3, <3>1, <4>1 DEF With
      <4>2. CASE status[f] # "COMPLETED"
        <5>1. update.status = {"COMPLETED"}
          BY <3>1, <4>2
        <5> HIDE DEF t, update
        <5> QED
          BY <2>3, <5>1, Chosen DEF With
      <4> QED
        BY <4>1, <4>2
    <3> QED
      BY <3>2, <3>3
  <2>5. Inv'
    BY HoldInv DEF Kept
  <2> HIDE DEF update
  <2>6. Undisturbed(r, t, status, score, copies)
    BY <2>4, OpenedKept
  <2> QED
    BY <2>1, <2>5, <2>6, GoesKept
<1> QED
  BY <1>1, <1>2

LEMMA LoadedKept ==
  ASSUME Kept, NEW r \in Request, NEW op, NEW f \in Loaded(r, op)
  PROVE  /\ f \in Fixtures /\ f \in txn[r].fx /\ txn[r].fx = {f}
         /\ At(r, "loaded") /\ txn[r].op = op
         /\ txn[r] \in Session /\ Undisturbed(r, txn[r], status, score, copies)
<1>1. f \in txn[r].fx /\ At(r, "loaded") /\ txn[r].op = op
  BY DEF Loaded
<1>2. txn[r] \in Session /\ Undisturbed(r, txn[r], status, score, copies)
  BY DEF Kept, Inv, TypeOK
<1>3. f \in Fixtures
  BY <1>1, <1>2 DEF Session
<1>4. \E g \in Fixtures : txn[r].fx = {g}
  BY <1>1, <1>2 DEF At, Undisturbed, Shape
<1> QED
  BY <1>1, <1>2, <1>3, <1>4

(* A change of status that is committed.                                   *)
LEMMA ChangeKept ==
  ASSUME Kept, Inv', NEW r \in Request, NEW f \in Fixtures, txn[r].fx = {f},
         NEW target, NEW t, Change(r, f, target, t),
         Undisturbed(r, t, IF target \in txn[r].status THEN status
                           ELSE [status EXCEPT ![f] = target], score, copies)
  PROVE  Kept'
<1>1. CASE Rollback(r, "rejected") \/ Rollback(r, "failed")
  BY <1>1, RollbackKept
<1>2. CASE /\ status' = IF target \in txn[r].status THEN status
                        ELSE [status EXCEPT ![f] = target]
           /\ Committing(r, t)
           /\ UNCHANGED <<score, standings, copies, fxLock>>
  <2>1. \A g \in Fixtures : g # f => status'[g] = status[g] /\ score'[g] = score[g]
    BY <1>2 DEF Kept, Inv, TypeOK
  <2>2. Undisturbed(r, t, status', score', copies')
    BY <1>2
  <2> QED
    BY <1>2, <2>1, <2>2, CommittingKept
<1> QED
  BY <1>1, <1>2 DEF Change

LEMMA CancelKept == ASSUME Kept, NEW r \in Request, Cancel(r) PROVE Kept'
<1>1. PICK f \in Loaded(r, "cancel") :
        Change(r, f, "CANCELLED", IF GroupOf[f] = NoGroup THEN Ended("done")
                                  ELSE Opened(r, f, txn[r].score, NoUpdate))
  BY DEF Cancel
<1>2. /\ f \in Fixtures /\ txn[r].fx = {f} /\ At(r, "loaded") /\ txn[r].op = "cancel"
      /\ txn[r] \in Session /\ Undisturbed(r, txn[r], status, score, copies)
  BY LoadedKept
<1>3. Inv'
  BY CancelInv DEF Kept
<1> DEFINE st == IF "CANCELLED" \in txn[r].status THEN status
                 ELSE [status EXCEPT ![f] = "CANCELLED"]
           t == Opened(r, f, txn[r].score, NoUpdate)
<1>4. CASE GroupOf[f] = NoGroup
  BY <1>1, <1>2, <1>3, <1>4, EndedKept, ChangeKept
<1>5. CASE GroupOf[f] # NoGroup
  <2>1. ASSUME txn[r].others # "here"
        PROVE  /\ With(t, score, NoUpdate.score)[f] = With(t, score, txn[r].score)[f]
               /\ With(t, st, NoUpdate.status)[f] = "CANCELLED"
    <3>1. txn[r].status = {status[f]} /\ txn[r].score = {score[f]} \ {NoLive}
      BY <1>2, <2>1 DEF Undisturbed, Own, At
    <3>2. st[f] = "CANCELLED"
      BY <1>2, <3>1 DEF Kept, Inv, TypeOK
    <3> HIDE DEF st, t
    <3>3. txn[r].score = {} \/ txn[r].score = {score[f]}
      BY <3>1
    <3>4. With(t, score, txn[r].score)[f] = score[f]
      BY <1>2, <3>3, Chosen DEF With
    <3> QED
      BY <1>2, <3>2, <3>4 DEF With, NoUpdate
  <2> HIDE DEF st
  <2>2. Undisturbed(r, t, st, score, copies)
    BY <1>2, <2>1, OpenedKept
  <2> QED
    BY <1>1, <1>2, <1>3, <1>5, <2>2, ChangeKept DEF st
<1> QED
  BY <1>4, <1>5

LEMMA ReopenKept == ASSUME Kept, NEW r \in Request, Reopen(r) PROVE Kept'
<1>1. PICK f \in Loaded(r, "reopen") : Change(r, f, "UNDER_REVIEW", Ended("done"))
  BY DEF Reopen
<1>2. f \in Fixtures /\ txn[r].fx = {f}
  BY LoadedKept
<1>3. Inv'
  BY ReopenInv DEF Kept
<1> QED
  BY <1>1, <1>2, <1>3, EndedKept, ChangeKept

LEMMA DeleteKept == ASSUME Kept, NEW r \in Request, Delete(r) PROVE Kept'
<1>1. PICK f \in Loaded(r, "delete") :
        /\ status' = [status EXCEPT ![f] = Gone]
        /\ Committing(r, Ended("done"))
        /\ UNCHANGED <<score, standings, copies, fxLock>>
  BY DEF Delete
<1>2. f \in Fixtures /\ txn[r].fx = {f}
  BY LoadedKept
<1>3. Inv'
  BY DeleteInv DEF Kept
<1>4. \A g \in Fixtures : g # f => status'[g] = status[g] /\ score'[g] = score[g]
  BY <1>1 DEF Kept, Inv, TypeOK
<1> QED
  BY <1>1, <1>2, <1>3, <1>4, EndedKept, CommittingKept

LEMMA HandleKept == ASSUME Kept, NEW r \in Request, Handle(r) PROVE Kept'
<1>1. CASE Load(r)
  BY <1>1, LoadKept
<1>2. CASE Complete(r)
  <2>1. PICK f \in Loaded(r, "complete") :
          \/ Hold(r, f, txn[r].score)
          \/ Rollback(r, "rejected")
    BY <1>2 DEF Complete
  <2>2. /\ f \in Fixtures /\ f \in txn[r].fx /\ At(r, "loaded")
        /\ txn[r].op = "complete" /\ txn[r].score \subseteq Scores
    BY LoadedKept DEF Session
  <2> QED
    BY <2>1, <2>2, HoldKept, RollbackKept
<1>3. CASE Correct(r)
  <2>1. PICK f \in Loaded(r, "correct"), sc \in Scores : Hold(r, f, {sc})
    BY <1>3 DEF Correct
  <2>2. /\ f \in Fixtures /\ f \in txn[r].fx /\ At(r, "loaded")
        /\ txn[r].op = "correct"
    BY LoadedKept
  <2> QED
    BY <2>1, <2>2, HoldKept
<1>4. CASE Cancel(r)
  BY <1>4, CancelKept
<1>5. CASE Reopen(r)
  BY <1>5, ReopenKept
<1>6. CASE Delete(r)
  BY <1>6, DeleteKept
<1> QED
  BY <1>1, <1>2, <1>3, <1>4, <1>5, <1>6 DEF Handle

-----------------------------------------------------------------------------
(* The steps of the recomputation, for what a session knows.               *)

(* While nobody else commits on its fixture, a session reads the results   *)
(* as they are once it has committed.                                      *)
LEMMA ResultsKnown ==
  ASSUME Kept, NEW r \in Request, NEW g, txn[r].phase \in Recomputing,
         txn[r].others # "here"
  PROVE  Results(r, g) = Counted(StatusAfter(txn[r], status), ScoreAfter(txn[r], score), g)
<1> DEFINE t == txn[r]
<1>1. t \in Session /\ Undisturbed(r, t, status, score, copies)
  BY DEF Kept, Inv, TypeOK
<1>2. PICK f \in Fixtures : t.fx = {f}
  BY <1>1 DEF Undisturbed, Shape
<1>3. With(t, score, t.score)[f] = ScoreAfter(t, score)[f]
  BY <1>1, <1>2 DEF Undisturbed, Own
<1>4. ASSUME NEW h \in Fixtures
      PROVE  With(t, score, t.score)[h] = ScoreAfter(t, score)[h]
  <2>1. CASE h = f
    BY <1>3, <2>1
  <2>2. CASE h # f
    <3>1. h \notin t.fx
      BY <1>2, <2>2
    <3> HIDE DEF t
    <3> QED
      BY <3>1 DEF ScoreAfter, With
  <2> QED
    BY <2>1, <2>2
<1>5. With(t, score, t.score) = ScoreAfter(t, score)
  BY <1>4 DEF With, ScoreAfter
<1>6. /\ Updated(r, score, t.score) = With(t, score, t.score)
      /\ Updated(r, status, t.update.status) = StatusAfter(t, status)
  BY UpdatedIsWith DEF StatusAfter
<1> QED
  BY <1>5, <1>6 DEF Results

LEMMA ReadResultsKept == ASSUME Kept, NEW r \in Request, ReadResults(r) PROVE Kept'
<1>1. PICK g \in txn[r].todo :
        /\ txn[r].phase = "rebuilding"
        /\ txn' = [txn EXCEPT ![r] = [txn[r] EXCEPT !.phase = "read", !.at = g,
                                                   !.seen = Results(r, g)]]
        /\ UNCHANGED db
  BY DEF ReadResults, Kept, Inv, TypeOK, At
<1> DEFINE u == txn[r]
           t == [u EXCEPT !.phase = "read", !.at = g, !.seen = Results(r, g)]
<1>2. u \in Session /\ Undisturbed(r, u, status, score, copies)
  BY DEF Kept, Inv, TypeOK
<1>3. /\ t.phase = "read" /\ t.at = g /\ t.seen = Results(r, g) /\ t.fx = u.fx
      /\ t.score = u.score /\ t.update = u.update /\ t.op = u.op /\ t.others = u.others
      /\ t.made = u.made /\ t.gone = u.gone /\ t.todo = u.todo
  BY <1>2 DEF Session
<1>4. u.phase = "rebuilding" /\ u.phase \in Recomputing
  BY <1>1 DEF Recomputing
<1>5. t.others # "here" =>
        t.seen = Counted(StatusAfter(u, status), ScoreAfter(u, score), g)
  BY <1>3, <1>4, ResultsKnown
<1> SUFFICES Undisturbed(r, t, status, score, copies)
  <2>1. Inv'
    BY ReadResultsInv DEF Kept
  <2> QED
    BY <1>1, <2>1, GoesKept
<1> HIDE DEF t, u
<1>6. /\ ScoreAfter(t, score) = ScoreAfter(u, score)
      /\ StatusAfter(t, status) = StatusAfter(u, status)
      /\ With(t, score, t.score) = With(u, score, u.score)
  BY <1>3 DEF ScoreAfter, StatusAfter, With
<1>7. Shape(t)
  BY <1>2, <1>3, <1>4 DEF Undisturbed, Shape, Recomputing
<1>8. ASSUME t.others # "here", NEW f \in t.fx PROVE Own(t, f, status, score)
  <2>1. f \in Fixtures /\ Own(u, f, status, score)
    BY <1>2, <1>3, <1>8 DEF Undisturbed, Session
  <2> DEFINE after == ScoreAfter(u, score)
             result == <<f, after[f]>>
  <2>2. \A value : (<<f, value>> \in t.seen) <=>
          /\ value = after[f] /\ HasResult(after, f)
          /\ GroupOf[f] = g /\ StatusAfter(u, status)[f] \in Counting
    BY <1>5, <1>8, <2>1 DEF Counted
  <2>3. /\ With(u, score, u.score)[f] = after[f]
        /\ StatusAfter(u, status)[f] = IF u.op = "cancel" THEN "CANCELLED" ELSE "COMPLETED"
    BY <1>4, <2>1 DEF Own
  <2>4. t.phase # "loaded"
    BY <1>3
  <2> HIDE DEF after
  <2>5. CASE u.op = "cancel" \/ ~HasResult(after, f)
    <3>1. Absent(f, t.seen)
      BY <2>2, <2>3, <2>5 DEF Absent, Counting
    <3>2. \A c \in t.made : Absent(f, c.results)
      BY <1>3, <1>4, <2>1, <2>5 DEF Own, after
    <3> QED
      BY <1>3, <1>6, <2>3, <2>4, <2>5, <3>1, <3>2 DEF Own, after
  <2>6. CASE ~(u.op = "cancel" \/ ~HasResult(after, f))
    <3>1. t.at = GroupOf[f] => result \in t.seen
      BY <1>3, <2>2, <2>3, <2>6 DEF Counting
    <3>2. \/ GroupOf[f] \in t.todo \cup {NoGroup}
          \/ \E c \in t.made : c.group = GroupOf[f] /\ result \in c.results
      BY <1>3, <1>4, <2>1, <2>6 DEF Own, after
    <3> QED
      BY <1>3, <1>6, <2>3, <2>4, <2>6, <3>1, <3>2 DEF Own, after
  <2> QED
    BY <2>5, <2>6
<1>9. ASSUME t.others = "none" PROVE Alone(r, t, status, score, copies)
  <2>1. Alone(r, u, status, score, copies)
    BY <1>2, <1>3, <1>9 DEF Undisturbed
  <2>2. t.at \in t.todo /\ t.seen = Table(r, t, t.at, status, score).results
    BY <1>1, <1>3, <1>5, <1>6, <1>9 DEF Table, u
  <2>3. \A h : Table(r, t, h, status, score) = Table(r, u, h, status, score)
    BY <1>6 DEF Table
  <2>4. \/ t.todo = {} /\ t.made = {}
        \/ \A h \in Groups :
            IF h \in t.todo THEN \A c \in t.made : c.group # h
            ELSE /\ {c \in t.made : c.group = h} = {Table(r, t, h, status, score)}
                 /\ {c \in copies : c.group = h} \subseteq t.gone
    BY <1>3, <1>4, <2>1, <2>3 DEF Alone
  <2> QED
    BY <1>3, <2>2, <2>4 DEF Alone
<1> QED
  BY <1>7, <1>8, <1>9 DEF Undisturbed

LEMMA FindStandingKept == ASSUME Kept, NEW r \in Request, FindStanding(r) PROVE Kept'
<1> DEFINE u == txn[r]
           t == IF u.at \in standings
                THEN [u EXCEPT !.phase = "deleting", !.snap = {c \in copies : c.group = u.at}]
                ELSE [u EXCEPT !.phase = "founding"]
<1>1. txn' = [txn EXCEPT ![r] = t] /\ UNCHANGED db /\ u.phase = "read"
  BY DEF FindStanding, Kept, Inv, TypeOK, At
<1>2. u \in Session /\ Undisturbed(r, u, status, score, copies)
  BY DEF Kept, Inv, TypeOK
<1>3. /\ t.phase \in {"deleting", "founding"} /\ t.at = u.at /\ t.seen = u.seen
      /\ t.fx = u.fx /\ t.score = u.score /\ t.update = u.update /\ t.op = u.op
      /\ t.others = u.others /\ t.made = u.made /\ t.gone = u.gone /\ t.todo = u.todo
      /\ t.phase = "deleting" => t.snap = {c \in copies : c.group = t.at}
  BY <1>2 DEF Session
<1> SUFFICES Undisturbed(r, t, status, score, copies)
  <2>1. Inv'
    BY FindStandingInv DEF Kept
  <2> QED
    BY <1>1, <2>1, GoesKept
<1> HIDE DEF t, u
<1>4. u.phase \in Recomputing /\ t.phase \in Recomputing /\ t.phase # "loaded"
      /\ t.phase # "rebuilding" /\ t.phase # "new" /\ u.phase # "rebuilding"
  BY <1>1, <1>3 DEF Recomputing
<1>5. /\ ScoreAfter(t, score) = ScoreAfter(u, score)
      /\ StatusAfter(t, status) = StatusAfter(u, status)
      /\ With(t, score, t.score) = With(u, score, u.score)
  BY <1>3 DEF ScoreAfter, StatusAfter, With
<1>6. Shape(t)
  BY <1>2, <1>3, <1>4 DEF Undisturbed, Shape
<1>7. ASSUME t.others # "here", NEW f \in t.fx PROVE Own(t, f, status, score)
  <2>1. Own(u, f, status, score)
    BY <1>2, <1>3, <1>7 DEF Undisturbed
  <2> QED
    BY <1>3, <1>4, <1>5, <2>1 DEF Own
<1>8. ASSUME t.others = "none" PROVE Alone(r, t, status, score, copies)
  <2>1. Alone(r, u, status, score, copies)
    BY <1>2, <1>3, <1>8 DEF Undisturbed
  <2>2. \A h : Table(r, t, h, status, score) = Table(r, u, h, status, score)
    BY <1>5 DEF Table
  <2> QED
    BY <1>3, <1>4, <2>1, <2>2 DEF Alone
<1> QED
  BY <1>6, <1>7, <1>8 DEF Undisturbed

(* A group is rebuilt: t is the session u once the old rows of the group   *)
(* are to go.                                                              *)
LEMMA InsertKept ==
  ASSUME Kept, NEW r \in Request, txn[r].phase \in {"deleting", "founding"},
         NEW t \in Session,
         \A field \in {"phase", "op", "fx", "score", "update", "todo", "at", "seen",
                       "made", "others"} : t[field] = txn[r][field],
         txn[r].gone \subseteq t.gone,
         txn[r].others = "none" => {c \in copies : c.group = t.at} \subseteq t.gone
  PROVE  Undisturbed(r, Insert(r, t), status, score, copies)
<1> DEFINE u == txn[r]
           n == Insert(r, t)
           copy == [group |-> t.at, by |-> r, results |-> t.seen]
<1>1. u \in Session /\ Undisturbed(r, u, status, score, copies)
  BY DEF Kept, Inv, TypeOK
<1>2. /\ t.at = u.at /\ t.seen = u.seen /\ t.fx = u.fx /\ t.score = u.score
      /\ t.update = u.update /\ t.op = u.op /\ t.others = u.others
      /\ t.made = u.made /\ t.todo = u.todo
  OBVIOUS
<1>3. /\ n.phase = "rebuilding" /\ n.fx = u.fx /\ n.score = u.score
      /\ n.update = u.update /\ n.op = u.op /\ n.others = u.others
      /\ n.made = u.made \cup {copy} /\ n.todo = u.todo \ {u.at} /\ n.gone = t.gone
  BY <1>2 DEF Insert, Session
<1>4. copy = [group |-> u.at, by |-> r, results |-> u.seen]
  BY <1>2
<1>5. /\ u.gone \subseteq n.gone /\ u.phase \in {"deleting", "founding"}
      /\ u.others = "none" => {c \in copies : c.group = u.at} \subseteq n.gone
  BY <1>2, <1>3
<1> HIDE DEF u, n
<1> SUFFICES Undisturbed(r, n, status, score, copies)
  BY DEF n
<1>6. /\ copy.group = u.at /\ copy.results = u.seen
      /\ n.made = u.made \cup {copy}
  BY <1>3, <1>4
<1>12. copy = [group |-> u.at, by |-> r, results |-> u.seen]
  BY <1>4
<1> HIDE DEF copy
<1>7. u.phase \in Recomputing /\ u.phase # "rebuilding" /\ n.phase \in Recomputing
  BY <1>3, <1>5 DEF Recomputing
<1>8. /\ ScoreAfter(n, score) = ScoreAfter(u, score)
      /\ StatusAfter(n, status) = StatusAfter(u, status)
      /\ With(n, score, n.score) = With(u, score, u.score)
  BY <1>3 DEF ScoreAfter, StatusAfter, With
<1>9. Shape(n)
  BY <1>1, <1>3, <1>7 DEF Undisturbed, Shape
<1>10. ASSUME n.others # "here", NEW f \in n.fx PROVE Own(n, f, status, score)
  <2>1. Own(u, f, status, score)
    BY <1>1, <1>3, <1>10 DEF Undisturbed
  <2> DEFINE after == ScoreAfter(u, score)
             result == <<f, after[f]>>
  <2>2. /\ StatusAfter(n, status)[f] = IF n.op = "cancel" THEN "CANCELLED" ELSE "COMPLETED"
        /\ With(n, score, n.score)[f] = ScoreAfter(n, score)[f]
    BY <1>3, <1>7, <1>8, <2>1 DEF Own
  <2>3. CASE u.op = "cancel" \/ ~HasResult(after, f)
    <3>1. (\A c \in u.made : Absent(f, c.results)) /\ Absent(f, u.seen)
      BY <1>7, <2>1, <2>3 DEF Own
    <3>2. \A c \in n.made : Absent(f, c.results)
      BY <1>6, <3>1
    <3> QED
      BY <1>3, <1>8, <2>2, <2>3, <3>2 DEF Own
  <2>4. CASE ~(u.op = "cancel" \/ ~HasResult(after, f))
    <3>1. /\ \/ GroupOf[f] \in u.todo \cup {NoGroup}
             \/ \E c \in u.made : c.group = GroupOf[f] /\ result \in c.results
          /\ u.at = GroupOf[f] => result \in u.seen
      BY <1>7, <2>1, <2>4 DEF Own
    <3>2. \/ GroupOf[f] \in n.todo \cup {NoGroup}
          \/ \E c \in n.made : c.group = GroupOf[f] /\ result \in c.results
      BY <1>3, <1>6, <3>1
    <3> QED
      BY <1>3, <1>8, <2>2, <2>4, <3>2 DEF Own
  <2> QED
    BY <2>3, <2>4
<1>11. ASSUME n.others = "none" PROVE Alone(r, n, status, score, copies)
  <2>1. Alone(r, u, status, score, copies)
    BY <1>1, <1>3, <1>11 DEF Undisturbed
  <2>2. \A h : Table(r, n, h, status, score) = Table(r, u, h, status, score)
    BY <1>8 DEF Table
  <2>3. u.at \in u.todo /\ copy = Table(r, u, u.at, status, score)
    BY <1>7, <1>12, <2>1 DEF Alone, Table
  <2>4. \A g \in Groups :
            IF g \in u.todo THEN \A c \in u.made : c.group # g
            ELSE /\ {c \in u.made : c.group = g} = {Table(r, u, g, status, score)}
                 /\ {c \in copies : c.group = g} \subseteq u.gone
    BY <1>7, <2>1, <2>3 DEF Alone
  <2>5. ASSUME NEW g \in Groups
        PROVE  IF g \in n.todo THEN \A c \in n.made : c.group # g
               ELSE /\ {c \in n.made : c.group = g} = {Table(r, n, g, status, score)}
                    /\ {c \in copies : c.group = g} \subseteq n.gone
    <3>1. CASE g = u.at
      <4>1. g \notin n.todo
        BY <1>3, <3>1
      <4>2. \A c \in u.made : c.group # g
        BY <2>3, <2>4, <3>1
      <4>3. {c \in n.made : c.group = g} = {copy}
        BY <1>6, <3>1, <4>2
      <4>4. {c \in copies : c.group = g} \subseteq n.gone
        BY <1>3, <1>5, <1>11, <3>1
      <4> QED
        BY <2>2, <2>3, <3>1, <4>1, <4>3, <4>4
    <3>2. CASE g # u.at
      <4>1. {c \in n.made : c.group = g} = {c \in u.made : c.group = g}
        BY <1>6, <3>2
      <4>2. (g \in n.todo) <=> (g \in u.todo)
        BY <1>3, <3>2
      <4> QED
        BY <1>5, <1>6, <2>2, <2>4, <3>2, <4>1, <4>2
    <3> QED
      BY <3>1, <3>2
  <2> QED
    BY <1>3, <2>5 DEF Alone
<1> QED
  BY <1>9, <1>10, <1>11 DEF Undisturbed

LEMMA DeleteRowsKept == ASSUME Kept, NEW r \in Request, DeleteRows(r) PROVE Kept'
<1>1. txn[r] \in Session /\ txn[r].phase = "deleting"
  BY DEF DeleteRows, Kept, Inv, TypeOK, At
<1> DEFINE t == [txn[r] EXCEPT !.gone = @ \cup (txn[r].snap \cap copies)]
<1>2. t \in Session
  BY <1>1 DEF Session
<1>3. /\ t.gone = txn[r].gone \cup (txn[r].snap \cap copies)
      /\ \A field \in {"phase", "op", "fx", "score", "update", "todo", "at", "seen",
                       "made", "others"} : t[field] = txn[r][field]
  BY <1>1 DEF Session
<1>4. txn[r].others = "none" => txn[r].snap = {c \in copies : c.group = txn[r].at}
  BY <1>1 DEF Kept, Undisturbed, Alone, Recomputing
<1>5. t.at = txn[r].at
  BY <1>3
<1>6. Inv' /\ txn' = [txn EXCEPT ![r] = Insert(r, t)] /\ UNCHANGED db
  BY DeleteRowsInv DEF DeleteRows, Kept
<1> HIDE DEF t
<1>7. Undisturbed(r, Insert(r, t), status, score, copies)
  BY <1>1, <1>2, <1>3, <1>4, <1>5, InsertKept
<1> QED
  BY <1>6, <1>7, GoesKept

LEMMA FoundStandingKept == ASSUME Kept, NEW r \in Request, FoundStanding(r) PROVE Kept'
<1>1. CASE Rollback(r, "failed")
  BY <1>1, RollbackKept
<1>2. CASE ~Rollback(r, "failed")
  <2>1. /\ txn[r] \in Session /\ txn[r].phase = "founding" /\ txn[r].at \in Groups
        /\ txn[r].at \notin standings
    BY <1>2 DEF FoundStanding, Kept, Inv, TypeOK, At, Sound
  <2> DEFINE t == [txn[r] EXCEPT !.founded = @ \cup {txn[r].at}]
  <2>2. t \in Session
    BY <2>1 DEF Session
  <2>3. /\ t.gone = txn[r].gone
        /\ \A field \in {"phase", "op", "fx", "score", "update", "todo", "at", "seen",
                         "made", "others"} : t[field] = txn[r][field]
    BY <2>1 DEF Session
  <2>4. {c \in copies : c.group = t.at} = {}
    <3>1. t.at = txn[r].at
      BY <2>3
    <3>2. CopiesOf(txn[r].at) = {}
      BY <2>1 DEF Kept, Inv, NeverVanish
    <3> QED
      BY <3>1, <3>2 DEF CopiesOf
  <2>5. Inv' /\ txn' = [txn EXCEPT ![r] = Insert(r, t)] /\ UNCHANGED db
    BY <1>2, FoundStandingInv DEF FoundStanding, Kept
  <2> HIDE DEF t
  <2>6. Undisturbed(r, Insert(r, t), status, score, copies)
    BY <2>1, <2>2, <2>3, <2>4, InsertKept
  <2> QED
    BY <2>5, <2>6, GoesKept
<1> QED
  BY <1>1, <1>2

LEMMA CommitKept == ASSUME Kept, NEW r \in Request, Commit(r) PROVE Kept'
<1>1. /\ txn[r].phase \in Recomputing /\ Committing(r, Ended("done"))
      /\ status' = With(txn[r], status, txn[r].update.status)
      /\ score' = With(txn[r], score, txn[r].update.score)
  BY UpdatedIsWith DEF Commit, At, Recomputing
<1>2. PICK g \in Fixtures : txn[r].fx = {g}
  BY <1>1 DEF Kept, Undisturbed, Shape
<1>3. ASSUME NEW f \in Fixtures, f # g
      PROVE  status'[f] = status[f] /\ score'[f] = score[f]
  <2>1. f \notin txn[r].fx
    BY <1>2, <1>3
  <2> QED
    BY <1>1, <2>1 DEF With
<1>4. Inv'
  BY CommitInv DEF Kept
<1>5. Undisturbed(r, Ended("done"), status', score', copies')
  BY EndedKept
<1> QED
  BY <1>1, <1>2, <1>3, <1>4, <1>5, CommittingKept

LEMMA NextKept == Kept /\ [Next]_vars => Kept'
<1> SUFFICES ASSUME Kept, [Next]_vars PROVE Kept'
  OBVIOUS
<1>1. ASSUME NEW r \in Request, Handle(r) PROVE Kept'
  BY <1>1, HandleKept
<1>2. ASSUME NEW r \in Request, Rebuild(r) PROVE Kept'
  BY <1>2, ReadResultsKept, FindStandingKept, DeleteRowsKept, FoundStandingKept,
     CommitKept, RollbackKept DEF Rebuild, BreakDeadlock
<1>3. ASSUME NEW r \in Request, Crash(r) PROVE Kept'
  BY <1>3, RollbackKept DEF Crash
<1>4. CASE UNCHANGED vars
  <2>1. Inv'
    BY NextInv DEF Kept
  <2> QED
    BY <1>4, <2>1 DEF vars, db, Kept
<1> QED
  BY <1>1, <1>2, <1>3, <1>4 DEF Next, Serve, Quiet

(* Only its commit ends the recomputation of r with success. *)
LEMMA CommitsCommits ==
  ASSUME Kept, [Next]_vars, NEW r \in Request, Commits(r)
  PROVE  Commit(r)
<1>1. txn[r] \in Session /\ txn[r].phase = "rebuilding" /\ txn'[r].phase = "done"
  BY DEF Commits, At, Kept, Inv, TypeOK
<1>2. txn \in [Request -> Session]
  BY DEF Kept, Inv, TypeOK
<1>3. ASSUME NEW q \in Request, NEW phase \in {"rejected", "failed"}, Rollback(q, phase)
      PROVE  FALSE
  BY <1>1, <1>2, <1>3 DEF Rollback, Ended
<1>4. ASSUME NEW q \in Request, q # r, NEW s, Committing(q, s) PROVE FALSE
  <2>1. txn'[r].phase = txn[r].phase
    BY <1>1, <1>4 DEF Committing, Session
  <2> QED
    BY <1>1, <2>1
<1>5. ASSUME NEW q \in Request, NEW s, txn' = [txn EXCEPT ![q] = s], s.phase # "done"
      PROVE  FALSE
  BY <1>1, <1>2, <1>5
<1>6. ASSUME NEW q \in Request, Handle(q) PROVE FALSE
  <2>1. q = r => txn[q].phase # "new" /\ txn[q].phase # "loaded"
    BY <1>1
  <2>2. txn[q] \in Session
    BY <1>2
  <2>3. CASE Load(q)
    BY <1>1, <1>2, <2>1, <2>3 DEF Load, At
  <2>4. ASSUME NEW op, Loaded(q, op) # {} PROVE q # r
    BY <1>1, <2>4 DEF Loaded, At
  <2>5. CASE Complete(q) \/ Correct(q)
    <3>1. q # r
      BY <2>4, <2>5 DEF Complete, Correct
    <3>2. txn'[r] = txn[r]
      BY <1>2, <2>5, <3>1 DEF Complete, Correct, Hold, Rollback
    <3> QED
      BY <1>1, <3>2
  <2>6. CASE Cancel(q) \/ Reopen(q) \/ Delete(q)
    <3>1. q # r
      BY <2>4, <2>6 DEF Cancel, Reopen, Delete
    <3>2. \/ \E s : Committing(q, s)
          \/ \E phase \in {"rejected", "failed"} : Rollback(q, phase)
      BY <2>6 DEF Cancel, Reopen, Delete, Change
    <3> QED
      BY <1>3, <1>4, <3>1, <3>2
  <2> QED
    BY <1>6, <2>3, <2>5, <2>6 DEF Handle
<1>7. ASSUME NEW q \in Request, Rebuild(q), ~Commit(q) PROVE FALSE
  <2>1. txn[q] \in Session
    BY <1>2
  <2>2. CASE ReadResults(q)
    <3>1. PICK g \in txn[q].todo :
            txn' = [txn EXCEPT ![q] = [txn[q] EXCEPT !.phase = "read", !.at = g,
                                                     !.seen = Results(q, g)]]
      BY <1>2, <2>2 DEF ReadResults
    <3>2. [txn[q] EXCEPT !.phase = "read", !.at = g, !.seen = Results(q, g)].phase = "read"
      BY <2>1 DEF Session
    <3> QED
      BY <1>5, <3>1, <3>2
  <2>6. CASE FindStanding(q)
    <3> DEFINE s == IF txn[q].at \in standings
                    THEN [txn[q] EXCEPT !.phase = "deleting",
                                        !.snap = {c \in copies : c.group = txn[q].at}]
                    ELSE [txn[q] EXCEPT !.phase = "founding"]
    <3>1. txn' = [txn EXCEPT ![q] = s]
      BY <1>2, <2>6 DEF FindStanding
    <3>2. s.phase \in {"deleting", "founding"}
      BY <2>1 DEF Session
    <3> HIDE DEF s
    <3> QED
      BY <1>5, <3>1, <3>2
  <2>3. CASE DeleteRows(q)
    <3>1. q # r /\ txn'[r] = txn[r]
      BY <1>1, <1>2, <2>3 DEF DeleteRows, At
    <3> QED
      BY <1>1, <3>1
  <2>4. CASE FoundStanding(q)
    <3>1. q # r /\ txn'[r] = txn[r]
      BY <1>1, <1>2, <2>4 DEF FoundStanding, Rollback, At
    <3> QED
      BY <1>1, <3>1
  <2>5. CASE BreakDeadlock(q)
    BY <1>3, <2>5 DEF BreakDeadlock
  <2> QED
    BY <1>7, <2>2, <2>3, <2>4, <2>5, <2>6 DEF Rebuild
<1>8. ASSUME NEW q \in Request, Commit(q) PROVE Commit(r)
  BY <1>4, <1>8 DEF Commit
<1>9. ASSUME NEW q \in Request, Crash(q) PROVE FALSE
  BY <1>3, <1>9 DEF Crash
<1>10. ASSUME UNCHANGED vars PROVE FALSE
  BY <1>1, <1>10 DEF vars
<1> QED
  BY <1>6, <1>7, <1>8, <1>9, <1>10 DEF Next, Serve, Quiet

(* The step of a session across which nobody else has committed.           *)
LEMMA CommitAlone ==
  ASSUME Kept, NEW r \in Request, Commit(r), txn[r].others = "none", txn[r].made # {},
         NEW g \in Groups
  PROVE  {c \in copies' : c.group = g} =
           {[group |-> g, by |-> r, results |-> Counted(status', score', g)]}
<1> DEFINE t == txn[r]
<1>1. /\ t.phase = "rebuilding" /\ t.todo = {}
      /\ copies' = (copies \ t.gone) \cup t.made
  BY DEF Commit, At
<1>2. Alone(r, t, status, score, copies)
  BY DEF Kept, Undisturbed
<1>3. status' = StatusAfter(t, status) /\ score' = ScoreAfter(t, score)
  BY UpdatedIsWith DEF Commit, StatusAfter, ScoreAfter
<1>4. /\ {c \in t.made : c.group = g} = {Table(r, t, g, status, score)}
      /\ {c \in copies : c.group = g} \subseteq t.gone
  BY <1>1, <1>2 DEF Alone, Recomputing
<1>5. Table(r, t, g, status, score) =
        [group |-> g, by |-> r, results |-> Counted(status', score', g)]
  BY <1>3 DEF Table
<1> HIDE DEF t
<1>6. {c \in copies' : c.group = g} = {c \in t.made : c.group = g}
  BY <1>1, <1>4
<1> QED
  BY <1>4, <1>5, <1>6

(* The step of a session on whose fixture nobody else has committed.       *)
LEMMA CommitOwn ==
  ASSUME Kept, NEW r \in Request, Commit(r), NEW f \in Fixtures, Mine(r, f),
         txn[r].others # "here", GroupOf[f] # NoGroup
  PROVE  LET shown == {c \in txn[r].made : \E s \in Scores : <<f, s>> \in c.results} IN
         IF txn[r].op = "cancel" \/ ~HasResult(score', f) THEN shown = {}
         ELSE \E c \in txn[r].made \cap copies' :
                c.group = GroupOf[f] /\ <<f, score'[f]>> \in c.results
<1> DEFINE t == txn[r]
<1>1. /\ t.phase = "rebuilding" /\ t.todo = {} /\ t.phase \in Recomputing
      /\ copies' = (copies \ t.gone) \cup t.made
  BY DEF Commit, At, Recomputing
<1>2. Own(t, f, status, score)
  BY DEF Kept, Undisturbed, Mine
<1>3. score' = ScoreAfter(t, score)
  BY UpdatedIsWith DEF Commit, ScoreAfter
<1> HIDE DEF t
<1>4. CASE t.op = "cancel" \/ ~HasResult(score', f)
  <2>1. \A c \in t.made : Absent(f, c.results)
    BY <1>1, <1>2, <1>3, <1>4 DEF Own
  <2> QED
    BY <1>4, <2>1 DEF t, Absent
<1>5. CASE ~(t.op = "cancel" \/ ~HasResult(score', f))
  <2>1. \E c \in t.made : c.group = GroupOf[f] /\ <<f, score'[f]>> \in c.results
    BY <1>1, <1>2, <1>3, <1>5 DEF Own
  <2> QED
    BY <1>1, <1>5, <2>1 DEF t
<1> QED
  BY <1>4, <1>5

-----------------------------------------------------------------------------
(* The inductive invariant of the stored standings.                        *)
THEOREM Invariance == Spec => []Inv
<1>1. Init => Inv
  BY InitInv
<1>2. Inv /\ [Next]_vars => Inv'
  BY NextInv
<1> QED
  BY <1>1, <1>2, PTL DEF Spec

(* The tables and the sessions always have their types.                    *)
THEOREM TypeCorrectness == Spec => []TypeOK
<1>1. Inv => TypeOK
  BY DEF Inv
<1> QED
  BY <1>1, Invariance, PTL

(* Readers never find a group that has its standings without a table, and  *)
(* none has a table before it has standings (recompute_group_standings).   *)
THEOREM TablesStay == Spec => []NeverVanish
<1>1. Inv => NeverVanish
  BY DEF Inv
<1> QED
  BY <1>1, Invariance, PTL

(* What every session knows is as the invariant Kept has it.               *)
THEOREM Knowledge == Spec => []Kept
<1>1. Init => Kept
  BY InitKept
<1>2. Kept /\ [Next]_vars => Kept'
  BY NextKept
<1> QED
  BY <1>1, <1>2, PTL DEF Spec

(* A recomputation across which nobody else commits leaves every group     *)
(* with one table, that of the results of that moment, for any number of   *)
(* groups, fixtures and sessions, whatever the tables were before          *)
(* (recompute_sport_standings).                                            *)
THEOREM LoneRebuild == Spec => AloneRebuilds
<1> DEFINE Lone ==
      \A r \in Request :
        Commits(r) /\ txn[r].others = "none" /\ txn[r].made # {}
          => \A g \in Groups :
               {c \in copies' : c.group = g} =
                 {[group |-> g, by |-> r, results |-> Counted(status', score', g)]}
<1>1. Kept /\ [Next]_vars => Lone
  BY CommitsCommits, CommitAlone
<1> QED
  BY <1>1, Knowledge, PTL DEF Spec, AloneRebuilds

(* The result a request has just completed or corrected is in a table of   *)
(* its group when it is answered, if the fixture has a live row and both   *)
(* teams; otherwise, and if it is cancelled, it is in none the request has *)
(* made.  Whatever happens to other fixtures meanwhile (complete, correct  *)
(* and cancel with their recomputation).                                   *)
THEOREM OwnResult == Spec => OwnResultShown
<1> DEFINE Shown ==
      \A r \in Request : \A f \in Fixtures :
        LET shown == {c \in txn[r].made : \E s \in Scores : <<f, s>> \in c.results} IN
        Commits(r) /\ Mine(r, f) /\ txn[r].others # "here" /\ GroupOf[f] # NoGroup
          => IF txn[r].op = "cancel" \/ ~HasResult(score', f) THEN shown = {}
             ELSE \E c \in txn[r].made \cap copies' :
                    c.group = GroupOf[f] /\ <<f, score'[f]>> \in c.results
<1>1. Kept /\ [Next]_vars => Shown
  BY CommitsCommits, CommitOwn
<1> QED
  BY <1>1, Knowledge, PTL DEF Spec, OwnResultShown
=============================================================================

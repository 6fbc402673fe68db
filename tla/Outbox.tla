------------------------------- MODULE Outbox -------------------------------
(***************************************************************************)
(* What the notification tables promise, whoever works on them: an event   *)
(* is announced once; it is settled in one step with the record of all its *)
(* recipients, each of them recorded once for it; nothing is unsettled,    *)
(* and a record goes only with the recipient.                              *)
(***************************************************************************)
CONSTANTS Key, Sub

VARIABLES
  announced,    \* events there are
  settled,      \* events that have been dispatched
  told          \* <<event, recipient>> on record

Init == announced \subseteq Key /\ settled = announced /\ told = {}

Announce(K) ==
  /\ K # {} /\ K \cap announced = {}
  /\ announced' = announced \cup K
  /\ UNCHANGED <<settled, told>>

(* A second dispatch of an event may add recipients, never repeat one.     *)
Settle(k, S) ==
  /\ k \in announced
  /\ ({k} \X S) \cap told = {}
  /\ settled' = settled \cup {k}
  /\ told' = told \cup ({k} \X S)
  /\ UNCHANGED announced

Forget(S) ==
  /\ told' = told \ (Key \X S)
  /\ UNCHANGED <<announced, settled>>

Next ==
  \/ \E K \in SUBSET Key : Announce(K)
  \/ \E k \in Key, S \in SUBSET Sub : Settle(k, S)
  \/ \E S \in SUBSET Sub : Forget(S)

Spec == Init /\ [][Next]_<<announced, settled, told>>
=============================================================================

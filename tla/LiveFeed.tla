------------------------------ MODULE LiveFeed ------------------------------
(***************************************************************************)
(* What the live feed promises: there is one order of the events for the   *)
(* whole service, and every client receives a gapless piece of it (of the  *)
(* events in its room), whichever instance it is connected to.             *)
(***************************************************************************)
EXTENDS Naturals, Sequences, FiniteSetsExt, SequencesExt

CONSTANTS
  Event, Client,
  Live,         \* the room of the global feed
  RoomOf,       \* the room of each client: Live, or that of a fixture
  FixtureOf     \* the fixture of each event, if it has one

VARIABLES
  log,          \* the events, in their order
  got           \* what each client has received

Hears(c, e) == RoomOf[c] \in {Live, FixtureOf[e]}

Init == log = <<>> /\ got = [c \in Client |-> <<>>]

Announce == \E e \in Event \ Range(log) :
  log' = Append(log, e) /\ UNCHANGED got

(* The n-th event is the next one for c: the one before it in its room is  *)
(* the last c has received, or c has received none yet.                    *)
NextFor(c, n) ==
  LET before == {i \in 1..(n - 1) : Hears(c, log[i])} IN
  /\ Hears(c, log[n])
  /\ got[c] # <<>> => before # {} /\ log[Max(before)] = Last(got[c])

Receive(c) == \E n \in DOMAIN log :
  /\ NextFor(c, n)
  /\ got' = [got EXCEPT ![c] = Append(@, log[n])]
  /\ UNCHANGED log

Next == Announce \/ \E c \in Client : Receive(c)

Spec == Init /\ [][Next]_<<log, got>>
=============================================================================

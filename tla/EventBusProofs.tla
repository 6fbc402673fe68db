--------------------------- MODULE EventBusProofs ---------------------------
(***************************************************************************)
(* The sockets of the live feed for every number of instances, clients and *)
(* events: a client that is connected stays in its room.                   *)
(*                                                                         *)
(* The argument: a broadcast takes out only sockets it has found dead, and *)
(* a socket that is dead never comes back to life; a socket that has not   *)
(* joined is in no room, and so the target of no broadcast.                *)
(***************************************************************************)
EXTENDS EventBus, TLAPS

(* The dead are dead, and the targets have joined.                         *)
BroadcastsOK ==
  \A b \in broadcasts :
    /\ \A c \in b.targets : conn[c] # "outside"
    /\ \A c \in b.dead : conn[c] \in {"broken", "lost", "closed"}

JoinedFirst == \A c \in members : conn[c] # "outside"

Inv == TypeOK /\ BroadcastsOK /\ JoinedFirst /\ NobodyDropped

-----------------------------------------------------------------------------
LEMMA InitInv == Init => Inv
<1> SUFFICES ASSUME Init PROVE Inv
  OBVIOUS
<1>1. <<>> \in Seq(Event)
  OBVIOUS
<1>2. TypeOK
  BY <1>1, OutageAssumption DEF Init, TypeOK, TaskState, ConnState
<1> QED
  BY <1>2 DEF Init, Inv, BroadcastsOK, JoinedFirst, NobodyDropped, Connected

(* Steps of instances and of Redis: no socket, no broadcast.               *)
LEMMA BusInv ==
  ASSUME Inv, UNCHANGED sockets, TypeOK'
  PROVE  Inv'
BY DEF Inv, sockets, BroadcastsOK, JoinedFirst, NobodyDropped, Connected

LEMMA InstanceInv ==
  ASSUME Inv, NEW i \in Instance, Start(i) \/ Subscribe(i) \/ ListenAgain(i)
  PROVE  Inv'
<1>1. UNCHANGED <<redis, outages, published, log, sockets>>
  BY DEF Start, Subscribe, ListenAgain
<1>2. PICK state \in TaskState : subscriber' = [subscriber EXCEPT ![i] = state]
  BY DEF Start, Subscribe, ListenAgain, TaskState
<1>3. inbox' \in [Instance -> Seq(Event)]
  <2>1. <<>> \in Seq(Event)
    OBVIOUS
  <2> QED
    BY <2>1 DEF Start, Subscribe, ListenAgain, Inv, TypeOK
<1>4. TypeOK'
  BY <1>1, <1>2, <1>3 DEF Inv, TypeOK, sockets
<1> QED
  BY <1>1, <1>4, BusInv

LEMMA RedisInv ==
  ASSUME Inv, Outage \/ Recover
  PROVE  Inv'
<1>1. TypeOK'
  BY OutageAssumption DEF Outage, Recover, Inv, TypeOK, TaskState, sockets
<1> QED
  BY <1>1, BusInv DEF Outage, Recover

(* A new broadcast goes to the members of a room.                          *)
LEMMA BeginInv ==
  ASSUME Inv, NEW i \in Instance, NEW e \in Event, NEW by \in {"subscriber", "request"},
         broadcasts' \subseteq broadcasts \cup
           {[on |-> i, by |-> by, event |-> e, targets |-> Room(i, e), dead |-> {}]},
         UNCHANGED <<members, conn, got>>,
         redis' \in {"up", "down"}, outages' \in 0 .. MaxOutages,
         subscriber' \in [Instance -> TaskState], inbox' \in [Instance -> Seq(Event)],
         published' \subseteq Event, log' \in Seq(Event)
  PROVE  Inv'
<1> DEFINE b == [on |-> i, by |-> by, event |-> e, targets |-> Room(i, e), dead |-> {}]
<1>1. Room(i, e) \subseteq members
  BY DEF Room
<1>2. /\ b \in Broadcast /\ b.targets \subseteq members /\ b.dead = {}
  BY <1>1 DEF Broadcast, Inv, TypeOK
<1>3. broadcasts' \subseteq broadcasts \cup {b}
  OBVIOUS
<1> HIDE DEF b
<1>4. TypeOK'
  BY <1>2, <1>3 DEF Inv, TypeOK
<1>5. BroadcastsOK'
  BY <1>2, <1>3 DEF Inv, BroadcastsOK, JoinedFirst
<1>6. JoinedFirst' /\ NobodyDropped'
  BY DEF Inv, JoinedFirst, NobodyDropped, Connected
<1> QED
  BY <1>4, <1>5, <1>6 DEF Inv

LEMMA RelayInv ==
  ASSUME Inv, NEW i \in Instance, Relay(i)
  PROVE  Inv'
<1>1. inbox[i] \in Seq(Event) /\ inbox[i] # <<>>
  BY DEF Relay, Inv, TypeOK
<1>2. Head(inbox[i]) \in Event /\ Tail(inbox[i]) \in Seq(Event)
  BY <1>1
<1>3. inbox' \in [Instance -> Seq(Event)]
  BY <1>2 DEF Relay, Inv, TypeOK
<1> QED
  BY <1>2, <1>3, BeginInv DEF Relay, Begin, Inv, TypeOK

LEMMA PublishInv ==
  ASSUME Inv, NEW i \in Instance, NEW e \in Event, Publish(i, e)
  PROVE  Inv'
<1>1. /\ UNCHANGED <<redis, subscriber, members, conn, got>>
      /\ published' = published \cup {e}
  BY DEF Publish
<1>2. Taken(e) => log' \in Seq(Event) /\ inbox' \in [Instance -> Seq(Event)]
  BY DEF Taken, Inv, TypeOK
<1>3. UNCHANGED <<inbox, log>> => log' \in Seq(Event) /\ inbox' \in [Instance -> Seq(Event)]
  BY DEF Inv, TypeOK
<1>4. log' \in Seq(Event) /\ inbox' \in [Instance -> Seq(Event)]
  BY <1>2, <1>3 DEF Publish
<1>5. outages' \in 0 .. MaxOutages
  BY OutageAssumption DEF Publish, Inv, TypeOK
<1>6. broadcasts' \subseteq broadcasts \cup
        {[on |-> i, by |-> "request", event |-> e, targets |-> Room(i, e), dead |-> {}]}
  BY DEF Publish, Begin
<1> QED
  BY <1>1, <1>4, <1>5, <1>6, BeginInv DEF Inv, TypeOK

(* A send finds dead only who is gone, and tells only who is there.        *)
LEMMA SendInv ==
  ASSUME Inv, NEW b \in broadcasts, NEW c \in Client, Send(b, c)
  PROVE  Inv'
<1>1. b \in Broadcast /\ c \in b.targets /\ UNCHANGED <<bus, members, conn>>
  BY DEF Send, Inv, TypeOK
<1>2. PICK dead \in {{}, {c}} : Goes(b, c, dead) /\ (dead = {c} => ~Connected(c))
  BY DEF Send
<1> DEFINE d == [b EXCEPT !.targets = @ \ {c}, !.dead = @ \cup dead]
<1>3. d \in Broadcast /\ d.targets = b.targets \ {c} /\ d.dead = b.dead \cup dead
  BY <1>1, <1>2 DEF Broadcast
<1>4. broadcasts' = (broadcasts \ {b}) \cup {d}
  BY <1>2 DEF Goes
<1> HIDE DEF d
<1>5. conn[c] \in ConnState /\ conn[c] # "outside"
  BY <1>1 DEF Inv, TypeOK, BroadcastsOK
<1>6. dead = {c} => conn[c] \in {"broken", "lost", "closed"}
  BY <1>2, <1>5 DEF Connected, ConnState
<1>7. got' \in [Client -> Seq(Event)]
  <2>1. b.event \in Event
    BY <1>1 DEF Broadcast
  <2>2. got \in [Client -> Seq(Event)] /\ Append(got[c], b.event) \in Seq(Event)
    BY <2>1 DEF Inv, TypeOK
  <2>3. got' = got \/ got' = [got EXCEPT ![c] = Append(@, b.event)]
    BY DEF Send
  <2> QED
    BY <2>2, <2>3
<1>8. TypeOK'
  BY <1>1, <1>3, <1>4, <1>7 DEF Inv, TypeOK, bus
<1>9. BroadcastsOK'
  BY <1>1, <1>2, <1>3, <1>4, <1>6 DEF Inv, BroadcastsOK
<1>10. JoinedFirst' /\ NobodyDropped'
  BY <1>1 DEF Inv, JoinedFirst, NobodyDropped, Connected
<1> QED
  BY <1>8, <1>9, <1>10 DEF Inv

LEMMA EndInv ==
  ASSUME Inv, NEW b \in broadcasts, End(b)
  PROVE  Inv'
<1>1. /\ members' = members \ b.dead /\ broadcasts' = broadcasts \ {b}
      /\ UNCHANGED <<bus, conn, got>>
  BY DEF End
<1>2. TypeOK'
  BY <1>1 DEF Inv, TypeOK, bus
<1>3. BroadcastsOK' /\ JoinedFirst'
  BY <1>1 DEF Inv, BroadcastsOK, JoinedFirst
<1>4. NobodyDropped'
  BY <1>1 DEF Inv, NobodyDropped, BroadcastsOK, Connected
<1> QED
  BY <1>2, <1>3, <1>4 DEF Inv

LEMMA HandlerInv ==
  ASSUME Inv, NEW c \in Client, Handler(c)
  PROVE  Inv'
<1>1. UNCHANGED <<bus, broadcasts, got>>
  BY DEF Handler, Join, Ready, Vanish, Leave
<1>2. PICK state \in {"joined", "open", "broken", "lost", "closed"} :
        /\ conn' = [conn EXCEPT ![c] = state]
        /\ conn[c] \in {"broken", "lost", "closed"} => state = "closed"
  BY DEF Handler, Join, Ready, Vanish, Leave, Connected
<1>3. /\ members' \in {members, members \cup {c}, members \ {c}}
      /\ c \notin members' => c \notin members \/ conn'[c] = "closed"
      /\ conn[c] = "outside" => c \in members'
  BY DEF Handler, Join, Ready, Vanish, Leave, Connected, Inv, TypeOK
<1>4. conn \in [Client -> ConnState]
  BY DEF Inv, TypeOK
<1>5. TypeOK'
  BY <1>1, <1>2, <1>3 DEF Inv, TypeOK, bus, ConnState
<1>6. BroadcastsOK'
  BY <1>1, <1>2, <1>4 DEF Inv, BroadcastsOK
<1>7. JoinedFirst'
  BY <1>2, <1>3, <1>4 DEF Inv, JoinedFirst
<1>8. NobodyDropped'
  <2> SUFFICES ASSUME NEW d \in Client, Connected(d)' PROVE d \in members'
    BY DEF NobodyDropped
  <2>1. CASE d # c
    BY <1>2, <1>3, <1>4, <2>1 DEF Inv, NobodyDropped, Connected
  <2>2. CASE d = c
    BY <1>2, <1>3, <1>4, <2>2 DEF Inv, NobodyDropped, Connected, ConnState
  <2> QED
    BY <2>1, <2>2
<1> QED
  BY <1>5, <1>6, <1>7, <1>8 DEF Inv

(* The inductive invariant holds of any number of instances and clients:   *)
(* rooms, sockets and broadcasts agree (manager.py, ws.py, events.py).     *)
THEOREM Invariance == Spec => []Inv
<1>1. ASSUME Inv, Next PROVE Inv'
  <2>1. ASSUME NEW i \in Instance, Deliver(i) PROVE Inv'
    BY <1>1, <2>1, RelayInv, SendInv, EndInv DEF Deliver
  <2>2. CASE Quiet
    BY <1>1, <2>2 DEF Quiet, vars, bus, sockets, Inv, TypeOK, BroadcastsOK, JoinedFirst,
                      NobodyDropped, Connected
  <2> QED
    BY <1>1, <2>1, <2>2, InstanceInv, RedisInv, PublishInv, HandlerInv DEF Next
<1>2. Inv /\ UNCHANGED vars => Inv'
  BY DEF vars, bus, sockets, Inv, TypeOK, BroadcastsOK, JoinedFirst, NobodyDropped, Connected
<1> QED
  BY InitInv, <1>1, <1>2, PTL DEF Spec

(* The feed stays well formed whatever breaks: only sockets that are known *)
(* are members of a room (manager.py, ws.py).                              *)
THEOREM TypeCorrectness == Spec => []TypeOK
BY Invariance, PTL DEF Inv

(* No broadcast, and no other client that joins, breaks or leaves, takes a *)
(* connected client out of its room (manager.py).                          *)
THEOREM NobodyIsDropped == Spec => []NobodyDropped
BY Invariance, PTL DEF Inv

-----------------------------------------------------------------------------
(* One feed, as long as Redis and the connections to it stay up.           *)
(*                                                                         *)
(* The inbox of an instance that listens is the end of the log; the rest   *)
(* of the log has gone through its relay, one broadcast at a time.  So the *)
(* last event a client has received is the last one of its room before     *)
(* that point, or before the broadcast that it is still a target of.       *)

Stays == MaxOutages = 0 /\ RedisAtStart = {"up"}

Relayed(i) == Len(log) - Len(inbox[i])
Aimed(c) == \E b \in broadcasts : c \in b.targets
Seen(c) == IF Aimed(c) THEN Relayed(HomeOf[c]) - 1 ELSE Relayed(HomeOf[c])

Up ==
  /\ redis = "up" /\ outages = 0
  /\ \A i \in Instance : subscriber[i] \in {"new", "starting", "listening"}
  /\ \A n \in 1 .. Len(log) : log[n] \in published

InboxOK(i) ==
  IF subscriber[i] = "listening"
  THEN /\ Len(inbox[i]) <= Len(log)
       /\ \A k \in 1 .. Len(inbox[i]) : inbox[i][k] = log[Relayed(i) + k]
  ELSE inbox[i] = <<>>

RelayOK(b) ==
  /\ subscriber[b.on] = "listening" /\ b.by = "subscriber"
  /\ Relayed(b.on) >= 1 /\ b.event = log[Relayed(b.on)]
  /\ \A c \in b.targets : HomeOf[c] = b.on /\ Hears(c, b.event)
  /\ \A d \in broadcasts : d.on = b.on => d = b

Follows(c) ==
  \E m \in 1 .. Seen(c) :
    /\ Hears(c, log[m]) /\ log[m] = got[c][Len(got[c])]
    /\ \A j \in m + 1 .. Seen(c) : ~Hears(c, log[j])

ClientOK(c) ==
  got[c] # <<>> =>
    /\ conn[c] # "outside" /\ subscriber[HomeOf[c]] = "listening"
    /\ Connected(c) => Follows(c)

FeedInv ==
  /\ Inv /\ Up
  /\ \A i \in Instance : InboxOK(i)
  /\ \A b \in broadcasts : RelayOK(b)
  /\ \A c \in Client : ClientOK(c)

FeedStep == Feed!Next \/ UNCHANGED <<log, got>>

LEMMA InitFeed == ASSUME Stays PROVE Init => FeedInv /\ Feed!Init
<1> SUFFICES ASSUME Init PROVE FeedInv /\ Feed!Init
  OBVIOUS
<1>1. Up
  BY DEF Stays, Init, Up
<1>2. \A i \in Instance : InboxOK(i)
  BY DEF Init, InboxOK
<1>3. \A c \in Client : ClientOK(c)
  BY DEF Init, ClientOK
<1>4. Feed!Init
  BY DEF Init, Feed!Init
<1> QED
  BY InitInv, <1>1, <1>2, <1>3, <1>4 DEF FeedInv, Init

(* Nothing happens to Redis.                                               *)
LEMMA CalmFeed ==
  ASSUME Stays, FeedInv PROVE ~Outage /\ ~Recover
BY DEF Stays, FeedInv, Up, Outage, Recover

LEMMA StartFeed ==
  ASSUME FeedInv, Inv', NEW i \in Instance, Start(i) \/ Subscribe(i)
  PROVE  FeedInv'
<1>1. /\ UNCHANGED <<redis, outages, inbox, published, log, members, conn, broadcasts, got>>
      /\ subscriber[i] # "listening"
  BY DEF Start, Subscribe, sockets
<1>2. PICK state \in {"starting", "listening"} :
        subscriber' = [subscriber EXCEPT ![i] = state]
  BY DEF Start, Subscribe, FeedInv, Up
<1>3. subscriber \in [Instance -> TaskState]
  BY DEF FeedInv, Inv, TypeOK
<1>4. \A j \in Instance : subscriber[j] = "listening" => subscriber'[j] = "listening"
  BY <1>1, <1>2, <1>3
<1>5. Up'
  BY <1>1, <1>2, <1>3 DEF FeedInv, Up
<1>6. ASSUME NEW j \in Instance PROVE InboxOK(j)'
  <2>1. CASE j # i
    BY <1>1, <1>2, <1>3, <2>1 DEF FeedInv, InboxOK, Relayed
  <2>2. CASE j = i
    <3>1. inbox[i] = <<>> /\ Len(inbox[i]) = 0 /\ log \in Seq(Event)
      BY <1>1 DEF FeedInv, InboxOK, Inv, TypeOK
    <3> QED
      BY <1>1, <2>2, <3>1 DEF InboxOK, Relayed
  <2> QED
    BY <2>1, <2>2
<1>7. ASSUME NEW b \in broadcasts PROVE RelayOK(b)'
  <2>1. b.on \in Instance
    BY DEF FeedInv, Inv, TypeOK, Broadcast
  <2> QED
    BY <1>1, <1>4, <2>1 DEF FeedInv, RelayOK, Relayed, Hears
<1>8. ASSUME NEW c \in Client PROVE ClientOK(c)'
  <2>1. Follows(c) => Follows(c)'
    BY <1>1 DEF Follows, Seen, Aimed, Relayed, Hears
  <2>2. Connected(c)' <=> Connected(c)
    BY <1>1 DEF Connected
  <2> QED
    BY <1>1, <1>4, <2>1, <2>2, HomeAssumption DEF FeedInv, ClientOK
<1> QED
  BY <1>1, <1>5, <1>6, <1>7, <1>8 DEF FeedInv

(* Redis takes an event: every log and inbox of a listener grows by it.    *)
LEMMA PublishFeed ==
  ASSUME Stays, FeedInv, Inv', NEW i \in Instance, NEW e \in Event, Publish(i, e)
  PROVE  FeedInv' /\ FeedStep
<1>1. /\ redis = "up" /\ outages = 0 /\ MaxOutages = 0
      /\ \A j \in Instance : subscriber[j] \in {"new", "starting", "listening"}
  BY DEF Stays, FeedInv, Up
<1>2. /\ Taken(e) /\ e \notin published /\ published' = published \cup {e}
      /\ UNCHANGED <<redis, outages, subscriber, members, conn, broadcasts, got>>
  BY <1>1 DEF Publish
<1>3. /\ log \in Seq(Event) /\ log' = Append(log, e) /\ Len(log) \in Nat
      /\ inbox \in [Instance -> Seq(Event)]
  BY <1>2 DEF Taken, FeedInv, Inv, TypeOK
<1>4. /\ Len(log') = Len(log) + 1 /\ log'[Len(log) + 1] = e
      /\ \A n \in 1 .. Len(log) : log'[n] = log[n]
  BY <1>3
<1>5. Up'
  BY <1>1, <1>2, <1>3, <1>4 DEF FeedInv, Up
<1>6. \A j \in Instance : subscriber[j] = "listening" =>
        /\ inbox'[j] = Append(inbox[j], e) /\ Len(inbox'[j]) = Len(inbox[j]) + 1
        /\ Len(inbox[j]) \in Nat /\ Len(inbox[j]) <= Len(log)
        /\ Relayed(j)' = Relayed(j) /\ Relayed(j) \in 0 .. Len(log)
  <2> SUFFICES ASSUME NEW j \in Instance, subscriber[j] = "listening"
               PROVE  /\ inbox'[j] = Append(inbox[j], e) /\ Len(inbox'[j]) = Len(inbox[j]) + 1
                      /\ Len(inbox[j]) \in Nat /\ Len(inbox[j]) <= Len(log)
                      /\ Relayed(j)' = Relayed(j) /\ Relayed(j) \in 0 .. Len(log)
    OBVIOUS
  <2>1. inbox[j] \in Seq(Event) /\ inbox'[j] = Append(inbox[j], e)
    BY <1>2, <1>3 DEF Taken
  <2>2. Len(inbox'[j]) = Len(inbox[j]) + 1 /\ Len(inbox[j]) \in Nat
    BY <2>1
  <2>3. Len(inbox[j]) <= Len(log)
    BY DEF FeedInv, InboxOK
  <2> QED
    BY <1>3, <1>4, <2>1, <2>2, <2>3 DEF Relayed
<1>7. ASSUME NEW j \in Instance PROVE InboxOK(j)'
  <2>1. CASE subscriber[j] = "listening"
    <3>1. \A k \in 1 .. Len(inbox[j]) :
            inbox'[j][k] = inbox[j][k] /\ inbox[j][k] = log[Relayed(j) + k]
      BY <1>3, <1>6, <2>1 DEF FeedInv, InboxOK
    <3>2. inbox'[j][Len(inbox[j]) + 1] = e
      BY <1>3, <1>6, <2>1
    <3>3. \A k \in 1 .. Len(inbox[j]) :
            Relayed(j) + k \in 1 .. Len(log) /\ log'[Relayed(j) + k] = log[Relayed(j) + k]
      BY <1>3, <1>4, <1>6, <2>1 DEF Relayed
    <3>4. Relayed(j) + Len(inbox[j]) + 1 = Len(log) + 1
      BY <1>3, <1>6, <2>1 DEF Relayed
    <3>5. \A k \in 1 .. Len(inbox[j]) + 1 : inbox'[j][k] = log'[Relayed(j) + k]
      BY <1>3, <1>4, <1>6, <2>1, <3>1, <3>2, <3>3, <3>4
    <3> QED
      BY <1>2, <1>4, <1>6, <2>1, <3>5 DEF InboxOK
  <2>2. CASE subscriber[j] # "listening"
    BY <1>2, <2>2 DEF Taken, FeedInv, InboxOK
  <2> QED
    BY <2>1, <2>2
<1>8. ASSUME NEW b \in broadcasts PROVE RelayOK(b)'
  <2>1. b.on \in Instance /\ subscriber[b.on] = "listening" /\ RelayOK(b)
    BY DEF FeedInv, Inv, TypeOK, Broadcast, RelayOK
  <2>2. Relayed(b.on)' = Relayed(b.on) /\ Relayed(b.on) \in 1 .. Len(log)
    BY <1>6, <2>1 DEF RelayOK
  <2>3. log'[Relayed(b.on)] = log[Relayed(b.on)]
    BY <1>4, <2>2
  <2> QED
    BY <1>2, <2>1, <2>2, <2>3 DEF RelayOK, Hears
<1>9. ASSUME NEW c \in Client, got[c] # <<>>, Connected(c) PROVE Follows(c)'
  <2>1. subscriber[HomeOf[c]] = "listening" /\ Follows(c)
    BY <1>9 DEF FeedInv, ClientOK
  <2>2. Seen(c)' = Seen(c) /\ Seen(c) \in Int /\ Seen(c) <= Len(log)
    BY <1>2, <1>3, <1>6, <2>1, HomeAssumption DEF Seen, Aimed
  <2>3. \A n \in 1 .. Seen(c) : log'[n] = log[n]
    BY <1>3, <1>4, <2>2
  <2>4. PICK m \in 1 .. Seen(c) :
          /\ Hears(c, log[m]) /\ log[m] = got[c][Len(got[c])]
          /\ \A j \in m + 1 .. Seen(c) : ~Hears(c, log[j])
    BY <2>1 DEF Follows
  <2>5. /\ Hears(c, log'[m]) /\ log'[m] = got'[c][Len(got'[c])]
        /\ \A j \in m + 1 .. Seen(c) : ~Hears(c, log'[j])
    BY <1>2, <2>2, <2>3, <2>4
  <2> QED
    BY <2>2, <2>5 DEF Follows, Hears
<1>10. ASSUME NEW c \in Client PROVE ClientOK(c)'
  BY <1>2, <1>9 DEF FeedInv, ClientOK, Connected
<1>11. Feed!Announce
  <2>1. \A n \in DOMAIN log : log[n] # e
    BY <1>2, <1>3 DEF FeedInv, Up
  <2>2. e \notin Feed!Range(log)
    BY <2>1 DEF Feed!Range
  <2> QED
    BY <1>2, <1>3, <2>2 DEF Feed!Announce
<1> QED
  BY <1>2, <1>5, <1>7, <1>8, <1>10, <1>11 DEF FeedInv, FeedStep, Feed!Next

(* The oldest message of an inbox goes out; nobody of the instance is      *)
(* still owed the one before, and who is connected is in the room.         *)
LEMMA RelayFeed ==
  ASSUME FeedInv, Inv', NEW i \in Instance, Relay(i)
  PROVE  FeedInv'
<1> DEFINE e == Head(inbox[i])
           new == [on |-> i, by |-> "subscriber", event |-> e, targets |-> Room(i, e),
                   dead |-> {}]
<1>1. /\ subscriber[i] = "listening" /\ inbox[i] # <<>> /\ ~Relaying(i)
      /\ broadcasts' = broadcasts \cup {new}
      /\ inbox' = [inbox EXCEPT ![i] = Tail(@)]
      /\ UNCHANGED <<redis, outages, subscriber, published, log, members, conn, got>>
  BY DEF Relay, Begin, FeedInv, Up
<1>2. /\ log \in Seq(Event) /\ Len(log) \in Nat
      /\ inbox \in [Instance -> Seq(Event)] /\ inbox[i] \in Seq(Event)
      /\ Len(inbox[i]) \in Nat
  BY DEF FeedInv, Inv, TypeOK
<1>3. /\ e = inbox[i][1] /\ Len(inbox[i]) >= 1
      /\ inbox'[i] = Tail(inbox[i]) /\ Len(inbox'[i]) = Len(inbox[i]) - 1
      /\ \A k \in 1 .. Len(inbox[i]) - 1 : inbox'[i][k] = inbox[i][k + 1]
  BY <1>1, <1>2
<1>4. /\ Len(inbox[i]) <= Len(log)
      /\ \A k \in 1 .. Len(inbox[i]) : inbox[i][k] = log[Relayed(i) + k]
  BY <1>1 DEF FeedInv, InboxOK
<1>5. /\ Relayed(i) \in Nat /\ Relayed(i)' = Relayed(i) + 1
      /\ e = log[Relayed(i) + 1]
  BY <1>1, <1>2, <1>3, <1>4 DEF Relayed
<1>6. \A j \in Instance \ {i} : inbox'[j] = inbox[j] /\ Relayed(j)' = Relayed(j)
  BY <1>1, <1>2 DEF Relayed
<1>7. \A b \in broadcasts : b.on \in Instance \ {i}
  BY <1>1 DEF FeedInv, RelayOK, Relaying, Inv, TypeOK, Broadcast
<1>8. /\ new.on = i /\ new.by = "subscriber" /\ new.event = e
      /\ new.targets = {c \in members : HomeOf[c] = i /\ Hears(c, e)}
  BY DEF Room
<1> HIDE DEF new, e
<1>9. Up'
  BY <1>1 DEF FeedInv, Up
<1>10. ASSUME NEW j \in Instance PROVE InboxOK(j)'
  <2>1. CASE j = i
    <3>1. \A k \in 1 .. Len(inbox'[i]) : inbox'[i][k] = log[Relayed(i) + 1 + k]
      <4> TAKE k \in 1 .. Len(inbox'[i])
      <4>1. k + 1 \in 1 .. Len(inbox[i]) /\ inbox'[i][k] = inbox[i][k + 1]
        BY <1>2, <1>3
      <4>2. inbox[i][k + 1] = log[Relayed(i) + (k + 1)]
        BY <1>4, <4>1
      <4> QED
        BY <1>5, <4>1, <4>2
    <3> QED
      BY <1>1, <1>2, <1>3, <1>4, <1>5, <2>1, <3>1 DEF InboxOK
  <2>2. CASE j # i
    BY <1>1, <1>6, <2>2 DEF FeedInv, InboxOK
  <2> QED
    BY <2>1, <2>2
<1>11. ASSUME NEW b \in broadcasts' PROVE RelayOK(b)'
  <2>1. CASE b \in broadcasts
    <3>1. b.on \in Instance \ {i} /\ RelayOK(b)
      BY <1>7, <2>1 DEF FeedInv
    <3>2. Relayed(b.on)' = Relayed(b.on)
      BY <1>6, <3>1
    <3> QED
      BY <1>1, <1>8, <3>1, <3>2 DEF RelayOK, Hears
  <2>2. CASE b = new
    <3>1. \A d \in broadcasts' : d.on = i => d = new
      BY <1>1, <1>7
    <3>2. Relayed(i)' >= 1 /\ e = log[Relayed(i)']
      BY <1>5
    <3> QED
      BY <1>1, <1>8, <2>2, <3>1, <3>2 DEF RelayOK, Hears
  <2> QED
    BY <1>1, <2>1, <2>2
<1>12. ASSUME NEW c \in Client, got[c] # <<>>, Connected(c) PROVE Follows(c)'
  <2>1. Follows(c) /\ c \in members
    BY <1>12 DEF FeedInv, ClientOK, Inv, NobodyDropped
  <2>2. CASE HomeOf[c] # i
    <3>1. Aimed(c)' <=> Aimed(c)
      BY <1>1, <1>8, <2>2 DEF Aimed
    <3>2. Seen(c)' = Seen(c)
      BY <1>6, <2>2, <3>1, HomeAssumption DEF Seen
    <3> QED
      BY <1>1, <2>1, <3>2 DEF Follows, Hears
  <2>3. CASE HomeOf[c] = i
    <3>1. ~Aimed(c)
      BY <1>7, <2>3 DEF Aimed, FeedInv, RelayOK
    <3>2. Seen(c) = Relayed(i)
      BY <2>3, <3>1 DEF Seen
    <3>3. CASE Hears(c, e)
      <4>1. Aimed(c)'
        BY <1>1, <1>8, <2>1, <2>3, <3>3 DEF Aimed
      <4>2. Seen(c)' = Seen(c)
        BY <1>5, <2>3, <3>2, <4>1 DEF Seen
      <4> QED
        BY <1>1, <2>1, <4>2 DEF Follows, Hears
    <3>4. CASE ~Hears(c, e)
      <4>1. ~Aimed(c)'
        BY <1>1, <1>8, <3>1, <3>4 DEF Aimed
      <4>2. Seen(c)' = Seen(c) + 1 /\ Seen(c) \in Nat
        BY <1>5, <2>3, <3>2, <4>1 DEF Seen
      <4>3. PICK m \in 1 .. Seen(c) :
              /\ Hears(c, log[m]) /\ log[m] = got[c][Len(got[c])]
              /\ \A j \in m + 1 .. Seen(c) : ~Hears(c, log[j])
        BY <2>1 DEF Follows
      <4>4. \A j \in m + 1 .. Seen(c) + 1 : ~Hears(c, log[j])
        BY <1>5, <3>2, <3>4, <4>2, <4>3
      <4> QED
        BY <1>1, <4>2, <4>3, <4>4 DEF Follows, Hears
    <3> QED
      BY <3>3, <3>4
  <2> QED
    BY <2>2, <2>3
<1>13. ASSUME NEW c \in Client PROVE ClientOK(c)'
  BY <1>1, <1>12 DEF FeedInv, ClientOK, Connected
<1> QED
  BY <1>9, <1>10, <1>11, <1>13 DEF FeedInv

(* A client receives the event that its instance relays: the next one of   *)
(* its room.                                                               *)
LEMMA SendFeed ==
  ASSUME FeedInv, Inv', NEW b \in broadcasts, NEW c \in Client, Send(b, c)
  PROVE  FeedInv' /\ FeedStep
<1>1. /\ b \in Broadcast /\ b.on \in Instance /\ c \in b.targets
      /\ UNCHANGED <<bus, members, conn>>
  BY DEF Send, FeedInv, Inv, TypeOK, Broadcast
<1>2. UNCHANGED <<redis, outages, subscriber, inbox, published, log>>
  BY <1>1 DEF bus
<1>3. PICK dead \in {{}, {c}} : Goes(b, c, dead)
  BY DEF Send
<1> DEFINE new == [b EXCEPT !.targets = @ \ {c}, !.dead = @ \cup dead]
<1>4. /\ new.on = b.on /\ new.by = b.by /\ new.event = b.event
      /\ new.targets = b.targets \ {c}
  BY <1>1 DEF Broadcast
<1>5. broadcasts' = (broadcasts \ {b}) \cup {new}
  BY <1>3 DEF Goes
<1> HIDE DEF new
<1>6. RelayOK(b) /\ \A d \in broadcasts : d.on = b.on => d = b
  BY DEF FeedInv, RelayOK
<1>7. HomeOf[c] = b.on /\ Hears(c, b.event) /\ Aimed(c)
  BY <1>1, <1>6 DEF RelayOK, Aimed
<1>8. ~Aimed(c)'
  <2> SUFFICES ASSUME NEW d \in broadcasts', c \in d.targets PROVE FALSE
    BY DEF Aimed
  <2>1. CASE d = new
    BY <1>4, <2>1
  <2>2. CASE d \in broadcasts \ {b}
    <3>1. d.on = b.on
      BY <1>7, <2>2 DEF FeedInv, RelayOK
    <3> QED
      BY <1>6, <2>2, <3>1
  <2> QED
    BY <1>5, <2>1, <2>2
<1>9. \A x \in Client \ {c} : Aimed(x)' <=> Aimed(x)
  BY <1>4, <1>5 DEF Aimed
<1>10. \A j \in Instance : Relayed(j)' = Relayed(j)
  BY <1>2 DEF Relayed
<1> DEFINE n == Relayed(b.on)
<1>11. /\ n \in 1 .. Len(log) /\ b.event = log[n] /\ Len(log) \in Nat
       /\ subscriber[b.on] = "listening"
  <2>1. Len(inbox[b.on]) \in Nat /\ Len(log) \in Nat
    BY <1>1 DEF FeedInv, Inv, TypeOK
  <2> QED
    BY <1>6, <2>1 DEF RelayOK, Relayed
<1>12. Seen(c) = n - 1 /\ Seen(c)' = n
  BY <1>1, <1>7, <1>8, <1>10 DEF Seen
<1>13. Up' /\ \A j \in Instance : InboxOK(j)'
  BY <1>2 DEF FeedInv, Up, InboxOK, Relayed
<1>14. ASSUME NEW d \in broadcasts' PROVE RelayOK(d)'
  <2>1. \A x \in broadcasts' : x = new \/ (x \in broadcasts /\ x # b)
    BY <1>5
  <2>2. CASE d = new
    BY <1>2, <1>4, <1>6, <1>10, <2>1, <2>2 DEF RelayOK, Hears, Relayed
  <2>3. CASE d \in broadcasts /\ d # b
    <3>1. RelayOK(d) /\ d.on # b.on
      BY <1>6, <2>3 DEF FeedInv
    <3> QED
      BY <1>2, <1>4, <2>1, <2>3, <3>1 DEF RelayOK, Hears, Relayed
  <2> QED
    BY <2>1, <2>2, <2>3
<1>15. ASSUME NEW x \in Client \ {c} PROVE ClientOK(x)'
  <2>1. got'[x] = got[x]
    BY DEF Send, FeedInv, Inv, TypeOK
  <2>2. Seen(x)' = Seen(x)
    BY <1>9, <1>10, HomeAssumption DEF Seen
  <2> QED
    BY <1>1, <1>2, <2>1, <2>2 DEF FeedInv, ClientOK, Follows, Connected, Hears
<1>16. CASE UNCHANGED got /\ ~Connected(c)
  <2>1. ClientOK(c)'
    BY <1>1, <1>2, <1>16 DEF FeedInv, ClientOK, Connected
  <2> QED
    BY <1>2, <1>13, <1>14, <1>15, <1>16, <2>1 DEF FeedInv, FeedStep
<1>17. CASE got' = [got EXCEPT ![c] = Append(@, b.event)] /\ Connected(c)
  <2>1. b.event \in Event /\ got \in [Client -> Seq(Event)] /\ got[c] \in Seq(Event)
    BY <1>1 DEF FeedInv, Inv, TypeOK, Broadcast
  <2>2. /\ got'[c] = Append(got[c], b.event) /\ got'[c] # <<>>
        /\ got'[c][Len(got'[c])] = b.event
    BY <1>17, <2>1
  <2>3. Follows(c)'
    BY <1>2, <1>7, <1>11, <1>12, <2>2 DEF Follows, Hears
  <2>4. ClientOK(c)'
    BY <1>1, <1>2, <1>7, <1>11, <1>17, <2>2, <2>3 DEF ClientOK, Connected
  <2> DEFINE before == {k \in 1 .. n - 1 : Feed!Hears(c, log[k])}
  <2>5. ASSUME got[c] # <<>>
        PROVE  before # {} /\ log[Feed!Max(before)] = Feed!Last(got[c])
    <3>1. PICK m \in 1 .. n - 1 :
            /\ Hears(c, log[m]) /\ log[m] = got[c][Len(got[c])]
            /\ \A j \in m + 1 .. n - 1 : ~Hears(c, log[j])
      BY <1>12, <1>17, <2>5 DEF FeedInv, ClientOK, Follows
    <3>2. m \in before /\ \A k \in before : m >= k
      BY <1>11, <3>1 DEF Hears, Feed!Hears
    <3>3. \A k \in before : k \in Nat
      BY <1>11
    <3> HIDE DEF before
    <3>4. Feed!Max(before) = m
      <4>1. \E x \in before : \A y \in before : x >= y
        BY <3>2
      <4>2. Feed!Max(before) \in before /\ \A y \in before : Feed!Max(before) >= y
        BY <4>1, Zenon DEF Feed!Max
      <4>3. PICK x \in before : x = Feed!Max(before)
        BY <4>2
      <4>4. x >= m /\ m >= x /\ x \in Nat /\ m \in Nat
        BY <3>2, <3>3, <4>2, <4>3
      <4>5. x = m
        BY <4>4
      <4> QED
        BY <4>3, <4>5
    <3> QED
      BY <3>1, <3>2, <3>4 DEF Feed!Last
  <2>6. Feed!Hears(c, log[n])
    BY <1>7, <1>11 DEF Hears, Feed!Hears
  <2> HIDE DEF n
  <2>7. Feed!NextFor(c, n)
    BY <2>5, <2>6 DEF Feed!NextFor
  <2>8. n \in DOMAIN log
    BY <1>11 DEF FeedInv, Inv, TypeOK
  <2>9. Feed!Receive(c)
    BY <1>2, <1>11, <1>17, <2>7, <2>8 DEF Feed!Receive
  <2> QED
    BY <1>13, <1>14, <1>15, <2>4, <2>9 DEF FeedInv, FeedStep, Feed!Next
<1> QED
  BY <1>16, <1>17 DEF Send, Connected

LEMMA EndFeed ==
  ASSUME FeedInv, Inv', NEW b \in broadcasts, End(b)
  PROVE  FeedInv'
<1>1. /\ b.targets = {} /\ broadcasts' = broadcasts \ {b}
      /\ UNCHANGED <<redis, outages, subscriber, inbox, published, log, conn, got>>
  BY DEF End, bus
<1>2. \A c \in Client : Aimed(c)' <=> Aimed(c)
  BY <1>1 DEF Aimed
<1>3. \A c \in Client : Seen(c)' = Seen(c)
  BY <1>1, <1>2 DEF Seen, Relayed
<1>4. Up' /\ \A i \in Instance : InboxOK(i)'
  BY <1>1 DEF FeedInv, Up, InboxOK, Relayed
<1>5. \A d \in broadcasts' : RelayOK(d)'
  BY <1>1 DEF FeedInv, RelayOK, Relayed, Hears
<1>6. \A c \in Client : ClientOK(c)'
  BY <1>1, <1>3 DEF FeedInv, ClientOK, Follows, Connected, Hears
<1> QED
  BY <1>4, <1>5, <1>6 DEF FeedInv

LEMMA HandlerFeed ==
  ASSUME FeedInv, Inv', NEW c \in Client, Handler(c)
  PROVE  FeedInv'
<1>1. /\ UNCHANGED <<redis, outages, subscriber, inbox, published, log, broadcasts, got>>
      /\ conn \in [Client -> ConnState]
  BY DEF Handler, Join, Ready, Vanish, Leave, bus, FeedInv, Inv, TypeOK
<1>2. PICK state \in {"joined", "open", "broken", "lost", "closed"} :
        /\ conn' = [conn EXCEPT ![c] = state]
        /\ state \in {"joined", "open"} => conn[c] \in {"outside", "joined"}
  BY DEF Handler, Join, Ready, Vanish, Leave
<1>3. Up' /\ (\A i \in Instance : InboxOK(i)') /\ (\A b \in broadcasts' : RelayOK(b)')
  BY <1>1 DEF FeedInv, Up, InboxOK, RelayOK, Relayed, Hears
<1>4. ASSUME NEW x \in Client PROVE ClientOK(x)'
  <2>1. Follows(x)' <=> Follows(x)
    BY <1>1 DEF Follows, Seen, Aimed, Relayed, Hears
  <2>2. got[x] # <<>> => conn'[x] # "outside" /\ (Connected(x)' => Connected(x))
    BY <1>1, <1>2 DEF FeedInv, ClientOK, Connected, ConnState
  <2> QED
    BY <1>1, <2>1, <2>2 DEF FeedInv, ClientOK
<1> QED
  BY <1>1, <1>3, <1>4 DEF FeedInv

(* With Redis and the connections up, the instances serve one feed: every  *)
(* client receives a gapless piece of the order in which Redis took the    *)
(* events, whoever joins, leaves and breaks meanwhile.                     *)
THEOREM OneFeed == ASSUME Stays PROVE Spec => ServesOneFeed
<1>1. FeedInv /\ [Next]_vars => FeedInv' /\ [Feed!Next]_<<log, got>>
  <2>1. ASSUME FeedInv, Next PROVE Inv'
    <3>1. ASSUME NEW i \in Instance, Deliver(i) PROVE Inv'
      BY <2>1, <3>1, RelayInv, SendInv, EndInv DEF Deliver, FeedInv
    <3>2. CASE Quiet
      BY <2>1, <3>2 DEF Quiet, vars, bus, sockets, FeedInv, Inv, TypeOK, BroadcastsOK,
                        JoinedFirst, NobodyDropped, Connected
    <3> QED
      BY <2>1, <3>1, <3>2, InstanceInv, RedisInv, PublishInv, HandlerInv DEF Next, FeedInv
  <2>2. ASSUME FeedInv, UNCHANGED vars PROVE FeedInv' /\ FeedStep
    <3>1. UNCHANGED <<redis, outages, subscriber, inbox, published, log, members, conn,
                      broadcasts, got>>
      BY <2>2 DEF vars, bus, sockets
    <3>2. Inv' /\ Up'
      BY <2>2, <3>1 DEF FeedInv, Up, Inv, TypeOK, BroadcastsOK, JoinedFirst, NobodyDropped,
                        Connected
    <3>3. (\A i \in Instance : InboxOK(i)') /\ (\A b \in broadcasts' : RelayOK(b)')
      BY <2>2, <3>1 DEF FeedInv, InboxOK, RelayOK, Relayed, Hears
    <3>4. \A c \in Client : ClientOK(c)'
      <4> TAKE c \in Client
      <4>1. Follows(c)' <=> Follows(c)
        BY <3>1 DEF Follows, Seen, Aimed, Relayed, Hears
      <4> QED
        BY <2>2, <3>1, <4>1 DEF FeedInv, ClientOK, Connected
    <3> QED
      BY <3>1, <3>2, <3>3, <3>4 DEF FeedInv, FeedStep
  <2>3. ASSUME FeedInv, NEW i \in Instance,
               Start(i) \/ Subscribe(i) \/ ListenAgain(i) \/ Deliver(i)
                 \/ \E e \in Event : Publish(i, e)
        PROVE  FeedInv' /\ FeedStep
    <3>1. Inv'
      BY <2>1, <2>3 DEF Next
    <3>2. ~ListenAgain(i)
      BY <2>3 DEF FeedInv, Up, ListenAgain
    <3>3. ASSUME Start(i) \/ Subscribe(i) PROVE FeedInv' /\ FeedStep
      BY <2>3, <3>1, <3>3, StartFeed DEF FeedStep, Start, Subscribe, sockets
    <3>4. ASSUME Relay(i) PROVE FeedInv' /\ FeedStep
      BY <2>3, <3>1, <3>4, RelayFeed DEF FeedStep, Relay
    <3>5. ASSUME NEW b \in broadcasts, End(b) PROVE FeedInv' /\ FeedStep
      BY <2>3, <3>1, <3>5, EndFeed DEF FeedStep, End, bus
    <3>6. ASSUME NEW b \in broadcasts, NEW c \in Client, Send(b, c)
          PROVE  FeedInv' /\ FeedStep
      BY <2>3, <3>1, <3>6, SendFeed
    <3>7. ASSUME NEW e \in Event, Publish(i, e) PROVE FeedInv' /\ FeedStep
      BY <2>3, <3>1, <3>7, PublishFeed
    <3> QED
      BY <2>3, <3>2, <3>3, <3>4, <3>5, <3>6, <3>7 DEF Deliver
  <2>4. ASSUME FeedInv, NEW c \in Client, Handler(c) PROVE FeedInv' /\ FeedStep
    <3>1. Inv'
      BY <2>1, <2>4 DEF Next
    <3> QED
      BY <2>4, <3>1, HandlerFeed DEF FeedStep, Handler, Join, Ready, Vanish, Leave, bus
  <2>5. FeedInv /\ Quiet => FeedInv' /\ FeedStep
    BY <2>2 DEF Quiet
  <2>6. FeedInv /\ Next => FeedInv' /\ FeedStep
    BY <2>3, <2>4, <2>5, CalmFeed DEF Next
  <2> QED
    BY <2>2, <2>6 DEF FeedStep
<1> QED
  BY InitFeed, <1>1, PTL DEF Spec, ServesOneFeed, Feed!Spec

=============================================================================

------------------------------ MODULE EventBus ------------------------------
(***************************************************************************)
(* The event bus (app/services/events.py) and the WebSocket manager of     *)
(* each API instance (app/websocket/manager.py, app/api/v1/ws.py): events  *)
(* published through Redis, relayed by one subscriber per instance to the  *)
(* sockets of its rooms, or handed to the local sockets when Redis fails.  *)
(*                                                                         *)
(* The lock of the manager is left out: what it guards has no await in it. *)
(***************************************************************************)
EXTENDS Naturals, Sequences, FiniteSets, SequencesExt

CONSTANTS
  Instance,
  Event, Client,
  HomeOf,        \* the instance each client connects to
  Live, RoomOf, FixtureOf,   \* as in LiveFeed
  RedisAtStart,  \* which of "up" and "down" it may be
  MaxOutages     \* bound: failures of Redis, or of a connection to it

ASSUME RoomAssumption == Live \notin {FixtureOf[e] : e \in Event}
ASSUME HomeAssumption == \A c \in Client : HomeOf[c] \in Instance
ASSUME OutageAssumption == MaxOutages \in Nat /\ RedisAtStart \subseteq {"up", "down"}

VARIABLES
  redis, outages,
  subscriber,    \* the task of each instance
  inbox,         \* messages on its connection
  published,     \* events some request has published
  log,           \* history: the order in which Redis took them
  members,       \* sockets in the manager of their instance
  conn,          \* each client's connection
  broadcasts,    \* calls of broadcast under way
  got            \* history: what each client has received

bus == <<redis, outages, subscriber, inbox, published, log>>
sockets == <<members, conn, broadcasts, got>>
vars == <<bus, sockets>>

(* "off": no Redis when the instance started, and none ever after. *)
TaskState == {"new", "off", "starting", "listening", "severed", "dead"}

(* "broken" and "lost": the client is gone, before or after its            *)
(* connection.ready; "closed": the handler has ended.                      *)
ConnState == {"outside", "joined", "open", "broken", "lost", "closed"}
Connected(c) == conn[c] \in {"joined", "open"}

Hears(c, e) == RoomOf[c] \in {Live, FixtureOf[e]}

Broadcast ==
  [on : Instance, by : {"subscriber", "request"}, event : Event,
   targets : SUBSET Client, dead : SUBSET Client]

Init ==
  /\ redis \in RedisAtStart /\ outages = 0
  /\ subscriber = [i \in Instance |-> "new"]
  /\ inbox = [i \in Instance |-> <<>>]
  /\ published = {} /\ log = <<>>
  /\ members = {} /\ broadcasts = {}
  /\ conn = [c \in Client |-> "outside"]
  /\ got = [c \in Client |-> <<>>]

-----------------------------------------------------------------------------
(* Instances and their subscribers. *)

(* EventBus.connect, and the task that is created but has not run yet.     *)
Start(i) ==
  /\ subscriber[i] = "new"
  /\ subscriber' = [subscriber EXCEPT ![i] = IF redis = "up" THEN "starting" ELSE "off"]
  /\ UNCHANGED <<redis, outages, inbox, published, log, sockets>>

Subscribe(i) ==
  /\ subscriber[i] = "starting"
  /\ subscriber' = [subscriber EXCEPT ![i] = IF redis = "up" THEN "listening" ELSE "dead"]
  /\ UNCHANGED <<redis, outages, inbox, published, log, sockets>>

Relaying(i) == \E b \in broadcasts : b.on = i /\ b.by = "subscriber"

(* listen() raises, and nobody starts the task again; or, in newer         *)
(* releases of redis-py, it reconnects if Redis is back soon enough.       *)
ListenAgain(i) ==
  /\ subscriber[i] = "severed" /\ ~Relaying(i)
  /\ \/ subscriber' = [subscriber EXCEPT ![i] = "dead"]
     \/ redis = "up" /\ subscriber' = [subscriber EXCEPT ![i] = "listening"]
  /\ inbox' = [inbox EXCEPT ![i] = <<>>]
  /\ UNCHANGED <<redis, outages, published, log, sockets>>

Outage ==
  /\ redis = "up" /\ outages < MaxOutages
  /\ redis' = "down" /\ outages' = outages + 1
  /\ subscriber' = [i \in Instance |->
       IF subscriber[i] = "listening" THEN "severed" ELSE subscriber[i]]
  /\ UNCHANGED <<inbox, published, log, sockets>>

Recover ==
  /\ redis = "down" /\ outages > 0
  /\ redis' = "up"
  /\ UNCHANGED <<outages, subscriber, inbox, published, log, sockets>>

-----------------------------------------------------------------------------
(* broadcast *)

Room(i, e) == {c \in members : HomeOf[c] = i /\ Hears(c, e)}

Begin(i, e, by) ==
  broadcasts' = broadcasts \cup
    {[on |-> i, by |-> by, event |-> e, targets |-> Room(i, e), dead |-> {}]}

RelayAtOnce(i) ==   \* mutant: the broadcast is not awaited
  /\ subscriber[i] \in {"listening", "severed"} /\ inbox[i] # <<>>
  /\ Begin(i, Head(inbox[i]), "subscriber")
  /\ inbox' = [inbox EXCEPT ![i] = Tail(@)]
  /\ UNCHANGED <<redis, outages, subscriber, published, log, members, conn, got>>

RelayRaw(i) ==   \* mutant: the message is not decoded
  /\ subscriber[i] \in {"listening", "severed"} /\ inbox[i] # <<>> /\ ~Relaying(i)
  /\ broadcasts' = broadcasts \cup
       {[on |-> i, by |-> "subscriber", event |-> [data |-> Head(inbox[i])], dead |-> {},
         targets |-> {c \in members : HomeOf[c] = i /\ RoomOf[c] = Live}]}
  /\ inbox' = [inbox EXCEPT ![i] = Tail(@)]
  /\ UNCHANGED <<redis, outages, subscriber, published, log, members, conn, got>>

Relay(i) ==
  /\ subscriber[i] \in {"listening", "severed"} /\ inbox[i] # <<>> /\ ~Relaying(i)
  /\ Begin(i, Head(inbox[i]), "subscriber")
  /\ inbox' = [inbox EXCEPT ![i] = Tail(@)]
  /\ UNCHANGED <<redis, outages, subscriber, published, log, members, conn, got>>

Goes(b, c, dead) ==
  broadcasts' = (broadcasts \ {b}) \cup
    {[b EXCEPT !.targets = @ \ {c}, !.dead = @ \cup dead]}

SendStopping(b, c) ==   \* mutant: a failed send ends the broadcast
  /\ c \in b.targets
  /\ \/ /\ Connected(c)
        /\ got' = [got EXCEPT ![c] = Append(@, b.event)]
        /\ Goes(b, c, {})
     \/ /\ ~Connected(c)
        /\ broadcasts' = (broadcasts \ {b}) \cup
             {[b EXCEPT !.targets = {}, !.dead = @ \cup {c}]}
        /\ UNCHANGED got
  /\ UNCHANGED <<bus, members, conn>>

(* A send to a client that is gone may still seem to succeed, until the    *)
(* handler has ended.                                                      *)
Send(b, c) ==
  /\ c \in b.targets
  /\ \/ /\ Connected(c)
        /\ got' = [got EXCEPT ![c] = Append(@, b.event)]
        /\ Goes(b, c, {})
     \/ ~Connected(c) /\ Goes(b, c, {c}) /\ UNCHANGED got
     \/ conn[c] \in {"broken", "lost"} /\ Goes(b, c, {}) /\ UNCHANGED got
  /\ UNCHANGED <<bus, members, conn>>

EndKeeping(b) ==   \* mutant: the dead are not removed
  /\ b.targets = {}
  /\ broadcasts' = broadcasts \ {b}
  /\ UNCHANGED <<bus, members, conn, got>>

EndEmptyingRoom(b) ==   \* mutant: the room goes with its dead
  /\ b.targets = {}
  /\ members' = IF b.dead = {} THEN members ELSE members \ Room(b.on, b.event)
  /\ broadcasts' = broadcasts \ {b}
  /\ UNCHANGED <<bus, conn, got>>

End(b) ==
  /\ b.targets = {}
  /\ members' = members \ b.dead
  /\ broadcasts' = broadcasts \ {b}
  /\ UNCHANGED <<bus, conn, got>>

-----------------------------------------------------------------------------
(* EventBus.publish: Redis, or the sockets of this instance when that      *)
(* fails.  A connection that breaks may have carried the message or not.   *)
Taken(e) ==
  /\ log' = Append(log, e)
  /\ inbox' = [i \in Instance |->
       IF subscriber[i] = "listening" THEN Append(inbox[i], e) ELSE inbox[i]]

Publish(i, e) ==
  LET usesRedis == subscriber[i] # "off" IN
  /\ subscriber[i] # "new" /\ e \notin published
  /\ published' = published \cup {e}
  /\ \/ /\ usesRedis /\ redis = "up"
        /\ Taken(e)
        /\ UNCHANGED <<outages, broadcasts>>
     \/ /\ ~usesRedis \/ redis = "down"
        /\ Begin(i, e, "request")
        /\ UNCHANGED <<outages, inbox, log>>
     \/ /\ usesRedis /\ redis = "up" /\ outages < MaxOutages
        /\ outages' = outages + 1
        /\ Taken(e) \/ UNCHANGED <<inbox, log>>
        /\ Begin(i, e, "request")
  /\ UNCHANGED <<redis, subscriber, members, conn, got>>

-----------------------------------------------------------------------------
(* The handlers of the sockets. *)

Join(c) ==
  /\ conn[c] = "outside" /\ subscriber[HomeOf[c]] # "new"
  /\ conn' = [conn EXCEPT ![c] = "joined"]
  /\ members' = members \cup {c}
  /\ UNCHANGED <<bus, broadcasts, got>>

Ready(c) ==
  /\ conn[c] = "joined"
  /\ conn' = [conn EXCEPT ![c] = "open"]
  /\ UNCHANGED <<bus, members, broadcasts, got>>

Vanish(c) ==
  /\ Connected(c)
  /\ conn' = [conn EXCEPT ![c] = IF @ = "open" THEN "lost" ELSE "broken"]
  /\ UNCHANGED <<bus, members, broadcasts, got>>

(* receive_text raises and the handler disconnects; but connection.ready   *)
(* is sent outside the try, and an exception there leaves the socket in    *)
(* its room.                                                               *)
Leave(c) ==
  /\ conn[c] \in {"broken", "lost"}
  /\ conn' = [conn EXCEPT ![c] = "closed"]
  /\ \/ members' = members \ {c}
     \/ conn[c] = "broken" /\ UNCHANGED members
  /\ UNCHANGED <<bus, broadcasts, got>>

-----------------------------------------------------------------------------
Deliver(i) ==
  \/ Relay(i)
  \/ \E b \in broadcasts : b.on = i /\ (End(b) \/ \E c \in Client : Send(b, c))

Handler(c) == Join(c) \/ Ready(c) \/ Vanish(c) \/ Leave(c)

Quiet == published = Event /\ UNCHANGED vars

Next ==
  \/ \E i \in Instance : \/ Start(i) \/ Subscribe(i) \/ ListenAgain(i) \/ Deliver(i)
                         \/ \E e \in Event : Publish(i, e)
  \/ \E c \in Client : Handler(c)
  \/ Outage \/ Recover \/ Quiet

Spec == Init /\ [][Next]_vars

(* The event loop runs every task on, and no send blocks for ever (uvicorn *)
(* closes a connection whose pings are not answered).                      *)
FairSpec ==
  Spec /\ \A i \in Instance : WF_vars(Deliver(i)) /\ WF_vars(Subscribe(i))

-----------------------------------------------------------------------------
TypeOK ==
  /\ redis \in {"up", "down"} /\ outages \in 0..MaxOutages
  /\ subscriber \in [Instance -> TaskState]
  /\ inbox \in [Instance -> Seq(Event)]
  /\ published \subseteq Event /\ log \in Seq(Event)
  /\ members \subseteq Client
  /\ conn \in [Client -> ConnState]
  /\ broadcasts \subseteq Broadcast
  /\ got \in [Client -> Seq(Event)]

(* With Redis, the instances serve one feed: whatever joins, leaves and    *)
(* breaks meanwhile, every client receives a gapless piece of the order in *)
(* which Redis took the events.                                            *)
Feed == INSTANCE LiveFeed WITH log <- log, got <- got
ServesOneFeed == Feed!Spec

(* A client that is connected is in its room: only its own handler, or a   *)
(* send that has failed, takes it out.                                     *)
NobodyDropped == \A c \in Client : Connected(c) => c \in members

(* e is on its way to c: on the connection of its instance to Redis, or in *)
(* a broadcast under way.                                                  *)
Waiting(c, e) ==
  /\ c \in members /\ Hears(c, e)
  /\ subscriber[HomeOf[c]] = "listening" /\ e \in Range(inbox[HomeOf[c]])

Targeted(c, e) == \E b \in broadcasts : b.event = e /\ c \in b.targets

Has(c, e) == e \in Range(got[c])

(* An event that has reached the instance of a connected client, from      *)
(* Redis or in its own process, reaches the client, whatever the other     *)
(* sockets do; only a connection to Redis that breaks can take it away     *)
(* again.                                                                  *)
EveryEventArrives ==
  \A c \in Client, e \in Event :
    /\ Targeted(c, e) ~> (Has(c, e) \/ ~Connected(c))
    /\ Waiting(c, e) ~>
         (Has(c, e) \/ ~Connected(c) \/ subscriber[HomeOf[c]] # "listening")

(* "dead sockets are pruned" (manager.py:4): a socket whose handler has    *)
(* ended without removing it goes with the next event of its room.         *)
DeadSocketsPruned ==
  \A c \in Client, e \in Event :
    (conn[c] = "closed" /\ Targeted(c, e)) ~> (c \notin members)

-----------------------------------------------------------------------------
(* What the documentation says, and the code does not do (see README.md).  *)

(* README.md:69-70: "Events flow through Redis pub/sub so multiple API     *)
(* instances stay in sync": an event that Redis takes reaches every client *)
(* connected to a settled instance, if client and Redis stay up from then. *)
Settled(i) == subscriber[i] \notin {"starting", "severed"}

InstancesInSync ==
  \A c \in Client, e \in Event :
    [](e \in published => conn[c] = "open" /\ redis = "up" /\ Settled(HomeOf[c]))
      => [](e \in Range(log) /\ Hears(c, e) => <>Has(c, e))
=============================================================================

------------------------------ MODULE EventBus ------------------------------
(***************************************************************************)
(* utils/kkevent, remotes/kkeventbus: subscribing to events.  The manager  *)
(* of kkevent calls the listeners of a key in the goroutine that           *)
(* publishes; the local bus and the NATS bus keep a consumer with a        *)
(* listener manager of its own for every topic, and start a goroutine for  *)
(* each call.  A listener is a closure; IsSameFunc compares its code only. *)
(* Slices are modelled as Go has them: a publisher keeps the array it read *)
(* while others subscribe, so they must copy it.                           *)
(***************************************************************************)
EXTENDS Integers, Sequences, FiniteSets, Functions

CONSTANTS
    BusKinds,       \* which of "events", "local", "nats" are checked
    Topics,
    Registered,     \* topics with a message type in the registry
    Handlers,       \* closures given to Subscribe
    Code,           \* Code[h]: the code of closure h
    Events,         \* publications, each made once at most
    BusOps          \* subscribing and unsubscribing operations (bound)

VARIABLES
    kind,           \* which of the three is run
    arrays,         \* the arrays of listeners, each a sequence of [gid, cb]
    list,           \* list[t]: the array m.listeners refers to, for topic t
    consumers,      \* topics with a consumer (the buses)
    consumersMade,  \* how many consumers topic t has had
    subs,           \* NATS subscriptions not given back: <<t, consumersMade>>
    failed,         \* those whose Unsubscribe returned an error (history)
    busConn,        \* the NATS connection of the bus
    autoID,         \* last gid given, for topic t
    ids,            \* ids[h][t]: what the last Subscribe(t, h) returned, 0 if none
    events,         \* where every publication is
    owed,           \* the listeners a publication found, in their order
    ran,            \* the gids a publication called
    tasks,          \* calls handed to a goroutine: <<event, gid>>
    hurt,           \* an UnsubscribeByID removed a listener that was not the caller's
    busOps

busVars == <<kind, arrays, list, consumers, consumersMade, subs, failed, busConn, autoID, ids, events,
             owed, ran, tasks, hurt, busOps>>
published == <<events, owed, ran, tasks>>

Arrays == 0 .. Cardinality(Topics) + Cardinality(Events) + 1
IdleEvent == [at |-> "idle", topic |-> "", inst |-> 0, arr |-> 0, i |-> 0]

\* A bus that is given a connection uses it.  One that connects by itself has none: NewEventbus
\* stores the connection in its parameter after it copied that, so that every call fails.
Connections == IF kind = "nats" THEN {"open", "none"} ELSE {"none"}

BusInit ==
    /\ kind \in BusKinds /\ arrays = [a \in Arrays |-> <<>>]
    /\ list = [t \in Topics |-> 0] /\ consumers = {} /\ consumersMade = [t \in Topics |-> 0]
    /\ subs = {} /\ failed = {} /\ busConn \in Connections /\ autoID = [t \in Topics |-> 0]
    /\ ids = [h \in Handlers |-> [t \in Topics |-> 0]]
    /\ events = [e \in Events |-> IdleEvent]
    /\ owed = [e \in Events |-> <<>>] /\ ran = owed /\ tasks = {} /\ hurt = FALSE /\ busOps = 0

---------------------------------------------------------------------------
(* The listener managers: m.mu is held by each of these. *)
Listeners(t) == arrays[list[t]]
getHandlerIdx(t, h) == {i \in DOMAIN Listeners(t) : Code[Listeners(t)[i].cb] = Code[h]}
idIdx(t, id) == {i \in DOMAIN Listeners(t) : Listeners(t)[i].gid = id}

InUse == {list[t] : t \in Topics} \union {events[e].arr : e \in {d \in Events : events[d].at = "loop"}} \union {0}
Fresh == CHOOSE a \in Arrays \ InUse : TRUE

(* A copy replaces the array, array 0 is the empty one.  Arrays nobody     *)
(* refers to any more are collected.                                       *)
Replace(t, s) ==
    LET a == IF s = <<>> THEN 0 ELSE Fresh
    IN  /\ list' = [list EXCEPT ![t] = a]
        /\ arrays' = [b \in Arrays |-> CASE b = 0 -> <<>> [] b = a -> s
                                         [] b \in InUse -> arrays[b] [] OTHER -> <<>>]
Removed(s, i) == SubSeq(s, 1, i - 1) \o SubSeq(s, i + 1, Len(s))
First(I) == CHOOSE i \in I : \A j \in I : i <= j

IsBus == kind # "events"
BusLocked == kind = "local" /\ \E e \in Events : events[e].at = "loop"
BusOp == /\ busOps < BusOps /\ busOps' = busOps + 1
         /\ ~BusLocked

(* The owner of the connection drains or closes it at any time: messages   *)
(* that have come are still handed out, calls fail.                        *)
ConnEnds ==
    /\ busConn = "open" /\ busConn' = "ended"
    /\ UNCHANGED <<kind, arrays, list, consumers, consumersMade, subs, failed, autoID, ids, published, hurt, busOps>>

(* Subscribe: a bus makes the consumer of a topic, with its subscription,  *)
(* for the first handler; NATS may refuse that one, and then nothing has    *)
(* changed.  A handler with the code of one that is there gets the id of   *)
(* that one.                                                               *)
NewConsumer(t) == IsBus /\ t \notin consumers

SubscribeFails(t, h) ==
    /\ BusOp /\ kind = "nats" /\ NewConsumer(t)
    /\ ids' = [ids EXCEPT ![h][t] = 0]
    /\ UNCHANGED <<kind, arrays, list, consumers, consumersMade, subs, failed, busConn, autoID, published, hurt>>

Subscribe(t, h) ==
    /\ BusOp
    /\ kind = "nats" /\ NewConsumer(t) => busConn = "open"
    /\ LET new == NewConsumer(t)
           last == IF new THEN 0 ELSE autoID[t]
           I == getHandlerIdx(t, h)
           gid == IF I # {} THEN Listeners(t)[First(I)].gid ELSE last + 1
       IN  /\ consumers' = IF IsBus THEN consumers \union {t} ELSE consumers
           /\ consumersMade' = IF new THEN [consumersMade EXCEPT ![t] = @ + 1] ELSE consumersMade
           /\ subs' = IF new /\ kind = "nats" THEN subs \union {<<t, consumersMade[t] + 1>>} ELSE subs
           /\ IF I # {} THEN UNCHANGED <<arrays, list, autoID>>
              ELSE /\ Replace(t, Append(Listeners(t), [gid |-> gid, cb |-> h]))
                   /\ autoID' = [autoID EXCEPT ![t] = gid]
           /\ ids' = [ids EXCEPT ![h][t] = gid]
    /\ UNCHANGED <<kind, failed, busConn, published, hurt>>

\* The subscriptions of the consumers of topics T.
SubsOf(T) == {<<t, consumersMade[t]>> : t \in T}

(* A change: the consumer goes without its subscription, or stays with it. *)
DropConsumerOnly(t, s) ==
    IF IsBus /\ s = <<>> /\ t \in consumers
    THEN consumers' \in {consumers, consumers \ {t}} /\ UNCHANGED <<subs, failed>>
    ELSE UNCHANGED <<consumers, subs, failed>>

(* The last handler of a bus's topic takes the consumer and the            *)
(* subscription with it.  If NATS does not give the subscription up, both   *)
(* stay, and the consumer has no handler.                                  *)
DropConsumer(t, s) ==
    IF IsBus /\ s = <<>> /\ t \in consumers
    THEN \/ /\ kind = "nats" => busConn = "open"
            /\ consumers' = consumers \ {t} /\ subs' = subs \ SubsOf({t}) /\ UNCHANGED failed
         \/ /\ kind = "nats"
            /\ failed' = failed \union SubsOf({t}) /\ UNCHANGED <<consumers, subs>>
    ELSE UNCHANGED <<consumers, subs, failed>>

Unsubscribe(t, h) ==
    /\ BusOp
    /\ LET I == getHandlerIdx(t, h)
           s == IF I = {} THEN Listeners(t) ELSE Removed(Listeners(t), First(I))
       IN  /\ IF I = {} THEN UNCHANGED <<arrays, list>> ELSE Replace(t, s)
           /\ DropConsumer(t, s)
    /\ ids' = [ids EXCEPT ![h][t] = 0]
    /\ UNCHANGED <<kind, consumersMade, busConn, autoID, published, hurt>>

(* A caller gives the id back once, at a time of its own. *)
UnsubscribeByID(t, h) ==
    /\ BusOp /\ ids[h][t] # 0
    /\ LET I == idIdx(t, ids[h][t])
           s == IF I = {} THEN Listeners(t) ELSE Removed(Listeners(t), First(I))
       IN  /\ IF I = {} THEN UNCHANGED <<arrays, list>> ELSE Replace(t, s)
           /\ DropConsumer(t, s)
           /\ hurt' = (hurt \/ (I # {} /\ Code[Listeners(t)[First(I)].cb] # Code[h]))
    /\ ids' = [ids EXCEPT ![h][t] = 0]
    /\ UNCHANGED <<kind, consumersMade, busConn, autoID, published>>

(* Of a key (kkevent), or of all topics (the buses; so does Close, which    *)
(* leaves the connection to its owner).  The consumers go even if NATS      *)
(* keeps their subscriptions.                                              *)
UnsubscribeKey(t) ==
    /\ BusOp /\ ~IsBus
    /\ Replace(t, <<>>)
    /\ UNCHANGED <<kind, consumers, consumersMade, subs, failed, busConn, autoID, ids, published, hurt>>
UnsubscribeAll ==
    /\ BusOp /\ IsBus
    /\ list' = [t \in Topics |-> 0] /\ arrays' = [a \in Arrays |-> IF a \in InUse THEN arrays[a] ELSE <<>>]
    /\ \E kept \in SUBSET consumers :
          /\ kept # {} => kind = "nats"
          /\ kind = "nats" /\ busConn # "open" => kept = consumers
          /\ subs' = subs \ SubsOf(consumers \ kept) /\ failed' = failed \union SubsOf(kept)
    /\ consumers' = {}
    /\ UNCHANGED <<kind, consumersMade, busConn, autoID, ids, published, hurt>>

---------------------------------------------------------------------------
(* Publish.  kkevent reads the list and calls one listener after another.  *)
(* The local bus reads it under its own lock and starts goroutines; over   *)
(* NATS the goroutine of the subscription does, when the message arrives.  *)
Snapshot(e, t) ==
    /\ events' = [events EXCEPT ![e] = [at |-> "loop", topic |-> t, inst |-> consumersMade[t], arr |-> list[t], i |-> 1]]
    /\ owed' = [owed EXCEPT ![e] = Listeners(t)]
Finish(e) == events' = [events EXCEPT ![e] = [IdleEvent EXCEPT !.at = "done"]]

\* The message comes to each subscription of the topic: to one that is alive and wanted, or to
\* one that NATS kept.
Sent(e, x) == events' = [events EXCEPT ![e] = [IdleEvent EXCEPT !.at = "wire", !.topic = x[1], !.inst = x[2]]]

Publish(e, t) ==
    /\ events[e].at = "idle"
    /\ CASE kind = "events" -> Snapshot(e, t)
         [] kind = "local" -> IF t \in consumers \intersect Registered THEN Snapshot(e, t)
                              ELSE Finish(e) /\ UNCHANGED owed
         [] OTHER -> /\ IF busConn = "open" /\ t \in {x[1] : x \in subs}
                        THEN \E x \in subs : x[1] = t /\ Sent(e, x)
                        ELSE Finish(e)
                     /\ UNCHANGED owed
    /\ UNCHANGED <<kind, arrays, list, consumers, consumersMade, subs, failed, busConn, autoID, ids, ran, tasks, hurt, busOps>>

(* The consumer of a subscription that is gone, or that NATS kept, has no   *)
(* listener left.                                                          *)
Dispatch(e) ==
    /\ events[e].at = "wire"
    /\ LET t == events[e].topic
       IN  IF t \in Registered /\ t \in consumers /\ consumersMade[t] = events[e].inst THEN Snapshot(e, t)
           ELSE Finish(e) /\ UNCHANGED owed
    /\ UNCHANGED <<kind, arrays, list, consumers, consumersMade, subs, failed, busConn, autoID, ids, ran, tasks, hurt, busOps>>

CallNext(e) ==
    /\ events[e].at = "loop"
    /\ IF events[e].i > Len(owed[e]) THEN Finish(e) /\ UNCHANGED <<ran, tasks>>
       ELSE LET gid == arrays[events[e].arr][events[e].i].gid
            IN  /\ events' = [events EXCEPT ![e].i = @ + 1]
                /\ IF kind = "events" THEN ran' = [ran EXCEPT ![e] = Append(@, gid)] /\ UNCHANGED tasks
                   ELSE tasks' = tasks \union {<<e, gid>>} /\ UNCHANGED ran
    /\ UNCHANGED <<kind, arrays, list, consumers, consumersMade, subs, failed, busConn, autoID, ids, owed, hurt, busOps>>

RunTask(e, gid) ==
    /\ <<e, gid>> \in tasks /\ tasks' = tasks \ {<<e, gid>>}
    /\ ran' = [ran EXCEPT ![e] = Append(@, gid)]
    /\ UNCHANGED <<kind, arrays, list, consumers, consumersMade, subs, failed, busConn, autoID, ids, events, owed, hurt, busOps>>

BusNext ==
    \/ \E t \in Topics : \/ UnsubscribeKey(t)
                         \/ \E h \in Handlers : \/ Subscribe(t, h) \/ SubscribeFails(t, h)
                                                \/ Unsubscribe(t, h) \/ UnsubscribeByID(t, h)
                         \/ \E e \in Events : Publish(e, t)
    \/ UnsubscribeAll \/ ConnEnds
    \/ \E e \in Events : Dispatch(e) \/ CallNext(e)
    \/ \E c \in tasks : RunTask(c[1], c[2])

BusSpec == BusInit /\ [][BusNext]_busVars
---------------------------------------------------------------------------
Gids(s) == {s[i].gid : i \in DOMAIN s}

(* Every listener a publication found is called once, and nobody else: in  *)
(* their order by kkevent, in any order by a bus, whoever subscribes and   *)
(* unsubscribes while it runs.                                             *)
CalledOnce(e) ==
    LET done == events[e].at = "done" /\ ~\E c \in tasks : c[1] = e
    IN  /\ IsInjective(ran[e]) /\ \A i \in DOMAIN ran[e] : ran[e][i] \in Gids(owed[e])
        /\ kind = "events" => \A i \in DOMAIN ran[e] : ran[e][i] = owed[e][i].gid
        /\ done => Len(ran[e]) = Len(owed[e])

(* A topic with listeners has a consumer, and over NATS its subscription;   *)
(* it has more than one only if NATS kept one.  A consumer without          *)
(* listeners and a subscription without a consumer are left of an           *)
(* Unsubscribe that failed, and of nothing else.                           *)
SubscribedIfWanted ==
    /\ \A t \in Topics :
          /\ IsBus /\ list[t] # 0 => t \in consumers
          /\ t \in consumers /\ list[t] = 0 => <<t, consumersMade[t]>> \in failed
    /\ kind = "nats" => SubsOf(consumers) \subseteq subs
    /\ subs \ SubsOf(consumers) \subseteq failed
    /\ kind # "nats" => failed = {}

(* An id that was given back late, after everything had been unsubscribed,  *)
(* hurts no one in kkevent, whose ids are never used again; a bus starts    *)
(* again at 1 with every consumer.                                         *)
EventsReachListeners ==
    /\ \A e \in Events : CalledOnce(e)
    /\ SubscribedIfWanted
    /\ kind = "events" => ~hurt
=============================================================================

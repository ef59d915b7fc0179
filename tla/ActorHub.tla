------------------------------ MODULE ActorHub ------------------------------
(***************************************************************************)
(* kkapp/kkactor/registry: the directory of actors.  A node keeps one TCP  *)
(* connection to the hub, authenticates, and registers its actors; it      *)
(* remembers which it registered and registers them again after every      *)
(* reconnection, because the hub forgets the actors of a connection when   *)
(* it learns that the connection is gone, which may be long after the node *)
(* has come back on another one.  kktcp gives a handler the messages of a  *)
(* connection in order and OnClose after them.                             *)
(***************************************************************************)
EXTENDS Integers, Sequences, FiniteSets

CONSTANTS
    Actors,         \* actors of the node
    Rejected,       \* actors whose registration the hub refuses
    HubConns,       \* connections the node makes at most (bound)
    HubCalls        \* requests of the application at most (bound)

ASSUME HubAssumption == HubConns \in Nat /\ HubCalls \in Nat

HubConnIds == 1 .. HubConns

VARIABLES
    \* the node
    hubConn,            \* number of the last connection, 0 before the first
    alive,          \* connections that are not broken
    isAuthed,
    ownedActors,
    reqMap,         \* requests without a response: <<id, op, actor>>
    autoReqId,
    located,          \* actors the node found in the directory
    appAt,          \* where the call about an actor is: [at, id, op]
    resending,      \* actors resendOwnedActors has still to send
    retries,        \* requests a timer will send again
    handled,        \* connections whose OnClose the node has run
    \* the wires
    toHub, toNode,
    \* the hub
    authed, connRegs, actorOwner, directory,
    forgotten,      \* connections whose OnClose the hub has run
    \* history
    overlapped,          \* actors whose call overlapped a registering anew
    overtaken       \* actors about which an older connection spoke after a newer one

actorNodeVars == <<hubConn, alive, isAuthed, ownedActors, reqMap, autoReqId, located, appAt, resending, retries, handled>>
hubVars  == <<authed, connRegs, actorOwner, directory, forgotten>>
hubAll   == <<actorNodeVars, toHub, toNode, hubVars, overlapped, overtaken>>

Idle == [at |-> "idle", id |-> 0, op |-> "reg"]
NoOwner == 0

HubInit ==
    /\ hubConn = 0 /\ alive = {} /\ isAuthed = FALSE /\ ownedActors = {} /\ reqMap = {} /\ autoReqId = 0
    /\ located = {} /\ appAt = [a \in Actors |-> Idle] /\ resending = {} /\ retries = {} /\ handled = {}
    /\ toHub = [c \in HubConnIds |-> <<>>] /\ toNode = toHub
    /\ authed = {} /\ connRegs = [c \in HubConnIds |-> {}] /\ actorOwner = [a \in Actors |-> NoOwner]
    /\ directory = {} /\ forgotten = {} /\ overlapped = {} /\ overtaken = {}

---------------------------------------------------------------------------
(* The node.  A connection is made when the handler has seen the last one  *)
(* close; OnConnect sends the password. *)
OnConnect ==
    /\ hubConn < HubConns /\ (hubConn # 0 => hubConn \in handled)
    /\ hubConn' = hubConn + 1 /\ alive' = alive \union {hubConn + 1}
    /\ toHub' = [toHub EXCEPT ![hubConn + 1] = <<[op |-> "auth", id |-> 0, actor |-> ""]>>]
    /\ UNCHANGED <<isAuthed, ownedActors, reqMap, autoReqId, located, appAt, resending, retries, handled, toNode, hubVars, overlapped, overtaken>>

HubBreaks ==
    /\ hubConn \in alive /\ alive' = alive \ {hubConn}
    /\ UNCHANGED <<hubConn, isAuthed, ownedActors, reqMap, autoReqId, located, appAt, resending, retries, handled, toHub, toNode, hubVars, overlapped, overtaken>>

ClientOnClose ==
    /\ hubConn \notin alive \union handled /\ hubConn # 0 /\ resending = {}
    /\ isAuthed' = FALSE /\ reqMap' = {} /\ handled' = handled \union {hubConn}
    /\ toNode' = [toNode EXCEPT ![hubConn] = <<>>]
    /\ UNCHANGED <<hubConn, alive, ownedActors, autoReqId, located, appAt, resending, retries, toHub, hubVars, overlapped, overtaken>>

(* sendRequest: while the connection is broken but not seen to be, what is *)
(* sent is lost. *)
Send(m) == toHub' = IF hubConn \in alive THEN [toHub EXCEPT ![hubConn] = Append(@, m)] ELSE toHub

(* ReqRegisterActor, ReqUnregisterActor, ReqFindActor: send, then remember *)
(* the request, then what is owned. *)
ReqSend(a, op) ==
    /\ appAt[a].at = "idle" /\ autoReqId < HubCalls /\ isAuthed /\ hubConn \notin handled
    /\ autoReqId' = autoReqId + 1
    /\ Send([op |-> op, id |-> autoReqId + 1, actor |-> a])
    /\ appAt' = [appAt EXCEPT ![a] = [at |-> "sent", id |-> autoReqId + 1, op |-> op]]
    /\ overlapped' = IF a \in resending /\ op = "unreg" THEN overlapped \union {a} ELSE overlapped
    /\ UNCHANGED <<hubConn, alive, isAuthed, ownedActors, reqMap, located, resending, retries, handled, toNode, hubVars, overtaken>>
ReqRemember(a) ==
    /\ appAt[a].at = "sent"
    /\ reqMap' = reqMap \union {<<appAt[a].id, appAt[a].op, a>>}
    /\ appAt' = [appAt EXCEPT ![a] = IF appAt[a].op = "find" THEN Idle ELSE [appAt[a] EXCEPT !.at = "own"]]
    /\ UNCHANGED <<hubConn, alive, isAuthed, ownedActors, autoReqId, located, resending, retries, handled, toHub, toNode, hubVars, overlapped, overtaken>>
ReqOwn(a) ==
    /\ appAt[a].at = "own"
    /\ ownedActors' = IF appAt[a].op = "reg" THEN ownedActors \union {a} ELSE ownedActors \ {a}
    /\ appAt' = [appAt EXCEPT ![a] = Idle]
    /\ UNCHANGED <<hubConn, alive, isAuthed, reqMap, autoReqId, located, resending, retries, handled, toHub, toNode, hubVars, overlapped, overtaken>>

(* OnRaw of the node: one response.  A refused registration is sent again  *)
(* a second later, if it is still remembered. *)
delReq(id) == reqMap' = {r \in reqMap : r[1] # id}
ClientOnRaw ==
    /\ hubConn # 0 /\ toNode[hubConn] # <<>> /\ hubConn \notin handled /\ resending = {}
    /\ toNode' = [toNode EXCEPT ![hubConn] = Tail(@)]
    /\ LET m == Head(toNode[hubConn])
       IN  \/ /\ m.op = "authok" /\ isAuthed' = TRUE /\ resending' = ownedActors
              /\ overlapped' = overlapped \union {a \in Actors : appAt[a].op # "find" /\ appAt[a].at # "idle"}
              /\ UNCHANGED <<reqMap, located, retries>>
           \/ /\ m.op = "found" /\ delReq(m.id) /\ located' = located \union {m.actor}
              /\ UNCHANGED <<isAuthed, resending, overlapped, retries>>
           \/ /\ m.op = "nack" /\ retries' = retries \union {m.id}
              /\ UNCHANGED <<isAuthed, resending, overlapped, reqMap, located>>
           \/ /\ m.op \in {"missing", "ack"} /\ delReq(m.id)
              /\ UNCHANGED <<isAuthed, resending, overlapped, located, retries>>
    /\ UNCHANGED <<hubConn, alive, ownedActors, autoReqId, appAt, handled, toHub, hubVars, overtaken>>

(* resendOwnedActors runs in OnRaw. *)
resendOwnedActors(a) ==
    /\ a \in resending /\ resending' = resending \ {a}
    /\ autoReqId' = autoReqId + 1
    /\ Send([op |-> "reg", id |-> autoReqId + 1, actor |-> a])
    /\ reqMap' = reqMap \union {<<autoReqId + 1, "reg", a>>}
    /\ UNCHANGED <<hubConn, alive, isAuthed, ownedActors, located, appAt, retries, handled, toNode, hubVars, overlapped, overtaken>>
Retry(id) ==
    /\ id \in retries /\ retries' = retries \ {id}
    /\ LET mine == {r \in reqMap : r[1] = id /\ r[2] # "find"}
       IN  IF mine = {} \/ ~isAuthed \/ hubConn \in handled THEN UNCHANGED toHub
           ELSE \E r \in mine : Send([op |-> r[2], id |-> id, actor |-> r[3]])
    /\ UNCHANGED <<hubConn, alive, isAuthed, ownedActors, reqMap, autoReqId, located, appAt, resending, handled, toNode, hubVars, overlapped, overtaken>>

---------------------------------------------------------------------------
(* The hub: h.mu is held through each registration and each close. *)
Reply(c, m) == toNode' = IF c \in alive /\ c \notin handled THEN [toNode EXCEPT ![c] = Append(@, m)] ELSE toNode
Spoken(c, a) == \E d \in HubConnIds : d > c /\ (actorOwner[a] = d \/ (d = hubConn /\ d \in authed))

onRegisterActorReq(c, m) ==
    LET a == m.actor
    IN  IF m.op = "reg"
        THEN /\ directory' = directory \union {a}
             /\ connRegs' = [d \in HubConnIds |-> IF d = c THEN connRegs[d] \union {a}
                                            ELSE IF d = actorOwner[a] THEN connRegs[d] \ {a} ELSE connRegs[d]]
             /\ actorOwner' = [actorOwner EXCEPT ![a] = c]
        ELSE /\ connRegs' = [connRegs EXCEPT ![c] = @ \ {a}]
             /\ IF actorOwner[a] \in {c, NoOwner}
                THEN actorOwner' = [actorOwner EXCEPT ![a] = NoOwner] /\ directory' = directory \ {a}
                ELSE UNCHANGED <<actorOwner, directory>>

ServerOnRaw(c) ==
    /\ toHub[c] # <<>> /\ c \notin forgotten
    /\ toHub' = [toHub EXCEPT ![c] = Tail(@)]
    /\ LET m == Head(toHub[c])
           denied == c \notin authed \/ (m.op = "reg" /\ m.actor \in Rejected)
       IN  /\ overtaken' = IF m.op \in {"reg", "unreg"} /\ Spoken(c, m.actor) THEN overtaken \union {m.actor} ELSE overtaken
           /\ \/ /\ m.op = "auth" /\ authed' = authed \union {c} /\ Reply(c, [op |-> "authok", id |-> 0, actor |-> ""])
                 /\ UNCHANGED <<connRegs, actorOwner, directory>>
              \/ /\ m.op # "auth" /\ denied
                 /\ Reply(c, [m EXCEPT !.op = "nack"]) /\ UNCHANGED <<authed, connRegs, actorOwner, directory>>
              \/ /\ m.op = "find" /\ ~denied
                 /\ Reply(c, [m EXCEPT !.op = IF m.actor \in directory THEN "found" ELSE "missing"])
                 /\ UNCHANGED <<authed, connRegs, actorOwner, directory>>
              \/ /\ m.op \in {"reg", "unreg"} /\ ~denied
                 /\ onRegisterActorReq(c, m) /\ Reply(c, [m EXCEPT !.op = "ack"]) /\ UNCHANGED authed
    /\ UNCHANGED <<actorNodeVars, forgotten, overlapped>>

ServerOnCloseMutant(c) ==
    /\ c \in HubConnIds \ (alive \union forgotten) /\ c <= hubConn
    /\ forgotten' = forgotten \union {c} /\ toHub' = [toHub EXCEPT ![c] = <<>>]
    /\ authed' = authed \ {c} /\ connRegs' = [connRegs EXCEPT ![c] = {}]
    /\ actorOwner' = [a \in Actors |-> IF a \in connRegs[c] THEN NoOwner ELSE actorOwner[a]]
    /\ UNCHANGED directory
    /\ UNCHANGED <<actorNodeVars, toNode, overlapped, overtaken>>
ServerOnClose(c) ==
    /\ c \in HubConnIds \ (alive \union forgotten) /\ c <= hubConn
    /\ forgotten' = forgotten \union {c} /\ toHub' = [toHub EXCEPT ![c] = <<>>]
    /\ authed' = authed \ {c} /\ connRegs' = [connRegs EXCEPT ![c] = {}]
    /\ LET gone == {a \in connRegs[c] : actorOwner[a] = c}
       IN  /\ actorOwner' = [a \in Actors |-> IF a \in gone THEN NoOwner ELSE actorOwner[a]]
           /\ directory' = directory \ gone
    /\ UNCHANGED <<actorNodeVars, toNode, overlapped, overtaken>>

HubNext ==
    \/ OnConnect \/ HubBreaks \/ ClientOnClose \/ ClientOnRaw
    \/ \E a \in Actors : \/ \E op \in {"reg", "unreg", "find"} : ReqSend(a, op)
                         \/ ReqRemember(a) \/ ReqOwn(a) \/ resendOwnedActors(a)
    \/ \E id \in retries : Retry(id)
    \/ \E c \in HubConnIds : ServerOnRaw(c) \/ ServerOnClose(c)

HubSpec == HubInit /\ [][HubNext]_hubAll
---------------------------------------------------------------------------
HubQuiet ==
    /\ hubConn \in alive /\ isAuthed /\ resending = {}
    /\ \A c \in HubConnIds : toHub[c] = <<>> /\ toNode[c] = <<>> /\ (c < hubConn => c \in forgotten)
    /\ \A a \in Actors : appAt[a].at = "idle"

(* An actor is in the directory exactly while one connection that the hub  *)
(* has not seen close owns it; and when the node is connected and nothing  *)
(* is under way, the directory holds the actors the node has registered    *)
(* and not unregistered, however often the connection was lost in between. *)
(* Two races escape the code: a call that overlaps the registering anew    *)
(* (it sends before it remembers), and the backlog of an old connection    *)
(* that the hub reads after the new one has spoken. *)
HubKnowsActors ==
    /\ \A a \in Actors :
          /\ a \in directory <=> actorOwner[a] # NoOwner
          /\ \A c \in HubConnIds : a \in connRegs[c] <=> actorOwner[a] = c
    /\ \A c \in forgotten : connRegs[c] = {} /\ c \notin authed
    /\ HubQuiet => \A a \in Actors \ (overlapped \union overtaken \union Rejected) : a \in directory <=> a \in ownedActors
=============================================================================

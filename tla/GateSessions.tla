----------------------------- MODULE GateSessions -----------------------------
(***************************************************************************)
(* The sessions of clients between a gate and a logic node: over kkrpc      *)
(* ("rpc") or one shard ("shard"), where a channel is a connection of the   *)
(* logic node to its gate, or over the NATS cluster ("nats"), where it is   *)
(* the pair of subjects the logic node shares with one of the gates.        *)
(*                                                                         *)
(* The gate forwards what a client sends (ForwardToLogic) on the goroutine  *)
(* that reads the client, and tells the logic node that the client is gone  *)
(* (NotifyClientDisconnect) on a goroutine of its own.  The logic node adds *)
(* a session when it hears of it first and forgets it when it is told.      *)
(***************************************************************************)
EXTENDS Naturals, SequencesExt

CONSTANTS LinkKinds, \* "rpc", "shard", "nats"
          Sids,      \* the sessions of clients
          Home,      \* the gate of a session, when there are several
          Chans,     \* 1..n: the connections of a run, or the gates
          Forwards,  \* bound: messages of each client, by kind; 0: no such client
          Calls,     \* bound: calls of the logic node
          Breaks,    \* bound: connections that break
          Objs       \* the SessionInfo objects there may be

VARIABLES
    linkKind,
    upLink, downLink, linkOpen,                 \* the channels
    conns, sends, boundTo, forwarding, notes,   \* the gate and its clients
    registered, asks,                           \* the node at the gate, and its request
    latest, sessionOf, owner, online, gpc,      \* the logic node
    calls, breaks,                              \* bounds
    sentTo, gotTo,                              \* history: sent and delivered
    untold, overlap, doubled, misled            \* history: what went wrong

gateVars == <<conns, sends, boundTo, forwarding, notes>>
sessVars == <<sessionOf, owner, online, gpc>>
histVars == <<sentTo, gotTo, untold, overlap, doubled, misled>>
linkVars == <<linkKind, upLink, downLink, linkOpen, gateVars, registered, asks, latest, sessVars,
              calls, breaks, histVars>>

NoChan == 0
NoObj == 0
NoSid == "-"
Hook == "hook"
HandlerRests == [at |-> "no", s |-> NoSid, o |-> NoObj]

LinkInit ==
  /\ linkKind \in LinkKinds
  /\ upLink = [c \in Chans |-> <<>>] /\ downLink = [c \in Chans |-> <<>>]
  /\ linkOpen = [c \in Chans |-> linkKind = "nats" \/ c = 1]
  /\ conns = [s \in Sids |-> "none"] /\ sends = [s \in Sids |-> 0]
  /\ boundTo = {} /\ notes = {}
  /\ forwarding = [s \in Sids |-> [at |-> "no", c |-> NoChan]]
  /\ registered = NoChan /\ asks = (linkKind # "nats")
  /\ latest = 1
  /\ sessionOf = [s \in Sids |-> NoObj] /\ owner = [o \in Objs |-> NoSid]
  /\ online = 0 /\ gpc = [c \in Chans |-> HandlerRests]
  /\ calls = 0 /\ breaks = 0
  /\ sentTo = {} /\ gotTo = {}
  /\ untold = {} /\ overlap = {} /\ doubled = 0 /\ misled = {}

(***************************************************************************)
(* Sending.  An open channel takes the message; over NATS the sender may    *)
(* also be refused, or the receiver miss it, while the channel is down.     *)
(***************************************************************************)
Put(q, c, m) == [q EXCEPT ![c] = Append(@, m)]

(* The channel a session's messages take at the gate: the connection its   *)
(* node registered with, if it has, or the subjects of its gate.           *)
getLogicNode == registered
sendToLogicShard == registered
Towards(s) == CASE linkKind = "rpc" -> getLogicNode
                [] linkKind = "shard" -> sendToLogicShard
                [] linkKind = "nats" -> Home[s]

(* ... and at the logic node.                                              *)
Back(s) == IF linkKind = "nats" THEN Home[s] ELSE latest

(***************************************************************************)
(* The gate: clients come, send and go.                                     *)
(***************************************************************************)
GetConn(s) == conns[s] \in {"open", "told"}

AddClientConn(s) ==
  /\ conns[s] = "none" /\ Forwards[linkKind][s] > 0
  /\ conns' = [conns EXCEPT ![s] = "open"]
  /\ UNCHANGED <<linkKind, upLink, downLink, linkOpen, sends, boundTo, forwarding,
                 notes, registered, asks, latest, sessVars, calls, breaks, histVars>>

(* The reader of the client is in OnRaw: it binds the session to the node  *)
(* and looks the node up, even after ClientCloses read the bindings, ...   *)
ForwardBegins(s) ==
  /\ GetConn(s) /\ sends[s] < Forwards[linkKind][s] /\ forwarding[s].at = "no"
  /\ sends' = [sends EXCEPT ![s] = @ + 1]
  /\ IF Towards(s) = NoChan
     THEN UNCHANGED <<boundTo, forwarding>>
     ELSE /\ boundTo' = boundTo \cup {s}
          /\ forwarding' = [forwarding EXCEPT ![s] = [at |-> "conn", c |-> Towards(s)]]
  /\ UNCHANGED <<linkKind, upLink, downLink, linkOpen, conns, notes, registered, asks,
                 latest, sessVars, calls, breaks, histVars>>

(* ... then, over kkrpc, whether the client is still there, ...            *)
ForwardChecks(s) ==
  /\ forwarding[s].at = "conn"
  /\ forwarding' = [forwarding EXCEPT ![s].at =
                       IF linkKind = "nats" \/ GetConn(s) THEN "send" ELSE "no"]
  /\ UNCHANGED <<linkKind, upLink, downLink, linkOpen, conns, sends, boundTo, notes,
                 registered, asks, latest, sessVars, calls, breaks, histVars>>

(* ... and sends.  What it sends may come after the news that the client   *)
(* is gone.                                                                *)
ForwardToLogic(s) ==
  /\ forwarding[s].at = "send"
  /\ forwarding' = [forwarding EXCEPT ![s].at = "no"]
  /\ downLink' = IF linkOpen[forwarding[s].c]
                 THEN Put(downLink, forwarding[s].c, [t |-> "c2s", s |-> s]) ELSE downLink
  /\ untold' = IF linkOpen[forwarding[s].c] /\ conns[s] # "open" /\ s \notin notes
               THEN untold \cup {s} ELSE untold
  /\ UNCHANGED <<linkKind, upLink, linkOpen, conns, sends, boundTo, notes, registered,
                 asks, latest, sessVars, calls, breaks, sentTo, gotTo, overlap,
                 doubled, misled>>

(* The connection of the client closes: a goroutine for the news, ...      *)
ClientCloses(s) ==
  /\ conns[s] = "open"
  /\ conns' = [conns EXCEPT ![s] = "told"]
  /\ notes' = IF s \in boundTo THEN notes \cup {s} ELSE notes
  /\ UNCHANGED <<linkKind, upLink, downLink, linkOpen, sends, boundTo, forwarding,
                 registered, asks, latest, sessVars, calls, breaks, histVars>>

(* ... and the tables forget it.                                           *)
RemoveClientConn(s) ==
  /\ conns[s] = "told"
  /\ conns' = [conns EXCEPT ![s] = "gone"]
  /\ UNCHANGED <<linkKind, upLink, downLink, linkOpen, sends, boundTo, forwarding,
                 notes, registered, asks, latest, sessVars, calls, breaks, histVars>>

NotifyClientDisconnect(s) ==
  /\ s \in notes
  /\ notes' = notes \ {s}
  /\ LET c == Towards(s) IN
       IF c # NoChan /\ linkOpen[c]
       THEN downLink' = Put(downLink, c, [t |-> "gone", s |-> s]) /\ untold' = untold
       ELSE downLink' = downLink /\ untold' = untold \cup {s}
  /\ UNCHANGED <<linkKind, upLink, linkOpen, conns, sends, boundTo, forwarding,
                 registered, asks, latest, sessVars, calls, breaks, sentTo, gotTo,
                 overlap, doubled, misled>>

(***************************************************************************)
(* The logic node: GetSession, AddSessionWithShard and RemoveSession.       *)
(***************************************************************************)
(* The handlers of one channel run one after the other; those of NATS all  *)
(* share one worker.                                                       *)
MayRun(c) == /\ gpc[c].at = "no" /\ downLink[c] # <<>>
             /\ linkKind = "nats" => \A d \in Chans : gpc[d].at = "no"

(* Another channel has news of the same session, or is at it.              *)
Crosses(c, s) == \E d \in Chans \ {c} :
  \/ gpc[d].at # "no" /\ gpc[d].s = s
  \/ \E i \in 1..Len(downLink[d]) : downLink[d][i].s = s
Crossed(c, s) == IF Crosses(c, s) THEN overlap \cup {s} ELSE overlap

Handling(c, at, s, o) == gpc' = [gpc EXCEPT ![c] = [at |-> at, s |-> s, o |-> o]]

OnC2S(c) ==
  LET s == Head(downLink[c]).s IN
  /\ MayRun(c) /\ Head(downLink[c]).t = "c2s"
  /\ downLink' = [downLink EXCEPT ![c] = Tail(@)]
  /\ IF sessionOf[s] # NoObj THEN Handling(c, "use", s, sessionOf[s]) ELSE Handling(c, "add", s, NoObj)
  /\ overlap' = Crossed(c, s)
  /\ UNCHANGED <<linkKind, upLink, linkOpen, gateVars, registered, asks, latest,
                 sessionOf, owner, online, calls, breaks, sentTo, gotTo, untold,
                 doubled, misled>>

(* AddSessionWithShard looks again, counts the session, takes an object of *)
(* the pool and stores it: over what another handler stored meanwhile.     *)
AddLooks(c) ==
  LET s == gpc[c].s IN
  /\ gpc[c].at = "add"
  /\ IF sessionOf[s] # NoObj THEN Handling(c, "use", s, sessionOf[s]) /\ UNCHANGED <<owner, online>>
     ELSE \E o \in {p \in Objs : owner[p] = NoSid} :
            /\ online' = online + 1
            /\ owner' = [owner EXCEPT ![o] = s]
            /\ Handling(c, "store", s, o)
  /\ UNCHANGED <<linkKind, upLink, downLink, linkOpen, gateVars, registered, asks,
                 latest, sessionOf, calls, breaks, histVars>>

AddSessionWithShard(c) ==
  LET s == gpc[c].s IN
  /\ gpc[c].at = "store"
  /\ sessionOf' = [sessionOf EXCEPT ![s] = gpc[c].o]
  /\ doubled' = IF sessionOf[s] # NoObj THEN doubled + 1 ELSE doubled
  /\ Handling(c, "use", s, gpc[c].o)
  /\ UNCHANGED <<linkKind, upLink, downLink, linkOpen, gateVars, registered, asks,
                 latest, owner, online, calls, breaks, sentTo, gotTo, untold, overlap,
                 misled>>

(* OnSession is called with the thread of the object: of another session,  *)
(* or none, if the object went back to the pool in between.                *)
OnSession(c) ==
  /\ gpc[c].at = "use"
  /\ misled' = IF owner[gpc[c].o] # gpc[c].s THEN misled \cup {gpc[c].s} ELSE misled
  /\ gpc' = [gpc EXCEPT ![c] = HandlerRests]
  /\ UNCHANGED <<linkKind, upLink, downLink, linkOpen, gateVars, registered, asks,
                 latest, sessionOf, owner, online, calls, breaks, sentTo, gotTo,
                 untold, overlap, doubled>>

(* A change: no look whether the session is still there.                   *)
RemoveSessionTwice(c) ==
  LET s == Head(downLink[c]).s IN
  /\ MayRun(c) /\ Head(downLink[c]).t = "gone"
  /\ downLink' = [downLink EXCEPT ![c] = Tail(@)]
  /\ overlap' = Crossed(c, s)
  /\ sessionOf' = [sessionOf EXCEPT ![s] = NoObj]
  /\ online' = online - 1
  /\ owner' = [o \in Objs |-> IF sessionOf[s] = o THEN NoSid ELSE owner[o]]
  /\ UNCHANGED <<linkKind, upLink, linkOpen, gateVars, registered, asks, latest, gpc,
                 calls, breaks, sentTo, gotTo, untold, doubled, misled>>

RemoveSession(c) ==
  LET s == Head(downLink[c]).s IN
  /\ MayRun(c) /\ Head(downLink[c]).t = "gone"
  /\ downLink' = [downLink EXCEPT ![c] = Tail(@)]
  /\ overlap' = Crossed(c, s)
  /\ IF sessionOf[s] = NoObj THEN UNCHANGED <<sessionOf, owner, online>>
     ELSE /\ sessionOf' = [sessionOf EXCEPT ![s] = NoObj]
          /\ online' = online - 1
          /\ owner' = [owner EXCEPT ![sessionOf[s]] = NoSid]
  /\ UNCHANGED <<linkKind, upLink, linkOpen, gateVars, registered, asks, latest, gpc,
                 calls, breaks, sentTo, gotTo, untold, doubled, misled>>

(***************************************************************************)
(* The logic node sends: registration, messages for clients, the login of  *)
(* a user, the request to close a client, and its departure.               *)
(***************************************************************************)
NodeSays(c, m) == upLink' = IF linkOpen[c] THEN Put(upLink, c, m) ELSE upLink

(* The node asks to be registered: over kkrpc once in its life, over       *)
(* shards with every connection.                                           *)
registerToGatewayRpc ==
  /\ asks /\ linkOpen[latest]
  /\ asks' = FALSE
  /\ NodeSays(latest, [t |-> "reg", to |-> {}, n |-> 0])
  /\ UNCHANGED <<linkKind, downLink, linkOpen, gateVars, registered, latest, sessVars,
                 calls, breaks, histVars>>

Known(S) == {s \in S : sessionOf[s] # NoObj}

(* One client: refused if the node has not the session.  Several: kkrpc    *)
(* sends the list as it is in one message, a shard one message for each     *)
(* session it knows, NATS one for each gate with the sessions it knows.     *)
ToOne(s) == {<<Back(r), {r}>> : r \in Known({s})}

RpcToMany(S) == IF Cardinality(S) = 1 THEN UNION {ToOne(s) : s \in S} ELSE {<<latest, S>>}
ShardToMany(S) == UNION {ToOne(s) : s \in S}
NatsToMany(S) == {<<c, {s \in Known(S) : Back(s) = c}>> : c \in {Back(s) : s \in Known(S)}}
ToMany(S) == CASE linkKind = "rpc" -> RpcToMany(S)
               [] linkKind = "shard" -> ShardToMany(S)
               [] linkKind = "nats" -> NatsToMany(S)

(* What is sent: messages, each to a channel and for some sessions.        *)
SendsAll(msgs) ==
  /\ calls < Calls /\ msgs # {}
  /\ \A m \in msgs : linkOpen[m[1]]
  /\ calls' = calls + 1
  /\ upLink' = [c \in Chans |-> upLink[c] \o SetToSeq({[t |-> "s2c", to |-> m[2], n |-> calls'] :
                                               m \in {p \in msgs : p[1] = c}})]
  /\ sentTo' = sentTo \cup {<<calls', s>> : s \in {r \in UNION {m[2] : m \in msgs} : conns[r] = "open"}}
  /\ UNCHANGED <<linkKind, downLink, linkOpen, gateVars, registered, asks, latest,
                 sessVars, breaks, gotTo, untold, overlap, doubled, misled>>

ForwardToClient(s) == SendsAll(ToOne(s))
ForwardToClients(S) == SendsAll(ToMany(S))

(* SendToClients over kkrpc does not ask for the session of a single one.  *)
SendToClients(S) == SendsAll(IF linkKind = "rpc" THEN {<<latest, S>>} ELSE ToMany(S))

NotifyClientLoginLogout(s) ==
  /\ calls < Calls
  /\ sessionOf[s] # NoObj /\ linkOpen[Back(s)]
  /\ calls' = calls + 1
  /\ NodeSays(Back(s), [t |-> "login", to |-> {s}, n |-> calls'])
  /\ sentTo' = sentTo \cup {<<calls', Hook>>}
  /\ UNCHANGED <<linkKind, downLink, linkOpen, gateVars, registered, asks, latest,
                 sessVars, breaks, gotTo, untold, overlap, doubled, misled>>

CloseClient(s) ==
  /\ calls < Calls
  /\ sessionOf[s] # NoObj /\ linkOpen[Back(s)]
  /\ calls' = calls + 1
  /\ NodeSays(Back(s), [t |-> "close", to |-> {s}, n |-> calls'])
  /\ UNCHANGED <<linkKind, downLink, linkOpen, gateVars, registered, asks, latest,
                 sessVars, breaks, histVars>>

(***************************************************************************)
(* The handlers of the gate.                                                *)
(***************************************************************************)
LinkHandled(c) == /\ upLink[c] # <<>> /\ upLink' = [upLink EXCEPT ![c] = Tail(@)]

(* The steps of registering and of the connection that closes are those of *)
(* NodeTable and GateShards; here each is one.                             *)
OnRegister(c) ==
  /\ LinkHandled(c) /\ Head(upLink[c]).t = "reg"
  /\ registered' = IF linkOpen[c] THEN c ELSE registered
  /\ UNCHANGED <<linkKind, downLink, linkOpen, gateVars, asks, latest, sessVars, calls,
                 breaks, histVars>>

(* To the connection of each session that has one.                         *)
Delivers(to) == {r \in to : GetConn(r)}

OnS2Clients(c) ==
  /\ LinkHandled(c) /\ Head(upLink[c]).t = "s2c"
  /\ gotTo' = gotTo \cup {<<Head(upLink[c]).n, s>> : s \in Delivers(Head(upLink[c]).to)}
  /\ UNCHANGED <<linkKind, downLink, linkOpen, gateVars, registered, asks, latest,
                 sessVars, calls, breaks, sentTo, untold, overlap, doubled, misled>>

OnClientLoginLogout(c) ==
  /\ LinkHandled(c) /\ Head(upLink[c]).t = "login"
  /\ gotTo' = gotTo \cup {<<Head(upLink[c]).n, Hook>>}
  /\ UNCHANGED <<linkKind, downLink, linkOpen, gateVars, registered, asks, latest,
                 sessVars, calls, breaks, sentTo, untold, overlap, doubled, misled>>

(* CloseConn closes the connection, and OnClose follows.                   *)
CloseConn(s) ==
  /\ conns' = IF conns[s] = "open" THEN [conns EXCEPT ![s] = "told"] ELSE conns
  /\ notes' = IF conns[s] = "open" /\ s \in boundTo THEN notes \cup {s} ELSE notes

OnCloseClient(c) ==
  /\ LinkHandled(c) /\ Head(upLink[c]).t = "close"
  /\ \A s \in Head(upLink[c]).to : CloseConn(s)
  /\ UNCHANGED <<linkKind, downLink, linkOpen, sends, boundTo, forwarding, registered,
                 asks, latest, sessVars, calls, breaks, histVars>>

(***************************************************************************)
(* Failures.  When a connection breaks each side still handles what it has *)
(* read: a prefix of what was sent.                                        *)
(***************************************************************************)
MissedUp(q, p) == UNION {{<<q[i].n, s>> : s \in q[i].to \cup {Hook}} : i \in (Len(p) + 1)..Len(q)}
MissedDown(q, p) == {q[i].s : i \in {j \in (Len(p) + 1)..Len(q) : q[j].t = "gone"}}

(* What both ends keep of channel c.                                       *)
Loses(c) ==
  \E pu \in Prefixes(upLink[c]), pd \in Prefixes(downLink[c]) :
    /\ upLink' = [upLink EXCEPT ![c] = pu] /\ downLink' = [downLink EXCEPT ![c] = pd]
    /\ sentTo' = sentTo \ MissedUp(upLink[c], pu)
    /\ untold' = untold \cup MissedDown(downLink[c], pd)

(* The client of the logic node reconnects and its process goes on.  Over  *)
(* kkrpc nothing asks it to register again; over NATS the subscriptions    *)
(* come back.                                                              *)
LinkBreaks ==
  /\ breaks < Breaks /\ breaks' = breaks + 1
  /\ IF linkKind = "nats"
     THEN \E c \in Chans : Loses(c) /\ UNCHANGED <<linkOpen, latest, registered, asks>>
     ELSE /\ latest + 1 \in Chans /\ Loses(latest)
          /\ linkOpen' = [linkOpen EXCEPT ![latest] = FALSE, ![latest + 1] = TRUE]
          /\ registered' = NoChan
          /\ asks' = (asks \/ linkKind = "shard")
          /\ latest' = latest + 1
  /\ UNCHANGED <<linkKind, gateVars, sessVars, calls, gotTo, overlap, doubled, misled>>

(* The process ends: what it had not handled is gone with its sessions;    *)
(* another one starts with none.                                           *)
NodeProcessRestarts ==
  /\ linkKind # "nats" /\ latest + 1 \in Chans
  /\ breaks < Breaks /\ breaks' = breaks + 1
  /\ \E pu \in Prefixes(upLink[latest]) :
       /\ upLink' = [upLink EXCEPT ![latest] = pu]
       /\ sentTo' = sentTo \ MissedUp(upLink[latest], pu)
  /\ downLink' = [c \in Chans |-> <<>>]
  /\ linkOpen' = [linkOpen EXCEPT ![latest] = FALSE, ![latest + 1] = TRUE]
  /\ latest' = latest + 1 /\ registered' = NoChan /\ asks' = TRUE
  /\ sessionOf' = [s \in Sids |-> NoObj] /\ owner' = [o \in Objs |-> NoSid]
  /\ online' = 0 /\ gpc' = [c \in Chans |-> HandlerRests] /\ doubled' = 0
  /\ UNCHANGED <<linkKind, gateVars, calls, gotTo, untold, overlap, misled>>

LinkNext ==
  \/ \E s \in Sids : \/ AddClientConn(s) \/ ForwardBegins(s) \/ ForwardChecks(s)
                      \/ ForwardToLogic(s) \/ ClientCloses(s) \/ RemoveClientConn(s)
                      \/ NotifyClientDisconnect(s) \/ NotifyClientLoginLogout(s)
                      \/ CloseClient(s) \/ ForwardToClient(s)
  \/ \E c \in Chans : \/ OnC2S(c) \/ AddLooks(c) \/ AddSessionWithShard(c)
                       \/ OnSession(c) \/ RemoveSession(c)
                       \/ OnRegister(c) \/ OnS2Clients(c)
                       \/ OnClientLoginLogout(c) \/ OnCloseClient(c)
  \/ \E S \in SUBSET Sids \ {{}} : ForwardToClients(S) \/ SendToClients(S)
  \/ registerToGatewayRpc \/ LinkBreaks \/ NodeProcessRestarts

LinkSpec == LinkInit /\ [][LinkNext]_linkVars

(***************************************************************************)
(* Properties                                                              *)
(***************************************************************************)
LinkSettled ==
  /\ \A c \in Chans : /\ upLink[c] = <<>> /\ downLink[c] = <<>> /\ gpc[c].at = "no"
  /\ notes = {} /\ \A s \in Sids : forwarding[s].at = "no" /\ conns[s] # "told"

(* The counter of sessions is the number of sessions, but for those two    *)
(* handlers added twice; that, and a message given to the thread of        *)
(* another session, takes two connections that deliver news of the same    *)
(* session at once.                                                        *)
CountsSessions ==
  /\ online = Cardinality({s \in Sids : sessionOf[s] # NoObj})
              + Cardinality({c \in Chans : gpc[c].at = "store"}) + doubled
  /\ doubled > 0 => overlap # {}
  /\ misled \subseteq overlap

(* When everything has been handled, a logic node keeps the session of a   *)
(* client that is gone only if a message overtook the news, or the news    *)
(* could not be delivered.                                                 *)
SessionsGo ==
  LinkSettled =>
  \A s \in Sids : conns[s] = "gone" /\ sessionOf[s] # NoObj => s \in untold \cup overlap

(* ... and every client that stayed has what it was sent on a channel that *)
(* stayed.                                                                 *)
SentArrives ==
  LinkSettled =>
  \A o \in sentTo : o \in gotTo \/ (o[2] \in Sids /\ conns[o[2]] # "open")

(* The three together: what the gate and the logic node keep of a client,  *)
(* gametrans/session.go and the transports on both sides.                  *)
SessionsHold == CountsSessions /\ SessionsGo /\ SentArrives
=============================================================================

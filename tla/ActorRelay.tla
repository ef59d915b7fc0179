----------------------------- MODULE ActorRelay -----------------------------
(***************************************************************************)
(* kkapp/kkactor/transport/atransrelay: requests between the actors of     *)
(* nodes, relayed by a hub.  A node keeps one connection to the hub and    *)
(* tells it its name on every new one.  The client below is that of kktcp  *)
(* (GnetClient): OnConnect runs on its event loop, OnClose after all       *)
(* messages of the connection were handled, the next dial after OnClose;   *)
(* a Close that finds no connection does not stop a dial.  The hub handles *)
(* the messages of a connection in order, and its end after them.  Start   *)
(* and Close of a Transport are called in turn, not at once.               *)
(***************************************************************************)
EXTENDS Integers, Sequences

CONSTANTS
    RelayNodes,
    RelayReqs,      \* requests
    Src, Dst,       \* the node that sends a request, and the one that answers it
    MaxStarts,      \* calls of Start of each node (bound)
    MaxLinks,       \* connections of one node (bound, never reached)
    MaxBreaks       \* connections that break (bound)

Links == 1..MaxLinks
NoLink == 0

VARIABLES
    \* Transport
    life,           \* "none", "starting", "running" or "closed": what the user has called
    startedNodes, registered, regCh,
    client,         \* number of the GnetClient in t.client
    pending, chan,  \* requests waiting for an answer, and the channel of each
    reqAt, result,
    serving, served,    \* requests in handleInboundRelay, and how often each was
    \* the GnetClients
    dialing,        \* clients with a dial under way
    stopped,        \* clients whose status is Closing or Closed
    own,            \* the client of each connection
    link,           \* "none", "open" (client.conn), "closed", or "done": OnClose has run
    loopAt,         \* where OnConnect is: "register", "store" or "idle"
    alive, up, down,
    \* the Hub
    nodes,          \* node -> session (that of a connection)
    named,          \* sessions with a nodeID
    gone,           \* connections whose OnClose has run
    kicked,         \* go old.conn.Close()
    breaks,
    misled          \* nodes whose flag an OnClose of an earlier client has cleared

lifeVars == <<life, startedNodes, regCh, client>>
reqVars == <<pending, chan, reqAt, result>>
servVars == <<serving, served>>
dialVars == <<dialing, stopped, own>>
linkVars == <<link, loopAt>>
wireVars == <<up, down>>
relayHubVars == <<nodes, named, gone, kicked>>
relayVars == <<lifeVars, registered, reqVars, servVars, dialVars, linkVars, alive, wireVars,
               relayHubVars, breaks, misled>>

\* Nothing is connected, or all nodes are and requests go between them.
RelayInit == \E on \in {{}, RelayNodes} :
    /\ life = [n \in RelayNodes |-> IF n \in on THEN "running" ELSE "none"]
    /\ startedNodes = on /\ registered = on /\ regCh = {}
    /\ client = [n \in RelayNodes |-> IF n \in on THEN MaxStarts[n] ELSE 0]
    /\ pending = {} /\ chan = [r \in RelayReqs |-> "none"] /\ result = chan
    /\ reqAt = [r \in RelayReqs |-> IF {Src[r], Dst[r]} \subseteq on THEN "idle" ELSE "done"]
    /\ serving = {} /\ served = [r \in RelayReqs |-> 0]
    /\ dialing = {} /\ stopped = {}
    /\ own = [n \in RelayNodes |-> [k \in Links |-> IF n \in on /\ k = 1 THEN MaxStarts[n] ELSE 0]]
    /\ link = [n \in RelayNodes |-> [k \in Links |->
                   IF n \in on /\ k = 1 THEN "open" ELSE "none"]]
    /\ loopAt = [n \in RelayNodes |-> [k \in Links |-> "idle"]]
    /\ alive = on \X {1} /\ named = on \X {1} /\ gone = {} /\ kicked = {}
    /\ up = [n \in RelayNodes |-> [k \in Links |-> <<>>]] /\ down = up
    /\ nodes = [n \in RelayNodes |-> IF n \in on THEN 1 ELSE NoLink]
    /\ breaks = 0 /\ misled = {}

Made(n) == {k \in Links : link[n][k] # "none"}
OfClient(n) == {k \in Made(n) : own[n][k] = client[n]}
\* client.conn; 0 for nil
Cur(n) == IF \E k \in OfClient(n) : link[n][k] = "open"
          THEN CHOOSE k \in OfClient(n) : link[n][k] = "open" ELSE NoLink
IsConnected(n) == /\ <<n, client[n]>> \notin stopped
                  /\ \E k \in OfClient(n) : link[n][k] \in {"open", "closed"}
connected(n) == n \in startedNodes /\ n \in registered /\ IsConnected(n)

Msg(what, r) == [what |-> what, req |-> r]
\* SendBuffer: what goes into a broken connection is lost.
SendUp(n, m) == up' = IF <<n, Cur(n)>> \in alive THEN [up EXCEPT ![n][Cur(n)] = Append(@, m)]
                                                 ELSE up

\* failAllPending and completeReply: who removes the tag, or comes first, fills the channel.
Answered(R, a) == [r \in RelayReqs |-> IF r \in R \cap pending THEN a ELSE chan[r]]
failAllPending(n) ==
    LET mine == {r \in pending : Src[r] = n} IN
    chan' = Answered(mine, "err") /\ pending' = pending \ mine
-----------------------------------------------------------------------------
(* Transport: Start, Close and the handler of the client *)
TransportStart(n) ==
    /\ life[n] \in {"none", "closed"} /\ client[n] < MaxStarts[n]
    /\ life' = [life EXCEPT ![n] = "starting"]
    /\ startedNodes' = startedNodes \cup {n} /\ regCh' = regCh \ {n}
    /\ client' = [client EXCEPT ![n] = @ + 1]
    /\ dialing' = dialing \cup {<<n, client[n] + 1>>}
    /\ UNCHANGED <<registered, reqVars, servVars, stopped, own, linkVars, alive, wireVars,
                   relayHubVars, breaks, misled>>

StartFails(n) ==
    /\ life[n] = "starting" /\ <<n, client[n]>> \in dialing /\ OfClient(n) = {}
    /\ life' = [life EXCEPT ![n] = "closed"] /\ startedNodes' = startedNodes \ {n}
    /\ dialing' = dialing \ {<<n, client[n]>>} /\ stopped' = stopped \cup {<<n, client[n]>>}
    /\ UNCHANGED <<regCh, client, registered, reqVars, servVars, own, linkVars, alive, wireVars,
                   relayHubVars, breaks, misled>>

\* Connect has returned, and OnConnect has sent the name.
StartReturns(n) ==
    /\ life[n] = "starting" /\ OfClient(n) # {} /\ n \in regCh
    /\ life' = [life EXCEPT ![n] = "running"] /\ regCh' = regCh \ {n}
    /\ UNCHANGED <<startedNodes, client, registered, reqVars, servVars, dialVars, linkVars, alive,
                   wireVars, relayHubVars, breaks, misled>>

Close(n) ==
    LET k == Cur(n) IN
    /\ life[n] = "running"
    /\ life' = [life EXCEPT ![n] = "closed"]
    /\ startedNodes' = startedNodes \ {n} /\ registered' = registered \ {n}
    /\ stopped' = stopped \cup {<<n, client[n]>>}
    /\ link' = IF k = NoLink THEN link ELSE [link EXCEPT ![n][k] = "closed"]
    /\ alive' = alive \ {<<n, k>>}
    /\ failAllPending(n)
    /\ UNCHANGED <<regCh, client, reqAt, result, servVars, dialing, own, loopAt, wireVars,
                   relayHubVars, breaks, misled>>

\* The status becomes Connected whatever it was.
OnOpen(n, c) == \E k \in Links \ Made(n) :
    /\ <<n, c>> \in dialing /\ \A j \in Links \ Made(n) : k <= j
    /\ dialing' = dialing \ {<<n, c>>} /\ stopped' = stopped \ {<<n, c>>}
    /\ own' = [own EXCEPT ![n][k] = c] /\ link' = [link EXCEPT ![n][k] = "open"]
    /\ loopAt' = [loopAt EXCEPT ![n][k] = "register"] /\ alive' = alive \cup {<<n, k>>}
    /\ UNCHANGED <<lifeVars, registered, reqVars, servVars, wireVars, relayHubVars, breaks,
                   misled>>

DialEnds(n, c) ==
    /\ <<n, c>> \in dialing \cap stopped
    /\ dialing' = dialing \ {<<n, c>>}
    /\ UNCHANGED <<lifeVars, registered, reqVars, servVars, stopped, own, linkVars, alive,
                   wireVars, relayHubVars, breaks, misled>>

\* register: through t.client, whichever client calls the handler.
OnConnect(n, k) ==
    /\ loopAt[n][k] = "register"
    /\ loopAt' = [loopAt EXCEPT ![n][k] = IF Cur(n) = NoLink THEN "idle" ELSE "store"]
    /\ SendUp(n, Msg("reg", "none"))
    /\ UNCHANGED <<lifeVars, registered, reqVars, servVars, dialVars, link, alive, down,
                   relayHubVars, breaks, misled>>

OnConnectStores(n, k) ==
    /\ loopAt[n][k] = "store"
    /\ loopAt' = [loopAt EXCEPT ![n][k] = "idle"]
    /\ registered' = registered \cup {n} /\ regCh' = regCh \cup {n}
    /\ misled' = misled \ {n}
    /\ UNCHANGED <<life, startedNodes, client, reqVars, servVars, dialVars, link, alive, wireVars,
                   relayHubVars, breaks>>

LinkBreaks(n, k) ==
    /\ <<n, k>> \in alive /\ breaks < MaxBreaks
    /\ alive' = alive \ {<<n, k>>} /\ breaks' = breaks + 1
    /\ UNCHANGED <<lifeVars, registered, reqVars, servVars, dialVars, linkVars, wireVars,
                   relayHubVars, misled>>

LinkLost(n, k) ==
    /\ link[n][k] = "open" /\ <<n, k>> \notin alive /\ loopAt[n][k] = "idle"
    /\ link' = [link EXCEPT ![n][k] = "closed"]
    /\ UNCHANGED <<lifeVars, registered, reqVars, servVars, dialVars, loopAt, alive, wireVars,
                   relayHubVars, breaks, misled>>

\* clientHandler.OnClose, then the client dials again.
OnClose(n, k) ==
    /\ link[n][k] = "closed" /\ loopAt[n][k] = "idle"
    /\ link' = [link EXCEPT ![n][k] = "done"] /\ down' = [down EXCEPT ![n][k] = <<>>]
    /\ registered' = registered \ {n}
    /\ failAllPending(n)
    /\ dialing' = IF <<n, own[n][k]>> \in stopped THEN dialing
                                                   ELSE dialing \cup {<<n, own[n][k]>>}
    /\ misled' = IF own[n][k] # client[n] THEN misled \cup {n} ELSE misled
    /\ UNCHANGED <<lifeVars, reqAt, result, servVars, stopped, own, loopAt, alive, up,
                   relayHubVars, breaks>>
-----------------------------------------------------------------------------
(* Request *)
RequestChecks(r) ==
    /\ reqAt[r] = "idle"
    /\ IF connected(Src[r]) THEN reqAt' = [reqAt EXCEPT ![r] = "stores"] /\ result' = result
       ELSE reqAt' = [reqAt EXCEPT ![r] = "done"] /\ result' = [result EXCEPT ![r] = "err"]
    /\ UNCHANGED <<lifeVars, registered, pending, chan, servVars, dialVars, linkVars, alive,
                   wireVars, relayHubVars, breaks, misled>>

RequestStores(r) ==
    /\ reqAt[r] = "stores"
    /\ reqAt' = [reqAt EXCEPT ![r] = "sends"] /\ pending' = pending \cup {r}
    /\ UNCHANGED <<lifeVars, registered, chan, result, servVars, dialVars, linkVars, alive,
                   wireVars, relayHubVars, breaks, misled>>

RequestSends(r) ==
    /\ reqAt[r] = "sends"
    /\ IF Cur(Src[r]) = NoLink
       THEN /\ reqAt' = [reqAt EXCEPT ![r] = "done"] /\ result' = [result EXCEPT ![r] = "err"]
            /\ pending' = pending \ {r} /\ up' = up
       ELSE /\ reqAt' = [reqAt EXCEPT ![r] = "waits"] /\ SendUp(Src[r], Msg("relay", r))
            /\ UNCHANGED <<result, pending>>
    /\ UNCHANGED <<lifeVars, registered, chan, servVars, dialVars, linkVars, alive, down,
                   relayHubVars, breaks, misled>>

\* The channel or the timer; the tag goes in any case.
RequestReturns(r) ==
    /\ reqAt[r] = "waits"
    /\ reqAt' = [reqAt EXCEPT ![r] = "done"] /\ pending' = pending \ {r}
    /\ \/ chan[r] # "none" /\ result' = [result EXCEPT ![r] = chan[r]]
       \/ result' = [result EXCEPT ![r] = "timeout"]
    /\ UNCHANGED <<lifeVars, registered, chan, servVars, dialVars, linkVars, alive, wireVars,
                   relayHubVars, breaks, misled>>

\* OnRaw: a relayed request gets a goroutine, an answer its channel.
NodeReads(n, k) ==
    LET m == Head(down[n][k]) IN
    /\ link[n][k] \in {"open", "closed"} /\ down[n][k] # <<>>
    /\ down' = [down EXCEPT ![n][k] = Tail(@)]
    /\ IF m.what = "relay"
       THEN /\ serving' = serving \cup {m.req} /\ served' = [served EXCEPT ![m.req] = @ + 1]
            /\ UNCHANGED <<chan, pending>>
       ELSE /\ chan' = Answered({m.req}, m.what) /\ pending' = pending \ {m.req}
            /\ UNCHANGED servVars
    /\ UNCHANGED <<lifeVars, registered, reqAt, result, dialVars, linkVars, alive, up,
                   relayHubVars, breaks, misled>>

handleInboundRelay(r) ==
    LET n == Dst[r] IN
    /\ r \in serving
    /\ serving' = serving \ {r}
    /\ IF connected(n) THEN SendUp(n, Msg("reply", r)) ELSE up' = up
    /\ UNCHANGED <<lifeVars, registered, reqVars, served, dialVars, linkVars, alive, down,
                   relayHubVars, breaks, misled>>
-----------------------------------------------------------------------------
(* Hub *)
Forward(n, k, m) == down' = IF <<n, k>> \in alive THEN [down EXCEPT ![n][k] = Append(@, m)]
                                                  ELSE down

\* A session that another one replaces is closed.
bind(n, k) ==
    /\ nodes' = [nodes EXCEPT ![n] = k] /\ named' = named \cup {<<n, k>>}
    /\ kicked' = IF nodes[n] \in {NoLink, k} THEN kicked ELSE kicked \cup {<<n, nodes[n]>>}

dispatch(n, k) ==
    LET m == Head(up[n][k]) IN
    /\ up[n][k] # <<>> /\ <<n, k>> \notin gone
    /\ up' = [up EXCEPT ![n][k] = Tail(@)]
    /\ IF m.what = "reg" THEN bind(n, k) /\ down' = down
       ELSE /\ UNCHANGED <<nodes, named, kicked>>
            /\ IF <<n, k>> \notin named THEN down' = down   \* an error without a tag
               ELSE LET to == IF m.what = "relay" THEN Dst[m.req] ELSE Src[m.req] IN
                    IF nodes[to] # NoLink THEN Forward(to, nodes[to], m)
                    ELSE IF m.what = "relay" THEN Forward(n, k, Msg("err", m.req))
                    ELSE down' = down
    /\ UNCHANGED <<lifeVars, registered, reqVars, servVars, dialVars, linkVars, alive, gone,
                   breaks, misled>>

\* Mutant of unregister: whatever session the node has.
unregisterAny(n, k) ==
    nodes' = [nodes EXCEPT ![n] = NoLink] /\ named' = named \ {<<n, k>>}

unregister(n, k) ==
    /\ nodes' = [nodes EXCEPT ![n] = IF @ = k THEN NoLink ELSE @]
    /\ named' = named \ {<<n, k>>}

\* hubSrvHandler.OnClose
HubCloses(n, k) ==
    /\ k \in Made(n) /\ <<n, k>> \notin alive \cup gone
    /\ gone' = gone \cup {<<n, k>>} /\ up' = [up EXCEPT ![n][k] = <<>>]
    /\ kicked' = kicked \ {<<n, k>>}
    /\ unregister(n, k)
    /\ UNCHANGED <<lifeVars, registered, reqVars, servVars, dialVars, linkVars, alive, down,
                   breaks, misled>>

HubKicks(n, k) ==
    /\ <<n, k>> \in kicked
    /\ kicked' = kicked \ {<<n, k>>} /\ alive' = alive \ {<<n, k>>}
    /\ UNCHANGED <<lifeVars, registered, reqVars, servVars, dialVars, linkVars, wireVars, nodes,
                   named, gone, breaks, misled>>
-----------------------------------------------------------------------------
OfLink(n, k) ==
    \/ OnConnect(n, k) \/ OnConnectStores(n, k) \/ LinkLost(n, k) \/ OnClose(n, k)
    \/ NodeReads(n, k) \/ dispatch(n, k) \/ HubCloses(n, k) \/ HubKicks(n, k)
OfDial(n, c) == OnOpen(n, c) \/ DialEnds(n, c)
Requester(r) ==
    RequestStores(r) \/ RequestSends(r) \/ RequestReturns(r) \/ handleInboundRelay(r)

RelayNext ==
    \/ \E n \in RelayNodes :
        \/ TransportStart(n) \/ StartFails(n) \/ StartReturns(n) \/ Close(n)
        \/ \E k \in Links : OfLink(n, k) \/ LinkBreaks(n, k)
        \/ \E c \in 0..client[n] : OfDial(n, c)
    \/ \E r \in RelayReqs : RequestChecks(r) \/ Requester(r)

\* What the goroutines and event loops of a node, and of the hub for it, have left to do; the hub
\* can be reached, so that a dial ends.
NodeRuns(n) ==
    /\ life[n] # "none"
    /\ \/ StartReturns(n)
       \/ \E k \in Links : OfLink(n, k)
       \/ \E c \in 0..client[n] : OfDial(n, c)

\* One condition for each node is enough: none of its steps can go on for ever.
RelayFairness ==
    /\ \A n \in RelayNodes : WF_relayVars(NodeRuns(n))
    /\ \A r \in RelayReqs : WF_relayVars(Requester(r))

RelaySpec == RelayInit /\ [][RelayNext]_relayVars /\ RelayFairness
-----------------------------------------------------------------------------
\* The node has told the hub its name on its connection, and the hub has read it.
Settled(n) ==
    LET k == Cur(n) IN
    /\ n \in startedNodes /\ k # NoLink /\ <<n, k>> \in alive \ kicked
    /\ loopAt[n][k] = "idle" /\ up[n][k] = <<>>

(* The hub reaches a node on its connection, and only there: no dead       *)
(* session is left in nodes, a session that was replaced is closed, and    *)
(* the late end or the late register of an older connection does not leave *)
(* a node without its session.  A node that is connected knows it, unless  *)
(* the OnClose of an earlier client, from before a Close and a Start, came *)
(* after it had registered (transport.go:371 clears the flag of any).  A   *)
(* request is answered by whom it was meant for, who sees it at most once, *)
(* and leaves no tag behind.                                               *)
RelayHolds ==
    /\ \A n \in RelayNodes :
        /\ nodes[n] # NoLink => <<n, nodes[n]>> \in named \ gone
        /\ \A k \in Links : <<n, k>> \in named /\ k # nodes[n] => <<n, k>> \notin alive \ kicked
        /\ Settled(n) => nodes[n] = Cur(n) /\ (n \in registered \/ n \in misled)
    /\ \A r \in RelayReqs :
        /\ served[r] <= 1 /\ (result[r] = "reply" => served[r] = 1)
        /\ reqAt[r] = "done" => r \notin pending

(* Every request returns, and a node that was started and not closed is    *)
(* connected and known to the hub in the end, over all that breaks.        *)
RelaySettled ==
    /\ \A r \in RelayReqs : reqAt[r] \in {"idle", "done"}
    /\ \A n \in RelayNodes : life[n] = "running" =>
         Settled(n) /\ nodes[n] = Cur(n) /\ (connected(n) \/ n \in misled)
=============================================================================

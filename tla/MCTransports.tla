----------------------------- MODULE MCTransports -----------------------------
\* What the gate, the game servers, the actor hub and the buses keep about each other, and the
\* servers below them, side by side: every behaviour is one of a single unit, the others keep
\* their initial state.
EXTENDS GateShards, EventBus, NodeTable, NetServer, ActorHub, GateSessions, TLC

VARIABLE unit

mcVars == <<unit, vars, hubAll, busVars, serverVars, linkVars, nodeTableVars>>

MCInit ==
    /\ unit \in {"shards", "hub", "bus", "server", "link", "nodes"}
    /\ Init /\ HubInit /\ BusInit /\ NewServer /\ LinkInit
    /\ NodeInit
    /\ unit = "bus" \/ kind = "local"
    /\ unit = "server" \/ serverKind = "tcp"
    /\ unit = "link" \/ linkKind = "rpc"

Others(u) ==
    /\ IF u = "shards" THEN TRUE ELSE UNCHANGED vars
    /\ IF u = "hub" THEN TRUE ELSE UNCHANGED hubAll
    /\ IF u = "bus" THEN TRUE ELSE UNCHANGED busVars
    /\ IF u = "server" THEN TRUE ELSE UNCHANGED serverVars
    /\ IF u = "link" THEN TRUE ELSE UNCHANGED linkVars
    /\ IF u = "nodes" THEN TRUE ELSE UNCHANGED nodeTableVars
    /\ UNCHANGED unit

MCNext ==
    \/ unit = "shards" /\ Next /\ Others("shards")
    \/ unit = "hub" /\ HubNext /\ Others("hub")
    \/ unit = "bus" /\ BusNext /\ Others("bus")
    \/ unit = "server" /\ ServerNext /\ Others("server")
    \/ unit = "link" /\ LinkNext /\ Others("link")
    \/ unit = "nodes" /\ NodeNext /\ Others("nodes")

MCSpec == MCInit /\ [][MCNext]_mcVars

\* h1 and h2 are closures of the same function literal.
MCCode == "h1" :> 1 @@ "h2" :> 1 @@ "h3" :> 2
MCHome == "s1" :> 1 @@ "s2" :> 2
MCForwards == [k \in LinkKinds |-> IF k = "nats" THEN "s1" :> 1 @@ "s2" :> 1
                                                  ELSE "s1" :> 2 @@ "s2" :> 0]
=============================================================================

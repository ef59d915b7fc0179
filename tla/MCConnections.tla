---------------------------- MODULE MCConnections ----------------------------
\* The clients, the relay over one of them and the way of what is read, side by side:
\* every behaviour is one of a single unit, the others keep their initial state.
EXTENDS Owners, ReadPath, TLC

CONSTANTS Connectors, Closers, Calls, MaxSessions, MaxLosses, Retries

VARIABLES unit,
    \* NetClient
    opts, netStatus, netConn, netStopCh, netStopped, calls, at, mine, seen, sessions, netLoop,
    netLink, gen, attempts, first, made, netAlive, reading, told, left, losses, final, panic

Net == INSTANCE NetClient WITH status <- netStatus, conn <- netConn, stopCh <- netStopCh,
    stopped <- netStopped, loop <- netLoop, link <- netLink, alive <- netAlive

ncVars == <<opts, netStatus, netConn, netStopCh, netStopped, calls, at, mine, seen, sessions,
    netLoop, netLink, gen, attempts, first, made, netAlive, reading, told, left, losses, final,
    panic>>
mcVars == <<unit, router, readVars, ncVars, gnetVars, relayVars>>

MCInit ==
    /\ unit \in {"net", "reads", "gnet", "relay"}
    /\ Net!Init /\ PacketsInit /\ ReadInit /\ GnetInit /\ RelayInit
    /\ unit = "net" \/ opts = [reconnect |-> TRUE, retries |-> 0]
    /\ unit = "reads" \/ (rk = "thread" /\ recvLimit = 0 /\ entry = "bytes" /\ readStarted)
    /\ unit = "gnet" \/ need
    /\ unit = "relay" \/ life = [n \in RelayNodes |-> "none"]

\* Where a unit may stop; anywhere else being stuck is an error.
Terminated ==
    /\ CASE unit = "net" ->
              \/ panic
              \/ /\ calls = 0 /\ \A u \in Net!Users : at[u] = "idle"
                 /\ \A s \in Net!Sessions : netLoop[s] \in {"none", "end", "wait"}
         [] unit = "reads" -> ~readStarted \/ readStopPc = "returned"
         [] unit = "gnet" -> crossed \/ AtRest
         [] unit = "relay" -> \A r \in RelayReqs : reqAt[r] \in {"idle", "done"}
    /\ UNCHANGED mcVars

Others(u) ==
    /\ IF u = "net" THEN TRUE ELSE UNCHANGED ncVars
    /\ IF u = "reads" THEN TRUE ELSE UNCHANGED readVars
    /\ IF u = "gnet" THEN TRUE ELSE UNCHANGED gnetVars
    /\ IF u = "relay" THEN TRUE ELSE UNCHANGED relayVars
    /\ UNCHANGED <<unit, router>>

MCNext ==
    \/ Terminated
    \/ unit = "net" /\ Net!Next /\ Others("net")
    \/ unit = "reads" /\ ReadNext /\ Others("reads")
    \/ unit = "gnet" /\ GnetNext /\ Others("gnet")
    \/ unit = "relay" /\ RelayNext /\ Others("relay")

\* That of every unit: at its initial state a unit has nothing to be fair to.
MCSpec ==
    /\ MCInit /\ [][MCNext]_mcVars
    /\ Net!Fairness /\ ReadFairness /\ GnetFairness /\ RelayFairness

MCPartSizes == <<1>>
MCPeer == <<<<1>>, <<2, 2>>, <<3>>>>
MCSrc == "r" :> "a"
MCDst == "r" :> "b"
MCMaxStarts == "a" :> 2 @@ "b" :> 0

\* The properties of the clients (see NetClient).
CloseWins == Net!CloseWins
ClientGoesOn == Net!ClientGoesOn
\* Every Connect, Close, loop, connection and request of the client over gnet and of the
\* relay comes to rest (client.go, transport.go).
DialsSettle == <>[]OwnersSettled
=============================================================================

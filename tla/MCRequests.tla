----------------------------- MODULE MCRequests -----------------------------
\* Service discovery, the kkrpc request table, the requests of the cluster, the life of an
\* Application and the tree of modules, side by side: every behaviour is one of a single unit, the
\* others keep their initial state.
EXTENDS NatsDiscovery, ClusterRequests, AppLife, ModuleTree, TLC

CONSTANTS SyncCalls, AsyncCalls, Chans, Shards, ShardOf, Readers, MaxPending, NoChan, NoCall

VARIABLES unit,
    \* RpcPending
    closed, count, chMap, cbMap, made, rpcPool, buf, shut, pc, ch, got, outcome, counted,
    awaited, rpcCalled, doneCh, rd, stop, linkUp, panics

Rpc == INSTANCE RpcPending WITH pool <- rpcPool, called <- rpcCalled

rpcVars == <<closed, count, chMap, cbMap, made, rpcPool, buf, shut, pc, ch, got, outcome, counted,
    awaited, rpcCalled, doneCh, rd, stop, linkUp, panics>>
mcVars == <<unit, vars, rpcVars, clusterVars, appVars, treeVars>>

MCInit ==
    /\ unit \in {"disc", "rpc", "cluster", "app", "tree"}
    /\ Init /\ Rpc!Init /\ ClusterInit /\ AppInit /\ TreeInit
    /\ unit = "disc" \/ type = [n \in Nodes |-> "game"]
    /\ unit = "cluster" \/ at = [r \in Reqs |-> IF r \in SyncReqs THEN "idle" ELSE "done"]

\* Where a unit may stop; anywhere else being stuck is an error.
Terminated ==
    /\ CASE unit = "disc" -> up = {} /\ restarts = MaxRestarts
         [] unit = "rpc" ->
              \/ ~Rpc!Running
              \/ stop.phase = "stopped" /\ \A c \in Rpc!Calls : pc[c] \in {"done", "failed"}
         [] unit = "cluster" -> crashed \/ \A r \in Reqs : at[r] \in {"idle", "done"}
         [] unit = "app" -> appAt \in {"runs", "gone"}
         [] unit = "tree" -> adding = <<>>
    /\ UNCHANGED mcVars

Others(u) ==
    /\ IF u = "disc" THEN TRUE ELSE UNCHANGED vars
    /\ IF u = "rpc" THEN TRUE ELSE UNCHANGED rpcVars
    /\ IF u = "cluster" THEN TRUE ELSE UNCHANGED clusterVars
    /\ IF u = "app" THEN TRUE ELSE UNCHANGED appVars
    /\ IF u = "tree" THEN TRUE ELSE UNCHANGED treeVars
    /\ UNCHANGED unit

MCNext ==
    \/ Terminated
    \/ unit = "disc" /\ Next /\ Others("disc")
    \/ unit = "rpc" /\ Rpc!Next /\ Others("rpc")
    \/ unit = "cluster" /\ ClusterNext /\ Others("cluster")
    \/ unit = "app" /\ AppNext /\ Others("app")
    \/ unit = "tree" /\ TreeNext /\ Others("tree")

\* That of every unit.  At its initial state a unit has nothing to be fair to, but
\* NatsDiscovery has: its fairness is stated here for its own behaviours (weak: the one node there
\* is finds the inbox open until it announces).
DiscFairness ==
    /\ \A r \in Receivers : WF_vars(unit = "disc" /\ Receiver(r))
    /\ WF_vars(unit = "disc" /\ Checker)
    /\ \A n \in Nodes : /\ WF_vars(unit = "disc" /\ Age(n))
                         /\ WF_vars(unit = "disc" /\ Announce(n))

MCSpec == MCInit /\ [][MCNext]_mcVars /\ DiscFairness /\ Rpc!Progress /\ ClusterFairness
          /\ AppFairness

MCAdds == ("p" :> <<[to |-> "self", module |-> "q"]>> @@ "q" :> <<>>
           @@ "s" :> <<[to |-> "parent", module |-> "q"]>>)
MCShardOf == [c \in SyncCalls \cup AsyncCalls |-> IF c \in SyncCalls THEN "h1" ELSE "h2"]

\* Every node, again and again: one that is gone is forgotten, one that runs is in the table
\* (DeadForgotten, LiveKnown).
NodesFollowed == \A n \in Nodes : /\ []<>(unit = "disc" => DeadForgotten(n))
                                  /\ []<>(unit = "disc" => LiveKnown(n))
CallsEnd == Rpc!CallsEnd
\* The two kinds of application.
AppsHold == AppHolds /\ TreeHolds
=============================================================================

------------------------------ MODULE MCTables ------------------------------
\* Two tables that many goroutines read and write at once, that of the kkrpc requests and those
\* of the demo gate, side by side: every behaviour is one of a single unit, the other keeps its
\* initial state.
EXTENDS MCRpcPending, GateTables

CONSTANTS c1, c2, u1, u2, n1, n2

VARIABLE unit

mcVars == <<unit, vars, gateTableVars>>

\* Blocking calls (which share a shard), channels and game nodes are interchangeable.
TablesSymmetry == Symmetry \cup Permutations(SyncCalls) \cup Permutations(GameNodes)

\* The clients, and the users, are alike: c1 connects first, the first login is that of u1, and
\* only the queue of c2 is ever full.
FirstIsFirst ==
    /\ cl'[c2] # "new" => cl[c1] # "new"
    /\ hooks = 0 /\ hooks' = 1 => \A n \in GameNodes : hk'[n].u # u2
    /\ feed'[<<"full", c1>>] = NotFeeding

TablesInit ==
    /\ unit \in {"rpc", "gate"} /\ Init /\ GateInit
    /\ unit = "rpc" => errCallback /\ limit = CHOOSE l \in MaxConnCounts : TRUE
    /\ errCallback \/ limit = 3     \* the limit is asked before there is a callback to call
TablesNext ==
    \/ unit = "rpc" /\ (Next \/ Terminated) /\ UNCHANGED <<unit, gateTableVars>>
    \/ unit = "gate" /\ GateNext /\ FirstIsFirst /\ UNCHANGED <<unit, vars>>
    \/ unit = "gate" /\ UNCHANGED mcVars     \* the gate may be at rest
TablesSpec == TablesInit /\ [][TablesNext]_mcVars

=============================================================================

---------------------------- MODULE MCRpcPending ----------------------------
(* TLC instances of RpcPending. *)
EXTENDS RpcPending, TLC

CONSTANTS s1, s2, a1, x1, x2, h1, h2

\* The sync calls share a shard.
MCShardOf == [c \in Calls |-> IF c \in SyncCalls THEN h1 ELSE h2]

ReaderSymmetry == Permutations(Readers)
ChanSymmetry   == Permutations(Chans)
Symmetry       == ReaderSymmetry \cup ChanSymmetry

\* A process that panicked, or one that was stopped and whose calls have all
\* returned, has nothing left to do; anywhere else being stuck is an error.
Terminated ==
  /\ ~Running \/ /\ stop.phase = "stopped"
                 /\ \A c \in Calls : pc[c] \in {"done", "failed"}
  /\ UNCHANGED vars

MCSpec     == Init /\ [][Next \/ Terminated]_vars
MCFairSpec == MCSpec /\ Progress
=============================================================================

----------------------------- MODULE NodeTable -----------------------------
(***************************************************************************)
(* The logic nodes a gate knows over kkrpc (transrpc/member_mgr.go): two    *)
(* sync.Maps, the node's connection and the connection's node, that no lock *)
(* holds together.  Handlers of the registrations of several connections    *)
(* and the OnClose of others change them step by step.                      *)
(***************************************************************************)
EXTENDS Naturals, Sequences, FiniteSets

CONSTANTS NodeConns, \* 1..n: the connections of the logic node, one after the other
          Processes  \* bound: processes of the logic node

VARIABLES game, cur, procs,  \* the process of the node and its connection
          inbox,             \* what the gate has yet to read of a connection
          open, closing,     \* a connection, and its OnClose at the gate
          nodeReg, connReg,  \* logicNodeMap of the node, keys of connMap
          nodeRegs,              \* a registration in progress
          asked,             \* history: the connection the process asked on
          raced              \* history: see the actions that set it

memberVars == <<nodeReg, connReg, closing, nodeRegs>>
nodeTableVars == <<game, cur, procs, inbox, open, memberVars, asked, raced>>

NoNodeConn == 0

NodeInit ==
  /\ game = "registers" /\ cur = 1 /\ procs = 1
  /\ inbox = [c \in NodeConns |-> <<>>]
  /\ open = [c \in NodeConns |-> c = 1]
  /\ nodeReg = NoNodeConn /\ connReg = {}
  /\ closing = [c \in NodeConns |-> "no"] /\ nodeRegs = [c \in NodeConns |-> "no"]
  /\ asked = NoNodeConn /\ raced = FALSE

(***************************************************************************)
(* The logic node.  One goroutine asks once a second until InvokeNR returns *)
(* nil; Stop says that the node leaves before it sets stopped, so that the  *)
(* goroutine may still register it.  A reconnection does not ask again.     *)
(***************************************************************************)
Says(c, m) == inbox' = [inbox EXCEPT ![c] = Append(@, m)]

registerToGateway ==
  /\ game \in {"registers", "leaves"} /\ open[cur]
  /\ Says(cur, "reg")
  /\ game' = IF game = "leaves" THEN "leaving" ELSE "up"
  /\ asked' = cur
  /\ UNCHANGED <<cur, procs, open, memberVars, raced>>

GameLeaves ==
  /\ game \in {"registers", "up"}
  /\ IF open[cur] THEN Says(cur, "unreg") ELSE inbox' = inbox
  /\ game' = IF game = "registers" THEN "leaves" ELSE "leaving"
  /\ UNCHANGED <<cur, procs, open, memberVars, asked, raced>>

(* The gate still handles what its reader has of a connection that is gone.*)
Cut(c) == /\ \E i \in 0..Len(inbox[c]) : inbox' = [inbox EXCEPT ![c] = SubSeq(@, 1, i)]
          /\ closing' = [closing EXCEPT ![c] = IF open[c] THEN "load" ELSE @]

Reconnects ==
  /\ game # "gone" /\ cur + 1 \in NodeConns
  /\ Cut(cur)
  /\ open' = [open EXCEPT ![cur] = FALSE, ![cur + 1] = TRUE] /\ cur' = cur + 1
  /\ UNCHANGED <<game, procs, nodeReg, connReg, nodeRegs, asked, raced>>

GameStops ==
  /\ game \in {"leaves", "leaving"} /\ open[cur]
  /\ Cut(cur)
  /\ open' = [open EXCEPT ![cur] = FALSE] /\ game' = "gone"
  /\ UNCHANGED <<cur, procs, nodeReg, connReg, nodeRegs, asked, raced>>

GameRestarts ==
  /\ procs < Processes /\ cur + 1 \in NodeConns
  /\ Cut(cur)
  /\ open' = [open EXCEPT ![cur] = FALSE, ![cur + 1] = TRUE]
  /\ cur' = cur + 1 /\ procs' = procs + 1 /\ game' = "registers"
  /\ UNCHANGED <<nodeReg, connReg, nodeRegs, asked, raced>>

(***************************************************************************)
(* The gate.  The reader of a connection handles what it says in order;     *)
(* OnClose comes from the event loop and does not wait for the reader.      *)
(***************************************************************************)
Removing(c) == closing[c] \in {"load", "node", "delete"}
Handled(c, m) == /\ nodeRegs[c] = "no" /\ inbox[c] # <<>> /\ Head(inbox[c]) = m
                 /\ inbox' = [inbox EXCEPT ![c] = Tail(@)]

onRegister(c) ==
  /\ Handled(c, "reg")
  /\ nodeRegs' = [nodeRegs EXCEPT ![c] = "old"]
  /\ UNCHANGED <<game, cur, procs, open, nodeReg, connReg, closing, asked, raced>>

(* registerLogicNode takes the connection the node had out of connMap, ... *)
RegForgetsOld(c) ==
  /\ nodeRegs[c] = "old"
  /\ nodeRegs' = [nodeRegs EXCEPT ![c] = "node"]
  /\ connReg' = connReg \ ({nodeReg} \ {c})
  /\ UNCHANGED nodeReg

(* ... stores the node ...                                                 *)
RegStoresNode(c) ==
  /\ nodeRegs[c] = "node"
  /\ nodeRegs' = [nodeRegs EXCEPT ![c] = "conn"] /\ nodeReg' = c
  /\ UNCHANGED connReg

(* ... and the connection.  What it stores is wrong later if its own       *)
(* connection has closed, if another registration is under way, or if a    *)
(* removal has decided to delete the node.                                 *)
RegStoresConn(c) ==
  /\ nodeRegs[c] = "conn"
  /\ nodeRegs' = [nodeRegs EXCEPT ![c] = "no"] /\ connReg' = connReg \cup {c}
  /\ UNCHANGED nodeReg

registerLogicNode(c) ==
  /\ RegForgetsOld(c) \/ RegStoresNode(c) \/ RegStoresConn(c)
  /\ raced' = \/ raced \/ closing[c] # "no"
              \/ \E d \in NodeConns \ {c} : nodeRegs[d] # "no"
              \/ nodeReg' # nodeReg /\ \E d \in NodeConns : closing[d] = "delete"
  /\ UNCHANGED <<game, cur, procs, inbox, open, closing, asked>>

(* unregisterLogicNodeByConnId: only a connection that is in connMap, and  *)
(* only while the node is registered with it, ...                          *)
CloseLoads(c) ==
  /\ closing[c] = "load"
  /\ closing' = [closing EXCEPT ![c] = IF c \in connReg THEN "node" ELSE "done"]
  /\ connReg' = connReg \ {c}
  /\ UNCHANGED nodeReg

CloseComparesBlindly(c) ==
  /\ closing[c] = "node"
  /\ closing' = [closing EXCEPT ![c] = IF nodeReg # NoNodeConn THEN "delete" ELSE "done"]
  /\ UNCHANGED <<connReg, nodeReg>>

CloseCompares(c) ==
  /\ closing[c] = "node"
  /\ closing' = [closing EXCEPT ![c] = IF nodeReg = c THEN "delete" ELSE "done"]
  /\ UNCHANGED <<connReg, nodeReg>>

(* ... and what it deletes may have been stored since.                     *)
CloseDeletes(c) ==
  /\ closing[c] = "delete"
  /\ closing' = [closing EXCEPT ![c] = "done"] /\ nodeReg' = NoNodeConn
  /\ UNCHANGED connReg

unregisterLogicNodeByConnId(c) ==
  /\ CloseLoads(c) \/ CloseCompares(c) \/ CloseDeletes(c)
  /\ UNCHANGED <<game, cur, procs, inbox, open, nodeRegs, asked, raced>>

(* The node has left: one step, the two deletions have nothing between     *)
(* them that reads.  The farewell of an old connection takes out the node  *)
(* whatever it is registered with now.                                     *)
unregisterLogicNode(c) ==
  /\ Handled(c, "unreg")
  /\ connReg' = connReg \ {nodeReg} /\ nodeReg' = NoNodeConn
  /\ raced' = (raced \/ nodeReg \notin {c, NoNodeConn} \/ \E d \in NodeConns : nodeRegs[d] # "no")
  /\ UNCHANGED <<game, cur, procs, open, closing, nodeRegs, asked>>

NodeNext ==
  \/ registerToGateway \/ GameLeaves \/ GameStops \/ Reconnects \/ GameRestarts
  \/ \E c \in NodeConns : \/ onRegister(c) \/ registerLogicNode(c)
                          \/ unregisterLogicNode(c) \/ unregisterLogicNodeByConnId(c)

NodeSpec == NodeInit /\ [][NodeNext]_nodeTableVars

(***************************************************************************)
(* Properties                                                              *)
(***************************************************************************)
Resting(c) == inbox[c] = <<>> /\ nodeRegs[c] = "no" /\ ~Removing(c)

Settled == \A c \in NodeConns : Resting(c)

(* When everything has been handled and none of the steps overlapped that  *)
(* must not, the two tables agree and name the connection that is open;    *)
(* and the node is in them if it asked on that connection: the OnClose of  *)
(* an old connection has not taken out what a newer one stored, which the  *)
(* comment of unregisterLogicNodeByConnId promises.                        *)
NodesAgree ==
  (~raced /\ Settled) =>
    /\ connReg = {nodeReg} \ {NoNodeConn}
    /\ nodeReg # NoNodeConn => nodeReg = cur /\ open[cur]
    /\ game = "up" /\ asked = cur => nodeReg = cur
=============================================================================

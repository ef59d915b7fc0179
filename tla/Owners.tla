------------------------------- MODULE Owners -------------------------------
(***************************************************************************)
(* Who has a connection, at its two ends: the client over gnet that made   *)
(* it, and the relay's hub, which names the node behind it.  The two share  *)
(* no variable; MCConnections runs them beside the other clients.          *)
(***************************************************************************)
EXTENDS GnetClient, ActorRelay

\* The connections and the loops of GnetClient are numbers other than 0 (nobody) and 100 (the
\* channel of Connect).
ASSUME GnetSizes ==
    /\ LoopSlots \subseteq Nat \ {0, 100} /\ GConns \subseteq Nat \ {0}
    /\ MaxRetries \in Nat /\ Reconnects \subseteq BOOLEAN
\* A request goes from a node to a node; a node that is on has a connection.
ASSUME RelaySizes ==
    /\ MaxLinks \in Nat \ {0} /\ MaxStarts \in [RelayNodes -> Nat]
    /\ Src \in [RelayReqs -> RelayNodes] /\ Dst \in [RelayReqs -> RelayNodes]

\* One connection and a truthful status at the client (client.go), one live session of each
\* node at the hub, and requests served once (hub.go, transport.go).
OwnersHold == GnetOwns /\ RelayHolds
\* Both come to rest.
OwnersSettled == GnetSettled /\ RelaySettled
=============================================================================

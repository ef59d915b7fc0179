----------------------------- MODULE NatsDiscovery -----------------------------
(***************************************************************************)
(* Membership over NATS (remotes/kkdiscovery/dnats and member_mgr.go): one    *)
(* node watches the others.  Nodes announce themselves on a subject, while     *)
(* they run; announcements may be lost.  Here a subscription callback enters    *)
(* them in the table (addMemberInfo), and another goroutine removes the members   *)
(* it has not heard of for too long (checkMemberTimeout).  After a reconnect the   *)
(* node subscribes anew while the old callback may still be at work.           *)
(*                                                                         *)
(* A locked section, a notification and an update of the statistics are a     *)
(* step each.  Time is a mark on each entry of memberTimes, fresh or stale,     *)
(* that only ages; Stop of the watching node, the weight and the status of a     *)
(* member are left out.                                                      *)
(***************************************************************************)
EXTENDS Integers, Sequences, FiniteSets

CONSTANTS
    Nodes,            \* the other nodes
    Types,            \* node types
    Receivers,        \* subscriptions, each with a goroutine of its own
    MaxInbox,         \* announcements waiting at the subscription
    MaxRestarts,      \* bound on the restarts of nodes
    MaxReconnects     \* bound on the reconnects of this node

ASSUME BoundsAssumption == MaxInbox \in Nat /\ MaxRestarts \in Nat /\ MaxReconnects \in Nat

NoType == "none"
NoNode == "none"
ASSUME FiniteAssumption == IsFiniteSet(Nodes) /\ IsFiniteSet(Receivers) /\ Receivers # {}
ASSUME NamesAssumption == NoType \notin Types /\ NoNode \notin Nodes

Announcements == [node : Nodes, type : Types]

VARIABLES
    up,               \* the nodes that run
    type,             \* the type each node announces
    members,          \* MemberMgr.members: the type of each member, or NoType
    typeMap,          \* MemberMgr.typeMap
    times,            \* memberTimes: "none" is no entry
    memberCount,      \* stats.memberCount
    told,             \* per node: calls of the add listeners less calls of the remove listeners
    sub,              \* the current subscription
    inbox,            \* its queue
    recv,             \* the callback of each subscription: step, announcement, isNew
    check,            \* checkMemberTimeout: step, node, toRemove
    restarts,         \* restarts of nodes so far
    reconnects        \* reconnects so far

peerVars == <<up, type, restarts>>
tableVars == <<members, typeMap>>
statVars == <<memberCount, told>>
natsVars == <<sub, inbox, reconnects>>
vars == <<peerVars, tableVars, times, statVars, natsVars, recv, check>>

Idle == [at |-> "idle", node |-> NoNode, new |-> FALSE]

Init ==
    /\ up = Nodes
    /\ type \in [Nodes -> Types]
    /\ members = [n \in Nodes |-> NoType]
    /\ typeMap = [t \in Types |-> <<>>]
    /\ times = [n \in Nodes |-> "none"]
    /\ memberCount = 0 /\ told = [n \in Nodes |-> 0]
    /\ sub = (CHOOSE r \in Receivers : TRUE) /\ inbox = <<>>
    /\ recv = [r \in Receivers |-> Idle]
    /\ check = [at |-> "idle", node |-> NoNode, toRemove |-> {}]
    /\ restarts = 0 /\ reconnects = 0

-----------------------------------------------------------------------------
\* The other nodes and the bus

\* publishSelf, of the heartbeat, of an answer to a request or of Stop.
Announce(n) ==
    /\ n \in up /\ Len(inbox) < MaxInbox
    /\ inbox' = Append(inbox, [node |-> n, type |-> type[n]])
    /\ UNCHANGED <<peerVars, tableVars, times, statVars, sub, reconnects, recv, check>>

\* A node stops or crashes.
Leave(n) ==
    /\ n \in up
    /\ up' = up \ {n}
    /\ UNCHANGED <<type, restarts, tableVars, times, statVars, natsVars, recv, check>>

\* It comes back with the same id, perhaps as another type.
Restart(n) ==
    /\ n \notin up /\ restarts < MaxRestarts
    /\ restarts' = restarts + 1
    /\ up' = up \cup {n}
    /\ \E t \in Types : type' = [type EXCEPT ![n] = t]
    /\ UNCHANGED <<tableVars, times, statVars, natsVars, recv, check>>

\* resubscribe: what waits at the old subscription is lost, a callback that runs goes on.
Resubscribe(r) ==
    /\ reconnects < MaxReconnects
    /\ r # sub /\ recv[r].at = "idle"
    /\ reconnects' = reconnects + 1
    /\ sub' = r /\ inbox' = <<>>
    /\ UNCHANGED <<peerVars, tableVars, times, statVars, recv, check>>

-----------------------------------------------------------------------------
\* The table, MemberMgr

RangeOf(list) == {list[i] : i \in DOMAIN list}

\* list without its first n.
Place(list, n) == CHOOSE i \in DOMAIN list : list[i] = n /\ \A j \in 1..(i - 1) : list[j] # n
Without(list, n) ==
    IF n \in RangeOf(list)
    THEN SubSeq(list, 1, Place(list, n) - 1) \o SubSeq(list, Place(list, n) + 1, Len(list))
    ELSE list

\* Mutant of Retyped: the old list keeps n.
RetypedKeeps(n, t) ==
    [k \in Types |-> IF k = t /\ members[n] # t THEN Append(typeMap[k], n) ELSE typeMap[k]]

\* typeMap with n moved from the list of the type it had to the list of type t.
Retyped(n, t) ==
    [k \in Types |->
        IF members[n] = t THEN typeMap[k]
        ELSE IF k = t THEN Append(typeMap[k], n)
        ELSE IF k = members[n] THEN Without(typeMap[k], n)
        ELSE typeMap[k]]

AddMember(n, t) ==
    /\ typeMap' = Retyped(n, t)
    /\ members' = [members EXCEPT ![n] = t]

RemoveMember(n) ==
    /\ typeMap' = [typeMap EXCEPT ![members[n]] = Without(@, n)]
    /\ members' = [members EXCEPT ![n] = NoType]

-----------------------------------------------------------------------------
\* handleDiscoveryMessage and addMemberInfo

RecvGoes(r, where) == recv' = [recv EXCEPT ![r].at = where]

RecvAdd(r) ==
    /\ r = sub /\ recv[r].at = "idle" /\ inbox # <<>>
    /\ LET n == Head(inbox).node
           new == members[n] = NoType IN
       /\ AddMember(n, Head(inbox).type)
       /\ recv' = [recv EXCEPT ![r] =
                     [at |-> IF new THEN "notify" ELSE "time", node |-> n, new |-> new]]
    /\ inbox' = Tail(inbox)
    /\ UNCHANGED <<peerVars, times, statVars, sub, reconnects, check>>

RecvNotify(r) ==
    /\ recv[r].at = "notify"
    /\ told' = [told EXCEPT ![recv[r].node] = @ + 1]
    /\ RecvGoes(r, "time")
    /\ UNCHANGED <<peerVars, tableVars, times, memberCount, natsVars, check>>

RecvTime(r) ==
    /\ recv[r].at = "time"
    /\ times' = [times EXCEPT ![recv[r].node] = "fresh"]
    /\ IF recv[r].new THEN RecvGoes(r, "count") ELSE recv' = [recv EXCEPT ![r] = Idle]
    /\ UNCHANGED <<peerVars, tableVars, statVars, natsVars, check>>

RecvCount(r) ==
    /\ recv[r].at = "count"
    /\ memberCount' = memberCount + 1
    /\ recv' = [recv EXCEPT ![r] = Idle]
    /\ UNCHANGED <<peerVars, tableVars, times, told, natsVars, check>>

-----------------------------------------------------------------------------
\* checkMemberTimeout and removeMember

\* An entry that is not refreshed passes defaultMemberTimeout.
Age(n) ==
    /\ times[n] = "fresh"
    /\ times' = [times EXCEPT ![n] = "stale"]
    /\ UNCHANGED <<peerVars, tableVars, statVars, natsVars, recv, check>>

\* Mutant of Stale: the comparison the wrong way round.
StaleInverted == {n \in Nodes : times[n] = "fresh"}

Stale == {n \in Nodes : times[n] = "stale"}

CheckScan ==
    /\ check.at = "idle" /\ Stale # {}
    /\ check' = [at |-> "remove", node |-> NoNode, toRemove |-> Stale]
    /\ UNCHANGED <<peerVars, tableVars, times, statVars, natsVars, recv>>

CheckGoes(where) == check' = [check EXCEPT !.at = where]

\* Done with n: the next of toRemove, or the next tick.
CheckNext(n) ==
    LET rest == check.toRemove \ {n} IN
    check' = [at |-> IF rest = {} THEN "idle" ELSE "remove", node |-> NoNode, toRemove |-> rest]

CheckRemove(n) ==
    /\ check.at = "remove" /\ n \in check.toRemove /\ members[n] # NoType
    /\ RemoveMember(n)
    /\ check' = [check EXCEPT !.at = "notify", !.node = n]
    /\ UNCHANGED <<peerVars, times, statVars, natsVars, recv>>

\* Mutant of CheckSkip: removeMember does not look at existed.
CheckSkipIgnored(n) ==
    /\ check.at = "remove" /\ n \in check.toRemove /\ members[n] = NoType
    /\ check' = [check EXCEPT !.at = "notify", !.node = n]
    /\ UNCHANGED <<peerVars, tableVars, times, statVars, natsVars, recv>>

\* Nothing to remove: its entry in memberTimes stays.
CheckSkip(n) ==
    /\ check.at = "remove" /\ n \in check.toRemove /\ members[n] = NoType
    /\ CheckNext(n)
    /\ UNCHANGED <<peerVars, tableVars, times, statVars, natsVars, recv>>

CheckNotify ==
    /\ check.at = "notify"
    /\ told' = [told EXCEPT ![check.node] = @ - 1]
    /\ CheckGoes("forget")
    /\ UNCHANGED <<peerVars, tableVars, times, memberCount, natsVars, recv>>

CheckForget ==
    /\ check.at = "forget"
    /\ times' = [times EXCEPT ![check.node] = "none"]
    /\ CheckGoes("count")
    /\ UNCHANGED <<peerVars, tableVars, statVars, natsVars, recv>>

CheckCount ==
    /\ check.at = "count"
    /\ memberCount' = memberCount - 1
    /\ CheckNext(check.node)
    /\ UNCHANGED <<peerVars, tableVars, times, told, natsVars, recv>>

-----------------------------------------------------------------------------
Receiver(r) == RecvAdd(r) \/ RecvNotify(r) \/ RecvTime(r) \/ RecvCount(r)

Checker ==
    \/ CheckScan \/ CheckNotify \/ CheckForget \/ CheckCount
    \/ \E n \in Nodes : CheckRemove(n) \/ CheckSkip(n)

Next ==
    \/ \E n \in Nodes : Announce(n) \/ Leave(n) \/ Restart(n) \/ Age(n)
    \/ \E r \in Receivers : Resubscribe(r) \/ Receiver(r)
    \/ Checker

Spec == Init /\ [][Next]_vars

\* Goroutines are scheduled, time passes, and of the announcements of a node that
\* runs not all are lost.
Fairness ==
    /\ \A r \in Receivers : WF_vars(Receiver(r))
    /\ WF_vars(Checker)
    /\ \A n \in Nodes : WF_vars(Age(n)) /\ SF_vars(Announce(n))

FairSpec == Spec /\ Fairness

-----------------------------------------------------------------------------
TypeOK ==
    /\ up \subseteq Nodes /\ type \in [Nodes -> Types]
    /\ members \in [Nodes -> Types \cup {NoType}]
    /\ typeMap \in [Types -> Seq(Nodes)]
    /\ times \in [Nodes -> {"none", "fresh", "stale"}]
    /\ memberCount \in Int /\ told \in [Nodes -> Int]
    /\ sub \in Receivers /\ inbox \in Seq(Announcements)
    /\ recv \in [Receivers -> [at : {"idle", "notify", "time", "count"},
                               node : Nodes \cup {NoNode}, new : BOOLEAN]]
    /\ \A r \in Receivers : recv[r].at # "idle" => recv[r].node \in Nodes
    /\ check \in [at : {"idle", "remove", "notify", "forget", "count"},
                  node : Nodes \cup {NoNode}, toRemove : SUBSET Nodes]
    /\ check.at \in {"notify", "forget", "count"} => check.node \in Nodes
    /\ restarts \in Nat /\ reconnects \in Nat

\* Every member is exactly once in the list of its type and in no other, whatever
\* types it announced before (AddMember, RemoveMember).
IndexConsistent ==
    \A t \in Types :
        /\ RangeOf(typeMap[t]) = {n \in Nodes : members[n] = t}
        /\ \A i, j \in DOMAIN typeMap[t] : typeMap[t][i] = typeMap[t][j] => i = j

\* Somebody is between the table and its listeners, or its statistics, about n.
Touching(n) ==
    \/ \E r \in Receivers : recv[r].at # "idle" /\ recv[r].node = n
    \/ check.at \in {"notify", "forget", "count"} /\ check.node = n

\* The statistics and the listeners' calls add up to the table once nobody is in
\* the middle of a change, however two callbacks and the checker interleave.
CountsSettle ==
    /\ \A n \in Nodes : ~Touching(n) => told[n] = (IF members[n] # NoType THEN 1 ELSE 0)
    /\ (\A n \in Nodes : ~Touching(n)) =>
          memberCount = Cardinality({n \in Nodes : members[n] # NoType})

Gone(n) == n \notin up /\ n \notin {inbox[i].node : i \in DOMAIN inbox} /\ ~Touching(n)

\* A node that is gone, and has an entry in memberTimes, leaves the table
\* (nats_option.go:18), unless it comes back; and a node that runs is in the table
\* again and again, although the checker may remove it between two announcements.
DeadForgotten(n) == Gone(n) /\ times[n] # "none" => members[n] = NoType
LiveKnown(n) == n \in up => members[n] # NoType

\* nats_discovery.go:34: memberTimes records the last update of each member.
MembersHaveTimes ==
    \A n \in Nodes : members[n] # NoType /\ ~Touching(n) => times[n] # "none"
=============================================================================

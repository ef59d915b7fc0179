----------------------------- MODULE GateTables -----------------------------
(***************************************************************************)
(* The tables of the gate component (demo1/comps/ccgate): who is connected  *)
(* (sessionMgr, clientMgr), who is logged in where (userMgr), which logic   *)
(* node serves a session or a user (logicBindMgr), how many sessions each   *)
(* node has (localDis) and which errors a client was told of (feedLimit).   *)
(* Every table has a lock of its own.  Three kinds of goroutines walk       *)
(* through them: the reader of a client (OnRaw), the close of a client      *)
(* (onClientConnClose), and the hooks of the logins and logouts that logic  *)
(* nodes report (loginHook).                                                *)
(***************************************************************************)
EXTENDS Naturals, FiniteSets

CONSTANTS ClientSids,  \* sessions, one connection each
          UserIds, GameNodes,
          Choosers,    \* "local": by the weights of the gate, "discovery"
          MaxConnCounts, \* the limits of connections a gate is started with
          ErrCallbacks,  \* whether SetErrCallback gave the gate a callback
          Raws,        \* bound: messages of the clients
          Hooks        \* bound: logins and logouts reported

VARIABLES chooser, limit, errCallback,
          live,                \* the ConnManager of the server
          conns, clients,      \* sessionMgr, clientMgr
          uid2sid, sid2uid,    \* userMgr
          sessionTable, userTable, \* logicBindMgr, for one type of node
          nodeTable,           \* localDis: the sessions of each node
          cache,               \* feedLimit: the errors clients were told of
          reader, feed, cl, hk, \* the goroutines
          raws, hooks,         \* what the bounds count
          late, seen, told, left, displaced \* history

tabVars == <<conns, clients, uid2sid, sid2uid, sessionTable, userTable, nodeTable, cache>>
given == <<chooser, limit, errCallback>>
gateTableVars == <<given, live, tabVars, reader, feed, raws, cl, hk, hooks, late, seen, told, left, displaced>>

NoEntry == "none"
NullUser == "0"
EmptySid == ""
NoNode == "-"

\* Sessions, users and nodes are told from what stands for none of them; a gate admits clients.
ASSUME GateAssumption ==
  /\ NoEntry \notin ClientSids \cup UserIds /\ EmptySid \notin ClientSids
  /\ NullUser \notin UserIds /\ NoNode \notin GameNodes
  /\ MaxConnCounts \subseteq Nat \ {0} /\ ErrCallbacks \subseteq BOOLEAN

\* Who calls feedCallback, with which error: the reader of a client (whose three errors are one
\* here), the network that finds the client's queue full, and a hook that kicks.
Feeders == ({"refused", "full"} \X ClientSids) \cup ({"kicked"} \X GameNodes)
NotFeeding == [at |-> "no", s |-> EmptySid]

GateInit ==
  /\ chooser \in Choosers /\ limit \in MaxConnCounts /\ errCallback \in ErrCallbacks
  /\ live = {} /\ conns = {} /\ clients = {} /\ nodeTable = {} /\ cache = {}
  /\ uid2sid = [u \in UserIds \cup {NullUser} |-> NoEntry]
  /\ sid2uid = [s \in ClientSids \cup {EmptySid} |-> NoEntry]
  /\ sessionTable = [s \in ClientSids |-> NoNode]
  /\ userTable = [u \in UserIds |-> NoNode]
  /\ reader = [s \in ClientSids |-> [at |-> "no", n |-> NoNode]]
  /\ feed = [f \in Feeders |-> NotFeeding]
  /\ cl = [s \in ClientSids |-> "new"]
  /\ hk = [n \in GameNodes |-> [at |-> "no", u |-> NullUser, s |-> EmptySid, kicks |-> {}]]
  /\ raws = 0 /\ hooks = 0
  /\ late = {} /\ seen = {} /\ told = {} /\ left = {} /\ displaced = {}

(***************************************************************************)
(* A client connects: the server counts it before OnConnect asks whether    *)
(* there are too many; a client that is refused is closed.                  *)
(***************************************************************************)
ConnCounted(s) ==
  /\ cl[s] = "new"
  /\ live' = live \cup {s} /\ cl' = [cl EXCEPT ![s] = "counted"]
  /\ UNCHANGED <<given, tabVars, reader, feed, raws, hk, hooks, late, seen, told, left, displaced>>

onNewClientConn(s) == conns' = conns \cup {s} /\ clients' = clients \cup {s}

OnConnect(s) ==
  /\ cl[s] = "counted"
  /\ IF Cardinality(live) >= limit
     THEN /\ cl' = [cl EXCEPT ![s] = "tell"] /\ live' = live \ {s}
          /\ UNCHANGED <<conns, clients>>
     ELSE onNewClientConn(s) /\ cl' = [cl EXCEPT ![s] = "open"] /\ live' = live
  /\ UNCHANGED <<given, uid2sid, sid2uid, sessionTable, userTable, nodeTable,
                 cache, reader, feed, raws, hk, hooks, late, seen, told, left, displaced>>

(***************************************************************************)
(* userManager, under its lock.                                             *)
(***************************************************************************)
(* checkKick and onUserLogin: the user leaves the session it was in, the   *)
(* session loses the user that was in it.                                  *)
Without(f, k) == [f EXCEPT ![k] = NoEntry]

(* A change: a login that kicks the session of the user and not the user of the      *)
(* session.                                                                *)
CheckKickHalf(u, s) ==
  LET old == uid2sid[u] kicksOld == old \in ClientSids \ {s} IN
  [uid2sid |-> uid2sid,
   sid2uid |-> IF kicksOld THEN Without(sid2uid, old) ELSE sid2uid,
   kicks |-> IF kicksOld THEN {old} ELSE {}]

CheckKick(u, s) ==
  LET old == uid2sid[u]
      kicksOld == old \in ClientSids \ {s}
      ua == IF kicksOld /\ sid2uid[old] # NoEntry THEN Without(uid2sid, sid2uid[old]) ELSE uid2sid
      sa == IF kicksOld THEN Without(sid2uid, old) ELSE sid2uid
      other == sa[s]
      kicksOther == other \in UserIds \ {u}
      third == IF kicksOther THEN ua[other] ELSE NoEntry
      kicksThird == third \in ClientSids \ {s}
  IN [uid2sid |-> IF kicksOther THEN Without(ua, other) ELSE ua,
      sid2uid |-> IF kicksThird THEN Without(sa, third) ELSE sa,
      kicks |-> (IF kicksOld THEN {old} ELSE {}) \cup (IF kicksThird THEN {third} ELSE {})]

LoggedIn(u, s) ==
  LET k == CheckKick(u, s) IN
  [k EXCEPT !.uid2sid[u] = s, !.sid2uid[s] = u]

(* A logout writes an entry for the session "" when the user is offline.   *)
onUserLogout(u) ==
  /\ sid2uid' = IF uid2sid[u] # NoEntry THEN [sid2uid EXCEPT ![uid2sid[u]] = NullUser] ELSE sid2uid
  /\ uid2sid' = Without(uid2sid, u)

(* A disconnection writes one for the user 0 when nobody is logged in.     *)
onSessionDisconnect(s) ==
  /\ uid2sid' = IF sid2uid[s] # NoEntry THEN [uid2sid EXCEPT ![sid2uid[s]] = EmptySid] ELSE uid2sid
  /\ sid2uid' = Without(sid2uid, s)

(***************************************************************************)
(* OnRaw: the reader of a client.                                           *)
(***************************************************************************)
Reads(s, at, n) == reader' = [reader EXCEPT ![s] = [at |-> at, n |-> n]]

getSessionByConnId(c) == IF c \in clients THEN c ELSE EmptySid

\* feedCallback is called for session s; whoever calls it waits for its end.
Feeds(f, s) == feed' = [feed EXCEPT ![f] = [at |-> "live", s |-> s]]
Refused(s) == <<"refused", s>>
Refuses(s) == Reads(s, "no", NoNode) /\ Feeds(Refused(s), s)

(* A client that is not known is not heard; a message that cannot be       *)
(* routed is refused; any other needs a node.                              *)
OnRaw(s) ==
  /\ cl[s] \notin {"new", "counted"} /\ raws < Raws
  /\ reader[s].at = "no" /\ feed[Refused(s)].at = "no"
  /\ raws' = raws + 1
  /\ \/ getSessionByConnId(s) = EmptySid /\ UNCHANGED <<reader, feed>>
     \/ getSessionByConnId(s) # EmptySid /\ Reads(s, "alloc", NoNode) /\ UNCHANGED feed
     \/ getSessionByConnId(s) # EmptySid /\ Refuses(s)
  /\ UNCHANGED <<given, live, tabVars, cl, hk, hooks, late, seen, told, left, displaced>>

(* The queue of the client is full: the message is dropped.                *)
RecvQueueFull(s) ==
  /\ cl[s] \notin {"new", "counted"} /\ raws < Raws /\ feed[<<"full", s>>].at = "no"
  /\ raws' = raws + 1
  /\ Feeds(<<"full", s>>, s)
  /\ UNCHANGED <<given, live, tabVars, reader, cl, hk, hooks, late, seen, told, left, displaced>>

Bound(s) == sessionTable[s]
getMemberWeight(n) == Cardinality({p \in nodeTable : p[1] = n})
chooseFromShardOrRpc == {n \in GameNodes : \A m \in GameNodes : getMemberWeight(n) <= getMemberWeight(m)}
chooseFromDiscovery == GameNodes \* by weights that the nodes publish
chooseLogicNode == IF chooser = "local" THEN chooseFromShardOrRpc ELSE chooseFromDiscovery

(* allocLogicNode looks the client up once more and takes the node of the  *)
(* session, or chooses one.                                                *)
allocLogicNode(s) ==
  /\ reader[s].at = "alloc"
  /\ IF getSessionByConnId(s) = EmptySid THEN Refuses(s)
     ELSE IF Bound(s) # NoNode THEN Reads(s, "send", Bound(s)) /\ UNCHANGED feed
     ELSE \/ \E n \in chooseLogicNode : Reads(s, "bind", n) /\ UNCHANGED feed
          \/ Refuses(s)
  /\ UNCHANGED <<given, live, tabVars, raws, cl, hk, hooks, late, seen, told, left, displaced>>

(* ... sessionBind stores it, also for a session that closed meanwhile, ...*)
sessionBind(s) ==
  /\ reader[s].at = "bind"
  /\ sessionTable' = [sessionTable EXCEPT ![s] = reader[s].n]
  /\ late' = late \cup (IF cl[s] \in {"feed", "gone"} THEN {<<"bind", s>>} ELSE {})
                   \cup (IF cl[s] \notin {"open", "tell"} THEN {<<"tell", s>>} ELSE {})
  /\ Reads(s, "weigh", reader[s].n)
  /\ UNCHANGED <<given, live, conns, clients, uid2sid, sid2uid, userTable,
                 nodeTable, cache, feed, raws, cl, hk, hooks, seen, told, left, displaced>>

(* ... and localDis counts it.                                             *)
onBindLogicNode(s) ==
  /\ reader[s].at = "weigh"
  /\ nodeTable' = nodeTable \cup {<<reader[s].n, s>>}
  /\ Reads(s, "send", reader[s].n)
  /\ UNCHANGED <<given, live, conns, clients, uid2sid, sid2uid, sessionTable,
                 userTable, cache, feed, raws, cl, hk, hooks, late, seen, told, left, displaced>>

(* The message goes to the node, or the client is told that it did not.    *)
Forwards(s) ==
  /\ reader[s].at = "send"
  /\ \/ seen' = seen \cup {<<reader[s].n, s>>} /\ Reads(s, "no", NoNode) /\ UNCHANGED feed
     \/ s \notin conns /\ seen' = seen /\ Refuses(s)
  /\ UNCHANGED <<given, live, tabVars, raws, cl, hk, hooks, late, told, left, displaced>>

(***************************************************************************)
(* feedCallback tells a client of an error, if the gate has a callback and  *)
(* the server the connection.  The limit is read in one section of its lock *)
(* and written in two more; the close of the client may come in between.    *)
(***************************************************************************)
Feeding(f, at) == feed' = [feed EXCEPT ![f].at = at]
FeedEnds(f) == feed' = [feed EXCEPT ![f] = NotFeeding]

feedCallback(f) ==
  /\ feed[f].at = "live"
  /\ IF errCallback /\ feed[f].s \in live THEN Feeding(f, "ask") ELSE FeedEnds(f)
  /\ UNCHANGED <<given, live, tabVars, reader, raws, cl, hk, hooks, late, seen, told, left, displaced>>

(* A client that was told of the error is told again when that was long    *)
(* ago: the entry does not say how long.                                   *)
IsLimited(f) ==
  /\ feed[f].at = "ask"
  /\ \/ <<f[1], feed[f].s>> \in cache /\ FeedEnds(f)
     \/ Feeding(f, "set")
  /\ UNCHANGED <<given, live, tabVars, reader, raws, cl, hk, hooks, late, seen, told, left, displaced>>

StoresDeadline(f) ==
  LET entry == <<f[1], feed[f].s>> IN
  /\ cache' = cache \cup {entry}
  /\ late' = IF cl[feed[f].s] = "gone" THEN late \cup {entry} ELSE late
  /\ UNCHANGED <<given, live, conns, clients, uid2sid, sid2uid, sessionTable, userTable,
                 nodeTable, reader, raws, cl, hk, hooks, seen, told, left, displaced>>

IsLimitedSets(f) == feed[f].at = "set" /\ Feeding(f, "reset") /\ StoresDeadline(f)
Reset(f) == feed[f].at = "reset" /\ FeedEnds(f) /\ StoresDeadline(f)

(***************************************************************************)
(* onClientConnClose: one table after the other.  The server took the      *)
(* connection out of the ConnManager before.                               *)
(***************************************************************************)
ConnCloses(s) ==
  /\ cl[s] = "open"
  /\ live' = live \ {s} /\ cl' = [cl EXCEPT ![s] = "tell"]
  /\ UNCHANGED <<given, tabVars, reader, feed, raws, hk, hooks, late, seen, told, left, displaced>>

CloseSteps == [tell |-> "conns", conns |-> "clients", clients |-> "users", users |-> "binds",
               binds |-> "feed", feed |-> "gone"]

onClientConnClose(s) ==
  /\ cl[s] \in DOMAIN CloseSteps
  /\ cl' = [cl EXCEPT ![s] = CloseSteps[@]]
  /\ told' = IF cl[s] = "tell" /\ Bound(s) # NoNode THEN told \cup {<<Bound(s), s>>} ELSE told
  /\ conns' = IF cl[s] = "conns" THEN conns \ {s} ELSE conns
  /\ clients' = IF cl[s] = "clients" THEN clients \ {s} ELSE clients
  /\ IF cl[s] = "users" THEN onSessionDisconnect(s) ELSE UNCHANGED <<uid2sid, sid2uid>>
  /\ sessionTable' = IF cl[s] = "binds" THEN [sessionTable EXCEPT ![s] = NoNode] ELSE sessionTable
  /\ cache' = IF cl[s] = "feed" THEN {e \in cache : e[2] # s} ELSE cache
  /\ UNCHANGED <<given, live, userTable, nodeTable, reader, feed, raws, hk, hooks, late, seen, left, displaced>>

(***************************************************************************)
(* loginHook: what node n reports of user u in session s, which it may do   *)
(* after the client has gone.                                               *)
(***************************************************************************)
(* The first node a user is bound to stays until the user logs out.  Nobody *)
(* reads the table, so that its change goes with the start of the hook.     *)
userBind(u, n) == userTable' = IF userTable[u] = NoNode THEN [userTable EXCEPT ![u] = n] ELSE userTable
userUnbind(u) == userTable' = [userTable EXCEPT ![u] = NoNode]

HookBegins(n, u, s, login) ==
  /\ hk[n].at = "no" /\ hooks < Hooks /\ <<n, s>> \in seen
  /\ hooks' = hooks + 1
  /\ IF login THEN userBind(u, n) ELSE userUnbind(u)
  /\ hk' = [hk EXCEPT ![n] = [at |-> IF login THEN "user" ELSE "unbind", u |-> u, s |-> s, kicks |-> {}]]
  /\ UNCHANGED <<given, live, conns, clients, uid2sid, sid2uid, sessionTable, nodeTable,
                 cache, reader, feed, raws, cl, late, seen, told, left, displaced>>

Hooking(n, at) == hk' = [hk EXCEPT ![n].at = at]

\* The sessions whose user a login took into another one.
Displaced == {t \in ClientSids : sid2uid[t] \in UserIds /\ sid2uid'[t] = NoEntry}

(* A gate without a callback kicks nobody.                                 *)
onUserLogin(n) ==
  LET s == hk[n].s
      r == LoggedIn(hk[n].u, s)
  IN /\ hk[n].at = "user"
     /\ uid2sid' = r.uid2sid /\ sid2uid' = r.sid2uid
     /\ hk' = IF errCallback THEN [hk EXCEPT ![n].at = "kick", ![n].kicks = r.kicks]
              ELSE [hk EXCEPT ![n].at = "no"]
     /\ late' = IF cl[s] \in {"binds", "feed", "gone"} THEN late \cup {<<"user", s>>} ELSE late
     /\ displaced' = displaced \cup Displaced
     /\ UNCHANGED <<given, live, conns, clients, sessionTable, userTable,
                    nodeTable, cache, reader, feed, raws, cl, hooks, seen, told, left>>

(* One kicked session after the other: if its connection is still there,   *)
(* it is heard no more and told why.                                       *)
Kicked(n) == <<"kicked", n>>

Kick(n) ==
  /\ hk[n].at = "kick" /\ feed[Kicked(n)].at = "no"
  /\ IF hk[n].kicks = {} THEN Hooking(n, "no") /\ UNCHANGED feed
     ELSE \E s \in hk[n].kicks :
            /\ hk' = [hk EXCEPT ![n].kicks = @ \ {s}]
            /\ feed' = IF s \in conns THEN [feed EXCEPT ![Kicked(n)] = [at |-> "drop", s |-> s]] ELSE feed
  /\ UNCHANGED <<given, live, tabVars, reader, raws, cl, hooks, late, seen, told, left, displaced>>

removeClient(n) ==
  /\ feed[Kicked(n)].at = "drop"
  /\ clients' = clients \ {feed[Kicked(n)].s}
  /\ Feeding(Kicked(n), "live")
  /\ UNCHANGED <<given, live, conns, uid2sid, sid2uid, sessionTable, userTable, nodeTable,
                 cache, reader, raws, cl, hk, hooks, late, seen, told, left, displaced>>

(* The session keeps the node it is bound to and counts for it no more.    *)
onUnbindLogicNode(n) ==
  /\ hk[n].at = "unbind"
  /\ nodeTable' = nodeTable \ {<<n, hk[n].s>>}
  /\ left' = left \cup {hk[n].s}
  /\ Hooking(n, "logged")
  /\ UNCHANGED <<given, live, conns, clients, uid2sid, sid2uid, sessionTable,
                 userTable, cache, reader, feed, raws, cl, hooks, late, seen, told, displaced>>

LogoutUser(n) ==
  /\ hk[n].at = "logged"
  /\ onUserLogout(hk[n].u)
  /\ Hooking(n, "no")
  /\ UNCHANGED <<given, live, conns, clients, sessionTable, userTable,
                 nodeTable, cache, reader, feed, raws, cl, hooks, late, seen, told, left, displaced>>

GateNext ==
  \/ \E s \in ClientSids :
       \/ ConnCounted(s) \/ OnConnect(s) \/ ConnCloses(s) \/ onClientConnClose(s)
       \/ OnRaw(s) \/ allocLogicNode(s) \/ sessionBind(s) \/ onBindLogicNode(s)
       \/ Forwards(s) \/ RecvQueueFull(s)
  \/ \E f \in Feeders : feedCallback(f) \/ IsLimited(f) \/ IsLimitedSets(f) \/ Reset(f)
  \/ \E n \in GameNodes :
       \/ \E u \in UserIds, s \in ClientSids, login \in BOOLEAN : HookBegins(n, u, s, login)
       \/ onUserLogin(n) \/ Kick(n) \/ removeClient(n) \/ onUnbindLogicNode(n) \/ LogoutUser(n)

GateSpec == GateInit /\ [][GateNext]_gateTableVars

(***************************************************************************)
(* Properties                                                              *)
(***************************************************************************)
(* A user is in one session and a session has one user, whatever logins,   *)
(* logouts and disconnections came in whatever order.                      *)
UsersAgree ==
  /\ \A u \in UserIds : uid2sid[u] \in ClientSids => sid2uid[uid2sid[u]] = u
  /\ \A s \in ClientSids : sid2uid[s] \in UserIds => uid2sid[sid2uid[s]] = s

(* The gate never has more clients than the limit leaves room for: it      *)
(* counts a connection before it asks, the connection that asks included.  *)
LimitHolds == Cardinality(live \cap conns) < limit

Quiet == /\ \A s \in ClientSids : reader[s].at = "no" /\ cl[s] \in {"new", "open", "gone"}
         /\ \A n \in GameNodes : hk[n].at = "no"
         /\ \A f \in Feeders : feed[f].at = "no"

(* When nothing is under way the tables hold sessions that are connected,  *)
(* and those that a goroutine stored after the close had passed the table; *)
(* a session that is bound to a node counts for the node until it logs out, *)
(* and the node it spoke to is told of its end unless it was bound then.   *)
NothingStale ==
  Quiet =>
    /\ conns = live /\ clients \subseteq conns
    /\ \A p \in seen : cl[p[2]] = "gone" => p \in told \/ <<"tell", p[2]>> \in late
    /\ \A u \in UserIds : uid2sid[u] \in ClientSids => uid2sid[u] \in conns \/ <<"user", uid2sid[u]>> \in late
    /\ \A e \in cache : e[2] \in conns \/ e \in late
    /\ \A s \in ClientSids :
         /\ sessionTable[s] # NoNode => s \in conns \/ <<"bind", s>> \in late
         /\ s \in conns \ left /\ sessionTable[s] # NoNode => <<sessionTable[s], s>> \in nodeTable

(* A session whose user signed in on another one is heard no more, whether  *)
(* the hook kicks it while it closes or before, unless the gate was given    *)
(* no callback: then nobody is kicked.                                       *)
DisplacedNotHeard == Quiet /\ errCallback => displaced \cap clients = {}

GateTablesHold == UsersAgree /\ LimitHolds /\ NothingStale /\ DisplacedNotHeard
=============================================================================

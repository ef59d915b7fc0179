----------------------------- MODULE NetServer ------------------------------
(***************************************************************************)
(* The servers of kknet: kktcp on gnet ("tcp"), kktcptls on net.Listener   *)
(* ("tls"), kkws on net/http and gorilla ("ws"), kkgws on gws ("gws").     *)
(* How a connection is accepted, entered into the ConnManager, counted and *)
(* told to the handler, how it leaves, and what Stop finds of those that   *)
(* are on their way in or out.                                             *)
(*                                                                         *)
(* phase[c]: "none", "dialled" (in the backlog), "shaking" (the server     *)
(* has it, the HTTP upgrade is not done), "accepted", "added" (in the      *)
(* table), "counted", "reading" (OnConnect returned), "ended" (its read    *)
(* loop returned), "left" (out of the table), "gone".                      *)
(***************************************************************************)
EXTENDS Integers, FiniteSets

CONSTANTS
    ServerKinds,        \* of {"tcp", "tls", "ws", "gws"}
    ServerClients,      \* connections made in a behaviour
    Kicks               \* KickConn calls

VARIABLES
    serverKind,         \* one of ServerKinds
    started,
    listening,
    phase,
    openConns,          \* the sockets that are open
    table,              \* ConnManager.conns
    wg,                 \* connWg: those added and not done
    closed,             \* closeOnce of the connection was taken
    activeConns,        \* stats.activeConns
    connects,           \* connections the handler was told of by OnConnect
    closes,             \* calls of OnClose for each
    stopPc,
    stopList,           \* closeAllConnections: the snapshot still to close
    expired,            \* the context of Stop is done
    missed,             \* on their way in when the snapshot was taken
    kicking,            \* KickConn between its Close and its RemoveConn
    kicks,
    silent              \* closed by a Close that passes no handler

serverVars == <<serverKind, started, listening, phase, openConns, table, wg, closed, activeConns, connects, closes,
                stopPc, stopList, expired, missed, kicking, kicks, silent>>
NoKick == "none"
ofStop == <<started, listening, stopPc, stopList, expired, missed>>
ofKick == <<kicking, kicks>>

ASSUME ServerAssumption ==
    ServerKinds \subseteq {"tcp", "tls", "ws", "gws"} /\ NoKick \notin ServerClients

NewServer ==
    /\ serverKind \in ServerKinds /\ started = FALSE /\ listening = FALSE
    /\ phase = [c \in ServerClients |-> "none"] /\ openConns = {} /\ table = {} /\ wg = {} /\ closed = {}
    /\ activeConns = 0 /\ connects = {} /\ closes = [c \in ServerClients |-> 0]
    /\ stopPc = "no" /\ stopList = {} /\ expired = FALSE /\ missed = {}
    /\ kicking = NoKick /\ kicks = 0 /\ silent = {}

To(c, p) == phase' = [phase EXCEPT ![c] = p]
In(ps) == {c \in ServerClients : phase[c] \in ps}

(* Start: Listen succeeds, or fails and clears started. *)
Start ==
    /\ ~started /\ stopPc = "no"
    /\ \E ok \in BOOLEAN : started' = ok /\ listening' = ok
    /\ UNCHANGED <<serverKind, phase, openConns, table, wg, closed, activeConns, connects, closes, stopPc, stopList, expired, missed, silent>>
    /\ UNCHANGED ofKick

Dials(c) ==
    /\ phase[c] = "none" /\ listening /\ To(c, "dialled") /\ openConns' = openConns \union {c}
    /\ UNCHANGED <<serverKind, table, wg, closed, activeConns, connects, closes, silent>> /\ UNCHANGED ofStop /\ UNCHANGED ofKick

---------------------------------------------------------------------------
(* ConnManager *)
AddConn(c) == table' = table \union {c}
RemoveConn(c) == table' = table \ {c}
(* Stats *)
StatsOnConnect == activeConns' = activeConns + 1
StatsOnClose == activeConns' = activeConns - 1

---------------------------------------------------------------------------
(* The way in.  The accept loop of tls tells the handler before it accepts *)
(* again; that of gws only hands over; http runs one goroutine each.       *)
TlsAccept(c) ==
    /\ serverKind = "tls" /\ listening /\ phase[c] = "dialled" /\ In({"accepted", "added", "counted"}) = {}
    /\ To(c, "accepted") /\ UNCHANGED wg
GwsAccept(c) ==
    /\ serverKind = "gws"
    /\ \/ listening /\ phase[c] = "dialled" /\ In({"accepted"}) = {} /\ To(c, "accepted") /\ UNCHANGED wg
       \/ phase[c] = "accepted" /\ To(c, "shaking") /\ wg' = wg \union {c}
WsAccept(c) ==
    /\ serverKind = "ws"
    /\ \/ listening /\ phase[c] = "dialled" /\ To(c, "shaking")
       \/ phase[c] = "shaking" /\ To(c, "accepted")
    /\ UNCHANGED wg
Accepts(c) ==
    /\ TlsAccept(c) \/ GwsAccept(c) \/ WsAccept(c)
    /\ UNCHANGED <<serverKind, openConns, table, closed, activeConns, connects, closes, silent>> /\ UNCHANGED ofStop /\ UNCHANGED ofKick

(* A request that is no upgrade ends the connection. *)
handleRawConn(c) ==
    /\ serverKind \in {"gws", "ws"} /\ phase[c] = "shaking" /\ To(c, "gone")
    /\ openConns' = openConns \ {c} /\ wg' = wg \ {c}
    /\ UNCHANGED <<serverKind, table, closed, activeConns, connects, closes, silent>> /\ UNCHANGED ofStop /\ UNCHANGED ofKick

(* upgrade handler of kkws and accept loop of kktcptls: AddConn, wg.Add,   *)
(* stats, OnConnect, then the reader. *)
Upgraded(c) ==
    /\ serverKind \in {"tls", "ws"}
    /\ \/ phase[c] = "accepted" /\ To(c, "added") /\ AddConn(c) /\ UNCHANGED <<wg, activeConns, connects>>
       \/ phase[c] = "added" /\ To(c, "counted") /\ wg' = wg \union {c} /\ StatsOnConnect /\ UNCHANGED <<table, connects>>
       \/ phase[c] = "counted" /\ To(c, "reading") /\ connects' = connects \union {c} /\ UNCHANGED <<table, wg, activeConns>>
    /\ UNCHANGED <<serverKind, openConns, closed, closes, silent>> /\ UNCHANGED ofStop /\ UNCHANGED ofKick
GwsOnOpen(c) ==
    /\ serverKind = "gws"
    /\ \/ phase[c] = "shaking" /\ To(c, "added") /\ AddConn(c) /\ UNCHANGED <<activeConns, connects>>
       \/ phase[c] = "added" /\ To(c, "counted") /\ StatsOnConnect /\ UNCHANGED <<table, connects>>
       \/ phase[c] = "counted" /\ To(c, "reading") /\ connects' = connects \union {c} /\ UNCHANGED <<table, activeConns>>
    /\ UNCHANGED <<serverKind, openConns, wg, closed, closes, silent>> /\ UNCHANGED ofStop /\ UNCHANGED ofKick
(* gnet's event loop: stats, AddConn, OnConnect. *)
TcpOnOpen(c) ==
    /\ serverKind = "tcp"
    /\ \/ phase[c] = "dialled" /\ listening /\ To(c, "accepted") /\ StatsOnConnect /\ UNCHANGED <<table, connects>>
       \/ phase[c] = "accepted" /\ To(c, "counted") /\ AddConn(c) /\ UNCHANGED <<activeConns, connects>>
       \/ phase[c] = "counted" /\ To(c, "reading") /\ connects' = connects \union {c} /\ UNCHANGED <<table, activeConns>>
    /\ UNCHANGED <<serverKind, openConns, wg, closed, closes, silent>> /\ UNCHANGED ofStop /\ UNCHANGED ofKick

---------------------------------------------------------------------------
(* The way out *)

(* closeWithError, doClose: the first caller counts and tells.  gnet's     *)
(* conn.Close leaves both to the event loop. *)
closeWithError(c, tells) ==
    /\ openConns' = openConns \ {c}
    /\ IF c \in closed \/ serverKind = "tcp" THEN UNCHANGED <<closed, activeConns, closes, silent>>
       ELSE /\ closed' = closed \union {c} /\ StatsOnClose
            /\ closes' = [closes EXCEPT ![c] = @ + (IF tells THEN 1 ELSE 0)]
            /\ silent' = IF tells THEN silent ELSE silent \union {c}

PeerLeaves(c) ==
    /\ c \in openConns /\ phase[c] \in {"shaking", "accepted", "added", "counted", "reading"} /\ openConns' = openConns \ {c}
    /\ UNCHANGED <<serverKind, phase, table, wg, closed, activeConns, connects, closes, silent>> /\ UNCHANGED ofStop /\ UNCHANGED ofKick
(* The read loop returns on the error of a closed socket. *)
readLoop(c) ==
    /\ serverKind # "tcp" /\ phase[c] = "reading" /\ c \notin openConns /\ To(c, "ended")
    /\ UNCHANGED <<serverKind, openConns, table, wg, closed, activeConns, connects, closes, silent>> /\ UNCHANGED ofStop /\ UNCHANGED ofKick
ReaderCloses(c) ==
    /\ serverKind # "tcp" /\ phase[c] = "ended" /\ To(c, "left") /\ closeWithError(c, TRUE)
    /\ UNCHANGED <<serverKind, table, wg, connects>> /\ UNCHANGED ofStop /\ UNCHANGED ofKick
ReaderLeaves(c) ==
    /\ serverKind # "tcp" /\ phase[c] = "left" /\ To(c, "gone") /\ RemoveConn(c) /\ wg' = wg \ {c}
    /\ UNCHANGED <<serverKind, openConns, closed, activeConns, connects, closes, silent>> /\ UNCHANGED ofStop /\ UNCHANGED ofKick
(* A ping that cannot be written closes the connection with the handler.   *)
handlePingError(c) ==
    /\ serverKind \in {"ws", "gws"} /\ phase[c] = "reading" /\ c \notin closed /\ closeWithError(c, TRUE)
    /\ UNCHANGED <<serverKind, phase, table, wg, connects>> /\ UNCHANGED ofStop /\ UNCHANGED ofKick
(* gnet: stats, RemoveConn on the event loop; OnClose in a goroutine.      *)
TcpOnClose(c) ==
    /\ serverKind = "tcp"
    /\ \/ /\ phase[c] = "reading" /\ c \notin openConns /\ To(c, "left") /\ StatsOnClose /\ RemoveConn(c)
          /\ closed' = closed \union {c} /\ UNCHANGED closes
       \/ /\ phase[c] = "left" /\ To(c, "gone") /\ closes' = [closes EXCEPT ![c] = @ + 1]
          /\ UNCHANGED <<activeConns, table, closed>>
    /\ UNCHANGED <<serverKind, openConns, wg, connects, silent>> /\ UNCHANGED ofStop /\ UNCHANGED ofKick

(* KickConn: GetConn and Close, which passes no handler in kktcptls and    *)
(* kkws; then RemoveConn. *)
KickConn(c) ==
    /\ kicking = NoKick /\ kicks < Kicks /\ c \in table /\ kicking' = c /\ kicks' = kicks + 1
    /\ closeWithError(c, serverKind = "gws")
    /\ UNCHANGED <<serverKind, phase, table, wg, connects>> /\ UNCHANGED ofStop
KickRemoves ==
    /\ kicking # NoKick /\ RemoveConn(kicking) /\ kicking' = NoKick
    /\ UNCHANGED <<serverKind, phase, openConns, wg, closed, activeConns, connects, closes, silent, kicks>> /\ UNCHANGED ofStop

---------------------------------------------------------------------------
(* Stop *)
Stepped == UNCHANGED <<serverKind, phase, wg, connects, table>> /\ UNCHANGED ofKick
Untouched == UNCHANGED <<openConns, closed, activeConns, closes, silent>>

ServerStops ==
    /\ started /\ started' = FALSE /\ listening' = FALSE
    /\ stopPc' = CASE serverKind = "tls" -> "accepting" [] serverKind = "ws" -> "shutdown"
                   [] serverKind = "gws" -> "snapshot" [] serverKind = "tcp" -> "engine"
    /\ UNCHANGED <<stopList, expired, missed>> /\ Untouched /\ Stepped
ContextExpires ==
    /\ stopPc \notin {"no", "returned"} /\ ~expired /\ expired' = TRUE
    /\ UNCHANGED <<started, listening, stopPc, stopList, missed>> /\ Untouched /\ Stepped
TlsStopsNow ==          \* a Stop that does not wait for the accept loop
    /\ stopPc = "accepting" /\ stopPc' = "snapshot"
    /\ UNCHANGED <<started, listening, stopList, expired, missed>> /\ Untouched /\ Stepped
(* kktcptls waits for the accept loop to return. *)
TlsStopsAccept ==
    /\ stopPc = "accepting" /\ (expired \/ In({"accepted", "added", "counted"}) = {}) /\ stopPc' = "snapshot"
    /\ UNCHANGED <<started, listening, stopList, expired, missed>> /\ Untouched /\ Stepped
(* http.Server.Shutdown waits for the requests, not for the hijacked. *)
WsShutdown ==
    /\ stopPc = "shutdown" /\ (expired \/ In({"shaking"}) = {}) /\ stopPc' = "snapshot"
    /\ UNCHANGED <<started, listening, stopList, expired, missed>> /\ Untouched /\ Stepped
(* gnet's engine closes every connection and waits for the event loops. *)
TcpEngineStops ==
    /\ stopPc = "engine"
    /\ \/ \E c \in openConns \intersect In({"accepted", "counted", "reading"}) : openConns' = openConns \ {c} /\ UNCHANGED stopPc
       \/ /\ expired \/ In({"accepted", "counted", "reading"}) = {}
          /\ stopPc' = "returned" /\ UNCHANGED openConns
    /\ UNCHANGED <<started, listening, stopList, expired, missed, closed, activeConns, closes, silent>> /\ Stepped

StopSnapshot ==
    /\ stopPc = "snapshot" /\ stopPc' = "closing" /\ stopList' = table
    /\ missed' = In({"shaking", "accepted"})
    /\ UNCHANGED <<started, listening, expired>> /\ Untouched /\ Stepped
closeAllConnections ==
    /\ stopPc = "closing"
    /\ \/ \E c \in stopList : /\ ~expired /\ closeWithError(c, TRUE) /\ stopList' = stopList \ {c} /\ UNCHANGED stopPc
       \/ (expired \/ stopList = {}) /\ stopPc' = "waiting" /\ UNCHANGED stopList /\ Untouched
    /\ UNCHANGED <<started, listening, expired, missed>> /\ Stepped
(* connWg.Wait; kkgws then waits for its accept loop. *)
StopReturns ==
    /\ \/ stopPc = "waiting" /\ (expired \/ wg = {}) /\ stopPc' = IF serverKind = "gws" THEN "done" ELSE "returned"
       \/ stopPc = "done" /\ (expired \/ In({"accepted"}) = {}) /\ stopPc' = "returned"
    /\ UNCHANGED <<started, listening, stopList, expired, missed>> /\ Untouched /\ Stepped

ServerNext ==
    \/ Start \/ KickRemoves \/ ServerStops \/ ContextExpires \/ TlsStopsAccept \/ WsShutdown
    \/ TcpEngineStops \/ StopSnapshot \/ closeAllConnections \/ StopReturns
    \/ \E c \in ServerClients :
          \/ Dials(c) \/ Accepts(c) \/ handleRawConn(c) \/ Upgraded(c) \/ GwsOnOpen(c) \/ TcpOnOpen(c)
          \/ PeerLeaves(c) \/ readLoop(c) \/ ReaderCloses(c) \/ ReaderLeaves(c)
          \/ handlePingError(c) \/ TcpOnClose(c) \/ KickConn(c)
ServerSpec == NewServer /\ [][ServerNext]_serverVars

---------------------------------------------------------------------------
(* When nothing is under way, the table and the counter are the            *)
(* connections whose read loops run. *)
Quiet ==
    /\ kicking = NoKick /\ stopPc \in {"no", "returned"}
    /\ \A c \in ServerClients : phase[c] \in {"none", "dialled", "gone"} \/ (phase[c] = "reading" /\ c \in openConns)
CountsAgree == Quiet => table = In({"reading"}) /\ activeConns = Cardinality(table)
(* OnClose is told once for every connection that was told of, but not for *)
(* one a Close without a handler closed; it is told before OnConnect only  *)
(* when the Stop of a WebSocket server, or a KickConn of kkgws, finds the  *)
(* connection in the table on its way in. *)
ToldOnce ==
    \A c \in ServerClients :
        /\ closes[c] <= 1 /\ (c \in silent => closes[c] = 0)
        /\ phase[c] = "gone" /\ c \in connects /\ c \notin silent => closes[c] = 1
        /\ closes[c] = 1 /\ c \notin connects => serverKind \in {"ws", "gws"}
        /\ c \in silent => serverKind \in {"tls", "ws"} /\ kicks > 0
(* A Stop in time leaves no connection of kktcp and kktcptls open, and of  *)
(* the others only those that were shaking hands at its snapshot.          *)
StopLeavesNone ==
    stopPc = "returned" /\ ~expired =>
        LET alive == openConns \ In({"dialled"})
        IN  alive \subseteq missed /\ (serverKind \in {"tcp", "tls"} => alive = {})
ServerAccounts == CountsAgree /\ ToldOnce /\ StopLeavesNone
=============================================================================

------------------------------- MODULE NetClient -------------------------------
(***************************************************************************)
(* The reconnecting client of kknet/kktcptls (client.go, conn.go); those of   *)
(* kkws and kkgws are the same program over a WebSocket.  Users call Connect  *)
(* and Close from any goroutine.  A Connect that wins the CAS on status starts a  *)
(* session: a goroutine (reconnectLoop, or without IsNeedReconnect the caller *)
(* and then a watcher) that dials, waits for the connection to end and dials   *)
(* again.  Each connection has a reader goroutine.                           *)
(*                                                                         *)
(* The grain is the code's: an atomic load or store of status, a locked       *)
(* section, a channel operation or the body of closeOnce is a step.  Every    *)
(* new stopCh is a generation; a select evaluates c.stopCh when it starts.     *)
(***************************************************************************)
EXTENDS Naturals

CONSTANTS
    Connectors,       \* goroutines that call Connect and Close
    Closers,          \* goroutines that only call Close
    Calls,            \* calls they make in all
    MaxSessions,      \* bound on the Connects that start a session
    MaxLosses,        \* bound on the connections ended by the peer
    Retries           \* values of ReconnectMaxRetries; 0 is "no limit"

Users == Connectors \cup Closers
Sessions == 1..MaxSessions
\* A session dials again after a loss or after a Close.
Conns == 1..(MaxSessions + MaxLosses + Calls)
NoConn == 0

VARIABLES
    opts,             \* IsNeedReconnect and ReconnectMaxRetries
    status,           \* the ConnStatus
    conn,             \* c.conn
    stopCh,           \* the generation of c.stopCh
    stopped,          \* the generations that are closed
    calls,            \* calls left
    at,               \* where a user is
    mine,             \* the session, or the connection, a user deals with
    seen,             \* the stopCh its select evaluated
    sessions,         \* sessions started so far
    loop,             \* where the goroutine of a session is
    link,             \* the connection it dialled
    gen,              \* the stopCh its select evaluated
    attempts,         \* its attempts
    first,            \* what it reported to its Connect
    made,             \* connections dialled so far
    alive,            \* connections whose socket is open
    reading,          \* connections whose reader runs
    told,             \* connections OnConnect was called for
    left,             \* connections OnClose was called for
    losses,           \* connections ended by the peer so far
    final,            \* history: a Close found a connection, and no Connect since
    panic             \* a channel was closed twice

clientVars == <<opts, status, conn, stopCh, stopped>>
userVars == <<calls, at, mine, seen>>
loopVars == <<loop, link, gen, attempts, first>>
connVars == <<made, alive, reading, told, left, losses>>
historyVars == <<sessions, final, panic>>
vars == <<clientVars, userVars, loopVars, connVars, historyVars>>

Init ==
    /\ opts \in [reconnect : BOOLEAN, retries : Retries]
    /\ status = "Init" /\ conn = NoConn
    /\ stopCh = 0 /\ stopped = {}
    /\ calls = Calls
    /\ at = [u \in Users |-> "idle"]
    /\ mine = [u \in Users |-> 0]
    /\ seen = [u \in Users |-> 0]
    /\ sessions = 0
    /\ loop = [s \in Sessions |-> "none"]
    /\ link = [s \in Sessions |-> NoConn]
    /\ gen = [s \in Sessions |-> 0]
    /\ attempts = [s \in Sessions |-> 0]
    /\ first = [s \in Sessions |-> "none"]
    /\ made = 0 /\ losses = 0
    /\ alive = {} /\ reading = {} /\ told = {} /\ left = {}
    /\ final = FALSE /\ panic = FALSE

ClosingOrClosed == status \in {"Closing", "Closed"}

UserGoes(u, where) == at' = [at EXCEPT ![u] = where]
LoopGoes(s, where) == loop' = [loop EXCEPT ![s] = where]

-----------------------------------------------------------------------------
\* Connect

\* The CAS on status: only Init and Closed allow a Connect.
ConnectBegin(u) ==
    /\ at[u] = "idle" /\ calls > 0
    /\ status \in {"Init", "Closed"} /\ sessions < MaxSessions
    /\ calls' = calls - 1
    /\ status' = "Connecting"
    /\ sessions' = sessions + 1
    /\ mine' = [mine EXCEPT ![u] = sessions + 1]
    /\ UserGoes(u, "renew")
    /\ final' = FALSE
    /\ UNCHANGED <<opts, conn, stopCh, stopped, seen, loopVars, connVars, panic>>

\* A new stopCh if the last Close closed the old one.
ConnectRenews(u) ==
    /\ at[u] = "renew"
    /\ stopCh' = IF stopCh \in stopped THEN stopCh + 1 ELSE stopCh
    /\ UserGoes(u, "start")
    /\ UNCHANGED <<opts, status, conn, stopped, calls, mine, seen, loopVars, connVars,
                   historyVars>>

\* startReconnectLoop; a single attempt dials at once.
ConnectStarts(u) ==
    /\ at[u] = "start"
    /\ LET s == mine[u] IN
       IF opts.reconnect /\ (status = "Reconnecting" \/ ClosingOrClosed)
       THEN first' = [first EXCEPT ![s] = "ok"] /\ UNCHANGED loop
       ELSE /\ LoopGoes(s, IF opts.reconnect THEN "head" ELSE "dial")
            /\ UNCHANGED first
    /\ UserGoes(u, "select")
    /\ UNCHANGED <<clientVars, calls, mine, seen, link, gen, attempts, connVars, historyVars>>

ConnectSelects(u) ==
    /\ at[u] = "select"
    /\ seen' = [seen EXCEPT ![u] = stopCh]
    /\ UserGoes(u, "await")
    /\ UNCHANGED <<clientVars, calls, mine, loopVars, connVars, historyVars>>

ConnectResult(u) ==
    /\ at[u] = "await" /\ first[mine[u]] # "none"
    /\ UserGoes(u, IF opts.reconnect /\ first[mine[u]] = "err" THEN "shut" ELSE "idle")
    /\ mine' = [mine EXCEPT ![u] = 0]
    /\ UNCHANGED <<clientVars, calls, seen, loopVars, connVars, historyVars>>

ConnectStopped(u) ==
    /\ at[u] = "await" /\ opts.reconnect /\ seen[u] \in stopped
    /\ UserGoes(u, "shut")
    /\ mine' = [mine EXCEPT ![u] = 0]
    /\ UNCHANGED <<clientVars, calls, seen, loopVars, connVars, historyVars>>

-----------------------------------------------------------------------------
\* Close

CloseBegin(u) ==
    /\ at[u] = "idle" /\ calls > 0
    /\ calls' = calls - 1
    /\ status' = "Closing"
    /\ UserGoes(u, "take")
    /\ UNCHANGED <<opts, conn, stopCh, stopped, mine, seen, loopVars, connVars, historyVars>>

\* Mutant of CloseTakes: stopCh stays open.
CloseTakesQuietly(u) ==
    /\ at[u] = "take"
    /\ mine' = [mine EXCEPT ![u] = conn]
    /\ conn' = NoConn
    /\ final' = (final \/ conn # NoConn)
    /\ UserGoes(u, IF conn = NoConn THEN "shut" ELSE "close")
    /\ UNCHANGED <<opts, status, stopCh, stopped, calls, seen, loopVars, connVars, sessions,
                   panic>>

\* The locked section; a Close that finds no connection leaves stopCh open.
CloseTakes(u) ==
    /\ at[u] = "take"
    /\ mine' = [mine EXCEPT ![u] = conn]
    /\ conn' = NoConn
    /\ final' = (final \/ conn # NoConn)
    /\ UserGoes(u, IF conn = NoConn THEN "shut" ELSE "stop")
    /\ UNCHANGED <<opts, status, stopCh, stopped, calls, seen, loopVars, connVars, sessions,
                   panic>>

\* The select that finds stopCh open, and close(c.stopCh), are two steps.
CloseChecks(u) ==
    /\ at[u] = "stop"
    /\ UserGoes(u, IF stopCh \in stopped THEN "close" ELSE "closech")
    /\ UNCHANGED <<clientVars, calls, mine, seen, loopVars, connVars, historyVars>>

CloseStops(u) ==
    /\ at[u] = "closech"
    /\ panic' = (stopCh \in stopped)
    /\ stopped' = stopped \cup {stopCh}
    /\ UserGoes(u, "close")
    /\ UNCHANGED <<opts, status, conn, stopCh, calls, mine, seen, loopVars, connVars,
                   sessions, final>>

\* conn.Close(): closeOnce with no handler.
CloseConn(u) ==
    /\ at[u] = "close"
    /\ alive' = alive \ {mine[u]}
    /\ UserGoes(u, "shut")
    /\ UNCHANGED <<clientVars, calls, mine, seen, loopVars, made, reading, told, left, losses,
                   historyVars>>

\* The last store, of Close and of a Connect that failed.
Shut(u) ==
    /\ at[u] = "shut"
    /\ status' = "Closed"
    /\ mine' = [mine EXCEPT ![u] = 0]
    /\ UserGoes(u, "idle")
    /\ UNCHANGED <<opts, conn, stopCh, stopped, calls, seen, loopVars, connVars, historyVars>>

-----------------------------------------------------------------------------
\* A session: reconnectLoop, or a single attempt and its watcher

LimitReached(s) == opts.retries > 0 /\ attempts[s] >= opts.retries

\* reportFirst reports once.
Report(s, result) == first' = [first EXCEPT ![s] = IF @ = "none" THEN result ELSE @]

\* Mutant of LoopHead: it returns without reportFirst.
LoopHeadSilent(s) ==
    /\ loop[s] = "head"
    /\ LoopGoes(s, IF ClosingOrClosed THEN "end" ELSE IF LimitReached(s) THEN "giveup" ELSE "dial")
    /\ UNCHANGED <<clientVars, userVars, link, gen, attempts, first, connVars, historyVars>>

\* The head of the loop: leave when closed or when the attempts are used up.
LoopHead(s) ==
    /\ loop[s] = "head"
    /\ IF ClosingOrClosed \/ LimitReached(s)
       THEN /\ Report(s, "err")
            /\ LoopGoes(s, IF ClosingOrClosed THEN "end" ELSE "giveup")
       ELSE LoopGoes(s, "dial") /\ UNCHANGED first
    /\ UNCHANGED <<clientVars, userVars, link, gen, attempts, connVars, historyVars>>

LoopGivesUp(s) ==
    /\ loop[s] = "giveup"
    /\ status' = "Closed"
    /\ Report(s, "err")
    /\ LoopGoes(s, "end")
    /\ UNCHANGED <<opts, conn, stopCh, stopped, userVars, link, gen, attempts, connVars,
                   historyVars>>

Attempt(s) == attempts' = [attempts EXCEPT ![s] = IF opts.retries > 0 THEN @ + 1 ELSE @]

DialFails(s) ==
    /\ loop[s] = "dial"
    /\ Attempt(s)
    /\ IF opts.reconnect /\ ~(opts.retries > 0 /\ attempts[s] + 1 >= opts.retries)
       THEN LoopGoes(s, "sleep") /\ UNCHANGED first
       ELSE /\ LoopGoes(s, "giveup")
            /\ IF opts.reconnect THEN Report(s, "err") ELSE UNCHANGED first
    /\ UNCHANGED <<clientVars, userVars, link, gen, connVars, historyVars>>

DialSucceeds(s) ==
    /\ loop[s] = "dial"
    /\ Attempt(s)
    /\ made' = made + 1
    /\ alive' = alive \cup {made + 1}
    /\ link' = [link EXCEPT ![s] = made + 1]
    /\ LoopGoes(s, "publish")
    /\ UNCHANGED <<clientVars, userVars, gen, first, reading, told, left, losses, historyVars>>

\* dialAndStart: the locked section that stores c.conn ...
LoopPublishes(s) ==
    /\ loop[s] = "publish"
    /\ conn' = link[s]
    /\ LoopGoes(s, "notify")
    /\ UNCHANGED <<opts, status, stopCh, stopped, userVars, link, gen, attempts, first, connVars,
                   historyVars>>

\* ... and OnConnect, then the reader.
LoopNotifies(s) ==
    /\ loop[s] = "notify"
    /\ told' = told \cup {link[s]}
    /\ reading' = reading \cup {link[s]}
    /\ LoopGoes(s, "mark")
    /\ UNCHANGED <<clientVars, userVars, link, gen, attempts, first, made, alive, left, losses,
                   historyVars>>

\* The status is stored without a look at what it is.
LoopMarks(s) ==
    /\ loop[s] = "mark"
    /\ status' = IF opts.reconnect /\ first[s] # "none" THEN "Reconnected" ELSE "Connected"
    /\ Report(s, "ok")
    /\ LoopGoes(s, "select")
    /\ UNCHANGED <<opts, conn, stopCh, stopped, userVars, link, gen, attempts, connVars,
                   historyVars>>

LoopSelects(s) ==
    /\ loop[s] \in {"select", "sleep"}
    /\ gen' = [gen EXCEPT ![s] = stopCh]
    /\ LoopGoes(s, IF loop[s] = "select" THEN "wait" ELSE "backoff")
    /\ UNCHANGED <<clientVars, userVars, link, attempts, first, connVars, historyVars>>

\* done: the reader ended; forget the connection if it is still the client's.
LoopLost(s) ==
    /\ loop[s] = "wait" /\ link[s] \notin reading
    /\ conn' = IF conn = link[s] THEN NoConn ELSE conn
    /\ LoopGoes(s, IF opts.reconnect THEN "check" ELSE "giveup")
    /\ UNCHANGED <<opts, status, stopCh, stopped, userVars, link, gen, attempts, first, connVars,
                   historyVars>>

\* Both cases of the select may be ready.  tc.Close() is the body of closeOnce.
LoopStopped(s) ==
    /\ loop[s] = "wait" /\ opts.reconnect /\ gen[s] \in stopped
    /\ alive' = alive \ {link[s]}
    /\ LoopGoes(s, "end")
    /\ UNCHANGED <<clientVars, userVars, link, gen, attempts, first, made, reading, told, left,
                   losses, historyVars>>

LoopChecks(s) ==
    /\ loop[s] = "check"
    /\ LoopGoes(s, IF ClosingOrClosed THEN "end" ELSE "again")
    /\ UNCHANGED <<clientVars, userVars, link, gen, attempts, first, connVars, historyVars>>

LoopAgain(s) ==
    /\ loop[s] = "again"
    /\ status' = "Reconnecting"
    /\ LoopGoes(s, "sleep")
    /\ UNCHANGED <<opts, conn, stopCh, stopped, userVars, link, gen, attempts, first, connVars,
                   historyVars>>

\* A closed stopCh is ready at once, the timer only after the delay.
LoopSlept(s) ==
    /\ loop[s] = "backoff"
    /\ IF gen[s] \in stopped
       THEN LoopGoes(s, "end") /\ Report(s, "err")
       ELSE LoopGoes(s, "head") /\ UNCHANGED first
    /\ UNCHANGED <<clientVars, userVars, link, gen, attempts, connVars, historyVars>>

-----------------------------------------------------------------------------
\* The reader: readLoop ends, closeWithError calls OnClose unless closeOnce is
\* used up, and done is closed.
ReaderEnds(c) ==
    /\ c \in reading
    /\ reading' = reading \ {c}
    /\ alive' = alive \ {c}
    /\ left' = IF c \in alive THEN left \cup {c} ELSE left
    /\ UNCHANGED <<clientVars, userVars, loopVars, made, told, historyVars>>

PeerCloses(c) ==
    /\ c \in alive /\ losses < MaxLosses
    /\ losses' = losses + 1
    /\ ReaderEnds(c)

SocketClosed(c) ==
    /\ c \notin alive
    /\ UNCHANGED losses
    /\ ReaderEnds(c)

-----------------------------------------------------------------------------
Connecting(u) ==
    \/ ConnectRenews(u) \/ ConnectStarts(u) \/ ConnectSelects(u)
    \/ ConnectResult(u) \/ ConnectStopped(u)

Closing(u) == CloseTakes(u) \/ CloseChecks(u) \/ CloseStops(u) \/ CloseConn(u) \/ Shut(u)

Session(s) ==
    \/ LoopHead(s) \/ LoopGivesUp(s) \/ DialFails(s) \/ DialSucceeds(s) \/ LoopPublishes(s)
    \/ LoopNotifies(s) \/ LoopMarks(s) \/ LoopSelects(s) \/ LoopLost(s) \/ LoopStopped(s)
    \/ LoopChecks(s) \/ LoopAgain(s) \/ LoopSlept(s)

Next ==
    /\ ~panic
    /\ \/ \E u \in Connectors : ConnectBegin(u)
       \/ \E u \in Users : CloseBegin(u) \/ Connecting(u) \/ Closing(u)
       \/ \E s \in Sessions : Session(s)
       \/ \E c \in Conns : PeerCloses(c) \/ SocketClosed(c)

Spec == Init /\ [][Next]_vars

\* Goroutines are scheduled; a dial may fail again and again.
Fairness ==
    /\ \A u \in Users : WF_vars(~panic /\ (Connecting(u) \/ Closing(u)))
    /\ \A s \in Sessions : WF_vars(~panic /\ Session(s))
    /\ \A c \in Conns : WF_vars(~panic /\ SocketClosed(c))

FairSpec == Spec /\ Fairness

-----------------------------------------------------------------------------
\* A Close that found the connection wins, however its steps mix with a loss, a dial
\* or another Close: unless somebody connects again, the client ends with no open
\* socket and no goroutine that would dial (stopCh closed, reconnectLoop).
Quiet == alive = {} /\ \A s \in Sessions : loop[s] \in {"none", "end"}
CloseWins == []<>(final => Quiet \/ panic)

\* Where only a dial that succeeds is missing.
Dialling == opts.retries = 0 /\ \E s \in Sessions : loop[s] = "dial"
Restored == reading # {} \/ ClosingOrClosed \/ stopped # {} \/ panic

\* Connect and Close return, whatever the network and the other callers do, and a
\* lost connection is replaced while nobody closes the client (reconnectLoop
\* without a limit of attempts): whatever is missing, the client dials for it again
\* and again.
ClientGoesOn ==
    /\ \A u \in Users : []<>(at[u] = "idle" \/ panic \/ (at[u] = "await" /\ Dialling))
    /\ []<>(left # {} /\ opts.reconnect /\ opts.retries = 0 => Restored \/ Dialling)

\* client.go:111: "any -> Closing -> Closed", and there it stays until a Connect:
\* when a Close that found the connection is over and nothing runs any more, the
\* status says so.
ClosedStaysClosed ==
    final /\ Quiet /\ reading = {} /\ (\A u \in Users : at[u] = "idle") => ClosingOrClosed
=============================================================================

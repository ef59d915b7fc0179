------------------------------ MODULE AppLife ------------------------------
(***************************************************************************)
(* kkapp/component: the life of an Application and of the faults of its    *)
(* components.  Application and components are actors of an external       *)
(* library: an actor handles one message at a time, messages of the system *)
(* (a child failed, a child ended, stop) before the others; a parent that  *)
(* stops or restarts waits for its children; an actor that panics while it *)
(* starts is restarted a few times and then stopped.  Start, Stop, the     *)
(* fallback timers and the timer that stops the Application run on         *)
(* goroutines of their own.                                                *)
(***************************************************************************)
EXTENDS Integers, FiniteSets

CONSTANTS
    NComps,         \* components, started in the order they were added
    StopComp,       \* those whose rule is FaultActionStopComp
    AppRestarts,    \* restarts of the Application actor the library makes
    Faults          \* components that end by themselves or panic as they start (bound)

ASSUME AppSizes == NComps \in Nat \ {0} /\ AppRestarts \in Nat

Comps == 1..NComps
Pids  == Comps \X (0..AppRestarts)      \* a component and the incarnation that spawned it
Stoppers == {"user", "fault"}

VARIABLES
    appState,       \* "none", "starting", "started", "stopping" or "stopped"
    appAt,          \* what the Application actor does
    inc,            \* its incarnation
    idx,            \* the component onStarted is at
    startPc, startResult, pidSet,   \* Start, its channel, and whether slf.pid is set
    child,          \* every component actor
    fails, ends,    \* failures and Terminated messages on the way to the Application
    event,          \* the failure the supervisor handles
    poison,         \* a PoisonPill waits
    mapped, handledPID, pending, firing, subscribed, scheduled,     \* appWatcher
    stopPc,         \* where every Stop is
    locator,        \* components in the LocalActorManager, 0 for the Application
    published,      \* how often a fault of a component was published
    faults, raced, early

startVars == <<startPc, startResult, pidSet>>
actorVars == <<appAt, inc, idx, child, ends, event, poison>>
watchVars == <<mapped, handledPID, pending, firing, subscribed, scheduled>>
appVars == <<appState, startVars, actorVars, fails, watchVars, stopPc, locator, published,
             faults, raced, early>>

NoPid == <<0, 0>>
AppInit ==
    /\ appState = "none" /\ appAt = "none" /\ inc = 0 /\ idx = 0
    /\ startPc = "idle" /\ startResult = "none" /\ pidSet = FALSE
    /\ child = [p \in Pids |-> "none"] /\ fails = {} /\ ends = {}
    /\ event = [at |-> "no", pid |-> NoPid] /\ poison = FALSE
    /\ mapped = {} /\ handledPID = {} /\ pending = {} /\ firing = [p \in Pids |-> "no"]
    /\ subscribed = FALSE /\ scheduled = FALSE
    /\ stopPc = [s \in Stoppers |-> "idle"] /\ locator = {}
    /\ published = [p \in Pids |-> 0] /\ faults = 0 /\ raced = {} /\ early = FALSE

Ending == appState \in {"stopping", "stopped"}
Told   == [child EXCEPT ![<<idx, inc>>] = "up"]

\* The actor library stops the children of an actor: each runs its OnStop and ends.
ChildrenTold == [p \in Pids |-> IF child[p] \in {"up", "failed"} THEN "stopping" ELSE child[p]]
ChildrenGone == \A p \in Pids : child[p] \in {"none", "gone"}
-----------------------------------------------------------------------------
(* Start *)
StartBegins ==
    /\ startPc = "idle" /\ appState = "none"
    /\ appState' = "starting" /\ startPc' = "spawn"
    /\ UNCHANGED <<startResult, pidSet, actorVars, fails, watchVars, stopPc, locator, published,
                   faults, raced, early>>

StartSpawns ==
    /\ startPc = "spawn"
    /\ startPc' = "pid" /\ appAt' = "spawned"
    /\ UNCHANGED <<appState, startResult, pidSet, inc, idx, child, ends, event, poison, fails,
                   watchVars, stopPc, locator, published, faults, raced, early>>

\* slf.pid, then AddActor: the actor runs meanwhile, and may be gone already.
StartStores ==
    /\ \/ startPc = "pid" /\ startPc' = "add" /\ pidSet' = TRUE /\ locator' = locator
       \/ startPc = "add" /\ startPc' = "wait" /\ locator' = locator \cup {0} /\ pidSet' = pidSet
    /\ UNCHANGED <<appState, startResult, actorVars, fails, watchVars, stopPc, published,
                   faults, raced, early>>

StartReturns ==
    /\ startPc = "wait" /\ startResult # "none"
    /\ startPc' = startResult
    /\ UNCHANGED <<appState, startResult, pidSet, actorVars, fails, watchVars, stopPc, locator,
                   published, faults, raced, early>>
-----------------------------------------------------------------------------
(* onStarted: one turn of the Application actor *)
onStarted ==
    /\ appAt = "spawned" /\ appState = "starting"
    /\ appAt' = "spawns" /\ idx' = 1 /\ subscribed' = TRUE
    /\ UNCHANGED <<appState, startVars, inc, child, ends, event, poison, fails, mapped,
                   handledPID, pending, firing, scheduled, stopPc, locator, published, faults,
                   raced, early>>

\* Spawn, watchComponent and AddActor of the next component.
SpawnComponent ==
    /\ appAt = "spawns"
    /\ appAt' = "onStart" /\ child' = Told
    /\ mapped' = mapped \cup {<<idx, inc>>} /\ locator' = locator \cup {idx}
    /\ UNCHANGED <<appState, startVars, inc, idx, ends, event, poison, fails, handledPID, pending,
                   firing, subscribed, scheduled, stopPc, published, faults, raced, early>>

OnStartOk ==
    /\ appAt = "onStart"
    /\ IF idx = NComps
       THEN appAt' = "started" /\ appState' = "started" /\ idx' = idx
       ELSE appAt' = "spawns" /\ idx' = idx + 1 /\ appState' = appState
    /\ UNCHANGED <<startVars, inc, child, ends, event, poison, fails, watchVars, stopPc, locator,
                   published, faults, raced, early>>

OnStartFails ==
    /\ appAt = "onStart"
    /\ appAt' = "failed" /\ appState' = "stopping"
    /\ UNCHANGED <<startVars, inc, idx, child, ends, event, poison, fails, watchVars, stopPc,
                   locator, published, faults, raced, early>>

\* Mutant of finishStart: the error is not handed over.
finishStartOk ==
    /\ appAt \in {"started", "failed"}
    /\ startResult' = IF appAt = "started" THEN "ok" ELSE startResult
    /\ appAt' = IF appAt = "started" THEN "runs" ELSE "stops"
    /\ child' = IF appAt = "started" THEN child ELSE ChildrenTold
    /\ UNCHANGED <<appState, startPc, pidSet, inc, idx, ends, event, poison, fails, watchVars,
                   stopPc, locator, published, faults, raced, early>>

\* finishStart, and after an error ctx.Stop.
finishStart ==
    /\ appAt \in {"started", "failed"}
    /\ IF appAt = "started"
       THEN startResult' = "ok" /\ appAt' = "runs" /\ child' = child
       ELSE startResult' = "err" /\ appAt' = "stops" /\ child' = ChildrenTold
    /\ UNCHANGED <<appState, startPc, pidSet, inc, idx, ends, event, poison, fails, watchVars,
                   stopPc, locator, published, faults, raced, early>>

\* A panic of OnStart is one of the Application actor, whose own supervisor is the library's.
OnStartPanics ==
    /\ appAt = "onStart" /\ faults < Faults
    /\ appAt' = IF inc < AppRestarts THEN "restarts" ELSE "stops"
    /\ child' = ChildrenTold /\ faults' = faults + 1
    /\ UNCHANGED <<appState, startVars, inc, idx, ends, event, poison, fails, watchVars, stopPc,
                   locator, published, raced, early>>

Waits == appAt \in {"runs", "restarts", "stops"} /\ event.at = "no"

Restarted ==
    /\ appAt = "restarts" /\ Waits /\ fails = {} /\ ends = {} /\ ChildrenGone
    /\ appAt' = "spawned" /\ inc' = inc + 1
    /\ UNCHANGED <<appState, startVars, idx, child, ends, event, poison, fails, watchVars, stopPc,
                   locator, published, faults, raced, early>>
-----------------------------------------------------------------------------
(* The components *)
Crashes(p) ==
    /\ child[p] = "up" /\ faults < Faults
    /\ child' = [child EXCEPT ![p] = "failed"] /\ fails' = fails \cup {p}
    /\ faults' = faults + 1
    /\ UNCHANGED <<appState, startVars, appAt, inc, idx, ends, event, poison, watchVars, stopPc,
                   locator, published, raced, early>>

\* Somebody stops the actor of a component: there is no failure, only its end.
EndsItself(p) ==
    /\ child[p] = "up" /\ faults < Faults
    /\ child' = [child EXCEPT ![p] = "stopping"] /\ faults' = faults + 1
    /\ UNCHANGED <<appState, startVars, appAt, inc, idx, ends, fails, event, poison, watchVars,
                   stopPc, locator, published, raced, early>>

OnStop(p) ==
    /\ child[p] = "stopping"
    /\ child' = [child EXCEPT ![p] = "gone"] /\ ends' = ends \cup {p}
    /\ UNCHANGED <<appState, startVars, appAt, inc, idx, fails, event, poison, watchVars, stopPc,
                   locator, published, faults, raced, early>>
-----------------------------------------------------------------------------
(* appWatcher *)

\* onComponentFault: the fault is published, the first one by the rule stops the Application.
onComponentFault(p) ==
    /\ published' = [published EXCEPT ![p] = @ + 1]
    /\ scheduled' = (scheduled \/ p[1] \notin StopComp)
    /\ stopPc' = IF scheduled \/ p[1] \in StopComp THEN stopPc
                                                  ELSE [stopPc EXCEPT !["fault"] = "armed"]

\* The handler of the SupervisorEvent looks at the state ...
SupervisorEvent(p) ==
    /\ Waits /\ p \in fails
    /\ fails' = fails \ {p}
    /\ LET heard == subscribed /\ ~Ending /\ p \in mapped IN
       /\ event' = IF heard THEN [at |-> "mark", pid |-> p] ELSE event
       /\ child' = IF ~heard /\ child[p] = "failed" THEN [child EXCEPT ![p] = "stopping"] ELSE child
    /\ UNCHANGED <<appState, startVars, appAt, inc, idx, ends, poison, watchVars, stopPc, locator,
                   published, faults, raced, early>>

\* ... marks the fault, publishes it unless it was, and the component is stopped.
SupervisorMarks ==
    LET p == event.pid IN
    /\ event.at = "mark"
    /\ event' = [at |-> "no", pid |-> NoPid]
    /\ child' = IF child[p] = "failed" THEN [child EXCEPT ![p] = "stopping"] ELSE child
    /\ IF p \in handledPID
       THEN UNCHANGED <<handledPID, pending, scheduled, stopPc, published>>
       ELSE /\ handledPID' = handledPID \cup {p} /\ pending' = pending \ {p}
            /\ onComponentFault(p)
    /\ UNCHANGED <<appState, startVars, appAt, inc, idx, ends, poison, fails, mapped, firing,
                   subscribed, locator, faults, raced, early>>

\* Terminated, the fallback: a timer, so that the SupervisorEvent comes first.
onTerminated(p) ==
    /\ Waits /\ p \in ends \ fails
    /\ ends' = ends \ {p}
    /\ pending' = IF ~Ending /\ p \in mapped THEN pending \cup {p} ELSE pending
    /\ UNCHANGED <<appState, startVars, appAt, inc, idx, child, event, poison, fails, mapped,
                   handledPID, firing, subscribed, scheduled, stopPc, locator, published, faults,
                   raced, early>>

TimerFires(p) ==
    /\ p \in pending
    /\ pending' = pending \ {p} /\ firing' = [firing EXCEPT ![p] = "check"]
    /\ UNCHANGED <<appState, startVars, actorVars, fails, mapped, handledPID, subscribed,
                   scheduled, stopPc, locator, published, faults, raced, early>>

TimerChecks(p) ==
    /\ firing[p] = "check"
    /\ firing' = [firing EXCEPT ![p] = IF Ending THEN "no" ELSE "mark"]
    /\ UNCHANGED <<appState, startVars, actorVars, fails, mapped, handledPID, pending, subscribed,
                   scheduled, stopPc, locator, published, faults, raced, early>>

\* Mutant of TimerMarks: markFaultHandled is not asked.
TimerPublishes(p) ==
    /\ firing[p] = "mark"
    /\ firing' = [firing EXCEPT ![p] = "no"]
    /\ handledPID' = handledPID \cup {p} /\ onComponentFault(p)
    /\ UNCHANGED <<appState, startVars, actorVars, fails, mapped, pending, subscribed, locator,
                   faults, raced, early>>

TimerMarks(p) ==
    /\ firing[p] = "mark"
    /\ firing' = [firing EXCEPT ![p] = "no"]
    /\ IF p \in handledPID
       THEN UNCHANGED <<handledPID, scheduled, stopPc, published>>
       ELSE handledPID' = handledPID \cup {p} /\ onComponentFault(p)
    /\ UNCHANGED <<appState, startVars, actorVars, fails, mapped, pending, subscribed, locator,
                   faults, raced, early>>
-----------------------------------------------------------------------------
(* Stop, called by the user or 500 ms after a fault *)
Stop(s) ==
    LET goes == pidSet /\ appState = "started" IN
    /\ stopPc[s] = IF s = "user" THEN "idle" ELSE "armed"
    /\ appState' = IF goes THEN "stopping" ELSE appState
    /\ stopPc' = [stopPc EXCEPT ![s] = IF goes THEN "poison" ELSE "err"]
    /\ early' = (early \/ (s = "fault" /\ ~Ending /\ ~goes))
    /\ UNCHANGED <<startVars, actorVars, fails, watchVars, locator, published, faults, raced>>

StopPoisons(s) ==
    /\ stopPc[s] = "poison"
    /\ stopPc' = [stopPc EXCEPT ![s] = "wait"] /\ poison' = TRUE
    /\ UNCHANGED <<appState, startVars, appAt, inc, idx, child, ends, event, fails, watchVars,
                   locator, published, faults, raced, early>>

\* The PoisonPill comes after every message of the system.
PoisonPill ==
    /\ poison /\ appAt = "runs" /\ Waits /\ fails = {} /\ ends = {}
    /\ poison' = FALSE /\ appAt' = "stops" /\ child' = ChildrenTold
    /\ UNCHANGED <<appState, startVars, inc, idx, ends, event, fails, watchVars, stopPc, locator,
                   published, faults, raced, early>>

\* onStopped: the watcher forgets everything, RemoveLocalNode all actors of the node.
onStopped ==
    /\ appAt = "stops" /\ Waits /\ fails = {} /\ ends = {} /\ ChildrenGone
    /\ appAt' = "gone"
    /\ appState' = IF appState = "stopping" THEN "stopped" ELSE appState
    /\ subscribed' = FALSE /\ pending' = {} /\ mapped' = {} /\ handledPID' = {}
    /\ raced' = raced \cup {p \in Pids : firing[p] # "no"}
    /\ locator' = {}
    /\ UNCHANGED <<startVars, inc, idx, child, ends, event, poison, fails, firing, scheduled,
                   stopPc, published, faults, early>>

\* The future is done, or has waited long enough for the components.
StopReturns(s) ==
    /\ stopPc[s] = "wait"
    /\ \/ /\ appAt = "gone" /\ pidSet' = FALSE
          /\ appState' = IF appState = "stopping" THEN "stopped" ELSE appState
          /\ stopPc' = [stopPc EXCEPT ![s] = "ok"]
       \/ /\ appAt # "gone" /\ stopPc' = [stopPc EXCEPT ![s] = "timeout"]
          /\ UNCHANGED <<appState, pidSet>>
    /\ UNCHANGED <<startPc, startResult, actorVars, fails, watchVars, locator, published, faults,
                   raced, early>>
-----------------------------------------------------------------------------
AppStarter == StartSpawns \/ StartStores \/ StartReturns
AppActor ==
    \/ onStarted \/ SpawnComponent \/ OnStartOk \/ OnStartFails \/ OnStartPanics \/ finishStart
    \/ Restarted \/ SupervisorMarks \/ PoisonPill \/ onStopped
    \/ \E p \in Pids : SupervisorEvent(p) \/ onTerminated(p)
Fallback(p) == TimerFires(p) \/ TimerChecks(p) \/ TimerMarks(p)
AppStopper(s) == StopPoisons(s) \/ StopReturns(s)

AppNext ==
    \/ StartBegins \/ AppStarter \/ AppActor
    \/ \E p \in Pids : Crashes(p) \/ EndsItself(p) \/ OnStop(p) \/ Fallback(p)
    \/ \E s \in Stoppers : Stop(s) \/ AppStopper(s)

\* Goroutines and actors run; OnStart and OnStop return.
AppFairness ==
    /\ WF_appVars(AppStarter) /\ WF_appVars(AppActor)
    /\ \A p \in Pids : WF_appVars(OnStop(p)) /\ WF_appVars(Fallback(p))
    /\ \A s \in Stoppers : WF_appVars(AppStopper(s))
    /\ WF_appVars(Stop("fault"))

AppSpec == AppInit /\ [][AppNext]_appVars /\ AppFairness
-----------------------------------------------------------------------------
(* A Start that returned nil has started every component; one that failed  *)
(* has an Application that ends.  A Stop that returned nil left no         *)
(* component and no name of one behind.  While the Application runs, the   *)
(* end of a component is published, once ("publish a component fault only  *)
(* once", app_watcher.go:37); once the Application stopped, a timer that   *)
(* had looked at the state before may publish a second time, because       *)
(* onStopped forgot the first.                                             *)
Quiet(p) == /\ p \notin fails \cup ends \cup pending /\ firing[p] = "no"
            /\ event.pid # p
AppHolds ==
    /\ startPc = "ok" => \A c \in Comps : child[<<c, inc>>] # "none"
    /\ startPc = "err" => Ending
    /\ \A s \in Stoppers : stopPc[s] = "ok" =>
         appState = "stopped" /\ ChildrenGone /\ locator \subseteq {0}
    /\ \A p \in Pids :
         /\ published[p] <= IF p \in raced THEN 2 ELSE 1
         /\ appState = "started" /\ child[p] = "gone" /\ Quiet(p) => published[p] = 1

(* Start and every Stop return, and a fault whose rule is to stop the      *)
(* Application stops it.  Two exceptions: an Application the library gave  *)
(* up restarting never answers its Start; and a stop that comes while the  *)
(* Application still starts, for the end of a component of an earlier      *)
(* incarnation, is refused and never scheduled again.                      *)
AppSettles ==
    <>[](/\ startPc \in {"idle", "ok", "err"} \/ (appAt = "gone" /\ appState = "starting")
         /\ \A s \in Stoppers : stopPc[s] \notin {"armed", "poison", "wait"}
         /\ (\E p \in Pids : published[p] > 0 /\ p[1] \notin StopComp) =>
              early \/ appAt = "gone")
=============================================================================

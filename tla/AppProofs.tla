----------------------------- MODULE AppProofs -----------------------------
(***************************************************************************)
(* AppsHold, for every number of components, every rule and every tree of  *)
(* modules: the life of an Application (AppLife) and the tree of modules   *)
(* (ModuleTree) each have an invariant of their own that every action      *)
(* keeps; the units of MCRequests take no steps in each other's state.     *)
(***************************************************************************)
EXTENDS MCRequests, SequenceTheorems, FiniteSetTheorems, WellFoundedInduction, TLAPS

\* Types.
AppPlaces == {"none", "spawned", "spawns", "onStart", "started", "failed", "runs", "restarts", "stops", "gone"}
ChildPlaces == {"none", "up", "failed", "stopping", "gone"}
AppTypes ==
    /\ appAt \in AppPlaces /\ appState \in {"none", "starting", "started", "stopping", "stopped"}
    /\ inc \in 0..AppRestarts /\ idx \in 0..NComps
    /\ child \in [Pids -> ChildPlaces]
    /\ event.at \in {"no", "mark"}
    /\ firing \in [Pids -> {"no", "check", "mark"}]
    /\ published \in [Pids -> Nat]
    /\ startPc \in {"idle", "spawn", "pid", "add", "wait", "ok", "err"}
    /\ stopPc \in [Stoppers -> {"idle", "armed", "poison", "wait", "ok", "err", "timeout"}]

\* How far the Application is, and what its state says of it.
AppWay ==
    /\ appAt = "none" <=> startPc \in {"idle", "spawn"}
    /\ appState = "none" => appAt = "none"
    /\ appState = "started" => appAt \in {"started", "runs"}
    /\ appState = "stopped" => appAt = "gone"
    /\ appAt \in {"spawned", "spawns", "onStart", "restarts"} => appState = "starting"
    /\ appAt = "none" => appState = IF startPc = "idle" THEN "none" ELSE "starting"
    /\ appAt = "failed" => Ending
    /\ appAt \in {"spawns", "onStart"} => idx # 0
    /\ appAt = "restarts" => inc < AppRestarts

\* The component onStarted has come to.
AppSpawned ==
    /\ appAt = "spawns" => \A c \in 1..(idx - 1) : child[<<c, inc>>] # "none"
    /\ appAt = "onStart" => \A c \in 1..idx : child[<<c, inc>>] # "none"
    /\ appAt = "started" \/ startResult = "ok" => \A c \in Comps : child[<<c, inc>>] # "none"

\* finishStart has told Start what became of it.
AppResults ==
    /\ startResult \in {"none", "ok", "err"}
    /\ startPc \in {"ok", "err"} => startResult = startPc
    /\ startResult # "none" => appAt \in {"runs", "stops", "gone"}
    /\ startResult = "err" => Ending

\* A component that exists is followed until the Application is gone, and its end is not lost.
AppFollowed(p) ==
    child[p] # "none" /\ appAt # "gone" =>
        /\ subscribed /\ p \in mapped
        /\ child[p] = "gone" /\ ~Ending => ~Quiet(p) \/ p \in handledPID
AppEvents ==
    /\ event.at = "no" => event.pid = NoPid
    /\ event.at = "mark" => event.pid \in Pids /\ appAt # "gone"
    /\ appAt \in {"spawns", "onStart"} => subscribed
    /\ \A p \in Pids : AppFollowed(p)

\* A fault is marked when it is published; what is published after onStopped forgot the marks
\* was under way before.
AppOnce(p) ==
    /\ appAt # "gone" => published[p] = (IF p \in handledPID THEN 1 ELSE 0) /\ p \notin raced
    /\ appAt = "gone" => /\ published[p] <= (IF p \in handledPID THEN 2 ELSE 1)
                         /\ p \in handledPID \/ firing[p] # "no" => p \in raced

AppStopped ==
    /\ \A s \in Stoppers : /\ stopPc[s] \in {"poison", "wait"} => Ending
                           /\ stopPc[s] = "ok" => appAt = "gone" /\ appState = "stopped"
    /\ poison => Ending
    /\ appAt = "gone" => ChildrenGone /\ locator \subseteq {0} /\ pending = {}

AppInv == /\ AppTypes /\ AppWay /\ AppSpawned /\ AppResults /\ AppEvents
          /\ \A p \in Pids : AppOnce(p)
          /\ AppStopped
-----------------------------------------------------------------------------
\* AppTypes is kept.
LEMMA AppTypesKept ==
  ASSUME AppInv, AppNext
  PROVE  AppTypes'
<1> USE AppSizes DEF AppInv, AppTypes, AppWay, Pids, Comps, Stoppers, AppPlaces, ChildPlaces, startVars, actorVars, watchVars
<1>1. ASSUME StartBegins PROVE AppTypes'
  BY <1>1 DEF StartBegins
<1>2. ASSUME StartSpawns PROVE AppTypes'
  BY <1>2 DEF StartSpawns
<1>3. ASSUME StartStores PROVE AppTypes'
  BY <1>3 DEF StartStores
<1>4. ASSUME StartReturns PROVE AppTypes'
  BY <1>4 DEF StartReturns, AppResults
<1>5. ASSUME onStarted PROVE AppTypes'
  BY <1>5 DEF onStarted
<1>6. ASSUME SpawnComponent PROVE AppTypes'
  BY <1>6 DEF SpawnComponent, Told
<1>7. ASSUME OnStartOk PROVE AppTypes'
  BY <1>7 DEF OnStartOk
<1>8. ASSUME OnStartFails PROVE AppTypes'
  BY <1>8 DEF OnStartFails
<1>9. ASSUME OnStartPanics PROVE AppTypes'
  BY <1>9 DEF OnStartPanics, ChildrenTold
<1>10. ASSUME finishStart PROVE AppTypes'
  BY <1>10 DEF finishStart, ChildrenTold
<1>11. ASSUME Restarted PROVE AppTypes'
  BY <1>11 DEF Restarted
<1>12. ASSUME SupervisorMarks PROVE AppTypes'
  BY <1>12 DEF SupervisorMarks, onComponentFault, AppEvents
<1>13. ASSUME PoisonPill PROVE AppTypes'
  BY <1>13 DEF PoisonPill, ChildrenTold
<1>14. ASSUME onStopped PROVE AppTypes'
  BY <1>14 DEF onStopped
<1>15. ASSUME NEW p \in Pids, SupervisorEvent(p) PROVE AppTypes'
  BY <1>15 DEF SupervisorEvent
<1>16. ASSUME NEW p \in Pids, onTerminated(p) PROVE AppTypes'
  BY <1>16 DEF onTerminated
<1>17. ASSUME NEW p \in Pids, Crashes(p) PROVE AppTypes'
  BY <1>17 DEF Crashes
<1>18. ASSUME NEW p \in Pids, EndsItself(p) PROVE AppTypes'
  BY <1>18 DEF EndsItself
<1>19. ASSUME NEW p \in Pids, OnStop(p) PROVE AppTypes'
  BY <1>19 DEF OnStop
<1>20. ASSUME NEW p \in Pids, TimerFires(p) PROVE AppTypes'
  BY <1>20 DEF TimerFires
<1>21. ASSUME NEW p \in Pids, TimerChecks(p) PROVE AppTypes'
  BY <1>21 DEF TimerChecks
<1>22. ASSUME NEW p \in Pids, TimerMarks(p) PROVE AppTypes'
  BY <1>22 DEF TimerMarks, onComponentFault
<1>23. ASSUME NEW s \in Stoppers, Stop(s) PROVE AppTypes'
  BY <1>23 DEF Stop
<1>24. ASSUME NEW s \in Stoppers, StopPoisons(s) PROVE AppTypes'
  BY <1>24 DEF StopPoisons
<1>25. ASSUME NEW s \in Stoppers, StopReturns(s) PROVE AppTypes'
  BY <1>25 DEF StopReturns
<1> QED
  BY <1>1, <1>2, <1>3, <1>4, <1>5, <1>6, <1>7, <1>8, <1>9, <1>10, <1>11, <1>12, <1>13, <1>14, <1>15, <1>16, <1>17, <1>18, <1>19, <1>20, <1>21, <1>22, <1>23, <1>24, <1>25
  DEF AppNext, AppStarter, AppActor, Fallback, AppStopper

\* AppWay is kept.
LEMMA AppWayKept ==
  ASSUME AppInv, AppNext
  PROVE  AppWay'
<1> USE AppSizes DEF AppInv, AppTypes, AppWay, AppResults, AppStopped, Ending, AppPlaces, startVars, actorVars, watchVars
<1>1. ASSUME StartBegins PROVE AppWay'
  BY <1>1 DEF StartBegins
<1>2. ASSUME StartSpawns PROVE AppWay'
  BY <1>2 DEF StartSpawns
<1>3. ASSUME StartStores PROVE AppWay'
  BY <1>3 DEF StartStores
<1>4. ASSUME StartReturns PROVE AppWay'
  BY <1>4 DEF StartReturns
<1>5. ASSUME onStarted PROVE AppWay'
  BY <1>5 DEF onStarted
<1>6. ASSUME SpawnComponent PROVE AppWay'
  BY <1>6 DEF SpawnComponent, Told
<1>7. ASSUME OnStartOk PROVE AppWay'
  BY <1>7 DEF OnStartOk
<1>8. ASSUME OnStartFails PROVE AppWay'
  BY <1>8 DEF OnStartFails
<1>9. ASSUME OnStartPanics PROVE AppWay'
  BY <1>9 DEF OnStartPanics, ChildrenTold
<1>10. ASSUME finishStart PROVE AppWay'
  BY <1>10 DEF finishStart, ChildrenTold
<1>11. ASSUME Restarted PROVE AppWay'
  BY <1>11 DEF Restarted
<1>12. ASSUME SupervisorMarks PROVE AppWay'
  BY <1>12 DEF SupervisorMarks, onComponentFault
<1>13. ASSUME PoisonPill PROVE AppWay'
  BY <1>13 DEF PoisonPill, ChildrenTold
<1>14. ASSUME onStopped PROVE AppWay'
  BY <1>14 DEF onStopped
<1>15. ASSUME NEW p \in Pids, SupervisorEvent(p) PROVE AppWay'
  BY <1>15 DEF SupervisorEvent
<1>16. ASSUME NEW p \in Pids, onTerminated(p) PROVE AppWay'
  BY <1>16 DEF onTerminated
<1>17. ASSUME NEW p \in Pids, Crashes(p) PROVE AppWay'
  BY <1>17 DEF Crashes
<1>18. ASSUME NEW p \in Pids, EndsItself(p) PROVE AppWay'
  BY <1>18 DEF EndsItself
<1>19. ASSUME NEW p \in Pids, OnStop(p) PROVE AppWay'
  BY <1>19 DEF OnStop
<1>20. ASSUME NEW p \in Pids, TimerFires(p) PROVE AppWay'
  BY <1>20 DEF TimerFires
<1>21. ASSUME NEW p \in Pids, TimerChecks(p) PROVE AppWay'
  BY <1>21 DEF TimerChecks
<1>22. ASSUME NEW p \in Pids, TimerMarks(p) PROVE AppWay'
  BY <1>22 DEF TimerMarks, onComponentFault
<1>23. ASSUME NEW s \in Stoppers, Stop(s) PROVE AppWay'
  BY <1>23 DEF Stop
<1>24. ASSUME NEW s \in Stoppers, StopPoisons(s) PROVE AppWay'
  BY <1>24 DEF StopPoisons
<1>25. ASSUME NEW s \in Stoppers, StopReturns(s) PROVE AppWay'
  BY <1>25 DEF StopReturns
<1> QED
  BY <1>1, <1>2, <1>3, <1>4, <1>5, <1>6, <1>7, <1>8, <1>9, <1>10, <1>11, <1>12, <1>13, <1>14, <1>15, <1>16, <1>17, <1>18, <1>19, <1>20, <1>21, <1>22, <1>23, <1>24, <1>25
  DEF AppNext, AppStarter, AppActor, Fallback, AppStopper

\* A component that onStarted has spawned stays one.
LEMMA AppSpawnedKept ==
  ASSUME AppInv, AppNext
  PROVE  AppSpawned'
<1> USE AppSizes DEF AppInv, AppTypes, AppWay, AppResults, AppSpawned, Pids, Comps, ChildPlaces, startVars, actorVars, watchVars
<1>1. ASSUME StartBegins PROVE AppSpawned'
  BY <1>1 DEF StartBegins
<1>2. ASSUME StartSpawns PROVE AppSpawned'
  BY <1>2 DEF StartSpawns
<1>3. ASSUME StartStores PROVE AppSpawned'
  BY <1>3 DEF StartStores
<1>4. ASSUME StartReturns PROVE AppSpawned'
  BY <1>4 DEF StartReturns
<1>5. ASSUME onStarted PROVE AppSpawned'
  BY <1>5 DEF onStarted
<1>6. ASSUME SpawnComponent PROVE AppSpawned'
  BY <1>6 DEF SpawnComponent, Told
<1>7. ASSUME OnStartOk PROVE AppSpawned'
  BY <1>7 DEF OnStartOk
<1>8. ASSUME OnStartFails PROVE AppSpawned'
  BY <1>8 DEF OnStartFails
<1>9. ASSUME OnStartPanics PROVE AppSpawned'
  BY <1>9 DEF OnStartPanics, ChildrenTold
<1>10. ASSUME finishStart PROVE AppSpawned'
  BY <1>10 DEF finishStart, ChildrenTold
<1>11. ASSUME Restarted PROVE AppSpawned'
  BY <1>11 DEF Restarted
<1>12. ASSUME SupervisorMarks PROVE AppSpawned'
  BY <1>12 DEF SupervisorMarks, onComponentFault
<1>13. ASSUME PoisonPill PROVE AppSpawned'
  BY <1>13 DEF PoisonPill, ChildrenTold
<1>14. ASSUME onStopped PROVE AppSpawned'
  BY <1>14 DEF onStopped
<1>15. ASSUME NEW p \in Pids, SupervisorEvent(p) PROVE AppSpawned'
  BY <1>15 DEF SupervisorEvent
<1>16. ASSUME NEW p \in Pids, onTerminated(p) PROVE AppSpawned'
  BY <1>16 DEF onTerminated
<1>17. ASSUME NEW p \in Pids, Crashes(p) PROVE AppSpawned'
  BY <1>17 DEF Crashes
<1>18. ASSUME NEW p \in Pids, EndsItself(p) PROVE AppSpawned'
  BY <1>18 DEF EndsItself
<1>19. ASSUME NEW p \in Pids, OnStop(p) PROVE AppSpawned'
  BY <1>19 DEF OnStop
<1>20. ASSUME NEW p \in Pids, TimerFires(p) PROVE AppSpawned'
  BY <1>20 DEF TimerFires
<1>21. ASSUME NEW p \in Pids, TimerChecks(p) PROVE AppSpawned'
  BY <1>21 DEF TimerChecks
<1>22. ASSUME NEW p \in Pids, TimerMarks(p) PROVE AppSpawned'
  BY <1>22 DEF TimerMarks, onComponentFault
<1>23. ASSUME NEW s \in Stoppers, Stop(s) PROVE AppSpawned'
  BY <1>23 DEF Stop
<1>24. ASSUME NEW s \in Stoppers, StopPoisons(s) PROVE AppSpawned'
  BY <1>24 DEF StopPoisons
<1>25. ASSUME NEW s \in Stoppers, StopReturns(s) PROVE AppSpawned'
  BY <1>25 DEF StopReturns
<1> QED
  BY <1>1, <1>2, <1>3, <1>4, <1>5, <1>6, <1>7, <1>8, <1>9, <1>10, <1>11, <1>12, <1>13, <1>14, <1>15, <1>16, <1>17, <1>18, <1>19, <1>20, <1>21, <1>22, <1>23, <1>24, <1>25
  DEF AppNext, AppStarter, AppActor, Fallback, AppStopper

\* What Start is told is true when it is told, and afterwards.
LEMMA AppResultsKept ==
  ASSUME AppInv, AppNext
  PROVE  AppResults'
<1> USE AppSizes DEF AppInv, AppTypes, AppWay, AppResults, Ending, startVars, actorVars, watchVars
<1>1. ASSUME StartBegins PROVE AppResults'
  BY <1>1 DEF StartBegins
<1>2. ASSUME StartSpawns PROVE AppResults'
  BY <1>2 DEF StartSpawns
<1>3. ASSUME StartStores PROVE AppResults'
  BY <1>3 DEF StartStores
<1>4. ASSUME StartReturns PROVE AppResults'
  BY <1>4 DEF StartReturns
<1>5. ASSUME onStarted PROVE AppResults'
  BY <1>5 DEF onStarted
<1>6. ASSUME SpawnComponent PROVE AppResults'
  BY <1>6 DEF SpawnComponent, Told
<1>7. ASSUME OnStartOk PROVE AppResults'
  BY <1>7 DEF OnStartOk
<1>8. ASSUME OnStartFails PROVE AppResults'
  BY <1>8 DEF OnStartFails
<1>9. ASSUME OnStartPanics PROVE AppResults'
  BY <1>9 DEF OnStartPanics, ChildrenTold
<1>10. ASSUME finishStart PROVE AppResults'
  BY <1>10 DEF finishStart, ChildrenTold
<1>11. ASSUME Restarted PROVE AppResults'
  BY <1>11 DEF Restarted
<1>12. ASSUME SupervisorMarks PROVE AppResults'
  BY <1>12 DEF SupervisorMarks, onComponentFault
<1>13. ASSUME PoisonPill PROVE AppResults'
  BY <1>13 DEF PoisonPill, ChildrenTold
<1>14. ASSUME onStopped PROVE AppResults'
  BY <1>14 DEF onStopped
<1>15. ASSUME NEW p \in Pids, SupervisorEvent(p) PROVE AppResults'
  BY <1>15 DEF SupervisorEvent
<1>16. ASSUME NEW p \in Pids, onTerminated(p) PROVE AppResults'
  BY <1>16 DEF onTerminated
<1>17. ASSUME NEW p \in Pids, Crashes(p) PROVE AppResults'
  BY <1>17 DEF Crashes
<1>18. ASSUME NEW p \in Pids, EndsItself(p) PROVE AppResults'
  BY <1>18 DEF EndsItself
<1>19. ASSUME NEW p \in Pids, OnStop(p) PROVE AppResults'
  BY <1>19 DEF OnStop
<1>20. ASSUME NEW p \in Pids, TimerFires(p) PROVE AppResults'
  BY <1>20 DEF TimerFires
<1>21. ASSUME NEW p \in Pids, TimerChecks(p) PROVE AppResults'
  BY <1>21 DEF TimerChecks
<1>22. ASSUME NEW p \in Pids, TimerMarks(p) PROVE AppResults'
  BY <1>22 DEF TimerMarks, onComponentFault
<1>23. ASSUME NEW s \in Stoppers, Stop(s) PROVE AppResults'
  BY <1>23 DEF Stop
<1>24. ASSUME NEW s \in Stoppers, StopPoisons(s) PROVE AppResults'
  BY <1>24 DEF StopPoisons
<1>25. ASSUME NEW s \in Stoppers, StopReturns(s) PROVE AppResults'
  BY <1>25 DEF StopReturns
<1> QED
  BY <1>1, <1>2, <1>3, <1>4, <1>5, <1>6, <1>7, <1>8, <1>9, <1>10, <1>11, <1>12, <1>13, <1>14, <1>15, <1>16, <1>17, <1>18, <1>19, <1>20, <1>21, <1>22, <1>23, <1>24, <1>25
  DEF AppNext, AppStarter, AppActor, Fallback, AppStopper

\* No end of a component is lost while the Application runs.
LEMMA AppEventsKept ==
  ASSUME AppInv, AppNext
  PROVE  AppEvents'
<1> USE AppSizes DEF AppInv, AppTypes, AppWay, AppEvents, AppStopped, AppFollowed, Quiet, Ending, Pids, Comps, ChildPlaces, NoPid, Waits, startVars, actorVars, watchVars
<1>1. ASSUME StartBegins PROVE AppEvents'
  BY <1>1 DEF StartBegins
<1>2. ASSUME StartSpawns PROVE AppEvents'
  BY <1>2 DEF StartSpawns
<1>3. ASSUME StartStores PROVE AppEvents'
  BY <1>3 DEF StartStores
<1>4. ASSUME StartReturns PROVE AppEvents'
  BY <1>4 DEF StartReturns
<1>5. ASSUME onStarted PROVE AppEvents'
  BY <1>5 DEF onStarted
<1>6. ASSUME SpawnComponent PROVE AppEvents'
  BY <1>6 DEF SpawnComponent, Told
<1>7. ASSUME OnStartOk PROVE AppEvents'
  BY <1>7 DEF OnStartOk
<1>8. ASSUME OnStartFails PROVE AppEvents'
  BY <1>8 DEF OnStartFails
<1>9. ASSUME OnStartPanics PROVE AppEvents'
  BY <1>9 DEF OnStartPanics, ChildrenTold
<1>10. ASSUME finishStart PROVE AppEvents'
  BY <1>10 DEF finishStart, ChildrenTold
<1>11. ASSUME Restarted PROVE AppEvents'
  BY <1>11 DEF Restarted
<1>12. ASSUME SupervisorMarks PROVE AppEvents'
  BY <1>12 DEF SupervisorMarks, onComponentFault
<1>13. ASSUME PoisonPill PROVE AppEvents'
  BY <1>13 DEF PoisonPill, ChildrenTold
<1>14. ASSUME onStopped PROVE AppEvents'
  BY <1>14 DEF onStopped
<1>15. ASSUME NEW p \in Pids, SupervisorEvent(p) PROVE AppEvents'
  BY <1>15 DEF SupervisorEvent
<1>16. ASSUME NEW p \in Pids, onTerminated(p) PROVE AppEvents'
  BY <1>16 DEF onTerminated
<1>17. ASSUME NEW p \in Pids, Crashes(p) PROVE AppEvents'
  BY <1>17 DEF Crashes
<1>18. ASSUME NEW p \in Pids, EndsItself(p) PROVE AppEvents'
  BY <1>18 DEF EndsItself
<1>19. ASSUME NEW p \in Pids, OnStop(p) PROVE AppEvents'
  BY <1>19 DEF OnStop
<1>20. ASSUME NEW p \in Pids, TimerFires(p) PROVE AppEvents'
  BY <1>20 DEF TimerFires
<1>21. ASSUME NEW p \in Pids, TimerChecks(p) PROVE AppEvents'
  BY <1>21 DEF TimerChecks
<1>22. ASSUME NEW p \in Pids, TimerMarks(p) PROVE AppEvents'
  BY <1>22 DEF TimerMarks, onComponentFault
<1>23. ASSUME NEW s \in Stoppers, Stop(s) PROVE AppEvents'
  BY <1>23 DEF Stop
<1>24. ASSUME NEW s \in Stoppers, StopPoisons(s) PROVE AppEvents'
  BY <1>24 DEF StopPoisons
<1>25. ASSUME NEW s \in Stoppers, StopReturns(s) PROVE AppEvents'
  BY <1>25 DEF StopReturns
<1> QED
  BY <1>1, <1>2, <1>3, <1>4, <1>5, <1>6, <1>7, <1>8, <1>9, <1>10, <1>11, <1>12, <1>13, <1>14, <1>15, <1>16, <1>17, <1>18, <1>19, <1>20, <1>21, <1>22, <1>23, <1>24, <1>25
  DEF AppNext, AppStarter, AppActor, Fallback, AppStopper

\* A fault is published once, but for a timer that raced with onStopped.
LEMMA AppOnceKept ==
  ASSUME AppInv, AppNext
  PROVE  \A q \in Pids : AppOnce(q)'
<1> USE AppSizes DEF AppInv, AppTypes, AppWay, AppEvents, AppStopped, AppOnce, startVars, actorVars, watchVars
<1>1. ASSUME StartBegins PROVE \A q \in Pids : AppOnce(q)'
  BY <1>1 DEF StartBegins
<1>2. ASSUME StartSpawns PROVE \A q \in Pids : AppOnce(q)'
  BY <1>2 DEF StartSpawns
<1>3. ASSUME StartStores PROVE \A q \in Pids : AppOnce(q)'
  BY <1>3 DEF StartStores
<1>4. ASSUME StartReturns PROVE \A q \in Pids : AppOnce(q)'
  BY <1>4 DEF StartReturns
<1>5. ASSUME onStarted PROVE \A q \in Pids : AppOnce(q)'
  BY <1>5 DEF onStarted
<1>6. ASSUME SpawnComponent PROVE \A q \in Pids : AppOnce(q)'
  BY <1>6 DEF SpawnComponent, Told
<1>7. ASSUME OnStartOk PROVE \A q \in Pids : AppOnce(q)'
  BY <1>7 DEF OnStartOk
<1>8. ASSUME OnStartFails PROVE \A q \in Pids : AppOnce(q)'
  BY <1>8 DEF OnStartFails
<1>9. ASSUME OnStartPanics PROVE \A q \in Pids : AppOnce(q)'
  BY <1>9 DEF OnStartPanics, ChildrenTold
<1>10. ASSUME finishStart PROVE \A q \in Pids : AppOnce(q)'
  BY <1>10 DEF finishStart, ChildrenTold
<1>11. ASSUME Restarted PROVE \A q \in Pids : AppOnce(q)'
  BY <1>11 DEF Restarted
<1>12. ASSUME SupervisorMarks PROVE \A q \in Pids : AppOnce(q)'
  BY <1>12 DEF SupervisorMarks, onComponentFault
<1>13. ASSUME PoisonPill PROVE \A q \in Pids : AppOnce(q)'
  BY <1>13 DEF PoisonPill, ChildrenTold
<1>14. ASSUME onStopped PROVE \A q \in Pids : AppOnce(q)'
  BY <1>14 DEF onStopped
<1>15. ASSUME NEW p \in Pids, SupervisorEvent(p) PROVE \A q \in Pids : AppOnce(q)'
  BY <1>15 DEF SupervisorEvent
<1>16. ASSUME NEW p \in Pids, onTerminated(p) PROVE \A q \in Pids : AppOnce(q)'
  BY <1>16 DEF onTerminated
<1>17. ASSUME NEW p \in Pids, Crashes(p) PROVE \A q \in Pids : AppOnce(q)'
  BY <1>17 DEF Crashes
<1>18. ASSUME NEW p \in Pids, EndsItself(p) PROVE \A q \in Pids : AppOnce(q)'
  BY <1>18 DEF EndsItself
<1>19. ASSUME NEW p \in Pids, OnStop(p) PROVE \A q \in Pids : AppOnce(q)'
  BY <1>19 DEF OnStop
<1>20. ASSUME NEW p \in Pids, TimerFires(p) PROVE \A q \in Pids : AppOnce(q)'
  BY <1>20 DEF TimerFires
<1>21. ASSUME NEW p \in Pids, TimerChecks(p) PROVE \A q \in Pids : AppOnce(q)'
  BY <1>21 DEF TimerChecks
<1>22. ASSUME NEW p \in Pids, TimerMarks(p) PROVE \A q \in Pids : AppOnce(q)'
  BY <1>22 DEF TimerMarks, onComponentFault
<1>23. ASSUME NEW s \in Stoppers, Stop(s) PROVE \A q \in Pids : AppOnce(q)'
  BY <1>23 DEF Stop
<1>24. ASSUME NEW s \in Stoppers, StopPoisons(s) PROVE \A q \in Pids : AppOnce(q)'
  BY <1>24 DEF StopPoisons
<1>25. ASSUME NEW s \in Stoppers, StopReturns(s) PROVE \A q \in Pids : AppOnce(q)'
  BY <1>25 DEF StopReturns
<1> QED
  BY <1>1, <1>2, <1>3, <1>4, <1>5, <1>6, <1>7, <1>8, <1>9, <1>10, <1>11, <1>12, <1>13, <1>14, <1>15, <1>16, <1>17, <1>18, <1>19, <1>20, <1>21, <1>22, <1>23, <1>24, <1>25
  DEF AppNext, AppStarter, AppActor, Fallback, AppStopper

\* What is left when the Application is gone.
LEMMA AppStoppedKept ==
  ASSUME AppInv, AppNext
  PROVE  AppStopped'
<1> USE AppSizes DEF AppInv, AppTypes, AppWay, AppEvents, AppStopped, Ending, ChildrenGone, Stoppers, startVars, actorVars, watchVars
<1>1. ASSUME StartBegins PROVE AppStopped'
  BY <1>1 DEF StartBegins
<1>2. ASSUME StartSpawns PROVE AppStopped'
  BY <1>2 DEF StartSpawns
<1>3. ASSUME StartStores PROVE AppStopped'
  BY <1>3 DEF StartStores
<1>4. ASSUME StartReturns PROVE AppStopped'
  BY <1>4 DEF StartReturns
<1>5. ASSUME onStarted PROVE AppStopped'
  BY <1>5 DEF onStarted
<1>6. ASSUME SpawnComponent PROVE AppStopped'
  BY <1>6 DEF SpawnComponent, Told
<1>7. ASSUME OnStartOk PROVE AppStopped'
  BY <1>7 DEF OnStartOk
<1>8. ASSUME OnStartFails PROVE AppStopped'
  BY <1>8 DEF OnStartFails
<1>9. ASSUME OnStartPanics PROVE AppStopped'
  BY <1>9 DEF OnStartPanics, ChildrenTold
<1>10. ASSUME finishStart PROVE AppStopped'
  BY <1>10 DEF finishStart, ChildrenTold
<1>11. ASSUME Restarted PROVE AppStopped'
  BY <1>11 DEF Restarted
<1>12. ASSUME SupervisorMarks PROVE AppStopped'
  BY <1>12 DEF SupervisorMarks, onComponentFault
<1>13. ASSUME PoisonPill PROVE AppStopped'
  BY <1>13 DEF PoisonPill, ChildrenTold
<1>14. ASSUME onStopped PROVE AppStopped'
  BY <1>14 DEF onStopped
<1>15. ASSUME NEW p \in Pids, SupervisorEvent(p) PROVE AppStopped'
  BY <1>15 DEF SupervisorEvent
<1>16. ASSUME NEW p \in Pids, onTerminated(p) PROVE AppStopped'
  BY <1>16 DEF onTerminated, Waits
<1>17. ASSUME NEW p \in Pids, Crashes(p) PROVE AppStopped'
  BY <1>17 DEF Crashes
<1>18. ASSUME NEW p \in Pids, EndsItself(p) PROVE AppStopped'
  BY <1>18 DEF EndsItself
<1>19. ASSUME NEW p \in Pids, OnStop(p) PROVE AppStopped'
  BY <1>19 DEF OnStop
<1>20. ASSUME NEW p \in Pids, TimerFires(p) PROVE AppStopped'
  BY <1>20 DEF TimerFires
<1>21. ASSUME NEW p \in Pids, TimerChecks(p) PROVE AppStopped'
  BY <1>21 DEF TimerChecks
<1>22. ASSUME NEW p \in Pids, TimerMarks(p) PROVE AppStopped'
  BY <1>22 DEF TimerMarks, onComponentFault
<1>23. ASSUME NEW s \in Stoppers, Stop(s) PROVE AppStopped'
  BY <1>23 DEF Stop
<1>24. ASSUME NEW s \in Stoppers, StopPoisons(s) PROVE AppStopped'
  BY <1>24 DEF StopPoisons
<1>25. ASSUME NEW s \in Stoppers, StopReturns(s) PROVE AppStopped'
  BY <1>25 DEF StopReturns
<1> QED
  BY <1>1, <1>2, <1>3, <1>4, <1>5, <1>6, <1>7, <1>8, <1>9, <1>10, <1>11, <1>12, <1>13, <1>14, <1>15, <1>16, <1>17, <1>18, <1>19, <1>20, <1>21, <1>22, <1>23, <1>24, <1>25
  DEF AppNext, AppStarter, AppActor, Fallback, AppStopper

\* AppInv is an invariant.
LEMMA AppStepKeeps == ASSUME AppInv, [AppNext]_appVars PROVE AppInv'
<1>1. CASE AppNext
  <2>1. AppTypes' /\ AppWay' /\ AppSpawned' /\ AppResults'
    BY <1>1, AppTypesKept, AppWayKept, AppSpawnedKept, AppResultsKept
  <2>2. AppEvents' /\ AppStopped' /\ \A q \in Pids : AppOnce(q)'
    BY <1>1, AppEventsKept, AppStoppedKept, AppOnceKept
  <2> QED BY <2>1, <2>2 DEF AppInv
<1>2. CASE UNCHANGED appVars
  <2> USE <1>2 DEF appVars, startVars, actorVars, watchVars, AppInv
  <2>1. AppTypes' /\ AppWay'
    BY DEF AppTypes, AppWay, Ending
  <2>2. AppSpawned' /\ AppResults'
    BY DEF AppSpawned, AppResults, Ending
  <2>3. AppEvents'
    BY DEF AppEvents, AppFollowed, Quiet, Ending
  <2>4. AppStopped' /\ \A q \in Pids : AppOnce(q)'
    BY DEF AppStopped, AppOnce, ChildrenGone, Ending
  <2> QED BY <2>1, <2>2, <2>3, <2>4
<1> QED BY <1>1, <1>2

\* AppInv holds before Start.
LEMMA AppInitHolds == ASSUME AppInit PROVE AppInv
<1> USE AppSizes DEF AppInit, Pids
<1>1. AppTypes
  BY DEF AppTypes, AppPlaces, ChildPlaces
<1>2. AppWay /\ AppSpawned /\ AppResults
  BY DEF AppWay, AppSpawned, AppResults, Ending
<1>3. AppEvents /\ (\A p \in Pids : AppOnce(p)) /\ AppStopped
  BY DEF AppEvents, AppFollowed, AppOnce, AppStopped, Ending
<1> QED BY <1>1, <1>2, <1>3 DEF AppInv

\* AppInv says what AppHolds promises.
LEMMA AppInvHolds == ASSUME AppInv PROVE AppHolds
<1>1. startPc = "ok" => \A c \in Comps : child[<<c, inc>>] # "none"
  BY DEF AppInv, AppSpawned, AppResults
<1>2. startPc = "err" => Ending
  BY DEF AppInv, AppResults
<1>3. \A s \in Stoppers : stopPc[s] = "ok" => appState = "stopped" /\ ChildrenGone /\ locator \subseteq {0}
  BY DEF AppInv, AppStopped
<1>4. ASSUME NEW p \in Pids
      PROVE  /\ published[p] <= IF p \in raced THEN 2 ELSE 1
             /\ appState = "started" /\ child[p] = "gone" /\ Quiet(p) => published[p] = 1
  <2>1. published[p] \in Nat /\ AppOnce(p) /\ AppFollowed(p) /\ AppWay
    BY DEF AppInv, AppTypes, AppEvents
  <2>2. published[p] <= IF p \in raced THEN 2 ELSE 1
    BY <2>1 DEF AppOnce
  <2>3. ASSUME appState = "started", child[p] = "gone", Quiet(p) PROVE published[p] = 1
    BY <2>1, <2>3 DEF AppFollowed, AppOnce, AppWay, Ending
  <2> QED BY <2>2, <2>3
<1> QED BY <1>1, <1>2, <1>3, <1>4 DEF AppHolds

\* A Start that returned nil has started every component and one that failed ends the
\* Application; a Stop that returned nil leaves no component and no name behind; while the
\* Application runs, the end of each component is published, once (application.go, app_watcher.go).
THEOREM AppHoldsAlways == AppSpec => []AppHolds
<1>1. AppInv /\ [AppNext]_appVars => AppInv'
  BY AppStepKeeps
<1> QED BY <1>1, AppInitHolds, AppInvHolds, PTL DEF AppSpec
-----------------------------------------------------------------------------
(* The tree of modules *)

AddCalls == [module : Modules, at : {"init", "start"}, next : Nat \ {0}]
TreeTypes ==
    /\ parent \in [Modules -> Everyone \union {Nil}] /\ childs \in [Everyone -> Seq(Modules)]
    /\ descendants \subseteq Modules /\ running \subseteq Modules
    /\ adding \in Seq(AddCalls)
    /\ undone \in BOOLEAN /\ indirect \in BOOLEAN

\* What the root knows are the modules that run and those that are being added, each once.
TreeKnown ==
    /\ \A i \in DOMAIN adding : adding[i].module \in descendants \ running
    /\ \A i, j \in DOMAIN adding : adding[i].module = adding[j].module => i = j
    /\ \A x \in descendants \ running : \E i \in DOMAIN adding : adding[i].module = x
    /\ running \subseteq descendants

\* A module that has added none yet is the last child of its parent, and has none.
TreeFresh ==
    /\ \A i \in DOMAIN adding : i < Len(adding) => adding[i].next > 1
    /\ adding # <<>> /\ Top.next = 1 =>
         LET x == Top.module IN
         childs[x] = <<>> /\ childs[parent[x]] # <<>> /\ Last(childs[parent[x]]) = x

Single(list) == \A i, j \in DOMAIN list : list[i] = list[j] => i = j
TreeLists ==
    /\ \A x \in descendants : InTree(parent[x])
    /\ \A m \in Everyone : /\ Single(childs[m])
                           /\ \A x \in Modules : x \in Range(childs[m]) <=> x \in descendants /\ parent[x] = m
TreeRooted == \A S \in SUBSET Everyone : Root \in S /\ Below(S) => descendants \subseteq S

TreeInv == TreeTypes /\ TreeKnown /\ (~undone /\ ~indirect => TreeFresh /\ TreeLists /\ TreeRooted)


\* Naturals are well ordered.
LEMMA AppLeast == ASSUME NEW S, S \subseteq Nat, S # {} PROVE \E n \in S : \A m \in S : n <= m
<1>1. PICK x \in S : \A y \in S : ~ (<<y, x>> \in OpToRel(<, Nat))
  BY WFMin, NatLessThanWellFounded
<1>2. ASSUME NEW y \in S PROVE ~ (y < x)
  <2>1. <<y, x>> \notin OpToRel(<, Nat) /\ <<y, x>> \in Nat \X Nat
    BY <1>1
  <2> QED BY <2>1 DEF OpToRel
<1>3. x \in Nat /\ \A y \in S : y \in Nat /\ ~(y < x)
  BY <1>2
<1> QED BY <1>3

\* The recursion of DeleteFunc, on the first n elements.
DeleteFuncOf(list, out, f, n) ==
    f = [i \in 0..n |-> IF i = 0 THEN <<>>
                        ELSE IF list[i] \in out THEN f[i - 1]
                        ELSE Append(f[i - 1], list[i])]

\* It has a solution.
LEMMA DeleteFuncExists == ASSUME NEW list, NEW out PROVE \A n \in Nat : \E f : DeleteFuncOf(list, out, f, n)
<1> DEFINE S == {n \in Nat : ~ \E f : DeleteFuncOf(list, out, f, n)}
<1>1. SUFFICES ASSUME S # {} PROVE FALSE
  OBVIOUS
<1>2. PICK n \in S : \A m \in S : n <= m
  BY <1>1, AppLeast
<1>3. n \in Nat /\ ~ \E f : DeleteFuncOf(list, out, f, n)
  OBVIOUS
<1>4. \A m \in Nat : m < n => \E f : DeleteFuncOf(list, out, f, m)
  BY <1>2
<1> HIDE DEF S
<1>5. CASE n = 0
  <2>1. DeleteFuncOf(list, out, [i \in 0..0 |-> <<>>], 0)
    BY DEF DeleteFuncOf
  <2> QED BY <2>1, <1>3, <1>5
<1>6. CASE n # 0
  <2>1. n - 1 \in Nat /\ n - 1 < n
    BY <1>3, <1>6
  <2>2. PICK f : DeleteFuncOf(list, out, f, n - 1)
    BY <2>1, <1>4
  <2> DEFINE last == IF list[n] \in out THEN f[n - 1] ELSE Append(f[n - 1], list[n])
             g == [i \in 0..n |-> IF i = n THEN last ELSE f[i]]
  <2>3. ASSUME NEW i \in 0..n
        PROVE  g[i] = IF i = 0 THEN <<>> ELSE IF list[i] \in out THEN g[i - 1] ELSE Append(g[i - 1], list[i])
    <3>1. CASE i = n
      <4>1. g[i] = last /\ i # 0 /\ g[i - 1] = f[n - 1]
        BY <3>1, <2>1, <1>6, <1>3
      <4> QED BY <4>1, <3>1
    <3>2. CASE i # n
      <4>1. i \in 0..(n - 1) /\ g[i] = f[i]
        BY <3>2, <1>3
      <4>2. f[i] = IF i = 0 THEN <<>> ELSE IF list[i] \in out THEN f[i - 1] ELSE Append(f[i - 1], list[i])
        BY <4>1, <2>2 DEF DeleteFuncOf
      <4>3. i # 0 => g[i - 1] = f[i - 1]
        BY <4>1, <2>1, <1>3
      <4> HIDE DEF g
      <4> QED BY <4>1, <4>2, <4>3
    <3> QED BY <3>1, <3>2
  <2>4. g = [i \in 0..n |-> g[i]]
    OBVIOUS
  <2> HIDE DEF g
  <2>5. DeleteFuncOf(list, out, g, n)
    BY <2>3, <2>4 DEF DeleteFuncOf
  <2> QED BY <2>5, <1>3
<1> QED BY <1>5, <1>6

\* DeleteFunc leaves the others, each as often as it was there.
LEMMA DeleteFuncFacts ==
    ASSUME NEW T, NEW list \in Seq(T), NEW out
    PROVE  /\ DeleteFunc(list, out) \in Seq(T)
           /\ \A y : y \in Range(DeleteFunc(list, out)) <=> y \in Range(list) /\ y \notin out
           /\ Single(list) => Single(DeleteFunc(list, out))
<1> DEFINE N == Len(list)
           f == CHOOSE g : DeleteFuncOf(list, out, g, N)
<1>1. N \in Nat /\ DOMAIN list = 1..N /\ \A j \in 1..N : list[j] \in T
  BY LenProperties, ElementOfSeq
<1>2. DeleteFuncOf(list, out, f, N)
  BY <1>1, DeleteFuncExists
<1>3. DeleteFunc(list, out) = f[N]
  BY DEF DeleteFunc, DeleteFuncOf
<1> DEFINE Good(i) ==
             /\ f[i] \in Seq(T)
             /\ \A y : y \in Range(f[i]) <=> y \notin out /\ \E j \in 1..i : list[j] = y
             /\ Single(list) => Single(f[i])
           S == {i \in 0..N : ~ Good(i)}
<1>4. \A i \in 0..N : f[i] = IF i = 0 THEN <<>> ELSE IF list[i] \in out THEN f[i - 1] ELSE Append(f[i - 1], list[i])
  <2> HIDE DEF f, N
  <2> QED BY <1>2 DEF DeleteFuncOf
<1> HIDE DEF f, N
<1>5. ASSUME NEW i \in 0..N, \A j \in 0..N : j < i => Good(j) PROVE Good(i)
  <2>1. CASE i = 0
    <3>1. f[i] = <<>>
      BY <2>1, <1>4
    <3> QED BY <3>1, <2>1 DEF Range, Single
  <2>2. CASE i # 0
    <3> DEFINE k == i - 1
    <3>1. k \in 0..N /\ k < i /\ i \in 1..N /\ 1..i = (1..k) \union {i} /\ i \notin 1..k /\ 1..i \subseteq 1..N
      BY <2>2, <1>1
    <3>2. Good(k)
      BY <3>1, <1>5
    <3>3. f[i] = IF list[i] \in out THEN f[k] ELSE Append(f[k], list[i])
      BY <2>2, <1>4
    <3> HIDE DEF k
    <3>4. CASE list[i] \in out
      BY <3>4, <3>3, <3>2, <3>1
    <3>5. CASE list[i] \notin out
      <4>1. f[i] = Append(f[k], list[i]) /\ f[k] \in Seq(T) /\ list[i] \in T
        BY <3>5, <3>3, <3>2, <3>1, <1>1
      <4>2. f[i] \in Seq(T) /\ Len(f[i]) = Len(f[k]) + 1 /\ f[i][Len(f[k]) + 1] = list[i]
            /\ (\A j \in 1..Len(f[k]) : f[i][j] = f[k][j]) /\ Len(f[k]) \in Nat
            /\ DOMAIN f[i] = 1..(Len(f[k]) + 1) /\ DOMAIN f[k] = 1..Len(f[k])
        BY <4>1
      <4>3. \A y : y \in Range(f[i]) <=> y \in Range(f[k]) \/ y = list[i]
        <5>1. ASSUME NEW y \in Range(f[i]) PROVE y \in Range(f[k]) \/ y = list[i]
          <6>1. PICK j \in 1..(Len(f[k]) + 1) : y = f[i][j]
            BY <4>2 DEF Range
          <6>2. j = Len(f[k]) + 1 \/ j \in 1..Len(f[k])
            BY <4>2
          <6> QED BY <6>1, <6>2, <4>2 DEF Range
        <5>2. ASSUME NEW y \in Range(f[k]) PROVE y \in Range(f[i])
          <6>1. PICK j \in 1..Len(f[k]) : y = f[k][j]
            BY <4>2 DEF Range
          <6>2. j \in 1..(Len(f[k]) + 1) /\ f[i][j] = y
            BY <6>1, <4>2
          <6> QED BY <6>2, <4>2 DEF Range
        <5>3. list[i] \in Range(f[i])
          <6>1. Len(f[k]) + 1 \in 1..(Len(f[k]) + 1)
            BY <4>2
          <6> QED BY <6>1, <4>2 DEF Range
        <5> QED BY <5>1, <5>2, <5>3
      <4>4. \A y : y \in Range(f[i]) <=> y \notin out /\ \E j \in 1..i : list[j] = y
        BY <4>3, <3>2, <3>1, <3>5
      <4>5. ASSUME Single(list) PROVE Single(f[i])
        <5>1. list[i] \notin Range(f[k])
          BY <3>1, <3>2, <4>5, <1>1 DEF Single
        <5>2. Single(f[k])
          BY <3>2, <4>5
        <5>3. \A j \in 1..Len(f[k]) : f[i][j] # list[i]
          BY <5>1, <4>2 DEF Range
        <5>4. ASSUME NEW a \in 1..(Len(f[k]) + 1), NEW b \in 1..(Len(f[k]) + 1), f[i][a] = f[i][b] PROVE a = b
          <6>1. (a = Len(f[k]) + 1 \/ a \in 1..Len(f[k])) /\ (b = Len(f[k]) + 1 \/ b \in 1..Len(f[k]))
            BY <4>2
          <6>2. a \in 1..Len(f[k]) /\ b \in 1..Len(f[k]) => a = b
            BY <5>2, <5>4, <4>2 DEF Single
          <6> QED BY <6>1, <6>2, <5>3, <5>4, <4>2
        <5> QED BY <5>4, <4>2 DEF Single
      <4> QED BY <4>2, <4>4, <4>5
    <3> QED BY <3>4, <3>5
  <2> QED BY <2>1, <2>2
<1>6. \A i \in 0..N : Good(i)
  <2>1. SUFFICES ASSUME S # {} PROVE FALSE
    OBVIOUS
  <2>2. S \subseteq Nat
    OBVIOUS
  <2>3. PICK i \in S : \A j \in S : i <= j
    BY <2>1, <2>2, AppLeast
  <2>4. i \in 0..N /\ ~ Good(i) /\ \A j \in 0..N : j < i => Good(j)
    <3> HIDE DEF Good
    <3>1. i \in 0..N /\ ~ Good(i)
      OBVIOUS
    <3>2. ASSUME NEW j \in 0..N, j < i PROVE Good(j)
      <4>1. i \in Int /\ j \in Int
        BY <3>1, <1>1
      <4>2. j \notin S
        BY <4>1, <3>2, <2>3
      <4> QED BY <4>2
    <3> QED BY <3>1, <3>2
  <2> HIDE DEF Good
  <2> QED BY <2>4, <1>5
<1>7. Good(N)
  <2> HIDE DEF Good
  <2>1. N \in 0..N
    BY <1>1
  <2> QED BY <1>6, <2>1
<1> QED BY <1>7, <1>3, <1>1 DEF Range

\* A list without duplicates is as long as it has elements.
LEMMA DistinctLength ==
    ASSUME NEW T, NEW list \in Seq(T), Single(list)
    PROVE  Len(list) = Cardinality(Range(list))
<1>1. Len(list) \in Nat /\ DOMAIN list = 1..Len(list) /\ list \in [1..Len(list) -> Range(list)]
  BY LenProperties DEF Range
<1>2. list \in Bijection(1..Len(list), Range(list))
  BY <1>1 DEF Single, Range, Bijection, Injection, Surjection, IsInjective
<1>3. IsFiniteSet(1..Len(list)) /\ Cardinality(1..Len(list)) = Len(list)
  BY <1>1, FS_Interval
<1> QED BY <1>2, <1>3, FS_Bijection DEF ExistsBijection

TreeWhole == ~undone /\ ~indirect

\* In a tree that is whole, nobody outside it has children.
LEMMA NoChildrenOutside ==
    ASSUME TreeTypes, TreeLists, NEW x \in Modules, x \notin descendants
    PROVE  childs[x] = <<>> /\ \A m \in Everyone : x \notin Range(childs[m])
<1>1. x \in Everyone /\ childs[x] \in Seq(Modules) /\ x # Root
  BY TreeAdds DEF TreeTypes, Everyone
<1>2. \A y \in Modules : y \notin Range(childs[x])
  BY <1>1 DEF TreeLists, InTree
<1>3. \A i \in 1..Len(childs[x]) : FALSE
  BY <1>1, <1>2 DEF Range
<1>4. Len(childs[x]) = 0
  BY <1>1, <1>3
<1>5. childs[x] = <<>>
  BY <1>1, <1>4
<1> QED BY <1>5 DEF TreeLists

\* A call that is refused leaves the tree, and the calls go on.
LEMMA RefusedKeeps ==
    ASSUME TreeInv, NEW calls \in Seq(AddCalls), Len(calls) = Len(adding),
           \A i \in 1..Len(calls) : calls[i].module = adding[i].module /\ (TreeWhole => calls[i].next > 1),
           adding' = calls, UNCHANGED <<parent, childs, descendants, running, undone, indirect>>
    PROVE  TreeInv'
<1>1. DOMAIN calls = 1..Len(calls) /\ DOMAIN adding = 1..Len(calls) /\ Len(calls) \in Nat
  BY DEF TreeInv, TreeTypes
<1>2. TreeTypes'
  BY DEF TreeInv, TreeTypes
<1>3. TreeKnown'
  BY <1>1 DEF TreeInv, TreeKnown
<1>4. ASSUME TreeWhole' PROVE TreeFresh' /\ TreeLists' /\ TreeRooted'
  <2>1. TreeWhole /\ TreeFresh /\ TreeLists /\ TreeRooted
    BY <1>4 DEF TreeInv, TreeWhole
  <2>2. TreeLists' /\ TreeRooted'
    BY <2>1 DEF TreeLists, TreeRooted, Single, Below, InTree
  <2>3. \A i \in DOMAIN adding' : adding'[i].next > 1
    BY <1>1, <2>1
  <2>4. adding' # <<>> => Top'.next # 1
    <3>1. SUFFICES ASSUME calls # <<>> PROVE calls[Len(calls)].next # 1
      BY DEF Top, Last
    <3>2. Len(calls) \in 1..Len(calls)
      BY <1>1, <3>1
    <3>3. calls[Len(calls)] \in AddCalls
      BY <3>2, <1>1
    <3> QED BY <2>3, <3>2, <3>3, <1>1 DEF AddCalls
  <2> QED BY <2>2, <2>3, <2>4 DEF TreeFresh
<1> QED BY <1>2, <1>3, <1>4 DEF TreeInv, TreeWhole

\* A module that enters is the last child of its parent, and has none.
LEMMA EnteredKeeps ==
    ASSUME TreeInv, NEW calls \in Seq(AddCalls), Len(calls) = Len(adding),
           \A i \in 1..Len(calls) : calls[i].module = adding[i].module /\ (TreeWhole => calls[i].next > 1),
           NEW m \in Everyone \union {Nil}, NEW x \in Modules, TreeWhole => InTree(m),
           x # m, x \notin descendants,
           parent' = [parent EXCEPT ![x] = m], childs' = [childs EXCEPT ![m] = Append(@, x)],
           descendants' = descendants \union {x},
           adding' = Append(calls, [module |-> x, at |-> "init", next |-> 1]),
           UNCHANGED <<running, undone, indirect>>
    PROVE  TreeInv'
<1> DEFINE call == [module |-> x, at |-> "init", next |-> 1]
           L == Len(calls)
<1>0. TreeTypes /\ TreeKnown
  BY DEF TreeInv
<1>1. DOMAIN calls = 1..L /\ DOMAIN adding = 1..L /\ L \in Nat /\ call \in AddCalls
  BY <1>0 DEF TreeTypes, AddCalls
<1>2. /\ adding' \in Seq(AddCalls) /\ Len(adding') = L + 1 /\ DOMAIN adding' = 1..(L + 1)
      /\ adding'[L + 1] = call /\ \A i \in 1..L : adding'[i] = calls[i]
  BY <1>1
<1> HIDE DEF call, L
<1>3. TreeTypes'
  <2>1. parent' \in [Modules -> Everyone \union {Nil}]
    BY <1>0 DEF TreeTypes
  <2>2. \A s \in Seq(Modules) : Append(s, x) \in Seq(Modules)
    OBVIOUS
  <2>3. childs' \in [Everyone -> Seq(Modules)]
    BY <1>0, <2>2 DEF TreeTypes
  <2> QED BY <1>0, <1>2, <2>1, <2>3 DEF TreeTypes
<1>4. TreeKnown'
  <2>1. \A i \in 1..(L + 1) : i \in 1..L \/ i = L + 1
    BY <1>1
  <2>2. call.module = x
    BY DEF call
  <2>3. \A i \in 1..L : adding'[i].module = adding[i].module /\ adding'[i].module \in descendants \ running
    BY <1>0, <1>1, <1>2 DEF TreeKnown, L
  <2>4. \A i \in DOMAIN adding' : adding'[i].module \in descendants' \ running'
    BY <2>1, <2>2, <2>3, <1>0, <1>2 DEF TreeKnown
  <2>5. \A i, j \in DOMAIN adding' : adding'[i].module = adding'[j].module => i = j
    <3>1. \A i, j \in 1..L : adding'[i].module = adding'[j].module => i = j
      BY <2>3, <1>0, <1>1 DEF TreeKnown
    <3>2. \A i \in 1..L : adding'[i].module # x
      BY <2>3
    <3> QED BY <3>1, <3>2, <2>1, <2>2, <1>2
  <2>6. ASSUME NEW y \in descendants' \ running' PROVE \E i \in DOMAIN adding' : adding'[i].module = y
    <3>1. CASE y = x
      <4>1. L + 1 \in DOMAIN adding' /\ adding'[L + 1].module = x
        BY <1>1, <1>2, <2>2
      <4> QED BY <4>1, <3>1
    <3>2. CASE y # x
      <4>1. PICK i \in 1..L : adding[i].module = y
        BY <2>6, <3>2, <1>0, <1>1 DEF TreeKnown
      <4>2. i \in DOMAIN adding'
        BY <1>1, <1>2
      <4> QED BY <4>1, <4>2, <2>3
    <3> QED BY <3>1, <3>2
  <2> QED BY <2>4, <2>5, <2>6, <1>0 DEF TreeKnown
<1>5. ASSUME TreeWhole' PROVE TreeFresh' /\ TreeLists' /\ TreeRooted'
  <2>1. TreeWhole /\ TreeFresh /\ TreeLists /\ TreeRooted /\ InTree(m)
    BY <1>5 DEF TreeInv, TreeWhole
  <2>2. m \in Everyone /\ x \in Everyone /\ x # Root /\ x # Nil
    BY <2>1, <1>0, TreeAdds DEF InTree, Everyone, TreeTypes
  <2>3. childs[x] = <<>> /\ \A z \in Everyone : x \notin Range(childs[z])
    BY <2>1, <1>0, NoChildrenOutside
  <2>4. childs[m] \in Seq(Modules) /\ childs'[m] = Append(childs[m], x) /\ (\A z \in Everyone \ {m} : childs'[z] = childs[z])
    BY <1>0, <2>2 DEF TreeTypes
  <2> DEFINE n == Len(childs[m])
  <2>5. /\ n \in Nat /\ DOMAIN childs[m] = 1..n /\ DOMAIN childs'[m] = 1..(n + 1) /\ Len(childs'[m]) = n + 1
        /\ childs'[m][n + 1] = x /\ \A i \in 1..n : childs'[m][i] = childs[m][i]
    BY <2>4
  <2> HIDE DEF n
  <2>6. \A y : y \in Range(childs'[m]) <=> y \in Range(childs[m]) \/ y = x
    <3>1. ASSUME NEW y \in Range(childs'[m]) PROVE y \in Range(childs[m]) \/ y = x
      <4>1. PICK i \in 1..(n + 1) : y = childs'[m][i]
        BY <2>5 DEF Range
      <4>2. i = n + 1 \/ i \in 1..n
        BY <2>5
      <4> QED BY <4>1, <4>2, <2>5 DEF Range
    <3>2. ASSUME NEW y \in Range(childs[m]) PROVE y \in Range(childs'[m])
      <4>1. PICK i \in 1..n : y = childs[m][i]
        BY <2>5 DEF Range
      <4>2. i \in 1..(n + 1) /\ childs'[m][i] = y
        BY <4>1, <2>5
      <4> QED BY <4>2, <2>5 DEF Range
    <3>3. x \in Range(childs'[m])
      <4>1. n + 1 \in 1..(n + 1)
        BY <2>5
      <4> QED BY <4>1, <2>5 DEF Range
    <3> QED BY <3>1, <3>2, <3>3
  <2>7. Single(childs'[m])
    <3>1. \A i \in 1..n : childs'[m][i] # x
      BY <2>3, <2>5, <2>2 DEF Range
    <3>2. \A i \in 1..(n + 1) : i \in 1..n \/ i = n + 1
      BY <2>5
    <3>3. \A i, j \in 1..n : childs'[m][i] = childs'[m][j] => i = j
      BY <2>1, <2>2, <2>5 DEF TreeLists, Single
    <3> QED BY <3>1, <3>2, <3>3, <2>5 DEF Single
  <2>8. /\ parent'[x] = m /\ \A y \in descendants : parent'[y] = parent[y]
    BY <1>0 DEF TreeTypes
  <2>9. TreeLists'
    <3>1. \A y \in descendants' : parent'[y] \in descendants' \union {Root}
      BY <2>1, <2>8 DEF TreeLists, InTree
    <3>2. ASSUME NEW z \in Everyone, NEW y \in Modules
          PROVE  y \in Range(childs'[z]) <=> y \in descendants' /\ parent'[y] = z
      <4>1. y \in Range(childs[z]) <=> y \in descendants /\ parent[y] = z
        BY <2>1 DEF TreeLists
      <4>2. CASE y = x
        BY <4>2, <2>3, <2>4, <2>6, <2>8
      <4>3. CASE y # x
        <5>1. y \in descendants' /\ parent'[y] = z <=> y \in descendants /\ parent[y] = z
          BY <4>3, <2>8
        <5>2. y \in Range(childs'[z]) <=> y \in Range(childs[z])
          BY <4>3, <2>4, <2>6
        <5> QED BY <4>1, <5>1, <5>2
      <4> QED BY <4>2, <4>3
    <3>3. \A z \in Everyone : Single(childs'[z])
      BY <2>1, <2>4, <2>7 DEF TreeLists
    <3> QED BY <3>1, <3>2, <3>3 DEF TreeLists, InTree
  <2>10. TreeRooted'
    <3>1. SUFFICES ASSUME NEW S \in SUBSET Everyone, Root \in S, Below(S)' PROVE descendants' \subseteq S
      BY DEF TreeRooted
    <3>2. ASSUME NEW z \in S, NEW y \in Range(childs[z]), y \in descendants PROVE y \in S
      <4>1. y \in Range(childs'[z]) /\ y \in descendants'
        BY <3>2, <2>4, <2>6
      <4> QED BY <4>1, <3>1 DEF Below
    <3>3. descendants \subseteq S
      BY <3>2, <3>1, <2>1 DEF TreeRooted, Below
    <3>4. m \in S
      BY <3>1, <3>3, <2>1 DEF InTree
    <3>5. x \in S
      BY <3>4, <3>1, <2>6 DEF Below
    <3> QED BY <3>3, <3>5
  <2>11. TreeFresh'
    <3>1. ASSUME NEW i \in 1..(L + 1), i < L + 1 PROVE adding'[i].next > 1
      <4>1. i \in 1..L
        BY <3>1, <1>1
      <4> QED BY <4>1, <1>2, <2>1 DEF L
    <3>2. Top' = call
      BY <1>2 DEF Top, Last
    <3>3. childs'[x] = <<>> /\ childs'[m] # <<>> /\ Last(childs'[m]) = x
      <4>1. childs'[x] = <<>>
        BY <2>2, <2>3, <2>4
      <4>2. childs'[m] # <<>>
        <5>1. Len(childs'[m]) # 0 /\ Len(<<>>) = 0
          BY <2>5
        <5> QED BY <5>1
      <4>3. Last(childs'[m]) = x
        BY <2>5 DEF Last
      <4> QED BY <4>1, <4>2, <4>3
    <3>4. call.module = x
      BY DEF call
    <3> QED BY <3>1, <3>2, <3>3, <3>4, <1>2, <2>8 DEF TreeFresh
  <2> QED BY <2>9, <2>10, <2>11
<1> QED BY <1>3, <1>4, <1>5 DEF TreeInv, TreeWhole

\* AddModule.
LEMMA AddModuleKeeps == ASSUME TreeInv, NEW m \in Everyone, NEW x \in Modules, AddModule(m, x) PROVE TreeInv'
<1>1. PICK calls : calls = adding
  OBVIOUS
<1>2. calls = <<>> /\ calls \in Seq(AddCalls) /\ Len(calls) = 0 /\ Len(adding) = 0
  BY <1>1 DEF AddModule
<1>3. InTree(m) /\ Enters(m, x, calls) /\ UNCHANGED <<running, undone, indirect>>
  BY <1>1 DEF AddModule
<1>6. \A i \in 1..Len(calls) : calls[i].module = adding[i].module /\ (TreeWhole => calls[i].next > 1)
  BY <1>2
<1>4. CASE x = m \/ x \in descendants
  <2>1. adding' = calls /\ UNCHANGED <<parent, childs, descendants, running, undone, indirect>>
    BY <1>3, <1>4 DEF Enters
  <2>2. Len(calls) = Len(adding)
    BY <1>2
  <2> QED BY <1>2, <1>6, <2>1, <2>2, RefusedKeeps
<1>5. CASE ~(x = m \/ x \in descendants)
  <2>1. /\ parent' = [parent EXCEPT ![x] = m] /\ childs' = [childs EXCEPT ![m] = Append(@, x)]
        /\ descendants' = descendants \union {x}
        /\ adding' = Append(calls, [module |-> x, at |-> "init", next |-> 1])
    BY <1>3, <1>5 DEF Enters
  <2>2. Len(calls) = Len(adding) /\ m \in Everyone \union {Nil} /\ x # m /\ x \notin descendants
    BY <1>2, <1>5
  <2> QED BY <1>2, <1>3, <1>6, <2>1, <2>2, EnteredKeeps
<1> QED BY <1>4, <1>5

\* The module that is being added is one of the tree, its parent too, while the tree is whole.
LEMMA TopFacts ==
    ASSUME TreeInv, adding # <<>>
    PROVE  /\ Len(adding) \in Nat \ {0} /\ Len(adding) \in DOMAIN adding /\ DOMAIN adding = 1..Len(adding)
           /\ Top = adding[Len(adding)] /\ Top \in AddCalls
           /\ Top.module \in Modules /\ Top.module \in descendants \ running
           /\ Top.next \in Nat \ {0}
           /\ parent[Top.module] \in Everyone \union {Nil}
           /\ TreeWhole => InTree(parent[Top.module])
<1>1. adding \in Seq(AddCalls) /\ TreeKnown /\ TreeTypes /\ (TreeWhole => TreeLists)
  BY DEF TreeInv, TreeTypes, TreeWhole
<1>2. Len(adding) \in Nat \ {0} /\ Len(adding) \in DOMAIN adding /\ DOMAIN adding = 1..Len(adding)
  BY <1>1
<1>3. Top = adding[Len(adding)] /\ Top \in AddCalls
  BY <1>1, <1>2 DEF Top, Last
<1>4. Top.module \in Modules /\ Top.next \in Nat \ {0}
  BY <1>3 DEF AddCalls
<1>5. Top.module \in descendants \ running
  BY <1>1, <1>2, <1>3 DEF TreeKnown
<1> QED BY <1>1, <1>2, <1>3, <1>4, <1>5 DEF TreeTypes, TreeLists

\* OnInit adds a module.
LEMMA OnInitAddsKeeps == ASSUME TreeInv, OnInitAdds PROVE TreeInv'
<1>1. /\ adding # <<>> /\ Top.next <= Len(Adds[Top.module])
      /\ UNCHANGED <<running, treeCalls, undone, indirect>>
  BY DEF OnInitAdds
<1>2. PICK k, x, L, m, y, calls :
        /\ k = Top.next /\ x = Top.module /\ L = Len(adding)
        /\ m = IF Adds[x][k].to = "self" THEN x ELSE parent[x]
        /\ y = Adds[x][k].module
        /\ calls = [adding EXCEPT ![L].next = k + 1]
  OBVIOUS
<1>3. Enters(m, y, calls)
  BY <1>2 DEF OnInitAdds
<1>4. /\ L \in Nat \ {0} /\ DOMAIN adding = 1..L /\ x \in Modules /\ k \in Nat \ {0}
      /\ x \in descendants /\ parent[x] \in Everyone \union {Nil} /\ (TreeWhole => InTree(parent[x]))
      /\ adding[L] = Top
  BY <1>1, <1>2, TopFacts
<1>5. Adds[x] \in Seq([to : {"self", "parent"}, module : Modules])
  BY <1>4, TreeAdds
<1>6. Adds[x][k] \in [to : {"self", "parent"}, module : Modules]
  <2>1. k \in 1..Len(Adds[x])
    BY <1>1, <1>2, <1>4, <1>5
  <2>2. k \in Int /\ 1 <= k /\ k <= Len(Adds[x])
    BY <2>1
  <2> QED BY <2>1, <2>2, <1>5, ElementOfSeq
<1>7. y \in Modules
  BY <1>2, <1>6
<1>8. m \in Everyone \union {Nil} /\ (TreeWhole => InTree(m))
  BY <1>2, <1>4 DEF InTree, Everyone
<1>9. /\ calls \in Seq(AddCalls) /\ Len(calls) = L
      /\ \A i \in 1..L : calls[i].module = adding[i].module /\ (TreeWhole => calls[i].next > 1)
  <2>1. adding \in Seq(AddCalls) /\ \A i \in 1..L : adding[i] \in AddCalls
    BY <1>4, <1>2 DEF TreeInv, TreeTypes
  <2>2. DOMAIN calls = 1..L /\ \A i \in 1..L : calls[i] = IF i = L THEN [adding[L] EXCEPT !.next = k + 1] ELSE adding[i]
    BY <1>2, <1>4
  <2>3. L \in 1..L /\ adding[L] \in AddCalls
    BY <1>4, <2>1
  <2>4. [adding[L] EXCEPT !.next = k + 1] \in AddCalls
        /\ [adding[L] EXCEPT !.next = k + 1].module = adding[L].module
        /\ [adding[L] EXCEPT !.next = k + 1].next = k + 1
    BY <2>3, <1>4 DEF AddCalls
  <2>5. calls = [i \in 1..L |-> calls[i]]
    BY <1>2, <1>4
  <2>6. calls \in [1..L -> AddCalls]
    BY <2>1, <2>2, <2>4, <2>5
  <2>7. calls \in Seq(AddCalls) /\ Len(calls) = L
    BY <2>6, <1>4
  <2>8. TreeWhole => \A i \in 1..L : i < L => adding[i].next > 1
    BY <1>2, <1>4 DEF TreeInv, TreeFresh, TreeWhole
  <2>9. ASSUME NEW i \in 1..L PROVE calls[i].module = adding[i].module /\ (TreeWhole => calls[i].next > 1)
    <3>1. CASE i = L
      <4>1. calls[i] = [adding[L] EXCEPT !.next = k + 1]
        BY <3>1, <2>2
      <4>2. k + 1 > 1
        BY <1>4
      <4> QED BY <4>1, <4>2, <2>4, <3>1
    <3>2. CASE i # L
      <4>1. i < L
        BY <3>2, <1>4
      <4> QED BY <4>1, <3>2, <2>2, <2>8
    <3> QED BY <3>1, <3>2
  <2> QED BY <2>7, <2>9
<1>10. CASE y = m \/ y \in descendants
  <2>1. adding' = calls /\ UNCHANGED <<parent, childs, descendants, running, undone, indirect>>
    BY <1>1, <1>3, <1>10 DEF Enters
  <2>2. Len(calls) = Len(adding) /\ \A i \in 1..Len(calls) : calls[i].module = adding[i].module /\ (TreeWhole => calls[i].next > 1)
    BY <1>2, <1>9
  <2> QED BY <1>9, <2>1, <2>2, RefusedKeeps
<1>11. CASE ~(y = m \/ y \in descendants)
  <2>1. /\ parent' = [parent EXCEPT ![y] = m] /\ childs' = [childs EXCEPT ![m] = Append(@, y)]
        /\ descendants' = descendants \union {y}
        /\ adding' = Append(calls, [module |-> y, at |-> "init", next |-> 1])
    BY <1>3, <1>11 DEF Enters
  <2>2. Len(calls) = Len(adding) /\ (\A i \in 1..Len(calls) : calls[i].module = adding[i].module /\ (TreeWhole => calls[i].next > 1))
        /\ y # m /\ y \notin descendants /\ UNCHANGED <<running, undone, indirect>>
    BY <1>1, <1>2, <1>9, <1>11
  <2> QED BY <1>7, <1>8, <1>9, <2>1, <2>2, EnteredKeeps
<1> QED BY <1>10, <1>11

\* The end of OnInit.
LEMMA OnInitEndsKeeps == ASSUME TreeInv, OnInitEnds PROVE TreeInv'
<1>1. /\ adding # <<>> /\ UNCHANGED <<parent, childs, descendants, running, treeCalls, undone, indirect>>
      /\ adding' = [adding EXCEPT ![Len(adding)] = [@ EXCEPT !.at = "start", !.next = Top.next]]
  BY DEF OnInitEnds, At
<1>2. PICK L : L = Len(adding)
  OBVIOUS
<1>3. L \in Nat \ {0} /\ L \in 1..L /\ DOMAIN adding = 1..L /\ Top = adding[L] /\ Top \in AddCalls /\ Top.next \in Nat \ {0}
  BY <1>1, <1>2, TopFacts
<1> DEFINE call == [Top EXCEPT !.at = "start", !.next = Top.next]
<1>4. call \in AddCalls /\ call.module = Top.module /\ call.next = Top.next
  BY <1>3 DEF AddCalls
<1>5. DOMAIN adding' = 1..L /\ \A i \in 1..L : adding'[i] = IF i = L THEN call ELSE adding[i]
  BY <1>1, <1>2, <1>3
<1> HIDE DEF call
<1>6. \A i \in 1..L : adding'[i] \in AddCalls /\ adding'[i].module = adding[i].module /\ adding'[i].next = adding[i].next
  BY <1>2, <1>3, <1>4, <1>5 DEF TreeInv, TreeTypes
<1>7. adding' = [i \in 1..L |-> adding'[i]]
  BY <1>1, <1>2, <1>3
<1>8. adding' \in Seq(AddCalls) /\ Len(adding') = L
  BY <1>3, <1>6, <1>7
<1>9. TreeTypes' /\ TreeKnown'
  BY <1>1, <1>3, <1>5, <1>6, <1>8 DEF TreeInv, TreeTypes, TreeKnown
<1>10. Top' = call
  BY <1>3, <1>5, <1>8 DEF Top, Last
<1>11. ASSUME TreeWhole' PROVE TreeFresh' /\ TreeLists' /\ TreeRooted'
  <2>1. TreeWhole /\ TreeFresh /\ TreeLists /\ TreeRooted
    BY <1>1, <1>11 DEF TreeInv, TreeWhole
  <2>2. TreeLists' /\ TreeRooted'
    BY <2>1, <1>1 DEF TreeLists, TreeRooted, Below, InTree
  <2>3. TreeFresh'
    BY <2>1, <1>1, <1>2, <1>3, <1>4, <1>5, <1>6, <1>8, <1>10 DEF TreeFresh
  <2> QED BY <2>2, <2>3
<1> QED BY <1>9, <1>11 DEF TreeInv, TreeWhole

\* OnStart.
LEMMA OnStartKeeps == ASSUME TreeInv, OnStart PROVE TreeInv'
<1>1. /\ adding # <<>> /\ UNCHANGED <<parent, childs, descendants, treeCalls, undone, indirect>>
      /\ running' = running \union {Top.module} /\ adding' = Front(adding)
  BY DEF OnStart
<1>2. PICK L, x : L = Len(adding) /\ x = Top.module
  OBVIOUS
<1>3. /\ L \in Nat \ {0} /\ L \in 1..L /\ DOMAIN adding = 1..L /\ x = adding[L].module /\ x \in descendants \ running
      /\ x \in Modules /\ adding \in Seq(AddCalls)
  BY <1>1, <1>2, TopFacts DEF TreeInv, TreeTypes
<1>4. adding' \in Seq(AddCalls) /\ Len(adding') = L - 1 /\ DOMAIN adding' = 1..(L - 1) /\ \A i \in 1..(L - 1) : adding'[i] = adding[i]
  <2>1. adding' = SubSeq(adding, 1, L - 1)
    BY <1>1, <1>2 DEF Front
  <2>2. 1 \in 1..(L + 1) /\ L - 1 \in 0..L /\ 1..(L - 1) \subseteq 1..L
    BY <1>3
  <2> QED BY <2>1, <2>2, <1>2, <1>3
<1>5. running' = running \union {x} /\ \A i \in 1..L : i \in 1..(L - 1) \/ i = L
  BY <1>1, <1>2, <1>3
<1>6. TreeTypes'
  BY <1>1, <1>3, <1>4, <1>5 DEF TreeInv, TreeTypes
<1>7. L \notin 1..(L - 1) /\ 1..(L - 1) \subseteq 1..L
  BY <1>3
<1>8. TreeKnown'
  BY <1>1, <1>3, <1>4, <1>5, <1>7 DEF TreeInv, TreeKnown
<1>9. ASSUME TreeWhole' PROVE TreeFresh' /\ TreeLists' /\ TreeRooted'
  <2>1. TreeWhole /\ TreeFresh /\ TreeLists /\ TreeRooted
    BY <1>1, <1>9 DEF TreeInv, TreeWhole
  <2>2. TreeLists' /\ TreeRooted'
    BY <2>1, <1>1 DEF TreeLists, TreeRooted, Below, InTree
  <2>3. \A i \in 1..(L - 1) : adding'[i].next > 1
    <3>1. \A i \in 1..(L - 1) : i < L
      BY <1>3
    <3> QED BY <3>1, <1>2, <1>3, <1>4, <1>7, <2>1 DEF TreeFresh
  <2>4. adding' # <<>> => Top'.next # 1
    <3>1. SUFFICES ASSUME adding' # <<>> PROVE Top'.next # 1
      OBVIOUS
    <3>2. L - 1 \in 1..(L - 1)
      BY <3>1, <1>3, <1>4
    <3>3. Top' = adding'[L - 1]
      BY <1>4 DEF Top, Last
    <3>4. adding'[L - 1].next > 1 /\ adding'[L - 1] \in AddCalls
      BY <2>3, <3>2, <1>4
    <3> QED BY <3>3, <3>4 DEF AddCalls
  <2> QED BY <2>2, <2>3, <2>4, <1>4 DEF TreeFresh
<1> QED BY <1>6, <1>8, <1>9 DEF TreeInv, TreeWhole

\* An AddModule that fails.
LEMMA AddFailsKeeps == ASSUME TreeInv, AddFails PROVE TreeInv'
<1>2. PICK L, x, m : L = Len(adding) /\ x = Top.module /\ m = parent[x]
  OBVIOUS
<1>1. /\ adding # <<>> /\ UNCHANGED <<parent, running, treeCalls, indirect>>
      /\ descendants' = descendants \ {x} /\ childs' = [childs EXCEPT ![m] = Front(@)]
      /\ adding' = Front(adding) /\ undone' = (undone \/ Top.next > 1)
  BY <1>2 DEF AddFails
<1>3. /\ L \in Nat \ {0} /\ L \in 1..L /\ DOMAIN adding = 1..L /\ x = adding[L].module /\ x \in descendants \ running
      /\ x \in Modules /\ adding \in Seq(AddCalls) /\ Top.next \in Nat \ {0} /\ (TreeWhole => InTree(m))
  BY <1>1, <1>2, TopFacts DEF TreeInv, TreeTypes
<1>4. adding' \in Seq(AddCalls) /\ Len(adding') = L - 1 /\ DOMAIN adding' = 1..(L - 1) /\ \A i \in 1..(L - 1) : adding'[i] = adding[i]
  <2>1. adding' = SubSeq(adding, 1, L - 1)
    BY <1>1, <1>2 DEF Front
  <2>2. 1 \in 1..(L + 1) /\ L - 1 \in 0..L /\ 1..(L - 1) \subseteq 1..L
    BY <1>3
  <2> QED BY <2>1, <2>2, <1>2, <1>3
<1>5. /\ L \notin 1..(L - 1) /\ 1..(L - 1) \subseteq 1..L /\ \A i \in 1..L : i \in 1..(L - 1) \/ i = L
  BY <1>3
<1>6. TreeTypes'
  <2>1. \A s \in Seq(Modules) : Front(s) \in Seq(Modules)
    BY DEF Front
  <2>2. childs' \in [Everyone -> Seq(Modules)]
    BY <1>1, <2>1 DEF TreeInv, TreeTypes
  <2>3. undone' \in BOOLEAN
    BY <1>1
  <2> QED BY <1>1, <1>4, <2>2, <2>3 DEF TreeInv, TreeTypes
<1>7. TreeKnown'
  <2>1. TreeKnown
    BY DEF TreeInv
  <2>2. \A i \in 1..(L - 1) : adding[i].module # x
    BY <2>1, <1>3, <1>5 DEF TreeKnown
  <2>3. \A i \in 1..(L - 1) : adding'[i].module \in (descendants \ {x}) \ running
    BY <2>1, <2>2, <1>3, <1>4, <1>5 DEF TreeKnown
  <2>4. \A i, j \in 1..(L - 1) : adding'[i].module = adding'[j].module => i = j
    BY <2>1, <1>3, <1>4, <1>5 DEF TreeKnown
  <2>5. ASSUME NEW y \in (descendants \ {x}) \ running PROVE \E i \in 1..(L - 1) : adding'[i].module = y
    <3>1. PICK i \in 1..L : adding[i].module = y
      BY <2>5, <2>1, <1>3 DEF TreeKnown
    <3> QED BY <3>1, <2>5, <1>3, <1>4, <1>5
  <2>6. running \subseteq descendants \ {x}
    BY <2>1, <1>3 DEF TreeKnown
  <2> QED BY <2>3, <2>4, <2>5, <2>6, <1>1, <1>4 DEF TreeKnown
<1>9. ASSUME TreeWhole' PROVE TreeFresh' /\ TreeLists' /\ TreeRooted'
  <2>0. ~undone /\ ~(Top.next > 1) /\ ~indirect
    BY <1>1, <1>9, Zenon DEF TreeWhole
  <2>1. TreeWhole /\ TreeFresh /\ TreeLists /\ TreeRooted /\ Top.next = 1
    BY <1>3, <2>0 DEF TreeInv, TreeWhole
  <2>2. childs[x] = <<>> /\ childs[m] # <<>> /\ Last(childs[m]) = x
    BY <2>1, <1>1, <1>2 DEF TreeFresh
  <2>3. m # x /\ m \in Everyone /\ x \in Everyone /\ InTree(m) /\ descendants \subseteq Everyone
    BY <2>1, <2>2, <1>3 DEF InTree, Everyone, TreeInv, TreeTypes
  <2>4. childs[m] \in Seq(Modules) /\ childs'[m] = Front(childs[m]) /\ (\A z \in Everyone \ {m} : childs'[z] = childs[z])
    BY <1>1, <2>3 DEF TreeInv, TreeTypes
  <2> DEFINE n == Len(childs[m])
  <2>5. /\ n \in Nat \ {0} /\ DOMAIN childs[m] = 1..n /\ childs[m][n] = x
        /\ DOMAIN childs'[m] = 1..(n - 1) /\ \A i \in 1..(n - 1) : childs'[m][i] = childs[m][i]
    <3>1. n \in Nat \ {0} /\ DOMAIN childs[m] = 1..n /\ childs[m][n] = x
      BY <2>2, <2>4 DEF Last
    <3>2. childs'[m] = SubSeq(childs[m], 1, n - 1)
      BY <2>4 DEF Front
    <3>3. 1 \in 1..(n + 1) /\ n - 1 \in 0..n /\ 1..(n - 1) \subseteq 1..n
      BY <3>1
    <3> QED BY <3>1, <3>2, <3>3, <2>4
  <2> HIDE DEF n
  <2>6. /\ n \notin 1..(n - 1) /\ n \in 1..n /\ 1..(n - 1) \subseteq 1..n /\ \A i \in 1..n : i \in 1..(n - 1) \/ i = n
    BY <2>5
  <2>7. Single(childs[m])
    BY <2>1, <2>3 DEF TreeLists
  <2>8. \A i \in 1..(n - 1) : childs'[m][i] # x
    BY <2>5, <2>6, <2>7 DEF Single
  <2>9. \A y : y \in Range(childs'[m]) <=> y \in Range(childs[m]) /\ y # x
    <3>1. ASSUME NEW y \in Range(childs'[m]) PROVE y \in Range(childs[m]) /\ y # x
      <4>1. PICK i \in 1..(n - 1) : y = childs'[m][i]
        BY <2>5 DEF Range
      <4>2. i \in 1..n /\ childs[m][i] = y
        BY <4>1, <2>5, <2>6
      <4> QED BY <4>1, <4>2, <2>5, <2>8 DEF Range
    <3>2. ASSUME NEW y \in Range(childs[m]), y # x PROVE y \in Range(childs'[m])
      <4>1. PICK i \in 1..n : y = childs[m][i]
        BY <2>5 DEF Range
      <4>2. i \in 1..(n - 1) /\ childs'[m][i] = y
        BY <4>1, <3>2, <2>5, <2>6
      <4> QED BY <4>2, <2>5 DEF Range
    <3> QED BY <3>1, <3>2
  <2>10. Single(childs'[m])
    BY <2>5, <2>6, <2>7 DEF Single
  <2>11. \A y \in Modules : y \notin Range(childs[x])
    BY <2>2 DEF Range
  <2>12. TreeLists'
    <3>1. ASSUME NEW y \in descendants, y # x PROVE parent[y] \in (descendants \ {x}) \union {Root}
      <4>1. y \in Modules /\ parent[y] # x
        BY <3>1, <2>1, <2>3, <2>11 DEF TreeLists, TreeInv, TreeTypes
      <4> QED BY <4>1, <2>1 DEF TreeLists, InTree
    <3>2. ASSUME NEW z \in Everyone, NEW y \in Modules
          PROVE  y \in Range(childs'[z]) <=> y \in descendants \ {x} /\ parent[y] = z
      <4>1. y \in Range(childs[z]) <=> y \in descendants /\ parent[y] = z
        BY <2>1 DEF TreeLists
      <4>2. CASE z = m
        BY <4>1, <4>2, <2>9
      <4>3. CASE z # m
        <5>1. childs'[z] = childs[z]
          BY <4>3, <2>4
        <5>2. y = x => parent[y] # z
          BY <4>3, <1>2
        <5> QED BY <4>1, <5>1, <5>2
      <4> QED BY <4>2, <4>3
    <3>3. \A z \in Everyone : Single(childs'[z])
      BY <2>1, <2>4, <2>10 DEF TreeLists
    <3> QED BY <3>1, <3>2, <3>3, <1>1 DEF TreeLists, InTree
  <2>13. TreeRooted'
    <3>1. SUFFICES ASSUME NEW S \in SUBSET Everyone, Root \in S, Below(S)' PROVE descendants' \subseteq S
      BY DEF TreeRooted
    <3> DEFINE T == S \union {x}
    <3>2. ASSUME NEW z \in T, NEW y \in Range(childs[z]), y \in descendants PROVE y \in T
      <4>1. CASE z = x
        <5>1. y \in Modules
          BY <3>2 DEF TreeInv, TreeTypes
        <5> QED BY <5>1, <4>1, <3>2, <2>11
      <4>2. CASE z # x /\ y # x
        <5>1. z \in S /\ z \in Everyone
          BY <4>2
        <5>2. y \in Range(childs'[z]) /\ y \in descendants'
          BY <5>1, <4>2, <3>2, <2>4, <2>9, <1>1
        <5> QED BY <5>1, <5>2, <3>1 DEF Below
      <4> QED BY <4>1, <4>2
    <3>3. T \in SUBSET Everyone /\ Root \in T /\ Below(T)
      BY <3>1, <3>2, <2>3 DEF Below
    <3>4. descendants \subseteq T
      BY <3>3, <2>1 DEF TreeRooted
    <3> QED BY <3>4, <1>1
  <2>14. \A i \in 1..(L - 1) : adding'[i].next > 1
    <3>1. \A i \in 1..(L - 1) : i < L
      BY <1>3
    <3> QED BY <3>1, <1>2, <1>3, <1>4, <1>5, <2>1 DEF TreeFresh
  <2>15. adding' # <<>> => Top'.next # 1
    <3>1. SUFFICES ASSUME adding' # <<>> PROVE Top'.next # 1
      OBVIOUS
    <3>2. L - 1 \in 1..(L - 1)
      BY <3>1, <1>3, <1>4
    <3>3. Top' = adding'[L - 1]
      BY <1>4 DEF Top, Last
    <3>4. adding'[L - 1].next > 1 /\ adding'[L - 1] \in AddCalls
      BY <2>14, <3>2, <1>4
    <3> QED BY <3>3, <3>4 DEF AddCalls
  <2> QED BY <2>12, <2>13, <2>14, <2>15, <1>4 DEF TreeFresh
<1> QED BY <1>6, <1>7, <1>9 DEF TreeInv, TreeWhole

\* What a release takes is x, all below it, and no more than has to be.
LEMMA ReleasedFacts ==
    ASSUME TreeTypes, NEW x \in Everyone
    PROVE  /\ x \in Released(x) /\ Released(x) \in SUBSET Everyone /\ Below(Released(x))
           /\ \A S \in SUBSET Everyone : x \in S /\ Below(S) => Released(x) \subseteq S
<1>1. x \in Released(x) /\ Released(x) \in SUBSET Everyone
      /\ \A S \in SUBSET Everyone : x \in S /\ Below(S) => Released(x) \subseteq S
  BY DEF Released
<1>2. ASSUME NEW z \in Released(x), NEW y \in Range(childs[z]), y \in descendants PROVE y \in Released(x)
  <2>1. y \in Everyone
    BY <1>2 DEF TreeTypes, Everyone
  <2>2. ASSUME NEW S \in SUBSET Everyone, x \in S, Below(S) PROVE y \in S
    <3>1. z \in S
      BY <2>2, <1>1
    <3> QED BY <3>1, <2>2, <1>2 DEF Below
  <2> QED BY <2>1, <2>2 DEF Released
<1> QED BY <1>1, <1>2 DEF Below

\* ReleaseModule.
LEMMA ReleaseModuleKeeps == ASSUME TreeInv, NEW m \in Everyone, NEW x \in Modules, ReleaseModule(m, x) PROVE TreeInv'
<1>1. PICK out : out = Released(x)
  OBVIOUS
<1>2. /\ adding = <<>> /\ x \in descendants /\ InTree(m)
      /\ parent' = [y \in Modules |-> IF y \in out THEN Nil ELSE parent[y]]
      /\ childs' = [y \in Everyone |-> IF y \in out THEN <<>>
                                       ELSE IF y = m THEN DeleteFunc(childs[m], out)
                                       ELSE childs[y]]
      /\ descendants' = descendants \ out /\ running' = running \ out
      /\ indirect' = (indirect \/ parent[x] # m)
      /\ UNCHANGED <<adding, undone>>
  BY <1>1 DEF ReleaseModule
<1>3. TreeTypes /\ TreeKnown /\ x \in Everyone
  BY DEF TreeInv, Everyone
<1>4. /\ x \in out /\ out \in SUBSET Everyone /\ Below(out)
      /\ \A S \in SUBSET Everyone : x \in S /\ Below(S) => out \subseteq S
  BY <1>1, <1>3, ReleasedFacts
<1>5. childs[m] \in Seq(Modules)
  BY <1>3 DEF TreeTypes
<1>6. /\ DeleteFunc(childs[m], out) \in Seq(Modules)
      /\ \A y : y \in Range(DeleteFunc(childs[m], out)) <=> y \in Range(childs[m]) /\ y \notin out
      /\ Single(childs[m]) => Single(DeleteFunc(childs[m], out))
  BY <1>5, DeleteFuncFacts
<1>7. TreeTypes'
  <2>1. <<>> \in Seq(Modules)
    OBVIOUS
  <2>2. childs' \in [Everyone -> Seq(Modules)]
    BY <2>1, <1>2, <1>3, <1>6 DEF TreeTypes
  <2>3. parent' \in [Modules -> Everyone \union {Nil}]
    BY <1>2, <1>3 DEF TreeTypes
  <2>4. indirect' \in BOOLEAN
    BY <1>2
  <2> QED BY <1>2, <1>3, <2>2, <2>3, <2>4 DEF TreeTypes
<1>8. TreeKnown'
  BY <1>2, <1>3 DEF TreeKnown
<1>9. ASSUME TreeWhole' PROVE TreeFresh' /\ TreeLists' /\ TreeRooted'
  <2>1. TreeWhole /\ TreeLists /\ TreeRooted /\ parent[x] = m
    BY <1>2, <1>9 DEF TreeInv, TreeWhole
  <2>2. \A z \in Everyone, y \in Modules : y \in Range(childs[z]) <=> y \in descendants /\ parent[y] = z
    BY <2>1 DEF TreeLists
  <2>3. descendants \subseteq Modules
    BY <1>3 DEF TreeTypes
  <2>4. ASSUME NEW y \in descendants \ out PROVE parent[y] \notin out
    BY <2>2, <2>3, <1>4 DEF Below
  <2>5. ASSUME NEW y \in out, y \in descendants, y # x PROVE parent[y] \in out
    <3> DEFINE T == out \ {y}
    <3>1. SUFFICES ASSUME parent[y] \notin out PROVE FALSE
      OBVIOUS
    <3>2. ASSUME NEW w \in T, NEW v \in Range(childs[w]), v \in descendants PROVE v \in T
      <4>1. v \in out /\ w \in Everyone /\ v \in Modules
        BY <3>2, <1>4, <2>3 DEF Below
      <4>2. v # y
        BY <4>1, <3>1, <3>2, <2>2
      <4> QED BY <4>1, <4>2
    <3>3. T \in SUBSET Everyone /\ x \in T /\ Below(T)
      BY <3>2, <1>4, <2>5 DEF Below
    <3>4. out \subseteq T
      BY <3>3, <1>4
    <3> QED BY <3>4
  <2>6. \A y \in descendants \ out : parent'[y] = parent[y]
    BY <1>2, <2>3
  <2>7. \A y \in descendants' : parent'[y] \in descendants' \union {Root}
    BY <2>1, <2>4, <2>6, <1>2 DEF TreeLists, InTree
  <2>8. ASSUME NEW z \in Everyone, NEW y \in Modules
        PROVE  y \in Range(childs'[z]) <=> y \in descendants' /\ parent'[y] = z
    <3>1. y \in descendants' /\ parent'[y] = z <=> y \in descendants \ out /\ parent[y] = z
      BY <2>6, <1>2
    <3>2. CASE z \in out
      <4>1. childs'[z] = <<>>
        BY <3>2, <1>2
      <4>2. y \notin Range(childs'[z])
        BY <4>1 DEF Range
      <4> QED BY <4>2, <3>1, <3>2, <2>4
    <3>3. CASE z \notin out /\ z = m
      <4>1. childs'[z] = DeleteFunc(childs[m], out)
        BY <3>3, <1>2
      <4>2. y \in Range(childs'[z]) <=> y \in Range(childs[z]) /\ y \notin out
        BY <4>1, <3>3, <1>6
      <4> QED BY <4>2, <3>1, <2>2
    <3>4. CASE z \notin out /\ z # m
      <4>1. childs'[z] = childs[z]
        BY <3>4, <1>2
      <4>2. y \in descendants /\ parent[y] = z => y \notin out
        BY <3>4, <2>1, <2>5
      <4> QED BY <4>1, <4>2, <3>1, <2>2
    <3> QED BY <3>2, <3>3, <3>4
  <2>9. ASSUME NEW z \in Everyone PROVE Single(childs'[z])
    <3>1. Single(childs[z])
      BY <2>1 DEF TreeLists
    <3>2. Single(<<>>)
      BY DEF Single
    <3>3. childs'[z] = IF z \in out THEN <<>> ELSE IF z = m THEN DeleteFunc(childs[m], out) ELSE childs[z]
      BY <1>2
    <3> QED BY <3>1, <3>2, <3>3, <1>6
  <2>10. TreeLists'
    BY <2>7, <2>8, <2>9 DEF TreeLists, InTree
  <2>11. TreeRooted'
    <3>1. SUFFICES ASSUME NEW S \in SUBSET Everyone, Root \in S, Below(S)' PROVE descendants' \subseteq S
      BY DEF TreeRooted
    <3> DEFINE T == S \union out
    <3>2. ASSUME NEW w \in T, NEW v \in Range(childs[w]), v \in descendants PROVE v \in T
      <4>1. CASE w \in out
        BY <4>1, <3>2, <1>4 DEF Below
      <4>2. CASE w \notin out /\ v \notin out
        <5>1. w \in S /\ w \in Everyone /\ v \in Modules /\ v \in descendants'
          BY <4>2, <3>2, <2>3, <1>2
        <5>2. parent[v] = w
          BY <5>1, <3>2, <2>2
        <5>3. parent'[v] = w
          BY <5>1, <5>2, <4>2, <1>2
        <5>4. v \in Range(childs'[w])
          BY <5>1, <5>3, <2>8
        <5> QED BY <5>1, <5>4, <3>1 DEF Below
      <4> QED BY <4>1, <4>2
    <3>3. T \in SUBSET Everyone /\ Root \in T /\ Below(T)
      BY <3>2, <1>4, <3>1 DEF Below
    <3>4. descendants \subseteq T
      BY <3>3, <2>1 DEF TreeRooted
    <3> QED BY <3>4, <1>2
  <2>12. TreeFresh'
    BY <1>2 DEF TreeFresh
  <2> QED BY <2>10, <2>11, <2>12
<1> QED BY <1>7, <1>8, <1>9 DEF TreeInv, TreeWhole

\* Every step of the tree keeps the invariant.
LEMMA TreeStepKeeps == ASSUME TreeInv, [TreeNext]_treeVars PROVE TreeInv'
<1>1. ASSUME NEW m \in Everyone, NEW x \in Modules, AddModule(m, x) PROVE TreeInv'
  BY <1>1, AddModuleKeeps
<1>2. ASSUME NEW m \in Everyone, NEW x \in Modules, ReleaseModule(m, x) PROVE TreeInv'
  BY <1>2, ReleaseModuleKeeps
<1>3. CASE UNCHANGED treeVars
  BY <1>3 DEF treeVars, TreeInv, TreeTypes, TreeKnown, TreeFresh, TreeLists, TreeRooted, Below, InTree, Top
<1> QED BY <1>1, <1>2, <1>3, OnInitAddsKeeps, OnInitEndsKeeps, OnStartKeeps, AddFailsKeeps DEF TreeNext

\* It holds at the start.
LEMMA TreeInitHolds == ASSUME TreeInit PROVE TreeInv
<1>1. \A z \in Everyone : childs[z] = <<>> /\ childs[z] \in Seq(Modules)
  BY DEF TreeInit
<1>2. adding = <<>> /\ adding \in Seq(AddCalls) /\ descendants = {} /\ running = {}
  BY DEF TreeInit
<1>3. TreeTypes
  BY <1>1, <1>2 DEF TreeInit, TreeTypes
<1>4. TreeKnown /\ TreeFresh /\ TreeRooted
  BY <1>2 DEF TreeKnown, TreeFresh, TreeRooted
<1>5. TreeLists
  BY <1>1, <1>2 DEF TreeLists, Single, Range
<1> QED BY <1>3, <1>4, <1>5 DEF TreeInv

\* The invariant says that the tree is what it should be.
LEMMA TreeInvHolds == ASSUME TreeInv PROVE TreeHolds
<1>1. SUFFICES ASSUME adding = <<>> PROVE descendants = running /\ (~undone /\ ~indirect => OneTree)
  BY DEF TreeHolds
<1>2. descendants = running
  <2>1. DOMAIN adding = {} /\ TreeKnown
    BY <1>1 DEF TreeInv
  <2> QED BY <2>1 DEF TreeKnown
<1>3. ASSUME ~undone, ~indirect PROVE OneTree
  <2>1. TreeTypes /\ TreeLists /\ TreeRooted
    BY <1>3 DEF TreeInv
  <2>2. \A z \in Everyone, y \in Modules : y \in Range(childs[z]) <=> y \in descendants /\ parent[y] = z
    BY <2>1 DEF TreeLists
  <2>3. \A z \in Everyone : childs[z] \in Seq(Modules) /\ Single(childs[z]) /\ Range(childs[z]) \subseteq Modules
    <3>1. \A z \in Everyone : childs[z] \in Seq(Modules) /\ Single(childs[z])
      BY <2>1 DEF TreeTypes, TreeLists
    <3>2. \A s \in Seq(Modules) : Range(s) \subseteq Modules
      BY DEF Range
    <3> QED BY <3>1, <3>2
  <2>4. descendants \subseteq Modules /\ \A y \in descendants : parent[y] \in Everyone
    BY <2>1 DEF TreeTypes, TreeLists, InTree, Everyone
  <2>5. ASSUME NEW p \in Listed PROVE p \in {<<parent[y], y>> : y \in descendants}
    <3>1. PICK z \in Everyone : p \in {<<z, y>> : y \in Range(childs[z])}
      BY <2>5 DEF Listed
    <3>2. PICK y \in Range(childs[z]) : p = <<z, y>>
      BY <3>1
    <3>3. y \in descendants /\ parent[y] = z
      BY <3>1, <3>2, <2>2, <2>3
    <3> QED BY <3>2, <3>3
  <2>6. ASSUME NEW y \in descendants PROVE <<parent[y], y>> \in Listed
    <3>1. y \in Range(childs[parent[y]]) /\ parent[y] \in Everyone
      BY <2>2, <2>4
    <3> QED BY <3>1 DEF Listed
  <2>7. Listed = {<<parent[y], y>> : y \in descendants}
    BY <2>5, <2>6
  <2>8. \A z \in Everyone : Len(childs[z]) = Cardinality(Range(childs[z]))
    BY <2>3, DistinctLength
  <2>9. descendants \subseteq Released(Root)
    BY <2>1, <2>4 DEF Released, TreeRooted, Everyone
  <2> QED BY <2>7, <2>8, <2>9 DEF OneTree
<1> QED BY <1>2, <1>3

\* Between two calls of the user the root knows exactly the modules that run, and unless a
\* failed AddModule or an indirect release undid it they are a tree a walk from the root finds
\* (module.go).
THEOREM TreeHoldsAlways == TreeSpec => []TreeHolds
<1>1. TreeInv /\ [TreeNext]_treeVars => TreeInv'
  BY TreeStepKeeps
<1> QED BY <1>1, TreeInitHolds, TreeInvHolds, PTL DEF TreeSpec

-----------------------------------------------------------------------------
\* A step of MCRequests is a step of the Application and one of the tree, or leaves them.
LEMMA UnitsApart == ASSUME [MCNext]_mcVars PROVE [AppNext]_appVars /\ [TreeNext]_treeVars
<1>1. CASE unit = "app" /\ AppNext /\ Others("app")
  BY <1>1 DEF Others
<1>2. CASE unit = "tree" /\ TreeNext /\ Others("tree")
  BY <1>2 DEF Others
<1>3. CASE Others("disc") \/ Others("rpc") \/ Others("cluster")
  BY <1>3 DEF Others
<1>4. CASE Terminated \/ UNCHANGED mcVars
  BY <1>4 DEF Terminated, mcVars
<1> QED BY <1>1, <1>2, <1>3, <1>4 DEF MCNext

\* Both kinds of application, next to the other units of the run.
THEOREM AppsHoldAlways == MCSpec => []AppsHold
<1>1. MCInit => AppInv /\ TreeInv
  BY AppInitHolds, TreeInitHolds DEF MCInit
<1>2. AppInv /\ TreeInv /\ [MCNext]_mcVars => AppInv' /\ TreeInv'
  BY UnitsApart, AppStepKeeps, TreeStepKeeps
<1>3. AppInv /\ TreeInv => AppsHold
  BY AppInvHolds, TreeInvHolds DEF AppsHold
<1> QED BY <1>1, <1>2, <1>3, PTL DEF MCSpec
=============================================================================

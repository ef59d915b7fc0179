---------------------------- MODULE TimingWheel ----------------------------
(***************************************************************************)
(* utils/timingwheel and its wrapper in utils/kktime: the timers of        *)
(* connections and requests.  A wheel has WheelSize buckets of one tick; a *)
(* timer beyond its interval goes to an overflow wheel, made when it is    *)
(* first needed, whose tick is that interval.  A bucket with an expiration waits in the delay queue; Poll   *)
(* hands the expired one to the wheel's goroutine (the runner), which      *)
(* moves the clock and flushes the bucket: each of its timers is run or    *)
(* put into a lower bucket.                                                *)
(*                                                                         *)
(* Callers add timers (AfterFunc) and stop them while Poll and the runner  *)
(* work; a bucket has a lock, clocks and expirations are atomics.  The     *)
(* lowest tick is one unit of time.                                        *)
(***************************************************************************)
EXTENDS Integers, Sequences, FiniteSets, SequencesExt

CONSTANTS
    Timers,         \* one caller each
    Stoppers,       \* callers that may stop their timer
    WheelSize,      \* buckets of a wheel
    WheelLevels,    \* wheels there may be (bound: every delay has its place in them)
    Delays,         \* durations given to AfterFunc
    LastTime        \* the clock stops here (bound)

VARIABLES
    now,            \* the time
    clock,          \* currentTime of every wheel, -1 before it exists
    exp,            \* expiration of every bucket, -1 when it has none
    timers,         \* the timers of every bucket, a list
    held,           \* buckets whose lock the runner holds (Flush)
    due,            \* expiration of every timer, -1 before AfterFunc
    adder,          \* where every caller and the runner are in add
    pq,             \* the delay queue: buckets with the priority they were offered at
    sleeping,       \* DelayQueue.sleeping
    poll,           \* where Poll is, with the item it took or the head it saw
    runner,         \* where the runner is, with its bucket
    exitC,          \* closed by Stop
    ran,            \* when every timer ran, -1 before
    stopped,        \* timers whose Stop returned true
    overtaken       \* an add read a clock, or set an expiration, that was of the past

wheelVars == <<now, clock, exp, timers, held, due, adder, pq, sleeping, poll, runner, exitC,
               ran, stopped, overtaken>>

Levels == 1..WheelLevels
Buckets == Levels \X (0..(WheelSize - 1))
NoBucket == <<0, 0>>
\* The tick of an overflow wheel is the interval of the wheel below.
TickOf[l \in Levels] == IF l = 1 THEN 1 ELSE TickOf[l - 1] * WheelSize
Interval(l) == TickOf[l] * WheelSize
Runner == "runner"

\* Every timer has its place in the wheels there may be.
ASSUME WheelSizes ==
    /\ WheelSize \in Nat \ {0} /\ WheelLevels \in Nat \ {0} /\ LastTime \in Nat
    /\ Delays \subseteq Nat /\ \A d \in Delays : LastTime + d < Interval(WheelLevels)
    /\ Runner \notin Timers

Truncate(x, m) == x - (x % m)
\* The list of a bucket without the timer's element, if it has one.
Unlisted(q, t) ==
    IF \E i \in DOMAIN q : q[i] = t THEN RemoveAt(q, CHOOSE i \in DOMAIN q : q[i] = t) ELSE q
BucketsOf(t) == {b \in Buckets : \E i \in DOMAIN timers[b] : timers[b][i] = t}
AtRest == [at |-> "idle", timer |-> "none", bucket |-> NoBucket, level |-> 1]

WheelInit ==
    /\ now = 0 /\ clock = [l \in Levels |-> IF l = 1 THEN 0 ELSE -1]
    /\ exp = [b \in Buckets |-> -1] /\ timers = [b \in Buckets |-> <<>>] /\ held = {}
    /\ due = [t \in Timers |-> -1]
    /\ adder = [p \in Timers \union {Runner} |-> AtRest]
    /\ pq = {} /\ sleeping = FALSE
    /\ poll = [at |-> "peek", bucket |-> NoBucket, prio |-> -1]
    /\ runner = [at |-> "receive", bucket |-> NoBucket]
    /\ exitC = FALSE /\ ran = [t \in Timers |-> -1]
    /\ stopped = {} /\ overtaken = FALSE

---------------------------------------------------------------------------
(* add, by process p.  "load": the clock of the wheel at hand is read and  *)
(* the timer's place decided.                                              *)
AddLoad(p) ==
    LET a == adder[p]
        t == a.timer
        l == a.level
        c == clock[l]
    IN  /\ a.at = "load"
        /\ CASE due[t] < c + TickOf[l] ->                       \* expired: run it
                  /\ ran' = [ran EXCEPT ![t] = now]
                  /\ adder' = [adder EXCEPT ![p].at = "done"]
                  /\ overtaken' = (overtaken \/ l > 1)
                  /\ UNCHANGED clock
             [] due[t] >= c + TickOf[l] /\ due[t] < c + Interval(l) ->
                  /\ adder' = [adder EXCEPT ![p].at = "insert", ![p].bucket =
                                   <<l, (due[t] \div TickOf[l]) % WheelSize>>]
                  /\ UNCHANGED <<ran, clock, overtaken>>
             [] due[t] >= c + Interval(l) ->                    \* overflow, made when it is missing
                  /\ clock' = IF clock[l + 1] # -1 THEN clock
                              ELSE [clock EXCEPT ![l + 1] = Truncate(c, TickOf[l + 1])]
                  /\ adder' = [adder EXCEPT ![p].level = l + 1]
                  /\ UNCHANGED <<ran, overtaken>>
        /\ UNCHANGED <<now, exp, timers, held, due, pq, sleeping, poll, runner, exitC, stopped>>

(* bucket.Add, under the bucket's lock. *)
AddInsert(p) ==
    LET a == adder[p] IN
    /\ a.at = "insert" /\ a.bucket \notin held
    /\ timers' = [timers EXCEPT ![a.bucket] = Append(@, a.timer)]
    /\ adder' = [adder EXCEPT ![p].at = "expire"]
    /\ UNCHANGED <<now, clock, exp, held, due, pq, sleeping, poll, runner, exitC, ran, stopped, overtaken>>

(* SetExpiration: a bucket that had another one is offered to the queue. *)
AddExpire(p) ==
    LET a == adder[p]
        e == Truncate(due[a.timer], TickOf[a.level])
    IN  /\ a.at = "expire"
        /\ exp' = [exp EXCEPT ![a.bucket] = e]
        /\ adder' = [adder EXCEPT ![p].at = IF exp[a.bucket] = e THEN "done" ELSE "offer"]
        /\ overtaken' = (overtaken \/ exp[a.bucket] \notin {-1, e})
        /\ UNCHANGED <<now, clock, timers, held, due, pq, sleeping, poll, runner, exitC, ran,
                       stopped>>

\* Mutant: nobody wakes a Poll that sleeps.
AddOfferSilently(p) ==
    LET a == adder[p] IN
    /\ a.at = "offer"
    /\ pq' = pq \union {[bucket |-> a.bucket, prio |-> exp[a.bucket]]}
    /\ adder' = [adder EXCEPT ![p].at = "done"]
    /\ UNCHANGED <<now, clock, exp, timers, held, due, sleeping, poll, runner, exitC, ran,
                   stopped, overtaken>>

(* Offer reads the expiration again; the one that becomes the head of the  *)
(* queue wakes Poll if it sleeps.                                          *)
AddOffer(p) ==
    LET a == adder[p]
        e == exp[a.bucket]
        first == \A i \in pq : e < i.prio
    IN  /\ a.at = "offer"
        /\ pq' = pq \union {[bucket |-> a.bucket, prio |-> e]}
        /\ sleeping' = (sleeping /\ ~first)
        /\ adder' = [adder EXCEPT ![p].at = IF first /\ sleeping THEN "wake" ELSE "done"]
        /\ UNCHANGED <<now, clock, exp, timers, held, due, poll, runner, exitC, ran, stopped, overtaken>>

---------------------------------------------------------------------------
(* A caller's AfterFunc; the wrapper lists the timer and returns its id,   *)
(* with which the caller may stop it. *)
AfterFunc(t, d) ==
    /\ due[t] = -1 /\ ~exitC
    /\ due' = [due EXCEPT ![t] = now + d]
    /\ adder' = [adder EXCEPT ![t] = [AtRest EXCEPT !.at = "load", !.timer = t]]
    /\ UNCHANGED <<now, clock, exp, timers, held, pq, sleeping, poll, runner, exitC, ran, stopped, overtaken>>

(* Timer.Stop reads the bucket, then removes the timer under its lock if   *)
(* it still is there, until the timer is in none.                          *)
StopTimer(t) ==
    /\ adder[t].at = "done" /\ t \in Stoppers
    /\ adder' = [adder EXCEPT ![t].at = "stop"]
    /\ UNCHANGED <<now, clock, exp, timers, held, due, pq, sleeping, poll, runner, exitC, ran,
                   stopped, overtaken>>
StopReads(t) ==
    /\ adder[t].at = "stop"
    /\ adder' = [adder EXCEPT ![t] = IF BucketsOf(t) = {} THEN [@ EXCEPT !.at = "stopped"]
                                     ELSE [@ EXCEPT !.at = "remove", !.bucket = CHOOSE b \in BucketsOf(t) : TRUE]]
    /\ UNCHANGED <<now, clock, exp, timers, held, due, pq, sleeping, poll, runner, exitC, ran,
                   stopped, overtaken>>
\* Mutant: the answer is true though the timer has left the bucket.
StopRemovesBlindly(t) ==
    LET b == adder[t].bucket IN
    /\ adder[t].at = "remove" /\ b \notin held
    /\ timers' = [timers EXCEPT ![b] = Unlisted(@, t)]
    /\ stopped' = stopped \union {t}
    /\ adder' = [adder EXCEPT ![t].at = "stopped"]
    /\ UNCHANGED <<now, clock, exp, held, due, pq, sleeping, poll, runner, exitC, ran, overtaken>>
StopRemoves(t) ==
    LET b == adder[t].bucket IN
    /\ adder[t].at = "remove" /\ b \notin held
    /\ timers' = [timers EXCEPT ![b] = Unlisted(@, t)]
    /\ stopped' = IF b \in BucketsOf(t) THEN stopped \union {t} ELSE stopped \ {t}
    /\ adder' = [adder EXCEPT ![t].at = "stop"]
    /\ UNCHANGED <<now, clock, exp, held, due, pq, sleeping, poll, runner, exitC, ran,
                   overtaken>>

---------------------------------------------------------------------------
(* Poll *)
PollPeek ==
    /\ poll.at = "peek"
    /\ IF \E i \in pq : i.prio <= now
       THEN /\ \E i \in pq : /\ \A j \in pq : i.prio <= j.prio
                             /\ pq' = pq \ {i}
                             /\ poll' = [at |-> "send", bucket |-> i.bucket, prio |-> i.prio]
            /\ UNCHANGED sleeping
       ELSE /\ sleeping' = TRUE /\ UNCHANGED pq
            /\ poll' = [at |-> "wait", bucket |-> NoBucket, prio |->
                           IF pq = {} THEN -1 ELSE (CHOOSE i \in pq : \A j \in pq : i.prio <= j.prio).prio]
    /\ UNCHANGED <<now, clock, exp, timers, held, due, adder, runner, exitC, ran, stopped,
                   overtaken>>

(* Poll takes the wake-up of a caller that blocks on wakeupC. *)
PollWoken(p) ==
    /\ poll.at \in {"wait", "drain"} /\ adder[p].at = "wake"
    /\ adder' = [adder EXCEPT ![p].at = "done"]
    /\ poll' = [poll EXCEPT !.at = "peek"]
    /\ UNCHANGED <<now, clock, exp, timers, held, due, pq, sleeping, runner, exitC, ran, stopped, overtaken>>

(* The head expired; a caller that reset sleeping blocks and is awaited. *)
PollTimeout ==
    /\ poll.at = "wait" /\ poll.prio # -1 /\ now >= poll.prio
    /\ sleeping' = FALSE
    /\ poll' = [poll EXCEPT !.at = IF sleeping THEN "peek" ELSE "drain"]
    /\ UNCHANGED <<now, clock, exp, timers, held, due, adder, pq, runner, exitC, ran, stopped, overtaken>>

(* The unbuffered channel C: the runner takes the bucket and reads its     *)
(* expiration. *)
PollSends ==
    /\ poll.at = "send" /\ runner.at = "receive"
    /\ poll' = [poll EXCEPT !.at = "peek"]
    /\ runner' = [at |-> "advance", bucket |-> poll.bucket]
    /\ UNCHANGED <<now, clock, exp, timers, held, due, adder, pq, sleeping, exitC, ran, stopped, overtaken>>
PollExits ==
    /\ exitC /\ poll.at \in {"wait", "send"}
    /\ poll' = [poll EXCEPT !.at = "exit"] /\ sleeping' = FALSE
    /\ UNCHANGED <<now, clock, exp, timers, held, due, adder, pq, runner, exitC, ran, stopped, overtaken>>

---------------------------------------------------------------------------
(* advanceClock: the wheels whose tick is over, from the lowest up.        *)
RunnerAdvances ==
    /\ runner.at = "advance"
    /\ LET e == exp[runner.bucket]
           moved(l) == \A k \in 1..l : clock[k] # -1 /\ e >= clock[k] + TickOf[k]
       IN  clock' = [l \in Levels |-> IF moved(l) THEN Truncate(e, TickOf[l]) ELSE clock[l]]
    /\ runner' = [runner EXCEPT !.at = "lock"]
    /\ UNCHANGED <<now, exp, timers, held, due, adder, pq, sleeping, poll, exitC, ran, stopped, overtaken>>

RunnerLocks ==
    /\ runner.at = "lock"
    /\ held' = {runner.bucket} /\ runner' = [runner EXCEPT !.at = "flush"]
    /\ UNCHANGED <<now, clock, exp, timers, due, adder, pq, sleeping, poll, exitC, ran, stopped, overtaken>>

(* Flush removes the next timer and reinserts it, or ends. *)
RunnerFlushes ==
    LET b == runner.bucket IN
    /\ runner.at = "flush" /\ adder[Runner].at \in {"idle", "done"}
    /\ IF timers[b] # <<>>
       THEN /\ timers' = [timers EXCEPT ![b] = Tail(@)]
            /\ adder' = [adder EXCEPT ![Runner] = [AtRest EXCEPT !.at = "load", !.timer = Head(timers[b])]]
            /\ UNCHANGED <<exp, held, runner>>
       ELSE /\ exp' = [exp EXCEPT ![b] = -1]
            /\ held' = {} /\ runner' = [at |-> "receive", bucket |-> NoBucket]
            /\ adder' = [adder EXCEPT ![Runner] = AtRest]
            /\ UNCHANGED timers
    /\ UNCHANGED <<now, clock, due, pq, sleeping, poll, exitC, ran, stopped, overtaken>>

RunnerExits ==
    /\ exitC /\ runner.at = "receive"
    /\ runner' = [runner EXCEPT !.at = "exit"]
    /\ UNCHANGED <<now, clock, exp, timers, held, due, adder, pq, sleeping, poll, exitC, ran,
                   stopped, overtaken>>

(* TimingWheel.Stop; its Wait ends when Poll and the runner have exited. *)
WheelStop ==
    /\ ~exitC /\ exitC' = TRUE
    /\ UNCHANGED <<now, clock, exp, timers, held, due, adder, pq, sleeping, poll, runner, ran,
                   stopped, overtaken>>

WheelTick ==
    /\ now < LastTime /\ now' = now + 1
    /\ UNCHANGED <<clock, exp, timers, held, due, adder, pq, sleeping, poll, runner, exitC, ran,
                   stopped, overtaken>>

Adders == Timers \union {Runner}
AddStep(p) == AddLoad(p) \/ AddInsert(p) \/ AddExpire(p) \/ AddOffer(p)
CallerStep(t) == StopReads(t) \/ StopRemoves(t)
PollStep == PollPeek \/ (\E p \in Adders : PollWoken(p)) \/ PollTimeout \/ PollSends \/ PollExits
RunnerStep == RunnerAdvances \/ RunnerLocks \/ RunnerFlushes \/ RunnerExits

WheelNext ==
    \/ \E p \in Adders : AddStep(p)
    \/ \E t \in Timers : CallerStep(t) \/ StopTimer(t) \/ \E d \in Delays : AfterFunc(t, d)
    \/ PollStep \/ RunnerStep \/ WheelTick \/ WheelStop

WheelFairness ==
    /\ \A p \in Adders : WF_wheelVars(AddStep(p))
    /\ \A t \in Timers : WF_wheelVars(CallerStep(t))
    /\ WF_wheelVars(PollStep) /\ WF_wheelVars(RunnerStep) /\ WF_wheelVars(WheelTick)

WheelSpec == WheelInit /\ [][WheelNext]_wheelVars

---------------------------------------------------------------------------
(* A timer is in one bucket at most and runs at most once, never after a   *)
(* Stop that returned true, and never before its time unless an add was    *)
(* overtaken: it read the clock of the wheel before the runner moved it    *)
(* and the one of the overflow wheel after, or it gave a bucket another    *)
(* expiration than the one it already waits with.                          *)
TimersRunOnceInTime ==
    /\ \A t \in Timers :
          /\ Cardinality(BucketsOf(t)) <= 1
          /\ ran[t] # -1 => BucketsOf(t) = {}
          /\ t \in stopped => ran[t] = -1 /\ (adder[t].at = "stopped" => BucketsOf(t) = {})
          /\ ran[t] # -1 /\ ~overtaken => ran[t] >= due[t]

(* Flush holds the lock of the bucket while it reinserts its timers: "no   *)
(* further lock operation will happen to b.mu".                            *)
RunnerStuck == adder[Runner].at = "insert" /\ adder[Runner].bucket \in held
FlushReinsertsElsewhere == ~RunnerStuck

(* Every timer runs in the end unless it, or the wheel, is stopped: no     *)
(* wake-up of Poll is lost and no bucket with timers is left out of the    *)
(* delay queue.  Stop returns once Poll and the runner have left; but the  *)
(* runner may be handing a wake-up to a Poll that chose to leave, and in   *)
(* both cases it may wait for the lock it holds.                           *)
TimersFire ==
    <>[](/\ \A t \in Timers :
              due[t] \in 0..LastTime => ran[t] # -1 \/ t \in stopped \/ exitC \/ RunnerStuck
         /\ exitC => \/ poll.at = "exit" /\ (runner.at = "exit" \/ adder[Runner].at = "wake")
                     \/ RunnerStuck)
=============================================================================

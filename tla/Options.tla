------------------------------ MODULE Options -------------------------------
(***************************************************************************)
(* kknet options: the defaults, the With... functions that ApplyOptions    *)
(* calls in the order of the caller, and CheckOptions, which NewServer and *)
(* NewClient call on their copy and every new connection calls again, on   *)
(* the copy it shares with all the others and without a lock.  And the     *)
(* back-off the clients compute from the result.                           *)
(*                                                                         *)
(* Times are milliseconds, a switch is 0 or 1, a packet format is a number *)
(* and 0 is nil.  Callbacks, providers, the logger and the TLS             *)
(* configuration are not modelled.                                         *)
(***************************************************************************)
EXTENDS Integers

CONSTANTS
    OptionValues,   \* what a caller passes to a With... function
    Withs,          \* With... functions in a behaviour
    Fails           \* consecutive failures looked at

VARIABLES opts, withs, checks

optionVars == <<opts, withs, checks>>

NetFields == {"ReadBufferSize", "WriteBufferSize", "ShutdownTimeout", "ReadTimeout", "WriteTimeout", "PingInterval",
              "IsNeedReconnect", "ReconnectInterval", "ReconnectMaxInterval", "ReconnectMaxRetries", "StreamTool"}
WriteFields == {"SendQueueSize", "SendQueueStrict", "SendQueueNeedFlushOver", "SendQueueTimeoutFlushOver",
                "BatchWriteLimitBytes", "SendQueueFullAction", "SendQueueRetryInterval", "SendQueueRetryMaxCount",
                "WriteFnRetryMaxCount", "WriteFnRetryInterval"}
ReadFields == {"RecvQueueStrict", "RecvQueueSize", "RecvBufShrinkCap", "WorkerQueueMaxConcurrency"}
Switches == {"IsNeedReconnect", "SendQueueStrict", "SendQueueNeedFlushOver", "RecvQueueStrict"}
(* The With... functions that ignore a value that is not positive, or that is negative. *)
Positive == {"ReadBufferSize", "WriteBufferSize", "ShutdownTimeout", "ReconnectInterval", "ReconnectMaxInterval",
             "StreamTool", "SendQueueSize", "SendQueueRetryInterval", "WriteFnRetryInterval", "RecvQueueSize"}
NonNegative == {"ReadTimeout", "WriteTimeout", "PingInterval", "SendQueueRetryMaxCount", "WriteFnRetryMaxCount"}

DefaultTool == 1
DefaultWriteOptions ==
    [SendQueueSize |-> 128, SendQueueStrict |-> 0, SendQueueNeedFlushOver |-> 1, SendQueueTimeoutFlushOver |-> 5000,
     BatchWriteLimitBytes |-> 1024, SendQueueFullAction |-> 0, SendQueueRetryInterval |-> 1, SendQueueRetryMaxCount |-> 100,
     WriteFnRetryMaxCount |-> 0, WriteFnRetryInterval |-> 5, wpTool |-> DefaultTool]
DefaultReadOptions ==
    [RecvQueueStrict |-> 0, RecvQueueSize |-> 256, RecvBufShrinkCap |-> 2048, WorkerQueueMaxConcurrency |-> 1, rpTool |-> DefaultTool]
DefaultOptions ==
    [ReadBufferSize |-> 4096, WriteBufferSize |-> 4096, ShutdownTimeout |-> 10000, ReadTimeout |-> 15000, WriteTimeout |-> 5000,
     PingInterval |-> 5000, IsNeedReconnect |-> 1, ReconnectInterval |-> 1000, ReconnectMaxInterval |-> 30000,
     ReconnectMaxRetries |-> 5, StreamTool |-> DefaultTool, wp |-> DefaultWriteOptions, rp |-> DefaultReadOptions]
(* An Options{} written by hand. *)
ZeroOptions ==
    [[f \in DOMAIN DefaultOptions |-> 0] EXCEPT !["wp"] = [f \in DOMAIN DefaultWriteOptions |-> 0],
                                                !["rp"] = [f \in DOMAIN DefaultReadOptions |-> 0]]

---------------------------------------------------------------------------
Accepted(f, v) ==
    /\ f \in Positive => v > 0
    /\ f \in NonNegative => v >= 0
    /\ f \in Switches => v \in {0, 1}
WithNet(o, f, v) ==
    IF ~Accepted(f, v) THEN o
    ELSE IF f = "StreamTool" THEN [o EXCEPT !.StreamTool = v, !.wp.wpTool = v, !.rp.rpTool = v]
    ELSE [o EXCEPT ![f] = v]
WithWrite(o, f, v) == IF Accepted(f, v) THEN [o EXCEPT !.wp[f] = v] ELSE o
WithRead(o, f, v) == IF Accepted(f, v) THEN [o EXCEPT !.rp[f] = v] ELSE o

AtLeast(n, v) == IF v < n THEN n ELSE v
Within(lo, hi, v) == IF v < lo THEN lo ELSE IF v > hi THEN hi ELSE v
(* A time below its minimum is raised, one that switches off is left. *)
AtLeastIfOn(n, v) == IF v > 0 THEN AtLeast(n, v) ELSE v
OrElse(default, v) == IF v <= 0 THEN default ELSE v

CheckWriteOptions(w) ==
    [w EXCEPT !.wpTool = IF @ = 0 THEN DefaultTool ELSE @, !.SendQueueSize = OrElse(128, @),
              !.SendQueueFullAction = IF @ \in {0, 1} THEN @ ELSE 0,
              !.BatchWriteLimitBytes = Within(512, 2048, @), !.SendQueueRetryInterval = OrElse(1, @),
              !.SendQueueRetryMaxCount = AtLeast(0, @), !.WriteFnRetryMaxCount = AtLeast(0, @),
              !.WriteFnRetryInterval = OrElse(5, @), !.SendQueueTimeoutFlushOver = AtLeastIfOn(500, @)]
CheckReadOptions(r) ==
    [r EXCEPT !.rpTool = IF @ = 0 THEN DefaultTool ELSE @, !.RecvQueueSize = OrElse(256, @),
              !.RecvBufShrinkCap = IF @ <= 0 \/ @ > 2048 THEN 2048 ELSE @,
              !.WorkerQueueMaxConcurrency = Within(1, 64, @)]
Raised(o, base) ==
    [o EXCEPT !.ReadBufferSize = Within(1024, 32768, @), !.WriteBufferSize = Within(1024, 32768, @),
              !.ReadTimeout = AtLeastIfOn(1000, @), !.WriteTimeout = AtLeastIfOn(1000, @),
              !.PingInterval = AtLeastIfOn(3000, @), !.ReconnectInterval = AtLeastIfOn(500, @),
              !.ReconnectMaxInterval = AtLeast(base, OrElse(30000, @)),
              !.ShutdownTimeout = AtLeastIfOn(500, @), !.StreamTool = IF @ = 0 THEN DefaultTool ELSE @]
(* ReconnectMaxInterval is compared with the interval already raised. *)
CheckLimits(o) == Raised(o, AtLeastIfOn(500, o.ReconnectInterval))
CheckOptions(o) ==
    LET n == CheckLimits(o)
    IN  [n EXCEPT !.wp = CheckWriteOptions([n.wp EXCEPT !.wpTool = n.StreamTool]),
                  !.rp = CheckReadOptions([n.rp EXCEPT !.rpTool = n.StreamTool])]

(* The delay before jitter.  A client never starts below half a second.    *)
BackoffBase(o) == AtLeast(500, o.ReconnectInterval)
ReconnectBackoff(base, max, fails) ==
    LET delay[n \in 1..Fails] == IF n = 1 THEN base
                                 ELSE IF delay[n - 1] = max \/ 2 * delay[n - 1] >= max THEN max
                                 ELSE 2 * delay[n - 1]
    IN  IF fails <= 1 THEN base ELSE delay[fails]

---------------------------------------------------------------------------
OptionsInit == opts \in {DefaultOptions, ZeroOptions} /\ withs = 0 /\ checks = 0
ApplyOptions ==
    /\ withs < Withs /\ checks = 0 /\ withs' = withs + 1 /\ UNCHANGED checks
    /\ \E v \in OptionValues :
        \/ \E f \in NetFields : opts' = WithNet(opts, f, v)
        \/ \E f \in WriteFields : opts' = WithWrite(opts, f, v)
        \/ \E f \in ReadFields : opts' = WithRead(opts, f, v)
(* ApplyOptions, the constructor and the first connection check in turn.   *)
Checks == checks < 2 /\ checks' = checks + 1 /\ opts' = CheckOptions(opts) /\ UNCHANGED withs
OptionsNext == ApplyOptions \/ Checks

---------------------------------------------------------------------------
(* The check a connection makes writes what is there already, so that the  *)
(* connections that make it at once and read beside it see one value; the  *)
(* back-off never shrinks and never passes the maximum, unless the         *)
(* interval was left at zero; and a ping that was to come before the read  *)
(* times out still does, unless that time is below the three seconds the   *)
(* ping is raised to. *)
Stable(o) == CheckOptions(o) = o
Backs(o) ==
    LET d(n) == ReconnectBackoff(BackoffBase(o), o.ReconnectMaxInterval, n)
    IN  o.ReconnectInterval > 0 =>
            \A n \in 1..Fails : d(n) <= o.ReconnectMaxInterval /\ (n > 1 => d(n - 1) <= d(n))
KeepsAlive(o) ==
    LET c == CheckOptions(o)
    IN  (o.PingInterval > 0 /\ o.PingInterval < o.ReadTimeout /\ o.ReadTimeout > 3000) => c.PingInterval < c.ReadTimeout
OptionsHold ==
    /\ checks > 0 => Stable(opts) /\ Backs(opts) /\ opts.wp.wpTool = opts.StreamTool /\ opts.rp.rpTool = opts.StreamTool
    /\ KeepsAlive(opts)
=============================================================================

---------------------------- MODULE RateLimiter ----------------------------
(***************************************************************************)
(* RateLimitService (src/app/services/rate_limit_service.py) for one       *)
(* tenant, with redis reachable: check_rate_limit runs in the coroutines   *)
(* of several worker processes, reads the clock, and then talks to redis,  *)
(* one command per step, while other checks do the same.                   *)
(*                                                                         *)
(* A check ("Checks") is one call of check_rate_limit, made at most once.  *)
(* It first charges the limit of its operation, if the operation has one,  *)
(* then applies the strategy, then records the usage.  The minute of the   *)
(* code is Window ticks of a discrete clock.  Two requests never carry the *)
(* same time.time() to the last digit, so the sorted set, whose members    *)
(* are timestamps, is kept as the number of its entries at each tick.      *)
(* Its key lives for Ttl ticks, 70 seconds, from the last EXPIRE on, which *)
(* is a command of its own and may never come: a key without it stays.     *)
(* A key with a window in its name outlives the window by ten seconds, and *)
(* no check that takes less meets its expiry, which is left out.  Tokens   *)
(* are counted in units of 1/Window, so that the refill is whole numbers.  *)
(***************************************************************************)
EXTENDS Integers, FiniteSets, Functions

CONSTANTS
    Workers,         \* worker processes
    Checks,          \* calls of check_rate_limit
    Kinds,           \* operations
    CostOf,          \* cost of each operation, RateLimitMiddleware._get_request_cost
    OperationLimits, \* limit per window of the operations that have one
    Strategies,      \* values of config.strategy; a leaky bucket is a token bucket
    Limits,          \* the requests_per_minute an administrator may set
    DefaultLimit,    \* requests_per_minute of a worker that was just started
    HighestLimit,    \* no limit is above it
    Burst,           \* burst_size
    Window,          \* ticks in a minute
    Ttl,             \* ticks in 70 seconds
    MaxTime,         \* bound: the last tick
    MaxDelay,        \* bound: ticks between a check's reading of the clock
                     \* and its last command to redis
    MaxAtOnce,       \* bound: checks in progress at one time
    MaxAdmin         \* bound: updates and resets by an administrator

Times == 0 .. MaxTime
WindowOf(t) == t \div Window
Windows == {WindowOf(t) : t \in Times}

ASSUME RateLimiterAssumption ==
    /\ IsFiniteSet(Checks)
    /\ CostOf \in [Kinds -> Nat \ {0}]
    /\ DOMAIN OperationLimits \subseteq Kinds
    /\ \A k \in DOMAIN OperationLimits : OperationLimits[k] \in Nat
    /\ Strategies \subseteq {"sliding", "fixed", "token"}
    /\ Limits \subseteq Nat /\ DefaultLimit \in Limits
    /\ HighestLimit \in Nat /\ \A l \in Limits : l <= HighestLimit
    /\ Burst \in Nat /\ Window \in Nat \ {0} /\ MaxTime \in Nat
    /\ Ttl \in Nat \ {0}
    /\ MaxDelay \in Nat /\ MaxAtOnce \in Nat \ {0} /\ MaxAdmin \in Nat

VARIABLES
    now,
    \* redis
    zset,       \* rate_limit:sliding:<tenant>, entries by timestamp
    zdies,      \* the tick at which it expires, 0 if it never does
    fixed,      \* rate_limit:fixed:<tenant>:<window>
    opUsed,     \* rate_limit:op:<tenant>:<operation>:<window>
    tokens,     \* rate_limit:token:<tenant>, "tokens"
    updated,    \* and "last_update"
    dies,       \* the tick at which the bucket expires
    usage,      \* usage:<tenant>:day:<date>
    \* each worker
    strategy,   \* config.strategy, the same in all of them and never changed
    limitOf,    \* config.tenant_limits, this tenant's requests_per_minute
    \* each check
    pc, worker, kind,
    limit,      \* limits["requests_per_minute"] it was given
    time,       \* the clock as it read it last
    left,       \* tokens it is about to write back
    \* history, no counterpart in the code
    counted,    \* checks let through since the last reset
    lapsed,     \* and of these, whose entry expired before it was Ttl old
    granted,    \* cost let through in each window since the last reset
    opGranted,  \* cost let through by the limit of an operation
    peak,       \* most checks ever in progress at one time
    asked,      \* the limit an administrator set last
    admin       \* updates and resets so far

bucket == <<tokens, updated, dies>>
sorted == <<zset, zdies>>
redis == <<sorted, fixed, opUsed, bucket, usage>>
call == <<strategy, worker, kind, limit>>
history == <<counted, lapsed, granted, opGranted, peak, asked, admin>>
vars == <<now, redis, limitOf, pc, call, time, left, history>>

Ended == {"granted", "refused", "opRefused", "failed"}
Phases == {"new", "op", "begin", "purge", "count", "add", "expire", "incr", "get",
           "set", "record", "reply"} \cup Ended
InProgress == {c \in Checks : pc[c] \notin {"new"} \cup Ended}

FirstStep ==
    CASE strategy = "sliding" -> "purge"
      [] strategy = "fixed" -> "incr"
      [] strategy = "token" -> "get"

Cost(c) == CostOf[kind[c]]
Full == Burst * Window
Goto(c, phase) == pc' = [pc EXCEPT ![c] = phase]

-----------------------------------------------------------------------------

Init ==
    /\ now = 0
    /\ zset = [t \in Times |-> 0] /\ zdies = 0
    /\ fixed = [w \in Windows |-> 0]
    /\ opUsed = [kw \in Kinds \X Windows |-> 0]
    /\ tokens = 0 /\ updated = 0 /\ dies = 0
    /\ usage = 0
    /\ strategy \in Strategies
    /\ limitOf = [w \in Workers |-> DefaultLimit]
    /\ pc = [c \in Checks |-> "new"]
    /\ worker \in [Checks -> Workers]
    /\ kind \in [Checks -> Kinds]
    /\ limit = [c \in Checks |-> DefaultLimit]
    /\ time = [c \in Checks |-> 0]
    /\ left = [c \in Checks |-> 0]
    /\ counted = {} /\ lapsed = {}
    /\ granted = [w \in Windows |-> 0]
    /\ opGranted = [kw \in Kinds \X Windows |-> 0]
    /\ peak = 1
    /\ asked = DefaultLimit
    /\ admin = 0

\* The limits are looked up once, at the start.  The clock is read in the
\* same step, for the operation's limit or, without one, for the strategy.
Start(c) ==
    /\ pc[c] = "new"
    /\ Cardinality(InProgress) < MaxAtOnce
    /\ limit' = [limit EXCEPT ![c] = limitOf[worker[c]]]
    /\ time' = [time EXCEPT ![c] = now]
    /\ Goto(c, IF kind[c] \in DOMAIN OperationLimits THEN "op" ELSE FirstStep)
    /\ peak' = IF Cardinality(InProgress) >= peak
               THEN Cardinality(InProgress) + 1 ELSE peak
    /\ UNCHANGED <<now, redis, strategy, limitOf, worker, kind, left, counted,
                   lapsed, granted, opGranted, asked, admin>>

\* Mutant of ChargeOperation: the count before this call is compared.
ChargeOperationLate(c) ==
    LET key == <<kind[c], WindowOf(time[c])>>
    IN  /\ pc[c] = "op"
        /\ opUsed' = [opUsed EXCEPT ![key] = @ + Cost(c)]
        /\ \/ /\ opUsed[key] > OperationLimits[kind[c]]
              /\ Goto(c, "opRefused")
              /\ UNCHANGED opGranted
           \/ /\ opUsed[key] <= OperationLimits[kind[c]]
              /\ Goto(c, "begin")
              /\ opGranted' = [opGranted EXCEPT ![key] = @ + Cost(c)]
        /\ UNCHANGED <<now, sorted, fixed, bucket, usage, limitOf, call, time,
                       left, counted, lapsed, granted, peak, asked, admin>>

\* INCRBY counts the call before it is judged, so a refused call is counted.
ChargeOperation(c) ==
    LET key == <<kind[c], WindowOf(time[c])>>
        count == opUsed[key] + Cost(c)
    IN  /\ pc[c] = "op"
        /\ opUsed' = [opUsed EXCEPT ![key] = count]
        /\ \/ /\ count > OperationLimits[kind[c]]
              /\ Goto(c, "opRefused")
              /\ UNCHANGED opGranted
           \/ /\ count <= OperationLimits[kind[c]]
              /\ Goto(c, "begin")
              /\ opGranted' = [opGranted EXCEPT ![key] = @ + Cost(c)]
        /\ UNCHANGED <<now, sorted, fixed, bucket, usage, limitOf, call, time,
                       left, counted, lapsed, granted, peak, asked, admin>>

\* The reply of redis has arrived; the strategy reads the clock again.
Begin(c) ==
    /\ pc[c] = "begin"
    /\ time' = [time EXCEPT ![c] = now]
    /\ Goto(c, FirstStep)
    /\ UNCHANGED <<now, redis, limitOf, call, left, history>>

-----------------------------------------------------------------------------
(* Sliding window *)

\* A key without entries is gone, and its expiry with it.
Expiry(entries) == IF \A t \in Times : entries[t] = 0 THEN 0 ELSE zdies

\* Mutant of Purge: the entry that is exactly a minute old stays.
PurgeKeepsEdge(c) ==
    /\ pc[c] = "purge"
    /\ zset' = [t \in Times |-> IF t + Window < time[c] THEN 0 ELSE zset[t]]
    /\ zdies' = Expiry(zset')
    /\ Goto(c, "count")
    /\ UNCHANGED <<now, fixed, opUsed, bucket, usage, limitOf, call, time,
                   left, history>>

Purge(c) ==
    /\ pc[c] = "purge"
    /\ zset' = [t \in Times |-> IF t + Window <= time[c] THEN 0 ELSE zset[t]]
    /\ zdies' = Expiry(zset')
    /\ Goto(c, "count")
    /\ UNCHANGED <<now, fixed, opUsed, bucket, usage, limitOf, call, time,
                   left, history>>

\* Mutant of Count: this call's own cost is left out.
CountOthers(c) ==
    /\ pc[c] = "count"
    /\ Goto(c, IF SumFunctionOnSet(zset, Times) > limit[c]
               THEN "refused" ELSE "add")
    /\ UNCHANGED <<now, redis, limitOf, call, time, left, history>>

Count(c) ==
    /\ pc[c] = "count"
    /\ Goto(c, IF SumFunctionOnSet(zset, Times) + Cost(c) > limit[c]
               THEN "refused" ELSE "add")
    /\ UNCHANGED <<now, redis, limitOf, call, time, left, history>>

\* One entry, whatever the cost.
Add(c) ==
    /\ pc[c] = "add"
    /\ zset' = [zset EXCEPT ![time[c]] = @ + 1]
    /\ counted' = counted \cup {c}
    /\ Goto(c, "expire")
    /\ UNCHANGED <<now, zdies, fixed, opUsed, bucket, usage, limitOf, call,
                   time, left, lapsed, granted, opGranted, peak, asked, admin>>

\* Mutant of Expire: the key lives no longer than its entries.
ExpireWithWindow(c) ==
    /\ pc[c] = "expire"
    /\ zdies' = IF \A t \in Times : zset[t] = 0 THEN 0 ELSE now + Window
    /\ Goto(c, "record")
    /\ UNCHANGED <<now, zset, fixed, opUsed, bucket, usage, limitOf, call, time,
                   left, history>>

\* EXPIRE with 70 seconds; of a key that is gone it changes nothing.
Expire(c) ==
    /\ pc[c] = "expire"
    /\ zdies' = IF \A t \in Times : zset[t] = 0 THEN 0 ELSE now + Ttl
    /\ Goto(c, "record")
    /\ UNCHANGED <<now, zset, fixed, opUsed, bucket, usage, limitOf, call, time,
                   left, history>>

-----------------------------------------------------------------------------
(* Fixed window *)

\* Mutant of Increment: the count before this call is compared.
IncrementLate(c) ==
    LET w == WindowOf(time[c])
    IN  /\ pc[c] = "incr"
        /\ fixed' = [fixed EXCEPT ![w] = @ + Cost(c)]
        /\ \/ /\ fixed[w] > limit[c]
              /\ Goto(c, "refused")
              /\ UNCHANGED <<counted, granted>>
           \/ /\ fixed[w] <= limit[c]
              /\ Goto(c, "record")
              /\ counted' = counted \cup {c}
              /\ granted' = [granted EXCEPT ![w] = @ + Cost(c)]
        /\ UNCHANGED <<now, sorted, opUsed, bucket, usage, limitOf, call, time,
                       left, lapsed, opGranted, peak, asked, admin>>

Increment(c) ==
    LET w == WindowOf(time[c])
        count == fixed[w] + Cost(c)
    IN  /\ pc[c] = "incr"
        /\ fixed' = [fixed EXCEPT ![w] = count]
        /\ \/ /\ count > limit[c]
              /\ Goto(c, "refused")
              /\ UNCHANGED <<counted, granted>>
           \/ /\ count <= limit[c]
              /\ Goto(c, "record")
              /\ counted' = counted \cup {c}
              /\ granted' = [granted EXCEPT ![w] = @ + Cost(c)]
        /\ UNCHANGED <<now, sorted, opUsed, bucket, usage, limitOf, call, time,
                       left, lapsed, opGranted, peak, asked, admin>>

-----------------------------------------------------------------------------
(* Token bucket *)

\* What the bucket holds for a check that read the clock at t; a bucket that
\* is absent or has expired is full.
Refilled(t, l) ==
    LET level == tokens + (t - updated) * l
    IN  IF now >= dies \/ level > Full THEN Full ELSE level

\* Mutant of GetBucket: the cost is not taken off.
GetBucketUncharged(c) ==
    LET level == Refilled(time[c], limit[c])
    IN  /\ pc[c] = "get"
        /\ \/ /\ level < Cost(c) * Window
              /\ Goto(c, "refused")
              /\ UNCHANGED left
           \/ /\ level >= Cost(c) * Window
              /\ Goto(c, "set")
              /\ left' = [left EXCEPT ![c] = level]
        /\ UNCHANGED <<now, redis, limitOf, call, time, history>>

GetBucket(c) ==
    LET level == Refilled(time[c], limit[c])
    IN  /\ pc[c] = "get"
        /\ \/ /\ level < Cost(c) * Window
              /\ Goto(c, "refused")
              /\ UNCHANGED left
           \/ /\ level >= Cost(c) * Window
              /\ Goto(c, "set")
              /\ left' = [left EXCEPT ![c] = level - Cost(c) * Window]
        /\ UNCHANGED <<now, redis, limitOf, call, time, history>>

\* SETEX with 120 seconds.
SetBucket(c) ==
    /\ pc[c] = "set"
    /\ tokens' = left[c]
    /\ updated' = time[c]
    /\ dies' = now + 2 * Window
    /\ counted' = counted \cup {c}
    /\ Goto(c, "record")
    /\ UNCHANGED <<now, sorted, fixed, opUsed, usage, limitOf, call, time, left,
                   lapsed, granted, opGranted, peak, asked, admin>>

-----------------------------------------------------------------------------
(* Usage, failures, administration *)

\* Mutant of RecordUsage: a call counts once, whatever it costs.
RecordUsageOnce(c) ==
    /\ pc[c] = "record"
    /\ usage' = usage + 1
    /\ Goto(c, "reply")
    /\ UNCHANGED <<now, sorted, fixed, opUsed, bucket, limitOf, call, time, left,
                   history>>

RecordUsage(c) ==
    /\ pc[c] = "record"
    /\ usage' = usage + Cost(c)
    /\ Goto(c, "reply")
    /\ UNCHANGED <<now, sorted, fixed, opUsed, bucket, limitOf, call, time, left,
                   history>>

Reply(c) ==
    /\ pc[c] = "reply"
    /\ Goto(c, "granted")
    /\ UNCHANGED <<now, redis, limitOf, call, time, left, history>>

\* A command raises, before or after redis applied the one before it.
Fails(c) ==
    /\ c \in InProgress
    /\ Goto(c, "failed")
    /\ UNCHANGED <<now, redis, limitOf, call, time, left, history>>

\* Mutant of Restart: a worker comes back without limits.
RestartUnlimited(w) ==
    /\ pc' = [c \in Checks |-> IF worker[c] = w /\ c \in InProgress
                               THEN "failed" ELSE pc[c]]
    /\ limitOf' = [limitOf EXCEPT ![w] = HighestLimit + 1]
    /\ UNCHANGED <<now, redis, call, time, left, history>>

\* A worker dies and comes back: its checks are gone, and so are the limits
\* that were set in it.
Restart(w) ==
    /\ pc' = [c \in Checks |-> IF worker[c] = w /\ c \in InProgress
                               THEN "failed" ELSE pc[c]]
    /\ limitOf' = [limitOf EXCEPT ![w] = DefaultLimit]
    /\ UNCHANGED <<now, redis, call, time, left, history>>

\* update_tenant_limits reaches the worker that serves the request.
UpdateLimits(w, l) ==
    /\ admin < MaxAdmin
    /\ admin' = admin + 1
    /\ limitOf' = [limitOf EXCEPT ![w] = l]
    /\ asked' = l
    /\ UNCHANGED <<now, redis, pc, call, time, left, counted, lapsed, granted,
                   opGranted, peak>>

\* reset_tenant_limits deletes every rate_limit key of the tenant.
Reset ==
    /\ admin < MaxAdmin
    /\ admin' = admin + 1
    /\ zset' = [t \in Times |-> 0] /\ zdies' = 0
    /\ fixed' = [w \in Windows |-> 0]
    /\ opUsed' = [kw \in Kinds \X Windows |-> 0]
    /\ dies' = 0
    /\ counted' = {} /\ lapsed' = {}
    /\ granted' = [w \in Windows |-> 0]
    /\ opGranted' = [kw \in Kinds \X Windows |-> 0]
    /\ UNCHANGED <<now, tokens, updated, usage, limitOf, pc, call, time, left,
                   peak, asked>>

\* Time passes, and the sorted set expires when its time has come.
Tick ==
    /\ now < MaxTime
    /\ \A c \in InProgress : now - time[c] < MaxDelay
    /\ now' = now + 1
    /\ IF zdies = now'
       THEN /\ zset' = [t \in Times |-> 0] /\ zdies' = 0
            /\ lapsed' = lapsed \cup {c \in counted : time[c] + Ttl > now'}
       ELSE UNCHANGED <<sorted, lapsed>>
    /\ UNCHANGED <<fixed, opUsed, bucket, usage, limitOf, pc, call, time, left,
                   counted, granted, opGranted, peak, asked, admin>>

Check(c) ==
    \/ Start(c) \/ ChargeOperation(c) \/ Begin(c)
    \/ Purge(c) \/ Count(c) \/ Add(c) \/ Expire(c)
    \/ Increment(c)
    \/ GetBucket(c) \/ SetBucket(c)
    \/ RecordUsage(c) \/ Reply(c)

Next ==
    \/ \E c \in Checks : Check(c) \/ Fails(c)
    \/ \E w \in Workers : Restart(w) \/ \E l \in Limits : UpdateLimits(w, l)
    \/ Reset
    \/ Tick

Spec == Init /\ [][Next]_vars

-----------------------------------------------------------------------------
(* Properties *)

Counters == [Kinds \X Windows -> Nat]

\* Every variable has its type.
TypeOK ==
    /\ now \in Times
    /\ zset \in [Times -> Nat] /\ zdies \in Nat
    /\ fixed \in [Windows -> Nat] /\ granted \in [Windows -> Nat]
    /\ opUsed \in Counters /\ opGranted \in Counters
    /\ tokens \in Nat /\ updated \in Times /\ dies \in Nat
    /\ usage \in Nat
    /\ strategy \in Strategies
    /\ limitOf \in [Workers -> Limits] /\ asked \in Limits
    /\ pc \in [Checks -> Phases]
    /\ worker \in [Checks -> Workers]
    /\ kind \in [Checks -> Kinds]
    /\ limit \in [Checks -> Limits]
    /\ time \in [Checks -> Times]
    /\ left \in [Checks -> Nat]
    /\ counted \subseteq Checks /\ lapsed \subseteq Checks
    /\ peak \in Nat \ {0} /\ admin \in 0 .. MaxAdmin

CostOfAll(S) == SumFunctionOnSet([c \in S |-> Cost(c)], S)
CountedIn(first, last) == {c \in counted : time[c] \in first .. last}

\* Fixed window: because INCRBY counts and tells in one command, the cost let
\* through in a minute never passes the limit, however many checks overlap in
\* however many workers, and whatever fails or restarts.
FixedWindowExact == \A w \in Windows : granted[w] <= HighestLimit

\* The fixed window is an implementation of WindowQuota.
Quota == INSTANCE WindowQuota WITH Cap <- HighestLimit, used <- granted
ImplementsQuota == Quota!Spec

\* The same holds of the limit of an operation, under every strategy.
OperationLimitExact ==
    \A k \in DOMAIN OperationLimits, w \in Windows :
        opGranted[<<k, w>>] <= OperationLimits[k]

\* Sliding window: zcard and zadd are two commands, so checks that overlap may
\* all see the same count, and a check that is slow to read may find the entries
\* of its own minute purged by a later one.  If no check takes the ten seconds
\* between the minute and the life of the key, the excess is bounded: in any
\* minute at most two calls over the limit for each further check that was ever
\* in progress at the same time, and one for each entry that the expiry of the
\* key took too early.
SlidingBounded ==
    (strategy = "sliding" /\ MaxDelay <= Ttl - Window) =>
        \A t \in Times : Cardinality(CountedIn(t, t + Window - 1))
                            <= HighestLimit + 2 * (peak - 1) + Cardinality(lapsed)

\* An entry is taken too early only with one whose check failed after zadd: as
\* long as every check that adds an entry comes to set the expiry, the key
\* outlives all its entries, however the two commands of many checks interleave.
LapseNeedsFailure ==
    (strategy = "sliding" /\ MaxDelay <= Ttl - Window) =>
        (lapsed # {} => \E c \in lapsed : pc[c] = "failed")

\* Sliding window: a check is refused only if as many calls as its limit allows
\* were really let through in the minute before it or since it started; no
\* entry outlives its minute and none is left behind by a refused call.
RefusedOnlyWhenFull ==
    [][\A c \in Checks : pc[c] = "count" /\ pc'[c] = "refused" =>
          Cardinality(CountedIn(time[c] - Window + 1, MaxTime)) + Cost(c)
              > limit[c]]_vars

\* Token bucket: if no two checks overlapped, what is let through between any
\* two ticks is at most a full bucket and what dripped in since.  A bucket is
\* forgotten two minutes after it was written, which is sound only if it fills
\* up in that time; an administrator can set a burst_size for which it does not.
TokenBucketExact ==
    (/\ strategy = "token" /\ peak = 1
     /\ \A l \in Limits : Full <= (2 * Window - MaxDelay) * l) =>
        \A first \in Times : \A last \in first .. MaxTime :
            CostOfAll(CountedIn(first, last)) * Window
                <= Full + (last - first) * HighestLimit

\* The usage shown to the tenant covers every call that was answered, and,
\* unless a check failed, no other.
UsageCovers ==
    LET answered == {c \in Checks : pc[c] \in {"reply", "granted"}}
        failed == {c \in Checks : pc[c] = "failed"}
    IN  /\ usage >= CostOfAll(answered)
        /\ usage <= CostOfAll(answered \cup failed)

-----------------------------------------------------------------------------
(* Properties the code does not have *)

\* docs/rate_limiting.md:11, "Expensive operations consume more quota": with
\* no two checks in progress at once, the cost let through in a minute stays
\* within the limit.
CostsCount ==
    (strategy = "sliding" /\ peak = 1) =>
        \A t \in Times : CostOfAll(CountedIn(t, t + Window - 1)) <= HighestLimit

\* docs/rate_limiting.md:65, "Allows bursts up to the bucket capacity": what
\* is let through at one tick is at most a full bucket.
BurstWithinCapacity ==
    (strategy = "token") => \A t \in Times : CostOfAll(CountedIn(t, t)) <= Burst

\* docs/rate_limiting.md:34, "import": 5 per minute: the limit of an operation
\* refuses a call only after it has let one through in the same window.
OperationLimitIsReachable ==
    [][\A c \in Checks : pc[c] = "op" /\ pc'[c] = "opRefused" =>
          opGranted[<<kind[c], WindowOf(time[c])>>] > 0]_vars

\* Docstring of update_tenant_rate_limits, "Update rate limits for a specific
\* tenant": a check that starts afterwards is held to the new limit.
UpdateRules ==
    [][\A c \in Checks : pc[c] = "new" /\ pc'[c] # "new" => limit'[c] = asked]_vars

=============================================================================

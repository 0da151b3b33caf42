---------------------------- MODULE RetryPolicy ----------------------------
(***************************************************************************)
(* RetryPolicy.NextDelay of internal/domain/models.go, and the times at    *)
(* which a task that always fails is tried: ReportResult adds the delay to *)
(* the time of the failure.                                                *)
(***************************************************************************)
EXTENDS Cron

CONSTANTS
    Policies,      \* retry policies, [kind, base, cron]
    Starts,        \* instants of the first failure
    Lags,          \* ticks from the due time to the next failure
    Cap,           \* 3600
    MaxFailures    \* bound: failures of the task

ASSUME RetryAssumption ==
    /\ \A p \in Policies : p.kind = "exponential" => p.base \in Int
    /\ Starts \subseteq Nat /\ Lags \subseteq Nat /\ Cap \in Nat

VARIABLES
    retry,     \* the policy
    now,       \* the time of the last failure
    failures,  \* attempts that failed
    delay      \* NextDelay after the last of them, in seconds

retryVars == <<retry, now, failures, delay>>

\* Mutant: one doubling too many.
DoublingsFromZero(attempt) == attempt

\* Turns of the loop.
Doublings(attempt) == attempt - 1

exponential(base, attempt) ==
    LET after[i \in Nat] ==
            IF i = 0 THEN (IF base <= 0 THEN 1 ELSE base)
            ELSE IF after[i - 1] >= Cap THEN after[i - 1] ELSE 2 * after[i - 1]
    IN  after[Doublings(attempt)]

\* Mutant: the seconds are not rounded up.
SecondsUntilDown(s, t) == (NextInstant(s, t) - t) \div TicksPerSecond

SecondsUntil(s, t) == (NextInstant(s, t) - t) \div TicksPerSecond + 1

NextDelay(p, attempt, t) ==
    CASE p.kind = "exponential" -> exponential(p.base, attempt)
      [] p.kind = "cron" -> SecondsUntil(ParseCron(p.cron), t)
      [] OTHER -> p.base

\* An expression that does not parse yields an error and no retry.
Usable(p) == p.kind = "cron" => Parsed(ParseCron(p.cron))

RetryInit ==
    /\ retry \in {p \in Policies : Usable(p)}
    /\ now \in IF retry.kind = "cron" THEN Starts ELSE {0}
    /\ failures = 1
    /\ delay = NextDelay(retry, 1, now)

Fail ==
    /\ failures < MaxFailures
    /\ \E lag \in Lags : now' = now + delay * TicksPerSecond + lag
    /\ failures' = failures + 1
    /\ delay' = NextDelay(retry, failures', now')
    /\ UNCHANGED retry

-----------------------------------------------------------------------------
\* The minutes Next may return.
Ahead == {c \in FirstCandidate(now)..(Limit(now) \div TicksPerMinute) :
             c * TicksPerMinute < Limit(now) /\ Matches(ParseCron(retry.cron), c)}

\* Skipping months, days and hours misses nothing ("Next returns the earliest
\* instant after t matching the schedule"): the search ends at the first of all
\* matching minutes of the coming year, and a day later if there is none.
CronNextEarliest ==
    retry.kind = "cron" =>
        LET next == NextInstant(ParseCron(retry.cron), now)
        IN  IF Ahead = {} THEN next = now + TicksPerDay
            ELSE next % TicksPerMinute = 0 /\ next \div TicksPerMinute \in Ahead
                 /\ \A c \in Ahead : next <= c * TicksPerMinute

\* A cron retry falls due within the first second of a matching minute, never
\* before it, whatever fraction of a second the failure came at.
CronRetryInMinute ==
    retry.kind = "cron" /\ Ahead # {} =>
        LET due == now + delay * TicksPerSecond
        IN  \E c \in Ahead : due > c * TicksPerMinute /\ due <= c * TicksPerMinute + TicksPerSecond

\* Exponential backoff is base * 2^(n-1) until that reaches the cap and stays
\* at the first such value, which is less than twice the cap for a base below.
BackoffDoubles ==
    retry.kind = "exponential" =>
        LET base == IF retry.base <= 0 THEN 1 ELSE retry.base
        IN  /\ delay = base * 2^(failures - 1)
               \/ \E k \in 0..(failures - 2) :
                     delay = base * 2^k /\ delay >= Cap /\ (k > 0 => base * 2^(k - 1) < Cap)
            /\ base < Cap => delay < 2 * Cap
=============================================================================

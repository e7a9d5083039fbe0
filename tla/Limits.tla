--------------------------------- MODULE Limits ---------------------------------
(***************************************************************************)
(* The fuse box (ordy_security/limits.py): the token bucket of one key of  *)
(* the RateLimiter and the CostBreaker, used by concurrent calls that ask  *)
(* first and record what they spent when they are done.                    *)
(*                                                                         *)
(* Time is a monotonic clock in seconds.  Tokens are whole: capacity,      *)
(* refill and costs are chosen so that no fraction of one arises.          *)
(***************************************************************************)
EXTENDS Integers

CONSTANTS
  Capacity, RefillPerSecond,        \* of the bucket
  Budget, WindowSeconds, CooldownSeconds,  \* of the breaker
  Cost,                             \* costs of a request or a call
  MaxTime, MaxInFlight, MaxCalls    \* bounds: clock, concurrent calls, all calls

ASSUME LimitConstants ==
  /\ {Capacity, RefillPerSecond, WindowSeconds} \subseteq Nat \ {0}
  /\ {Budget, CooldownSeconds, MaxTime, MaxInFlight, MaxCalls} \subseteq Nat
  /\ Cost \subseteq Nat

VARIABLES
  now,       \* the clock
  bucket,    \* the TokenBucket, or <<>> before the key's first request
  granted,   \* history: granted[t], tokens given out at time t
  breaker,   \* state and opened_at of the CostBreaker
  events,    \* events[t], the cost it has on record for time t
  inFlight,  \* calls that were allowed and have not recorded their cost
  calls      \* calls so far

limitVars == <<now, bucket, granted, breaker, events, inFlight, calls>>

Time == 0..MaxTime

LimitTypeOK ==
  /\ now \in Time
  /\ bucket \in {<<>>} \cup [tokens : 0..Capacity, updated_at : Time]
  /\ granted \in [Time -> Nat]
  /\ breaker \in [state : {"closed", "open", "half_open"}, opened_at : Time]
  /\ events \in [Time -> Nat]
  /\ inFlight \in 0..MaxInFlight
  /\ calls \in 0..MaxCalls

NoEvents == [t \in Time |-> 0]

LimitInit ==
  /\ now = 0
  /\ bucket = <<>>
  /\ granted = NoEvents
  /\ breaker = [state |-> "closed", opened_at |-> 0]
  /\ events = NoEvents
  /\ inFlight = 0
  /\ calls = 0

bucketVars == <<bucket, granted>>
breakerVars == <<breaker, events, inFlight>>

Smaller(a, b) == IF a < b THEN a ELSE b
Larger(a, b) == IF a > b THEN a ELSE b

(* The amounts of the times from s to t, added up. *)
Total(amount, s, t) ==
  LET sum[u \in Time] ==
        IF u = 0 THEN IF s <= 0 THEN amount[0] ELSE 0
        ELSE IF s <= u THEN sum[u - 1] + amount[u] ELSE sum[u - 1]
  IN  sum[t]

--------------------------------------------------------------------------------
NewBucket == [tokens |-> Capacity, updated_at |-> now]

(* Variant for the mutation checks: the time of a refusal is not kept. *)
Refilled_KeepsTime(b, t) ==
  [tokens |-> Smaller(Capacity, b.tokens + Larger(0, t - b.updated_at) * RefillPerSecond),
   updated_at |-> b.updated_at]

(* Variant for the mutation checks: the bucket overflows. *)
Refilled_Uncapped(b, t) ==
  [tokens |-> b.tokens + Larger(0, t - b.updated_at) * RefillPerSecond, updated_at |-> t]

Refilled(b, t) ==
  [tokens |-> Smaller(Capacity, b.tokens + Larger(0, t - b.updated_at) * RefillPerSecond),
   updated_at |-> t]

(* RateLimiter.allow: the request is granted if the refilled bucket has its *)
(* cost; a refused one leaves the bucket refilled.                          *)
AllowRequest(cost) ==
  /\ calls < MaxCalls
  /\ LET b == Refilled(IF bucket = <<>> THEN NewBucket ELSE bucket, now)
     IN  IF b.tokens >= cost
         THEN /\ bucket' = [b EXCEPT !.tokens = @ - cost]
              /\ granted' = [granted EXCEPT ![now] = @ + cost]
         ELSE bucket' = b /\ UNCHANGED granted
  /\ calls' = calls + 1
  /\ UNCHANGED <<now, breakerVars>>

(* Variant for the mutation checks: rounded down to whole seconds. *)
RetryAfter_Floor(cost) == Larger(0, cost - bucket.tokens) \div RefillPerSecond

(* retry_after, in whole seconds. *)
RetryAfter(cost) ==
  (Larger(0, cost - bucket.tokens) + RefillPerSecond - 1) \div RefillPerSecond

--------------------------------------------------------------------------------
(* _prune: what is older than the window is dropped. *)
Pruned(record) == [t \in Time |-> IF t >= now - WindowSeconds THEN record[t] ELSE 0]

SpendOf(record) == Total(record, 0, MaxTime)

CooledDown == now - breaker.opened_at >= CooldownSeconds

(* CostBreaker.allow: after the cooldown an open breaker is half open. *)
AllowCall ==
  /\ inFlight < MaxInFlight /\ calls < MaxCalls
  /\ breaker.state = "open" => CooledDown
  /\ breaker' = IF breaker.state = "open" THEN [breaker EXCEPT !.state = "half_open"] ELSE breaker
  /\ inFlight' = inFlight + 1
  /\ calls' = calls + 1
  /\ UNCHANGED <<now, bucketVars, events>>

(* Variant for the mutation checks: what is recorded is not looked at. *)
Tripped_BeforeRecord(record) == SpendOf(Pruned(events)) > Budget

Tripped(record) == SpendOf(record) > Budget

(* record: only a closed breaker trips. *)
RecordCost(cost) ==
  /\ inFlight > 0
  /\ inFlight' = inFlight - 1
  /\ events' = Pruned([events EXCEPT ![now] = @ + cost])
  /\ breaker' = IF breaker.state = "closed" /\ Tripped(events')
                THEN [state |-> "open", opened_at |-> now]
                ELSE breaker
  /\ UNCHANGED <<now, bucketVars, calls>>

ResetBreaker ==
  /\ breaker.state # "closed"
  /\ breaker' = [state |-> "closed", opened_at |-> 0]
  /\ events' = NoEvents
  /\ UNCHANGED <<now, bucketVars, inFlight, calls>>

Advance ==
  /\ now < MaxTime
  /\ now' = now + 1
  /\ UNCHANGED <<bucketVars, breakerVars, calls>>

LimitNext ==
  \/ \E cost \in Cost : AllowRequest(cost) \/ RecordCost(cost)
  \/ AllowCall \/ ResetBreaker
  \/ Advance

LimitSpec == LimitInit /\ [][LimitNext]_limitVars

--------------------------------------------------------------------------------
(* In no span of time is more granted than a full bucket and what flowed in *)
(* during it, whatever was refused in between.                              *)
NeverOverRate ==
  \A s, t \in Time :
    s <= t => Total(granted, s, t) <= Capacity + (t - s) * RefillPerSecond

(* Who waits for the time retry_after says is granted a request that fits   *)
(* the bucket, and not before something is missing.                         *)
RetryAfterSuffices ==
  bucket # <<>> =>
    \A cost \in 0..Capacity :
      /\ Refilled(bucket, bucket.updated_at + RetryAfter(cost)).tokens >= cost
      /\ RetryAfter(cost) > 0 => bucket.tokens < cost

(* While the breaker is closed the spend of the window is within the        *)
(* budget; what goes beyond it was in flight when it tripped, or came when  *)
(* it was half open.                                                        *)
ClosedWithinBudget == breaker.state = "closed" => SpendOf(Pruned(events)) <= Budget
================================================================================

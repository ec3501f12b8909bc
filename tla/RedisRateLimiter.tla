-------------------------- MODULE RedisRateLimiter --------------------------
(***************************************************************************)
(* RedisRateLimiter::throttle_label for one label: a counter in redis per  *)
(* period, whose name is computed from the clock in 32-bit floats.  From   *)
(* 2^30 to 2^31 seconds (2004 to 2038) a float of 24 significant bits is a *)
(* multiple of 128, and one sixtieth of it, from 2^24 on, a multiple of 2. *)
(***************************************************************************)
EXTENDS Integers

CONSTANTS
    Period,     \* seconds; every limiter of the proxy has 60
    Max,        \* max_per_period
    Start,      \* the clock when a behaviour starts, seconds since 1970
    Steps,      \* seconds from one look at the clock to the next
    Seconds     \* bound: length of a behaviour

ASSUME RedisAssumption ==
    /\ Period = 60
    /\ ({Max, Seconds} \cup Steps) \subseteq Nat \ {0}
    \* the floats have the spacing above
    /\ 2^30 <= Start /\ 60 * 2^24 <= Start /\ Start + Seconds <= 60 * 2^25

VARIABLES
    clock,      \* SystemTime, in seconds
    keys,       \* the counters in redis: [id, count, expires]
    made,       \* calls since the key of the clock changed
    minute      \* calls that were allowed in the minute of the clock

vars == <<clock, keys, made, minute>>

Nearest(a, b) ==
    LET q == a \div b IN
    IF 2 * (a % b) > b \/ (2 * (a % b) = b /\ q % 2 = 1) THEN q + 1 ELSE q

now_as_secs(t) == 128 * Nearest(t, 128)

period_id(t) == (2 * Nearest(now_as_secs(t), 2 * Period)) % Period

\* Counts above Max + 1 are not told apart.
Capped(n) == IF n > Max + 1 THEN Max + 1 ELSE n

Live(t) == {k \in keys : k.expires > t}

Count(t) ==
    IF \E k \in Live(t) : k.id = period_id(t)
    THEN (CHOOSE k \in Live(t) : k.id = period_id(t)).count
    ELSE 0

Init == clock = Start /\ keys = {} /\ made = 0 /\ minute = 0

\* Mutant: no expiration is set.
ThrottleNoExpire ==
    LET id == period_id(clock)
        new_count == Capped(Count(clock) + 1)
    IN  /\ keys' = {k \in Live(clock) : k.id # id} \cup
                   {[id |-> id, count |-> new_count, expires |-> Start + 2 * Seconds]}
        /\ made' = Capped(made + 1)
        /\ minute' = IF new_count > Max THEN minute ELSE minute + 1
        /\ UNCHANGED clock

\* INCR and EXPIRE in one transaction, also for a call that is denied.
throttle_label ==
    LET id == period_id(clock)
        new_count == Capped(Count(clock) + 1)
    IN  /\ keys' = {k \in Live(clock) : k.id # id} \cup
                   {[id |-> id, count |-> new_count, expires |-> clock + 1 + Period]}
        /\ made' = Capped(made + 1)
        /\ minute' = IF new_count > Max THEN minute ELSE minute + 1
        /\ UNCHANGED clock

Tick(d) ==
    /\ clock + d <= Start + Seconds
    /\ clock' = clock + d
    /\ keys' = {k \in keys : k.expires > clock'}
    /\ made' = IF now_as_secs(clock') = now_as_secs(clock) THEN made ELSE 0
    /\ minute' = IF clock' \div 60 = clock \div 60 THEN minute ELSE 0

Next == throttle_label \/ \E d \in Steps : Tick(d)

Spec == Init /\ [][Next]_vars

-----------------------------------------------------------------------------
\* The counter that the clock names holds only calls made since it names it.
\* Period ids come around every hour, and the key of the hour before must
\* have expired by then; this is what makes INCR start again at 1.
FreshKey == Count(clock) <= made

\* "The default maximum requests allowed in a period", where "if self.period
\* is 60, period_id will be the minute of the current time".
MaxPerMinute == minute <= Max
=============================================================================

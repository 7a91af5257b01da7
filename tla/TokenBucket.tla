----------------------------- MODULE TokenBucket -----------------------------
(***************************************************************************)
(* The per-key token bucket in front of joining a group                    *)
(* (backend/auth/group_rate_limit.py).  check() spends a token or raises   *)
(* RateLimitExceeded with a hint of when to come back.                     *)
(*                                                                         *)
(* The code keeps the level in a float, and every sum, product and ceiling *)
(* of one may round.  Here a level counts grains, a grain being more than  *)
(* the rounding of one of these ever is; a refill and a hint come out any- *)
(* where within a grain of their exact value.  Taking a token off a level  *)
(* that holds one is exact, in floats as well.                             *)
(***************************************************************************)
EXTENDS Integers

CONSTANTS
    Address,        \* the keys checked: client addresses
    Capacity,       \* capacity: tokens of a full bucket
    RefillSeconds,  \* refill_seconds: time in which an empty bucket refills
    Grains,         \* what 1 / RefillSeconds of a token is, in grains
    MaxTime,        \* bound on the clock
    WindowStart,    \* the instant from which granted checks are counted
    None            \* no bucket yet, no hint yet

Time == 0 .. MaxTime
Rate == Capacity * Grains           \* what a second refills
OneToken == RefillSeconds * Grains
Full == Capacity * OneToken

ASSUME BucketAssumption ==
    /\ Capacity \in Nat \ {0}
    /\ RefillSeconds \in Nat \ {0}
    /\ Grains \in Nat \ {0}
    /\ Rate >= 3                     \* a second is worth more than its roundings
    /\ MaxTime \in Nat
    /\ WindowStart \in Nat

VARIABLES
    now,      \* time_provider()
    bucket,   \* _buckets: level and time of the last refill
    \* History
    granted,  \* grains spent at or after WindowStart
    retryAt,  \* when the hint of the last refusal says to come back
    spurned   \* refusals in a row of one who came back no sooner than told

bucketVars == <<bucket, granted, retryAt, spurned>>

Bucket == [level : 0 .. Full, last : Time]

ASSUME NoneIsNoBucket == None \notin Bucket /\ None \notin Nat

Rounded(exact) == exact - 1 .. exact + 1

\* Mutant of Refilled: the elapsed time is added in full each time (the bucket
\* is not capped).
RefilledUncapped(b) ==
    IF now > b.last THEN Rounded(b.level + (now - b.last) * Rate) ELSE {b.level}

\* The level after the refill for the time since the last touch: its outcomes.
Refilled(b) ==
    IF now > b.last
    THEN {IF sum > Full THEN Full ELSE sum : sum \in Rounded(b.level + (now - b.last) * Rate)}
    ELSE {b.level}

\* Mutant of RetryAfter: the deficit is not turned into seconds.
RetryAfterTokens(level) == {1}

\* ceil(deficit * seconds_per_token), at least 1: its outcomes.
RetryAfter(level) ==
    {LET wait == (deficit + Rate - 1) \div Rate IN IF wait < 1 THEN 1 ELSE wait :
        deficit \in Rounded(OneToken - level)}

\* check() on an address never seen: a full bucket less the token spent.
FirstCheck(k) ==
    /\ bucket[k] = None
    /\ bucket' = [bucket EXCEPT ![k] = [level |-> Full - OneToken, last |-> now]]

\* check() that finds a token.
SpendToken(k) ==
    /\ bucket[k] # None
    /\ \E level \in Refilled(bucket[k]) :
          /\ level >= OneToken
          /\ bucket' = [bucket EXCEPT ![k] = [level |-> level - OneToken, last |-> now]]

CheckGranted(k) ==
    /\ FirstCheck(k) \/ SpendToken(k)
    /\ granted' = [granted EXCEPT ![k] = IF now >= WindowStart THEN @ + OneToken ELSE @]
    /\ retryAt' = [retryAt EXCEPT ![k] = None]
    /\ spurned' = [spurned EXCEPT ![k] = 0]

\* check() that finds none: the refill is kept, the hint raised.
CheckRefused(k) ==
    /\ bucket[k] # None
    /\ \E level \in Refilled(bucket[k]) : \E wait \in RetryAfter(level) :
          /\ level < OneToken
          /\ bucket' = [bucket EXCEPT ![k] = [level |-> level, last |-> now]]
          /\ retryAt' = [retryAt EXCEPT ![k] = now + wait]
    /\ spurned' = [spurned EXCEPT ![k] =
                      IF retryAt[k] # None /\ retryAt[k] <= now THEN @ + 1 ELSE 0]
    /\ UNCHANGED granted

\* Every bucket is gone: a new process.
BucketInit ==
    /\ bucket = [k \in Address |-> None]
    /\ granted = [k \in Address |-> 0]
    /\ retryAt = [k \in Address |-> None]
    /\ spurned = [k \in Address |-> 0]

LimiterTick ==
    /\ now < MaxTime
    /\ now' = now + 1
    /\ UNCHANGED bucketVars

LimiterInit == now = 0 /\ BucketInit

LimiterNext ==
    \/ \E k \in Address :
          /\ CheckGranted(k) \/ CheckRefused(k)
          /\ UNCHANGED now
    \/ LimiterTick

LimiterSpec == LimiterInit /\ [][LimiterNext]_<<now, bucketVars>>

-----------------------------------------------------------------------------
(* Properties *)

BucketTypeOK ==
    /\ now \in Time
    /\ bucket \in [Address -> Bucket \union {None}]
    /\ granted \in [Address -> Nat]
    /\ retryAt \in [Address -> Nat \union {None}]
    /\ spurned \in [Address -> Nat]

\* The bound the algorithm really gives: over any window, an address is granted
\* at most a full bucket plus what the window refills, each second's rounded up.
GrantBound ==
    \A k \in Address :
       now >= WindowStart => granted[k] <= Full + (now - WindowStart) * (Rate + 1)

\* A caller that waits as long as every refusal tells it to, and finds the bucket as
\* it left it, is refused once more at most: the hint may round to a whole second too
\* few (where the code's comment calls it "the time until ONE token is back"), and the
\* refusal that follows tells it to wait one more, which is enough.
RetryHonoured == \A k \in Address : spurned[k] <= 1
=============================================================================

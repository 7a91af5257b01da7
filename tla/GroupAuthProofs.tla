--------------------------- MODULE GroupAuthProofs ---------------------------
(***************************************************************************)
(* Proofs about TokenBucket and GroupAuth: their types, what an address is *)
(* granted over any window and how long it must wait, the daily cap of a   *)
(* group, and that a refused token stays refused.                          *)
(*                                                                         *)
(* The first part is about the limiter alone.  A step of GroupAuth is a    *)
(* step of the limiter, or leaves it alone, or restarts the process        *)
(* (LimiterStep), so that its invariants carry over.                       *)
(***************************************************************************)
EXTENDS GroupAuth, FiniteSetTheorems, TLAPS

USE BucketAssumption, NoneIsNoBucket

\* At most what a second refills, rounded up.
Most == Rate + 1

\* A full bucket holds at least one token.
LEMMA FullHoldsAToken ==
    /\ Full \in Nat /\ OneToken \in Nat \ {0} /\ OneToken <= Full
    /\ Rate \in Nat /\ Rate >= 3 /\ Most \in Nat /\ Most = Rate + 1
<1>1. \A c, r \in Nat \ {0} : c * r \in Nat \ {0} /\ r <= c * r
  OBVIOUS
<1>2. OneToken \in Nat \ {0} /\ Rate \in Nat \ {0}
  BY <1>1 DEF OneToken, Rate
<1> QED BY <1>1, <1>2 DEF Full, Most

\* A refill stays within the bucket; with rounding, it is worth at most the time it
\* covers and at least that time less a grain.
LEMMA RefilledBounds ==
    ASSUME now \in Time, NEW b \in Bucket, b.last <= now, NEW level \in Refilled(b)
    PROVE  /\ level \in 0 .. Full
           /\ level <= b.level + (now - b.last) * Most
           /\ level >= Full \/ level >= b.level + (now - b.last) * Rate - 1
<1>1. /\ b.level \in Nat /\ b.level <= Full
      /\ now \in Nat /\ b.last \in Nat /\ now - b.last \in Nat
  BY FullHoldsAToken DEF Time, Bucket
<1>2. CASE now > b.last
  <2> DEFINE gap == now - b.last
  <2>1. gap \in Nat \ {0} /\ gap * Rate \in Nat /\ gap * Most = gap * Rate + gap
    BY <1>1, <1>2, FullHoldsAToken
  <2>2. gap * Rate >= 3
    <3>1. \A g, r \in Nat \ {0} : g * r >= r
      OBVIOUS
    <3> QED BY <2>1, <3>1, FullHoldsAToken
  <2>3. PICK sum \in Rounded(b.level + gap * Rate) : level = IF sum > Full THEN Full ELSE sum
    BY <1>2 DEF Refilled
  <2> HIDE DEF gap
  <2>4. sum \in Int /\ sum >= b.level + gap * Rate - 1 /\ sum <= b.level + gap * Rate + 1
    BY <1>1, <2>1, <2>3 DEF Rounded
  <2> QED BY <1>1, <2>1, <2>2, <2>3, <2>4, FullHoldsAToken DEF gap
<1>3. CASE now = b.last
  <2>1. level = b.level
    BY <1>1, <1>3 DEF Refilled
  <2>2. (now - b.last) * Most = 0 /\ (now - b.last) * Rate = 0
    BY <1>1, <1>3, FullHoldsAToken
  <2> QED BY <1>1, <2>1, <2>2
<1> QED BY <1>1, <1>2, <1>3

\* No hint sends the caller back before a second has passed; and, but for a grain,
\* the hinted time refills what is missing to a token.
LEMMA RetryAfterBounds ==
    ASSUME NEW level \in Nat, NEW wait \in RetryAfter(level)
    PROVE  /\ wait \in Nat \ {0}
           /\ level + wait * Rate >= OneToken - 1
<1>1. PICK deficit \in Rounded(OneToken - level) :
          wait = LET w == (deficit + Rate - 1) \div Rate IN IF w < 1 THEN 1 ELSE w
  BY DEF RetryAfter
<1> DEFINE a == deficit + Rate - 1
           w == a \div Rate
<1>2. deficit \in Int /\ deficit >= OneToken - level - 1
  BY <1>1, FullHoldsAToken DEF Rounded
<1>3. \A n \in Int, c \in Nat \ {0} : (n \div c) \in Int /\ (n \div c) * c > n - c
  OBVIOUS
<1>4. a \in Int /\ w \in Int /\ w * Rate \in Int /\ w * Rate > a - Rate
  BY <1>2, <1>3, FullHoldsAToken
<1>5. wait = IF w < 1 THEN 1 ELSE w
  BY <1>1
<1>6. CASE w < 1
  <2>1. w * Rate <= 0
    BY <1>4, <1>6, FullHoldsAToken
  <2>2. wait = 1 /\ wait * Rate = Rate
    BY <1>5, <1>6, FullHoldsAToken
  <2> HIDE DEF w
  <2> QED BY <1>2, <1>4, <2>1, <2>2, FullHoldsAToken
<1>7. CASE ~(w < 1)
  <2> HIDE DEF w
  <2> QED BY <1>2, <1>4, <1>5, <1>7, FullHoldsAToken
<1> QED BY <1>6, <1>7

\* Buckets were last touched in the past.
TouchedBefore == \A k \in Address : bucket[k] # None => bucket[k].last <= now

\* What was granted since the start of the window and what is left in the
\* bucket fit together under a full bucket and the window's refill.
Account(k) ==
    /\ bucket[k] = None => granted[k] = 0
    /\ bucket[k] # None =>
         IF bucket[k].last < WindowStart
         THEN granted[k] = 0
         ELSE granted[k] + bucket[k].level
                 <= Full + (bucket[k].last - WindowStart) * Most

GrantInv == BucketTypeOK /\ TouchedBefore /\ \A k \in Address : Account(k)

\* What a granted check does to the address's bucket.
LEMMA GrantEffect ==
    ASSUME BucketTypeOK, TouchedBefore, NEW k \in Address, CheckGranted(k)
    PROVE  \E b \in Bucket :
              /\ bucket' = [bucket EXCEPT ![k] = b]
              /\ b.last = now
              /\ b.level <= Full - OneToken
              /\ bucket[k] # None =>
                    b.level + OneToken
                       <= bucket[k].level + (now - bucket[k].last) * Most
<1>1. CASE FirstCheck(k)
  <2> DEFINE b == [level |-> Full - OneToken, last |-> now]
  <2>1. b \in Bucket /\ b.last = now /\ b.level <= Full - OneToken
    BY FullHoldsAToken DEF Bucket, BucketTypeOK
  <2>2. bucket[k] = None /\ bucket' = [bucket EXCEPT ![k] = b]
    BY <1>1 DEF FirstCheck
  <2> HIDE DEF b
  <2> QED BY <2>1, <2>2
<1>2. CASE SpendToken(k)
  <2>1. bucket[k] \in Bucket /\ bucket[k].last <= now
    BY <1>2 DEF SpendToken, BucketTypeOK, TouchedBefore
  <2>2. PICK level \in Refilled(bucket[k]) :
           /\ level >= OneToken
           /\ bucket' = [bucket EXCEPT ![k] = [level |-> level - OneToken, last |-> now]]
    BY <1>2 DEF SpendToken
  <2>3. /\ level \in 0 .. Full
        /\ level <= bucket[k].level + (now - bucket[k].last) * Most
    BY <2>1, RefilledBounds DEF BucketTypeOK
  <2> DEFINE b == [level |-> level - OneToken, last |-> now]
  <2>4. b \in Bucket /\ b.level <= Full - OneToken
    BY <2>2, <2>3, FullHoldsAToken DEF Bucket, BucketTypeOK
  <2>5. b.level + OneToken <= bucket[k].level + (now - bucket[k].last) * Most
    BY <2>3, FullHoldsAToken
  <2> QED BY <2>2, <2>4, <2>5
<1> QED BY <1>1, <1>2 DEF CheckGranted

\* What a refused check does to it, and which hint it gives.
LEMMA RefuseEffect ==
    ASSUME BucketTypeOK, TouchedBefore, NEW k \in Address, CheckRefused(k)
    PROVE  /\ bucket[k] # None
           /\ \E b \in Bucket, wait \in Nat \ {0} :
                 /\ bucket' = [bucket EXCEPT ![k] = b]
                 /\ b.last = now
                 /\ b.level < OneToken
                 /\ b.level <= bucket[k].level + (now - bucket[k].last) * Most
                 /\ b.level >= bucket[k].level + (now - bucket[k].last) * Rate - 1
                 /\ retryAt' = [retryAt EXCEPT ![k] = now + wait]
                 /\ b.level + wait * Rate >= OneToken - 1
           /\ spurned' = [spurned EXCEPT ![k] =
                            IF retryAt[k] # None /\ retryAt[k] <= now THEN @ + 1 ELSE 0]
           /\ granted' = granted
<1>1. bucket[k] \in Bucket /\ bucket[k] # None /\ bucket[k].last <= now
  BY DEF CheckRefused, BucketTypeOK, TouchedBefore
<1>a. PICK level \in Refilled(bucket[k]) : \E wait \in RetryAfter(level) :
          /\ level < OneToken
          /\ bucket' = [bucket EXCEPT ![k] = [level |-> level, last |-> now]]
          /\ retryAt' = [retryAt EXCEPT ![k] = now + wait]
  BY DEF CheckRefused
<1>2. PICK wait \in RetryAfter(level) :
          /\ level < OneToken
          /\ bucket' = [bucket EXCEPT ![k] = [level |-> level, last |-> now]]
          /\ retryAt' = [retryAt EXCEPT ![k] = now + wait]
  BY <1>a
<1>3. /\ level \in 0 .. Full
      /\ level <= bucket[k].level + (now - bucket[k].last) * Most
      /\ level >= Full \/ level >= bucket[k].level + (now - bucket[k].last) * Rate - 1
  BY <1>1, RefilledBounds DEF BucketTypeOK
<1>4. level \in Nat /\ ~(level >= Full)
  BY <1>2, <1>3, FullHoldsAToken
<1>5. wait \in Nat \ {0} /\ level + wait * Rate >= OneToken - 1
  BY <1>4, RetryAfterBounds
<1> DEFINE b == [level |-> level, last |-> now]
<1>6. b \in Bucket /\ b.last = now /\ b.level = level
  BY <1>3 DEF Bucket, BucketTypeOK
<1>7. bucket' = [bucket EXCEPT ![k] = b]
  BY <1>2
<1>8. /\ spurned' = [spurned EXCEPT ![k] =
                            IF retryAt[k] # None /\ retryAt[k] <= now THEN @ + 1 ELSE 0]
      /\ granted' = granted
  BY DEF CheckRefused
<1> HIDE DEF b
<1> QED BY <1>1, <1>2, <1>3, <1>4, <1>5, <1>6, <1>7, <1>8

LEMMA GrantInvInductive == GrantInv /\ [LimiterNext]_<<now, bucketVars>> => GrantInv'
<1> SUFFICES ASSUME GrantInv, [LimiterNext]_<<now, bucketVars>> PROVE GrantInv'
  OBVIOUS
<1>0. /\ BucketTypeOK /\ TouchedBefore
      /\ now \in Nat /\ granted \in [Address -> Nat]
      /\ bucket \in [Address -> Bucket \union {None}]
      /\ \A b \in Bucket : b.level \in Nat /\ b.last \in Nat
      /\ Full \in Nat /\ OneToken \in Nat \ {0} /\ OneToken <= Full /\ Most \in Nat
      /\ retryAt \in [Address -> Nat \union {None}] /\ spurned \in [Address -> Nat]
  BY FullHoldsAToken DEF GrantInv, BucketTypeOK, Time, Bucket
<1>1. ASSUME NEW k \in Address, CheckGranted(k), UNCHANGED now PROVE GrantInv'
  <2>1. PICK b \in Bucket :
              /\ bucket' = [bucket EXCEPT ![k] = b]
              /\ b.last = now
              /\ b.level <= Full - OneToken
              /\ bucket[k] # None =>
                    b.level + OneToken
                       <= bucket[k].level + (now - bucket[k].last) * Most
    BY <1>0, <1>1, GrantEffect
  <2>2. /\ granted' = [granted EXCEPT ![k] =
                          IF now >= WindowStart THEN @ + OneToken ELSE @]
        /\ retryAt' = [retryAt EXCEPT ![k] = None]
        /\ spurned' = [spurned EXCEPT ![k] = 0]
    BY <1>1 DEF CheckGranted
  <2>3. BucketTypeOK'
    BY <1>0, <1>1, <2>1, <2>2 DEF BucketTypeOK
  <2>4. TouchedBefore'
    BY <1>0, <1>1, <2>1 DEF TouchedBefore
  <2>5. \A j \in Address \ {k} : Account(j)'
    BY <1>0, <2>1, <2>2 DEF GrantInv, Account
  <2>6. bucket'[k] = b /\ b # None
    BY <1>0, <2>1
  <2>7. CASE now < WindowStart
    <3>1. granted[k] = 0
      BY <1>0, <2>7 DEF GrantInv, Account, TouchedBefore
    <3> QED BY <1>0, <2>1, <2>2, <2>3, <2>4, <2>5, <2>6, <2>7, <3>1 DEF GrantInv, Account
  <2>8. CASE now >= WindowStart
    <3>1. granted'[k] = granted[k] + OneToken
      BY <1>0, <2>2, <2>8
    <3>2. granted[k] + OneToken + b.level <= Full + (now - WindowStart) * Most
      <4>1. (now - WindowStart) * Most \in Nat
        BY <1>0, <2>8
      <4>2. CASE granted[k] = 0
        BY <1>0, <2>1, <4>1, <4>2
      <4>3. CASE granted[k] # 0
        <5> DEFINE o == bucket[k]
        <5>1. /\ o # None /\ o \in Bucket /\ o.last >= WindowStart /\ o.last <= now
              /\ granted[k] + o.level <= Full + (o.last - WindowStart) * Most
          BY <1>0, <4>3 DEF GrantInv, Account, TouchedBefore
        <5>2. b.level + OneToken <= o.level + (now - o.last) * Most
          BY <2>1, <5>1
        <5>3. (o.last - WindowStart) * Most + (now - o.last) * Most
                 = (now - WindowStart) * Most
          BY <1>0, <5>1
        <5>4. /\ (o.last - WindowStart) * Most \in Int
              /\ (now - o.last) * Most \in Int
          BY <1>0, <5>1
        <5> HIDE DEF o
        <5> QED BY <1>0, <4>1, <5>1, <5>2, <5>3, <5>4
      <4> QED BY <4>2, <4>3
    <3>3. Account(k)'
      BY <1>0, <1>1, <2>1, <2>6, <2>8, <3>1, <3>2 DEF Account
    <3> QED BY <2>3, <2>4, <2>5, <3>3 DEF GrantInv
  <2> QED BY <1>0, <2>7, <2>8
<1>2. ASSUME NEW k \in Address, CheckRefused(k), UNCHANGED now PROVE GrantInv'
  <2>1. /\ bucket[k] # None
        /\ granted' = granted
        /\ spurned' = [spurned EXCEPT ![k] =
                         IF retryAt[k] # None /\ retryAt[k] <= now THEN @ + 1 ELSE 0]
    BY <1>0, <1>2, RefuseEffect
  <2>2. PICK b \in Bucket, wait \in Nat \ {0} :
                 /\ bucket' = [bucket EXCEPT ![k] = b]
                 /\ b.last = now
                 /\ b.level <= bucket[k].level + (now - bucket[k].last) * Most
                 /\ retryAt' = [retryAt EXCEPT ![k] = now + wait]
    BY <1>0, <1>2, RefuseEffect
  <2>3. BucketTypeOK' /\ TouchedBefore'
    <3>1. retryAt' \in [Address -> Nat \union {None}] /\ spurned' \in [Address -> Nat]
      BY <1>0, <2>1, <2>2
    <3> QED BY <1>0, <1>2, <2>1, <2>2, <3>1 DEF BucketTypeOK, TouchedBefore
  <2>4. \A j \in Address \ {k} : Account(j)'
    BY <1>0, <2>1, <2>2 DEF GrantInv, Account
  <2>5. Account(k)'
    <3> DEFINE o == bucket[k]
    <3>1. o \in Bucket /\ o.last <= now /\ Account(k)
      BY <1>0, <2>1 DEF GrantInv, TouchedBefore
    <3>2. bucket'[k] = b /\ b # None /\ granted'[k] = granted[k]
      BY <1>0, <2>1, <2>2
    <3>3. CASE o.last < WindowStart /\ now < WindowStart
      BY <1>0, <2>1, <2>2, <3>1, <3>2, <3>3 DEF Account
    <3>4. CASE o.last < WindowStart /\ now >= WindowStart
      <4>1. granted[k] = 0 /\ b.level <= Full
        BY <2>1, <3>1, <3>4 DEF Account, Bucket
      <4>2. (now - WindowStart) * Most \in Nat
        BY <1>0, <3>4
      <4> QED BY <1>0, <2>2, <3>2, <3>4, <4>1, <4>2 DEF Account
    <3>5. CASE o.last >= WindowStart
      <4>1. granted[k] + o.level <= Full + (o.last - WindowStart) * Most
        BY <1>0, <2>1, <3>1, <3>5 DEF Account
      <4>2. (o.last - WindowStart) * Most + (now - o.last) * Most
               = (now - WindowStart) * Most
        BY <1>0, <3>1
      <4>3. /\ (o.last - WindowStart) * Most \in Int
            /\ (now - o.last) * Most \in Int
            /\ (now - WindowStart) * Most \in Int
        BY <1>0, <3>1
      <4>4. granted[k] + b.level <= Full + (now - WindowStart) * Most
        BY <1>0, <2>2, <3>1, <4>1, <4>2, <4>3
      <4> QED BY <1>0, <2>2, <3>1, <3>2, <3>5, <4>4 DEF Account
    <3> QED BY <1>0, <3>1, <3>3, <3>4, <3>5
  <2> QED BY <2>3, <2>4, <2>5 DEF GrantInv
<1>3. CASE LimiterTick
  <2>1. BucketTypeOK'
    BY <1>0, <1>3 DEF LimiterTick, bucketVars, BucketTypeOK, Time
  <2>2. TouchedBefore'
    BY <1>0, <1>3 DEF LimiterTick, bucketVars, TouchedBefore
  <2> QED BY <1>3, <2>1, <2>2 DEF LimiterTick, bucketVars, GrantInv, Account
<1>4. CASE UNCHANGED <<now, bucketVars>>
  BY <1>4 DEF bucketVars, GrantInv, BucketTypeOK, TouchedBefore, Account
<1> QED BY <1>1, <1>2, <1>3, <1>4 DEF LimiterNext

LEMMA GrantInvInit == LimiterInit => GrantInv
BY DEF LimiterInit, BucketInit, GrantInv, BucketTypeOK, TouchedBefore, Account, Time

\* Every variable keeps its type.
THEOREM TypeCorrect == LimiterSpec => []BucketTypeOK
BY GrantInvInit, GrantInvInductive, PTL DEF LimiterSpec, GrantInv

\* The invariant bounds what was granted.
LEMMA GrantInvBounds == GrantInv => GrantBound
<1> SUFFICES ASSUME GrantInv, NEW k \in Address, now >= WindowStart
             PROVE  granted[k] <= Full + (now - WindowStart) * Most
  BY DEF GrantBound, Most
<1>1. now \in Nat /\ granted[k] \in Nat /\ Full \in Nat /\ Most \in Nat
  BY FullHoldsAToken DEF GrantInv, BucketTypeOK, Time
<1>2. (now - WindowStart) * Most \in Nat
  BY <1>1
<1>3. CASE granted[k] = 0
  BY <1>1, <1>2, <1>3
<1>4. CASE granted[k] # 0
  <2> DEFINE o == bucket[k]
  <2>1. /\ o \in Bucket /\ o.last \in Nat /\ o.level \in Nat
        /\ o.last >= WindowStart /\ o.last <= now
        /\ granted[k] + o.level <= Full + (o.last - WindowStart) * Most
    BY <1>4 DEF GrantInv, Account, BucketTypeOK, TouchedBefore, Bucket, Time
  <2>2. \A m, n, c \in Nat : m <= n => m * c <= n * c
    OBVIOUS
  <2>3. (o.last - WindowStart) * Most <= (now - WindowStart) * Most
    BY <1>1, <2>1, <2>2
  <2> HIDE DEF o
  <2> QED BY <1>1, <1>2, <2>1, <2>3
<1> QED BY <1>3, <1>4

\* Over any window of time, an address is granted at most a full bucket plus
\* what the bucket refills in that window, each second's refill rounded up.
THEOREM GrantTheorem == LimiterSpec => []GrantBound
BY GrantInvBounds, GrantInvInit, GrantInvInductive, PTL DEF LimiterSpec

-----------------------------------------------------------------------------
(* The hint.                                                               *)

\* A hint that is out is for an address with a bucket nobody touched since.  When it
\* ends the bucket holds a token but for a grain; after a refusal of one who had waited,
\* a grain more than a token.
Hinted(k) ==
    /\ spurned[k] <= 1
    /\ retryAt[k] = None => spurned[k] = 0
    /\ retryAt[k] # None =>
         /\ bucket[k] # None /\ bucket[k].last < retryAt[k]
         /\ bucket[k].level + (retryAt[k] - bucket[k].last) * Rate
               >= OneToken - 1 + 2 * spurned[k]

HintInv == GrantInv /\ \A k \in Address : Hinted(k)

\* A refusal of one who waited as told is the first, and leaves a token but for two
\* grains: less than a second is missing.
LEMMA RefusedAfterWait ==
    ASSUME HintInv, NEW k \in Address, retryAt[k] # None, retryAt[k] <= now,
           NEW level \in Nat, level < OneToken,
           level >= bucket[k].level + (now - bucket[k].last) * Rate - 1
    PROVE  spurned[k] = 0 /\ level >= OneToken - 2
<1> DEFINE b == bucket[k]  r == retryAt[k]
<1>1. /\ b \in Bucket /\ r \in Nat /\ now \in Nat /\ spurned[k] \in Nat
      /\ b.last < r /\ r <= now /\ spurned[k] <= 1
      /\ b.level + (r - b.last) * Rate >= OneToken - 1 + 2 * spurned[k]
  BY DEF HintInv, Hinted, GrantInv, BucketTypeOK, Time
<1>2. b.last \in Nat /\ b.level \in Nat
  BY <1>1, FullHoldsAToken DEF Bucket, Time
<1>3. level >= b.level + (now - b.last) * Rate - 1
  OBVIOUS
<1> HIDE DEF b, r
<1>4. (r - b.last) * Rate <= (now - b.last) * Rate
  <2>1. \A m, n, c \in Nat : m <= n => m * c <= n * c
    OBVIOUS
  <2>2. r - b.last \in Nat /\ now - b.last \in Nat /\ r - b.last <= now - b.last
    BY <1>1, <1>2
  <2> QED BY <2>1, <2>2, FullHoldsAToken
<1>5. (r - b.last) * Rate \in Int /\ (now - b.last) * Rate \in Int
  BY <1>1, <1>2, FullHoldsAToken
<1> QED BY <1>1, <1>2, <1>3, <1>4, <1>5, FullHoldsAToken

LEMMA HintInvInductive == HintInv /\ [LimiterNext]_<<now, bucketVars>> => HintInv'
<1> SUFFICES ASSUME HintInv, [LimiterNext]_<<now, bucketVars>> PROVE HintInv'
  OBVIOUS
<1>0. /\ GrantInv /\ BucketTypeOK /\ TouchedBefore /\ GrantInv'
      /\ now \in Nat
      /\ bucket \in [Address -> Bucket \union {None}]
      /\ retryAt \in [Address -> Nat \union {None}]
      /\ spurned \in [Address -> Nat]
  BY GrantInvInductive DEF HintInv, GrantInv, BucketTypeOK, Time
<1>1. ASSUME NEW k \in Address, CheckGranted(k), UNCHANGED now PROVE \A j \in Address : Hinted(j)'
  <2>1. /\ retryAt' = [retryAt EXCEPT ![k] = None]
        /\ spurned' = [spurned EXCEPT ![k] = 0]
        /\ \E b : bucket' = [bucket EXCEPT ![k] = b]
    BY <1>1 DEF CheckGranted, FirstCheck, SpendToken
  <2> QED BY <1>0, <2>1 DEF HintInv, Hinted
<1>2. ASSUME NEW k \in Address, CheckRefused(k), UNCHANGED now PROVE \A j \in Address : Hinted(j)'
  <2>1. PICK b \in Bucket, wait \in Nat \ {0} :
                 /\ bucket' = [bucket EXCEPT ![k] = b]
                 /\ b.last = now
                 /\ b.level < OneToken
                 /\ b.level >= bucket[k].level + (now - bucket[k].last) * Rate - 1
                 /\ retryAt' = [retryAt EXCEPT ![k] = now + wait]
                 /\ b.level + wait * Rate >= OneToken - 1
    BY <1>0, <1>2, RefuseEffect
  <2>2. spurned' = [spurned EXCEPT ![k] =
                      IF retryAt[k] # None /\ retryAt[k] <= now THEN @ + 1 ELSE 0]
    BY <1>0, <1>2, RefuseEffect
  <2>3. \A j \in Address \ {k} : Hinted(j)'
    BY <1>0, <2>1, <2>2 DEF HintInv, Hinted
  <2>4. /\ bucket'[k] = b /\ b # None /\ retryAt'[k] = now + wait
        /\ retryAt'[k] # None /\ now < now + wait /\ (now + wait) - now = wait
        /\ b.level \in Nat /\ wait * Rate \in Nat /\ wait * Rate >= Rate
    <3>1. \A g, r \in Nat \ {0} : g * r \in Nat /\ g * r >= r
      OBVIOUS
    <3> QED BY <1>0, <2>1, <3>1, FullHoldsAToken, NoneIsNoBucket DEF Bucket
  <2>5. CASE retryAt[k] # None /\ retryAt[k] <= now
    <3>1. spurned[k] = 0 /\ b.level >= OneToken - 2
      BY <2>1, <2>4, <2>5, RefusedAfterWait
    <3>2. spurned'[k] = 1
      BY <1>0, <2>2, <2>5, <3>1
    <3>3. b.level + wait * Rate >= OneToken + 1
      BY <2>4, <3>1, FullHoldsAToken
    <3> QED BY <2>1, <2>3, <2>4, <3>2, <3>3, FullHoldsAToken DEF Hinted
  <2>6. CASE ~(retryAt[k] # None /\ retryAt[k] <= now)
    <3>1. spurned'[k] = 0
      BY <1>0, <2>2, <2>6
    <3> QED BY <2>1, <2>3, <2>4, <3>1, FullHoldsAToken DEF Hinted
  <2> QED BY <2>5, <2>6
<1>3. CASE LimiterTick \/ UNCHANGED <<now, bucketVars>>
  BY <1>0, <1>3 DEF LimiterTick, bucketVars, HintInv, Hinted
<1> QED BY <1>0, <1>1, <1>2, <1>3 DEF LimiterNext, HintInv

LEMMA HintInvInit == LimiterInit => HintInv
BY GrantInvInit DEF HintInv, Hinted, LimiterInit, BucketInit

-----------------------------------------------------------------------------
(* Groups.                                                                 *)

\* What a step of GroupAuth does to the limiter: a step of its own, or a restart.
LEMMA LimiterStep == [Next]_vars => [LimiterNext]_<<now, bucketVars>> \/ Restart
BY DEF Next, vars, Create, Delete, JoinLimited, JoinRefused, JoinGranted, Tick, LimiterNext,
       LimiterTick

LEMMA LimiterInvariant ==
    /\ Init => HintInv
    /\ HintInv /\ [Next]_vars => HintInv'
<1>1. Init => HintInv
  BY HintInvInit DEF Init, LimiterInit
<1>2. ASSUME HintInv, Restart PROVE HintInv'
  BY <1>2 DEF Restart, HintInv, Hinted, GrantInv, BucketTypeOK, TouchedBefore, Account
<1> QED BY <1>1, <1>2, LimiterStep, HintInvInductive

\* An address is granted at most a full bucket plus the refill over any window between
\* two restarts, whatever else the service does.
THEOREM GroupGrantTheorem == Spec => []GrantBound
<1>1. HintInv => GrantBound
  BY GrantInvBounds DEF HintInv
<1> QED BY <1>1, LimiterInvariant, PTL DEF Spec

\* A student who waits as long as each refusal says is refused by the limiter at most
\* once more, however its sums round, and whatever else the service does.
THEOREM RetryTheorem == Spec => []RetryHonoured
<1>1. HintInv => RetryHonoured
  BY DEF HintInv, Hinted, RetryHonoured
<1> QED BY <1>1, LimiterInvariant, PTL DEF Spec

\* The records, the counters and the tokens; a token's uid is its number.
MintedInv ==
    /\ groups \in [Code -> Group \union {None}]
    /\ revoked \subseteq Code
    /\ sessions \in [Code \X Day -> Nat]
    /\ used \subseteq Code
    /\ tokens \subseteq Token
    /\ IsFiniteSet(tokens)
    /\ \A t \in tokens : t.uid <= Cardinality(tokens)

LEMMA MintedInvInductive ==
    BucketTypeOK /\ MintedInv /\ [Next]_vars => MintedInv'
<1> SUFFICES ASSUME BucketTypeOK, MintedInv, [Next]_vars PROVE MintedInv'
  OBVIOUS
<1>0. now \in Nat /\ now \in Time /\ Cardinality(tokens) \in Nat
  BY FS_CardinalityType DEF BucketTypeOK, Time, MintedInv
<1>1. ASSUME NEW u \in Teacher, NEW ttl \in Ttl, NEW cap \in SessionCap, Create(u, ttl, cap)
      PROVE  MintedInv'
  <2>1. [creator |-> u, expires |-> now + ttl, cap |-> cap] \in Group
    BY <1>0, GroupAssumption DEF Group
  <2> QED BY <1>1, <2>1 DEF Create, MintedInv
<1>2. ASSUME NEW c \in Code, NEW u \in Teacher, Delete(c, u) PROVE MintedInv'
  BY <1>2 DEF Delete, MintedInv
<1>3. ASSUME NEW ip \in Address, JoinLimited(ip) PROVE MintedInv'
  BY <1>3 DEF JoinLimited, MintedInv
<1>4. ASSUME NEW ip \in Address, NEW c \in Code, JoinRefused(ip, c) PROVE MintedInv'
  BY <1>4 DEF JoinRefused, MintedInv
<1>5. ASSUME NEW ip \in Address, NEW c \in Code, JoinGranted(ip, c) PROVE MintedInv'
  <2> DEFINE n == Cardinality(tokens) + 1
             t == [uid |-> n, group |-> c, exp |-> now + TokenLifetime,
                   day |-> DayOf[now], cap |-> groups[c].cap]
  <2>1. groups[c] \in Group /\ DayOf[now] \in Day /\ <<c, DayOf[now]>> \in Code \X Day
    BY <1>0, <1>5, GroupAssumption DEF JoinGranted, Joinable, MintedInv
  <2>2. n \in 1 .. MaxTokens
    BY <1>0, <1>5, GroupAssumption DEF JoinGranted
  <2>3. t \in Token
    BY <1>0, <2>1, <2>2, GroupAssumption DEF Token, Group
  <2>4. tokens' = tokens \union {t}
    BY <1>5 DEF JoinGranted
  <2>5. t.uid = n
    OBVIOUS
  <2> HIDE DEF t
  <2>6. t \notin tokens
    BY <1>0, <2>5 DEF MintedInv
  <2>7. IsFiniteSet(tokens') /\ Cardinality(tokens') = n
    BY <2>4, <2>6, FS_AddElement DEF MintedInv
  <2>8. \A s \in tokens' : s.uid <= Cardinality(tokens')
    <3>1. \A s \in tokens : s.uid \in Nat /\ s.uid <= Cardinality(tokens)
      BY DEF MintedInv, Token
    <3> QED BY <1>0, <2>4, <2>5, <2>7, <3>1
  <2>9. sessions' \in [Code \X Day -> Nat]
    BY <1>5, <2>1 DEF JoinGranted, MintedInv
  <2> QED BY <1>5, <2>3, <2>4, <2>7, <2>8, <2>9 DEF JoinGranted, MintedInv
<1>6. CASE Tick
  BY <1>6 DEF Tick, MintedInv
<1>7. CASE Restart
  BY <1>7 DEF Restart, MintedInv
<1>8. CASE UNCHANGED vars
  BY <1>8 DEF vars, MintedInv
<1> QED BY <1>1, <1>2, <1>3, <1>4, <1>5, <1>6, <1>7, <1>8 DEF Next

LEMMA MintedInvInit == Init => MintedInv
BY FS_EmptySet DEF Init, MintedInv

LEMMA GroupTypes ==
    /\ Init => BucketTypeOK /\ MintedInv
    /\ HintInv /\ MintedInv => TypeOK
    /\ HintInv => BucketTypeOK
<1>1. HintInv => BucketTypeOK
  BY DEF HintInv, GrantInv
<1> QED BY <1>1, LimiterInvariant, MintedInvInit DEF TypeOK, MintedInv

\* Every variable keeps its type.
THEOREM GroupTypeCorrect == Spec => []TypeOK
BY GroupTypes, LimiterInvariant, MintedInvInit, MintedInvInductive, PTL DEF Spec

-----------------------------------------------------------------------------
(* The daily cap.                                                          *)

Minted(c, d) == {t \in tokens : t.group = c /\ t.day = d}

\* The counter of a group that is there is at least what was minted for it, for a code is drawn
\* once; and while the group is there its tokens agree on the cap.
CapInv ==
    /\ \A c \in Code : groups[c] # None =>
          /\ c \in used
          /\ \A d \in Day : Cardinality(Minted(c, d)) <= sessions[<<c, d>>]
          /\ \A t \in tokens : t.group = c => t.cap = groups[c].cap
    /\ \A t \in tokens : t.group \in used
    /\ DailyCap

LEMMA DailyCapStates ==
    DailyCap <=> \A t \in tokens : Cardinality(Minted(t.group, t.day)) <= t.cap
BY DEF DailyCap, Minted

LEMMA CapInvInductive ==
    BucketTypeOK /\ MintedInv /\ CapInv /\ [Next]_vars => CapInv'
<1> SUFFICES ASSUME BucketTypeOK, MintedInv, CapInv, [Next]_vars PROVE CapInv'
  OBVIOUS
<1> USE DEF CapInv
<1>0. now \in Nat /\ now \in Time
  BY DEF BucketTypeOK, Time
<1>1. ASSUME NEW u \in Teacher, NEW ttl \in Ttl, NEW cap \in SessionCap, Create(u, ttl, cap)
      PROVE  CapInv'
  <2>1. PICK c \in Code \ used :
           /\ groups' = [groups EXCEPT ![c] = [creator |-> u, expires |-> now + ttl, cap |-> cap]]
           /\ used' = used \union {c}
           /\ UNCHANGED <<now, bucketVars, revoked, sessions, tokens>>
    BY <1>1 DEF Create
  <2>2. \A b, d : Minted(b, d)' = Minted(b, d)
    BY <2>1 DEF Minted
  <2>3. \A d \in Day : Cardinality(Minted(c, d)) = 0
    <3>1. \A d : Minted(c, d) = {}
      BY <2>1 DEF Minted
    <3> QED BY <3>1, FS_EmptySet
  <2>4. \A d \in Day : Cardinality(Minted(c, d)) <= sessions[<<c, d>>]
    <3>1. \A d \in Day : sessions[<<c, d>>] \in Nat
      BY DEF MintedInv
    <3> QED BY <2>3, <3>1
  <2>5. DailyCap'
    BY <2>1 DEF DailyCap
  <2>6. ASSUME NEW b \in Code, groups'[b] # None
        PROVE  /\ b \in used'
               /\ \A d \in Day : Cardinality(Minted(b, d))' <= sessions'[<<b, d>>]
               /\ \A t \in tokens' : t.group = b => t.cap = groups'[b].cap
    <3>1. CASE b = c
      BY <2>1, <2>2, <2>4, <3>1
    <3>2. CASE b # c
      <4>1. groups'[b] = groups[b]
        BY <2>1, <3>2 DEF MintedInv
      <4> QED BY <2>1, <2>2, <2>6, <4>1
    <3> QED BY <3>1, <3>2
  <2> QED BY <2>1, <2>5, <2>6
<1>2. ASSUME UNCHANGED <<sessions, tokens, used>>,
             \A c \in Code : groups'[c] # None => groups'[c] = groups[c]
      PROVE  CapInv'
  <2>1. \A b, d : Minted(b, d)' = Minted(b, d)
    BY <1>2 DEF Minted
  <2>2. DailyCap'
    BY <1>2 DEF DailyCap
  <2> QED BY <1>2, <2>1, <2>2
<1>3. ASSUME NEW ip \in Address, NEW c \in Code, JoinGranted(ip, c) PROVE CapInv'
  <2>0. PICK day \in Day : day = DayOf[now]
    BY <1>0, GroupAssumption
  <2> DEFINE n == Cardinality(tokens) + 1
             t == [uid |-> n, group |-> c, exp |-> now + TokenLifetime,
                   day |-> day, cap |-> groups[c].cap]
  <2>1. /\ groups[c] # None /\ groups[c] \in Group /\ day \in Day
        /\ sessions[<<c, day>>] \in Nat /\ groups[c].cap \in Nat
        /\ sessions[<<c, day>>] < groups[c].cap
    BY <1>0, <1>3, <2>0, GroupAssumption DEF JoinGranted, Joinable, HasRoom, MintedInv, Group
  <2>2. /\ tokens' = tokens \union {t}
        /\ sessions' = [sessions EXCEPT ![<<c, day>>] = @ + 1]
        /\ groups' = groups /\ used' = used
    BY <1>3, <2>0 DEF JoinGranted
  <2>3. t.group = c /\ t.day = day /\ t.cap = groups[c].cap
    OBVIOUS
  <2> HIDE DEF t
  <2>4. \A b, d : b # c \/ d # day => Minted(b, d)' = Minted(b, d)
    BY <2>2, <2>3 DEF Minted
  <2>5. Minted(c, day)' = Minted(c, day) \union {t}
    BY <2>2, <2>3 DEF Minted
  <2>6. IsFiniteSet(Minted(c, day)) /\ Cardinality(Minted(c, day)) \in Nat
    <3>1. Minted(c, day) \in SUBSET tokens
      BY DEF Minted
    <3> QED BY <3>1, FS_Subset, FS_CardinalityType DEF MintedInv
  <2>7. /\ Cardinality(Minted(c, day)') <= Cardinality(Minted(c, day)) + 1
        /\ Cardinality(Minted(c, day)') \in Nat
    <3> DEFINE M == Minted(c, day)
    <3>1. Cardinality(M \union {t}) = IF t \in M THEN Cardinality(M) ELSE Cardinality(M) + 1
      BY <2>6, FS_AddElement
    <3>2. Cardinality(M) \in Nat
      BY <2>6
    <3> HIDE DEF M
    <3>3. /\ Cardinality(M \union {t}) <= Cardinality(M) + 1
          /\ Cardinality(M \union {t}) \in Nat
      BY <3>1, <3>2
    <3> QED BY <2>5, <3>3 DEF M
  <2>8. /\ Cardinality(Minted(c, day)') <= sessions[<<c, day>>] + 1
        /\ sessions[<<c, day>>] + 1 <= groups[c].cap
        /\ Cardinality(Minted(c, day)') <= groups[c].cap
    <3>1. Cardinality(Minted(c, day)) <= sessions[<<c, day>>]
      BY <2>1
    <3> QED BY <2>1, <2>6, <2>7, <3>1
  <2>9. sessions'[<<c, day>>] = sessions[<<c, day>>] + 1
    BY <2>1, <2>2 DEF MintedInv
  <2>10. \A b \in Code, d \in Day : b # c \/ d # day => sessions'[<<b, d>>] = sessions[<<b, d>>]
    BY <2>2 DEF MintedInv
  <2>11. ASSUME NEW b \in Code, groups'[b] # None, NEW d \in Day
         PROVE  Cardinality(Minted(b, d)') <= sessions'[<<b, d>>]
    BY <2>2, <2>4, <2>8, <2>9, <2>10, <2>11
  <2>12. \A s \in tokens' : s.group = c => s.cap = groups[c].cap
    BY <2>1, <2>2, <2>3
  <2>13. ASSUME NEW s \in tokens' PROVE Cardinality(Minted(s.group, s.day)') <= s.cap
    <3>1. CASE s.group = c /\ s.day = day
      BY <2>8, <2>12, <3>1
    <3>2. CASE ~(s.group = c /\ s.day = day)
      BY <2>2, <2>3, <2>4, <3>2, DailyCapStates
    <3> QED BY <3>1, <3>2
  <2>14. DailyCap'
    BY <2>13 DEF DailyCap, Minted
  <2>15. \A b \in Code : groups'[b] # None => \A s \in tokens' : s.group = b => s.cap = groups'[b].cap
    BY <2>2, <2>3, <2>12
  <2>16. \A s \in tokens' : s.group \in used'
    BY <2>1, <2>2, <2>3
  <2> QED BY <2>2, <2>11, <2>14, <2>15, <2>16
<1>4. CASE Restart
  <2>1. \A c \in Code : groups'[c] = None
    BY <1>4 DEF Restart
  <2> QED BY <1>4, <2>1 DEF Restart, DailyCap
<1>5. ASSUME NEW c \in Code, NEW u \in Teacher, Delete(c, u) PROVE CapInv'
  BY <1>2, <1>5 DEF Delete, MintedInv
<1>6. ASSUME NEW ip \in Address, NEW c \in Code, JoinRefused(ip, c) PROVE CapInv'
  BY <1>2, <1>6 DEF JoinRefused
<1>7. CASE Tick \/ UNCHANGED vars
  BY <1>2, <1>7 DEF Tick, vars
<1>8. ASSUME NEW ip \in Address, JoinLimited(ip) PROVE CapInv'
  BY <1>2, <1>8 DEF JoinLimited
<1> QED BY <1>1, <1>3, <1>4, <1>5, <1>6, <1>7, <1>8 DEF Next

\* Through revocations, expiry and restarts no group hands out more tokens on a day than
\* its cap.
THEOREM DailyCapTheorem == Spec => []DailyCap
<1>1. Init => CapInv
  BY DEF Init, CapInv, DailyCap
<1>2. CapInv => DailyCap
  BY DEF CapInv
<1> QED BY <1>1, <1>2, GroupTypes, LimiterInvariant, MintedInvInit, MintedInvInductive,
           CapInvInductive, PTL DEF Spec

-----------------------------------------------------------------------------
(* Refusal.                                                                *)

\* But for a restart, time goes on, what is revoked stays so, and a group that goes is revoked.
LEMMA Onward ==
    ASSUME BucketTypeOK, MintedInv, [Next]_vars, ~ Restart
    PROVE  /\ now \in Nat /\ now' \in Nat /\ now <= now'
           /\ revoked \subseteq revoked'
           /\ \A c \in Code : groups[c] # None /\ groups'[c] = None => c \in revoked'
<1>0. now \in Nat /\ groups \in [Code -> Group \union {None}]
  BY DEF BucketTypeOK, Time, MintedInv
<1>1. ASSUME NEW u \in Teacher, NEW ttl \in Ttl, NEW cap \in SessionCap, Create(u, ttl, cap)
      PROVE  /\ UNCHANGED <<now, revoked>>
             /\ \A c \in Code : groups[c] # None => groups'[c] = groups[c]
  BY <1>0, <1>1 DEF Create
<1>2. ASSUME NEW c \in Code, NEW u \in Teacher, Delete(c, u)
      PROVE  /\ now' = now /\ revoked' = revoked \union {c}
             /\ \A b \in Code \ {c} : groups'[b] = groups[b]
  BY <1>0, <1>2 DEF Delete
<1>3. ASSUME NEW ip \in Address, NEW c \in Code, JoinRefused(ip, c) \/ JoinGranted(ip, c)
      PROVE  UNCHANGED <<now, revoked, groups>>
  BY <1>3 DEF JoinRefused, JoinGranted
<1>4. ASSUME NEW ip \in Address, JoinLimited(ip) PROVE UNCHANGED <<now, revoked, groups>>
  BY <1>4 DEF JoinLimited
<1>5. CASE Tick \/ UNCHANGED vars
  BY <1>0, <1>5 DEF Tick, vars
<1>6. CASE Next
  BY <1>0, <1>1, <1>2, <1>3, <1>4, <1>5, <1>6 DEF Next
<1> QED BY <1>5, <1>6

\* A token is refused for good from the step in which it expires or its group is deleted,
\* unless the process restarts.
THEOREM RefusalTheorem == Spec => RefusalIsFinal
<1> DEFINE Final == \A t \in tokens :
              ~ Accepted(t) \/ (groups[t.group] # None /\ groups'[t.group] = None) => ~ Accepted(t)'
<1>1. BucketTypeOK /\ MintedInv /\ [Next]_vars => [Restart \/ Final]_vars
  <2> SUFFICES ASSUME BucketTypeOK, MintedInv, [Next]_vars, ~ Restart, NEW t \in tokens,
                      ~ Accepted(t) \/ (groups[t.group] # None /\ groups'[t.group] = None)
               PROVE  ~ Accepted(t)'
    OBVIOUS
  <2>1. t.exp \in Nat /\ t.group \in Code
    BY DEF MintedInv, Token
  <2> QED BY <2>1, Onward DEF Accepted
<1> QED BY <1>1, GroupTypes, LimiterInvariant, MintedInvInit, MintedInvInductive, PTL
        DEF Spec, RefusalIsFinal
=============================================================================

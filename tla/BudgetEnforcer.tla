--------------------------- MODULE BudgetEnforcer ---------------------------
(***************************************************************************)
(* The in-memory budget enforcer (backend/budget/in_memory_enforcer.py)    *)
(* and the model callbacks that drive it (backend/budget/callback.py).     *)
(*                                                                         *)
(* A turn of an agent is an invocation; it may run several agents, each    *)
(* with a callback pair of its own, and each agent may call the model many *)
(* times (one call per tool round trip).  All of these share the           *)
(* invocation id, which is what the enforcer's replay cache and its table  *)
(* of holds are keyed by, together with the identity that pays.            *)
(*                                                                         *)
(* consult() and record() run to completion under an asyncio lock without  *)
(* awaiting anything, so each is one atomic step; the model call between   *)
(* them is not, and other turns interleave with it.  Costs are integers of *)
(* some unit: the properties only add and compare them.                    *)
(***************************************************************************)
EXTENDS Integers

CONSTANTS
    Pair,          \* callback pairs: an agent built for one turn
    Invocation,    \* agent turns
    Identity,      \* values of the skill's identity_key: who pays
    InvocationOf,  \* the turn a pair belongs to
    IdentityOf,    \* the identity a pair charges
    Projected,     \* projected costs (after cost_multiplier)
    Actual,        \* real costs read off usage_metadata
    Cap,           \* default_cap_usd
    Soft,          \* default_cap_usd * soft_threshold
    Window,        \* dedup_window_seconds
    Period,        \* accounting periods
    PeriodKey,     \* the calendar: the period of each instant
    MaxTime,       \* bound on the clock
    None           \* absent entry

Time == 0 .. MaxTime
Key == Invocation \X Identity
Account == Identity \X Period

ASSUME ConstantsAssumption ==
    /\ InvocationOf \in [Pair -> Invocation]
    /\ IdentityOf \in [Pair -> Identity]
    /\ Projected \subseteq Nat
    /\ Actual \subseteq Nat
    /\ Cap \in Nat /\ Soft \in Nat /\ Soft <= Cap
    /\ Window \in Nat
    /\ MaxTime \in Nat
    /\ PeriodKey \in [Time -> Period]

VARIABLES
    now,        \* time_provider()
    spend,      \* _spend: cumulative cost per account
    dedup,      \* _dedup_cache: the decision cached for a key, and when
    held,       \* _charged_per_inv: the projection held for a key
    pending,    \* pairs with a consultation waiting for its _after callback
    ended,      \* turns that are over
    warned,     \* turns whose session state holds budget:warn_message
    \* History: what the books should say
    admitted,   \* per account, what admitted and charged calls amount to
    refused,    \* per account, the demand of blocked calls
    overrun,    \* per account, what calls cost beyond their projections
    chargedAt   \* per key, when consult last charged a projection

books == <<spend, dedup, held>>
history == <<admitted, refused, overrun, chargedAt>>
vars == <<now, books, pending, ended, warned, history>>

Hold == [amount : Projected, period : Period]
Entry == [action : {"allow", "warn", "block"}, ts : Time]

ASSUME NoneAssumption == None \notin Time /\ None \notin Hold /\ None \notin Entry

KeyOf(p) == <<InvocationOf[p], IdentityOf[p]>>
AccountOf(p) == <<IdentityOf[p], PeriodKey[now]>>

-----------------------------------------------------------------------------
(* The enforcer *)

\* Mutant of Decide: the cap may be exceeded by one call ("prior >= cap").
DecideOnPrior(prior, x) ==
    CASE Cap > 0 /\ prior >= Cap -> "block"
      [] Cap > 0 /\ prior < Cap /\ prior + x >= Soft -> "warn"
      [] Cap = 0 \/ prior + x < Soft -> "allow"

\* _decide: what the projected total does to the account.
Decide(prior, x) ==
    CASE Cap > 0 /\ prior + x >= Cap -> "block"
      [] Cap > 0 /\ prior + x \in Soft .. Cap - 1 -> "warn"
      [] Cap = 0 \/ prior + x < Soft -> "allow"

\* Mutant of Stale: an entry goes when the window is reached, not passed.
StaleEarly(e) == e # None /\ e.ts <= now - Window

\* _prune_dedup: the entries older than the window are dropped.
Stale(e) == e # None /\ e.ts < now - Window
Pruned == [k \in Key |-> IF Stale(dedup[k]) THEN None ELSE dedup[k]]

\* consult() on a key the replay cache does not know: decide, then charge the
\* projection whatever the decision is, and remember both.
Charge(k, a, x, action) ==
    /\ action = Decide(spend[a], x)
    /\ spend' = [spend EXCEPT ![a] = @ + x]
    /\ held' = [held EXCEPT ![k] = [amount |-> x, period |-> a[2]]]
    /\ dedup' = [Pruned EXCEPT ![k] = [action |-> action, ts |-> now]]

\* consult() on a key it knows: the cached decision again, and no charge.
Replay(k, action) ==
    /\ action = Pruned[k].action
    /\ dedup' = Pruned
    /\ UNCHANGED <<spend, held>>

\* Mutant of Reconciled: no clamp, and the projection refunded twice.
ReconciledTwice(total, x, y) == total + y - 2 * x

\* Mutant of Record: reconcile in the current period, not in the hold's.
RecordInCurrentPeriod(k, y) ==
    /\ IF held[k] = None
       THEN UNCHANGED <<spend, held>>
       ELSE /\ spend' = [spend EXCEPT ![<<k[2], PeriodKey[now]>>] =
                            IF @ + y < held[k].amount THEN 0 ELSE @ + y - held[k].amount]
            /\ held' = [held EXCEPT ![k] = None]
    /\ UNCHANGED dedup

\* record(): replace the held projection by the real cost, in the period of
\* the hold; nothing held, nothing to do.
Reconciled(total, x, y) == IF total + y - x < 0 THEN 0 ELSE total + y - x

Record(k, y) ==
    /\ IF held[k] = None
       THEN UNCHANGED <<spend, held>>
       ELSE /\ spend' = [spend EXCEPT ![<<k[2], held[k].period>>] =
                            Reconciled(@, held[k].amount, y)]
            /\ held' = [held EXCEPT ![k] = None]
    /\ UNCHANGED dedup

-----------------------------------------------------------------------------
(* The callbacks *)

\* A turn makes one model call at a time.
Runnable(p) ==
    /\ InvocationOf[p] \notin ended
    /\ \A q \in pending : InvocationOf[q] # InvocationOf[p]

\* What _before does with the decision: a block ends the turn with
\* BudgetExceededError and leaves nothing pending.
Proceed(p, action) ==
    /\ pending' = IF action = "block" THEN pending ELSE pending \union {p}
    /\ ended' = IF action = "block" THEN ended \union {InvocationOf[p]} ELSE ended
    /\ warned' = IF action = "warn" THEN warned \union {InvocationOf[p]} ELSE warned

\* _before, the consultation being the key's first within the window.
BeforeCharged(p, x) ==
    /\ Runnable(p)
    /\ Pruned[KeyOf(p)] = None
    /\ \E action \in {"allow", "warn", "block"} :
          /\ Charge(KeyOf(p), AccountOf(p), x, action)
          /\ Proceed(p, action)
          /\ IF action = "block"
             THEN /\ refused' = [refused EXCEPT ![AccountOf(p)] = @ + x]
                  /\ UNCHANGED admitted
             ELSE /\ admitted' = [admitted EXCEPT ![AccountOf(p)] = @ + x]
                  /\ UNCHANGED refused
    /\ chargedAt' = [chargedAt EXCEPT ![KeyOf(p)] = now]
    /\ UNCHANGED <<now, overrun>>

\* _before, answered from the replay cache.
BeforeReplayed(p) ==
    /\ Runnable(p)
    /\ Pruned[KeyOf(p)] # None
    /\ \E action \in {"allow", "warn", "block"} :
          Replay(KeyOf(p), action) /\ Proceed(p, action)
    /\ UNCHANGED <<now, history>>

\* _after on a response that carries its token usage.
AfterMetered(p, y) ==
    /\ p \in pending
    /\ InvocationOf[p] \notin ended
    /\ pending' = pending \ {p}
    /\ Record(KeyOf(p), y)
    /\ LET h == held[KeyOf(p)]
           a == <<IdentityOf[p], h.period>>
       IN
       IF h = None
       THEN UNCHANGED <<admitted, overrun>>
       ELSE /\ admitted' = [admitted EXCEPT ![a] = @ + y - h.amount]
            /\ overrun' = [overrun EXCEPT ![a] = IF y > h.amount THEN @ + y - h.amount ELSE @]
    /\ UNCHANGED <<now, ended, warned, refused, chargedAt>>

\* _after on a response without usage metadata: the hold stays.
AfterUnmetered(p) ==
    /\ p \in pending
    /\ InvocationOf[p] \notin ended
    /\ pending' = pending \ {p}
    /\ UNCHANGED <<now, books, ended, warned, history>>

\* The model call raises: _after never runs, the hold and the pending entry
\* stay, and the turn is over.
ModelFails(p) ==
    /\ p \in pending
    /\ InvocationOf[p] \notin ended
    /\ ended' = ended \union {InvocationOf[p]}
    /\ UNCHANGED <<now, books, pending, warned, history>>

-----------------------------------------------------------------------------
(* The environment *)

Tick ==
    /\ now < MaxTime
    /\ now' = now + 1
    /\ UNCHANGED <<books, pending, ended, warned, history>>

\* The process restarts: the enforcer's books are gone, and so is every turn
\* that was under way (each began with a charge).
Restart ==
    /\ ended' = ended \union {k[1] : k \in {c \in Key : chargedAt[c] # None}}
    /\ pending' = {}
    /\ spend' = [a \in Account |-> 0]
    /\ dedup' = [k \in Key |-> None]
    /\ held' = [k \in Key |-> None]
    /\ admitted' = [a \in Account |-> 0]
    /\ refused' = [a \in Account |-> 0]
    /\ overrun' = [a \in Account |-> 0]
    /\ chargedAt' = [k \in Key |-> None]
    /\ UNCHANGED <<now, warned>>

Init ==
    /\ now = 0
    /\ spend = [a \in Account |-> 0]
    /\ dedup = [k \in Key |-> None]
    /\ held = [k \in Key |-> None]
    /\ admitted = [a \in Account |-> 0]
    /\ refused = [a \in Account |-> 0]
    /\ overrun = [a \in Account |-> 0]
    /\ chargedAt = [k \in Key |-> None]
    /\ pending = {}
    /\ ended = {}
    /\ warned = {}

Next ==
    \/ \E p \in Pair, x \in Projected : BeforeCharged(p, x)
    \/ \E p \in Pair : BeforeReplayed(p)
    \/ \E p \in Pair, y \in Actual : AfterMetered(p, y)
    \/ \E p \in Pair : AfterUnmetered(p)
    \/ \E p \in Pair : ModelFails(p)
    \/ Tick
    \/ Restart

Spec == Init /\ [][Next]_vars

-----------------------------------------------------------------------------
(* Properties *)

TypeOK ==
    /\ now \in Time
    /\ spend \in [Account -> Nat]
    /\ dedup \in [Key -> Entry \union {None}]
    /\ held \in [Key -> Hold \union {None}]
    /\ pending \subseteq Pair
    /\ ended \subseteq Invocation
    /\ warned \subseteq Invocation
    /\ admitted \in [Account -> Int]
    /\ refused \in [Account -> Nat]
    /\ overrun \in [Account -> Nat]
    /\ chargedAt \in [Key -> Time \union {None}]

\* The books balance: an account's spend is what was admitted, at its real
\* cost once metered, plus the demand of every blocked call, to the unit.
\* Among other things the clamp of record() never hides a negative balance.
LedgerExact == \A a \in Account : spend[a] = admitted[a] + refused[a]

\* What an account admits and charges stays under the cap, but for what calls
\* turned out to cost beyond their projections, however the turns interleave.
CapRespected == Cap > 0 => \A a \in Account : admitted[a] < Cap + overrun[a]

\* "a retried turn doesn't double-charge": consult charges a turn's identity
\* again only when the previous charge is more than the window ago.
NoDoubleCharge ==
    [][\A p \in Pair, x \in Projected : BeforeCharged(p, x) =>
          LET t == chargedAt[KeyOf(p)] IN t # None => t + Window < now]_vars

\* The enforcer implements the abstract admission rule.
Admission == INSTANCE BudgetAdmission WITH committed <- admitted
ImplementsAdmission == Admission!Spec
=============================================================================

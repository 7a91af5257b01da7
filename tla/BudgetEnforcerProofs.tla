------------------------ MODULE BudgetEnforcerProofs ------------------------
(***************************************************************************)
(* Proofs about BudgetEnforcer: its types, the cap on what it admits, at   *)
(* most one charge per turn and window, and that it implements             *)
(* BudgetAdmission.                                                        *)
(***************************************************************************)
EXTENDS BudgetEnforcer, TLAPS

USE ConstantsAssumption, NoneAssumption

-----------------------------------------------------------------------------
(* Lemmas about the operators *)

\* A pair's key and its account at any time are what the books are keyed by.
LEMMA Addresses ==
    ASSUME now \in Time, NEW p \in Pair
    PROVE  /\ KeyOf(p) \in Key
           /\ AccountOf(p) \in Account
           /\ KeyOf(p)[1] = InvocationOf[p]
           /\ KeyOf(p)[2] = IdentityOf[p]
           /\ AccountOf(p)[2] = PeriodKey[now]
           /\ PeriodKey[now] \in Period
BY DEF KeyOf, AccountOf, Key, Account

\* Pruning keeps the cache well typed, and keeps whatever is inside the window.
LEMMA PrunedType ==
    ASSUME now \in Time, dedup \in [Key -> Entry \union {None}]
    PROVE  /\ Pruned \in [Key -> Entry \union {None}]
           /\ \A k \in Key : Pruned[k] # None => Pruned[k] = dedup[k]
           /\ \A k \in Key : dedup[k] # None /\ now <= dedup[k].ts + Window
                             => Pruned[k] = dedup[k]
BY DEF Pruned, Stale, Entry, Time

\* Reconciling never takes a balance below zero, nor below what it computes.
LEMMA ReconciledBound ==
    ASSUME NEW total \in Nat, NEW x \in Nat, NEW y \in Nat
    PROVE  Reconciled(total, x, y) \in Nat /\ Reconciled(total, x, y) >= total + y - x
BY DEF Reconciled

-----------------------------------------------------------------------------
(* Type correctness *)

LEMMA InitTypeOK == Init => TypeOK
BY DEF Init, TypeOK, Time

LEMMA NextTypeOK == TypeOK /\ [Next]_vars => TypeOK'
<1> SUFFICES ASSUME TypeOK, [Next]_vars PROVE TypeOK'
  OBVIOUS
<1> USE DEF TypeOK
<1>1. ASSUME NEW p \in Pair, NEW x \in Projected, BeforeCharged(p, x) PROVE TypeOK'
  <2>1. PICK action \in {"allow", "warn", "block"} :
           /\ Charge(KeyOf(p), AccountOf(p), x, action)
           /\ Proceed(p, action)
           /\ IF action = "block"
              THEN /\ refused' = [refused EXCEPT ![AccountOf(p)] = @ + x]
                   /\ UNCHANGED admitted
              ELSE /\ admitted' = [admitted EXCEPT ![AccountOf(p)] = @ + x]
                   /\ UNCHANGED refused
    BY <1>1 DEF BeforeCharged
  <2>2. /\ KeyOf(p) \in Key /\ AccountOf(p) \in Account
        /\ AccountOf(p)[2] \in Period /\ x \in Nat
    BY Addresses
  <2>3. spend' \in [Account -> Nat] /\ held' \in [Key -> Hold \union {None}]
    BY <2>1, <2>2 DEF Charge, Hold
  <2>4. dedup' \in [Key -> Entry \union {None}]
    BY <2>1, <2>2, PrunedType DEF Charge, Entry
  <2>5. pending' \subseteq Pair /\ ended' \subseteq Invocation /\ warned' \subseteq Invocation
    BY <2>1 DEF Proceed
  <2>6. admitted' \in [Account -> Int] /\ refused' \in [Account -> Nat]
        /\ overrun' \in [Account -> Nat]
    BY <1>1, <2>1, <2>2 DEF BeforeCharged
  <2>7. now' \in Time /\ chargedAt' \in [Key -> Time \union {None}]
    BY <1>1, <2>2 DEF BeforeCharged
  <2> QED BY <2>3, <2>4, <2>5, <2>6, <2>7
<1>2. ASSUME NEW p \in Pair, BeforeReplayed(p) PROVE TypeOK'
  <2>1. dedup' \in [Key -> Entry \union {None}]
    BY <1>2, PrunedType DEF BeforeReplayed, Replay
  <2>2. pending' \subseteq Pair /\ ended' \subseteq Invocation /\ warned' \subseteq Invocation
    BY <1>2 DEF BeforeReplayed, Proceed
  <2> QED BY <1>2, <2>1, <2>2 DEF BeforeReplayed, Replay, history
<1>3. ASSUME NEW p \in Pair, NEW y \in Actual, AfterMetered(p, y) PROVE TypeOK'
  <2>1. KeyOf(p) \in Key /\ KeyOf(p)[2] \in Identity /\ y \in Nat
    BY Addresses
  <2>2. CASE held[KeyOf(p)] = None
    BY <1>3, <2>2 DEF AfterMetered, Record
  <2>3. CASE held[KeyOf(p)] # None
    <3> DEFINE h == held[KeyOf(p)]
               a == <<KeyOf(p)[2], h.period>>
    <3>1. h.amount \in Nat /\ h.period \in Period /\ a \in Account
      BY <2>1, <2>3 DEF Hold, Account
    <3>2. Reconciled(spend[a], h.amount, y) \in Nat
      BY <2>1, <3>1, ReconciledBound
    <3>a. /\ spend' = [spend EXCEPT ![a] = Reconciled(@, h.amount, y)]
          /\ held' = [held EXCEPT ![KeyOf(p)] = None]
      BY <1>3, <2>3 DEF AfterMetered, Record
    <3>b. spend' \in [Account -> Nat] /\ held' \in [Key -> Hold \union {None}]
      BY <2>1, <3>1, <3>2, <3>a
    <3>3. admitted' \in [Account -> Int] /\ overrun' \in [Account -> Nat]
      BY <1>3, <2>1, <2>3, <3>1, Addresses DEF AfterMetered
    <3> QED BY <1>3, <3>b, <3>3 DEF AfterMetered, Record
  <2> QED BY <2>2, <2>3
<1>4. ASSUME NEW p \in Pair, AfterUnmetered(p) PROVE TypeOK'
  BY <1>4 DEF AfterUnmetered, books, history
<1>5. ASSUME NEW p \in Pair, ModelFails(p) PROVE TypeOK'
  BY <1>5 DEF ModelFails, books, history
<1>6. ASSUME Tick PROVE TypeOK'
  BY <1>6 DEF Tick, books, history, Time
<1>7. ASSUME Restart PROVE TypeOK'
  BY <1>7 DEF Restart, Key
<1>8. CASE UNCHANGED vars
  BY <1>8 DEF vars, books, history
<1> QED BY <1>1, <1>2, <1>3, <1>4, <1>5, <1>6, <1>7, <1>8 DEF Next

\* Every variable keeps its type, for every choice of the constants.
THEOREM TypeCorrect == Spec => []TypeOK
BY InitTypeOK, NextTypeOK, PTL DEF Spec

-----------------------------------------------------------------------------
(* The cap *)

\* The books never understate what was admitted and refused.  This is the half
\* of LedgerExact the cap rests on: a decision is taken on spend, so it is
\* taken on at least the admitted amount.
LedgerCovers == \A a \in Account : admitted[a] + refused[a] <= spend[a]

CapInv == TypeOK /\ LedgerCovers /\ CapRespected

\* A consultation that is not blocked fits under the cap.
LEMMA DecideUnderCap ==
    ASSUME NEW prior \in Nat, NEW x \in Nat, Cap > 0, Decide(prior, x) # "block"
    PROVE  prior + x < Cap
BY DEF Decide

\* What a charging consult does to the three accounts it may touch.
LEMMA BeforeEffect ==
    ASSUME TypeOK, NEW p \in Pair, NEW x \in Projected, BeforeCharged(p, x)
    PROVE  /\ spend' = [spend EXCEPT ![AccountOf(p)] = @ + x]
           /\ \/ /\ Decide(spend[AccountOf(p)], x) = "block"
                 /\ refused' = [refused EXCEPT ![AccountOf(p)] = @ + x]
                 /\ admitted' = admitted
              \/ /\ Decide(spend[AccountOf(p)], x) # "block"
                 /\ admitted' = [admitted EXCEPT ![AccountOf(p)] = @ + x]
                 /\ refused' = refused
           /\ overrun' = overrun
BY DEF BeforeCharged, Charge

\* What a metered response does: nothing, or it settles one hold of x by y in
\* the account the hold was charged to.
LEMMA AfterEffect ==
    ASSUME TypeOK, NEW p \in Pair, NEW y \in Actual, AfterMetered(p, y)
    PROVE  /\ refused' = refused
           /\ \/ spend' = spend /\ admitted' = admitted /\ overrun' = overrun
              \/ \E a \in Account, x \in Projected :
                    /\ spend' = [spend EXCEPT ![a] = Reconciled(@, x, y)]
                    /\ admitted' = [admitted EXCEPT ![a] = @ + y - x]
                    /\ overrun' = [overrun EXCEPT ![a] = IF y > x THEN @ + y - x ELSE @]
<1>1. KeyOf(p) \in Key /\ KeyOf(p)[2] = IdentityOf[p] /\ IdentityOf[p] \in Identity
  BY Addresses DEF TypeOK
<1>2. CASE held[KeyOf(p)] = None
  BY <1>2 DEF AfterMetered, Record
<1>3. CASE held[KeyOf(p)] # None
  <2> DEFINE h == held[KeyOf(p)]
             a == <<IdentityOf[p], h.period>>
  <2>1. h.amount \in Projected /\ h.period \in Period
    BY <1>1, <1>3 DEF TypeOK, Hold
  <2>2. a \in Account
    BY <1>1, <2>1 DEF Account
  <2>3. /\ spend' = [spend EXCEPT ![a] = Reconciled(@, h.amount, y)]
        /\ admitted' = [admitted EXCEPT ![a] = @ + y - h.amount]
        /\ overrun' = [overrun EXCEPT ![a] = IF y > h.amount THEN @ + y - h.amount ELSE @]
        /\ refused' = refused
    BY <1>1, <1>3 DEF AfterMetered, Record
  <2> QED BY <2>1, <2>2, <2>3
<1> QED BY <1>2, <1>3

LEMMA CapInvInductive == CapInv /\ [Next]_vars => CapInv'
<1> SUFFICES ASSUME CapInv, [Next]_vars PROVE CapInv'
  OBVIOUS
<1>0. TypeOK /\ TypeOK'
  BY NextTypeOK DEF CapInv
<1> SUFFICES LedgerCovers' /\ CapRespected'
  BY <1>0 DEF CapInv
<1>1. ASSUME NEW p \in Pair, NEW x \in Projected, BeforeCharged(p, x)
      PROVE  LedgerCovers' /\ CapRespected'
  <2>1. AccountOf(p) \in Account /\ x \in Nat
    BY <1>0, Addresses DEF TypeOK
  <2>2. LedgerCovers'
    <3>1. spend' = [spend EXCEPT ![AccountOf(p)] = @ + x]
      BY <1>0, <1>1, BeforeEffect
    <3>2. CASE /\ refused' = [refused EXCEPT ![AccountOf(p)] = @ + x]
               /\ admitted' = admitted
      BY <1>0, <2>1, <3>1, <3>2 DEF CapInv, LedgerCovers, TypeOK
    <3>3. CASE /\ admitted' = [admitted EXCEPT ![AccountOf(p)] = @ + x]
               /\ refused' = refused
      BY <1>0, <2>1, <3>1, <3>3 DEF CapInv, LedgerCovers, TypeOK
    <3> QED BY <1>0, <1>1, <3>2, <3>3, BeforeEffect
  <2>3. CASE Decide(spend[AccountOf(p)], x) = "block"
    BY <1>0, <1>1, <2>2, <2>3, BeforeEffect DEF CapInv, CapRespected
  <2>4. CASE Decide(spend[AccountOf(p)], x) # "block"
    <3>1. Cap > 0 => spend[AccountOf(p)] + x < Cap
      BY <1>0, <2>1, <2>4, DecideUnderCap DEF TypeOK
    <3>2. Cap > 0 => admitted[AccountOf(p)] + x < Cap
      BY <1>0, <2>1, <3>1 DEF CapInv, LedgerCovers, TypeOK
    <3>3. admitted' = [admitted EXCEPT ![AccountOf(p)] = @ + x] /\ overrun' = overrun
      BY <1>0, <1>1, <2>4, BeforeEffect
    <3>4. CapRespected'
      BY <1>0, <2>1, <3>2, <3>3 DEF CapInv, CapRespected, TypeOK
    <3> QED BY <2>2, <3>4
  <2> QED BY <2>3, <2>4
<1>2. ASSUME NEW p \in Pair, NEW y \in Actual, AfterMetered(p, y)
      PROVE  LedgerCovers' /\ CapRespected'
  <2>1. CASE spend' = spend /\ admitted' = admitted /\ overrun' = overrun
    BY <1>0, <1>2, <2>1, AfterEffect DEF CapInv, LedgerCovers, CapRespected
  <2>2. ASSUME NEW a \in Account, NEW x \in Projected,
               spend' = [spend EXCEPT ![a] = Reconciled(@, x, y)],
               admitted' = [admitted EXCEPT ![a] = @ + y - x],
               overrun' = [overrun EXCEPT ![a] = IF y > x THEN @ + y - x ELSE @]
        PROVE  LedgerCovers' /\ CapRespected'
    <3>1. x \in Nat /\ y \in Nat
      OBVIOUS
    <3>2. /\ Reconciled(spend[a], x, y) \in Nat
          /\ Reconciled(spend[a], x, y) >= spend[a] + y - x
      BY <1>0, <3>1, ReconciledBound DEF TypeOK
    <3>3. refused' = refused
      BY <1>0, <1>2, AfterEffect
    <3>4. LedgerCovers'
      BY <1>0, <2>2, <3>1, <3>2, <3>3 DEF CapInv, LedgerCovers, TypeOK
    <3>5. CapRespected'
      BY <1>0, <2>2, <3>1 DEF CapInv, CapRespected, TypeOK
    <3> QED BY <3>4, <3>5
  <2> QED BY <1>0, <1>2, <2>1, <2>2, AfterEffect
<1>3. ASSUME Restart PROVE LedgerCovers' /\ CapRespected'
  BY <1>3 DEF Restart, LedgerCovers, CapRespected
<1>4. CASE /\ spend' = spend /\ admitted' = admitted
           /\ refused' = refused /\ overrun' = overrun
  BY <1>4 DEF CapInv, LedgerCovers, CapRespected
<1>5. ASSUME NEW p \in Pair, BeforeReplayed(p) \/ AfterUnmetered(p) \/ ModelFails(p)
      PROVE  LedgerCovers' /\ CapRespected'
  BY <1>4, <1>5 DEF BeforeReplayed, Replay, AfterUnmetered, ModelFails, books, history
<1>6. CASE Tick \/ UNCHANGED vars
  BY <1>4, <1>6 DEF Tick, vars, books, history
<1> QED BY <1>1, <1>2, <1>3, <1>5, <1>6 DEF Next

\* What an account admits and charges passes the cap by no more than what calls
\* cost beyond their projections: budget/in_memory_enforcer.py decides
\* and charges in one step, so no interleaving of turns can overshoot.
THEOREM CapTheorem == Spec => []CapRespected
<1>1. Init => CapInv
  BY InitTypeOK DEF Init, CapInv, LedgerCovers, CapRespected
<1>2. CapInv => CapRespected
  BY DEF CapInv
<1> QED BY <1>1, <1>2, CapInvInductive, PTL DEF Spec

-----------------------------------------------------------------------------
(* The abstract admission rule *)

\* Every step of the enforcer is a step of BudgetAdmission or leaves what is
\* committed alone.
LEMMA StepSimulation ==
    ASSUME Cap > 0, CapInv, [Next]_vars
    PROVE  [Admission!Next]_admitted
<1>0. TypeOK /\ LedgerCovers
  BY DEF CapInv
<1>1. ASSUME NEW p \in Pair, NEW x \in Projected, BeforeCharged(p, x)
      PROVE  [Admission!Next]_admitted
  <2>1. AccountOf(p) \in Account /\ x \in Nat
    BY <1>0, Addresses DEF TypeOK
  <2>2. CASE Decide(spend[AccountOf(p)], x) = "block"
    BY <1>0, <1>1, <2>2, BeforeEffect
  <2>3. CASE Decide(spend[AccountOf(p)], x) # "block"
    <3>1. admitted[AccountOf(p)] + x < Cap
      BY <1>0, <2>1, <2>3, DecideUnderCap DEF TypeOK, LedgerCovers
    <3>2. admitted' = [admitted EXCEPT ![AccountOf(p)] = @ + x]
      BY <1>0, <1>1, <2>3, BeforeEffect
    <3> QED BY <2>1, <3>1, <3>2 DEF Admission!Next, Admission!Admit
  <2> QED BY <2>2, <2>3
<1>2. ASSUME NEW p \in Pair, NEW y \in Actual, AfterMetered(p, y)
      PROVE  [Admission!Next]_admitted
  BY <1>0, <1>2, AfterEffect DEF Admission!Next, Admission!Settle
<1>3. CASE Restart
  BY <1>3 DEF Restart, Admission!Next, Admission!Forget
<1>4. ASSUME NEW p \in Pair, BeforeReplayed(p) \/ AfterUnmetered(p) \/ ModelFails(p)
      PROVE  admitted' = admitted
  BY <1>4 DEF BeforeReplayed, AfterUnmetered, ModelFails, history
<1>5. CASE Tick \/ UNCHANGED vars
  BY <1>5 DEF Tick, vars, history
<1> QED BY <1>1, <1>2, <1>3, <1>4, <1>5 DEF Next

\* The enforcer implements BudgetAdmission whenever a cap is configured (an
\* unconfigured one, Cap = 0, allows everything by design): replays, blocks,
\* unmetered and failed calls are stutters, and restarts forget.
THEOREM AdmissionTheorem == ASSUME Cap > 0 PROVE Spec => ImplementsAdmission
<1>1. Init => CapInv /\ Admission!Init
  BY InitTypeOK
  DEF Init, CapInv, LedgerCovers, CapRespected, Admission!Init
<1>2. CapInv /\ [Next]_vars => [Admission!Next]_admitted
  BY StepSimulation
<1> QED BY <1>1, <1>2, CapInvInductive, PTL DEF Spec, ImplementsAdmission, Admission!Spec

-----------------------------------------------------------------------------
(* At most one charge per turn, identity and window *)

\* The replay cache remembers every charge for as long as the window lasts:
\* no other step evicts an entry early or overwrites it with a later stamp.
DedupRecalls ==
    \A k \in Key : chargedAt[k] # None =>
       /\ chargedAt[k] <= now
       /\ now <= chargedAt[k] + Window => dedup[k] # None /\ dedup[k].ts = chargedAt[k]

WindowInv == TypeOK /\ DedupRecalls

LEMMA WindowInvInductive == WindowInv /\ [Next]_vars => WindowInv'
<1> SUFFICES ASSUME WindowInv, [Next]_vars PROVE DedupRecalls'
  BY NextTypeOK DEF WindowInv
<1>0. TypeOK /\ TypeOK' /\ DedupRecalls
  BY NextTypeOK DEF WindowInv
<1>a. now \in Nat /\ Window \in Nat /\ \A k \in Key : chargedAt[k] # None => chargedAt[k] \in Nat
  BY <1>0 DEF TypeOK, Time
<1>b. \A k \in Key : chargedAt[k] # None /\ now <= chargedAt[k] + Window
                     => Pruned[k] # None /\ Pruned[k].ts = chargedAt[k]
  BY <1>0, <1>a, PrunedType DEF TypeOK, DedupRecalls
<1>1. ASSUME NEW p \in Pair, NEW x \in Projected, BeforeCharged(p, x) PROVE DedupRecalls'
  <2>1. KeyOf(p) \in Key
    BY <1>0, Addresses DEF TypeOK
  <2>2. PICK action \in {"allow", "warn", "block"} :
           dedup' = [Pruned EXCEPT ![KeyOf(p)] = [action |-> action, ts |-> now]]
    BY <1>1 DEF BeforeCharged, Charge
  <2>3. now' = now /\ chargedAt' = [chargedAt EXCEPT ![KeyOf(p)] = now]
    BY <1>1 DEF BeforeCharged
  <2>4. [action |-> action, ts |-> now] # None
    BY <1>0 DEF TypeOK, Entry
  <2>5. Pruned \in [Key -> Entry \union {None}] /\ chargedAt \in [Key -> Time \union {None}]
    BY <1>0, PrunedType DEF TypeOK
  <2> QED BY <1>0, <1>a, <1>b, <2>1, <2>2, <2>3, <2>4, <2>5 DEF DedupRecalls
<1>2. ASSUME NEW p \in Pair, BeforeReplayed(p) PROVE DedupRecalls'
  BY <1>0, <1>b, <1>2 DEF BeforeReplayed, Replay, history, DedupRecalls
<1>3. CASE Tick
  BY <1>0, <1>a, <1>3 DEF Tick, books, history, DedupRecalls
<1>4. CASE Restart
  BY <1>4 DEF Restart, DedupRecalls
<1>5. CASE now' = now /\ dedup' = dedup /\ chargedAt' = chargedAt
  BY <1>0, <1>5 DEF DedupRecalls
<1>6. ASSUME NEW p \in Pair, NEW y \in Actual, AfterMetered(p, y) PROVE DedupRecalls'
  BY <1>5, <1>6 DEF AfterMetered, Record
<1>7. ASSUME NEW p \in Pair, AfterUnmetered(p) \/ ModelFails(p) PROVE DedupRecalls'
  BY <1>5, <1>7 DEF AfterUnmetered, ModelFails, books, history
<1>8. CASE UNCHANGED vars
  BY <1>5, <1>8 DEF vars, books, history
<1> QED BY <1>1, <1>2, <1>3, <1>4, <1>6, <1>7, <1>8 DEF Next

\* consult charges a turn's identity again only once the window is over,
\* whatever the clock, the number of agents of the turn and the other turns do.
THEOREM ChargeOncePerWindow == Spec => NoDoubleCharge
<1>1. Init => WindowInv
  BY InitTypeOK DEF Init, WindowInv, DedupRecalls
<1>2. WindowInv /\ [Next]_vars =>
        [\A p \in Pair, x \in Projected : BeforeCharged(p, x) =>
            LET t == chargedAt[KeyOf(p)] IN t # None => t + Window < now]_vars
  <2> SUFFICES ASSUME WindowInv, NEW p \in Pair, NEW x \in Projected,
                      BeforeCharged(p, x), chargedAt[KeyOf(p)] # None
               PROVE  chargedAt[KeyOf(p)] + Window < now
    OBVIOUS
  <2>1. TypeOK /\ DedupRecalls /\ KeyOf(p) \in Key
    BY Addresses DEF WindowInv, TypeOK
  <2>2. Pruned[KeyOf(p)] = None
    BY DEF BeforeCharged
  <2>3. ~ (now <= chargedAt[KeyOf(p)] + Window)
    BY <2>1, <2>2, PrunedType DEF DedupRecalls, TypeOK
  <2>4. now \in Nat /\ chargedAt[KeyOf(p)] \in Nat
    BY <2>1 DEF TypeOK, Time
  <2> QED BY <2>3, <2>4
<1> QED BY <1>1, <1>2, WindowInvInductive, PTL DEF Spec, NoDoubleCharge

-----------------------------------------------------------------------------
(* The books balance.                                                      *)

\* The account a hold was charged to.
Debtor(k) == <<k[2], held[k].period>>

\* place lays the holds of an account side by side within its spend: together they
\* are no more than it, and so reconciling one never meets the clamp.
Fits(place) ==
    /\ \A k \in Key : held[k] # None => place[k] + held[k].amount <= spend[Debtor(k)]
    /\ \A j, k \in Key : j # k /\ held[j] # None /\ held[k] # None /\ Debtor(j) = Debtor(k)
          => place[j] + held[j].amount <= place[k] \/ place[k] + held[k].amount <= place[j]

HoldsFit == \E place \in [Key -> Nat] : Fits(place)

LedgerInv == TypeOK /\ LedgerExact /\ HoldsFit

LEMMA HoldType ==
    ASSUME TypeOK, NEW k \in Key, held[k] # None
    PROVE  held[k].amount \in Nat /\ Debtor(k) \in Account /\ spend[Debtor(k)] \in Nat
<1>1. held[k] \in Hold /\ k[2] \in Identity
  BY DEF TypeOK, Key
<1>2. held[k].amount \in Nat /\ Debtor(k) \in Account
  BY <1>1 DEF Hold, Account, Debtor
<1> QED BY <1>2 DEF TypeOK

\* A charge is laid on top of the account's spend.
LEMMA ChargeFits ==
    ASSUME TypeOK, HoldsFit, NEW p \in Pair, NEW x \in Projected, BeforeCharged(p, x)
    PROVE  HoldsFit'
<1> DEFINE key == KeyOf(p)
           a == AccountOf(p)
<1>1. key \in Key /\ a \in Account /\ x \in Nat /\ a = <<key[2], a[2]>>
  BY Addresses DEF TypeOK, AccountOf
<1>2. /\ spend' = [spend EXCEPT ![a] = @ + x]
      /\ held' = [held EXCEPT ![key] = [amount |-> x, period |-> a[2]]]
  BY DEF BeforeCharged, Charge
<1>3. PICK place \in [Key -> Nat] : Fits(place)
  BY DEF HoldsFit
<1>4. PICK above : above = [place EXCEPT ![key] = spend[a]]
  OBVIOUS
<1>5. /\ above \in [Key -> Nat] /\ above[key] = spend[a]
      /\ \A k \in Key \ {key} : above[k] = place[k]
  BY <1>1, <1>3, <1>4 DEF TypeOK
<1>6. /\ held'[key] # None /\ held'[key].amount = x /\ Debtor(key)' = a
      /\ \A k \in Key \ {key} : held'[k] = held[k] /\ Debtor(k)' = Debtor(k)
  <2>1. [amount |-> x, period |-> a[2]] \in Hold
    BY Addresses DEF TypeOK, Hold
  <2>2. held'[key] = [amount |-> x, period |-> a[2]]
    BY <1>1, <1>2 DEF TypeOK
  <2>3. \A k \in Key \ {key} : held'[k] = held[k]
    BY <1>1, <1>2 DEF TypeOK
  <2> QED BY <1>1, <2>1, <2>2, <2>3 DEF Debtor
<1>7. /\ spend'[a] = spend[a] + x /\ spend[a] \in Nat
      /\ \A b \in Account \ {a} : spend'[b] = spend[b]
  BY <1>1, <1>2 DEF TypeOK
<1>8. \A k \in Key \ {key} : held[k] # None =>
         /\ place[k] \in Nat /\ held[k].amount \in Nat /\ Debtor(k) \in Account
         /\ place[k] + held[k].amount <= spend[Debtor(k)] /\ spend[Debtor(k)] \in Nat
  BY <1>3, HoldType DEF Fits
<1> HIDE DEF key, a
<1>9. ASSUME NEW k \in Key, held'[k] # None
      PROVE  above[k] + held'[k].amount <= spend'[Debtor(k)']
  <2>1. CASE k = key
    BY <2>1, <1>5, <1>6, <1>7
  <2>2. CASE k # key
    BY <2>2, <1>1, <1>5, <1>6, <1>7, <1>8, <1>9
  <2> QED BY <2>1, <2>2
<1>10. ASSUME NEW j \in Key, NEW k \in Key, j # k, held'[j] # None, held'[k] # None,
              Debtor(j)' = Debtor(k)'
       PROVE  \/ above[j] + held'[j].amount <= above[k]
              \/ above[k] + held'[k].amount <= above[j]
  <2>1. CASE k = key
    BY <2>1, <1>5, <1>6, <1>8, <1>10
  <2>2. CASE j = key
    BY <2>2, <1>5, <1>6, <1>8, <1>10
  <2>3. CASE j # key /\ k # key
    BY <2>3, <1>3, <1>5, <1>6, <1>10 DEF Fits
  <2> QED BY <2>1, <2>2, <2>3
<1>11. Fits(above)'
  BY <1>9, <1>10 DEF Fits
<1> QED BY <1>5, <1>11 DEF HoldsFit

Settles(key, a, x, y) ==
    /\ spend' = [spend EXCEPT ![a] = Reconciled(@, x, y)]
    /\ held' = [held EXCEPT ![key] = None]

\* A hold that is taken out leaves room for what lay above it to come down.
LEMMA RecordFits ==
    ASSUME TypeOK, HoldsFit, NEW key \in Key, held[key] # None, NEW y \in Nat,
           NEW x, x = held[key].amount, NEW a, a = Debtor(key), Settles(key, a, x, y)
    PROVE  HoldsFit' /\ spend'[a] = spend[a] + y - x
<1>0. /\ spend' = [spend EXCEPT ![a] = Reconciled(@, x, y)]
      /\ held' = [held EXCEPT ![key] = None]
  BY DEF Settles
<1>1. x \in Nat /\ a \in Account /\ spend[a] \in Nat
  BY HoldType
<1>2. PICK place \in [Key -> Nat] : Fits(place)
  BY DEF HoldsFit
<1>3. place[key] \in Nat /\ place[key] + x <= spend[a]
  BY <1>2 DEF Fits
<1>4. /\ spend'[a] = spend[a] + y - x
      /\ \A b \in Account \ {a} : spend'[b] = spend[b]
  BY <1>0, <1>1, <1>3 DEF TypeOK, Reconciled
<1> DEFINE Above(k) == held[k] # None /\ Debtor(k) = a /\ place[key] + x <= place[k]
<1>5. PICK down : down = [k \in Key |-> IF Above(k) THEN place[k] - x ELSE place[k]]
  OBVIOUS
<1>6. down \in [Key -> Nat] /\ \A k \in Key : down[k] = IF Above(k) THEN place[k] - x ELSE place[k]
  BY <1>1, <1>2, <1>3, <1>5
<1>7. held'[key] = None /\ \A k \in Key \ {key} : held'[k] = held[k] /\ Debtor(k)' = Debtor(k)
  BY <1>0 DEF TypeOK, Debtor
<1>8. \A k \in Key \ {key} : held[k] # None =>
         /\ place[k] \in Nat /\ held[k].amount \in Nat /\ Debtor(k) \in Account
         /\ place[k] + held[k].amount <= spend[Debtor(k)] /\ spend[Debtor(k)] \in Nat
         /\ Debtor(k) = a => Above(k) \/ place[k] + held[k].amount <= place[key]
  BY <1>2, HoldType DEF Fits
<1>9. ASSUME NEW k \in Key, held'[k] # None
      PROVE  down[k] + held'[k].amount <= spend'[Debtor(k)']
  <2>1. k # key /\ held'[k] = held[k] /\ Debtor(k)' = Debtor(k) /\ held[k] # None
    BY <1>7, <1>9
  <2>2. CASE Debtor(k) # a
    BY <2>1, <2>2, <1>4, <1>6, <1>8
  <2>3. CASE Debtor(k) = a /\ Above(k)
    BY <2>1, <2>3, <1>1, <1>4, <1>6, <1>8
  <2>4. CASE Debtor(k) = a /\ ~Above(k)
    BY <2>1, <2>4, <1>1, <1>3, <1>4, <1>6, <1>8
  <2> QED BY <2>2, <2>3, <2>4
<1>10. ASSUME NEW j \in Key, NEW k \in Key, j # k, held'[j] # None, held'[k] # None,
              Debtor(j)' = Debtor(k)'
       PROVE  \/ down[j] + held'[j].amount <= down[k]
              \/ down[k] + held'[k].amount <= down[j]
  <2>1. /\ j # key /\ held'[j] = held[j] /\ held[j] # None
        /\ k # key /\ held'[k] = held[k] /\ held[k] # None /\ Debtor(j) = Debtor(k)
    BY <1>7, <1>10
  <2>2. \/ place[j] + held[j].amount <= place[k] \/ place[k] + held[k].amount <= place[j]
    BY <2>1, <1>2, <1>10 DEF Fits
  <2>3. /\ place[j] \in Nat /\ held[j].amount \in Nat /\ place[k] \in Nat /\ held[k].amount \in Nat
        /\ Debtor(j) = a => Above(j) \/ place[j] + held[j].amount <= place[key]
        /\ Debtor(k) = a => Above(k) \/ place[k] + held[k].amount <= place[key]
    BY <2>1, <1>8
  <2>4. CASE Debtor(j) # a
    BY <2>1, <2>2, <2>3, <2>4, <1>6
  <2>5. CASE Debtor(j) = a
    <3>1. /\ Above(j) => down[j] = place[j] - x /\ place[key] + x <= place[j]
          /\ ~Above(j) => down[j] = place[j] /\ place[j] + held[j].amount <= place[key]
          /\ Above(k) => down[k] = place[k] - x /\ place[key] + x <= place[k]
          /\ ~Above(k) => down[k] = place[k] /\ place[k] + held[k].amount <= place[key]
      BY <2>1, <2>3, <2>5, <1>6
    <3> HIDE DEF Above
    <3> QED BY <2>1, <2>2, <2>3, <3>1, <1>1, <1>3
  <2> QED BY <2>4, <2>5
<1>11. Fits(down)'
  BY <1>9, <1>10 DEF Fits
<1> QED BY <1>4, <1>6, <1>11 DEF HoldsFit

LEMMA BooksStay ==
    ASSUME LedgerExact, HoldsFit, spend' = spend, held' = held, admitted' = admitted, refused' = refused
    PROVE  LedgerExact' /\ HoldsFit'
<1>1. PICK place \in [Key -> Nat] : Fits(place)
  BY DEF HoldsFit
<1>2. Fits(place)'
  BY <1>1 DEF Fits, Debtor
<1> QED BY <1>1, <1>2 DEF LedgerExact, HoldsFit

LEMMA LedgerInvInductive == LedgerInv /\ [Next]_vars => LedgerInv'
<1> SUFFICES ASSUME LedgerInv, [Next]_vars PROVE LedgerInv'
  OBVIOUS
<1>0. TypeOK /\ TypeOK' /\ LedgerExact /\ HoldsFit
  BY NextTypeOK DEF LedgerInv
<1> SUFFICES LedgerExact' /\ HoldsFit'
  BY <1>0 DEF LedgerInv
<1>1. ASSUME NEW p \in Pair, NEW x \in Projected, BeforeCharged(p, x)
      PROVE  LedgerExact' /\ HoldsFit'
  <2>1. AccountOf(p) \in Account /\ x \in Nat
    BY <1>0, Addresses DEF TypeOK
  <2>2. spend' = [spend EXCEPT ![AccountOf(p)] = @ + x]
    BY <1>0, <1>1, BeforeEffect
  <2>3. \/ refused' = [refused EXCEPT ![AccountOf(p)] = @ + x] /\ admitted' = admitted
        \/ admitted' = [admitted EXCEPT ![AccountOf(p)] = @ + x] /\ refused' = refused
    BY <1>0, <1>1, BeforeEffect
  <2>4. LedgerExact'
    BY <1>0, <2>1, <2>2, <2>3 DEF LedgerExact, TypeOK
  <2> QED BY <1>0, <1>1, <2>4, ChargeFits
<1>2. ASSUME NEW p \in Pair, NEW y \in Actual, AfterMetered(p, y)
      PROVE  LedgerExact' /\ HoldsFit'
  <2> DEFINE key == KeyOf(p)
  <2>1. key \in Key /\ key[2] = IdentityOf[p] /\ y \in Nat
    BY <1>0, Addresses DEF TypeOK
  <2>2. CASE held[key] = None
    <3>1. spend' = spend /\ held' = held /\ admitted' = admitted /\ refused' = refused
      BY <1>2, <2>2 DEF AfterMetered, Record
    <3> QED BY <1>0, <3>1, BooksStay
  <2>3. CASE held[key] # None
    <3>1. PICK x, a : x = held[key].amount /\ a = Debtor(key)
      OBVIOUS
    <3>2. x \in Nat /\ a \in Account
      BY <1>0, <2>1, <2>3, <3>1, HoldType
    <3>3. /\ spend' = [spend EXCEPT ![a] = Reconciled(@, x, y)]
          /\ held' = [held EXCEPT ![key] = None]
          /\ admitted' = [admitted EXCEPT ![a] = @ + y - x] /\ refused' = refused
      BY <1>2, <2>1, <2>3, <3>1 DEF AfterMetered, Record, Debtor
    <3>4. HoldsFit' /\ spend'[a] = spend[a] + y - x
      <4>1. Settles(key, a, x, y)
        BY <3>3 DEF Settles
      <4> HIDE DEF key
      <4> QED BY <1>0, <2>1, <2>3, <3>1, <4>1, RecordFits
    <3>5. LedgerExact'
      BY <1>0, <2>1, <3>2, <3>3, <3>4 DEF LedgerExact, TypeOK
    <3> QED BY <3>4, <3>5
  <2> QED BY <2>2, <2>3
<1>3. ASSUME Restart PROVE LedgerExact' /\ HoldsFit'
  <2>1. LedgerExact'
    BY <1>3 DEF Restart, LedgerExact
  <2>2. [k \in Key |-> 0] \in [Key -> Nat] /\ \A k \in Key : held'[k] = None
    BY <1>3 DEF Restart
  <2>3. HoldsFit'
    BY <2>2 DEF HoldsFit, Fits
  <2> QED BY <2>1, <2>3
<1>4. CASE spend' = spend /\ held' = held /\ admitted' = admitted /\ refused' = refused
  BY <1>0, <1>4, BooksStay
<1>5. ASSUME NEW p \in Pair, BeforeReplayed(p) \/ AfterUnmetered(p) \/ ModelFails(p)
      PROVE  LedgerExact' /\ HoldsFit'
  <2>1. spend' = spend /\ held' = held /\ admitted' = admitted /\ refused' = refused
    BY <1>5 DEF BeforeReplayed, Replay, AfterUnmetered, ModelFails, books, history
  <2> QED BY <1>4, <2>1
<1>6. CASE Tick \/ UNCHANGED vars
  BY <1>4, <1>6 DEF Tick, vars, books, history
<1> QED BY <1>1, <1>2, <1>3, <1>5, <1>6 DEF Next

\* The books balance to the unit, for any number of turns, accounts and holds, any
\* prices and periods: record()'s clamp at zero never discards anything
\* (in_memory_enforcer.py).
THEOREM LedgerTheorem == Spec => []LedgerExact
<1>1. Init => LedgerInv
  <2> SUFFICES ASSUME Init PROVE LedgerExact /\ HoldsFit
    BY InitTypeOK DEF LedgerInv
  <2>1. [k \in Key |-> 0] \in [Key -> Nat] /\ \A k \in Key : held[k] = None
    BY DEF Init
  <2>2. HoldsFit
    BY <2>1 DEF HoldsFit, Fits
  <2>3. LedgerExact
    BY DEF Init, LedgerExact
  <2> QED BY <2>2, <2>3
<1>2. LedgerInv => LedgerExact
  BY DEF LedgerInv
<1> QED BY <1>1, <1>2, LedgerInvInductive, PTL DEF Spec
=============================================================================

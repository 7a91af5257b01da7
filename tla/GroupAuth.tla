------------------------------ MODULE GroupAuth ------------------------------
(***************************************************************************)
(* Anonymous groups (backend/auth/group_id_auth.py and the endpoints of    *)
(* backend/auth/group_routes.py): a teacher creates a group and gets its   *)
(* code, students exchange the code for a signed token, the teacher may    *)
(* revoke the group.  Joining first asks the rate limiter, module          *)
(* TokenBucket.                                                            *)
(*                                                                         *)
(* Groups, revocations, session counters and buckets live in the process;  *)
(* a token lives with the student who got it, and is checked against its   *)
(* signature and its claims alone, apart from the set of revoked groups.   *)
(***************************************************************************)
EXTENDS TokenBucket, FiniteSets

CONSTANTS
    Code,           \* group codes; a code once generated is never drawn again
    Teacher,        \* uids that create and delete groups
    Ttl,            \* lifetimes a group may be created with
    SessionCap,     \* max_concurrent_sessions it may be created with
    TokenLifetime,  \* DEFAULT_TOKEN_LIFETIME_SECONDS
    Day, DayOf,     \* the UTC days, and the day of each instant
    MaxTokens       \* bound on the tokens minted

VARIABLES
    groups,     \* _state.groups
    revoked,    \* _state.revoked_group_ids
    sessions,   \* _state.sessions_today
    used,       \* history: every code generated so far
    tokens      \* the tokens in the hands of students

vars == <<now, bucketVars, groups, revoked, sessions, used, tokens>>

Group == [creator : Teacher, expires : Nat, cap : SessionCap]

\* A token's claims; and, for the properties, the day it was minted and what
\* the group's cap was then.
Token == [uid : 1 .. MaxTokens, group : Code, exp : Nat,
          day : Day, cap : SessionCap]

ASSUME GroupAssumption ==
    /\ Ttl \subseteq Nat \ {0}
    /\ SessionCap \subseteq Nat \ {0}
    /\ TokenLifetime \in Nat \ {0}
    /\ DayOf \in [Time -> Day]
    /\ MaxTokens \in Nat

-----------------------------------------------------------------------------

\* create_group: a code in use or revoked is drawn again.
Create(teacher, ttl, cap) ==
    \E c \in Code \ used :
       /\ groups[c] = None /\ c \notin revoked
       /\ groups' = [groups EXCEPT ![c] =
                        [creator |-> teacher, expires |-> now + ttl, cap |-> cap]]
       /\ used' = used \union {c}
       /\ UNCHANGED <<now, bucketVars, revoked, sessions, tokens>>

\* Mutant of Delete: the group is dropped but not remembered as revoked.
DeleteForgets(c, teacher) ==
    /\ groups[c] # None
    /\ groups[c].creator = teacher
    /\ groups' = [groups EXCEPT ![c] = None]
    /\ UNCHANGED <<now, bucketVars, revoked, sessions, used, tokens>>

\* delete_group, by the creator; anyone else gets PermissionError.
Delete(c, teacher) ==
    /\ groups[c] # None
    /\ groups[c].creator = teacher
    /\ groups' = [groups EXCEPT ![c] = None]
    /\ revoked' = revoked \union {c}
    /\ UNCHANGED <<now, bucketVars, sessions, used, tokens>>

\* Mutant of HasRoom: one session too many.
HasRoomForOneMore(c) == sessions[<<c, DayOf[now]>>] <= groups[c].cap

HasRoom(c) == sessions[<<c, DayOf[now]>>] < groups[c].cap

\* Gates 2 to 4 and 6 of join_group.
Joinable(c) ==
    /\ c \notin revoked
    /\ groups[c] # None
    /\ now < groups[c].expires
    /\ HasRoom(c)

\* join_group, refused by the rate limiter, which is asked first.
JoinLimited(ip) ==
    /\ CheckRefused(ip)
    /\ UNCHANGED <<now, groups, revoked, sessions, used, tokens>>

\* join_group, refused by a later gate: the limiter's token is spent.
JoinRefused(ip, c) ==
    /\ CheckGranted(ip)
    /\ ~ Joinable(c)
    /\ UNCHANGED <<now, groups, revoked, sessions, used, tokens>>

\* join_group, granted: a token with a fresh uid, and one session more today.
JoinGranted(ip, c) ==
    /\ Cardinality(tokens) < MaxTokens
    /\ CheckGranted(ip)
    /\ Joinable(c)
    /\ tokens' = tokens \union
          {[uid |-> Cardinality(tokens) + 1, group |-> c, exp |-> now + TokenLifetime,
            day |-> DayOf[now], cap |-> groups[c].cap]}
    /\ sessions' = [sessions EXCEPT ![<<c, DayOf[now]>>] = @ + 1]
    /\ UNCHANGED <<now, groups, revoked, used>>

\* verify_group_token: the signature is good (only minted tokens are modelled),
\* the token has not expired and its group has not been revoked.
Accepted(t) == now < t.exp /\ t.group \notin revoked

Tick ==
    /\ now < MaxTime
    /\ now' = now + 1
    /\ UNCHANGED <<bucketVars, groups, revoked, sessions, used, tokens>>

\* The process restarts: everything but the students' tokens is gone.
Restart ==
    /\ bucket' = [k \in Address |-> None]
    /\ granted' = [k \in Address |-> 0]
    /\ retryAt' = [k \in Address |-> None]
    /\ spurned' = [k \in Address |-> 0]
    /\ groups' = [c \in Code |-> None]
    /\ revoked' = {}
    /\ sessions' = [k \in Code \X Day |-> 0]
    /\ UNCHANGED <<now, used, tokens>>

Init ==
    /\ now = 0
    /\ BucketInit
    /\ groups = [c \in Code |-> None]
    /\ revoked = {}
    /\ sessions = [k \in Code \X Day |-> 0]
    /\ used = {}
    /\ tokens = {}

Next ==
    \/ \E u \in Teacher, ttl \in Ttl, cap \in SessionCap : Create(u, ttl, cap)
    \/ \E c \in Code, u \in Teacher : Delete(c, u)
    \/ \E ip \in Address : JoinLimited(ip)
    \/ \E ip \in Address, c \in Code : JoinRefused(ip, c)
    \/ \E ip \in Address, c \in Code : JoinGranted(ip, c)
    \/ Tick
    \/ Restart

Spec == Init /\ [][Next]_vars

-----------------------------------------------------------------------------
(* Properties *)

TypeOK ==
    /\ BucketTypeOK
    /\ groups \in [Code -> Group \union {None}]
    /\ revoked \subseteq Code
    /\ sessions \in [Code \X Day -> Nat]
    /\ used \subseteq Code
    /\ tokens \subseteq Token

\* No group ever hands out more tokens on one day than its cap, through
\* revocations, expiry and restarts.
DailyCap ==
    \A t \in tokens :
       Cardinality({s \in tokens : s.group = t.group /\ s.day = t.day}) <= t.cap

\* A token is refused for good from the step in which it expires or its group is
\* deleted, whoever holds it and whatever codes are drawn after; only a restart, which
\* loses the revoked set while tokens and signing secret survive, can bring one back.
RefusalIsFinal ==
    [][Restart \/ \A t \in tokens :
          ~ Accepted(t) \/ (groups[t.group] # None /\ groups'[t.group] = None) => ~ Accepted(t)']_vars
=============================================================================

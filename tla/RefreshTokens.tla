---------------------------- MODULE RefreshTokens ----------------------------
(***************************************************************************)
(* The refresh tokens of one account: AuthService (src/auth/auth.service.ts). *)
(* refresh validates a token, revokes it and issues its successor in three *)
(* awaited steps that requests with the same token can interleave; logout  *)
(* validates and revokes.  A request with an unknown, expired or revoked   *)
(* token, or a wrong secret, changes nothing and is not modelled.          *)
(***************************************************************************)
EXTENDS Naturals, FiniteSets

CONSTANTS
    Req,        \* request slots
    MaxTokens,  \* bound on tokens ever issued
    Lifetime,   \* REFRESH_TOKEN_TTL_MS, in ticks
    MaxTime     \* bound of the clock

ASSUME TokenAssumption ==
    IsFiniteSet(Req) /\ MaxTokens \in Nat /\ Lifetime \in Nat /\ MaxTime \in Nat

VARIABLES
    issued,    \* how many refresh_tokens rows there are
    parent,    \* history: the token a row was issued for, 0 for a login
    expiresAt, \* refresh_tokens.expires_at
    revoked,   \* the rows whose revokedAt is set
    now,       \* clock
    ended,     \* history: tokens that logout has revoked
    broken,    \* history: tokens revoked by a refresh that issued nothing
    raced,     \* history: tokens that two requests held validated at a time
    task       \* per slot: where its handler is, and the token it validated

vars == <<issued, parent, expiresAt, revoked, now, ended, broken, raced, task>>

Token == 1..MaxTokens
Row == 1..issued
Idle == [pc |-> "done", token |-> 0]
PC == {"done", "failed", "refresh_revoke", "refresh_issue", "login_issue", "logout_revoke"}

At(r, pc) == task[r].pc = pc
Put(r, pc, t) == task' = [task EXCEPT ![r] = [pc |-> pc, token |-> t]]

Init ==
    /\ issued = 0
    /\ parent = [t \in Token |-> 0]
    /\ expiresAt = [t \in Token |-> 0]
    /\ revoked = {} /\ ended = {} /\ broken = {} /\ raced = {}
    /\ now = 0
    /\ task = [r \in Req |-> Idle]

-----------------------------------------------------------------------------
(* Mutant: the check of revokedAt is missing. *)
ValidUnlessExpired(t) == t \in Row /\ now <= expiresAt[t]
Valid(t) == t \in Row /\ t \notin revoked /\ now <= expiresAt[t]

(* Requests that have validated t and not yet revoked it. *)
Holding(t) == {r \in Req : task[r].pc \in {"refresh_revoke", "logout_revoke"} /\ task[r].token = t}

(* validateRefreshToken, for refresh or logout; the row is read before the *)
(* secret is verified.                                                     *)
Validate(r, t, pc) ==
    /\ task[r].pc \in {"done", "failed"}
    /\ Valid(t)
    /\ Put(r, pc, t)
    /\ raced' = IF Holding(t) = {} THEN raced ELSE raced \cup {t}
    /\ UNCHANGED <<issued, parent, expiresAt, revoked, now, ended, broken>>

RefreshValidate(r, t) == Validate(r, t, "refresh_revoke")
LogoutValidate(r, t) == Validate(r, t, "logout_revoke")

(* Mutants: revokes all tokens of the account; revokes nothing. *)
RevokedAll(t) == revoked \cup Row
RevokedNone(t) == revoked
Revoked(t) == revoked \cup {t}

(* The update does not ask whether the row is revoked already. *)
RefreshRevoke(r) ==
    /\ At(r, "refresh_revoke")
    /\ revoked' = Revoked(task[r].token)
    /\ Put(r, "refresh_issue", task[r].token)
    /\ UNCHANGED <<issued, parent, expiresAt, now, ended, broken, raced>>

LogoutRevoke(r) ==
    /\ At(r, "logout_revoke")
    /\ revoked' = Revoked(task[r].token)
    /\ ended' = ended \cup {task[r].token}
    /\ Put(r, "done", 0)
    /\ UNCHANGED <<issued, parent, expiresAt, now, broken, raced>>

(* login or register: the password is right, or the account is new. *)
Login(r) ==
    /\ task[r].pc \in {"done", "failed"}
    /\ Put(r, "login_issue", 0)
    /\ UNCHANGED <<issued, parent, expiresAt, revoked, now, ended, broken, raced>>

(* issueTokens *)
Issue(r) ==
    /\ task[r].pc \in {"login_issue", "refresh_issue"}
    /\ issued < MaxTokens
    /\ issued' = issued + 1
    /\ parent' = [parent EXCEPT ![issued + 1] = task[r].token]
    /\ expiresAt' = [expiresAt EXCEPT ![issued + 1] = now + Lifetime]
    /\ Put(r, "done", 0)
    /\ UNCHANGED <<revoked, now, ended, broken, raced>>

(* Hashing, signing or the insert fails, or the process stops: what the    *)
(* request has revoked stays revoked.                                      *)
IssueFails(r) ==
    /\ task[r].pc \in {"login_issue", "refresh_issue"}
    /\ broken' = IF At(r, "refresh_issue") THEN broken \cup {task[r].token} ELSE broken
    /\ Put(r, "failed", 0)
    /\ UNCHANGED <<issued, parent, expiresAt, revoked, now, ended, raced>>

Tick ==
    /\ now < MaxTime
    /\ now' = now + 1
    /\ UNCHANGED <<issued, parent, expiresAt, revoked, ended, broken, raced, task>>

Next ==
    \/ \E r \in Req :
          \/ \E t \in Token : RefreshValidate(r, t) \/ LogoutValidate(r, t)
          \/ RefreshRevoke(r) \/ LogoutRevoke(r)
          \/ Login(r) \/ Issue(r) \/ IssueFails(r)
    \/ Tick

Spec == Init /\ [][Next]_vars

-----------------------------------------------------------------------------
(* Every variable has its type; a handler holds a token that exists.       *)
TypeOK ==
    /\ issued \in 0..MaxTokens
    /\ parent \in [Token -> 0..MaxTokens]
    /\ expiresAt \in [Token -> Nat]
    /\ revoked \subseteq Row /\ ended \subseteq revoked
    /\ broken \subseteq revoked /\ raced \subseteq Row
    /\ now \in 0..MaxTime
    /\ task \in [Req -> [pc : PC, token : 0..issued]]

Children(t) == {u \in Row : parent[u] = t}
Rotating(t) == {r \in Req : task[r].pc \in {"refresh_revoke", "refresh_issue"} /\ task[r].token = t}

(* The comment in refresh: "this refresh token can only be used once".     *)
UsedOnce == \A t \in Row : Cardinality(Children(t)) <= 1

(* What the code does guarantee: however its requests interleave, a token  *)
(* yields no more successors than requests can be in progress at a time.   *)
ReuseBounded ==
    \A t \in Row : Cardinality(Children(t)) + Cardinality(Rotating(t)) <= Cardinality(Req)

(* And what the comment is worth to a client that waits for its answers:   *)
(* a token of which no two requests were in progress at a time is used     *)
(* once, with any number of other requests around.                         *)
UsedOnceUnraced == \A t \in Row \ raced : Cardinality(Children(t)) <= 1

(* A token that logout revoked has no successor and gets none, unless      *)
(* another request had validated it at the same time.                      *)
LogoutIsFinal ==
    \A t \in ended \ raced : Children(t) = {} /\ Rotating(t) = {}

(* No session is lost silently: a revoked token has a successor, or is     *)
(* about to get one, or was logged out, or its refresh failed.             *)
RevocationAccounted ==
    \A t \in revoked :
        \/ Children(t) # {}
        \/ \E r \in Req : At(r, "refresh_issue") /\ task[r].token = t
        \/ t \in ended \cup broken
=============================================================================

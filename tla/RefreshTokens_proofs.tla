------------------------ MODULE RefreshTokens_proofs ------------------------
(* Rotation and logout, for any number of requests, tokens and ticks. *)
EXTENDS RefreshTokens, FiniteSetTheorems, TLAPS

USE TokenAssumption DEF At

(* What a handler past validation holds, and where a row comes from. *)
TokensHeld ==
    \A r \in Req :
       /\ task[r].pc \in {"refresh_revoke", "refresh_issue", "logout_revoke"} => task[r].token \in Row
       /\ At(r, "refresh_issue") => task[r].token \in revoked
       /\ At(r, "login_issue") => task[r].token = 0
ParentsIssued == \A t \in Token : parent[t] \in 0..issued

TypeInv == TypeOK /\ TokensHeld /\ ParentsIssued

LEMMA TypeInit == Init => TypeInv
  BY DEF Init, TypeInv, TypeOK, TokensHeld, ParentsIssued, Idle, PC, Row

LEMMA PutType ==
  ASSUME TypeInv, NEW r \in Req, NEW pc \in PC, NEW t \in 0..issued, Put(r, pc, t)
  PROVE  /\ task' \in [Req -> [pc : PC, token : 0..issued]]
         /\ task'[r] = [pc |-> pc, token |-> t]
         /\ \A q \in Req \ {r} : task'[q] = task[q]
  BY DEF TypeInv, TypeOK, Put

LEMMA TypeStep == TypeInv /\ [Next]_vars => TypeInv'
<1> SUFFICES ASSUME TypeInv, [Next]_vars PROVE TypeInv'
  OBVIOUS
<1> USE DEF TypeInv, TypeOK, TokensHeld, ParentsIssued
<1>1. ASSUME NEW r \in Req, NEW t \in Token, NEW pc \in {"refresh_revoke", "logout_revoke"},
             Validate(r, t, pc)
      PROVE  TypeInv'
  <2>1. t \in Row /\ t \in 0..issued /\ pc \in PC /\ raced' \subseteq Row
    BY <1>1 DEF Validate, Valid, Row, PC
  <2>2. /\ task' \in [Req -> [pc : PC, token : 0..issued]]
        /\ task'[r] = [pc |-> pc, token |-> t]
        /\ \A q \in Req \ {r} : task'[q] = task[q]
    BY <1>1, <2>1, PutType DEF Validate
  <2> QED
    BY <1>1, <2>1, <2>2 DEF Validate, Row
<1>2. ASSUME NEW r \in Req, RefreshRevoke(r) PROVE TypeInv'
  BY <1>2 DEF RefreshRevoke, Revoked, PC, Put, Row
<1>3. ASSUME NEW r \in Req, LogoutRevoke(r) PROVE TypeInv'
  <2>1. task[r].token \in Row /\ 0 \in 0..issued /\ "done" \in PC
    BY <1>3 DEF LogoutRevoke, PC
  <2>2. /\ task' \in [Req -> [pc : PC, token : 0..issued]]
        /\ task'[r] = [pc |-> "done", token |-> 0]
        /\ \A q \in Req \ {r} : task'[q] = task[q]
    BY <1>3, <2>1, PutType DEF LogoutRevoke
  <2>3. /\ revoked' = revoked \cup {task[r].token} /\ ended' \subseteq revoked'
        /\ revoked' \subseteq Row
    BY <1>3, <2>1 DEF LogoutRevoke, Revoked
  <2>4. UNCHANGED <<issued, parent, expiresAt, now, broken, raced>>
    BY <1>3 DEF LogoutRevoke
  <2>5. TokensHeld'
    BY <2>2, <2>3, <2>4 DEF Row
  <2> QED
    BY <2>2, <2>3, <2>4, <2>5 DEF Row
<1>4. ASSUME NEW r \in Req, Login(r) PROVE TypeInv'
  BY <1>4 DEF Login, PC, Put, Row
<1>5. ASSUME NEW r \in Req, Issue(r) PROVE TypeInv'
  <2>1. issued' \in 0..MaxTokens /\ issued + 1 \in Token /\ now + Lifetime \in Nat
    BY <1>5 DEF Issue, Token
  <2>2. /\ parent' \in [Token -> 0..MaxTokens] /\ expiresAt' \in [Token -> Nat]
        /\ \A t \in Token : parent'[t] \in 0..issued'
    BY <1>5, <2>1 DEF Issue
  <2> QED
    BY <1>5, <2>1, <2>2 DEF Issue, PC, Put, Row
<1>6. ASSUME NEW r \in Req, IssueFails(r) PROVE TypeInv'
  <2>1. broken' \subseteq revoked /\ 0 \in 0..issued /\ "failed" \in PC
    BY <1>6 DEF IssueFails, PC
  <2>2. /\ task' \in [Req -> [pc : PC, token : 0..issued]]
        /\ task'[r] = [pc |-> "failed", token |-> 0]
        /\ \A q \in Req \ {r} : task'[q] = task[q]
    BY <1>6, <2>1, PutType DEF IssueFails
  <2> QED
    BY <1>6, <2>1, <2>2 DEF IssueFails, Row
<1>7. CASE Tick
  BY <1>7 DEF Tick, Row
<1>8. CASE UNCHANGED vars
  BY <1>8 DEF vars, Row
<1> QED
  BY <1>1, <1>2, <1>3, <1>4, <1>5, <1>6, <1>7, <1>8
  DEF Next, RefreshValidate, LogoutValidate

(* TypeOK: the rows and the handlers always have their types. *)
THEOREM TypeCorrect == Spec => []TypeOK
<1>1. TypeInv => TypeOK
  BY DEF TypeInv
<1> QED
  BY <1>1, TypeInit, TypeStep, PTL DEF Spec

-----------------------------------------------------------------------------
(* A row that is not revoked has no successor, and nobody issues one. *)
UnspentUntilRevoked == \A t \in Row \ revoked : Children(t) = {}
RotationInv == TypeInv /\ UnspentUntilRevoked

(* A token gets a child only from a request that issues its successor. *)
LEMMA ChildrenOfIssue ==
  ASSUME TypeInv, NEW r \in Req, Issue(r), NEW n, n = issued + 1
  PROVE  /\ issued' = n /\ Row' = Row \cup {n} /\ n \notin Row
         /\ \A t \in Row : Children(t)' = IF At(r, "refresh_issue") /\ t = task[r].token
                                          THEN Children(t) \cup {n} ELSE Children(t)
         /\ Children(n)' = {}
<1> USE DEF TypeInv, TypeOK, TokensHeld, ParentsIssued, Row, Token
<1>1. /\ issued \in Nat /\ n \in Token /\ issued' = n
      /\ Row' = Row \cup {n} /\ n \notin Row
      /\ parent'[n] = task[r].token
      /\ \A u \in Row : parent'[u] = parent[u]
  BY DEF Issue
<1>2. task[r].token \in 0..issued /\ (At(r, "refresh_issue") \/ task[r].token = 0)
  BY DEF Issue
<1>3. ASSUME NEW t \in Row \cup {n}
      PROVE  Children(t)' = IF task[r].token = t THEN Children(t) \cup {n} ELSE Children(t)
  BY <1>1 DEF Children
<1>4. Children(n) = {}
  BY <1>1 DEF Children
<1>5. Children(n)' = {}
  <2>1. n # task[r].token
    BY <1>1, <1>2
  <2> QED
    BY <1>3, <1>4, <2>1
<1>6. ASSUME NEW t \in Row
      PROVE  Children(t)' = IF At(r, "refresh_issue") /\ t = task[r].token
                            THEN Children(t) \cup {n} ELSE Children(t)
  <2>1. t # 0
    BY <1>1
  <2>2. CASE t = task[r].token
    BY <1>2, <1>3, <2>1, <2>2
  <2>3. CASE t # task[r].token
    BY <1>3, <2>3
  <2> QED
    BY <2>2, <2>3
<1> HIDE DEF TypeInv, TypeOK, TokensHeld, ParentsIssued, Row, Token
<1> QED
  BY <1>1, <1>5, <1>6

LEMMA RowsKept ==
  ASSUME UNCHANGED <<issued, parent>>
  PROVE  Row' = Row /\ \A t : Children(t)' = Children(t)
  BY DEF Row, Children

LEMMA RotationStep == RotationInv /\ [Next]_vars => RotationInv'
<1> SUFFICES ASSUME RotationInv, [Next]_vars PROVE UnspentUntilRevoked'
  BY TypeStep DEF RotationInv
<1> USE DEF RotationInv, UnspentUntilRevoked
<1>1. ASSUME NEW r \in Req, Issue(r) PROVE UnspentUntilRevoked'
  <2> DEFINE n == issued + 1
  <2>1. revoked' = revoked /\ Row' = Row \cup {n} /\ \A t : t = n => Children(t)' = {}
    BY <1>1, ChildrenOfIssue DEF Issue
  <2>2. ASSUME NEW t \in Row \ revoked PROVE Children(t)' = {}
    <3>1. ~(At(r, "refresh_issue") /\ t = task[r].token)
      BY <2>2 DEF TypeInv, TokensHeld
    <3> QED
      BY <1>1, <2>2, <3>1, ChildrenOfIssue
  <2> QED
    BY <2>1, <2>2
<1>2. CASE UNCHANGED <<issued, parent>> /\ revoked \subseteq revoked'
  BY <1>2, RowsKept
<1>3. ASSUME NEW r \in Req, RefreshRevoke(r) \/ LogoutRevoke(r) PROVE UnspentUntilRevoked'
  BY <1>2, <1>3 DEF RefreshRevoke, LogoutRevoke, Revoked
<1> QED
  BY <1>1, <1>2, <1>3
  DEF Next, vars, RefreshValidate, LogoutValidate, Validate, Login, IssueFails, Tick

-----------------------------------------------------------------------------
(* Every refresh in progress may still add a successor. *)
Bounded(t) == Cardinality(Children(t)) + Cardinality(Rotating(t)) <= Cardinality(Req)
ReuseInv == RotationInv /\ ReuseBounded

LEMMA SetCounts ==
  ASSUME NEW n \in Nat, NEW C, NEW R, C \subseteq 1..n, R \subseteq Req
  PROVE  /\ IsFiniteSet(C) /\ Cardinality(C) \in Nat
         /\ IsFiniteSet(R) /\ Cardinality(R) \in Nat
         /\ Cardinality(R) <= Cardinality(Req) /\ Cardinality(Req) \in Nat
<1>1. IsFiniteSet(1..n)
  BY FS_Interval
<1> QED
  BY <1>1, FS_Subset, FS_CardinalityType

LEMMA OneMore ==
  ASSUME NEW S, IsFiniteSet(S), NEW x
  PROVE  IsFiniteSet(S \cup {x}) /\ Cardinality(S \cup {x}) <= Cardinality(S) + 1
<1>1. Cardinality(S) \in Nat
  BY FS_CardinalityType
<1>2. /\ IsFiniteSet(S \cup {x})
      /\ Cardinality(S \cup {x}) = IF x \in S THEN Cardinality(S) ELSE Cardinality(S) + 1
  BY FS_AddElement
<1> QED
  BY <1>1, <1>2

LEMMA FiniteCounts ==
  ASSUME TypeInv, NEW t
  PROVE  issued \in Nat /\ Children(t) \subseteq 1..issued /\ Rotating(t) \subseteq Req
  BY DEF TypeInv, TypeOK, Children, Rotating, Row

(* Whoever refreshes a token without successors may add one each. *)
LEMMA Unspent ==
  ASSUME TypeInv', NEW t, Children(t)' = {} PROVE Bounded(t)'
<1>1. issued' \in Nat /\ Rotating(t)' \subseteq Req
  BY DEF TypeInv, TypeOK, Rotating
<1>2. Cardinality(Children(t)') = 0 /\ Cardinality(Rotating(t)') <= Cardinality(Req)
  BY <1>1, SetCounts, FS_EmptySet
<1> QED
  BY <1>1, <1>2, SetCounts DEF Bounded

(* Nobody starts to refresh it, and it gets no successor. *)
LEMMA Kept ==
  ASSUME TypeInv, NEW t, Bounded(t), Children(t)' = Children(t), Rotating(t)' \subseteq Rotating(t)
  PROVE  Bounded(t)'
<1>1. /\ Cardinality(Children(t)) \in Nat /\ Cardinality(Rotating(t)) \in Nat
      /\ IsFiniteSet(Rotating(t)) /\ Cardinality(Req) \in Nat
  BY FiniteCounts, SetCounts
<1>2. Cardinality(Rotating(t)') <= Cardinality(Rotating(t)) /\ Cardinality(Rotating(t)') \in Nat
  BY <1>1, FS_Subset, FS_CardinalityType
<1> QED
  BY <1>1, <1>2 DEF Bounded

LEMMA ReuseInit == Init => ReuseInv
  BY TypeInit DEF Init, ReuseInv, RotationInv, UnspentUntilRevoked, ReuseBounded, Row

LEMMA ReuseStep == ReuseInv /\ [Next]_vars => ReuseInv'
<1> SUFFICES ASSUME ReuseInv, [Next]_vars, NEW t \in Row' PROVE Bounded(t)'
  BY RotationStep DEF ReuseInv, ReuseBounded, Bounded
<1>0. TypeInv /\ TypeInv' /\ (t \in Row => Bounded(t)) /\ UnspentUntilRevoked
  BY TypeStep DEF ReuseInv, RotationInv, ReuseBounded, Bounded
<1>1. ASSUME NEW r \in Req, Issue(r) PROVE Bounded(t)'
  <2> DEFINE n == issued + 1
  <2>1. /\ Row' = Row \cup {n} /\ n \notin Row
        /\ \A u : u = n => Children(u)' = {}
    BY <1>0, <1>1, ChildrenOfIssue
  <2>2. CASE t \notin Row
    BY <1>0, <2>1, <2>2, Unspent
  <2>3. CASE t \in Row /\ At(r, "refresh_issue") /\ t = task[r].token
    <3>1. Children(t)' = Children(t) \cup {n}
      BY <1>0, <1>1, <2>3, ChildrenOfIssue
    <3>2. Rotating(t)' \subseteq Rotating(t) \ {r} /\ r \in Rotating(t)
      BY <1>0, <1>1, <2>3 DEF Issue, Put, Rotating, TypeInv, TypeOK
    <3>3. /\ Cardinality(Children(t)) \in Nat /\ IsFiniteSet(Children(t))
          /\ Cardinality(Rotating(t)) \in Nat /\ IsFiniteSet(Rotating(t))
          /\ Cardinality(Req) \in Nat
      BY <1>0, FiniteCounts, SetCounts
    <3>4. /\ Cardinality(Children(t)') <= Cardinality(Children(t)) + 1
          /\ Cardinality(Children(t)') \in Nat
      <4>1. /\ IsFiniteSet(Children(t) \cup {n})
            /\ Cardinality(Children(t) \cup {n}) <= Cardinality(Children(t)) + 1
        BY <3>3, OneMore
      <4> QED
        BY <3>1, <4>1, FS_CardinalityType
    <3>5. /\ Cardinality(Rotating(t)') <= Cardinality(Rotating(t)) - 1
          /\ Cardinality(Rotating(t)') \in Nat
      <4>1. /\ IsFiniteSet(Rotating(t) \ {r})
            /\ Cardinality(Rotating(t) \ {r}) = Cardinality(Rotating(t)) - 1
        BY <3>2, <3>3, FS_RemoveElement
      <4> QED
        BY <3>2, <4>1, FS_Subset, FS_CardinalityType
    <3> QED
      BY <1>0, <2>3, <3>3, <3>4, <3>5 DEF Bounded
  <2>4. CASE t \in Row /\ ~(At(r, "refresh_issue") /\ t = task[r].token)
    <3>1. Children(t)' = Children(t)
      BY <1>0, <1>1, <2>4, ChildrenOfIssue
    <3>2. Rotating(t)' \subseteq Rotating(t)
      BY <1>0, <1>1 DEF Issue, Put, Rotating, TypeInv, TypeOK
    <3> QED
      BY <1>0, <2>4, <3>1, <3>2, Kept
  <2> QED
    BY <2>2, <2>3, <2>4
<1>2. ASSUME NEW r \in Req, NEW k \in Token, RefreshValidate(r, k) PROVE Bounded(t)'
  <2>1. Row' = Row /\ Children(t)' = Children(t)
    BY <1>2, RowsKept DEF RefreshValidate, Validate
  <2>2. CASE t = k
    BY <1>0, <1>2, <2>1, <2>2, Unspent DEF RefreshValidate, Validate, Valid, UnspentUntilRevoked
  <2>3. CASE t # k
    <3>1. Rotating(t)' \subseteq Rotating(t)
      BY <1>0, <1>2, <2>3 DEF RefreshValidate, Validate, Put, Rotating, TypeInv, TypeOK
    <3> QED
      BY <1>0, <2>1, <3>1, Kept
  <2> QED
    BY <2>2, <2>3
<1>3. ASSUME NEW r \in Req,
             \/ \E k \in Token : LogoutValidate(r, k)
             \/ RefreshRevoke(r) \/ LogoutRevoke(r) \/ Login(r) \/ IssueFails(r)
      PROVE  Bounded(t)'
  <2>1. Row' = Row /\ Children(t)' = Children(t)
    BY <1>3, RowsKept
    DEF LogoutValidate, Validate, RefreshRevoke, LogoutRevoke, Login, IssueFails
  <2>2. Rotating(t)' \subseteq Rotating(t)
    BY <1>0, <1>3
    DEF LogoutValidate, Validate, RefreshRevoke, LogoutRevoke, Login, IssueFails, Put, Rotating,
        TypeInv, TypeOK
  <2> QED
    BY <1>0, <2>1, <2>2, Kept
<1>4. CASE Tick \/ UNCHANGED vars
  <2>1. Row' = Row /\ Children(t)' = Children(t) /\ Rotating(t)' = Rotating(t)
    BY <1>4, RowsKept DEF Tick, vars, Rotating
  <2> QED
    BY <1>0, <2>1, Kept
<1> QED
  BY <1>1, <1>2, <1>3, <1>4 DEF Next

(* ReuseBounded: a token yields no more successors than requests can be in *)
(* progress at a time.                                                     *)
THEOREM ReuseIsBounded == Spec => []ReuseBounded
<1>1. ReuseInv => ReuseBounded
  BY DEF ReuseInv
<1> QED
  BY <1>1, ReuseInit, ReuseStep, PTL DEF Spec
-----------------------------------------------------------------------------
(* A token that is only ever held by one request at a time: until it is    *)
(* revoked the one request that holds it is the only use made of it.       *)
Alone(t) ==
    /\ \A q, r \in Holding(t) : q = r
    /\ Holding(t) # {} => t \notin revoked
    /\ t \in ended => Children(t) = {} /\ Rotating(t) = {}
LogoutInv == RotationInv /\ \A t \in Row \ raced : Alone(t)

LEMMA LogoutInit == Init => LogoutInv
  BY TypeInit DEF Init, LogoutInv, RotationInv, UnspentUntilRevoked, Row

(* Nobody comes to hold it, and it gets no successor. *)
LEMMA AloneKept ==
  ASSUME NEW t, Alone(t), Holding(t)' \subseteq Holding(t),
         Rotating(t)' \subseteq Rotating(t), Children(t)' = Children(t),
         Holding(t)' # {} => (t \in revoked' <=> t \in revoked),
         t \in ended' <=> t \in ended
  PROVE  Alone(t)'
  BY DEF Alone

LEMMA LogoutStep == LogoutInv /\ [Next]_vars => LogoutInv'
<1> SUFFICES ASSUME LogoutInv, [Next]_vars, NEW t \in Row' \ raced' PROVE Alone(t)'
  BY RotationStep DEF LogoutInv
<1>0. TypeInv /\ TypeInv' /\ RotationInv /\ UnspentUntilRevoked
  BY TypeStep DEF LogoutInv, RotationInv
<1> USE DEF Put, Holding, Rotating
<1>1. ASSUME NEW r \in Req, NEW k \in Token, NEW pc \in {"refresh_revoke", "logout_revoke"},
             Validate(r, k, pc)
      PROVE  Alone(t)'
  <2>1. /\ Row' = Row /\ t \in Row \ raced /\ Children(t)' = Children(t)
        /\ UNCHANGED <<revoked, ended>> /\ ended \subseteq revoked /\ k \notin revoked
    BY <1>0, <1>1, RowsKept DEF Validate, Valid, TypeInv, TypeOK
  <2>2. Alone(t)
    BY <2>1 DEF LogoutInv
  <2>3. CASE t # k
    <3>1. Holding(t)' = Holding(t) /\ Rotating(t)' = Rotating(t)
      BY <1>0, <1>1, <2>3 DEF Validate, TypeInv, TypeOK
    <3> QED
      BY <2>1, <2>2, <3>1, AloneKept
  <2>4. CASE t = k
    <3>1. Holding(t) = {}
      BY <1>1, <2>4 DEF Validate
    <3>2. Holding(t)' = {r}
      BY <1>0, <1>1, <2>4, <3>1 DEF Validate, TypeInv, TypeOK
    <3> QED
      BY <2>1, <2>4, <3>2 DEF Alone
  <2> QED
    BY <2>3, <2>4
<1>2. ASSUME NEW r \in Req, RefreshRevoke(r) PROVE Alone(t)'
  <2>1. /\ Row' = Row /\ t \in Row \ raced /\ Children(t)' = Children(t)
        /\ revoked' = revoked \cup {task[r].token} /\ ended' = ended
    BY <1>0, <1>2, RowsKept DEF RefreshRevoke, Revoked
  <2>2. Alone(t)
    BY <2>1 DEF LogoutInv
  <2>3. /\ Holding(t)' = Holding(t) \ {r} /\ Rotating(t)' = Rotating(t)
        /\ t = task[r].token => r \in Holding(t)
    BY <1>0, <1>2 DEF RefreshRevoke, TypeInv, TypeOK
  <2>4. Holding(t)' # {} => t # task[r].token
    BY <2>2, <2>3 DEF Alone
  <2> QED
    BY <2>1, <2>2, <2>3, <2>4, AloneKept
<1>3. ASSUME NEW r \in Req, LogoutRevoke(r) PROVE Alone(t)'
  <2>1. /\ Row' = Row /\ t \in Row \ raced /\ Children(t)' = Children(t)
        /\ revoked' = revoked \cup {task[r].token} /\ ended' = ended \cup {task[r].token}
    BY <1>0, <1>3, RowsKept DEF LogoutRevoke, Revoked
  <2>2. Alone(t)
    BY <2>1 DEF LogoutInv
  <2>3. /\ Holding(t)' = Holding(t) \ {r} /\ Rotating(t)' = Rotating(t)
        /\ t = task[r].token => r \in Holding(t)
    BY <1>0, <1>3 DEF LogoutRevoke, TypeInv, TypeOK
  <2>4. CASE t # task[r].token
    BY <2>1, <2>2, <2>3, <2>4, AloneKept
  <2>5. CASE t = task[r].token
    <3>1. Holding(t) = {r} /\ t \notin revoked
      BY <2>2, <2>3, <2>5 DEF Alone
    <3>2. Children(t) = {}
      BY <1>0, <2>1, <3>1 DEF UnspentUntilRevoked
    <3>3. Rotating(t) = {}
      <4> SUFFICES ASSUME NEW q \in Rotating(t) PROVE FALSE
        OBVIOUS
      <4>1. CASE At(q, "refresh_revoke")
        BY <1>3, <3>1, <4>1 DEF LogoutRevoke
      <4>2. CASE At(q, "refresh_issue")
        BY <1>0, <3>1, <4>2 DEF TypeInv, TokensHeld
      <4> QED
        BY <4>1, <4>2
    <3> QED
      BY <2>1, <2>3, <3>1, <3>2, <3>3 DEF Alone
  <2> QED
    BY <2>4, <2>5
<1>4. ASSUME NEW r \in Req, Issue(r) PROVE Alone(t)'
  <2> DEFINE n == issued + 1
  <2>1. /\ Row' = Row \cup {n} /\ n \notin Row
        /\ \A u : u = n => Children(u)' = {}
    BY <1>0, <1>4, ChildrenOfIssue
  <2>2. UNCHANGED <<revoked, ended, raced>>
    BY <1>4 DEF Issue
  <2>3. Holding(t)' = Holding(t) /\ Rotating(t)' \subseteq Rotating(t)
    BY <1>0, <1>4 DEF Issue, TypeInv, TypeOK
  <2>4. CASE t \notin Row
    <3>1. Holding(t) = {} /\ t \notin ended
      BY <1>0, <2>4 DEF TypeInv, TypeOK, TokensHeld
    <3> QED
      BY <2>2, <2>3, <3>1 DEF Alone
  <2>5. CASE t \in Row
    <3>1. Alone(t)
      BY <2>2, <2>5 DEF LogoutInv
    <3>2. CASE At(r, "refresh_issue") /\ t = task[r].token
      <4>1. r \in Rotating(t)
        BY <3>2
      <4>2. t \notin ended
        BY <3>1, <4>1 DEF Alone
      <4> QED
        BY <2>2, <2>3, <3>1, <4>2 DEF Alone
    <3>3. CASE ~(At(r, "refresh_issue") /\ t = task[r].token)
      <4>1. Children(t)' = Children(t)
        BY <1>0, <1>4, <2>5, <3>3, ChildrenOfIssue
      <4> QED
        BY <2>2, <2>3, <3>1, <4>1, AloneKept
    <3> QED
      BY <3>2, <3>3
  <2> QED
    BY <2>4, <2>5
<1>5. CASE \/ \E r \in Req : Login(r) \/ IssueFails(r)
           \/ Tick \/ UNCHANGED vars
  <2>1. /\ Row' = Row /\ t \in Row \ raced /\ Children(t)' = Children(t)
        /\ UNCHANGED <<revoked, ended>>
    BY <1>5, RowsKept DEF Login, IssueFails, Tick, vars
  <2>2. Alone(t)
    BY <2>1 DEF LogoutInv
  <2>3. Holding(t)' = Holding(t) /\ Rotating(t)' \subseteq Rotating(t)
    BY <1>0, <1>5 DEF Login, IssueFails, Tick, vars, TypeInv, TypeOK
  <2> QED
    BY <2>1, <2>2, <2>3, AloneKept
<1> QED
  BY <1>1, <1>2, <1>3, <1>4, <1>5 DEF Next, RefreshValidate, LogoutValidate

(* LogoutIsFinal: no successor of a token that was logged out, unless two  *)
(* requests held it at a time.                                             *)
THEOREM LogoutEndsSession == Spec => []LogoutIsFinal
<1>1. LogoutInv => LogoutIsFinal
  BY DEF LogoutInv, RotationInv, TypeInv, TypeOK, Alone, LogoutIsFinal
<1> QED
  BY <1>1, LogoutInit, LogoutStep, PTL DEF Spec
-----------------------------------------------------------------------------
(* A token that is only ever held by one request at a time is rotated by   *)
(* one at most, and has no successor while it is.                          *)
Once(t) ==
    /\ \A q, r \in Rotating(t) : q = r
    /\ Rotating(t) # {} => Children(t) = {}
    /\ \A u, v \in Children(t) : u = v
OnceInv == LogoutInv /\ \A t \in Row \ raced : Once(t)

LEMMA OnceInit == Init => OnceInv
  BY LogoutInit DEF Init, OnceInv, Row

LEMMA OnceKept ==
  ASSUME NEW t, Once(t), Rotating(t)' \subseteq Rotating(t), Children(t)' = Children(t)
  PROVE  Once(t)'
  BY DEF Once

LEMMA OnceStep == OnceInv /\ [Next]_vars => OnceInv'
<1> SUFFICES ASSUME OnceInv, [Next]_vars, NEW t \in Row' \ raced' PROVE Once(t)'
  BY LogoutStep DEF OnceInv
<1>0. /\ TypeInv /\ TypeInv' /\ UnspentUntilRevoked
      /\ t \in Row \ raced => Alone(t) /\ Once(t)
  BY TypeStep DEF OnceInv, LogoutInv, RotationInv
<1> USE DEF Put, Rotating
<1>1. ASSUME NEW r \in Req, NEW k \in Token, RefreshValidate(r, k) PROVE Once(t)'
  <2>1. /\ Row' = Row /\ Children(t)' = Children(t) /\ raced \subseteq raced'
        /\ k \in Row \ revoked
    BY <1>1, RowsKept DEF RefreshValidate, Validate, Valid
  <2>2. CASE t # k
    <3>1. Rotating(t)' \subseteq Rotating(t)
      BY <1>0, <1>1, <2>2 DEF RefreshValidate, Validate, TypeInv, TypeOK
    <3> QED
      BY <1>0, <2>1, <3>1, OnceKept
  <2>3. CASE t = k
    <3>1. Children(t) = {}
      BY <1>0, <2>1, <2>3 DEF UnspentUntilRevoked
    <3>2. Rotating(t) = {}
      BY <1>0, <1>1, <2>1, <2>3 DEF RefreshValidate, Validate, Holding, TypeInv, TokensHeld
    <3>3. Rotating(t)' \subseteq {r}
      BY <1>0, <1>1, <3>2 DEF RefreshValidate, Validate, TypeInv, TypeOK
    <3> QED
      BY <2>1, <3>1, <3>3 DEF Once
  <2> QED
    BY <2>2, <2>3
<1>2. ASSUME NEW r \in Req, Issue(r) PROVE Once(t)'
  <2> DEFINE n == issued + 1
  <2>1. /\ Row' = Row \cup {n} /\ n \notin Row /\ raced' = raced
        /\ \A u : u = n => Children(u)' = {}
    BY <1>0, <1>2, ChildrenOfIssue DEF Issue
  <2>2. Rotating(t)' \subseteq Rotating(t) \ {r}
    BY <1>0, <1>2 DEF Issue, TypeInv, TypeOK
  <2>3. CASE t \notin Row
    <3>1. Rotating(t) = {} /\ Children(t)' = {}
      BY <1>0, <2>1, <2>3 DEF TypeInv, TokensHeld
    <3> QED
      BY <2>2, <3>1 DEF Once
  <2>4. CASE t \in Row
    <3>1. Once(t)
      BY <1>0, <2>1, <2>4
    <3>2. CASE At(r, "refresh_issue") /\ t = task[r].token
      <4>1. r \in Rotating(t) /\ Children(t)' = Children(t) \cup {n}
        BY <1>0, <1>2, <2>4, <3>2, ChildrenOfIssue
      <4>2. Rotating(t)' = {} /\ Children(t)' = {n}
        BY <2>2, <3>1, <4>1 DEF Once
      <4> QED
        BY <4>2 DEF Once
    <3>3. CASE ~(At(r, "refresh_issue") /\ t = task[r].token)
      <4>1. Children(t)' = Children(t)
        BY <1>0, <1>2, <2>4, <3>3, ChildrenOfIssue
      <4> QED
        BY <2>2, <3>1, <4>1, OnceKept
    <3> QED
      BY <3>2, <3>3
  <2> QED
    BY <2>3, <2>4
<1>3. ASSUME NEW r \in Req,
             \/ \E k \in Token : LogoutValidate(r, k)
             \/ RefreshRevoke(r) \/ LogoutRevoke(r) \/ Login(r) \/ IssueFails(r)
      PROVE  Once(t)'
  <2>1. Row' = Row /\ Children(t)' = Children(t) /\ raced \subseteq raced'
    BY <1>3, RowsKept
    DEF LogoutValidate, Validate, RefreshRevoke, LogoutRevoke, Login, IssueFails
  <2>2. Rotating(t)' \subseteq Rotating(t)
    BY <1>0, <1>3
    DEF LogoutValidate, Validate, RefreshRevoke, LogoutRevoke, Login, IssueFails, TypeInv, TypeOK
  <2> QED
    BY <1>0, <2>1, <2>2, OnceKept
<1>4. CASE Tick \/ UNCHANGED vars
  <2>1. /\ Row' = Row /\ Children(t)' = Children(t) /\ Rotating(t)' = Rotating(t)
        /\ raced' = raced
    BY <1>4, RowsKept DEF Tick, vars
  <2> QED
    BY <1>0, <2>1, OnceKept
<1> QED
  BY <1>1, <1>2, <1>3, <1>4 DEF Next

(* UsedOnceUnraced: a token that no two requests held at a time is used    *)
(* once, as the comment in refresh says, whatever else is in progress.     *)
THEOREM UsedOnceByOne == Spec => []UsedOnceUnraced
<1>1. OnceInv => UsedOnceUnraced
  <2> SUFFICES ASSUME OnceInv, NEW t \in Row \ raced PROVE Cardinality(Children(t)) <= 1
    BY DEF UsedOnceUnraced
  <2>1. \A u, v \in Children(t) : u = v
    BY DEF OnceInv, Once
  <2>2. CASE Children(t) = {}
    BY <2>2, FS_EmptySet
  <2>3. CASE Children(t) # {}
    <3>1. PICK u : Children(t) = {u}
      BY <2>1, <2>3
    <3>2. Cardinality({u}) = 1
      BY FS_Singleton
    <3> QED
      BY <3>1, <3>2
  <2> QED
    BY <2>2, <2>3
<1> QED
  BY <1>1, OnceInit, OnceStep, PTL DEF Spec
-----------------------------------------------------------------------------
(* What became of a revoked token. *)
Accounted(t) ==
    \/ Children(t) # {}
    \/ \E r \in Req : At(r, "refresh_issue") /\ task[r].token = t
    \/ t \in ended \cup broken
AccountInv == TypeInv /\ RevocationAccounted

LEMMA AccountInit == Init => AccountInv
  BY TypeInit DEF Init, AccountInv, RevocationAccounted

LEMMA AccountStep == AccountInv /\ [Next]_vars => AccountInv'
<1> SUFFICES ASSUME AccountInv, [Next]_vars, NEW t \in revoked' PROVE Accounted(t)'
  BY TypeStep DEF AccountInv, RevocationAccounted, Accounted
<1>0. TypeInv /\ TypeInv' /\ (t \in revoked => Accounted(t) /\ t \in Row)
  BY TypeStep DEF AccountInv, RevocationAccounted, Accounted, TypeInv, TypeOK
<1> USE DEF Put, Accounted
<1>1. ASSUME NEW r \in Req, NEW k \in Token, RefreshValidate(r, k) \/ LogoutValidate(r, k)
      PROVE  Accounted(t)'
  <2>1. Children(t)' = Children(t) /\ UNCHANGED <<revoked, ended, broken>>
    BY <1>1, RowsKept DEF RefreshValidate, LogoutValidate, Validate
  <2>2. \A q \in Req : At(q, "refresh_issue") => task'[q] = task[q]
    BY <1>0, <1>1 DEF RefreshValidate, LogoutValidate, Validate, TypeInv, TypeOK
  <2> QED
    BY <1>0, <2>1, <2>2
<1>2. ASSUME NEW r \in Req, RefreshRevoke(r) \/ LogoutRevoke(r) PROVE Accounted(t)'
  <2>1. Children(t)' = Children(t) /\ revoked' = revoked \cup {task[r].token} /\ broken' = broken
    BY <1>2, RowsKept DEF RefreshRevoke, LogoutRevoke, Revoked
  <2>2. \A q \in Req : At(q, "refresh_issue") => task'[q] = task[q]
    BY <1>0, <1>2 DEF RefreshRevoke, LogoutRevoke, TypeInv, TypeOK
  <2>3. CASE t \in revoked
    BY <1>0, <1>2, <2>1, <2>2, <2>3 DEF RefreshRevoke, LogoutRevoke
  <2>4. CASE t = task[r].token
    BY <1>0, <1>2, <2>4 DEF RefreshRevoke, LogoutRevoke, TypeInv, TypeOK
  <2> QED
    BY <2>1, <2>3, <2>4
<1>3. ASSUME NEW r \in Req, Issue(r) PROVE Accounted(t)'
  <2> DEFINE n == issued + 1
  <2>1. t \in Row /\ Accounted(t) /\ UNCHANGED <<ended, broken>>
    BY <1>0, <1>3 DEF Issue
  <2>2. Children(t)' = IF At(r, "refresh_issue") /\ t = task[r].token
                       THEN Children(t) \cup {n} ELSE Children(t)
    BY <1>0, <1>3, <2>1, ChildrenOfIssue
  <2>3. \A q \in Req \ {r} : task'[q] = task[q]
    BY <1>0, <1>3 DEF Issue, TypeInv, TypeOK
  <2> QED
    BY <2>1, <2>2, <2>3
<1>4. ASSUME NEW r \in Req, IssueFails(r) PROVE Accounted(t)'
  <2>1. Children(t)' = Children(t) /\ UNCHANGED <<revoked, ended>> /\ broken \subseteq broken'
    BY <1>4, RowsKept DEF IssueFails
  <2>2. /\ \A q \in Req \ {r} : task'[q] = task[q]
        /\ At(r, "refresh_issue") => task[r].token \in broken'
    BY <1>0, <1>4 DEF IssueFails, TypeInv, TypeOK
  <2> QED
    BY <1>0, <2>1, <2>2
<1>5. CASE (\E r \in Req : Login(r)) \/ Tick \/ UNCHANGED vars
  <2>1. Children(t)' = Children(t) /\ UNCHANGED <<revoked, ended, broken>>
    BY <1>5, RowsKept DEF Login, Tick, vars
  <2>2. \A q \in Req : At(q, "refresh_issue") => task'[q] = task[q]
    BY <1>0, <1>5 DEF Login, Tick, vars, TypeInv, TypeOK
  <2> QED
    BY <1>0, <2>1, <2>2
<1> QED
  BY <1>1, <1>2, <1>3, <1>4, <1>5 DEF Next

(* RevocationAccounted: a revoked token was rotated, is being rotated, was *)
(* logged out, or belongs to a refresh that failed.                        *)
THEOREM NoSessionLostSilently == Spec => []RevocationAccounted
<1>1. AccountInv => RevocationAccounted
  BY DEF AccountInv
<1> QED
  BY <1>1, AccountInit, AccountStep, PTL DEF Spec
=============================================================================

----------------------- MODULE RoomMembership_proofs -----------------------
(* Proofs about RoomMembership, for any users, slots, tables and bounds.   *)
EXTENDS RoomRefinement, FiniteSetTheorems, WellFoundedInduction, TLAPS

(* A handoff has chosen somebody, and an insertion knows its table. *)
Handing == {"handoff", "handoff_members"}
LocalsChosen ==
    \A r \in Req :
       /\ task[r].pc \in Handing => task[r].peer \in User
       /\ At(r, "insert") => task[r].table \in Tables

TypeInv == TypeOK /\ LocalsChosen

USE DEF At, Me, Rest, Handing, roomVars, sweepVars

LEMMA TypeInit == Init => TypeInv
  BY TimeAssumption DEF Init, TypeInv, TypeOK, LocalsChosen, Task, PC

LEMMA PutType ==
  ASSUME TypeInv, NEW r \in Req, NEW pc \in PC, NEW u \in User \cup {NoUser},
         NEW peer \in User \cup {NoUser}, NEW t \in Tables \cup {NoTable},
         pc \in Handing => peer \in User, pc = "insert" => t \in Tables,
         Put(r, pc, u, peer, t)
  PROVE  task' \in [Req -> Task] /\ LocalsChosen'
  BY DEF TypeInv, TypeOK, LocalsChosen, Task, Put

LEMMA AnswerType ==
  ASSUME TypeInv, NEW r \in Req, NEW outcome \in Rest, Answer(r, outcome)
  PROVE  task' \in [Req -> Task] /\ LocalsChosen'
  BY PutType DEF Answer, PC

LEMMA MoveType ==
  ASSUME TypeInv, NEW r \in Req, NEW pc \in PC, NEW peer \in User \cup {NoUser},
         pc \in Handing => peer \in User, pc # "insert",
         Move(r, pc, peer)
  PROVE  task' \in [Req -> Task] /\ LocalsChosen'
  <1>1. Me(r) \in User \cup {NoUser}
    BY DEF TypeInv, TypeOK, Task
  <1> QED
    BY <1>1, PutType DEF Move

LEMMA GotoType ==
  ASSUME TypeInv, NEW r \in Req, NEW pc \in PC,
         pc \notin Handing \cup {"insert"}, Goto(r, pc)
  PROVE  task' \in [Req -> Task] /\ LocalsChosen'
  BY MoveType DEF Goto

LEMMA BeginType ==
  ASSUME TypeInv, NEW r \in Req, NEW pc \in PC, NEW u \in User,
         NEW peer \in User \cup {NoUser}, NEW t \in Tables \cup {NoTable},
         pc \notin Handing, pc = "insert" => t \in Tables,
         Begin(r, pc, u, peer, t)
  PROVE  task' \in [Req -> Task] /\ LocalsChosen'
  BY PutType DEF Begin

LEMMA TypeStep == TypeInv /\ [Next]_vars => TypeInv'
<1> SUFFICES ASSUME TypeInv, [Next]_vars PROVE TypeInv'
  OBVIOUS
<1> USE DEF TypeInv, TypeOK
<1>1. ASSUME NEW u \in User, CreateRoom(u) PROVE TypeInv'
  BY <1>1 DEF CreateRoom, LocalsChosen
<1>2. ASSUME NEW r \in Req, NEW u \in User, JoinCheck(r, u) PROVE TypeInv'
  BY <1>2, BeginType DEF JoinCheck, PC
<1>3. ASSUME NEW r \in Req, NEW u \in User, LeaveReadRoom(r, u) PROVE TypeInv'
  BY <1>3, BeginType DEF LeaveReadRoom, PC
<1>4. ASSUME NEW r \in Req, NEW u \in User, DeleteRequest(r, u) PROVE TypeInv'
  BY <1>4, BeginType DEF DeleteRequest, PC
<1>5. ASSUME NEW r \in Req, NEW u \in User, NEW t \in Tables, InsertCheck(r, u, t)
      PROVE  TypeInv'
  BY <1>5, BeginType DEF InsertCheck, PC
<1>6. ASSUME NEW r \in Req, JoinCount(r) PROVE TypeInv'
  BY <1>6, GotoType, AnswerType DEF JoinCount, PC
<1>7. ASSUME NEW r \in Req, JoinUpsert(r) PROVE TypeInv'
  BY <1>7, AnswerType DEF JoinUpsert, StayBegins
<1>8. ASSUME NEW r \in Req, LeaveCheck(r) PROVE TypeInv'
  BY <1>8, GotoType, AnswerType DEF LeaveCheck, PC
<1>9. ASSUME NEW r \in Req, LeaveMember(r) PROVE TypeInv'
  BY <1>9, AnswerType DEF LeaveMember
<1>10. ASSUME NEW r \in Req, LeaveSuccessor(r) PROVE TypeInv'
  <2>1. CASE Goto(r, "delete_read")
    BY <1>10, <2>1, GotoType DEF LeaveSuccessor, PC
  <2>2. ASSUME NEW v \in Successors(Me(r)),
               Move(r, "handoff", v)
        PROVE  TypeInv'
    <3>1. v \in User
      BY DEF Successors, Longest, Active
    <3> QED
      BY <1>10, <2>2, <3>1, MoveType DEF LeaveSuccessor, PC
  <2> QED
    BY <1>10, <2>1, <2>2 DEF LeaveSuccessor
<1>11. ASSUME NEW r \in Req, HandoffRoom(r) PROVE TypeInv'
  <2>1. CASE Answer(r, "failed")
    BY <1>11, <2>1, AnswerType DEF HandoffRoom
  <2>2. CASE Move(r, "handoff_members", task[r].peer)
    <3>1. task[r].peer \in User
      BY <1>11 DEF HandoffRoom, LocalsChosen
    <3> QED
      BY <1>11, <2>2, <3>1, MoveType DEF HandoffRoom, PC
  <2> QED
    BY <1>11, <2>1, <2>2 DEF HandoffRoom
<1>12. ASSUME NEW r \in Req, HandoffMembers(r) PROVE TypeInv'
  <2>1. task[r].peer \in User
    BY <1>12 DEF HandoffMembers, LocalsChosen
  <2> QED
    BY <1>12, <2>1, GotoType DEF HandoffMembers, Promoted, PC
<1>13. ASSUME NEW r \in Req, DeleteRead(r) PROVE TypeInv'
  BY <1>13, GotoType, AnswerType DEF DeleteRead, PC
<1>14. ASSUME NEW r \in Req, SweepMembers(r) PROVE TypeInv'
  BY <1>14, GotoType DEF SweepMembers, PC, Members
<1>15. ASSUME NEW r \in Req, SweepMessages(r) PROVE TypeInv'
  BY <1>15, GotoType DEF SweepMessages, PC
<1>16. ASSUME NEW r \in Req, DeleteRow(r) PROVE TypeInv'
  BY <1>16, GotoType, AnswerType DEF DeleteRow, EndSweep, PC
<1>17. ASSUME NEW r \in Req, Insert(r) PROVE TypeInv'
  <2>1. task[r].table \in Tables
    BY <1>17 DEF Insert, LocalsChosen
  <2> QED
    BY <1>17, <2>1, AnswerType DEF Insert
<1>18. ASSUME NEW r \in Req, Evict(r) PROVE TypeInv'
  BY <1>18, GotoType, AnswerType DEF Evict, EvictId, EvictCode, PC
<1>19. ASSUME NEW r \in Req, NEW q \in Req, Deadlock(r, q) PROVE TypeInv'
  BY <1>19, AnswerType DEF Deadlock, EndSweep
<1>20. CASE DrainQueue
  BY <1>20 DEF DrainQueue, LocalsChosen
<1>21. CASE Tick
  BY <1>21, TimeAssumption DEF Tick, LocalsChosen
<1>22. CASE UNCHANGED vars
  BY <1>22 DEF vars, LocalsChosen
<1> QED
  BY <1>1, <1>2, <1>3, <1>4, <1>5, <1>6, <1>7, <1>8, <1>9, <1>10, <1>11, <1>12, <1>13,
     <1>14, <1>15, <1>16, <1>17, <1>18, <1>19, <1>20, <1>21, <1>22
  DEF Next, RoomStep, Arrive, Handle

(* TypeOK: every variable always has its type. *)
THEOREM TypeCorrect == Spec => []TypeOK
<1>1. TypeInv => TypeOK
  BY DEF TypeInv
<1> QED
  BY <1>1, TypeInit, TypeStep, PTL DEF Spec

-----------------------------------------------------------------------------
(* The locks.  A member row that is swept belongs to a deletion that goes  *)
(* on or waits for a handoff only.                                         *)
Sweeping == {"sweep_messages", "delete_room"}
SweepOwned == sweptMembers # {} => \E s \in Req : task[s].pc \in Sweeping
LockInv == TypeInv /\ SweepOwned

LEMMA LockStep == LockInv /\ [Next]_vars => LockInv'
<1> SUFFICES ASSUME LockInv, [Next]_vars, sweptMembers' # {}
             PROVE  \E s \in Req : task'[s].pc \in Sweeping
  BY TypeStep DEF LockInv, SweepOwned
<1>0. task \in [Req -> Task] /\ SweepOwned
  BY DEF LockInv, TypeInv, TypeOK
<1> USE DEF Sweeping
<1>1. ASSUME NEW r \in Req, SweepMembers(r) PROVE task'[r].pc \in Sweeping
  BY <1>0, <1>1 DEF SweepMembers, Goto, Move, Put
<1>2. ASSUME NEW r \in Req, SweepMessages(r) PROVE task'[r].pc \in Sweeping
  BY <1>0, <1>2 DEF SweepMessages, Goto, Move, Put
<1>3. ASSUME NEW r \in Req, DeleteRow(r) PROVE sweptMembers' = {}
  BY <1>3 DEF DeleteRow, EndSweep
<1>4. ASSUME NEW r \in Req, NEW q \in Req, Deadlock(r, q)
      PROVE  task'[r].pc \in Sweeping
  BY <1>0, <1>4 DEF Deadlock, Deadlocked, EndSweep, Answer, Put
<1>5. ASSUME NEW r \in Req, task[r].pc \notin Sweeping, sweptMembers' = sweptMembers,
             \A s \in Req \ {r} : task'[s] = task[s]
      PROVE  \E s \in Req : task'[s].pc \in Sweeping
  BY <1>0, <1>5 DEF SweepOwned
<1>6. ASSUME NEW r \in Req, Arrive(r) PROVE \E s \in Req : task'[s].pc \in Sweeping
  <2>1. task[r].pc \notin Sweeping /\ sweptMembers' = sweptMembers
    BY <1>6 DEF Arrive, JoinCheck, LeaveReadRoom, DeleteRequest, InsertCheck, Begin
  <2>2. \A s \in Req \ {r} : task'[s] = task[s]
    BY <1>0, <1>6 DEF Arrive, JoinCheck, LeaveReadRoom, DeleteRequest, InsertCheck, Begin, Put
  <2> QED
    BY <1>5, <2>1, <2>2
<1>7. ASSUME NEW r \in Req,
             \/ JoinCount(r) \/ JoinUpsert(r) \/ LeaveCheck(r) \/ LeaveMember(r)
             \/ LeaveSuccessor(r) \/ HandoffRoom(r) \/ HandoffMembers(r) \/ DeleteRead(r)
             \/ Insert(r) \/ Evict(r)
      PROVE  \E s \in Req : task'[s].pc \in Sweeping
  <2>1. task[r].pc \notin Sweeping /\ sweptMembers' = sweptMembers
    BY <1>7
    DEF JoinCount, JoinUpsert, LeaveCheck, LeaveMember, LeaveSuccessor, HandoffRoom,
        HandoffMembers, DeleteRead, Insert, Evict, EvictId, EvictCode
  <2>2. \A s \in Req \ {r} : task'[s] = task[s]
    <3>1. CASE JoinCount(r) \/ JoinUpsert(r) \/ LeaveCheck(r) \/ LeaveMember(r)
      BY <1>0, <3>1 DEF JoinCount, JoinUpsert, LeaveCheck, LeaveMember, Goto, Move, Answer, Put
    <3>2. CASE LeaveSuccessor(r) \/ HandoffRoom(r) \/ HandoffMembers(r)
      BY <1>0, <3>2 DEF LeaveSuccessor, HandoffRoom, HandoffMembers, Goto, Move, Answer, Put
    <3>3. CASE DeleteRead(r) \/ Insert(r) \/ Evict(r)
      BY <1>0, <3>3 DEF DeleteRead, Insert, Evict, EvictId, EvictCode, Goto, Move, Answer, Put
    <3> QED
      BY <1>7, <3>1, <3>2, <3>3
  <2> QED
    BY <1>5, <2>1, <2>2
<1>8. CASE (\E u \in User : CreateRoom(u)) \/ DrainQueue \/ Tick \/ UNCHANGED vars
  <2>1. UNCHANGED <<sweptMembers, task>>
    BY <1>8 DEF CreateRoom, DrainQueue, Tick, vars
  <2> QED
    BY <1>0, <2>1 DEF SweepOwned
<1> QED
  BY <1>1, <1>2, <1>3, <1>4, <1>6, <1>7, <1>8 DEF Next, RoomStep, Handle

(* SomebodyGoesOn: whatever the requests wait for, one of them does not     *)
(* wait, or PostgreSQL finds a handoff and a deletion in a deadlock.       *)
THEOREM NobodyIsStuck == Spec => []SomebodyGoesOn
<1>1. LockInv => SomebodyGoesOn
  <2> SUFFICES ASSUME LockInv, NEW r \in Req, Busy(r), \A s \in Req : Busy(s) => Waits(s)
               PROVE  \E s, q \in Req : Deadlocked(s, q)
    BY DEF SomebodyGoesOn
  <2>1. sweptMembers # {} => \E s \in Req : At(s, "delete_room")
    BY DEF LockInv, SweepOwned, Sweeping, Busy, Waits
  <2>2. \A s \in Req : At(s, "delete_room") => RoomRowLocked
    BY DEF Busy, Waits
  <2>3. RoomRowLocked
    BY <2>1, <2>2 DEF Busy, Waits
  <2>4. PICK q \in Req : At(q, "handoff_members") /\ Waits(q)
    BY <2>3 DEF RoomRowLocked, Busy
  <2>5. sweptMembers # {}
    BY <2>4 DEF Waits
  <2> QED
    BY <2>1, <2>4, <2>5 DEF Deadlocked
<1>2. Init => LockInv
  BY TypeInit DEF Init, LockInv, SweepOwned
<1> QED
  BY <1>1, <1>2, LockStep, PTL DEF Spec

LEMMA LeastExists ==
  ASSUME NEW T, T \subseteq Nat, T # {}
  PROVE  \E x \in T : \A y \in T : x <= y
<1> DEFINE R == {p \in Nat \X Nat : p[1] < p[2]}
<1>1. IsWellFoundedOn(R, Nat)
  BY NatLessThanWellFounded DEF OpToRel
<1>2. \A x, y \in Nat : y < x => <<y, x>> \in R
  OBVIOUS
<1> HIDE DEF R
<1>3. PICK x \in T : \A y \in T : ~(<<y, x>> \in R)
  BY <1>1, WFMin
<1>4. ASSUME NEW y \in T PROVE x <= y
  <2>1. x \in Nat /\ y \in Nat /\ ~(y < x)
    BY <1>2, <1>3
  <2> QED
    BY <2>1
<1> QED
  BY <1>4

(* A host who leaves a room that others are in has somebody to hand it to: *)
(* leaveRoom's findFirst is never empty where it deletes nothing.          *)
THEOREM SuccessorFound ==
  ASSUME TypeOK, NEW u \in User, Active \ {u} # {}
  PROVE  Successors(u) # {}
<1> DEFINE others == Active \ {u}
           T == {joinedAt[w] : w \in others}
<1>1. \A w \in others : joinedAt[w] \in Nat
  BY TimeAssumption DEF TypeOK, Active
<1>2. PICK x \in T : \A y \in T : x <= y
  <2>1. T \subseteq Nat /\ T # {}
    BY <1>1
  <2> QED
    BY <2>1, LeastExists
<1>3. PICK v \in others : joinedAt[v] = x
  BY <1>2
<1>4. v \in Longest(others)
  BY <1>2, <1>3 DEF Longest
<1> QED
  BY <1>4 DEF Successors

-----------------------------------------------------------------------------
(* Rows and the requests that rely on them. *)
NothingBeforeCreation == phase = "unborn" => \A r \in Req : task[r].pc \in Rest
HandoffHoldsRoom == \A r \in Req : At(r, "handoff_members") => phase = "live"
PeerHasRow ==
    phase = "live" => \A r \in Req : task[r].pc \in Handing => status[task[r].peer] # "none"

RowInv ==
    /\ TypeInv
    /\ NothingBeforeCreation /\ HandoffHoldsRoom /\ PeerHasRow
    /\ HostRowIsHost /\ NoOrphans

LEMMA RowInit == Init => RowInv
  BY TypeInit DEF Init, RowInv, NothingBeforeCreation, HandoffHoldsRoom, PeerHasRow,
     HostRowIsHost, NoOrphans, Members

(* A step that sends its own request anywhere but to a handoff, and takes  *)
(* no row from a live room, keeps what the requests rely on.               *)
LEMMA RequestsKept ==
  ASSUME RowInv, TypeOK', NEW r \in Req, NEW pc \in PC \ Handing, NEW u, NEW peer, NEW t,
         Put(r, pc, u, peer, t),
         phase = "live" \/ task[r].pc \notin Rest,
         \/ phase' = phase
         \/ phase' = "deleted" /\ ~RoomRowLocked /\ phase = "live",
         phase' = "live" => \A v \in User : status[v] # "none" => status'[v] # "none"
  PROVE  NothingBeforeCreation' /\ HandoffHoldsRoom' /\ PeerHasRow'
<1> USE DEF RowInv, TypeInv, TypeOK, Task
<1>1. /\ task'[r].pc = pc
      /\ \A q \in Req \ {r} : task'[q] = task[q]
  BY DEF Put
<1>2. NothingBeforeCreation'
  BY <1>1 DEF NothingBeforeCreation
<1>3. HandoffHoldsRoom'
  BY <1>1 DEF HandoffHoldsRoom, RoomRowLocked
<1>4. PeerHasRow'
  BY <1>1 DEF PeerHasRow, LocalsChosen
<1> QED
  BY <1>2, <1>3, <1>4

LEMMA AnswerKept ==
  ASSUME RowInv, TypeOK', NEW r \in Req, NEW pc \in Rest, Answer(r, pc),
         phase = "live" \/ task[r].pc \notin Rest,
         \/ phase' = phase
         \/ phase' = "deleted" /\ ~RoomRowLocked /\ phase = "live",
         phase' = "live" => \A v \in User : status[v] # "none" => status'[v] # "none"
  PROVE  NothingBeforeCreation' /\ HandoffHoldsRoom' /\ PeerHasRow'
  BY RequestsKept DEF Answer, PC

LEMMA GotoKept ==
  ASSUME RowInv, TypeOK', NEW r \in Req, NEW pc \in PC \ Handing, Goto(r, pc),
         phase = "live" \/ task[r].pc \notin Rest,
         \/ phase' = phase
         \/ phase' = "deleted" /\ ~RoomRowLocked /\ phase = "live",
         phase' = "live" => \A v \in User : status[v] # "none" => status'[v] # "none"
  PROVE  NothingBeforeCreation' /\ HandoffHoldsRoom' /\ PeerHasRow'
  BY RequestsKept DEF Goto, Move

LEMMA RowStep == RowInv /\ [Next]_vars => RowInv'
<1> SUFFICES ASSUME RowInv, [Next]_vars PROVE RowInv'
  OBVIOUS
<1> USE DEF RowInv, NothingBeforeCreation, HandoffHoldsRoom, PeerHasRow, HostRowIsHost,
            NoOrphans, Members
<1>0. TypeInv' /\ TypeOK /\ TypeOK'
  BY TypeStep DEF TypeInv
<1> USE <1>0 DEF TypeOK, Task
<1> HIDE DEF TypeInv
<1>1. ASSUME NEW u \in User, CreateRoom(u) PROVE RowInv'
  BY <1>1 DEF CreateRoom
<1>2. ASSUME NEW r \in Req, Arrive(r) PROVE RowInv'
  BY <1>2 DEF Arrive, JoinCheck, LeaveReadRoom, DeleteRequest, MayDelete, InsertCheck, Begin, Put
<1>3. ASSUME NEW r \in Req, JoinCount(r) PROVE RowInv'
  <2>1. NothingBeforeCreation' /\ HandoffHoldsRoom' /\ PeerHasRow'
    BY <1>3, AnswerKept, GotoKept DEF JoinCount, PC
  <2> QED
    BY <1>3, <2>1 DEF JoinCount
<1>4. ASSUME NEW r \in Req, JoinUpsert(r) PROVE RowInv'
  <2>1. NothingBeforeCreation' /\ HandoffHoldsRoom' /\ PeerHasRow'
    BY <1>4, AnswerKept DEF JoinUpsert
  <2>2. HostRowIsHost'
    BY <1>4 DEF JoinUpsert
  <2>3. NoOrphans'
    BY <1>4 DEF JoinUpsert
  <2> QED
    BY <2>1, <2>2, <2>3
<1>5. ASSUME NEW r \in Req, LeaveCheck(r) PROVE RowInv'
  BY <1>5 DEF LeaveCheck, Goto, Move, Answer, Put
<1>6. ASSUME NEW r \in Req, LeaveMember(r) PROVE RowInv'
  <2>1. NothingBeforeCreation' /\ HandoffHoldsRoom' /\ PeerHasRow'
    BY <1>6, AnswerKept DEF LeaveMember
  <2>2. HostRowIsHost'
    BY <1>6 DEF LeaveMember
  <2>3. NoOrphans'
    BY <1>6 DEF LeaveMember
  <2> QED
    BY <2>1, <2>2, <2>3
<1>7. ASSUME NEW r \in Req, LeaveSuccessor(r) PROVE RowInv'
  BY <1>7 DEF LeaveSuccessor, Successors, Longest, Active, Goto, Move, Put
<1>8. ASSUME NEW r \in Req, HandoffRoom(r) PROVE RowInv'
  BY <1>8 DEF HandoffRoom, Move, Answer, Put
<1>9. ASSUME NEW r \in Req, HandoffMembers(r) PROVE RowInv'
  BY <1>9 DEF HandoffMembers, Promoted, Goto, Move, Put
<1>10. ASSUME NEW r \in Req, DeleteRead(r) PROVE RowInv'
  BY <1>10 DEF DeleteRead, Goto, Move, Answer, Put
<1>11. ASSUME NEW r \in Req, SweepMembers(r) PROVE RowInv'
  BY <1>11 DEF SweepMembers, Goto, Move, Put
<1>12. ASSUME NEW r \in Req, SweepMessages(r) PROVE RowInv'
  BY <1>12 DEF SweepMessages, Goto, Move, Put
<1>13. ASSUME NEW r \in Req, DeleteRow(r) PROVE RowInv'
  <2>1. CASE phase = "live" /\ RestrictHolds
    <3>1. NothingBeforeCreation' /\ HandoffHoldsRoom' /\ PeerHasRow'
      BY <1>13, <2>1, GotoKept DEF DeleteRow, Waits, PC
    <3> QED
      BY <1>13, <2>1, <3>1 DEF DeleteRow, RestrictHolds
  <2>2. CASE ~(phase = "live" /\ RestrictHolds)
    <3>1. NothingBeforeCreation' /\ HandoffHoldsRoom' /\ PeerHasRow'
      BY <1>13, <2>2, AnswerKept DEF DeleteRow
    <3> QED
      BY <1>13, <2>2, <3>1 DEF DeleteRow
  <2> QED
    BY <2>1, <2>2
<1>14. ASSUME NEW r \in Req, Insert(r) PROVE RowInv'
  BY <1>14 DEF Insert, Answer, Put
<1>15. ASSUME NEW r \in Req, Evict(r) PROVE RowInv'
  BY <1>15 DEF Evict, EvictId, EvictCode, Goto, Move, Answer, Put
<1>16. ASSUME NEW r \in Req, NEW q \in Req, Deadlock(r, q) PROVE RowInv'
  <2>1. NothingBeforeCreation' /\ HandoffHoldsRoom' /\ PeerHasRow'
    BY <1>16, AnswerKept DEF Deadlock, Deadlocked
  <2> QED
    BY <1>16, <2>1 DEF Deadlock
<1>17. CASE DrainQueue
  BY <1>17 DEF DrainQueue
<1>18. CASE Tick
  BY <1>18 DEF Tick
<1>19. CASE UNCHANGED vars
  BY <1>19 DEF vars
<1> QED
  BY <1>1, <1>2, <1>3, <1>4, <1>5, <1>6, <1>7, <1>8, <1>9, <1>10, <1>11, <1>12, <1>13,
     <1>14, <1>15, <1>16, <1>17, <1>18, <1>19
  DEF Next, RoomStep, Handle

(* HostRowIsHost: hostId and the HOST membership row agree, always. *)
THEOREM HostRowCorrect == Spec => []HostRowIsHost
<1>1. RowInv => HostRowIsHost
  BY DEF RowInv
<1> QED
  BY <1>1, RowInit, RowStep, PTL DEF Spec

(* NoOrphans: a deleted room leaves no row behind. *)
THEOREM NoOrphansLeft == Spec => []NoOrphans
<1>1. RowInv => NoOrphans
  BY DEF RowInv
<1> QED
  BY <1>1, RowInit, RowStep, PTL DEF Spec

-----------------------------------------------------------------------------
(* Capacity. *)
JoinersJoin == \A r \in Req : task[r].pc \in {"join_count", "join_upsert"} => r \in Joins
CapacityInv == RowInv /\ JoinersJoin /\ OvershootBounded

LEMMA FiniteCounts ==
  ASSUME TypeOK, JoinersJoin
  PROVE  /\ IsFiniteSet(Active) /\ IsFiniteSet(Joins) /\ IsFiniteSet(Admitted)
         /\ Admitted \subseteq Joins
         /\ Cardinality(Active) \in Nat /\ Cardinality(Joins) \in Nat
         /\ Cardinality(Admitted) \in Nat /\ Cardinality(Admitted) <= Cardinality(Joins)
<1>1. Active \subseteq User /\ Admitted \subseteq Joins
  BY DEF Active, Admitted, JoinersJoin
<1>2. IsFiniteSet(Active) /\ IsFiniteSet(Joins) /\ IsFiniteSet(Admitted)
  BY <1>1, UserAssumption, SlotAssumption, FS_Subset
<1> QED
  BY <1>1, <1>2, FS_CardinalityType, FS_Subset

LEMMA CapacityInit == Init => CapacityInv
<1> SUFFICES ASSUME Init PROVE JoinersJoin /\ OvershootBounded
  BY RowInit DEF CapacityInv
<1>1. JoinersJoin /\ TypeOK
  BY TypeInit DEF Init, JoinersJoin, TypeInv
<1>2. Active = {} /\ Admitted = {}
  BY DEF Init, Active, Admitted
<1> QED
  BY <1>1, <1>2, FiniteCounts, FS_EmptySet, CapacityAssumption DEF OvershootBounded

(* Nobody joins and nobody is newly admitted. *)
LEMMA NoGrowth ==
  ASSUME CapacityInv, TypeOK', JoinersJoin', Active' \subseteq Active, Admitted' \subseteq Admitted
  PROVE  OvershootBounded'
<1>1. TypeOK /\ JoinersJoin
  BY DEF CapacityInv, RowInv, TypeInv
<1>2. /\ Cardinality(Active') <= Cardinality(Active)
      /\ Cardinality(Admitted') <= Cardinality(Admitted)
      /\ Cardinality(Active') \in Nat /\ Cardinality(Admitted') \in Nat
  BY <1>1, FiniteCounts, FS_Subset, FS_CardinalityType
<1> QED
  BY <1>1, <1>2, FiniteCounts, CapacityAssumption DEF CapacityInv, OvershootBounded

LEMMA NotAdmitted ==
  ASSUME CapacityInv, NEW r \in Req, NEW pc, NEW u, NEW peer, NEW t, Put(r, pc, u, peer, t),
         pc = "join_count" => r \in Joins, pc # "join_upsert"
  PROVE  JoinersJoin' /\ Admitted' \subseteq Admitted /\ r \notin Admitted'
  BY DEF CapacityInv, RowInv, TypeInv, TypeOK, JoinersJoin, Admitted, Put

LEMMA CapacityStep == CapacityInv /\ [Next]_vars => CapacityInv'
<1> SUFFICES ASSUME CapacityInv, [Next]_vars PROVE JoinersJoin' /\ OvershootBounded'
  BY RowStep DEF CapacityInv
<1>0. TypeOK /\ TypeOK' /\ JoinersJoin
  BY RowStep DEF CapacityInv, RowInv, TypeInv
<1> DEFINE Goal == JoinersJoin' /\ OvershootBounded'
<1>1. ASSUME NEW u \in User, CreateRoom(u) PROVE Goal
  <2>1. Active' = {u} /\ Admitted' = Admitted /\ JoinersJoin'
    BY <1>0, <1>1
    DEF CapacityInv, RowInv, NoOrphans, Members, CreateRoom, Active, Admitted, JoinersJoin, TypeOK
  <2>2. Cardinality(Active') = 1
    BY <2>1, FS_Singleton
  <2> QED
    BY <1>0, <2>1, <2>2, FiniteCounts, CapacityAssumption DEF OvershootBounded
<1>2. ASSUME NEW r \in Req, Arrive(r) PROVE Goal
  <2>1. PICK pc, u, peer, t :
             /\ pc \in {"join_count", "leave_check", "sweep_members", "insert"}
             /\ Put(r, pc, u, peer, t)
             /\ pc = "join_count" => r \in Joins
    BY <1>2 DEF Arrive, JoinCheck, LeaveReadRoom, DeleteRequest, InsertCheck, Begin
  <2>2. JoinersJoin' /\ Admitted' \subseteq Admitted
    BY <2>1, NotAdmitted
  <2>3. Active' = Active
    BY <1>2 DEF Arrive, JoinCheck, LeaveReadRoom, DeleteRequest, InsertCheck, Active
  <2> QED
    BY <1>0, <2>2, <2>3, NoGrowth
<1>3. ASSUME NEW r \in Req, JoinCount(r) PROVE Goal
  <2>1. r \in Joins
    BY <1>0, <1>3 DEF JoinCount, JoinersJoin
  <2>2. Active' = Active
    BY <1>3 DEF JoinCount, Active
  <2>3. CASE HasPlace
    <3>1. JoinersJoin'
      BY <1>0, <1>3, <2>1, <2>3 DEF JoinCount, Goto, Move, Put, JoinersJoin, TypeOK
    <3>2. Cardinality(Active') < MaxParticipants
      BY <2>2, <2>3 DEF HasPlace
    <3>3. Cardinality(Admitted') <= Cardinality(Joins) /\ Cardinality(Admitted') \in Nat
      BY <1>0, <3>1, FiniteCounts, FS_Subset, FS_CardinalityType, SlotAssumption
      DEF JoinersJoin, Admitted
    <3> QED
      BY <1>0, <2>2, <3>1, <3>2, <3>3, FiniteCounts, CapacityAssumption DEF OvershootBounded
  <2>4. CASE ~HasPlace
    <3>1. JoinersJoin' /\ Admitted' \subseteq Admitted
      BY <1>3, <2>4, NotAdmitted DEF JoinCount, Answer
    <3> QED
      BY <1>0, <2>2, <3>1, NoGrowth
  <2> QED
    BY <2>3, <2>4
<1>4. ASSUME NEW r \in Req, JoinUpsert(r) PROVE Goal
  <2>1. PICK pc \in Rest : Answer(r, pc)
    BY <1>4 DEF JoinUpsert
  <2>2. JoinersJoin' /\ Admitted' \subseteq Admitted /\ r \notin Admitted'
    BY <2>1, NotAdmitted DEF Answer
  <2>3. CASE phase = "live"
    <3>1. PICK u : Active' \subseteq Active \cup {u}
      BY <1>0, <1>4, <2>3 DEF JoinUpsert, Active, TypeOK
    <3>2. Admitted' \subseteq Admitted \ {r} /\ r \in Admitted
      BY <1>4, <2>2 DEF JoinUpsert, Admitted
    <3>3. /\ Cardinality(Active') \in Nat /\ Cardinality(Admitted') \in Nat
          /\ Cardinality(Active') <= Cardinality(Active) + 1
          /\ Cardinality(Admitted') <= Cardinality(Admitted) - 1
      <4>1. /\ IsFiniteSet(Active \cup {u})
            /\ Cardinality(Active \cup {u}) <= Cardinality(Active) + 1
        BY <1>0, FiniteCounts, FS_AddElement
      <4>2. /\ IsFiniteSet(Admitted \ {r})
            /\ Cardinality(Admitted \ {r}) = Cardinality(Admitted) - 1
        BY <1>0, <3>2, FiniteCounts, FS_RemoveElement
      <4>3. /\ IsFiniteSet(Active') /\ Cardinality(Active') <= Cardinality(Active \cup {u})
            /\ IsFiniteSet(Admitted') /\ Cardinality(Admitted') <= Cardinality(Admitted \ {r})
        BY <3>1, <3>2, <4>1, <4>2, FS_Subset
      <4> QED
        BY <1>0, <4>1, <4>2, <4>3, FiniteCounts, FS_CardinalityType
    <3> QED
      BY <1>0, <2>2, <3>3, FiniteCounts, CapacityAssumption DEF OvershootBounded, CapacityInv
  <2>4. CASE phase # "live"
    <3>1. Active' = Active
      BY <1>4, <2>4 DEF JoinUpsert, Active
    <3> QED
      BY <1>0, <2>2, <3>1, NoGrowth
  <2> QED
    BY <2>3, <2>4
<1>5. ASSUME NEW r \in Req,
             \/ LeaveCheck(r) \/ LeaveMember(r) \/ LeaveSuccessor(r)
             \/ HandoffRoom(r) \/ HandoffMembers(r)
             \/ DeleteRead(r) \/ SweepMembers(r) \/ SweepMessages(r) \/ DeleteRow(r)
             \/ Insert(r) \/ Evict(r)
      PROVE  Goal
  <2>1. PICK pc, u, peer, t :
             pc \in PC \ {"join_count", "join_upsert"} /\ Put(r, pc, u, peer, t)
    <3>1. CASE LeaveCheck(r) \/ LeaveMember(r) \/ LeaveSuccessor(r)
      BY <3>1 DEF LeaveCheck, LeaveMember, LeaveSuccessor, Goto, Move, Answer, PC
    <3>2. CASE HandoffRoom(r) \/ HandoffMembers(r)
      BY <3>2 DEF HandoffRoom, HandoffMembers, Goto, Move, Answer, PC
    <3>3. CASE DeleteRead(r) \/ SweepMembers(r) \/ SweepMessages(r) \/ DeleteRow(r)
      BY <3>3 DEF DeleteRead, SweepMembers, SweepMessages, DeleteRow, Goto, Move, Answer, PC
    <3>4. CASE Insert(r) \/ Evict(r)
      BY <3>4 DEF Insert, Evict, EvictId, EvictCode, Goto, Move, Answer, PC
    <3> QED
      BY <1>5, <3>1, <3>2, <3>3, <3>4
  <2>2. JoinersJoin' /\ Admitted' \subseteq Admitted
    BY <2>1, NotAdmitted
  <2>3. Active' \subseteq Active
    BY <1>0, <1>5
    DEF LeaveCheck, LeaveMember, LeaveSuccessor, HandoffRoom, HandoffMembers, DeleteRead,
        SweepMembers, SweepMessages, DeleteRow, Insert, Evict, EvictId, EvictCode, Active, TypeOK
  <2> QED
    BY <1>0, <2>2, <2>3, NoGrowth
<1>6. ASSUME NEW r \in Req, NEW q \in Req, Deadlock(r, q) PROVE Goal
  <2>1. PICK p \in Req : Answer(p, "failed")
    BY <1>6 DEF Deadlock
  <2>2. JoinersJoin' /\ Admitted' \subseteq Admitted
    BY <2>1, NotAdmitted DEF Answer
  <2>3. Active' = Active
    BY <1>6 DEF Deadlock, Active
  <2> QED
    BY <1>0, <2>2, <2>3, NoGrowth
<1>7. CASE DrainQueue \/ Tick \/ UNCHANGED vars
  <2>1. UNCHANGED <<status, task>>
    BY <1>7 DEF DrainQueue, Tick, vars
  <2> QED
    BY <1>0, <2>1, NoGrowth DEF Active, Admitted, JoinersJoin
<1> QED
  BY <1>1, <1>2, <1>3, <1>4, <1>5, <1>6, <1>7 DEF Next, RoomStep, Handle

(* OvershootBounded: concurrent joins exceed the capacity by less than     *)
(* their number.                                                           *)
THEOREM CapacityCorrect == Spec => []OvershootBounded
<1>1. CapacityInv => OvershootBounded
  BY DEF CapacityInv
<1> QED
  BY <1>1, CapacityInit, CapacityStep, PTL DEF Spec

-----------------------------------------------------------------------------
(* Departures, one at a time: what leaveRoom and deleteRoom have read is   *)
(* still true when they write.                                             *)
HostPC == {"leave_successor", "handoff", "handoff_members",
           "sweep_members", "sweep_messages", "delete_room"}
DepartPC == HostPC \cup {"leave_check", "leave_member", "delete_read"}

Sound(r) ==
    /\ task[r].pc \in DepartPC => r \in Departs
    /\ phase = "live" =>
          /\ At(r, "leave_check") => task[r].peer = hostId
          /\ At(r, "leave_member") => Me(r) # hostId
          /\ task[r].pc \in HostPC => Me(r) = hostId
          /\ task[r].pc \in Handing => /\ status[task[r].peer] = "active"
                                       /\ task[r].peer # Me(r)

DepartInv == RowInv /\ (\A r \in Req : Sound(r)) /\ HostIsActive

OneDeparture == \A r, q \in Departs : r = q

LEMMA DepartInit == Init => DepartInv
  BY RowInit DEF Init, DepartInv, Sound, HostIsActive, HostPC, DepartPC

(* A step of one request that changes neither the room nor who is host, and *)
(* sends nobody away.                                                      *)
LEMMA OthersKept ==
  ASSUME DepartInv, TypeOK', NEW r \in Req, NEW pc, NEW u, NEW peer, NEW t,
         Put(r, pc, u, peer, t), Sound(r)',
         UNCHANGED <<phase, hostId>>,
         \A v \in User : status[v] = "active" => status'[v] = "active"
  PROVE  (\A q \in Req : Sound(q)') /\ HostIsActive'
<1> USE DEF DepartInv, RowInv, TypeInv, TypeOK, Task
<1>1. ASSUME NEW q \in Req, q # r PROVE Sound(q)'
  <2>1. task'[q] = task[q] /\ Sound(q)
    BY <1>1 DEF Put
  <2>2. task[q].pc \in Handing => task[q].peer \in User
    BY DEF LocalsChosen
  <2> QED
    BY <2>1, <2>2 DEF Sound
<1> QED
  BY <1>1 DEF HostIsActive

LEMMA DepartStep == ASSUME OneDeparture PROVE DepartInv /\ [Next]_vars => DepartInv'
<1> SUFFICES ASSUME DepartInv, [Next]_vars
             PROVE  (\A q \in Req : Sound(q)') /\ HostIsActive'
  BY RowStep DEF DepartInv
<1>0. TypeOK /\ TypeOK' /\ LocalsChosen
  BY RowStep DEF DepartInv, RowInv, TypeInv
<1> USE <1>0 DEF TypeOK, Task
<1> DEFINE Goal == (\A q \in Req : Sound(q)') /\ HostIsActive'
<1>a. \A q \in Req : Sound(q)
  BY DEF DepartInv
<1>b. ASSUME NEW r \in Req, task[r].pc \in DepartPC, NEW q \in Req, q # r
      PROVE  task[q].pc \notin DepartPC
  BY <1>a, <1>b DEF OneDeparture, Sound
<1>1. ASSUME NEW u \in User, CreateRoom(u) PROVE Goal
  BY <1>1
  DEF CreateRoom, DepartInv, RowInv, NothingBeforeCreation, Sound, HostIsActive, HostPC, DepartPC
<1>2. ASSUME NEW r \in Req, Arrive(r) PROVE Goal
  <2>1. UNCHANGED <<phase, hostId, status>>
    BY <1>2 DEF Arrive, JoinCheck, LeaveReadRoom, DeleteRequest, InsertCheck
  <2>2. PICK pc, u, peer, t : Put(r, pc, u, peer, t) /\ Sound(r)'
    BY <1>2, <2>1
    DEF Arrive, JoinCheck, LeaveReadRoom, DeleteRequest, MayDelete, InsertCheck, Begin, Put,
        Sound, HostPC, DepartPC
  <2> QED
    BY <2>1, <2>2, OthersKept
<1>3. ASSUME NEW r \in Req, JoinCount(r) \/ JoinUpsert(r) \/ Insert(r) \/ Evict(r) PROVE Goal
  <2>1. UNCHANGED <<phase, hostId>> /\ \A v \in User : status[v] = "active" => status'[v] = "active"
    BY <1>3 DEF JoinCount, JoinUpsert, Insert, Evict, EvictId, EvictCode
  <2>2. PICK pc, u, peer, t : pc \in PC \ DepartPC /\ Put(r, pc, u, peer, t)
    BY <1>3
    DEF JoinCount, JoinUpsert, Insert, Evict, EvictId, EvictCode, Goto, Move, Answer, PC,
        DepartPC, HostPC
  <2>3. Sound(r)'
    BY <2>2 DEF Put, Sound, DepartPC, HostPC
  <2> QED
    BY <2>1, <2>2, <2>3, OthersKept
<1>4. ASSUME NEW r \in Req, LeaveCheck(r) PROVE Goal
  <2>1. UNCHANGED <<phase, hostId, status>>
    BY <1>4 DEF LeaveCheck
  <2>2. PICK pc, u, peer, t : Put(r, pc, u, peer, t) /\ Sound(r)'
    BY <1>4, <2>1, <1>a DEF LeaveCheck, Goto, Move, Answer, Put, Sound, HostPC, DepartPC
  <2> QED
    BY <2>1, <2>2, OthersKept
<1>5. ASSUME NEW r \in Req, LeaveMember(r) PROVE Goal
  <2>1. /\ UNCHANGED <<phase, hostId>> /\ task[r].pc \in DepartPC
        /\ phase = "live" => Me(r) # hostId
    BY <1>5, <1>a DEF LeaveMember, Sound, DepartPC
  <2>2. HostIsActive'
    BY <1>5, <2>1 DEF LeaveMember, DepartInv, HostIsActive
  <2>3. ASSUME NEW q \in Req, q # r PROVE task'[q] = task[q] /\ task'[q].pc \notin DepartPC
    BY <1>5, <2>1, <2>3, <1>b DEF LeaveMember, Answer, Put
  <2>4. task'[r].pc \in Rest
    BY <1>5 DEF LeaveMember, Answer, Put
  <2>5. \A q \in Req : task'[q].pc \notin DepartPC
    BY <2>3, <2>4 DEF DepartPC, HostPC
  <2> QED
    BY <2>2, <2>5 DEF Sound, DepartPC, HostPC
<1>6. ASSUME NEW r \in Req, LeaveSuccessor(r) PROVE Goal
  <2>1. UNCHANGED <<phase, hostId, status>>
    BY <1>6 DEF LeaveSuccessor
  <2>2. PICK pc, u, peer, t : Put(r, pc, u, peer, t) /\ Sound(r)'
    <3>1. CASE Goto(r, "delete_read")
      BY <1>6, <2>1, <3>1, <1>a DEF LeaveSuccessor, Goto, Move, Put, Sound, HostPC, DepartPC
    <3>2. ASSUME NEW v \in Successors(Me(r)), Move(r, "handoff", v)
          PROVE  Put(r, "handoff", Me(r), v, NoTable) /\ Sound(r)'
      <4>1. v \in User /\ status[v] = "active" /\ v # Me(r)
        BY DEF Successors, Longest, Active
      <4> QED
        BY <1>6, <2>1, <3>2, <4>1, <1>a DEF LeaveSuccessor, Move, Put, Sound, HostPC, DepartPC
    <3> QED
      BY <1>6, <3>1, <3>2 DEF LeaveSuccessor, Goto, Move
  <2> QED
    BY <2>1, <2>2, OthersKept
<1>7. ASSUME NEW r \in Req, HandoffRoom(r) PROVE Goal
  <2>1. UNCHANGED <<phase, hostId, status>>
    BY <1>7 DEF HandoffRoom
  <2>2. PICK pc, u, peer, t : Put(r, pc, u, peer, t) /\ Sound(r)'
    BY <1>7, <2>1, <1>a DEF HandoffRoom, LocalsChosen, Move, Answer, Put, Sound, HostPC, DepartPC
  <2> QED
    BY <2>1, <2>2, OthersKept
<1>8. ASSUME NEW r \in Req, HandoffMembers(r) PROVE Goal
  <2>1. /\ phase = "live" /\ task[r].pc \in DepartPC
        /\ task[r].peer \in User /\ status[task[r].peer] = "active" /\ task[r].peer # Me(r)
    BY <1>8, <1>a
    DEF HandoffMembers, DepartInv, RowInv, HandoffHoldsRoom, LocalsChosen, Sound, DepartPC, HostPC
  <2>2. HostIsActive'
    BY <1>8, <2>1 DEF HandoffMembers, HostIsActive
  <2>3. ASSUME NEW q \in Req, q # r PROVE task'[q].pc \notin DepartPC
    BY <1>8, <2>1, <2>3, <1>b DEF HandoffMembers, Goto, Move, Put
  <2>4. task'[r].pc = "del_id"
    BY <1>8 DEF HandoffMembers, Goto, Move, Put
  <2>5. \A q \in Req : task'[q].pc \notin DepartPC
    BY <2>3, <2>4 DEF DepartPC, HostPC
  <2> QED
    BY <2>2, <2>5 DEF Sound, DepartPC, HostPC
<1>9. ASSUME NEW r \in Req, DeleteRead(r) \/ SweepMembers(r) \/ SweepMessages(r) PROVE Goal
  <2>1. UNCHANGED <<phase, hostId, status>>
    BY <1>9 DEF DeleteRead, SweepMembers, SweepMessages
  <2>2. PICK pc, u, peer, t : Put(r, pc, u, peer, t) /\ Sound(r)'
    BY <1>9, <2>1, <1>a
    DEF DeleteRead, MayDelete, SweepMembers, SweepMessages, Goto, Move, Answer, Put, Sound,
        HostPC, DepartPC
  <2> QED
    BY <2>1, <2>2, OthersKept
<1>10. ASSUME NEW r \in Req, DeleteRow(r) PROVE Goal
  <2>1. CASE phase = "live" /\ RestrictHolds
    <3>1. phase' = "deleted" /\ Goto(r, "del_id") /\ task[r].pc \in DepartPC
      BY <1>10, <2>1 DEF DeleteRow, DepartPC, HostPC
    <3>2. ASSUME NEW q \in Req PROVE task'[q].pc \notin DepartPC
      BY <3>1, <1>b DEF Goto, Move, Put, DepartPC, HostPC
    <3> QED
      BY <3>1, <3>2 DEF Sound, DepartPC, HostPC, HostIsActive
  <2>2. CASE ~(phase = "live" /\ RestrictHolds)
    <3>1. UNCHANGED <<phase, hostId, status>> /\ Answer(r, "failed")
      BY <1>10, <2>2 DEF DeleteRow
    <3>2. Put(r, "failed", NoUser, NoUser, NoTable) /\ Sound(r)'
      BY <3>1 DEF Answer, Put, Sound, DepartPC, HostPC
    <3> QED
      BY <3>1, <3>2, OthersKept
  <2> QED
    BY <2>1, <2>2
<1>11. ASSUME NEW r \in Req, NEW q \in Req, Deadlock(r, q) PROVE Goal
  <2>1. PICK p \in Req : Answer(p, "failed")
    BY <1>11 DEF Deadlock
  <2>2. UNCHANGED <<phase, hostId, status>>
    BY <1>11 DEF Deadlock
  <2>3. Put(p, "failed", NoUser, NoUser, NoTable) /\ Sound(p)'
    BY <2>1 DEF Answer, Put, Sound, DepartPC, HostPC
  <2> QED
    BY <2>2, <2>3, OthersKept
<1>12. CASE DrainQueue \/ Tick \/ UNCHANGED vars
  <2>1. UNCHANGED <<phase, hostId, status, task>>
    BY <1>12 DEF DrainQueue, Tick, vars
  <2> QED
    BY <2>1, <1>a DEF DepartInv, Sound, HostIsActive
<1> QED
  BY <1>1, <1>2, <1>3, <1>4, <1>5, <1>6, <1>7, <1>8, <1>9, <1>10, <1>11, <1>12
  DEF Next, RoomStep, Handle

(* HostIsActive: while departures do not overlap, the host of a room is    *)
(* one of its active members, however many other requests interleave.      *)
THEOREM HostStays == ASSUME OneDeparture PROVE Spec => []HostIsActive
<1>1. DepartInv => HostIsActive
  BY DEF DepartInv
<1>2. DepartInv /\ [Next]_vars => DepartInv'
  BY DepartStep
<1> QED
  BY <1>1, <1>2, DepartInit, PTL DEF Spec
-----------------------------------------------------------------------------
(* The contract of RoomContract, when the joins come one at a time too: a  *)
(* join that passed the capacity check still has its place when it writes, *)
(* and the successor that leaveRoom has read is still the one who has been *)
(* there longest when the handoff commits.                                 *)
Joining == {"join_count", "join_upsert"}

StaysBegun == \A u \in Active : joinedAt[u] <= now
JoinersOutside == \A r \in Req : task[r].pc \in Joining => Me(r) \in User \ Active
SuccessorLongest ==
    phase = "live" =>
        \A r \in Req : task[r].pc \in Handing =>
            \A w \in Active \ {Me(r)} : joinedAt[task[r].peer] <= joinedAt[w]

StayInv == StaysBegun /\ JoinersOutside /\ SuccessorLongest
ContractInv == DepartInv /\ CapacityInv /\ StayInv

OneJoin == \A r, q \in Joins : r = q

LEMMA StayInit == Init => StayInv
  BY DEF Init, StayInv, StaysBegun, JoinersOutside, SuccessorLongest, Active, Joining

(* A step of one request that lets nobody in. *)
LEMMA StaysKept ==
  ASSUME ContractInv, TypeOK', NEW r \in Req, NEW pc, NEW u, NEW peer, NEW t,
         Put(r, pc, u, peer, t),
         UNCHANGED <<joinedAt, now>>, Active' \subseteq Active, phase' = "live" => phase = "live",
         pc \in Joining => u \in User \ Active,
         pc \in Handing => \A w \in Active \ {u} : joinedAt[peer] <= joinedAt[w]
  PROVE  StayInv'
<1> USE DEF StayInv
<1>0. TypeOK /\ StayInv
  BY DEF ContractInv, DepartInv, RowInv, TypeInv
<1>1. task'[r] = [pc |-> pc, user |-> u, peer |-> peer, table |-> t]
      /\ \A q \in Req \ {r} : task'[q] = task[q]
  BY <1>0 DEF Put, TypeOK
<1>2. StaysBegun'
  BY <1>0 DEF StaysBegun
<1>3. JoinersOutside'
  BY <1>0, <1>1 DEF JoinersOutside
<1>4. SuccessorLongest'
  BY <1>0, <1>1 DEF SuccessorLongest
<1> QED
  BY <1>2, <1>3, <1>4
LEMMA StayStep == ContractInv /\ [Next]_vars /\ OneJoin => StayInv'
<1> SUFFICES ASSUME ContractInv, [Next]_vars, OneJoin PROVE StayInv'
  OBVIOUS
<1>0. /\ TypeOK /\ TypeOK' /\ LocalsChosen /\ JoinersJoin /\ NoOrphans
      /\ NothingBeforeCreation /\ HandoffHoldsRoom
      /\ StaysBegun /\ JoinersOutside /\ SuccessorLongest /\ \A r \in Req : Sound(r)
  BY RowStep DEF ContractInv, DepartInv, CapacityInv, RowInv, TypeInv, StayInv
<1> USE DEF Joining
<1>1. ASSUME NEW u \in User, CreateRoom(u) PROVE StayInv'
  <2>1. Active' = {u} /\ joinedAt'[u] = now /\ UNCHANGED <<now, task>>
    BY <1>0, <1>1 DEF CreateRoom, Active, NoOrphans, Members, TypeOK
  <2>2. \A r \in Req : task'[r].pc \in Rest
    BY <1>0, <1>1, <2>1 DEF CreateRoom, NothingBeforeCreation
  <2> QED
    BY <1>0, <2>1, <2>2 DEF StayInv, StaysBegun, JoinersOutside, SuccessorLongest, TypeOK
<1>2. ASSUME NEW r \in Req, Arrive(r) PROVE StayInv'
  <2>1. UNCHANGED <<phase, joinedAt, now, status>>
    BY <1>2 DEF Arrive, JoinCheck, LeaveReadRoom, DeleteRequest, InsertCheck
  <2>2. PICK pc, u, peer, t :
             /\ Put(r, pc, u, peer, t) /\ pc \notin Handing
             /\ pc \in Joining => u \in User \ Active
    BY <1>2 DEF Arrive, JoinCheck, LeaveReadRoom, DeleteRequest, InsertCheck, Begin, Active
  <2> QED
    BY <1>0, <2>1, <2>2, StaysKept DEF Active
<1>3. ASSUME NEW r \in Req, JoinCount(r) PROVE StayInv'
  <2>1. UNCHANGED <<phase, joinedAt, now, status>> /\ Me(r) \in User \ Active
    BY <1>0, <1>3 DEF JoinCount, JoinersOutside
  <2>2. PICK pc, u, peer, t :
             /\ Put(r, pc, u, peer, t) /\ pc \notin Handing
             /\ pc \in Joining => u \in User \ Active
    BY <1>3, <2>1 DEF JoinCount, Goto, Move, Answer
  <2> QED
    BY <1>0, <2>1, <2>2, StaysKept DEF Active
<1>4. ASSUME NEW r \in Req, JoinUpsert(r) PROVE StayInv'
  <2>1. CASE phase = "live"
    <3>1. /\ UNCHANGED <<phase, now>> /\ Me(r) \in User \ Active
          /\ Active' = Active \cup {Me(r)} /\ joinedAt'[Me(r)] = now
          /\ \A v \in Active : joinedAt'[v] = joinedAt[v]
      BY <1>0, <1>4, <2>1 DEF JoinUpsert, JoinersOutside, StayBegins, Active, TypeOK
    <3>2. /\ task'[r].pc = "done"
          /\ \A q \in Req \ {r} : task'[q] = task[q] /\ task'[q].pc \notin Joining
      BY <1>0, <1>4, <2>1 DEF JoinUpsert, Answer, Put, TypeOK, JoinersJoin, OneJoin
    <3>3. StaysBegun'
      BY <1>0, <3>1 DEF StaysBegun, TypeOK
    <3>4. JoinersOutside'
      BY <3>2 DEF JoinersOutside
    <3>5. ASSUME NEW q \in Req, task'[q].pc \in Handing, NEW w \in Active' \ {Me(q)'}
          PROVE  joinedAt'[task'[q].peer] <= joinedAt'[w]
      <4>1. task'[q] = task[q] /\ task[q].peer \in Active
        BY <1>0, <2>1, <3>2, <3>5 DEF Sound, LocalsChosen, Active
      <4>2. joinedAt'[task[q].peer] = joinedAt[task[q].peer] /\ joinedAt[task[q].peer] <= now
        BY <1>0, <3>1, <4>1 DEF StaysBegun
      <4>3. CASE w = Me(r)
        BY <3>1, <4>1, <4>2, <4>3
      <4>4. CASE w \in Active
        BY <1>0, <2>1, <3>1, <3>5, <4>1, <4>2, <4>4 DEF SuccessorLongest
      <4> QED
        BY <3>1, <4>3, <4>4
    <3> QED
      BY <3>3, <3>4, <3>5 DEF StayInv, SuccessorLongest
  <2>2. CASE phase # "live"
    <3>1. UNCHANGED <<phase, joinedAt, now, status>> /\ Answer(r, "failed")
      BY <1>4, <2>2 DEF JoinUpsert
    <3> QED
      BY <1>0, <3>1, StaysKept DEF Answer, Active
  <2> QED
    BY <2>1, <2>2
<1>5. ASSUME NEW r \in Req,
             \/ LeaveCheck(r) \/ LeaveMember(r)
             \/ HandoffMembers(r) \/ DeleteRead(r) \/ SweepMembers(r) \/ SweepMessages(r)
             \/ DeleteRow(r) \/ Insert(r) \/ Evict(r)
      PROVE  StayInv'
  <2>1. /\ UNCHANGED <<joinedAt, now>> /\ Active' \subseteq Active
        /\ phase' = "live" => phase = "live"
    BY <1>0, <1>5
    DEF LeaveCheck, LeaveMember, HandoffMembers, DeleteRead, SweepMembers, SweepMessages,
        DeleteRow, Insert, Evict, EvictId, EvictCode, Active, TypeOK
  <2>2. PICK pc, u, peer, t : Put(r, pc, u, peer, t) /\ pc \notin Handing \cup Joining
    <3>1. CASE LeaveCheck(r) \/ LeaveMember(r) \/ HandoffMembers(r)
      BY <3>1 DEF LeaveCheck, LeaveMember, HandoffMembers, Goto, Move, Answer
    <3>2. CASE DeleteRead(r) \/ SweepMembers(r) \/ SweepMessages(r)
      BY <3>2 DEF DeleteRead, SweepMembers, SweepMessages, Goto, Move, Answer
    <3>3. CASE DeleteRow(r)
      <4>1. Goto(r, "del_id") \/ Answer(r, "failed")
        BY <3>3 DEF DeleteRow
      <4> QED
        BY <4>1 DEF Goto, Move, Answer
    <3>4. CASE Insert(r) \/ Evict(r)
      BY <3>4 DEF Insert, Evict, EvictId, EvictCode, Goto, Move, Answer
    <3> QED
      BY <1>5, <3>1, <3>2, <3>3, <3>4
  <2> QED
    BY <1>0, <2>1, <2>2, StaysKept
<1>6. ASSUME NEW r \in Req, LeaveSuccessor(r) PROVE StayInv'
  <2>1. UNCHANGED <<phase, joinedAt, now, status>>
    BY <1>6 DEF LeaveSuccessor
  <2>2. PICK pc, u, peer, t :
             /\ Put(r, pc, u, peer, t) /\ pc \notin Joining
             /\ pc \in Handing => \A w \in Active \ {u} : joinedAt[peer] <= joinedAt[w]
    BY <1>6 DEF LeaveSuccessor, Successors, Longest, Goto, Move
  <2> QED
    BY <1>0, <2>1, <2>2, StaysKept DEF Active
<1>7. ASSUME NEW r \in Req, HandoffRoom(r) PROVE StayInv'
  <2>1. UNCHANGED <<phase, joinedAt, now, status>>
    BY <1>7 DEF HandoffRoom
  <2>2. PICK pc, u, peer, t :
             /\ Put(r, pc, u, peer, t) /\ pc \notin Joining
             /\ pc \in Handing => \A w \in Active \ {u} : joinedAt[peer] <= joinedAt[w]
    BY <1>0, <1>7 DEF HandoffRoom, SuccessorLongest, Answer, Move
  <2> QED
    BY <1>0, <2>1, <2>2, StaysKept DEF Active
<1>8. ASSUME NEW r \in Req, NEW q \in Req, Deadlock(r, q) PROVE StayInv'
  <2>1. PICK p \in Req : Answer(p, "failed")
    BY <1>8 DEF Deadlock
  <2>2. UNCHANGED <<phase, joinedAt, now, status>>
    BY <1>8 DEF Deadlock
  <2> QED
    BY <1>0, <2>1, <2>2, StaysKept DEF Answer, Active
<1>9. CASE DrainQueue \/ Tick \/ UNCHANGED vars
  <2>1. UNCHANGED <<phase, joinedAt, status, task>> /\ now' >= now
    BY <1>0, <1>9 DEF DrainQueue, Tick, vars, TypeOK
  <2>2. StaysBegun'
    BY <1>0, <2>1 DEF StaysBegun, Active, TypeOK
  <2> QED
    BY <1>0, <2>1, <2>2 DEF StayInv, JoinersOutside, SuccessorLongest, Active
<1> QED
  BY <1>1, <1>2, <1>3, <1>4, <1>5, <1>6, <1>7, <1>8, <1>9 DEF Next, RoomStep, Handle

LEMMA ContractInvStep ==
  ASSUME OneDeparture, OneJoin
  PROVE  ContractInv /\ [Next]_vars => ContractInv'
  BY DepartStep, CapacityStep, StayStep DEF ContractInv
(* Steps that change nothing of what the contract speaks about. *)
LEMMA Unseen ==
  ASSUME UNCHANGED <<phase, hostId, joinedAt, now>>, Active' = Active
  PROVE  UNCHANGED Contract!vars
  BY DEF Contract!vars

(* The instance has its own copy of FiniteSets. *)
LEMMA SameCardinality == ASSUME NEW S PROVE Contract!Cardinality(S) = Cardinality(S)
  BY DEF Contract!Cardinality, Cardinality

LEMMA ContractStep ==
  ASSUME OneDeparture, OneJoin
  PROVE  ContractInv /\ [Next]_vars => [Contract!Next]_Contract!vars
<1> SUFFICES ASSUME ContractInv, [Next]_vars PROVE Contract!Next \/ UNCHANGED Contract!vars
  OBVIOUS
<1>0. /\ TypeOK /\ TypeOK' /\ LocalsChosen /\ JoinersJoin /\ OvershootBounded /\ NoOrphans
      /\ HandoffHoldsRoom /\ HostIsActive /\ JoinersOutside /\ SuccessorLongest
      /\ \A r \in Req : Sound(r)
  BY RowStep DEF ContractInv, DepartInv, CapacityInv, RowInv, TypeInv, StayInv
<1> DEFINE Goal == Contract!Next \/ UNCHANGED Contract!vars
<1>1. ASSUME NEW u \in User, CreateRoom(u) PROVE Goal
  <2>1. Active' = {u} /\ joinedAt'[u] = now
    BY <1>0, <1>1 DEF CreateRoom, Active, NoOrphans, Members, TypeOK
  <2>2. Contract!Open(u)
    BY <1>1, <2>1 DEF CreateRoom, Contract!Open
  <2> QED
    BY <2>2 DEF Contract!Next
<1>2. ASSUME NEW r \in Req, JoinUpsert(r) PROVE Goal
  <2>1. CASE phase = "live"
    <3>u. PICK u \in User \ Active : u = Me(r)
      BY <1>0, <1>2 DEF JoinUpsert, JoinersOutside, Joining
    <3>1. /\ UNCHANGED <<phase, hostId, now>>
          /\ Active' = Active \cup {u} /\ joinedAt'[u] = now
          /\ \A v \in Active : joinedAt'[v] = joinedAt[v]
      BY <1>0, <1>2, <2>1, <3>u DEF JoinUpsert, StayBegins, Active, TypeOK
    <3>2. Cardinality(Active) < MaxParticipants
      <4>1. r \in Admitted /\ Joins = {r}
        BY <1>0, <1>2 DEF JoinUpsert, Admitted, JoinersJoin, OneJoin
      <4>2. Admitted = {r}
        BY <1>0, <4>1, FiniteCounts
      <4> QED
        BY <1>0, <4>1, <4>2, FiniteCounts, FS_Singleton, CapacityAssumption
        DEF OvershootBounded
    <3>3. Contract!Enter(u)
      BY <2>1, <3>1, <3>2, SameCardinality DEF Contract!Enter, Contract!Present
    <3> QED
      BY <3>3 DEF Contract!Next
  <2>2. CASE phase # "live"
    BY <1>2, <2>2, Unseen DEF JoinUpsert, Active
  <2> QED
    BY <2>1, <2>2
<1>3. ASSUME NEW r \in Req, LeaveMember(r) PROVE Goal
  <2>1. /\ UNCHANGED <<phase, hostId, joinedAt, now>>
        /\ Active' = Active \ {Me(r)}
    BY <1>0, <1>3 DEF LeaveMember, Active, TypeOK
  <2>2. CASE Me(r) \in Active
    <3>u. PICK u \in Active : u = Me(r)
      BY <2>2
    <3>1. phase = "live" /\ u # hostId /\ u \in User
      BY <1>0, <1>3, <3>u DEF LeaveMember, NoOrphans, Members, Active, Sound
    <3>2. Contract!Exit(u)
      BY <2>1, <3>u, <3>1 DEF Contract!Exit, Contract!Present, Contract!Without
    <3> QED
      BY <3>1, <3>2 DEF Contract!Next
  <2>3. CASE Me(r) \notin Active
    BY <2>1, <2>3, Unseen
  <2> QED
    BY <2>2, <2>3
<1>4. ASSUME NEW r \in Req, HandoffMembers(r) PROVE Goal
  <2>v. PICK v \in User : v = task[r].peer
    BY <1>0, <1>4 DEF HandoffMembers, LocalsChosen
  <2>1. /\ phase = "live" /\ Me(r) = hostId /\ hostId \in Active
        /\ v \in Active \ {hostId}
        /\ \A w \in Active \ {hostId} : joinedAt[v] <= joinedAt[w]
    BY <1>0, <1>4, <2>v
    DEF HandoffMembers, HandoffHoldsRoom, Sound, HostPC, HostIsActive, SuccessorLongest, Active,
        TypeOK
  <2>2. UNCHANGED <<phase, joinedAt, now>> /\ hostId' = v /\ Active' = Active \ {hostId}
    BY <1>0, <1>4, <2>v, <2>1 DEF HandoffMembers, Active, TypeOK
  <2>3. Contract!HandOver(v)
    BY <2>1, <2>2 DEF Contract!HandOver, Contract!Present, Contract!Without
  <2> QED
    BY <2>3 DEF Contract!Next
<1>5. ASSUME NEW r \in Req, DeleteRow(r) PROVE Goal
  <2>1. CASE phase = "live" /\ RestrictHolds
    <3>1. Active' = {} /\ phase' = "deleted" /\ UNCHANGED <<hostId, now>>
      BY <1>5, <2>1 DEF DeleteRow, Active
    <3>2. Contract!Close
      BY <2>1, <3>1 DEF Contract!Close
    <3> QED
      BY <3>2 DEF Contract!Next
  <2>2. CASE ~(phase = "live" /\ RestrictHolds)
    BY <1>5, <2>2, Unseen DEF DeleteRow, Active
  <2> QED
    BY <2>1, <2>2
<1>6. CASE Tick
  <2>1. UNCHANGED <<phase, hostId, joinedAt>> /\ Active' = Active /\ now' = now + 1
    BY <1>6 DEF Tick, Active
  <2>2. Contract!Tick
    BY <2>1 DEF Contract!Tick
  <2> QED
    BY <2>2 DEF Contract!Next
<1>7. ASSUME NEW r \in Req,
             \/ Arrive(r) \/ JoinCount(r) \/ LeaveCheck(r) \/ LeaveSuccessor(r)
             \/ HandoffRoom(r) \/ DeleteRead(r) \/ SweepMembers(r) \/ SweepMessages(r)
             \/ Insert(r) \/ Evict(r) \/ \E q \in Req : Deadlock(r, q)
      PROVE  Goal
  <2>1. UNCHANGED <<phase, hostId, joinedAt, now, status>>
    BY <1>7
    DEF Arrive, JoinCheck, LeaveReadRoom, DeleteRequest, InsertCheck, JoinCount, LeaveCheck,
        LeaveSuccessor, HandoffRoom, DeleteRead, SweepMembers, SweepMessages, Insert, Evict,
        EvictId, EvictCode, Deadlock
  <2> QED
    BY <2>1, Unseen DEF Active
<1>8. CASE DrainQueue \/ UNCHANGED vars
  BY <1>8, Unseen DEF DrainQueue, vars, Active
<1> QED
  BY <1>1, <1>2, <1>3, <1>4, <1>5, <1>6, <1>7, <1>8 DEF Next, RoomStep, Handle

LEMMA ContractInit == Init => ContractInv /\ Contract!Init
<1>1. Init => ContractInv
  BY DepartInit, CapacityInit, StayInit DEF ContractInv
<1>2. ASSUME Init PROVE Contract!Init
  <2>1. Active = {}
    BY <1>2 DEF Init, Active
  <2> QED
    BY <1>2, <2>1 DEF Init, Contract!Init
<1> QED
  BY <1>1, <1>2

(* ImplementsContract: with one join and one departure at a time, every    *)
(* step of the room, with whatever other requests in between, is a step of *)
(* its contract or changes nothing the contract speaks about.              *)
THEOREM RoomKeepsItsContract == ASSUME OneDeparture, OneJoin PROVE Spec => ImplementsContract
<1>1. ContractInv /\ [Next]_vars => ContractInv'
  BY ContractInvStep
<1>2. ContractInv /\ [Next]_vars => [Contract!Next]_Contract!vars
  BY ContractStep
<1> QED
  BY <1>1, <1>2, ContractInit, PTL DEF Spec, ImplementsContract, Contract!Spec

LEMMA ContractPromises == ASSUME OneJoin PROVE ContractInv => Contract!Promise
<1> SUFFICES ASSUME ContractInv, phase = "live"
             PROVE  hostId \in Active /\ Cardinality(Active) <= MaxParticipants
  BY SameCardinality DEF Contract!Promise, Contract!Present
<1>0. TypeOK /\ JoinersJoin /\ OvershootBounded /\ HostIsActive
  BY DEF ContractInv, DepartInv, CapacityInv, RowInv, TypeInv
<1>1. Cardinality(Joins) <= 1
  <2>1. CASE Joins = {}
    BY <2>1, FS_EmptySet
  <2>2. CASE Joins # {}
    <3>1. PICK r : Joins = {r}
      BY <2>2 DEF OneJoin
    <3>2. Cardinality({r}) = 1
      BY FS_Singleton
    <3> QED
      BY <3>1, <3>2
  <2> QED
    BY <2>1, <2>2
<1> QED
  BY <1>0, <1>1, FiniteCounts, CapacityAssumption DEF OvershootBounded, HostIsActive, Active, TypeOK

(* A room with one join and one departure at a time is never overfull, and *)
(* its host is always one of its participants.                             *)
THEOREM PromiseKept == ASSUME OneDeparture, OneJoin PROVE Spec => []Contract!Promise
<1>1. ContractInv /\ [Next]_vars => ContractInv'
  BY ContractInvStep
<1>2. ContractInv => Contract!Promise
  BY ContractPromises
<1> QED
  BY <1>1, <1>2, ContractInit, PTL DEF Spec
=============================================================================

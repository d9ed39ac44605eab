--------------------------- MODULE RoomMembership ---------------------------
(***************************************************************************)
(* One room of RoomsService (src/rooms/rooms.service.ts) and the requests  *)
(* that work on it at the same time.  Every awaited Prisma call is a step  *)
(* of its own; a $transaction is one step, except deleteRoom's, whose      *)
(* statements other requests can get in between.  PostgreSQL runs it at    *)
(* READ COMMITTED: a statement waits for the rows an open transaction has  *)
(* deleted, and every foreign key is ON DELETE RESTRICT.                   *)
(*                                                                         *)
(* A request slot stands for one HTTP request at a time.  A request that   *)
(* its first read answers with 4xx changes nothing and is not modelled.    *)
(***************************************************************************)
EXTENDS Naturals, FiniteSets

CONSTANTS
    User,             \* accounts
    NoUser,           \* a task field that holds no user
    Req,              \* request slots: how many requests may be in progress
    Joins,            \* the slots that may serve joinRoom
    Departs,          \* the slots that may serve leaveRoom and deleteRoom
    Tables,           \* the tables, next to room_members, with rows of rooms
    NoTable,          \* a task field that holds no table
    MaxParticipants,  \* the room's maxParticipants
    MaxTime           \* bound of the clock

ASSUME UserAssumption == NoUser \notin User /\ IsFiniteSet(User)
ASSUME SlotAssumption == IsFiniteSet(Req) /\ Joins \subseteq Req /\ Departs \subseteq Req
ASSUME TableAssumption ==
    /\ Tables \subseteq {"messages", "room_queue_entries", "playback_states"}
    /\ NoTable \notin Tables
ASSUME CapacityAssumption == MaxParticipants \in Nat /\ MaxParticipants >= 2  \* create-room.dto.ts
ASSUME TimeAssumption == MaxTime \in Nat

VARIABLES
    phase,     \* the rooms row: not created yet, there, or deleted
    hostId,    \* rooms.host_id (the last one, once the row is deleted)
    status,    \* room_members: no row, leftAt null, or leftAt set
    role,      \* room_members.role
    joinedAt,  \* room_members.joined_at
    refs,      \* the tables that hold rows of the room
    now,       \* clock
    sweptMembers, \* the member rows the open deleteRoom transaction deleted
    sweptTables,  \* the tables it emptied
    task       \* per slot: where its handler is, and its locals

roomVars == <<phase, hostId, role, joinedAt>>
sweepVars == <<sweptMembers, sweptTables>>
vars == <<phase, hostId, status, role, joinedAt, refs, now, sweptMembers, sweptTables, task>>

(* "done" is an answer the handler chose (2xx or 4xx); "failed" is an      *)
(* unexpected database error, which the exception filter turns into 500.   *)
Rest == {"done", "failed"}
PC == Rest \cup {"join_count", "join_upsert", "leave_check", "leave_member",
                 "leave_successor", "handoff", "handoff_members", "delete_read",
                 "sweep_members", "sweep_messages", "delete_room", "del_id", "del_code", "insert"}

Active == {u \in User : status[u] = "active"}
Members == {u \in User : status[u] # "none"}

At(r, pc) == task[r].pc = pc
Me(r) == task[r].user

Put(r, pc, u, peer, table) ==
    task' = [task EXCEPT ![r] = [pc |-> pc, user |-> u, peer |-> peer, table |-> table]]
Begin(r, pc, u, peer, table) == task[r].pc \in Rest /\ Put(r, pc, u, peer, table)
Answer(r, outcome) == Put(r, outcome, NoUser, NoUser, NoTable)
Move(r, pc, peer) == Put(r, pc, Me(r), peer, NoTable)
Goto(r, pc) == Move(r, pc, NoUser)

Busy(r) == task[r].pc \notin Rest

(* The rows of the open transactions that a statement has to wait for: the *)
(* member rows that deleteRoom deleted, the rooms row that a handoff wrote. *)
RoomRowLocked == \E r \in Req : At(r, "handoff_members")
Waits(r) ==
    \/ task[r].pc \in {"join_upsert", "leave_member"} /\ Me(r) \in sweptMembers
    \/ At(r, "handoff_members") /\ {Me(r), task[r].peer} \cap sweptMembers # {}
    \/ task[r].pc \in {"handoff", "delete_room"} /\ RoomRowLocked
    \/ At(r, "sweep_members") /\ sweptMembers # {}

Init ==
    /\ phase = "unborn"
    /\ hostId \in User
    /\ status = [u \in User |-> "none"]
    /\ role = [u \in User |-> "MEMBER"]
    /\ joinedAt = [u \in User |-> 0]
    /\ refs = {}
    /\ now = 0
    /\ sweptMembers = {} /\ sweptTables = {}
    /\ task = [r \in Req |-> [pc |-> "done", user |-> NoUser, peer |-> NoUser,
                              table |-> NoTable]]

(* createRoom: the room and its creator's membership in one transaction. *)
CreateRoom(u) ==
    /\ phase = "unborn"
    /\ phase' = "live"
    /\ hostId' = u
    /\ status' = [status EXCEPT ![u] = "active"]
    /\ role' = [role EXCEPT ![u] = "HOST"]
    /\ joinedAt' = [joinedAt EXCEPT ![u] = now]
    /\ UNCHANGED <<refs, now, sweepVars, task>>

-----------------------------------------------------------------------------
(* joinRoom, joinByCode *)

(* The room is there, the password is right, the user is no active member. *)
JoinCheck(r, u) ==
    /\ r \in Joins /\ phase = "live" /\ status[u] # "active"
    /\ Begin(r, "join_count", u, NoUser, NoTable)
    /\ UNCHANGED <<roomVars, status, refs, now, sweepVars>>

(* Mutant: one participant too many. *)
HasPlaceOffByOne == Cardinality(Active) <= MaxParticipants
HasPlace == Cardinality(Active) < MaxParticipants

JoinCount(r) ==
    /\ At(r, "join_count")
    /\ IF HasPlace THEN Goto(r, "join_upsert") ELSE Answer(r, "done")
    /\ UNCHANGED <<roomVars, status, refs, now, sweepVars>>

(* Mutant: the update branch forgets joinedAt. *)
StayBeginsOnce(u) == IF status[u] = "none" THEN now ELSE joinedAt[u]
StayBegins(u) == now

(* A new row is a MEMBER; a row of an earlier stay keeps the role it has.  *)
(* The foreign key fails once the room is deleted.                         *)
JoinUpsert(r) ==
    /\ At(r, "join_upsert") /\ ~Waits(r)
    /\ IF phase = "live"
       THEN /\ status' = [status EXCEPT ![Me(r)] = "active"]
            /\ role' = [role EXCEPT ![Me(r)] = IF status[Me(r)] = "none" THEN "MEMBER" ELSE @]
            /\ joinedAt' = [joinedAt EXCEPT ![Me(r)] = StayBegins(Me(r))]
            /\ Answer(r, "done")
       ELSE Answer(r, "failed") /\ UNCHANGED <<status, role, joinedAt>>
    /\ UNCHANGED <<phase, hostId, refs, now, sweepVars>>

-----------------------------------------------------------------------------
(* leaveRoom *)

LeaveReadRoom(r, u) ==
    /\ r \in Departs /\ phase = "live"
    /\ Begin(r, "leave_check", u, hostId, NoTable)
    /\ UNCHANGED <<roomVars, status, refs, now, sweepVars>>

(* Compares the caller with the host that LeaveReadRoom saw. *)
LeaveCheck(r) ==
    /\ At(r, "leave_check")
    /\ IF status[Me(r)] # "active" THEN Answer(r, "done")
       ELSE Goto(r, IF task[r].peer = Me(r) THEN "leave_successor" ELSE "leave_member")
    /\ UNCHANGED <<roomVars, status, refs, now, sweepVars>>

LeaveMember(r) ==
    /\ At(r, "leave_member") /\ ~Waits(r)
    /\ IF status[Me(r)] = "none"
       THEN Answer(r, "failed") /\ UNCHANGED status
       ELSE Answer(r, "done") /\ status' = [status EXCEPT ![Me(r)] = "left"]
    /\ UNCHANGED <<roomVars, refs, now, sweepVars>>

Longest(others) == {v \in others : \A w \in others : joinedAt[v] <= joinedAt[w]}

(* Mutants: without leftAt: null; without the check that there is somebody. *)
SuccessorsEver(u) == Longest(Members \ {u})
SuccessorsOrNobody(u) == IF Active \ {u} = {} THEN {NoUser} ELSE Longest(Active \ {u})

(* The other active members who have been in the room longest. *)
Successors(u) == Longest(Active \ {u})

LeaveSuccessor(r) ==
    /\ At(r, "leave_successor")
    /\ \/ /\ Active \subseteq {Me(r)}
          /\ Goto(r, "delete_read")
       \/ \E v \in Successors(Me(r)) :
             Move(r, "handoff", v)
    /\ UNCHANGED <<roomVars, status, refs, now, sweepVars>>

(* The handoff transaction updates what the reads before it chose, whatever *)
(* has happened since.  It locks the rooms row first; a room that is gone  *)
(* makes it fail.                                                          *)
HandoffRoom(r) ==
    /\ At(r, "handoff") /\ ~Waits(r)
    /\ IF phase = "live"
       THEN Move(r, "handoff_members", task[r].peer)
       ELSE Answer(r, "failed")
    /\ UNCHANGED <<roomVars, status, refs, now, sweepVars>>

(* Mutant: hands the room over, but not the role. *)
PromotedNot(v) == role
Promoted(v) == [role EXCEPT ![v] = "HOST"]

(* Both member rows are updated and the transaction commits. *)
HandoffMembers(r) ==
    /\ At(r, "handoff_members") /\ ~Waits(r)
    /\ hostId' = task[r].peer
    /\ role' = Promoted(task[r].peer)
    /\ status' = [status EXCEPT ![Me(r)] = "left"]
    /\ Goto(r, "del_id")
    /\ UNCHANGED <<phase, joinedAt, refs, now, sweepVars>>

-----------------------------------------------------------------------------
(* deleteRoom, called by its route or by leaveRoom *)

MayDelete(u) == phase = "live" /\ hostId = u

DeleteRequest(r, u) ==
    /\ r \in Departs /\ MayDelete(u)
    /\ Begin(r, "sweep_members", u, NoUser, NoTable)
    /\ UNCHANGED <<roomVars, status, refs, now, sweepVars>>

(* leaveRoom reads the room again, and may now get a 404 or a 403. *)
DeleteRead(r) ==
    /\ At(r, "delete_read")
    /\ IF MayDelete(Me(r)) THEN Goto(r, "sweep_members") ELSE Answer(r, "done")
    /\ UNCHANGED <<roomVars, status, refs, now, sweepVars>>

SweepMembers(r) ==
    /\ At(r, "sweep_members") /\ ~Waits(r)
    /\ sweptMembers' = Members
    /\ Goto(r, "sweep_messages")
    /\ UNCHANGED <<roomVars, status, refs, now, sweptTables>>

SweepMessages(r) ==
    /\ At(r, "sweep_messages")
    /\ sweptTables' = refs \cap {"messages"}
    /\ Goto(r, "delete_room")
    /\ UNCHANGED <<roomVars, status, refs, now, sweptMembers>>

(* Mutant: no foreign key from the other tables. *)
RestrictMembersOnly == Members \subseteq sweptMembers
RestrictHolds == Members \subseteq sweptMembers /\ refs \subseteq sweptTables

(* Mutant: a failed transaction is not rolled back. *)
EndSweepOnCommit(committed) ==
    /\ sweptMembers' = IF committed THEN {} ELSE sweptMembers
    /\ sweptTables' = IF committed THEN {} ELSE sweptTables
EndSweep(committed) == sweptMembers' = {} /\ sweptTables' = {}

(* The rooms row goes and the transaction commits, unless a row that the   *)
(* transaction did not delete still refers to the room.                    *)
DeleteRow(r) ==
    /\ At(r, "delete_room") /\ ~Waits(r)
    /\ \/ /\ phase = "live" /\ RestrictHolds
          /\ phase' = "deleted"
          /\ status' = [u \in User |-> "none"]
          /\ refs' = refs \ sweptTables
          /\ Goto(r, "del_id") /\ EndSweep(TRUE)
       \/ /\ ~(phase = "live" /\ RestrictHolds)
          /\ Answer(r, "failed") /\ EndSweep(FALSE)
          /\ UNCHANGED <<phase, status, refs>>
    /\ UNCHANGED <<hostId, role, joinedAt, now>>

(* leaveRoom locks the rooms row first and the member rows next,           *)
(* deleteRoom the other way round: PostgreSQL aborts one of the two.       *)
Deadlocked(r, q) == At(r, "delete_room") /\ At(q, "handoff_members") /\ Waits(q)
Deadlock(r, q) ==
    /\ Deadlocked(r, q)
    /\ \/ Answer(r, "failed") /\ EndSweep(FALSE)
       \/ Answer(q, "failed") /\ UNCHANGED sweepVars
    /\ UNCHANGED <<roomVars, status, refs, now>>

(* The two cache.del calls; module RoomCache adds what they do. *)
EvictId(r) ==
    /\ At(r, "del_id")
    /\ Goto(r, "del_code")
    /\ UNCHANGED <<roomVars, status, refs, now, sweepVars>>
EvictCode(r) ==
    /\ At(r, "del_code")
    /\ Answer(r, "done")
    /\ UNCHANGED <<roomVars, status, refs, now, sweepVars>>

-----------------------------------------------------------------------------
(* Rows of other tables: createMessage and addToQueue by an active member, *)
(* PlaybackService.play and skip by the host.                              *)

InsertCheck(r, u, t) ==
    /\ phase = "live"
    /\ IF t = "playback_states" THEN hostId = u ELSE status[u] = "active"
    /\ Begin(r, "insert", u, NoUser, t)
    /\ UNCHANGED <<roomVars, status, refs, now, sweepVars>>

(* A row committed after the sweep is not one that the sweep deleted. *)
Insert(r) ==
    /\ At(r, "insert")
    /\ IF phase = "live"
       THEN /\ refs' = refs \cup {task[r].table}
            /\ sweptTables' = sweptTables \ {task[r].table}
            /\ Answer(r, "done")
       ELSE Answer(r, "failed") /\ UNCHANGED <<refs, sweptTables>>
    /\ UNCHANGED <<roomVars, status, now, sweptMembers>>

(* deleteEntry or skip removes the last entry of the queue. *)
DrainQueue ==
    /\ "room_queue_entries" \in refs
    /\ refs' = refs \ {"room_queue_entries"}
    /\ UNCHANGED <<roomVars, status, now, sweepVars, task>>

Tick ==
    /\ now < MaxTime
    /\ now' = now + 1
    /\ UNCHANGED <<roomVars, status, refs, sweepVars, task>>

(* A request arrives, and its handler goes on. *)
Arrive(r) ==
    \E u \in User :
       \/ JoinCheck(r, u) \/ LeaveReadRoom(r, u) \/ DeleteRequest(r, u)
       \/ \E t \in Tables : InsertCheck(r, u, t)
Handle(r) ==
    \/ JoinCount(r) \/ JoinUpsert(r)
    \/ LeaveCheck(r) \/ LeaveMember(r) \/ LeaveSuccessor(r)
    \/ HandoffRoom(r) \/ HandoffMembers(r)
    \/ DeleteRead(r) \/ SweepMembers(r) \/ SweepMessages(r) \/ DeleteRow(r)
    \/ Insert(r)
Evict(r) == EvictId(r) \/ EvictCode(r)

RoomStep ==
    \/ \E u \in User : CreateRoom(u)
    \/ \E r \in Req : Arrive(r) \/ Handle(r)
    \/ \E r, q \in Req : Deadlock(r, q)
    \/ DrainQueue
Next == RoomStep \/ (\E r \in Req : Evict(r)) \/ Tick

Spec == Init /\ [][Next]_vars

(* Node.js runs every continuation, and PostgreSQL's lock queues let every *)
(* waiting statement through and break every deadlock.                     *)
Fairness ==
    /\ \A r \in Req : SF_vars(Handle(r) \/ Evict(r))
    /\ \A r, q \in Req : WF_vars(Deadlock(r, q))
FairSpec == Spec /\ Fairness

-----------------------------------------------------------------------------
Task == [pc : PC, user : User \cup {NoUser}, peer : User \cup {NoUser},
         table : Tables \cup {NoTable}]

(* Every variable has its type. *)
TypeOK ==
    /\ phase \in {"unborn", "live", "deleted"}
    /\ hostId \in User
    /\ status \in [User -> {"none", "active", "left"}]
    /\ role \in [User -> {"HOST", "MEMBER"}]
    /\ joinedAt \in [User -> 0..MaxTime]
    /\ refs \subseteq Tables
    /\ now \in 0..MaxTime
    /\ sweptMembers \subseteq User /\ sweptTables \subseteq Tables
    /\ task \in [Req -> Task]

(* rooms.host_id and room_members agree: the host of a room has a member   *)
(* row, and that row says HOST, whichever handoffs and deletes overlap.    *)
HostRowIsHost ==
    phase = "live" => status[hostId] # "none" /\ role[hostId] = "HOST"

(* Requests that passed the capacity check and have not joined yet. *)
Admitted == {r \in Req : At(r, "join_upsert")}

(* joinRoom counts first and inserts later, so concurrent joins overshoot  *)
(* maxParticipants, but by no more than the other joins in progress; with  *)
(* a single join at a time the room never holds more than it may.          *)
OvershootBounded ==
    Cardinality(Active) + Cardinality(Admitted) <= MaxParticipants + Cardinality(Joins) - 1

(* deleteRoom takes every row that refers to the room with it, whatever    *)
(* was inserted while it ran: no orphan is left behind.                    *)
NoOrphans ==
    phase # "live" => Members = {} /\ refs = {}

(* The assertHost comment of PlaybackService: "hostId can never point at a *)
(* departed user".  Holds when no two departures overlap.                  *)
HostIsActive ==
    phase = "live" => status[hostId] = "active"

(* The test of deleteRoom: it "throws ForbiddenException when called by    *)
(* someone other than the host".  The room is deleted by a request of the  *)
(* one who is its host at that moment, not of one who was when deleteRoom  *)
(* asked and has handed the room over since.                               *)
DeletedByItsHost ==
    [][(phase = "live" /\ phase' = "deleted")
         => \E r \in Req : At(r, "delete_room") /\ Me(r) = hostId]_vars

(* No request ends in an unexpected database error (500). *)
NoServerError == \A r \in Req : ~At(r, "failed")

(* The locks of joinRoom, leaveRoom and deleteRoom leave nobody behind:     *)
(* while a request is in progress there is one that waits for no row, or a *)
(* handoff and a deletion wait for each other, which PostgreSQL resolves.  *)
SomebodyGoesOn ==
    (\E r \in Req : Busy(r))
        => \/ \E r \in Req : Busy(r) /\ ~Waits(r)
           \/ \E r, q \in Req : Deadlocked(r, q)

(* Every request is answered: whatever rows joinRoom, leaveRoom's handoff   *)
(* and deleteRoom wait for, nobody waits for ever.                         *)
EveryRequestAnswered ==
    \A r \in Req : Busy(r) ~> ~Busy(r)
=============================================================================

-------------------------- MODULE RoomCache_proofs --------------------------
(* How long a departed host is served from the cache, for every lifetime,  *)
(* every delay and any number of readers.                                  *)
EXTENDS RoomCache, RoomMembership_proofs

CacheTypeInv == TypeInv /\ CacheTypeOK

LEMMA CacheTypeInit == CacheInit => CacheTypeInv
  BY TypeInit, CacheAssumption DEF CacheInit, CacheTypeInv, CacheTypeOK, NoEntry, Idle, Key

LEMMA RoomTypeStep == ASSUME TypeInv, CacheNext PROVE TypeInv'
<1>1. CASE Service \/ \E r \in Req : EvictKey(r)
  BY <1>1, TypeStep DEF Service, EvictKey, Next
<1>2. ASSUME NEW r \in Req, EvictionLost(r) PROVE TypeInv'
  BY <1>2, AnswerType DEF EvictionLost, Rest, roomVars, sweepVars, TypeInv, TypeOK
<1>3. CASE UNCHANGED vars
  BY <1>3, TypeStep
<1> QED
  BY <1>1, <1>2, <1>3 DEF CacheNext, Lookup, FillRead, FillSet, Command, CacheTick

LEMMA CacheTypeStep == CacheTypeInv /\ [CacheNext]_allVars => CacheTypeInv'
<1> SUFFICES ASSUME CacheTypeInv, [CacheNext]_allVars PROVE CacheTypeInv'
  OBVIOUS
<1> USE CacheAssumption DEF CacheTypeInv, CacheTypeOK
<1>0. hostId \in User
  BY DEF TypeInv, TypeOK
<1>1. ASSUME CacheNext PROVE CacheTypeOK'
  <2>1. ASSUME NEW c \in Reader, NEW k \in Key, Lookup(c, k) PROVE CacheTypeOK'
    BY <2>1 DEF Lookup, Resolve, Advance, Idle, Key
  <2>2. ASSUME NEW c \in Reader, FillRead(c) PROVE CacheTypeOK'
    BY <1>0, <2>2 DEF FillRead, Advance, Idle, Key
  <2>3. ASSUME NEW c \in Reader, FillSet(c) PROVE CacheTypeOK'
    <3>1. /\ reader[c].key \in Key /\ reader[c].host \in User \cup {NoUser}
          /\ clock + TTL \in 0..MaxClock + TTL
      OBVIOUS
    <3>2. entry' \in [Key -> [host : User \cup {NoUser}, expires : 0..MaxClock + TTL]]
      BY <2>3, <3>1 DEF FillSet, Lifetime
    <3> QED
      BY <2>3, <3>1, <3>2 DEF FillSet, Resolve, Advance, Idle, Key
  <2>4. ASSUME NEW c \in Reader, Command(c) PROVE CacheTypeOK'
    BY <2>4 DEF Command, Idle, Key
  <2>5. CASE Service
    BY <2>5 DEF Service
  <2>6. ASSUME NEW r \in Req, EvictKey(r) PROVE CacheTypeOK'
    BY <2>6 DEF EvictKey, Evicted, NoEntry, Key
  <2>7. ASSUME NEW r \in Req, EvictionLost(r) PROVE CacheTypeOK'
    BY <2>7 DEF EvictionLost, Key
  <2>8. CASE CacheTick
    BY <2>8 DEF CacheTick
  <2> QED
    BY <1>1, <2>1, <2>2, <2>3, <2>4, <2>5, <2>6, <2>7, <2>8 DEF CacheNext
<1>2. ASSUME CacheNext PROVE TypeInv'
  BY <1>2, RoomTypeStep
<1>3. CASE UNCHANGED allVars
  <2>1. TypeInv'
    BY <1>3, TypeStep DEF allVars
  <2> QED
    BY <1>3, <2>1 DEF allVars, cacheVars
<1> QED
  BY <1>1, <1>2, <1>3

(* CacheTypeOK: every variable of the cache always has its type. *)
THEOREM CacheTypeCorrect == CacheSpec => []CacheTypeOK
<1>1. CacheTypeInv => CacheTypeOK
  BY DEF CacheTypeInv
<1> QED
  BY <1>1, CacheTypeInit, CacheTypeStep, PTL DEF CacheSpec

-----------------------------------------------------------------------------
(* How long an outdated entry, fill or command can still last. *)
EntryInv ==
    \A k \in Key : entry[k].host # NoUser =>
        /\ entry[k].expires <= clock + TTL
        /\ Outdated(entry[k].host) => entry[k].expires <= changedAt + MaxLag + TTL
ReaderInv ==
    \A c \in Reader : reader[c].pc \in {"set", "command"} =>
        /\ reader[c].since <= clock /\ clock <= reader[c].since + MaxLag
        /\ Outdated(reader[c].host) =>
              /\ reader[c].pc = "set" => reader[c].since <= changedAt
              /\ reader[c].pc = "command" => reader[c].since < changedAt + MaxLag + TTL
ExposureInv == CacheTypeInv /\ changedAt <= clock /\ EntryInv /\ ReaderInv

LEMMA ExposureInit == CacheInit => ExposureInv
  BY CacheTypeInit, CacheAssumption DEF CacheInit, ExposureInv, EntryInv, ReaderInv, NoEntry, Idle

(* What a reader knows about the room when it knows it. *)
LEMMA Informed ==
  ASSUME ExposureInv, NEW c \in Reader, NEW h \in User \cup {NoUser}, NEW k \in Key,
         Resolve(c, k, h), UNCHANGED <<phase, hostId, clock, changedAt>>,
         Outdated(h) => clock < changedAt + MaxLag + TTL
  PROVE  ReaderInv'
<1> USE CacheAssumption DEF ExposureInv, CacheTypeInv, CacheTypeOK, ReaderInv, Outdated
<1>1. CASE k = "room:id"
  BY <1>1 DEF Resolve, Advance
<1>2. CASE k # "room:id"
  BY <1>2 DEF Resolve, Idle
<1> QED
  BY <1>1, <1>2

LEMMA ExposureStep == ExposureInv /\ [CacheNext]_allVars => ExposureInv'
<1> SUFFICES ASSUME ExposureInv, [CacheNext]_allVars
             PROVE  (changedAt <= clock)' /\ EntryInv' /\ ReaderInv'
  BY CacheTypeStep DEF ExposureInv
<1> USE CacheAssumption DEF ExposureInv
<1>0. CacheTypeOK /\ CacheTypeOK' /\ hostId \in User
  BY CacheTypeStep DEF CacheTypeInv, TypeInv, TypeOK
<1> USE <1>0 DEF CacheTypeOK
<1> DEFINE Goal == (changedAt <= clock)' /\ EntryInv' /\ ReaderInv'
<1>1. ASSUME NEW c \in Reader, NEW k \in Key, Lookup(c, k) PROVE Goal
  <2>1. UNCHANGED <<phase, hostId, clock, changedAt, entry>>
    BY <1>1 DEF Lookup, vars
  <2>2. EntryInv'
    BY <2>1 DEF EntryInv, Outdated
  <2>3. CASE Present(k)
    <3>1. Outdated(entry[k].host) => clock < changedAt + MaxLag + TTL
      BY <2>3 DEF EntryInv, Present
    <3>2. ReaderInv'
      BY <1>1, <2>1, <2>3, <3>1, Informed DEF Lookup
    <3> QED
      BY <2>1, <2>2, <3>2
  <2>4. CASE ~Present(k)
    <3>1. Advance(c, "read", k, NoUser)
      BY <1>1, <2>4 DEF Lookup
    <3>2. ReaderInv'
      BY <2>1, <3>1 DEF Advance, ReaderInv, Outdated
    <3> QED
      BY <2>1, <2>2, <3>2
  <2> QED
    BY <2>3, <2>4
<1>2. ASSUME NEW c \in Reader, FillRead(c) PROVE Goal
  <2>1. UNCHANGED <<phase, hostId, clock, changedAt, entry>>
    BY <1>2 DEF FillRead, vars
  <2>2. EntryInv'
    BY <2>1 DEF EntryInv, Outdated
  <2>3. ReaderInv'
    BY <1>2, <2>1 DEF FillRead, Advance, Idle, ReaderInv, Outdated
  <2> QED
    BY <2>1, <2>2, <2>3
<1>3. ASSUME NEW c \in Reader, FillSet(c) PROVE Goal
  <2>1. UNCHANGED <<phase, hostId, clock, changedAt>>
    BY <1>3 DEF FillSet, vars
  <2>2. reader[c].key \in Key /\ reader[c].host \in User \cup {NoUser}
    OBVIOUS
  <2>3. Outdated(reader[c].host) => clock <= changedAt + MaxLag
    BY <1>3 DEF FillSet, ReaderInv
  <2>4. EntryInv'
    BY <1>3, <2>1, <2>2, <2>3 DEF FillSet, Lifetime, EntryInv, Outdated
  <2>5. ReaderInv'
    BY <1>3, <2>1, <2>2, <2>3, Informed DEF FillSet
  <2> QED
    BY <2>1, <2>4, <2>5
<1>4. ASSUME NEW c \in Reader, Command(c) PROVE Goal
  BY <1>4 DEF Command, Idle, vars, EntryInv, ReaderInv, Outdated
<1>5. CASE Service
  <2>1. CASE Change
    BY <1>5, <2>1 DEF Service, EntryInv, ReaderInv
  <2>2. CASE ~Change
    BY <1>5, <2>2 DEF Service, Change, EntryInv, ReaderInv, Outdated
  <2> QED
    BY <2>1, <2>2
<1>6. ASSUME NEW r \in Req, EvictKey(r) PROVE Goal
  <2>1. UNCHANGED <<phase, hostId, clock, changedAt, reader>>
    BY <1>6 DEF EvictKey, Evict, EvictId, EvictCode, roomVars
  <2>2. EntryInv'
    BY <1>6, <2>1 DEF EvictKey, Evicted, NoEntry, EntryInv, Outdated
  <2> QED
    BY <2>1, <2>2 DEF ReaderInv, Outdated
<1>7. ASSUME NEW r \in Req, EvictionLost(r) PROVE Goal
  BY <1>7 DEF EvictionLost, roomVars, EntryInv, ReaderInv, Outdated
<1>8. CASE CacheTick
  BY <1>8 DEF CacheTick, vars, EntryInv, ReaderInv, Outdated
<1>9. CASE UNCHANGED allVars
  BY <1>9 DEF allVars, vars, cacheVars, EntryInv, ReaderInv, Outdated
<1> QED
  BY <1>1, <1>2, <1>3, <1>4, <1>5, <1>6, <1>7, <1>8, <1>9 DEF CacheNext

(* ExposureBounded: no cached room outlives a handoff or a deletion by      *)
(* MaxLag + TTL, whatever becomes of the evictions.                        *)
THEOREM ExposureIsBounded == CacheSpec => []ExposureBounded
<1>1. ExposureInv => ExposureBounded
  BY CacheAssumption
  DEF ExposureInv, CacheTypeInv, CacheTypeOK, EntryInv, ExposureBounded, Present
<1> QED
  BY <1>1, ExposureInit, ExposureStep, PTL DEF CacheSpec

(* StaleCommandsBounded: nor does the departed host's control over the      *)
(* playback, but for the time of one more await.                           *)
THEOREM StaleCommandsAreBounded == CacheSpec => []StaleCommandsBounded
<1>1. ExposureInv => StaleCommandsBounded
  BY CacheAssumption
  DEF ExposureInv, CacheTypeInv, CacheTypeOK, ReaderInv, StaleCommandsBounded
<1> QED
  BY <1>1, ExposureInit, ExposureStep, PTL DEF CacheSpec

-----------------------------------------------------------------------------
USE DEF At, Me, Rest, roomVars, sweepVars

(* Who still evicts a key. *)
ToEvict(k) == {r \in Req : At(r, "del_id") \/ (k # "room:id" /\ At(r, "del_code"))}

(* Nothing is cached of a room before it is created. *)
NothingBefore ==
    phase = "unborn" => /\ \A c \in Reader : reader[c].pc = "idle"
                        /\ \A k \in Key : entry[k].host = NoUser

(* An outdated entry has an eviction to come, an outdated fill has been noted. *)
EntryDue ==
    \A k \in Key \ missed :
        entry[k].host # NoUser /\ Outdated(entry[k].host) => ToEvict(k) # {}
FillNoted ==
    \A c \in Reader :
        reader[c].pc = "set" /\ Outdated(reader[c].host) => reader[c].key \in missed

EvictionInv == CacheTypeInv /\ NothingBefore /\ EntryDue /\ FillNoted

LEMMA EvictionInit == CacheInit => EvictionInv
  BY CacheTypeInit DEF CacheInit, EvictionInv, NothingBefore, EntryDue, FillNoted, NoEntry, Idle

(* Only HandoffMembers, DeleteRow and CreateRoom change the rooms row, and *)
(* the first two go on to the evictions.                                   *)
LEMMA RoomChanges ==
  ASSUME TypeInv, RoomStep
  PROVE  /\ Change => phase = "unborn" \/ (\E r \in Req : At(r, "del_id")')
         /\ phase' = "unborn" => phase = "unborn"
<1> USE DEF TypeInv, TypeOK
<1>1. ASSUME NEW u \in User, CreateRoom(u)
      PROVE  phase = "unborn" /\ phase' = "live"
  BY <1>1 DEF CreateRoom
<1>2. ASSUME NEW r \in Req, HandoffMembers(r)
      PROVE  At(r, "del_id")' /\ phase' = phase
  BY <1>2 DEF HandoffMembers, Goto, Move, Put
<1>3. ASSUME NEW r \in Req, DeleteRow(r)
      PROVE  \/ At(r, "del_id")' /\ phase' = "deleted"
             \/ UNCHANGED <<phase, hostId>>
  <2>1. CASE phase' = "deleted" /\ Goto(r, "del_id")
    BY <2>1 DEF Goto, Move, Put
  <2>2. CASE UNCHANGED <<phase, hostId>>
    BY <2>2
  <2> QED
    BY <1>3, <2>1, <2>2 DEF DeleteRow
<1>4. ASSUME NEW r \in Req, Arrive(r) \/ Handle(r), ~HandoffMembers(r), ~DeleteRow(r)
      PROVE  UNCHANGED <<phase, hostId>>
  BY <1>4 DEF Arrive, Handle, JoinCheck, LeaveReadRoom, DeleteRequest, InsertCheck, JoinCount, JoinUpsert,
     LeaveCheck, LeaveMember, LeaveSuccessor, HandoffRoom, DeleteRead, SweepMembers, SweepMessages, Insert
<1>5. ASSUME (\E r, q \in Req : Deadlock(r, q)) \/ DrainQueue PROVE UNCHANGED <<phase, hostId>>
  BY <1>5 DEF Deadlock, DrainQueue
<1> QED
  BY <1>1, <1>2, <1>3, <1>4, <1>5 DEF RoomStep, Change

(* No other step of the service moves a request that evicts. *)
LEMMA EvictionsStay ==
  ASSUME TypeInv, RoomStep, NEW r \in Req, At(r, "del_id") \/ At(r, "del_code")
  PROVE  task'[r] = task[r]
<1> USE DEF TypeInv, TypeOK, Begin, Answer, Goto, Move, Put
<1>1. ASSUME NEW u \in User, CreateRoom(u) PROVE task'[r] = task[r]
  BY <1>1 DEF CreateRoom
<1>2. ASSUME NEW q \in Req, Arrive(q) PROVE task'[r] = task[r]
  BY <1>2 DEF Arrive, JoinCheck, LeaveReadRoom, DeleteRequest, InsertCheck
<1>3. ASSUME NEW q \in Req, JoinCount(q) \/ JoinUpsert(q) \/ LeaveCheck(q) \/ LeaveMember(q)
                           \/ LeaveSuccessor(q) \/ HandoffRoom(q)
      PROVE  task'[r] = task[r]
  BY <1>3 DEF JoinCount, JoinUpsert, LeaveCheck, LeaveMember, LeaveSuccessor, HandoffRoom
<1>4. ASSUME NEW q \in Req, HandoffMembers(q) \/ DeleteRead(q) \/ SweepMembers(q) \/ SweepMessages(q)
                           \/ DeleteRow(q) \/ Insert(q)
      PROVE  task'[r] = task[r]
  BY <1>4 DEF HandoffMembers, DeleteRead, SweepMembers, SweepMessages, DeleteRow, Insert
<1>5. ASSUME NEW q \in Req, NEW t \in Req, Deadlock(q, t) PROVE task'[r] = task[r]
  BY <1>5 DEF Deadlock, Deadlocked
<1>6. CASE DrainQueue
  BY <1>6 DEF DrainQueue
<1> QED
  BY <1>1, <1>2, <1>3, <1>4, <1>5, <1>6 DEF RoomStep, Handle

LEMMA EvictionStep == EvictionInv /\ [CacheNext]_allVars => EvictionInv'
<1> SUFFICES ASSUME EvictionInv, [CacheNext]_allVars
             PROVE  NothingBefore' /\ EntryDue' /\ FillNoted'
  BY CacheTypeStep DEF EvictionInv
<1> DEFINE Goal == NothingBefore' /\ EntryDue' /\ FillNoted'
<1>0. CacheTypeOK /\ TypeInv /\ task \in [Req -> Task] /\ hostId \in User
  BY DEF EvictionInv, CacheTypeInv, TypeInv, TypeOK
<1>b. NothingBefore /\ EntryDue /\ FillNoted
  BY DEF EvictionInv
<1>1. ASSUME NEW c \in Reader, NEW k \in Key, Lookup(c, k) PROVE Goal
  <2>1. /\ UNCHANGED <<phase, hostId, task, entry, missed>> /\ phase # "unborn"
        /\ reader'[c].pc # "set" /\ \A d \in Reader \ {c} : reader'[d] = reader[d]
    BY <1>0, <1>1 DEF Lookup, Resolve, Advance, Idle, CacheTypeOK, vars, roomVars
  <2> QED
    BY <1>b, <2>1 DEF NothingBefore, EntryDue, FillNoted, Outdated, ToEvict
<1>2. ASSUME NEW c \in Reader, FillRead(c) PROVE Goal
  <2>1. /\ UNCHANGED <<phase, hostId, task, entry, missed>> /\ phase # "unborn"
        /\ \A d \in Reader \ {c} : reader'[d] = reader[d]
    BY <1>0, <1>2, <1>b DEF FillRead, Advance, CacheTypeOK, NothingBefore, vars, roomVars
  <2>2. reader'[c].pc = "set" => phase = "live" /\ reader'[c].host = hostId
    BY <1>0, <1>2 DEF FillRead, Advance, Idle, CacheTypeOK
  <2> QED
    BY <1>b, <2>1, <2>2 DEF NothingBefore, EntryDue, FillNoted, Outdated, ToEvict
<1>3. ASSUME NEW c \in Reader, FillSet(c) PROVE Goal
  <2> DEFINE k == reader[c].key
  <2>1. /\ UNCHANGED <<phase, hostId, task, missed>> /\ phase # "unborn" /\ reader[c].pc = "set"
        /\ reader'[c].pc # "set" /\ \A d \in Reader \ {c} : reader'[d] = reader[d]
    BY <1>0, <1>3, <1>b DEF FillSet, Resolve, Advance, Idle, CacheTypeOK, NothingBefore, vars, roomVars
  <2>2. k \in Key /\ entry'[k].host = reader[c].host /\ \A l \in Key \ {k} : entry'[l] = entry[l]
    BY <1>0, <1>3 DEF FillSet, CacheTypeOK
  <2>3. Outdated(reader[c].host) => k \in missed
    BY <1>b, <2>1 DEF FillNoted
  <2>4. EntryDue'
    BY <1>b, <2>1, <2>2, <2>3 DEF EntryDue, Outdated, ToEvict
  <2> QED
    BY <1>b, <2>1, <2>4 DEF NothingBefore, FillNoted, Outdated
<1>4. ASSUME NEW c \in Reader, Command(c) PROVE Goal
  <2>1. /\ UNCHANGED <<phase, hostId, task, entry, missed>>
        /\ reader'[c].pc = "idle" /\ \A d \in Reader \ {c} : reader'[d] = reader[d]
    BY <1>0, <1>4 DEF Command, Idle, CacheTypeOK, vars, roomVars
  <2> QED
    BY <1>b, <2>1 DEF NothingBefore, EntryDue, FillNoted, Outdated, ToEvict
<1>5. CASE Service
  <2>1. RoomStep /\ UNCHANGED <<clock, entry, reader>>
    BY <1>5 DEF Service
  <2>2. \A k \in Key : ToEvict(k) \subseteq ToEvict(k)'
    BY <1>0, <2>1, EvictionsStay DEF ToEvict
  <2>3. NothingBefore'
    BY <1>0, <1>b, <2>1, RoomChanges DEF NothingBefore
  <2>4. CASE ~Change
    <3>1. UNCHANGED <<phase, hostId, missed>>
      BY <1>5, <2>4 DEF Service, Change
    <3> QED
      BY <1>b, <2>1, <2>2, <2>3, <3>1 DEF EntryDue, FillNoted, Outdated
  <2>5. CASE Change
    <3>1. missed' = {k \in Key : InFill(k)}
      BY <1>5, <2>5 DEF Service
    <3>2. FillNoted'
      BY <1>0, <2>1, <3>1 DEF FillNoted, InFill, CacheTypeOK
    <3>3. CASE phase = "unborn"
      BY <1>b, <2>1, <2>3, <3>2, <3>3 DEF NothingBefore, EntryDue
    <3>4. ASSUME NEW r \in Req, At(r, "del_id")' PROVE Goal
      BY <2>3, <3>2, <3>4 DEF EntryDue, ToEvict
    <3> QED
      BY <1>0, <2>1, <2>5, <3>3, <3>4, RoomChanges
  <2> QED
    BY <2>4, <2>5
<1>6. ASSUME NEW r \in Req, EvictKey(r) PROVE Goal
  <2>1. /\ UNCHANGED <<phase, hostId, reader, missed>>
        /\ \A q \in Req \ {r} : task'[q] = task[q]
    BY <1>0, <1>6 DEF EvictKey, Evict, EvictId, EvictCode, Goto, Move, Answer, Put, roomVars
  <2>2. CASE At(r, "del_id")
    <3>1. entry'["room:id"].host = NoUser /\ \A k \in Key \ {"room:id"} : entry'[k] = entry[k]
      BY <1>0, <1>6, <2>2 DEF EvictKey, Evicted, NoEntry, CacheTypeOK, Key
    <3>2. At(r, "del_code")'
      BY <1>0, <1>6, <2>2 DEF EvictKey, Evict, EvictId, EvictCode, Goto, Move, Put
    <3>3. EntryDue'
      BY <1>b, <2>1, <3>1, <3>2 DEF EntryDue, ToEvict, Outdated
    <3> QED
      BY <1>b, <2>1, <3>1, <3>3 DEF NothingBefore, FillNoted, Outdated
  <2>3. CASE ~At(r, "del_id")
    <3>1. entry'["room:code:code"].host = NoUser /\ entry'["room:id"] = entry["room:id"]
      BY <1>0, <1>6, <2>3 DEF EvictKey, Evicted, NoEntry, CacheTypeOK, Key
    <3>2. EntryDue'
      BY <1>b, <2>1, <2>3, <3>1 DEF EntryDue, ToEvict, Outdated, Key
    <3> QED
      BY <1>b, <2>1, <3>1, <3>2 DEF NothingBefore, FillNoted, Outdated, Key
  <2> QED
    BY <2>2, <2>3
<1>7. ASSUME NEW r \in Req, EvictionLost(r) PROVE Goal
  <2>1. /\ UNCHANGED <<phase, hostId, entry, reader>> /\ missed \subseteq missed'
        /\ \A q \in Req \ {r} : task'[q] = task[q]
    BY <1>0, <1>7 DEF EvictionLost, Answer, Put, roomVars
  <2>2. At(r, "del_id") => missed' = Key
    BY <1>0, <1>7 DEF EvictionLost, CacheTypeOK
  <2>3. ~At(r, "del_id") => "room:code:code" \in missed'
    BY <1>7 DEF EvictionLost
  <2>4. EntryDue'
    BY <1>b, <2>1, <2>2, <2>3 DEF EntryDue, ToEvict, Outdated, Key
  <2> QED
    BY <1>b, <2>1, <2>4 DEF NothingBefore, FillNoted, Outdated
<1>8. CASE CacheTick
  BY <1>8, <1>b DEF CacheTick, vars, roomVars, NothingBefore, EntryDue, FillNoted, Outdated, ToEvict
<1>9. CASE UNCHANGED allVars
  BY <1>9, <1>b DEF allVars, vars, roomVars, cacheVars, NothingBefore, EntryDue, FillNoted, Outdated, ToEvict
<1> QED
  BY <1>1, <1>2, <1>3, <1>4, <1>5, <1>6, <1>7, <1>8, <1>9 DEF CacheNext

(* EvictionSuffices: when no request has an eviction to do, no entry is    *)
(* out of date but those whose eviction was lost or overtaken by a fill.   *)
THEOREM EvictionIsEnough == CacheSpec => []EvictionSuffices
<1>1. EvictionInv => EvictionSuffices
  BY DEF EvictionInv, EntryDue, EvictionSuffices, Present, ToEvict
<1> QED
  BY <1>1, EvictionInit, EvictionStep, PTL DEF CacheSpec
-----------------------------------------------------------------------------
(* What the room guarantees without a cache it guarantees with one.  The   *)
(* composition takes the steps of the room, and one that is not a step of  *)
(* it: a request that loses its evictions.                                 *)
GivesUp(r) ==
    /\ At(r, "del_id") \/ At(r, "del_code")
    /\ Answer(r, "failed")
    /\ UNCHANGED <<roomVars, status, refs, now, sweepVars>>

LEMMA RoomSteps == [CacheNext]_allVars => [Next]_vars \/ \E r \in Req : GivesUp(r)
<1>1. CASE Service \/ \E r \in Req : EvictKey(r)
  BY <1>1 DEF Service, EvictKey, Next
<1>2. ASSUME NEW r \in Req, EvictionLost(r) PROVE GivesUp(r)
  BY <1>2 DEF EvictionLost, GivesUp
<1>3. CASE UNCHANGED vars
  BY <1>3
<1> QED
  BY <1>1, <1>2, <1>3
  DEF CacheNext, Lookup, FillRead, FillSet, Command, CacheTick, allVars

LEMMA CapacityCached == CapacityInv /\ [CacheNext]_allVars => CapacityInv'
<1> SUFFICES ASSUME CapacityInv, NEW r \in Req, GivesUp(r) PROVE CapacityInv'
  BY RoomSteps, CapacityStep
<1>1. TypeOK /\ TypeInv /\ RowInv
  BY DEF CapacityInv, RowInv, TypeInv
<1>2. Answer(r, "failed") /\ UNCHANGED <<phase, hostId, status, role, joinedAt, refs, now>>
  BY DEF GivesUp
<1>3. TypeInv' /\ TypeOK'
  BY <1>1, <1>2, AnswerType DEF GivesUp, TypeInv, TypeOK
<1>4. RowInv'
  <2>1. NothingBeforeCreation' /\ HandoffHoldsRoom' /\ PeerHasRow'
    BY <1>1, <1>2, <1>3, AnswerKept DEF GivesUp
  <2> QED
    BY <1>1, <1>2, <1>3, <2>1 DEF RowInv, HostRowIsHost, NoOrphans, Members
<1>5. JoinersJoin' /\ Admitted' \subseteq Admitted
  BY <1>2, NotAdmitted DEF Answer
<1> QED
  BY <1>2, <1>3, <1>4, <1>5, NoGrowth DEF CapacityInv, Active

LEMMA ContractCached ==
  ASSUME OneDeparture, OneJoin
  PROVE  ContractInv /\ [CacheNext]_allVars => ContractInv' /\ [Contract!Next]_Contract!vars
<1> SUFFICES ASSUME ContractInv, NEW r \in Req, GivesUp(r), CapacityInv'
             PROVE  ContractInv' /\ UNCHANGED Contract!vars
  BY RoomSteps, ContractInvStep, ContractStep, CapacityCached DEF ContractInv
<1>1. RowInv' /\ TypeOK'
  BY DEF CapacityInv, RowInv, TypeInv
<1>2. /\ Put(r, "failed", NoUser, NoUser, NoTable)
      /\ UNCHANGED <<phase, hostId, status, joinedAt, now>> /\ Active' = Active
  BY DEF GivesUp, Answer, Active
<1>3. DepartInv'
  <2>1. task'[r].pc = "failed"
    BY <1>2 DEF Put, ContractInv, DepartInv, RowInv, TypeInv, TypeOK
  <2>2. Sound(r)'
    BY <2>1 DEF Sound, DepartPC, HostPC, Handing
  <2> QED
    BY <1>1, <1>2, <2>2, OthersKept DEF ContractInv, DepartInv
<1>4. StayInv'
  BY <1>1, <1>2, StaysKept DEF Joining, Handing
<1> QED
  BY <1>2, <1>3, <1>4, Unseen DEF ContractInv

(* HostRowIsHost, NoOrphans, OvershootBounded: they hold of the room behind *)
(* the cache too, whatever evictions are lost.                             *)
THEOREM CachedRoomCorrect ==
  CacheSpec => [](HostRowIsHost /\ NoOrphans /\ OvershootBounded)
<1>1. CacheInit => CapacityInv
  BY CapacityInit DEF CacheInit
<1>2. CapacityInv => HostRowIsHost /\ NoOrphans /\ OvershootBounded
  BY DEF CapacityInv, RowInv
<1> QED
  BY <1>1, <1>2, CapacityCached, PTL DEF CacheSpec

(* ImplementsContract: the room behind the cache keeps its contract.       *)
THEOREM CachedRoomKeepsItsContract ==
  ASSUME OneDeparture, OneJoin PROVE CacheSpec => ImplementsContract
<1>1. CacheInit => ContractInv /\ Contract!Init
  BY ContractInit DEF CacheInit
<1>2. ContractInv /\ [CacheNext]_allVars => ContractInv' /\ [Contract!Next]_Contract!vars
  BY ContractCached
<1> QED
  BY <1>1, <1>2, PTL DEF CacheSpec, ImplementsContract, Contract!Spec
=============================================================================

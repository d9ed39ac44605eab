------------------------------ MODULE RoomCache ------------------------------
(***************************************************************************)
(* The Redis cache in front of the rooms table, and the playback commands  *)
(* that trust it.  getRoomById and getRoomByCode fill an entry each in     *)
(* separate steps (cache.get, database read, cache.set), so a fill can     *)
(* overtake a handoff or a deletion and its two cache.del calls.           *)
(* PlaybackService.assertHost lets a caller through when the room it gets  *)
(* from getRoomById, cached or not, names the caller as host.              *)
(***************************************************************************)
EXTENDS RoomMembership

CONSTANTS
    Reader,   \* slots for requests that go through the cache
    TTL,      \* ROOM_CACHE_TTL_MS, in ticks
    MaxLag,   \* bound on the time between two awaits of a reader, in ticks
    MaxClock  \* bound of the clock of cache entries

ASSUME CacheAssumption == TTL \in Nat \ {0} /\ MaxLag \in Nat /\ MaxClock \in Nat

VARIABLES
    clock,     \* time, as Redis and the readers see it
    entry,     \* per cache key: the host of the cached room, when it expires
    reader,    \* per reader: where it is, the host it knows, since when
    changedAt, \* history: when the rooms row last changed or went
    missed     \* history: keys whose last eviction was lost or overtaken

cacheVars == <<clock, entry, reader, changedAt, missed>>
allVars == <<vars, cacheVars>>

Key == {"room:id", "room:code:code"}
NoEntry == [host |-> NoUser, expires |-> 0]
Present(k) == entry[k].host # NoUser /\ clock < entry[k].expires
Idle == [pc |-> "idle", key |-> "room:id", host |-> NoUser, since |-> 0]

CacheInit ==
    /\ Init
    /\ clock = 0
    /\ entry = [k \in Key |-> NoEntry]
    /\ reader = [c \in Reader |-> Idle]
    /\ changedAt = 0
    /\ missed = {}

-----------------------------------------------------------------------------
Advance(c, pc, k, h) ==
    reader' = [reader EXCEPT ![c] = [pc |-> pc, key |-> k, host |-> h, since |-> clock]]

(* A reader that knows the room: assertHost goes on with a command of the  *)
(* host it was told; the other callers of the cache answer.                *)
Resolve(c, k, h) ==
    IF k = "room:id" THEN Advance(c, "command", k, h) ELSE reader' = [reader EXCEPT ![c] = Idle]

(* cache.get *)
Lookup(c, k) ==
    /\ reader[c].pc = "idle" /\ phase # "unborn"
    /\ IF Present(k) THEN Resolve(c, k, entry[k].host) ELSE Advance(c, "read", k, NoUser)
    /\ UNCHANGED <<vars, clock, entry, changedAt, missed>>

(* findUnique; 404 when the room is gone *)
FillRead(c) ==
    /\ reader[c].pc = "read"
    /\ IF phase = "live" THEN Advance(c, "set", reader[c].key, hostId)
                         ELSE reader' = [reader EXCEPT ![c] = Idle]
    /\ UNCHANGED <<vars, clock, entry, changedAt, missed>>

(* Mutant: the entry lives one tick longer. *)
LifetimePlus == TTL + 1
Lifetime == TTL

(* cache.set *)
FillSet(c) ==
    LET k == reader[c].key
    IN /\ reader[c].pc = "set"
       /\ entry' = [entry EXCEPT ![k] = [host |-> reader[c].host, expires |-> clock + Lifetime]]
       /\ Resolve(c, k, reader[c].host)
       /\ UNCHANGED <<vars, clock, changedAt, missed>>

(* The command that assertHost let through writes the playback state. *)
Command(c) ==
    /\ reader[c].pc = "command"
    /\ reader' = [reader EXCEPT ![c] = Idle]
    /\ UNCHANGED <<vars, clock, entry, changedAt, missed>>

-----------------------------------------------------------------------------
(* A step of RoomsService.  When it commits a change of the rooms row, a    *)
(* fill that has read the old row is about to write it to the cache.  The  *)
(* order of the stays plays no part here, so `now` stands still.           *)
InFill(k) == \E c \in Reader : reader[c].pc = "set" /\ reader[c].key = k

Change == <<phase, hostId>>' # <<phase, hostId>>

Service ==
    /\ RoomStep
    /\ changedAt' = IF Change THEN clock ELSE changedAt
    /\ missed' = IF Change THEN {k \in Key : InFill(k)} ELSE missed
    /\ UNCHANGED <<clock, entry, reader>>

(* Mutant: evicts the entry under the room's id only. *)
EvictedIdOnly(k) == IF k = "room:id" THEN NoEntry ELSE entry[k]
Evicted(k) == NoEntry

EvictKey(r) ==
    /\ Evict(r)
    /\ LET k == IF At(r, "del_id") THEN "room:id" ELSE "room:code:code"
       IN entry' = [entry EXCEPT ![k] = Evicted(k)]
    /\ UNCHANGED <<clock, reader, changedAt, missed>>

(* The process stops, or Redis is away, after the commit: no cache.del. *)
EvictionLost(r) ==
    /\ At(r, "del_id") \/ At(r, "del_code")
    /\ Answer(r, "failed")
    /\ missed' = missed \cup (IF At(r, "del_id") THEN Key ELSE {"room:code:code"})
    /\ UNCHANGED <<roomVars, status, refs, now, sweepVars, clock, entry, reader, changedAt>>

(* Time passes, but no reader waits longer than MaxLag for its next step. *)
CacheTick ==
    /\ clock < MaxClock
    /\ \A c \in Reader : reader[c].pc \in {"set", "command"} => clock < reader[c].since + MaxLag
    /\ clock' = clock + 1
    /\ UNCHANGED <<vars, entry, reader, changedAt, missed>>

CacheNext ==
    \/ \E c \in Reader :
          \/ \E k \in Key : Lookup(c, k)
          \/ FillRead(c) \/ FillSet(c) \/ Command(c)
    \/ Service
    \/ \E r \in Req : EvictKey(r) \/ EvictionLost(r)
    \/ CacheTick

CacheSpec == CacheInit /\ [][CacheNext]_allVars

-----------------------------------------------------------------------------
CacheTypeOK ==
    /\ clock \in 0..MaxClock
    /\ entry \in [Key -> [host : User \cup {NoUser}, expires : 0..MaxClock + TTL]]
    /\ reader \in [Reader -> [pc : {"idle", "read", "set", "command"}, key : Key,
                              host : User \cup {NoUser}, since : 0..MaxClock]]
    /\ changedAt \in 0..MaxClock
    /\ missed \subseteq Key

Outdated(h) == phase = "deleted" \/ h # hostId

(* ROOM_CACHE_TTL_MS: "even without the explicit invalidation below, the   *)
(* exposure is bounded".  An entry with a departed host, or of a deleted   *)
(* room, is served no longer than one fill in progress plus one lifetime   *)
(* after the change, whatever evictions are lost or overtaken.             *)
ExposureBounded ==
    \A k \in Key :
        Present(k) /\ Outdated(entry[k].host) => clock < changedAt + MaxLag + TTL

(* A playback command of somebody who is no longer the host is accepted no *)
(* later than that, plus the command's own way to the database.            *)
StaleCommandsBounded ==
    \A c \in Reader :
        reader[c].pc = "command" /\ Outdated(reader[c].host)
            => clock < changedAt + 2 * MaxLag + TTL

(* The evictions do what they are for: once a handoff or deletion has been  *)
(* answered, neither entry is out of date, unless a fill overtook the      *)
(* eviction or the eviction was lost.                                      *)
EvictionSuffices ==
    \A k \in Key \ missed :
        Present(k) /\ Outdated(entry[k].host)
            => \E r \in Req : At(r, "del_id") \/ At(r, "del_code")
=============================================================================

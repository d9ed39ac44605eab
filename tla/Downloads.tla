----------------------------- MODULE Downloads -----------------------------
(***************************************************************************)
(* Tracks on their way out.  getDownloadUrl answers from a cache entry of  *)
(* the user and the track, or reads the track, asks whether the user owns  *)
(* it or is in a room that has it queued, signs a URL, and fills the       *)
(* cache; meanwhile users join and leave and queue entries come and go.    *)
(* Times are kept as what is left of them, and `lostFor` as an age, so no  *)
(* clock bounds a behaviour.                                               *)
(***************************************************************************)
EXTENDS Uploads

CONSTANTS
    Room,
    Reader,      \* slots for getDownloadUrl requests
    CacheTTL,    \* TRACK_DOWNLOAD_CACHE_TTL_MS, in ticks
    UrlValidity, \* expiresIn of the download URL, in ticks
    MaxLag,      \* bound on the time between two awaits of a reader, in ticks
    MaxEntries,  \* bound on the queue entries of one track in one room
    Horizon      \* ages beyond it are not told apart

ASSUME DownloadAssumption ==
    /\ CacheTTL \in Nat /\ UrlValidity \in Nat /\ MaxLag \in Nat /\ MaxEntries \in Nat
    /\ Horizon \in Nat
    /\ CacheTTL + MaxLag < UrlValidity
    /\ UrlValidity <= Horizon

VARIABLES
    members, \* per room: the users with leftAt null
    entries, \* per room and track: its queue entries
    adding,  \* addToQueue requests that have passed their checks
    cached,  \* per user and track: how long the entry lasts, and its URL
    reader,  \* per request: where it is, for whom, since when, the URL it has
    held,    \* history: how long the best URL a user was given still works
    lostFor  \* history: since when a user has had no access to a track

roomVars == <<members, entries, adding>>
linkVars == <<cached, reader, held>>
allVars == <<uploadVars, roomVars, linkVars, lostFor>>

Pair == User \X Key
NoEntry == [left |-> 0, url |-> 0]
NoPair == <<NoUser, NoUser>>
Idle == [pc |-> "idle", pair |-> NoPair, waited |-> 0, url |-> 0]

(* Mutant: a room of the user, and a room that has the track queued. *)
QueuedAnywhere(u, k) ==
    \E r, s \in Room : u \in members[r] /\ entries[s, k] > 0
QueuedInMemberRoom(u, k) ==
    \E r \in Room : u \in members[r] /\ entries[r, k] > 0

(* What docs/development-plan.md promises: "owner-only, or queued in a      *)
(* room the caller is an active member of".                                *)
Access(p) ==
    \/ track[p[2]].owner = p[1]
    \/ \E r \in Room : p[1] \in members[r] /\ entries[r, p[2]] > 0

DownloadInit ==
    /\ UploadInit
    /\ members = [r \in Room |-> {}]
    /\ entries = [e \in Room \X Key |-> 0]
    /\ adding = {}
    /\ cached = [p \in Pair |-> NoEntry]
    /\ reader = [c \in Reader |-> Idle]
    /\ held = [p \in Pair |-> 0]
    /\ lostFor = [p \in Pair |-> Horizon]

-----------------------------------------------------------------------------
(* What a step does to the ages: they count from the loss of the access.   *)
NoteAccess ==
    lostFor' = [p \in Pair |-> IF Access(p) \/ Access(p)' THEN 0 ELSE lostFor[p]]

Upload ==
    /\ UploadStep
    /\ UNCHANGED <<roomVars, linkVars>>
    /\ NoteAccess

JoinRoom(u, r) ==
    /\ u \notin members[r]
    /\ members' = [members EXCEPT ![r] = @ \cup {u}]
    /\ UNCHANGED <<uploadVars, entries, adding, linkVars>>
    /\ NoteAccess

LeaveRoom(u, r) ==
    /\ u \in members[r]
    /\ members' = [members EXCEPT ![r] = @ \ {u}]
    /\ UNCHANGED <<uploadVars, entries, adding, linkVars>>
    /\ NoteAccess

(* The checks of addToQueue: a member, with a track of its own.            *)
QueueCheck(u, r, k) ==
    /\ u \in members[r] /\ Exists(k) /\ track[k].owner = u
    /\ adding' = adding \cup {<<r, k>>}
    /\ UNCHANGED <<uploadVars, members, entries, linkVars, lostFor>>

(* Its insert, whoever has left meanwhile. *)
QueueInsert(e) ==
    /\ e \in adding /\ entries[e] < MaxEntries
    /\ adding' = adding \ {e}
    /\ entries' = [entries EXCEPT ![e] = @ + 1]
    /\ UNCHANGED <<uploadVars, members, linkVars>>
    /\ NoteAccess

(* skip plays the entry and deletes it, deleteEntry deletes it. *)
EntryDeleted(e) ==
    /\ entries[e] > 0
    /\ entries' = [entries EXCEPT ![e] = @ - 1]
    /\ UNCHANGED <<uploadVars, members, adding, linkVars>>
    /\ NoteAccess

-----------------------------------------------------------------------------
Advance(c, pc, p, url) ==
    reader' = [reader EXCEPT ![c] = [pc |-> pc, pair |-> p, waited |-> 0, url |-> url]]

EndRead(c) == reader' = [reader EXCEPT ![c] = Idle]

Give(p, url) == held' = [held EXCEPT ![p] = IF url > @ THEN url ELSE @]

(* Mutant: only the permission is cached; a hit signs another URL. *)
HitSigned(p) == UrlValidity
Hit(p) == cached[p].url

(* Mutant: a hit starts the entry's lifetime again. *)
AfterHitExtended(p) == [cached EXCEPT ![p].left = CacheTTL]
AfterHit(p) == cached

(* cache.get *)
Lookup(c, p) ==
    /\ reader[c].pc = "idle"
    /\ IF cached[p].left > 0
       THEN /\ Give(p, Hit(p))
            /\ cached' = AfterHit(p)
            /\ UNCHANGED reader
       ELSE /\ Advance(c, "find", p, 0)
            /\ UNCHANGED <<cached, held>>
    /\ UNCHANGED <<uploadVars, roomVars, lostFor>>

(* Mutant: the URL is signed for one tick more. *)
SignedLonger == UrlValidity + 1
Signed == UrlValidity

(* createDownloadUrl: computed here, nobody is asked.                      *)
Sign(c) == Advance(c, "set", reader[c].pair, Signed)

(* findUnique; 404 *)
FindTrack(c) ==
    LET u == reader[c].pair[1]
        k == reader[c].pair[2]
    IN /\ reader[c].pc = "find"
       /\ CASE ~Exists(k) -> EndRead(c)
            [] Exists(k) /\ track[k].owner = u -> Sign(c)
            [] OTHER -> Advance(c, "access", reader[c].pair, 0)
       /\ UNCHANGED <<uploadVars, roomVars, cached, held, lostFor>>

(* findFirst; 403 *)
FindEntry(c) ==
    /\ reader[c].pc = "access"
    /\ IF QueuedInMemberRoom(reader[c].pair[1], reader[c].pair[2]) THEN Sign(c) ELSE EndRead(c)
    /\ UNCHANGED <<uploadVars, roomVars, cached, held, lostFor>>

(* cache.set, and the answer *)
FillCache(c) ==
    LET p == reader[c].pair
    IN /\ reader[c].pc = "set"
       /\ cached' = [cached EXCEPT ![p] = [left |-> CacheTTL, url |-> reader[c].url]]
       /\ Give(p, reader[c].url)
       /\ EndRead(c)
       /\ UNCHANGED <<uploadVars, roomVars, lostFor>>

(* The database or Redis is away: 500. *)
ReadFails(c) ==
    /\ reader[c].pc # "idle"
    /\ EndRead(c)
    /\ UNCHANGED <<uploadVars, roomVars, cached, held, lostFor>>

(* Time passes, but no reader waits longer than MaxLag for its next step.  *)
Tick ==
    /\ \A c \in Reader : reader[c].pc # "idle" => reader[c].waited < MaxLag
    /\ UploadTick
    /\ cached' = [p \in Pair |-> IF cached[p].left <= 1 THEN NoEntry
                                 ELSE [left |-> cached[p].left - 1, url |-> Less(cached[p].url)]]
    /\ reader' = [c \in Reader |-> IF reader[c].pc = "idle" THEN Idle
                                   ELSE [pc |-> reader[c].pc, pair |-> reader[c].pair,
                                         waited |-> reader[c].waited + 1,
                                         url |-> Less(reader[c].url)]]
    /\ held' = [p \in Pair |-> Less(held[p])]
    /\ lostFor' = [p \in Pair |-> IF Access(p) \/ lostFor[p] = Horizon THEN lostFor[p]
                                  ELSE lostFor[p] + 1]
    /\ UNCHANGED roomVars

DownloadNext ==
    \/ Upload
    \/ \E u \in User, r \in Room :
          \/ JoinRoom(u, r) \/ LeaveRoom(u, r)
          \/ \E k \in Key : QueueCheck(u, r, k)
    \/ \E e \in Room \X Key : QueueInsert(e) \/ EntryDeleted(e)
    \/ \E c \in Reader :
          \/ \E p \in Pair : Lookup(c, p)
          \/ FindTrack(c) \/ FindEntry(c) \/ FillCache(c) \/ ReadFails(c)
    \/ Tick

DownloadSpec == DownloadInit /\ [][DownloadNext]_allVars

-----------------------------------------------------------------------------
(* Every variable keeps its type. *)
DownloadTypeOK ==
    /\ members \in [Room -> SUBSET User]
    /\ entries \in [Room \X Key -> 0..MaxEntries]
    /\ adding \subseteq Room \X Key
    /\ cached \in [Pair -> [left : 0..CacheTTL, url : 0..UrlValidity]]
    /\ reader \in [Reader -> {Idle} \cup [pc : {"find", "access", "set"}, pair : Pair,
                                         waited : 0..MaxLag, url : 0..UrlValidity]]
    /\ held \in [Pair -> 0..UrlValidity]
    /\ lostFor \in [Pair -> 0..Horizon]

(* "owner-only, or queued in a room the caller is an active member of":    *)
(* somebody who has left the room, or whose room has lost the entry, is    *)
(* given the URL from the cache for less than one fill and one lifetime,   *)
(* and who never had access is never given one.                            *)
GivenOnlyBriefly ==
    \A p \in Pair : cached[p].left > 0 /\ ~Access(p) => lostFor[p] < MaxLag + CacheTTL

(* Whatever the cache goes on answering, no URL works longer than one      *)
(* validity after its user lost the access.                                *)
LinksDie ==
    \A p \in Pair : held[p] > 0 /\ ~Access(p) => lostFor[p] < UrlValidity

(* "Well under the presigned URL's own 1-hour validity": a URL taken from  *)
(* the cache has most of its validity left.                                *)
LinksWork ==
    \A p \in Pair : cached[p].left > 0 => cached[p].url > UrlValidity - CacheTTL - MaxLag
=============================================================================

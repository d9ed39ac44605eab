-------------------------- MODULE Downloads_proofs --------------------------
(***************************************************************************)
(* The windows of Downloads, for any users, rooms, readers and times.  The *)
(* inductive invariant bounds the sum of an age and of what is left of a   *)
(* validity: a tick moves one unit from the second to the first.           *)
(***************************************************************************)
EXTENDS Downloads, Uploads_proofs

(* Somebody with access has lost nothing. *)
AgesSound == \A p \in Pair : Access(p) => lostFor[p] = 0

CacheSound ==
    \A p \in Pair : cached[p].left > 0 =>
        /\ lostFor[p] + cached[p].left <= MaxLag + CacheTTL
        /\ lostFor[p] + cached[p].url <= UrlValidity
        /\ UrlValidity + cached[p].left <= cached[p].url + CacheTTL + MaxLag

(* A request that has signed a URL had access when it began to wait. *)
ReadersSound ==
    \A c \in Reader : reader[c].pc = "set" =>
        /\ lostFor[reader[c].pair] <= reader[c].waited
        /\ lostFor[reader[c].pair] + reader[c].url <= UrlValidity
        /\ UrlValidity <= reader[c].url + reader[c].waited

HeldSound == \A p \in Pair : held[p] > 0 => lostFor[p] + held[p] <= UrlValidity

LinksSound == AgesSound /\ CacheSound /\ ReadersSound /\ HeldSound

DownloadInv == UploadInv /\ DownloadTypeOK /\ LinksSound

Busy == [pc : {"find", "access", "set"}, pair : Pair, waited : 0..MaxLag, url : 0..UrlValidity]

(* A request under way is for a user and a track. *)
LEMMA BusyType ==
    ASSUME DownloadTypeOK, NEW c \in Reader, reader[c].pc # "idle"
    PROVE  /\ reader[c] \in Busy
           /\ reader[c].pair \in Pair
           /\ reader[c].pair[1] \in User /\ reader[c].pair[2] \in Key
<1>1. reader[c] \in {Idle} \cup Busy
    BY DEF DownloadTypeOK, Busy
<1>2. reader[c] \in Busy
    BY <1>1 DEF Idle
<1> QED BY <1>2 DEF Busy, Pair

LEMMA DownloadInitInv == DownloadInit => DownloadInv
<1> SUFFICES ASSUME DownloadInit PROVE DownloadInv
    OBVIOUS
<1> USE DownloadAssumption DEF DownloadInit
<1>1. UploadInv
    BY UploadInitInv
<1>2. DownloadTypeOK
    BY DEF DownloadTypeOK, NoEntry
<1>3. \A p \in Pair : ~Access(p)
    BY UploadAssumption DEF Access, NoTrack, UploadInit, Pair
<1>4. LinksSound
    BY <1>3 DEF LinksSound, AgesSound, CacheSound, ReadersSound, HeldSound, NoEntry, Idle
<1> QED BY <1>1, <1>2, <1>4 DEF DownloadInv

(* Whatever changes the access, the ages only shrink. *)
LEMMA AccessChangeInv ==
    ASSUME DownloadInv, UploadInv', UNCHANGED linkVars, NoteAccess,
           members' \in [Room -> SUBSET User],
           entries' \in [Room \X Key -> 0..MaxEntries],
           adding' \subseteq Room \X Key
    PROVE  DownloadInv'
<1> USE DEF DownloadInv
<1>1. \A p \in Pair : lostFor'[p] = IF Access(p) \/ Access(p)' THEN 0 ELSE lostFor[p]
    BY DEF NoteAccess
<1>2. \A p \in Pair : /\ lostFor[p] \in 0..Horizon
                      /\ lostFor'[p] \in 0..Horizon /\ lostFor'[p] <= lostFor[p]
                      /\ Access(p)' => lostFor'[p] = 0
    BY <1>1, DownloadAssumption DEF DownloadTypeOK
<1>3. lostFor' \in [Pair -> 0..Horizon]
    BY <1>2 DEF NoteAccess
<1>4. DownloadTypeOK'
    BY <1>3 DEF DownloadTypeOK, linkVars, Idle
<1>5. AgesSound'
    BY <1>2 DEF AgesSound
<1>6. CacheSound' /\ HeldSound'
    BY <1>2, DownloadAssumption DEF CacheSound, HeldSound, LinksSound, linkVars, DownloadTypeOK
<1>7. ReadersSound'
    <2> SUFFICES ASSUME NEW c \in Reader, reader[c].pc = "set"
                 PROVE  /\ lostFor'[reader[c].pair] <= reader[c].waited
                        /\ lostFor'[reader[c].pair] + reader[c].url <= UrlValidity
                        /\ UrlValidity <= reader[c].url + reader[c].waited
        BY DEF ReadersSound, linkVars
    <2>1. reader[c] \in Busy /\ reader[c].pair \in Pair
        BY BusyType
    <2>2. /\ lostFor[reader[c].pair] <= reader[c].waited
          /\ lostFor[reader[c].pair] + reader[c].url <= UrlValidity
          /\ UrlValidity <= reader[c].url + reader[c].waited
        BY DEF LinksSound, ReadersSound
    <2> QED BY <1>2, <2>1, <2>2, DownloadAssumption DEF Busy
<1> QED BY <1>4, <1>5, <1>6, <1>7 DEF LinksSound

(* A step of a request moves neither the rooms nor the ages. *)
LEMMA ReaderInv ==
    ASSUME DownloadInv, UNCHANGED <<uploadVars, roomVars, lostFor>>,
           cached' \in [Pair -> [left : 0..CacheTTL, url : 0..UrlValidity]],
           reader' \in [Reader -> {Idle} \cup Busy],
           held' \in [Pair -> 0..UrlValidity],
           CacheSound', ReadersSound', HeldSound'
    PROVE  DownloadInv'
<1>1. UploadInv'
    BY UploadNextInv DEF DownloadInv
<1>2. DownloadTypeOK'
    BY DEF DownloadInv, DownloadTypeOK, roomVars, Busy, Idle
<1>3. AgesSound'
    BY DEF DownloadInv, LinksSound, AgesSound, Access, Exists, uploadVars, roomVars
<1> QED BY <1>1, <1>2, <1>3 DEF DownloadInv, LinksSound

(* A request that ends, fails, or goes on without a URL. *)
LEMMA AnswerInv ==
    ASSUME DownloadInv, UNCHANGED <<uploadVars, roomVars, lostFor, cached, held>>,
           NEW c \in Reader, NEW s \in {Idle} \cup Busy, s.pc # "set",
           reader' = [reader EXCEPT ![c] = s]
    PROVE  DownloadInv'
<1>1. reader' \in [Reader -> {Idle} \cup Busy]
    BY DEF DownloadInv, DownloadTypeOK, Busy
<1>2. ReadersSound'
    BY DEF DownloadInv, LinksSound, ReadersSound, DownloadTypeOK
<1>3. CacheSound' /\ HeldSound'
    BY DEF DownloadInv, LinksSound, CacheSound, HeldSound
<1> QED BY <1>1, <1>2, <1>3, ReaderInv DEF DownloadInv, DownloadTypeOK

(* A request signs a URL only for somebody with access. *)
LEMMA SignInv ==
    ASSUME DownloadInv, UNCHANGED <<uploadVars, roomVars, lostFor, cached, held>>,
           NEW c \in Reader, reader[c].pc # "idle", Access(reader[c].pair), Sign(c)
    PROVE  DownloadInv'
<1> DEFINE s == [pc |-> "set", pair |-> reader[c].pair, waited |-> 0, url |-> UrlValidity]
<1>1. reader[c] \in Busy /\ reader[c].pair \in Pair
    BY BusyType DEF DownloadInv
<1>2. s \in Busy /\ s.pair = reader[c].pair /\ s.waited = 0 /\ s.url = UrlValidity
    BY <1>1, DownloadAssumption DEF Busy
<1>3. reader' = [reader EXCEPT ![c] = s]
    BY DEF Sign, Signed, Advance
<1>4. lostFor[reader[c].pair] = 0
    BY <1>1 DEF DownloadInv, LinksSound, AgesSound
<1> HIDE DEF s
<1>5. reader' \in [Reader -> {Idle} \cup Busy]
    BY <1>2, <1>3 DEF DownloadInv, DownloadTypeOK, Busy
<1>6. reader'[c] = s /\ \A d \in Reader \ {c} : reader'[d] = reader[d]
    BY <1>3 DEF DownloadInv, DownloadTypeOK
<1>7. ReadersSound'
    BY <1>2, <1>4, <1>6, DownloadAssumption DEF DownloadInv, LinksSound, ReadersSound
<1>8. CacheSound' /\ HeldSound'
    BY DEF DownloadInv, LinksSound, CacheSound, HeldSound
<1> QED BY <1>5, <1>7, <1>8, ReaderInv DEF DownloadInv, DownloadTypeOK

(* A URL that is given to a user is in keeping with the age of its access. *)
LEMMA GiveSound ==
    ASSUME DownloadInv, NEW p \in Pair, NEW url \in 0..UrlValidity,
           lostFor[p] + url <= UrlValidity, Give(p, url), UNCHANGED lostFor
    PROVE  held' \in [Pair -> 0..UrlValidity] /\ HeldSound'
<1>1. held' \in [Pair -> 0..UrlValidity]
    BY DEF Give, DownloadInv, DownloadTypeOK
<1>2. HeldSound'
    BY DEF Give, DownloadInv, DownloadTypeOK, LinksSound, HeldSound
<1> QED BY <1>1, <1>2

LEMMA LookupInv ==
    ASSUME DownloadInv, NEW c \in Reader, NEW p \in Pair, Lookup(c, p) PROVE DownloadInv'
<1>1. CASE cached[p].left > 0
    <2>1. Give(p, cached[p].url) /\ UNCHANGED <<cached, reader, lostFor>>
        BY <1>1 DEF Lookup, Hit, AfterHit
    <2>2. lostFor[p] + cached[p].url <= UrlValidity /\ cached[p].url \in 0..UrlValidity
        BY <1>1 DEF DownloadInv, DownloadTypeOK, LinksSound, CacheSound
    <2>3. held' \in [Pair -> 0..UrlValidity] /\ HeldSound'
        BY <2>1, <2>2, GiveSound
    <2>4. CacheSound' /\ ReadersSound'
        BY <2>1 DEF DownloadInv, LinksSound, CacheSound, ReadersSound
    <2>5. /\ cached' \in [Pair -> [left : 0..CacheTTL, url : 0..UrlValidity]]
          /\ reader' \in [Reader -> {Idle} \cup Busy]
        BY <2>1 DEF DownloadInv, DownloadTypeOK, Busy
    <2> QED BY <2>3, <2>4, <2>5, ReaderInv DEF Lookup
<1>2. CASE ~(cached[p].left > 0)
    <2> DEFINE s == [pc |-> "find", pair |-> p, waited |-> 0, url |-> 0]
    <2>1. s \in Busy /\ s.pc # "set"
        BY DownloadAssumption DEF Busy
    <2> QED BY <1>2, <2>1, AnswerInv DEF Lookup, Advance
<1> QED BY <1>1, <1>2

LEMMA FindTrackInv ==
    ASSUME DownloadInv, NEW c \in Reader, FindTrack(c) PROVE DownloadInv'
<1> DEFINE u == reader[c].pair[1]
           k == reader[c].pair[2]
           s == [pc |-> "access", pair |-> reader[c].pair, waited |-> 0, url |-> 0]
<1>1. reader[c].pc # "idle" /\ UNCHANGED <<uploadVars, roomVars, lostFor, cached, held>>
    BY DEF FindTrack
<1>2. CASE ~Exists(k)
    BY <1>1, <1>2, AnswerInv DEF FindTrack, EndRead, Idle
<1>3. CASE Exists(k) /\ track[k].owner = u
    <2>1. Access(reader[c].pair)
        BY <1>3 DEF Access
    <2>2. Sign(c)
        BY <1>3 DEF FindTrack
    <2> QED BY <1>1, <2>1, <2>2, SignInv
<1>4. CASE Exists(k) /\ track[k].owner # u
    <2>1. s \in Busy /\ s.pc # "set"
        BY <1>1, BusyType, DownloadAssumption DEF DownloadInv, Busy
    <2>2. reader' = [reader EXCEPT ![c] = s]
        BY <1>4 DEF FindTrack, Advance
    <2> QED BY <1>1, <2>1, <2>2, AnswerInv
<1> QED BY <1>2, <1>3, <1>4

LEMMA FindEntryInv ==
    ASSUME DownloadInv, NEW c \in Reader, FindEntry(c) PROVE DownloadInv'
<1>1. reader[c].pc # "idle" /\ UNCHANGED <<uploadVars, roomVars, lostFor, cached, held>>
    BY DEF FindEntry
<1>2. CASE QueuedInMemberRoom(reader[c].pair[1], reader[c].pair[2])
    <2>1. Access(reader[c].pair)
        BY <1>2 DEF Access, QueuedInMemberRoom
    <2>2. Sign(c)
        BY <1>2 DEF FindEntry
    <2> QED BY <1>1, <2>1, <2>2, SignInv
<1>3. CASE ~QueuedInMemberRoom(reader[c].pair[1], reader[c].pair[2])
    BY <1>1, <1>3, AnswerInv DEF FindEntry, EndRead, Idle
<1> QED BY <1>2, <1>3

LEMMA FillCacheInv ==
    ASSUME DownloadInv, NEW c \in Reader, FillCache(c) PROVE DownloadInv'
<1> DEFINE p == reader[c].pair
           filled == [left |-> CacheTTL, url |-> reader[c].url]
<1>1. reader[c].pc = "set" /\ UNCHANGED <<uploadVars, roomVars, lostFor>>
    BY DEF FillCache
<1>2. reader[c] \in Busy /\ p \in Pair
    BY <1>1, BusyType DEF DownloadInv
<1>3. /\ lostFor[p] <= reader[c].waited
      /\ lostFor[p] + reader[c].url <= UrlValidity
      /\ UrlValidity <= reader[c].url + reader[c].waited
    BY <1>1 DEF DownloadInv, LinksSound, ReadersSound
<1>4. reader[c].url \in 0..UrlValidity /\ reader[c].waited \in 0..MaxLag /\ lostFor[p] \in Nat
    BY <1>2, DownloadAssumption DEF Busy, DownloadInv, DownloadTypeOK
<1>5. held' \in [Pair -> 0..UrlValidity] /\ HeldSound'
    BY <1>1, <1>2, <1>3, <1>4, GiveSound DEF FillCache
<1>6. filled \in [left : 0..CacheTTL, url : 0..UrlValidity]
    BY <1>4, DownloadAssumption
<1>7. cached' = [cached EXCEPT ![p] = filled]
    BY DEF FillCache
<1>8. cached' \in [Pair -> [left : 0..CacheTTL, url : 0..UrlValidity]]
    BY <1>6, <1>7 DEF DownloadInv, DownloadTypeOK
<1>9. CacheSound'
    <2>1. /\ lostFor[p] + CacheTTL <= MaxLag + CacheTTL
          /\ UrlValidity + CacheTTL <= reader[c].url + CacheTTL + MaxLag
        BY <1>3, <1>4, DownloadAssumption
    <2>2. cached'[p] = filled /\ \A q \in Pair \ {p} : cached'[q] = cached[q]
        BY <1>2, <1>7 DEF DownloadInv, DownloadTypeOK
    <2> QED BY <1>1, <1>3, <2>1, <2>2 DEF DownloadInv, LinksSound, CacheSound
<1>10. reader' = [reader EXCEPT ![c] = Idle]
    BY DEF FillCache, EndRead
<1>11. reader' \in [Reader -> {Idle} \cup Busy]
    BY <1>10 DEF DownloadInv, DownloadTypeOK, Busy
<1>12. ReadersSound'
    BY <1>1, <1>10 DEF DownloadInv, LinksSound, ReadersSound, DownloadTypeOK, Idle
<1> QED BY <1>1, <1>5, <1>8, <1>9, <1>11, <1>12, ReaderInv

-----------------------------------------------------------------------------
(* A tick, variable by variable. *)
LEMMA TickAges ==
    ASSUME DownloadInv, Tick
    PROVE  /\ lostFor' \in [Pair -> 0..Horizon]
           /\ \A p \in Pair : lostFor'[p] \in Nat /\ lostFor'[p] <= lostFor[p] + 1
           /\ AgesSound'
<1>1. \A p \in Pair : lostFor'[p] = IF Access(p) \/ lostFor[p] = Horizon THEN lostFor[p]
                                     ELSE lostFor[p] + 1
    BY DEF Tick
<1>2. \A p \in Pair : lostFor[p] \in 0..Horizon
    BY DEF DownloadInv, DownloadTypeOK
<1>3. \A p \in Pair : lostFor'[p] \in 0..Horizon /\ lostFor'[p] <= lostFor[p] + 1
    BY <1>1, <1>2, DownloadAssumption
<1>4. lostFor' \in [Pair -> 0..Horizon]
    BY <1>3 DEF Tick
<1>5. \A p \in Pair : Access(p)' <=> Access(p)
    BY DEF Tick, UploadTick, Access, roomVars
<1>6. AgesSound'
    BY <1>1, <1>5 DEF AgesSound, DownloadInv, LinksSound
<1> QED BY <1>3, <1>4, <1>6, DownloadAssumption

LEMMA TickCache ==
    ASSUME DownloadInv, Tick
    PROVE  cached' \in [Pair -> [left : 0..CacheTTL, url : 0..UrlValidity]] /\ CacheSound'
<1>1. ASSUME NEW p \in Pair
      PROVE  /\ cached'[p] \in [left : 0..CacheTTL, url : 0..UrlValidity]
             /\ cached'[p].left > 0 =>
                    /\ lostFor'[p] + cached'[p].left <= MaxLag + CacheTTL
                    /\ lostFor'[p] + cached'[p].url <= UrlValidity
                    /\ UrlValidity + cached'[p].left <= cached'[p].url + CacheTTL + MaxLag
    <2>1. /\ cached[p].left \in 0..CacheTTL /\ cached[p].url \in 0..UrlValidity
          /\ lostFor[p] \in 0..Horizon
        BY DEF DownloadInv, DownloadTypeOK
    <2>2. lostFor'[p] \in Nat /\ lostFor'[p] <= lostFor[p] + 1
        BY TickAges
    <2>3. CASE cached[p].left <= 1
        <3>1. cached'[p] = NoEntry
            BY <2>3 DEF Tick
        <3> QED BY <3>1, DownloadAssumption DEF NoEntry
    <2>4. CASE cached[p].left > 1
        <3>a. cached'[p] = IF cached[p].left <= 1 THEN NoEntry
                           ELSE [left |-> cached[p].left - 1, url |-> Less(cached[p].url)]
            BY DEF Tick
        <3>b. ~(cached[p].left <= 1)
            BY <2>1, <2>4, DownloadAssumption
        <3>1. cached'[p] = [left |-> cached[p].left - 1, url |-> Less(cached[p].url)]
            BY <3>a, <3>b, Zenon
        <3>2. /\ lostFor[p] + cached[p].left <= MaxLag + CacheTTL
              /\ lostFor[p] + cached[p].url <= UrlValidity
              /\ UrlValidity + cached[p].left <= cached[p].url + CacheTTL + MaxLag
            BY <2>1, <2>4 DEF DownloadInv, LinksSound, CacheSound
        <3>3. cached[p].url > 0
            BY <2>1, <2>4, <3>2, DownloadAssumption
        <3>4. cached'[p].left = cached[p].left - 1 /\ cached'[p].url = cached[p].url - 1
            BY <3>1, <3>3 DEF Less
        <3>5. cached'[p] \in [left : 0..CacheTTL, url : 0..UrlValidity]
            BY <2>1, <2>4, <3>1, <3>3, DownloadAssumption DEF Less
        <3> QED BY <2>1, <2>2, <3>2, <3>4, <3>5, DownloadAssumption
    <2> QED BY <2>1, <2>3, <2>4
<1>2. cached' \in [Pair -> [left : 0..CacheTTL, url : 0..UrlValidity]]
    BY <1>1 DEF Tick
<1> QED BY <1>1, <1>2 DEF CacheSound

LEMMA TickReaders ==
    ASSUME DownloadInv, Tick
    PROVE  reader' \in [Reader -> {Idle} \cup Busy] /\ ReadersSound'
<1>1. ASSUME NEW c \in Reader
      PROVE  /\ reader'[c] \in {Idle} \cup Busy
             /\ reader'[c].pc = "set" =>
                    /\ lostFor'[reader'[c].pair] <= reader'[c].waited
                    /\ lostFor'[reader'[c].pair] + reader'[c].url <= UrlValidity
                    /\ UrlValidity <= reader'[c].url + reader'[c].waited
    <2>1. CASE reader[c].pc = "idle"
        <3>1. reader'[c] = Idle
            BY <2>1 DEF Tick
        <3> QED BY <3>1 DEF Idle
    <2>2. CASE reader[c].pc # "idle"
        <3> DEFINE w == reader[c].waited
                   l == reader[c].url
                   p == reader[c].pair
        <3>1. reader[c] \in Busy /\ p \in Pair
            BY <2>2, BusyType DEF DownloadInv
        <3>2. w \in 0..MaxLag /\ w < MaxLag /\ l \in 0..UrlValidity
            BY <2>2, <3>1 DEF Tick, Busy
        <3>4. reader'[c] = [pc |-> reader[c].pc, pair |-> p, waited |-> w + 1, url |-> Less(l)]
            BY <2>2 DEF Tick
        <3>5. Less(l) \in 0..UrlValidity
            BY <3>2, DownloadAssumption DEF Less
        <3>6. reader'[c] \in Busy
            BY <3>1, <3>2, <3>4, <3>5, DownloadAssumption DEF Busy
        <3>7. CASE reader[c].pc = "set"
            <4>1. lostFor[p] <= w /\ lostFor[p] + l <= UrlValidity /\ UrlValidity <= l + w
                BY <3>7 DEF DownloadInv, LinksSound, ReadersSound
            <4>2. l > 0
                BY <3>2, <4>1, DownloadAssumption
            <4>3. /\ lostFor[p] \in 0..Horizon
                  /\ lostFor'[p] \in Nat /\ lostFor'[p] <= lostFor[p] + 1
                BY <3>1, TickAges DEF DownloadInv, DownloadTypeOK
            <4>4. reader'[c].pair = p /\ reader'[c].waited = w + 1 /\ reader'[c].url = l - 1
                BY <3>4, <4>2 DEF Less
            <4> QED BY <3>2, <3>6, <4>1, <4>3, <4>4, DownloadAssumption
        <3>8. CASE reader[c].pc # "set"
            BY <3>4, <3>6, <3>8
        <3> QED BY <3>7, <3>8
    <2> QED BY <2>1, <2>2
<1>2. reader' \in [Reader -> {Idle} \cup Busy]
    BY <1>1 DEF Tick
<1> QED BY <1>1, <1>2 DEF ReadersSound

LEMMA TickHeld ==
    ASSUME DownloadInv, Tick
    PROVE  held' \in [Pair -> 0..UrlValidity] /\ HeldSound'
<1>1. ASSUME NEW p \in Pair
      PROVE  /\ held'[p] \in 0..UrlValidity
             /\ held'[p] > 0 => lostFor'[p] + held'[p] <= UrlValidity
    <2>1. held[p] \in 0..UrlValidity /\ lostFor[p] \in 0..Horizon
        BY DEF DownloadInv, DownloadTypeOK
    <2>2. lostFor'[p] \in Nat /\ lostFor'[p] <= lostFor[p] + 1
        BY TickAges
    <2>3. held'[p] = IF held[p] = 0 THEN 0 ELSE held[p] - 1
        BY DEF Tick, Less
    <2>4. held[p] > 0 => lostFor[p] + held[p] <= UrlValidity
        BY DEF DownloadInv, LinksSound, HeldSound
    <2> QED BY <2>1, <2>2, <2>3, <2>4, DownloadAssumption
<1>2. held' \in [Pair -> 0..UrlValidity]
    BY <1>1 DEF Tick
<1> QED BY <1>1, <1>2 DEF HeldSound

LEMMA TickInv ==
    ASSUME DownloadInv, Tick PROVE DownloadInv'
<1>1. UploadInv'
    BY UploadNextInv DEF DownloadInv, Tick
<1>2. DownloadTypeOK'
    BY TickAges, TickCache, TickReaders, TickHeld
    DEF DownloadInv, DownloadTypeOK, Tick, roomVars, Busy, Idle
<1>3. LinksSound'
    BY TickAges, TickCache, TickReaders, TickHeld DEF LinksSound
<1> QED BY <1>1, <1>2, <1>3 DEF DownloadInv

-----------------------------------------------------------------------------
(* The steps of the rooms. *)
LEMMA MembersInv ==
    ASSUME DownloadInv, NEW u \in User, NEW r \in Room, JoinRoom(u, r) \/ LeaveRoom(u, r)
    PROVE  DownloadInv'
<1>1. UploadInv' /\ UNCHANGED linkVars /\ NoteAccess
    BY UploadNextInv DEF DownloadInv, JoinRoom, LeaveRoom
<1>2. members' \in [Room -> SUBSET User]
    BY DEF DownloadInv, DownloadTypeOK, JoinRoom, LeaveRoom
<1> QED BY <1>1, <1>2, AccessChangeInv DEF DownloadInv, DownloadTypeOK, JoinRoom, LeaveRoom

LEMMA EntriesInv ==
    ASSUME DownloadInv, NEW e \in Room \X Key, QueueInsert(e) \/ EntryDeleted(e)
    PROVE  DownloadInv'
<1>1. UploadInv' /\ UNCHANGED linkVars /\ NoteAccess
    BY UploadNextInv DEF DownloadInv, QueueInsert, EntryDeleted
<1>2. entries' \in [Room \X Key -> 0..MaxEntries]
    BY DownloadAssumption DEF DownloadInv, DownloadTypeOK, QueueInsert, EntryDeleted
<1>3. adding' \subseteq Room \X Key /\ members' \in [Room -> SUBSET User]
    BY DEF DownloadInv, DownloadTypeOK, QueueInsert, EntryDeleted
<1> QED BY <1>1, <1>2, <1>3, AccessChangeInv

LEMMA QueueCheckInv ==
    ASSUME DownloadInv, NEW u \in User, NEW r \in Room, NEW k \in Key, QueueCheck(u, r, k)
    PROVE  DownloadInv'
<1>1. UploadInv'
    BY UploadNextInv DEF DownloadInv, QueueCheck
<1>2. DownloadTypeOK'
    BY DEF DownloadInv, DownloadTypeOK, QueueCheck, linkVars, Idle
<1>3. LinksSound'
    BY DEF DownloadInv, LinksSound, AgesSound, CacheSound, ReadersSound, HeldSound,
           Access, QueueCheck, linkVars, uploadVars
<1> QED BY <1>1, <1>2, <1>3 DEF DownloadInv

LEMMA UploadInDownloads ==
    ASSUME DownloadInv, Upload PROVE DownloadInv'
<1>1. UploadInv'
    BY UploadNextInv DEF DownloadInv, Upload
<1> QED BY <1>1, AccessChangeInv DEF DownloadInv, DownloadTypeOK, Upload, roomVars

LEMMA DownloadNextInv == DownloadInv /\ [DownloadNext]_allVars => DownloadInv'
<1> SUFFICES ASSUME DownloadInv, [DownloadNext]_allVars PROVE DownloadInv'
    OBVIOUS
<1>1. CASE Upload
    BY <1>1, UploadInDownloads
<1>2. ASSUME NEW u \in User, NEW r \in Room, JoinRoom(u, r) \/ LeaveRoom(u, r)
      PROVE  DownloadInv'
    BY <1>2, MembersInv
<1>3. ASSUME NEW u \in User, NEW r \in Room, NEW k \in Key, QueueCheck(u, r, k)
      PROVE  DownloadInv'
    BY <1>3, QueueCheckInv
<1>4. ASSUME NEW e \in Room \X Key, QueueInsert(e) \/ EntryDeleted(e) PROVE DownloadInv'
    BY <1>4, EntriesInv
<1>5. ASSUME NEW c \in Reader, NEW p \in Pair, Lookup(c, p) PROVE DownloadInv'
    BY <1>5, LookupInv
<1>6. ASSUME NEW c \in Reader, FindTrack(c) \/ FindEntry(c) \/ FillCache(c)
      PROVE  DownloadInv'
    BY <1>6, FindTrackInv, FindEntryInv, FillCacheInv
<1>7. ASSUME NEW c \in Reader, ReadFails(c) PROVE DownloadInv'
    BY <1>7, AnswerInv DEF ReadFails, EndRead, Idle
<1>8. CASE Tick
    BY <1>8, TickInv
<1>9. CASE UNCHANGED allVars
    <2>1. UploadInv'
        BY <1>9, UploadNextInv DEF DownloadInv, allVars
    <2>2. DownloadTypeOK'
        BY <1>9 DEF DownloadInv, DownloadTypeOK, allVars, linkVars, roomVars, Idle
    <2>3. LinksSound'
        BY <1>9 DEF DownloadInv, LinksSound, AgesSound, CacheSound, ReadersSound, HeldSound,
                    Access, allVars, linkVars, roomVars, uploadVars
    <2> QED BY <2>1, <2>2, <2>3 DEF DownloadInv
<1> QED BY <1>1, <1>2, <1>3, <1>4, <1>5, <1>6, <1>7, <1>8, <1>9 DEF DownloadNext

LEMMA DownloadInvariant == DownloadSpec => []DownloadInv
<1>1. QED BY DownloadInitInv, DownloadNextInv, PTL DEF DownloadSpec

(* Types, for any number of users, tracks, rooms and requests. *)
THEOREM DownloadTypeCorrect == DownloadSpec => []DownloadTypeOK
<1>1. DownloadInv => DownloadTypeOK
    BY DEF DownloadInv
<1> QED BY <1>1, DownloadInvariant, PTL

(* The cache of getDownloadUrl prolongs an access by less than one fill    *)
(* and one lifetime.                                                       *)
THEOREM AccessEndsSoon == DownloadSpec => []GivenOnlyBriefly
<1>1. DownloadInv => GivenOnlyBriefly
    BY DownloadAssumption
    DEF DownloadInv, DownloadTypeOK, LinksSound, CacheSound, GivenOnlyBriefly
<1> QED BY <1>1, DownloadInvariant, PTL

(* No URL works longer than one validity after its user lost the access.   *)
THEOREM LinksDieInTime == DownloadSpec => []LinksDie
<1>1. DownloadInv => LinksDie
    BY DownloadAssumption DEF DownloadInv, DownloadTypeOK, LinksSound, HeldSound, LinksDie
<1> QED BY <1>1, DownloadInvariant, PTL

(* Every URL the cache holds works for long enough to be of use.           *)
THEOREM LinksWorkLong == DownloadSpec => []LinksWork
<1>1. DownloadInv => LinksWork
    BY DownloadAssumption DEF DownloadInv, DownloadTypeOK, LinksSound, CacheSound, LinksWork
<1> QED BY <1>1, DownloadInvariant, PTL

(* Downloads leave the uploads alone: every behaviour of the whole is one  *)
(* of Uploads, so OneTrackPerUpload and RowsDescribeFiles hold of it too.  *)
THEOREM UploadsUndisturbed == DownloadSpec => UploadSpec
<1>1. DownloadInit => UploadInit
    BY DEF DownloadInit
<1>2. [DownloadNext]_allVars => [UploadStep \/ UploadTick]_uploadVars
    BY DEF DownloadNext, allVars, Upload, JoinRoom, LeaveRoom, QueueCheck, QueueInsert,
           EntryDeleted, Lookup, FindTrack, FindEntry, FillCache, ReadFails, Tick
<1> QED BY <1>1, <1>2, PTL DEF DownloadSpec, UploadSpec
=============================================================================

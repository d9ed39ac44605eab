# Pulse backend: a TLA+ model

Pulse keeps a room of people listening to the same audio in step: a NestJS
server, PostgreSQL behind Prisma, Redis as a cache, socket.io for events. The
modules here model the parts of the server that keep state and are used by
several requests at a time. TLC checks them on small instances, and TLAPS proves
the safety properties of all of them for every instance.

Line numbers are those of the files under `src/` at the modelled commit.
`PROJECT.json` lists, for every definition, the lines it models, for every run
what it checks, and for every property the bug ("mutant") that breaks it.

## 1. The system

| component | state it keeps | operations | talks to |
|---|---|---|---|
| room membership, `rooms.service.ts` | `rooms`, `room_members` (`leftAt`, `role`, `joinedAt`) | createRoom, joinRoom, joinByCode, leaveRoom (with a host handoff), deleteRoom | PostgreSQL; evicts the room cache |
| room cache, `rooms.service.ts` | two Redis keys per room, 3 s lifetime | getRoomById, getRoomByCode, the `cache.del` pairs | read by playback's `assertHost` |
| chat, `rooms.service.ts` | `messages` | createMessage, getRoomMessages | emits `message.create`, which the gateway handles |
| queue, `rooms.service.ts` | `room_queue_entries` | addToQueue, getRoomQueue, deleteEntry | emptied by playback's skip |
| playback, `playback.service.ts` | one `playback_states` row per room | play, pause, seek, skip, getState | room cache (who is host), queue |
| realtime, `realtime.gateway.ts` | sockets, `client.data.userId`, socket.io channels | connect, joinRoom, sendMessage, play, pause, seek, skip, memberStatus, disconnect | rooms and playback services; `room_members` |
| auth, `auth.service.ts` | `refresh_tokens` | login, register, refresh, logout | users |
| users, `user.service.ts` | `users` | create, findByIdentifier, findAll | - |
| tracks, `tracks.service.ts` | `tracks`, download URLs cached 5 min | initUpload, completeUpload, getDownloadUrl | object storage, queue and membership |
| storage, `storage.service.ts` | none (R2 objects) | presign, head, delete | R2 |

The server is one Node.js process: a handler runs undisturbed up to its next
`await`, and any other handler may run there. Several processes behind a load
balancer interleave in the same way, as all shared state except the sockets is
in PostgreSQL and Redis. Nothing is locked in the program; what is
atomic is one statement, or one `$transaction` up to what its isolation level
(READ COMMITTED, the default) lets through.

What makes this code hard to test:

* nearly every operation reads, decides and writes in separate awaited calls
  (joinRoom's capacity, leaveRoom's choice of a successor, pause, refresh);
* two transactions take the locks of the same rows in opposite orders;
* the room cache is filled and evicted without any ordering between the two, and
  every playback command is authorised from it;
* the tables that refer to a room decide whether it can be deleted;
* socket events depend on when a socket enters and leaves its channel;
* what a user may fetch depends on rooms and queues that change while the answer
  is cached, and the object behind a track is written past the server;
* pages of messages are offsets into a list that grows at their beginning.

`PROJECT.json` lists these under "hazards" with their lines.

What makes each component correct:

* membership: the host is an active member of the room and its row says so; the
  room holds no more than it may; who has stayed longest succeeds; only the host
  deletes, and a deletion takes everything or nothing;
* cache: nobody is served, or obeyed as, a former host for longer than the
  lifetime promises;
* playback: a queue entry is played or removed exactly once, the oldest of those in view first;
  a paused position is where the listeners stopped, and what is paused stays so;
* realtime: who never was a member hears nothing, who listens gets every
  message once, presence and playback state are what listeners were told;
* auth: a token yields one successor, and none after logout;
* tracks: one upload becomes one track, which describes the file that is served;
  who loses the access to a track loses its URL in bounded time, and a URL that
  is handed out works long enough;
* messages: who reads to the last page has been shown everything.

## 2. Modules

| module | models |
|---|---|
| `RoomMembership` | one room, its member rows, and the requests on it |
| `RoomContract` | what a room promises, in six actions, without rows, requests or failures |
| `RoomRefinement` | the mapping from the first to the second |
| `RoomMembership_proofs` | proofs about `RoomMembership`, and of the refinement |
| `RoomCache` | `RoomMembership` composed with the two cache entries, their readers and `assertHost` |
| `RoomCache_proofs` | proofs about `RoomCache`, on top of those about `RoomMembership` |
| `Playback` | one room's playback row and its queue |
| `PlaylistContract` | what the queue promises, each command in one step |
| `Playback_proofs` | proofs about `Playback` |
| `RefreshTokens` | the refresh tokens of one account |
| `RefreshTokens_proofs` | proofs about `RefreshTokens` |
| `Uploads`, `Uploads_proofs` | tracks on their way in: upload URLs, the storage, the rows |
| `Downloads`, `Downloads_proofs` | tracks on their way out: `Uploads` composed with memberships, queue entries and the URL cache |
| `Listening` | `Downloads` composed with what each room plays |
| `MessagePages`, `MessagePages_proofs` | one room's messages, and a member who reads them page by page |
| `Realtime`, `Realtime_proofs` | one room's channel, its sockets and what they are sent |
| `MC...` | symmetry sets for TLC; they define nothing else |

### RoomMembership

A request slot (`Req`) serves one HTTP request after another. `task[r]` says which
awaited call its handler is at and holds its locals: the caller, the host or
successor it read (`peer`), the table it inserts into. An action is what one
awaited call does, with the code up to the next one:

| code | actions |
|---|---|
| `createRoom` | `CreateRoom` |
| `joinRoom`, `joinByCode` | `JoinCheck`, `JoinCount`, `JoinUpsert` |
| `leaveRoom` | `LeaveReadRoom`, `LeaveCheck`, then `LeaveMember`, or `LeaveSuccessor` and `HandoffRoom`, `HandoffMembers`, or `DeleteRead` |
| `deleteRoom` | `DeleteRequest` or `DeleteRead`, then `SweepMembers`, `SweepMessages`, `DeleteRow` |
| `createMessage`, `addToQueue`, `play`, `skip` (as inserts) | `InsertCheck`, `Insert` |
| the last queue entry goes | `DrainQueue` |
| the two `cache.del` | `EvictId`, `EvictCode` |

The tables next to `room_members` are modelled by whether they have rows of the
room (`refs`), since that is all a foreign key asks for.

Transactions are modelled by what others can see and what they wait for.
HandoffRoom takes the lock on the rooms row; the changes of the handoff become
visible at its commit, `HandoffMembers`. deleteRoom's first statement deletes the
member rows (`sweptMembers`): the rows remain visible, and whoever updates
or deletes one of them waits. Rows that are inserted after a sweep are not
swept, and make `DeleteRow` fail. `Waits(r)` says that r's next statement needs a row
that another transaction holds; it is the guard of every such statement, and of
nothing else. When a handoff waits for a swept member row and
the sweeper for the rooms row (`Deadlocked`), `Deadlock` aborts one of the two. A failed
request answers 500 ("failed"), what a handler chooses to answer is "done".

What is abstracted:

* the password of a room: `JoinCheck` stands for a caller who gave the right one;
* reads that answer with a 4xx and nothing else: the request never begins;
* reads that follow each other and of which only the last is acted on (findRoom
  and checkMembership before an insert) are one step;
* createRoom's retries on a room-code collision, and the code itself;
* the two clocks that fill `joined_at` (PostgreSQL's for a first stay, Node's for a
  later one) are one; stays that begin in the same tick are tied, and
  `LeaveSuccessor` then takes any of them;
* a request whose process stops. What is left undone are the evictions, and
  `RoomCache` has them fail.

### RoomCache

`RoomCache` extends `RoomMembership` and keeps its actions: `Service` is any step of
it except the clock of stays and the evictions, which `EvictKey` performs and `EvictionLost` omits. A
reader asks for the room by id or by code: `Lookup` (cache.get), `FillRead` (the
query), `FillSet` (cache.set). By id it goes on as `assertHost` does and sends a
command if the host it was told is the caller (`Command`).
The id key has another reader in the code, `GET /rooms/:id`, which only answers.
An entry carries the host it names and the time at which it expires.
`CacheTick` moves the clock, but lets no reader wait longer than `MaxLag` between two
of its steps: without such a bound no lifetime would bound anything. `Command` is all that follows
assertHost, the findUnique of pause and seek included, so the last `MaxLag` stands for both of their awaits.

### Playback

`row` is the playback row. An entry of the queue takes its `createdAt` when addToQueue's
insert is executed (`Stamp`) and comes into view when it commits (`Commit`), so an older entry
can come after a younger one, and entries of one tick have no order; `entryOf` holds what an
entry says, `pending` the entries not yet in view, `queue` those that are. `play` and
`skip` take any track id, as the code does: `playback_states.track_id` refers to no table.

`play`, `pause` and `seek` are a read, with what it computes, and a `Write`; `skip` is
`SkipPick`, then `SkipDelete` and `SkipWrite` in its transaction, where another delete of the
same entry waits for the commit (`Locked`); skip to a given track is `SkipTo`,
`SkipWrite`; `deleteEntry` is `RemoveRead`, `RemoveEntry`. At each of these points the
database may fail the command (`CommandFails`), and what its transaction has done is undone.
`heard` is where a listener is who is in perfect sync: it starts when the row says, and
proceeds with the clock. A tick of the clock is longer than the two awaits of one pause, so
the time that the write itself takes is not counted as an error of pause. A first write by
two `play`s at once (two inserts of the same unique row) is left to the database's upsert.

`PlaylistContract` is the queue without handlers: entries are added with the time at which
they were made, somebody chooses the oldest of those that wait, gives it up again, or
plays it, in one step with the playback state; entries are removed; the host names any
track. `Playlist` maps what waits to `queue`, what is chosen to the entries that skips have
picked and not answered (`Picked`), and the track to the row's.

### RefreshTokens

`refresh` is `RefreshValidate`, `RefreshRevoke`, `Issue`; `logout` is `LogoutValidate`,
`LogoutRevoke`; login and register are `Login`, `Issue`. `IssueFails` stands for a hash, a
signature or an insert that fails, and for a process that stops after
the token is revoked. A token with a wrong secret is never validated, so the
secret is not modelled.

### Realtime

`channel` holds the room's sockets, `heard[s]` what socket s was sent, each message with the
number of its copies. Three histories say what it should have been sent: who was in the
channel when it entered (`before`), what had been written then (`from`), and who was in the channel when it
closed (`left`). `handleConnection` is `Connect` and `Verified`, and events are dispatched
in between. `joinRoom` is `JoinCheck`, `JoinEnter`, `JoinTell`; a chat message is `PostCheck`,
`PostInsert`, `PostEmit`; a playback command is `CommandCommit`, `CommandEmit`, or over HTTP
only a commit (`CommandOverHttp`). Two facts about socket.io are used, marked external
or said at the definition: a socket that is closing leaves its channels
before 'disconnect' is reported to `handleDisconnect`, and `join` does nothing on a
closed socket. `memberStatus` relays what it gets and keeps nothing, and is left
out. Delivery is the order of the emits, without loss as long as the socket
is connected. A process that stops, or a database answer that is lost, between a message's insert and its
emit is not modelled.

### Uploads and Downloads

A key stands for the upload and for the track that comes from it. `initUpload` is
`InitUpload`. The client's PUT begins as long as the URL is valid (`PutStart`), again and again, which is
when R2 checks the signature; it stores the file at its end, maybe after the expiry (`PutLand`), or breaks off (`PutAborted`).
`completeUpload` is `CompleteCheck` (prefix and findUnique), `CompleteHead` (headObject),
`CompleteCreate` (the insert, with its unique key), or fails in between (`CompleteFails`).
A file is how many were put under the key before; its size and type in the row are the
file that headObject saw. The object appears whole, as R2's do; a key the client made up finds no
object and leaves no trace. An answer that is lost after the insert has committed is, for the next try, the same as
one that arrived, and is not an action of its own.

`getDownloadUrl` is `Lookup` (cache.get), `FindTrack`, `FindEntry`, `FillCache` (cache.set and the
answer), or `ReadFails`. createDownloadUrl signs locally, without asking anybody, so it is part
of the step before. Around it rooms are joined and left, entries are queued (in two steps:
the insert comes after the checks, and may come after the departure) and deleted. Rooms themselves
are not deleted here. Times are kept as what is left of them, a URL's validity, a cache
entry's lifetime, and as the age of a loss of access (`lostFor`, which counts from the step that ended the
access), so that no clock bounds a behaviour. As in `RoomCache` no reader waits longer than
`MaxLag` between two steps. `held` is the best URL a user was ever given.

`Listening` adds the track of each room's playback state: `SkipTo` deletes the entry it plays,
`PlayTrack` is a play or skip to a given track. Who is host is `RoomCache`'s question.

### MessagePages

createdAt is set when the insert is executed (`Stamp`) and the row is seen when it commits
(`Commit`), so messages become visible in any order. `getRoomMessages` is `Ask` (room and
membership), `Items` and `Count`: at READ COMMITTED the two statements of its
transaction see different tables. `IsPage` says what findMany with an offset and an order on createdAt may
return, any order among equal createdAt. The reader asks for the next page as long as
hasNextPage is true, and stops at a 403 or 404.

## 3. Runs

| run | instance | shows |
|---|---|---|
| `membership_concurrent` | 3 users, capacity 2, 2 requests of any kind, fair | type, `HostRowIsHost`, `OvershootBounded`, `NoOrphans`, `SomebodyGoesOn`, `EveryRequestAnswered` |
| `membership_one_departure` | 3 users, capacity 2, one joining and one departing slot, 3 times | `HostIsActive`, and that the room implements `RoomContract` |
| `host_departed` | 3 users, 2 requests | finding: `HostIsActive` fails |
| `delete_refused` | 2 users, 1 request, all tables | finding: `NoServerError` fails |
| `room_cache` | 2 users, 1 request, 2 readers, lifetime 1, lag 1, clock to 3 | type, `ExposureBounded`, `StaleCommandsBounded`, `EvictionSuffices`; finding: a comment says otherwise than the last |
| `playback` | 2 commands, 1 track, 2 entries, buffer 1, clock to 2, positions to 1 | type, `EntriesConserved`, `OldestFirst`, `PausedWhereHeardUnraced`, and that the queue implements `PlaylistContract` |
| `refresh_tokens` | 3 requests, 3 tokens, lifetime 1, clock to 2 | type, `ReuseBounded`, `UsedOnceUnraced`, `LogoutIsFinal`, `RevocationAccounted` |
| `realtime` | 2 users, 2 sockets, 2 handlers, 2 writes | type, `OnlyMembersHear`, `EarlierHearsLater`, `MessagesExactlyOnce`, `ListenersFollow` |
| `departure_untold` | the same | finding: `DeparturesTold` fails |
| `tracks` | 2 users, 1 key, 2 completions, 2 rooms, 1 reader, validities 1 and 4, lifetime 2, lag 1 | types, `CompletedOnce`, `RecordedIsServed`, `GivenOnlyBriefly`, `LinksDie`, `LinksWork` |
| `late_joiner_refused` | 2 users, 1 key, 1 room, 1 reader | finding: `MembersCanListen` fails |
| `message_pages` | 4 messages, 1 per page, clock to 3 | type, `NothingMissed`, `RepeatsExplained`, `PromisesKept` |

Why the bounds are enough to be interesting:

* three users and capacity two make a full room, a free place two joins compete
  for, a host with a successor and somebody who joins meanwhile; two slots are a
  race, or a deadlock, and the proofs take any number of them;
* `MaxTime` is 0 where no property looks at the order of stays, so that every
  choice of a successor is open; it is 2 where `RoomContract` asks for the longest;
* two readers let one fill overtake an eviction while another uses the entry;
  with lifetime and lag 1 the bounds of the exposure properties are 2 and 3 ticks,
  which the clock's bound 3 lets be reached and exceeded (the mutant's
  longer lifetime does exceed them);
* two commands are what a race needs; positions up to 1 with a clock up to 2 let the column
  overflow, and a pause come before the scheduled start, at it, or after it; two entries make
  an order or a tie, and come into view in either order. One track is what the time for the run
  allows: that a skip plays the track of its own entry is left to the proof, which takes any tracks;
* three tokens make a chain of two rotations or a fork; the lifetime is shorter
  than the clock's bound;
* two sockets give a first and a second listener, two writes an order of
  messages, or of broadcasts. Messages and commits share the bound `MaxWrites`;
* two completions and two files make a lost race and a replaced object; two rooms a
  membership and an entry that do not meet; a lifetime and a lag that together are shorter than the validity
  the order of the code's own values (5 minutes, an hour); one reader is what the time for the run
  allows, and the proofs take any number;
* four messages with one on a page let two come in between any two pages of a reader,
  and a clock to 3 keeps them all apart.

`CHECK_DEADLOCK FALSE` is in the configurations where the bounds on clocks,
tokens and writes stop the model, or a deleted room has no more requests. `Tracks.cfg` and `MessagePages.cfg`
check deadlock: time, or memberships, always go on there.

The steps between awaits are fair in `FairSpec` only: strong fairness for each handler,
because Node.js runs every continuation that is ready and PostgreSQL
grants row locks in the order in which they were asked for, so a statement whose
row is free again and again is let through; weak fairness for `Deadlock`, because
PostgreSQL's deadlock detector runs after `deadlock_timeout`. No client is assumed to
send any request. All other runs check safety, under no fairness.

### What the findings say

* `host_departed`: leaveRoom chooses the successor outside the transaction that
  installs it. If it leaves in between, the room's host is a departed user:
  what the comment on `assertHost` excludes. With one departure at a time the comment
  is right (run `membership_one_departure`, theorem `HostStays`).
* `delete_refused`: deleteRoom forgets two of the four tables that refer to a room.
  As the last member leaves by deleting the room, it cannot leave either.
* `departure_untold`: user_left is never sent. The unit test passes because its
  mocked client still has rooms.
* `late_joiner_refused`: a member's access to a track is a queue entry, and skip deletes the entry as
  it plays the track. Who has not fetched the URL before gets 403 while all the others listen. The
  same goes for a track that the host plays without queueing it.
* `room_cache`: the comment at `roomCodeCacheKey` (`rooms.service.ts:335-338`) says that a handoff and a
  deletion "only invalidate the id-keyed entry"; they evict both entries (lines 202-203, 222-223), and the
  run shows that this is enough (`EvictionSuffices`). What the comment describes is that property's
  mutant, and breaks it. The code is right and the comment is out of date.

Some statements of comments, tests and documents are right only as long as requests do not overlap (and,
for the last, as long as every command comes over a socket). Each has a definition in its module, which fails when it is added to the configuration named here; the
runs check what holds instead.

| statement | definition, fails in | what holds |
|---|---|---|
| `rooms.service.spec.ts:518`: deleteRoom throws "when called by someone other than the host". It asks on a row it has read, and deletes in a transaction later; a handoff in between makes the caller a former host | `DeletedByItsHost`, `HostDeparted.cfg` | the deletion takes everything or nothing (`NoOrphans`) |
| `playback.service.ts:90`: pause freezes "at the REAL current position". A command that commits between its read and its write is overwritten | `PausedWhereHeard`, `Playback.cfg` | `PausedWhereHeardUnraced` |
| `playback.service.spec.ts:293`: seek "stays paused while paused". A pause that commits between its read and its write is undone | `SeekKeepsPaused`, `Playback.cfg` | nothing is promised of that race |
| `auth.service.ts:56`: "this refresh token can only be used once". Two requests that overlap both find it valid | `UsedOnce`, `RefreshTokens.cfg` | `UsedOnceUnraced`, `ReuseBounded` |
| `docs/development-plan.md:273`: the server broadcasts "exactly one authoritative timeline for the whole room". A command over HTTP is not broadcast at all, and commands that overlap may be broadcast in the wrong order | `OneTimeline`, `DepartureUntold.cfg` | `ListenersFollow` |

The models also show behaviours that no document denies, so they are no findings: a file can be replaced
after headObject has seen it, before the upload URL expires or by a PUT that began before
that (`RecordedIsServed` starts later); a former member's sockets stay in the channel
(`OnlyMembersHear` is about who never was a member); a logout does not stop a refresh that validated the same
token before (`LogoutIsFinal` excludes it), and a refresh that fails after its revocation leaves the client without a
token (`RevocationAccounted` names it); messages of one millisecond may change places between pages
(`NothingMissed` excludes it); a queue entry that comes into view late is overtaken by
a younger one (`OldestFirst` says by which).

## 4. Proofs

The eight `..._proofs` modules are checked by TLAPS for all values of the
constants that the named assumptions allow: a finite set of users, finite
request slots, capacity at least 2 (the DTO's minimum), any subset of the
tables, any clock bound; for the cache a positive lifetime and any lag; for
playback any finite set of commands, any tracks, entries, buffer and positions; for the tokens any lifetime; for the tracks a lifetime
and a lag that together are shorter than the URL's validity; for the pages any finite number of messages;
for the channel any sockets, handlers and number of writes.

Rooms and their cache:

* `TypeCorrect` (`TypeOK`): with the type goes `LocalsChosen`, that a handler past a step
  that chose a user really has one.
* `HostRowCorrect` (`HostRowIsHost`) and `NoOrphansLeft` (`NoOrphans`), from `RowInv`. `HostRowIsHost` is
  not inductive alone: a handoff promotes the successor that its request carries, so it must be
  known that this user has a member row as long as the room lives (`PeerHasRow`), that the
  room lives as long as a handoff holds its row (`HandoffHoldsRoom`), and that no request
  precedes the room (`NothingBeforeCreation`). No row of a live room ever goes, it is only
  marked as left; that is why the successor's departure does not hurt this property,
  though it does hurt `HostIsActive`.
* `CapacityCorrect` (`OvershootBounded`), from `CapacityInv`. The property counts the requests
  between count and upsert with the members they will be, which makes it inductive
  together with `JoinersJoin` (only slots of `Joins` get there): a request is admitted
  only if there is a place, when at most all `Joins` are admitted, and an upsert
  adds a member and takes away an admitted request.
* `HostStays` (`HostIsActive`), from `DepartInv`, under
  `OneDeparture`: at most one slot departs. What a departing request read of the host and of
  its successor (`Sound`) then remains true until it commits.
* `RoomKeepsItsContract` (`ImplementsContract`) and `PromiseKept` (the contract's `Promise`, carried over), under
  `OneDeparture` and `OneJoin`, at most one slot that joins. Each action of the room is one
  of the contract's six (`ContractStep`), or changes nothing that the contract sees (`Unseen`). Two steps need what
  was read earlier, and `ContractInv` keeps it: a join that counted a free place still has it at its upsert
  (`JoinersOutside`, with `CapacityInv`: nobody else can be joining), and the successor a handoff installs is still the
  longest member, though the room may have changed since it was read (`SuccessorLongest`): who
  joins meanwhile begins a stay that is no older, since no stay begins in the future (`StaysBegun`).
  Both assumptions are needed: `host_departed` shows what two departures do, and two joins overshoot.
* `NobodyIsStuck` (`SomebodyGoesOn`), for any number of requests of any kind: who waits for the rooms row waits
  for a handoff, who waits for a member row waits for a deletion that has swept and not ended (`SweepOwned`),
  and if those wait in turn, a handoff and a sweeper are `Deadlocked`. `SuccessorFound` adds that the one choice a handler can get stuck
  at is there: among finitely many other members one has the longest stay.
* `CachedRoomCorrect` and `CachedRoomKeepsItsContract`: the same for the room inside `RoomCache`. A lost eviction is no
  step of `RoomMembership`, but it changes the request's counter only, and no invariant speaks of requests
  that only have evictions left (`GivesUp`).
* `ExposureIsBounded`, `StaleCommandsAreBounded`, from `ExposureInv`: an entry that is
  outdated expires by `changedAt + MaxLag + TTL`, because the fill that wrote it had read
  the room at or before the change; a reader that holds an outdated host read
  it at or before the change, or found it in such an entry. No eviction is needed
  in this argument: they only make the exposure shorter.
* `EvictionIsEnough` (`EvictionSuffices`), from `EvictionInv`: each outdated entry has a request that is still to
  evict it (`EntryDue`), and a fill that holds an outdated host was counted as one that may
  overtake (`FillNoted`). Only a commit of the rooms row outdates anything, and it is followed by
  the evictions of both keys (`RoomChanges`), from which only the request itself moves on (`EvictionsStay`).

Playback:

* `TypeCorrect` (`PlaybackTypeOK`), with `LocalsReady` (a prepared row has a scheduled start exactly if
  it plays, a skip's position is 0, and what a handler holds was queued) and `Made` (what is in the queue
  or on its way there has a createdAt and a track).
* `EachEntryOnce` (`EntriesConserved`) and `PlayedInOrder` (`OldestFirst`), from `QueueInv`. The sums of
  `EntriesConserved` say nothing of a skip between its delete and its commit, when the entry is
  still in `queue`; `HeldOnce` says that it is there, and held by no other skip.
  `PickedOldest` says of what a skip has picked what `OldestFirst` says of what was played: whatever waits and is
  older came into view after the pick. An entry picked and then removed by another makes the skip
  fail, and a skip that fails after its delete leaves the entry where it was.
* `PauseIsExact` (`PausedWhereHeardUnraced`), from `HeardInv`: while the room plays, the row and the
  clock give the listeners' position (`HeardWhilePlaying`); `PauseReady` keeps what a pause computed with the
  row it saw. If that row is still there, the two meet.
* `PlaylistKept` (`ImplementsPlaylist`): a skip's pick is the contract's `Choose`; its transaction commits at
  `SkipWrite`, and this one step is the contract's `PlayNext`; its delete, which nobody sees, is a stutter, and
  a failure a `GiveUp`, unless another skip still has the entry picked. That the entry is still in the queue at the commit is `HeldOnce`;
  that a skip plays the track of the entry it took out is `TrackReady`. Pause and seek leave
  the track alone, whatever they had read.

Refresh tokens:

* `TypeCorrect` (`TypeOK`), with `TokensHeld` (a handler's token exists, and is revoked once a
  successor is due) and `ParentsIssued`.
* `UsedOnceByOne` (`UsedOnceUnraced`), from `OnceInv`: while one request alone has held a token, the token's
  children and the request that is about to issue one are one at most, together.
* `ReuseIsBounded` (`ReuseBounded`), from `ReuseInv`. A token that is not revoked has no
  child (`UnspentUntilRevoked`), and a request can take it up only then; a child comes
  from a request that held the token, and lets go of it.
* `LogoutEndsSession` (`LogoutIsFinal`), from `LogoutInv`: an unraced token has at most one holder
  (`Alone`), so a logout that holds it is the only one who does.
* `NoSessionLostSilently` (`RevocationAccounted`), from `AccountInv`.

Tracks:

* `UploadTypeCorrect` (`UploadTypeOK`), `OneTrackPerUpload` (`CompletedOnce`), `RowsDescribeFiles` (`RecordedIsServed`): a
  request that found a file holds one that was put, and if it found it after the upload URL's end, with no PUT under way, no later
  file can come (`RequestsSound`, `SettledSound`); files put and PUTs under way share the bound `MaxPuts` (`PutsBounded`). Retries need no argument of their own: a failed completion
  leaves nothing, and the unique key decides.
* `UploadsUndisturbed`: `DownloadSpec` implies `UploadSpec`, so these hold in the composition too.
* `DownloadTypeCorrect` (`DownloadTypeOK`), `AccessEndsSoon` (`GivenOnlyBriefly`), `LinksDieInTime` (`LinksDie`), `LinksWorkLong`
  (`LinksWork`). The invariant bounds sums: the age of the loss plus what is left of
  the cache entry is at most lag and lifetime, the age plus what is left of any URL,
  signed, cached or held, is at most the validity, and an entry's URL has the rest of the
  entry's own lifetime to spare. Every step that gives access away starts the
  age at 0; every step that signs happens with access, or just after.

Pages:

* `PagesTypeCorrect` (`TypeOK`), `NothingIsMissed` (`NothingMissed`), `RepeatsAreExplained` (`RepeatsExplained`), `PromisesAreKept` (`PromisesKept`). As
  long as the room lives messages only come in, so what was there at the
  first page moves to later offsets only: everything of it before the current offset has
  been shown (`Covered`). What was counted stays, so a promised page has a row (`Counted`). A message shown
  twice, or pushed back to where it will be shown again, has a newcomer that pushed it (`Repeats`).

Realtime:

* `TypeCorrect` (`TypeOK`), with `JoinersKnown` (a joinRoom past its check is of a user who was a member),
  `UnverifiedUnknown` and `WritesHeld` (a handler that emits holds a row that was written).
* `OnlyMembersAreSent` (`OnlyMembersHear`), from `HearInv`: every socket in the channel belongs to a user who was
  admitted (`ChannelAdmitted`), and nothing is sent to any other.
* `PresenceIsTold` (`EarlierHearsLater`), from `PresenceInv`: the socket that enters later announces itself
  only once it is in, when the earlier one is in or gone, and a socket that left never enters again (`GoneForGood`).
* `EveryMessageOnce` (`MessagesExactlyOnce`), from `MessageInv`: a message is held by the one handler that inserted it
  (`SentOnce`), and until it is emitted nobody has a copy (`CopiesBounded`).
* `ListenersKeepUp` (`ListenersFollow`), from `StateInv`: the last commit is with the handler that made it, or
  was emitted (`LastDue`).

Only model-checked: `EveryRequestAnswered`, as liveness and ENABLED are out of the prover's reach. What
`NobodyIsStuck` proves is its safety half: that some request does not wait. That a busy request which does
not wait has an action is read off the guards (`Waits`, and `SuccessorFound` for the one choice
among users), and TLC confirms it.

## 5. Not modelled, and plan

Next, in this order:

1. accounts: `findByIdentifier` over accounts whose names look like emails, register's
   hash and create, room codes and createRoom's five attempts;
2. composition: Playback under RoomCache's host, so that a command of a former
   host and one of the new host overlap; Realtime's channel with RoomMembership's departures.

Left out for good: token signatures and password hashing (libraries), DTO
validation, throttling counters, Swagger, health checks, start-up, seeding and
object storage itself. They keep no state that the properties above could see.

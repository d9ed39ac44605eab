------------------------------ MODULE Playback ------------------------------
(***************************************************************************)
(* The playback state and the queue of one room: PlaybackService           *)
(* (src/playback/playback.service.ts) and the queue operations of          *)
(* RoomsService.  A command reads, computes, and writes in separate        *)
(* awaited steps, so the host's own commands overlap; skip is a            *)
(* transaction whose delete waits for the entry's row lock.                *)
(*                                                                         *)
(* Whether the caller may send the command is RoomCache's subject; here    *)
(* every command has passed assertHost or checkMembership.  play and skip  *)
(* take any track id: playback_states.track_id refers to no table.         *)
(***************************************************************************)
EXTENDS Integers, FiniteSets

CONSTANTS
    Cmd,         \* command slots: how many commands may be in progress
    Track,       \* the track ids that clients send
    NoTrack,     \* undefined, or null
    MaxEntries,  \* bound on queue entries ever added
    Buffer,      \* SCHEDULE_BUFFER_MS, in ticks
    SeekTo,      \* the positions that clients ask for
    MaxPosition, \* the largest position that the int4 column holds
    MaxTime      \* bound of the clock

ASSUME PlaybackAssumption ==
    /\ IsFiniteSet(Cmd)
    /\ NoTrack \notin Track
    /\ MaxEntries \in Nat /\ Buffer \in Nat /\ MaxPosition \in Nat /\ MaxTime \in Nat
    /\ SeekTo \subseteq Nat

VARIABLES
    row,       \* the playback_states row
    entryOf,   \* per queue entry: its createdAt and its track
    added,     \* how many entries were ever stamped with a createdAt
    pending,   \* those whose insert has not committed
    queue,     \* the room_queue_entries rows that everybody sees
    plays,     \* history: how often a skip played the entry
    removals,  \* history: how often deleteEntry removed it
    late,      \* history: what had been picked or played when the entry came into view
    now,       \* clock
    heard,     \* history: the position a listener in perfect sync is at
    raced,     \* history: the last write was a pause's that had read another row
    task       \* per command slot: where its handler is, and its locals

queueVars == <<entryOf, added, pending, queue>>
histVars == <<plays, removals, late>>
soundVars == <<row, heard, raced>>
vars == <<queueVars, histVars, soundVars, now, task>>

Entry == 1..MaxEntries
Null == -1
NoEntry == [at |-> Null, track |-> NoTrack]
NoRow == [track |-> NoTrack, status |-> "STOPPED", position |-> 0, at |-> Null]

Rest == {"done", "failed"}
Idle == [pc |-> "done", entry |-> 0, seen |-> NoRow, new |-> NoRow]

At(c, pc) == task[c].pc = pc
Put(c, pc, entry, seen, new) ==
    task' = [task EXCEPT ![c] = [pc |-> pc, entry |-> entry, seen |-> seen, new |-> new]]
Answer(c, outcome) == task' = [task EXCEPT ![c] = [Idle EXCEPT !.pc = outcome]]

Init ==
    /\ row = NoRow
    /\ entryOf = [e \in Entry |-> NoEntry] /\ added = 0 /\ pending = {} /\ queue = {}
    /\ plays = [e \in Entry |-> 0] /\ removals = [e \in Entry |-> 0]
    /\ late = [e \in Entry |-> {}]
    /\ now = 0 /\ heard = 0 /\ raced = FALSE
    /\ task = [c \in Cmd |-> Idle]

Playing(track, position) ==
    [track |-> track, status |-> "PLAYING", position |-> position, at |-> now + Buffer]
Paused(track, position) ==
    [track |-> track, status |-> "PAUSED", position |-> position, at |-> Null]

-----------------------------------------------------------------------------
(* play: a track given or the one there is; a position given, or 0 for a   *)
(* given track, or the one there is.                                       *)
PlayRead(c, track, position) ==
    /\ task[c].pc \in Rest
    /\ track # NoTrack \/ row.track # NoTrack
    /\ LET pos == IF position # Null THEN position
                  ELSE IF track # NoTrack THEN 0 ELSE row.position
       IN Put(c, "play", 0, NoRow, Playing(IF track # NoTrack THEN track ELSE row.track, pos))
    /\ UNCHANGED <<queueVars, histVars, soundVars, now>>

(* Mutants: without Math.max; without the elapsed time. *)
ElapsedSigned(r) == now - r.at
ElapsedNot(r) == 0
Elapsed(r) == IF now > r.at THEN now - r.at ELSE 0

(* pause: computes the position from the row it reads. *)
PauseRead(c) ==
    /\ task[c].pc \in Rest
    /\ row.status = "PLAYING"
    /\ Put(c, "pause", 0, row, Paused(row.track, row.position + Elapsed(row)))
    /\ UNCHANGED <<queueVars, histVars, soundVars, now>>

Sought(position) ==
    IF row.status = "PLAYING" THEN Playing(row.track, position) ELSE Paused(row.track, position)

(* seek: keeps playing or stays paused, as the row it reads says. *)
SeekRead(c, position) ==
    /\ task[c].pc \in Rest
    /\ row # NoRow
    /\ Put(c, "seek", 0, NoRow, Sought(position))
    /\ UNCHANGED <<queueVars, histVars, soundVars, now>>

(* How late the listeners learn of a scheduled start, and catch up. *)
Late(r) == IF r.status = "PLAYING" /\ now > r.at THEN now - r.at ELSE 0

(* The writes of pause and seek leave the track alone; play's names it.    *)
(* A position beyond the column's range fails.                             *)
Write(c) ==
    LET new == [task[c].new EXCEPT !.track = IF At(c, "play") THEN @ ELSE row.track]
    IN /\ task[c].pc \in {"play", "pause", "seek"}
       /\ \/ /\ new.position <= MaxPosition
             /\ row' = new
             /\ heard' = IF At(c, "pause") THEN heard ELSE new.position + Late(new)
             /\ raced' = (At(c, "pause") /\ task[c].seen # row)
             /\ Answer(c, "done")
          \/ /\ new.position > MaxPosition
             /\ Answer(c, "failed")
             /\ UNCHANGED soundVars
       /\ UNCHANGED <<queueVars, histVars, now>>

-----------------------------------------------------------------------------
(* skip's findFirst, createdAt ascending; of equals the database takes any. *)
(* Mutant: newest first. *)
NextLast == {e \in queue : \A f \in queue : entryOf[f].at <= entryOf[e].at}
NextEntry == {e \in queue : \A f \in queue : entryOf[e].at <= entryOf[f].at}

SkipPick(c) ==
    /\ task[c].pc \in Rest
    /\ \E e \in NextEntry : Put(c, "skip_delete", e, NoRow, NoRow)
    /\ UNCHANGED <<queueVars, histVars, soundVars, now>>

(* A row that an open skip transaction has deleted stays locked. *)
(* Mutant: no lock. *)
LockedNot(e) == FALSE
Locked(e) == \E c \in Cmd : At(c, "skip_write") /\ task[c].entry = e

(* Mutant: does not mind an entry that is gone, as deleteMany would not. *)
DeletableAnyway(e) == TRUE
Deletable(e) == e \in queue

(* The delete of an entry that is gone meanwhile rolls the skip back. *)
SkipDelete(c) ==
    LET e == task[c].entry
    IN /\ At(c, "skip_delete") /\ ~Locked(e)
       /\ IF Deletable(e)
          THEN Put(c, "skip_write", e, NoRow, Playing(entryOf[e].track, 0))
          ELSE Answer(c, "failed")
       /\ UNCHANGED <<queueVars, histVars, soundVars, now>>

(* skip to a given track deletes nothing. *)
SkipTo(c, track) ==
    /\ task[c].pc \in Rest
    /\ Put(c, "skip_write", 0, NoRow, Playing(track, 0))
    /\ UNCHANGED <<queueVars, histVars, soundVars, now>>

(* The upsert, and the commit. *)
SkipWrite(c) ==
    LET e == task[c].entry
    IN /\ At(c, "skip_write")
       /\ row' = task[c].new
       /\ queue' = queue \ {e}
       /\ plays' = [f \in Entry |-> IF f = e THEN plays[f] + 1 ELSE plays[f]]
       /\ heard' = Late(task[c].new) /\ raced' = FALSE
       /\ Answer(c, "done")
       /\ UNCHANGED <<entryOf, added, pending, removals, late, now>>

-----------------------------------------------------------------------------
(* addToQueue's insert takes its createdAt, *)
Stamp(track) ==
    /\ added < MaxEntries
    /\ added' = added + 1
    /\ pending' = pending \cup {added + 1}
    /\ entryOf' = [entryOf EXCEPT ![added + 1] = [at |-> now, track |-> track]]
    /\ UNCHANGED <<queue, histVars, soundVars, now, task>>

(* What a skip has picked, or played already. *)
Picked == {task[c].entry : c \in {d \in Cmd : task[d].pc \in {"skip_delete", "skip_write"}}} \ {0}
Played == {e \in Entry : plays[e] > 0}
Removed == {e \in Entry : removals[e] > 0}

(* and commits a moment later: entries come into view in any order. *)
Commit(e) ==
    /\ e \in pending
    /\ pending' = pending \ {e} /\ queue' = queue \cup {e}
    /\ late' = [late EXCEPT ![e] = Picked \cup Played]
    /\ UNCHANGED <<entryOf, added, plays, removals, soundVars, now, task>>

(* deleteEntry finds the entry, and deletes it a moment later. *)
RemoveRead(c, e) ==
    /\ task[c].pc \in Rest /\ e \in queue
    /\ Put(c, "remove", e, NoRow, NoRow)
    /\ UNCHANGED <<queueVars, histVars, soundVars, now>>

RemoveEntry(c) ==
    LET e == task[c].entry
    IN /\ At(c, "remove") /\ ~Locked(e)
       /\ IF Deletable(e)
          THEN /\ queue' = queue \ {e}
               /\ removals' = [removals EXCEPT ![e] = @ + 1]
               /\ Answer(c, "done")
          ELSE Answer(c, "failed") /\ UNCHANGED <<queue, removals>>
       /\ UNCHANGED <<entryOf, added, pending, plays, late, soundVars, now>>

(* The database fails the command, and what its transaction did is undone. *)
CommandFails(c) ==
    /\ task[c].pc \notin Rest
    /\ Answer(c, "failed")
    /\ UNCHANGED <<queueVars, histVars, soundVars, now>>

(* A tick of the clock is long compared with the two awaits of a pause. *)
Tick ==
    /\ now < MaxTime
    /\ \A c \in Cmd : ~At(c, "pause")
    /\ now' = now + 1
    /\ heard' = IF row.status = "PLAYING" /\ now >= row.at THEN heard + 1 ELSE heard
    /\ UNCHANGED <<row, raced, queueVars, histVars, task>>

Next ==
    \/ \E c \in Cmd :
          \/ \E t \in Track \cup {NoTrack}, p \in SeekTo \cup {Null} : PlayRead(c, t, p)
          \/ PauseRead(c)
          \/ \E p \in SeekTo : SeekRead(c, p)
          \/ Write(c)
          \/ SkipPick(c) \/ SkipDelete(c) \/ SkipWrite(c)
          \/ \E t \in Track : SkipTo(c, t)
          \/ \E e \in Entry : RemoveRead(c, e)
          \/ RemoveEntry(c)
          \/ CommandFails(c)
    \/ \E t \in Track : Stamp(t)
    \/ \E e \in Entry : Commit(e)
    \/ Tick

Spec == Init /\ [][Next]_vars

-----------------------------------------------------------------------------
Row == [track : Track \cup {NoTrack}, status : {"STOPPED", "PLAYING", "PAUSED"},
        position : Nat, at : Nat \cup {Null}]

(* Every variable has its type: no position is ever negative or beyond the *)
(* column's range, and a room has a scheduled start exactly while it plays. *)
PlaybackTypeOK ==
    /\ row \in Row /\ (row.status = "PLAYING" <=> row.at # Null)
    /\ row.position <= MaxPosition
    /\ entryOf \in [Entry -> [at : 0..MaxTime \cup {Null}, track : Track \cup {NoTrack}]]
    /\ added \in 0..MaxEntries /\ pending \subseteq 1..added /\ queue \subseteq 1..added
    /\ plays \in [Entry -> Nat] /\ removals \in [Entry -> Nat]
    /\ late \in [Entry -> SUBSET Entry]
    /\ now \in 0..MaxTime /\ heard \in Nat /\ raced \in BOOLEAN
    /\ task \in [Cmd -> [pc : Rest \cup {"play", "pause", "seek", "skip_delete",
                                         "skip_write", "remove"},
                         entry : 0..MaxEntries, seen : Row, new : Row]]

(* Every entry that came into view is in the queue or has left it exactly  *)
(* once, played by one skip or removed by one deleteEntry: two skips at    *)
(* the same moment never play one entry twice, and a skip that fails, even *)
(* after its delete, keeps it.                                             *)
EntriesConserved ==
    \A e \in Entry :
        plays[e] + removals[e] + (IF e \in queue THEN 1 ELSE 0)
            = IF e <= added /\ e \notin pending THEN 1 ELSE 0

(* skip plays the queue in the order of createdAt: an older entry that is  *)
(* still waiting when another has been played came into view only after a  *)
(* skip had picked that other one.                                         *)
OldestFirst ==
    \A e, f \in Entry :
        plays[e] > 0 /\ f \in queue /\ entryOf[f].at < entryOf[e].at => e \in late[f]

(* The comment in pause: "Freeze at the REAL current position".  A paused  *)
(* room's position is where its listeners stopped.                         *)
PausedWhereHeard == row.status = "PAUSED" => row.position = heard

(* The same, unless the last command to write was a pause that had read a  *)
(* state which another command replaced before it wrote.                   *)
PausedWhereHeardUnraced == raced \/ PausedWhereHeard

(* The test of seek: it "just moves the position and stays paused while    *)
(* paused".  seek's write does not start a room that is paused.            *)
SeekKeepsPaused ==
    [][\A c \in Cmd :
          At(c, "seek") /\ task'[c].pc = "done" /\ row.status = "PAUSED"
            => row'.status = "PAUSED"]_vars

Playlist == INSTANCE PlaylistContract
    WITH Time <- 0..MaxTime, waiting <- queue, chosen <- Picked,
         info <- [e \in 1..added \ pending |-> entryOf[e]],
         played <- Played, removed <- Removed, track <- row.track

(* The steps of overlapping skips, deleteEntrys and playback commands       *)
(* amount to those of a queue whose commands take effect at once: what a    *)
(* skip takes out was the oldest when it chose it, leaves the queue by this *)
(* skip alone, and its track is on from that very moment.                   *)
ImplementsPlaylist == Playlist!Spec
=============================================================================

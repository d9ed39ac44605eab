--------------------------- MODULE Playback_proofs ---------------------------
(* The queue and the paused position, for any number of commands, tracks,  *)
(* entries and ticks, any buffer and any positions to seek.                *)
EXTENDS Playback, TLAPS

USE PlaybackAssumption DEF At, queueVars, histVars, soundVars

PC == Rest \cup {"play", "pause", "seek", "skip_delete", "skip_write", "remove"}
Task == [pc : PC, entry : 0..MaxEntries, seen : Row, new : Row]

Scheduled(r) == r.status = "PLAYING" <=> r.at # Null

(* What a handler between its read and its write has prepared. *)
LocalsReady ==
    \A c \in Cmd :
       /\ Scheduled(task[c].new)
       /\ At(c, "skip_write") => task[c].new.position = 0
       /\ task[c].pc \in {"skip_delete", "remove"} => task[c].entry \in 1..added
       /\ At(c, "skip_write") => task[c].entry \in 0..added

(* What is in the queue, or on its way there, has a createdAt and a track. *)
Made == \A e \in queue \cup pending : entryOf[e] \in [at : 0..MaxTime, track : Track]

TypeInv == PlaybackTypeOK /\ Made /\ LocalsReady

LEMMA NoRowType == NoRow \in Row /\ Scheduled(NoRow)
  BY DEF NoRow, Row, Null, Scheduled

LEMMA PlayingType ==
  ASSUME now \in Nat, NEW track \in Track \cup {NoTrack}, NEW position \in Nat
  PROVE  Playing(track, position) \in Row /\ Scheduled(Playing(track, position))
  BY DEF Playing, Row, Null, Scheduled

LEMMA PausedType ==
  ASSUME NEW track \in Track \cup {NoTrack}, NEW position \in Nat
  PROVE  Paused(track, position) \in Row /\ Scheduled(Paused(track, position))
  BY DEF Paused, Row, Null, Scheduled

LEMMA LateType == ASSUME now \in Nat, NEW r \in Row PROVE Late(r) \in Nat /\ Elapsed(r) \in Nat
  BY DEF Late, Elapsed, Row, Null

LEMMA TypeInit == Init => TypeInv
<1> SUFFICES ASSUME Init PROVE TypeInv
  OBVIOUS
<1>1. Idle \in Task /\ Scheduled(Idle.new)
  BY NoRowType DEF Idle, Task, PC, Rest
<1>2. task \in [Cmd -> Task]
  BY <1>1 DEF Init
<1>3. /\ row \in Row /\ (row.status = "PLAYING" <=> row.at # Null)
      /\ row.position <= MaxPosition
  BY NoRowType DEF Init, Scheduled, NoRow
<1>4. PlaybackTypeOK
  <2>1. /\ queue = {} /\ pending = {} /\ added = 0 /\ now = 0 /\ heard = 0 /\ raced \in BOOLEAN
        /\ plays \in [Entry -> Nat] /\ removals \in [Entry -> Nat]
        /\ late \in [Entry -> SUBSET Entry]
    BY DEF Init
  <2>2. entryOf \in [Entry -> [at : 0..MaxTime \cup {Null}, track : Track \cup {NoTrack}]]
    BY DEF Init, NoEntry
  <2> QED
    BY <1>2, <1>3, <2>1, <2>2 DEF PlaybackTypeOK, Task, PC
<1>5. LocalsReady
  BY <1>1 DEF Init, LocalsReady, Idle
<1> QED
  BY <1>4, <1>5 DEF TypeInv, Init, Made

(* A handler moves to its next step, or answers, and the others wait. *)
LEMMA PutKeepsType ==
  ASSUME TypeInv, NEW c \in Cmd, NEW pc \in PC, NEW e \in 0..MaxEntries,
         NEW seen \in Row, NEW new \in Row, Scheduled(new),
         pc = "skip_write" => new.position = 0 /\ e \in 0..added,
         pc \in {"skip_delete", "remove"} => e \in 1..added,
         added' \in Nat, added <= added',
         Put(c, pc, e, seen, new)
  PROVE  /\ task' \in [Cmd -> Task] /\ LocalsReady'
         /\ task'[c] = [pc |-> pc, entry |-> e, seen |-> seen, new |-> new]
         /\ \A d \in Cmd \ {c} : task'[d] = task[d]
<1> USE DEF TypeInv
<1>1. /\ task \in [Cmd -> Task] /\ added \in Nat
      /\ task' = [task EXCEPT ![c] = [pc |-> pc, entry |-> e, seen |-> seen, new |-> new]]
  BY DEF PlaybackTypeOK, Task, PC, Put
<1>2. [pc |-> pc, entry |-> e, seen |-> seen, new |-> new] \in Task
  BY DEF Task
<1>3. /\ task' \in [Cmd -> Task]
      /\ task'[c] = [pc |-> pc, entry |-> e, seen |-> seen, new |-> new]
      /\ \A d \in Cmd \ {c} : task'[d] = task[d]
  BY <1>1, <1>2
<1>4. LocalsReady'
  BY <1>1, <1>3 DEF LocalsReady, Scheduled
<1> QED
  BY <1>3, <1>4

LEMMA AnswerKeepsType ==
  ASSUME TypeInv, NEW c \in Cmd, NEW outcome \in Rest, Answer(c, outcome),
         added' \in Nat, added <= added'
  PROVE  /\ task' \in [Cmd -> Task] /\ LocalsReady'
         /\ task'[c] = [pc |-> outcome, entry |-> 0, seen |-> NoRow, new |-> NoRow]
         /\ \A d \in Cmd \ {c} : task'[d] = task[d]
<1>1. Put(c, outcome, 0, NoRow, NoRow)
  <2>1. [Idle EXCEPT !.pc = outcome]
          = [pc |-> outcome, entry |-> 0, seen |-> NoRow, new |-> NoRow]
    BY DEF Idle
  <2> QED
    BY <2>1 DEF Answer, Put
<1>2. outcome \in PC /\ 0 \in 0..MaxEntries
  BY DEF PC
<1>3. outcome \notin {"skip_write", "skip_delete", "remove"}
  BY DEF Rest
<1> QED
  BY <1>1, <1>2, <1>3, NoRowType, PutKeepsType

LEMMA TypeStep == TypeInv /\ [Next]_vars => TypeInv'
<1> SUFFICES ASSUME TypeInv, [Next]_vars PROVE TypeInv'
  OBVIOUS
<1>a. /\ PlaybackTypeOK /\ LocalsReady /\ Made /\ task \in [Cmd -> Task]
      /\ added \in Nat /\ added \in 0..MaxEntries /\ now \in Nat
      /\ row \in Row /\ Scheduled(row)
  BY DEF TypeInv, PlaybackTypeOK, Task, PC, Scheduled
<1>b. ASSUME task' \in [Cmd -> Task], LocalsReady',
             UNCHANGED <<queueVars, histVars, soundVars, now>>
      PROVE  TypeInv'
  BY <1>a, <1>b DEF TypeInv, PlaybackTypeOK, Made, Task, PC
<1>c. ASSUME NEW c \in Cmd, NEW pc \in PC, NEW e \in 0..added, NEW seen \in Row, NEW new \in Row,
             Scheduled(new), pc = "skip_write" => new.position = 0,
             pc \in {"skip_delete", "remove"} => e \in 1..added,
             Put(c, pc, e, seen, new), UNCHANGED added
      PROVE  task' \in [Cmd -> Task] /\ LocalsReady'
  <2>1. e \in 0..MaxEntries /\ added' \in Nat /\ added <= added'
    BY <1>a, <1>c
  <2> QED
    BY <1>c, <2>1, PutKeepsType
<1>d. ASSUME NEW c \in Cmd, NEW outcome \in Rest, Answer(c, outcome), UNCHANGED added
      PROVE  task' \in [Cmd -> Task] /\ LocalsReady'
  <2>1. added' \in Nat /\ added <= added'
    BY <1>a, <1>d
  <2> QED
    BY <1>d, <2>1, AnswerKeepsType
<1>1. ASSUME NEW c \in Cmd, NEW t \in Track \cup {NoTrack}, NEW p \in SeekTo \cup {Null}, PlayRead(c, t, p)
      PROVE  TypeInv'
  <2> DEFINE track == IF t # NoTrack THEN t ELSE row.track
             pos == IF p # Null THEN p ELSE IF t # NoTrack THEN 0 ELSE row.position
  <2>1. track \in Track \cup {NoTrack} /\ pos \in Nat
    BY <1>a DEF Row
  <2>2. Playing(track, pos) \in Row /\ Scheduled(Playing(track, pos))
    BY <1>a, <2>1, PlayingType
  <2>3. Put(c, "play", 0, NoRow, Playing(track, pos)) /\ UNCHANGED <<queueVars, histVars, soundVars, now>>
    BY <1>1 DEF PlayRead
  <2>4. task' \in [Cmd -> Task] /\ LocalsReady'
    BY <1>a, <1>c, <2>3, <2>2, NoRowType DEF PC, Rest
  <2> QED
    BY <1>b, <2>3, <2>4
<1>2. ASSUME NEW c \in Cmd, PauseRead(c) PROVE TypeInv'
  <2>1. row.track \in Track \cup {NoTrack} /\ row.position + Elapsed(row) \in Nat
    BY <1>a, LateType DEF Row
  <2> DEFINE new == Paused(row.track, row.position + Elapsed(row))
  <2>2. new \in Row /\ Scheduled(new)
    BY <2>1, PausedType
  <2>3. Put(c, "pause", 0, row, new) /\ UNCHANGED <<queueVars, histVars, soundVars, now>>
    BY <1>2 DEF PauseRead
  <2>4. task' \in [Cmd -> Task] /\ LocalsReady'
    BY <1>a, <1>c, <2>3, <2>2 DEF PC, Rest
  <2> QED
    BY <1>b, <2>3, <2>4
<1>3. ASSUME NEW c \in Cmd, NEW p \in SeekTo, SeekRead(c, p) PROVE TypeInv'
  <2>1. row.track \in Track \cup {NoTrack} /\ p \in Nat
    BY <1>a DEF Row
  <2>2. Sought(p) \in Row /\ Scheduled(Sought(p))
    BY <1>a, <2>1, PlayingType, PausedType DEF Sought
  <2>3. Put(c, "seek", 0, NoRow, Sought(p)) /\ UNCHANGED <<queueVars, histVars, soundVars, now>>
    BY <1>3 DEF SeekRead
  <2>4. task' \in [Cmd -> Task] /\ LocalsReady'
    BY <1>a, <1>c, <2>3, <2>2, NoRowType DEF PC, Rest
  <2> QED
    BY <1>b, <2>3, <2>4
<1>4. ASSUME NEW c \in Cmd, Write(c) PROVE TypeInv'
  <2> DEFINE new == [task[c].new EXCEPT !.track = IF At(c, "play") THEN @ ELSE row.track]
  <2>1. new \in Row /\ Scheduled(new) /\ Late(new) \in Nat
    <3>1. task[c].new \in Row /\ row.track \in Track \cup {NoTrack} /\ Scheduled(task[c].new)
      BY <1>a DEF Task, Row, LocalsReady
    <3>2. new \in Row /\ Scheduled(new)
      BY <3>1 DEF Row, Scheduled
    <3> QED
      BY <1>a, <3>2, LateType
  <2>2. PICK outcome \in Rest : Answer(c, outcome)
    BY <1>4 DEF Write, Rest
  <2>3. task' \in [Cmd -> Task] /\ LocalsReady' /\ UNCHANGED <<queueVars, histVars, now>>
    BY <1>4, <1>d, <2>2 DEF Write
  <2>4. CASE UNCHANGED <<row, heard, raced>>
    BY <1>b, <2>3, <2>4
  <2>5. CASE /\ row' = new /\ new.position <= MaxPosition
             /\ heard' = (IF At(c, "pause") THEN heard ELSE new.position + Late(new))
             /\ raced' = (At(c, "pause") /\ task[c].seen # row)
    <3>1. heard' \in Nat /\ raced' \in BOOLEAN
      BY <1>a, <2>1, <2>5 DEF PlaybackTypeOK, Row
    <3> HIDE DEF new
    <3> QED
      BY <1>a, <2>1, <2>3, <2>5, <3>1 DEF TypeInv, PlaybackTypeOK, Made, Task, PC, Scheduled
  <2> QED
    BY <1>4, <2>4, <2>5 DEF Write
<1>5. ASSUME NEW c \in Cmd, SkipPick(c) PROVE TypeInv'
  <2>1. PICK e \in NextEntry : Put(c, "skip_delete", e, NoRow, NoRow)
    BY <1>5 DEF SkipPick
  <2>2. e \in 1..added
    BY <1>a DEF NextEntry, PlaybackTypeOK
  <2>3. Put(c, "skip_delete", e, NoRow, NoRow) /\ UNCHANGED <<queueVars, histVars, soundVars, now>>
    BY <1>5, <2>1 DEF SkipPick
  <2>4. task' \in [Cmd -> Task] /\ LocalsReady'
    BY <1>a, <1>c, <2>3, <2>2, NoRowType DEF PC, Rest
  <2> QED
    BY <1>b, <2>3, <2>4
<1>6. ASSUME NEW c \in Cmd, SkipDelete(c) PROVE TypeInv'
  <2> DEFINE e == task[c].entry
  <2>1. CASE Deletable(e)
    <3>t. PICK t : t = entryOf[e].track
      OBVIOUS
    <3>1. Put(c, "skip_write", e, NoRow, Playing(t, 0)) /\ e \in 1..added /\ e \in Entry
      BY <1>6, <1>a, <2>1, <3>t DEF SkipDelete, LocalsReady, Entry
    <3>2. t \in Track \cup {NoTrack}
      BY <1>a, <3>t, <3>1 DEF PlaybackTypeOK
    <3>2a. Playing(t, 0) \in Row /\ Scheduled(Playing(t, 0)) /\ Playing(t, 0).position = 0
      BY <1>a, <3>2, PlayingType DEF Playing
    <3>3. UNCHANGED <<queueVars, histVars, soundVars, now>>
      BY <1>6 DEF SkipDelete
    <3>4. task' \in [Cmd -> Task] /\ LocalsReady'
      BY <1>a, <1>c, <3>1, <3>2a, <3>3, NoRowType DEF PC
    <3> QED
      BY <1>b, <3>3, <3>4
  <2>2. CASE ~Deletable(e)
    BY <1>6, <1>b, <1>d, <2>2 DEF SkipDelete, Rest
  <2> QED
    BY <2>1, <2>2
<1>7. ASSUME NEW c \in Cmd, NEW t \in Track, SkipTo(c, t) PROVE TypeInv'
  <2>1. Playing(t, 0) \in Row /\ Scheduled(Playing(t, 0)) /\ Playing(t, 0).position = 0
    BY <1>a, PlayingType DEF Playing
  <2>2. Put(c, "skip_write", 0, NoRow, Playing(t, 0)) /\ UNCHANGED <<queueVars, histVars, soundVars, now>>
    BY <1>7 DEF SkipTo
  <2>3. task' \in [Cmd -> Task] /\ LocalsReady'
    BY <1>a, <1>c, <2>2, <2>1, NoRowType DEF PC, Rest
  <2> QED
    BY <1>b, <2>2, <2>3
<1>8. ASSUME NEW c \in Cmd, SkipWrite(c) PROVE TypeInv'
  <2> DEFINE new == task[c].new
  <2>1. new \in Row /\ Scheduled(new) /\ new.position = 0 /\ Late(new) \in Nat
    BY <1>8, <1>a, LateType DEF SkipWrite, Task, LocalsReady
  <2>2. task' \in [Cmd -> Task] /\ LocalsReady' /\ UNCHANGED <<entryOf, added, pending, removals, late, now>>
    BY <1>8, <1>d DEF SkipWrite, Rest
  <2>3. plays' \in [Entry -> Nat] /\ queue' \subseteq queue
    BY <1>8, <1>a DEF SkipWrite, PlaybackTypeOK
  <2>4. row' = new /\ heard' = Late(new) /\ raced' \in BOOLEAN
    BY <1>8 DEF SkipWrite
  <2> HIDE DEF new
  <2> QED
    BY <1>a, <2>1, <2>2, <2>3, <2>4 DEF TypeInv, PlaybackTypeOK, Made, Task, PC, Scheduled
<1>9. ASSUME NEW c \in Cmd, NEW e \in Entry, RemoveRead(c, e) PROVE TypeInv'
  <2>1. e \in 1..added
    BY <1>9, <1>a DEF RemoveRead, PlaybackTypeOK
  <2>2. Put(c, "remove", e, NoRow, NoRow) /\ UNCHANGED <<queueVars, histVars, soundVars, now>>
    BY <1>9 DEF RemoveRead
  <2>3. task' \in [Cmd -> Task] /\ LocalsReady'
    BY <1>a, <1>c, <2>2, <2>1, NoRowType DEF PC, Rest
  <2> QED
    BY <1>b, <2>2, <2>3
<1>10. ASSUME NEW c \in Cmd, RemoveEntry(c) PROVE TypeInv'
  <2>1. PICK outcome \in Rest : Answer(c, outcome)
    BY <1>10 DEF RemoveEntry, Rest
  <2>2. task' \in [Cmd -> Task] /\ LocalsReady' /\ UNCHANGED <<entryOf, added, pending, plays, late, soundVars, now>>
    BY <1>10, <1>d, <2>1 DEF RemoveEntry
  <2>3. removals' \in [Entry -> Nat] /\ queue' \subseteq queue
    BY <1>10, <1>a DEF RemoveEntry, PlaybackTypeOK
  <2> QED
    BY <1>a, <2>2, <2>3 DEF TypeInv, PlaybackTypeOK, Made, Task, PC, Scheduled
<1>11. ASSUME NEW c \in Cmd, CommandFails(c) PROVE TypeInv'
  BY <1>11, <1>b, <1>d DEF CommandFails, Rest
<1>12. ASSUME NEW t \in Track, Stamp(t) PROVE TypeInv'
  <2> DEFINE new == [at |-> now, track |-> t]
  <2>1. /\ added' = added + 1 /\ added' \in 0..MaxEntries /\ added + 1 \in Entry
        /\ pending' = pending \cup {added + 1} /\ pending' \subseteq 1..added'
        /\ queue' = queue /\ queue' \subseteq 1..added' /\ added + 1 \notin queue \cup pending
    BY <1>12, <1>a DEF Stamp, PlaybackTypeOK, Entry
  <2>2. new \in [at : 0..MaxTime, track : Track] /\ entryOf' = [entryOf EXCEPT ![added + 1] = new]
    BY <1>12, <1>a DEF Stamp, PlaybackTypeOK
  <2>2a. new \in [at : 0..MaxTime \cup {Null}, track : Track \cup {NoTrack}]
    BY <2>2
  <2> HIDE DEF new
  <2>3. entryOf' \in [Entry -> [at : 0..MaxTime \cup {Null}, track : Track \cup {NoTrack}]]
    BY <1>a, <2>2, <2>2a DEF PlaybackTypeOK
  <2>4. Made'
    BY <1>a, <2>1, <2>2 DEF Made, PlaybackTypeOK, Entry
  <2>5. LocalsReady'
    BY <1>12, <1>a, <2>1 DEF Stamp, LocalsReady, Scheduled
  <2>6. UNCHANGED <<plays, removals, late, row, heard, raced, now, task>>
    BY <1>12 DEF Stamp
  <2> QED
    BY <1>a, <2>1, <2>3, <2>4, <2>5, <2>6 DEF TypeInv, PlaybackTypeOK
<1>13. ASSUME NEW e \in Entry, Commit(e) PROVE TypeInv'
  <2>1. /\ pending' = pending \ {e} /\ queue' = queue \cup {e} /\ e \in pending
        /\ late' = [late EXCEPT ![e] = Picked \cup Played]
        /\ UNCHANGED <<entryOf, added, plays, removals, row, heard, raced, now, task>>
    BY <1>13 DEF Commit
  <2>2. Picked \cup Played \subseteq Entry
    <3>1. \A c \in Cmd : task[c].entry # 0 => task[c].entry \in Entry
      BY <1>a DEF Task, Entry
    <3> QED
      BY <3>1 DEF Picked, Played
  <2>3. late' \in [Entry -> SUBSET Entry]
    BY <1>a, <2>1, <2>2 DEF PlaybackTypeOK
  <2>4. Made' /\ LocalsReady'
    BY <1>a, <2>1 DEF Made, LocalsReady, Scheduled
  <2> QED
    BY <1>a, <2>1, <2>3, <2>4 DEF TypeInv, PlaybackTypeOK
<1>14. CASE Tick
  <2>1. now' \in 0..MaxTime /\ heard' \in Nat
    BY <1>14, <1>a DEF Tick, PlaybackTypeOK
  <2> QED
    BY <1>14, <1>a, <2>1 DEF Tick, TypeInv, PlaybackTypeOK, Made, LocalsReady, Scheduled
<1>15. CASE UNCHANGED vars
  BY <1>15, <1>a, <1>b DEF vars, LocalsReady, Scheduled
<1> QED
  BY <1>1, <1>2, <1>3, <1>4, <1>5, <1>6, <1>7, <1>8, <1>9, <1>10, <1>11, <1>12, <1>13, <1>14, <1>15
  DEF Next

(* PlaybackTypeOK: no position is negative or beyond the column's range, and a     *)
(* room has a scheduled start exactly while it plays.                      *)
THEOREM TypeCorrect == Spec => []PlaybackTypeOK
<1>1. TypeInv => PlaybackTypeOK
  BY DEF TypeInv
<1> QED
  BY <1>1, TypeInit, TypeStep, PTL DEF Spec

-----------------------------------------------------------------------------
(* A skip that is past its delete holds its entry alone, in the queue. *)
HeldOnce ==
    \A c \in Cmd :
       At(c, "skip_write") /\ task[c].entry # 0 =>
          /\ task[c].entry \in queue
          /\ \A d \in Cmd \ {c} : ~(At(d, "skip_write") /\ task[d].entry = task[c].entry)

(* What skip picked was the oldest in view: whoever is older came later. *)
PickedOldest ==
    \A c \in Cmd :
       task[c].pc \in {"skip_delete", "skip_write"} /\ task[c].entry # 0 =>
          \A f \in queue :
             entryOf[f].at < entryOf[task[c].entry].at => task[c].entry \in late[f]

QueueInv == TypeInv /\ HeldOnce /\ PickedOldest /\ EntriesConserved /\ OldestFirst

LEMMA QueueInit == Init => QueueInv
<1> SUFFICES ASSUME Init PROVE QueueInv
  OBVIOUS
<1>1. queue = {} /\ pending = {} /\ added = 0 /\ \A e \in Entry : plays[e] = 0 /\ removals[e] = 0
  BY DEF Init
<1>2. \A c \in Cmd : task[c].pc = "done"
  BY DEF Init, Idle
<1>3. EntriesConserved /\ OldestFirst
  BY <1>1 DEF EntriesConserved, OldestFirst, Entry
<1> QED
  BY <1>1, <1>2, <1>3, TypeInit DEF QueueInv, HeldOnce, PickedOldest

LEMMA QueueStep == QueueInv /\ [Next]_vars => QueueInv'
<1> SUFFICES ASSUME QueueInv, [Next]_vars PROVE QueueInv'
  OBVIOUS
<1>a. /\ TypeInv' /\ task \in [Cmd -> Task] /\ added \in Nat /\ queue \subseteq 1..added
      /\ queue \subseteq Entry /\ pending \subseteq 1..added /\ late \in [Entry -> SUBSET Entry]
      /\ \A e \in Entry : entryOf[e].at \in Int
      /\ LocalsReady /\ HeldOnce /\ PickedOldest /\ EntriesConserved /\ OldestFirst
      /\ plays \in [Entry -> Nat] /\ removals \in [Entry -> Nat]
  <2>1. TypeInv' /\ PlaybackTypeOK /\ LocalsReady /\ HeldOnce /\ PickedOldest /\ EntriesConserved /\ OldestFirst
    BY TypeStep DEF QueueInv, TypeInv
  <2>2. task \in [Cmd -> Task]
    BY <2>1 DEF PlaybackTypeOK, Task, PC
  <2>3. queue \subseteq Entry /\ added \in Nat
    BY <2>1 DEF PlaybackTypeOK, Entry
  <2>4. \A e \in Entry : entryOf[e].at \in Int
    BY <2>1 DEF PlaybackTypeOK, Null
  <2> QED
    BY <2>1, <2>2, <2>3, <2>4 DEF PlaybackTypeOK
(* A handler that moves, or ends, without holding an entry afterwards. *)
<1>b. ASSUME NEW c \in Cmd, NEW t, task' = [task EXCEPT ![c] = t],
             t.pc # "skip_delete", t.pc = "skip_write" => t.entry = 0,
             UNCHANGED <<queueVars, histVars>>
      PROVE  QueueInv'
  <2>1. task'[c] = t /\ \A d \in Cmd \ {c} : task'[d] = task[d]
    BY <1>a, <1>b
  <2>2. HeldOnce'
    BY <1>a, <1>b, <2>1 DEF HeldOnce
  <2>3. PickedOldest'
    BY <1>a, <1>b, <2>1 DEF PickedOldest, Entry
  <2> QED
    BY <1>a, <1>b, <2>2, <2>3 DEF QueueInv, EntriesConserved, OldestFirst
<1>c. ASSUME NEW c \in Cmd, NEW pc, NEW e, NEW seen, NEW new, Put(c, pc, e, seen, new),
             pc # "skip_delete", pc = "skip_write" => e = 0,
             UNCHANGED <<queueVars, histVars>>
      PROVE  QueueInv'
  <2> DEFINE t == [pc |-> pc, entry |-> e, seen |-> seen, new |-> new]
  <2>1. task' = [task EXCEPT ![c] = t] /\ t.pc = pc /\ t.entry = e
    BY <1>c DEF Put
  <2> HIDE DEF t
  <2> QED
    BY <1>b, <1>c, <2>1
<1>1. ASSUME NEW c \in Cmd, NEW t \in Track \cup {NoTrack}, NEW p \in SeekTo \cup {Null}, PlayRead(c, t, p)
      PROVE  QueueInv'
  BY <1>1, <1>c DEF PlayRead
<1>2. ASSUME NEW c \in Cmd, PauseRead(c) PROVE QueueInv'
  BY <1>2, <1>c DEF PauseRead
<1>3. ASSUME NEW c \in Cmd, NEW p \in SeekTo, SeekRead(c, p) PROVE QueueInv'
  BY <1>3, <1>c DEF SeekRead
<1>4. ASSUME NEW c \in Cmd, Write(c) PROVE QueueInv'
  BY <1>4, <1>b DEF Write, Answer, Idle
<1>5. ASSUME NEW c \in Cmd, SkipPick(c) PROVE QueueInv'
  <2>1. PICK e \in NextEntry : Put(c, "skip_delete", e, NoRow, NoRow)
    BY <1>5 DEF SkipPick
  <2>2. UNCHANGED <<queueVars, histVars>>
    BY <1>5 DEF SkipPick
  <2>3. /\ task'[c].pc = "skip_delete" /\ task'[c].entry = e
        /\ \A d \in Cmd \ {c} : task'[d] = task[d]
    BY <1>a, <2>1 DEF Put
  <2>4. HeldOnce'
    BY <1>a, <2>2, <2>3 DEF HeldOnce
  <2>5. PickedOldest'
    <3>0. e \in queue /\ \A f \in queue : entryOf[e].at <= entryOf[f].at
      BY <2>1 DEF NextEntry
    <3>1. ASSUME NEW f \in queue PROVE ~(entryOf[f].at < entryOf[e].at)
      <4>1. entryOf[e].at \in Nat /\ entryOf[f].at \in Nat
        BY <3>0, PlaybackAssumption DEF QueueInv, TypeInv, Made
      <4>2. entryOf[e].at <= entryOf[f].at
        BY <3>0
      <4> QED
        BY <4>1, <4>2
    <3> QED
      BY <1>a, <2>2, <2>3, <3>1 DEF PickedOldest
  <2> QED
    BY <1>a, <2>2, <2>4, <2>5 DEF QueueInv, EntriesConserved, OldestFirst
<1>6. ASSUME NEW c \in Cmd, SkipDelete(c) PROVE QueueInv'
  <2> DEFINE e == task[c].entry
  <2>1. CASE Deletable(e)
    <3>1. /\ Put(c, "skip_write", e, NoRow, Playing(entryOf[e].track, 0))
          /\ UNCHANGED <<queueVars, histVars>>
          /\ At(c, "skip_delete") /\ e \in queue /\ ~Locked(e)
      BY <1>6, <2>1 DEF SkipDelete, Deletable
    <3>2. /\ task'[c].pc = "skip_write" /\ task'[c].entry = e
          /\ \A d \in Cmd \ {c} : task'[d] = task[d]
      BY <1>a, <3>1 DEF Put
    <3>3. HeldOnce'
      BY <1>a, <3>1, <3>2 DEF HeldOnce, Locked
    <3>4. PickedOldest'
      BY <1>a, <3>1, <3>2 DEF PickedOldest
    <3> QED
      BY <1>a, <3>1, <3>3, <3>4 DEF QueueInv, EntriesConserved, OldestFirst
  <2>2. CASE ~Deletable(e)
    BY <1>6, <1>b, <2>2 DEF SkipDelete, Answer, Idle
  <2> QED
    BY <2>1, <2>2
<1>7. ASSUME NEW c \in Cmd, NEW t \in Track, SkipTo(c, t) PROVE QueueInv'
  BY <1>7, <1>c DEF SkipTo
<1>8. ASSUME NEW c \in Cmd, SkipWrite(c) PROVE QueueInv'
  <2> DEFINE e == task[c].entry
  <2>1. /\ At(c, "skip_write") /\ queue' = queue \ {e}
        /\ UNCHANGED <<entryOf, added, pending, removals, late>>
        /\ plays' = [f \in Entry |-> IF f = e THEN plays[f] + 1 ELSE plays[f]]
    BY <1>8 DEF SkipWrite
  <2>2. task'[c].pc = "done" /\ \A d \in Cmd \ {c} : task'[d] = task[d]
    BY <1>8, <1>a DEF SkipWrite, Answer, Idle
  <2>3. \/ e = 0
        \/ e \in queue /\ \A f \in queue : entryOf[f].at < entryOf[e].at => e \in late[f]
    BY <1>a, <2>1 DEF HeldOnce, PickedOldest
  <2>4. \A d \in Cmd \ {c} : At(d, "skip_write") /\ task[d].entry # 0 => task[d].entry # e
    BY <1>a, <2>1 DEF HeldOnce
  <2>5. HeldOnce'
    BY <1>a, <2>1, <2>2, <2>4 DEF HeldOnce
  <2>6. PickedOldest'
    BY <1>a, <2>1, <2>2 DEF PickedOldest
  <2>7. EntriesConserved'
    <3>1. CASE e = 0
      <4>1. plays' = plays /\ queue' = queue
        BY <1>a, <2>1, <3>1 DEF Entry
      <4> QED
        BY <1>a, <2>1, <4>1 DEF EntriesConserved
    <3>2. CASE e \in queue
      BY <1>a, <2>1, <3>2 DEF EntriesConserved
    <3> QED
      BY <2>3, <3>1, <3>2
  <2>8. OldestFirst'
    <3> SUFFICES ASSUME NEW g \in Entry, NEW f \in Entry, plays'[g] > 0, f \in queue',
                        entryOf[f].at < entryOf[g].at
                 PROVE  g \in late[f]
      BY <2>1 DEF OldestFirst
    <3>1. CASE g = e
      BY <2>1, <2>3, <3>1 DEF Entry
    <3>2. CASE g # e
      BY <1>a, <2>1, <3>2 DEF OldestFirst
    <3> QED
      BY <3>1, <3>2
  <2> QED
    BY <1>a, <2>5, <2>6, <2>7, <2>8 DEF QueueInv
<1>9. ASSUME NEW c \in Cmd, NEW e \in Entry, RemoveRead(c, e) PROVE QueueInv'
  BY <1>9, <1>c DEF RemoveRead
<1>10. ASSUME NEW c \in Cmd, RemoveEntry(c) PROVE QueueInv'
  <2> DEFINE e == task[c].entry
  <2>1. CASE Deletable(e)
    <3>1. /\ e \in queue /\ ~Locked(e) /\ queue' = queue \ {e}
          /\ UNCHANGED <<entryOf, added, pending, plays, late>>
          /\ removals' = [removals EXCEPT ![e] = @ + 1]
      BY <1>10, <2>1 DEF RemoveEntry, Deletable
    <3>2. task'[c].pc = "done" /\ \A d \in Cmd \ {c} : task'[d] = task[d]
      BY <1>10, <1>a, <2>1 DEF RemoveEntry, Answer, Idle
    <3>3. HeldOnce'
      BY <1>a, <3>1, <3>2 DEF HeldOnce, Locked
    <3>4. PickedOldest'
      BY <1>a, <3>1, <3>2 DEF PickedOldest
    <3>5. EntriesConserved' /\ OldestFirst'
      BY <1>a, <3>1 DEF EntriesConserved, OldestFirst
    <3> QED
      BY <1>a, <3>3, <3>4, <3>5 DEF QueueInv
  <2>2. CASE ~Deletable(e)
    BY <1>10, <1>b, <2>2 DEF RemoveEntry, Answer, Idle
  <2> QED
    BY <2>1, <2>2
<1>11. ASSUME NEW c \in Cmd, CommandFails(c) PROVE QueueInv'
  <2> DEFINE t == [Idle EXCEPT !.pc = "failed"]
  <2>1. task' = [task EXCEPT ![c] = t] /\ t.pc = "failed" /\ UNCHANGED <<queueVars, histVars>>
    BY <1>11 DEF CommandFails, Answer, Idle
  <2> HIDE DEF t
  <2> QED
    BY <1>b, <2>1
<1>12. ASSUME NEW t \in Track, Stamp(t) PROVE QueueInv'
  <2>1. /\ added' = added + 1 /\ pending' = pending \cup {added + 1} /\ added + 1 \notin queue
        /\ \A e \in 1..added : entryOf'[e] = entryOf[e]
        /\ UNCHANGED <<queue, plays, removals, late, task>>
    BY <1>12, <1>a DEF Stamp, QueueInv, TypeInv, PlaybackTypeOK, Entry
  <2>2. HeldOnce'
    BY <1>a, <2>1 DEF HeldOnce
  <2>3. PickedOldest'
    BY <1>a, <2>1 DEF PickedOldest, LocalsReady
  <2>4. EntriesConserved'
    BY <1>a, <2>1 DEF EntriesConserved, Entry
  <2>5. \A e \in Entry : plays[e] > 0 => e \in 1..added
    BY <1>a DEF EntriesConserved, Entry
  <2>6. OldestFirst'
    BY <1>a, <2>1, <2>5 DEF OldestFirst, Entry
  <2> QED
    BY <1>a, <2>2, <2>3, <2>4, <2>6 DEF QueueInv
<1>13. ASSUME NEW e \in Entry, Commit(e) PROVE QueueInv'
  <2>1. /\ pending' = pending \ {e} /\ queue' = queue \cup {e} /\ e \in pending
        /\ late'[e] = Picked \cup Played /\ \A f \in Entry \ {e} : late'[f] = late[f]
        /\ UNCHANGED <<entryOf, added, plays, removals, task>>
    BY <1>13, <1>a DEF Commit
  <2>2. e \notin queue
    BY <1>a, <2>1 DEF EntriesConserved
  <2>3. HeldOnce'
    BY <1>a, <2>1 DEF HeldOnce
  <2>4. PickedOldest'
    <3> SUFFICES ASSUME NEW c \in Cmd, task[c].pc \in {"skip_delete", "skip_write"},
                        task[c].entry # 0, NEW f \in queue \cup {e},
                        entryOf[f].at < entryOf[task[c].entry].at
                 PROVE  task[c].entry \in late'[f]
      BY <2>1 DEF PickedOldest
    <3>1. CASE f = e
      BY <2>1, <3>1 DEF Picked
    <3>2. CASE f # e
      BY <1>a, <2>1, <3>2 DEF PickedOldest
    <3> QED
      BY <3>1, <3>2
  <2>5. EntriesConserved'
    <3>1. e \in 1..added /\ plays[e] + removals[e] = 0
      BY <1>a, <2>1, <2>2 DEF EntriesConserved
    <3>2. ASSUME NEW f \in Entry
          PROVE  plays[f] + removals[f] + (IF f \in queue' THEN 1 ELSE 0)
                     = IF f <= added /\ f \notin pending' THEN 1 ELSE 0
      <4>1. CASE f = e
        BY <2>1, <3>1, <4>1
      <4>2. CASE f # e
        BY <1>a, <2>1, <4>2 DEF EntriesConserved
      <4> QED
        BY <4>1, <4>2
    <3> QED
      BY <2>1, <3>2 DEF EntriesConserved
  <2>6. OldestFirst'
    BY <1>a, <2>1 DEF OldestFirst, Played
  <2> QED
    BY <1>a, <2>3, <2>4, <2>5, <2>6 DEF QueueInv
<1>14. CASE Tick \/ UNCHANGED vars
  <2>1. UNCHANGED <<queueVars, histVars, task>>
    BY <1>14 DEF Tick, vars
  <2> QED
    BY <1>a, <2>1 DEF QueueInv, HeldOnce, PickedOldest, EntriesConserved, OldestFirst
<1> QED
  BY <1>1, <1>2, <1>3, <1>4, <1>5, <1>6, <1>7, <1>8, <1>9, <1>10, <1>11, <1>12, <1>13, <1>14
  DEF Next

(* EntriesConserved: each entry leaves the queue exactly once, however many *)
(* skips and deleteEntrys overlap on it.                                   *)
THEOREM EachEntryOnce == Spec => []EntriesConserved
<1>1. QueueInv => EntriesConserved
  BY DEF QueueInv
<1> QED
  BY <1>1, QueueInit, QueueStep, PTL DEF Spec

(* OldestFirst: skip plays the entries in the order of createdAt, but for  *)
(* those whose insert committed after it had picked another.               *)
THEOREM PlayedInOrder == Spec => []OldestFirst
<1>1. QueueInv => OldestFirst
  BY DEF QueueInv
<1> QED
  BY <1>1, QueueInit, QueueStep, PTL DEF Spec

-----------------------------------------------------------------------------
(* The playlist.  What is about to be on is a track that a client named,   *)
(* and a skip that took an entry out is about to play that entry's.        *)
TrackReady ==
    \A c \in Cmd :
       /\ task[c].pc \in {"play", "skip_write"} => task[c].new.track \in Track
       /\ At(c, "skip_write") /\ task[c].entry # 0
            => task[c].new.track = entryOf[task[c].entry].track
PlaylistInv == QueueInv /\ TrackReady

(* A step that leaves the entries alone and moves one command.             *)
LEMMA TrackKept ==
  ASSUME PlaylistInv, entryOf' = entryOf,
         NEW c \in Cmd, NEW t, task' = [task EXCEPT ![c] = t],
         t.pc \in {"play", "skip_write"} => t.new.track \in Track,
         t.pc = "skip_write" /\ t.entry # 0 => t.new.track = entryOf[t.entry].track
  PROVE  TrackReady'
<1>1. task \in [Cmd -> Task] /\ TrackReady
  BY DEF PlaylistInv, QueueInv, TypeInv, PlaybackTypeOK, Task, PC
<1>2. task'[c] = t /\ \A d \in Cmd \ {c} : task'[d] = task[d]
  BY <1>1
<1> QED
  BY <1>1, <1>2 DEF TrackReady

LEMMA PutTrack ==
  ASSUME PlaylistInv, entryOf' = entryOf,
         NEW c \in Cmd, NEW pc, NEW e, NEW seen, NEW new, Put(c, pc, e, seen, new),
         pc \in {"play", "skip_write"} => new.track \in Track,
         pc = "skip_write" /\ e # 0 => new.track = entryOf[e].track
  PROVE  TrackReady'
<1> DEFINE t == [pc |-> pc, entry |-> e, seen |-> seen, new |-> new]
<1>1. task' = [task EXCEPT ![c] = t] /\ t.pc = pc /\ t.entry = e /\ t.new = new
  BY DEF Put
<1> HIDE DEF t
<1> QED
  BY <1>1, TrackKept

LEMMA AnswerTrack ==
  ASSUME PlaylistInv, entryOf' = entryOf, NEW c \in Cmd, NEW o \in Rest, Answer(c, o)
  PROVE  TrackReady'
<1> DEFINE t == [Idle EXCEPT !.pc = o]
<1>1. task' = [task EXCEPT ![c] = t] /\ t.pc \in Rest
  BY DEF Answer, Idle
<1> HIDE DEF t
<1> QED
  BY <1>1, TrackKept DEF Rest

LEMMA PlaylistStep == PlaylistInv /\ [Next]_vars => PlaylistInv'
<1> SUFFICES ASSUME PlaylistInv, [Next]_vars PROVE TrackReady'
  BY QueueStep DEF PlaylistInv
<1>0. /\ TrackReady /\ LocalsReady /\ HeldOnce /\ Made /\ row \in Row /\ PlaybackTypeOK
      /\ task \in [Cmd -> Task]
  BY DEF PlaylistInv, QueueInv, TypeInv, PlaybackTypeOK, Task, PC
<1>1. ASSUME NEW c \in Cmd, NEW t \in Track \cup {NoTrack}, NEW p \in SeekTo \cup {Null},
             PlayRead(c, t, p)
      PROVE  TrackReady'
  <2> DEFINE track == IF t # NoTrack THEN t ELSE row.track
  <2>1. PICK pos : Put(c, "play", 0, NoRow, Playing(track, pos))
    BY <1>1 DEF PlayRead
  <2>2. track \in Track
    BY <1>0, <1>1 DEF PlayRead, Row
  <2>3. Playing(track, pos).track = track
    BY DEF Playing
  <2> QED
    BY <1>1, <2>1, <2>2, <2>3, PutTrack DEF PlayRead
<1>2. ASSUME NEW c \in Cmd, PauseRead(c) PROVE TrackReady'
  BY <1>2, PutTrack DEF PauseRead
<1>3. ASSUME NEW c \in Cmd, NEW p \in SeekTo, SeekRead(c, p) PROVE TrackReady'
  BY <1>3, PutTrack DEF SeekRead
<1>4. ASSUME NEW c \in Cmd, Write(c) PROVE TrackReady'
  <2>1. entryOf' = entryOf /\ (Answer(c, "done") \/ Answer(c, "failed"))
    BY <1>4 DEF Write
  <2> QED
    BY <2>1, AnswerTrack DEF Rest
<1>5. ASSUME NEW c \in Cmd, SkipPick(c) PROVE TrackReady'
  BY <1>5, PutTrack DEF SkipPick
<1>6. ASSUME NEW c \in Cmd, SkipDelete(c) PROVE TrackReady'
  <2> DEFINE e == task[c].entry
  <2>1. Playing(entryOf[e].track, 0).track = entryOf[e].track /\ entryOf' = entryOf
    BY <1>6 DEF SkipDelete, Playing
  <2>2. \/ Put(c, "skip_write", e, NoRow, Playing(entryOf[e].track, 0)) /\ e \in queue
        \/ Answer(c, "failed")
    BY <1>6 DEF SkipDelete, Deletable
  <2>3. e \in queue => entryOf[e].track \in Track
    BY <1>0 DEF Made
  <2> QED
    BY <2>1, <2>2, <2>3, PutTrack, AnswerTrack DEF Rest
<1>7. ASSUME NEW c \in Cmd, NEW t \in Track, SkipTo(c, t) PROVE TrackReady'
  BY <1>7, PutTrack DEF SkipTo, Playing
<1>8. ASSUME NEW c \in Cmd, SkipWrite(c) \/ RemoveEntry(c) \/ CommandFails(c) PROVE TrackReady'
  <2>1. entryOf' = entryOf /\ (Answer(c, "done") \/ Answer(c, "failed"))
    BY <1>8 DEF SkipWrite, RemoveEntry, CommandFails
  <2> QED
    BY <2>1, AnswerTrack DEF Rest
<1>9. ASSUME NEW c \in Cmd, NEW e \in Entry, RemoveRead(c, e) PROVE TrackReady'
  BY <1>9, PutTrack DEF RemoveRead
<1>10. ASSUME NEW t \in Track, Stamp(t) PROVE TrackReady'
  <2>1. task' = task /\ \A e \in queue : entryOf'[e] = entryOf[e]
    BY <1>0, <1>10 DEF Stamp, PlaybackTypeOK, Entry
  <2> QED
    BY <1>0, <2>1 DEF TrackReady, HeldOnce
<1>11. CASE (\E e \in Entry : Commit(e)) \/ Tick \/ UNCHANGED vars
  <2>1. UNCHANGED <<entryOf, task>>
    BY <1>11 DEF Commit, Tick, vars
  <2> QED
    BY <1>0, <2>1 DEF TrackReady
<1> QED
  BY <1>1, <1>2, <1>3, <1>4, <1>5, <1>6, <1>7, <1>8, <1>9, <1>10, <1>11 DEF Next

LEMMA PlaylistInit == Init => PlaylistInv /\ Playlist!Init
<1> SUFFICES ASSUME Init PROVE TrackReady /\ Playlist!Init
  BY QueueInit DEF PlaylistInv
<1>1. row.track = NoTrack /\ added = 0 /\ queue = {} /\ \A c \in Cmd : task[c].pc = "done"
  BY DEF Init, NoRow, Idle
<1>2. \A e \in Entry : plays[e] = 0 /\ removals[e] = 0
  BY DEF Init
<1>3. Picked = {} /\ Played = {} /\ Removed = {}
  BY <1>1, <1>2 DEF Picked, Played, Removed
<1>4. [e \in 1..added \ pending |-> entryOf[e]] = [e \in {} |-> NoTrack]
  <2>1. 1..added \ pending = {}
    BY <1>1
  <2> QED
    BY <2>1
<1> QED
  BY <1>1, <1>3, <1>4 DEF TrackReady, Playlist!Init

(* Which entries are picked, when one command has moved.                   *)
LEMMA PickedMembers ==
  /\ \A e : e \in Picked <=>
        e # 0 /\ \E c \in Cmd : task[c].pc \in {"skip_delete", "skip_write"} /\ task[c].entry = e
  /\ \A e : e \in Picked' <=>
        e # 0 /\ \E c \in Cmd : task'[c].pc \in {"skip_delete", "skip_write"} /\ task'[c].entry = e
  BY DEF Picked

LEMMA PickedLess ==
  ASSUME NEW c \in Cmd, \A d \in Cmd \ {c} : task'[d] = task[d],
         task'[c].pc \notin {"skip_delete", "skip_write"} \/ task'[c].entry = 0
  PROVE  /\ Picked' \subseteq Picked
         /\ task[c].pc \notin {"skip_delete", "skip_write"} \/ task[c].entry = 0
              => Picked' = Picked
<1>1. Picked' \subseteq Picked
  BY PickedMembers
<1>2. task[c].pc \notin {"skip_delete", "skip_write"} \/ task[c].entry = 0 => Picked \subseteq Picked'
  BY PickedMembers
<1> QED
  BY <1>1, <1>2

(* A command that leaves the rows alone, and holds no entry afterwards.    *)
LEMMA GivenUp ==
  ASSUME UNCHANGED <<queueVars, plays, removals>>, row'.track = row.track,
         Picked' \subseteq Picked
  PROVE  Playlist!GiveUp
  BY DEF Playlist!GiveUp, Played, Removed

LEMMA PlaylistSimulated == PlaylistInv /\ [Next]_vars => [Playlist!Next]_Playlist!vars
<1> SUFFICES ASSUME PlaylistInv, [Next]_vars PROVE Playlist!Next \/ UNCHANGED Playlist!vars
  OBVIOUS
<1> DEFINE Goal == Playlist!Next \/ UNCHANGED Playlist!vars
<1>0. /\ TrackReady /\ LocalsReady /\ HeldOnce /\ EntriesConserved /\ Made /\ PlaybackTypeOK
      /\ added \in Nat /\ queue \subseteq 1..added /\ pending \subseteq 1..added
      /\ queue \subseteq Entry /\ task \in [Cmd -> Task]
      /\ plays \in [Entry -> Nat] /\ removals \in [Entry -> Nat]
  <2>1. /\ TrackReady /\ LocalsReady /\ HeldOnce /\ EntriesConserved /\ Made /\ PlaybackTypeOK
    BY DEF PlaylistInv, QueueInv, TypeInv
  <2>2. queue \subseteq Entry /\ task \in [Cmd -> Task] /\ added \in Nat
    BY <2>1 DEF PlaybackTypeOK, Task, PC, Entry
  <2> QED
    BY <2>1, <2>2 DEF PlaybackTypeOK
<1>p. ASSUME NEW c \in Cmd, NEW pc, NEW e, NEW seen, NEW new, Put(c, pc, e, seen, new)
      PROVE  /\ task'[c].pc = pc /\ task'[c].entry = e
             /\ \A d \in Cmd \ {c} : task'[d] = task[d]
  BY <1>0, <1>p DEF Put
<1>q. ASSUME NEW c \in Cmd, NEW outcome \in Rest, Answer(c, outcome)
      PROVE  /\ task'[c].pc = outcome /\ task'[c].entry = 0
             /\ \A d \in Cmd \ {c} : task'[d] = task[d]
  BY <1>0, <1>q DEF Answer, Idle
(* A command that names a track, whatever it is. *)
<1>n. ASSUME UNCHANGED <<queueVars, plays, removals>>, row'.track \in Track, Picked' = Picked
      PROVE  Goal
  <2>1. PICK t \in Track : row'.track = t
    BY <1>n
  <2>2. Playlist!PlayNamed(t)
    BY <1>n, <2>1 DEF Playlist!PlayNamed, Played, Removed
  <2> QED
    BY <2>2 DEF Playlist!Next
<1>g. ASSUME UNCHANGED <<queueVars, plays, removals>>, row'.track = row.track, Picked' \subseteq Picked
      PROVE  Goal
  BY <1>g, GivenUp DEF Playlist!Next
<1>1. ASSUME NEW c \in Cmd, Write(c) PROVE Goal
  <2>1. /\ UNCHANGED <<queueVars, plays, removals>>
        /\ task[c].pc \in {"play", "pause", "seek"}
        /\ Answer(c, "done") \/ Answer(c, "failed")
    BY <1>1 DEF Write
  <2>2. Picked' = Picked
    BY <2>1, <1>q, PickedLess DEF Rest
  <2>3. CASE row' = row
    BY <1>g, <2>1, <2>2, <2>3
  <2>4. CASE row' # row
    <3>1. row' = [task[c].new EXCEPT !.track = IF At(c, "play") THEN @ ELSE row.track]
      BY <1>1, <2>4 DEF Write
    <3>2. task[c].new \in Row
      BY <1>0 DEF Task
    <3>3. row'.track = IF At(c, "play") THEN task[c].new.track ELSE row.track
      BY <3>1, <3>2 DEF Row
    <3>4. row'.track = row.track \/ row'.track \in Track
      BY <1>0, <3>3 DEF TrackReady
    <3> QED
      BY <1>n, <1>g, <2>1, <2>2, <3>4
  <2> QED
    BY <2>3, <2>4
<1>2. ASSUME NEW c \in Cmd, SkipWrite(c) PROVE Goal
  <2>e. PICK e \in 0..added : e = task[c].entry
    BY <1>0, <1>2 DEF SkipWrite, LocalsReady
  <2>1. /\ At(c, "skip_write") /\ row' = task[c].new /\ queue' = queue \ {e}
        /\ plays' = [f \in Entry |-> IF f = e THEN plays[f] + 1 ELSE plays[f]]
        /\ UNCHANGED <<entryOf, added, pending, removals>> /\ Answer(c, "done")
    BY <1>2, <2>e DEF SkipWrite
  <2>2. Picked' \subseteq Picked /\ (e = 0 => Picked' = Picked)
    BY <2>e, <2>1, <1>q, PickedLess DEF Rest
  <2>3. CASE e = 0
    <3>1. plays' = plays /\ queue' = queue
      BY <1>0, <2>1, <2>3 DEF Entry
    <3>2. row'.track \in Track
      BY <1>0, <2>1 DEF TrackReady
    <3> QED
      BY <1>n, <2>1, <2>2, <2>3, <3>1, <3>2
  <2>4. CASE e # 0
    <3>1. /\ row'.track = entryOf[e].track /\ e \in queue /\ e \in Entry
          /\ e \in Picked
      BY <1>0, <2>e, <2>1, <2>4, PickedMembers DEF TrackReady, HeldOnce
    <3>2. Played' = Played \cup {e} /\ Removed' = Removed
      BY <1>0, <2>1, <3>1 DEF Played, Removed
    <3>3. e \in 1..added \ pending
      BY <1>0, <3>1 DEF EntriesConserved
    <3>4. [f \in 1..added \ pending |-> entryOf[f]][e] = entryOf[e]
      BY <3>3
    <3>5. Playlist!PlayNext(e)
      BY <2>1, <2>2, <3>1, <3>2, <3>4 DEF Playlist!PlayNext
    <3> QED
      BY <3>1, <3>5 DEF Playlist!Next
  <2> QED
    BY <2>3, <2>4
<1>3. ASSUME NEW c \in Cmd, RemoveEntry(c) PROVE Goal
  <2>1. /\ UNCHANGED <<entryOf, added, pending, plays, row>> /\ At(c, "remove")
        /\ Answer(c, "done") \/ Answer(c, "failed")
    BY <1>3 DEF RemoveEntry
  <2>2. Picked' = Picked
    BY <2>1, <1>q, PickedLess DEF Rest
  <2>3. CASE task[c].entry \in queue
    <3>e. PICK e \in queue : e = task[c].entry
      BY <2>3
    <3>1. queue' = queue \ {e} /\ removals' = [removals EXCEPT ![e] = @ + 1]
      BY <1>3, <3>e DEF RemoveEntry, Deletable
    <3>2. Removed' = Removed \cup {e} /\ Played' = Played
      BY <1>0, <2>1, <3>1 DEF Removed, Played
    <3>3. Playlist!Remove(e)
      BY <2>1, <2>2, <3>1, <3>2 DEF Playlist!Remove
    <3> QED
      BY <1>0, <3>3 DEF Playlist!Next
  <2>4. CASE task[c].entry \notin queue
    <3>1. UNCHANGED <<queue, removals>>
      BY <1>3, <2>4 DEF RemoveEntry, Deletable
    <3> QED
      BY <1>g, <2>1, <2>2, <3>1
  <2> QED
    BY <2>3, <2>4
<1>4. ASSUME NEW c \in Cmd, SkipPick(c) PROVE Goal
  <2>1. PICK e \in NextEntry : Put(c, "skip_delete", e, NoRow, NoRow)
    BY <1>4 DEF SkipPick
  <2>2. /\ e \in queue /\ e \in Entry /\ \A f \in queue : entryOf[e].at <= entryOf[f].at
        /\ UNCHANGED <<queueVars, histVars, soundVars>> /\ task[c].pc \in Rest
    BY <1>0, <1>4, <2>1 DEF SkipPick, NextEntry
  <2>3. /\ task'[c].pc = "skip_delete" /\ task'[c].entry = e
        /\ \A d \in Cmd \ {c} : task'[d] = task[d]
    BY <1>p, <2>1
  <2>4. Picked' = Picked \cup {e}
    <3>1. e # 0 /\ task[c].pc \notin {"skip_delete", "skip_write"}
      BY <2>2 DEF Entry, Rest
    <3>2. \A f : f \in Picked' <=> f \in Picked \/ f = e
      BY <2>3, <3>1, PickedMembers
    <3> QED
      BY <3>2
  <2>5. \A f \in queue : f \in 1..added \ pending
    BY <1>0 DEF EntriesConserved
  <2>6. \A f \in queue : [g \in 1..added \ pending |-> entryOf[g]][f] = entryOf[f]
    BY <2>5
  <2>7. Playlist!Choose(e)
    BY <2>2, <2>4, <2>6 DEF Playlist!Choose, Played, Removed
  <2> QED
    BY <2>2, <2>7 DEF Playlist!Next
<1>5. ASSUME NEW c \in Cmd, SkipDelete(c) PROVE Goal
  <2>1. /\ UNCHANGED <<queueVars, histVars, soundVars>> /\ At(c, "skip_delete")
        /\ \/ Put(c, "skip_write", task[c].entry, NoRow, Playing(entryOf[task[c].entry].track, 0))
           \/ Answer(c, "failed")
    BY <1>5 DEF SkipDelete
  <2>2. CASE Answer(c, "failed")
    BY <1>g, <1>q, <2>1, <2>2, PickedLess DEF Rest
  <2>3. CASE Put(c, "skip_write", task[c].entry, NoRow, Playing(entryOf[task[c].entry].track, 0))
    <3>1. /\ task'[c].pc = "skip_write" /\ task'[c].entry = task[c].entry
          /\ \A d \in Cmd \ {c} : task'[d] = task[d]
      BY <1>p, <2>3
    <3>2. Picked' \subseteq Picked
      BY <2>1, <3>1, PickedMembers
    <3> QED
      BY <1>g, <2>1, <3>2
  <2> QED
    BY <2>1, <2>2, <2>3
<1>6. ASSUME NEW c \in Cmd,
             \/ \E t \in Track \cup {NoTrack}, p \in SeekTo \cup {Null} : PlayRead(c, t, p)
             \/ PauseRead(c) \/ (\E p \in SeekTo : SeekRead(c, p))
             \/ (\E t \in Track : SkipTo(c, t)) \/ (\E e \in Entry : RemoveRead(c, e))
             \/ CommandFails(c)
      PROVE  Goal
  <2>1. /\ UNCHANGED <<queueVars, histVars, soundVars>>
        /\ \/ \E pc \in {"play", "pause", "seek", "remove"} : \E e, seen, new : Put(c, pc, e, seen, new)
           \/ \E seen, new : Put(c, "skip_write", 0, seen, new)
           \/ Answer(c, "failed")
    BY <1>6 DEF PlayRead, PauseRead, SeekRead, SkipTo, RemoveRead, CommandFails
  <2>2. /\ \A d \in Cmd \ {c} : task'[d] = task[d]
        /\ task'[c].pc \notin {"skip_delete", "skip_write"} \/ task'[c].entry = 0
    BY <1>p, <1>q, <2>1 DEF Rest
  <2> QED
    BY <1>g, <2>1, <2>2, PickedLess
<1>7. ASSUME NEW t \in Track, Stamp(t) PROVE Goal
  <2>1. /\ added' = added + 1 /\ pending' = pending \cup {added + 1}
        /\ \A e \in 1..added : entryOf'[e] = entryOf[e]
        /\ UNCHANGED <<queue, plays, removals, row, task>>
    BY <1>0, <1>7 DEF Stamp, PlaybackTypeOK, Entry
  <2>2. 1..added' \ pending' = 1..added \ pending
    BY <1>0, <2>1
  <2>3. [e \in 1..added' \ pending' |-> entryOf'[e]] = [e \in 1..added \ pending |-> entryOf[e]]
    BY <2>1, <2>2
  <2> QED
    BY <2>1, <2>3 DEF Playlist!vars, Picked, Played, Removed
<1>8. ASSUME NEW e \in Entry, Commit(e) PROVE Goal
  <2> DEFINE known == [f \in 1..added \ pending |-> entryOf[f]]
  <2>1. /\ pending' = pending \ {e} /\ queue' = queue \cup {e} /\ e \in pending
        /\ UNCHANGED <<entryOf, added, plays, removals, row, task>>
    BY <1>8 DEF Commit
  <2>2. PICK r \in [at : 0..MaxTime, track : Track] : r = entryOf[e]
    BY <1>0, <2>1 DEF Made
  <2>3. DOMAIN known = 1..added \ pending /\ \A f \in 1..added \ pending : known[f] = entryOf[f]
    OBVIOUS
  <2>4. 1..added' \ pending' = DOMAIN known \cup {e} /\ e \notin DOMAIN known
    BY <1>0, <2>1, <2>3
  <2>5. [f \in 1..added' \ pending' |-> entryOf'[f]]
           = [f \in DOMAIN known \cup {e} |-> IF f = e THEN r ELSE known[f]]
    BY <2>1, <2>2, <2>3, <2>4
  <2>6. Playlist!Add(e, r)
    BY <2>1, <2>4, <2>5 DEF Playlist!Add, Picked, Played, Removed
  <2> QED
    BY <2>2, <2>6 DEF Playlist!Next
<1>9. CASE Tick \/ UNCHANGED vars
  <2>1. UNCHANGED <<queueVars, plays, removals, row, task>>
    BY <1>9 DEF Tick, vars
  <2> QED
    BY <2>1 DEF Playlist!vars, Picked, Played, Removed
<1> QED
  BY <1>1, <1>2, <1>3, <1>4, <1>5, <1>6, <1>7, <1>8, <1>9 DEF Next

(* ImplementsPlaylist: however the steps of skips, deleteEntrys, plays,    *)
(* pauses and seeks overlap, fail, or see entries come in another order    *)
(* than they were made, the queue and the track on are those of commands   *)
(* that take effect at once.                                               *)
THEOREM PlaylistKept == Spec => ImplementsPlaylist
  BY PlaylistInit, PlaylistStep, PlaylistSimulated, PTL
  DEF Spec, ImplementsPlaylist, Playlist!Spec

-----------------------------------------------------------------------------
(* A playing room's listeners are where the row and the clock put them. *)
HeardWhilePlaying == row.status = "PLAYING" => heard = row.position + Late(row)

(* What pause computed, from the row that it saw. *)
PauseReady ==
    \A c \in Cmd : At(c, "pause") =>
       /\ task[c].seen.status = "PLAYING" /\ task[c].new.status = "PAUSED"
       /\ task[c].new.position = task[c].seen.position + Elapsed(task[c].seen)

HeardInv == TypeInv /\ HeardWhilePlaying /\ PauseReady /\ PausedWhereHeardUnraced

LEMMA HeardInit == Init => HeardInv
<1> SUFFICES ASSUME Init PROVE HeardInv
  OBVIOUS
<1>1. row.status = "STOPPED" /\ \A c \in Cmd : task[c].pc = "done"
  BY DEF Init, Idle, NoRow
<1> QED
  BY <1>1, TypeInit
  DEF HeardInv, HeardWhilePlaying, PauseReady, PausedWhereHeardUnraced, PausedWhereHeard

LEMMA HeardStep == HeardInv /\ [Next]_vars => HeardInv'
<1> SUFFICES ASSUME HeardInv, [Next]_vars PROVE HeardInv'
  OBVIOUS
<1>a. /\ TypeInv' /\ task \in [Cmd -> Task] /\ row \in Row /\ now \in Nat /\ heard \in Nat
      /\ HeardWhilePlaying /\ PauseReady /\ PausedWhereHeardUnraced
      /\ (row.status = "PLAYING" => row.at \in Nat)
  BY TypeStep DEF HeardInv, TypeInv, PlaybackTypeOK, Task, PC, Row
(* A handler of another kind, or one that ends, leaves what was prepared.  *)
<1>b. ASSUME NEW c \in Cmd, \A d \in Cmd \ {c} : task'[d] = task[d],
             task'[c].pc # "pause", UNCHANGED now
      PROVE  PauseReady'
  BY <1>b, <1>a DEF PauseReady, Elapsed
<1>c. ASSUME PauseReady', UNCHANGED <<row, now, heard, raced>>
      PROVE  HeardInv'
  BY <1>a, <1>c DEF HeardInv, HeardWhilePlaying, Late, PausedWhereHeardUnraced, PausedWhereHeard
<1>d. ASSUME NEW c \in Cmd, NEW pc, NEW e, NEW seen, NEW new, Put(c, pc, e, seen, new)
      PROVE  /\ task'[c].pc = pc /\ task'[c].seen = seen /\ task'[c].new = new
             /\ \A d \in Cmd \ {c} : task'[d] = task[d]
  BY <1>d, <1>a DEF Put
<1>e. ASSUME NEW c \in Cmd, NEW outcome \in Rest, Answer(c, outcome)
      PROVE  task'[c].pc = outcome /\ \A d \in Cmd \ {c} : task'[d] = task[d]
  BY <1>e, <1>a DEF Answer, Idle
<1>1. ASSUME NEW c \in Cmd, NEW t \in Track \cup {NoTrack}, NEW p \in SeekTo \cup {Null}, PlayRead(c, t, p)
      PROVE  HeardInv'
  BY <1>1, <1>b, <1>c, <1>d DEF PlayRead
<1>2. ASSUME NEW c \in Cmd, PauseRead(c) PROVE HeardInv'
  <2> DEFINE new == Paused(row.track, row.position + Elapsed(row))
  <2>1. /\ task'[c].pc = "pause" /\ task'[c].seen = row /\ task'[c].new = new
        /\ \A d \in Cmd \ {c} : task'[d] = task[d]
        /\ row.status = "PLAYING" /\ UNCHANGED <<row, now, heard, raced>>
    BY <1>2, <1>d DEF PauseRead
  <2>2. new.status = "PAUSED" /\ new.position = row.position + Elapsed(row)
    BY DEF Paused
  <2> HIDE DEF new
  <2>3. PauseReady'
    BY <1>a, <2>1, <2>2 DEF PauseReady, Elapsed
  <2> QED
    BY <1>c, <2>1, <2>3
<1>3. ASSUME NEW c \in Cmd, NEW p \in SeekTo, SeekRead(c, p) PROVE HeardInv'
  BY <1>3, <1>b, <1>c, <1>d DEF SeekRead
<1>4. ASSUME NEW c \in Cmd, Write(c) PROVE HeardInv'
  <2> DEFINE new == [task[c].new EXCEPT !.track = IF At(c, "play") THEN @ ELSE row.track]
  <2>1. PICK outcome \in Rest : Answer(c, outcome)
    BY <1>4 DEF Write, Rest
  <2>2. PauseReady'
    BY <1>4, <1>b, <1>e, <2>1 DEF Write, Rest
  <2>3. CASE UNCHANGED <<row, heard, raced>>
    BY <1>4, <1>c, <2>2, <2>3 DEF Write
  <2>4. CASE /\ row' = new /\ UNCHANGED now
             /\ heard' = (IF At(c, "pause") THEN heard ELSE new.position + Late(new))
             /\ raced' = (At(c, "pause") /\ task[c].seen # row)
    <3>1. /\ new \in Row /\ new.position = task[c].new.position /\ new.status = task[c].new.status
      BY <1>a DEF Task, Row
    <3> HIDE DEF new
    <3>2. CASE ~At(c, "pause")
      <4>1. heard' = row'.position + Late(row)'
        BY <2>4, <3>2 DEF Late
      <4>2. row'.status # "PLAYING" => heard' = row'.position
        BY <2>4, <3>1, <4>1 DEF Late, Row
      <4> QED
        BY <1>a, <2>2, <4>1, <4>2
        DEF HeardInv, HeardWhilePlaying, PausedWhereHeardUnraced, PausedWhereHeard
    <3>3. CASE At(c, "pause")
      <4>1. row'.status = "PAUSED" /\ heard' = heard
        BY <1>a, <2>4, <3>1, <3>3 DEF PauseReady
      <4>2. task[c].seen = row => row'.position = heard
        BY <1>a, <2>4, <3>1, <3>3 DEF PauseReady, HeardWhilePlaying, Late, Elapsed
      <4>3. task[c].seen # row => raced'
        BY <2>4, <3>3
      <4> QED
        BY <1>a, <2>2, <4>1, <4>2, <4>3
        DEF HeardInv, HeardWhilePlaying, PausedWhereHeardUnraced, PausedWhereHeard
    <3> QED
      BY <3>2, <3>3
  <2> QED
    BY <1>4, <2>3, <2>4 DEF Write
<1>5. ASSUME NEW c \in Cmd, SkipPick(c) PROVE HeardInv'
  BY <1>5, <1>b, <1>c, <1>d DEF SkipPick
<1>6. ASSUME NEW c \in Cmd, SkipDelete(c) PROVE HeardInv'
  BY <1>6, <1>b, <1>c, <1>d, <1>e DEF SkipDelete, Rest
<1>7. ASSUME NEW c \in Cmd, NEW t \in Track, SkipTo(c, t) PROVE HeardInv'
  BY <1>7, <1>b, <1>c, <1>d DEF SkipTo
<1>8. ASSUME NEW c \in Cmd, SkipWrite(c) PROVE HeardInv'
  <2> DEFINE new == task[c].new
  <2>1. PauseReady'
    BY <1>8, <1>b, <1>e DEF SkipWrite, Rest
  <2>2. /\ row' = new /\ heard' = Late(new) /\ UNCHANGED now
        /\ new \in Row /\ new.position = 0
    BY <1>8, <1>a DEF SkipWrite, HeardInv, TypeInv, LocalsReady, Task
  <2> HIDE DEF new
  <2>3. heard' = row'.position + Late(row)' /\ (row'.status # "PLAYING" => heard' = row'.position)
    BY <1>a, <2>2 DEF Late, Row
  <2> QED
    BY <1>a, <2>1, <2>3
    DEF HeardInv, HeardWhilePlaying, PausedWhereHeardUnraced, PausedWhereHeard
<1>9. ASSUME NEW c \in Cmd, NEW e \in Entry, RemoveRead(c, e) PROVE HeardInv'
  BY <1>9, <1>b, <1>c, <1>d DEF RemoveRead
<1>10. ASSUME NEW c \in Cmd, RemoveEntry(c) PROVE HeardInv'
  BY <1>10, <1>b, <1>c, <1>e DEF RemoveEntry, Rest
<1>11. CASE Tick
  <2>1. /\ now' = now + 1 /\ UNCHANGED <<row, raced, task>> /\ \A c \in Cmd : ~At(c, "pause")
        /\ heard' = IF row.status = "PLAYING" /\ now >= row.at THEN heard + 1 ELSE heard
    BY <1>11 DEF Tick
  <2>2. PauseReady'
    BY <1>a, <2>1 DEF PauseReady
  <2>3. HeardWhilePlaying'
    BY <1>a, <2>1 DEF HeardWhilePlaying, Late, Row
  <2>4. PausedWhereHeardUnraced'
    BY <1>a, <2>1 DEF PausedWhereHeardUnraced, PausedWhereHeard
  <2> QED
    BY <1>a, <2>2, <2>3, <2>4 DEF HeardInv
<1>12. ASSUME NEW c \in Cmd, CommandFails(c) PROVE HeardInv'
  BY <1>12, <1>b, <1>c, <1>e DEF CommandFails, Rest
<1>13. CASE (\E t \in Track : Stamp(t)) \/ (\E e \in Entry : Commit(e)) \/ UNCHANGED vars
  <2>1. UNCHANGED <<row, now, heard, raced, task>>
    BY <1>13 DEF Stamp, Commit, vars
  <2> QED
    BY <1>a, <1>c, <2>1 DEF PauseReady, Elapsed
<1> QED
  BY <1>1, <1>2, <1>3, <1>4, <1>5, <1>6, <1>7, <1>8, <1>9, <1>10, <1>11, <1>12, <1>13 DEF Next

(* PausedWhereHeardUnraced: a pause that no other command overtook stops   *)
(* the room where its listeners are, whatever was played and sought before. *)
THEOREM PauseIsExact == Spec => []PausedWhereHeardUnraced
<1>1. HeardInv => PausedWhereHeardUnraced
  BY DEF HeardInv
<1> QED
  BY <1>1, HeardInit, HeardStep, PTL DEF Spec
=============================================================================

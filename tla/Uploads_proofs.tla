--------------------------- MODULE Uploads_proofs ---------------------------
(***************************************************************************)
(* The invariants of Uploads, for any users, keys and requests.            *)
(***************************************************************************)
EXTENDS Uploads, TLAPS

(* No more PUTs are under way than the bound leaves room for. *)
PutsBounded == \A k \in Key : object[k] + putting[k] <= MaxPuts

(* A request that goes on has a key of its user; once it has seen the file *)
(* with the upload URL expired and no PUT under way, no other file comes.  *)
RequestsSound ==
    \A q \in Request :
        LET k == completing[q].key
        IN /\ completing[q].pc # "idle" => uploader[k] \in User
           /\ completing[q].pc = "create" =>
                 /\ completing[q].file \in 1..object[k]
                 /\ completing[q].late => Settled(k) /\ completing[q].file = object[k]

(* A settled key is a track, and no file can be put under it. *)
SettledSound == \A k \in settled : Exists(k) /\ Settled(k)

(* A track's key was drawn by somebody. *)
UploadersKnown == \A k \in Key : Exists(k) => uploader[k] \in User

UploadInv ==
    /\ UploadTypeOK /\ PutsBounded /\ CompletedOnce /\ RecordedIsServed
    /\ RequestsSound /\ SettledSound /\ UploadersKnown

LEMMA CompletableType ==
    Completable \in [pc : {"idle", "head", "create"}, key : Key, file : 0..MaxPuts, late : BOOLEAN]
BY UploadAssumption DEF Completable

(* The invariant holds at the start. *)
LEMMA UploadInitInv == UploadInit => UploadInv
<1> SUFFICES ASSUME UploadInit PROVE UploadInv
    OBVIOUS
<1>1. \A k \in Key : ~Exists(k)
    BY DEF UploadInit, Exists
<1>2. UploadTypeOK
    BY CompletableType, UploadAssumption DEF UploadInit, UploadTypeOK, NoTrack
<1>3. RequestsSound
    BY DEF UploadInit, RequestsSound, Completable
<1>4. CompletedOnce /\ RecordedIsServed /\ SettledSound /\ UploadersKnown /\ PutsBounded
    BY <1>1, UploadAssumption DEF UploadInit, PutsBounded, CompletedOnce, RecordedIsServed, SettledSound, UploadersKnown
<1> QED BY <1>2, <1>3, <1>4 DEF UploadInv

(* A row is not the absence of one. *)
LEMMA RowExists ==
    ASSUME NEW u \in User, NEW n \in Nat PROVE [owner |-> u, file |-> n] # NoTrack
BY UploadAssumption DEF NoTrack

LEMMA InitUploadInv ==
    ASSUME UploadInv, NEW u \in User, NEW k \in Key, InitUpload(u, k) PROVE UploadInv'
<1> USE DEF UploadInv
<1>0. ~Exists(k) /\ k \notin settled /\ uploader[k] \notin User
    BY UploadAssumption DEF InitUpload, UploadersKnown, SettledSound
<1>1. /\ \A j \in Key \ {k} : uploader'[j] = uploader[j] /\ uploadLeft'[j] = uploadLeft[j]
      /\ uploader'[k] = u /\ settled \subseteq Key
      /\ UNCHANGED <<putting, object, track, completing, completed, settled>>
    BY DEF InitUpload, UploadTypeOK
<1>2. UploadTypeOK'
    BY UploadAssumption DEF InitUpload, UploadTypeOK
<1>3. RequestsSound'
    BY <1>0, <1>1 DEF RequestsSound, UploadTypeOK, Settled
<1>4. CompletedOnce' /\ RecordedIsServed' /\ PutsBounded'
    BY DEF InitUpload, PutsBounded, CompletedOnce, RecordedIsServed, Exists
<1>5. SettledSound' /\ UploadersKnown'
    BY <1>0, <1>1 DEF SettledSound, UploadersKnown, Exists, Settled
<1> QED BY <1>2, <1>3, <1>4, <1>5

(* A PUT that begins, lands or breaks off is one of a key that is not      *)
(* settled.                                                                *)
LEMMA PutInv ==
    ASSUME UploadInv, NEW k \in Key, PutStart(k) \/ PutLand(k) \/ PutAborted(k) PROVE UploadInv'
<1> USE DEF UploadInv
<1>0. /\ putting \in [Key -> 0..MaxPuts] /\ object \in [Key -> 0..MaxPuts] /\ MaxPuts \in Nat
      /\ uploadLeft \in [Key -> 0..UploadValidity]
    BY UploadAssumption DEF UploadTypeOK
<1>1. /\ ~Settled(k) /\ k \notin settled
      /\ UNCHANGED <<uploader, uploadLeft, track, completing, completed, settled>>
      /\ \A j \in Key \ {k} : putting'[j] = putting[j] /\ object'[j] = object[j]
    BY <1>0 DEF PutStart, PutLand, PutAborted, Accepts, Settled, SettledSound
<1>2. /\ putting' \in [Key -> 0..MaxPuts] /\ object' \in [Key -> 0..MaxPuts]
      /\ object'[k] >= object[k] /\ object'[k] + putting'[k] <= MaxPuts
    <2>1. object[k] + putting[k] <= MaxPuts
        BY DEF PutsBounded
    <2>2. CASE PutStart(k)
        BY <1>0, <2>1, <2>2 DEF PutStart
    <2>3. CASE PutLand(k)
        BY <1>0, <2>1, <2>3 DEF PutLand
    <2>4. CASE PutAborted(k)
        BY <1>0, <2>1, <2>4 DEF PutAborted
    <2> QED BY <2>2, <2>3, <2>4
<1>3. UploadTypeOK'
    BY <1>1, <1>2 DEF UploadTypeOK
<1>4. PutsBounded'
    BY <1>1, <1>2 DEF PutsBounded
<1>5. RequestsSound'
    BY <1>0, <1>1, <1>2 DEF RequestsSound, UploadTypeOK, Settled
<1>6. RecordedIsServed'
    BY <1>0, <1>1, <1>2 DEF RecordedIsServed, Exists, UploadTypeOK
<1>7. CompletedOnce' /\ SettledSound' /\ UploadersKnown'
    BY <1>1 DEF CompletedOnce, SettledSound, UploadersKnown, Exists, Settled, UploadTypeOK
<1> QED BY <1>3, <1>4, <1>5, <1>6, <1>7

(* A step of a request that leaves the rows and the files alone. *)
LEMMA RequestInv ==
    ASSUME UploadInv,
           completing' \in [Request -> [pc : {"idle", "head", "create"}, key : Key,
                                        file : 0..MaxPuts, late : BOOLEAN]],
           RequestsSound',
           UNCHANGED <<uploader, uploadLeft, putting, object, track, completed, settled>>
    PROVE  UploadInv'
BY DEF UploadInv, UploadTypeOK, PutsBounded, CompletedOnce, RecordedIsServed, SettledSound,
       UploadersKnown, Exists, Settled

LEMMA EndCompleteSound ==
    ASSUME UploadInv, NEW q \in Request, EndComplete(q),
           UNCHANGED <<uploader, uploadLeft, putting, object>>
    PROVE  /\ completing' \in [Request -> [pc : {"idle", "head", "create"}, key : Key,
                                           file : 0..MaxPuts, late : BOOLEAN]]
           /\ RequestsSound'
<1>1. completing' \in [Request -> [pc : {"idle", "head", "create"}, key : Key,
                                   file : 0..MaxPuts, late : BOOLEAN]]
    BY CompletableType DEF UploadInv, UploadTypeOK, EndComplete
<1>2. RequestsSound'
    BY DEF UploadInv, UploadTypeOK, RequestsSound, Settled, EndComplete, Completable
<1> QED BY <1>1, <1>2

LEMMA CompleteCheckInv ==
    ASSUME UploadInv, NEW q \in Request, NEW u \in User, NEW k \in Key, CompleteCheck(q, u, k)
    PROVE  UploadInv'
<1>1. completing' \in [Request -> [pc : {"idle", "head", "create"}, key : Key,
                                   file : 0..MaxPuts, late : BOOLEAN]]
    BY CompletableType DEF UploadInv, UploadTypeOK, CompleteCheck
<1>2. RequestsSound'
    BY DEF UploadInv, UploadTypeOK, RequestsSound, Settled, CompleteCheck, Completable
<1> QED BY <1>1, <1>2, RequestInv DEF CompleteCheck

LEMMA CompleteHeadInv ==
    ASSUME UploadInv, NEW q \in Request, CompleteHead(q) PROVE UploadInv'
<1> DEFINE k == completing[q].key
<1>1. CASE Found(k)
    <2>1. completing' = [completing EXCEPT
              ![q] = [@ EXCEPT !.pc = "create", !.file = object[k], !.late = Settled(k)]]
        BY <1>1 DEF CompleteHead
    <2>2. k \in Key /\ object[k] \in 1..object[k] /\ object[k] \in 0..MaxPuts
        BY <1>1, UploadAssumption DEF Found, UploadInv, UploadTypeOK
    <2>3. completing' \in [Request -> [pc : {"idle", "head", "create"}, key : Key,
                                       file : 0..MaxPuts, late : BOOLEAN]]
        <3>1. completing[q] \in [pc : {"idle", "head", "create"}, key : Key,
                                 file : 0..MaxPuts, late : BOOLEAN]
            BY DEF UploadInv, UploadTypeOK
        <3>2. [completing[q] EXCEPT !.pc = "create", !.file = object[k], !.late = Settled(k)]
                 \in [pc : {"idle", "head", "create"}, key : Key, file : 0..MaxPuts, late : BOOLEAN]
            BY <2>2, <3>1 DEF Settled
        <3> QED BY <2>1, <3>2 DEF UploadInv, UploadTypeOK
    <2>4. RequestsSound'
        BY <2>1, <2>2 DEF UploadInv, UploadTypeOK, RequestsSound, Settled, CompleteHead
    <2> QED BY <2>3, <2>4, RequestInv DEF CompleteHead
<1>2. CASE ~Found(k)
    BY <1>2, EndCompleteSound, RequestInv DEF CompleteHead
<1> QED BY <1>1, <1>2

LEMMA CompleteCreateInv ==
    ASSUME UploadInv, NEW q \in Request, CompleteCreate(q) PROVE UploadInv'
<1> DEFINE k == completing[q].key
           row == [owner |-> uploader[k], file |-> completing[q].file]
<1>1. CASE Unique(k)
    <2>1. /\ k \in Key /\ uploader[k] \in User
          /\ completing[q].file \in 1..object[k] /\ object[k] \in 0..MaxPuts
          /\ completing[q].late => Settled(k) /\ completing[q].file = object[k]
        BY DEF CompleteCreate, UploadInv, UploadTypeOK, RequestsSound
    <2>2. /\ track' = [track EXCEPT ![k] = row]
          /\ completed' = [completed EXCEPT ![k] = @ + 1]
          /\ settled' = IF completing[q].late THEN settled \cup {k} ELSE settled
          /\ UNCHANGED <<uploader, uploadLeft, putting, object>>
        BY <1>1 DEF CompleteCreate
    <2>3. row # NoTrack /\ row \in [owner : User, file : 1..MaxPuts]
        BY <2>1, RowExists, UploadAssumption
    <2>4. ~Exists(k) /\ k \notin settled
        BY <1>1 DEF Unique, UploadInv, SettledSound
    <2>5. track'[k] = row /\ \A j \in Key \ {k} : track'[j] = track[j]
        BY <2>1, <2>2 DEF UploadInv, UploadTypeOK
    <2>6. UploadTypeOK'
        BY <2>1, <2>2, <2>3, EndCompleteSound DEF CompleteCreate, UploadInv, UploadTypeOK
    <2>7. CompletedOnce'
        BY <2>1, <2>2, <2>3, <2>4, <2>5 DEF UploadInv, UploadTypeOK, CompletedOnce, Exists
    <2>8. RecordedIsServed'
        BY <2>1, <2>2, <2>3, <2>4, <2>5 DEF UploadInv, UploadTypeOK, RecordedIsServed, Exists
    <2>9. RequestsSound'
        BY EndCompleteSound DEF CompleteCreate
    <2>10. SettledSound' /\ UploadersKnown' /\ PutsBounded'
        BY <2>1, <2>2, <2>3, <2>5
        DEF UploadInv, UploadTypeOK, SettledSound, UploadersKnown, PutsBounded, Exists, Settled
    <2> QED BY <2>6, <2>7, <2>8, <2>9, <2>10 DEF UploadInv
<1>2. CASE ~Unique(k)
    BY <1>2, EndCompleteSound, RequestInv DEF CompleteCreate
<1> QED BY <1>1, <1>2

LEMMA UploadTickInv ==
    ASSUME UploadInv, UploadTick PROVE UploadInv'
<1> USE DEF UploadInv
<1>1. \A k \in Key : uploadLeft'[k] \in 0..UploadValidity /\ (uploadLeft[k] = 0 => uploadLeft'[k] = 0)
    <2> TAKE k \in Key
    <2>1. uploadLeft[k] \in 0..UploadValidity
        BY DEF UploadTypeOK
    <2>2. uploadLeft'[k] = IF uploadLeft[k] = 0 THEN 0 ELSE uploadLeft[k] - 1
        BY DEF UploadTick, Less
    <2> QED BY <2>1, <2>2, UploadAssumption
<1>2. UploadTypeOK'
    BY <1>1 DEF UploadTick, UploadTypeOK
<1>3. RequestsSound'
    BY <1>1 DEF UploadTick, RequestsSound, Settled, UploadTypeOK
<1>4. CompletedOnce' /\ RecordedIsServed' /\ SettledSound' /\ UploadersKnown' /\ PutsBounded'
    BY <1>1 DEF UploadTick, CompletedOnce, RecordedIsServed, SettledSound, UploadersKnown,
                PutsBounded, Exists, Settled, UploadTypeOK
<1> QED BY <1>2, <1>3, <1>4

(* Every step keeps the invariant. *)
LEMMA UploadNextInv ==
    UploadInv /\ [UploadStep \/ UploadTick]_uploadVars => UploadInv'
<1> SUFFICES ASSUME UploadInv, [UploadStep \/ UploadTick]_uploadVars PROVE UploadInv'
    OBVIOUS
<1>1. CASE UploadStep
    <2>1. ASSUME NEW u \in User, NEW k \in Key, InitUpload(u, k) PROVE UploadInv'
        BY <2>1, InitUploadInv
    <2>2. ASSUME NEW k \in Key, PutStart(k) \/ PutLand(k) \/ PutAborted(k)
          PROVE  UploadInv'
        BY <2>2, PutInv
    <2>3. ASSUME NEW q \in Request, NEW u \in User, NEW k \in Key, CompleteCheck(q, u, k)
          PROVE  UploadInv'
        BY <2>3, CompleteCheckInv
    <2>4. ASSUME NEW q \in Request, CompleteHead(q) \/ CompleteCreate(q) PROVE UploadInv'
        BY <2>4, CompleteHeadInv, CompleteCreateInv
    <2>5. ASSUME NEW q \in Request, CompleteFails(q) PROVE UploadInv'
        BY <2>5, EndCompleteSound, RequestInv DEF CompleteFails
    <2> QED BY <1>1, <2>1, <2>2, <2>3, <2>4, <2>5 DEF UploadStep
<1>2. CASE UploadTick
    BY <1>2, UploadTickInv
<1>3. CASE UNCHANGED uploadVars
    BY <1>3 DEF uploadVars, UploadInv, UploadTypeOK, PutsBounded, Settled, CompletedOnce, RecordedIsServed,
                RequestsSound, SettledSound, UploadersKnown, Exists
<1> QED BY <1>1, <1>2, <1>3

LEMMA UploadInvariant == UploadSpec => []UploadInv
<1>1. QED BY UploadInitInv, UploadNextInv, PTL DEF UploadSpec

(* Types, for completeUpload of any number of keys and requests. *)
THEOREM UploadTypeCorrect == UploadSpec => []UploadTypeOK
<1>1. UploadInv => UploadTypeOK
    BY DEF UploadInv
<1> QED BY <1>1, UploadInvariant, PTL

(* One upload, one track, created once. *)
THEOREM OneTrackPerUpload == UploadSpec => []CompletedOnce
<1>1. UploadInv => CompletedOnce
    BY DEF UploadInv
<1> QED BY <1>1, UploadInvariant, PTL

(* What the row says of the file is true of a file that was put, and of    *)
(* the one that is served when headObject came after the URL's expiry and  *)
(* the end of the PUTs that had begun before.                              *)
THEOREM RowsDescribeFiles == UploadSpec => []RecordedIsServed
<1>1. UploadInv => RecordedIsServed
    BY DEF UploadInv
<1> QED BY <1>1, UploadInvariant, PTL
=============================================================================

------------------------------ MODULE Uploads ------------------------------
(***************************************************************************)
(* Tracks on their way into the system.  initUpload draws a key and signs  *)
(* an upload URL; the client puts the file into the object storage, past   *)
(* the server, and may begin to put another one as long as the URL is      *)
(* valid, which the storage checks when the PUT begins; completeUpload     *)
(* looks for a track with the key, asks the storage for the object, and    *)
(* creates the row, in three awaited steps.  A file is abstracted to how   *)
(* many were put before it.                                                *)
(***************************************************************************)
EXTENDS Naturals

CONSTANTS
    User,           \* accounts
    NoUser,         \* a model value outside User
    Key,            \* storage keys, drawn by randomUUID; a track's id stands for its key
    Request,        \* slots for completeUpload requests
    UploadValidity, \* expiresIn of the upload URL, in ticks
    MaxPuts         \* bound on the files put under one key

ASSUME UploadAssumption ==
    NoUser \notin User /\ Key # {} /\ UploadValidity \in Nat /\ MaxPuts \in Nat

VARIABLES
    uploader,   \* per key: the user in its prefix
    uploadLeft, \* per key: how long its upload URL still is valid
    putting,    \* per key: how many PUTs are under way
    object,     \* per key: the file in the storage, 0 for none
    track,      \* per key: the row, its owner and the file it describes
    completing, \* per request: where it is, its key, the file headObject saw
    completed,  \* history: completions per key that created a track
    settled     \* history: keys completed once the URL had expired and no PUT was under way

uploadVars == <<uploader, uploadLeft, putting, object, track, completing, completed, settled>>

NoTrack == [owner |-> NoUser, file |-> 0]
Completable == [pc |-> "idle", key |-> CHOOSE k \in Key : TRUE, file |-> 0, late |-> FALSE]
Exists(k) == track[k] # NoTrack

UploadInit ==
    /\ uploader = [k \in Key |-> NoUser]
    /\ uploadLeft = [k \in Key |-> 0]
    /\ putting = [k \in Key |-> 0]
    /\ object = [k \in Key |-> 0]
    /\ track = [k \in Key |-> NoTrack]
    /\ completing = [q \in Request |-> Completable]
    /\ completed = [k \in Key |-> 0]
    /\ settled = {}

-----------------------------------------------------------------------------
InitUpload(u, k) ==
    /\ uploader[k] = NoUser
    /\ uploader' = [uploader EXCEPT ![k] = u]
    /\ uploadLeft' = [uploadLeft EXCEPT ![k] = UploadValidity]
    /\ UNCHANGED <<putting, object, track, completing, completed, settled>>

(* Mutant: the URL never expires. *)
AcceptsForever(k) == uploader[k] # NoUser
Accepts(k) == uploadLeft[k] > 0

(* The client's PUT, the first or a later one: the storage checks the URL, *)
PutStart(k) ==
    /\ Accepts(k) /\ object[k] + putting[k] < MaxPuts
    /\ putting' = [putting EXCEPT ![k] = @ + 1]
    /\ UNCHANGED <<uploader, uploadLeft, object, track, completing, completed, settled>>

(* and stores the file when all of it has come, or *)
PutLand(k) ==
    /\ putting[k] > 0
    /\ putting' = [putting EXCEPT ![k] = @ - 1]
    /\ object' = [object EXCEPT ![k] = @ + 1]
    /\ UNCHANGED <<uploader, uploadLeft, track, completing, completed, settled>>

(* nothing, if it breaks off. *)
PutAborted(k) ==
    /\ putting[k] > 0
    /\ putting' = [putting EXCEPT ![k] = @ - 1]
    /\ UNCHANGED <<uploader, uploadLeft, object, track, completing, completed, settled>>

(* From now on the file of the key is what it is. *)
Settled(k) == uploadLeft[k] = 0 /\ putting[k] = 0

(* A request ends; the answer may be 400, 403, 404 or 500. *)
EndComplete(q) == completing' = [completing EXCEPT ![q] = Completable]

(* The prefix of the key, and findUnique: 403 and 400 leave no trace.      *)
CompleteCheck(q, u, k) ==
    /\ completing[q].pc = "idle"
    /\ uploader[k] = u /\ ~Exists(k)
    /\ completing' = [completing EXCEPT ![q] = [Completable EXCEPT !.pc = "head", !.key = k]]
    /\ UNCHANGED <<uploader, uploadLeft, putting, object, track, completed, settled>>

(* Mutant: does not ask whether there is an object. *)
FoundAnyway(k) == TRUE
Found(k) == object[k] # 0

(* headObject; 400 when the file is not there. *)
CompleteHead(q) ==
    LET k == completing[q].key
    IN /\ completing[q].pc = "head"
       /\ IF Found(k)
          THEN completing' = [completing EXCEPT
                 ![q] = [@ EXCEPT !.pc = "create", !.file = object[k], !.late = Settled(k)]]
          ELSE EndComplete(q)
       /\ UNCHANGED <<uploader, uploadLeft, putting, object, track, completed, settled>>

(* Mutant: trusts the findUnique of CompleteCheck; no unique storage_key. *)
UniqueAnyway(k) == TRUE
Unique(k) == ~Exists(k)

(* track.create; 500 when storage_key is taken meanwhile. *)
CompleteCreate(q) ==
    LET k == completing[q].key
    IN /\ completing[q].pc = "create"
       /\ EndComplete(q)
       /\ IF Unique(k)
          THEN /\ track' = [track EXCEPT ![k] = [owner |-> uploader[k], file |-> completing[q].file]]
               /\ completed' = [completed EXCEPT ![k] = @ + 1]
               /\ settled' = IF completing[q].late THEN settled \cup {k} ELSE settled
          ELSE UNCHANGED <<track, completed, settled>>
       /\ UNCHANGED <<uploader, uploadLeft, putting, object>>

(* The storage or the database is away: 500, and the client may try again. *)
CompleteFails(q) ==
    /\ completing[q].pc # "idle"
    /\ EndComplete(q)
    /\ UNCHANGED <<uploader, uploadLeft, putting, object, track, completed, settled>>

UploadStep ==
    \/ \E u \in User, k \in Key : InitUpload(u, k)
    \/ \E k \in Key : PutStart(k) \/ PutLand(k) \/ PutAborted(k)
    \/ \E q \in Request :
          \/ \E u \in User, k \in Key : CompleteCheck(q, u, k)
          \/ CompleteHead(q) \/ CompleteCreate(q) \/ CompleteFails(q)

Less(n) == IF n = 0 THEN 0 ELSE n - 1

UploadTick ==
    /\ uploadLeft' = [k \in Key |-> Less(uploadLeft[k])]
    /\ UNCHANGED <<uploader, putting, object, track, completing, completed, settled>>

UploadSpec == UploadInit /\ [][UploadStep \/ UploadTick]_uploadVars

-----------------------------------------------------------------------------
(* Every variable keeps its type; in particular no row describes a file    *)
(* that was never put.                                                     *)
UploadTypeOK ==
    /\ uploader \in [Key -> User \cup {NoUser}]
    /\ uploadLeft \in [Key -> 0..UploadValidity]
    /\ putting \in [Key -> 0..MaxPuts] /\ object \in [Key -> 0..MaxPuts]
    /\ track \in [Key -> [owner : User, file : 1..MaxPuts] \cup {NoTrack}]
    /\ completing \in [Request -> [pc : {"idle", "head", "create"}, key : Key,
                                   file : 0..MaxPuts, late : BOOLEAN]]
    /\ completed \in [Key -> Nat]
    /\ settled \subseteq Key

(* However many completions of one upload overlap or are tried again, at   *)
(* most one creates a track, and the track is there once one has.          *)
CompletedOnce == \A k \in Key : completed[k] = IF Exists(k) THEN 1 ELSE 0

(* The size and type in the row are those of a file that was put; and when *)
(* headObject saw it after the upload URL had expired, with no PUT of      *)
(* before still under way, they are those of the file that is served from  *)
(* then on, whatever clients try.                                          *)
RecordedIsServed ==
    \A k \in Key : Exists(k) =>
        /\ track[k].file \in 1..object[k]
        /\ k \in settled => track[k].file = object[k]
=============================================================================

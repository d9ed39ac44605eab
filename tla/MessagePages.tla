---------------------------- MODULE MessagePages ----------------------------
(***************************************************************************)
(* A member reads the messages of a room page by page, newest first, and   *)
(* goes on as long as hasNextPage says so.  getRoomMessages checks the     *)
(* room and the membership, and runs findMany and count as two statements, *)
(* each of which sees what was committed before it; the pages are offsets, *)
(* so a message that comes in meanwhile shifts all that are older.         *)
(***************************************************************************)
EXTENDS Naturals, FiniteSets

CONSTANTS
    Message,
    Limit,   \* messages per page
    MaxTime  \* bound of the clock

ASSUME PagesAssumption ==
    IsFiniteSet(Message) /\ Message # {} /\ Limit \in Nat \ {0} /\ MaxTime \in Nat

VARIABLES
    now,     \* the clock that stamps createdAt
    sentAt,  \* per message: createdAt
    pending, \* messages that are stamped and not yet committed
    visible, \* rows of messages
    live,    \* whether the rooms row exists
    member,  \* whether the reader is an active member
    pc, page, \* where the reader is, and the number of its page
    shown,   \* the messages on the pages so far
    again,   \* the messages on more than one of them
    first    \* the messages there were when the first page was read

roomVars == <<now, sentAt, pending, visible, live, member>>
readerVars == <<pc, page, shown, again, first>>
vars == <<roomVars, readerVars>>

Init ==
    /\ now = 0
    /\ sentAt = [m \in Message |-> 0]
    /\ pending = {} /\ visible = {}
    /\ live = TRUE /\ member = TRUE
    /\ pc = "idle" /\ page = 1
    /\ shown = {} /\ again = {} /\ first = {}

-----------------------------------------------------------------------------
(* createMessage: createdAt is set before the row can be seen. *)
Stamp(m) ==
    /\ m \notin pending \cup visible
    /\ pending' = pending \cup {m}
    /\ sentAt' = [sentAt EXCEPT ![m] = now]
    /\ UNCHANGED <<now, visible, live, member, readerVars>>

Commit(m) ==
    /\ m \in pending /\ live
    /\ pending' = pending \ {m}
    /\ visible' = visible \cup {m}
    /\ UNCHANGED <<now, sentAt, live, member, readerVars>>

DeleteRoom ==
    /\ live
    /\ live' = FALSE /\ visible' = {}
    /\ UNCHANGED <<now, sentAt, pending, member, readerVars>>

JoinOrLeave ==
    /\ member' = ~member
    /\ UNCHANGED <<now, sentAt, pending, visible, live, readerVars>>

Tick ==
    /\ now < MaxTime
    /\ now' = now + 1
    /\ UNCHANGED <<sentAt, pending, visible, live, member, readerVars>>

-----------------------------------------------------------------------------
(* Mutant: pages count from zero. *)
SkipFromZero(p) == p * Limit
Skip(p) == (p - 1) * Limit

(* Mutant: takes one more, to see whether there is a next page. *)
TakeOneMore == Limit + 1
Take == Limit

(* Mutant: a full last page promises another. *)
HasNextOrFull(p, total) == p * Limit <= total
HasNext(p, total) == p * Limit < total

Least(a, b) == IF a < b THEN a ELSE b

(* B before P, P before the rest: the order among equal createdAt is open. *)
Ordered(B, P) ==
    /\ \A m \in B, n \in visible \ B : sentAt[n] <= sentAt[m]
    /\ \A m \in P, n \in visible \ (B \cup P) : sentAt[n] <= sentAt[m]

(* What findMany may return. *)
IsPage(P, skip) ==
    \E B \in SUBSET visible :
        /\ Cardinality(B) = Least(skip, Cardinality(visible))
        /\ P \subseteq visible \ B
        /\ Cardinality(P) = Least(Take, Cardinality(visible) - Cardinality(B))
        /\ Ordered(B, P)

(* findRoomOrThrow and checkMembership; the reader stops at a 404 or 403. *)
Ask ==
    /\ pc = "idle"
    /\ pc' = IF live /\ member THEN "items" ELSE "stopped"
    /\ UNCHANGED <<roomVars, page, shown, again, first>>

(* message.findMany *)
Items ==
    /\ pc = "items"
    /\ \E P \in SUBSET visible :
          /\ IsPage(P, Skip(page))
          /\ shown' = shown \cup P
          /\ again' = again \cup (P \cap shown)
    /\ first' = IF page = 1 THEN visible ELSE first
    /\ pc' = "count"
    /\ UNCHANGED <<roomVars, page>>

(* message.count, and the answer *)
Count ==
    /\ pc = "count"
    /\ IF HasNext(page, Cardinality(visible))
       THEN pc' = "idle" /\ page' = page + 1
       ELSE pc' = "done" /\ UNCHANGED page
    /\ UNCHANGED <<roomVars, shown, again, first>>

Next ==
    \/ \E m \in Message : Stamp(m) \/ Commit(m)
    \/ DeleteRoom \/ JoinOrLeave \/ Tick
    \/ Ask \/ Items \/ Count

Spec == Init /\ [][Next]_vars

-----------------------------------------------------------------------------
(* Every variable keeps its type; no reader is sent past the last message. *)
TypeOK ==
    /\ now \in 0..MaxTime /\ sentAt \in [Message -> 0..MaxTime]
    /\ pending \subseteq Message /\ visible \subseteq Message
    /\ live \in BOOLEAN /\ member \in BOOLEAN
    /\ pc \in {"idle", "items", "count", "done", "stopped"}
    /\ page \in 1..Cardinality(Message)
    /\ shown \subseteq Message /\ again \subseteq shown /\ first \subseteq Message

Untied(m) == \A n \in visible \ {m} : sentAt[n] # sentAt[m]

(* A reader who went on until hasNextPage was false has been shown every   *)
(* message there was when it began, whatever came in between; the order of *)
(* messages of the same millisecond is the database's, which may change it *)
(* from page to page.                                                      *)
NothingMissed ==
    pc = "done" => \A m \in first \cap visible : Untied(m) => m \in shown

(* A message is shown twice only because others came in, at most one for   *)
(* each of them.                                                           *)
RepeatsExplained ==
    live /\ (\A m \in visible : Untied(m))
        => Cardinality(again) <= Cardinality(visible \ first)

(* The page that hasNextPage promises is not empty.                        *)
PromisesKept ==
    pc = "items" /\ live /\ page > 1 => Cardinality(visible) > Skip(page)
=============================================================================

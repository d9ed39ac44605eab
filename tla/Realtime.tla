------------------------------ MODULE Realtime ------------------------------
(***************************************************************************)
(* The socket.io channel of one room: RealtimeGateway                      *)
(* (src/realtime/realtime.gateway.ts), and what each socket is sent while  *)
(* others connect, join, post, command the playback, leave and disconnect. *)
(* A handler's step ends at its next await; an emit reaches every socket   *)
(* in the channel at that moment.                                          *)
(*                                                                         *)
(* A message that its first check refuses changes nothing and is not       *)
(* modelled, nor is memberStatus, a relay that leaves no trace.  Each      *)
(* command has passed assertHost; a commit of the playback row is known by *)
(* its number.                                                             *)
(***************************************************************************)
EXTENDS Naturals

CONSTANTS
    User,         \* accounts
    NoUser,       \* client.data.userId before the token is verified
    Socket,       \* connections; each is used once
    Handler,      \* slots: how many handlers may be in progress
    MaxWrites     \* bound on chat messages and playback commits together

ASSUME RealtimeAssumption ==
    NoUser \notin User /\ MaxWrites \in Nat

VARIABLES
    member,    \* users whose room_members row is active
    socket,    \* per socket: state of the connection
    user,      \* per socket: client.data.userId
    channel,   \* the sockets in the room's channel
    messages,  \* how many messages are inserted
    commits,   \* how many playback commands are committed
    handler,   \* per slot: where it is, its socket, the row it inserted
    heard,     \* per socket: what it was sent
    from,      \* history: messages and commits there were when it entered
    admitted,  \* history: users who have been active members
    before,    \* history: per socket, who was in the channel when it entered
    left,      \* history: per closed socket, who was in the channel with it
    alone,     \* history: no other broadcast was due at the last commit
    silent     \* history: the last commit came over HTTP

connVars == <<socket, user, channel, before, left>>
dataVars == <<messages, commits, alone, silent>>
vars == <<member, admitted, connVars, dataVars, handler, heard, from>>

Silence == [joined |-> {}, left |-> {}, messages |-> [m \in 1..MaxWrites |-> 0], state |-> 0]
Beginning == [messages |-> 0, commits |-> 0]
Idle == [pc |-> "idle", by |-> NoUser, on |-> {}, row |-> 0]

Connected(s) == socket[s] \in {"verifying", "open"}

At(h, pc) == handler[h].pc = pc
Put(h, pc, u, on, row) == handler' = [handler EXCEPT ![h] = [pc |-> pc, by |-> u, on |-> on, row |-> row]]
Finish(h) == handler' = [handler EXCEPT ![h] = Idle]

Init ==
    /\ member = {} /\ admitted = {}
    /\ socket = [s \in Socket |-> "new"]
    /\ user = [s \in Socket |-> NoUser]
    /\ channel = {}
    /\ before = [s \in Socket |-> {}]
    /\ left = [s \in Socket |-> {}]
    /\ messages = 0 /\ commits = 0 /\ alone = TRUE /\ silent = FALSE
    /\ handler = [h \in Handler |-> Idle]
    /\ heard = [s \in Socket |-> Silence]
    /\ from = [s \in Socket |-> Beginning]

-----------------------------------------------------------------------------
(* RoomsService.joinRoom and leaveRoom, over HTTP. *)
MemberJoins(u) ==
    /\ u \notin member
    /\ member' = member \cup {u} /\ admitted' = admitted \cup {u}
    /\ UNCHANGED <<connVars, dataVars, handler, heard, from>>

MemberLeaves(u) ==
    /\ u \in member
    /\ member' = member \ {u}
    /\ UNCHANGED <<admitted, connVars, dataVars, handler, heard, from>>

-----------------------------------------------------------------------------
(* handleConnection: messages are dispatched while verifyAsync runs. *)
Connect(s) ==
    /\ socket[s] = "new"
    /\ socket' = [socket EXCEPT ![s] = "verifying"]
    /\ UNCHANGED <<member, admitted, user, channel, before, left, dataVars, handler, heard, from>>

Verified(s, u) ==
    /\ socket[s] = "verifying"
    /\ socket' = [socket EXCEPT ![s] = "open"]
    /\ user' = [user EXCEPT ![s] = u]
    /\ UNCHANGED <<member, admitted, channel, before, left, dataVars, handler, heard, from>>

(* Whom handleDisconnect tells, if the channel is c when it is called. *)
ToldOfDeparture(s, c) == IF s \in c THEN c \ {s} ELSE {}

(* The client goes away, or its token is rejected.  socket.io takes the    *)
(* socket out of its channels before it reports the disconnect.            *)
Disconnect(s) ==
    /\ Connected(s)
    /\ socket' = [socket EXCEPT ![s] = "closed"]
    /\ channel' = channel \ {s}
    /\ left' = [left EXCEPT ![s] = IF s \in channel THEN channel \ {s} ELSE {}]
    /\ heard' = [t \in Socket |->
                    IF t \in ToldOfDeparture(s, channel')
                    THEN [heard[t] EXCEPT !.left = @ \cup {user[s]}]
                    ELSE heard[t]]
    /\ from' = [from EXCEPT ![s] = Beginning]
    /\ UNCHANGED <<member, admitted, user, before, dataVars, handler>>

-----------------------------------------------------------------------------
(* isActiveMember; the query fails when there is no user id yet. *)
(* Mutant: the result is not awaited, and a promise is truthy. *)
IsActiveMemberUnawaited(u) == TRUE
IsActiveMember(u) == u \in member

(* Mutant: tells the channel first, and enters it then. *)
TellFirst(pc) == IF pc = "idle" THEN "join_tell" ELSE IF pc = "join_tell" THEN "join_enter" ELSE "idle"
NextOfJoin(pc) == IF pc = "idle" THEN "join_enter" ELSE IF pc = "join_enter" THEN "join_tell" ELSE "idle"

JoinCheck(h, s) ==
    /\ At(h, "idle") /\ Connected(s)
    /\ IsActiveMember(user[s])
    /\ Put(h, NextOfJoin("idle"), user[s], {s}, 0)
    /\ UNCHANGED <<member, admitted, connVars, dataVars, heard, from>>

(* Mutant: enters for a socket that is closed. *)
EnteredAnyway(s) == channel \cup {s}
Entered(s) == IF Connected(s) THEN channel \cup {s} ELSE channel

(* client.join does nothing for a socket that has disconnected meanwhile. *)
JoinEnter(h) ==
    /\ At(h, "join_enter")
    /\ \E s \in handler[h].on :
          /\ channel' = Entered(s)
          /\ IF channel' = channel THEN UNCHANGED <<from, before>>
             ELSE /\ from' = [from EXCEPT ![s] = [messages |-> messages, commits |-> commits]]
                  /\ before' = [before EXCEPT ![s] = channel]
    /\ Put(h, NextOfJoin("join_enter"), handler[h].by, handler[h].on, 0)
    /\ UNCHANGED <<member, admitted, socket, user, left, dataVars, heard>>

JoinTell(h) ==
    /\ At(h, "join_tell")
    /\ heard' = [t \in Socket |->
                    IF t \in channel \ handler[h].on
                    THEN [heard[t] EXCEPT !.joined = @ \cup {handler[h].by}]
                    ELSE heard[t]]
    /\ Put(h, NextOfJoin("join_tell"), handler[h].by, handler[h].on, 0)
    /\ UNCHANGED <<member, admitted, connVars, dataVars, from>>

-----------------------------------------------------------------------------
(* createMessage, from sendMessage or over HTTP *)
PostCheck(h, u) ==
    /\ At(h, "idle")
    /\ u \in member
    /\ Put(h, "post_insert", u, {}, 0)
    /\ UNCHANGED <<member, admitted, connVars, dataVars, heard, from>>

PostInsert(h) ==
    /\ At(h, "post_insert") /\ messages + commits < MaxWrites
    /\ messages' = messages + 1
    /\ Put(h, "post_emit", handler[h].by, {}, messages + 1)
    /\ UNCHANGED <<member, admitted, connVars, commits, alone, silent, heard, from>>

(* Mutant: skips the author, as client.to does. *)
ReceiversButAuthor(h) == {t \in channel : user[t] # handler[h].by}
Receivers(h) == channel

OneMore(copies, m) == [copies EXCEPT ![m] = @ + 1]

(* The event 'message.create' runs handleMessageCreate before emit returns. *)
PostEmit(h) ==
    /\ At(h, "post_emit")
    /\ heard' = [t \in Socket |->
                    IF t \in Receivers(h)
                    THEN [heard[t] EXCEPT !.messages = OneMore(@, handler[h].row)]
                    ELSE heard[t]]
    /\ Finish(h)
    /\ UNCHANGED <<member, admitted, connVars, dataVars, from>>

-----------------------------------------------------------------------------
Due == {h \in Handler : At(h, "command_emit")}

(* play, pause, seek or skip commits, from a socket. *)
CommandCommit(h) ==
    /\ At(h, "idle") /\ messages + commits < MaxWrites
    /\ commits' = commits + 1 /\ alone' = (Due = {}) /\ silent' = FALSE
    /\ Put(h, "command_emit", NoUser, {}, commits + 1)
    /\ UNCHANGED <<member, admitted, connVars, messages, heard, from>>

(* The same over HTTP: PlaybackController has no gateway to tell. *)
CommandOverHttp ==
    /\ messages + commits < MaxWrites
    /\ commits' = commits + 1 /\ alone' = (Due = {}) /\ silent' = TRUE
    /\ UNCHANGED <<member, admitted, connVars, messages, handler, heard, from>>

(* Mutant: broadcasts the state that the command found. *)
StateFound(h) == handler[h].row - 1
StateSent(h) == handler[h].row

CommandEmit(h) ==
    /\ At(h, "command_emit")
    /\ heard' = [t \in Socket |->
                    IF t \in channel THEN [heard[t] EXCEPT !.state = StateSent(h)] ELSE heard[t]]
    /\ Finish(h)
    /\ UNCHANGED <<member, admitted, connVars, dataVars, from>>

Next ==
    \/ \E u \in User : MemberJoins(u) \/ MemberLeaves(u)
    \/ \E s \in Socket : Connect(s) \/ Disconnect(s) \/ \E u \in User : Verified(s, u)
    \/ \E h \in Handler :
          \/ \E s \in Socket : JoinCheck(h, s)
          \/ \E u \in User : PostCheck(h, u)
          \/ JoinEnter(h) \/ JoinTell(h) \/ PostInsert(h) \/ PostEmit(h)
          \/ CommandCommit(h) \/ CommandEmit(h)
    \/ CommandOverHttp

Spec == Init /\ [][Next]_vars

-----------------------------------------------------------------------------
Task == [pc : {"idle", "join_enter", "join_tell", "post_insert", "post_emit", "command_emit"},
         by : User \cup {NoUser}, on : SUBSET Socket, row : 0..MaxWrites]
Events == [joined : SUBSET User, left : SUBSET User,
           messages : [1..MaxWrites -> Nat], state : 0..MaxWrites]

(* Every variable has its type; a socket is in the channel only while it   *)
(* is connected.                                                           *)
TypeOK ==
    /\ member \subseteq User /\ admitted \subseteq User
    /\ socket \in [Socket -> {"new", "verifying", "open", "closed"}]
    /\ user \in [Socket -> User \cup {NoUser}]
    /\ channel \subseteq {s \in Socket : Connected(s)}
    /\ before \in [Socket -> SUBSET Socket]
    /\ messages \in 0..MaxWrites /\ commits \in 0..MaxWrites
    /\ alone \in BOOLEAN /\ silent \in BOOLEAN
    /\ left \in [Socket -> SUBSET Socket]
    /\ handler \in [Handler -> Task]
    /\ from \in [Socket -> [messages : 0..MaxWrites, commits : 0..MaxWrites]]
    /\ heard \in [Socket -> Events]

(* "Not a member of this room": a socket whose user has never been an      *)
(* active member, or is not known yet, is sent nothing of the room, however *)
(* its joinRoom overlaps with its own verification.                        *)
OnlyMembersHear == \A s \in Socket : heard[s] # Silence => user[s] \in admitted

(* Presence: of two sockets in the channel, the one that entered first has *)
(* been told of the other's user, unless that joinRoom is still at it.     *)
EarlierHearsLater ==
    \A s \in channel : \A t \in channel \cap before[s] :
        \/ user[s] \in heard[t].joined
        \/ \E h \in Handler : At(h, "join_tell") /\ s \in handler[h].on

(* A message is sent exactly once to each socket, its author's included,   *)
(* that entered before it was inserted and is still there after the emit.  *)
Emitted(m) == \A h \in Handler : At(h, "post_emit") => handler[h].row # m
Copies(s, m) == heard[s].messages[m]

MessagesExactlyOnce ==
    \A s \in channel, m \in 1..messages :
        /\ Copies(s, m) <= 1
        /\ from[s].messages < m /\ Emitted(m) => Copies(s, m) = 1

(* Listeners end up with the committed playback state: with no broadcast   *)
(* due, a socket that saw the last commit happen was last sent that state, *)
(* unless it came over HTTP, or overlapped with another command, whose     *)
(* older state may be sent last.                                           *)
ListenersFollow ==
    Due = {} /\ alone /\ ~silent =>
        \A s \in channel : from[s].commits < commits => heard[s].state = commits

(* The server "continues broadcasting exactly one authoritative timeline   *)
(* for the whole room" (docs/development-plan.md): with no broadcast due,   *)
(* every socket that saw the last commit happen was last sent its state.   *)
OneTimeline ==
    Due = {} => \A s \in channel : from[s].commits < commits => heard[s].state = commits

(* The test of handleDisconnect: "notifies every room the client was in    *)
(* that the user left".                                                    *)
DeparturesTold ==
    \A s \in Socket : \A t \in left[s] : user[s] \in heard[t].left
=============================================================================

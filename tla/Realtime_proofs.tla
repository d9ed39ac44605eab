-------------------------- MODULE Realtime_proofs --------------------------
(* The channel, for any number of users, sockets, handlers and writes. *)
EXTENDS Realtime, TLAPS

USE RealtimeAssumption DEF At

(* A user id is known once the token is verified. *)
UnverifiedUnknown == \A s \in Socket : ~(socket[s] \in {"open", "closed"}) => user[s] = NoUser

(* Who is an active member has been admitted. *)
MembersAdmitted == member \subseteq admitted

(* A joinRoom past its check is of one socket, whose user was a member. *)
Joining(h) == handler[h].pc \in {"join_enter", "join_tell"}
JoinersKnown ==
    \A h \in Handler : Joining(h) =>
        \E s \in Socket : /\ handler[h].on = {s} /\ handler[h].by = user[s]
                          /\ user[s] \in admitted

(* A handler that emits holds a row that was written. *)
WritesHeld ==
    \A h \in Handler :
        /\ At(h, "post_emit") => handler[h].row \in 1..messages
        /\ At(h, "command_emit") => handler[h].row \in 1..commits

TypeInv ==
    /\ TypeOK /\ UnverifiedUnknown /\ MembersAdmitted /\ JoinersKnown /\ WritesHeld
    /\ messages + commits <= MaxWrites

LEMMA Beginnings ==
  /\ Silence \in Events /\ Idle \in Task
  /\ Beginning \in [messages : 0..MaxWrites, commits : 0..MaxWrites]
<1>1. 0 \in 0..MaxWrites /\ [m \in 1..MaxWrites |-> 0] \in [1..MaxWrites -> Nat]
  OBVIOUS
<1> QED
  BY <1>1 DEF Silence, Events, Idle, Task, Beginning

LEMMA TypeInit == Init => TypeInv
<1> SUFFICES ASSUME Init PROVE TypeInv
  OBVIOUS
<1>1. /\ handler \in [Handler -> Task] /\ heard \in [Socket -> Events]
      /\ from \in [Socket -> [messages : 0..MaxWrites, commits : 0..MaxWrites]]
  <2>1. /\ handler = [h \in Handler |-> Idle] /\ heard = [s \in Socket |-> Silence]
        /\ from = [s \in Socket |-> Beginning]
    BY DEF Init
  <2> QED
    BY <2>1, Beginnings
<1>2. messages = 0 /\ commits = 0 /\ alone = TRUE /\ silent = FALSE
  BY Zenon DEF Init
<1>4. alone \in BOOLEAN /\ silent \in BOOLEAN
  BY <1>2, Zenon
<1>5. messages \in 0..MaxWrites /\ commits \in 0..MaxWrites
  BY <1>2
<1>3. /\ socket \in [Socket -> {"new", "verifying", "open", "closed"}]
      /\ user \in [Socket -> User \cup {NoUser}] /\ before \in [Socket -> SUBSET Socket]
      /\ left \in [Socket -> SUBSET Socket]
      /\ member = {} /\ admitted = {} /\ channel = {}
  BY DEF Init
<1>6. TypeOK
  BY <1>1, <1>3, <1>4, <1>5 DEF TypeOK
<1>7. UnverifiedUnknown /\ MembersAdmitted /\ JoinersKnown /\ WritesHeld
  BY DEF Init, UnverifiedUnknown, MembersAdmitted, JoinersKnown, Joining, WritesHeld, Idle
<1> QED
  BY <1>2, <1>6, <1>7 DEF TypeInv

LEMMA OneMoreCopy ==
  ASSUME NEW copies \in [1..MaxWrites -> Nat], NEW m \in 1..MaxWrites
  PROVE  /\ OneMore(copies, m) \in [1..MaxWrites -> Nat]
         /\ OneMore(copies, m)[m] = copies[m] + 1
         /\ \A n \in 1..MaxWrites \ {m} : OneMore(copies, m)[n] = copies[n]
<1>1. copies[m] + 1 \in Nat
  OBVIOUS
<1> QED
  BY <1>1 DEF OneMore

(* What a handler's move does to the slots. *)
LEMMA PutSlots ==
  ASSUME TypeInv, NEW h \in Handler, NEW pc, NEW u, NEW on, NEW row,
         [pc |-> pc, by |-> u, on |-> on, row |-> row] \in Task,
         Put(h, pc, u, on, row)
  PROVE  /\ handler' \in [Handler -> Task]
         /\ handler'[h] = [pc |-> pc, by |-> u, on |-> on, row |-> row]
         /\ \A g \in Handler \ {h} : handler'[g] = handler[g]
  BY DEF TypeInv, TypeOK, Put

LEMMA FinishSlots ==
  ASSUME TypeInv, NEW h \in Handler, Finish(h)
  PROVE  /\ handler' \in [Handler -> Task]
         /\ handler'[h] = Idle
         /\ \A g \in Handler \ {h} : handler'[g] = handler[g]
  BY DEF TypeInv, TypeOK, Finish, Task, Idle

(* What was said of the slots holds of the others. *)
LEMMA SlotKept ==
  ASSUME TypeInv, NEW h \in Handler, \A g \in Handler \ {h} : handler'[g] = handler[g],
         ~Joining(h)', ~At(h, "post_emit")', ~At(h, "command_emit")',
         user' = user, admitted \subseteq admitted', messages' = messages, commits' = commits
  PROVE  JoinersKnown' /\ WritesHeld'
  BY DEF TypeInv, JoinersKnown, Joining, WritesHeld

LEMMA TypeStep == TypeInv /\ [Next]_vars => TypeInv'
<1> SUFFICES ASSUME TypeInv, [Next]_vars PROVE TypeInv'
  OBVIOUS
<1>a. /\ TypeOK /\ UnverifiedUnknown /\ MembersAdmitted /\ JoinersKnown /\ WritesHeld
      /\ messages + commits <= MaxWrites
  BY DEF TypeInv
<1>1. ASSUME NEW u \in User, MemberJoins(u) PROVE TypeInv'
  BY <1>1, <1>a DEF MemberJoins, TypeInv, TypeOK, UnverifiedUnknown, MembersAdmitted, JoinersKnown,
     Joining, WritesHeld, connVars, dataVars, Connected
<1>2. ASSUME NEW u \in User, MemberLeaves(u) PROVE TypeInv'
  BY <1>2, <1>a DEF MemberLeaves, TypeInv, TypeOK, UnverifiedUnknown, MembersAdmitted, JoinersKnown,
     Joining, WritesHeld, connVars, dataVars, Connected
<1>3. ASSUME NEW s \in Socket, Connect(s) PROVE TypeInv'
  BY <1>3, <1>a DEF Connect, TypeInv, TypeOK, UnverifiedUnknown, MembersAdmitted, JoinersKnown,
     Joining, WritesHeld, dataVars, Connected
<1>4. ASSUME NEW s \in Socket, NEW u \in User, Verified(s, u) PROVE TypeInv'
  <2>1. user[s] = NoUser /\ NoUser \notin admitted
    BY <1>4, <1>a DEF Verified, UnverifiedUnknown, TypeOK
  <2>2. TypeOK' /\ UnverifiedUnknown'
    BY <1>4, <1>a DEF Verified, TypeOK, UnverifiedUnknown, Connected, dataVars
  <2>3. ASSUME NEW h \in Handler, Joining(h)' PROVE
          \E t \in Socket : handler[h].on = {t} /\ handler[h].by = user'[t] /\ user'[t] \in admitted
    <3>1. PICK t \in Socket : handler[h].on = {t} /\ handler[h].by = user[t] /\ user[t] \in admitted
      BY <1>4, <1>a, <2>3 DEF Verified, JoinersKnown, Joining
    <3>2. t # s /\ user'[t] = user[t]
      BY <1>4, <1>a, <2>1, <3>1 DEF Verified, TypeOK
    <3> QED
      BY <3>1, <3>2
  <2>4. UNCHANGED <<member, admitted, messages, commits, handler>>
    BY <1>4 DEF Verified, dataVars
  <2>5. JoinersKnown'
    BY <2>3, <2>4 DEF JoinersKnown
  <2> QED
    BY <1>a, <2>2, <2>4, <2>5 DEF TypeInv, MembersAdmitted, WritesHeld
<1>5. ASSUME NEW s \in Socket, Disconnect(s) PROVE TypeInv'
  <2>1. ToldOfDeparture(s, channel') = {}
    BY <1>5 DEF Disconnect, ToldOfDeparture
  <2>2. heard' = heard
    BY <1>5, <1>a, <2>1 DEF Disconnect, TypeOK
  <2>3. UNCHANGED <<member, admitted, user, before, dataVars, handler>>
    BY <1>5 DEF Disconnect
  <2>4. TypeOK'
    <3>1. from' \in [Socket -> [messages : 0..MaxWrites, commits : 0..MaxWrites]]
      BY <1>5, <1>a, Beginnings DEF Disconnect, TypeOK
    <3>2. left' \in [Socket -> SUBSET Socket]
      BY <1>5, <1>a DEF Disconnect, TypeOK, Connected
    <3>3. socket' \in [Socket -> {"new", "verifying", "open", "closed"}]
      BY <1>5, <1>a DEF Disconnect, TypeOK
    <3>4. channel' \subseteq {t \in Socket : Connected(t)'}
      BY <1>5, <1>a DEF Disconnect, TypeOK, Connected
    <3> QED
      BY <1>a, <2>2, <2>3, <3>1, <3>2, <3>3, <3>4 DEF TypeOK, dataVars
  <2>5. UnverifiedUnknown'
    BY <1>5, <1>a, <2>3 DEF Disconnect, TypeOK, UnverifiedUnknown
  <2> QED
    BY <1>a, <2>3, <2>4, <2>5 DEF TypeInv, MembersAdmitted, JoinersKnown, Joining, WritesHeld, dataVars
<1>6. ASSUME NEW h \in Handler, NEW s \in Socket, JoinCheck(h, s) PROVE TypeInv'
  <2>1. user[s] \in admitted /\ user[s] \in User
    BY <1>6, <1>a DEF JoinCheck, IsActiveMember, MembersAdmitted, TypeOK
  <2>2. NextOfJoin("idle") = "join_enter"
    BY DEF NextOfJoin
  <2>3. /\ handler' \in [Handler -> Task]
        /\ handler'[h] = [pc |-> "join_enter", by |-> user[s], on |-> {s}, row |-> 0]
        /\ \A g \in Handler \ {h} : handler'[g] = handler[g]
    BY <1>6, <2>1, <2>2, PutSlots DEF JoinCheck, Task
  <2>4. UNCHANGED <<member, admitted, connVars, dataVars, heard, from>>
    BY <1>6 DEF JoinCheck
  <2>5. TypeOK' /\ UnverifiedUnknown' /\ MembersAdmitted' /\ messages' + commits' <= MaxWrites
    BY <1>a, <2>3, <2>4 DEF TypeOK, UnverifiedUnknown, MembersAdmitted, Connected, connVars, dataVars
  <2>6. JoinersKnown' /\ WritesHeld'
    BY <1>a, <2>1, <2>3, <2>4 DEF JoinersKnown, Joining, WritesHeld, connVars, dataVars
  <2> QED
    BY <2>5, <2>6 DEF TypeInv
<1>7. ASSUME NEW h \in Handler, JoinEnter(h) PROVE TypeInv'
  <2>1. PICK s \in Socket : handler[h].on = {s} /\ handler[h].by = user[s] /\ user[s] \in admitted
    BY <1>7, <1>a DEF JoinEnter, JoinersKnown, Joining
  <2>2. NextOfJoin("join_enter") = "join_tell"
    BY DEF NextOfJoin
  <2>3. /\ handler' \in [Handler -> Task]
        /\ handler'[h] = [pc |-> "join_tell", by |-> user[s], on |-> {s}, row |-> 0]
        /\ \A g \in Handler \ {h} : handler'[g] = handler[g]
    <3>1. Put(h, "join_tell", user[s], {s}, 0)
      BY <1>7, <2>1, <2>2 DEF JoinEnter
    <3>2. [pc |-> "join_tell", by |-> user[s], on |-> {s}, row |-> 0] \in Task
      BY <1>a DEF TypeOK, Task
    <3> QED
      BY <3>1, <3>2, PutSlots
  <2>4. UNCHANGED <<member, admitted, socket, user, left, dataVars, heard>>
    BY <1>7 DEF JoinEnter
  <2>5. /\ channel' = Entered(s)
        /\ from' = from \/ from' = [from EXCEPT ![s] = [messages |-> messages, commits |-> commits]]
        /\ before' = before \/ before' = [before EXCEPT ![s] = channel]
    BY <1>7, <2>1 DEF JoinEnter
  <2>6. TypeOK'
    <3>1. from' \in [Socket -> [messages : 0..MaxWrites, commits : 0..MaxWrites]]
      <4>1. [messages |-> messages, commits |-> commits] \in [messages : 0..MaxWrites, commits : 0..MaxWrites]
        BY <1>a DEF TypeOK
      <4> QED
        BY <1>a, <2>5, <4>1 DEF TypeOK
    <3>2. before' \in [Socket -> SUBSET Socket]
      BY <1>a, <2>5 DEF TypeOK
    <3>3. channel' \subseteq {t \in Socket : Connected(t)'}
      BY <1>a, <2>4, <2>5 DEF TypeOK, Entered, Connected
    <3> QED
      BY <1>a, <2>3, <2>4, <3>1, <3>2, <3>3 DEF TypeOK, dataVars
  <2>7. JoinersKnown' /\ WritesHeld'
    BY <1>a, <2>1, <2>3, <2>4 DEF JoinersKnown, Joining, WritesHeld, dataVars
  <2> QED
    BY <1>a, <2>4, <2>6, <2>7 DEF TypeInv, UnverifiedUnknown, MembersAdmitted, dataVars
<1>8. ASSUME NEW h \in Handler, JoinTell(h) PROVE TypeInv'
  <2>1. PICK s \in Socket : handler[h].on = {s} /\ handler[h].by = user[s] /\ user[s] \in admitted
    BY <1>8, <1>a DEF JoinTell, JoinersKnown, Joining
  <2>2. NextOfJoin("join_tell") = "idle"
    BY DEF NextOfJoin
  <2>3. /\ handler' \in [Handler -> Task]
        /\ handler'[h] = [pc |-> "idle", by |-> user[s], on |-> {s}, row |-> 0]
        /\ \A g \in Handler \ {h} : handler'[g] = handler[g]
    <3>1. Put(h, "idle", user[s], {s}, 0)
      BY <1>8, <2>1, <2>2 DEF JoinTell
    <3>2. [pc |-> "idle", by |-> user[s], on |-> {s}, row |-> 0] \in Task
      BY <1>a DEF TypeOK, Task
    <3> QED
      BY <3>1, <3>2, PutSlots
  <2>4. UNCHANGED <<member, admitted, connVars, dataVars, from>>
    BY <1>8 DEF JoinTell
  <2>5. heard' \in [Socket -> Events]
    <3>1. user[s] \in User
      BY <1>a, <2>1 DEF TypeOK
    <3>2. ASSUME NEW t \in Socket PROVE [heard[t] EXCEPT !.joined = @ \cup {user[s]}] \in Events
      BY <1>a, <3>1 DEF TypeOK, Events
    <3> QED
      BY <1>8, <1>a, <2>1, <3>2 DEF JoinTell, TypeOK
  <2>6. TypeOK' /\ UnverifiedUnknown' /\ MembersAdmitted' /\ messages' + commits' <= MaxWrites
    BY <1>a, <2>3, <2>4, <2>5 DEF TypeOK, UnverifiedUnknown, MembersAdmitted, Connected, connVars, dataVars
  <2>7. JoinersKnown' /\ WritesHeld'
    BY <2>3, <2>4, SlotKept DEF Joining, connVars, dataVars
  <2> QED
    BY <2>6, <2>7 DEF TypeInv
<1>9. ASSUME NEW h \in Handler, NEW u \in User, PostCheck(h, u) PROVE TypeInv'
  <2>1. /\ handler' \in [Handler -> Task]
        /\ handler'[h] = [pc |-> "post_insert", by |-> u, on |-> {}, row |-> 0]
        /\ \A g \in Handler \ {h} : handler'[g] = handler[g]
    BY <1>9, PutSlots DEF PostCheck, Task
  <2>2. UNCHANGED <<member, admitted, connVars, dataVars, heard, from>>
    BY <1>9 DEF PostCheck
  <2>3. TypeOK' /\ UnverifiedUnknown' /\ MembersAdmitted' /\ messages' + commits' <= MaxWrites
    BY <1>a, <2>1, <2>2 DEF TypeOK, UnverifiedUnknown, MembersAdmitted, Connected, connVars, dataVars
  <2>4. JoinersKnown' /\ WritesHeld'
    BY <2>1, <2>2, SlotKept DEF Joining, connVars, dataVars
  <2> QED
    BY <2>3, <2>4 DEF TypeInv
<1>10. ASSUME NEW h \in Handler, PostInsert(h) PROVE TypeInv'
  <2>1. /\ handler' \in [Handler -> Task]
        /\ handler'[h] = [pc |-> "post_emit", by |-> handler[h].by, on |-> {}, row |-> messages + 1]
        /\ \A g \in Handler \ {h} : handler'[g] = handler[g]
    <3>1. handler[h].by \in User \cup {NoUser} /\ messages + 1 \in 0..MaxWrites
      BY <1>10, <1>a DEF PostInsert, TypeOK, Task
    <3> QED
      BY <1>10, <3>1, PutSlots DEF PostInsert, Task
  <2>2. /\ UNCHANGED <<member, admitted, connVars, commits, alone, silent, heard, from>>
        /\ messages' = messages + 1 /\ messages' + commits' <= MaxWrites
    BY <1>10, <1>a DEF PostInsert, TypeOK
  <2>3. TypeOK' /\ UnverifiedUnknown' /\ MembersAdmitted'
    BY <1>a, <2>1, <2>2 DEF TypeOK, UnverifiedUnknown, MembersAdmitted, Connected, connVars
  <2>4. JoinersKnown'
    BY <1>a, <2>1, <2>2 DEF JoinersKnown, Joining, connVars
  <2>5. WritesHeld'
    BY <1>a, <2>1, <2>2 DEF TypeOK, WritesHeld
  <2> QED
    BY <2>2, <2>3, <2>4, <2>5 DEF TypeInv
<1>11. ASSUME NEW h \in Handler, PostEmit(h) PROVE TypeInv'
  <2>1. /\ handler' \in [Handler -> Task] /\ handler'[h] = Idle
        /\ \A g \in Handler \ {h} : handler'[g] = handler[g]
    BY <1>11, FinishSlots DEF PostEmit
  <2>2. UNCHANGED <<member, admitted, connVars, dataVars, from>>
    BY <1>11 DEF PostEmit
  <2>3. ASSUME NEW t \in Socket
        PROVE  OneMore(heard[t].messages, handler[h].row) \in [1..MaxWrites -> Nat]
    <3>1. heard[t].messages \in [1..MaxWrites -> Nat] /\ handler[h].row \in 1..MaxWrites
      BY <1>11, <1>a DEF PostEmit, TypeOK, Events, WritesHeld
    <3> QED
      BY <3>1, OneMoreCopy
  <2>4. heard' \in [Socket -> Events]
    BY <1>11, <1>a, <2>3 DEF PostEmit, TypeOK, Events
  <2>5. TypeOK' /\ UnverifiedUnknown' /\ MembersAdmitted' /\ messages' + commits' <= MaxWrites
    BY <1>a, <2>1, <2>2, <2>4 DEF TypeOK, UnverifiedUnknown, MembersAdmitted, Connected, connVars, dataVars
  <2>6. JoinersKnown' /\ WritesHeld'
    BY <2>1, <2>2, SlotKept DEF Joining, connVars, dataVars, Idle
  <2> QED
    BY <2>5, <2>6 DEF TypeInv
<1>12. ASSUME NEW h \in Handler, CommandCommit(h) PROVE TypeInv'
  <2>1. /\ handler' \in [Handler -> Task]
        /\ handler'[h] = [pc |-> "command_emit", by |-> NoUser, on |-> {}, row |-> commits + 1]
        /\ \A g \in Handler \ {h} : handler'[g] = handler[g]
    <3>1. commits + 1 \in 0..MaxWrites
      BY <1>12, <1>a DEF CommandCommit, TypeOK
    <3> QED
      BY <1>12, <3>1, PutSlots DEF CommandCommit, Task
  <2>2. /\ UNCHANGED <<member, admitted, connVars, messages, heard, from>>
        /\ commits' = commits + 1 /\ messages' + commits' <= MaxWrites
        /\ alone' \in BOOLEAN /\ silent' \in BOOLEAN
    <3>1. alone' \in BOOLEAN /\ silent' \in BOOLEAN
      BY <1>12, Zenon DEF CommandCommit
    <3> QED
      BY <1>12, <1>a, <3>1 DEF CommandCommit, TypeOK
  <2>3. TypeOK' /\ UnverifiedUnknown' /\ MembersAdmitted'
    BY <1>a, <2>1, <2>2 DEF TypeOK, UnverifiedUnknown, MembersAdmitted, Connected, connVars
  <2>4. JoinersKnown'
    BY <1>a, <2>1, <2>2 DEF JoinersKnown, Joining, connVars
  <2>5. WritesHeld'
    BY <1>a, <2>1, <2>2 DEF TypeOK, WritesHeld
  <2> QED
    BY <2>2, <2>3, <2>4, <2>5 DEF TypeInv
<1>13. ASSUME NEW h \in Handler, CommandEmit(h) PROVE TypeInv'
  <2>1. /\ handler' \in [Handler -> Task] /\ handler'[h] = Idle
        /\ \A g \in Handler \ {h} : handler'[g] = handler[g]
    BY <1>13, FinishSlots DEF CommandEmit
  <2>2. UNCHANGED <<member, admitted, connVars, dataVars, from>>
    BY <1>13 DEF CommandEmit
  <2>3. heard' \in [Socket -> Events]
    <3>1. handler[h].row \in 0..MaxWrites /\ heard \in [Socket -> Events]
      BY <1>a DEF TypeOK, Task
    <3>2. \A t \in Socket : [heard[t] EXCEPT !.state = handler[h].row] \in Events
      BY <3>1 DEF Events
    <3> QED
      BY <1>13, <3>1, <3>2 DEF CommandEmit, StateSent
  <2>4. TypeOK' /\ UnverifiedUnknown' /\ MembersAdmitted' /\ messages' + commits' <= MaxWrites
    BY <1>a, <2>1, <2>2, <2>3 DEF TypeOK, UnverifiedUnknown, MembersAdmitted, Connected, connVars, dataVars
  <2>5. JoinersKnown' /\ WritesHeld'
    BY <2>1, <2>2, SlotKept DEF Joining, connVars, dataVars, Idle
  <2> QED
    BY <2>4, <2>5 DEF TypeInv
<1>14. CASE CommandOverHttp
  <2>1. /\ UNCHANGED <<member, admitted, connVars, messages, handler, heard, from>>
        /\ commits' = commits + 1 /\ messages' + commits' <= MaxWrites
        /\ alone' \in BOOLEAN /\ silent' \in BOOLEAN
    <3>1. alone' \in BOOLEAN /\ silent' \in BOOLEAN
      BY <1>14, Zenon DEF CommandOverHttp
    <3> QED
      BY <1>14, <1>a, <3>1 DEF CommandOverHttp, TypeOK
  <2> QED
    BY <1>a, <2>1 DEF TypeInv, TypeOK, UnverifiedUnknown, MembersAdmitted, JoinersKnown, Joining, WritesHeld,
       connVars, Connected
<1>15. CASE UNCHANGED vars
  BY <1>15, <1>a DEF vars, connVars, dataVars, TypeInv, TypeOK, UnverifiedUnknown, MembersAdmitted,
     JoinersKnown, Joining, WritesHeld, Connected
<1> QED
  BY <1>1, <1>2, <1>3, <1>4, <1>5, <1>6, <1>7, <1>8, <1>9, <1>10, <1>11, <1>12, <1>13, <1>14, <1>15
  DEF Next

(* TypeOK: the sockets, the channel and the handlers keep their types; in  *)
(* particular only connected sockets are in the channel.                   *)
THEOREM TypeCorrect == Spec => []TypeOK
<1>1. TypeInv => TypeOK
  BY DEF TypeInv
<1> QED
  BY <1>1, TypeInit, TypeStep, PTL DEF Spec

-----------------------------------------------------------------------------
(* Who is in the channel has been admitted. *)
ChannelAdmitted == \A s \in channel : user[s] \in admitted
HearInv == TypeInv /\ OnlyMembersHear /\ ChannelAdmitted

LEMMA HearInit == Init => HearInv
  BY TypeInit DEF Init, HearInv, OnlyMembersHear, ChannelAdmitted

(* A step that reaches nobody outside of the channel, and lets only admitted users in. *)
LEMMA HearKept ==
  ASSUME HearInv, TypeInv', user' = user, admitted \subseteq admitted',
         \A t \in Socket \ channel : heard'[t] = heard[t],
         \A t \in channel' \ channel : user[t] \in admitted
  PROVE  HearInv'
  BY DEF HearInv, OnlyMembersHear, ChannelAdmitted, Silence

LEMMA HearStep == HearInv /\ [Next]_vars => HearInv'
<1> SUFFICES ASSUME HearInv, [Next]_vars PROVE HearInv'
  OBVIOUS
<1>a. TypeInv /\ TypeOK /\ TypeInv'
  BY TypeStep DEF HearInv, TypeInv
<1>1. ASSUME NEW u \in User, MemberJoins(u) \/ MemberLeaves(u) PROVE HearInv'
  BY <1>1, <1>a, HearKept DEF MemberJoins, MemberLeaves, connVars
<1>2. ASSUME NEW s \in Socket, Connect(s) PROVE HearInv'
  BY <1>2, <1>a, HearKept DEF Connect
<1>3. ASSUME NEW s \in Socket, NEW u \in User, Verified(s, u) PROVE HearInv'
  <2>1. user[s] = NoUser /\ NoUser \notin admitted
    BY <1>3, <1>a DEF Verified, UnverifiedUnknown, TypeOK, TypeInv
  <2>2. heard[s] = Silence /\ s \notin channel
    BY <2>1 DEF HearInv, OnlyMembersHear, ChannelAdmitted
  <2>3. /\ UNCHANGED <<admitted, channel, heard>> /\ \A t \in Socket \ {s} : user'[t] = user[t]
    BY <1>3, <1>a DEF Verified, TypeOK
  <2> QED
    BY <1>a, <2>2, <2>3 DEF HearInv, OnlyMembersHear, ChannelAdmitted, Silence, TypeOK, TypeInv
<1>4. ASSUME NEW s \in Socket, Disconnect(s) PROVE HearInv'
  <2>1. ToldOfDeparture(s, channel') = {}
    BY <1>4 DEF Disconnect, ToldOfDeparture
  <2>2. heard' = heard /\ channel' \subseteq channel
    BY <1>4, <1>a, <2>1 DEF Disconnect, TypeOK
  <2> QED
    BY <1>4, <1>a, <2>2, HearKept DEF Disconnect
<1>5. ASSUME NEW h \in Handler, JoinEnter(h) PROVE HearInv'
  <2>1. PICK s \in Socket : handler[h].on = {s} /\ user[s] \in admitted
    BY <1>5, <1>a DEF JoinEnter, TypeInv, JoinersKnown, Joining
  <2>2. channel' \subseteq channel \cup {s}
    BY <1>5, <2>1 DEF JoinEnter, Entered
  <2>3. UNCHANGED <<admitted, user, heard>>
    BY <1>5 DEF JoinEnter
  <2> QED
    BY <1>a, <2>1, <2>2, <2>3, HearKept
<1>6. ASSUME NEW h \in Handler, NEW s \in Socket, JoinCheck(h, s) PROVE HearInv'
  BY <1>6, <1>a, HearKept DEF JoinCheck, connVars
<1>7. ASSUME NEW h \in Handler, JoinTell(h) \/ CommandEmit(h) PROVE HearInv'
  <2>1. /\ UNCHANGED <<admitted, user, channel>>
        /\ \A t \in Socket \ channel : heard'[t] = heard[t]
    BY <1>7 DEF JoinTell, CommandEmit, connVars
  <2> QED
    BY <1>a, <2>1, HearKept
<1>8. ASSUME NEW h \in Handler, PostEmit(h) PROVE HearInv'
  <2>1. /\ UNCHANGED <<admitted, user, channel>>
        /\ \A t \in Socket \ channel : heard'[t] = heard[t]
    BY <1>8 DEF PostEmit, Receivers, connVars
  <2> QED
    BY <1>a, <2>1, HearKept
<1>9. ASSUME NEW h \in Handler, PostInsert(h) \/ CommandCommit(h) PROVE HearInv'
  BY <1>9, <1>a, HearKept DEF PostInsert, CommandCommit, connVars
<1>10. ASSUME NEW h \in Handler, NEW u \in User, PostCheck(h, u) PROVE HearInv'
  BY <1>10, <1>a, HearKept DEF PostCheck, connVars
<1>11. CASE CommandOverHttp
  BY <1>11, <1>a, HearKept DEF CommandOverHttp, connVars
<1>12. CASE UNCHANGED vars
  BY <1>12, <1>a, HearKept DEF vars, connVars
<1> QED
  BY <1>1, <1>2, <1>3, <1>4, <1>5, <1>6, <1>7, <1>8, <1>9, <1>10, <1>11, <1>12 DEF Next

(* OnlyMembersHear: whoever is sent anything of the room has been a member, *)
(* although joinRoom may run before, or while, the token is verified.      *)
THEOREM OnlyMembersAreSent == Spec => []OnlyMembersHear
<1>1. HearInv => OnlyMembersHear
  BY DEF HearInv
<1> QED
  BY <1>1, HearInit, HearStep, PTL DEF Spec

-----------------------------------------------------------------------------
(* Nobody is in the channel before it enters. *)
NotBeforeItself == \A s \in channel : s \notin before[s]
(* Who was in it then, and is not any more, has gone for good. *)
GoneForGood == \A s \in Socket : \A t \in before[s] \ channel : socket[t] = "closed"
PresenceInv == HearInv /\ EarlierHearsLater /\ NotBeforeItself /\ GoneForGood

LEMMA PresenceInit == Init => PresenceInv
  BY HearInit DEF Init, PresenceInv, EarlierHearsLater, NotBeforeItself, GoneForGood

(* What was told stays told, and who was about to tell still is. *)
LEMMA PresenceKept ==
  ASSUME PresenceInv, HearInv', user' = user, before' = before, channel' \subseteq channel,
         \A t \in Socket : socket[t] = "closed" => socket'[t] = "closed",
         \A t \in channel \ channel' : socket'[t] = "closed",
         \A t \in Socket : heard[t].joined \subseteq heard'[t].joined,
         \A h \in Handler : At(h, "join_tell") => handler'[h] = handler[h]
  PROVE  PresenceInv'
<1>1. channel \subseteq Socket /\ before \in [Socket -> SUBSET Socket]
  BY DEF PresenceInv, HearInv, TypeInv, TypeOK
<1>2. EarlierHearsLater'
  BY <1>1 DEF PresenceInv, EarlierHearsLater
<1>3. NotBeforeItself' /\ GoneForGood'
  BY <1>1 DEF PresenceInv, NotBeforeItself, GoneForGood
<1> QED
  BY <1>2, <1>3 DEF PresenceInv

LEMMA PresenceStep == PresenceInv /\ [Next]_vars => PresenceInv'
<1> SUFFICES ASSUME PresenceInv, [Next]_vars PROVE PresenceInv'
  OBVIOUS
<1>a. HearInv /\ TypeInv /\ TypeOK /\ HearInv'
  BY HearStep DEF PresenceInv, HearInv, TypeInv
<1>b. handler \in [Handler -> Task] /\ heard \in [Socket -> Events] /\ channel \subseteq Socket
  BY <1>a DEF TypeOK
<1>1. ASSUME NEW u \in User, MemberJoins(u) \/ MemberLeaves(u) PROVE PresenceInv'
  BY <1>1, <1>a, PresenceKept DEF MemberJoins, MemberLeaves, connVars
<1>2. ASSUME NEW s \in Socket, Connect(s) PROVE PresenceInv'
  <2>1. \A t \in Socket : socket[t] = "closed" => socket'[t] = "closed"
    BY <1>2, <1>a DEF Connect, TypeOK
  <2> QED
    BY <1>2, <1>a, <2>1, PresenceKept DEF Connect
<1>3. ASSUME NEW s \in Socket, NEW u \in User, Verified(s, u) PROVE PresenceInv'
  <2>1. s \notin channel
    BY <1>3, <1>a DEF Verified, UnverifiedUnknown, TypeOK, TypeInv, HearInv, ChannelAdmitted
  <2>2. /\ UNCHANGED <<channel, before, handler, heard>>
        /\ \A t \in Socket \ {s} : user'[t] = user[t]
    BY <1>3, <1>a DEF Verified, TypeOK
  <2>3. \A t \in Socket : socket[t] = "closed" => socket'[t] = "closed"
    BY <1>3, <1>a DEF Verified, TypeOK
  <2>4. GoneForGood'
    BY <1>a, <2>2, <2>3 DEF PresenceInv, GoneForGood, TypeOK
  <2>5. EarlierHearsLater' /\ NotBeforeItself'
    BY <1>b, <2>1, <2>2 DEF PresenceInv, EarlierHearsLater, NotBeforeItself
  <2> QED
    BY <1>a, <2>4, <2>5 DEF PresenceInv
<1>4. ASSUME NEW s \in Socket, Disconnect(s) PROVE PresenceInv'
  <2>1. ToldOfDeparture(s, channel') = {}
    BY <1>4 DEF Disconnect, ToldOfDeparture
  <2>2. heard' = heard /\ channel' \subseteq channel
    BY <1>4, <1>a, <2>1 DEF Disconnect, TypeOK
  <2>3. /\ \A t \in Socket : socket[t] = "closed" => socket'[t] = "closed"
        /\ \A t \in channel \ channel' : socket'[t] = "closed"
    BY <1>4, <1>a DEF Disconnect, TypeOK
  <2> QED
    BY <1>4, <1>a, <2>2, <2>3, PresenceKept DEF Disconnect
<1>5. ASSUME NEW h \in Handler, JoinEnter(h) PROVE PresenceInv'
  <2>1. PICK s \in Socket : handler[h].on = {s} /\ handler[h].by = user[s] /\ user[s] \in admitted
    BY <1>5, <1>a DEF JoinEnter, TypeInv, JoinersKnown, Joining
  <2>2. /\ UNCHANGED <<user, heard>>
        /\ handler'[h].pc = "join_tell" /\ handler'[h].on = {s}
        /\ \A g \in Handler \ {h} : handler'[g] = handler[g]
    BY <1>5, <1>b, <2>1 DEF JoinEnter, Put, NextOfJoin
  <2>3. CASE channel' = channel
    <3>1. before' = before
      BY <1>5, <2>1, <2>3 DEF JoinEnter
    <3> QED
      BY <1>5, <1>a, <2>2, <2>3, <3>1, PresenceKept DEF JoinEnter
  <2>4. CASE channel' # channel
    <3>1. /\ s \notin channel /\ channel' = channel \cup {s}
          /\ before' = [before EXCEPT ![s] = channel]
      BY <1>5, <2>1, <2>4 DEF JoinEnter, Entered
    <3>2. before'[s] = channel /\ \A t \in Socket \ {s} : before'[t] = before[t]
      BY <1>a, <3>1 DEF TypeOK
    <3>3. NotBeforeItself'
      BY <1>b, <3>1, <3>2 DEF PresenceInv, NotBeforeItself
    <3>4. ASSUME NEW r \in channel', NEW t \in channel' \cap before'[r]
          PROVE  \/ user[r] \in heard[t].joined
                 \/ \E g \in Handler : handler'[g].pc = "join_tell" /\ r \in handler'[g].on
      <4>1. CASE r = s
        BY <2>2, <4>1
      <4>2. CASE r # s /\ t # s
        BY <1>5, <1>b, <2>2, <3>1, <3>2, <4>2 DEF PresenceInv, EarlierHearsLater, JoinEnter
      <4>3. CASE r # s /\ t = s
        <5>1. s \in before[r] \ channel /\ socket[s] # "closed"
          BY <1>5, <1>b, <2>1, <2>4, <3>1, <3>2, <3>4, <4>3 DEF JoinEnter, Entered, Connected
        <5> QED
          BY <1>b, <3>1, <4>3, <5>1 DEF PresenceInv, GoneForGood
      <4> QED
        BY <4>1, <4>2, <4>3
    <3>5. EarlierHearsLater'
      BY <2>2, <3>4 DEF EarlierHearsLater
    <3>6. GoneForGood'
      BY <1>5, <1>a, <3>1, <3>2 DEF PresenceInv, GoneForGood, JoinEnter, TypeOK
    <3> QED
      BY <1>a, <3>3, <3>5, <3>6 DEF PresenceInv
  <2> QED
    BY <2>3, <2>4
<1>6. ASSUME NEW h \in Handler, NEW s \in Socket, JoinCheck(h, s) PROVE PresenceInv'
  <2>1. /\ UNCHANGED <<socket, user, before, channel, heard>>
        /\ \A g \in Handler : At(g, "join_tell") => handler'[g] = handler[g]
    BY <1>6, <1>b DEF JoinCheck, Put, connVars
  <2> QED
    BY <1>a, <2>1, PresenceKept
<1>7. ASSUME NEW h \in Handler, JoinTell(h) PROVE PresenceInv'
  <2>1. PICK s \in Socket : handler[h].on = {s} /\ handler[h].by = user[s] /\ user[s] \in admitted
    BY <1>7, <1>a DEF JoinTell, TypeInv, JoinersKnown, Joining
  <2>2. /\ UNCHANGED <<socket, user, before, channel>>
        /\ \A g \in Handler \ {h} : handler'[g] = handler[g]
    BY <1>7, <1>b DEF JoinTell, Put, connVars
  <2>3. ASSUME NEW t \in Socket
        PROVE  /\ heard[t].joined \subseteq heard'[t].joined
               /\ t \in channel \ {s} => user[s] \in heard'[t].joined
    BY <1>7, <1>b, <2>1 DEF JoinTell, Events
  <2>4. ASSUME NEW r \in channel, NEW t \in channel \cap before[r]
        PROVE  \/ user[r] \in heard'[t].joined
               \/ \E g \in Handler : handler'[g].pc = "join_tell" /\ r \in handler'[g].on
    <3>1. CASE r = s
      <4>1. t # s
        BY <2>4, <3>1 DEF PresenceInv, NotBeforeItself
      <4> QED
        BY <1>b, <2>3, <3>1, <4>1
    <3>2. CASE r # s
      BY <1>b, <2>1, <2>2, <2>3, <3>2 DEF PresenceInv, EarlierHearsLater
    <3> QED
      BY <3>1, <3>2
  <2>5. EarlierHearsLater'
    BY <2>2, <2>4 DEF EarlierHearsLater
  <2> QED
    BY <1>a, <2>2, <2>5 DEF PresenceInv, NotBeforeItself, GoneForGood
<1>8. ASSUME NEW h \in Handler, PostEmit(h) \/ CommandEmit(h) PROVE PresenceInv'
  <2>1. /\ UNCHANGED <<socket, user, before, channel>>
        /\ \A g \in Handler : At(g, "join_tell") => handler'[g] = handler[g]
    BY <1>8, <1>b DEF PostEmit, CommandEmit, Finish, connVars
  <2>2. \A t \in Socket : heard'[t].joined = heard[t].joined
    BY <1>8, <1>b DEF PostEmit, CommandEmit, Events
  <2> QED
    BY <1>a, <2>1, <2>2, PresenceKept
<1>9. ASSUME NEW h \in Handler, PostInsert(h) \/ CommandCommit(h) \/ (\E u \in User : PostCheck(h, u))
      PROVE  PresenceInv'
  <2>1. /\ UNCHANGED <<socket, user, before, channel, heard>>
        /\ \A g \in Handler : At(g, "join_tell") => handler'[g] = handler[g]
    BY <1>9, <1>b DEF PostInsert, CommandCommit, PostCheck, Put, connVars
  <2> QED
    BY <1>a, <2>1, PresenceKept
<1>10. CASE CommandOverHttp
  BY <1>10, <1>a, PresenceKept DEF CommandOverHttp, connVars
<1>11. CASE UNCHANGED vars
  BY <1>11, <1>a, PresenceKept DEF vars, connVars
<1> QED
  BY <1>1, <1>2, <1>3, <1>4, <1>5, <1>6, <1>7, <1>8, <1>9, <1>10, <1>11 DEF Next

(* EarlierHearsLater: of two sockets in the channel the earlier knows of   *)
(* the later's user, however their joinRooms overlap.                      *)
THEOREM PresenceIsTold == Spec => []EarlierHearsLater
<1>1. PresenceInv => EarlierHearsLater
  BY DEF PresenceInv
<1> QED
  BY <1>1, PresenceInit, PresenceStep, PTL DEF Spec

-----------------------------------------------------------------------------
(* No copy of a message before its broadcast, and one handler to send it. *)
SentOnce ==
    \A h \in Handler : At(h, "post_emit") =>
        /\ \A s \in Socket : Copies(s, handler[h].row) = 0
        /\ \A g \in Handler : At(g, "post_emit") /\ handler[g].row = handler[h].row => g = h

(* No copy of a message that is not inserted yet, and never two. *)
CopiesBounded ==
    \A s \in Socket : \A m \in 1..MaxWrites :
        /\ Copies(s, m) <= 1
        /\ m > messages => Copies(s, m) = 0

MessageInv == TypeInv /\ MessagesExactlyOnce /\ SentOnce /\ CopiesBounded

LEMMA MessageInit == Init => MessageInv
  BY TypeInit DEF Init, MessageInv, MessagesExactlyOnce, SentOnce, CopiesBounded, Copies, Idle, Silence

(* A step that neither inserts nor broadcasts, and lets nobody in but now. *)
LEMMA MessageKept ==
  ASSUME MessageInv, TypeInv', messages' = messages,
         \A s \in Socket : heard'[s].messages = heard[s].messages,
         \A h \in Handler : handler'[h] = handler[h] \/ (~At(h, "post_emit") /\ ~At(h, "post_emit")'),
         \A s \in channel' : \/ s \in channel /\ from'[s] = from[s]
                             \/ from'[s].messages = messages
  PROVE  MessageInv'
<1>1. /\ channel \subseteq Socket /\ channel' \subseteq Socket /\ messages \in 0..MaxWrites
      /\ \A h \in Handler : At(h, "post_emit") => handler[h].row \in 1..messages
  BY DEF MessageInv, TypeInv, TypeOK, WritesHeld
<1>2. \A s \in Socket, m \in 1..MaxWrites : Copies(s, m)' = Copies(s, m)
  BY DEF Copies
<1>3. \A h \in Handler : /\ At(h, "post_emit")' <=> At(h, "post_emit")
                         /\ At(h, "post_emit") => handler'[h] = handler[h]
  OBVIOUS
<1>4. \A m : Emitted(m)' <=> Emitted(m)
  BY <1>3 DEF Emitted
<1>5. ASSUME NEW s \in channel', NEW m \in 1..messages
      PROVE  /\ Copies(s, m) <= 1
             /\ from'[s].messages < m /\ Emitted(m) => Copies(s, m) = 1
  <2>1. s \in Socket /\ m \in 1..MaxWrites
    BY <1>1
  <2>2. CASE s \in channel /\ from'[s] = from[s]
    BY <2>2 DEF MessageInv, MessagesExactlyOnce
  <2>3. CASE from'[s].messages = messages
    BY <1>1, <2>1, <2>3 DEF MessageInv, CopiesBounded
  <2> QED
    BY <2>2, <2>3
<1>6. MessagesExactlyOnce'
  BY <1>1, <1>2, <1>4, <1>5 DEF MessagesExactlyOnce
<1>7. SentOnce'
  BY <1>1, <1>2, <1>3 DEF MessageInv, SentOnce
<1>8. CopiesBounded'
  BY <1>2 DEF MessageInv, CopiesBounded
<1> QED
  BY <1>6, <1>7, <1>8 DEF MessageInv

LEMMA MessageStep == MessageInv /\ [Next]_vars => MessageInv'
<1> SUFFICES ASSUME MessageInv, [Next]_vars PROVE MessageInv'
  OBVIOUS
<1>a. TypeInv /\ TypeOK /\ TypeInv' /\ TypeOK'
  BY TypeStep DEF MessageInv, TypeInv
<1>b. /\ handler \in [Handler -> Task] /\ heard \in [Socket -> Events]
      /\ channel \subseteq Socket /\ messages \in 0..MaxWrites
      /\ \A g \in Handler : At(g, "post_emit") => handler[g].row \in 1..messages
  BY <1>a DEF TypeOK, TypeInv, WritesHeld
<1>1. ASSUME NEW u \in User, MemberJoins(u) \/ MemberLeaves(u) PROVE MessageInv'
  BY <1>1, <1>a, MessageKept DEF MemberJoins, MemberLeaves, connVars, dataVars
<1>2. ASSUME NEW s \in Socket, Connect(s) \/ (\E u \in User : Verified(s, u)) PROVE MessageInv'
  BY <1>2, <1>a, MessageKept DEF Connect, Verified, dataVars
<1>3. ASSUME NEW s \in Socket, Disconnect(s) PROVE MessageInv'
  <2>1. ToldOfDeparture(s, channel') = {}
    BY <1>3 DEF Disconnect, ToldOfDeparture
  <2>2. UNCHANGED <<messages, handler, heard>> /\ channel' = channel \ {s}
    BY <1>3, <1>a, <2>1 DEF Disconnect, TypeOK, dataVars
  <2>3. \A t \in channel' : from'[t] = from[t]
    BY <1>3, <1>a, <2>2 DEF Disconnect, TypeOK
  <2> QED
    BY <1>a, <2>2, <2>3, MessageKept
<1>4. ASSUME NEW h \in Handler, JoinEnter(h) PROVE MessageInv'
  <2>1. PICK s \in Socket : handler[h].on = {s}
    BY <1>4, <1>a DEF JoinEnter, TypeInv, JoinersKnown, Joining
  <2>2. UNCHANGED <<messages, heard>>
    BY <1>4 DEF JoinEnter, dataVars
  <2>3. \A g \in Handler : handler'[g] = handler[g] \/ (~At(g, "post_emit") /\ ~At(g, "post_emit")')
    BY <1>4, <1>b DEF JoinEnter, Put, NextOfJoin
  <2>4. ASSUME NEW t \in channel'
        PROVE  (t \in channel /\ from'[t] = from[t]) \/ from'[t].messages = messages
    <3>1. CASE channel' = channel
      BY <1>4, <2>1, <2>4, <3>1 DEF JoinEnter
    <3>2. CASE channel' # channel
      <4>1. /\ channel' = channel \cup {s}
            /\ from' = [from EXCEPT ![s] = [messages |-> messages, commits |-> commits]]
        BY <1>4, <2>1, <3>2 DEF JoinEnter, Entered
      <4> QED
        BY <1>a, <1>b, <2>4, <4>1 DEF TypeOK
    <3> QED
      BY <3>1, <3>2
  <2> QED
    BY <1>a, <2>2, <2>3, <2>4, MessageKept
<1>5. ASSUME NEW h \in Handler, JoinTell(h) \/ CommandEmit(h) PROVE MessageInv'
  <2>1. /\ UNCHANGED <<messages, channel, from>>
        /\ \A g \in Handler : handler'[g] = handler[g] \/ (~At(g, "post_emit") /\ ~At(g, "post_emit")')
    BY <1>5, <1>b DEF JoinTell, CommandEmit, Put, Finish, Idle, NextOfJoin, connVars, dataVars
  <2>2. ASSUME NEW t \in Socket PROVE heard'[t].messages = heard[t].messages
    <3>1. heard[t] \in Events
      BY <1>b
    <3>2. CASE JoinTell(h)
      BY <3>1, <3>2 DEF JoinTell, Events
    <3>3. CASE CommandEmit(h)
      BY <3>1, <3>3 DEF CommandEmit, Events
    <3> QED
      BY <1>5, <3>2, <3>3
  <2> QED
    BY <1>a, <2>1, <2>2, MessageKept
<1>6. ASSUME NEW h \in Handler,
             \/ \E s \in Socket : JoinCheck(h, s)
             \/ \E u \in User : PostCheck(h, u)
             \/ CommandCommit(h)
      PROVE  MessageInv'
  <2>1. /\ UNCHANGED <<messages, channel, from, heard>>
        /\ \A g \in Handler : handler'[g] = handler[g] \/ (~At(g, "post_emit") /\ ~At(g, "post_emit")')
    BY <1>6, <1>b DEF JoinCheck, PostCheck, CommandCommit, Put, NextOfJoin, connVars, dataVars
  <2> QED
    BY <1>a, <2>1, MessageKept
<1>7. ASSUME NEW h \in Handler, PostInsert(h) PROVE MessageInv'
  <2>1. /\ messages' = messages + 1 /\ UNCHANGED <<channel, heard, from>>
        /\ handler'[h].pc = "post_emit" /\ handler'[h].row = messages + 1
        /\ ~At(h, "post_emit")
        /\ \A g \in Handler \ {h} : handler'[g] = handler[g]
        /\ messages + 1 \in 1..MaxWrites
    BY <1>7, <1>a, <1>b DEF PostInsert, Put, connVars, TypeOK
  <2>2. \A s \in Socket, m \in 1..MaxWrites : Copies(s, m)' = Copies(s, m)
    BY <2>1 DEF Copies
  <2>3. \A s \in Socket : Copies(s, messages + 1) = 0
    BY <1>b, <2>1 DEF MessageInv, CopiesBounded
  <2>4. ASSUME NEW s \in channel, NEW m \in 1..(messages + 1)
        PROVE  /\ Copies(s, m) <= 1
               /\ from[s].messages < m /\ Emitted(m)' => Copies(s, m) = 1
    <3>1. CASE m = messages + 1
      <4>1. ~Emitted(m)'
        BY <2>1, <3>1 DEF Emitted
      <4> QED
        BY <1>b, <2>3, <3>1, <4>1
    <3>2. CASE m \in 1..messages
      <4>1. Emitted(m)' => Emitted(m)
        BY <2>1 DEF Emitted
      <4> QED
        BY <3>2, <4>1 DEF MessageInv, MessagesExactlyOnce
    <3> QED
      BY <1>b, <3>1, <3>2
  <2>5. MessagesExactlyOnce'
    BY <1>b, <2>1, <2>2, <2>4 DEF MessagesExactlyOnce
  <2>6. SentOnce'
    BY <1>b, <2>1, <2>2, <2>3 DEF MessageInv, SentOnce
  <2>7. CopiesBounded'
    BY <1>b, <2>1, <2>2 DEF MessageInv, CopiesBounded
  <2> QED
    BY <1>a, <2>5, <2>6, <2>7 DEF MessageInv
<1>8. ASSUME NEW h \in Handler, PostEmit(h) PROVE MessageInv'
  <2> DEFINE k == handler[h].row
  <2>1. /\ k \in 1..messages /\ k \in 1..MaxWrites /\ At(h, "post_emit")
        /\ UNCHANGED <<messages, channel, from>>
        /\ ~At(h, "post_emit")' /\ \A g \in Handler \ {h} : handler'[g] = handler[g]
    BY <1>8, <1>b DEF PostEmit, Finish, Idle, connVars, dataVars
  <2>2. \A s \in channel : heard'[s].messages = OneMore(heard[s].messages, k)
    BY <1>8, <1>b DEF PostEmit, Receivers, Events
  <2>3. \A s \in Socket \ channel : heard'[s] = heard[s]
    BY <1>8 DEF PostEmit, Receivers
  <2>4. \A s \in Socket : heard[s].messages \in [1..MaxWrites -> Nat]
    BY <1>b DEF Events
  <2>5. ASSUME NEW s \in Socket, NEW m \in 1..MaxWrites
        PROVE  Copies(s, m)' = IF s \in channel /\ m = k THEN Copies(s, m) + 1 ELSE Copies(s, m)
    <3>1. CASE s \in channel
      <4>1. heard'[s].messages = OneMore(heard[s].messages, k) /\ heard[s].messages \in [1..MaxWrites -> Nat]
        BY <2>2, <2>4, <3>1
      <4>2. heard'[s].messages[m] = IF m = k THEN heard[s].messages[m] + 1 ELSE heard[s].messages[m]
        <5>1. k \in 1..MaxWrites
          BY <2>1
        <5> HIDE DEF k
        <5>2. /\ OneMore(heard[s].messages, k)[k] = heard[s].messages[k] + 1
              /\ \A n \in 1..MaxWrites \ {k} : OneMore(heard[s].messages, k)[n] = heard[s].messages[n]
          BY <4>1, <5>1, OneMoreCopy
        <5> QED
          BY <4>1, <5>2
      <4> QED
        BY <3>1, <4>2 DEF Copies
    <3>2. CASE s \notin channel
      BY <2>3, <3>2 DEF Copies
    <3> QED
      BY <3>1, <3>2
  <2>6. \A s \in Socket : Copies(s, k) = 0
    BY <2>1 DEF MessageInv, SentOnce
  <2>7. \A m : m # k /\ Emitted(m)' => Emitted(m)
    BY <2>1 DEF Emitted
  <2>8. ASSUME NEW s \in channel, NEW m \in 1..messages
        PROVE  /\ Copies(s, m)' <= 1
               /\ from[s].messages < m /\ Emitted(m)' => Copies(s, m)' = 1
    <3>1. s \in Socket /\ m \in 1..MaxWrites
      BY <1>b
    <3>2. CASE m = k
      BY <2>5, <2>6, <3>1, <3>2
    <3>3. CASE m # k
      BY <2>5, <2>7, <3>1, <3>3 DEF MessageInv, MessagesExactlyOnce
    <3> QED
      BY <3>2, <3>3
  <2>9. MessagesExactlyOnce'
    BY <2>1, <2>8 DEF MessagesExactlyOnce
  <2>10. SentOnce'
    BY <1>b, <2>1, <2>5 DEF MessageInv, SentOnce
  <2>11. CopiesBounded'
    BY <1>b, <2>1, <2>5, <2>6 DEF MessageInv, CopiesBounded
  <2> QED
    BY <1>a, <2>9, <2>10, <2>11 DEF MessageInv
<1>9. CASE CommandOverHttp
  BY <1>9, <1>a, MessageKept DEF CommandOverHttp, connVars
<1>10. CASE UNCHANGED vars
  BY <1>10, <1>a, MessageKept DEF vars, connVars, dataVars
<1> QED
  BY <1>1, <1>2, <1>3, <1>4, <1>5, <1>6, <1>7, <1>8, <1>9, <1>10 DEF Next

(* MessagesExactlyOnce: who entered before a message was inserted, and     *)
(* stays, gets it, and nobody gets it twice.                               *)
THEOREM EveryMessageOnce == Spec => []MessagesExactlyOnce
<1>1. MessageInv => MessagesExactlyOnce
  BY DEF MessageInv
<1> QED
  BY <1>1, MessageInit, MessageStep, PTL DEF Spec

-----------------------------------------------------------------------------
(* The only broadcast due is the last commit's, if that commit was alone. *)
LastDue ==
    alone /\ ~silent => \A h \in Handler : At(h, "command_emit") => handler[h].row = commits
StateInv == TypeInv /\ ListenersFollow /\ LastDue

LEMMA StateInit == Init => StateInv
  BY TypeInit DEF Init, StateInv, ListenersFollow, LastDue, Beginning, Idle

(* A step that neither commits nor broadcasts a state. *)
LEMMA StateKept ==
  ASSUME StateInv, TypeInv', commits' = commits, alone' = alone, silent' = silent,
         \A s \in Socket : heard'[s].state = heard[s].state,
         \A h \in Handler : \/ handler'[h] = handler[h]
                            \/ ~At(h, "command_emit") /\ ~At(h, "command_emit")',
         \A s \in channel' : \/ s \in channel /\ from'[s] = from[s]
                             \/ from'[s].commits = commits
  PROVE  StateInv'
<1>1. channel' \subseteq Socket /\ commits \in Nat
  BY DEF StateInv, TypeInv, TypeOK
<1>2. Due' = Due
  BY DEF Due
<1>3. LastDue'
  BY DEF StateInv, LastDue
<1>4. ListenersFollow'
  BY <1>1, <1>2 DEF StateInv, ListenersFollow
<1> QED
  BY <1>3, <1>4 DEF StateInv

LEMMA StateStep == StateInv /\ [Next]_vars => StateInv'
<1> SUFFICES ASSUME StateInv, [Next]_vars PROVE StateInv'
  OBVIOUS
<1>a. TypeInv /\ TypeOK /\ TypeInv'
  BY TypeStep DEF StateInv, TypeInv
<1>b. /\ handler \in [Handler -> Task] /\ heard \in [Socket -> Events]
      /\ channel \subseteq Socket
  BY <1>a DEF TypeOK
<1>1. ASSUME NEW u \in User, MemberJoins(u) \/ MemberLeaves(u) PROVE StateInv'
  BY <1>1, <1>a, StateKept DEF MemberJoins, MemberLeaves, connVars, dataVars
<1>2. ASSUME NEW s \in Socket, Connect(s) \/ (\E u \in User : Verified(s, u)) PROVE StateInv'
  BY <1>2, <1>a, StateKept DEF Connect, Verified, dataVars
<1>3. ASSUME NEW s \in Socket, Disconnect(s) PROVE StateInv'
  <2>1. ToldOfDeparture(s, channel') = {}
    BY <1>3 DEF Disconnect, ToldOfDeparture
  <2>2. UNCHANGED <<dataVars, handler, heard>> /\ channel' = channel \ {s}
    BY <1>3, <1>a, <2>1 DEF Disconnect, TypeOK
  <2>3. \A t \in channel' : from'[t] = from[t]
    BY <1>3, <1>a, <2>2 DEF Disconnect, TypeOK
  <2> QED
    BY <1>a, <2>2, <2>3, StateKept DEF dataVars
<1>4. ASSUME NEW h \in Handler, JoinEnter(h) PROVE StateInv'
  <2>1. PICK s \in Socket : handler[h].on = {s}
    BY <1>4, <1>a DEF JoinEnter, TypeInv, JoinersKnown, Joining
  <2>2. UNCHANGED <<dataVars, heard>>
    BY <1>4 DEF JoinEnter
  <2>3. \A g \in Handler : \/ handler'[g] = handler[g]
                           \/ ~At(g, "command_emit") /\ ~At(g, "command_emit")'
    BY <1>4, <1>b DEF JoinEnter, Put, NextOfJoin
  <2>4. ASSUME NEW t \in channel'
        PROVE  (t \in channel /\ from'[t] = from[t]) \/ from'[t].commits = commits
    <3>1. CASE channel' = channel
      BY <1>4, <2>1, <2>4, <3>1 DEF JoinEnter
    <3>2. CASE channel' # channel
      <4>1. /\ channel' = channel \cup {s}
            /\ from' = [from EXCEPT ![s] = [messages |-> messages, commits |-> commits]]
        BY <1>4, <2>1, <3>2 DEF JoinEnter, Entered
      <4> QED
        BY <1>a, <1>b, <2>4, <4>1 DEF TypeOK
    <3> QED
      BY <3>1, <3>2
  <2> QED
    BY <1>a, <2>2, <2>3, <2>4, StateKept DEF dataVars
<1>5. ASSUME NEW h \in Handler, JoinTell(h) \/ PostEmit(h) PROVE StateInv'
  <2>1. /\ UNCHANGED <<dataVars, channel, from>>
        /\ \A g \in Handler : \/ handler'[g] = handler[g]
                              \/ ~At(g, "command_emit") /\ ~At(g, "command_emit")'
    BY <1>5, <1>b DEF JoinTell, PostEmit, Put, Finish, Idle, NextOfJoin, connVars
  <2>2. ASSUME NEW t \in Socket PROVE heard'[t].state = heard[t].state
    <3>1. heard[t] \in Events
      BY <1>b
    <3>2. CASE JoinTell(h)
      BY <3>1, <3>2 DEF JoinTell, Events
    <3>3. CASE PostEmit(h)
      BY <3>1, <3>3 DEF PostEmit, Events
    <3> QED
      BY <1>5, <3>2, <3>3
  <2> QED
    BY <1>a, <2>1, <2>2, StateKept DEF dataVars
<1>6. ASSUME NEW h \in Handler,
             \/ \E s \in Socket : JoinCheck(h, s)
             \/ \E u \in User : PostCheck(h, u)
             \/ PostInsert(h)
      PROVE  StateInv'
  <2>1. /\ UNCHANGED <<commits, alone, silent, channel, from, heard>>
        /\ \A g \in Handler : \/ handler'[g] = handler[g]
                              \/ ~At(g, "command_emit") /\ ~At(g, "command_emit")'
    BY <1>6, <1>b DEF JoinCheck, PostCheck, PostInsert, Put, NextOfJoin, connVars, dataVars
  <2> QED
    BY <1>a, <2>1, StateKept
<1>7. ASSUME NEW h \in Handler, CommandCommit(h) PROVE StateInv'
  <2>1. /\ handler'[h].pc = "command_emit" /\ handler'[h].row = commits'
        /\ \A g \in Handler \ {h} : handler'[g] = handler[g]
    BY <1>7, <1>b DEF CommandCommit, Put
  <2>2. alone' <=> (Due = {})
    BY <1>7, Zenon DEF CommandCommit
  <2>3. LastDue'
    BY <2>1, <2>2 DEF LastDue, Due
  <2>4. ListenersFollow'
    BY <2>1 DEF ListenersFollow, Due
  <2> QED
    BY <1>a, <2>3, <2>4 DEF StateInv
<1>8. ASSUME NEW h \in Handler, CommandEmit(h) PROVE StateInv'
  <2>1. /\ UNCHANGED <<dataVars, channel, from>> /\ At(h, "command_emit") /\ ~At(h, "command_emit")'
        /\ \A g \in Handler \ {h} : handler'[g] = handler[g]
    BY <1>8, <1>b DEF CommandEmit, Finish, Idle, connVars
  <2>2. \A t \in channel : heard'[t].state = handler[h].row
    BY <1>8, <1>b DEF CommandEmit, StateSent, Events
  <2>3. LastDue'
    BY <2>1 DEF StateInv, LastDue, dataVars
  <2>4. alone /\ ~silent => \A t \in channel : heard'[t].state = commits
    BY <2>1, <2>2 DEF StateInv, LastDue
  <2>5. ListenersFollow'
    BY <2>1, <2>4 DEF ListenersFollow, dataVars
  <2> QED
    BY <1>a, <2>3, <2>5 DEF StateInv
<1>9. CASE CommandOverHttp
  <2>1. silent'
    BY <1>9, Zenon DEF CommandOverHttp
  <2> QED
    BY <1>a, <2>1 DEF StateInv, LastDue, ListenersFollow
<1>10. CASE UNCHANGED vars
  BY <1>10, <1>a, StateKept DEF vars, connVars, dataVars
<1> QED
  BY <1>1, <1>2, <1>3, <1>4, <1>5, <1>6, <1>7, <1>8, <1>9, <1>10 DEF Next

(* ListenersFollow: when all is sent, and the last command came over a     *)
(* socket and overlapped with none, every listener has its state.          *)
THEOREM ListenersKeepUp == Spec => []ListenersFollow
<1>1. StateInv => ListenersFollow
  BY DEF StateInv
<1> QED
  BY <1>1, StateInit, StateStep, PTL DEF Spec
=============================================================================

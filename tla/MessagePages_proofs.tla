------------------------ MODULE MessagePages_proofs ------------------------
(***************************************************************************)
(* Reading page by page, for any messages, page size and number of pages.  *)
(* The rank of a message is the number of newer ones: it only grows while  *)
(* the room lives, and a page shows the ranks from its offset on.          *)
(***************************************************************************)
EXTENDS MessagePages, FiniteSetTheorems, TLAPS

Newer(m) == {n \in visible : sentAt[n] > sentAt[m]}
Rank(m) == Cardinality(Newer(m))

(* How many messages the pages so far stand for. *)
Offset == IF pc \in {"count", "done"} THEN page * Limit ELSE Skip(page)

AllUntied == \A m \in visible : Untied(m)

PendingApart == pending \cap visible = {}
ShownVisible == live => shown \subseteq visible /\ first \subseteq visible
Fresh == page = 1 /\ pc \notin {"count", "done"} => shown = {} /\ again = {}

(* What was there at the beginning is shown, or still to come. *)
Covered == \A m \in first \cap visible : Untied(m) => m \in shown \/ Rank(m) >= Offset

(* The next page exists. *)
Counted == live /\ page > 1 /\ pc \in {"idle", "items"} => Cardinality(visible) > Skip(page)

(* Shown, and pushed back by newer messages to where they are shown again. *)
Overtaken == {m \in shown : Rank(m) >= Offset}
Repeats ==
    live /\ AllUntied => Cardinality(again \cup Overtaken) <= Cardinality(visible \ first)

Inv ==
    /\ TypeOK /\ NothingMissed
    /\ PendingApart /\ ShownVisible /\ Fresh /\ Covered /\ Counted /\ Repeats

-----------------------------------------------------------------------------
(* The arithmetic of the pages. *)
LEMMA Offsets ==
    ASSUME NEW p \in Nat \ {0}
    PROVE  /\ Skip(p) \in Nat /\ p * Limit \in Nat
           /\ p * Limit = Skip(p) + Limit
           /\ Skip(p + 1) = p * Limit
           /\ p <= p * Limit
           /\ p = 1 => Skip(p) = 0
<1>1. Limit \in Nat /\ Limit >= 1
    BY PagesAssumption
<1>2. p - 1 \in Nat /\ (p + 1) - 1 = p
    OBVIOUS
<1>3. \A a, b \in Nat : a * b \in Nat
    OBVIOUS
<1>4. p * Limit = (p - 1) * Limit + Limit
    BY <1>1
<1>5. p <= p * Limit
    BY <1>1
<1>6. p = 1 => (p - 1) * Limit = 0
    BY <1>1
<1> QED BY <1>1, <1>2, <1>3, <1>4, <1>5, <1>6 DEF Skip

(* Every set of messages is finite. *)
LEMMA Finite ==
    ASSUME NEW S \in SUBSET Message
    PROVE  IsFiniteSet(S) /\ Cardinality(S) \in Nat /\ Cardinality(S) <= Cardinality(Message)
BY PagesAssumption, FS_Subset, FS_CardinalityType

LEMMA Sub ==
    ASSUME NEW T \in SUBSET Message, NEW S, S \subseteq T
    PROVE  Cardinality(S) \in Nat /\ Cardinality(S) <= Cardinality(T)
BY Finite, FS_Subset, FS_CardinalityType

LEMMA Disjoint ==
    ASSUME NEW S \in SUBSET Message, NEW T \in SUBSET Message, S \cap T = {}
    PROVE  Cardinality(S \cup T) = Cardinality(S) + Cardinality(T)
<1>1. Cardinality(S \cap T) = 0
    BY FS_EmptySet
<1>2. IsFiniteSet(S) /\ IsFiniteSet(T) /\ Cardinality(S) \in Nat /\ Cardinality(T) \in Nat
    BY Finite
<1>3. Cardinality(S \cup T) = Cardinality(S) + Cardinality(T) - Cardinality(S \cap T)
    BY <1>2, FS_Union
<1> QED BY <1>1, <1>2, <1>3

(* A message is not newer than itself, so its rank is a proper one. *)
LEMMA RankType ==
    ASSUME TypeOK, NEW m \in visible
    PROVE  /\ Newer(m) \subseteq visible /\ Newer(m) \subseteq Message
           /\ Rank(m) \in Nat /\ Rank(m) < Cardinality(visible)
<1>1. Newer(m) \subseteq visible /\ visible \in SUBSET Message /\ m \notin Newer(m)
    BY DEF Newer, TypeOK
<1>2. Newer(m) \cup {m} \subseteq visible
    BY <1>1
<1>3. Cardinality(Newer(m) \cup {m}) = Cardinality(Newer(m)) + 1
    BY <1>1, Finite, FS_AddElement
<1> QED BY <1>1, <1>2, <1>3, Finite, Sub DEF Rank

(* Two messages of different moments have different ranks. *)
LEMMA RanksDiffer ==
    ASSUME TypeOK, NEW m \in visible, NEW n \in visible, m # n, Untied(m), Rank(m) = Rank(n)
    PROVE  FALSE
<1>1. ASSUME NEW a \in visible, NEW b \in visible, sentAt[a] > sentAt[b]
      PROVE  Rank(a) < Rank(b)
    <2>1. a \notin Newer(a) /\ Newer(a) \cup {a} \subseteq Newer(b)
        BY <1>1 DEF Newer, TypeOK
    <2>2. Cardinality(Newer(a) \cup {a}) = Rank(a) + 1
        BY <2>1, RankType, Finite, FS_AddElement DEF Rank
    <2> QED BY <2>1, <2>2, RankType, Sub DEF Rank
<1>2. sentAt[m] > sentAt[n] \/ sentAt[n] > sentAt[m]
    BY DEF Untied, TypeOK
<1> QED BY <1>1, <1>2, RankType

(* What a page shows of the messages without a tie: the ranks from the     *)
(* offset on, as many as fit.                                              *)
LEMMA PageRanks ==
    ASSUME TypeOK, NEW P \in SUBSET visible, NEW s \in Nat, IsPage(P, s),
           NEW m \in visible, Untied(m)
    PROVE  /\ m \in P => Rank(m) >= s /\ Rank(m) < s + Limit
           /\ m \notin P /\ Rank(m) >= s => Rank(m) >= s + Limit
<1>1. PICK B \in SUBSET visible :
          /\ Cardinality(B) = Least(s, Cardinality(visible))
          /\ P \subseteq visible \ B
          /\ Cardinality(P) = Least(Limit, Cardinality(visible) - Cardinality(B))
          /\ Ordered(B, P)
    BY DEF IsPage, Take
<1>2. visible \in SUBSET Message /\ B \in SUBSET Message /\ P \in SUBSET Message /\ B \cap P = {}
    BY <1>1 DEF TypeOK
<1>3. /\ Cardinality(visible) \in Nat /\ Cardinality(B) \in Nat /\ Cardinality(P) \in Nat
      /\ Limit \in Nat \ {0} /\ Rank(m) \in Nat /\ Rank(m) < Cardinality(visible)
    BY <1>2, Finite, RankType, PagesAssumption
<1>4. Cardinality(B \cup P) = Cardinality(B) + Cardinality(P)
    BY <1>2, Disjoint
<1>5. /\ s <= Cardinality(visible) => Cardinality(B) = s
      /\ s > Cardinality(visible) => Cardinality(B) = Cardinality(visible)
      /\ Cardinality(B) <= s
      /\ Cardinality(P) <= Limit
      /\ Cardinality(P) <= Cardinality(visible) - Cardinality(B)
      /\ Cardinality(P) = Limit \/ Cardinality(B) + Cardinality(P) = Cardinality(visible)
    BY <1>1, <1>3 DEF Least
<1>6. \A n \in visible : sentAt[n] \in Nat /\ (n # m => sentAt[n] # sentAt[m])
    BY DEF TypeOK, Untied
<1>7. CASE m \in P
    <2>1. B \subseteq Newer(m)
        BY <1>1, <1>6, <1>7 DEF Ordered, Newer
    <2>2. Cardinality(B) <= Rank(m)
        BY <2>1, RankType, Sub DEF Rank
    <2>3. s <= Cardinality(visible)
        BY <1>3, <1>5, <2>2
    <2>4. Newer(m) \cup {m} \subseteq B \cup P /\ m \notin Newer(m)
        BY <1>1, <1>6, <1>7 DEF Ordered, Newer
    <2>5. Cardinality(Newer(m) \cup {m}) = Rank(m) + 1
        BY <2>4, RankType, Finite, FS_AddElement DEF Rank
    <2>6. Rank(m) + 1 <= Cardinality(B \cup P)
        BY <1>2, <2>4, <2>5, Sub
    <2> QED BY <1>3, <1>4, <1>5, <1>7, <2>2, <2>3, <2>6
<1>8. CASE m \in B
    <2>1. Newer(m) \cup {m} \subseteq B /\ m \notin Newer(m)
        BY <1>1, <1>6, <1>8 DEF Ordered, Newer
    <2>2. Cardinality(Newer(m) \cup {m}) = Rank(m) + 1
        BY <2>1, RankType, Finite, FS_AddElement DEF Rank
    <2>3. Rank(m) + 1 <= Cardinality(B)
        BY <1>2, <2>1, <2>2, Sub
    <2> QED BY <1>2, <1>3, <1>5, <1>8, <2>3
<1>9. CASE m \notin B \cup P
    <2>1. B \cup P \subseteq Newer(m)
        BY <1>1, <1>6, <1>9 DEF Ordered, Newer
    <2>2. Cardinality(B) + Cardinality(P) <= Rank(m)
        BY <1>4, <2>1, RankType, Sub DEF Rank
    <2>3. Cardinality(P) = Limit /\ Cardinality(B) = s
        BY <1>3, <1>5, <2>2
    <2> QED BY <1>3, <1>9, <2>2, <2>3
<1> QED BY <1>7, <1>8, <1>9

-----------------------------------------------------------------------------
LEMMA InitInv == Init => Inv
<1> SUFFICES ASSUME Init PROVE Inv
    OBVIOUS
<1>1. Cardinality(Message) \in Nat /\ Cardinality(Message) >= 1
    BY PagesAssumption, FS_CardinalityType, FS_EmptySet
<1>2. TypeOK
    BY <1>1, PagesAssumption DEF Init, TypeOK
<1>3. again \cup Overtaken = {} /\ visible \ first = {}
    BY DEF Init, Overtaken
<1>4. Repeats
    BY <1>3, FS_EmptySet DEF Repeats
<1> QED BY <1>2, <1>4
    DEF Init, Inv, NothingMissed, PendingApart, ShownVisible, Fresh, Covered, Counted

(* What the invariant says of the rooms and the reader as a whole is kept  *)
(* by a step that leaves alone the rows, the stamps of the rows, and what  *)
(* the reader has.                                                         *)
LEMMA QuietInv ==
    ASSUME Inv, TypeOK', PendingApart',
           \A m \in visible : sentAt'[m] = sentAt[m],
           UNCHANGED <<visible, live, page, shown, again, first>>,
           \/ pc' = pc
           \/ pc = "idle" /\ pc' = "stopped"
           \/ pc = "idle" /\ pc' = "items" /\ live
    PROVE  Inv'
<1> USE DEF Inv
<1>1. \A m \in visible : Untied(m)' <=> Untied(m)
    BY DEF Untied
<1>2. \A m \in visible : Newer(m)' = Newer(m)
    BY DEF Newer
<1>3. \A m \in visible : Rank(m)' = Rank(m)
    BY <1>2 DEF Rank
<1>4. Offset' = Offset
    BY DEF Offset, Skip
<1>5. NothingMissed' /\ Covered'
    BY <1>1, <1>3, <1>4 DEF NothingMissed, Covered
<1>6. ShownVisible' /\ Fresh' /\ Counted'
    BY DEF ShownVisible, Fresh, Counted, Skip
<1>7. Repeats'
    <2> SUFFICES ASSUME live, AllUntied'
                 PROVE  Cardinality(again \cup Overtaken') <= Cardinality(visible \ first)
        BY DEF Repeats
    <2>1. AllUntied
        BY <1>1 DEF AllUntied
    <2>2. Overtaken' = Overtaken
        BY <1>3, <1>4 DEF Overtaken, ShownVisible
    <2> QED BY <2>1, <2>2 DEF Repeats
<1> QED BY <1>5, <1>6, <1>7

LEMMA StampInv == ASSUME Inv, NEW m \in Message, Stamp(m) PROVE Inv'
<1>1. TypeOK'
    BY DEF Inv, TypeOK, Stamp, readerVars
<1>2. PendingApart' /\ \A n \in visible : sentAt'[n] = sentAt[n]
    BY DEF Inv, TypeOK, PendingApart, Stamp
<1> QED BY <1>1, <1>2, QuietInv DEF Stamp, readerVars

LEMMA TickInv == ASSUME Inv, Tick PROVE Inv'
<1>1. TypeOK'
    BY PagesAssumption DEF Inv, TypeOK, Tick, readerVars
<1> QED BY <1>1, QuietInv DEF Inv, PendingApart, Tick, readerVars

LEMMA JoinOrLeaveInv == ASSUME Inv, JoinOrLeave PROVE Inv'
<1>1. TypeOK'
    BY DEF Inv, TypeOK, JoinOrLeave, readerVars
<1> QED BY <1>1, QuietInv DEF Inv, PendingApart, JoinOrLeave, readerVars

LEMMA AskInv == ASSUME Inv, Ask PROVE Inv'
<1>1. TypeOK'
    BY DEF Inv, TypeOK, Ask, roomVars
<1> QED BY <1>1, QuietInv DEF Inv, PendingApart, Ask, roomVars

LEMMA DeleteRoomInv == ASSUME Inv, DeleteRoom PROVE Inv'
<1>1. TypeOK'
    BY DEF Inv, TypeOK, DeleteRoom, readerVars
<1> QED BY <1>1
    DEF Inv, DeleteRoom, readerVars, NothingMissed, PendingApart, ShownVisible, Fresh, Covered,
        Counted, Repeats

-----------------------------------------------------------------------------
(* A message comes in: of two that it pushes back over the offset at once, *)
(* both had the rank before it.                                            *)
LEMMA CommitInv == ASSUME Inv, NEW x \in Message, Commit(x) PROVE Inv'
<1> USE DEF Inv
<1>1. /\ x \notin visible /\ visible' = visible \cup {x} /\ live
      /\ UNCHANGED <<sentAt, live, pc, page, shown, again, first>>
    BY DEF Commit, PendingApart, readerVars
<1>2. TypeOK'
    BY DEF TypeOK, Commit, readerVars
<1>3. shown \subseteq visible /\ first \subseteq visible /\ x \notin first
    BY <1>1 DEF ShownVisible
<1>4. visible \in SUBSET Message /\ visible' \in SUBSET Message
    BY <1>2 DEF TypeOK
<1>5. \A m \in visible : Untied(m)' => Untied(m)
    BY <1>1 DEF Untied
<1>6. ASSUME NEW m \in visible
      PROVE  Rank(m) \in Nat /\ Rank(m)' \in Nat /\ Rank(m) <= Rank(m)' /\ Rank(m)' <= Rank(m) + 1
    <2>1. Newer(m) \subseteq Newer(m)' /\ Newer(m)' \subseteq Newer(m) \cup {x}
        BY <1>1 DEF Newer
    <2>2. Newer(m) \in SUBSET Message /\ Newer(m)' \in SUBSET Message
        BY <1>4 DEF Newer
    <2>3. Cardinality(Newer(m) \cup {x}) <= Cardinality(Newer(m)) + 1
        BY <2>2, Finite, FS_AddElement
    <2>4. Cardinality(Newer(m)') <= Cardinality(Newer(m) \cup {x})
        BY <2>1, <2>2, Sub
    <2> QED BY <2>1, <2>2, <2>3, <2>4, Finite, Sub DEF Rank
<1>7. Offset' = Offset /\ Offset \in Nat
    BY <1>1, Offsets DEF Offset, Skip, TypeOK
<1>8. NothingMissed' /\ Covered'
    BY <1>1, <1>3, <1>5, <1>6, <1>7 DEF NothingMissed, Covered
<1>9. PendingApart' /\ ShownVisible' /\ Fresh'
    BY <1>1 DEF Commit, PendingApart, ShownVisible, Fresh
<1>10. Counted'
    <2>1. Cardinality(visible) <= Cardinality(visible')
        BY <1>1, <1>4, Sub
    <2>2. Skip(page) \in Nat
        BY Offsets DEF TypeOK
    <2> QED BY <1>1, <1>4, <2>1, <2>2, Finite DEF Counted, Skip
<1>11. Repeats'
    <2> SUFFICES ASSUME AllUntied'
                 PROVE  Cardinality(again \cup Overtaken') <= Cardinality(visible' \ first)
        BY <1>1 DEF Repeats
    <2> DEFINE old == again \cup Overtaken
               new == again \cup Overtaken'
    <2>1. AllUntied
        BY <1>1, <1>5 DEF AllUntied
    <2>2. Cardinality(old) <= Cardinality(visible \ first)
        BY <1>1, <2>1 DEF Repeats
    <2>3. visible' \ first = (visible \ first) \cup {x} /\ x \notin visible \ first
        BY <1>1, <1>3
    <2>4. Cardinality(visible' \ first) = Cardinality(visible \ first) + 1
        BY <1>4, <2>3, Finite, FS_AddElement
    <2>5. old \in SUBSET Message /\ new \in SUBSET Message
        BY <1>1, <1>2 DEF TypeOK, Overtaken
    <2>6. /\ Cardinality(old) \in Nat /\ Cardinality(new) \in Nat
          /\ Cardinality(visible \ first) \in Nat
        BY <1>4, <2>5, Finite
    <2>7. CASE Overtaken' \subseteq Overtaken
        <3>1. Cardinality(new) <= Cardinality(old)
            BY <2>5, <2>7, Sub
        <3> QED BY <2>2, <2>4, <2>6, <3>1
    <2>8. CASE ~(Overtaken' \subseteq Overtaken)
        <3>1. PICK m \in Overtaken' : m \notin Overtaken
            BY <2>8
        <3>2. ASSUME NEW n \in Overtaken', n \notin Overtaken
              PROVE  n \in visible /\ Rank(n) + 1 = Offset
            BY <1>1, <1>3, <1>6, <1>7, <3>2 DEF Overtaken
        <3>3. ASSUME NEW n \in Overtaken', n \notin Overtaken PROVE n = m
            <4>1. n \in visible /\ m \in visible /\ Rank(n) = Rank(m)
                BY <1>6, <1>7, <3>1, <3>2, <3>3
            <4> QED BY <2>1, <4>1, RanksDiffer DEF AllUntied
        <3>4. new \subseteq old \cup {m}
            BY <3>3
        <3>5. m \in Message
            BY <3>1, <2>5
        <3>6. Cardinality(new) <= Cardinality(old \cup {m})
            BY <2>5, <3>4, <3>5, Sub
        <3>7. Cardinality(old \cup {m}) <= Cardinality(old) + 1
            <4> HIDE DEF old
            <4>1. IsFiniteSet(old)
                BY <2>5, Finite
            <4>2. Cardinality(old \cup {m}) =
                     IF m \in old THEN Cardinality(old) ELSE Cardinality(old) + 1
                BY <4>1, FS_AddElement
            <4> QED BY <2>6, <4>2
        <3>8. Cardinality(old \cup {m}) \in Nat
            BY <2>5, <3>5, Finite
        <3> QED BY <2>2, <2>4, <2>6, <3>6, <3>7, <3>8
    <2> QED BY <2>7, <2>8
<1> QED BY <1>2, <1>8, <1>9, <1>10, <1>11

-----------------------------------------------------------------------------
(* A page: of the messages shown before, it shows the overtaken ones; what *)
(* it does not show is still to come.                                      *)
LEMMA ItemsInv == ASSUME Inv, Items PROVE Inv'
<1> USE DEF Inv
<1>1. PICK P \in SUBSET visible :
          IsPage(P, Skip(page)) /\ shown' = shown \cup P /\ again' = again \cup (P \cap shown)
    BY DEF Items
<1>2. /\ pc = "items" /\ pc' = "count" /\ page' = page
      /\ first' = IF page = 1 THEN visible ELSE first
      /\ UNCHANGED <<now, sentAt, pending, visible, live, member>>
    BY DEF Items, roomVars
<1>3. TypeOK'
    BY <1>1, <1>2 DEF TypeOK
<1>4. /\ page \in Nat \ {0} /\ Skip(page) \in Nat
      /\ Offset = Skip(page) /\ Offset' = Skip(page) + Limit
    BY <1>2, Offsets DEF TypeOK, Offset
<1>5. \A m : Untied(m)' <=> Untied(m)
    BY <1>2 DEF Untied
<1>6. \A m : Newer(m)' = Newer(m)
    BY <1>2 DEF Newer
<1>7. \A m : Rank(m)' = Rank(m)
    BY <1>6 DEF Rank
<1>8. ASSUME NEW m \in visible, Untied(m)
      PROVE  /\ m \in P => Rank(m) >= Skip(page) /\ Rank(m) < Skip(page) + Limit
             /\ m \notin P /\ Rank(m) >= Skip(page) => Rank(m) >= Skip(page) + Limit
    BY <1>1, <1>4, <1>8, PageRanks
<1>9. NothingMissed' /\ PendingApart' /\ ShownVisible' /\ Fresh' /\ Counted'
    BY <1>1, <1>2 DEF NothingMissed, PendingApart, ShownVisible, Fresh, Counted
<1>10. Covered'
    <2> SUFFICES ASSUME NEW m \in first', m \in visible, Untied(m), m \notin shown \cup P
                 PROVE  Rank(m) >= Skip(page) + Limit
        BY <1>1, <1>2, <1>4, <1>5, <1>7 DEF Covered
    <2>1. Rank(m) \in Nat
        BY RankType
    <2>2. Rank(m) >= Skip(page)
        <3>1. CASE page = 1
            BY <1>4, <2>1, <3>1, Offsets
        <3>2. CASE page # 1
            BY <1>2, <1>4, <3>2 DEF Covered
        <3> QED BY <3>1, <3>2
    <2> QED BY <1>8, <2>2
<1>11. Repeats'
    <2> SUFFICES ASSUME live, AllUntied
                 PROVE  Cardinality(again' \cup Overtaken') <= Cardinality(visible \ first')
        BY <1>2, <1>5 DEF Repeats, AllUntied
    <2>1. shown \subseteq visible /\ visible \in SUBSET Message /\ Limit \in Nat
        BY PagesAssumption DEF ShownVisible, TypeOK
    <2>2. \A m \in visible : Rank(m) \in Nat
        BY RankType
    <2>3. Overtaken' \subseteq Overtaken
        <3> SUFFICES ASSUME NEW m \in shown', Rank(m) >= Skip(page) + Limit
                     PROVE  m \in shown /\ Rank(m) >= Skip(page)
            BY <1>4, <1>7 DEF Overtaken
        <3>1. m \in visible /\ Untied(m)
            BY <1>1, <2>1 DEF AllUntied
        <3> QED BY <1>1, <1>4, <1>8, <2>1, <2>2, <3>1
    <2>4. P \cap shown \subseteq Overtaken
        BY <1>4, <1>8 DEF AllUntied, Overtaken
    <2>5. again' \cup Overtaken' \subseteq again \cup Overtaken
        BY <1>1, <2>3, <2>4
    <2>6. CASE page = 1
        <3>1. again' \cup Overtaken' = {}
            BY <1>2, <2>5, <2>6 DEF Fresh, Overtaken
        <3> QED BY <1>2, <2>1, <2>6, <3>1, Finite, FS_EmptySet
    <2>7. CASE page # 1
        <3>1. again \cup Overtaken \in SUBSET Message
            BY DEF TypeOK, Overtaken
        <3>2. Cardinality(again' \cup Overtaken') <= Cardinality(again \cup Overtaken)
            BY <2>5, <3>1, Sub
        <3>3. Cardinality(again \cup Overtaken) <= Cardinality(visible \ first)
            BY DEF Repeats
        <3>4. again' \cup Overtaken' \in SUBSET Message
            BY <2>5, <3>1
        <3> QED BY <1>2, <2>1, <2>7, <3>1, <3>2, <3>3, <3>4, Finite
    <2> QED BY <2>6, <2>7
<1> QED BY <1>3, <1>9, <1>10, <1>11

(* The count: later than the page, so never too small.                     *)
LEMMA CountInv == ASSUME Inv, Count PROVE Inv'
<1> USE DEF Inv
<1>1. /\ pc = "count" /\ UNCHANGED <<now, sentAt, pending, visible, live, member>>
      /\ UNCHANGED <<shown, again, first>>
    BY DEF Count, roomVars
<1>2. /\ page \in Nat \ {0} /\ page * Limit \in Nat /\ Offset = page * Limit
      /\ page <= page * Limit
    BY <1>1, Offsets DEF TypeOK, Offset
<1>3. /\ visible \in SUBSET Message /\ Cardinality(visible) \in Nat
      /\ Cardinality(visible) <= Cardinality(Message) /\ Cardinality(Message) \in Nat
    BY Finite DEF TypeOK
<1>4. \A m : (Untied(m)' <=> Untied(m)) /\ Newer(m)' = Newer(m)
    BY <1>1 DEF Untied, Newer
<1>5. \A m : Rank(m)' = Rank(m)
    BY <1>4 DEF Rank
<1>6. CASE HasNext(page, Cardinality(visible))
    <2>1. pc' = "idle" /\ page' = page + 1 /\ page * Limit < Cardinality(visible)
        BY <1>6 DEF Count, HasNext
    <2>2. page' \in 1..Cardinality(Message)
        BY <1>2, <1>3, <2>1
    <2>3. TypeOK'
        BY <1>1, <2>1, <2>2 DEF TypeOK
    <2>4. Skip(page') = page * Limit
        BY <1>2, <2>1, Offsets
    <2>5. Offset' = Offset
        BY <1>1, <1>2, <2>1, <2>4 DEF Offset, Skip
    <2>6. Counted'
        BY <1>1, <2>1, <2>4 DEF Counted, Skip
    <2>7. Overtaken' = Overtaken
        BY <1>1, <1>5, <2>5 DEF Overtaken
    <2>8. Covered' /\ Repeats'
        BY <1>1, <1>4, <1>5, <2>5, <2>7 DEF Covered, Repeats, AllUntied
    <2>9. page' # 1
        BY <1>2, <2>1
    <2> QED BY <1>1, <2>1, <2>3, <2>6, <2>8, <2>9
        DEF NothingMissed, PendingApart, ShownVisible, Fresh
<1>7. CASE ~HasNext(page, Cardinality(visible))
    <2>1. pc' = "done" /\ page' = page /\ page * Limit >= Cardinality(visible)
        BY <1>2, <1>3, <1>7 DEF Count, HasNext
    <2>2. TypeOK'
        BY <1>1, <2>1 DEF TypeOK
    <2>3. Offset' = Offset
        BY <1>1, <2>1 DEF Offset
    <2>4. Overtaken' = Overtaken
        BY <1>1, <1>5, <2>3 DEF Overtaken
    <2>5. Covered' /\ Repeats'
        BY <1>1, <1>4, <1>5, <2>3, <2>4 DEF Covered, Repeats, AllUntied
    <2>6. NothingMissed'
        <3> SUFFICES ASSUME NEW m \in first, m \in visible, Untied(m) PROVE m \in shown
            BY <1>1, <1>4 DEF NothingMissed
        <3>1. Rank(m) \in Nat /\ Rank(m) < Cardinality(visible)
            BY RankType
        <3> QED BY <1>2, <1>3, <2>1, <3>1 DEF Covered
    <2> QED BY <1>1, <2>1, <2>2, <2>5, <2>6 DEF PendingApart, ShownVisible, Fresh, Counted
<1> QED BY <1>6, <1>7

LEMMA NextInv == Inv /\ [Next]_vars => Inv'
<1> SUFFICES ASSUME Inv, [Next]_vars PROVE Inv'
    OBVIOUS
<1>1. ASSUME NEW m \in Message, Stamp(m) \/ Commit(m) PROVE Inv'
    BY <1>1, StampInv, CommitInv
<1>2. CASE DeleteRoom \/ JoinOrLeave \/ Tick
    BY <1>2, DeleteRoomInv, JoinOrLeaveInv, TickInv
<1>3. CASE Ask \/ Items \/ Count
    BY <1>3, AskInv, ItemsInv, CountInv
<1>4. CASE UNCHANGED vars
    <2>1. TypeOK' /\ PendingApart'
        BY <1>4 DEF vars, roomVars, readerVars, Inv, TypeOK, PendingApart
    <2> QED BY <1>4, <2>1, QuietInv DEF vars, roomVars, readerVars
<1> QED BY <1>1, <1>2, <1>3, <1>4 DEF Next

LEMMA Invariant == Spec => []Inv
<1>1. QED BY InitInv, NextInv, PTL DEF Spec

(* Types, and no reader is sent past the last message. *)
THEOREM PagesTypeCorrect == Spec => []TypeOK
<1>1. Inv => TypeOK
    BY DEF Inv
<1> QED BY <1>1, Invariant, PTL

(* Reading to the end shows all there was at the beginning. *)
THEOREM NothingIsMissed == Spec => []NothingMissed
<1>1. Inv => NothingMissed
    BY DEF Inv
<1> QED BY <1>1, Invariant, PTL

(* Every repetition has a message that came in to account for it. *)
THEOREM RepeatsAreExplained == Spec => []RepeatsExplained
<1>1. Inv => RepeatsExplained
    <2> SUFFICES ASSUME Inv, live, AllUntied
                 PROVE  Cardinality(again) <= Cardinality(visible \ first)
        BY DEF RepeatsExplained, AllUntied
    <2>1. again \cup Overtaken \in SUBSET Message /\ visible \ first \in SUBSET Message
        BY DEF Inv, TypeOK, Overtaken
    <2>2. Cardinality(again) <= Cardinality(again \cup Overtaken)
        BY <2>1, Sub
    <2>3. Cardinality(again \cup Overtaken) <= Cardinality(visible \ first)
        BY DEF Inv, Repeats
    <2>4. Cardinality(again) \in Nat
        BY <2>1, Sub
    <2> QED BY <2>1, <2>2, <2>3, <2>4, Finite
<1> QED BY <1>1, Invariant, PTL

(* hasNextPage never promises a page that is not there. *)
THEOREM PromisesAreKept == Spec => []PromisesKept
<1>1. Inv => PromisesKept
    BY DEF Inv, Counted, PromisesKept
<1> QED BY <1>1, Invariant, PTL
=============================================================================

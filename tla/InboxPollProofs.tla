-------------------------- MODULE InboxPollProofs --------------------------
(***************************************************************************)
(* Proofs about InboxPoll, for any number of mails, any page size, retry   *)
(* budget and set of important mails, and any number of polls, changes of  *)
(* the mailbox, faults and deaths: its types, that the cursor passes no    *)
(* mail by, that an important one is announced, and that what the user has *)
(* handled stays handled.                                                  *)
(***************************************************************************)
EXTENDS InboxPoll, FiniteSetTheorems, TLAPS
----------------------------------------------------------------------------
(* Finite sets of uids. *)

\* A finite set of numbers has a greatest: the m with the fewest above it.
LEMMA MaxInSet ==
  ASSUME NEW S \in SUBSET Nat, IsFiniteSet(S), S # {}
  PROVE  /\ Max(S) \in S
         /\ \A n \in S : n <= Max(S)
<1> DEFINE above(m) == {n \in S : n > m}
           T == {above(m) : m \in S}
<1>1. IsWellFoundedOn(StrictSubsetOrdering(S), FiniteSubsetsOf(S))
  BY FS_StrictSubsetOrderingWellFounded
<1>2. \A m \in S : IsFiniteSet(above(m)) /\ above(m) \in SUBSET S
  <2> SUFFICES ASSUME NEW m \in S PROVE IsFiniteSet(above(m)) /\ above(m) \in SUBSET S
    OBVIOUS
  <2>1. above(m) \in SUBSET S
    OBVIOUS
  <2> QED  BY <2>1, FS_Subset
<1>3. T \subseteq FiniteSubsetsOf(S) /\ T # {}
  <2> HIDE DEF above
  <2> QED  BY <1>2 DEF FiniteSubsetsOf
<1>4. PICK t \in T : \A u \in T : ~(<<u, t>> \in StrictSubsetOrdering(S))
  <2> HIDE DEF T
  <2> QED  BY <1>1, <1>3, WFMin
<1>5. PICK m \in S : t = above(m)
  OBVIOUS
<1>6. ASSUME NEW n \in S, n > m PROVE FALSE
  <2>1. above(n) \in T /\ above(n) \in SUBSET S /\ t \in SUBSET S
    BY <1>5
  <2> HIDE DEF T
  <2>2. \A k \in above(n) : k > m
    <3> SUFFICES ASSUME NEW k \in S, k > n PROVE k > m
      OBVIOUS
    <3>1. k \in Nat /\ n \in Nat /\ m \in Nat
      OBVIOUS
    <3> QED  BY <3>1, <1>6
  <2>3. n \in t /\ n \notin above(n) /\ above(n) \subseteq t
    <3>1. n \in t
      BY <1>5, <1>6
    <3>2. ~(n > n)
      <4>1. n \in Nat
        OBVIOUS
      <4> QED  BY <4>1
    <3> QED  BY <1>5, <2>2, <3>1, <3>2
  <2> HIDE DEF above
  <2>4. <<above(n), t>> \in StrictSubsetOrdering(S)
    BY <2>1, <2>3 DEF StrictSubsetOrdering
  <2> QED
    BY <2>1, <2>4, <1>4
<1>7. \A n \in S : n <= m
  <2> SUFFICES ASSUME NEW n \in S PROVE n <= m
    OBVIOUS
  <2>1. n \in Nat /\ m \in Nat
    OBVIOUS
  <2> QED  BY <2>1, <1>6
<1> QED
  BY <1>7 DEF Max

\* The highest uid of a set of mails is one of them, or 0 (email.py:323).
LEMMA HighestIsHere ==
  ASSUME NEW S \in SUBSET Mail
  PROVE  /\ IsFiniteSet(S)
         /\ Highest(S) \in Cursor
         /\ S # {} => Highest(S) = Max(S) /\ Max(S) \in S
         /\ \A m \in S : m <= Highest(S)
<1>1. N \in Nat /\ Mail \in SUBSET Nat /\ Mail \in SUBSET Cursor /\ 0 \in Cursor
  BY InboxPollAssumption DEF Mail, Cursor
<1>2. IsFiniteSet(S)
  <2>1. IsFiniteSet(Mail)
    BY <1>1, FS_Interval DEF Mail
  <2> QED
    BY <2>1, FS_Subset
<1>3. S # {} => Max(S) \in S /\ \A m \in S : m <= Max(S)
  BY <1>1, <1>2, MaxInSet
<1> HIDE DEF Highest
<1>4. Highest(S) = IF S = {} THEN 0 ELSE Max(S)
  BY DEF Highest
<1> QED
  BY <1>1, <1>2, <1>3, <1>4

\* A page of the oldest mails leaves none out below its last.
LEMMA OldestIsPrefix ==
  ASSUME NEW T \in SUBSET Mail, NEW m \in T, NEW k \in Oldest(T), m <= k
  PROVE  m \in Oldest(T)
<1> DEFINE below(n) == {i \in T : i < n}
<1>1. below(m) \subseteq below(k)
  <2>1. Mail \in SUBSET Nat /\ k \in Mail /\ m \in Mail
    BY DEF Oldest, Mail
  <2> SUFFICES ASSUME NEW i \in T, i < m PROVE i < k
    OBVIOUS
  <2>2. i \in Nat /\ k \in Nat /\ m \in Nat
    BY <2>1
  <2> QED  BY <2>2
<1>2. IsFiniteSet(below(k)) /\ IsFiniteSet(below(m))
  BY HighestIsHere
<1>3. Cardinality(below(m)) <= Cardinality(below(k))
  <2> HIDE DEF below
  <2> QED  BY <1>1, <1>2, FS_Subset
<1>4. /\ Cardinality(below(m)) \in Nat
      /\ Cardinality(below(k)) \in Nat
  <2> HIDE DEF below
  <2> QED  BY <1>2, FS_CardinalityType
<1>5. Cardinality(below(k)) < Limit
  BY DEF Oldest
<1>6. Cardinality(below(m)) < Limit
  <2> HIDE DEF below
  <2> QED  BY <1>3, <1>4, <1>5, InboxPollAssumption
<1> QED
  BY <1>6 DEF Oldest
----------------------------------------------------------------------------
(* The inductive invariant. *)

\* A mark under way is about a mail that has a row.
MarkHasRow == mark # NoMark => mark.mail \in Known /\ mark.to # "none"

\* Mails arrive in the order of their uids.
InOrder == \A m, n \in Mail : m < n /\ box[m] = "absent" => box[n] = "absent"

\* A cursor is the uid of a mail that has arrived.
Reached(c) == c = 0 \/ box[c] # "absent"

\* Every mail up to a cursor has a row, was passed over, or is in S.
Met == Known \union past["passed"]
Covered(c, S) == \A m \in Here : m <= c => m \in Met \union S

PollSound(p) ==
    /\ Reached(polls[p].after) /\ Reached(polls[p].next)
    /\ Covered(polls[p].after, {})
    /\ polls[p].pc \in {"fetched", "sync"} =>
           Covered(polls[p].next, polls[p].page \union polls[p].unread)
    /\ polls[p].pc \in {"classify", "store"} =>
           Covered(polls[p].next, polls[p].todo)
    /\ polls[p].stored # {} => polls[p].pc = "store"

IInv ==
    /\ TypeOK
    /\ MarkHasRow
    /\ InOrder
    /\ Reached(last) /\ Covered(last, {})
    /\ \A p \in Poll : PollSound(p)
----------------------------------------------------------------------------
(* Types. *)

\* What a step puts into last, polls and mark.
LEMMA Values ==
  /\ 0 \in Cursor
  /\ NoPoll \in Execution
  /\ \A c \in Cursor : Requested(c) \in Execution
  /\ \A e \in Execution : Again(e) \in Execution
  /\ NoMark \in Mark
<1>1. MaxRetries \in Nat /\ N \in Nat
  BY InboxPollAssumption
<1>2. 0 \in Cursor
  BY <1>1 DEF Cursor
<1>3. NoPoll \in Execution
  BY <1>1, <1>2 DEF NoPoll, Execution, Places
<1>4. \A c \in Cursor : Requested(c) \in Execution
  BY <1>3 DEF Requested, Execution, Places
<1>5. \A e \in Execution : Again(e) \in Execution
  <2> SUFFICES ASSUME NEW e \in Execution PROVE Again(e) \in Execution
    OBVIOUS
  <2>1. e.after \in Cursor /\ e.tries \in 0..MaxRetries
    BY DEF Execution
  <2>2. Requested(e.after) \in Execution
    BY <2>1, <1>4
  <2>3. e.tries < MaxRetries => e.tries + 1 \in 0..MaxRetries
    BY <2>1, <1>1
  <2> QED
    BY <1>3, <2>2, <2>3 DEF Again, Execution
<1> QED
  BY <1>2, <1>3, <1>4, <1>5 DEF Mark

\* The bounds only count.
LEMMA Counts ==
  ASSUME spent \in [Spent -> Nat], Works \/ Fails
  PROVE  spent' \in [Spent -> Nat]
BY DEF Works, Fails, Spent

\* The types hold at first.
LEMMA TypeInit == Init => TypeOK
<1> SUFFICES ASSUME Init PROVE TypeOK
  OBVIOUS
<1>1. rows \in [Mail -> Row] /\ box \in [Mail -> {"absent", "unread", "read", "gone"}]
  BY DEF Init, Row, Statuses
<1>2. polls \in [Poll -> Execution] /\ mark \in Mark /\ last \in Cursor
  BY Values DEF Init
<1>3. spent \in [Spent -> Nat] /\ past \in [{"passed", "cut"} -> SUBSET Mail]
  BY DEF Init
<1> QED
  BY <1>1, <1>2, <1>3 DEF TypeOK, Init

\* Every step keeps the types.
LEMMA TypeNext ==
  ASSUME TypeOK, [Next]_vars
  PROVE  TypeOK'
<1> USE Values DEF TypeOK
<1>1. ASSUME NEW m \in Mail, Arrives(m) PROVE TypeOK'
  BY <1>1 DEF Arrives, Works, Spent
<1>2. ASSUME NEW m \in Mail, NEW to \in {"read", "unread", "gone"}, Elsewhere(m, to) PROVE TypeOK'
  BY <1>2 DEF Elsewhere, Works, Spent
<1>3. ASSUME Renumbered PROVE TypeOK'
  <2>1. \A p \in Poll : [polls[p] EXCEPT !.after = 0, !.next = 0] \in Execution
    BY DEF Execution
  <2>2. polls' \in [Poll -> Execution]
    BY <2>1, <1>3 DEF Renumbered
  <2>3. spent' \in [Spent -> Nat]
    <3>1. Works
      BY <1>3 DEF Renumbered
    <3> QED  BY <3>1, Counts
  <2> QED
    BY <2>2, <2>3, <1>3 DEF Renumbered
<1>4. ASSUME TimerDue PROVE TypeOK'
  BY <1>4 DEF TimerDue
<1>5. ASSUME Rearm PROVE TypeOK'
  BY <1>5 DEF Rearm, Fails, Spent
<1>6. ASSUME OnTimerFired PROVE TypeOK'
  BY <1>6 DEF OnTimerFired, Ask, Poll
<1>7. ASSUME PollInbox PROVE TypeOK'
  BY <1>7 DEF PollInbox, Ask, Works, Spent, Poll
<1>8. ASSUME NEW p \in Poll, Index(p) PROVE TypeOK'
  <2>1. Unseen \in SUBSET Mail
    BY DEF Unseen
  <2> DEFINE new == [polls[p] EXCEPT !.pc = "indexed", !.unread = Unseen]
  <2>7. new \in Execution
    BY <2>1, polls[p] \in Execution DEF Execution, Places
  <2>8. polls' = [polls EXCEPT ![p] = new]
    BY <1>8 DEF Index
  <2> HIDE DEF new
  <2> QED
    BY <2>7, <2>8, <1>8 DEF Index
<1>9. ASSUME NEW p \in Poll, PageSince(p) PROVE TypeOK'
  <2> DEFINE page == Oldest(Since(polls[p].after))
             new == [polls[p] EXCEPT !.pc = "fetched", !.page = page,
                         !.next = IF page = {} THEN polls[p].after ELSE Max(page)]
  <2>1. page \in SUBSET Mail
    BY DEF Oldest, Since, Here
  <2>2. page # {} => Max(page) \in Cursor
    BY <2>1, HighestIsHere
  <2>7. new \in Execution
    <3> HIDE DEF page
    <3> QED  BY <2>1, <2>2, polls[p] \in Execution DEF Execution, Places
  <2>8. polls' = [polls EXCEPT ![p] = new]
    BY <1>9 DEF PageSince
  <2> HIDE DEF new
  <2> QED
    BY <2>7, <2>8, <1>9 DEF PageSince
<1>10. ASSUME NEW p \in Poll, PageNewest(p) PROVE TypeOK'
  <2>1. Newest(Here) \in SUBSET Mail
    BY DEF Newest, Here
  <2> DEFINE new == [polls[p] EXCEPT !.pc = "paged", !.page = Newest(Here)]
  <2>7. new \in Execution
    BY <2>1, polls[p] \in Execution DEF Execution, Places
  <2>8. polls' = [polls EXCEPT ![p] = new]
    BY <1>10 DEF PageNewest
  <2> HIDE DEF new
  <2> QED
    BY <2>7, <2>8, <1>10 DEF PageNewest
<1>11. ASSUME NEW p \in Poll, PageHighest(p) PROVE TypeOK'
  <2>1. Here \in SUBSET Mail
    BY DEF Here
  <2>2. Highest(Here) \in Cursor
    BY <2>1, HighestIsHere
  <2>4. past' \in [{"passed", "cut"} -> SUBSET Mail]
    BY <2>1, <1>11 DEF PageHighest, Remember
  <2> DEFINE new == [polls[p] EXCEPT !.pc = "fetched", !.next = Highest(Here)]
  <2>7. new \in Execution
    BY <2>2, polls[p] \in Execution DEF Execution, Places
  <2>8. polls' = [polls EXCEPT ![p] = new]
    BY <1>11 DEF PageHighest
  <2> HIDE DEF new
  <2> QED
    BY <2>7, <2>8, <1>11, <2>4 DEF PageHighest
<1>12. ASSUME NEW p \in Poll, FetchFails(p) PROVE TypeOK'
  <2> DEFINE new == [NoPoll EXCEPT !.pc = "done", !.tries = polls[p].tries, !.after = polls[p].after]
  <2>7. new \in Execution
    BY polls[p] \in Execution DEF Execution, Places
  <2>8. polls' = [polls EXCEPT ![p] = new]
    BY <1>12 DEF FetchFails
  <2> HIDE DEF new
  <2> QED
    BY <2>7, <2>8, <1>12 DEF FetchFails, Fails, Spent
<1>13. ASSUME NEW p \in Poll, NEW m \in Mail, SyncUnread(p, m) PROVE TypeOK'
  <2>1. rows' \in [Mail -> Row]
    BY <1>13 DEF SyncUnread, Row, Statuses
  <2>2. [polls[p] EXCEPT !.pc = "sync"] \in Execution
    BY polls[p] \in Execution DEF Execution, Places
  <2>3. polls' \in [Poll -> Execution]
    BY <2>2, <1>13 DEF SyncUnread
  <2> QED
    BY <2>1, <2>3, <1>13 DEF SyncUnread
<1>14. ASSUME NEW p \in Poll, Compare(p) PROVE TypeOK'
  <2>1. Missing(p) \in SUBSET Mail
    BY DEF Missing, Execution
  <2> DEFINE new == [polls[p] EXCEPT !.todo = Missing(p), !.page = {},
                     !.unread = @ \intersect Missing(p),
                     !.pc = IF Missing(p) = {} THEN "store" ELSE "classify"]
  <2>7. new \in Execution
    BY <2>1, polls[p] \in Execution DEF Execution, Places
  <2>8. polls' = [polls EXCEPT ![p] = new]
    BY <1>14 DEF Compare
  <2> HIDE DEF new
  <2> QED
    BY <2>7, <2>8, <1>14 DEF Compare
<1>15. ASSUME NEW p \in Poll, Classified(p) PROVE TypeOK'
  <2>1. [polls[p] EXCEPT !.pc = "store"] \in Execution
    BY polls[p] \in Execution DEF Execution, Places
  <2> QED
    BY <2>1, <1>15 DEF Classified
<1>16. ASSUME NEW p \in Poll, NEW m \in Mail, Record(p, m) PROVE TypeOK'
  <2>1. rows' \in [Mail -> Row]
    BY <1>16 DEF Record, Row, Statuses
  <2> DEFINE new == [polls[p] EXCEPT !.todo = @ \ {m}, !.stored = @ \union {m}]
  <2>7. new \in Execution
    BY polls[p] \in Execution DEF Execution, Places
  <2>8. polls' = [polls EXCEPT ![p] = new]
    BY <1>16 DEF Record
  <2> HIDE DEF new
  <2> QED
    BY <2>7, <2>8, <1>16, <2>1 DEF Record
<1>17. ASSUME NEW p \in Poll, NEW m \in Mail, RecordRead(p, m) PROVE TypeOK'
  BY <1>17 DEF RecordRead, Row, Statuses
<1>18. ASSUME NEW p \in Poll, NEW m \in Mail, Flag(p, m) PROVE TypeOK'
  BY <1>18 DEF Flag, Row, Statuses
<1>19. ASSUME NEW p \in Poll, Complete(p) PROVE TypeOK'
  BY <1>19 DEF Complete, Report, Execution, Places
<1>20. ASSUME NEW p \in Poll, Ends(p) PROVE TypeOK'
  BY <1>20 DEF Ends
<1>21. ASSUME NEW p \in Poll, Cut(p) PROVE TypeOK'
  <2>1. Flagless(p) \in SUBSET Mail
    BY DEF Flagless, Execution
  <2>2. past' \in [{"passed", "cut"} -> SUBSET Mail]
    BY <2>1, <1>21 DEF Cut, Remember
  <2>3. polls' \in [Poll -> Execution] /\ spent' \in [Spent -> Nat]
    BY <1>21 DEF Cut, Fails, Spent
  <2> QED
    BY <2>2, <2>3, <1>21 DEF Cut
<1>22. ASSUME NEW m \in Mail, NEW to \in Statuses \ {"none"}, MarkAtOnce(m, to) PROVE TypeOK'
  BY <1>22 DEF MarkAtOnce, Works, Row, Spent
<1>23. ASSUME NEW m \in Mail, NEW to \in Statuses \ {"none"}, MarkBegins(m, to) PROVE TypeOK'
  BY <1>23 DEF MarkBegins, Works, Spent, Mark
<1>24. ASSUME MarkSent PROVE TypeOK'
  <2>1. mark # NoMark => mark.mail \in Mail /\ [mark EXCEPT !.sent = TRUE] \in Mark
    BY DEF Mark
  <2>2. mark' \in Mark /\ box' \in [Mail -> {"absent", "unread", "read", "gone"}]
    BY <2>1, <1>24 DEF MarkSent
  <2> QED
    BY <2>2, <1>24 DEF MarkSent
<1>25. ASSUME MarkStored PROVE TypeOK'
  BY <1>25 DEF MarkStored, Mark, Row
<1>26. ASSUME MarkFails PROVE TypeOK'
  BY <1>26 DEF MarkFails, Fails, Spent
<1>27. ASSUME Dies PROVE TypeOK'
  <2>1. UNION {Flagless(p) : p \in Poll} \in SUBSET Mail
    BY DEF Flagless, Execution
  <2>2. past' \in [{"passed", "cut"} -> SUBSET Mail]
    BY <2>1, <1>27 DEF Dies, Remember
  <2>3. polls' \in [Poll -> Execution]
    BY <1>27 DEF Dies
  <2>4. spent' \in [Spent -> Nat]
    BY <1>27 DEF Dies, Fails, Spent
  <2> QED
    BY <2>2, <2>3, <2>4, <1>27 DEF Dies
<1>28. ASSUME Boots PROVE TypeOK'
  BY <1>28 DEF Boots
<1>29. CASE UNCHANGED vars
  BY <1>29 DEF vars
<1> QED
  BY <1>1, <1>2, <1>3, <1>4, <1>5, <1>6, <1>7, <1>8, <1>9, <1>10, <1>11, <1>12, <1>13, <1>14, <1>15, <1>16, <1>17, <1>18, <1>19, <1>20, <1>21, <1>22, <1>23, <1>24, <1>25, <1>26, <1>27, <1>28, <1>29 DEF Next, Goes, PollStep, UserMarks

----------------------------------------------------------------------------
(* Who writes what. *)

\* Only these steps write the mailbox, the rows, the history and the cursor.
Written ==
    /\ \/ box' = box
       \/ \E m \in Mail : Arrives(m)
       \/ \E m \in Mail, to \in {"read", "unread", "gone"} : Elsewhere(m, to)
       \/ MarkSent
    /\ \/ rows' = rows
       \/ \E p \in Poll, m \in Mail :
              SyncUnread(p, m) \/ Record(p, m) \/ RecordRead(p, m) \/ Flag(p, m)
       \/ UserMarks
    /\ \/ past' = past
       \/ \E p \in Poll : PageHighest(p) \/ Cut(p)
       \/ Dies
    /\ \/ last' = last
       \/ Renumbered
       \/ \E p \in Poll : FetchFails(p) \/ Complete(p)
    /\ \/ mark' = mark
       \/ \E m \in Mail, to \in Statuses \ {"none"} : MarkBegins(m, to)
       \/ MarkSent \/ MarkStored \/ MarkFails \/ Dies

\* The list is complete.
LEMMA Writers ==
  ASSUME [Next]_vars
  PROVE  Written
<1> USE DEF Written
<1>1. ASSUME NEW m \in Mail, Arrives(m) PROVE Written
  BY <1>1 DEF Arrives
<1>2. ASSUME NEW m \in Mail, NEW to \in {"read", "unread", "gone"}, Elsewhere(m, to) PROVE Written
  BY <1>2 DEF Elsewhere
<1>3. ASSUME Renumbered PROVE Written
  BY <1>3 DEF Renumbered
<1>4. ASSUME TimerDue PROVE Written
  BY <1>4 DEF TimerDue
<1>5. ASSUME Rearm PROVE Written
  BY <1>5 DEF Rearm
<1>6. ASSUME OnTimerFired PROVE Written
  BY <1>6 DEF OnTimerFired, Ask
<1>7. ASSUME PollInbox PROVE Written
  BY <1>7 DEF PollInbox, Ask
<1>8. ASSUME NEW p \in Poll, Index(p) PROVE Written
  BY <1>8 DEF Index
<1>9. ASSUME NEW p \in Poll, PageSince(p) PROVE Written
  BY <1>9 DEF PageSince
<1>10. ASSUME NEW p \in Poll, PageNewest(p) PROVE Written
  BY <1>10 DEF PageNewest
<1>11. ASSUME NEW p \in Poll, PageHighest(p) PROVE Written
  BY <1>11 DEF PageHighest
<1>12. ASSUME NEW p \in Poll, FetchFails(p) PROVE Written
  BY <1>12 DEF FetchFails
<1>13. ASSUME NEW p \in Poll, NEW m \in Mail, SyncUnread(p, m) PROVE Written
  BY <1>13 DEF SyncUnread
<1>14. ASSUME NEW p \in Poll, Compare(p) PROVE Written
  BY <1>14 DEF Compare
<1>15. ASSUME NEW p \in Poll, Classified(p) PROVE Written
  BY <1>15 DEF Classified
<1>16. ASSUME NEW p \in Poll, NEW m \in Mail, Record(p, m) PROVE Written
  BY <1>16 DEF Record
<1>17. ASSUME NEW p \in Poll, NEW m \in Mail, RecordRead(p, m) PROVE Written
  BY <1>17 DEF RecordRead
<1>18. ASSUME NEW p \in Poll, NEW m \in Mail, Flag(p, m) PROVE Written
  BY <1>18 DEF Flag
<1>19. ASSUME NEW p \in Poll, Complete(p) PROVE Written
  BY <1>19 DEF Complete
<1>20. ASSUME NEW p \in Poll, Ends(p) PROVE Written
  BY <1>20 DEF Ends
<1>21. ASSUME NEW p \in Poll, Cut(p) PROVE Written
  BY <1>21 DEF Cut
<1>22. ASSUME NEW m \in Mail, NEW to \in Statuses \ {"none"}, MarkAtOnce(m, to) PROVE Written
  BY <1>22 DEF MarkAtOnce, UserMarks
<1>23. ASSUME NEW m \in Mail, NEW to \in Statuses \ {"none"}, MarkBegins(m, to) PROVE Written
  BY <1>23 DEF MarkBegins
<1>24. ASSUME MarkSent PROVE Written
  BY <1>24 DEF MarkSent
<1>25. ASSUME MarkStored PROVE Written
  BY <1>25 DEF MarkStored, UserMarks
<1>26. ASSUME MarkFails PROVE Written
  BY <1>26 DEF MarkFails
<1>27. ASSUME Dies PROVE Written
  BY <1>27 DEF Dies
<1>28. ASSUME Boots PROVE Written
  BY <1>28 DEF Boots
<1>29. CASE UNCHANGED vars
  BY <1>29 DEF vars
<1> HIDE DEF Written
<1> QED
  BY <1>1, <1>2, <1>3, <1>4, <1>5, <1>6, <1>7, <1>8, <1>9, <1>10, <1>11, <1>12, <1>13, <1>14, <1>15, <1>16, <1>17, <1>18, <1>19, <1>20, <1>21, <1>22, <1>23, <1>24, <1>25, <1>26, <1>27, <1>28, <1>29 DEF Next, Goes, PollStep, UserMarks

\* A poll is moved by its own steps, a change of the mailbox or a death.
Moved(p) ==
    \/ polls'[p] = polls[p]
    \/ polls[p].pc = "idle" /\ polls'[p] = Requested(last)
    \/ Index(p) \/ PageSince(p) \/ PageNewest(p) \/ PageHighest(p) \/ FetchFails(p)
    \/ Compare(p) \/ Classified(p) \/ Complete(p) \/ Ends(p) \/ Cut(p)
    \/ \E m \in Mail : SyncUnread(p, m) \/ Record(p, m)
    \/ Renumbered \/ Dies

\* The list is complete.
LEMMA Movers ==
  ASSUME TypeOK, [Next]_vars, NEW p \in Poll
  PROVE  Moved(p)
<1> USE DEF TypeOK, Moved
<1>1. ASSUME NEW m \in Mail, Arrives(m) PROVE Moved(p)
  BY <1>1 DEF Arrives
<1>2. ASSUME NEW m \in Mail, NEW to \in {"read", "unread", "gone"}, Elsewhere(m, to) PROVE Moved(p)
  BY <1>2 DEF Elsewhere
<1>3. ASSUME TimerDue \/ Rearm \/ Boots PROVE Moved(p)
  BY <1>3 DEF TimerDue, Rearm, Boots
<1>4. ASSUME OnTimerFired \/ PollInbox PROVE Moved(p)
  BY <1>4 DEF OnTimerFired, PollInbox, Ask
<1>5. ASSUME NEW q \in Poll, Index(q) PROVE Moved(p)
  BY <1>5, q = p \/ q # p DEF Index
<1>6. ASSUME NEW q \in Poll, PageSince(q) PROVE Moved(p)
  BY <1>6, q = p \/ q # p DEF PageSince
<1>7. ASSUME NEW q \in Poll, PageNewest(q) PROVE Moved(p)
  BY <1>7, q = p \/ q # p DEF PageNewest
<1>8. ASSUME NEW q \in Poll, PageHighest(q) PROVE Moved(p)
  BY <1>8, q = p \/ q # p DEF PageHighest
<1>9. ASSUME NEW q \in Poll, FetchFails(q) PROVE Moved(p)
  BY <1>9, q = p \/ q # p DEF FetchFails
<1>10. ASSUME NEW q \in Poll, NEW m \in Mail, SyncUnread(q, m) PROVE Moved(p)
  BY <1>10, q = p \/ q # p DEF SyncUnread
<1>11. ASSUME NEW q \in Poll, Compare(q) PROVE Moved(p)
  BY <1>11, q = p \/ q # p DEF Compare
<1>12. ASSUME NEW q \in Poll, Classified(q) PROVE Moved(p)
  BY <1>12, q = p \/ q # p DEF Classified
<1>13. ASSUME NEW q \in Poll, NEW m \in Mail, Record(q, m) PROVE Moved(p)
  BY <1>13, q = p \/ q # p DEF Record
<1>14. ASSUME NEW q \in Poll, NEW m \in Mail, RecordRead(q, m) \/ Flag(q, m) PROVE Moved(p)
  BY <1>14 DEF RecordRead, Flag
<1>15. ASSUME NEW q \in Poll, Complete(q) PROVE Moved(p)
  BY <1>15, q = p \/ q # p DEF Complete
<1>16. ASSUME NEW q \in Poll, Ends(q) PROVE Moved(p)
  BY <1>16, q = p \/ q # p DEF Ends
<1>17. ASSUME NEW q \in Poll, Cut(q) PROVE Moved(p)
  BY <1>17, q = p \/ q # p DEF Cut
<1>18. ASSUME NEW m \in Mail, NEW to \in Statuses \ {"none"}, MarkAtOnce(m, to) \/ MarkBegins(m, to) PROVE Moved(p)
  BY <1>18 DEF MarkAtOnce, MarkBegins
<1>19. ASSUME MarkSent \/ MarkStored \/ MarkFails PROVE Moved(p)
  BY <1>19 DEF MarkSent, MarkStored, MarkFails
<1>20. ASSUME Renumbered \/ Dies PROVE Moved(p)
  BY <1>20
<1>21. CASE UNCHANGED vars
  BY <1>21 DEF vars
<1> HIDE DEF Moved
<1> QED
  BY <1>1, <1>2, <1>3, <1>4, <1>5, <1>6, <1>7, <1>8, <1>9, <1>10, <1>11, <1>12, <1>13, <1>14, <1>15, <1>16, <1>17, <1>18, <1>19, <1>20, <1>21 DEF Next, Goes, PollStep, UserMarks
----------------------------------------------------------------------------
(* The invariant is kept. *)

\* Rows and the history only grow, and what arrives has a higher uid than any
\* cursor so far.
LEMMA Grows ==
  ASSUME TypeOK, MarkHasRow, InOrder, [Next]_vars
  PROVE  /\ Known \subseteq Known' /\ Met \subseteq Met'
         /\ \A c \in Cursor : Reached(c) =>
                /\ c = 0 \/ box'[c] # "absent"
                /\ \A m \in Here' : m <= c => m \in Here
         /\ InOrder'
<1>1. Written /\ TypeOK'
  BY Writers, TypeNext
<1>2. \A m \in Mail : rows[m].status # "none" => rows'[m].status # "none"
  <2>1. CASE rows' = rows
    BY <2>1
  <2>2. ASSUME NEW p \in Poll, NEW m \in Mail, SyncUnread(p, m)
        PROVE  \A n \in Mail : rows[n].status # "none" => rows'[n].status # "none"
    BY <2>2 DEF SyncUnread, TypeOK, Row
  <2>3. ASSUME NEW p \in Poll, NEW m \in Mail, Record(p, m) \/ RecordRead(p, m) \/ Flag(p, m)
        PROVE  \A n \in Mail : rows[n].status # "none" => rows'[n].status # "none"
    BY <2>3 DEF Record, RecordRead, Flag, TypeOK, Row
  <2>4. ASSUME NEW m \in Mail, NEW to \in Statuses \ {"none"}, MarkAtOnce(m, to)
        PROVE  \A n \in Mail : rows[n].status # "none" => rows'[n].status # "none"
    BY <2>4 DEF MarkAtOnce, TypeOK, Row
  <2>5. CASE MarkStored
    BY <2>5 DEF MarkStored, MarkHasRow, TypeOK, Row
  <2> QED
    BY <1>1, <2>1, <2>2, <2>3, <2>4, <2>5 DEF Written, UserMarks
<1>3. past["passed"] \subseteq past'["passed"]
  <2>1. ASSUME NEW p \in Poll, PageHighest(p) \/ Cut(p)
        PROVE  past["passed"] \subseteq past'["passed"]
    BY <2>1 DEF PageHighest, Cut, Remember, TypeOK
  <2>2. CASE Dies
    BY <2>2 DEF Dies, Remember, TypeOK
  <2> QED
    BY <1>1, <2>1, <2>2 DEF Written
<1>4. /\ \A m \in Mail : box[m] # "absent" => box'[m] # "absent"
      /\ \A m \in Here' : m \in Here \/ box[m] = "absent"
      /\ InOrder'
  <2> DEFINE Goal == /\ \A m \in Mail : box[m] # "absent" => box'[m] # "absent"
                     /\ \A m \in Here' : m \in Here \/ box[m] = "absent"
                     /\ InOrder'
  <2>1. CASE box' = box
    BY <2>1 DEF Here, InOrder
  <2>2. ASSUME NEW m \in Mail, Arrives(m) PROVE Goal
    <3>1. m \in Nat /\ Mail \in SUBSET Nat
      BY InboxPollAssumption DEF Mail
    <3>2. \A n \in Mail : n < m => box[n] # "absent"
      BY <2>2, InboxPollAssumption DEF Arrives, Mail
    <3> QED
      BY <2>2, <3>1, <3>2 DEF Arrives, Here, InOrder, TypeOK
  <2>3. ASSUME NEW m \in Mail, NEW to \in {"read", "unread", "gone"}, Elsewhere(m, to)
        PROVE  Goal
    BY <2>3 DEF Elsewhere, Here, InOrder, TypeOK
  <2>4. CASE MarkSent
    BY <2>4 DEF MarkSent, Here, InOrder, TypeOK
  <2> QED
    BY <1>1, <2>1, <2>2, <2>3, <2>4 DEF Written
<1>5. \A c \in Cursor : Reached(c) => \A m \in Here' : m <= c => m \in Here
  <2> SUFFICES ASSUME NEW c \in Cursor, Reached(c), NEW m \in Here', m <= c, box[m] = "absent"
               PROVE  FALSE
    BY <1>4
  <2>1. m \in Mail /\ c \in Mail \union {0} /\ Mail \in SUBSET (Nat \ {0})
    BY InboxPollAssumption DEF Here, Mail, Cursor
  <2> QED
    BY <2>1 DEF Reached, InOrder
<1> QED
  <2>1. \A c \in Cursor : Reached(c) => c = 0 \/ box'[c] # "absent"
    BY <1>4, InboxPollAssumption DEF Reached, Cursor, Mail
  <2> QED
    BY <1>2, <1>3, <1>4, <1>5, <2>1 DEF Known, Met

\* So what a cursor has covered stays covered.
LEMMA CoveredStays ==
  ASSUME TypeOK, MarkHasRow, InOrder, [Next]_vars
  PROVE  \A c \in Cursor, S \in SUBSET Mail :
             Reached(c) /\ Covered(c, S) => \A m \in Here' : m <= c => m \in Met' \union S
BY Grows DEF Covered

\* A page behind a cursor has the oldest mails behind it, all of them up to
\* its last; a newest page has none of that, and puts what it leaves out down
\* as passed over.  What was read is recorded before it is reported.
LEMMA PollSoundNext ==
  ASSUME IInv, [Next]_vars, NEW p \in Poll
  PROVE  PollSound(p)'
<1> DEFINE e == polls[p]
           new == polls'[p]
           Kept(c, S) == \A m \in Here' : m <= c => m \in Met' \union S
           Above(c) == c = 0 \/ box'[c] # "absent"
<1>1. TypeOK /\ TypeOK' /\ Moved(p) /\ PollSound(p) /\ last \in Cursor
  BY TypeNext, Movers DEF IInv, TypeOK
<1>2. /\ e \in Execution /\ new \in Execution /\ e.after \in Cursor /\ e.next \in Cursor
      /\ {e.page, e.unread, e.todo, e.stored} \in SUBSET SUBSET Mail
  BY <1>1 DEF TypeOK, Execution
<1>3. /\ Known \subseteq Known' /\ Met \subseteq Met'
      /\ \A c \in Cursor : Reached(c) => Above(c)
      /\ \A c \in Cursor, S \in SUBSET Mail : Reached(c) /\ Covered(c, S) => Kept(c, S)
  BY Grows, CoveredStays DEF IInv
<1>4. Above(0) /\ \A S : Kept(0, S)
  BY DEF Here, Mail
<1>5. Above(e.after) /\ Above(e.next) /\ Kept(e.after, {})
  BY <1>1, <1>2, <1>3 DEF PollSound
<1>6. Above(last) /\ Kept(last, {})
  BY <1>1, <1>3 DEF IInv
<1> DEFINE Goal ==
        /\ Above(new.after) /\ Above(new.next)
        /\ Kept(new.after, {})
        /\ new.pc \in {"fetched", "sync"} => Kept(new.next, new.page \union new.unread)
        /\ new.pc \in {"classify", "store"} => Kept(new.next, new.todo)
        /\ new.stored # {} => new.pc = "store"
<1>7. SUFFICES Goal
  BY DEF PollSound, Reached, Covered
<1>8. CASE new = e
  BY <1>1, <1>2, <1>3, <1>5, <1>8 DEF PollSound
<1>9. CASE new = Requested(last)
  BY <1>4, <1>6, <1>9 DEF Requested, NoPoll
<1>10. CASE Index(p) \/ PageNewest(p)
  <2>1. new.after = e.after /\ new.next = e.next /\ new.stored = {} /\ new.pc \in {"indexed", "paged"}
    BY <1>1, <1>10 DEF TypeOK, PollSound, Index, PageNewest, Execution
  <2> QED
    BY <2>1, <1>5
<1>11. CASE PageSince(p)
  <2> DEFINE page == Oldest(Since(e.after))
  <2>1. /\ new.after = e.after /\ new.stored = {} /\ new.pc = "fetched" /\ new.page = page
        /\ new.next = IF page = {} THEN e.after ELSE Max(page)
    BY <1>1, <1>11 DEF TypeOK, PollSound, PageSince, Execution
  <2>2. page \in SUBSET Here /\ Here \in SUBSET Mail
    BY DEF Oldest, Since, Here
  <2>3. page # {} => Max(page) \in page /\ \A m \in page : m <= Max(page)
    BY <2>2, HighestIsHere
  <2>4. Kept(new.next, new.page \union new.unread)
    <3> SUFFICES ASSUME page # {} PROVE Kept(Max(page), page)
      BY <2>1, <1>5
    <3>1. Max(page) \in Cursor /\ Reached(Max(page))
      BY <2>2, <2>3, InboxPollAssumption DEF Here, Mail, Cursor, Reached
    <3>2. ASSUME NEW m \in Here, m <= Max(page) PROVE m \in Met \union page
      <4>1. CASE m <= e.after
        BY <4>1, <1>1 DEF PollSound, Covered
      <4>2. CASE m > e.after
        <5>1. m \in Since(e.after) /\ Since(e.after) \in SUBSET Mail
          BY <4>2, <2>2 DEF Since
        <5> QED
          BY <5>1, <3>2, <2>3, OldestIsPrefix
      <4> QED
        BY <4>1, <4>2, <1>2, <2>2, InboxPollAssumption DEF Mail, Cursor
    <3>3. Covered(Max(page), page)
      BY <3>2 DEF Covered
    <3> HIDE DEF page
    <3> QED
      BY <3>1, <3>3, <2>2, <1>3
  <2>5. Above(new.next)
    BY <2>1, <2>2, <2>3, <1>3, <1>5, InboxPollAssumption DEF Here, Mail, Cursor, Reached
  <2> QED
    BY <2>1, <2>4, <2>5, <1>5
<1>12. CASE PageHighest(p)
  <2>1. /\ new.after = e.after /\ new.stored = {} /\ new.pc = "fetched" /\ new.page = e.page
        /\ new.unread = e.unread /\ new.next = Highest(Here)
    BY <1>1, <1>12 DEF TypeOK, PollSound, PageHighest, Execution
  <2>2. Here' = Here /\ Known' = Known /\ box' = box
    BY <1>12 DEF PageHighest, Here, Known
  <2>3. past'["passed"] = past["passed"] \union (Here \ (Known \union e.page \union e.unread))
    BY <1>1, <1>12 DEF TypeOK, PageHighest, Remember
  <2>4. Kept(new.next, new.page \union new.unread)
    BY <2>1, <2>2, <2>3 DEF Met
  <2>5. Above(Highest(Here))
    BY <2>2, HighestIsHere DEF Highest, Here
  <2> QED
    BY <2>1, <2>4, <2>5, <1>5
<1>13. CASE FetchFails(p) \/ Complete(p) \/ Ends(p)
  <2>1. \/ new = NoPoll
        \/ new = [NoPoll EXCEPT !.pc = "done", !.tries = e.tries, !.after = e.after]
    BY <1>1, <1>13 DEF TypeOK, FetchFails, Complete, Ends
  <2>2. new.after \in {e.after, 0} /\ new.next = 0 /\ new.stored = {} /\ new.pc \in {"done", "idle"}
    <3> HIDE DEF new, e
    <3>1. CASE new = NoPoll
      BY <3>1 DEF NoPoll
    <3>2. CASE new = [NoPoll EXCEPT !.pc = "done", !.tries = e.tries, !.after = e.after]
      BY <3>2 DEF NoPoll
    <3> QED  BY <2>1, <3>1, <3>2
  <2> QED
    BY <2>2, <1>4, <1>5
<1>14. CASE Compare(p)
  <2>1. /\ new.after = e.after /\ new.next = e.next /\ new.stored = e.stored
        /\ new.pc = IF Missing(p) = {} THEN "store" ELSE "classify"
        /\ new.todo = Missing(p)
    BY <1>1, <1>14 DEF TypeOK, Compare, Execution
  <2>2. e.pc \in {"fetched", "sync"}
    BY <1>14 DEF Compare, Syncing
  <2>3. Kept(e.next, e.page \union e.unread)
    BY <2>2, <1>1, <1>2, <1>3 DEF PollSound
  <2>4. Kept(e.next, new.todo)
    BY <2>1, <2>3, <1>3 DEF Missing, Met
  <2> QED
    BY <2>1, <2>2, <2>4, <1>1, <1>5 DEF PollSound
<1>15. CASE Classified(p)
  <2>1. /\ e.pc = "classify" /\ new.pc = "store" /\ new.after = e.after
        /\ new.next = e.next /\ new.todo = e.todo
    BY <1>1, <1>15 DEF TypeOK, Classified, Execution
  <2> QED
    BY <2>1, <1>1, <1>2, <1>3, <1>5 DEF PollSound
<1>16. CASE Cut(p) \/ Dies
  <2>1. new \in {e, NoPoll, Again(e)}
    BY <1>1, <1>16 DEF TypeOK, Cut, Dies
  <2>2. CASE new \in {NoPoll, Again(e)}
    <3>1. new.after \in {e.after, 0} /\ new.next = 0 /\ new.stored = {} /\ new.pc \in {"idle", "queued"}
      <4> HIDE DEF new, e
      <4>1. CASE new = NoPoll
        BY <4>1 DEF NoPoll
      <4>2. CASE new = [Requested(e.after) EXCEPT !.tries = e.tries + 1]
        BY <4>2 DEF Requested, NoPoll
      <4> QED  BY <2>2, <4>1, <4>2 DEF Again
    <3> QED
      BY <3>1, <1>4, <1>5
  <2> QED
    BY <2>1, <2>2, <1>8
<1>17. ASSUME NEW m \in Mail, SyncUnread(p, m) PROVE Goal
  <2>1. /\ e.pc \in {"fetched", "sync"} /\ new.pc = "sync" /\ new.after = e.after
        /\ new.next = e.next /\ new.page = e.page /\ new.unread = e.unread /\ new.stored = e.stored
    BY <1>1, <1>17 DEF TypeOK, SyncUnread, Syncing, Execution
  <2> QED
    BY <2>1, <1>1, <1>2, <1>3, <1>5 DEF PollSound
<1>18. ASSUME NEW m \in Mail, Record(p, m) PROVE Goal
  <2>1. /\ e.pc = "store" /\ new.pc = "store" /\ new.after = e.after
        /\ new.next = e.next /\ new.todo = e.todo \ {m}
    BY <1>1, <1>18 DEF TypeOK, Record, Storing, Execution
  <2>2. m \in Met'
    BY <1>1, <1>18 DEF TypeOK, Record, Row, Met, Known
  <2>3. Kept(e.next, e.todo)
    BY <2>1, <1>1, <1>2, <1>3 DEF PollSound
  <2> QED
    BY <2>1, <2>2, <2>3, <1>5
<1>19. CASE Renumbered
  <2>1. /\ new.after = 0 /\ new.next = 0 /\ new.pc = e.pc /\ new.stored = e.stored
    <3>1. new = [e EXCEPT !.after = 0, !.next = 0]
      BY <1>19 DEF Renumbered
    <3> HIDE DEF new, e
    <3> QED  BY <3>1, <1>2 DEF Execution
  <2> QED
    BY <2>1, <1>1, <1>4 DEF PollSound
<1> HIDE DEF Goal, new, e
<1> QED
  BY <1>1, <1>8, <1>9, <1>10, <1>11, <1>12, <1>13, <1>14, <1>15, <1>16, <1>17, <1>18, <1>19 DEF Moved, new, e

\* The invariant holds at first.
LEMMA InvInit == Init => IInv
<1> SUFFICES ASSUME Init PROVE IInv
  OBVIOUS
<1>1. TypeOK
  BY TypeInit
<1>2. InOrder
  BY InboxPollAssumption DEF Init, InOrder, Mail
<1>3. \A p \in Poll : polls[p] = NoPoll
  BY DEF Init
<1>4. \A S : Covered(0, S)
  BY DEF Covered, Here, Mail
<1>5. \A p \in Poll : PollSound(p)
  BY <1>3, <1>4 DEF PollSound, NoPoll, Reached
<1> QED
  BY <1>1, <1>2, <1>4, <1>5 DEF IInv, Init, MarkHasRow, Reached

\* Every step keeps the invariant.
LEMMA InvNext ==
  ASSUME IInv, [Next]_vars
  PROVE  IInv'
<1>1. TypeOK /\ MarkHasRow /\ InOrder /\ last \in Cursor
  BY DEF IInv, TypeOK
<1>2. Written
  BY Writers
<1>3. /\ Known \subseteq Known' /\ InOrder'
      /\ \A c \in Cursor : Reached(c) => c = 0 \/ box'[c] # "absent"
  BY <1>1, Grows
<1>4. MarkHasRow'
  <2>1. CASE mark' = mark
    BY <2>1, <1>1, <1>3 DEF MarkHasRow
  <2>2. ASSUME NEW m \in Mail, NEW to \in Statuses \ {"none"}, MarkBegins(m, to)
        PROVE  MarkHasRow'
    BY <2>2, <1>3 DEF MarkBegins, MarkHasRow
  <2>3. CASE MarkSent
    <3>1. mark' = NoMark \/ (mark # NoMark /\ mark' = [mark EXCEPT !.sent = TRUE])
      BY <2>3 DEF MarkSent
    <3>2. mark # NoMark => [mark EXCEPT !.sent = TRUE].mail = mark.mail
                           /\ [mark EXCEPT !.sent = TRUE].to = mark.to
      BY <1>1 DEF TypeOK, Mark
    <3> QED
      BY <3>1, <3>2, <1>1, <1>3 DEF MarkHasRow
  <2>4. CASE MarkStored \/ MarkFails \/ Dies
    BY <2>4 DEF MarkStored, MarkFails, Dies, MarkHasRow
  <2> QED
    BY <1>2, <2>1, <2>2, <2>3, <2>4 DEF Written
<1>5. Reached(last)' /\ Covered(last, {})'
  <2>1. CASE last' = last
    BY <2>1, <1>1, <1>3, CoveredStays DEF IInv, Reached, Covered
  <2>2. CASE last' = 0
    BY <2>2 DEF Reached, Covered, Here, Mail
  <2>3. ASSUME NEW p \in Poll, Complete(p) PROVE Reached(last)' /\ Covered(last, {})'
    <3>1. /\ polls[p].next \in Cursor /\ last' = polls[p].next
          /\ polls[p].pc = "store" /\ polls[p].todo = {}
      BY <2>3, <1>1 DEF Complete, Report, Storing, TypeOK, Execution
    <3>2. Reached(polls[p].next) /\ Covered(polls[p].next, {})
      BY <3>1 DEF IInv, PollSound
    <3> QED
      BY <3>1, <3>2, <1>1, <1>3, CoveredStays DEF Reached, Covered
  <2> QED
    BY <1>2, <2>1, <2>2, <2>3 DEF Written, Renumbered, FetchFails
<1> QED
  BY <1>1, <1>3, <1>4, <1>5, TypeNext, PollSoundNext DEF IInv

----------------------------------------------------------------------------
(* Theorems. *)

\* The inductive invariant: every cursor in the system, of the latest report,
\* of a request and of a page read, covers the mails up to it (inbox.py:51,
\* email.py:331), and a poll has stored mails only while it stores.
THEOREM Invariance == Spec => []IInv
<1>1. Init => IInv
  BY InvInit
<1>2. IInv /\ [Next]_vars => IInv'
  BY InvNext
<1> QED
  BY <1>1, <1>2, PTL DEF Spec

\* The types of mailbox, rows, cursors, polls and marks, whatever the order of
\* polls, retries, marks and deaths; a retry beyond the budget is unreachable.
THEOREM TypeCorrect == Spec => []TypeOK
<1>1. IInv => TypeOK
  BY DEF IInv
<1> QED
  BY <1>1, Invariance, PTL

\* No poll reports a cursor beyond a mail without a row, but for what a poll
\* without a cursor passed over (email.py:314, inbox.py:117).
THEOREM NothingSkipped == Spec => []NoMailSkipped
<1>1. IInv => NoMailSkipped
  BY DEF IInv, Covered, Met, NoMailSkipped
<1> QED
  BY <1>1, Invariance, PTL

\* No row, nothing to announce.
LEMMA FlagInit == Init => ImportantIsFlagged
BY DEF Init, ImportantIsFlagged, Known

\* A poll that records an important mail flags it, unless it is cut off.
LEMMA FlagNext ==
  ASSUME IInv, ImportantIsFlagged, [Next]_vars
  PROVE  ImportantIsFlagged'
<1> SUFFICES ASSUME NEW m \in Known' \intersect Important
             PROVE  \/ rows'[m].notified
                    \/ m \in past'["cut"]
                    \/ \E p \in Poll : m \in polls'[p].stored
  BY DEF ImportantIsFlagged
<1>1. TypeOK /\ TypeOK' /\ Written /\ m \in Mail
  BY TypeNext, Writers DEF IInv, Known
<1>2. past["cut"] \subseteq past'["cut"]
  <2>1. ASSUME NEW p \in Poll, PageHighest(p) \/ Cut(p) PROVE past["cut"] \subseteq past'["cut"]
    BY <1>1, <2>1 DEF PageHighest, Cut, Remember, TypeOK
  <2>2. CASE Dies
    BY <1>1, <2>2 DEF Dies, Remember, TypeOK
  <2> QED
    BY <1>1, <2>1, <2>2 DEF Written
\* The announcement of m is owed to its poll as long as it runs.
<1>3. ASSUME NEW p \in Poll, m \in polls[p].stored, ~rows[m].notified
      PROVE  \/ rows'[m].notified
             \/ m \in past'["cut"]
             \/ m \in polls'[p].stored
  <2>1. polls[p].pc = "store" /\ m \in Flagless(p)
    BY <1>3 DEF IInv, PollSound, Flagless
  <2>2. CASE polls'[p] = polls[p]
    BY <1>3, <2>2
  <2>3. CASE Complete(p)
    BY <2>1, <2>3 DEF Complete
  <2>4. CASE Cut(p)
    BY <1>1, <2>1, <2>4 DEF Cut, Remember, TypeOK
  <2>5. CASE Dies
    BY <1>1, <2>1, <2>5 DEF Dies, Remember, TypeOK
  <2>6. ASSUME NEW n \in Mail, Record(p, n) PROVE m \in polls'[p].stored
    BY <1>1, <1>3, <2>6 DEF Record, TypeOK, Execution
  <2>7. CASE Renumbered
    <3>1. polls'[p] = [polls[p] EXCEPT !.after = 0, !.next = 0] /\ polls[p] \in Execution
      BY <1>1, <2>7 DEF Renumbered, TypeOK
    <3>2. polls'[p].stored = polls[p].stored
      BY <3>1 DEF Execution
    <3> QED  BY <1>3, <3>2
  <2>8. /\ ~Index(p) /\ ~PageSince(p) /\ ~PageNewest(p) /\ ~PageHighest(p) /\ ~FetchFails(p)
        /\ ~Compare(p) /\ ~Classified(p) /\ ~Ends(p) /\ \A n \in Mail : ~SyncUnread(p, n)
    BY <2>1 DEF Index, PageSince, PageNewest, PageHighest, FetchFails,
                Compare, Classified, Ends, SyncUnread, Syncing
  <2>9. Moved(p)
    BY <1>1, Movers
  <2> QED
    BY <2>1, <2>2, <2>3, <2>4, <2>5, <2>6, <2>7, <2>8, <2>9 DEF Moved
\* Only a record makes a row, or a flagged row unflagged.
<1>4. \/ m \in Known /\ (rows[m].notified => rows'[m].notified)
      \/ \E p \in Poll : m \in polls'[p].stored
  <2>1. CASE rows' = rows
    BY <2>1 DEF Known
  <2>2. ASSUME NEW p \in Poll, NEW n \in Mail, SyncUnread(p, n)
        PROVE  m \in Known /\ (rows[m].notified => rows'[m].notified)
    BY <1>1, <2>2 DEF SyncUnread, Differs, Known, TypeOK, Row
  <2>3. ASSUME NEW p \in Poll, NEW n \in Mail, RecordRead(p, n) \/ Flag(p, n)
        PROVE  m \in Known /\ (rows[m].notified => rows'[m].notified)
    BY <1>1, <2>3 DEF RecordRead, ReadAlready, Flag, Known, TypeOK, Row
  <2>4. ASSUME NEW p \in Poll, NEW n \in Mail, Record(p, n)
        PROVE  \/ m \in Known /\ (rows[m].notified => rows'[m].notified)
               \/ m \in polls'[p].stored
    BY <1>1, <2>4 DEF Record, Known, TypeOK, Row, Execution
  <2>5. ASSUME NEW n \in Mail, NEW to \in Statuses \ {"none"}, MarkAtOnce(n, to)
        PROVE  m \in Known /\ (rows[m].notified => rows'[m].notified)
    BY <1>1, <2>5 DEF MarkAtOnce, Known, TypeOK, Row
  <2>6. CASE MarkStored
    BY <1>1, <2>6 DEF MarkStored, IInv, MarkHasRow, Known, TypeOK, Row
  <2> QED
    BY <1>1, <2>1, <2>2, <2>3, <2>4, <2>5, <2>6 DEF Written, UserMarks
<1> QED
  BY <1>1, <1>2, <1>3, <1>4 DEF ImportantIsFlagged

\* An important mail with a row is flagged, about to be, or was stored by a
\* poll that was cut off (inbox.py:221-243).
THEOREM Announced == Spec => []ImportantIsFlagged
<1>1. IInv /\ ImportantIsFlagged /\ [Next]_vars => ImportantIsFlagged'
  BY FlagNext
<1> QED
  BY <1>1, FlagInit, Invariance, PTL DEF Spec

\* A handled row leaves that status by a mark of the user or by a poll that
\* records the mail anew (inbox.py:62-98, projectors_inbox.py:22).
THEOREM HandledStays == Spec => HandledIsKept
<1> DEFINE Kept == \A m \in Mail : rows[m].status = "handled" /\ rows'[m].status # "handled"
                       => UserMarks \/ \E p \in Poll : m \in polls[p].todo
<1>1. ASSUME IInv, [Next]_vars PROVE [Kept]_rows
  <2>1. TypeOK /\ Written
    BY <1>1, Writers DEF IInv
  <2>2. ASSUME NEW p \in Poll, NEW m \in Mail, SyncUnread(p, m) PROVE Kept
    BY <2>1, <2>2 DEF SyncUnread, Differs, TypeOK, Row
  <2>3. ASSUME NEW p \in Poll, NEW m \in Mail, Record(p, m) PROVE Kept
    BY <2>1, <2>3 DEF Record, TypeOK, Row
  <2>4. ASSUME NEW p \in Poll, NEW m \in Mail, RecordRead(p, m) \/ Flag(p, m) PROVE Kept
    BY <2>1, <2>4 DEF RecordRead, ReadAlready, Flag, TypeOK, Row
  <2> QED
    BY <2>1, <2>2, <2>3, <2>4 DEF Written
<1> QED
  BY <1>1, Invariance, PTL DEF Spec, HandledIsKept
============================================================================

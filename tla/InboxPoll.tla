------------------------------ MODULE InboxPoll ------------------------------
(***************************************************************************)
(* The mailbox and its table: the cron timer of inbox_poll (RuntimeLoop.   *)
(* _check_timers, cron_registry._init_timers), the poll it requests        *)
(* (handlers/inbox_poll_handlers.py), the reading of the IMAP mailbox from *)
(* a cursor (builtin_tools/email.py), the recording of what was read       *)
(* (product/inbox.py) and the user's marks, which go to the server first.  *)
(*                                                                         *)
(* The cursor is the next_uid of the latest InboxPollCompleted, or nothing *)
(* when that one reports an error.  Two polls may run at once: the timer's *)
(* and the page's.  A poll gives way while it reads the mailbox, in a      *)
(* thread, and while the model classifies; for the rest it is a chain of   *)
(* commits that only a failed write or the death of the process cuts       *)
(* short.  turn names the chain under way.                                 *)
(*                                                                         *)
(* Bound: the timer is not due again before its last poll has ended, which *)
(* its fifteen minutes leave time for; overlaps come from the page.        *)
(*                                                                         *)
(* A mail is its IMAP uid, and stands for its Message-ID as well; a higher *)
(* uid has the later date.  0 is no cursor: none was reported, or the      *)
(* UIDVALIDITY it was reported with has changed, and either sends          *)
(* check_inbox down the same branch.  What the network does touches        *)
(* nothing a chain of commits reads, and is taken between two of them.     *)
(* The rows' headers, the notifications and filter rules, the digest and   *)
(* the limits of 500 and 5000 rows are left out.                           *)
(*                                                                         *)
(* A definition whose name starts with Bug is a seeded fault: no action    *)
(* uses it; in the place of the definition after it, it breaks a property. *)
(***************************************************************************)
EXTENDS Naturals, FiniteSets, FiniteSetsExt

CONSTANTS
    N,              \* mails that ever arrive
    Limit,          \* mails a poll reads in full
    Important,      \* mails the classifier calls important
    MaxRetries,     \* ExecutionPolicy.max_retries
    MaxWork,        \* bound: arrivals, changes elsewhere, marks, polls asked for
    MaxFaults       \* bound: failed fetches and writes, timeouts, process deaths

ASSUME InboxPollAssumption ==
    /\ {N, Limit} \subseteq Nat \ {0}
    /\ Important \subseteq 1..N
    /\ {MaxRetries, MaxWork, MaxFaults} \subseteq Nat

VARIABLES
    box,            \* the mailbox on the server, and which mails are \Seen
    rows,           \* inbox_emails: status and notified
    last,           \* the cursor of the latest InboxPollCompleted
    timer,          \* timer_events: inbox_poll; lost: fired, and not created again
    fired,          \* a TimerFired waits for its handler
    polls,          \* executions of on_inbox_poll_requested
    mark,           \* a mark on its way to the server
    turn,           \* the chain of commits under way
    up,             \* the process runs
    past,           \* history: mails passed over, cut off
    spent           \* history: work, faults and crashes so far

vars == <<box, rows, last, timer, fired, polls, mark, turn, up, past, spent>>
----------------------------------------------------------------------------
Mail   == 1..N
Poll   == {"timer", "page"}
Cursor == 0..N

Statuses == {"none", "pending", "read", "handled"}
Row      == [status : Statuses, notified : BOOLEAN]

\* queued; reading: unseen ids, page, highest uid; read; bringing the status
\* of known rows up to date; waiting for the model; storing; reported.
Places == {"idle", "queued", "indexed", "paged", "fetched", "sync",
           "classify", "store", "done"}
Execution ==
    [pc : Places, tries : 0..MaxRetries, after : Cursor, unread : SUBSET Mail,
     page : SUBSET Mail, next : Cursor, todo : SUBSET Mail, stored : SUBSET Mail]

NoPoll == [pc |-> "idle", tries |-> 0, after |-> 0, unread |-> {},
           page |-> {}, next |-> 0, todo |-> {}, stored |-> {}]
Requested(cursor) == [NoPoll EXCEPT !.pc = "queued", !.after = cursor]

NoMark == [mail |-> 0, to |-> "none", sent |-> FALSE]
Mark   == [mail : Mail, to : Statuses, sent : BOOLEAN] \union {NoMark}

Spent == {"work", "faults"}

TypeOK ==
    /\ box \in [Mail -> {"absent", "unread", "read", "gone"}]
    /\ rows \in [Mail -> Row]
    /\ last \in Cursor
    /\ timer \in {"active", "fired", "lost"}
    /\ {fired, up} \subseteq BOOLEAN
    /\ polls \in [Poll -> Execution]
    /\ mark \in Mark
    /\ turn \in Poll \union {"none", "rearm"}
    /\ past \in [{"passed", "cut"} -> SUBSET Mail]
    /\ spent \in [Spent -> Nat]

\* The mailbox is older than the program, and its first mail has been read.
Init ==
    /\ box = [m \in Mail |-> IF m = 1 THEN "read" ELSE "absent"]
    /\ rows = [m \in Mail |-> [status |-> "none", notified |-> FALSE]]
    /\ last = 0
    /\ timer = "active"
    /\ fired = FALSE
    /\ polls = [p \in Poll |-> NoPoll]
    /\ mark = NoMark
    /\ turn = "none"
    /\ up = TRUE
    /\ past = [h \in {"passed", "cut"} |-> {}]
    /\ spent = [s \in Spent |-> 0]
----------------------------------------------------------------------------
Free == up /\ turn = "none"

Works == turn = "none" /\ spent["work"] < MaxWork /\ spent' = [spent EXCEPT !["work"] = @ + 1]
Fails == spent["faults"] < MaxFaults /\ spent' = [spent EXCEPT !["faults"] = @ + 1]

Here   == {m \in Mail : box[m] \in {"unread", "read"}}
Unseen == {m \in Mail : box[m] = "unread"}
Known  == {m \in Mail : rows[m].status # "none"}

Highest(S) == IF S = {} THEN 0 ELSE Max(S)
Newest(S)  == {m \in S : Cardinality({n \in S : n > m}) < Limit}
BugOldest(S) == {m \in S : Cardinality({n \in S : n > m}) < Limit}
Oldest(S) == {m \in S : Cardinality({n \in S : n < m}) < Limit}

\* UID SEARCH after+1:* answers with the last mail when none is newer.
Since(after) ==
    LET new == {m \in Here : m > after}
    IN  IF new = {} THEN {m \in Here : m = Highest(Here)} ELSE new

Remember(what, mails) == past' = [past EXCEPT ![what] = @ \union mails]

BugFlagless(p) == {m \in polls[p].stored \intersect Important \intersect polls[p].unread :
                      ~rows[m].notified}
Flagless(p) == {m \in polls[p].stored \intersect Important : ~rows[m].notified}
----------------------------------------------------------------------------
\* The mailbox: mail arrives, and other clients read, unread and delete it.
Arrives(m) ==
    /\ Works
    /\ box[m] = "absent" /\ \A n \in 1..(m - 1) : box[n] # "absent"
    /\ box' = [box EXCEPT ![m] = "unread"]
    /\ UNCHANGED <<rows, last, timer, fired, polls, mark, turn, up, past>>

Elsewhere(m, to) ==
    /\ Works
    /\ m \in Here /\ box[m] # to
    /\ box' = [box EXCEPT ![m] = to]
    /\ UNCHANGED <<rows, last, timer, fired, polls, mark, turn, up, past>>

\* UIDVALIDITY changes while nobody is connected: cursors are worth nothing.
Renumbered ==
    /\ Works
    /\ \A p \in Poll : polls[p].pc \notin {"indexed", "paged"}
    /\ last' = 0
    /\ polls' = [p \in Poll |-> [polls[p] EXCEPT !.after = 0, !.next = 0]]
    /\ UNCHANGED <<box, rows, timer, fired, mark, turn, up, past>>
----------------------------------------------------------------------------
\* A due timer: TimerFired turns the row off, TimerCreated turns it on again.
TimerDue ==
    /\ Free /\ timer = "active" /\ ~fired /\ polls["timer"].pc = "idle"
    /\ timer' = "fired" /\ fired' = TRUE
    /\ turn' = "rearm"
    /\ UNCHANGED <<box, rows, last, polls, mark, up, past, spent>>

Rearm ==
    /\ turn = "rearm"
    /\ turn' = "none"
    /\ \/ timer' = "active" /\ UNCHANGED spent
       \/ Fails /\ timer' = "lost"
    /\ UNCHANGED <<box, rows, last, fired, polls, mark, up, past>>

\* Every poll starts from the cursor that is the latest when it is requested.
Ask(p) ==
    /\ Free /\ polls[p].pc = "idle"
    /\ polls' = [polls EXCEPT ![p] = Requested(last)]
    /\ UNCHANGED <<box, rows, last, timer, mark, turn, up, past>>

OnTimerFired == fired /\ Ask("timer") /\ fired' = FALSE /\ UNCHANGED spent

PollInbox == Works /\ Ask("page") /\ UNCHANGED fired
----------------------------------------------------------------------------
\* The thread of check_inbox: the unseen ids, the page, the highest uid.
Index(p) ==
    /\ Free /\ polls[p].pc = "queued"
    /\ polls' = [polls EXCEPT ![p].pc = "indexed", ![p].unread = Unseen]
    /\ UNCHANGED <<box, rows, last, timer, fired, mark, turn, up, past, spent>>

PageSince(p) ==
    /\ Free /\ polls[p].pc = "indexed" /\ polls[p].after > 0
    /\ LET page == Oldest(Since(polls[p].after))
       IN  polls' = [polls EXCEPT ![p].pc = "fetched", ![p].page = page,
                         ![p].next = IF page = {} THEN polls[p].after ELSE Max(page)]
    /\ UNCHANGED <<box, rows, last, timer, fired, mark, turn, up, past, spent>>

PageNewest(p) ==
    /\ Free /\ polls[p].pc = "indexed" /\ polls[p].after = 0
    /\ polls' = [polls EXCEPT ![p].pc = "paged", ![p].page = Newest(Here)]
    /\ UNCHANGED <<box, rows, last, timer, fired, mark, turn, up, past, spent>>

\* The cursor after the newest page is read some round trips later; what is
\* in neither list then, and has no row, is passed over.
PageHighest(p) ==
    /\ Free /\ polls[p].pc = "paged"
    /\ polls' = [polls EXCEPT ![p].pc = "fetched", ![p].next = Highest(Here)]
    /\ Remember("passed", Here \ (Known \union polls[p].page \union polls[p].unread))
    /\ UNCHANGED <<box, rows, last, timer, fired, mark, turn, up, spent>>

\* check_inbox answers with an error: the poll completes and says so.
FetchFails(p) ==
    /\ Free /\ Fails
    /\ polls[p].pc \in {"queued", "indexed", "paged"}
    /\ last' = 0
    /\ polls' = [polls EXCEPT ![p] = [NoPoll EXCEPT !.pc = "done",
                                          !.tries = polls[p].tries, !.after = polls[p].after]]
    /\ turn' = p
    /\ UNCHANGED <<box, rows, timer, fired, mark, up, past>>
----------------------------------------------------------------------------
\* apply_inbox_poll_payload up to the model: rows whose status differs from
\* the index, one commit each, then the mails that have no row.
Syncing(p) ==
    \/ Free /\ polls[p].pc = "fetched"
    \/ turn = p /\ polls[p].pc = "sync"

BugDiffers(m, unread) ==
    \/ rows[m].status = "pending" /\ m \notin unread
    \/ rows[m].status \in {"read", "handled"} /\ m \in unread
Differs(m, unread) ==
    \/ rows[m].status = "pending" /\ m \notin unread
    \/ rows[m].status = "read" /\ m \in unread

SyncUnread(p, m) ==
    /\ Syncing(p)
    /\ Differs(m, polls[p].unread)
    /\ rows' = [rows EXCEPT ![m].status =
                    IF m \in polls[p].unread THEN "pending" ELSE "read"]
    /\ polls' = [polls EXCEPT ![p].pc = "sync"]
    /\ turn' = p
    /\ UNCHANGED <<box, last, timer, fired, mark, up, past, spent>>

Missing(p) == (polls[p].page \union polls[p].unread) \ Known

Compare(p) ==
    /\ Syncing(p)
    /\ \A m \in Mail : ~Differs(m, polls[p].unread)
    /\ polls' = [polls EXCEPT ![p].todo = Missing(p), ![p].page = {},
                     ![p].unread = @ \intersect Missing(p),
                     ![p].pc = IF Missing(p) = {} THEN "store" ELSE "classify"]
    /\ turn' = IF Missing(p) = {} THEN p ELSE "none"
    /\ UNCHANGED <<box, rows, last, timer, fired, mark, up, past, spent>>

\* The model has answered.  When it fails, no mail is important.
Classified(p) ==
    /\ Free /\ polls[p].pc = "classify"
    /\ polls' = [polls EXCEPT ![p].pc = "store"]
    /\ turn' = p
    /\ UNCHANGED <<box, rows, last, timer, fired, mark, up, past, spent>>

Storing(p) == turn = p /\ polls[p].pc = "store"
ReadAlready(p) ==
    {m \in polls[p].stored \ polls[p].unread : rows[m].status = "pending"}

\* InboxEmailRecorded replaces the row, if there is one by now.
Record(p, m) ==
    /\ Storing(p) /\ ReadAlready(p) = {}
    /\ m \in polls[p].todo
    /\ rows' = [rows EXCEPT ![m] = [status |-> "pending", notified |-> FALSE]]
    /\ polls' = [polls EXCEPT ![p].todo = @ \ {m}, ![p].stored = @ \union {m}]
    /\ UNCHANGED <<box, last, timer, fired, mark, turn, up, past, spent>>

RecordRead(p, m) ==
    /\ Storing(p) /\ m \in ReadAlready(p)
    /\ rows' = [rows EXCEPT ![m].status = "read"]
    /\ UNCHANGED <<box, last, timer, fired, polls, mark, turn, up, past, spent>>

\* Important mails are flagged after the notification has been pushed.
Flag(p, m) ==
    /\ Storing(p) /\ polls[p].todo = {} /\ ReadAlready(p) = {}
    /\ m \in Flagless(p)
    /\ rows' = [rows EXCEPT ![m].notified = TRUE]
    /\ UNCHANGED <<box, last, timer, fired, polls, mark, turn, up, past, spent>>

BugReport(p) == polls[p].next + 1
Report(p) == polls[p].next

\* InboxPollCompleted: the new cursor, whatever was reported in the meantime.
Complete(p) ==
    /\ Storing(p) /\ polls[p].todo = {} /\ ReadAlready(p) = {} /\ Flagless(p) = {}
    /\ last' = Report(p)
    /\ polls' = [polls EXCEPT ![p] = [NoPoll EXCEPT !.pc = "done",
                                          !.tries = polls[p].tries, !.after = polls[p].after]]
    /\ UNCHANGED <<box, rows, timer, fired, mark, turn, up, past, spent>>

\* Lane A ends the execution with a commit of its own.
Ends(p) ==
    /\ turn = p /\ polls[p].pc = "done"
    /\ polls' = [polls EXCEPT ![p] = NoPoll]
    /\ turn' = "none"
    /\ UNCHANGED <<box, rows, last, timer, fired, mark, up, past, spent>>

\* What Lane A does with an execution that was cut off: the same event again.
Again(e) ==
    IF e.tries < MaxRetries
    THEN [Requested(e.after) EXCEPT !.tries = e.tries + 1]
    ELSE NoPoll

\* A timeout while the poll waits, or a write that fails in its chain.
Cut(p) ==
    /\ Fails
    /\ \/ Free /\ polls[p].pc \in {"indexed", "paged", "fetched", "classify"}
       \/ turn = p /\ polls[p].pc # "done"
    /\ polls' = [polls EXCEPT ![p] = Again(polls[p])]
    /\ turn' = "none"
    /\ Remember("cut", Flagless(p))
    /\ UNCHANGED <<box, rows, last, timer, fired, mark, up>>
----------------------------------------------------------------------------
\* The user's mark: at once, or after the flag on the server has been set.
OnServer(m, to) ==
    \/ to \in {"read", "handled"} /\ rows[m].status = "pending"
    \/ to = "pending" /\ rows[m].status \in {"read", "handled"}

MarkAtOnce(m, to) ==
    /\ Free /\ Works
    /\ m \in Known /\ rows[m].status # to /\ ~OnServer(m, to)
    /\ rows' = [rows EXCEPT ![m].status = to]
    /\ UNCHANGED <<box, last, timer, fired, polls, mark, turn, up, past>>

MarkBegins(m, to) ==
    /\ Free /\ Works
    /\ mark = NoMark /\ m \in Known /\ OnServer(m, to)
    /\ mark' = [mail |-> m, to |-> to, sent |-> FALSE]
    /\ UNCHANGED <<box, rows, last, timer, fired, polls, turn, up, past>>

MarkSent ==
    /\ Free /\ mark # NoMark /\ ~mark.sent
    /\ IF mark.mail \in Here
       THEN /\ box' = [box EXCEPT ![mark.mail] =
                           IF mark.to = "pending" THEN "unread" ELSE "read"]
            /\ mark' = [mark EXCEPT !.sent = TRUE]
       ELSE mark' = NoMark /\ UNCHANGED box
    /\ UNCHANGED <<rows, last, timer, fired, polls, turn, up, past, spent>>

MarkStored ==
    /\ Free /\ mark # NoMark /\ mark.sent
    /\ rows' = [rows EXCEPT ![mark.mail].status = mark.to]
    /\ mark' = NoMark
    /\ UNCHANGED <<box, last, timer, fired, polls, turn, up, past, spent>>

MarkFails ==
    /\ Free /\ Fails /\ mark # NoMark /\ ~mark.sent
    /\ mark' = NoMark
    /\ UNCHANGED <<box, rows, last, timer, fired, polls, turn, up, past>>
----------------------------------------------------------------------------
\* The process dies: a poll that runs is requeued, an event that only waits to
\* be enqueued is lost.
Dies ==
    /\ up /\ Fails
    /\ up' = FALSE
    /\ turn' = "none" /\ mark' = NoMark
    /\ \E lost \in SUBSET {p \in Poll : polls[p].pc = "queued"} :
           polls' = [p \in Poll |-> CASE p \in lost -> NoPoll
                                     [] polls[p].pc \in {"idle", "queued"} -> polls[p]
                                     [] OTHER -> Again(polls[p])]
    /\ fired' \in {FALSE, fired}
    /\ Remember("cut", UNION {Flagless(p) : p \in Poll})
    /\ UNCHANGED <<box, rows, last, timer>>

\* init_scheduler creates the timer again unless its row is active.
BugBoots ==
    /\ ~up /\ up' = TRUE
    /\ UNCHANGED <<box, rows, last, timer, fired, polls, mark, turn, past, spent>>
Boots ==
    /\ ~up /\ up' = TRUE
    /\ timer' = "active"
    /\ UNCHANGED <<box, rows, last, fired, polls, mark, turn, past, spent>>

PollStep(p) ==
    \/ Index(p) \/ PageSince(p) \/ PageNewest(p) \/ PageHighest(p)
    \/ Compare(p) \/ Classified(p) \/ Complete(p) \/ Ends(p)
    \/ \E m \in Mail : SyncUnread(p, m) \/ Record(p, m) \/ RecordRead(p, m) \/ Flag(p, m)

Goes == Boots \/ OnTimerFired \/ TimerDue \/ Rearm \/ MarkSent \/ MarkStored \/ \E p \in Poll : PollStep(p)

UserMarks == MarkStored \/ \E m \in Mail, to \in Statuses \ {"none"} : MarkAtOnce(m, to)

Next ==
    \/ \E m \in Mail : \/ Arrives(m)
                       \/ \E to \in {"read", "unread", "gone"} : Elsewhere(m, to)
                       \/ \E to \in Statuses \ {"none"} : MarkBegins(m, to)
    \/ Renumbered \/ PollInbox
    \/ Goes \/ UserMarks \/ MarkFails \/ Dies
    \/ \E p \in Poll : FetchFails(p) \/ Cut(p)

Spec == Init /\ [][Next]_vars

\* What the process does by itself goes on; the clock goes on.
FairSpec == Spec /\ WF_vars(Goes)
----------------------------------------------------------------------------
\* A mail at or below the cursor has a row, unless a poll that had no cursor
\* passed over it: it was not among the newest and was not unseen at the time
\* (email.py:314, :713; inbox.py:117).
NoMailSkipped ==
    \A m \in Here : m <= last => m \in Known \union past["passed"]

\* What the user has handled stays handled until the user says otherwise, or a
\* poll records the mail for which it found no row when it looked, another one
\* having recorded it since (inbox.py:97).
HandledIsKept ==
    [][\A m \in Mail : rows[m].status = "handled" /\ rows'[m].status # "handled"
           => UserMarks \/ \E p \in Poll : m \in polls[p].todo]_rows

\* An important mail with a row has been announced, is being so, or its poll
\* was cut off in between: a poll that runs again no longer takes it for new
\* (inbox.py:225, :241).
ImportantIsFlagged ==
    \A m \in Known \intersect Important :
        \/ rows[m].notified
        \/ m \in past["cut"]
        \/ \E p \in Poll : m \in polls[p].stored

\* When the mailbox rests, the table comes to agree with it, in spite of what
\* overlapping polls, retries and deaths have written before, as long as the
\* timer was not lost to a write that failed (runtime_loop.py:214).
Agrees(m) ==
    /\ box[m] = "unread" => rows[m].status \in {"pending", "handled"}
    /\ box[m] # "unread" => rows[m].status # "pending"
Syncs == <>[](timer = "lost" \/ \A m \in Mail : Agrees(m))
=============================================================================

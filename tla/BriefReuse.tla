------------------------------ MODULE BriefReuse ------------------------------
(***************************************************************************)
(* What a brief that is run again may keep of its last version: the tokens *)
(* that let a step confirm a source unchanged without reading it, the      *)
(* hashes a version declares, and the findings carried into the next one   *)
(* (product/project_brief.py, the reads of builtin_tools/filesystem.py and *)
(* email.py, and what a rework drops in product/work_delivery.py).         *)
(*                                                                         *)
(* The content of a source is its version, 1, 2, ...; a file's size and    *)
(* mtime, or a mailbox's MODSEQ and id digest, identify it.  A step's      *)
(* result, and the hash of a text, is n for version n read in full, -n for *)
(* the marker that confirms version n (the hash of a marker taken for the  *)
(* content of a file), and 0 for none.                                     *)
(*                                                                         *)
(* Runs of one brief follow each other (BriefDelivery models how they may  *)
(* not, and the undo of one that never started).  A mailbox is one source, *)
(* a finding cites one source; memories, truncation, the mailbox scope and *)
(* the text of a brief are left out.                                       *)
(*                                                                         *)
(* A definition whose name starts with Bug is a seeded fault: no action    *)
(* uses it; in the place of the definition after it, it breaks a property. *)
(***************************************************************************)
EXTENDS Integers

CONSTANTS
    Sources,        \* steps of the plan, one source each
    Box,            \* those that read a mailbox: the first or none
    MaxEdits,       \* bound: changes of the sources
    MaxRuns,        \* bound: calls
    MaxFaults       \* bound: failed reads, failed writes and process deaths

ASSUME BriefReuseAssumption ==
    /\ {Sources, MaxEdits, MaxRuns, MaxFaults} \subseteq Nat
    /\ Box \subseteq {1} \intersect 1..Sources

VARIABLES
    disk,           \* the version of each source in the world
    token,          \* plan: skip parameters of each step
    noted,          \* plan: it has rework notes
    cursor,         \* plan_resumes: recorded results, and where to resume
    status,         \* of the work item
    run,            \* the execution
    current,        \* the current version
    past            \* history

vars == <<disk, token, noted, cursor, status, run, current, past>>
----------------------------------------------------------------------------
Source == 1..Sources
File   == Source \ Box
Stamp  == 0..(MaxEdits + 1)
Hash   == -(MaxEdits + 1)..(MaxEdits + 1)

Abs(n) == IF n < 0 THEN -n ELSE n
All(n) == [s \in Source |-> n]
Some(f) == {s \in Source : f[s] # 0}

\* known_size and known_mtime_ns, or known_id_digest, and the known hash.
Token == [stat : Stamp, hash : Hash]
NoToken == [stat |-> 0, hash |-> 0]

\* A version can be reused when it passed and has findings; cites holds the
\* hash of the text each finding was drawn from.  seen is no part of it: the
\* versions its run saw.
Version == [passed : BOOLEAN, hash : [Source -> Hash], cites : [Source -> Hash],
            seen : [Source -> Stamp]]
NoVersion == [passed |-> FALSE, hash |-> All(0), cites |-> All(0), seen |-> All(0)]

\* out: this execution has published; paid: it has a bill.
Idle == [caller |-> "none", at |-> "none", pos |-> 1, asked |-> {}, kept |-> All(0),
         draft |-> NoVersion, paid |-> FALSE, out |-> FALSE]

Places == {"none", "reopen", "read", "compile", "model", "publish", "sync"}

\* A file has a whole token or none.
TypeOK ==
    /\ disk \in [Source -> Stamp \ {0}]
    /\ token \in [Source -> Token]
    /\ \A s \in File : token[s].stat = 0 <=> token[s].hash = 0
    /\ noted \in BOOLEAN
    /\ cursor \in [got : [Source -> Hash], pos : 1..(Sources + 1)]
    /\ status \in {"pending", "running", "completed", "failed"}
    /\ run.caller \in {"none", "execute", "rerun", "rework"}
    /\ run.at \in Places
    /\ run.asked \subseteq Source
    /\ run.draft \in Version
    /\ run.at \notin {"none", "reopen"} <=> status = "running"
    /\ current \in Version

Init ==
    /\ disk = All(1)
    /\ token = [s \in Source |-> NoToken]
    /\ noted = FALSE
    /\ cursor = [got |-> All(0), pos |-> 1]
    /\ status = "pending"
    /\ run = Idle
    /\ current = NoVersion
    /\ past = [runs |-> 0, faults |-> 0, late |-> {}, missed |-> {}, torn |-> FALSE,
               unsynced |-> FALSE, made |-> FALSE]
----------------------------------------------------------------------------
\* The world changes a source at any time.
Edit(s) ==
    /\ disk[s] <= MaxEdits
    /\ disk' = [disk EXCEPT ![s] = @ + 1]
    /\ UNCHANGED <<token, noted, cursor, status, run, current, past>>

Call ==
    /\ run.at = "none"
    /\ past.runs < MaxRuns
    /\ past' = [past EXCEPT !.runs = @ + 1]

Start(caller, pos) == run' = [Idle EXCEPT !.caller = caller, !.at = "read", !.pos = pos]

\* request_work_item_execute, which keeps the cursor of a failed run.
Execute ==
    /\ Call
    /\ status \in {"pending", "failed"}
    /\ status' = "running"
    /\ Start("execute", cursor.pos)
    /\ UNCHANGED <<disk, token, noted, cursor, current>>

\* rerun_project_brief, which clears it.
Rerun ==
    /\ Call
    /\ status = "completed" /\ past.made
    /\ status' = "running"
    /\ cursor' = [got |-> All(0), pos |-> 1]
    /\ Start("rerun", 1)
    /\ UNCHANGED <<disk, token, noted, current>>

\* _drop_brief_skip_tokens
BugDropped == token
Dropped == [s \in Source |-> NoToken]

\* _complete_rework_dispatch: the plan is written first,
NoteRework ==
    /\ Call
    /\ status \in {"completed", "failed"} /\ past.made
    /\ noted' = TRUE
    /\ token' = Dropped
    /\ run' = [Idle EXCEPT !.caller = "rework", !.at = "reopen"]
    /\ UNCHANGED <<disk, cursor, status, current>>

\* then the work item is reopened without its cursor.
Reopen ==
    /\ run.at = "reopen"
    /\ status' = "running"
    /\ cursor' = [got |-> All(0), pos |-> 1]
    /\ Start("rework", 1)
    /\ UNCHANGED <<disk, token, noted, current, past>>
----------------------------------------------------------------------------
(* The plan: read_file and check_inbox. *)

Reading == run.at = "read" /\ run.pos <= Sources

BugConfirmed(s) == token[s].stat # 0
Confirmed(s) == token[s].stat = disk[s]

\* The result and the progress row are one write here.
ReadSource ==
    /\ Reading
    /\ LET s == run.pos IN
          cursor' = [got |-> [cursor.got EXCEPT ![s] =
                                 IF Confirmed(s) THEN -disk[s] ELSE disk[s]],
                     pos |-> s + 1]
    /\ run' = [run EXCEPT !.pos = @ + 1]
    /\ UNCHANGED <<disk, token, noted, status, current, past>>

\* continue_on_error: nothing is recorded, and a later success moves on.
ReadFails ==
    /\ Reading
    /\ past.faults < MaxFaults
    /\ past' = [past EXCEPT !.faults = @ + 1, !.missed = @ \union {run.pos}]
    /\ run' = [run EXCEPT !.pos = @ + 1]
    /\ UNCHANGED <<disk, token, noted, cursor, status, current>>

EndPlan ==
    /\ run.at = "read" /\ run.pos > Sources
    /\ run' = [run EXCEPT !.at = "compile"]
    /\ UNCHANGED <<disk, token, noted, cursor, status, current, past>>
----------------------------------------------------------------------------
(* compile_project_brief_delivery *)

Included == Some(cursor.got)

\* A source in the brief without a body: bodies_skipped, _file_unchanged.
Cheap(s) ==
    /\ cursor.got[s] < 0
    /\ s \in Box \/ token[s].stat = -cursor.got[s]

\* content_hash of a source; a mailbox the plan forgot has none.
Digest(s) == IF Cheap(s) THEN token[s].hash ELSE cursor.got[s]

Bodies == {s \in Included : ~Cheap(s)}

Reusable(v) == v.passed /\ Some(v.cites) # {}

Keep(f, sources) == [s \in Source |-> IF s \in sources THEN f[s] ELSE 0]

Drafted(passed, cites) ==
    [passed |-> passed, hash  |-> [s \in Source |-> Digest(s)],
     cites  |-> cites,  seen  |-> [s \in Source |-> Abs(cursor.got[s])]]

\* _fallback_brief
Fallback == Drafted(FALSE, All(0))

\* The version to reuse: none once the plan has rework notes.
Previous == IF noted THEN NoVersion ELSE current

Same(s) == Digest(s) # 0 /\ Previous.hash[s] = Digest(s)

\* _reuse_split
Unchanged ==
    IF Reusable(Previous) THEN {s \in Included : Same(s)} ELSE {}
Changed == Included \ Unchanged
Mode ==
    CASE Unchanged = {}                                     -> "none"
      [] Unchanged # {} /\ Changed = {} /\ Some(Previous.hash) = Included -> "same"
      [] OTHER                                              -> "partial"

\* _reusable_findings
Carried == Keep(Previous.cites, Unchanged)

Publishes(draft) == run' = [run EXCEPT !.at = "publish", !.draft = draft]

Fails ==
    /\ status' = "failed"
    /\ run' = Idle

\* A prompt with the bodies of these sources; the findings in kept are merged
\* with the answer.
Asks(sources, kept) ==
    \/ /\ run.paid
       /\ Fails
    \/ /\ ~run.paid
       /\ \/ Publishes(Fallback)          \* over the cost cap
          \/ run' = [run EXCEPT !.at = "model", !.asked = sources, !.kept = kept]
       /\ UNCHANGED status

\* This execution has published already: nothing is left to do.
SkipPublished ==
    /\ run.at = "compile" /\ run.out
    /\ status' = "completed"
    /\ run' = Idle
    /\ UNCHANGED <<disk, token, noted, cursor, current, past>>

Compile ==
    /\ run.at = "compile" /\ ~run.out
    /\ \/ /\ Included = {}
          /\ Publishes(Fallback)
          /\ UNCHANGED status
       \/ /\ Mode = "same"                \* _republish_previous_brief
          /\ Publishes(Drafted(TRUE, Previous.cites))
          /\ UNCHANGED status
       \/ /\ Mode = "partial" /\ Changed = {} /\ Some(Carried) # {}
          /\ \/ \E passed \in BOOLEAN : Publishes(Drafted(passed, Carried)) /\ UNCHANGED status
             \/ Asks(Included, All(0))    \* the rest does not validate
       \/ /\ Mode = "partial" /\ Changed = {} /\ Some(Carried) = {}
          /\ Asks(Included, All(0))
       \/ /\ Mode = "partial" /\ Changed # {}
          /\ Asks(Changed, Carried)
       \/ /\ Mode = "none" /\ Included # {}
          /\ Asks(Included, All(0))
    /\ UNCHANGED <<disk, token, noted, cursor, current, past>>

\* An answer is billed; its findings quote bodies of the prompt.
ModelAnswers ==
    /\ run.at = "model"
    /\ \E passed \in BOOLEAN, from \in SUBSET (run.asked \intersect Bodies) :
          LET cites == [s \in Source |-> IF s \in from THEN Digest(s) ELSE run.kept[s]]
          IN  run' = [run EXCEPT !.at = "publish", !.paid = TRUE,
                                 !.draft = Drafted(passed, cites)]
    /\ UNCHANGED <<disk, token, noted, cursor, status, current, past>>

\* No answer, or none that validates.
ModelFails ==
    /\ run.at = "model"
    /\ Fails
    /\ UNCHANGED <<disk, token, noted, cursor, current, past>>

\* publish_delivery
Publish ==
    /\ run.at = "publish"
    /\ current' = run.draft
    /\ run' = [run EXCEPT !.at = "sync", !.out = TRUE]
    /\ past' = [past EXCEPT !.made = TRUE]
    /\ UNCHANGED <<disk, token, noted, cursor, status>>

\* _inbox_fingerprint, and _file_fingerprint, which asks the disk again.
Fingerprint(s) ==
    CASE s \notin Included                        -> token[s]
      [] s \in Included /\ s \in Box              -> [stat |-> Abs(cursor.got[s]), hash |-> Digest(s)]
      [] s \in Included /\ s \in File /\ Cheap(s) -> token[s]
      [] OTHER                                    -> [stat |-> disk[s], hash |-> Digest(s)]

\* _strip_skip_params
BugStripped(t) == [t EXCEPT !.hash = 0]
Stripped(t) == NoToken

\* _sync_brief_fingerprints, after the publish and on its own, and the end.
Sync ==
    /\ run.at = "sync"
    /\ token' = [s \in Source |-> IF Reusable(current) THEN Fingerprint(s)
                                                       ELSE Stripped(token[s])]
    /\ past' = [past EXCEPT !.late = @ \union
                   {s \in Source : token'[s].hash \notin {0, token'[s].stat}}]
    /\ status' = "completed"
    /\ run' = Idle
    /\ UNCHANGED <<disk, noted, cursor, current>>
----------------------------------------------------------------------------
\* A write fails or the process dies: Lane A runs the execution again, or
\* gives it up.  A rework that has not been requested is left as it is.
Interrupt ==
    /\ run.at # "none"
    /\ past.faults < MaxFaults
    /\ past' = [past EXCEPT !.faults = @ + 1, !.torn = @ \/ run.at = "reopen",
                            !.unsynced = @ \/ run.at = "sync"]
    /\ \/ /\ run.at = "reopen"
          /\ run' = Idle
          /\ UNCHANGED status
       \/ /\ run.at # "reopen"
          /\ run' = [Idle EXCEPT !.caller = run.caller, !.at = "read", !.pos = cursor.pos,
                                 !.paid = run.paid, !.out = run.out]
          /\ UNCHANGED status
       \/ /\ run.at # "reopen"
          /\ Fails
    /\ UNCHANGED <<disk, token, noted, cursor, current>>
----------------------------------------------------------------------------
Next ==
    \/ \E s \in Source : Edit(s)
    \/ Execute \/ Rerun \/ NoteRework \/ Reopen
    \/ ReadSource \/ ReadFails \/ EndPlan
    \/ SkipPublished \/ Compile \/ ModelAnswers \/ ModelFails
    \/ Publish \/ Sync
    \/ Interrupt

Spec == Init /\ [][Next]_vars
----------------------------------------------------------------------------
\* The hash a version declares for a source, and the text its findings on it
\* were drawn from, are those of the content its run saw.  Two cases are
\* known to break this: a file whose token was stamped from the disk after
\* it had changed again (project_brief.py:3634), and a marker taken for the
\* content of a file when a rework dropped the token and not the cursor
\* (work_delivery.py:1503).
BriefIsCurrent ==
    \A s \in Some(current.hash) :
        \/ {current.hash[s], current.cites[s]} \subseteq {0, current.seen[s]}
        \/ s \in past.late
        \/ past.torn /\ current.hash[s] = -current.seen[s]

\* The model gets the body of every source it is asked about.  A rework always
\* reads its sources again (work_delivery.py:1502); another run may ask about
\* an unread source when an earlier rework's notes are still on the plan, or
\* when the tokens are not those of the current version: a read has failed,
\* or a death came before _sync_brief_fingerprints.
BodiesAreRead ==
    run.at = "model" /\ ~(run.asked \subseteq Bodies) =>
        /\ run.caller # "rework"
        /\ \/ noted
           \/ past.unsynced
           \/ past.missed # {}
=============================================================================

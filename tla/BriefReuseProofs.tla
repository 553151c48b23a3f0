--------------------------- MODULE BriefReuseProofs ---------------------------
(***************************************************************************)
(* Proofs about BriefReuse, for any number of sources, changes, runs and   *)
(* faults: its types, what a published version says of its sources, and    *)
(* which sources the model is asked about without their bodies.            *)
(***************************************************************************)
EXTENDS BriefReuse, TLAPS
----------------------------------------------------------------------------
(* The inductive invariant. *)

RunType ==
    [caller : {"none", "execute", "rerun", "rework"}, at : Places,
     pos : 1..(Sources + 1), asked : SUBSET Source, kept : [Source -> Hash],
     draft : Version, paid : BOOLEAN, out : BOOLEAN]

PastType ==
    [runs : Nat, faults : Nat, late : SUBSET Source, missed : SUBSET Source,
     torn : BOOLEAN, unsynced : BOOLEAN, made : BOOLEAN]

FullType == TypeOK /\ run \in RunType /\ past \in PastType

After == {"compile", "model", "publish", "sync"}

\* Rework notes stay on the plan.
Notes ==
    /\ past.torn => noted
    /\ run.at = "reopen" => noted /\ run.caller = "rework"
    /\ run.caller = "rework" => noted

\* A token carries the hash of the version it identifies.
Tokens == \A s \in Source : token[s].hash \in {0, token[s].stat} \/ s \in past.late

\* A marker that the next run will read is the answer to the token on the
\* plan, or that token is gone.
Markers ==
    status # "completed" =>
        \A s \in Source : cursor.got[s] < 0 =>
            \/ token[s].stat = -cursor.got[s]
            \/ token[s] = NoToken /\ (past.torn \/ run.at = "reopen")

\* A rework reads without tokens.
Reworks ==
    run.caller = "rework" =>
        /\ token = All(NoToken)
        /\ run.at # "reopen" => \A s \in Source : cursor.got[s] >= 0

\* Without a failed read nothing before the cursor is missing.
Steps ==
    past.missed = {} =>
        /\ \A s \in Source : s < cursor.pos => cursor.got[s] # 0
        /\ run.at = "read" => run.pos = cursor.pos
        /\ run.at \in After => cursor.pos = Sources + 1

Regular == ~noted /\ ~past.unsynced /\ past.missed = {}

\* The tokens are those of the current version.
Synced ==
    Regular /\ run.at # "sync" =>
        \/ token = All(NoToken)
        \/ /\ Reusable(current)
           /\ \A s \in Source : token[s].hash = current.hash[s] /\ token[s].hash # 0

Digested == Regular /\ run.at \in After => \A s \in Source : Digest(s) # 0

\* BriefIsCurrent of any version
Good(v) ==
    \A s \in Some(v.hash) :
        \/ {v.hash[s], v.cites[s]} \subseteq {0, v.seen[s]}
        \/ s \in past.late
        \/ past.torn /\ v.hash[s] = -v.seen[s]

Exact(v) == \A s \in Source : v.hash[s] = Digest(s)

\* The findings of f quote what the run has seen.
Quotes(f) ==
    \A s \in Source :
        \/ Digest(s) = 0
        \/ s \in past.late
        \/ past.torn /\ Digest(s) = -Abs(cursor.got[s])
        \/ f[s] \in {0, Abs(cursor.got[s])}

Drafts ==
    /\ run.at = "model" => Quotes(run.kept)
    /\ run.at = "publish" => Good(run.draft) /\ Exact(run.draft)
    /\ run.at = "sync" => Exact(current)

IInv ==
    /\ FullType /\ Notes /\ Tokens /\ Markers /\ Reworks /\ Steps
    /\ Synced /\ Digested /\ Drafts /\ BriefIsCurrent /\ BodiesAreRead
----------------------------------------------------------------------------
(* Types. *)

LEMMA Numbers ==
    /\ Sources \in Nat /\ MaxEdits \in Nat
    /\ Box \subseteq Source
    /\ \A n \in Hash : Abs(n) \in Stamp /\ (n # 0 => Abs(n) # 0) /\ (n > 0 => Abs(n) = n)
                       /\ (n < 0 => Abs(n) = -n) /\ (n = 0 => Abs(n) = 0) /\ n \in Int
    /\ \A n \in Stamp : n \in Hash /\ -n \in Hash /\ n >= 0
    /\ 0 \in Stamp
  BY BriefReuseAssumption DEF Source, Hash, Stamp, Abs

LEMMA DigestType ==
    ASSUME FullType, NEW s \in Source
    PROVE  Digest(s) \in Hash
  BY DEF FullType, TypeOK, Token, Digest

LEMMA DraftType ==
    ASSUME FullType, NEW p \in BOOLEAN, NEW c \in [Source -> Hash]
    PROVE  Drafted(p, c) \in Version
  <1>1. [s \in Source |-> Digest(s)] \in [Source -> Hash]
    BY DigestType
  <1>2. [s \in Source |-> Abs(cursor.got[s])] \in [Source -> Stamp]
    BY Numbers DEF FullType, TypeOK
  <1>3. QED
    BY <1>1, <1>2 DEF Drafted, Version

LEMMA ZeroType ==
    /\ All(0) \in [Source -> Hash]
    /\ All(0) \in [Source -> Stamp]
    /\ NoVersion \in Version
    /\ NoToken \in Token
    /\ Idle \in RunType
  <1>1. 0 \in Hash /\ 0 \in Stamp
    BY Numbers
  <1>2. All(0) \in [Source -> Hash] /\ All(0) \in [Source -> Stamp]
    BY <1>1 DEF All
  <1>3. NoVersion \in Version
    BY <1>2 DEF NoVersion, Version
  <1>4. NoToken \in Token
    BY <1>1 DEF NoToken, Token
  <1>5. 1 \in 1..(Sources + 1)
    BY Numbers
  <1>6. Idle \in RunType
    BY <1>2, <1>3, <1>5 DEF Idle, RunType, Places
  <1>7. QED
    BY <1>2, <1>3, <1>4, <1>6

\* The execution that a call, or Lane A, starts.
LEMMA StartIs ==
    ASSUME NEW c \in {"execute", "rerun", "rework"}, NEW p \in 1..(Sources + 1), Start(c, p)
    PROVE  /\ run' \in RunType
           /\ run'.caller = c /\ run'.at = "read" /\ run'.pos = p
  <1>1. run' = [caller |-> c, at |-> "read", pos |-> p, asked |-> {}, kept |-> All(0),
                draft |-> NoVersion, paid |-> FALSE, out |-> FALSE]
    BY DEF Start, Idle
  <1>2. QED
    BY <1>1, ZeroType DEF RunType, Places

LEMMA NoteIs ==
    ASSUME NoteRework
    PROVE  run' \in RunType /\ run'.caller = "rework" /\ run'.at = "reopen"
  <1>1. run' = [caller |-> "rework", at |-> "reopen", pos |-> 1, asked |-> {}, kept |-> All(0),
                draft |-> NoVersion, paid |-> FALSE, out |-> FALSE]
    BY DEF NoteRework, Idle
  <1>2. 1 \in 1..(Sources + 1)
    BY Numbers
  <1>3. QED
    BY <1>1, <1>2, ZeroType DEF RunType, Places

LEMMA RerunIs ==
    ASSUME Rerun \/ Reopen
    PROVE  /\ run' \in RunType /\ run'.at = "read" /\ run'.pos = 1
           /\ Rerun => run'.caller = "rerun"
           /\ Reopen => run'.caller = "rework"
           /\ cursor' \in [got : [Source -> Hash], pos : 1..(Sources + 1)]
           /\ cursor'.pos = 1 /\ \A s \in Source : cursor'.got[s] = 0
  <1>1. 1 \in 1..(Sources + 1)
    BY Numbers
  <1>2. cursor' = [got |-> All(0), pos |-> 1]
    BY DEF Rerun, Reopen
  <1>3. CASE Rerun
    <2>1. Start("rerun", 1)
      BY <1>3 DEF Rerun
    <2>2. ~Reopen
      BY <1>3 DEF Rerun, Reopen, Call
    <2>3. QED
      BY <1>1, <1>2, <2>1, <2>2, StartIs, ZeroType DEF All
  <1>4. CASE Reopen
    <2>1. Start("rework", 1)
      BY <1>4 DEF Reopen
    <2>2. ~Rerun
      BY <1>4 DEF Rerun, Reopen, Call
    <2>3. QED
      BY <1>1, <1>2, <2>1, <2>2, StartIs, ZeroType DEF All
  <1>5. QED
    BY <1>3, <1>4

LEMMA ExecuteIs ==
    ASSUME FullType, Execute
    PROVE  run' \in RunType /\ run'.caller = "execute" /\ run'.at = "read" /\ run'.pos = cursor.pos
  <1>1. cursor.pos \in 1..(Sources + 1)
    BY DEF FullType, TypeOK
  <1>2. Start("execute", cursor.pos)
    BY DEF Execute
  <1>3. QED
    BY <1>1, <1>2, StartIs

LEMMA PreviousType ==
    ASSUME FullType
    PROVE  Previous \in Version
  BY ZeroType DEF FullType, TypeOK, Previous

\* A source of the brief is confirmed, quoted, or without a token to stamp.
LEMMA StampType ==
    ASSUME FullType, NEW s \in Source
    PROVE  /\ Fingerprint(s) \in Token
           /\ s \in File => (Fingerprint(s).stat = 0 <=> Fingerprint(s).hash = 0)
  <1> DEFINE d == Digest(s)
  <1>1. d \in Hash /\ cursor.got[s] \in Hash /\ disk[s] \in Stamp \ {0} /\ token[s] \in Token
    BY DigestType DEF FullType, TypeOK
  <1>2. s \in File => (token[s].stat = 0 <=> token[s].hash = 0)
    BY DEF FullType, TypeOK
  <1>3. CASE s \notin Included
    BY <1>1, <1>2, <1>3 DEF Fingerprint
  <1>4. CASE s \in Included /\ s \in Box
    <2>1. Fingerprint(s) = [stat |-> Abs(cursor.got[s]), hash |-> d]
      BY <1>4, Numbers DEF Fingerprint, File
    <2>2. QED
      BY <2>1, <1>1, <1>4, Numbers DEF Token, File
  <1>5. CASE s \in Included /\ s \in File /\ Cheap(s)
    <2>1. Fingerprint(s) = token[s]
      BY <1>5 DEF Fingerprint, File
    <2>2. QED
      BY <2>1, <1>1, <1>2
  <1>6. CASE s \in Included /\ s \in File /\ ~Cheap(s)
    <2>1. Fingerprint(s) = [stat |-> disk[s], hash |-> d]
      BY <1>6 DEF Fingerprint, File
    <2>2. d # 0
      BY <1>6 DEF Digest, Included, Some
    <2>3. QED
      BY <2>1, <2>2, <1>1 DEF Token
  <1>7. QED
    BY <1>3, <1>4, <1>5, <1>6 DEF File

\* What asking the model and publishing do to the execution.
LEMMA PublishesType ==
    ASSUME FullType, NEW p \in BOOLEAN, NEW c \in [Source -> Hash], Publishes(Drafted(p, c))
    PROVE  run' \in RunType /\ run'.at = "publish" /\ run'.caller = run.caller
  <1>1. Drafted(p, c) \in Version
    BY DraftType
  <1>2. run \in RunType
    BY DEF FullType
  <1> HIDE DEF RunType
  <1>3. QED
    BY <1>1, <1>2 DEF Publishes, RunType, Places

LEMMA FallbackType == Fallback = Drafted(FALSE, All(0)) /\ All(0) \in [Source -> Hash]
  BY ZeroType DEF Fallback

LEMMA AsksType ==
    ASSUME FullType, NEW sources \in SUBSET Source, NEW kept \in [Source -> Hash],
           Asks(sources, kept)
    PROVE  \/ run' = Idle /\ status' = "failed"
           \/ /\ run' \in RunType /\ run'.at \in {"publish", "model"}
              /\ run'.caller = run.caller /\ status' = status
  <1>1. CASE run.paid /\ Fails
    BY <1>1 DEF Fails
  <1>2. CASE Publishes(Fallback) /\ UNCHANGED status
    BY <1>2, PublishesType, FallbackType
  <1>3. CASE /\ run' = [run EXCEPT !.at = "model", !.asked = sources, !.kept = kept]
             /\ UNCHANGED status
    BY <1>3 DEF FullType, RunType, Places
  <1>4. QED
    BY <1>1, <1>2, <1>3 DEF Asks

LEMMA KeepType ==
    ASSUME NEW f \in [Source -> Hash], NEW S
    PROVE  Keep(f, S) \in [Source -> Hash]
  BY Numbers DEF Keep

LEMMA SourcesType ==
    ASSUME FullType
    PROVE  /\ Included \subseteq Source /\ Changed \subseteq Source /\ Unchanged \subseteq Source
           /\ Bodies \subseteq Source
           /\ Carried \in [Source -> Hash]
           /\ Previous.cites \in [Source -> Hash]
  <1>1. Included \subseteq Source
    BY DEF Included, Some
  <1>2. Previous.cites \in [Source -> Hash]
    BY PreviousType DEF Version
  <1>3. QED
    BY <1>1, <1>2, KeepType DEF Changed, Unchanged, Bodies, Carried

LEMMA CompileType ==
    ASSUME FullType, Compile
    PROVE  \/ run' = Idle /\ status' = "failed"
           \/ /\ run' \in RunType /\ run'.at \in {"publish", "model"}
              /\ run'.caller = run.caller /\ status' = status
  <1> DEFINE Out == \/ run' = Idle /\ status' = "failed"
                    \/ /\ run' \in RunType /\ run'.at \in {"publish", "model"}
                       /\ run'.caller = run.caller /\ status' = status
  <1>1. CASE Publishes(Fallback) /\ UNCHANGED status
    BY <1>1, PublishesType, FallbackType
  <1>2. CASE Publishes(Drafted(TRUE, Previous.cites)) /\ UNCHANGED status
    BY <1>2, PublishesType, SourcesType
  <1>3. CASE \E passed \in BOOLEAN : Publishes(Drafted(passed, Carried)) /\ UNCHANGED status
    BY <1>3, PublishesType, SourcesType
  <1>4. CASE Asks(Included, All(0))
    BY <1>4, AsksType, SourcesType, ZeroType
  <1>5. CASE Asks(Changed, Carried)
    BY <1>5, AsksType, SourcesType
  <1>6. QED
    BY <1>1, <1>2, <1>3, <1>4, <1>5 DEF Compile

LEMMA TypeStep ==
    ASSUME FullType, [Next]_vars
    PROVE  FullType'
  <1> USE DEF FullType
  <1>0. run' \in RunType => /\ run'.caller \in {"none", "execute", "rerun", "rework"}
                            /\ run'.at \in Places
                            /\ run'.asked \subseteq Source
                            /\ run'.draft \in Version
    BY DEF RunType
  <1>1. CASE UNCHANGED vars
    BY <1>1 DEF vars, TypeOK, RunType, PastType
  <1>2. ASSUME NEW s \in Source, Edit(s) PROVE FullType'
    <2>1. disk[s] + 1 \in Stamp \ {0}
      BY <1>2, Numbers DEF Edit, TypeOK, Stamp
    <2>2. QED
      BY <1>0, <1>2, <2>1 DEF Edit, TypeOK, RunType, PastType
  <1>3. ASSUME Call PROVE past' \in PastType /\ run.at = "none"
    BY <1>3 DEF Call, PastType
  <1>4. CASE Execute
    <2>1. run' \in RunType /\ run'.at = "read"
      BY <1>4, ExecuteIs
    <2>2. QED
      BY <1>0, <1>3, <1>4, <2>1 DEF Execute, TypeOK
  <1>5. CASE Rerun
    <2>1. run' \in RunType /\ run'.at = "read"
      BY <1>5, RerunIs
    <2>2. cursor' \in [got : [Source -> Hash], pos : 1..(Sources + 1)]
      BY <1>5, RerunIs
    <2>3. QED
      BY <1>0, <1>3, <1>5, <2>1, <2>2 DEF Rerun, TypeOK
  <1>6. CASE NoteRework
    <2>1. run' \in RunType /\ run'.at = "reopen"
      BY <1>6, NoteIs
    <2>2. token' = [s \in Source |-> NoToken] /\ NoToken.stat = 0 /\ NoToken.hash = 0
      BY <1>6 DEF NoteRework, Dropped, NoToken
    <2>3. QED
      BY <1>0, <1>3, <1>6, <2>1, <2>2, ZeroType DEF NoteRework, TypeOK, File
  <1>7. CASE Reopen
    <2>1. run' \in RunType /\ run'.at = "read"
      BY <1>7, RerunIs
    <2>2. cursor' \in [got : [Source -> Hash], pos : 1..(Sources + 1)]
      BY <1>7, RerunIs
    <2>3. QED
      BY <1>0, <1>7, <2>1, <2>2 DEF Reopen, TypeOK
  <1>8. CASE ReadSource
    <2>1. run.pos \in Source /\ run.pos + 1 \in 1..(Sources + 1)
      BY <1>8, Numbers DEF ReadSource, Reading, RunType, Source
    <2>2. run' \in RunType /\ run'.at = run.at
      BY <1>8, <2>1 DEF ReadSource, RunType
    <2>3. disk[run.pos] \in Hash /\ -disk[run.pos] \in Hash
      BY <2>1, Numbers DEF TypeOK
    <2>4. cursor' \in [got : [Source -> Hash], pos : 1..(Sources + 1)]
      BY <1>8, <2>1, <2>3 DEF ReadSource, TypeOK
    <2>5. QED
      BY <1>0, <1>8, <2>2, <2>4 DEF ReadSource, TypeOK
  <1>9. CASE ReadFails
    <2>1. run.pos \in Source /\ run.pos + 1 \in 1..(Sources + 1)
      BY <1>9, Numbers DEF ReadFails, Reading, RunType, Source
    <2>2. run' \in RunType /\ run'.at = run.at
      BY <1>9, <2>1 DEF ReadFails, RunType
    <2>3. past' \in PastType
      <3>1. past.faults + 1 \in Nat /\ past.missed \union {run.pos} \in SUBSET Source
        BY <2>1 DEF PastType
      <3>2. past' = [past EXCEPT !.faults = past.faults + 1,
                                 !.missed = past.missed \union {run.pos}]
        BY <1>9 DEF ReadFails
      <3>3. QED
        BY <3>1, <3>2 DEF PastType
    <2>4. QED
      BY <1>0, <1>9, <2>2, <2>3 DEF ReadFails, TypeOK
  <1>10. CASE EndPlan
    <2>1. run' \in RunType /\ run'.at = "compile" /\ run.at = "read"
      BY <1>10 DEF EndPlan, RunType, Places
    <2>2. QED
      BY <1>0, <1>10, <2>1 DEF EndPlan, TypeOK
  <1>11. CASE SkipPublished
    <2>1. run' \in RunType /\ run'.at = "none"
      BY <1>11, ZeroType DEF SkipPublished, Idle
    <2>2. QED
      BY <1>0, <1>11, <2>1 DEF SkipPublished, TypeOK
  <1>12. CASE Compile
    <2>1. run.at = "compile" /\ UNCHANGED <<disk, token, noted, cursor, current, past>>
      BY <1>12 DEF Compile
    <2>2. CASE run' = Idle /\ status' = "failed"
      <3>1. run' \in RunType /\ run'.at = "none"
        BY <2>2, ZeroType DEF Idle
      <3>2. QED
        BY <1>0, <2>1, <2>2, <3>1 DEF TypeOK
    <2>3. CASE run' \in RunType /\ run'.at \in {"publish", "model"} /\ status' = status
      BY <1>0, <2>1, <2>3 DEF TypeOK, RunType
    <2>4. QED
      BY <1>0, <1>12, <2>2, <2>3, CompileType
  <1>13. CASE ModelAnswers
    <2>1. PICK passed \in BOOLEAN, from \in SUBSET (run.asked \intersect Bodies) :
             run' = [run EXCEPT !.at = "publish", !.paid = TRUE,
                        !.draft = Drafted(passed, [s \in Source |->
                                      IF s \in from THEN Digest(s) ELSE run.kept[s]])]
      BY <1>13 DEF ModelAnswers
    <2> DEFINE cites == [s \in Source |-> IF s \in from THEN Digest(s) ELSE run.kept[s]]
    <2>2. cites \in [Source -> Hash]
      BY DigestType DEF RunType
    <2>3. Drafted(passed, cites) \in Version
      BY <2>2, DraftType
    <2>4. run' \in RunType /\ run'.at = "publish"
      BY <2>1, <2>3 DEF RunType, Places
    <2>5. QED
      BY <1>0, <1>13, <2>4 DEF ModelAnswers, TypeOK
  <1>14. CASE ModelFails
    <2>1. run' \in RunType /\ run'.at = "none"
      BY <1>14, ZeroType DEF ModelFails, Fails, Idle
    <2>2. QED
      BY <1>0, <1>14, <2>1 DEF ModelFails, Fails, TypeOK
  <1>15. CASE Publish
    <2>1. run' \in RunType /\ run'.at = "sync" /\ run.at = "publish"
      BY <1>15 DEF Publish, RunType, Places
    <2>2. current' \in Version /\ past' \in PastType
      BY <1>15 DEF Publish, RunType, PastType
    <2>3. QED
      BY <1>0, <1>15, <2>1, <2>2 DEF Publish, TypeOK
  <1>16. CASE Sync
    <2>1. \A s \in Source :
             /\ token'[s] \in Token
             /\ s \in File => (token'[s].stat = 0 <=> token'[s].hash = 0)
      BY <1>16, StampType, ZeroType DEF Sync, Stripped, NoToken
    <2>2. token' \in [Source -> Token]
      BY <1>16, <2>1 DEF Sync
    <2>3. run' \in RunType /\ run'.at = "none"
      BY <1>16, ZeroType DEF Sync, Idle
    <2>4. past' \in PastType
      BY <1>16 DEF Sync, PastType
    <2>5. QED
      BY <1>0, <1>16, <2>1, <2>2, <2>3, <2>4 DEF Sync, TypeOK, File
  <1>17. CASE Interrupt
    <2>1. past' \in PastType
      <3>1. PICK t \in BOOLEAN, u \in BOOLEAN :
               past' = [past EXCEPT !.faults = past.faults + 1, !.torn = t, !.unsynced = u]
        <4>1. (past.torn \/ run.at = "reopen") \in BOOLEAN
          OBVIOUS
        <4>2. (past.unsynced \/ run.at = "sync") \in BOOLEAN
          OBVIOUS
        <4>3. QED
          BY <1>17, <4>1, <4>2, Zenon DEF Interrupt
      <3>2. past.faults + 1 \in Nat
        BY DEF PastType
      <3>3. QED
        BY <3>1, <3>2 DEF PastType
    <2>2. CASE run.at = "reopen" /\ run' = Idle /\ UNCHANGED status
      <3>1. run' \in RunType /\ run'.at = "none"
        BY <2>2, ZeroType DEF Idle
      <3>2. QED
        BY <1>0, <1>17, <2>1, <2>2, <3>1 DEF Interrupt, TypeOK
    <2>3. CASE /\ run.at # "reopen"
               /\ run' = [Idle EXCEPT !.caller = run.caller, !.at = "read", !.pos = cursor.pos,
                                      !.paid = run.paid, !.out = run.out]
               /\ UNCHANGED status
      <3>1. run' \in RunType /\ run'.at = "read" /\ run.at # "none"
        BY <1>17, <2>3, ZeroType DEF Interrupt, RunType, TypeOK, Places
      <3>2. QED
        BY <1>0, <1>17, <2>1, <2>3, <3>1 DEF Interrupt, TypeOK
    <2>4. CASE run.at # "reopen" /\ Fails
      <3>1. run' \in RunType /\ run'.at = "none"
        BY <2>4, ZeroType DEF Fails, Idle
      <3>2. QED
        BY <1>0, <1>17, <2>1, <2>4, <3>1 DEF Interrupt, Fails, TypeOK
    <2>5. QED
      BY <1>0, <1>17, <2>2, <2>3, <2>4 DEF Interrupt
  <1>18. QED
    BY <1>1, <1>2, <1>4, <1>5, <1>6, <1>7, <1>8, <1>9, <1>10, <1>11, <1>12, <1>13, <1>14,
       <1>15, <1>16, <1>17 DEF Next
----------------------------------------------------------------------------
(* What a step leaves alone. *)

LEMMA Frame ==
    ASSUME FullType, [Next]_vars
    PROVE  /\ NoteRework \/ Sync \/ token' = token
           /\ Rerun \/ Reopen \/ ReadSource \/ cursor' = cursor
           /\ Publish \/ current' = current
           /\ NoteRework \/ noted' = noted
           /\ Sync \/ past'.late = past.late
           /\ past.late \subseteq past'.late /\ past.missed \subseteq past'.missed
           /\ Interrupt \/ past'.torn = past.torn
           /\ Interrupt \/ past'.unsynced = past.unsynced
           /\ past.torn => past'.torn
           /\ past.unsynced => past'.unsynced
  <1> USE DEF FullType, PastType
  <1>0. CASE UNCHANGED vars
    BY <1>0 DEF vars
  <1>1. CASE \E s \in Source : Edit(s)
    BY <1>1 DEF Edit
  <1>2. CASE Execute \/ Rerun \/ NoteRework \/ Reopen
    BY <1>2 DEF Execute, Rerun, NoteRework, Reopen, Call
  <1>3. CASE ReadSource \/ ReadFails \/ EndPlan
    BY <1>3 DEF ReadSource, ReadFails, EndPlan
  <1>4. CASE SkipPublished \/ Compile \/ ModelAnswers \/ ModelFails
    BY <1>4 DEF SkipPublished, Compile, ModelAnswers, ModelFails
  <1>5. CASE Publish \/ Sync
    BY <1>5 DEF Publish, Sync
  <1>6. CASE Interrupt
    BY <1>6 DEF Interrupt
  <1>7. QED
    BY <1>0, <1>1, <1>2, <1>3, <1>4, <1>5, <1>6 DEF Next

LEMMA SameMarks ==
    ASSUME token' = token, cursor' = cursor
    PROVE  /\ \A s \in Source : Digest(s)' = Digest(s) /\ (Cheap(s)' <=> Cheap(s))
           /\ Bodies' = Bodies /\ Included' = Included
  BY DEF Digest, Cheap, Bodies, Included, Some

\* Where the execution is before and after each step.
LEMMA Places1 ==
    ASSUME FullType, [Next]_vars
    PROVE  \/ run' = run
           \/ /\ Execute \/ Rerun
              /\ run.at = "none" /\ run'.at = "read" /\ run'.caller \in {"execute", "rerun"}
           \/ NoteRework /\ run.at = "none" /\ run'.at = "reopen" /\ run'.caller = "rework"
           \/ Reopen /\ run.at = "reopen" /\ run'.at = "read" /\ run'.caller = "rework"
           \/ /\ ReadSource \/ ReadFails
              /\ run.at = "read" /\ run'.at = "read" /\ run'.caller = run.caller
           \/ EndPlan /\ run.at = "read" /\ run'.at = "compile" /\ run'.caller = run.caller
           \/ /\ Compile
              /\ run.at = "compile" /\ run'.at \in {"publish", "model"}
              /\ run'.caller = run.caller
           \/ /\ ModelAnswers
              /\ run.at = "model" /\ run'.at = "publish" /\ run'.caller = run.caller
           \/ Publish /\ run.at = "publish" /\ run'.at = "sync" /\ run'.caller = run.caller
           \/ /\ Sync \/ SkipPublished \/ Compile \/ ModelFails
              /\ run.at \in After /\ run' = Idle /\ (Sync <=> run.at = "sync")
           \/ Interrupt /\ run.at = "reopen" /\ run' = Idle
           \/ Interrupt /\ run.at \notin {"none", "reopen"} /\ run' = Idle
           \/ /\ Interrupt
              /\ run.at \notin {"none", "reopen"} /\ run'.at = "read"
              /\ run'.caller = run.caller
  <1> USE DEF FullType, RunType
  <1>0. CASE UNCHANGED vars
    BY <1>0 DEF vars
  <1>1. CASE \E s \in Source : Edit(s)
    BY <1>1 DEF Edit
  <1>2. CASE Execute \/ Rerun
    <2>1. run.at = "none"
      BY <1>2 DEF Execute, Rerun, Call
    <2>2. QED
      BY <1>2, <2>1, ExecuteIs, RerunIs
  <1>3. CASE NoteRework
    <2>1. run.at = "none"
      BY <1>3 DEF NoteRework, Call
    <2>2. QED
      BY <1>3, <2>1, NoteIs
  <1>4. CASE Reopen
    <2>1. run.at = "reopen"
      BY <1>4 DEF Reopen
    <2>2. QED
      BY <1>4, <2>1, RerunIs
  <1>5. CASE ReadSource \/ ReadFails \/ EndPlan
    BY <1>5 DEF ReadSource, ReadFails, EndPlan, Reading
  <1>6. CASE Compile
    <2>1. run.at = "compile"
      BY <1>6 DEF Compile
    <2>2. ~Sync
      BY <2>1 DEF Sync
    <2>3. QED
      BY <1>6, <2>1, <2>2, CompileType DEF After
  <1>7. CASE SkipPublished \/ ModelFails
    BY <1>7 DEF SkipPublished, ModelFails, Fails, Sync, After
  <1>8. CASE ModelAnswers
    BY <1>8 DEF ModelAnswers
  <1>9. CASE Publish
    BY <1>9 DEF Publish
  <1>10. CASE Sync
    BY <1>10 DEF Sync, After
  <1>11. CASE Interrupt
    <2>1. run.at # "none"
      BY <1>11 DEF Interrupt
    <2>2. QED
      BY <1>11, <2>1 DEF Interrupt, Fails, Idle
  <1>12. QED
    BY <1>0, <1>1, <1>2, <1>3, <1>4, <1>5, <1>6, <1>7, <1>8, <1>9, <1>10, <1>11 DEF Next

LEMMA IdleIs == Idle.at = "none" /\ Idle.caller = "none"
  BY DEF Idle
----------------------------------------------------------------------------
(* One lemma for each part of the invariant. *)

LEMMA NotesStep ==
    ASSUME FullType, Notes, [Next]_vars
    PROVE  Notes'
  <1>1. NoteRework => noted'
    BY DEF NoteRework
  <1>2. past'.torn => past.torn \/ (Interrupt /\ run.at = "reopen")
    <2>1. Interrupt => (past'.torn <=> past.torn \/ run.at = "reopen")
      BY DEF Interrupt, FullType, PastType
    <2>2. QED
      BY <2>1, Frame
  <1>3. noted => noted'
    BY <1>1, Frame
  <1>4. past'.torn => noted'
    BY <1>2, <1>3 DEF Notes
  <1>5. /\ run'.at = "reopen" => noted' /\ run'.caller = "rework"
        /\ run'.caller = "rework" => noted'
    BY <1>1, <1>3, Places1, IdleIs DEF Notes
  <1>6. QED
    BY <1>4, <1>5 DEF Notes

LEMMA TokensStep ==
    ASSUME FullType, Tokens, [Next]_vars
    PROVE  Tokens'
  <1>1. CASE token' = token
    BY <1>1, Frame DEF Tokens
  <1>2. CASE NoteRework
    BY <1>2 DEF NoteRework, Dropped, NoToken, Tokens
  <1>3. CASE Sync
    <2>1. past'.late = past.late \union {s \in Source : token'[s].hash \notin {0, token'[s].stat}}
      BY <1>3 DEF Sync, FullType, PastType
    <2>2. QED
      BY <2>1 DEF Tokens
  <1>4. QED
    BY <1>1, <1>2, <1>3, Frame

LEMMA MarkersStep ==
    ASSUME FullType, Notes, Markers, [Next]_vars
    PROVE  Markers'
  <1>1. CASE NoteRework
    <2>1. run'.at = "reopen"
      BY <1>1 DEF NoteRework
    <2>2. \A s \in Source : token'[s] = NoToken
      BY <1>1 DEF NoteRework, Dropped
    <2>3. QED
      BY <2>1, <2>2 DEF Markers
  <1>2. CASE Sync
    BY <1>2 DEF Sync, Markers
  <1>3. CASE Rerun \/ Reopen
    <2>1. \A s \in Source : cursor'.got[s] = 0
      BY <1>3 DEF Rerun, Reopen, All
    <2>2. QED
      BY <2>1 DEF Markers
  <1>4. CASE ReadSource
    <2>1. /\ run.at = "read" /\ run.pos \in Source
          /\ status # "completed"
      BY <1>4, Numbers DEF ReadSource, Reading, FullType, TypeOK, RunType, Source
    <2>2. ASSUME NEW s \in Source, cursor'.got[s] < 0
          PROVE  \/ token[s].stat = -cursor'.got[s]
                 \/ token[s] = NoToken /\ past.torn
      <3>1. cursor'.got[s] = IF s = run.pos THEN IF Confirmed(s) THEN -disk[s] ELSE disk[s]
                                            ELSE cursor.got[s]
        BY <1>4, <2>1 DEF ReadSource, FullType, TypeOK
      <3>2. disk[s] \in Stamp
        BY DEF FullType, TypeOK
      <3>3. disk[s] \in Int /\ disk[s] >= 0
        BY <3>2, Numbers DEF Stamp
      <3>4. CASE s = run.pos
        <4>1. Confirmed(s) /\ cursor'.got[s] = -disk[s]
          BY <2>2, <3>1, <3>3, <3>4
        <4>2. QED
          BY <3>3, <4>1 DEF Confirmed
      <3>5. CASE s # run.pos
        BY <2>1, <2>2, <3>1, <3>5 DEF Markers
      <3>6. QED
        BY <3>4, <3>5
    <2>3. token' = token /\ past' = past
      BY <1>4 DEF ReadSource
    <2>4. QED
      BY <2>2, <2>3 DEF Markers
  <1>5. CASE token' = token /\ cursor' = cursor /\ ~Rerun /\ ~Reopen
    <2>1. status' # "completed" => status # "completed"
      <3>1. CASE UNCHANGED vars \/ \E s \in Source : Edit(s)
        BY <3>1 DEF vars, Edit
      <3>2. CASE Execute \/ NoteRework \/ ReadSource \/ ReadFails \/ EndPlan
        BY <3>2 DEF Execute, NoteRework, ReadSource, ReadFails, EndPlan
      <3>3. CASE SkipPublished \/ Publish \/ Sync
        BY <3>3 DEF SkipPublished, Publish, Sync
      <3>4. CASE Compile \/ ModelAnswers \/ ModelFails \/ Interrupt
        <4>1. CASE run.at \notin {"none", "reopen"}
          BY <4>1 DEF FullType, TypeOK
        <4>2. CASE run.at \in {"none", "reopen"}
          BY <3>4, <4>2 DEF Compile, ModelAnswers, ModelFails, Interrupt
        <4>3. QED
          BY <4>1, <4>2
      <3>5. QED
        BY <1>5, <3>1, <3>2, <3>3, <3>4 DEF Next
    <2>2. run.at = "reopen" => run'.at = "reopen" \/ past'.torn
      <3>1. Interrupt /\ run.at = "reopen" => past'.torn
        BY DEF Interrupt, FullType, PastType
      <3>2. QED
        BY <1>5, <3>1, Places1 DEF After
    <2>3. QED
      BY <1>5, <2>1, <2>2, Frame DEF Markers
  <1>6. QED
    BY <1>1, <1>2, <1>3, <1>4, <1>5, Frame

LEMMA ReworksStep ==
    ASSUME FullType, Notes, Reworks, [Next]_vars
    PROVE  Reworks'
  <1>1. CASE NoteRework
    <2>1. token' = All(NoToken) /\ run'.at = "reopen"
      BY <1>1 DEF NoteRework, Dropped, All
    <2>2. QED
      BY <2>1 DEF Reworks
  <1>2. CASE Reopen
    <2>1. run.caller = "rework"
      BY <1>2 DEF Reopen, Notes
    <2>2. token' = All(NoToken)
      BY <1>2, <2>1 DEF Reopen, Reworks
    <2>3. \A s \in Source : cursor'.got[s] = 0
      BY <1>2 DEF Reopen, All
    <2>4. QED
      BY <2>2, <2>3 DEF Reworks
  <1>3. CASE Execute \/ Rerun \/ Sync
    <2>1. run'.caller # "rework"
      <3>1. Execute => run'.caller = "execute"
        BY ExecuteIs
      <3>2. Rerun => run'.caller = "rerun"
        BY RerunIs
      <3>3. Sync => run'.caller = "none"
        BY IdleIs DEF Sync
      <3>4. QED
        BY <1>3, <3>1, <3>2, <3>3
    <2>2. QED
      BY <2>1 DEF Reworks
  <1>4. CASE ReadSource
    <2>1. /\ run.at = "read" /\ run.pos \in Source /\ token' = token
          /\ run'.caller = run.caller
      BY <1>4, Numbers DEF ReadSource, Reading, FullType, RunType, Source
    <2>2. ASSUME run.caller = "rework", NEW s \in Source
          PROVE  cursor'.got[s] >= 0
      <3>1. cursor'.got[s] = IF s = run.pos THEN IF Confirmed(s) THEN -disk[s] ELSE disk[s]
                                            ELSE cursor.got[s]
        BY <1>4, <2>1 DEF ReadSource, FullType, TypeOK
      <3>2. token[s].stat = 0
        BY <2>2 DEF Reworks, All, NoToken
      <3>3. disk[s] \in Int /\ disk[s] > 0
        BY Numbers DEF FullType, TypeOK, Stamp
      <3>4. ~Confirmed(s)
        BY <3>2, <3>3 DEF Confirmed
      <3>5. cursor.got[s] >= 0
        BY <2>1, <2>2 DEF Reworks
      <3>6. QED
        BY <3>1, <3>3, <3>4, <3>5
    <2>3. QED
      BY <2>1, <2>2 DEF Reworks
  <1>5. CASE ~NoteRework /\ ~Reopen /\ ~Execute /\ ~Rerun /\ ~Sync /\ ~ReadSource
    <2>1. token' = token /\ cursor' = cursor
      BY <1>5, Frame
    <2>2. \/ run' = run
          \/ run'.caller = run.caller /\ run.at # "reopen"
          \/ run'.caller = "none"
      BY <1>5, Places1, IdleIs
    <2>3. QED
      BY <2>1, <2>2 DEF Reworks
  <1>6. QED
    BY <1>1, <1>2, <1>3, <1>4, <1>5

LEMMA StepsStep ==
    ASSUME FullType, Steps, [Next]_vars
    PROVE  Steps'
  <1> SUFFICES ASSUME past'.missed = {}
               PROVE  /\ \A s \in Source : s < cursor'.pos => cursor'.got[s] # 0
                      /\ run'.at = "read" => run'.pos = cursor'.pos
                      /\ run'.at \in After => cursor'.pos = Sources + 1
    BY DEF Steps
  <1>0. /\ \A s \in Source : s < cursor.pos => cursor.got[s] # 0
        /\ run.at = "read" => run.pos = cursor.pos
        /\ run.at \in After => cursor.pos = Sources + 1
    <2>1. past.missed = {}
      BY Frame
    <2>2. QED
      BY <2>1 DEF Steps
  <1>1. CASE ReadSource
    <2>1. run.at = "read" /\ run.pos \in Source
      BY <1>1, Numbers DEF ReadSource, Reading, FullType, RunType, Source
    <2>2. /\ cursor'.pos = run.pos + 1 /\ run'.pos = run.pos + 1 /\ run'.at = "read"
          /\ \A s \in Source : cursor'.got[s] =
                IF s = run.pos THEN IF Confirmed(s) THEN -disk[s] ELSE disk[s]
                               ELSE cursor.got[s]
      BY <1>1, <2>1 DEF ReadSource, FullType, TypeOK, RunType
    <2>3. \A s \in Source : disk[s] \in Int /\ disk[s] > 0
      BY Numbers DEF FullType, TypeOK, Stamp
    <2>4. ASSUME NEW s \in Source, s < cursor'.pos
          PROVE  cursor'.got[s] # 0
      <3>1. s \in Int /\ run.pos \in Int
        BY <2>1 DEF Source
      <3>2. CASE s = run.pos
        BY <2>2, <2>3, <3>2
      <3>3. CASE s # run.pos
        <4>1. s < cursor.pos
          BY <1>0, <2>1, <2>2, <2>4, <3>1, <3>3
        <4>2. QED
          BY <1>0, <2>2, <3>3, <4>1
      <3>4. QED
        BY <3>2, <3>3
    <2>5. QED
      BY <2>2, <2>4 DEF After
  <1>2. CASE ReadFails
    <2>1. run.pos \in past'.missed
      BY <1>2 DEF ReadFails, FullType, PastType
    <2>2. QED
      BY <2>1
  <1>3. CASE Rerun \/ Reopen
    <2>1. cursor'.pos = 1 /\ run'.pos = 1 /\ run'.at = "read"
      BY <1>3, RerunIs
    <2>2. QED
      BY <2>1 DEF After, Source
  <1>4. CASE Execute
    <2>1. cursor' = cursor /\ run'.pos = cursor.pos /\ run'.at = "read"
      BY <1>4, ExecuteIs DEF Execute
    <2>2. QED
      BY <1>0, <2>1 DEF After
  <1>5. CASE EndPlan
    <2>1. /\ run.at = "read" /\ run.pos > Sources /\ cursor' = cursor
          /\ run'.at = "compile"
      BY <1>5 DEF EndPlan, FullType, RunType
    <2>2. cursor.pos = Sources + 1
      BY <1>0, <2>1, Numbers DEF FullType, TypeOK
    <2>3. QED
      BY <1>0, <2>1, <2>2
  <1>6. CASE Interrupt
    <2>1. cursor' = cursor
      BY <1>6 DEF Interrupt
    <2>2. \/ run' = Idle
          \/ run'.at = "read" /\ run'.pos = cursor.pos
      BY <1>6 DEF Interrupt, Fails, Idle
    <2>3. QED
      BY <1>0, <2>1, <2>2, IdleIs DEF After
  <1>7. CASE ~ReadSource /\ ~ReadFails /\ ~Rerun /\ ~Reopen /\ ~Execute /\ ~EndPlan /\ ~Interrupt
    <2>1. cursor' = cursor
      BY <1>7, Frame
    <2>2. \/ run' = run
          \/ run'.at \in After /\ run.at \in After
          \/ run'.at \in {"none", "reopen"}
      BY <1>7, Places1, IdleIs DEF After
    <2>3. QED
      BY <1>0, <2>1, <2>2 DEF After
  <1>8. QED
    BY <1>1, <1>2, <1>3, <1>4, <1>5, <1>6, <1>7

\* An execution that has ended its plan keeps its results and its tokens.
LEMMA Held ==
    ASSUME FullType, [Next]_vars, run'.at \in After
    PROVE  token' = token /\ cursor' = cursor
  <1>1. ~NoteRework
    BY NoteIs DEF After
  <1>2. ~Sync
    BY IdleIs DEF Sync, After
  <1>3. ~Rerun /\ ~Reopen
    BY RerunIs DEF After
  <1>4. ~ReadSource
    BY DEF ReadSource, Reading, FullType, RunType, After
  <1>5. QED
    BY <1>1, <1>2, <1>3, <1>4, Frame

LEMMA RegularBack ==
    ASSUME FullType, [Next]_vars, Regular'
    PROVE  Regular
  <1>1. noted => noted'
    BY Frame DEF NoteRework
  <1>2. QED
    BY <1>1, Frame DEF Regular

LEMMA Pending ==
    ASSUME FullType
    PROVE  run.at \notin {"none", "reopen"} => status # "completed"
  BY DEF FullType, TypeOK

LEMMA DigestIncluded ==
    ASSUME FullType, NEW s \in Source
    PROVE  /\ Digest(s) # 0 => s \in Included
           /\ Cheap(s) => s \in Included
  <1>1. cursor.got[s] \in Int
    BY Numbers DEF FullType, TypeOK
  <1>2. Cheap(s) => s \in Included
    BY <1>1 DEF Cheap, Included, Some
  <1>3. ~Cheap(s) /\ Digest(s) # 0 => s \in Included
    BY DEF Digest, Included, Some
  <1>4. QED
    BY <1>2, <1>3

\* In a run without excuses an unread source still has its token.
LEMMA Confirms ==
    ASSUME FullType, Notes, Markers, Synced, Regular, run.at \in After \union {"read"},
           run.at # "sync", NEW s \in Source, Cheap(s)
    PROVE  /\ Reusable(current)
           /\ \A t \in Source : token[t].hash = current.hash[t] /\ token[t].hash # 0
  <1>1. cursor.got[s] \in Int /\ cursor.got[s] < 0
    BY Numbers DEF FullType, TypeOK, Cheap
  <1>2. ~past.torn
    BY DEF Notes, Regular
  <1>3. status # "completed" /\ run.at # "reopen"
    BY Pending DEF After
  <1>4. token[s].stat = -cursor.got[s]
    BY <1>1, <1>2, <1>3 DEF Markers
  <1>5. token[s].stat # 0
    BY <1>1, <1>4
  <1>6. token # All(NoToken)
    BY <1>5 DEF All, NoToken
  <1>7. QED
    BY <1>6 DEF Synced

LEMMA DigestedStep ==
    ASSUME FullType, Notes, Markers, Steps, Synced, Digested, [Next]_vars
    PROVE  Digested'
  <1> SUFFICES ASSUME Regular', run'.at \in After
               PROVE  \A s \in Source : Digest(s)' # 0
    BY DEF Digested
  <1>1. Regular
    BY RegularBack
  <1>2. \A s \in Source : Digest(s)' = Digest(s)
    BY Held, SameMarks
  <1>3. CASE run.at \in After
    BY <1>1, <1>2, <1>3 DEF Digested
  <1>4. CASE run.at \notin After
    <2>1. EndPlan
      BY <1>4, Places1, IdleIs DEF After
    <2>2. run.at = "read" /\ run.pos > Sources
      BY <2>1 DEF EndPlan
    <2>3. \A s \in Source : cursor.got[s] # 0
      <3>1. cursor.pos > Sources
        BY <1>1, <2>2 DEF Steps, Regular
      <3>2. \A s \in Source : s < cursor.pos
        BY <3>1, Numbers DEF Source, FullType, TypeOK
      <3>3. QED
        BY <1>1, <3>2 DEF Steps, Regular
    <2>4. ASSUME NEW s \in Source PROVE Digest(s) # 0
      <3>1. CASE Cheap(s)
        <4>1. token[s].hash # 0
          BY <1>1, <2>2, <3>1, Confirms
        <4>2. QED
          BY <3>1, <4>1 DEF Digest
      <3>2. CASE ~Cheap(s)
        BY <2>3, <3>2 DEF Digest
      <3>3. QED
        BY <3>1, <3>2
    <2>5. QED
      BY <1>2, <2>4
  <1>5. QED
    BY <1>3, <1>4

LEMMA SyncedStep ==
    ASSUME FullType, Synced, Digested, Drafts, [Next]_vars
    PROVE  Synced'
  <1> SUFFICES ASSUME Regular', run'.at # "sync"
               PROVE  \/ token' = All(NoToken)
                      \/ /\ Reusable(current')
                         /\ \A s \in Source : token'[s].hash = current'.hash[s] /\ token'[s].hash # 0
    BY DEF Synced, Reusable, Some
  <1>1. Regular
    BY RegularBack
  <1>2. CASE Sync
    <2>1. run.at = "sync" /\ current' = current
      BY <1>2 DEF Sync
    <2>2. CASE Reusable(current)
      <3>1. ASSUME NEW s \in Source
            PROVE  token'[s].hash = current.hash[s] /\ token'[s].hash # 0
        <4>1. token'[s] = Fingerprint(s)
          BY <1>2, <2>2 DEF Sync
        <4>2. Digest(s) # 0 /\ current.hash[s] = Digest(s)
          BY <1>1, <2>1 DEF Digested, Drafts, Exact, After
        <4>3. s \in Included
          BY <4>2, DigestIncluded
        <4>4. CASE s \in Box
          BY <4>1, <4>2, <4>3, <4>4 DEF Fingerprint, File
        <4>5. CASE s \in File /\ Cheap(s)
          <5>1. Fingerprint(s) = token[s]
            BY <4>3, <4>5 DEF Fingerprint, File
          <5>2. token[s].hash = Digest(s)
            BY <4>5 DEF Digest
          <5>3. QED
            BY <4>1, <4>2, <5>1, <5>2
        <4>6. CASE s \in File /\ ~Cheap(s)
          <5>1. Fingerprint(s) = [stat |-> disk[s], hash |-> Digest(s)]
            BY <4>3, <4>6 DEF Fingerprint, File
          <5>2. QED
            BY <4>1, <4>2, <5>1
        <4>7. QED
          BY <4>4, <4>5, <4>6 DEF File
      <3>2. QED
        BY <2>1, <2>2, <3>1
    <2>3. CASE ~Reusable(current)
      BY <1>2, <2>3 DEF Sync, Stripped, All
    <2>4. QED
      BY <2>2, <2>3
  <1>3. CASE ~Sync
    <2>1. ~NoteRework
      BY DEF NoteRework, Regular
    <2>2. ~Publish
      BY DEF Publish, FullType, RunType
    <2>3. token' = token /\ current' = current
      BY <1>3, <2>1, <2>2, Frame
    <2>4. run.at # "sync"
      <3>1. run.at = "sync" => Interrupt
        BY <1>3, Places1 DEF After
      <3>2. run.at = "sync" /\ Interrupt => past'.unsynced
        BY DEF Interrupt, FullType, PastType
      <3>3. QED
        BY <3>1, <3>2 DEF Regular
    <2>5. QED
      BY <1>1, <2>3, <2>4 DEF Synced
  <1>4. QED
    BY <1>2, <1>3
----------------------------------------------------------------------------
(* Drafts. *)

Quoted(f, s) ==
    \/ Digest(s) = 0
    \/ s \in past.late
    \/ past.torn /\ Digest(s) = -Abs(cursor.got[s])
    \/ f[s] \in {0, Abs(cursor.got[s])}

\* What the hash of a source in a brief is.
LEMMA Texts ==
    ASSUME FullType, Tokens, Markers, run.at \notin {"none", "reopen"}, NEW s \in Source
    PROVE  \/ Digest(s) = 0
           \/ Digest(s) = Abs(cursor.got[s])
           \/ s \in past.late
           \/ past.torn /\ Digest(s) = -Abs(cursor.got[s])
  <1>0. cursor.got[s] \in Hash /\ cursor.got[s] \in Int
    BY Numbers DEF FullType, TypeOK
  <1>1. cursor.got[s] < 0 => \/ token[s].stat = -cursor.got[s]
                             \/ token[s] = NoToken /\ past.torn
    BY Pending DEF Markers
  <1>2. CASE Cheap(s)
    <2>1. Digest(s) = token[s].hash /\ cursor.got[s] < 0
      BY <1>2 DEF Digest, Cheap
    <2>2. token[s].hash = 0 \/ token[s].hash = token[s].stat \/ s \in past.late
      BY DEF Tokens
    <2>3. token[s] = NoToken => token[s].hash = 0
      BY DEF NoToken
    <2>4. Abs(cursor.got[s]) = -cursor.got[s]
      BY <1>0, <2>1, Numbers
    <2>5. QED
      BY <1>1, <2>1, <2>2, <2>3, <2>4
  <1>3. CASE ~Cheap(s)
    <2>1. Digest(s) = cursor.got[s]
      BY <1>3 DEF Digest
    <2>2. CASE cursor.got[s] < 0
      <3>1. past.torn
        BY <1>1, <1>3, <2>2 DEF Cheap
      <3>2. Abs(cursor.got[s]) = -cursor.got[s]
        BY <1>0, <2>2, Numbers
      <3>3. cursor.got[s] = -Abs(cursor.got[s])
        BY <1>0, <3>2
      <3>4. QED
        BY <2>1, <3>1, <3>3
    <2>3. CASE cursor.got[s] >= 0
      <3>1. Abs(cursor.got[s]) = cursor.got[s]
        BY <1>0, <2>3, Numbers
      <3>2. QED
        BY <2>1, <3>1
    <2>4. QED
      BY <1>0, <2>2, <2>3
  <1>4. QED
    BY <1>2, <1>3

\* A draft whose findings quote what the run has seen is a good version.
LEMMA GoodDraft ==
    ASSUME FullType, Tokens, Markers, run.at \notin {"none", "reopen"},
           NEW p, NEW c, Quotes(c)
    PROVE  Good(Drafted(p, c)) /\ Exact(Drafted(p, c))
  <1> DEFINE v == Drafted(p, c)
  <1>1. /\ v.cites = c
        /\ \A s \in Source : v.hash[s] = Digest(s) /\ v.seen[s] = Abs(cursor.got[s])
    BY DEF Drafted
  <1>2. \A s \in Some(v.hash) : s \in Source /\ v.hash[s] # 0
    BY DEF Some
  <1> HIDE DEF v
  <1>3. Exact(v)
    BY <1>1 DEF Exact
  <1>4. ASSUME NEW s \in Source, Digest(s) # 0
        PROVE  \/ {Digest(s), c[s]} \subseteq {0, Abs(cursor.got[s])}
               \/ s \in past.late
               \/ past.torn /\ Digest(s) = -Abs(cursor.got[s])
    <2>1. CASE Digest(s) = Abs(cursor.got[s])
      BY <1>4, <2>1 DEF Quotes
    <2>2. CASE Digest(s) # Abs(cursor.got[s])
      BY <1>4, <2>2, Texts
    <2>3. QED
      BY <2>1, <2>2
  <1>5. Good(v)
    BY <1>1, <1>2, <1>4 DEF Good
  <1>6. QED
    BY <1>3, <1>5 DEF v

\* A finding on an unchanged source quotes what this run has seen of it.
LEMMA SameQuoted ==
    ASSUME FullType, Notes, Tokens, Markers, BriefIsCurrent,
           run.at \notin {"none", "reopen"}, NEW s \in Source, Same(s)
    PROVE  Quoted(Previous.cites, s)
  <1>1. Digest(s) # 0 /\ Previous.hash[s] = Digest(s)
    BY DEF Same
  <1>2. ~noted
    <2>1. noted => Previous.hash[s] = 0
      BY DEF Previous, NoVersion, All
    <2>2. QED
      BY <1>1, <2>1
  <1>3. Previous = current /\ ~past.torn
    BY <1>2 DEF Previous, Notes
  <1>4. s \in Some(current.hash)
    BY <1>1, <1>3 DEF Some
  <1>5. s \in past.late \/ {current.hash[s], current.cites[s]} \subseteq {0, current.seen[s]}
    BY <1>3, <1>4 DEF BriefIsCurrent
  <1>6. s \in past.late \/ current.cites[s] \in {0, Digest(s)}
    BY <1>1, <1>3, <1>5
  <1>7. s \in past.late \/ Digest(s) = Abs(cursor.got[s])
    BY <1>1, <1>3, Texts
  <1>8. QED
    BY <1>3, <1>6, <1>7 DEF Quoted

LEMMA QuotesKept ==
    ASSUME FullType, Notes, Tokens, Markers, BriefIsCurrent, run.at \notin {"none", "reopen"}
    PROVE  /\ Quotes(All(0))
           /\ Quotes(Carried)
           /\ Changed = {} => Quotes(Previous.cites)
  <1>1. \A s \in Unchanged : s \in Source /\ Quoted(Previous.cites, s)
    BY SameQuoted, SourcesType DEF Unchanged
  <1>2. Quotes(All(0))
    BY DEF Quotes, All
  <1>3. ASSUME NEW s \in Source PROVE Quoted(Carried, s)
    <2>1. CASE s \in Unchanged
      <3>1. Carried[s] = Previous.cites[s]
        BY <2>1 DEF Carried, Keep
      <3>2. QED
        BY <1>1, <2>1, <3>1 DEF Quoted
    <2>2. CASE s \notin Unchanged
      <3>1. Carried[s] = 0
        BY <2>2 DEF Carried, Keep
      <3>2. QED
        BY <3>1 DEF Quoted
    <2>3. QED
      BY <2>1, <2>2
  <1>4. ASSUME Changed = {}, NEW s \in Source PROVE Quoted(Previous.cites, s)
    <2>1. CASE Digest(s) = 0
      BY <2>1 DEF Quoted
    <2>2. CASE Digest(s) # 0
      BY <1>1, <1>4, <2>2, DigestIncluded DEF Changed
    <2>3. QED
      BY <2>1, <2>2
  <1>5. QED
    BY <1>2, <1>3, <1>4 DEF Quotes, Quoted

LEMMA ModeIs ==
    /\ Mode = "none" => Unchanged = {}
    /\ Mode = "same" => Changed = {}
    /\ Unchanged # {} /\ Changed = {} /\ Some(Previous.hash) = Included => Mode = "same"
  <1>1. CASE Unchanged = {}
    BY <1>1 DEF Mode
  <1>2. CASE Unchanged # {} /\ Changed = {} /\ Some(Previous.hash) = Included
    BY <1>2 DEF Mode
  <1>3. CASE Unchanged # {} /\ ~(Changed = {} /\ Some(Previous.hash) = Included)
    BY <1>3 DEF Mode
  <1>4. QED
    BY <1>1, <1>2, <1>3

\* The sources the model may be asked about.
Asked(S) == S = Changed \/ (S = Included /\ (Mode = "none" \/ (Mode = "partial" /\ Changed = {})))

Outcome ==
    \/ run' = Idle
    \/ \E p \in BOOLEAN, c \in [Source -> Hash] : Quotes(c) /\ Publishes(Drafted(p, c))
    \/ \E S \in SUBSET Source, k \in [Source -> Hash] :
          /\ Quotes(k) /\ Asked(S)
          /\ run' = [run EXCEPT !.at = "model", !.asked = S, !.kept = k]

LEMMA CompileOutcome ==
    ASSUME FullType, Notes, Tokens, Markers, BriefIsCurrent, Compile
    PROVE  Outcome
  <1>1. run.at \notin {"none", "reopen"}
    BY DEF Compile
  <1>2. /\ Quotes(All(0)) /\ Quotes(Carried) /\ (Changed = {} => Quotes(Previous.cites))
        /\ All(0) \in [Source -> Hash] /\ Carried \in [Source -> Hash]
        /\ Previous.cites \in [Source -> Hash]
        /\ Included \in SUBSET Source /\ Changed \in SUBSET Source
    BY <1>1, QuotesKept, SourcesType, ZeroType
  <1>3. ASSUME NEW c \in [Source -> Hash], NEW p \in BOOLEAN, Quotes(c), Publishes(Drafted(p, c))
        PROVE  Outcome
    BY <1>3 DEF Outcome
  <1>4. Publishes(Fallback) => Outcome
    BY <1>2, <1>3 DEF Fallback
  <1>5. ASSUME NEW S \in SUBSET Source, NEW k \in [Source -> Hash],
               Quotes(k), Asked(S), Asks(S, k)
        PROVE  Outcome
    <2>1. CASE Fails
      BY <2>1 DEF Fails, Outcome
    <2>2. CASE run' = [run EXCEPT !.at = "model", !.asked = S, !.kept = k]
      BY <1>5, <2>2 DEF Outcome
    <2>3. QED
      BY <1>4, <1>5, <2>1, <2>2 DEF Asks
  <1>6. CASE Publishes(Fallback)
    BY <1>4, <1>6
  <1>7. CASE Mode = "same" /\ Publishes(Drafted(TRUE, Previous.cites))
    <2>1. Quotes(Previous.cites)
      BY <1>2, <1>7, ModeIs
    <2>2. QED
      BY <1>2, <1>3, <1>7, <2>1
  <1>8. CASE \E passed \in BOOLEAN : Publishes(Drafted(passed, Carried))
    BY <1>2, <1>3, <1>8
  <1>9. CASE Mode = "partial" /\ Changed = {} /\ Asks(Included, All(0))
    <2>1. Asked(Included)
      BY <1>9 DEF Asked
    <2>2. QED
      BY <1>2, <1>5, <1>9, <2>1
  <1>10. CASE Asks(Changed, Carried)
    <2>1. Asked(Changed)
      BY DEF Asked
    <2>2. QED
      BY <1>2, <1>5, <1>10, <2>1
  <1>11. CASE Mode = "none" /\ Asks(Included, All(0))
    <2>1. Asked(Included)
      BY <1>11 DEF Asked
    <2>2. QED
      BY <1>2, <1>5, <1>11, <2>1
  <1>12. QED
    BY <1>6, <1>7, <1>8, <1>9, <1>10, <1>11 DEF Compile

\* What is said of a source stays true while tokens and results are kept.
LEMMA Stays ==
    ASSUME FullType, [Next]_vars, run'.at \in After
    PROVE  /\ \A s \in Source : Digest(s)' = Digest(s)
           /\ cursor' = cursor
           /\ past.late \subseteq past'.late
           /\ past.torn => past'.torn
           /\ Bodies' = Bodies
  BY Held, SameMarks, Frame

LEMMA DraftsStep ==
    ASSUME FullType, Notes, Tokens, Markers, Drafts, BriefIsCurrent, [Next]_vars
    PROVE  Drafts'
  <1> SUFFICES ASSUME run'.at \in {"model", "publish", "sync"}
               PROVE  Drafts'
    BY DEF Drafts
  <1>0. run'.at \in After
    BY DEF After
  <1>1. CASE run' = run
    <2>1. ~Publish
      BY <1>1 DEF Publish, FullType, RunType
    <2>2. current' = current
      BY <2>1, Frame
    <2>3. CASE run.at = "model"
      <3>1. Quotes(run.kept)
        BY <2>3 DEF Drafts
      <3>2. Quotes(run.kept)'
        BY <1>0, <1>1, <3>1, Stays DEF Quotes
      <3>3. QED
        BY <1>1, <2>3, <3>2 DEF Drafts
    <2>4. CASE run.at = "publish"
      <3>1. Good(run.draft) /\ Exact(run.draft)
        BY <2>4 DEF Drafts
      <3>2. Good(run.draft)'
        BY <1>0, <1>1, <3>1, Stays DEF Good, Some
      <3>3. Exact(run.draft)'
        BY <1>0, <1>1, <3>1, Stays DEF Exact
      <3>4. QED
        BY <1>1, <2>4, <3>2, <3>3 DEF Drafts
    <2>5. CASE run.at = "sync"
      <3>1. Exact(current)'
        BY <1>0, <2>2, <2>5, Stays DEF Exact, Drafts
      <3>2. QED
        BY <1>1, <2>5, <3>1 DEF Drafts
    <2>6. QED
      BY <1>1, <2>3, <2>4, <2>5
  <1>2. CASE Compile
    <2>1. run.at = "compile" /\ past' = past /\ cursor' = cursor
      BY <1>2 DEF Compile
    <2>2. Outcome /\ run' # Idle
      BY <1>2, CompileOutcome, IdleIs
    <2>3. CASE \E p \in BOOLEAN, c \in [Source -> Hash] : Quotes(c) /\ Publishes(Drafted(p, c))
      <3>1. PICK p \in BOOLEAN, c \in [Source -> Hash] : Quotes(c) /\ Publishes(Drafted(p, c))
        BY <2>3
      <3>2. Good(Drafted(p, c)) /\ Exact(Drafted(p, c))
        BY <2>1, <3>1, GoodDraft
      <3>3. run'.at = "publish" /\ run'.draft = Drafted(p, c)
        BY <3>1 DEF Publishes, FullType, RunType
      <3>4. Good(run.draft)'
        BY <2>1, <3>2, <3>3 DEF Good, Some
      <3>5. Exact(run.draft)'
        BY <1>0, <3>2, <3>3, Stays DEF Exact
      <3>6. QED
        BY <3>3, <3>4, <3>5 DEF Drafts
    <2>4. CASE \E S \in SUBSET Source, k \in [Source -> Hash] :
                  /\ Quotes(k) /\ Asked(S)
                  /\ run' = [run EXCEPT !.at = "model", !.asked = S, !.kept = k]
      <3>1. PICK S \in SUBSET Source, k \in [Source -> Hash] :
                  /\ Quotes(k) /\ Asked(S)
                  /\ run' = [run EXCEPT !.at = "model", !.asked = S, !.kept = k]
        BY <2>4
      <3>2. run'.at = "model" /\ run'.kept = k
        BY <3>1 DEF FullType, RunType
      <3>3. Quotes(run.kept)'
        BY <1>0, <2>1, <3>1, <3>2, Stays DEF Quotes
      <3>4. QED
        BY <3>2, <3>3 DEF Drafts
    <2>5. QED
      BY <2>2, <2>3, <2>4 DEF Outcome
  <1>3. CASE ModelAnswers
    <2>1. run.at = "model" /\ past' = past /\ cursor' = cursor
      BY <1>3 DEF ModelAnswers
    <2>2. PICK passed \in BOOLEAN, from \in SUBSET (run.asked \intersect Bodies) :
             run' = [run EXCEPT !.at = "publish", !.paid = TRUE,
                        !.draft = Drafted(passed, [s \in Source |->
                                      IF s \in from THEN Digest(s) ELSE run.kept[s]])]
      BY <1>3 DEF ModelAnswers
    <2> DEFINE c == [s \in Source |-> IF s \in from THEN Digest(s) ELSE run.kept[s]]
    <2>3. ASSUME NEW s \in Source PROVE Quoted(c, s)
      <3>1. CASE s \in from
        <4>1. c[s] = Digest(s)
          BY <3>1
        <4>2. QED
          BY <2>1, <4>1, Texts DEF Quoted
      <3>2. CASE s \notin from
        <4>1. c[s] = run.kept[s]
          BY <3>2
        <4>2. Quotes(run.kept)
          BY <2>1 DEF Drafts
        <4>3. QED
          BY <4>1, <4>2 DEF Quotes, Quoted
      <3>3. QED
        BY <3>1, <3>2
    <2>4. run'.at = "publish" /\ run'.draft = Drafted(passed, c)
      BY <2>2 DEF FullType, RunType
    <2> HIDE DEF c
    <2>5. Quotes(c)
      BY <2>3 DEF Quotes, Quoted
    <2>6. Good(Drafted(passed, c)) /\ Exact(Drafted(passed, c))
      BY <2>1, <2>5, GoodDraft
    <2>7. Good(run.draft)'
      BY <2>1, <2>4, <2>6 DEF Good, Some
    <2>8. Exact(run.draft)'
      BY <1>0, <2>4, <2>6, Stays DEF Exact
    <2>9. QED
      BY <2>4, <2>7, <2>8 DEF Drafts
  <1>4. CASE Publish
    <2>1. run.at = "publish" /\ current' = run.draft /\ run'.at = "sync"
      BY <1>4 DEF Publish, FullType, RunType
    <2>2. Exact(run.draft)
      BY <2>1 DEF Drafts
    <2>3. Exact(current)'
      BY <1>0, <2>1, <2>2, Stays DEF Exact
    <2>4. QED
      BY <2>1, <2>3 DEF Drafts
  <1>5. QED
    BY <1>1, <1>2, <1>3, <1>4, Places1, IdleIs

LEMMA CurrentStep ==
    ASSUME FullType, Drafts, BriefIsCurrent, [Next]_vars
    PROVE  BriefIsCurrent'
  <1>1. CASE Publish
    <2>1. /\ current' = run.draft
          /\ past'.late = past.late /\ past'.torn = past.torn
      BY <1>1 DEF Publish, FullType, PastType
    <2>2. Good(run.draft)
      BY <1>1 DEF Publish, Drafts
    <2>3. QED
      BY <2>1, <2>2 DEF Good, BriefIsCurrent, Some
  <1>2. CASE ~Publish
    <2>1. current' = current /\ past.late \subseteq past'.late /\ (past.torn => past'.torn)
      BY <1>2, Frame
    <2>2. QED
      BY <2>1 DEF BriefIsCurrent, Some
  <1>3. QED
    BY <1>1, <1>2

\* The model is asked about an unread source only in the named cases.
LEMMA BodiesStep ==
    ASSUME FullType, Notes, Markers, Reworks, Synced, Digested, Tokens, BriefIsCurrent,
           BodiesAreRead, [Next]_vars
    PROVE  BodiesAreRead'
  <1> SUFFICES ASSUME run'.at = "model", ~(run'.asked \subseteq Bodies')
               PROVE  /\ run'.caller # "rework"
                      /\ noted' \/ past'.unsynced \/ past'.missed # {}
    BY DEF BodiesAreRead
  <1>0. run'.at \in After
    BY DEF After
  <1>1. CASE run' = run
    <2>1. run.caller # "rework" /\ (noted \/ past.unsynced \/ past.missed # {})
      BY <1>0, <1>1, Stays DEF BodiesAreRead
    <2>2. noted => noted'
      BY Frame DEF NoteRework
    <2>3. QED
      BY <1>1, <2>1, <2>2, Frame
  <1>2. CASE run' # run
    <2>1. Compile /\ run.at = "compile" /\ run'.caller = run.caller
      BY <1>2, Places1, IdleIs
    <2>2. Outcome
      BY <2>1, CompileOutcome
    <2>3. PICK S \in SUBSET Source, k \in [Source -> Hash] :
             Asked(S) /\ run' = [run EXCEPT !.at = "model", !.asked = S, !.kept = k]
      BY <2>2, IdleIs DEF Outcome, Publishes, FullType, RunType
    <2>4. run'.asked = S
      BY <2>3 DEF FullType, RunType
    <2>5. Bodies' = Bodies
      BY <1>0, Stays
    <2>6. PICK s0 \in S : s0 \notin Bodies
      BY <2>4, <2>5
    <2>7. s0 \in Source /\ s0 \in Included /\ Cheap(s0)
      BY <2>3, <2>6 DEF Asked, Bodies, Changed
    <2>8. cursor.got[s0] < 0 /\ cursor.got[s0] \in Int
      BY <2>7, Numbers DEF Cheap, FullType, TypeOK
    <2>9. run.caller # "rework"
      <3>1. run.caller = "rework" => cursor.got[s0] >= 0
        BY <2>1, <2>7 DEF Reworks
      <3>2. QED
        BY <2>8, <3>1
    <2>10. ~Regular
      <3> SUFFICES ASSUME Regular PROVE FALSE
        OBVIOUS
      <3>1. /\ Reusable(current)
            /\ \A t \in Source : token[t].hash = current.hash[t] /\ token[t].hash # 0
        BY <2>1, <2>7, Confirms DEF After
      <3>2. Previous = current
        BY DEF Previous, Regular
      <3>3. ASSUME NEW t \in Source, Cheap(t) PROVE t \in Unchanged
        <4>1. Digest(t) = token[t].hash
          BY <3>3 DEF Digest
        <4>2. Same(t)
          BY <3>1, <3>2, <4>1 DEF Same
        <4>3. t \in Included
          BY <3>3, DigestIncluded
        <4>4. QED
          BY <3>1, <3>2, <4>2, <4>3 DEF Unchanged
      <3>4. s0 \in Unchanged
        BY <2>7, <3>3
      <3>5. S = Included /\ (Mode = "none" \/ (Mode = "partial" /\ Changed = {}))
        BY <2>3, <2>6, <3>4 DEF Asked, Changed
      <3>6. Mode = "partial" /\ Changed = {}
        BY <3>4, <3>5, ModeIs
      <3>7. Included = Source
        <4>1. \A t \in Source : Digest(t) # 0
          BY <2>1 DEF Digested, After
        <4>2. QED
          BY <4>1, DigestIncluded, SourcesType
      <3>8. Some(Previous.hash) = Source
        BY <3>1, <3>2 DEF Some
      <3>9. Mode = "same"
        BY <3>4, <3>6, <3>7, <3>8, ModeIs
      <3>10. QED
        BY <3>6, <3>9
    <2>11. noted' = noted /\ past' = past
      BY <2>1 DEF Compile
    <2>12. QED
      BY <2>1, <2>9, <2>10, <2>11 DEF Regular
  <1>3. QED
    BY <1>1, <1>2
----------------------------------------------------------------------------
LEMMA InitIInv == Init => IInv
  <1> SUFFICES ASSUME Init PROVE IInv
    OBVIOUS
  <1>1. FullType
    <2>1. disk \in [Source -> Stamp \ {0}]
      BY Numbers DEF Init, All, Stamp
    <2>2. token \in [Source -> Token] /\ \A s \in File : token[s].stat = 0 /\ token[s].hash = 0
      BY ZeroType DEF Init, NoToken, File
    <2>3. cursor \in [got : [Source -> Hash], pos : 1..(Sources + 1)]
      BY ZeroType, Numbers DEF Init
    <2>4. run \in RunType /\ run.at = "none"
      BY ZeroType, IdleIs DEF Init
    <2>5. past \in PastType
      BY DEF Init, PastType
    <2>6. run.caller \in {"none", "execute", "rerun", "rework"} /\ run.at \in Places
          /\ run.asked \subseteq Source /\ run.draft \in Version
      BY <2>4 DEF RunType
    <2>7. QED
      BY <2>1, <2>2, <2>3, <2>4, <2>5, <2>6, ZeroType DEF Init, FullType, TypeOK
  <1>2. /\ run.at = "none" /\ run.caller = "none" /\ ~past.torn /\ ~noted
        /\ token = All(NoToken)
        /\ \A s \in Source : cursor.got[s] = 0 /\ token[s].hash = 0
        /\ cursor.pos = 1
    BY IdleIs DEF Init, All, NoToken
  <1>3. Notes /\ Tokens /\ Markers /\ Reworks
    BY <1>2 DEF Notes, Tokens, Markers, Reworks
  <1>4. Steps /\ Synced /\ Digested /\ Drafts
    BY <1>2 DEF Steps, Synced, Digested, Drafts, After, Source
  <1>5. BriefIsCurrent /\ BodiesAreRead
    BY <1>2 DEF Init, BriefIsCurrent, BodiesAreRead, NoVersion, Some, All
  <1>6. QED
    BY <1>1, <1>3, <1>4, <1>5 DEF IInv

LEMMA StepIInv == IInv /\ [Next]_vars => IInv'
  BY TypeStep, NotesStep, TokensStep, MarkersStep, ReworksStep, StepsStep, SyncedStep,
     DigestedStep, DraftsStep, CurrentStep, BodiesStep DEF IInv

LEMMA Inductive == Spec => []IInv
  BY InitIInv, StepIInv, PTL DEF Spec

\* The types of a brief's plan, cursor, execution and version, whatever the
\* order of runs, changes and deaths (project_brief.py, work_delivery.py).
THEOREM TypeCorrect == Spec => []TypeOK
  <1>1. IInv => TypeOK
    BY DEF IInv, FullType
  <1>2. QED
    BY Inductive, <1>1, PTL

\* A published version declares and quotes the content its run saw, but for a
\* late stamp of _file_fingerprint and a rework torn between its two writes.
THEOREM CurrentCorrect == Spec => []BriefIsCurrent
  <1>1. IInv => BriefIsCurrent
    BY DEF IInv
  <1>2. QED
    BY Inductive, <1>1, PTL

\* compile_project_brief_delivery sends the model the body of every source it
\* asks about: after a rework always, otherwise unless the notes of an earlier
\* rework, a failed read or an interrupted fingerprint sync got in the way.
THEOREM BodiesCorrect == Spec => []BodiesAreRead
  <1>1. IInv => BodiesAreRead
    BY DEF IInv
  <1>2. QED
    BY Inductive, <1>1, PTL
=============================================================================

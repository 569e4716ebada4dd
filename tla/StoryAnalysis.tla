---------------------------- MODULE StoryAnalysis ----------------------------
(***************************************************************************)
(* Long-running story analyses: the registry of jobs, the task of each     *)
(* job, and the SQLite checkpoint all analyses of one request (the same    *)
(* text and settings) share.  A job asks the provider for the story bible  *)
(* chunk by chunk and for the scenes batch by batch, and commits a row per *)
(* scene, so that the next run of the request goes on where one stopped.   *)
(*                                                                         *)
(* A step is what a task does from one await to the next.  A write of the  *)
(* checkpoint runs in a thread: it commits or fails after the step that    *)
(* started it, and it goes on when the task that waits for it is           *)
(* cancelled.  What the provider answers is the set of scenes of the       *)
(* answer that have a valid shape.                                         *)
(***************************************************************************)
EXTENDS Integers, FiniteSets, FiniteSetsExt, Sequences

CONSTANTS
  N,            \* scenes of the draft
  Chunks,       \* parts of the story bible
  BatchSize,    \* scenes per request at the beginning
  Attempts,     \* XKIRO_STRUCTURE_REPAIR_ATTEMPTS
  MaxJobs,      \* AnalysisJobRegistry.max_jobs
  MaxStarts,    \* bound on the jobs of a behaviour
  Online,       \* the first so many jobs use the provider, the rest do not
  MaxCrashes,   \* bound on the restarts of the server
  Builds,       \* versions of the program: each cuts the text its own way
  Held,         \* another program may hold the checkpoint against removal
  NoFile, NoWrite, NoProject

ASSUME AnalysisAssumption ==
  /\ {N, Chunks, BatchSize, Attempts, MaxJobs, MaxStarts} \subseteq Nat \ {0}
  /\ {Online, MaxCrashes} \subseteq Nat /\ Builds \subseteq Nat \ {0} /\ Builds # {}
  /\ Held \in BOOLEAN

Scenes == 1..N
Jobs == 1..MaxStarts

VARIABLES
  listed,     \* AnalysisJobRegistry.jobs
  status,     \* job["status"]
  pc,         \* where the task of a job is; "none" without a task
  chunks,     \* checkpoint["world_chunks_completed"] in the memory of a task
  known,      \* checkpoint["scenes"] in the memory of a task: build of a row
  batch,      \* first scene and size of the current batch of a task
  answer,     \* scenes of the answer that are not saved yet
  ask,        \* scenes asked for, the scene whose end is the anchor, attempt
  shrink,     \* the feedback of the batch asks for smaller ones
  enriched,   \* enriched_scenes
  write,      \* the write in the thread of a job; NoFile for a removal that
              \* the task of the job no longer waits for
  file,       \* the checkpoint file
  build,      \* version of the running program
  published,  \* the scenes of the project a task has stored
  acked,      \* history: rows a job loaded or was told are committed
  starts, crashes

registry == <<listed, status>>
memory == <<chunks, known, batch, answer, ask, shrink, enriched, published, acked>>
store == <<write, file>>
world == <<build, starts, crashes>>
vars == <<registry, pc, memory, store, world>>

Terminal == {"completed", "failed", "cancelled"}
Status == Terminal \cup {"queued", "running"}
Waiting == {"catalog", "load", "discard", "bible", "batch", "repair",
            "savebible", "saverow", "saverepair", "savebatch", "clear"}
PC == Waiting \cup {"none", "queued", "merge", "closing"}

\* A checkpoint row: the build that wrote it, 0 for no row.
NoRows == [s \in Scenes |-> 0]
Rows == [Scenes -> Builds \cup {0}]
RowSet(rows) == {s \in Scenes : rows[s] # 0}
File == [shape : Builds, chunks : 0..Chunks, rows : Rows] \cup {NoFile}

ASSUME NothingAssumption ==
  /\ NoFile \notin [shape : Builds, chunks : 0..Chunks, rows : Rows]
  /\ {NoWrite, NoFile} \cap [chunks : 0..Chunks, rows : Rows] = {} /\ NoWrite # NoFile
  /\ NoProject \notin Seq(Scenes \X Builds)

NoAsk == [scenes |-> {}, after |-> 0, attempt |-> 1]

Live(j) == pc[j] # "none"
Goes(j, to) == pc' = [pc EXCEPT ![j] = to]

Init ==
  /\ listed = {} /\ status = [j \in Jobs |-> "queued"]
  /\ pc = [j \in Jobs |-> "none"]
  /\ chunks = [j \in Jobs |-> 0] /\ known = [j \in Jobs |-> NoRows]
  /\ batch = [j \in Jobs |-> [first |-> 1, size |-> BatchSize]]
  /\ answer = [j \in Jobs |-> {}]
  /\ ask = [j \in Jobs |-> NoAsk]
  /\ shrink = [j \in Jobs |-> FALSE] /\ enriched = [j \in Jobs |-> <<>>]
  /\ write = [j \in Jobs |-> NoWrite] /\ file = NoFile
  /\ build = Min(Builds)
  /\ published = [j \in Jobs |-> NoProject] /\ acked = [j \in Jobs |-> {}]
  /\ starts = 0 /\ crashes = 0

(***************************************************************************)
(* The registry.                                                           *)
(***************************************************************************)
\* Mutant: any job may be pruned.
MutPrunable == listed

Prunable == {j \in listed : status[j] \in Terminal}

\* prune(): the oldest finished job makes room (which one is the oldest is
\* left open); without one the request is answered 429.
Admit ==
  IF Cardinality(listed) < MaxJobs THEN {listed}
  ELSE {listed \ {j} : j \in Prunable}

Start ==
  /\ starts < MaxStarts /\ starts' = starts + 1
  /\ \E rest \in Admit : listed' = rest \cup {starts + 1}
  /\ status' = [status EXCEPT ![starts + 1] = "queued"]
  /\ Goes(starts + 1, "queued")
  /\ UNCHANGED <<memory, store, build, crashes>>

\* How run_job ends: the status, then the finally block awaits the heartbeat.
\* A task keeps nothing but its thread.
Forget(j) ==
  /\ chunks' = [chunks EXCEPT ![j] = 0] /\ known' = [known EXCEPT ![j] = NoRows]
  /\ batch' = [batch EXCEPT ![j] = [first |-> 1, size |-> BatchSize]]
  /\ answer' = [answer EXCEPT ![j] = {}] /\ ask' = [ask EXCEPT ![j] = NoAsk]
  /\ shrink' = [shrink EXCEPT ![j] = FALSE] /\ enriched' = [enriched EXCEPT ![j] = <<>>]
  /\ acked' = [acked EXCEPT ![j] = {}]

Ends(j, s) ==
  /\ status' = [status EXCEPT ![j] = s]
  /\ Goes(j, "closing") /\ Forget(j)
  /\ published' = [published EXCEPT ![j] = NoProject]
  /\ UNCHANGED <<listed, world>>

Close(j) ==
  /\ pc[j] = "closing" /\ Goes(j, "none")
  /\ UNCHANGED <<registry, memory, store, world>>

\* The route cancels the task and waits for it; in the finally block the
\* status it has stays.  What the task had a thread do is not undone: a write,
\* or the removal of the checkpoint.
Cancel(j) ==
  /\ j \in listed /\ pc[j] \in Waiting
  /\ Ends(j, "cancelled")
  /\ write' = [write EXCEPT ![j] = IF pc[j] \in {"discard", "clear"} THEN NoFile ELSE @]
  /\ UNCHANGED file

(***************************************************************************)
(* The checkpoint file.                                                    *)
(***************************************************************************)
\* save(): the state and the selected rows, in one transaction.
Writes(j, done, rows, scenes) ==
  write' = [write EXCEPT ![j] =
    [chunks |-> done, rows |-> [s \in Scenes |-> IF s \in scenes THEN rows[s] ELSE 0]]]

Overlay(rows, w) == [s \in Scenes |-> IF w[s] # 0 THEN w[s] ELSE rows[s]]

Committed(w) ==
  [shape |-> build, chunks |-> w.chunks,
   rows |-> IF file = NoFile THEN w.rows ELSE Overlay(file.rows, w.rows)]

\* The thread of a task that no longer waits for it: it had not begun and is
\* dropped, it fails, or it does what it was started for.
Orphan(j) ==
  /\ write[j] # NoWrite /\ pc[j] \in {"none", "closing"}
  /\ file' \in {file, IF write[j] = NoFile THEN NoFile ELSE Committed(write[j])}
  /\ write' = [write EXCEPT ![j] = NoWrite]
  /\ UNCHANGED <<registry, pc, memory, world>>

WriteFails(j) ==
  /\ write[j] # NoWrite /\ Live(j) /\ pc[j] # "closing"
  /\ write' = [write EXCEPT ![j] = NoWrite]
  /\ Ends(j, "failed")
  /\ UNCHANGED <<file>>

Unlinked == {NoFile} \cup IF Held THEN {file} ELSE {}

Compatible == file.shape = build

(***************************************************************************)
(* The course of an analysis.                                              *)
(***************************************************************************)
Last(b) == Min({b.first + b.size - 1, N})
BatchScenes(b) == b.first .. Last(b)

\* Mutant: a batch with one missing scene is asked for as a whole.
MutPending(rows, b) == IF BatchScenes(b) \subseteq RowSet(rows) THEN {} ELSE BatchScenes(b)

Pending(rows, b) == BatchScenes(b) \ RowSet(rows)

\* Mutant: the batch after smaller ones begins one scene early.
MutRest(b, size) == [first |-> Last(b), size |-> size]

Rest(b, size) == [first |-> Last(b) + 1, size |-> size]

\* Mutant: a batch is passed when any of its scenes is in the checkpoint.
MutPassing(rows, b) ==
  LET at(i) == [b EXCEPT !.first = Min({@ + i * b.size, N + 1})]
  IN at(Min({i \in 0..N : at(i).first > N \/ Pending(rows, at(i)) = BatchScenes(at(i))}))

\* Batches that are complete in the checkpoint are passed.
Passing(rows, b) ==
  LET at(i) == [b EXCEPT !.first = Min({@ + i * b.size, N + 1})]
  IN at(Min({i \in 0..N : at(i).first > N \/ Pending(rows, at(i)) # {}}))

\* Mutant: the anchor is the end of the batch before.
MutAnchor(rows, b) == b.first - 1

\* request_anchor: the end of the last of the scenes at the head of the
\* batch that are done, or of the batch before.
Anchor(rows, b) ==
  Max({b.first - 1} \cup {s \in BatchScenes(b) : b.first..s \subseteq RowSet(rows)})

\* The loop over the batches goes on with b, the scenes before it being done:
\* what the checkpoint has is appended to enriched_scenes as well.
Done(rows, scenes) ==
  [i \in 1..Cardinality(scenes) |-> LET s == Min(scenes) + i - 1 IN <<s, rows[s]>>]

Enter(j, rows, from, done) ==
  \E b \in {Passing(rows, from)} :
    /\ batch' = [batch EXCEPT ![j] = b]
    /\ enriched' = [enriched EXCEPT ![j] = done \o Done(rows, from.first .. (b.first - 1))]
    /\ answer' = [answer EXCEPT ![j] = {}]
    /\ shrink' = [shrink EXCEPT ![j] = FALSE]
    /\ IF b.first > N
       THEN Goes(j, "merge") /\ ask' = [ask EXCEPT ![j] = NoAsk]
       ELSE /\ Goes(j, "batch")
            /\ ask' = [ask EXCEPT ![j] = [scenes |-> Pending(rows, b),
                                          after |-> Anchor(rows, b), attempt |-> 1]]

\* Mutant: the project is stored after the checkpoint has been cleared.
MutPublish(j) == UNCHANGED published

\* _merge_analysis and storage.save
Publish(j) == published' = [published EXCEPT ![j] = enriched[j]]

Merge(j) ==
  /\ pc[j] = "merge"
  /\ Publish(j) /\ Goes(j, "clear")
  /\ UNCHANGED <<registry, store, world, chunks, known, batch,
                 answer, ask, shrink, enriched, acked>>

MergeRaises(j) == pc[j] = "merge" /\ Ends(j, "failed") /\ UNCHANGED store

\* The offline engine answers and stores in one step.
RunOffline(j) ==
  /\ pc[j] = "queued" /\ j > Online
  /\ \E s \in {"completed", "failed"} : Ends(j, s)
  /\ UNCHANGED store

Run(j) ==
  /\ pc[j] = "queued" /\ j <= Online
  /\ status' = [status EXCEPT ![j] = "running"]
  /\ Goes(j, "catalog")
  /\ UNCHANGED <<listed, memory, store, world>>

\* The request to the provider fails for good (its own retries are spent, or
\* its answer is no JSON).
RequestFails(j) ==
  /\ pc[j] \in {"catalog", "bible", "batch", "repair"}
  /\ Ends(j, "failed") /\ UNCHANGED store

\* The catalog has the model; the text is cut into scenes.
Catalog(j) ==
  /\ pc[j] = "catalog"
  /\ Goes(j, IF file = NoFile THEN "bible" ELSE "load")
  /\ UNCHANGED <<registry, memory, store, world>>

Load(j) ==
  /\ pc[j] = "load" /\ file # NoFile /\ Compatible
  /\ chunks' = [chunks EXCEPT ![j] = file.chunks]
  /\ known' = [known EXCEPT ![j] = file.rows]
  /\ acked' = [acked EXCEPT ![j] = RowSet(file.rows)]
  /\ IF file.chunks < Chunks
     THEN Goes(j, "bible") /\ UNCHANGED <<batch, answer, ask, shrink, enriched>>
     ELSE Enter(j, file.rows, batch[j], <<>>)
  /\ UNCHANGED <<registry, store, world, published>>

\* Another segmentation, an error of the database, or a file that is gone.
LoadFails(j) ==
  /\ pc[j] = "load" /\ Goes(j, "discard")
  /\ UNCHANGED <<registry, memory, store, world>>

Discard(j) ==
  /\ pc[j] = "discard"
  /\ file' \in Unlinked
  /\ Goes(j, "bible")
  /\ UNCHANGED <<registry, memory, write, world>>

BibleAnswer(j) ==
  /\ pc[j] = "bible"
  /\ chunks' = [chunks EXCEPT ![j] = @ + 1]
  /\ UNCHANGED known /\ Writes(j, chunks[j] + 1, NoRows, {})
  /\ Goes(j, "savebible")
  /\ UNCHANGED <<registry, file, world, batch, answer, ask, shrink, enriched, published, acked>>

\* After an answer or a committed row: the next row of the answer, the
\* repair of a missing scene, or the last write of the batch.
Continue(j, left) ==
  LET missing == Pending(known[j], batch[j])
  IN \/ \E s \in left :
          /\ known' = [known EXCEPT ![j][s] = build]
          /\ answer' = [answer EXCEPT ![j] = left \ {s}]
          /\ UNCHANGED <<chunks, ask>>
          /\ Writes(j, chunks[j], [known[j] EXCEPT ![s] = build], {s}) /\ Goes(j, "saverow")
     \/ /\ left = {} /\ missing # {}
        /\ answer' = [answer EXCEPT ![j] = {}]
        /\ ask' = [ask EXCEPT ![j] = [scenes |-> {Min(missing)},
                                      after |-> Min(missing) - 1, attempt |-> 1]]
        /\ write' = [write EXCEPT ![j] = NoWrite]
        /\ Goes(j, "repair")
        /\ UNCHANGED <<chunks, known>>
     \/ /\ left = {} /\ missing = {}
        /\ UNCHANGED <<chunks, known, answer, ask>>
        /\ Writes(j, chunks[j], known[j], BatchScenes(batch[j])) /\ Goes(j, "savebatch")

BatchAnswer(j) ==
  /\ pc[j] = "batch"
  /\ \E valid \in SUBSET ask[j].scenes :
       LET requested == Cardinality(ask[j].scenes)
           missing == requested - Cardinality(valid)
       IN /\ shrink' = [shrink EXCEPT ![j] = requested > 1 /\ missing >= (requested + 1) \div 2]
          /\ Continue(j, valid)
  /\ UNCHANGED <<registry, file, world, batch, enriched, published, acked>>

\* Mutant: a scene no answer is valid for is asked for without end.
MutSpent(j) == FALSE

Spent(j) == ask[j].attempt = Attempts

\* A valid answer, or the scene of the draft once the attempts are spent.
Repaired(j) ==
  /\ pc[j] = "repair"
  /\ \E s \in ask[j].scenes :
       /\ known' = [known EXCEPT ![j][s] = build]
       /\ Writes(j, chunks[j], [known[j] EXCEPT ![s] = build], {s})
  /\ UNCHANGED chunks
  /\ Goes(j, "saverepair")
  /\ UNCHANGED <<registry, file, world, batch, answer, ask, shrink, enriched, published, acked>>

NotRepaired(j) ==
  /\ pc[j] = "repair" /\ ~Spent(j)
  /\ ask' = [ask EXCEPT ![j].attempt = (@ % Attempts) + 1]
  /\ UNCHANGED <<registry, pc, store, world, chunks, known, batch,
                 answer, shrink, enriched, published, acked>>

\* Half the batch missing makes the batches of the rest half as large.
NextSize(j) ==
  LET b == batch[j] IN IF shrink[j] /\ b.size > 1 /\ Last(b) < N THEN b.size \div 2 ELSE b.size

\* The transaction of a waiting task commits.
Saved(j) ==
  /\ write[j] # NoWrite /\ Live(j) /\ pc[j] # "closing"
  /\ file' = Committed(write[j])
  /\ acked' = [acked EXCEPT ![j] = @ \cup RowSet(write[j].rows)]
  /\ \/ /\ pc[j] = "savebible" /\ chunks[j] < Chunks
        /\ write' = [write EXCEPT ![j] = NoWrite]
        /\ Goes(j, "bible")
        /\ UNCHANGED <<chunks, known, batch, answer, ask, shrink, enriched>>
     \/ /\ pc[j] = "savebible" /\ chunks[j] = Chunks
        /\ write' = [write EXCEPT ![j] = NoWrite]
        /\ UNCHANGED <<chunks, known>> /\ Enter(j, known[j], batch[j], <<>>)
     \/ /\ pc[j] \in {"saverow", "saverepair"}
        /\ Continue(j, answer[j])
        /\ UNCHANGED <<batch, shrink, enriched>>
     \/ /\ pc[j] = "savebatch"
        /\ write' = [write EXCEPT ![j] = NoWrite]
        /\ UNCHANGED <<chunks, known>>
        /\ Enter(j, known[j], Rest(batch[j], NextSize(j)),
                 enriched[j] \o Done(known[j], BatchScenes(batch[j])))
  /\ UNCHANGED <<registry, world, published>>

\* clear(): an error of the removal is swallowed.
Clear(j) ==
  /\ pc[j] = "clear"
  /\ file' \in Unlinked
  /\ Ends(j, "completed")
  /\ UNCHANGED write

(***************************************************************************)
(* The server stops; another version of the program may be started.        *)
(***************************************************************************)
Restart ==
  /\ crashes < MaxCrashes /\ crashes' = crashes + 1
  /\ build' \in Builds
  /\ listed' = {} /\ status' = [j \in Jobs |-> "queued"]
  /\ pc' = [j \in Jobs |-> "none"]
  /\ chunks' = [j \in Jobs |-> 0] /\ known' = [j \in Jobs |-> NoRows]
  /\ batch' = [j \in Jobs |-> [first |-> 1, size |-> BatchSize]]
  /\ answer' = [j \in Jobs |-> {}] /\ ask' = [j \in Jobs |-> NoAsk]
  /\ shrink' = [j \in Jobs |-> FALSE] /\ enriched' = [j \in Jobs |-> <<>>]
  /\ published' = [j \in Jobs |-> NoProject] /\ acked' = [j \in Jobs |-> {}]
  /\ write' = [j \in Jobs |-> NoWrite]
  /\ UNCHANGED <<file, starts>>

Step(j) ==
  \/ RunOffline(j) \/ Run(j) \/ Catalog(j) \/ RequestFails(j)
  \/ Load(j) \/ LoadFails(j) \/ Discard(j)
  \/ BibleAnswer(j) \/ BatchAnswer(j) \/ Repaired(j) \/ NotRepaired(j)
  \/ Saved(j) \/ WriteFails(j) \/ Merge(j) \/ MergeRaises(j) \/ Clear(j) \/ Close(j)

Next == Start \/ Restart \/ \E j \in Jobs : Step(j) \/ Cancel(j) \/ Orphan(j)

Spec == Init /\ [][Next]_vars

\* The event loop runs every task, a thread ends, and every request to the
\* provider has a timeout and a bounded number of retries: weak fairness of
\* Step(j), written out, since a step of a task is possible iff it is live.
Fair(j) == []<>(pc[j] = "none") \/ []<><<Step(j)>>_vars
FairSpec == Spec /\ \A j \in Jobs : Fair(j)

AnalysisTypeOK ==
  /\ listed \subseteq Jobs /\ status \in [Jobs -> Status] /\ pc \in [Jobs -> PC]
  /\ chunks \in [Jobs -> 0..Chunks] /\ known \in [Jobs -> Rows]
  /\ batch \in [Jobs -> [first : 1..(N + 1), size : 1..BatchSize]]
  /\ enriched \in [Jobs -> Seq(Scenes \X Builds)]
  /\ published \in [Jobs -> Seq(Scenes \X Builds) \cup {NoProject}]
  /\ write \in [Jobs -> [chunks : 0..Chunks, rows : Rows] \cup {NoWrite, NoFile}]
  /\ answer \in [Jobs -> SUBSET Scenes] /\ acked \in [Jobs -> SUBSET Scenes]
  /\ ask \in [Jobs -> [scenes : SUBSET Scenes, after : 0..N, attempt : 1..Attempts]]
  /\ shrink \in [Jobs -> BOOLEAN] /\ file \in File /\ build \in Builds
  /\ starts \in 0..MaxStarts /\ crashes \in 0..MaxCrashes

(***************************************************************************)
(* Properties.                                                             *)
(***************************************************************************)
\* The registry is bounded, and what it forgets is over: a task that is at
\* work can be found and cancelled, and a job that looks active has a task.
ActiveIsListed ==
  /\ Cardinality(listed) <= MaxJobs
  /\ {j \in listed : status[j] \notin Terminal} = {j \in Jobs : Live(j) /\ pc[j] # "closing"}

\* What a task has loaded, or was told is committed, is never asked for
\* again: neither the rest of a batch, nor the repair of a scene, nor the
\* smaller batches after a poor answer include a scene that is done.
NothingAskedTwice ==
  \A j \in Jobs : pc[j] \in {"batch", "repair"} =>
    ask[j].scenes # {} /\ ask[j].scenes \cap acked[j] = {}

\* The continuity anchor of a request is the end of the scene right before
\* the first scene it asks for, wherever an interruption has left the batch.
AnchorIsPredecessor ==
  \A j \in Jobs : pc[j] \in {"batch", "repair"} => ask[j].after = Min(ask[j].scenes) - 1

\* The project that is stored has every scene once, in order, as the running
\* program cuts the text, however the batches were cut and resumed.
PublishedWhole ==
  [][\A j \in Jobs : published'[j] # published[j] /\ published'[j] # NoProject =>
       published'[j] = [s \in Scenes |-> <<s, build>>]]_vars

\* A committed row of the running program disappears only when the project
\* it belongs to is stored, when a job could not read the file, or when the
\* removal a cancelled job has begun for one of these reasons comes late: it
\* may then take the rows of the next job.
RowsOf(f) == IF f = NoFile THEN {} ELSE IF f.shape = build THEN RowSet(f.rows) ELSE {}

ProgressKept ==
  [][build' = build /\ ~(RowsOf(file) \subseteq RowsOf(file)') =>
       \E j \in Jobs : \/ pc[j] = "discard"
                       \/ pc[j] = "clear" /\ published[j] # NoProject
                       \/ write[j] = NoFile]_vars

\* An analysis that was accepted ends, in one way or another.
JobEnds == \A j \in Jobs : pc[j] = "queued" ~> pc[j] = "none"

\* "Checkpoint cu khong tuong thich; tao tien do moi" (the old checkpoint is
\* incompatible, progress starts anew): no row of another segmentation is
\* taken for one of this program.
NoForeignRows == \A j \in Jobs, s \in Scenes : known[j][s] \in {0, build}
=============================================================================

# A TLA+ verification project for TH Media (flow_story_studio)

TH Media is a Python program (FastAPI, asyncio) that turns a written story into
a storyboard of scenes, renders every scene through a video provider, judges
each take with automatic quality control, and merges the accepted takes into one
film. This directory models the part of it that carries state through time: the
analysis of the text with its checkpoint and its provider, the semantic state of
the storyboard, the render queue, the stored project document, the services and
routes that change it, the final merge, the storage underneath, and the browser
through which everything is generated. Paths below are relative to the package
`src/src/flow_story_studio/`.

## 1. Inventory

Everything runs in one process and, except for worker threads that only wait
for a file or a provider, on one asyncio event loop: a coroutine is interrupted
only at an `await`. There is no lock on a project: a handler reads the whole
document (`storage.get`), changes its copy, and saves the whole (`storage.save`).
What makes the system hard is therefore a document held across an `await`.

| Component | State | Operations | Hard behaviour | What makes it correct |
|---|---|---|---|---|
| Render queue (`render_queue.py`) | per project a FIFO of scene ids, the set `_queued_ids`, a worker task, a pause event | enqueue, worker loop, pause, resume, shutdown | requests between any two suspensions of the worker; snapshots saved late; retries; crashes | the set is the queue; no work without worker; a retry budget; statuses that tell the truth |
| Project document, production gate (`models.py`, `production_gate.py`, `scene_contracts.py`, `film/image_plan.py`, `film/state_delta.py`) | scenes with status, acceptance, attempts, result, QC evidence, contract, image plan; final video | clear evidence, commit, compile plans, gate | several partial clearings of the same evidence | what is Ready passes the gate; evidence belongs to the content |
| Storage (`storage.py`) | project file, sidecar, backup directory | save, get, list, restore, delete | locked files (Windows), crash between file operations, torn copies | readers see one atomic version; a deleted one is restorable |
| Service and routes (`service.py`, `project_routes.py`) | documents held over an await | settings, edits, locks, continuity, Masters, images, uploads | idle guard read before the await, save after it | edits are never reverted; takes match content and Masters |
| Final merge (`video_routes.py`, `video_merger.py`, `main.py`) | `merge_tasks`, `final_video.status` | merge, task, done-callback, `required()` | render during merge, late callback, crash while Merging | the film shows the takes the project has |
| QC and repair (`visual_qc.py`, `audio_qc.py`, `qc_repair.py`) | reports in the scene | post-render QC, classification, retry | unavailable QC, missing boundary frames | retries end |
| Reference manager (`reference_manager.py`, Master routes) | Masters, candidates and their evidence; image files | ensure reference, generate, upload, inspect | long awaits, paths written again, evidence beside the image | an open gate vouches for the file that is there; no render on unapproved Masters |
| Render providers (`providers/`) | provider lock | generate | unavailable, error, demo provider without a file | the demo provider never makes a film |
| Google Flow worker (`google_flow_browser_worker.py`) | pacing file, lock file, circuit file; the one tab with its form and grid | wait for a slot, prepare the page, click, find the tile, watch, download, join subclips | several processes, stale lock takeover; no answer to a click, late tiles, a shared tab | one request per interval; a generation returns its own files |
| Analysis jobs (`analysis_jobs.py`, `analysis_routes.py`) | registry of jobs and tasks | start, progress, cancel, prune | admission at the limit, cancel against completion, threads that outlive their task | running jobs are listed; every job ends |
| Analysis providers (`analysis_providers/checkpoint.py`, `semantic_orchestrator.py`, `xkiro.py`) | SQLite checkpoint, batches, retry counters, API key | analyse, resume, repair, request, Vision call | resume after a crash or an update, jobs of the same request, time-outs that leave a request running | a resumed analysis equals a whole one; requests end and are not doubled |
| Analysis finalization (`source_truth.py`, `finalization.py`) | state of props per scene, ledger of the present timeline | compile scene by scene | flashbacks, jumps, hand-overs, fragments | damage lasts; a flashback stays apart |
| Semantic readiness (`semantic_readiness.py`) | none | the gate before a storyboard is used | replays the states by code of its own | agrees with the compiler |
| Browser sessions (`browser_sessions.py`, `browser_session_routes.py`) | vaults of cookies and proxy, profile, Chrome, bridge | import, clear, set proxy, drive, reset | threads that read before a reset; processes that outlive the server | cookies are what was imported; traffic takes the proxy that is set |
| Workspace (`workspace_lock.py`, `desktop.py`) | lock file, backend of a session | choose, serve, close | a backend that starts and ends by itself | one backend per folder |
| Story engines, film planning | none | pure functions over text | — | see section 7 |
| Web access, migrations, export, integration and media tools, frontend | small | see section 7 | — | see section 7 |

Interaction: the routes call the queue (`enqueue`, `pause`, `resume`) and the
service; the worker calls the reference manager, the provider and the QC and
awaits each; queue, service, routes and merge all read and write the one
document through the storage; `required()` repairs a stale `Merging` on the way
into most routes; the merge task reports through a done-callback. An analysis
job asks the provider's client from a thread, commits to the checkpoint, has the
answer finalized and gated, and stores the project; the Flow worker connects to
the Chrome that the browser sessions start, in whatever thread generates.

## 2. Modules

| Module | Models | State and actions |
|---|---|---|
| `SceneModel` | document and the pure functions on it | no state; `ProductionReady` is the gate, `ClearForEnqueue`, `ClearForRepair`, `InvalidateRenderEvidence` the three ways the code clears evidence, `CompileImagePlans`, `ShouldDefer`, `DependencyBlocked`, `MastersReady` |
| `ProjectDocument` | the stored document | `exists`, `disk`; `Save` creates a missing file, as `storage.save` does; `ops` bounds the user's operations |
| `RenderQueue` | `RenderQueue` for one project | `queue`, `queuedIds`, `running` (the event), and the worker's frame: `pc`, `cur`, `snap` (the `Project` object it will save), `given` (what the provider was called with). One action per stretch between two saves or suspensions of `_run` |
| `SceneService` | `StudioService` and the routes that hold a document | `held`; `Update*`, `CheckContinuity`, `SetSceneLock`, and `Hold` with `SaveReference`, `SaveImages`, `ReplaceMaster`, `InspectMaster`, `KeepMaster`, `HeldFails` for the routes with an await in the middle |
| `FinalMerge` | merge route, task, callback, `required()` | `merge`, `slot` (= `merge_tasks[project_id]`) |
| `Studio` | composition of the three above | a route or another task takes a step only while the worker is suspended (`LoopFree`) |
| `AtomicStore` | what a store promises | one version, changed at once between call and return |
| `ProjectStorage` | `storage.py` file by file | `target`, `pending`, `backups`, other programs' `held` files; one action per file operation |
| `GenerationPacing` | how Google Flow generations are spaced | `circuit`, `pacing`, `lock` (the three files, epochs kept as ages) and per process `pc`, `blocked`, `waited`, `seen`; `Tick` passes time |
| `FlowConversation` | how a generation is carried on with the page | `grid`, `queued` (Flow's side), `tab`, `form`, and per thread `pc`, `noted` (tiles before the click), `at` (the located tile, a position), `media`, `clips` |
| `StoryAnalysis` | jobs, their tasks and threads, checkpoint, batches | `listed`, `status`, per job `pc` and the memory of its task (`known`, `batch`, `ask`, `enriched`, ...), `write` in its thread, `file`; one action per stretch between two awaits |
| `ProviderClient` | text request, Vision call, API key | `req` and `look` with all their counters, `key`, `vault`, `connecting`; the provider as `working`, the signatures it computes |
| `MasterReference` | one Master: routes, `ensure_reference`, inspection, gate | `doc`, `files` (contents of paths), `op` (the routes and the documents they hold) |
| `DesktopWorkspace` | `DesktopSession`, `WorkspaceLock` | `phase`, `locked`, `url`, `server` |
| `BrowserSessions` | vaults, profile, Chrome, bridge, the threads that drive it | `vault`, `proxy`, `up`, `profile`, `via`, `bridge`, `owed` (what a route has still to do), `th` |
| `StoryTruth` | compilation of a prop's state, ledger, the gate's replay | `scene`, `prop`, `part` (a torn corner), `replay`, `ledger`, `blocked` |
| `MCRenderQueue`, `MCStudio`, `MCStory` | model-checking instances | storyboard shapes and symmetry |
| `MCServices` | `ProviderClient`, `MasterReference` and `DesktopWorkspace` in one run | `part`, the one that moves; they share no state |
| `RenderQueue_proofs` | proofs about the queue: types, exactness, honesty; budget, verdicts, statuses | section 5 |
| `Studio_proofs` | proofs about the composition, on top of those about the queue | section 5 |
| `ProjectStorage_proofs`, `BrowserSessions_proofs`, `StoryAnalysis_proofs`, `StoryTruth_proofs` | proofs about the module of that name | section 5 |
| `FlowWorker_proofs` | proofs about `GenerationPacing` and `FlowConversation` | section 5 |
| `Services_proofs` | proofs about `ProviderClient`, `MasterReference`, `DesktopWorkspace` | section 5 |

Abstractions. Scenes are numbers in storyboard order. A rendered file is a take
number, 0 the empty path. QC reports add up to `Pending`, `Passed`, `Low` (all
passed, aggregate under the gate's floor) or `Failed`. Continuity states and
models are the values that the code hashes or compares. The Project Masters are
one: approved or not (`refs`), by the QC of which Vision model (`refsQC`), which
image (`master`); every scene shows it. Semantic content is a version number.
History (`start`, `anchor`, `takeText`, `takeMaster`, `made`, `burst`, and in
`GenerationPacing` `activity` and `guard`) records what went into a take or when
something last happened; no guard reads it.

A behaviour starts from a storyboard just analysed (some locks opened, Masters
approved with or without a Vision QC) or, with `Rendered`, also from one whose
scenes have all been rendered in order. The second is reachable from the first;
starting there lets few operations reach edits and renders after acceptance.

`pc` of the worker: places in `Suspended` are awaits, where any other coroutine
may run; places in `Atomic` are between two saves of one uninterrupted stretch,
where only a crash may come. The worker reads the document afresh after the
queue, after the second wait and after `provider.generate`; over the reference
manager and the QC it keeps the object it had (`snap`) and saves it. This is
exactly the difference on which most of the results below turn. When the Masters
are ready the reference manager returns without an await (`masters`), otherwise
it generates or inspects an image first (`refs`).

In `ProjectStorage` an operation that raises may be the caller's error or an
`OSError` of any step; a crash leaves the files as they are. `Open` and `Close`
are other programs on Windows, the only external actions.

In `GenerationPacing` a tick is about 30 s, and passes only while every process
sleeps, since what needs no sleep takes milliseconds. Inside one process the
asyncio lock of the provider lets one generation through at a time, so a process
is sequential. Nothing keeps a second server process away from the same data
folder: the workspace lock is taken by the desktop program only. Left out: the
window in which two processes write the same side file of a state file, and the
truncation of a cooldown to whole seconds.

In `FlowConversation` every thread works in the first tab that shows Flow
(`_flow_page`), so a route that makes an image navigates away from what the
queue is doing. Preparing the page is one step, with the click as the next,
because the wait for the slot lies between them and takes minutes. The grid is
assumed to be loaded when it is noted. A failed tile stays unfinished, and every
deadline, error card and exception is the choice `GiveUp`. A tile that is being
redrawn has no readable media id: noting misses it (`Noted`), and the result gets
a made-up id (`MediaIds`). `clear`, `quiet`, `own`, `sent` and `taken` are history:
`clear` says that no other thread came to the tab and every tile could be read when
it was noted, `quiet` that besides nothing given up was still to come; the others
what a quiet generation submitted and which files were ever saved.

In `StoryAnalysis` a request is answered with the scenes whose shape is valid,
or fails; a row carries the version of the program that cut the text
(`Builds`). `ProviderClient` keeps all nested counters and lets the provider go
on with requests that timed out; delays have no length. `MasterReference` tells
a path from its content; scores are a verdict. `BrowserSessions` takes cookies
as a set of the people they belong to; between reading the proxy (`Launch`) and
starting the bridge (`LaunchBridge`) any route may come. In `StoryAnalysis` the
removal of a checkpoint that a cancelled job waits for goes on in its thread (as
`NoFile` in `write`). `StoryTruth` follows one ticket, since
only tickets come in fragments, and one fragment, the right corner; the reading
of a scene is chosen freely. In it the event "activate", several passes of the
finalization over one storyboard and the gate's checks of source actions are
left out.

## 3. Runs

Passing runs (all properties hold):

| Run | Instance | Shows |
|---|---|---|
| `queue` | 2 scenes, 2 anchored on 1, real and demo provider, 4 operations, crashes, deletion | types; the queued ids are the queue plus the scene in hand (`QueuedIdsExact`); queued work has a worker (`NoWorkWithoutWorker`); one request costs at most `MaxAuto` calls (`RetryBudget`) and every call is counted first (`AttemptCountedFirst`); Ready implies the gate (`ReadyMeansAllReady`); stored in-flight statuses stay true (`StatusesStayTrue`); a successful request passes over nothing but what a dead process left in flight (`RequestTaken`); scenes leave with a verdict (`LeavesWithVerdict`); acceptance is judged against the predecessor's take in the same document (`AcceptedAgainstCurrentFrame`) |
| `queue_live` | chain of 3, fair worker | a queued scene gets its verdict (`QueuedIsProcessed`); demo takes never open the merge (`DemoNeverMerges`) |
| `studio_edits` | 2 scenes, 2 video models, fresh or rendered storyboard; edits, locks, settings, continuity, deletion, a merge, crashes, shutdown; no holding routes | what is ready was rendered from the content it has (`ReadyIsAsWritten`); no edit passes the guard while the worker is at work (`EditsWaitForRender`); the worker reverts no edit, setting or seal (`WorkerKeepsEdits`) |
| `studio_routes` | 2 scenes, 2 continuity states, fresh or rendered storyboard, all holding routes | whatever is saved late, accepted neighbours meet (`ReadyStatesMeet`) |
| `storage` | save, restore, delete; locks and crashes | `ImplementsStore` (refinement of `AtomicStore`), `DeletedIsKept` |
| `pacing` | 1 process, 2 crashes, fair | Flow rests a full interval after the last click and the last finish (`RestsBetweenClicks`); no submission within a cooldown (`GuardIsRespected`); both across restarts; a lock file is given back or taken over (`LockIsFreed`) |
| `flow` | the queue and a route in one tab, 3 submissions, long scenes of 2 parts, an asset | a generation returns its own files if nothing that was given up was still to come (`OwnResult`), and the parts of a long scene meet (`PartsMeet`); a late result may be taken for an own one, but no file is saved twice (`TakenOnce`) |
| `analysis` | 3 scenes in batches of 2; two jobs of one request, a third without provider; a registry of 2; a restart with another build; fair | what is active is listed and the registry bounded (`ActiveIsListed`); no committed scene is asked for again (`NothingAskedTwice`); the anchor is the scene before (`AnchorIsPredecessor`); what is stored is whole and in order (`PublishedWhole`); rows are lost only for a reason, or to the late removal of a cancelled job (`ProgressKept`); jobs end (`JobEnds`) |
| `services` | 2 protocol variants, all retry limits at 2; one Master, 2 models, 2 images; two desktop sessions, two folders; fair | a prompt is computed again only after a whole series of "still working" (`NoDuplicateWork`); requests and Vision calls end (`RequestEnds`); an open Master gate vouches for the file (`InspectedAtRest`); `OneBackendPerWorkspace` |
| `sessions` | 2 threads, 2 people, 1 plain and 2 SOCKS proxies, 3 operations, 1 crash | a session that was cleared or replaced comes back only by a named race (`CookiesAreImported`); the browser goes through the proxy that is set (`TrafficThroughProxy`) |
| `storyboard` | 2 people, 1 place, 3 scenes on three timelines, 2 events | torn stays torn (`TornStaysTorn`); the ledger of the present knows no flashback (`FlashbackIsApart`); where the whole prop is named, or no prop, the gate's replay agrees with the compiler (`GateAgrees`) |

One run must be found violated; it states a sentence of the README that the code
does not keep, quoted in `PROJECT.json`: `studio_masters`, `MastersNeverMix`. A
scene is enqueued and rendered while the new Master is being made.

The routes that hold a document over an await break more than that, and `Held`,
the set of those that are open, is therefore empty in `studio_edits`. With
`Held = {"reference"}` TLC refutes `EditsWaitForRender`: `upload_reference` reads
the project and waits for the body; the scene is enqueued and the worker calls the
provider; the upload saves what it had read, in which nothing is in flight; an
edit of the scene is accepted although it is being rendered (one scene, three
operations; with two it does not show). The story continued refutes
`WorkerKeepsEdits` (the worker's save takes the edit back) and `ReadyIsAsWritten`
(the take of the old text is accepted for the new one), and `RetryBudget` fails
because the attempts counted meanwhile are forgotten. With deletion and a second
scene `NoWorkWithoutWorker` fails as well: the worker finds the project gone and
leaves the rest of its queue, and the late save creates the project again. What
such a save does not break is checked in `studio_routes`, and proved (section 5).

What `OwnResult` and `TakenOnce` except is what Flow and the code allow, and TLC
refutes both without it, in the bounds of `flow`. A single thread gives up a
submission, begins anew and clicks; the old submission comes up first and is taken
for the new one (11 states). The comment at `google_flow_browser_worker.py:1073`
names this case, and only the longer deadline works against it; this is `OwnResult`
without the condition that nothing given up is still queued. What is left in that
case, also for a single thread, is `TakenOnce`. It needs the rest of `clear`: a tile
that was missed while it was redrawn is found as a new one, or shifts the position of
the located one (20 states), and a second thread opens another grid under the
position (15 states).

`GateAgrees` is about the gate's replay, its search for a state the events begin
with, and visible props that nothing shows. It is silent where the gate is right
to refuse the text (torn twice, given by who does not hold it) and where gate and
compiler do differ, which `Verdict` has as the code does it: the sentences up to
the first event are read as one text, so that a prop nothing is known of, in a
scene that names whole and fragment, may enter as the fragment (`source_truth.py:1310`,
`:1371`; refused at `semantic_readiness.py:235`), and a later scene carries it on;
a carried prop that only a picture or a screen shows is kept by the compiler and
refused by `_perceptual_scope_blockers` (`semantic_readiness.py:450`). Scenes that
name a fragment alone, or deny the prop, are excepted.

`LockIsFreed` and the other properties of `pacing` are about one process, the
normal deployment; `SecondProcessWaits` below says what two add.

Bounds. `MaxOps` counts user operations (and crashes); worker steps are
unbounded, their number being bounded by the retry budget. Four operations are
enough for request, pause, second request, resume, the longest story among the
known problems; two scenes give one dependency, three a chain. `MaxAuto` is the
code's 3 in `queue`, so the budget can be reached; studio runs use 1 because
retries are not their question. Two operations in the studio runs are an edit or
a held route and a request, in either order, on a storyboard that may be
rendered already; settings, locks, seals, resume and continuity are free, they
choose among finitely many documents. Three operations on one scene with two
merges, or on two scenes without the second model, hold as well; the theorems of
`Studio_proofs` leave all these bounds open. One merge task at a time is enough for
what the runs ask of the document; `NoRenderDuringMerge` below is about it too. In `storage`, 6 calls with a retention of 2 let
torn copies fill the retention and be pushed out again. In `pacing` an interval
of 3 ticks (90 s), a takeover after 4 (120 s), and a cooldown longer than both
keep the order of the code's defaults.

In `analysis` three scenes in batches of two give a rest batch, a half batch and
a repair in the middle; four scenes pass as well. Two attempts are one repair
and its end. `Held = FALSE`: nobody holds the checkpoint against removal. In
`services` every limit is 2 (one repetition and the end), one Master has one
route at a time, and `Slow = FALSE`: a backend ends within the time that is
waited for it. What `Held`, `Slow` and a second route change is listed below. In
`sessions` three routes are an import, a reset and a change in between, against
two threads that began before. In `flow` three submissions are a generation of
two parts and a late one of before, or one that was given up; two Flow projects
with two submissions pass as well. In `storyboard` three scenes are a present, a
flashback and a return; the events happen in the second (`Acting = {2}`), after a
scene that gave the prop its state and before one that must reflect it. Events in
the first scene instead pass as well, events in both take longer than a run
should; the theorems leave `Acting` open. Symmetry (`sessions`, `storyboard` and the two studio runs) is of values
that no definition tells apart, and those runs check no liveness.

`CHECK_DEADLOCK FALSE` is there because a
studio with all its operations spent, an empty queue, an analysis that is over,
and a window that is closed really stop.

### Disagreements seen while modelling, without a run of their own

Each is in the models as the code does it. The first nine are refuted by TLC as
the named definition of the module, in the instance given.

* `RenderQueue!AnchorsAreCurrent` (`MCRenderQueue`, 2 scenes): `README.md:69`
  makes the accepted end frame the anchor of the next scene; `enqueue` clears the
  requested scenes only (`render_queue.py:146`), so a scene stays accepted on an
  end frame that was rendered again.
* `RenderQueue!NoCallBeforePredecessor` (same): the dependency is tested before
  the Masters and not after the second wait (`render_queue.py:413`), against
  `tests/test_p1_production_qc.py:229`: pause there, enqueue the predecessor,
  resume.
* `Studio!NoRenderDuringMerge` (`MCStudio`, 2 scenes rendered already, 3
  operations, 1 merge, no holding routes): scene 1 is enqueued while 2 is judged,
  the saved verdict makes 1 look accepted (`render_queue.py:247`), the merge
  starts and the queue renders 1 beside it, which the generate route means to
  exclude (`video_routes.py:124`).
* `Studio!EditsWaitForRender` (`MCStudio`, 1 scene, 3 operations, `Held =
  {"reference"}`): `upload_reference` saves the document as it was before the body
  arrived (`project_routes.py:594`) and so opens the edit guard while the provider
  works, against `tests/test_storage_service.py:65`; see above.
* `GenerationPacing!SecondProcessWaits` (two `Procs`): a rest prolonged past
  120 s has its lock taken over (`google_flow_browser_worker.py:386`) and both
  processes submit, against the comment at `:365`.
* `StoryAnalysis!NoForeignRows` (`Held = TRUE`): an incompatible checkpoint that
  cannot be removed is gone on with (`checkpoint.py:139`), though `:103` announces
  new progress; rows of another segmentation are then taken for scenes. Without
  it, or with one version of the program, it is a theorem (`RowsAreOwn`).
* `StoryTruth!NamedIsVisible` (`MCStory`): a carried prop whose text brings it
  back stays offscreen (`source_truth.py:1343`), against the docstring at `:1263`.
* `MasterReference!ApprovedIsInspected` (two `Ops`): two generations of one
  Master have one output token (`reference_manager.py:307`), so the second
  overwrites the file the first has had approved; `README.md:67` has every Master
  inspected.
* `DesktopWorkspace!BackendHoldsLock` (`Slow = TRUE`): the lock is given back
  while the backend still runs (`desktop.py:199`), against `workspace_lock.py:15`.

The others were met while reading and modelling:

* The queue accepts a scene whose reports pass but whose aggregate score is below
  the gate's floor (`Low`): it shows Accepted and never becomes mergeable
  (`render_queue.py:345`, `production_gate.py:1`).
* Without `auto_continuity` nothing recompiles the plan of the next anchored
  scene after an acceptance: it stays Blocked (`render_queue.py:497`).
* A project deleted during the reference manager or the QC is created again by
  the worker's save (`render_queue.py:244`).
* A crash leaves an in-flight status behind, and the edit guard then refuses
  every edit until the scene is enqueued again (`render_queue.py:424`,
  `service.py:120`). While the worker renders another scene, a request for the
  one left behind is answered with success and passes it over
  (`render_queue.py:147`); `RequestTaken` excepts exactly this.
* A direct scene whose opening is not the end state of its predecessor is blocked
  whatever is rendered (`render_queue.py:223`).
* A finished merge whose fingerprint differs stores Ready without asking the gate
  (`video_routes.py:210`); `required()` settles a stale Merging by flags weaker
  than the gate (`main.py:149`). A clip replaced at the same path is not seen by
  the fingerprint at all.
* The done-callback of a merge pops the entry of the project even when a newer
  merge has taken it; a third may then start beside it (`video_routes.py:251`):
  "one merge at a time" is no property of `Studio`.
* A Master whose approved file was lost is generated again at the same path; a
  crash before its inspection would leave the old evidence with the new file.
  `MasterReference` has no crash.
* An upload whose inspection fails or finds Vision unavailable has already
  replaced the evidence of the approved Master (`project_routes.py:410`).
* Restoring a backup (`project_routes.py:79`) is not in `Studio`: a restored
  document may vouch for takes that were overwritten since, and a worker with a
  snapshot takes the restoration back at its next save.
* `delete()` removes the sidecar, which may be the newest version, before a file
  that may be locked: the older version shows again (`storage.py:241`). The
  abstract store allows it under the name `Uncover`.
* The lock flag of a scene changed during QC is reverted by the worker's save
  (`service.py:339` has no idle guard).
* `build_visual_bible` drops the Vision evidence of every Master, so any content
  edit closes the Master gate until they are inspected or made again
  (`visual_bible.py:217`); when the worker makes one again it does not invalidate
  what was rendered from the old one (`render_queue.py:234`), as the route does.
* `FlowConversation`: with one tab for all threads (`google_flow_browser_worker.py:553`)
  a route takes the page away from what the queue is doing, and either may return
  what the other made; a tile that comes late may be taken by the next generation of
  the same thread (`:1073`); an error card of another submission counts as this one's and trips the
  circuit (`:1122`); a trim that fails leaves the untrimmed file at the path of the
  scene. `OwnResult` therefore speaks of quiet generations only.
* `BrowserSessions`: `persist_runtime_session` writes back what a thread read
  before a reset, and a crash between the import of two sources leaves the reset
  undone (`browser_sessions.py:752`); the history variables `late` and `cut` name
  exactly these cases. A session cleared before the first status call comes back
  from the combined vault of earlier versions (`:493`).
* `StoryTruth`: a scene on a parallel timeline overwrites the ledger of the present
  (`finalization.py:315`); a scene that denies the prop, or shows only its fragment,
  and yet has an event makes a whole one out of nothing (the gate blocks it); a
  corner is lost at a cut; the owner a prop begins with is not corrected by the
  text of a later scene; a prop that is read as a fragment is carried on as the
  prop. The exceptions in `TornStaysTorn` and `GateAgrees` are these.
* `web_auth.py:60` makes room for a new session by dropping any one, which may be
  the one just issued.

## 4. Fairness

`FairSpec` of `RenderQueue` assumes weak fairness of the worker as a whole, nothing of the user.
The event loop runs every ready task; at an await the worker depends on the
reference manager, the provider and the QC, each of which bounds its waits by
timeouts and answers or raises; `event.wait()` is ready when the project is not
paused, and `QueuedIsProcessed` excepts a pause and a deletion. Which outcome an
await has is not constrained: the property holds though QC may reject every
take, because of the retry budget.

`FairSpec` of `GenerationPacing` assumes that time passes (strong fairness of
`Tick`, against runs that do infinitely much in no time), that the thread of a
generation runs, that generations are asked for again, and that not every page
fails before it asks for its slot: a stale lock file is only ever looked at by a
process that wants it. Crashes are bounded.

`FairSpec` of `StoryAnalysis` assumes that every task with something to do takes
a step in the end: the loop runs it, its thread ends, and a request to the
provider has a timeout and a bounded number of retries (`ProviderClient` is where
that is checked). `FairSpec` of `MCServices` assumes that a request and a Vision
call that are under way take their steps; a call is answered or times out. Both
are written as "again and again, unless it is over", which is weak fairness of a
step that is always possible until then. `BrowserSessions`, `StoryTruth` and
`FlowConversation` are checked for safety only: a user who never logs in or a page
that never answers is nothing the code promises against.

## 5. Proofs

All are checked by TLAPS for every value of the constants (number of scenes,
dependencies, retry budget, settings, bounds).

* `RenderQueue_proofs!TypeCorrect`: `Spec => []TypeOK`. `TypeOK` is not
  inductive: the worker indexes the document with `cur` and saves `snap`.
  `TypeInv` adds that at every place where it does so `cur` is a scene, `snap` a
  document and the queue's items scenes. One lemma per function of `SceneModel`
  (it returns documents), one per action.
* `RenderQueue_proofs!QueueExact`: `Spec => []QueuedIdsExact`. The worker's steps
  fall in four kinds (keep, take, put back, drop) and the lemmas
  `TakeExact`, `RequeueExact`, `DropExact`, `AppendAllExact` show that each keeps
  the relation between a sequence without repetitions, the set and the scene in
  hand; each action is then shown to be of its kind.
* `RenderQueue_proofs!WorkHasWorker`: `Spec => []NoWorkWithoutWorker`. Inductive
  as it stands, since enqueue starts a worker in the same step and the worker
  leaves only an empty queue or a deleted project.
* `RenderQueue_proofs!ReadyIsHonest`: `Spec => []ReadyMeansAllReady`. The
  strengthening `HonestOK` extends the claim to the snapshot the worker will
  save, and says that the scene whose answer is awaited is not stored Accepted,
  so that writing a new result cannot spoil a Ready project.
* `RenderQueue_proofs`, second part. One invariant, `PromiseInv`, of four parts beside that of
  types and exactness. `BudgetOK`: the stored attempts cover the calls of the
  request, also in the snapshot that will be saved, and a scene that waits, or
  whose call is not made yet, has a call left (`BudgetIsKept`,
  `AttemptsAreCounted`). `StageOK`: an in-flight status in the snapshot is the one
  on disk, so a late save makes no true status false (`StagesAreTrue`,
  `VerdictBeforeLeaving`, `RequestIsTaken`). `FrameOK`: from the image plan to the
  verdict an anchored scene is rendered from the take of its predecessor, or the
  predecessor has lost it (`AcceptedAgainstFrame`). `DemoOK`: a document of the
  demo provider has no take, nor has the snapshot (`DemoStaysClosed`, together
  with `ReadyIsHonest`). `Keeps` and `KeepsPlans` say once for each function on
  documents what it leaves alone.
* `Studio_proofs` shows what of this is true of the composition, and what the
  composition adds. Each save is described by what it may change in the document
  it was made from: what the queue does (`Processed`: no content is written, a
  scene is accepted only with the end state it has, a take that is kept keeps its
  text), and what an edit does (`Edited`, and `Touched` for the merge). The
  queue's invariants are kept by the steps of service, routes and merge because of
  these relations.
  * Of every route, late saves included: the types (`StudioTypeInv`, which adds
    the held document), `StudioQueueExact`, and `StatesMeet`. Its `MeetInv` claims
    of the stored document, the worker's snapshot and the held document alike that
    what is accepted has its present end state committed and that each scene starts
    where its predecessor ends; so it does not matter which of them is saved last.
  * With `Held = {}`: `ReadyAsWritten`, `StudioBudget`, `EditsAreKept` and
    `EditsWait`, all from `EditInv`. It adds to `PromiseInv` that a stored take was
    made from the text beside it, that the snapshot the worker will save has the
    text, states, seals and settings of the disk, that the provider was given the
    text of the disk, and that the stored status of the scene in hand shows its
    stage. The last makes the guard work: when no status is in flight the worker is
    at one of four places before or between its scenes (`GuardHolds`), where it
    holds no snapshot.
  * `StudioWorkHasWorker`, with `Held = {} \/ ~Deletes`.

  The hypotheses are not for convenience: section 3 says what happens
  without them.
* `ProjectStorage_proofs!StorageIsAtomic`: the two-file protocol implements
  `AtomicStore`, without any hypothesis. Refinement mapping: the store's value is
  the sidecar if there is one, else the file; the step that changes that value is
  `Replace` without a sidecar, `UnlinkSidecar`, `WriteSidecar` or `UnlinkTarget`,
  and the `UnlinkPending` of a delete may uncover the file under the sidecar
  (`Uncover`). The invariant `StepsOK` carries what the steps rely on, above all
  that when a save removes the sidecar the file already holds the new version.
* `ProjectStorage_proofs!DeletedCanBeRestored`: `Spec => DeletedIsKept`. `CopyOK`:
  when the pruning starts the copy just made is readable and of the version that
  readers have. If it is pruned, all that is kept is as new, and torn copies are
  too few to be all that is kept.

* `FlowWorker_proofs`, pacing (`RestIsKept`, `CooldownIsKept`). `GuardOK`: the
  circuit file lasts as long as the last trip; `RestOK`: one of the two epochs of
  the pacing file is no older than the last click and the last finish; and from
  the last look at the files to the click there is no sleep. Both theorems assume
  `\A p, q \in Procs : p = q`: with a second process the look may be old when the
  click comes, and `SecondProcessWaits` is refuted.
* `FlowWorker_proofs`, conversation (`ResultIsOwn`, `PartsAreJoined`). `FlowInv`: a
  number of a click is in one place, queued or in the grid (`NumbersOK`); a
  quiet generation is the only busy one, its submissions form a chain of
  which each starts from the end of the last (`Chain`), before the click every
  tile it looks at is noted and nothing is pending, after it the only unknown or
  pending tile is its last submission (`ConversationOK`). So which unknown tile
  comes first does not matter; a tile keeps its place because nothing is pending
  when it is located.
* `FlowWorker_proofs!SavedOnce`: `Spec => TakenOnce`. Late results make the position
  of a tile unreliable, so the invariant `TakenInv` follows the grid instead. While a
  generation is clear every saved file of its grid is among the noted tiles, and if
  the first tile is a noted one so are all (`Divided`); what is queued was never saved
  (`TakenOK`). New tiles only come on top, so the first that was not noted is the first
  of all, and whatever comes up over it later was not saved either (`AtFresh`).
* `Services_proofs!NoDuplicates`. `WorkInv`: each token of a duplicate was drawn
  after `WaitLimit` answers of its own, and what is computed has the one variant
  the model understands first; cardinalities give the bound.
* `Services_proofs!GateVouchesForFile`, for one route at a time. `MasterInv`: the
  evidence is about the file at the approved path unless that is lost, a path of an
  upload names its content, and a route that has begun to write will save a
  document that says what its verdict was about. Two routes share a path, and
  `ApprovedIsInspected` is refuted.
* `Services_proofs!OneBackend`, for backends that keep the waits (`~Slow`): a
  backend that is not down serves the folder its session has locked. Sessions are
  any number.
* `BrowserSessions_proofs` (`OnlyImportedCookies`, `ProxyIsHonoured`). As long as
  nothing was cut short or used late: what vaults and profile hold, and what a
  thread holds that has read since the last reset, was imported (`CookiesOK`); the
  bridge leads where the proxy does and so does a browser that is up or about to
  be started (`ProxyOK`); both are suspended while a reset or a stop is owed.
* `StoryAnalysis_proofs`. `AnalysisInv` says per job what it knows, holds of the
  checkpoint and asks for (`MemoryOK`, `AskOK`), that the file is whole and of this
  program once a task has seen it (`FileOK`), and which tasks are listed
  (`ListedOK`). `ActiveAreListed`, `NothingTwice`, `AnchorsPrecede` and
  `ProgressIsKept` need no hypothesis; `RowsAreOwn` and `PublishedIsWhole` assume
  `Trusted`: an old checkpoint can be removed, or there is one version of the
  program, as in the run. The batches may shrink and be skipped; the lemmas on
  `Passing` and `Done` show that they go through the draft without a gap.
* `StoryTruth_proofs` (`FlashbackStaysApart`, `DamageStays`,
  `CompilerAndGateAgree`). `StoryInv` says of every point of a scene that a state
  from a flashback is in a flashback (`Timely`), that a whole and intact prop that
  the ledger had damaged has its reason (`Justified`) and that replay and
  compilation agree (`Agreed`); `BetweenOK` what the next scene may go on from;
  `UnsaidOK` that nothing happens to a prop that is not mentioned.

A minimum of a set of naturals (`Min`, or the first tile) is a CHOOSE, and that
there is one follows from `WFMin` of the library.

Assumptions are those of the modules (`SceneAssumption`, `QueueAssumption`,
`StorageAssumption`, ...), which TLC evaluates in every run. For the proofs some
say what model values take for granted: `NothingAssumption`, `MissingAssumption`
and the last line of `FlowAssumption` keep the value for "none", numbers and
threads apart.

Only model-checked: liveness (`QueuedIsProcessed`, `LockIsFreed`, `JobEnds`,
`RequestEnds`), which is beyond the prover. Every other property of a passing run
is a theorem of the module that states it; four of those of the queue are
theorems of `Studio` as well, though only the runs of the queue check them.

## 6. Plan

Done in this order: document and queue; storage; service, merge and their
composition; types and the first safety theorems; the pacing of generations;
analysis jobs with their checkpoint; the provider's client, the Masters and the
workspace; browser sessions; the semantic state of a storyboard; the conversation
with Flow; the proofs, of the composition last. Next:

1. Reordering inside `Studio`, where order and continuity are now constants.
2. Byte ranges and sub-clip planning as operators against references.

## 7. Not modelled, and why

The text pipeline (`engines/`, prompting, parsing, merging and normalization in
`analysis_providers/`, the patterns of `source_truth.py`) computes over Vietnamese
prose with regular expressions and model answers: what it reads is a free choice
in `StoryTruth`, and what a row contains is its shape in `StoryAnalysis`. QC
measurements are arithmetic over media. Of the browser, an external trusted Chrome,
the migration of the combined vault and the bytes of the SOCKS bridge are left out,
and of the Flow page which button is clicked and how a label is read. The login
page is a set of at most 16 sessions. Document migrations are functions on JSON.
`export_routes.py`, `integration_routes.py`, `media_tools.py` and
`logging_config.py` keep no state; `film/` other than image plans and state deltas
are pure functions over a scene; the frontend and the installers call the routes.
Except in `GenerationPacing` and `DesktopWorkspace`, one process works on a data
folder (`workspace_lock.py` sees to it for the desktop program).

-------------------------- MODULE FlowConversation --------------------------
(***************************************************************************)
(* How a generation is carried on with the page of Google Flow.  The page  *)
(* gives no answer to a click: the worker notes which tiles are there,     *)
(* clicks, and takes the first tile it has not noted for its own.  A       *)
(* located tile is a position in the grid, looked up anew at each use.     *)
(*                                                                         *)
(* There is one tab: every connection takes the first page of the Chrome   *)
(* that shows Google Flow, and opens its Flow project in it.  The queue    *)
(* renders one project while the routes make images for others, and        *)
(* nothing keeps the threads apart.                                        *)
(*                                                                         *)
(* Pacing and the circuit are in GenerationPacing.  Every deadline and     *)
(* error of the page, the download or ffmpeg is the choice to give up.     *)
(***************************************************************************)
EXTENDS Integers, FiniteSets, SequencesExt

CONSTANTS
  Threads,
  Worker,     \* the thread of the render queue; the routes make images only
  Uploaders,  \* threads that have an image to upload
  Projects,   \* the Flow projects
  MaxClicks,  \* bound on the submissions of a behaviour
  MaxParts,   \* subclips of a long scene
  Nothing

ASSUME FlowAssumption ==
  /\ Worker \in Threads /\ Uploaders \subseteq Threads
  /\ {MaxClicks, MaxParts} \subseteq Nat \ {0}
  /\ Threads \cap Nat = {} /\ Nothing \notin Threads \cup Nat

VARIABLES
  grid,    \* the tiles of each Flow project, by kind, newest first
  queued,  \* what Flow has taken that has no media id yet
  tab,     \* the Flow project the tab shows
  form,    \* the inputs on the page: whose prompt, the start frame
  sent,    \* the form of each submission of a quiet generation (see below)
  taken,   \* history: the submissions whose file was ever saved
  th       \* the threads

vars == <<grid, queued, tab, form, sent, taken, th>>

Clicks == 1..MaxClicks
Kinds == {"video", "image"}

\* A media id is the number of the submission, or the thread whose asset was
\* uploaded.
Media == Clicks \cup Threads

Stages == {"idle", "assets", "click", "look", "watch", "download", "done"}

\* noted: the tiles before the click; at: position of the located tile; media:
\* the id it had, Nothing if one was made up; clips: what the files of the parts
\* are, own: what they should be.
\* clear: no other thread was at the tab since the generation began, and it read
\* every tile it had to note.  quiet: besides, nothing of its kind that had been
\* given up, by itself or another, was still to come up when it noted the tiles.
\* Both are history, and so are own, sent and what is returned, which are kept
\* for quiet generations only.
ThreadRecord ==
  [pc : Stages, kind : Kinds, parts : 1..MaxParts, noted : SUBSET Media,
   at : 0..(MaxClicks + Cardinality(Threads)), media : Media \cup {Nothing},
   clips : Seq(Media), own : Seq(Clicks), clear : BOOLEAN, quiet : BOOLEAN]

Idle == [pc |-> "idle", kind |-> "video", parts |-> 1, noted |-> {}, at |-> 0,
         media |-> Nothing, clips |-> <<>>, own |-> <<>>, clear |-> TRUE, quiet |-> TRUE]

Empty == [by |-> Nothing, start |-> Nothing]

Init ==
  /\ grid = [p \in Projects |-> [k \in Kinds |-> <<>>]] /\ queued = {}
  /\ tab \in Projects /\ form = Empty /\ sent = <<>> /\ taken = {}
  /\ th = [t \in Threads |-> Idle]

(***************************************************************************)
(* The grid as a thread sees it.                                           *)
(***************************************************************************)
Ids(tiles) == {tiles[i].id : i \in DOMAIN tiles}
Shown(t) == grid[tab][th[t].kind]

\* The tile at the position the thread located, if there still is one.
Located(t) == IF th[t].at \in DOMAIN Shown(t) THEN Shown(t)[th[t].at] ELSE Nothing

Busy(t) == th[t].pc \notin {"idle", "done"}

\* The inputs stay on the page; they are forgotten when nobody is about to click.
Left(gone) == IF \E u \in Threads \ gone : th[u].pc = "click" THEN form ELSE Empty

Sets(t, new) == th' = [th EXCEPT ![t] = new]

(***************************************************************************)
(* A generation, up to the click.                                          *)
(***************************************************************************)
\* _ensure_project opens the stored Flow project in the tab, or the one the app
\* comes up with, or a new one; the page is loaded anew.
Begin(t) ==
  /\ ~Busy(t) /\ Len(sent) < MaxClicks
  /\ tab' \in Projects /\ form' = Empty
  /\ \E kind \in Kinds, parts \in 1..MaxParts :
       /\ kind = "image" => parts = 1
       /\ kind = "video" => t = Worker
       /\ LET free == \A v \in Threads \ {t} : ~Busy(v)
          IN th' = [u \in Threads |->
               IF u = t THEN [Idle EXCEPT !.pc = "assets", !.kind = kind, !.parts = parts,
                                !.clear = free, !.quiet = free]
               ELSE IF Busy(u)
                    THEN [th[u] EXCEPT !.clear = FALSE, !.quiet = FALSE, !.own = <<>>]
                    ELSE th[u]]
  /\ UNCHANGED <<grid, queued, sent, taken>>

\* _upload_asset: an image that is there under its name is not uploaded again,
\* else it becomes a tile as any other.
Upload(t) ==
  /\ th[t].pc = "assets" /\ t \in Uploaders
  /\ t \notin Ids(grid[tab]["image"]) /\ \A q \in queued : q.id # t
  /\ queued' = queued \cup {[id |-> t, page |-> tab, kind |-> "image"]}
  /\ UNCHANGED <<grid, tab, form, sent, taken, th>>

\* Mutant: every part starts where the scene starts.
MutStartOfNext(t) == Nothing

\* The last frame of a part is the start frame of the next one.
StartOfNext(t) == IF th[t].clips = <<>> THEN Nothing ELSE Last(th[t].clips)

\* Mutant: the grid is not looked at before the click.
MutNoted(tiles, redrawn) == {}

\* _tile_media_ids: a tile that is being redrawn when its id is read is missed.
Noted(tiles, redrawn) == Ids(tiles) \ redrawn

\* Flow redraws tiles it is working on.
Working(tiles) == {tiles[i].id : i \in {j \in DOMAIN tiles : ~tiles[j].done}}

\* Once what was uploaded is there: the inputs are cleared, the settings chosen,
\* the frames bound, the tiles noted and the prompt filled in.  This takes
\* seconds; the wait for the pacing slot that follows, up to minutes.
Prepare(t) ==
  /\ th[t].pc = "assets" /\ \A q \in queued : q.id # t
  /\ form' = [by |-> t, start |-> StartOfNext(t)]
  /\ \E redrawn \in SUBSET Working(Shown(t)) :
       LET quiet == /\ th[t].quiet /\ redrawn = {}
                    /\ ~\E q \in queued : q.page = tab /\ q.kind = th[t].kind
       IN Sets(t, [th[t] EXCEPT !.pc = "click", !.noted = Noted(Shown(t), redrawn),
                     !.clear = @ /\ redrawn = {}, !.quiet = quiet,
                     !.own = IF quiet THEN @ ELSE <<>>])
  /\ UNCHANGED <<grid, queued, tab, sent, taken>>

\* _submit, after the rest the pacing asks for.
Click(t) ==
  LET id == Len(sent) + 1 IN
  /\ th[t].pc = "click" /\ id <= MaxClicks
  /\ sent' = Append(sent, IF th[t].quiet THEN form ELSE Empty)
  /\ queued' = queued \cup {[id |-> id, page |-> tab, kind |-> th[t].kind]}
  /\ Sets(t, [th[t] EXCEPT !.pc = "look", !.own = IF th[t].quiet THEN Append(@, id) ELSE @])
  /\ form' = Left({t})
  /\ UNCHANGED <<grid, tab, taken>>

(***************************************************************************)
(* What Flow does.                                                         *)
(***************************************************************************)
Appears(q) ==
  /\ queued' = queued \ {q}
  /\ grid' = [grid EXCEPT ![q.page][q.kind] =
                <<[id |-> q.id, done |-> q.id \in Threads]>> \o @]
  /\ UNCHANGED <<tab, form, sent, taken, th>>

\* An error card instead of a tile.
Refuses(q) == queued' = queued \ {q} /\ UNCHANGED <<grid, tab, form, sent, taken, th>>

\* A tile that fails stays as it is: it is never done, and the worker may give up.
TileEnds(p, k, i) ==
  /\ ~grid[p][k][i].done /\ grid' = [grid EXCEPT ![p][k][i].done = TRUE]
  /\ UNCHANGED <<queued, tab, form, sent, taken, th>>

Flow ==
  \/ \E q \in queued : Appears(q) \/ Refuses(q)
  \/ \E p \in Projects, k \in Kinds : \E i \in DOMAIN grid[p][k] : TileEnds(p, k, i)

(***************************************************************************)
(* The rest of the generation.                                             *)
(***************************************************************************)
Unknown(t) == {i \in DOMAIN Shown(t) : Shown(t)[i].id \notin th[t].noted}

\* The first tile in the grid that was not noted.
Look(t) ==
  /\ th[t].pc = "look" /\ Unknown(t) # {}
  /\ Sets(t, [th[t] EXCEPT !.pc = "watch", !.noted = {},
                !.at = CHOOSE i \in Unknown(t) : \A j \in Unknown(t) : i <= j])
  /\ UNCHANGED <<grid, queued, tab, form, sent, taken>>

\* _media_id_from_tile; an id is made up for a tile that is being redrawn.
MediaIds(tile) == {tile.id, Nothing}

\* The tile is done, and its media id is read.
Watch(t) ==
  /\ th[t].pc = "watch" /\ Located(t) # Nothing /\ Located(t).done
  /\ \E id \in MediaIds(Located(t)) :
       Sets(t, [th[t] EXCEPT !.pc = "download", !.media = id])
  /\ UNCHANGED <<grid, queued, tab, form, sent, taken>>

\* _concat_subclips, and the asset goes back to the queue or the route.
Asset(t, clips) ==
  IF th[t].quiet
  THEN [Idle EXCEPT !.pc = "done", !.media = th[t].media, !.own = th[t].own, !.clips = clips]
  ELSE Idle

\* _generate_subclipped_video: the next part, or the parts are joined.
AfterPart(t, clips) ==
  IF Len(clips) < th[t].parts
  THEN [th[t] EXCEPT !.pc = "assets", !.at = 0, !.clips = clips]
  ELSE Asset(t, clips)

\* The menu of the tile at that position is opened, and the file saved.
Download(t) ==
  /\ th[t].pc = "download" /\ Located(t) # Nothing /\ Located(t).done
  /\ Sets(t, AfterPart(t, Append(th[t].clips, Located(t).id)))
  /\ taken' = taken \cup ({Located(t).id} \cap Clicks)
  /\ UNCHANGED <<grid, queued, tab, form, sent>>

GiveUp(t) ==
  /\ Busy(t) /\ Sets(t, Idle) /\ form' = Left({t})
  /\ UNCHANGED <<grid, queued, tab, sent, taken>>

Thread(t) ==
  \/ Begin(t) \/ Upload(t) \/ Prepare(t) \/ Click(t)
  \/ Look(t) \/ Watch(t) \/ Download(t) \/ GiveUp(t)

Next == Flow \/ \E t \in Threads : Thread(t)

Spec == Init /\ [][Next]_vars

(***************************************************************************)
(* Properties.                                                             *)
(***************************************************************************)
FlowTypeOK ==
  /\ \A p \in Projects, k \in Kinds : \A i \in DOMAIN grid[p][k] :
       grid[p][k][i] \in [id : Media, done : BOOLEAN]
  /\ queued \subseteq [id : Media, page : Projects, kind : Kinds]
  /\ tab \in Projects /\ form \in [by : Threads \cup {Nothing}, start : Media \cup {Nothing}]
  /\ Len(sent) <= MaxClicks /\ taken \subseteq Clicks /\ th \in [Threads -> ThreadRecord]

Returned(t) == th[t].pc = "done"

\* Nothing answers a click, and yet the files a quiet generation returns are of
\* its own submissions, in their order and of its own prompt, and the media id
\* is that of the last of them or made up, whatever the page keeps of earlier
\* generations that were given up.  Not so when one of those comes up late
\* (TakenOnce says what is left then), when a tile was being redrawn while it
\* was noted, or when another thread came to the tab.
OwnResult ==
  \A t \in Threads : Returned(t) =>
    /\ th[t].clips = th[t].own /\ th[t].media \in {Last(th[t].own), Nothing}
    /\ \A i \in DOMAIN th[t].own : sent[th[t].own[i]].by = t

\* The parts of a long scene meet: the clip of each part was submitted with the
\* last frame of the clip that is joined before it, if the generation was quiet.
PartsMeet ==
  \A t \in Threads : Returned(t) =>
    \A i \in 2..Len(th[t].clips) : sent[th[t].clips[i]].start = th[t].clips[i - 1]

\* A generation that finds the late result of one that was given up may take it
\* for its own, but what it saves was never saved before, by any generation: no
\* part, scene or image is the file of another one over again.  The position of
\* a located tile shifts as late tiles come up, so it holds only if every tile
\* could be read when it was noted and no other thread came to the tab.
TakenOnce ==
  [][\A t \in Threads : Download(t) /\ th[t].clear => Located(t).id \notin taken]_vars
=============================================================================

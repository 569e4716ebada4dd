--------------------------- MODULE MasterReference --------------------------
(***************************************************************************)
(* The life of one Project Master: the routes that generate and upload its *)
(* image, ReferenceManager.ensure_reference, the Vision inspection, and    *)
(* the approval that opens the Master Gate.  A route reads the document,   *)
(* holds it over the generation and the inspection, and saves it whole;    *)
(* nothing keeps two routes apart.  Images are files: a path may be        *)
(* written again, so that a path and its content are two things.           *)
(*                                                                         *)
(* A verdict says why the Master Gate would refuse the image: for nothing, *)
(* for a defect, because Vision was unavailable, or because the file was   *)
(* gone.  The scores behind it, and the older image Vision may be given to *)
(* compare with, are left out.                                             *)
(***************************************************************************)
EXTENDS Integers, Sequences, FiniteSetsExt

CONSTANTS
  Ops,          \* routes that may be under way at once
  Models,       \* Vision models a project may choose
  Kind,         \* entity_type
  MaxContents,  \* bound on the images ever made
  MaxLosses,    \* bound on the image files removed by others
  NoModel, NoPath

ASSUME MasterAssumption ==
  /\ Kind \in {"character", "prop", "location"} /\ NoModel \notin Models
  /\ {MaxContents, MaxLosses} \subseteq Nat

VARIABLES
  doc,       \* the Master in the stored project, and what belongs to it
  files,     \* the content of each image file, 0 where there is none
  op,        \* the routes
  contents,  \* images made so far
  losses     \* files removed so far

masterVars == <<doc, files, op, contents, losses>>

Contents == 0..MaxContents
Paths == {"generated", "masters"} \X (0..MaxContents + 1)
Verdicts == {"none", "pass", "defect", "unavailable", "gone"}

Document ==
  [status : {"missing", "candidate", "approved", "rejected"},
   approved : Paths \cup {NoPath}, images : Seq(Paths),
   verdict : Verdicts, judge : Models \cup {NoModel},  \* vision_score, _issues, _model
   about : Contents,                         \* history: the content that was judged
   vision : Models \cup {NoModel},           \* settings.vision_model
   locked : BOOLEAN]                         \* lock_text = canonical_reference_lock

Route ==
  [pc : {"idle", "generating", "ask", "vision"}, kind : {"generate", "upload"},
   doc : Document, image : Paths \cup {NoPath}, safe : BOOLEAN,
   seen : Contents]

MasterTypeOK ==
  /\ doc \in Document /\ op \in [Ops -> Route]
  /\ files \in [Paths -> Contents] /\ contents \in Contents
  /\ losses \in 0..MaxLosses

Blank ==
  [status |-> "missing", approved |-> NoPath, images |-> <<>>, verdict |-> "none",
   judge |-> NoModel, about |-> 0, vision |-> NoModel, locked |-> TRUE]

Resting ==
  [pc |-> "idle", kind |-> "generate", doc |-> Blank, image |-> NoPath,
   safe |-> FALSE, seen |-> 0]

\* build_visual_bible writes the lock of a location without the clues of the
\* scenes that canonical_reference_lock adds when there are any.
LockWritten == IF Kind = "location" THEN BOOLEAN ELSE {TRUE}

MasterInit ==
  /\ \E m \in Models \cup {NoModel}, l \in LockWritten :
       doc = [Blank EXCEPT !.vision = m, !.locked = l]
  /\ files = [p \in Paths |-> 0] /\ op = [o \in Ops |-> Resting]
  /\ contents = 0 /\ losses = 0

(***************************************************************************)
(* The gate.                                                               *)
(***************************************************************************)
OnDisk(p) == p # NoPath /\ files[p] # 0

\* master_reference_qc_blockers
Blocked(d) == d.verdict # "pass" \/ (d.vision # NoModel /\ d.judge # d.vision)

\* master_reference_blockers
GateOpen(d) == d.status = "approved" /\ OnDisk(d.approved) /\ ~Blocked(d)

(***************************************************************************)
(* ensure_reference up to its first await.                                 *)
(***************************************************************************)
With(images, p) == IF \E i \in DOMAIN images : images[i] = p THEN images
                   ELSE Append(images, p)

\* A location whose lock is not the one of its source truth is not approved.
Relocked(d) ==
  IF ~d.locked /\ d.status = "approved" /\ d.approved # NoPath
  THEN [d EXCEPT !.locked = TRUE, !.status = "candidate", !.approved = NoPath,
                 !.images = With(@, d.approved)]
  ELSE [d EXCEPT !.locked = TRUE]

\* An approved image the gate refuses is rejected, a lost one is missing.
Reviewed(d) ==
  IF d.status = "approved" /\ d.approved # NoPath
  THEN [d EXCEPT !.status = IF OnDisk(d.approved) THEN "rejected" ELSE "missing",
                 !.approved = NoPath]
  ELSE d

Newest(d) ==
  LET there == {i \in DOMAIN d.images : OnDisk(d.images[i])}
  IN  IF there = {} THEN NoPath ELSE d.images[Max(there)]

Reusable(d) ==
  \/ d.status = "candidate"
  \/ d.status = "rejected" /\ d.judge # NoModel /\ d.judge # d.vision

\* _generation_output_token
OutputToken(d) ==
  <<"generated", IF d.status = "rejected" THEN Len(d.images) + 1 ELSE 0>>

Writable(p) == p \in Paths

(***************************************************************************)
(* The routes.                                                             *)
(***************************************************************************)
Goes(o, r) == op' = [op EXCEPT ![o] = r]
Runs(o, kind, pc, d, image, safe) ==
  Goes(o, [Resting EXCEPT !.pc = pc, !.kind = kind, !.doc = d, !.image = image,
                          !.safe = safe])

Save(d) == doc' = d
Counted == contents < MaxContents /\ contents' = contents + 1

\* _master_generation_ready, then ensure_reference until it has an image to
\* inspect or asks the provider for one.  An approved Master the gate lets
\* through is left as it is.
Generate(o) ==
  /\ op[o].pc = "idle" /\ doc.vision # NoModel
  /\ \E relocked \in {Relocked(doc)} : ~GateOpen(relocked)
       /\ \E d \in {Reviewed(relocked)} :
            IF Newest(d) # NoPath /\ Reusable(d)
            THEN Runs(o, "generate", "ask", d, Newest(d), FALSE)
            ELSE Writable(OutputToken(d))
                 /\ Runs(o, "generate", "generating", d, OutputToken(d), FALSE)
  /\ UNCHANGED <<doc, files, contents, losses>>

Generated(o) ==
  LET r == op[o] IN
  /\ r.pc = "generating" /\ Counted
  /\ files' = [files EXCEPT ![r.image] = contents + 1]
  /\ Goes(o, [r EXCEPT !.pc = "ask", !.doc.status = "candidate",
                       !.doc.images = With(@, r.image)])
  /\ UNCHANGED <<doc, losses>>

\* The exception is answered 502 and the document is dropped.
GenerationFails(o) ==
  /\ op[o].pc = "generating" /\ Goes(o, Resting)
  /\ UNCHANGED <<doc, files, contents, losses>>

\* Mutant: a Master has one file.
MutUploadPath(c) == <<"masters", 0>>

\* The path of an upload names its content: the same image has the same path.
UploadPath(c) == <<"masters", c>>

\* upload_master_reference up to its inspection or, while no key or no model
\* is set, to its end.
Upload(o) ==
  /\ op[o].pc = "idle"
  /\ \E c \in 1..(contents + 1) :
       /\ \/ c = contents + 1 /\ Counted
          \/ files[UploadPath(c)] = c /\ UNCHANGED contents
       /\ files' = [files EXCEPT ![UploadPath(c)] = c]
       /\ \E d \in {[doc EXCEPT !.images = With(@, UploadPath(c)), !.locked = TRUE]} :
          \E safe \in {d.status = "approved" /\ d.approved # NoPath /\ ~Blocked(d)} :
            \/ /\ d.vision # NoModel /\ Runs(o, "upload", "ask", d, UploadPath(c), safe)
               /\ UNCHANGED doc
            \/ /\ Save(IF safe THEN d
                       ELSE [d EXCEPT !.status = "candidate", !.approved = NoPath])
               /\ UNCHANGED op
  /\ UNCHANGED <<losses>>

\* _inspect_reference: the image is looked for, the catalogue of models is
\* awaited, and the image that is then there is sent.
Look(o) ==
  /\ op[o].pc = "ask" /\ OnDisk(op[o].image)
  /\ Goes(o, [op[o] EXCEPT !.pc = "vision", !.seen = files[op[o].image]])
  /\ UNCHANGED <<doc, files, contents, losses>>

\* The verdict as each route keeps it.
Judged(r, v) ==
  LET d == [r.doc EXCEPT !.verdict = v, !.judge = r.doc.vision, !.about = r.seen]
  IN  IF ~Blocked(d) THEN [d EXCEPT !.status = "approved", !.approved = r.image]
      ELSE IF r.safe THEN d
      ELSE [d EXCEPT !.approved = NoPath,
                     !.status = IF v = "unavailable" \/ (v = "gone" /\ r.kind = "upload")
                                THEN "candidate" ELSE "rejected"]

Concludes(o, v) ==
  /\ Save(Judged(op[o], v)) /\ Goes(o, Resting)
  /\ UNCHANGED <<files, contents, losses>>

Answers(o) ==
  op[o].pc = "vision" /\ \E v \in {"pass", "defect"} : Concludes(o, v)

\* vision_json raises: no key, no model, no readable image, no valid answer.
Unavailable(o) == op[o].pc \in {"ask", "vision"} /\ Concludes(o, "unavailable")

Gone(o) == op[o].pc = "ask" /\ ~OnDisk(op[o].image) /\ Concludes(o, "gone")

RouteStep(o) ==
  Generated(o) \/ GenerationFails(o) \/ Look(o) \/ Answers(o)
  \/ Unavailable(o) \/ Gone(o)

(***************************************************************************)
(* What happens around the routes.                                         *)
(***************************************************************************)
SetModel(m) ==
  /\ m # doc.vision /\ Save([doc EXCEPT !.vision = m])
  /\ UNCHANGED <<files, op, contents, losses>>

\* A semantic edit, a reorder or a continuity check: the references are built
\* anew, with their status and images and without the verdict about them.
RebuildBible ==
  /\ \E l \in LockWritten :
       Save([doc EXCEPT !.locked = l, !.verdict = "none", !.judge = NoModel, !.about = 0])
  /\ UNCHANGED <<files, op, contents, losses>>

LoseFile(p) ==
  /\ OnDisk(p) /\ losses < MaxLosses /\ losses' = losses + 1
  /\ files' = [files EXCEPT ![p] = 0]
  /\ UNCHANGED <<doc, op, contents>>

MasterNext ==
  \/ \E o \in Ops : Generate(o) \/ Upload(o) \/ RouteStep(o)
  \/ \E m \in Models : SetModel(m)
  \/ RebuildBible
  \/ \E p \in Paths : LoseFile(p)

MasterSpec == MasterInit /\ [][MasterNext]_masterVars

(***************************************************************************)
(* Properties.                                                             *)
(***************************************************************************)
\* When no route is under way, an open Master Gate vouches for what is on
\* disk: the file at the approved path has the content the evidence is about,
\* whatever was uploaded, generated, lost or judged again in between
\* (ensure_reference, upload_master_reference).
NoRoute == \A o \in Ops : op[o].pc = "idle"
InspectedAtRest ==
  NoRoute /\ GateOpen(doc) => files[doc.approved] = doc.about

\* "A Master has to go through Vision QC" (README.md:67): an open gate vouches
\* for the file at every moment, and for as many generations as are asked for.
ApprovedIsInspected == GateOpen(doc) => files[doc.approved] = doc.about

=============================================================================

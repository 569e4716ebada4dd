--------------------------- MODULE Services_proofs ---------------------------
(***************************************************************************)
(* Safety of the provider's client, of a Project Master and of the desktop *)
(* sessions, for every number of sessions, folders, models, images,        *)
(* variants, retries and requests.                                         *)
(***************************************************************************)
EXTENDS ProviderClient, MasterReference, DesktopWorkspace, FiniteSetTheorems,
        WellFoundedInduction, TLAPS

(***************************************************************************)
(* The desktop: a backend that is not down serves the folder its session   *)
(* has locked, and no two sessions have locked the same.                   *)
(***************************************************************************)
Locked(s) == locked[s] # NoSpace

DesktopInv ==
  /\ DesktopTypeOK
  /\ \A s \in Sessions :
       /\ url[s] = NoSpace => server[s] = "down"
       /\ server[s] # "down" => locked[s] = url[s]
       /\ phase[s] = "probe" => url[s] = NoSpace /\ Locked(s)
  /\ \A s, t \in Sessions : s # t /\ Locked(s) => locked[s] # locked[t]

LEMMA DesktopInvInit == DesktopInit => DesktopInv
  BY DEF DesktopInit, DesktopInv, DesktopTypeOK, Phases, Locked

LEMMA DesktopInvStep ==
  ASSUME ~Slow, DesktopInv, [DesktopNext]_desktop
  PROVE  DesktopInv'
  <1> USE WorkspaceAssumption DEF DesktopInv, DesktopTypeOK, Phases, Locked, To
  <1>1. ASSUME NEW s \in Sessions, NEW w \in Workspaces, Choose(s, w)
        PROVE  DesktopInv'
    BY <1>1 DEF Choose, Free
  <1>2. ASSUME NEW s \in Sessions, ChooseAgain(s) \/ Close(s) \/ Opens(s)
        PROVE  DesktopInv'
    BY <1>2 DEF ChooseAgain, Close, Opens
  <1>3. ASSUME NEW s \in Sessions, GivesUp(s)
        PROVE  DesktopInv'
    BY <1>3 DEF GivesUp
  <1>4. ASSUME NEW s \in Sessions, Launch(s)
        PROVE  DesktopInv'
    BY <1>4 DEF Launch
  <1>5. ASSUME NEW s \in Sessions, Serves(s) \/ ServerEnds(s)
        PROVE  DesktopInv'
    BY <1>5 DEF Serves, ServerEnds
  <1>6. ASSUME NEW s \in Sessions, Unlock(s)
        PROVE  DesktopInv'
    BY <1>6 DEF Unlock, Joined
  <1>7. ASSUME NEW s \in Sessions, Reopen(s)
        PROVE  DesktopInv'
    BY <1>7 DEF Reopen
  <1>8. CASE UNCHANGED desktop
    BY <1>8 DEF desktop
  <1> QED BY <1>1, <1>2, <1>3, <1>4, <1>5, <1>6, <1>7, <1>8 DEF DesktopNext

\* Two backends never serve one workspace, however many windows are opened,
\* closed and killed, as long as a backend ends within the time _shutdown
\* waits for it (workspace_lock.py, DesktopSession).
THEOREM OneBackend ==
  ASSUME ~Slow
  PROVE  DesktopSpec => []OneBackendPerWorkspace
  <1>1. DesktopInit => DesktopInv
    BY DesktopInvInit
  <1>2. DesktopInv /\ [DesktopNext]_desktop => DesktopInv'
    BY DesktopInvStep
  <1>3. DesktopInv => OneBackendPerWorkspace
    BY DEF DesktopInv, OneBackendPerWorkspace, Locked
  <1> QED BY <1>1, <1>2, <1>3, PTL DEF DesktopSpec

(***************************************************************************)
(* A Project Master.                                                       *)
(***************************************************************************)
\* Max is a choice: in a bounded set of naturals there is something to choose.
LEMMA MaxMember ==
  ASSUME NEW S \in SUBSET Nat, S # {}, NEW n \in Nat, \A x \in S : x <= n
  PROVE  Max(S) \in S
  <1> DEFINE T == {k \in Nat : n - k \in S}
             R == OpToRel(<, Nat)
  <1>1. T # {}
    <2>1. PICK x \in S : TRUE
      OBVIOUS
    <2>2. n - x \in Nat /\ n - (n - x) = x
      BY <2>1
    <2> QED BY <2>1, <2>2
  <1>2. IsWellFoundedOn(R, Nat)
    BY NatLessThanWellFounded
  <1>3. \A i, j \in Nat : i < j => <<i, j>> \in R
    BY DEF OpToRel
  <1> HIDE DEF R
  <1>4. PICK k \in T : \A j \in T : <<j, k>> \notin R
    BY <1>1, <1>2, WFMin
  <1>5. \A x \in S : n - k >= x
    <2> TAKE x \in S
    <2>1. n - x \in T
      <3>1. n - x \in Nat /\ n - (n - x) = x
        OBVIOUS
      <3> QED BY <3>1
    <2>2. ~(n - x < k)
      BY <1>3, <1>4, <2>1
    <2> QED BY <2>1, <2>2
  <1> QED BY <1>5 DEF Max
LEMMA MasterBounds ==
  /\ MaxContents \in Nat /\ MaxLosses \in Nat
  /\ 0 \in Contents /\ 0 \in 0..(MaxContents + 1)
  BY MasterAssumption DEF Contents

\* What an approved Master is vouched for by: the evidence is about the file
\* at its path, unless that is lost; the path of an upload names its content.
Vouches(d) ==
  d.status = "approved" /\ d.verdict = "pass" /\ d.approved # NoPath =>
    /\ files[d.approved] \in {0, d.about}
    /\ \A c \in 0..(MaxContents + 1) : d.approved = UploadPath(c) => d.about = c

\* A route has written nothing before it asks for a verdict; from then on it
\* saves a document that says what the verdict was about.
MasterInv ==
  /\ MasterTypeOK
  /\ \A c \in 0..(MaxContents + 1) : files[UploadPath(c)] \in {0, c}
  /\ (\A o \in Ops : op[o].pc \in {"idle", "generating"}) => Vouches(doc)
  /\ \A o \in Ops :
       /\ op[o].pc \in {"generating", "ask", "vision"} => op[o].image \in Paths
       /\ op[o].pc = "generating" => \A c \in 0..(MaxContents + 1) : op[o].image # UploadPath(c)
       /\ op[o].pc = "vision" =>
            /\ files[op[o].image] \in {0, op[o].seen}
            /\ \A c \in 0..(MaxContents + 1) :
                 op[o].image = UploadPath(c) => op[o].seen = c

LEMMA WithType ==
  ASSUME NEW images \in Seq(Paths), NEW p \in Paths
  PROVE  With(images, p) \in Seq(Paths)
  BY DEF With

LEMMA NewestType ==
  ASSUME NEW d \in Document, Newest(d) # NoPath
  PROVE  Newest(d) \in Paths
  <1> DEFINE there == {i \in DOMAIN d.images : OnDisk(d.images[i])}
  <1>1. d.images \in Seq(Paths)
    BY DEF Document
  <1>2. there # {} /\ Newest(d) = d.images[Max(there)]
    BY DEF Newest
  <1>3. there \in SUBSET Nat /\ \A i \in there : i <= Len(d.images)
    BY <1>1
  <1>4. Max(there) \in there
    <2> HIDE DEF there
    <2>1. Len(d.images) \in Nat
      BY <1>1
    <2> QED BY <1>2, <1>3, <2>1, MaxMember
  <1>5. Max(there) \in DOMAIN d.images
    BY <1>4
  <1> HIDE DEF there
  <1> QED BY <1>1, <1>2, <1>5

LEMMA HeldType ==
  ASSUME NEW d \in Document
  PROVE  Relocked(d) \in Document /\ Reviewed(d) \in Document
  <1>1. d.approved # NoPath => With(d.images, d.approved) \in Seq(Paths)
    BY WithType DEF Document
  <1> QED BY <1>1 DEF Relocked, Reviewed, Document

LEMMA JudgedType ==
  ASSUME NEW r \in Route, r.image \in Paths, NEW v \in Verdicts
  PROVE  Judged(r, v) \in Document
  BY DEF Judged, Route, Document
LEMMA MasterInvInit == MasterInit => MasterInv
  <1> SUFFICES ASSUME MasterInit PROVE MasterInv
    OBVIOUS
  <1>1. Resting \in Route /\ \A p \in Paths : files[p] = 0
    BY MasterAssumption DEF MasterInit, Resting, Route, Document, Blank, Verdicts, Contents, Paths
  <1>2. MasterTypeOK
    <2>1. PICK m \in Models \cup {NoModel}, l \in BOOLEAN :
            doc = [Blank EXCEPT !.vision = m, !.locked = l]
      BY DEF MasterInit, LockWritten
    <2>2. doc \in Document
      <3>1. Blank \in Document
        BY MasterBounds DEF Blank, Document, Verdicts
      <3> HIDE DEF Document, Blank
      <3> QED BY <2>1, <3>1, MasterAssumption DEF Document
    <2> QED BY <1>1, <2>2, MasterBounds DEF MasterInit, MasterTypeOK
  <1>3. \A c \in 0..(MaxContents + 1) : UploadPath(c) \in Paths
    BY DEF UploadPath, Paths
  <1>4. doc.status = "missing" /\ \A o \in Ops : op[o].pc = "idle"
    BY DEF MasterInit, Blank, Resting
  <1> QED BY <1>1, <1>2, <1>3, <1>4 DEF MasterInv, Vouches

LEMMA MasterGenerate ==
  ASSUME MasterInv, NEW o \in Ops, Generate(o)
  PROVE  MasterInv'
  <1>1. /\ doc \in Document /\ op \in [Ops -> Route]
        /\ UNCHANGED <<doc, files, contents, losses>>
    BY DEF MasterInv, MasterTypeOK, Generate
  <1>2. PICK d \in Document, pc \in {"ask", "generating"}, image \in Paths :
          /\ Runs(o, "generate", pc, d, image, FALSE)
          /\ pc = "generating" => image = OutputToken(d)
    <2> DEFINE e == Reviewed(Relocked(doc))
    <2>1. e \in Document
      BY <1>1, HeldType
    <2>2. IF Newest(e) # NoPath /\ Reusable(e)
          THEN Runs(o, "generate", "ask", e, Newest(e), FALSE)
          ELSE OutputToken(e) \in Paths
               /\ Runs(o, "generate", "generating", e, OutputToken(e), FALSE)
      BY DEF Generate, Writable
    <2> HIDE DEF e
    <2>3. Newest(e) # NoPath => Newest(e) \in Paths
      BY <2>1, NewestType
    <2> QED BY <2>1, <2>2, <2>3
  <1> DEFINE r == [Resting EXCEPT !.pc = pc, !.kind = "generate", !.doc = d, !.image = image,
                                  !.safe = FALSE]
  <1>3. r \in Route /\ r.image \in Paths /\ r.pc # "vision" /\ op' = [op EXCEPT ![o] = r]
    BY <1>2, MasterBounds DEF Runs, Goes, Resting, Route
  <1>4. op[o].pc = "idle" /\ r.pc \in {"ask", "generating"}
    BY DEF Generate, Resting
  <1>5. r.pc = "generating" => \A c \in 0..(MaxContents + 1) : r.image # UploadPath(c)
    BY <1>2 DEF Resting, OutputToken, UploadPath
  <1> HIDE DEF r
  <1> QED BY <1>1, <1>3, <1>4, <1>5 DEF MasterInv, MasterTypeOK, Vouches
LEMMA MasterUpload ==
  ASSUME MasterInv, NEW o \in Ops, Upload(o)
  PROVE  MasterInv'
  <1>1. /\ doc \in Document /\ op \in [Ops -> Route] /\ files \in [Paths -> Contents]
        /\ op[o].pc = "idle" /\ losses' = losses /\ losses \in 0..MaxLosses
        /\ contents \in Contents
    BY DEF MasterInv, MasterTypeOK, Upload
  <1>2. PICK c \in 1..(contents + 1) :
          /\ \/ c = contents + 1 /\ Counted
             \/ files[UploadPath(c)] = c /\ UNCHANGED contents
          /\ files' = [files EXCEPT ![UploadPath(c)] = c]
          /\ \E d \in {[doc EXCEPT !.images = With(@, UploadPath(c)), !.locked = TRUE]} :
             \E safe \in {d.status = "approved" /\ d.approved # NoPath /\ ~Blocked(d)} :
               \/ /\ d.vision # NoModel /\ Runs(o, "upload", "ask", d, UploadPath(c), safe)
                  /\ UNCHANGED doc
               \/ /\ Save(IF safe THEN d
                          ELSE [d EXCEPT !.status = "candidate", !.approved = NoPath])
                  /\ UNCHANGED op
    BY DEF Upload
  <1>3. c \in Contents /\ c \in 0..(MaxContents + 1) /\ UploadPath(c) \in Paths
    <2>1. c \in 0..(MaxContents + 1)
      BY <1>1, <1>2, MasterBounds DEF Contents
    <2>2. UploadPath(c) \in Paths
      BY <2>1 DEF UploadPath, Paths
    <2>3. c \in Contents
      BY <1>1, <1>2, <2>1, <2>2, MasterBounds DEF Counted, Contents
    <2> QED BY <2>1, <2>2, <2>3
  <1>4. files' \in [Paths -> Contents] /\ contents' \in Contents
    BY <1>1, <1>2, <1>3, MasterBounds DEF Counted, Contents
  <1>5. \A p \in Paths : files'[p] = IF p = UploadPath(c) THEN c ELSE files[p]
    BY <1>1, <1>2, <1>3
  <1>6. \A k \in 0..(MaxContents + 1) :
          UploadPath(k) \in Paths /\ files'[UploadPath(k)] \in {0, k}
    BY <1>5 DEF MasterInv, UploadPath, Paths
  <1>7. \A a : Vouches(a) /\ (a.approved \in Paths \cup {NoPath}) => Vouches(a)'
    BY <1>3, <1>5 DEF Vouches
  <1>8. \A q \in Ops : op[q].pc = "vision" =>
          files'[op[q].image] \in {0, op[q].seen}
    BY <1>3, <1>5 DEF MasterInv
  <1> DEFINE d == [doc EXCEPT !.images = With(@, UploadPath(c)), !.locked = TRUE]
  <1>9. d \in Document
    <2>1. With(doc.images, UploadPath(c)) \in Seq(Paths)
      BY <1>1, <1>3, WithType DEF Document
    <2> QED BY <1>1, <2>1 DEF Document
  <1>10. CASE \E safe \in BOOLEAN : Runs(o, "upload", "ask", d, UploadPath(c), safe)
                                    /\ UNCHANGED doc
    <2>1. PICK r \in Route : r.pc = "ask" /\ r.image = UploadPath(c)
                             /\ op' = [op EXCEPT ![o] = r] /\ UNCHANGED doc
      BY <1>3, <1>9, <1>10, MasterBounds DEF Runs, Goes, Resting, Route
    <2> QED BY <1>1, <1>3, <1>4, <1>6, <1>8, <2>1 DEF MasterInv, MasterTypeOK
  <1>11. CASE UNCHANGED op /\ \E safe \in BOOLEAN :
                Save(IF safe THEN d ELSE [d EXCEPT !.status = "candidate", !.approved = NoPath])
    <2>1. doc' \in Document /\ (Vouches(doc) => Vouches(doc'))
      BY <1>1, <1>9, <1>11 DEF Save, Document, Vouches
    <2>2. Vouches(doc) => Vouches(doc)'
      BY <1>7, <2>1 DEF Document
    <2> QED BY <1>1, <1>4, <1>6, <1>8, <1>11, <2>1, <2>2 DEF MasterInv, MasterTypeOK
  <1> QED BY <1>2, <1>10, <1>11
\* Nothing else keeps two generations of one Master from one file.
Alone == \A o, p \in Ops : o = p

LEMMA MasterRouteStep ==
  ASSUME Alone, MasterInv, NEW o \in Ops, RouteStep(o)
  PROVE  MasterInv'
  <1>1. /\ doc \in Document /\ op \in [Ops -> Route] /\ files \in [Paths -> Contents]
        /\ contents \in Contents /\ losses \in 0..MaxLosses
    BY DEF MasterInv, MasterTypeOK
  <1>2. CASE Generated(o)
    <2>1. /\ op[o].pc = "generating" /\ op[o].image \in Paths /\ losses' = losses
          /\ contents + 1 \in Contents /\ contents' = contents + 1 /\ doc' = doc
          /\ files' = [files EXCEPT ![op[o].image] = contents + 1]
      BY <1>1, <1>2, MasterBounds DEF Generated, MasterInv, Counted, Contents
    <2>2. PICK r \in Route : r.pc = "ask" /\ r.image = op[o].image /\ op' = [op EXCEPT ![o] = r]
      <3>1. With(op[o].doc.images, op[o].image) \in Seq(Paths)
        BY <1>1, <2>1, WithType DEF Route, Document
      <3> DEFINE d == [op[o].doc EXCEPT !.status = "candidate",
                                        !.images = With(@, op[o].image)]
                 r == [op[o] EXCEPT !.pc = "ask", !.doc = d]
      <3>2. d \in Document
        BY <1>1, <3>1 DEF Route, Document
      <3>3. r \in Route
        BY <1>1, <3>2 DEF Route
      <3>4. op' = [op EXCEPT ![o] = r]
        BY <1>1, <1>2 DEF Generated, Goes, Route
      <3> QED BY <1>1, <2>1, <3>3, <3>4 DEF Route
    <2>3. /\ files' \in [Paths -> Contents]
          /\ \A p \in Paths : p # op[o].image => files'[p] = files[p]
      BY <1>1, <2>1
    <2>4. \A c \in 0..(MaxContents + 1) :
            UploadPath(c) \in Paths /\ UploadPath(c) # op[o].image
      BY <2>1 DEF MasterInv, UploadPath, Paths
    <2>5. \A p \in Ops : op'[p] = r
      BY <1>1, <2>2 DEF Alone
    <2> QED BY <1>1, <2>1, <2>2, <2>3, <2>4, <2>5 DEF MasterInv, MasterTypeOK
  <1>3. CASE GenerationFails(o)
    <2>1. Resting \in Route /\ Resting.pc = "idle"
      BY MasterBounds DEF Resting, Route, Blank, Document, Verdicts
    <2> QED BY <1>1, <1>3, <2>1 DEF GenerationFails, Goes, MasterInv, MasterTypeOK, Vouches
  <1>4. CASE Look(o)
    <2>1. /\ op[o].pc = "ask" /\ op[o].image \in Paths
          /\ UNCHANGED <<doc, files, contents, losses>>
          /\ op' = [op EXCEPT ![o] = [op[o] EXCEPT !.pc = "vision", !.seen = files[op[o].image]]]
      BY <1>4 DEF Look, Goes, MasterInv
    <2>2. \A c \in 0..(MaxContents + 1) :
            op[o].image = UploadPath(c) => files[op[o].image] = c
      BY <1>4 DEF MasterInv, Look, OnDisk
    <2>3. [op[o] EXCEPT !.pc = "vision", !.seen = files[op[o].image]] \in Route
      BY <1>1, <2>1 DEF Route
    <2> QED BY <1>1, <2>1, <2>2, <2>3 DEF MasterInv, MasterTypeOK, Route
  <1>5. ASSUME NEW v \in Verdicts, Concludes(o, v), op[o].pc \in {"ask", "vision"},
               v = "pass" => op[o].pc = "vision"
        PROVE  MasterInv'
    <2>1. doc' = Judged(op[o], v) /\ UNCHANGED <<files, contents, losses>>
          /\ op' = [op EXCEPT ![o] = Resting]
      BY <1>5 DEF Concludes, Save, Goes
    <2>2. Resting \in Route /\ Resting.pc = "idle"
      BY MasterBounds DEF Resting, Route, Blank, Document, Verdicts
    <2>3. doc' \in Document
      BY <1>1, <1>5, <2>1, JudgedType DEF MasterInv
    <2>4. Vouches(doc')
      <3>1. doc'.verdict = v /\ doc'.about = op[o].seen
        BY <1>1, <2>1 DEF Judged, Route, Document
      <3>2. v = "pass" => doc'.approved = op[o].image
        BY <1>1, <2>1 DEF Judged, Blocked, Route, Document
      <3> QED BY <1>5, <3>1, <3>2 DEF Vouches, MasterInv
    <2>5. Vouches(doc)'
      BY <2>1, <2>4 DEF Vouches
    <2> QED BY <1>1, <2>1, <2>2, <2>3, <2>5 DEF MasterInv, MasterTypeOK
  <1>6. CASE Answers(o)
    BY <1>5, <1>6 DEF Answers, Verdicts
  <1>7. CASE Unavailable(o)
    BY <1>5, <1>7 DEF Unavailable, Verdicts
  <1>8. CASE Gone(o)
    BY <1>5, <1>8 DEF Gone, Verdicts
  <1> QED BY <1>2, <1>3, <1>4, <1>6, <1>7, <1>8 DEF RouteStep

LEMMA MasterOthers ==
  ASSUME MasterInv,
         (\E m \in Models : SetModel(m)) \/ RebuildBible \/ (\E p \in Paths : LoseFile(p))
  PROVE  MasterInv'
  <1>1. /\ doc \in Document /\ op \in [Ops -> Route] /\ files \in [Paths -> Contents]
        /\ contents \in Contents /\ losses \in 0..MaxLosses
    BY DEF MasterInv, MasterTypeOK
  <1>2. ASSUME NEW m \in Models, SetModel(m)
        PROVE  MasterInv'
    <2>1. doc' = [doc EXCEPT !.vision = m] /\ UNCHANGED <<files, op, contents, losses>>
      BY <1>2 DEF SetModel, Save
    <2>2. doc' \in Document /\ (Vouches(doc) => Vouches(doc)')
      BY <1>1, <2>1 DEF Document, Vouches
    <2> QED BY <1>1, <2>1, <2>2 DEF MasterInv, MasterTypeOK
  <1>3. CASE RebuildBible
    <2>1. /\ UNCHANGED <<files, op, contents, losses>>
          /\ \E l \in BOOLEAN : doc' = [doc EXCEPT !.locked = l, !.verdict = "none",
                                                   !.judge = NoModel, !.about = 0]
      BY <1>3 DEF RebuildBible, Save, LockWritten
    <2>2. doc' \in Document /\ doc'.verdict = "none"
      BY <1>1, <2>1, MasterBounds DEF Document, Verdicts
    <2> QED BY <1>1, <2>1, <2>2 DEF MasterInv, MasterTypeOK, Vouches
  <1>4. ASSUME NEW p \in Paths, LoseFile(p)
        PROVE  MasterInv'
    <2>1. /\ UNCHANGED <<doc, op, contents>> /\ losses' \in 0..MaxLosses
          /\ files' = [files EXCEPT ![p] = 0]
      BY <1>1, <1>4, MasterBounds DEF LoseFile
    <2>2. files' \in [Paths -> Contents] /\ \A q \in Paths : files'[q] \in {0, files[q]}
      BY <1>1, <2>1, MasterBounds
    <2>3. \A c \in 0..(MaxContents + 1) : UploadPath(c) \in Paths
      BY DEF UploadPath, Paths
    <2>4. Vouches(doc) => Vouches(doc)'
      BY <1>1, <2>1, <2>2 DEF Vouches, Document
    <2> QED BY <1>1, <2>1, <2>2, <2>3, <2>4 DEF MasterInv, MasterTypeOK
  <1> QED BY <1>2, <1>3, <1>4

LEMMA MasterInvStep ==
  ASSUME Alone, MasterInv, [MasterNext]_masterVars
  PROVE  MasterInv'
  <1>1. CASE UNCHANGED masterVars
    BY <1>1 DEF masterVars, MasterInv, MasterTypeOK, Vouches
  <1> QED BY <1>1, MasterGenerate, MasterUpload, MasterRouteStep, MasterOthers DEF MasterNext

\* While the routes of a Master come one after another, an open Master Gate
\* vouches for the file that is there, whatever was uploaded, generated, lost,
\* judged again or rebuilt in between (ensure_reference,
\* upload_master_reference).
THEOREM GateVouchesForFile ==
  ASSUME Alone
  PROVE  MasterSpec => []InspectedAtRest
  <1>1. MasterInit => MasterInv
    BY MasterInvInit
  <1>2. MasterInv /\ [MasterNext]_masterVars => MasterInv'
    BY MasterInvStep
  <1>3. MasterInv => InspectedAtRest
    BY DEF MasterInv, InspectedAtRest, NoRoute, GateOpen, OnDisk, Blocked, Vouches
  <1> QED BY <1>1, <1>2, <1>3, PTL DEF MasterSpec

(***************************************************************************)
(* The provider's client: what duplicates cost.                            *)
(***************************************************************************)
LEMMA MulMono ==
  ASSUME NEW w \in Nat, NEW a \in Nat, NEW b \in Nat, a <= b
  PROVE  w * a <= w * b
  <1>1. PICK c \in Nat : b = a + c
    <2>1. b - a \in Nat /\ b = a + (b - a)
      OBVIOUS
    <2> QED BY <2>1
  <1>2. w * b = w * a + w * c
    BY <1>1
  <1>3. w * c \in Nat /\ w * a \in Nat
    OBVIOUS
  <1> QED BY <1>2, <1>3
LEMMA DivBound ==
  ASSUME NEW w \in Nat \ {0}, NEW k \in Nat, NEW h \in Nat, w * k <= h
  PROVE  k <= h \div w
  <1> DEFINE q == h \div w
  <1>1. q \in Int /\ h < w * q + w
    BY SMTT(30)
  <1> HIDE DEF q
  <1>2. CASE k > q
    <2>1. k >= q + 1
      BY <1>1, <1>2
    <2>2. w * k >= w * (q + 1)
      <3>1. PICK c \in Nat : k = q + 1 + c
        <4>1. k - (q+1) \in Nat /\ k = q + 1 + (k - (q+1))
          BY <1>1, <2>1
        <4> QED BY <4>1
      <3>2. w * k = w * (q+1) + w * c
        BY <3>1, <1>1
      <3> QED BY <3>2, <1>1
    <2>3. w * (q + 1) = w * q + w
      BY <1>1
    <2> QED BY <1>1, <2>2, <2>3
  <1> QED BY <1>1, <1>2 DEF q

\* A request as the proof needs it, without the bounds of the counters.
AnyRequest ==
  [pc : {"idle", "post", "wait", "backoff", "parse"},
   prompt : Prompts, variant : Nat, token : Nat, attempt : Nat, waits : Nat,
   recoveries : Nat, last : Nat]
AnySignature == [prompt : Prompts, variant : Nat, token : Nat]

\* The recovery tokens under which a prompt is, or may be, computed.
Drawn(j) ==
  {t \in Nat \ {0} : \/ req.prompt = j /\ req.token = t
                     \/ \E g \in working : g.prompt = j /\ g.token = t}

Waits(j) == IF req.prompt = j THEN req.waits ELSE 0

\* Each token was drawn after WaitLimit answers of its own, and the answers
\* since the last one are waits.  All that is computed has the one variant
\* the provider's model understands first.
WorkInv ==
  /\ req \in AnyRequest /\ working \subseteq AnySignature /\ IsFiniteSet(working)
  /\ heard \in [Prompts -> Nat]
  /\ \A u \in Nat \ {0} : u < req.variant => u \in refused
  /\ req.variant # 0
  /\ \A g \in working :
       /\ g.variant \notin refused /\ g.variant # 0
       /\ \A u \in Nat \ {0} : u < g.variant => u \in refused
  /\ \A j \in Prompts : WaitLimit * Cardinality(Drawn(j)) + Waits(j) <= heard[j]

LEMMA ClientBounds ==
  /\ {Variants, Retries, WaitLimit, JsonAttempts} \subseteq Nat \ {0}
  /\ 1 \in Prompts
  BY ClientAssumption DEF Prompts

LEMMA DrawnFinite ==
  ASSUME working \subseteq AnySignature, IsFiniteSet(working), NEW j
  PROVE  IsFiniteSet(Drawn(j))
  <1> DEFINE f == [g \in working |-> g.token]
             T == {f[g] : g \in working}
  <1>1. f \in Surjection(working, T)
    BY DEF Surjection
  <1>2. IsFiniteSet(T)
    <2> HIDE DEF f, T
    <2> QED BY <1>1, FS_Surjection
  <1>3. IsFiniteSet(T \cup {req.token})
    <2> HIDE DEF T
    <2> QED BY <1>2, FS_AddElement
  <1>4. Drawn(j) \subseteq T \cup {req.token}
    BY DEF Drawn
  <1> HIDE DEF T
  <1> QED BY <1>3, <1>4, FS_Subset

LEMMA WorkInvInit == ClientInit => WorkInv
  <1> SUFFICES ASSUME ClientInit PROVE WorkInv
    OBVIOUS
  <1>1. req = [pc |-> "idle", prompt |-> 1, variant |-> 1, token |-> 0, attempt |-> 1,
               waits |-> 0, recoveries |-> 0, last |-> 0]
    BY DEF ClientInit, Fresh
  <1>2. working = {} /\ heard = [j \in Prompts |-> 0]
    BY DEF ClientInit
  <1>3. req \in AnyRequest
    BY <1>1, ClientBounds DEF AnyRequest
  <1>4. \A j \in Prompts : Drawn(j) = {} /\ Waits(j) = 0
    BY <1>1, <1>2 DEF Drawn, Waits
  <1>5. IsFiniteSet({}) /\ Cardinality({}) = 0 /\ WaitLimit * 0 = 0
    BY FS_EmptySet, ClientBounds
  <1> QED BY <1>1, <1>2, <1>3, <1>4, <1>5 DEF WorkInv

\* A step that hears nothing and draws nothing.
LEMMA QuietStep ==
  ASSUME WorkInv, UNCHANGED <<heard, refused>>,
         req' \in AnyRequest, req'.variant # 0,
         \A u \in Nat \ {0} : u < req'.variant => u \in refused,
         req'.token \in {0, req.token}, req'.token # 0 => req'.prompt = req.prompt,
         req'.waits # 0 => req'.prompt = req.prompt /\ req'.waits <= req.waits,
         working' \subseteq working \cup {TheSignature}, IsFiniteSet(working'),
         TheSignature \in working' \ working => req.variant \notin refused
  PROVE  WorkInv'
  <1>1. /\ TheSignature \in AnySignature /\ TheSignature.prompt = req.prompt
        /\ TheSignature.token = req.token /\ TheSignature.variant = req.variant
    BY DEF TheSignature, WorkInv, AnyRequest, AnySignature
  <1>2. working' \subseteq AnySignature
    BY <1>1 DEF WorkInv
  <1>3. \A g \in working' :
          /\ g.variant \notin refused' /\ g.variant # 0
          /\ \A u \in Nat \ {0} : u < g.variant => u \in refused'
    BY <1>1 DEF WorkInv
  <1>4. ASSUME NEW j \in Prompts
        PROVE  WaitLimit * Cardinality(Drawn(j)') + Waits(j)' <= heard'[j]
    <2>1. Drawn(j)' \subseteq Drawn(j)
      BY <1>1 DEF Drawn
    <2>2. IsFiniteSet(Drawn(j))
      BY DrawnFinite DEF WorkInv
    <2>3. Cardinality(Drawn(j)') <= Cardinality(Drawn(j))
          /\ Cardinality(Drawn(j)') \in Nat /\ Cardinality(Drawn(j)) \in Nat
      BY <2>1, <2>2, FS_Subset, FS_CardinalityType
    <2>4. WaitLimit * Cardinality(Drawn(j)') <= WaitLimit * Cardinality(Drawn(j))
      BY <2>3, MulMono, ClientBounds
    <2>5. Waits(j)' <= Waits(j) /\ Waits(j)' \in Nat /\ Waits(j) \in Nat
      BY DEF Waits, WorkInv, AnyRequest
    <2>6. /\ WaitLimit * Cardinality(Drawn(j)') \in Nat
          /\ WaitLimit * Cardinality(Drawn(j)) \in Nat
      BY <2>3, ClientBounds
    <2>7. WaitLimit * Cardinality(Drawn(j)) + Waits(j) <= heard[j] /\ heard[j] \in Nat
      BY DEF WorkInv
    <2> QED BY <2>4, <2>5, <2>6, <2>7
  <1> QED BY <1>2, <1>3, <1>4 DEF WorkInv

LEMMA ClientQuiet ==
  ASSUME WorkInv,
         \/ (KeyNext /\ ~ClientRestart) \/ VisionNext \/ UNCHANGED client
         \/ ClientRestart
         \/ Ask \/ NotUnderstood \/ Answered \/ Transient \/ TimesOut \/ Refused
         \/ Wake \/ Retry \/ Parse \/ CancelRequest
         \/ \E g \in Signature : ProviderFinishes(g)
  PROVE  WorkInv'
  <1>1. /\ req \in AnyRequest /\ req.variant # 0 /\ IsFiniteSet(working)
        /\ \A u \in Nat \ {0} : u < req.variant => u \in refused
    BY DEF WorkInv
  <1>2. ASSUME UNCHANGED <<working, heard, refused>>,
               \/ UNCHANGED req
               \/ req' = [req EXCEPT !.pc = "idle"]
               \/ \E j \in Prompts : req' = Fresh(j, req.last)
               \/ \E pc \in {"parse", "backoff"} : req' = [req EXCEPT !.pc = pc]
               \/ req' = [req EXCEPT !.pc = "post", !.variant = 1]
               \/ req' = [req EXCEPT !.pc = "post", !.variant = 1, !.attempt = @ + 1]
               \/ req.variant \in refused /\ req' = [req EXCEPT !.variant = @ + 1]
        PROVE  WorkInv'
    <2> DEFINE Fits == /\ req' \in AnyRequest
                       /\ \/ req'.variant \in {1, req.variant}
                          \/ req'.variant = req.variant + 1 /\ req.variant \in refused
                       /\ req'.token \in {0, req.token} /\ req'.waits \in {0, req.waits}
                       /\ req'.token # 0 \/ req'.waits # 0 => req'.prompt = req.prompt
    <2>1. ASSUME \E pc \in {"idle", "parse", "backoff", req.pc} : req' = [req EXCEPT !.pc = pc]
          PROVE  Fits
      <3>1. PICK pc \in {"idle", "parse", "backoff", req.pc} : req' = [req EXCEPT !.pc = pc]
        BY <2>1
      <3>2. req' \in AnyRequest
        BY <1>1, <3>1 DEF AnyRequest
      <3>3. /\ req'.variant = req.variant /\ req'.token = req.token
            /\ req'.waits = req.waits /\ req'.prompt = req.prompt
        BY <1>1, <3>1 DEF AnyRequest
      <3> QED BY <3>2, <3>3
    <2>2. ASSUME \E j \in Prompts : req' = Fresh(j, req.last)
          PROVE  Fits
      <3>1. PICK j \in Prompts : req' = Fresh(j, req.last)
        BY <2>2
      <3>2. req'.variant = 1 /\ req'.token = 0 /\ req'.waits = 0
        BY <3>1 DEF Fresh
      <3>3. req' \in AnyRequest
        BY <1>1, <3>1 DEF Fresh, AnyRequest
      <3> QED BY <3>2, <3>3
    <2>3. ASSUME \/ req' = [req EXCEPT !.pc = "post", !.variant = 1]
                 \/ req' = [req EXCEPT !.pc = "post", !.variant = 1, !.attempt = @ + 1]
          PROVE  Fits
      <3>1. req' \in AnyRequest
        <4>1. CASE req' = [req EXCEPT !.pc = "post", !.variant = 1]
          BY <1>1, <4>1 DEF AnyRequest
        <4>2. CASE req' = [req EXCEPT !.pc = "post", !.variant = 1, !.attempt = @ + 1]
          <5>1. PICK n \in Nat : n = req.attempt + 1
            BY <1>1 DEF AnyRequest
          <5>2. req' = [req EXCEPT !.pc = "post", !.variant = 1, !.attempt = n]
            BY <4>2, <5>1
          <5>3. [req EXCEPT !.pc = "post", !.variant = 1] \in AnyRequest
            BY <1>1 DEF AnyRequest
          <5> QED BY <1>1, <5>2, <5>3 DEF AnyRequest
        <4> QED BY <2>3, <4>1, <4>2
      <3>2. /\ req'.variant = 1 /\ req'.token = req.token
            /\ req'.waits = req.waits /\ req'.prompt = req.prompt
        BY <1>1, <2>3 DEF AnyRequest
      <3> QED BY <3>1, <3>2
    <2>4. ASSUME req.variant \in refused, req' = [req EXCEPT !.variant = @ + 1]
          PROVE  Fits
      <3>1. req' \in AnyRequest
        BY <1>1, <2>4 DEF AnyRequest
      <3>2. /\ req'.variant = req.variant + 1 /\ req'.token = req.token
            /\ req'.waits = req.waits /\ req'.prompt = req.prompt
        BY <1>1, <2>4 DEF AnyRequest
      <3> QED BY <2>4, <3>1, <3>2
    <2>5. UNCHANGED req => req' = [req EXCEPT !.pc = req.pc]
      BY <1>1 DEF AnyRequest
    <2>6. Fits
      <3> HIDE DEF Fits
      <3> QED BY <1>2, <2>1, <2>2, <2>3, <2>4, <2>5
    <2>7. /\ req'.variant # 0 /\ \A u \in Nat \ {0} : u < req'.variant => u \in refused
          /\ req'.waits <= req.waits
      BY <1>1, <2>6 DEF AnyRequest
    <2> QED BY <1>1, <1>2, <2>6, <2>7, QuietStep
  <1>3. ASSUME UNCHANGED <<heard, refused>>,
               req' = [req EXCEPT !.pc = "idle"] \/ req' = [req EXCEPT !.pc = "backoff"]
               \/ req' = req,
               \/ working' = working \cup {TheSignature} /\ req.variant \notin refused
               \/ \E g : working' = working \ {g}
        PROVE  WorkInv'
    <2>1. /\ req' \in AnyRequest /\ req'.variant = req.variant /\ req'.token = req.token
          /\ req'.prompt = req.prompt /\ req'.waits = req.waits
      BY <1>1, <1>3 DEF AnyRequest
    <2>2. IsFiniteSet(working') /\ working' \subseteq working \cup {TheSignature}
      BY <1>1, <1>3, FS_AddElement, FS_RemoveElement
    <2>3. TheSignature \in working' \ working => req.variant \notin refused
      BY <1>3
    <2> QED BY <1>1, <1>3, <2>1, <2>2, <2>3, QuietStep DEF AnyRequest
  <1>4. CASE (KeyNext /\ ~ClientRestart) \/ VisionNext \/ UNCHANGED client
    BY <1>2, <1>4 DEF KeyNext, ConnectAsk, ConnectFails, ConnectSucceeds, Disconnect, VisionNext,
       VisionAsk, VisionStep, VisionTransient, VisionRefused, VisionAnswered, VisionRetry, Sees,
       request, client
  <1>5. CASE ClientRestart \/ Ask \/ Answered \/ Refused
    BY <1>2, <1>5, ClientBounds DEF ClientRestart, Ask, Answered, Refused, Becomes, Kept, Raised
  <1>6. CASE NotUnderstood
    BY <1>2, <1>6 DEF NotUnderstood, NextVariant, Becomes, Kept
  <1>7. CASE Transient
    BY <1>2, <1>7 DEF Transient, Again, Becomes, Kept
  <1>8. CASE Wake \/ Retry
    BY <1>2, <1>8 DEF Wake, Retry, Becomes, Kept
  <1>9. CASE Parse
    <2>1. req.prompt < JsonAttempts => req.prompt + 1 \in Prompts
      BY <1>1, ClientBounds DEF Prompts, AnyRequest
    <2> QED BY <1>2, <1>9, <2>1 DEF Parse, Becomes, Kept, Raised
  <1>10. CASE TimesOut
    BY <1>3, <1>10 DEF TimesOut, Again, Becomes
  <1>11. CASE CancelRequest
    BY <1>2, <1>3, <1>11 DEF CancelRequest, Becomes, Raised
  <1>12. CASE \E g \in Signature : ProviderFinishes(g)
    BY <1>3, <1>12 DEF ProviderFinishes
  <1> QED BY <1>4, <1>5, <1>6, <1>7, <1>8, <1>9, <1>10, <1>11, <1>12

\* A duplicate is heard: one more wait is counted, or the waits of this token
\* are complete and pay for the next one.
LEMMA DuplicateStep ==
  ASSUME WorkInv, Duplicate
  PROVE  WorkInv'
  <1> DEFINE p == req.prompt
  <1>1. /\ req \in AnyRequest /\ working \subseteq AnySignature /\ IsFiniteSet(working)
        /\ heard \in [Prompts -> Nat] /\ p \in Prompts /\ req.waits \in Nat /\ req.last \in Nat
        /\ WaitLimit \in Nat \ {0}
    BY ClientBounds DEF WorkInv, AnyRequest
  <1>2. /\ req' = Waited(req) /\ UNCHANGED <<working, refused>>
        /\ heard' = [heard EXCEPT ![p] = @ + 1]
    BY DEF Duplicate, Becomes
  <1>3. heard' \in [Prompts -> Nat]
    BY <1>1, <1>2
  <1>4. req' \in AnyRequest /\ req'.variant \in {1, req.variant} /\ req'.prompt = p
    <2>1. CASE req' = [req EXCEPT !.pc = "wait", !.waits = @ + 1]
      <3>1. PICK n \in Nat : n = req.waits + 1
        BY <1>1
      <3>2. req' = [req EXCEPT !.pc = "wait", !.waits = n]
        BY <2>1, <3>1
      <3>3. req' \in AnyRequest
        BY <1>1, <3>2 DEF AnyRequest
      <3> QED BY <1>1, <3>2, <3>3 DEF AnyRequest
    <2>2. CASE req' = [req EXCEPT !.recoveries = @ + 1, !.waits = 0, !.variant = 1,
                                  !.token = req.last + 1, !.last = req.last + 1]
      <3>1. PICK n \in Nat, m \in Nat : n = req.last + 1 /\ m = req.recoveries + 1
        BY <1>1 DEF AnyRequest
      <3> DEFINE r == [req EXCEPT !.recoveries = m, !.waits = 0]
      <3>2. r \in AnyRequest /\ r.prompt = p
        BY <1>1 DEF AnyRequest
      <3>3. req' = [r EXCEPT !.variant = 1, !.token = n, !.last = n]
        BY <2>2, <3>1
      <3> HIDE DEF r
      <3>4. req' \in AnyRequest
        BY <3>2, <3>3 DEF AnyRequest
      <3> QED BY <3>2, <3>3, <3>4 DEF AnyRequest
    <2>3. CASE req' = [req EXCEPT !.pc = "idle"]
      BY <1>1, <2>3 DEF AnyRequest
    <2> QED BY <1>2, <2>1, <2>2, <2>3 DEF Waited
  <1>5. req'.variant # 0 /\ \A u \in Nat \ {0} : u < req'.variant => u \in refused'
    BY <1>2, <1>4 DEF WorkInv
  <1>6. ASSUME NEW j \in Prompts
        PROVE  WaitLimit * Cardinality(Drawn(j)') + Waits(j)' <= heard'[j]
    <2>1. /\ IsFiniteSet(Drawn(j)) /\ Cardinality(Drawn(j)) \in Nat
          /\ WaitLimit * Cardinality(Drawn(j)) \in Nat
          /\ WaitLimit * Cardinality(Drawn(j)) + Waits(j) <= heard[j] /\ heard[j] \in Nat
      <3>1. IsFiniteSet(Drawn(j)) /\ Cardinality(Drawn(j)) \in Nat
        BY <1>1, DrawnFinite, FS_CardinalityType
      <3> QED BY <1>1, <3>1 DEF WorkInv
    <2>2. CASE j # p
      <3>1. Drawn(j)' = Drawn(j) /\ Waits(j)' = Waits(j)
        BY <1>2, <1>4, <2>2 DEF Drawn, Waits
      <3> QED BY <1>1, <1>2, <2>1, <2>2, <3>1
    <2>3. CASE j = p /\ req'.token = req.token /\ req'.waits \in {req.waits, req.waits + 1}
      <3>1. Drawn(j)' = Drawn(j)
        BY <1>2, <1>4, <2>3 DEF Drawn
      <3>2. Waits(j)' <= Waits(j) + 1 /\ Waits(j) \in Nat /\ Waits(j)' \in Nat
        BY <1>1, <1>4, <2>3 DEF Waits
      <3>3. heard'[j] = heard[j] + 1
        BY <1>1, <1>2, <2>3
      <3> QED BY <2>1, <3>1, <3>2, <3>3
    <2>4. CASE j = p /\ req'.token = req.last + 1 /\ req'.waits = 0 /\ req.waits + 1 >= WaitLimit
      <3>1. Drawn(j)' \subseteq Drawn(j) \cup {req.last + 1}
        BY <1>1, <1>2, <2>4 DEF Drawn
      <3>2. /\ IsFiniteSet(Drawn(j) \cup {req.last + 1})
            /\ Cardinality(Drawn(j) \cup {req.last + 1}) <= Cardinality(Drawn(j)) + 1
            /\ Cardinality(Drawn(j) \cup {req.last + 1}) \in Nat
        <4> DEFINE D == Drawn(j)
                   m == req.last + 1
        <4> HIDE DEF D, m
        <4>1. IsFiniteSet(D) /\ Cardinality(D) \in Nat
          BY <2>1 DEF D
        <4>2. /\ IsFiniteSet(D \cup {m})
              /\ Cardinality(D \cup {m}) \in {Cardinality(D), Cardinality(D) + 1}
          BY <4>1, FS_AddElement
        <4>3. Cardinality(D \cup {m}) <= Cardinality(D) + 1 /\ Cardinality(D \cup {m}) \in Nat
          BY <4>1, <4>2
        <4> QED BY <4>2, <4>3 DEF D, m
      <3>3. /\ Cardinality(Drawn(j)') <= Cardinality(Drawn(j)) + 1
            /\ Cardinality(Drawn(j)') \in Nat
        <4>1. /\ IsFiniteSet(Drawn(j)')
              /\ Cardinality(Drawn(j)') <= Cardinality(Drawn(j) \cup {req.last + 1})
          BY <3>1, <3>2, FS_Subset
        <4>2. Cardinality(Drawn(j)') \in Nat
          BY <4>1, FS_CardinalityType
        <4> QED BY <2>1, <3>2, <4>1, <4>2
      <3>4. WaitLimit * Cardinality(Drawn(j)') <= WaitLimit * (Cardinality(Drawn(j)) + 1)
        BY <1>1, <2>1, <3>3, MulMono
      <3>5. WaitLimit * (Cardinality(Drawn(j)) + 1) = WaitLimit * Cardinality(Drawn(j)) + WaitLimit
        BY <1>1, <2>1
      <3>6. heard'[j] = heard[j] + 1 /\ Waits(j) = req.waits /\ Waits(j)' = 0
        BY <1>1, <1>2, <1>4, <2>4 DEF Waits
      <3>7. WaitLimit * Cardinality(Drawn(j)') \in Nat
        BY <1>1, <3>3
      <3> QED BY <1>1, <2>1, <2>4, <3>4, <3>5, <3>6, <3>7
    <2>5. \/ req'.token = req.token /\ req'.waits \in {req.waits, req.waits + 1}
          \/ req'.token = req.last + 1 /\ req'.waits = 0 /\ req.waits + 1 >= WaitLimit
      BY <1>1, <1>2 DEF Waited, AnyRequest
    <2> QED BY <2>2, <2>3, <2>4, <2>5
  <1>7. \A g \in working' :
          /\ g.variant \notin refused' /\ g.variant # 0
          /\ \A u \in Nat \ {0} : u < g.variant => u \in refused'
    BY <1>2 DEF WorkInv
  <1> QED BY <1>1, <1>2, <1>3, <1>4, <1>5, <1>6, <1>7 DEF WorkInv

\* Of one prompt no two requests that are computed have one token.
LEMMA WorkBounded == WorkInv => NoDuplicateWork
  <1> SUFFICES ASSUME WorkInv, NEW j \in Prompts
               PROVE  Cardinality({g \in working : g.prompt = j}) <= 1 + heard[j] \div WaitLimit
    BY DEF NoDuplicateWork
  <1> DEFINE W == {g \in working : g.prompt = j}
             D == Drawn(j)
             f == [g \in W |-> g.token]
  <1>1. W \subseteq working /\ working \subseteq AnySignature /\ \A g \in W : g.prompt = j
    BY DEF WorkInv
  <1>2. \A g, h \in W : g.variant = h.variant
    <2> SUFFICES ASSUME NEW g \in W, NEW h \in W PROVE g.variant = h.variant
      OBVIOUS
    <2>1. g.variant \in Nat \ {0} /\ h.variant \in Nat \ {0}
      BY DEF WorkInv, AnySignature
    <2>2. ~(g.variant < h.variant) /\ ~(h.variant < g.variant)
      BY <2>1 DEF WorkInv
    <2> QED BY <2>1, <2>2
  <1>3. f \in Injection(W, D \cup {0})
    <2>1. \A g \in W : g.token \in D \cup {0}
      BY <1>1 DEF Drawn, AnySignature
    <2>2. \A g, h \in W : g.token = h.token => g = h
      BY <1>1, <1>2 DEF AnySignature
    <2> HIDE DEF W, D
    <2> QED BY <2>1, <2>2 DEF Injection, IsInjective
  <1>4. IsFiniteSet(D) /\ Cardinality(D) \in Nat
    BY DrawnFinite, FS_CardinalityType DEF WorkInv
  <1>5. WaitLimit * Cardinality(D) <= heard[j] /\ heard[j] \in Nat /\ WaitLimit \in Nat \ {0}
    <2>1. Waits(j) \in Nat /\ heard[j] \in Nat /\ WaitLimit \in Nat \ {0}
      BY ClientBounds DEF WorkInv, Waits, AnyRequest
    <2>2. WaitLimit * Cardinality(D) + Waits(j) <= heard[j]
      BY DEF WorkInv
    <2>3. WaitLimit * Cardinality(D) \in Nat
      BY <1>4, <2>1
    <2> HIDE DEF D
    <2> QED BY <2>1, <2>2, <2>3
  <1> HIDE DEF W, D, f
  <1>6. Cardinality(D) <= heard[j] \div WaitLimit
    BY <1>4, <1>5, DivBound
  <1>7. /\ IsFiniteSet(D \cup {0}) /\ Cardinality(D \cup {0}) <= Cardinality(D) + 1
        /\ Cardinality(D \cup {0}) \in Nat
    BY <1>4, FS_AddElement, FS_CardinalityType
  <1>8. Cardinality(W) <= Cardinality(D \cup {0}) /\ Cardinality(W) \in Nat
    BY <1>3, <1>7, FS_Injection, FS_CardinalityType
  <1>9. heard[j] \div WaitLimit \in Int
    BY <1>5
  <1>10. Cardinality(W) <= 1 + heard[j] \div WaitLimit
    BY <1>4, <1>6, <1>7, <1>8, <1>9
  <1> QED BY <1>10 DEF W

\* However often calls time out, jobs are cancelled and the server restarts,
\* waiting for a duplicate creates no further request before a whole series
\* of answers has been heard (_completion_request).
THEOREM NoDuplicates == ClientSpec => []NoDuplicateWork
  <1>1. ClientInit => WorkInv
    BY WorkInvInit
  <1>2. WorkInv /\ [ClientNext]_client => WorkInv'
    BY ClientQuiet, DuplicateStep DEF ClientNext, TextNext, RequestStep
  <1>3. WorkInv => NoDuplicateWork
    BY WorkBounded
  <1> QED BY <1>1, <1>2, <1>3, PTL DEF ClientSpec
=============================================================================

----------------------------- MODULE StoryTruth -----------------------------
(***************************************************************************)
(* The semantic truth of a storyboard, compiled scene by scene from what   *)
(* the text says: who is there, whether the scene goes on directly from    *)
(* the one before, and the state of a physical prop through its events.    *)
(* The story has several timelines; the prop of the present one is kept in *)
(* a ledger across cuts.  The readiness gate replays the events for itself *)
(* and names what it does not accept.                                      *)
(*                                                                         *)
(* There is one prop, a ticket, because only tickets come in fragments,    *)
(* and one kind of fragment, the right corner.  What the text says is      *)
(* chosen freely: a reading of a scene is what the patterns of             *)
(* source_truth.py find in it.  A location of a prop is the location of    *)
(* the scene or a surface in it.                                           *)
(***************************************************************************)
EXTENDS Naturals, FiniteSets, TLC

CONSTANTS
  Characters,
  Locations,
  MaxScenes,   \* scenes of the story
  MaxEvents,   \* bound on the prop events of the story
  Acting,      \* bound: the scenes that may have events
  NoOne, Missing

ASSUME StoryAssumption ==
  /\ MaxScenes \in Nat \ {0} /\ MaxEvents \in Nat /\ Acting \subseteq 1..MaxScenes
  /\ NoOne \notin Characters

VARIABLES
  pc,       \* what of the scene comes next
  n,        \* number of scenes so far
  scene,    \* the scene that is compiled, or the last one
  prop,     \* the prop at this point of the scene: its exit state at the end
  part,     \* the detached corner at this point of the scene
  replay,   \* the prop as the gate replays the events
  left,     \* prop events the story may still have
  blocked,  \* what the gate has against the scene
  ledger    \* present_prop_ledger

truth == <<prop, part, replay>>
gate == <<left, blocked>>
vars == <<pc, n, scene, truth, gate, ledger>>

Branches == {"present", "flashback", "parallel"}
Claims == {"intact", "corner", "torn"}
Conditions == Claims \cup {"fragment"}
Mentions == {"none", "absent", "whole", "fragment", "both"}
Owners == Characters \cup {NoOne}

\* PropPhysicalState.  surface: it lies on one; inside: in a pocket or drawer;
\* two: piece_count is 2; whole: the part is the whole; from (history): the
\* timeline whose text the state began with.
PropState ==
  [owner : Owners, surface : BOOLEAN, inside : BOOLEAN, cond : Conditions,
   two : BOOLEAN, visible : BOOLEAN, whole : BOOLEAN, from : Branches]
PartState == [owner : Owners, surface : BOOLEAN]

\* None is no state.
ASSUME MissingAssumption == Missing \notin PropState \cup PartState

\* The heading of a scene and what is compiled from it; claim is the condition
\* the text gives the prop before the first event, "" if none; shown: a picture
\* or a screen shows the prop in a scene where nothing else does.
SceneRecord ==
  [loc : Locations, branch : Branches, bare : BOOLEAN, direct : BOOLEAN,
   continuous : BOOLEAN, cast : SUBSET Characters, sameCast : BOOLEAN,
   anchored : BOOLEAN, mention : Mentions, claim : Claims \cup {""},
   acted : BOOLEAN, shown : BOOLEAN]

NoEvent == [act |-> "end", who |-> NoOne, to |-> NoOne, arg |-> ""]

\* What extract_prop_events reads.  A transfer goes to the person named last,
\* from another one of the two if there are two.  The floor is a surface, so
\* a drop is a place.  "activate" changes no state and is left out.
Losses(whos) ==
  [act : {"tear"}, who : whos, to : {NoOne}, arg : {"corner", "torn"}]
  \cup [act : {"place"}, who : whos, to : {NoOne}, arg : {""}]

Takings(whos) ==
  {e \in [act : {"pick_up", "take_out"}, who : whos, to : whos, arg : {"here", "surface"}]
         \cup [act : {"take_out"}, who : whos, to : whos, arg : {"pocket"}]
         \cup [act : {"put_away"}, who : whos, to : whos, arg : {""}] : e.who = e.to}

Transfers(cast) ==
  {e \in [act : {"transfer"}, who : cast \cup {NoOne}, to : cast, arg : {""}] :
     e.who = e.to => Cardinality(cast) # 2}

EventsOf(cast) ==
  Losses(cast \cup {NoOne}) \cup Takings(cast \cup {NoOne}) \cup Transfers(cast)

Init ==
  /\ pc = "heading" /\ n = 0
  /\ scene \in [loc : Locations, branch : {"present"}, bare : {TRUE}, direct : {FALSE},
                continuous : {FALSE}, cast : {{}}, sameCast : {FALSE}, anchored : {FALSE},
                mention : {"none"}, claim : {""}, acted : {FALSE}, shown : {FALSE}]
  /\ prop = Missing /\ part = Missing /\ replay = Missing
  /\ left = MaxEvents /\ blocked = {} /\ ledger = Missing

(***************************************************************************)
(* The heading: timeline, continuity and cast.                             *)
(***************************************************************************)
\* Mutant: a scene of the present may go on from a flashback.
MutSameTimeline(branch) == TRUE

SameTimeline(branch) == (branch = "flashback") = (scene.branch = "flashback")

\* is_direct_continuation.  Without any heading all scenes of a place are one.
Direct(loc, branch, bare, said) ==
  /\ n > 0 /\ loc = scene.loc
  /\ bare \/ (branch # "parallel" /\ said /\ SameTimeline(branch))

\* narrative_transition is "continuous".
Continuous(loc, branch, bare, said) ==
  /\ n > 0 /\ loc = scene.loc /\ ~bare /\ said
  /\ branch # "parallel"
  /\ branch = "flashback" => scene.branch = "flashback"

\* The cast is who is seen, and on a direct continuation who was there and does
\* not leave; nothing else looks at how the scene before ended.  A story without
\* headings has none before its first one.
Heading ==
  /\ pc = "heading" /\ n < MaxScenes
  /\ \E loc \in Locations, branch \in Branches, bare, said \in BOOLEAN,
       named \in SUBSET Characters : \E leaves \in SUBSET (scene.cast \ named) :
       LET direct == Direct(loc, branch, bare, said)
           cast == named \cup (IF direct THEN scene.cast \ leaves ELSE {})
       IN  /\ bare => scene.bare /\ branch = "present" /\ ~said
           /\ leaves = {} \/ direct
           /\ IF direct THEN UNCHANGED <<prop, part>> ELSE prop' = Missing /\ part' = Missing
           /\ scene' = [loc |-> loc, branch |-> branch, bare |-> bare, direct |-> direct,
                        continuous |-> Continuous(loc, branch, bare, said),
                        cast |-> cast, sameCast |-> direct /\ cast = scene.cast,
                        anchored |-> FALSE, mention |-> "none", claim |-> "", acted |-> FALSE,
                        shown |-> FALSE]
  /\ pc' = "read"
  /\ UNCHANGED <<n, replay, gate, ledger>>

(***************************************************************************)
(* The state of the prop on entry (compile_prop_lifecycle).                *)
(***************************************************************************)
Ledger == IF scene.branch = "present" THEN ledger ELSE Missing

\* The prop that comes into the scene: from the scene before, or with its owner.
Carried ==
  IF prop # Missing THEN prop
  ELSE IF Ledger # Missing /\ Ledger.owner \in scene.cast
       THEN [Ledger EXCEPT !.surface = FALSE, !.visible = FALSE]
  ELSE Missing

Seed ==
  IF Carried # Missing THEN Carried
  ELSE IF Ledger # Missing THEN [Ledger EXCEPT !.surface = FALSE, !.visible = TRUE]
  ELSE Missing

\* _base_prop_state: what the text alone says.  Who holds it is on no surface;
\* what the text calls the corner of it is a fragment.
Bases(conds) ==
  {s \in [owner : scene.cast \cup {NoOne}, surface : BOOLEAN, inside : {FALSE},
          cond : conds, two : BOOLEAN, visible : {TRUE}, whole : BOOLEAN,
          from : {scene.branch}] :
     /\ s.surface => s.owner = NoOne
     /\ s.two = (s.cond = "torn") /\ s.cond = "fragment" => ~s.whole}

\* _explicit_condition_from_text overrides any seed.
Claimed(s, claim) ==
  IF claim = "" THEN s ELSE [s EXCEPT !.cond = claim, !.two = (claim = "torn")]

\* The conditions the text may give a prop nothing is known of: what is said, or
\* else "intact" before an event.
Said(claim, first) ==
  IF claim # "" THEN {claim}
  ELSE IF first # NoEvent THEN {"intact"} ELSE {"intact", "fragment"}

\* Mutant: a scene begins from its own text, not from the ledger.
MutWholeOnEntry(claim, first) == Bases(Said(claim, first))

\* The sentences on the prop up to the first event are read as one text, and that
\* text may speak of a fragment where no sentence of the whole does.
WholeOnEntry(claim, first) ==
  IF Seed # Missing THEN {Claimed(Seed, claim)} ELSE Bases(Said(claim, first))

\* An event that acquires the prop says where it was before.
BeforeFirst(s, e) ==
  LET holder == IF e.who # NoOne THEN e.who ELSE s.owner IN
  CASE e.act = "pick_up" ->
         [s EXCEPT !.owner = NoOne, !.surface = (e.arg = "surface"), !.inside = FALSE]
    [] e.act = "take_out" /\ e.arg = "pocket" ->
         [s EXCEPT !.owner = holder, !.surface = FALSE, !.inside = TRUE]
    [] e.act = "take_out" /\ e.arg = "surface" ->
         [s EXCEPT !.owner = NoOne, !.surface = TRUE, !.inside = TRUE]
    [] e.act = "take_out" /\ e.arg = "here" -> [s EXCEPT !.owner = holder]
    [] OTHER -> s

\* What a mention of the fragment adds to what is known of it.
Refined(known, found) ==
  LET p == [known EXCEPT !.surface = @ \/ found.surface] IN
    IF p.owner = NoOne /\ ~p.surface THEN [p EXCEPT !.owner = found.owner] ELSE p

Fragments == {p \in [owner : scene.cast \cup {NoOne}, surface : BOOLEAN] :
                p.surface => p.owner = NoOne}

InFrame(whole, piece) == piece # Missing \/ (whole # Missing /\ whole.visible)

\* is_direct_frame_anchor: the boundary has the same cast and the same props.
Anchored(entry, piece) ==
  scene.direct /\ scene.sameCast /\ InFrame(entry, piece) = InFrame(prop, part)

(***************************************************************************)
(* The events, and the gate that replays them.                             *)
(***************************************************************************)
\* Mutant: an event without a named actor is applied as it is.
MutResolved(s, e) == e

\* The people the text leaves out are those the replay of the events knows.
Resolved(s, e) ==
  CASE e.act \in {"pick_up", "take_out", "put_away"} /\ e.to = NoOne -> [e EXCEPT !.to = s.owner]
    [] e.act = "transfer" /\ e.who \in {NoOne, e.to} /\ s.owner \notin {NoOne, e.to} ->
         [e EXCEPT !.who = s.owner]
    [] OTHER -> e

Torn(s, e) ==
  IF e.arg = "torn" THEN [s EXCEPT !.cond = "torn", !.two = TRUE]
  ELSE [s EXCEPT !.cond = "corner"]

OwnerOr(s, e) == IF e.to # NoOne THEN e.to ELSE s.owner

\* _apply_event.
Applied(s, e) ==
  CASE e.act = "tear" -> Torn(s, e)
    [] e.act = "pick_up" ->
         [s EXCEPT !.owner = e.to, !.surface = FALSE, !.inside = FALSE, !.visible = TRUE]
    [] e.act = "take_out" ->
         [s EXCEPT !.owner = OwnerOr(s, e), !.surface = FALSE, !.inside = FALSE, !.visible = TRUE]
    [] e.act = "put_away" ->
         [s EXCEPT !.owner = OwnerOr(s, e), !.inside = TRUE, !.visible = FALSE]
    [] e.act = "place" ->
         [s EXCEPT !.owner = NoOne, !.surface = TRUE, !.inside = FALSE, !.visible = TRUE]
    [] e.act = "transfer" -> [s EXCEPT !.owner = e.to, !.inside = FALSE, !.visible = TRUE]

\* The gate's own transition (_prop_lifecycle_blockers).
Replayed(s, e) ==
  CASE e.act = "tear" -> Torn(s, e)
    [] e.act \in {"pick_up", "take_out"} ->
         [s EXCEPT !.owner = OwnerOr(s, e), !.surface = FALSE, !.inside = FALSE]
    [] e.act = "put_away" -> [s EXCEPT !.owner = OwnerOr(s, e), !.inside = TRUE]
    [] e.act = "place" -> [s EXCEPT !.owner = NoOne, !.surface = TRUE, !.inside = FALSE]
    [] e.act = "transfer" -> [s EXCEPT !.owner = OwnerOr(s, e), !.inside = FALSE]

Objections(s, e) ==
  {r \in {"torn", "giver"} :
     \/ r = "torn" /\ e.act = "tear" /\ (s.cond = e.arg \/ (e.arg = "torn" /\ s.two))
     \/ r = "giver" /\ e.act = "transfer" /\ NoOne \notin {e.who, s.owner} /\ s.owner # e.who}

Entered(s, piece) == [prop |-> s, replay |-> s, part |-> piece, blocked |-> {}]

\* What an event makes of the prop and the corner, and what the gate says.  The
\* event of a prop without an entry state goes on from what its sentence says.
Outcomes(at, event) ==
  IF at.replay # Missing
  THEN LET e == Resolved(at.prop, event) IN
         {[prop |-> Applied(at.prop, e), replay |-> Replayed(at.replay, e),
           part |-> IF e.act = "tear" /\ e.arg = "corner"
                    THEN [owner |-> at.prop.owner, surface |-> at.prop.surface] ELSE at.part,
           blocked |-> at.blocked \cup Objections(at.replay, e)]}
  ELSE {[at EXCEPT !.prop = Applied(s, event), !.blocked = @ \cup {"stream"}] :
          s \in IF at.prop # Missing THEN {at.prop} ELSE Bases(Conditions)}

Becomes(at) ==
  prop' = at.prop /\ replay' = at.replay /\ part' = at.part /\ blocked' = at.blocked

\* The scene enters with a state of the prop and of the corner; then its first
\* event, if it has one.
Enters(mention, claim, shown, at, first) ==
  /\ \E to \in IF first = NoEvent THEN {at} ELSE Outcomes(at, first) : Becomes(to)
  /\ scene' = [scene EXCEPT !.mention = mention, !.claim = claim, !.shown = shown,
                            !.anchored = Anchored(at.prop, at.part),
                            !.acted = first # NoEvent]
  /\ pc' = "events" /\ left' = IF first = NoEvent THEN left ELSE left - 1
  /\ UNCHANGED <<n, ledger>>

Firsts == {NoEvent} \cup (IF left > 0 /\ n + 1 \in Acting THEN EventsOf(scene.cast) ELSE {})

ReadWhole ==
  /\ pc = "read"
  /\ \E mention \in {"whole", "both"}, claim \in Claims \cup {""}, first \in Firsts :
       \E s \in WholeOnEntry(claim, first) :
         Enters(mention, claim, FALSE, Entered(BeforeFirst(s, first), part), first)

\* A fragment-only scene must never masquerade as the canonical whole prop.
ReadFragment ==
  /\ pc = "read"
  /\ \E found \in Fragments, first \in Firsts :
       LET piece == IF part = Missing THEN found ELSE Refined(part, found) IN
         Enters("fragment", "", FALSE, Entered(Missing, piece), first)

ReadAbsent ==
  /\ pc = "read"
  /\ \E shown \in BOOLEAN, first \in Firsts :
       Enters("absent", "", shown, Entered(Missing, part), first)

\* Nothing is said of the prop: what is carried is out of the picture.
ReadNothing ==
  /\ pc = "read"
  /\ LET s == IF Carried = Missing THEN Missing ELSE [Carried EXCEPT !.visible = FALSE] IN
       \E shown \in BOOLEAN : Enters("none", "", shown, Entered(s, part), NoEvent)

Happens ==
  /\ pc = "events" /\ scene.acted /\ left > 0
  /\ \E event \in EventsOf(scene.cast) :
       \E to \in Outcomes([prop |-> prop, replay |-> replay, part |-> part, blocked |-> blocked],
                          event) : Becomes(to)
  /\ left' = left - 1
  /\ UNCHANGED <<pc, n, scene, ledger>>

SameState(s, t) ==
  \A f \in {"owner", "surface", "inside", "cond", "two"} : s[f] = t[f]

\* _perceptual_scope_blockers: the prop has a state where only a picture or a
\* screen shows it.
OutOfScope == scene.shown /\ scene.mention \in {"none", "absent"} /\ prop # Missing

\* What the gate has against the scene when it is complete.
Verdict ==
  blocked \cup
  {r \in {"replay", "absent", "presence", "whole", "part", "scope"} :
     \/ r = "replay" /\ replay # Missing /\ ~SameState(prop, replay)
     \/ r = "absent" /\ scene.mention = "absent" /\ prop # Missing
     \/ r = "presence" /\ ~scene.anchored /\ ~scene.continuous
                       /\ scene.mention \in {"none", "absent"}
                       /\ prop # Missing /\ prop.visible
     \/ r = "whole" /\ prop # Missing /\ ~prop.whole
     \/ r = "part" /\ scene.mention \in {"fragment", "both"} /\ part = Missing
     \/ r = "scope" /\ OutOfScope}

\* Text after the split may refine where the corner is; then the exit state of
\* the prop goes to the ledger of the present, a fragment never.
Close ==
  /\ pc = "events"
  /\ IF scene.mention = "both" /\ part # Missing
     THEN \E found \in Fragments : part' = Refined(part, found)
     ELSE UNCHANGED part
  /\ ledger' = IF scene.branch = "present" /\ prop # Missing /\ prop.whole
               THEN prop ELSE ledger
  /\ scene' = [scene EXCEPT !.direct = FALSE, !.continuous = FALSE, !.sameCast = FALSE,
                            !.anchored = FALSE, !.mention = "none", !.claim = "",
                            !.acted = FALSE, !.shown = FALSE]
  /\ pc' = "heading" /\ n' = n + 1
  /\ replay' = Missing /\ blocked' = {}
  /\ left' = IF \E m \in Acting : m > n' THEN left ELSE 0
  /\ UNCHANGED prop

Next ==
  Heading \/ ReadWhole \/ ReadFragment \/ ReadAbsent \/ ReadNothing \/ Happens \/ Close

Spec == Init /\ [][Next]_vars

(***************************************************************************)
(* Properties.                                                             *)
(***************************************************************************)
StoryTypeOK ==
  /\ pc \in {"heading", "read", "events"} /\ n \in 0..MaxScenes
  /\ scene \in SceneRecord /\ left \in 0..MaxEvents
  /\ {prop, replay, ledger} \subseteq PropState \cup {Missing}
  /\ part \in PartState \cup {Missing}

\* A damaged prop of the present becomes intact only because a text says so,
\* because the scene goes on from one of a parallel timeline, or in a scene that
\* denies the prop or shows a fragment alone and yet has an event.
TornStaysTorn ==
  [][ledger # Missing /\ ledger.cond # "intact" /\ ledger'.cond = "intact" =>
       \/ scene.claim = "intact"
       \/ ledger'.from = "parallel"
       \/ scene.mention \in {"absent", "fragment"}]_ledger

\* What happens in a flashback never becomes the state of the prop today: not by
\* the ledger, and not by a scene that goes on from another.
FlashbackIsApart == ledger # Missing => ledger.from # "flashback"

\* The compiler and the gate were written apart and agree on what happens to a
\* prop that the scene names as a whole, or does not name: the gate's replay of
\* the events comes to the same end, it finds a state that they begin with, and
\* no prop is in the picture that nothing shows.  What it may still refuse is in
\* the text: what is torn was torn before, someone gives what another holds, a
\* fragment of which nothing is known, a prop whose text reads as that of a
\* fragment, here or where it comes from, and a carried prop that only a picture
\* or a screen shows.
GateAgrees ==
  pc = "events" /\ scene.mention \in {"none", "whole", "both"} =>
    Verdict \cap {"replay", "stream", "presence"} = {}

\* Claimed by source_truth.py:1263: the text of the scene brings a carried prop
\* back into the picture.
NamedIsVisible ==
  pc = "events" /\ scene.mention = "whole" /\ ~prop.inside => prop.visible
=============================================================================

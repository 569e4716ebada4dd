-------------------------- MODULE StoryTruth_proofs --------------------------
(***************************************************************************)
(* What the compiler of the story's truth and its readiness gate promise,  *)
(* for every cast, every set of locations, and stories of any length with  *)
(* any number of events.                                                   *)
(***************************************************************************)
EXTENDS StoryTruth, TLAPS

(***************************************************************************)
(* The inductive invariant.                                                *)
(***************************************************************************)
MaybeProp == PropState \cup {Missing}
MaybePart == PartState \cup {Missing}
Point == [prop : MaybeProp, replay : MaybeProp, part : MaybePart,
          blocked : SUBSET {"torn", "giver", "stream"}]

\* A state that began in a flashback stays in flashbacks, and a parallel
\* timeline begins anew with every scene.
Timely(p) ==
  p # Missing =>
    /\ p.from = "flashback" => scene.branch = "flashback"
    /\ scene.branch = "parallel" => p.from = "parallel"

\* Whole and intact today, though the ledger had it damaged: the text says so.
Justified(p, mention, claim) ==
  (/\ p # Missing /\ p.whole /\ p.cond = "intact" /\ scene.branch = "present"
   /\ ledger # Missing /\ ledger.cond # "intact") =>
    (claim = "intact" \/ p.from = "parallel" \/ mention \in {"absent", "fragment"})

\* The gate's replay has the prop as the compiler has it, where there is one.
Agreed(at, mention) ==
  /\ mention \in {"absent", "fragment"} => at.replay = Missing
  /\ mention \in {"whole", "both"} =>
       /\ at.prop \in PropState /\ at.replay \in PropState
       /\ SameState(at.prop, at.replay)
       /\ at.blocked \subseteq {"torn", "giver"}

\* What holds of a scene from its entry to its end.
PointOK(at, mention, claim) ==
  /\ at \in Point
  /\ Timely(at.prop) /\ Justified(at.prop, mention, claim) /\ Agreed(at, mention)

Now == [prop |-> prop, replay |-> replay, part |-> part, blocked |-> blocked]

\* Of a prop that nothing is said of, nothing happens, and it is not seen.
UnsaidOK ==
  scene.mention = "none" =>
    /\ ~scene.acted /\ blocked = {}
    /\ prop # Missing => prop = replay /\ ~prop.visible
    /\ prop = Missing => replay = Missing

\* What the next scene may go on from: between two scenes of the present the
\* ledger has the whole prop as it is.
BetweenOK ==
  /\ pc = "heading" =>
       Timely(prop) /\ (scene.branch = "present" /\ prop # Missing /\ prop.whole => ledger = prop)
  /\ pc = "read" =>
       /\ Timely(prop)
       /\ scene.branch = "present" /\ prop # Missing /\ prop.whole =>
            ledger = prop \/ prop.from = "parallel"

\* A scene without a heading belongs to the present, and the story has room
\* for the scene that is compiled.
SceneOK ==
  /\ scene.bare => scene.branch = "present"
  /\ pc # "heading" => n < MaxScenes

StoryInv ==
  /\ StoryTypeOK /\ SceneOK /\ FlashbackIsApart /\ BetweenOK
  /\ pc = "events" => PointOK(Now, scene.mention, scene.claim) /\ UnsaidOK


LEMMA StoryInvInit == Init => StoryInv
  <1> SUFFICES ASSUME Init PROVE StoryInv
    OBVIOUS
  <1>1. /\ pc = "heading" /\ n = 0 /\ left = MaxEvents
        /\ prop = Missing /\ replay = Missing /\ part = Missing /\ ledger = Missing
    BY DEF Init
  <1>2. scene.branch = "present" /\ scene \in SceneRecord
    BY DEF Init, SceneRecord, Branches, Mentions, Claims
  <1>3. MaxScenes \in Nat /\ MaxEvents \in Nat
    BY StoryAssumption
  <1>4. StoryTypeOK
    BY <1>1, <1>2, <1>3 DEF StoryTypeOK
  <1>5. BetweenOK
    BY <1>1 DEF BetweenOK, Timely
  <1> QED BY <1>1, <1>2, <1>4, <1>5 DEF StoryInv, SceneOK, FlashbackIsApart

(***************************************************************************)
(* The events of a scene.                                                  *)
(***************************************************************************)
Acts == {"tear", "pick_up", "take_out", "put_away", "place", "transfer"}
EventRecord == [act : Acts, who : Owners, to : Owners,
                arg : {"", "corner", "torn", "here", "surface", "pocket"}]

\* A tear says how much of the prop is left, a transfer names its receiver.
EventOK(e) ==
  /\ e \in EventRecord
  /\ e.act = "tear" => e.arg \in {"corner", "torn"}
  /\ e.act = "transfer" => e.to # NoOne

LEMMA EventsAreOK ==
  ASSUME NEW cast \in SUBSET Characters, NEW ev \in EventsOf(cast)
  PROVE  EventOK(ev)
  <1> DEFINE whos == cast \cup {NoOne}
  <1>1. ev \in Losses(whos) \/ ev \in Takings(whos) \/ ev \in Transfers(cast)
    BY DEF EventsOf
  <1>2. /\ \A w \in whos : w \in Owners
        /\ \A t \in cast : t \in whos /\ t # NoOne
    BY StoryAssumption DEF Owners
  <1>3. CASE ev \in Losses(whos)
    <2> HIDE DEF whos
    <2> QED BY <1>2, <1>3 DEF Losses, EventOK, EventRecord, Acts, Owners
  <1>4. CASE ev \in Takings(whos)
    <2> HIDE DEF whos
    <2> QED BY <1>2, <1>4 DEF Takings, EventOK, EventRecord, Acts
  <1>5. CASE ev \in Transfers(cast)
    <2>1. ev \in [act : {"transfer"}, who : whos, to : cast, arg : {""}]
      BY <1>5 DEF Transfers
    <2> HIDE DEF whos
    <2> QED BY <1>2, <2>1 DEF EventOK, EventRecord, Acts
  <1> QED BY <1>1, <1>3, <1>4, <1>5

LEMMA ResolvedIsOK ==
  ASSUME NEW s \in PropState, NEW e, EventOK(e)
  PROVE  EventOK(Resolved(s, e))
  <1> USE DEF EventOK, EventRecord, PropState
  <1>1. CASE e.act \in {"pick_up", "take_out", "put_away"} /\ e.to = NoOne
    BY <1>1 DEF Resolved
  <1>2. CASE e.act = "transfer" /\ e.who \in {NoOne, e.to} /\ s.owner \notin {NoOne, e.to}
    BY <1>2 DEF Resolved
  <1> QED BY <1>1, <1>2 DEF Resolved

\* Whatever happens to a prop, its part and its timeline stay, and nothing
\* makes it intact.
Kept(s, t) ==
  /\ t \in PropState /\ t.whole = s.whole /\ t.from = s.from
  /\ t.cond = "intact" => s.cond = "intact"

LEMMA AppliedKeeps ==
  ASSUME NEW s \in PropState, NEW e, EventOK(e)
  PROVE  Kept(s, Applied(s, e))
  <1> USE DEF Kept, EventOK, EventRecord, PropState, Applied
  <1>1. CASE e.act = "tear"
    BY <1>1 DEF Torn, Conditions, Claims
  <1>2. CASE e.act = "pick_up"
    BY <1>2
  <1>3. CASE e.act = "take_out"
    BY <1>3 DEF OwnerOr
  <1>4. CASE e.act = "put_away"
    BY <1>4 DEF OwnerOr
  <1>5. CASE e.act = "place"
    BY <1>5 DEF Owners
  <1>6. CASE e.act = "transfer"
    BY <1>6
  <1> QED BY <1>1, <1>2, <1>3, <1>4, <1>5, <1>6 DEF Acts

LEMMA ReplayedTyped ==
  ASSUME NEW s \in PropState, NEW e, EventOK(e)
  PROVE  Replayed(s, e) \in PropState
  <1> USE DEF EventOK, EventRecord, PropState, Replayed
  <1>1. CASE e.act = "tear"
    BY <1>1 DEF Torn, Conditions, Claims
  <1>2. CASE e.act \in {"pick_up", "take_out"}
    BY <1>2 DEF OwnerOr
  <1>3. CASE e.act = "put_away"
    BY <1>3 DEF OwnerOr
  <1>4. CASE e.act = "place"
    BY <1>4 DEF Owners
  <1>5. CASE e.act = "transfer"
    BY <1>5 DEF OwnerOr
  <1> QED BY <1>1, <1>2, <1>3, <1>4, <1>5 DEF Acts

\* SameState without the quantifier over the fields.
LEMMA FieldByField ==
  ASSUME NEW s \in PropState, NEW t \in PropState
  PROVE  SameState(s, t) <=>
           /\ s.owner = t.owner /\ s.surface = t.surface /\ s.inside = t.inside
           /\ s.cond = t.cond /\ s.two = t.two
  BY DEF SameState, PropState

\* The compiler and the gate make the same of an event whose people are known.
LEMMA TheyAgree ==
  ASSUME NEW s \in PropState, NEW t \in PropState, SameState(s, t), NEW e, EventOK(e)
  PROVE  SameState(Applied(s, Resolved(s, e)), Replayed(t, Resolved(s, e)))
  <1> DEFINE r == Resolved(s, e)
             a == Applied(s, r)
             b == Replayed(t, r)
  <1>1. EventOK(r)
    BY ResolvedIsOK
  <1>2. a \in PropState /\ b \in PropState
    BY <1>1, AppliedKeeps, ReplayedTyped DEF Kept
  <1>3. r.act \in {"pick_up", "take_out", "put_away"} /\ r.to = NoOne => s.owner = NoOne
    BY DEF Resolved, EventOK, EventRecord, PropState
  <1>4. /\ s.owner = t.owner /\ s.surface = t.surface /\ s.inside = t.inside
        /\ s.cond = t.cond /\ s.two = t.two
    BY FieldByField
  <1> HIDE DEF r
  <1>5. /\ a.owner = b.owner /\ a.surface = b.surface /\ a.inside = b.inside
        /\ a.cond = b.cond /\ a.two = b.two
    <2> USE <1>1, <1>3, <1>4 DEF PropState, EventOK, EventRecord, Applied, Replayed
    <2>1. CASE r.act = "tear"
      BY <2>1 DEF Torn
    <2>2. CASE r.act = "pick_up"
      BY <2>2 DEF OwnerOr
    <2>3. CASE r.act = "take_out"
      BY <2>3 DEF OwnerOr
    <2>4. CASE r.act = "put_away"
      BY <2>4 DEF OwnerOr
    <2>5. CASE r.act = "place"
      BY <2>5
    <2>6. CASE r.act = "transfer"
      BY <2>6 DEF OwnerOr
    <2> QED BY <2>1, <2>2, <2>3, <2>4, <2>5, <2>6 DEF Acts
  <1> HIDE DEF a, b
  <1>6. SameState(a, b)
    BY <1>2, <1>5, FieldByField
  <1> QED BY <1>6 DEF a, b, r


(***************************************************************************)
(* One event at a point of the scene.                                      *)
(***************************************************************************)
\* What the text alone says of a prop belongs to the timeline of the scene.
LEMMA BasesTyped ==
  ASSUME StoryTypeOK, NEW conds \in SUBSET Conditions, NEW s \in Bases(conds)
  PROVE  s \in PropState /\ s.from = scene.branch
  <1>1. scene.cast \cup {NoOne} \subseteq Owners /\ scene.branch \in Branches
    BY DEF StoryTypeOK, SceneRecord, Owners
  <1> QED BY <1>1 DEF Bases, PropState

LEMMA BasesTimely ==
  ASSUME NEW s, s.from = scene.branch
  PROVE  Timely(s)
  BY DEF Timely

LEMMA KeptTimely ==
  ASSUME NEW s \in PropState, NEW t, Kept(s, t), Timely(s)
  PROVE  Timely(t)
  BY MissingAssumption DEF Kept, Timely

LEMMA KeptJustified ==
  ASSUME NEW s \in PropState, NEW t, Kept(s, t), NEW mention, NEW claim,
         Justified(s, mention, claim)
  PROVE  Justified(t, mention, claim)
  BY MissingAssumption DEF Kept, Justified

LEMMA ReplayedEvent ==
  ASSUME NEW claim, NEW mention \in {"whole", "both"}, NEW at, PointOK(at, mention, claim),
         NEW e, EventOK(e), NEW to \in Outcomes(at, e)
  PROVE  PointOK(to, mention, claim)
  <1> DEFINE r == Resolved(at.prop, e)
             p == Applied(at.prop, r)
             q == Replayed(at.replay, r)
             piece == IF r.act = "tear" /\ r.arg = "corner"
                   THEN [owner |-> at.prop.owner, surface |-> at.prop.surface] ELSE at.part
  <1>1. /\ at.prop \in PropState /\ at.replay \in PropState /\ SameState(at.prop, at.replay)
        /\ at.blocked \subseteq {"torn", "giver"} /\ at.part \in MaybePart
        /\ Timely(at.prop) /\ Justified(at.prop, mention, claim)
    BY DEF PointOK, Agreed, Point
  <1>2. at.replay # Missing
    BY <1>1, MissingAssumption
  <1>3. to = [prop |-> p, replay |-> q, part |-> piece,
              blocked |-> at.blocked \cup Objections(at.replay, r)]
    BY <1>2 DEF Outcomes
  <1>4. EventOK(r)
    BY <1>1, ResolvedIsOK
  <1>5. Kept(at.prop, p) /\ q \in PropState /\ SameState(p, q)
    BY <1>1, <1>4, AppliedKeeps, ReplayedTyped, TheyAgree
  <1>6. piece \in MaybePart
    BY <1>1 DEF PropState, PartState, MaybePart
  <1>7. Objections(at.replay, r) \subseteq {"torn", "giver"}
    BY DEF Objections
  <1>8. Timely(p) /\ Justified(p, mention, claim) /\ p \in PropState
    BY <1>1, <1>5, KeptTimely, KeptJustified DEF Kept
  <1> HIDE DEF p, q, piece, r
  <1>9. to \in Point
    BY <1>1, <1>3, <1>5, <1>6, <1>7, <1>8 DEF Point, MaybeProp
  <1>10. Agreed(to, mention)
    BY <1>1, <1>3, <1>5, <1>7, <1>8 DEF Agreed
  <1> QED BY <1>3, <1>8, <1>9, <1>10 DEF PointOK

LEMMA StreamedEvent ==
  ASSUME StoryTypeOK, NEW claim, NEW mention \in {"absent", "fragment"}, NEW at,
         PointOK(at, mention, claim), NEW e, EventOK(e), NEW to \in Outcomes(at, e)
  PROVE  PointOK(to, mention, claim)
  <1>1. at \in Point /\ at.replay = Missing /\ Timely(at.prop)
    BY DEF PointOK, Agreed
  <1>2. PICK s \in IF at.prop # Missing THEN {at.prop} ELSE Bases(Conditions) :
          to = [at EXCEPT !.prop = Applied(s, e), !.blocked = @ \cup {"stream"}]
    BY <1>1 DEF Outcomes
  <1>3. s \in PropState /\ Timely(s)
    <2>1. CASE at.prop # Missing
      BY <1>1, <1>2, <2>1 DEF Point, MaybeProp
    <2>2. CASE at.prop = Missing
      <3>1. s \in PropState /\ s.from = scene.branch
        BY <1>2, <2>2, BasesTyped
      <3> QED BY <3>1, BasesTimely
    <2> QED BY <2>1, <2>2
  <1>4. Kept(s, Applied(s, e))
    BY <1>3, AppliedKeeps
  <1>5. Timely(Applied(s, e)) /\ Applied(s, e) \in PropState
    BY <1>3, <1>4, KeptTimely DEF Kept
  <1>6. to \in Point /\ to.prop = Applied(s, e) /\ to.replay = Missing
    BY <1>1, <1>2, <1>5 DEF Point, MaybeProp
  <1> QED BY <1>5, <1>6 DEF PointOK, Justified, Agreed

\* An event leaves the scene at a point where the invariant holds.
LEMMA EventKeepsPoint ==
  ASSUME StoryTypeOK, NEW claim, NEW mention \in Mentions \ {"none"}, NEW at,
         PointOK(at, mention, claim), NEW e, EventOK(e), NEW to \in Outcomes(at, e)
  PROVE  PointOK(to, mention, claim)
  BY ReplayedEvent, StreamedEvent DEF Mentions


(***************************************************************************)
(* The entry of a scene.                                                   *)
(***************************************************************************)
LEMMA RefinedTyped ==
  ASSUME NEW known \in PartState, NEW found \in PartState
  PROVE  Refined(known, found) \in PartState
  BY DEF Refined, PartState

LEMMA FragmentsTyped ==
  ASSUME StoryTypeOK
  PROVE  Fragments \subseteq PartState
  <1>1. scene.cast \cup {NoOne} \subseteq Owners
    BY DEF StoryTypeOK, SceneRecord, Owners
  <1> QED BY <1>1 DEF Fragments, PartState

\* The prop that comes from the ledger has its condition, part and timeline.
LEMMA FromLedger ==
  ASSUME StoryInv, Ledger # Missing, NEW seen \in BOOLEAN,
         NEW s, s = [Ledger EXCEPT !.surface = FALSE, !.visible = seen]
  PROVE  s \in PropState /\ Timely(s) /\ \A m, c : Justified(s, m, c)
  <1>1. ledger \in PropState /\ Ledger = ledger /\ scene.branch = "present"
    BY DEF Ledger, StoryInv, StoryTypeOK
  <1>2. s \in PropState /\ s.cond = ledger.cond /\ s.from = ledger.from
    BY <1>1 DEF PropState
  <1>3. ledger.from # "flashback"
    BY <1>1, MissingAssumption DEF StoryInv, FlashbackIsApart
  <1> QED BY <1>1, <1>2, <1>3 DEF Timely, Justified

\* What comes into a scene is damaged if the ledger says so, unless it comes
\* from a parallel timeline or is no whole prop.
LEMMA CarriedOK ==
  ASSUME StoryInv, pc = "read", Carried # Missing
  PROVE  Carried \in PropState /\ Timely(Carried) /\ \A m, c : Justified(Carried, m, c)
  <1>1. CASE prop # Missing
    <2>1. Carried = prop /\ prop \in PropState
      BY <1>1 DEF Carried, StoryInv, StoryTypeOK
    <2>2. /\ Timely(prop)
          /\ scene.branch = "present" /\ prop.whole => ledger = prop \/ prop.from = "parallel"
      BY <1>1 DEF StoryInv, BetweenOK
    <2>3. \A m, c : Justified(prop, m, c)
      BY <2>2 DEF Justified
    <2> QED BY <2>1, <2>2, <2>3
  <1>2. CASE prop = Missing
    <2>1. Ledger # Missing /\ Carried = [Ledger EXCEPT !.surface = FALSE, !.visible = FALSE]
      BY <1>2 DEF Carried
    <2> QED BY <2>1, FromLedger
  <1> QED BY <1>1, <1>2

LEMMA SeedOK ==
  ASSUME StoryInv, pc = "read", Seed # Missing
  PROVE  Seed \in PropState /\ Timely(Seed) /\ \A m, c : Justified(Seed, m, c)
  <1>1. CASE Carried # Missing
    BY <1>1, CarriedOK DEF Seed
  <1>2. CASE Carried = Missing
    <2>1. Ledger # Missing /\ Seed = [Ledger EXCEPT !.surface = FALSE, !.visible = TRUE]
      BY <1>2 DEF Seed
    <2> QED BY <2>1, FromLedger
  <1> QED BY <1>1, <1>2

LEMMA WholeOnEntryOK ==
  ASSUME StoryInv, pc = "read", NEW claim \in Claims \cup {""}, NEW first,
         NEW s \in WholeOnEntry(claim, first), NEW mention
  PROVE  s \in PropState /\ Timely(s) /\ Justified(s, mention, claim)
  <1>1. CASE Seed # Missing
    <2>1. s = Claimed(Seed, claim)
      BY <1>1 DEF WholeOnEntry
    <2>2. Seed \in PropState /\ Timely(Seed) /\ Justified(Seed, mention, claim)
      BY <1>1, SeedOK
    <2>3. /\ s \in PropState /\ s.from = Seed.from /\ s.whole = Seed.whole
          /\ s.cond = IF claim = "" THEN Seed.cond ELSE claim
      BY <2>1, <2>2 DEF Claimed, PropState, Conditions
    <2>4. Timely(s)
      BY <1>1, <2>2, <2>3 DEF Timely
    <2>5. Justified(s, mention, claim)
      BY <1>1, <2>2, <2>3 DEF Justified
    <2> QED BY <2>3, <2>4, <2>5
  <1>2. CASE Seed = Missing
    <2>1. s \in Bases(Said(claim, first))
      BY <1>2 DEF WholeOnEntry
    <2>2. s \in PropState /\ s.from = scene.branch
      <3>1. Said(claim, first) \subseteq Conditions
        BY DEF Said, Claims, Conditions
      <3> QED BY <2>1, <3>1, BasesTyped DEF StoryInv
    <2>3. scene.branch = "present" => ledger = Missing
      <3>1. SUFFICES ASSUME scene.branch = "present", ledger # Missing
                     PROVE  FALSE
        OBVIOUS
      <3>2. Ledger # Missing
        BY <3>1 DEF Ledger
      <3>3. Carried = Missing /\ Seed = [Ledger EXCEPT !.surface = FALSE, !.visible = TRUE]
        BY <1>2, <3>2 DEF Seed
      <3>4. Seed \in PropState
        BY <3>2, <3>3, FromLedger
      <3> QED BY <1>2, <3>4, MissingAssumption
    <2>4. Timely(s) /\ Justified(s, mention, claim)
      BY <2>2, <2>3, BasesTimely DEF Justified
    <2> QED BY <2>2, <2>4
  <1> QED BY <1>1, <1>2

LEMMA BeforeFirstKeeps ==
  ASSUME NEW s \in PropState, NEW e, e = NoEvent \/ EventOK(e)
  PROVE  Kept(s, BeforeFirst(s, e))
  <1>0. NoEvent.act = "end"
    BY DEF NoEvent
  <1>1. CASE e.act = "pick_up"
    BY <1>1 DEF Kept, PropState, BeforeFirst, Owners
  <1>2. CASE e.act = "take_out" /\ e.arg = "pocket"
    <2>1. EventOK(e)
      BY <1>0, <1>2
    <2> QED BY <1>2, <2>1 DEF Kept, PropState, BeforeFirst, EventOK, EventRecord
  <1>3. CASE e.act = "take_out" /\ e.arg = "surface"
    BY <1>3 DEF Kept, PropState, BeforeFirst, Owners
  <1>4. CASE e.act = "take_out" /\ e.arg = "here"
    <2>1. EventOK(e)
      BY <1>0, <1>4
    <2> QED BY <1>4, <2>1 DEF Kept, PropState, BeforeFirst, EventOK, EventRecord
  <1>5. CASE /\ e.act # "pick_up"
             /\ ~(e.act = "take_out" /\ e.arg \in {"pocket", "surface", "here"})
    <2>1. BeforeFirst(s, e) = s
      BY <1>5 DEF BeforeFirst
    <2> QED BY <2>1 DEF Kept
  <1> QED BY <1>1, <1>2, <1>3, <1>4, <1>5


LEMMA OneLess ==
  ASSUME NEW most \in Nat, NEW rest \in 0..most, rest > 0
  PROVE  rest \in 1..most /\ rest - 1 \in 0..most
  OBVIOUS

\* A scene that enters at a point where the invariant holds, and the event it
\* may begin with, keep the invariant.
LEMMA EntersOK ==
  ASSUME StoryInv, pc = "read",
         NEW mention \in Mentions, NEW claim \in Claims \cup {""}, NEW shown \in BOOLEAN,
         NEW at, NEW first \in Firsts,
         PointOK(at, mention, claim), Enters(mention, claim, shown, at, first),
         mention = "none" =>
           /\ first = NoEvent /\ at.blocked = {}
           /\ at.prop # Missing => at.prop = at.replay /\ ~at.prop.visible
           /\ at.prop = Missing => at.replay = Missing
  PROVE  StoryInv'
  <1> USE DEF StoryInv
  <1>0. MaxEvents \in Nat
    BY StoryAssumption
  <1>1. first # NoEvent => EventOK(first) /\ left \in 1..MaxEvents
    <2>1. first # NoEvent => left > 0 /\ first \in EventsOf(scene.cast)
      BY DEF Firsts
    <2>2. scene.cast \in SUBSET Characters /\ left \in 0..MaxEvents
      BY DEF StoryTypeOK, SceneRecord
    <2>3. first # NoEvent => EventOK(first)
      BY <2>1, <2>2, EventsAreOK
    <2>4. first # NoEvent => left > 0
      BY <2>1
    <2>5. left > 0 => left \in 1..MaxEvents
      BY <1>0, <2>2, OneLess
    <2> QED BY <2>3, <2>4, <2>5
  <1>2. PICK to \in IF first = NoEvent THEN {at} ELSE Outcomes(at, first) : Becomes(to)
    BY DEF Enters
  <1>3. PointOK(to, mention, claim)
    BY <1>1, <1>2, EventKeepsPoint
  <1>4. /\ pc' = "events" /\ n' = n /\ ledger' = ledger
        /\ left' = IF first = NoEvent THEN left ELSE left - 1
    BY DEF Enters
  <1>5. /\ scene' \in SceneRecord /\ scene'.branch = scene.branch /\ scene'.bare = scene.bare
        /\ scene'.mention = mention /\ scene'.claim = claim /\ scene'.acted = (first # NoEvent)
    <2>1. Anchored(at.prop, at.part) \in BOOLEAN
      BY DEF Anchored
    <2>2. scene' = [scene EXCEPT !.mention = mention, !.claim = claim, !.shown = shown,
                                 !.anchored = Anchored(at.prop, at.part),
                                 !.acted = first # NoEvent]
      BY DEF Enters
    <2> HIDE DEF Anchored
    <2>3. scene \in SceneRecord
      BY DEF StoryTypeOK
    <2> QED BY <2>1, <2>2, <2>3 DEF SceneRecord
  <1>6. to \in Point
    BY <1>3 DEF PointOK
  <1>7. Now' = to
    BY <1>2, <1>6 DEF Now, Becomes, Point
  <1>8. StoryTypeOK'
    <2>1. left' \in 0..MaxEvents
      <3>1. left \in 0..MaxEvents
        BY DEF StoryTypeOK
      <3>2. left > 0 => left - 1 \in 0..MaxEvents
        BY <1>0, <3>1, OneLess
      <3>3. first # NoEvent => left > 0
        BY DEF Firsts
      <3> QED BY <1>4, <3>1, <3>2, <3>3
    <2>2. prop' \in MaybeProp /\ replay' \in MaybeProp /\ part' \in MaybePart
      BY <1>2, <1>6 DEF Becomes, Point
    <2> QED BY <1>4, <1>5, <2>1, <2>2 DEF StoryTypeOK, MaybeProp, MaybePart
  <1>9. PointOK(to, mention, claim)'
    BY <1>3, <1>4, <1>5 DEF PointOK, Timely, Justified, Agreed
  <1>10. UnsaidOK'
    BY <1>2, <1>4, <1>5 DEF UnsaidOK, Becomes
  <1>11. SceneOK' /\ FlashbackIsApart' /\ BetweenOK'
    BY <1>4, <1>5 DEF SceneOK, FlashbackIsApart, BetweenOK
  <1>12. PointOK(Now, scene.mention, scene.claim)'
    BY <1>5, <1>7, <1>9
  <1> QED BY <1>8, <1>10, <1>11, <1>12

LEMMA ReadWholeOK ==
  ASSUME StoryInv, ReadWhole
  PROVE  StoryInv'
  <1>1. PICK mention \in {"whole", "both"}, claim \in Claims \cup {""}, first \in Firsts :
          \E s \in WholeOnEntry(claim, first) :
            Enters(mention, claim, FALSE, Entered(BeforeFirst(s, first), part), first)
    BY DEF ReadWhole
  <1>2. PICK s \in WholeOnEntry(claim, first) :
          Enters(mention, claim, FALSE, Entered(BeforeFirst(s, first), part), first)
    BY <1>1
  <1> DEFINE t == BeforeFirst(s, first)
  <1>3. s \in PropState /\ Timely(s) /\ Justified(s, mention, claim)
    BY WholeOnEntryOK DEF ReadWhole
  <1>4. first = NoEvent \/ EventOK(first)
    <2>1. scene.cast \in SUBSET Characters
      BY DEF StoryInv, StoryTypeOK, SceneRecord
    <2> QED BY <2>1, EventsAreOK DEF Firsts
  <1>5. Kept(s, t)
    BY <1>3, <1>4, BeforeFirstKeeps
  <1>6. t \in PropState /\ Timely(t) /\ Justified(t, mention, claim)
    BY <1>3, <1>5, KeptTimely, KeptJustified DEF Kept
  <1>7. part \in MaybePart
    BY DEF StoryInv, StoryTypeOK, MaybePart
  <1>8. PointOK(Entered(t, part), mention, claim)
    <2> HIDE DEF t
    <2> QED BY <1>6, <1>7 DEF PointOK, Point, Entered, Agreed, SameState, MaybeProp
  <1> QED BY <1>2, <1>8, EntersOK DEF ReadWhole, Mentions

LEMMA ReadPartOK ==
  ASSUME StoryInv, ReadFragment \/ ReadAbsent
  PROVE  StoryInv'
  <1>1. PICK piece \in MaybePart, mention \in {"fragment", "absent"}, shown \in BOOLEAN,
             first \in Firsts :
          Enters(mention, "", shown, Entered(Missing, piece), first)
    <2>1. part \in MaybePart /\ Fragments \subseteq PartState
      BY FragmentsTyped DEF StoryInv, StoryTypeOK, MaybePart
    <2>2. CASE ReadFragment
      <3>1. PICK found \in Fragments, first \in Firsts :
              Enters("fragment", "", FALSE,
                     Entered(Missing, IF part = Missing THEN found
                                      ELSE Refined(part, found)), first)
        BY <2>2 DEF ReadFragment
      <3>2. (IF part = Missing THEN found ELSE Refined(part, found)) \in MaybePart
        BY <2>1, RefinedTyped DEF MaybePart
      <3> QED BY <3>1, <3>2
    <2>3. CASE ReadAbsent
      BY <2>1, <2>3 DEF ReadAbsent
    <2> QED BY <2>2, <2>3
  <1>2. PointOK(Entered(Missing, piece), mention, "")
    BY DEF PointOK, Point, Entered, Timely, Justified, Agreed, MaybeProp
  <1> QED BY <1>1, <1>2, EntersOK DEF ReadFragment, ReadAbsent, Mentions

LEMMA ReadNothingOK ==
  ASSUME StoryInv, ReadNothing
  PROVE  StoryInv'
  <1> DEFINE s == IF Carried = Missing THEN Missing ELSE [Carried EXCEPT !.visible = FALSE]
  <1>1. pc = "read" /\ (\E shown \in BOOLEAN : Enters("none", "", shown, Entered(s, part), NoEvent))
    BY DEF ReadNothing
  <1>2. /\ s \in MaybeProp /\ Timely(s) /\ Justified(s, "none", "")
        /\ s # Missing => ~s.visible
    <2>1. CASE Carried = Missing
      BY <2>1 DEF MaybeProp, Timely, Justified
    <2>2. CASE Carried # Missing
      <3>1. Carried \in PropState /\ Timely(Carried) /\ Justified(Carried, "none", "")
        BY <1>1, <2>2, CarriedOK
      <3>2. Kept(Carried, s) /\ ~s.visible
        BY <2>2, <3>1 DEF Kept, PropState
      <3> QED BY <3>1, <3>2, KeptTimely, KeptJustified DEF Kept, MaybeProp
    <2> QED BY <2>1, <2>2
  <1>3. part \in MaybePart
    BY DEF StoryInv, StoryTypeOK, MaybePart
  <1> HIDE DEF s
  <1>4. PointOK(Entered(s, part), "none", "")
    BY <1>2, <1>3 DEF PointOK, Point, Entered, Agreed
  <1>5. NoEvent \in Firsts /\ Entered(s, part).prop = s
        /\ Entered(s, part).replay = s /\ Entered(s, part).blocked = {}
    BY DEF Firsts, Entered
  <1> HIDE DEF Entered
  <1> QED BY <1>1, <1>2, <1>4, <1>5, EntersOK DEF Mentions


(***************************************************************************)
(* The other steps.                                                        *)
(***************************************************************************)
LEMMA HappensOK ==
  ASSUME StoryInv, Happens
  PROVE  StoryInv'
  <1>1. PICK event \in EventsOf(scene.cast) :
          \E to \in Outcomes(Now, event) : Becomes(to)
    BY DEF Happens, Now
  <1>2. PICK to \in Outcomes(Now, event) : Becomes(to)
    BY <1>1
  <1>3. PICK mention, claim : mention = scene.mention /\ claim = scene.claim
    OBVIOUS
  <1>4. /\ pc = "events" /\ scene.acted /\ left \in 1..MaxEvents /\ left' = left - 1
        /\ UNCHANGED <<pc, n, scene, ledger>>
    <2>1. MaxEvents \in Nat /\ left \in 0..MaxEvents
      BY StoryAssumption DEF StoryInv, StoryTypeOK
    <2> QED BY <2>1 DEF Happens
  <1>5. EventOK(event)
    <2>1. scene.cast \in SUBSET Characters
      BY DEF StoryInv, StoryTypeOK, SceneRecord
    <2> QED BY <2>1, EventsAreOK
  <1>6. scene.mention \in Mentions \ {"none"}
    BY <1>4 DEF StoryInv, StoryTypeOK, SceneRecord, UnsaidOK
  <1>7. PointOK(to, mention, claim)
    BY <1>2, <1>3, <1>4, <1>5, <1>6, EventKeepsPoint DEF StoryInv
  <1>8. to \in Point
    BY <1>7 DEF PointOK
  <1>9. Now' = to
    BY <1>2, <1>8 DEF Now, Becomes, Point
  <1>10. PointOK(to, mention, claim)'
    BY <1>4, <1>7 DEF PointOK, Timely, Justified, Agreed
  <1>11. StoryTypeOK'
    <2>1. MaxEvents \in Nat
      BY StoryAssumption
    <2>2. left' \in 0..MaxEvents
      BY <1>4, <2>1
    <2>3. prop' \in MaybeProp /\ replay' \in MaybeProp /\ part' \in MaybePart
      BY <1>2, <1>8 DEF Becomes, Point
    <2> QED BY <1>4, <2>2, <2>3 DEF StoryInv, StoryTypeOK, MaybeProp, MaybePart
  <1>12. PointOK(Now, scene.mention, scene.claim)'
    BY <1>3, <1>4, <1>9, <1>10
  <1>13. SceneOK' /\ FlashbackIsApart' /\ BetweenOK' /\ UnsaidOK'
    BY <1>4, <1>6 DEF StoryInv, SceneOK, FlashbackIsApart, BetweenOK, UnsaidOK
  <1> QED BY <1>11, <1>12, <1>13 DEF StoryInv

LEMMA CloseOK ==
  ASSUME StoryInv, Close
  PROVE  StoryInv'
  <1>1. /\ pc = "events" /\ pc' = "heading" /\ n' = n + 1 /\ prop' = prop /\ left' \in {left, 0}
        /\ replay' = Missing
        /\ ledger' = IF scene.branch = "present" /\ prop # Missing /\ prop.whole
                     THEN prop ELSE ledger
    BY DEF Close
  <1>2. /\ scene' \in SceneRecord /\ scene'.branch = scene.branch /\ scene'.bare = scene.bare
    <2>1. scene \in SceneRecord
      BY DEF StoryInv, StoryTypeOK
    <2>2. scene' = [scene EXCEPT !.direct = FALSE, !.continuous = FALSE, !.sameCast = FALSE,
                                 !.anchored = FALSE, !.mention = "none", !.claim = "",
                                 !.acted = FALSE, !.shown = FALSE]
      BY DEF Close
    <2> QED BY <2>1, <2>2 DEF SceneRecord, Mentions
  <1>3. Timely(prop)
    BY <1>1 DEF StoryInv, PointOK, Now
  <1>4. part' \in MaybePart
    <2>1. CASE scene.mention = "both" /\ part # Missing
      <3>1. PICK found \in Fragments : part' = Refined(part, found)
        BY <2>1 DEF Close
      <3> QED BY <2>1, <3>1, FragmentsTyped, RefinedTyped
             DEF StoryInv, StoryTypeOK, MaybePart
    <2>2. CASE ~(scene.mention = "both" /\ part # Missing)
      BY <2>2 DEF Close, StoryInv, StoryTypeOK, MaybePart
    <2> QED BY <2>1, <2>2
  <1>5. n' \in 0..MaxScenes
    <2>1. MaxScenes \in Nat /\ n \in 0..MaxScenes /\ n < MaxScenes
      BY <1>1, StoryAssumption DEF StoryInv, StoryTypeOK, SceneOK
    <2> QED BY <1>1, <2>1
  <1>6. StoryTypeOK'
    <2>1. left' \in 0..MaxEvents
      BY <1>1, StoryAssumption DEF StoryInv, StoryTypeOK
    <2> QED BY <1>1, <1>2, <1>4, <1>5, <2>1 DEF StoryInv, StoryTypeOK, MaybePart
  <1>7. FlashbackIsApart'
    BY <1>1, <1>3 DEF StoryInv, FlashbackIsApart, Timely
  <1>8. BetweenOK'
    BY <1>1, <1>2, <1>3 DEF BetweenOK, Timely
  <1> QED BY <1>1, <1>2, <1>6, <1>7, <1>8 DEF StoryInv, SceneOK

\* A scene goes on directly from one of its own timeline or of a parallel one.
LEMMA HeadingOK ==
  ASSUME StoryInv, Heading
  PROVE  StoryInv'
  <1>1. PICK loc \in Locations, branch \in Branches, bare \in BOOLEAN, said \in BOOLEAN,
             named \in SUBSET Characters :
          \E leaves \in SUBSET (scene.cast \ named) :
            LET direct == Direct(loc, branch, bare, said)
                cast == named \cup (IF direct THEN scene.cast \ leaves ELSE {})
            IN  /\ bare => scene.bare /\ branch = "present" /\ ~said
                /\ leaves = {} \/ direct
                /\ IF direct THEN UNCHANGED <<prop, part>>
                   ELSE prop' = Missing /\ part' = Missing
                /\ scene' = [loc |-> loc, branch |-> branch, bare |-> bare, direct |-> direct,
                             continuous |-> Continuous(loc, branch, bare, said),
                             cast |-> cast, sameCast |-> direct /\ cast = scene.cast,
                             anchored |-> FALSE, mention |-> "none", claim |-> "",
                             acted |-> FALSE, shown |-> FALSE]
    BY DEF Heading
  <1>2. PICK leaves \in SUBSET (scene.cast \ named) :
          LET direct == Direct(loc, branch, bare, said)
              cast == named \cup (IF direct THEN scene.cast \ leaves ELSE {})
          IN  /\ bare => scene.bare /\ branch = "present" /\ ~said
              /\ leaves = {} \/ direct
              /\ IF direct THEN UNCHANGED <<prop, part>>
                 ELSE prop' = Missing /\ part' = Missing
              /\ scene' = [loc |-> loc, branch |-> branch, bare |-> bare, direct |-> direct,
                           continuous |-> Continuous(loc, branch, bare, said),
                           cast |-> cast, sameCast |-> direct /\ cast = scene.cast,
                           anchored |-> FALSE, mention |-> "none", claim |-> "",
                           acted |-> FALSE, shown |-> FALSE]
    BY <1>1
  <1>3. PICK direct \in BOOLEAN : direct = Direct(loc, branch, bare, said)
    BY DEF Direct
  <1>4. PICK continuous \in BOOLEAN : continuous = Continuous(loc, branch, bare, said)
    BY DEF Continuous
  <1>5. PICK cast \in SUBSET Characters :
          cast = named \cup (IF direct THEN scene.cast \ leaves ELSE {})
    BY DEF StoryInv, StoryTypeOK, SceneRecord
  <1>6. /\ bare => scene.bare /\ branch = "present"
        /\ scene' = [loc |-> loc, branch |-> branch, bare |-> bare, direct |-> direct,
                     continuous |-> continuous, cast |-> cast,
                     sameCast |-> direct /\ cast = scene.cast, anchored |-> FALSE,
                     mention |-> "none", claim |-> "", acted |-> FALSE, shown |-> FALSE]
        /\ IF direct THEN UNCHANGED <<prop, part>> ELSE prop' = Missing /\ part' = Missing
    BY <1>2, <1>3, <1>4, <1>5
  <1>7. PICK same \in BOOLEAN : same = (direct /\ cast = scene.cast)
    OBVIOUS
  <1>8. /\ scene' \in SceneRecord /\ scene'.branch = branch /\ scene'.bare = bare
        /\ scene'.direct = direct
    BY <1>6, <1>7 DEF SceneRecord, Mentions
  <1>9. /\ pc = "heading" /\ pc' = "read" /\ n < MaxScenes
        /\ UNCHANGED <<n, replay, left, blocked, ledger>>
    BY DEF Heading, gate
  <1>10. /\ Timely(prop)
         /\ scene.branch = "present" /\ prop # Missing /\ prop.whole => ledger = prop
    BY <1>9 DEF StoryInv, BetweenOK
  <1>11. direct => \/ scene.branch = "present" /\ branch = "present"
                   \/ branch # "parallel" /\ (branch = "flashback") = (scene.branch = "flashback")
    BY <1>3, <1>6 DEF Direct, SameTimeline, StoryInv, SceneOK
  <1>12. BetweenOK'
    <2>1. SUFFICES ASSUME direct, prop # Missing
                   PROVE  /\ prop.from = "flashback" => branch = "flashback"
                          /\ branch = "parallel" => prop.from = "parallel"
                          /\ branch = "present" /\ prop.whole =>
                               ledger = prop \/ prop.from = "parallel"
      BY <1>6, <1>8, <1>9 DEF BetweenOK, Timely
    <2>2. scene.branch \in Branches
      BY DEF StoryInv, StoryTypeOK, SceneRecord
    <2> QED BY <1>10, <1>11, <2>1, <2>2 DEF Timely, Branches
  <1>13. StoryTypeOK' /\ FlashbackIsApart'
    BY <1>6, <1>8, <1>9 DEF StoryInv, StoryTypeOK, FlashbackIsApart
  <1>14. SceneOK'
    BY <1>6, <1>8, <1>9 DEF SceneOK
  <1> QED BY <1>9, <1>12, <1>13, <1>14 DEF StoryInv

LEMMA StoryInvStep ==
  ASSUME StoryInv, [Next]_vars
  PROVE  StoryInv'
  <1>1. CASE UNCHANGED vars
    BY <1>1 DEF vars, truth, gate, StoryInv, StoryTypeOK, SceneOK, FlashbackIsApart, BetweenOK,
                PointOK, Timely, Justified, Agreed, UnsaidOK, Now
  <1> QED BY <1>1, HeadingOK, ReadWholeOK, ReadPartOK, ReadNothingOK, HappensOK, CloseOK DEF Next

THEOREM StoryInvariant == Spec => []StoryInv
  <1>1. StoryInv /\ [Next]_vars => StoryInv'
    BY StoryInvStep
  <1> QED BY <1>1, StoryInvInit, PTL DEF Spec

(***************************************************************************)
(* The theorems.                                                           *)
(***************************************************************************)
\* What a prop goes through in a flashback never becomes its state today, by
\* the ledger of the present or by a scene that goes on from another
\* (source_truth.py, compile_prop_lifecycle and is_direct_continuation).
THEOREM FlashbackStaysApart == Spec => []FlashbackIsApart
  BY StoryInvariant, PTL DEF StoryInv

\* Whatever a story tells, its damaged prop is made whole only by the text, by
\* a parallel timeline, or in the two kinds of scenes the property names
\* (source_truth.py, compile_prop_lifecycle and _apply_event).
THEOREM DamageStays == Spec => TornStaysTorn
  <1>1. ASSUME StoryInv, [Next]_vars
        PROVE  [ledger # Missing /\ ledger.cond # "intact" /\ ledger'.cond = "intact" =>
                  \/ scene.claim = "intact"
                  \/ ledger'.from = "parallel"
                  \/ scene.mention \in {"absent", "fragment"}]_ledger
    <2>1. SUFFICES ASSUME ledger' # ledger
                   PROVE  ledger # Missing /\ ledger.cond # "intact" /\ ledger'.cond = "intact" =>
                            \/ scene.claim = "intact"
                            \/ ledger'.from = "parallel"
                            \/ scene.mention \in {"absent", "fragment"}
      OBVIOUS
    <2>2. Close
      BY <1>1, <2>1 DEF Next, vars, truth, gate, Heading, ReadWhole, ReadFragment, ReadAbsent,
                        ReadNothing, Happens, Enters
    <2>3. pc = "events" /\ ledger' = prop /\ scene.branch = "present" /\ prop # Missing
          /\ prop.whole
      BY <2>1, <2>2 DEF Close
    <2>4. Justified(prop, scene.mention, scene.claim)
      BY <1>1, <2>3 DEF StoryInv, PointOK, Now
    <2> QED BY <2>3, <2>4 DEF Justified
  <1> QED BY <1>1, StoryInvariant, PTL DEF Spec, TornStaysTorn

\* The gate that was written apart from the compiler never contradicts it about
\* a prop that the scene names as a whole, or does not name: its replay of the
\* events comes to the same end and finds a state that they begin with, and the
\* prop is in no picture that nothing shows it in.  What else the gate may refuse
\* such a scene for is named with the property
\* (source_truth.py, compile_prop_lifecycle; semantic_readiness.py,
\* _prop_lifecycle_blockers and _physical_presence_blockers).
THEOREM CompilerAndGateAgree == Spec => []GateAgrees
  <1>1. ASSUME StoryInv
        PROVE  GateAgrees
    <2>1. SUFFICES ASSUME pc = "events", scene.mention \in {"none", "whole", "both"}
                   PROVE  Verdict \cap {"replay", "stream", "presence"} = {}
      BY DEF GateAgrees
    <2>2. PointOK(Now, scene.mention, scene.claim) /\ UnsaidOK
      BY <1>1, <2>1 DEF StoryInv
    <2>3. CASE scene.mention = "none"
      <3>1. /\ blocked = {} /\ prop # Missing => prop = replay /\ ~prop.visible
            /\ prop = Missing => replay = Missing
        BY <2>2, <2>3 DEF UnsaidOK
      <3>2. blocked = {}
        BY <2>2, <2>3 DEF UnsaidOK
      <3> QED BY <2>3, <3>1, <3>2 DEF Verdict, SameState
    <2>4. CASE scene.mention \in {"whole", "both"}
      <3>1. /\ prop \in PropState /\ replay \in PropState /\ SameState(prop, replay)
            /\ blocked \subseteq {"torn", "giver"}
        BY <2>2, <2>4 DEF PointOK, Agreed, Now
      <3> QED BY <2>4, <3>1 DEF Verdict
    <2> QED BY <2>1, <2>3, <2>4
  <1>2. StoryInv => GateAgrees
    BY <1>1
  <1> QED BY <1>2, StoryInvariant, PTL
=============================================================================

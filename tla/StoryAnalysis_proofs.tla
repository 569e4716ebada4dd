------------------------- MODULE StoryAnalysis_proofs -------------------------
(***************************************************************************)
(* Safety of the analyses, for every length of the draft, every size of    *)
(* the batches, and every number of jobs, versions and restarts.           *)
(*                                                                         *)
(* What a task knows is what the file will have: the rows it was told are  *)
(* committed are among those it knows, and enriched_scenes is the row of   *)
(* scene i at place i, up to the current batch.  The batches may shrink    *)
(* and be passed as a checkpoint allows; they go through the draft without *)
(* a gap, which is what the lemmas on Passing and Done say.                *)
(***************************************************************************)
EXTENDS StoryAnalysis, FiniteSetTheorems, SequenceTheorems, WellFoundedInduction, TLAPS

\* The checkpoint is not mixed: what cannot be read is removed, or there is
\* one version of the program.
Trusted == ~Held \/ \E b \in Builds : Builds = {b}

\* A row a task may rely on, of the program that wrote it.
Good(b) == b \in Builds /\ (Trusted => b = build)

RowsGood(rows) == \A s \in Scenes : rows[s] = 0 \/ Good(rows[s])

Saving == {"savebible", "saverow", "saverepair", "savebatch"}
Early == {"none", "closing", "queued", "catalog", "load", "discard"}

WriteRecord == [chunks : 0..Chunks, rows : Rows]

\* A task that has seen the checkpoint, and a thread that will write it.
Past(j) == pc[j] \notin Early \/ write[j] \in WriteRecord

\* enriched_scenes has the scenes before the current batch, each in its place.
InPlace(q, n) ==
  /\ q \in Seq(Scenes \X Builds) /\ Len(q) = n
  /\ \A i \in 1..n : q[i][1] = i /\ Good(q[i][2])

\* What a task knows, and what of it is committed.
MemoryOK(j) ==
  /\ RowsGood(known[j]) /\ acked[j] \subseteq RowSet(known[j])
  /\ pc[j] \in Early => chunks[j] = 0
  /\ pc[j] \in Early \cup {"bible", "savebible"} => batch[j].first = 1
  /\ pc[j] = "bible" => chunks[j] < Chunks
  /\ write[j] = NoFile => pc[j] \in {"none", "closing"}
  /\ write[j] \in WriteRecord => RowsGood(write[j].rows)
  /\ write[j] \in WriteRecord /\ pc[j] \in Saving => RowSet(write[j].rows) \subseteq RowSet(known[j])
  /\ pc[j] = "savebatch" => Pending(known[j], batch[j]) = {}
  /\ pc[j] \in {"merge", "clear"} => batch[j].first = N + 1
  /\ pc[j] = "clear" => published[j] # NoProject
  /\ InPlace(enriched[j], batch[j].first - 1)

\* What a task asks for.
AskOK(j) ==
  pc[j] \in {"batch", "repair"} =>
    /\ ask[j].scenes # {} /\ ask[j].scenes \cap RowSet(known[j]) = {}
    /\ ask[j].after = Min(ask[j].scenes) - 1

\* The file: whole, and of this program once a task has seen it.
FileOK ==
  /\ file # NoFile => \A s \in Scenes : file.rows[s] = 0 \/ (Trusted => file.rows[s] = file.shape)
  /\ Trusted /\ (\E j \in Jobs : Past(j)) => file = NoFile \/ file.shape = build

\* The registry.
ListedOK ==
  /\ Cardinality(listed) <= MaxJobs
  /\ \A j \in Jobs :
       /\ j \in listed /\ status[j] \notin Terminal <=> pc[j] \notin {"none", "closing"}
       /\ j > starts => pc[j] = "none" /\ write[j] = NoWrite /\ j \notin listed

AnalysisInv ==
  /\ AnalysisTypeOK /\ FileOK /\ ListedOK
  /\ \A j \in Jobs : MemoryOK(j) /\ AskOK(j)

(***************************************************************************)
(* The operators.                                                          *)
(***************************************************************************)
LEMMA Bounds ==
  /\ {N, Chunks, BatchSize, Attempts, MaxJobs, MaxStarts} \subseteq Nat \ {0}
  /\ {Online, MaxCrashes} \subseteq Nat /\ Builds \subseteq Nat \ {0} /\ Builds # {}
  /\ N \in Nat \ {0} /\ Chunks \in Nat \ {0} /\ BatchSize \in Nat \ {0} /\ Attempts \in Nat \ {0}
  /\ MaxJobs \in Nat \ {0} /\ MaxStarts \in Nat \ {0} /\ MaxCrashes \in Nat
  BY AnalysisAssumption

\* No write is the mark of none, or of a removal.
LEMMA Marks == NoWrite \notin WriteRecord /\ NoFile \notin WriteRecord /\ NoWrite # NoFile
  BY NothingAssumption DEF WriteRecord

\* Min is a choice: in a set of naturals there is something to choose.
LEMMA MinMember ==
  ASSUME NEW S \in SUBSET Nat, S # {}
  PROVE  Min(S) \in S /\ \A x \in S : Min(S) <= x
  <1> DEFINE R == OpToRel(<, Nat)
  <1>1. IsWellFoundedOn(R, Nat)
    BY NatLessThanWellFounded
  <1>2. \A i, j \in Nat : i < j => <<i, j>> \in R
    BY DEF OpToRel
  <1> HIDE DEF R
  <1>3. PICK k \in S : \A j \in S : <<j, k>> \notin R
    BY <1>1, WFMin
  <1>4. \A x \in S : k <= x
    <2> TAKE x \in S
    <2>1. x \in Nat /\ k \in Nat /\ ~(x < k)
      BY <1>2, <1>3
    <2> QED BY <2>1
  <1> QED BY <1>3, <1>4 DEF Min

LEMMA MinPair ==
  ASSUME NEW a \in Nat, NEW b \in Nat
  PROVE  /\ Min({a, b}) \in {a, b} /\ Min({a, b}) <= a /\ Min({a, b}) <= b
         /\ Min({a}) = a
  <1>1. Min({a, b}) \in {a, b} /\ \A x \in {a, b} : Min({a, b}) <= x
    BY MinMember
  <1> QED BY <1>1, MinMember

LEMMA IntervalMin ==
  ASSUME NEW a \in Nat, NEW b \in Nat, a <= b
  PROVE  Min(a..b) = a
  <1>1. a..b \in SUBSET Nat /\ a..b # {} /\ a \in a..b
    OBVIOUS
  <1>2. Min(a..b) \in a..b /\ Min(a..b) <= a
    BY <1>1, MinMember
  <1> QED BY <1>2

\* Where a batch is, and what is left of it.
Batch == [first : 1..(N + 1), size : 1..BatchSize]

LEMMA BatchIn ==
  ASSUME NEW b \in Batch
  PROVE  /\ b.first \in 1..(N + 1) /\ b.size \in 1..BatchSize
         /\ Last(b) \in Nat /\ Last(b) <= N /\ Last(b) >= b.first - 1
         /\ Last(b) <= b.first + b.size - 1
         /\ (Last(b) = N \/ Last(b) = b.first + b.size - 1)
         /\ BatchScenes(b) \subseteq Scenes
  <1>1. b.first \in 1..(N + 1) /\ b.size \in 1..BatchSize /\ b.first + b.size - 1 \in Nat
    BY Bounds DEF Batch
  <1>2. /\ Last(b) \in {b.first + b.size - 1, N} /\ Last(b) <= b.first + b.size - 1
        /\ Last(b) <= N
    BY <1>1, Bounds, MinPair DEF Last
  <1> QED BY <1>1, <1>2, Bounds DEF BatchScenes, Scenes

\* The anchor of what is left of a batch is the scene before it.
LEMMA AnchorBefore ==
  ASSUME NEW b \in Batch, NEW rows \in Rows, Pending(rows, b) # {}
  PROVE  /\ Anchor(rows, b) = Min(Pending(rows, b)) - 1
         /\ Anchor(rows, b) \in 0..N
  <1> DEFINE m == Min(Pending(rows, b))
             H == {b.first - 1} \cup {s \in BatchScenes(b) : b.first..s \subseteq RowSet(rows)}
  <1>1. /\ b.first \in 1..(N + 1) /\ BatchScenes(b) \subseteq Scenes /\ N \in Nat
        /\ BatchScenes(b) = b.first .. Last(b) /\ Last(b) \in Nat
    BY BatchIn, Bounds DEF BatchScenes
  <1>2. Pending(rows, b) = BatchScenes(b) \ RowSet(rows) /\ Pending(rows, b) \in SUBSET Nat
    BY <1>1 DEF Pending, Scenes
  <1>3. m \in Pending(rows, b) /\ \A x \in Pending(rows, b) : m <= x
    BY <1>2, MinMember
  <1> HIDE DEF m
  <1>4. m \in Nat /\ m >= b.first /\ m <= N /\ m <= Last(b) /\ m \notin RowSet(rows)
    BY <1>1, <1>2, <1>3 DEF Scenes
  <1>5. m - 1 \in H
    <2>1. CASE m = b.first
      BY <2>1
    <2>2. CASE m # b.first
      <3>1. m - 1 \in BatchScenes(b)
        BY <1>1, <1>4, <2>2
      <3>2. b.first..(m - 1) \subseteq RowSet(rows)
        <4> SUFFICES ASSUME NEW x \in b.first..(m - 1) PROVE x \in RowSet(rows)
          OBVIOUS
        <4>1. x \in BatchScenes(b) /\ ~(m <= x)
          BY <1>1, <1>4
        <4> QED BY <1>2, <1>3, <4>1
      <3> QED BY <3>1, <3>2
    <2> QED BY <2>1, <2>2
  <1>6. \A x \in H : m - 1 >= x
    <2> SUFFICES ASSUME NEW x \in H PROVE m - 1 >= x
      OBVIOUS
    <2>1. CASE x = b.first - 1
      BY <1>1, <1>4, <2>1
    <2>2. CASE x \in BatchScenes(b) /\ b.first..x \subseteq RowSet(rows)
      <3>1. x \in Nat
        BY <1>1, <2>2
      <3>2. ~(x >= m)
        BY <1>1, <1>4, <2>2, <3>1
      <3> QED BY <1>4, <3>1, <3>2
    <2> QED BY <2>1, <2>2
  <1>7. H \subseteq Int /\ Anchor(rows, b) = Max(H)
    BY <1>1 DEF Anchor
  <1>8. \A x \in H : (\A y \in H : x >= y) => x = m - 1
    BY <1>4, <1>5, <1>6, <1>7
  <1> HIDE DEF H
  <1>9. Max(H) = m - 1
    BY <1>5, <1>6, <1>8 DEF Max
  <1>10. m >= 1 /\ m <= N /\ m \in Nat /\ N \in Nat
    BY <1>1, <1>4
  <1>11. m - 1 \in 0..N
    BY <1>10
  <1> QED BY <1>7, <1>9, <1>11 DEF m


\* Passing leaves out what is done: the batch it ends at is not done, and
\* every scene it has passed is.
LEMMA PassingGoesOn ==
  ASSUME NEW b \in Batch, NEW rows \in Rows
  PROVE  /\ Passing(rows, b) \in Batch
         /\ Passing(rows, b).first >= b.first
         /\ Passing(rows, b).first > N \/ Pending(rows, Passing(rows, b)) # {}
         /\ b.first .. (Passing(rows, b).first - 1) \subseteq RowSet(rows)
  <1> DEFINE at(i) == [b EXCEPT !.first = Min({@ + i * b.size, N + 1})]
             I == {i \in 0..N : at(i).first > N \/ Pending(rows, at(i)) # {}}
  <1>1. b.first \in 1..(N + 1) /\ b.size \in 1..BatchSize /\ N \in Nat \ {0} /\ b.size \in Nat
    BY Bounds DEF Batch
  <1>2. ASSUME NEW i \in Nat
        PROVE  /\ i * b.size \in Nat
               /\ at(i) \in Batch /\ at(i).size = b.size
               /\ at(i).first \in {b.first + i * b.size, N + 1}
               /\ at(i).first <= b.first + i * b.size /\ at(i).first <= N + 1
               /\ at(i).first >= b.first
    <2>1. i * b.size \in Nat
      BY <1>1
    <2>2. PICK n \in Nat : n = b.first + i * b.size /\ n >= b.first
      BY <1>1, <2>1
    <2>3. Min({n, N + 1}) \in {n, N + 1} /\ Min({n, N + 1}) <= n /\ Min({n, N + 1}) <= N + 1
      <3>1. N + 1 \in Nat
        BY <1>1
      <3> QED BY <2>2, <3>1, MinPair
    <2>4. at(i).first = Min({n, N + 1}) /\ at(i) = [b EXCEPT !.first = Min({n, N + 1})]
      BY <2>2 DEF Batch
    <2>5. at(i) \in Batch /\ at(i).size = b.size
      BY <1>1, <2>2, <2>3, <2>4 DEF Batch
    <2> QED BY <1>1, <2>1, <2>2, <2>3, <2>4, <2>5
  <1> HIDE DEF at
  <1>3. N \in I
    <2>1. N * b.size \in Nat /\ N * b.size >= N
      <3>1. b.size - 1 \in Nat /\ N * b.size = N * (b.size - 1) + N
        BY <1>1
      <3>2. N * (b.size - 1) \in Nat
        BY <1>1, <3>1
      <3> QED BY <1>1, <3>1, <3>2
    <2>2. b.first + N * b.size >= N + 1
      BY <1>1, <2>1
    <2>3. at(N).first > N
      <3>1. /\ at(N).first \in {b.first + N * b.size, N + 1}
            /\ N * b.size \in Nat
        BY <1>1, <1>2
      <3> QED BY <1>1, <2>2, <3>1
    <2> QED BY <1>1, <2>3
  <1>4. I \in SUBSET Nat
    OBVIOUS
  <1> DEFINE m == Min(I)
  <1>5. m \in I /\ \A i \in I : m <= i
    BY <1>3, <1>4, MinMember
  <1>6. Passing(rows, b) = at(m)
    BY DEF Passing, at
  <1>7. m \in 0..N /\ (at(m).first > N \/ Pending(rows, at(m)) # {})
    BY <1>5
  <1>8. \A i \in 0..N : i < m => at(i).first <= N /\ Pending(rows, at(i)) = {}
    <2> TAKE i \in 0..N
    <2> HAVE i < m
    <2>1. i \notin I
      <3>1. i \in Int /\ m \in Int /\ ~(m <= i)
        BY <1>7
      <3> HIDE DEF I, m
      <3> QED BY <1>5, <3>1
    <2>2. ~(at(i).first > N) /\ Pending(rows, at(i)) = {}
      BY <2>1
    <2>3. at(i).first \in Nat
      <3>1. i \in Nat
        OBVIOUS
      <3>2. at(i) \in Batch
        BY <1>2, <3>1
      <3> QED BY <1>1, <3>2 DEF Batch
    <2> QED BY <1>1, <2>2, <2>3
  <1> HIDE DEF I, m
  <1>9. ASSUME NEW s \in b.first .. (at(m).first - 1)
        PROVE  s \in RowSet(rows)
    <2> DEFINE K == {k \in Nat : s < b.first + (k + 1) * b.size}
    <2>1. s \in Nat /\ s >= b.first /\ s <= N /\ m \in Nat /\ s < b.first + m * b.size
      <3>1. m \in Nat
        BY <1>7
      <3>2. /\ at(m).first \in {b.first + m * b.size, N + 1} /\ m * b.size \in Nat
            /\ at(m).first <= b.first + m * b.size /\ at(m).first <= N + 1
        BY <1>2, <3>1
      <3> QED BY <1>1, <3>1, <3>2
    <2>2. m # 0
      BY <1>1, <2>1
    <2>3. m - 1 \in K
      BY <2>1, <2>2
    <2>4. K \in SUBSET Nat /\ K # {}
      BY <2>3
    <2> DEFINE k == Min(K)
    <2>5. k \in K /\ \A i \in K : k <= i
      BY <2>4, MinMember
    <2>6. k \in Nat /\ s < b.first + (k + 1) * b.size /\ k <= m - 1
      BY <2>3, <2>5
    <2>7. k = 0 \/ s >= b.first + k * b.size
      <3>1. ASSUME k # 0 PROVE s >= b.first + k * b.size
        <4>1. k - 1 \in Nat /\ k - 1 \notin K
          <5>1. k - 1 \in Nat /\ k \in Nat /\ ~(k <= k - 1)
            BY <2>6, <3>1
          <5> HIDE DEF K, k
          <5> QED BY <2>5, <5>1
        <4>2. ~(s < b.first + ((k - 1) + 1) * b.size)
          BY <4>1
        <4>3. (k - 1) + 1 = k /\ k * b.size \in Nat
          BY <1>1, <2>6
        <4> HIDE DEF k
        <4>4. ~(s < b.first + k * b.size)
          BY <4>2, <4>3
        <4> QED BY <1>1, <2>1, <4>3, <4>4
      <3> QED BY <3>1
    <2> HIDE DEF K, k
    <2>8. k * b.size \in Nat /\ (k + 1) * b.size = k * b.size + b.size
      <3>1. \A x, y \in Nat : (x + 1) * y = x * y + y /\ x * y \in Nat
        OBVIOUS
      <3> QED BY <1>1, <2>6, <3>1
    <2>9. s >= b.first + k * b.size /\ s <= b.first + k * b.size + b.size - 1
      <3>1. s >= b.first + k * b.size
        <4>1. CASE k = 0
          <5>1. k * b.size = 0
            BY <1>1, <4>1
          <5> QED BY <1>1, <2>1, <5>1
        <4> QED BY <2>7, <4>1
      <3>2. s < b.first + (k * b.size + b.size)
        BY <2>6, <2>8
      <3> QED BY <1>1, <2>1, <2>8, <3>1, <3>2
    <2>10. k \in 0..N /\ k < m
      BY <1>1, <1>7, <2>6
    <2>11. /\ at(k) \in Batch /\ at(k).first <= N /\ at(k).size = b.size
           /\ at(k).first = b.first + k * b.size /\ Pending(rows, at(k)) = {}
      <3>1. /\ at(k) \in Batch /\ at(k).size = b.size
            /\ at(k).first \in {b.first + k * b.size, N + 1}
        BY <1>2, <2>6
      <3>2. at(k).first <= N /\ Pending(rows, at(k)) = {}
        BY <1>8, <2>10
      <3> QED BY <1>1, <3>1, <3>2
    <2>12. Last(at(k)) \in Nat /\ (Last(at(k)) = N \/ Last(at(k)) = at(k).first + b.size - 1)
      BY <2>11, BatchIn
    <2>13. s \in at(k).first .. Last(at(k))
      BY <1>1, <2>1, <2>8, <2>9, <2>11, <2>12
    <2>14. s \in BatchScenes(at(k))
      BY <2>13 DEF BatchScenes
    <2> QED BY <2>11, <2>14 DEF Pending
  <1>10. at(m) \in Batch /\ at(m).first >= b.first
    <2>1. m \in Nat
      BY <1>7
    <2> QED BY <1>2, <2>1
  <1> QED BY <1>6, <1>7, <1>9, <1>10

\* What is appended continues what is there.
LEMMA DoneContinues ==
  ASSUME NEW rows \in Rows, RowsGood(rows), NEW q, NEW n \in 0..N, NEW m \in n..N,
         InPlace(q, n), (n + 1)..m \subseteq RowSet(rows)
  PROVE  InPlace(q \o Done(rows, (n + 1)..m), m)
  <1> DEFINE d == Done(rows, (n + 1)..m)
  <1>1. n \in Nat /\ m \in Nat /\ n <= m /\ m <= N /\ N \in Nat
    BY Bounds
  <1>2. Cardinality((n + 1)..m) = m - n
    <2>1. CASE n = m
      BY <1>1, <2>1, FS_Interval
    <2>2. CASE n < m
      BY <1>1, <2>2, FS_Interval
    <2> QED BY <1>1, <2>1, <2>2
  <1>3. \A i \in 1..(m - n) : /\ d[i] = <<n + i, rows[n + i]>>
                              /\ n + i \in Scenes /\ Good(rows[n + i])
    <2> TAKE i \in 1..(m - n)
    <2>1. n + 1 \in Nat /\ n + 1 <= m
      BY <1>1
    <2>2. Min((n + 1)..m) = n + 1
      BY <1>1, <2>1, IntervalMin
    <2>3. d[i] = <<n + 1 + i - 1, rows[n + 1 + i - 1]>>
      BY <1>2, <2>2 DEF Done
    <2>4. n + 1 + i - 1 = n + i
      BY <1>1
    <2>5. n + i \in (n + 1)..m /\ n + i \in Scenes
      BY <1>1 DEF Scenes
    <2>6. Good(rows[n + i])
      BY <2>5 DEF RowsGood, RowSet
    <2> QED BY <2>3, <2>4, <2>5, <2>6
  <1>4. d \in Seq(Scenes \X Builds) /\ Len(d) = m - n
    <2>1. m - n \in Nat
      BY <1>1
    <2>2. d = [i \in 1..(m - n) |-> d[i]]
      BY <1>2 DEF Done
    <2> HIDE DEF d
    <2>3. ASSUME NEW i \in 1..(m - n)
          PROVE  d[i] \in Scenes \X Builds
      <3>1. d[i] = <<n + i, rows[n + i]>> /\ n + i \in Scenes /\ Good(rows[n + i])
        BY <1>3
      <3>2. rows[n + i] \in Builds
        BY <3>1 DEF Good
      <3> QED BY <3>1, <3>2
    <2>4. d \in [1..(m - n) -> Scenes \X Builds]
      BY <2>2, <2>3
    <2> QED BY <2>1, <2>4
  <1> HIDE DEF d
  <1>5. q \in Seq(Scenes \X Builds) /\ Len(q) = n
        /\ \A i \in 1..n : q[i][1] = i /\ Good(q[i][2])
    BY DEF InPlace
  <1>6. q \o d \in Seq(Scenes \X Builds) /\ Len(q \o d) = m
    BY <1>1, <1>4, <1>5
  <1>7. \A i \in 1..m : (q \o d)[i] = IF i <= n THEN q[i] ELSE d[i - n]
    BY <1>1, <1>4, <1>5
  <1>8. \A i \in 1..m : (q \o d)[i][1] = i /\ Good((q \o d)[i][2])
    <2> TAKE i \in 1..m
    <2>1. CASE i <= n
      BY <1>1, <1>5, <1>7, <2>1
    <2>2. CASE i > n
      <3>1. i - n \in 1..(m - n) /\ n + (i - n) = i /\ ~(i <= n)
        BY <1>1, <2>2
      <3>2. (q \o d)[i] = <<i, rows[i]>> /\ Good(rows[i])
        BY <1>3, <1>7, <3>1
      <3> QED BY <3>2
    <2>3. i <= n \/ i > n
      BY <1>1
    <2> QED BY <2>1, <2>2, <2>3
  <1> QED BY <1>6, <1>8 DEF InPlace, d


(***************************************************************************)
(* Parts of the steps.                                                     *)
(***************************************************************************)
\* A step of j leaves what the other tasks have alone.
Alone(j) ==
  \A i \in Jobs \ {j} :
    /\ pc'[i] = pc[i] /\ chunks'[i] = chunks[i] /\ known'[i] = known[i]
    /\ batch'[i] = batch[i] /\ answer'[i] = answer[i] /\ ask'[i] = ask[i]
    /\ shrink'[i] = shrink[i] /\ enriched'[i] = enriched[i] /\ write'[i] = write[i]
    /\ published'[i] = published[i] /\ acked'[i] = acked[i]

LEMMA NoRowsGood == NoRows \in Rows /\ RowsGood(NoRows) /\ RowSet(NoRows) = {}
  BY Bounds DEF NoRows, Rows, RowsGood, RowSet

LEMMA EmptyInPlace == InPlace(<<>>, 0)
  BY DEF InPlace

LEMMA FirstBatch == [first |-> 1, size |-> BatchSize] \in Batch
  BY Bounds DEF Batch

LEMMA NoAskTyped == NoAsk \in [scenes : SUBSET Scenes, after : 0..N, attempt : 1..Attempts]
  BY Bounds DEF NoAsk

\* Writing selected rows of what is known: nothing else gets into the file.
LEMMA WriteMade ==
  ASSUME AnalysisTypeOK, NEW j \in Jobs, NEW n \in 0..Chunks, NEW rows \in Rows, RowsGood(rows),
         NEW scenes, Writes(j, n, rows, scenes)
  PROVE  /\ write' \in [Jobs -> WriteRecord \cup {NoWrite, NoFile}]
         /\ \A i \in Jobs \ {j} : write'[i] = write[i]
         /\ write'[j] \in WriteRecord /\ write'[j] # NoFile
         /\ RowsGood(write'[j].rows) /\ RowSet(write'[j].rows) \subseteq RowSet(rows)
         /\ RowSet(write'[j].rows) \subseteq scenes
  <1> DEFINE w == [chunks |-> n, rows |-> [s \in Scenes |-> IF s \in scenes THEN rows[s] ELSE 0]]
  <1>1. w \in WriteRecord /\ \A s \in Scenes : w.rows[s] = IF s \in scenes THEN rows[s] ELSE 0
    BY Bounds DEF WriteRecord, Rows
  <1>2. write' = [write EXCEPT ![j] = w] /\ write \in [Jobs -> WriteRecord \cup {NoWrite, NoFile}]
    BY DEF Writes, AnalysisTypeOK, WriteRecord
  <1>3. w # NoFile
    BY <1>1, NothingAssumption DEF WriteRecord
  <1> HIDE DEF w
  <1>4. write'[j] = w
    BY <1>2
  <1> QED BY <1>1, <1>2, <1>3, <1>4 DEF RowsGood, RowSet

\* The loop over the batches goes on.
LEMMA EnterStep ==
  ASSUME AnalysisTypeOK, NEW j \in Jobs, NEW rows \in Rows, RowsGood(rows), NEW from \in Batch,
         NEW done, InPlace(done, from.first - 1), Enter(j, rows, from, done)
  PROVE  /\ pc' \in [Jobs -> PC] /\ pc'[j] \in {"merge", "batch"}
         /\ batch' \in [Jobs -> Batch]
         /\ enriched' \in [Jobs -> Seq(Scenes \X Builds)]
         /\ answer' \in [Jobs -> SUBSET Scenes]
         /\ ask' \in [Jobs -> [scenes : SUBSET Scenes, after : 0..N, attempt : 1..Attempts]]
         /\ shrink' \in [Jobs -> BOOLEAN]
         /\ \A i \in Jobs \ {j} :
              /\ pc'[i] = pc[i] /\ batch'[i] = batch[i] /\ enriched'[i] = enriched[i]
              /\ answer'[i] = answer[i] /\ ask'[i] = ask[i] /\ shrink'[i] = shrink[i]
         /\ InPlace(enriched'[j], batch'[j].first - 1)
         /\ pc'[j] = "merge" => batch'[j].first = N + 1
         /\ pc'[j] = "batch" =>
              /\ ask'[j].scenes # {} /\ ask'[j].scenes \cap RowSet(rows) = {}
              /\ ask'[j].after = Min(ask'[j].scenes) - 1
  <1> DEFINE b == Passing(rows, from)
             q == done \o Done(rows, from.first .. (b.first - 1))
             a == [scenes |-> Pending(rows, b), after |-> Anchor(rows, b), attempt |-> 1]
  <1>1. /\ pc \in [Jobs -> PC] /\ batch \in [Jobs -> Batch]
        /\ enriched \in [Jobs -> Seq(Scenes \X Builds)] /\ answer \in [Jobs -> SUBSET Scenes]
        /\ ask \in [Jobs -> [scenes : SUBSET Scenes, after : 0..N, attempt : 1..Attempts]]
        /\ shrink \in [Jobs -> BOOLEAN]
    BY DEF AnalysisTypeOK, Batch
  <1>2. /\ b \in Batch /\ b.first >= from.first
        /\ b.first > N \/ Pending(rows, b) # {}
        /\ from.first .. (b.first - 1) \subseteq RowSet(rows)
    BY PassingGoesOn
  <1>3. /\ batch' = [batch EXCEPT ![j] = b] /\ enriched' = [enriched EXCEPT ![j] = q]
        /\ answer' = [answer EXCEPT ![j] = {}] /\ shrink' = [shrink EXCEPT ![j] = FALSE]
        /\ IF b.first > N THEN Goes(j, "merge") /\ ask' = [ask EXCEPT ![j] = NoAsk]
           ELSE Goes(j, "batch") /\ ask' = [ask EXCEPT ![j] = a]
    BY DEF Enter
  <1>4. /\ b.first \in 1..(N + 1) /\ from.first \in 1..(N + 1) /\ N \in Nat \ {0}
        /\ BatchScenes(b) \subseteq Scenes
    BY <1>2, BatchIn, Bounds
  <1>5. Pending(rows, b) # {} =>
          /\ a \in [scenes : SUBSET Scenes, after : 0..N, attempt : 1..Attempts]
          /\ a.after = Min(a.scenes) - 1 /\ a.scenes \cap RowSet(rows) = {}
    BY <1>2, <1>4, AnchorBefore, Bounds DEF Pending
  <1>6. InPlace(q, b.first - 1)
    <2> DEFINE n == from.first - 1
               m == b.first - 1
    <2>1. n \in 0..N /\ m \in n..N /\ n + 1 = from.first
      BY <1>2, <1>4
    <2>2. (n + 1)..m \subseteq RowSet(rows) /\ q = done \o Done(rows, (n + 1)..m)
      BY <1>2, <2>1
    <2> HIDE DEF m, b, q
    <2>3. InPlace(done, n)
      OBVIOUS
    <2> HIDE DEF n
    <2>4. InPlace(q, m)
      BY <2>1, <2>2, <2>3, DoneContinues
    <2> QED BY <2>4 DEF m
  <1>7. q \in Seq(Scenes \X Builds)
    BY <1>6 DEF InPlace
  <1> HIDE DEF b, q, a
  <1>8. batch'[j] = b /\ enriched'[j] = q
    BY <1>1, <1>3
  <1>9. CASE b.first > N
    <2>1. b.first = N + 1
      BY <1>4, <1>9
    <2>2. pc' = [pc EXCEPT ![j] = "merge"] /\ ask' = [ask EXCEPT ![j] = NoAsk]
      BY <1>3, <1>9 DEF Goes
    <2> QED BY <1>1, <1>2, <1>3, <1>6, <1>7, <1>8, <2>1, <2>2, NoAskTyped DEF PC
  <1>10. CASE ~(b.first > N)
    <2>1. Pending(rows, b) # {}
      BY <1>2, <1>10
    <2>2. pc' = [pc EXCEPT ![j] = "batch"] /\ ask' = [ask EXCEPT ![j] = a]
      BY <1>3, <1>10 DEF Goes
    <2>3. ask'[j] = a /\ a.scenes # {}
      BY <1>1, <2>1, <2>2 DEF a
    <2> QED BY <1>1, <1>2, <1>3, <1>5, <1>6, <1>7, <1>8, <2>1, <2>2, <2>3 DEF PC, Waiting
  <1> QED BY <1>9, <1>10

\* After an answer or a committed row.
LEMMA ContinueStep ==
  ASSUME AnalysisTypeOK, NEW j \in Jobs, RowsGood(known[j]), NEW left \in SUBSET Scenes,
         Continue(j, left)
  PROVE  /\ pc' \in [Jobs -> PC] /\ pc'[j] \in {"saverow", "repair", "savebatch"}
         /\ chunks' = chunks /\ known' \in [Jobs -> Rows]
         /\ answer' \in [Jobs -> SUBSET Scenes]
         /\ ask' \in [Jobs -> [scenes : SUBSET Scenes, after : 0..N, attempt : 1..Attempts]]
         /\ write' \in [Jobs -> WriteRecord \cup {NoWrite, NoFile}]
         /\ \A i \in Jobs \ {j} :
              /\ pc'[i] = pc[i] /\ known'[i] = known[i] /\ answer'[i] = answer[i]
              /\ ask'[i] = ask[i] /\ write'[i] = write[i]
         /\ RowsGood(known'[j]) /\ RowSet(known[j]) \subseteq RowSet(known'[j])
         /\ write'[j] # NoFile
         /\ write'[j] \in WriteRecord =>
              /\ RowsGood(write'[j].rows) /\ RowSet(write'[j].rows) \subseteq RowSet(known'[j])
         /\ pc'[j] = "savebatch" => Pending(known'[j], batch[j]) = {}
         /\ pc'[j] = "repair" =>
              /\ ask'[j].scenes # {} /\ ask'[j].scenes \cap RowSet(known'[j]) = {}
              /\ ask'[j].after = Min(ask'[j].scenes) - 1
  <1> DEFINE missing == Pending(known[j], batch[j])
  <1>1. /\ pc \in [Jobs -> PC] /\ known \in [Jobs -> Rows] /\ known[j] \in Rows
        /\ answer \in [Jobs -> SUBSET Scenes] /\ chunks[j] \in 0..Chunks /\ batch[j] \in Batch
        /\ ask \in [Jobs -> [scenes : SUBSET Scenes, after : 0..N, attempt : 1..Attempts]]
        /\ write \in [Jobs -> WriteRecord \cup {NoWrite, NoFile}] /\ build \in Builds
    BY DEF AnalysisTypeOK, Batch, WriteRecord
  <1>2. missing \subseteq Scenes
    BY <1>1, BatchIn DEF Pending
  <1>3. CASE \E s \in left :
               /\ known' = [known EXCEPT ![j][s] = build]
               /\ answer' = [answer EXCEPT ![j] = left \ {s}]
               /\ UNCHANGED <<chunks, ask>>
               /\ Writes(j, chunks[j], [known[j] EXCEPT ![s] = build], {s}) /\ Goes(j, "saverow")
    <2>1. PICK s \in left :
               /\ known' = [known EXCEPT ![j][s] = build]
               /\ answer' = [answer EXCEPT ![j] = left \ {s}]
               /\ UNCHANGED <<chunks, ask>>
               /\ Writes(j, chunks[j], [known[j] EXCEPT ![s] = build], {s}) /\ Goes(j, "saverow")
      BY <1>3
    <2> DEFINE rows == [known[j] EXCEPT ![s] = build]
    <2>2. rows \in Rows /\ RowsGood(rows) /\ RowSet(known[j]) \subseteq RowSet(rows)
      BY <1>1, Bounds DEF Rows, RowsGood, RowSet, Good
    <2>3. known' = [known EXCEPT ![j] = rows]
      BY <1>1, <2>1
    <2> HIDE DEF rows
    <2>4. known'[j] = rows /\ known' \in [Jobs -> Rows]
      BY <1>1, <2>2, <2>3
    <2>5. Writes(j, chunks[j], rows, {s})
      BY <2>1 DEF rows
    <2>6. /\ write' \in [Jobs -> WriteRecord \cup {NoWrite, NoFile}]
          /\ \A i \in Jobs \ {j} : write'[i] = write[i]
          /\ write'[j] # NoFile
          /\ RowsGood(write'[j].rows) /\ RowSet(write'[j].rows) \subseteq RowSet(rows)
      BY <1>1, <2>2, <2>5, WriteMade
    <2>7. /\ pc' = [pc EXCEPT ![j] = "saverow"] /\ answer' = [answer EXCEPT ![j] = left \ {s}]
          /\ UNCHANGED <<chunks, ask>>
      BY <2>1 DEF Goes
    <2> QED BY <1>1, <2>2, <2>3, <2>4, <2>6, <2>7 DEF PC, Waiting
  <1>4. CASE /\ left = {} /\ missing # {}
             /\ answer' = [answer EXCEPT ![j] = {}]
             /\ ask' = [ask EXCEPT ![j] = [scenes |-> {Min(missing)},
                                           after |-> Min(missing) - 1, attempt |-> 1]]
             /\ write' = [write EXCEPT ![j] = NoWrite]
             /\ Goes(j, "repair")
             /\ UNCHANGED <<chunks, known>>
    <2> DEFINE m == Min(missing)
               a == [scenes |-> {m}, after |-> m - 1, attempt |-> 1]
    <2>1. missing \in SUBSET Nat
      BY <1>2, Bounds DEF Scenes
    <2>2. m \in missing
      BY <1>4, <2>1, MinMember
    <2> HIDE DEF m
    <2>3. m \in Scenes /\ m \notin RowSet(known[j]) /\ m \in Nat /\ Min({m}) = m
      BY <1>2, <2>1, <2>2, MinPair DEF Pending
    <2>4. /\ a \in [scenes : SUBSET Scenes, after : 0..N, attempt : 1..Attempts]
          /\ a.scenes # {} /\ a.scenes \cap RowSet(known[j]) = {}
          /\ a.after = Min(a.scenes) - 1
      BY <2>3, Bounds DEF Scenes
    <2>5. ask' = [ask EXCEPT ![j] = a] /\ pc' = [pc EXCEPT ![j] = "repair"]
      BY <1>4 DEF m, Goes
    <2> HIDE DEF a, missing
    <2>6. ask'[j] = a /\ write'[j] = NoWrite /\ pc'[j] = "repair"
      BY <1>1, <1>4, <2>5
    <2> QED BY <1>1, <1>4, <2>4, <2>5, <2>6, Marks DEF PC, Waiting
  <1>5. CASE /\ left = {} /\ missing = {}
             /\ UNCHANGED <<chunks, known, answer, ask>>
             /\ Writes(j, chunks[j], known[j], BatchScenes(batch[j])) /\ Goes(j, "savebatch")
    <2>1. /\ write' \in [Jobs -> WriteRecord \cup {NoWrite, NoFile}]
          /\ \A i \in Jobs \ {j} : write'[i] = write[i]
          /\ write'[j] # NoFile
          /\ RowsGood(write'[j].rows) /\ RowSet(write'[j].rows) \subseteq RowSet(known[j])
      BY <1>1, <1>5, WriteMade
    <2>2. pc' = [pc EXCEPT ![j] = "savebatch"]
      BY <1>5 DEF Goes
    <2> QED BY <1>1, <1>5, <2>1, <2>2 DEF PC, Waiting
  <1> QED BY <1>3, <1>4, <1>5 DEF Continue


LEMMA Shapes ==
  AnalysisTypeOK =>
    /\ pc \in [Jobs -> PC] /\ chunks \in [Jobs -> 0..Chunks] /\ known \in [Jobs -> Rows]
    /\ batch \in [Jobs -> Batch] /\ enriched \in [Jobs -> Seq(Scenes \X Builds)]
    /\ published \in [Jobs -> Seq(Scenes \X Builds) \cup {NoProject}]
    /\ write \in [Jobs -> WriteRecord \cup {NoWrite, NoFile}]
    /\ answer \in [Jobs -> SUBSET Scenes] /\ acked \in [Jobs -> SUBSET Scenes]
    /\ ask \in [Jobs -> [scenes : SUBSET Scenes, after : 0..N, attempt : 1..Attempts]]
    /\ shrink \in [Jobs -> BOOLEAN]
  BY DEF AnalysisTypeOK, Batch, WriteRecord

\* What the others have is not touched.
LEMMA OthersKept ==
  ASSUME AnalysisInv, NEW j \in Jobs, Alone(j), build' = build
  PROVE  \A i \in Jobs \ {j} : MemoryOK(i)' /\ AskOK(i)'
  <1> SUFFICES ASSUME NEW i \in Jobs \ {j} PROVE MemoryOK(i)' /\ AskOK(i)'
    OBVIOUS
  <1>1. MemoryOK(i) /\ AskOK(i)
    BY DEF AnalysisInv
  <1>2. /\ pc'[i] = pc[i] /\ chunks'[i] = chunks[i] /\ known'[i] = known[i]
        /\ batch'[i] = batch[i] /\ ask'[i] = ask[i] /\ enriched'[i] = enriched[i]
        /\ write'[i] = write[i] /\ published'[i] = published[i] /\ acked'[i] = acked[i]
    BY DEF Alone
  <1>3. \A rows : RowsGood(rows)' <=> RowsGood(rows)
    BY DEF RowsGood, Good
  <1>4. \A q, n : InPlace(q, n)' <=> InPlace(q, n)
    BY DEF InPlace, Good
  <1>5. MemoryOK(i)'
    BY <1>1, <1>2, <1>3, <1>4 DEF MemoryOK, RowsGood, Good, InPlace
  <1> QED BY <1>1, <1>2, <1>5 DEF AskOK

\* The file as it is, when nobody new relies on it.
LEMMA FileKept ==
  ASSUME AnalysisInv, NEW j \in Jobs, Alone(j), build' = build, file' \in {NoFile, file},
         Past(j)' => Past(j) \/ file' = NoFile \/ file'.shape = build
  PROVE  FileOK'
  <1>1. FileOK
    BY DEF AnalysisInv
  <1>2. \A i \in Jobs \ {j} : Past(i)' => Past(i)
    BY DEF Past, Alone
  <1> QED BY <1>1, <1>2 DEF FileOK

\* A write that commits puts the header and the rows of this program there.
LEMMA FileCommitted ==
  ASSUME AnalysisInv, NEW j \in Jobs, write[j] \in WriteRecord, build' = build,
         file' = Committed(write[j])
  PROVE  FileOK' /\ file' \in File /\ file' # NoFile
  <1>1. /\ FileOK /\ RowsGood(write[j].rows) /\ build \in Builds /\ file \in File
        /\ write[j] \in WriteRecord
    BY Shapes DEF AnalysisInv, MemoryOK, AnalysisTypeOK
  <1>2. Trusted => file = NoFile \/ file.shape = build
    BY <1>1 DEF FileOK, Past
  <1> DEFINE rows == IF file = NoFile THEN write[j].rows ELSE Overlay(file.rows, write[j].rows)
  <1>3. file # NoFile => file.rows \in Rows
    BY <1>1 DEF File
  <1>4. rows \in Rows /\ \A s \in Scenes : rows[s] = 0 \/ (Trusted => rows[s] = build)
    <2>1. CASE file = NoFile
      BY <1>1, <2>1 DEF WriteRecord, RowsGood, Good
    <2>2. CASE file # NoFile
      <3>1. rows = [s \in Scenes |-> IF write[j].rows[s] # 0 THEN write[j].rows[s]
                                     ELSE file.rows[s]]
        BY <2>2 DEF Overlay
      <3>2. rows \in Rows
        BY <1>1, <1>3, <2>2, <3>1 DEF WriteRecord, Rows
      <3>3. \A s \in Scenes : rows[s] = write[j].rows[s] \/ rows[s] = file.rows[s]
        BY <3>1
      <3> HIDE DEF rows
      <3> QED BY <1>1, <1>2, <2>2, <3>2, <3>3 DEF RowsGood, Good, FileOK
    <2> QED BY <2>1, <2>2
  <1>5. file' = [shape |-> build, chunks |-> write[j].chunks, rows |-> rows]
    BY DEF Committed
  <1> HIDE DEF rows
  <1>6. file' \in [shape : Builds, chunks : 0..Chunks, rows : Rows] /\ file'.shape = build
        /\ file'.rows = rows
    BY <1>1, <1>4, <1>5 DEF WriteRecord
  <1> QED BY <1>4, <1>6, NothingAssumption DEF FileOK, File

\* A task goes on: the registry need not know.
LEMMA GoesOn ==
  ASSUME AnalysisInv, NEW j \in Jobs, AnalysisTypeOK', Alone(j),
         UNCHANGED <<listed, world>>,
         status' = status \/ status' = [status EXCEPT ![j] = "running"],
         pc[j] \notin {"none", "closing"}, pc'[j] \notin {"none", "closing"},
         MemoryOK(j)', AskOK(j)', FileOK'
  PROVE  AnalysisInv'
  <1>1. \A i \in Jobs : MemoryOK(i)' /\ AskOK(i)'
    BY OthersKept DEF world
  <1>2. ListedOK'
    <2>1. ListedOK /\ status \in [Jobs -> Status]
      BY DEF AnalysisInv, AnalysisTypeOK
    <2>2. j \in listed /\ status'[j] \notin Terminal /\ ~(j > starts)
      BY <2>1 DEF ListedOK, Terminal
    <2>3. \A i \in Jobs \ {j} : status'[i] = status[i] /\ pc'[i] = pc[i] /\ write'[i] = write[i]
      BY <2>1 DEF Alone
    <2> QED BY <2>1, <2>2, <2>3 DEF ListedOK, world
  <1> QED BY <1>1, <1>2 DEF AnalysisInv

\* A task that has ended has forgotten everything but its thread.
LEMMA EndsStep ==
  ASSUME AnalysisInv, NEW j \in Jobs, NEW s \in Terminal, Ends(j, s),
         pc[j] \notin {"none", "closing"},
         \E w \in {NoWrite, NoFile, write[j]} : write' = [write EXCEPT ![j] = w],
         file' \in {NoFile, file}
  PROVE  AnalysisInv'
  <1>1. AnalysisTypeOK /\ ListedOK /\ MemoryOK(j)
    BY DEF AnalysisInv
  <1>2. AnalysisTypeOK'
    <2>1. /\ chunks' \in [Jobs -> 0..Chunks] /\ known' \in [Jobs -> Rows]
          /\ batch' \in [Jobs -> [first : 1..(N + 1), size : 1..BatchSize]]
      <3>1. 0 \in 0..Chunks
        BY Bounds
      <3> QED BY <1>1, <3>1, Shapes, NoRowsGood, FirstBatch DEF Ends, Forget, Batch
    <2>2. /\ enriched' \in [Jobs -> Seq(Scenes \X Builds)]
          /\ published' \in [Jobs -> Seq(Scenes \X Builds) \cup {NoProject}]
      BY <1>1, Shapes, EmptyInPlace DEF Ends, Forget, InPlace
    <2>3. /\ answer' \in [Jobs -> SUBSET Scenes] /\ acked' \in [Jobs -> SUBSET Scenes]
          /\ ask' \in [Jobs -> [scenes : SUBSET Scenes, after : 0..N, attempt : 1..Attempts]]
          /\ shrink' \in [Jobs -> BOOLEAN]
      BY <1>1, Shapes, NoAskTyped DEF Ends, Forget
    <2>4. status' \in [Jobs -> Status] /\ pc' \in [Jobs -> PC] /\ listed' \subseteq Jobs
      BY <1>1, Shapes DEF Ends, Goes, Status, PC, AnalysisTypeOK
    <2>5. write' \in [Jobs -> [chunks : 0..Chunks, rows : Rows] \cup {NoWrite, NoFile}]
      BY <1>1, Shapes DEF WriteRecord
    <2>6. /\ file' \in File /\ build' \in Builds
          /\ starts' \in 0..MaxStarts /\ crashes' \in 0..MaxCrashes
      BY <1>1 DEF AnalysisTypeOK, File, Ends, world
    <2> QED BY <2>1, <2>2, <2>3, <2>4, <2>5, <2>6 DEF AnalysisTypeOK
  <1>3. Alone(j)
    BY <1>1, Shapes DEF Alone, Ends, Forget, Goes
  <1>4. /\ pc'[j] = "closing" /\ chunks'[j] = 0 /\ known'[j] = NoRows
        /\ batch'[j] = [first |-> 1, size |-> BatchSize] /\ enriched'[j] = <<>>
        /\ acked'[j] = {} /\ write'[j] \in {NoWrite, NoFile, write[j]} /\ build' = build
    BY <1>1, Shapes DEF Ends, Forget, Goes, world
  <1>5. MemoryOK(j)' /\ AskOK(j)'
    <2>1. RowsGood(known[j])'
      BY <1>4, NoRowsGood DEF RowsGood, Good
    <2>2. (write[j] \in WriteRecord => RowsGood(write[j].rows))'
      BY <1>1, <1>4, Marks DEF MemoryOK, RowsGood, Good
    <2>3. InPlace(enriched[j], batch[j].first - 1)'
      BY <1>4, EmptyInPlace DEF InPlace, Good
    <2> QED BY <1>4, <2>1, <2>2, <2>3, NoRowsGood DEF MemoryOK, AskOK, Early, Saving
  <1>6. FileOK'
    <2>1. Past(j)' => Past(j)
      BY <1>4, Marks DEF Past, Early
    <2> QED BY <1>3, <1>4, <2>1, FileKept
  <1>7. ListedOK'
    <2>1. listed' = listed /\ starts' = starts /\ status' = [status EXCEPT ![j] = s]
          /\ status \in [Jobs -> Status]
      BY <1>1 DEF Ends, world, AnalysisTypeOK
    <2> QED BY <1>1, <1>3, <1>4, <2>1 DEF ListedOK, Alone
  <1> QED BY <1>2, <1>3, <1>4, <1>5, <1>6, <1>7, OthersKept DEF AnalysisInv


(***************************************************************************)
(* The steps.                                                              *)
(***************************************************************************)
\* Steps that only move a task on.
LEMMA MovesOn ==
  ASSUME AnalysisInv, NEW j \in Jobs, NEW to \in {"catalog", "load", "discard", "bible"},
         pc[j] \in {"queued", "catalog", "load", "discard"}, Goes(j, to),
         UNCHANGED <<listed, memory, write, world>>,
         status' = status \/ status' = [status EXCEPT ![j] = "running"],
         file' \in {NoFile, file},
         to = "bible" => file' = NoFile \/ Held \/ file'.shape = build
  PROVE  AnalysisInv'
  <1>1. AnalysisTypeOK /\ MemoryOK(j) /\ FileOK
    BY DEF AnalysisInv
  <1>2. AnalysisTypeOK'
    <2>1. pc' \in [Jobs -> PC] /\ status' \in [Jobs -> Status]
      BY <1>1 DEF AnalysisTypeOK, Goes, PC, Waiting, Status
    <2> QED BY <1>1, <2>1 DEF AnalysisTypeOK, memory, world, File
  <1>3. Alone(j) /\ pc'[j] = to /\ UNCHANGED memory
    BY <1>1 DEF Alone, Goes, memory, AnalysisTypeOK
  <1>4. MemoryOK(j)'
    <2>1. RowsGood(known[j])' /\ (write[j] \in WriteRecord => RowsGood(write[j].rows))'
      BY <1>1 DEF MemoryOK, RowsGood, Good, memory, world
    <2>2. InPlace(enriched[j], batch[j].first - 1)'
      BY <1>1 DEF MemoryOK, InPlace, Good, memory, world
    <2>3. chunks'[j] = 0 /\ 0 < Chunks
      BY <1>1, Bounds DEF MemoryOK, Early, memory
    <2> QED BY <1>1, <1>3, <2>1, <2>2, <2>3 DEF MemoryOK, Early, Saving, memory
  <1>5. AskOK(j)'
    BY <1>3 DEF AskOK
  <1>6. FileOK'
    <2>1. build' = build
      BY DEF world
    <2>2. Past(j)' => Past(j) \/ to = "bible"
      BY <1>3 DEF Past, Early
    <2>3. CASE ~(to = "bible" /\ Held)
      BY <1>3, <2>1, <2>2, <2>3, FileKept
    <2>4. CASE to = "bible" /\ Held
      <3>1. Trusted => \E b \in Builds : Builds = {b}
        BY <2>4 DEF Trusted
      <3>2. file' # NoFile => file'.shape \in Builds
        BY <1>2 DEF AnalysisTypeOK, File
      <3>3. build \in Builds
        BY <1>1 DEF AnalysisTypeOK
      <3>4. Trusted => file' = NoFile \/ file'.shape = build
        BY <3>1, <3>2, <3>3
      <3> QED BY <1>1, <2>1, <3>4 DEF FileOK
    <2> QED BY <2>3, <2>4
  <1>7. pc[j] \notin {"none", "closing"} /\ pc'[j] \notin {"none", "closing"}
    BY <1>3
  <1> QED BY <1>2, <1>3, <1>4, <1>5, <1>6, <1>7, GoesOn

LEMMA BeginStep ==
  ASSUME AnalysisInv, NEW j \in Jobs, Run(j) \/ Catalog(j) \/ LoadFails(j) \/ Discard(j)
  PROVE  AnalysisInv'
  <1>1. CASE Run(j)
    BY <1>1, MovesOn DEF Run, store
  <1>2. CASE Catalog(j)
    BY <1>2, MovesOn DEF Catalog, registry, store
  <1>3. CASE LoadFails(j)
    BY <1>3, MovesOn DEF LoadFails, registry, store
  <1>4. CASE Discard(j)
    BY <1>4, MovesOn DEF Discard, registry, Unlinked
  <1> QED BY <1>1, <1>2, <1>3, <1>4

LEMMA EndingSteps ==
  ASSUME AnalysisInv, NEW j \in Jobs,
         \/ RunOffline(j) \/ RequestFails(j) \/ WriteFails(j) \/ MergeRaises(j)
         \/ Clear(j) \/ Cancel(j)
  PROVE  AnalysisInv'
  <1>1. \E s \in Terminal : Ends(j, s)
    BY DEF RunOffline, RequestFails, WriteFails, MergeRaises, Clear, Cancel, Terminal
  <1>2. pc[j] \notin {"none", "closing"}
    BY DEF RunOffline, RequestFails, WriteFails, MergeRaises, Clear, Cancel, Live, Waiting
  <1>3. /\ \E w \in {NoWrite, NoFile, write[j]} : write' = [write EXCEPT ![j] = w]
        /\ file' \in {NoFile, file}
    <2>1. write = [write EXCEPT ![j] = write[j]]
      BY Shapes DEF AnalysisInv
    <2>2. CASE Cancel(j)
      BY <2>1, <2>2 DEF Cancel
    <2>3. CASE WriteFails(j)
      BY <2>3 DEF WriteFails
    <2>4. CASE RunOffline(j) \/ RequestFails(j) \/ MergeRaises(j) \/ Clear(j)
      BY <2>1, <2>4 DEF RunOffline, RequestFails, MergeRaises, Clear, store, Unlinked
    <2> QED BY <2>2, <2>3, <2>4
  <1> QED BY <1>1, <1>2, <1>3, EndsStep

\* The loop over the batches is entered, or goes on.
LEMMA Entered ==
  ASSUME AnalysisInv, NEW j \in Jobs, NEW from \in Batch, NEW done, NEW rows \in Rows,
         InPlace(done, from.first - 1), Enter(j, rows, from, done),
         pc[j] \notin {"none", "closing"}, UNCHANGED <<listed, status, world, published>>,
         /\ chunks' \in [Jobs -> 0..Chunks] /\ known' \in [Jobs -> Rows]
         /\ acked' \in [Jobs -> SUBSET Scenes] /\ write' \in [Jobs -> WriteRecord \cup {NoWrite, NoFile}],
         \A i \in Jobs \ {j} : /\ chunks'[i] = chunks[i] /\ known'[i] = known[i]
                               /\ acked'[i] = acked[i] /\ write'[i] = write[i],
         known'[j] = rows, RowsGood(rows), acked'[j] \subseteq RowSet(rows),
         write'[j] # NoFile, write'[j] \in WriteRecord => RowsGood(write'[j].rows),
         FileOK', file' \in File
  PROVE  AnalysisInv'
  <1>1. AnalysisTypeOK /\ MemoryOK(j) /\ build' = build
    BY DEF AnalysisInv, world
  <1> DEFINE Facts ==
         /\ pc' \in [Jobs -> PC] /\ pc'[j] \in {"merge", "batch"}
         /\ batch' \in [Jobs -> Batch]
         /\ enriched' \in [Jobs -> Seq(Scenes \X Builds)]
         /\ answer' \in [Jobs -> SUBSET Scenes]
         /\ ask' \in [Jobs -> [scenes : SUBSET Scenes, after : 0..N, attempt : 1..Attempts]]
         /\ shrink' \in [Jobs -> BOOLEAN]
         /\ \A i \in Jobs \ {j} :
              /\ pc'[i] = pc[i] /\ batch'[i] = batch[i] /\ enriched'[i] = enriched[i]
              /\ answer'[i] = answer[i] /\ ask'[i] = ask[i] /\ shrink'[i] = shrink[i]
         /\ InPlace(enriched'[j], batch'[j].first - 1)
         /\ pc'[j] = "merge" => batch'[j].first = N + 1
         /\ pc'[j] = "batch" =>
              /\ ask'[j].scenes # {} /\ ask'[j].scenes \cap RowSet(rows) = {}
              /\ ask'[j].after = Min(ask'[j].scenes) - 1
  <1>2. Facts
    BY <1>1, EnterStep
  <1>3. AnalysisTypeOK'
    BY <1>1, <1>2 DEF AnalysisTypeOK, world, Batch, WriteRecord
  <1>4. Alone(j)
    BY <1>2 DEF Alone
  <1>5. RowsGood(known[j])' /\ (write[j] \in WriteRecord => RowsGood(write[j].rows))'
    BY <1>1 DEF RowsGood, Good
  <1>6. InPlace(enriched[j], batch[j].first - 1)'
    BY <1>1, <1>2 DEF InPlace, Good
  <1>7. MemoryOK(j)' /\ AskOK(j)'
    BY <1>2, <1>5, <1>6 DEF MemoryOK, AskOK, Early, Saving
  <1>8. pc'[j] \notin {"none", "closing"}
    BY <1>2
  <1> QED BY <1>3, <1>4, <1>7, <1>8, GoesOn

\* The rows of a file that fits are what the task knows and what is committed.
LEMMA LoadStep ==
  ASSUME AnalysisInv, NEW j \in Jobs, Load(j)
  PROVE  AnalysisInv'
  <1>1. AnalysisTypeOK /\ MemoryOK(j) /\ FileOK /\ pc[j] = "load" /\ file # NoFile
        /\ file.shape = build
    BY DEF AnalysisInv, Load, Compatible
  <1>2. /\ file \in [shape : Builds, chunks : 0..Chunks, rows : Rows]
        /\ file.rows \in Rows /\ file.chunks \in 0..Chunks /\ build \in Builds
    BY <1>1 DEF AnalysisTypeOK, File
  <1>3. RowsGood(file.rows)
    BY <1>1, <1>2, Bounds DEF FileOK, RowsGood, Good, Rows
  <1>4. /\ chunks' = [chunks EXCEPT ![j] = file.chunks]
        /\ known' = [known EXCEPT ![j] = file.rows]
        /\ acked' = [acked EXCEPT ![j] = RowSet(file.rows)]
        /\ UNCHANGED <<listed, status, write, file, world, published>>
    BY DEF Load, registry, store
  <1>5. /\ chunks' \in [Jobs -> 0..Chunks] /\ known' \in [Jobs -> Rows]
        /\ acked' \in [Jobs -> SUBSET Scenes] /\ known'[j] = file.rows
        /\ chunks'[j] = file.chunks /\ acked'[j] = RowSet(file.rows)
        /\ \A i \in Jobs \ {j} : /\ chunks'[i] = chunks[i] /\ known'[i] = known[i]
                                 /\ acked'[i] = acked[i]
    BY <1>1, <1>2, <1>4, Shapes DEF RowSet
  <1>6. RowsGood(known[j])' /\ (write[j] \in WriteRecord => RowsGood(write[j].rows))'
    BY <1>1, <1>3, <1>4, <1>5 DEF MemoryOK, RowsGood, Good, world
  <1>7. FileOK'
    BY <1>1, <1>4 DEF FileOK, world
  <1>8. CASE file.chunks < Chunks
    <2>1. Goes(j, "bible") /\ UNCHANGED <<batch, answer, ask, shrink, enriched>>
      BY <1>8 DEF Load
    <2>2. pc' \in [Jobs -> PC] /\ pc'[j] = "bible" /\ \A i \in Jobs \ {j} : pc'[i] = pc[i]
      BY <1>1, <2>1, Shapes DEF Goes, PC, Waiting
    <2>3. AnalysisTypeOK'
      BY <1>1, <1>4, <1>5, <2>1, <2>2 DEF AnalysisTypeOK, world
    <2>4. Alone(j)
      BY <1>4, <1>5, <2>1, <2>2 DEF Alone
    <2>5. InPlace(enriched[j], batch[j].first - 1)'
      BY <1>1, <1>4, <2>1 DEF MemoryOK, InPlace, Good, world
    <2>6. MemoryOK(j)' /\ AskOK(j)'
      <3>1. batch'[j].first = 1
        BY <1>1, <2>1 DEF MemoryOK, Early
      <3>2. write'[j] # NoFile
        BY <1>1, <1>4 DEF MemoryOK
      <3> QED BY <1>4, <1>5, <1>6, <1>8, <2>2, <2>5, <3>1, <3>2 DEF MemoryOK, AskOK, Early, Saving
    <2> QED BY <1>1, <1>4, <1>7, <2>2, <2>3, <2>4, <2>6, GoesOn
  <1>9. CASE ~(file.chunks < Chunks)
    <2>1. Enter(j, file.rows, batch[j], <<>>)
      BY <1>9 DEF Load
    <2>2. batch[j] \in Batch
      BY <1>1, Shapes
    <2>3. InPlace(<<>>, batch[j].first - 1)
      <3>1. batch[j].first = 1
        BY <1>1 DEF MemoryOK, Early
      <3> QED BY <3>1, EmptyInPlace
    <2>4. write' = write /\ write' \in [Jobs -> WriteRecord \cup {NoWrite, NoFile}]
      BY <1>1, <1>4, Shapes
    <2>5. /\ write'[j] # NoFile
          /\ write'[j] \in WriteRecord => RowsGood(write'[j].rows)
          /\ UNCHANGED <<listed, status, world, published>> /\ file' \in File
      BY <1>1, <1>4, <2>4 DEF MemoryOK, AnalysisTypeOK
    <2>6. pc[j] \notin {"none", "closing"}
      BY <1>1
    <2> QED BY <1>2, <1>3, <1>5, <1>7, <2>1, <2>2, <2>3, <2>4, <2>5, <2>6, Entered
  <1> QED BY <1>8, <1>9


LEMMA BibleStep ==
  ASSUME AnalysisInv, NEW j \in Jobs, BibleAnswer(j)
  PROVE  AnalysisInv'
  <1>1. AnalysisTypeOK /\ MemoryOK(j) /\ pc[j] = "bible"
    BY DEF AnalysisInv, BibleAnswer
  <1>2. PICK n \in 0..Chunks : n = chunks[j] + 1
    <2>1. chunks[j] \in 0..Chunks /\ chunks[j] < Chunks
      BY <1>1, Shapes DEF MemoryOK
    <2> QED BY <2>1, Bounds
  <1>3. /\ chunks' = [chunks EXCEPT ![j] = n] /\ Writes(j, n, NoRows, {})
        /\ pc' = [pc EXCEPT ![j] = "savebible"]
        /\ UNCHANGED <<listed, status, file, world, known, batch, answer, ask, shrink, enriched,
                       published, acked>>
    BY <1>2 DEF BibleAnswer, Goes, registry
  <1>4. /\ write' \in [Jobs -> WriteRecord \cup {NoWrite, NoFile}]
        /\ \A i \in Jobs \ {j} : write'[i] = write[i]
        /\ write'[j] # NoFile
        /\ RowsGood(write'[j].rows) /\ RowSet(write'[j].rows) = {}
    BY <1>1, <1>3, NoRowsGood, WriteMade
  <1>5. AnalysisTypeOK'
    BY <1>1, <1>3, <1>4 DEF AnalysisTypeOK, world, WriteRecord, PC, Waiting
  <1>6. Alone(j) /\ pc'[j] = "savebible"
    BY <1>1, <1>3, <1>4, Shapes DEF Alone
  <1>7. MemoryOK(j)' /\ AskOK(j)'
    <2>1. RowsGood(known[j])' /\ RowsGood(write[j].rows)'
      BY <1>1, <1>3, <1>4 DEF MemoryOK, RowsGood, Good, world
    <2>2. InPlace(enriched[j], batch[j].first - 1)'
      BY <1>1, <1>3 DEF MemoryOK, InPlace, Good, world
    <2> QED BY <1>1, <1>3, <1>4, <1>6, <2>1, <2>2 DEF MemoryOK, AskOK, Early, Saving
  <1>8. FileOK'
    BY <1>1, <1>3, <1>6, FileKept DEF world, Past, Early
  <1> QED BY <1>1, <1>3, <1>5, <1>6, <1>7, <1>8, GoesOn

\* After an answer or a committed row, whatever was committed meanwhile.
LEMMA Continued ==
  ASSUME AnalysisInv, NEW j \in Jobs, NEW left \in SUBSET Scenes, Continue(j, left),
         pc[j] \notin Early, UNCHANGED <<listed, status, world, batch, enriched, published>>,
         shrink' \in [Jobs -> BOOLEAN], \A i \in Jobs \ {j} : shrink'[i] = shrink[i],
         acked' \in [Jobs -> SUBSET Scenes], \A i \in Jobs \ {j} : acked'[i] = acked[i],
         acked'[j] \subseteq RowSet(known[j]), FileOK', file' \in File
  PROVE  AnalysisInv'
  <1>1. AnalysisTypeOK /\ MemoryOK(j) /\ build' = build /\ RowsGood(known[j])
    BY DEF AnalysisInv, world, MemoryOK
  <1> DEFINE Facts ==
         /\ pc' \in [Jobs -> PC] /\ pc'[j] \in {"saverow", "repair", "savebatch"}
         /\ chunks' = chunks /\ known' \in [Jobs -> Rows]
         /\ answer' \in [Jobs -> SUBSET Scenes]
         /\ ask' \in [Jobs -> [scenes : SUBSET Scenes, after : 0..N, attempt : 1..Attempts]]
         /\ write' \in [Jobs -> WriteRecord \cup {NoWrite, NoFile}]
         /\ \A i \in Jobs \ {j} :
              /\ pc'[i] = pc[i] /\ known'[i] = known[i] /\ answer'[i] = answer[i]
              /\ ask'[i] = ask[i] /\ write'[i] = write[i]
         /\ RowsGood(known'[j]) /\ RowSet(known[j]) \subseteq RowSet(known'[j])
         /\ write'[j] # NoFile
         /\ write'[j] \in WriteRecord =>
              /\ RowsGood(write'[j].rows) /\ RowSet(write'[j].rows) \subseteq RowSet(known'[j])
         /\ pc'[j] = "savebatch" => Pending(known'[j], batch[j]) = {}
         /\ pc'[j] = "repair" =>
              /\ ask'[j].scenes # {} /\ ask'[j].scenes \cap RowSet(known'[j]) = {}
              /\ ask'[j].after = Min(ask'[j].scenes) - 1
  <1>2. Facts
    BY <1>1, ContinueStep
  <1>3. AnalysisTypeOK'
    BY <1>1, <1>2 DEF AnalysisTypeOK, world, WriteRecord
  <1>4. Alone(j)
    BY <1>2 DEF Alone
  <1>5. RowsGood(known[j])' /\ (write[j] \in WriteRecord => RowsGood(write[j].rows))'
    BY <1>1, <1>2 DEF RowsGood, Good
  <1>6. InPlace(enriched[j], batch[j].first - 1)'
    BY <1>1 DEF MemoryOK, InPlace, Good
  <1>7. MemoryOK(j)'
    <2>1. /\ acked'[j] \subseteq RowSet(known'[j])
          /\ write'[j] # NoFile
          /\ write'[j] \in WriteRecord => RowSet(write'[j].rows) \subseteq RowSet(known'[j])
      BY <1>2
    <2>2. /\ pc'[j] \in {"saverow", "repair", "savebatch"}
          /\ pc'[j] = "savebatch" => Pending(known'[j], batch'[j]) = {}
      BY <1>2
    <2> QED BY <1>5, <1>6, <2>1, <2>2 DEF MemoryOK, Early, Saving, Pending, RowSet, BatchScenes, Last
  <1>8. AskOK(j)'
    BY <1>2 DEF AskOK
  <1>9. pc[j] \notin {"none", "closing"} /\ pc'[j] \notin {"none", "closing"}
    BY <1>2 DEF Early
  <1> QED BY <1>3, <1>4, <1>7, <1>8, <1>9, GoesOn

LEMMA BatchStep ==
  ASSUME AnalysisInv, NEW j \in Jobs, BatchAnswer(j)
  PROVE  AnalysisInv'
  <1>1. AnalysisTypeOK /\ MemoryOK(j) /\ pc[j] = "batch" /\ FileOK
    BY DEF AnalysisInv, BatchAnswer
  <1>2. PICK valid \in SUBSET ask[j].scenes :
          /\ \E b : shrink' = [shrink EXCEPT ![j] = b]
          /\ Continue(j, valid)
    BY DEF BatchAnswer
  <1>3. shrink' \in [Jobs -> BOOLEAN] /\ \A i \in Jobs \ {j} : shrink'[i] = shrink[i]
    BY <1>1, Shapes DEF BatchAnswer
  <1>4. valid \in SUBSET Scenes
    BY <1>1, <1>2, Shapes
  <1>5. /\ UNCHANGED <<listed, status, file, world, batch, enriched, published, acked>>
        /\ acked \in [Jobs -> SUBSET Scenes] /\ acked[j] \subseteq RowSet(known[j])
    BY <1>1, Shapes DEF BatchAnswer, registry, MemoryOK
  <1>6. FileOK'
    <2>1. Alone(j) /\ pc'[j] \notin Early
      BY <1>1, <1>2, <1>3, <1>4, <1>5, ContinueStep DEF Alone, MemoryOK, Early
    <2> QED BY <1>1, <1>5, <2>1, FileKept DEF world, Past, Early
  <1> QED BY <1>1, <1>2, <1>3, <1>4, <1>5, <1>6, Continued DEF AnalysisTypeOK, Early

LEMMA RepairSteps ==
  ASSUME AnalysisInv, NEW j \in Jobs, Repaired(j) \/ NotRepaired(j)
  PROVE  AnalysisInv'
  <1>1. AnalysisTypeOK /\ MemoryOK(j) /\ AskOK(j) /\ pc[j] = "repair" /\ build \in Builds
    BY DEF AnalysisInv, Repaired, NotRepaired, AnalysisTypeOK
  <1>2. CASE Repaired(j)
    <2>1. PICK s \in ask[j].scenes :
            /\ known' = [known EXCEPT ![j][s] = build]
            /\ Writes(j, chunks[j], [known[j] EXCEPT ![s] = build], {s})
      BY <1>2 DEF Repaired
    <2> DEFINE rows == [known[j] EXCEPT ![s] = build]
    <2>2. s \in Scenes /\ known[j] \in Rows /\ chunks[j] \in 0..Chunks /\ RowsGood(known[j])
      BY <1>1, Shapes DEF MemoryOK
    <2>3. rows \in Rows /\ RowsGood(rows) /\ RowSet(known[j]) \subseteq RowSet(rows)
      BY <1>1, <2>2, Bounds DEF Rows, RowsGood, RowSet, Good
    <2>4. known' = [known EXCEPT ![j] = rows]
      BY <1>1, <2>1, Shapes
    <2> HIDE DEF rows
    <2>5. Writes(j, chunks[j], rows, {s})
      BY <2>1 DEF rows
    <2>6. /\ known'[j] = rows /\ known' \in [Jobs -> Rows]
          /\ \A i \in Jobs \ {j} : known'[i] = known[i]
      BY <1>1, <2>3, <2>4, Shapes
    <2>7. /\ write' \in [Jobs -> WriteRecord \cup {NoWrite, NoFile}]
          /\ \A i \in Jobs \ {j} : write'[i] = write[i]
          /\ write'[j] # NoFile
          /\ RowsGood(write'[j].rows) /\ RowSet(write'[j].rows) \subseteq RowSet(rows)
      BY <1>1, <2>2, <2>3, <2>5, WriteMade
    <2>8. /\ pc' = [pc EXCEPT ![j] = "saverepair"]
          /\ UNCHANGED <<listed, status, file, world, chunks, batch, answer, ask, shrink,
                         enriched, published, acked>>
      BY <1>2 DEF Repaired, Goes, registry
    <2>9. AnalysisTypeOK'
      BY <1>1, <2>6, <2>7, <2>8 DEF AnalysisTypeOK, world, WriteRecord, PC, Waiting
    <2>10. Alone(j) /\ pc'[j] = "saverepair"
      BY <1>1, <2>6, <2>7, <2>8, Shapes DEF Alone
    <2>11. RowsGood(known[j])' /\ RowsGood(write[j].rows)'
      BY <2>3, <2>6, <2>7, <2>8 DEF RowsGood, Good, world
    <2>12. InPlace(enriched[j], batch[j].first - 1)'
      BY <1>1, <2>8 DEF MemoryOK, InPlace, Good, world
    <2>13. MemoryOK(j)' /\ AskOK(j)'
      BY <1>1, <2>3, <2>6, <2>7, <2>8, <2>10, <2>11, <2>12 DEF MemoryOK, AskOK, Early, Saving
    <2>14. FileOK'
      BY <1>1, <2>8, <2>10, FileKept DEF world, Past, Early
    <2> QED BY <1>1, <2>8, <2>9, <2>10, <2>13, <2>14, GoesOn
  <1>3. CASE NotRepaired(j)
    <2> DEFINE a == [ask[j] EXCEPT !.attempt = (@ % Attempts) + 1]
    <2>1. /\ a \in [scenes : SUBSET Scenes, after : 0..N, attempt : 1..Attempts]
          /\ a.scenes = ask[j].scenes /\ a.after = ask[j].after
      <3>1. PICK n \in 1..Attempts : n = (ask[j].attempt % Attempts) + 1
        <4>1. ask[j].attempt \in Nat /\ Attempts \in Nat \ {0}
          BY <1>1, Shapes, Bounds
        <4>2. ask[j].attempt % Attempts \in 0..(Attempts - 1)
          BY <4>1
        <4> QED BY <4>1, <4>2
      <3>2. a = [ask[j] EXCEPT !.attempt = n]
        BY <1>1, <3>1, Shapes
      <3> QED BY <1>1, <3>2, Shapes
    <2>2. /\ ask' = [ask EXCEPT ![j] = a]
          /\ UNCHANGED <<listed, status, pc, write, file, world, chunks, known, batch, answer,
                         shrink, enriched, published, acked>>
      BY <1>1, <1>3, Shapes DEF NotRepaired, registry, store
    <2> HIDE DEF a
    <2>3. ask'[j] = a /\ AnalysisTypeOK' /\ Alone(j)
      BY <1>1, <2>1, <2>2, Shapes DEF AnalysisTypeOK, world, Alone
    <2>4. RowsGood(known[j])' /\ (write[j] \in WriteRecord => RowsGood(write[j].rows))'
      BY <1>1, <2>2 DEF MemoryOK, RowsGood, Good, world
    <2>5. InPlace(enriched[j], batch[j].first - 1)'
      BY <1>1, <2>2 DEF MemoryOK, InPlace, Good, world
    <2>6. MemoryOK(j)' /\ AskOK(j)'
      BY <1>1, <2>1, <2>2, <2>3, <2>4, <2>5 DEF MemoryOK, AskOK, Early, Saving
    <2>7. FileOK'
      BY <2>2, <2>3, FileKept DEF world, Past
    <2> QED BY <1>1, <2>2, <2>3, <2>6, <2>7, GoesOn
  <1> QED BY <1>2, <1>3


\* A transaction commits: its rows are known, and the loop goes on.
LEMMA SavedStep ==
  ASSUME AnalysisInv, NEW j \in Jobs, Saved(j)
  PROVE  AnalysisInv'
  <1>1. /\ AnalysisTypeOK /\ MemoryOK(j) /\ write[j] \in WriteRecord /\ pc[j] \in Saving
        /\ build' = build /\ known[j] \in Rows /\ RowsGood(known[j]) /\ batch[j] \in Batch
        /\ RowSet(write[j].rows) \subseteq RowSet(known[j])
    BY Shapes DEF AnalysisInv, Saved, Saving, world, MemoryOK
  <1>2. FileOK' /\ file' \in File
    BY <1>1, FileCommitted DEF Saved
  <1>3. /\ acked' \in [Jobs -> SUBSET Scenes]
        /\ \A i \in Jobs \ {j} : acked'[i] = acked[i]
        /\ acked'[j] \subseteq RowSet(known[j])
    <2>1. acked' = [acked EXCEPT ![j] = acked[j] \cup RowSet(write[j].rows)]
      BY <1>1, Shapes DEF Saved
    <2>2. acked[j] \cup RowSet(write[j].rows) \subseteq RowSet(known[j])
          /\ RowSet(known[j]) \subseteq Scenes
      BY <1>1 DEF MemoryOK, RowSet
    <2> QED BY <1>1, <2>1, <2>2, Shapes
  <1>4. UNCHANGED <<listed, status, world, published>>
    BY DEF Saved, registry
  <1>5. ASSUME write' = [write EXCEPT ![j] = NoWrite], UNCHANGED <<chunks, known>>
        PROVE  /\ chunks' \in [Jobs -> 0..Chunks] /\ known' \in [Jobs -> Rows]
               /\ write' \in [Jobs -> WriteRecord \cup {NoWrite, NoFile}] /\ write'[j] = NoWrite
               /\ write'[j] # NoFile /\ write'[j] \notin WriteRecord
               /\ \A i \in Jobs \ {j} : /\ chunks'[i] = chunks[i] /\ known'[i] = known[i]
                                        /\ write'[i] = write[i]
    BY <1>1, <1>5, Shapes, Marks
  <1>6. CASE pc[j] = "savebible" /\ chunks[j] < Chunks
    <2>1. /\ write' = [write EXCEPT ![j] = NoWrite] /\ pc' = [pc EXCEPT ![j] = "bible"]
          /\ UNCHANGED <<chunks, known, batch, answer, ask, shrink, enriched>>
      BY <1>1, <1>6, Bounds DEF Saved, Goes
    <2>2. AnalysisTypeOK'
      BY <1>1, <1>2, <1>3, <1>4, <1>5, <2>1 DEF AnalysisTypeOK, world, WriteRecord, PC, Waiting
    <2>3. Alone(j) /\ pc'[j] = "bible" /\ write'[j] = NoWrite
      BY <1>1, <1>3, <1>4, <2>1, Shapes DEF Alone
    <2>4. RowsGood(known[j])' /\ InPlace(enriched[j], batch[j].first - 1)'
      BY <1>1, <2>1 DEF MemoryOK, RowsGood, Good, InPlace
    <2>5. MemoryOK(j)' /\ AskOK(j)'
      BY <1>1, <1>3, <1>6, <2>1, <2>3, <2>4, Marks DEF MemoryOK, AskOK, Early, Saving
    <2> QED BY <1>1, <1>2, <1>4, <1>6, <2>2, <2>3, <2>5, GoesOn
  <1>7. CASE pc[j] = "savebible" /\ ~(chunks[j] < Chunks)
    <2>1. /\ write' = [write EXCEPT ![j] = NoWrite] /\ UNCHANGED <<chunks, known>>
          /\ Enter(j, known[j], batch[j], <<>>)
      BY <1>7 DEF Saved
    <2>2. InPlace(<<>>, batch[j].first - 1)
      <3>1. batch[j].first = 1
        BY <1>1, <1>7 DEF MemoryOK
      <3> QED BY <3>1, EmptyInPlace
    <2> QED BY <1>1, <1>2, <1>3, <1>4, <1>5, <1>7, <2>1, <2>2, Entered
  <1>8. CASE pc[j] \in {"saverow", "saverepair"}
    <2>1. Continue(j, answer[j]) /\ UNCHANGED <<batch, shrink, enriched>>
      BY <1>8 DEF Saved
    <2>2. answer[j] \in SUBSET Scenes /\ shrink \in [Jobs -> BOOLEAN]
      BY <1>1, Shapes
    <2> QED BY <1>1, <1>2, <1>3, <1>4, <1>8, <2>1, <2>2, Continued DEF Early
  <1>9. CASE pc[j] = "savebatch"
    <2> DEFINE size == NextSize(j)
               from == Rest(batch[j], size)
               scenes == BatchScenes(batch[j])
               done == enriched[j] \o Done(known[j], scenes)
    <2>1. /\ write' = [write EXCEPT ![j] = NoWrite] /\ UNCHANGED <<chunks, known>>
          /\ Enter(j, known[j], from, done)
      BY <1>9 DEF Saved
    <2>2. /\ batch[j].first \in 1..(N + 1) /\ batch[j].size \in 1..BatchSize
          /\ Last(batch[j]) \in Nat /\ Last(batch[j]) <= N /\ Last(batch[j]) >= batch[j].first - 1
          /\ scenes = batch[j].first .. Last(batch[j]) /\ scenes \subseteq Scenes
      BY <1>1, BatchIn DEF BatchScenes
    <2>3. size \in 1..BatchSize
      <3>1. CASE batch[j].size > 1
        <4>1. batch[j].size \div 2 \in 1..BatchSize
          BY <2>2, <3>1, Bounds
        <4> QED BY <2>2, <4>1 DEF NextSize
      <3>2. CASE ~(batch[j].size > 1)
        BY <2>2, <3>2 DEF NextSize
      <3> QED BY <3>1, <3>2
    <2>4. from \in Batch /\ from.first - 1 = Last(batch[j])
      BY <2>2, <2>3, Bounds DEF Rest, Batch
    <2>5. scenes \subseteq RowSet(known[j])
      BY <1>1, <1>9 DEF MemoryOK, Pending
    <2>6. InPlace(done, Last(batch[j]))
      <3> DEFINE n == batch[j].first - 1
                 m == Last(batch[j])
                 q == enriched[j]
      <3>1. n \in 0..N /\ m \in n..N /\ (n + 1)..m = scenes
        BY <2>2, Bounds
      <3>2. InPlace(q, n)
        BY <1>1 DEF MemoryOK
      <3> HIDE DEF n, m, scenes, q
      <3>3. (n + 1)..m \subseteq RowSet(known[j])
        BY <2>5, <3>1
      <3>4. InPlace(q \o Done(known[j], (n + 1)..m), m)
        BY <1>1, <3>1, <3>2, <3>3, DoneContinues
      <3>5. InPlace(q \o Done(known[j], scenes), m)
        BY <3>1, <3>4
      <3> QED BY <3>5 DEF q, m
    <2> HIDE DEF from, done
    <2>7. InPlace(done, from.first - 1)
      BY <2>4, <2>6
    <2> QED BY <1>1, <1>2, <1>3, <1>4, <1>5, <1>9, <2>1, <2>4, <2>7, Entered
  <1>10. chunks[j] < Chunks \/ ~(chunks[j] < Chunks)
    OBVIOUS
  <1> QED BY <1>1, <1>6, <1>7, <1>8, <1>9, <1>10 DEF Saving

LEMMA MergeStep ==
  ASSUME AnalysisInv, NEW j \in Jobs, Merge(j)
  PROVE  AnalysisInv'
  <1>1. AnalysisTypeOK /\ MemoryOK(j) /\ pc[j] = "merge"
    BY DEF AnalysisInv, Merge
  <1>2. /\ published' = [published EXCEPT ![j] = enriched[j]] /\ pc' = [pc EXCEPT ![j] = "clear"]
        /\ UNCHANGED <<listed, status, write, file, world, chunks, known, batch, answer, ask,
                       shrink, enriched, acked>>
    BY DEF Merge, Publish, Goes, registry, store
  <1>3. enriched[j] \in Seq(Scenes \X Builds) /\ enriched[j] # NoProject
    <2>1. enriched[j] \in Seq(Scenes \X Builds)
      BY <1>1, Shapes
    <2> QED BY <2>1, NothingAssumption
  <1>4. /\ published' \in [Jobs -> Seq(Scenes \X Builds) \cup {NoProject}]
        /\ published'[j] # NoProject /\ \A i \in Jobs \ {j} : published'[i] = published[i]
    BY <1>1, <1>2, <1>3, Shapes
  <1>5. AnalysisTypeOK' /\ Alone(j) /\ pc'[j] = "clear"
    <2>1. pc' \in [Jobs -> PC] /\ pc'[j] = "clear" /\ \A i \in Jobs \ {j} : pc'[i] = pc[i]
      BY <1>1, <1>2, Shapes DEF PC, Waiting
    <2> QED BY <1>1, <1>2, <1>4, <2>1 DEF AnalysisTypeOK, world, Alone
  <1>6. RowsGood(known[j])' /\ (write[j] \in WriteRecord => RowsGood(write[j].rows))'
    BY <1>1, <1>2 DEF MemoryOK, RowsGood, Good, world
  <1>7. InPlace(enriched[j], batch[j].first - 1)'
    BY <1>1, <1>2 DEF MemoryOK, InPlace, Good, world
  <1>8. MemoryOK(j)' /\ AskOK(j)'
    BY <1>1, <1>2, <1>4, <1>5, <1>6, <1>7 DEF MemoryOK, AskOK, Early, Saving
  <1>9. FileOK'
    BY <1>1, <1>2, <1>5, FileKept DEF world, Past, Early
  <1> QED BY <1>1, <1>2, <1>5, <1>8, <1>9, GoesOn

\* What is left of a task: the heartbeat that ends, and its thread.
LEMMA LeftoverSteps ==
  ASSUME AnalysisInv, NEW j \in Jobs, Close(j) \/ Orphan(j)
  PROVE  AnalysisInv'
  <1>1. /\ AnalysisTypeOK /\ MemoryOK(j) /\ ListedOK /\ FileOK /\ pc[j] \in {"none", "closing"}
        /\ UNCHANGED <<listed, status, memory, world>> /\ build' = build
    BY DEF AnalysisInv, Close, Orphan, registry, world
  <1>2. pc'[j] \in {"none", "closing"} /\ pc' \in [Jobs -> PC]
        /\ \A i \in Jobs \ {j} : pc'[i] = pc[i]
    BY <1>1, Shapes DEF Close, Orphan, Goes, PC
  <1>3. /\ write' \in [Jobs -> WriteRecord \cup {NoWrite, NoFile}] /\ write'[j] \in {NoWrite, write[j]}
        /\ \A i \in Jobs \ {j} : write'[i] = write[i]
    BY <1>1, Shapes DEF Close, Orphan, store
  <1>4. FileOK' /\ file' \in File
    <2>1. CASE file' = file
      <3>1. Alone(j)
        BY <1>1, <1>2, <1>3 DEF Alone, memory
      <3>2. Past(j)' => Past(j)
        BY <1>2, <1>3, Marks DEF Past, Early
      <3> QED BY <1>1, <2>1, <3>1, <3>2, FileKept DEF AnalysisTypeOK
    <2>2. CASE file' # file /\ file' = NoFile
      <3>1. Alone(j)
        BY <1>1, <1>2, <1>3 DEF Alone, memory
      <3> QED BY <1>1, <2>2, <3>1, FileKept DEF File
    <2>3. CASE file' # file /\ file' # NoFile
      <3>1. write[j] \in WriteRecord /\ file' = Committed(write[j])
        BY <1>1, <2>3, Shapes DEF Close, Orphan, store
      <3> QED BY <1>1, <3>1, FileCommitted
    <2> QED BY <2>1, <2>2, <2>3
  <1>5. AnalysisTypeOK'
    BY <1>1, <1>2, <1>3, <1>4 DEF AnalysisTypeOK, memory, world, WriteRecord
  <1>6. MemoryOK(j)' /\ AskOK(j)'
    <2>1. RowsGood(known[j])' /\ (write[j] \in WriteRecord => RowsGood(write[j].rows))'
      BY <1>1, <1>3, Marks DEF MemoryOK, RowsGood, Good, memory
    <2>2. InPlace(enriched[j], batch[j].first - 1)'
      BY <1>1 DEF MemoryOK, InPlace, Good, memory
    <2>3. write'[j] = NoFile => pc'[j] \in {"none", "closing"}
      BY <1>2
    <2> QED BY <1>1, <1>2, <2>1, <2>2, <2>3 DEF MemoryOK, AskOK, Early, Saving, memory
  <1>7. Alone(j)
    BY <1>1, <1>2, <1>3 DEF Alone, memory
  <1>8. ListedOK'
    <2>1. ~(j > starts)
      BY <1>1 DEF ListedOK, Close, Orphan
    <2> QED BY <1>1, <1>2, <1>3, <2>1 DEF ListedOK, world
  <1> QED BY <1>1, <1>4, <1>5, <1>6, <1>7, <1>8, OthersKept DEF AnalysisInv


\* A new job makes room for itself by what is over.
LEMMA StartStep ==
  ASSUME AnalysisInv, Start
  PROVE  AnalysisInv'
  <1>1. AnalysisTypeOK /\ ListedOK /\ FileOK /\ starts \in Nat /\ listed \subseteq Jobs
    BY DEF AnalysisInv, AnalysisTypeOK
  <1> PICK j \in Jobs : j = starts + 1
    BY <1>1, Bounds DEF Start, Jobs
  <1>2. j > starts /\ starts' = j /\ j \in Nat
    BY <1>1 DEF Start, Jobs
  <1>3. /\ status' = [status EXCEPT ![j] = "queued"] /\ pc' = [pc EXCEPT ![j] = "queued"]
        /\ UNCHANGED <<memory, write, file, build, crashes>>
    BY DEF Start, Goes, store
  <1>4. PICK rest \in Admit : listed' = rest \cup {j}
    BY DEF Start
  <1>5. MemoryOK(j) /\ AskOK(j) /\ pc[j] = "none" /\ j \notin listed
    BY <1>1, <1>2 DEF AnalysisInv, ListedOK
  <1>6. AnalysisTypeOK'
    <2>1. rest \subseteq listed
      BY <1>4 DEF Admit
    <2>2. listed' \subseteq Jobs /\ starts' \in 0..MaxStarts
      BY <1>1, <1>2, <1>4, <2>1, Bounds DEF Jobs
    <2>3. status' \in [Jobs -> Status] /\ pc' \in [Jobs -> PC]
      BY <1>1, <1>3 DEF AnalysisTypeOK, Status, PC
    <2> QED BY <1>1, <1>3, <2>2, <2>3 DEF AnalysisTypeOK, memory
  <1>7. /\ pc'[j] = "queued" /\ Alone(j)
    BY <1>1, <1>2, <1>3, Shapes DEF Alone, memory
  <1>8. MemoryOK(j)' /\ AskOK(j)'
    <2>1. RowsGood(known[j])' /\ (write[j] \in WriteRecord => RowsGood(write[j].rows))'
      BY <1>3, <1>5 DEF MemoryOK, RowsGood, Good, memory
    <2>2. InPlace(enriched[j], batch[j].first - 1)'
      BY <1>3, <1>5 DEF MemoryOK, InPlace, Good, memory
    <2>3. write'[j] # NoFile
      BY <1>1, <1>2, <1>3, Marks DEF ListedOK
    <2> QED BY <1>3, <1>5, <1>7, <2>1, <2>2, <2>3 DEF MemoryOK, AskOK, Early, Saving, memory
  <1>9. FileOK'
    BY <1>2, <1>3, <1>7, FileKept DEF Past, Early
  <1>10. ListedOK'
    <2>1. IsFiniteSet(listed) /\ Cardinality(listed) \in Nat
      <3>1. IsFiniteSet(Jobs)
        BY Bounds, FS_Interval DEF Jobs
      <3> QED BY <1>1, <3>1, FS_Subset, FS_CardinalityType
    <2>2. /\ IsFiniteSet(rest) /\ Cardinality(rest) \in Nat /\ Cardinality(rest) < MaxJobs
          /\ rest \subseteq listed /\ \A i \in listed \ rest : status[i] \in Terminal
      <3>1. CASE Cardinality(listed) < MaxJobs
        BY <1>4, <2>1, <3>1 DEF Admit
      <3>2. CASE ~(Cardinality(listed) < MaxJobs)
        <4>1. PICK i \in Prunable : rest = listed \ {i}
          BY <1>4, <3>2 DEF Admit
        <4>2. i \in listed /\ status[i] \in Terminal
          BY <4>1 DEF Prunable
        <4>3. IsFiniteSet(listed \ {i}) /\ Cardinality(listed \ {i}) = Cardinality(listed) - 1
          BY <2>1, <4>2, FS_RemoveElement
        <4>4. Cardinality(listed) <= MaxJobs
          BY <1>1 DEF ListedOK
        <4>5. Cardinality(rest) \in Nat
          BY <4>1, <4>3, FS_CardinalityType
        <4>6. Cardinality(rest) = Cardinality(listed) - 1 /\ MaxJobs \in Nat
          BY <4>1, <4>3, Bounds
        <4> QED BY <2>1, <4>1, <4>2, <4>3, <4>4, <4>5, <4>6
      <3> QED BY <3>1, <3>2
    <2>3. Cardinality(listed') <= MaxJobs
      <3>1. j \notin rest
        BY <1>5, <2>2
      <3>2. Cardinality(rest \cup {j}) = Cardinality(rest) + 1
        BY <2>2, <3>1, FS_AddElement
      <3> QED BY <1>4, <2>2, <3>2, Bounds
    <2>4. ASSUME NEW i \in Jobs
          PROVE  /\ i \in listed' /\ status'[i] \notin Terminal
                   <=> pc'[i] \notin {"none", "closing"}
                 /\ i > starts' => pc'[i] = "none" /\ write'[i] = NoWrite /\ i \notin listed'
      <3>1. CASE i = j
        <4>1. status'[j] = "queued" /\ ~(j > starts')
          BY <1>1, <1>2, <1>3 DEF AnalysisTypeOK
        <4> QED BY <1>4, <1>7, <3>1, <4>1 DEF Terminal
      <3>2. CASE i # j
        <4>1. /\ status'[i] = status[i] /\ pc'[i] = pc[i] /\ write'[i] = write[i]
              /\ (i \in listed' <=> i \in rest)
          BY <1>1, <1>3, <1>4, <1>7, <3>2 DEF AnalysisTypeOK, Alone
        <4>2. i > starts' => i > starts
          BY <1>1, <1>2 DEF Jobs
        <4> QED BY <1>1, <2>2, <4>1, <4>2 DEF ListedOK
      <3> QED BY <3>1, <3>2
    <2> QED BY <2>3, <2>4 DEF ListedOK
  <1> QED BY <1>2, <1>3, <1>6, <1>7, <1>8, <1>9, <1>10, OthersKept DEF AnalysisInv

\* A process that starts knows nothing and waits for nothing.
Blank ==
  /\ listed = {} /\ status = [j \in Jobs |-> "queued"] /\ pc = [j \in Jobs |-> "none"]
  /\ chunks = [j \in Jobs |-> 0] /\ known = [j \in Jobs |-> NoRows]
  /\ batch = [j \in Jobs |-> [first |-> 1, size |-> BatchSize]]
  /\ answer = [j \in Jobs |-> {}] /\ ask = [j \in Jobs |-> NoAsk]
  /\ shrink = [j \in Jobs |-> FALSE] /\ enriched = [j \in Jobs |-> <<>>]
  /\ published = [j \in Jobs |-> NoProject] /\ acked = [j \in Jobs |-> {}]
  /\ write = [j \in Jobs |-> NoWrite]

Whole ==
  /\ file \in File /\ build \in Builds /\ starts \in 0..MaxStarts /\ crashes \in 0..MaxCrashes
  /\ file # NoFile => \A s \in Scenes : file.rows[s] = 0 \/ (Trusted => file.rows[s] = file.shape)

LEMMA BlankInv == Blank /\ Whole => AnalysisInv
  <1> SUFFICES ASSUME Blank, Whole PROVE AnalysisInv
    OBVIOUS
  <1>1. AnalysisTypeOK
    <2>1. 0 \in 0..Chunks
      BY Bounds
    <2>2. <<>> \in Seq(Scenes \X Builds)
      OBVIOUS
    <2>3. /\ listed \subseteq Jobs /\ status \in [Jobs -> Status] /\ pc \in [Jobs -> PC]
          /\ chunks \in [Jobs -> 0..Chunks] /\ known \in [Jobs -> Rows]
          /\ batch \in [Jobs -> Batch]
      BY <2>1, FirstBatch, NoRowsGood DEF Blank, Status, PC
    <2>4. /\ enriched \in [Jobs -> Seq(Scenes \X Builds)]
          /\ published \in [Jobs -> Seq(Scenes \X Builds) \cup {NoProject}]
          /\ write \in [Jobs -> WriteRecord \cup {NoWrite, NoFile}]
      BY <2>2 DEF Blank
    <2>5. /\ answer \in [Jobs -> SUBSET Scenes] /\ acked \in [Jobs -> SUBSET Scenes]
          /\ ask \in [Jobs -> [scenes : SUBSET Scenes, after : 0..N, attempt : 1..Attempts]]
          /\ shrink \in [Jobs -> BOOLEAN]
      BY NoAskTyped DEF Blank
    <2> QED BY <2>3, <2>4, <2>5 DEF AnalysisTypeOK, Batch, WriteRecord, Whole
  <1>2. FileOK
    <2>1. \A j \in Jobs : ~Past(j)
      BY Marks DEF Blank, Past, Early
    <2> QED BY <2>1 DEF FileOK, Whole
  <1>3. ListedOK
    <2>1. Cardinality({}) = 0
      BY FS_EmptySet
    <2> QED BY <2>1, Bounds DEF Blank, ListedOK
  <1>4. ASSUME NEW j \in Jobs PROVE MemoryOK(j) /\ AskOK(j)
    <2>1. /\ pc[j] = "none" /\ chunks[j] = 0 /\ known[j] = NoRows /\ acked[j] = {}
          /\ batch[j].first = 1 /\ enriched[j] = <<>> /\ write[j] = NoWrite
      BY DEF Blank
    <2>2. InPlace(enriched[j], batch[j].first - 1)
      BY <2>1, EmptyInPlace
    <2> QED BY <2>1, <2>2, NoRowsGood, Marks DEF MemoryOK, AskOK, Early, Saving
  <1> QED BY <1>1, <1>2, <1>3, <1>4 DEF AnalysisInv

LEMMA AnalysisInvInit == Init => AnalysisInv
  <1> SUFFICES ASSUME Init PROVE AnalysisInv
    OBVIOUS
  <1>1. Blank /\ file = NoFile /\ starts = 0 /\ crashes = 0
    BY DEF Init, Blank
  <1>2. build \in Builds
    BY MinMember, Bounds DEF Init
  <1> QED BY <1>1, <1>2, BlankInv, Bounds DEF File, Whole

LEMMA RestartStep ==
  ASSUME AnalysisInv, Restart
  PROVE  AnalysisInv'
  <1>1. Blank' /\ file' = file /\ starts' = starts /\ build' \in Builds
    BY DEF Restart, Blank
  <1>2. /\ file \in File /\ starts \in 0..MaxStarts /\ crashes \in 0..MaxCrashes /\ FileOK
    BY DEF AnalysisInv, AnalysisTypeOK
  <1>3. crashes' \in 0..MaxCrashes
    BY <1>2, Bounds DEF Restart
  <1>4. file' # NoFile =>
          \A s \in Scenes : file'.rows[s] = 0 \/ (Trusted => file'.rows[s] = file'.shape)
    BY <1>1, <1>2 DEF FileOK
  <1>5. Whole'
    BY <1>1, <1>2, <1>3, <1>4 DEF Whole
  <1> QED BY <1>1, <1>5, BlankInv, PTL

LEMMA AnalysisInvStep ==
  ASSUME AnalysisInv, [Next]_vars
  PROVE  AnalysisInv'
  <1>1. CASE UNCHANGED vars
    <2>1. UNCHANGED <<listed, status, pc, chunks, known, batch, answer, ask, shrink, enriched,
                      published, acked, write, file, build, starts, crashes>>
      BY <1>1 DEF vars, registry, memory, store, world
    <2>2. AnalysisTypeOK' /\ FileOK' /\ ListedOK'
      BY <2>1 DEF AnalysisInv, AnalysisTypeOK, FileOK, ListedOK, Past
    <2>3. ASSUME NEW j \in Jobs PROVE MemoryOK(j)' /\ AskOK(j)'
      <3>1. MemoryOK(j) /\ AskOK(j)
        BY DEF AnalysisInv
      <3>2. RowsGood(known[j])' /\ (write[j] \in WriteRecord => RowsGood(write[j].rows))'
        BY <2>1, <3>1 DEF MemoryOK, RowsGood, Good
      <3>3. InPlace(enriched[j], batch[j].first - 1)'
        BY <2>1, <3>1 DEF MemoryOK, InPlace, Good
      <3> QED BY <2>1, <3>1, <3>2, <3>3 DEF MemoryOK, AskOK
    <2> QED BY <2>2, <2>3 DEF AnalysisInv
  <1> QED BY <1>1, StartStep, RestartStep, BeginStep, EndingSteps, LoadStep, BibleStep, BatchStep,
             RepairSteps, SavedStep, MergeStep, LeftoverSteps DEF Next, Step


LEMMA AnalysisInvariant == Spec => []AnalysisInv
  <1>1. AnalysisInv /\ [Next]_vars => AnalysisInv'
    BY AnalysisInvStep
  <1> QED BY <1>1, AnalysisInvInit, PTL DEF Spec

(***************************************************************************)
(* What follows.                                                           *)
(***************************************************************************)
\* Every reachable state of the analyses has the shapes the code gives it
\* (AnalysisCheckpoint, AnalysisJobRegistry).
THEOREM AnalysisTyped == Spec => []AnalysisTypeOK
  <1>1. AnalysisInv => AnalysisTypeOK
    BY DEF AnalysisInv
  <1> QED BY <1>1, AnalysisInvariant, PTL

\* The registry stays bounded, and what it has forgotten is over: a task at
\* work is listed and a listed job that looks active has one (prune, run_job).
THEOREM ActiveAreListed == Spec => []ActiveIsListed
  <1>1. AnalysisInv => ActiveIsListed
    BY DEF AnalysisInv, AnalysisTypeOK, ListedOK, ActiveIsListed, Live
  <1> QED BY <1>1, AnalysisInvariant, PTL

\* A scene whose row a task has loaded or was told is committed is not asked
\* for again, in whatever batch (analyze_story, repair of missing scenes).
THEOREM NothingTwice == Spec => []NothingAskedTwice
  <1>1. AnalysisInv => NothingAskedTwice
    BY DEF AnalysisInv, MemoryOK, AskOK, NothingAskedTwice
  <1> QED BY <1>1, AnalysisInvariant, PTL

\* The anchor of every request is the end of the scene before the first one
\* it asks for (request_anchor), for batches of every size, resumed anywhere.
THEOREM AnchorsPrecede == Spec => []AnchorIsPredecessor
  <1>1. AnalysisInv => AnchorIsPredecessor
    BY DEF AnalysisInv, AskOK, AnchorIsPredecessor
  <1> QED BY <1>1, AnalysisInvariant, PTL

\* As long as an old checkpoint can be removed, or there is one version of
\* the program, no row of another segmentation is taken for one of this.
THEOREM RowsAreOwn ==
  ASSUME Trusted
  PROVE  Spec => []NoForeignRows
  <1>1. AnalysisInv => NoForeignRows
    BY DEF AnalysisInv, MemoryOK, RowsGood, Good, NoForeignRows
  <1> QED BY <1>1, AnalysisInvariant, PTL

\* Under the same assumption the project that is stored has every scene once,
\* in order, as the running program cuts the text, however the batches shrank
\* and wherever earlier runs stopped (_merge_analysis, storage.save).
THEOREM PublishedIsWhole ==
  ASSUME Trusted
  PROVE  Spec => PublishedWhole
  <1>1. ASSUME AnalysisInv, [Next]_vars
        PROVE  [\A j \in Jobs : published'[j] # published[j] /\ published'[j] # NoProject =>
                  published'[j] = [s \in Scenes |-> <<s, build>>]]_vars
    <2> SUFFICES ASSUME NEW j \in Jobs, published'[j] # published[j], published'[j] # NoProject
                 PROVE  published'[j] = [s \in Scenes |-> <<s, build>>]
      OBVIOUS
    <2>1. AnalysisTypeOK /\ published \in [Jobs -> Seq(Scenes \X Builds) \cup {NoProject}]
      BY <1>1, Shapes DEF AnalysisInv
    <2>2. ASSUME NEW i \in Jobs, NEW s, Ends(i, s) PROVE FALSE
      BY <2>1, <2>2 DEF Ends
    <2>3. Merge(j)
      <3>1. ASSUME NEW i \in Jobs, Merge(i) PROVE i = j
        BY <2>1, <3>1 DEF Merge, Publish
      <3>2. CASE Start \/ Restart \/ UNCHANGED vars
        BY <3>2 DEF Start, Restart, vars, memory
      <3>3. ASSUME NEW i \in Jobs, Step(i) \/ Cancel(i) \/ Orphan(i), ~Merge(i) PROVE FALSE
        <4>1. UNCHANGED published \/ \E s : Ends(i, s)
          BY <3>3 DEF Step, Cancel, Orphan, RunOffline, Run, Catalog, RequestFails, Load,
             LoadFails, Discard, BibleAnswer, BatchAnswer, Repaired, NotRepaired, Saved,
             WriteFails, MergeRaises, Clear, Close, memory
        <4> QED BY <2>2, <4>1
      <3> QED BY <1>1, <3>1, <3>2, <3>3 DEF Next
    <2> DEFINE q == enriched[j]
    <2>4. published'[j] = q
      BY <2>1, <2>3 DEF Merge, Publish
    <2>5. InPlace(q, N)
      <3>1. MemoryOK(j) /\ pc[j] = "merge" /\ N \in Nat
        BY <1>1, <2>3, Bounds DEF AnalysisInv, Merge
      <3>2. batch[j].first - 1 = N
        BY <3>1 DEF MemoryOK
      <3> QED BY <3>1, <3>2 DEF MemoryOK
    <2> HIDE DEF q
    <2>6. /\ q \in Seq(Scenes \X Builds) /\ Len(q) = N /\ N \in Nat
          /\ \A i \in 1..N : q[i][1] = i /\ q[i][2] = build
      BY <2>5, Bounds DEF InPlace, Good
    <2>7. \A i \in 1..N : q[i] = <<i, build>>
      <3> TAKE i \in 1..N
      <3>1. q[i] \in Scenes \X Builds
        BY <2>6
      <3> QED BY <2>6, <3>1
    <2>8. q = [i \in 1..N |-> q[i]]
      BY <2>6
    <2> QED BY <2>4, <2>7, <2>8 DEF Scenes
  <1> QED BY <1>1, AnalysisInvariant, PTL DEF Spec, PublishedWhole

\* A committed row goes only when its project has been stored, when a job
\* could not read the file, or by the removal a cancelled job has begun for one
\* of these reasons (save, discard, clear).
THEOREM ProgressIsKept == Spec => ProgressKept
  <1>1. ASSUME AnalysisInv, [Next]_vars
        PROVE  [build' = build /\ ~(RowsOf(file) \subseteq RowsOf(file)') =>
                  \E j \in Jobs : \/ pc[j] = "discard"
                                  \/ pc[j] = "clear" /\ published[j] # NoProject
                                  \/ write[j] = NoFile]_vars
    <2> SUFFICES ASSUME build' = build, ~(RowsOf(file) \subseteq RowsOf(file)'),
                        \A j \in Jobs : pc[j] # "discard" /\ write[j] # NoFile /\
                                        (pc[j] = "clear" => published[j] = NoProject)
                 PROVE  FALSE
      OBVIOUS
    <2>1. file' # file
      BY DEF RowsOf, RowSet
    <2>2. PICK j \in Jobs : write[j] \in WriteRecord /\ file' = Committed(write[j])
      <3>1. ASSUME NEW j \in Jobs, Clear(j) \/ Discard(j) PROVE FALSE
        BY <1>1, <3>1 DEF Clear, Discard, AnalysisInv, MemoryOK
      <3>2. CASE Start \/ Restart \/ UNCHANGED vars
        BY <2>1, <3>2 DEF Start, Restart, vars, store
      <3>3. ASSUME NEW j \in Jobs, Step(j) \/ Cancel(j) \/ Orphan(j)
            PROVE  write[j] # NoWrite /\ file' = Committed(write[j])
        BY <2>1, <3>1, <3>3 DEF Step, Cancel, Orphan, RunOffline, Run, Catalog, RequestFails, Load,
           LoadFails, BibleAnswer, BatchAnswer, Repaired, NotRepaired, Saved,
           WriteFails, Merge, MergeRaises, Close, store
      <3> QED BY <1>1, <3>2, <3>3, Shapes DEF Next, AnalysisInv
    <2>3. file' # NoFile /\ file'.shape = build
      BY <1>1, <2>2, FileCommitted DEF Committed
    <2>4. file # NoFile /\ file.shape = build
      BY DEF RowsOf
    <2>5. file'.rows = Overlay(file.rows, write[j].rows)
      BY <2>2, <2>4 DEF Committed
    <2>6. RowSet(file.rows) \subseteq RowSet(file'.rows)
      BY <2>5 DEF RowSet, Overlay
    <2> QED BY <2>3, <2>4, <2>6 DEF RowsOf, RowSet
  <1> QED BY <1>1, AnalysisInvariant, PTL DEF Spec, ProgressKept
=============================================================================

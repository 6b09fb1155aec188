-------------------------- MODULE PlaybackRoomProofs -------------------------
(***************************************************************************)
(* Lemmas about the queue reducer and the requests of a room, for queues   *)
(* of any length and whatever runs between reading the stored row and      *)
(* saving what they make of it.                                            *)
(*   The reducer: what the arithmetic of the play-next region returns, what*)
(* normalising yields, and that the index maps of moves and removals are   *)
(* one-to-one onto the indices of the queue they lead to.                  *)
(*   The requests: the result is well formed, and sequence number, revision*)
(* and index map keep what they promise.                                   *)
(***************************************************************************)
EXTENDS PlaybackRoom, FiniteSetTheorems, FunctionTheorems, SequenceTheorems,
        WellFoundedInduction, TLAPS

-----------------------------------------------------------------------------
(* The play-next region.                                                   *)

\* The clamp yields a length that fits after the current entry and leaves a
\* length that fits alone (clampedPlayNextQueueLen).
LEMMA ClampedFits ==
    ASSUME NEW n \in Nat, NEW current \in -1 .. n - 1, NEW len \in Int
    PROVE  /\ PlayNextStart(n, current) = current + 1
           /\ ClampedPlayNextLen(n, current, len) \in 0 .. n - (current + 1)
           /\ len \in 0 .. n - (current + 1)
                 => ClampedPlayNextLen(n, current, len) = len
  BY DEF ClampedPlayNextLen, PlayNextStart, NoIndex

\* Following the current entry never makes the region longer than what
\* follows the new one, wherever the index jumps to.
LEMMA AdjustedFits ==
    ASSUME NEW n \in Nat, NEW previous \in -1 .. n - 1, NEW next \in -1 .. n - 1,
           NEW len \in Int
    PROVE  AdjustedPlayNextLen(n, previous, len, next) \in 0 .. n
  <1>1. ClampedPlayNextLen(n, next, len) \in 0 .. n
    BY ClampedFits
  <1>2. /\ PlayNextStart(n, previous) = previous + 1
        /\ ClampedPlayNextLen(n, previous, len) \in 0 .. n - (previous + 1)
    BY ClampedFits
  <1>3. QED
    BY <1>1, <1>2 DEF AdjustedPlayNextLen, PlayNextRegion, PlayNextEnd

-----------------------------------------------------------------------------
(* Normalising.                                                            *)

LEMMA StateFields ==
    ASSUME NEW s \in PlaybackState
    PROVE  /\ s.queue \in Seq(Entries) /\ Len(s.queue) \in Nat
           /\ s.currentIndex \in Int
           /\ s.playNextQueueLen \in Int
           /\ s.playingState \in PlayingStates
           /\ s.position \in {AtStart, Later}
           /\ s.queueRevision \in Nat
           /\ s.queueIndexMap \in Seq(Int)
           /\ (s.queue # <<>> => Len(s.queue) > 0)
  <1>1. s.queue \in Seq(Entries)
    BY DEF PlaybackState
  <1>2. Len(s.queue) \in Nat /\ (s.queue # <<>> => Len(s.queue) \in Nat \ {0})
    BY <1>1, LenProperties, EmptySeq
  <1>3. QED
    BY <1>1, <1>2 DEF PlaybackState

LEMMA LocatedType ==
    ASSUME NEW s \in PlaybackState, NEW index \in Int, NEW len \in Int,
           NEW position \in {AtStart, Later}, NEW playing \in PlayingStates
    PROVE  LET t == Located(s, index, len, position, playing)
           IN  /\ t \in PlaybackState
               /\ t.queue = s.queue
               /\ t.queueRevision = s.queueRevision
               /\ t.queueIndexMap = s.queueIndexMap
               /\ t.currentIndex = index
               /\ t.playNextQueueLen = len
               /\ t.position = position
               /\ t.playingState = playing
  <1> DEFINE half == [s EXCEPT !.currentIndex = index, !.playNextQueueLen = len]
  <1>1. half \in PlaybackState
    BY DEF PlaybackState
  <1>2. Located(s, index, len, position, playing)
           = [half EXCEPT !.position = position, !.playingState = playing]
    BY DEF Located
  <1>3. /\ half.queue = s.queue /\ half.queueRevision = s.queueRevision
        /\ half.queueIndexMap = s.queueIndexMap
        /\ half.currentIndex = index /\ half.playNextQueueLen = len
    BY DEF PlaybackState
  <1> HIDE DEF half
  <1>4. QED
    BY <1>1, <1>2, <1>3 DEF PlaybackState

LEMMA RecordedType ==
    ASSUME NEW s \in PlaybackState, NEW queue \in Seq(Entries), NEW map \in Seq(Int)
    PROVE  LET t == RecordQueueChange(s, queue, map)
           IN  /\ t \in PlaybackState
               /\ t.queue = queue
               /\ t.queueRevision = s.queueRevision + 1
               /\ t.queueIndexMap = map
               /\ t.currentIndex = s.currentIndex
               /\ t.playNextQueueLen = s.playNextQueueLen
               /\ t.position = s.position
               /\ t.playingState = s.playingState
  <1>1. s.queueRevision \in Nat /\ s.queueRevision + 1 \in Nat
    BY StateFields
  <1>2. RecordQueueChange(s, queue, map) \in PlaybackState
    BY <1>1 DEF RecordQueueChange, PlaybackState
  <1>3. QED
    BY <1>2 DEF RecordQueueChange, PlaybackState

LEMMA NormalPlayingStateType ==
    ASSUME NEW queue, NEW playing \in PlayingStates
    PROVE  /\ NormalPlayingState(queue, playing) \in PlayingStates
           /\ NormalPlayingState(queue, NormalPlayingState(queue, playing))
                 = NormalPlayingState(queue, playing)
  BY DEF NormalPlayingState, PlayingStates

\* Moving a state to where it is changes nothing.
LEMMA LocatedSame ==
    ASSUME NEW s \in PlaybackState
    PROVE  Located(s, s.currentIndex, s.playNextQueueLen, s.position, s.playingState) = s
  BY DEF Located, PlaybackState

\* What normalising changes, and that it changes neither queue nor revision.
LEMMA NormalizedFields ==
    ASSUME NEW s \in PlaybackState, ValidState(s)
    PROVE  LET t == Normalized(s)
               n == Len(s.queue)
           IN  /\ t \in PlaybackState
               /\ t.queue = s.queue
               /\ t.queueRevision = s.queueRevision
               /\ t.queueIndexMap = s.queueIndexMap
               /\ t.playingState = NormalPlayingState(s.queue, s.playingState)
               /\ s.queue = <<>> => /\ t.currentIndex = NoIndex
                                    /\ t.playNextQueueLen = 0
                                    /\ t.position = AtStart
               /\ s.queue # <<>> =>
                     /\ t.currentIndex = s.currentIndex
                     /\ t.position = s.position
                     /\ t.playNextQueueLen
                           = ClampedPlayNextLen(n, s.currentIndex, s.playNextQueueLen)
                     /\ t.playNextQueueLen \in 0 .. n - (s.currentIndex + 1)
  <1> DEFINE n == Len(s.queue)
             len == ClampedPlayNextLen(n, s.currentIndex, s.playNextQueueLen)
             playing == NormalPlayingState(s.queue, s.playingState)
  <1>1. s.position \in {AtStart, Later} /\ s.currentIndex \in Int
    BY StateFields
  <1>2. playing \in PlayingStates
    BY NormalPlayingStateType, StateFields
  <1>3. CASE s.queue = <<>>
    <2> DEFINE t == Located(s, NoIndex, 0, AtStart, playing)
    <2>1. Normalized(s) = t
      BY <1>3 DEF Normalized
    <2>2. NoIndex \in Int /\ 0 \in Int /\ AtStart \in {AtStart, Later}
      BY DEF NoIndex
    <2> HIDE DEF playing
    <2>3. /\ t \in PlaybackState
          /\ t.queue = s.queue /\ t.queueRevision = s.queueRevision
          /\ t.queueIndexMap = s.queueIndexMap
          /\ t.currentIndex = NoIndex /\ t.playNextQueueLen = 0
          /\ t.position = AtStart /\ t.playingState = playing
      BY <1>2, <2>2, LocatedType, Z3
    <2> HIDE DEF t
    <2>4. QED
      BY <1>3, <2>1, <2>3 DEF playing
  <1>4. CASE s.queue # <<>>
    <2>1. n \in Nat /\ s.currentIndex \in -1 .. n - 1 /\ s.playNextQueueLen \in Int
      BY <1>4, StateFields DEF ValidState, Indices, NoIndex
    <2>2. Normalized(s) = Located(s, s.currentIndex, len, s.position, playing)
      BY <1>4 DEF Normalized
    <2> HIDE DEF n, playing
    <2>3. len \in 0 .. n - (s.currentIndex + 1)
      BY <2>1, ClampedFits
    <2> HIDE DEF len
    <2>4. len \in Int
      BY <2>1, <2>3
    <2> DEFINE index == s.currentIndex
               position == s.position
               t == Located(s, index, len, position, playing)
    <2>0. index \in Int /\ position \in {AtStart, Later}
      BY <1>1
    <2> HIDE DEF index, position
    <2>5. /\ t \in PlaybackState
          /\ t.queue = s.queue /\ t.queueRevision = s.queueRevision
          /\ t.queueIndexMap = s.queueIndexMap
          /\ t.currentIndex = index /\ t.playNextQueueLen = len
          /\ t.position = position /\ t.playingState = playing
      BY <1>2, <2>4, <2>0, LocatedType, Z3
    <2> HIDE DEF t
    <2>6. Normalized(s) = t
      BY <2>2 DEF t, index, position
    <2>7. QED
      BY <1>4, <2>3, <2>5, <2>6 DEF n, len, playing, index, position
  <1>5. QED
    BY <1>3, <1>4

\* Encoding a valid state yields one that decoding accepts and leaves alone.
LEMMA NormalizedWellFormed ==
    ASSUME NEW s \in PlaybackState, ValidState(s)
    PROVE  WellFormed(Normalized(s))
  <1> DEFINE t == Normalized(s)
             n == Len(s.queue)
  <1>1. /\ t \in PlaybackState
        /\ t.queue = s.queue
        /\ NormalPlayingState(t.queue, t.playingState) = t.playingState
    BY NormalizedFields, NormalPlayingStateType, StateFields
  <1>2. CASE s.queue = <<>>
    <2>1. /\ t.currentIndex = NoIndex /\ t.playNextQueueLen = 0
          /\ t.position = AtStart
      BY <1>2, NormalizedFields
    <2> HIDE DEF t
    <2>2. ValidState(t)
      BY <1>1, <1>2, <2>1 DEF ValidState
    <2>3. Normalized(t) = t
      BY <1>1, <1>2, <2>1, LocatedSame DEF Normalized
    <2>4. QED
      BY <1>1, <2>2, <2>3 DEF WellFormed, t
  <1>3. CASE s.queue # <<>>
    <2>1. n \in Nat /\ s.currentIndex \in -1 .. n - 1
      BY <1>3, StateFields DEF ValidState, Indices, NoIndex
    <2>2. /\ t.currentIndex = s.currentIndex
          /\ t.playNextQueueLen \in 0 .. n - (s.currentIndex + 1)
      BY <1>3, NormalizedFields
    <2> HIDE DEF t, n
    <2>2a. t.playNextQueueLen \in Int /\ t.playNextQueueLen >= 0
      BY <2>1, <2>2
    <2>3. ClampedPlayNextLen(n, t.currentIndex, t.playNextQueueLen) = t.playNextQueueLen
      BY <2>1, <2>2, <2>2a, ClampedFits
    <2>4. ValidState(t)
      BY <1>1, <2>1, <2>2 DEF ValidState, Indices, NoIndex, n
    <2>5. Normalized(t) = t
      BY <1>1, <1>3, <2>3, LocatedSame DEF Normalized, n
    <2>6. QED
      BY <1>1, <2>4, <2>5 DEF WellFormed, t
  <1>4. QED
    BY <1>2, <1>3

-----------------------------------------------------------------------------
(* Index maps.                                                             *)

\* A one-to-one map from as many indices as there are values takes every value.
LEMMA OntoByCounting ==
    ASSUME NEW S, NEW m \in Nat, IsFiniteSet(S), Cardinality(S) = m,
           NEW f \in [S -> 0 .. m - 1],
           \A i, j \in S : f[i] = f[j] => i = j
    PROVE  \A v \in 0 .. m - 1 : \E i \in S : f[i] = v
  <1> DEFINE values == 0 .. m - 1
  <1>1. f \in Injection(S, values)
    BY Fun_IsInj
  <1>2. IsFiniteSet(values) /\ Cardinality(values) = m
    BY FS_Interval
  <1>3. f \in Surjection(S, values)
    BY <1>1, <1>2, FS_Injection
  <1> HIDE DEF values
  <1>4. \A v \in values : \E i \in S : f[i] = v
    BY <1>3, Fun_SurjectionProperties
  <1>5. QED
    BY <1>4 DEF values

\* How many of the first i indices R leaves out, which is the new index of i
\* when R is removed: it grows with every index that stays.
Rank(i, R) == Cardinality((0 .. i - 1) \ R)

LEMMA RankType ==
    ASSUME NEW i \in Nat, NEW R
    PROVE  IsFiniteSet((0 .. i - 1) \ R) /\ Rank(i, R) \in Nat
  <1>1. IsFiniteSet(0 .. i - 1)
    BY FS_Interval
  <1>2. IsFiniteSet((0 .. i - 1) \ R)
    BY <1>1, FS_Difference
  <1>3. QED
    BY <1>2, FS_CardinalityType DEF Rank

LEMMA RankGrows ==
    ASSUME NEW i \in Nat, NEW j \in Nat, NEW R, i < j, i \notin R
    PROVE  Rank(i, R) < Rank(j, R)
  <1> DEFINE A == (0 .. i - 1) \ R
             B == (0 .. j - 1) \ R
  <1>1. IsFiniteSet(B) /\ Cardinality(A) \in Nat /\ Cardinality(B) \in Nat
    BY RankType DEF Rank
  <1>2. A \in SUBSET B /\ i \in B /\ i \notin A
    OBVIOUS
  <1> HIDE DEF A, B
  <1>3. Cardinality(A) <= Cardinality(B) /\ (Cardinality(B) = Cardinality(A) => B = A)
    BY <1>1, <1>2, FS_Subset
  <1>4. Cardinality(A) < Cardinality(B)
    BY <1>1, <1>2, <1>3
  <1>5. QED
    BY <1>4 DEF Rank, A, B

\* The ranks of two indices that stay differ.
LEMMA RankInjective ==
    ASSUME NEW i \in Nat, NEW j \in Nat, NEW R, i \notin R, j \notin R,
           Rank(i, R) = Rank(j, R)
    PROVE  i = j
  <1>1. Rank(i, R) \in Nat /\ Rank(j, R) \in Nat
    BY RankType
  <1>2. ~(i < j) /\ ~(j < i)
    BY <1>1, RankGrows
  <1>3. QED
    BY <1>2

\* A map of the n indices of a queue onto the m indices of another one: every
\* index that survives has a place of its own.
IndexMap(map, n, m) ==
    /\ map \in Seq(Int) /\ Len(map) = n
    /\ IsFiniteSet(Survivors(map)) /\ Cardinality(Survivors(map)) = m
    /\ \A i \in Survivors(map) : ItemAt(map, i) \in 0 .. m - 1
    /\ \A i, j \in Survivors(map) : ItemAt(map, i) = ItemAt(map, j) => i = j

\* removedQueueIndexMap closes the gaps: what stays keeps its order and is
\* numbered from 0.
LEMMA RemovedIsIndexMap ==
    ASSUME NEW n \in Nat, NEW removing
    PROVE  LET map == RemovedIndexMap(n, removing)
           IN  /\ Survivors(map) = (0 .. n - 1) \ removing
               /\ \A i \in Survivors(map) : ItemAt(map, i) = Rank(i, removing)
               /\ Rank(n, removing) \in Nat
               /\ IndexMap(map, n, Rank(n, removing))
  <1> DEFINE map == RemovedIndexMap(n, removing)
             kept == (0 .. n - 1) \ removing
  <1>1. \A i \in 0 .. n - 1 : Rank(i, removing) \in Nat
    <2>1. \A i \in Nat : Rank(i, removing) \in Nat
      BY RankType
    <2>2. QED
      BY <2>1
  <1>2. \A i \in 0 .. n - 1 : ItemAt(map, i) = IF i \in removing THEN -1
                                               ELSE Rank(i, removing)
    BY DEF RemovedIndexMap, ItemAt, Gone, Rank
  <1>3. map \in Seq(Int) /\ Len(map) = n
    <2>1. \A k \in 1 .. n : (IF k - 1 \in removing THEN Gone
                             ELSE Cardinality((0 .. k - 2) \ removing)) \in Int
      <3>1. SUFFICES ASSUME NEW k \in 1 .. n
                     PROVE  Cardinality((0 .. k - 2) \ removing) \in Int
        BY DEF Gone
      <3>2. k - 1 \in 0 .. n - 1 /\ (k - 1) - 1 = k - 2
        OBVIOUS
      <3>3. Rank(k - 1, removing) \in Nat
        BY <1>1, <3>2
      <3>4. QED
        BY <3>2, <3>3 DEF Rank
    <2>2. map \in [1 .. n -> Int]
      BY <2>1 DEF RemovedIndexMap
    <2>3. QED
      BY <2>2
  <1>4. Survivors(map) = kept
    <2>1. Indices(map) = 0 .. n - 1
      BY <1>3 DEF Indices
    <2>2. QED
      BY <1>1, <1>2, <2>1 DEF Survivors, Gone
  <1>5. IsFiniteSet(kept) /\ Rank(n, removing) \in Nat /\ Cardinality(kept) = Rank(n, removing)
    BY RankType DEF Rank
  <1> HIDE DEF map
  <1>6. \A i \in kept : Rank(i, removing) \in 0 .. Rank(n, removing) - 1
    <2>1. SUFFICES ASSUME NEW i \in kept
                   PROVE  Rank(i, removing) \in 0 .. Rank(n, removing) - 1
      OBVIOUS
    <2>2. i \in Nat /\ i < n /\ i \notin removing
      OBVIOUS
    <2>3. Rank(i, removing) \in Nat /\ Rank(i, removing) < Rank(n, removing)
      BY <2>2, RankType, RankGrows
    <2>4. QED
      BY <1>5, <2>3
  <1>7. \A i, j \in kept : Rank(i, removing) = Rank(j, removing) => i = j
    BY RankInjective
  <1>8. \A i \in kept : ItemAt(map, i) = Rank(i, removing)
    BY <1>2
  <1> HIDE DEF kept
  <1>9. IndexMap(map, n, Rank(n, removing))
    BY <1>3, <1>4, <1>5, <1>6, <1>7, <1>8 DEF IndexMap
  <1>10. QED
    BY <1>4, <1>5, <1>8, <1>9 DEF map, kept

\* applyQueueIndexMap puts every survivor where the map says, and nothing else.
LEMMA AppliedIndexMap ==
    ASSUME NEW queue \in Seq(Entries), NEW map, NEW m \in Nat,
           IndexMap(map, Len(queue), m)
    PROVE  LET new == ApplyIndexMap(queue, map)
           IN  /\ new \in Seq(Entries)
               /\ Len(new) = m
               /\ \A i \in Survivors(map) : ItemAt(new, ItemAt(map, i)) = ItemAt(queue, i)
  <1> DEFINE S == Survivors(map)
             f == [i \in S |-> ItemAt(map, i)]
             from(v) == CHOOSE i \in S : ItemAt(map, i) = v
             new == ApplyIndexMap(queue, map)
  <1>1. S \subseteq 0 .. Len(queue) - 1 /\ Len(queue) \in Nat
    BY LenProperties DEF IndexMap, Survivors, Indices
  <1>2. \A v \in 0 .. m - 1 : \E i \in S : ItemAt(map, i) = v
    <2>1. f \in [S -> 0 .. m - 1] /\ \A i, j \in S : f[i] = f[j] => i = j
      BY DEF IndexMap
    <2>2. IsFiniteSet(S) /\ Cardinality(S) = m
      BY DEF IndexMap
    <2>3. \A i \in S : f[i] = ItemAt(map, i)
      OBVIOUS
    <2> HIDE DEF S, f
    <2>4. \A v \in 0 .. m - 1 : \E i \in S : f[i] = v
      BY <2>1, <2>2, OntoByCounting
    <2>5. QED
      BY <2>3, <2>4
  <1>3. \A v \in 0 .. m - 1 : from(v) \in S /\ ItemAt(map, from(v)) = v
    BY <1>2
  <1>4. \A v \in 0 .. m - 1 : ItemAt(queue, from(v)) \in Entries
    <2>1. \A i \in S : ItemAt(queue, i) \in Entries
      BY <1>1, ElementOfSeq DEF ItemAt
    <2>2. QED
      BY <1>3, <2>1
  <1>5. new = [k \in 1 .. m |-> ItemAt(queue, from(k - 1))]
    BY DEF ApplyIndexMap, IndexMap
  <1>6. new \in [1 .. m -> Entries]
    <2>1. \A k \in 1 .. m : k - 1 \in 0 .. m - 1
      OBVIOUS
    <2>2. QED
      BY <1>4, <1>5, <2>1
  <1>7. new \in Seq(Entries) /\ Len(new) = m
    BY <1>6
  <1>8. ASSUME NEW i \in S
        PROVE  ItemAt(new, ItemAt(map, i)) = ItemAt(queue, i)
    <2>1. ItemAt(map, i) \in 0 .. m - 1
      BY DEF IndexMap
    <2>2. from(ItemAt(map, i)) = i
      BY <1>3, <2>1 DEF IndexMap
    <2> DEFINE v == ItemAt(map, i)
    <2>3. v + 1 \in 1 .. m /\ (v + 1) - 1 = v
      BY <2>1
    <2> HIDE DEF v
    <2>4. ItemAt(new, v) = ItemAt(queue, from(v))
      BY <1>5, <2>3 DEF ItemAt
    <2>5. QED
      BY <2>2, <2>4 DEF v
  <1>9. QED
    BY <1>7, <1>8

LEMMA RankMonotone ==
    ASSUME NEW i \in Nat, NEW j \in Nat, NEW R, i <= j
    PROVE  Rank(i, R) <= Rank(j, R)
  <1> DEFINE A == (0 .. i - 1) \ R
             B == (0 .. j - 1) \ R
  <1>1. IsFiniteSet(B) /\ Cardinality(A) \in Nat /\ Cardinality(B) \in Nat
    BY RankType DEF Rank
  <1>2. A \in SUBSET B
    OBVIOUS
  <1> HIDE DEF A, B
  <1>3. Cardinality(A) <= Cardinality(B)
    BY <1>1, <1>2, FS_Subset
  <1>4. QED
    BY <1>3 DEF Rank, A, B

\* Of the first i indices, those outside R and those inside it make i.
LEMMA RankSplits ==
    ASSUME NEW i \in Nat, NEW R
    PROVE  /\ Rank(i, Nat \ R) = Cardinality((0 .. i - 1) \cap R)
           /\ Rank(i, R) + Rank(i, Nat \ R) = i
  <1> DEFINE below == 0 .. i - 1
  <1>1. IsFiniteSet(below) /\ Cardinality(below) = i
    BY FS_Interval
  <1>2. below \ (Nat \ R) = below \cap R
    OBVIOUS
  <1>3. Rank(i, R) \in Nat /\ Rank(i, Nat \ R) \in Nat
    BY RankType
  <1>4. Rank(i, R) = Cardinality(below \ R) /\ Rank(i, Nat \ R) = Cardinality(below \cap R)
    BY <1>2 DEF Rank
  <1> HIDE DEF below
  <1>5. Cardinality(below \ R) = Cardinality(below) - Cardinality(below \cap R)
    BY <1>1, FS_Difference
  <1>6. QED
    BY <1>1, <1>3, <1>4, <1>5 DEF below

\* movedQueueIndexMap is one-to-one: the block lands between the entries that
\* stay before the insertion point and those that stay after it.
LEMMA MovedIsIndexMap ==
    ASSUME NEW n \in Nat, NEW moving \in SUBSET (0 .. n - 1), NEW insertBefore \in 0 .. n
    PROVE  LET map == MovedIndexMap(n, moving, insertBefore)
           IN  /\ Survivors(map) = 0 .. n - 1
               /\ IndexMap(map, n, n)
  <1> DEFINE map == MovedIndexMap(n, moving, insertBefore)
             k == Cardinality(moving)
             insertAt == insertBefore - Cardinality({i \in moving : i < insertBefore})
             staying(i) == Rank(i, moving)
             ahead(i) == Rank(i, Nat \ moving)
  <1>1. /\ k = ahead(n) /\ k \in Nat
        /\ staying(n) \in Nat /\ staying(n) + k = n
    <2>1. (0 .. n - 1) \cap moving = moving
      OBVIOUS
    <2>2. ahead(n) = k /\ staying(n) + ahead(n) = n
      BY <2>1, RankSplits
    <2>3. ahead(n) \in Nat /\ staying(n) \in Nat
      BY RankType
    <2> HIDE DEF staying, ahead, k
    <2>4. QED
      BY <2>2, <2>3
  <1>2. insertAt = staying(insertBefore) /\ insertAt \in 0 .. n - k
    <2>1. insertBefore \in Nat /\ insertBefore <= n
      OBVIOUS
    <2>2. {i \in moving : i < insertBefore} = (0 .. insertBefore - 1) \cap moving
      <3>1. \A i \in moving : i < insertBefore <=> i \in 0 .. insertBefore - 1
        OBVIOUS
      <3>2. QED
        BY <3>1
    <2>3. /\ staying(insertBefore) + ahead(insertBefore) = insertBefore
          /\ ahead(insertBefore) = Cardinality({i \in moving : i < insertBefore})
      BY <2>1, <2>2, RankSplits
    <2>4. staying(insertBefore) \in Nat /\ ahead(insertBefore) \in Nat
      BY <2>1, RankType
    <2>5. staying(insertBefore) <= staying(n)
      BY <2>1, RankMonotone
    <2> HIDE DEF staying, ahead, k
    <2>6. QED
      BY <1>1, <2>3, <2>4, <2>5
  <1> DEFINE place(i) == IF i \in moving THEN insertAt + ahead(i)
                         ELSE IF staying(i) >= insertAt THEN staying(i) + k ELSE staying(i)
  <1>3. \A i \in 0 .. n - 1 : ItemAt(map, i) = place(i)
    <2>1. SUFFICES ASSUME NEW i \in 0 .. n - 1 PROVE ItemAt(map, i) = place(i)
      OBVIOUS
    <2>2. i + 1 \in 1 .. n /\ (i + 1) - 1 = i /\ i \in Nat
      OBVIOUS
    <2>3. ahead(i) = Cardinality((0 .. i - 1) \cap moving)
      BY <2>2, RankSplits
    <2>4. QED
      BY <2>2, <2>3 DEF MovedIndexMap, ItemAt, Rank
  <1>4. \A i \in 0 .. n - 1 :
            /\ staying(i) \in Nat /\ ahead(i) \in Nat
            /\ i \in moving => ahead(i) < k
            /\ i \notin moving => staying(i) < n - k
    <2>1. SUFFICES ASSUME NEW i \in 0 .. n - 1
                   PROVE  /\ staying(i) \in Nat /\ ahead(i) \in Nat
                          /\ i \in moving => ahead(i) < k
                          /\ i \notin moving => staying(i) < n - k
      OBVIOUS
    <2>2. i \in Nat /\ i < n
      OBVIOUS
    <2>3. i \in moving => ahead(i) < ahead(n)
      BY <2>2, RankGrows
    <2>4. i \notin moving => staying(i) < staying(n)
      BY <2>2, RankGrows
    <2>5. staying(i) \in Nat /\ ahead(i) \in Nat
      BY <2>2, RankType
    <2> HIDE DEF staying, ahead, k
    <2>6. QED
      BY <1>1, <2>3, <2>4, <2>5
  <1>5. \A i, j \in 0 .. n - 1 :
            /\ i \in moving /\ j \in moving /\ ahead(i) = ahead(j) => i = j
            /\ i \notin moving /\ j \notin moving /\ staying(i) = staying(j) => i = j
    BY RankInjective
  <1>6. map \in Seq(Int) /\ Len(map) = n
    <2>1. map = [x \in 1 .. n |-> map[x]]
      BY DEF MovedIndexMap
    <2>2. \A x \in 1 .. n : map[x] \in Int
      <3>1. SUFFICES ASSUME NEW x \in 1 .. n PROVE map[x] \in Int
        OBVIOUS
      <3>2. x - 1 \in 0 .. n - 1 /\ (x - 1) + 1 = x
        OBVIOUS
      <3>3. map[x] = place(x - 1)
        BY <1>3, <3>2 DEF ItemAt
      <3> HIDE DEF staying, ahead, k, insertAt, map
      <3>4. place(x - 1) \in Int
        BY <1>1, <1>2, <1>4, <3>2
      <3>5. QED
        BY <3>3, <3>4
    <2> HIDE DEF map
    <2>3. QED
      BY <2>1, <2>2
  <1> HIDE DEF map, staying, ahead, k, insertAt
  <1>7. \A i \in 0 .. n - 1 : place(i) \in 0 .. n - 1
    BY <1>1, <1>2, <1>4
  <1>8. \A i, j \in 0 .. n - 1 : place(i) = place(j) => i = j
    BY <1>1, <1>2, <1>4, <1>5
  <1> HIDE DEF place
  <1>9. Survivors(map) = 0 .. n - 1
    BY <1>3, <1>6, <1>7 DEF Survivors, Indices, Gone
  <1>10. IsFiniteSet(0 .. n - 1) /\ Cardinality(0 .. n - 1) = n
    BY FS_Interval
  <1>11. IndexMap(map, n, n)
    <2>1. \A i \in Survivors(map) : ItemAt(map, i) \in 0 .. n - 1
      BY <1>3, <1>7, <1>9
    <2>2. \A i, j \in Survivors(map) : ItemAt(map, i) = ItemAt(map, j) => i = j
      BY <1>3, <1>8, <1>9
    <2>3. IsFiniteSet(Survivors(map)) /\ Cardinality(Survivors(map)) = n
      BY <1>9, <1>10
    <2>4. QED
      BY <1>6, <2>1, <2>2, <2>3 DEF IndexMap
  <1>12. QED
    BY <1>9, <1>11 DEF map

\* Applying an index map leads to a queue the map tracks.
LEMMA AppliedIsTracked ==
    ASSUME NEW queue \in Seq(Entries), NEW map, NEW m \in Nat,
           IndexMap(map, Len(queue), m)
    PROVE  /\ MapTracks(queue, ApplyIndexMap(queue, map), map)
           /\ Len(ApplyIndexMap(queue, map)) = m
           /\ ApplyIndexMap(queue, map) \in Seq(Entries)
  <1>1. /\ ApplyIndexMap(queue, map) \in Seq(Entries)
        /\ Len(ApplyIndexMap(queue, map)) = m
        /\ \A i \in Survivors(map) :
              ItemAt(ApplyIndexMap(queue, map), ItemAt(map, i)) = ItemAt(queue, i)
    BY AppliedIndexMap
  <1>2. Indices(ApplyIndexMap(queue, map)) = 0 .. m - 1
    BY <1>1 DEF Indices
  <1> HIDE DEF ApplyIndexMap
  <1>3. QED
    BY <1>1, <1>2 DEF IndexMap, MapTracks

\* Items inserted at a position push back what stood there: the map of
\* reduceQueueCommand tracks the queue they make.
LEMMA InsertedIsTracked ==
    ASSUME NEW queue \in Seq(Entries), NEW items \in Seq(Entries),
           NEW at \in 0 .. Len(queue)
    PROVE  LET n == Len(queue)
               new == SubSeq(queue, 1, at) \o items \o SubSeq(queue, at + 1, n)
               map == InsertedIndexMap(n, at, Len(items))
           IN  /\ new \in Seq(Entries)
               /\ Len(new) = n + Len(items)
               /\ map \in Seq(Int)
               /\ MapTracks(queue, new, map)
               /\ \A x \in 1 .. at : new[x] = queue[x]
               /\ \A x \in at + 1 .. at + Len(items) : new[x] = items[x - at]
  <1> DEFINE n == Len(queue)
             c == Len(items)
             before == SubSeq(queue, 1, at)
             after == SubSeq(queue, at + 1, n)
             front == before \o items
             new == front \o after
             map == InsertedIndexMap(n, at, c)
  <1>1. n \in Nat /\ c \in Nat /\ at \in Nat /\ at <= n
    BY LenProperties
  <1>2. \A x \in 1 .. n : queue[x] \in Entries
    BY ElementOfSeq
  <1>3. /\ before \in Seq(Entries) /\ Len(before) = at
        /\ \A x \in 1 .. at : before[x] = queue[x]
    <2>1. \A x \in 1 .. at : queue[x] \in Entries
      BY <1>1, <1>2
    <2>2. /\ before \in Seq(Entries)
          /\ Len(before) = IF 1 <= at THEN at - 1 + 1 ELSE 0
          /\ \A x \in 1 .. at - 1 + 1 : before[x] = queue[1 + x - 1]
      BY <1>1, <2>1, SubSeqProperties
    <2> HIDE DEF before
    <2>3. QED
      BY <1>1, <2>2
  <1>4. /\ after \in Seq(Entries) /\ Len(after) = n - at
        /\ \A x \in 1 .. n - at : after[x] = queue[at + x]
    <2>1. \A x \in at + 1 .. n : queue[x] \in Entries
      BY <1>1, <1>2
    <2>2. /\ after \in Seq(Entries)
          /\ Len(after) = IF at + 1 <= n THEN n - (at + 1) + 1 ELSE 0
          /\ \A x \in 1 .. n - (at + 1) + 1 : after[x] = queue[(at + 1) + x - 1]
      BY <1>1, <2>1, SubSeqProperties
    <2> HIDE DEF after, n
    <2>3. QED
      BY <1>1, <2>2
  <1> HIDE DEF before, after
  <1>5. /\ front \in Seq(Entries) /\ Len(front) = at + c
        /\ \A x \in 1 .. at + c : front[x] =
              IF x <= at THEN before[x] ELSE items[x - at]
    BY <1>3, ConcatProperties
  <1> HIDE DEF front
  <1>6. /\ new \in Seq(Entries) /\ Len(new) = (at + c) + (n - at)
        /\ \A x \in 1 .. (at + c) + (n - at) : new[x] =
              IF x <= at + c THEN front[x] ELSE after[x - (at + c)]
    <2>1. /\ new \in Seq(Entries) /\ Len(new) = Len(front) + Len(after)
          /\ \A x \in 1 .. Len(front) + Len(after) : new[x] =
                IF x <= Len(front) THEN front[x] ELSE after[x - Len(front)]
      BY <1>4, <1>5, ConcatProperties
    <2> HIDE DEF new, n
    <2>2. QED
      BY <1>4, <1>5, <2>1
  <1> HIDE DEF new, n, c
  <1>7. /\ \A x \in 1 .. at : new[x] = queue[x]
        /\ \A x \in at + 1 .. at + c : new[x] = items[x - at]
        /\ \A x \in at + 1 .. n : new[x + c] = queue[x]
    <2>1. ASSUME NEW x \in 1 .. at PROVE new[x] = queue[x]
      BY <1>1, <1>3, <1>5, <1>6
    <2>2. ASSUME NEW x \in at + 1 .. n PROVE new[x + c] = queue[x]
      <3>1. x + c \in 1 .. (at + c) + (n - at) /\ ~(x + c <= at + c)
        BY <1>1
      <3>2. (x + c) - (at + c) = x - at /\ x - at \in 1 .. n - at /\ at + (x - at) = x
        BY <1>1
      <3>3. QED
        BY <1>4, <1>6, <3>1, <3>2
    <2>3. ASSUME NEW x \in at + 1 .. at + c PROVE new[x] = items[x - at]
      BY <1>1, <1>5, <1>6
    <2>4. QED
      BY <2>1, <2>2, <2>3
  <1>8. map \in Seq(Int) /\ Len(map) = n
    <2>1. map \in [1 .. n -> Int]
      BY <1>1 DEF InsertedIndexMap
    <2>2. QED
      BY <1>1, <2>1
  <1>9. \A i \in 0 .. n - 1 : ItemAt(map, i) = IF i >= at THEN i + c ELSE i
    BY <1>1 DEF InsertedIndexMap, ItemAt
  <1> HIDE DEF map
  <1>10. Survivors(map) = 0 .. n - 1
    BY <1>1, <1>8, <1>9 DEF Survivors, Indices, Gone
  <1>11. Len(new) = n + c
    BY <1>1, <1>6
  <1>12. \A i \in 0 .. n - 1 : ItemAt(map, i) \in Indices(new)
    BY <1>1, <1>9, <1>11 DEF Indices
  <1>13. ASSUME NEW i \in 0 .. n - 1
         PROVE  ItemAt(new, ItemAt(map, i)) = ItemAt(queue, i)
    <2>1. CASE i >= at
      <3>1. ItemAt(map, i) + 1 = (i + 1) + c /\ i + 1 \in at + 1 .. n
        BY <1>1, <1>9, <2>1
      <3>2. QED
        BY <1>7, <3>1 DEF ItemAt
    <2>2. CASE i < at
      <3>1. ItemAt(map, i) + 1 = i + 1 /\ i + 1 \in 1 .. at
        BY <1>1, <1>9, <2>2
      <3>2. QED
        BY <1>7, <3>1 DEF ItemAt
    <2>3. QED
      BY <1>1, <2>1, <2>2
  <1>14. \A i, j \in 0 .. n - 1 : ItemAt(map, i) = ItemAt(map, j) => i = j
    BY <1>1, <1>9
  <1>15. MapTracks(queue, new, map)
    BY <1>8, <1>10, <1>12, <1>13, <1>14 DEF MapTracks, n
  <1>16. QED
    BY <1>6, <1>7, <1>8, <1>11, <1>15 DEF new, front, n, c, before, after, map

-----------------------------------------------------------------------------
(* The reducers.                                                           *)

\* What every reducer owes the state it starts from, before the result is
\* normalised.
Follows(s, t) ==
    /\ t \in PlaybackState
    /\ RevisionFollows(s, t)

\* The facts about a decoded state the reducers rely on.
LEMMA WellFormedFields ==
    ASSUME NEW s, WellFormed(s)
    PROVE  /\ s \in PlaybackState /\ ValidState(s)
           /\ Len(s.queue) \in Nat
           /\ s.currentIndex \in -1 .. Len(s.queue) - 1
           /\ s.playNextQueueLen \in 0 .. Len(s.queue) - (s.currentIndex + 1)
  <1>1. s \in PlaybackState /\ ValidState(s) /\ Normalized(s) = s
    BY DEF WellFormed
  <1>2. CASE s.queue = <<>>
    <2>1. s.currentIndex = NoIndex /\ s.playNextQueueLen = 0
      BY <1>1, <1>2, NormalizedFields
    <2>2. QED
      BY <1>1, <1>2, <2>1 DEF NoIndex
  <1>3. CASE s.queue # <<>>
    <2>1. s.playNextQueueLen \in 0 .. Len(s.queue) - (s.currentIndex + 1)
      BY <1>1, <1>3, NormalizedFields
    <2>2. Len(s.queue) \in Nat /\ s.currentIndex \in Indices(s.queue) \cup {NoIndex}
      BY <1>1, <1>3, StateFields DEF ValidState
    <2>3. QED
      BY <1>1, <2>1, <2>2 DEF Indices, NoIndex
  <1>4. QED
    BY <1>2, <1>3

LEMMA RecordedFollows ==
    ASSUME NEW s \in PlaybackState, NEW queue \in Seq(Entries), NEW map \in Seq(Int),
           map = EmptyMap \/ MapTracks(s.queue, queue, map)
    PROVE  Follows(s, RecordQueueChange(s, queue, map))
  BY RecordedType DEF Follows, RevisionFollows

\* Moving to a place inside the queue keeps what the queue change recorded.
LEMMA LocatedFollows ==
    ASSUME NEW s, NEW r, Follows(s, r),
           NEW index \in Int, NEW len \in Int, len >= 0,
           NEW position \in {AtStart, Later}, NEW playing \in PlayingStates,
           r.queue # <<>> => index \in Indices(r.queue) \cup {NoIndex}
    PROVE  /\ Follows(s, Located(r, index, len, position, playing))
           /\ ValidState(Located(r, index, len, position, playing))
  <1> DEFINE u == Located(r, index, len, position, playing)
  <1>1a. r \in PlaybackState
    BY DEF Follows
  <1>1. /\ u \in PlaybackState
        /\ u.queue = r.queue /\ u.queueRevision = r.queueRevision
        /\ u.queueIndexMap = r.queueIndexMap
        /\ u.currentIndex = index /\ u.playNextQueueLen = len
    BY <1>1a DEF Located, PlaybackState
  <1> HIDE DEF u
  <1>2. Follows(s, u)
    BY <1>1 DEF Follows, RevisionFollows
  <1>3. ValidState(u)
    BY <1>1 DEF ValidState
  <1>4. QED
    BY <1>2, <1>3 DEF u

\* What a device learns from a normalised result is what the reducer recorded.
LEMMA NormalizedFollows ==
    ASSUME NEW s, NEW t, Follows(s, t), ValidState(t)
    PROVE  Follows(s, Normalized(t)) /\ WellFormed(Normalized(t))
  <1>1. /\ Normalized(t) \in PlaybackState
        /\ Normalized(t).queue = t.queue
        /\ Normalized(t).queueRevision = t.queueRevision
        /\ Normalized(t).queueIndexMap = t.queueIndexMap
    BY NormalizedFields DEF Follows
  <1>2. WellFormed(Normalized(t))
    BY NormalizedWellFormed DEF Follows
  <1>3. QED
    BY <1>1, <1>2 DEF Follows, RevisionFollows

LEMMA StoppedOrIdleType ==
    ASSUME NEW queue
    PROVE  StoppedOrIdle(queue) \in PlayingStates
  BY DEF StoppedOrIdle, PlayingStates

LEMMA SetQueueFollows ==
    ASSUME NEW s, WellFormed(s), NEW queue \in Seq(Entries), NEW index \in Int,
           queue # <<>> => index \in 0 .. Len(queue) - 1 \cup {NoIndex}
    PROVE  Follows(s, SetQueue(s, queue, index)) /\ ValidState(SetQueue(s, queue, index))
  <1> DEFINE t == RecordQueueChange(s, queue, EmptyMap)
             current == IF queue = <<>> THEN NoIndex
                        ELSE IF index = NoIndex THEN 0 ELSE index
  <1>1. EmptyMap \in Seq(Int)
    BY DEF EmptyMap
  <1>2. Follows(s, t) /\ t.queue = queue
    BY <1>1, WellFormedFields, RecordedFollows, RecordedType
  <1>3. current \in Int /\ (queue # <<>> => current \in Indices(queue))
    <2>1. queue # <<>> => Len(queue) \in Nat \ {0}
      BY EmptySeq
    <2>2. QED
      BY <2>1 DEF Indices, NoIndex
  <1>4. StoppedOrIdle(queue) \in PlayingStates
    BY StoppedOrIdleType
  <1>5. SetQueue(s, queue, index)
           = Located(t, current, 0, AtStart, StoppedOrIdle(queue))
    BY DEF SetQueue
  <1> HIDE DEF t, current
  <1>6. QED
    BY <1>2, <1>3, <1>4, <1>5, LocatedFollows

\* Changing the length of the region only.
LEMMA LenOnly ==
    ASSUME NEW t \in PlaybackState, NEW len
    PROVE  [t EXCEPT !.playNextQueueLen = len]
               = Located(t, t.currentIndex, len, t.position, t.playingState)
  BY DEF Located, PlaybackState

LEMMA LenFollows ==
    ASSUME NEW s, NEW t, Follows(s, t), NEW len \in Int, len >= 0,
           t.queue # <<>> => t.currentIndex \in Indices(t.queue) \cup {NoIndex}
    PROVE  LET u == [t EXCEPT !.playNextQueueLen = len]
           IN  Follows(s, u) /\ ValidState(u) /\ u.queue = t.queue
  <1>1. t \in PlaybackState
    BY DEF Follows
  <1>2. /\ t.currentIndex \in Int /\ t.position \in {AtStart, Later}
        /\ t.playingState \in PlayingStates
    BY <1>1, StateFields
  <1>3. [t EXCEPT !.playNextQueueLen = len].queue = t.queue
    BY <1>1 DEF PlaybackState
  <1> DEFINE v == Located(t, t.currentIndex, len, t.position, t.playingState)
  <1>4. Follows(s, v) /\ ValidState(v)
    BY <1>2, LocatedFollows
  <1>5. [t EXCEPT !.playNextQueueLen = len] = v
    BY <1>1, LenOnly
  <1> HIDE DEF v
  <1>6. QED
    BY <1>3, <1>4, <1>5

LEMMA WithCurrentFollows ==
    ASSUME NEW s, NEW t, Follows(s, t), ValidState(t)
    PROVE  Follows(s, WithCurrent(t)) /\ ValidState(WithCurrent(t))
  <1>1. CASE t.currentIndex # NoIndex
    BY <1>1 DEF WithCurrent
  <1>2. CASE t.currentIndex = NoIndex
    <2>1. t \in PlaybackState
      BY DEF Follows
    <2>2. t.playNextQueueLen \in Int /\ t.playNextQueueLen >= 0
      BY <2>1, StateFields DEF ValidState
    <2>3. t.queue # <<>> => 0 \in Indices(t.queue) \cup {NoIndex}
      BY <2>1, StateFields DEF Indices
    <2>4. StoppedOrIdle(t.queue) \in PlayingStates
      BY StoppedOrIdleType
    <2>5. WithCurrent(t) = Located(t, 0, t.playNextQueueLen, AtStart, StoppedOrIdle(t.queue))
      BY <1>2 DEF WithCurrent
    <2>6. QED
      BY <2>2, <2>3, <2>4, <2>5, LocatedFollows
  <1>3. QED
    BY <1>1, <1>2

LEMMA InsertAfterCurrentFollows ==
    ASSUME NEW s, WellFormed(s), NEW items \in Seq(Entries)
    PROVE  /\ Follows(s, InsertAfterCurrent(s, items))
           /\ ValidState(InsertAfterCurrent(s, items))
  <1> DEFINE n == Len(s.queue)
             at == PlayNextEnd(n, s.currentIndex, s.playNextQueueLen)
             queue == SubSeq(s.queue, 1, at) \o items \o SubSeq(s.queue, at + 1, n)
             map == InsertedIndexMap(n, at, Len(items))
             inserted == RecordQueueChange(s, queue, map)
             len == inserted.playNextQueueLen + Len(items)
             u == [inserted EXCEPT !.playNextQueueLen = len]
  <1>1. /\ s \in PlaybackState /\ s.queue \in Seq(Entries)
        /\ n \in Nat /\ Len(items) \in Nat
        /\ s.currentIndex \in -1 .. n - 1
        /\ s.playNextQueueLen \in 0 .. n - (s.currentIndex + 1)
    BY WellFormedFields, StateFields, LenProperties
  <1>2. at \in 0 .. n
    <2> HIDE DEF n
    <2>1. s.playNextQueueLen \in Int
      BY <1>1
    <2>2. /\ PlayNextStart(n, s.currentIndex) = s.currentIndex + 1
          /\ ClampedPlayNextLen(n, s.currentIndex, s.playNextQueueLen) = s.playNextQueueLen
      BY <1>1, <2>1, ClampedFits
    <2>3. QED
      BY <1>1, <2>2 DEF PlayNextEnd
  <1> HIDE DEF at
  <1>3. /\ queue \in Seq(Entries) /\ Len(queue) = n + Len(items)
        /\ map \in Seq(Int) /\ MapTracks(s.queue, queue, map)
    BY <1>1, <1>2, InsertedIsTracked
  <1> HIDE DEF queue, map
  <1>4. /\ Follows(s, inserted)
        /\ inserted.queue = queue
        /\ inserted.currentIndex = s.currentIndex
        /\ inserted.playNextQueueLen = s.playNextQueueLen
    BY <1>1, <1>3, RecordedFollows, RecordedType
  <1> HIDE DEF inserted
  <1>5. len \in Int /\ len >= 0
    BY <1>1, <1>4
  <1>6. inserted.currentIndex \in Indices(inserted.queue) \cup {NoIndex}
    BY <1>1, <1>3, <1>4 DEF Indices, NoIndex
  <1> HIDE DEF len
  <1>7. Follows(s, u) /\ ValidState(u)
    BY <1>4, <1>5, <1>6, LenFollows
  <1>8. InsertAfterCurrent(s, items) = WithCurrent(u)
    BY DEF InsertAfterCurrent, u, len, inserted, queue, map, at
  <1> HIDE DEF u
  <1>9. QED
    BY <1>7, <1>8, WithCurrentFollows

LEMMA AppendToQueueFollows ==
    ASSUME NEW s, WellFormed(s), NEW items \in Seq(Entries)
    PROVE  Follows(s, AppendToQueue(s, items)) /\ ValidState(AppendToQueue(s, items))
  <1> DEFINE n == Len(s.queue)
             queue == s.queue \o items
             map == InsertedIndexMap(n, n, 0)
             appended == RecordQueueChange(s, queue, map)
             len == IF s.currentIndex = NoIndex THEN 0 ELSE appended.playNextQueueLen
             u == [appended EXCEPT !.playNextQueueLen = len]
  <1>1. /\ s \in PlaybackState /\ s.queue \in Seq(Entries)
        /\ n \in Nat /\ Len(items) \in Nat
        /\ s.currentIndex \in -1 .. n - 1
        /\ s.playNextQueueLen \in 0 .. n - (s.currentIndex + 1)
    BY WellFormedFields, StateFields, LenProperties
  <1>2. map = InsertedIndexMap(n, n, Len(items))
    BY <1>1 DEF InsertedIndexMap
  <1>3. SubSeq(s.queue, 1, n) \o items \o SubSeq(s.queue, n + 1, n) = queue
    <2>1. SubSeq(s.queue, 1, n) = s.queue
      BY <1>1, SubSeqFull
    <2>2. SubSeq(s.queue, n + 1, n) = <<>>
      BY <1>1, SubSeqEmpty
    <2>3. queue \in Seq(Entries)
      BY <1>1, ConcatProperties
    <2> HIDE DEF n
    <2>4. queue \o <<>> = queue
      BY <2>3, ConcatEmptySeq
    <2>5. QED
      BY <2>1, <2>2, <2>4
  <1>4. n \in 0 .. Len(s.queue)
    BY <1>1
  <1>5. /\ queue \in Seq(Entries) /\ Len(queue) = n + Len(items)
        /\ map \in Seq(Int) /\ MapTracks(s.queue, queue, map)
    <2> DEFINE new == SubSeq(s.queue, 1, n) \o items \o SubSeq(s.queue, n + 1, n)
               tracks == InsertedIndexMap(n, n, Len(items))
    <2>1. /\ new \in Seq(Entries) /\ Len(new) = n + Len(items)
          /\ tracks \in Seq(Int) /\ MapTracks(s.queue, new, tracks)
      BY <1>1, <1>4, InsertedIsTracked
    <2>2. new = queue /\ tracks = map
      BY <1>2, <1>3
    <2> HIDE DEF new, tracks, queue, map
    <2>3. QED
      BY <2>1, <2>2
  <1> HIDE DEF queue, map
  <1>6. /\ Follows(s, appended)
        /\ appended.queue = queue
        /\ appended.currentIndex = s.currentIndex
        /\ appended.playNextQueueLen = s.playNextQueueLen
    BY <1>1, <1>5, RecordedFollows, RecordedType
  <1> HIDE DEF appended
  <1>7. len \in Int /\ len >= 0
    BY <1>1, <1>6
  <1>8. appended.currentIndex \in Indices(appended.queue) \cup {NoIndex}
    BY <1>1, <1>5, <1>6 DEF Indices, NoIndex
  <1> HIDE DEF len
  <1>9. Follows(s, u) /\ ValidState(u)
    BY <1>6, <1>7, <1>8, LenFollows
  <1>10. AppendToQueue(s, items) = WithCurrent(u)
    BY DEF AppendToQueue, u, len, appended, queue, map
  <1> HIDE DEF u
  <1>11. QED
    BY <1>9, <1>10, WithCurrentFollows

LEMMA MoveFollows ==
    ASSUME NEW s, WellFormed(s), NEW moving \in SUBSET Indices(s.queue),
           NEW insertBefore \in 0 .. Len(s.queue)
    PROVE  /\ Follows(s, MoveQueueIndices(s, moving, insertBefore))
           /\ ValidState(MoveQueueIndices(s, moving, insertBefore))
  <1> DEFINE n == Len(s.queue)
             map == MovedIndexMap(n, moving, insertBefore)
             queue == ApplyIndexMap(s.queue, map)
             current == IF s.currentIndex = NoIndex THEN NoIndex
                        ELSE ItemAt(map, s.currentIndex)
             len == AdjustedPlayNextLen(n, s.currentIndex, s.playNextQueueLen, current)
             t == RecordQueueChange(s, queue, map)
  <1>1. /\ s \in PlaybackState /\ ValidState(s) /\ s.queue \in Seq(Entries) /\ n \in Nat
        /\ s.currentIndex \in -1 .. n - 1
        /\ s.playNextQueueLen \in Int
    BY WellFormedFields, StateFields
  <1>2. CASE \A i \in Indices(map) : ItemAt(map, i) = i
    <2>1. MoveQueueIndices(s, moving, insertBefore) = s
      BY <1>2 DEF MoveQueueIndices
    <2>2. Follows(s, s)
      BY <1>1 DEF Follows, RevisionFollows
    <2>3. QED
      BY <1>1, <2>1, <2>2
  <1>3. CASE ~ \A i \in Indices(map) : ItemAt(map, i) = i
    <2>1. Survivors(map) = 0 .. n - 1 /\ IndexMap(map, n, n)
      <3>1. moving \in SUBSET (0 .. n - 1)
        BY DEF Indices
      <3>2. QED
        BY <1>1, <3>1, MovedIsIndexMap
    <2>2. MoveQueueIndices(s, moving, insertBefore)
             = Located(t, current, len, s.position, s.playingState)
      BY <1>3 DEF MoveQueueIndices
    <2> HIDE DEF map
    <2>3. map \in Seq(Int) /\ \A i \in 0 .. n - 1 : ItemAt(map, i) \in 0 .. n - 1
      BY <2>1 DEF IndexMap
    <2>4. queue \in Seq(Entries) /\ Len(queue) = n /\ MapTracks(s.queue, queue, map)
      BY <1>1, <2>1, AppliedIsTracked
    <2> HIDE DEF queue, n
    <2>5. Follows(s, t) /\ t.queue = queue
      BY <1>1, <2>3, <2>4, RecordedFollows, RecordedType
    <2>6. current \in -1 .. n - 1
      BY <1>1, <2>3 DEF NoIndex
    <2> HIDE DEF current, t
    <2>7. len \in 0 .. n
      BY <1>1, <2>6, AdjustedFits
    <2> HIDE DEF len
    <2>8. current \in Int /\ len \in Int /\ len >= 0
      BY <1>1, <2>6, <2>7
    <2>9. current \in Indices(t.queue) \cup {NoIndex}
      BY <1>1, <2>4, <2>5, <2>6 DEF Indices, NoIndex
    <2>10. s.position \in {AtStart, Later} /\ s.playingState \in PlayingStates
      BY <1>1, StateFields
    <2>11. QED
      BY <2>2, <2>5, <2>8, <2>9, <2>10, LocatedFollows
  <1>4. QED
    BY <1>2, <1>3

\* Removing every entry leaves an empty queue and a map without survivors.
LEMMA RemovedAllFollows ==
    ASSUME NEW s, WellFormed(s), NEW map \in Seq(Int),
           Len(map) = Len(s.queue), Survivors(map) = {}
    PROVE  Follows(s, RemovedAll(s, map)) /\ ValidState(RemovedAll(s, map))
  <1> DEFINE t == RecordQueueChange(s, <<>>, map)
  <1>1. s \in PlaybackState /\ <<>> \in Seq(Entries)
    BY WellFormedFields, EmptySeq
  <1>2. MapTracks(s.queue, <<>>, map)
    BY DEF MapTracks
  <1>3. Follows(s, t) /\ t.queue = <<>>
    BY <1>1, <1>2, RecordedFollows, RecordedType
  <1>4. "idle" \in PlayingStates /\ NoIndex \in Int
    BY DEF PlayingStates, NoIndex
  <1>5. RemovedAll(s, map) = Located(t, NoIndex, 0, AtStart, "idle")
    BY DEF RemovedAll
  <1> HIDE DEF t
  <1>6. QED
    BY <1>3, <1>4, <1>5, LocatedFollows

LEMMA RemoveIndexFollows ==
    ASSUME NEW s, WellFormed(s), NEW index \in Indices(s.queue)
    PROVE  Follows(s, RemoveQueueIndex(s, index)) /\ ValidState(RemoveQueueIndex(s, index))
  <1> DEFINE n == Len(s.queue)
             map == RemovedIndexMap(n, {index})
             m == Rank(n, {index})
             queue == ApplyIndexMap(s.queue, map)
             current == CurrentAfterRemoval(n, s.currentIndex, index)
             len == IF ConsumesPlayNext(s, index)
                    THEN s.playNextQueueLen - 1 ELSE s.playNextQueueLen
             clamped == ClampedPlayNextLen(n - 1, current, len)
             position == IF current = index THEN AtStart ELSE s.position
             t == RecordQueueChange(s, queue, map)
  <1>1. /\ s \in PlaybackState /\ s.queue \in Seq(Entries) /\ n \in Nat
        /\ s.currentIndex \in -1 .. n - 1
        /\ s.playNextQueueLen \in Int
        /\ index \in 0 .. n - 1
    BY WellFormedFields, StateFields DEF Indices
  <1>2. m = n - 1
    <2> HIDE DEF n
    <2>1. IsFiniteSet(0 .. n - 1) /\ Cardinality(0 .. n - 1) = n
      BY <1>1, FS_Interval
    <2>2. Cardinality((0 .. n - 1) \ {index}) = n - 1
      <3> DEFINE below == 0 .. n - 1
      <3>1. index \in below /\ IsFiniteSet(below) /\ Cardinality(below) = n
        BY <1>1, <2>1
      <3> HIDE DEF below
      <3>2. Cardinality(below \ {index}) = Cardinality(below) - 1
        BY <3>1, FS_RemoveElement
      <3>3. QED
        BY <3>1, <3>2 DEF below
    <2>3. QED
      BY <2>2 DEF Rank
  <1>3. /\ Survivors(map) = (0 .. n - 1) \ {index}
        /\ m \in Nat /\ IndexMap(map, n, m)
    BY <1>1, RemovedIsIndexMap
  <1>4. map \in Seq(Int) /\ Len(map) = n
    BY <1>3 DEF IndexMap
  <1>5. CASE n = 1
    <2>1. Survivors(map) = {}
      BY <1>1, <1>3, <1>5
    <2>2. RemoveQueueIndex(s, index) = RemovedAll(s, map)
      BY <1>5 DEF RemoveQueueIndex
    <2> HIDE DEF map
    <2>3. QED
      BY <1>4, <2>1, <2>2, RemovedAllFollows
  <1>6. CASE n # 1
    <2>1. RemoveQueueIndex(s, index)
             = Located(t, current, clamped, position, s.playingState)
      BY <1>6 DEF RemoveQueueIndex
    <2> HIDE DEF map, m
    <2>2. queue \in Seq(Entries) /\ Len(queue) = n - 1 /\ MapTracks(s.queue, queue, map)
      BY <1>1, <1>2, <1>3, AppliedIsTracked
    <2> HIDE DEF queue, n
    <2>3. Follows(s, t) /\ t.queue = queue
      BY <1>1, <1>4, <2>2, RecordedFollows, RecordedType
    <2>4. n - 1 \in Nat /\ current \in -1 .. (n - 1) - 1
      BY <1>1, <1>6 DEF CurrentAfterRemoval
    <2>5. len \in Int
      BY <1>1
    <2> HIDE DEF current, len, t
    <2>6. clamped \in 0 .. (n - 1) - (current + 1)
      BY <2>4, <2>5, ClampedFits
    <2> HIDE DEF clamped
    <2>7. current \in Int /\ clamped \in Int /\ clamped >= 0
      BY <2>4, <2>6
    <2>8. current \in Indices(t.queue) \cup {NoIndex}
      BY <2>2, <2>3, <2>4 DEF Indices, NoIndex
    <2>9. position \in {AtStart, Later} /\ s.playingState \in PlayingStates
      BY <1>1, StateFields
    <2> HIDE DEF position
    <2>10. QED
      BY <2>1, <2>3, <2>7, <2>8, <2>9, LocatedFollows
  <1>7. QED
    BY <1>5, <1>6

\* Every set of natural numbers but the empty one has a least one.
LEMMA LeastExists ==
    ASSUME NEW S \in SUBSET Nat, S # {}
    PROVE  \E i \in S : \A j \in S : i <= j
  <1>1. PICK i \in S : \A j \in S : ~ (<<j, i>> \in OpToRel(<, Nat))
    BY NatLessThanWellFounded, WFMin
  <1>2. \A j \in S : ~ (j < i)
    BY <1>1 DEF OpToRel
  <1>3. QED
    BY <1>2

LEMMA RemoveIndicesFollows ==
    ASSUME NEW s, WellFormed(s), NEW removing \in SUBSET Indices(s.queue)
    PROVE  /\ Follows(s, RemoveQueueIndices(s, removing))
           /\ ValidState(RemoveQueueIndices(s, removing))
  <1> DEFINE n == Len(s.queue)
             map == RemovedIndexMap(n, removing)
             kept == Survivors(map)
             left == Cardinality(kept)
             queue == ApplyIndexMap(s.queue, map)
             t == RecordQueueChange(s, queue, map)
             removingCurrent == s.currentIndex \in removing
             after == {i \in kept : i > s.currentIndex}
             hasReplacement == removingCurrent /\ after # {}
             replacement == CHOOSE i \in after : \A j \in after : i <= j
             surviving == {i \in kept :
                              /\ ~(hasReplacement /\ i = replacement)
                              /\ i \in PlayNextRegion(n, s.currentIndex, s.playNextQueueLen)}
             current == IF s.currentIndex = NoIndex THEN NoIndex
                        ELSE IF ~removingCurrent THEN ItemAt(map, s.currentIndex)
                        ELSE IF hasReplacement THEN ItemAt(map, replacement)
                        ELSE left - 1
             len == ClampedPlayNextLen(left, current, Cardinality(surviving))
             position == IF removingCurrent THEN AtStart ELSE s.position
             playing == IF ~removingCurrent THEN s.playingState
                        ELSE IF hasReplacement /\ s.playingState \in LoadedStates
                        THEN "paused" ELSE "stopped"
  <1>1. /\ s \in PlaybackState /\ s.queue \in Seq(Entries) /\ n \in Nat
        /\ s.currentIndex \in -1 .. n - 1
        /\ s.position \in {AtStart, Later} /\ s.playingState \in PlayingStates
    BY WellFormedFields, StateFields
  <1>2. kept = (0 .. n - 1) \ removing /\ IndexMap(map, n, left) /\ left \in Nat
    <2>1. /\ kept = (0 .. n - 1) \ removing
          /\ Rank(n, removing) \in Nat /\ IndexMap(map, n, Rank(n, removing))
      BY <1>1, RemovedIsIndexMap
    <2>2. left = Rank(n, removing)
      BY <2>1 DEF IndexMap
    <2>3. QED
      BY <2>1, <2>2
  <1>3. /\ map \in Seq(Int) /\ Len(map) = n /\ IsFiniteSet(kept)
        /\ \A i \in kept : ItemAt(map, i) \in 0 .. left - 1
    BY <1>2 DEF IndexMap
  <1>4. CASE left = 0
    <2>1. kept = {}
      BY <1>3, <1>4, FS_EmptySet
    <2>2. RemoveQueueIndices(s, removing) = RemovedAll(s, map)
      BY <1>4 DEF RemoveQueueIndices
    <2> HIDE DEF map
    <2>3. QED
      BY <1>3, <2>1, <2>2, RemovedAllFollows
  <1>5. CASE left # 0
    <2>1. RemoveQueueIndices(s, removing) = Located(t, current, len, position, playing)
      BY <1>5 DEF RemoveQueueIndices
    <2>2. queue \in Seq(Entries) /\ Len(queue) = left /\ MapTracks(s.queue, queue, map)
      <3> HIDE DEF map, left
      <3>1. QED
        BY <1>1, <1>2, AppliedIsTracked
    <2> HIDE DEF queue, map, left, n, kept
    <2>3. Follows(s, t) /\ t.queue = queue
      BY <1>1, <1>3, <2>2, RecordedFollows, RecordedType
    <2>4. after # {} => replacement \in kept
      <3>1. after \in SUBSET Nat
        BY <1>1, <1>2
      <3>2. after # {} => \E i \in after : \A j \in after : i <= j
        <4> HIDE DEF after
        <4>1. QED
          BY <3>1, LeastExists
      <3>3. QED
        BY <3>2
    <2>5. s.currentIndex # NoIndex /\ ~removingCurrent => s.currentIndex \in kept
      BY <1>1, <1>2 DEF NoIndex
    <2>6. IsFiniteSet(surviving)
      <3>1. surviving \in SUBSET kept
        OBVIOUS
      <3> HIDE DEF surviving
      <3>2. QED
        BY <1>3, <3>1, FS_Subset
    <2>7. Cardinality(surviving) \in Int
      BY <2>6, FS_CardinalityType
    <2> HIDE DEF surviving, replacement
    <2>8. current \in -1 .. left - 1
      BY <1>2, <1>3, <1>5, <2>4, <2>5 DEF NoIndex
    <2> HIDE DEF current, t
    <2>9. len \in 0 .. left - (current + 1)
      BY <1>2, <2>7, <2>8, ClampedFits
    <2> HIDE DEF len
    <2>10. current \in Int /\ len \in Int /\ len >= 0
      BY <1>2, <2>8, <2>9
    <2>11. current \in Indices(t.queue) \cup {NoIndex}
      BY <1>2, <2>2, <2>3, <2>8 DEF Indices, NoIndex
    <2>12. position \in {AtStart, Later} /\ playing \in PlayingStates
      BY <1>1 DEF PlayingStates
    <2> HIDE DEF position, playing
    <2>13. QED
      BY <2>1, <2>3, <2>10, <2>11, <2>12, LocatedFollows
  <1>6. QED
    BY <1>4, <1>5

\* clearQueue and pushState put another state under the shared revision.
LEMMA ReplacedFollows ==
    ASSUME NEW s \in PlaybackState, NEW state \in PlaybackState, NEW queue \in Seq(Entries)
    PROVE  LET t == RecordQueueChange([state EXCEPT !.queueRevision = s.queueRevision],
                                      queue, EmptyMap)
           IN  /\ Follows(s, t)
               /\ t.queue = queue
               /\ t.currentIndex = state.currentIndex
               /\ t.playNextQueueLen = state.playNextQueueLen
  <1> DEFINE base == [state EXCEPT !.queueRevision = s.queueRevision]
  <1>1. s.queueRevision \in Nat
    BY StateFields
  <1>2. /\ base \in PlaybackState
        /\ base.queueRevision = s.queueRevision
        /\ base.currentIndex = state.currentIndex
        /\ base.playNextQueueLen = state.playNextQueueLen
    BY <1>1 DEF PlaybackState
  <1> HIDE DEF base
  <1> DEFINE t == RecordQueueChange(base, queue, EmptyMap)
  <1>3. EmptyMap \in Seq(Int)
    BY DEF EmptyMap
  <1>4. /\ t \in PlaybackState /\ t.queue = queue /\ t.queueIndexMap = EmptyMap
        /\ t.queueRevision = s.queueRevision + 1
        /\ t.currentIndex = state.currentIndex
        /\ t.playNextQueueLen = state.playNextQueueLen
    BY <1>2, <1>3, RecordedType
  <1> HIDE DEF t
  <1>5. QED
    BY <1>4 DEF Follows, RevisionFollows, t, base

LEMMA EmptyPlaybackStateType ==
    /\ EmptyPlaybackState \in PlaybackState
    /\ EmptyPlaybackState.queue = <<>>
    /\ EmptyPlaybackState.playNextQueueLen = 0
    /\ WellFormed(EmptyPlaybackState)
  <1>1. /\ EmptyPlaybackState \in PlaybackState
        /\ EmptyPlaybackState.queue = <<>>
        /\ EmptyPlaybackState.playNextQueueLen = 0
    BY EmptySeq DEF EmptyPlaybackState, PlaybackState, PlayingStates, EmptyMap, NoIndex
  <1>2. ValidState(EmptyPlaybackState)
    BY <1>1 DEF ValidState
  <1>3. /\ EmptyPlaybackState.currentIndex = NoIndex
        /\ EmptyPlaybackState.position = AtStart
        /\ EmptyPlaybackState.playingState = "idle"
    BY DEF EmptyPlaybackState
  <1>4. NormalPlayingState(<<>>, "idle") = "idle"
    BY DEF NormalPlayingState
  <1>5. Normalized(EmptyPlaybackState) = EmptyPlaybackState
    BY <1>1, <1>3, <1>4, LocatedSame DEF Normalized
  <1>6. QED
    BY <1>1, <1>2, <1>5 DEF WellFormed

LEMMA ClearQueueFollows ==
    ASSUME NEW s, WellFormed(s)
    PROVE  Follows(s, ClearQueue(s)) /\ ValidState(ClearQueue(s))
  <1>1. s \in PlaybackState /\ <<>> \in Seq(Entries)
    BY WellFormedFields, EmptySeq
  <1>2. /\ Follows(s, ClearQueue(s)) /\ ClearQueue(s).queue = <<>>
        /\ ClearQueue(s).playNextQueueLen = 0
    BY <1>1, EmptyPlaybackStateType, ReplacedFollows DEF ClearQueue
  <1>3. QED
    BY <1>2 DEF ValidState

LEMMA PushStateFollows ==
    ASSUME NEW s, WellFormed(s), NEW state \in PlaybackState, ValidState(state)
    PROVE  Follows(s, PushState(s, state)) /\ ValidState(PushState(s, state))
  <1>1. s \in PlaybackState /\ state.queue \in Seq(Entries)
    BY WellFormedFields, StateFields
  <1>2. /\ Follows(s, PushState(s, state)) /\ PushState(s, state).queue = state.queue
        /\ PushState(s, state).currentIndex = state.currentIndex
        /\ PushState(s, state).playNextQueueLen = state.playNextQueueLen
    BY <1>1, ReplacedFollows DEF PushState
  <1>3. QED
    BY <1>2 DEF ValidState

\* Jumping to an entry of the queue, by command or by report, touches neither
\* the queue nor its revision.
LEMMA JumpFollows ==
    ASSUME NEW s, WellFormed(s), NEW index \in Indices(s.queue),
           NEW position \in {AtStart, Later}, NEW playing \in PlayingStates
    PROVE  LET len == AdjustedPlayNextLen(Len(s.queue), s.currentIndex,
                                          s.playNextQueueLen, index)
               t == Located(s, index, len, position, playing)
           IN  /\ Follows(s, t) /\ ValidState(t)
               /\ t.queue = s.queue /\ t.queueRevision = s.queueRevision
  <1> DEFINE n == Len(s.queue)
             len == AdjustedPlayNextLen(n, s.currentIndex, s.playNextQueueLen, index)
             t == Located(s, index, len, position, playing)
  <1>1. /\ s \in PlaybackState /\ n \in Nat
        /\ s.currentIndex \in -1 .. n - 1 /\ s.playNextQueueLen \in Int
        /\ index \in -1 .. n - 1 /\ index \in Int
    BY WellFormedFields, StateFields DEF Indices
  <1> HIDE DEF n
  <1>2. len \in 0 .. n
    BY <1>1, AdjustedFits
  <1> HIDE DEF len
  <1>3. len \in Int /\ len >= 0
    BY <1>1, <1>2
  <1>4. Follows(s, s)
    BY <1>1 DEF Follows, RevisionFollows
  <1>5. Follows(s, t) /\ ValidState(t)
    BY <1>1, <1>3, <1>4, LocatedFollows
  <1>6. t.queue = s.queue /\ t.queueRevision = s.queueRevision
    BY <1>1 DEF Located, PlaybackState
  <1> HIDE DEF t
  <1>7. QED
    BY <1>5, <1>6 DEF t, len, n

LEMMA PlayQueueIndexFollows ==
    ASSUME NEW s, WellFormed(s), NEW index \in Indices(s.queue)
    PROVE  Follows(s, PlayQueueIndex(s, index)) /\ ValidState(PlayQueueIndex(s, index))
  <1>1. StoppedOrIdle(s.queue) \in PlayingStates
    BY StoppedOrIdleType
  <1>2. QED
    BY <1>1, JumpFollows DEF PlayQueueIndex

\* A report that matches names an entry of the shared queue.
LEMMA MergeReportFollows ==
    ASSUME NEW s, WellFormed(s), NEW report, ReportMatches(s, report) # {},
           report.position \in {AtStart, Later}, report.playingState \in PlayingStates
    PROVE  LET t == MergeReport(s, report)
           IN  /\ Follows(s, t) /\ ValidState(t)
               /\ t.queue = s.queue /\ t.queueRevision = s.queueRevision
  <1> DEFINE matches == ReportMatches(s, report)
             index == CompatibleReportIndex(s, report)
  <1>1. matches \in SUBSET Indices(s.queue) /\ matches \in SUBSET Nat
    BY DEF ReportMatches, Indices
  <1>2. \E i \in matches : \A j \in matches : i <= j
    <2> HIDE DEF matches
    <2>1. matches # {}
      BY DEF matches
    <2>2. QED
      BY <1>1, <2>1, LeastExists
  <1>3. index \in Indices(s.queue)
    BY <1>1, <1>2 DEF CompatibleReportIndex
  <1> HIDE DEF index
  <1>4. QED
    BY <1>3, JumpFollows DEF MergeReport, index

-----------------------------------------------------------------------------
(* The reducer.                                                            *)

\* Whatever command is accepted, the reducer records it and leaves a state that
\* decoding returns unchanged.
LEMMA ReducedFollows ==
    ASSUME NEW s, WellFormed(s), NEW cmd \in Command, Accepts(s, cmd)
    PROVE  Follows(s, Reduced(s, cmd)) /\ WellFormed(Reduced(s, cmd))
  <1> DEFINE Good(t) == Follows(s, t) /\ ValidState(t)
  <1>0. ASSUME NEW t, Good(t), Reduced(s, cmd) = Normalized(t)
        PROVE  Follows(s, Reduced(s, cmd)) /\ WellFormed(Reduced(s, cmd))
    BY <1>0, NormalizedFollows
  <1>1. CASE cmd.op = "setQueue"
    <2>1. cmd.queue \in Seq(Entries) /\ cmd.index \in Int
      BY <1>1 DEF Command, NoIndex
    <2>2. cmd.queue # <<>> => cmd.index \in 0 .. Len(cmd.queue) - 1 \cup {NoIndex}
      BY <1>1 DEF Accepts
    <2>3. Good(SetQueue(s, cmd.queue, cmd.index))
      BY <2>1, <2>2, SetQueueFollows
    <2>4. Reduced(s, cmd) = Normalized(SetQueue(s, cmd.queue, cmd.index))
      BY <1>1 DEF Reduced
    <2>5. QED
      BY <1>0, <2>3, <2>4
  <1>2. CASE cmd.op = "insertAfterCurrent"
    <2>1. cmd.items \in Seq(Entries)
      BY <1>2 DEF Command
    <2>2. Reduced(s, cmd) = Normalized(InsertAfterCurrent(s, cmd.items))
      BY <1>2 DEF Reduced
    <2>3. QED
      BY <1>0, <2>1, <2>2, InsertAfterCurrentFollows
  <1>3. CASE cmd.op = "appendToQueue"
    <2>1. cmd.items \in Seq(Entries)
      BY <1>3 DEF Command
    <2>2. Reduced(s, cmd) = Normalized(AppendToQueue(s, cmd.items))
      BY <1>3 DEF Reduced
    <2>3. QED
      BY <1>0, <2>1, <2>2, AppendToQueueFollows
  <1>4. CASE cmd.op = "moveQueueIndices"
    <2>1. /\ cmd.indices \in SUBSET Indices(s.queue)
          /\ cmd.insertBefore \in 0 .. Len(s.queue)
      BY <1>4 DEF Accepts
    <2>2. Reduced(s, cmd) = Normalized(MoveQueueIndices(s, cmd.indices, cmd.insertBefore))
      BY <1>4 DEF Reduced
    <2>3. QED
      BY <1>0, <2>1, <2>2, MoveFollows
  <1>5. CASE cmd.op = "removeQueueIndex"
    <2>1. cmd.index \in Indices(s.queue)
      BY <1>5 DEF Accepts
    <2>2. Reduced(s, cmd) = Normalized(RemoveQueueIndex(s, cmd.index))
      BY <1>5 DEF Reduced
    <2>3. QED
      BY <1>0, <2>1, <2>2, RemoveIndexFollows
  <1>6. CASE cmd.op = "removeQueueIndices"
    <2>1. cmd.indices \in SUBSET Indices(s.queue)
      BY <1>6 DEF Accepts
    <2>2. Reduced(s, cmd) = Normalized(RemoveQueueIndices(s, cmd.indices))
      BY <1>6 DEF Reduced
    <2>3. QED
      BY <1>0, <2>1, <2>2, RemoveIndicesFollows
  <1>7. CASE cmd.op = "clearQueue"
    <2>1. Reduced(s, cmd) = Normalized(ClearQueue(s))
      BY <1>7 DEF Reduced
    <2>2. QED
      BY <1>0, <2>1, ClearQueueFollows
  <1>8. CASE cmd.op = "pushState"
    <2>1. cmd.state \in PlaybackState
      BY <1>8 DEF Command
    <2>2. ValidState(cmd.state)
      BY <1>8 DEF Accepts
    <2>3. Reduced(s, cmd) = Normalized(PushState(s, cmd.state))
      BY <1>8 DEF Reduced
    <2>4. QED
      BY <1>0, <2>1, <2>2, <2>3, PushStateFollows
  <1>9. CASE cmd.op = "playQueueIndex"
    <2>1. cmd.index \in Indices(s.queue)
      BY <1>9 DEF Accepts
    <2>2. Reduced(s, cmd) = Normalized(PlayQueueIndex(s, cmd.index))
      BY <1>9 DEF Reduced
    <2>3. QED
      BY <1>0, <2>1, <2>2, PlayQueueIndexFollows
  <1>10. cmd.op \in {"setQueue", "insertAfterCurrent", "appendToQueue", "moveQueueIndices",
                     "removeQueueIndex", "playQueueIndex", "removeQueueIndices",
                     "clearQueue", "pushState"}
    BY DEF Command
  <1>11. QED
    BY <1>1, <1>2, <1>3, <1>4, <1>5, <1>6, <1>7, <1>8, <1>9, <1>10

-----------------------------------------------------------------------------
(* The steps of the room.                                                  *)

\* What every handler owes the state it found.
Sequenced(sh, new) ==
    /\ new.seq >= sh.seq
    /\ new.seq = sh.seq => /\ new.state.queue = sh.state.queue
                           /\ new.state.queueRevision = sh.state.queueRevision

SoundChange(sh, new) ==
    /\ WellFormedShared(new)
    /\ Sequenced(sh, new)
    /\ RevisionFollows(sh.state, new.state)

LEMMA SharedFields ==
    ASSUME NEW sh \in SharedState
    PROVE  /\ sh.seq \in Nat
           /\ sh.active \in Devices \cup {NoDevice}
           /\ sh.state \in PlaybackState
  BY DEF SharedState

\* Reading the state as of now moves the position of a state that plays, and a
\* state that plays has a queue.
LEMMA AsOfNowSound ==
    ASSUME NEW sh, WellFormedShared(sh), NEW elapsed
    PROVE  LET current == AsOfNow(sh, elapsed)
           IN  /\ WellFormedShared(current)
               /\ current.seq = sh.seq /\ current.active = sh.active
               /\ current.state.queue = sh.state.queue
               /\ current.state.queueRevision = sh.state.queueRevision
               /\ current.state.queueIndexMap = sh.state.queueIndexMap
  <1> DEFINE s == sh.state
             later == [s EXCEPT !.position = Later]
             moved == [sh EXCEPT !.state.position = Later]
  <1>1. sh \in SharedState /\ s \in PlaybackState /\ WellFormed(s)
    BY SharedFields DEF WellFormedShared
  <1>2. CASE elapsed /\ s.playingState = "playing"
    <2>1. s.queue # <<>>
      <3>1. s.playingState = NormalPlayingState(s.queue, s.playingState)
        BY <1>1, NormalizedFields DEF WellFormed
      <3>2. QED
        BY <1>2, <3>1 DEF NormalPlayingState
    <2>2. /\ later \in PlaybackState
          /\ later.queue = s.queue /\ later.queueRevision = s.queueRevision
          /\ later.queueIndexMap = s.queueIndexMap
          /\ later.currentIndex = s.currentIndex
          /\ later.playNextQueueLen = s.playNextQueueLen
          /\ later.playingState = s.playingState
      BY <1>1 DEF PlaybackState
    <2>3. WellFormed(later)
      <3> HIDE DEF later
      <3>1. ValidState(later)
        BY <1>1, <2>2 DEF WellFormed, ValidState
      <3>2. Normalized(s) = s
        BY <1>1 DEF WellFormed
      <3>3. /\ NormalPlayingState(s.queue, s.playingState) = s.playingState
            /\ ClampedPlayNextLen(Len(s.queue), s.currentIndex, s.playNextQueueLen)
                  = s.playNextQueueLen
        BY <1>1, <2>1, <3>2, NormalizedFields DEF WellFormed
      <3>4. Normalized(later) = later
        BY <2>1, <2>2, <3>3, LocatedSame DEF Normalized
      <3>5. QED
        BY <2>2, <3>1, <3>4 DEF WellFormed
    <2>4. /\ moved \in SharedState /\ moved.state = later
          /\ moved.seq = sh.seq /\ moved.active = sh.active
      BY <1>1, <2>2 DEF SharedState
    <2>5. AsOfNow(sh, elapsed) = moved
      BY <1>2 DEF AsOfNow
    <2> HIDE DEF moved, later
    <2>6. QED
      BY <2>2, <2>3, <2>4, <2>5 DEF WellFormedShared
  <1>3. CASE ~(elapsed /\ s.playingState = "playing")
    <2>1. AsOfNow(sh, elapsed) = sh
      BY <1>3 DEF AsOfNow
    <2>2. QED
      BY <2>1
  <1>4. QED
    BY <1>2, <1>3

\* What holds of the state as of now holds of the stored one.
LEMMA SoundAsOfNow ==
    ASSUME NEW sh, WellFormedShared(sh), NEW elapsed, NEW new,
           SoundChange(AsOfNow(sh, elapsed), new)
    PROVE  SoundChange(sh, new)
  <1> DEFINE current == AsOfNow(sh, elapsed)
  <1>1. /\ current.seq = sh.seq
        /\ current.state.queue = sh.state.queue
        /\ current.state.queueRevision = sh.state.queueRevision
        /\ current.state.queueIndexMap = sh.state.queueIndexMap
    BY AsOfNowSound
  <1> HIDE DEF current
  <1>2. SoundChange(current, new)
    BY DEF current
  <1>3. QED
    BY <1>1, <1>2 DEF SoundChange, Sequenced, RevisionFollows

LEMMA ActiveAfterType ==
    ASSUME NEW current \in SharedState, NEW cmd, NEW d \in Devices
    PROVE  /\ ActiveAfter(current, cmd, d) \in Devices \cup {NoDevice}
           /\ ActiveAfter(current, cmd, d) \in {d, current.active}
  BY SharedFields DEF ActiveAfter, Claimed

LEMMA CommandSound ==
    ASSUME NEW current, WellFormedShared(current), NEW cmd \in Command, NEW d \in Devices,
           Accepts(current.state, cmd)
    PROVE  SoundChange(current, AfterCommand(current, cmd, d))
  <1> DEFINE s == current.state
             new == AfterCommand(current, cmd, d)
             active == ActiveAfter(current, cmd, d)
             t == Reduced(s, cmd)
  <1>1. /\ current \in SharedState /\ current.seq \in Nat
        /\ WellFormed(s) /\ s \in PlaybackState
    BY SharedFields DEF WellFormedShared
  <1>2. CASE IsNoop(cmd)
    <2>1. new = current
      BY <1>2 DEF AfterCommand
    <2> HIDE DEF new
    <2>2. QED
      BY <1>1, <2>1 DEF SoundChange, Sequenced, RevisionFollows, new
  <1>3. CASE ~IsNoop(cmd)
    <2>1. Follows(s, t) /\ WellFormed(t)
      BY <1>1, ReducedFollows
    <2>2. active \in Devices \cup {NoDevice}
      BY <1>1, ActiveAfterType
    <2>3. new = [seq |-> current.seq + 1, active |-> active, state |-> t]
      BY <1>3 DEF AfterCommand
    <2> HIDE DEF active, t, new
    <2>4. new \in SharedState /\ new.seq = current.seq + 1 /\ new.state = t
      BY <1>1, <2>1, <2>2, <2>3 DEF SharedState, Follows
    <2>5. QED
      BY <1>1, <2>1, <2>4
      DEF SoundChange, WellFormedShared, Sequenced, Follows, new
  <1>4. QED
    BY <1>2, <1>3

\* A report moves the place in the queue and nothing a sequence number counts.
LEMMA ReportSound ==
    ASSUME NEW current, WellFormedShared(current), NEW report \in Report, NEW d \in Devices,
           ReportAccepted(current, report, d)
    PROVE  SoundChange(current, AfterReport(current, report, d))
  <1> DEFINE s == current.state
             new == AfterReport(current, report, d)
             merged == MergeReport(s, report)
             t == Normalized(merged)
             active == Claimed(current.active, d)
  <1>1. /\ current \in SharedState /\ current.seq \in Nat /\ WellFormed(s)
        /\ current.active \in Devices \cup {NoDevice}
    BY SharedFields DEF WellFormedShared
  <1>2. /\ ReportMatches(s, report) # {}
        /\ report.position \in {AtStart, Later} /\ report.playingState \in PlayingStates
    BY DEF ReportAccepted, Report
  <1>3. /\ Follows(s, merged) /\ ValidState(merged)
        /\ merged.queue = s.queue /\ merged.queueRevision = s.queueRevision
    BY <1>1, <1>2, MergeReportFollows
  <1> HIDE DEF merged
  <1>4. Follows(s, t) /\ WellFormed(t)
    BY <1>3, NormalizedFollows
  <1>5. t.queue = s.queue /\ t.queueRevision = s.queueRevision
    BY <1>3, NormalizedFields DEF Follows
  <1>6. active \in Devices \cup {NoDevice}
    BY <1>1 DEF Claimed
  <1>7. new = [current EXCEPT !.active = active, !.state = t]
    BY DEF AfterReport, active, t, merged
  <1> HIDE DEF t, active, new
  <1>8. new \in SharedState /\ new.seq = current.seq /\ new.state = t
    BY <1>1, <1>4, <1>6, <1>7 DEF SharedState, Follows
  <1>9. QED
    BY <1>1, <1>4, <1>5, <1>8 DEF SoundChange, WellFormedShared, Sequenced, Follows, new

\* Transferring and claiming count, and leave the playback state alone.
LEMMA ClaimSound ==
    ASSUME NEW current, WellFormedShared(current), NEW d \in Devices
    PROVE  /\ SoundChange(current, AfterTransfer(current, d))
           /\ SoundChange(current, AfterControl(current, d))
  <1> DEFINE new == AfterTransfer(current, d)
  <1>1. current \in SharedState /\ current.seq \in Nat /\ WellFormed(current.state)
    BY SharedFields DEF WellFormedShared
  <1>2. /\ new \in SharedState /\ new.seq = current.seq + 1
        /\ new.state = current.state
    <2> DEFINE counted == [current EXCEPT !.seq = current.seq + 1]
    <2>1. /\ counted \in SharedState /\ counted.seq = current.seq + 1
          /\ counted.state = current.state
      BY <1>1 DEF SharedState
    <2>2. new = [counted EXCEPT !.active = d]
      BY DEF AfterTransfer
    <2> HIDE DEF counted, new
    <2>3. QED
      BY <2>1, <2>2 DEF SharedState
  <1>3. AfterControl(current, d) = new
    BY DEF AfterControl, AfterTransfer
  <1> HIDE DEF new
  <1>4. SoundChange(current, new)
    BY <1>1, <1>2 DEF SoundChange, WellFormedShared, Sequenced, RevisionFollows
  <1>5. QED
    BY <1>3, <1>4 DEF new

\* Releasing the active device stops playback and keeps the queue.
LEMMA FreezeSound ==
    ASSUME NEW current, WellFormedShared(current)
    PROVE  SoundChange(current, AfterFreeze(current))
  <1> DEFINE s == current.state
             playing == StoppedOrIdle(s.queue)
             stopped == [s EXCEPT !.playingState = playing]
             t == Normalized(stopped)
             new == AfterFreeze(current)
  <1>1. /\ current \in SharedState /\ current.seq \in Nat
        /\ WellFormed(s) /\ s \in PlaybackState /\ ValidState(s)
    BY SharedFields DEF WellFormedShared, WellFormed
  <1>2. playing \in PlayingStates
    BY StoppedOrIdleType
  <1> HIDE DEF playing
  <1>3. /\ stopped \in PlaybackState
        /\ stopped.queue = s.queue /\ stopped.queueRevision = s.queueRevision
        /\ stopped.queueIndexMap = s.queueIndexMap
        /\ stopped.currentIndex = s.currentIndex
        /\ stopped.playNextQueueLen = s.playNextQueueLen
    BY <1>1, <1>2 DEF PlaybackState
  <1> HIDE DEF stopped
  <1>4. ValidState(stopped) /\ Follows(s, stopped)
    BY <1>1, <1>3 DEF ValidState, Follows, RevisionFollows
  <1>5. Follows(s, t) /\ WellFormed(t)
    BY <1>4, NormalizedFollows
  <1>6. new = [current EXCEPT !.seq = current.seq + 1, !.active = NoDevice, !.state = t]
    BY DEF AfterFreeze, t, stopped, playing
  <1> HIDE DEF t, new
  <1>7. new \in SharedState /\ new.seq = current.seq + 1 /\ new.state = t
    <2> DEFINE counted == [current EXCEPT !.seq = current.seq + 1]
    <2>1. counted \in SharedState /\ counted.seq = current.seq + 1
      BY <1>1 DEF SharedState
    <2>2. new = [counted EXCEPT !.active = NoDevice, !.state = t]
      BY <1>6
    <2> HIDE DEF counted
    <2>3. QED
      BY <1>5, <2>1, <2>2 DEF SharedState, Follows
  <1>8. QED
    BY <1>1, <1>5, <1>7 DEF SoundChange, WellFormedShared, Sequenced, Follows, new
=============================================================================

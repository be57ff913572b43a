--------------------------- MODULE ClipIndex_proofs ---------------------------
(***************************************************************************)
(* What TLAPS proves of the index build_clip_seek_index makes, for every   *)
(* PlayList: the clips are laid out as the proofs about TitleSource assume *)
(* them, the tables have one time axis, the sorted EP_maps rise if those of*)
(* the disc do, the chapters tile the title, and a Disc lists the same     *)
(* tables as the source that it opens.                                     *)
(***************************************************************************)
EXTENDS Landing_proofs, Timeline, FiniteSetTheorems

-----------------------------------------------------------------------------
(* Running totals.                                                         *)

\* A function that adds up the first n numbers of a sequence.
AddsUp(g, s, n) ==
  /\ g \in [0..n -> Nat]
  /\ g[0] = 0 /\ \A k \in 1..n : g[k] = g[k - 1] + s[k]

LEMMA SumsExist ==
  ASSUME NEW s \in Seq(Nat)  PROVE \E g : AddsUp(g, s, Len(s))
<1> SUFFICES ASSUME ~ \E g : AddsUp(g, s, Len(s))  PROVE FALSE
  OBVIOUS
<1> DEFINE T == {n \in 0..Len(s) : ~ \E g : AddsUp(g, s, n)}
<1>1. T \in SUBSET Nat /\ Len(s) \in T  OBVIOUS
<1>2. PICK m \in T : \A n \in T : m <= n  BY <1>1, Least
<1>3. m \in 0..Len(s) /\ ~ \E g : AddsUp(g, s, m)  BY <1>2
<1>4. m # 0
  <2>1. AddsUp([k \in 0..0 |-> 0], s, 0)  BY DEF AddsUp
  <2> QED  BY <1>3, <2>1
<1>5. m - 1 \in 0..Len(s) /\ m - 1 \notin T /\ m \in 1..Len(s)  BY <1>2, <1>3, <1>4
<1>6. PICK g : AddsUp(g, s, m - 1)  BY <1>5
<1> DEFINE h == [k \in 0..m |-> IF k = m THEN g[m - 1] + s[m] ELSE g[k]]
<1>7. s[m] \in Nat  BY <1>5
<1>8. \A k \in 0..(m - 1) : g[k] \in Nat  BY <1>6 DEF AddsUp
<1>9. h \in [0..m -> Nat]  BY <1>5, <1>7, <1>8
<1>10. h[0] = 0  BY <1>5, <1>6 DEF AddsUp
<1>11. \A k \in 1..m : h[k] = h[k - 1] + s[k]  BY <1>5, <1>6 DEF AddsUp
<1>12. AddsUp(h, s, m)  BY <1>9, <1>10, <1>11 DEF AddsUp
<1> QED  BY <1>3, <1>12

LEMMA RunningTotals ==
  ASSUME NEW s \in Seq(Nat)  PROVE AddsUp(RunningSum(s), s, Len(s))
<1>1. PICK g : AddsUp(g, s, Len(s))  BY SumsExist
<1>2. g = [k \in 0..Len(s) |-> IF k = 0 THEN 0 ELSE g[k - 1] + s[k]]  BY <1>1 DEF AddsUp
<1> DEFINE f == RunningSum(s)
<1>3. f = [k \in 0..Len(s) |-> IF k = 0 THEN 0 ELSE f[k - 1] + s[k]]  BY <1>2 DEF RunningSum
<1> HIDE DEF f
<1>4. f[0] = 0 /\ \A k \in 1..Len(s) : f[k] = f[k - 1] + s[k]  BY <1>3
<1>5. \A k \in 0..Len(s) : f[k] \in Nat
  <2> SUFFICES ASSUME NEW j \in 0..Len(s), f[j] \notin Nat  PROVE FALSE
    OBVIOUS
  <2> DEFINE T == {n \in 0..Len(s) : f[n] \notin Nat}
  <2>1. T \in SUBSET Nat /\ j \in T  OBVIOUS
  <2>2. PICK m \in T : \A n \in T : m <= n  BY <2>1, Least
  <2>3. m # 0 /\ m \in 1..Len(s) /\ m - 1 \in 0..Len(s)  BY <1>4, <2>2
  <2>4. m - 1 \notin T  BY <2>2, <2>3
  <2>5. f[m] = f[m - 1] + s[m] /\ f[m - 1] \in Nat /\ s[m] \in Nat  BY <1>4, <2>3, <2>4
  <2> QED  BY <2>2, <2>5
<1>6. f \in [0..Len(s) -> Nat]  BY <1>3, <1>5
<1> QED  BY <1>4, <1>6 DEF f, AddsUp

-----------------------------------------------------------------------------
(* Rows in the order of their times.                                       *)

LEMMA RowFields ==
  ASSUME NEW rows \in Seq(EpRow), NEW i \in DOMAIN rows
  PROVE  i \in Nat \ {0} /\ rows[i].pts \in Nat /\ rows[i].spn \in Nat
<1>1. rows[i] \in EpRow  BY ElementOfSeq, LenProperties
<1> QED  BY <1>1 DEF EpRow

\* Every place has a rank of its own, and every rank a place: a place before another
\* has the lower one.
LEMMA Ranks ==
  ASSUME NEW keys, NEW places, IsFiniteSet(places),
         \A i \in places : i \in Nat /\ keys[i] \in Nat
  PROVE  /\ Cardinality(places) \in Nat
         /\ \A i \in places : Rank(keys, places, i) \in 1..Cardinality(places)
         /\ \A i, j \in places :
              Before(keys, i, j) => Rank(keys, places, i) < Rank(keys, places, j)
         /\ \A r \in 1..Cardinality(places) : \E i \in places : Rank(keys, places, i) = r
<1> DEFINE n == Cardinality(places)
           Earlier(i) == {j \in places : Before(keys, j, i)}
<1>1. n \in Nat  BY FS_CardinalityType
<1>2. ASSUME NEW i \in places
      PROVE  /\ IsFiniteSet(Earlier(i)) /\ Cardinality(Earlier(i)) \in Nat
             /\ Cardinality(Earlier(i)) < n /\ i \notin Earlier(i)
  <2>1. Earlier(i) \in SUBSET places /\ i \notin Earlier(i)  BY DEF Before
  <2>2. IsFiniteSet(Earlier(i)) /\ Cardinality(Earlier(i)) \in Nat
        /\ Cardinality(Earlier(i)) <= n /\ (n = Cardinality(Earlier(i)) => places = Earlier(i))
    BY <2>1, FS_Subset, FS_CardinalityType
  <2> QED  BY <1>1, <2>1, <2>2
<1>3. ASSUME NEW i \in places, NEW j \in places, Before(keys, i, j)
      PROVE  Cardinality(Earlier(i)) < Cardinality(Earlier(j))
  <2>1. Earlier(i) \in SUBSET Earlier(j)  BY <1>3 DEF Before
  <2>2. i \in Earlier(j) /\ i \notin Earlier(i)  BY <1>2, <1>3
  <2>3. Cardinality(Earlier(i)) <= Cardinality(Earlier(j))
        /\ (Cardinality(Earlier(j)) = Cardinality(Earlier(i)) => Earlier(j) = Earlier(i))
    BY <1>2, <2>1, FS_Subset
  <2>4. Cardinality(Earlier(i)) \in Nat /\ Cardinality(Earlier(j)) \in Nat  BY <1>2
  <2>5. Earlier(j) # Earlier(i)  BY <2>2
  <2> QED  BY <2>3, <2>4, <2>5
<1>4. \A i, j \in places : i # j => Before(keys, i, j) \/ Before(keys, j, i)  BY DEF Before
<1>5. \A i \in places : Rank(keys, places, i) = 1 + Cardinality(Earlier(i))  BY DEF Rank
<1> HIDE DEF Earlier, n
<1>6. \A i \in places : Rank(keys, places, i) \in 1..n  BY <1>1, <1>2, <1>5
<1>7. \A i, j \in places :
        Before(keys, i, j) => Rank(keys, places, i) < Rank(keys, places, j)
  BY <1>2, <1>3, <1>5
<1> DEFINE f == [i \in places |-> Rank(keys, places, i)]
<1>8. f \in Injection(places, 1..n)
  <2>1. f \in [places -> 1..n]  BY <1>6
  <2>2. ASSUME NEW i \in places, NEW j \in places, i # j  PROVE f[i] # f[j]
    <3>1. f[i] < f[j] \/ f[j] < f[i]  BY <1>4, <1>7, <2>2
    <3>2. f[i] \in Nat /\ f[j] \in Nat  BY <1>1, <1>6
    <3> QED  BY <3>1, <3>2
  <2> QED  BY <2>1, <2>2 DEF Injection, IsInjective
<1>9. f \in Surjection(places, 1..n)
  <2>1. IsFiniteSet(1..n) /\ Cardinality(1..n) = n
    <3>1. IsFiniteSet(1..n) /\ Cardinality(1..n) = IF 1 > n THEN 0 ELSE n - 1 + 1
      BY <1>1, FS_Interval
    <3> QED  BY <1>1, <3>1
  <2>2. Cardinality(places) = Cardinality(1..n)  BY <2>1 DEF n
  <2> QED  BY <1>8, <2>1, <2>2, FS_Injection
<1>10. \A r \in 1..n : \E i \in places : f[i] = r  BY <1>9 DEF Surjection
<1> QED  BY <1>1, <1>6, <1>7, <1>10 DEF n

\* Ranked lists each place once, in the order of their keys.
LEMMA RankedPlaces ==
  ASSUME NEW keys, NEW places, IsFiniteSet(places),
         \A i \in places : i \in Nat /\ keys[i] \in Nat
  PROVE  /\ Cardinality(places) \in Nat
         /\ DOMAIN Ranked(keys, places) = 1..Cardinality(places)
         /\ \A r \in 1..Cardinality(places) :
              Ranked(keys, places)[r] \in places
              /\ Rank(keys, places, Ranked(keys, places)[r]) = r
         /\ \A r, s \in 1..Cardinality(places) :
              r < s => Before(keys, Ranked(keys, places)[r], Ranked(keys, places)[s])
         /\ \A i \in places : \E r \in 1..Cardinality(places) : Ranked(keys, places)[r] = i
<1> DEFINE n == Cardinality(places)
           order == Ranked(keys, places)
           rank(i) == Rank(keys, places, i)
<1>1. /\ n \in Nat
      /\ \A i \in places : rank(i) \in 1..n
      /\ \A i, j \in places : Before(keys, i, j) => rank(i) < rank(j)
      /\ \A r \in 1..n : \E i \in places : rank(i) = r
  BY Ranks
<1>2. DOMAIN order = 1..n
      /\ \A r \in 1..n : order[r] = CHOOSE i \in places : rank(i) = r
  BY DEF Ranked
<1>3. \A i, j \in places : i = j \/ Before(keys, i, j) \/ Before(keys, j, i)  BY DEF Before
<1> HIDE DEF n, order, rank
<1>4. \A r \in 1..n : order[r] \in places /\ rank(order[r]) = r  BY <1>1, <1>2
<1>5. ASSUME NEW r \in 1..n, NEW s \in 1..n, r < s  PROVE Before(keys, order[r], order[s])
  <2>1. order[r] \in places /\ order[s] \in places /\ rank(order[r]) = r /\ rank(order[s]) = s
    BY <1>4
  <2>2. order[r] # order[s]  BY <1>1, <1>5, <2>1
  <2>3. ~Before(keys, order[s], order[r])
    <3> SUFFICES ASSUME Before(keys, order[s], order[r])  PROVE FALSE
      OBVIOUS
    <3>1. s < r  BY <1>1, <2>1
    <3> QED  BY <1>1, <1>5, <3>1
  <2> QED  BY <1>3, <2>1, <2>2, <2>3
<1>6. ASSUME NEW i \in places  PROVE \E r \in 1..n : order[r] = i
  <2>1. rank(i) \in 1..n  BY <1>1
  <2>2. order[rank(i)] \in places /\ rank(order[rank(i)]) = rank(i)  BY <1>4, <2>1
  <2>3. ASSUME NEW j \in places, j # i, rank(j) = rank(i)  PROVE FALSE
    <3>1. rank(i) < rank(j) \/ rank(j) < rank(i)  BY <1>1, <1>3, <2>3
    <3> QED  BY <1>1, <2>1, <2>3, <3>1
  <2> QED  BY <2>1, <2>2, <2>3
<1> QED  BY <1>1, <1>2, <1>4, <1>5, <1>6 DEF n, order, rank

\* What ByPts makes: each row once, in the order of their times.
LEMMA Sorted ==
  ASSUME NEW rows \in Seq(EpRow), NEW places \in SUBSET DOMAIN rows
  PROVE  /\ ByPts(rows, places) \in Seq(Entry)
         /\ DOMAIN ByPts(rows, places) = 1..Cardinality(places) /\ Cardinality(places) \in Nat
         /\ \A r \in DOMAIN ByPts(rows, places) : \E i \in places :
              /\ ByPts(rows, places)[r].pts = rows[i].pts
              /\ ByPts(rows, places)[r].spn = rows[i].spn
         /\ \A i \in places : \E r \in DOMAIN ByPts(rows, places) :
              ByPts(rows, places)[r] = [pts |-> rows[i].pts, spn |-> rows[i].spn]
         /\ \A r, s \in DOMAIN ByPts(rows, places) :
              r < s => ByPts(rows, places)[r].pts <= ByPts(rows, places)[s].pts
<1> DEFINE n == Cardinality(places)
           keys == [i \in DOMAIN rows |-> rows[i].pts]
           order == Ranked(keys, places)
           sorted == [r \in DOMAIN order |->
                        [pts |-> rows[order[r]].pts, spn |-> rows[order[r]].spn]]
<1>1. ByPts(rows, places) = sorted  BY DEF ByPts
<1>2. IsFiniteSet(places)
  <2>1. DOMAIN rows = 1..Len(rows) /\ Len(rows) \in Nat  BY LenProperties
  <2>2. IsFiniteSet(1..Len(rows))  BY <2>1, FS_Interval
  <2> QED  BY <2>1, <2>2, FS_Subset
<1>3. \A i \in places : i \in Nat /\ keys[i] = rows[i].pts /\ rows[i].pts \in Nat
                        /\ rows[i].spn \in Nat
  BY RowFields
<1> HIDE DEF keys
<1>4. \A i \in places : i \in Nat /\ keys[i] \in Nat  BY <1>3
<1>5. n \in Nat /\ DOMAIN order = 1..n /\ \A r \in 1..n : order[r] \in places
  BY <1>2, <1>4, RankedPlaces
<1>6. \A r, s \in 1..n : r < s => Before(keys, order[r], order[s])  BY <1>2, <1>4, RankedPlaces
<1>7. \A i \in places : \E r \in 1..n : order[r] = i  BY <1>2, <1>4, RankedPlaces
<1> HIDE DEF n, order
<1>8. \A r \in 1..n : /\ sorted[r] = [pts |-> rows[order[r]].pts, spn |-> rows[order[r]].spn]
                       /\ sorted[r].pts = rows[order[r]].pts /\ sorted[r].spn = rows[order[r]].spn
  BY <1>5
<1>9. sorted \in Seq(Entry) /\ DOMAIN sorted = 1..n
  <2>1. ASSUME NEW r \in 1..n  PROVE sorted[r] \in Entry  BY <1>3, <1>5, <1>8 DEF Entry
  <2>2. sorted \in [1..n -> Entry]  BY <1>5, <2>1
  <2> QED  BY <1>5, <2>2
<1> HIDE DEF sorted
<1>10. ASSUME NEW r \in 1..n, NEW s \in 1..n, r < s  PROVE sorted[r].pts <= sorted[s].pts
  <2>1. Before(keys, order[r], order[s]) /\ order[r] \in places /\ order[s] \in places
    BY <1>5, <1>6, <1>10
  <2>2. sorted[r].pts = rows[order[r]].pts /\ sorted[s].pts = rows[order[s]].pts
    BY <1>8, <1>10
  <2>3. keys[order[r]] = rows[order[r]].pts /\ keys[order[s]] = rows[order[s]].pts
    BY <1>3, <2>1
  <2>4. keys[order[r]] \in Nat /\ keys[order[s]] \in Nat  BY <1>4, <2>1
  <2> QED  BY <2>1, <2>2, <2>3, <2>4 DEF Before
<1>11. ASSUME NEW i \in places
       PROVE  \E r \in 1..n : sorted[r] = [pts |-> rows[i].pts, spn |-> rows[i].spn]
  BY <1>7, <1>8, <1>11
<1>12. ASSUME NEW r \in 1..n
       PROVE  \E i \in places : sorted[r].pts = rows[i].pts /\ sorted[r].spn = rows[i].spn
  BY <1>5, <1>8, <1>12
<1> QED  BY <1>1, <1>5, <1>9, <1>10, <1>11, <1>12 DEF n

-----------------------------------------------------------------------------
(* The index of a PlayList.                                                *)

PlayList == {l \in Seq(PlayItem) : l # <<>> /\ \A i \in DOMAIN l : l[i].angles # <<>>}

LEMMA ItemFile ==
  ASSUME NEW l \in PlayList, NEW i \in DOMAIN l, NEW a \in Nat
  PROVE  /\ AngleFile(l[i], a) \in StreamFile
         /\ PacketCount(l[i], a) \in Nat
         /\ ~AngleFile(l[i], a).present => PacketCount(l[i], a) = 0
         /\ Duration(l[i]) \in Nat /\ l[i].inTime \in Nat
<1>1. l[i] \in PlayItem /\ l[i].angles # <<>>  BY ElementOfSeq, LenProperties DEF PlayList
<1>2. l[i].angles \in Seq(StreamFile) /\ l[i].inTime \in Nat /\ l[i].outTime \in Nat
  BY <1>1 DEF PlayItem
<1>3. 1 \in DOMAIN l[i].angles  BY <1>1, <1>2
<1>4. AngleFile(l[i], a) \in StreamFile
  <2>1. ASSUME NEW k \in DOMAIN l[i].angles  PROVE l[i].angles[k] \in StreamFile
    BY <1>2, <2>1, ElementOfSeq, LenProperties
  <2> QED  BY <1>3, <2>1 DEF AngleFile, HasAngle
<1>5. AngleFile(l[i], a).size \in Nat  BY <1>4 DEF StreamFile
<1> QED  BY <1>2, <1>4, <1>5 DEF PacketCount, Duration

LEMMA BytesAdd ==
  \A p, q, len \in Nat : /\ p * len \in Nat /\ (p + q) * len = p * len + q * len
                         /\ p * len <= (p + q) * len
OBVIOUS

\* What a step of the loop that builds the index leaves.
LEMMA IndexRows ==
  ASSUME NEW l \in PlayList, NEW a \in Nat, NEW len \in Nat, NEW x, x = BuildIndex(l, a, len)
  PROVE  /\ Len(l) \in Nat \ {0} /\ DOMAIN l = 1..Len(l)
         /\ DOMAIN x.clips = 1..Len(l) /\ Len(x.clips) = Len(l) /\ x.clips \in Seq(Clip)
         /\ x.total \in Nat /\ x.duration \in Nat
         /\ DOMAIN x = {"clips", "total", "duration"}
         /\ x = [clips |-> x.clips, total |-> x.total, duration |-> x.duration]
         /\ x.clips[1].start = 0 /\ x.clips[1].ptsStart = 0
         /\ \A i \in 1..Len(l) :
              /\ x.clips[i].start + x.clips[i].pkts * len =
                   IF i = Len(l) THEN x.total ELSE x.clips[i + 1].start
              /\ x.clips[i].ptsStart + Duration(l[i]) =
                   IF i = Len(l) THEN x.duration ELSE x.clips[i + 1].ptsStart
              /\ x.clips[i].inPts = 2 * l[i].inTime
              /\ ~x.clips[i].present => x.clips[i].pkts = 0
              /\ x.clips[i].pkts = PacketCount(l[i], a)
              /\ x.clips[i].ptsStart = ItemStart(l, i)
              /\ x.clips[i].eps = ByPts(AngleFile(l[i], a).rows, DOMAIN AngleFile(l[i], a).rows)
              /\ x.clips[i].changes =
                   ByPts(AngleFile(l[i], a).rows, ChangePlaces(AngleFile(l[i], a).rows))
<1> DEFINE n == Len(l)
           counts == [i \in 1..Len(l) |-> PacketCount(l[i], a)]
           spans == [i \in 1..Len(l) |-> Duration(l[i])]
           packets == RunningSum(counts)
           time == RunningSum(spans)
           clip(i) == [start |-> packets[i - 1] * len, pkts |-> counts[i],
                       present |-> AngleFile(l[i], a).present, ptsStart |-> time[i - 1],
                       inPts |-> 2 * l[i].inTime,
                       eps |-> ByPts(AngleFile(l[i], a).rows, DOMAIN AngleFile(l[i], a).rows),
                       changes |-> ByPts(AngleFile(l[i], a).rows,
                                         ChangePlaces(AngleFile(l[i], a).rows))]
<1>1. n \in Nat \ {0} /\ DOMAIN l = 1..n  BY DEF PlayList
<1>2. counts \in Seq(Nat) /\ spans \in Seq(Nat) /\ Len(counts) = n /\ Len(spans) = n
      /\ \A i \in 1..n : counts[i] = PacketCount(l[i], a) /\ spans[i] = Duration(l[i])
  <2>1. counts \in [1..n -> Nat] /\ spans \in [1..n -> Nat]  BY <1>1, ItemFile
  <2> QED  BY <1>1, <2>1
<1>3. AddsUp(packets, counts, n) /\ AddsUp(time, spans, n)
  BY <1>2, RunningTotals
<1>4. x = [clips |-> [i \in 1..n |-> clip(i)], total |-> packets[n] * len, duration |-> time[n]]
  BY DEF BuildIndex
<1>5. \A i \in 1..n : ItemStart(l, i) = time[i - 1]  BY DEF ItemStart
<1> HIDE DEF n, counts, spans, packets, time
<1>6. ASSUME NEW i \in 0..n  PROVE packets[i] \in Nat /\ time[i] \in Nat  BY <1>3 DEF AddsUp
<1>7. packets[0] = 0 /\ time[0] = 0
      /\ \A i \in 1..n : packets[i] = packets[i - 1] + counts[i] /\ time[i] = time[i - 1] + spans[i]
  BY <1>3 DEF AddsUp
<1>8. ASSUME NEW i \in 1..n  PROVE clip(i) \in Clip
  <2>1. packets[i - 1] \in Nat /\ time[i - 1] \in Nat /\ packets[i - 1] * len \in Nat
    <3>1. i - 1 \in 0..n  BY <1>1, <1>8
    <3>2. packets[i - 1] \in Nat /\ time[i - 1] \in Nat  BY <1>6, <3>1
    <3> QED  BY <3>2, BytesAdd
  <2>2. /\ AngleFile(l[i], a) \in StreamFile /\ counts[i] \in Nat /\ 2 * l[i].inTime \in Nat
    <3>1. i \in DOMAIN l  BY <1>1, <1>8
    <3>2. /\ AngleFile(l[i], a) \in StreamFile /\ PacketCount(l[i], a) \in Nat
          /\ l[i].inTime \in Nat
      BY <3>1, ItemFile
    <3> QED  BY <1>2, <1>8, <3>2
  <2>3. AngleFile(l[i], a).present \in BOOLEAN /\ AngleFile(l[i], a).rows \in Seq(EpRow)
    BY <2>2 DEF StreamFile
  <2>4. ByPts(AngleFile(l[i], a).rows, DOMAIN AngleFile(l[i], a).rows) \in Seq(Entry)
        /\ ByPts(AngleFile(l[i], a).rows, ChangePlaces(AngleFile(l[i], a).rows)) \in Seq(Entry)
    <3>1. ChangePlaces(AngleFile(l[i], a).rows) \in SUBSET DOMAIN AngleFile(l[i], a).rows
      BY DEF ChangePlaces
    <3> QED  BY <2>3, <3>1, Sorted
  <2> QED  BY <2>1, <2>2, <2>3, <2>4 DEF Clip
<1>9. x.clips = [i \in 1..n |-> clip(i)] /\ x.total = packets[n] * len /\ x.duration = time[n]
  BY <1>4
<1>10. DOMAIN x.clips = 1..n /\ Len(x.clips) = n /\ x.clips \in Seq(Clip)
  <2>1. x.clips \in [1..n -> Clip]  BY <1>8, <1>9
  <2> QED  BY <1>1, <2>1
<1>11. ASSUME NEW i \in 1..n
       PROVE  /\ x.clips[i].start = packets[i - 1] * len /\ x.clips[i].pkts = counts[i]
              /\ x.clips[i].present = AngleFile(l[i], a).present
              /\ x.clips[i].ptsStart = time[i - 1] /\ x.clips[i].inPts = 2 * l[i].inTime
              /\ x.clips[i].eps = ByPts(AngleFile(l[i], a).rows, DOMAIN AngleFile(l[i], a).rows)
              /\ x.clips[i].changes =
                   ByPts(AngleFile(l[i], a).rows, ChangePlaces(AngleFile(l[i], a).rows))
  <2>1. x.clips[i] = clip(i)  BY <1>9, <1>11
  <2> QED  BY <2>1
<1> HIDE DEF clip
<1>12. ASSUME NEW i \in 1..n
       PROVE  /\ x.clips[i].start + x.clips[i].pkts * len =
                   IF i = n THEN x.total ELSE x.clips[i + 1].start
              /\ x.clips[i].ptsStart + Duration(l[i]) =
                   IF i = n THEN x.duration ELSE x.clips[i + 1].ptsStart
  <2>1. /\ packets[i - 1] \in Nat /\ counts[i] \in Nat /\ packets[i] = packets[i - 1] + counts[i]
        /\ time[i] = time[i - 1] + spans[i] /\ spans[i] = Duration(l[i])
    <3>1. i - 1 \in 0..n  BY <1>1, <1>12
    <3>2. packets[i - 1] \in Nat  BY <1>6, <3>1
    <3>3. counts[i] \in Nat  BY <1>1, <1>2, <1>12, ItemFile
    <3> QED  BY <1>2, <1>7, <1>12, <3>2, <3>3
  <2>2. packets[i] * len = packets[i - 1] * len + counts[i] * len  BY <2>1, BytesAdd
  <2>3. CASE i = n  BY <1>9, <1>11, <1>12, <2>1, <2>2, <2>3
  <2>4. CASE i # n
    <3>1. i + 1 \in 1..n /\ (i + 1) - 1 = i  BY <1>1, <1>12, <2>4
    <3>2. x.clips[i + 1].start = packets[i] * len /\ x.clips[i + 1].ptsStart = time[i]
      BY <1>11, <3>1
    <3> QED  BY <1>11, <1>12, <2>1, <2>2, <2>4, <3>2
  <2> QED  BY <2>3, <2>4
<1>13. x.clips[1].start = 0 /\ x.clips[1].ptsStart = 0
  <2>1. 1 \in 1..n /\ 1 - 1 = 0 /\ 0 * len = 0  BY <1>1
  <2> QED  BY <1>7, <1>11, <2>1
<1>14. x.total \in Nat /\ x.duration \in Nat
  <2>1. n \in 0..n  BY <1>1
  <2>2. packets[n] \in Nat /\ time[n] \in Nat  BY <1>6, <2>1
  <2>3. packets[n] * len \in Nat  BY <2>2, BytesAdd
  <2> QED  BY <1>9, <2>2, <2>3
<1>15. ASSUME NEW i \in 1..n
       PROVE  /\ ~x.clips[i].present => x.clips[i].pkts = 0
              /\ x.clips[i].pkts = PacketCount(l[i], a)
  <2>1. i \in DOMAIN l  BY <1>1, <1>15
  <2>2. ~AngleFile(l[i], a).present => PacketCount(l[i], a) = 0  BY <2>1, ItemFile
  <2>3. x.clips[i].present = AngleFile(l[i], a).present /\ x.clips[i].pkts = counts[i]
    BY <1>11, <1>15
  <2>4. counts[i] = PacketCount(l[i], a)  BY <1>2, <1>15
  <2> QED  BY <2>2, <2>3, <2>4
<1>16. DOMAIN x = {"clips", "total", "duration"}
       /\ x = [clips |-> x.clips, total |-> x.total, duration |-> x.duration]
  BY <1>4
<1> QED  BY <1>1, <1>5, <1>10, <1>11, <1>12, <1>13, <1>14, <1>15, <1>16 DEF n

\* Clips follow each other in bytes and in time, up to the end of the title.
LEMMA IndexRises ==
  ASSUME NEW l \in PlayList, NEW a \in Nat, NEW len \in Nat, NEW x, x = BuildIndex(l, a, len)
  PROVE  /\ \A i, j \in 1..Len(l) : i <= j => /\ x.clips[i].start <= x.clips[j].start
                                              /\ x.clips[i].ptsStart <= x.clips[j].ptsStart
         /\ \A i \in 1..Len(l) : /\ x.clips[i].start + x.clips[i].pkts * len <= x.total
                                 /\ x.clips[i].ptsStart <= x.duration
                                 /\ x.clips[i].start \in Nat /\ x.clips[i].ptsStart \in Nat
                                 /\ x.clips[i].pkts \in Nat /\ x.clips[i].inPts \in Nat
<1> DEFINE n == Len(l)
           f == [k \in 1..(n + 1) |-> IF k = n + 1 THEN x.total ELSE x.clips[k].start]
           g == [k \in 1..(n + 1) |-> IF k = n + 1 THEN x.duration ELSE x.clips[k].ptsStart]
<1>1. n \in Nat \ {0} /\ DOMAIN l = 1..n /\ DOMAIN x.clips = 1..n /\ x.clips \in Seq(Clip)
      /\ x.total \in Nat /\ x.duration \in Nat
  BY IndexRows
<1>2. ASSUME NEW i \in 1..n
      PROVE  /\ x.clips[i].start \in Nat /\ x.clips[i].ptsStart \in Nat
             /\ x.clips[i].pkts \in Nat /\ x.clips[i].inPts \in Nat
             /\ x.clips[i].pkts * len \in Nat /\ Duration(l[i]) \in Nat
             /\ x.clips[i].start + x.clips[i].pkts * len =
                  IF i = n THEN x.total ELSE x.clips[i + 1].start
             /\ x.clips[i].ptsStart + Duration(l[i]) =
                  IF i = n THEN x.duration ELSE x.clips[i + 1].ptsStart
  <2>1. x.clips[i] \in Clip  BY <1>1, <1>2, ElementOfSeq, LenProperties
  <2>2. /\ x.clips[i].start \in Nat /\ x.clips[i].ptsStart \in Nat
        /\ x.clips[i].pkts \in Nat /\ x.clips[i].inPts \in Nat
    BY <2>1 DEF Clip
  <2>3. x.clips[i].pkts * len \in Nat  BY <2>2, BytesAdd
  <2>4. Duration(l[i]) \in Nat  BY <1>1, <1>2, ItemFile
  <2>5. /\ x.clips[i].start + x.clips[i].pkts * len =
             IF i = n THEN x.total ELSE x.clips[i + 1].start
        /\ x.clips[i].ptsStart + Duration(l[i]) =
             IF i = n THEN x.duration ELSE x.clips[i + 1].ptsStart
    BY <1>2, IndexRows
  <2> QED  BY <2>2, <2>3, <2>4, <2>5
<1> HIDE DEF n
<1>3. n + 1 \in Nat /\ \A k \in 1..(n + 1) : f[k] \in Nat /\ g[k] \in Nat
  <2>1. ASSUME NEW k \in 1..(n + 1)  PROVE f[k] \in Nat /\ g[k] \in Nat
    <3>1. CASE k = n + 1
      <4>1. f[k] = x.total /\ g[k] = x.duration  BY <2>1, <3>1
      <4> QED  BY <1>1, <4>1
    <3>2. CASE k # n + 1
      <4>1. f[k] = x.clips[k].start /\ g[k] = x.clips[k].ptsStart  BY <2>1, <3>2
      <4>2. k \in 1..n  BY <1>1, <2>1, <3>2
      <4> QED  BY <1>2, <4>1, <4>2
    <3> QED  BY <3>1, <3>2
  <2> HIDE DEF f, g
  <2> QED  BY <1>1, <2>1
<1>4. ASSUME NEW k \in 1..((n + 1) - 1)  PROVE f[k] <= f[k + 1] /\ g[k] <= g[k + 1]
  <2>1. k \in 1..n /\ k \in 1..(n + 1) /\ k + 1 \in 1..(n + 1) /\ (k + 1 = n + 1 <=> k = n)
    BY <1>1, <1>4
  <2>2. f[k] = x.clips[k].start /\ g[k] = x.clips[k].ptsStart  BY <1>1, <2>1
  <2>3. f[k + 1] = (IF k = n THEN x.total ELSE x.clips[k + 1].start)
        /\ g[k + 1] = (IF k = n THEN x.duration ELSE x.clips[k + 1].ptsStart)
    BY <2>1
  <2>4. f[k + 1] = x.clips[k].start + x.clips[k].pkts * len
        /\ g[k + 1] = x.clips[k].ptsStart + Duration(l[k])
    BY <1>2, <2>1, <2>3
  <2> QED  BY <1>2, <2>1, <2>2, <2>4
<1> HIDE DEF f, g
<1>5. \A i, j \in 1..(n + 1) : i <= j => f[i] <= f[j]  BY <1>3, <1>4, Rising
<1>6. \A i, j \in 1..(n + 1) : i <= j => g[i] <= g[j]  BY <1>3, <1>4, Rising
<1>7. ASSUME NEW i \in 1..n
      PROVE  /\ f[i] = x.clips[i].start /\ g[i] = x.clips[i].ptsStart
             /\ i \in 1..(n + 1) /\ n + 1 \in 1..(n + 1) /\ i <= n + 1
             /\ f[n + 1] = x.total /\ g[n + 1] = x.duration
  BY <1>1, <1>7 DEF f, g
<1>8. ASSUME NEW i \in 1..n, NEW j \in 1..n, i <= j
      PROVE  x.clips[i].start <= x.clips[j].start /\ x.clips[i].ptsStart <= x.clips[j].ptsStart
  <2>1. f[i] <= f[j] /\ g[i] <= g[j]  BY <1>5, <1>6, <1>7, <1>8
  <2> QED  BY <1>7, <1>8, <2>1
<1>9. ASSUME NEW i \in 1..n
      PROVE  x.clips[i].start + x.clips[i].pkts * len <= x.total
             /\ x.clips[i].ptsStart <= x.duration
  <2>1. g[i] <= g[n + 1]  BY <1>6, <1>7, <1>9
  <2>2. x.clips[i].ptsStart <= x.duration  BY <1>7, <1>9, <2>1
  <2>3. CASE i = n
    <3>1. x.clips[i].start + x.clips[i].pkts * len = x.total  BY <1>2, <1>9, <2>3
    <3> QED  BY <1>1, <2>2, <3>1
  <2>4. CASE i # n
    <3>1. i + 1 \in 1..n  BY <1>1, <1>9, <2>4
    <3>2. f[i + 1] <= f[n + 1]  BY <1>5, <1>7, <3>1
    <3>3. x.clips[i + 1].start <= x.total  BY <1>7, <3>1, <3>2
    <3>4. x.clips[i].start + x.clips[i].pkts * len = x.clips[i + 1].start
      BY <1>2, <1>9, <2>4
    <3> QED  BY <2>2, <3>3, <3>4
  <2> QED  BY <2>3, <2>4
<1>10. \A i \in 1..n : /\ x.clips[i].start \in Nat /\ x.clips[i].ptsStart \in Nat
                       /\ x.clips[i].pkts \in Nat /\ x.clips[i].inPts \in Nat
  BY <1>2
<1> QED  BY <1>8, <1>9, <1>10 DEF n

\* build_clip_seek_index makes of every PlayList, whatever clips are missing or
\* empty, an index as TitlesAssumption asks for: what the proofs about the
\* stream of a title assume of its clips, the code that opens it provides.
THEOREM IndexIsLaid ==
  ASSUME NEW l \in PlayList, NEW a \in Nat
  PROVE  /\ BuildIndex(l, a, TsLen) \in [clips : Seq(Clip), total : Nat, duration : Nat]
         /\ BuildIndex(l, a, TsLen).clips # <<>>
         /\ Laid(BuildIndex(l, a, TsLen))
<1> DEFINE x == BuildIndex(l, a, TsLen)
<1>0. x = BuildIndex(l, a, TsLen) /\ TsLen \in Nat  BY SizesAssumption
<1> HIDE DEF x
<1>1. /\ Len(l) \in Nat \ {0} /\ DOMAIN x.clips = 1..Len(l) /\ Len(x.clips) = Len(l)
      /\ x.clips \in Seq(Clip) /\ x.total \in Nat /\ x.duration \in Nat
      /\ x = [clips |-> x.clips, total |-> x.total, duration |-> x.duration]
      /\ x.clips[1].start = 0
  BY <1>0, IndexRows
<1>2. ASSUME NEW i \in 1..Len(l)
      PROVE  /\ x.clips[i].start + x.clips[i].pkts * TsLen =
                  IF i = Len(l) THEN x.total ELSE x.clips[i + 1].start
             /\ ~x.clips[i].present => x.clips[i].pkts = 0
  BY <1>0, <1>2, IndexRows
<1>3. \A i \in 1..Len(l) : x.clips[i].start + x.clips[i].pkts * TsLen <= x.total
  BY <1>0, IndexRises
<1>4. Laid(x)  BY <1>1, <1>2, <1>3 DEF Laid
<1>5. x.clips # <<>>  BY <1>1
<1>6. x \in [clips : Seq(Clip), total : Nat, duration : Nat]  BY <1>1
<1> QED  BY <1>0, <1>4, <1>5, <1>6

\* The rows of a file whose bytes go up with their times.
FileRises(f) ==
  /\ \A i \in DOMAIN f.rows : f.rows[i].pts <= PtsMax
  /\ \A i, j \in DOMAIN f.rows :
       f.rows[i].pts <= f.rows[j].pts => f.rows[i].spn <= f.rows[j].spn

\* When on the disc the bytes of a clip's EP_map go up with their times, in
\* whatever order its rows are listed, the index that is made of it fulfils
\* EpMapsRise, and what PointsInside asks of its order: every angle-change row is
\* a row of the index, and the clips start in the order of their times.
THEOREM TablesRise ==
  ASSUME NEW l \in PlayList, NEW a \in Nat, \A i \in DOMAIN l : FileRises(AngleFile(l[i], a)),
         NEW c \in DOMAIN BuildIndex(l, a, TsLen).clips
  PROVE  /\ RowsRise(BuildIndex(l, a, TsLen).clips[c].eps)
         /\ \A e \in DOMAIN BuildIndex(l, a, TsLen).clips[c].changes :
              \E k \in DOMAIN BuildIndex(l, a, TsLen).clips[c].eps :
                BuildIndex(l, a, TsLen).clips[c].eps[k] =
                  BuildIndex(l, a, TsLen).clips[c].changes[e]
         /\ c < Len(l) => BuildIndex(l, a, TsLen).clips[c].ptsStart
                            <= BuildIndex(l, a, TsLen).clips[c + 1].ptsStart
<1> DEFINE x == BuildIndex(l, a, TsLen)
           rows == AngleFile(l[c], a).rows
<1>0. x = BuildIndex(l, a, TsLen) /\ TsLen \in Nat  BY SizesAssumption
<1> HIDE DEF x
<1>1. Len(l) \in Nat \ {0} /\ DOMAIN l = 1..Len(l) /\ c \in 1..Len(l)  BY <1>0, IndexRows
<1>2. /\ x.clips[c].eps = ByPts(rows, DOMAIN rows)
      /\ x.clips[c].changes = ByPts(rows, ChangePlaces(rows))
  BY <1>0, <1>1, IndexRows
<1>3. rows \in Seq(EpRow) /\ FileRises(AngleFile(l[c], a))
  <2>1. AngleFile(l[c], a) \in StreamFile  BY <1>1, ItemFile
  <2> QED  BY <1>1, <2>1 DEF StreamFile
<1>4. /\ \A i \in DOMAIN rows : rows[i].pts <= PtsMax
      /\ \A i, j \in DOMAIN rows : rows[i].pts <= rows[j].pts => rows[i].spn <= rows[j].spn
  BY <1>3 DEF FileRises
<1> HIDE DEF rows
<1> DEFINE eps == ByPts(rows, DOMAIN rows)
           changes == ByPts(rows, ChangePlaces(rows))
<1>5. /\ \A r \in DOMAIN eps : \E i \in DOMAIN rows : /\ eps[r].pts = rows[i].pts
                                                      /\ eps[r].spn = rows[i].spn
      /\ \A i \in DOMAIN rows : \E r \in DOMAIN eps :
           eps[r] = [pts |-> rows[i].pts, spn |-> rows[i].spn]
      /\ \A r, s \in DOMAIN eps : r < s => eps[r].pts <= eps[s].pts
  <2>1. DOMAIN rows \in SUBSET DOMAIN rows  OBVIOUS
  <2> HIDE DEF eps
  <2>2. eps = ByPts(rows, DOMAIN rows)  BY DEF eps
  <2> QED  BY <1>3, <2>1, <2>2, Sorted
<1>6. ChangePlaces(rows) \in SUBSET DOMAIN rows  BY DEF ChangePlaces
<1>7. /\ changes \in Seq(Entry)
      /\ \A r \in DOMAIN changes : \E i \in ChangePlaces(rows) :
           changes[r].pts = rows[i].pts /\ changes[r].spn = rows[i].spn
  BY <1>3, <1>6, Sorted
<1> HIDE DEF eps, changes
<1>8. RowsRise(eps)
  <2>1. ASSUME NEW r \in DOMAIN eps  PROVE eps[r].pts <= PtsMax  BY <1>4, <1>5, <2>1
  <2>2. ASSUME NEW r \in DOMAIN eps, NEW s \in DOMAIN eps, eps[r].pts <= eps[s].pts
        PROVE  eps[r].spn <= eps[s].spn
    <3>1. PICK i \in DOMAIN rows : eps[r].pts = rows[i].pts /\ eps[r].spn = rows[i].spn
      BY <1>5, <2>2
    <3>2. PICK j \in DOMAIN rows : eps[s].pts = rows[j].pts /\ eps[s].spn = rows[j].spn
      BY <1>5, <2>2
    <3> QED  BY <1>4, <2>2, <3>1, <3>2
  <2> QED  BY <1>5, <2>1, <2>2 DEF RowsRise
<1>9. ASSUME NEW e \in DOMAIN changes  PROVE \E k \in DOMAIN eps : eps[k] = changes[e]
  <2>1. PICK i \in ChangePlaces(rows) : changes[e].pts = rows[i].pts /\ changes[e].spn = rows[i].spn
    BY <1>7, <1>9
  <2>2. changes[e] \in Entry  BY <1>7, <1>9, ElementOfSeq, LenProperties
  <2>3. changes[e] = [pts |-> rows[i].pts, spn |-> rows[i].spn]  BY <2>1, <2>2 DEF Entry
  <2> QED  BY <1>5, <1>6, <2>3
<1>10. c < Len(l) => x.clips[c].ptsStart <= x.clips[c + 1].ptsStart
  <2> SUFFICES ASSUME c < Len(l)  PROVE x.clips[c].ptsStart <= x.clips[c + 1].ptsStart
    OBVIOUS
  <2>1. c + 1 \in 1..Len(l) /\ c <= c + 1  BY <1>1
  <2> QED  BY <1>0, <1>1, <2>1, IndexRises
<1> QED  BY <1>0, <1>2, <1>8, <1>9, <1>10 DEF eps, changes

-----------------------------------------------------------------------------
(* One time axis.                                                          *)

\* A segment begins where its clip does, and ends where the next one begins.
LEMMA SegmentRows ==
  ASSUME NEW l \in PlayList, NEW a \in Nat, NEW len \in Nat, NEW x, x = BuildIndex(l, a, len)
  PROVE  /\ DOMAIN Segments(x) = 1..Len(l) /\ Len(Segments(x)) = Len(l)
         /\ \A i \in 1..Len(l) :
              /\ Segments(x)[i].byteStart = x.clips[i].start
              /\ Segments(x)[i].ptsStart = x.clips[i].ptsStart
              /\ Segments(x)[i].clipIn = x.clips[i].inPts
              /\ Segments(x)[i].byteEnd =
                   IF i = Len(l) THEN x.total ELSE x.clips[i + 1].start
              /\ Segments(x)[i].ptsEnd =
                   IF i = Len(l) THEN x.duration ELSE x.clips[i + 1].ptsStart
<1>1. DOMAIN x.clips = 1..Len(l) /\ Len(x.clips) = Len(l) /\ Len(l) \in Nat  BY IndexRows
<1> QED  BY <1>1 DEF Segments

LEMMA SegmentsTileTitle ==
  ASSUME NEW l \in PlayList, NEW a \in Nat, NEW len \in Nat, NEW x, x = BuildIndex(l, a, len)
  PROVE  SegmentsTile(x)
<1> DEFINE n == Len(l)
           segs == Segments(x)
<1>1. n \in Nat \ {0} /\ x.clips[1].start = 0 /\ x.clips[1].ptsStart = 0
      /\ x.total \in Nat /\ x.duration \in Nat
  BY IndexRows
<1>2. DOMAIN segs = 1..n /\ Len(segs) = n  BY SegmentRows
<1>3. ASSUME NEW i \in 1..n
      PROVE  /\ segs[i].byteStart = x.clips[i].start /\ segs[i].ptsStart = x.clips[i].ptsStart
             /\ segs[i].byteEnd = IF i = n THEN x.total ELSE x.clips[i + 1].start
             /\ segs[i].ptsEnd = IF i = n THEN x.duration ELSE x.clips[i + 1].ptsStart
  BY <1>3, SegmentRows
<1> HIDE DEF n, segs
<1>4. segs[1].byteStart = 0 /\ segs[1].ptsStart = 0
  <2>1. 1 \in 1..n  BY <1>1
  <2> QED  BY <1>1, <1>3, <2>1
<1>5. segs[n].byteEnd = x.total /\ segs[n].ptsEnd = x.duration
  <2>1. n \in 1..n  BY <1>1
  <2> QED  BY <1>3, <2>1
<1>6. ASSUME NEW i \in 1..n
      PROVE  segs[i].byteStart <= segs[i].byteEnd /\ segs[i].ptsStart <= segs[i].ptsEnd
  <2>1. CASE i = n
    <3>1. /\ x.clips[i].start + x.clips[i].pkts * len <= x.total
          /\ x.clips[i].ptsStart <= x.duration
          /\ x.clips[i].start \in Nat /\ x.clips[i].pkts \in Nat
      BY <1>6, IndexRises DEF n
    <3>2. x.clips[i].pkts * len \in Nat  BY <3>1, BytesAdd
    <3>3. x.clips[i].start <= x.total  BY <1>1, <3>1, <3>2
    <3> QED  BY <1>3, <1>6, <2>1, <3>1, <3>3
  <2>2. CASE i # n
    <3>1. i + 1 \in 1..n /\ i <= i + 1  BY <1>1, <1>6, <2>2
    <3>2. x.clips[i].start <= x.clips[i + 1].start
          /\ x.clips[i].ptsStart <= x.clips[i + 1].ptsStart
      BY <1>6, <3>1, IndexRises DEF n
    <3> QED  BY <1>3, <1>6, <2>2, <3>2
  <2> QED  BY <2>1, <2>2
<1>7. ASSUME NEW i \in 1..n, i > 1
      PROVE  segs[i].byteStart = segs[i - 1].byteEnd /\ segs[i].ptsStart = segs[i - 1].ptsEnd
  <2>1. i - 1 \in 1..n /\ i - 1 # n /\ (i - 1) + 1 = i  BY <1>1, <1>7
  <2>2. segs[i - 1].byteEnd = x.clips[(i - 1) + 1].start
        /\ segs[i - 1].ptsEnd = x.clips[(i - 1) + 1].ptsStart
    BY <1>3, <2>1
  <2> QED  BY <1>3, <1>7, <2>1, <2>2
<1> QED  BY <1>2, <1>4, <1>5, <1>6, <1>7 DEF SegmentsTile, segs, n

\* The clip that TitlePts looks up for a byte of a segment is the segment's.
LEMMA ClipOfByte ==
  ASSUME NEW l \in PlayList, NEW a \in Nat, NEW len \in Nat, NEW x, x = BuildIndex(l, a, len),
         NEW s \in 1..Len(l), NEW pts \in Nat,
         NEW b \in Segments(x)[s].byteStart..(Segments(x)[s].byteEnd - 1)
  PROVE  TitlePts(x, b, pts) =
           IF pts < x.clips[s].inPts THEN NoTime
           ELSE x.clips[s].ptsStart + (pts - x.clips[s].inPts)
<1> DEFINE Found(i) == /\ x.clips[i].start <= b
                       /\ \A j \in DOMAIN x.clips : x.clips[j].start <= b => j <= i
<1>1. Len(l) \in Nat \ {0} /\ DOMAIN x.clips = 1..Len(l) /\ x.total \in Nat  BY IndexRows
<1>2. \A i \in 1..Len(l) : x.clips[i].start \in Nat  BY IndexRises
<1>3. /\ Segments(x)[s].byteStart = x.clips[s].start
      /\ Segments(x)[s].byteEnd = IF s = Len(l) THEN x.total ELSE x.clips[s + 1].start
  BY SegmentRows
<1>4. x.clips[s].start \in Nat /\ Segments(x)[s].byteEnd \in Nat
  <2>1. s # Len(l) => s + 1 \in 1..Len(l)  BY <1>1
  <2> QED  BY <1>1, <1>2, <1>3, <2>1
<1>5. b \in Nat /\ x.clips[s].start <= b /\ b < Segments(x)[s].byteEnd  BY <1>3, <1>4
<1>6. Found(s)
  <2> SUFFICES ASSUME NEW j \in 1..Len(l), x.clips[j].start <= b, ~(j <= s)  PROVE FALSE
    BY <1>1, <1>5
  <2>1. s # Len(l) /\ s + 1 \in 1..Len(l) /\ s + 1 <= j  BY <1>1
  <2>2. x.clips[s + 1].start <= x.clips[j].start  BY <2>1, IndexRises
  <2>3. b < x.clips[s + 1].start  BY <1>3, <1>5, <2>1
  <2>4. x.clips[s + 1].start \in Nat /\ x.clips[j].start \in Nat  BY <1>2, <2>1
  <2> QED  BY <1>5, <2>2, <2>3, <2>4
<1>7. \A i \in DOMAIN x.clips : Found(i) => i = s  BY <1>1, <1>6
<1>8. s \in DOMAIN x.clips  BY <1>1
<1>9. (CHOOSE i \in DOMAIN x.clips : Found(i)) = s
  <2> HIDE DEF Found
  <2> QED  BY <1>6, <1>7, <1>8
<1> DEFINE c == x.clips[CHOOSE i \in DOMAIN x.clips : Found(i)]
<1>10. TitlePts(x, b, pts) = IF pts < c.inPts THEN NoTime ELSE c.ptsStart + (pts - c.inPts)
  BY DEF TitlePts
<1>11. c = x.clips[s]
  <2> HIDE DEF Found
  <2> QED  BY <1>9
<1> HIDE DEF c
<1> QED  BY <1>10, <1>11

LEMMA WindowMeetsBytes ==
  ASSUME NEW l \in PlayList, NEW a \in Nat, NEW len \in Nat, NEW x, x = BuildIndex(l, a, len),
         NEW type, NEW sub \in SubPlayItem
  PROVE  WindowMeets(l, x, type, sub)
<1> DEFINE segs == Segments(x)
           window == SyncWindow(l, type, sub)
           s == sub.sync + 1
           at == 2 * sub.anchor
<1>1. sub.sync \in Nat /\ sub.anchor \in Nat /\ sub.inTime \in Nat /\ sub.outTime \in Nat
  BY DEF SubPlayItem
<1>2. Len(l) \in Nat \ {0} /\ DOMAIN l = 1..Len(l)  BY IndexRows
<1>3. Len(segs) = Len(l) /\ DOMAIN segs = 1..Len(l)  BY SegmentRows
<1>4. Duration(sub) \in Nat  BY <1>1 DEF Duration
<1>5. CASE type = AsyncPip \/ sub.sync >= Len(l)
  <2>1. window = NoWindow  BY <1>1, <1>2, <1>5 DEF SyncWindow, SyncItem
  <2> QED  BY <1>1, <1>2, <1>3, <1>5, <2>1 DEF WindowMeets
<1>6. CASE type # AsyncPip /\ sub.sync < Len(l)
  <2>1. s \in 1..Len(l)  BY <1>1, <1>2, <1>6
  <2>2. /\ segs[s].clipIn = x.clips[s].inPts /\ x.clips[s].inPts = 2 * l[s].inTime
        /\ x.clips[s].ptsStart = ItemStart(l, s) /\ x.clips[s].ptsStart \in Nat
        /\ l[s].inTime \in Nat
    <3>1. segs[s].clipIn = x.clips[s].inPts  BY <2>1, SegmentRows
    <3>2. x.clips[s].inPts = 2 * l[s].inTime /\ x.clips[s].ptsStart = ItemStart(l, s)
      <4>1. \A i \in 1..Len(l) : x.clips[i].inPts = 2 * l[i].inTime  BY IndexRows
      <4>2. \A i \in 1..Len(l) : x.clips[i].ptsStart = ItemStart(l, i)  BY IndexRows
      <4> QED  BY <2>1, <4>1, <4>2
    <3>3. x.clips[s].ptsStart \in Nat  BY <2>1, IndexRises
    <3>4. l[s].inTime \in Nat  BY <1>2, <2>1, ItemFile
    <3> QED  BY <3>1, <3>2, <3>3, <3>4
  <2>3. at < segs[s].clipIn <=> sub.anchor < l[s].inTime  BY <1>1, <2>2
  <2>4. ASSUME NEW b \in segs[s].byteStart..(segs[s].byteEnd - 1)
        PROVE  TitlePts(x, b, at) =
                 IF at < x.clips[s].inPts THEN NoTime
                 ELSE x.clips[s].ptsStart + (at - x.clips[s].inPts)
    <3>1. at \in Nat  BY <1>1
    <3>2. b \in Segments(x)[s].byteStart..(Segments(x)[s].byteEnd - 1)  BY <2>4
    <3> HIDE DEF segs, s, at
    <3> QED  BY <2>1, <3>1, <3>2, ClipOfByte
  <2>5. window = IF sub.anchor < l[s].inTime THEN NoWindow
                 ELSE [start |-> ItemStart(l, s) + 2 * (sub.anchor - l[s].inTime),
                       end |-> ItemStart(l, s) + 2 * (sub.anchor - l[s].inTime) + Duration(sub)]
    BY <1>2, <1>6, <2>1 DEF SyncWindow, SyncItem
  <2> HIDE DEF window, segs
  <2>6. CASE sub.anchor < l[s].inTime
    <3>1. window = NoWindow /\ window.start = NoTime  BY <2>5, <2>6 DEF NoWindow
    <3>2. \A b \in segs[s].byteStart..(segs[s].byteEnd - 1) : TitlePts(x, b, at) = window.start
      BY <2>2, <2>3, <2>4, <2>6, <3>1
    <3> QED  BY <1>3, <1>6, <2>3, <2>6, <3>1, <3>2 DEF WindowMeets, window, segs
  <2>7. CASE ~(sub.anchor < l[s].inTime)
    <3>1. /\ window.start = x.clips[s].ptsStart + 2 * (sub.anchor - l[s].inTime)
          /\ window.end = window.start + Duration(sub)
      BY <2>2, <2>5, <2>7
    <3>2. window.start \in Nat /\ NoWindow.start = -1
      BY <1>1, <2>2, <2>7, <3>1 DEF NoWindow, NoTime
    <3>3. window # NoWindow  BY <3>2
    <3>4. \A b \in segs[s].byteStart..(segs[s].byteEnd - 1) : TitlePts(x, b, at) = window.start
      BY <1>1, <2>2, <2>3, <2>4, <2>7, <3>1
    <3>5. /\ sub.sync < Len(segs) /\ ~(sub.sync >= Len(segs))
          /\ ~(2 * sub.anchor < segs[s].clipIn)
      BY <1>1, <1>2, <1>3, <1>6, <2>3, <2>7
    <3> HIDE DEF s
    <3>6. WindowMeets(l, x, type, sub)
            <=> /\ window = NoWindow <=>
                     \/ type = AsyncPip \/ sub.sync >= Len(segs)
                     \/ sub.sync < Len(segs) /\ 2 * sub.anchor < segs[s].clipIn
                /\ window # NoWindow => window.end = window.start + Duration(sub)
                /\ type # AsyncPip =>
                     \A b \in IF sub.sync < Len(segs)
                                THEN segs[s].byteStart..(segs[s].byteEnd - 1) ELSE {} :
                       TitlePts(x, b, at) = window.start
      BY DEF WindowMeets, window, segs, s, at
    <3> HIDE DEF at
    <3> QED  BY <1>6, <3>1, <3>3, <3>4, <3>5, <3>6
  <2> QED  BY <2>6, <2>7
<1>7. sub.sync >= Len(l) \/ sub.sync < Len(l)  BY <1>1, <1>2
<1> QED
  <2> DEFINE Async == type = AsyncPip
             Past == sub.sync >= Len(l)
             Inside == sub.sync < Len(l)
             Meets == WindowMeets(l, x, type, sub)
  <2>1. (Async \/ Past) => Meets  BY <1>5
  <2>2. ~Async /\ Inside => Meets  BY <1>6
  <2>3. Past \/ Inside  BY <1>7
  <2> HIDE DEF Async, Past, Inside
  <2> QED  BY <2>1, <2>2, <2>3

-----------------------------------------------------------------------------
(* Chapters.                                                               *)

LEMMA ItemStarts ==
  ASSUME NEW l \in PlayList  PROVE \A i \in 1..(Len(l) + 1) : ItemStart(l, i) \in Nat
<1> DEFINE spans == [k \in 1..Len(l) |-> Duration(l[k])]
           time == RunningSum(spans)
<1>1. Len(l) \in Nat /\ DOMAIN l = 1..Len(l)  BY DEF PlayList
<1>2. spans \in Seq(Nat) /\ Len(spans) = Len(l)
  <2>1. \A k \in 1..Len(l) : Duration(l[k]) \in Nat
    <3> SUFFICES ASSUME NEW k \in 1..Len(l)  PROVE Duration(l[k]) \in Nat
      OBVIOUS
    <3>1. k \in DOMAIN l /\ 0 \in Nat  BY <1>1
    <3> QED  BY <3>1, ItemFile
  <2>2. spans \in [1..Len(l) -> Nat]  BY <2>1
  <2> QED  BY <1>1, <2>2
<1>3. AddsUp(time, spans, Len(l))  BY <1>2, RunningTotals
<1>4. \A i \in 1..(Len(l) + 1) : ItemStart(l, i) = time[i - 1]  BY DEF ItemStart
<1> HIDE DEF spans, time
<1> QED  BY <1>1, <1>3, <1>4 DEF AddsUp

\* The marks that are chapters, at the times they begin.
LEMMA StartTimes ==
  ASSUME NEW l \in PlayList, NEW marks \in Seq(Mark)
  PROVE  ChapterStarts(l, marks) \in Seq(Nat)
<1> DEFINE places == {k \in DOMAIN marks : IsChapter(l, marks[k])}
           keys == [k \in DOMAIN marks |-> k]
           listed == Ranked(keys, places)
           n == Cardinality(places)
<1>1. IsFiniteSet(places) /\ places \in SUBSET DOMAIN marks
  <2>1. DOMAIN marks = 1..Len(marks) /\ Len(marks) \in Nat  BY LenProperties
  <2>2. IsFiniteSet(1..Len(marks))  BY <2>1, FS_Interval
  <2> QED  BY <2>1, <2>2, FS_Subset
<1>2. ChapterStarts(l, marks) = [k \in DOMAIN listed |-> ChapterStart(l, marks[listed[k]])]
  BY DEF ChapterStarts
<1>3. \A k \in places : k \in Nat /\ keys[k] \in Nat  BY LenProperties
<1>4. \A k \in places : ChapterStart(l, marks[k]) \in Nat
  <2> SUFFICES ASSUME NEW k \in places  PROVE ChapterStart(l, marks[k]) \in Nat
    OBVIOUS
  <2> DEFINE m == marks[k]
             i == m.item + 1
  <2>1. m \in Mark  BY ElementOfSeq, LenProperties
  <2>2. m.time \in Nat /\ m.item \in Nat  BY <2>1 DEF Mark
  <2>3. i \in DOMAIN l /\ m.time >= l[i].inTime  BY DEF IsChapter
  <2>4. Len(l) \in Nat /\ DOMAIN l = 1..Len(l)  BY DEF PlayList
  <2>5. i \in 1..(Len(l) + 1)  BY <2>3, <2>4
  <2>6. ItemStart(l, i) \in Nat  BY <2>5, ItemStarts
  <2>7. l[i].inTime \in Nat
    <3>1. 0 \in Nat  OBVIOUS
    <3> QED  BY <2>3, <3>1, ItemFile
  <2>8. ChapterStart(l, m) = ItemStart(l, i) + 2 * (m.time - l[i].inTime)  BY DEF ChapterStart
  <2> HIDE DEF m, i
  <2>9. ChapterStart(l, m) \in Nat  BY <2>2, <2>3, <2>6, <2>7, <2>8
  <2> QED  BY <2>9 DEF m
<1> HIDE DEF places, keys
<1>5. n \in Nat /\ DOMAIN listed = 1..n /\ \A r \in 1..n : listed[r] \in places
  BY <1>1, <1>3, RankedPlaces
<1> HIDE DEF listed, n
<1> QED  BY <1>2, <1>4, <1>5

\* InOrder lists the same times, and they rise.
LEMMA OrderedTimes ==
  ASSUME NEW starts \in Seq(Nat)
  PROVE  /\ InOrder(starts) \in Seq(Nat)
         /\ \A r, s \in DOMAIN InOrder(starts) : r < s => InOrder(starts)[r] <= InOrder(starts)[s]
         /\ \A k \in DOMAIN starts : \E j \in DOMAIN InOrder(starts) :
              InOrder(starts)[j] = starts[k]
<1> DEFINE places == DOMAIN starts
           order == Ranked(starts, places)
           n == Cardinality(places)
           sorted == [k \in DOMAIN order |-> starts[order[k]]]
<1>1. InOrder(starts) = sorted  BY DEF InOrder
<1>2. IsFiniteSet(places)
  <2>1. DOMAIN starts = 1..Len(starts) /\ Len(starts) \in Nat  BY LenProperties
  <2>2. IsFiniteSet(1..Len(starts))  BY <2>1, FS_Interval
  <2> QED  BY <2>1, <2>2
<1>3. \A i \in places : i \in Nat /\ starts[i] \in Nat  BY LenProperties, ElementOfSeq
<1> HIDE DEF places
<1>4. n \in Nat /\ DOMAIN order = 1..n /\ \A r \in 1..n : order[r] \in places
  BY <1>2, <1>3, RankedPlaces
<1>5. \A r, s \in 1..n : r < s => Before(starts, order[r], order[s])  BY <1>2, <1>3, RankedPlaces
<1>6. \A i \in places : \E r \in 1..n : order[r] = i  BY <1>2, <1>3, RankedPlaces
<1> HIDE DEF order, n
<1>7. sorted \in Seq(Nat) /\ DOMAIN sorted = 1..n /\ \A r \in 1..n : sorted[r] = starts[order[r]]
  <2>1. \A r \in 1..n : starts[order[r]] \in Nat  BY <1>3, <1>4
  <2> QED  BY <1>4, <2>1
<1> HIDE DEF sorted
<1>8. ASSUME NEW r \in 1..n, NEW s \in 1..n, r < s  PROVE sorted[r] <= sorted[s]
  <2>1. Before(starts, order[r], order[s]) /\ starts[order[r]] \in Nat /\ starts[order[s]] \in Nat
    BY <1>3, <1>4, <1>5, <1>8
  <2> QED  BY <1>7, <2>1 DEF Before
<1>9. \A k \in places : \E j \in 1..n : sorted[j] = starts[k]  BY <1>6, <1>7
<1> QED  BY <1>1, <1>7, <1>8, <1>9 DEF places

\* What the calls that list a title say of a PlayList that has a PlayItem.
LEMMA SpansMeet ==
  ASSUME NEW l \in PlayList, NEW marks \in Seq(Mark),
         NEW spans, spans = ChapterSpans(l, marks),
         NEW starts, starts = ChapterStarts(l, marks)
  PROVE  /\ \A k \in DOMAIN spans :
              /\ spans[k].start <= spans[k].end
              /\ IF k < Len(spans) THEN spans[k].end = spans[k + 1].start
                                   ELSE spans[k].end >= TitleEnd(l)
         /\ \A k \in DOMAIN starts : \E j \in DOMAIN spans : spans[j].start = starts[k]
<1> DEFINE sorted == InOrder(starts)
           n == Len(sorted)
           until(k) == IF k = n THEN TitleEnd(l) ELSE sorted[k + 1]
<1>1. starts \in Seq(Nat)  BY StartTimes
<1>2. sorted \in Seq(Nat)
      /\ \A r, s \in DOMAIN sorted : r < s => sorted[r] <= sorted[s]
      /\ \A k \in DOMAIN starts : \E j \in DOMAIN sorted : sorted[j] = starts[k]
  BY <1>1, OrderedTimes
<1>3. spans = [k \in DOMAIN sorted |-> [start |-> sorted[k], end |-> Later(until(k), sorted[k])]]
  BY DEF ChapterSpans
<1>4. TitleEnd(l) \in Nat
  <2>1. Len(l) + 1 \in 1..(Len(l) + 1)  BY DEF PlayList
  <2> QED  BY <2>1, ItemStarts DEF TitleEnd
<1>5. n \in Nat /\ DOMAIN sorted = 1..n /\ \A k \in 1..n : sorted[k] \in Nat
  BY <1>2, LenProperties, ElementOfSeq
<1>6. DOMAIN spans = 1..n /\ Len(spans) = n
      /\ \A k \in 1..n : spans[k].start = sorted[k] /\ spans[k].end = Later(until(k), sorted[k])
  <2> HIDE DEF sorted, n, until
  <2>1. DOMAIN spans = 1..n /\ Len(spans) = n  BY <1>3, <1>5
  <2>2. \A k \in 1..n : spans[k] = [start |-> sorted[k], end |-> Later(until(k), sorted[k])]
    BY <1>3, <1>5
  <2> QED  BY <2>1, <2>2
<1> HIDE DEF sorted, n
<1>7. ASSUME NEW k \in 1..n
      PROVE  /\ spans[k].start <= spans[k].end
             /\ IF k < n THEN spans[k].end = spans[k + 1].start ELSE spans[k].end >= TitleEnd(l)
  <2>1. CASE k < n
    <3>1. k + 1 \in 1..n /\ k < k + 1 /\ k # n  BY <1>5, <2>1
    <3>2. sorted[k] \in Nat /\ sorted[k + 1] \in Nat /\ sorted[k] <= sorted[k + 1]
      BY <1>2, <1>5, <3>1
    <3>3. spans[k].end = sorted[k + 1]  BY <1>6, <3>1, <3>2 DEF Later
    <3>4. spans[k].start = sorted[k] /\ spans[k + 1].start = sorted[k + 1]  BY <1>6, <3>1
    <3> QED  BY <2>1, <3>2, <3>3, <3>4
  <2>2. CASE ~(k < n)
    <3>1. k = n /\ sorted[k] \in Nat  BY <1>5, <2>2
    <3>2. spans[k].start = sorted[k] /\ spans[k].end = Later(TitleEnd(l), sorted[k])
      BY <1>6, <3>1
    <3>3. sorted[k] <= Later(TitleEnd(l), sorted[k]) /\ Later(TitleEnd(l), sorted[k]) >= TitleEnd(l)
      BY <1>4, <3>1 DEF Later
    <3> QED  BY <2>2, <3>2, <3>3
  <2> QED  BY <2>1, <2>2
<1>8. ASSUME NEW k \in DOMAIN starts  PROVE \E j \in 1..n : spans[j].start = starts[k]
  <2>0. \E j \in DOMAIN sorted : sorted[j] = starts[k]
    <3> USE DEF sorted
    <3> QED  BY <1>1, <1>8, OrderedTimes
  <2>1. PICK j \in 1..n : sorted[j] = starts[k]  BY <1>5, <2>0
  <2>2. spans[j].start = sorted[j]  BY <1>6
  <2> QED  BY <2>1, <2>2
<1> QED  BY <1>6, <1>7, <1>8

-----------------------------------------------------------------------------
(* Every PlayList.                                                         *)

LEMMA Grows == PlayListSpec => [](items \in PlayList)
<1> DEFINE Made == items \in Seq(PlayItems) /\ items # <<>>
<1>1. PlayListInit => Made
  <2> SUFFICES ASSUME PlayListInit  PROVE Made
    OBVIOUS
  <2>1. PICK i \in PlayItems : items = <<i>>  BY DEF PlayListInit
  <2> QED  BY <2>1
<1>2. Made /\ [AddItem]_items => Made'
  <2> SUFFICES ASSUME Made, AddItem  PROVE Made'
    OBVIOUS
  <2>1. PICK i \in PlayItems : items' = Append(items, i)  BY DEF AddItem
  <2> QED  BY <2>1
<1>3. Made => items \in PlayList
  <2> SUFFICES ASSUME Made  PROVE items \in PlayList
    OBVIOUS
  <2>1. ASSUME NEW i \in DOMAIN items  PROVE items[i] \in PlayItem /\ items[i].angles # <<>>
    BY <2>1, ElementOfSeq, LenProperties, TimelineAssumption
  <2>2. items \in Seq(PlayItem)  BY <2>1
  <2> QED  BY <2>1, <2>2 DEF PlayList
<1> QED  BY <1>1, <1>2, <1>3, PTL DEF PlayListSpec

\* On every PlayList the continuity segments tile the bytes and the time of the
\* title, and the PlayList's windows of sub-paths are where a player of the bytes
\* meets them.
THEOREM TimelineIsOne == PlayListSpec => []OneTimeline
<1>1. items \in PlayList => OneTimeline
  <2> SUFFICES ASSUME items \in PlayList  PROVE OneTimeline
    OBVIOUS
  <2>1. PacketLen \in Nat /\ SubItems \subseteq SubPlayItem /\ 0 \in Nat
    BY TimelineAssumption
  <2> DEFINE x == BuildIndex(items, 0, PacketLen)
  <2>2. x = BuildIndex(items, 0, PacketLen)  OBVIOUS
  <2> HIDE DEF x
  <2>3. SegmentsTile(x)  BY <2>1, <2>2, SegmentsTileTitle
  <2>4. ASSUME NEW type \in PathTypes, NEW sub \in SubItems
        PROVE  WindowMeets(items, x, type, sub)
    BY <2>1, <2>2, <2>4, WindowMeetsBytes
  <2> QED  BY <2>2, <2>3, <2>4 DEF OneTimeline
<1> QED  BY <1>1, Grows, PTL

\* Whatever marks a PlayList has, its chapters' spans follow one another without a
\* gap or an overlap to the end of the title, and none is lost.
THEOREM ChaptersTile == PlayListSpec => []SpansTile
<1>1. items \in PlayList => SpansTile
  <2> SUFFICES ASSUME items \in PlayList, NEW marks \in MarkLists
      PROVE  LET spans == ChapterSpans(items, marks)
                 starts == ChapterStarts(items, marks)
             IN  /\ \A k \in DOMAIN spans :
                      /\ spans[k].start <= spans[k].end
                      /\ IF k < Len(spans) THEN spans[k].end = spans[k + 1].start
                                           ELSE spans[k].end >= TitleEnd(items)
                 /\ \A k \in DOMAIN starts : \E j \in DOMAIN spans : spans[j].start = starts[k]
    BY DEF SpansTile
  <2>1. marks \in Seq(Mark)  BY TimelineAssumption
  <2> DEFINE spans == ChapterSpans(items, marks)
             starts == ChapterStarts(items, marks)
  <2>2. spans = ChapterSpans(items, marks) /\ starts = ChapterStarts(items, marks)  OBVIOUS
  <2> HIDE DEF spans, starts
  <2> QED  BY <2>1, <2>2, SpansMeet
<1> QED  BY <1>1, Grows, PTL

-----------------------------------------------------------------------------
(* What a Disc lists.                                                      *)

LEMMA OpensUpTo ==
  ASSUME NEW l \in PlayList, NEW a \in Nat  PROVE Opens(l, a) <=> a <= MaxAngle(l)
<1> DEFINE highest(i) == Len(l[i].angles) - 1
           numbers == {highest(i) : i \in DOMAIN l}
<1>1. l # <<>> /\ DOMAIN l = 1..Len(l) /\ Len(l) \in Nat \ {0}  BY DEF PlayList
<1>2. ASSUME NEW i \in DOMAIN l  PROVE highest(i) \in Nat /\ (HasAngle(l[i], a) <=> a <= highest(i))
  <2>1. l[i] \in PlayItem /\ l[i].angles # <<>>  BY ElementOfSeq, LenProperties DEF PlayList
  <2>2. l[i].angles \in Seq(StreamFile)  BY <2>1 DEF PlayItem
  <2>3. DOMAIN l[i].angles = 1..Len(l[i].angles) /\ Len(l[i].angles) \in Nat \ {0}
    BY <2>1, <2>2
  <2> QED  BY <2>3 DEF HasAngle
<1> HIDE DEF highest
<1>3. numbers \in SUBSET Nat /\ numbers # {}
  <2>1. \A i \in DOMAIN l : highest(i) \in Nat  BY <1>2
  <2>2. 1 \in DOMAIN l  BY <1>1
  <2>3. highest(1) \in numbers  BY <2>2
  <2>4. \A y \in numbers : y \in Nat  BY <2>1
  <2> QED  BY <2>3, <2>4
<1>4. Min(numbers) \in numbers /\ \A y \in numbers : Min(numbers) <= y
  <2>1. \E x \in numbers : \A y \in numbers : x <= y  BY <1>3, Least
  <2> QED  BY <2>1 DEF Min
<1>5. MaxAngle(l) = Min(numbers)  BY <1>1 DEF MaxAngle, highest
<1> HIDE DEF numbers
<1> DEFINE m == Min(numbers)
<1> HIDE DEF m
<1>6. m \in Nat /\ m \in numbers /\ \A y \in numbers : m <= y  BY <1>3, <1>4 DEF m
<1>7. \A i \in DOMAIN l : highest(i) \in numbers  BY DEF numbers
<1>8. \E i \in DOMAIN l : m = highest(i)  BY <1>6 DEF numbers
<1>9. Opens(l, a) => a <= m  BY <1>1, <1>2, <1>8 DEF Opens
<1>10. a <= m => Opens(l, a)
  <2> SUFFICES ASSUME a <= m, NEW i \in DOMAIN l  PROVE HasAngle(l[i], a)
    BY <1>1 DEF Opens
  <2>1. m <= highest(i) /\ highest(i) \in Nat  BY <1>2, <1>6, <1>7
  <2>2. a <= highest(i)  BY <1>6, <2>1
  <2> QED  BY <1>2, <2>2
<1> QED  BY <1>5, <1>9, <1>10 DEF m

\* Loops that begin alike and go on alike from like values end alike.
LEMMA SameLoop ==
  ASSUME NEW n \in Nat, NEW f, NEW g, f[0] = g[0],
         \A k \in 1..n : f[k - 1] = g[k - 1] => f[k] = g[k]
  PROVE  f[n] = g[n]
<1> SUFFICES ASSUME f[n] # g[n]  PROVE FALSE
  OBVIOUS
<1> DEFINE T == {k \in 0..n : f[k] # g[k]}
<1>1. T \in SUBSET Nat /\ n \in T  OBVIOUS
<1>2. PICK m \in T : \A k \in T : m <= k  BY <1>1, Least
<1>3. m \in 1..n /\ m - 1 \in 0..n  BY <1>2
<1>4. m - 1 \notin T  BY <1>2, <1>3
<1> QED  BY <1>2, <1>3, <1>4

\* The fields of a clip that the Disc notes on its walk.
Noted(c) == [start |-> c.start, ptsStart |-> c.ptsStart, inPts |-> c.inPts, changes |-> c.changes]

\* The walk notes the clips of the index, and ends where they do.
LEMMA WalkNotes ==
  ASSUME NEW l \in PlayList, NEW a \in Nat, NEW len \in Nat, NEW x, x = BuildIndex(l, a, len)
  PROVE  /\ Walk(l, a, len).bytes = x.total
         /\ Walk(l, a, len).clips = [i \in 1..Len(l) |-> Noted(x.clips[i])]
<1> DEFINE n == Len(l)
           rows(i) == AngleFile(l[i], a).rows
           seen(w, item) ==
             [start |-> w.bytes, ptsStart |-> w.pts, inPts |-> 2 * item.inTime,
              changes |-> ByPts(AngleFile(item, a).rows, ChangePlaces(AngleFile(item, a).rows))]
           past(w, item) ==
             [bytes |-> w.bytes + PacketCount(item, a) * len, pts |-> w.pts + Duration(item),
              clips |-> Append(w.clips, seen(w, item))]
           none == [bytes |-> 0, pts |-> 0, clips |-> <<>>]
           walk == [k \in 0..n |->
                      [bytes |-> IF k = n THEN x.total ELSE x.clips[k + 1].start,
                       pts   |-> IF k = n THEN x.duration ELSE x.clips[k + 1].ptsStart,
                       clips |-> [i \in 1..k |-> Noted(x.clips[i])]]]
<1>1. n \in Nat \ {0} /\ x.clips[1].start = 0 /\ x.clips[1].ptsStart = 0  BY IndexRows
<1>2. ASSUME NEW i \in 1..n
      PROVE  /\ x.clips[i].start + x.clips[i].pkts * len =
                   IF i = n THEN x.total ELSE x.clips[i + 1].start
             /\ x.clips[i].ptsStart + Duration(l[i]) =
                   IF i = n THEN x.duration ELSE x.clips[i + 1].ptsStart
             /\ x.clips[i].inPts = 2 * l[i].inTime
             /\ x.clips[i].changes = ByPts(rows(i), ChangePlaces(rows(i)))
             /\ x.clips[i].pkts = PacketCount(l[i], a)
  BY <1>2, IndexRows
<1> HIDE DEF n, rows
<1>3. walk[0] = none
  <2>1. 0 \in 0..n /\ 0 # n  BY <1>1
  <2>2. [i \in 1..0 |-> Noted(x.clips[i])] = <<>>  OBVIOUS
  <2> QED  BY <1>1, <2>1, <2>2
<1>4. ASSUME NEW k \in 1..n  PROVE walk[k] = past(walk[k - 1], l[k])
  <2> DEFINE before == walk[k - 1]
             after == walk[k]
  <2>1. k - 1 \in 0..n /\ k - 1 # n /\ (k - 1) + 1 = k /\ k \in 0..n  BY <1>1
  <2>2. /\ before.bytes = x.clips[k].start /\ before.pts = x.clips[k].ptsStart
        /\ before.clips = [i \in 1..(k - 1) |-> Noted(x.clips[i])]
    BY <2>1
  <2>3. after = [bytes |-> IF k = n THEN x.total ELSE x.clips[k + 1].start,
                 pts   |-> IF k = n THEN x.duration ELSE x.clips[k + 1].ptsStart,
                 clips |-> [i \in 1..k |-> Noted(x.clips[i])]]
    BY <2>1
  <2> HIDE DEF before, after, walk
  <2>4. seen(before, l[k]) = Noted(x.clips[k])  BY <1>2, <2>2 DEF Noted, rows
  <2>5. Append(before.clips, Noted(x.clips[k])) = [i \in 1..k |-> Noted(x.clips[i])]
    <3> DEFINE note(i) == Noted(x.clips[i])
    <3>1. before.clips = [i \in 1..(k - 1) |-> note(i)]  BY <2>2
    <3> HIDE DEF note
    <3>2. Append([i \in 1..(k - 1) |-> note(i)], note(k)) = [i \in 1..k |-> note(i)]
      BY <1>1, <1>4
    <3> QED  BY <3>1, <3>2 DEF note
  <2>6. before.bytes + PacketCount(l[k], a) * len = IF k = n THEN x.total ELSE x.clips[k + 1].start
    BY <1>2, <2>2
  <2>7. before.pts + Duration(l[k]) = IF k = n THEN x.duration ELSE x.clips[k + 1].ptsStart
    BY <1>2, <2>2
  <2>8. past(before, l[k]) = after
    <3> HIDE DEF seen
    <3> QED  BY <2>3, <2>4, <2>5, <2>6, <2>7
  <2> QED  BY <2>8 DEF before, after
<1> HIDE DEF past, none
<1> DEFINE Steps(f) == f = [k \in 0..n |-> IF k = 0 THEN none ELSE past(f[k - 1], l[k])]
           w == CHOOSE f : Steps(f)
<1>5. Walk(l, a, len) = w[n]  BY DEF Walk, past, none, n
<1>6. Steps(walk)
  <2>1. \A k \in 0..n : walk[k] = IF k = 0 THEN none ELSE past(walk[k - 1], l[k])
    <3> HIDE DEF walk
    <3> QED  BY <1>1, <1>3, <1>4
  <2> DEFINE r == [k \in 0..n |-> IF k = 0 THEN none ELSE past(walk[k - 1], l[k])]
  <2>2. \A k \in 0..n : walk[k] = r[k]
    <3> HIDE DEF walk
    <3> QED  BY <2>1
  <2>3. walk = [k \in 0..n |-> walk[k]]
    <3>1. DOMAIN walk = 0..n  OBVIOUS
    <3> DEFINE e(k) == [bytes |-> IF k = n THEN x.total ELSE x.clips[k + 1].start,
                        pts   |-> IF k = n THEN x.duration ELSE x.clips[k + 1].ptsStart,
                        clips |-> [i \in 1..k |-> Noted(x.clips[i])]]
    <3>2. walk = [k \in 0..n |-> e(k)]  OBVIOUS
    <3> HIDE DEF e, walk
    <3> QED  BY <3>2
  <2>4. r = [k \in 0..n |-> r[k]]  OBVIOUS
  <2>5. walk = r
    <3> HIDE DEF walk, r
    <3> QED  BY <2>2, <2>3, <2>4
  <2> QED  BY <2>5
<1> HIDE DEF walk
<1>7. Steps(w)
  <2> HIDE DEF Steps
  <2> QED  BY <1>6
<1> HIDE DEF w
<1>8. w[0] = none /\ \A k \in 1..n : w[k] = past(w[k - 1], l[k])
  <2>1. DOMAIN w = 0..n /\ \A k \in 0..n : w[k] = IF k = 0 THEN none ELSE past(w[k - 1], l[k])
    BY <1>7
  <2> QED  BY <1>1, <2>1
<1>9. w[n] = walk[n]
  <2>1. \A k \in 1..n : w[k - 1] = walk[k - 1] => w[k] = walk[k]  BY <1>4, <1>8
  <2>2. w[0] = walk[0] /\ n \in Nat  BY <1>1, <1>3, <1>8
  <2> HIDE DEF rows
  <2> QED  BY <2>1, <2>2, SameLoop
<1>10. walk[n].bytes = x.total /\ walk[n].clips = [i \in 1..n |-> Noted(x.clips[i])]
  BY <1>1 DEF walk
<1> QED  BY <1>5, <1>9, <1>10 DEF n

\* The Disc lists the segments of the index.
LEMMA SegmentsListed ==
  ASSUME NEW l \in PlayList, NEW a \in Nat, NEW len \in Nat, NEW x, x = BuildIndex(l, a, len),
         Opens(l, a)
  PROVE  ListedSegments(l, a, len) = Segments(x)
<1> DEFINE n == Len(l)
           c == Walk(l, a, len).clips
           ptsEnd(i) == IF i = Len(c) THEN c[i].ptsStart + Duration(l[i]) ELSE c[i + 1].ptsStart
           listed(i) ==
             [byteStart |-> c[i].start, ptsStart |-> c[i].ptsStart, ptsEnd |-> ptsEnd(i),
              byteEnd |-> IF i = Len(c) THEN Walk(l, a, len).bytes ELSE c[i + 1].start,
              clipIn |-> c[i].inPts, clipOut |-> c[i].inPts + (ptsEnd(i) - c[i].ptsStart)]
           end(i) == IF i = Len(x.clips) THEN x.duration ELSE x.clips[i + 1].ptsStart
           segment(i) ==
             [byteStart |-> x.clips[i].start,
              byteEnd |-> IF i = Len(x.clips) THEN x.total ELSE x.clips[i + 1].start,
              ptsStart |-> x.clips[i].ptsStart, ptsEnd |-> end(i),
              clipIn |-> x.clips[i].inPts,
              clipOut |-> x.clips[i].inPts + (end(i) - x.clips[i].ptsStart)]
<1>1. ListedSegments(l, a, len) = [i \in DOMAIN c |-> listed(i)]  BY DEF ListedSegments
<1>2. Segments(x) = [i \in DOMAIN x.clips |-> segment(i)]  BY DEF Segments
<1>3. n \in Nat \ {0} /\ DOMAIN x.clips = 1..n /\ Len(x.clips) = n  BY IndexRows
<1>4. c = [i \in 1..n |-> Noted(x.clips[i])] /\ Walk(l, a, len).bytes = x.total  BY WalkNotes
<1>5. \A i \in 1..n : x.clips[i].ptsStart + Duration(l[i]) =
                        IF i = n THEN x.duration ELSE x.clips[i + 1].ptsStart
  BY IndexRows
<1> HIDE DEF n, c
<1>6. DOMAIN c = 1..n /\ Len(c) = n  BY <1>3, <1>4
<1>7. ASSUME NEW i \in 1..n
      PROVE  /\ c[i].start = x.clips[i].start /\ c[i].ptsStart = x.clips[i].ptsStart
             /\ c[i].inPts = x.clips[i].inPts
  BY <1>4 DEF Noted
<1>8. ASSUME NEW i \in 1..n  PROVE listed(i) = segment(i)
  <2>1. CASE i = n
    <3>1. ptsEnd(i) = end(i)  BY <1>3, <1>5, <1>6, <1>7, <2>1
    <3> HIDE DEF ptsEnd, end
    <3> QED  BY <1>3, <1>4, <1>6, <1>7, <2>1, <3>1
  <2>2. CASE i # n
    <3>1. i + 1 \in 1..n  BY <1>3, <2>2
    <3>2. c[i + 1].start = x.clips[i + 1].start /\ c[i + 1].ptsStart = x.clips[i + 1].ptsStart
      BY <1>7, <3>1
    <3>3. ptsEnd(i) = end(i)  BY <1>3, <1>6, <2>2, <3>2
    <3> HIDE DEF ptsEnd, end
    <3> QED  BY <1>3, <1>6, <1>7, <2>2, <3>2, <3>3
  <2> QED  BY <2>1, <2>2
<1> HIDE DEF listed, segment
<1> QED  BY <1>1, <1>2, <1>3, <1>6, <1>8

\* Places that are their own keys, and one past them.
PastPlaces(keys, places, k) ==
  /\ IsFiniteSet(places) /\ k \in Nat /\ keys[k] = k
  /\ \A i \in places : i \in Nat /\ keys[i] = i /\ i < k

\* A place past the others is listed after them.
LEMMA RankedGrows ==
  ASSUME NEW keys, NEW places, NEW k, PastPlaces(keys, places, k)
  PROVE  Ranked(keys, places \union {k}) = Append(Ranked(keys, places), k)
<1>0. /\ IsFiniteSet(places) /\ k \in Nat /\ keys[k] = k
      /\ \A i \in places : i \in Nat /\ keys[i] = i /\ i < k
  BY DEF PastPlaces
<1> DEFINE more == places \union {k}
           n == Cardinality(places)
           old == Ranked(keys, places)
           new == Ranked(keys, more)
<1>1. IsFiniteSet(more) /\ Cardinality(more) = n + 1 /\ n \in Nat
  <2>1. k \notin places  BY <1>0
  <2> QED  BY <1>0, <2>1, FS_AddElement, FS_CardinalityType
<1>2. \A i \in places : i \in Nat /\ keys[i] \in Nat  BY <1>0
<1>3. \A i \in more : i \in Nat /\ keys[i] \in Nat  BY <1>0
<1>4. /\ DOMAIN old = 1..n
      /\ \A r \in 1..n : old[r] \in places /\ Rank(keys, places, old[r]) = r
  BY <1>0, <1>2, RankedPlaces
<1>5. /\ DOMAIN new = 1..Cardinality(more)
      /\ \A r \in 1..Cardinality(more) : new[r] \in more /\ Rank(keys, more, new[r]) = r
      /\ \A i \in more : \E r \in 1..Cardinality(more) : new[r] = i
  <2>1. IsFiniteSet(more)  BY <1>1
  <2> HIDE DEF more
  <2> QED  BY <2>1, <1>3, RankedPlaces
<1>6. ASSUME NEW i \in places  PROVE Rank(keys, more, i) = Rank(keys, places, i)
  <2>1. i \in Nat /\ keys[i] = i /\ i < k  BY <1>0
  <2>2. ~Before(keys, k, i)  BY <1>0, <2>1 DEF Before
  <2>3. {j \in more : Before(keys, j, i)} = {j \in places : Before(keys, j, i)}  BY <2>2
  <2> QED  BY <2>3 DEF Rank
<1>7. Rank(keys, more, k) = n + 1
  <2>1. \A j \in places : Before(keys, j, k)  BY <1>0 DEF Before
  <2>2. ~Before(keys, k, k)  BY <1>0 DEF Before
  <2>3. {j \in more : Before(keys, j, k)} = places  BY <2>1, <2>2
  <2> QED  BY <1>1, <2>3 DEF Rank
<1>8. \A i \in more : new[Rank(keys, more, i)] = i
  <2> SUFFICES ASSUME NEW i \in more  PROVE new[Rank(keys, more, i)] = i
    OBVIOUS
  <2>1. PICK r \in 1..Cardinality(more) : new[r] = i  BY <1>5
  <2>2. Rank(keys, more, i) = r  BY <1>5, <2>1
  <2> QED  BY <2>1, <2>2
<1>9. ASSUME NEW r \in 1..n  PROVE new[r] = old[r]
  <2>1. old[r] \in places /\ Rank(keys, places, old[r]) = r  BY <1>4
  <2>2. Rank(keys, more, old[r]) = r /\ old[r] \in more  BY <1>6, <2>1
  <2> QED  BY <1>8, <2>2
<1>10. new[n + 1] = k
  <2>1. k \in more  OBVIOUS
  <2> QED  BY <1>7, <1>8, <2>1
<1> HIDE DEF new, more
<1>11. /\ \A r \in 1..n : old[r] \in Nat
       /\ \A r \in 1..(n + 1) : new[r] \in Nat /\ new[r] = IF r = n + 1 THEN k ELSE old[r]
  <2>1. \A r \in 1..n : old[r] \in Nat  BY <1>2, <1>4
  <2> HIDE DEF old, n
  <2> QED  BY <1>0, <1>1, <1>9, <1>10, <2>1
<1>12. old \in Seq(Nat) /\ Len(old) = n
  <2>1. old = [r \in DOMAIN old |-> old[r]]  BY DEF Ranked
  <2> HIDE DEF old, n
  <2> QED  BY <1>1, <1>4, <1>11, <2>1
<1>13. new \in Seq(Nat) /\ Len(new) = n + 1
  <2>1. new = [r \in DOMAIN new |-> new[r]]  BY DEF Ranked, new
  <2> HIDE DEF old, n
  <2> QED  BY <1>1, <1>5, <1>11, <2>1
<1> DEFINE longer == Append(old, k)
<1>14. longer \in Seq(Nat) /\ Len(longer) = n + 1
       /\ \A r \in 1..(n + 1) : longer[r] = IF r = n + 1 THEN k ELSE old[r]
  <2>1. k \in Nat  BY <1>0
  <2> HIDE DEF old, n
  <2>2. /\ longer \in Seq(Nat) /\ Len(longer) = Len(old) + 1
        /\ \A r \in 1..Len(old) : longer[r] = old[r]
        /\ longer[Len(old) + 1] = k
    BY <1>12, <2>1, AppendProperties
  <2> HIDE DEF longer
  <2> QED  BY <1>1, <1>12, <2>2
<1> HIDE DEF old, n, longer
<1>15. new = longer
  <2>1. \A r \in 1..Len(new) : new[r] = longer[r]  BY <1>1, <1>11, <1>13, <1>14
  <2> QED  BY <1>13, <1>14, <2>1, SeqEqual
<1> QED  BY <1>15 DEF new, more, old, longer

\* The loop over the rows of a clip picks those at or after the IN point.
LEMMA RowsPicked ==
  ASSUME NEW c \in Clip, NEW len \in Nat  PROVE Listed(Noted(c), len) = ClipPoints(c, len)
<1> DEFINE n == Len(c.changes)
           keys == [e \in DOMAIN c.changes |-> e]
           picked(k) == {e \in 1..k : c.changes[e].pts >= c.inPts}
           order(k) == Ranked(keys, picked(k))
           point(e) == [time |-> c.ptsStart + (c.changes[e].pts - c.inPts),
                        byte |-> c.start + c.changes[e].spn * len]
           Points == {point(e) : e \in 1..n}
           got == [k \in 0..n |-> [r \in DOMAIN order(k) |-> point(order(k)[r])]]
<1>1. c.changes \in Seq(Entry) /\ c.inPts \in Nat  BY DEF Clip
<1>2. n \in Nat /\ DOMAIN c.changes = 1..n /\ \A e \in 1..n : c.changes[e].pts \in Nat
  <2>1. n \in Nat /\ DOMAIN c.changes = 1..n  BY <1>1
  <2>2. ASSUME NEW e \in 1..n  PROVE c.changes[e].pts \in Nat
    <3>1. c.changes[e] \in Entry  BY <1>1, <2>1, ElementOfSeq
    <3> QED  BY <3>1 DEF Entry
  <2> QED  BY <2>1, <2>2
<1> HIDE DEF n
<1>3. ASSUME NEW k \in 0..n
      PROVE  /\ IsFiniteSet(picked(k))
             /\ \A e \in picked(k) : e \in 1..k /\ e \in 1..n /\ keys[e] = e
  <2>1. IsFiniteSet(1..k)
    <3>1. k \in Int /\ 1 \in Int  BY <1>2, <1>3
    <3> QED  BY <3>1, FS_Interval
  <2>2. picked(k) \in SUBSET (1..k)  OBVIOUS
  <2>3. IsFiniteSet(picked(k))  BY <2>1, <2>2, FS_Subset
  <2>4. \A e \in picked(k) : e \in 1..k /\ e \in 1..n  BY <1>2, <1>3
  <2> QED  BY <1>2, <2>3, <2>4
<1> HIDE DEF keys
<1>4. ASSUME NEW k \in 0..n
      PROVE  order(k) \in Seq(1..n)
  <2>1. /\ Cardinality(picked(k)) \in Nat
        /\ DOMAIN order(k) = 1..Cardinality(picked(k))
        /\ \A r \in 1..Cardinality(picked(k)) : order(k)[r] \in picked(k)
    <3>1. \A e \in picked(k) : e \in Nat /\ keys[e] \in Nat
      <4>1. \A e \in picked(k) : e \in 1..n /\ keys[e] = e  BY <1>3, <1>4
      <4> HIDE DEF picked
      <4> QED  BY <1>2, <4>1
    <3>2. IsFiniteSet(picked(k))  BY <1>3, <1>4
    <3> HIDE DEF picked
    <3> QED  BY <3>1, <3>2, RankedPlaces
  <2> DEFINE places == picked(k)
             m == Cardinality(places)
             listed == order(k)
  <2>2. \A e \in places : e \in 1..n  BY <1>3, <1>4
  <2> HIDE DEF picked
  <2>3. listed = [r \in DOMAIN listed |-> listed[r]]  BY DEF Ranked
  <2>4. m \in Nat /\ DOMAIN listed = 1..m /\ \A r \in 1..m : listed[r] \in places  BY <2>1
  <2> HIDE DEF places, m, listed
  <2>5. listed \in [1..m -> 1..n]  BY <2>2, <2>3, <2>4
  <2>6. listed \in Seq(1..n)
    <3> DEFINE S == 1..n
    <3>1. m \in Nat /\ listed \in [1..m -> S]  BY <2>4, <2>5
    <3> HIDE DEF S
    <3>2. listed \in Seq(S)  BY <3>1
    <3> QED  BY <3>2 DEF S
  <2> QED  BY <2>6 DEF listed
<1>5. order(0) = <<>>
  <2>1. picked(0) = {}  OBVIOUS
  <2>2. Cardinality(picked(0)) = 0  BY <2>1, FS_EmptySet
  <2> HIDE DEF picked
  <2> QED  BY <2>2 DEF Ranked
<1>6. ASSUME NEW k \in 1..n, c.changes[k].pts < c.inPts  PROVE order(k) = order(k - 1)
  <2>1. ~(c.changes[k].pts >= c.inPts)  BY <1>1, <1>2, <1>6
  <2>2. picked(k) = picked(k - 1)  BY <1>2, <2>1
  <2> HIDE DEF picked
  <2> QED  BY <2>2
<1>7. ASSUME NEW k \in 1..n, ~(c.changes[k].pts < c.inPts)
      PROVE  order(k) = Append(order(k - 1), k)
  <2>1. c.changes[k].pts >= c.inPts  BY <1>1, <1>2, <1>7
  <2>2. picked(k) = picked(k - 1) \union {k}  BY <1>2, <2>1
  <2>3. k - 1 \in 0..n /\ k \in 0..n /\ k \in Nat  BY <1>2
  <2>4. IsFiniteSet(picked(k - 1)) /\ \A e \in picked(k - 1) : e \in 1..(k - 1) /\ keys[e] = e
    BY <1>3, <2>3
  <2>5. keys[k] = k  BY <1>2 DEF keys
  <2>6. \A e \in picked(k - 1) : e \in Nat /\ keys[e] = e /\ e < k  BY <2>3, <2>4
  <2> DEFINE places == picked(k - 1)
  <2> HIDE DEF picked
  <2>7. IsFiniteSet(places) /\ (\A i \in places : i \in Nat /\ keys[i] = i /\ i < k)
    BY <2>4, <2>6
  <2>8. order(k) = Ranked(keys, places \union {k}) /\ order(k - 1) = Ranked(keys, places)
    BY <2>2
  <2> HIDE DEF places, order
  <2>9. PastPlaces(keys, places, k)  BY <2>3, <2>5, <2>7 DEF PastPlaces
  <2>10. Ranked(keys, places \union {k}) = Append(Ranked(keys, places), k)  BY <2>9, RankedGrows
  <2> QED  BY <2>8, <2>10
<1> HIDE DEF order, point
<1>8. ASSUME NEW s \in Seq(1..n)
      PROVE  /\ [r \in DOMAIN s |-> point(s[r])] \in Seq(Points)
             /\ Len([r \in DOMAIN s |-> point(s[r])]) = Len(s)
  <2>1. Len(s) \in Nat /\ DOMAIN s = 1..Len(s) /\ \A r \in 1..Len(s) : s[r] \in 1..n
    BY ElementOfSeq, LenProperties
  <2>2. \A r \in 1..Len(s) : point(s[r]) \in Points  BY <2>1
  <2> HIDE DEF Points
  <2>3. [r \in DOMAIN s |-> point(s[r])] \in [1..Len(s) -> Points]  BY <2>1, <2>2
  <2> QED  BY <2>1, <2>3
<1>9. ASSUME NEW s \in Seq(1..n), NEW k \in 1..n, NEW t, t = Append(s, k)
      PROVE  [r \in DOMAIN t |-> point(t[r])] = Append([r \in DOMAIN s |-> point(s[r])], point(k))
  <2> DEFINE f == [r \in DOMAIN s |-> point(s[r])]
             g == [r \in DOMAIN t |-> point(t[r])]
             h == Append(f, point(k))
  <2>1. /\ t \in Seq(1..n) /\ Len(t) = Len(s) + 1
        /\ \A r \in 1..Len(s) : t[r] = s[r]
        /\ t[Len(s) + 1] = k
    BY <1>9, AppendProperties
  <2>2. f \in Seq(Points) /\ Len(f) = Len(s) /\ g \in Seq(Points) /\ Len(g) = Len(t)
    BY <1>8, <2>1
  <2>3. Len(s) \in Nat /\ \A r \in 1..Len(s) : f[r] = point(s[r])  BY LenProperties
  <2>4. \A r \in 1..Len(t) : g[r] = point(t[r])  BY <2>1, LenProperties
  <2>5. point(k) \in Points  OBVIOUS
  <2> HIDE DEF f, g, Points
  <2>6. /\ h \in Seq(Points) /\ Len(h) = Len(f) + 1
        /\ \A r \in 1..Len(f) : h[r] = f[r]
        /\ h[Len(f) + 1] = point(k)
    BY <2>2, <2>5, AppendProperties
  <2> HIDE DEF h
  <2>7. ASSUME NEW r \in 1..Len(g)  PROVE g[r] = h[r]
    <3>1. CASE r = Len(s) + 1  BY <2>1, <2>2, <2>4, <2>6, <3>1
    <3>2. CASE r # Len(s) + 1
      <4>1. r \in 1..Len(s)  BY <2>1, <2>2, <2>3, <3>2
      <4> QED  BY <2>1, <2>2, <2>3, <2>4, <2>6, <4>1
    <3> QED  BY <3>1, <3>2
  <2>8. g = h  BY <2>1, <2>2, <2>6, <2>7, SeqEqual
  <2> QED  BY <2>8 DEF f, g, h
<1> HIDE DEF Points
<1> DEFINE row(e) == c.changes[e]
           next(f, k) == IF row(k).pts < c.inPts THEN f ELSE Append(f, point(k))
<1>10. got[0] = <<>>
  <2>1. 0 \in 0..n  BY <1>2
  <2> QED  BY <1>5, <2>1
<1>11. ASSUME NEW k \in 1..n  PROVE got[k] = next(got[k - 1], k)
  <2>1. k \in 0..n /\ k - 1 \in 0..n  BY <1>2
  <2>2. /\ got[k] = [r \in DOMAIN order(k) |-> point(order(k)[r])]
        /\ got[k - 1] = [r \in DOMAIN order(k - 1) |-> point(order(k - 1)[r])]
    BY <2>1
  <2>3. order(k - 1) \in Seq(1..n)  BY <1>4, <2>1
  <2> HIDE DEF got
  <2>4. CASE c.changes[k].pts < c.inPts
    <3>1. order(k) = order(k - 1)  BY <1>6, <2>4
    <3> QED  BY <2>2, <2>4, <3>1
  <2>5. CASE ~(c.changes[k].pts < c.inPts)
    <3>1. order(k) = Append(order(k - 1), k)  BY <1>7, <2>5
    <3>2. got[k] = Append(got[k - 1], point(k))  BY <1>9, <2>2, <2>3, <3>1
    <3> QED  BY <2>5, <3>2
  <2> QED  BY <2>4, <2>5
<1> DEFINE Steps(f) == f = [k \in 0..n |-> IF k = 0 THEN <<>> ELSE next(f[k - 1], k)]
           w == CHOOSE f : Steps(f)
<1>12. Listed(Noted(c), len) = w[n]
  BY DEF Listed, Noted, n, point
<1> HIDE DEF next
<1>13. Steps(got)
  <2>1. got = [k \in 0..n |-> got[k]]
    <3> DEFINE e(k) == [r \in DOMAIN order(k) |-> point(order(k)[r])]
    <3>1. got = [k \in 0..n |-> e(k)]  OBVIOUS
    <3> HIDE DEF e, got
    <3> QED  BY <3>1
  <2> HIDE DEF got
  <2>2. \A k \in 0..n : got[k] = IF k = 0 THEN <<>> ELSE next(got[k - 1], k)
    BY <1>2, <1>10, <1>11
  <2> QED  BY <2>1, <2>2
<1>14. Steps(w)
  <2> HIDE DEF Steps, got
  <2> QED  BY <1>13
<1> HIDE DEF w
<1>15. w[0] = <<>> /\ \A k \in 1..n : w[k] = next(w[k - 1], k)
  <2>1. DOMAIN w = 0..n /\ \A k \in 0..n : w[k] = IF k = 0 THEN <<>> ELSE next(w[k - 1], k)
    BY <1>14
  <2> QED  BY <1>2, <2>1
<1>16. got[n] = ClipPoints(c, len)
  <2>1. n \in 0..n  BY <1>2
  <2>2. got[n] = [r \in DOMAIN order(n) |-> point(order(n)[r])]  BY <2>1
  <2>3. order(n) = Ranked(keys, {e \in DOMAIN c.changes : c.changes[e].pts >= c.inPts})
    BY <1>2 DEF order
  <2> QED  BY <2>2, <2>3 DEF ClipPoints, keys, point
<1> HIDE DEF got
<1>17. w[n] = got[n]
  <2>1. \A k \in 1..n : w[k - 1] = got[k - 1] => w[k] = got[k]  BY <1>11, <1>15
  <2>2. w[0] = got[0]  BY <1>10, <1>15
  <2> QED  BY <1>2, <2>1, <2>2, SameLoop
<1> QED  BY <1>12, <1>16, <1>17

\* The Disc lists the angle-change points of the index.
LEMMA PointsListed ==
  ASSUME NEW l \in PlayList, NEW a \in Nat, NEW len \in Nat, NEW x, x = BuildIndex(l, a, len),
         Opens(l, a)
  PROVE  ListedPoints(l, a, len) = AnglePoints(x, len)
<1> DEFINE n == Len(l)
           c == Walk(l, a, len).clips
           listed == [i \in DOMAIN c |-> Listed(c[i], len)]
           points == [i \in DOMAIN x.clips |-> ClipPoints(x.clips[i], len)]
<1>1. DOMAIN x.clips = 1..n /\ x.clips \in Seq(Clip)  BY IndexRows
<1>2. c = [i \in 1..n |-> Noted(x.clips[i])] /\ Walk(l, a, len).bytes = x.total  BY WalkNotes
<1>3. ListedPoints(l, a, len) = FlattenSeq(listed)  BY DEF ListedPoints
<1>4. AnglePoints(x, len) = FlattenSeq(points)  BY DEF AnglePoints
<1> HIDE DEF c
<1>5. DOMAIN c = 1..n /\ \A i \in 1..n : c[i] = Noted(x.clips[i])  BY <1>2
<1>6. ASSUME NEW i \in 1..n  PROVE Listed(c[i], len) = ClipPoints(x.clips[i], len)
  <2>1. x.clips[i] \in Clip  BY <1>1, <1>6, ElementOfSeq, LenProperties
  <2> QED  BY <1>5, <2>1, RowsPicked
<1>7. listed = points  BY <1>1, <1>5, <1>6
<1> QED  BY <1>3, <1>4, <1>7

-----------------------------------------------------------------------------
(* What the points say.                                                    *)

\* Sequences of elements of a set, one after the other, are one such sequence.
Joined(g, s, S, n) ==
  /\ g \in [1..n -> Seq(S)]
  /\ g[1] = s[1] /\ \A k \in 2..n : g[k] = g[k - 1] \o s[k]

LEMMA JoinsExist ==
  ASSUME NEW S, NEW s \in Seq(Seq(S)), s # <<>>  PROVE \E g : Joined(g, s, S, Len(s))
<1> DEFINE n == Len(s)
<1>1. n \in Nat \ {0} /\ DOMAIN s = 1..n /\ \A k \in 1..n : s[k] \in Seq(S)
  BY ElementOfSeq, LenProperties, EmptySeq
<1> HIDE DEF n
<1> SUFFICES ASSUME ~ \E g : Joined(g, s, S, n)  PROVE FALSE
  BY DEF n
<1> DEFINE T == {m \in 1..n : ~ \E g : Joined(g, s, S, m)}
<1>2. T \in SUBSET Nat /\ n \in T  BY <1>1
<1>3. PICK m \in T : \A k \in T : m <= k  BY <1>2, Least
<1>4. m \in 1..n /\ ~ \E g : Joined(g, s, S, m)  BY <1>3
<1>5. m # 1
  <2>1. s[1] \in Seq(S)  BY <1>1
  <2>2. Joined([k \in 1..1 |-> s[1]], s, S, 1)  BY <2>1 DEF Joined
  <2> QED  BY <1>4, <2>2
<1>6. m - 1 \in 1..n /\ m - 1 \notin T
  <2>1. m \in Nat /\ m - 1 \in 1..n /\ ~(m <= m - 1)  BY <1>1, <1>4, <1>5
  <2> HIDE DEF T
  <2> QED  BY <1>3, <2>1
<1>7. PICK g : Joined(g, s, S, m - 1)  BY <1>6
<1> DEFINE h == [k \in 1..m |-> IF k = m THEN g[m - 1] \o s[m] ELSE g[k]]
<1>8. \A k \in 1..(m - 1) : g[k] \in Seq(S)  BY <1>7 DEF Joined
<1>9. g[m - 1] \o s[m] \in Seq(S)
  <2>1. m - 1 \in 1..(m - 1) /\ m \in 1..n  BY <1>4, <1>6
  <2>2. g[m - 1] \in Seq(S) /\ s[m] \in Seq(S)  BY <1>1, <1>8, <2>1
  <2> QED  BY <2>2, ConcatProperties
<1>10. h \in [1..m -> Seq(S)]  BY <1>4, <1>8, <1>9
<1>11. h[1] = s[1]
  <2>1. 1 \in 1..m /\ 1 # m  BY <1>4, <1>5
  <2>2. h[1] = g[1]  BY <2>1
  <2> QED  BY <1>7, <2>2 DEF Joined
<1>12. ASSUME NEW k \in 2..m  PROVE h[k] = h[k - 1] \o s[k]
  <2>1. k \in 1..m /\ k - 1 \in 1..m /\ k - 1 # m  BY <1>4, <1>12
  <2>2. h[k - 1] = g[k - 1]  BY <2>1
  <2>3. CASE k = m  BY <2>1, <2>2, <2>3
  <2>4. CASE k # m
    <3>1. k \in 2..(m - 1)  BY <1>4, <1>12, <2>4
    <3>2. g[k] = g[k - 1] \o s[k]  BY <1>7, <3>1 DEF Joined
    <3>3. h[k] = g[k]  BY <2>1, <2>4
    <3> QED  BY <2>2, <3>2, <3>3
  <2> QED  BY <2>3, <2>4
<1>13. Joined(h, s, S, m)
  <2> HIDE DEF h
  <2> QED  BY <1>10, <1>11, <1>12 DEF Joined
<1> QED  BY <1>4, <1>13

LEMMA Flattened ==
  ASSUME NEW S, NEW s \in Seq(Seq(S)), s # <<>>  PROVE FlattenSeq(s) \in Seq(S)
<1> DEFINE n == Len(s)
           Steps(f) == f = [k \in 1..n |-> IF k = 1 THEN s[k] ELSE f[k - 1] \o s[k]]
           w == CHOOSE f : Steps(f)
<1>1. n \in Nat \ {0} /\ DOMAIN s = 1..n /\ \A k \in 1..n : s[k] \in Seq(S)
  BY ElementOfSeq, LenProperties, EmptySeq
<1>2. PICK g : Joined(g, s, S, n)  BY JoinsExist
<1>3. FlattenSeq(s) = w[n]
  <2>1. Len(s) # 0  BY <1>1
  <2> QED  BY <2>1 DEF FlattenSeq
<1> HIDE DEF n
<1>4. Steps(g)
  <2>1. g = [k \in 1..n |-> g[k]]  BY <1>2 DEF Joined
  <2>2. ASSUME NEW k \in 1..n  PROVE g[k] = IF k = 1 THEN s[k] ELSE g[k - 1] \o s[k]
    <3>1. k # 1 => k \in 2..n  BY <1>1
    <3> QED  BY <1>2, <3>1 DEF Joined
  <2> QED  BY <2>1, <2>2
<1>5. Steps(w)
  <2> HIDE DEF Steps
  <2> QED  BY <1>4
<1> HIDE DEF w
<1>6. \A k \in 1..n : w[k] = IF k = 1 THEN s[k] ELSE w[k - 1] \o s[k]
  <2> DEFINE v == w
             e(k) == IF k = 1 THEN s[k] ELSE v[k - 1] \o s[k]
  <2>1. w = [k \in 1..n |-> e(k)]  BY <1>5
  <2>2. \A k \in 1..n : w[k] = e(k)
    <3> HIDE DEF e
    <3> QED  BY <2>1
  <2> QED  BY <2>2
<1> SUFFICES ASSUME w[n] \notin Seq(S)  PROVE FALSE
  BY <1>3
<1> DEFINE T == {k \in 1..n : w[k] \notin Seq(S)}
<1>7. T \in SUBSET Nat /\ n \in T  BY <1>1
<1>8. PICK m \in T : \A k \in T : m <= k  BY <1>7, Least
<1>9. m # 1
  <2>1. 1 \in 1..n  BY <1>1
  <2> QED  BY <1>1, <1>6, <1>8, <2>1
<1>10. m \in 1..n /\ m - 1 \in 1..n /\ m - 1 \notin T  BY <1>1, <1>8, <1>9
<1>11. w[m - 1] \in Seq(S) /\ s[m] \in Seq(S) /\ w[m] = w[m - 1] \o s[m]
  BY <1>1, <1>6, <1>9, <1>10
<1>12. w[m] \in Seq(S)  BY <1>11, ConcatProperties
<1> QED  BY <1>8, <1>12

\* A point at a byte of a segment is no earlier than the segment.
InTime(x, n, p) ==
  \A i \in 1..n : p.byte \in Segments(x)[i].byteStart..(Segments(x)[i].byteEnd - 1) =>
                    p.time >= Segments(x)[i].ptsStart
Point == [time : Nat, byte : Nat]

\* The row of a point lies before the end of its clip, so that the byte of the point
\* is in no later segment.
LEMMA PointInTime ==
  ASSUME NEW l \in PlayList, NEW a \in Nat, NEW len \in Nat \ {0},
         NEW x, x = BuildIndex(l, a, len), RowsInside(l, a),
         NEW c \in 1..Len(l), NEW e \in DOMAIN x.clips[c].changes, NEW p \in Point,
         p.byte = x.clips[c].start + x.clips[c].changes[e].spn * len,
         p.time >= x.clips[c].ptsStart
  PROVE  InTime(x, Len(l), p)
<1> DEFINE n == Len(l)
           rows == AngleFile(l[c], a).rows
           spn == x.clips[c].changes[e].spn
           pkts == x.clips[c].pkts
           start == x.clips[c].start
           end == IF c = n THEN x.total ELSE x.clips[c + 1].start
<1>1. len \in Nat  OBVIOUS
<1>2. n \in Nat \ {0} /\ DOMAIN l = 1..n  BY <1>1, IndexRows
<1>3. /\ x.clips[c].changes = ByPts(rows, ChangePlaces(rows))
      /\ pkts = PacketCount(l[c], a) /\ start + pkts * len = end
  BY <1>1, IndexRows
<1>4. \A i, j \in 1..n : i <= j => /\ x.clips[i].start <= x.clips[j].start
                                   /\ x.clips[i].ptsStart <= x.clips[j].ptsStart
  BY <1>1, IndexRises
<1>5. \A i \in 1..n : x.clips[i].start \in Nat /\ x.clips[i].ptsStart \in Nat
  BY <1>1, IndexRises
<1>6. spn \in Nat /\ spn < pkts /\ pkts \in Nat
  <2>1. rows \in Seq(EpRow)
    <3>1. AngleFile(l[c], a) \in StreamFile  BY <1>2, ItemFile
    <3> QED  BY <3>1 DEF StreamFile
  <2>2. ChangePlaces(rows) \in SUBSET DOMAIN rows  BY DEF ChangePlaces
  <2>3. \A r \in DOMAIN x.clips[c].changes : \E i \in ChangePlaces(rows) :
          x.clips[c].changes[r].spn = rows[i].spn
    <3> HIDE DEF rows
    <3> QED  BY <1>3, <2>1, <2>2, Sorted
  <2>4. PICK i \in DOMAIN rows : spn = rows[i].spn  BY <2>2, <2>3
  <2>5. rows[i].spn < PacketCount(l[c], a)  BY <1>2 DEF RowsInside
  <2>6. rows[i].spn \in Nat
    <3> HIDE DEF rows
    <3> QED  BY <2>1, RowFields
  <2>7. PacketCount(l[c], a) \in Nat  BY <1>2, ItemFile
  <2> HIDE DEF rows, spn, pkts
  <2> QED  BY <1>3, <2>4, <2>5, <2>6, <2>7
<1>7. p.byte = start + spn * len  OBVIOUS
<1>8. ASSUME NEW i \in 1..n
      PROVE  /\ Segments(x)[i].byteStart = x.clips[i].start
             /\ Segments(x)[i].ptsStart = x.clips[i].ptsStart
  <2>1. i \in DOMAIN x.clips  BY <1>1, <1>8, IndexRows
  <2> QED  BY <2>1 DEF Segments
<1>9. p.byte \in Nat /\ p.time \in Nat /\ p.time >= x.clips[c].ptsStart  BY DEF Point
<1>10. spn * len < pkts * len /\ spn * len \in Nat /\ pkts * len \in Nat
  <2> HIDE DEF spn, pkts
  <2>1. spn + 1 \in Nat /\ pkts - (spn + 1) \in Nat /\ (spn + 1) + (pkts - (spn + 1)) = pkts
    BY <1>6
  <2> DEFINE d == pkts - (spn + 1)
  <2>2. d \in Nat /\ (spn + 1) + d = pkts  BY <2>1
  <2> HIDE DEF d
  <2>3. (spn + 1) * len <= pkts * len  BY <1>1, <2>1, <2>2, BytesAdd
  <2>4. (spn + 1) * len = spn * len + 1 * len /\ 1 * len = len  BY <1>1, <1>6, BytesAdd
  <2>5. spn * len \in Nat /\ pkts * len \in Nat  BY <1>1, <1>6, BytesAdd
  <2> QED  BY <2>3, <2>4, <2>5
<1>11. start \in Nat /\ start <= p.byte /\ p.byte < end
  <2>1. start \in Nat  BY <1>5
  <2> HIDE DEF start, spn, pkts, end
  <2> QED  BY <1>3, <1>7, <1>9, <1>10, <2>1
<1> SUFFICES ASSUME NEW i \in 1..n,
                    p.byte \in Segments(x)[i].byteStart..(Segments(x)[i].byteEnd - 1)
             PROVE  p.time >= Segments(x)[i].ptsStart
  BY DEF InTime
<1>12. x.clips[i].start <= p.byte
  <2>1. Segments(x)[i].byteStart = x.clips[i].start  BY <1>8
  <2>2. x.clips[i].start \in Nat  BY <1>5
  <2>3. Segments(x)[i].byteStart <= p.byte  OBVIOUS
  <2> QED  BY <2>1, <2>3
<1>13. i <= c
  <2> SUFFICES ASSUME ~(i <= c)  PROVE FALSE
    OBVIOUS
  <2>0. c \in 1..n /\ i \in 1..n /\ ~(i <= c) /\ n \in Nat  BY <1>2
  <2>1. c # n /\ c + 1 \in 1..n /\ c + 1 <= i
    <3> HIDE DEF n
    <3> QED  BY <2>0
  <2>2. end = x.clips[c + 1].start /\ end \in Nat  BY <1>5, <2>1
  <2>3. x.clips[c + 1].start <= x.clips[i].start  BY <1>4, <2>1
  <2>4. x.clips[i].start \in Nat  BY <1>5
  <2> HIDE DEF end
  <2> QED  BY <1>9, <1>11, <1>12, <2>2, <2>3, <2>4
<1>14. x.clips[i].ptsStart <= x.clips[c].ptsStart  BY <1>4, <1>13
<1>15. x.clips[i].ptsStart \in Nat /\ x.clips[c].ptsStart \in Nat  BY <1>5
<1>16. Segments(x)[i].ptsStart = x.clips[i].ptsStart  BY <1>8
<1> QED  BY <1>9, <1>14, <1>15, <1>16

\* Every point has a time and a byte, and is in time if the EP_maps say so.
LEMMA PointsInTime ==
  ASSUME NEW l \in PlayList, NEW a \in Nat, NEW len \in Nat \ {0},
         NEW x, x = BuildIndex(l, a, len)
  PROVE  AnglePoints(x, len) \in Seq({p \in Point : RowsInside(l, a) => InTime(x, Len(l), p)})
<1> DEFINE n == Len(l)
           S == {p \in Point : RowsInside(l, a) => InTime(x, n, p)}
           points == [i \in DOMAIN x.clips |-> ClipPoints(x.clips[i], len)]
<1>1. len \in Nat  OBVIOUS
<1>2. n \in Nat \ {0} /\ DOMAIN x.clips = 1..n /\ x.clips \in Seq(Clip)  BY <1>1, IndexRows
<1>3. ASSUME NEW i \in 1..n  PROVE ClipPoints(x.clips[i], len) \in Seq(S)
  <2> DEFINE c == x.clips[i]
             places == {e \in DOMAIN c.changes : c.changes[e].pts >= c.inPts}
             keys == [e \in DOMAIN c.changes |-> e]
             reachable == Ranked(keys, places)
             m == Cardinality(places)
             point(e) == [time |-> c.ptsStart + (c.changes[e].pts - c.inPts),
                          byte |-> c.start + c.changes[e].spn * len]
  <2>1. c \in Clip  BY <1>2, <1>3, ElementOfSeq, LenProperties
  <2>2. /\ c.changes \in Seq(Entry) /\ c.inPts \in Nat /\ c.ptsStart \in Nat /\ c.start \in Nat
    BY <2>1 DEF Clip
  <2>3. Len(c.changes) \in Nat /\ DOMAIN c.changes = 1..Len(c.changes)  BY <2>2, LenProperties
  <2>4. IsFiniteSet(places) /\ places \in SUBSET DOMAIN c.changes
    <3> DEFINE count == Len(c.changes)
    <3>1. count \in Int /\ 1 \in Int  BY <2>3
    <3> HIDE DEF count
    <3>2. IsFiniteSet(1..count)  BY <3>1, FS_Interval
    <3> QED  BY <2>3, <3>2, FS_Subset DEF count
  <2>5. \A e \in places : e \in Nat /\ keys[e] \in Nat  BY <2>3
  <2>6. ASSUME NEW e \in places  PROVE point(e) \in S
    <3> DEFINE q == point(e)
    <3>1. c.changes[e] \in Entry  BY <2>2, <2>3, <2>6, ElementOfSeq
    <3>2. c.changes[e].pts \in Nat /\ c.changes[e].spn \in Nat  BY <3>1 DEF Entry
    <3>3. c.changes[e].pts >= c.inPts  BY <2>6
    <3> DEFINE pts == c.changes[e].pts
               in == c.inPts
               from == c.ptsStart
               start == c.start
               far == c.changes[e].spn * len
    <3>4. from + (pts - in) \in Nat /\ from + (pts - in) >= from
      <4>1. pts \in Nat /\ in \in Nat /\ from \in Nat /\ pts >= in  BY <2>2, <3>2, <3>3
      <4> HIDE DEF pts, in, from
      <4> QED  BY <4>1
    <3>5. start + far \in Nat
      <4>1. far \in Nat  BY <1>1, <3>2, BytesAdd
      <4>2. start \in Nat  BY <2>2
      <4> HIDE DEF far, start
      <4> QED  BY <4>1, <4>2
    <3>6. q \in Point  BY <3>4, <3>5 DEF Point
    <3>7. /\ q.byte = x.clips[i].start + x.clips[i].changes[e].spn * len
          /\ q.time >= x.clips[i].ptsStart
      BY <3>4
    <3>8. e \in DOMAIN x.clips[i].changes  BY <2>6
    <3> HIDE DEF q, places
    <3>9. RowsInside(l, a) => InTime(x, n, q)
      BY <1>3, <3>6, <3>7, <3>8, PointInTime
    <3>10. q \in S  BY <3>6, <3>9
    <3> QED  BY <3>10 DEF q
  <2> HIDE DEF places, keys, S
  <2>7. /\ m \in Nat /\ DOMAIN reachable = 1..m
        /\ \A r \in 1..m : reachable[r] \in places
    BY <2>4, <2>5, RankedPlaces
  <2>8. ClipPoints(c, len) = [k \in DOMAIN reachable |-> point(reachable[k])]
    BY DEF ClipPoints, keys, places
  <2> HIDE DEF m, reachable, point, c
  <2>9. ClipPoints(c, len) \in [1..m -> S]  BY <2>6, <2>7, <2>8
  <2>10. m \in Nat  BY <2>7
  <2>11. ClipPoints(c, len) \in Seq(S)  BY <2>9, <2>10
  <2> QED  BY <2>11 DEF c
<1> HIDE DEF S
<1>4. points \in Seq(Seq(S)) /\ points # <<>>
  <2>1. points \in [1..n -> Seq(S)]  BY <1>2, <1>3
  <2>2. DOMAIN points = 1..n  BY <1>2
  <2> HIDE DEF points, n
  <2> QED  BY <1>2, <2>1, <2>2
<1>5. AnglePoints(x, len) = FlattenSeq(points)  BY DEF AnglePoints
<1> HIDE DEF points
<1>6. AnglePoints(x, len) \in Seq(S)  BY <1>4, <1>5, Flattened
<1> QED  BY <1>6 DEF S

\* Among points in order the search finds the first in time.
LEMMA FirstInTime ==
  ASSUME NEW points \in Seq(Point), NEW t \in Nat,
         \A k \in 2..Len(points) : points[k - 1].time <= points[k].time,
         NEW k \in NextPoints(points, t), NEW j \in DOMAIN points, j < k
  PROVE  points[j].time < t
<1> DEFINE n == Len(points)
           f == [m \in 1..n |-> points[m].time]
<1>1. n \in Nat /\ DOMAIN points = 1..n  BY LenProperties
<1>2. \A m \in 1..n : points[m].time \in Nat
  <2> SUFFICES ASSUME NEW m \in 1..n  PROVE points[m].time \in Nat
    OBVIOUS
  <2>1. points[m] \in Point  BY <1>1, ElementOfSeq
  <2> QED  BY <2>1 DEF Point
<1>3. k \in 1..(n + 1) /\ (k > 1 => points[k - 1].time < t)  BY DEF NextPoints
<1>4. \A m \in 2..n : points[m - 1].time <= points[m].time  OBVIOUS
<1> HIDE DEF n
<1>5. j \in 1..n /\ k - 1 \in 1..n /\ j <= k - 1 /\ k > 1  BY <1>1, <1>3
<1>6. \A m \in 1..n : f[m] \in Nat  BY <1>2
<1>7. \A m \in 1..(n - 1) : f[m] <= f[m + 1]
  <2> SUFFICES ASSUME NEW m \in 1..(n - 1)  PROVE f[m] <= f[m + 1]
    OBVIOUS
  <2>1. m + 1 \in 2..n /\ (m + 1) - 1 = m /\ m \in 1..n /\ m + 1 \in 1..n  BY <1>1
  <2>2. points[(m + 1) - 1].time <= points[m + 1].time  BY <1>4, <2>1
  <2> QED  BY <2>1, <2>2
<1>8. f[j] = points[j].time /\ f[k - 1] = points[k - 1].time  BY <1>5
<1> HIDE DEF f
<1>9. f[j] <= f[k - 1]  BY <1>1, <1>5, <1>6, <1>7, Rising
<1>10. points[k - 1].time < t  BY <1>3, <1>5
<1>11. points[j].time \in Nat /\ points[k - 1].time \in Nat  BY <1>2, <1>5
<1> QED  BY <1>8, <1>9, <1>10, <1>11

\* What a Disc lists of a title is what the title's source says once it is open, and
\* the points it lists are where the segments have them.
THEOREM DiscAgrees == PlayListSpec => []ListingsAgree
<1>1. items \in PlayList => ListingsAgree
  <2> SUFFICES ASSUME items \in PlayList  PROVE ListingsAgree
    OBVIOUS
  <2>1. PacketLen \in Nat \ {0} /\ PacketLen \in Nat /\ Asked \subseteq Nat /\ Moments \subseteq Nat
    BY TimelineAssumption
  <2> SUFFICES
        ASSUME NEW a \in Asked
        PROVE  LET x == BuildIndex(items, a, PacketLen)
                   segs == Segments(x)
                   points == AnglePoints(x, PacketLen)
                   ordered == \A k \in 2..Len(points) : points[k - 1].time <= points[k].time
               IN  /\ Opens(items, a) <=> a <= MaxAngle(items)
                   /\ ListedSegments(items, a, PacketLen) = IF Opens(items, a) THEN segs ELSE <<>>
                   /\ ListedPoints(items, a, PacketLen) = IF Opens(items, a) THEN points ELSE <<>>
                   /\ RowsInside(items, a) =>
                        \A k \in DOMAIN points : \A i \in DOMAIN segs :
                          points[k].byte \in segs[i].byteStart..(segs[i].byteEnd - 1) =>
                            points[k].time >= segs[i].ptsStart
                   /\ ordered => \A t \in Moments : \A k \in NextPoints(points, t) :
                                   \A j \in DOMAIN points : j < k => points[j].time < t
    BY DEF ListingsAgree
  <2> DEFINE x == BuildIndex(items, a, PacketLen)
             segs == Segments(x)
             points == AnglePoints(x, PacketLen)
             good == {p \in Point : RowsInside(items, a) => InTime(x, Len(items), p)}
  <2>2. x = BuildIndex(items, a, PacketLen) /\ a \in Nat  BY <2>1
  <2> HIDE DEF x
  <2>3. Opens(items, a) <=> a <= MaxAngle(items)  BY <2>2, OpensUpTo
  <2>4. ListedSegments(items, a, PacketLen) = IF Opens(items, a) THEN segs ELSE <<>>
    <3>1. CASE Opens(items, a)
      <4>1. ListedSegments(items, a, PacketLen) = segs  BY <2>1, <2>2, <3>1, SegmentsListed
      <4> QED  BY <3>1, <4>1
    <3>2. CASE ~Opens(items, a)  BY <3>2 DEF ListedSegments
    <3> QED  BY <3>1, <3>2
  <2>5. ListedPoints(items, a, PacketLen) = IF Opens(items, a) THEN points ELSE <<>>
    <3>1. CASE Opens(items, a)
      <4>1. ListedPoints(items, a, PacketLen) = points  BY <2>1, <2>2, <3>1, PointsListed
      <4> QED  BY <3>1, <4>1
    <3>2. CASE ~Opens(items, a)  BY <3>2 DEF ListedPoints
    <3> QED  BY <3>1, <3>2
  <2>6. points \in Seq(good)  BY <2>1, <2>2, PointsInTime
  <2>7. DOMAIN segs = 1..Len(items)  BY <2>1, <2>2, SegmentRows
  <2> HIDE DEF points, good
  <2>8. RowsInside(items, a) =>
          \A k \in DOMAIN points : \A i \in DOMAIN segs :
            points[k].byte \in segs[i].byteStart..(segs[i].byteEnd - 1) =>
              points[k].time >= segs[i].ptsStart
    <3> SUFFICES ASSUME RowsInside(items, a), NEW k \in DOMAIN points
        PROVE  \A i \in DOMAIN segs :
                 points[k].byte \in segs[i].byteStart..(segs[i].byteEnd - 1) =>
                   points[k].time >= segs[i].ptsStart
      OBVIOUS
    <3>1. points[k] \in good  BY <2>6, ElementOfSeq, LenProperties
    <3>2. InTime(x, Len(items), points[k])  BY <3>1 DEF good
    <3> QED  BY <2>7, <3>2 DEF InTime
  <2>9. points \in Seq(Point)
    <3>1. good \subseteq Point  BY DEF good
    <3>2. DOMAIN points = 1..Len(points) /\ Len(points) \in Nat
          /\ \A k \in 1..Len(points) : points[k] \in Point
      BY <2>6, <3>1, ElementOfSeq, LenProperties
    <3>3. points = [k \in 1..Len(points) |-> points[k]]  BY <2>6
    <3> QED  BY <3>2, <3>3
  <2>10. ASSUME \A k \in 2..Len(points) : points[k - 1].time <= points[k].time,
                NEW t \in Moments, NEW k \in NextPoints(points, t), NEW j \in DOMAIN points, j < k
         PROVE  points[j].time < t
    <3>1. t \in Nat  BY <2>1, <2>10
    <3> QED  BY <2>9, <2>10, <3>1, FirstInTime
  <2> QED  BY <2>3, <2>4, <2>5, <2>8, <2>10 DEF x, points
<1> QED  BY <1>1, Grows, PTL
=============================================================================

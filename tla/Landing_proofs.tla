---------------------------- MODULE Landing_proofs ----------------------------
(***************************************************************************)
(* Where seek_to and switch_angle land, for every title whose tables rise  *)
(* (EpMapsRise, PointsInside in TitleSource): a time has one landing, a    *)
(* later time no earlier one, no keyframe at or before the time is passed  *)
(* over, and an angle is cut at the point it was to be cut at.             *)
(***************************************************************************)
EXTENDS TitleSource_proofs, WellFoundedInduction

-----------------------------------------------------------------------------
(* Induction, as a least counterexample.                                   *)

\* A set of naturals has a least element.
LEMMA Least ==
  ASSUME NEW T \in SUBSET Nat, T # {}
  PROVE  \E x \in T : \A y \in T : x <= y
<1> DEFINE R == {p \in Nat \X Nat : p[1] < p[2]}
<1>1. IsWellFoundedOn(R, Nat)  BY NatLessThanWellFounded, Zenon DEF OpToRel
<1> HIDE DEF R
<1>2. PICK x \in T : \A y \in T : <<y, x>> \notin R  BY <1>1, WFMin
<1>3. ASSUME NEW y \in T  PROVE x <= y
  <2>1. ASSUME y < x  PROVE FALSE
    <3>1. <<y, x>> \in R  BY <2>1 DEF R
    <3> QED  BY <1>2, <3>1
  <2> QED  BY <2>1
<1> QED  BY <1>3

\* What rises from each place to the next rises from each to every later one.
LEMMA Rising ==
  ASSUME NEW f, NEW n \in Nat, \A k \in 1..n : f[k] \in Nat,
         \A k \in 1..(n - 1) : f[k] <= f[k + 1]
  PROVE  \A i, j \in 1..n : i <= j => f[i] <= f[j]
<1> SUFFICES ASSUME NEW i \in 1..n, NEW j \in 1..n, i <= j, ~(f[i] <= f[j])  PROVE FALSE
  OBVIOUS
<1> DEFINE T == {k \in i..n : ~(f[i] <= f[k])}
<1>1. T \in SUBSET Nat /\ j \in T  OBVIOUS
<1>2. PICK m \in T : \A k \in T : m <= k  BY <1>1, Least
<1>3. m \in i..n /\ ~(f[i] <= f[m])  BY <1>2
<1>4. m # i  BY <1>3
<1>5. m - 1 \in i..n /\ m - 1 \in 1..(n - 1)  BY <1>3, <1>4
<1>6. m - 1 \notin T  BY <1>2, <1>3
<1>7. f[i] <= f[m - 1]  BY <1>5, <1>6
<1>8. f[m - 1] <= f[(m - 1) + 1] /\ (m - 1) + 1 = m  BY <1>3, <1>5
<1> QED  BY <1>3, <1>5, <1>7, <1>8

-----------------------------------------------------------------------------
(* The tables of a clip.                                                   *)

LEMMA ClipTables ==
  ASSUME NEW clips, NEW total, LaidOut(clips, total), NEW c \in DOMAIN clips
  PROVE  /\ clips[c].ptsStart \in Nat /\ clips[c].inPts \in Nat
         /\ clips[c].start \in Nat /\ clips[c].pkts \in Nat
         /\ \A e \in DOMAIN clips[c].eps : /\ e \in Nat \ {0}
                                           /\ clips[c].eps[e].pts \in Nat
                                           /\ clips[c].eps[e].spn \in Nat
         /\ \A e \in DOMAIN clips[c].changes : /\ clips[c].changes[e].pts \in Nat
                                               /\ clips[c].changes[e].spn \in Nat
<1>1. clips[c] \in Clip  BY ElementOfSeq, LenProperties DEF LaidOut
<1>2. /\ clips[c].ptsStart \in Nat /\ clips[c].inPts \in Nat
      /\ clips[c].start \in Nat /\ clips[c].pkts \in Nat
      /\ clips[c].eps \in Seq(Entry) /\ clips[c].changes \in Seq(Entry)
  BY <1>1 DEF Clip
<1>3. ASSUME NEW s \in Seq(Entry), NEW e \in DOMAIN s
      PROVE  e \in Nat \ {0} /\ s[e].pts \in Nat /\ s[e].spn \in Nat
  <2>1. s[e] \in Entry /\ e \in Nat \ {0}  BY ElementOfSeq, LenProperties
  <2> QED  BY <2>1 DEF Entry
<1> QED  BY <1>2, <1>3

\* A clip ends before a later one starts.
LEMMA StartsRise ==
  ASSUME NEW clips, NEW total, LaidOut(clips, total),
         NEW i \in DOMAIN clips, NEW j \in DOMAIN clips, i < j
  PROVE  clips[i].start + clips[i].pkts * TsLen <= clips[j].start
<1> DEFINE n == Len(clips)
<1>0. n = Len(clips)  OBVIOUS
<1>1. n \in Nat /\ DOMAIN clips = 1..n  BY DEF LaidOut
<1> HIDE DEF n
<1> DEFINE f == [k \in 1..n |-> clips[k].start]
<1>2. ASSUME NEW k \in 1..n  PROVE f[k] \in Nat  BY <1>1 DEF LaidOut
<1>3. ASSUME NEW k \in 1..(n - 1)  PROVE f[k] <= f[k + 1]
  <2>1. k \in DOMAIN clips /\ k + 1 \in DOMAIN clips /\ k # n
    BY <1>1, <1>3
  <2>2. /\ clips[k].start + clips[k].pkts * TsLen = clips[k + 1].start
        /\ clips[k].start \in Nat /\ clips[k].pkts \in Nat
    BY <1>0, <2>1 DEF LaidOut
  <2>3. clips[k].pkts * TsLen \in Nat  BY <2>2, PacketBytes
  <2>4. clips[k].start <= clips[k + 1].start  BY <2>2, <2>3
  <2>5. f[k] = clips[k].start /\ f[k + 1] = clips[k + 1].start  BY <1>1, <2>1
  <2> QED  BY <2>4, <2>5
<1>4. i \in 1..(n - 1) /\ i + 1 \in 1..n /\ j \in 1..n /\ i + 1 <= j  BY <1>1
<1>5. clips[i].start + clips[i].pkts * TsLen = clips[i + 1].start  BY <1>0, <1>1, <1>4 DEF LaidOut
<1> HIDE DEF f
<1>6. f[i + 1] <= f[j]  BY <1>1, <1>2, <1>3, <1>4, Rising
<1> QED  BY <1>4, <1>5, <1>6 DEF f

-----------------------------------------------------------------------------
(* Landings.                                                               *)

\* Byte n is where a reader of these clips lands for the time pts.
LandsIn(clips, c, pts, n) ==
  /\ IsClipAtTime(clips, c, pts)
  /\ \E k \in {0} \union {clips[c].eps[e].spn : e \in DOMAIN clips[c].eps} :
       Target(clips[c], pts, k) /\ n = clips[c].start + Clamped(clips[c], k) * TsLen

Lands(clips, pts, n) == \E c \in DOMAIN clips : LandsIn(clips, c, pts, n)

RowsOf(clips) == \A c \in DOMAIN clips : RowsRise(clips[c].eps)

LEMMA Rows ==
  ASSUME EpMapsRise, title \in Titles, NEW a \in Nat, a + 1 \in DOMAIN title
  PROVE  RowsOf(Index(a).clips)
BY DEF EpMapsRise, RowsOf, Index

\* The row found for a later time is not an earlier row of the stream, and a row
\* beyond the one found is later than the time.
LEMMA EntryRises ==
  ASSUME NEW eps, RowsRise(eps),
         \A e \in DOMAIN eps : e \in Nat \ {0} /\ eps[e].pts \in Nat /\ eps[e].spn \in Nat,
         NEW s \in Nat, NEW j \in DOMAIN eps, IsEntryAt(eps, j, s)
  PROVE  /\ \A e \in DOMAIN eps : eps[e].spn > eps[j].spn => eps[e].pts > s
         /\ \A t \in Nat : \A k \in DOMAIN eps :
              t <= s /\ IsEntryAt(eps, k, t) => eps[k].spn <= eps[j].spn
<1>1. ASSUME NEW e \in DOMAIN eps, eps[e].spn > eps[j].spn  PROVE e > j /\ eps[e].pts > s
  <2>1. eps[e].pts > eps[j].pts  BY <1>1 DEF RowsRise
  <2>2. e > j
    <3>1. ~(e < j)  BY <2>1 DEF RowsRise
    <3>2. e # j  BY <2>1
    <3> QED  BY <3>1, <3>2
  <2>3. CASE eps[j].pts = s  BY <2>1, <2>2, <2>3
  <2>4. CASE eps[j].pts # s  BY <2>2, <2>4 DEF IsEntryAt
  <2> QED  BY <2>3, <2>4
<1>2. ASSUME NEW t \in Nat, NEW k \in DOMAIN eps, t <= s, IsEntryAt(eps, k, t),
             ~(eps[k].spn <= eps[j].spn)
      PROVE  FALSE
  <2>1. k > j /\ eps[k].pts > s  BY <1>1, <1>2
  <2>2. eps[k].pts # t /\ ~(eps[k].pts < t)  BY <1>2, <2>1
  <2>3. k = 1  BY <1>2, <2>2 DEF IsEntryAt
  <2> QED  BY <2>1, <2>3
<1> QED  BY <1>1, <1>2

\* The clip's own time rises with the title's.
LEMMA LocalRises ==
  ASSUME NEW x, x.ptsStart \in Nat, x.inPts \in Nat, NEW s \in Nat, NEW t \in Nat, s <= t
  PROVE  /\ ClipLocal(x, s) \in Nat /\ ClipLocal(x, t) \in Nat
         /\ ClipLocal(x, s) <= ClipLocal(x, t)
<1>1. PtsMax \in Nat  BY SizesAssumption
<1> QED  BY <1>1 DEF ClipLocal, Lesser

\* The packet a landing names: 0 in a clip without rows, else that of a row found.
LEMMA LandingRow ==
  ASSUME NEW clips, NEW total, LaidOut(clips, total), NEW c \in DOMAIN clips,
         NEW pts \in Nat, NEW n, LandsIn(clips, c, pts, n)
  PROVE  \E k \in Nat :
           /\ n = clips[c].start + Clamped(clips[c], k) * TsLen
           /\ Clamped(clips[c], k) \in 0..clips[c].pkts
           /\ \/ clips[c].eps = <<>> /\ k = 0
              \/ \E j \in DOMAIN clips[c].eps :
                   /\ IsEntryAt(clips[c].eps, j, ClipLocal(clips[c], pts))
                   /\ k = clips[c].eps[j].spn
<1>1. PICK k \in {0} \union {clips[c].eps[e].spn : e \in DOMAIN clips[c].eps} :
        Target(clips[c], pts, k) /\ n = clips[c].start + Clamped(clips[c], k) * TsLen
  BY DEF LandsIn
<1>2. Clamped(clips[c], k) \in 0..clips[c].pkts  BY TargetPacket
<1>3. k \in Nat  BY <1>1, ClipTables
<1> QED  BY <1>1, <1>2, <1>3 DEF Target

\* A landing is in its clip.
LEMMA LandingInClip ==
  ASSUME NEW clips, NEW total, LaidOut(clips, total), NEW c \in DOMAIN clips,
         NEW pts \in Nat, NEW n, LandsIn(clips, c, pts, n)
  PROVE  /\ n \in Nat /\ clips[c].start <= n
         /\ n <= clips[c].start + clips[c].pkts * TsLen /\ n <= total
<1>1. PICK p \in 0..clips[c].pkts : n = clips[c].start + p * TsLen  BY LandingRow
<1>2. /\ clips[c].start \in Nat /\ clips[c].pkts \in Nat
      /\ p \in Nat /\ p <= clips[c].pkts /\ total \in Nat
      /\ clips[c].start + clips[c].pkts * TsLen <= total
  BY <1>1 DEF LaidOut
<1>3. /\ p * TsLen \in Nat /\ clips[c].pkts * TsLen \in Nat
      /\ p * TsLen <= clips[c].pkts * TsLen
  BY ONLY <1>2, PacketBytes, Zenon
<1> QED  BY <1>1, <1>2, <1>3

\* A later time has no earlier landing.
LEMMA LandingsRise ==
  ASSUME NEW clips, NEW total, LaidOut(clips, total), RowsOf(clips),
         NEW s \in Nat, NEW t \in Nat, s <= t, NEW n, NEW m,
         Lands(clips, s, n), Lands(clips, t, m)
  PROVE  n \in Nat /\ m \in Nat /\ n <= m
<1>1. PICK c \in DOMAIN clips : LandsIn(clips, c, s, n)  BY DEF Lands
<1>2. PICK d \in DOMAIN clips : LandsIn(clips, d, t, m)  BY DEF Lands
<1>3. n \in Nat /\ m \in Nat
      /\ n <= clips[c].start + clips[c].pkts * TsLen /\ clips[d].start <= m
  BY <1>1, <1>2, LandingInClip
<1>4. c \in Nat \ {0} /\ d \in Nat \ {0}  BY DEF LaidOut
<1>5. c <= d
  <2>1. SUFFICES ASSUME d < c  PROVE FALSE
    BY <1>4
  <2>2. clips[c].ptsStart \in Nat /\ clips[c].ptsStart <= s
    BY <1>1, <1>4, <2>1, ClipTables DEF LandsIn, IsClipAtTime
  <2>3. clips[c].ptsStart > t  BY <1>2, <2>1 DEF LandsIn, IsClipAtTime
  <2> QED  BY <2>2, <2>3
<1>6. CASE c < d
  <2>1. clips[c].start + clips[c].pkts * TsLen <= clips[d].start  BY <1>6, StartsRise
  <2>2. /\ clips[c].start \in Nat /\ clips[d].start \in Nat /\ clips[c].pkts * TsLen \in Nat
    BY ClipTables, PacketBytes
  <2> QED  BY <1>3, <2>1, <2>2
<1>7. CASE c = d
  <2> DEFINE x == clips[c]
  <2>1. PICK k \in Nat :
          /\ n = x.start + Clamped(x, k) * TsLen /\ Clamped(x, k) \in 0..x.pkts
          /\ \/ x.eps = <<>> /\ k = 0
             \/ \E j \in DOMAIN x.eps : IsEntryAt(x.eps, j, ClipLocal(x, s)) /\ k = x.eps[j].spn
    BY <1>1, LandingRow
  <2>2. PICK l \in Nat :
          /\ m = x.start + Clamped(x, l) * TsLen /\ Clamped(x, l) \in 0..x.pkts
          /\ \/ x.eps = <<>> /\ l = 0
             \/ \E j \in DOMAIN x.eps : IsEntryAt(x.eps, j, ClipLocal(x, t)) /\ l = x.eps[j].spn
    BY <1>2, <1>7, LandingRow
  <2>3. x.pkts \in Nat /\ x.start \in Nat /\ x.ptsStart \in Nat /\ x.inPts \in Nat
        /\ \A e \in DOMAIN x.eps :
             e \in Nat \ {0} /\ x.eps[e].pts \in Nat /\ x.eps[e].spn \in Nat
    BY ClipTables
  <2>4. RowsRise(x.eps)  BY DEF RowsOf
  <2> HIDE DEF x
  <2>5. k <= l
    <3>1. CASE x.eps = <<>>
      <4>1. DOMAIN x.eps = {}  BY <3>1
      <4> QED  BY <2>1, <2>2, <4>1
    <3>2. CASE x.eps # <<>>
      <4>1. PICK i \in DOMAIN x.eps : IsEntryAt(x.eps, i, ClipLocal(x, s)) /\ k = x.eps[i].spn
        BY <2>1, <3>2
      <4>2. PICK j \in DOMAIN x.eps : IsEntryAt(x.eps, j, ClipLocal(x, t)) /\ l = x.eps[j].spn
        BY <2>2, <3>2
      <4>3. /\ ClipLocal(x, s) \in Nat /\ ClipLocal(x, t) \in Nat
            /\ ClipLocal(x, s) <= ClipLocal(x, t)
        BY <2>3, LocalRises
      <4> QED  BY <2>3, <2>4, <4>1, <4>2, <4>3, EntryRises
    <3> QED  BY <3>1, <3>2
  <2>6. Clamped(x, k) <= Clamped(x, l)  BY <2>3, <2>5 DEF Clamped, Lesser
  <2>7. Clamped(x, k) \in Nat /\ Clamped(x, l) \in Nat  BY <2>1, <2>2, <2>3
  <2>8. /\ Clamped(x, k) * TsLen \in Nat /\ Clamped(x, l) * TsLen \in Nat
        /\ Clamped(x, k) * TsLen <= Clamped(x, l) * TsLen
    BY ONLY <2>6, <2>7, PacketBytes, Zenon
  <2> QED  BY <1>3, <2>1, <2>2, <2>3, <2>8
<1> QED  BY <1>3, <1>4, <1>5, <1>6, <1>7

\* A time has one landing.
LEMMA OneLanding ==
  ASSUME NEW clips, NEW total, LaidOut(clips, total), RowsOf(clips),
         NEW pts \in Nat, NEW n, NEW m, Lands(clips, pts, n), Lands(clips, pts, m)
  PROVE  n = m
<1>1. n \in Nat /\ m \in Nat /\ n <= m  BY LandingsRise
<1>2. m <= n  BY LandingsRise
<1> QED  BY <1>1, <1>2

\* Every row beyond a landing is later than its time.
LEMMA LandsTight ==
  ASSUME NEW clips, NEW total, LaidOut(clips, total), RowsOf(clips),
         NEW pts \in Nat, NEW n, Lands(clips, pts, n),
         NEW c \in DOMAIN clips, NEW e \in DOMAIN clips[c].eps,
         clips[c].eps[e].pts >= clips[c].inPts, clips[c].eps[e].spn < clips[c].pkts,
         clips[c].start + clips[c].eps[e].spn * TsLen > n
  PROVE  clips[c].ptsStart + (clips[c].eps[e].pts - clips[c].inPts) > pts
<1> DEFINE x == clips[c]  row == x.eps[e]
<1>1. PICK d \in DOMAIN clips : LandsIn(clips, d, pts, n)  BY DEF Lands
<1>2. n \in Nat /\ clips[d].start <= n  BY <1>1, LandingInClip
<1>3. /\ x.pkts \in Nat /\ x.start \in Nat /\ x.ptsStart \in Nat /\ x.inPts \in Nat
      /\ \A f \in DOMAIN x.eps :
           f \in Nat \ {0} /\ x.eps[f].pts \in Nat /\ x.eps[f].spn \in Nat
  BY ClipTables
<1>4. c \in Nat \ {0} /\ d \in Nat \ {0}  BY DEF LaidOut
<1>5. RowsRise(x.eps)  BY DEF RowsOf
<1>6. row.pts \in Nat /\ row.spn \in Nat /\ row.pts <= PtsMax /\ PtsMax \in Nat
  BY <1>3, <1>5, SizesAssumption DEF RowsRise
<1>7. row.pts >= x.inPts /\ row.spn < x.pkts /\ x.start + row.spn * TsLen > n  OBVIOUS
<1>8. CASE c > d
  <2>1. x.ptsStart > pts  BY <1>1, <1>8 DEF LandsIn, IsClipAtTime
  <2> HIDE DEF x, row
  <2> QED  BY <1>3, <1>6, <1>7, <2>1 DEF row, x
<1>9. CASE c < d
  <2>1. x.start + x.pkts * TsLen <= clips[d].start  BY <1>9, StartsRise
  <2>2. clips[d].start \in Nat  BY ClipTables
  <2> HIDE DEF x, row
  <2>3. row.spn <= x.pkts  BY <1>3, <1>6, <1>7
  <2>4. /\ row.spn * TsLen \in Nat /\ x.pkts * TsLen \in Nat
        /\ row.spn * TsLen <= x.pkts * TsLen
    BY ONLY <1>3, <1>6, <2>3, PacketBytes, Zenon
  <2> QED  BY <1>2, <1>3, <1>7, <2>1, <2>2, <2>4
<1>10. CASE c = d
  <2>1. PICK k \in Nat :
          /\ n = x.start + Clamped(x, k) * TsLen /\ Clamped(x, k) \in 0..x.pkts
          /\ \/ x.eps = <<>> /\ k = 0
             \/ \E j \in DOMAIN x.eps : IsEntryAt(x.eps, j, ClipLocal(x, pts)) /\ k = x.eps[j].spn
    BY <1>1, <1>10, LandingRow
  <2>2. e \in DOMAIN x.eps  OBVIOUS
  <2>3. row = x.eps[e]  OBVIOUS
  <2> HIDE DEF x, row
  <2>4. PICK j \in DOMAIN x.eps : IsEntryAt(x.eps, j, ClipLocal(x, pts)) /\ k = x.eps[j].spn
    <3>1. x.eps # <<>>  BY <2>2
    <3> QED  BY <2>1, <3>1
  <2>5. row.spn > k
    <3>1. SUFFICES ASSUME row.spn <= k  PROVE FALSE
      BY <1>6
    <3>2. row.spn <= Clamped(x, k)  BY <1>3, <1>6, <1>7, <3>1 DEF Clamped, Lesser
    <3>3. Clamped(x, k) \in Nat  BY <1>3, <2>1
    <3>4. /\ row.spn * TsLen \in Nat /\ Clamped(x, k) * TsLen \in Nat
          /\ row.spn * TsLen <= Clamped(x, k) * TsLen
      BY ONLY <1>6, <3>2, <3>3, PacketBytes, Zenon
    <3> QED  BY <1>2, <1>3, <1>7, <2>1, <3>4
  <2>6. ClipLocal(x, pts) \in Nat  BY <1>3, LocalRises
  <2>7. row.pts > ClipLocal(x, pts)
    BY <1>3, <1>5, <2>2, <2>3, <2>4, <2>5, <2>6, EntryRises
  <2> QED  BY <1>3, <1>6, <2>7 DEF ClipLocal, Lesser, x, row
<1> QED  BY <1>4, <1>8, <1>9, <1>10

-----------------------------------------------------------------------------
(* Keyframe seeks.                                                         *)

\* A landing the reader heads for, and one it reports, is the one of the time
\* asked for; the reader took no damage on the way.
Aimed ==
  /\ call.op = "land" => damage = "none" /\ Lands(Clips, call.want, call.goal)
  /\ last.op = "land" => damage = "none" /\ Lands(Clips, last.at, last.n)

LEMMA NotAimed == call'.op # "land" /\ last'.op # "land" => Aimed'
BY DEF Aimed

LEMMA AimedRunning == Typed /\ InStep /\ Aimed /\ Step => Aimed'
<1> SUFFICES ASSUME Typed, InStep, Aimed, Step  PROVE Aimed'
  OBVIOUS
<1>1. UNCHANGED <<title, angle>> /\ Running /\ last = NoResult
  BY DEF Step, EndOfStream, Deliver, StageUnit, NextClip, NextClipFails, ReadFails,
         DecryptFails, AtClipEnd, Refilling, Typed, Ahead
<1>2. Clips' = Clips  BY <1>1 DEF Clips, Index
<1>3. /\ opos \in Nat /\ call.goal \in Nat /\ opos < call.goal /\ Total \in Nat
      /\ call.op \in {"read", "seek", "land"}
      /\ call.op = "land" => call.goal <= Total
  BY <1>1, ClipFacts DEF Typed, TypeOK, Ahead, Running, LaidOut
<1>4. CASE EndOfStream
  <2>1. CASE call.op = "land"
    <3>1. damage = "none"  BY <2>1 DEF Aimed
    <3>2. ~UnderCap \/ file = NoFile  BY <1>4 DEF EndOfStream, Exhausted
    <3>3. opos >= Total  BY <1>3, <3>1, <3>2 DEF UnderCap, InStep
    <3> QED  BY <1>3, <2>1, <3>3
  <2>2. CASE call.op # "land"
    <3>1. call' = Idle /\ last'.op \in {"eof", call.op}
      BY <1>4 DEF EndOfStream, Return, Result
    <3> QED  BY <2>2, <3>1, NotAimed DEF Idle
  <2> QED  BY <2>1, <2>2
<1>5. CASE Deliver
  <2>1. damage' = damage  BY <1>5 DEF Deliver
  <2>2. CASE call.op = "land"
    <3>1. \/ UNCHANGED <<call, last>>
          \/ Return(Result("land", call.want, call.goal))
      BY <1>5, <2>2 DEF Deliver
    <3>2. CASE UNCHANGED <<call, last>>  BY <1>2, <2>1, <3>2 DEF Aimed
    <3>3. CASE Return(Result("land", call.want, call.goal))
      BY <1>2, <2>1, <2>2, <3>3 DEF Aimed, Return, Result, Idle
    <3> QED  BY <3>1, <3>2, <3>3
  <2>3. CASE call.op # "land"
    <3>1. \/ UNCHANGED <<call, last>>
          \/ call' = Idle /\ last'.op \in {"bytes", call.op}
      BY <1>5 DEF Deliver, Return, Result
    <3> QED  BY <1>1, <2>3, <3>1, NotAimed DEF Idle, NoResult, Result
  <2> QED  BY <2>2, <2>3
<1>6. CASE StageUnit \/ NextClip
  <2>1. UNCHANGED <<call, last, damage>>  BY <1>6 DEF StageUnit, NextClip
  <2> QED  BY <1>2, <2>1 DEF Aimed
<1>7. CASE NextClipFails \/ ReadFails \/ DecryptFails
  BY <1>7, NotAimed DEF NextClipFails, ReadFails, DecryptFails, Fail, Return, Idle, Result
<1> QED  BY <1>4, <1>5, <1>6, <1>7 DEF Step

\* A reader positioned for a time heads for its landing, or is there.
LEMMA PositionAims ==
  ASSUME LaidOut(Clips', Total'), NEW c \in DOMAIN Clips', NEW pts \in Nat,
         NEW k \in {0} \union {Clips'[c].eps[e].spn : e \in DOMAIN Clips'[c].eps},
         IsClipAtTime(Clips', c, pts), Target(Clips'[c], pts, k),
         PositionAt(Clips', c, Clamped(Clips'[c], k), pts)
  PROVE  Aimed' /\ Lands(Clips', pts, Landing)
<1> DEFINE p == Clamped(Clips'[c], k)
           from == Clips'[c].start + UnitStart(p) * TsLen
           goal == Clips'[c].start + p * TsLen
<1>1. p \in 0..Clips'[c].pkts  BY TargetPacket
<1>2. from \in Nat /\ goal \in Nat /\ from <= goal  BY <1>1, AnchorBytes
<1>3. Lands(Clips', pts, goal)  BY DEF Lands, LandsIn
<1>4. damage' = "none" /\ opos' = from /\ Discard("land", from, goal, pts)  BY DEF PositionAt
<1> HIDE DEF from, goal
<1>5. CASE from < goal
  <2>1. call' = [op |-> "land", goal |-> goal, want |-> pts] /\ last' = NoResult
    BY <1>4, <1>5 DEF Discard, Start
  <2>2. Landing = goal  BY <2>1 DEF Landing, Idle
  <2> QED  BY <1>3, <1>4, <2>1, <2>2 DEF Aimed, NoResult, Result
<1>6. CASE ~(from < goal)
  <2>1. call' = Idle /\ last' = [op |-> "land", at |-> pts, n |-> from]
    BY <1>4, <1>6 DEF Discard, Return, Result
  <2>2. from = goal  BY <1>2, <1>6
  <2>3. Landing = goal  BY <1>4, <2>1, <2>2 DEF Landing
  <2> QED  BY <1>3, <1>4, <2>1, <2>2, <2>3 DEF Aimed, Idle
<1> QED  BY <1>5, <1>6

LEMMA AimedCalls == Typed /\ (QuietCall \/ AnchoringCall) => Aimed'
<1> SUFFICES ASSUME Typed, QuietCall \/ AnchoringCall  PROVE Aimed'
  OBVIOUS
<1>1. title \in Titles /\ angle \in Nat /\ angle + 1 \in DOMAIN title /\ LaidOut(Clips, Total)
  BY ClipFacts DEF Typed, TypeOK
<1>2. ASSUME Fail  PROVE Aimed'
  BY <1>2, NotAimed DEF Fail, Return, Idle, Result
<1>3. ASSUME NEW from, NEW goal, NEW to, Discard("seek", from, goal, to)  PROVE Aimed'
  BY <1>3, NotAimed DEF Discard, Start, Return, Idle, NoResult, Result
<1>4. ASSUME NEW n, ReadCall(n)  PROVE Aimed'
  BY <1>4, NotAimed DEF ReadCall, Start, NoResult, Result
<1>5. ASSUME NEW to, SeekForward(to)  PROVE Aimed'
  <2>1. CASE to = opos
    BY <1>5, <2>1, NotAimed DEF SeekForward, Return, Idle, Result
  <2>2. CASE to # opos  BY <1>3, <1>5, <2>2 DEF SeekForward
  <2> QED  BY <2>1, <2>2
<1>6. ASSUME NEW to, SeekBackward(to) \/ SeekBackwardFails(to)  PROVE Aimed'
  BY <1>2, <1>3, <1>6 DEF SeekBackward, SeekBackwardFails
<1>7. ASSUME NEW pts \in Nat, SeekTo(pts)  PROVE Aimed'
  <2>1. Clips' = Clips /\ Total' = Total  BY <1>7 DEF SeekTo, Clips, Total, Index
  <2>2. PICK c \in DOMAIN Clips :
          /\ IsClipAtTime(Clips, c, pts)
          /\ \/ \E k \in {0} \union {Clips[c].eps[e].spn : e \in DOMAIN Clips[c].eps} :
                  Target(Clips[c], pts, k) /\ PositionAt(Clips, c, Clamped(Clips[c], k), pts)
             \/ PositionFails(Clips, c)
    BY <1>7 DEF SeekTo
  <2>3. CASE PositionFails(Clips, c)  BY <1>2, <2>3 DEF PositionFails
  <2>4. CASE \E k \in {0} \union {Clips[c].eps[e].spn : e \in DOMAIN Clips[c].eps} :
               Target(Clips[c], pts, k) /\ PositionAt(Clips, c, Clamped(Clips[c], k), pts)
    BY <1>1, <2>1, <2>2, <2>4, PositionAims
  <2> QED  BY <2>2, <2>3, <2>4
<1>8. ASSUME NEW a \in Nat, NEW pts \in Nat, SwitchAngleAt(a, pts)  PROVE Aimed'
  <2>1. angle' = a /\ title' = title /\ a + 1 \in DOMAIN title  BY <1>8 DEF SwitchAngleAt
  <2>2. Clips' = Index(a).clips /\ LaidOut(Clips', Total')
    BY <1>1, <2>1, NextClipFacts DEF Clips, Index
  <2>3. PICK c \in DOMAIN Clips' :
          /\ IsClipAtTime(Clips', c, pts)
          /\ \/ \E k \in {0} \union {Clips'[c].eps[e].spn : e \in DOMAIN Clips'[c].eps} :
                  Target(Clips'[c], pts, k) /\ PositionAt(Clips', c, Clamped(Clips'[c], k), pts)
             \/ PositionFails(Clips', c)
    BY <1>8, <2>2 DEF SwitchAngleAt
  <2>4. CASE PositionFails(Clips', c)  BY <1>2, <2>4 DEF PositionFails
  <2>5. CASE \E k \in {0} \union {Clips'[c].eps[e].spn : e \in DOMAIN Clips'[c].eps} :
               Target(Clips'[c], pts, k) /\ PositionAt(Clips', c, Clamped(Clips'[c], k), pts)
    BY <2>2, <2>3, <2>5, PositionAims
  <2> QED  BY <2>3, <2>4, <2>5
<1> QED  BY <1>2, <1>4, <1>5, <1>6, <1>7, <1>8 DEF QuietCall, QuietFailure, AnchoringCall

LEMMA AimedAlways == Spec => [](Typed /\ Aimed)
<1>1. Init => Typed /\ InStep /\ Aimed
  <2>1. Init => Aimed  BY NotAimed DEF Init, Aimed, Idle, NoResult, Result
  <2> QED  BY <2>1, TypedInit, InStepInit
<1>2. (Typed /\ InStep /\ Aimed) /\ [Next]_vars => (Typed /\ InStep /\ Aimed)'
  <2> SUFFICES ASSUME Typed, InStep, Aimed, [Next]_vars  PROVE Typed' /\ InStep' /\ Aimed'
    OBVIOUS
  <2>1. Typed' /\ InStep'  BY TypedNext, InStepNext
  <2>2. CASE Next
    <3>1. Aimed'  BY <2>2, NextCases, AimedRunning, AimedCalls DEF Typed
    <3> QED  BY <2>1, <3>1
  <2>3. CASE UNCHANGED vars
    <3>1. UNCHANGED <<call, last, damage>> /\ Clips' = Clips  BY <2>3 DEF vars, Clips, Index
    <3>2. Aimed'  BY <3>1 DEF Aimed
    <3> QED  BY <2>1, <3>2
  <2> QED  BY <2>2, <2>3
<1> QED  BY <1>1, <1>2, PTL DEF Spec

\* When the rows of the EP_maps rise, a keyframe seek passes over no row it could
\* have landed on: every row beyond the landing is later than the time asked for,
\* in whatever clip, whether the row it found was exact, before or the first.
THEOREM SeeksAreTight ==
  ASSUME EpMapsRise  PROVE Spec => []SeekToTight
<1>1. Typed /\ Aimed => SeekToTight
  <2> SUFFICES ASSUME Typed, Aimed, last.op = "land", NEW c \in DOMAIN Clips,
                      NEW e \in DOMAIN Clips[c].eps, InWindow(c, e),
                      Clips[c].start + Clips[c].eps[e].spn * TsLen > last.n
               PROVE  Clips[c].ptsStart + (Clips[c].eps[e].pts - Clips[c].inPts) > last.at
    BY DEF SeekToTight
  <2>1. LaidOut(Clips, Total) /\ RowsOf(Clips) /\ last.at \in Nat
    BY ClipFacts, Rows DEF Typed, TypeOK, Clips
  <2>2. Lands(Clips, last.at, last.n)  BY DEF Aimed
  <2> QED  BY <2>1, <2>2, LandsTight DEF InWindow
<1> QED  BY <1>1, AimedAlways, PTL

-----------------------------------------------------------------------------
(* Angle switches.                                                         *)

\* The clips' windows of title time follow one another.
LEMMA TimesRise ==
  ASSUME NEW clips, NEW total, LaidOut(clips, total),
         \A c \in DOMAIN clips :
           c < Len(clips) => clips[c].ptsStart <= clips[c + 1].ptsStart,
         NEW i \in DOMAIN clips, NEW j \in DOMAIN clips, i <= j
  PROVE  clips[i].ptsStart <= clips[j].ptsStart
<1> DEFINE n == Len(clips)
<1>0. n = Len(clips)  OBVIOUS
<1>1. n \in Nat /\ DOMAIN clips = 1..n  BY DEF LaidOut
<1> HIDE DEF n
<1> DEFINE f == [k \in 1..n |-> clips[k].ptsStart]
<1>2. ASSUME NEW k \in 1..n  PROVE f[k] \in Nat  BY <1>1, ClipTables
<1>3. ASSUME NEW k \in 1..(n - 1)  PROVE f[k] <= f[k + 1]
  <2>1. k \in DOMAIN clips /\ k + 1 \in DOMAIN clips /\ k < n  BY <1>1, <1>3
  <2>2. clips[k].ptsStart <= clips[k + 1].ptsStart  BY <1>0, <2>1
  <2> QED  BY <1>1, <2>1, <2>2
<1>4. i \in 1..n /\ j \in 1..n  BY <1>1
<1> HIDE DEF f
<1>5. f[i] <= f[j]  BY <1>1, <1>2, <1>3, <1>4, Rising
<1> QED  BY <1>4, <1>5 DEF f

\* The time of a point inside its clip has the point's byte for its landing.
LEMMA PointLands ==
  ASSUME TypeOK, EpMapsRise, PointsInside,
         NEW c \in DOMAIN Clips, NEW e \in DOMAIN Clips[c].changes, IsPoint(c, e)
  PROVE  Lands(Clips, PointTime(c, e), PointByte(c, e))
<1> DEFINE x == Clips[c]  p == x.changes[e]  pts == PointTime(c, e)
<1>1. LaidOut(Clips, Total) /\ RowsOf(Clips)
  BY ClipFacts, Rows DEF TypeOK, Clips
<1>2. /\ \A d \in DOMAIN Clips : d < Len(Clips) => Clips[d].ptsStart <= Clips[d + 1].ptsStart
      /\ PointInside(Clips, c, e)
  BY DEF PointsInside, TypeOK, Clips, Index
<1>3. p.pts >= x.inPts  BY DEF IsPoint
<1>4. /\ x.ptsStart \in Nat /\ x.inPts \in Nat /\ x.pkts \in Nat
      /\ p.pts \in Nat /\ p.spn \in Nat
  BY <1>1, ClipTables
<1>5. PICK k \in DOMAIN x.eps : x.eps[k] = p  BY <1>2, <1>3 DEF PointInside
<1>6. p.pts <= PtsMax /\ PtsMax \in Nat  BY <1>1, <1>5, SizesAssumption DEF RowsOf, RowsRise
<1>7. p.spn < x.pkts  BY <1>2, <1>3 DEF PointInside
<1>8. pts = x.ptsStart + (p.pts - x.inPts)  BY DEF PointTime
<1>9. pts \in Nat /\ x.ptsStart <= pts
  <2> HIDE DEF x, p, pts
  <2> QED  BY <1>3, <1>4, <1>8
<1>10. IsClipAtTime(Clips, c, pts)
  <2>1. ASSUME NEW j \in DOMAIN Clips, j > c  PROVE Clips[j].ptsStart > pts
    <3>1. /\ c + 1 \in DOMAIN Clips /\ c < Len(Clips) /\ c + 1 <= j
          /\ DOMAIN Clips = 1..Len(Clips) /\ Len(Clips) \in Nat
      BY <1>1, <2>1 DEF LaidOut
    <3>2. pts < Clips[c + 1].ptsStart  BY <1>2, <1>3, <1>8, <3>1 DEF PointInside
    <3>3. Clips[c + 1].ptsStart <= Clips[j].ptsStart  BY <1>1, <1>2, <3>1, TimesRise
    <3>4. Clips[c + 1].ptsStart \in Nat /\ Clips[j].ptsStart \in Nat
      BY <1>1, <3>1, ClipTables
    <3> HIDE DEF pts
    <3> QED  BY <1>9, <3>2, <3>3, <3>4
  <2> QED  BY <1>9, <2>1 DEF IsClipAtTime
<1>11. Target(x, pts, p.spn)
  <2>1. ClipLocal(x, pts) = p.pts
    <3> HIDE DEF x, p, pts
    <3> QED  BY <1>3, <1>4, <1>6, <1>8, <1>9 DEF ClipLocal, Lesser
  <2>2. IsEntryAt(x.eps, k, ClipLocal(x, pts))  BY <1>5, <2>1 DEF IsEntryAt
  <2>3. x.eps # <<>>  BY <1>5
  <2> QED  BY <1>5, <2>2, <2>3 DEF Target
<1>12. Clamped(x, p.spn) = p.spn
  <2> HIDE DEF x, p
  <2> QED  BY <1>4, <1>7 DEF Clamped, Lesser
<1>13. PointByte(c, e) = x.start + Clamped(x, p.spn) * TsLen  BY <1>12 DEF PointByte
<1>14. p.spn \in {0} \union {x.eps[f].spn : f \in DOMAIN x.eps}  BY <1>5
<1> QED  BY <1>10, <1>11, <1>13, <1>14 DEF Lands, LandsIn

\* When moreover the points of an angle lie inside their clips, an angle switch
\* whose tables agree with those of the angle left cuts at the output byte of the
\* very angle-change point it chose: position_at finds its row by its time again.
THEOREM SwitchesLand ==
  ASSUME EpMapsRise, PointsInside  PROVE Spec => SwitchLands
<1>1. Typed /\ [Next]_vars => [CutsOnPoint]_vars
  <2> SUFFICES ASSUME Typed, [Next]_vars, damage' = "none", Clips' = Clips,
                      NEW c \in DOMAIN Clips, NEW e \in DOMAIN Clips[c].changes,
                      IsNextPoint(c, e), SwitchAngleAt(angle', PointTime(c, e))
               PROVE  Landing = PointByte(c, e)
    BY DEF CutsOnPoint
  <2> DEFINE pts == PointTime(c, e)
  <2>1. TypeOK /\ LaidOut(Clips, Total) /\ IsPoint(c, e)  BY ClipFacts DEF Typed, IsNextPoint
  <2>2. RowsOf(Clips)  BY <2>1, Rows DEF TypeOK, Clips
  <2>3. pts \in Nat  BY <2>1, PointTimes
  <2>4. Lands(Clips, pts, PointByte(c, e))  BY <2>1, PointLands
  <2>5. title' = title /\ angle' + 1 \in DOMAIN title /\ title \in Titles /\ angle' \in Nat
    <3>1. title' = title /\ angle' + 1 \in DOMAIN title  BY DEF SwitchAngleAt
    <3>2. Typed'  BY TypedNext
    <3> QED  BY <2>1, <3>1, <3>2 DEF Typed, TypeOK
  <2>6. Clips' = Index(angle').clips /\ LaidOut(Clips', Total')
    BY <2>5, NextClipFacts DEF Clips, Index
  <2>7. PICK d \in DOMAIN Clips' :
          /\ IsClipAtTime(Clips', d, pts)
          /\ \/ \E k \in {0} \union {Clips'[d].eps[f].spn : f \in DOMAIN Clips'[d].eps} :
                  Target(Clips'[d], pts, k) /\ PositionAt(Clips', d, Clamped(Clips'[d], k), pts)
             \/ PositionFails(Clips', d)
    BY <2>6 DEF SwitchAngleAt
  <2>8. Lands(Clips', pts, Landing)
    <3>1. ~PositionFails(Clips', d)  BY DEF PositionFails
    <3> QED  BY <2>3, <2>6, <2>7, <3>1, PositionAims
  <2> QED  BY <2>1, <2>2, <2>3, <2>4, <2>8, OneLanding
<1>2. Spec => []Typed  BY AimedAlways, PTL
<1> QED  BY <1>1, <1>2, PTL DEF Spec, SwitchLands
=============================================================================

------------------------- MODULE TitleSource_proofs -------------------------
(***************************************************************************)
(* What TLAPS proves of TitleSource, for every title, packet and unit size *)
(* and number of failures.  Three inductive invariants carry it:           *)
(*   Typed    TypeOK, and a skip loop never stands past its goal;          *)
(*   InStep   with Outcome, what the call under way and the last answer    *)
(*            say about the cursors;                                       *)
(*   Guarded  the byte cap and the unit grid, which survive errors.        *)
(* The steps of a call, the calls that move nothing and the calls that     *)
(* re-anchor the reader are treated apart (NextCases).                     *)
(***************************************************************************)
EXTENDS TitleSource, SequenceTheorems, TLAPS

-----------------------------------------------------------------------------
(* Arithmetic of packets and units.                                        *)

\* A count of packets is a count of bytes, and counts of bytes add up.
LEMMA PacketBytes ==
  /\ \A p \in Nat : p * TsLen \in Nat
  /\ \A p, q \in Nat : (p + q) * TsLen = p * TsLen + q * TsLen
  /\ \A p, q \in Nat : p <= q => p * TsLen <= q * TsLen
  /\ \A p \in Nat \ {0} : p * TsLen > 0
  /\ 0 * TsLen = 0
<1>0. TsLen \in Nat \ {0}  BY SizesAssumption
<1>1. \A p \in Nat : p * TsLen \in Nat  BY <1>0
<1>2. \A p, q \in Nat : (p + q) * TsLen = p * TsLen + q * TsLen  BY <1>0
<1>3. \A p, q \in Nat : p <= q => p * TsLen <= q * TsLen  BY <1>0
<1>4. \A p \in Nat \ {0} : p * TsLen > 0  BY <1>0
<1> QED  BY <1>1, <1>2, <1>3, <1>4

\* A natural is its quotient and remainder; a multiple of a divisor leaves none.
LEMMA Division ==
  ASSUME NEW n \in Nat, NEW u \in Nat \ {0}
  PROVE  /\ n \div u \in Nat /\ n % u \in 0..(u - 1)
         /\ n = u * (n \div u) + (n % u)
OBVIOUS

LEMMA Multiple ==
  ASSUME NEW q \in Nat, NEW u \in Nat \ {0}
  PROVE  (u * q) % u = 0
<1> DEFINE n == u * q  d == n \div u  m == n % u
<1>1. n \in Nat  OBVIOUS
<1>2. d \in Nat /\ m \in 0..(u - 1) /\ n = u * d + m  BY <1>1, Division
<1>3. CASE q = d  BY <1>1, <1>2, <1>3
<1>4. CASE q > d
  <2>1. PICK k \in Nat \ {0} : q = d + k  BY <1>2, <1>4
  <2>2. n = u * d + u * k  BY <2>1, <1>2
  <2>3. u * k >= u  BY <2>1
  <2>4. u * d \in Nat /\ u * k \in Nat  BY <2>1, <1>2
  <2> HIDE DEF n, d, m
  <2> QED  BY <2>2, <2>3, <2>4, <1>2
<1>5. CASE q < d
  <2>1. PICK k \in Nat \ {0} : d = q + k  BY <1>2, <1>5
  <2>2. u * d = n + u * k  BY <2>1, <1>2
  <2>3. u * k >= u  BY <2>1
  <2>4. u * k \in Nat  BY <2>1
  <2> HIDE DEF n, d, m
  <2> QED  BY <2>2, <2>3, <2>4, <1>1, <1>2
<1> QED  BY <1>2, <1>3, <1>4, <1>5

\* The start of the unit that holds a packet, UnitStart(p), is at or before the
\* packet, and a unit boundary; one unit further on is a boundary too.
LEMMA UnitBoundary ==
  /\ \A p \in Nat : UnitStart(p) \in 0..p /\ UnitStart(p) % UnitPkts = 0
  /\ \A p \in Nat : p % UnitPkts = 0 => (p + UnitPkts) % UnitPkts = 0
  /\ 0 % UnitPkts = 0
<1>0. UnitPkts \in Nat \ {0}  BY SizesAssumption
<1>1. \A p \in Nat : p % UnitPkts \in 0..p  BY <1>0
<1>2. ASSUME NEW p \in Nat  PROVE (p - (p % UnitPkts)) % UnitPkts = 0
  <2>1. p = UnitPkts * (p \div UnitPkts) + (p % UnitPkts) /\ p \div UnitPkts \in Nat
    BY <1>0, Division
  <2>2. p - (p % UnitPkts) = UnitPkts * (p \div UnitPkts)  BY <1>0, <2>1, Division
  <2> QED  BY <1>0, <2>1, <2>2, Multiple
<1>3. ASSUME NEW p \in Nat, p % UnitPkts = 0  PROVE (p + UnitPkts) % UnitPkts = 0
  <2>1. p = UnitPkts * (p \div UnitPkts) /\ p \div UnitPkts \in Nat
    BY <1>0, <1>3, Division
  <2>2. p + UnitPkts = UnitPkts * ((p \div UnitPkts) + 1)  BY <1>0, <2>1
  <2>3. (UnitPkts * ((p \div UnitPkts) + 1)) % UnitPkts = 0
    <3>1. (p \div UnitPkts) + 1 \in Nat  BY <2>1
    <3> QED  BY <1>0, <3>1, Multiple
  <2> QED  BY ONLY <2>2, <2>3, Zenon
<1>4. 0 % UnitPkts = 0  BY <1>0
<1> QED  BY <1>1, <1>2, <1>3, <1>4 DEF UnitStart

-----------------------------------------------------------------------------
(* What the index says of a title.                                         *)

\* The clips of an angle, laid end to end over total bytes.
LaidOut(clips, total) ==
  /\ clips \in Seq(Clip) /\ total \in Nat
  /\ Len(clips) \in Nat \ {0} /\ DOMAIN clips = 1..Len(clips)
  /\ clips[1].start = 0
  /\ \A c \in DOMAIN clips :
       /\ clips[c].start \in Nat /\ clips[c].pkts \in Nat /\ clips[c].present \in BOOLEAN
       /\ ~clips[c].present => clips[c].pkts = 0
       /\ clips[c].start + clips[c].pkts * TsLen =
            IF c = Len(clips) THEN total ELSE clips[c + 1].start
       /\ clips[c].start + clips[c].pkts * TsLen <= total
       /\ clips[c].start <= total

\* Every angle of an opened title is laid out this way.
LEMMA IndexFacts ==
  ASSUME title \in Titles, NEW a \in Nat, a + 1 \in DOMAIN title
  PROVE  LaidOut(Index(a).clips, Index(a).total)
<1> DEFINE x == Index(a)
<1>1. x \in [clips : Seq(Clip), total : Nat, duration : Nat]
  <2>1. title \in Seq([clips : Seq(Clip), total : Nat, duration : Nat])
    BY TitlesAssumption
  <2>2. title[a + 1] \in [clips : Seq(Clip), total : Nat, duration : Nat]
    BY <2>1, ElementOfSeq, LenProperties
  <2> QED  BY <2>2 DEF Index
<1>2. x.clips # <<>> /\ Laid(x)  BY TitlesAssumption DEF Index
<1> HIDE DEF x
<1>3. x.clips \in Seq(Clip) /\ x.total \in Nat  BY <1>1
<1>4. Len(x.clips) \in Nat \ {0} /\ DOMAIN x.clips = 1..Len(x.clips)  BY <1>2, <1>3
<1>5. ASSUME NEW c \in DOMAIN x.clips
      PROVE  /\ x.clips[c].start \in Nat /\ x.clips[c].pkts \in Nat
             /\ x.clips[c].present \in BOOLEAN
             /\ x.clips[c].start <= x.total
  <2>1. x.clips[c] \in Clip  BY <1>3
  <2>2. x.clips[c].start \in Nat /\ x.clips[c].pkts \in Nat /\ x.clips[c].present \in BOOLEAN
    BY <2>1 DEF Clip
  <2>3. x.clips[c].pkts * TsLen \in Nat  BY <2>2, PacketBytes
  <2>4. x.clips[c].start + x.clips[c].pkts * TsLen <= x.total  BY <1>2 DEF Laid
  <2> QED  BY <1>3, <2>2, <2>3, <2>4
<1> QED  BY <1>2, <1>3, <1>4, <1>5 DEF LaidOut, Laid, x

\* So are the clips of the current angle, now and after a step that keeps the
\* title and chooses one of its angles.
LEMMA ClipFacts == TypeOK => LaidOut(Clips, Total)
BY IndexFacts DEF TypeOK, Clips, Total

LEMMA NextClipFacts ==
  ASSUME title \in Titles, title' = title, angle' \in Nat, angle' + 1 \in DOMAIN title
  PROVE  LaidOut(Clips', Total')
<1>1. LaidOut(Index(angle').clips, Index(angle').total)  BY IndexFacts
<1>2. Clips' = Index(angle').clips /\ Total' = Index(angle').total
  BY DEF Clips, Total, Index
<1> QED  BY <1>1, <1>2

-----------------------------------------------------------------------------
(* Types.                                                                  *)

\* The goal of a running call lies ahead of the reader, nothing has been
\* returned yet, and a seek heads for its byte or for the end.
Ahead ==
  /\ Running => opos < call.goal /\ last = NoResult
  /\ call.op = "seek" => call.goal = Lesser(call.want, Total)
  /\ call.op \in {"seek", "land"} => call.goal <= Total

Typed == TypeOK /\ Ahead

\* The value of Discard: a call with its goal ahead, or a result.
LEMMA DiscardTypes ==
  ASSUME NEW op \in {"seek", "land"}, NEW from \in Nat, NEW goal \in Nat, NEW want \in Nat,
         Discard(op, from, goal, want), opos' = from, goal <= Total',
         op = "seek" => goal = Lesser(want, Total')
  PROVE  /\ call' \in [op : {"idle", "read", "seek", "land"}, goal : Nat, want : Nat]
         /\ last' \in [op : {"none", "bytes", "eof", "seek", "land", "error"},
                       at : Nat, n : Nat]
         /\ Ahead'
<1>1. CASE from < goal
  BY <1>1 DEF Discard, Start, Ahead, Running, NoResult, Result
<1>2. CASE ~(from < goal)
  BY <1>2 DEF Discard, Return, Idle, Ahead, Running, Result
<1> QED  BY <1>1, <1>2

\* A call that returned satisfies Ahead.
LEMMA ReturnTypes ==
  ASSUME NEW op \in {"none", "bytes", "eof", "seek", "land", "error"},
         NEW at \in Nat, NEW n \in Nat, Return(Result(op, at, n)), Total' \in Nat
  PROVE  /\ call' \in [op : {"idle", "read", "seek", "land"}, goal : Nat, want : Nat]
         /\ last' \in [op : {"none", "bytes", "eof", "seek", "land", "error"},
                       at : Nat, n : Nat]
         /\ Ahead'
BY DEF Return, Result, Idle, Ahead, Running

\* The packet seek_to heads for is in the clip.
LEMMA TargetPacket ==
  ASSUME NEW clips, NEW total, LaidOut(clips, total), NEW c \in DOMAIN clips,
         NEW k \in {0} \union {clips[c].eps[e].spn : e \in DOMAIN clips[c].eps}
  PROVE  Clamped(clips[c], k) \in 0..clips[c].pkts
<1>1. clips[c] \in Clip  BY ElementOfSeq, LenProperties DEF LaidOut
<1>2. clips[c].eps \in Seq(Entry) /\ clips[c].pkts \in Nat  BY <1>1 DEF Clip
<1>3. \A e \in DOMAIN clips[c].eps : clips[c].eps[e] \in Entry
  BY <1>2, ElementOfSeq, LenProperties
<1>4. k \in Nat  BY <1>3 DEF Entry
<1> QED  BY <1>2, <1>4 DEF Clamped, Lesser

\* The new anchor of seek_to and switch_angle_at.
LEMMA AnchorBytes ==
  ASSUME NEW clips, NEW total, LaidOut(clips, total), NEW c \in DOMAIN clips,
         NEW p \in 0..clips[c].pkts
  PROVE  /\ UnitStart(p) \in 0..p
         /\ clips[c].start + UnitStart(p) * TsLen \in Nat
         /\ clips[c].start + p * TsLen \in 0..total
         /\ clips[c].start + UnitStart(p) * TsLen <= clips[c].start + p * TsLen
<1>1. p \in Nat /\ clips[c].start \in Nat /\ clips[c].pkts \in Nat /\ p <= clips[c].pkts
  BY DEF LaidOut
<1>2. UnitStart(p) \in 0..p  BY <1>1, UnitBoundary
<1>3. /\ UnitStart(p) * TsLen \in Nat /\ p * TsLen \in Nat /\ clips[c].pkts * TsLen \in Nat
      /\ UnitStart(p) * TsLen <= p * TsLen /\ p * TsLen <= clips[c].pkts * TsLen
  <2>1. UnitStart(p) \in Nat /\ UnitStart(p) <= p  BY <1>1, <1>2
  <2>2. UnitStart(p) * TsLen \in Nat /\ UnitStart(p) * TsLen <= p * TsLen
    BY ONLY <2>1, <1>1, PacketBytes, Zenon
  <2>3. p * TsLen \in Nat /\ clips[c].pkts * TsLen \in Nat /\ p * TsLen <= clips[c].pkts * TsLen
    BY ONLY <1>1, PacketBytes, Zenon
  <2> QED  BY <2>2, <2>3
<1>4. clips[c].start + clips[c].pkts * TsLen <= total /\ total \in Nat  BY DEF LaidOut
<1> QED  BY <1>1, <1>2, <1>3, <1>4

LEMMA PositionTyped ==
  ASSUME LaidOut(Clips', Total'), title' \in Titles, angle' \in Nat,
         angle' + 1 \in DOMAIN title', faults \in 0..MaxFaults,
         NEW c \in DOMAIN Clips', NEW p \in 0..Clips'[c].pkts, NEW pts \in Nat,
         PositionAt(Clips', c, p, pts)
  PROVE  Typed'
<1> DEFINE u == UnitStart(p)
           from == Clips'[c].start + u * TsLen
           goal == Clips'[c].start + p * TsLen
<1>1. u \in 0..p /\ from \in Nat /\ goal \in 0..Total'  BY AnchorBytes
<1>2. /\ idx' = c /\ coff' = u /\ pend' = NoBytes /\ ppos' = 0
      /\ file' = [clip |-> c, pos |-> u] /\ opos' = from
      /\ Discard("land", from, goal, pts) /\ damage' = "none" /\ faults' = faults
  BY DEF PositionAt
<1>3. c \in Nat \ {0} /\ c <= Len(Clips') + 1 /\ Len(Clips') \in Nat /\ Total' \in Nat
  BY DEF LaidOut
<1> HIDE DEF u, from, goal
<1>4. /\ call' \in [op : {"idle", "read", "seek", "land"}, goal : Nat, want : Nat]
      /\ last' \in [op : {"none", "bytes", "eof", "seek", "land", "error"},
                    at : Nat, n : Nat]
      /\ Ahead'
  BY <1>1, <1>2, DiscardTypes, <1>3
<1>5. TypeOK'
  <2>1. pend' \in [clip : Nat, src : Nat, pkts : 0..UnitPkts, off : Nat] /\ pend'.pkts = 0
    BY <1>2, SizesAssumption DEF NoBytes
  <2>2. file' \in [clip : Nat, pos : Nat] /\ file'.clip = c  BY <1>1, <1>2, <1>3
  <2>3. ppos' <= pend'.pkts * TsLen  BY <1>2, <2>1, PacketBytes
  <2> QED  BY <1>1, <1>2, <1>3, <1>4, <2>1, <2>2, <2>3 DEF TypeOK
<1> QED  BY <1>4, <1>5 DEF Typed

\* The facts about pending and the open file that the steps below rest on.
LEMMA Counts ==
  ASSUME TypeOK
  PROVE  /\ Left \in Int /\ Left <= UnitPkts * TsLen /\ UnitPkts * TsLen \in Nat
         /\ Left > 0 => pend.clip \in DOMAIN Clips /\ Origin \in Nat
         /\ file # NoFile => Fillable \in Int /\ file.clip \in DOMAIN Clips
         /\ file # NoFile /\ Fillable > 0 => UnitFill \in 1..UnitPkts /\ UnitFill <= Fillable
<1>1. /\ pend.clip \in Nat /\ pend.src \in Nat /\ pend.pkts \in Nat /\ pend.pkts <= UnitPkts
      /\ ppos \in Nat /\ ppos <= pend.pkts * TsLen /\ UnitPkts \in Nat \ {0}
  BY SizesAssumption DEF TypeOK
<1>2. /\ pend.pkts * TsLen \in Nat /\ pend.src * TsLen \in Nat /\ UnitPkts * TsLen \in Nat
      /\ pend.pkts * TsLen <= UnitPkts * TsLen
  BY <1>1, PacketBytes
<1>3. Left \in Int /\ Left <= UnitPkts * TsLen  BY <1>1, <1>2 DEF Left
<1>4. ASSUME Left > 0  PROVE pend.clip \in DOMAIN Clips /\ Origin \in Nat
  <2>1. pend # NoBytes  BY <1>1, <1>4, PacketBytes DEF Left, NoBytes
  <2>2. pend.clip \in DOMAIN Clips  BY <2>1 DEF TypeOK
  <2>3. Clips[pend.clip].start \in Nat  BY <2>2, ClipFacts DEF LaidOut
  <2> QED  BY <1>1, <1>2, <2>2, <2>3 DEF Origin
<1>5. ASSUME file # NoFile  PROVE Fillable \in Int /\ file.clip \in DOMAIN Clips
  <2>1. file.clip \in DOMAIN Clips /\ file.pos \in Nat  BY <1>5 DEF TypeOK
  <2>2. Clips[file.clip].pkts \in Nat  BY <2>1, ClipFacts DEF LaidOut
  <2> QED  BY <2>1, <2>2 DEF Fillable
<1>6. ASSUME file # NoFile, Fillable > 0
      PROVE  UnitFill \in 1..UnitPkts /\ UnitFill <= Fillable
  BY <1>1, <1>5, <1>6 DEF UnitFill, Lesser
<1> QED  BY <1>2, <1>3, <1>4, <1>5, <1>6

\* A call that fails keeps the types when its handler kept those of the stream.
LEMMA FailTyped ==
  ASSUME TypeOK, Fail, title' = title, Clips' = Clips, Total' = Total, Total \in Nat,
         angle' = angle, coff' = coff, pend' = pend, ppos' = ppos, opos' = opos,
         faults' \in 0..MaxFaults, damage' \in {"none", "read", "unit", "open"},
         idx' \in Nat \ {0}, idx' <= Len(Clips) + 1,
         file' \in [clip : Nat, pos : Nat],
         file' # NoFile => file'.clip \in DOMAIN Clips /\ idx' \in DOMAIN Clips
  PROVE  Typed'
<1>1. Return(Result("error", 0, 0))  BY DEF Fail
<1>2. /\ call' \in [op : {"idle", "read", "seek", "land"}, goal : Nat, want : Nat]
      /\ last' \in [op : {"none", "bytes", "eof", "seek", "land", "error"},
                    at : Nat, n : Nat]
      /\ Ahead'
  BY <1>1, ReturnTypes
<1> QED  BY <1>2 DEF Typed, TypeOK

\* Every step of a running call keeps the types.
LEMMA TypedRunning == Typed /\ Step => Typed'
<1> SUFFICES ASSUME Typed, Step  PROVE Typed'
  OBVIOUS
<1>1. TypeOK /\ Ahead  BY DEF Typed
<1>2. UNCHANGED <<title, angle>> /\ Running
  BY DEF Step, EndOfStream, Deliver, StageUnit, NextClip, NextClipFails, ReadFails,
         DecryptFails, AtClipEnd, Refilling
<1>3. Clips' = Clips /\ Total' = Total /\ LaidOut(Clips, Total) /\ Total \in Nat
  BY <1>1, <1>2, ClipFacts DEF Clips, Total, Index, LaidOut
<1>4. /\ call.op \in {"read", "seek", "land"} /\ call.goal \in Nat /\ call.want \in Nat
      /\ opos < call.goal /\ opos \in Nat /\ last = NoResult
  BY <1>1, <1>2 DEF TypeOK, Ahead, Running
<1>0. faults \in 0..MaxFaults /\ MaxFaults \in Nat  BY <1>1, SizesAssumption DEF TypeOK
<1>5. CASE EndOfStream
  <2>1. \E op \in {"eof", "seek", "land"}, at, n \in Nat : Return(Result(op, at, n))
    BY <1>4, <1>5 DEF EndOfStream
  <2>2. /\ call' \in [op : {"idle", "read", "seek", "land"}, goal : Nat, want : Nat]
        /\ last' \in [op : {"none", "bytes", "eof", "seek", "land", "error"},
                      at : Nat, n : Nat]
        /\ Ahead'
    BY <1>3, <2>1, ReturnTypes
  <2> QED  BY <1>1, <1>3, <1>5, <2>2 DEF Typed, TypeOK, EndOfStream, stream
<1>6. CASE Deliver
  <2>1. Left > 0 /\ Left \in Int /\ Origin \in Nat  BY <1>1, <1>6, Counts DEF Deliver
  <2> DEFINE take == Lesser(Left, call.goal - opos)
  <2>2. take \in Nat \ {0} /\ take <= Left /\ take <= call.goal - opos
    BY <1>4, <2>1 DEF Lesser
  <2>3. /\ ppos' = ppos + take /\ opos' = opos + take
        /\ IF call.op = "read" THEN Return(Result("bytes", Origin, take))
           ELSE IF opos + take = call.goal THEN Return(Result(call.op, call.want, call.goal))
           ELSE UNCHANGED <<call, last>>
        /\ UNCHANGED <<title, angle, idx, file, coff, pend, damage, faults>>
    BY <1>6 DEF Deliver
  <2> HIDE DEF take
  <2>4. /\ call' \in [op : {"idle", "read", "seek", "land"}, goal : Nat, want : Nat]
        /\ last' \in [op : {"none", "bytes", "eof", "seek", "land", "error"},
                      at : Nat, n : Nat]
        /\ Ahead'
    <3>1. CASE call.op = "read"  BY <1>3, <2>1, <2>2, <2>3, <3>1, ReturnTypes
    <3>2. CASE call.op # "read" /\ opos + take = call.goal
      BY <1>3, <1>4, <2>3, <3>2, ReturnTypes
    <3>3. CASE call.op # "read" /\ opos + take # call.goal
      <4>1. UNCHANGED <<call, last>> /\ opos + take < call.goal
        BY <1>4, <2>2, <2>3, <3>3
      <4> QED  BY <1>1, <1>3, <1>4, <2>3, <4>1 DEF TypeOK, Ahead, Running
    <3> QED  BY <3>1, <3>2, <3>3
  <2>5. ppos' \in Nat /\ opos' \in Nat /\ ppos' <= pend.pkts * TsLen
    <3>1. ppos \in Nat /\ pend.pkts \in Nat  BY <1>1, SizesAssumption DEF TypeOK
    <3>2. pend.pkts * TsLen \in Nat  BY <3>1, PacketBytes
    <3> QED  BY <1>4, <2>1, <2>2, <2>3, <3>1, <3>2 DEF Left
  <2> QED  BY <1>1, <1>3, <2>3, <2>4, <2>5 DEF Typed, TypeOK
<1>7. CASE StageUnit
  <2>1. /\ file # NoFile /\ Fillable > 0 /\ file.clip \in DOMAIN Clips /\ coff \in Nat
        /\ file \in [clip : Nat, pos : Nat]
    BY <1>1, <1>7, Counts DEF StageUnit, TypeOK
  <2>2. UnitFill \in 1..UnitPkts  BY <1>1, <2>1, Counts
  <2>3. UnitPkts \in Nat  BY SizesAssumption
  <2>4. /\ pend' = [clip |-> file.clip, src |-> file.pos, pkts |-> UnitFill, off |-> coff]
        /\ ppos' = 0 /\ file' = [file EXCEPT !.pos = file.pos + UnitFill]
        /\ coff' = coff + UnitFill
        /\ UNCHANGED <<title, angle, idx, opos, call, last, damage, faults>>
    BY <1>7 DEF StageUnit
  <2>5. pend' \in [clip : Nat, src : Nat, pkts : 0..UnitPkts, off : Nat]
    BY <2>1, <2>2, <2>3, <2>4
  <2>6. file' \in [clip : Nat, pos : Nat] /\ file'.clip = file.clip /\ coff' \in Nat
    BY <2>1, <2>2, <2>3, <2>4
  <2>7. ppos' <= pend'.pkts * TsLen
    <3>1. pend'.pkts \in Nat  BY <2>2, <2>3, <2>4
    <3> QED  BY <2>4, <3>1, PacketBytes
  <2>8. Ahead'  BY <1>1, <1>3, <2>4 DEF Ahead, Running
  <2> QED  BY <1>1, <1>3, <2>1, <2>4, <2>5, <2>6, <2>7, <2>8 DEF Typed, TypeOK
<1>8. CASE NextClip
  <2>1. idx' = idx + 1 /\ idx \in Nat \ {0} /\ file # NoFile  BY <1>1, <1>8
    DEF NextClip, Following, AtClipEnd, TypeOK
  <2>2. idx <= Len(Clips) /\ Len(Clips) \in Nat /\ DOMAIN Clips = 1..Len(Clips)
    BY <1>1, <1>3, <2>1 DEF TypeOK, LaidOut
  <2>3. /\ file' \in [clip : Nat, pos : Nat] /\ coff' \in Nat
        /\ file' # NoFile => file'.clip \in DOMAIN Clips /\ idx' \in DOMAIN Clips
    <3>0. coff \in Nat  BY <1>1 DEF TypeOK
    <3>1. CASE idx' <= Len(Clips)
      <4>1. file' = [clip |-> idx', pos |-> 0] /\ coff' = 0  BY <1>8, <3>1 DEF NextClip
      <4> QED  BY <2>1, <2>2, <3>1, <4>1
    <3>2. CASE ~(idx' <= Len(Clips))
      BY <1>8, <3>0, <3>2 DEF NextClip, NoFile
    <3> QED  BY <3>1, <3>2
  <2>4. UNCHANGED <<title, angle, pend, ppos, opos, call, last, damage, faults>>
    BY <1>8 DEF NextClip
  <2>5. Ahead'  BY <1>1, <1>3, <2>4 DEF Ahead, Running
  <2> QED  BY <1>1, <1>3, <2>1, <2>2, <2>3, <2>4, <2>5 DEF Typed, TypeOK
<1>9. CASE NextClipFails
  <2>1. /\ idx' = idx + 1 /\ idx \in Nat \ {0} /\ idx + 1 <= Len(Clips)
        /\ file' = NoFile /\ Fail /\ damage' = "open"
        /\ UNCHANGED <<title, angle, coff, pend, ppos, opos>>
    BY <1>1, <1>9 DEF NextClipFails, Following, TypeOK
  <2>2. faults' \in 0..MaxFaults
    BY <1>0, <1>9 DEF NextClipFails, Fault
  <2>3. /\ idx' \in Nat \ {0} /\ idx' <= Len(Clips) + 1
        /\ file' \in [clip : Nat, pos : Nat] /\ file' = NoFile
        /\ damage' \in {"none", "read", "unit", "open"}
    BY <1>3, <2>1 DEF NoFile, LaidOut
  <2> QED  BY <1>1, <1>3, <2>1, <2>2, <2>3, FailTyped
<1>10. CASE ReadFails
  <2>1. file # NoFile /\ file \in [clip : Nat, pos : Nat]
    BY <1>1, <1>10 DEF ReadFails, TypeOK
  <2>2. UnitPkts \in Nat \ {0}  BY SizesAssumption
  <2>3. PICK lost \in 0..(UnitPkts - 1) :
           /\ file' = [file EXCEPT !.pos = file.pos + lost]
           /\ damage' = IF lost > 0 THEN "read" ELSE damage
    BY <1>10 DEF ReadFails
  <2>4. file' \in [clip : Nat, pos : Nat] /\ file'.clip = file.clip  BY <2>1, <2>2, <2>3
  <2>5. faults' \in 0..MaxFaults /\ Fail /\ UNCHANGED <<title, angle, idx, coff, pend, ppos, opos>>
    BY <1>0, <1>10 DEF ReadFails, Fault
  <2>6. damage' \in {"none", "read", "unit", "open"}  BY <1>1, <2>3 DEF TypeOK
  <2>7. /\ idx \in Nat \ {0} /\ idx <= Len(Clips) + 1
        /\ file.clip \in DOMAIN Clips /\ idx \in DOMAIN Clips
    BY <1>1, <2>1 DEF TypeOK
  <2> QED  BY <1>1, <1>3, <2>4, <2>5, <2>6, <2>7, FailTyped
<1>11. CASE DecryptFails
  <2>1. /\ file # NoFile /\ file \in [clip : Nat, pos : Nat] /\ Fillable > 0
        /\ file' = [file EXCEPT !.pos = file.pos + UnitFill]
        /\ Fail /\ damage' = "unit" /\ UNCHANGED <<title, angle, idx, coff, pend, ppos, opos>>
    BY <1>1, <1>11 DEF DecryptFails, TypeOK
  <2>2. UnitFill \in 1..UnitPkts /\ UnitPkts \in Nat
    BY <1>1, <2>1, Counts, SizesAssumption
  <2>3. file' \in [clip : Nat, pos : Nat] /\ file'.clip = file.clip  BY <2>1, <2>2
  <2>4. faults' \in 0..MaxFaults
    BY <1>0, <1>11 DEF DecryptFails, Fault
  <2>5. /\ idx \in Nat \ {0} /\ idx <= Len(Clips) + 1
        /\ file.clip \in DOMAIN Clips /\ idx \in DOMAIN Clips
    BY <1>1, <2>1 DEF TypeOK
  <2>6. damage' \in {"none", "read", "unit", "open"}  BY <2>1
  <2> QED  BY <1>1, <1>3, <2>1, <2>3, <2>4, <2>5, <2>6, FailTyped
<1> QED  BY <1>5, <1>6, <1>7, <1>8, <1>9, <1>10, <1>11 DEF Step

\* Rewind opens the way for a skip to a byte at or after the clip's start.
LEMMA RewindTyped ==
  ASSUME Typed, UNCHANGED <<title, angle>>, NEW c \in DOMAIN Clips, Rewind(c),
         faults' \in 0..MaxFaults, damage' \in {"none", "open"},
         file' \in [clip : Nat, pos : Nat], file' # NoFile => file'.clip = c,
         NEW to \in Nat,
         Fail \/ Discard("seek", Clips[c].start, Lesser(to, Total), to)
  PROVE  Typed'
<1>1. Clips' = Clips /\ Total' = Total /\ LaidOut(Clips, Total)
  BY ClipFacts DEF Clips, Total, Index, Typed
<1>2. /\ Len(Clips) \in Nat \ {0} /\ c \in 1..Len(Clips) /\ Total \in Nat
      /\ Clips[c].start \in Nat
  BY <1>1 DEF LaidOut
<1>3. /\ idx' = c /\ coff' = 0 /\ pend' = NoBytes /\ ppos' = 0 /\ opos' = Clips[c].start
  BY DEF Rewind
<1>4. /\ call' \in [op : {"idle", "read", "seek", "land"}, goal : Nat, want : Nat]
      /\ last' \in [op : {"none", "bytes", "eof", "seek", "land", "error"},
                    at : Nat, n : Nat]
      /\ Ahead'
  <2>1. CASE Fail  BY <1>1, <1>2, <2>1, ReturnTypes DEF Fail
  <2>2. CASE Discard("seek", Clips[c].start, Lesser(to, Total), to)
    <3>1. Lesser(to, Total) \in Nat /\ Lesser(to, Total) <= Total  BY <1>2 DEF Lesser
    <3> QED  BY <1>1, <1>2, <1>3, <2>2, <3>1, DiscardTypes
  <2> QED  BY <2>1, <2>2
<1>5. pend' \in [clip : Nat, src : Nat, pkts : 0..UnitPkts, off : Nat] /\ pend'.pkts = 0
  BY <1>3, SizesAssumption DEF NoBytes
<1>6. ppos' <= pend'.pkts * TsLen  BY <1>3, <1>5, PacketBytes
<1>7. title' \in Titles /\ angle' \in Nat /\ angle' + 1 \in DOMAIN title'
  BY DEF Typed, TypeOK
<1>8. c \in DOMAIN Clips' /\ c \in Nat \ {0} /\ c <= Len(Clips') + 1  BY <1>1, <1>2
<1>9. TypeOK'  BY <1>2, <1>3, <1>4, <1>5, <1>6, <1>7, <1>8 DEF TypeOK
<1> QED  BY <1>4, <1>9 DEF Typed

\* What a call does: run on, begin to read or skip, fail without a trace, or
\* anchor the reader anew.
QuietFailure == ~Running /\ Fail /\ UNCHANGED <<title, angle, stream, damage, faults>>

QuietCall ==
  \/ \E n \in Nat \ {0} : ReadCall(n)
  \/ \E to \in Nat : SeekForward(to)
  \/ QuietFailure

AnchoringCall ==
  \/ \E to \in Nat : SeekBackward(to) \/ SeekBackwardFails(to)
  \/ \E pts \in Nat : SeekTo(pts)
  \/ \E a \in Nat, pts \in Nat : SwitchAngleAt(a, pts)

\* An angle-change point has a title time: its row is not before the IN point.
LEMMA PointTimes ==
  ASSUME TypeOK, NEW c \in DOMAIN Clips, NEW e \in DOMAIN Clips[c].changes, IsPoint(c, e)
  PROVE  PointTime(c, e) \in Nat
<1>1. Clips \in Seq(Clip)  BY ClipFacts DEF LaidOut
<1>2. Clips[c] \in Clip  BY <1>1, ElementOfSeq, LenProperties
<1>3. /\ Clips[c].changes \in Seq(Entry)
      /\ Clips[c].ptsStart \in Nat /\ Clips[c].inPts \in Nat
  BY <1>2 DEF Clip
<1>4. Clips[c].changes[e] \in Entry  BY <1>3, ElementOfSeq, LenProperties
<1>5. Clips[c].changes[e].pts \in Nat  BY <1>4 DEF Entry
<1> QED  BY <1>3, <1>5 DEF IsPoint, PointTime

LEMMA NextCases ==
  ASSUME TypeOK, Next
  PROVE  Step \/ QuietCall \/ AnchoringCall
<1>1. /\ MaxRead \in Nat /\ MaxSeek \in Nat /\ Times \subseteq Nat
      /\ \A a \in 0..Len(title) : a \in Nat
  BY SizesAssumption
<1>2. CASE Step  BY <1>2
<1>3. CASE \E n \in 1..MaxRead : ReadCall(n)
  <2>1. PICK n \in 1..MaxRead : ReadCall(n)  BY <1>3
  <2> QED  BY <1>1, <2>1 DEF QuietCall
<1>4. CASE SeekBeforeStart  BY <1>4 DEF QuietCall, QuietFailure, SeekBeforeStart
<1>5. CASE \E to \in 0..MaxSeek : SeekForward(to) \/ SeekBackward(to) \/ SeekBackwardFails(to)
  <2>1. PICK to \in 0..MaxSeek : SeekForward(to) \/ SeekBackward(to) \/ SeekBackwardFails(to)
    BY <1>5
  <2>2. to \in Nat  BY <1>1
  <2> QED  BY <2>1, <2>2 DEF QuietCall, AnchoringCall
<1>6. CASE \E pts \in Times : SeekTo(pts)  BY <1>1, <1>6 DEF AnchoringCall
<1>7. CASE \E a \in 0..Len(title), pts \in Times : SwitchAngleAt(a, pts)
  BY <1>1, <1>7 DEF AnchoringCall
<1>8. CASE \E a \in 0..Len(title) : RejectAngle(a)
  BY <1>8 DEF QuietCall, QuietFailure, RejectAngle
<1>9. CASE \E a \in 0..Len(title) : SwitchAngle(a)
  <2>1. PICK a \in 0..Len(title) : SwitchAngle(a)  BY <1>9
  <2>2. CASE \E c \in DOMAIN Clips : \E e \in DOMAIN Clips[c].changes :
               /\ IsNextPoint(c, e)
               /\ SwitchAngleAt(a, PointTime(c, e)) \/ RejectAngle(a)
    <3>1. PICK c \in DOMAIN Clips : \E e \in DOMAIN Clips[c].changes :
               /\ IsNextPoint(c, e)
               /\ SwitchAngleAt(a, PointTime(c, e)) \/ RejectAngle(a)
      BY <2>2
    <3>2. PICK e \in DOMAIN Clips[c].changes :
               /\ IsNextPoint(c, e)
               /\ SwitchAngleAt(a, PointTime(c, e)) \/ RejectAngle(a)
      BY <3>1
    <3>3. PointTime(c, e) \in Nat  BY <3>2, PointTimes DEF IsNextPoint
    <3>4. RejectAngle(a) => QuietFailure  BY DEF RejectAngle, QuietFailure
    <3> QED  BY <1>1, <3>2, <3>3, <3>4 DEF AnchoringCall, QuietCall
  <2>3. CASE ~Running /\ Fail /\ UNCHANGED <<title, angle, stream, damage, faults>>
    BY <2>3 DEF QuietCall, QuietFailure
  <2> QED  BY <2>1, <2>2, <2>3 DEF SwitchAngle
<1> QED  BY <1>2, <1>3, <1>4, <1>5, <1>6, <1>7, <1>8, <1>9 DEF Next

\* A call that returns at once, or starts, leaves the stream alone.
LEMMA QuietTyped ==
  ASSUME Typed, UNCHANGED <<title, angle, stream, damage, faults>>,
         call' \in [op : {"idle", "read", "seek", "land"}, goal : Nat, want : Nat],
         last' \in [op : {"none", "bytes", "eof", "seek", "land", "error"},
                    at : Nat, n : Nat],
         Ahead'
  PROVE  Typed'
<1>1. Clips' = Clips /\ Total' = Total  BY DEF Clips, Total, Index
<1> QED  BY <1>1 DEF Typed, TypeOK, stream

\* The calls that only skip, answer or fail.
LEMMA TypedQuietCalls ==
  ASSUME Typed, QuietCall
  PROVE  Typed'
<1>1. TypeOK /\ opos \in Nat  BY DEF Typed, TypeOK
<1>2. LaidOut(Clips, Total) /\ Total \in Nat  BY <1>1, ClipFacts DEF LaidOut
<1>3. CASE \E n \in Nat \ {0} : ReadCall(n)
  <2>1. PICK n \in Nat \ {0} : ReadCall(n)  BY <1>3
  <2>2. /\ call' = [op |-> "read", goal |-> opos + n, want |-> n] /\ last' = NoResult
        /\ UNCHANGED <<title, angle, stream, damage, faults>>
    BY <2>1 DEF ReadCall, Start
  <2>3. Ahead'
    BY <1>1, <2>2 DEF Ahead, Running, stream
  <2> QED  BY <1>1, <2>2, <2>3, QuietTyped DEF NoResult, Result
<1>4. CASE QuietFailure
  <2>1. Return(Result("error", 0, 0)) /\ UNCHANGED <<title, angle, stream, damage, faults>>
    BY <1>4 DEF QuietFailure, Fail
  <2>2. Total' = Total  BY <2>1 DEF Total, Index
  <2> QED  BY <1>2, <2>1, <2>2, ReturnTypes, QuietTyped
<1>5. CASE \E to \in Nat : SeekForward(to)
  <2>1. PICK to \in Nat : SeekForward(to)  BY <1>5
  <2>2. to \in Nat  OBVIOUS
  <2>3. UNCHANGED <<title, angle, stream, damage, faults>>  BY <2>1 DEF SeekForward
  <2>4. Total' = Total /\ opos' = opos  BY <2>3 DEF Total, Index, stream
  <2>5. CASE to = opos
    BY <1>1, <1>2, <2>1, <2>3, <2>4, <2>5, ReturnTypes, QuietTyped DEF SeekForward
  <2>6. CASE to # opos
    <3>1. Discard("seek", opos, Lesser(to, Total), to)  BY <2>1, <2>6 DEF SeekForward
    <3>2. Lesser(to, Total) \in Nat /\ Lesser(to, Total) <= Total
      BY <1>2, <2>2 DEF Lesser
    <3> QED  BY <1>1, <1>2, <2>2, <2>3, <2>4, <3>1, <3>2, DiscardTypes, QuietTyped
  <2> QED  BY <2>5, <2>6
<1> QED  BY <1>3, <1>4, <1>5 DEF QuietCall

\* The calls that anchor the reader anew.
LEMMA TypedAnchoringCalls ==
  ASSUME Typed, AnchoringCall
  PROVE  Typed'
<1>1. TypeOK  BY DEF Typed
<1>2. LaidOut(Clips, Total) /\ Total \in Nat /\ DOMAIN Clips = 1..Len(Clips)
  BY <1>1, ClipFacts DEF LaidOut
<1>3. faults \in 0..MaxFaults /\ MaxFaults \in Nat
  BY <1>1, SizesAssumption DEF TypeOK
<1>4. title \in Titles /\ angle \in Nat /\ angle + 1 \in DOMAIN title  BY <1>1 DEF TypeOK
<1>5. ASSUME NEW to \in Nat, SeekBackward(to)  PROVE Typed'
  <2>1. PICK c \in DOMAIN Clips :
           /\ Rewind(c) /\ file' = [clip |-> c, pos |-> 0]
           /\ Discard("seek", Clips[c].start, Lesser(to, Total), to)
    BY <1>5 DEF SeekBackward
  <2>2. UNCHANGED <<title, angle, faults>> /\ damage' = "none"  BY <1>5 DEF SeekBackward
  <2>3. file' \in [clip : Nat, pos : Nat] /\ file'.clip = c
    BY <1>2, <2>1
  <2> QED  BY <1>3, <2>1, <2>2, <2>3, RewindTyped
<1>6. ASSUME NEW to \in Nat, SeekBackwardFails(to)  PROVE Typed'
  <2>1. PICK c \in DOMAIN Clips :
           Rewind(c) /\ IF Clips[c].present THEN Fault ELSE UNCHANGED faults
    BY <1>6 DEF SeekBackwardFails
  <2>2. UNCHANGED <<title, angle>> /\ damage' = "open" /\ file' = NoFile /\ Fail
    BY <1>6 DEF SeekBackwardFails
  <2>3. faults' \in 0..MaxFaults  BY <1>3, <2>1 DEF Fault
  <2>4. file' \in [clip : Nat, pos : Nat]  BY <2>2 DEF NoFile
  <2> QED  BY <2>1, <2>2, <2>3, <2>4, RewindTyped
<1>7. ASSUME NEW pts \in Nat, SeekTo(pts)  PROVE Typed'
  <2>1. UNCHANGED <<title, angle>> /\ Clips' = Clips /\ Total' = Total
    BY <1>7 DEF SeekTo, Clips, Total, Index
  <2>2. PICK c \in DOMAIN Clips :
         \/ \E k \in {0} \union {Clips[c].eps[e].spn : e \in DOMAIN Clips[c].eps} :
               PositionAt(Clips, c, Clamped(Clips[c], k), pts)
         \/ PositionFails(Clips, c) /\ UNCHANGED <<file, coff, pend, ppos, opos>>
    BY <1>7 DEF SeekTo
  <2>3. CASE \E k \in {0} \union {Clips[c].eps[e].spn : e \in DOMAIN Clips[c].eps} :
               PositionAt(Clips, c, Clamped(Clips[c], k), pts)
    <3>1. PICK k \in {0} \union {Clips[c].eps[e].spn : e \in DOMAIN Clips[c].eps} :
             PositionAt(Clips, c, Clamped(Clips[c], k), pts)
      BY <2>3
    <3>2. Clamped(Clips[c], k) \in 0..Clips[c].pkts  BY <1>2, TargetPacket
    <3> QED  BY <1>2, <1>3, <1>4, <2>1, <3>1, <3>2, PositionTyped
  <2>4. CASE PositionFails(Clips, c) /\ UNCHANGED <<file, coff, pend, ppos, opos>>
    <3>1. idx' = c /\ Fail /\ damage' = "open" /\ faults' \in 0..MaxFaults
      BY <1>3, <2>4 DEF PositionFails, Fault
    <3>2. /\ file \in [clip : Nat, pos : Nat]
          /\ file # NoFile => file.clip \in DOMAIN Clips
      BY <1>1 DEF TypeOK
    <3>3. c \in Nat \ {0} /\ c <= Len(Clips) + 1  BY <1>2 DEF LaidOut
    <3> QED  BY <1>1, <1>2, <2>1, <2>4, <3>1, <3>2, <3>3, FailTyped
  <2> QED  BY <2>2, <2>3, <2>4
<1>8. ASSUME NEW a \in Nat, NEW pts \in Nat, SwitchAngleAt(a, pts)  PROVE Typed'
  <2>1. angle' = a /\ title' = title /\ a + 1 \in DOMAIN title
    BY <1>8 DEF SwitchAngleAt
  <2>2. Clips' = Index(a).clips /\ LaidOut(Clips', Total')
    BY <1>4, <2>1, NextClipFacts DEF Clips, Index
  <2>3. PICK c \in DOMAIN Index(a).clips :
         \/ \E k \in {0} \union {Index(a).clips[c].eps[e].spn : e \in DOMAIN Index(a).clips[c].eps} :
               PositionAt(Index(a).clips, c, Clamped(Index(a).clips[c], k), pts)
         \/ /\ PositionFails(Index(a).clips, c)
            /\ file' = NoFile /\ coff' = 0 /\ pend' = NoBytes /\ ppos' = 0 /\ opos' = 0
    BY <1>8 DEF SwitchAngleAt
  <2>4. CASE \E k \in {0} \union {Clips'[c].eps[e].spn : e \in DOMAIN Clips'[c].eps} :
               PositionAt(Clips', c, Clamped(Clips'[c], k), pts)
    <3>1. PICK k \in {0} \union {Clips'[c].eps[e].spn : e \in DOMAIN Clips'[c].eps} :
             PositionAt(Clips', c, Clamped(Clips'[c], k), pts)
      BY <2>4
    <3>2. c \in DOMAIN Clips' /\ Clamped(Clips'[c], k) \in 0..Clips'[c].pkts
      BY <2>2, <2>3, TargetPacket
    <3> QED  BY <1>3, <1>4, <2>1, <2>2, <3>1, <3>2, PositionTyped
  <2>5. CASE /\ PositionFails(Clips', c)
             /\ file' = NoFile /\ coff' = 0 /\ pend' = NoBytes /\ ppos' = 0 /\ opos' = 0
    <3>1. idx' = c /\ Fail /\ damage' = "open" /\ faults' \in 0..MaxFaults
      BY <1>3, <2>5 DEF PositionFails, Fault
    <3>2. c \in Nat \ {0} /\ c <= Len(Clips') + 1 /\ Total' \in Nat
      BY <2>2, <2>3 DEF LaidOut
    <3>3. /\ call' \in [op : {"idle", "read", "seek", "land"}, goal : Nat, want : Nat]
          /\ last' \in [op : {"none", "bytes", "eof", "seek", "land", "error"},
                        at : Nat, n : Nat]
          /\ Ahead'
      BY <3>1, <3>2, ReturnTypes DEF Fail
    <3>4. pend' \in [clip : Nat, src : Nat, pkts : 0..UnitPkts, off : Nat] /\ pend'.pkts = 0
      BY <2>5, SizesAssumption DEF NoBytes
    <3>5. ppos' <= pend'.pkts * TsLen  BY <2>5, <3>4, PacketBytes
    <3>6. file' \in [clip : Nat, pos : Nat]  BY <2>5 DEF NoFile
    <3>7. TypeOK'  BY <1>4, <2>1, <2>5, <3>1, <3>2, <3>3, <3>4, <3>5, <3>6 DEF TypeOK
    <3> QED  BY <3>3, <3>7 DEF Typed
  <2> QED  BY <2>2, <2>3, <2>4, <2>5
<1> QED  BY <1>5, <1>6, <1>7, <1>8 DEF AnchoringCall

LEMMA TypedInit == Init => Typed
<1> SUFFICES ASSUME Init  PROVE Typed
  OBVIOUS
<1>1. title \in Titles /\ angle \in {a - 1 : a \in DOMAIN title}  BY DEF Init
<1>2. DOMAIN title = 1..Len(title) /\ Len(title) \in Nat
  BY <1>1, TitlesAssumption, LenProperties
<1>3. angle \in Nat /\ angle + 1 \in DOMAIN title  BY <1>1, <1>2
<1>4. LaidOut(Clips, Total)  BY <1>1, <1>3, IndexFacts DEF Clips, Total
<1>5. Len(Clips) \in Nat \ {0} /\ DOMAIN Clips = 1..Len(Clips)  BY <1>4 DEF LaidOut
<1>6. /\ idx = 1 /\ file = [clip |-> 1, pos |-> 0] /\ coff = 0 /\ pend = NoBytes
      /\ ppos = 0 /\ opos = 0 /\ call = Idle /\ last = NoResult
      /\ damage = "none" /\ faults = 0
  BY DEF Init
<1>7. pend \in [clip : Nat, src : Nat, pkts : 0..UnitPkts, off : Nat] /\ pend.pkts = 0
  BY <1>6, SizesAssumption DEF NoBytes
<1>8. ppos <= pend.pkts * TsLen  BY <1>6, <1>7, PacketBytes
<1>9. TypeOK
  BY <1>1, <1>3, <1>5, <1>6, <1>7, <1>8, SizesAssumption DEF TypeOK, Idle, NoResult, Result
<1>10. Ahead  BY <1>6 DEF Ahead, Running, Idle
<1> QED  BY <1>9, <1>10 DEF Typed

LEMMA TypedNext == Typed /\ [Next]_vars => Typed'
<1> SUFFICES ASSUME Typed, [Next]_vars  PROVE Typed'
  OBVIOUS
<1>1. CASE Next
  BY <1>1, NextCases, TypedRunning, TypedQuietCalls, TypedAnchoringCalls DEF Typed
<1>2. CASE UNCHANGED vars
  <2>1. Clips' = Clips /\ Total' = Total /\ UNCHANGED <<title, angle, idx, file, coff, pend, ppos, opos, call, last, damage, faults>>
    BY <1>2 DEF vars, stream, Clips, Total, Index
  <2> QED  BY <2>1 DEF Typed, TypeOK, Ahead, Running
<1> QED  BY <1>1, <1>2

\* The fields of a TitleSource keep their types, and a running call has its goal
\* ahead of it, whatever the title, the calls and the failures.
THEOREM TypesCorrect == Spec => []TypeOK
<1>1. Init => Typed  BY TypedInit
<1>2. Typed /\ [Next]_vars => Typed'  BY TypedNext
<1>3. Typed => TypeOK  BY DEF Typed
<1> QED  BY <1>1, <1>2, <1>3, PTL DEF Spec

-----------------------------------------------------------------------------
(* The cursors stay in step.                                               *)

\* A reader that has just been anchored is in step.
LEMMA FreshInStep ==
  ASSUME NEW c \in DOMAIN Clips', LaidOut(Clips', Total'), NEW u \in 0..Clips'[c].pkts,
         idx' = c, coff' = u, pend' = NoBytes, ppos' = 0, file' = [clip |-> c, pos |-> u],
         opos' = Clips'[c].start + u * TsLen
  PROVE  InStep'
<1>1. /\ c \in Nat \ {0} /\ u \in Nat /\ u <= Clips'[c].pkts /\ Clips'[c].start \in Nat
  BY DEF LaidOut
<1>2. u * TsLen \in Nat  BY <1>1, PacketBytes
<1>3. Left' = 0  BY PacketBytes DEF Left, NoBytes
<1>4. file' # NoFile /\ file'.clip = c /\ file'.pos = u  BY <1>1 DEF NoFile
<1> QED  BY <1>1, <1>2, <1>3, <1>4 DEF InStep, NoBytes

\* Bytes staged or delivered keep the reader in step.
LEMMA InStepRunning == Typed /\ InStep /\ Step => InStep'
<1> SUFFICES ASSUME Typed, InStep, Step, damage' = "none"  PROVE InStep'
  BY DEF InStep
<1>1. TypeOK /\ Ahead  BY DEF Typed
<1>2. UNCHANGED <<title, angle>> /\ Running
  BY DEF Step, EndOfStream, Deliver, StageUnit, NextClip, NextClipFails, ReadFails,
         DecryptFails, AtClipEnd, Refilling
<1>3. Clips' = Clips /\ Total' = Total /\ LaidOut(Clips, Total) /\ Total \in Nat
  BY <1>1, <1>2, ClipFacts DEF Clips, Total, Index, LaidOut
<1>4. /\ opos \in Nat /\ idx \in Nat \ {0} /\ coff \in Nat /\ ppos \in Nat
      /\ file \in [clip : Nat, pos : Nat]
      /\ pend \in [clip : Nat, src : Nat, pkts : 0..UnitPkts, off : Nat]
      /\ call.goal \in Nat /\ opos < call.goal
  BY <1>1, <1>2 DEF TypeOK, Ahead
<1>5. CASE EndOfStream
  <2>1. UNCHANGED <<title, angle, idx, file, coff, pend, ppos, opos, damage>>
    BY <1>5 DEF EndOfStream, stream
  <2>2. Left' = Left  BY <2>1 DEF Left
  <2> QED  BY <1>3, <2>1, <2>2 DEF InStep
<1>6. CASE Deliver
  <2>1. Left > 0 /\ Left \in Int  BY <1>1, <1>6, Counts DEF Deliver
  <2> DEFINE take == Lesser(Left, call.goal - opos)
  <2>2. take \in Nat \ {0} /\ take <= Left  BY <1>4, <2>1 DEF Lesser
  <2>3. /\ ppos' = ppos + take /\ opos' = opos + take
        /\ UNCHANGED <<idx, file, coff, pend, damage>>
    BY <1>6 DEF Deliver
  <2> HIDE DEF take
  <2>4. pend.pkts * TsLen \in Nat
    <3>1. pend.pkts \in Nat  BY <1>4, SizesAssumption
    <3> QED  BY <3>1, PacketBytes
  <2>5. Left' = Left - take  BY <1>4, <2>2, <2>3, <2>4 DEF Left
  <2>6. opos' + Left' = opos + Left  BY <1>4, <2>1, <2>2, <2>3, <2>5
  <2>7. file # NoFile /\ pend.clip = idx /\ pend.src + pend.pkts = file.pos
    BY <2>1, <2>3 DEF InStep
  <2> QED  BY <1>3, <2>1, <2>2, <2>3, <2>5, <2>6, <2>7 DEF InStep
<1>7. CASE StageUnit
  <2>1. /\ file # NoFile /\ Fillable > 0 /\ Left = 0
        /\ pend' = [clip |-> file.clip, src |-> file.pos, pkts |-> UnitFill, off |-> coff]
        /\ ppos' = 0 /\ file' = [file EXCEPT !.pos = file.pos + UnitFill]
        /\ coff' = coff + UnitFill /\ UNCHANGED <<idx, opos, damage>>
    BY <1>7 DEF StageUnit, Refilling
  <2>2. /\ UnitFill \in Nat \ {0} /\ UnitFill <= Fillable /\ Fillable \in Int
        /\ file.clip \in DOMAIN Clips
    BY <1>1, <2>1, Counts, SizesAssumption
  <2>3. /\ file.clip = idx /\ coff = file.pos
        /\ opos = Clips[idx].start + file.pos * TsLen
    <3>1. opos + Left = Clips[idx].start + file.pos * TsLen /\ file.clip = idx /\ coff = file.pos
      BY <2>1 DEF InStep
    <3> QED  BY <1>4, <2>1, <3>1
  <2>4. file.pos + UnitFill <= Clips[idx].pkts
    <3>1. Clips[idx].pkts \in Nat  BY <1>3, <2>2, <2>3 DEF LaidOut
    <3> QED  BY <1>4, <2>2, <2>3, <3>1 DEF Fillable
  <2>5. Left' = UnitFill * TsLen /\ UnitFill * TsLen \in Nat
    BY <2>1, <2>2, PacketBytes DEF Left
  <2>6. opos' + Left' = Clips[idx].start + (file.pos + UnitFill) * TsLen
    <3>1. (file.pos + UnitFill) * TsLen = file.pos * TsLen + UnitFill * TsLen
      BY <1>4, <2>2, PacketBytes
    <3>2. file.pos * TsLen \in Nat /\ Clips[idx].start \in Nat
      BY <1>3, <1>4, <2>2, <2>3, PacketBytes DEF LaidOut
    <3> QED  BY <2>1, <2>3, <2>5, <3>1, <3>2
  <2>7. file'.clip = idx /\ file'.pos = file.pos + UnitFill /\ file' # NoFile
    BY <1>4, <2>1, <2>2, <2>3 DEF NoFile
  <2>8. /\ pend'.off = pend'.src /\ pend'.clip = idx /\ pend'.src + pend'.pkts = file'.pos
    BY <2>1, <2>3, <2>7
  <2> QED  BY <1>3, <2>1, <2>3, <2>4, <2>6, <2>7, <2>8 DEF InStep
<1>8. CASE NextClip
  <2>1. /\ idx' = idx + 1 /\ file # NoFile /\ Fillable <= 0 /\ Left = 0
        /\ UNCHANGED <<title, angle, pend, ppos, opos, damage>>
    BY <1>8 DEF NextClip, AtClipEnd, Refilling, Following
  <2>2. /\ idx \in DOMAIN Clips /\ DOMAIN Clips = 1..Len(Clips) /\ Len(Clips) \in Nat
        /\ idx \in Nat /\ 1 <= idx /\ idx <= Len(Clips)
    BY <1>1, <1>3, <2>1 DEF TypeOK, LaidOut
  <2>3. file.clip = idx /\ file.pos = Clips[idx].pkts
        /\ opos = Clips[idx].start + Clips[idx].pkts * TsLen
    <3>1. file.clip = idx /\ file.pos <= Clips[idx].pkts
          /\ opos + Left = Clips[idx].start + file.pos * TsLen
      BY <2>1 DEF InStep
    <3>2. Clips[idx].pkts \in Nat /\ Clips[idx].start \in Nat  BY <1>3, <2>2 DEF LaidOut
    <3>3. file.pos = Clips[idx].pkts  BY <1>4, <2>1, <3>1, <3>2 DEF Fillable
    <3> QED  BY <1>4, <2>1, <3>1, <3>2, <3>3
  <2>4. opos = IF idx = Len(Clips) THEN Total ELSE Clips[idx + 1].start
    BY <1>3, <2>2, <2>3 DEF LaidOut
  <2>5. Left' = 0  BY <2>1 DEF Left
  <2>6. CASE idx' <= Len(Clips)
    <3>1. file' = [clip |-> idx', pos |-> 0] /\ coff' = 0  BY <1>8, <2>6 DEF NextClip
    <3>2. idx' \in DOMAIN Clips /\ idx # Len(Clips)  BY <2>1, <2>2, <2>6
    <3>3. opos' = Clips[idx'].start /\ Clips[idx'].start \in Nat /\ 0 <= Clips[idx'].pkts
      BY <1>3, <2>1, <2>4, <3>2 DEF LaidOut
    <3>4. file' # NoFile /\ file'.clip = idx' /\ file'.pos = 0
      BY <1>4, <2>1, <3>1 DEF NoFile
    <3>5. opos' + Left' = Clips[idx'].start + file'.pos * TsLen
      BY <1>4, <2>5, <3>3, <3>4, PacketBytes
    <3> QED  BY <1>3, <2>1, <2>5, <3>1, <3>3, <3>4, <3>5 DEF InStep
  <2>7. CASE ~(idx' <= Len(Clips))
    <3>1. file' = NoFile  BY <1>8, <2>7 DEF NextClip
    <3>2. idx = Len(Clips) /\ idx' = Len(Clips) + 1  BY <2>1, <2>2, <2>7
    <3>3. opos' = Total'  BY <1>3, <2>1, <2>4, <3>2
    <3> QED  BY <1>3, <2>1, <2>5, <3>1, <3>2, <3>3 DEF InStep
  <2> QED  BY <2>6, <2>7
<1>9. CASE NextClipFails \/ DecryptFails
  BY <1>9 DEF NextClipFails, DecryptFails
<1>10. CASE ReadFails
  <2>1. PICK lost \in 0..(UnitPkts - 1) :
           /\ file' = [file EXCEPT !.pos = file.pos + lost]
           /\ damage' = IF lost > 0 THEN "read" ELSE damage
    BY <1>10 DEF ReadFails
  <2>2. UNCHANGED <<title, angle, idx, coff, pend, ppos, opos>>
    BY <1>10 DEF ReadFails
  <2>3. UnitPkts \in Nat  BY SizesAssumption
  <2>4. lost = 0 /\ damage = "none"  BY <2>1, <2>3
  <2>5. file' = file  BY <1>4, <2>1, <2>4
  <2>6. Left' = Left  BY <2>2 DEF Left
  <2> QED  BY <1>3, <2>2, <2>4, <2>5, <2>6 DEF InStep
<1> QED  BY <1>5, <1>6, <1>7, <1>8, <1>9, <1>10 DEF Step

LEMMA InStepQuiet ==
  ASSUME InStep, UNCHANGED <<title, angle, stream, damage>>
  PROVE  InStep'
<1>1. Clips' = Clips /\ Total' = Total /\ Left' = Left
      /\ UNCHANGED <<idx, file, coff, pend, ppos, opos, damage>>
  BY DEF Clips, Total, Index, Left, stream
<1> QED  BY <1>1 DEF InStep

\* A seek, a keyframe seek and an angle switch anchor the reader in step, or
\* fail and leave it out of use.
LEMMA InStepAnchoring == Typed /\ AnchoringCall => InStep'
<1> SUFFICES ASSUME Typed, AnchoringCall, damage' = "none"  PROVE InStep'
  BY DEF InStep
<1>1. TypeOK  BY DEF Typed
<1>2. LaidOut(Clips, Total)  BY <1>1, ClipFacts
<1>3. title \in Titles /\ angle \in Nat /\ angle + 1 \in DOMAIN title  BY <1>1 DEF TypeOK
<1>4. ASSUME LaidOut(Clips', Total'), NEW c \in DOMAIN Clips', NEW p \in 0..Clips'[c].pkts,
             NEW pts \in Nat, PositionAt(Clips', c, p, pts)
      PROVE  InStep'
  <2>1. UnitStart(p) \in 0..p  BY <1>4, AnchorBytes
  <2>2. UnitStart(p) \in 0..Clips'[c].pkts  BY <1>4, <2>1 DEF LaidOut
  <2> QED  BY <1>4, <2>2, FreshInStep DEF PositionAt
<1>5. ASSUME NEW to \in Nat, SeekBackward(to)  PROVE InStep'
  <2>1. PICK c \in DOMAIN Clips : Rewind(c) /\ file' = [clip |-> c, pos |-> 0]
    BY <1>5 DEF SeekBackward
  <2>2. Clips' = Clips /\ Total' = Total  BY <1>5 DEF SeekBackward, Clips, Total, Index
  <2>3. 0 \in 0..Clips[c].pkts /\ Clips[c].start \in Nat  BY <1>2 DEF LaidOut
  <2>4. opos' = Clips[c].start + 0 * TsLen  BY <2>1, <2>3, PacketBytes DEF Rewind
  <2> QED  BY <1>2, <2>1, <2>2, <2>3, <2>4, FreshInStep DEF Rewind
<1>6. ASSUME NEW to \in Nat, SeekBackwardFails(to)  PROVE InStep'
  BY <1>6 DEF SeekBackwardFails
<1>7. ASSUME NEW pts \in Nat, SeekTo(pts)  PROVE InStep'
  <2>1. Clips' = Clips /\ Total' = Total  BY <1>7 DEF SeekTo, Clips, Total, Index
  <2>2. PICK c \in DOMAIN Clips :
         \/ \E k \in {0} \union {Clips[c].eps[e].spn : e \in DOMAIN Clips[c].eps} :
               PositionAt(Clips, c, Clamped(Clips[c], k), pts)
         \/ PositionFails(Clips, c)
    BY <1>7 DEF SeekTo
  <2>3. PICK k \in {0} \union {Clips[c].eps[e].spn : e \in DOMAIN Clips[c].eps} :
           PositionAt(Clips, c, Clamped(Clips[c], k), pts)
    BY <2>2 DEF PositionFails
  <2>4. Clamped(Clips[c], k) \in 0..Clips[c].pkts  BY <1>2, TargetPacket
  <2> QED  BY <1>2, <1>4, <2>1, <2>3, <2>4
<1>8. ASSUME NEW a \in Nat, NEW pts \in Nat, SwitchAngleAt(a, pts)  PROVE InStep'
  <2>1. angle' = a /\ title' = title /\ a + 1 \in DOMAIN title  BY <1>8 DEF SwitchAngleAt
  <2>2. Clips' = Index(a).clips /\ LaidOut(Clips', Total')
    BY <1>3, <2>1, NextClipFacts DEF Clips, Index
  <2>3. PICK c \in DOMAIN Clips' :
         \/ \E k \in {0} \union {Clips'[c].eps[e].spn : e \in DOMAIN Clips'[c].eps} :
               PositionAt(Clips', c, Clamped(Clips'[c], k), pts)
         \/ PositionFails(Clips', c)
    BY <1>8, <2>2 DEF SwitchAngleAt
  <2>4. PICK k \in {0} \union {Clips'[c].eps[e].spn : e \in DOMAIN Clips'[c].eps} :
           PositionAt(Clips', c, Clamped(Clips'[c], k), pts)
    BY <2>3 DEF PositionFails
  <2>5. Clamped(Clips'[c], k) \in 0..Clips'[c].pkts  BY <2>2, TargetPacket
  <2> QED  BY <1>4, <2>2, <2>4, <2>5
<1> QED  BY <1>5, <1>6, <1>7, <1>8 DEF AnchoringCall

LEMMA InStepInit == Init /\ Typed => InStep
<1> SUFFICES ASSUME Init, Typed  PROVE InStep
  OBVIOUS
<1>1. LaidOut(Clips, Total)  BY ClipFacts DEF Typed
<1>2. Clips[1].start = 0 /\ Clips[1].pkts \in Nat  BY <1>1 DEF LaidOut
<1>3. /\ idx = 1 /\ file = [clip |-> 1, pos |-> 0] /\ coff = 0 /\ pend = NoBytes
      /\ ppos = 0 /\ opos = 0
  BY DEF Init
<1>4. Left = 0  BY <1>3, PacketBytes DEF Left, NoBytes
<1>5. file # NoFile /\ file.clip = 1 /\ file.pos = 0  BY <1>3 DEF NoFile
<1>6. opos + Left = Clips[idx].start + file.pos * TsLen
  BY <1>2, <1>3, <1>4, <1>5, PacketBytes
<1> QED  BY <1>2, <1>3, <1>4, <1>5, <1>6 DEF InStep

LEMMA InStepNext == Typed /\ InStep /\ [Next]_vars => InStep'
<1> SUFFICES ASSUME Typed, InStep, [Next]_vars  PROVE InStep'
  OBVIOUS
<1>1. CASE Next
  <2>1. Step \/ QuietCall \/ AnchoringCall  BY <1>1, NextCases DEF Typed
  <2>2. QuietCall => UNCHANGED <<title, angle, stream, damage>>
    BY DEF QuietCall, QuietFailure, ReadCall, SeekForward
  <2> QED  BY <2>1, <2>2, InStepRunning, InStepQuiet, InStepAnchoring
<1>2. CASE UNCHANGED vars  BY <1>2, InStepQuiet DEF vars
<1> QED  BY <1>1, <1>2

\* Until an error intervenes, the file, clip_offset and output_pos describe one
\* and the same place of the title, whatever clips it has and however reads,
\* seeks, keyframe seeks and angle switches follow one another.
THEOREM CursorsInStep == Spec => []InStep
<1>1. Init => Typed /\ InStep  BY TypedInit, InStepInit
<1>2. (Typed /\ InStep) /\ [Next]_vars => (Typed /\ InStep)'
  BY TypedNext, InStepNext
<1> QED  BY <1>1, <1>2, PTL DEF Spec

-----------------------------------------------------------------------------
(* What the calls return.                                                  *)

Outcome == BytesAtCursor /\ EofAtEnd /\ SeekExact

LEMMA NoOutcome == last'.op \in {"none", "error", "land"} => Outcome'
BY DEF Outcome, BytesAtCursor, EofAtEnd, SeekExact

\* A reader in step is within the title.
LEMMA WithinTitle ==
  ASSUME Typed, InStep, damage = "none"
  PROVE  opos \in Nat /\ opos <= Total /\ Total \in Nat
<1>1. LaidOut(Clips, Total) /\ TypeOK  BY ClipFacts DEF Typed
<1>2. opos \in Nat /\ Total \in Nat  BY <1>1 DEF TypeOK, LaidOut
<1>3. CASE file = NoFile  BY <1>2, <1>3 DEF InStep
<1>4. CASE file # NoFile
  <2>1. /\ idx \in DOMAIN Clips /\ file.pos \in Nat /\ file.pos <= Clips[idx].pkts
        /\ opos + Left = Clips[idx].start + file.pos * TsLen
    BY <1>1, <1>4 DEF TypeOK, InStep
  <2>2. /\ Clips[idx].pkts \in Nat /\ Clips[idx].start \in Nat
        /\ Clips[idx].start + Clips[idx].pkts * TsLen <= Total
    BY <1>1, <2>1 DEF LaidOut
  <2>3. /\ file.pos * TsLen \in Nat /\ Clips[idx].pkts * TsLen \in Nat
        /\ file.pos * TsLen <= Clips[idx].pkts * TsLen
    BY <2>1, <2>2, PacketBytes
  <2>4. Left \in Int /\ Left >= 0
    <3>1. pend.pkts \in Nat /\ ppos \in Nat /\ ppos <= pend.pkts * TsLen
      BY <1>1, SizesAssumption DEF TypeOK
    <3>2. pend.pkts * TsLen \in Nat  BY <3>1, PacketBytes
    <3> QED  BY <3>1, <3>2 DEF Left
  <2> QED  BY <1>2, <2>1, <2>2, <2>3, <2>4
<1> QED  BY <1>2, <1>3, <1>4

\* The next pending byte is the title's byte at the cursor.
LEMMA OriginAtCursor ==
  ASSUME Typed, InStep, damage = "none", Left > 0
  PROVE  Origin = opos
<1>1. LaidOut(Clips, Total) /\ TypeOK  BY ClipFacts DEF Typed
<1>2. /\ file # NoFile /\ pend.clip = idx /\ pend.src + pend.pkts = file.pos
      /\ opos + Left = Clips[idx].start + file.pos * TsLen
  BY DEF InStep
<1>3. idx \in DOMAIN Clips /\ opos \in Nat /\ ppos \in Nat /\ pend.src \in Nat /\ pend.pkts \in Nat
  BY <1>1, <1>2, SizesAssumption DEF TypeOK
<1>4. Clips[idx].start \in Nat  BY <1>1, <1>3 DEF LaidOut
<1>5. /\ (pend.src + pend.pkts) * TsLen = pend.src * TsLen + pend.pkts * TsLen
      /\ pend.src * TsLen \in Nat /\ pend.pkts * TsLen \in Nat
  BY <1>3, PacketBytes
<1> QED  BY <1>2, <1>3, <1>4, <1>5 DEF Left, Origin

LEMMA OutcomeRunning == Typed /\ InStep /\ Step => Outcome'
<1> SUFFICES ASSUME Typed, InStep, Step  PROVE Outcome'
  OBVIOUS
<1>1. TypeOK /\ Ahead  BY DEF Typed
<1>2. UNCHANGED <<title, angle>> /\ Running
  BY DEF Step, EndOfStream, Deliver, StageUnit, NextClip, NextClipFails, ReadFails,
         DecryptFails, AtClipEnd, Refilling
<1>3. Clips' = Clips /\ Total' = Total  BY <1>2 DEF Clips, Total, Index
<1>4. /\ last = NoResult /\ opos < call.goal /\ call.goal \in Nat /\ opos \in Nat
      /\ call.op \in {"read", "seek", "land"}
      /\ call.op = "seek" => call.goal = Lesser(call.want, Total) /\ call.goal <= Total
  BY <1>1, <1>2 DEF Ahead, TypeOK, Running
<1>5. CASE EndOfStream
  <2>1. UNCHANGED <<opos, damage>>  BY <1>5 DEF EndOfStream, stream
  <2>2. damage = "none" => opos = Total
    <3>1. SUFFICES ASSUME damage = "none"  PROVE opos = Total
      OBVIOUS
    <3>2. opos \in Nat /\ opos <= Total /\ Total \in Nat  BY <3>1, WithinTitle
    <3>3. ~UnderCap \/ file = NoFile  BY <1>5 DEF EndOfStream, Exhausted
    <3> QED  BY <3>1, <3>2, <3>3 DEF UnderCap, InStep
  <2>3. CASE call.op = "read"
    <3>1. last' = Result("eof", opos, 0)  BY <1>5, <2>3 DEF EndOfStream, Return
    <3> QED  BY <1>3, <2>1, <2>2, <3>1
      DEF Outcome, BytesAtCursor, EofAtEnd, SeekExact, Result
  <2>4. CASE call.op = "seek"
    <3>1. damage # "none"  BY <1>4, <2>2, <2>4
    <3> QED  BY <2>1, <3>1 DEF Outcome, BytesAtCursor, EofAtEnd, SeekExact
  <2>5. CASE call.op = "land"
    <3>1. last' = Result("land", call.want, opos)  BY <1>5, <2>5 DEF EndOfStream, Return
    <3> QED  BY <3>1, NoOutcome DEF Result
  <2> QED  BY <1>4, <2>3, <2>4, <2>5
<1>6. CASE Deliver
  <2> DEFINE take == Lesser(Left, call.goal - opos)
  <2>1. Left > 0 /\ opos' = opos + take /\ damage' = damage  BY <1>6 DEF Deliver
  <2>2. CASE call.op = "read"
    <3>1. last' = Result("bytes", Origin, take)  BY <1>6, <2>2 DEF Deliver, Return
    <3>2. damage = "none" => Origin = opos  BY <2>1, OriginAtCursor
    <3> HIDE DEF take
    <3> QED  BY <2>1, <3>1, <3>2 DEF Outcome, BytesAtCursor, EofAtEnd, SeekExact, Result
  <2>3. CASE call.op = "seek"
    <3>1. last' = NoResult \/ last' = Result("seek", call.want, call.goal)
      BY <1>4, <1>6, <2>3 DEF Deliver, Return
    <3> QED  BY <1>3, <1>4, <2>3, <3>1
      DEF Outcome, BytesAtCursor, EofAtEnd, SeekExact, Result, NoResult
  <2>4. CASE call.op = "land"
    <3>1. last'.op \in {"none", "land"}
      BY <1>4, <1>6, <2>4 DEF Deliver, Return, Result, NoResult
    <3> QED  BY <3>1, NoOutcome
  <2> QED  BY <1>4, <2>2, <2>3, <2>4
<1>7. CASE StageUnit \/ NextClip
  <2>1. last' = NoResult  BY <1>4, <1>7 DEF StageUnit, NextClip
  <2> QED  BY <2>1, NoOutcome DEF NoResult, Result
<1>8. CASE NextClipFails \/ ReadFails \/ DecryptFails
  <2>1. last' = Result("error", 0, 0)
    BY <1>8 DEF NextClipFails, ReadFails, DecryptFails, Fail, Return
  <2> QED  BY <2>1, NoOutcome DEF Result
<1> QED  BY <1>5, <1>6, <1>7, <1>8 DEF Step

\* A skip that is over at once ends where the seek was to end.
LEMMA SkipOutcome ==
  ASSUME NEW from \in Nat, NEW to \in Nat, Total \in Nat, Total' = Total,
         damage' = "none" => from <= to /\ from <= Total,
         Discard("seek", from, Lesser(to, Total), to)
  PROVE  Outcome'
<1>1. CASE from < Lesser(to, Total)
  BY <1>1, NoOutcome DEF Discard, Start, NoResult, Result
<1>2. CASE ~(from < Lesser(to, Total))
  <2>1. last' = Result("seek", to, from)  BY <1>2 DEF Discard, Return
  <2>2. damage' = "none" => from = Lesser(to, Total)  BY <1>2 DEF Lesser
  <2> QED  BY <2>1, <2>2 DEF Outcome, BytesAtCursor, EofAtEnd, SeekExact, Result
<1> QED  BY <1>1, <1>2

LEMMA OutcomeCalls == Typed /\ InStep /\ (QuietCall \/ AnchoringCall) => Outcome'
<1> SUFFICES ASSUME Typed, InStep, QuietCall \/ AnchoringCall  PROVE Outcome'
  OBVIOUS
<1>1. TypeOK /\ LaidOut(Clips, Total) /\ Total \in Nat /\ opos \in Nat
  BY ClipFacts DEF Typed, LaidOut, TypeOK
<1>2. ASSUME NEW n \in Nat \ {0}, ReadCall(n)  PROVE Outcome'
  BY <1>2, NoOutcome DEF ReadCall, Start, NoResult, Result
<1>3. ASSUME NEW to \in Nat, SeekForward(to)  PROVE Outcome'
  <2>1. Total' = Total /\ damage' = damage  BY <1>3 DEF SeekForward, Total, Index
  <2>2. damage' = "none" => opos <= to /\ opos <= Total
    BY <1>3, <2>1, WithinTitle DEF SeekForward
  <2>3. CASE to = opos
    <3>1. last' = Result("seek", to, to)  BY <1>3, <2>3 DEF SeekForward, Return
    <3>2. damage' = "none" => to = Lesser(to, Total)  BY <2>2, <2>3 DEF Lesser
    <3> QED  BY <2>1, <3>1, <3>2 DEF Outcome, BytesAtCursor, EofAtEnd, SeekExact, Result
  <2>4. CASE to # opos
    <3>1. Discard("seek", opos, Lesser(to, Total), to)  BY <1>3, <2>4 DEF SeekForward
    <3> QED  BY <1>1, <2>1, <2>2, <3>1, SkipOutcome
  <2> QED  BY <2>3, <2>4
<1>4. CASE QuietFailure
  BY <1>4, NoOutcome DEF QuietFailure, Fail, Return, Result
<1>5. ASSUME NEW to \in Nat, SeekBackward(to)  PROVE Outcome'
  <2>1. Total' = Total /\ to < opos  BY <1>5 DEF SeekBackward, Total, Index
  <2>2. PICK c \in DOMAIN Clips :
           IsClipAt(Clips, c, to) /\ Discard("seek", Clips[c].start, Lesser(to, Total), to)
    BY <1>5 DEF SeekBackward
  <2>3. Clips[c].start \in Nat /\ Clips[c].start <= Total /\ Clips[c].start <= to
    BY <1>1, <2>2 DEF LaidOut, IsClipAt
  <2> QED  BY <1>1, <2>1, <2>2, <2>3, SkipOutcome
<1>6. ASSUME NEW to \in Nat, SeekBackwardFails(to)  PROVE Outcome'
  BY <1>6, NoOutcome DEF SeekBackwardFails, Fail, Return, Result
<1>7. ASSUME NEW clips, NEW c, NEW p, NEW pts, PositionAt(clips, c, p, pts)  PROVE Outcome'
  BY <1>7, NoOutcome DEF PositionAt, Discard, Start, Return, NoResult, Result
<1>8. ASSUME NEW clips, NEW c, PositionFails(clips, c)  PROVE Outcome'
  BY <1>8, NoOutcome DEF PositionFails, Fail, Return, Result
<1>9. ASSUME NEW pts \in Nat, SeekTo(pts)  PROVE Outcome'
  BY <1>7, <1>8, <1>9 DEF SeekTo
<1>10. ASSUME NEW a \in Nat, NEW pts \in Nat, SwitchAngleAt(a, pts)  PROVE Outcome'
  BY <1>7, <1>8, <1>10 DEF SwitchAngleAt
<1> QED  BY <1>2, <1>3, <1>4, <1>5, <1>6, <1>9, <1>10 DEF QuietCall, AnchoringCall

LEMMA OutcomeNext == Typed /\ InStep /\ Outcome /\ [Next]_vars => Outcome'
<1>1. Typed /\ InStep /\ Next => Outcome'
  BY NextCases, OutcomeRunning, OutcomeCalls DEF Typed
<1>2. Outcome /\ UNCHANGED vars => Outcome'
  BY DEF Outcome, BytesAtCursor, EofAtEnd, SeekExact, vars, stream, Total, Index
<1> QED  BY <1>1, <1>2

LEMMA Outcomes == Spec => [](BytesAtCursor /\ EofAtEnd /\ SeekExact)
<1>1. Init => Typed /\ InStep /\ Outcome
  <2>1. Init => Outcome
    BY DEF Init, Outcome, BytesAtCursor, EofAtEnd, SeekExact, NoResult, Result
  <2> QED  BY <2>1, TypedInit, InStepInit
<1>2. (Typed /\ InStep /\ Outcome) /\ [Next]_vars => (Typed /\ InStep /\ Outcome)'
  BY TypedNext, InStepNext, OutcomeNext
<1>3. Outcome => BytesAtCursor /\ EofAtEnd /\ SeekExact  BY DEF Outcome
<1> QED  BY <1>1, <1>2, <1>3, PTL DEF Spec

\* Before an error, a read() hands out the bytes at the reader's position, and
\* says that the title is over only when its last byte has been handed out.
THEOREM ReadsAreExact == Spec => []ReadsExact
BY Outcomes, PTL DEF ReadsExact

\* A seek that succeeds leaves the reader at the byte asked for, or at the end.
THEOREM SeeksAreExact == Spec => []SeekExact
BY Outcomes, PTL

-----------------------------------------------------------------------------
(* The byte cap and the decryption units hold even after errors.           *)

\* A partial unit ends its clip, so a file that has packets left is told a
\* clip_offset on a unit boundary.
Aligned ==
  /\ UnitAligned
  /\ file # NoFile /\ Fillable > 0 => coff % UnitPkts = 0

Guarded == CapHolds /\ Aligned

LEMMA GuardedRunning == Typed /\ Guarded /\ Step => Guarded'
<1> SUFFICES ASSUME Typed, Guarded, Step  PROVE Guarded'
  OBVIOUS
<1>1. TypeOK /\ Ahead /\ CapHolds /\ Aligned  BY DEF Typed, Guarded
<1>2. UNCHANGED <<title, angle>> /\ Running
  BY DEF Step, EndOfStream, Deliver, StageUnit, NextClip, NextClipFails, ReadFails,
         DecryptFails, AtClipEnd, Refilling
<1>3. Clips' = Clips /\ Total' = Total /\ LaidOut(Clips, Total) /\ Total \in Nat
  BY <1>1, <1>2, ClipFacts DEF Clips, Total, Index, LaidOut
<1>4. opos \in Nat /\ call.goal \in Nat /\ opos < call.goal /\ coff \in Nat
      /\ file \in [clip : Nat, pos : Nat]
  BY <1>1, <1>2 DEF Ahead, TypeOK
<1>5. CASE EndOfStream
  <2>1. UNCHANGED <<file, coff, pend, opos>>  BY <1>5 DEF EndOfStream, stream
  <2> QED  BY <1>1, <1>3, <2>1 DEF Guarded, CapHolds, Aligned, UnitAligned, Fillable
<1>6. CASE Deliver
  <2> DEFINE take == Lesser(Left, call.goal - opos)
  <2>1. Left > 0 /\ opos < Total /\ opos' = opos + take /\ UNCHANGED <<file, coff, pend>>
    BY <1>6 DEF Deliver, UnderCap
  <2>2. Left \in Int /\ Left <= UnitPkts * TsLen /\ UnitPkts * TsLen \in Nat
    BY <1>1, Counts
  <2>3. take \in Int /\ take <= Left  BY <1>4, <2>2 DEF Lesser
  <2> HIDE DEF take
  <2>4. opos' < Total + UnitPkts * TsLen  BY <1>3, <1>4, <2>1, <2>2, <2>3
  <2> QED  BY <1>1, <1>3, <2>1, <2>4 DEF Guarded, CapHolds, Aligned, UnitAligned, Fillable
<1>7. CASE StageUnit
  <2>1. /\ file # NoFile /\ Fillable > 0 /\ opos' = opos
        /\ pend' = [clip |-> file.clip, src |-> file.pos, pkts |-> UnitFill, off |-> coff]
        /\ file' = [file EXCEPT !.pos = file.pos + UnitFill] /\ coff' = coff + UnitFill
    BY <1>7 DEF StageUnit
  <2>2. /\ UnitFill \in Nat \ {0} /\ Fillable \in Int /\ file.clip \in DOMAIN Clips
        /\ UnitFill = UnitPkts \/ UnitFill = Fillable
    BY <1>1, <2>1, Counts, SizesAssumption DEF UnitFill, Lesser
  <2>3. Clips[file.clip].pkts \in Nat  BY <1>3, <2>2 DEF LaidOut
  <2>4. Fillable' = Fillable - UnitFill
    <3>1. file'.clip = file.clip /\ file'.pos = file.pos + UnitFill  BY <1>4, <2>1
    <3> QED  BY <1>3, <1>4, <2>2, <2>3, <3>1 DEF Fillable
  <2>5. coff % UnitPkts = 0  BY <1>1, <2>1 DEF Aligned
  <2>6. Fillable' > 0 => coff' = coff + UnitPkts  BY <2>1, <2>2, <2>4
  <2>7. (coff + UnitPkts) % UnitPkts = 0  BY <1>4, <2>5, UnitBoundary
  <2>8. Aligned'  BY <2>1, <2>5, <2>6, <2>7 DEF Aligned, UnitAligned
  <2>9. CapHolds'  BY <1>1, <1>3, <2>1 DEF CapHolds
  <2> QED  BY <2>8, <2>9 DEF Guarded
<1>8. CASE NextClip
  <2>1. UNCHANGED <<pend, opos>> /\ (file' # NoFile => coff' = 0)
    BY <1>8 DEF NextClip
  <2>2. Aligned'  BY <1>1, <2>1, UnitBoundary DEF Aligned, UnitAligned
  <2>3. CapHolds'  BY <1>1, <1>3, <2>1 DEF CapHolds
  <2> QED  BY <2>2, <2>3 DEF Guarded
<1>9. CASE NextClipFails
  <2>1. UNCHANGED <<pend, opos>> /\ file' = NoFile  BY <1>9 DEF NextClipFails
  <2> QED  BY <1>1, <1>3, <2>1 DEF Guarded, CapHolds, Aligned, UnitAligned
<1>10. CASE ReadFails \/ DecryptFails
  <2>1. file # NoFile /\ UNCHANGED <<coff, pend, opos>>
    BY <1>10 DEF ReadFails, DecryptFails
  <2>2. file.clip \in DOMAIN Clips /\ UnitPkts \in Nat \ {0}
    BY <1>1, <2>1, Counts, SizesAssumption
  <2>3. PICK lost \in Nat : file' = [file EXCEPT !.pos = file.pos + lost]
    <3>1. CASE ReadFails  BY <2>2, <3>1 DEF ReadFails
    <3>2. CASE DecryptFails
      <4>1. Fillable > 0  BY <3>2 DEF DecryptFails
      <4>2. UnitFill \in Nat  BY <1>1, <2>1, <2>2, <4>1, Counts
      <4> QED  BY <3>2, <4>2 DEF DecryptFails
    <3> QED  BY <1>10, <3>1, <3>2
  <2>4. Clips[file.clip].pkts \in Nat  BY <1>3, <2>2 DEF LaidOut
  <2>5. file'.clip = file.clip /\ file'.pos = file.pos + lost  BY <1>4, <2>3
  <2>6. Fillable' > 0 => Fillable > 0
    BY <1>3, <1>4, <2>3, <2>4, <2>5 DEF Fillable
  <2> QED  BY <1>1, <1>3, <2>1, <2>6 DEF Guarded, CapHolds, Aligned, UnitAligned
<1> QED  BY <1>5, <1>6, <1>7, <1>8, <1>9, <1>10 DEF Step

\* An anchor is within the title and nothing is pending; the file, if it could
\* be opened, is at a unit boundary.
LEMMA AnchorGuarded ==
  ASSUME LaidOut(Clips', Total'), opos' \in Nat, opos' <= Total', pend' = NoBytes,
         file' # NoFile => coff' % UnitPkts = 0
  PROVE  Guarded'
<1>1. UnitPkts * TsLen \in Nat \ {0} /\ UnitPkts # 0
  BY SizesAssumption, PacketBytes
<1>2. opos' < Total' + UnitPkts * TsLen  BY <1>1 DEF LaidOut
<1> QED  BY <1>1, <1>2 DEF Guarded, CapHolds, Aligned, UnitAligned, NoBytes

LEMMA GuardedAnchoring == Typed /\ Guarded /\ AnchoringCall => Guarded'
<1> SUFFICES ASSUME Typed, Guarded, AnchoringCall  PROVE Guarded'
  OBVIOUS
<1>1. TypeOK /\ LaidOut(Clips, Total)  BY ClipFacts DEF Typed
<1>2. title \in Titles /\ angle \in Nat /\ angle + 1 \in DOMAIN title  BY <1>1 DEF TypeOK
<1>3. ASSUME LaidOut(Clips', Total'), NEW c \in DOMAIN Clips', NEW p \in 0..Clips'[c].pkts,
             NEW pts \in Nat, PositionAt(Clips', c, p, pts)
      PROVE  Guarded'
  <2>1. /\ opos' = Clips'[c].start + UnitStart(p) * TsLen /\ pend' = NoBytes
        /\ coff' = UnitStart(p)
    BY <1>3 DEF PositionAt
  <2>2. opos' \in Nat /\ opos' <= Total'
    <3>1. /\ Clips'[c].start + UnitStart(p) * TsLen \in Nat
          /\ Clips'[c].start + p * TsLen \in 0..Total'
          /\ Clips'[c].start + UnitStart(p) * TsLen <= Clips'[c].start + p * TsLen
      BY <1>3, AnchorBytes
    <3>2. Total' \in Nat  BY <1>3 DEF LaidOut
    <3> QED  BY <2>1, <3>1, <3>2
  <2>3. p \in Nat  BY <1>3 DEF LaidOut
  <2> QED  BY <1>3, <2>1, <2>2, <2>3, UnitBoundary, AnchorGuarded
<1>4. ASSUME NEW to \in Nat, SeekBackward(to) \/ SeekBackwardFails(to)  PROVE Guarded'
  <2>1. PICK c \in DOMAIN Clips : Rewind(c)  BY <1>4 DEF SeekBackward, SeekBackwardFails
  <2>2. Clips' = Clips /\ Total' = Total
    BY <1>4 DEF SeekBackward, SeekBackwardFails, Clips, Total, Index
  <2>3. Clips[c].start \in Nat /\ Clips[c].start <= Total  BY <1>1, <2>1 DEF LaidOut
  <2> QED  BY <1>1, <2>1, <2>2, <2>3, UnitBoundary, AnchorGuarded DEF Rewind
<1>5. ASSUME NEW pts \in Nat, SeekTo(pts)  PROVE Guarded'
  <2>1. Clips' = Clips /\ Total' = Total  BY <1>5 DEF SeekTo, Clips, Total, Index
  <2>2. PICK c \in DOMAIN Clips :
         \/ \E k \in {0} \union {Clips[c].eps[e].spn : e \in DOMAIN Clips[c].eps} :
               PositionAt(Clips, c, Clamped(Clips[c], k), pts)
         \/ UNCHANGED <<file, coff, pend, ppos, opos>>
    BY <1>5 DEF SeekTo
  <2>3. CASE \E k \in {0} \union {Clips[c].eps[e].spn : e \in DOMAIN Clips[c].eps} :
               PositionAt(Clips, c, Clamped(Clips[c], k), pts)
    <3>1. PICK k \in {0} \union {Clips[c].eps[e].spn : e \in DOMAIN Clips[c].eps} :
             PositionAt(Clips, c, Clamped(Clips[c], k), pts)
      BY <2>3
    <3>2. Clamped(Clips[c], k) \in 0..Clips[c].pkts  BY <1>1, TargetPacket
    <3> QED  BY <1>1, <1>3, <2>1, <3>1, <3>2
  <2>4. CASE UNCHANGED <<file, coff, pend, ppos, opos>>
    BY <2>1, <2>4 DEF Guarded, CapHolds, Aligned, UnitAligned, Fillable
  <2> QED  BY <2>2, <2>3, <2>4
<1>6. ASSUME NEW a \in Nat, NEW pts \in Nat, SwitchAngleAt(a, pts)  PROVE Guarded'
  <2>1. angle' = a /\ title' = title /\ a + 1 \in DOMAIN title  BY <1>6 DEF SwitchAngleAt
  <2>2. Clips' = Index(a).clips /\ LaidOut(Clips', Total') /\ Total' \in Nat
    BY <1>2, <2>1, NextClipFacts DEF Clips, Index, LaidOut
  <2>3. PICK c \in DOMAIN Clips' :
         \/ \E k \in {0} \union {Clips'[c].eps[e].spn : e \in DOMAIN Clips'[c].eps} :
               PositionAt(Clips', c, Clamped(Clips'[c], k), pts)
         \/ file' = NoFile /\ pend' = NoBytes /\ opos' = 0
    BY <1>6, <2>2 DEF SwitchAngleAt
  <2>4. CASE \E k \in {0} \union {Clips'[c].eps[e].spn : e \in DOMAIN Clips'[c].eps} :
               PositionAt(Clips', c, Clamped(Clips'[c], k), pts)
    <3>1. PICK k \in {0} \union {Clips'[c].eps[e].spn : e \in DOMAIN Clips'[c].eps} :
             PositionAt(Clips', c, Clamped(Clips'[c], k), pts)
      BY <2>4
    <3>2. Clamped(Clips'[c], k) \in 0..Clips'[c].pkts  BY <2>2, TargetPacket
    <3> QED  BY <1>3, <2>2, <3>1, <3>2
  <2>5. CASE file' = NoFile /\ pend' = NoBytes /\ opos' = 0
    BY <2>2, <2>5, AnchorGuarded
  <2> QED  BY <2>3, <2>4, <2>5
<1> QED  BY <1>4, <1>5, <1>6 DEF AnchoringCall

LEMMA GuardedNext == Typed /\ Guarded /\ [Next]_vars => Guarded'
<1>1. (UNCHANGED <<title, angle, stream>>) /\ Guarded => Guarded'
  BY DEF stream, Guarded, CapHolds, Aligned, UnitAligned, Fillable, Clips, Total, Index
<1>2. QuietCall \/ UNCHANGED vars => UNCHANGED <<title, angle, stream>>
  BY DEF QuietCall, QuietFailure, ReadCall, SeekForward, vars
<1> QED  BY <1>1, <1>2, NextCases, GuardedRunning, GuardedAnchoring DEF Typed

LEMMA GuardedAlways == Spec => [](CapHolds /\ UnitAligned)
<1>1. Init => Typed /\ Guarded
  <2> SUFFICES ASSUME Init  PROVE Typed /\ Guarded
    OBVIOUS
  <2>1. Typed /\ LaidOut(Clips, Total)  BY TypedInit, ClipFacts DEF Typed
  <2>2. UnitPkts * TsLen \in Nat \ {0} /\ UnitPkts # 0
    BY SizesAssumption, PacketBytes
  <2>3. CapHolds  BY <2>1, <2>2 DEF Init, CapHolds, LaidOut
  <2>4. Aligned  BY <2>2, UnitBoundary DEF Init, Aligned, UnitAligned, NoBytes
  <2> QED  BY <2>1, <2>3, <2>4 DEF Guarded
<1>2. (Typed /\ Guarded) /\ [Next]_vars => (Typed /\ Guarded)'
  BY TypedNext, GuardedNext
<1>3. Guarded => CapHolds /\ UnitAligned  BY DEF Guarded, Aligned
<1> QED  BY <1>1, <1>2, <1>3, PTL DEF Spec

\* Whatever has failed before, the reader stays within one unit of the title.
THEOREM CapIsKept == Spec => []CapHolds
BY GuardedAlways, PTL

\* Whatever has failed before, a whole unit is decrypted as the unit it is.
THEOREM UnitsAreAligned == Spec => []UnitAligned
BY GuardedAlways, PTL
=============================================================================

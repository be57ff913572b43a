---------------------------- MODULE TitleSource ----------------------------
(***************************************************************************)
(* TitleSource (src/src/disc.rs): a title's clips read end to end as one    *)
(* byte stream, with byte seeks, keyframe seeks and angle switches.         *)
(*                                                                         *)
(* The input side (file cursor, clip_offset) counts 192-byte source        *)
(* packets, the output side counts bytes of stripped 188-byte packets, so  *)
(* a read may end inside a packet.  A call that loops over refill() takes  *)
(* one step per iteration of the loop; no other call starts meanwhile      *)
(* (every method takes &mut self).  Opening a clip, reading it and         *)
(* decrypting a unit may fail: at most MaxFaults times in a behaviour.     *)
(***************************************************************************)
EXTENDS Integers, Sequences

CONSTANTS
    TsLen,      \* bytes of a packet on the output side (TS_PACKET_LEN)
    UnitPkts,   \* packets of one AACS unit (AACS_UNIT_LEN / M2TS_PACKET_LEN)
    PtsMax,     \* largest clip-local PTS (u32::MAX)
    Titles,     \* titles: for each angle the index build_clip_seek_index made
    Times,      \* title times asked of seek_to and switch_angle_at
    MaxRead,    \* largest buffer passed to read()
    MaxSeek,    \* largest offset passed to seek()
    MaxFaults   \* failures of the disc and of the decryptor

Entry == [pts : Nat, spn : Nat]

Clip == [start : Nat, pkts : Nat, present : BOOLEAN, ptsStart : Nat,
         inPts : Nat, eps : Seq(Entry), changes : Seq(Entry)]

\* The clips of an angle lie one after the other on the output axis.
Laid(x) ==
    /\ \A i \in DOMAIN x.clips : ~x.clips[i].present => x.clips[i].pkts = 0
    /\ x.clips[1].start = 0
    /\ \A i \in DOMAIN x.clips :
          x.clips[i].start + x.clips[i].pkts * TsLen =
            IF i = Len(x.clips) THEN x.total ELSE x.clips[i + 1].start
    /\ \A i \in DOMAIN x.clips : x.clips[i].start + x.clips[i].pkts * TsLen <= x.total

ASSUME SizesAssumption ==
    /\ TsLen \in Nat \ {0} /\ UnitPkts \in Nat \ {0} /\ PtsMax \in Nat
    /\ MaxRead \in Nat /\ MaxSeek \in Nat /\ MaxFaults \in Nat
    /\ Times \subseteq Nat

ASSUME TitlesAssumption ==
    \A t \in Titles :
      /\ t \in Seq([clips : Seq(Clip), total : Nat, duration : Nat]) /\ t # <<>>
      /\ \A a \in DOMAIN t : t[a].clips # <<>> /\ Laid(t[a])

-----------------------------------------------------------------------------

VARIABLES
    title,    \* the title that was opened; never changes
    angle,    \* current_angle
    idx,      \* clip_idx, from 1; one past the last clip at the end
    file,     \* current: the open clip and the file's own cursor, in packets
    coff,     \* clip_offset, in packets
    pend,     \* pending: clip, first packet, packets, offset given to the decryptor
    ppos,     \* pending_pos
    opos,     \* output_pos
    call,     \* the method that is running, and the output byte it works towards
    last,     \* what the last method returned
    damage,   \* history: "none", or the kind of failure since the last re-anchoring
    faults    \* history: failures so far

stream == <<idx, file, coff, pend, ppos, opos>>
vars == <<title, angle, stream, call, last, damage, faults>>

Index(a) == title[a + 1]
Clips == Index(angle).clips
Total == Index(angle).total

NoFile == [clip |-> 0, pos |-> 0]
NoBytes == [clip |-> 0, src |-> 0, pkts |-> 0, off |-> 0]
Idle == [op |-> "idle", goal |-> 0, want |-> 0]
Result(op, at, n) == [op |-> op, at |-> at, n |-> n]
NoResult == Result("none", 0, 0)

Lesser(a, b) == IF a <= b THEN a ELSE b

\* Bytes of pending the caller has not taken, and the byte of the title the
\* next of them really is.
Left == pend.pkts * TsLen - ppos
Origin == Clips[pend.clip].start + pend.src * TsLen + ppos

Return(r) == call' = Idle /\ last' = r
Start(op, goal, want) ==
    call' = [op |-> op, goal |-> goal, want |-> want] /\ last' = NoResult

\* The loops of seek() and position_at() end here, at once when there is
\* nothing to skip.
Discard(op, from, goal, want) ==
    IF from < goal THEN Start(op, goal, want)
                   ELSE Return(Result(op, want, from))

Fail == Return(Result("error", 0, 0))
Fault == faults < MaxFaults /\ faults' = faults + 1

-----------------------------------------------------------------------------
(* Read::read and refill: one step per iteration.                          *)

Running == call.op # "idle"

\* The hard byte cap of read().
NoCap == TRUE               \* mutant: read() trusts the files
UnderCap == opos < Total

Refilling == Running /\ UnderCap /\ Left = 0

ReadCall(n) ==
    /\ ~Running
    /\ Start("read", opos + n, n)
    /\ UNCHANGED <<title, angle, stream, damage, faults>>

\* The packets the next fill of a unit gets from the open file.
Fillable == Clips[file.clip].pkts - file.pos
PaddedFill == UnitPkts      \* mutant: the tail of a clip padded to a unit
UnitFill == Lesser(UnitPkts, Fillable)

\* End of the open clip: the next one by clip_idx, if there is one.
AtClipEnd == Refilling /\ file # NoFile /\ Fillable <= 0
SameClip == idx             \* mutant: clip_idx not advanced
Following == idx + 1

\* Ok(0): the byte cap, or no open file.  A skip loop breaks on it and
\* returns the position it got to.
OutOfBytes == AtClipEnd \/ ~UnderCap   \* mutant: the end of a clip ends the stream
Exhausted == ~UnderCap \/ (Left = 0 /\ file = NoFile)

EndOfStream ==
    /\ Running
    /\ Exhausted
    /\ Return(IF call.op = "read" THEN Result("eof", opos, 0)
                                  ELSE Result(call.op, call.want, opos))
    /\ UNCHANGED <<title, angle, stream, damage, faults>>

\* Hand out pending bytes: to the caller, or to the sink of a skip loop.
Deliver ==
    /\ Running /\ UnderCap /\ Left > 0
    /\ LET take == Lesser(Left, call.goal - opos) IN
         /\ ppos' = ppos + take
         /\ opos' = opos + take
         /\ IF call.op = "read"
              THEN Return(Result("bytes", Origin, take))
              ELSE IF opos + take = call.goal
                     THEN Return(Result(call.op, call.want, call.goal))
                     ELSE UNCHANGED <<call, last>>
    /\ UNCHANGED <<title, angle, idx, file, coff, pend, damage, faults>>

StageUnit ==
    /\ Refilling /\ file # NoFile /\ Fillable > 0
    /\ pend' = [clip |-> file.clip, src |-> file.pos, pkts |-> UnitFill, off |-> coff]
    /\ ppos' = 0
    /\ file' = [file EXCEPT !.pos = file.pos + UnitFill]
    /\ coff' = coff + UnitFill
    /\ UNCHANGED <<title, angle, idx, opos, call, last, damage, faults>>

NextClip ==
    /\ AtClipEnd
    /\ idx' = Following
    /\ IF idx' <= Len(Clips)
         THEN Clips[idx'].present /\ file' = [clip |-> idx', pos |-> 0] /\ coff' = 0
         ELSE file' = NoFile /\ coff' = coff
    /\ UNCHANGED <<title, angle, pend, ppos, opos, call, last, damage, faults>>

\* open_next_clip fails: a missing clip always does.
NextClipFails ==
    /\ AtClipEnd /\ Following <= Len(Clips)
    /\ idx' = Following
    /\ file' = NoFile
    /\ IF Clips[idx'].present THEN Fault ELSE UNCHANGED faults
    /\ Fail /\ damage' = "open"
    /\ UNCHANGED <<title, angle, coff, pend, ppos, opos>>

\* The file read fails after it consumed lost packets of the unit: before the
\* unit is full, perhaps behind the last packet of the file.
ReadFails ==
    /\ Refilling /\ file # NoFile
    /\ \E lost \in 0..(UnitPkts - 1) :
         /\ lost = 0 \/ lost <= Fillable
         /\ file' = [file EXCEPT !.pos = file.pos + lost]
         /\ damage' = IF lost > 0 THEN "read" ELSE damage
    /\ Fault /\ Fail
    /\ UNCHANGED <<title, angle, idx, coff, pend, ppos, opos>>

\* The decryptor, called for whole units only, rejects the unit just read.
DecryptFails ==
    /\ Refilling /\ file # NoFile /\ Fillable > 0
    /\ UnitFill = UnitPkts
    /\ file' = [file EXCEPT !.pos = file.pos + UnitFill]
    /\ Fault /\ Fail /\ damage' = "unit"
    /\ UNCHANGED <<title, angle, idx, coff, pend, ppos, opos>>

-----------------------------------------------------------------------------
(* Seek::seek.                                                             *)

\* rposition over the clips: the last that starts at or before, else the first.
ClipAfter(clips, c, at) ==  \* mutant: the clip after the one that holds the target
    /\ clips[c].start > at
    /\ \A j \in DOMAIN clips : j < c => clips[j].start <= at

IsClipAt(clips, c, at) ==
    /\ c = 1 \/ clips[c].start <= at
    /\ \A j \in DOMAIN clips : j > c => clips[j].start > at

SeekBeforeStart ==
    /\ ~Running
    /\ Fail
    /\ UNCHANGED <<title, angle, stream, damage, faults>>

\* No-op or forward: skip from where the reader is, up to the byte cap.
SeekForward(to) ==
    /\ ~Running /\ opos <= to
    /\ IF to = opos THEN Return(Result("seek", to, opos))
                    ELSE Discard("seek", opos, Lesser(to, Total), to)
    /\ UNCHANGED <<title, angle, stream, damage, faults>>

\* Backward: reopen the clip that holds the target, then skip.
RewindOneBack(c) ==         \* mutant: clip_idx counted from another base
    /\ idx' = c - 1 /\ coff' = 0 /\ pend' = NoBytes /\ ppos' = 0
    /\ opos' = Clips[c].start

RewindSameOffset(c) ==      \* mutant: clip_offset not reset
    /\ idx' = c /\ coff' = coff /\ pend' = NoBytes /\ ppos' = 0
    /\ opos' = Clips[c].start

RewindStalePending(c) ==    \* mutant: pending not cleared
    /\ idx' = c /\ coff' = 0 /\ UNCHANGED <<pend, ppos>>
    /\ opos' = Clips[c].start

Rewind(c) ==
    /\ idx' = c /\ coff' = 0 /\ pend' = NoBytes /\ ppos' = 0
    /\ opos' = Clips[c].start

SeekBackward(to) ==
    /\ ~Running /\ to < opos
    /\ \E c \in DOMAIN Clips :
         /\ IsClipAt(Clips, c, to) /\ Clips[c].present
         /\ Rewind(c)
         /\ file' = [clip |-> c, pos |-> 0]
         /\ Discard("seek", Clips[c].start, Lesser(to, Total), to)
    /\ damage' = "none"
    /\ UNCHANGED <<title, angle, faults>>

SeekBackwardFails(to) ==
    /\ ~Running /\ to < opos
    /\ \E c \in DOMAIN Clips :
         /\ IsClipAt(Clips, c, to)
         /\ Rewind(c)
         /\ IF Clips[c].present THEN Fault ELSE UNCHANGED faults
    /\ file' = NoFile
    /\ Fail /\ damage' = "open"
    /\ UNCHANGED <<title, angle>>

-----------------------------------------------------------------------------
(* seek_to, position_at, switch_angle_at and switch_angle.                 *)

\* The last clip whose window of title time starts at or before pts.
ClipBeforeTime(clips, c, pts) ==    \* mutant: "before" for "at or before"
    /\ c = 1 \/ clips[c].ptsStart < pts
    /\ \A j \in DOMAIN clips : j > c => clips[j].ptsStart >= pts

IsClipAtTime(clips, c, pts) ==
    /\ c = 1 \/ clips[c].ptsStart <= pts
    /\ \A j \in DOMAIN clips : j > c => clips[j].ptsStart > pts

ClipLocal(x, pts) ==
    Lesser(x.inPts + (IF pts > x.ptsStart THEN pts - x.ptsStart ELSE 0), PtsMax)

\* binary_search_by over the EP_map: an exact row (any, when a PTS repeats),
\* else the last row before the target, else the first row.
IsEntryAt(eps, k, target) ==
    \/ eps[k].pts = target
    \/ /\ \A j \in DOMAIN eps : eps[j].pts # target
       /\ k = 1 \/ eps[k].pts < target
       /\ \A j \in DOMAIN eps : j > k => eps[j].pts > target

Target(x, pts, spn) ==
    IF x.eps = <<>> THEN spn = 0
    ELSE \E k \in DOMAIN x.eps :
            IsEntryAt(x.eps, k, ClipLocal(x, pts)) /\ spn = x.eps[k].spn

Clamped(x, spn) == IF x.pkts = 0 THEN 0 ELSE Lesser(spn, x.pkts - 1)

\* The AACS unit that holds packet p.
PacketStart(p) == p         \* mutant: the file opened at the packet itself
UnitStart(p) == p - (p % UnitPkts)

\* Open clip c at the unit that holds packet p, then skip to p.
PositionAt(clips, c, p, pts) ==
    LET u == UnitStart(p) IN
      /\ clips[c].present
      /\ idx' = c /\ coff' = u /\ pend' = NoBytes /\ ppos' = 0
      /\ file' = [clip |-> c, pos |-> u]
      /\ opos' = clips[c].start + u * TsLen
      /\ Discard("land", clips[c].start + u * TsLen, clips[c].start + p * TsLen, pts)
      /\ damage' = "none" /\ UNCHANGED faults

\* File::open fails, with clip_idx already set.
PositionFails(clips, c) ==
    /\ idx' = c
    /\ IF clips[c].present THEN Fault ELSE UNCHANGED faults
    /\ Fail /\ damage' = "open"

SeekTo(pts) ==
    /\ ~Running
    /\ \E c \in DOMAIN Clips :
         /\ IsClipAtTime(Clips, c, pts)
         /\ \/ \E k \in {0} \union {Clips[c].eps[e].spn : e \in DOMAIN Clips[c].eps} :
                  /\ Target(Clips[c], pts, k)
                  /\ PositionAt(Clips, c, Clamped(Clips[c], k), pts)
            \/ PositionFails(Clips, c) /\ UNCHANGED <<file, coff, pend, ppos, opos>>
    /\ UNCHANGED <<title, angle>>

\* An angle some PlayItem lacks is rejected before anything changes; otherwise
\* the index is rebuilt, the file dropped, and the reader positioned.
RejectAngle(a) ==
    /\ ~Running
    /\ a + 1 \notin DOMAIN title
    /\ Fail
    /\ UNCHANGED <<title, angle, stream, damage, faults>>

SwitchAngleAt(a, pts) ==
    /\ ~Running
    /\ a + 1 \in DOMAIN title
    /\ angle' = a
    /\ \E c \in DOMAIN Index(a).clips :
         /\ IsClipAtTime(Index(a).clips, c, pts)
         /\ LET x == Index(a).clips[c] IN
              \/ \E k \in {0} \union {x.eps[e].spn : e \in DOMAIN x.eps} :
                    /\ Target(x, pts, k)
                    /\ PositionAt(Index(a).clips, c, Clamped(x, k), pts)
              \/ /\ PositionFails(Index(a).clips, c)
                 /\ file' = NoFile /\ coff' = 0 /\ pend' = NoBytes
                 /\ ppos' = 0 /\ opos' = 0
    /\ UNCHANGED title

\* angle_change_points of the current angle: rows before the IN point dropped.
PointByte(c, e) == Clips[c].start + Clips[c].changes[e].spn * TsLen
PointClipTime(c, e) == Clips[c].changes[e].pts      \* mutant: the clip-local PTS
PointTime(c, e) == Clips[c].ptsStart + (Clips[c].changes[e].pts - Clips[c].inPts)
IsPoint(c, e) ==
    /\ c \in DOMAIN Clips /\ e \in DOMAIN Clips[c].changes
    /\ Clips[c].changes[e].pts >= Clips[c].inPts

\* The first of them, in list order, at or after the current position.
IsNextPoint(c, e) ==
    /\ IsPoint(c, e) /\ PointByte(c, e) >= opos
    /\ \A d \in 1..c : \A f \in DOMAIN Clips[d].changes :
         IsPoint(d, f) /\ (d < c \/ f < e) => PointByte(d, f) < opos

SwitchAngle(a) ==
    \/ \E c \in DOMAIN Clips : \E e \in DOMAIN Clips[c].changes :
         /\ IsNextPoint(c, e)
         /\ SwitchAngleAt(a, PointTime(c, e)) \/ RejectAngle(a)
    \/ /\ ~Running
       /\ \A c \in DOMAIN Clips : \A e \in DOMAIN Clips[c].changes : ~IsNextPoint(c, e)
       /\ Fail
       /\ UNCHANGED <<title, angle, stream, damage, faults>>

-----------------------------------------------------------------------------

\* open_title_with_angle: a title whose first clip cannot be opened has no
\* source.
Init ==
    /\ title \in Titles
    /\ angle \in {a - 1 : a \in DOMAIN title}
    /\ Clips[1].present
    /\ idx = 1 /\ file = [clip |-> 1, pos |-> 0] /\ coff = 0
    /\ pend = NoBytes /\ ppos = 0 /\ opos = 0
    /\ call = Idle /\ last = NoResult
    /\ damage = "none" /\ faults = 0

\* What a running call does next.
Step ==
    \/ EndOfStream \/ Deliver \/ StageUnit \/ NextClip
    \/ NextClipFails \/ ReadFails \/ DecryptFails

Next ==
    \/ Step
    \/ \E n \in 1..MaxRead : ReadCall(n)
    \/ SeekBeforeStart
    \/ \E to \in 0..MaxSeek :
         SeekForward(to) \/ SeekBackward(to) \/ SeekBackwardFails(to)
    \/ \E pts \in Times : SeekTo(pts)
    \/ \E a \in 0..Len(title), pts \in Times : SwitchAngleAt(a, pts)
    \/ \E a \in 0..Len(title) : RejectAngle(a) \/ SwitchAngle(a)

Spec == Init /\ [][Next]_vars

\* A call runs to completion once it has started.
FairSpec == Spec /\ WF_vars(Step)

-----------------------------------------------------------------------------
(* Properties.                                                             *)

\* The variables hold what the struct's fields can hold.
TypeOK ==
    /\ title \in Titles /\ angle \in Nat /\ angle + 1 \in DOMAIN title
    /\ idx \in Nat \ {0} /\ idx <= Len(Clips) + 1
    /\ file \in [clip : Nat, pos : Nat]
    /\ file # NoFile => file.clip \in DOMAIN Clips /\ idx \in DOMAIN Clips
    /\ coff \in Nat /\ ppos \in Nat /\ opos \in Nat
    /\ pend \in [clip : Nat, src : Nat, pkts : 0..UnitPkts, off : Nat]
    /\ pend # NoBytes => pend.clip \in DOMAIN Clips
    /\ ppos <= pend.pkts * TsLen
    /\ call \in [op : {"idle", "read", "seek", "land"}, goal : Nat, want : Nat]
    /\ last \in [op : {"none", "bytes", "eof", "seek", "land", "error"},
                 at : Nat, n : Nat]
    /\ damage \in {"none", "read", "unit", "open"}
    /\ faults \in 0..MaxFaults

\* As long as no error has intervened since the reader was last anchored, its
\* three cursors agree: the open file is the one clip_idx names, clip_offset is
\* the file's own position, and output_pos plus the pending bytes is the title
\* byte the file will yield next.  Without a file the title is over.  refill,
\* open_next_clip, Seek::seek and position_at each keep one part of this.
InStep ==
    damage = "none" =>
      /\ file # NoFile =>
           /\ file.clip = idx
           /\ coff = file.pos /\ file.pos <= Clips[idx].pkts
           /\ opos + Left = Clips[idx].start + file.pos * TsLen
      /\ file = NoFile => idx = Len(Clips) + 1 /\ Left = 0 /\ opos = Total
      /\ pend # NoBytes => pend.off = pend.src
      /\ Left > 0 =>
           file # NoFile /\ pend.clip = idx /\ pend.src + pend.pkts = file.pos

\* A read() that bytes come from hands out the title's bytes at the position the
\* reader had, none lost, repeated or taken from another clip; and it says Ok(0)
\* only at the end of the last clip.
BytesAtCursor ==
    last.op = "bytes" /\ damage = "none" => last.at + last.n = opos
EofAtEnd == last.op = "eof" /\ damage = "none" => opos = Total
ReadsExact == BytesAtCursor /\ EofAtEnd

\* The byte cap: whatever has failed before, read() never hands out as much
\* as one unit more than output_total.
CapHolds == opos < Total + UnitPkts * TsLen

\* The decryptor sees whole units only at unit boundaries, even after errors:
\* the offset it is told is a multiple of AACS_UNIT_LEN.
UnitAligned == pend.pkts = UnitPkts => pend.off % UnitPkts = 0

\* Seek::seek leaves the reader at the byte it was asked for, or at the end.
SeekExact ==
    last.op = "seek" /\ damage = "none" => last.n = Lesser(last.at, Total)

\* seek_to lands no later than it must: every row of an EP_map from the IN point
\* on, on a packet its file has, whose bytes lie beyond the landing point is
\* later than the time asked for.
InWindow(c, e) ==
    /\ Clips[c].eps[e].pts >= Clips[c].inPts
    /\ Clips[c].eps[e].spn < Clips[c].pkts

SeekToTight ==
    last.op = "land" /\ damage = "none" =>
      \A c \in DOMAIN Clips : \A e \in DOMAIN Clips[c].eps :
        InWindow(c, e) /\ Clips[c].start + Clips[c].eps[e].spn * TsLen > last.n =>
          Clips[c].ptsStart + (Clips[c].eps[e].pts - Clips[c].inPts) > last.at

\* The tables such a landing takes: load_clip_meta sorts the rows by their PTS,
\* a u32; that their bytes go up with their times is up to the disc.
RowsRise(rows) ==
    /\ \A i \in DOMAIN rows : rows[i].pts <= PtsMax
    /\ \A i, j \in DOMAIN rows :
         /\ i < j => rows[i].pts <= rows[j].pts
         /\ rows[i].pts <= rows[j].pts => rows[i].spn <= rows[j].spn

EpMapsRise ==
    \A t \in Titles : \A a \in DOMAIN t : \A c \in DOMAIN t[a].clips :
      RowsRise(t[a].clips[c].eps)

\* disc.rs on Seek: the byte-exact contract, rewind to any byte offset.  A seek
\* that returned Ok short of the end leaves a reader that can go on.
SeekOkIsReadable == last.op = "seek" /\ last.n < Total => file # NoFile

\* Every method returns: the loops of refill, seek and position_at end.
CallsReturn == Running ~> ~Running

\* switch_angle cuts at the boundary it chose: when the angles' tables agree,
\* the reader ends at the output byte of that angle-change point.
Landing == IF call' = Idle THEN opos' ELSE call'.goal

CutsOnPoint ==
    ~Running /\ damage' = "none" /\ pend' = NoBytes /\ Clips' = Clips =>
      \A c \in DOMAIN Clips : \A e \in DOMAIN Clips[c].changes :
        IsNextPoint(c, e) /\ SwitchAngleAt(angle', PointTime(c, e)) =>
          Landing = PointByte(c, e)

SwitchLands == [][CutsOnPoint]_vars

\* Where a cut can land on its point: the points of a clip are rows of its
\* EP_map, on packets it has, at times before the next clip begins.
PointInside(clips, c, e) ==
    LET x == clips[c]  p == x.changes[e] IN
    p.pts >= x.inPts =>
      /\ \E k \in DOMAIN x.eps : x.eps[k] = p
      /\ p.spn < x.pkts
      /\ c < Len(clips) => x.ptsStart + (p.pts - x.inPts) < clips[c + 1].ptsStart

PointsInside ==
    \A t \in Titles : \A a \in DOMAIN t :
      /\ \A c \in DOMAIN t[a].clips :
           /\ c < Len(t[a].clips) => t[a].clips[c].ptsStart <= t[a].clips[c + 1].ptsStart
           /\ \A e \in DOMAIN t[a].clips[c].changes : PointInside(t[a].clips, c, e)

\* The reader keeps the promise of an abstract byte cursor.
Promise == INSTANCE ByteCursor WITH
    len <- Total,
    pos <- opos,
    goal <- IF call.op \in {"seek", "land"} THEN call.goal ELSE opos,
    got <- IF last.op \in {"bytes", "eof"} THEN [at |-> last.at, n |-> last.n]
                                          ELSE [at |-> -1, n |-> 0],
    trusted <- damage = "none"

KeepsPromise == Promise!Spec
============================================================================

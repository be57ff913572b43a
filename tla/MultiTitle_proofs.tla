-------------------------- MODULE MultiTitle_proofs --------------------------
(***************************************************************************)
(* What TLAPS proves of the two clients of a TitleSource, for every title, *)
(* request, buffer, caller and number of failures: a ChapterSegments reads *)
(* whole chapters as runs of the title's bytes, chapters in order of time  *)
(* join, and a source behind a URI gives its chapter and no byte more.     *)
(* The invariant SourceStands is the title source's own with where its     *)
(* seeks aim, whoever calls it; ClientStands says how far the client's     *)
(* count of bytes is tied to it.                                           *)
(***************************************************************************)
EXTENDS Landing_proofs, MultiTitle

-----------------------------------------------------------------------------
(* The source under any caller.                                            *)

\* What the source can do: the calls of TitleSource_proofs.  No caller here
\* switches angles.
SourceStep == Step \/ QuietCall \/ AnchoringCall

\* A seek_to that returned left the reader undamaged at the byte it reports;
\* a read that returned bytes returned some, and one at the end none.
Landed ==
  /\ call.op = "land" => damage = "none"
  /\ last.op = "land" => damage = "none" /\ last.n = opos
  /\ last.op = "bytes" => last.n > 0
  /\ last.op = "eof" => last.n = 0

SourceStands == Typed /\ InStep /\ Outcome /\ Landed /\ Aimed

LEMMA NotLanded == last'.op \in {"none", "seek", "error"} /\ call'.op # "land" => Landed'
BY DEF Landed

LEMMA LandedStep == Typed /\ Landed /\ Step => Landed'
<1> SUFFICES ASSUME Typed, Landed, Step  PROVE Landed'
  OBVIOUS
<1>1. /\ TypeOK /\ last = NoResult /\ opos < call.goal /\ opos \in Nat /\ call.goal \in Nat
      /\ call.op \in {"read", "seek", "land"}
  BY DEF Step, EndOfStream, Deliver, StageUnit, NextClip, NextClipFails, ReadFails,
         DecryptFails, AtClipEnd, Refilling, Typed, Ahead, TypeOK, Running
<1>2. CASE EndOfStream
  <2>1. call' = Idle /\ UNCHANGED <<opos, damage>>  BY <1>2 DEF EndOfStream, Return, stream
  <2>2. last' = IF call.op = "read" THEN Result("eof", opos, 0)
                                    ELSE Result(call.op, call.want, opos)
    BY <1>2 DEF EndOfStream, Return
  <2> QED  BY <1>1, <2>1, <2>2 DEF Landed, Result, Idle
<1>3. CASE Deliver
  <2> DEFINE take == Lesser(Left, call.goal - opos)
  <2>1. take \in Nat \ {0}
    <3>1. Left > 0 /\ Left \in Int  BY <1>1, <1>3, Counts DEF Deliver
    <3> QED  BY <1>1, <3>1 DEF Lesser
  <2>2. /\ opos' = opos + take /\ damage' = damage
        /\ IF call.op = "read" THEN Return(Result("bytes", Origin, take))
           ELSE IF opos + take = call.goal THEN Return(Result(call.op, call.want, call.goal))
           ELSE UNCHANGED <<call, last>>
    BY <1>3 DEF Deliver
  <2> HIDE DEF take
  <2>3. CASE call.op = "read"  BY <2>1, <2>2, <2>3 DEF Landed, Return, Result, Idle
  <2>4. CASE call.op # "read" /\ opos + take = call.goal
    BY <1>1, <2>2, <2>4 DEF Landed, Return, Result, Idle
  <2>5. CASE call.op # "read" /\ opos + take # call.goal
    <3>1. UNCHANGED <<call, last, damage>>  BY <2>2, <2>5
    <3> QED  BY <1>1, <3>1 DEF Landed, NoResult, Result
  <2> QED  BY <2>3, <2>4, <2>5
<1>4. CASE StageUnit \/ NextClip
  <2>1. UNCHANGED <<opos, call, last, damage>>  BY <1>4 DEF StageUnit, NextClip
  <2> QED  BY <2>1 DEF Landed
<1>5. CASE NextClipFails \/ ReadFails \/ DecryptFails
  <2>1. call' = Idle /\ last' = Result("error", 0, 0)
    BY <1>5 DEF NextClipFails, ReadFails, DecryptFails, Fail, Return
  <2> QED  BY <2>1, NotLanded DEF Idle, Result
<1> QED  BY <1>2, <1>3, <1>4, <1>5 DEF Step

LEMMA LandedCalls == Typed /\ (QuietCall \/ AnchoringCall) => Landed'
<1> SUFFICES ASSUME Typed, QuietCall \/ AnchoringCall  PROVE Landed'
  OBVIOUS
<1>1. ASSUME NEW n, ReadCall(n)  PROVE Landed'
  BY <1>1, NotLanded DEF ReadCall, Start, NoResult, Result
<1>2. ASSUME Fail  PROVE Landed'
  BY <1>2, NotLanded DEF Fail, Return, Idle, Result
<1>3. ASSUME NEW from, NEW goal, NEW to, Discard("seek", from, goal, to)  PROVE Landed'
  BY <1>3, NotLanded DEF Discard, Start, Return, Idle, NoResult, Result
<1>4. ASSUME NEW to, SeekForward(to)  PROVE Landed'
  <2>1. CASE to = opos
    BY <1>4, <2>1, NotLanded DEF SeekForward, Return, Idle, Result
  <2>2. CASE to # opos  BY <1>3, <1>4, <2>2 DEF SeekForward
  <2> QED  BY <2>1, <2>2
<1>5. ASSUME NEW to, SeekBackward(to) \/ SeekBackwardFails(to)  PROVE Landed'
  BY <1>2, <1>3, <1>5 DEF SeekBackward, SeekBackwardFails
<1>6. ASSUME NEW clips, NEW c, NEW p, NEW pts, PositionAt(clips, c, p, pts)  PROVE Landed'
  BY <1>6 DEF PositionAt, Discard, Start, Return, Idle, NoResult, Result, Landed
<1>7. ASSUME NEW clips, NEW c, PositionFails(clips, c)  PROVE Landed'
  BY <1>2, <1>7 DEF PositionFails
<1>8. ASSUME NEW pts, SeekTo(pts)  PROVE Landed'
  BY <1>6, <1>7, <1>8 DEF SeekTo
<1>9. ASSUME NEW a, NEW pts, SwitchAngleAt(a, pts)  PROVE Landed'
  BY <1>6, <1>7, <1>9 DEF SwitchAngleAt
<1> QED  BY <1>1, <1>2, <1>4, <1>5, <1>8, <1>9 DEF QuietCall, QuietFailure, AnchoringCall

\* The source keeps its invariants, whoever calls it.
LEMMA SourceKept == SourceStands /\ SourceStep => SourceStands'
<1> SUFFICES ASSUME SourceStands, SourceStep  PROVE SourceStands'
  OBVIOUS
<1>1. Typed'
  BY TypedRunning, TypedQuietCalls, TypedAnchoringCalls DEF SourceStands, SourceStep
<1>2. InStep'
  <2>1. QuietCall => UNCHANGED <<title, angle, stream, damage>>
    BY DEF QuietCall, QuietFailure, ReadCall, SeekForward
  <2> QED  BY <2>1, InStepRunning, InStepQuiet, InStepAnchoring DEF SourceStands, SourceStep
<1>3. Outcome'  BY OutcomeRunning, OutcomeCalls DEF SourceStands, SourceStep
<1>4. Landed'  BY LandedStep, LandedCalls DEF SourceStands, SourceStep
<1>5. Aimed'  BY AimedRunning, AimedCalls DEF SourceStands, SourceStep
<1> QED  BY <1>1, <1>2, <1>3, <1>4, <1>5 DEF SourceStands

LEMMA SourceRests == SourceStands /\ UNCHANGED vars => SourceStands'
<1> SUFFICES ASSUME SourceStands, UNCHANGED vars  PROVE SourceStands'
  OBVIOUS
<1>1. UNCHANGED <<title, angle, idx, file, coff, pend, ppos, opos, call, last, damage, faults>>
  BY DEF vars, stream
<1>2. Clips' = Clips /\ Total' = Total /\ Left' = Left  BY <1>1 DEF Clips, Total, Index, Left
<1>3. Typed'  BY <1>1, <1>2 DEF SourceStands, Typed, TypeOK, Ahead, Running
<1>4. InStep'  BY <1>1, <1>2 DEF SourceStands, InStep
<1>5. Outcome' /\ Landed' /\ Aimed'
  BY <1>1, <1>2 DEF SourceStands, Outcome, BytesAtCursor, EofAtEnd, SeekExact, Landed, Aimed
<1> QED  BY <1>3, <1>4, <1>5 DEF SourceStands

LEMMA SourceInit == Init => SourceStands
<1>1. Init => Outcome /\ Landed /\ Aimed
  BY DEF Init, Outcome, BytesAtCursor, EofAtEnd, SeekExact, Landed, Aimed, NoResult, Result, Idle
<1> QED  BY <1>1, TypedInit, InStepInit DEF SourceStands

\* Fields that calls of the source never have wrong.
LEMMA SourceFacts ==
  ASSUME SourceStands
  PROVE  /\ opos \in Nat /\ Total \in Nat /\ last.n \in Nat /\ last.at \in Nat
         /\ call.goal \in Nat /\ call.want \in Nat
         /\ Running => last = NoResult
         /\ damage = "none" => opos <= Total
BY ClipFacts, WithinTitle DEF SourceStands, Typed, TypeOK, Ahead, LaidOut

\* One step of a read: it runs on where it is, gives bytes, says that the title
\* is over, or fails; only a failure does damage.
LEMMA ReadStep ==
  ASSUME SourceStands, Step, call.op = "read"
  PROVE  \/ UNCHANGED <<opos, call, last, damage>>
         \/ /\ ~Running' /\ last'.op = "bytes" /\ damage' = damage
            /\ last'.n \in 1..(call.goal - opos) /\ opos' = opos + last'.n
         \/ /\ ~Running' /\ last'.op = "eof" /\ last'.n = 0
            /\ UNCHANGED <<opos, damage>>
         \/ /\ ~Running' /\ last'.op = "error" /\ last'.n = 0 /\ opos' = opos
            /\ damage' = "none" => damage = "none"
<1>1. /\ TypeOK /\ opos < call.goal /\ opos \in Nat /\ call.goal \in Nat
  BY DEF Step, EndOfStream, Deliver, StageUnit, NextClip, NextClipFails, ReadFails,
         DecryptFails, AtClipEnd, Refilling, SourceStands, Typed, Ahead, TypeOK, Running
<1>2. CASE EndOfStream
  BY <1>2 DEF EndOfStream, Return, Result, Idle, Running, stream
<1>3. CASE Deliver
  <2> DEFINE take == Lesser(Left, call.goal - opos)
  <2>1. take \in 1..(call.goal - opos)
    <3>1. Left > 0 /\ Left \in Int  BY <1>1, <1>3, Counts DEF Deliver
    <3> QED  BY <1>1, <3>1 DEF Lesser
  <2>2. opos' = opos + take /\ damage' = damage /\ Return(Result("bytes", Origin, take))
    BY <1>3 DEF Deliver
  <2> HIDE DEF take
  <2> QED  BY <2>1, <2>2 DEF Return, Result, Idle, Running
<1>4. CASE StageUnit \/ NextClip
  BY <1>4 DEF StageUnit, NextClip
<1>5. CASE NextClipFails \/ DecryptFails
  BY <1>5 DEF NextClipFails, DecryptFails, Fail, Return, Result, Idle, Running
<1>6. CASE ReadFails
  <2>1. damage' = "none" => damage = "none"  BY <1>6 DEF ReadFails
  <2> QED  BY <1>6, <2>1 DEF ReadFails, Fail, Return, Result, Idle, Running
<1> QED  BY <1>2, <1>3, <1>4, <1>5, <1>6 DEF Step

\* The calls of the clients stay in the title and its angle.
LEMMA SameTitle ==
  ASSUME \/ Step \/ UNCHANGED vars \/ SeekBeforeStart
         \/ \E n : ReadCall(n)
         \/ \E pts : SeekTo(pts)
         \/ \E to : SeekForward(to) \/ SeekBackward(to) \/ SeekBackwardFails(to)
  PROVE  Total' = Total
<1>1. UNCHANGED <<title, angle>>
  BY DEF Step, EndOfStream, Deliver, StageUnit, NextClip, NextClipFails, ReadFails, DecryptFails,
         SeekBeforeStart, ReadCall, SeekTo, SeekForward, SeekBackward, SeekBackwardFails, vars
<1> QED  BY <1>1 DEF Total, Index

-----------------------------------------------------------------------------
(* The clients.                                                            *)

Request == [id : Nat, from : Nat, to : Nat, final : BOOLEAN]
Segment == [id : Nat, from : Nat, final : BOOLEAN, at : Nat, end : Nat, n : Nat, ok : BOOLEAN]

ClientTypes ==
  /\ handle \in {"fresh", "refused", "open", "segments"} /\ sought \in BOOLEAN
  /\ requests \in Seq(Request) /\ request \in Request
  /\ startByte \in Nat /\ endByte \in Nat /\ taken \in Nat
  /\ segments \in Seq(Segment)

SeekPhases == {"end", "ended", "start", "started"}
Taking == phase \in {"reading", "handing"}

\* Which phases a client can be in, and when the source is at rest.
Phases ==
  /\ handle = "fresh" => phase \in SeekPhases \cup {"idle"}
  /\ handle = "refused" => phase = "idle"
  /\ handle = "open" => phase \in {"body", "handing", "seeking"}
  /\ handle = "segments" => phase \in SeekPhases \cup {"idle", "body", "reading"}
  /\ phase \in {"idle", "end", "start", "body"} => ~Running
  /\ phase = "seeking" => sought

\* No chapter ends past the title, none is asked for more than it has left, and
\* none is given more.
Due ==
  /\ endByte <= Total
  /\ phase \in SeekPhases \/ handle = "fresh" => taken = 0
  /\ phase \notin SeekPhases \cup {"idle"} => taken <= Want
  /\ Taking =>
       /\ taken < Want
       /\ Running => /\ call.op = "read" /\ call.goal = opos + call.want
                     /\ taken + call.want <= Want
       /\ ~Running => last.op \in {"bytes", "eof", "error"} /\ taken + last.n <= Want

\* Nobody but the reads of the chapter has moved the source since it was
\* positioned: then it stands behind the bytes taken.
Undisturbed == handle = "segments" \/ ~sought

Behind ==
  Undisturbed /\ damage = "none" =>
    /\ phase = "body" => opos = startByte + taken
    /\ Taking => opos = startByte + taken + last.n

\* A ChapterSegments reads on only while nothing has failed.
ReadingOn == handle = "segments" /\ (phase = "body" \/ (phase = "reading" /\ last.op # "error"))
Unbroken == ReadingOn => damage = "none"

\* A chapter that was returned is whole.
IsWhole(s) == s.ok => s.n = IF s.at < s.end THEN s.end - s.at ELSE 0
Whole == \A k \in DOMAIN segments : IsWhole(segments[k])

ClientStands == Phases /\ Due /\ Behind /\ Unbroken /\ Whole
Stands == SourceStands /\ ClientTypes /\ ClientStands

\* The bytes a chapter has are a natural number.
LEMMA WantFacts ==
  ASSUME ClientTypes
  PROVE  Want \in Nat /\ (Want > 0 => startByte + Want = endByte)
BY DEF ClientTypes, Want

-----------------------------------------------------------------------------
(* Steps of the source under a client that waits.                          *)

LEMMA SourceRuns ==
  ASSUME Stands, Step, UNCHANGED <<client, multi>>
  PROVE  Stands'
<1>1. SourceStands'  BY SourceKept DEF Stands, SourceStep
<1>2. UNCHANGED <<requests, request, endByte, startByte, taken, phase, segments, handle, sought>>
  BY DEF client, progress, multi
<1>3. ClientTypes' /\ Whole'  BY <1>2 DEF Stands, ClientTypes, ClientStands, Whole
<1>4. Running
  BY DEF Step, EndOfStream, Deliver, StageUnit, NextClip, NextClipFails, ReadFails,
         DecryptFails, AtClipEnd, Refilling
<1>5. phase \notin {"idle", "end", "start", "body"}  BY <1>4 DEF Stands, ClientStands, Phases
<1>6. Phases'  BY <1>2, <1>5 DEF Stands, ClientStands, Phases, SeekPhases
<1>7. Total' = Total /\ Want' = Want  BY <1>2, SameTitle DEF Want
<1>8. Want \in Nat  BY WantFacts DEF Stands
<1>9. taken \in Nat /\ startByte \in Nat  BY DEF Stands, ClientTypes
<1>10. CASE ~Taking
  <2>1. Due'  BY <1>2, <1>7, <1>10 DEF Stands, ClientStands, Due, Taking
  <2>2. Behind'  BY <1>2, <1>5, <1>10 DEF Behind, Taking
  <2>3. Unbroken'  BY <1>2, <1>5, <1>10 DEF Unbroken, ReadingOn, Taking
  <2> QED  BY <1>1, <1>3, <1>6, <2>1, <2>2, <2>3 DEF Stands, ClientStands
<1>11. CASE Taking
  <2>1. /\ call.op = "read" /\ call.goal = opos + call.want
        /\ taken + call.want <= Want /\ taken < Want /\ endByte <= Total
    BY <1>4, <1>11 DEF Stands, ClientStands, Due
  <2>2. /\ opos \in Nat /\ call.want \in Nat /\ last = NoResult /\ last.n = 0 /\ last.op = "none"
    BY <1>4, SourceFacts DEF Stands, NoResult, Result
  <2>3. Undisturbed /\ damage = "none" => opos = startByte + taken
    BY <1>9, <1>11, <2>2 DEF Stands, ClientStands, Behind
  <2>4. handle = "segments" => damage = "none"
    BY <1>5, <1>11, <2>2 DEF Stands, ClientStands, Unbroken, ReadingOn, Phases, Taking, SeekPhases
  <2>5. phase \notin SeekPhases \cup {"idle"} /\ phase # "body" /\ Taking' /\ handle # "fresh"
    BY <1>2, <1>11 DEF Taking, SeekPhases, Stands, ClientStands, Phases
  <2>6. CASE UNCHANGED <<opos, call, last, damage>>
    <3>1. Running' /\ last'.n = 0  BY <1>4, <2>2, <2>6 DEF Running
    <3>2. Due'  BY <1>2, <1>7, <2>1, <2>5, <2>6, <3>1 DEF Stands, ClientStands, Due
    <3>3. Behind'  BY <1>2, <1>9, <2>3, <2>5, <2>6, <3>1 DEF Behind, Undisturbed
    <3>4. Unbroken'  BY <1>2, <2>4, <2>6 DEF Unbroken, ReadingOn
    <3> QED  BY <1>1, <1>3, <1>6, <3>2, <3>3, <3>4 DEF Stands, ClientStands
  <2>7. CASE /\ ~Running' /\ last'.op = "bytes" /\ damage' = damage
             /\ last'.n \in 1..(call.goal - opos) /\ opos' = opos + last'.n
    <3>1. last'.n \in Nat /\ last'.n <= call.want  BY <2>1, <2>2, <2>7
    <3>2. taken + last'.n <= Want  BY <1>8, <1>9, <2>1, <2>2, <3>1
    <3>3. Due'  BY <1>2, <1>7, <2>1, <2>5, <2>7, <3>2 DEF Stands, ClientStands, Due
    <3>4. Behind'
      <4> SUFFICES ASSUME Undisturbed', damage' = "none"
                   PROVE  opos' = startByte' + taken' + last'.n
        BY <1>2, <2>5 DEF Behind
      <4>1. opos = startByte + taken  BY <1>2, <2>3, <2>7 DEF Undisturbed
      <4> QED  BY <1>2, <1>9, <2>7, <3>1, <4>1
    <3>5. Unbroken'  BY <1>2, <2>4, <2>7 DEF Unbroken, ReadingOn
    <3> QED  BY <1>1, <1>3, <1>6, <3>3, <3>4, <3>5 DEF Stands, ClientStands
  <2>8. CASE /\ ~Running' /\ last'.op = "eof" /\ last'.n = 0
             /\ UNCHANGED <<opos, damage>>
    <3>1. Due'  BY <1>2, <1>7, <1>8, <1>9, <2>1, <2>5, <2>8 DEF Stands, ClientStands, Due
    <3>2. Behind'  BY <1>2, <1>9, <2>3, <2>5, <2>8 DEF Behind, Undisturbed
    <3>3. Unbroken'  BY <1>2, <2>4, <2>8 DEF Unbroken, ReadingOn
    <3> QED  BY <1>1, <1>3, <1>6, <3>1, <3>2, <3>3 DEF Stands, ClientStands
  <2>9. CASE /\ ~Running' /\ last'.op = "error" /\ last'.n = 0 /\ opos' = opos
             /\ damage' = "none" => damage = "none"
    <3>1. Due'  BY <1>2, <1>7, <1>8, <1>9, <2>1, <2>5, <2>9 DEF Stands, ClientStands, Due
    <3>2. Behind'  BY <1>2, <1>9, <2>3, <2>5, <2>9 DEF Behind, Undisturbed
    <3>3. Unbroken'  BY <1>2, <2>5, <2>9 DEF Unbroken, ReadingOn
    <3> QED  BY <1>1, <1>3, <1>6, <3>1, <3>2, <3>3 DEF Stands, ClientStands
  <2> QED  BY <2>1, <2>6, <2>7, <2>8, <2>9, ReadStep DEF Stands
<1> QED  BY <1>10, <1>11

-----------------------------------------------------------------------------
(* Calls of the source.                                                    *)

\* A client that seeks waits, and nothing is known until the seek is over.
LEMMA SeekCalled ==
  ASSUME Stands, SourceStands', Total' = Total, phase' \in {"ended", "started"},
         phase \in {"end", "start"}, UNCHANGED <<requests, progress, segments, multi>>
  PROVE  Stands'
<1>1. UNCHANGED <<requests, request, endByte, startByte, taken, segments, handle, sought>>
  BY DEF progress, multi
<1>2. ClientTypes' /\ Whole'  BY <1>1 DEF Stands, ClientTypes, ClientStands, Whole
<1>3. Phases'  BY <1>1 DEF Stands, ClientStands, Phases, SeekPhases
<1>4. Due'  BY <1>1 DEF Stands, ClientStands, Due, Taking, SeekPhases
<1>5. Behind' /\ Unbroken'  BY DEF Behind, Unbroken, ReadingOn, Taking
<1> QED  BY <1>2, <1>3, <1>4, <1>5 DEF Stands, ClientStands

LEMMA SeekToIsStep ==
  ASSUME NEW pts \in Nat, SeekTo(pts)
  PROVE  SourceStep /\ Total' = Total
BY SameTitle DEF SourceStep, AnchoringCall

LEMMA SeekEndStands == Stands /\ SeekEnd /\ UNCHANGED multi => Stands'
<1> SUFFICES ASSUME Stands, SeekEnd, UNCHANGED multi  PROVE Stands'
  OBVIOUS
<1>1. request.to \in Nat  BY DEF Stands, ClientTypes, Request
<1>2. SourceStep /\ Total' = Total  BY <1>1, SeekToIsStep DEF SeekEnd
<1> QED  BY <1>2, SourceKept, SeekCalled DEF SeekEnd, Stands

LEMMA SeekStartStands == Stands /\ SeekStart /\ UNCHANGED multi => Stands'
<1> SUFFICES ASSUME Stands, SeekStart, UNCHANGED multi  PROVE Stands'
  OBVIOUS
<1>1. request.from \in Nat  BY DEF Stands, ClientTypes, Request
<1>2. SourceStep /\ Total' = Total  BY <1>1, SeekToIsStep DEF SeekStart
<1> QED  BY <1>2, SourceKept, SeekCalled DEF SeekStart, Stands

\* A client that reads asks for no more than is left of the chapter.
LEMMA ReadCalled ==
  ASSUME Stands, phase = "body", NEW n \in Nat \ {0}, taken + n <= Want, taken < Want,
         ReadCall(n), UNCHANGED <<requests, progress, segments, multi>>,
         \/ handle = "segments" /\ phase' = "reading"
         \/ handle = "open" /\ phase' = "handing"
  PROVE  Stands'
<1>1. UNCHANGED <<requests, request, endByte, startByte, taken, segments, handle, sought>>
  BY DEF progress, multi
<1>2. SourceStep /\ Total' = Total  BY SameTitle DEF SourceStep, QuietCall
<1>3. SourceStands'  BY <1>2, SourceKept DEF Stands
<1>4. ClientTypes' /\ Whole'  BY <1>1 DEF Stands, ClientTypes, ClientStands, Whole
<1>5. Phases'  BY <1>1 DEF Stands, ClientStands, Phases, SeekPhases
<1>6. /\ call' = [op |-> "read", goal |-> opos + n, want |-> n] /\ last' = NoResult
      /\ UNCHANGED <<opos, damage>>
  BY DEF ReadCall, Start, stream
<1>7. Running' /\ last'.n = 0 /\ call'.op = "read" /\ call'.goal = opos + n /\ call'.want = n
  BY <1>6 DEF Running, NoResult, Result
<1>8. Want' = Want /\ taken \in Nat /\ startByte \in Nat /\ Want \in Nat
  BY <1>1, WantFacts DEF Want, Stands, ClientTypes
<1>9. Taking' /\ phase' \notin SeekPhases \cup {"idle", "body"}
  BY DEF Taking, SeekPhases
<1>10. Due'
  BY <1>1, <1>2, <1>6, <1>7, <1>8, <1>9 DEF Stands, ClientStands, Due
<1>11. Behind'
  <2>1. Undisturbed' /\ damage' = "none" => opos = startByte + taken
    BY <1>1, <1>6 DEF Stands, ClientStands, Behind, Undisturbed
  <2> QED  BY <1>1, <1>6, <1>7, <1>8, <1>9, <2>1 DEF Behind
<1>12. Unbroken'
  BY <1>1, <1>6 DEF Stands, ClientStands, Unbroken, ReadingOn
<1> QED  BY <1>3, <1>4, <1>5, <1>10, <1>11, <1>12 DEF Stands, ClientStands

LEMMA ReadMoreStands == Stands /\ handle = "segments" /\ ReadMore /\ UNCHANGED multi => Stands'
<1> SUFFICES ASSUME Stands, handle = "segments", ReadMore, UNCHANGED multi  PROVE Stands'
  OBVIOUS
<1> DEFINE n == Lesser(Want - taken, BufLen)
<1>1. Want \in Nat /\ taken \in Nat /\ BufLen \in Nat \ {0} /\ taken < Want
  BY WantFacts, SelectionsAssumption DEF Stands, ClientTypes, ReadMore
<1>2. n \in Nat \ {0} /\ taken + n <= Want  BY <1>1 DEF Lesser
<1>3. /\ phase = "body" /\ ReadCall(n) /\ phase' = "reading"
      /\ UNCHANGED <<requests, progress, segments>>
  BY DEF ReadMore
<1> HIDE DEF n
<1> QED  BY <1>1, <1>2, <1>3, ReadCalled

LEMMA ReadStands == ASSUME Stands, NEW m \in 1..MaxRead, Read(m)  PROVE Stands'
<1> DEFINE n == Allowed(m)
<1>1. Want \in Nat /\ taken \in Nat /\ Want - taken > 0 /\ m \in Nat \ {0}
  BY WantFacts, SizesAssumption DEF Stands, ClientTypes, Read, Remaining
<1>2. n \in Nat \ {0} /\ taken + n <= Want /\ taken < Want
  BY <1>1 DEF Allowed, Lesser, Remaining
<1>3. /\ handle = "open" /\ phase = "body" /\ ReadCall(n) /\ phase' = "handing"
      /\ UNCHANGED <<requests, progress, segments, multi>>
  BY DEF Read
<1> HIDE DEF n
<1> QED  BY <1>2, <1>3, ReadCalled

\* The caller's own seeks disturb the source, and nothing is said of its place.
LEMMA SeekOpenStands == Stands /\ SeekOpen => Stands'
<1> SUFFICES ASSUME Stands, SeekOpen  PROVE Stands'
  OBVIOUS
<1>1. UNCHANGED <<requests, request, endByte, startByte, taken, segments, handle>>
      /\ sought' = TRUE /\ handle = "open" /\ phase = "body" /\ phase' = "seeking"
  BY DEF SeekOpen, progress
<1>2. SourceStep /\ Total' = Total
  <2>1. CASE SeekBeforeStart
    BY <2>1, SameTitle DEF SourceStep, QuietCall, QuietFailure, SeekBeforeStart
  <2>2. CASE \E to \in Positions : SeekForward(to) \/ SeekBackward(to) \/ SeekBackwardFails(to)
    <3>1. PICK to \in Positions : SeekForward(to) \/ SeekBackward(to) \/ SeekBackwardFails(to)
      BY <2>2
    <3>2. to \in Nat  BY OpeningsAssumption
    <3> QED  BY <3>1, <3>2, SameTitle DEF SourceStep, QuietCall, AnchoringCall
  <2> QED  BY <2>1, <2>2 DEF SeekOpen
<1>3. SourceStands'  BY <1>2, SourceKept DEF Stands
<1>4. ClientTypes' /\ Whole'  BY <1>1 DEF Stands, ClientTypes, ClientStands, Whole
<1>5. Phases'  BY <1>1 DEF Stands, ClientStands, Phases, SeekPhases
<1>6. Want' = Want  BY <1>1 DEF Want
<1>7. Due'  BY <1>1, <1>2, <1>6 DEF Stands, ClientStands, Due, Taking, SeekPhases
<1>8. Behind' /\ Unbroken'  BY <1>1 DEF Behind, Undisturbed, Unbroken, ReadingOn, Taking
<1> QED  BY <1>3, <1>4, <1>5, <1>7, <1>8 DEF Stands, ClientStands

-----------------------------------------------------------------------------
(* Steps of a client that leave its source alone.                          *)

\* What the source says stays said.
LEMMA SourceAlone ==
  ASSUME Stands, UNCHANGED vars
  PROVE  /\ SourceStands' /\ Total' = Total /\ (Running' <=> Running)
         /\ UNCHANGED <<opos, call, last, damage>>
BY SourceRests, SameTitle DEF Stands, vars, stream, Running

\* A chapter whose answer is filed.
LEMMA Filed ==
  ASSUME Stands, NEW n \in Nat, NEW ok \in BOOLEAN, Finish(n, ok), ok => n = Want
  PROVE  segments' \in Seq(Segment) /\ Whole' /\ phase' = "idle"
<1> DEFINE s == [id |-> request.id, from |-> request.from, final |-> request.final,
                 at |-> startByte, end |-> endByte, n |-> n, ok |-> ok]
<1>1. segments \in Seq(Segment) /\ request \in Request /\ startByte \in Nat /\ endByte \in Nat
  BY DEF Stands, ClientTypes
<1>2. s \in Segment  BY <1>1 DEF Segment, Request
<1>3. s.ok => s.n = IF s.at < s.end THEN s.end - s.at ELSE 0  BY DEF Want
<1>4. IsWhole(s)  BY <1>3 DEF IsWhole
<1>5. segments' = Append(segments, s) /\ phase' = "idle"  BY DEF Finish
<1> HIDE DEF s
<1>6. /\ segments' \in Seq(Segment) /\ Len(segments') = Len(segments) + 1
      /\ \A k \in 1..Len(segments) : segments'[k] = segments[k]
      /\ segments'[Len(segments) + 1] = s
  BY <1>1, <1>2, <1>5, AppendProperties
<1>7. ASSUME NEW k \in DOMAIN segments'  PROVE IsWhole(segments'[k])
  <2>1. k \in 1..(Len(segments) + 1) /\ Len(segments) \in Nat
    BY <1>1, <1>6, LenProperties
  <2>2. CASE k \in 1..Len(segments)
    <3>1. k \in DOMAIN segments  BY <1>1, <2>2, LenProperties
    <3> QED  BY <1>6, <2>2, <3>1 DEF Stands, ClientStands, Whole
  <2>3. CASE k = Len(segments) + 1
    <3>1. segments'[k] = s  BY <1>6, <2>3
    <3> QED  BY <1>4, <3>1 DEF IsWhole
  <2> QED  BY <2>1, <2>2, <2>3
<1>8. Whole'  BY <1>7 DEF Whole, IsWhole
<1> QED  BY <1>5, <1>6, <1>8

\* A client that has nothing under way.
LEMMA IdleStands ==
  ASSUME Stands, UNCHANGED vars, ~Running, ClientTypes', Whole', phase' = "idle",
         handle' \in {"refused", "segments"}, endByte' <= Total
  PROVE  Stands'
<1>1. SourceStands' /\ Total' = Total /\ ~Running'  BY SourceAlone
<1>2. Phases'  BY <1>1 DEF Phases, SeekPhases
<1>3. Due'  BY <1>1 DEF Due, Taking, SeekPhases
<1>4. Behind' /\ Unbroken'  BY DEF Behind, Unbroken, ReadingOn, Taking
<1> QED  BY <1>1, <1>2, <1>3, <1>4 DEF Stands, ClientStands

\* A client about to seek.
LEMMA SeekingStands ==
  ASSUME Stands, UNCHANGED vars, ~Running, ClientTypes', Whole', phase' \in {"end", "start"},
         handle' \in {"fresh", "segments"}, endByte' <= Total, taken' = 0
  PROVE  Stands'
<1>1. SourceStands' /\ Total' = Total /\ ~Running'  BY SourceAlone
<1>2. Phases'  BY <1>1 DEF Phases, SeekPhases
<1>3. Due'  BY <1>1 DEF Due, Taking, SeekPhases
<1>4. Behind' /\ Unbroken'  BY DEF Behind, Unbroken, ReadingOn, Taking
<1> QED  BY <1>1, <1>2, <1>3, <1>4 DEF Stands, ClientStands

\* A client between two reads.
LEMMA BodyStands ==
  ASSUME Stands, UNCHANGED vars, ~Running, ClientTypes', Whole', phase' = "body",
         handle' \in {"open", "segments"}, endByte' <= Total, taken' <= Want',
         Undisturbed' /\ damage = "none" => opos = startByte' + taken',
         handle' = "segments" => damage = "none"
  PROVE  Stands'
<1>1. /\ SourceStands' /\ Total' = Total /\ ~Running'
      /\ UNCHANGED <<opos, call, last, damage>>
  BY SourceAlone
<1>2. Phases'  BY <1>1 DEF Phases, SeekPhases
<1>3. Due'  BY <1>1 DEF Due, Taking, SeekPhases
<1>4. Behind'  BY <1>1 DEF Behind, Taking
<1>5. Unbroken'  BY <1>1 DEF Unbroken, ReadingOn
<1> QED  BY <1>1, <1>2, <1>3, <1>4, <1>5 DEF Stands, ClientStands

\* The next chapter's request is taken from the queue.
LEMMA NextSegmentStands ==
  Stands /\ handle = "segments" /\ NextSegment /\ UNCHANGED multi => Stands'
<1> SUFFICES ASSUME Stands, handle = "segments", NextSegment, UNCHANGED multi  PROVE Stands'
  OBVIOUS
<1>1. /\ phase = "idle" /\ requests # <<>> /\ request' = Head(requests)
      /\ requests' = Tail(requests) /\ phase' = FirstPhase
      /\ endByte' = IF request'.final THEN Total ELSE 0
      /\ startByte' = 0 /\ taken' = 0 /\ UNCHANGED <<vars, segments>>
      /\ UNCHANGED <<handle, sought>>
  BY DEF NextSegment, multi
<1>2. ~Running  BY <1>1 DEF Stands, ClientStands, Phases
<1>3. Total \in Nat  BY SourceFacts DEF Stands
<1>4. requests' \in Seq(Request) /\ request' \in Request
  BY <1>1, HeadTailProperties DEF Stands, ClientTypes
<1>5. ClientTypes' /\ Whole'
  BY <1>1, <1>3, <1>4 DEF Stands, ClientTypes, ClientStands, Whole
<1>6. phase' \in {"end", "start"}  BY <1>1 DEF FirstPhase
<1>7. endByte' <= Total  BY <1>1, <1>3
<1> QED  BY <1>1, <1>2, <1>5, <1>6, <1>7, SeekingStands

LEMMA EndFoundStands == Stands /\ EndFound /\ UNCHANGED multi => Stands'
<1> SUFFICES ASSUME Stands, EndFound, UNCHANGED multi  PROVE Stands'
  OBVIOUS
<1>1. /\ phase = "ended" /\ ~Running /\ last.op = "land" /\ endByte' = last.n /\ phase' = "start"
      /\ UNCHANGED vars /\ UNCHANGED <<requests, request, startByte, taken, segments, handle, sought>>
  BY DEF EndFound, Answered, multi
<1>2. damage = "none" /\ last.n = opos  BY <1>1 DEF Stands, SourceStands, Landed
<1>3. endByte' \in Nat /\ endByte' <= Total  BY <1>1, <1>2, SourceFacts DEF Stands
<1>4. ClientTypes' /\ Whole'
  BY <1>1, <1>3 DEF Stands, ClientTypes, ClientStands, Whole
<1>5. handle' \in {"fresh", "segments"} /\ taken' = 0
  BY <1>1 DEF Stands, ClientStands, ClientTypes, Phases, Due, SeekPhases
<1> QED  BY <1>1, <1>3, <1>4, <1>5, SeekingStands

\* The chapter's first byte is found: the source stands at it.
LEMMA StartFoundStands ==
  ASSUME Stands, StartFound, sought' = sought,
         \/ handle' = "open"
         \/ handle = "segments" /\ handle' = "segments"
  PROVE  Stands'
<1>1. /\ phase = "started" /\ ~Running /\ last.op = "land" /\ startByte' = last.n
      /\ phase' = "body" /\ UNCHANGED vars
      /\ UNCHANGED <<requests, request, endByte, taken, segments>>
  BY DEF StartFound, Answered
<1>2. damage = "none" /\ last.n = opos  BY <1>1 DEF Stands, SourceStands, Landed
<1>3. opos \in Nat  BY SourceFacts DEF Stands
<1>4. taken = 0 /\ endByte <= Total  BY <1>1 DEF Stands, ClientStands, Due, SeekPhases
<1>5. ClientTypes' /\ Whole'
  BY <1>1, <1>2, <1>3 DEF Stands, ClientTypes, ClientStands, Whole
<1>6. Want' \in Nat
  <2>1. \A a, b \in Nat : (IF a < b THEN b - a ELSE 0) \in Nat  OBVIOUS
  <2>2. startByte' \in Nat /\ endByte' \in Nat  BY <1>5 DEF ClientTypes
  <2> QED  BY <2>1, <2>2 DEF Want
<1>7. taken' <= Want' /\ opos = startByte' + taken'  BY <1>1, <1>2, <1>3, <1>4, <1>6
<1> QED  BY <1>1, <1>2, <1>4, <1>5, <1>7, BodyStands

\* A chapter a ChapterSegments reads does not meet the end of the title before
\* its own; nor does one behind a URI whose caller leaves the source alone.
LEMMA NoEarlyEnd ==
  ASSUME Stands, Taking, ~Running, Undisturbed, damage = "none", last.op = "eof"
  PROVE  FALSE
<1>1. opos = Total  BY DEF Stands, SourceStands, Outcome, EofAtEnd
<1>2. opos = startByte + taken + last.n  BY DEF Stands, ClientStands, Behind
<1>3. taken < Want /\ taken + last.n <= Want /\ endByte <= Total
  BY DEF Stands, ClientStands, Due
<1>4. /\ startByte \in Nat /\ taken \in Nat /\ endByte \in Nat
      /\ Want \in Nat /\ (Want > 0 => startByte + Want = endByte)
  BY WantFacts DEF Stands, ClientTypes
<1>5. last.n \in Nat /\ Total \in Nat  BY SourceFacts DEF Stands
<1>6. last.n = 0  BY DEF Stands, SourceStands, Landed
<1> QED  BY <1>1, <1>2, <1>3, <1>4, <1>5, <1>6

LEMMA ReadAnsweredStands ==
  Stands /\ handle = "segments" /\ ReadAnswered /\ UNCHANGED multi => Stands'
<1> SUFFICES ASSUME Stands, handle = "segments", ReadAnswered, UNCHANGED multi  PROVE Stands'
  OBVIOUS
<1>1. /\ phase = "reading" /\ ~Running /\ last.op \in {"bytes", "eof"}
      /\ taken' = taken + last.n
      /\ IF last.n = 0 THEN Finish(taken, TRUE) ELSE phase' = "body" /\ UNCHANGED segments
      /\ UNCHANGED vars
      /\ UNCHANGED <<requests, request, endByte, startByte, handle, sought>>
  BY DEF ReadAnswered, Answered, multi
<1>2. Taking /\ Undisturbed /\ damage = "none"
  BY <1>1 DEF Taking, Undisturbed, Stands, ClientStands, Unbroken, ReadingOn
<1>3. last.op = "bytes" /\ last.n > 0
  BY <1>1, <1>2, NoEarlyEnd DEF Stands, SourceStands, Landed
<1>4. last.n \in Nat /\ opos \in Nat  BY SourceFacts DEF Stands
<1>5. phase' = "body" /\ UNCHANGED segments
  <2>1. last.n # 0  BY <1>3, <1>4
  <2> QED  BY <1>1, <2>1
<1>6. ClientTypes' /\ Whole'
  BY <1>1, <1>4, <1>5 DEF Stands, ClientTypes, ClientStands, Whole
<1>7. /\ opos = startByte + taken + last.n
      /\ taken + last.n <= Want /\ endByte <= Total /\ Want' = Want
  BY <1>1, <1>2 DEF Stands, ClientStands, Behind, Due, Want
<1>8. startByte \in Nat /\ taken \in Nat  BY DEF Stands, ClientTypes
<1>9. opos = startByte' + taken'  BY <1>1, <1>4, <1>7, <1>8
<1> QED  BY <1>1, <1>2, <1>5, <1>6, <1>7, <1>9, BodyStands

LEMMA ChapterReadStands ==
  Stands /\ handle = "segments" /\ ChapterRead /\ UNCHANGED multi => Stands'
<1> SUFFICES ASSUME Stands, handle = "segments", ChapterRead, UNCHANGED multi  PROVE Stands'
  OBVIOUS
<1>1. /\ phase = "body" /\ taken >= Want /\ Finish(taken, TRUE) /\ UNCHANGED vars
      /\ UNCHANGED <<requests, request, endByte, startByte, taken, handle, sought>>
  BY DEF ChapterRead, progress, multi
<1>2. taken \in Nat /\ Want \in Nat  BY WantFacts DEF Stands, ClientTypes
<1>3. ~Running /\ endByte <= Total /\ taken <= Want
  BY <1>1 DEF Stands, ClientStands, Phases, Due, SeekPhases
<1>4. taken = Want  BY <1>1, <1>2, <1>3
<1>5. segments' \in Seq(Segment) /\ Whole' /\ phase' = "idle"  BY <1>1, <1>2, <1>4, Filed
<1>6. ClientTypes'  BY <1>1, <1>5 DEF Stands, ClientTypes
<1> QED  BY <1>1, <1>3, <1>5, <1>6, IdleStands

LEMMA ChapterFailsStands ==
  Stands /\ handle = "segments" /\ ChapterFails /\ UNCHANGED multi => Stands'
<1> SUFFICES ASSUME Stands, handle = "segments", ChapterFails, UNCHANGED multi  PROVE Stands'
  OBVIOUS
<1>1. /\ ~Running /\ Finish(taken, FALSE) /\ UNCHANGED vars
      /\ UNCHANGED <<requests, request, endByte, startByte, taken, handle, sought>>
  BY DEF ChapterFails, Broken, Answered, progress, multi
<1>2. taken \in Nat /\ endByte <= Total  BY DEF Stands, ClientTypes, ClientStands, Due
<1>3. segments' \in Seq(Segment) /\ Whole' /\ phase' = "idle"  BY <1>1, <1>2, Filed
<1>4. ClientTypes'  BY <1>1, <1>3 DEF Stands, ClientTypes
<1> QED  BY <1>1, <1>2, <1>3, <1>4, IdleStands

LEMMA OpenTitleStands == Stands /\ OpenTitle => Stands'
<1> SUFFICES ASSUME Stands, OpenTitle  PROVE Stands'
  OBVIOUS
<1>1. /\ handle = "fresh" /\ phase = "idle" /\ UNCHANGED vars
      /\ UNCHANGED <<requests, request, startByte, taken, segments, sought>>
      /\ \/ handle' = "refused" /\ UNCHANGED <<phase, endByte>>
         \/ /\ phase' \in {"end", "start"} /\ endByte' \in {Total, 0} /\ UNCHANGED handle
  BY DEF OpenTitle
<1>2. ~Running /\ taken = 0 /\ endByte <= Total
  BY <1>1 DEF Stands, ClientStands, Phases, Due
<1>3. Total \in Nat  BY SourceFacts DEF Stands
<1>4. ClientTypes' /\ Whole'
  BY <1>1, <1>3 DEF Stands, ClientTypes, ClientStands, Whole
<1>5. CASE handle' = "refused" /\ UNCHANGED <<phase, endByte>>
  BY <1>1, <1>2, <1>4, <1>5, IdleStands
<1>6. CASE phase' \in {"end", "start"} /\ endByte' \in {Total, 0} /\ UNCHANGED handle
  <2>1. endByte' <= Total  BY <1>3, <1>6
  <2> QED  BY <1>1, <1>2, <1>4, <1>6, <2>1, SeekingStands
<1> QED  BY <1>1, <1>5, <1>6

LEMMA OpenFailsStands == Stands /\ OpenFails => Stands'
<1> SUFFICES ASSUME Stands, OpenFails  PROVE Stands'
  OBVIOUS
<1>1. /\ ~Running /\ phase' = "idle" /\ handle' = "refused" /\ UNCHANGED vars
      /\ UNCHANGED <<requests, request, endByte, startByte, taken, segments, sought>>
  BY DEF OpenFails, Answered, progress
<1>2. ClientTypes' /\ Whole' /\ endByte' <= Total
  BY <1>1 DEF Stands, ClientTypes, ClientStands, Whole, Due
<1> QED  BY <1>1, <1>2, IdleStands

LEMMA ReadDoneStands == Stands /\ ReadDone => Stands'
<1> SUFFICES ASSUME Stands, ReadDone  PROVE Stands'
  OBVIOUS
<1>1. /\ handle = "open" /\ phase = "handing" /\ ~Running /\ taken' = taken + last.n
      /\ phase' = "body" /\ UNCHANGED vars
      /\ UNCHANGED <<requests, request, endByte, startByte, segments, handle, sought>>
  BY DEF ReadDone, Answered, multi
<1>2. last.n \in Nat  BY SourceFacts DEF Stands
<1>3. startByte \in Nat /\ taken \in Nat  BY DEF Stands, ClientTypes
<1>4. /\ Undisturbed /\ damage = "none" => opos = startByte + taken + last.n
      /\ taken + last.n <= Want /\ endByte <= Total /\ Want' = Want
  BY <1>1 DEF Stands, ClientStands, Behind, Due, Taking, Want
<1>5. ClientTypes' /\ Whole'
  BY <1>1, <1>2, <1>3 DEF Stands, ClientTypes, ClientStands, Whole
<1>6. Undisturbed' /\ damage = "none" => opos = startByte' + taken'
  BY <1>1, <1>2, <1>3, <1>4 DEF Undisturbed
<1> QED  BY <1>1, <1>4, <1>5, <1>6, BodyStands

LEMMA SeekDoneStands == Stands /\ SeekDone => Stands'
<1> SUFFICES ASSUME Stands, SeekDone  PROVE Stands'
  OBVIOUS
<1>1. /\ handle = "open" /\ phase = "seeking" /\ ~Running /\ phase' = "body" /\ UNCHANGED vars
      /\ UNCHANGED <<requests, request, endByte, startByte, taken, segments, handle, sought>>
  BY DEF SeekDone, Answered, progress, multi
<1>2. sought /\ taken <= Want /\ endByte <= Total
  BY <1>1 DEF Stands, ClientStands, Phases, Due, SeekPhases
<1>3. ClientTypes' /\ Whole'  BY <1>1 DEF Stands, ClientTypes, ClientStands, Whole
<1>4. ~Undisturbed' /\ Want' = Want  BY <1>1, <1>2 DEF Undisturbed, Want
<1> QED  BY <1>1, <1>2, <1>3, <1>4, BodyStands

-----------------------------------------------------------------------------
(* The theorems.                                                           *)

LEMMA StandsInit == MultiInit => Stands
<1> SUFFICES ASSUME MultiInit  PROVE Stands
  OBVIOUS
<1>1. /\ Init /\ phase = "idle" /\ endByte = 0 /\ startByte = 0 /\ taken = 0
      /\ segments = <<>> /\ sought = FALSE /\ handle \in {"segments", "fresh"}
  BY DEF MultiInit, SegInit
<1>2. requests \in Seq(Request) /\ request \in Request
  <2>1. CASE handle = "segments" /\ SegInit
    BY <2>1, SelectionsAssumption DEF SegInit, Request, NoChapter
  <2>2. CASE handle = "fresh"
    <3>1. \E o \in Openings : request = o.request /\ requests = <<>>
      BY <2>2 DEF MultiInit
    <3> QED  BY <3>1, OpeningsAssumption DEF Request
  <2> QED  BY <2>1, <2>2 DEF MultiInit
<1>3. SourceStands  BY <1>1, SourceInit
<1>4. ~Running /\ Total \in Nat  BY <1>1, <1>3, SourceFacts DEF Init, Running, Idle
<1>5. ClientTypes
  <2>1. <<>> \in Seq(Segment) /\ FALSE \in BOOLEAN /\ 0 \in Nat  OBVIOUS
  <2>2. segments \in Seq(Segment) /\ sought \in BOOLEAN
        /\ endByte \in Nat /\ startByte \in Nat /\ taken \in Nat
    BY <1>1, <2>1
  <2>3. handle \in {"fresh", "refused", "open", "segments"}  BY <1>1
  <2> QED  BY <1>1, <1>2, <2>2, <2>3 DEF ClientTypes
<1>6. Phases  BY <1>1, <1>4 DEF Phases, SeekPhases
<1>7. Due  BY <1>1, <1>4 DEF Due, Taking, SeekPhases
<1>8. Behind /\ Unbroken  BY <1>1 DEF Behind, Unbroken, ReadingOn, Taking
<1>9. Whole  BY <1>1 DEF Whole
<1> QED  BY <1>3, <1>5, <1>6, <1>7, <1>8, <1>9 DEF Stands, ClientStands

LEMMA StandsNext == Stands /\ [MultiNext]_multiVars => Stands'
<1> SUFFICES ASSUME Stands, [MultiNext]_multiVars  PROVE Stands'
  OBVIOUS
<1>1. CASE UNCHANGED multiVars
  <2>1. UNCHANGED vars
        /\ UNCHANGED <<requests, request, endByte, startByte, taken, phase, segments, handle, sought>>
    BY <1>1 DEF multiVars, segVars, client, progress, multi
  <2>2. /\ SourceStands' /\ Total' = Total /\ (Running' <=> Running) /\ Want' = Want
        /\ UNCHANGED <<opos, call, last, damage>>
    BY <2>1, SourceAlone DEF Want
  <2>3. ClientTypes' /\ Whole'  BY <2>1 DEF Stands, ClientTypes, ClientStands, Whole
  <2>4. Phases'  BY <2>1, <2>2 DEF Stands, ClientStands, Phases
  <2>5. Due'  BY <2>1, <2>2 DEF Stands, ClientStands, Due, Taking
  <2>6. Behind' /\ Unbroken'
    BY <2>1, <2>2 DEF Stands, ClientStands, Behind, Undisturbed, Unbroken, ReadingOn, Taking
  <2> QED  BY <2>2, <2>3, <2>4, <2>5, <2>6 DEF Stands, ClientStands
<1>2. CASE handle = "segments" /\ SegNext /\ UNCHANGED multi
  <2>1. UNCHANGED <<handle, sought>>  BY <1>2 DEF multi
  <2>2. CASE Step /\ UNCHANGED client  BY <1>2, <2>2, SourceRuns
  <2> QED
    BY <1>2, <2>1, <2>2, NextSegmentStands, SeekEndStands, EndFoundStands, SeekStartStands,
       StartFoundStands, ReadMoreStands, ReadAnsweredStands, ChapterReadStands,
       ChapterFailsStands DEF SegNext, ReadOne
<1>3. CASE handle # "segments" /\ (OpenTitle \/ TitleCall \/ SeekOpen \/ \E n \in 1..MaxRead : Read(n))
  <2>1. CASE Bounded  BY <2>1, StartFoundStands DEF Bounded
  <2>2. CASE Positioning
    BY <2>2, SeekEndStands, EndFoundStands, SeekStartStands DEF Positioning
  <2>3. CASE Step /\ UNCHANGED <<client, multi>>  BY <2>3, SourceRuns
  <2> QED
    BY <1>3, <2>1, <2>2, <2>3, OpenTitleStands, OpenFailsStands, ReadDoneStands, SeekDoneStands,
       SeekOpenStands, ReadStands DEF TitleCall
<1> QED  BY <1>1, <1>2, <1>3 DEF MultiNext

\* The source's invariants and the client's count of bytes, together.
THEOREM ClientsStand == MultiSpec => []Stands
BY StandsInit, StandsNext, PTL DEF MultiSpec

\* The bytes of a chapter read by a ChapterSegments are one run of the title's
\* bytes, and a chapter that is returned is whole, whatever failed before.
THEOREM ChaptersAreRuns == MultiSpec => []SegmentsAreRuns
<1>1. Stands => SegmentsAreRuns
  <2> SUFFICES ASSUME Stands  PROVE SegmentsAreRuns
    OBVIOUS
  <2>1. ASSUME phase = "reading", last.op = "bytes"
        PROVE  last.at = startByte + taken
    <3>1. handle = "segments"
      BY <2>1 DEF Stands, ClientTypes, ClientStands, Phases, SeekPhases
    <3>2. damage = "none"  BY <2>1, <3>1 DEF Stands, ClientStands, Unbroken, ReadingOn
    <3>3. opos = startByte + taken + last.n
      BY <2>1, <3>1, <3>2 DEF Stands, ClientStands, Behind, Undisturbed, Taking
    <3>4. last.at + last.n = opos
      BY <2>1, <3>2 DEF Stands, SourceStands, Outcome, BytesAtCursor
    <3>5. last.at \in Nat /\ last.n \in Nat /\ startByte \in Nat /\ taken \in Nat
      BY SourceFacts DEF Stands, ClientTypes
    <3> QED  BY <3>3, <3>4, <3>5
  <2>2. Whole  BY DEF Stands, ClientStands
  <2> QED  BY <2>1, <2>2 DEF SegmentsAreRuns, Whole, IsWhole
<1> QED  BY <1>1, ClientsStand, PTL

\* A source behind a URI never gives more than its chapter, and gives exactly its
\* chapter to a caller that only reads.
THEOREM ChapterIsKept == MultiSpec => []BoundedKeepsChapter
<1>1. Stands => BoundedKeepsChapter
  <2> SUFFICES ASSUME Stands, handle = "open"  PROVE BoundedKeepsChapter
    BY DEF BoundedKeepsChapter
  <2>1. phase \in {"body", "handing", "seeking"}  BY DEF Stands, ClientStands, Phases
  <2>2. taken \in Nat /\ startByte \in Nat /\ last.at \in Nat /\ last.n \in Nat
    BY SourceFacts DEF Stands, ClientTypes
  <2>3. taken <= Want /\ (phase = "handing" /\ ~Running => taken + last.n <= Want)
    BY <2>1 DEF Stands, ClientStands, Due, Taking, SeekPhases
  <2>4. ASSUME phase = "handing", ~Running, ~sought, damage = "none"
        PROVE  (last.op = "bytes" => last.at = startByte + taken) /\ last.op # "eof"
    <3>1. Taking /\ Undisturbed  BY <2>4 DEF Taking, Undisturbed
    <3>2. opos = startByte + taken + last.n
      BY <2>4, <3>1 DEF Stands, ClientStands, Behind
    <3>3. last.op = "bytes" => last.at + last.n = opos
      BY <2>4 DEF Stands, SourceStands, Outcome, BytesAtCursor
    <3>4. last.op # "eof"  BY <2>4, <3>1, NoEarlyEnd
    <3> QED  BY <2>2, <3>2, <3>3, <3>4
  <2>5. taken + (IF phase = "handing" /\ Answered THEN last.n ELSE 0) <= Want
    BY <2>2, <2>3 DEF Answered
  <2> QED  BY <2>4, <2>5 DEF BoundedKeepsChapter, Answered
<1> QED  BY <1>1, ClientsStand, PTL

-----------------------------------------------------------------------------
(* Chapters that join.  What a ChapterSegments has found of a request is   *)
(* the landing of its times, which OneLanding makes the same byte whoever  *)
(* looks for it.                                                           *)

Asked(sel) == {sel.requests[k] : k \in DOMAIN sel.requests}
EndsAt(r, n) == IF r.final THEN n = Total ELSE Lands(Clips, r.to, n)

\* The call of seek_to under way, or its answer, is for this time.
LandCall(pts) ==
  /\ Running => call.op = "land" /\ call.want = pts
  /\ last.op = "land" => last.at = pts

IsPart(r, s) ==
  /\ s.id = r.id /\ s.from = r.from /\ s.final = r.final
  /\ s.ok => Lands(Clips, r.from, s.at) /\ EndsAt(r, s.end)

Found(sel) ==
  /\ \A k \in DOMAIN requests : requests[k] \in Asked(sel)
  /\ phase # "idle" => request \in Asked(sel)
  /\ phase \in {"end", "ended"} => ~request.final
  /\ phase = "ended" => LandCall(request.to)
  /\ phase = "started" => LandCall(request.from)
  /\ phase \in {"start", "started", "body", "reading"} => EndsAt(request, endByte)
  /\ phase \in {"body", "reading"} => Lands(Clips, request.from, startByte)
  /\ \A k \in DOMAIN segments : \E r \in Asked(sel) : IsPart(r, segments[k])

Finds ==
  /\ handle = "segments" => \E sel \in Selections : Found(sel)
  /\ handle # "segments" => segments = <<>>

\* No step of a ChapterSegments changes the clips.
LEMMA SameClips == SegNext => Clips' = Clips /\ Total' = Total
<1> SUFFICES ASSUME SegNext  PROVE UNCHANGED <<title, angle>>
  BY DEF Clips, Total, Index
<1> QED
  BY DEF SegNext, ReadOne, NextSegment, SeekEnd, EndFound, SeekStart, StartFound, ReadMore,
         ReadAnswered, ChapterRead, ChapterFails, SeekTo, ReadCall, vars,
         Step, EndOfStream, Deliver, StageUnit, NextClip, NextClipFails, ReadFails, DecryptFails

\* A step within a chapter keeps what was found when it ends where it should.
LEMMA FoundMoves ==
  ASSUME NEW sel, Found(sel), Clips' = Clips, Total' = Total, phase # "idle",
         UNCHANGED <<requests, request, segments>>,
         phase' \in {"end", "ended"} => ~request.final,
         phase' = "ended" => LandCall(request.to)',
         phase' = "started" => LandCall(request.from)',
         phase' \in {"start", "started", "body", "reading"} => EndsAt(request, endByte)',
         phase' \in {"body", "reading"} => Lands(Clips, request.from, startByte')
  PROVE  Found(sel)'
<1>1. request' \in Asked(sel) /\ \A k \in DOMAIN requests' : requests'[k] \in Asked(sel)
  BY DEF Found
<1>2. ASSUME NEW k \in DOMAIN segments'  PROVE \E r \in Asked(sel) : IsPart(r, segments[k])'
  <2>1. PICK r \in Asked(sel) : IsPart(r, segments[k])  BY <1>2 DEF Found
  <2>2. IsPart(r, segments[k])'  BY <2>1 DEF IsPart, EndsAt
  <2> QED  BY <2>2
<1> QED  BY <1>1, <1>2 DEF Found

\* The end found stays found while a chapter is read.
LEMMA EndKept ==
  ASSUME NEW sel, Found(sel), Clips' = Clips, Total' = Total, UNCHANGED <<request, endByte>>,
         phase \in {"start", "started", "body", "reading"}
  PROVE  EndsAt(request, endByte)'
BY DEF Found, EndsAt

\* A chapter that is filed is the one that was asked for.
LEMMA FoundFiled ==
  ASSUME NEW sel, Found(sel), Stands, Clips' = Clips, Total' = Total, phase # "idle",
         NEW n, NEW ok \in BOOLEAN, Finish(n, ok), UNCHANGED requests,
         ok => phase \in {"body", "reading"}
  PROVE  Found(sel)'
<1> DEFINE s == [id |-> request.id, from |-> request.from, final |-> request.final,
                 at |-> startByte, end |-> endByte, n |-> n, ok |-> ok]
<1>1. segments \in Seq(Segment)  BY DEF Stands, ClientTypes
<1>2. segments' = Append(segments, s) /\ phase' = "idle"  BY DEF Finish
<1>3. request \in Asked(sel) /\ \A k \in DOMAIN requests' : requests'[k] \in Asked(sel)
  BY DEF Found
<1>4. s.ok => Lands(Clips, request.from, s.at) /\ EndsAt(request, s.end)  BY DEF Found
<1>5. IsPart(request, s)  BY <1>4 DEF IsPart
<1> HIDE DEF s
<1>6. /\ Len(segments') = Len(segments) + 1 /\ DOMAIN segments' = 1..(Len(segments) + 1)
      /\ Len(segments) \in Nat /\ DOMAIN segments = 1..Len(segments)
      /\ \A k \in 1..Len(segments) : segments'[k] = segments[k]
      /\ segments'[Len(segments) + 1] = s
  BY <1>1, <1>2
<1>7. ASSUME NEW k \in DOMAIN segments'
      PROVE  \E r \in Asked(sel) : IsPart(r, segments'[k])
  <2>1. CASE k = Len(segments) + 1  BY <1>3, <1>5, <1>6, <2>1
  <2>2. CASE k # Len(segments) + 1
    <3>1. k \in DOMAIN segments /\ segments'[k] = segments[k]  BY <1>6, <1>7, <2>2
    <3> QED  BY <3>1 DEF Found
  <2> QED  BY <2>1, <2>2
<1>8. ASSUME NEW k \in DOMAIN segments'
      PROVE  \E r \in Asked(sel) : IsPart(r, segments[k])'
  <2>1. PICK r \in Asked(sel) : IsPart(r, segments'[k])  BY <1>7, <1>8
  <2>2. IsPart(r, segments[k])'  BY <2>1 DEF IsPart, EndsAt
  <2> QED  BY <2>2
<1> QED  BY <1>2, <1>3, <1>8 DEF Found

\* What seek_to starts, and what it answers, is for the time it was given.
LEMMA SeekToCall ==
  ASSUME NEW pts, SeekTo(pts)
  PROVE  /\ Running' => call'.op = "land" /\ call'.want = pts
         /\ last'.op = "land" => last'.at = pts
<1>1. ASSUME NEW clips, NEW c, NEW p, PositionAt(clips, c, p, pts)
      PROVE  /\ Running' => call'.op = "land" /\ call'.want = pts
             /\ last'.op = "land" => last'.at = pts
  BY <1>1 DEF PositionAt, Discard, Start, Return, Running, Idle, NoResult, Result
<1>2. ASSUME NEW clips, NEW c, PositionFails(clips, c)
      PROVE  ~Running' /\ last'.op # "land"
  BY <1>2 DEF PositionFails, Fail, Return, Running, Idle, Result
<1> QED  BY <1>1, <1>2 DEF SeekTo

\* A call goes on as it was started, and answers for what it was asked.
LEMMA StepCall ==
  ASSUME Typed, Step
  PROVE  /\ Running' => call' = call
         /\ last'.op = "land" => call.op = "land" /\ last'.at = call.want
<1>1. last = NoResult /\ Running
  BY DEF Step, EndOfStream, Deliver, StageUnit, NextClip, NextClipFails, ReadFails,
         DecryptFails, AtClipEnd, Refilling, Typed, Ahead
<1>2. CASE EndOfStream
  <2>1. /\ call' = Idle
        /\ last' = IF call.op = "read" THEN Result("eof", opos, 0)
                                       ELSE Result(call.op, call.want, opos)
    BY <1>2 DEF EndOfStream, Return
  <2> QED  BY <2>1 DEF Running, Idle, Result
<1>3. CASE Deliver
  <2> DEFINE take == Lesser(Left, call.goal - opos)
  <2>1. IF call.op = "read" THEN Return(Result("bytes", Origin, take))
        ELSE IF opos + take = call.goal THEN Return(Result(call.op, call.want, call.goal))
        ELSE UNCHANGED <<call, last>>
    BY <1>3 DEF Deliver
  <2> HIDE DEF take
  <2>2. \/ call' = Idle /\ (last'.op = "bytes" \/ last' = Result(call.op, call.want, call.goal))
        \/ UNCHANGED <<call, last>>
    BY <2>1 DEF Return, Result
  <2> QED  BY <1>1, <2>2 DEF Running, Idle, NoResult, Result
<1>4. CASE StageUnit \/ NextClip
  <2>1. UNCHANGED <<call, last>>  BY <1>4 DEF StageUnit, NextClip
  <2> QED  BY <1>1, <2>1 DEF NoResult, Result
<1>5. CASE NextClipFails \/ ReadFails \/ DecryptFails
  <2>1. call' = Idle /\ last' = Result("error", 0, 0)
    BY <1>5 DEF NextClipFails, ReadFails, DecryptFails, Fail, Return
  <2> QED  BY <2>1 DEF Running, Idle, Result
<1> QED  BY <1>2, <1>3, <1>4, <1>5 DEF Step

\* The next chapter is the first of those still to be read.
LEMMA FoundFirst ==
  ASSUME NEW sel, Found(sel), Stands, NextSegment
  PROVE  Found(sel)'
<1>1. /\ requests # <<>> /\ request' = Head(requests) /\ requests' = Tail(requests)
      /\ phase' = (IF request'.final THEN "start" ELSE "end")
      /\ endByte' = (IF request'.final THEN Total ELSE 0) /\ UNCHANGED <<vars, segments>>
  BY DEF NextSegment, FirstPhase
<1>2. Clips' = Clips /\ Total' = Total  BY SameClips DEF SegNext
<1>3. requests \in Seq(Request)  BY DEF Stands, ClientTypes
<1>4. /\ 1 \in DOMAIN requests /\ request' = requests[1]
      /\ \A k \in DOMAIN requests' : k + 1 \in DOMAIN requests /\ requests'[k] = requests[k + 1]
  BY <1>1, <1>3
<1>5. request' \in Asked(sel) /\ \A k \in DOMAIN requests' : requests'[k] \in Asked(sel)
  BY <1>4 DEF Found
<1>6. phase' = "start" => EndsAt(request, endByte)'
  <2>1. phase' = "start" => request'.final  BY <1>1
  <2> QED  BY <1>1, <1>2, <2>1 DEF EndsAt
<1>7. phase' = "end" => ~request'.final  BY <1>1
<1>8. ASSUME NEW k \in DOMAIN segments'  PROVE \E r \in Asked(sel) : IsPart(r, segments[k])'
  <2>1. PICK r \in Asked(sel) : IsPart(r, segments[k])  BY <1>1, <1>8 DEF Found
  <2>2. IsPart(r, segments[k])'  BY <1>1, <1>2, <2>1 DEF IsPart, EndsAt
  <2> QED  BY <2>2
<1>9. phase' \in {"start", "end"}  BY <1>1
<1> QED  BY <1>5, <1>6, <1>7, <1>8, <1>9 DEF Found

LEMMA FoundNext ==
  ASSUME NEW sel, Found(sel), Stands, handle = "segments", SegNext
  PROVE  Found(sel)'
<1>1. Clips' = Clips /\ Total' = Total  BY SameClips
<1>2. Typed /\ Aimed  BY DEF Stands, SourceStands
<1>3. CASE NextSegment  BY <1>3, FoundFirst
<1>4. CASE SeekEnd
  <2>1. /\ phase = "end" /\ SeekTo(request.to) /\ phase' = "ended"
        /\ UNCHANGED <<requests, request, segments>>
    BY <1>4 DEF SeekEnd, progress
  <2>2. ~request.final  BY <2>1 DEF Found
  <2>3. LandCall(request.to)'  BY <2>1, SeekToCall DEF LandCall
  <2> QED  BY <1>1, <2>1, <2>2, <2>3, FoundMoves
<1>5. CASE EndFound
  <2>1. /\ phase = "ended" /\ last.op = "land" /\ endByte' = last.n /\ phase' = "start"
        /\ UNCHANGED <<requests, request, segments>>
    BY <1>5 DEF EndFound
  <2>2. ~request.final /\ last.at = request.to  BY <2>1 DEF Found, LandCall
  <2>3. Lands(Clips, request.to, endByte')  BY <1>2, <2>1, <2>2 DEF Aimed
  <2>4. EndsAt(request, endByte)'  BY <1>1, <2>1, <2>2, <2>3 DEF EndsAt
  <2> QED  BY <1>1, <2>1, <2>4, FoundMoves
<1>6. CASE SeekStart
  <2>1. /\ phase = "start" /\ SeekTo(request.from) /\ phase' = "started"
        /\ UNCHANGED <<requests, request, endByte, segments>>
    BY <1>6 DEF SeekStart, progress
  <2>2. LandCall(request.from)'  BY <2>1, SeekToCall DEF LandCall
  <2>3. EndsAt(request, endByte)'  BY <1>1, <2>1, EndKept
  <2> QED  BY <1>1, <2>1, <2>2, <2>3, FoundMoves
<1>7. CASE StartFound
  <2>1. /\ phase = "started" /\ last.op = "land" /\ startByte' = last.n /\ phase' = "body"
        /\ UNCHANGED <<requests, request, endByte, segments>>
    BY <1>7 DEF StartFound
  <2>2. last.at = request.from  BY <2>1 DEF Found, LandCall
  <2>3. Lands(Clips, request.from, startByte')  BY <1>2, <2>1, <2>2 DEF Aimed
  <2>4. EndsAt(request, endByte)'  BY <1>1, <2>1, EndKept
  <2> QED  BY <1>1, <2>1, <2>3, <2>4, FoundMoves
<1>8. CASE ReadMore
  <2>1. /\ phase = "body" /\ phase' = "reading"
        /\ UNCHANGED <<requests, request, endByte, startByte, segments>>
    BY <1>8 DEF ReadMore, progress
  <2>2. Lands(Clips, request.from, startByte')  BY <2>1 DEF Found
  <2>3. EndsAt(request, endByte)'  BY <1>1, <2>1, EndKept
  <2> QED  BY <1>1, <2>1, <2>2, <2>3, FoundMoves
<1>9. CASE ReadAnswered
  <2>1. /\ phase = "reading" /\ UNCHANGED <<requests, request, endByte, startByte>>
        /\ IF last.n = 0 THEN Finish(taken, TRUE) ELSE phase' = "body" /\ UNCHANGED segments
    BY <1>9 DEF ReadAnswered
  <2>2. CASE last.n = 0
    <3>1. Finish(taken, TRUE)  BY <2>1, <2>2
    <3> QED  BY <1>1, <2>1, <3>1, FoundFiled
  <2>3. CASE last.n # 0
    <3>1. phase' = "body" /\ UNCHANGED segments  BY <2>1, <2>3
    <3>2. Lands(Clips, request.from, startByte')  BY <2>1 DEF Found
    <3>3. EndsAt(request, endByte)'  BY <1>1, <2>1, EndKept
    <3> QED  BY <1>1, <2>1, <3>1, <3>2, <3>3, FoundMoves
  <2> QED  BY <2>2, <2>3
<1>10. CASE ChapterRead
  <2>1. phase = "body" /\ Finish(taken, TRUE) /\ UNCHANGED requests  BY <1>10 DEF ChapterRead
  <2> QED  BY <1>1, <2>1, FoundFiled
<1>11. CASE ChapterFails
  <2>1. phase # "idle" /\ Finish(taken, FALSE) /\ UNCHANGED requests
    BY <1>11 DEF ChapterFails, Broken
  <2> QED  BY <1>1, <2>1, FoundFiled
<1>12. CASE Step /\ UNCHANGED client
  <2>1. UNCHANGED <<requests, request, endByte, startByte, phase, segments>>
    BY <1>12 DEF client, progress
  <2>2. phase # "idle"
    <3>1. Running
      BY <1>12 DEF Step, EndOfStream, Deliver, StageUnit, NextClip, NextClipFails, ReadFails,
                   DecryptFails, AtClipEnd, Refilling
    <3> QED  BY <3>1 DEF Stands, ClientStands, Phases
  <2>3. ASSUME NEW pts, LandCall(pts)
        PROVE  /\ Running' => call'.op = "land" /\ call'.want = pts
               /\ last'.op = "land" => last'.at = pts
    <3>1. Running
      BY <1>12 DEF Step, EndOfStream, Deliver, StageUnit, NextClip, NextClipFails, ReadFails,
                   DecryptFails, AtClipEnd, Refilling
    <3>2. call.op = "land" /\ call.want = pts  BY <2>3, <3>1 DEF LandCall
    <3> QED  BY <1>2, <1>12, <3>2, StepCall
  <2>4. phase = "ended" => LandCall(request.to)'
    <3>1. phase = "ended" => LandCall(request.to)  BY DEF Found
    <3> QED  BY <2>1, <2>3, <3>1 DEF LandCall
  <2>5. phase = "started" => LandCall(request.from)'
    <3>1. phase = "started" => LandCall(request.from)  BY DEF Found
    <3> QED  BY <2>1, <2>3, <3>1 DEF LandCall
  <2>6. phase \in {"body", "reading"} => Lands(Clips, request.from, startByte')
    BY <2>1 DEF Found
  <2>7. phase \in {"start", "started", "body", "reading"} => EndsAt(request, endByte)'
    BY <1>1, <2>1, EndKept
  <2>8. phase \in {"end", "ended"} => ~request.final  BY DEF Found
  <2> QED  BY <1>1, <2>1, <2>2, <2>4, <2>5, <2>6, <2>7, <2>8, FoundMoves
<1> QED
  BY <1>3, <1>4, <1>5, <1>6, <1>7, <1>8, <1>9, <1>10, <1>11, <1>12 DEF SegNext, ReadOne

LEMMA FindsInit == MultiInit => Finds
<1> SUFFICES ASSUME MultiInit  PROVE Finds
  OBVIOUS
<1>1. ASSUME handle = "segments"  PROVE \E sel \in Selections : Found(sel)
  <2>1. SegInit  BY <1>1 DEF MultiInit
  <2>2. PICK sel \in Selections : requests = sel.requests  BY <2>1 DEF SegInit
  <2>3. \A k \in DOMAIN requests : requests[k] \in Asked(sel)  BY <2>2 DEF Asked
  <2>4. phase = "idle" /\ segments = <<>>  BY <2>1 DEF SegInit
  <2>5. DOMAIN segments = {}  BY <2>4
  <2> QED  BY <2>3, <2>4, <2>5 DEF Found
<1>2. segments = <<>>  BY DEF MultiInit, SegInit
<1> QED  BY <1>1, <1>2 DEF Finds

LEMMA FindsNext == Stands /\ Finds /\ [MultiNext]_multiVars => Finds'
<1> SUFFICES ASSUME Stands, Finds, [MultiNext]_multiVars  PROVE Finds'
  OBVIOUS
<1>1. CASE UNCHANGED multiVars
  <2>1. /\ UNCHANGED <<requests, request, endByte, startByte, phase, segments, handle>>
        /\ UNCHANGED <<call, last>> /\ Clips' = Clips /\ Total' = Total
    BY <1>1 DEF multiVars, segVars, client, progress, multi, vars, Clips, Total, Index
  <2>2. ASSUME NEW sel \in Selections, Found(sel)  PROVE Found(sel)'
    BY <2>1, <2>2 DEF Found, LandCall, EndsAt, IsPart, Running
  <2> QED  BY <2>1, <2>2 DEF Finds
<1>2. CASE handle = "segments" /\ SegNext /\ UNCHANGED multi
  <2>1. PICK sel \in Selections : Found(sel)  BY <1>2 DEF Finds
  <2>2. Found(sel)'  BY <1>2, <2>1, FoundNext
  <2>3. handle' = "segments"  BY <1>2 DEF multi
  <2> QED  BY <2>2, <2>3 DEF Finds
<1>3. CASE handle # "segments" /\ (OpenTitle \/ TitleCall \/ SeekOpen \/ \E n \in 1..MaxRead : Read(n))
  <2>1. handle' # "segments"
    BY <1>3 DEF OpenTitle, TitleCall, Positioning, Bounded, OpenFails, ReadDone, SeekDone,
                SeekOpen, Read, multi
  <2>2. segments' = segments
    BY <1>3 DEF OpenTitle, TitleCall, Positioning, Bounded, OpenFails, ReadDone, SeekDone,
                SeekOpen, Read, SeekEnd, EndFound, SeekStart, StartFound, client
  <2> QED  BY <1>3, <2>1, <2>2 DEF Finds
<1> QED  BY <1>1, <1>2, <1>3 DEF MultiNext

\* When the rows of the EP_maps rise, chapters in the order of their times leave
\* out nothing between them and repeat nothing: the byte where one ends, rounded
\* to a keyframe, is the byte where the next one starts, and the last one ends
\* with the title, whichever of them were asked for, in whatever order.
THEOREM ChaptersJoin ==
  ASSUME EpMapsRise  PROVE MultiSpec => []SegmentsJoin
<1>1. MultiInit => Stands /\ Finds  BY StandsInit, FindsInit
<1>2. (Stands /\ Finds) /\ [MultiNext]_multiVars => (Stands /\ Finds)'
  BY StandsNext, FindsNext
<1>3. ASSUME Stands, NEW sel \in Selections, Found(sel),
             NEW j \in DOMAIN segments, segments[j].ok
      PROVE  \E r \in Asked(sel) :
               /\ r \in Request /\ IsPart(r, segments[j])
               /\ Lands(Clips, r.from, segments[j].at) /\ EndsAt(r, segments[j].end)
               /\ segments[j].at \in Nat /\ segments[j].end \in Nat
               /\ segments[j].at <= Total
               /\ segments[j].at <= segments[j].end =>
                    segments[j].at + segments[j].n = segments[j].end
  <2>1. PICK r \in Asked(sel) : IsPart(r, segments[j])  BY <1>3 DEF Found
  <2>2. Lands(Clips, r.from, segments[j].at) /\ EndsAt(r, segments[j].end)
    BY <1>3, <2>1 DEF IsPart
  <2>3. r \in Request
    <3>1. sel.requests \in Seq(Request)  BY <1>3, SelectionsAssumption DEF Request
    <3> QED  BY <2>1, <3>1, ElementOfSeq, LenProperties DEF Asked
  <2>4. segments[j] \in Segment
    <3>1. segments \in Seq(Segment)  BY <1>3 DEF Stands, ClientTypes
    <3> QED  BY <1>3, <3>1, ElementOfSeq, LenProperties
  <2>5. segments[j].at \in Nat /\ segments[j].end \in Nat  BY <2>4 DEF Segment
  <2>6. segments[j].at <= Total
    <3>1. LaidOut(Clips, Total) /\ r.from \in Nat
      BY <1>3, <2>3, ClipFacts DEF Stands, SourceStands, Typed, Request
    <3>2. PICK c \in DOMAIN Clips : LandsIn(Clips, c, r.from, segments[j].at)
      BY <2>2 DEF Lands
    <3> QED  BY <3>1, <3>2, LandingInClip
  <2>7. segments[j].n = IF segments[j].at < segments[j].end
                          THEN segments[j].end - segments[j].at ELSE 0
    BY <1>3 DEF Stands, ClientStands, Whole, IsWhole
  <2>8. segments[j].at <= segments[j].end => segments[j].at + segments[j].n = segments[j].end
    BY <2>5, <2>7
  <2> QED  BY <2>1, <2>2, <2>3, <2>5, <2>6, <2>8
<1>4. Stands /\ Finds => SegmentsJoin
  <2> SUFFICES ASSUME Stands, Finds, NEW j \in DOMAIN segments, segments[j].ok
               PROVE  /\ \A k \in DOMAIN segments :
                           /\ segments[k].ok
                           /\ segments[k].id = segments[j].id + 1
                           /\ segments[j].from <= segments[k].from
                           => segments[j].at + segments[j].n = segments[k].at
                      /\ segments[j].final => segments[j].at + segments[j].n = Total
    BY DEF SegmentsJoin
  <2>1. handle = "segments"  BY DEF Finds
  <2>2. PICK sel \in Selections : Found(sel)  BY <2>1 DEF Finds
  <2>3. LaidOut(Clips, Total) /\ RowsOf(Clips)
    BY ClipFacts, Rows DEF Stands, SourceStands, Typed, TypeOK, Clips
  <2>4. PICK r \in Asked(sel) :
          /\ r \in Request /\ IsPart(r, segments[j])
          /\ Lands(Clips, r.from, segments[j].at) /\ EndsAt(r, segments[j].end)
          /\ segments[j].at \in Nat /\ segments[j].end \in Nat
          /\ segments[j].at <= Total
          /\ segments[j].at <= segments[j].end =>
               segments[j].at + segments[j].n = segments[j].end
    BY <1>3, <2>2
  <2>5. ASSUME segments[j].final  PROVE segments[j].at + segments[j].n = Total
    <3>1. segments[j].end = Total  BY <2>4, <2>5 DEF IsPart, EndsAt
    <3> QED  BY <2>4, <3>1
  <2>6. ASSUME NEW k \in DOMAIN segments, segments[k].ok,
               segments[k].id = segments[j].id + 1, segments[j].from <= segments[k].from
        PROVE  segments[j].at + segments[j].n = segments[k].at
    <3>1. PICK q \in Asked(sel) :
            q \in Request /\ IsPart(q, segments[k]) /\ Lands(Clips, q.from, segments[k].at)
      BY <1>3, <2>2, <2>6
    <3>2. q.id = r.id + 1 /\ r.from <= q.from  BY <2>4, <2>6, <3>1 DEF IsPart
    <3>3. ~r.final /\ r.to = q.from
      <4>1. PICK u \in DOMAIN sel.requests : r = sel.requests[u]  BY <2>4 DEF Asked
      <4>2. PICK v \in DOMAIN sel.requests : q = sel.requests[v]  BY <3>1 DEF Asked
      <4>3. sel.requests[v].id = sel.requests[u].id + 1  BY <3>2, <4>1, <4>2
      <4>4. \A j2, k2 \in DOMAIN sel.requests :
              sel.requests[k2].id = sel.requests[j2].id + 1 =>
                ~sel.requests[j2].final /\ sel.requests[j2].to = sel.requests[k2].from
        BY SelectionsAssumption, Zenon
      <4>5. ~sel.requests[u].final /\ sel.requests[u].to = sel.requests[v].from
        BY <4>3, <4>4
      <4> QED  BY <4>1, <4>2, <4>5
    <3>4. Lands(Clips, q.from, segments[j].end)  BY <2>4, <3>3 DEF EndsAt
    <3>5. r.from \in Nat /\ q.from \in Nat  BY <2>4, <3>1 DEF Request
    <3>6. segments[j].end = segments[k].at  BY <2>3, <3>1, <3>4, <3>5, OneLanding
    <3>7. segments[j].at <= segments[j].end
      BY <2>3, <2>4, <3>2, <3>4, <3>5, LandingsRise
    <3> QED  BY <2>4, <3>6, <3>7
  <2> QED  BY <2>5, <2>6
<1> QED  BY <1>1, <1>2, <1>4, PTL DEF MultiSpec
=============================================================================

-------------------------- MODULE ByteCursor_proofs --------------------------
(***************************************************************************)
(* TitleSource implements ByteCursor, for every title and every number of  *)
(* failures.  The refinement mapping is the one of Promise; under the      *)
(* invariants of TitleSource_proofs each step maps to one step of the      *)
(* abstract cursor or to none:                                             *)
(*   StageUnit, NextClip                     nothing the caller can see    *)
(*   a read's end, its bytes                 End, Deliver                  *)
(*   a skip begun or moved on                Approach                      *)
(*   a call begun, done or failed in place   Ask                           *)
(*   a backward seek, a keyframe seek,                                     *)
(*   an angle switch                         Anchor                        *)
(*   any step into damage                    Broken                        *)
(***************************************************************************)
EXTENDS TitleSource_proofs

\* The refinement mapping, named.
Goal == IF call.op \in {"seek", "land"} THEN call.goal ELSE opos
Got == IF last.op \in {"bytes", "eof"} THEN [at |-> last.at, n |-> last.n]
                                       ELSE [at |-> -1, n |-> 0]
NoGot == [at |-> -1, n |-> 0]

\* A step of the abstract cursor, or none.
PromiseStep == [Promise!Next]_(Promise!cursor)

\* When a step that leaves the reader undamaged is which abstract step.
LEMMA BrokenStep == damage' # "none" => PromiseStep
BY DEF PromiseStep, Promise!Next, Promise!Broken

LEMMA StutterStep ==
  UNCHANGED <<title, angle, opos, call, last, damage>> => PromiseStep
<1> SUFFICES ASSUME UNCHANGED <<title, angle, opos, call, last, damage>>
             PROVE  UNCHANGED Promise!cursor
  BY DEF PromiseStep
<1>1. Total' = Total  BY DEF Total, Index
<1> QED  BY <1>1 DEF Promise!cursor

LEMMA AskStep ==
  ASSUME UNCHANGED <<title, angle, opos, damage>>, Got' = NoGot, Goal' \in {opos, Goal}
  PROVE  PromiseStep
<1>1. Total' = Total  BY DEF Total, Index
<1>2. Promise!Ask
  BY <1>1 DEF Promise!Ask, Promise!Nothing, Got, NoGot, Goal
<1> QED  BY <1>2 DEF PromiseStep, Promise!Next

LEMMA DeliverStep ==
  ASSUME UNCHANGED <<title, angle, damage>>, damage = "none", opos = Goal,
         NEW n \in Nat \ {0}, Got' = [at |-> opos, n |-> n],
         opos' = opos + n, opos' <= Total, Goal' = opos'
  PROVE  PromiseStep
<1>1. Total' = Total  BY DEF Total, Index
<1>2. Got'.at = opos /\ Got'.n = n /\ n > 0  OBVIOUS
<1>3. Promise!Deliver
  BY <1>1, <1>2 DEF Promise!Deliver, Got, Goal
<1> QED  BY <1>3 DEF PromiseStep, Promise!Next

LEMMA EndStep ==
  ASSUME UNCHANGED <<title, angle, opos, damage>>, damage = "none", opos = Goal,
         opos = Total, Got' = [at |-> Total, n |-> 0], Goal' = Goal
  PROVE  PromiseStep
<1>1. Total' = Total  BY DEF Total, Index
<1>2. Promise!End
  BY <1>1 DEF Promise!End, Got, Goal
<1> QED  BY <1>2 DEF PromiseStep, Promise!Next

LEMMA AnchorStep ==
  ASSUME damage' = "none", opos = Goal, Got' = NoGot,
         Total' \in Nat, Goal' \in 0..Total', opos' \in 0..Goal'
  PROVE  PromiseStep
<1>1. Promise!Anchor
  BY DEF Promise!Anchor, Promise!Nothing, Got, NoGot, Goal
<1> QED  BY <1>1 DEF PromiseStep, Promise!Next

LEMMA ApproachStep ==
  ASSUME UNCHANGED <<title, angle, damage>>, damage = "none", Got' = NoGot,
         \/ opos = Goal /\ opos' = opos /\ Goal' \in opos..Total
         \/ opos < Goal /\ opos' \in opos..Goal /\ Goal' = Goal
  PROVE  PromiseStep
<1>1. Total' = Total  BY DEF Total, Index
<1>2. Promise!Approach
  BY <1>1 DEF Promise!Approach, Promise!Nothing, Got, NoGot, Goal
<1> QED  BY <1>2 DEF PromiseStep, Promise!Next

-----------------------------------------------------------------------------
(* The steps of a call.                                                    *)

\* A call that returned, with an answer that carries no bytes.
LEMMA ReturnedMap ==
  ASSUME NEW op, op \notin {"bytes", "eof"}, NEW at, NEW n, Return(Result(op, at, n))
  PROVE  Got' = NoGot /\ Goal' = opos'
BY DEF Return, Result, Idle, Got, NoGot, Goal

\* A skip that is over at once, or has its goal ahead.
LEMMA DiscardMap ==
  ASSUME NEW op \in {"seek", "land"}, NEW from, NEW goal, NEW want,
         Discard(op, from, goal, want)
  PROVE  Got' = NoGot /\ Goal' = IF from < goal THEN goal ELSE opos'
<1>1. CASE from < goal
  BY <1>1 DEF Discard, Start, NoResult, Result, Got, NoGot, Goal
<1>2. CASE ~(from < goal)
  BY <1>2, ReturnedMap DEF Discard
<1> QED  BY <1>1, <1>2

\* WithinTitle, of the state a step leads to.
LEMMA WithinTitleNext == Typed' /\ InStep' /\ damage' = "none" => opos' <= Total'
<1>1. Typed /\ InStep /\ damage = "none" => opos <= Total  BY WithinTitle
<1>2. (Typed /\ InStep /\ damage = "none" => opos <= Total)'  BY <1>1, PTL
<1> QED  BY <1>2

LEMMA StepKeepsPromise ==
  ASSUME Typed, InStep, Step, damage' = "none", Typed', InStep'
  PROVE  PromiseStep
<1>1. TypeOK /\ Ahead  BY DEF Typed
<1>2. UNCHANGED <<title, angle>> /\ Running
  BY DEF Step, EndOfStream, Deliver, StageUnit, NextClip, NextClipFails, ReadFails,
         DecryptFails, AtClipEnd, Refilling
<1>3. Total' = Total  BY <1>2 DEF Total, Index
<1>4. /\ call.op \in {"read", "seek", "land"} /\ call.goal \in Nat /\ opos \in Nat
      /\ opos < call.goal
      /\ call.op \in {"seek", "land"} => call.goal <= Total
  BY <1>1, <1>2 DEF TypeOK, Ahead, Running
<1>5. call.op = "read" => Goal = opos  BY DEF Goal
<1>6. call.op # "read" => Goal = call.goal  BY <1>4 DEF Goal
<1>7. CASE EndOfStream
  <2>1. UNCHANGED <<title, angle, opos, damage>> /\ damage = "none"
    BY <1>7 DEF EndOfStream, stream
  <2>2. opos <= Total /\ Total \in Nat  BY <2>1, WithinTitle
  <2>3. ~UnderCap \/ file = NoFile  BY <1>7 DEF EndOfStream, Exhausted
  <2>4. opos = Total  BY <1>4, <2>1, <2>2, <2>3 DEF UnderCap, InStep
  <2>5. call.op = "read"  BY <1>4, <2>2, <2>4
  <2>6. call' = Idle /\ last' = Result("eof", opos, 0)
    BY <1>7, <2>5 DEF EndOfStream, Return
  <2>7. Got' = [at |-> Total, n |-> 0] /\ Goal' = Goal
    BY <1>5, <2>1, <2>4, <2>5, <2>6 DEF Got, Goal, Result, Idle
  <2> QED  BY <1>5, <2>1, <2>4, <2>5, <2>7, EndStep
<1>8. CASE Deliver
  <2> DEFINE take == Lesser(Left, call.goal - opos)
  <2>1. Left > 0 /\ Left \in Int  BY <1>1, <1>8, Counts DEF Deliver
  <2>2. take \in Nat \ {0} /\ take <= call.goal - opos  BY <1>4, <2>1 DEF Lesser
  <2>3. /\ opos' = opos + take
        /\ IF call.op = "read" THEN Return(Result("bytes", Origin, take))
           ELSE IF opos + take = call.goal THEN Return(Result(call.op, call.want, call.goal))
           ELSE UNCHANGED <<call, last>>
        /\ UNCHANGED <<title, angle, damage>> /\ damage = "none"
    BY <1>8 DEF Deliver
  <2> HIDE DEF take
  <2>4. CASE call.op = "read"
    <3>1. call' = Idle /\ last' = Result("bytes", Origin, take)
      BY <2>3, <2>4 DEF Return
    <3>2. Origin = opos  BY <2>1, <2>3, OriginAtCursor
    <3>3. Got' = [at |-> opos, n |-> take] /\ Goal' = opos'
      BY <3>1, <3>2 DEF Got, Goal, Result, Idle
    <3>4. opos' <= Total  BY <1>3, <2>3, WithinTitleNext
    <3> QED  BY <1>5, <2>2, <2>3, <2>4, <3>3, <3>4, DeliverStep
  <2>5. CASE call.op # "read"
    <3>1. Goal = call.goal /\ opos < Goal /\ opos' \in opos..Goal
      BY <1>4, <1>6, <2>2, <2>3, <2>5
    <3>2. Got' = NoGot /\ Goal' = Goal
      <4>1. CASE opos + take = call.goal
        <5>1. Return(Result(call.op, call.want, call.goal))  BY <2>3, <2>5, <4>1
        <5>2. call.op \notin {"bytes", "eof"}  BY <1>4
        <5>3. Got' = NoGot /\ Goal' = opos'  BY <5>1, <5>2, ReturnedMap
        <5> QED  BY <2>3, <3>1, <4>1, <5>3
      <4>2. CASE opos + take # call.goal
        <5>1. UNCHANGED <<call, last>> /\ last = NoResult
          BY <1>1, <1>2, <2>3, <2>5, <4>2 DEF Ahead
        <5> QED  BY <1>4, <2>5, <5>1 DEF Got, NoGot, Goal, NoResult, Result
      <4> QED  BY <4>1, <4>2
    <3> QED  BY <2>3, <3>1, <3>2, ApproachStep
  <2> QED  BY <2>4, <2>5
<1>9. CASE StageUnit \/ NextClip
  <2>1. UNCHANGED <<title, angle, opos, call, last, damage>>
    BY <1>9 DEF StageUnit, NextClip
  <2> QED  BY <2>1, StutterStep
<1>10. CASE NextClipFails \/ DecryptFails
  BY <1>10 DEF NextClipFails, DecryptFails
<1>11. CASE ReadFails
  <2>1. PICK lost \in 0..(UnitPkts - 1) :
           damage' = IF lost > 0 THEN "read" ELSE damage
    BY <1>11 DEF ReadFails
  <2>2. damage' = damage  BY <2>1
  <2>3. UNCHANGED <<title, angle, opos>> /\ Return(Result("error", 0, 0))
    BY <1>11 DEF ReadFails, Fail
  <2>4. Got' = NoGot /\ Goal' = opos'  BY <2>3, ReturnedMap
  <2> QED  BY <2>2, <2>3, <2>4, AskStep
<1> QED  BY <1>7, <1>8, <1>9, <1>10, <1>11 DEF Step

-----------------------------------------------------------------------------
(* The calls.                                                              *)

LEMMA QuietKeepsPromise ==
  ASSUME Typed, InStep, QuietCall, damage' = "none"
  PROVE  PromiseStep
<1>1. opos \in Nat /\ LaidOut(Clips, Total) /\ Total \in Nat
  BY ClipFacts DEF Typed, TypeOK, LaidOut
<1>2. UNCHANGED <<title, angle, opos, damage>> /\ ~Running /\ damage = "none"
  BY DEF QuietCall, QuietFailure, ReadCall, SeekForward, stream
<1>3. Goal = opos  BY <1>2 DEF Goal, Running
<1>4. ASSUME NEW n \in Nat \ {0}, ReadCall(n)  PROVE PromiseStep
  <2>1. call' = [op |-> "read", goal |-> opos + n, want |-> n] /\ last' = NoResult
    BY <1>4 DEF ReadCall, Start
  <2>2. Got' = NoGot /\ Goal' = opos
    BY <1>2, <2>1 DEF Got, NoGot, Goal, NoResult, Result
  <2> QED  BY <1>2, <2>2, AskStep
<1>5. CASE QuietFailure
  <2>1. Got' = NoGot /\ Goal' = opos'  BY <1>5, ReturnedMap DEF QuietFailure, Fail
  <2> QED  BY <1>2, <2>1, AskStep
<1>6. ASSUME NEW to \in Nat, SeekForward(to)  PROVE PromiseStep
  <2>1. CASE to = opos
    <3>1. Got' = NoGot /\ Goal' = opos'  BY <1>6, <2>1, ReturnedMap DEF SeekForward
    <3> QED  BY <1>2, <3>1, AskStep
  <2>2. CASE to # opos
    <3> DEFINE goal == Lesser(to, Total)
    <3>1. goal \in Nat /\ goal <= Total  BY <1>1 DEF Lesser
    <3>2. Discard("seek", opos, goal, to)  BY <1>6, <2>2 DEF SeekForward
    <3> HIDE DEF goal
    <3>3. Got' = NoGot /\ Goal' = IF opos < goal THEN goal ELSE opos'
      BY <3>2, DiscardMap
    <3>4. CASE opos < goal
      BY <1>1, <1>2, <1>3, <3>1, <3>3, <3>4, ApproachStep
    <3>5. CASE ~(opos < goal)
      BY <1>2, <3>3, <3>5, AskStep
    <3> QED  BY <3>4, <3>5
  <2> QED  BY <2>1, <2>2
<1> QED  BY <1>4, <1>5, <1>6 DEF QuietCall

\* A reader that is positioned, and skips on from there, is an anchored cursor.
LEMMA PositionKeepsPromise ==
  ASSUME ~Running, LaidOut(Clips', Total'), NEW c \in DOMAIN Clips',
         NEW p \in 0..Clips'[c].pkts, NEW pts, PositionAt(Clips', c, p, pts)
  PROVE  PromiseStep
<1> DEFINE from == Clips'[c].start + UnitStart(p) * TsLen
           goal == Clips'[c].start + p * TsLen
<1>1. from \in Nat /\ goal \in 0..Total' /\ from <= goal  BY AnchorBytes
<1>2. Discard("land", from, goal, pts) /\ opos' = from /\ damage' = "none"
  BY DEF PositionAt
<1>3. Total' \in Nat  BY DEF LaidOut
<1> HIDE DEF from, goal
<1>4. Got' = NoGot /\ Goal' = IF from < goal THEN goal ELSE opos'  BY <1>2, DiscardMap
<1>5. Goal' \in 0..Total' /\ opos' \in 0..Goal'  BY <1>1, <1>2, <1>3, <1>4
<1>6. Goal = opos  BY DEF Goal, Running
<1> QED  BY <1>2, <1>3, <1>4, <1>5, <1>6, AnchorStep

LEMMA AnchoringKeepsPromise ==
  ASSUME Typed, InStep, AnchoringCall, damage' = "none"
  PROVE  PromiseStep
<1>1. TypeOK /\ LaidOut(Clips, Total) /\ Total \in Nat  BY ClipFacts DEF Typed, LaidOut
<1>2. title \in Titles /\ angle \in Nat /\ angle + 1 \in DOMAIN title  BY <1>1 DEF TypeOK
<1>3. ASSUME NEW to \in Nat, SeekBackward(to)  PROVE PromiseStep
  <2>1. Total' = Total /\ ~Running  BY <1>3 DEF SeekBackward, Total, Index
  <2> DEFINE goal == Lesser(to, Total)
  <2>2. PICK c \in DOMAIN Clips :
           Discard("seek", Clips[c].start, goal, to) /\ opos' = Clips[c].start
    BY <1>3 DEF SeekBackward, Rewind
  <2>3. Clips[c].start \in Nat /\ Clips[c].start <= Total /\ goal \in Nat /\ goal <= Total
    BY <1>1 DEF LaidOut, Lesser
  <2> HIDE DEF goal
  <2>4. Got' = NoGot /\ Goal' = IF Clips[c].start < goal THEN goal ELSE opos'
    BY <2>2, DiscardMap
  <2>5. Goal' \in 0..Total' /\ opos' \in 0..Goal'  BY <1>1, <2>1, <2>2, <2>3, <2>4
  <2>6. Goal = opos  BY <2>1 DEF Goal, Running
  <2> QED  BY <1>1, <2>1, <2>4, <2>5, <2>6, AnchorStep
<1>4. ASSUME NEW to \in Nat, SeekBackwardFails(to)  PROVE PromiseStep
  BY <1>4 DEF SeekBackwardFails
<1>5. ASSUME NEW pts \in Nat, SeekTo(pts)  PROVE PromiseStep
  <2>1. Clips' = Clips /\ Total' = Total /\ ~Running
    BY <1>5 DEF SeekTo, Clips, Total, Index
  <2>2. PICK c \in DOMAIN Clips :
         \/ \E k \in {0} \union {Clips[c].eps[e].spn : e \in DOMAIN Clips[c].eps} :
               PositionAt(Clips, c, Clamped(Clips[c], k), pts)
         \/ PositionFails(Clips, c)
    BY <1>5 DEF SeekTo
  <2>3. PICK k \in {0} \union {Clips[c].eps[e].spn : e \in DOMAIN Clips[c].eps} :
           PositionAt(Clips, c, Clamped(Clips[c], k), pts)
    BY <2>2 DEF PositionFails
  <2>4. Clamped(Clips[c], k) \in 0..Clips[c].pkts  BY <1>1, TargetPacket
  <2> QED  BY <1>1, <2>1, <2>3, <2>4, PositionKeepsPromise
<1>6. ASSUME NEW a \in Nat, NEW pts \in Nat, SwitchAngleAt(a, pts)  PROVE PromiseStep
  <2>1. angle' = a /\ title' = title /\ a + 1 \in DOMAIN title /\ ~Running
    BY <1>6 DEF SwitchAngleAt
  <2>2. Clips' = Index(a).clips /\ LaidOut(Clips', Total')
    BY <1>2, <2>1, NextClipFacts DEF Clips, Index
  <2>3. PICK c \in DOMAIN Clips' :
         \/ \E k \in {0} \union {Clips'[c].eps[e].spn : e \in DOMAIN Clips'[c].eps} :
               PositionAt(Clips', c, Clamped(Clips'[c], k), pts)
         \/ PositionFails(Clips', c)
    BY <1>6, <2>2 DEF SwitchAngleAt
  <2>4. PICK k \in {0} \union {Clips'[c].eps[e].spn : e \in DOMAIN Clips'[c].eps} :
           PositionAt(Clips', c, Clamped(Clips'[c], k), pts)
    BY <2>3 DEF PositionFails
  <2>5. Clamped(Clips'[c], k) \in 0..Clips'[c].pkts  BY <2>2, TargetPacket
  <2> QED  BY <2>1, <2>2, <2>4, <2>5, PositionKeepsPromise
<1> QED  BY <1>3, <1>4, <1>5, <1>6 DEF AnchoringCall

-----------------------------------------------------------------------------
(* The implementation.                                                     *)

LEMMA InitKeepsPromise == Init => Promise!Init
<1> SUFFICES ASSUME Init  PROVE Promise!Init
  OBVIOUS
<1>1. Total \in Nat  BY TypedInit, ClipFacts DEF Typed, LaidOut
<1>2. opos = 0 /\ call = Idle /\ last = NoResult /\ damage = "none"  BY DEF Init
<1> QED  BY <1>1, <1>2 DEF Promise!Init, Promise!Nothing, Idle, NoResult, Result

LEMMA NextKeepsPromise == Typed /\ InStep /\ [Next]_vars => PromiseStep
<1> SUFFICES ASSUME Typed, InStep, [Next]_vars  PROVE PromiseStep
  OBVIOUS
<1>1. CASE damage' # "none"  BY <1>1, BrokenStep
<1>2. CASE UNCHANGED vars
  <2>1. UNCHANGED <<title, angle, opos, call, last, damage>>  BY <1>2 DEF vars, stream
  <2> QED  BY <2>1, StutterStep
<1>3. CASE Next /\ damage' = "none"
  <2>1. Step \/ QuietCall \/ AnchoringCall  BY <1>3, NextCases DEF Typed
  <2>2. Typed' /\ InStep'  BY TypedNext, InStepNext
  <2> QED  BY <1>3, <2>1, <2>2, StepKeepsPromise, QuietKeepsPromise, AnchoringKeepsPromise
<1> QED  BY <1>1, <1>2, <1>3

\* Seen from its caller, a TitleSource is a cursor on one string of bytes: the
\* units, clips, stripped headers and skip loops of disc.rs never show.
THEOREM SourceIsACursor == Spec => KeepsPromise
<1>1. Init => Promise!Init  BY InitKeepsPromise
<1>2. (Typed /\ InStep) /\ [Next]_vars => [Promise!Next]_(Promise!cursor)
  BY NextKeepsPromise DEF PromiseStep
<1>3. Init => Typed /\ InStep  BY TypedInit, InStepInit
<1>4. (Typed /\ InStep) /\ [Next]_vars => (Typed /\ InStep)'
  BY TypedNext, InStepNext
<1> QED  BY <1>1, <1>2, <1>3, <1>4, PTL DEF Spec, KeepsPromise, Promise!Spec
=============================================================================

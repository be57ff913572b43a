--------------------------- MODULE NavDriver_proofs ---------------------------
(***************************************************************************)
(* What TLAPS proves of NavDriver, for every disc, every width of word and *)
(* every budget: the types, the return points of both call stacks, what    *)
(* resume() may rely on, that Finished leaves no caller waiting, who       *)
(* writes which register, and PSR4 of a disc whose scripts leave it alone. *)
(***************************************************************************)
EXTENDS NavDriver, SequenceTheorems, TLAPS

-----------------------------------------------------------------------------
(* The invariant.                                                          *)

RunKinds == {"running", "finished", "request", "badobject", "budget"}
ObjectFrame == [object : DOMAIN table, pc : Nat]
CallFrame == [entry : Entries, object : DOMAIN table, pc : Nat]

RunnerTypes ==
    /\ table \in Tables /\ regs \in RegisterFile /\ object \in Nat /\ pc \in Nat
    /\ steps \in 0..StepBudget /\ hops \in 0..(ObjectBudget + 1)
    /\ frames \in Seq(ObjectFrame) /\ rout.kind \in RunKinds

DriverTypes ==
    /\ index \in Indexes /\ entry \in Entries /\ tframes \in Seq(CallFrame)
    /\ jumps \in 0..(TitleBudget + 1) /\ pending \in BOOLEAN
    /\ dout.kind \in DriverKinds /\ calls \in 0..MaxCalls

\* The runner runs an object of the table; it stopped for a request right behind
\* the command that made it; and it finishes with no caller left.
RunnerStands ==
    /\ Executing => object \in DOMAIN table /\ hops <= ObjectBudget
    /\ rout.kind = "request" =>
         /\ ReturnsBehind([object |-> object, pc |-> pc], rout.req.op)
         /\ rout.req.arg \in Word
    /\ rout.kind = "finished" => frames = <<>>

\* A drive that goes on, or may be resumed, is one of an entry the index resolves.
DriverStands ==
    /\ Executing => Driving
    /\ Driving => ~pending /\ jumps <= TitleBudget
    /\ Driving \/ pending => Resolve(entry) # NoObject
    /\ PendingIsYield

Standing ==
    /\ RunnerTypes /\ DriverTypes /\ RunnerStands /\ DriverStands
    /\ FramesAreReturnPoints

-----------------------------------------------------------------------------
(* One command of the VM.                                                  *)

\* Whatever a command computes of two words is a word (exec_set).
LEMMA ComputedIsWord ==
  ASSUME NEW x \in Word, NEW y \in Word, NEW op \in SetOps
  PROVE  Compute(op, x, y) \in Word
<1>1. /\ Words \in Nat \ {0} /\ Word = 0..(Words - 1) /\ WordBits \in Nat \ {0}
      /\ Bits = 0..(WordBits - 1)
  BY WordAssumption, VmAssumption DEF Word, Bits
<1>2. \A z \in Int : Wrap(z) \in Word
  <2> SUFFICES ASSUME NEW z \in Int  PROVE z % Words \in 0..(Words - 1)
    BY <1>1 DEF Wrap
  <2> HIDE DEF Words
  <2> QED  BY <1>1
<1>3. /\ And(x, y) \in Word /\ Or(x, y) \in Word /\ Xor(x, y) \in Word
      /\ OfBits(OnBits(x) \union {y % WordBits}) \in Word
      /\ OfBits(OnBits(x) \ {y % WordBits}) \in Word
  <2>1. y % WordBits \in Bits  BY <1>1
  <2>2. OnBits(x) \subseteq Bits /\ OnBits(y) \subseteq Bits  BY DEF OnBits
  <2> QED  BY <2>1, <2>2, WordAssumption DEF And, Or, Xor
<1>4. y # 0 => x \div y \in Word /\ x % y \in Word
  <2> HIDE DEF Words
  <2> QED  BY <1>1
<1>5. y < WordBits => /\ Wrap(x * 2 ^ y) \in Word
                      /\ x \div 2 ^ y \in Word
  <2> SUFFICES ASSUME y < WordBits  PROVE Wrap(x * 2 ^ y) \in Word /\ x \div 2 ^ y \in Word
    OBVIOUS
  <2> DEFINE p == 2 ^ y
  <2>1. p \in Nat \ {0} /\ x \in Nat /\ y \in Bits  BY <1>1, WordAssumption
  <2> HIDE DEF p, Words
  <2>2. x * p \in Int /\ x \div p \in 0..x  BY <2>1
  <2>3. Wrap(x * p) \in Word  BY <1>2, <2>2
  <2>4. x \div p \in Word  BY <1>1, <2>2
  <2> QED  BY <2>3, <2>4 DEF p
<1>6. Wrap(x + y) \in Word /\ Wrap(x - y) \in Word /\ Wrap(x * y) \in Word
  <2>1. x + y \in Int /\ x - y \in Int /\ x * y \in Int  BY <1>1
  <2> QED  BY <1>2, <2>1
<1>7. 0 \in Word /\ (y # 0 => 1 \in Word) /\ y \in Int /\ WordBits \in Int  BY <1>1
<1> HIDE DEF Word, Words, Wrap, And, Or, Xor, OfBits, OnBits
<1>8. CASE op \in {"Move", "Add", "Sub", "Mul"}
  BY <1>6, <1>8 DEF Compute
<1>9. CASE op \in {"Div", "Mod", "Rnd"}
  BY <1>4, <1>7, <1>9 DEF Compute
<1>10. CASE op \in {"And", "Or", "Xor", "BitSet", "BitClear"}
  BY <1>3, <1>10 DEF Compute
<1>11. CASE op \in {"ShiftLeft", "ShiftRight"}
  BY <1>5, <1>7, <1>11 DEF Compute
<1> QED  BY <1>8, <1>9, <1>10, <1>11 DEF SetOps

LEMMA ValueIsWord ==
  ASSUME NEW r \in RegisterFile, NEW o \in Operand  PROVE Value(r, o) \in Word
<1>1. 0 \in Word  BY WordAssumption DEF Word
<1> QED  BY <1>1 DEF Value, IsRegister, RegisterFile, Operand

\* A write keeps the file, and changes at most the register named, which is none
\* the player owns.
LEMMA WriteKeeps ==
  ASSUME NEW r \in RegisterFile, NEW o \in Operand, IsRegister(o), NEW v \in Word
  PROVE  /\ Write(r, o, v) \in RegisterFile
         /\ \A p \in Psrs : p \in ReadOnly \/ o.kind # "psr" \/ o.v # p
              => Write(r, o, v).psr[p] = r.psr[p]
BY DEF Write, PlayerSet, IsRegister, RegisterFile, Operand

\* What a command assigns to: the file stays one, the other registers stay.
LEMMA AssignKeeps ==
  ASSUME NEW r \in RegisterFile, NEW c \in Command, c.op \in SetOps \union {"Swap"}
  PROVE  /\ Assign(r, c) \in RegisterFile
         /\ \A p \in Psrs : p \in ReadOnly \/ ~Writes(c, p) => Assign(r, c).psr[p] = r.psr[p]
<1>1. /\ c.a \in Operand /\ c.b \in Operand
      /\ Value(r, c.a) \in Word /\ Value(r, c.b) \in Word
  BY ValueIsWord DEF Command
<1>2. CASE ~IsRegister(c.a)
  BY <1>2 DEF Assign
<1>3. CASE IsRegister(c.a) /\ c.op = "Swap" /\ IsRegister(c.b)
  <2> DEFINE s == Write(r, c.b, Value(r, c.a))
  <2>1. /\ s \in RegisterFile
        /\ \A p \in Psrs : p \in ReadOnly \/ ~Writes(c, p) => s.psr[p] = r.psr[p]
    BY <1>1, <1>3, WriteKeeps DEF Writes
  <2>2. /\ Write(s, c.a, Value(r, c.b)) \in RegisterFile
        /\ \A p \in Psrs : p \in ReadOnly \/ ~Writes(c, p)
             => Write(s, c.a, Value(r, c.b)).psr[p] = s.psr[p]
    BY <1>1, <1>3, <2>1, WriteKeeps DEF Writes
  <2>3. Assign(r, c) = Write(s, c.a, Value(r, c.b))  BY <1>3 DEF Assign
  <2> HIDE DEF s
  <2> QED  BY <2>1, <2>2, <2>3
<1>4. CASE IsRegister(c.a) /\ ~(c.op = "Swap" /\ IsRegister(c.b))
  <2> DEFINE v == Compute(IF c.op = "Swap" THEN "Move" ELSE c.op, Value(r, c.a), Value(r, c.b))
  <2>1. (IF c.op = "Swap" THEN "Move" ELSE c.op) \in SetOps  BY DEF SetOps
  <2>2. v \in Word  BY <1>1, <2>1, ComputedIsWord
  <2>3. Assign(r, c) = Write(r, c.a, v)  BY <1>4 DEF Assign
  <2> HIDE DEF v
  <2> QED  BY <1>1, <1>4, <2>2, <2>3, WriteKeeps DEF Writes
<1> QED  BY <1>2, <1>3, <1>4

\* What one command does: it goes on, halts, or leaves the VM with a request of
\* its own name and a word, and then the registers are as they were.
LEMMA Executed ==
  ASSUME NEW r \in RegisterFile, NEW c \in Command, NEW at \in Nat, NEW len \in Nat, at <= len
  PROVE  LET e == Exec(r, at, c, len) IN
         /\ e.regs \in RegisterFile /\ e.pc \in Nat
         /\ e.out \in {"continue", "halted", "branch"}
         /\ e.out = "branch" => /\ e.pc = at /\ e.req.op = c.op /\ e.req.arg \in Word
         /\ e.out # "branch" => e.req.op = "none"
         /\ \A p \in Psrs : p \in ReadOnly \/ ~Writes(c, p) => e.regs.psr[p] = r.psr[p]
<1> DEFINE e == Exec(r, at, c, len)
<1>1. /\ c.a \in Operand /\ c.b \in Operand
      /\ Value(r, c.a) \in Word /\ Value(r, c.a) \in Nat
  <2>1. Word \subseteq Nat  BY WordAssumption DEF Word
  <2> QED  BY <2>1, ValueIsWord DEF Command
<1>2. CASE c.op \in SetOps \union {"Swap"}
  <2>1. e = Continue(Assign(r, c), at)
    BY <1>2 DEF Exec, CompareOps, SetOps, JumpOps, PlayOps, PlayerOps
  <2> HIDE DEF e
  <2> QED  BY <1>2, <2>1, AssignKeeps DEF Continue, NoRequest, Request, e
<1>3. CASE c.op \in CompareOps
  <2>1. e = Continue(r, at) \/ e = Continue(r, IF at < len THEN at + 1 ELSE len)
    BY <1>3 DEF Exec, CompareOps, SetOps, JumpOps, PlayOps, PlayerOps
  <2>2. (IF at < len THEN at + 1 ELSE len) \in Nat  OBVIOUS
  <2> HIDE DEF e
  <2> QED  BY <2>1, <2>2 DEF Continue, NoRequest, Request, e
<1>4. CASE c.op = "GoTo"
  <2>1. e = Continue(r, Value(r, c.a)) \/ e = Halted(r, at)
    BY <1>4 DEF Exec, CompareOps, SetOps, JumpOps, PlayOps, PlayerOps
  <2> HIDE DEF e
  <2> QED  BY <1>1, <2>1 DEF Continue, Halted, NoRequest, Request, e
<1>5. CASE c.op = "Break"
  <2>1. e = Halted(r, at)
    BY <1>5 DEF Exec, CompareOps, SetOps, JumpOps, PlayOps, PlayerOps
  <2> HIDE DEF e
  <2> QED  BY <2>1 DEF Halted, NoRequest, Request, e
<1>6. CASE c.op \in JumpOps \union PlayOps \union PlayerOps
  <2>1. e = [out |-> "branch", regs |-> r, pc |-> at, req |-> Request(c.op, Value(r, c.a))]
    BY <1>6 DEF Exec, CompareOps, SetOps, JumpOps, PlayOps, PlayerOps
  <2> HIDE DEF e
  <2> QED  BY <1>1, <2>1 DEF Request, e
<1>7. CASE c.op = "Nop"
  <2>1. e = Continue(r, at)
    BY <1>7 DEF Exec, CompareOps, SetOps, JumpOps, PlayOps, PlayerOps
  <2> HIDE DEF e
  <2> QED  BY <2>1 DEF Continue, NoRequest, Request, e
<1> QED  BY <1>2, <1>3, <1>4, <1>5, <1>6, <1>7 DEF Command

-----------------------------------------------------------------------------
(* The runner.                                                             *)

LEMMA Popped ==
  ASSUME NEW S, NEW stack \in Seq(S), Waiting(stack)
  PROVE  /\ Pop(stack) \in Seq(S) /\ Top(stack) \in S /\ Len(stack) \in DOMAIN stack
         /\ Top(stack) = stack[Len(stack)]
         /\ \A i \in DOMAIN Pop(stack) : i \in DOMAIN stack /\ Pop(stack)[i] = stack[i]
<1>1. Len(stack) \in Nat \ {0}  BY EmptySeq DEF Waiting
<1>2. \A i \in 1..(Len(stack) - 1) : stack[i] \in S  BY <1>1
<1>3. /\ Pop(stack) \in Seq(S) /\ Len(Pop(stack)) = Len(stack) - 1
      /\ \A i \in 1..(Len(stack) - 1) : Pop(stack)[i] = stack[i]
  <2> DEFINE n == Len(stack) - 1
  <2>1. n \in Nat /\ \A i \in 1..n : stack[i] \in S  BY <1>1
  <2> HIDE DEF n
  <2>2. /\ SubSeq(stack, 1, n) \in Seq(S)
        /\ Len(SubSeq(stack, 1, n)) = IF 1 <= n THEN n - 1 + 1 ELSE 0
        /\ \A i \in 1..(n - 1 + 1) : SubSeq(stack, 1, n)[i] = stack[1 + i - 1]
    BY <2>1, SubSeqProperties
  <2>3. Pop(stack) = SubSeq(stack, 1, n)  BY DEF Pop, n
  <2>4. n - 1 + 1 = n /\ (IF 1 <= n THEN n - 1 + 1 ELSE 0) = n  BY <2>1
  <2>5. \A i \in 1..n : 1 + i - 1 = i  BY <2>1
  <2> QED  BY <2>2, <2>3, <2>4, <2>5 DEF n
<1> QED  BY <1>1, <1>3 DEF Top

\* Where the VM stands after a step, or when it stops.
LEMMA Results ==
  ASSUME RunnerTypes, RunnerStands, Executing
  PROVE  /\ Result.regs \in RegisterFile /\ Result.pc \in Nat
         /\ Result.out \in {"continue", "halted", "branch"}
         /\ Result.out = "continue" => steps < StepBudget
         /\ Result.out = "branch" =>
              /\ ReturnsBehind([object |-> object, pc |-> Result.pc], Result.req.op)
              /\ Result.req.arg \in Word
         /\ Result.out # "branch" => Result.req.op = "none"
         /\ \A p \in Psrs :
              p \in ReadOnly \/ (\A i \in 1..Len(Commands) : ~Writes(Commands[i], p))
                => Result.regs.psr[p] = regs.psr[p]
<1>1. /\ object \in DOMAIN table /\ Commands \in Seq(Command) /\ Len(Commands) \in Nat
      /\ regs \in RegisterFile /\ pc \in Nat /\ steps \in Nat /\ StepBudget \in Nat
  BY RunnerAssumption DEF RunnerTypes, RunnerStands, Commands
<1>2. CASE OutOfSteps \/ AtEnd
  BY <1>1, <1>2 DEF Result, Halted, NoRequest, Request
<1>3. CASE ~(OutOfSteps \/ AtEnd)
  <2>1. steps < StepBudget /\ pc + 1 \in 1..Len(Commands)
    BY <1>1, <1>3 DEF OutOfSteps, AtEnd
  <2> DEFINE c == Commands[pc + 1]
  <2>2. c \in Command /\ Result = Exec(regs, pc + 1, c, Len(Commands))
    BY <1>1, <1>3, <2>1 DEF Result
  <2>3. LET e == Exec(regs, pc + 1, c, Len(Commands)) IN
         /\ e.regs \in RegisterFile /\ e.pc \in Nat
         /\ e.out \in {"continue", "halted", "branch"}
         /\ e.out = "branch" => /\ e.pc = pc + 1 /\ e.req.op = c.op /\ e.req.arg \in Word
         /\ e.out # "branch" => e.req.op = "none"
         /\ \A p \in Psrs : p \in ReadOnly \/ ~Writes(c, p) => e.regs.psr[p] = regs.psr[p]
    <3>1. pc + 1 \in Nat /\ pc + 1 <= Len(Commands)  BY <1>1, <2>1
    <3> HIDE DEF c
    <3> QED  BY <1>1, <2>2, <3>1, Executed
  <2>4. Result.out = "branch" =>
          ReturnsBehind([object |-> object, pc |-> Result.pc], Result.req.op)
    BY <1>1, <2>1, <2>2, <2>3 DEF ReturnsBehind, Commands
  <2> HIDE DEF c
  <2>5. \A p \in Psrs :
          p \in ReadOnly \/ (\A i \in 1..Len(Commands) : ~Writes(Commands[i], p))
            => p \in ReadOnly \/ ~Writes(c, p)
    BY <2>1 DEF c
  <2> QED  BY <2>1, <2>2, <2>3, <2>4, <2>5
<1> QED  BY <1>2, <1>3

ObjectFrames == \A i \in DOMAIN frames : ReturnsBehind(frames[i], "CallObject")
TitleFrames ==
    \A i \in DOMAIN tframes :
      ReturnsBehind(tframes[i], "CallTitle") /\ Resolve(tframes[i].entry) # NoObject

RunnerGood == RunnerTypes /\ RunnerStands /\ ObjectFrames

\* Stopped for good: with a request made just behind, or with no caller, or over.
LEMMA StoppedGood ==
  ASSUME RunnerGood, Executing, NEW outcome, ReturnOut(outcome), table' = table, regs' = regs,
         frames' \in Seq(ObjectFrame), ObjectFrames', hops' \in 0..(ObjectBudget + 1),
         \/ outcome.kind \in {"badobject", "budget"}
         \/ outcome.kind = "finished" /\ frames' = <<>>
         \/ outcome.kind = "request" /\ Result.out = "branch" /\ outcome.req = Result.req
  PROVE  RunnerGood'
<1>1. /\ rout' = outcome /\ pc' = Result.pc /\ object' = object /\ steps' = steps
  BY DEF ReturnOut
<1>2. Result.pc \in Nat  BY Results DEF RunnerGood
<1>3. RunnerTypes'
  BY <1>1, <1>2 DEF RunnerGood, RunnerTypes, ObjectFrame, RunKinds
<1>4. rout'.kind = "request" =>
        /\ ReturnsBehind([object |-> object', pc |-> pc'], rout'.req.op)
        /\ rout'.req.arg \in Word
  <2> SUFFICES ASSUME outcome.kind = "request"
               PROVE  /\ ReturnsBehind([object |-> object, pc |-> Result.pc], outcome.req.op)
                      /\ outcome.req.arg \in Word
    BY <1>1
  <2> QED  BY Results DEF RunnerGood
<1>5. RunnerStands'
  <2>1. rout'.kind # "running"  BY <1>1
  <2>2. rout'.kind = "finished" => frames' = <<>>  BY <1>1
  <2> QED  BY <1>4, <2>1, <2>2 DEF RunnerStands, Executing, ReturnsBehind
<1> QED  BY <1>3, <1>5 DEF RunnerGood

\* Gone on: in an object of the table, within the budget.
LEMMA ContinuedGood ==
  ASSUME RunnerGood, Executing, NEW id \in DOMAIN table, NEW at \in Nat, Continues(id, at),
         table' = table, regs' = regs, frames' \in Seq(ObjectFrame), ObjectFrames',
         hops' \in 0..ObjectBudget
  PROVE  RunnerGood'
<1>1. object' = id /\ pc' = at /\ steps' = 0 /\ rout' = rout  BY DEF Continues
<1>2. /\ id \in Nat /\ 0 \in 0..StepBudget /\ ObjectBudget \in Nat
  BY RunnerAssumption DEF RunnerGood, RunnerTypes
<1>3. RunnerTypes'
  BY <1>1, <1>2 DEF RunnerGood, RunnerTypes, ObjectFrame
<1>4. RunnerStands'
  BY <1>1, <1>2 DEF RunnerStands, Executing
<1> QED  BY <1>3, <1>4 DEF RunnerGood

LEMMA FramesPopped ==
  ASSUME RunnerGood, Waiting(frames), frames' = Pop(frames), table' = table
  PROVE  /\ frames' \in Seq(ObjectFrame) /\ ObjectFrames'
         /\ Top(frames).object \in DOMAIN table /\ Top(frames).pc \in Nat
<1>1. frames \in Seq(ObjectFrame)  BY DEF RunnerGood, RunnerTypes
<1>2. /\ Pop(frames) \in Seq(ObjectFrame) /\ Top(frames) \in ObjectFrame
      /\ \A i \in DOMAIN Pop(frames) : i \in DOMAIN frames /\ Pop(frames)[i] = frames[i]
  BY <1>1, Popped
<1> QED  BY <1>2 DEF RunnerGood, ObjectFrames, ReturnsBehind, ObjectFrame

LEMMA VmCommandGood == RunnerGood /\ VmCommand => RunnerGood'
<1> SUFFICES ASSUME RunnerGood, VmCommand  PROVE RunnerGood'
  OBVIOUS
<1>1. /\ Executing /\ Result.out = "continue"
      /\ regs' = Result.regs /\ pc' = Result.pc /\ steps' = steps + 1
      /\ table' = table /\ object' = object /\ frames' = frames /\ hops' = hops /\ rout' = rout
  BY DEF VmCommand, StepTaken
<1>2. Result.regs \in RegisterFile /\ Result.pc \in Nat /\ steps < StepBudget
  BY <1>1, Results DEF RunnerGood
<1>3. RunnerTypes'
  BY <1>1, <1>2, RunnerAssumption DEF RunnerGood, RunnerTypes, ObjectFrame
<1>4. RunnerStands' /\ ObjectFrames'
  BY <1>1 DEF RunnerGood, RunnerStands, Executing, ObjectFrames, ReturnsBehind
<1> QED  BY <1>3, <1>4 DEF RunnerGood

LEMMA ReturnToCallerGood == RunnerGood /\ ReturnToCaller => RunnerGood'
<1> SUFFICES ASSUME RunnerGood, ReturnToCaller  PROVE RunnerGood'
  OBVIOUS
<1>1. /\ Executing /\ Waiting(frames) /\ frames' = Pop(frames)
      /\ table' = table /\ regs' = regs /\ hops' = hops + 1
      /\ IF hops' > ObjectBudget THEN ReturnOut(Outcome("budget", NoRequest))
                                 ELSE Continues(Top(frames).object, Top(frames).pc)
  BY DEF ReturnToCaller, ListEnds, Stops, Charged
<1>2. hops \in 0..ObjectBudget /\ ObjectBudget \in Nat
  BY <1>1, RunnerAssumption DEF RunnerGood, RunnerTypes, RunnerStands
<1>3. CASE hops' > ObjectBudget
  BY <1>1, <1>2, <1>3, FramesPopped, StoppedGood DEF Outcome
<1>4. CASE ~(hops' > ObjectBudget)
  <2>1. hops' \in 0..ObjectBudget  BY <1>1, <1>2, <1>4
  <2> QED  BY <1>1, <1>4, <2>1, FramesPopped, ContinuedGood
<1> QED  BY <1>3, <1>4

LEMMA FinishRunGood == RunnerGood /\ FinishRun => RunnerGood'
<1> SUFFICES ASSUME RunnerGood, FinishRun  PROVE RunnerGood'
  OBVIOUS
<1>1. /\ Executing /\ ReturnOut(Outcome("finished", NoRequest)) /\ frames = <<>>
      /\ table' = table /\ regs' = regs /\ frames' = frames /\ hops' = hops
  BY DEF FinishRun, ListEnds, Stops, Waiting
<1>2. /\ frames' \in Seq(ObjectFrame) /\ ObjectFrames' /\ hops' \in 0..(ObjectBudget + 1)
  BY <1>1 DEF RunnerGood, RunnerTypes, ObjectFrames
<1> QED  BY <1>1, <1>2, StoppedGood DEF Outcome

\* Entering an object: of the table, or the run ends with its id.
LEMMA EnterGood ==
  ASSUME RunnerGood, Executing, NEW id, table' = table, regs' = regs, hops' = hops + 1,
         IF hops' > ObjectBudget THEN ReturnOut(Outcome("budget", NoRequest)) ELSE Enter(id),
         frames' \in Seq(ObjectFrame), ObjectFrames'
  PROVE  RunnerGood'
<1>1. hops \in 0..ObjectBudget /\ ObjectBudget \in Nat
  BY RunnerAssumption DEF RunnerGood, RunnerTypes, RunnerStands
<1>2. CASE hops' > ObjectBudget
  BY <1>1, <1>2, StoppedGood DEF Outcome
<1>3. CASE ~(hops' > ObjectBudget) /\ id \in DOMAIN table
  <2>1. hops' \in 0..ObjectBudget /\ Continues(id, 0) /\ 0 \in Nat
    BY <1>1, <1>3 DEF Enter
  <2> QED  BY <1>3, <2>1, ContinuedGood
<1>4. CASE ~(hops' > ObjectBudget) /\ id \notin DOMAIN table
  <2>1. ReturnOut(Outcome("badobject", Request("none", id)))  BY <1>4 DEF Enter
  <2>2. Outcome("badobject", Request("none", id)).kind = "badobject"  BY DEF Outcome
  <2>3. hops' \in 0..(ObjectBudget + 1)  BY <1>1
  <2> QED  BY <2>1, <2>2, <2>3, StoppedGood
<1> QED  BY <1>2, <1>3, <1>4

LEMMA JumpObjectGood == RunnerGood /\ JumpObject => RunnerGood'
<1> SUFFICES ASSUME RunnerGood, JumpObject  PROVE RunnerGood'
  OBVIOUS
<1>1. /\ Executing /\ table' = table /\ regs' = regs /\ frames' = frames /\ hops' = hops + 1
      /\ IF hops' > ObjectBudget THEN ReturnOut(Outcome("budget", NoRequest))
                                 ELSE Enter(Result.req.arg)
  BY DEF JumpObject, Stops, Charged
<1>2. frames' \in Seq(ObjectFrame) /\ ObjectFrames'
  BY <1>1 DEF RunnerGood, RunnerTypes, ObjectFrames, ReturnsBehind
<1> QED  BY <1>1, <1>2, EnterGood

LEMMA CallObjectGood == RunnerGood /\ CallObject => RunnerGood'
<1> SUFFICES ASSUME RunnerGood, CallObject  PROVE RunnerGood'
  OBVIOUS
<1>1. /\ Executing /\ table' = table /\ regs' = regs /\ hops' = hops + 1
      /\ IF hops' > ObjectBudget THEN ReturnOut(Outcome("budget", NoRequest))
                                 ELSE Enter(Result.req.arg)
      /\ frames' = frames \/ frames' = Append(frames, ReturnFrame)
      /\ Result.req.op = "CallObject"
  BY DEF CallObject, Stops, Charged
<1>2. /\ ReturnsBehind(ReturnFrame, "CallObject") /\ ReturnFrame \in ObjectFrame
  <2>1. Result.out = "branch" /\ Result.pc \in Nat  BY <1>1, Results DEF RunnerGood
  <2> QED
    BY <1>1, <2>1, Results
    DEF RunnerGood, RunnerStands, ReturnFrame, ObjectFrame, ReturnsBehind
<1>3. frames' \in Seq(ObjectFrame) /\ ObjectFrames'
  <2>1. frames \in Seq(ObjectFrame)  BY DEF RunnerGood, RunnerTypes
  <2>2. CASE frames' = frames
    BY <1>1, <2>1, <2>2 DEF RunnerGood, ObjectFrames, ReturnsBehind
  <2>3. CASE frames' = Append(frames, ReturnFrame)
    <3>1. /\ frames' \in Seq(ObjectFrame) /\ DOMAIN frames' = 1..(Len(frames) + 1)
          /\ DOMAIN frames = 1..Len(frames) /\ Len(frames) \in Nat
          /\ \A i \in 1..Len(frames) : frames'[i] = frames[i]
          /\ frames'[Len(frames) + 1] = ReturnFrame
      BY <1>2, <2>1, <2>3, AppendProperties
    <3>2. \A i \in DOMAIN frames' : ReturnsBehind(frames'[i], "CallObject")
      BY <1>2, <3>1 DEF RunnerGood, ObjectFrames
    <3> QED  BY <1>1, <3>1, <3>2 DEF ObjectFrames, ReturnsBehind
  <2> QED  BY <1>1, <2>2, <2>3
<1> QED  BY <1>1, <1>3, EnterGood

LEMMA YieldGood == RunnerGood /\ Yield => RunnerGood'
<1> SUFFICES ASSUME RunnerGood, Yield  PROVE RunnerGood'
  OBVIOUS
<1>1. /\ Executing /\ Result.out = "branch" /\ ReturnOut(Outcome("request", Result.req))
      /\ table' = table /\ regs' = regs /\ frames' = frames /\ hops' = hops
  BY DEF Yield, Stops
<1>2. frames' \in Seq(ObjectFrame) /\ ObjectFrames' /\ hops' \in 0..(ObjectBudget + 1)
  BY <1>1 DEF RunnerGood, RunnerTypes, ObjectFrames, ReturnsBehind
<1> QED  BY <1>1, <1>2, StoppedGood DEF Outcome

\* The runner keeps what it stands on, and leaves the table alone.
LEMMA RunnerStepGood == RunnerGood /\ RunnerStep => RunnerGood' /\ table' = table
<1>1. RunnerGood /\ RunnerStep => RunnerGood'
  BY VmCommandGood, ReturnToCallerGood, FinishRunGood, JumpObjectGood, CallObjectGood, YieldGood
  DEF RunnerStep
<1>2. RunnerStep => table' = table
  BY DEF RunnerStep, VmCommand, ReturnToCaller, FinishRun, JumpObject, CallObject, Yield
<1> QED  BY <1>1, <1>2

-----------------------------------------------------------------------------
(* The driver.                                                             *)

DriverGood == DriverTypes /\ DriverStands /\ TitleFrames

LEMMA StandingParts == Standing <=> RunnerGood /\ DriverGood
BY DEF Standing, RunnerGood, DriverGood, FramesAreReturnPoints, ObjectFrames, TitleFrames

\* The title a request names, and the entries there are.
LEMMA EntryTypes ==
  /\ TitleValues \in Nat \ {0} /\ TitleValues <= Words
  /\ Entries = {FirstPlayback, TopMenu} \union {Title(n) : n \in 0..(TitleValues - 1)}
  /\ \A e \in Entries : e.number \in Word
  /\ \A a \in Word : Title(a % TitleValues) \in Entries
<1>1. TitleValues \in 1..Words /\ Words \in Nat
  BY DriverAssumption, WordAssumption DEF TitleValues
<1> HIDE DEF TitleValues, Words
<1>2. Word = 0..(Words - 1)  BY DEF Word
<1>3. \A e \in Entries : e.number \in Word
  BY <1>1, <1>2 DEF Entries, FirstPlayback, TopMenu, Title
<1>4. \A a \in Word : a % TitleValues \in 0..(TitleValues - 1)
  BY <1>1, <1>2
<1>5. \A a \in Word : Title(a % TitleValues) \in Entries
  BY <1>4 DEF Entries
<1> QED  BY <1>1, <1>3, <1>5 DEF Entries

\* What the index resolves is a Movie Object id, or nothing.
LEMMA Resolved ==
  ASSUME index \in Indexes, NEW e
  PROVE  Resolve(e) \in Nat \union {NoObject}
<1>1. /\ index.first \in Nat \union {NoObject} /\ index.menu \in Nat \union {NoObject}
      /\ index.titles \in Seq(Nat \union {NoObject})
  BY DriverAssumption
<1>2. \A n \in DOMAIN index.titles : index.titles[n] \in Nat \union {NoObject}
  BY <1>1
<1> QED  BY <1>1, <1>2 DEF Resolve

LEMMA SeededTyped ==
  ASSUME regs \in RegisterFile, NEW e \in Entries
  PROVE  /\ Seeded(e) \in RegisterFile /\ Seeded(e).psr[TitlePsr] = e.number
         /\ \A p \in Psrs \ {TitlePsr} : Seeded(e).psr[p] = regs.psr[p]
BY EntryTypes, DriverAssumption DEF Seeded, PlayerSet, RegisterFile

\* Nothing the runner stands on changes.
LEMMA RunnerUnchanged == RunnerGood /\ UNCHANGED runner => RunnerGood'
BY DEF runner, RunnerGood, RunnerTypes, RunnerStands, ObjectFrames, ObjectFrame, ReturnsBehind,
       Executing

\* A run starts with no object frame, in an object of the table or not at all.
LEMMA RunGood ==
  ASSUME RunnerGood, NEW id \in Nat, Run(id), table' = table, regs' \in RegisterFile
  PROVE  RunnerGood'
<1>1. /\ StepBudget \in Nat /\ ObjectBudget \in Nat
  BY RunnerAssumption
<1>2. CASE id \in DOMAIN table
  <2>1. /\ object' = id /\ pc' = 0 /\ frames' = <<>> /\ rout' = RunningNow
        /\ hops' = 0 /\ steps' = 0
    BY <1>2 DEF Run, Drive
  <2>2. rout'.kind = "running"  BY <2>1 DEF RunningNow, Outcome
  <2>3. RunnerTypes'
    BY <1>1, <2>1, <2>2 DEF RunnerGood, RunnerTypes, RunKinds
  <2> QED
    BY <1>1, <1>2, <2>1, <2>2, <2>3 DEF RunnerGood, RunnerStands, ObjectFrames, Executing
<1>3. CASE id \notin DOMAIN table
  <2>1. rout'.kind = "badobject" /\ UNCHANGED <<object, pc, steps, frames, hops>>
    BY <1>3 DEF Run, Outcome
  <2> QED
    BY <2>1
    DEF RunnerGood, RunnerTypes, RunKinds, RunnerStands, ObjectFrames, ObjectFrame,
        Executing, ReturnsBehind
<1> QED  BY <1>2, <1>3

LEMMA ResumeGood ==
  ASSUME RunnerGood, NEW id \in DOMAIN table, NEW at \in Nat, ResumeAt(id, at),
         table' = table, regs' \in RegisterFile
  PROVE  RunnerGood'
<1>1. /\ StepBudget \in Nat /\ ObjectBudget \in Nat /\ id \in Nat
  BY RunnerAssumption DEF RunnerGood, RunnerTypes
<1>2. /\ object' = id /\ pc' = at /\ rout' = RunningNow /\ hops' = 0 /\ steps' = 0
      /\ frames' = frames
  BY DEF ResumeAt, Drive
<1>3. rout'.kind = "running"  BY <1>2 DEF RunningNow, Outcome
<1>4. RunnerTypes'
  BY <1>1, <1>2, <1>3 DEF RunnerGood, RunnerTypes, RunKinds, ObjectFrame
<1> QED
  BY <1>1, <1>2, <1>3, <1>4
  DEF RunnerGood, RunnerStands, ObjectFrames, Executing, ReturnsBehind

\* While the runner steps, the driver waits.
LEMMA DriverWaits ==
  ASSUME DriverGood, Driving, UNCHANGED <<driver, calls>>, table' = table
  PROVE  DriverGood'
<1>1. /\ index' = index /\ entry' = entry /\ tframes' = tframes /\ jumps' = jumps
      /\ pending' = pending /\ dout' = dout /\ calls' = calls
  BY DEF driver
<1>2. Driving' /\ (\A e : Resolve(e)' = Resolve(e))
  BY <1>1 DEF Driving, Resolve
<1>3. DriverTypes'
  BY <1>1 DEF DriverGood, DriverTypes, CallFrame
<1>4. DriverStands'
  BY <1>1, <1>2 DEF DriverGood, DriverStands, PendingIsYield, Resolve
<1>5. TitleFrames'
  BY <1>1 DEF DriverGood, TitleFrames, ReturnsBehind, Resolve
<1> QED  BY <1>3, <1>4, <1>5 DEF DriverGood

\* A drive that has ended without a yield.
LEMMA EndedGood ==
  ASSUME DriverGood, Driving, RunnerGood', rout' = rout, ~Executing, table' = table,
         index' = index, entry' = entry, tframes' \in Seq(CallFrame), TitleFrames',
         jumps' \in 0..(TitleBudget + 1), pending' = pending, calls' = calls,
         dout'.kind \in {"finished", "badtitle", "badobject", "budget"}
  PROVE  DriverGood'
<1>1. ~pending /\ ~pending'  BY DEF DriverGood, DriverStands
<1>2. ~Driving' /\ ~Executing'  BY DEF Driving, Executing
<1>3. DriverTypes'
  BY DEF DriverGood, DriverTypes, DriverKinds, CallFrame
<1>4. PendingIsYield'
  BY <1>1 DEF PendingIsYield
<1>5. DriverStands'
  BY <1>1, <1>2, <1>4 DEF DriverStands
<1> QED  BY <1>3, <1>5 DEF DriverGood

\* A drive that goes on with an entry the index resolves.
LEMMA DrivesOn ==
  ASSUME RunnerGood, DriverGood, table' = table, index' = index, entry' \in Entries,
         Resolve(entry') # NoObject, tframes' \in Seq(CallFrame), TitleFrames',
         jumps' \in 0..TitleBudget, pending' = FALSE, calls' \in 0..MaxCalls, Driving'
  PROVE  DriverGood'
<1>1. TitleBudget \in Nat  BY DriverAssumption
<1>2. DriverTypes'
  <2>1. jumps' \in 0..(TitleBudget + 1)  BY <1>1
  <2>2. index' \in Indexes /\ pending' \in BOOLEAN /\ dout'.kind \in DriverKinds
    BY DEF DriverGood, DriverTypes, DriverKinds, Driving
  <2>3. tframes' \in Seq(CallFrame')  BY DEF CallFrame
  <2> QED  BY <2>1, <2>2, <2>3 DEF DriverTypes
<1>3. Resolve(entry)' # NoObject  BY DEF Resolve
<1>4. DriverStands'
  BY <1>1, <1>3 DEF DriverStands, PendingIsYield
<1> QED  BY <1>2, <1>4 DEF DriverGood

LEMMA TitleFramesPopped ==
  ASSUME RunnerGood, DriverGood, Waiting(tframes), tframes' = Pop(tframes), table' = table,
         index' = index
  PROVE  /\ tframes' \in Seq(CallFrame) /\ TitleFrames'
         /\ Top(tframes).object \in DOMAIN table /\ Top(tframes).pc \in Nat
         /\ Top(tframes).entry \in Entries /\ Resolve(Top(tframes).entry) # NoObject
<1>1. tframes \in Seq(CallFrame)  BY DEF DriverGood, DriverTypes
<1>2. /\ Pop(tframes) \in Seq(CallFrame) /\ Top(tframes) \in CallFrame
      /\ Len(tframes) \in DOMAIN tframes /\ Top(tframes) = tframes[Len(tframes)]
      /\ \A i \in DOMAIN Pop(tframes) : i \in DOMAIN tframes /\ Pop(tframes)[i] = tframes[i]
  BY <1>1, Popped
<1>3. TitleFrames'
  BY <1>2 DEF DriverGood, TitleFrames, ReturnsBehind, Resolve
<1> QED  BY <1>2, <1>3 DEF DriverGood, TitleFrames, CallFrame

LEMMA TitleReturnsGood ==
  RunnerGood /\ DriverGood /\ TitleReturns => RunnerGood' /\ DriverGood'
<1> SUFFICES ASSUME RunnerGood, DriverGood, TitleReturns  PROVE RunnerGood' /\ DriverGood'
  OBVIOUS
<1> DEFINE top == Top(tframes)
<1>1. /\ Driving /\ ~Executing /\ Waiting(tframes) /\ tframes' = Pop(tframes)
      /\ jumps' = jumps + 1 /\ index' = index /\ pending' = pending /\ calls' = calls
  BY DEF TitleReturns, Servicing, Charge
<1>2. jumps \in 0..TitleBudget /\ TitleBudget \in Nat /\ pending = FALSE
  BY <1>1, DriverAssumption DEF DriverGood, DriverStands, DriverTypes
<1>3. CASE InBudget
  <2>1. /\ entry' = top.entry /\ regs' = Seeded(entry') /\ ResumeAt(top.object, top.pc)
        /\ table' = table /\ dout' = dout
    BY <1>3 DEF TitleReturns
  <2>2. /\ tframes' \in Seq(CallFrame) /\ TitleFrames'
        /\ top.object \in DOMAIN table /\ top.pc \in Nat
        /\ top.entry \in Entries /\ Resolve(top.entry) # NoObject
    BY <1>1, <2>1, TitleFramesPopped
  <2>3. Seeded(top.entry) \in RegisterFile
    BY <2>2, SeededTyped DEF RunnerGood, RunnerTypes
  <2>4. RunnerGood'
    BY <2>1, <2>2, <2>3, ResumeGood
  <2>5. jumps' \in 0..TitleBudget  BY <1>1, <1>2, <1>3 DEF InBudget
  <2>6. calls' \in 0..MaxCalls  BY <1>1 DEF DriverGood, DriverTypes
  <2>7. Driving'  BY <1>1, <2>1 DEF Driving
  <2> HIDE DEF top
  <2> QED  BY <1>1, <1>2, <2>1, <2>2, <2>4, <2>5, <2>6, <2>7, DrivesOn
<1>4. CASE ~InBudget
  <2>1. dout' = Outcome("budget", NoRequest) /\ UNCHANGED <<runner, entry>>
    BY <1>4 DEF TitleReturns, Return
  <2>2. RunnerGood' /\ rout' = rout /\ table' = table
    BY <2>1, RunnerUnchanged DEF runner
  <2>3. /\ tframes' \in Seq(CallFrame) /\ TitleFrames'
    BY <1>1, <2>2, TitleFramesPopped
  <2>4. jumps' \in 0..(TitleBudget + 1)  BY <1>1, <1>2
  <2> QED  BY <1>1, <2>1, <2>2, <2>3, <2>4, EndedGood DEF Outcome
<1> QED  BY <1>3, <1>4

LEMMA DriveEndsGood ==
  RunnerGood /\ DriverGood /\ (DriveFinishes \/ DriveFails) => RunnerGood' /\ DriverGood'
<1> SUFFICES ASSUME RunnerGood, DriverGood, DriveFinishes \/ DriveFails
             PROVE  RunnerGood' /\ DriverGood'
  OBVIOUS
<1>1. /\ Driving /\ ~Executing /\ UNCHANGED <<runner, index, entry, tframes, jumps, pending, calls>>
      /\ dout'.kind \in {"finished", "badobject", "budget"}
  BY DEF DriveFinishes, DriveFails, Servicing, Return, Outcome
<1>2. RunnerGood' /\ rout' = rout /\ table' = table
  BY <1>1, RunnerUnchanged DEF runner
<1>3. /\ tframes' \in Seq(CallFrame) /\ TitleFrames' /\ jumps' \in 0..(TitleBudget + 1)
  BY <1>1, <1>2 DEF DriverGood, DriverTypes, TitleFrames, ReturnsBehind, Resolve
<1> QED  BY <1>1, <1>2, <1>3, EndedGood

\* JumpTitle with the stack as it is, CallTitle with the frame of the caller.
LEMMA GoToTitleGood ==
  ASSUME RunnerGood, DriverGood, Requested({"JumpTitle", "CallTitle"}), NEW stack, GoToTitle(stack),
         stack \in Seq(CallFrame),
         \A i \in DOMAIN stack :
           ReturnsBehind(stack[i], "CallTitle") /\ Resolve(stack[i].entry) # NoObject
  PROVE  RunnerGood' /\ DriverGood'
<1>1. /\ Driving /\ ~Executing /\ jumps' = jumps + 1
      /\ index' = index /\ pending' = pending /\ calls' = calls
      /\ rout.kind = "request"
  BY DEF Requested, Servicing, GoToTitle, Charge
<1>2. jumps \in 0..TitleBudget /\ TitleBudget \in Nat /\ pending = FALSE /\ rout.req.arg \in Word
  BY <1>1, DriverAssumption DEF RunnerGood, RunnerStands, DriverGood, DriverStands, DriverTypes
<1>3. CASE ~InBudget \/ Resolve(Named) = NoObject
  <2>1. UNCHANGED <<runner, entry, tframes>> /\ dout'.kind \in {"budget", "badtitle"}
    BY <1>3 DEF GoToTitle, Return, Outcome
  <2>2. RunnerGood' /\ rout' = rout /\ table' = table
    BY <2>1, RunnerUnchanged DEF runner
  <2>3. tframes' \in Seq(CallFrame) /\ TitleFrames' /\ jumps' \in 0..(TitleBudget + 1)
    BY <1>1, <1>2, <2>1, <2>2 DEF DriverGood, DriverTypes, TitleFrames, ReturnsBehind, Resolve
  <2> QED  BY <1>1, <2>1, <2>2, <2>3, EndedGood
<1>4. CASE InBudget /\ Resolve(Named) # NoObject
  <2>1. /\ tframes' = stack /\ entry' = Named /\ regs' = Seeded(Named)
        /\ Run(Resolve(Named)) /\ table' = table /\ dout' = dout
    BY <1>4 DEF GoToTitle
  <2>2. Named \in Entries  BY <1>2, EntryTypes DEF Named
  <2>3. regs' \in RegisterFile
    BY <2>1, <2>2, SeededTyped DEF RunnerGood, RunnerTypes
  <2>4. Resolve(Named) \in Nat
    BY <1>4, Resolved DEF DriverGood, DriverTypes
  <2>5. RunnerGood'  BY <2>1, <2>3, <2>4, RunGood
  <2>6. /\ tframes' \in Seq(CallFrame) /\ TitleFrames'
    BY <1>1, <2>1 DEF TitleFrames, ReturnsBehind, Resolve
  <2>7. jumps' \in 0..TitleBudget  BY <1>1, <1>2, <1>4 DEF InBudget
  <2>8. Driving' /\ calls' \in 0..MaxCalls
    BY <1>1, <2>1 DEF Driving, DriverGood, DriverTypes
  <2>9. Resolve(entry') # NoObject  BY <1>4, <2>1
  <2> QED  BY <1>1, <1>2, <2>1, <2>2, <2>5, <2>6, <2>7, <2>8, <2>9, DrivesOn
<1> QED  BY <1>3, <1>4

LEMMA JumpTitleGood ==
  RunnerGood /\ DriverGood /\ JumpTitle => RunnerGood' /\ DriverGood'
<1> SUFFICES ASSUME RunnerGood, DriverGood, JumpTitle  PROVE RunnerGood' /\ DriverGood'
  OBVIOUS
<1>1. Requested({"JumpTitle", "CallTitle"}) /\ GoToTitle(tframes)
  BY DEF JumpTitle, Requested
<1> QED  BY <1>1, GoToTitleGood DEF DriverGood, DriverTypes, TitleFrames

LEMMA CallTitleGood ==
  RunnerGood /\ DriverGood /\ CallTitle => RunnerGood' /\ DriverGood'
<1> SUFFICES ASSUME RunnerGood, DriverGood, CallTitle  PROVE RunnerGood' /\ DriverGood'
  OBVIOUS
<1>1. /\ Requested({"JumpTitle", "CallTitle"}) /\ GoToTitle(Append(tframes, TitleFrame))
      /\ rout.kind = "request" /\ rout.req.op = "CallTitle" /\ Driving
  BY DEF CallTitle, Requested, Servicing
<1>2. /\ ReturnsBehind(TitleFrame, "CallTitle") /\ Resolve(TitleFrame.entry) # NoObject
      /\ TitleFrame \in CallFrame
  BY <1>1
  DEF RunnerGood, RunnerTypes, RunnerStands, DriverGood, DriverTypes, DriverStands, TitleFrame,
      ReturnsBehind, CallFrame
<1>3. tframes \in Seq(CallFrame)  BY DEF DriverGood, DriverTypes
<1> DEFINE s == Append(tframes, TitleFrame)
<1>4. /\ s \in Seq(CallFrame) /\ DOMAIN s = 1..(Len(tframes) + 1)
      /\ DOMAIN tframes = 1..Len(tframes) /\ Len(tframes) \in Nat
      /\ \A i \in 1..Len(tframes) : s[i] = tframes[i]
      /\ s[Len(tframes) + 1] = TitleFrame
  BY <1>2, <1>3, AppendProperties
<1> HIDE DEF s
<1>5. \A i \in DOMAIN s : ReturnsBehind(s[i], "CallTitle") /\ Resolve(s[i].entry) # NoObject
  BY <1>2, <1>4 DEF DriverGood, TitleFrames
<1>6. GoToTitle(s)  BY <1>1 DEF s
<1> QED  BY <1>1, <1>4, <1>5, <1>6, GoToTitleGood

LEMMA DriveYieldsGood ==
  RunnerGood /\ DriverGood /\ DriveYields => RunnerGood' /\ DriverGood'
<1> SUFFICES ASSUME RunnerGood, DriverGood, DriveYields  PROVE RunnerGood' /\ DriverGood'
  OBVIOUS
<1>1. /\ Driving /\ ~Executing /\ rout.kind = "request" /\ pending' = TRUE
      /\ UNCHANGED <<runner, index, entry, tframes, jumps, calls>>
      /\ dout'.kind \in {"play", "request"} /\ dout'.req = rout.req
  BY DEF DriveYields, Requested, Servicing, Return, Outcome
<1>2. RunnerGood' /\ UNCHANGED <<table, object, pc, rout>>
  BY <1>1, RunnerUnchanged DEF runner
<1>3. /\ DriverTypes' /\ TitleFrames'
  BY <1>1, <1>2
  DEF DriverGood, DriverTypes, DriverKinds, CallFrame, TitleFrames, ReturnsBehind, Resolve
<1>4. PendingIsYield'
  BY <1>1, <1>2
  DEF PendingIsYield, RunnerGood, RunnerStands, ReturnsBehind, Commands, Driving
<1>5. DriverStands'
  BY <1>1, <1>2, <1>4 DEF DriverGood, DriverStands, Driving, Executing, Resolve
<1> QED  BY <1>2, <1>3, <1>5 DEF DriverGood

LEMMA RunEntryGood ==
  ASSUME RunnerGood, DriverGood, NEW e \in Entries, RunEntry(e)
  PROVE  RunnerGood' /\ DriverGood'
<1>1. /\ ~Driving /\ calls < MaxCalls /\ calls' = calls + 1
      /\ tframes' = <<>> /\ pending' = FALSE /\ index' = index
  BY DEF RunEntry, Called, DropPending
<1>2. calls' \in 0..MaxCalls /\ ~Executing
  BY <1>1, DriverAssumption DEF DriverGood, DriverTypes, DriverStands
<1>3. tframes' \in Seq(CallFrame') /\ TitleFrames'
  BY <1>1 DEF TitleFrames
<1>4. CASE Resolve(e) = NoObject
  <2>1. UNCHANGED <<runner, entry, jumps>> /\ dout'.kind = "badtitle"
    BY <1>4 DEF RunEntry, Return, Outcome
  <2>2. RunnerGood' /\ UNCHANGED <<table, rout>>
    BY <2>1, RunnerUnchanged DEF runner
  <2>3. DriverTypes'
    BY <1>1, <1>2, <1>3, <2>1 DEF DriverGood, DriverTypes, DriverKinds
  <2>4. DriverStands'
    BY <1>1, <1>2, <2>1, <2>2 DEF DriverStands, PendingIsYield, Driving, Executing
  <2> QED  BY <1>3, <2>2, <2>3, <2>4 DEF DriverGood
<1>5. CASE Resolve(e) # NoObject
  <2>1. /\ entry' = e /\ regs' = Seeded(e) /\ Run(Resolve(e)) /\ jumps' = 0
        /\ dout' = Driven /\ table' = table
    BY <1>5 DEF RunEntry
  <2>2. regs' \in RegisterFile
    BY <2>1, SeededTyped DEF RunnerGood, RunnerTypes
  <2>3. Resolve(e) \in Nat
    BY <1>5, Resolved DEF DriverGood, DriverTypes
  <2>4. RunnerGood'  BY <2>1, <2>2, <2>3, RunGood
  <2>5. Driving' /\ jumps' \in 0..TitleBudget /\ tframes' \in Seq(CallFrame)
    BY <1>1, <2>1, DriverAssumption DEF Driving, Driven, Outcome
  <2> QED  BY <1>1, <1>2, <1>3, <1>5, <2>1, <2>4, <2>5, DrivesOn
<1> QED  BY <1>4, <1>5

LEMMA ResumeDriveGood ==
  RunnerGood /\ DriverGood /\ ResumeDrive => RunnerGood' /\ DriverGood'
<1> SUFFICES ASSUME RunnerGood, DriverGood, ResumeDrive  PROVE RunnerGood' /\ DriverGood'
  OBVIOUS
<1>1. /\ ~Driving /\ calls < MaxCalls /\ calls' = calls + 1
      /\ pending' = FALSE /\ UNCHANGED <<index, entry, tframes>>
  BY DEF ResumeDrive, Called
<1>2. calls' \in 0..MaxCalls /\ ~Executing
  BY <1>1, DriverAssumption DEF DriverGood, DriverTypes, DriverStands
<1>3. CASE pending
  <2>1. /\ ResumeAt(object, pc) /\ jumps' = 0 /\ dout' = Driven /\ table' = table /\ regs' = regs
    BY <1>3 DEF ResumeDrive, Resume
  <2>2. /\ object \in DOMAIN table /\ pc \in Nat /\ regs \in RegisterFile
        /\ Resolve(entry) # NoObject /\ entry \in Entries
    BY <1>1, <1>3 DEF DriverGood, DriverTypes, DriverStands, PendingIsYield, RunnerGood, RunnerTypes
  <2>3. RunnerGood'  BY <2>1, <2>2, ResumeGood
  <2>4. /\ Driving' /\ jumps' \in 0..TitleBudget /\ tframes' \in Seq(CallFrame) /\ TitleFrames'
    BY <1>1, <2>1, DriverAssumption
    DEF Driving, Driven, Outcome, DriverGood, DriverTypes, TitleFrames, ReturnsBehind, Resolve
  <2> QED  BY <1>1, <1>2, <2>1, <2>2, <2>3, <2>4, DrivesOn
<1>4. CASE ~pending
  <2>1. dout'.kind = "finished" /\ UNCHANGED <<runner, jumps>>
    BY <1>4 DEF ResumeDrive, Return, Outcome
  <2>2. RunnerGood' /\ UNCHANGED <<table, rout>>
    BY <2>1, RunnerUnchanged DEF runner
  <2>3. DriverTypes' /\ TitleFrames'
    BY <1>1, <1>2, <2>1, <2>2
    DEF DriverGood, DriverTypes, DriverKinds, CallFrame, TitleFrames, ReturnsBehind, Resolve
  <2>4. DriverStands'
    BY <1>1, <1>2, <2>1, <2>2 DEF DriverStands, PendingIsYield, Driving, Executing
  <2> QED  BY <2>2, <2>3, <2>4 DEF DriverGood
<1> QED  BY <1>3, <1>4

-----------------------------------------------------------------------------
(* The theorems.                                                           *)

LEMMA StandingInit == Init => Standing
<1> SUFFICES ASSUME Init  PROVE Standing
  OBVIOUS
<1>1. /\ table \in Tables /\ object = 0 /\ pc = 0 /\ regs = Cleared /\ steps = 0
      /\ frames = <<>> /\ hops = 0 /\ rout = Outcome("finished", NoRequest)
      /\ index \in Indexes /\ entry = FirstPlayback /\ tframes = <<>> /\ jumps = 0
      /\ pending = FALSE /\ dout = Outcome("none", NoRequest) /\ calls = 0
  BY DEF Init, RunnerInit
<1>2. rout.kind = "finished" /\ dout.kind = "none"  BY <1>1 DEF Outcome
<1>3. Cleared \in RegisterFile
  <2>1. 0 \in Word  BY WordAssumption DEF Word
  <2> QED  BY <2>1 DEF Cleared, RegisterFile
<1>4. RunnerTypes
  BY <1>1, <1>2, <1>3, RunnerAssumption DEF RunnerTypes, RunKinds
<1>5. DriverTypes
  <2>1. FirstPlayback \in Entries  BY DEF Entries
  <2>2. TitleBudget \in Nat /\ MaxCalls \in Nat  BY DriverAssumption
  <2>3. jumps \in 0..(TitleBudget + 1) /\ calls \in 0..MaxCalls  BY <1>1, <2>2
  <2>4. tframes \in Seq(CallFrame)  BY <1>1
  <2>5. dout.kind \in DriverKinds /\ pending \in BOOLEAN  BY <1>1, <1>2 DEF DriverKinds
  <2> QED  BY <1>1, <2>1, <2>3, <2>4, <2>5 DEF DriverTypes
<1>6. RunnerStands /\ DriverStands /\ FramesAreReturnPoints
  BY <1>1, <1>2
  DEF RunnerStands, DriverStands, Executing, Driving, PendingIsYield, FramesAreReturnPoints
<1> QED  BY <1>4, <1>5, <1>6 DEF Standing

LEMMA StandingNext == Standing /\ [Next]_vars => Standing'
<1> SUFFICES ASSUME Standing, [Next]_vars  PROVE Standing'
  OBVIOUS
<1>1. RunnerGood /\ DriverGood  BY StandingParts
<1>2. CASE Driving /\ RunnerStep /\ UNCHANGED <<driver, calls>>
  <2>1. RunnerGood' /\ table' = table  BY <1>1, <1>2, RunnerStepGood
  <2>2. DriverGood'  BY <1>1, <1>2, <2>1, DriverWaits
  <2> QED  BY <2>1, <2>2, StandingParts, PTL
<1>3. CASE TitleReturns \/ DriveFinishes \/ DriveFails \/ JumpTitle \/ CallTitle \/ DriveYields
  <2>1. RunnerGood' /\ DriverGood'
    BY <1>1, <1>3, TitleReturnsGood, DriveEndsGood, JumpTitleGood, CallTitleGood, DriveYieldsGood
  <2> QED  BY <2>1, StandingParts, PTL
<1>4. CASE (\E e \in Entries : RunEntry(e)) \/ ResumeDrive
  <2>1. RunnerGood' /\ DriverGood'  BY <1>1, <1>4, RunEntryGood, ResumeDriveGood
  <2> QED  BY <2>1, StandingParts, PTL
<1>5. CASE UNCHANGED vars
  <2>1. UNCHANGED <<runner, driver, calls>>  BY <1>5 DEF vars
  <2>2. RunnerGood'  BY <1>1, <2>1, RunnerUnchanged
  <2>3. DriverGood'
    <3>1. /\ index' = index /\ entry' = entry /\ tframes' = tframes /\ jumps' = jumps
          /\ pending' = pending /\ dout' = dout /\ calls' = calls
          /\ table' = table /\ object' = object /\ pc' = pc /\ rout' = rout
      BY <2>1 DEF driver, runner
    <3> QED
      BY <1>1, <3>1
      DEF DriverGood, DriverTypes, CallFrame, DriverStands, TitleFrames, ReturnsBehind, Resolve,
          PendingIsYield, Driving, Executing, Commands
  <2> QED  BY <2>2, <2>3, StandingParts, PTL
<1> QED  BY <1>2, <1>3, <1>4, <1>5 DEF Next, DriverStep

\* The inductive invariant of the driver and its runner.
THEOREM DriverStanding == Spec => []Standing
<1> QED  BY StandingInit, StandingNext, PTL DEF Spec

\* Every variable holds what its field can hold; in particular registers are
\* words whatever a script computes, and no budget is passed.
THEOREM TypesKept == Spec => []TypeOK
<1>1. Standing => TypeOK
  <2> SUFFICES ASSUME Standing  PROVE TypeOK
    OBVIOUS
  <2>1. RunnerTypes /\ DriverTypes /\ (Executing => Driving)  BY DEF Standing, DriverStands
  <2> QED  BY <2>1 DEF RunnerTypes, DriverTypes, ObjectFrame, CallFrame, RunKinds, TypeOK
<1> QED  BY DriverStanding, <1>1, PTL

\* Both call stacks hold return points right behind the calls that made them.
THEOREM ReturnPoints == Spec => []FramesAreReturnPoints
<1>1. Standing => FramesAreReturnPoints  BY DEF Standing
<1> QED  BY DriverStanding, <1>1, PTL

\* resume() goes on exactly after a yield, with the runner behind its command.
THEOREM ResumableIsYielded == Spec => []PendingIsYield
<1>1. Standing => PendingIsYield  BY DEF Standing, DriverStands
<1> QED  BY DriverStanding, <1>1, PTL

\* A drive that ends in Finished leaves nobody waiting on either stack.
THEOREM FinishedLeavesNobody == Spec => FinishedIsDone
<1>1. ASSUME Standing, [Next]_vars, Driving, dout'.kind = "finished"
      PROVE  frames' = <<>> /\ tframes' = <<>>
  <2>1. CASE RunnerStep /\ UNCHANGED <<driver, calls>>
    BY <1>1, <2>1 DEF driver, Driving
  <2>2. CASE TitleReturns
    BY <1>1, <2>2 DEF TitleReturns, Driving, Return, Outcome
  <2>3. CASE DriveFinishes
    <3>1. frames = <<>> /\ tframes = <<>>
      BY <1>1, <2>3 DEF DriveFinishes, Waiting, Standing, RunnerStands
    <3> QED  BY <2>3, <3>1 DEF DriveFinishes, runner
  <2>4. CASE DriveFails
    BY <1>1, <2>4 DEF DriveFails, Return, Outcome
  <2>5. CASE JumpTitle \/ CallTitle
    BY <1>1, <2>5 DEF JumpTitle, CallTitle, GoToTitle, Driving, Return, Outcome
  <2>6. CASE DriveYields
    BY <1>1, <2>6 DEF DriveYields, Return, Outcome
  <2>7. CASE (\E e \in Entries : RunEntry(e)) \/ ResumeDrive
    BY <1>1, <2>7 DEF RunEntry, ResumeDrive, Called
  <2>8. CASE UNCHANGED vars
    BY <1>1, <2>8 DEF vars, driver, Driving
  <2> QED  BY <1>1, <2>1, <2>2, <2>3, <2>4, <2>5, <2>6, <2>7, <2>8 DEF Next, DriverStep
<1>2. Standing /\ [Next]_vars => [Driving /\ dout'.kind = "finished"
                                    => frames' = <<>> /\ tframes' = <<>>]_vars
  BY <1>1
<1> QED  BY DriverStanding, <1>2, PTL DEF Spec, FinishedIsDone

\* The registers a step of the driver or of its runner may change.
LEMMA RegistersNext ==
  ASSUME Standing, [Next]_vars, NEW p \in Psrs
  PROVE  \/ /\ entry' = entry
            /\ p \in ReadOnly \/ ScriptsSpare(p) => regs'.psr[p] = regs.psr[p]
         \/ /\ regs'.psr[TitlePsr] = entry'.number
            /\ p # TitlePsr => regs'.psr[p] = regs.psr[p]
<1>1. RunnerGood /\ DriverGood /\ regs \in RegisterFile
  BY StandingParts DEF RunnerGood, RunnerTypes
<1>2. CASE VmCommand /\ UNCHANGED <<driver, calls>>
  <2>1. /\ Executing /\ regs' = Result.regs /\ entry' = entry
    BY <1>2 DEF VmCommand, driver
  <2>2. p \in ReadOnly \/ (\A i \in 1..Len(Commands) : ~Writes(Commands[i], p))
          => Result.regs.psr[p] = regs.psr[p]
    BY <1>1, <2>1, Results DEF RunnerGood
  <2>3. ScriptsSpare(p) => \A i \in 1..Len(Commands) : ~Writes(Commands[i], p)
    <3>1. object \in DOMAIN table /\ DOMAIN table[object] = 1..Len(table[object])
      BY <1>1, <2>1, RunnerAssumption DEF RunnerGood, RunnerTypes, RunnerStands
    <3> QED  BY <3>1 DEF ScriptsSpare, Commands
  <2> QED  BY <2>1, <2>2, <2>3
<1>3. CASE regs' = regs /\ entry' = entry
  BY <1>3
<1>4. CASE \E e \in Entries : entry' = e /\ regs' = Seeded(e)
  BY <1>1, <1>4, SeededTyped
<1>5. CASE RunnerStep /\ ~VmCommand /\ UNCHANGED <<driver, calls>>
  <2>1. regs' = regs /\ entry' = entry
    BY <1>5
    DEF RunnerStep, ReturnToCaller, FinishRun, JumpObject, CallObject, Yield, driver
  <2> QED  BY <1>3, <2>1
<1>6. CASE TitleReturns
  <2>1. \/ regs' = regs /\ entry' = entry
        \/ entry' = Top(tframes).entry /\ regs' = Seeded(entry') /\ Waiting(tframes)
    BY <1>6 DEF TitleReturns, runner
  <2>2. Waiting(tframes) => Top(tframes).entry \in Entries
    <3>1. tframes \in Seq(CallFrame)  BY <1>1 DEF DriverGood, DriverTypes
    <3>2. Waiting(tframes) => Top(tframes) \in CallFrame  BY <3>1, Popped
    <3> QED  BY <3>2 DEF CallFrame
  <2> QED  BY <1>3, <1>4, <2>1, <2>2
<1>7. CASE JumpTitle \/ CallTitle
  <2>1. \/ regs' = regs /\ entry' = entry
        \/ entry' = Named /\ regs' = Seeded(Named)
    BY <1>7 DEF JumpTitle, CallTitle, GoToTitle, runner
  <2>2. Named \in Entries
    <3>1. rout.req.arg \in Word
      BY <1>1, <1>7 DEF JumpTitle, CallTitle, Requested, RunnerGood, RunnerStands
    <3> QED  BY <3>1, EntryTypes DEF Named
  <2> QED  BY <1>3, <1>4, <2>1, <2>2
<1>8. CASE DriveFinishes \/ DriveFails \/ DriveYields \/ ResumeDrive
  <2>1. regs' = regs /\ entry' = entry
    BY <1>8 DEF DriveFinishes, DriveFails, DriveYields, ResumeDrive, runner
  <2> QED  BY <1>3, <2>1
<1>9. CASE \E e \in Entries : RunEntry(e)
  <2>1. PICK e \in Entries : RunEntry(e)  BY <1>9
  <2>2. \/ regs' = regs /\ entry' = entry
        \/ entry' = e /\ regs' = Seeded(e)
    BY <2>1 DEF RunEntry, runner
  <2> QED  BY <1>3, <1>4, <2>2
<1>10. CASE UNCHANGED vars
  <2>1. regs' = regs /\ entry' = entry  BY <1>10 DEF vars, runner, driver
  <2> QED  BY <1>3, <2>1
<1> QED
  BY <1>2, <1>5, <1>6, <1>7, <1>8, <1>9, <1>10 DEF Next, DriverStep

\* No command writes a register the player owns, and the driver writes one.
THEOREM PlayerRegistersAreKept == Spec => PlayerRegistersKept
<1>1. ASSUME Standing, [Next]_vars
      PROVE  \A p \in ReadOnly \ {TitlePsr} : regs'.psr[p] = regs.psr[p]
  BY <1>1, RegistersNext, VmAssumption
<1>2. Standing /\ [Next]_vars
        => [\A p \in ReadOnly \ {TitlePsr} : regs'.psr[p] = regs.psr[p]]_vars
  BY <1>1
<1> QED  BY DriverStanding, <1>2, PTL DEF Spec, PlayerRegistersKept

\* PSR4 shows the entry that is running, on a disc whose scripts leave it alone.
THEOREM TitleRegisterShowsEntry == Spec => []TitleRegisterTracks
<1>1. Init => TitleRegisterTracks
  BY DriverAssumption
  DEF Init, RunnerInit, TitleRegisterTracks, Cleared, FirstPlayback
<1>2. Standing /\ TitleRegisterTracks /\ [Next]_vars => TitleRegisterTracks'
  <2> SUFFICES ASSUME Standing, TitleRegisterTracks, [Next]_vars, ScriptsSpare(TitlePsr)'
               PROVE  regs'.psr[TitlePsr] = entry'.number
    BY DEF TitleRegisterTracks
  <2>1. table' = table
    BY RunnerStepGood, StandingParts
    DEF Next, DriverStep, TitleReturns, DriveFinishes, DriveFails, JumpTitle, CallTitle,
        GoToTitle, DriveYields, RunEntry, ResumeDrive, runner, vars
  <2>2. ScriptsSpare(TitlePsr)  BY <2>1 DEF ScriptsSpare
  <2>3. TitlePsr \in Psrs  BY DriverAssumption
  <2> QED  BY <2>2, <2>3, RegistersNext DEF TitleRegisterTracks
<1> QED  BY DriverStanding, <1>1, <1>2, PTL DEF Spec
=============================================================================

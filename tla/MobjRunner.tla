----------------------------- MODULE MobjRunner -----------------------------
(***************************************************************************)
(* MobjRunner (src/src/bdmv/mobj_runner.rs) over HdmvVm: runs the Movie    *)
(* Objects of a MovieObject.bdmv table, following the branches between     *)
(* them and yielding every other request.  run() and resume() are one      *)
(* step per command; nothing else happens while they run.                  *)
(***************************************************************************)
EXTENDS HdmvVm, Sequences

CONSTANTS
    Tables,         \* Movie Object tables: functions from ids to command lists
    StepBudget,     \* commands in one HdmvVm::run
    ObjectBudget    \* object transitions in one run() or resume()

ASSUME RunnerAssumption ==
    /\ StepBudget \in Nat /\ ObjectBudget \in Nat
    /\ \A t \in Tables : DOMAIN t \subseteq Nat /\ \A i \in DOMAIN t : t[i] \in Seq(Command)

VARIABLES
    table,      \* the disc's table; never changes
    object,     \* current
    pc,         \* the VM's program counter, from 0
    regs,       \* the VM's registers, shared by all objects
    steps,      \* steps_taken of the current HdmvVm::run
    frames,     \* resume: the object call stack
    hops,       \* transitions of the current drive
    rout        \* "running", or the RunOutcome with its request

runner == <<table, object, pc, regs, steps, frames, hops, rout>>

Outcome(kind, req) == [kind |-> kind, req |-> req]
RunningNow == Outcome("running", NoRequest)
Executing == rout.kind = "running"

Commands == table[object]
Top(stack) == stack[Len(stack)]
Pop(stack) == SubSeq(stack, 1, Len(stack) - 1)

\* mutant: the frame at the bottom is never popped
AboveBottom(stack) == Len(stack) > 1
Waiting(stack) == stack # <<>>

-----------------------------------------------------------------------------
(* HdmvVm::run, one command at a time.                                     *)

OutOfSteps == steps >= StepBudget
AtEnd == pc >= Len(Commands)

\* What the VM does next; a list that is over, or cut off, halts where it is.
Result == IF OutOfSteps \/ AtEnd THEN Halted(regs, pc)
                                 ELSE Exec(regs, pc + 1, Commands[pc + 1], Len(Commands))

\* mutant: only a command that moves forward counts
StepForward == IF Result.pc > pc THEN steps + 1 ELSE steps
StepTaken == steps + 1

Stops == Executing /\ Result.out # "continue"

VmCommand ==
    /\ Executing /\ Result.out = "continue"
    /\ regs' = Result.regs /\ pc' = Result.pc /\ steps' = StepTaken
    /\ UNCHANGED <<table, object, frames, hops, rout>>

-----------------------------------------------------------------------------
(* drive: what follows when the VM stops.                                  *)

ReturnOut(outcome) == rout' = outcome /\ pc' = Result.pc /\ UNCHANGED <<object, steps>>

\* A transition is charged before it is made; over budget the drive ends.
Charged(move) ==
    /\ hops' = hops + 1
    /\ IF hops' > ObjectBudget THEN ReturnOut(Outcome("budget", NoRequest)) ELSE move

Continues(id, at) == object' = id /\ pc' = at /\ steps' = 0 /\ rout' = rout

\* enter
Enter(id) ==
    IF id \in DOMAIN table THEN Continues(id, 0)
                           ELSE ReturnOut(Outcome("badobject", Request("none", id)))

\* The list ran out, was cut off, hit Break, or asked to Resume.
ListEnds == Stops /\ (Result.out = "halted" \/ Result.req.op = "Resume")

ReturnToCaller ==
    /\ ListEnds /\ Waiting(frames)
    /\ frames' = Pop(frames)
    /\ Charged(Continues(Top(frames).object, Top(frames).pc))
    /\ UNCHANGED <<table, regs>>

FinishRun ==
    /\ ListEnds /\ ~Waiting(frames)
    /\ ReturnOut(Outcome("finished", NoRequest))
    /\ UNCHANGED <<table, regs, frames, hops>>

JumpObject ==
    /\ Stops /\ Result.req.op = "JumpObject"
    /\ Charged(Enter(Result.req.arg))
    /\ UNCHANGED <<table, regs, frames>>

\* The return point: the VM has already moved past the CallObject.
ReturnFrame == [object |-> object, pc |-> Result.pc]

\* The return point is pushed only when the object called exists.
CallObject ==
    /\ Stops /\ Result.req.op = "CallObject"
    /\ Charged(Enter(Result.req.arg))
    /\ frames' = IF rout'.kind = "running" THEN Append(frames, ReturnFrame) ELSE frames
    /\ UNCHANGED <<table, regs>>

\* Everything else needs the disc or the player.
OwnBranches == {"JumpObject", "CallObject", "Resume"}

Yield ==
    /\ Stops /\ Result.out = "branch" /\ Result.req.op \notin OwnBranches
    /\ ReturnOut(Outcome("request", Result.req))
    /\ UNCHANGED <<table, regs, frames, hops>>

-----------------------------------------------------------------------------
(* run, resume and set_object_pc, for the layer above.                     *)

Drive == hops' = 0 /\ steps' = 0

Run(id) ==
    IF id \in DOMAIN table
      THEN object' = id /\ pc' = 0 /\ frames' = <<>> /\ rout' = RunningNow /\ Drive
      ELSE /\ rout' = Outcome("badobject", Request("none", id))
           /\ UNCHANGED <<object, pc, steps, frames, hops>>

ResumeAt(id, at) ==
    object' = id /\ pc' = at /\ rout' = RunningNow /\ Drive /\ UNCHANGED frames

Resume == ResumeAt(object, pc)

RunnerStep ==
    \/ VmCommand \/ ReturnToCaller \/ FinishRun
    \/ JumpObject \/ CallObject \/ Yield

RunnerInit ==
    /\ table \in Tables
    /\ object = 0 /\ pc = 0 /\ regs = Cleared /\ steps = 0
    /\ frames = <<>> /\ hops = 0 /\ rout = Outcome("finished", NoRequest)
=============================================================================

------------------------------ MODULE NavDriver ------------------------------
(***************************************************************************)
(* NavDriver (src/src/bdmv/nav_driver.rs), the title engine over           *)
(* MobjRunner: it resolves titles through index.bdmv, seeds PSR4, keeps    *)
(* the stack of title calls, and hands playback and player requests to     *)
(* its caller, who may run() an entry or resume() between any two drives.  *)
(***************************************************************************)
EXTENDS MobjRunner

CONSTANTS
    Indexes,        \* index.bdmv files: [first, menu, titles], an entry being
                    \* the Movie Object it names, or NoObject (BD-J)
    NoObject,
    TitlePsr,       \* PSR4
    TitleBits,      \* width of a title number (u16)
    TitleBudget,    \* title transitions in one drive
    MaxCalls        \* run() and resume() calls made by the caller

ASSUME DriverAssumption ==
    /\ TitlePsr \in Psrs /\ TitleBits \in 0..WordBits /\ TitleBudget \in Nat /\ MaxCalls \in Nat
    /\ 2 ^ TitleBits \in 1..Words     \* a title number fits a register
    /\ NoObject \notin Nat
    /\ \A x \in Indexes :
         /\ x.first \in Nat \union {NoObject} /\ x.menu \in Nat \union {NoObject}
         /\ x.titles \in Seq(Nat \union {NoObject})

VARIABLES
    index,      \* the disc's index.bdmv; never changes
    entry,      \* current_entry
    tframes,    \* title_stack
    jumps,      \* title transitions of the current drive
    pending,    \* the last drive yielded and may be resumed
    dout,       \* "driving", or the DriveOutcome returned
    calls       \* calls made so far

driver == <<index, entry, tframes, jumps, pending, dout>>
vars == <<runner, driver, calls>>

TitleValues == 2 ^ TitleBits
FirstPlayback == [kind |-> "first", number |-> 0]
TopMenu == [kind |-> "menu", number |-> TitleValues - 1]
Title(n) == [kind |-> "title", number |-> n]

\* mutant: seeded before current_entry is updated
SeededLate(e) == PlayerSet(regs, TitlePsr, entry.number)
\* seed_psr_title: the entry's number is what PSR4 shows; 0xFFFF is the menu.
Seeded(e) == PlayerSet(regs, TitlePsr, e.number)

\* resolve_movie_object: titles are numbered from 1.
Resolve(e) ==
    IF e.kind = "first" THEN index.first
    ELSE IF e.kind = "menu" THEN index.menu
    ELSE IF e.number \in DOMAIN index.titles THEN index.titles[e.number]
    ELSE NoObject

Driving == dout.kind = "driving"
Driven == Outcome("driving", NoRequest)
Return(kind, req) == dout' = Outcome(kind, req)

-----------------------------------------------------------------------------
(* drive: service what the runner returned.                                *)

Servicing == Driving /\ ~Executing
Requested(ops) == Servicing /\ rout.kind = "request" /\ rout.req.op \in ops

\* charge
Charge == jumps' = jumps + 1
OneOver == jumps <= TitleBudget      \* mutant: the transition over the budget is made
InBudget == jumps + 1 <= TitleBudget

\* Pop, then charge: over budget the frame is gone.
TitleReturns ==
    /\ Servicing /\ rout.kind = "finished" /\ Waiting(tframes)
    /\ tframes' = Pop(tframes)
    /\ Charge
    /\ IF InBudget
         THEN /\ entry' = Top(tframes).entry
              /\ regs' = Seeded(entry')
              /\ ResumeAt(Top(tframes).object, Top(tframes).pc)
              /\ UNCHANGED <<table, dout>>
         ELSE Return("budget", NoRequest) /\ UNCHANGED <<runner, entry>>
    /\ UNCHANGED <<index, pending, calls>>

DriveFinishes ==
    /\ Servicing /\ rout.kind = "finished" /\ ~Waiting(tframes)
    /\ Return("finished", NoRequest)
    /\ UNCHANGED <<runner, index, entry, tframes, jumps, pending, calls>>

DriveFails ==
    /\ Servicing /\ rout.kind \in {"badobject", "budget"}
    /\ Return(rout.kind, rout.req)
    /\ UNCHANGED <<runner, index, entry, tframes, jumps, pending, calls>>

\* The title operand is cut to its low TitleBits bits ("title as u16").
Named == Title(rout.req.arg % TitleValues)

\* JumpTitle and CallTitle differ in the frame that CallTitle pushes.
GoToTitle(stack) ==
    /\ Charge
    /\ IF ~InBudget
         THEN Return("budget", NoRequest) /\ UNCHANGED <<runner, entry, tframes>>
       ELSE IF Resolve(Named) = NoObject
         THEN /\ Return("badtitle", Request("none", Named.number))
              /\ UNCHANGED <<runner, entry, tframes>>
       ELSE /\ tframes' = stack
            /\ entry' = Named
            /\ regs' = Seeded(Named)
            /\ Run(Resolve(Named))
            /\ UNCHANGED <<table, dout>>
    /\ UNCHANGED <<index, pending, calls>>

JumpTitle == Requested({"JumpTitle"}) /\ GoToTitle(tframes)

\* mutant: the frame of the title being entered, not of the one left
CalleeFrame == [entry |-> Named, object |-> object, pc |-> 0]
TitleFrame == [entry |-> entry, object |-> object, pc |-> pc]

CallTitle == Requested({"CallTitle"}) /\ GoToTitle(Append(tframes, TitleFrame))

\* NavRequest::Resume, which drive() also handles, is never yielded by the
\* runner.  Everything else is the caller's to service.
DriveYields ==
    /\ Requested(PlayOps \union PlayerOps)
    /\ pending' = TRUE
    /\ Return(IF rout.req.op \in PlayOps THEN "play" ELSE "request", rout.req)
    /\ UNCHANGED <<runner, index, entry, tframes, jumps, calls>>

-----------------------------------------------------------------------------
(* run and resume.                                                         *)

Called == ~Driving /\ calls < MaxCalls /\ calls' = calls + 1

\* mutant: run() leaves the yield of an earlier drive pending
KeepPending == UNCHANGED pending
DropPending == pending' = FALSE

RunEntry(e) ==
    /\ Called
    /\ tframes' = <<>>
    /\ DropPending
    /\ IF Resolve(e) = NoObject
         THEN /\ Return("badtitle",
                        Request("none", IF e.kind = "title" THEN e.number
                                                            ELSE TopMenu.number))
              /\ UNCHANGED <<runner, entry, jumps>>
         ELSE /\ entry' = e
              /\ regs' = Seeded(e)
              /\ Run(Resolve(e))
              /\ jumps' = 0
              /\ dout' = Driven
              /\ UNCHANGED table
    /\ UNCHANGED index

ResumeDrive ==
    /\ Called
    /\ pending' = FALSE
    /\ IF pending
         THEN Resume /\ jumps' = 0 /\ dout' = Driven /\ UNCHANGED <<table, regs>>
         ELSE Return("finished", NoRequest) /\ UNCHANGED <<runner, jumps>>
    /\ UNCHANGED <<index, entry, tframes>>

-----------------------------------------------------------------------------

Entries == {FirstPlayback, TopMenu} \union {Title(n) : n \in 0..(TitleValues - 1)}

Init ==
    /\ RunnerInit
    /\ index \in Indexes
    /\ entry = FirstPlayback /\ tframes = <<>> /\ jumps = 0
    /\ pending = FALSE /\ dout = Outcome("none", NoRequest) /\ calls = 0

DriverStep ==
    \/ Driving /\ RunnerStep /\ UNCHANGED <<driver, calls>>
    \/ TitleReturns \/ DriveFinishes \/ DriveFails
    \/ JumpTitle \/ CallTitle \/ DriveYields

Next ==
    \/ DriverStep
    \/ \E e \in Entries : RunEntry(e)
    \/ ResumeDrive

Spec == Init /\ [][Next]_vars

\* A drive runs until it returns.
FairSpec == Spec /\ WF_vars(DriverStep)

-----------------------------------------------------------------------------
(* Properties.                                                             *)

DriverKinds == {"none", "driving", "finished", "play", "request", "badtitle",
                "badobject", "budget"}

\* The variables hold what the fields of the driver, the runner and the VM can
\* hold: registers stay words, budgets are never passed, and a title frame keeps
\* an entry, an object of the table and a pc.
TypeOK ==
    /\ table \in Tables /\ index \in Indexes
    /\ regs \in RegisterFile
    /\ object \in Nat /\ pc \in Nat
    /\ steps \in 0..StepBudget /\ hops \in 0..(ObjectBudget + 1)
    /\ frames \in Seq([object : DOMAIN table, pc : Nat])
    /\ rout.kind \in {"running", "finished", "request", "badobject", "budget"}
    /\ entry \in Entries
    /\ tframes \in Seq([entry : Entries, object : DOMAIN table, pc : Nat])
    /\ jumps \in 0..(TitleBudget + 1) /\ pending \in BOOLEAN
    /\ dout.kind \in DriverKinds /\ calls \in 0..MaxCalls
    /\ Executing => Driving

\* Every frame on either stack resumes an object of the table at the command
\* right after its own CallObject or CallTitle, so a return can neither leave the
\* table nor repeat the call; and the entry a return will show in PSR4 is one the
\* index can run.
ReturnsBehind(frame, op) ==
    /\ frame.object \in DOMAIN table
    /\ frame.pc \in 1..Len(table[frame.object])
    /\ table[frame.object][frame.pc].op = op
FramesAreReturnPoints ==
    /\ \A i \in DOMAIN frames : ReturnsBehind(frames[i], "CallObject")
    /\ \A i \in DOMAIN tframes :
         ReturnsBehind(tframes[i], "CallTitle") /\ Resolve(tframes[i].entry) # NoObject

\* Between drives, resume() goes on exactly when the last drive ended in a Play
\* or a Request, and the runner then really stands behind such a command.
PendingIsYield ==
    ~Driving =>
      /\ pending <=> dout.kind \in {"play", "request"}
      /\ pending => /\ rout.kind = "request" /\ rout.req = dout.req
                    /\ object \in DOMAIN table /\ pc \in 1..Len(Commands)
                    /\ Commands[pc].op = rout.req.op

\* A command that names PSR p to write to: as its first operand, or in a swap.
Writes(c, p) ==
    /\ c.op \in SetOps \union {"Swap"}
    /\ \/ c.a.kind = "psr" /\ c.a.v = p
       \/ c.op = "Swap" /\ c.b.kind = "psr" /\ c.b.v = p
ScriptsSpare(p) == \A i \in DOMAIN table : \A k \in DOMAIN table[i] : ~Writes(table[i][k], p)

\* On a disc whose scripts do not write PSR4 themselves, it shows the entry that
\* is running, through jumps, calls, returns, failed transitions and requests.
TitleRegisterTracks == ScriptsSpare(TitlePsr) => regs.psr[TitlePsr] = entry.number

\* A drive that ends in Finished leaves nobody waiting on either stack.
FinishedIsDone ==
    [][Driving /\ dout'.kind = "finished" => frames' = <<>> /\ tframes' = <<>>]_vars

\* No command writes a register the player owns.
PlayerRegistersKept ==
    [][\A p \in ReadOnly \ {TitlePsr} : regs'.psr[p] = regs.psr[p]]_vars

\* Every drive returns to its caller, whatever loops the disc's scripts contain.
DrivesReturn == Driving ~> ~Driving
=============================================================================

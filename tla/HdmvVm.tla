------------------------------- MODULE HdmvVm -------------------------------
(***************************************************************************)
(* One command of the HDMV navigation VM (src/src/bdmv/vm.rs), as pure     *)
(* operators on a register file.                                           *)
(*                                                                         *)
(* A command is [op, a, b]; an operand is [kind, v] with kind "imm",       *)
(* "gpr", "psr" or "none".  A register file is [gpr, psr].  Words are      *)
(* WordBits wide (32 in the code).                                         *)
(***************************************************************************)
EXTENDS Integers
LOCAL INSTANCE FiniteSetsExt

CONSTANTS
    WordBits,   \* width of a register, a power of two
    Gprs,       \* general-purpose registers
    Psrs,       \* player-status registers
    ReadOnly    \* the PSRs a navigation command may not write

ASSUME VmAssumption ==
    /\ WordBits \in Nat \ {0}
    /\ Gprs \subseteq Nat /\ Psrs \subseteq Nat /\ ReadOnly \subseteq Psrs

Words == 2 ^ WordBits
Word == 0..(Words - 1)
RegisterFile == [gpr : [Gprs -> Word], psr : [Psrs -> Word]]
Cleared == [gpr |-> [r \in Gprs |-> 0], psr |-> [r \in Psrs |-> 0]]

\* RegRef::from_operand, operand_value
IsRegister(o) == (o.kind = "gpr" /\ o.v \in Gprs) \/ (o.kind = "psr" /\ o.v \in Psrs)

Value(regs, o) ==
    CASE o.kind = "imm" -> o.v
      [] o.kind = "gpr" /\ IsRegister(o) -> regs.gpr[o.v]
      [] o.kind = "psr" /\ IsRegister(o) -> regs.psr[o.v]
      [] OTHER -> 0

\* set_psr_player
PlayerSet(regs, psr, v) == [regs EXCEPT !.psr[psr] = v]

\* RegRef::write: a PSR the player owns keeps its value.
WriteAny(regs, o, v) ==     \* mutant: scripts write as the player does
    IF o.kind = "gpr" THEN [regs EXCEPT !.gpr[o.v] = v] ELSE PlayerSet(regs, o.v, v)

Write(regs, o, v) ==
    IF o.kind = "gpr" THEN [regs EXCEPT !.gpr[o.v] = v]
    ELSE IF o.v \in ReadOnly THEN regs ELSE PlayerSet(regs, o.v, v)

-----------------------------------------------------------------------------
(* Arithmetic of the Set group.                                            *)

Bits == 0..(WordBits - 1)
Bit(x, i) == (x \div 2 ^ i) % 2
OnBits(x) == {i \in Bits : Bit(x, i) = 1}
OfBits(on) == MapThenSumSet(LAMBDA i : 2 ^ i, on)

\* Arithmetic of any width, stated because no prover here has powers or sums.
ASSUME WordAssumption ==
    /\ Words \in Nat \ {0} /\ \A i \in Bits : 2 ^ i \in Nat \ {0}
    /\ \A on \in SUBSET Bits : OfBits(on) \in Word

And(x, y) == OfBits(OnBits(x) \intersect OnBits(y))
Or(x, y) == OfBits(OnBits(x) \union OnBits(y))
Xor(x, y) == OfBits({i \in Bits : Bit(x, i) # Bit(y, i)})

SetOps == {"Move", "Add", "Sub", "Mul", "Div", "Mod", "Rnd", "And", "Or", "Xor",
           "BitSet", "BitClear", "ShiftLeft", "ShiftRight"}

Wrap(x) == x % Words

Compute(op, cur, src) ==
    CASE op = "Move" -> src
      [] op = "Add" -> Wrap(cur + src)
      [] op = "Sub" -> Wrap(cur - src)
      [] op = "Mul" -> Wrap(cur * src)
      [] op = "Div" -> IF src = 0 THEN 0 ELSE cur \div src
      [] op = "Mod" -> IF src = 0 THEN 0 ELSE cur % src
      [] op = "Rnd" -> IF src = 0 THEN 0 ELSE 1
      [] op = "And" -> And(cur, src)
      [] op = "Or" -> Or(cur, src)
      [] op = "Xor" -> Xor(cur, src)
      [] op = "BitSet" -> OfBits(OnBits(cur) \union {src % WordBits})
      [] op = "BitClear" -> OfBits(OnBits(cur) \ {src % WordBits})
      [] op = "ShiftLeft" -> IF src >= WordBits THEN 0 ELSE Wrap(cur * 2 ^ src)
      [] op = "ShiftRight" -> IF src >= WordBits THEN 0 ELSE cur \div 2 ^ src

\* exec_set, sub-group 0.  Swap with an immediate is a Move.
Assign(regs, c) ==
    IF ~IsRegister(c.a) THEN regs
    ELSE IF c.op = "Swap" /\ IsRegister(c.b)
      THEN Write(Write(regs, c.b, Value(regs, c.a)), c.a, Value(regs, c.b))
      ELSE Write(regs, c.a,
                 Compute(IF c.op = "Swap" THEN "Move" ELSE c.op,
                         Value(regs, c.a), Value(regs, c.b)))

-----------------------------------------------------------------------------
(* exec: the command at pc - 1 of a list of length len.                    *)

CompareOps == {"Bc", "Eq", "Ne", "Ge", "Gt", "Le", "Lt"}

Holds(op, x, y) ==
    CASE op = "Bc" -> And(x, y) # 0
      [] op = "Eq" -> x = y
      [] op = "Ne" -> x # y
      [] op = "Ge" -> x >= y
      [] op = "Gt" -> x > y
      [] op = "Le" -> x <= y
      [] op = "Lt" -> x < y

\* Requests that leave the VM; SetSystem is one command, its operation data.
JumpOps == {"JumpObject", "JumpTitle", "CallObject", "CallTitle", "Resume"}
PlayOps == {"PlayPL", "PlayPLatPlayItem", "PlayPLatMark"}
PlayerOps == {"TerminatePL", "LinkPI", "LinkMK", "SetSystem"}
Operand == [kind : {"imm", "gpr", "psr", "none"}, v : Word]
Command == [op : SetOps \union CompareOps \union JumpOps \union PlayOps \union PlayerOps
                   \union {"Swap", "GoTo", "Break", "Nop"},
            a : Operand, b : Operand]

Request(op, arg) == [op |-> op, arg |-> arg]
NoRequest == Request("none", 0)

Continue(regs, pc) == [out |-> "continue", regs |-> regs, pc |-> pc, req |-> NoRequest]
Halted(regs, pc) == [out |-> "halted", regs |-> regs, pc |-> pc, req |-> NoRequest]

Exec(regs, pc, c, len) ==
    LET x == Value(regs, c.a)  y == Value(regs, c.b) IN
    CASE c.op \in SetOps \union {"Swap"} -> Continue(Assign(regs, c), pc)
      [] c.op \in CompareOps ->
           IF Holds(c.op, x, y) THEN Continue(regs, pc)
           ELSE Continue(regs, IF pc < len THEN pc + 1 ELSE len)
      [] c.op = "GoTo" -> IF x < len THEN Continue(regs, x) ELSE Halted(regs, pc)
      [] c.op = "Break" -> Halted(regs, pc)
      [] c.op \in JumpOps \union PlayOps \union PlayerOps ->
           [out |-> "branch", regs |-> regs, pc |-> pc, req |-> Request(c.op, x)]
      [] OTHER -> Continue(regs, pc)
=============================================================================

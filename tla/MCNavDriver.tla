---------------------------- MODULE MCNavDriver ----------------------------
(***************************************************************************)
(* Small discs for NavDriver: two Movie Objects, every script of up to two *)
(* commands for the first and a selection for the second.                  *)
(***************************************************************************)
EXTENDS NavDriver

Imm(v) == [kind |-> "imm", v |-> v]
Gpr(v) == [kind |-> "gpr", v |-> v]
Psr(v) == [kind |-> "psr", v |-> v]
Cmd(op, a, b) == [op |-> op, a |-> a, b |-> b]
To(op, n) == Cmd(op, Imm(n), Imm(0))

UpTo2(S) == {<<>>} \union {<<c>> : c \in S} \union {<<c, d>> : c \in S, d \in S}

\* Branches out of the first object; title 5 is title 1 cut to two bits.
Branches ==
    {To("CallObject", 1), To("JumpObject", 1), To("CallTitle", 1), To("CallTitle", 3),
     To("JumpTitle", 5), To("JumpTitle", 2), To("PlayPL", 4), To("GoTo", 0),
     To("CallObject", 9), To("LinkPI", 0)}

Callees ==
    {<<>>} \union
    {<<c>> : c \in Branches \union {To("Resume", 0), To("JumpObject", 0), To("Break", 0)}}
    \union
    {<<To("CallObject", 0), To("PlayPL", 2)>>,
     <<To("CallTitle", 1), To("CallObject", 0)>>}

BranchTables == {<<m, n>> : m \in UpTo2(Branches), n \in Callees}

\* Movie Object ids start at 0.
FromZero(t) == [i \in 0..(Len(t) - 1) |-> t[i + 1]]
Branching == {FromZero(t) : t \in BranchTables}

\* Scripts that compute: PSR 13 (Parental) is a player setting.
Sums ==
    {Cmd("Move", Gpr(0), Imm(3)), Cmd("Swap", Gpr(0), Psr(13)), Cmd("Add", Psr(13), Imm(1)),
     Cmd("Sub", Gpr(0), Imm(1)), Cmd("Mul", Gpr(0), Gpr(0)), Cmd("Div", Gpr(0), Imm(0)),
     Cmd("Mod", Gpr(0), Imm(2)), Cmd("Xor", Gpr(0), Imm(6)), Cmd("BitSet", Gpr(0), Imm(6)),
     Cmd("BitClear", Gpr(0), Imm(0)), Cmd("ShiftLeft", Gpr(0), Imm(1)),
     Cmd("ShiftRight", Gpr(0), Imm(4)), Cmd("Eq", Gpr(0), Imm(3)), Cmd("Bc", Gpr(0), Imm(1)),
     To("CallTitle", 1), Cmd("GoTo", Gpr(0), Imm(0)), Cmd("Rnd", Gpr(7), Imm(1))}

Computing == {FromZero(<<m, n>>) : m \in UpTo2(Sums),
                n \in {<<Cmd("Move", Gpr(0), Psr(4)), Cmd("Gt", Gpr(0), Imm(0)),
                         Cmd("Or", Gpr(0), Imm(5)), To("GoTo", 1)>>}}

AllTables == Branching \union Computing

\* Title 1 is object 1, title 2 is BD-J, title 3 names no object of the table.
SmallIndexes ==
    {[first |-> 0, menu |-> NoObject, titles |-> <<1, NoObject, 7>>]}
=============================================================================

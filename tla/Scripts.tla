------------------------------ MODULE Scripts ------------------------------
(***************************************************************************)
(* The navigation files of a disc: the commands (src/src/bdmv/             *)
(* nav_command.rs), MovieObject.bdmv (movie_object.rs) and index.bdmv      *)
(* (index_bdmv.rs), encoded and parsed.  Pure operators.                   *)
(*                                                                         *)
(* A Movie Object is [resume, menuMask, searchMask, commands], a command   *)
(* its 12 cells.  An index is [mode, exists, format, rate, first, menu,    *)
(* titles]; what runs is [kind, playback, ref], with kind "hdmv" and a     *)
(* Movie Object, or "bdj" and a name.                                      *)
(***************************************************************************)
EXTENDS Cells

-----------------------------------------------------------------------------
(* Commands.  The four bytes of the operation have a cell each:            *)
(* <<count * 32 + group * 8 + sub-group, immediates * 64 + branch,         *)
(*   compare, set>>.  An operand is two fields, its high and its low half. *)

BranchOps ==
    << <<"Nop", "GoTo", "Break">>,
       <<"JumpObject", "JumpTitle", "CallObject", "CallTitle", "Resume">>,
       <<"PlayPL", "PlayPLatPlayItem", "PlayPLatMark", "TerminatePL", "LinkPI", "LinkMK">> >>
CompareOps == <<"Bc", "Eq", "Ne", "Ge", "Gt", "Le", "Lt">>
SetOps ==
    << <<"Move", "Swap", "Add", "Sub", "Mul", "Div", "Mod", "Rnd", "And", "Or", "Xor",
         "BitSet", "BitClear", "ShiftLeft", "ShiftRight">>,
       <<"SetStream", "SetNvTimer", "SetButtonPage", "EnableButton", "DisableButton",
         "SetSecondaryStream", "PopUpOff", "StillOn", "StillOff", "SetOutputMode",
         "SetStreamSS">> >>

Count(command) == command[1] \div 32
Group(command) == (command[1] \div 8) % 4
SubGroup(command) == command[1] % 8
Immediate(command, operand) == (command[2] \div (IF operand = 1 THEN 128 ELSE 64)) % 2 = 1

\* mutant: the op code of a comparison where that of Set is
LastByte(command) ==
    IF Group(command) = 0 THEN command[2] % 16 ELSE command[4]
\* The field that tells the operations of a group apart.
Selector(command) ==
    CASE Group(command) = 0 -> command[2] % 16
      [] Group(command) = 1 -> command[3]
      [] OTHER -> command[4]

\* decode_operation.  The branches count from 0, the others from 1.
Operation(command) ==
    LET sub == SubGroup(command) + 1
        table == CASE Group(command) = 0 /\ sub \in DOMAIN BranchOps -> BranchOps[sub]
                   [] Group(command) = 1 -> CompareOps
                   [] Group(command) = 2 /\ sub \in DOMAIN SetOps -> SetOps[sub]
                   [] OTHER -> <<>>
        at == Selector(command) + (IF Group(command) = 0 THEN 1 ELSE 0)
    IN  IF at \in DOMAIN table THEN table[at] ELSE "Unknown"

NoOperand == [kind |-> "none", high |-> 0, low |-> 0]
Operand(command, n) ==
    LET high == command[4 * n + 1]
        low == command[4 * n + 3]
    IN  IF Count(command) < n THEN NoOperand
        ELSE IF Immediate(command, n) THEN [kind |-> "imm", high |-> high, low |-> low]
        ELSE [kind |-> CASE high \div 16384 \in {0, 1} -> "gpr"
                         [] high \div 16384 = 2 -> "psr"
                         [] OTHER -> "psr2",
              high |-> 0, low |-> low % 4096]

Decoded(command) ==
    [op |-> Operation(command), selector |-> Selector(command),
     count |-> Count(command), group |-> Group(command), sub |-> SubGroup(command),
     a |-> Operand(command, 1), b |-> Operand(command, 2)]

-----------------------------------------------------------------------------
(* MovieObject.bdmv.                                                       *)

Mobj == 79
BodyAt == 40
CommandSize == 12

EncodedObject(o) ==
    <<128 * o.resume + 64 * o.menuMask + 32 * o.searchMask, 0>>
      \o Wide(Len(o.commands), 2) \o Flat(o.commands)

EncodedObjects(objects) ==
    LET body == Zeros(32) \o Wide(Len(objects), 2)
                  \o Flat([k \in DOMAIN objects |-> EncodedObject(objects[k])])
    IN  Wide(Mobj, 4) \o Zeros(36) \o Wide(Len(body), 4) \o body

MovieObjectAt(buf, pos) ==
    LET count == At(buf, pos + 2)
        command(k) == SubSeq(buf, pos + 5 + CommandSize * (k - 1), pos + 4 + CommandSize * k)
        flag(bit) == (At(buf, pos) \div bit) % 2
    IN  IF ~Fits(buf, pos, 4) THEN Refused
        ELSE IF ~Fits(buf, pos + 4, CommandSize * count) THEN Refused
        ELSE [pos |-> pos + 4 + CommandSize * count,
              got |-> [resume |-> flag(128), menuMask |-> flag(64), searchMask |-> flag(32),
                       commands |-> [k \in 1..count |-> command(k)]]]

\* The length of the body must fit in the file and bounds nothing else.
ParsedObjects(buf) ==
    LET body == BodyAt + 4 IN
      IF Len(buf) < body + 34 THEN Refused
      ELSE IF At(buf, 0) # Mobj \/ ~Fits(buf, body, At(buf, BodyAt)) THEN Refused
      ELSE LET read == Repeated(buf, At(buf, body + 32), 4, body + 34,
                                LAMBDA p, k : MovieObjectAt(buf, p))
           IN  IF read = Refused THEN Refused ELSE read.got

-----------------------------------------------------------------------------
(* index.bdmv.                                                             *)

Indx == 73
AppInfoSize == 34

EncodedEntry(e) ==
    <<IF e.kind = "hdmv" THEN 64 ELSE 128, 0>> \o Wide(16384 * e.playback, 2)
      \o (IF e.kind = "hdmv" THEN Wide(e.ref, 2) \o Zeros(6) ELSE Wide(e.ref, 5) \o Zeros(3))

EncodedIndex(index) ==
    LET app == <<8 * index.mode + 4 * index.exists, 16 * index.format + index.rate>> \o Zeros(32)
        body == EncodedEntry(index.first) \o EncodedEntry(index.menu)
                  \o Wide(Len(index.titles), 2)
                  \o Flat([k \in DOMAIN index.titles |-> EncodedEntry(index.titles[k])])
    IN  Wide(Indx, 4) \o Zeros(4) \o Wide(BodyAt + 4 + AppInfoSize, 4) \o Zeros(28)
          \o Wide(AppInfoSize, 4) \o app \o Wide(Len(body), 4) \o body

\* parse_object: a type of neither kind refuses the file.
EntryAt(buf, pos) ==
    LET type == (At(buf, pos) \div 64) % 4
        ref == At(buf, pos + 4)
    IN  IF ~Fits(buf, pos, 12) THEN Refused
        ELSE IF type \notin {1, 2} \/ (type = 2 /\ ref = NotText) THEN Refused
        ELSE [pos |-> pos + 12,
              got |-> [kind |-> IF type = 1 THEN "hdmv" ELSE "bdj", ref |-> ref,
                       playback |-> At(buf, pos + 2) \div 16384]]

AppInfoParses(buf) ==
    /\ Len(buf) >= BodyAt + 4 /\ At(buf, 0) = Indx
    /\ At(buf, BodyAt) >= 2 /\ Fits(buf, BodyAt + 4, At(buf, BodyAt))

ParsedIndex(buf) ==
    LET start == At(buf, 8)
        entries(n) == Repeated(buf, n, 12, start + 4, LAMBDA p, k : EntryAt(buf, p))
        count == At(buf, start + 28)
        titles == Repeated(buf, count, 12, start + 30, LAMBDA p, k : EntryAt(buf, p))
        bits(cell, unit, values) == (At(buf, BodyAt + 4 + cell) \div unit) % values
    IN  IF ~AppInfoParses(buf) THEN Refused
        ELSE IF ~Fits(buf, start, 4) THEN Refused
        ELSE IF ~Fits(buf, start + 4, At(buf, start)) \/ entries(2) = Refused THEN Refused
        ELSE IF ~Fits(buf, start + 28, 2) THEN Refused
        ELSE IF titles = Refused THEN Refused
        ELSE [mode |-> bits(0, 8, 2), exists |-> bits(0, 4, 2),
              format |-> bits(1, 16, 16), rate |-> bits(1, 1, 16),
              first |-> entries(2).got[1], menu |-> entries(2).got[2], titles |-> titles.got]
=============================================================================

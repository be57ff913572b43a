-------------------------------- MODULE Cells --------------------------------
(***************************************************************************)
(* Files as sequences of cells, and the reader of src/src/bdmv/common.rs.  *)
(*                                                                         *)
(* There is one cell per byte.  A field of n bytes has its value in its    *)
(* first cell and zeros in the others.  A parser is given a position, from *)
(* 0, and returns [pos, got] - where the reader stands after it, and what  *)
(* it read - or Refused.                                                   *)
(***************************************************************************)
EXTENDS Integers, Sequences
LOCAL INSTANCE SequencesExt

Refused == [refused |-> TRUE]
NotText == 255      \* a name that is not UTF-8

Fits(buf, pos, n) == pos + n <= Len(buf)
At(buf, pos) == buf[pos + 1]
Zeros(n) == [k \in 1..n |-> 0]
Wide(v, n) == <<v>> \o Zeros(n - 1)
Flat(seqs) == FoldLeft(LAMBDA a, b : a \o b, <<>>, seqs)

\* n parts one after the other, each of at least the given bytes and read by
\* the parser One.  When the file cannot hold so many, one of them is refused.
Repeated(buf, n, least, pos, One(_, _)) ==
    IF n > 0 /\ ~Fits(buf, pos, n * least) THEN Refused
    ELSE FoldLeftDomain(LAMBDA st, k :
                     IF st = Refused THEN Refused
                     ELSE LET part == One(st.pos, k) IN
                            IF part = Refused THEN Refused
                            ELSE [pos |-> part.pos, got |-> Append(st.got, part.got)],
                   [pos |-> pos, got |-> <<>>], [k \in 1..n |-> k])
=============================================================================

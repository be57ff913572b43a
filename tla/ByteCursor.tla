----------------------------- MODULE ByteCursor -----------------------------
(***************************************************************************)
(* What a TitleSource promises its reader: a cursor on a string of bytes   *)
(* that hands out the bytes at the cursor and nothing else, says "end"     *)
(* only at the end, and after a seek stands exactly at the byte it named.  *)
(* After an error the cursor promises nothing until a seek has anchored it *)
(* again.                                                                  *)
(***************************************************************************)
EXTENDS Integers

VARIABLES
    len,      \* length of the string
    pos,      \* the cursor
    goal,     \* where a seek under way will leave it; pos otherwise
    got,      \* the answer to the last read: first byte and count
    trusted   \* no error since the cursor was last anchored

cursor == <<len, pos, goal, got, trusted>>

Nothing == [at |-> -1, n |-> 0]

Init ==
    /\ len \in Nat
    /\ pos = 0 /\ goal = 0 /\ got = Nothing /\ trusted = TRUE

\* A call begins, or fails with the cursor unharmed: a seek is then given up.
Ask == got' = Nothing /\ goal' \in {pos, goal} /\ UNCHANGED <<len, pos, trusted>>

Deliver ==
    /\ trusted /\ pos = goal
    /\ got'.at = pos /\ got'.n > 0
    /\ pos' = pos + got'.n /\ pos' <= len /\ goal' = pos'
    /\ UNCHANGED <<len, trusted>>

End ==
    /\ trusted /\ pos = goal /\ pos = len
    /\ got' = [at |-> len, n |-> 0]
    /\ UNCHANGED <<len, pos, goal, trusted>>

\* A seek jumps to an anchor at or before its goal, perhaps on the string of
\* another angle, and moves on to the goal from there.
Anchor ==
    /\ pos = goal
    /\ len' \in Nat /\ pos' \in 0..goal' /\ goal' \in 0..len'
    /\ got' = Nothing /\ trusted' = TRUE

Approach ==
    /\ trusted /\ got' = Nothing
    /\ \/ pos = goal /\ pos' = pos /\ goal' \in pos..len
       \/ pos < goal /\ pos' \in pos..goal /\ goal' = goal
    /\ UNCHANGED <<len, trusted>>

\* An error, and everything after it until the next Anchor.
Broken == ~trusted'

Next == Ask \/ Deliver \/ End \/ Anchor \/ Approach \/ Broken

Spec == Init /\ [][Next]_cursor
=============================================================================

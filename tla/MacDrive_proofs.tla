--------------------------- MODULE MacDrive_proofs ---------------------------
(***************************************************************************)
(* What TLAPS proves of MacDrive, for every registry, every mounted name   *)
(* and every number of hops: the handles balance, and the drive found is   *)
(* the disc's.  The first inductive invariant, Owned, says who owns each   *)
(* handle the system has given out: a guard, a scope that is being left,   *)
(* the walk of the parents, or nobody for the one call between a plug-in   *)
(* and its interface.  The second, Sought, says how far the search has     *)
(* come without a fault.                                                   *)
(***************************************************************************)
EXTENDS MacDrive, SequenceTheorems, WellFoundedInduction, TLAPS

-----------------------------------------------------------------------------
(* The invariant.                                                          *)

\* Phases in which the service is not found or not yet looked at, and those of
\* the walk from it to the root of the registry.
Searching == {"mount", "load", "match", "next", "key", "search", "name", "uuid"}
Climbing == {"scsi", "mmc", "climb", "walked"}
Device == <<Plugin, Interface>>

\* The guards of each phase, oldest first.
GuardsByPhase ==
  /\ phase \in {"mount", "load", "match", "done"} => guards = <<>>
  /\ phase = "next" => guards = <<Iterator>>
  /\ phase = "key" => guards = <<Iterator, ServiceHandle>>
  /\ phase = "search" => guards = <<Iterator, ServiceHandle, Key>>
  /\ phase = "name" => guards = <<Iterator, ServiceHandle, Key, Value>>
  /\ phase = "uuid" =>
       guards \in {<<ServiceHandle>>, <<ServiceHandle, Uuids[1]>>,
                   <<ServiceHandle, Uuids[1], Uuids[2]>>}
  /\ phase \in Climbing \union {"queryScsi", "queryMmc"} =>
       guards = <<ServiceHandle, Uuids[1], Uuids[2], Uuids[3]>>
  /\ phase = "access" =>
       guards = <<ServiceHandle, Uuids[1], Uuids[2], Uuids[3], Plugin, Interface>>
  /\ phase = "structure" => guards = <<ServiceHandle, Plugin, Interface>>
  /\ phase = "task" => guards = <<ServiceHandle, Plugin, Interface, Access>>
  /\ phase \in {"descriptor", "buffers", "timeout", "execute"} =>
       guards = <<ServiceHandle, Plugin, Interface, Access, Task>>

\* The parents climbed to so far are held by the walk alone.
ParentsByPhase ==
  /\ hop \in Nat /\ at \in Nat
  /\ phase \in Searching => hop = 0
  /\ parents = IF phase \in Climbing THEN {<<"node", h>> : h \in 1..hop} ELSE {}

\* The plug-in has no guard until it has an interface.
Unguarded == IF phase \in {"queryScsi", "queryMmc"} THEN {Plugin} ELSE {}

Kept == ToSet(guards) \union parents \union Unguarded

Kinds == {"iterator", "service", "key", "value", "uuid", "plugin", "interface", "access",
          "task", "node"}
Handle == Kinds \X Nat

\* Handles are ranked in the order a scope makes them, so that one which stands
\* on another ranks above it.
Rank(h) ==
  CASE h[1] = "iterator" -> 1
    [] h[1] = "service" -> 2
    [] h[1] = "key" -> 3
    [] h[1] = "value" -> 4
    [] h[1] = "uuid" -> 4 + h[2]
    [] h[1] = "plugin" -> 8
    [] h[1] = "interface" -> 9
    [] h[1] = "access" -> 10
    [] h[1] = "task" -> 11
    [] h[1] = "node" -> 11 + h[2]

\* What is left to drop has no other owner, and goes from the highest rank down;
\* as long as anything is kept, nothing that could stand on it is dropped.
DropsInOrder ==
  /\ drops \in Seq(Handle)
  /\ \A i \in DOMAIN drops :
       /\ Rank(drops[i]) \in 1..11 /\ drops[i] \notin Kept
       /\ Kept # {} => Rank(drops[i]) < Rank(Plugin)
  /\ \A i, j \in DOMAIN drops : i < j => Rank(drops[i]) > Rank(drops[j])

Phases == Searching \union Climbing \union
            {"queryScsi", "queryMmc", "access", "structure", "task", "descriptor",
             "buffers", "timeout", "execute", "done"}

Owned ==
  /\ phase \in Phases /\ class \in {1, 2}
  /\ GuardsByPhase /\ ParentsByPhase
  /\ DropsInOrder
  /\ held = Kept \union ToSet(drops)
  /\ ~misused

-----------------------------------------------------------------------------
(* Sequences of handles.                                                   *)

LEMMA Listed ==
  /\ ToSet(<<>>) = {}
  /\ \A a : ToSet(<<a>>) = {a}
  /\ \A a, b : ToSet(<<a, b>>) = {a, b}
  /\ \A a, b, c : ToSet(<<a, b, c>>) = {a, b, c}
  /\ \A a, b, c, d : ToSet(<<a, b, c, d>>) = {a, b, c, d}
  /\ \A a, b, c, d, e : ToSet(<<a, b, c, d, e>>) = {a, b, c, d, e}
  /\ \A a, b, c, d, e, f : ToSet(<<a, b, c, d, e, f>>) = {a, b, c, d, e, f}
BY DEF ToSet

LEMMA Ranks ==
  /\ Rank(Iterator) = 1 /\ Rank(Key) = 3 /\ Rank(Value) = 4
  /\ Rank(Uuids[1]) = 5 /\ Rank(Uuids[2]) = 6 /\ Rank(Uuids[3]) = 7
  /\ Rank(Plugin) = 8 /\ Rank(Interface) = 9 /\ Rank(Access) = 10 /\ Rank(Task) = 11
  /\ \A n : Rank(<<"service", n>>) = 2
  /\ \A n : Rank(<<"node", n>>) = 11 + n
BY DEF Rank, Iterator, Key, Value, Uuids, Plugin, Interface, Access, Task

\* What stands on a handle ranks above it, and nothing below a plug-in carries
\* anything.
LEMMA BeforeRanks ==
  \A b \in Before : /\ Rank(b[1]) \in 9..11 /\ Rank(b[2]) \in 8..10
                    /\ Rank(b[1]) > Rank(b[2])
BY Ranks DEF Before

\* Guards that may be dropped the youngest first.
InOrder(s) ==
  /\ s \in Seq(Handle)
  /\ \A i \in 1..Len(s) : Rank(s[i]) \in 1..11
  /\ \A i, j \in 1..Len(s) : i < j => Rank(s[i]) < Rank(s[j])

LEMMA Handles ==
  ASSUME class \in {1, 2}, at \in Nat
  PROVE  /\ Iterator \in Handle /\ ServiceHandle \in Handle
         /\ Key \in Handle /\ Value \in Handle
         /\ Uuids[1] \in Handle /\ Uuids[2] \in Handle
         /\ Uuids[3] \in Handle /\ Plugin \in Handle
         /\ Interface \in Handle /\ Access \in Handle /\ Task \in Handle
         /\ Rank(ServiceHandle) = 2
<1>1. Iterator \in Handle /\ ServiceHandle \in Handle
  BY DEF Iterator, ServiceHandle, Handle, Kinds
<1>2. Uuids[1] \in Handle /\ Uuids[2] \in Handle /\ Uuids[3] \in Handle
  BY DEF Uuids, Handle, Kinds
<1>3. /\ Key \in Handle /\ Value \in Handle /\ Plugin \in Handle
      /\ Interface \in Handle /\ Access \in Handle /\ Task \in Handle
  BY DEF Key, Value, Plugin, Interface, Access, Task, Handle, Kinds
<1>4. Rank(ServiceHandle) = 2  BY Ranks DEF ServiceHandle
<1> QED  BY <1>1, <1>2, <1>3, <1>4

\* A younger handle goes to the end.
LEMMA InOrderAppend ==
  ASSUME NEW s, InOrder(s), NEW h \in Handle, Rank(h) \in 1..11,
         s = <<>> \/ Rank(s[Len(s)]) < Rank(h)
  PROVE  InOrder(Append(s, h))
<1> DEFINE t == Append(s, h)
<1>1. /\ t \in Seq(Handle) /\ Len(t) = Len(s) + 1 /\ Len(s) \in Nat
      /\ DOMAIN t = 1..Len(t) /\ DOMAIN s = 1..Len(s)
      /\ t[Len(t)] = h /\ \A i \in 1..Len(s) : t[i] = s[i]
  BY DEF InOrder
<1>2. \A i \in 1..Len(s) : Rank(s[i]) \in 1..11 /\ Rank(s[i]) < Rank(h)
  <2>1. CASE Len(s) = 0  BY <1>1, <2>1
  <2>2. CASE Len(s) > 0  
    <3>1. \A i \in 1..Len(s) : Rank(s[i]) \in 1..11  BY <1>1 DEF InOrder
    <3>2. Rank(s[Len(s)]) < Rank(h)  BY <1>1, <2>2
    <3>3. \A i \in 1..Len(s) : i < Len(s) => Rank(s[i]) < Rank(s[Len(s)])
      BY <1>1, <2>2 DEF InOrder
    <3> QED  BY <1>1, <2>2, <3>1, <3>2, <3>3
  <2> QED  BY <1>1, <2>1, <2>2
<1> HIDE DEF t
<1>3. \A i \in 1..Len(t) : Rank(t[i]) \in 1..11
  BY <1>1, <1>2
<1>4. ASSUME NEW i \in 1..Len(t), NEW j \in 1..Len(t), i < j  PROVE Rank(t[i]) < Rank(t[j])
  <2>1. CASE j = Len(t)  BY <1>1, <1>2, <1>4, <2>1
  <2>2. CASE j # Len(t)
    <3>1. i \in 1..Len(s) /\ j \in 1..Len(s)  BY <1>1, <1>4, <2>2
    <3> QED  BY <1>1, <1>4, <3>1 DEF InOrder
  <2> QED  BY <2>1, <2>2
<1>5. InOrder(t)  BY <1>1, <1>3, <1>4 DEF InOrder
<1> QED  BY <1>5 DEF t

\* A sequence appended to, by its elements.
LEMMA AppendAt ==
  ASSUME NEW u \in Seq(Handle), NEW x \in Handle, NEW t \in Seq(Handle), Len(t) = Len(u) + 1,
         \A i \in 1..Len(u) : t[i] = u[i], t[Len(t)] = x
  PROVE  Append(u, x) = t
<1> DEFINE s == Append(u, x)
<1>1. s \in Seq(Handle) /\ Len(s) = Len(u) + 1 /\ Len(u) \in Nat
      /\ (\A i \in 1..Len(u) : s[i] = u[i]) /\ s[Len(u) + 1] = x
  BY AppendProperties
<1> HIDE DEF s
<1>2. s = t  BY <1>1, SeqEqual
<1> QED  BY <1>2 DEF s

LEMMA Append1 == \A a, b \in Handle : Append(<<a>>, b) = <<a, b>>
<1> SUFFICES ASSUME NEW a \in Handle, NEW b \in Handle
             PROVE  Append(<<a>>, b) = <<a, b>>
  OBVIOUS
<1> DEFINE u == <<a>>  t == <<a, b>>
<1>1. u \in Seq(Handle) /\ Len(u) = 1
      /\ u[1] = a
  OBVIOUS
<1>2. t \in Seq(Handle) /\ Len(t) = 2
      /\ t[1] = a /\ t[2] = b
  OBVIOUS
<1> HIDE DEF u, t
<1>3. u \in Seq(Handle) /\ t \in Seq(Handle) /\ Len(t) = Len(u) + 1 /\ t[Len(t)] = b
      /\ \A i \in 1..Len(u) : t[i] = u[i]
  BY <1>1, <1>2
<1>4. Append(u, b) = t  BY <1>3, AppendAt, Zenon
<1> QED  BY <1>4 DEF t, u

LEMMA Append2 == \A a, b, c \in Handle : Append(<<a, b>>, c) = <<a, b, c>>
<1> SUFFICES ASSUME NEW a \in Handle, NEW b \in Handle, NEW c \in Handle
             PROVE  Append(<<a, b>>, c) = <<a, b, c>>
  OBVIOUS
<1> DEFINE u == <<a, b>>  t == <<a, b, c>>
<1>1. u \in Seq(Handle) /\ Len(u) = 2
      /\ u[1] = a /\ u[2] = b
  OBVIOUS
<1>2. t \in Seq(Handle) /\ Len(t) = 3
      /\ t[1] = a /\ t[2] = b /\ t[3] = c
  OBVIOUS
<1> HIDE DEF u, t
<1>3. u \in Seq(Handle) /\ t \in Seq(Handle) /\ Len(t) = Len(u) + 1 /\ t[Len(t)] = c
      /\ \A i \in 1..Len(u) : t[i] = u[i]
  BY <1>1, <1>2
<1>4. Append(u, c) = t  BY <1>3, AppendAt, Zenon
<1> QED  BY <1>4 DEF t, u

LEMMA Append3 == \A a, b, c, d \in Handle : Append(<<a, b, c>>, d) = <<a, b, c, d>>
<1> SUFFICES ASSUME NEW a \in Handle, NEW b \in Handle, NEW c \in Handle, NEW d \in Handle
             PROVE  Append(<<a, b, c>>, d) = <<a, b, c, d>>
  OBVIOUS
<1> DEFINE u == <<a, b, c>>  t == <<a, b, c, d>>
<1>1. u \in Seq(Handle) /\ Len(u) = 3
      /\ u[1] = a /\ u[2] = b /\ u[3] = c
  OBVIOUS
<1>2. t \in Seq(Handle) /\ Len(t) = 4
      /\ t[1] = a /\ t[2] = b /\ t[3] = c /\ t[4] = d
  OBVIOUS
<1> HIDE DEF u, t
<1>3. u \in Seq(Handle) /\ t \in Seq(Handle) /\ Len(t) = Len(u) + 1 /\ t[Len(t)] = d
      /\ \A i \in 1..Len(u) : t[i] = u[i]
  BY <1>1, <1>2
<1>4. Append(u, d) = t  BY <1>3, AppendAt, Zenon
<1> QED  BY <1>4 DEF t, u

LEMMA Append4 == \A a, b, c, d, e \in Handle : Append(<<a, b, c, d>>, e) = <<a, b, c, d, e>>
<1> SUFFICES ASSUME NEW a \in Handle, NEW b \in Handle, NEW c \in Handle, NEW d \in Handle, NEW e \in Handle
             PROVE  Append(<<a, b, c, d>>, e) = <<a, b, c, d, e>>
  OBVIOUS
<1> DEFINE u == <<a, b, c, d>>  t == <<a, b, c, d, e>>
<1>1. u \in Seq(Handle) /\ Len(u) = 4
      /\ u[1] = a /\ u[2] = b /\ u[3] = c /\ u[4] = d
  OBVIOUS
<1>2. t \in Seq(Handle) /\ Len(t) = 5
      /\ t[1] = a /\ t[2] = b /\ t[3] = c /\ t[4] = d /\ t[5] = e
  OBVIOUS
<1> HIDE DEF u, t
<1>3. u \in Seq(Handle) /\ t \in Seq(Handle) /\ Len(t) = Len(u) + 1 /\ t[Len(t)] = e
      /\ \A i \in 1..Len(u) : t[i] = u[i]
  BY <1>1, <1>2
<1>4. Append(u, e) = t  BY <1>3, AppendAt, Zenon
<1> QED  BY <1>4 DEF t, u

LEMMA Append5 == \A a, b, c, d, e, f \in Handle : Append(<<a, b, c, d, e>>, f) = <<a, b, c, d, e, f>>
<1> SUFFICES ASSUME NEW a \in Handle, NEW b \in Handle, NEW c \in Handle, NEW d \in Handle, NEW e \in Handle, NEW f \in Handle
             PROVE  Append(<<a, b, c, d, e>>, f) = <<a, b, c, d, e, f>>
  OBVIOUS
<1> DEFINE u == <<a, b, c, d, e>>  t == <<a, b, c, d, e, f>>
<1>1. u \in Seq(Handle) /\ Len(u) = 5
      /\ u[1] = a /\ u[2] = b /\ u[3] = c /\ u[4] = d /\ u[5] = e
  OBVIOUS
<1>2. t \in Seq(Handle) /\ Len(t) = 6
      /\ t[1] = a /\ t[2] = b /\ t[3] = c /\ t[4] = d /\ t[5] = e /\ t[6] = f
  OBVIOUS
<1> HIDE DEF u, t
<1>3. u \in Seq(Handle) /\ t \in Seq(Handle) /\ Len(t) = Len(u) + 1 /\ t[Len(t)] = f
      /\ \A i \in 1..Len(u) : t[i] = u[i]
  BY <1>1, <1>2
<1>4. Append(u, f) = t  BY <1>3, AppendAt, Zenon
<1> QED  BY <1>4 DEF t, u

\* Handles named in the order of their ranks are in order.
LEMMA InOrder2 ==
  \A a, b \in Handle :
    InOrder(<<a>>) /\ Rank(a) < Rank(b) /\ Rank(b) \in 1..11 => InOrder(<<a, b>>)
<1> SUFFICES ASSUME NEW a \in Handle, NEW b \in Handle, InOrder(<<a>>),
                    Rank(a) < Rank(b), Rank(b) \in 1..11
             PROVE  InOrder(<<a, b>>)
  OBVIOUS
<1>1. <<a>>[Len(<<a>>)] = a  OBVIOUS
<1>2. Append(<<a>>, b) = <<a, b>>  BY Append1, SMT
<1>3. InOrder(Append(<<a>>, b))  BY <1>1, InOrderAppend, Zenon
<1> QED  BY <1>2, <1>3, Zenon

LEMMA InOrder3 ==
  \A a, b, c \in Handle :
    InOrder(<<a, b>>) /\ Rank(b) < Rank(c) /\ Rank(c) \in 1..11 => InOrder(<<a, b, c>>)
<1> SUFFICES ASSUME NEW a \in Handle, NEW b \in Handle, NEW c \in Handle, InOrder(<<a, b>>),
                    Rank(b) < Rank(c), Rank(c) \in 1..11
             PROVE  InOrder(<<a, b, c>>)
  OBVIOUS
<1>1. <<a, b>>[Len(<<a, b>>)] = b  OBVIOUS
<1>2. Append(<<a, b>>, c) = <<a, b, c>>  BY Append2, SMT
<1>3. InOrder(Append(<<a, b>>, c))  BY <1>1, InOrderAppend, Zenon
<1> QED  BY <1>2, <1>3, Zenon

LEMMA InOrder4 ==
  \A a, b, c, d \in Handle :
    InOrder(<<a, b, c>>) /\ Rank(c) < Rank(d) /\ Rank(d) \in 1..11 => InOrder(<<a, b, c, d>>)
<1> SUFFICES ASSUME NEW a \in Handle, NEW b \in Handle, NEW c \in Handle, NEW d \in Handle, InOrder(<<a, b, c>>),
                    Rank(c) < Rank(d), Rank(d) \in 1..11
             PROVE  InOrder(<<a, b, c, d>>)
  OBVIOUS
<1>1. <<a, b, c>>[Len(<<a, b, c>>)] = c  OBVIOUS
<1>2. Append(<<a, b, c>>, d) = <<a, b, c, d>>  BY Append3, SMT
<1>3. InOrder(Append(<<a, b, c>>, d))  BY <1>1, InOrderAppend, Zenon
<1> QED  BY <1>2, <1>3, Zenon

LEMMA InOrder5 ==
  \A a, b, c, d, e \in Handle :
    InOrder(<<a, b, c, d>>) /\ Rank(d) < Rank(e) /\ Rank(e) \in 1..11 => InOrder(<<a, b, c, d, e>>)
<1> SUFFICES ASSUME NEW a \in Handle, NEW b \in Handle, NEW c \in Handle, NEW d \in Handle, NEW e \in Handle, InOrder(<<a, b, c, d>>),
                    Rank(d) < Rank(e), Rank(e) \in 1..11
             PROVE  InOrder(<<a, b, c, d, e>>)
  OBVIOUS
<1>1. <<a, b, c, d>>[Len(<<a, b, c, d>>)] = d  OBVIOUS
<1>2. Append(<<a, b, c, d>>, e) = <<a, b, c, d, e>>  BY Append4, SMT
<1>3. InOrder(Append(<<a, b, c, d>>, e))  BY <1>1, InOrderAppend, Zenon
<1> QED  BY <1>2, <1>3, Zenon

LEMMA InOrder6 ==
  \A a, b, c, d, e, f \in Handle :
    InOrder(<<a, b, c, d, e>>) /\ Rank(e) < Rank(f) /\ Rank(f) \in 1..11 => InOrder(<<a, b, c, d, e, f>>)
<1> SUFFICES ASSUME NEW a \in Handle, NEW b \in Handle, NEW c \in Handle, NEW d \in Handle, NEW e \in Handle, NEW f \in Handle, InOrder(<<a, b, c, d, e>>),
                    Rank(e) < Rank(f), Rank(f) \in 1..11
             PROVE  InOrder(<<a, b, c, d, e, f>>)
  OBVIOUS
<1>1. <<a, b, c, d, e>>[Len(<<a, b, c, d, e>>)] = e  OBVIOUS
<1>2. Append(<<a, b, c, d, e>>, f) = <<a, b, c, d, e, f>>  BY Append5, SMT
<1>3. InOrder(Append(<<a, b, c, d, e>>, f))  BY <1>1, InOrderAppend, Zenon
<1> QED  BY <1>2, <1>3, Zenon

\* In every phase the guards stand in the order their scopes made them.
LEMMA GuardsInOrder == Owned => InOrder(guards) /\ InOrder(Uuids)
<1> SUFFICES ASSUME Owned  PROVE InOrder(guards) /\ InOrder(Uuids)
  OBVIOUS
<1>1. class \in {1, 2} /\ at \in Nat /\ phase \in Phases /\ GuardsByPhase
  BY DEF Owned, ParentsByPhase
<1>2. InOrder(<<>>)  BY DEF InOrder
<1>3. InOrder(<<Iterator>>) /\ InOrder(<<ServiceHandle>>) /\ InOrder(<<Uuids[1]>>)
  BY <1>1, Handles, Ranks DEF InOrder
<1>4. /\ InOrder(<<Iterator, ServiceHandle>>) /\ InOrder(<<Uuids[1], Uuids[2]>>)
      /\ InOrder(<<ServiceHandle, Uuids[1]>>) /\ InOrder(<<ServiceHandle, Plugin>>)
  BY <1>1, <1>3, InOrder2, Handles, Ranks
<1>5. /\ InOrder(<<Iterator, ServiceHandle, Key>>)
      /\ InOrder(<<Uuids[1], Uuids[2], Uuids[3]>>)
      /\ InOrder(<<ServiceHandle, Uuids[1], Uuids[2]>>)
      /\ InOrder(<<ServiceHandle, Plugin, Interface>>)
  BY <1>1, <1>4, InOrder3, Handles, Ranks
<1>6. /\ InOrder(<<Iterator, ServiceHandle, Key, Value>>)
      /\ InOrder(<<ServiceHandle, Uuids[1], Uuids[2], Uuids[3]>>)
      /\ InOrder(<<ServiceHandle, Plugin, Interface, Access>>)
  BY <1>1, <1>5, InOrder4, Handles, Ranks
<1>7. /\ InOrder(<<ServiceHandle, Uuids[1], Uuids[2], Uuids[3], Plugin>>)
      /\ InOrder(<<ServiceHandle, Plugin, Interface, Access, Task>>)
  BY <1>1, <1>6, InOrder5, Handles, Ranks
<1>8. InOrder(<<ServiceHandle, Uuids[1], Uuids[2], Uuids[3], Plugin, Interface>>)
  BY <1>1, <1>7, InOrder6, Handles, Ranks, SMTT(60)
<1>9. InOrder(Uuids)
  <2>1. <<Uuids[1], Uuids[2], Uuids[3]>> = Uuids  BY DEF Uuids
  <2> QED  BY <2>1, <1>5
<1> QED
  BY <1>1, <1>2, <1>3, <1>4, <1>5, <1>6, <1>7, <1>8, <1>9
  DEF GuardsByPhase, Phases, Searching, Climbing

-----------------------------------------------------------------------------
(* What every call and every scope left behind has in common.              *)

\* Between calls the system holds exactly what has an owner, and the owners of
\* each phase are known by name.
LEMMA KeptByPhase ==
  ASSUME Owned, drops = <<>>
  PROVE  /\ held = Kept /\ class \in {1, 2} /\ at \in Nat /\ hop \in Nat
         /\ phase \in {"mount", "load", "match", "done"} => Kept = {}
         /\ phase = "next" => Kept = {Iterator}
         /\ phase = "key" => Kept = {Iterator, ServiceHandle}
         /\ phase = "search" => Kept = {Iterator, ServiceHandle, Key}
         /\ phase = "name" => Kept = {Iterator, ServiceHandle, Key, Value}
         /\ phase = "uuid" => Kept = ToSet(guards)
         /\ phase \in Climbing => Kept = ToSet(guards) \union parents
         /\ phase \in {"queryScsi", "queryMmc"} => Kept = ToSet(guards) \union {Plugin}
         /\ phase = "access" =>
              Kept = {ServiceHandle, Uuids[1], Uuids[2], Uuids[3], Plugin, Interface}
         /\ phase = "structure" => Kept = {ServiceHandle, Plugin, Interface}
         /\ phase = "task" => Kept = {ServiceHandle, Plugin, Interface, Access}
         /\ phase \in {"descriptor", "buffers", "timeout", "execute"} =>
              Kept = {ServiceHandle, Plugin, Interface, Access, Task}
<1>1. /\ held = Kept /\ class \in {1, 2} /\ at \in Nat /\ hop \in Nat
  BY Listed DEF Owned, ParentsByPhase
<1>2. phase \notin Climbing => parents = {}
  BY DEF Owned, ParentsByPhase
<1>3. phase \notin {"queryScsi", "queryMmc"} => Unguarded = {}
  BY DEF Unguarded
<1>4. GuardsByPhase  BY DEF Owned
<1> QED
  BY <1>1, <1>2, <1>3, <1>4, Listed DEF GuardsByPhase, Kept, Unguarded, Climbing

\* A call that uses and takes back what is held, and yields what is not.
LEMMA CallStep ==
  ASSUME Owned, drops = <<>>, NEW uses, NEW gets, NEW gives, Call(uses, gets, gives),
         uses \subseteq Kept, gives \subseteq Kept, gets \intersect Kept = {}
  PROVE  held' = (Kept \ gives) \union gets /\ ~misused'
BY KeptByPhase DEF Call, Owned

\* A call that yields nothing and takes nothing back.
LEMMA CallUses ==
  ASSUME Owned, drops = <<>>, NEW uses, Call(uses, {}, {}), uses \subseteq Kept
  PROVE  held' = Kept /\ ~misused'
BY KeptByPhase DEF Call, Owned

\* A call that yields a handle not yet held.
LEMMA CallGets ==
  ASSUME Owned, drops = <<>>, NEW uses, NEW h, Call(uses, {h}, {}), uses \subseteq Kept, h \notin Kept
  PROVE  held' = Kept \union {h} /\ ~misused'
BY KeptByPhase DEF Call, Owned

\* What a step to the next call has to show.
LEMMA GoStep ==
  ASSUME Owned, drops' = <<>>, phase' \in Phases, class' \in {1, 2}, GuardsByPhase',
         ParentsByPhase', held' = Kept', ~misused'
  PROVE  Owned'
<1>1. DropsInOrder'  BY DEF DropsInOrder
<1>2. ToSet(drops') = {}  BY Listed
<1> QED  BY <1>1, <1>2 DEF Owned

\* The search stays where it is.
LEMMA SearchKept ==
  ASSUME Owned, UNCHANGED search, phase \notin Climbing, phase' \notin Climbing,
         phase' \in Searching => phase \in Searching
  PROVE  ParentsByPhase' /\ class' \in {1, 2} /\ parents' = {} /\ parents = {}
BY DEF Owned, ParentsByPhase, search

LEMMA Reversed ==
  ASSUME NEW s, InOrder(s)
  PROVE  /\ Reverse(s) \in Seq(Handle) /\ ToSet(Reverse(s)) = ToSet(s)
         /\ \A i \in DOMAIN Reverse(s) : Rank(Reverse(s)[i]) \in 1..11 /\ Reverse(s)[i] \in ToSet(s)
         /\ \A i, j \in DOMAIN Reverse(s) : i < j => Rank(Reverse(s)[i]) > Rank(Reverse(s)[j])
<1> DEFINE r == Reverse(s)
<1>1. /\ s \in Seq(Handle) /\ DOMAIN s = 1..Len(s) /\ Len(s) \in Nat
      /\ DOMAIN r = 1..Len(s) /\ \A i \in 1..Len(s) : r[i] = s[Len(s) - i + 1]
  BY DEF Reverse, InOrder
<1>2. r \in Seq(Handle)
  <2>1. r = [i \in 1..Len(s) |-> s[Len(s) - i + 1]]  BY DEF Reverse
  <2>2. \A i \in 1..Len(s) : s[Len(s) - i + 1] \in Handle  BY <1>1
  <2> QED  BY <1>1, <2>1, <2>2, IsASeq
<1> HIDE DEF r
<1>3. \A i \in 1..Len(s) : Len(s) - i + 1 \in 1..Len(s)  BY <1>1
<1>4. ToSet(r) = ToSet(s)
  <2>1. \A i \in 1..Len(s) : r[Len(s) - i + 1] = s[i]  BY <1>1, <1>3
  <2> QED  BY <1>1, <1>3, <2>1 DEF ToSet
<1>5. \A i \in DOMAIN r : Rank(r[i]) \in 1..11 /\ r[i] \in ToSet(s)
  BY <1>1, <1>3 DEF InOrder, ToSet
<1>6. \A i, j \in DOMAIN r : i < j => Rank(r[i]) > Rank(r[j])
  <2> SUFFICES ASSUME NEW i \in 1..Len(s), NEW j \in 1..Len(s), i < j
               PROVE  Rank(r[i]) > Rank(r[j])
    BY <1>1
  <2>1. Len(s) - j + 1 < Len(s) - i + 1  BY <1>1
  <2>2. Rank(s[Len(s) - j + 1]) < Rank(s[Len(s) - i + 1])
    BY <1>3, <2>1 DEF InOrder
  <2>3. Rank(s[Len(s) - j + 1]) \in 1..11 /\ Rank(s[Len(s) - i + 1]) \in 1..11
    BY <1>3 DEF InOrder
  <2> QED  BY <1>1, <2>2, <2>3
<1> QED  BY <1>2, <1>4, <1>5, <1>6 DEF r

\* A scope left with an error, or with the answer, gives back all it has, once.
LEMMA ReturnStep ==
  ASSUME Owned, NEW r, Return(r), held' = ToSet(guards), ~misused',
         class' \in {1, 2}, at' \in Nat, hop' \in Nat, parents' = {}
  PROVE  Owned'
<1>1. phase' = "done" /\ drops' = Reverse(guards) /\ guards' = <<>>  BY DEF Return
<1>2. GuardsByPhase' /\ ParentsByPhase' /\ phase' \in Phases
  BY <1>1 DEF GuardsByPhase, ParentsByPhase, Phases, Searching, Climbing
<1>3. Kept' = {}
  BY <1>1, Listed DEF Kept, Unguarded
<1>4. DropsInOrder' /\ ToSet(drops') = ToSet(guards)
  BY <1>1, <1>3, GuardsInOrder, Reversed DEF DropsInOrder
<1> QED  BY <1>2, <1>3, <1>4 DEF Owned

-----------------------------------------------------------------------------
(* One lemma per action, or per group of actions of one shape.             *)

\* The drops of a scope go in order, each of a handle the system still holds.
LEMMA DropGuardStep == Owned /\ DropGuard => Owned'
<1> SUFFICES ASSUME Owned, DropGuard  PROVE Owned'
  OBVIOUS
<1> DEFINE h == Head(drops)
<1>1. /\ drops # <<>> /\ drops' = Tail(drops) /\ held' = held \ {h}
      /\ UNCHANGED <<phase, class, at, hop, parents, guards>>
  BY DEF DropGuard, search
<1>2. /\ drops \in Seq(Handle) /\ Len(drops) \in Nat \ {0} /\ h = drops[1]
      /\ DOMAIN drops = 1..Len(drops)
      /\ drops' \in Seq(Handle) /\ DOMAIN drops' = 1..(Len(drops) - 1)
      /\ \A i \in DOMAIN drops' : drops'[i] = drops[i + 1]
  BY <1>1, HeadTailProperties DEF Owned, DropsInOrder
<1>3. \A i \in 1..Len(drops) : i > 1 => Rank(h) > Rank(drops[i])
  BY <1>2 DEF Owned, DropsInOrder
<1>4. Kept' = Kept /\ GuardsByPhase' /\ ParentsByPhase'
  <2>1. /\ phase' = phase /\ class' = class /\ at' = at /\ hop' = hop
        /\ parents' = parents /\ guards' = guards
    BY <1>1
  <2> QED
    BY <2>1 DEF Owned, Kept, Unguarded, GuardsByPhase, ParentsByPhase, Iterator, ServiceHandle,
                Key, Value, Plugin, Interface, Access, Task, Uuids
<1>5. \A i \in 1..Len(drops) : Rank(drops[i]) \in 1..11 /\ drops[i] \notin Kept
                               /\ (Kept # {} => Rank(drops[i]) < Rank(Plugin))
  BY <1>2 DEF Owned, DropsInOrder
<1>6. DropsInOrder'
  <2>1. \A i \in DOMAIN drops' : i + 1 \in 1..Len(drops)  BY <1>2
  <2>2. Rank(Plugin)' = Rank(Plugin)  BY DEF Plugin
  <2>3. \A i, j \in DOMAIN drops' : i < j => Rank(drops'[i]) > Rank(drops'[j])
    <3> SUFFICES ASSUME NEW i \in DOMAIN drops', NEW j \in DOMAIN drops', i < j
                 PROVE  Rank(drops[i + 1]) > Rank(drops[j + 1])
      BY <1>2
    <3>1. i + 1 < j + 1  BY <1>2
    <3> QED  BY <1>2, <2>1, <3>1 DEF Owned, DropsInOrder
  <2>4. \A i \in DOMAIN drops' : /\ Rank(drops'[i]) \in 1..11 /\ drops'[i] \notin Kept'
                                 /\ Kept' # {} => Rank(drops'[i]) < Rank(Plugin)
    BY <1>2, <1>4, <1>5, <2>1
  <2> QED  BY <1>2, <2>2, <2>3, <2>4 DEF DropsInOrder
<1>7. held' = Kept' \union ToSet(drops')
  <2>1. held = Kept \union ToSet(drops)  BY DEF Owned
  <2>2. h \notin Kept  BY <1>2, <1>5
  <2>3. ToSet(drops) \ {h} = ToSet(drops')
    <3>1. \A i \in 1..Len(drops) : i > 1 => drops[i] # h /\ i - 1 \in DOMAIN drops' /\ drops'[i - 1] = drops[i]
      <4>1. \A i \in 1..Len(drops) : Rank(drops[i]) \in 1..11  BY <1>5
      <4>2. \A i \in 1..Len(drops) : i > 1 => drops[i] # h  BY <1>2, <1>3, <4>1
      <4> QED  BY <1>2, <4>2
    <3>2. \A i \in DOMAIN drops' : i + 1 \in 1..Len(drops) /\ i + 1 > 1  BY <1>2
    <3>3. ToSet(drops) = {drops[i] : i \in 1..Len(drops)}
          /\ ToSet(drops') = {drops'[i] : i \in DOMAIN drops'}
      BY <1>2 DEF ToSet
    <3>4. ASSUME NEW x \in ToSet(drops) \ {h}  PROVE x \in ToSet(drops')
      <4>1. PICK i \in 1..Len(drops) : x = drops[i]  BY <3>3
      <4>2. i > 1  BY <1>2, <4>1
      <4> QED  BY <3>1, <3>3, <4>1, <4>2
    <3>5. ASSUME NEW x \in ToSet(drops')  PROVE x \in ToSet(drops) \ {h}
      <4>1. PICK i \in DOMAIN drops' : x = drops'[i]  BY <3>3
      <4>2. x = drops[i + 1] /\ i + 1 \in 1..Len(drops) /\ i + 1 > 1  BY <1>2, <3>2, <4>1
      <4> QED  BY <3>1, <3>3, <4>2
    <3> QED  BY <3>4, <3>5
  <2> QED  BY <1>1, <1>4, <2>1, <2>2, <2>3
<1>8. ~misused'
  <2>1. h \in held /\ ~misused  BY <1>2 DEF Owned, ToSet
  <2>2. ASSUME NEW b \in Before, b[2] = h, b[1] \in held  PROVE FALSE
    <3>1. Rank(b[1]) \in 9..11 /\ Rank(h) \in 8..10 /\ Rank(b[1]) > Rank(h)
      BY <2>2, BeforeRanks
    <3>2. Rank(Plugin) = 8  BY Ranks
    <3>3. CASE b[1] \in Kept  BY <1>2, <1>5, <3>1, <3>2, <3>3
    <3>4. CASE b[1] \in ToSet(drops)
      <4>1. PICK i \in 1..Len(drops) : b[1] = drops[i]  BY <1>2, <3>4 DEF ToSet
      <4>2. i = 1 \/ Rank(h) > Rank(drops[i])  BY <1>3
      <4> QED  BY <1>2, <1>5, <3>1, <4>1, <4>2
    <3> QED  BY <2>2, <3>3, <3>4 DEF Owned
  <2> QED  BY <2>1, <2>2 DEF DropGuard
<1> QED  BY <1>1, <1>4, <1>6, <1>7, <1>8 DEF Owned

\* Calls that only go on or fail.
LEMMA SucceedStep ==
  ASSUME Owned, drops = <<>>, NEW uses, uses \subseteq Kept, NEW next, Succeed(uses, next),
         phase' = "done" \/ GuardsByPhase', next \in Phases \ {"done"},
         phase \notin Climbing \union {"queryScsi", "queryMmc"},
         next \notin Climbing \union {"queryScsi", "queryMmc"},
         next \in Searching => phase \in Searching
  PROVE  Owned'
<1>1. held' = Kept /\ ~misused'
  <2>1. Call(uses, {}, {})  BY DEF Succeed
  <2> QED  BY <2>1, CallUses
<1>2. Kept = ToSet(guards)  BY DEF Kept, Unguarded, Owned, ParentsByPhase
<1>3. CASE Go(guards, next)
  <2>1. phase' = next /\ drops' = <<>> /\ guards' = guards /\ UNCHANGED search
    BY <1>3 DEF Succeed, Go, Leave
  <2>2. ParentsByPhase' /\ class' \in {1, 2} /\ parents' = {}
    BY <2>1, SearchKept DEF Climbing
  <2>3. GuardsByPhase'  BY <2>1
  <2>4. held' = Kept'  BY <1>1, <1>2, <2>1, <2>2 DEF Kept, Unguarded
  <2> QED  BY <1>1, <2>1, <2>2, <2>3, <2>4, GoStep
<1>4. CASE Return(Error("call"))
  <2>1. /\ class' \in {1, 2} /\ parents' = {} /\ at' \in Nat /\ hop' \in Nat
    BY <1>4 DEF Succeed, search, Owned, ParentsByPhase
  <2> QED  BY <1>1, <1>2, <1>4, <2>1, ReturnStep
<1> QED  BY <1>3, <1>4 DEF Succeed

\* Calls that yield a guarded handle, or fail.
LEMMA ObtainStep ==
  ASSUME Owned, drops = <<>>, NEW uses, uses \subseteq Kept, NEW handle, handle \notin Kept,
         NEW next, Obtain(uses, handle, next),
         guards' = Append(guards, handle) /\ phase' = next /\ UNCHANGED search => GuardsByPhase',
         phase \notin Climbing \union {"queryScsi", "queryMmc"},
         next \in Phases \ (Climbing \union {"queryScsi", "queryMmc"}) \/ next = "scsi",
         next \in Searching \union {"scsi"} => phase \in Searching,
         ToSet(Append(guards, handle)) = ToSet(guards) \union {handle}
  PROVE  Owned'
<1>1. Kept = ToSet(guards)  BY DEF Kept, Unguarded, Owned, ParentsByPhase
<1>2. UNCHANGED search  BY DEF Obtain
<1>3. CASE Call(uses, {handle}, {}) /\ Go(Append(guards, handle), next)
  <2>1. held' = Kept \union {handle} /\ ~misused'  BY <1>3, CallGets
  <2>2. phase' = next /\ drops' = <<>> /\ guards' = Append(guards, handle)
    BY <1>3 DEF Go, Leave
  <2>3. ParentsByPhase' /\ class' \in {1, 2} /\ parents' = {}
    <3>1. CASE next = "scsi"
      BY <1>2, <2>2, <3>1 DEF Owned, ParentsByPhase, search, Searching, Climbing
    <3>2. CASE next # "scsi"
      BY <1>2, <2>2, <3>2, SearchKept
    <3> QED  BY <3>1, <3>2
  <2>4. GuardsByPhase'  BY <1>2, <2>2
  <2>5. held' = Kept'  BY <1>1, <2>1, <2>2, <2>3 DEF Kept, Unguarded
  <2>6. next \in Phases  BY DEF Phases, Climbing
  <2> QED  BY <2>1, <2>2, <2>3, <2>4, <2>5, <2>6, GoStep
<1>4. CASE Call(uses, {}, {}) /\ Return(Error("call"))
  <2>1. held' = Kept /\ ~misused'  BY <1>4, CallUses
  <2>2. class' \in {1, 2} /\ parents' = {} /\ at' \in Nat /\ hop' \in Nat
    BY <1>2 DEF search, Owned, ParentsByPhase
  <2> QED  BY <1>1, <1>4, <2>1, <2>2, ReturnStep
<1> QED  BY <1>3, <1>4 DEF Obtain

\* What may be dropped while something is kept.
Descending(s) ==
  /\ s \in Seq(Handle)
  /\ \A i \in DOMAIN s : Rank(s[i]) \in 1..7
  /\ \A i, j \in DOMAIN s : i < j => Rank(s[i]) > Rank(s[j])

LEMMA DescendingLists ==
  /\ Descending(<<>>)
  /\ \A a \in Handle : Rank(a) \in 1..7 => Descending(<<a>>)
  /\ \A a, b \in Handle :
       Rank(a) \in 1..7 /\ Rank(b) \in 1..7 /\ Rank(a) > Rank(b) => Descending(<<a, b>>)
  /\ \A a, b, c \in Handle :
       Rank(a) \in 1..7 /\ Rank(b) \in 1..7 /\ Rank(c) \in 1..7
         /\ Rank(a) > Rank(b) /\ Rank(b) > Rank(c) => Descending(<<a, b, c>>)
<1>1. Descending(<<>>)  BY DEF Descending
<1>2. \A a \in Handle : Rank(a) \in 1..7 => Descending(<<a>>)  BY DEF Descending
<1>3. \A a, b \in Handle :
        Rank(a) \in 1..7 /\ Rank(b) \in 1..7 /\ Rank(a) > Rank(b) => Descending(<<a, b>>)
  BY DEF Descending
<1>4. \A a, b, c \in Handle :
        Rank(a) \in 1..7 /\ Rank(b) \in 1..7 /\ Rank(c) \in 1..7
          /\ Rank(a) > Rank(b) /\ Rank(b) > Rank(c) => Descending(<<a, b, c>>)
  BY DEF Descending
<1> QED  BY <1>1, <1>2, <1>3, <1>4

\* A scope left in the middle of the search.
LEMMA LeaveStep ==
  ASSUME Owned, phase' \in Phases, class' \in {1, 2}, GuardsByPhase', ParentsByPhase',
         Descending(drops'), Kept' \intersect ToSet(drops') = {},
         held' = Kept' \union ToSet(drops'), ~misused'
  PROVE  Owned'
<1>1. Rank(Plugin') = 8  BY Ranks DEF Plugin
<1>2. drops' \in Seq(Handle) /\ DOMAIN drops' = 1..Len(drops') /\ Len(drops') \in Nat
  BY DEF Descending
<1>3. \A i \in DOMAIN drops' : drops'[i] \in ToSet(drops')  BY <1>2 DEF ToSet
<1>4. DropsInOrder'
  BY <1>1, <1>2, <1>3 DEF DropsInOrder, Descending
<1> QED  BY <1>4 DEF Owned

LEMMA NameMountStep == Owned /\ NameMount => Owned'
<1> SUFFICES ASSUME Owned, NameMount  PROVE Owned'
  OBVIOUS
<1>1. phase = "mount" /\ drops = <<>>  BY DEF NameMount, At
<1>2. Kept = {} /\ guards = <<>> /\ ToSet(guards) = {}
  BY <1>1, KeptByPhase, Listed DEF Owned, GuardsByPhase
<1>3. CASE Call({}, {}, {}) /\ Return(Error("name")) /\ UNCHANGED search
  <2>1. held' = Kept /\ ~misused'  BY <1>1, <1>3, CallUses
  <2>2. class' \in {1, 2} /\ parents' = {} /\ at' \in Nat /\ hop' \in Nat
    BY <1>1, <1>3 DEF search, Owned, ParentsByPhase, Climbing
  <2> QED  BY <1>2, <1>3, <2>1, <2>2, ReturnStep
<1>4. CASE Succeed({}, "load")
  <2>1. phase' = "done" \/ GuardsByPhase'
    BY <1>2, <1>4 DEF Succeed, Go, Return, Leave, GuardsByPhase, Climbing
  <2> QED
    BY <1>1, <1>2, <1>4, <2>1, SucceedStep DEF Phases, Searching, Climbing
<1> QED  BY <1>3, <1>4 DEF NameMount

LEMMA LoadFrameworksStep == Owned /\ LoadFrameworks => Owned'
<1> SUFFICES ASSUME Owned, LoadFrameworks  PROVE Owned'
  OBVIOUS
<1>1. phase = "load" /\ drops = <<>> /\ Succeed({}, "match")  BY DEF LoadFrameworks, At
<1>2. Kept = {} /\ guards = <<>>
  BY <1>1, KeptByPhase, Listed DEF Owned, GuardsByPhase
<1>3. phase' = "done" \/ GuardsByPhase'
  BY <1>2, <1>1 DEF Succeed, Go, Return, Leave, GuardsByPhase, Climbing
<1> QED
  BY <1>1, <1>2, <1>3, SucceedStep DEF Phases, Searching, Climbing

\* The next class, or no drive: what the walk of this class held is dropped.
LEMMA NextClassStep ==
  ASSUME Owned, phase \in {"match", "next"}, drops = <<>>, NEW dropped, NextClass(dropped),
         dropped = guards, dropped = <<>> \/ dropped = <<Iterator>>, held' = Kept, ~misused'
  PROVE  Owned'
<1>1. Kept = ToSet(guards) /\ parents = {} /\ hop = 0 /\ at \in Nat
  BY DEF Owned, Kept, Unguarded, ParentsByPhase, Climbing, Searching
<1>2. CASE class = 1
  <2>1. /\ drops' = dropped /\ guards' = <<>> /\ phase' = "match"
        /\ class' = 2 /\ at' = 0 /\ hop' = hop /\ parents' = parents
    BY <1>2 DEF NextClass, Leave
  <2>2. GuardsByPhase' /\ ParentsByPhase'
    BY <1>1, <2>1 DEF GuardsByPhase, ParentsByPhase, Climbing, Searching
  <2>3. Kept' = {}  BY <1>1, <2>1, Listed DEF Kept, Unguarded
  <2>4. Descending(drops')
    <3>1. Iterator \in Handle /\ Rank(Iterator) = 1  BY <1>1, <1>2, Handles, Ranks
    <3> QED  BY <2>1, <3>1, DescendingLists
  <2>5. phase' \in Phases /\ class' \in {1, 2}  BY <2>1 DEF Phases, Searching
  <2>6. held' = Kept' \union ToSet(drops') /\ Kept' \intersect ToSet(drops') = {}
    BY <1>1, <2>1, <2>3
  <2> QED  BY <2>2, <2>4, <2>5, <2>6, LeaveStep
<1>3. CASE class # 1
  <2>1. Return(Error("nodrive")) /\ UNCHANGED search  BY <1>3 DEF NextClass
  <2>2. class' \in {1, 2} /\ parents' = {} /\ at' \in Nat /\ hop' \in Nat
    BY <1>1, <2>1 DEF search, Owned
  <2> QED  BY <1>1, <2>1, <2>2, ReturnStep
<1> QED  BY <1>2, <1>3

LEMMA MatchClassStep == Owned /\ MatchClass => Owned'
<1> SUFFICES ASSUME Owned, MatchClass  PROVE Owned'
  OBVIOUS
<1>1. phase = "match" /\ drops = <<>>  BY DEF MatchClass, At
<1>2. Kept = {} /\ guards = <<>> /\ ToSet(guards) = {} /\ class \in {1, 2} /\ at \in Nat
  BY <1>1, KeptByPhase, Listed DEF Owned, GuardsByPhase
<1>3. CASE Obtain({}, Iterator, "next")
  <2>1. Append(guards, Iterator) = <<Iterator>>  BY <1>2
  <2>2. guards' = Append(guards, Iterator) /\ phase' = "next" /\ UNCHANGED search
          => GuardsByPhase'
    BY <2>1 DEF GuardsByPhase, Climbing, Iterator, search
  <2>3. ToSet(Append(guards, Iterator)) = ToSet(guards) \union {Iterator}
    BY <1>2, <2>1, Listed
  <2> QED
    BY <1>1, <1>2, <1>3, <2>2, <2>3, ObtainStep DEF Phases, Searching, Climbing
<1>4. CASE Call({}, {}, {}) /\ NextClass(<<>>)
  <2>1. held' = Kept /\ ~misused'  BY <1>1, <1>4, CallUses
  <2> QED  BY <1>1, <1>2, <1>4, <2>1, NextClassStep
<1> QED  BY <1>3, <1>4 DEF MatchClass

LEMMA NextServiceStep == Owned /\ NextService => Owned'
<1> SUFFICES ASSUME Owned, NextService  PROVE Owned'
  OBVIOUS
<1>1. phase = "next" /\ drops = <<>>  BY DEF NextService, At
<1>2. /\ Kept = {Iterator} /\ guards = <<Iterator>> /\ class \in {1, 2} /\ at \in Nat
      /\ parents = {} /\ hop = 0
  BY <1>1, KeptByPhase DEF Owned, GuardsByPhase, ParentsByPhase, Searching, Climbing
<1> DEFINE s == <<"service", at + 1>>
<1>3. CASE /\ at' = at + 1 /\ Call({Iterator}, {s}, {})
           /\ Go(Append(guards, s), "key") /\ UNCHANGED <<class, hop, parents>>
  <2>1. /\ at' = at + 1 /\ Call({Iterator}, {s}, {})
        /\ drops' = <<>> /\ guards' = Append(guards, s) /\ phase' = "key"
        /\ class' = class /\ hop' = hop /\ parents' = parents
    BY <1>3 DEF Go, Leave
  <2>2. s \in Handle /\ Iterator \in Handle /\ Iterator' = Iterator /\ ServiceHandle' = s
    BY <1>2, <2>1, Handles DEF Handle, Kinds, Iterator, ServiceHandle
  <2>3. s \notin Kept
    <3>1. Rank(Iterator) = 1 /\ Rank(s) = 2  BY Ranks
    <3> QED  BY <1>2, <3>1
  <2> HIDE DEF s
  <2>4. guards' = <<Iterator, s>>  BY <1>2, <2>1, <2>2, Append1
  <2>5. held' = Kept \union {s} /\ ~misused'  BY <1>1, <1>2, <2>1, <2>3, CallGets
  <2>6. GuardsByPhase'  BY <2>1, <2>2, <2>4 DEF GuardsByPhase, Climbing
  <2>7. ParentsByPhase'  BY <1>2, <2>1 DEF ParentsByPhase, Climbing, Searching
  <2>8. Kept' = {Iterator, s}
    <3>1. ToSet(guards') = {Iterator, s}  BY <2>4, Listed
    <3> QED  BY <1>2, <2>1, <3>1 DEF Kept, Unguarded
  <2> QED
    BY <1>2, <2>1, <2>5, <2>6, <2>7, <2>8, GoStep DEF Phases, Searching
<1>4. CASE Call({Iterator}, {}, {}) /\ NextClass(<<Iterator>>)
  <2>1. held' = Kept /\ ~misused'  BY <1>1, <1>2, <1>4, CallUses
  <2> QED  BY <1>1, <1>2, <1>4, <2>1, NextClassStep
<1> QED  BY <1>3, <1>4 DEF NextService

\* A service passed over: its handles are dropped, the iterator goes on.
LEMMA PassOverStep ==
  ASSUME Owned, drops = <<>>, phase \in {"key", "search", "name"}, UNCHANGED search,
         NEW dropped, PassOver(dropped), Descending(dropped), Iterator \notin ToSet(dropped),
         Kept = {Iterator} \union ToSet(dropped), held' = Kept, ~misused'
  PROVE  Owned'
<1>1. drops' = dropped /\ guards' = <<Iterator>> /\ phase' = "next"
  BY DEF PassOver, Leave
<1>2. ParentsByPhase' /\ class' \in {1, 2} /\ parents' = {}
  BY <1>1, SearchKept DEF Searching, Climbing
<1>3. GuardsByPhase'  BY <1>1 DEF GuardsByPhase, Climbing, Iterator, search
<1>4. Kept' = {Iterator}  BY <1>1, <1>2, Listed DEF Kept, Unguarded
<1> QED
  BY <1>1, <1>2, <1>3, <1>4, LeaveStep DEF Phases, Searching

LEMMA MakeKeyStep == Owned /\ MakeKey => Owned'
<1> SUFFICES ASSUME Owned, MakeKey  PROVE Owned'
  OBVIOUS
<1>1. phase = "key" /\ drops = <<>> /\ UNCHANGED search  BY DEF MakeKey, At
<1>2. /\ Kept = {Iterator, ServiceHandle} /\ guards = <<Iterator, ServiceHandle>>
      /\ class \in {1, 2} /\ at \in Nat
  BY <1>1, KeptByPhase DEF Owned, GuardsByPhase
<1>3. /\ Iterator \in Handle /\ ServiceHandle \in Handle /\ Key \in Handle
      /\ Rank(Iterator) = 1 /\ Rank(ServiceHandle) = 2 /\ Rank(Key) = 3
  BY <1>2, Handles, Ranks
<1>4. CASE Call({}, {Key}, {}) /\ Go(Append(guards, Key), "search")
  <2>1. guards' = <<Iterator, ServiceHandle, Key>> /\ phase' = "search" /\ drops' = <<>>
    BY <1>2, <1>3, <1>4, Append2 DEF Go, Leave
  <2>2. held' = Kept \union {Key} /\ ~misused'
    <3>1. Key \notin Kept  BY <1>2, <1>3
    <3> QED  BY <1>1, <1>4, <3>1, KeptByPhase DEF Call, Owned
  <2>3. ParentsByPhase' /\ class' \in {1, 2} /\ parents' = {}
    BY <1>1, <2>1, SearchKept DEF Searching, Climbing
  <2>4. GuardsByPhase'
    BY <1>1, <2>1 DEF GuardsByPhase, Climbing, Iterator, ServiceHandle, Key, search
  <2>5. Kept' = {Iterator, ServiceHandle, Key}
    BY <2>1, <2>3, Listed DEF Kept, Unguarded
  <2> QED  BY <1>2, <2>1, <2>2, <2>3, <2>4, <2>5, GoStep DEF Phases, Searching
<1>5. CASE Call({}, {}, {}) /\ PassOver(<<ServiceHandle>>)
  <2>1. held' = Kept /\ ~misused'  BY <1>1, <1>5, CallUses
  <2>2. Descending(<<ServiceHandle>>) /\ ToSet(<<ServiceHandle>>) = {ServiceHandle}
    BY <1>3, DescendingLists, Listed
  <2> QED  BY <1>1, <1>2, <1>3, <1>5, <2>1, <2>2, PassOverStep
<1> QED  BY <1>4, <1>5 DEF MakeKey

LEMMA SearchNameStep == Owned /\ SearchName => Owned'
<1> SUFFICES ASSUME Owned, SearchName  PROVE Owned'
  OBVIOUS
<1>1. phase = "search" /\ drops = <<>> /\ UNCHANGED search  BY DEF SearchName, At
<1>2. /\ Kept = {Iterator, ServiceHandle, Key} /\ guards = <<Iterator, ServiceHandle, Key>>
      /\ class \in {1, 2} /\ at \in Nat
  BY <1>1, KeptByPhase DEF Owned, GuardsByPhase
<1>3. /\ Iterator \in Handle /\ ServiceHandle \in Handle /\ Key \in Handle /\ Value \in Handle
      /\ Rank(Iterator) = 1 /\ Rank(ServiceHandle) = 2 /\ Rank(Key) = 3 /\ Rank(Value) = 4
  BY <1>2, Handles, Ranks
<1>4. CASE Call({ServiceHandle, Key}, {Value}, {}) /\ Go(Append(guards, Value), "name")
  <2>1. guards' = <<Iterator, ServiceHandle, Key, Value>> /\ phase' = "name" /\ drops' = <<>>
    BY <1>2, <1>3, <1>4, Append3 DEF Go, Leave
  <2>2. held' = Kept \union {Value} /\ ~misused'
    <3>1. Value \notin Kept  BY <1>2, <1>3
    <3> QED  BY <1>1, <1>2, <1>4, <3>1, CallGets
  <2>3. ParentsByPhase' /\ class' \in {1, 2} /\ parents' = {}
    BY <1>1, <2>1, SearchKept DEF Searching, Climbing
  <2>4. GuardsByPhase'
    BY <1>1, <2>1 DEF GuardsByPhase, Climbing, Iterator, ServiceHandle, Key, Value, search
  <2>5. Kept' = {Iterator, ServiceHandle, Key, Value}
    BY <2>1, <2>3, Listed DEF Kept, Unguarded
  <2> QED  BY <1>2, <2>1, <2>2, <2>3, <2>4, <2>5, GoStep DEF Phases, Searching
<1>5. CASE Call({ServiceHandle, Key}, {}, {}) /\ PassOver(<<Key, ServiceHandle>>)
  <2>1. held' = Kept /\ ~misused'  BY <1>1, <1>2, <1>5, CallUses
  <2>2. /\ Descending(<<Key, ServiceHandle>>)
        /\ ToSet(<<Key, ServiceHandle>>) = {Key, ServiceHandle}
    BY <1>3, DescendingLists, Listed
  <2> QED  BY <1>1, <1>2, <1>3, <1>5, <2>1, <2>2, PassOverStep
<1> QED  BY <1>4, <1>5 DEF SearchName

LEMMA ReadNameStep == Owned /\ ReadName => Owned'
<1> SUFFICES ASSUME Owned, ReadName  PROVE Owned'
  OBVIOUS
<1>1. /\ phase = "name" /\ drops = <<>> /\ UNCHANGED search /\ Call({Value}, {}, {})
  BY DEF ReadName, At
<1>2. /\ Kept = {Iterator, ServiceHandle, Key, Value}
      /\ class \in {1, 2} /\ at \in Nat
  BY <1>1, KeptByPhase
<1>3. /\ Iterator \in Handle /\ ServiceHandle \in Handle /\ Key \in Handle /\ Value \in Handle
      /\ Rank(Iterator) = 1 /\ Rank(ServiceHandle) = 2 /\ Rank(Key) = 3 /\ Rank(Value) = 4
  BY <1>2, Handles, Ranks
<1>4. held' = Kept /\ ~misused'  BY <1>1, <1>2, CallUses
<1>5. CASE Leave(Forgotten, <<ServiceHandle>>, "uuid")
  <2>1. drops' = Forgotten /\ guards' = <<ServiceHandle>> /\ phase' = "uuid"
    BY <1>5 DEF Leave
  <2>2. ParentsByPhase' /\ class' \in {1, 2} /\ parents' = {}
    BY <1>1, <2>1, SearchKept DEF Searching, Climbing
  <2>3. GuardsByPhase'
    BY <1>1, <2>1 DEF GuardsByPhase, Climbing, ServiceHandle, search
  <2>4. Kept' = {ServiceHandle}  BY <2>1, <2>2, Listed DEF Kept, Unguarded
  <2>5. ToSet(drops') = {Value, Key, Iterator} /\ Descending(drops')
    BY <1>3, <2>1, DescendingLists, Listed DEF Forgotten
  <2> QED
    BY <1>2, <1>3, <1>4, <2>1, <2>2, <2>3, <2>4, <2>5, LeaveStep DEF Phases, Searching
<1>6. CASE PassOver(<<Value, Key, ServiceHandle>>)
  <2>1. /\ ToSet(<<Value, Key, ServiceHandle>>) = {Value, Key, ServiceHandle}
        /\ Descending(<<Value, Key, ServiceHandle>>)
    BY <1>3, DescendingLists, Listed
  <2> QED  BY <1>1, <1>2, <1>3, <1>4, <1>6, <2>1, PassOverStep
<1> QED  BY <1>5, <1>6 DEF ReadName

\* The phases after the service was found, and the handles they name.
LEMMA DeviceHandles ==
  ASSUME Owned
  PROVE  /\ ServiceHandle \in Handle /\ Plugin \in Handle /\ Interface \in Handle
         /\ Access \in Handle /\ Task \in Handle
         /\ Uuids[1] \in Handle /\ Uuids[2] \in Handle /\ Uuids[3] \in Handle
         /\ Rank(ServiceHandle) = 2 /\ Rank(Plugin) = 8 /\ Rank(Interface) = 9
         /\ Rank(Access) = 10 /\ Rank(Task) = 11
         /\ Rank(Uuids[1]) = 5 /\ Rank(Uuids[2]) = 6 /\ Rank(Uuids[3]) = 7
BY Handles, Ranks DEF Owned, ParentsByPhase

LEMMA MakeUuidStep == Owned /\ MakeUuid => Owned'
<1> SUFFICES ASSUME Owned, MakeUuid  PROVE Owned'
  OBVIOUS
<1>1. phase = "uuid" /\ drops = <<>>  BY DEF MakeUuid, At
<1>2. Kept = ToSet(guards)  BY <1>1, KeptByPhase
<1> DEFINE s == ServiceHandle  u == Uuids
<1>3. Len(Uuids) = 3  BY DEF Uuids
<1>4. PICK m \in 1..3 :
        /\ Obtain({}, u[m], IF m = 3 THEN "scsi" ELSE "uuid")
        /\ m = 1 => guards = <<s>>
        /\ m = 2 => guards = <<s, u[1]>>
        /\ m = 3 => guards = <<s, u[1], u[2]>>
  <2>1. Obtain({}, Uuids[Len(guards)], IF Len(guards) = 3 THEN "scsi" ELSE "uuid")
    BY <1>3 DEF MakeUuid
  <2>2. guards \in {<<s>>, <<s, u[1]>>, <<s, u[1], u[2]>>}
    BY <1>1 DEF Owned, GuardsByPhase
  <2>3. CASE guards = <<s>>
    <3>1. Len(guards) = 1  BY <2>3
    <3> QED  BY <2>1, <2>3, <3>1
  <2>4. CASE guards = <<s, u[1]>>
    <3>1. Len(guards) = 2  BY <2>4
    <3> QED  BY <2>1, <2>4, <3>1
  <2>5. CASE guards = <<s, u[1], u[2]>>
    <3>1. Len(guards) = 3  BY <2>5
    <3> QED  BY <2>1, <2>5, <3>1
  <2> QED  BY <2>2, <2>3, <2>4, <2>5
<1> HIDE DEF s, u
<1>5. /\ s \in Handle /\ u[1] \in Handle /\ u[2] \in Handle /\ u[3] \in Handle
      /\ Rank(s) = 2 /\ Rank(u[1]) = 5 /\ Rank(u[2]) = 6 /\ Rank(u[3]) = 7
  BY DeviceHandles DEF s, u
<1>6. /\ m = 1 => Append(guards, u[m]) = <<s, u[1]>>
      /\ m = 2 => Append(guards, u[m]) = <<s, u[1], u[2]>>
      /\ m = 3 => Append(guards, u[m]) = <<s, u[1], u[2], u[3]>>
  <2>1. Append(<<s>>, u[1]) = <<s, u[1]>>  BY <1>5, Append1
  <2>2. Append(<<s, u[1]>>, u[2]) = <<s, u[1], u[2]>>  BY <1>5, Append2
  <2>3. Append(<<s, u[1], u[2]>>, u[3]) = <<s, u[1], u[2], u[3]>>  BY <1>5, Append3
  <2> QED  BY <1>4, <2>1, <2>2, <2>3
<1>7. u[m] \notin Kept /\ ToSet(Append(guards, u[m])) = ToSet(guards) \union {u[m]}
  <2>1. CASE m = 1
    <3>1. ToSet(guards) = {s} /\ ToSet(Append(guards, u[m])) = {s, u[1]}
      BY <1>4, <1>6, <2>1, Listed
    <3> QED  BY <1>2, <1>5, <2>1, <3>1
  <2>2. CASE m = 2
    <3>1. ToSet(<<s, u[1]>>) = {s, u[1]} /\ ToSet(<<s, u[1], u[2]>>) = {s, u[1], u[2]}
      BY Listed
    <3>2. Append(guards, u[m]) = <<s, u[1], u[2]>> /\ guards = <<s, u[1]>>
      BY <1>4, <1>6, <2>2
    <3>3. Kept = {s, u[1]} /\ ToSet(guards) = {s, u[1]}  BY <1>2, <3>1, <3>2
    <3>4. u[2] \notin Kept  BY <1>5, <3>3
    <3> QED  BY <2>2, <3>1, <3>2, <3>3, <3>4
  <2>3. CASE m = 3
    <3>1. /\ ToSet(<<s, u[1], u[2]>>) = {s, u[1], u[2]}
          /\ ToSet(<<s, u[1], u[2], u[3]>>) = {s, u[1], u[2], u[3]}
      BY Listed
    <3>2. Append(guards, u[m]) = <<s, u[1], u[2], u[3]>> /\ guards = <<s, u[1], u[2]>>
      BY <1>4, <1>6, <2>3
    <3>3. Kept = {s, u[1], u[2]} /\ ToSet(guards) = {s, u[1], u[2]}  BY <1>2, <3>1, <3>2
    <3>4. u[3] \notin Kept  BY <1>5, <3>3
    <3> QED  BY <2>3, <3>1, <3>2, <3>3, <3>4
  <2> QED  BY <2>1, <2>2, <2>3
<1> DEFINE next == IF m = 3 THEN "scsi" ELSE "uuid"
<1>8. ASSUME guards' = Append(guards, u[m]), phase' = next, UNCHANGED search
      PROVE  GuardsByPhase'
  <2>1. s' = s /\ u' = u  BY <1>8 DEF s, u, ServiceHandle, Uuids, search
  <2>2. CASE m = 3
    <3>1. guards' = <<s, u[1], u[2], u[3]>> /\ phase' = "scsi"  BY <1>6, <1>8, <2>2
    <3> QED  BY <2>1, <3>1 DEF GuardsByPhase, Climbing, s, u
  <2>3. CASE m # 3
    <3>1. guards' \in {<<s, u[1]>>, <<s, u[1], u[2]>>} /\ phase' = "uuid"
      BY <1>6, <1>8, <2>3
    <3> QED  BY <2>1, <3>1 DEF GuardsByPhase, Climbing, s, u
  <2> QED  BY <2>2, <2>3
<1>9. next = "scsi" \/ next \in Phases \ (Climbing \union {"queryScsi", "queryMmc"})
  BY DEF Phases, Searching, Climbing
<1>10. "uuid" \in Searching /\ "uuid" \notin Climbing \union {"queryScsi", "queryMmc"}
  BY DEF Searching, Climbing
<1>11. Obtain({}, u[m], next)  BY <1>4
<1> HIDE DEF next
<1> QED  BY <1>1, <1>7, <1>8, <1>9, <1>10, <1>11, ObtainStep

\* The walk: what it holds, and where it stands.
LEMMA Walk ==
  ASSUME Owned, drops = <<>>, phase \in Climbing
  PROVE  /\ guards = <<ServiceHandle, Uuids[1], Uuids[2], Uuids[3]>>
         /\ ToSet(guards) = {ServiceHandle, Uuids[1], Uuids[2], Uuids[3]}
         /\ ToSet(Uuids) = {Uuids[1], Uuids[2], Uuids[3]}
         /\ hop \in Nat /\ at \in Nat /\ class \in {1, 2}
         /\ Kept = ToSet(guards) \union parents /\ ToSet(guards) \intersect parents = {}
         /\ parents = {<<"node", h>> : h \in 1..hop}
         /\ Plugin \notin Kept /\ <<"node", hop + 1>> \notin Kept
         /\ Node(hop) \in Kept
<1>1. /\ guards = <<ServiceHandle, Uuids[1], Uuids[2], Uuids[3]>>
      /\ ToSet(guards) = {ServiceHandle, Uuids[1], Uuids[2], Uuids[3]}
      /\ hop \in Nat /\ at \in Nat /\ class \in {1, 2}
      /\ Kept = ToSet(guards) \union parents
      /\ parents = {<<"node", h>> : h \in 1..hop}
  <2>1. guards = <<ServiceHandle, Uuids[1], Uuids[2], Uuids[3]>>
    BY DEF Owned, GuardsByPhase
  <2>2. parents = {<<"node", h>> : h \in 1..hop}  BY DEF Owned, ParentsByPhase
  <2>3. ToSet(guards) = {ServiceHandle, Uuids[1], Uuids[2], Uuids[3]}
    BY <2>1, Listed
  <2> QED  BY <2>1, <2>2, <2>3, KeptByPhase
<1>2. ToSet(Uuids) = {Uuids[1], Uuids[2], Uuids[3]}
  BY Listed DEF Uuids
<1>3. \A x \in parents : Rank(x) \in 12..(11 + hop)
  BY <1>1, Ranks
<1>4. \A x \in ToSet(guards) : Rank(x) \in 1..7
  BY <1>1, DeviceHandles
<1>5. Rank(Plugin) = 8 /\ Rank(<<"node", hop + 1>>) = 12 + hop
  BY <1>1, Ranks
<1>6. ToSet(guards) \intersect parents = {}  BY <1>1, <1>3, <1>4
<1>7. Plugin \notin Kept /\ <<"node", hop + 1>> \notin Kept
  <2>1. \A x \in Kept : Rank(x) \in 1..7 \/ Rank(x) \in 12..(11 + hop)
    BY <1>1, <1>3, <1>4
  <2>2. 8 \notin 1..7 /\ 8 \notin 12..(11 + hop) /\ 12 + hop \notin 1..7
        /\ 12 + hop \notin 12..(11 + hop)
    BY <1>1
  <2> QED  BY <1>5, <2>1, <2>2
<1>8. Node(hop) \in Kept
  <2>1. CASE hop = 0  BY <1>1, <2>1 DEF Node
  <2>2. CASE hop # 0
    <3>1. hop \in 1..hop  BY <1>1, <2>2
    <3> QED  BY <1>1, <2>2, <3>1 DEF Node
  <2> QED  BY <2>1, <2>2
<1> QED  BY <1>1, <1>2, <1>6, <1>7, <1>8

LEMMA TryClientStep ==
  ASSUME Owned, drops = <<>>, phase \in Climbing, NEW client,
         NEW query \in {"queryScsi", "queryMmc"}, NEW otherwise \in Climbing,
         TryClient(client, query, otherwise)
  PROVE  Owned'
<1> DEFINE uses == {Node(hop)} \union ToSet(Uuids)
<1>1. uses \subseteq Kept /\ UNCHANGED <<class, at, hop>>
  BY Walk DEF TryClient
<1>2. CASE Call(uses, {Plugin}, parents) /\ Go(guards, query) /\ parents' = {}
  <2>1. held' = (Kept \ parents) \union {Plugin} /\ ~misused'
    BY <1>1, <1>2, Walk, CallStep
  <2>2. guards' = guards /\ phase' = query /\ drops' = <<>>  BY <1>2 DEF Go, Leave
  <2>3. GuardsByPhase' /\ ParentsByPhase' /\ phase' \in Phases /\ class' \in {1, 2}
    <3>1. ServiceHandle' = ServiceHandle  BY <1>1 DEF ServiceHandle
    <3>2. Uuids' = Uuids  BY DEF Uuids
    <3>3. GuardsByPhase'  BY <2>2, <3>1, <3>2, Walk DEF GuardsByPhase, Climbing
    <3> QED
      BY <1>1, <1>2, <2>2, <3>3, Walk DEF ParentsByPhase, Phases, Climbing, Searching
  <2>4. Kept' = ToSet(guards) \union {Plugin}
    BY <1>2, <2>2 DEF Kept, Unguarded, Plugin
  <2>5. held' = Kept'  BY <2>1, <2>4, Walk
  <2> QED  BY <2>1, <2>2, <2>3, <2>5, GoStep
<1>3. CASE Call(uses, {}, {}) /\ Go(guards, otherwise) /\ UNCHANGED parents
  <2>1. held' = Kept /\ ~misused'  BY <1>1, <1>3, CallUses
  <2>2. guards' = guards /\ phase' = otherwise /\ drops' = <<>>  BY <1>3 DEF Go, Leave
  <2>3. GuardsByPhase' /\ ParentsByPhase' /\ phase' \in Phases /\ class' \in {1, 2}
    <3>1. ServiceHandle' = ServiceHandle  BY <1>1 DEF ServiceHandle
    <3>2. Uuids' = Uuids  BY DEF Uuids
    <3>3. GuardsByPhase'  BY <2>2, <3>1, <3>2, Walk DEF GuardsByPhase, Climbing
    <3> QED
      BY <1>1, <1>3, <2>2, <3>3, Walk DEF ParentsByPhase, Phases, Climbing, Searching
  <2>4. Kept' = Kept
    <3>1. phase \notin {"queryScsi", "queryMmc"} /\ phase' \notin {"queryScsi", "queryMmc"}
      BY <2>2 DEF Climbing
    <3> QED  BY <1>3, <2>2, <3>1 DEF Kept, Unguarded
  <2> QED  BY <2>1, <2>2, <2>3, <2>4, GoStep
<1> QED  BY <1>2, <1>3 DEF TryClient

\* No client on any node: the parents go back at once, the guards with the scopes.
LEMMA GiveUpStep ==
  ASSUME Owned, drops = <<>>, phase \in Climbing, NEW uses, uses \subseteq Kept, GiveUp(uses)
  PROVE  Owned'
<1>1. /\ Call(uses, {}, parents) /\ Return(Error("noclient"))
      /\ parents' = {} /\ UNCHANGED <<class, at, hop>>
  BY DEF GiveUp
<1>2. held' = Kept \ parents /\ ~misused'
  BY <1>1, Walk, KeptByPhase DEF Call, Owned
<1>3. held' = ToSet(guards)  BY <1>2, Walk
<1> QED  BY <1>1, <1>2, <1>3, Walk, ReturnStep

LEMMA ClimbStep == Owned /\ Climb => Owned'
<1> SUFFICES ASSUME Owned, Climb  PROVE Owned'
  OBVIOUS
<1>1. phase = "climb" /\ phase \in Climbing /\ drops = <<>>
  BY DEF Climb, At, Climbing
<1> DEFINE above == <<"node", hop + 1>>
<1>2. CASE /\ Call({Node(hop)}, {above}, {})
           /\ hop' = Hop(hop).hop /\ parents' = parents \union {above}
           /\ Go(guards, Hop(hop).next)
           /\ UNCHANGED <<class, at>>
  <2>1. held' = Kept \union {above} /\ ~misused'
    BY <1>1, <1>2, Walk, CallGets
  <2>2. /\ guards' = guards /\ phase' \in {"walked", "scsi"} /\ drops' = <<>>
        /\ hop' = hop + 1
    BY <1>2 DEF Go, Leave, Hop
  <2>3. parents' = {<<"node", h>> : h \in 1..hop'}
    <3>1. 1..hop' = (1..hop) \union {hop + 1}  BY <1>1, <2>2, Walk
    <3> QED  BY <1>1, <1>2, <2>2, <3>1, Walk
  <2>4. GuardsByPhase'
    <3>1. ServiceHandle' = ServiceHandle  BY <1>2 DEF ServiceHandle
    <3>2. Uuids' = Uuids  BY DEF Uuids
    <3> QED  BY <1>1, <2>2, <3>1, <3>2, Walk DEF GuardsByPhase, Climbing
  <2>5. ParentsByPhase' /\ phase' \in Phases /\ class' \in {1, 2}
    BY <1>1, <1>2, <2>2, <2>3, Walk DEF ParentsByPhase, Climbing, Searching, Phases
  <2>6. Kept' = Kept \union {above}
    BY <1>1, <1>2, <2>2 DEF Kept, Unguarded
  <2> QED  BY <2>1, <2>2, <2>4, <2>5, <2>6, GoStep
<1>3. CASE GiveUp({Node(hop)})
  BY <1>1, <1>3, Walk, GiveUpStep
<1> QED  BY <1>2, <1>3 DEF Climb

LEMMA WalkSteps ==
  /\ Owned /\ TryScsi => Owned'
  /\ Owned /\ TryMmc => Owned'
  /\ Owned /\ Walked => Owned'
<1>1. ASSUME Owned, TryScsi  PROVE Owned'
  <2>1. /\ drops = <<>> /\ phase \in Climbing /\ "mmc" \in Climbing
        /\ TryClient("scsi", "queryScsi", "mmc")
    BY <1>1 DEF TryScsi, At, Climbing
  <2> QED  BY <1>1, <2>1, TryClientStep
<1>2. ASSUME Owned, TryMmc  PROVE Owned'
  <2>1. /\ drops = <<>> /\ phase \in Climbing /\ "climb" \in Climbing
        /\ TryClient("mmc", "queryMmc", "climb")
    BY <1>2 DEF TryMmc, At, Climbing
  <2> QED  BY <1>2, <2>1, TryClientStep
<1>3. ASSUME Owned, Walked  PROVE Owned'
  <2>1. drops = <<>> /\ phase \in Climbing /\ GiveUp({})
    BY <1>3 DEF Walked, At, Climbing
  <2>2. {} \subseteq Kept  OBVIOUS
  <2> QED  BY <1>3, <2>1, <2>2, GiveUpStep
<1> QED  BY <1>1, <1>2, <1>3

\* The plug-in and its interface join what is guarded.
LEMMA Joined ==
  /\ \A a, b, c, d, e, f \in Handle : <<a, b, c, d>> \o <<e, f>> = <<a, b, c, d, e, f>>
  /\ \A a, e, f \in Handle : <<a>> \o <<e, f>> = <<a, e, f>>
  /\ \A a, d, e, f \in Handle : <<a>> \o <<d, e, f>> = <<a, d, e, f>>
<1>1. ASSUME NEW u \in Seq(Handle), NEW v \in Seq(Handle), NEW t \in Seq(Handle),
             Len(t) = Len(u) + Len(v), \A i \in 1..Len(u) : t[i] = u[i],
             \A i \in 1..Len(v) : t[Len(u) + i] = v[i]
      PROVE  u \o v = t
  <2> DEFINE s == u \o v
  <2>1. /\ s \in Seq(Handle) /\ Len(s) = Len(t)
        /\ \A i \in 1..Len(t) : s[i] = IF i <= Len(u) THEN u[i] ELSE v[i - Len(u)]
    BY <1>1, ConcatProperties
  <2> HIDE DEF s
  <2>2. ASSUME NEW i \in 1..Len(t)  PROVE s[i] = t[i]
    <3>1. CASE i <= Len(u)  BY <1>1, <2>1, <3>1
    <3>2. CASE ~(i <= Len(u))
      <4>1. i - Len(u) \in 1..Len(v) /\ Len(u) + (i - Len(u)) = i  BY <1>1, <3>2
      <4> QED  BY <1>1, <2>1, <3>2, <4>1
    <3> QED  BY <3>1, <3>2
  <2>3. s = t  BY <2>1, <2>2, SeqEqual
  <2> QED  BY <2>3 DEF s
<1>2. ASSUME NEW a \in Handle, NEW b \in Handle, NEW c \in Handle,
             NEW d \in Handle, NEW e \in Handle, NEW f \in Handle
      PROVE  <<a, b, c, d>> \o <<e, f>> = <<a, b, c, d, e, f>>
  <2> DEFINE u == <<a, b, c, d>>  v == <<e, f>>  t == <<a, b, c, d, e, f>>
  <2>1. /\ u \in Seq(Handle) /\ v \in Seq(Handle) /\ t \in Seq(Handle)
        /\ Len(t) = Len(u) + Len(v) /\ (\A i \in 1..Len(u) : t[i] = u[i])
        /\ \A i \in 1..Len(v) : t[Len(u) + i] = v[i]
    <3>1. u \in Seq(Handle) /\ v \in Seq(Handle) /\ t \in Seq(Handle)  OBVIOUS
    <3>2. /\ Len(u) = 4 /\ u[1] = a /\ u[2] = b /\ u[3] = c /\ u[4] = d
          /\ Len(v) = 2 /\ v[1] = e /\ v[2] = f
      OBVIOUS
    <3>3. /\ Len(t) = 6 /\ t[1] = a /\ t[2] = b /\ t[3] = c /\ t[4] = d /\ t[5] = e /\ t[6] = f
      OBVIOUS
    <3> HIDE DEF u, v, t
    <3> QED  BY <3>1, <3>2, <3>3
  <2> HIDE DEF u, v, t
  <2>2. u \o v = t  BY <1>1, <2>1, Zenon
  <2> QED  BY <2>2 DEF u, v, t
<1>3. ASSUME NEW a \in Handle, NEW e \in Handle, NEW f \in Handle
      PROVE  <<a>> \o <<e, f>> = <<a, e, f>>
  <2> DEFINE u == <<a>>  v == <<e, f>>  t == <<a, e, f>>
  <2>1. /\ u \in Seq(Handle) /\ v \in Seq(Handle) /\ t \in Seq(Handle)
        /\ Len(t) = Len(u) + Len(v) /\ (\A i \in 1..Len(u) : t[i] = u[i])
        /\ \A i \in 1..Len(v) : t[Len(u) + i] = v[i]
    <3>1. u \in Seq(Handle) /\ v \in Seq(Handle) /\ t \in Seq(Handle)  OBVIOUS
    <3>2. Len(u) = 1 /\ u[1] = a /\ Len(v) = 2 /\ v[1] = e /\ v[2] = f  OBVIOUS
    <3>3. Len(t) = 3 /\ t[1] = a /\ t[2] = e /\ t[3] = f  OBVIOUS
    <3> HIDE DEF u, v, t
    <3> QED  BY <3>1, <3>2, <3>3
  <2> HIDE DEF u, v, t
  <2>2. u \o v = t  BY <1>1, <2>1, Zenon
  <2> QED  BY <2>2 DEF u, v, t
<1>4. ASSUME NEW a \in Handle, NEW d \in Handle, NEW e \in Handle, NEW f \in Handle
      PROVE  <<a>> \o <<d, e, f>> = <<a, d, e, f>>
  <2> DEFINE u == <<a>>  v == <<d, e, f>>  t == <<a, d, e, f>>
  <2>1. /\ u \in Seq(Handle) /\ v \in Seq(Handle) /\ t \in Seq(Handle)
        /\ Len(t) = Len(u) + Len(v) /\ (\A i \in 1..Len(u) : t[i] = u[i])
        /\ \A i \in 1..Len(v) : t[Len(u) + i] = v[i]
    <3>1. u \in Seq(Handle) /\ v \in Seq(Handle) /\ t \in Seq(Handle)  OBVIOUS
    <3>2. Len(u) = 1 /\ u[1] = a /\ Len(v) = 3 /\ v[1] = d /\ v[2] = e /\ v[3] = f  OBVIOUS
    <3>3. Len(t) = 4 /\ t[1] = a /\ t[2] = d /\ t[3] = e /\ t[4] = f  OBVIOUS
    <3> HIDE DEF u, v, t
    <3> QED  BY <3>1, <3>2, <3>3
  <2> HIDE DEF u, v, t
  <2>2. u \o v = t  BY <1>1, <2>1, Zenon
  <2> QED  BY <2>2 DEF u, v, t
<1> QED  BY <1>2, <1>3, <1>4

\* A plug-in without an interface goes back at once, the rest with the scopes.
LEMMA NoInterfaceStep ==
  ASSUME Owned, drops = <<>>, phase \in {"queryScsi", "queryMmc"}, UNCHANGED search, NoInterface
  PROVE  Owned'
<1>1. Call({Plugin}, {}, {Plugin}) /\ Return(Error("call"))
  BY DEF NoInterface, Destroyed
<1>2. /\ Kept = ToSet(guards) \union {Plugin}
      /\ ToSet(guards) = {ServiceHandle, Uuids[1], Uuids[2], Uuids[3]}
  BY KeptByPhase, Listed DEF Owned, GuardsByPhase
<1>3. Plugin \notin ToSet(guards)  BY <1>2, DeviceHandles
<1>4. held' = Kept \ {Plugin} /\ ~misused'
  BY <1>1, <1>2, KeptByPhase DEF Call, Owned
<1>5. held' = ToSet(guards)  BY <1>2, <1>3, <1>4
<1>6. class' \in {1, 2} /\ parents' = {} /\ at' \in Nat /\ hop' \in Nat
  BY DEF search, Owned, ParentsByPhase, Climbing
<1> QED  BY <1>1, <1>4, <1>5, <1>6, ReturnStep

\* The device is opened: the UUIDs are dropped, the device is kept.
LEMMA OpenedStep ==
  ASSUME Owned, drops = <<>>, phase \in {"queryMmc", "access"}, UNCHANGED search,
         NEW device, NEW next, Opened(device, next),
         \/ device = <<Plugin, Interface>> /\ next = "structure"
         \/ device = <<Plugin, Interface, Access>> /\ next = "task",
         held' = {ServiceHandle, Uuids[1], Uuids[2], Uuids[3]} \union ToSet(device), ~misused'
  PROVE  Owned'
<1>1. drops' = Reverse(Uuids) /\ guards' = <<ServiceHandle>> \o device /\ phase' = next
  BY DEF Opened, Leave
<1>2. /\ Descending(drops') /\ ToSet(drops') = {Uuids[1], Uuids[2], Uuids[3]}
  <2>1. InOrder(Uuids) /\ Len(Uuids) = 3 /\ ToSet(Uuids) = {Uuids[1], Uuids[2], Uuids[3]}
    BY GuardsInOrder, Listed DEF Uuids
  <2>2. \A x \in ToSet(Uuids) : Rank(x) \in 1..7  BY <2>1, Ranks
  <2> QED  BY <1>1, <2>1, <2>2, Reversed DEF Descending
<1>3. /\ next = "structure" => guards' = <<ServiceHandle, Plugin, Interface>>
      /\ next = "task" => guards' = <<ServiceHandle, Plugin, Interface, Access>>
  <2>1. /\ <<ServiceHandle>> \o <<Plugin, Interface>> = <<ServiceHandle, Plugin, Interface>>
        /\ <<ServiceHandle>> \o <<Plugin, Interface, Access>>
             = <<ServiceHandle, Plugin, Interface, Access>>
    BY DeviceHandles, Joined
  <2> QED  BY <1>1, <2>1
<1>4. ParentsByPhase' /\ class' \in {1, 2} /\ parents' = {}
  BY <1>1, SearchKept DEF Searching, Climbing
<1>5. GuardsByPhase'
  BY <1>1, <1>3 DEF GuardsByPhase, Climbing, search, ServiceHandle, Plugin, Interface, Access
<1>6. ToSet(guards') = {ServiceHandle} \union ToSet(device)
  <2>1. /\ ToSet(<<Plugin, Interface>>) = {Plugin, Interface}
        /\ ToSet(<<Plugin, Interface, Access>>) = {Plugin, Interface, Access}
        /\ ToSet(<<ServiceHandle, Plugin, Interface>>) = {ServiceHandle, Plugin, Interface}
        /\ ToSet(<<ServiceHandle, Plugin, Interface, Access>>)
             = {ServiceHandle, Plugin, Interface, Access}
    BY Listed
  <2> QED  BY <1>3, <2>1
<1>7. Kept' = {ServiceHandle} \union ToSet(device) /\ phase' \in Phases
  BY <1>1, <1>4, <1>6 DEF Kept, Unguarded, Phases
<1>8. Kept' \intersect ToSet(drops') = {}
  <2>1. ToSet(device) \subseteq {Plugin, Interface, Access}  BY Listed
  <2> QED  BY <1>2, <1>7, <2>1, DeviceHandles
<1> QED  BY <1>2, <1>4, <1>5, <1>7, <1>8, LeaveStep

LEMMA QueryScsiStep == Owned /\ QueryScsi => Owned'
<1> SUFFICES ASSUME Owned, QueryScsi  PROVE Owned'
  OBVIOUS
<1>1. phase = "queryScsi" /\ drops = <<>> /\ UNCHANGED search  BY DEF QueryScsi, At
<1>2. /\ guards = <<ServiceHandle, Uuids[1], Uuids[2], Uuids[3]>>
      /\ Kept = {ServiceHandle, Uuids[1], Uuids[2], Uuids[3], Plugin}
  <2>1. guards = <<ServiceHandle, Uuids[1], Uuids[2], Uuids[3]>>
    BY <1>1 DEF Owned, GuardsByPhase
  <2>2. ToSet(guards) = {ServiceHandle, Uuids[1], Uuids[2], Uuids[3]}  BY <2>1, Listed
  <2> QED  BY <1>1, <2>1, <2>2, KeptByPhase
<1>3. CASE Call({Plugin}, {Interface}, {}) /\ Go(guards \o <<Plugin, Interface>>, "access")
  <2>1. /\ guards' = <<ServiceHandle, Uuids[1], Uuids[2], Uuids[3], Plugin, Interface>>
        /\ phase' = "access" /\ drops' = <<>>
    <3>1. guards \o <<Plugin, Interface>>
            = <<ServiceHandle, Uuids[1], Uuids[2], Uuids[3], Plugin, Interface>>
      BY <1>2, DeviceHandles, Joined
    <3> QED  BY <1>3, <3>1 DEF Go, Leave
  <2>2. held' = Kept \union {Interface} /\ ~misused'
    <3>1. Interface \notin Kept  BY <1>2, DeviceHandles
    <3> QED  BY <1>1, <1>2, <1>3, <3>1, CallGets
  <2>3. ParentsByPhase' /\ class' \in {1, 2} /\ parents' = {}
    BY <1>1, <2>1, SearchKept DEF Searching, Climbing
  <2>4. GuardsByPhase'
    BY <1>1, <2>1
    DEF GuardsByPhase, Climbing, search, ServiceHandle, Plugin, Interface, Uuids
  <2>5. Kept' = {ServiceHandle, Uuids[1], Uuids[2], Uuids[3], Plugin, Interface}
    <3>1. ToSet(guards') = {ServiceHandle, Uuids[1], Uuids[2], Uuids[3], Plugin, Interface}
      BY <2>1, Listed
    <3> QED  BY <2>1, <2>3, <3>1 DEF Kept, Unguarded
  <2>6. held' = Kept'  BY <1>2, <2>2, <2>5
  <2> QED  BY <2>1, <2>2, <2>3, <2>4, <2>6, GoStep DEF Phases
<1>4. CASE NoInterface
  BY <1>1, <1>4, NoInterfaceStep
<1> QED  BY <1>3, <1>4 DEF QueryScsi

LEMMA QueryMmcStep == Owned /\ QueryMmc => Owned'
<1> SUFFICES ASSUME Owned, QueryMmc  PROVE Owned'
  OBVIOUS
<1>1. phase = "queryMmc" /\ drops = <<>> /\ UNCHANGED search  BY DEF QueryMmc, At
<1>2. Kept = {ServiceHandle, Uuids[1], Uuids[2], Uuids[3], Plugin}
  <2>1. guards = <<ServiceHandle, Uuids[1], Uuids[2], Uuids[3]>>
    BY <1>1 DEF Owned, GuardsByPhase
  <2>2. ToSet(guards) = {ServiceHandle, Uuids[1], Uuids[2], Uuids[3]}  BY <2>1, Listed
  <2> QED  BY <1>1, <2>2, KeptByPhase
<1>3. CASE Call({Plugin}, {Interface}, {}) /\ Opened(<<Plugin, Interface>>, "structure")
  <2>1. held' = Kept \union {Interface} /\ ~misused'
    <3>1. Interface \notin Kept  BY <1>2, DeviceHandles
    <3> QED  BY <1>1, <1>2, <1>3, <3>1, CallGets
  <2>2. ToSet(<<Plugin, Interface>>) = {Plugin, Interface}  BY Listed
  <2>3. held' = {ServiceHandle, Uuids[1], Uuids[2], Uuids[3]} \union ToSet(<<Plugin, Interface>>)
    BY <1>2, <2>1, <2>2
  <2> QED  BY <1>1, <1>3, <2>1, <2>3, OpenedStep
<1>4. CASE NoInterface
  BY <1>1, <1>4, NoInterfaceStep
<1> QED  BY <1>3, <1>4 DEF QueryMmc

LEMMA ObtainAccessStep == Owned /\ ObtainAccess => Owned'
<1> SUFFICES ASSUME Owned, ObtainAccess  PROVE Owned'
  OBVIOUS
<1>1. phase = "access" /\ drops = <<>> /\ UNCHANGED search  BY DEF ObtainAccess, At
<1>2. Kept = {ServiceHandle, Uuids[1], Uuids[2], Uuids[3], Plugin, Interface}
  BY <1>1, KeptByPhase
<1>3. CASE Call({Interface}, {Access}, {}) /\ Opened(<<Plugin, Interface, Access>>, "task")
  <2>1. held' = Kept \union {Access} /\ ~misused'
    <3>1. Access \notin Kept  BY <1>2, DeviceHandles
    <3> QED  BY <1>1, <1>2, <1>3, <3>1, CallGets
  <2>2. ToSet(<<Plugin, Interface, Access>>) = {Plugin, Interface, Access}  BY Listed
  <2>3. held' = {ServiceHandle, Uuids[1], Uuids[2], Uuids[3]}
                  \union ToSet(<<Plugin, Interface, Access>>)
    BY <1>2, <2>1, <2>2
  <2> QED  BY <1>1, <1>3, <2>1, <2>3, OpenedStep
<1>4. CASE Call({Interface}, {}, {}) /\ Return(Error("call"))
  <2>1. held' = Kept /\ ~misused'  BY <1>1, <1>2, <1>4, CallUses
  <2>2. held' = ToSet(guards)
    <3>1. Kept = ToSet(guards)
      BY <1>1 DEF Kept, Unguarded, Owned, ParentsByPhase, Climbing
    <3> QED  BY <2>1, <3>1
  <2>3. class' \in {1, 2} /\ parents' = {} /\ at' \in Nat /\ hop' \in Nat
    BY <1>1 DEF search, Owned, ParentsByPhase, Climbing
  <2> QED  BY <1>4, <2>1, <2>2, <2>3, ReturnStep
<1> QED  BY <1>3, <1>4 DEF ObtainAccess

LEMMA CreateTaskStep == Owned /\ CreateTask => Owned'
<1> SUFFICES ASSUME Owned, CreateTask  PROVE Owned'
  OBVIOUS
<1>1. phase = "task" /\ drops = <<>> /\ Obtain({Interface}, Task, "descriptor")
  BY DEF CreateTask, At
<1>2. /\ guards = <<ServiceHandle, Plugin, Interface, Access>>
      /\ Kept = {ServiceHandle, Plugin, Interface, Access}
  BY <1>1, KeptByPhase DEF Owned, GuardsByPhase
<1>3. Append(guards, Task) = <<ServiceHandle, Plugin, Interface, Access, Task>>
  BY <1>2, DeviceHandles, Append4
<1>4. Task \notin Kept  BY <1>2, DeviceHandles
<1>5. ASSUME guards' = Append(guards, Task), phase' = "descriptor", UNCHANGED search
      PROVE  GuardsByPhase'
  BY <1>3, <1>5
  DEF GuardsByPhase, Climbing, search, ServiceHandle, Plugin, Interface, Access, Task
<1>6. ToSet(Append(guards, Task)) = ToSet(guards) \union {Task}
  <2>1. /\ ToSet(<<ServiceHandle, Plugin, Interface, Access>>)
             = {ServiceHandle, Plugin, Interface, Access}
        /\ ToSet(<<ServiceHandle, Plugin, Interface, Access, Task>>)
             = {ServiceHandle, Plugin, Interface, Access, Task}
    BY Listed
  <2> QED  BY <1>2, <1>3, <2>1
<1> QED
  BY <1>1, <1>2, <1>4, <1>5, <1>6, ObtainStep DEF Phases, Searching, Climbing

LEMMA SetUpStep == Owned /\ SetUp => Owned'
<1> SUFFICES ASSUME Owned, SetUp  PROVE Owned'
  OBVIOUS
<1>1. PICK next \in {"buffers", "timeout", "execute"} : Succeed({Task}, next)
  BY DEF SetUp
<1>2. phase \in {"descriptor", "buffers", "timeout"} /\ drops = <<>>
  BY DEF SetUp, At
<1>3. /\ guards = <<ServiceHandle, Plugin, Interface, Access, Task>> /\ {Task} \subseteq Kept
  BY <1>2, KeptByPhase DEF Owned, GuardsByPhase
<1>4. phase' = "done" \/ GuardsByPhase'
  BY <1>1, <1>3
  DEF Succeed, Go, Return, Leave, GuardsByPhase, Climbing, search, ServiceHandle, Plugin,
      Interface, Access, Task
<1> QED
  BY <1>1, <1>2, <1>3, <1>4, SucceedStep DEF Phases, Searching, Climbing

\* The query answers or fails: either way the read returns.
LEMMA QuerySteps == Owned /\ (ExecuteTask \/ ReadDiscStructure) => Owned'
<1> SUFFICES ASSUME Owned, ExecuteTask \/ ReadDiscStructure  PROVE Owned'
  OBVIOUS
<1>1. /\ phase \in {"execute", "structure"} /\ drops = <<>> /\ UNCHANGED search
      /\ \E r : Return(r)
      /\ \E uses \in {{Task, Access}, {Interface}} :
           Call(uses, {}, {}) /\ (phase = "structure" => uses = {Interface})
  <2>1. CASE ExecuteTask
    BY <2>1 DEF ExecuteTask, Query, At
  <2>2. CASE ReadDiscStructure
    BY <2>2 DEF ReadDiscStructure, Query, At
  <2> QED  BY <2>1, <2>2
<1>2. held' = Kept /\ ~misused'
  <2>1. PICK uses \in {{Task, Access}, {Interface}} :
          Call(uses, {}, {}) /\ (phase = "structure" => uses = {Interface})
    BY <1>1
  <2>2. uses \subseteq Kept  BY <1>1, <2>1, KeptByPhase
  <2> QED  BY <1>1, <2>1, <2>2, CallUses
<1>3. Kept = ToSet(guards)
  BY <1>1 DEF Kept, Unguarded, Owned, ParentsByPhase, Climbing
<1>4. class' \in {1, 2} /\ parents' = {} /\ at' \in Nat /\ hop' \in Nat
  BY <1>1 DEF search, Owned, ParentsByPhase, Climbing
<1> QED  BY <1>1, <1>2, <1>3, <1>4, ReturnStep

-----------------------------------------------------------------------------
(* The theorem.                                                            *)

LEMMA OwnedInit == Init => Owned
<1> SUFFICES ASSUME Init  PROVE Owned
  OBVIOUS
<1>1. /\ phase = "mount" /\ class = 1 /\ at = 0 /\ hop = 0 /\ parents = {}
      /\ guards = <<>> /\ drops = <<>> /\ held = {} /\ misused = FALSE
  BY DEF Init
<1>2. Kept = {} /\ ToSet(drops) = {}  BY <1>1, Listed DEF Kept, Unguarded
<1>3. GuardsByPhase /\ ParentsByPhase /\ phase \in Phases
  BY <1>1 DEF GuardsByPhase, ParentsByPhase, Phases, Searching, Climbing
<1>4. DropsInOrder  BY <1>1 DEF DropsInOrder
<1> QED  BY <1>1, <1>2, <1>3, <1>4 DEF Owned

LEMMA OwnedNext == Owned /\ [Next]_vars => Owned'
<1> SUFFICES ASSUME Owned, [Next]_vars  PROVE Owned'
  OBVIOUS
<1>1. CASE Next
  BY <1>1, NameMountStep, LoadFrameworksStep, MatchClassStep, NextServiceStep, MakeKeyStep,
     SearchNameStep, ReadNameStep, MakeUuidStep, WalkSteps, ClimbStep, QueryScsiStep,
     QueryMmcStep, ObtainAccessStep, CreateTaskStep, SetUpStep, QuerySteps, DropGuardStep, Zenon
  DEF Next
<1>2. CASE UNCHANGED vars
  BY <1>2
  DEF vars, search, Owned, GuardsByPhase, ParentsByPhase, DropsInOrder, Kept, Unguarded,
      ServiceHandle, Iterator, Key, Value, Uuids, Plugin, Interface, Access, Task
<1> QED  BY <1>1, <1>2

\* Every handle of the system has exactly one owner at every step.
THEOREM HandlesOwned == Spec => []Owned
<1> QED  BY OwnedInit, OwnedNext, PTL DEF Spec

\* Whichever call of read_volume_id fails, every handle is given back once and
\* none used after, in an order that leaves no part of the device without what it
\* stands on, and nothing is held when it has returned.
THEOREM HandlesBalance == Spec => []HandlesBalanced
<1>1. Owned => HandlesBalanced
  BY KeptByPhase DEF HandlesBalanced, Done, Owned
<1> QED  BY HandlesOwned, <1>1, PTL

-----------------------------------------------------------------------------
(* The name of the disk.                                                   *)

\* A set of naturals has a least element.
LEMMA Least ==
  ASSUME NEW T \in SUBSET Nat, T # {}
  PROVE  \E x \in T : \A y \in T : x <= y
<1> DEFINE R == {p \in Nat \X Nat : p[1] < p[2]}
<1>1. IsWellFoundedOn(R, Nat)  BY NatLessThanWellFounded, Zenon DEF OpToRel
<1> HIDE DEF R
<1>2. PICK x \in T : \A y \in T : <<y, x>> \notin R  BY <1>1, WFMin
<1>3. ASSUME NEW y \in T  PROVE x <= y
  <2>1. ASSUME y < x  PROVE FALSE
    <3>1. <<y, x>> \in R  BY <2>1 DEF R
    <3> QED  BY <1>2, <3>1
  <2> QED  BY <2>1
<1> QED  BY <1>3

SlicesTo(m, e) == {k \in 1..e : m[k] = Slice}

\* Where the digits begin that end at place e.
IsDigits(m, e, i) ==
  /\ i \in 0..e
  /\ \A k \in (i + 1)..e : m[k] >= 0
  /\ i = 0 \/ m[i] < 0

LEMMA NameFacts ==
  ASSUME NEW m, BsdName(m)
  PROVE  /\ Len(m) \in Nat \ {0} /\ DOMAIN m = 1..Len(m)
         /\ \A k \in 1..Len(m) : /\ m[k] \in Int
                                 /\ m[k] < 0 <=> m[k] \in {Disk, Slice}
                                 /\ m[k] = Disk => k = 1
                                 /\ m[k] = Slice => k < Len(m) /\ m[k + 1] \in Nat
         /\ m[1] \in {Disk, Slice}
         /\ Disk < 0 /\ Slice < 0 /\ Disk # Slice
<1>1. m \in Seq({Disk, Slice} \union Nat) /\ m # <<>>  BY DEF BsdName
<1>2. Len(m) \in Nat \ {0} /\ DOMAIN m = 1..Len(m)  BY <1>1
<1>3. \A k \in 1..Len(m) : m[k] \in {Disk, Slice} \union Nat  BY <1>1, <1>2
<1>4. Disk < 0 /\ Slice < 0 /\ Disk # Slice /\ Disk \in Int /\ Slice \in Int
  BY DEF Disk, Slice
<1>5. ASSUME NEW k \in 1..Len(m)
      PROVE  /\ m[k] \in Int
             /\ m[k] < 0 <=> m[k] \in {Disk, Slice}
  BY <1>3, <1>4, <1>5
<1>6. ASSUME NEW k \in 1..Len(m)
      PROVE  /\ m[k] = Disk => k = 1
             /\ m[k] = Slice => k < Len(m) /\ m[k + 1] \in Nat
  BY <1>2, <1>6 DEF BsdName
<1>7. m[1] \in {Disk, Slice}  BY DEF BsdName
<1> QED  BY <1>2, <1>4, <1>5, <1>6, <1>7

LEMMA DigitsBegin ==
  ASSUME NEW m, BsdName(m), NEW e \in 0..Len(m)
  PROVE  \E i : IsDigits(m, e, i) /\ \A j : IsDigits(m, e, j) => j = i
<1>1. /\ Len(m) \in Nat /\ \A k \in 1..Len(m) : m[k] \in Int
  BY NameFacts
<1> DEFINE T == {i \in 0..e : \A k \in (i + 1)..e : m[k] >= 0}
<1>2. T \in SUBSET Nat /\ e \in T  BY <1>1
<1>3. PICK i \in T : \A j \in T : i <= j  BY <1>2, Least
<1>4. i \in 0..e /\ \A k \in (i + 1)..e : m[k] >= 0  BY <1>3
<1>5. i = 0 \/ m[i] < 0
  <2> SUFFICES ASSUME i # 0, ~(m[i] < 0)  PROVE FALSE
    OBVIOUS
  <2>1. i - 1 \in 0..e /\ i \in 1..Len(m)  BY <1>1, <1>4
  <2>2. \A k \in ((i - 1) + 1)..e : m[k] >= 0
    <3> SUFFICES ASSUME NEW k \in ((i - 1) + 1)..e  PROVE m[k] >= 0
      OBVIOUS
    <3>1. k = i \/ k \in (i + 1)..e  BY <1>1, <1>4
    <3> QED  BY <1>1, <1>4, <2>1, <3>1
  <2>3. i - 1 \in T  BY <2>1, <2>2
  <2> QED  BY <1>3, <1>4, <2>3
<1>6. IsDigits(m, e, i)  BY <1>4, <1>5 DEF IsDigits
<1>7. ASSUME NEW j, IsDigits(m, e, j)  PROVE j = i
  <2>1. j \in 0..e /\ (\A k \in (j + 1)..e : m[k] >= 0) /\ (j = 0 \/ m[j] < 0)
    BY <1>7 DEF IsDigits
  <2>2. ~(j < i)
    <3> SUFFICES ASSUME j < i  PROVE FALSE
      OBVIOUS
    <3>1. i \in (j + 1)..e /\ i # 0 /\ i \in 1..Len(m)  BY <1>1, <1>4, <2>1
    <3> QED  BY <1>1, <1>5, <2>1, <3>1
  <2>3. ~(i < j)
    <3> SUFFICES ASSUME i < j  PROVE FALSE
      OBVIOUS
    <3>1. j \in (i + 1)..e /\ j # 0 /\ j \in 1..Len(m)  BY <1>1, <1>4, <2>1
    <3> QED  BY <1>1, <1>4, <2>1, <3>1
  <2> QED  BY <1>1, <1>4, <2>1, <2>2, <2>3
<1> QED  BY <1>6, <1>7

\* One turn of the loop of bsd_name_for_mount: it takes the last slice off, or
\* ends when there is none.
LEMMA OneSlice ==
  ASSUME NEW m, BsdName(m), NEW e \in 0..Len(m)
  PROVE  \/ /\ LessSlice(m, e) = e
            /\ e = 0 \/ m[e] = Slice \/ SlicesTo(m, e) = {}
         \/ /\ e # 0 /\ m[e] # Slice
            /\ LessSlice(m, e) \in 0..(e - 1)
            /\ SlicesTo(m, e) = SlicesTo(m, LessSlice(m, e)) \union {LessSlice(m, e) + 1}
            /\ LessSlice(m, e) = 0 \/ m[LessSlice(m, e)] # Slice
<1>1. /\ Len(m) \in Nat \ {0}
      /\ \A k \in 1..Len(m) : /\ m[k] \in Int
                              /\ m[k] < 0 <=> m[k] \in {Disk, Slice}
                              /\ m[k] = Disk => k = 1
                              /\ m[k] = Slice => k < Len(m) /\ m[k + 1] \in Nat
      /\ m[1] < 0 /\ Slice < 0 /\ Disk # Slice
  BY NameFacts
<1>2. PICK d : IsDigits(m, e, d) /\ \A j : IsDigits(m, e, j) => j = d  BY DigitsBegin
<1>3. d \in 0..e /\ (\A k \in (d + 1)..e : m[k] >= 0) /\ (d = 0 \/ m[d] < 0)
  BY <1>2 DEF IsDigits
<1>4. LessSlice(m, e) = IF d < e /\ d > 0 /\ m[d] = Slice THEN d - 1 ELSE e
  <2> DEFINE at0 == CHOOSE i \in 0..e : /\ \A k \in (i + 1)..e : m[k] >= 0
                                        /\ i = 0 \/ m[i] < 0
  <2>1. at0 = d
    <3>1. \E i \in 0..e : (\A k \in (i + 1)..e : m[k] >= 0) /\ (i = 0 \/ m[i] < 0)
      BY <1>3
    <3>2. at0 \in 0..e /\ (\A k \in (at0 + 1)..e : m[k] >= 0) /\ (at0 = 0 \/ m[at0] < 0)
      BY <3>1
    <3>3. IsDigits(m, e, at0)
      <4> HIDE DEF at0
      <4> QED  BY <3>2 DEF IsDigits
    <3> QED  BY <1>2, <3>3
  <2>2. LessSlice(m, e) = IF at0 < e /\ at0 > 0 /\ m[at0] = Slice THEN at0 - 1 ELSE e
    BY DEF LessSlice
  <2> HIDE DEF at0
  <2> QED  BY <2>1, <2>2
<1>5. CASE d < e /\ d > 0 /\ m[d] = Slice
  <2>1. d \in 1..Len(m) /\ e \in 1..Len(m) /\ d - 1 \in 0..(e - 1) /\ (d - 1) + 1 = d
    BY <1>1, <1>3, <1>5
  <2>2. \A k \in (d + 1)..e : m[k] # Slice  BY <1>1, <1>3
  <2>3. m[e] # Slice
    <3>1. e \in (d + 1)..e  BY <1>3, <1>5, <2>1
    <3> QED  BY <2>2, <3>1
  <2>4. SlicesTo(m, e) = SlicesTo(m, d - 1) \union {d}
    <3>1. ASSUME NEW k \in 1..e, m[k] = Slice  PROVE k \in 1..(d - 1) \/ k = d
      <4>1. k \notin (d + 1)..e  BY <2>2, <3>1
      <4> QED  BY <2>1, <3>1, <4>1
    <3>2. 1..(d - 1) \subseteq 1..e /\ d \in 1..e  BY <2>1, <1>5
    <3> QED  BY <1>5, <3>1, <3>2 DEF SlicesTo
  <2>5. d - 1 = 0 \/ m[d - 1] # Slice
    <3> SUFFICES ASSUME d - 1 # 0, m[d - 1] = Slice  PROVE FALSE
      OBVIOUS
    <3>1. d - 1 \in 1..Len(m)  BY <2>1
    <3>2. m[(d - 1) + 1] \in Nat  BY <1>1, <3>1
    <3> QED  BY <1>1, <1>5, <2>1, <3>2
  <2>6. LessSlice(m, e) = d - 1  BY <1>4, <1>5
  <2> QED  BY <2>1, <2>3, <2>4, <2>5, <2>6
<1>6. CASE ~(d < e /\ d > 0 /\ m[d] = Slice)
  <2>1. LessSlice(m, e) = e  BY <1>4, <1>6
  <2>2. ASSUME e # 0, m[e] # Slice, NEW k \in SlicesTo(m, e)  PROVE FALSE
    <3>1. k \in 1..e /\ m[k] = Slice /\ e \in 1..Len(m) /\ k \in 1..Len(m)
      BY <1>1, <2>2 DEF SlicesTo
    <3>2. d # 0
      <4> SUFFICES ASSUME d = 0  PROVE FALSE
        OBVIOUS
      <4>1. k \in (d + 1)..e  BY <3>1
      <4> QED  BY <1>1, <1>3, <3>1, <4>1
    <3>3. k <= d
      <4>1. k \notin (d + 1)..e  BY <1>1, <1>3, <3>1
      <4> QED  BY <1>3, <3>1, <4>1
    <3>4. m[d] < 0 /\ d \in 1..Len(m)  BY <1>3, <3>1, <3>2
    <3>5. CASE m[d] = Slice  BY <1>3, <1>6, <2>2, <3>2, <3>5
    <3>6. CASE m[d] = Disk  BY <1>1, <3>1, <3>3, <3>4, <3>6
    <3> QED  BY <1>1, <3>4, <3>5, <3>6
  <2> QED  BY <2>1, <2>2
<1> QED  BY <1>5, <1>6

\* Where the loop ends that begins at place e.
FirstSlice(m, e) == CHOOSE k \in SlicesTo(m, e) : \A j \in SlicesTo(m, e) : k <= j
EndOf(m, e) ==
  IF e = 0 \/ m[e] = Slice \/ SlicesTo(m, e) = {} THEN e ELSE FirstSlice(m, e) - 1

LEMMA FirstSliceIs ==
  ASSUME NEW m, NEW e \in Nat, NEW k \in SlicesTo(m, e), \A j \in SlicesTo(m, e) : k <= j
  PROVE  FirstSlice(m, e) = k
<1> DEFINE S == SlicesTo(m, e)
<1>1. S \in SUBSET Nat  BY DEF SlicesTo
<1>2. k \in S /\ \A j \in S : k <= j  OBVIOUS
<1>3. FirstSlice(m, e) = CHOOSE i \in S : \A j \in S : i <= j  BY DEF FirstSlice
<1> HIDE DEF S
<1>4. FirstSlice(m, e) \in S /\ \A j \in S : FirstSlice(m, e) <= j  BY <1>2, <1>3
<1>5. k \in Nat /\ FirstSlice(m, e) \in Nat  BY <1>1, <1>2, <1>4
<1>6. k <= FirstSlice(m, e) /\ FirstSlice(m, e) <= k  BY <1>2, <1>4
<1> QED  BY <1>5, <1>6

LEMMA SomeFirst ==
  ASSUME NEW m, NEW e \in Nat, SlicesTo(m, e) # {}
  PROVE  \E k \in SlicesTo(m, e) : \A j \in SlicesTo(m, e) : k <= j
<1>1. SlicesTo(m, e) \in SUBSET Nat  BY DEF SlicesTo
<1> QED  BY <1>1, Least

\* A turn of the loop does not change where it ends.
LEMMA EndKept ==
  ASSUME NEW m, BsdName(m), NEW e \in 0..Len(m)
  PROVE  EndOf(m, e) = IF LessSlice(m, e) = e THEN e ELSE EndOf(m, LessSlice(m, e))
<1>0. Len(m) \in Nat  BY NameFacts
<1>1. CASE /\ LessSlice(m, e) = e
           /\ e = 0 \/ m[e] = Slice \/ SlicesTo(m, e) = {}
  BY <1>1 DEF EndOf
<1>2. CASE /\ e # 0 /\ m[e] # Slice
           /\ LessSlice(m, e) \in 0..(e - 1)
           /\ SlicesTo(m, e) = SlicesTo(m, LessSlice(m, e)) \union {LessSlice(m, e) + 1}
           /\ LessSlice(m, e) = 0 \/ m[LessSlice(m, e)] # Slice
  <2> DEFINE d == LessSlice(m, e)
  <2>1. /\ e # 0 /\ m[e] # Slice /\ d \in 0..(e - 1) /\ d \in Nat /\ e \in Nat
        /\ SlicesTo(m, e) = SlicesTo(m, d) \union {d + 1}
        /\ d = 0 \/ m[d] # Slice
    BY <1>0, <1>2
  <2> HIDE DEF d
  <2>2. EndOf(m, e) = FirstSlice(m, e) - 1  BY <2>1 DEF EndOf
  <2>3. d # e  BY <2>1
  <2>4. EndOf(m, e) = EndOf(m, d)
    <3>1. CASE SlicesTo(m, d) = {}
      <4>1. d + 1 \in SlicesTo(m, e) /\ \A j \in SlicesTo(m, e) : d + 1 <= j
        BY <2>1, <3>1
      <4>2. FirstSlice(m, e) = d + 1  BY <2>1, <4>1, FirstSliceIs
      <4>3. EndOf(m, d) = d  BY <3>1 DEF EndOf
      <4> QED  BY <2>1, <2>2, <4>2, <4>3
    <3>2. CASE SlicesTo(m, d) # {}
      <4>1. PICK k \in SlicesTo(m, d) : \A j \in SlicesTo(m, d) : k <= j
        BY <2>1, <3>2, SomeFirst
      <4>2. k \in 1..d  BY <4>1 DEF SlicesTo
      <4>3. k \in SlicesTo(m, e) /\ \A j \in SlicesTo(m, e) : k <= j
        BY <2>1, <4>1, <4>2
      <4>4. FirstSlice(m, e) = k /\ FirstSlice(m, d) = k
        BY <2>1, <4>1, <4>3, FirstSliceIs
      <4>5. EndOf(m, d) = FirstSlice(m, d) - 1  BY <2>1, <3>2, <4>2 DEF EndOf
      <4> QED  BY <2>2, <4>4, <4>5
    <3> QED  BY <3>1, <3>2
  <2> QED  BY <2>3, <2>4 DEF d
<1> QED  BY <1>1, <1>2, OneSlice

\* What the loop leaves of a name.
LEMMA StrippedIs ==
  ASSUME NEW m, BsdName(m)
  PROVE  Stripped(m) = SubSeq(m, 1, EndOf(m, Len(m)))
<1> DEFINE n == Len(m)
           less(e) == LessSlice(m, e)
           f == CHOOSE f : f = [e \in 0..n |-> IF less(e) = e THEN e ELSE f[less(e)]]
           g == [e \in 0..n |-> EndOf(m, e)]
<1>1. n \in Nat  BY NameFacts
<1>2. ASSUME NEW e \in 0..n  PROVE less(e) \in 0..n /\ (less(e) = e \/ less(e) < e)
  <2>1. LessSlice(m, e) = e \/ LessSlice(m, e) \in 0..(e - 1)  BY OneSlice
  <2> QED  BY <1>1, <2>1
<1>3. \A e \in 0..n : EndOf(m, e) = IF less(e) = e THEN e ELSE EndOf(m, less(e))
  BY EndKept
<1>4. Stripped(m) = SubSeq(m, 1, f[n])  BY DEF Stripped
<1> HIDE DEF less
<1>5. g = [e \in 0..n |-> IF less(e) = e THEN e ELSE g[less(e)]]
  BY <1>2, <1>3
<1>6. f = [e \in 0..n |-> IF less(e) = e THEN e ELSE f[less(e)]]
  <2> HIDE DEF g, n
  <2>1. \E h : h = [e \in 0..n |-> IF less(e) = e THEN e ELSE h[less(e)]]  BY <1>5
  <2> QED  BY <2>1
<1> HIDE DEF f, g, n
<1>7. \A e \in 0..n : f[e] = EndOf(m, e)
  <2> SUFFICES ASSUME NEW b \in 0..n, f[b] # EndOf(m, b)  PROVE FALSE
    OBVIOUS
  <2> DEFINE T == {e \in 0..n : f[e] # EndOf(m, e)}
  <2>1. T \in SUBSET Nat /\ b \in T  BY <1>1
  <2>2. PICK e \in T : \A j \in T : e <= j  BY <2>1, Least
  <2>3. e \in 0..n /\ f[e] # EndOf(m, e)  BY <2>2
  <2>4. f[e] = IF less(e) = e THEN e ELSE f[less(e)]  BY <1>6, <2>3
  <2>5. EndOf(m, e) = IF less(e) = e THEN e ELSE EndOf(m, less(e))  BY <1>3, <2>3
  <2>6. less(e) # e  BY <2>3, <2>4, <2>5
  <2>7. less(e) \in 0..n /\ less(e) < e  BY <1>2, <2>3, <2>6
  <2>8. less(e) \notin T  BY <1>1, <2>2, <2>3, <2>7
  <2>9. f[less(e)] = EndOf(m, less(e))  BY <2>7, <2>8
  <2> QED  BY <2>3, <2>4, <2>5, <2>6, <2>9
<1>8. n \in 0..n  BY <1>1
<1>9. f[n] = EndOf(m, n)  BY <1>7, <1>8
<1> QED  BY <1>4, <1>9 DEF n

\* Stripping slice after slice leaves the name of the whole disk, of a slice alone
\* nothing.
LEMMA StrippedIsDisk ==
  ASSUME NEW m, BsdName(m)
  PROVE  /\ Stripped(m) # <<>> => Stripped(m) = WholeDisk(m)
         /\ Stripped(m) = <<>> => m[1] # Disk
<1> DEFINE n == Len(m)  S == SlicesTo(m, n)  cut == {k \in DOMAIN m : m[k] = Slice /\ k > 1}
<1>1. /\ n \in Nat \ {0} /\ DOMAIN m = 1..n /\ Disk # Slice /\ m[1] \in {Disk, Slice}
      /\ m[n] # Slice
  <2>1. n \in 1..n  BY NameFacts
  <2> QED  BY <2>1, NameFacts
<1>2. m \in Seq({Disk, Slice} \union Nat)  BY DEF BsdName
<1>3. S = {k \in DOMAIN m : m[k] = Slice} /\ S \subseteq 1..n  BY <1>1 DEF SlicesTo
<1>4. EndOf(m, n) = IF S = {} THEN n ELSE FirstSlice(m, n) - 1
  <2>1. EndOf(m, n) = IF n = 0 \/ m[n] = Slice \/ S = {} THEN n ELSE FirstSlice(m, n) - 1
    BY DEF EndOf
  <2> HIDE DEF n, S
  <2> QED  BY <1>1, <2>1
<1>5. Stripped(m) = SubSeq(m, 1, EndOf(m, n))  BY StrippedIs
<1> HIDE DEF n, S
<1>6. CASE S = {}
  <2>1. cut = {}  BY <1>3, <1>6
  <2>2. Stripped(m) = SubSeq(m, 1, Len(m))  BY <1>4, <1>5, <1>6 DEF n
  <2>3. Stripped(m) = m  BY <1>2, <2>2
  <2>4. WholeDisk(m) = m  BY <2>1 DEF WholeDisk
  <2>5. Len(m) # 0 /\ Stripped(m) # <<>>  BY <1>1, <1>2, <2>3 DEF n
  <2> QED  BY <2>3, <2>4, <2>5
<1>7. CASE S # {}
  <2>0. n \in Nat  BY <1>1
  <2>1. PICK k \in S : \A j \in S : k <= j
    <3> SUFFICES \E k \in SlicesTo(m, n) : \A j \in SlicesTo(m, n) : k <= j
      BY DEF S
    <3>1. SlicesTo(m, n) # {}  BY <1>7 DEF S
    <3> QED  BY <2>0, <3>1, SomeFirst
  <2>2. FirstSlice(m, n) = k
    <3>1. k \in SlicesTo(m, n) /\ \A j \in SlicesTo(m, n) : k <= j  BY <2>1 DEF S
    <3> QED  BY <2>0, <3>1, FirstSliceIs
  <2>3. Stripped(m) = SubSeq(m, 1, k - 1) /\ k \in 1..n /\ m[k] = Slice
    BY <1>3, <1>4, <1>5, <1>7, <2>1, <2>2
  <2>4. CASE k = 1
    <3>1. Stripped(m) = SubSeq(m, 1, 0)  BY <2>3, <2>4
    <3>2. Stripped(m) = <<>>  BY <1>2, <3>1
    <3> QED  BY <1>1, <2>3, <2>4, <3>2
  <2>5. CASE k # 1
    <3>1. cut = S  BY <1>1, <1>3, <2>1, <2>3, <2>5
    <3>2. S # {} /\ S \subseteq Nat  BY <1>1, <1>3, <1>7
    <3>3. (CHOOSE i \in S : \A j \in S : i <= j) = k
      <4> DEFINE c == CHOOSE i \in S : \A j \in S : i <= j
      <4>1. c \in S /\ \A j \in S : c <= j  BY <2>1
      <4> HIDE DEF c
      <4>2. c = k  BY <2>1, <3>2, <4>1
      <4> QED  BY <4>2 DEF c
    <3>4. WholeDisk(m) = SubSeq(m, 1, (CHOOSE i \in cut : \A j \in cut : i <= j) - 1)
      BY <3>1, <3>2 DEF WholeDisk
    <3>5. WholeDisk(m) = Stripped(m)  BY <2>3, <3>1, <3>3, <3>4
    <3>6. Len(Stripped(m)) = k - 1 /\ k - 1 # 0
      <4>1. k - 1 \in Nat /\ k - 1 <= Len(m)  BY <1>1, <2>3, <2>5 DEF n
      <4> QED  BY <1>2, <2>3, <2>5, <4>1, SubSeqProperties
    <3>7. Stripped(m) # <<>>  BY <3>6
    <3> QED  BY <3>5, <3>7
  <2>6. k = 1 \/ k # 1  OBVIOUS
  <2> QED  BY <2>4, <2>5, <2>6
<1> QED  BY <1>6, <1>7

-----------------------------------------------------------------------------
(* The search.                                                             *)

Wanted == Stripped(mount)
HasName(c, i) == registry[c][i].name = Wanted
NoneOf(c, n) == \A i \in 1..n : ~HasName(c, i)

\* Phases in which a service is looked at, and those after it was found.
Looking == {"key", "search", "name"}
Querying == {"queryScsi", "queryMmc", "access", "structure", "task", "descriptor",
             "buffers", "timeout", "execute"}

\* The classes and services passed over so far.
PassedOver ==
  /\ class = 2 => NoneOf(1, Len(registry[1]))
  /\ phase = "next" => NoneOf(class, at)
  /\ phase \in Looking => NoneOf(class, at - 1)

\* The nodes tried so far.
Offerless(h) == ~Offers(h, "scsi") /\ ~Offers(h, "mmc")
TriedBelow ==
  /\ phase \in Climbing => \A h \in 0..(hop - 1) : Offerless(h)
  /\ phase \in Climbing \ {"walked"} => hop <= MaxHops
  /\ phase = "walked" => hop = MaxHops + 1
  /\ phase \in {"mmc", "climb"} => ~Offers(hop, "scsi")
  /\ phase = "climb" => ~Offers(hop, "mmc")

\* An answer, and why there is none.
Answered ==
  /\ phase # "done" => result.kind = ""
  /\ result.kind = "volume" =>
       /\ at \in 1..Len(Services) /\ HasName(class, at)
       /\ result.via = "scsi" => result.whole
  /\ result.kind \in {"volume", "nodrive"} => Wanted # <<>>
  /\ phase = "done" /\ ~faulted /\ result.kind # "volume" =>
       \/ result.kind = "nodrive" /\ \A c \in {1, 2} : NoneOf(c, Len(registry[c]))
       \/ result.kind = "name" /\ Wanted = <<>>
       \/ result.kind = "noclient" /\ \A h \in 0..MaxHops : Offerless(h)

Sought ==
  /\ mount \in Mounts /\ registry \in Registries
  /\ at \in 0..Len(Services)
  /\ phase \in {"mount", "load", "match"} => at = 0
  /\ phase \in {"mount", "load"} => class = 1
  /\ phase \notin {"mount", "done"} => Wanted # <<>>
  /\ phase \in Looking => at > 0
  /\ phase \in {"uuid"} \union Climbing \union Querying => at > 0 /\ HasName(class, at)
  /\ ~faulted => PassedOver
  /\ ~faulted => TriedBelow
  /\ Answered


\* What a step can leave as it is.
Anew == <<mount, registry, class, at, hop, result>>

\* On to the next call for the same service.
LEMMA OnSeeks ==
  ASSUME Owned, Sought, UNCHANGED Anew, ~faulted' => ~faulted,
         \/ phase = "mount" /\ phase' = "load" /\ Wanted # <<>>
         \/ phase = "load" /\ phase' = "match"
         \/ phase = "match" /\ phase' = "next"
         \/ phase = "key" /\ phase' = "search"
         \/ phase = "search" /\ phase' = "name"
         \/ phase = "name" /\ phase' = "uuid" /\ HasName(class, at)
         \/ phase = "uuid" /\ phase' = "uuid"
         \/ phase = "uuid" /\ phase' = "scsi"
         \/ phase = "scsi" /\ phase' = "mmc" /\ (~faulted' => ~Offers(hop, "scsi"))
         \/ phase = "mmc" /\ phase' = "climb" /\ (~faulted' => ~Offers(hop, "mmc"))
         \/ phase \in {"scsi", "mmc"} \union Querying /\ phase' \in Querying
  PROVE  Sought'
<1>1. /\ mount' = mount /\ registry' = registry /\ class' = class /\ at' = at /\ hop' = hop
      /\ result' = result
  BY DEF Anew
<1>2. hop \in Nat /\ (phase = "uuid" => hop = 0) /\ MaxHops \in Nat
  BY RegistriesAssumption DEF Owned, ParentsByPhase, Searching
<1>3. at \in Nat  BY DEF Owned, ParentsByPhase
<1>4. /\ mount \in Mounts /\ registry \in Registries /\ at \in 0..Len(Services)
      /\ phase \in {"mount", "load", "match"} => at = 0
      /\ phase \in {"mount", "load"} => class = 1
      /\ phase \notin {"mount", "done"} => Wanted # <<>>
      /\ phase \in Looking => at > 0
      /\ phase \in {"uuid"} \union Climbing \union Querying => at > 0 /\ HasName(class, at)
      /\ result.kind = ""
  BY DEF Sought, Answered, Querying
<1>5. ~faulted => PassedOver /\ TriedBelow  BY DEF Sought
<1>6. PassedOver' <=>
        /\ class = 2 => NoneOf(1, Len(registry[1]))
        /\ phase' = "next" => NoneOf(class, at)
        /\ phase' \in Looking => NoneOf(class, at - 1)
  BY <1>1 DEF PassedOver, NoneOf, HasName, Wanted, Looking
<1>7. TriedBelow' <=>
        /\ phase' \in Climbing => \A h \in 0..(hop - 1) : Offerless(h)
        /\ phase' \in Climbing \ {"walked"} => hop <= MaxHops
        /\ phase' = "walked" => hop = MaxHops + 1
        /\ phase' \in {"mmc", "climb"} => ~Offers(hop, "scsi")
        /\ phase' = "climb" => ~Offers(hop, "mmc")
  BY <1>1 DEF TriedBelow, Offerless, Offers, Service, Services, Climbing
<1>8. /\ mount' \in Mounts /\ registry' \in Registries
      /\ (at \in 0..Len(Services))'
      /\ (Wanted # <<>>)' <=> Wanted # <<>>
      /\ HasName(class, at)' <=> HasName(class, at)
  BY <1>1, <1>4 DEF Services, Wanted, HasName
<1>9. Answered'
  <2>1. phase' # "done" /\ result'.kind = "" BY <1>1, <1>4 DEF Querying
  <2> QED  BY <2>1 DEF Answered
<1>10. ~faulted' => PassedOver'
  <2>1. phase' = "next" => NoneOf(class, at)
    <3>1. phase' = "next" => at = 0  BY <1>4 DEF Querying
    <3>2. at = 0 => NoneOf(class, at)  BY DEF NoneOf
    <3> QED  BY <3>1, <3>2
  <2>2. phase' \in Looking => phase \in Looking  BY DEF Looking, Querying
  <2> QED  BY <1>5, <1>6, <2>1, <2>2 DEF PassedOver
<1>11. ~faulted' => TriedBelow'
  BY <1>2, <1>5, <1>7 DEF TriedBelow, Climbing, Querying
<1>12. /\ phase' \in {"mount", "load", "match"} => at' = 0
       /\ phase' \in {"mount", "load"} => class' = 1
       /\ phase' \notin {"mount", "done"} => Wanted' # <<>>
       /\ phase' \in Looking => at' > 0
       /\ phase' \in {"uuid"} \union Climbing \union Querying => at' > 0 /\ HasName(class, at)'
  BY <1>1, <1>4, <1>8 DEF Looking, Querying, Climbing
<1> QED  BY <1>8, <1>9, <1>10, <1>11, <1>12 DEF Sought

\* The read returns.
LEMMA ReturnSeeks ==
  ASSUME Owned, Sought, UNCHANGED <<mount, registry, class, at, hop>>, phase' = "done",
         ~faulted' => ~faulted,
         \/ faulted' = TRUE /\ result'.kind \notin {"volume", "nodrive"}
         \/ /\ result'.kind = "volume" /\ phase \in Querying
            /\ result'.via = "scsi" => result'.whole
         \/ /\ result'.kind = "nodrive" /\ phase \in {"match", "next"}
            /\ ~faulted' => \A c \in {1, 2} : NoneOf(c, Len(registry[c]))
         \/ result'.kind = "name" /\ Wanted = <<>>
         \/ result'.kind = "noclient" /\ (~faulted' => \A h \in 0..MaxHops : Offerless(h))
  PROVE  Sought'
<1>1. at \in Nat  BY DEF Owned, ParentsByPhase
<1>2. /\ mount \in Mounts /\ registry \in Registries /\ at \in 0..Len(Services)
      /\ phase \in Querying => at > 0 /\ HasName(class, at)
      /\ phase \in Querying \union {"match", "next"} => Wanted # <<>>
      /\ ~faulted => (class = 2 => NoneOf(1, Len(registry[1])))
  BY DEF Sought, PassedOver, Querying
<1>3. Answered' <=>
        /\ result'.kind = "volume" =>
             /\ at \in 1..Len(Services) /\ HasName(class, at)
             /\ result'.via = "scsi" => result'.whole
        /\ result'.kind \in {"volume", "nodrive"} => Wanted # <<>>
        /\ ~faulted' /\ result'.kind # "volume" =>
             \/ result'.kind = "nodrive" /\ \A c \in {1, 2} : NoneOf(c, Len(registry[c]))
             \/ result'.kind = "name" /\ Wanted = <<>>
             \/ result'.kind = "noclient" /\ \A h \in 0..MaxHops : Offerless(h)
  BY DEF Answered, NoneOf, HasName, Wanted, Offerless, Offers, Service, Services
<1>4. Answered'
  <2>1. phase \in Querying => at \in 1..Len(Services)  BY <1>1, <1>2
  <2> QED  BY <1>2, <1>3, <2>1
<1>5. PassedOver' <=> (class = 2 => NoneOf(1, Len(registry[1])))
  BY DEF PassedOver, NoneOf, HasName, Wanted, Looking
<1>6. TriedBelow'  BY DEF TriedBelow, Climbing
<1>7. /\ mount' \in Mounts /\ registry' \in Registries /\ (at \in 0..Len(Services))'
  BY <1>2 DEF Services
<1> QED  BY <1>2, <1>4, <1>5, <1>6, <1>7 DEF Sought, Looking, Querying, Climbing

\* Nothing of the search changes.
LEMMA StillSought ==
  ASSUME Sought, UNCHANGED <<mount, registry, phase, class, at, hop, result, faulted>>
  PROVE  Sought'
<1>1. PassedOver' <=> PassedOver  BY DEF PassedOver, NoneOf, HasName, Wanted
<1>2. TriedBelow' <=> TriedBelow  BY DEF TriedBelow, Offerless, Offers, Service, Services
<1>3. Answered' <=> Answered
  BY DEF Answered, NoneOf, HasName, Wanted, Offerless, Offers, Service, Services
<1>4. /\ (at \in 0..Len(Services))' <=> at \in 0..Len(Services)
      /\ (Wanted # <<>>)' <=> Wanted # <<>>
      /\ HasName(class, at)' <=> HasName(class, at)
  BY DEF Services, Wanted, HasName
<1> QED  BY <1>1, <1>2, <1>3, <1>4 DEF Sought

\* A call fails that the whole read depends on.
LEMMA FailSeeks ==
  ASSUME Owned, Sought, NEW uses, NEW gives, Call(uses, {}, gives), NEW k,
         k \notin {"volume", "nodrive"}, Return(Error(k)), Fault, UNCHANGED <<class, at, hop>>
  PROVE  Sought'
<1>1. mount' = mount /\ registry' = registry /\ phase' = "done" /\ faulted' = TRUE
  BY DEF Call, Return, Fault
<1>2. result'.kind = k  BY DEF Return, Error
<1> QED  BY <1>1, <1>2, ReturnSeeks

\* A call that yields nothing succeeds or fails.
LEMMA SucceedSeeks ==
  ASSUME Owned, Sought, NEW uses, NEW next, Succeed(uses, next),
         \/ phase = "mount" /\ next = "load" /\ Wanted # <<>>
         \/ phase = "load" /\ next = "match"
         \/ phase \in Querying /\ next \in Querying
  PROVE  Sought'
<1>1. Call(uses, {}, {}) /\ UNCHANGED search  BY DEF Succeed
<1>2. CASE Go(guards, next) /\ NoFault
  <2>1. UNCHANGED Anew /\ faulted' = faulted /\ phase' = next
    BY <1>1, <1>2 DEF Anew, Call, Go, Leave, NoFault, search
  <2> QED  BY <2>1, OnSeeks
<1>3. CASE Return(Error("call")) /\ Fault
  <2>1. UNCHANGED <<class, at, hop>>  BY <1>1 DEF search
  <2> QED  BY <1>1, <1>3, <2>1, FailSeeks
<1> QED  BY <1>2, <1>3 DEF Succeed

\* A call that yields a handle succeeds or fails.
LEMMA ObtainSeeks ==
  ASSUME Owned, Sought, NEW uses, NEW handle, NEW next, Obtain(uses, handle, next),
         \/ phase = "match" /\ next = "next"
         \/ phase = "uuid" /\ next \in {"uuid", "scsi"}
         \/ phase \in Querying /\ next \in Querying
  PROVE  Sought'
<1>1. UNCHANGED search  BY DEF Obtain
<1>2. CASE Call(uses, {handle}, {}) /\ Go(Append(guards, handle), next) /\ NoFault
  <2>1. UNCHANGED Anew /\ faulted' = faulted /\ phase' = next
    BY <1>1, <1>2 DEF Anew, Call, Go, Leave, NoFault, search
  <2> QED  BY <2>1, OnSeeks
<1>3. CASE Call(uses, {}, {}) /\ Return(Error("call")) /\ Fault
  <2>1. UNCHANGED <<class, at, hop>>  BY <1>1 DEF search
  <2> QED  BY <1>3, <2>1, FailSeeks
<1> QED  BY <1>2, <1>3 DEF Obtain

LEMMA NameMountSeeks == Owned /\ Sought /\ NameMount => Sought'
<1> SUFFICES ASSUME Owned, Sought, NameMount  PROVE Sought'
  OBVIOUS
<1>1. CASE Stripped(mount) = <<>>
  <2>1. /\ Call({}, {}, {}) /\ Return(Error("name")) /\ faulted' = faulted
        /\ UNCHANGED <<class, at, hop>>
    BY <1>1 DEF NameMount, NoFault, search
  <2>2. mount' = mount /\ registry' = registry /\ phase' = "done" /\ result'.kind = "name"
    BY <2>1 DEF Call, Return, Error
  <2>3. Wanted = <<>>  BY <1>1 DEF Wanted
  <2> QED  BY <2>1, <2>2, <2>3, ReturnSeeks
<1>2. CASE Stripped(mount) # <<>>
  <2>1. phase = "mount" /\ Succeed({}, "load")  BY <1>2 DEF NameMount, At
  <2>2. Wanted # <<>>  BY <1>2 DEF Wanted
  <2> QED  BY <2>1, <2>2, SucceedSeeks
<1> QED  BY <1>1, <1>2

LEMMA LoadFrameworksSeeks == Owned /\ Sought /\ LoadFrameworks => Sought'
BY SucceedSeeks DEF LoadFrameworks, At

\* Nothing of this class: the other class, or no drive.
LEMMA NextClassSeeks ==
  ASSUME Owned, Sought, NEW uses, Call(uses, {}, {}), NEW dropped, NextClass(dropped),
         phase \in {"match", "next"}, ~faulted' => ~faulted,
         ~faulted' => NoneOf(class, Len(registry[class]))
  PROVE  Sought'
<1>1. mount' = mount /\ registry' = registry /\ class \in {1, 2}  BY DEF Call, Owned
<1>2. /\ mount \in Mounts /\ registry \in Registries
      /\ phase \notin {"mount", "done"} => Wanted # <<>>
      /\ result.kind = ""
      /\ ~faulted => (class = 2 => NoneOf(1, Len(registry[1])))
  BY DEF Sought, Answered, PassedOver
<1>3. CASE class = 1
  <2>1. phase' = "match" /\ result' = result /\ class' = 2 /\ at' = 0
    BY <1>3 DEF NextClass, Leave
  <2>2. Len(Services') \in Nat
    <3>1. registry[2] \in Seq([name : Seq(Int), nodes : Seq(SUBSET {"scsi", "mmc"}),
                       endless : BOOLEAN])
      BY <1>2, RegistriesAssumption
    <3>2. Services' = registry[2]  BY <1>1, <2>1 DEF Services
    <3> QED  BY <3>1, <3>2, LenProperties
  <2>3. (at \in 0..Len(Services))'  BY <2>1, <2>2
  <2>4. ~faulted' => PassedOver'
    <3>1. ~faulted' => NoneOf(1, Len(registry[1]))'
      BY <1>1, <1>3 DEF NoneOf, HasName, Wanted
    <3> QED  BY <2>1, <3>1 DEF PassedOver, Looking
  <2>5. TriedBelow'  BY <2>1 DEF TriedBelow, Climbing
  <2>6. Answered'  BY <1>2, <2>1 DEF Answered
  <2>7. Wanted' # <<>>  BY <1>1, <1>2 DEF Wanted
  <2> QED
    BY <1>1, <1>2, <2>1, <2>3, <2>4, <2>5, <2>6, <2>7 DEF Sought, Looking, Climbing, Querying
<1>4. CASE class = 2
  <2>1. Return(Error("nodrive")) /\ UNCHANGED <<class, at, hop>>
    BY <1>4 DEF NextClass, search
  <2>2. phase' = "done" /\ result'.kind = "nodrive"  BY <2>1 DEF Return, Error
  <2>3. ~faulted' => \A c \in {1, 2} : NoneOf(c, Len(registry[c]))  BY <1>2, <1>4
  <2> QED  BY <1>1, <2>1, <2>2, <2>3, ReturnSeeks
<1> QED  BY <1>1, <1>3, <1>4

LEMMA MatchClassSeeks == Owned /\ Sought /\ MatchClass => Sought'
<1> SUFFICES ASSUME Owned, Sought, MatchClass  PROVE Sought'
  OBVIOUS
<1>1. phase = "match"  BY DEF MatchClass, At
<1>2. CASE Obtain({}, Iterator, "next")  BY <1>1, <1>2, ObtainSeeks
<1>3. CASE Call({}, {}, {}) /\ NextClass(<<>>) /\ Fault
  <2>1. faulted' = TRUE  BY <1>3 DEF Fault
  <2> QED  BY <1>1, <1>3, <2>1, NextClassSeeks
<1> QED  BY <1>2, <1>3 DEF MatchClass

\* The next service of the class is looked at.
LEMMA NextServiceSeeks == Owned /\ Sought /\ NextService => Sought'
<1> SUFFICES ASSUME Owned, Sought, NextService  PROVE Sought'
  OBVIOUS
<1>1. phase = "next"  BY DEF NextService, At
<1>2. /\ mount \in Mounts /\ registry \in Registries /\ class \in {1, 2}
      /\ at \in 0..Len(Services) /\ at \in Nat /\ Wanted # <<>> /\ result.kind = ""
      /\ ~faulted => (class = 2 => NoneOf(1, Len(registry[1]))) /\ NoneOf(class, at)
  BY <1>1 DEF Sought, Answered, PassedOver, Owned, ParentsByPhase
<1>3. Len(Services) \in Nat
  <2>1. Services \in Seq([name : Seq(Int), nodes : Seq(SUBSET {"scsi", "mmc"}),
                       endless : BOOLEAN])
    BY <1>2, RegistriesAssumption DEF Services
  <2> QED  BY <2>1, LenProperties
<1>6. at \in Nat  BY DEF Owned, ParentsByPhase
<1>4. CASE /\ at < Len(Services) /\ at' = at + 1
           /\ Call({Iterator}, {<<"service", at'>>}, {})
           /\ Go(Append(guards, <<"service", at'>>), "key")
           /\ NoFault /\ UNCHANGED <<class, hop, parents>>
  <2>1. /\ at' = at + 1 /\ phase' = "key" /\ class' = class /\ mount' = mount
        /\ registry' = registry /\ result' = result /\ faulted' = faulted
    BY <1>4 DEF Call, Go, Leave, NoFault
  <2>2. (at \in 0..Len(Services))'
    <3>1. at + 1 \in 0..Len(Services)  BY <1>3, <1>4, <1>6
    <3> QED  BY <2>1, <3>1 DEF Services
  <2>3. ~faulted' => PassedOver'
    <3>1. at' - 1 = at  BY <1>6, <2>1
    <3>2. NoneOf(class, at - 1)' <=> NoneOf(class, at)
      BY <2>1, <3>1 DEF NoneOf, HasName, Wanted
    <3>3. NoneOf(1, Len(registry[1]))' <=> NoneOf(1, Len(registry[1]))
      BY <2>1 DEF NoneOf, HasName, Wanted
    <3> QED  BY <1>2, <2>1, <3>2, <3>3 DEF PassedOver
  <2>4. TriedBelow'  BY <2>1 DEF TriedBelow, Climbing
  <2>5. Answered'  BY <1>2, <2>1 DEF Answered
  <2>6. at' > 0  BY <1>6, <2>1
  <2>7. Wanted' # <<>>  BY <1>2, <2>1 DEF Wanted
  <2> QED
    BY <1>2, <2>1, <2>2, <2>3, <2>4, <2>5, <2>6, <2>7 DEF Sought, Looking, Climbing, Querying
<1>5. CASE /\ Call({Iterator}, {}, {}) /\ NextClass(<<Iterator>>)
           /\ FaultIf(at < Len(Services))
  <2>1. ~faulted' => ~faulted /\ ~(at < Len(Services))  BY <1>5 DEF FaultIf
  <2>2. ~(at < Len(Services)) => at = Len(registry[class])
    <3>3. at \in 0..Len(Services)  BY DEF Sought
    <3>1. at <= Len(Services)  BY <1>3, <3>3
    <3>2. ~(at < Len(Services)) => at = Len(Services)  BY <1>3, <1>6, <3>1
    <3> QED  BY <3>2 DEF Services
  <2>3. ~faulted' => NoneOf(class, Len(registry[class]))  BY <1>2, <2>1, <2>2
  <2>4. Call({Iterator}, {}, {}) /\ NextClass(<<Iterator>>)  BY <1>5
  <2>5. ~faulted' => ~faulted  BY <2>1
  <2> QED  BY <1>1, <2>3, <2>4, <2>5, NextClassSeeks
<1> QED  BY <1>4, <1>5 DEF NextService

\* A service that is not the drive's is passed over.
LEMMA PassOverSeeks ==
  ASSUME Owned, Sought, NEW uses, NEW dropped, Call(uses, {}, {}), PassOver(dropped),
         UNCHANGED search, phase \in Looking,
         ~faulted' => ~faulted /\ ~HasName(class, at)
  PROVE  Sought'
<1>1. /\ phase' = "next" /\ class' = class /\ mount' = mount /\ at' = at
      /\ registry' = registry /\ result' = result
  BY DEF PassOver, Leave, Call, search
<1>2. /\ mount \in Mounts /\ registry \in Registries
      /\ at \in 0..Len(Services) /\ at \in Nat /\ Wanted # <<>> /\ result.kind = ""
      /\ ~faulted => (class = 2 => NoneOf(1, Len(registry[1]))) /\ NoneOf(class, at - 1)
  BY DEF Sought, Answered, PassedOver, Owned, ParentsByPhase, Looking
<1>3. (at \in 0..Len(Services))'  BY <1>1, <1>2 DEF Services
<1>4. ~faulted' => PassedOver'
  <2>1. NoneOf(class, at)' <=> NoneOf(class, at)  BY <1>1 DEF NoneOf, HasName, Wanted
  <2>2. NoneOf(1, Len(registry[1]))' <=> NoneOf(1, Len(registry[1]))
    BY <1>1 DEF NoneOf, HasName, Wanted
  <2>3. NoneOf(class, at - 1) /\ ~HasName(class, at) => NoneOf(class, at)
    <3>1. at \in Nat  BY DEF Owned, ParentsByPhase
    <3>2. \A i \in 1..at : i \in 1..(at - 1) \/ i = at  BY <3>1
    <3> QED  BY <3>2 DEF NoneOf
  <2> QED  BY <1>1, <1>2, <2>1, <2>2, <2>3 DEF PassedOver, Looking
<1>5. TriedBelow'  BY <1>1 DEF TriedBelow, Climbing
<1>6. Answered'  BY <1>1, <1>2 DEF Answered
<1>7. Wanted' # <<>>  BY <1>1, <1>2 DEF Wanted
<1> QED  BY <1>1, <1>2, <1>3, <1>4, <1>5, <1>6, <1>7 DEF Sought, Looking, Climbing, Querying

LEMMA MakeKeySeeks == Owned /\ Sought /\ MakeKey => Sought'
<1> SUFFICES ASSUME Owned, Sought, MakeKey  PROVE Sought'
  OBVIOUS
<1>1. phase = "key" /\ UNCHANGED search  BY DEF MakeKey, At
<1>2. CASE Call({}, {Key}, {}) /\ Go(Append(guards, Key), "search") /\ NoFault
  <2>1. UNCHANGED Anew /\ faulted' = faulted /\ phase' = "search"
    BY <1>1, <1>2 DEF Anew, Call, Go, Leave, NoFault, search
  <2> QED  BY <1>1, <2>1, OnSeeks
<1>3. CASE Call({}, {}, {}) /\ PassOver(<<ServiceHandle>>) /\ Fault
  <2>1. faulted' = TRUE /\ phase \in Looking  BY <1>1, <1>3 DEF Fault, Looking
  <2> QED  BY <1>1, <1>3, <2>1, PassOverSeeks
<1> QED  BY <1>2, <1>3 DEF MakeKey

LEMMA SearchNameSeeks == Owned /\ Sought /\ SearchName => Sought'
<1> SUFFICES ASSUME Owned, Sought, SearchName  PROVE Sought'
  OBVIOUS
<1>1. phase = "search" /\ UNCHANGED search  BY DEF SearchName, At
<1>2. CASE Call({ServiceHandle, Key}, {Value}, {}) /\ Go(Append(guards, Value), "name") /\ NoFault
  <2>1. UNCHANGED Anew /\ faulted' = faulted /\ phase' = "name"
    BY <1>1, <1>2 DEF Anew, Call, Go, Leave, NoFault, search
  <2> QED  BY <1>1, <2>1, OnSeeks
<1>3. CASE /\ Call({ServiceHandle, Key}, {}, {})
           /\ PassOver(<<Key, ServiceHandle>>) /\ FaultIf(Service.name # <<>>)
  <2>1. ~faulted' => ~faulted /\ Service.name = <<>>  BY <1>3 DEF FaultIf
  <2>2. Wanted # <<>> /\ phase \in Looking  BY <1>1 DEF Sought, Looking
  <2>3. Service.name = <<>> => ~HasName(class, at)
    BY <2>2 DEF HasName, Service, Services
  <2> QED  BY <1>1, <1>3, <2>1, <2>2, <2>3, PassOverSeeks
<1> QED  BY <1>2, <1>3 DEF SearchName

LEMMA ReadNameSeeks == Owned /\ Sought /\ ReadName => Sought'
<1> SUFFICES ASSUME Owned, Sought, ReadName  PROVE Sought'
  OBVIOUS
<1>1. phase = "name" /\ UNCHANGED search /\ Call({Value}, {}, {})  BY DEF ReadName, At
<1>2. HasName(class, at) <=> Service.name = Stripped(mount)
  BY DEF HasName, Service, Services, Wanted
<1>3. CASE Service.name = Stripped(mount) /\ Leave(Forgotten, <<ServiceHandle>>, "uuid") /\ NoFault
  <2>1. UNCHANGED Anew /\ faulted' = faulted /\ phase' = "uuid"
    BY <1>1, <1>3 DEF Anew, Call, Leave, NoFault, search
  <2> QED  BY <1>1, <1>2, <1>3, <2>1, OnSeeks
<1>4. CASE /\ PassOver(<<Value, Key, ServiceHandle>>)
           /\ FaultIf(Service.name = Stripped(mount))
  <2>1. ~faulted' => ~faulted /\ ~HasName(class, at)  BY <1>2, <1>4 DEF FaultIf
  <2>2. phase \in Looking  BY <1>1 DEF Looking
  <2> QED  BY <1>1, <1>4, <2>1, <2>2, PassOverSeeks
<1> QED  BY <1>3, <1>4 DEF ReadName

LEMMA MakeUuidSeeks == Owned /\ Sought /\ MakeUuid => Sought'
<1> SUFFICES ASSUME Owned, Sought, MakeUuid  PROVE Sought'
  OBVIOUS
<1> DEFINE made == Len(guards)
           next == IF made = Len(Uuids) THEN "scsi" ELSE "uuid"
<1>1. phase = "uuid" /\ Obtain({}, Uuids[made], next)  BY DEF MakeUuid, At
<1>2. next \in {"uuid", "scsi"}  OBVIOUS
<1> HIDE DEF next
<1> QED  BY <1>1, <1>2, ObtainSeeks

\* A client is opened, or there is none and the next is tried.
LEMMA TryClientSeeks ==
  ASSUME Owned, Sought, NEW client, NEW query, NEW otherwise,
         TryClient(client, query, otherwise), query \in Querying,
         \/ phase = "scsi" /\ client = "scsi" /\ otherwise = "mmc"
         \/ phase = "mmc" /\ client = "mmc" /\ otherwise = "climb"
  PROVE  Sought'
<1>1. UNCHANGED <<class, at, hop>>  BY DEF TryClient
<1>2. CASE /\ Call({Node(hop)} \union ToSet(Uuids), {Plugin}, parents)
           /\ Go(guards, query) /\ NoFault
  <2>1. UNCHANGED Anew /\ faulted' = faulted /\ phase' = query
    BY <1>1, <1>2 DEF Anew, Call, Go, Leave, NoFault
  <2> QED  BY <2>1, OnSeeks
<1>3. CASE /\ Call({Node(hop)} \union ToSet(Uuids), {}, {})
           /\ Go(guards, otherwise) /\ FaultIf(Offers(hop, client))
  <2>1. UNCHANGED Anew /\ phase' = otherwise
    BY <1>1, <1>3 DEF Anew, Call, Go, Leave
  <2>2. ~faulted' => ~faulted /\ ~Offers(hop, client)  BY <1>3 DEF FaultIf
  <2> QED  BY <2>1, <2>2, OnSeeks
<1> QED  BY <1>2, <1>3 DEF TryClient

LEMMA TrySeeks == Owned /\ Sought /\ (TryScsi \/ TryMmc) => Sought'
<1> SUFFICES ASSUME Owned, Sought, TryScsi \/ TryMmc  PROVE Sought'
  OBVIOUS
<1>1. CASE TryScsi
  <2>1. phase = "scsi" /\ TryClient("scsi", "queryScsi", "mmc")  BY <1>1 DEF TryScsi, At
  <2> QED  BY <2>1, TryClientSeeks DEF Querying
<1>2. CASE TryMmc
  <2>1. phase = "mmc" /\ TryClient("mmc", "queryMmc", "climb")  BY <1>2 DEF TryMmc, At
  <2> QED  BY <2>1, TryClientSeeks DEF Querying
<1> QED  BY <1>1, <1>2

\* No node within reach offers a client.
LEMMA GiveUpSeeks ==
  ASSUME Owned, Sought, NEW uses, GiveUp(uses), ~faulted' => ~faulted,
         ~faulted' => \A h \in 0..MaxHops : Offerless(h)
  PROVE  Sought'
<1>1. /\ mount' = mount /\ registry' = registry /\ UNCHANGED <<class, at, hop>>
      /\ phase' = "done" /\ result'.kind = "noclient"
  BY DEF GiveUp, Call, Return, Error
<1> QED  BY <1>1, ReturnSeeks

LEMMA ClimbSeeks == Owned /\ Sought /\ Climb => Sought'
<1> SUFFICES ASSUME Owned, Sought, Climb  PROVE Sought'
  OBVIOUS
<1>1. phase = "climb" /\ hop \in Nat /\ MaxHops \in Nat
  BY RegistriesAssumption DEF Climb, At, Owned, ParentsByPhase
<1>2. /\ mount \in Mounts /\ registry \in Registries
      /\ at \in 0..Len(Services) /\ at > 0 /\ HasName(class, at)
      /\ Wanted # <<>> /\ result.kind = "" /\ class \in {1, 2}
      /\ ~faulted => (class = 2 => NoneOf(1, Len(registry[1])))
  BY <1>1 DEF Sought, Answered, PassedOver, Owned, Climbing
<1>3. ~faulted => hop <= MaxHops /\ \A h \in 0..hop : Offerless(h)
  <2> SUFFICES ASSUME ~faulted  PROVE hop <= MaxHops /\ \A h \in 0..hop : Offerless(h)
    OBVIOUS
  <2>1. /\ \A h \in 0..(hop - 1) : Offerless(h)
        /\ hop <= MaxHops /\ Offerless(hop)
    BY <1>1 DEF Sought, TriedBelow, Climbing, Offerless
  <2>2. \A h \in 0..hop : h \in 0..(hop - 1) \/ h = hop  BY <1>1
  <2> QED  BY <2>1, <2>2
<1>4. CASE /\ Call({Node(hop)}, {<<"node", hop + 1>>}, {})
           /\ hop' = Hop(hop).hop /\ Go(guards, Hop(hop).next)
           /\ NoFault /\ UNCHANGED <<class, at>>
  <2>1. /\ hop' = hop + 1 /\ class' = class /\ mount' = mount /\ at' = at
        /\ registry' = registry /\ result' = result /\ faulted' = faulted
        /\ phase' = IF hop = MaxHops THEN "walked" ELSE "scsi"
    BY <1>4 DEF Hop, Call, Go, Leave, NoFault
  <2>2. /\ (at \in 0..Len(Services))'
        /\ HasName(class, at)' <=> HasName(class, at)
        /\ Wanted' # <<>>
    BY <1>2, <2>1 DEF Services, HasName, Wanted
  <2>3. ~faulted' => PassedOver'
    <3>1. NoneOf(1, Len(registry[1]))' <=> NoneOf(1, Len(registry[1]))
      BY <2>1 DEF NoneOf, HasName, Wanted
    <3> QED  BY <1>2, <2>1, <3>1 DEF PassedOver, Looking
  <2>4. ~faulted' => TriedBelow'
    <3> SUFFICES ASSUME ~faulted  PROVE TriedBelow'
      BY <2>1
    <3>1. hop' - 1 = hop  BY <1>1, <2>1
    <3>2. \A h : Offerless(h)' <=> Offerless(h)
      BY <2>1 DEF Offerless, Offers, Service, Services
    <3>3. \A h \in 0..(hop' - 1) : Offerless(h)'  BY <1>3, <3>1, <3>2
    <3>4. phase' = "walked" => hop' = MaxHops + 1  BY <2>1
    <3>5. phase' # "walked" => hop' <= MaxHops  BY <1>1, <1>3, <2>1
    <3>6. phase' \in {"walked", "scsi"} /\ MaxHops' = MaxHops  BY <2>1
    <3> QED  BY <3>3, <3>4, <3>5, <3>6 DEF TriedBelow
  <2>5. Answered'
    <3>1. phase' # "done" /\ result'.kind = ""  BY <1>2, <2>1
    <3> QED  BY <3>1 DEF Answered
  <2> QED
    BY <1>2, <2>1, <2>2, <2>3, <2>4, <2>5 DEF Sought, Looking, Climbing, Querying
<1>5. CASE /\ GiveUp({Node(hop)})
           /\ FaultIf(hop + 2 \in DOMAIN Service.nodes \/ Service.endless)
  <2>1. ~faulted' => ~faulted /\ hop + 2 \notin DOMAIN Service.nodes  BY <1>5 DEF FaultIf
  <2>2. Service.nodes \in Seq(SUBSET {"scsi", "mmc"})
    <3>1. registry[class] \in Seq([name : Seq(Int), nodes : Seq(SUBSET {"scsi", "mmc"}),
                       endless : BOOLEAN])
      BY <1>2, RegistriesAssumption
    <3>2. at \in 1..Len(registry[class])
      <4>1. Len(registry[class]) \in Nat  BY <3>1, LenProperties
      <4>2. at \in 0..Len(registry[class])  BY DEF Sought, Services
      <4>3. at > 0  BY <1>2
      <4> QED  BY <4>1, <4>2, <4>3
    <3>3. registry[class][at] \in [name : Seq(Int), nodes : Seq(SUBSET {"scsi", "mmc"}),
                       endless : BOOLEAN]
      BY <3>1, <3>2, ElementOfSeq
    <3> QED  BY <3>3 DEF Service, Services
  <2>3. hop + 2 \notin DOMAIN Service.nodes => \A h \in Nat : h > hop => Offerless(h)
    <3> DEFINE nodes == Service.nodes
    <3>1. DOMAIN nodes = 1..Len(nodes) /\ Len(nodes) \in Nat  BY <2>2, LenProperties
    <3> HIDE DEF nodes
    <3>2. ASSUME hop + 2 \notin DOMAIN nodes, NEW h \in Nat, h > hop
          PROVE  h + 1 \notin DOMAIN nodes
      BY <1>1, <3>1, <3>2
    <3> QED  BY <3>2 DEF nodes, Offerless, Offers
  <2>4. ~faulted' => \A h \in 0..MaxHops : Offerless(h)
    <3> SUFFICES ASSUME ~faulted', NEW h \in 0..MaxHops  PROVE Offerless(h)
      OBVIOUS
    <3>1. h \in Nat /\ (h > hop \/ h \in 0..hop)  BY <1>1
    <3> QED  BY <1>3, <2>1, <2>3, <3>1
  <2> QED  BY <1>5, <2>1, <2>4, GiveUpSeeks
<1> QED  BY <1>4, <1>5 DEF Climb

\* The plug-in gives no interface.
LEMMA NoInterfaceSeeks ==
  ASSUME Owned, Sought, NoInterface, UNCHANGED search
  PROVE  Sought'
<1>1. UNCHANGED <<class, at, hop>>  BY DEF search
<1> QED  BY <1>1, FailSeeks DEF NoInterface

LEMMA QueryScsiSeeks == Owned /\ Sought /\ QueryScsi => Sought'
<1> SUFFICES ASSUME Owned, Sought, QueryScsi  PROVE Sought'
  OBVIOUS
<1>1. phase = "queryScsi" /\ UNCHANGED search  BY DEF QueryScsi, At
<1>2. CASE /\ Call({Plugin}, {Interface}, {})
           /\ Go(guards \o <<Plugin, Interface>>, "access") /\ NoFault
  <2>1. UNCHANGED Anew /\ faulted' = faulted /\ phase' = "access"
    BY <1>1, <1>2 DEF Anew, Call, Go, Leave, NoFault, search
  <2> QED  BY <1>1, <2>1, OnSeeks DEF Querying
<1>3. CASE NoInterface  BY <1>1, <1>3, NoInterfaceSeeks
<1> QED  BY <1>2, <1>3 DEF QueryScsi

LEMMA QueryMmcSeeks == Owned /\ Sought /\ QueryMmc => Sought'
<1> SUFFICES ASSUME Owned, Sought, QueryMmc  PROVE Sought'
  OBVIOUS
<1>1. phase = "queryMmc" /\ UNCHANGED search  BY DEF QueryMmc, At
<1>2. CASE /\ Call({Plugin}, {Interface}, {})
           /\ Opened(<<Plugin, Interface>>, "structure") /\ NoFault
  <2>1. UNCHANGED Anew /\ faulted' = faulted /\ phase' = "structure"
    BY <1>1, <1>2 DEF Anew, Call, Opened, Leave, NoFault, search
  <2> QED  BY <1>1, <2>1, OnSeeks DEF Querying
<1>3. CASE NoInterface  BY <1>1, <1>3, NoInterfaceSeeks
<1> QED  BY <1>2, <1>3 DEF QueryMmc

LEMMA ObtainAccessSeeks == Owned /\ Sought /\ ObtainAccess => Sought'
<1> SUFFICES ASSUME Owned, Sought, ObtainAccess  PROVE Sought'
  OBVIOUS
<1>1. phase = "access" /\ UNCHANGED search  BY DEF ObtainAccess, At
<1>2. CASE /\ Call({Interface}, {Access}, {})
           /\ Opened(<<Plugin, Interface, Access>>, "task") /\ NoFault
  <2>1. UNCHANGED Anew /\ faulted' = faulted /\ phase' = "task"
    BY <1>1, <1>2 DEF Anew, Call, Opened, Leave, NoFault, search
  <2> QED  BY <1>1, <2>1, OnSeeks DEF Querying
<1>3. CASE Call({Interface}, {}, {}) /\ Return(Error("call")) /\ Fault
  <2>1. UNCHANGED <<class, at, hop>>  BY <1>1 DEF search
  <2> QED  BY <1>3, <2>1, FailSeeks
<1> QED  BY <1>2, <1>3 DEF ObtainAccess

LEMMA CreateTaskSeeks == Owned /\ Sought /\ CreateTask => Sought'
BY ObtainSeeks DEF CreateTask, At, Querying

LEMMA SetUpSeeks == Owned /\ Sought /\ SetUp => Sought'
<1> SUFFICES ASSUME Owned, Sought, SetUp  PROVE Sought'
  OBVIOUS
<1>1. CASE At("descriptor") /\ Succeed({Task}, "buffers")
  BY <1>1, SucceedSeeks DEF At, Querying
<1>2. CASE At("buffers") /\ Succeed({Task}, "timeout")
  BY <1>2, SucceedSeeks DEF At, Querying
<1>3. CASE At("timeout") /\ Succeed({Task}, "execute")
  BY <1>3, SucceedSeeks DEF At, Querying
<1> QED  BY <1>1, <1>2, <1>3 DEF SetUp

\* The drive answers, or the call fails.
LEMMA AnswerSeeks ==
  ASSUME Owned, Sought, NEW uses, NEW client, NEW answer \in Answers, NEW accepted \in BOOLEAN,
         Call(uses, {}, {}), UNCHANGED search, phase \in Querying,
         Return(IF accepted THEN Volume(client, answer) ELSE Error("answer")),
         FaultIf(~accepted), accepted /\ client = "scsi" => answer.whole
  PROVE  Sought'
<1>1. /\ mount' = mount /\ registry' = registry /\ UNCHANGED <<class, at, hop>>
      /\ phase' = "done"
  BY DEF Call, Return, search
<1>2. CASE accepted
  <2>1. result' = Volume(client, answer)  BY <1>2 DEF Return
  <2>3. ~faulted' => ~faulted  BY <1>2 DEF FaultIf
  <2>2. /\ result'.kind = "volume"
        /\ result'.via = "scsi" => result'.whole
    BY <1>2, <2>1 DEF Volume
  <2> QED  BY <1>1, <2>2, <2>3, ReturnSeeks
<1>3. CASE ~accepted
  <2>1. result'.kind = "answer" /\ faulted' = TRUE  BY <1>3 DEF Return, FaultIf, Error
  <2> QED  BY <1>1, <2>1, ReturnSeeks
<1> QED  BY <1>2, <1>3

LEMMA QuerySeeks == Owned /\ Sought /\ (ExecuteTask \/ ReadDiscStructure) => Sought'
<1> SUFFICES ASSUME Owned, Sought, ExecuteTask \/ ReadDiscStructure  PROVE Sought'
  OBVIOUS
<1>1. PICK uses : Call(uses, {}, {})
  BY DEF ExecuteTask, ReadDiscStructure, Query
<1>2. UNCHANGED search /\ phase \in Querying
  BY DEF ExecuteTask, ReadDiscStructure, Query, At, Querying
<1>3. CASE Return(Error("call")) /\ Fault
  <2>1. UNCHANGED <<class, at, hop>>  BY <1>2 DEF search
  <2> QED  BY <1>1, <1>3, <2>1, FailSeeks
<1>4. CASE \E answer \in Answers :
             LET accepted == answer.good /\ answer.whole /\ answer.claimed
             IN  /\ Return(IF accepted THEN Volume("scsi", answer) ELSE Error("answer"))
                 /\ FaultIf(~accepted)
  <2>1. PICK answer \in Answers :
          LET accepted == answer.good /\ answer.whole /\ answer.claimed
          IN  /\ Return(IF accepted THEN Volume("scsi", answer) ELSE Error("answer"))
              /\ FaultIf(~accepted)
    BY <1>4
  <2>2. (answer.good /\ answer.whole /\ answer.claimed) \in BOOLEAN  BY DEF Answers
  <2> QED  BY <1>1, <1>2, <2>1, <2>2, AnswerSeeks
<1>5. CASE \E answer \in Answers :
             LET accepted == answer.good /\ answer.claimed
             IN  /\ Return(IF accepted THEN Volume("mmc", answer) ELSE Error("answer"))
                 /\ FaultIf(~accepted)
  <2>1. PICK answer \in Answers :
          LET accepted == answer.good /\ answer.claimed
          IN  /\ Return(IF accepted THEN Volume("mmc", answer) ELSE Error("answer"))
              /\ FaultIf(~accepted)
    BY <1>5
  <2>2. (answer.good /\ answer.claimed) \in BOOLEAN  BY DEF Answers
  <2> QED  BY <1>1, <1>2, <2>1, <2>2, AnswerSeeks
<1> QED  BY <1>3, <1>4, <1>5 DEF ExecuteTask, ReadDiscStructure, Query

LEMMA SoughtInit == Init => Sought
<1> SUFFICES ASSUME Init  PROVE Sought
  OBVIOUS
<1>1. /\ mount \in Mounts /\ registry \in Registries /\ phase = "mount" /\ class = 1
      /\ at = 0 /\ hop = 0 /\ result.kind = ""
  BY DEF Init, Error
<1>2. Len(Services) \in Nat
  <2>1. Services \in Seq([name : Seq(Int), nodes : Seq(SUBSET {"scsi", "mmc"}),
                       endless : BOOLEAN])
    BY <1>1, RegistriesAssumption DEF Services
  <2> QED  BY <2>1, LenProperties
<1>3. at \in 0..Len(Services)
  <2>1. at = 0  BY <1>1
  <2> QED  BY <1>2, <2>1
<1>4. PassedOver /\ TriedBelow /\ Answered
  <2>1. PassedOver
    <3>1. class = 1  BY <1>1
    <3>2. class # 2  BY <3>1
    <3>3. phase # "next" /\ phase \notin Looking  BY <1>1 DEF Looking
    <3> QED  BY <3>2, <3>3 DEF PassedOver
  <2>2. TriedBelow  BY <1>1 DEF TriedBelow, Climbing
  <2>3. phase # "done" /\ result.kind = ""  BY <1>1
  <2>4. Answered  BY <2>3 DEF Answered
  <2> QED  BY <2>1, <2>2, <2>4
<1> QED  BY <1>1, <1>3, <1>4 DEF Sought, Looking, Climbing, Querying

LEMMA SoughtNext == Owned /\ Sought /\ [Next]_vars => Sought'
<1> SUFFICES ASSUME Owned, Sought, [Next]_vars  PROVE Sought'
  OBVIOUS
<1>1. CASE NameMount \/ LoadFrameworks \/ MatchClass \/ NextService
  BY <1>1, NameMountSeeks, LoadFrameworksSeeks, MatchClassSeeks, NextServiceSeeks
<1>2. CASE MakeKey \/ SearchName \/ ReadName
  BY <1>2, MakeKeySeeks, SearchNameSeeks, ReadNameSeeks
<1>3. CASE MakeUuid \/ TryScsi \/ TryMmc \/ Climb
  BY <1>3, MakeUuidSeeks, TrySeeks, ClimbSeeks
<1>4. CASE Walked
  <2>1. phase = "walked" /\ GiveUp({}) /\ faulted' = faulted  BY <1>4 DEF Walked, At, NoFault
  <2>2. hop \in Nat /\ MaxHops \in Nat  BY RegistriesAssumption DEF Owned, ParentsByPhase
  <2>3. ASSUME ~faulted, NEW h \in 0..MaxHops  PROVE Offerless(h)
    <3>1. hop = MaxHops + 1 /\ \A i \in 0..(hop - 1) : Offerless(i)
      BY <2>1, <2>3 DEF Sought, TriedBelow, Climbing
    <3>2. h \in 0..(hop - 1)  BY <2>2, <3>1
    <3> QED  BY <3>1, <3>2
  <2> QED  BY <2>1, <2>3, GiveUpSeeks
<1>5. CASE QueryScsi \/ QueryMmc \/ ObtainAccess
  BY <1>5, QueryScsiSeeks, QueryMmcSeeks, ObtainAccessSeeks
<1>6. CASE CreateTask \/ SetUp \/ ExecuteTask \/ ReadDiscStructure
  BY <1>6, CreateTaskSeeks, SetUpSeeks, QuerySeeks
<1>7. CASE DropGuard
  BY <1>7, StillSought DEF DropGuard, search
<1>8. CASE UNCHANGED vars
  BY <1>8, StillSought DEF vars, search
<1> QED  BY <1>1, <1>2, <1>3, <1>4, <1>5, <1>6, <1>7, <1>8 DEF Next

\* The invariant says what the search promises.
LEMMA SoughtFinds == Owned /\ Sought => VolumeIdOfDisc
<1> SUFFICES ASSUME Owned, Sought  PROVE VolumeIdOfDisc
  OBVIOUS
<1>1. mount \in Mounts /\ registry \in Registries  BY DEF Sought
<1>2. /\ Wanted # <<>> => Wanted = WholeDisk(mount)
      /\ Wanted = <<>> => mount[1] # Disk
  BY <1>1, RegistriesAssumption, StrippedIsDisk DEF Wanted
<1>3. ASSUME NEW c \in {1, 2}
      PROVE  DOMAIN registry[c] = 1..Len(registry[c])
  BY <1>1, RegistriesAssumption, LenProperties
<1>4. result.kind = "volume" => IsDrive(class, at) /\ (result.via = "scsi" => result.whole)
  <2> SUFFICES ASSUME result.kind = "volume"
               PROVE  IsDrive(class, at) /\ (result.via = "scsi" => result.whole)
    OBVIOUS
  <2>1. /\ at \in 1..Len(Services) /\ HasName(class, at) /\ Wanted # <<>>
        /\ result.via = "scsi" => result.whole
    BY DEF Sought, Answered
  <2>2. class \in {1, 2}  BY DEF Owned
  <2> QED  BY <1>2, <1>3, <2>1, <2>2 DEF IsDrive, HasName, Services
<1>5. ASSUME Done, ~faulted, result.kind # "volume"
      PROVE  \/ result.kind = "nodrive" /\ NoDrive
             \/ result.kind = "name" /\ mount[1] # Disk
             \/ /\ result.kind = "noclient"
                /\ \A h \in 0..MaxHops : ~Offers(h, "scsi") /\ ~Offers(h, "mmc")
  <2>1. /\ \/ result.kind = "nodrive" /\ \A c \in {1, 2} : NoneOf(c, Len(registry[c]))
           \/ result.kind = "name" /\ Wanted = <<>>
           \/ result.kind = "noclient" /\ \A h \in 0..MaxHops : Offerless(h)
        /\ result.kind = "nodrive" => Wanted # <<>>
    BY <1>5 DEF Sought, Answered, Done
  <2>2. ASSUME result.kind = "nodrive", \A c \in {1, 2} : NoneOf(c, Len(registry[c]))
        PROVE  NoDrive
    BY <1>2, <1>3, <2>1, <2>2 DEF NoDrive, IsDrive, NoneOf, HasName
  <2> QED  BY <1>2, <2>1, <2>2 DEF Offerless
<1> QED  BY <1>4, <1>5 DEF VolumeIdOfDisc

\* The Volume Identifier is that of the drive that holds the mounted disc, and the
\* search gives up only when a call failed, when there is no such drive, or when
\* no node within reach offers a user client (read_volume_id, find_optical_service,
\* open_optical_device).
THEOREM VolumeIdIsOfDisc == Spec => []VolumeIdOfDisc
<1>1. Init => Owned /\ Sought  BY OwnedInit, SoughtInit
<1>2. Owned /\ Sought /\ [Next]_vars => (Owned /\ Sought)'  BY OwnedNext, SoughtNext
<1> QED  BY <1>1, <1>2, SoughtFinds, PTL DEF Spec
=============================================================================

------------------------------- MODULE MCMpls -------------------------------
(***************************************************************************)
(* An authoring tool adds PlayItems, SubPaths and marks, and writes the    *)
(* PlayList.  The file is then cut short, or one of its cells is changed.  *)
(***************************************************************************)
EXTENDS Disc
LOCAL INSTANCE SequencesExt

CONSTANTS
    MaxItems,       \* PlayItems
    ListValues      \* what a cell of a PlayList may be changed to

VARIABLES
    list,           \* the PlayList as it was authored
    file,           \* the cells of its file
    fate            \* Authored, Cut, or the cell that was changed

listVars == <<list, file, fate>>

Authored == 0
Cut == -1

Item(clip, count, angles, streams) ==
    [clip |-> clip, stc |-> 1, cc |-> 5, inTime |-> 10, outTime |-> 40, flags |-> 7,
     count |-> count, angleFlags |-> IF count > 1 THEN 3 ELSE 0, angles |-> angles,
     streams |-> streams]
\* A video, an audio or a text code, and for one class a code of no name.
Stream(class, extra) ==
    LET code == CASE class = 6 -> 85 [] IsVideo(class) -> 27 [] IsText(class) -> 144 [] OTHER -> 129
    IN
    [class |-> class, pid |-> 20 + class, coding |-> CodingOf(code),
     format |-> IF IsText(class) THEN 0 ELSE 97, extra |-> extra]

\* One clip with a stream of some classes; three angles, of which the tool gave
\* one alternate; no streams.
AnyItem ==
    {Item(31, 1, <<>>, <<Stream(1, 3), Stream(2, 50), Stream(2, 51), Stream(3, 52)>>),
     Item(32, 3, <<[clip |-> 33, stc |-> 2]>>, <<Stream(1, 3), Stream(6, 2), Stream(7, 53)>>),
     Item(34, 1, <<>>, <<>>)}

Sub(clip, clips) ==
    [clip |-> clip, stc |-> 0, cc |-> 1, inTime |-> 5, outTime |-> 9, sync |-> 1, anchor |-> 12,
     clips |-> clips]
AnyPath ==
    {[type |-> 5, repeat |-> TRUE, items |-> <<Sub(41, <<>>), Sub(42, <<[clip |-> 43, stc |-> 1]>>)>>]}
AnyMark == {[type |-> 1, item |-> 0, time |-> 15, pid |-> 21, duration |-> 0]}

ListInit ==
    /\ list = [app |-> [type |-> 1, count |-> 0, uoMask |-> 9, flags |-> 5],
               items |-> <<>>, paths |-> <<>>, marks |-> <<>>]
    /\ file = EncodedList(list) /\ fate = Authored

Author(new) ==
    /\ fate = Authored /\ list' = new /\ file' = EncodedList(new)
    /\ UNCHANGED fate
AddItem ==
    /\ Len(list.items) < MaxItems /\ list.paths = <<>> /\ list.marks = <<>>
    /\ \E i \in AnyItem \ ToSet(list.items) : Author([list EXCEPT !.items = Append(@, i)])
AddPath ==
    /\ list.paths = <<>> /\ list.marks = <<>>
    /\ \E p \in AnyPath : Author([list EXCEPT !.paths = Append(@, p)])
AddMark ==
    /\ list.marks = <<>>
    /\ \E m \in AnyMark : Author([list EXCEPT !.marks = Append(@, m)])

Full ==
    /\ Len(list.items) = MaxItems /\ list.paths # <<>> /\ list.marks # <<>>
    /\ fate = Authored

CutList ==
    /\ Full
    /\ \E n \in 0..(Len(file) - 1) : file' = SubSeq(file, 1, n)
    /\ fate' = Cut /\ UNCHANGED list
DamageList ==
    /\ Full
    /\ \E c \in DOMAIN file : \E v \in ListValues \ {file[c]} :
         file' = [file EXCEPT ![c] = v] /\ fate' = c
    /\ UNCHANGED list

ListNext == AddItem \/ AddPath \/ AddMark \/ CutList \/ DamageList

-----------------------------------------------------------------------------

\* Alternate angles the tool did not give are written as zeros.
Filled(item) ==
    [item EXCEPT !.angles =
       [k \in 1..(item.count - 1) |->
          IF k \in DOMAIN @ THEN @[k] ELSE [clip |-> 0, stc |-> 0]]]
Written == [list EXCEPT !.items = [k \in DOMAIN @ |-> Filled(@[k])]]

\* A PlayList reads back as it was written.  Cut short it is refused, or it is
\* the same PlayList without its marks, cut where they begin
\* (PlayListMpls::encode, parse).
ListReadsBack ==
    /\ fate = Authored => ParsedList(file) = Written
    /\ fate = Cut =>
         ParsedList(file) \in {Refused} \union
           (IF file # <<>> /\ Len(file) = At(EncodedList(list), 12)
              THEN {[Written EXCEPT !.marks = <<>>]} ELSE {})

\* The cells of each PlayItem and of each SubPath, without those of its length.
ItemsFrom == At(EncodedList(list), 8) + 10
Sizes == [k \in DOMAIN list.items |-> Len(EncodedItem(list.items[k]))]
PathSizes == [k \in DOMAIN list.paths |-> Len(EncodedPath(list.paths[k]))]
Before(sizes, k) == Len(Flat([j \in 1..(k - 1) |-> Zeros(sizes[j])]))
Inside(from, sizes, k, skip) ==
    (from + Before(sizes, k) + skip + 1)..(from + Before(sizes, k + 1))
PathsFrom == ItemsFrom + Before(Sizes, Len(Sizes) + 1)

\* A wrong length, count or value inside a PlayItem or a SubPath changes that
\* one alone, if the file is read at all: every other PlayItem, SubPath and mark
\* is as it was written (the seeks to the end of each part in parse_play_item
\* and parse_sub_path).
DamageContained ==
    \A got \in {ParsedList(file)} :
    LET but(parts, k) == [parts EXCEPT ![k] = Refused]
        isList(parts, of) == DOMAIN parts = DOMAIN of
    IN  fate > 0 /\ got # Refused =>
          /\ \A k \in DOMAIN list.items : fate \in Inside(ItemsFrom, Sizes, k, 2) =>
               /\ isList(got.items, list.items)
               /\ but(got.items, k) = but(Written.items, k)
               /\ got.paths = list.paths /\ got.marks = list.marks
          /\ \A k \in DOMAIN list.paths : fate \in Inside(PathsFrom, PathSizes, k, 4) =>
               /\ isList(got.paths, list.paths)
               /\ but(got.paths, k) = but(list.paths, k)
               /\ got.items = Written.items /\ got.marks = list.marks
=============================================================================

------------------------------- MODULE MCPgs -------------------------------
(***************************************************************************)
(* Subtitle streams and what their author meant: every framing of up to    *)
(* five segments, every run-length text of up to four code words, and      *)
(* compositions of one or two objects.                                     *)
(***************************************************************************)
EXTENDS Pgs
LOCAL INSTANCE TLC

Segment(kind, size) ==
    [kind |-> kind, magic |-> TRUE, size |-> size, body |-> size, count |-> 0]
With(s, fields) ==
    [f \in DOMAIN s \union DOMAIN fields |-> IF f \in DOMAIN fields THEN fields[f] ELSE s[f]]

PcsOf(objects, w, h, palette, size) ==
    With(Segment("pcs", size), [objects |-> objects, w |-> w, h |-> h, palette |-> palette,
                                count |-> Len(objects)])
WdsOf(n) == With(Segment("wds", 1 + 9 * n), [windows |-> [k \in 1..n |-> k], count |-> n])
PdsOf(id, entries) == With(Segment("pds", 2 + 5 * Len(entries)), [id |-> id, entries |-> entries])
OdsOf(id, flag, w, h, declared, data) ==
    With(Segment("ods", Len(data) + (IF flag \in {128, 192} THEN 11 ELSE 7)),
         [id |-> id, flag |-> flag, w |-> w, h |-> h, declared |-> declared, data |-> data])
End == Segment("end", 0)
Other == Segment("other", 3)

Plain(id, x, y) ==
    [object |-> id, x |-> x, y |-> y, flag |-> 0, crop |-> [x |-> 1, y |-> 0, w |-> 1, h |-> 1]]
Crop(id, x, y, cx, cy, w, h) ==
    [object |-> id, x |-> x, y |-> y, flag |-> 64, crop |-> [x |-> cx, y |-> cy, w |-> w, h |-> h]]

\* What the author gives Segment::encode: no sizes, no magic.
Bare(s) == [s EXCEPT !.magic = FALSE, !.size = 0, !.body = 0, !.count = 0]
Unsized(segs) == [k \in DOMAIN segs |-> IF segs[k].kind = "other" THEN segs[k] ELSE Bare(segs[k])]

-----------------------------------------------------------------------------
(* Framing.                                                                *)

EmptyPcs == PcsOf(<<>>, 1, 1, 0, 11)
Bit == OdsOf(5, 192, 1, 1, 5, <<9>>)
Kinds == {EmptyPcs, WdsOf(1), PdsOf(0, <<>>), Bit, End, Other}

Of(segs, kind) == SelectSeq(segs, LAMBDA s : s.kind = kind)

\* The stream cut after every END.
Ends(segs) == {k \in DOMAIN segs : segs[k].kind = "end"}
Block(segs, e) ==
    LET before == {k \in Ends(segs) : k < e}
    IN  SubSeq(segs, (IF before = {} THEN 0 ELSE CHOOSE k \in before : \A j \in before : j <= k) + 1, e)
Framed(block) ==
    /\ Head(block).kind = "pcs" /\ Len(Of(block, "pcs")) = 1 /\ Len(Of(block, "wds")) <= 1
SetOf(block) ==
    [pcs |-> Head(block), palettes |-> Of(block, "pds"), objects |-> Of(block, "ods"),
     wds |-> IF Of(block, "wds") = <<>> THEN None ELSE Head(Of(block, "wds"))]

SetsOf(segs) ==
    IF \/ segs # <<>> /\ segs[Len(segs)].kind # "end"
       \/ \E e \in Ends(segs) : ~Framed(Block(segs, e))
      THEN NoSets
      ELSE LET ends == SetToSortSeq(Ends(segs), LAMBDA a, b : a < b)
           IN  [k \in DOMAIN ends |-> SetOf(Block(segs, ends[k]))]

Dot == (<<0, 0>> :> Transparent)
Stream(segs, planes) ==
    [segs |-> segs, encoded |-> FALSE, sets |-> SetsOf(segs), planes |-> planes]
\* An object id twice in a set is refused when the set is rendered.
DotsOf(segs) ==
    IF SetsOf(segs) = NoSets THEN <<>>
    ELSE [k \in DOMAIN SetsOf(segs) |-> IF Len(SetsOf(segs)[k].objects) > 1 THEN NoPlane ELSE Dot]
Framings ==
    LET all == UNION {[1..n -> Kinds] : n \in 0..4}
                 \union {<<EmptyPcs>> \o segs \o <<End>> : segs \in [1..3 -> Kinds]}
    IN  {Stream(segs, DotsOf(segs)) : segs \in all}

\* One segment damaged: magic, sizes, a body that goes on, counts of too much.
Damage ==
    {[EmptyPcs EXCEPT !.magic = FALSE], [EmptyPcs EXCEPT !.size = 10, !.body = 10],
     [EmptyPcs EXCEPT !.size = 9], [EmptyPcs EXCEPT !.count = 1]}
Damaged == {[Stream(<<s, End>>, <<Dot>>) EXCEPT !.sets = NoSets] : s \in Damage}
      \union {[Stream(<<EmptyPcs, s, End>>, <<Dot>>) EXCEPT !.sets = NoSets] :
                s \in {[WdsOf(1) EXCEPT !.size = 9, !.body = 9],
                       With(Segment("pds", 4), [id |-> 0, entries |-> <<>>]),
                       [Bit EXCEPT !.size = 10, !.body = 10], Segment("end", 1)}}
      \union {Stream(<<[EmptyPcs EXCEPT !.size = 13, !.body = 13], End>>, <<Dot>>)}

-----------------------------------------------------------------------------
(* Run-length text.                                                        *)

Code(pixels, bytes) == [pixels |-> pixels, bytes |-> bytes]
Eol == Code(<<>>, <<0, 0>>)
Codes ==
    {Code(<<3>>, <<3>>), Code(<<0>>, <<0, 1>>), Code(<<0, 0>>, <<0, 64, 2>>),
     Code(<<4, 4>>, <<0, 130, 4>>), Code(<<5>>, <<0, 192, 1, 5>>), Eol}
Cuts == {<<>>, <<0>>, <<0, 64>>, <<0, 129>>, <<0, 193>>, <<0, 193, 1>>}

PixelsOf(codes) == FoldLeft(LAMBDA a, c : a \o c.pixels, <<>>, codes)
BytesOf(codes) == FoldLeft(LAMBDA a, c : a \o c.bytes, <<>>, codes)

\* Every line but the last ends in Eol, all are w wide, and there are h.
Eols(codes) == {k \in DOMAIN codes : codes[k] = Eol}
LineAt(codes, k) ==
    LET before == {j \in Eols(codes) : j < k} IN
      PixelsOf(SubSeq(codes, (IF before = {} THEN 0 ELSE CHOOSE j \in before : \A i \in before : i <= j) + 1, k))
LastLine(codes) == LineAt(codes, Len(codes) + 0)
Whole(codes, w, h) ==
    LET open == IF Eols(codes) # {} /\ codes[Len(codes)] = Eol THEN <<>> ELSE LastLine(codes) IN
      /\ \A k \in Eols(codes) : Len(LineAt(codes, k)) = w
      /\ open # <<>> => Len(open) = w
      /\ Cardinality(Eols(codes)) + (IF open = <<>> THEN 0 ELSE 1) = h

Dark(i) == [id |-> i, y |-> 16 + 20 * i, cr |-> 128, cb |-> 128, alpha |-> 255]
Shade(c) == [r |-> (1164 * 20 * c + 500) \div 1000, g |-> (1164 * 20 * c + 500) \div 1000,
             b |-> (1164 * 20 * c + 500) \div 1000, a |-> 255]
Greys == PdsOf(0, [k \in 1..6 |-> Dark(k - 1)])

\* A set with one object at the corner of a plane of its size.
OneObject(data, w, h) ==
    <<PcsOf(<<Plain(5, 0, 0)>>, w, h, 0, 19), Greys, OdsOf(5, 192, w, h, Len(data) + 4, data), End>>
Picture(pixels, w, h) == [p \in (0..(w - 1)) \X (0..(h - 1)) |-> Shade(pixels[p[2] * w + p[1] + 1])]

TextStream(codes, cut, w, h) ==
    LET segs == OneObject(BytesOf(codes) \o cut, w, h) IN
      Stream(segs, <<IF cut = <<>> /\ Whole(codes, w, h) THEN Picture(PixelsOf(codes), w, h) ELSE NoPlane>>)
Texts ==
    {TextStream(codes, <<>>, 2, 2) : codes \in UNION {[1..n -> Codes] : n \in 0..4}}
      \union {TextStream(codes, cut, 2, 1) : codes \in [1..1 -> Codes], cut \in Cuts}
      \union {TextStream(<<Code([k \in 1..300 |-> 4], <<0, 193, 44, 4>>)>>, <<>>, 300, 1)}

-----------------------------------------------------------------------------
(* Fragments and compositions.                                             *)

\* Object 5 is the row 3 4, object 6 the column 5 over 1.
Row == <<3, 4, 0, 0>>
Column == <<5, 0, 0, 1>>
Opening(id, data) == OdsOf(id, 128, IF id = 5 THEN 2 ELSE 1, IF id = 5 THEN 1 ELSE 2, 8, data)
Inner(id, data) == OdsOf(id, 0, 9, 9, 0, data)
Closing(id, data) == OdsOf(id, 64, 9, 9, 0, data)

\* A plane of 3 by 2, from rows of indices; -1 is transparent.
Shown(rows) ==
    [p \in (0..2) \X (0..1) |->
       LET c == rows[p[2] + 1][p[1] + 1] IN IF c = -1 THEN Transparent ELSE Shade(c)]
Side == Shown(<<<<3, 4, 5>>, <<-1, -1, 1>>>>)
SideBySide == <<Plain(5, 0, 0), Plain(6, 2, 0)>>

\* Fragments of both objects in some order; the last component is the plane.
Chain(frags, shown) ==
    LET segs == <<PcsOf(SideBySide, 3, 2, 0, 27), WdsOf(2), Greys>> \o frags \o <<End>>
    IN  [Stream(Unsized(segs), <<shown>>) EXCEPT !.encoded = TRUE, !.sets = SetsOf(segs)]
Chains ==
    {Chain(<<Opening(5, <<3>>), Opening(6, <<5, 0>>), Inner(5, <<4, 0>>), Closing(6, <<0, 1>>), Closing(5, <<0>>)>>, Side),
     Chain(<<Opening(5, Row), Closing(5, <<>>), Opening(6, <<5>>), Closing(6, <<0, 0, 1>>)>>, Side),
     Chain(<<Opening(5, Row), Opening(6, Column), Closing(5, <<>>)>>, NoPlane),
     Chain(<<Closing(5, Row), Opening(6, Column), Closing(6, <<>>)>>, NoPlane),
     Chain(<<Opening(5, Row), Opening(5, <<>>), Closing(5, <<>>)>>, NoPlane),
     Chain(<<Opening(5, <<3>>), Closing(5, <<4, 0, 0>>), Closing(5, <<1>>)>>, NoPlane),
     Chain(<<Opening(5, <<3>>), Closing(5, <<4, 0>>), Opening(6, Column), Closing(6, <<>>)>>, NoPlane),
     Chain(<<Opening(5, Row), Closing(5, <<>>)>>, NoPlane)}

Composed(objects, size, palettes, shown) ==
    LET segs == <<PcsOf(objects, 3, 2, 1, size)>> \o palettes
                  \o <<OdsOf(5, 192, 2, 1, 8, Row), OdsOf(6, 192, 1, 2, 8, Column), End>>
    IN  Stream(segs, <<shown>>)
Greys1 == [Greys EXCEPT !.id = 1]
Compositions ==
    {Composed(<<Plain(5, 2, 1), Plain(6, 0, 1)>>, 27, <<Greys1>>, Shown(<<<<-1, -1, -1>>, <<5, -1, 3>>>>)),
     Composed(<<Plain(6, 0, 0), Plain(5, 0, 0)>>, 27, <<Greys1>>, Shown(<<<<3, 4, -1>>, <<1, -1, -1>>>>)),
     Composed(<<Crop(5, 0, 0, 1, 0, 1, 1)>>, 27, <<Greys1>>, Shown(<<<<4, -1, -1>>, <<-1, -1, -1>>>>)),
     Composed(<<Crop(5, 1, 1, 1, 0, 5, 5)>>, 27, <<Greys1>>, Shown(<<<<-1, -1, -1>>, <<-1, 4, -1>>>>)),
     Composed(<<[Plain(5, 0, 0) EXCEPT !.flag = 128]>>, 19, <<Greys1>>, Shown(<<<<3, 4, -1>>, <<-1, -1, -1>>>>)),
     Composed(<<Plain(7, 0, 0)>>, 19, <<Greys1>>, NoPlane),
     Composed(<<Plain(5, 0, 0)>>, 19, <<Greys>>, Shown(<<<<-1, -1, -1>>, <<-1, -1, -1>>>>)),
     Composed(<<Plain(5, 0, 0)>>, 19, <<Greys1, Greys, PdsOf(1, <<[Dark(3) EXCEPT !.id = 4]>>)>>,
              Shown(<<<<3, 3, -1>>, <<-1, -1, -1>>>>))}

SmallStreams == Framings \union Damaged \union Texts \union Chains \union Compositions
=============================================================================

------------------------------- MODULE MCUdf -------------------------------
(***************************************************************************)
(* Small UDF volumes: one directory below the root and one file in it, the *)
(* file's entry and the volume's descriptors varied.                       *)
(***************************************************************************)
EXTENDS Udf
LOCAL INSTANCE TLC

SmallAds == [short |-> 1, long |-> 2, ext |-> 2]
SmallPrefix == [fe |-> 1, efe |-> 2]

Part == 10          \* first sector of the partition
BDMV == [word |-> "bdmv", upper |-> TRUE]
Bdmv == [word |-> "bdmv", upper |-> FALSE]
Index == [word |-> "index", upper |-> FALSE]
SmallPaths == {<<Bdmv, Index>>, <<BDMV>>, <<Bdmv, Index, Index>>, <<Index>>}

Byte(b, o) == [tag |-> "byte", b |-> b, o |-> o]
Data(b) == [tag |-> "data", cells |-> [o \in 1..BlockSize |-> Byte(b, o)]]
Bytes(b, n) == [o \in 1..n |-> Byte(b + (o - 1) \div BlockSize, ((o - 1) % BlockSize) + 1)]
Cells(seq) == [tag |-> "data", cells |-> seq]

At(b) == [len |-> BlockSize, block |-> b]
Dirent(name, block, isDir, deleted, parent) ==
    [tag |-> "fid", good |-> TRUE, name |-> name, icb |-> At(block), dir |-> isDir,
     deleted |-> deleted, parent |-> parent, use |-> 0, nameLen |-> 1]
Fill == Byte(0, 0)

Ad(len, type, block, part, info) ==
    [length |-> len + type * LenRange, block |-> block, part |-> part,
     recorded |-> info, info |-> info]
Extent0(len, block) == Ad(len, 0, block, 7, len)
Pointer(len, block) == Ad(len, 3, block, 7, 0)

FileEntry(tag, ad, ads, lad, info) ==
    [tag |-> tag, good |-> TRUE, ad |-> ad, ea |-> 0, lad |-> lad, ads |-> ads,
     info |-> info, cells |-> Bytes(90, lad)]
Chained(ads, lad) == [tag |-> "aed", good |-> TRUE, lad |-> lad, ads |-> ads]

\* The root holds "..", a deleted "bdmv", "BDMV" (twice) and ends in a FID that
\* crosses into the next block; BDMV holds the file, in block 5.
RootFids == <<Dirent(BDMV, 1, TRUE, FALSE, TRUE), Fill, Dirent(Bdmv, 1, TRUE, TRUE, FALSE), Fill,
              Dirent(BDMV, 4, TRUE, FALSE, FALSE), Fill, Dirent(Bdmv, 5, FALSE, FALSE, FALSE), Fill>>
IndexFid == <<Dirent(Index, 5, FALSE, FALSE, FALSE), Fill>>

Tree ==
    (Part + 1) :> FileEntry("fe", "short", <<Extent0(4, 20), Extent0(4, 2)>>, 3, 8)
    @@ (Part + 20) :> Cells(SubSeq(RootFids, 1, 4))
    @@ (Part + 2) :> Cells(SubSeq(RootFids, 5, 8))
    @@ (Part + 4) :> [FileEntry("efe", "embedded", <<>>, 2, 2) EXCEPT !.cells = IndexFid]
    @@ [s \in {Part + b : b \in 30..33} |-> Data(s - Part)]

Volume(pd, lvd, last4) ==
    3 :> [tag |-> "avdp", good |-> TRUE, location |-> 4, len |-> 20]
    @@ 4 :> [tag |-> "pvd", good |-> TRUE]
    @@ 5 :> [pd EXCEPT !.start = 99]
    @@ 6 :> lvd
    @@ 7 :> pd
    @@ 8 :> last4
    @@ Part :> [tag |-> "fsd", good |-> TRUE, root |-> At(1)]

SmallPd == [tag |-> "pd", good |-> TRUE, start |-> Part, number |-> 7]
SmallLvd == [tag |-> "lvd", good |-> TRUE, blockSize |-> BlockSize, block |-> 0, part |-> 7]
Good == Volume(SmallPd, SmallLvd, [tag |-> "terminating", good |-> TRUE])

\* An entry for block 5 with the AEDs it points to, and the body it stands for;
\* no body when it must be refused.
Case(fe, aeds, body) == [fe |-> fe, aeds |-> aeds, body |-> body]
NoAed == <<>>
Refused == <<None>>

Entries ==
    {Case(FileEntry("fe", "short", <<Extent0(5, 30), Extent0(4, 32), Extent0(9, 99)>>, 3, 7),
          NoAed, Bytes(30, 5) \o Bytes(32, 2)),
     Case(FileEntry("fe", "short", <<Extent0(3, 30), Pointer(4, 40), Extent0(4, 31)>>, 3, 7),
          40 :> Chained(<<Extent0(2, 32), Extent0(2, 33)>>, 2), Bytes(30, 3) \o Bytes(32, 2) \o Bytes(33, 2)),
     Case(FileEntry("fe", "long", <<Pointer(5, 40)>>, 2, 9),
          40 :> Chained(<<Extent0(2, 33), Pointer(8, 42)>>, 4) @@ 41 :> Data(41)
            @@ 42 :> Chained(<<Extent0(4, 31), Extent0(0, 0)>>, 4) @@ 43 :> Data(43),
          Bytes(33, 2) \o Bytes(31, 4)),
     Case(FileEntry("fe", "long", <<Pointer(5, 40)>>, 2, 9),
          40 :> Chained(<<Pointer(4, 42)>>, 2) @@ 41 :> Data(41) @@ 42 :> Chained(<<Pointer(4, 43)>>, 2)
            @@ 43 :> Chained(<<Extent0(1, 30)>>, 2), Refused),
     Case(FileEntry("fe", "short", <<Pointer(4, 40)>>, 1, 9),
          40 :> Chained(<<Pointer(4, 40)>>, 1), Refused),
     Case(FileEntry("fe", "short", <<Extent0(8, 30), Extent0(4, 32)>>, 2, 2), NoAed, Bytes(30, 2)),
     Case(FileEntry("efe", "ext", <<Ad(8, 0, 30, 7, 0)>>, 2, 3), NoAed, <<>>),
     Case(FileEntry("fe", "ext", <<Ad(8, 0, 30, 7, 6)>>, 2, 5), NoAed, Bytes(30, 5)),
     Case(FileEntry("fe", "ext", <<[Ad(8, 0, 30, 7, 6) EXCEPT !.recorded = 4]>>, 2, 5),
          NoAed, Refused),
     Case(FileEntry("fe", "long", <<[Extent0(4, 30) EXCEPT !.part = 8]>>, 2, 4), NoAed, Refused),
     Case(FileEntry("fe", "short", <<Extent0(4, 30), Ad(4, 1, 31, 7, 4)>>, 2, 6), NoAed, Refused),
     Case(FileEntry("fe", "short", <<Extent0(4, 30), Ad(4, 1, 31, 7, 4)>>, 2, 3),
          NoAed, Bytes(30, 3)),
     Case(FileEntry("fe", "embedded", <<>>, 3, 2), NoAed, Bytes(90, 2)),
     Case(FileEntry("fe", "short", <<Extent0(4, 30)>>, 4, 4), NoAed, Refused),
     Case(FileEntry("fe", "short", <<Extent0(4, 99)>>, 1, 4), NoAed, Refused)}

\* The directory can be read as a file too; the other paths lead nowhere.
DirTruth == [path |-> <<BDMV>>, body |-> IndexFid]

ImageOf(c) ==
    [sectors |-> Good @@ Tree @@ (Part + 5) :> c.fe
                   @@ (IF c.aeds = NoAed THEN <<>>
                       ELSE [s \in {Part + b : b \in DOMAIN c.aeds} |-> c.aeds[s - Part]]),
     files |-> {DirTruth} \union
               (IF c.body = Refused THEN {}
                ELSE {[path |-> <<Bdmv, Index>>, body |-> c.body]})]

\* Volumes that cannot be mounted, and one whose sequence does not terminate.
Unterminated == [tag |-> "other", good |-> TRUE]
SmallImages ==
    {ImageOf(c) : c \in Entries} \union
    {[sectors |-> Volume(pd, lvd, Unterminated) @@ Tree, files |-> {DirTruth}] :
       pd \in {SmallPd, [SmallPd EXCEPT !.good = FALSE], [SmallPd EXCEPT !.number = 8]},
       lvd \in {SmallLvd, [SmallLvd EXCEPT !.blockSize = 1], [SmallLvd EXCEPT !.good = FALSE]}}
=============================================================================

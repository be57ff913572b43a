-------------------------------- MODULE Udf --------------------------------
(***************************************************************************)
(* The UDF volume reader (src/src/udf.rs): UdfDisc::open, then read_path,  *)
(* which walks the directories of a path (lookup, read_directory) and      *)
(* reads the file at its end (read_file_entry, read_file).  One step per   *)
(* descriptor or block read; every read may fail, MaxFaults times at most. *)
(*                                                                         *)
(* An image maps sectors to contents.  A content has a tag and whether its *)
(* checksum, reserved byte and length are good; a data sector has cells,   *)
(* one per byte, and a directory's File Identifier Descriptor is a cell    *)
(* followed by filler.  Sizes are constants, so that small ones can stand  *)
(* for those of ECMA-167.                                                  *)
(***************************************************************************)
EXTENDS Integers, Sequences

CONSTANTS
    BlockSize,      \* SECTOR_SIZE
    LenRange,       \* lengths of extents: two bits of the word are the type
    AdSize,         \* size of a short, long and extended descriptor
    Prefix,         \* PREFIX_SIZE and EFE_PREFIX_SIZE, by tag
    AedHeader,      \* AllocationExtentDescriptor::HEADER_SIZE
    FidHeader,      \* bytes of a FID before implementation use and name
    FidAlign,       \* FIDs are padded to a multiple of this
    MaxChain,       \* MAX_AED_CHAIN
    MaxExtent,      \* MAX_AED_EXTENT_BYTES
    Anchor,         \* AVDP_SECTOR
    Images,         \* disc images: [sectors, files]
    Paths,          \* paths asked for
    MaxFaults       \* reads that fail

ASSUME UdfSizes ==
    /\ BlockSize \in Nat \ {0} /\ FidHeader \in Nat \ {0} /\ FidAlign \in Nat \ {0}
    /\ LenRange \in Nat \ {0}
    /\ AedHeader \in Nat /\ MaxChain \in Nat /\ MaxExtent \in Nat /\ MaxFaults \in Nat
    /\ AdSize \in [{"short", "long", "ext"} -> Nat \ {0}]
    /\ Prefix \in [{"fe", "efe"} -> Nat]

-----------------------------------------------------------------------------
(* What the sectors of an image may hold.                                  *)

\* An allocation descriptor as recorded; the upper part of length is the type.
RawAd == [length : Nat, block : Nat, part : Nat, recorded : Nat, info : Nat]
Icb == [len : Nat, block : Nat]

Avdp == [tag : {"avdp"}, good : BOOLEAN, location : Nat, len : Nat]
Pvd == [tag : {"pvd"}, good : BOOLEAN]
Pd == [tag : {"pd"}, good : BOOLEAN, start : Nat, number : Nat]
Lvd == [tag : {"lvd"}, good : BOOLEAN, blockSize : Nat, block : Nat, part : Nat]
Fsd == [tag : {"fsd"}, good : BOOLEAN, root : Icb]
Entry == [tag : {"fe", "efe"}, good : BOOLEAN, ea : Nat, lad : Nat, info : Nat,
          ad : {"short", "long", "ext", "embedded", "unknown"}]
Aed == [tag : {"aed"}, good : BOOLEAN, lad : Nat, ads : Seq(RawAd)]
Fid == [tag : {"fid"}, good : BOOLEAN, use : Nat, nameLen : Nat, icb : Icb,
        name : [word : STRING, upper : BOOLEAN],
        dir : BOOLEAN, deleted : BOOLEAN, parent : BOOLEAN]

IsCell(c) == c.tag = "fid" => c \in Fid
IsEntry(c) ==
    /\ [f \in {"tag", "good", "ea", "lad", "info", "ad"} |-> c[f]] \in Entry
    /\ c.ads \in Seq(RawAd)
    /\ \A k \in DOMAIN c.cells : IsCell(c.cells[k])

\* A sector is a descriptor, or holds BlockSize bytes of files.
IsContent(c) ==
    \/ c \in Avdp \/ c \in Pvd \/ c \in Pd \/ c \in Lvd \/ c \in Fsd \/ c \in Aed
    \/ c.tag \in {"fe", "efe"} /\ IsEntry(c)
    \/ c.tag = "data" /\ Len(c.cells) = BlockSize /\ \A k \in DOMAIN c.cells : IsCell(c.cells[k])
    \/ c.tag \in {"terminating", "other"}

ASSUME UdfImages ==
    \A i \in Images : \A s \in DOMAIN i.sectors : s \in Nat /\ IsContent(i.sectors[s])

-----------------------------------------------------------------------------

VARIABLES
    image,      \* the volume; never changes
    phase,      \* what is read next; "unmounted" or "ready" between calls
    walk,       \* open: next sector of the descriptor sequence and what it gave
    vol,        \* UdfDisc: partition start and number, root directory
    path, icb,  \* components still to walk; the entry to read
    entry,      \* FileEntry: extents so far, continuation, chain length
    cursor,     \* read_file: extent and block within it
    out,        \* read_file: bytes so far
    last,       \* what the last read_path returned
    faults      \* history: reads that failed

udfVars == <<image, phase, walk, vol, path, icb, entry, cursor, out, last, faults>>

None == [none |-> TRUE]
NoWalk == [at |-> 0, end |-> 0, pvd |-> None, pd |-> None, lvd |-> None]
NoEntry == [ad |-> "none", info |-> 0, ads |-> <<>>, cont |-> None, depth |-> 0]
Answer(ok, p, body) == [ok |-> ok, path |-> p, body |-> body]

Smaller(a, b) == IF a <= b THEN a ELSE b
Ceil(n, d) == (n + d - 1) \div d

\* A descriptor of the given tag parses.
Parses(c, tag) == c.tag = tag /\ c.good

-----------------------------------------------------------------------------
(* Allocation descriptors.                                                 *)

ShortAd(r) ==
    [len |-> r.length % LenRange, type |-> r.length \div LenRange, block |-> r.block]
LongAd(r) ==
    [len |-> r.length % LenRange, type |-> r.length \div LenRange, block |-> r.block,
     part |-> r.part]
ExtAd(r) ==
    [len |-> r.length % LenRange, type |-> r.length \div LenRange, block |-> r.block,
     part |-> r.part, recorded |-> r.recorded % LenRange, info |-> r.info]

AdOf(kind, r) ==
    CASE kind = "short" -> ShortAd(r) [] kind = "long" -> LongAd(r) [] kind = "ext" -> ExtAd(r)

\* Bytes of the file body an extent holds, and the partition it must be in.
ExtentLength(kind, ad) == IF kind = "ext" THEN ad.info ELSE ad.len
InPartition(kind, ad) == kind # "short" => ad.part = vol.number

Compressed(kind, ad) == kind = "ext" /\ ad.recorded # ad.info

\* The descriptors that fit the field.
Field(kind, raw, bytes) ==
    [k \in 1..Smaller(Len(raw), bytes \div AdSize[kind]) |-> AdOf(kind, raw[k])]

\* The field ends at a descriptor of length 0 or at a continuation pointer.
EndsField(ad) == ad.len = 0 \/ ad.type = 3
FieldEnd(field) ==
    CHOOSE k \in 1..(Len(field) + 1) :
      /\ \A j \in 1..(k - 1) : ~EndsField(field[j])
      /\ k <= Len(field) => EndsField(field[k])

\* parse_ad_area
ParseField(kind, field) ==
    LET k == FieldEnd(field) IN
      [ok   |-> \A j \in 1..(k - 1) : ~Compressed(kind, field[j]),
       ads  |-> SubSeq(field, 1, k - 1),
       cont |-> IF k <= Len(field) /\ field[k].len > 0 THEN field[k] ELSE None]

-----------------------------------------------------------------------------
(* Sectors read next, and reads that fail.                                 *)

ExtentBlocks(ad, bytes) == {ad.block + i : i \in 0..(Ceil(bytes, BlockSize) - 1)}
Sectors ==
    CASE phase = "anchor" -> {Anchor}
      [] phase = "sequence" -> {walk.at}
      [] phase = "fileset" -> {walk.pd.start + walk.lvd.block}
      [] phase = "entry" -> {vol.start + icb.block}
      [] phase = "chain" -> {vol.start + b : b \in ExtentBlocks(entry.cont, entry.cont.len)}
      [] phase = "extents" -> {vol.start + entry.ads[cursor.ext].block + cursor.blk}

Readable == Sectors \subseteq DOMAIN image.sectors
Content == image.sectors[CHOOSE s \in Sectors : \A t \in Sectors : s <= t]

Mounting == phase \in {"anchor", "sequence", "volume", "fileset"}
Reading == phase \in {"entry", "chain", "extents", "body"}

\* An error drops the disc that open() was making, or ends read_path.
Fail ==
    /\ phase' = IF Mounting THEN "unmounted" ELSE "ready"
    /\ last' = Answer(FALSE, last.path, <<>>)
    /\ walk' = NoWalk /\ entry' = NoEntry /\ out' = <<>> /\ path' = <<>>
    /\ UNCHANGED <<image, vol, icb, cursor>>

-----------------------------------------------------------------------------
(* UdfDisc::open.  The outcome of probe_vrs does not matter.               *)

Open ==
    /\ phase = "unmounted"
    /\ phase' = "anchor" /\ walk' = NoWalk
    /\ UNCHANGED <<image, vol, path, icb, entry, cursor, out, last, faults>>

ReadAnchor ==
    /\ phase = "anchor" /\ Readable /\ Parses(Content, "avdp")
    /\ phase' = "sequence"
    /\ walk' = [NoWalk EXCEPT !.at = Content.location,
                              !.end = Content.location + Content.len \div BlockSize]
    /\ UNCHANGED <<image, vol, path, icb, entry, cursor, out, last, faults>>

\* The last descriptor of each kind wins; other tags are skipped.
WalkSequence ==
    /\ phase = "sequence" /\ walk.at < walk.end /\ Readable
    /\ LET c == Content IN
         /\ c.tag \in {"pvd", "pd", "lvd"} => c.good
         /\ walk' = [[walk EXCEPT !.at = walk.at + 1]
                       EXCEPT !.pvd = IF c.tag = "pvd" THEN c ELSE @,
                              !.pd = IF c.tag = "pd" THEN c ELSE @,
                              !.lvd = IF c.tag = "lvd" THEN c ELSE @]
         /\ phase' = IF c.tag = "terminating" THEN "volume" ELSE "sequence"
    /\ UNCHANGED <<image, vol, path, icb, entry, cursor, out, last, faults>>

SequenceEnds ==
    /\ phase = "sequence" /\ walk.at >= walk.end
    /\ phase' = "volume"
    /\ UNCHANGED <<image, walk, vol, path, icb, entry, cursor, out, last, faults>>

VolumeAccepted ==
    /\ None \notin {walk.pvd, walk.pd, walk.lvd}
    /\ walk.lvd.blockSize = BlockSize
    /\ walk.lvd.part = walk.pd.number

CheckVolume ==
    /\ phase = "volume" /\ VolumeAccepted
    /\ phase' = "fileset"
    /\ UNCHANGED <<image, walk, vol, path, icb, entry, cursor, out, last, faults>>

ReadFileSet ==
    /\ phase = "fileset" /\ Readable /\ Parses(Content, "fsd")
    /\ vol' = [start |-> walk.pd.start, number |-> walk.pd.number, root |-> Content.root]
    /\ phase' = "ready" /\ walk' = NoWalk
    /\ UNCHANGED <<image, path, icb, entry, cursor, out, last, faults>>

-----------------------------------------------------------------------------
(* read_file_entry and resolve_ad_continuations.                           *)

ReadPath(p) ==
    /\ phase = "ready"
    /\ phase' = "entry" /\ path' = p /\ icb' = vol.root
    /\ last' = Answer(FALSE, p, <<>>)
    /\ UNCHANGED <<image, walk, vol, entry, cursor, out, faults>>

EntryParses(c) ==
    /\ c.tag \in {"fe", "efe"} /\ c.good /\ c.ad # "unknown"
    /\ Prefix[c.tag] + c.ea + c.lad <= BlockSize
    /\ c.ad # "embedded" => ParseField(c.ad, Field(c.ad, c.ads, c.lad)).ok

\* Where an entry whose chain is resolved goes on.
Resolved(e) ==
    IF e.cont # None THEN "chain" ELSE IF e.ads # <<>> THEN "extents" ELSE "body"

Embedded(c) == SubSeq(c.cells, 1, c.lad)

ReadEntry ==
    /\ phase = "entry" /\ icb.len > 0 /\ Readable /\ EntryParses(Content)
    /\ LET c == Content IN
         IF c.ad = "embedded"
           THEN /\ entry' = [NoEntry EXCEPT !.ad = c.ad, !.info = c.info]
                /\ out' = Embedded(c) /\ phase' = "body"
           ELSE LET field == ParseField(c.ad, Field(c.ad, c.ads, c.lad)) IN
                /\ entry' = [ad |-> c.ad, info |-> c.info, ads |-> field.ads,
                             cont |-> field.cont, depth |-> 0]
                /\ out' = <<>> /\ phase' = Resolved(entry')
    /\ cursor' = [ext |-> 1, blk |-> 0]
    /\ UNCHANGED <<image, walk, vol, path, icb, last, faults>>

\* The pointer itself, before anything is read.
PointerAccepted(e) ==
    /\ e.depth < MaxChain
    /\ InPartition(e.ad, e.cont)
    /\ e.cont.len >= AedHeader /\ e.cont.len <= MaxExtent

\* mutant: the chain counted per extent
DepthForgotten(e) == 0
DepthAfter(e) == e.depth + 1

FollowChain ==
    /\ phase = "chain" /\ PointerAccepted(entry) /\ Readable
    /\ LET c == Content IN
         /\ Parses(c, "aed") /\ AedHeader + c.lad <= entry.cont.len
         /\ LET field == ParseField(entry.ad, Field(entry.ad, c.ads, c.lad)) IN
              /\ field.ok
              /\ entry' = [entry EXCEPT !.ads = @ \o field.ads,
                                        !.cont = field.cont, !.depth = DepthAfter(entry)]
    /\ phase' = Resolved(entry')
    /\ UNCHANGED <<image, walk, vol, path, icb, cursor, out, last, faults>>

-----------------------------------------------------------------------------
(* read_file: one step per block.                                          *)

Extent == entry.ads[cursor.ext]

BlockBytes ==
    Smaller(BlockSize, ExtentLength(entry.ad, Extent) - cursor.blk * BlockSize)

ExtentAccepted == Extent.type = 0 /\ InPartition(entry.ad, Extent)
LastBlock == cursor.blk + 1 >= Ceil(ExtentLength(entry.ad, Extent), BlockSize)

Enough(bytes, ext) == Len(bytes) >= entry.info \/ ext > Len(entry.ads)

ReadBlock ==
    /\ phase = "extents" /\ ExtentAccepted
    /\ ExtentLength(entry.ad, Extent) > 0 /\ Readable
    /\ out' = out \o SubSeq(Content.cells, 1, BlockBytes)
    /\ cursor' = IF LastBlock THEN [ext |-> cursor.ext + 1, blk |-> 0]
                              ELSE [cursor EXCEPT !.blk = @ + 1]
    /\ phase' = IF Enough(out', cursor'.ext) THEN "body" ELSE "extents"
    /\ UNCHANGED <<image, walk, vol, path, icb, entry, last, faults>>

\* An extended descriptor may hold no information: nothing is read.
SkipExtent ==
    /\ phase = "extents" /\ ExtentAccepted
    /\ ExtentLength(entry.ad, Extent) = 0
    /\ cursor' = [ext |-> cursor.ext + 1, blk |-> 0]
    /\ phase' = IF Enough(out, cursor'.ext) THEN "body" ELSE "extents"
    /\ UNCHANGED <<image, walk, vol, path, icb, entry, out, last, faults>>

-----------------------------------------------------------------------------
(* read_directory and lookup.                                              *)

Body == SubSeq(out, 1, Smaller(Len(out), entry.info))

FidEnd(f) == FidHeader + f.use + f.nameLen
Padded(n) == Ceil(n, FidAlign) * FidAlign

\* The FIDs of a directory body; one that does not parse ends it.
Fids(raw) ==
    LET fits(o) == /\ raw[o + 1].tag = "fid" /\ raw[o + 1].good
                   /\ o + FidEnd(raw[o + 1]) <= Len(raw)
        from[o \in Nat] ==
          IF o + FidHeader > Len(raw) THEN <<>>
          ELSE IF fits(o) THEN <<raw[o + 1]>> \o from[o + Padded(FidEnd(raw[o + 1]))]
                          ELSE <<None>>
    IN  from[0]

\* mutant: deleted entries listed
AllListed(f) == ~f.parent
Listed(f) == ~f.deleted /\ ~f.parent

\* Names are compared without case.
SameName(a, b) == a.word = b.word

\* The first entry of that name; cur_is_dir, unless this is the last component.
IsMatch(fids, k) ==
    /\ Listed(fids[k]) /\ SameName(fids[k].name, Head(path))
    /\ \A j \in 1..(k - 1) : ~(Listed(fids[j]) /\ SameName(fids[j].name, Head(path)))

Descend ==
    /\ phase = "body" /\ path # <<>>
    /\ LET fids == Fids(Body) IN
         /\ None \notin {fids[k] : k \in DOMAIN fids}
         /\ \E k \in DOMAIN fids :
              /\ IsMatch(fids, k)
              /\ Len(path) > 1 => fids[k].dir
              /\ icb' = fids[k].icb
    /\ path' = Tail(path) /\ phase' = "entry"
    /\ entry' = NoEntry /\ out' = <<>>
    /\ UNCHANGED <<image, walk, vol, cursor, last, faults>>

FileRead ==
    /\ phase = "body" /\ path = <<>>
    /\ last' = Answer(TRUE, last.path, Body)
    /\ phase' = "ready" /\ entry' = NoEntry /\ out' = <<>>
    /\ UNCHANGED <<image, walk, vol, path, icb, cursor, faults>>

-----------------------------------------------------------------------------

Advance ==
    \/ ReadAnchor \/ WalkSequence \/ SequenceEnds \/ CheckVolume \/ ReadFileSet
    \/ ReadEntry \/ FollowChain \/ ReadBlock \/ SkipExtent \/ Descend \/ FileRead

\* What cannot be read or parsed, or is refused.
Refuse ==
    /\ Mounting \/ Reading
    /\ ~ENABLED Advance
    /\ Fail /\ UNCHANGED faults

ReadFails ==
    /\ Mounting \/ Reading
    /\ phase \notin {"volume", "body"}
    /\ faults < MaxFaults /\ faults' = faults + 1
    /\ Fail

UdfInit ==
    /\ image \in Images
    /\ phase = "unmounted" /\ walk = NoWalk
    /\ vol = [start |-> 0, number |-> 0, root |-> [len |-> 0, block |-> 0]]
    /\ path = <<>> /\ icb = vol.root /\ entry = NoEntry
    /\ cursor = [ext |-> 1, blk |-> 0] /\ out = <<>>
    /\ last = Answer(FALSE, <<>>, <<>>) /\ faults = 0

Working == Advance \/ Refuse \/ ReadFails
UdfNext == Open \/ (\E p \in Paths : ReadPath(p)) \/ Working

\* A call runs to completion once it has started.
UdfSpec == UdfInit /\ [][UdfNext]_udfVars /\ WF_udfVars(Working)

-----------------------------------------------------------------------------
(* Properties.                                                             *)

\* read_path answers with the very bytes of the file the path names: the first
\* entry of each name that is not deleted, its extents in the order of the
\* chain, each to its own length, cut at the information length.  It refuses
\* only what the volume does not hold or holds damaged.  On the way it follows
\* MaxChain pointers at most, and holds no more than one block beyond the
\* information length.
ReadsTruth ==
    /\ phase = "ready" /\ last.path # <<>> =>
         IF last.ok THEN [path |-> last.path, body |-> last.body] \in image.files
                    ELSE faults > 0 \/ \A f \in image.files : f.path # last.path
    /\ entry.depth \in 0..MaxChain
    /\ entry.ad # "embedded" => Len(out) <= entry.info + BlockSize

\* Every open() and read_path() returns, also on a chain that runs in a circle.
UdfReturns == Mounting \/ Reading ~> phase \in {"unmounted", "ready"}
=============================================================================

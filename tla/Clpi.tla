-------------------------------- MODULE Clpi --------------------------------
(***************************************************************************)
(* Clip information files (src/src/bdmv/clpi.rs): how they are laid out    *)
(* and read back (encode, parse), how the times and packet numbers of the  *)
(* EP_map are rebuilt from coarse and fine rows (parse_cpi), and the       *)
(* lookups of a seeker.  Pure operators.                                   *)
(*                                                                         *)
(* A clip is [atcs, programs, maps, marks]; an ATC is [start, offset,      *)
(* stcs], a program [pmt, streams], an EP_map [pid, type, entries], an     *)
(* entry [change, iEnd, pts, spn].  A file is the sections at their        *)
(* addresses and len, the bytes there are.  Numbers of rows fit the 16 and *)
(* 18 bits they have.                                                      *)
(***************************************************************************)
EXTENDS Integers, Sequences, FiniteSets
LOCAL INSTANCE SequencesExt

CONSTANTS
    PtsUnit,        \* ticks below the least bit of PTS_EP_fine (2^9)
    PtsFine,        \* values of PTS_EP_fine (2^11)
    PtsCoarse,      \* values of PTS_EP_coarse (2^14)
    PtsWord,        \* values of the u32 that holds a PTS (2^32)
    SpnFine         \* values of SPN_EP_fine (2^17)

ASSUME ClpiWidths ==
    /\ PtsUnit \in Nat \ {0} /\ PtsWord \in Nat \ {0} /\ PtsCoarse \in Nat \ {0}
    /\ PtsFine \in Nat \ {0} /\ PtsFine % 2 = 0 /\ SpnFine \in Nat \ {0}

Refused == [refused |-> TRUE]
Flat(seqs) == FoldLeft(LAMBDA a, b : a \o b, <<>>, seqs)
Total(nums) == FoldLeft(LAMBDA a, b : a + b, 0, nums)

-----------------------------------------------------------------------------
(* EP_map rows.  The least bit of the coarse time is the top bit of the    *)
(* fine time.                                                              *)

CoarseStep == PtsUnit * (PtsFine \div 2)

Combined(c, f) ==
    LET shared == IF c % 2 = 1 /\ f >= PtsFine \div 2 THEN CoarseStep ELSE 0
    IN  (c * CoarseStep + f * PtsUnit - shared) % PtsWord

\* The coarse row a fine row belongs to: rows are passed while the next one
\* refers to this fine row or an earlier one.
CoarseOf(coarse, fi) ==
    CHOOSE c \in DOMAIN coarse :
      /\ \A j \in 2..c : coarse[j].ref < fi
      /\ c < Len(coarse) => coarse[c + 1].ref >= fi

\* References count fine rows from 0.
Rebuilt(coarse, fine) ==
    [fi \in DOMAIN fine |->
       LET row == IF coarse = <<>> THEN [ref |-> 0, pts |-> 0, spn |-> 0]
                                   ELSE coarse[CoarseOf(coarse, fi)]
       IN  [change |-> fine[fi].change, iEnd |-> fine[fi].iEnd,
            pts |-> Combined(row.pts, fine[fi].pts),
            spn |-> (row.spn \div SpnFine) * SpnFine + fine[fi].spn]]

FineRows(entries) ==
    [k \in DOMAIN entries |->
       [change |-> entries[k].change, iEnd |-> entries[k].iEnd % 8,
        pts |-> (entries[k].pts \div PtsUnit) % PtsFine, spn |-> entries[k].spn % SpnFine]]

\* One coarse row where each of the given entries starts.
CoarseRows(entries, starts) ==
    LET at == SetToSortSeq(starts, LAMBDA a, b : a < b) IN
      [c \in DOMAIN at |->
         [ref |-> at[c] - 1, pts |-> (entries[at[c]].pts \div CoarseStep) % PtsCoarse,
          spn |-> entries[at[c]].spn]]

\* encode_cpi: a bucket for every run of entries with the same key.
Key(e) == <<e.pts \div CoarseStep, e.spn \div SpnFine>>
Buckets(entries) == {k \in DOMAIN entries : k = 1 \/ Key(entries[k]) # Key(entries[k - 1])}

-----------------------------------------------------------------------------
(* Lookups in an EP_map in order of time.                                  *)

\* entry_point_at_or_before: on equal times the search may stop at any.
AtOrBefore(entries, t) ==
    LET same == {k \in DOMAIN entries : entries[k].pts = t}
        below == {k \in DOMAIN entries : entries[k].pts < t}
    IN  IF entries = <<>> THEN {}
        ELSE IF same # {} THEN same
        ELSE IF below = {} THEN {1} ELSE {Cardinality(below)}

\* mutant: an entry at the time itself counts as later
NotBefore(entries, t) ==
    LET k == Cardinality({j \in DOMAIN entries : entries[j].pts < t}) + 1
    IN  {k} \intersect DOMAIN entries
After(entries, t) ==
    LET k == Cardinality({j \in DOMAIN entries : entries[j].pts <= t}) + 1
    IN  {k} \intersect DOMAIN entries

-----------------------------------------------------------------------------
(* STC sequences.                                                          *)

StcSequences(atcs) == Flat([a \in DOMAIN atcs |-> atcs[a].stcs])

LocalStc(atc, id) == id - atc.offset
HasStc(atc, id) == LocalStc(atc, id) >= 0 /\ LocalStc(atc, id) < Len(atc.stcs)

\* stc_sequence_by_id
StcById(atcs, id) ==
    LET has == {a \in DOMAIN atcs : HasStc(atcs[a], id)}
        atc == atcs[CHOOSE a \in has : \A b \in has : a <= b]
    IN  IF has = {} THEN Refused ELSE atc.stcs[LocalStc(atc, id) + 1]

\* stc_sequence_for_spn: the last one that has started.
StcForSpn(atc, spn) ==
    LET begun == {k \in DOMAIN atc.stcs : spn >= atc.stcs[k].spn}
    IN  IF begun = {} THEN Refused ELSE atc.stcs[CHOOSE k \in begun : \A j \in begun : j <= k]

-----------------------------------------------------------------------------
(* What a title takes from a clip (load_clip_meta).                        *)

Video == {1, 5, 6, 8}
Hevc == 8

\* primary_video_ep_map: HEVC, else another video, else the lowest PID.
PrimaryMap(maps) ==
    LET first(S) == CHOOSE k \in S : \A j \in S : k <= j
        hevc == {k \in DOMAIN maps : maps[k].type = Hevc}
        video == {k \in DOMAIN maps : maps[k].type \in Video}
    IN  IF hevc # {} THEN first(hevc) ELSE IF video # {} THEN first(video)
        ELSE first({k \in DOMAIN maps : \A j \in DOMAIN maps : maps[k].pid <= maps[j].pid})

\* The rows of that map in order of time; none of a file that cannot be read.
Rows(clip) ==
    IF clip = Refused THEN <<>>
    ELSE IF clip.maps = <<>> THEN <<>>
    ELSE SortSeq(clip.maps[PrimaryMap(clip.maps)].entries, LAMBDA a, b : a.pts < b.pts)

\* The time at which the STC of a PlayItem starts, on the 90 kHz clock: counted in
\* the first ATC sequence, whatever its offset; 0 for one that is not there.
Origin(clip, id) ==
    IF clip = Refused THEN 0
    ELSE IF clip.atcs = <<>> THEN 0
    ELSE IF id < Len(clip.atcs[1].stcs) THEN 2 * clip.atcs[1].stcs[id + 1].start ELSE 0

-----------------------------------------------------------------------------
(* The file.                                                               *)

\* A stream_coding_info body: type, format, then an aspect ratio of video or a
\* language of anything else.
VideoCodings == {2, 27, 36, 234}
CodingBody(s) ==
    <<s.coding, s.format>> \o
      (IF s.coding \in VideoCodings THEN <<s.aspect * 16>>
       ELSE IF s.language = <<0, 0, 0>> THEN <<>> ELSE s.language)

Coding(pid, body) ==
    LET at(k) == IF k <= Len(body) THEN body[k] ELSE 0
        video == at(1) \in VideoCodings
    IN  [pid |-> pid, coding |-> at(1), format |-> at(2),
         aspect |-> IF video THEN at(3) \div 16 ELSE 0,
         language |-> IF ~video /\ Len(body) >= 5 THEN SubSeq(body, 3, 5) ELSE <<0, 0, 0>>]

ClipInfoAt == 40
ClipInfoSize == 2 + 1 + 1 + 4 + 4 + 4 + 128 + 32
SequenceSize(atcs) == 4 + 2 + 6 * Len(atcs) + 14 * Len(StcSequences(atcs))
ProgramSize(programs) ==
    4 + 2 + Total([p \in DOMAIN programs |->
                     8 + Total([s \in DOMAIN programs[p].streams |->
                                  3 + Len(programs[p].streams[s].body)])])

\* EP_map_for_one_stream_PID: the coarse rows, then the fine ones.
BodySize(m) == 4 + 8 * Len(m.coarse) + 4 * Len(m.fine)
HeadersSize(maps) == 12 * Len(maps)

\* mutant: addresses counted from the length of the CPI block
FromBlock == 0
AddressBase == 6

EncodedMaps(maps) ==
    LET bare == [m \in DOMAIN maps |->
                   [pid |-> maps[m].pid, type |-> maps[m].type % 16,
                    coarse |-> CoarseRows(maps[m].entries, Buckets(maps[m].entries)),
                    fine |-> FineRows(maps[m].entries)]]
        before(m) == Total([j \in 1..(m - 1) |-> BodySize(bare[j])])
    IN  [m \in DOMAIN maps |->
           [pid |-> bare[m].pid, type |-> bare[m].type, coarse |-> bare[m].coarse,
            fine |-> bare[m].fine, address |-> 8 + HeadersSize(maps) - 6 + before(m),
            fineAddress |-> 4 + 8 * Len(bare[m].coarse)]]

\* ClipInformation::encode: the sections one after the other.  It records no
\* marks.
EncodedClip(clip) ==
    LET programs == [p \in DOMAIN clip.programs |->
                       [pmt |-> clip.programs[p].pmt,
                        streams |-> [s \in DOMAIN clip.programs[p].streams |->
                                       [pid |-> clip.programs[p].streams[s].pid,
                                        body |-> CodingBody(clip.programs[p].streams[s])]]]]
        maps == EncodedMaps(clip.maps)
        cpiLen == IF maps = <<>> THEN 0
                  ELSE 4 + HeadersSize(maps) + Total([m \in DOMAIN maps |-> BodySize(maps[m])])
        seq == ClipInfoAt + 4 + ClipInfoSize
        prog == seq + SequenceSize(clip.atcs)
        cpi == prog + ProgramSize(programs)
        mark == cpi + 4 + cpiLen
    IN  [magic |-> "CLPI", ciLen |-> ClipInfoSize, seq |-> seq, prog |-> prog, cpi |-> cpi,
         mark |-> mark, len |-> mark + 4 + 2, atcs |-> clip.atcs, programs |-> programs,
         cpiLen |-> cpiLen, cpiType |-> 1, maps |-> maps, marks |-> 0]

\* A read of n bytes at an address.
Fits(f, at, n) == at + n <= f.len

CpiEnd(f) == f.cpi + 4 + f.cpiLen
MapAt(f, m) == f.cpi + AddressBase + m.address
MapFits(f, m) ==
    /\ MapAt(f, m) < CpiEnd(f)
    /\ Fits(f, MapAt(f, m), 4 + 8 * Len(m.coarse))
    /\ MapAt(f, m) + m.fineAddress <= CpiEnd(f)
    /\ Fits(f, MapAt(f, m) + m.fineAddress, 4 * Len(m.fine))

\* Rows read where no table is.
Misread(f, m) ==
    \/ m.address + AddressBase < 8 + HeadersSize(f.maps)
    \/ m.fineAddress < 4 + 8 * Len(m.coarse)

\* parse_cpi; a block that is short or of another type is an empty map.
CpiParses(f) ==
    /\ Fits(f, f.cpi, 4) /\ CpiEnd(f) <= f.len
    /\ f.cpiLen >= 4 /\ f.cpiType = 1 =>
         /\ Fits(f, f.cpi, 8 + HeadersSize(f.maps))
         /\ \A m \in DOMAIN f.maps : MapFits(f, f.maps[m])
MapsOf(f) ==
    IF f.cpiLen < 4 \/ f.cpiType # 1 THEN <<>>
    ELSE [m \in DOMAIN f.maps |->
            [pid |-> f.maps[m].pid, type |-> f.maps[m].type,
             entries |-> IF Misread(f, f.maps[m]) THEN <<Refused>>
                         ELSE Rebuilt(f.maps[m].coarse, f.maps[m].fine)]]

Here(f, at) == at > 0 /\ at < f.len

\* ClipInformation::parse; CPI and marks that lie past the end are empty.
FileParses(f) ==
    /\ f.len >= ClipInfoAt /\ f.magic \in {"HDMV", "CLPI"}
    /\ Fits(f, ClipInfoAt, 154) /\ Fits(f, ClipInfoAt + 4, f.ciLen)
    /\ Fits(f, f.seq, SequenceSize(f.atcs))
    /\ Fits(f, f.prog, ProgramSize(f.programs))
    /\ Here(f, f.cpi) => CpiParses(f)
    /\ Here(f, f.mark) => Fits(f, f.mark, 6)

ParsedClip(f) ==
    IF ~FileParses(f) THEN Refused
    ELSE [atcs |-> f.atcs,
          programs |-> [p \in DOMAIN f.programs |->
                          [pmt |-> f.programs[p].pmt,
                           streams |-> [s \in DOMAIN f.programs[p].streams |->
                                          Coding(f.programs[p].streams[s].pid,
                                                 f.programs[p].streams[s].body)]]],
          maps |-> IF Here(f, f.cpi) THEN MapsOf(f) ELSE <<>>,
          marks |-> IF Here(f, f.mark) THEN f.marks ELSE 0]
=============================================================================

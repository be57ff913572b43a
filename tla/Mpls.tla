-------------------------------- MODULE Mpls --------------------------------
(***************************************************************************)
(* PlayList files (src/src/bdmv/mpls.rs): PlayListMpls::encode and parse,  *)
(* with the PlayItems, their stream tables, the SubPaths and the marks.    *)
(* Pure operators.                                                         *)
(*                                                                         *)
(* A file is a sequence of cells (Cells); a clip name with its codec is one*)
(* field.                                                                  *)
(*                                                                         *)
(* A stream is [class, pid, coding, format, extra], a clip [clip, stc], a  *)
(* PlayItem [clip, stc, cc, inTime, outTime, flags, count, angleFlags,     *)
(* angles, streams], a SubPlayItem [clip, stc, cc, inTime, outTime, sync,  *)
(* anchor, clips].                                                         *)
(***************************************************************************)
EXTENDS Cells
LOCAL INSTANCE SequencesExt

-----------------------------------------------------------------------------
(* StreamCodingType: a name for each code that has one, and any other code  *)
(* as it is.                                                                *)

CodingCodes == <<2, 27, 36, 234, 128, 129, 130, 131, 132, 133, 134, 161, 162, 144, 145, 146>>
CodingNames ==
    <<"Mpeg2Video", "AvcVideo", "HevcVideo", "Vc1Video", "LpcmAudio", "Ac3Audio", "DtsAudio",
      "TruehdAudio", "EAc3Audio", "DtsHdAudio", "DtsHdMaAudio", "EAc3SecondaryAudio",
      "DtsHdSecondaryAudio", "PgsSubtitle", "IgsInteractive", "TextSubtitle">>

CodingOf(code) ==
    LET known == {k \in DOMAIN CodingCodes : CodingCodes[k] = code}
    IN  IF known = {} THEN [name |-> "Other", code |-> code]
        ELSE [name |-> CodingNames[CHOOSE k \in known : TRUE], code |-> 0]
CodeOf(coding) ==
    IF coding.name = "Other" THEN coding.code
    ELSE CodingCodes[CHOOSE k \in DOMAIN CodingNames : CodingNames[k] = coding.name]

-----------------------------------------------------------------------------
(* Streams.  The classes are numbered in the order of the table: primary   *)
(* video, primary audio, PG, IG, secondary audio, secondary video, PiP PG. *)

Classes == 1..7
IsVideo(class) == class \in {1, 6}
IsText(class) == class \in {3, 4, 7}

\* The attributes are the coding, a format but for text, and an aspect ratio
\* (video) or a language.
ExtraAt(class) == IF IsText(class) THEN 1 ELSE 2
ExtraSize(class) == IF IsVideo(class) THEN 1 ELSE 3
AttributesSize(class) == IF IsVideo(class) THEN 5 ELSE IF IsText(class) THEN 4 ELSE 6
EntrySize == 9
InMux == 1

EncodedStream(s) ==
    LET body == <<CodeOf(s.coding)>> \o (IF IsText(s.class) THEN <<>> ELSE <<s.format>>)
                  \o Wide(s.extra, ExtraSize(s.class))
    IN  <<EntrySize, InMux>> \o Wide(s.pid, 2) \o Zeros(EntrySize - 3)
          \o <<AttributesSize(s.class)>> \o body \o Zeros(AttributesSize(s.class) - Len(body))

\* Each of the two blocks ends where its own length says.
StreamFits(buf, pos) ==
    /\ Fits(buf, pos, 1) /\ Fits(buf, pos + 1, At(buf, pos))
    /\ LET attributes == pos + 1 + At(buf, pos) IN
         Fits(buf, attributes, 1) /\ Fits(buf, attributes + 1, At(buf, attributes))

StreamAt(buf, pos, class) ==
    LET attributes == pos + 1 + At(buf, pos)
        len == At(buf, attributes)
        part(at, size) == IF at + size <= len THEN At(buf, attributes + 1 + at) ELSE 0
    IN  IF ~StreamFits(buf, pos) THEN Refused
        ELSE [pos |-> attributes + 1 + len,
              got |-> [class |-> class,
                       pid |-> IF At(buf, pos) >= 3 /\ At(buf, pos + 1) = InMux
                                 THEN At(buf, pos + 2) ELSE 0,
                       coding |-> CodingOf(part(0, 1)),
                       format |-> IF IsText(class) THEN 0 ELSE part(1, 1),
                       extra |-> part(ExtraAt(class), ExtraSize(class))]]

-----------------------------------------------------------------------------
(* The stream table: a length, a header with the number of streams of each *)
(* class, the streams by class.                                            *)

HeaderSize == 14
OfClass(streams, class) == SelectSeq(streams, LAMBDA s : s.class = class)
EncodedTable(streams) ==
    LET counts == [class \in Classes |-> Len(OfClass(streams, class))]
        body == Zeros(2) \o counts \o Zeros(5)
                  \o Flat([k \in DOMAIN streams |-> EncodedStream(streams[k])])
    IN  Wide(Len(body), 2) \o body

\* reached is where the last stream ended: the table's end bounds none of them.
TableAt(buf, pos) ==
    LET body == pos + 2
        len == At(buf, pos)
        classes == Flat([class \in Classes |-> [k \in 1..At(buf, body + 1 + class) |-> class]])
        read == IF len < HeaderSize THEN [pos |-> body, got |-> <<>>]
                ELSE IF Fits(buf, body, HeaderSize)
                  THEN Repeated(buf, Len(classes), 2, body + HeaderSize,
                                LAMBDA p, k : StreamAt(buf, p, classes[k]))
                ELSE Refused
    IN  IF ~Fits(buf, pos, 2) \/ read = Refused \/ ~Fits(buf, body, len) THEN Refused
        ELSE [pos |-> body + len, got |-> read.got, reached |-> read.pos]

-----------------------------------------------------------------------------
(* PlayItems.                                                              *)

ItemFixed == 32
\* mutant: an alternate clip as long as a further clip of a SubPlayItem
TenBytes == 10
AngleSize == 11

EncodedItem(item) ==
    LET alternate(k) == IF k \in DOMAIN item.angles
                          THEN Wide(item.angles[k].clip, 9) \o <<item.angles[k].stc, 0>>
                          ELSE Zeros(AngleSize)
        multi == item.count > 1
        body == Wide(item.clip, 9) \o <<(IF multi THEN 16 ELSE 0) + (item.cc % 16), 0, item.stc>>
                  \o Wide(item.inTime, 4) \o Wide(item.outTime, 4) \o Wide(item.flags, 12)
                  \o (IF multi THEN <<item.count, item.angleFlags>>
                                      \o Flat([k \in 1..(item.count - 1) |-> alternate(k)])
                               ELSE <<>>)
                  \o EncodedTable(item.streams)
    IN  Wide(Len(body), 2) \o body

\* The list of angles: absent, or a count and the clips but the first.
AnglesAt(buf, pos, multi) ==
    IF ~multi THEN [pos |-> pos, got |-> <<>>, count |-> 1, flags |-> 0]
    ELSE LET count == At(buf, pos)
             alternates == IF count = 0 THEN 0 ELSE count - 1
             clip(p) == [clip |-> At(buf, p), stc |-> At(buf, p + 9)]
         IN  IF ~Fits(buf, pos, 2) \/ ~Fits(buf, pos + 2, AngleSize * alternates) THEN Refused
             ELSE [pos |-> pos + 2 + AngleSize * alternates, count |-> count,
                   got |-> [k \in 1..alternates |-> clip(pos + 2 + AngleSize * (k - 1))],
                   flags |-> At(buf, pos + 1)]

\* mutant: the next part is read where the last stream ended
WhereItStopped(end, reached) == reached
\* The reader goes on at the end the part's own length gives.
NextPart(end, reached) == end

ItemAt(buf, pos) ==
    LET body == pos + 2
        end == body + At(buf, pos)
        pack == At(buf, body + 9)
        angles == AnglesAt(buf, body + ItemFixed, (pack \div 16) % 2 = 1)
        table == TableAt(buf, angles.pos)
        names == <<At(buf, body)>> \o [k \in DOMAIN angles.got |-> angles.got[k].clip]
    IN  IF ~Fits(buf, pos, 2) \/ ~Fits(buf, body, ItemFixed) THEN Refused
        ELSE IF angles = Refused THEN Refused
        ELSE IF table = Refused \/ end > Len(buf) \/ \E k \in DOMAIN names : names[k] = NotText
          THEN Refused
        ELSE [pos |-> NextPart(end, table.reached),
              got |-> [clip |-> At(buf, body), stc |-> At(buf, body + 11), cc |-> pack % 16,
                       inTime |-> At(buf, body + 12), outTime |-> At(buf, body + 16),
                       flags |-> At(buf, body + 20), count |-> angles.count,
                       angleFlags |-> angles.flags, angles |-> angles.got,
                       streams |-> table.got]]

-----------------------------------------------------------------------------
(* SubPaths.                                                               *)

SubFixed == 28
SubClipSize == 10

EncodedSub(item) ==
    LET multi == item.clips # <<>>
        body == Wide(item.clip, 9) \o Wide(2 * (item.cc % 16) + (IF multi THEN 1 ELSE 0), 4)
                  \o <<item.stc>> \o Wide(item.inTime, 4) \o Wide(item.outTime, 4)
                  \o Wide(item.sync, 2) \o Wide(item.anchor, 4)
                  \o (IF multi
                        THEN <<Len(item.clips) + 1, 0>>
                               \o Flat([k \in DOMAIN item.clips |->
                                          Wide(item.clips[k].clip, 9) \o <<item.clips[k].stc>>])
                        ELSE <<>>)
    IN  Wide(Len(body), 2) \o body

SubAt(buf, pos) ==
    LET body == pos + 2
        multi == At(buf, body + 9) % 2 = 1
        count == At(buf, body + SubFixed)
        more == IF multi /\ count > 0 THEN count - 1 ELSE 0
        from == body + SubFixed + 2
        clip(p) == [clip |-> At(buf, p), stc |-> At(buf, p + 9)]
        clips == [k \in 1..more |-> clip(from + SubClipSize * (k - 1))]
    IN  IF ~Fits(buf, pos, 2) \/ ~Fits(buf, body, SubFixed) THEN Refused
        ELSE IF multi /\ ~Fits(buf, body + SubFixed, 2) THEN Refused
        ELSE IF ~Fits(buf, from, SubClipSize * more) /\ multi THEN Refused
        ELSE IF ~Fits(buf, body, At(buf, pos)) \/ At(buf, body) = NotText
                  \/ \E k \in DOMAIN clips : clips[k].clip = NotText
          THEN Refused
        ELSE [pos |-> body + At(buf, pos),
              got |-> [clip |-> At(buf, body), stc |-> At(buf, body + 13),
                       cc |-> (At(buf, body + 9) \div 2) % 16,
                       inTime |-> At(buf, body + 14), outTime |-> At(buf, body + 18),
                       sync |-> At(buf, body + 22), anchor |-> At(buf, body + 24),
                       clips |-> clips]]

EncodedPath(path) ==
    LET body == <<0, path.type>> \o Wide(IF path.repeat THEN 1 ELSE 0, 2)
                  \o <<0, Len(path.items)>>
                  \o Flat([k \in DOMAIN path.items |-> EncodedSub(path.items[k])])
    IN  Wide(Len(body), 4) \o body

PathAt(buf, pos) ==
    LET body == pos + 4
        items == Repeated(buf, At(buf, body + 5), 2, body + 6, LAMBDA p, k : SubAt(buf, p))
    IN  IF ~Fits(buf, pos, 4) \/ ~Fits(buf, body, 6) THEN Refused
        ELSE IF items = Refused \/ ~Fits(buf, body, At(buf, pos)) THEN Refused
        ELSE [pos |-> body + At(buf, pos),
              got |-> [type |-> At(buf, body + 1), repeat |-> At(buf, body + 2) % 2 = 1,
                       items |-> items.got]]

-----------------------------------------------------------------------------
(* The file: a header with the addresses of the PlayList and of the marks, *)
(* application information, the PlayList, the marks.                       *)

Magic == 77
AppAt == 40
AppSize == 14
MarkSize == 14

EncodedMark(m) ==
    <<0, m.type>> \o Wide(m.item, 2) \o Wide(m.time, 4) \o Wide(m.pid, 2) \o Wide(m.duration, 4)

EncodedList(list) ==
    LET app == <<0, list.app.type>> \o Wide(list.app.count, 2) \o Wide(list.app.uoMask, 8)
                 \o <<32 * list.app.flags, 0>>
        body == Zeros(2) \o Wide(Len(list.items), 2) \o Wide(Len(list.paths), 2)
                  \o Flat([k \in DOMAIN list.items |-> EncodedItem(list.items[k])])
                  \o Flat([k \in DOMAIN list.paths |-> EncodedPath(list.paths[k])])
        marks == Wide(Len(list.marks), 2)
                   \o Flat([k \in DOMAIN list.marks |-> EncodedMark(list.marks[k])])
        start == AppAt + 4 + AppSize
    IN  Wide(Magic, 8) \o Wide(start, 4) \o Wide(start + 4 + Len(body), 4) \o Zeros(24)
          \o Wide(AppSize, 4) \o app \o Wide(Len(body), 4) \o body \o Wide(Len(marks), 4) \o marks

AppParses(buf) ==
    /\ Len(buf) >= AppAt + 4 /\ At(buf, 0) = Magic
    /\ At(buf, AppAt) >= AppSize /\ Fits(buf, AppAt + 4, At(buf, AppAt))

\* No marks when their address is not in the file.
MarksAt(buf, at) ==
    LET count == At(buf, at + 4)
        mark(p) == [type |-> At(buf, p + 1), item |-> At(buf, p + 2), time |-> At(buf, p + 4),
                    pid |-> At(buf, p + 8), duration |-> At(buf, p + 10)]
    IN  IF at = 0 \/ at >= Len(buf) THEN [got |-> <<>>]
        ELSE IF ~Fits(buf, at, 6) THEN Refused
        ELSE IF ~Fits(buf, at + 6, MarkSize * count) THEN Refused
        ELSE [got |-> [k \in 1..count |-> mark(at + 6 + MarkSize * (k - 1))]]

ParsedList(buf) ==
    LET start == At(buf, 8)
        items == Repeated(buf, At(buf, start + 6), 2, start + 10, LAMBDA p, k : ItemAt(buf, p))
        paths == Repeated(buf, At(buf, start + 8), 4, items.pos, LAMBDA p, k : PathAt(buf, p))
        marks == MarksAt(buf, At(buf, 12))
    IN  IF ~AppParses(buf) THEN Refused
        ELSE IF ~Fits(buf, start, 10) THEN Refused
        ELSE IF ~Fits(buf, start + 4, At(buf, start)) \/ items = Refused THEN Refused
        ELSE IF paths = Refused \/ marks = Refused THEN Refused
        ELSE [app |-> [type |-> At(buf, AppAt + 5), count |-> At(buf, AppAt + 6),
                       uoMask |-> At(buf, AppAt + 8), flags |-> At(buf, AppAt + 16) \div 32],
              items |-> items.got, paths |-> paths.got, marks |-> marks.got]
=============================================================================

-------------------------------- MODULE Disc --------------------------------
(***************************************************************************)
(* What a mounted disc lists (src/src/disc.rs): the titles of its          *)
(* index.bdmv with the durations and languages of their PlayLists, the     *)
(* tracks of a PlayList, and the title and chapters that a bluray:// URI   *)
(* asks for (src/src/source.rs).  Pure operators.                          *)
(*                                                                         *)
(* lists maps an id to the PlayList of its .mpls file, or to Refused when   *)
(* the file does not parse.  A title is [id, kind, playlist, duration,      *)
(* languages], a track [pid, class, coding, language, count].               *)
(***************************************************************************)
EXTENDS Scripts, Mpls
LOCAL INSTANCE FiniteSets
LOCAL INSTANCE SequencesExt
Timeline == INSTANCE Chapters

\* Letters of a language: unset, lower case, the same in capitals, not ASCII.
NoLanguage == 0
Capitals == 60..69
Lower(language) == language - 10
\* decode_lang_code
Language(code) ==
    IF code = NotText THEN NoLanguage ELSE IF code \in Capitals THEN Lower(code) ELSE code

HasLanguage(class) == ~IsVideo(class)

\* All the streams of a PlayList, PlayItem by PlayItem and class by class.
AllStreams(list) == Flat([k \in DOMAIN list.items |-> list.items[k].streams])

\* collect_languages
Languages(list) ==
    {Language(s.extra) : s \in {t \in ToSet(AllStreams(list)) : HasLanguage(t.class)}}
      \ {NoLanguage}

ListDuration(list) ==
    FoldLeft(LAMBDA sum, item : sum + Timeline!Duration(item), 0, list.items)

-----------------------------------------------------------------------------
(* Titles.                                                                 *)

\* resolve_title_playlist: the id of the Movie Object is taken for that of the
\* PlayList; a BD-J title gets the first.
PlaylistOf(entry) == IF entry.kind = "hdmv" THEN entry.ref ELSE 0

ListIn(lists, id) == IF id \in DOMAIN lists THEN lists[id] ELSE Refused

\* mount: refused with its index; a PlayList that cannot be read has no duration.
Mount(index, lists) ==
    LET title(k) ==
          LET entry == index.titles[k]
              list == ListIn(lists, PlaylistOf(entry))
          IN  [id |-> k, kind |-> entry.kind, playlist |-> PlaylistOf(entry),
               duration |-> IF list = Refused THEN 0 ELSE ListDuration(list),
               languages |-> IF list = Refused THEN {} ELSE Languages(list)]
    IN  IF index = Refused THEN Refused
        ELSE [titles |-> [k \in DOMAIN index.titles |-> title(k)]]

\* longest_title: max_by_key gives the last of the longest; 0 for none.
Longest(titles) ==
    LET hdmv == {k \in DOMAIN titles : titles[k].kind = "hdmv"}
    IN  IF hdmv = {} THEN 0
        ELSE CHOOSE k \in hdmv :
               \A j \in hdmv : \/ titles[j].duration < titles[k].duration
                               \/ titles[j].duration = titles[k].duration /\ j <= k

\* unique_titles: the first title of each PlayList but the placeholder.
Placeholder == 16384
Unique(titles) ==
    {k \in DOMAIN titles :
       /\ titles[k].playlist # Placeholder
       /\ \A j \in 1..(k - 1) : titles[j].playlist # titles[k].playlist}

-----------------------------------------------------------------------------
(* Tracks.                                                                 *)

KeyOf(s) == <<s.class, s.pid>>

\* mutant: streams that are not in the main mux listed too
EveryStream(list) == AllStreams(list)
\* A stream that is not in the main mux has no PID, and no track.
MuxedStreams(list) == SelectSeq(AllStreams(list), LAMBDA s : s.pid # 0)

\* build_track_catalogue: a track is what its first listing says and counts
\* the listings; they are sorted by class, then by PID.
Tracks(list) ==
    LET listed == MuxedStreams(list)
        firsts == {k \in DOMAIN listed : \A j \in 1..(k - 1) : KeyOf(listed[j]) # KeyOf(listed[k])}
        before(j, k) ==
          \/ listed[j].class < listed[k].class
          \/ listed[j].class = listed[k].class /\ listed[j].pid < listed[k].pid
        sorted == SetToSortSeq(firsts, before)
        track(s) ==
          [pid |-> s.pid, class |-> s.class, coding |-> s.coding,
           language |-> IF HasLanguage(s.class) THEN Language(s.extra) ELSE NoLanguage,
           count |-> Cardinality({k \in DOMAIN listed : KeyOf(listed[k]) = KeyOf(s)})]
    IN  [k \in DOMAIN sorted |-> track(listed[sorted[k]])]

-----------------------------------------------------------------------------
(* URIs.  A query is a sequence of pairs [key, value]; a value is a        *)
(* sequence of tokens: numbers, Comma, Dash, and Word for anything else,    *)
(* a space between two numbers too.                                        *)

Comma == -1
Dash == -2
Word == -3

IsNumber(value) == Len(value) = 1 /\ value[1] >= 1
Positions(value, token) == {k \in DOMAIN value : value[k] = token}

\* The parts of a value between its commas.
Parts(value) ==
    FoldLeft(LAMBDA parts, token :
               IF token = Comma THEN Append(parts, <<>>)
               ELSE [parts EXCEPT ![Len(parts)] = Append(@, token)],
             << <<>> >>, value)

Asked(kind, first, last, ids) == [kind |-> kind, first |-> first, last |-> last, ids |-> ids]
AllChapters == Asked("all", 0, 0, <<>>)

\* parse_chapter_selector.  A comma makes a list, else a dash a range; last is 0
\* for an open range.
ParsedSelector(value) ==
    LET parts == Parts(value)
        dash == CHOOSE k \in Positions(value, Dash) : \A j \in Positions(value, Dash) : k <= j
        from == SubSeq(value, 1, dash - 1)
        to == SubSeq(value, dash + 1, Len(value))
    IN  IF Positions(value, Comma) # {}
          THEN IF \A k \in DOMAIN parts : IsNumber(parts[k])
                 THEN Asked("list", 0, 0, [k \in DOMAIN parts |-> parts[k][1]]) ELSE Refused
        ELSE IF Positions(value, Dash) # {}
          THEN IF ~IsNumber(from) \/ ~(to = <<>> \/ IsNumber(to)) THEN Refused
               ELSE IF to # <<>> /\ to[1] < from[1] THEN Refused
               ELSE Asked("range", from[1], IF to = <<>> THEN 0 ELSE to[1], <<>>)
        ELSE IF IsNumber(value) THEN Asked("list", 0, 0, value) ELSE Refused

\* parse_query: the last pair of a key counts.  An empty pair is skipped, one
\* without "=" or with another key refuses the URI.
ParsedQuery(query) ==
    FoldLeft(LAMBDA got, pair :
               IF got = Refused \/ pair.key = "empty" THEN got
               ELSE IF pair.key = "title" /\ IsNumber(pair.value)
                 THEN [got EXCEPT !.title = pair.value[1]]
               ELSE IF pair.key = "chapters" /\ ParsedSelector(pair.value) # Refused
                 THEN [got EXCEPT !.chapters = ParsedSelector(pair.value)]
               ELSE Refused,
             [title |-> 0, chapters |-> AllChapters], query)

\* Disc::chapters of a title: the entry-marks of its PlayList.
ChapterCount(list) ==
    IF list = Refused THEN 0
    ELSE Len(Timeline!ChapterStarts(list.items,
               [k \in DOMAIN list.marks |->
                  [entry |-> list.marks[k].type = 1, item |-> list.marks[k].item,
                   time |-> list.marks[k].time]]))

\* open_bluray_multi_title: the title named, or the longest; the end of a range is
\* not compared with the number of chapters.
Opened(disc, lists, query) ==
    LET asked == ParsedQuery(query)
        title == IF asked.title # 0 THEN asked.title ELSE Longest(disc.titles)
        count == ChapterCount(ListIn(lists, disc.titles[title].playlist))
        last == IF asked.chapters.last = 0 THEN count ELSE asked.chapters.last
    IN  IF asked = Refused \/ disc = Refused THEN Refused
        ELSE IF title \notin DOMAIN disc.titles THEN Refused
        ELSE IF asked.chapters.kind = "range" /\ asked.chapters.first > last THEN Refused
        ELSE [title |-> title, whole |-> asked.chapters.kind = "all",
              ids |-> CASE asked.chapters.kind = "all" -> <<>>
                        [] asked.chapters.kind = "list" -> asked.chapters.ids
                        [] OTHER -> [k \in 1..(last - asked.chapters.first + 1) |->
                                       asked.chapters.first + k - 1]]
=============================================================================

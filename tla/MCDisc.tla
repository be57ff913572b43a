------------------------------- MODULE MCDisc -------------------------------
(***************************************************************************)
(* An authoring tool writes the titles of index.bdmv and some PlayLists, or*)
(* the Movie Objects, or works at one PlayList (MCMpls).  Then one of the  *)
(* files is cut short, or one of its cells is changed.                     *)
(***************************************************************************)
EXTENDS MCMpls
LOCAL INSTANCE FiniteSets
LOCAL INSTANCE SequencesExt

CONSTANTS
    MaxTitles,      \* titles of the index
    MaxObjects,     \* Movie Objects
    Values          \* what a cell of a navigation file may be changed to

VARIABLES
    entries,        \* the titles, as authored
    objects,        \* the Movie Objects, as authored
    lists,          \* the PlayLists, as authored: id -> PlayList, or Refused if torn
    nav,            \* the cells of the navigation file that was hit
    navFate         \* Authored, Cut, or the cell that was changed

navVars == <<entries, objects, lists, nav, navFate>>
discVars == <<listVars, navVars>>

FewValues == {0, 30, NotText}
SmallValues == {0, 1, 64, 128, 192, NotText}

Hdmv(ref) == [kind |-> "hdmv", playback |-> 1, ref |-> ref]
BdJ(name) == [kind |-> "bdj", playback |-> 2, ref |-> name]
Index(titles) ==
    [mode |-> 1, exists |-> 0, format |-> 6, rate |-> 2,
     first |-> Hdmv(3), menu |-> BdJ(31), titles |-> titles]
AnyEntry == {Hdmv(0), Hdmv(1), BdJ(32), Hdmv(Placeholder)}

\* Commands worked out in hex by the documents and the tests of the repository,
\* and what they are: JumpTitle 1; compare two immediates; GPR 1 := 1;
\* SetButtonPage with a register of the secondary bank; a group nobody knows.
Bytes(op, aHigh, aLow, bHigh, bLow) == op \o <<aHigh, 0, aLow, 0, bHigh, 0, bLow, 0>>
Worked ==
    {[bytes |-> Bytes(<<33, 129, 0, 0>>, 0, 1, 0, 0), op |-> "JumpTitle",
      a |-> <<"imm", 1>>, b |-> <<"none", 0>>],
     [bytes |-> Bytes(<<72, 192, 2, 0>>, 0, 1, 0, 1), op |-> "Eq",
      a |-> <<"imm", 1>>, b |-> <<"imm", 1>>],
     [bytes |-> Bytes(<<72, 64, 2, 0>>, 32768, 4, 0, 2), op |-> "Eq",
      a |-> <<"psr", 4>>, b |-> <<"imm", 2>>],
     [bytes |-> Bytes(<<80, 64, 0, 1>>, 0, 1, 0, 1), op |-> "Move",
      a |-> <<"gpr", 1>>, b |-> <<"imm", 1>>],
     [bytes |-> Bytes(<<81, 0, 0, 3>>, 49152, 10, 49152, 11), op |-> "SetButtonPage",
      a |-> <<"psr2", 10>>, b |-> <<"psr2", 11>>],
     [bytes |-> Bytes(<<88, 0, 5, 9>>, 0, 0, 0, 0), op |-> "Unknown",
      a |-> <<"gpr", 0>>, b |-> <<"gpr", 0>>]}
Command(op) == (CHOOSE w \in Worked : w.op = op).bytes
Object(resume, commands) ==
    [resume |-> resume, menuMask |-> 1 - resume, searchMask |-> 1, commands |-> commands]
AnyObject ==
    {Object(0, <<>>), Object(1, <<Command("Move"), Command("JumpTitle")>>),
     Object(1, <<Command("SetButtonPage")>>)}

\* PlayLists: two PlayItems that agree on a stream and differ on others, one of
\* which is out of the mux; a short one with none; one that ends before it starts.
Listed(class, pid, extra) == [Stream(class, extra) EXCEPT !.pid = pid]
Timed(inTime, outTime, streams) ==
    [Item(31, 1, <<>>, streams) EXCEPT !.inTime = inTime, !.outTime = outTime]
List(items, times) ==
    [app |-> [type |-> 1, count |-> 0, uoMask |-> 9, flags |-> 5], items |-> items, paths |-> <<>>,
     marks |-> [k \in DOMAIN times |-> [type |-> 1, item |-> 0, time |-> times[k],
                                         pid |-> 0, duration |-> 0]]]
AnyList ==
    {List(<<Timed(10, 40, <<Listed(1, 20, 3), Listed(2, 22, 51), Listed(2, 21, 62), Listed(3, 30, 53)>>),
            Timed(5, 15, <<Listed(2, 22, 54), Listed(2, 0, 55), Listed(2, 22, 51), Listed(3, 30, NotText),
                          Listed(6, 25, 2)>>)>>, <<15, 5, 20>>),
     List(<<Timed(0, 5, <<>>)>>, <<0>>),
     List(<<Timed(9, 8, <<Listed(5, 21, 0), Listed(7, 22, 62)>>)>>, <<>>)}
ListIds == {0, 1}

NavInit ==
    /\ entries = <<>> /\ objects = <<>> /\ lists = [id \in {} |-> Refused]
    /\ nav = <<>> /\ navFate = Authored
Init == ListInit /\ NavInit

NoNav == entries = <<>> /\ objects = <<>> /\ lists = <<>>
NoList == list.items = <<>> /\ list.paths = <<>> /\ list.marks = <<>>

AddTitle ==
    /\ objects = <<>> /\ Len(entries) < MaxTitles
    /\ \E e \in AnyEntry : entries' = Append(entries, e)
    /\ UNCHANGED <<objects, lists>>
AddObject ==
    /\ entries = <<>> /\ lists = <<>> /\ Len(objects) < MaxObjects
    /\ \E o \in AnyObject : objects' = Append(objects, o)
    /\ UNCHANGED <<entries, lists>>
AddList ==
    /\ entries = <<>> /\ objects = <<>>
    /\ \E id \in ListIds \ DOMAIN lists, l \in AnyList \union {Refused} :
         lists' = [i \in DOMAIN lists \union {id} |-> IF i = id THEN l ELSE lists[i]]
    /\ UNCHANGED <<entries, objects>>

\* The navigation file that can be hit: MovieObject.bdmv or index.bdmv.
Whole == IF objects # <<>> THEN EncodedObjects(objects) ELSE EncodedIndex(Index(entries))
CanBeHit ==
    /\ navFate = Authored /\ lists = <<>>
    /\ Len(objects) = MaxObjects \/ Len(entries) = MaxTitles

CutShort ==
    /\ CanBeHit
    /\ \E n \in 0..(Len(Whole) - 1) : nav' = SubSeq(Whole, 1, n)
    /\ navFate' = Cut /\ UNCHANGED <<entries, objects, lists>>
Damage ==
    /\ CanBeHit
    /\ \E c \in DOMAIN Whole : \E v \in Values \ {Whole[c]} :
         nav' = [Whole EXCEPT ![c] = v] /\ navFate' = c
    /\ UNCHANGED <<entries, objects, lists>>

AuthorNav ==
    /\ navFate = Authored
    /\ AddTitle \/ AddObject \/ AddList
    /\ UNCHANGED <<nav, navFate>>
NavNext == (AuthorNav \/ CutShort \/ Damage) /\ NoList /\ UNCHANGED listVars
Next == NavNext \/ (ListNext /\ NoNav /\ UNCHANGED navVars)
Spec == Init /\ [][Next]_discVars

-----------------------------------------------------------------------------

IsWorked(w) ==
    LET d == Decoded(w.bytes)
        value(o) == IF o.kind = "imm" THEN 65536 * o.high + o.low ELSE o.low
    IN  d.op = w.op /\ <<d.a.kind, value(d.a)>> = w.a /\ <<d.b.kind, value(d.b)>> = w.b

\* The navigation files read back as they were written, and a cut one is refused.
\* A wrong byte in a command changes that command alone, and a wrong byte in a
\* title of the index that title alone, unless it makes a type nobody knows.  The
\* worked commands of the documents decode to what they are said to be
\* (MovieObjects, IndexBdmv, DecodedCommand).
ScriptsReadBack ==
    \A scripts \in {ParsedObjects(nav)}, index \in {ParsedIndex(nav)} :
    LET sizes == [k \in DOMAIN objects |-> Len(EncodedObject(objects[k]))]
        commandCells(k) == Inside(BodyAt + 38, sizes, k, 4)
        titleCells(k) == Inside(BodyAt + 68, [j \in DOMAIN entries |-> 12], k, 0)
        but(parts, k) == [parts EXCEPT ![k] = Refused]
    IN  /\ \A w \in Worked : IsWorked(w)
        /\ navFate = Authored => /\ ParsedObjects(EncodedObjects(objects)) = objects
                              /\ ParsedIndex(EncodedIndex(Index(entries))) = Index(entries)
        /\ navFate = Cut => scripts = Refused /\ index = Refused
        /\ navFate > 0 => \A k \in DOMAIN objects : navFate \in commandCells(k) =>
             /\ scripts # Refused /\ but(scripts, k) = but(objects, k)
             /\ LET old == objects[k].commands
                    new == scripts[k].commands
                IN  Cardinality({c \in DOMAIN new : new[c] # old[c]}) <= 1
        /\ navFate > 0 => \A k \in DOMAIN entries : navFate \in titleCells(k) =>
             \/ index = Refused /\ (nav[navFate] \div 64 \in {0, 3} \/ nav[navFate] = NotText)
             \/ index # Refused /\ but(index.titles, k) = but(entries, k)

-----------------------------------------------------------------------------

\* What the files of the PlayLists and of the index read back as.
ReadLists ==
    [id \in DOMAIN lists |->
       IF lists[id] = Refused THEN ParsedList(<<>>) ELSE ParsedList(EncodedList(lists[id]))]
ReadIndex == ParsedIndex(EncodedIndex(Index(entries)))
Lasts(item) == IF item.outTime < item.inTime THEN 0 ELSE 2 * (item.outTime - item.inTime)

\* Title ids are places in the index; a title lasts as long as its PlayList and
\* has the languages of its tracks; no HDMV title is longer than the one picked.
TitlesTrue(titles) ==
    /\ Len(titles) = Len(entries)
    /\ \A k \in DOMAIN titles :
         LET t == titles[k]
             l == ListIn(lists, t.playlist)
         IN  /\ t.id = k /\ t.kind = entries[k].kind
             /\ IF l = Refused THEN t.duration = 0 /\ t.languages = {}
                ELSE /\ t.duration = FoldLeft(LAMBDA sum, i : sum + Lasts(i), 0, l.items)
                     /\ {track.language : track \in ToSet(Tracks(l))} \ {NoLanguage}
                          \subseteq t.languages
    /\ LET hdmv == {k \in DOMAIN titles : titles[k].kind = "hdmv"} IN
         IF hdmv = {} THEN Longest(titles) = 0
         ELSE Longest(titles) \in hdmv
              /\ \A k \in hdmv : titles[k].duration <= titles[Longest(titles)].duration
    /\ \A k \in DOMAIN titles : titles[k].playlist # Placeholder =>
         Cardinality({j \in Unique(titles) : titles[j].playlist = titles[k].playlist}) = 1

\* Every stream of the main mux has one track of its class, and no track is of
\* anything else; classes follow one another in their order.
TracksTrue ==
    \A l \in {list} \union ({lists[id] : id \in DOMAIN lists} \ {Refused}) :
      \A tracks \in {Tracks(l)} :
      LET streams == UNION {ToSet(l.items[k].streams) : k \in DOMAIN l.items}
      IN  /\ {KeyOf(tracks[k]) : k \in DOMAIN tracks} = {KeyOf(s) : s \in {t \in streams : t.pid # 0}}
          /\ \A j, k \in DOMAIN tracks : j < k =>
               KeyOf(tracks[j]) # KeyOf(tracks[k]) /\ tracks[j].class <= tracks[k].class
          /\ FoldLeft(LAMBDA sum, t : sum + t.count, 0, tracks) =
               FoldLeft(LAMBDA sum, item : sum + Len(SelectSeq(item.streams, LAMBDA s : s.pid # 0)),
                        0, l.items)

Pair(key, value) == [key |-> key, value |-> value]
Tokens == {0, 2, Comma, Dash, Word}
Queries ==
    {<<>>, <<Pair("empty", <<>>)>>, <<Pair("other", <<1>>)>>} \union
    {<<Pair("title", <<n>>)>> : n \in 0..3} \union
    {<<Pair("chapters", <<a, b, c>>)>> : a, b, c \in Tokens} \union
    {<<Pair("title", <<2>>), Pair("chapters", v)>> :
       v \in {<<>>, <<2>>, <<0>>, <<2, Dash>>, <<4, Dash>>, <<Dash, 2>>, <<1, Comma, 2, Dash, 3>>}}

\* Whatever a URI asks for, what is opened is one title of the disc and chapters
\* counted from 1, in the order asked; a range runs upwards and, left open, ends
\* with the title's last chapter.  A URI that names a title and no more is
\* refused only when the disc has no such title.
UriTrue(disc, read) ==
    \A query \in Queries : \A opened \in {Opened(disc, read, query)} :
      LET asked == ParsedQuery(query)
          open == asked.chapters.kind = "range" /\ asked.chapters.last = 0
          count == ChapterCount(ListIn(lists, disc.titles[opened.title].playlist))
      IN  /\ opened # Refused =>
               /\ opened.title \in DOMAIN disc.titles
               /\ asked.title = 0 => disc.titles[opened.title].kind = "hdmv"
               /\ \A k \in DOMAIN opened.ids : opened.ids[k] >= 1
               /\ opened.whole <=> opened.ids = <<>>
               /\ open => opened.ids[Len(opened.ids)] = count
               /\ asked.chapters.kind = "range" =>
                    \A k \in 2..Len(opened.ids) : opened.ids[k] = opened.ids[k - 1] + 1
          /\ query \in {<<Pair("title", <<n>>)>> : n \in 1..3} =>
               (opened = Refused <=> query[1].value[1] > Len(entries))

\* What the disc lists is what was authored, PlayLists that cannot be read and
\* titles that share one included, and a URI opens no more than that
\* (Disc::mount, longest_title, unique_titles, title_streams,
\* open_bluray_multi_title).
CatalogueTrue ==
    /\ fate = Authored => TracksTrue
    /\ NoList /\ objects = <<>> /\ navFate = Authored =>
         \A read \in {ReadLists} : \A disc \in {Mount(ReadIndex, read)} :
           TitlesTrue(disc.titles) /\ UriTrue(disc, read)
=============================================================================

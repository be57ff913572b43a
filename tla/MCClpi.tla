------------------------------- MODULE MCClpi -------------------------------
(***************************************************************************)
(* An authoring tool writes a clip: it adds keyframes in order of time,    *)
(* and starts a new coarse row when it must and, at will, when it need     *)
(* not.  The file it encodes may be cut short.                             *)
(***************************************************************************)
EXTENDS Clpi

CONSTANTS
    MaxEntries,     \* keyframes of the clip
    PtsRange,       \* times are below this
    PtsSteps,       \* times between two keyframes
    SpnSteps        \* packets between two keyframes

VARIABLES
    entries,        \* keyframes, with their exact times
    starts,         \* those that start a coarse row
    rest,           \* the other sections
    len             \* bytes left of the file

clipVars == <<entries, starts, rest, len>>

SmallPtsSteps == {1, 3, 8, 11}
SmallSpnSteps == {1, 4}

Stc(spn) == [pcr |-> 4097, spn |-> spn, start |-> spn, end |-> spn + 9]
Atc(offset, stcs) == [start |-> 0, offset |-> offset, stcs |-> stcs]
VideoStream == [pid |-> 4113, coding |-> 27, format |-> 97, aspect |-> 3, language |-> <<0, 0, 0>>]
AudioStream == [pid |-> 4352, coding |-> 129, format |-> 49, aspect |-> 0, language |-> <<101, 110, 103>>]
Silent == [AudioStream EXCEPT !.language = <<0, 0, 0>>]
Movie == [pid |-> 4113, type |-> 1, entries |-> <<>>]
Uhd == [pid |-> 4114, type |-> 8, entries |-> <<[change |-> TRUE, iEnd |-> 3, pts |-> 2, spn |-> 9]>>]

\* What a clip holds besides its keyframes.
Rests ==
    {[atcs |-> <<>>, programs |-> <<>>, maps |-> <<>>],
     [atcs |-> <<Atc(0, <<Stc(0), Stc(4)>>), Atc(2, <<Stc(7)>>)>>,
      programs |-> <<[pmt |-> 256, streams |-> <<VideoStream, AudioStream, Silent>>]>>,
      maps |-> <<Movie>>],
     [atcs |-> <<Atc(1, <<Stc(3)>>)>>,
      programs |-> <<[pmt |-> 256, streams |-> <<>>], [pmt |-> 257, streams |-> <<VideoStream>>]>>,
      maps |-> <<Movie, Uhd>>]}

Whole == -1
Init ==
    /\ entries = <<>> /\ starts = {} /\ len = Whole
    /\ rest \in Rests

\* What the coarse row must tell: the time above the shared bit, and the packet.
High(e) == <<e.pts \div (2 * CoarseStep), e.spn \div SpnFine>>
AddEntry(dp, ds, new) ==
    /\ Len(entries) < MaxEntries /\ len = Whole
    /\ LET prev == IF entries = <<>> THEN [pts |-> 0, spn |-> 0] ELSE entries[Len(entries)]
           e == [change |-> ds % 2 = 0, iEnd |-> ds % 8, pts |-> prev.pts + dp, spn |-> prev.spn + ds]
       IN  /\ e.pts < PtsRange
           /\ entries = <<>> \/ High(e) # High(prev) => new
           /\ entries' = Append(entries, e)
           /\ starts' = IF new THEN starts \union {Len(entries) + 1} ELSE starts
    /\ UNCHANGED <<rest, len>>

\* entries' times are cut to the unit before they are encoded.
Rounded == [k \in DOMAIN entries |-> [entries[k] EXCEPT !.pts = (@ \div PtsUnit) * PtsUnit]]
Clip ==
    [atcs |-> rest.atcs, programs |-> rest.programs,
     maps |-> IF rest.maps = <<>> THEN <<>> ELSE [rest.maps EXCEPT ![1].entries = Rounded],
     marks |-> 0]
File == EncodedClip(Clip)

CutShort ==
    /\ Len(entries) = 1 /\ len = Whole
    /\ len' \in 0..(File.len - 1)
    /\ UNCHANGED <<entries, starts, rest>>

Next == CutShort \/ \E dp \in PtsSteps, ds \in SpnSteps, new \in BOOLEAN : AddEntry(dp, ds, new)
Spec == Init /\ [][Next]_clipVars

-----------------------------------------------------------------------------

\* A seeker that asks for a time lands less than a unit late, and passes over
\* no keyframe that is truly at or before that time; the next one is truly
\* after it, and the first such (entry_point_at_or_before, entry_point_after).
SeekWithinUnit ==
    \A t \in 0..PtsRange :
      /\ \A k \in AtOrBefore(Rounded, t) :
           /\ k > 1 => entries[k].pts < t + PtsUnit
           /\ \A j \in DOMAIN entries :
                Rounded[j].pts > Rounded[k].pts => entries[j].pts > t
      /\ \A k \in DOMAIN entries : After(Rounded, t) = {} => entries[k].pts < t + PtsUnit
      /\ \A k \in After(Rounded, t) :
           entries[k].pts > t /\ \A j \in 1..(k - 1) : entries[j].pts < t + PtsUnit

\* Every STC id from the first ATC's offset on names one sequence, in the order
\* of the file, and a packet belongs to the last sequence begun
\* (stc_sequence_by_id, stc_sequence_for_spn).
StcFound ==
    LET all == StcSequences(rest.atcs) IN
      /\ \A id \in 0..4 :
           StcById(rest.atcs, id) =
             IF rest.atcs # <<>> /\ id - rest.atcs[1].offset + 1 \in DOMAIN all
               THEN all[id - rest.atcs[1].offset + 1] ELSE Refused
      /\ \A a \in DOMAIN rest.atcs : \A k \in DOMAIN rest.atcs[a].stcs :
           StcForSpn(rest.atcs[a], rest.atcs[a].stcs[k].spn) = rest.atcs[a].stcs[k]

\* A title is indexed by the keyframes of the main video, whatever maps come
\* before it, and a clip that starts at STC 0 has the origin its STC says.
TitleGets(clip) ==
    /\ Rows(clip) = IF Len(rest.maps) = 2 THEN Uhd.entries ELSE IF Len(rest.maps) = 1 THEN Rounded ELSE <<>>
    /\ \A id \in 0..2 : rest.atcs # <<>> /\ rest.atcs[1].offset = 0 =>
         Origin(clip, id) = IF id < Len(rest.atcs[1].stcs) THEN 2 * StcById(rest.atcs, id).start ELSE 0

\* However an authoring tool lays out the coarse rows, and however the encoder
\* of the crate does, the entries rebuilt are those of the clip, to the unit of
\* the map (parse_cpi).
EpRebuilt ==
    /\ Rebuilt(CoarseRows(entries, starts), FineRows(entries)) = Rounded
    /\ Rebuilt(CoarseRows(Rounded, Buckets(Rounded)), FineRows(Rounded)) = Rounded

\* A file reads back as the clip it was encoded from, its keyframes whatever
\* rows they were laid out in.  Cut short it is refused,
\* or has lost sections whole: its entry points, its marks (ClipInformation::
\* encode, parse).  Its STC sequences are found by id and by packet, and a title
\* gets its keyframes and its origin from it.
ReadsBack ==
    \A file \in {IF len = Whole THEN File ELSE [File EXCEPT !.len = len]} :
    \A got \in {ParsedClip(file)} :
      /\ len = Whole => got = Clip /\ TitleGets(got)
      /\ got = Refused => Rows(got) = <<>> /\ Origin(got, 0) = 0
      /\ got # Refused => /\ got.atcs = Clip.atcs /\ got.programs = Clip.programs
                          /\ (got.maps = Clip.maps \/ (got.maps = <<>> /\ file.len <= file.cpi))
      /\ StcFound /\ EpRebuilt
=============================================================================

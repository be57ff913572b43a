----------------------------- MODULE MultiTitle -----------------------------
(***************************************************************************)
(* BluRayMultiTitleSource and BoundedTitleSource (src/src/source.rs), the  *)
(* source behind a bluray:// URI: one title per chapter it names.  Opening *)
(* one positions a TitleSource of its own with the two seeks of            *)
(* ChapterSegments; what the caller gets is that source with a count of    *)
(* the bytes that remain of the chapter.  The caller reads and seeks as it *)
(* likes and goes on after an error.                                       *)
(***************************************************************************)
EXTENDS ChapterSegments

CONSTANTS
    Openings,   \* [title, request]: request is NoChapter for an id out of range
    Positions   \* byte positions the caller seeks to

ASSUME OpeningsAssumption ==
    /\ Positions \subseteq Nat
    /\ \A o \in Openings :
         /\ o.title \in Titles
         /\ o.request \in [id : Nat, from : Nat, to : Nat, final : BOOLEAN]

VARIABLES
    handle,     \* "none", "fresh", "refused", "open"; "segments" for a ChapterSegments
    sought      \* history: the caller has moved the open source

multi == <<handle, sought>>
multiVars == <<segVars, multi>>

\* BoundedTitleSource.remaining: only a read changes it.
Remaining == Want - taken

\* mutant: a read is bounded by its buffer alone
BufferOnly(n) == n
Allowed(n) == Lesser(Remaining, n)

-----------------------------------------------------------------------------
(* open_title.                                                             *)

OpenTitle ==
    /\ handle = "fresh" /\ phase = "idle"
    /\ IF request = NoChapter
         THEN handle' = "refused" /\ UNCHANGED <<phase, endByte>>
         ELSE /\ phase' = IF request.final THEN "start" ELSE "end"
              /\ endByte' = IF request.final THEN Total ELSE 0
              /\ UNCHANGED handle
    /\ UNCHANGED <<vars, requests, request, startByte, taken, segments, sought>>

Positioning == (SeekEnd \/ EndFound \/ SeekStart) /\ UNCHANGED multi

Bounded == StartFound /\ handle' = "open" /\ UNCHANGED sought

OpenFails ==
    /\ phase \in {"ended", "started"} /\ Answered /\ last.op = "error"
    /\ phase' = "idle" /\ handle' = "refused"
    /\ UNCHANGED <<vars, requests, progress, segments, sought>>

-----------------------------------------------------------------------------
(* Read and Seek.  With nothing remaining a read answers Ok(0) and touches *)
(* nothing.                                                                *)

Read(n) ==
    /\ handle = "open" /\ phase = "body" /\ Remaining > 0
    /\ ReadCall(Allowed(n))
    /\ phase' = "handing" /\ UNCHANGED <<requests, progress, segments, multi>>

ReadDone ==
    /\ handle = "open" /\ phase = "handing" /\ Answered
    /\ taken' = taken + last.n
    /\ phase' = "body"
    /\ UNCHANGED <<vars, requests, request, endByte, startByte, segments, multi>>

SeekOpen ==
    /\ handle = "open" /\ phase = "body"
    /\ \/ SeekBeforeStart
       \/ \E to \in Positions : SeekForward(to) \/ SeekBackward(to) \/ SeekBackwardFails(to)
    /\ phase' = "seeking" /\ sought' = TRUE
    /\ UNCHANGED <<requests, progress, segments, handle>>

SeekDone ==
    /\ handle = "open" /\ phase = "seeking" /\ Answered
    /\ phase' = "body"
    /\ UNCHANGED <<vars, requests, progress, segments, multi>>

-----------------------------------------------------------------------------

MultiInit ==
    /\ sought = FALSE
    /\ \/ handle = "segments" /\ SegInit
       \/ /\ handle = "fresh" /\ Init /\ angle = 0
          /\ \E o \in Openings : title = o.title /\ request = o.request
          /\ phase = "idle" /\ requests = <<>> /\ segments = <<>>
          /\ endByte = 0 /\ startByte = 0 /\ taken = 0

\* One call of the title source, run to its end.
TitleCall ==
    \/ Positioning \/ Bounded \/ OpenFails \/ ReadDone \/ SeekDone
    \/ Step /\ UNCHANGED <<client, multi>>

MultiNext ==
    \/ handle = "segments" /\ SegNext /\ UNCHANGED multi
    \/ handle # "segments" /\ (OpenTitle \/ TitleCall \/ SeekOpen \/ \E n \in 1..MaxRead : Read(n))

MultiSpec ==
    /\ MultiInit /\ [][MultiNext]_multiVars
    /\ WF_multiVars(handle = "segments" /\ ReadOne /\ UNCHANGED multi)
    /\ WF_multiVars(handle # "segments" /\ TitleCall)

-----------------------------------------------------------------------------
(* Properties.                                                             *)

\* A source opened on a chapter never hands out more bytes than the chapter
\* has, whatever its caller seeks and however often a read fails.  A caller
\* that does not seek gets the chapter: its bytes in order from the first one
\* on, also by reads repeated after a failure that lost nothing, and the end
\* of the stream not before the last of them.
BoundedKeepsChapter ==
    handle = "open" =>
      /\ taken + (IF phase = "handing" /\ Answered THEN last.n ELSE 0) <= Want
      /\ phase = "handing" /\ Answered /\ ~sought /\ damage = "none" =>
           /\ last.op = "bytes" => last.at = startByte + taken
           /\ last.op # "eof"

\* Every next() of a ChapterSegments returns, and so does every call of the
\* source behind a URI: with the next chapter, the bytes, or an error.
EveryCallReturns ==
    /\ handle = "segments" /\ phase # "idle" ~> phase = "idle"
    /\ handle # "segments" /\ phase \notin {"idle", "body"} ~> phase \in {"idle", "body"}
=============================================================================

-------------------------- MODULE ChapterSegments --------------------------
(***************************************************************************)
(* ChapterSegments (src/src/disc.rs): an iterator that reads a title       *)
(* chapter by chapter through a TitleSource of its own.  Each next() finds *)
(* the end byte and the start byte with seek_to, then reads up to the end; *)
(* every call it makes of the source is a call of TitleSource.             *)
(***************************************************************************)
EXTENDS TitleSource

CONSTANTS
    Selections,     \* titles with requests: [title, requests]
    BufLen          \* bytes asked of read() at once

ASSUME SelectionsAssumption ==
    /\ BufLen \in Nat \ {0}
    /\ \A s \in Selections :
         /\ s.title \in Titles
         /\ s.requests \in Seq([id : Nat, from : Nat, to : Nat, final : BOOLEAN])
         /\ \A j, k \in DOMAIN s.requests :
              s.requests[k].id = s.requests[j].id + 1 =>
                ~s.requests[j].final /\ s.requests[j].to = s.requests[k].from

VARIABLES
    requests,   \* chapters still to be read
    request,    \* the one being read
    phase,      \* where read_one is
    endByte, startByte,
    taken,      \* bytes read so far
    segments    \* history: what next() has returned

progress == <<request, endByte, startByte, taken>>
client == <<requests, progress, phase, segments>>
segVars == <<vars, client>>

NoChapter == [id |-> 0, from |-> 0, to |-> 0, final |-> FALSE]

\* Bytes wanted; a chapter that ends before it starts is empty.
Want == IF startByte < endByte THEN endByte - startByte ELSE 0

Answered == ~Running
Finish(n, ok) ==
    /\ phase' = "idle"
    /\ segments' = Append(segments, [id |-> request.id, from |-> request.from,
                                     final |-> request.final, at |-> startByte,
                                     end |-> endByte, n |-> n, ok |-> ok])

-----------------------------------------------------------------------------

\* mutant: the last chapter ends at the keyframe before the title's end
SeekFirst == "end"
\* The last chapter needs no seek to find its end.
FirstPhase == IF request'.final THEN "start" ELSE "end"

NextSegment ==
    /\ phase = "idle" /\ requests # <<>>
    /\ request' = Head(requests) /\ requests' = Tail(requests)
    /\ phase' = FirstPhase
    /\ endByte' = IF request'.final THEN Total ELSE 0
    /\ startByte' = 0 /\ taken' = 0
    /\ UNCHANGED <<vars, segments>>

SeekEnd ==
    /\ phase = "end" /\ SeekTo(request.to)
    /\ phase' = "ended" /\ UNCHANGED <<requests, progress, segments>>

EndFound ==
    /\ phase = "ended" /\ Answered /\ last.op = "land"
    /\ endByte' = last.n /\ phase' = "start"
    /\ UNCHANGED <<vars, requests, request, startByte, taken, segments>>

SeekStart ==
    /\ phase = "start" /\ SeekTo(request.from)
    /\ phase' = "started" /\ UNCHANGED <<requests, progress, segments>>

StartFound ==
    /\ phase = "started" /\ Answered /\ last.op = "land"
    /\ startByte' = last.n /\ phase' = "body"
    /\ UNCHANGED <<vars, requests, request, endByte, taken, segments>>

ReadMore ==
    /\ phase = "body" /\ taken < Want
    /\ ReadCall(Lesser(Want - taken, BufLen))
    /\ phase' = "reading" /\ UNCHANGED <<requests, progress, segments>>

\* A read that yields nothing ends the chapter where it is.
ReadAnswered ==
    /\ phase = "reading" /\ Answered /\ last.op \in {"bytes", "eof"}
    /\ taken' = taken + last.n
    /\ IF last.n = 0 THEN Finish(taken, TRUE)
                     ELSE phase' = "body" /\ UNCHANGED segments
    /\ UNCHANGED <<vars, requests, request, endByte, startByte>>

ChapterRead ==
    /\ phase = "body" /\ taken >= Want
    /\ Finish(taken, TRUE)
    /\ UNCHANGED <<vars, requests, progress>>

\* An error ends the chapter; the iterator goes on to the next one.
Broken == phase \in {"ended", "started", "reading"} /\ Answered /\ last.op = "error"

\* mutant: a failed read is tried again
ReadAgain ==
    /\ Broken
    /\ IF phase = "reading" THEN phase' = "body" /\ UNCHANGED segments
                            ELSE Finish(taken, FALSE)
    /\ UNCHANGED <<vars, requests, progress>>

ChapterFails ==
    /\ Broken
    /\ Finish(taken, FALSE)
    /\ UNCHANGED <<vars, requests, progress>>

-----------------------------------------------------------------------------

SegInit ==
    /\ Init /\ angle = 0
    /\ \E s \in Selections : title = s.title /\ requests = s.requests
    /\ request = NoChapter /\ phase = "idle"
    /\ endByte = 0 /\ startByte = 0 /\ taken = 0 /\ segments = <<>>

\* What next() does once it has been called.
ReadOne ==
    \/ SeekEnd \/ EndFound \/ SeekStart \/ StartFound
    \/ ReadMore \/ ReadAnswered \/ ChapterRead \/ ChapterFails
    \/ Step /\ UNCHANGED client

SegNext == NextSegment \/ ReadOne

-----------------------------------------------------------------------------
(* Properties.                                                             *)

\* The bytes of a chapter are one run of the title's bytes from its start byte
\* on, also after failures in this chapter or an earlier one: read_one gives
\* up at the first error and both its seeks anchor the source afresh.  A
\* chapter that is returned is whole: its "short read" never happens.
SegmentsAreRuns ==
    /\ phase = "reading" /\ Answered /\ last.op = "bytes" =>
         last.at = startByte + taken
    /\ \A k \in DOMAIN segments :
         LET s == segments[k] IN s.ok => s.n = IF s.at < s.end THEN s.end - s.at ELSE 0

\* Chapters in the order of their times leave out nothing between them and
\* repeat nothing: each ends where the next one starts, and the last one at the
\* end of the title, because read_one finds both ends with the same seek_to. (The
\* boundary caveat of open_title_chapters, disc.rs:315, tells of an overlap of
\* each chapter with the one before it: read_one makes none.)
SegmentsJoin ==
    \A j, k \in DOMAIN segments :
      LET s == segments[j]  t == segments[k] IN
        /\ s.ok /\ t.ok /\ t.id = s.id + 1 /\ s.from <= t.from => s.at + s.n = t.at
        /\ s.ok /\ s.final => s.at + s.n = Total
=============================================================================

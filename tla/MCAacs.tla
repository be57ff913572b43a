------------------------------- MODULE MCAacs -------------------------------
(***************************************************************************)
(* Two processes, two protected discs and an open one: whole, stale and    *)
(* torn caches, key files with lines, device keys or neither.              *)
(***************************************************************************)
EXTENDS Aacs
LOCAL INSTANCE TLC

CONSTANTS p1, p2, d1, d2, clear

SmallCpsUnits == d1 :> <<1, 2>> @@ d2 :> <<1, 2>> @@ clear :> <<>>
SmallSampleUnit == d1 :> 1 @@ d2 :> 2 @@ clear :> 0

SmallWants == p1 :> {d1, d2, clear} @@ p2 :> {d1, d2}

NoEnv == [vuk |-> Unset, mediaKey |-> Unset, volumeId |-> Unset, kcd |-> Unset]

Line(d, ok, vuk, units) == [found |-> TRUE, disc |-> d, ok |-> ok, vuk |-> vuk, units |-> units]
File(lines, keys, cert) ==
  [exists |-> TRUE, readable |-> TRUE, parses |-> TRUE, lines |-> lines,
   deviceKeys |-> keys, hostCert |-> cert]
Unreadable == [File(<<>>, {}, FALSE) EXCEPT !.readable = FALSE]
Garbled == [File(<<>>, {d1}, TRUE) EXCEPT !.parses = FALSE]

Full == File(<<>>, {d1, d2}, TRUE)
Torn == File(<<Line(d1, FALSE, Junk, NoUnits), Line(d1, TRUE, d1, NoUnits)>>, {d2}, TRUE)
OtherUnits == File(<<Line(d2, TRUE, Junk, [u \in {2} |-> d2]),
                     Line(d1, TRUE, d1, [u \in {2} |-> d1])>>, {d1}, TRUE)

World(files, env1, file) ==
  [keydb |-> files, env |-> p1 :> env1 @@ p2 :> [NoEnv EXCEPT !.kcd = d2], cache |-> file]

\* A line of d1: stale, behind a remark and a blank line, and torn after its first piece and after the key.
StaleCache == LinePieces(d1, Junk)
TornCache(n) == SubSeq(LinePieces(d1, d1), 1, n)
Remark == <<Piece("other", Unset), Newline, Newline>>

SmallWorlds ==
  {World(<<Absent, Full>>, NoEnv, <<>>),
   World(<<Full>>, [NoEnv EXCEPT !.kcd = d1], Remark \o StaleCache),
   World(<<File(<<>>, {d1}, TRUE), Garbled>>, [NoEnv EXCEPT !.volumeId = d2], <<>>),
   World(<<File(<<>>, {d1}, TRUE)>>, [NoEnv EXCEPT !.mediaKey = d1, !.volumeId = Malformed], TornCache(3)),
   World(<<File(<<>>, {d1}, FALSE)>>, [NoEnv EXCEPT !.volumeId = Malformed], TornCache(1)),
   World(<<Absent>>, [NoEnv EXCEPT !.vuk = d2], <<>>),
   World(<<Garbled>>, [NoEnv EXCEPT !.vuk = d1], StaleCache),
   World(<<Unreadable>>, [NoEnv EXCEPT !.mediaKey = d1], <<>>),
   World(<<File(<<>>, {}, TRUE)>>, [NoEnv EXCEPT !.vuk = Malformed, !.mediaKey = d1], <<>>),
   World(<<Torn, Absent>>, [NoEnv EXCEPT !.mediaKey = d2, !.volumeId = d1], <<>>),
   World(<<OtherUnits>>, [NoEnv EXCEPT !.mediaKey = d1], TornCache(1))}
=============================================================================

----------------------------- MODULE Aacs_proofs -----------------------------
(***************************************************************************)
(* What TLAPS proves of Aacs, for any number of processes and discs, any   *)
(* key files, environments and first caches, and crashes at any point: the *)
(* keys that are handed out decrypt, every writer of the cache writes a    *)
(* line that is true of its disc, and up to the first line that writers    *)
(* tear a reader finds only such lines and those the file began with.      *)
(* Nothing is assumed of what the sources of keys answer: only the trial   *)
(* vouches for a key.                                                      *)
(***************************************************************************)
EXTENDS Aacs, SequenceTheorems, WellFoundedInduction, TLAPS

Labels == {"idle", "env", "keydb", "cache", "online", "verify", "check", "append"}

Job(disc, source, entry, toWrite) ==
  [disc |-> disc, source |-> source, entry |-> entry, toWrite |-> toWrite]

JobShape(j) == j = Job(j.disc, j.source, j.entry, j.toWrite)

\* A key worth handing out: it passed the trial, of a disc that has one.
Tried(entry, d) == d \in Protected /\ TrialDecrypts(entry, d)

\* The pieces from i on of the line that is true of disc d.
RestOfLine(d, i) == SubSeq(LinePieces(d, d), i, 5)

\* Where a process stands: it works on a protected disc, tries keys before it
\* caches or hands them out, and caches only what it found online, which comes
\* without unit keys and so is a Volume Unique Key.
StandsAt(label, j) ==
  /\ label \in Labels /\ JobShape(j)
  /\ label # "idle" => j.disc \in Protected
  /\ j.source = "online" => j.entry.units = NoUnits
  /\ label \in {"check", "append"} => j.source = "online" /\ Tried(j.entry, j.disc)
  /\ label = "append" => \E i \in 1..5 : j.toWrite = RestOfLine(j.disc, i)

KeysTried ==
  /\ DOMAIN pc = Procs /\ DOMAIN job = Procs
  /\ \A p \in Procs : StandsAt(pc[p], job[p])
  /\ outcome.given = "keys" => Tried(outcome.entry, outcome.disc)

-----------------------------------------------------------------------------
(* Keys.                                                                   *)

\* A Volume Unique Key that passed the trial is the disc's own.
LEMMA TriedVuk ==
  ASSUME NEW entry, NEW d, Tried(entry, d), entry.units = NoUnits
  PROVE  entry.vuk = d
<1>1. PICK i \in DOMAIN CpsUnits[d] : TitleKeys(entry, d)[i] = d
  BY DEF Tried, TrialDecrypts, DecryptsTo
<1>2. DOMAIN entry.units = {}  BY DEF NoUnits
<1>3. TitleKeys(entry, d)[i] = entry.vuk  BY <1>1, <1>2 DEF TitleKeys
<1> QED  BY <1>1, <1>3

\* When the first stream is under the first unit, the key the decryptor uses,
\* that of the first unit, is the one the trial found.
LEMMA TriedFirst ==
  ASSUME NEW entry, NEW d, Tried(entry, d), CpsUnits[d][1] = SampleUnit[d]
  PROVE  TitleKeys(entry, d)[1] = d
<1>1. PICK i \in DOMAIN CpsUnits[d] :
         TitleKeys(entry, d)[i] = d /\ CpsUnits[d][i] = SampleUnit[d]
  BY DEF Tried, TrialDecrypts, DecryptsTo
<1>2. CpsUnits[d] \in Seq(Nat)  BY DiscsAssumption DEF Tried
<1>3. 1 \in DOMAIN CpsUnits[d]  BY <1>1, <1>2, LenProperties
<1>4. \A k \in DOMAIN CpsUnits[d] : CpsUnits[d][k] = SampleUnit[d] =>
         TitleKeys(entry, d)[k] =
           IF DOMAIN entry.units = {} THEN entry.vuk
           ELSE IF SampleUnit[d] \in DOMAIN entry.units THEN entry.units[SampleUnit[d]]
           ELSE NoKey
  BY DEF TitleKeys
<1> QED  BY <1>1, <1>3, <1>4

-----------------------------------------------------------------------------
(* Lines.                                                                  *)

Pieces(d) == {Piece("disc id", d), Piece("= V", NoKey), Piece("vuk", d), Provenance, Newline}

LEMMA LineFacts ==
  ASSUME NEW d
  PROVE  /\ LinePieces(d, d) \in Seq(Pieces(d)) /\ Len(LinePieces(d, d)) = 5
         /\ RestOfLine(d, 1) = LinePieces(d, d)
<1>1. LinePieces(d, d) \in Seq(Pieces(d)) /\ Len(LinePieces(d, d)) = 5
  BY DEF LinePieces, Pieces
<1>2. RestOfLine(d, 1) = LinePieces(d, d)
  <2> DEFINE l == LinePieces(d, d)
  <2>1. l \in Seq(Pieces(d)) /\ Len(l) = 5  BY <1>1
  <2> HIDE DEF l
  <2>2. SubSeq(l, 1, 5) = l  BY <2>1
  <2> QED  BY <2>2 DEF RestOfLine, l
<1> QED  BY <1>1, <1>2

\* Writing one piece leaves the pieces behind it.
LEMMA RestFacts ==
  ASSUME NEW d, NEW i \in 1..5
  PROVE  /\ Head(RestOfLine(d, i)) = LinePieces(d, d)[i]
         /\ Len(RestOfLine(d, i)) = 6 - i
         /\ i < 5 => Tail(RestOfLine(d, i)) = RestOfLine(d, i + 1)
<1> DEFINE l == LinePieces(d, d)  S == Pieces(d)
<1>1. l \in Seq(S) /\ Len(l) = 5  BY LineFacts
<1> HIDE DEF l, S
<1>2. Head(SubSeq(l, i, 5)) = l[i] /\ Tail(SubSeq(l, i, 5)) = SubSeq(l, i + 1, 5)
  BY <1>1, HeadTailOfSubSeq
<1>3. Len(SubSeq(l, i, 5)) = 6 - i
  <2>1. \A k \in 1..Len(l) : l[k] \in S  BY <1>1, ElementOfSeq
  <2>2. \A k \in i..5 : l[k] \in S  BY <1>1, <2>1
  <2> QED  BY <2>2, SubSeqProperties
<1> QED  BY <1>2, <1>3 DEF RestOfLine, l

-----------------------------------------------------------------------------
(* The steps.                                                              *)

\* What stays true when one process moves.
LEMMA OneMoves ==
  ASSUME KeysTried, NEW p \in Procs, NEW label, NEW j,
         pc' = [pc EXCEPT ![p] = label], job' = [job EXCEPT ![p] = j],
         StandsAt(label, j), outcome'.given = "keys" => Tried(outcome'.entry, outcome'.disc)
  PROVE  KeysTried'
<1>1. DOMAIN pc' = Procs /\ DOMAIN job' = Procs  BY DEF KeysTried
<1>2. ASSUME NEW q \in Procs  PROVE StandsAt(pc'[q], job'[q])
  <2>1. CASE q = p  BY <2>1 DEF KeysTried
  <2>2. CASE q # p  BY <2>2 DEF KeysTried
  <2> QED  BY <2>1, <2>2
<1> QED  BY <1>1, <1>2 DEF KeysTried

\* Silence hands out nothing.
LEMMA SilentIsHarmless == Silent => outcome'.given # "keys"
BY DEF Silent, NoAnswer

LEMMA NoJobStands == StandsAt("idle", NoJob)
BY DEF StandsAt, NoJob, NoEntry, JobShape, Job, Labels

LEMMA AnswerKeeps ==
  ASSUME KeysTried, NEW p \in Procs, NEW d, NEW entry, NEW found \in {"none", "keys", "error"},
         Answer(p, d, entry, found), found = "keys" => Tried(entry, d)
  PROVE  KeysTried'
<1>1. /\ pc' = [pc EXCEPT ![p] = "idle"] /\ job' = [job EXCEPT ![p] = NoJob]
      /\ \E given \in Opened(d, found) :
            outcome' = [disc |-> d, given |-> given, entry |-> entry]
  BY DEF Answer, Goto
<1>2. PICK given \in Opened(d, found) :
         outcome' = [disc |-> d, given |-> given, entry |-> entry]
  BY <1>1
<1>3. given = "keys" => found = "keys"
  BY DEF Opened, BytesOpener, TitlesOpener
<1>4. outcome'.given = "keys" => Tried(outcome'.entry, outcome'.disc)  BY <1>2, <1>3
<1> QED  BY <1>1, <1>4, NoJobStands, OneMoves

\* A step on to the next source of keys.
LEMMA MoveOnKeeps ==
  ASSUME KeysTried, NEW p \in Procs, pc[p] # "idle",
         NEW label \in {"keydb", "cache", "online"}, Goto(p, label), UNCHANGED job, Silent
  PROVE  KeysTried'
<1>1. StandsAt(pc[p], job[p])  BY DEF KeysTried
<1>2. StandsAt(label, job[p])  BY <1>1 DEF StandsAt, Labels
<1>3. \A q \in Procs : StandsAt(pc'[q], job'[q])
  <2> SUFFICES ASSUME NEW q \in Procs  PROVE StandsAt(pc'[q], job'[q])
    OBVIOUS
  <2>1. pc' = [pc EXCEPT ![p] = label] /\ job' = job  BY DEF Goto
  <2>2. CASE q = p  BY <1>2, <2>1, <2>2 DEF KeysTried
  <2>3. CASE q # p  BY <2>1, <2>3 DEF KeysTried
  <2> QED  BY <2>2, <2>3
<1>4. DOMAIN pc' = Procs /\ DOMAIN job' = Procs  BY DEF KeysTried, Goto
<1> QED  BY <1>3, <1>4, SilentIsHarmless DEF KeysTried

\* A source of keys has answered.
LEMMA ResolvedKeeps ==
  ASSUME KeysTried, NEW p \in Procs, pc[p] # "idle", NEW source, NEW entry,
         source = "online" => entry.units = NoUnits, Resolved(p, source, entry)
  PROVE  KeysTried'
<1> DEFINE j == Job(job[p].disc, source, entry, job[p].toWrite)
<1>1. StandsAt(pc[p], job[p])  BY DEF KeysTried
<1>2. job[p] = Job(job[p].disc, job[p].source, job[p].entry, job[p].toWrite)
  BY <1>1 DEF StandsAt, JobShape
<1>3. [job[p] EXCEPT !.source = source, !.entry = entry] = j
  <2>1. [job[p] EXCEPT !.source = source]
          = Job(job[p].disc, source, job[p].entry, job[p].toWrite)
    BY <1>2 DEF Job
  <2>2. [Job(job[p].disc, source, job[p].entry, job[p].toWrite) EXCEPT !.entry = entry] = j
    BY DEF Job
  <2> QED  BY <2>1, <2>2
<1>4. p \in DOMAIN job  BY DEF KeysTried
<1>5. job' = [job EXCEPT ![p] = [job[p] EXCEPT !.source = source, !.entry = entry]]
  BY <1>4 DEF Resolved
<1>6. job' = [job EXCEPT ![p] = j]  BY <1>3, <1>5
<1>7. StandsAt("verify", j)  BY <1>1 DEF StandsAt, JobShape, Job, Labels
<1>8. pc' = [pc EXCEPT ![p] = "verify"] /\ Silent  BY DEF Resolved, Goto
<1> HIDE DEF j
<1> QED  BY <1>6, <1>7, <1>8, SilentIsHarmless, OneMoves

LEMMA OpenKeeps ==
  ASSUME KeysTried, NEW p \in Procs, NEW d, Open(p, d)
  PROVE  KeysTried'
<1>1. CASE Answer(p, d, NoEntry, "none")  BY <1>1, AnswerKeeps
<1>2. CASE /\ d \in Protected /\ Goto(p, "env") /\ Silent
           /\ job' = [job EXCEPT ![p] = [NoJob EXCEPT !.disc = d]]
  <2>1. StandsAt("env", [NoJob EXCEPT !.disc = d])
    BY <1>2 DEF StandsAt, NoJob, NoEntry, JobShape, Job, Labels
  <2>2. pc' = [pc EXCEPT ![p] = "env"]  BY <1>2 DEF Goto
  <2> QED  BY <1>2, <2>1, <2>2, SilentIsHarmless, OneMoves
<1> QED  BY <1>1, <1>2 DEF Open

LEMMA FromEnvKeeps ==
  ASSUME KeysTried, NEW p \in Procs, FromEnv(p)
  PROVE  KeysTried'
<1>1. pc[p] # "idle"  BY DEF FromEnv
<1>2. PICK v \in EnvVuks(p, job[p].disc) :
         \/ Resolved(p, "env", Entry(v, NoUnits))
         \/ Goto(p, "keydb") /\ UNCHANGED job /\ Silent
  BY DEF FromEnv
<1> QED  BY <1>1, <1>2, ResolvedKeeps, MoveOnKeeps

\* A file was searched for the disc's line.
LEMMA LookupKeeps ==
  ASSUME KeysTried, NEW p \in Procs, pc[p] # "idle", NEW source \in {"keydb", "cache"},
         NEW lines, NEW label \in {"keydb", "cache", "online"}, Lookup(p, source, lines, label)
  PROVE  KeysTried'
<1> DEFINE line == FirstLine(lines, job[p].disc)
<1>1. \/ Resolved(p, source, Entry(line.vuk, line.units))
      \/ Goto(p, label) /\ UNCHANGED job /\ Silent
  BY DEF Lookup
<1> HIDE DEF line
<1> QED  BY <1>1, ResolvedKeeps, MoveOnKeeps

LEMMA FromKeydbKeeps ==
  ASSUME KeysTried, NEW p \in Procs, FromKeydb(p)
  PROVE  KeysTried'
<1>1. pc[p] # "idle"  BY DEF FromKeydb
<1>2. \/ Goto(p, "cache") /\ UNCHANGED job /\ Silent
      \/ Answer(p, job[p].disc, job[p].entry, "error")
      \/ Lookup(p, "keydb", KeydbFile.lines, "cache")
  BY DEF FromKeydb
<1> QED  BY <1>1, <1>2, MoveOnKeeps, AnswerKeeps, LookupKeeps

LEMMA FromCacheKeeps ==
  ASSUME KeysTried, NEW p \in Procs, FromCache(p)
  PROVE  KeysTried'
<1>1. pc[p] # "idle"  BY DEF FromCache
<1>2. \/ Answer(p, job[p].disc, NoEntry, "error")
      \/ Lookup(p, "cache", CacheLines, "online")
  BY DEF FromCache
<1> QED  BY <1>1, <1>2, AnswerKeeps, LookupKeeps

LEMMA OnlineKeeps ==
  ASSUME KeysTried, NEW p \in Procs, Online(p)
  PROVE  KeysTried'
<1>1. pc[p] # "idle"  BY DEF Online
<1>2. \/ \E found \in {"none", "error"} : Answer(p, job[p].disc, job[p].entry, found)
      \/ \E v : Resolved(p, "online", Entry(v, NoUnits))
  BY DEF Online
<1>3. ASSUME NEW v, Resolved(p, "online", Entry(v, NoUnits))  PROVE KeysTried'
  BY <1>1, <1>3, ResolvedKeeps DEF Entry
<1> QED  BY <1>2, <1>3, AnswerKeeps

LEMMA VerifyKeeps ==
  ASSUME KeysTried, NEW p \in Procs, Verify(p)
  PROVE  KeysTried'
<1>1. StandsAt("verify", job[p])  BY DEF KeysTried, Verify
<1>2. job[p].disc \in Protected  BY <1>1 DEF StandsAt
<1>3. \/ Answer(p, job[p].disc, job[p].entry, "none")
      \/ /\ TrialDecrypts(job[p].entry, job[p].disc)
         /\ Answer(p, job[p].disc, job[p].entry, "keys")
      \/ /\ TrialDecrypts(job[p].entry, job[p].disc) /\ job[p].source = "online"
         /\ Goto(p, "check") /\ UNCHANGED job /\ Silent
  BY DEF Verify
<1>4. CASE Answer(p, job[p].disc, job[p].entry, "none")  BY <1>4, AnswerKeeps
<1>5. CASE /\ TrialDecrypts(job[p].entry, job[p].disc)
           /\ Answer(p, job[p].disc, job[p].entry, "keys")
  BY <1>2, <1>5, AnswerKeeps DEF Tried
<1>6. CASE /\ TrialDecrypts(job[p].entry, job[p].disc) /\ job[p].source = "online"
           /\ Goto(p, "check") /\ UNCHANGED job /\ Silent
  <2>1. StandsAt("check", job[p])  BY <1>1, <1>2, <1>6 DEF StandsAt, Tried, Labels
  <2>2. pc' = [pc EXCEPT ![p] = "check"] /\ job' = job  BY <1>6 DEF Goto
  <2>3. DOMAIN pc' = Procs /\ DOMAIN job' = Procs  BY <2>2 DEF KeysTried
  <2>4. \A q \in Procs : StandsAt(pc'[q], job'[q])
    BY <2>1, <2>2 DEF KeysTried
  <2> QED  BY <1>6, <2>3, <2>4, SilentIsHarmless DEF KeysTried
<1> QED  BY <1>3, <1>4, <1>5, <1>6

LEMMA CheckCacheKeeps ==
  ASSUME KeysTried, NEW p \in Procs, CheckCache(p)
  PROVE  KeysTried'
<1>1. StandsAt("check", job[p])  BY DEF KeysTried, CheckCache
<1>2. /\ Tried(job[p].entry, job[p].disc) /\ job[p].source = "online"
      /\ job[p].entry.units = NoUnits /\ job[p].disc \in Protected
  BY <1>1 DEF StandsAt
<1>3. \/ Answer(p, job[p].disc, job[p].entry, "keys")
      \/ /\ Goto(p, "append") /\ Silent
         /\ job' = [job EXCEPT ![p].toWrite = LinePieces(job[p].disc, job[p].entry.vuk)]
  BY DEF CheckCache
<1>4. CASE Answer(p, job[p].disc, job[p].entry, "keys")  BY <1>2, <1>4, AnswerKeeps
<1>5. CASE /\ Goto(p, "append") /\ Silent
           /\ job' = [job EXCEPT ![p].toWrite = LinePieces(job[p].disc, job[p].entry.vuk)]
  <2> DEFINE line == LinePieces(job[p].disc, job[p].entry.vuk)
             j == Job(job[p].disc, job[p].source, job[p].entry, line)
  <2>1. line = RestOfLine(job[p].disc, 1)  BY <1>2, TriedVuk, LineFacts
  <2>2. p \in DOMAIN job  BY DEF KeysTried
  <2>3. job[p] = Job(job[p].disc, job[p].source, job[p].entry, job[p].toWrite)
    BY <1>1 DEF StandsAt, JobShape
  <2> HIDE DEF line
  <2>4. [job[p] EXCEPT !.toWrite = line] = j  BY <2>3 DEF Job
  <2>5. job' = [job EXCEPT ![p] = j]  BY <1>5, <2>2, <2>4 DEF line
  <2>6. StandsAt("append", j)  BY <1>1, <1>2, <2>1 DEF StandsAt, JobShape, Job, Labels
  <2> HIDE DEF j
  <2>7. pc' = [pc EXCEPT ![p] = "append"]  BY <1>5 DEF Goto
  <2> QED  BY <1>5, <2>5, <2>6, <2>7, SilentIsHarmless, OneMoves
<1> QED  BY <1>3, <1>4, <1>5

LEMMA AppendPieceKeeps ==
  ASSUME KeysTried, NEW p \in Procs, AppendPiece(p)
  PROVE  KeysTried'
<1>1. StandsAt("append", job[p])  BY DEF KeysTried, AppendPiece
<1>2. /\ Tried(job[p].entry, job[p].disc) /\ job[p].disc \in Protected
      /\ \E i \in 1..5 : job[p].toWrite = RestOfLine(job[p].disc, i)
  BY <1>1 DEF StandsAt
<1>3. \/ Answer(p, job[p].disc, job[p].entry, "keys")
      \/ /\ Len(job[p].toWrite) # 1
         /\ job' = [job EXCEPT ![p].toWrite = Tail(@)]
         /\ UNCHANGED pc /\ Silent
  BY DEF AppendPiece
<1>4. CASE Answer(p, job[p].disc, job[p].entry, "keys")  BY <1>2, <1>4, AnswerKeeps
<1>5. CASE /\ Len(job[p].toWrite) # 1
           /\ job' = [job EXCEPT ![p].toWrite = Tail(@)]
           /\ UNCHANGED pc /\ Silent
  <2>1. PICK i \in 1..5 : job[p].toWrite = RestOfLine(job[p].disc, i)  BY <1>2
  <2>2. i < 5 /\ Tail(job[p].toWrite) = RestOfLine(job[p].disc, i + 1)
    BY <1>5, <2>1, RestFacts
  <2> DEFINE rest == Tail(job[p].toWrite)
             j == Job(job[p].disc, job[p].source, job[p].entry, rest)
  <2>3. p \in DOMAIN job  BY DEF KeysTried
  <2>4. job[p] = Job(job[p].disc, job[p].source, job[p].entry, job[p].toWrite)
    BY <1>1 DEF StandsAt, JobShape
  <2>5. [job[p] EXCEPT !.toWrite = rest] = j
    <3> HIDE DEF rest
    <3> QED  BY <2>4 DEF Job
  <2>6. job' = [job EXCEPT ![p] = j]  BY <1>5, <2>3, <2>5
  <2>7. i + 1 \in 1..5 /\ rest = RestOfLine(job[p].disc, i + 1)  BY <2>2
  <2> HIDE DEF rest
  <2>8. StandsAt("append", j)
    BY <1>1, <2>7 DEF StandsAt, JobShape, Job, Labels
  <2> HIDE DEF j
  <2>9. pc' = pc /\ pc[p] = "append"  BY <1>5 DEF AppendPiece
  <2>10. \A q \in Procs : StandsAt(pc'[q], job'[q])
    <3> SUFFICES ASSUME NEW q \in Procs  PROVE StandsAt(pc'[q], job'[q])
      OBVIOUS
    <3>1. CASE q = p  BY <2>3, <2>6, <2>8, <2>9, <3>1
    <3>2. CASE q # p  BY <2>6, <2>9, <3>2 DEF KeysTried
    <3> QED  BY <3>1, <3>2
  <2>11. DOMAIN pc' = Procs /\ DOMAIN job' = Procs  BY <2>6, <2>9 DEF KeysTried
  <2> QED  BY <1>5, <2>10, <2>11, SilentIsHarmless DEF KeysTried
<1> QED  BY <1>3, <1>4, <1>5

LEMMA CrashKeeps ==
  ASSUME KeysTried, NEW p \in Procs, Crash(p)
  PROVE  KeysTried'
<1>1. pc' = [pc EXCEPT ![p] = "idle"] /\ job' = [job EXCEPT ![p] = NoJob] /\ Silent
  BY DEF Crash, Goto
<1> QED  BY <1>1, NoJobStands, SilentIsHarmless, OneMoves

-----------------------------------------------------------------------------
(* The theorems.                                                           *)

LEMMA KeysTriedInit == Init => KeysTried
<1> SUFFICES ASSUME Init  PROVE KeysTried
  OBVIOUS
<1>1. /\ pc = [p \in Procs |-> "idle"] /\ job = [p \in Procs |-> NoJob]
      /\ outcome = NoAnswer
  BY DEF Init
<1> QED  BY <1>1, NoJobStands DEF KeysTried, NoAnswer

LEMMA KeysTriedNext == KeysTried /\ [Next]_vars => KeysTried'
<1> SUFFICES ASSUME KeysTried, [Next]_vars  PROVE KeysTried'
  OBVIOUS
<1>1. CASE UNCHANGED vars  BY <1>1 DEF vars, KeysTried
<1>2. CASE Next
  <2>1. PICK p \in Procs : (\E d \in Wants[p] : Open(p, d)) \/ Step(p) \/ Crash(p)
    BY <1>2 DEF Next
  <2> QED
    BY <2>1, OpenKeeps, FromEnvKeeps, FromKeydbKeeps, FromCacheKeeps, OnlineKeeps,
       VerifyKeeps, CheckCacheKeeps, AppendPieceKeeps, CrashKeeps DEF Step
<1> QED  BY <1>1, <1>2

\* Keys reach a caller, and the cache, only after the trial on the disc's own
\* first unit, whichever source they came from.
THEOREM OnlyTriedKeys == Spec => []KeysTried
BY KeysTriedInit, KeysTriedNext, PTL DEF Spec

\* A decryptor that was handed out decrypts the title.
THEOREM KeysDecrypt == Spec => []KeysPlay
<1>1. KeysTried => KeysPlay  BY TriedFirst DEF KeysTried, KeysPlay
<1> QED  BY <1>1, OnlyTriedKeys, PTL

\* A step that changes the file is one writer's, and adds the next piece of a
\* true line.
LEMMA WritesStep ==
  ASSUME KeysTried, Next, cache' # cache
  PROVE  \E p \in Procs : AddsToItsLine(p)
<1>1. PICK p \in Procs : (\E d \in Wants[p] : Open(p, d)) \/ Step(p) \/ Crash(p)
  BY DEF Next
<1>2. AppendPiece(p)
  BY <1>1 DEF Step, Open, FromEnv, FromKeydb, FromCache, Online, Verify, CheckCache, Crash
<1>3. pc[p] = "append" /\ cache' = Append(cache, Head(job[p].toWrite))
  BY <1>2 DEF AppendPiece
<1>4. StandsAt("append", job[p])  BY <1>3 DEF KeysTried
<1>5. PICK i \in 1..5 : job[p].toWrite = RestOfLine(job[p].disc, i)
  BY <1>4 DEF StandsAt
<1>6. job[p].disc \in Protected  BY <1>4 DEF StandsAt
<1> DEFINE line == LinePieces(job[p].disc, job[p].disc)
<1>7. Len(line) = 5  BY LineFacts
<1>8. Head(job[p].toWrite) = line[i] /\ job[p].toWrite = SubSeq(line, i, 5)
  BY <1>5, RestFacts DEF RestOfLine
<1> HIDE DEF line
<1>9. /\ i \in 1..Len(line) /\ job[p].toWrite = SubSeq(line, i, Len(line))
      /\ cache' = Append(cache, line[i])
  BY <1>3, <1>7, <1>8
<1>10. AddsToItsLine(p)  BY <1>3, <1>6, <1>9 DEF line, AddsToItsLine
<1> QED  BY <1>10

\* Processes that die and processes that write at once may tear lines apart, but
\* what each of them writes is true, and nothing is overwritten.
THEOREM WritersTellTheTruth == Spec => WritesTrueLines
<1>1. KeysTried /\ [Next]_vars =>
        [cache' # cache => \E p \in Procs : AddsToItsLine(p)]_vars
  BY WritesStep
<1> QED  BY <1>1, OnlyTriedKeys, PTL DEF Spec, WritesTrueLines

-----------------------------------------------------------------------------
(* The cache file.                                                         *)

\* A line is torn where one begins that does not begin it.
TornAt(w, b) ==
  /\ b \in LineStarts(cache)
  /\ \E k \in (b + 2)..Len(cache) :
       /\ k > Len(w.cache) /\ cache[k].is = "disc id"
       /\ \A i \in (b + 1)..(k - 1) : cache[i] # Newline

\* A line that one writer has begun, or ended.
TrueLine(line) ==
  \E d \in Discs : Len(line) \in 1..4 /\ \A i \in 1..Len(line) : line[i] = LinePieces(d, d)[i]
Sound(w, e) == AsItWas(w, e) \/ TrueLine(FileLines(cache)[e])

\* Pieces written of the line.
Written(p) == 5 - Len(job[p].toWrite)
Writes(p) == pc[p] = "append" /\ Written(p) > 0

\* What has been written of a line that is not ended is at the end of the file.
OwnsOpenLine(w, p) ==
  LET begin == Len(cache) - Written(p)
  IN  /\ begin >= Len(w.cache) /\ begin \in LineStarts(cache)
      /\ \A i \in 1..Written(p) : cache[begin + i] = LinePieces(job[p].disc, job[p].disc)[i]

\* Nothing is known behind a torn line; before it, or when there is none, every
\* line is one the file began with or a true one, and one process at most is
\* within a line.
TornFrom(w) ==
  \E b \in 0..Len(cache) :
    TornAt(w, b) /\ \A e \in DOMAIN FileLines(cache) : e < b => Sound(w, e)
Whole(w) ==
  /\ \A e \in DOMAIN FileLines(cache) : Sound(w, e)
  /\ \A p \in Procs : Writes(p) => OwnsOpenLine(w, p)
  /\ \A p, q \in Procs : Writes(p) /\ Writes(q) => p = q
Tidy(w) == cache \in Seq(FilePiece) /\ GrewFrom(w) /\ (TornFrom(w) \/ Whole(w))

-----------------------------------------------------------------------------
(* The lines of a file.                                                    *)

\* A set of naturals has a least element.
LEMMA Least ==
  ASSUME NEW T \in SUBSET Nat, T # {}
  PROVE  \E x \in T : \A y \in T : x <= y
<1> DEFINE R == {p \in Nat \X Nat : p[1] < p[2]}
<1>1. IsWellFoundedOn(R, Nat)  BY NatLessThanWellFounded, Zenon DEF OpToRel
<1> HIDE DEF R
<1>2. PICK x \in T : \A y \in T : <<y, x>> \notin R  BY <1>1, WFMin
<1>3. ASSUME NEW y \in T  PROVE x <= y
  <2>1. ASSUME y < x  PROVE FALSE
    <3>1. <<y, x>> \in R  BY <2>1 DEF R
    <3> QED  BY <1>2, <3>1
  <2> QED  BY <2>1
<1> QED  BY <1>3

EndsAt(f, e, m) ==
  /\ m \in e..Len(f)
  /\ \A k \in (e + 1)..m : f[k] # Newline
  /\ m = Len(f) \/ f[m + 1] = Newline

LEMMA StartFacts ==
  ASSUME NEW S, NEW f \in Seq(S)
  PROVE  /\ Len(f) \in Nat /\ LineStarts(f) \subseteq 0..Len(f) /\ 0 \in LineStarts(f)
         /\ \A e \in 1..Len(f) : e \in LineStarts(f) <=> f[e] = Newline
<1>1. Len(f) \in Nat /\ DOMAIN f = 1..Len(f)  OBVIOUS
<1> QED  BY <1>1 DEF LineStarts

\* Where a line ends.
LEMMA EndFacts ==
  ASSUME NEW S, NEW f \in Seq(S), NEW e \in LineStarts(f)
  PROVE  /\ EndsAt(f, e, LineEnd(f, e))
         /\ \A m : EndsAt(f, e, m) => m = LineEnd(f, e)
<1>1. /\ Len(f) \in Nat /\ LineStarts(f) \subseteq 0..Len(f)
      /\ \A k \in 1..Len(f) : k \in LineStarts(f) <=> f[k] = Newline
  BY StartFacts
<1> DEFINE T == {n \in LineStarts(f) : n > e} \cup {Len(f) + 1}
<1>2. T \in SUBSET Nat /\ Len(f) + 1 \in T /\ e \in 0..Len(f)  BY <1>1
<1>3. \A n \in 0..Len(f) : n \in T <=> n > e /\ n \in LineStarts(f)  BY <1>1
<1>4. \A n \in T : n > e /\ n <= Len(f) + 1  BY <1>1, <1>2
<1>5. LineEnd(f, e) = Min(T) - 1  BY DEF LineEnd
<1> HIDE DEF T
<1>6. Min(T) \in T /\ \A n \in T : Min(T) <= n
  <2>1. \E x \in T : \A y \in T : x <= y  BY <1>2, Least
  <2> QED  BY <2>1 DEF Min
<1>12. Min(T) \in Nat /\ Min(T) > e /\ Min(T) <= Len(f) + 1 /\ e \in Nat
  <2>1. Min(T) \in T /\ Min(T) \in Nat  BY <1>2, <1>6
  <2>2. Min(T) > e /\ Min(T) <= Len(f) + 1  BY <1>4, <2>1
  <2> QED  BY <1>1, <1>2, <2>1, <2>2
<1> DEFINE m == Min(T) - 1
<1>13. m \in Nat /\ Min(T) = m + 1  BY <1>12
<1> HIDE DEF m
<1>7. m \in e..Len(f)  BY <1>1, <1>12, <1>13
<1>8. \A k \in (e + 1)..m : f[k] # Newline
  <2> SUFFICES ASSUME NEW k \in (e + 1)..m, f[k] = Newline  PROVE FALSE
    OBVIOUS
  <2>1. k \in 1..Len(f) /\ k > e /\ k < Min(T)  BY <1>1, <1>7, <1>12, <1>13
  <2>2. k \in T  BY <1>1, <1>3, <2>1
  <2>3. Min(T) <= k  BY <1>6, <2>2
  <2> QED  BY <1>12, <2>1, <2>3
<1>9. m = Len(f) \/ f[m + 1] = Newline
  <2>1. Min(T) = m + 1  BY <1>13
  <2>2. CASE m # Len(f)
    <3>1. Min(T) \in 1..Len(f)  BY <1>1, <1>2, <1>7, <2>1, <2>2
    <3>2. Min(T) \in LineStarts(f)  BY <1>3, <1>6, <3>1
    <3> QED  BY <1>1, <2>1, <3>1, <3>2
  <2> QED  BY <2>2
<1>10. EndsAt(f, e, m)  BY <1>7, <1>8, <1>9 DEF EndsAt
<1>11. ASSUME NEW n, EndsAt(f, e, n)  PROVE n = m
  <2>1. /\ n \in e..Len(f) /\ m \in e..Len(f)
        /\ \A k \in (e + 1)..n : f[k] # Newline
        /\ \A k \in (e + 1)..m : f[k] # Newline
        /\ n = Len(f) \/ f[n + 1] = Newline
        /\ m = Len(f) \/ f[m + 1] = Newline
    BY <1>10, <1>11 DEF EndsAt
  <2>2. ~(n < m)
    <3> SUFFICES ASSUME n < m  PROVE FALSE
      OBVIOUS
    <3>1. n + 1 \in (e + 1)..m /\ n # Len(f)  BY <1>1, <1>2, <2>1
    <3> QED  BY <2>1, <3>1
  <2>3. ~(m < n)
    <3> SUFFICES ASSUME m < n  PROVE FALSE
      OBVIOUS
    <3>1. m + 1 \in (e + 1)..n /\ m # Len(f)  BY <1>1, <1>2, <2>1
    <3> QED  BY <2>1, <3>1
  <2> QED  BY <1>1, <1>2, <2>1, <2>2, <2>3
<1> QED  BY <1>5, <1>10, <1>11 DEF m

\* A line ends before the next begins.
LEMMA EndsBefore ==
  ASSUME NEW S, NEW f \in Seq(S), NEW e \in LineStarts(f), NEW b \in LineStarts(f), e < b
  PROVE  LineEnd(f, e) < b
<1>1. /\ Len(f) \in Nat /\ e \in 0..Len(f) /\ b \in 0..Len(f)
      /\ \A k \in 1..Len(f) : k \in LineStarts(f) <=> f[k] = Newline
  BY StartFacts
<1>2. LineEnd(f, e) \in e..Len(f) /\ \A k \in (e + 1)..LineEnd(f, e) : f[k] # Newline
  BY EndFacts DEF EndsAt
<1>3. b \in 1..Len(f) /\ f[b] = Newline  BY <1>1
<1>4. ~(b <= LineEnd(f, e))
  <2> SUFFICES ASSUME b <= LineEnd(f, e)  PROVE FALSE
    OBVIOUS
  <2>1. b \in (e + 1)..LineEnd(f, e)  BY <1>1, <1>2
  <2> QED  BY <1>2, <1>3, <2>1
<1> QED  BY <1>1, <1>2, <1>4

\* The pieces of a line.
LEMMA LineIs ==
  ASSUME NEW S, NEW f \in Seq(S), NEW e \in DOMAIN FileLines(f)
  PROVE  /\ e \in LineStarts(f) /\ e \in 0..Len(f) /\ e < LineEnd(f, e) /\ LineEnd(f, e) \in 1..Len(f)
         /\ FileLines(f)[e] = SubSeq(f, e + 1, LineEnd(f, e))
         /\ Len(FileLines(f)[e]) = LineEnd(f, e) - e
         /\ \A i \in 1..(LineEnd(f, e) - e) : FileLines(f)[e][i] = f[e + i]
<1>1. e \in LineStarts(f) /\ e < LineEnd(f, e)  BY DEF FileLines
<1>2. FileLines(f)[e] = SubSeq(f, e + 1, LineEnd(f, e))  BY <1>1 DEF FileLines
<1>3. Len(f) \in Nat /\ e \in 0..Len(f)  BY <1>1, StartFacts
<1>4. LineEnd(f, e) \in e..Len(f)  BY <1>1, EndFacts DEF EndsAt
<1>5. LineEnd(f, e) \in 1..Len(f)  BY <1>1, <1>3, <1>4
<1> DEFINE m == LineEnd(f, e)
<1> HIDE DEF m
<1>6. m \in 1..Len(f) /\ e < m  BY <1>1, <1>5 DEF m
<1>7. \A i \in (e + 1)..m : f[i] \in S  BY <1>3, <1>6, ElementOfSeq
<1>8. /\ Len(SubSeq(f, e + 1, m)) = IF e + 1 <= m THEN m - (e + 1) + 1 ELSE 0
      /\ \A i \in 1..(m - (e + 1) + 1) : SubSeq(f, e + 1, m)[i] = f[(e + 1) + i - 1]
  BY <1>3, <1>6, <1>7, SubSeqProperties
<1>9. Len(SubSeq(f, e + 1, m)) = m - e  BY <1>3, <1>6, <1>8
<1>10. ASSUME NEW i \in 1..(m - e)  PROVE SubSeq(f, e + 1, m)[i] = f[e + i]
  <2>1. i \in 1..(m - (e + 1) + 1) /\ (e + 1) + i - 1 = e + i  BY <1>3, <1>6
  <2> QED  BY <1>8, <2>1
<1> QED  BY <1>1, <1>2, <1>3, <1>5, <1>9, <1>10 DEF m

\* A piece more: what it does to the lines.
OneMore(f, x, g) == g = Append(f, x)

LEMMA Extended ==
  ASSUME NEW S, NEW f \in Seq(S), NEW x \in S, NEW g, OneMore(f, x, g)
  PROVE  /\ g \in Seq(S) /\ Len(g) = Len(f) + 1 /\ g[Len(f) + 1] = x
         /\ \A i \in 1..Len(f) : g[i] = f[i]
         /\ \A e : e \in LineStarts(g) <=>
                  e \in LineStarts(f) \/ (x = Newline /\ e = Len(f) + 1)
<1>1. g \in Seq(S) /\ Len(g) = Len(f) + 1 /\ g[Len(f) + 1] = x /\ Len(f) \in Nat
  BY AppendProperties DEF OneMore
<1>2. \A i \in 1..Len(f) : g[i] = f[i]  BY AppendProperties DEF OneMore
<1>3. DOMAIN g = 1..(Len(f) + 1) /\ DOMAIN f = 1..Len(f)  BY <1>1
<1>4. LineStarts(g) = LineStarts(f) \cup (IF x = Newline THEN {Len(f) + 1} ELSE {})
  <2>1. 1..(Len(f) + 1) = (1..Len(f)) \cup {Len(f) + 1}  BY <1>1
  <2>2. {i \in DOMAIN g : g[i] = Newline}
          = {i \in DOMAIN f : f[i] = Newline} \cup (IF x = Newline THEN {Len(f) + 1} ELSE {})
    BY <1>1, <1>2, <1>3, <2>1
  <2> QED  BY <2>2 DEF LineStarts
<1>5. \A e : e \in LineStarts(g) <=>
              e \in LineStarts(f) \/ (x = Newline /\ e = Len(f) + 1)
  BY <1>4
<1> QED  BY <1>1, <1>2, <1>5

LEMMA EndExtended ==
  ASSUME NEW S, NEW f \in Seq(S), NEW x \in S, NEW g, OneMore(f, x, g), NEW e \in LineStarts(f)
  PROVE  /\ e \in LineStarts(g)
         /\ LineEnd(f, e) < Len(f) \/ x = Newline => LineEnd(g, e) = LineEnd(f, e)
         /\ LineEnd(f, e) = Len(f) /\ x # Newline => LineEnd(g, e) = Len(f) + 1
<1>1. /\ g \in Seq(S) /\ Len(g) = Len(f) + 1 /\ g[Len(f) + 1] = x
      /\ \A i \in 1..Len(f) : g[i] = f[i]
  BY Extended
<1>7. e \in LineStarts(g)  BY Extended
<1>2. Len(f) \in Nat /\ e \in 0..Len(f)  BY StartFacts
<1> DEFINE m == LineEnd(f, e)
<1>3. /\ m \in e..Len(f)
      /\ \A k \in (e + 1)..m : f[k] # Newline
      /\ m = Len(f) \/ f[m + 1] = Newline
  BY EndFacts DEF EndsAt
<1> HIDE DEF m
<1>4. ASSUME m < Len(f) \/ x = Newline  PROVE EndsAt(g, e, m)
  <2>1. m \in e..Len(g)  BY <1>1, <1>2, <1>3
  <2>2. \A k \in (e + 1)..m : g[k] # Newline
    <3>1. \A k \in (e + 1)..m : k \in 1..Len(f)  BY <1>2, <1>3
    <3> QED  BY <1>1, <1>3, <3>1
  <2>3. g[m + 1] = Newline
    <3>1. CASE m < Len(f)
      <4>1. m + 1 \in 1..Len(f) /\ f[m + 1] = Newline  BY <1>2, <1>3, <3>1
      <4> QED  BY <1>1, <4>1
    <3>2. CASE ~(m < Len(f))
      <4>1. m = Len(f) /\ x = Newline  BY <1>2, <1>3, <1>4, <3>2
      <4> QED  BY <1>1, <4>1
    <3> QED  BY <3>1, <3>2
  <2> QED  BY <2>1, <2>2, <2>3 DEF EndsAt
<1>5. ASSUME m = Len(f), x # Newline  PROVE EndsAt(g, e, Len(f) + 1)
  <2>1. Len(f) + 1 \in e..Len(g)  BY <1>1, <1>2
  <2>2. \A k \in (e + 1)..(Len(f) + 1) : g[k] # Newline
    <3> SUFFICES ASSUME NEW k \in (e + 1)..(Len(f) + 1)  PROVE g[k] # Newline
      OBVIOUS
    <3>1. CASE k = Len(f) + 1  BY <1>1, <1>5, <3>1
    <3>2. CASE k # Len(f) + 1
      <4>1. k \in 1..Len(f) /\ k \in (e + 1)..m  BY <1>2, <1>5, <3>2
      <4> QED  BY <1>1, <1>3, <4>1
    <3> QED  BY <3>1, <3>2
  <2> QED  BY <1>1, <2>1, <2>2 DEF EndsAt
<1>6. \A n : EndsAt(g, e, n) => n = LineEnd(g, e)  BY <1>1, <1>7, EndFacts
<1> QED  BY <1>1, <1>4, <1>5, <1>6, <1>7 DEF m

\* A line that has ended stays as it is.
LEMMA LineKept ==
  ASSUME NEW S, NEW f \in Seq(S), NEW x \in S, NEW g, OneMore(f, x, g), NEW e \in LineStarts(f),
         LineEnd(f, e) < Len(f) \/ x = Newline
  PROVE  /\ e \in DOMAIN FileLines(g) <=> e \in DOMAIN FileLines(f)
         /\ e \in DOMAIN FileLines(f) => FileLines(g)[e] = FileLines(f)[e]
<1>0. e \in LineStarts(g)  BY Extended
<1>1. LineEnd(g, e) = LineEnd(f, e)  BY EndExtended
<1>2. e \in DOMAIN FileLines(g) <=> e \in DOMAIN FileLines(f)  BY <1>0, <1>1 DEF FileLines
<1>3. ASSUME e \in DOMAIN FileLines(f)  PROVE FileLines(g)[e] = FileLines(f)[e]
  <2> DEFINE m == LineEnd(f, e)
  <2>1. /\ m \in 1..Len(f) /\ e \in 0..Len(f) /\ FileLines(f)[e] = SubSeq(f, e + 1, m)
    BY <1>3, LineIs
  <2>2. FileLines(g)[e] = SubSeq(g, e + 1, m)  BY <1>0, <1>1, <1>2, <1>3 DEF FileLines
  <2> HIDE DEF m
  <2>3. /\ \A i \in 1..Len(f) : g[i] = f[i]
        /\ Len(f) \in Nat
    BY Extended, StartFacts
  <2>4. \A i \in (e + 1)..m : g[i] = f[i]  BY <2>1, <2>3
  <2>5. SubSeq(g, e + 1, m) = SubSeq(f, e + 1, m)
    <3>1. \A i \in 1..(m - (e + 1) + 1) : g[(e + 1) + i - 1] = f[(e + 1) + i - 1]
      BY <2>1, <2>3, <2>4
    <3>2. \A s : SubSeq(s, e + 1, m) = [i \in 1..(m - (e + 1) + 1) |-> s[(e + 1) + i - 1]]
      BY <2>1, <2>3 
    <3> QED  BY <3>1, <3>2
  <2> QED  BY <2>1, <2>2, <2>5
<1> QED  BY <1>2, <1>3

-----------------------------------------------------------------------------
(* One more piece in the cache.                                            *)

LEMMA PieceFacts ==
  ASSUME NEW d \in Discs
  PROVE  /\ \A i \in 1..5 : LinePieces(d, d)[i] \in FilePiece
         /\ \A i \in 1..4 : LinePieces(d, d)[i] # Newline
         /\ LinePieces(d, d)[1].is = "disc id" /\ LinePieces(d, d)[5] = Newline
         /\ \A k, i : i \in 2..4 => LinePieces(d, k)[i].is # "disc id"
         /\ \A x : x.is = "disc id" => x # Newline
<1>1. /\ LinePieces(d, d)[1] = Piece("disc id", d) /\ LinePieces(d, d)[2] = Piece("= V", NoKey)
      /\ LinePieces(d, d)[3] = Piece("vuk", d) /\ LinePieces(d, d)[4] = Provenance
      /\ LinePieces(d, d)[5] = Newline
  BY DEF LinePieces
<1>2. \A i \in 1..5 : i = 1 \/ i = 2 \/ i = 3 \/ i = 4 \/ i = 5  OBVIOUS
<1>8. \A is, of : Piece(is, of).is = is  BY DEF Piece
<1>3. \A i \in 1..5 : LinePieces(d, d)[i] \in FilePiece
  <2>1. \A is \in {"disc id", "= V", "vuk", "| provenance", "newline", "other"},
           of \in Discs \cup {Junk, Unset} : Piece(is, of) \in FilePiece
    BY DEF Piece, FilePiece
  <2>3. NoKey \in Discs \cup {Junk, Unset} /\ d \in Discs \cup {Junk, Unset}  BY DEF NoKey
  <2>4. /\ Piece("disc id", d) \in FilePiece /\ Piece("= V", NoKey) \in FilePiece
        /\ Piece("vuk", d) \in FilePiece
    BY <2>1, <2>3
  <2>5. Provenance \in FilePiece /\ Newline \in FilePiece
    BY <2>1, <2>3 DEF Provenance, Newline
  <2> QED  BY <1>1, <1>2, <2>4, <2>5
<1>4. \A i \in 1..4 : LinePieces(d, d)[i] # Newline
  <2>1. /\ Piece("disc id", d) # Newline /\ Piece("= V", NoKey) # Newline
        /\ Piece("vuk", d) # Newline /\ Provenance # Newline
    BY DEF Piece, Provenance, Newline
  <2>2. \A i \in 1..4 : i = 1 \/ i = 2 \/ i = 3 \/ i = 4  OBVIOUS
  <2> QED  BY <1>1, <2>1, <2>2
<1>5. LinePieces(d, d)[1].is = "disc id"  BY <1>1, <1>8
<1>6. \A k, i : i \in 2..4 => LinePieces(d, k)[i].is # "disc id"
  <2> SUFFICES ASSUME NEW k, NEW i \in 2..4  PROVE LinePieces(d, k)[i].is # "disc id"
    OBVIOUS
  <2>1. i = 2 \/ i = 3 \/ i = 4  OBVIOUS
  <2>2. /\ LinePieces(d, k)[2] = Piece("= V", NoKey) /\ LinePieces(d, k)[3] = Piece("vuk", k)
        /\ LinePieces(d, k)[4] = Provenance
    BY DEF LinePieces
  <2>3. /\ Piece("= V", NoKey).is # "disc id" /\ Piece("vuk", k).is # "disc id"
        /\ Provenance.is # "disc id"
    BY DEF Piece, Provenance
  <2> QED  BY <2>1, <2>2, <2>3
<1>7. ASSUME NEW x, x.is = "disc id", x = Newline  PROVE FALSE
  <2>1. Newline.is = "newline"  BY <1>8 DEF Newline
  <2>2. "newline" # "disc id"  OBVIOUS
  <2> QED  BY <1>7, <2>1, <2>2
<1> QED  BY <1>1, <1>3, <1>4, <1>5, <1>6, <1>7

\* The file still grew from the one it began as.
LEMMA GrewMore ==
  ASSUME NEW w \in Worlds, cache \in Seq(FilePiece), GrewFrom(w), NEW x \in FilePiece,
         OneMore(cache, x, cache'), UNCHANGED world
  PROVE  /\ GrewFrom(w)' /\ cache' \in Seq(FilePiece)
         /\ Len(w.cache) \in Nat /\ Len(w.cache) <= Len(cache)
<1>1. w.cache \in Seq(FilePiece)  BY WorldsAssumption
<1>2. /\ Len(w.cache) <= Len(cache)
      /\ SubSeq(w.cache, 1, Len(w.cache)) = SubSeq(cache, 1, Len(w.cache))
  BY DEF GrewFrom, IsPrefix
<1>3. /\ cache' \in Seq(FilePiece) /\ Len(cache') = Len(cache) + 1
      /\ \A i \in 1..Len(cache) : cache'[i] = cache[i]
  BY Extended
<1>4. Len(w.cache) \in Nat /\ Len(cache) \in Nat  BY <1>1
<1> DEFINE n == Len(w.cache)
<1>5. SubSeq(cache', 1, n) = SubSeq(cache, 1, n)
  <2> HIDE DEF n
  <2>1. n \in Nat /\ n <= Len(cache)  BY <1>2, <1>4 DEF n
  <2>2. \A s : SubSeq(s, 1, n) = [i \in 1..(n - 1 + 1) |-> s[1 + i - 1]]  BY <2>1
  <2>3. \A i \in 1..(n - 1 + 1) : cache'[1 + i - 1] = cache[1 + i - 1]
    BY <1>3, <1>4, <2>1
  <2> QED  BY <2>2, <2>3
<1>6. Len(w.cache) <= Len(cache')  BY <1>2, <1>3, <1>4
<1>7. IsPrefix(w.cache, cache')  BY <1>2, <1>5, <1>6 DEF IsPrefix
<1>8. w.keydb = keydb' /\ w.env = env'  BY DEF GrewFrom, world
<1> QED  BY <1>2, <1>3, <1>4, <1>7, <1>8 DEF GrewFrom

\* A line that has ended is as sound as it was.
LEMMA SoundKept ==
  ASSUME cache \in Seq(FilePiece), NEW w \in Worlds, NEW x \in FilePiece,
         OneMore(cache, x, cache'), NEW e \in LineStarts(cache),
         LineEnd(cache, e) < Len(cache) \/ x = Newline,
         e \in DOMAIN FileLines(cache'), e \in DOMAIN FileLines(cache) => Sound(w, e)
  PROVE  Sound(w, e)'
<1>1. /\ e \in DOMAIN FileLines(cache') <=> e \in DOMAIN FileLines(cache)
      /\ e \in DOMAIN FileLines(cache) => FileLines(cache')[e] = FileLines(cache)[e]
  BY LineKept
<1>2. Sound(w, e) /\ FileLines(cache')[e] = FileLines(cache)[e]  BY <1>1
<1>3. CASE AsItWas(w, e)  BY <1>2, <1>3 DEF Sound, AsItWas
<1>4. CASE TrueLine(FileLines(cache)[e])  BY <1>2, <1>4 DEF Sound
<1> QED  BY <1>2, <1>3, <1>4 DEF Sound

\* Before a place where a line begins nothing changes.
LEMMA SoundBefore ==
  ASSUME cache \in Seq(FilePiece), NEW w \in Worlds, NEW x \in FilePiece,
         OneMore(cache, x, cache'), NEW b \in LineStarts(cache),
         \A e \in DOMAIN FileLines(cache) : e < b => Sound(w, e),
         NEW e \in DOMAIN FileLines(cache'), e < b
  PROVE  Sound(w, e)'
<1>1. cache' \in Seq(FilePiece)  BY Extended
<1>2. e \in LineStarts(cache')  BY <1>1, LineIs
<1>3. b \in 0..Len(cache) /\ Len(cache) \in Nat  BY StartFacts
<1>4. e \in LineStarts(cache)
  <2>1. e # Len(cache) + 1  BY <1>3
  <2> QED  BY <1>2, <2>1, Extended
<1>5. LineEnd(cache, e) < b  BY <1>4, EndsBefore
<1>6. LineEnd(cache, e) \in e..Len(cache) /\ e \in 0..Len(cache)
  BY <1>4, EndFacts, StartFacts DEF EndsAt
<1>7. LineEnd(cache, e) < Len(cache)  BY <1>3, <1>5, <1>6
<1> QED  BY <1>4, <1>7, SoundKept

\* What is torn stays torn.
LEMMA TornStays ==
  ASSUME cache \in Seq(FilePiece), NEW w \in Worlds, NEW x \in FilePiece,
         OneMore(cache, x, cache'), TornFrom(w)
  PROVE  TornFrom(w)'
<1>1. /\ Len(cache) \in Nat /\ Len(cache') = Len(cache) + 1
      /\ \A i \in 1..Len(cache) : cache'[i] = cache[i]
      /\ LineStarts(cache) \subseteq LineStarts(cache')
      /\ LineStarts(cache) \subseteq 0..Len(cache)
  BY Extended, StartFacts
<1>2. PICK b \in 0..Len(cache) :
         TornAt(w, b) /\ \A e \in DOMAIN FileLines(cache) : e < b => Sound(w, e)
  BY DEF TornFrom
<1>3. b \in LineStarts(cache)  BY <1>2 DEF TornAt
<1>4. PICK k \in (b + 2)..Len(cache) :
         /\ k > Len(w.cache) /\ cache[k].is = "disc id"
         /\ \A i \in (b + 1)..(k - 1) : cache[i] # Newline
  BY <1>2 DEF TornAt
<1>10. b \in Nat /\ b <= Len(cache)  BY <1>1, <1>2
<1>11. k \in Nat /\ k >= b + 2 /\ k <= Len(cache)
  <2>1. k \in (b + 2)..Len(cache)  BY <1>4
  <2>2. Len(cache) \in Nat  BY <1>1
  <2> QED  BY <1>10, <2>1, <2>2
<1>12. k \in 1..Len(cache)  BY <1>1, <1>10, <1>11
<1>5. k \in (b + 2)..Len(cache') /\ cache'[k] = cache[k] /\ b \in LineStarts(cache')
  <2>1. k \in (b + 2)..Len(cache')  BY <1>1, <1>10, <1>11
  <2> QED  BY <1>1, <1>3, <1>12, <2>1
<1>6. \A i \in (b + 1)..(k - 1) : cache'[i] # Newline
  <2>1. \A i \in (b + 1)..(k - 1) : i \in 1..Len(cache)  BY <1>1, <1>10, <1>11
  <2> QED  BY <1>1, <1>4, <2>1
<1>7. TornAt(w, b)'  BY <1>4, <1>5, <1>6 DEF TornAt
<1>8. \A e \in DOMAIN FileLines(cache') : e < b => Sound(w, e)'  BY <1>2, <1>3, SoundBefore
<1>9. b \in 0..Len(cache')  BY <1>1, <1>2
<1> QED  BY <1>7, <1>8, <1>9 DEF TornFrom

\* The next piece of the line about d goes to the file; n have gone before it.
Adds(p, d, n) ==
  /\ pc[p] = "append" /\ job[p].disc = d /\ Written(p) = n
  /\ OneMore(cache, LinePieces(d, d)[n + 1], cache')
  /\ n < 4 => pc'[p] = "append" /\ job'[p].disc = d /\ Written(p)' = n + 1
  /\ n = 4 => pc'[p] # "append"
  /\ \A q \in Procs : q # p => pc'[q] = pc[q] /\ job'[q] = job[q]
  /\ UNCHANGED world

\* No writer but one that has begun its line can be within one.
LEMMA NobodyNew ==
  ASSUME NEW p \in Procs, NEW d, NEW n \in 0..4, Adds(p, d, n), NEW q \in Procs, q # p
  PROVE  Writes(q)' <=> Writes(q)
<1>1. pc'[q] = pc[q] /\ job'[q] = job[q]  BY DEF Adds
<1> QED  BY <1>1 DEF Writes, Written

\* A process begins its line where another has ended.
LEMMA StartsLine ==
  ASSUME NEW w \in Worlds, NEW p \in Procs, NEW d \in Discs, Adds(p, d, 0), Whole(w),
         cache \in Seq(FilePiece), Len(w.cache) \in Nat, Len(w.cache) <= Len(cache),
         \A q \in Procs : Writes(q) => Written(q) \in 1..4 /\ job[q].disc \in Discs,
         Len(cache) \in LineStarts(cache)
  PROVE  Whole(w)'
<1> DEFINE x == LinePieces(d, d)[1]
<1>1. /\ x \in FilePiece /\ x # Newline
      /\ \A c \in Discs : \A i \in 1..4 : LinePieces(c, c)[i] # Newline
  <2>1. 1 \in 1..5 /\ 1 \in 1..4  OBVIOUS
  <2>2. x \in FilePiece /\ x # Newline  BY <2>1, PieceFacts
  <2>3. \A c \in Discs : \A i \in 1..4 : LinePieces(c, c)[i] # Newline  BY PieceFacts
  <2> QED  BY <2>2, <2>3
<1>2. OneMore(cache, x, cache')  BY DEF Adds
<1>3. pc'[p] = "append" /\ job'[p].disc = d /\ Written(p)' = 1  BY DEF Adds
<1>4. x = LinePieces(d, d)[1]  OBVIOUS
<1> HIDE DEF x
<1>5. /\ Len(cache) \in Nat /\ LineStarts(cache) \subseteq 0..Len(cache)
      /\ \A e \in 1..Len(cache) : e \in LineStarts(cache) <=> cache[e] = Newline
  BY StartFacts
<1>6. /\ cache' \in Seq(FilePiece) /\ Len(cache') = Len(cache) + 1 /\ cache'[Len(cache) + 1] = x
      /\ \A e : e \in LineStarts(cache') <=> e \in LineStarts(cache)
  BY <1>1, <1>2, Extended
<1>7. ASSUME NEW q \in Procs, Writes(q)  PROVE FALSE
  <2> DEFINE n == Written(q)  c == job[q].disc
  <2>1. n \in 1..4 /\ c \in Discs  BY <1>7
  <2>2. /\ Len(cache) - n >= Len(w.cache)
        /\ \A i \in 1..n : cache[(Len(cache) - n) + i] = LinePieces(c, c)[i]
    BY <1>7 DEF Whole, OwnsOpenLine
  <2> HIDE DEF n, c
  <2>3. (Len(cache) - n) + n = Len(cache) /\ n \in 1..n /\ Len(cache) \in 1..Len(cache)
    BY <1>5, <2>1, <2>2
  <2>4. cache[Len(cache)] = LinePieces(c, c)[n]  BY <2>2, <2>3
  <2> QED  BY <1>1, <1>5, <2>1, <2>3, <2>4
<1>8. ASSUME NEW e \in DOMAIN FileLines(cache')  PROVE Sound(w, e)'
  <2>1. e \in LineStarts(cache)  BY <1>6, <1>8, LineIs
  <2>2. CASE e < Len(cache)
    <3>1. \A b \in DOMAIN FileLines(cache) : b < Len(cache) => Sound(w, b)  BY DEF Whole
    <3> QED  BY <1>1, <1>2, <1>8, <2>2, <3>1, SoundBefore
  <2>3. CASE e = Len(cache)
    <3>1. LineEnd(cache, e) \in e..Len(cache)  BY <2>1, EndFacts DEF EndsAt
    <3>2. LineEnd(cache, e) = Len(cache)  BY <1>5, <2>3, <3>1
    <3>3. LineEnd(cache', e) = Len(cache) + 1  BY <1>1, <1>2, <2>1, <3>2, EndExtended
    <3>4. /\ Len(FileLines(cache')[e]) = LineEnd(cache', e) - e
          /\ \A i \in 1..(LineEnd(cache', e) - e) : FileLines(cache')[e][i] = cache'[e + i]
      BY <1>6, <1>8, LineIs
    <3>5. LineEnd(cache', e) - e = 1  BY <1>5, <2>3, <3>3
    <3>6. Len(FileLines(cache')[e]) = 1 /\ FileLines(cache')[e][1] = cache'[e + 1]
      BY <3>4, <3>5
    <3>7. FileLines(cache')[e][1] = LinePieces(d, d)[1]  BY <1>4, <1>6, <2>3, <3>6
    <3>8. Len(FileLines(cache')[e]) \in 1..4
          /\ \A i \in 1..Len(FileLines(cache')[e]) : i = 1
      BY <3>6
    <3>9. TrueLine(FileLines(cache')[e])  BY <3>7, <3>8 DEF TrueLine
    <3> QED  BY <3>9 DEF Sound
  <2> QED  BY <1>5, <2>1, <2>2, <2>3
<1>9. OwnsOpenLine(w, p)'
  <2>1. Len(cache') - 1 = Len(cache)  BY <1>5, <1>6
  <2>2. Len(cache) \in LineStarts(cache')  BY <1>6
  <2>3. \A i \in 1..1 : cache'[Len(cache) + i] = LinePieces(d, d)[i]
    <3>1. \A i \in 1..1 : i = 1  OBVIOUS
    <3> QED  BY <1>4, <1>6, <3>1
  <2> QED  BY <1>3, <2>1, <2>2, <2>3 DEF OwnsOpenLine
<1>10. ASSUME NEW q \in Procs, Writes(q)'  PROVE q = p
  BY <1>7, <1>10, NobodyNew
<1> QED  BY <1>8, <1>9, <1>10 DEF Whole

\* A process begins its line within another: that one is torn.
LEMMA Tears ==
  ASSUME NEW w \in Worlds, NEW p \in Procs, NEW d \in Discs, Adds(p, d, 0), Whole(w),
         cache \in Seq(FilePiece), Len(w.cache) \in Nat, Len(w.cache) <= Len(cache),
         Len(cache) \notin LineStarts(cache)
  PROVE  TornFrom(w)'
<1> DEFINE x == LinePieces(d, d)[1]
<1>1. x \in FilePiece /\ x # Newline /\ x.is = "disc id"
  <2>1. 1 \in 1..5 /\ 1 \in 1..4  OBVIOUS
  <2> QED  BY <2>1, PieceFacts
<1>2. OneMore(cache, x, cache')  BY DEF Adds
<1> HIDE DEF x
<1>3. /\ Len(cache) \in Nat /\ LineStarts(cache) \subseteq 0..Len(cache)
      /\ 0 \in LineStarts(cache)
      /\ \A e \in 1..Len(cache) : e \in LineStarts(cache) <=> cache[e] = Newline
  BY StartFacts
<1>4. /\ Len(cache') = Len(cache) + 1 /\ cache'[Len(cache) + 1] = x
      /\ \A i \in 1..Len(cache) : cache'[i] = cache[i]
      /\ \A e : e \in LineStarts(cache') <=> e \in LineStarts(cache)
  <2>4. x \in FilePiece  BY <1>1
  <2>1. Len(cache') = Len(cache) + 1 /\ cache'[Len(cache) + 1] = x
    BY <2>4, <1>2, Extended
  <2>2. \A i \in 1..Len(cache) : cache'[i] = cache[i]  BY <2>4, <1>2, Extended
  <2>3. \A e : e \in LineStarts(cache') <=> e \in LineStarts(cache)
    BY <1>1, <1>2, Extended
  <2> QED  BY <2>1, <2>2, <2>3
<1>5. PICK s \in LineStarts(cache) : \A e \in LineStarts(cache) : e <= s
  <2> DEFINE T == {Len(cache) - e : e \in LineStarts(cache)}
  <2>1. T \in SUBSET Nat /\ T # {}  BY <1>3
  <2>2. PICK y \in T : \A z \in T : y <= z
    <3> HIDE DEF T
    <3> QED  BY <2>1, Least
  <2>3. PICK s \in LineStarts(cache) : y = Len(cache) - s  BY <2>2
  <2>4. ASSUME NEW e \in LineStarts(cache)  PROVE e <= s
    <3>1. Len(cache) - s <= Len(cache) - e  BY <2>2, <2>3
    <3>2. e \in Nat /\ s \in Nat  BY <1>3
    <3> QED  BY <1>3, <3>1, <3>2
  <2> QED  BY <2>4
<1>6. s \in Nat /\ s < Len(cache)
  <2>1. s \in 0..Len(cache) /\ s # Len(cache)  BY <1>3
  <2> QED  BY <1>3, <2>1
<1>7. \A i \in (s + 1)..Len(cache) : i \in 1..Len(cache) /\ cache[i] # Newline
  <2> SUFFICES ASSUME NEW i \in (s + 1)..Len(cache)
               PROVE  i \in 1..Len(cache) /\ cache[i] # Newline
    OBVIOUS
  <2>1. i \in 1..Len(cache) /\ ~(i <= s)  BY <1>3, <1>6
  <2>2. i \notin LineStarts(cache)  BY <1>5, <2>1
  <2> QED  BY <1>3, <2>1, <2>2
<1>8. TornAt(w, s)'
  <2> DEFINE k == Len(cache) + 1
  <2>1. k \in (s + 2)..Len(cache') /\ k > Len(w.cache) /\ k - 1 = Len(cache)  BY <1>3, <1>4, <1>6
  <2>2. cache'[k].is = "disc id"  BY <1>1, <1>4
  <2>3. s \in LineStarts(cache')  BY <1>4
  <2>4. \A i \in (s + 1)..(k - 1) : cache'[i] # Newline
    <3> HIDE DEF k
    <3> QED  BY <1>4, <1>7, <2>1
  <2> HIDE DEF k
  <2> QED  BY <2>1, <2>2, <2>3, <2>4 DEF TornAt
<1>9. \A e \in DOMAIN FileLines(cache') : e < s => Sound(w, e)'
  <2>1. \A e \in DOMAIN FileLines(cache) : e < s => Sound(w, e)  BY DEF Whole
  <2> QED  BY <1>1, <1>2, <2>1, SoundBefore
<1>10. s \in 0..Len(cache')  BY <1>3, <1>4, <1>6
<1> QED  BY <1>8, <1>9, <1>10 DEF TornFrom

\* A process that is alone within its line goes on with it, or ends it.
LEMMA GoesOn ==
  ASSUME NEW w \in Worlds, NEW p \in Procs, NEW d \in Discs, NEW n \in 1..4, Adds(p, d, n),
         Whole(w), cache \in Seq(FilePiece), Len(w.cache) \in Nat, Len(w.cache) <= Len(cache)
  PROVE  Whole(w)'
<1> DEFINE l == LinePieces(d, d)  x == l[n + 1]
<1>1. /\ \A i \in 1..5 : l[i] \in FilePiece
      /\ \A i \in 1..4 : l[i] # Newline
      /\ l[5] = Newline
  BY PieceFacts
<1>2. OneMore(cache, x, cache')  BY DEF Adds
<1>3. Writes(p) /\ Written(p) = n /\ job[p].disc = d  BY DEF Adds, Writes
<1> DEFINE b == Len(cache) - n
<1>4. /\ b >= Len(w.cache) /\ b \in LineStarts(cache)
      /\ \A i \in 1..n : cache[b + i] = l[i]
  <2>1. OwnsOpenLine(w, p)  BY <1>3 DEF Whole
  <2> QED  BY <1>3, <2>1 DEF OwnsOpenLine
<1>5. /\ Len(cache) \in Nat /\ LineStarts(cache) \subseteq 0..Len(cache)
      /\ \A e \in 1..Len(cache) : e \in LineStarts(cache) <=> cache[e] = Newline
  BY StartFacts
<1>6. n < 4 => pc'[p] = "append" /\ job'[p].disc = d /\ Written(p)' = n + 1  BY DEF Adds
<1>7. x = l[n + 1] /\ n + 1 \in 1..5  OBVIOUS
<1>8. x \in FilePiece /\ (n < 4 => x # Newline) /\ (n = 4 => x = Newline)
  <2>1. n < 4 => n + 1 \in 1..4  OBVIOUS
  <2> QED  BY <1>1, <1>7, <2>1
<1>9. b \in Nat /\ b + n = Len(cache)  BY <1>4, <1>5
<1> HIDE DEF l, x, b
<1>10. /\ cache' \in Seq(FilePiece) /\ Len(cache') = Len(cache) + 1 /\ cache'[Len(cache) + 1] = x
       /\ \A i \in 1..Len(cache) : cache'[i] = cache[i]
       /\ \A e : e \in LineStarts(cache') <=>
                   e \in LineStarts(cache) \/ (x = Newline /\ e = Len(cache) + 1)
  BY <1>2, <1>8, Extended
<1>11. \A i \in (b + 1)..Len(cache) : i \in 1..Len(cache) /\ cache[i] # Newline
  <2> SUFFICES ASSUME NEW i \in (b + 1)..Len(cache)
               PROVE  i \in 1..Len(cache) /\ cache[i] # Newline
    OBVIOUS
  <2>1. i - b \in 1..n /\ b + (i - b) = i /\ i \in 1..Len(cache) /\ i - b \in 1..4
    BY <1>5, <1>9
  <2>2. cache[i] = l[i - b]  BY <1>4, <2>1
  <2> QED  BY <1>1, <2>1, <2>2
<1>12. LineEnd(cache, b) = Len(cache)
  <2>1. Len(cache) \in b..Len(cache)  BY <1>5, <1>9
  <2>2. EndsAt(cache, b, Len(cache))  BY <1>11, <2>1 DEF EndsAt
  <2> QED  BY <1>4, <2>2, EndFacts
<1>13. \A e \in LineStarts(cache) : e <= b
  <2> SUFFICES ASSUME NEW e \in LineStarts(cache), e > b  PROVE FALSE
    BY <1>5, <1>9
  <2>1. e \in (b + 1)..Len(cache)  BY <1>5, <1>9
  <2> QED  BY <1>5, <1>11, <2>1
<1>14. ASSUME NEW e \in DOMAIN FileLines(cache')  PROVE Sound(w, e)'
  <2>1. e \in LineStarts(cache') /\ e < LineEnd(cache', e) /\ LineEnd(cache', e) \in 1..Len(cache')
    BY <1>10, <1>14, LineIs
  <2>2. \A c \in DOMAIN FileLines(cache) : Sound(w, c)  BY DEF Whole
  <2>3. CASE n = 4
    <3>1. e # Len(cache) + 1  BY <1>5, <1>10, <2>1
    <3>2. e \in LineStarts(cache)  BY <1>10, <2>1, <3>1
    <3> QED  BY <1>2, <1>8, <1>14, <2>2, <2>3, <3>2, SoundKept
  <2>4. CASE n < 4 /\ e < b
    <3> QED  BY <1>2, <1>4, <1>8, <1>14, <2>2, <2>4, SoundBefore
  <2>5. CASE n < 4 /\ e = b
    <3>1. LineEnd(cache', e) = Len(cache) + 1
      BY <1>2, <1>4, <1>8, <1>12, <2>5, EndExtended
    <3>2. LineEnd(cache', e) - e = n + 1  BY <1>5, <1>9, <2>5, <3>1
    <3> DEFINE line == FileLines(cache')[e]
    <3>7. cache' \in Seq(FilePiece)  BY <1>10
    <3>8. /\ Len(line) = LineEnd(cache', e) - e
          /\ \A i \in 1..(LineEnd(cache', e) - e) : line[i] = cache'[e + i]
      BY <1>14, <3>7, LineIs
    <3> HIDE DEF line
    <3>3. Len(line) = n + 1 /\ \A i \in 1..(n + 1) : line[i] = cache'[e + i]
      BY <3>2, <3>8
    <3>4. ASSUME NEW i \in 1..(n + 1)  PROVE line[i] = l[i]
      <4>1. line[i] = cache'[b + i]  BY <2>5, <3>3, <3>4
      <4>2. CASE i = n + 1
        <5>1. b + i = Len(cache) + 1  BY <1>5, <1>9, <4>2
        <5> QED  BY <1>7, <1>10, <4>1, <4>2, <5>1
      <4>3. CASE i # n + 1
        <5>1. i \in 1..n /\ b + i \in 1..Len(cache)  BY <1>5, <1>9, <3>4, <4>3
        <5> QED  BY <1>4, <1>10, <4>1, <5>1
      <4> QED  BY <4>2, <4>3
    <3>5. Len(line) \in 1..4  BY <2>5, <3>3
    <3>6. TrueLine(line)  BY <3>3, <3>4, <3>5 DEF TrueLine, l
    <3> QED  BY <3>6 DEF Sound, line
  <2>6. n < 4 => e <= b
    <3>1. n < 4 => e \in LineStarts(cache)  BY <1>8, <1>10, <2>1
    <3> QED  BY <1>13, <3>1
  <2>7. e \in Nat
    <3>1. LineStarts(cache') \subseteq 0..Len(cache')  BY <1>10, StartFacts
    <3> QED  BY <2>1, <3>1
  <2>8. n = 4 \/ n < 4  OBVIOUS
  <2> QED  BY <1>9, <2>3, <2>4, <2>5, <2>6, <2>7, <2>8
<1>15. ASSUME NEW q \in Procs, Writes(q)'  PROVE q = p /\ n < 4
  <2>1. q # p => Writes(q)  BY <1>15, NobodyNew
  <2>2. q = p  BY <1>3, <2>1 DEF Whole
  <2>3. n # 4  BY <1>15, <2>2 DEF Adds, Writes
  <2> QED  BY <2>2, <2>3
<1>16. ASSUME n < 4  PROVE OwnsOpenLine(w, p)'
  <2>1. Len(cache') - (n + 1) = b  BY <1>5, <1>9, <1>10
  <2>2. b \in LineStarts(cache')  BY <1>4, <1>10
  <2>3. ASSUME NEW i \in 1..(n + 1)  PROVE cache'[b + i] = l[i]
    <3>1. CASE i = n + 1
      <4>1. b + i = Len(cache) + 1  BY <1>5, <1>9, <3>1
      <4> QED  BY <1>7, <1>10, <3>1, <4>1
    <3>2. CASE i # n + 1
      <4>1. i \in 1..n /\ b + i \in 1..Len(cache)  BY <1>5, <1>9, <2>3, <3>2
      <4> QED  BY <1>4, <1>10, <4>1
    <3> QED  BY <3>1, <3>2
  <2>4. job'[p].disc = d /\ Written(p)' = n + 1  BY <1>6, <1>16
  <2> QED  BY <1>4, <2>1, <2>2, <2>3, <2>4 DEF OwnsOpenLine, l
<1>17. \A q \in Procs : Writes(q)' => OwnsOpenLine(w, q)'  BY <1>15, <1>16
<1>18. \A q, r \in Procs : Writes(q)' /\ Writes(r)' => q = r  BY <1>15
<1> QED  BY <1>14, <1>17, <1>18 DEF Whole

-----------------------------------------------------------------------------
(* The steps and the file.                                                 *)

\* Process p moves and no other does.
Moves(p, label) ==
  /\ pc'[p] = label
  /\ \A q \in Procs : q # p => pc'[q] = pc[q] /\ job'[q] = job[q]

LEMMA MovesFacts ==
  ASSUME KeysTried, NEW p \in Procs, NEW label, Goto(p, label),
         UNCHANGED job \/ \E j : job' = [job EXCEPT ![p] = j]
  PROVE  Moves(p, label)
<1>1. pc' = [pc EXCEPT ![p] = label] /\ DOMAIN pc = Procs /\ DOMAIN job = Procs
  BY DEF Goto, KeysTried
<1>2. CASE UNCHANGED job  BY <1>1, <1>2 DEF Moves
<1>3. CASE \E j : job' = [job EXCEPT ![p] = j]
  <2>1. PICK j : job' = [job EXCEPT ![p] = j]  BY <1>3
  <2> QED  BY <1>1, <2>1 DEF Moves
<1> QED  BY <1>2, <1>3

LEMMA AnswerMoves ==
  ASSUME KeysTried, NEW p \in Procs, NEW d, NEW entry, NEW found, Answer(p, d, entry, found)
  PROVE  Moves(p, "idle")
<1>1. Goto(p, "idle") /\ job' = [job EXCEPT ![p] = NoJob]  BY DEF Answer
<1> QED  BY <1>1, MovesFacts

LEMMA ResolvedMoves ==
  ASSUME KeysTried, NEW p \in Procs, NEW source, NEW entry, Resolved(p, source, entry)
  PROVE  Moves(p, "verify")
<1>1. p \in DOMAIN job  BY DEF KeysTried
<1>2. job' = [job EXCEPT ![p] = [job[p] EXCEPT !.source = source, !.entry = entry]]
  BY <1>1 DEF Resolved
<1>3. \E j : job' = [job EXCEPT ![p] = j]  BY <1>2
<1> QED  BY <1>3, MovesFacts DEF Resolved

\* The file is as tidy as it was when nothing is written and nobody begins to
\* write.
LEMMA SameFile ==
  ASSUME KeysTried, NEW w \in Worlds, Tidy(w), UNCHANGED <<world, cache>>, NEW p \in Procs,
         NEW label, Moves(p, label), label = "append" => Len(job'[p].toWrite) = 5
  PROVE  Tidy(w)'
<1>1. cache' = cache /\ keydb' = keydb /\ env' = env  BY DEF world
<1>2. ASSUME NEW q \in Procs, Writes(q)'  PROVE Writes(q) /\ job'[q] = job[q]
  <2>1. CASE q = p
    <3>1. label = "append"  BY <1>2, <2>1 DEF Writes, Moves
    <3>2. Written(p)' = 0  BY <3>1 DEF Written
    <3> QED  BY <1>2, <2>1, <3>2 DEF Writes
  <2>2. CASE q # p  BY <1>2, <2>2 DEF Moves, Writes, Written
  <2> QED  BY <2>1, <2>2
<1>3. \A e : Sound(w, e)' <=> Sound(w, e)  BY <1>1 DEF Sound, AsItWas
<1>4. cache' \in Seq(FilePiece) /\ GrewFrom(w)'  BY <1>1 DEF Tidy, GrewFrom
<1>5. CASE TornFrom(w)
  <2>1. \A b : TornAt(w, b)' <=> TornAt(w, b)  BY <1>1 DEF TornAt
  <2>2. TornFrom(w)'  BY <1>1, <1>3, <1>5, <2>1 DEF TornFrom
  <2> QED  BY <1>4, <2>2 DEF Tidy
<1>6. CASE Whole(w)
  <2>1. \A e \in DOMAIN FileLines(cache') : Sound(w, e)'  BY <1>1, <1>3, <1>6 DEF Whole
  <2>2. \A q \in Procs : Writes(q)' => OwnsOpenLine(w, q)'
    <3> SUFFICES ASSUME NEW q \in Procs, Writes(q)'  PROVE OwnsOpenLine(w, q)'
      OBVIOUS
    <3>1. job'[q] = job[q] /\ OwnsOpenLine(w, q)  BY <1>2, <1>6 DEF Whole
    <3> QED  BY <1>1, <3>1 DEF OwnsOpenLine, Written
  <2>3. \A q, r \in Procs : Writes(q)' /\ Writes(r)' => q = r  BY <1>2, <1>6 DEF Whole
  <2>4. Whole(w)'  BY <2>1, <2>2, <2>3 DEF Whole
  <2> QED  BY <1>4, <2>4 DEF Tidy
<1> QED  BY <1>5, <1>6 DEF Tidy

\* Every step but the writes.
LEMMA ReadsKeepTidy ==
  ASSUME KeysTried, NEW w \in Worlds, Tidy(w), NEW p \in Procs,
         \/ \E d \in Wants[p] : Open(p, d)
         \/ FromEnv(p) \/ FromKeydb(p) \/ FromCache(p) \/ Online(p) \/ Verify(p) \/ Crash(p)
  PROVE  Tidy(w)'
<1>1. UNCHANGED <<world, cache>>
  BY DEF Open, FromEnv, FromKeydb, FromCache, Online, Verify, Crash
<1>2. \E label \in Labels \ {"append"} : Moves(p, label)
  <2> DEFINE M == \E label \in Labels \ {"append"} : Moves(p, label)
  <2>1. ASSUME NEW d, NEW entry, NEW found, Answer(p, d, entry, found)  PROVE M
    BY <2>1, AnswerMoves DEF Labels
  <2>2. ASSUME NEW source, NEW entry, Resolved(p, source, entry)  PROVE M
    BY <2>2, ResolvedMoves DEF Labels
  <2>3. ASSUME NEW label \in Labels \ {"append"}, Goto(p, label), UNCHANGED job  PROVE M
    BY <2>3, MovesFacts
  <2>4. {"keydb", "cache", "online", "check", "env", "idle"} \subseteq Labels \ {"append"}
    BY DEF Labels
  <2>5. ASSUME NEW d, Open(p, d)  PROVE M
    <3>1. CASE Answer(p, d, NoEntry, "none")  BY <2>1, <3>1
    <3>2. CASE Goto(p, "env") /\ job' = [job EXCEPT ![p] = [NoJob EXCEPT !.disc = d]]
      <4>1. Moves(p, "env")  BY <3>2, MovesFacts
      <4> QED  BY <2>4, <4>1
    <3> QED  BY <2>5, <3>1, <3>2 DEF Open
  <2>6. ASSUME FromEnv(p)  PROVE M
    <3>1. \/ \E v : Resolved(p, "env", Entry(v, NoUnits))
          \/ Goto(p, "keydb") /\ UNCHANGED job
      BY <2>6 DEF FromEnv
    <3> QED  BY <2>2, <2>3, <2>4, <3>1
  <2>7. ASSUME NEW source, NEW lines, NEW label \in {"cache", "online"},
               Lookup(p, source, lines, label)
        PROVE  M
    <3>1. \/ \E entry : Resolved(p, source, entry)
          \/ Goto(p, label) /\ UNCHANGED job
      BY <2>7 DEF Lookup
    <3> QED  BY <2>2, <2>3, <2>4, <3>1
  <2>8. ASSUME FromKeydb(p)  PROVE M
    <3>1. \/ Goto(p, "cache") /\ UNCHANGED job
          \/ Answer(p, job[p].disc, job[p].entry, "error")
          \/ Lookup(p, "keydb", KeydbFile.lines, "cache")
      BY <2>8 DEF FromKeydb
    <3> QED  BY <2>1, <2>3, <2>4, <2>7, <3>1
  <2>9. ASSUME FromCache(p)  PROVE M
    <3>1. \/ Answer(p, job[p].disc, NoEntry, "error")
          \/ Lookup(p, "cache", CacheLines, "online")
      BY <2>9 DEF FromCache
    <3> QED  BY <2>1, <2>7, <3>1
  <2>10. ASSUME Online(p)  PROVE M
    <3>1. \/ \E found : Answer(p, job[p].disc, job[p].entry, found)
          \/ \E v : Resolved(p, "online", Entry(v, NoUnits))
      BY <2>10 DEF Online
    <3> QED  BY <2>1, <2>2, <3>1
  <2>11. ASSUME Verify(p)  PROVE M
    <3>1. \/ \E found : Answer(p, job[p].disc, job[p].entry, found)
          \/ Goto(p, "check") /\ UNCHANGED job
      BY <2>11 DEF Verify
    <3> QED  BY <2>1, <2>3, <2>4, <3>1
  <2>12. ASSUME Crash(p)  PROVE M
    <3>1. Goto(p, "idle") /\ job' = [job EXCEPT ![p] = NoJob]  BY <2>12 DEF Crash
    <3>2. Moves(p, "idle")  BY <3>1, MovesFacts
    <3> QED  BY <2>4, <3>2
  <2> HIDE DEF M
  <2>13. M  BY <2>5, <2>6, <2>8, <2>9, <2>10, <2>11, <2>12
  <2> QED  BY <2>13 DEF M
<1> QED  BY <1>1, <1>2, SameFile

LEMMA CheckCacheKeepsTidy ==
  ASSUME KeysTried, NEW w \in Worlds, Tidy(w), NEW p \in Procs, CheckCache(p)
  PROVE  Tidy(w)'
<1>1. UNCHANGED <<world, cache>>  BY DEF CheckCache
<1>2. \/ Answer(p, job[p].disc, job[p].entry, "keys")
      \/ /\ Goto(p, "append")
         /\ job' = [job EXCEPT ![p].toWrite = LinePieces(job[p].disc, job[p].entry.vuk)]
  BY DEF CheckCache
<1>3. CASE Answer(p, job[p].disc, job[p].entry, "keys")
  <2>1. Moves(p, "idle")  BY <1>3, AnswerMoves
  <2> QED  BY <1>1, <2>1, SameFile
<1>4. CASE /\ Goto(p, "append")
           /\ job' = [job EXCEPT ![p].toWrite = LinePieces(job[p].disc, job[p].entry.vuk)]
  <2> DEFINE line == LinePieces(job[p].disc, job[p].entry.vuk)
  <2>1. Len(line) = 5  BY DEF LinePieces
  <2>2. p \in DOMAIN job  BY DEF KeysTried
  <2> HIDE DEF line
  <2>3. job' = [job EXCEPT ![p] = [job[p] EXCEPT !.toWrite = line]]  BY <1>4, <2>2 DEF line
  <2>4. StandsAt(pc[p], job[p])  BY DEF KeysTried
  <2>5. job[p] = Job(job[p].disc, job[p].source, job[p].entry, job[p].toWrite)
    BY <2>4 DEF StandsAt, JobShape
  <2>6. [job[p] EXCEPT !.toWrite = line].toWrite = line  BY <2>5 DEF Job
  <2>7. job'[p].toWrite = line  BY <2>2, <2>3, <2>6
  <2>8. Moves(p, "append")  BY <1>4, <2>3, MovesFacts
  <2> QED  BY <1>1, <2>1, <2>7, <2>8, SameFile
<1> QED  BY <1>2, <1>3, <1>4

\* A write is of the next piece of a true line.
LEMMA AppendAdds ==
  ASSUME KeysTried, NEW p \in Procs, pc[p] = "append",
         cache' = Append(cache, Head(job[p].toWrite)), UNCHANGED world,
         IF Len(job[p].toWrite) = 1
         THEN Answer(p, job[p].disc, job[p].entry, "keys")
         ELSE job' = [job EXCEPT ![p].toWrite = Tail(@)] /\ UNCHANGED pc
  PROVE  job[p].disc \in Discs /\ \E n \in 0..4 : Adds(p, job[p].disc, n)
<1>1. StandsAt("append", job[p])  BY DEF KeysTried
<1>2. job[p].disc \in Discs  BY <1>1, DiscsAssumption DEF StandsAt
<1>3. PICK i \in 1..5 : job[p].toWrite = RestOfLine(job[p].disc, i)  BY <1>1 DEF StandsAt
<1> DEFINE d == job[p].disc  n == i - 1
<1>4. n \in 0..4 /\ n + 1 = i  OBVIOUS
<1>5. Len(job[p].toWrite) = 6 - i /\ Head(job[p].toWrite) = LinePieces(d, d)[i]
  BY <1>3, RestFacts
<1>6. Written(p) = n  BY <1>5 DEF Written
<1>7. OneMore(cache, LinePieces(d, d)[n + 1], cache')  BY <1>4, <1>5 DEF OneMore
<1>8. p \in DOMAIN job /\ p \in DOMAIN pc  BY DEF KeysTried
<1>9. ASSUME n < 4
      PROVE  /\ pc'[p] = "append" /\ job'[p].disc = d /\ Written(p)' = n + 1
             /\ \A q \in Procs : q # p => pc'[q] = pc[q] /\ job'[q] = job[q]
  <2>1. i < 5  BY <1>9
  <2>2. Len(job[p].toWrite) # 1  BY <1>5, <2>1
  <2>3. job' = [job EXCEPT ![p].toWrite = Tail(@)] /\ pc' = pc  BY <2>2
  <2> DEFINE rest == Tail(job[p].toWrite)
  <2>4. rest = RestOfLine(d, i + 1) /\ i + 1 \in 1..5  BY <1>3, <2>1, RestFacts
  <2> HIDE DEF rest
  <2>5. Len(rest) = 5 - i
    <3>1. Len(RestOfLine(d, i + 1)) = 6 - (i + 1)  BY <2>4, RestFacts
    <3>2. 6 - (i + 1) = 5 - i  OBVIOUS
    <3> QED  BY <2>4, <3>1, <3>2
  <2>6. job' = [job EXCEPT ![p] = [job[p] EXCEPT !.toWrite = rest]]  BY <1>8, <2>3 DEF rest
  <2>7. job[p] = Job(job[p].disc, job[p].source, job[p].entry, job[p].toWrite)
    BY <1>1 DEF StandsAt, JobShape
  <2>8. /\ [job[p] EXCEPT !.toWrite = rest].toWrite = rest
        /\ [job[p] EXCEPT !.toWrite = rest].disc = d
    BY <2>7 DEF Job
  <2>9. job'[p].toWrite = rest /\ job'[p].disc = d  BY <1>8, <2>6, <2>8
  <2>10. Written(p)' = n + 1  BY <2>5, <2>9 DEF Written
  <2>11. \A q \in Procs : q # p => pc'[q] = pc[q] /\ job'[q] = job[q]
    BY <2>3, <2>6 DEF KeysTried
  <2> QED  BY <2>3, <2>9, <2>10, <2>11
<1>10. ASSUME n = 4
       PROVE  /\ pc'[p] # "append"
              /\ \A q \in Procs : q # p => pc'[q] = pc[q] /\ job'[q] = job[q]
  <2>1. Len(job[p].toWrite) = 1  BY <1>4, <1>5, <1>10
  <2>2. Moves(p, "idle")  BY <2>1, AnswerMoves
  <2> QED  BY <2>2 DEF Moves
<1> HIDE DEF n
<1>11. n < 4 \/ n = 4  BY <1>4
<1>12. Adds(p, d, n)
  BY <1>6, <1>7, <1>9, <1>10, <1>11 DEF Adds
<1> QED  BY <1>2, <1>4, <1>12

LEMMA AppendKeepsTidy ==
  ASSUME KeysTried, NEW w \in Worlds, Tidy(w), NEW p \in Procs, AppendPiece(p)
  PROVE  Tidy(w)'
<1>1. CASE UNCHANGED cache /\ Answer(p, job[p].disc, job[p].entry, "keys")
  <2>1. Moves(p, "idle")  BY <1>1, AnswerMoves
  <2>2. UNCHANGED <<world, cache>>  BY <1>1 DEF AppendPiece
  <2> QED  BY <2>1, <2>2, SameFile
<1>2. CASE /\ cache' = Append(cache, Head(job[p].toWrite))
           /\ IF Len(job[p].toWrite) = 1
              THEN Answer(p, job[p].disc, job[p].entry, "keys")
              ELSE job' = [job EXCEPT ![p].toWrite = Tail(@)] /\ UNCHANGED pc
  <2> DEFINE d == job[p].disc
  <2>1. pc[p] = "append" /\ UNCHANGED world  BY DEF AppendPiece
  <2>2. PICK n \in 0..4 : d \in Discs /\ Adds(p, d, n)  BY <1>2, <2>1, AppendAdds
  <2> HIDE DEF d
  <2> DEFINE x == LinePieces(d, d)[n + 1]
  <2>3. n + 1 \in 1..5  OBVIOUS
  <2>4. x \in FilePiece  BY <2>2, <2>3, PieceFacts
  <2>5. OneMore(cache, x, cache')  BY <2>2 DEF Adds
  <2> HIDE DEF x
  <2>6. cache \in Seq(FilePiece) /\ GrewFrom(w) /\ (TornFrom(w) \/ Whole(w))  BY DEF Tidy
  <2>7. /\ GrewFrom(w)' /\ cache' \in Seq(FilePiece)
        /\ Len(w.cache) \in Nat /\ Len(w.cache) <= Len(cache)
    BY <2>1, <2>4, <2>5, <2>6, GrewMore
  <2>8. CASE TornFrom(w)
    <3>1. TornFrom(w)'  BY <2>4, <2>5, <2>6, <2>8, TornStays
    <3> QED  BY <2>7, <3>1 DEF Tidy
  <2>9. CASE Whole(w) /\ n = 0
    <3>1. Adds(p, d, 0)  BY <2>2, <2>9
    <3>2. \A q \in Procs : Writes(q) => Written(q) \in 1..4 /\ job[q].disc \in Discs
      <4> SUFFICES ASSUME NEW q \in Procs, Writes(q)
                   PROVE  Written(q) \in 1..4 /\ job[q].disc \in Discs
        OBVIOUS
      <4>1. StandsAt("append", job[q]) /\ Written(q) > 0  BY DEF Writes, KeysTried
      <4>2. job[q].disc \in Discs  BY <4>1, DiscsAssumption DEF StandsAt
      <4>3. PICK i \in 1..5 : job[q].toWrite = RestOfLine(job[q].disc, i)
        BY <4>1 DEF StandsAt
      <4>4. Len(job[q].toWrite) = 6 - i  BY <4>3, RestFacts
      <4>5. Written(q) = i - 1  BY <4>4 DEF Written
      <4>6. Written(q) > 0  BY <4>1
      <4> QED  BY <4>2, <4>5, <4>6
    <3>3. CASE Len(cache) \in LineStarts(cache)
      <4>1. Whole(w)'  BY <2>2, <2>6, <2>7, <2>9, <3>1, <3>2, <3>3, StartsLine
      <4> QED  BY <2>7, <4>1 DEF Tidy
    <3>4. CASE Len(cache) \notin LineStarts(cache)
      <4>1. TornFrom(w)'  BY <2>2, <2>6, <2>7, <2>9, <3>1, <3>4, Tears
      <4> QED  BY <2>7, <4>1 DEF Tidy
    <3> QED  BY <3>3, <3>4
  <2>10. CASE Whole(w) /\ n # 0
    <3>1. n \in 1..4  BY <2>10
    <3>2. Whole(w)'  BY <2>2, <2>6, <2>7, <2>10, <3>1, GoesOn
    <3> QED  BY <2>7, <3>2 DEF Tidy
  <2> QED  BY <2>6, <2>8, <2>9, <2>10
<1> QED  BY <1>1, <1>2 DEF AppendPiece

\* The file is at all times one that grew, tidily, from what it was in a world
\* the program may start in.
CacheTidy == KeysTried /\ \E w \in Worlds : Tidy(w)

LEMMA CacheTidyInit == Init => CacheTidy
<1> SUFFICES ASSUME Init  PROVE \E w \in Worlds : Tidy(w)
  BY KeysTriedInit DEF CacheTidy
<1>1. PICK w \in Worlds : keydb = w.keydb /\ env = w.env /\ cache = w.cache  BY DEF Init
<1>2. \A p \in Procs : ~Writes(p)  BY DEF Init, Writes
<1>3. cache \in Seq(FilePiece)  BY <1>1, WorldsAssumption
<1>4. GrewFrom(w)
  <2>1. IsPrefix(cache, cache)  BY <1>3 DEF IsPrefix
  <2> QED  BY <1>1, <2>1 DEF GrewFrom
<1>5. Whole(w)  BY <1>1, <1>2 DEF Whole, Sound, AsItWas
<1>6. Tidy(w)  BY <1>3, <1>4, <1>5 DEF Tidy
<1> QED  BY <1>6

LEMMA CacheTidyNext == CacheTidy /\ [Next]_vars => CacheTidy'
<1> SUFFICES ASSUME CacheTidy, [Next]_vars  PROVE \E w \in Worlds : Tidy(w)'
  BY KeysTriedNext DEF CacheTidy
<1>1. KeysTried  BY DEF CacheTidy
<1>2. PICK w \in Worlds : Tidy(w)  BY DEF CacheTidy
<1>3. CASE UNCHANGED vars
  <2>1. UNCHANGED <<world, cache>> /\ pc' = pc /\ job' = job  BY <1>3 DEF vars
  <2>2. Tidy(w)'
    BY <1>2, <2>1
       DEF world, Tidy, GrewFrom, TornFrom, TornAt, Whole, Sound, AsItWas, Writes, Written, OwnsOpenLine
  <2> QED  BY <2>2
<1>4. CASE Next
  <2>1. PICK p \in Procs : (\E d \in Wants[p] : Open(p, d)) \/ Step(p) \/ Crash(p)
    BY <1>4 DEF Next
  <2>2. CASE CheckCache(p)  BY <1>1, <1>2, <2>2, CheckCacheKeepsTidy
  <2>3. CASE AppendPiece(p)  BY <1>1, <1>2, <2>3, AppendKeepsTidy
  <2>4. CASE \/ \E d \in Wants[p] : Open(p, d)
             \/ FromEnv(p) \/ FromKeydb(p) \/ FromCache(p) \/ Online(p) \/ Verify(p) \/ Crash(p)
    BY <1>1, <1>2, <2>4, ReadsKeepTidy
  <2> QED  BY <2>1, <2>2, <2>3, <2>4 DEF Step
<1> QED  BY <1>3, <1>4

-----------------------------------------------------------------------------
(* What a reader of the file finds.                                        *)

LEMMA CleanFacts ==
  ASSUME NEW line, Clean(line)
  PROVE  /\ Len(line) = 4
         /\ \E d \in Discs, k \in Keys : \A i \in 1..4 : line[i] = LinePieces(d, k)[i]
<1>1. PICK d \in Discs, k \in Keys : line = Front(LinePieces(d, k))  BY DEF Clean
<1> DEFINE l == LinePieces(d, k)
<1>2. Len(l) = 5  BY DEF LinePieces
<1> HIDE DEF l
<1>3. line = SubSeq(l, 1, 4)  BY <1>1, <1>2 DEF Front, l
<1>4. \A s : SubSeq(s, 1, 4) = [i \in 1..4 |-> s[i]]
  <2>1. \A s : SubSeq(s, 1, 4) = [i \in 1..(4 - 1 + 1) |-> s[1 + i - 1]]  OBVIOUS
  <2>2. \A s : [i \in 1..(4 - 1 + 1) |-> s[1 + i - 1]] = [i \in 1..4 |-> s[i]]  OBVIOUS
  <2> QED  BY <2>1, <2>2
<1>5. line = [i \in 1..4 |-> l[i]]  BY <1>3, <1>4
<1>6. Len(line) = 4  BY <1>5
<1>7. \A i \in 1..4 : line[i] = l[i]  BY <1>5
<1> QED  BY <1>6, <1>7 DEF l

\* A torn line is neither clean nor one of the file as it was.
LEMMA TornShows ==
  ASSUME NEW w \in Worlds, cache \in Seq(FilePiece), NEW b, TornAt(w, b)
  PROVE  /\ b \in DOMAIN FileLines(cache)
         /\ ~Clean(FileLines(cache)[b]) /\ ~AsItWas(w, b)
<1>1. b \in LineStarts(cache)  BY DEF TornAt
<1>2. PICK k \in (b + 2)..Len(cache) :
         /\ k > Len(w.cache) /\ cache[k].is = "disc id"
         /\ \A i \in (b + 1)..(k - 1) : cache[i] # Newline
  BY DEF TornAt
<1>3. Len(cache) \in Nat /\ b \in 0..Len(cache)  BY <1>1, StartFacts
<1>4. k \in Nat /\ k >= b + 2 /\ k <= Len(cache)
  <2>1. k \in (b + 2)..Len(cache)  BY <1>2
  <2> QED  BY <1>3, <2>1
<1>5. k > Len(w.cache)  BY <1>2
<1>6. \A i \in (b + 1)..k : cache[i] # Newline
  <2> SUFFICES ASSUME NEW i \in (b + 1)..k  PROVE cache[i] # Newline
    OBVIOUS
  <2>1. CASE i = k
    <3>1. Newline.is = "newline"  BY DEF Newline, Piece
    <3>2. "newline" # "disc id"  OBVIOUS
    <3> QED  BY <1>2, <2>1, <3>1, <3>2
  <2>2. CASE i # k
    <3>1. i \in (b + 1)..(k - 1)  BY <1>3, <1>4, <2>2
    <3> QED  BY <1>2, <3>1
  <2> QED  BY <2>1, <2>2
<1> DEFINE m == LineEnd(cache, b)
<1>7. m \in b..Len(cache) /\ (m = Len(cache) \/ cache[m + 1] = Newline)
  BY <1>1, EndFacts DEF EndsAt
<1>8. m >= k
  <2> HIDE DEF m
  <2> SUFFICES ASSUME m < k  PROVE FALSE
    BY <1>3, <1>4, <1>7
  <2>1. m + 1 \in (b + 1)..k /\ m # Len(cache)  BY <1>3, <1>4, <1>7
  <2> QED  BY <1>6, <1>7, <2>1
<1>9. b \in DOMAIN FileLines(cache)
  <2>1. b < m  BY <1>3, <1>4, <1>7, <1>8
  <2> QED  BY <1>1, <2>1 DEF FileLines
<1> DEFINE line == FileLines(cache)[b]
<1>10. Len(line) = m - b /\ \A i \in 1..(m - b) : line[i] = cache[b + i]  BY <1>9, LineIs
<1> HIDE DEF m, line
<1>11. k - b \in 1..(m - b) /\ b + (k - b) = k /\ k - b >= 2  BY <1>3, <1>4, <1>7, <1>8
<1>12. line[k - b].is = "disc id"
  <2>1. line[k - b] = cache[k]  BY <1>10, <1>11
  <2> QED  BY <1>2, <2>1
<1>13. ASSUME Clean(line)  PROVE FALSE
  <2>1. Len(line) = 4  BY <1>13, CleanFacts
  <2>2. PICK d \in Discs, c \in Keys : \A i \in 1..4 : line[i] = LinePieces(d, c)[i]
    BY <1>13, CleanFacts
  <2>3. k - b \in 2..4
    <3>1. m - b = 4  BY <1>10, <2>1
    <3> QED  BY <1>11, <3>1
  <2>4. LinePieces(d, c)[k - b].is # "disc id"  BY <2>3, PieceFacts
  <2>5. k - b \in 1..4  BY <2>3
  <2> QED  BY <1>12, <2>2, <2>4, <2>5
<1>14. ASSUME AsItWas(w, b)  PROVE FALSE
  <2>1. b \in DOMAIN FileLines(w.cache) /\ FileLines(w.cache)[b] = line
    BY <1>14 DEF AsItWas, line
  <2>2. w.cache \in Seq(FilePiece)  BY WorldsAssumption
  <2>3. /\ Len(FileLines(w.cache)[b]) = LineEnd(w.cache, b) - b
        /\ LineEnd(w.cache, b) \in 1..Len(w.cache)
    BY <2>1, <2>2, LineIs
  <2>4. Len(w.cache) \in Nat  BY <2>2
  <2>5. m - b = LineEnd(w.cache, b) - b  BY <1>10, <2>1, <2>3
  <2> QED  BY <1>3, <1>4, <1>5, <1>7, <1>8, <2>3, <2>4, <2>5
<1> QED  BY <1>9, <1>13, <1>14 DEF line

\* A line that its writer has ended tells the truth.
LEMMA TrueLineTruth ==
  ASSUME NEW line, TrueLine(line), Len(line) = 4
  PROVE  ParseLine(line).vuk = ParseLine(line).disc
<1>1. PICK d \in Discs : \A i \in 1..4 : line[i] = LinePieces(d, d)[i]  BY DEF TrueLine
<1>2. line[1] = Piece("disc id", d) /\ line[3] = Piece("vuk", d)
  <2>1. LinePieces(d, d)[1] = Piece("disc id", d) /\ LinePieces(d, d)[3] = Piece("vuk", d)
    BY DEF LinePieces
  <2>2. 1 \in 1..4 /\ 3 \in 1..4  OBVIOUS
  <2> QED  BY <1>1, <2>1, <2>2
<1>3. line[1].is = "disc id" /\ line[1].of = d /\ line[3].of = d
  <2>1. Piece("disc id", d).is = "disc id"  BY DEF Piece
  <2>2. Piece("disc id", d).of = d /\ Piece("vuk", d).of = d  BY DEF Piece
  <2> QED  BY <1>2, <2>1, <2>2
<1>4. /\ ParseLine(line).disc = IF line[1].is = "disc id" THEN line[1].of ELSE Junk
      /\ ParseLine(line).vuk = IF Len(line) >= 3 THEN line[3].of ELSE NoKey
  BY DEF ParseLine
<1>5. Len(line) >= 3  OBVIOUS
<1> QED  BY <1>3, <1>4, <1>5

LEMMA TidyTruth ==
  ASSUME NEW w \in Worlds, Tidy(w)
  PROVE  CacheTellsTruth
<1>1. cache \in Seq(FilePiece) /\ GrewFrom(w)  BY DEF Tidy
<1>2. /\ DOMAIN CacheLines = DOMAIN FileLines(cache)
      /\ \A e \in DOMAIN FileLines(cache) : CacheLines[e] = ParseLine(FileLines(cache)[e])
  BY DEF CacheLines
<1>3. ASSUME NEW e \in DOMAIN FileLines(cache),
             \A b \in DOMAIN FileLines(cache) : b <= e => AsItWas(w, b) \/ Clean(FileLines(cache)[b])
      PROVE  AsItWas(w, e) \/ CacheLines[e].vuk = CacheLines[e].disc
  <2>1. e \in 0..Len(cache) /\ Len(cache) \in Nat  BY <1>1, LineIs
  <2>2. Sound(w, e)
    <3>1. CASE Whole(w)  BY <3>1 DEF Whole
    <3>2. CASE TornFrom(w)
      <4>1. PICK b \in 0..Len(cache) :
               TornAt(w, b) /\ \A c \in DOMAIN FileLines(cache) : c < b => Sound(w, c)
        BY <3>2 DEF TornFrom
      <4>2. ~(b <= e)  BY <1>1, <1>3, <4>1, TornShows
      <4>3. e < b  BY <2>1, <4>2
      <4> QED  BY <4>1, <4>3
    <3> QED  BY <3>1, <3>2 DEF Tidy
  <2>3. AsItWas(w, e) \/ Clean(FileLines(cache)[e])  BY <1>3, <2>1
  <2>4. ASSUME ~AsItWas(w, e)  PROVE CacheLines[e].vuk = CacheLines[e].disc
    <3>1. TrueLine(FileLines(cache)[e])  BY <2>2, <2>4 DEF Sound
    <3>2. Len(FileLines(cache)[e]) = 4  BY <2>3, <2>4, CleanFacts
    <3> QED  BY <1>2, <3>1, <3>2, TrueLineTruth
  <2> QED  BY <2>4
<1> QED  BY <1>1, <1>2, <1>3 DEF CacheTellsTruth

\* However many processes append to the cache at once and die within a line, and
\* whatever it began with, every line before the first torn one is one the file
\* began with or holds the Volume Unique Key of its disc.
THEOREM CacheIsTrue == Spec => []CacheTellsTruth
<1>1. CacheTidy => CacheTellsTruth  BY TidyTruth DEF CacheTidy
<1> QED  BY <1>1, CacheTidyInit, CacheTidyNext, PTL DEF Spec
==============================================================================

-------------------------------- MODULE Aacs --------------------------------
(***************************************************************************)
(* Resolution of the keys of a protected disc (src/aacs_adapter.rs) and    *)
(* the two openers that ask for it (src/source.rs).  Several processes     *)
(* resolve at once and share one file, the cache of Volume Unique Keys,    *)
(* which grows by unbuffered writes and outlives a process that dies half  *)
(* way through a line.                                                     *)
(*                                                                         *)
(* A key, a Media Key and a Volume Identifier are named by the disc they   *)
(* belong to; Junk belongs to none.  The file is a sequence of the pieces  *)
(* `writeln!` hands to the system one by one.                              *)
(***************************************************************************)
EXTENDS Naturals, Sequences, SequencesExt, FiniteSets

CONSTANTS Procs, Discs, Protected, \* discs, and those with an AACS directory
          Junk, Unset, Malformed,  \* a key of no disc; what a variable may hold instead of a key
          CpsUnits,                \* disc -> sequence of the ids of its CPS units
          SampleUnit,              \* disc -> id of the unit the first stream is under
          Worlds,                  \* key files, environments, first caches: [keydb, env, cache]
          NeedsKcd,                \* discs whose MKB is of type 4
          Wants,                   \* process -> the discs it opens
          MaxLines                 \* bound on the lines begun in the file

ASSUME DiscsAssumption ==
  /\ \A p \in Procs : Wants[p] \subseteq Discs
  /\ Protected \subseteq Discs
  /\ NeedsKcd \subseteq Protected
  /\ Junk \notin Discs
  /\ \A d \in Discs : CpsUnits[d] \in Seq(Nat)

\* What the cache may be when the program starts: any text, of the pieces of
\* its lines and of others.
FilePiece == [is : {"disc id", "= V", "vuk", "| provenance", "newline", "other"},
              of : Discs \cup {Junk, Unset}]

ASSUME WorldsAssumption == \A w \in Worlds : w.cache \in Seq(FilePiece)

Keys == Discs \cup {Junk}
NoKey == Unset

(***************************************************************************)
(* A line of a key file: `units` maps the ids of the CPS units whose keys  *)
(* the line carries already unwrapped.                                     *)
(***************************************************************************)
Entry(vuk, units) == [vuk |-> vuk, units |-> units]
NoUnits == [u \in {} |-> Junk]
NoEntry == [vuk |-> NoKey, units |-> NoUnits]

VARIABLES
  keydb,    \* sequence of candidate KEYDB.cfg files, Absent where there is none
  env,      \* process -> [vuk, mediaKey, volumeId, kcd]
  cache,    \* the pieces of the VUK cache file
  pc,       \* per process: the step of the resolution it is at
  job,      \* per process: [disc, source, entry, toWrite]
  outcome   \* what the step just taken gave its caller, if it was the last of an open

world == <<keydb, env>>
vars == <<world, cache, pc, job, outcome>>

Absent == [exists |-> FALSE]

(***************************************************************************)
(* The volume and the trial.  A line that carries unit keys is used alone; *)
(* otherwise the VUK unwraps every unit's title key.                       *)
(***************************************************************************)
TitleKeys(entry, d) ==
  [i \in DOMAIN CpsUnits[d] |->
     IF DOMAIN entry.units = {} THEN entry.vuk
     ELSE IF CpsUnits[d][i] \in DOMAIN entry.units THEN entry.units[CpsUnits[d][i]]
     ELSE NoKey]

DecryptsTo(d, unit, key) == key = d /\ unit = SampleUnit[d]

\* mutant: any key at all passes the trial
HasTitleKeys(entry, d) ==
  \E i \in DOMAIN CpsUnits[d] : TitleKeys(entry, d)[i] # NoKey

TrialDecrypts(entry, d) ==
  \E i \in DOMAIN CpsUnits[d] :
     /\ TitleKeys(entry, d)[i] # NoKey
     /\ DecryptsTo(d, CpsUnits[d][i], TitleKeys(entry, d)[i])

(***************************************************************************)
(* Key files.  The first existing candidate is the one used; in a file the *)
(* first line that begins with the disc's id is the one taken, whether or  *)
(* not it parses.                                                          *)
(***************************************************************************)
KeydbFile == LET found == SelectSeq(keydb, LAMBDA f : f.exists)
             IN IF found = <<>> THEN Absent ELSE found[1]

FirstLine(lines, d) == LET own == {i \in DOMAIN lines : lines[i].disc = d}
                       IN IF own = {} THEN [found |-> FALSE] ELSE lines[Min(own)]

\* The pieces of a written line. The four writes behind the key (' | ', the
\* provenance, '-' and the stamp) are one piece here: a reader takes nothing of a
\* line from its '|' on, so a line torn among them is as one torn behind them.
Piece(is, of) == [is |-> is, of |-> of]
Provenance == Piece("| provenance", NoKey)
Newline == Piece("newline", NoKey)
LinePieces(d, vuk) ==
  <<Piece("disc id", d), Piece("= V", NoKey), Piece("vuk", vuk), Provenance, Newline>>

\* The lines of a file of pieces, each under the place it begins after; a blank
\* one has no pieces, the last one may be unterminated.
LineStarts(file) == {0} \cup {i \in DOMAIN file : file[i] = Newline}
LineEnd(file, e) == Min({n \in LineStarts(file) : n > e} \cup {Len(file) + 1}) - 1
FileLines(file) ==
  [e \in {e \in LineStarts(file) : e < LineEnd(file, e)} |->
     SubSeq(file, e + 1, LineEnd(file, e))]

ParseLine(line) ==
  [found |-> TRUE,
   disc |-> IF line[1].is = "disc id" THEN line[1].of ELSE Junk,
   ok |-> /\ Len(line) >= 3
          /\ [i \in 1..3 |-> line[i].is] = <<"disc id", "= V", "vuk">>
          /\ Len(line) > 3 => line[4] = Provenance,
   vuk |-> IF Len(line) >= 3 THEN line[3].of ELSE NoKey,
   units |-> NoUnits]

CacheLines == LET lines == FileLines(cache)
              IN [i \in DOMAIN lines |-> ParseLine(lines[i])]

(***************************************************************************)
(* The Volume Identifier: the drive answers a direct query or refuses it;  *)
(* then the authenticated one is tried, if the key file has a host         *)
(* certificate of the right length.  The variable overrides the direct     *)
(* query only, and a malformed one makes that query fail.  One of the      *)
(* possible answers; NoKey for none.                                       *)
(***************************************************************************)
\* The drive answers or fails, the query plain or under a handshake.
ReadsPlain(d) == {d, NoKey}
ReadsAuthenticated(d) == {d, NoKey}

DirectAnswers(p, d) ==
  CASE env[p].volumeId = Unset -> ReadsPlain(d)
    [] env[p].volumeId = Malformed -> {NoKey}
    [] OTHER -> {env[p].volumeId}

VolumeIds(p, d, hostCert) ==
  UNION {IF v # NoKey THEN {v} ELSE IF hostCert THEN ReadsAuthenticated(d) ELSE {NoKey}
         : v \in DirectAnswers(p, d)}

DeriveVuk(mediaKey, volumeId) == IF mediaKey = volumeId THEN mediaKey ELSE Junk

HostCert(file) == file.exists /\ (file.readable /\ file.parses /\ file.hostCert)

\* What the environment yields; the variables are tried in this order, and a
\* malformed one ends the attempt without trying the other.
EnvVuks(p, d) ==
  CASE env[p].vuk = Malformed -> {NoKey}
    [] env[p].vuk # Unset /\ env[p].vuk # Malformed -> {env[p].vuk}
    [] env[p].vuk = Unset /\ env[p].mediaKey \in Keys ->
         {IF v = NoKey THEN NoKey ELSE DeriveVuk(env[p].mediaKey, v) :
            v \in IF env[p].volumeId # Unset
                  THEN {IF env[p].volumeId = Malformed THEN NoKey ELSE env[p].volumeId}
                  ELSE VolumeIds(p, d, HostCert(KeydbFile))}
    [] OTHER -> {NoKey}

\* A device key that survives the disc's MKB gives its Media Key; on a type 4
\* disc only with the disc's key conversion data.
MediaKeys(p, d, file) ==
  IF d \in file.deviceKeys /\ (d \in NeedsKcd => env[p].kcd = d) THEN {d} ELSE {}

OnlineVuks(p, d, file) ==
  IF file.deviceKeys = {} THEN {NoKey}
  ELSE UNION {IF v = NoKey \/ MediaKeys(p, d, file) = {} THEN {NoKey}
              ELSE {DeriveVuk(k, v) : k \in MediaKeys(p, d, file)}
              : v \in VolumeIds(p, d, file.hostCert)}

-----------------------------------------------------------------------------
NoJob == [disc |-> Junk, source |-> "none", entry |-> NoEntry,
          toWrite |-> <<>>]

NoAnswer == [disc |-> Junk, given |-> "none", entry |-> NoEntry]

Goto(p, label) == pc' = [pc EXCEPT ![p] = label]

\* What the caller of try_resolve_aacs makes of the answer, and it does not
\* matter before: the byte opener refuses a protected disc without keys, the
\* multi-title opener plays on.
BytesOpener(d, found) ==
  IF found = "none" THEN IF d \in Protected THEN "error" ELSE "plain" ELSE found
TitlesOpener(d, found) == IF found = "none" THEN "plain" ELSE found
Opened(d, found) == {BytesOpener(d, found), TitlesOpener(d, found)}

Answer(p, d, entry, found) ==
  /\ Goto(p, "idle")
  /\ job' = [job EXCEPT ![p] = NoJob]
  /\ \E given \in Opened(d, found) :
        outcome' = [disc |-> d, given |-> given, entry |-> entry]

\* A step that answers nobody.
Silent == outcome' = NoAnswer

Resolved(p, source, entry) ==
  /\ Goto(p, "verify")
  /\ job' = [job EXCEPT ![p].source = source, ![p].entry = entry]
  /\ Silent

Open(p, d) ==
  /\ pc[p] = "idle"
  /\ \/ /\ d \notin Protected
        /\ Answer(p, d, NoEntry, "none")
     \/ /\ d \in Protected             \* Unit_Key_RO.inf or the volume does not read
        /\ Answer(p, d, NoEntry, "none")
     \/ /\ d \in Protected
        /\ Goto(p, "env")
        /\ job' = [job EXCEPT ![p] = [NoJob EXCEPT !.disc = d]]
        /\ Silent
  /\ UNCHANGED <<world, cache>>

FromEnv(p) ==
  /\ pc[p] = "env"
  /\ \E v \in EnvVuks(p, job[p].disc) :
        \/ /\ v # NoKey
           /\ Resolved(p, "env", Entry(v, NoUnits))
        \/ /\ v = NoKey
           /\ Goto(p, "keydb")
           /\ UNCHANGED job /\ Silent
  /\ UNCHANGED <<world, cache>>

\* The first line of `lines` for the disc, if it parses; else the next step.
Lookup(p, source, lines, next) ==
  LET line == FirstLine(lines, job[p].disc)
  IN \/ /\ line.found /\ line.ok
        /\ Resolved(p, source, Entry(line.vuk, line.units))
     \/ /\ line.found => ~line.ok
        /\ Goto(p, next)
        /\ UNCHANGED job /\ Silent

FromKeydb(p) ==
  /\ pc[p] = "keydb"
  /\ \/ /\ ~KeydbFile.exists
        /\ Goto(p, "cache")
        /\ UNCHANGED job /\ Silent
     \/ /\ KeydbFile.exists /\ ~KeydbFile.readable
        /\ Answer(p, job[p].disc, job[p].entry, "error")
     \/ /\ KeydbFile.exists /\ KeydbFile.readable
        /\ Lookup(p, "keydb", KeydbFile.lines, "cache")
  /\ UNCHANGED <<world, cache>>

FromCache(p) ==
  /\ pc[p] = "cache"
  /\ \/ Answer(p, job[p].disc, NoEntry, "error")          \* the file does not read
     \/ Lookup(p, "cache", CacheLines, "online")
  /\ UNCHANGED <<world, cache>>

Online(p) ==
  /\ pc[p] = "online"
  /\ \/ /\ ~KeydbFile.exists
        /\ Answer(p, job[p].disc, job[p].entry, "none")
     \/ /\ KeydbFile.exists /\ ~(KeydbFile.readable /\ KeydbFile.parses)
        /\ Answer(p, job[p].disc, job[p].entry, "error")
     \/ /\ KeydbFile.exists /\ (KeydbFile.readable /\ KeydbFile.parses)
        /\ \E v \in OnlineVuks(p, job[p].disc, KeydbFile) :
              \/ /\ v # NoKey
                 /\ Resolved(p, "online", Entry(v, NoUnits))
              \/ /\ v = NoKey
                 /\ Answer(p, job[p].disc, job[p].entry, "none")
  /\ UNCHANGED <<world, cache>>

\* mutant: what was derived online is cached whatever the trial says
CachesUntried(p) ==
  /\ pc[p] = "verify"
  /\ IF job[p].source = "online"
     THEN Goto(p, "check") /\ UNCHANGED job /\ Silent
     ELSE \E found \in IF TrialDecrypts(job[p].entry, job[p].disc) THEN {"none", "keys"} ELSE {"none"} :
            Answer(p, job[p].disc, job[p].entry, found)
  /\ UNCHANGED <<world, cache>>

\* The keys go to the volume and are tried on the first unit of the first
\* stream, which may be missing or short.
Verify(p) ==
  LET ok == TrialDecrypts(job[p].entry, job[p].disc)
  IN /\ pc[p] = "verify"
     /\ \/ Answer(p, job[p].disc, job[p].entry, "none")
        \/ /\ ok /\ job[p].source # "online"
           /\ Answer(p, job[p].disc, job[p].entry, "keys")
        \/ /\ ok /\ job[p].source = "online"
           /\ Goto(p, "check")
           /\ UNCHANGED job /\ Silent
     /\ UNCHANGED <<world, cache>>

\* write_vuk_cache_entry: nothing is written when some line already begins
\* with the disc's id.
CheckCache(p) ==
  /\ pc[p] = "check"
  /\ \/ Answer(p, job[p].disc, job[p].entry, "keys")                  \* the file cannot be made or read
     \/ /\ FirstLine(CacheLines, job[p].disc).found
        /\ Answer(p, job[p].disc, job[p].entry, "keys")
     \/ /\ ~FirstLine(CacheLines, job[p].disc).found
        /\ Goto(p, "append")
        /\ job' = [job EXCEPT ![p].toWrite = LinePieces(job[p].disc, job[p].entry.vuk)]
        /\ Silent
  /\ UNCHANGED <<world, cache>>

LinesBegun == Cardinality({i \in DOMAIN cache : cache[i].is = "disc id"})

\* One of the unbuffered writes; a failing one ends the attempt and is ignored.
AppendPiece(p) ==
  /\ pc[p] = "append"
  /\ \/ /\ UNCHANGED cache
        /\ Answer(p, job[p].disc, job[p].entry, "keys")
     \/ /\ Head(job[p].toWrite).is = "disc id" => LinesBegun < MaxLines
        /\ cache' = Append(cache, Head(job[p].toWrite))
        /\ IF Len(job[p].toWrite) = 1
           THEN Answer(p, job[p].disc, job[p].entry, "keys")
           ELSE /\ job' = [job EXCEPT ![p].toWrite = Tail(@)]
                /\ UNCHANGED pc /\ Silent
  /\ UNCHANGED world

\* The process dies; the next one starts afresh and finds the file as it is. So
\* it is, too, after the panic of slicing off the first 40 bytes of a line in the
\* middle of a character (lines 886 and 986).
Crash(p) ==
  /\ pc[p] # "idle"
  /\ Goto(p, "idle")
  /\ job' = [job EXCEPT ![p] = NoJob]
  /\ Silent
  /\ UNCHANGED <<world, cache>>

Step(p) == \/ FromEnv(p) \/ FromKeydb(p) \/ FromCache(p) \/ Online(p)
           \/ Verify(p) \/ CheckCache(p) \/ AppendPiece(p)

Next == \E p \in Procs :
          \/ \E d \in Wants[p] : Open(p, d)
          \/ Step(p)
          \/ Crash(p)

Init ==
  /\ \E w \in Worlds : keydb = w.keydb /\ env = w.env /\ cache = w.cache
  /\ pc = [p \in Procs |-> "idle"]
  /\ job = [p \in Procs |-> NoJob]
  /\ outcome = NoAnswer

Spec == Init /\ [][Next]_vars

-----------------------------------------------------------------------------
(* Properties.                                                             *)

\* A line as one writer alone leaves it.
Clean(line) == \E d \in Discs, k \in Keys : line = Front(LinePieces(d, k))

\* The file grew from that of world w, in which line e was what it is now.
GrewFrom(w) == w.keydb = keydb /\ w.env = env /\ IsPrefix(w.cache, cache)
AsItWas(w, e) ==
  e \in DOMAIN FileLines(w.cache) /\ FileLines(w.cache)[e] = FileLines(cache)[e]

\* Whatever processes append at once, however many of them die within a line
\* and whatever the file began with: up to the first torn line, every line but
\* those it began with holds the Volume Unique Key of its disc.  (Two processes
\* that append at once can make a false line, but not without leaving a torn one
\* before it.)
CacheTellsTruth ==
  \E w \in Worlds :
    /\ GrewFrom(w)
    /\ \A e \in DOMAIN CacheLines :
         (\A b \in DOMAIN CacheLines : b <= e => AsItWas(w, b) \/ Clean(FileLines(cache)[b])) =>
           AsItWas(w, e) \/ CacheLines[e].vuk = CacheLines[e].disc

AddsToItsLine(p) ==
  LET line == LinePieces(job[p].disc, job[p].disc)
  IN /\ pc[p] = "append" /\ job[p].disc \in Protected
     /\ \E i \in 1..Len(line) : /\ job[p].toWrite = SubSeq(line, i, Len(line))
                               /\ cache' = Append(cache, line[i])

\* What one process adds to the file, others may tear apart; but each adds, in
\* order, the pieces of a line that tells the truth about the disc it opens,
\* whatever the key came from and whatever the file and the environment say, and
\* nothing in the file ever changes or goes away.
WritesTrueLines ==
  [][cache' # cache => \E p \in Procs : AddsToItsLine(p)]_vars

\* A decryptor that was handed out decrypts the title: the key it uses, the one
\* of the first CPS unit, is right wherever the cascade found it, in a stale
\* variable, a line for other units, or a line torn and run into another.
\* Asked of discs whose first stream is under their first unit.
KeysPlay ==
  LET d == outcome.disc
  IN /\ outcome.given = "keys"
     /\ CpsUnits[d][1] = SampleUnit[d]
     => TitleKeys(outcome.entry, d)[1] = d

\* source.rs: a protected disc without its keys fails "LOUDLY ... silently
\* falling back to Identity would hand encrypted bytes to the demuxer".
ProtectedNeverPlain == outcome.given = "plain" => outcome.disc \notin Protected
=============================================================================

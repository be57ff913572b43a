# oxideav-bluray in TLA+

Specifications of oxideav-bluray, the Rust crate that reads Blu-ray discs: the
byte stream of a title and its chapters, the index they are read by, the
navigation machine, the files of a disc from the volume up to the catalogue of
titles, subtitles, and the resolution of AACS keys with the drive behind it. TLC
checks every component on small discs; TLAPS proves, for every disc, the main
properties of the title stream and of its two clients, of the index, the
navigation engine, the keys and the drive. Paths below are relative to `src/src/` of the
repository.

## 1. The system

A volume is read by UDF (`udf.rs`) or by the operating system. `Disc::mount`
parses `index.bdmv`, `MovieObject.bdmv` and a PlayList per title into a
catalogue. A title is opened from its PlayList (`bdmv/mpls.rs`) and the clip
information of its clips (`bdmv/clpi.rs`) as a `TitleSource`: an `io::Read +
io::Seek` over the clips, decrypted and stripped of the 4-byte TP_extra headers.
`bluray://` URIs (`source.rs`) pick titles and chapters; for a protected disc
they first ask `aacs_adapter.rs` for keys, which may ask the drive. Apart from
all this a player drives the disc's scripts through `NavDriver`, which tells it
what to play, and renders subtitles with `bdmv/pgs.rs`.

| component | state | operations | interacts with |
|---|---|---|---|
| `TitleSource` (disc.rs) | clip index, `clip_idx`, open file, `clip_offset`, pending bytes, `output_pos`, `output_total`, `current_angle` | `read`, `seek`, `seek_to`, `switch_angle_at`, `switch_angle` | the file system, a `StreamDecryptor` (callback), the clip index |
| clip index (disc.rs, mpls.rs) | none: computed at open time and at each angle switch | `build_clip_seek_index`, `pts_continuity_segments`, `map_clip_pts_to_title_pts`, `angle_change_points`, sync windows | MPLS and CLPI files |
| chapters (disc.rs, mpls.rs) | `ChapterSegments`: a `TitleSource` and a queue of requests | `chapters`, `chapters_with_duration`, `open_title_chapters`, `next` | `TitleSource::seek_to` and `read` |
| `bluray://` source (source.rs) | chapter list; `BoundedTitleSource`: bytes remaining | `parse_bluray_uri`, `open_title`, `read`, `seek` | mount, chapters, AACS, `TitleSource` |
| `HdmvVm` (vm.rs, register_model.rs) | 4096 GPRs, 128 PSRs, pc, steps taken | `step`, `run` | called by the runner |
| `MobjRunner` (mobj_runner.rs) | current object, VM, object resume stack | `run`, `resume`, `set_object_pc` | the VM below, the driver above |
| `NavDriver` (nav_driver.rs, index_bdmv.rs) | current entry, title stack, pending flag | `run`, `resume` | the runner, `index.bdmv`, the player that services its outcomes |
| catalogue (disc.rs) | list of titles | `mount`, `longest_title`, `unique_titles`, `title_streams` | index.bdmv, MPLS |
| files (index_bdmv, movie_object, nav_command, mpls, clpi) | none | `parse`, `encode`, EP_map reconstruction, entry point and STC lookups | everything above |
| UDF (udf.rs) | volume start and root, between calls | `open`, `read_path` | a block device that may fail |
| PGS (pgs.rs) | a display-set builder, a reassembly map, a decoded line | `parse_segments`, `group_display_sets`, `reassemble_objects`, `decode_rle`, `render` | - |
| AACS keys (aacs_adapter.rs) | a cache file that outlives the process and that processes share; environment, KEYDB.cfg | `try_resolve_aacs`, `write_vuk_cache_entry` | the drive, an external crate for the cryptography |
| drive (drive/) | handles of the operating system, exclusive access | `read_volume_id` | IOKit, ioctls |
| UO masks (uo_mask.rs), source packets (m2ts.rs) | none | bit tables, header stripping | - |

What is hard here. There are no threads: every method takes `&mut self`. What
interleaves is **processes over one cache file**, which is written in unbuffered
pieces by `writeln!` after an unlocked check. Otherwise the difficulties are **failure in the middle of a call**
(open, read and decrypt all return early with some fields already written, and
the caller may call again; a drive handle acquired and not yet owned), **call sequences** nobody tested (seek after error,
switch after seek, `resume` after an error), **axes** that must agree (192-byte
input packets, 188-byte output packets, 6144-byte units, clip-local and title
time, coarse and fine keyframe times), **lengths and counts inside files** that
may be wrong or cut, **scripts and chains that never stop**, and **stacks** that
two layers share. The list, each at its line, is under `hazards` in
`PROJECT.json`.

What makes each component correct: the stream hands out the bytes of the
position it claims, reports the end only at the end, and lands where a seek
says; chapters join and stay within their bounds; the tables tile bytes and
time; files read back as written and damage stays where it is; a path gives the
bytes of its file; a picture is the author's; keys that are handed out decrypt
and the cache tells no lies; handles are given back; the navigation stack
returns every call to the command after it, keeps PSR4 in step with the running
title, protects player settings, and always comes back to its caller.

## 2. Modules

State machines:

| module | models | state and actions |
|---|---|---|
| `TitleSource` | `TitleSource` of disc.rs | `idx`, `file`, `coff`, `pend`, `ppos`, `opos`, `angle` are the fields of the struct; `call` is the method under way, `last` its answer. `StageUnit`, `NextClip`, `NextClipFails`, `ReadFails`, `DecryptFails` are the outcomes of one turn of `refill`; `Deliver` and `EndOfStream` the rest of `read`; `SeekForward`, `SeekBackward(Fails)`, `SeekTo`, `SwitchAngleAt`, `SwitchAngle`, `RejectAngle` the other methods. |
| `ByteCursor` | what the stream promises | a string of `len` bytes and a cursor; abstract specification of `TitleSource` |
| `ChapterSegments` | the iterator of disc.rs | `requests` is its queue; `phase` says where in `read_one` it is. Every seek and read is an action of `TitleSource`, after which it waits for the source's own steps; `EndFound`, `StartFound`, `ReadAnswered` take the answers, `ChapterFails` an error |
| `MultiTitle` | `open_title` and `BoundedTitleSource` of source.rs | a second client of `TitleSource`: `OpenTitle` and the two seeks of `ChapterSegments`, then `Read` and `SeekOpen` of a caller who does as it likes; `Remaining` is the count of bytes |
| `MobjRunner` | the runner and the VM's loop | `object`, `pc`, `regs`, `steps`, `frames` (resume), `hops`; one action per arm of `drive`, and `VmCommand` for a command that stays in the VM |
| `NavDriver` | the title engine | `entry`, `tframes` (title stack), `jumps`, `pending`; one action per arm of `drive`, `RunEntry` and `ResumeDrive` for the caller |
| `Udf` | `UdfDisc` | `phase` is the function under way; one action per descriptor or block read (`ReadAnchor`... `ReadBlock`, `SkipExtent`, `FollowChain`), `Refuse` for its checks, `ReadFails` for the device |
| `Pgs` | subtitle streams | one action per segment grouped, fragment joined, code word decoded and object painted; `Refuse` where the code returns `Malformed` |
| `Aacs` | `try_resolve_aacs`, the cache, and the two openers | per process `pc` and `job`; one action per source of keys (`FromEnv`, `FromKeydb`, `FromCache`, `Online`), `Verify`, `CheckCache`, one `AppendPiece` per write, `Crash` |
| `MacDrive` | `read_volume_id` of drive/macos.rs | one action per call into IOKit, each of which may fail, and `DropGuard` for each handle that leaving a scope gives back; `guards` is what has an owner, `held` what the system has given out |

Operators:

| module | models |
|---|---|
| `ClipIndex` | the index and its tables: `BuildIndex`, `Segments`, `TitlePts`, `AnglePoints`, and what a `Disc` lists of them without a source |
| `Chapters` | `ChapterStarts`, `ChapterSpans`, the requests of `open_title_chapters`, the sync windows of SubPlayItems |
| `Timeline` | what those tables promise each other; a PlayList grows by one PlayItem after another (`AddItem`), and of each that is made so the tables must agree |
| `HdmvVm` | one VM command: `Exec`, `Assign`, `Compute`, `Holds`, `Write` |
| `Cells` | a file as cells, one per byte, and the bounds-checked reader of common.rs |
| `Mpls` | PlayList files: `EncodedList`, `ParsedList` |
| `Scripts` | command words, MovieObject.bdmv and index.bdmv: `Decoded`, `ParsedObjects`, `ParsedIndex` and their encoders |
| `Clpi` | clip information: layout of sections and addresses, `Rebuilt` (EP_map), lookups, what a title takes from a clip (`Rows`, `Origin`) |
| `Disc` | `Mount`, `Longest`, `Unique`, `Tracks`, and what a URI opens (`Opened`) |

The `*_proofs` modules hold the theorems (section 5), the `MC*` modules the small
discs TLC runs on.

How they compose. `MCTitleSource` gives `TitleSource` the indexes that
`BuildIndex` makes of small PlayLists, `MCClipIndex` gives `Timeline` the
PlayItems. `ChapterSegments` extends `TitleSource`,
whose methods are its only way to the disc, `MultiTitle` extends
`ChapterSegments`, and `MCChapterSegments` gives both the requests that
`Chapters` makes. `NavDriver` extends `MobjRunner`, which extends `HdmvVm`, as
the structs contain each other. `Disc` extends `Scripts` and `Mpls`, which
extend `Cells`: `MCDisc` encodes an authored disc with the encoders of the crate,
reads it with its parsers, mounts it and asks it for URIs, all in one. `Aacs`
uses the drive by its outcomes; `MacDrive` is the drive.

Abstractions. Bytes of a stream are not modelled, only where they come from: a
staged unit is (clip, first packet, number of packets), and `Origin` (in
`TitleSource`) is the title byte the next pending byte really is. A file read
fails behind any whole number of packets short of a unit, at the end of the file
too. A packet that a file ends in the middle of
is dropped from its size, as both `build_clip_seek_index` and `refill` do. Files
neither grow nor shrink while open, except the AACS cache. `binary_search_by` on
equal keys may return any of them, and so may the model. In files a field of n
bytes has its value in its first cell and zeros in the others, so that lengths,
addresses and cuts are exact while values are small; text is a value, `NotText`
one that is not UTF-8. `Clpi` works on sections with addresses instead of cells,
and with bit widths as constants. In `Udf` sizes of structures are constants, a
descriptor is its fields and whether its checks hold. `SetSystem` is one
command of the VM, since only its yield matters; `Rnd` is the constant 1 of the code.
`registers_mut`, by which the player may write any register, is not an action.
`NavRequest::Resume` in the driver's `drive` is unreachable and has no action.
In `Aacs` a key is named by the disc it opens, and deriving with an identifier
of another disc gives `Junk`; hashing, MKB processing and the handshake are an
external crate. The writes of a cache line behind its key (aacs_adapter.rs:898)
are one piece, since a reader takes nothing of a line from its '|' on; `Crash` stands
for any death of a process, a panic in slicing a line included. In `MacDrive` a BSD
name is `Disk`, `Slice` and digits; a registry is a list of services, each with the
chain of nodes that have clients to offer, which ends or (`endless`) goes on without a
client; unloading of the two frameworks is left out.

## 3. Runs

| run | question | bounds |
|---|---|---|
| `MCTitleSource` | does the stream keep its promises under any sequence of calls, with failures? | four titles of one to three clips of 0 to 4 packets (keyframes off the unit grid, two of one time, one past OUT), packet 2 bytes, unit 2 packets, reads of 1 to 5 bytes, seeks to 0..15 (past every title's end), six times, two failures |
| `MCChapterSegments` | are chapters whole, joined, bounded, and independent of each other's failures? | four titles (keyframes off the unit grid, an EP_map past the end of its file, a missing and an empty clip in the middle), lists of marks in and out of order, the selectors all, range and list, reads of 3 bytes; the source behind a URI reads up to 4 and seeks to 0 and 3; two failures |
| `MCClipIndex` | do the tables tile and agree? | every PlayList of 1 or 2 items, IN and OUT in 0..2, four clips (missing though its EP_map is there, empty, EP_map out of order, EP_map past OUT), one with a second angle; for each every pair of marks, three angles asked for and every time of the title |
| `MCNavDriver` | do the stacks, registers and budgets hold? | two Movie Objects, all scripts of up to two commands over 10 branches, a selection for the callee, 17 computing commands; 4-bit words, 2-bit titles, budgets 5/2/2, three caller calls |
| `MCDisc` | do PlayLists and navigation files read back, is damage contained, is the catalogue true? | indexes of up to two titles of four kinds, up to two Movie Objects, every choice of two PlayLists, a PlayList of up to two PlayItems, a SubPath and a mark; every cut, every cell changed to each of a few values; a hundred and more URIs per disc |
| `MCClpi` | do clip files read back and lookups land? | every sequence of up to four keyframes in 5-bit times, every legal choice of coarse rows, three sets of other sections, every cut |
| `MCUdf` | does a path give the bytes of its file, always? | fifteen file entries (short, long, extended, embedded; chains within, at and past the cap, in a circle; partial and empty extents), ten volumes with damaged descriptors, four paths, two failing reads |
| `MCPgs` | are display sets and pictures the author's? | every sequence of up to four segments and every set of up to five, every run-length text of up to four code words with every cut, fragment chains and compositions with crops |
| `MCAacs` | do keys decrypt, and does the cache stay true? | two processes, two protected discs and an open one, eleven worlds (torn caches, stale ones, one behind a remark and a blank line, stale and malformed variables, key files without lines, unreadable, garbled), two lines begun |
| `MCMacDrive` | are handles balanced and is it the right drive? | every registry of up to two services of one class and one of the other, over seven kinds of service (clients on the node, on a parent, beyond the last hop, nowhere in a chain without end; no name; a name that only starts like the disc's), four mounts, any call failing any number of times |
| `FindSeekOkIsReadable`, `FindProtectedIsPlain` | is this sentence of the documentation true of the code? | those of `MCTitleSource`, for a reader that reads and seeks and one failing seek (`ReadsAndSeeks`), and of `MCAacs`; each finds it false |

What the passing runs say, property by property, is in the comment above each
property. In short:

- Stream: `InStep`, `ReadsExact`, `SeekExact` hold as long as no
  failure has intervened since the reader was last anchored (opened, or moved by
  a backward seek, `seek_to` or an angle switch that succeeded); `CapHolds` and
  `UnitAligned` hold always; `SeekToTight` bounds how early a keyframe seek may
  land; `SwitchLands` says an angle switch lands on the byte it chose if nothing
  is pending and the angles agree; `KeepsPromise` that all this is the behaviour
  of `ByteCursor`; `CallsReturn` that every method ends.
- Chapters: a segment is one run of the title's bytes (`SegmentsAreRuns`), also
  after an earlier chapter failed midway; chapters in order of time leave out
  nothing (`SegmentsJoin`); a source behind a URI gives its chapter and no byte
  more, whatever its caller seeks (`BoundedKeepsChapter`); `EveryCallReturns`.
- Tables: `OneTimeline`, that segments tile the title and a sub-path's window is
  where a player of the bytes meets it; `SpansTile`, that chapters do; and
  `ListingsAgree`, that a `Disc` lists what an open source would. Its sentence
  that no angle-change point lies before the segment its byte is in has a
  condition, `RowsInside`: a row that names a packet its clip does not have (of a
  missing file, say) is listed at a byte of a later PlayItem with an earlier time.
- Navigation: `FramesAreReturnPoints`, `PendingIsYield`, `TitleRegisterTracks`,
  `FinishedIsDone`, `PlayerRegistersKept`, `DrivesReturn`.
- Files: `ListReadsBack`, `ScriptsReadBack`, `ReadsBack` (each the round trip of
  encoder and parser and what a cut does); `DamageContained` says how far a wrong
  length or count in a PlayList reaches; `CatalogueTrue` that titles, tracks and
  URIs are those of the authored disc; `SeekWithinUnit` how far a keyframe lookup
  may be off. The reference is what was authored, not the encoder: damage is
  judged against it, and worked examples of the repository's documents pin down
  the command words.
- Volume: `ReadsTruth`, `UdfReturns`. Subtitles: `GroupsTruth`, `RendersTruth`,
  both against what the author of the stream meant, built without the operators
  of `Pgs`.
- Keys: `KeysPlay`; `WritesTrueLines`, that each process writes the next piece of
  a true line; `CacheTellsTruth`, which says exactly what survives
  concurrent appends and crashes: up to the first torn line, every line is as the
  file began or true. Drive: `HandlesBalanced`, `VolumeIdOfDisc`, `VolumeIdReturns`.

Why these bounds are enough. A packet of two bytes lets a read end inside a
packet; a unit of two packets lets a keyframe lie off the unit grid and a clip
end inside a unit; three clips with an empty or missing one in the middle make
the end of one clip, the opening of the next and its failure happen within one
call; two failures allow an error after an error. In the navigation runs two
objects and three titles (one runnable, one BD-J, one naming a missing object)
give every combination of call, jump and return between levels; budgets of two
transitions are exceeded by scripts of two commands; three calls are run,
resume, and one more of either. A PlayList of two items with two angles, a
SubPath and a mark has every length of the format at least once inside another
and followed by something that could be read in its place. Two processes, each
writing one line in five pieces, interleave at every piece, and a third adds
only more of the same broken lines. Four keyframes make a coarse row that is
needed, one that is not, and one whose low bit is shared with the fine row. Two
hops with chains of four nodes pass the limit.

Deadlock is checked for the title stream and for `MCAacs`, which always accept
another call, and for `MCUdf`, whose machine takes the next path.
The others stop when there is nothing left to author, decode,
ask for or call (`CHECK_DEADLOCK FALSE`).

Fairness. `WF` on the steps inside a call - `Step`, `ReadOne`, `TitleCall`,
`DriverStep`, `Working` (UDF), `Next` (MacDrive, one call from start to end): a
method that has been called runs on to its end. The code is sequential, so once
control is inside a method nothing else in it can run; nothing is assumed about
the caller, the disc, the decryptor or the drive, which may fail whenever the
model lets them. `Aacs` states no fairness and no liveness.

## 4. Findings

Each of the first two is the counterexample of its run; `PROJECT.json` quotes the
sentence.

- A backward seek whose clip cannot be opened has already moved `output_pos`;
  asked again it succeeds as a no-op, and reads then report the end of the
  stream in mid-title (`FindSeekOkIsReadable`).
- The multi-title opener streams a protected disc whose keys were not found
  without a decryptor, where `open_bluray` says it must fail loudly
  (`FindProtectedIsPlain`).

Seen while modelling; the models follow the code in all of them, but no run is
devoted to them.

Stream, chapters and tables
- The "Boundary caveat" of `open_title_chapters` (disc.rs:315-325, relied on at 1571
  and 1609) says that each chapter will have "up to a few hundred ms of *overlap*
  with the previous chapter at its head" and "duplicated I-frames at the seam". The
  code makes no overlap: `read_one` finds the end of a chapter and the start of the
  next with the same `seek_to`, so both are one byte. A chapter does begin early,
  on the keyframe before its mark, but the bytes from there on are taken from the
  chapter before it, not repeated. `SegmentsJoin`, checked by
  `MCChapterSegments` and proved in `MultiTitle_proofs`, states what the code does,
  and so contradicts the caveat.
- `angle_change_points` keeps EP_map rows past the PlayItem's OUT, with times of
  the next PlayItem, and `switch_angle` then lands in the next clip. So the list is
  not "sorted ascending by `title_pts_90k`" (disc.rs:1284), though
  `next_angle_change_point` (1336) searches it as if it were.
- A unit the decryptor rejects does not abort the title: the next `read()` skips
  it, and every later unit of the clip is decrypted under an offset one unit too
  low. The decryptor in aacs_adapter.rs ignores the offset.
- `seek_to` past the end lands on the last row of the final clip, not its start;
  `map_clip_pts_to_title_pts` answers for bytes past the end, where disc.rs:1250
  says `None`.
- `chapters()` keeps the order of the marks, not the playback order its comment
  promises: the chapter before a backward mark is an empty segment.
- `BoundedTitleSource` seeks in bytes of the title, not of the chapter. The end
  of a chapter range in a URI is not compared with the number of chapters, so
  `title_count` overstates. `open_title` mounts afresh but keeps the `TitleInfo`
  of the first mount.
- A clip's STC origin falls back to 0; `load_clip_meta` (disc.rs:2252) passes the
  STC id without its `offset_stc_id`, which clpi.rs:166 takes into account.

Navigation
- `CallTitle` clears the object resume stack of the calling title; a script cut
  off by the VM step budget counts as finished; a title operand above 65535 runs
  the title of its low 16 bits; a script that plays and calls by turns makes both
  call stacks grow without bound over `resume()` calls.

Files and catalogue
- `CLPI encode` drops the marks; `pts_c << 19` in a u32 loses bit 32 (comment at
  clpi.rs:517). `mpls.rs` says that stream readers are bounded by the end of the
  STN_table (1901), but they are bounded by the end of the file.
- `TitleInfo.playlist_id` is documented as the first PLAY_PL of the Movie Object;
  the code takes the id of the object itself (disc.rs:2269). BD-J titles get
  PlayList 0, so one of them can hide an HDMV title of that PlayList from
  `unique_titles`.
- `title_streams` is documented in STN_table order and by first-seen index; the
  code sorts by class and PID. `playitem_count` counts listings, not PlayItems.
- A reserved object type in index.bdmv refuses the whole mount, where a damaged
  PlayList costs only its title. The docs of `udf.rs` name refusals that nothing
  checks (several partition maps, ICB strategies other than 4).

Subtitles
- `PaletteEntry::to_rgba` (pgs.rs:1210) passes `cr` where `ycbcr709_to_rgb` takes
  `cb` and the other way round: red and blue are exchanged. The tests, and the
  pictures of `MCPgs`, use neutral chroma only.

Keys and drive
- A line of KEYDB.cfg or the cache with a character of several bytes around its
  40th byte makes the slices at aacs_adapter.rs:886 and 986 panic.
- Any CPS unit may pass the trial of a key, but the decryptor always uses the
  first (`KeysPlay` asks of discs whose first stream is under it).
- Two appenders at once can leave a line that pairs one disc with another's key; a
  torn or stale line keeps its disc from being cached again until the file is
  edited by hand, where aacs_adapter.rs:857 speaks of a fresh line. Only the first
  KEYDB.cfg line of a disc is considered, parsable or not. "Returns `Ok(None)`
  cleanly on every failure path" (line 100) is not true of an unreadable KEYDB.cfg
  or cache.
- On a Mac, a drive whose SCSI client opens but refuses exclusive access is not
  tried by its MMC client; an error for IOBDServices ends the search before
  IODVDServices; the last parent fetched is never tried; and the MMC query does
  not check how many bytes were transferred.

## 5. Proofs

Eight modules hold theorems; each `*_proofs` module extends the modules it is
about, and the theorems a reader should know of are under `theorems` in
`PROJECT.json`. What TLC checks on small discs they state for every value of the
constants that fulfils the assumptions.

| module | proves | of |
|---|---|---|
| `TitleSource_proofs` | `TypeOK`, `InStep`, `ReadsExact`, `SeekExact`, `CapHolds`, `UnitAligned` | `TitleSource` |
| `ByteCursor_proofs` | `KeepsPromise`: `TitleSource` implements `ByteCursor` | `TitleSource` |
| `Landing_proofs` | `SeekToTight`, `SwitchLands` | `TitleSource` |
| `MultiTitle_proofs` | `SegmentsAreRuns`, `SegmentsJoin`, `BoundedKeepsChapter` | `ChapterSegments` and `MultiTitle` over `TitleSource` |
| `ClipIndex_proofs` | `OneTimeline`, `SpansTile`, `ListingsAgree`; that every index is laid out as the modules above assume, and rises if the disc's EP_maps do | `ClipIndex`, `Chapters`, `Timeline` |
| `NavDriver_proofs` | `TypeOK`, `FramesAreReturnPoints`, `PendingIsYield`, `FinishedIsDone`, `PlayerRegistersKept`, `TitleRegisterTracks` | `NavDriver` with the runner and the VM in it |
| `Aacs_proofs` | `KeysPlay`, `WritesTrueLines`, `CacheTellsTruth` | `Aacs` |
| `MacDrive_proofs` | `HandlesBalanced`, `VolumeIdOfDisc` | `MacDrive` |

**The stream.** Assumed of a title (`SizesAssumption`, `TitlesAssumption`): sizes
are positive naturals, the clips of each angle lie one after the other and fill
the title, a missing clip has no packets. `IndexIsLaid` proves the latter of
`BuildIndex` for every PlayList: it is what the code makes, not an assumption
about discs. `TypeOK` alone is not inductive: `Deliver` needs to know that a
skip loop has not passed its goal (`Ahead`). `InStep` is inductive together with
`Outcome`, which ties the goal of the call and the last answer to `output_pos`;
an error sets `damage` and with it frees both, and the steps that re-anchor the
reader establish both from nothing but `TypeOK`. `CapHolds` and `UnitAligned`
must survive errors, when `InStep` says nothing: they rest on `Aligned`, that an
open file with packets left keeps `clip_offset` on a unit boundary - the offset
may be the wrong one after a failure, but it is always on the grid, because it
advances by what was staged and only the last unit of a clip is partial.

**The refinement.** Under those invariants each step maps to one step of
`ByteCursor` or to a stutter: staging and opening clips are invisible, the end of
a read is `Deliver` or `End`, a skip approaches its goal, what re-anchors the
reader is `Anchor`, and every step into damage `Broken`.

**Landings.** Two more hypotheses, which the theorems name. `EpMapsRise`: in the
sorted table a later row is not at an earlier packet; `load_clip_meta` sorts by
time only, so this is a property of the disc, and `TablesRise` derives it from
the rows as the disc lists them. `PointsInside` (for angle switches alone): a
change point is a row of the index that lies before the PlayItem's OUT, and clips
begin in the order of their times; that the code keeps rows past OUT, and misses
its point there, is among the findings, so the hypothesis cannot go. TLC evaluates
both on the titles of its runs. `Aimed` says where the landing under way aims; it
is inductive with `Typed`. What it needs of the tables is that a time has one
landing and a later time no earlier one (`EntryRises` and what follows it).

**The clients.** `SourceStands` is the invariant of the source under any caller,
`ClientStands` says, phase by phase, how the client's count of bytes is tied to
`output_pos`: `Stands`, their conjunction, is inductive. `SegmentsJoin` needs in
addition where the two ends of each chapter were found (`Finds`). Requests are
those that open_title_chapters makes: the end of one is the start of the next
(`SelectionsAssumption`).

**The index.** A running total of a loop is a recursive function; that it has a
value everywhere, and that it adds up, is proved by a least counterexample
(`Least`, from `WellFoundedInduction`), and so is that sorting yields each row once
and in order. On them rest that clips tile bytes and time, that the clip looked
up for a byte of a segment is the segment's, and from both that the window of a
SubPlayItem, computed from the PlayList, is where a reader of the bytes meets it.
`RankedPlaces` says of the sort, whatever its keys, that it lists each place once
and in order, also of the starts of chapters: hence `ChaptersTile`. `DiscAgrees`
compares the two ways to the same tables. The walk of a `Disc` is a loop of its
own, and so is the one over the rows of a clip; each does what the index says
because two loops that begin alike and go on alike end alike (`SameLoop`): the
walk has noted the first clips of the index (`WalkNotes`), and the rows picked so
far are those of the clip's first rows that are not before IN, to which a further
place is added at the end (`RankedGrows`, `RowsPicked`). A point's byte is then
below the end of its clip, so in no later segment. The assumptions
(`TimelineAssumption`) are the types of what is in a PlayList, and that a PlayItem
has a clip for its first angle; of EP_maps, marks and times nothing is assumed.

**Navigation.** `Standing` says, for each place the drive can be at, what the
runner's outcome, its frames and its registers are; it is needed because a frame
is pushed at a call and relied on much later, and because `resume()` finds
whatever the last drive left. `WordAssumption` states arithmetic, not a property
of discs: powers of two are positive, and sums of distinct ones below the width
of a register are words; no prover here has powers. `DriverAssumption`: title
numbers fit a register. The register table lets a script write PSR4, so
`TitleRegisterTracks` is about discs whose scripts do not (`ScriptsSpare`).

**Keys.** `KeysTried`: a process caches or hands out only an entry that passed the
trial on its own disc, and what it appends is the rest of a line that is true of
that disc, for any answers of the key files, the environment, the cache and the
drive, and crashes anywhere. That CPS units are a sequence of naturals is the
only assumption about a disc, and that it consists of pieces the only one about
the first cache (`WorldsAssumption`).

What a reader of the shared file finds is `CacheTidy`, inductive with
`KeysTried`. Either the file is `Whole`: each line is one it began with or the
beginning of a true one, and at most one process is within a line, whose pieces
are the last of the file. Or it is torn (`TornFrom`): in some line a disc's id
stands where no line begins, and the lines before it are as in a whole file; of
those behind it nothing is known. A process that begins its line where the last
has ended keeps the file whole; one that begins it within another's, or behind
the remains of a dead writer's, tears it (`Tears`), and what is torn stays torn,
since a file only grows. A torn line is neither one the file began with nor one
that a writer alone leaves (`TornShows`), so it ends what the property promises.
The bound on lines begun is no part of the argument.

**The drive.** `Owned`: every handle the system has given out is owned once, by a
guard, by a scope being left, by the walk of the parents, or by nobody for the
one call between a plug-in and its interface; scopes drop in descending `Rank`,
so nothing goes before what stands on it. `Sought`, inductive with `Owned`, says
how far the search has come without a fault: no service passed over has the name
looked for, no node climbed past offers a client, and after the hit the service
in hand has the name. That the name is the disk's is `StrippedIsDisk`: a turn of
the stripping loop does not change where it ends (`EndKept`), so the recursion
has the value of the first slice, by a least counterexample once more.
`RegistriesAssumption` says what a mounted name is: a disk, then digits and
slices, each slice with its number. A mount that is no disk (a share) has no
drive to find and is outside the theorem.

Only model-checked: the parsers, encoders, UDF, PGS and the catalogue, whose
properties compare what folds and recursive functions make of whole files with
what an author wrote (induction over data).
`CallsReturn`, `EveryCallReturns`, `DrivesReturn`, `UdfReturns` and
`VolumeIdReturns` are liveness under fairness and out of the prover's reach.
`VolumeIdReturns` includes a chain of parents that never ends: only the count of
hops stops the climb.

## 6. Not modelled

- Text: META XML, the volume label, disassembly, names of codes, the characters
  of a URI (its query is tokens), OSTA d-strings. No control depends on them.
- User-operation masks: 64 named bits, no state. The rest of a TP_extra header is
  read by nothing.
- Linux's single ioctl appears in `Aacs` by its outcomes; Windows is a stub that
  refuses. Cryptography is the external crate's.
- Timestamps of subtitle segments are carried along by `pgs.rs` and decide
  nothing.

------------------------------ MODULE MacDrive ------------------------------
(***************************************************************************)
(* The Volume Identifier read from a drive of a Mac (read_volume_id of     *)
(* src/src/drive/macos.rs): the walk of the registry for the drive of a    *)
(* mounted disc, its user client and the query.                            *)
(*                                                                         *)
(* One action per call into the system, each of which may fail, and one per*)
(* handle that leaving a scope gives back.  A handle is <<kind, number>>.  *)
(* The registry holds, for each class of service, the services in their    *)
(* order: a BSD name and, from the service upwards, what each node offers; *)
(* the chain of nodes may go on without end ("a pathological registry").   *)
(***************************************************************************)
EXTENDS Integers, SequencesExt

CONSTANTS
    MaxHops,        \* IOREG_MAX_PARENT_HOPS
    Mounts,         \* BSD names of mounted discs
    Registries

VARIABLES
    mount, registry,
    phase,          \* the call made next
    class, at,      \* class walked, services of it seen
    hop,            \* nodes above the service
    guards,         \* handles that have an owner which drops them, oldest first
    parents,        \* owned_parents
    drops,          \* handles of the scope being left, in the order of their drop
    result,
    held,           \* history: what the system has given out and not got back
    misused,        \* history: a handle was used or given back at the wrong time
    faulted         \* history: a call failed that need not have

search == <<class, at, hop, parents>>
vars == <<mount, registry, phase, search, guards, drops, result, held, misused, faulted>>

Services == registry[class]
Service == Services[at]
Iterator == <<"iterator", class>>
ServiceHandle == <<"service", at>>
Key == <<"key", 0>>
Value == <<"value", 0>>
Uuids == << <<"uuid", 1>>, <<"uuid", 2>>, <<"uuid", 3>> >>
Node(h) == IF h = 0 THEN ServiceHandle ELSE <<"node", h>>
Plugin == <<"plugin", 0>>
Interface == <<"interface", 0>>
Access == <<"access", 0>>
Task == <<"task", 0>>

\* What must be given back before what.
Before == {<<Task, Access>>, <<Access, Interface>>, <<Task, Interface>>, <<Interface, Plugin>>}

-----------------------------------------------------------------------------
(* bsd_name_for_mount.  A name is a sequence of Disk, Slice and digits.    *)

Disk == -1
Slice == -2

\* What the system names a disc: a disk or, oddly, a slice alone, then digits and
\* slices, each slice with its number.
BsdName(name) ==
    /\ name \in Seq({Disk, Slice} \union Nat) /\ name # <<>>
    /\ name[1] \in {Disk, Slice}
    /\ \A k \in DOMAIN name :
         /\ name[k] = Disk => k = 1
         /\ name[k] = Slice => k < Len(name) /\ name[k + 1] \in Nat
ASSUME RegistriesAssumption ==
    /\ MaxHops \in Nat
    /\ \A m \in Mounts : BsdName(m)
    /\ \A r \in Registries : \A c \in {1, 2} :
         r[c] \in Seq([name : Seq(Int), nodes : Seq(SUBSET {"scsi", "mmc"}),
                       endless : BOOLEAN])

\* One slice, an s and digits, taken off the end if there is one.
LessSlice(name, end) ==
    LET digits == CHOOSE i \in 0..end :
                    /\ \A k \in (i + 1)..end : name[k] >= 0
                    /\ i = 0 \/ name[i] < 0
    IN  IF digits < end /\ digits > 0 /\ name[digits] = Slice THEN digits - 1 ELSE end
\* mutant: the slice of a slice kept
StrippedOnce(name) == SubSeq(name, 1, LessSlice(name, Len(name)))
Stripped(name) ==
    LET strip[end \in 0..Len(name)] ==
          IF LessSlice(name, end) = end THEN end ELSE strip[LessSlice(name, end)]
    IN  SubSeq(name, 1, strip[Len(name)])

-----------------------------------------------------------------------------

At(p) == phase = p /\ drops = <<>>

\* A call is made with handles uses, yields gets, and gives takes back.
Call(uses, gets, gives) ==
    /\ held' = (held \ gives) \union gets
    /\ misused' = (misused \/ ~(uses \union gives \subseteq held) \/ gets \intersect held # {})
    /\ UNCHANGED <<mount, registry>>
Fault == faulted' = TRUE
NoFault == UNCHANGED faulted
FaultIf(wrong) == faulted' = (faulted \/ wrong)

\* Leave a scope: drop some guards, keep the others.
Leave(dropped, kept, next) ==
    /\ drops' = dropped /\ guards' = kept /\ phase' = next
    /\ UNCHANGED result
Go(kept, next) == Leave(<<>>, kept, next)
Return(r) ==
    /\ result' = r /\ phase' = "done"
    /\ drops' = Reverse(guards) /\ guards' = <<>>
Error(kind) == [kind |-> kind, via |-> "", whole |-> FALSE]

\* A call the whole read depends on, that yields a handle, or none.
Obtain(uses, handle, next) ==
    /\ \/ Call(uses, {handle}, {}) /\ Go(Append(guards, handle), next) /\ NoFault
       \/ Call(uses, {}, {}) /\ Return(Error("call")) /\ Fault
    /\ UNCHANGED search
Succeed(uses, next) ==
    /\ Call(uses, {}, {})
    /\ \/ Go(guards, next) /\ NoFault
       \/ Return(Error("call")) /\ Fault
    /\ UNCHANGED search

-----------------------------------------------------------------------------
(* The drive of the mounted disc.                                          *)

NameMount ==
    /\ At("mount")
    /\ IF Stripped(mount) = <<>>
         THEN Call({}, {}, {}) /\ Return(Error("name")) /\ NoFault /\ UNCHANGED search
         ELSE Succeed({}, "load")
LoadFrameworks == At("load") /\ Succeed({}, "match")

\* No service of this class: find_optical_service tries the next.
NextClass(dropped) ==
    IF class = 1
      THEN /\ Leave(dropped, <<>>, "match")
           /\ class' = 2 /\ at' = 0 /\ UNCHANGED <<hop, parents>>
      ELSE Return(Error("nodrive")) /\ UNCHANGED search

\* IOServiceMatching may give nothing; an error of IOServiceGetMatchingServices
\* ends the search.
MatchClass ==
    /\ At("match")
    /\ \/ Obtain({}, Iterator, "next")
       \/ Call({}, {}, {}) /\ NextClass(<<>>) /\ Fault

\* IOIteratorNext gives nothing at the end, or before it when the registry has
\* changed under the iterator.
NextService ==
    /\ At("next")
    /\ \/ /\ at < Len(Services) /\ at' = at + 1
          /\ Call({Iterator}, {<<"service", at'>>}, {})
          /\ Go(Append(guards, <<"service", at'>>), "key")
          /\ NoFault /\ UNCHANGED <<class, hop, parents>>
       \/ /\ Call({Iterator}, {}, {}) /\ NextClass(<<Iterator>>)
          /\ FaultIf(at < Len(Services))

\* entry_bsd_name: a service whose name cannot be had is passed over.
PassOver(dropped) == Leave(dropped, <<Iterator>>, "next")

MakeKey ==
    /\ At("key") /\ UNCHANGED search
    /\ \/ Call({}, {Key}, {}) /\ Go(Append(guards, Key), "search") /\ NoFault
       \/ Call({}, {}, {}) /\ PassOver(<<ServiceHandle>>) /\ Fault
SearchName ==
    /\ At("search") /\ UNCHANGED search
    /\ \/ /\ Service.name # <<>>
          /\ Call({ServiceHandle, Key}, {Value}, {})
          /\ Go(Append(guards, Value), "name") /\ NoFault
       \/ /\ Call({ServiceHandle, Key}, {}, {})
          /\ PassOver(<<Key, ServiceHandle>>) /\ FaultIf(Service.name # <<>>)

\* The service is handed to the caller, its guard forgotten.
\* mutant: the guard drops it all the same
NotForgotten == <<Value, Key, ServiceHandle, Iterator>>
Forgotten == <<Value, Key, Iterator>>
ReadName ==
    /\ At("name") /\ UNCHANGED search
    /\ Call({Value}, {}, {})
    /\ \/ /\ Service.name = Stripped(mount)
          /\ Leave(Forgotten, <<ServiceHandle>>, "uuid") /\ NoFault
       \/ /\ PassOver(<<Value, Key, ServiceHandle>>)
          /\ FaultIf(Service.name = Stripped(mount))

-----------------------------------------------------------------------------
(* open_optical_device.                                                    *)

MakeUuid ==
    /\ At("uuid")
    /\ LET made == Len(guards) IN    \* the service and those made so far
         Obtain({}, Uuids[made], IF made = Len(Uuids) THEN "scsi" ELSE "uuid")

Offers(h, client) == h + 1 \in DOMAIN Service.nodes /\ client \in Service.nodes[h + 1]

\* try_open_plugin.  The parents are given back before the plugin is used.
TryClient(client, query, otherwise) ==
    /\ \/ /\ Offers(hop, client)
          /\ Call({Node(hop)} \union ToSet(Uuids), {Plugin}, parents)
          /\ Go(guards, query) /\ parents' = {} /\ NoFault
       \/ /\ Call({Node(hop)} \union ToSet(Uuids), {}, {})
          /\ Go(guards, otherwise) /\ UNCHANGED parents /\ FaultIf(Offers(hop, client))
    /\ UNCHANGED <<class, at, hop>>
TryScsi == At("scsi") /\ TryClient("scsi", "queryScsi", "mmc")
TryMmc == At("mmc") /\ TryClient("mmc", "queryMmc", "climb")

\* The parent of the last node is fetched, too, and given back untried.
\* The climb counts its hops and ends with the last one allowed.
\* mutant: no count, the chain is followed as far as it goes (h stands still at
\* the limit, so that TLC has finitely many states)
NoCount(h) == [hop |-> IF h < MaxHops THEN h + 1 ELSE h, next |-> "scsi"]
Hop(h) == [hop |-> h + 1, next |-> IF h = MaxHops THEN "walked" ELSE "scsi"]
GiveUp(uses) ==
    /\ Call(uses, {}, parents) /\ Return(Error("noclient"))
    /\ parents' = {} /\ UNCHANGED <<class, at, hop>>
Climb ==
    /\ At("climb")
    /\ LET above == <<"node", hop + 1>>
           exists == hop + 2 \in DOMAIN Service.nodes \/ Service.endless
       IN  \/ /\ exists /\ Call({Node(hop)}, {above}, {})
              /\ hop' = Hop(hop).hop /\ parents' = parents \union {above}
              /\ Go(guards, Hop(hop).next)
              /\ NoFault /\ UNCHANGED <<class, at>>
           \/ GiveUp({Node(hop)}) /\ FaultIf(exists)
Walked == At("walked") /\ GiveUp({}) /\ NoFault

\* finalize_scsi_device, finalize_mmc_device: the plugin has no guard until it
\* has an interface.
\* mutant: the plugin not destroyed when it has no interface
KeptPlugin == {}
Destroyed == {Plugin}
NoInterface ==
    /\ Call({Plugin}, {}, Destroyed) /\ Return(Error("call")) /\ Fault
QueryScsi ==
    /\ At("queryScsi") /\ UNCHANGED search
    /\ \/ /\ Call({Plugin}, {Interface}, {})
          /\ Go(guards \o <<Plugin, Interface>>, "access") /\ NoFault
       \/ NoInterface

\* The device goes to the caller, the UUIDs are dropped.
Opened(device, next) == Leave(Reverse(Uuids), <<ServiceHandle>> \o device, next)
QueryMmc ==
    /\ At("queryMmc") /\ UNCHANGED search
    /\ \/ /\ Call({Plugin}, {Interface}, {})
          /\ Opened(<<Plugin, Interface>>, "structure") /\ NoFault
       \/ NoInterface
ObtainAccess ==
    /\ At("access") /\ UNCHANGED search
    /\ \/ /\ Call({Interface}, {Access}, {})
          /\ Opened(<<Plugin, Interface, Access>>, "task") /\ NoFault
       \/ Call({Interface}, {}, {}) /\ Return(Error("call")) /\ Fault

-----------------------------------------------------------------------------
(* The query.  The drive answers with a status, a number of bytes, enough  *)
(* or not, and a header that says so or not.                               *)

Answers == [good : BOOLEAN, whole : BOOLEAN, claimed : BOOLEAN]
Volume(client, answer) == [kind |-> "volume", via |-> client, whole |-> answer.whole]

CreateTask == At("task") /\ Obtain({Interface}, Task, "descriptor")
SetUp ==
    \/ At("descriptor") /\ Succeed({Task}, "buffers")
    \/ At("buffers") /\ Succeed({Task}, "timeout")
    \/ At("timeout") /\ Succeed({Task}, "execute")

Query(client, uses, accepted(_)) ==
    /\ Call(uses, {}, {}) /\ UNCHANGED search
    /\ \/ Return(Error("call")) /\ Fault
       \/ \E answer \in Answers :
            /\ Return(IF accepted(answer) THEN Volume(client, answer) ELSE Error("answer"))
            /\ FaultIf(~accepted(answer))
ExecuteTask ==
    At("execute") /\ Query("scsi", {Task, Access}, LAMBDA a : a.good /\ a.whole /\ a.claimed)
ReadDiscStructure ==
    At("structure") /\ Query("mmc", {Interface}, LAMBDA a : a.good /\ a.claimed)

-----------------------------------------------------------------------------

\* The drops of a scope that was left, one after the other.
DropGuard ==
    /\ drops # <<>>
    /\ LET handle == Head(drops) IN
         /\ held' = held \ {handle}
         /\ misused' = (misused \/ handle \notin held
                          \/ \E b \in Before : b[2] = handle /\ b[1] \in held)
    /\ drops' = Tail(drops)
    /\ UNCHANGED <<mount, registry, phase, search, guards, result, faulted>>

Init ==
    /\ mount \in Mounts /\ registry \in Registries
    /\ phase = "mount" /\ class = 1 /\ at = 0 /\ hop = 0 /\ parents = {}
    /\ guards = <<>> /\ drops = <<>> /\ result = Error("")
    /\ held = {} /\ misused = FALSE /\ faulted = FALSE

Next ==
    \/ NameMount \/ LoadFrameworks \/ MatchClass \/ NextService
    \/ MakeKey \/ SearchName \/ ReadName
    \/ MakeUuid \/ TryScsi \/ TryMmc \/ Climb \/ Walked
    \/ QueryScsi \/ QueryMmc \/ ObtainAccess
    \/ CreateTask \/ SetUp \/ ExecuteTask \/ ReadDiscStructure
    \/ DropGuard
Spec == Init /\ [][Next]_vars /\ WF_vars(Next)

-----------------------------------------------------------------------------

Done == phase = "done" /\ drops = <<>>

\* Whichever call fails, every handle is given back once, none is used after
\* that, a device's parts go in the order that leaves none without what it stands
\* on, and when read_volume_id has returned the system holds nothing of it - above
\* all not the exclusive access (the Drop implementations, owned_parents, the
\* forgotten guard of the service).
HandlesBalanced == ~misused /\ (Done => held = {})

\* The disk of a name: up to its first slice.
WholeDisk(name) ==
    LET cut == {k \in DOMAIN name : name[k] = Slice /\ k > 1} IN
    IF cut = {} THEN name ELSE SubSeq(name, 1, (CHOOSE k \in cut : \A j \in cut : k <= j) - 1)
IsDrive(c, i) == i \in DOMAIN registry[c] /\ registry[c][i].name = WholeDisk(mount)
NoDrive == \A c \in {1, 2} : \A i \in DOMAIN registry[c] : ~IsDrive(c, i)

\* The Volume Identifier is that of the drive that holds the mounted disc, whatever
\* slice is mounted, and the task's answer was whole; and the search gives up
\* only when a call failed, when there is no such drive, or when no node
\* within reach offers a user client.
VolumeIdOfDisc ==
    /\ result.kind = "volume" =>
         IsDrive(class, at) /\ (result.via = "scsi" => result.whole)
    /\ Done /\ ~faulted /\ result.kind # "volume" =>
         \/ result.kind = "nodrive" /\ NoDrive
         \/ result.kind = "name" /\ mount[1] # Disk
         \/ result.kind = "noclient" /\ \A h \in 0..MaxHops : ~Offers(h, "scsi") /\ ~Offers(h, "mmc")

\* The read ends, also where the chain of parents does not.
VolumeIdReturns == <>Done
=============================================================================

----------------------------- MODULE MCMacDrive -----------------------------
(***************************************************************************)
(* A disc mounted from the disk or from a slice of one, and every registry *)
(* of up to two services of the first class and one of the second.         *)
(***************************************************************************)
EXTENDS MacDrive

One == <<Disk, 1>>
SomeMounts == {One, <<Disk, 1, Slice, 2>>, <<Disk, 1, Slice, 2, Slice, 1, 0>>, <<Slice, 1>>}

\* A client on the service, on a parent of it, beyond the last hop, or none.
Chains ==
    {<<{"scsi", "mmc"}>>, <<{}, {"mmc"}>>, <<{}, {}, {"scsi"}>>, <<{}, {}, {}, {"mmc"}, {}>>}
Drive(name, nodes) == [name |-> name, nodes |-> nodes, endless |-> FALSE]
Endless == [Drive(One, <<{}>>) EXCEPT !.endless = TRUE]
SomeServices ==
    {Drive(One, c) : c \in Chains} \union
    {Endless, Drive(<<Disk, 1, 0>>, <<{"mmc"}>>), Drive(<<>>, <<{"mmc"}>>)}
SomeRegistries == SeqOf(SomeServices, 2) \X SeqOf(SomeServices, 1)
=============================================================================

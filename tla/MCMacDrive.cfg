\* Chains of nodes longer than the hops allowed, a drive whose name starts like
\* the disc's, a service without a name; every call fails or succeeds.
CONSTANTS
    MaxHops = 2
    Mounts <- SomeMounts
    Registries <- SomeRegistries
SPECIFICATION Spec
INVARIANTS HandlesBalanced VolumeIdOfDisc
PROPERTY VolumeIdReturns
CHECK_DEADLOCK FALSE

\* Every index of up to two titles with every choice of up to two PlayLists;
\* every PlayList of two PlayItems, a SubPath and a mark; every cut and every
\* damaged cell of index.bdmv, of MovieObject.bdmv and of such a PlayList.
CONSTANTS
    MaxItems = 2
    ListValues <- FewValues
    MaxTitles = 2
    MaxObjects = 2
    Values <- SmallValues
SPECIFICATION Spec
INVARIANTS ListReadsBack DamageContained ScriptsReadBack CatalogueTrue
CHECK_DEADLOCK FALSE

\* A caller that may stop ranging: the goroutine blocks for ever in a
\* send once the channel holds ChanCap unreceived matches.
CONSTANTS
    Programs <- IterPrograms
    Texts <- IterTexts
    NArgs <- IterArgs
    ChanCap = 10
    MayAbandon = TRUE
SPECIFICATION FairSpec
PROPERTIES
    GoroutineExits

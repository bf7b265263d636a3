\* AllMatchesString, ReplaceAllStringFunc and then AllMatchesStringIter on
\* the same Regexp and string, with limits -1, 0, 1, 2: allMatches returns,
\* skips no match and drops the empty matches abutting a match; ReplaceAll
\* always advances, copies every unmatched byte once, and replaces the
\* matches AllMatches returns; the iterator's caller, which may stop at any
\* receive, gets exactly those matches over a channel small enough to fill.
CONSTANTS
    Programs <- ScanPrograms
    Texts <- AllTexts
    NArgs <- LimitArgs
    ChanCap = 2
    MayAbandon = TRUE
SPECIFICATION ScanSpec
INVARIANTS
    TypeOK
    NoEmptyAbutting
    NoMatchSkipped
    ReplacesAllMatches
    CopiesUnmatched
    IterDeliversAllMatches
PROPERTIES
    Termination
    AlwaysAdvances
    RangeEnds

\* TrimSpace on every text of up to 4 bytes: a trailing invalid byte after
\* a space is removed with the space.

CONSTANTS
    Texts <- MCTexts
    Seps <- MCSeps
    Octets <- Alphabet
    SplitNs <- MCSplitNs
    Lists <- MCLists
    Counts <- MCCounts
    Slices <- MCSlices
    Mappings <- MCMappings
    LongSlices <- MCLongSlices
    LongLens <- MCLongLens
SPECIFICATION Spec
INVARIANT
    TrimSpaceMatchesReference

\* Every call of the library, with Add and AddByte on slices past two
\* thirds of the largest int and Decode on messages no sender writes: some
\* call panics instead of returning (Parse, Add, Decode).
CONSTANTS
    Texts <- MCTexts
    Seps <- MCSeps
    Octets <- Alphabet
    SplitNs <- MCSplitNs
    Lists <- MCLists
    Counts <- MCCounts
    Slices <- MCSlices
    Mappings <- MCMappings
    LongSlices <- MCWrapSlices
    LongLens <- MCLongLens
    JsonTexts <- MCJsonTexts
    QuoteTexts <- MCQuoteTexts
    QuotedTexts <- MCQuotedTexts
    Bootstrap = 2
    MinRead = 3
    UTFMax = 4
    MaxBytes = 5
    MaxChunk = 2
    MaxInit = 1
    MaxInitCap = 4
    ReadFromAfterPartialRead = FALSE
    LocalFields <- MCLocalFields
    WireStructs <- MCWireStructs
    SenderType <- MCSenderType
    Feeds <- MCBadFeeds
    ReadEnds <- MCReadEnds
    MaxDecodes = 5
    FirstUserId <- MCFirstUserId
SPECIFICATION LibSpec
INVARIANT NoCallPanics

\* Quote on every string of MCQuoteTexts: Unquote does not give s back.
CONSTANTS
    Texts <- MCTexts
    Seps <- MCSeps
    Octets <- Alphabet
    SplitNs <- MCSplitNs
    Lists <- MCLists
    Counts <- MCCounts
    Slices <- MCSlices
    Mappings <- MCMappings
    LongSlices <- MCLongSlices
    LongLens <- MCLongLens
    JsonTexts <- MCJsonTexts
    QuoteTexts <- MCQuoteTexts
    QuotedTexts <- MCQuotedTexts
    Bootstrap = 2
    MinRead = 3
    UTFMax = 4
    MaxBytes = 5
    MaxChunk = 2
    MaxInit = 1
    MaxInitCap = 4
    ReadFromAfterPartialRead = FALSE
    LocalFields <- MCLocalFields
    WireStructs <- MCWireStructs
    SenderType <- MCSenderType
    Feeds <- MCFeeds
    ReadEnds <- MCReadEnds
    MaxDecodes = 5
    FirstUserId <- MCFirstUserId
SPECIFICATION LibSpec
INVARIANT QuoteRoundTrip

\* One call of a bytes, json or regexp compile function on every input of
\* MCBytes and MCLibrary, or a session on a Buffer: the bytes functions agree with
\* their reference definitions; Parse, whenever it returns, accepts exactly
\* the JSON grammar and builds its value; Quote writes a string token;
\* Unquote decodes the escapes; the Buffer implements the byte queue; every
\* pattern of up to four symbols compiles to a well-formed program with a
\* mandatory prefix, and both packages' compilers agree on it.
CONSTANTS
    Texts <- MCTexts
    Seps <- MCSeps
    Octets <- Alphabet
    SplitNs <- MCSplitNs
    Lists <- MCLists
    Counts <- MCCounts
    Slices <- MCSlices
    Mappings <- MCMappings
    LongSlices <- MCLongSlices
    LongLens <- MCLongLens
    JsonTexts <- MCJsonTexts
    QuoteTexts <- MCQuoteTexts
    QuotedTexts <- MCQuotedTexts
    Bootstrap = 2
    MinRead = 3
    UTFMax = 4
    MaxBytes = 5
    MaxChunk = 2
    MaxInit = 1
    MaxInitCap = 4
    ReadFromAfterPartialRead = FALSE
    LocalFields <- MCLocalFields
    WireStructs <- MCWireStructs
    SenderType <- MCSenderType
    Feeds <- MCFeeds
    ReadEnds <- MCReadEnds
    MaxDecodes = 5
    FirstUserId <- MCFirstUserId
SPECIFICATION LibSpec
INVARIANTS
    JsonTypeOK
    SplitMatchesReference
    IndexMatchesReference
    CompareIsLexicographic
    FieldsMatchesReference
    MapMatchesReference
    ConcatenatesInOrder
    ParseMatchesGrammar
    QuoteIsStringToken
    UnquoteMatchesReference
    BufferTypeOK
    WellFormed
    PrefixSound
    SameLanguage
    GobTypeOK
    DecodesSentValues
PROPERTIES
    BufferRefinesQueue

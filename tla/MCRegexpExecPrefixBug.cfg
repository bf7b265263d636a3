\* Programs with a literal prefix: after the prefix skip, doExecute's
\* result is not the leftmost-longest match.
CONSTANTS
    Programs <- PrefixedPrograms
    Texts <- AllTexts
    BlockN = 10
    MaxVec = 200
SPECIFICATION FairSpec
PROPERTIES
    ExecRefinesMatch

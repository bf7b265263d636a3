\* Both packages' matchers on the same pattern and text, with and without a
\* literal prefix: package regexp's arena stays sound, its candidates are
\* real matches, its captures nest and it returns the leftmost-longest
\* match when there is no prefix; package testing's lists stay bounded and
\* it returns the leftmost-longest match; both return.
CONSTANTS
    Patterns <- AgreePatterns
    Programs <- AgreePrograms
    Texts <- AllTexts
    BlockN = 10
    MaxVec = 200
    MaxList = 40
SPECIFICATION ExecSpec
INVARIANTS
    TypeOK
    ArenaSound
    CandidateIsMatch
    CapturesNested
    TestingTypeOK
    TestingListBounded
    TestingCapturesNested
PROPERTIES
    UnprefixedRefinesMatch
    TestingRefinesMatch
    BothReturn

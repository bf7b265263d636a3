\* Classes of more than ten ranges: testing's addRange loses the first ten.
CONSTANTS
    Patterns <- LongClasses
    Texts <- AgreeTexts
SPECIFICATION AgreeSpec
INVARIANTS
    SameLanguage

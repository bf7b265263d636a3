\* Compile returns the first error the parser met: not so for "(*".
CONSTANTS
    Patterns <- AllPatterns
    Texts <- ShortTexts
SPECIFICATION Spec
INVARIANTS
    FirstErrorReturned

\* Loops whose body can match the empty string, (a*)* and (b?)+: the walk
\* of s[in] keeps appending the same states and the list grows without end.
CONSTANTS
    Programs <- NullableLoopPrograms
    Texts <- AllTexts
    MaxList = 40
SPECIFICATION Spec
INVARIANTS
    ListBounded

SPECIFICATION Spec
CONSTANTS
    Lines <- AllLines
    MaxLines = 4
    Queries <- Settings
    MaxDepth = 2
    IntMax = 31
INVARIANT TypeOK
INVARIANT SavesBalanced
INVARIANT ClearFileUnderstood
PROPERTY StartsUp

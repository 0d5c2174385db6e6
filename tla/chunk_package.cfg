CONSTANTS
    Shape <- Shapes
    MaxChildren = 3
    MaxTokens = 5
    MinTokens = 4
    WordBatch = 8
SPECIFICATION Spec
INVARIANTS
    TypeOK
    TextPreserved
    LinksAgree
    SourcesAreNamed
    LeftoversExplained
PROPERTY
    LoopsEnd

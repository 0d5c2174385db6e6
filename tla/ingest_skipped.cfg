CONSTANTS
    Job = {j1, j2}
    Restorer = {}
    Remover = {x1}
    Source = {s1}
    Hash = {h1}
    None = None
SPECIFICATION Spec
PROPERTY
    SkipsForLiveDocument

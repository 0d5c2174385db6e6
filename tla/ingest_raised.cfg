CONSTANTS
    Job = {j1, j2}
    Restorer = {}
    Remover = {}
    Source = {s1}
    Hash = {h1, h2}
    None = None
SPECIFICATION Spec
INVARIANT
    RaisedMeansSettled

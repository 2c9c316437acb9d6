CONSTANTS
    Dicts = {base, user}
    Env = Env
    File = File
    Result = Result
    K = K
    S = S
    P = P
    Q = Q
    v1 = v1
    v2 = v2
    v3 = v3
    Keys = {K, S, P, Q}
    Values = {v1, v2, v3}
    Broken = Broken
    DictChoices <- SomeDicts
    EnvChoices <- SomeEnv
    FileChoices <- SomeFile
    Stacks <- SomeStacks
SPECIFICATION ConfigSpec
SYMMETRY Symmetry
INVARIANTS
    ConfigInv
    LaterWinsApart
    IdempotentOnSameKinds

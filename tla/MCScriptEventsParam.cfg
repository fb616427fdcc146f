CONSTANTS
    r1 = r1
    r2 = r2
    s1 = s1
    s2 = s2
    s3 = s3
    i1 = i1
    i2 = i2
    n1 = n1
    v0 = v0
    v1 = v1
    Script = {s1, s2}
    NoScript = NoScript
    Runtime = {r1, r2}
    ScriptsOf <- TwoWindows
    NoKey = NoKey
    MaxFrames = 2
    Item = {i1, i2}
    Name = {n1}
    Declared <- OneSetting
    Value = {v0, v1}
    Default <- DefaultV0
    Empty = Empty
    MaxDepth = 1
    Status = {0, 1}
SPECIFICATION Spec
INVARIANT OwnParam

\* Every way to cut a request into three reads.
SPECIFICATION Spec
CONSTANTS
    pa = pa
    pb = pb
    pd = pd
    query = query
    path = path
    va = va
    vb = vb
    NoProject = NoProject
    Key <- MCKey
    Value <- MCValue
    Sections <- MCSections
    Requests <- MCRequests
    MaxReads = 3
INVARIANTS TypeOK HarmlessCutsDoNotMatter RightProject

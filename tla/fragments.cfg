\* The session, whatever the cuts.
SPECIFICATION Spec
CONSTANTS
    pa = pa
    pb = pb
    pd = pd
    query = query
    path = path
    va = va
    vb = vb
    NoProject = NoProject
    Key <- MCKey
    Value <- MCValue
    Sections <- MCSections
    Requests <- MCRequests
    MaxReads = 2
INVARIANTS CutsDoNotMatter

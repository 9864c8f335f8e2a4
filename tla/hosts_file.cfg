\* Two writers and a user who adds and deletes two lines and blank ones.
SPECIFICATION Spec
CONSTANTS
    w1 = w1
    w2 = w2
    l1 = l1
    l2 = l2
    Writers = {w1, w2}
    h1 = h1
    HostOrder <- MCHostOrder
    Begin = Begin
    End = End
    Blank = Blank
    Idle = Idle
    UserLines = {l1, l2}
    NoRoutes = NoRoutes
    MaxEdits = 3
SYMMETRY MCSymmetry
INVARIANTS
    TypeOK
    UserLinesSurvive
    OneBlock
    ReplaceSettles
PROPERTY
    LinesBeforeBlockSurvive

SPECIFICATION Spec
CONSTANTS
    Login = {l1, l2}
    Linked = {l1, l2}
    Req = {r1, r2}
    Decision = {d1, d2}
    Ask = {c1, c2}
    None = None
    MaxDay = 2
    CanFail = TRUE
    l1 = l1
    l2 = l2
    r1 = r1
    r2 = r2
    d1 = d1
    d2 = d2
    c1 = c1
    c2 = c2
SYMMETRY Symmetry
INVARIANTS
    OneGrantPerRequest
    AnsweredWithTime
    
CHECK_DEADLOCK FALSE

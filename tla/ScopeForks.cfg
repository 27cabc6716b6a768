CONSTANTS
    t1 = t1  t2 = t2  s1 = s1  s2 = s2  f1 = f1  f2 = f2  c1 = c1
    x1 = x1  x2 = x2  x3 = x3  m1 = m1  None = None
    Thread = {t1}
    Scope = {x1, x2}
    Managed = {m1}
    OwnStack = {s1}
    ForkStack = {f1, f2}
    CopyStack = {c1}
    Home <- SharedHome
    MayBind <- ForkBinds
    Calls = {"capture"}
    Agents = {TRUE, FALSE}
    Name = {}
    Global = TRUE
SYMMETRY ScopeSymmetry
SPECIFICATION Spec
CHECK_DEADLOCK FALSE
INVARIANTS
    
    SameRoot
    ForkKeepsRoot

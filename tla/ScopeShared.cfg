CONSTANTS
    t1 = t1  t2 = t2  s1 = s1  s2 = s2  f1 = f1  f2 = f2  c1 = c1
    x1 = x1  x2 = x2  x3 = x3  m1 = m1  None = None
    Thread = {t1, t2}
    Scope = {x1, x2}
    Managed = {}
    OwnStack = {s1}
    ForkStack = {}
    CopyStack = {}
    Home <- SharedHome
    MayBind <- NoBinds
    Calls = {"sanitizer", "llm", "explicit"}
    Agents = {TRUE, FALSE}
    Name = {"n"}
    Global = TRUE
SYMMETRY SharedSymmetry
SPECIFICATION Spec
CHECK_DEADLOCK FALSE
INVARIANTS
    TypeOK
    OpenScopesOwn
    EndCarriesMiddleware
    EventsPaired
    FreshOnce
PROPERTIES
    StackDiscipline

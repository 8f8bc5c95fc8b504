\* Two releases, two processes that may be killed at any step.
CONSTANTS
    c1 = c1
    c2 = c2
    a1 = a1
    r1 = r1
    r2 = r2
    Callers = {c1, c2}
    Authorizations = {a1}
    Releases = {r1, r2}
    Candidates = 2
    None = None
    Torn = Torn
SYMMETRY Symmetry
SPECIFICATION Spec
INVARIANTS
    Confirmed
PROPERTIES
    ImplementsOneShot

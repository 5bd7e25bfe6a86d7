CONSTANTS
    Threads = {t1, t2}
    Msgs = {m1, m2}
    Ages <- MCAges
    TTL = 1
    MaxGap = 2
    Ops = {"submit", "reset"}
    Faults = {"io", "restart", "damage"}
    None = None
    Absent = Absent
    Torn = Torn
SPECIFICATION AuthoritySpec
SYMMETRY MCSymmetry
INVARIANTS AcceptedOnceInOrder AcceptedIsDurable NumberingDense AccountIsTheRegistrys
PROPERTY KeepsLedger

\* As MCGraph, for the removal that does not remove.
CONSTANTS
    BehaviorId = {b1, b2}
    SubjectId = {s1, s2}
    Tag = {t1, t2}
    Address = {m1, m2, m3}
SPECIFICATION GraphSpec
SYMMETRY Symmetry
INVARIANT RemovedIsGone

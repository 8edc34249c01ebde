\* Two ids, two subjects, two tags and an address more than ids, so that one is
\* always free: every combination of tags, added, added again and removed in
\* every order, at new addresses and at those of destroyed behaviors.
CONSTANTS
    BehaviorId = {b1, b2}
    SubjectId = {s1, s2}
    Tag = {t1, t2}
    Address = {m1, m2, m3}
SPECIFICATION GraphSpec
SYMMETRY Symmetry
INVARIANTS GraphTypeOK RefsAlive

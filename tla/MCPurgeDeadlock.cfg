SPECIFICATION Spec
CONSTANTS
    Tasks = {t1, t2}
    Users = {u1, u2}
    Pools = {1, 2}
    None = None
INVARIANT NeverDeadlocked
CHECK_DEADLOCK FALSE

\* d and transaction 1 share a slot, their keys differ.
CONSTANTS
    d = d
    e = e
    Xid = {1, 2}
    Data = {d, e}
    hashCode <- Together
    TABLE_SIZE = 4
SPECIFICATION Spec
INVARIANTS LockAnswers
CHECK_DEADLOCK FALSE

\* A queue with two takers, with three senders, or with one owner.
SPECIFICATION Spec
CONSTANTS
    Nodes = {b1, b2, b3, b4}
    Takers = {t1, t2}
    Senders = {s1, s2, s3}
    Owners = {o1}
    Lens = {0, 1, 2}
    Null = null
SYMMETRY Symmetry
INVARIANTS
    TypeOK
    RingClosed
    OnePlace
PROPERTY
    QueueIsFifo

\* The ring buffer implements a bounded queue.
CONSTANTS
    Size = 4
    Byte = {0, 1, 2}
SPECIFICATION Spec
INVARIANTS
    PointersAgree
PROPERTIES
    ImplementsFifo

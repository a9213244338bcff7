\* The fiber scheduler: 3 fibers besides main, names n1, n2 or none.
CONSTANTS
    f1 = f1
    f2 = f2
    f3 = f3
    n1 = n1
    n2 = n2
    Fiber = {f1, f2, f3}
    Name = {n1, n2}
    Main = Main
    NULL = NULL
    Wild = Wild
SPECIFICATION SchedSpec
SYMMETRY Symmetry
INVARIANTS SchedInv
PROPERTY CoopSpec
CHECK_DEADLOCK FALSE

CONSTANTS
    x1 = x1
    x2 = x2
    v1 = v1
    v2 = v2
    n1 = n1
    n2 = n2
    b1 = b1
    b2 = b2
    alice = alice
    bob = bob
    Records = {x1, x2}
    Customer <- CustomerOf
    None = None
    Legacy = {x1, x2}
    Vmids = {v1, v2}
    Nodes = {n1, n2}
    Binders = {b1, b2}
    MaxBindings = 3
SPECIFICATION Spec
SYMMETRY Interchangeable
INVARIANTS
    TypeOK
    DuplicatesNeedARace
    BoundWhenAlone
    OwnersHaveARecord
    CleanExitMeansNoPlaintext
PROPERTIES
    BackfillKeepsNewPasswords
    ImplementsLedger

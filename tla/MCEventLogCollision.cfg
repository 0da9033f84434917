SPECIFICATION Spec
CONSTANTS
    Jobs = {j1, j2}
    NumEvents = 1
    Nobody = Nobody
    Torn = Torn
SYMMETRY Symmetry
INVARIANTS
    CollectsOwnEvents

SPECIFICATION TxSpec
CONSTANT Requests = {r1, r2}
SYMMETRY Symmetry
INVARIANT ThrownRollsBack

\* Three processes open and close handles, in all three builds.
CONSTANT Process = {p1, p2, p3}
SYMMETRY Interchangeable
SPECIFICATION Spec
INVARIANTS NoLeak NoDoubleFree NameOwned

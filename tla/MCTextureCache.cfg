\* Four textures, one more than the larger of the two caches holds.
CONSTANTS
    Setups <- MCSetups
    Null = Null
    Bindings = {b1, b2, b3, b4}
    Locations = {l1}
    Shapes = {s1, s2}
    Hashes = {h1, h2}
SPECIFICATION Spec
SYMMETRY MCSymmetry
INVARIANTS RefcountExact UnitsCurrent
PROPERTY IsLruCache

SPECIFICATION Spec
CONSTANTS
  Items = {i1, i2, i3, i4}
  Keys = {k1, k2}
SYMMETRY Symmetry
INVARIANT NothingLost
PROPERTY ListsSpec

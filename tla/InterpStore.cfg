SPECIFICATION FairSpec
CONSTANTS
  ObjIndex = {null, o1, o2}
  Null = null
  RootIndex = {root0, r1, r2}
  Root0 = root0
  Handle = {h1, h2}
  Thread = {t1}
  NoObj = nullptr
  Kind = {"Module", "Instance", "Global", "Tag", "Exception"}
  MaxCallDepth = 1
INVARIANTS
  RefPtrsOwnRoots
  NoDangling
PROPERTIES
  CollectsAllGarbage
  CollectTerminates

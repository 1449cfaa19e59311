SPECIFICATION Spec
CONSTANTS
  Paths <- SmallPaths
  Methods <- SmallMethods
  MethodSets <- SmallMethodSets
  Root <- SmallRoot
  RealPaths <- SmallRealPaths
  MaxLines = 2
INVARIANT TypeOK
INVARIANT FirstLineDecides
INVARIANT ResponseFramed
INVARIANT BackendReleased
INVARIANT ServedBelowRoot

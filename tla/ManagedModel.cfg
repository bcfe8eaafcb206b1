SPECIFICATION Spec
CONSTANTS
  m1 = m1
  m2 = m2
  m3 = m3
  moss = moss
  qwen3 = qwen3
  s1 = s1
  s2 = s2
  s3 = s3
  s4 = s4
  Null = Null
  Managed <- ThreeManaged
  Keys <- TwoKeys
  Sessions <- FourSessions
SYMMETRY Sym
INVARIANTS ManagedInv Accounted SingleResident

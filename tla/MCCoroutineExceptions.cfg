CONSTANTS
  Cos = {c1, c2}
  NoCo = NoCo
  MaxOps = 2
  MaxDepth = 2
  MaxSteps = 3
SPECIFICATION Spec
INVARIANT CoroutinesIndependent

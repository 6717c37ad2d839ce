SPECIFICATION Spec
CONSTANTS
  Lists = {l1, l2}
  Nodes = {n1, n2, n3}
  NULL = NULL
  CountMod = 16
PROPERTY ImplementsQueue

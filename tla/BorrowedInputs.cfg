CONSTANTS
  s = s
  t = t
  box = box
  list = list
  dict = dict
  Calls = {c1, c2}
  Texts = {s, t}
  Boxes = {box}
  Lists = {list}
  Dicts = {dict}
  NoObject = NoObject
  Size <- MCSize
  Heaps <- MCHeaps
  max_nodes = 3
  max_bytes = 4
  max_depth = 2
  MaxCallbacks = 1
SPECIFICATION Spec
INVARIANTS TypeOK InputsAlive OwnedExactly
SYMMETRY CallSymmetry
CHECK_DEADLOCK FALSE

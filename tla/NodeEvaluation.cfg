CONSTANTS
  Envs = {a, b, n}
  NoEnv = NoEnv
  Registered = {a, b}
  MaxDepth = 4
SPECIFICATION Spec
INVARIANTS TypeOK EncoderSound ServedByCaller
PROPERTIES ImplementsRouting

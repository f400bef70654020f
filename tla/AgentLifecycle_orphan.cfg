CONSTANTS
  Agents = {a1, a2}
  Handlers = {h1, h2}
  Main = Main
  NoAgent = NoAgent
SPECIFICATION Spec
INVARIANT IsRunningIsTruthful

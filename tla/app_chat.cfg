\* Two sample conversations and room for a third, three models.
SPECIFICATION Spec
CONSTANTS
  Models = {"flash", "mini", "haiku"}
  Available = {"flash", "mini"}
  EffortsOf <- ThreeModels
  Files = {file}
  None = None
  MaxThreads = 3
  MaxMessages = 3
  Reach = {"media"}
INVARIANTS TypeOK PickedIsHere
PROPERTIES OnlyTheOpenOneChanges

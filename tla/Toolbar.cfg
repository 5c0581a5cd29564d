SPECIFICATION Spec
CONSTANTS
  Switches = {"punc", "width"}
  Frozen = {"punc"}
  Initially <- MCInitially
  VkOrder <- MCVkOrder
  Closed = "closed"
  MaxQueue = 2
INVARIANTS TypeOK SwitchesMeet PairingMeets KeyboardMeets
PROPERTIES KeyboardLetsGo

SPECIFICATION Spec
CONSTANTS
  Chains = {"ltc"}
  Primary = "ltc"
  NodeCount <- MCTwoNodes
  MaxLoops = 2
PROPERTY BackToPrimary

SPECIFICATION Spec
CONSTANTS
  Chains = {"ltc"}
  Primary = "ltc"
  NodeCount <- MCTwoNodes
  MaxLoops = 1
PROPERTY RetryUsesRecoveredNode

SPECIFICATION Spec
CONSTANTS
  Heights <- MCHeights
  TxCounts <- MCTxCounts
  Signatures <- MCSignatures
  Extranonces <- MCExtranonces
INVARIANTS TypeOK MerkleRootKept ScriptLengthRight HeightReadable CountReadable
CHECK_DEADLOCK FALSE

----------------------------- MODULE MCAssembly -----------------------------
(* Heights around byte boundaries, up to nine transactions for the shapes   *)
(* of a small tree and the counts around 253, and arguments of GenerateWork *)
(* of a common length, of an odd one and of those that make scripts of 253. *)
EXTENDS BlockAssembly

MCHeights == {0, 1, 255, 256, 257, 65535, 65536, 65537, 2410822}
MCTxCounts == 0..9 \cup {251, 252, 253}
MCSignatures == {24, 56, 240}
MCExtranonces == {0, 7, 8, 248}
=============================================================================

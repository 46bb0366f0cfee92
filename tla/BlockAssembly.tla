--------------------------- MODULE BlockAssembly ----------------------------
(***************************************************************************)
(* How the bitcoin package puts a block together: coinbase script, merkle  *)
(* branch, header and submission (bitcoin/generator.go, coinbase.go,       *)
(* merkle.go, header.go, submission.go, encoding.go).  Hashes are symbolic *)
(* and free of collisions: the hash of two nodes is the pair of them.  A   *)
(* byte string is a sequence of bytes where its value matters, otherwise   *)
(* its length.                                                             *)
(***************************************************************************)
EXTENDS Integers, Sequences

CONSTANTS
  Heights,      \* heights of the templates
  TxCounts,     \* numbers of transactions of the templates
  Signatures,   \* lengths of config.BlockSignature with the aux block's hash
  Extranonces   \* lengths of an extranonce2 as the client wrote it

(* Bounds: a height of three bytes, counts and lengths of 31 bits.          *)
MaxHeight == 16777215
MaxValue == 2147483647

ASSUME AssemblyAssumption ==
  /\ Heights \subseteq 0..MaxHeight
  /\ TxCounts \subseteq 0..(MaxValue - 1)
  /\ Signatures \subseteq 0..(MaxValue - 20)
  /\ Extranonces \subseteq 0..(MaxValue - 20)

VARIABLES
  height, count,  \* the template
  path,         \* who calls GenerateWork: "fetch", "force" or "submit"
  arbitrary,    \* and the length of its argument arbitrary
  stage,        \* how far the block is
  script,       \* the coinbase script: declared length and height bytes
  level,        \* templateMerkleBranchSteps: the level being joined
  steps,        \* its result so far
  branch,       \* makeHeaderMerkleRoot: the steps still to be joined
  root,         \* and the hash so far
  txCount       \* the submission's transaction count

vars == <<height, count, arbitrary, path, stage, script, level, steps, branch, root, txCount>>

(***************************************************************************)
(* encoding.go                                                             *)
(***************************************************************************)
Panic == <<>>

Power256 == <<1, 256, 65536, 16777216>>

LittleEndian(value, width) == [k \in 1..width |-> (value \div Power256[k]) % 256]

(* No value here needs the form of eight bytes.                             *)
varUint_BigEndian(value) ==
  IF value <= 252 THEN <<value>> ELSE <<253, value \div 256, value % 256>>
varUint(value) ==
  CASE value <= 252 -> <<value>>
    [] value > 253 /\ value <= 65535 -> <<253>> \o LittleEndian(value, 2)
    [] value > 65535 -> <<254>> \o LittleEndian(value, 4)
    [] OTHER -> Panic

(* Once a byte is not 0, every later 0 is dropped, not only the last ones.  *)
(* A height below 2^24: the upper bytes of the eight are 0.                 *)
heightBytes_AllZeros(h) == SelectSeq(LittleEndian(h, 3), LAMBDA b : b # 0)
heightBytes(h) ==
  LET bytes == LittleEndian(h, 3)
      Significant(k) == \E j \in 1..k : bytes[j] # 0
      Kept(k) == IF bytes[k] # 0 \/ ~Significant(k) THEN <<bytes[k]>> ELSE <<>>
  IN IF h = 0 THEN [k \in 1..8 |-> 0] ELSE Kept(1) \o Kept(2) \o Kept(3)

(***************************************************************************)
(* generator.go and coinbase.go                                            *)
(***************************************************************************)
(* bytesWithLengthHeader: one byte for the length, whatever the length is.  *)
arbitraryLength == 1 + arbitrary

reservedLength_None == 0
reservedLength == IF path = "fetch" THEN 8 ELSE 0

(* What MakeHeader, or the miner for a job, puts between the halves of the  *)
(* coinbase: extranonce1 and extranonce2, but only the latter, hex digits   *)
(* that were its characters before, on submit.                              *)
extranonceLength == IF path = "submit" THEN arbitrary \div 2 ELSE 8

(* The signature and the aux block's hash, nothing, or the extranonce2 that *)
(* receiveWorkFromClient takes from the client as it is.                    *)
GenerateWork ==
  \/ path = "fetch" /\ arbitrary \in Signatures
  \/ path = "force" /\ arbitrary = 0
  \/ path = "submit" /\ arbitrary \in Extranonces

Init ==
  /\ height \in Heights
  /\ count \in TxCounts
  /\ GenerateWork
  /\ stage = "start"
  /\ script = [declared |-> Panic, heightLength |-> Panic, height |-> <<>>]
  /\ level = <<>>
  /\ steps = <<>>
  /\ branch = <<>>
  /\ root = <<>>
  /\ txCount = Panic

Transactions == [k \in 1..count |-> <<k>>]
Coinbase == <<0>>

CoinbaseInitial ==
  /\ stage = "start"
  /\ LET bytes == heightBytes(height)
         total == arbitraryLength + reservedLength + Len(bytes) + 1
     IN /\ script' = [declared |-> varUint(total), heightLength |-> varUint(Len(bytes)),
                      height |-> bytes]
        /\ stage' = IF varUint(total) = Panic THEN "panic"
                    ELSE IF count = 0 THEN "generated" ELSE "merkle"
  /\ level' = <<Coinbase>> \o Transactions
  /\ UNCHANGED <<height, count, arbitrary, path, steps, branch, root, txCount>>

(* One round of templateMerkleBranchSteps.  Its first element stands for    *)
(* the coinbase and is never joined.                                        *)
join(one, two) == <<one, two>>

evened_Padded(l) == l \o <<l[Len(l)], l[Len(l)]>>
evened_Not(l) == SubSeq(l, 1, Len(l) - (Len(l) % 2))
evened(l) == IF Len(l) % 2 = 1 THEN Append(l, l[Len(l)]) ELSE l

MerkleRound ==
  /\ stage = "merkle"
  /\ IF Len(level) = 1
     THEN stage' = "generated" /\ UNCHANGED <<level, steps>>
     ELSE LET even == evened(level)
          IN /\ steps' = Append(steps, level[2])
             /\ level' = <<Coinbase>> \o
                  [k \in 1..(Len(even) \div 2 - 1) |-> join(even[2 * k + 1], even[2 * k + 2])]
             /\ UNCHANGED stage
  /\ UNCHANGED <<height, count, arbitrary, path, script, branch, root, txCount>>

(* MakeHeader and makeHeaderMerkleRoot.  An extranonce2 that is not hex, or *)
(* not of whole bytes, makes a coinbase that cannot be hashed.              *)
MakeHeader ==
  /\ stage = "generated"
  /\ \/ /\ path = "submit" => arbitrary % 2 = 0
        /\ root' = Coinbase
        /\ branch' = steps
        /\ stage' = "header"
     \/ /\ path = "submit" /\ arbitrary > 0
        /\ stage' = "refused"
        /\ UNCHANGED <<root, branch>>
  /\ UNCHANGED <<height, count, arbitrary, path, script, level, steps, txCount>>

RootRound ==
  /\ stage = "header"
  /\ branch # <<>>
  /\ root' = join(root, Head(branch))
  /\ branch' = Tail(branch)
  /\ UNCHANGED <<height, count, arbitrary, path, stage, script, level, steps, txCount>>

(* blockHeader: a time or nonce from the miner that is not hex is an error, *)
(* and the block has no header.                                             *)
blockHeader ==
  /\ stage = "header"
  /\ branch = <<>>
  /\ stage' \in {"made", "refused"}
  /\ UNCHANGED <<height, count, arbitrary, path, script, level, steps, branch, root, txCount>>

(* Submit and createSubmissionHex.                                          *)
createSubmission ==
  /\ stage = "made"
  /\ txCount' = varUint(count + 1)
  /\ stage' = IF txCount' = Panic THEN "panic" ELSE "done"
  /\ UNCHANGED <<height, count, arbitrary, path, script, level, steps, branch, root>>

Next == CoinbaseInitial \/ MerkleRound \/ MakeHeader \/ RootRound \/ blockHeader \/ createSubmission

Spec == Init /\ [][Next]_vars

(***************************************************************************)
(* Reference definitions                                                   *)
(***************************************************************************)
(* A merkle tree: each level joins the nodes below two by two, the last of  *)
(* an odd number with itself, and the root is the one that is alone.        *)
Pairs(nodes) == [k \in 1..(Len(nodes) \div 2) |-> <<nodes[2 * k - 1], nodes[2 * k]>>]
OddOne(nodes) ==
  IF Len(nodes) % 2 = 1 THEN << <<nodes[Len(nodes)], nodes[Len(nodes)]>> >> ELSE <<>>

Above(nodes) == IF Len(nodes) = 1 THEN nodes ELSE Pairs(nodes) \o OddOne(nodes)

TreeRoot(nodes) ==
  LET row[n \in 0..Len(nodes)] == IF n = 0 THEN nodes ELSE Above(row[n - 1])
  IN  row[CHOOSE n \in 0..Len(nodes) : Len(row[n]) = 1][1]

FromBytes(bytes) ==
  LET upper[n \in 0..Len(bytes)] ==
        IF n = 0 THEN 0 ELSE upper[n - 1] * 256 + bytes[Len(bytes) - n + 1]
  IN  upper[Len(bytes)]

Decode(bytes) ==
  CASE bytes[1] = 253 -> FromBytes(SubSeq(bytes, 2, 3))
    [] bytes[1] = 254 -> FromBytes(SubSeq(bytes, 2, 5))
    [] OTHER -> bytes[1]

Folded(node, list) ==
  LET after[n \in 0..Len(list)] == IF n = 0 THEN node ELSE <<after[n - 1], list[n]>>
  IN  after[Len(list)]

(***************************************************************************)
(* Properties                                                              *)
(***************************************************************************)
TypeOK ==
  /\ height \in Heights /\ count \in TxCounts
  /\ path \in {"fetch", "force", "submit"}
  /\ arbitrary \in Signatures \cup Extranonces \cup {0}
  /\ stage \in {"start", "merkle", "generated", "header", "made", "refused", "done",
               "panic"}
  /\ stage = "merkle" => Len(level) \in 1..(count + 1)
  /\ Len(steps) <= count
  /\ Len(branch) <= Len(steps)

(* The loops of templateMerkleBranchSteps and makeHeaderMerkleRoot agree    *)
(* with the definition of a merkle tree: in every round, the steps taken so *)
(* far, applied to the coinbase, and the rest of the level have the root of *)
(* the block's transactions, and the header ends up with it.                *)
MerkleRootKept ==
  LET expected == TreeRoot(<<Coinbase>> \o Transactions)
  IN /\ stage = "merkle" => TreeRoot(<<Folded(Coinbase, steps)>> \o Tail(level)) = expected
     /\ stage = "header" => Folded(root, branch) = expected
     /\ stage \in {"made", "done"} => root = expected

(* Work made by fetchRpcBlockTemplatesAndCacheWork declares the length its  *)
(* coinbase script has once the extranonces are in, and the length header   *)
(* can be read back.                                                        *)
ScriptLengthRight ==
  stage \in {"merkle", "generated"} /\ path = "fetch" =>
    /\ Decode(script.declared) =
         Len(script.heightLength) + Len(script.height) + extranonceLength + 1 + arbitrary
    /\ Decode(script.heightLength) = Len(script.height)

(* The height in the coinbase can be read back, as bytes without a sign,    *)
(* unless a byte of it between its lowest and its highest that are not 0    *)
(* is 0 (encoding.go:101-117).                                              *)
InnerZero(h) ==
  LET bytes == LittleEndian(h, 3)
  IN \E i, j, k \in 1..3 : i < j /\ j < k /\ bytes[i] # 0 /\ bytes[j] = 0 /\ bytes[k] # 0

HeightReadable == stage = "merkle" /\ ~InnerZero(height) => FromBytes(script.height) = height

scriptLength == arbitraryLength + reservedLength + Len(script.height) + 1

(* A submission counts its transactions right.  varUint panics, and the     *)
(* block is lost, for a single value: 253 transactions with the coinbase,   *)
(* or a coinbase script that declares 253 bytes, through a long signature   *)
(* or a long extranonce2 of a client (encoding.go:17-38).                   *)
CountReadable ==
  /\ stage = "done" => Decode(txCount) = count + 1
  /\ stage = "panic" => count + 1 = 253 \/ scriptLength = 253
=============================================================================

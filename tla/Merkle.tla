------------------------------- MODULE Merkle -------------------------------
(***************************************************************************)
(* The pure algorithms under files and proofs: content-defined chunking    *)
(* (cascade.py), Merkle trees over chunk hashes (merkle.py) and the fold   *)
(* of op hashes (proof.py).  A hash is the value that was hashed, so that  *)
(* two hashes are equal only when their inputs are: a leaf is <<chunk>>,   *)
(* an inner node the pair of its children, a folded head <<head, hash>>.   *)
(***************************************************************************)
EXTENDS Integers, Sequences, SequencesExt

CONSTANTS Gear,            \* the Gear table, from bytes to integers
          HashWidth, Mask, \* bits of the rolling hash, and of the part that must be zero at a cut
          MinChunk, MaxChunk

ASSUME MerkleAssumption ==
  /\ HashWidth \in Nat /\ Mask \in 0..HashWidth
  /\ MinChunk \in Nat \ {0} /\ MaxChunk \in Nat /\ MinChunk <= MaxChunk

-----------------------------------------------------------------------------
(* cascade.chunk                                                            *)

\* The rolling hash of data[from..to].
Rolling(data, from, to) ==
  LET H[i \in from - 1..to] == IF i < from THEN 0 ELSE (2 * H[i - 1] + Gear[data[i]]) % 2^HashWidth
  IN  H[to]

\* The last byte of the chunk that begins at from: the first position past the minimum
\* where the hash has its low bits zero, or the maximum, or the end.
Cut(data, from) ==
  LET limit == IF from + MaxChunk - 1 < Len(data) THEN from + MaxChunk - 1 ELSE Len(data)
      cuts  == {to \in from..limit : to - from + 1 >= MinChunk /\ Rolling(data, from, to) % 2^Mask = 0}
  IN  IF cuts = {} THEN limit ELSE CHOOSE to \in cuts : \A other \in cuts : to <= other

Chunks(data) ==
  LET From[i \in 1..Len(data) + 1] ==
        IF i > Len(data) THEN << >>
        ELSE << SubSeq(data, i, Cut(data, i)) >> \o From[Cut(data, i) + 1]
  IN  From[1]

-----------------------------------------------------------------------------
(* merkle.py                                                                *)

\* The next level up: an odd last node is paired with itself.
Above(level) ==
  [i \in 1..((Len(level) + 1) \div 2) |->
     << level[2 * i - 1], IF 2 * i <= Len(level) THEN level[2 * i] ELSE level[2 * i - 1] >>]

\* The levels of the tree over the leaves, the root alone in the last of them.
Levels(leaves) ==
  LET Up[n \in 1..Len(leaves)] ==
        IF n = 1 THEN << leaves >>
        ELSE IF Len(Last(Up[n - 1])) = 1 THEN Up[n - 1]
             ELSE Append(Up[n - 1], Above(Last(Up[n - 1])))
  IN  Up[Len(leaves)]

merkle_root(leaves) == IF leaves = << >> THEN << >> ELSE Last(Levels(leaves))[1]

\* Mutant: the sibling of a last node without one is missing from the path.
MerkleProofShort(leaves, idx) ==
  SelectSeq([n \in 1..Len(Levels(leaves)) - 1 |->
     LET level == Levels(leaves)[n]
         At[m \in 1..n] == IF m = 1 THEN idx ELSE At[m - 1] \div 2
         i     == At[n]
     IN  IF i % 2 = 1 THEN [sib |-> level[i], side |-> "L"]
         ELSE IF i + 2 <= Len(level) THEN [sib |-> level[i + 2], side |-> "R"]
         ELSE [sib |-> level[i + 1], side |-> "-"]], LAMBDA s : s.side # "-")

\* The sibling and its side at every level, from leaf idx (counted from 0) to the root.
merkle_proof(leaves, idx) ==
  LET levels == Levels(leaves)
      At[n \in 1..Len(levels)] == IF n = 1 THEN idx ELSE At[n - 1] \div 2
  IN
  [n \in 1..Len(levels) - 1 |->
     LET level == levels[n]
         i     == At[n]
     IN  IF i % 2 = 1 THEN [sib |-> level[i], side |-> "L"]
         ELSE [sib |-> IF i + 2 <= Len(level) THEN level[i + 2] ELSE level[i + 1], side |-> "R"]]

merkle_verify(leaf, path, root) ==
  LET H[i \in 0..Len(path)] ==
        IF i = 0 THEN leaf
        ELSE IF path[i].side = "R" THEN << H[i - 1], path[i].sib >> ELSE << path[i].sib, H[i - 1] >>
  IN  root = H[Len(path)]

-----------------------------------------------------------------------------
(* proof.py and the proof endpoint of server.py                             *)

fold_head(hashes, start) ==
  LET H[i \in 0..Len(hashes)] == IF i = 0 THEN start ELSE << H[i - 1], hashes[i] >>
  IN  H[Len(hashes)]

\* The proof of the op with this seq.
OpProof(hashes, seq) ==
  [hash |-> hashes[seq + 1], prev_head |-> fold_head(SubSeq(hashes, 1, seq), << >>),
   subsequent |-> SubSeq(hashes, seq + 2, Len(hashes)), head |-> fold_head(hashes, << >>)]

verify_proof(p) == p.head = fold_head(<< p.hash >> \o p.subsequent, p.prev_head)

=============================================================================

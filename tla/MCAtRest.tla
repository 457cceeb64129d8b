------------------------------ MODULE MCAtRest ------------------------------
(***************************************************************************)
(* AtRest with two keys, an empty file and one of five chunks: bytes 1, 2, a*)
(* rolling hash of four bits that cuts after an even value.                *)
(***************************************************************************)
EXTENDS AtRest, TLC

CONSTANTS m1, m2, f1

GearTable == << 1, 2 >>
Texts == { << >>, << 1, 1, 1, 1, 1, 1, 1, 2, 2, 1, 1, 2 >> }

Interchangeable == Permutations(TMKs)

=============================================================================

------------------------------ MODULE MCUthash ------------------------------
EXTENDS Uthash, TLC

\* The table only compares keys for equality, and every hash function is a start.
KeySymmetry == Permutations(Key)
=============================================================================

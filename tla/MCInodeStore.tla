----------------------------- MODULE MCInodeStore -----------------------------
(* Two files on small disks, with one direct block and two entries in a    *)
(* table.                                                                  *)
EXTENDS InodeStore, TLC

CONSTANTS f, g

MCName == {f, g}
MCSymmetry == Permutations(MCName)
=============================================================================

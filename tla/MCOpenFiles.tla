----------------------------- MODULE MCOpenFiles -----------------------------
(* Two files on a disk with five free sectors of two bytes.                *)
EXTENDS OpenFiles

CONSTANTS f, g, a

MCName == {f, g}
MCText == {<<a>>}
MCHost == (f :> <<a, a, a>>) @@ (g :> <<a, a, a>>)
MCSymmetry == Permutations(MCName)
MCOffsets == {-1, 0, 2}
MCHeap == {<<>>, <<a>>}
EmptyHeap == {<<>>}
=============================================================================

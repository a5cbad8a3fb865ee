-------------------------- MODULE MCCrlPublication --------------------------
(* Model-checking instance of CrlPublication: a root that signs CRLs, two  *)
(* certificates under it (the second able to take the first one's place),  *)
(* and, when it is in Cert, an imported root that cannot sign, with a      *)
(* child.                                                                  *)
EXTENDS CrlPublication, TLC

CONSTANTS root, leaf1, leaf2, oldRoot, oldLeaf

ParentOf(c) == CASE c \in {leaf1, leaf2} -> root
                 [] c = oldLeaf -> oldRoot
                 [] OTHER -> None

MCParent == [c \in Cert |-> ParentOf(c)]

Symmetry == Permutations(Req) \cup Permutations({leaf1, leaf2})
=============================================================================

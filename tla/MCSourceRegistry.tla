-------------------------- MODULE MCSourceRegistry --------------------------
(* Small instances of SourceRegistry: files a and b, which have different  *)
(* names and may hold c or d.                                              *)
EXTENDS SourceRegistry, TLC

CONSTANTS p1, p2, a, b, c, d

Symmetry == {f @@ g @@ h : f \in Permutations({a, b}), g \in Permutations({c, d}),
                           h \in Permutations({p1, p2})}

MCNameOf == [f \in Paths |-> f]
=============================================================================

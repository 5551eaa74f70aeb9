------------------------------ MODULE MCRefactor ------------------------------
(* Three paths, two of them taken, with links by path both ways; a vault    *)
(* with a link by basename for the run that shows what becomes of it.       *)
EXTENDS Refactor, TLC

CONSTANTS a, b, c, x, y, z, s1, s2, e1

BaseOf == a :> x @@ b :> y @@ c :> z

Short == {a :> {} @@ b :> {x} @@ c :> None}

Alike == Permutations({s1, s2})
=============================================================================

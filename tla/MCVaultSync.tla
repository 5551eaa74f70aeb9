----------------------------- MODULE MCVaultSync -----------------------------
(* Small vaults for VaultSync: two or three notes, two of them linked to.   *)
EXTENDS VaultSync, TLC

CONSTANTS a, b, c, x, y, z, u

\* x links to b, y to both notes; z is a stub without links, u cannot be parsed.
LinksOf == [t \in Texts |-> Notes \cap (CASE t = x -> {b} [] t = y -> {a, b} [] OTHER -> {})]

(* Either a rebuild is due, every note is there with text x, and the index   *)
(* is an old one, right or wrong about which links lead, or a fresh one; or  *)
(* the index mirrors any vault.                                              *)
MixedInit ==
    \/ InitWith(TRUE) /\ \A n \in Notes : disk[n] = x
    \/ InitWith(FALSE)
MixedSpec == MixedInit /\ [][Next]_vars /\ \A p \in Procs : WF_vars(Step(p))
=============================================================================

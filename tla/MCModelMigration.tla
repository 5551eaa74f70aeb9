--------------------------- MODULE MCModelMigration ---------------------------
(* Two starts of a server that ask for the same new model of one width.      *)
EXTENDS ModelMigration, TLC

MCWidth == "bge" :> 1 @@ "e5" :> 1
=============================================================================

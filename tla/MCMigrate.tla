------------------------------ MODULE MCMigrate ------------------------------
(* Constants of Migrate for model checking.                                     *)
EXTENDS Migrate

\* The first statement of the second file is an ADD COLUMN; the first file has none.
PlainStmts == {<<f, i>> \in File \X Stmt : f # 1 /\ i = 1}
OldHashOf2 == {<<f, v>> \in File \X Version : f = 2 /\ v = 1}
==============================================================================

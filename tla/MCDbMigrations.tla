--------------------------- MODULE MCDbMigrations ---------------------------
(* DbMigrations for TLC: the three migrations of db_migrations.c; the      *)
(* first, of seven statements, has two here.                               *)
EXTENDS DbMigrations

MCStatements == <<2, 1, 1>>
=============================================================================

----------------------------- MODULE MCMigrations -----------------------------
(***************************************************************************)
(* Small instances of Migrations.                                          *)
(***************************************************************************)
EXTENDS Migrations

CONSTANTS service, cli

TwoProcesses == {service, cli}

=============================================================================

---------------------------- MODULE MCMigration ----------------------------
(* Small instances of Migration for TLC. *)
EXTENDS Migration

CONSTANTS g1, g2, u1, u2

OneGuild  == {g1}
TwoGuilds == {g1, g2}
OneUser   == {u1}
TwoUsers  == {u1, u2}
=============================================================================

---------------------------- MODULE MCMigration -----------------------------
EXTENDS Migration
=============================================================================

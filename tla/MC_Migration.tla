---------------------------- MODULE MC_Migration ----------------------------
EXTENDS Migration

CONSTANTS a, b

Anywhere == {{0}, {1}}
JustA == {a}
=============================================================================

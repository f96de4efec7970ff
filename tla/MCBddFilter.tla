---------------------------- MODULE MCBddFilter ----------------------------
EXTENDS BddFilter

=============================================================================

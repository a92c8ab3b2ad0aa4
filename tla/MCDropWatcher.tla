--------------------------- MODULE MCDropWatcher ---------------------------
EXTENDS DropWatcher
=============================================================================

--------------------------- MODULE MCStackLifecycle ---------------------------
EXTENDS StackLifecycle

CONSTANTS c1, c2
=============================================================================

------------------------------- MODULE MCAging ------------------------------
EXTENDS Aging

\* The "iterations" parameter of a run bounded by time only.
MCTimed == -1
=============================================================================

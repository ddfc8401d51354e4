--------------------------- MODULE MCContentMove ---------------------------
\* ContentMove with one slot and two contents, so that every message and
\* every thread competes for the same session.
EXTENDS ContentMove
=============================================================================

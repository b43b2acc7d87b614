--------------------------- MODULE MCSegmentQueue ---------------------------
\* Values for the runs of SegmentQueue are given in its .cfg files.
EXTENDS SegmentQueue

Cancel == {"canceled"}
CancelOrDeadline == {"canceled", "deadline"}
Never == {}
=============================================================================

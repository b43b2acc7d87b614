--------------------------- MODULE MCWorkStealing ---------------------------
\* Values for the runs of WorkStealing are given in its .cfg files.
EXTENDS WorkStealing

Cancel == {"canceled"}
CancelOrDeadline == {"canceled", "deadline"}
Never == {}
=============================================================================

-------------------------- MODULE MCAgentServices --------------------------
\* Values for the runs of AgentServices are given in its .cfg files.
EXTENDS AgentServices

CONSTANTS client1, client2, stream1, stream2, capture1

Clients == {client1, client2}
OneStream == {stream1}
TwoStreams == {stream1, stream2}
OneCapture == {capture1}
Everybody == Clients \union (1 .. 2)
=============================================================================

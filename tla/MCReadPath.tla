------------------------------ MODULE MCReadPath ------------------------------
\* The way of what is read, with a pool that gives a buffer to the next who asks.
EXTENDS ReadPath

MCPartSizes == <<1>>
MCPeer == <<<<1>>, <<2, 2>>, <<3>>>>
MCSpec == ReadInit /\ PacketsInit /\ [][ReadNext /\ UNCHANGED router]_<<readVars, router>>
=============================================================================

----------------------------- MODULE MCIdleWarden -----------------------------
\* A server alone, and a server with a client.
EXTENDS IdleWarden
MCShapes == {{"server"}, {"client", "server"}}
===============================================================================

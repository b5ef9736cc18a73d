----------------------------- MODULE MCKeepAlive -----------------------------
\* Instances of KcpKeepAlive for TLC.
EXTENDS KcpKeepAlive
==============================================================================

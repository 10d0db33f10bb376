----------------------------- MODULE MCShutdown -----------------------------
EXTENDS Shutdown
=============================================================================

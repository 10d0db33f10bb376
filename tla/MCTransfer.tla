----------------------------- MODULE MCTransfer -----------------------------
EXTENDS Transfer
=============================================================================

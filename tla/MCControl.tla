------------------------------ MODULE MCControl ------------------------------
EXTENDS Control

Config(r, g) == [role |-> r, send_grease |-> g]
MCConfigs == {Config("client", FALSE), Config("server", FALSE), Config("server", TRUE)}
PlainServer == {Config("server", FALSE)}
GreasingServer == {Config("server", TRUE)}
=============================================================================

-------------------------- MODULE MCConnectionPool --------------------------
EXTENDS ConnectionPool

CONSTANTS announce, command, relay1, relay2, tokens, sequence
=============================================================================

---- MODULE MCPgPool ----
EXTENDS PgPool, TLC

CONSTANTS r1, c1
====

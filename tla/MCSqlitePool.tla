----------------------------- MODULE MCSqlitePool -----------------------------
(* Instances of SqlitePool: threads and connections are model values.      *)
EXTENDS SqlitePool

CONSTANTS t1, t2, t3, t4
=============================================================================

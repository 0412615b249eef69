--------------------------- MODULE MCSqliteServer ---------------------------
(* A small instance of SqliteServer.                                         *)
EXTENDS SqliteServer

\* Value for Cron: one entry with two ticks, so that both can be overdue at once,
\* and one that has its turn behind it, due together with the second of them.
TwoEntries == <<{2, 3}, {3}>>
=============================================================================

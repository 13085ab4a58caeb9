-------------------------- MODULE MCOfflineReport ---------------------------
EXTENDS OfflineReport

\* Commands 1 and 2 have the same id (a cid that came round again to the same
\* blocks), 3 the same key with other blocks.
MCKeyOf(c) == "k1"
MCCmdOf(c) == IF c = 3 THEN "lba2" ELSE "lba1"
MCTimes == -4..4
=============================================================================

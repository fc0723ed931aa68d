--------------------------- MODULE MCScanService ---------------------------
EXTENDS ScanService

Ids == 1 .. NScans

\* The run about slots leaves out what no slot depends on: progress saves and
\* the erasing of files (a purge still removes its entry).
SlotsOnly == snapshot = [s \in Scans |-> FALSE] /\ erasing = {}
=============================================================================

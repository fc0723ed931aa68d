--------------------------- MODULE MCScanRepository ---------------------------
(* One scan (no transaction reads another scan's rows), two editors.         *)
EXTENDS ScanRepository, TLC

Symmetry == Permutations(Editors)
===============================================================================

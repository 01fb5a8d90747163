---------------------------- MODULE MCStatusList ----------------------------
(***************************************************************************)
(* Lists that end inside a byte, at its end and after it, with indexes on  *)
(* both sides of a byte's border.                                          *)
(***************************************************************************)
EXTENDS StatusList

MCSizes == {-1, 0, 1, 5, 8, 9}
MCWidths == {1, 2, 3, 4, 8}
MCIndexes == {-1, 0, 1, 4, 8, 9}
MCValues == {{}, {0}, {1}, {8}}
MCListSizes == {0, 1, 5, 8, 9, 10, 16, 17}
=============================================================================

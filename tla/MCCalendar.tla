----------------------------- MODULE MCCalendar -----------------------------
(* Every day to the end of 2047; both ends and the middle of it; the zones *)
(* from one end of the world to the other, those of half and of three      *)
(* quarters of an hour among them.                                         *)
EXTENDS Calendar

TheZones == {-48, -14, 0, 23, 36, 56}
=============================================================================

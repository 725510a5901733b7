------------------------------- MODULE MCIvr -------------------------------
(* Small instances of the IVR.                                              *)
EXTENDS IvrProps, TLC

CONSTANTS a, b

\* Sector 1 has an agent, any other has none.
FirstSector == [o \in Options |-> IF o = 1 THEN {a} ELSE {}]
=============================================================================

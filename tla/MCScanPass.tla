----------------------------- MODULE MCScanPass -----------------------------
(***************************************************************************)
(* ScanPass with string names for keys.                                    *)
(***************************************************************************)
EXTENDS ScanPass

MCKeys == {"a", "b"}
=============================================================================

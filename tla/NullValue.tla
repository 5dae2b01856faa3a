----------------------------- MODULE NullValue -----------------------------
(* null and undefined, in the three modules about the voice hook: one value, *)
(* so that a run can extend all of them.                                    *)
CONSTANT None
=============================================================================

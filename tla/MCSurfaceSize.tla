--------------------------- MODULE MCSurfaceSize ---------------------------
(* Small instances of SurfaceSize for TLC. *)
EXTENDS SurfaceSize

TwoWidths == {1, 2}
=============================================================================

-------------------------- MODULE MCSurfacePipeline --------------------------
(* Small instances of SurfacePipeline for TLC. *)
EXTENDS SurfacePipeline

CONSTANTS root, a, b, i1

NoIds        == {}
TwoChildren  == {a, b}
OneItem      == {i1}
RootAndChild == {root, a}
=============================================================================

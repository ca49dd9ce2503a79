-------------------------- MODULE MCEngineLifecycle --------------------------
(* Small instances of EngineLifecycle for TLC. *)
EXTENDS EngineLifecycle

CONSTANTS l1, l2

OneListener  == {l1}
TwoListeners == {l1, l2}
=============================================================================

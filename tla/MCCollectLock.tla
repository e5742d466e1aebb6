---------------------------- MODULE MCCollectLock ----------------------------
(***************************************************************************)
(* Constants for model checking CollectLock.                               *)
(***************************************************************************)
EXTENDS CollectLock

CONSTANTS tick, button, second

ThreeCollections == {tick, button, second}
=============================================================================

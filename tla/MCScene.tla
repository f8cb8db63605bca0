------------------------------ MODULE MCScene ------------------------------
(***************************************************************************)
(* Scene for TLC.  A delay below the interval and one above it, holds that *)
(* stay below the ceiling and that go past it, and a cap of two frames.    *)
(***************************************************************************)
EXTENDS Scene
=============================================================================

-------------------------- MODULE MCControlServer --------------------------
(***************************************************************************)
(* ControlServer for TLC, with every route of the registry.                *)
(***************************************************************************)
EXTENDS ControlServer

AllRouteIds == {route.id : route \in Routes}
=============================================================================

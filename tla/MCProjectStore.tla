---------------------------- MODULE MCProjectStore ----------------------------
(* Small instances of ProjectStore for TLC. *)
EXTENDS ProjectStore, TLC

CONSTANTS amp, blinky, clock, dirA

\* The project amp is linked to dirA, blinky is not linked, clock is free.
LinkedAndNot == amp :> dirA @@ blinky :> NoDir @@ clock :> NoProject

\* The folder dirA is amp's.
OwnFolder == dirA :> amp
===============================================================================

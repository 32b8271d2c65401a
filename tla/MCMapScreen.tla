---------------------------- MODULE MCMapScreen ----------------------------
(* A small instance of MapScreen for TLC. *)
EXTENDS MapScreen

\* Two pieces of art with a position and, between them, one without,
\* unless all have one.
MCArt == 1..3
MCPlace == <<10, 100, 700>>
MCUnlocated == {2}
MCAllLocated == {}
MCSpots == {0, 650}
=============================================================================

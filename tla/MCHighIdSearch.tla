---------------------------- MODULE MCHighIdSearch ----------------------------
(* Two searches, a port they both may ask for and one the system may give. *)
EXTENDS HighIdSearch

CONSTANTS s1, s2, fixed, free

MCSearches == {s1, s2}
MCPorts == {fixed, free}
=============================================================================

----------------------------- MODULE MCDestinationDB -----------------------------
(* Three processes on two hosts: one that overlaps another, and one that finds  *)
(* what the two have left.                                                      *)
EXTENDS DestinationDB

CONSTANTS p1, p2, p3, h1, h2

MCProcs == {p1, p2, p3}
MCHosts == {h1, h2}
=============================================================================

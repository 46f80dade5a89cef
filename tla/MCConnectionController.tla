-------------------------- MODULE MCConnectionController -------------------------
(* One connect() and two disconnect()s on one controller overlap in every way;  *)
(* the second controller shows that the calls on one do not reach the other.    *)
EXTENDS ConnectionController
CONSTANTS c1, c2, t1, t2, t3

MCControllers == {c1, c2}
MCThreads == {t1, t2, t3}
=============================================================================

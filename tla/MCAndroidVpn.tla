------------------------------ MODULE MCAndroidVpn ------------------------------
(* Three taps connect, disconnect and connect again, or connect three times;    *)
(* the process dies once, at any point.                                         *)
EXTENDS AndroidVpn

MCMaxTaps == 3
MCMaxKills == 1
=============================================================================

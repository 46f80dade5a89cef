------------------------------- MODULE MCProxyLoop ------------------------------
(* Three restarts: one may fail, the next succeed and its xray die again.       *)
EXTENDS ProxyLoop

MCMaxManagers == 4
MCSmokeTries == 3
=============================================================================

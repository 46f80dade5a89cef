------------------------------ MODULE MCGuiSession ------------------------------
(* Four clicks, enough to connect, fail, disconnect and connect again.          *)
EXTENDS GuiSession
CONSTANTS c1, c2, c3, c4, t1, t2, t3, t4

MCControllers == {c1, c2, c3, c4}
MCThreads == {t1, t2, t3, t4}
MCTwoThreads == {t1, t2}
MCTwoControllers == {c1, c2}
=============================================================================

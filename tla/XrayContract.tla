------------------------------ MODULE XrayContract ------------------------------
(* What XrayManager.start() and stop() may answer to the component that calls   *)
(* them, for the modules whose threads do (ConnectionController, ProxyLoop) and *)
(* for the abstract specification ManagedXray that XrayManager is shown to      *)
(* implement.  "live" is a child nobody has sent SIGKILL to and that has not    *)
(* exited.                                                                      *)

(* {"ok": True}, {"ok": False}, and an exception.                               *)
Answers == {"ok", "failed", "raised"}

(* start() answers ok after one successful probe of the port, and the child may *)
(* have died since; when it answers that it failed, no child of it is live.  An *)
(* exception promises nothing: Popen() raises before there is a child, but the  *)
(* start of its stderr thread and the signal of stop() raise beside a live one. *)
StartOutcomes == [answer : {"failed"}, live : {FALSE}]
                   \cup [answer : {"ok", "raised"}, live : BOOLEAN]

(* A Ctrl+C that lands inside start() unwinds it with whatever child it had.    *)
InterruptOutcomes == [answer : {"interrupted"}, live : BOOLEAN]

(* stop() comes back when no child is live; it raises only when it has a live   *)
(* child to signal and the operating system refuses the signal.                 *)
StopOutcomes(live) == [answer : {"stopped"}, live : {FALSE}]
                        \cup [answer : {"raised"}, live : {l \in {TRUE} : live}]
=============================================================================

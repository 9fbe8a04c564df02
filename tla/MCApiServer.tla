---------------------------- MODULE MCApiServer ----------------------------
(* Two requests for one permit and two threads: enough for a request that  *)
(* waits, a generation whose client has left, and polls that wait for a    *)
(* thread.  Requests and threads are model values.                         *)
EXTENDS ApiServer
=============================================================================

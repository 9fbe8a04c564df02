----------------------------- MODULE MCServerHost -----------------------------
(* Two blocks, of which the server holds one, and two pids. *)
EXTENDS ServerHost

MCWindows == {<<1, 1>>, <<2, 2>>}
================================================================================

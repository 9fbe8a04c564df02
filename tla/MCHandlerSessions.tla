---------------------------- MODULE MCHandlerSessions ----------------------------
(* Two handlers, one session with an id and one without, two steps *)
EXTENDS HandlerSessions

CONSTANTS h1, h2, s1, s2

MCHandlers == {h1, h2}
MCSessions == {s1, s2}
MCAnonymous == {s2}
================================================================================

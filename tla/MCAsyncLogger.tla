---- MODULE MCAsyncLogger ----
(* Instance of AsyncLogger: three calls of Write for a buffer of two.       *)
EXTENDS AsyncLogger

CONSTANTS e1, e2, e3
====

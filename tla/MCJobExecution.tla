--------------------------- MODULE MCJobExecution ---------------------------
(***************************************************************************)
(* The deployment TLC checks JobExecution on.  Executors "w1", "w2" are    *)
(* tasks of the worker process, "r1" is a background task of the web       *)
(* server; operators "ui" (the browser, in the web server's process) and   *)
(* "cli" (a shell).  Each configuration uses the ones its question needs.  *)
(***************************************************************************)
EXTENDS JobExecution

MCProcessOf ==
  [a \in Executors \cup Operators |->
     CASE a \in {"w1", "w2"} -> "worker"
       [] a \in {"r1", "ui"} -> "web"
       [] a = "cli"          -> "shell"]

\* The tasks of one worker claim with its worker_id, Run Now with an id of its
\* own.
MCWorkerIdOf ==
  [e \in Executors |-> IF e = "r1" THEN "web-run-now" ELSE "worker-id"]
=============================================================================

---------------------------- MODULE MCWorkerLoop ----------------------------
(***************************************************************************)
(* An instance of WorkerLoop.  Two jobs of a backend that takes one at a   *)
(* time and fails in two ways, and one of a backend that takes two; before *)
(* them ten jobs of a backend that is not enabled, which fill the list of  *)
(* a worker with two slots.                                                *)
(***************************************************************************)
EXTENDS WorkerLoop

MCBackendOf == <<"off", "off", "off", "off", "off", "off", "off", "off", "off", "off",
                 "api", "api", "cli">>
MCPriority == <<0, 0, 0, 0, 0, 0, 0, 0, 0, 0, 0, 1, 0>>
MCLimit == [off |-> 1, api |-> 1, cli |-> 2]

\* A rate limit without a typed body, and an error that is final.
MCFailures ==
  [off |-> {},
   api |-> {[kind |-> "http", status |-> 429, typed |-> FALSE],
            [kind |-> "permanent", status |-> 0, typed |-> FALSE]},
   cli |-> {}]

\* No header, and a date that has passed.
MCHeaders == {[form |-> "absent", value |-> 0], [form |-> "date", value |-> -2]}
=============================================================================

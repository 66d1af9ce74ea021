------------------------- MODULE MCProcessTransport -------------------------
(* Small instances of ProcessTransport. *)
EXTENDS ProcessTransport

CONSTANT MaxStdout, MaxStderr

MCMaxSent == [s \in {"stdout", "stderr"} |-> IF s = "stdout" THEN MaxStdout ELSE MaxStderr]
=============================================================================

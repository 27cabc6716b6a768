--------------------------- MODULE MCWorkerRuntime ---------------------------
\* A worker process with two requests, two readiness probes and one recovery.
EXTENDS WorkerRuntime
=============================================================================

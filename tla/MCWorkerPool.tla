----------------------------- MODULE MCWorkerPool -----------------------------
EXTENDS WorkerPool, TLC

CONSTANTS r1, r2, r3
=============================================================================

---------------------------- MODULE MCWorkerLink ----------------------------
(* Small instances of WorkerLink: two desired states, and a few of each    *)
(* thing the environment may do.                                           *)
EXTENDS WorkerLink

CONSTANTS d1, d2
=============================================================================

---------------------------- MODULE MCHttpServer ----------------------------
(* HttpServer for TLC.                                                     *)
EXTENDS HttpServer, TLC

\* The workers are interchangeable: no action or invariant names one.
WorkerSymmetry == Permutations(Workers)

=============================================================================

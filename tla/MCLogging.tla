----------------------------- MODULE MCLogging ------------------------------
(***************************************************************************)
(* Logging with the messages and their sizes for TLC.                      *)
(***************************************************************************)
EXTENDS Logging

CONSTANTS p1, p2, worker1

MCMessage == {Msg(t, n, k) : t \in Threads, n \in 1..(MaxCalls + 1),
                            k \in {"log", "flush", "terminate"}}

\* p2 writes long records, which may be cut.
MCBytes(rec) == IF "of" \in DOMAIN rec THEN rec.bytes ELSE IF rec.from = p2 THEN 2 ELSE 1
=============================================================================

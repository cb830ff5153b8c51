--------------------------- MODULE MC_SigsumRelay ---------------------------
(* The relay with a few calls, isolates and callers.                       *)
EXTENDS SigsumRelay, TLC

Symmetric ==
    Permutations(Request) \cup Permutations(Isolate) \cup Permutations(Caller)

\* With several isolates: one session call, then submissions that carry what it
\* sealed or nothing. GET calls and refusals touch no state of an isolate, and
\* the other forms of an artifact are met on one isolate.
OneSession ==
    /\ Cardinality({r \in Request : kind[r] = "session"}) <= 1
    /\ \A r \in Request :
          /\ kind[r] = "read" => pc[r] = "idle"
          /\ art[r].form \in {"sealed", "absent"}
          /\ reply[r].status \notin {"refused", "bad", "timeout"}
=============================================================================

------------------------------- MODULE MCEgress -------------------------------
(* Finite instances of Egress for TLC.                                     *)
EXTENDS Egress, TLC

Reply(m, v, r, a, n) == [method |-> m, version |-> v, rep |-> r, atyp |-> a, len |-> n]

\* A success with each kind of bound address, each refusal, each malformation.
MCScripts ==
    {Reply(TRUE, TRUE, "ok", "v4", 0), Reply(TRUE, TRUE, "ok", "name", 2),
     Reply(TRUE, TRUE, "ok", "unknown", 0), Reply(TRUE, TRUE, "denied", "v4", 0),
     Reply(TRUE, TRUE, "other", "v4", 0), Reply(TRUE, FALSE, "ok", "v4", 0),
     Reply(FALSE, TRUE, "ok", "v4", 0)}

\* Both variables are set, or only the supervisor's directory is.
MCEnvs == {[v \in {"socket", "dir"} |-> IF v = "dir" THEN p ELSE q] :
              p \in {CHOOSE x \in Paths : TRUE}, q \in {NoPath} \cup (Paths \ {CHOOSE x \in Paths : TRUE})}
===============================================================================

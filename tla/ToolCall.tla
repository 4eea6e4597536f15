------------------------------ MODULE ToolCall ------------------------------
(***************************************************************************)
(* What AssemblerClient promises the code that calls invoke(): calls are   *)
(* made one at a time, the tool behind a call runs at most MaxAttempts     *)
(* times, it never starts after the caller was given a verdict, and a      *)
(* caller is told "answered" only when the tool really ran for that call.  *)
(* AssemblerClient.tla refines this module.                                *)
(***************************************************************************)
EXTENDS Naturals

CONSTANTS Requests,     \* the tool calls a caller makes, one per request_id
          MaxAttempts   \* how often one call may reach the Assembler

VARIABLES status,       \* what the caller knows of each call
          runs          \* how often the tool behind each call has run

callVars == <<status, runs>>

Init == /\ status = [r \in Requests |-> "new"]
        /\ runs = [r \in Requests |-> 0]

\* The client is synchronous: a call starts when no other call is pending.
Begin(r) == /\ status[r] = "new"
            /\ \A q \in Requests : status[q] # "pending"
            /\ status' = [status EXCEPT ![r] = "pending"]
            /\ UNCHANGED runs

\* The tool runs while the caller waits, or late, for a caller that gave up
\* waiting: never for a call that has a verdict or that failed.
Run(r) == /\ status[r] \in {"pending", "timeout"}
          /\ runs[r] < MaxAttempts
          /\ runs' = [runs EXCEPT ![r] = @ + 1]
          /\ UNCHANGED status

\* The caller learns how its call ended. An answer means that the tool ran.
Finish(r, how) == /\ status[r] = "pending"
                  /\ how = "answered" => runs[r] > 0
                  /\ status' = [status EXCEPT ![r] = how]
                  /\ UNCHANGED runs

Next == \E r \in Requests :
           \/ Begin(r)
           \/ Run(r)
           \/ \E how \in {"answered", "rejected", "timeout", "failed"} : Finish(r, how)

Spec == Init /\ [][Next]_callVars
=============================================================================

-------------------------- MODULE FailoverContract --------------------------
(***************************************************************************)
(* What the failover client promises its callers, with no clock, no        *)
(* counters and no streams (the "Failover semantics" list at the head of   *)
(* runtime/llm_client.py):                                                 *)
(*   - a request starts at the primary unless the primary is known down;   *)
(*   - a request that meets a failure of the primary makes it known down   *)
(*     and goes on to the fallback;                                        *)
(*   - a success of the primary makes it known up again, and so does the   *)
(*     end of the cooldown.                                                *)
(* LLMFailover implements this specification.                              *)
(***************************************************************************)
CONSTANTS Requests

VARIABLES down, at

cvars == <<down, at>>

Places == {"idle", "primary", "fallback"}

CInit == down = FALSE /\ at = [r \in Requests |-> "idle"]

\* A request is issued: its first stop depends on what is known of the primary.
Route(r) ==
    /\ at[r] = "idle"
    /\ at' = [at EXCEPT ![r] = IF down THEN "fallback" ELSE "primary"]
    /\ UNCHANGED down

\* The primary failed this request: it is known down before the retry starts.
Trip(r) ==
    /\ at[r] = "primary"
    /\ at' = [at EXCEPT ![r] = "fallback"]
    /\ down' = TRUE

\* The primary served this request.
Settle(r) ==
    /\ at[r] = "primary"
    /\ at' = [at EXCEPT ![r] = "idle"]
    /\ down' = FALSE

\* A request ends without telling anything about the primary: an error that is
\* not a sign of an outage, a cancellation, or any end at the fallback.
Finish(r) ==
    /\ at[r] # "idle"
    /\ at' = [at EXCEPT ![r] = "idle"]
    /\ UNCHANGED down

\* The cooldown ends.
Expire ==
    /\ down
    /\ down' = FALSE
    /\ UNCHANGED at

CNext ==
    \/ Expire
    \/ \E r \in Requests : Route(r) \/ Trip(r) \/ Settle(r) \/ Finish(r)

CSpec == CInit /\ [][CNext]_cvars
=============================================================================

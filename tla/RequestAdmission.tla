-------------------------- MODULE RequestAdmission --------------------------
(***************************************************************************)
(* The way of an HTTP request to its handler: RateLimitMiddleware, then    *)
(* get_current_principal. A request with a bearer token is counted by the  *)
(* limiter and then needs nothing of the state modelled here; one without  *)
(* goes on to the development principal.                                   *)
(***************************************************************************)
EXTENDS SlidingWindow, DevelopmentPrincipal

CONSTANTS
  ClientOf,        \* request.client.host of the requests without a token
  TokenClients     \* the clients that send requests with a token

ASSUME AdmissionAssumption ==
  /\ ClientOf \in [Requests -> Clients]
  /\ TokenClients \subseteq Clients

VARIABLE gate          \* how far a request without a token is with the middleware

admissionVars == <<limiterVars, vars, gate>>

AdmissionInit ==
  /\ LimiterInit
  /\ Init
  /\ gate = [r \in Requests |-> "sent"]

\* dispatch: the handler is called, or the answer is 429.
Dispatch(r) ==
  /\ gate[r] = "sent"
  /\ \/ Admit(ClientOf[r]) /\ gate' = [gate EXCEPT ![r] = "called"]
     \/ Refuse(ClientOf[r]) /\ gate' = [gate EXCEPT ![r] = "refused"]
  /\ UNCHANGED vars

DispatchWithToken(c) == Allow(c) /\ UNCHANGED <<vars, gate>>

Call(r) == gate[r] = "called" /\ Request(r) /\ UNCHANGED <<limiterVars, gate>>

AdmissionNext ==
  \/ Tick /\ UNCHANGED <<vars, gate>>
  \/ \E c \in TokenClients : DispatchWithToken(c)
  \/ \E r \in Requests : Dispatch(r) \/ Call(r)

AdmissionSpec ==
  /\ AdmissionInit
  /\ [][AdmissionNext]_admissionVars
  /\ \A r \in Requests : WF_admissionVars(Dispatch(r)) /\ WF_admissionVars(Call(r))
-----------------------------------------------------------------------------
AdmissionTypeOK ==
  /\ LimiterTypeOK
  /\ TypeOK
  /\ gate \in [Requests -> {"sent", "called", "refused"}]
  /\ \A r \in Requests : pc[r] # "start" => gate[r] = "called"

(* Every request is answered: refused by the limiter, or through its handler, which
   waits for the transaction of another request only until that ends. *)
EveryRequestIsAnswered ==
  \A r \in Requests : <>(gate[r] = "refused" \/ pc[r] \in {"ended", "conflict", "ambiguous"})
=============================================================================

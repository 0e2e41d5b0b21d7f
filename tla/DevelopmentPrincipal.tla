----------------------- MODULE DevelopmentPrincipal -----------------------
(***************************************************************************)
(* The development principal: _development_principal of app.core.auth and  *)
(* _default_principal of app.main look for the tenant "Development Tenant" *)
(* and the user developer@bayenat.local and create what is missing. Every  *)
(* request does so in a transaction of its own and in a thread of its own; *)
(* a request sees what others have committed and what it wrote itself.     *)
(* The e-mail of a user is unique, the name of a tenant is not.            *)
(*                                                                         *)
(* A request inserts at most one tenant: a tenant is named by the request  *)
(* that made it.                                                           *)
(***************************************************************************)
EXTENDS Integers, Sequences, FiniteSets

CONSTANTS Requests, None

ASSUME PrincipalAssumption == None \notin Requests

VARIABLES
  tenants,     \* the committed development tenants, in the order of their commits
  user,        \* the committed user: its tenant, or None
  inserted,    \* the request whose uncommitted insert holds the e-mail, or None
  pc,
  tenant       \* the tenant each request uses, or None

vars == <<tenants, user, inserted, pc, tenant>>

TypeOK ==
  /\ tenants \in Seq(Requests)
  /\ user \in Requests \cup {None}
  /\ inserted \in Requests \cup {None}
  /\ pc \in [Requests -> {"start", "noTenant", "tenant", "noUser", "handler", "ended",
                          "conflict", "ambiguous"}]
  /\ tenant \in [Requests -> Requests \cup {None}]

Init ==
  /\ tenants = <<>>
  /\ user = None
  /\ inserted = None
  /\ pc = [r \in Requests |-> "start"]
  /\ tenant = [r \in Requests |-> None]

Goto(r, from, to) == pc[r] = from /\ pc' = [pc EXCEPT ![r] = to]

\* one_or_none: the tenant, nothing, or MultipleResultsFound.
SelectTenant(r) ==
  /\ \/ tenants = <<>> /\ Goto(r, "start", "noTenant") /\ UNCHANGED tenant
     \/ /\ Len(tenants) = 1
        /\ Goto(r, "start", "tenant")
        /\ tenant' = [tenant EXCEPT ![r] = tenants[1]]
     \/ Len(tenants) > 1 /\ Goto(r, "start", "ambiguous") /\ UNCHANGED tenant
  /\ UNCHANGED <<tenants, user, inserted>>

\* Mutant: the new tenant has no id yet, it was not flushed.
InsertTenantUnflushed(r) ==
  /\ Goto(r, "noTenant", "tenant")
  /\ tenant' = [tenant EXCEPT ![r] = "unflushed"]
  /\ UNCHANGED <<tenants, user, inserted>>

InsertTenant(r) ==
  /\ Goto(r, "noTenant", "tenant")
  /\ tenant' = [tenant EXCEPT ![r] = r]
  /\ UNCHANGED <<tenants, user, inserted>>

SelectUser(r) ==
  /\ Goto(r, "tenant", IF user = None THEN "noUser" ELSE "handler")
  /\ UNCHANGED <<tenants, user, inserted, tenant>>

\* Mutant: e-mail addresses are not unique.
InsertUserNotUnique(r) ==
  /\ Goto(r, "noUser", "handler")
  /\ inserted' = r
  /\ UNCHANGED <<tenants, user, tenant>>

\* The insert waits for another one of the same e-mail, and fails once it is committed.
InsertUser(r) ==
  /\ inserted = None
  /\ \/ user = None /\ Goto(r, "noUser", "handler") /\ inserted' = r
     \/ user # None /\ Goto(r, "noUser", "conflict") /\ UNCHANGED inserted
  /\ UNCHANGED <<tenants, user, tenant>>

\* _default_principal finds what is there by now; the handler commits or closes the
\* session without.
EndCommitting(r) ==
  /\ Goto(r, "handler", "ended")
  /\ tenants' = IF tenant[r] = r THEN Append(tenants, r) ELSE tenants
  /\ user' = IF inserted = r THEN tenant[r] ELSE user
  /\ inserted' = IF inserted = r THEN None ELSE inserted
  /\ UNCHANGED tenant

\* Mutant: the session is not closed.
EndWithoutClose(r) ==
  /\ Goto(r, "handler", "ended")
  /\ UNCHANGED <<tenants, user, inserted, tenant>>

EndRollingBack(r) ==
  /\ Goto(r, "handler", "ended")
  /\ inserted' = IF inserted = r THEN None ELSE inserted
  /\ UNCHANGED <<tenants, user, tenant>>

Request(r) ==
  \/ SelectTenant(r) \/ InsertTenant(r) \/ SelectUser(r) \/ InsertUser(r)
  \/ EndCommitting(r) \/ EndRollingBack(r)

Next == \E r \in Requests : Request(r)

Spec == Init /\ [][Next]_vars
-----------------------------------------------------------------------------
(* The user belongs to the development tenant that was committed first: losing the
   race for the user never leaves the winner's user without its tenant. *)
UserOwnsFirstTenant == user # None => tenants # <<>> /\ tenants[1] = user

(* There is one development tenant: one_or_none is used to look it up. *)
OneDevelopmentTenant == Len(tenants) <= 1
=============================================================================

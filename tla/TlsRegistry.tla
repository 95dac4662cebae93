----------------------------- MODULE TlsRegistry -----------------------------
(***************************************************************************)
(* Which certificate is whose: the regional certificates in ACM, the SSM   *)
(* registry with one ARN per region, the regions retired from the          *)
(* configuration, and the invocations of the certificate manager that keep *)
(* them in step (one at a time, its reserved concurrency is 1) while       *)
(* CloudFormation changes the configured regions, rolls changes back and   *)
(* deletes the deployment.                                                 *)
(*                                                                         *)
(* What the certificates contain is TlsRollover's part: a reimport under   *)
(* the same ARN changes nothing here.                                      *)
(***************************************************************************)
EXTENDS Naturals, FiniteSets

CONSTANTS
  Regions,
  NoRegion,
  MaxCerts,        \* bound: ARNs that ACM hands out, in their order
  Configurations,  \* the sets of regions a deployment may name
  MaxDeployments,  \* bound: changes of the configuration
  MaxFaults        \* bound: calls that fail and invocations that die

ASSUME RegistryAssumption ==
  /\ NoRegion \notin Regions /\ MaxCerts \in Nat /\ Configurations \subseteq SUBSET Regions
  /\ MaxDeployments \in Nat /\ MaxFaults \in Nat

Certs == 1..MaxCerts
NoCert == 0

VARIABLES
  acm,       \* the managed certificates of each region
  registry,  \* the registered ARN of each region
  attached,  \* the certificate the region's load balancer serves
  issued,    \* how many ARNs were handed out
  retries,   \* imports the client library sent twice, by region
  retired,   \* retired_regions in the Secret
  stack,     \* CloudFormation: its phase, the regions it is leaving and reaching
  env,       \* the regions in the function's environment
  call,      \* the invocation
  bounds     \* deployments and faults so far

registryVars == <<acm, registry, attached, issued, retries, retired, stack, env, call, bounds>>

(* creating, updating: the function has its new environment, the custom    *)
(* resource has not been told yet; rolling: it is to be told the old       *)
(* regions again; gone: deleted without asking the function.               *)
Phases == {"creating", "steady", "updating", "rolling", "deleting", "deleted", "gone"}
Kinds == {"none", "Rotate", "Update", "Delete"}
Points == {"leaves", "register", "compensate", "retire", "clean", "unregister", "save"}

RegistryTypeOK ==
  /\ acm \in [Regions -> SUBSET Certs]
  /\ registry \in [Regions -> Certs \union {NoCert}]
  /\ attached \in [Regions -> Certs \union {NoCert}]
  /\ issued \in 0..MaxCerts
  /\ retries \in [Regions -> Nat]
  /\ retired \in SUBSET Regions
  /\ stack \in [phase: Phases, from: SUBSET Regions, to: SUBSET Regions]
  /\ env \in SUBSET Regions
  /\ call \in [kind: Kinds, at: Points, active: SUBSET Regions, newly: SUBSET Regions,
               todo: SUBSET Regions, remaining: SUBSET Regions,
               region: Regions \union {NoRegion}, cert: Certs \union {NoCert}]
  /\ bounds \in [deployments: 0..MaxDeployments, faults: 0..MaxFaults]

NoCall == [kind |-> "none", at |-> "leaves", active |-> {}, newly |-> {}, todo |-> {},
           remaining |-> {}, region |-> NoRegion, cert |-> NoCert]

RegistryInit ==
  /\ acm = [r \in Regions |-> {}]
  /\ registry = [r \in Regions |-> NoCert]
  /\ attached = [r \in Regions |-> NoCert]
  /\ issued = 0
  /\ retries = [r \in Regions |-> 0]
  /\ retired = {}
  /\ \E c \in Configurations : stack = [phase |-> "creating", from |-> {}, to |-> c] /\ env = c
  /\ call = NoCall
  /\ bounds = [deployments |-> 0, faults |-> 0]

NoFault == UNCHANGED bounds
Fault == bounds.faults < MaxFaults /\ bounds' = [bounds EXCEPT !.faults = @ + 1]
-----------------------------------------------------------------------------
(* CloudFormation and the regional stacks.                                 *)
Free == call.kind = "none"
certVars == <<acm, registry, issued, retries, retired>>

Deploy(c) ==
  /\ Free /\ stack.phase = "steady" /\ c # stack.to
  /\ bounds.deployments < MaxDeployments
  /\ bounds' = [bounds EXCEPT !.deployments = @ + 1]
  /\ stack' = [phase |-> "updating", from |-> stack.to, to |-> c]
  /\ env' = c
  /\ UNCHANGED <<certVars, attached, call>>

(* Another resource of the stack fails before this one is told.            *)
Abandon ==
  /\ Free /\ stack.phase = "updating" /\ Fault
  /\ stack' = [stack EXCEPT !.phase = "steady", !.to = stack.from]
  /\ env' = stack.from
  /\ UNCHANGED <<certVars, attached, call>>

(* Also when a rollback failed, at this resource or at another one before  *)
(* it: the function is then told of the old regions only.                  *)
Destroy ==
  /\ Free /\ stack.phase \in {"steady", "rolling"}
  /\ stack' = [phase |-> "deleting", from |-> {},
               to |-> IF stack.phase = "rolling" THEN stack.from ELSE stack.to]
  /\ UNCHANGED <<certVars, attached, env, call, bounds>>

Invoke(kind, active, newly) ==
  call' = [NoCall EXCEPT !.kind = kind, !.active = active, !.newly = newly, !.todo = active]

(* A rollback names the attempted regions as the old ones.                 *)
Told ==
  /\ Free
  /\ \/ stack.phase = "creating" /\ Invoke("Update", stack.to, {})
     \/ stack.phase = "updating" /\ Invoke("Update", stack.to, stack.from \ stack.to)
     \/ stack.phase = "rolling" /\ Invoke("Update", stack.from, stack.to \ stack.from)
  /\ UNCHANGED <<certVars, attached, stack, env, bounds>>

(* The rule is made after the custom resource and removed before it.       *)
Scheduled ==
  /\ Free /\ stack.phase \in {"steady", "updating", "rolling"}
  /\ Invoke("Rotate", env, {})
  /\ UNCHANGED <<certVars, attached, stack, env, bounds>>

(* A load balancer takes the registered ARN when its stack is deployed.    *)
Attach(r) ==
  /\ stack.phase = "steady" /\ r \in stack.to /\ attached[r] = NoCert
  /\ registry[r] \in acm[r]
  /\ attached' = [attached EXCEPT ![r] = registry[r]]
  /\ UNCHANGED <<certVars, stack, env, call, bounds>>

Detach(r) ==
  /\ attached[r] # NoCert
  /\ stack.phase = "deleting" \/ (stack.phase = "steady" /\ r \notin stack.to)
  /\ attached' = [attached EXCEPT ![r] = NoCert]
  /\ UNCHANGED <<certVars, stack, env, call, bounds>>
-----------------------------------------------------------------------------
(* An invocation.                                                          *)
Succeeds ==
  /\ call' = NoCall
  /\ stack' = CASE call.kind = "Delete" -> [stack EXCEPT !.phase = "deleted"]
                [] call.kind = "Update" /\ stack.phase = "rolling" ->
                     [stack EXCEPT !.phase = "steady", !.to = stack.from]
                [] call.kind = "Update" /\ stack.phase # "rolling" ->
                     [stack EXCEPT !.phase = "steady", !.from = stack.to]
                [] OTHER -> stack
  /\ UNCHANGED env

(* A failed update is rolled back; the rollback and the deletion are tried *)
(* again.  The deletion that follows a failed creation is answered by the  *)
(* provider framework, which marks such a resource: nothing is cleaned.    *)
Fails ==
  /\ call' = NoCall
  /\ stack' = CASE call.kind = "Update" /\ stack.phase = "creating" ->
                     [stack EXCEPT !.phase = "gone"]
                [] call.kind = "Update" /\ stack.phase = "updating" ->
                     [stack EXCEPT !.phase = "rolling"]
                [] OTHER -> stack
  /\ env' = IF call.kind = "Update" /\ stack.phase = "updating" THEN stack.from ELSE env

Continues(c) == call' = c /\ UNCHANGED <<stack, env>>

(* The registry names a certificate that is gone: reading its tags raises. *)
Dangling(r) == registry[r] # NoCert /\ registry[r] \notin acm[r]
Ambiguous(r) == registry[r] = NoCert /\ Cardinality(acm[r]) > 1
Blocked(r) == Dangling(r) \/ Ambiguous(r)

Reading(r) == call.kind # "none" /\ call.at \in {"leaves", "clean"} /\ r \in call.todo

(* _registered_certificate and _recover_unregistered_certificate raise.    *)
RefuseRegion(r) ==
  /\ Reading(r) /\ Blocked(r)
  /\ Fails /\ NoFault
  /\ UNCHANGED <<certVars, attached>>

\* Faulty: an unregistered certificate is not looked for.
NothingToAdopt(r) == FALSE

Adoptable(r) == registry[r] = NoCert /\ Cardinality(acm[r]) = 1

(* The one certificate nobody registered is registered, and read again.    *)
Adopt(r) ==
  /\ Reading(r) /\ Adoptable(r)
  /\ registry' = [registry EXCEPT ![r] = CHOOSE c \in acm[r] : TRUE]
  /\ \/ Continues(call) /\ NoFault
     \/ Fails /\ Fault
  /\ UNCHANGED <<acm, issued, retries, retired, attached>>

KeepCertificate(r) ==
  /\ Reading(r) /\ call.at = "leaves" /\ registry[r] \in acm[r]
  /\ Continues([call EXCEPT !.todo = @ \ {r}]) /\ NoFault
  /\ UNCHANGED <<certVars, attached>>

Importable(r) ==
  /\ Reading(r) /\ call.at = "leaves"
  /\ registry[r] = NoCert /\ ~Adoptable(r) /\ ~Ambiguous(r)

(* The library may send an import again whose reply did not come.          *)
Import(r) ==
  /\ Importable(r)
  /\ \E n \in {1, 2} :
       /\ issued + n \in Certs
       /\ acm' = [acm EXCEPT ![r] = @ \union ((issued + 1)..(issued + n))]
       /\ issued' = issued + n
       /\ retries' = [retries EXCEPT ![r] = @ + n - 1]
       /\ \/ /\ Continues([call EXCEPT !.at = "register", !.region = r, !.cert = issued + n])
             /\ IF n = 2 THEN Fault ELSE NoFault
          \/ n = 1 /\ Fails /\ Fault
  /\ UNCHANGED <<registry, retired, attached>>

Registered == [registry EXCEPT ![call.region] = call.cert]

Register ==
  /\ call.at = "register"
  /\ \/ registry' = Registered /\ NoFault
        /\ Continues([call EXCEPT !.at = "leaves", !.todo = @ \ {call.region}])
     \/ /\ registry' \in {registry, Registered} /\ Fault
        /\ Continues([call EXCEPT !.at = "compensate"]) \/ Fails
  /\ UNCHANGED <<acm, issued, retries, retired, attached>>

(* Only a certificate of this very import is taken back.                   *)
Compensate ==
  /\ call.at = "compensate"
  /\ \/ /\ attached[call.region] # call.cert /\ NoFault
        /\ acm' = [acm EXCEPT ![call.region] = @ \ {call.cert}]
     \/ attached[call.region] = call.cert /\ NoFault /\ UNCHANGED acm
     \/ Fault /\ UNCHANGED acm
  /\ Fails
  /\ UNCHANGED <<registry, issued, retries, retired, attached>>

\* Faulty: what an earlier invocation could not clean is forgotten.
RetiringNew == call.newly \ call.active

Retiring == (retired \union call.newly) \ call.active

(* What is to be cleaned is saved before the first deletion.               *)
Retire ==
  /\ call.kind # "none" /\ call.at = "leaves" /\ call.todo = {}
  /\ retired' = Retiring
  /\ \/ Continues([call EXCEPT !.at = "clean", !.todo = Retiring]) /\ NoFault
     \/ Fails /\ Fault
  /\ UNCHANGED <<acm, registry, issued, retries, attached>>

\* Faulty: the ARN of a certificate still in use is forgotten.
DropForgetting(r) ==
  /\ Reading(r) /\ call.at = "clean" /\ ~Blocked(r) /\ ~Adoptable(r)
  /\ acm' = [acm EXCEPT ![r] = IF attached[r] = registry[r] THEN @ ELSE @ \ {registry[r]}]
  /\ Continues([call EXCEPT !.at = "unregister", !.region = r]) /\ NoFault
  /\ UNCHANGED <<registry, issued, retries, retired, attached>>

(* ACM refuses to delete what a load balancer uses; the region is kept for *)
(* a later invocation, unless the deployment is being deleted.             *)
Drop(r) ==
  /\ Reading(r) /\ call.at = "clean" /\ ~Blocked(r) /\ ~Adoptable(r)
  /\ IF registry[r] # NoCert /\ attached[r] = registry[r]
     THEN /\ UNCHANGED acm /\ NoFault
          /\ IF call.kind = "Delete" THEN Fails
             ELSE Continues([call EXCEPT !.todo = @ \ {r}, !.remaining = @ \union {r}])
     ELSE /\ acm' = [acm EXCEPT ![r] = @ \ {registry[r]}]
          /\ \/ Continues([call EXCEPT !.at = "unregister", !.region = r]) /\ NoFault
             \/ Fails /\ Fault
  /\ UNCHANGED <<registry, issued, retries, retired, attached>>

Unregister ==
  /\ call.at = "unregister"
  /\ registry' = [registry EXCEPT ![call.region] = NoCert]
  /\ \/ Continues([call EXCEPT !.at = "clean", !.todo = @ \ {call.region}]) /\ NoFault
     \/ Fails /\ Fault
  /\ UNCHANGED <<acm, issued, retries, retired, attached>>

(* What could not be cleaned yet stays on the list; a deletion ends it.    *)
SaveRetired ==
  /\ call.kind # "none" /\ call.at = "clean" /\ call.todo = {}
  /\ retired' = call.remaining
  /\ \/ Succeeds /\ NoFault
     \/ Fails /\ Fault
  /\ UNCHANGED <<acm, registry, issued, retries, attached>>

(* The process dies, or a call fails before it has any effect.             *)
Dies ==
  /\ call.kind # "none"
  /\ Fails /\ Fault
  /\ UNCHANGED <<certVars, attached>>

\* Faulty: only what is configured or retired is cleaned up.
NoInventory == {}

(* _cleanup: the whole registry is checked before anything is deleted.     *)
Inventory == {r \in Regions : registry[r] # NoCert}

BeginCleanup ==
  /\ Free /\ stack.phase = "deleting"
  /\ \A r \in Regions : ~Dangling(r)
  /\ call' = [NoCall EXCEPT !.kind = "Delete", !.at = "clean",
                            !.todo = stack.to \union Inventory \union retired]
  /\ UNCHANGED <<certVars, attached, stack, env, bounds>>

Works ==
  \/ \E r \in Regions : RefuseRegion(r) \/ Adopt(r) \/ KeepCertificate(r) \/ Import(r) \/ Drop(r)
  \/ Register \/ Compensate \/ Retire \/ Unregister \/ SaveRetired

RegistryNext ==
  \/ \E c \in Configurations : Deploy(c)
  \/ Abandon \/ Destroy \/ Told \/ Scheduled \/ BeginCleanup
  \/ \E r \in Regions : Attach(r) \/ Detach(r)
  \/ Works \/ Dies

RegistrySpec == RegistryInit /\ [][RegistryNext]_registryVars

(* The schedule and CloudFormation go on and a started invocation ends;    *)
(* faults are few.                                                         *)
FairRegistrySpec ==
  /\ RegistrySpec
  /\ WF_registryVars(Works) /\ WF_registryVars(Scheduled)
  /\ SF_registryVars(Told) /\ WF_registryVars(BeginCleanup)
-----------------------------------------------------------------------------
Active(r) == stack.phase = "steady" /\ r \in stack.to

(* The certificate a load balancer of the deployment serves is the one     *)
(* registered for its region, so that renewals reach it: through crashes,  *)
(* rollbacks, retired regions that come back and repeated imports.         *)
ServedIsRegistered ==
  \A r \in Regions : attached[r] # NoCert => attached[r] = registry[r] /\ attached[r] \in acm[r]

(* No import is made while another certificate waits to be adopted: a      *)
(* region has one certificate, and one more for each import sent twice.    *)
OneCertificate == \A r \in Regions : Cardinality(acm[r]) <= 1 + retries[r]

(* A deletion that the function acknowledged leaves no ARN behind, also    *)
(* for regions whose deployment failed, was rolled back or could not even  *)
(* be rolled back, and of the regions it was told of no certificate other  *)
(* than those of imports sent twice.  (After a failed creation it is not   *)
(* asked, and of a region of a failed rollback that nobody registered it   *)
(* does not know.)                                                         *)
NothingLeft ==
  stack.phase = "deleted" =>
    \A r \in Regions :
      /\ registry[r] = NoCert /\ attached[r] = NoCert
      /\ r \in stack.to => Cardinality(acm[r]) <= retries[r]

(* A retired region is cleaned once its load balancer is gone, and a       *)
(* configured one has its certificate, unless some region is blocked.      *)
RegionsSettle ==
  \A r \in Regions :
    /\ r \in retired ~> \/ registry[r] = NoCert \/ attached[r] # NoCert \/ r \in env
                        \/ stack.phase = "deleting" \/ \E q \in Regions : Blocked(q)
    /\ Active(r) ~> \/ ~Active(r) \/ registry[r] \in acm[r]
                   \/ \E q \in Regions : Blocked(q)
=============================================================================

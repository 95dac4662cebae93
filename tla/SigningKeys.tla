---------------------------- MODULE SigningKeys ----------------------------
(***************************************************************************)
(* Rotation of the key that signs backend requests.  The rotation Lambda   *)
(* moves the staging labels of a Secret step by step, driven by Secrets    *)
(* Manager; the proxies sign with a cached AWSCURRENT; the services' auth  *)
(* middleware accepts the signatures of the keys it read under AWSCURRENT, *)
(* AWSPENDING and AWSPREVIOUS, one call after another, and cached.         *)
(*                                                                         *)
(* Keys are numbered in the order they are made.  Ages count ticks and     *)
(* stop at MaxStale + 1; a tick is longer than the life of a signature.    *)
(***************************************************************************)
EXTENDS Naturals

CONSTANTS
  Signers,     \* proxy processes
  Validators,  \* processes with the auth middleware
  MaxKeys,     \* bound: keys ever made
  TTL,         \* CACHE_TTL_SECONDS, of both
  MaxStale,    \* CACHE_MAX_STALE_SECONDS, of both
  MaxFaults    \* bound: lost or failed calls, cancelled rotations, restarts

ASSUME WindowAssumption ==
  /\ MaxKeys \in Nat \ {0} /\ TTL \in Nat \ {0} /\ MaxFaults \in Nat
  /\ MaxStale \in Nat /\ TTL <= MaxStale

Keys == 1..MaxKeys
None == 0
Never == MaxStale + 1    \* an age past every window
Ages == 0..Never

VARIABLES
  secret,   \* the key under each staging label
  rotated,  \* age of LastRotatedDate
  rotation, \* the rotation under way: its key, its step, the version to displace
  signer,   \* each proxy's key and its age
  cache,    \* each validator's keys
  read,     \* each validator's refresh under way
  made,     \* the newest key
  gone,     \* for each key, the ticks since it was current or pending
  hasty,    \* TRUE once a rotation started within MaxStale of a displacement
  faults

keyVars == <<secret, rotated, rotation, signer, cache, read, made, gone, hasty, faults>>

(* left: for how many ticks a key is accepted; No: it is not, Always: for  *)
(* as long as the cache is.  seen: the newest key as the refresh began;    *)
(* missed: a stage was there and the refresh did without it.               *)
No == MaxStale + 1
Always == MaxStale + 2
Empty == [left |-> [k \in Keys |-> No], age |-> Never, seen |-> None, missed |-> FALSE]
Resting == [at |-> "none", into |-> Empty, old |-> None]

CacheType == [left: [Keys -> 0..Always], age: Ages, seen: Keys \union {None}, missed: BOOLEAN]

TypeOK ==
  /\ secret \in [current: Keys, pending: Keys \union {None}, previous: Keys \union {None}]
  /\ rotated \in Ages
  /\ rotation \in [key: Keys \union {None}, over: Keys \union {None},
                   at: {"none", "create", "test", "finish", "move", "complete"}]
  /\ signer \in [Signers -> [key: Keys \union {None}, age: Ages]]
  /\ cache \in [Validators -> CacheType]
  /\ read \in [Validators -> [at: {"none", "current", "pending", "previous", "date"},
                              into: CacheType, old: Keys \union {None}]]
  /\ made \in Keys /\ gone \in [Keys -> Ages] /\ hasty \in BOOLEAN
  /\ faults \in 0..MaxFaults

Init ==
  /\ secret = [current |-> 1, pending |-> None, previous |-> None]
  /\ rotated = Never
  /\ rotation = [key |-> None, over |-> None, at |-> "none"]
  /\ signer = [s \in Signers |-> [key |-> None, age |-> Never]]
  /\ cache = [v \in Validators |-> Empty]
  /\ read = [v \in Validators |-> Resting]
  /\ made = 1
  /\ gone = [k \in Keys |-> 0]
  /\ hasty = FALSE
  /\ faults = 0

Spend == faults < MaxFaults /\ faults' = faults + 1
-----------------------------------------------------------------------------
(* The rotation.  Secrets Manager calls the steps in their order, and the  *)
(* whole sequence again, with the same token, after one that failed.       *)
Goes(step) == rotation' = [rotation EXCEPT !.at = step]

(* A rotation is refused while AWSPENDING is on a version that is not      *)
(* current.                                                                *)
StartRotation ==
  /\ rotation.at = "none" /\ made < MaxKeys
  /\ secret.pending \in {None, secret.current}
  /\ rotation' = [key |-> made + 1, over |-> None, at |-> "create"]
  /\ hasty' = (hasty \/ (secret.previous # None /\ gone[secret.previous] <= MaxStale))
  /\ UNCHANGED <<secret, rotated, signer, cache, read, made, gone, faults>>

\* Faulty: a version that is there already is written again, and refused.
StagesAgain(k) ==
  /\ k > made
  /\ secret' = [secret EXCEPT !.pending = k]
  /\ made' = k

Stages(k) ==
  IF secret.pending = k THEN UNCHANGED <<secret, made>>
  ELSE /\ k > made
       /\ secret' = [secret EXCEPT !.pending = k]
       /\ made' = k

CreateSecret ==
  /\ rotation.at = "create"
  /\ Stages(rotation.key)
  /\ Goes("test")
  /\ UNCHANGED <<rotated, signer, cache, read, gone, hasty, faults>>

(* set_secret does nothing.                                                *)
TestSecret ==
  /\ rotation.at = "test" /\ secret.pending = rotation.key
  /\ Goes("finish")
  /\ UNCHANGED <<secret, rotated, signer, cache, read, made, gone, hasty, faults>>

(* finish_secret describes the Secret, then moves the label.               *)
FinishReads ==
  /\ rotation.at = "finish"
  /\ IF secret.current = rotation.key THEN Goes("complete")
     ELSE rotation' = [rotation EXCEPT !.at = "move", !.over = secret.current]
  /\ UNCHANGED <<secret, rotated, signer, cache, read, made, gone, hasty, faults>>

Moves ==
  /\ secret.current = rotation.over
  /\ secret' = [secret EXCEPT !.current = rotation.key, !.previous = secret.current]
  /\ gone' = [gone EXCEPT ![secret.current] = 0]

FinishMoves ==
  /\ rotation.at = "move" /\ Moves
  /\ Goes("complete")
  /\ UNCHANGED <<rotated, signer, cache, read, made, hasty, faults>>

(* Secrets Manager records the end of the rotation.                        *)
Complete ==
  /\ rotation.at = "complete"
  /\ rotated' = 0
  /\ rotation' = [key |-> None, over |-> None, at |-> "none"]
  /\ UNCHANGED <<secret, signer, cache, read, made, gone, hasty, faults>>

(* A call fails, or has its effect and its answer is lost.                 *)
StepFails ==
  /\ rotation.at # "none" /\ Spend
  /\ \/ UNCHANGED <<secret, made, gone>>
     \/ rotation.at = "create" /\ Stages(rotation.key) /\ UNCHANGED gone
     \/ rotation.at = "move" /\ Moves /\ UNCHANGED made
  /\ Goes("create")
  /\ UNCHANGED <<rotated, signer, cache, read, hasty>>

(* The runbook's way out of a rotation that is stuck: it is cancelled and  *)
(* the label taken off.                                                    *)
Cancel ==
  /\ rotation.at \in {"create", "test", "finish"} /\ secret.current # rotation.key /\ Spend
  /\ made' = rotation.key
  /\ secret' = [secret EXCEPT !.pending = None]
  /\ rotation' = [key |-> None, over |-> None, at |-> "none"]
  /\ gone' = [gone EXCEPT ![rotation.key] = 0]
  /\ UNCHANGED <<rotated, signer, cache, read, hasty>>
-----------------------------------------------------------------------------
Due(age) == age >= TTL

(* get_secret_token of the proxies.                                        *)
SignerReads(s) ==
  /\ Due(signer[s].age)
  /\ signer' = [signer EXCEPT ![s] = [key |-> secret.current, age |-> 0]]
  /\ UNCHANGED <<secret, rotated, rotation, cache, read, made, gone, hasty, faults>>

SignerRestarts(s) ==
  /\ Spend
  /\ signer' = [signer EXCEPT ![s] = [key |-> None, age |-> Never]]
  /\ UNCHANGED <<secret, rotated, rotation, cache, read, made, gone, hasty>>
-----------------------------------------------------------------------------
(* _refresh_cache, a call at a time.  Nothing is accepted meanwhile: the   *)
(* calls block the event loop.                                             *)
Adds(v, k, ticks) == [read[v].into EXCEPT !.left[k] = ticks]
Continues(v, step, into) == read' = [read EXCEPT ![v].at = step, ![v].into = into]

RefreshBegins(v) ==
  /\ read[v].at = "none" /\ Due(cache[v].age)
  /\ Continues(v, "current", [Empty EXCEPT !.age = 0, !.seen = made])
  /\ UNCHANGED <<secret, rotated, rotation, signer, cache, made, gone, hasty, faults>>

ReadCurrent(v) ==
  /\ read[v].at = "current"
  /\ Continues(v, "pending", Adds(v, secret.current, Always))
  /\ UNCHANGED <<secret, rotated, rotation, signer, cache, made, gone, hasty, faults>>

\* Faulty: only keys that are, or were, current are accepted.
SkipsPending(v) ==
  /\ read[v].at = "pending"
  /\ Continues(v, "previous", read[v].into)
  /\ UNCHANGED <<secret, rotated, rotation, signer, cache, made, gone, hasty, faults>>

ReadPending(v) ==
  /\ read[v].at = "pending"
  /\ Continues(v, "previous",
       IF secret.pending = None THEN read[v].into ELSE Adds(v, secret.pending, Always))
  /\ UNCHANGED <<secret, rotated, rotation, signer, cache, made, gone, hasty, faults>>

Stores(v, into) ==
  /\ cache' = [cache EXCEPT ![v] = into]
  /\ read' = [read EXCEPT ![v] = Resting]

(* A previous key that is not among the others waits for its deadline.     *)
ReadPrevious(v) ==
  /\ read[v].at = "previous"
  /\ IF secret.previous # None /\ read[v].into.left[secret.previous] = No
     THEN /\ read' = [read EXCEPT ![v].at = "date", ![v].old = secret.previous]
          /\ UNCHANGED cache
     ELSE Stores(v, read[v].into)
  /\ UNCHANGED <<secret, rotated, rotation, signer, made, gone, hasty, faults>>

\* Faulty: the deadline starts again with each refresh.
RenewedDeadline(age) == MaxStale

Deadline(age) == IF age <= MaxStale THEN MaxStale - age ELSE No

(* Between the move and its completion the date is that of the rotation    *)
(* before.                                                                 *)
ReadDate(v) ==
  /\ read[v].at = "date"
  /\ LET into == Adds(v, read[v].old, Deadline(rotated))
     IN Stores(v, [into EXCEPT !.missed = @ \/ secret.current = rotation.key])
  /\ UNCHANGED <<secret, rotated, rotation, signer, made, gone, hasty, faults>>

(* Without the optional stage that could not be read, or with nothing.     *)
ReadFails(v) ==
  /\ read[v].at # "none" /\ Spend
  /\ LET into == [read[v].into EXCEPT !.missed = TRUE]
     IN \/ /\ read[v].at = "current"
           /\ read' = [read EXCEPT ![v] = Resting]
           /\ UNCHANGED cache
        \/ read[v].at = "pending" /\ Continues(v, "previous", into) /\ UNCHANGED cache
        \/ read[v].at \in {"previous", "date"} /\ Stores(v, into)
  /\ UNCHANGED <<secret, rotated, rotation, signer, made, gone, hasty>>

ValidatorRestarts(v) ==
  /\ Spend
  /\ Stores(v, Empty)
  /\ UNCHANGED <<secret, rotated, rotation, signer, made, gone, hasty>>
-----------------------------------------------------------------------------
Older(age) == IF age = Never THEN age ELSE age + 1
Shorter(n) == CASE n = 0 -> No [] n \in 1..MaxStale -> n - 1 [] OTHER -> n
Aged(c) == [c EXCEPT !.age = Older(@), !.left = [k \in Keys |-> Shorter(@[k])]]

(* A refresh is a few calls: none is under way over a tick.                *)
Tick ==
  /\ \A v \in Validators : read[v].at = "none"
  /\ rotated' = Older(rotated)
  /\ signer' = [s \in Signers |-> [signer[s] EXCEPT !.age = Older(@)]]
  /\ cache' = [v \in Validators |-> Aged(cache[v])]
  /\ gone' = [k \in Keys |-> IF k \in {secret.current, secret.pending} \/ k > made
                              THEN 0 ELSE Older(gone[k])]
  /\ UNCHANGED <<secret, rotation, read, made, hasty, faults>>

Next ==
  \/ StartRotation \/ CreateSecret \/ TestSecret \/ FinishReads \/ FinishMoves
  \/ Complete \/ StepFails \/ Cancel
  \/ \E s \in Signers : SignerReads(s) \/ SignerRestarts(s)
  \/ \E v \in Validators :
       \/ RefreshBegins(v) \/ ReadCurrent(v) \/ ReadPending(v) \/ ReadPrevious(v)
       \/ ReadDate(v) \/ ReadFails(v) \/ ValidatorRestarts(v)
  \/ Tick

Spec == Init /\ [][Next]_keyVars

(* Secrets Manager goes on with a rotation it started.                     *)
FairSpec ==
  /\ Spec
  /\ WF_keyVars(CreateSecret) /\ WF_keyVars(TestSecret) /\ WF_keyVars(FinishReads)
  /\ WF_keyVars(FinishMoves) /\ WF_keyVars(Complete)
-----------------------------------------------------------------------------
Signs(s) == signer[s].age <= MaxStale
Answers(v) == read[v].at = "none" /\ cache[v].age <= MaxStale
Accepts(v, k) == cache[v].left[k] # No

(* A key that has lost its labels, displaced or cancelled, is accepted     *)
(* nowhere once the window after that and after the last completed         *)
(* rotation is over, whatever was read between which steps.                *)
DisplacedEnds ==
  \A v \in Validators, k \in Keys :
    Answers(v) /\ Accepts(v, k) /\ k # secret.current /\ k # secret.pending
      => gone[k] <= MaxStale \/ rotated <= MaxStale

(* When rotations are further apart than the window, a validator takes     *)
(* every key that a warm proxy still signs with, unless the key was made   *)
(* after the refresh began, or the refresh went without a stage: it could  *)
(* not be read, or it was read between the move and its completion.        *)
OverlapCovers ==
  ~hasty => \A s \in Signers, v \in Validators :
    Signs(s) /\ Answers(v) /\ ~cache[v].missed /\ signer[s].key <= cache[v].seen
      => Accepts(v, signer[s].key)

(* A rotation that lost answers, or failed and was called again from the   *)
(* start, still ends.                                                      *)
RotationEnds ==
  \A k \in Keys : rotation.key = k ~> rotation.key # k
=============================================================================

----------------------------- MODULE TlsRollover -----------------------------
(***************************************************************************)
(* Rollover of the backend's private root and renewal of the regional      *)
(* leaves: the certificate manager's reconciliation (one invocation at a   *)
(* time, its reserved concurrency is 1), the Secret with the roots, the    *)
(* SSM parameter with the public trust bundle, the leaf each region's load *)
(* balancer serves, and the proxies that verify it with a cached bundle.   *)
(*                                                                         *)
(* Time is relative: every deadline is the number of ticks left to it, and *)
(* a tick is longer than an invocation, which may take minutes where the   *)
(* shortest deadline is an hour.                                           *)
(***************************************************************************)
EXTENDS Naturals

CONSTANTS
  NumRegions,      \* regions, numbered in the configured order
  Clients,         \* processes that call the backend
  MaxGenerations,  \* bound: root generations, the last of which does not age
  Delay,           \* root_activation_delay_hours
  MaxStale,        \* trust_cache_max_stale_seconds
  Overlap,         \* root_overlap_days
  LeafLife,        \* leaf_validity_days
  LeafBefore,      \* leaf_rotate_before_days
  RootLife,        \* root_validity_days
  RootBefore,      \* root_rotate_before_days
  Period           \* rotation_schedule_hours, with room for its retries

(* What the configuration is checked for before a deployment.              *)
ASSUME PolicyAssumption ==
  /\ NumRegions \in Nat /\ MaxGenerations \in Nat \ {0} /\ Period \in Nat
  /\ Delay \in Nat /\ MaxStale \in Nat /\ MaxStale < Delay
  /\ LeafLife \in Nat /\ LeafBefore \in Nat /\ LeafBefore < LeafLife
  /\ Overlap \in Nat /\ LeafLife < Overlap
  /\ RootLife \in Nat /\ RootBefore \in Nat /\ RootBefore < RootLife /\ LeafLife < RootLife

RegionIds == 1..NumRegions
Generations == 1..MaxGenerations
None == 0          \* no generation

VARIABLES
  secret,     \* the root state in the Secret
  published,  \* the roots in the trust bundle
  life,       \* ticks left to the expiry of each root's certificate
  leaf,       \* the leaf of each region: the root that signed it, ticks left
  wanted,     \* root_generation of the configuration
  run,        \* the invocation: where it is, and its copy of the root state
  cache,      \* each client's bundle and its age
  since,      \* ticks since an invocation last ran undisturbed, up to Period
  late        \* TRUE once those were more than Period

tlsVars == <<secret, published, life, leaf, wanted, run, cache, since, late>>

(* wait: ticks until the pending root may be activated; marked: a bundle   *)
(* with the pending root is known to be published; keep: ticks for which a *)
(* previous root stays in the bundle.                                      *)
RootState ==
  [current: Generations \union {None}, pending: Generations \union {None},
   wait: 0..Delay, marked: BOOLEAN,
   previous: SUBSET Generations, keep: [Generations -> 0..Overlap]]

Uninitialized ==
  [current |-> None, pending |-> None, wait |-> 0, marked |-> FALSE,
   previous |-> {}, keep |-> [g \in Generations |-> 0]]

Places == {"idle", "save", "publish", "mark", "leaf"}

TypeOK ==
  /\ secret \in RootState
  /\ published \in SUBSET Generations
  /\ life \in [Generations -> 0..RootLife]
  /\ leaf \in [RegionIds -> [by: Generations \union {None}, left: 0..LeafLife]]
  /\ wanted \in Generations
  /\ run \in [at: Places, mem: RootState, next: 1..(NumRegions + 1)]
  /\ cache \in [Clients -> [roots: SUBSET Generations, age: 0..(MaxStale + 1)]]
  /\ since \in 0..Period
  /\ late \in BOOLEAN

Idle == [at |-> "idle", mem |-> Uninitialized, next |-> 1]

Init ==
  /\ secret = Uninitialized
  /\ published = {}
  /\ life = [g \in Generations |-> 0]
  /\ leaf = [r \in RegionIds |-> [by |-> None, left |-> 0]]
  /\ wanted = 1
  /\ run = Idle
  /\ cache = [c \in Clients |-> [roots |-> {}, age |-> MaxStale + 1]]
  /\ since = 0
  /\ late = FALSE
-----------------------------------------------------------------------------
(* The decisions of _ensure_root on the state it loaded.                   *)
Larger(a, b) == IF a > b THEN a ELSE b
Smaller(a, b) == IF a < b THEN a ELSE b

Minus1(n) == IF n = 0 THEN 0 ELSE n - 1

Bootstrapped(s) == IF s.current = None THEN [s EXCEPT !.current = wanted] ELSE s

\* Faulty: only the operator's wish stages a root, never its expiry.
DesiredByConfig(s) == Larger(wanted, s.current)

(* Bound: no generation after MaxGenerations.                              *)
Desired(s) ==
  LET near == life[s.current] <= RootBefore /\ s.current < MaxGenerations
  IN Larger(wanted, IF near THEN s.current + 1 ELSE s.current)

Stages(s) == Desired(s) > Larger(s.current, s.pending)
Staged(s) ==
  IF Stages(s) THEN [s EXCEPT !.pending = Desired(s), !.wait = Delay, !.marked = FALSE] ELSE s

Activates(s) == s.pending # None /\ s.marked /\ s.wait = 0

Promoted(s) ==
  IF Activates(s)
  THEN [current |-> s.pending, pending |-> None, wait |-> 0, marked |-> FALSE,
        previous |-> s.previous \union {s.current},
        keep |-> [s.keep EXCEPT ![s.current] = Overlap]]
  ELSE s

Pruned(s) == [s EXCEPT !.previous = {g \in s.previous : s.keep[g] > 0}]

Bundle(s) == ({s.current, s.pending} \ {None}) \union s.previous
-----------------------------------------------------------------------------
(* An invocation.  Every call may fail, with or without its effect, and    *)
(* the process may die instead: the invocation ends there.                 *)
Ends(undisturbed) ==
  /\ run' = Idle
  /\ since' = IF undisturbed THEN 0 ELSE since

Goes(place) == run' = [run EXCEPT !.at = place] /\ UNCHANGED since

\* Faulty: a marker that could not be saved with the staging is not repaired.
AfterPublishStaged(s) ==
  IF s.pending # None /\ ~s.marked /\ s.wait = Delay THEN "mark" ELSE "leaf"

AfterPublish(s) == IF s.pending # None /\ ~s.marked THEN "mark" ELSE "leaf"

(* Load the Secret, or find it empty, and decide.                          *)
LoadRoot ==
  /\ run.at = "idle"
  /\ LET b == Bootstrapped(secret)
         made == IF secret.current = None THEN [life EXCEPT ![wanted] = RootLife] ELSE life
         s == IF secret.current = None THEN b ELSE Pruned(Promoted(Staged(b)))
     IN /\ life' = IF secret.current # None /\ Stages(b)
                   THEN [made EXCEPT ![Desired(b)] = RootLife] ELSE made
        /\ run' = [at |-> IF s = secret THEN "publish" ELSE "save", mem |-> s, next |-> 1]
  /\ UNCHANGED <<secret, published, leaf, wanted, cache, since, late>>

SaveRoot ==
  /\ run.at = "save"
  /\ secret' = run.mem
  /\ Goes("publish")
  /\ UNCHANGED <<published, life, leaf, wanted, cache, late>>

PublishBundle ==
  /\ run.at = "publish"
  /\ published' = Bundle(run.mem)
  /\ Goes(AfterPublish(run.mem))
  /\ UNCHANGED <<secret, life, leaf, wanted, cache, late>>

\* Faulty: the delay is not started again at the publication.
MarkedState(s) == [s EXCEPT !.marked = TRUE]

Marked(s) == [s EXCEPT !.marked = TRUE, !.wait = Delay]

MarkPublished ==
  /\ run.at = "mark"
  /\ secret' = Marked(run.mem)
  /\ run' = [run EXCEPT !.at = "leaf", !.mem = Marked(run.mem)]
  /\ UNCHANGED <<published, life, leaf, wanted, cache, since, late>>

NeedsLeaf(r) ==
  leaf[r].by = None \/ leaf[r].left <= LeafBefore \/ leaf[r].by # run.mem.current

(* A leaf ends before its root, and is not issued if it would not last.    *)
NewLeft == Smaller(LeafLife, Minus1(life[run.mem.current]))
TooSoon == NewLeft <= LeafBefore
NewLeaf == [by |-> run.mem.current, left |-> NewLeft]

NextRegion == run' = [run EXCEPT !.next = @ + 1] /\ UNCHANGED since

KeepLeaf ==
  /\ run.at = "leaf" /\ run.next \in RegionIds /\ ~NeedsLeaf(run.next)
  /\ NextRegion
  /\ UNCHANGED <<secret, published, life, leaf, wanted, cache, late>>

RenewLeaf(r) ==
  /\ run.at = "leaf" /\ run.next = r /\ r \in RegionIds /\ NeedsLeaf(r) /\ ~TooSoon
  /\ leaf' = [leaf EXCEPT ![r] = NewLeaf]
  /\ NextRegion
  /\ UNCHANGED <<secret, published, life, wanted, cache, late>>

(* The regions after this one are not reached.                             *)
RefuseLeaf ==
  /\ run.at = "leaf" /\ run.next \in RegionIds /\ NeedsLeaf(run.next) /\ TooSoon
  /\ Ends(TRUE)
  /\ UNCHANGED <<secret, published, life, leaf, wanted, cache, late>>

Finish ==
  /\ run.at = "leaf" /\ run.next = NumRegions + 1
  /\ Ends(TRUE)
  /\ UNCHANGED <<secret, published, life, leaf, wanted, cache, late>>

(* The call in hand has its effect and the invocation ends; or it has not. *)
Disturbed ==
  /\ run.at # "idle"
  /\ \/ UNCHANGED <<secret, published, leaf>>
     \/ run.at = "save" /\ secret' = run.mem /\ UNCHANGED <<published, leaf>>
     \/ run.at = "publish" /\ published' = Bundle(run.mem) /\ UNCHANGED <<secret, leaf>>
     \/ run.at = "mark" /\ secret' = Marked(run.mem) /\ UNCHANGED <<published, leaf>>
     \/ /\ run.at = "leaf" /\ run.next \in RegionIds /\ NeedsLeaf(run.next) /\ ~TooSoon
        /\ leaf' = [leaf EXCEPT ![run.next] = NewLeaf]
        /\ UNCHANGED <<secret, published>>
  /\ Ends(FALSE)
  /\ UNCHANGED <<life, wanted, cache, late>>
-----------------------------------------------------------------------------
(* A deployment sets another root_generation, which the next invocation    *)
(* reads as it starts.                                                     *)
Configure(g) ==
  /\ run.at = "idle"
  /\ wanted' = g
  /\ UNCHANGED <<secret, published, life, leaf, run, cache, since, late>>

(* get_backend_http_pool: a successful refresh, also the first one of a    *)
(* new process.  A failed one leaves the bundle to age.                    *)
Refresh(c) ==
  /\ published # {}
  /\ cache' = [cache EXCEPT ![c] = [roots |-> published, age |-> 0]]
  /\ UNCHANGED <<secret, published, life, leaf, wanted, run, since, late>>

Older(n, most) == IF n > most THEN n ELSE n + 1

Tick ==
  /\ run.at = "idle"
  /\ secret' = [secret EXCEPT !.wait = Minus1(@),
                              !.keep = [g \in Generations |-> Minus1(@[g])]]
  /\ life' = [g \in Generations |-> IF g = MaxGenerations THEN life[g] ELSE Minus1(life[g])]
  /\ leaf' = [r \in RegionIds |-> [leaf[r] EXCEPT !.left = Minus1(@)]]
  /\ cache' = [c \in Clients |-> [cache[c] EXCEPT !.age = Older(@, MaxStale)]]
  /\ since' = IF late \/ since = Period THEN 0 ELSE since + 1
  /\ late' = (late \/ since = Period)
  /\ UNCHANGED <<published, wanted, run>>

Next ==
  \/ LoadRoot \/ SaveRoot \/ PublishBundle \/ MarkPublished
  \/ KeepLeaf \/ (\E r \in RegionIds : RenewLeaf(r)) \/ RefuseLeaf \/ Finish \/ Disturbed
  \/ \E g \in Generations : Configure(g)
  \/ \E c \in Clients : Refresh(c)
  \/ Tick

Spec == Init /\ [][Next]_tlsVars

(* The schedule goes on and no outage is for ever; a region whose calls    *)
(* never succeed would also keep the ones after it from being reached.     *)
FairSpec ==
  /\ Spec
  /\ SF_tlsVars(Tick) /\ WF_tlsVars(LoadRoot)
  /\ SF_tlsVars(SaveRoot) /\ SF_tlsVars(PublishBundle) /\ SF_tlsVars(MarkPublished)
  /\ SF_tlsVars(KeepLeaf) /\ WF_tlsVars(RefuseLeaf) /\ WF_tlsVars(Finish)
  /\ \A r \in RegionIds : SF_tlsVars(RenewLeaf(r))
-----------------------------------------------------------------------------
Usable(c) == cache[c].age <= MaxStale
Serves(r) == leaf[r].by # None /\ leaf[r].left > 0

(* Whatever fails and whenever: a leaf that has not expired is verified by *)
(* every client that still uses its bundle, through a root that has not    *)
(* expired either.                                                         *)
ClientsTrust ==
  \A r \in RegionIds : Serves(r) =>
    /\ life[leaf[r].by] > 0
    /\ \A c \in Clients : Usable(c) => leaf[r].by \in cache[c].roots

(* A policy that leaves room: a leaf outlasts the wait for an undisturbed  *)
(* invocation, the time for which a root is replaced early covers as many  *)
(* activations as there can be, and a new root outlasts its own.           *)
RoomyPolicy ==
  /\ Period <= LeafBefore
  /\ LeafBefore + 1 + (MaxGenerations - 1) * (Delay + Period - 1) <= RootBefore
  /\ RootBefore + Delay + 2 * Period <= RootLife

(* If no more than Period passes between undisturbed invocations, no leaf  *)
(* expires while it is served, through rollovers and expiries of the root. *)
NeverLapses ==
  ~late => \A r \in RegionIds : leaf[r].by # None => leaf[r].left > 0

(* A generation the operator asks for signs every leaf in the end, unless  *)
(* the wish is taken back.                                                 *)
RolloverCompletes ==
  \A g \in Generations :
    wanted = g ~> wanted # g \/ \A r \in RegionIds : leaf[r].by >= g
=============================================================================

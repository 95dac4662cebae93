------------------------------- MODULE Swarm -------------------------------
(***************************************************************************)
(* A swarm: one orchestrator session supervising child sessions, driven by *)
(* a runner process.  Sessions are files that survive it; the registry of  *)
(* slots lives in the runner's memory and reaches the orchestrator's file  *)
(* when it is flushed.  The runner is one asyncio loop: what happens       *)
(* between two awaits is one step.                                         *)
(***************************************************************************)
EXTENDS Naturals, FiniteSets, FiniteSetsExt

CONSTANTS
  Names,          \* slot names of spawn requests
  Revised,        \* those with restart policy on_failure_with_revision
  MaxRespawns,    \* max_respawns of every request
  Caps,           \* max_iterations of requests
  Pool,           \* child_iteration_pool
  MaxChildren,    \* max_children
  MaxConcurrent,  \* max_concurrent_children
  MaxSessions,    \* bound: child sessions ever made
  MaxTurns,       \* max_iterations of the orchestrator
  MaxFaults,      \* bound: crashes, detachments and failed iterations
  MaxAborts       \* bound: calls of abort_swarm

ASSUME RailsAssumption ==
  /\ IsFiniteSet(Names) /\ Names \intersect (1..MaxSessions) = {}
  /\ Revised \subseteq Names /\ MaxRespawns \in Nat
  /\ IsFiniteSet(Caps) /\ Caps \subseteq Nat \ {0} /\ Pool \in Nat \ {0}
  /\ MaxChildren \in Nat \ {0} /\ MaxConcurrent \in Nat \ {0}
  /\ MaxSessions \in Nat /\ MaxTurns \in Nat \ {0}
  /\ MaxFaults \in Nat /\ MaxAborts \in Nat

Sessions == 1..MaxSessions
Slots == Names \union Sessions    \* an adopted session is its own slot
NoSession == 0

VARIABLES
  sessions,  \* the children's files
  disk,      \* the registry in the orchestrator's file
  ended,     \* TRUE if the orchestrator's file says it is terminal
  turns,     \* iterations in the orchestrator's file
  abort,     \* an abort_swarm under way, and the registry it loaded
  runner,    \* where the runner is
  held,      \* the registry the orchestrator's iteration loaded
  registry,  \* the runner's own
  dirty,     \* TRUE if that has changes to flush
  tasks,     \* the driver of each slot
  faults

swarmVars ==
  <<sessions, disk, ended, turns, abort, runner, held, registry, dirty, tasks, faults>>

(* prior is the lineage; its size is the respawn count.                    *)
Vacant == [session |-> NoSession, reserved |-> 0, consumed |-> 0, settled |-> TRUE,
           prior |-> {}, max |-> 0]
Empty == [s \in Slots |-> Vacant]
NoTasks == [s \in Slots |-> "none"]
NoAbort == [on |-> FALSE, books |-> Empty, calls |-> 0]

Registries ==
  [Slots -> [session: Sessions \union {NoSession}, reserved: Caps \union {0},
             consumed: Nat, settled: BOOLEAN, prior: SUBSET Sessions,
             max: {0, MaxRespawns}]]

TypeOK ==
  /\ sessions \in [Sessions -> [state: {"none", "open", "met", "unmet"},
                                iters: Nat, cap: Caps \union {0}]]
  /\ disk \in Registries /\ held \in Registries /\ registry \in Registries
  /\ ended \in BOOLEAN /\ turns \in 0..MaxTurns /\ dirty \in BOOLEAN
  /\ abort \in [on: BOOLEAN, books: Registries, calls: 0..MaxAborts]
  /\ runner \in {"down", "checking", "waiting", "iterating", "finalising", "flushing", "over",
               "cascade", "done"}
  /\ tasks \in [Slots -> {"none", "ready", "queued", "iterating", "finalising",
                       "revising"}]
  /\ faults \in 0..MaxFaults

Init ==
  /\ sessions = [i \in Sessions |-> [state |-> "none", iters |-> 0, cap |-> 0]]
  /\ disk = Empty /\ held = Empty /\ registry = Empty
  /\ ended = FALSE /\ turns = 0 /\ abort = NoAbort
  /\ runner = "down" /\ dirty = FALSE
  /\ tasks = NoTasks /\ faults = 0

Spend == faults < MaxFaults /\ faults' = faults + 1
-----------------------------------------------------------------------------
(* The accounts, of a registry r.                                          *)
Taken(r) == {s \in Slots : r[s].session # NoSession}
Live(r) == {s \in Taken(r) : ~r[s].settled}
Charged(r) == SumFunctionOnSet([s \in Slots |-> r[s].reserved + r[s].consumed], Taken(r))

Open(i) == sessions[i].state = "open"
Made == {i \in Sessions : sessions[i].state # "none"}
Least(a, b) == IF a < b THEN a ELSE b

\* Faulty: what the slot used before it was respawned is forgotten.
SettledAfresh(e, iters) ==
  IF e.settled THEN e
  ELSE [e EXCEPT !.consumed = Least(iters, e.reserved), !.reserved = 0, !.settled = TRUE]

Settled(e, iters) ==
  IF e.settled THEN e
  ELSE [e EXCEPT !.consumed = @ + Least(iters, e.reserved), !.reserved = 0, !.settled = TRUE]

NewEntry(i, cap, max) ==
  [session |-> i, reserved |-> cap, consumed |-> 0, settled |-> FALSE,
   prior |-> {}, max |-> max]

Respawned(e, i, cap) ==
  [e EXCEPT !.session = i, !.reserved = cap, !.settled = FALSE,
            !.prior = @ \union {e.session}]

(* The fleet cap and the pool; the other rails are checks of the request.  *)
Admits(r, cap) ==
  /\ Cardinality(Made) < MaxSessions
  /\ Cardinality(Live(r)) < MaxChildren
  /\ Charged(r) + cap <= Pool

Own(e) == e.prior \union {e.session}
Owned(r) == UNION {Own(r[s]) : s \in Taken(r)}

\* Faulty: what a crash left unrecorded stays so.
NothingAdopted(r) == r

\* Faulty: the sessions a slot had before are taken for orphans.
AdoptedWithLineage(r) ==
  [s \in Slots |->
     IF s \in Made \ {r[q].session : q \in Taken(r)}
     THEN NewEntry(s, sessions[s].cap, 0) ELSE r[s]]

Adopted(r) ==
  [s \in Slots |->
     IF s \in Made \ Owned(r) THEN NewEntry(s, sessions[s].cap, 0) ELSE r[s]]
-----------------------------------------------------------------------------
(* run_to_completion.  The guard lets no runner start beside a live one.   *)
(* A terminal orchestrator is refused before.                              *)
Driving ==
  runner \in {"checking", "waiting", "iterating", "finalising", "flushing", "over"}

Start ==
  /\ runner = "down" /\ ~ended
  /\ registry' = Adopted(disk)
  /\ disk' = registry'
  /\ dirty' = FALSE
  /\ tasks' = [s \in Slots |-> IF s \in Live(registry') THEN "ready" ELSE "none"]
  /\ runner' = "checking"
  /\ UNCHANGED <<sessions, ended, turns, abort, held, faults>>

(* The top of the loop.  An orchestrator that is not over goes on to wait  *)
(* for the fleet's progress, which has a timeout.                          *)
Proceed ==
  /\ runner = "checking" /\ ~ended
  /\ runner' = "waiting"
  /\ UNCHANGED <<sessions, disk, ended, turns, abort, held, registry, dirty, tasks, faults>>

StandDown ==
  /\ runner = "checking" /\ ended
  /\ runner' = "cascade" /\ tasks' = NoTasks
  /\ UNCHANGED <<sessions, disk, ended, turns, abort, held, registry, dirty, faults>>

(* The engine loads the orchestrator after the wait.                       *)
Turn ==
  /\ runner = "waiting" /\ ~ended
  /\ runner' = "iterating" /\ held' = disk
  /\ UNCHANGED <<sessions, disk, ended, turns, abort, registry, dirty, tasks, faults>>

(* Its two saves are of the whole session as it loaded it.  The last       *)
(* iteration the budget allows is terminal, and the second save says so.   *)
SaveTurn ==
  /\ runner = "iterating"
  /\ disk' = held /\ ended' = FALSE
  /\ turns' = Least(turns + 1, MaxTurns)
  /\ \E terminal \in {FALSE, TRUE} :
       /\ turns' = MaxTurns => terminal
       /\ runner' = IF terminal THEN "finalising" ELSE "flushing"
  /\ UNCHANGED <<sessions, abort, held, registry, dirty, tasks, faults>>

FinaliseTurn ==
  /\ runner = "finalising"
  /\ disk' = held /\ ended' = TRUE
  /\ runner' = "over"
  /\ UNCHANGED <<sessions, turns, abort, held, registry, dirty, tasks, faults>>

Flushed == disk' = (IF dirty THEN registry ELSE disk) /\ dirty' = FALSE

Flush ==
  /\ runner \in {"flushing", "over"}
  /\ Flushed
  /\ IF runner = "over" THEN runner' = "cascade" /\ tasks' = NoTasks
     ELSE runner' = "checking" /\ UNCHANGED tasks
  /\ UNCHANGED <<sessions, ended, turns, abort, held, registry, faults>>

Stops ==
  /\ runner' = "down" /\ tasks' = NoTasks
  /\ registry' = Empty /\ held' = Empty /\ dirty' = FALSE
  /\ UNCHANGED <<turns, abort>>

LastFlush == disk' = IF dirty THEN registry ELSE disk

(* The iteration bound of the call.                                        *)
Detach ==
  /\ runner = "waiting" /\ Spend
  /\ LastFlush
  /\ Stops
  /\ UNCHANGED <<sessions, ended>>

(* The engine refuses an orchestrator that was ended during the wait: the  *)
(* runner leaves by the exception, without the cascade.                    *)
RefuseTurn ==
  /\ runner = "waiting" /\ ended
  /\ LastFlush
  /\ Stops
  /\ UNCHANGED <<sessions, ended, faults>>

(* An iteration of the orchestrator fails: its session with it, and the    *)
(* runner leaves by that exception.                                        *)
FailTurn ==
  /\ runner = "iterating" /\ Spend
  /\ disk' = IF dirty THEN registry ELSE held
  /\ ended' = TRUE
  /\ Stops
  /\ UNCHANGED sessions

Crash ==
  /\ runner \notin {"down", "done"} /\ Spend
  /\ Stops
  /\ UNCHANGED <<sessions, disk, ended>>

(* _cascade_shutdown, a child at a time, and the last flush.               *)
Terminated(i) == [sessions EXCEPT ![i].state = IF @ = "open" THEN "unmet" ELSE @]
Settles(s) ==
  /\ registry' = [registry EXCEPT ![s] = Settled(@, sessions[@.session].iters)]
  /\ dirty' = TRUE

\* Faulty: an ended runner leaves its children as they are.
AbandonChild(s) ==
  /\ runner = "cascade" /\ s \in Live(registry)
  /\ Settles(s)
  /\ UNCHANGED <<sessions, disk, ended, turns, abort, runner, held, tasks, faults>>

CascadeChild(s) ==
  /\ runner = "cascade" /\ s \in Live(registry)
  /\ sessions' = Terminated(registry[s].session)
  /\ Settles(s)
  /\ UNCHANGED <<disk, ended, turns, abort, runner, held, tasks, faults>>

EndCascade ==
  /\ runner = "cascade" /\ Live(registry) = {}
  /\ Flushed
  /\ runner' = "done"
  /\ UNCHANGED <<sessions, ended, turns, abort, held, registry, tasks, faults>>
-----------------------------------------------------------------------------
(* The tools of the orchestrator's iteration.                              *)
Makes(i, cap) ==
  /\ i = Cardinality(Made) + 1
  /\ sessions' = [sessions EXCEPT ![i] = [state |-> "open", iters |-> 0, cap |-> cap]]
  /\ dirty' = TRUE

(* A driver is made for the slot unless it has one that is not done.       *)
Schedules(s) == tasks' = [tasks EXCEPT ![s] = IF @ = "none" THEN "ready" ELSE @]

Spawn(name, cap) ==
  /\ runner = "iterating" /\ name \notin Taken(registry) /\ Admits(registry, cap)
  /\ \E i \in Sessions :
       /\ Makes(i, cap)
       /\ registry' = [registry EXCEPT ![name] = NewEntry(i, cap, MaxRespawns)]
  /\ Schedules(name)
  /\ UNCHANGED <<disk, ended, turns, abort, runner, held, faults>>

(* The driver is cancelled and awaited first.                              *)
AbortChild(s) ==
  /\ runner = "iterating" /\ s \in Taken(registry)
  /\ tasks' = [tasks EXCEPT ![s] = "none"]
  /\ IF registry[s].settled THEN UNCHANGED <<sessions, registry, dirty>>
     ELSE sessions' = Terminated(registry[s].session) /\ Settles(s)
  /\ UNCHANGED <<disk, ended, turns, abort, runner, held, faults>>
-----------------------------------------------------------------------------
(* _drive_child.                                                           *)
Child(s) == registry[s].session
Advancing == {s \in Slots : tasks[s] \in {"iterating", "finalising"}}

Queue(s) ==
  /\ tasks[s] = "ready" /\ Open(Child(s))
  /\ tasks' = [tasks EXCEPT ![s] = "queued"]
  /\ UNCHANGED <<sessions, disk, ended, turns, abort, runner, held, registry, dirty, faults>>

(* An error of the engine: the policy is not consulted.                    *)
Gives(s, iters) ==
  /\ registry' = [registry EXCEPT ![s] = Settled(@, iters)]
  /\ dirty' = TRUE
  /\ tasks' = [tasks EXCEPT ![s] = "none"]

(* The engine refuses a session that was ended meanwhile.                  *)
BeginIteration(s) ==
  /\ tasks[s] = "queued" /\ Cardinality(Advancing) < MaxConcurrent
  /\ IF Open(Child(s))
     THEN tasks' = [tasks EXCEPT ![s] = "iterating"] /\ UNCHANGED <<registry, dirty>>
     ELSE Gives(s, sessions[Child(s)].iters)
  /\ UNCHANGED <<sessions, disk, ended, turns, abort, runner, held, faults>>

(* The engine saves the session as it loaded it, with one iteration more,  *)
(* and again once it has written the report of a terminal one.             *)
SaveIteration(s) ==
  /\ tasks[s] = "iterating"
  /\ sessions' = [sessions EXCEPT ![Child(s)].state = "open", ![Child(s)].iters = @ + 1]
  /\ \E terminal \in {FALSE, TRUE} :
       /\ sessions[Child(s)].iters + 1 >= sessions[Child(s)].cap => terminal
       /\ tasks' = [tasks EXCEPT ![s] = IF terminal THEN "finalising" ELSE "ready"]
  /\ UNCHANGED <<disk, ended, turns, abort, runner, held, registry, dirty, faults>>

(* The cap is looked at before the criteria.                               *)
FinaliseIteration(s) ==
  /\ tasks[s] = "finalising"
  /\ \E verdict \in {"met", "unmet"} :
       /\ sessions[Child(s)].iters >= sessions[Child(s)].cap => verdict = "unmet"
       /\ sessions' = [sessions EXCEPT ![Child(s)].state = verdict]
  /\ tasks' = [tasks EXCEPT ![s] = "ready"]
  /\ UNCHANGED <<disk, ended, turns, abort, runner, held, registry, dirty, faults>>

(* A phase raises: the iteration counts.                                   *)
FailIteration(s) ==
  /\ tasks[s] = "iterating" /\ Spend
  /\ sessions' = [sessions EXCEPT ![Child(s)].state = "unmet", ![Child(s)].iters = @ + 1]
  /\ Gives(s, sessions[Child(s)].iters + 1)
  /\ UNCHANGED <<disk, ended, turns, abort, runner, held>>

ShouldRespawn(e) ==
  sessions[e.session].state = "unmet" /\ Cardinality(e.prior) < e.max

(* The replacement has the budget of the session it replaces.  Schedules   *)
(* finds the driver of the slot, which is this one, and it ends here.      *)
RespawnOrDeny(s, r) ==
  LET cap == sessions[r[s].session].cap IN
  /\ IF Admits(r, cap)
     THEN \E i \in Sessions :
            /\ Makes(i, cap)
            /\ registry' = [r EXCEPT ![s] = Respawned(@, i, cap)]
     ELSE registry' = r /\ dirty' = TRUE /\ UNCHANGED sessions
  /\ tasks' = [tasks EXCEPT ![s] = "none"]

EndDriver(s) ==
  /\ tasks[s] = "ready" /\ ~Open(Child(s))
  /\ LET e == Settled(registry[s], sessions[Child(s)].iters)
         r == [registry EXCEPT ![s] = e]
     IN \/ /\ ~ShouldRespawn(e)
           /\ registry' = r /\ dirty' = TRUE /\ UNCHANGED sessions
           /\ tasks' = [tasks EXCEPT ![s] = "none"]
        \/ /\ ShouldRespawn(e) /\ s \in Revised
           /\ registry' = r /\ dirty' = TRUE /\ UNCHANGED sessions
           /\ tasks' = [tasks EXCEPT ![s] = "revising"]
        \/ ShouldRespawn(e) /\ s \notin Revised /\ RespawnOrDeny(s, r)
  /\ UNCHANGED <<disk, ended, turns, abort, runner, held, faults>>

(* The directive of the replacement has been revised, meanwhile.           *)
Revise(s) ==
  /\ tasks[s] = "revising"
  /\ RespawnOrDeny(s, registry)
  /\ UNCHANGED <<disk, ended, turns, abort, runner, held, faults>>
-----------------------------------------------------------------------------
(* abort_swarm, from another process, with or without a runner: it loads   *)
(* the orchestrator, then closes the children it finds in it one by one,   *)
(* and last saves the orchestrator as it loaded it.                        *)
AbortBegins ==
  /\ ~abort.on /\ abort.calls < MaxAborts /\ ~ended
  /\ abort' = [on |-> TRUE, books |-> disk, calls |-> abort.calls + 1]
  /\ UNCHANGED <<sessions, disk, ended, turns, runner, held, registry, dirty, tasks, faults>>

AbortCloses(s) ==
  /\ abort.on /\ s \in Live(abort.books)
  /\ LET i == abort.books[s].session IN
       /\ sessions' = Terminated(i)
       /\ abort' = [abort EXCEPT !.books[s] = Settled(@, sessions[i].iters)]
  /\ UNCHANGED <<disk, ended, turns, runner, held, registry, dirty, tasks, faults>>

AbortStops == abort' = [abort EXCEPT !.on = FALSE, !.books = Empty]

\* Faulty: the orchestrator is left as it was, for a runner to resume.
AbortSpares ==
  /\ abort.on /\ Live(abort.books) = {}
  /\ disk' = abort.books
  /\ AbortStops
  /\ UNCHANGED <<sessions, ended, turns, runner, held, registry, dirty, tasks, faults>>

\* Faulty: some of the children are passed over.
AbortPasses ==
  /\ abort.on
  /\ disk' = abort.books /\ ended' = TRUE
  /\ AbortStops
  /\ UNCHANGED <<sessions, turns, runner, held, registry, dirty, tasks, faults>>

AbortEnds ==
  /\ abort.on /\ Live(abort.books) = {}
  /\ disk' = abort.books /\ ended' = TRUE
  /\ AbortStops
  /\ UNCHANGED <<sessions, turns, runner, held, registry, dirty, tasks, faults>>

(* It dies, or a flush that is under way overwrites its last save.         *)
AbortDies ==
  /\ abort.on /\ Spend
  /\ AbortStops
  /\ UNCHANGED <<sessions, disk, ended, turns, runner, held, registry, dirty, tasks>>

Next ==
  \/ Start \/ Proceed \/ StandDown \/ Turn \/ SaveTurn \/ FinaliseTurn \/ Flush
  \/ Detach \/ RefuseTurn \/ FailTurn \/ Crash
  \/ \E s \in Slots : CascadeChild(s)
  \/ EndCascade
  \/ \E name \in Names, cap \in Caps : Spawn(name, cap)
  \/ \E s \in Slots :
       \/ AbortChild(s) \/ Queue(s) \/ BeginIteration(s) \/ SaveIteration(s)
       \/ FinaliseIteration(s) \/ FailIteration(s) \/ EndDriver(s) \/ Revise(s)
  \/ AbortBegins \/ AbortEnds \/ AbortDies
  \/ \E s \in Slots : AbortCloses(s)

Spec == Init /\ [][Next]_swarmVars
-----------------------------------------------------------------------------
(* What a session holds of the pool: its cap until it is over, then what   *)
(* it recorded of that.                                                    *)
Holdings ==
  [i \in Sessions |->
     IF Open(i) THEN sessions[i].cap ELSE Least(sessions[i].iters, sessions[i].cap)]

(* The sessions of an entry that are accounted for. *)
Closed(e) == IF e.settled THEN Own(e) ELSE e.prior

(* Whatever crashed, was adopted, respawned or aborted from outside: the   *)
(* children never hold more than the pool, and no more of them than        *)
(* max_children are open.                                                  *)
LimitsHold ==
  /\ SumFunctionOnSet(Holdings, Made) <= Pool
  /\ Cardinality({i \in Made : Open(i)}) <= MaxChildren

(* A runner's registry owns every session, each in one slot, and a slot is *)
(* charged for what its closed sessions recorded.                          *)
AccountsAgree ==
  Driving =>
    /\ Owned(registry) = Made
    /\ \A s, q \in Taken(registry) :
         s # q => Own(registry[s]) \intersect Own(registry[q]) = {}
    /\ \A s \in Taken(registry) :
         registry[s].consumed = SumFunctionOnSet(Holdings, Closed(registry[s]))

(* A runner that came to the end of its cascade leaves no child open and   *)
(* no slot unsettled, whatever an abort from outside closed, saved or left *)
(* out meanwhile, and the file has no unsettled slot either.               *)
CleanEnd ==
  runner = "done" =>
    /\ ended /\ \A i \in Made : ~Open(i)
    /\ Live(registry) = {} /\ Live(disk) = {}

(* swarm_runner.py:917 "A live runner observing the terminal orchestrator  *)
(* at its next boundary stands down; its own cascade then finds the        *)
(* children already terminal."                                             *)
AbortIsThorough ==
  faults = 0 /\ ended /\ ~abort.on /\ runner = "down" => \A i \in Made : ~Open(i)

(* swarm_runner.py:414 "Admit, persist, register, and schedule one child." *)
LiveIsDriven ==
  runner \in {"waiting", "iterating"} /\ ~ended =>
    \A s \in Live(registry) : tasks[s] # "none"
=============================================================================

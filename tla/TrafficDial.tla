---------------------------- MODULE TrafficDial ----------------------------
(***************************************************************************)
(* The traffic dial controller: scheduled passes that read the dials, the  *)
(* operators' overrides and the health of every region, decide one dial    *)
(* per region and write those that change; and the operator, who sets a    *)
(* dial and records the override in two calls, and clears it.              *)
(*                                                                         *)
(* One action is one call.  What a pass has read is in pass, and is old    *)
(* when it writes.  Nothing keeps a pass from outliving the interval of    *)
(* the schedule, so several may be in flight.                              *)
(*                                                                         *)
(* A definition introduced by "Faulty:" is not part of the model.  It is a *)
(* plausible mistake in the definition that follows it, which the runs     *)
(* named in PROJECT.json must notice.                                      *)
(***************************************************************************)
EXTENDS Integers, FiniteSets

CONSTANTS
  Regions,      \* the workload regions, each with its endpoint group
  Order,        \* the order of their names
  Passes,       \* invocations of the handler that may be in flight at once
  MinDial,      \* MIN_DIAL_PERCENTAGE
  MaxStep,      \* MAX_STEP_PERCENTAGE
  FullHealth,   \* FULL_HEALTH_PERCENTAGE
  Readings,     \* the healthy percents a window may average to
  Settings,     \* the percents an operator may dial a region to
  MaxFaults,    \* bound: failed or lost calls and crashes in a behaviour
  MaxSets       \* bound: manual settings in a behaviour

Percent == 0 .. 100
Full == 100
None == -1    \* no datapoint in the window, or no override

ASSUME DialAssumption ==
  /\ MinDial \in Percent /\ MaxStep \in 1 .. 100 /\ FullHealth \in 1 .. 100
  /\ Readings \subseteq Percent /\ Settings \subseteq Percent
  /\ MaxFaults \in Nat /\ MaxSets \in Nat
ASSUME OrderAssumption ==
  /\ Regions # {} /\ IsFiniteSet(Regions)
  /\ Order \in [Regions -> 1 .. Cardinality(Regions)]
  /\ \A r, q \in Regions : Order[r] = Order[q] => r = q

VARIABLES
  dial,      \* TrafficDialPercentage of each endpoint group
  deployed,  \* the accelerator's status is DEPLOYED
  override,  \* the override parameters
  health,    \* what the window of each region averages to now
  pass,      \* the invocations
  manual,    \* a running "traffic-dial set", between its two calls
  faults,    \* faults spent so far
  sets,      \* manual settings so far
  calm,      \* history: since a pass began, alone, nothing else touched a
             \* dial or an override, and no fault occurred
  firm       \* history: overrides set while no pass was in flight

dialVars == <<dial, deployed, override, health, pass, manual, faults, sets, calm, firm>>

PassPlaces == {"idle", "list", "decide", "apply"}

TypeOK ==
  /\ dial \in [Regions -> Percent] /\ deployed \in BOOLEAN
  /\ override \in [Regions -> Percent \union {None}]
  /\ health \in [Regions -> Readings \union {None}]
  /\ pass \in [Passes -> [at: PassPlaces, dial: [Regions -> Percent], todo: SUBSET Regions]]
  /\ \A p \in Passes : pass[p].todo # {} => pass[p].at = "apply"
  /\ manual \in [at: {"none", "record"}, region: Regions, to: Percent, alone: BOOLEAN]
  /\ faults \in 0 .. MaxFaults /\ sets \in 0 .. MaxSets
  /\ calm \in BOOLEAN /\ firm \in SUBSET Regions

-----------------------------------------------------------------------------
(* Decisions *)

\* Faulty: the threshold itself does not count as healthy.
TargetAbove(h) ==
  IF h > FullHealth THEN Full ELSE IF h < MinDial THEN MinDial ELSE h

Target(h) ==
  IF h >= FullHealth THEN Full ELSE IF h < MinDial THEN MinDial ELSE h

(* A change of the dial is bounded in both directions. *)
Step(current, target) ==
  CASE target > current + MaxStep -> current + MaxStep
    [] target < current - MaxStep -> current - MaxStep
    [] OTHER                      -> target

(* A region without a signal keeps its dial, as an overridden one does. *)
Computed(listed, pinned, h) ==
  [r \in Regions |->
     IF r \in pinned \/ h[r] = None THEN listed[r] ELSE Step(listed[r], Target(h[r]))]

(* The best signal among S; the later name decides between equals. *)
Best(S, h) ==
  CHOOSE r \in S : \A q \in S : h[q] < h[r] \/ (h[q] = h[r] /\ Order[q] <= Order[r])

\* Faulty: the lifted region observes the step limit too.
LiftedGradually(current) == Step(current, Full)

(* Dialing up is safe: the step limit does not apply. *)
Lifted(current) == Full

(* If every dial the controller decides on falls below 100, and no override *)
(* holds one there, the best region is dialed to 100 at once.               *)
Guarded(listed, pinned, h) ==
  LET new == Computed(listed, pinned, h)
      S == Regions \ pinned
  IN  IF \/ S = {} \/ \E r \in S : new[r] = Full
         \/ \E r \in pinned : listed[r] = Full
        THEN new
        ELSE [new EXCEPT ![Best(S, h)] = Lifted(listed[Best(S, h)])]
-----------------------------------------------------------------------------
(* A pass *)

Asleep == [at |-> "idle", dial |-> [r \in Regions |-> Full], todo |-> {}]
NoManual == [at |-> "none", region |-> CHOOSE r \in Regions : TRUE, to |-> 0, alone |-> FALSE]

Put(p, record) == pass' = [pass EXCEPT ![p] = record]
Flying(S) == \E p \in S : pass[p].at # "idle"
NoFault == UNCHANGED faults
Fault == faults < MaxFaults /\ faults' = faults + 1

(* A pass that finds the accelerator in the middle of a deployment ends.   *)
Begin(p) ==
  /\ pass[p].at = "idle" /\ deployed
  /\ Put(p, [pass[p] EXCEPT !.at = "list"])
  /\ calm' = ~Flying(Passes)
  /\ manual' = [manual EXCEPT !.alone = FALSE]
  /\ NoFault /\ UNCHANGED <<dial, deployed, override, health, sets, firm>>

List(p) ==
  /\ pass[p].at = "list"
  /\ Put(p, [pass[p] EXCEPT !.at = "decide", !.dial = dial])
  /\ NoFault /\ UNCHANGED <<dial, deployed, override, health, manual, sets, calm, firm>>

\* Faulty: a region overridden to 0 passes for one without an override.
PinnedUnlessZero == {r \in Regions : override[r] # None /\ override[r] # 0}

Pinned == {r \in Regions : override[r] # None}

(* The overrides and the signals are read, and every dial decided.  Signals *)
(* change on their own, so when each was read makes no difference.          *)
Decide(p) ==
  LET listed == pass[p].dial
      new == Guarded(listed, Pinned, health)
  IN  /\ pass[p].at = "decide"
      /\ Put(p, [at |-> "apply", dial |-> new,
                 todo |-> {r \in Regions \ Pinned : new[r] # listed[r]}])
      /\ NoFault /\ UNCHANGED <<dial, deployed, override, health, manual, sets, calm, firm>>

Change(r, percent) == dial' = [dial EXCEPT ![r] = percent] /\ deployed' = FALSE

(* The updates go in the order of the names.  One that is refused is       *)
(* counted and the next is tried; any other error ends the pass, whether   *)
(* the update took effect or not.                                          *)
Apply(p) ==
  \E r \in pass[p].todo :
    /\ \A q \in pass[p].todo : Order[r] <= Order[q]
    /\ \/ /\ Change(r, pass[p].dial[r]) /\ NoFault /\ UNCHANGED calm
          /\ Put(p, [pass[p] EXCEPT !.todo = @ \ {r}])
       \/ /\ UNCHANGED <<dial, deployed>> /\ Fault /\ calm' = FALSE
          /\ Put(p, [pass[p] EXCEPT !.todo = @ \ {r}])
       \/ /\ Change(r, pass[p].dial[r]) /\ Fault /\ calm' = FALSE
          /\ Put(p, Asleep)
    /\ UNCHANGED <<override, health, manual, sets, firm>>

(* What is published is for people to read. *)
Finish(p) ==
  /\ pass[p].at = "apply" /\ pass[p].todo = {}
  /\ Put(p, Asleep)
  /\ NoFault /\ UNCHANGED <<dial, deployed, override, health, manual, sets, calm, firm>>

(* An error of any call, a time-out or a crash. *)
Abandon(p) ==
  /\ pass[p].at # "idle"
  /\ Fault /\ Put(p, Asleep) /\ calm' = FALSE
  /\ UNCHANGED <<dial, deployed, override, health, manual, sets, firm>>
-----------------------------------------------------------------------------
(* The operator, and the world. *)

(* A set first moves the dial.  When the answer is lost it gives up. *)
SetDial(r, percent) ==
  /\ manual.at = "none" /\ sets < MaxSets
  /\ sets' = sets + 1
  /\ Change(r, percent)
  /\ \/ /\ NoFault
        /\ manual' = [at |-> "record", region |-> r, to |-> percent,
                      alone |-> ~Flying(Passes)]
     \/ Fault /\ UNCHANGED manual
  /\ calm' = FALSE /\ firm' = firm \ {r}
  /\ UNCHANGED <<override, health, pass>>

(* Then it records the override, unless that fails. *)
RecordOverride ==
  /\ manual.at = "record"
  /\ manual' = NoManual
  /\ \/ /\ NoFault /\ override' = [override EXCEPT ![manual.region] = manual.to]
        /\ firm' = IF manual.alone THEN firm \union {manual.region} ELSE firm
     \/ Fault /\ UNCHANGED <<override, firm>>
  /\ UNCHANGED <<dial, deployed, health, pass, sets, calm>>

ClearOverride(r) ==
  /\ override[r] # None
  /\ override' = [override EXCEPT ![r] = None]
  /\ calm' = FALSE /\ firm' = firm \ {r}
  /\ NoFault /\ UNCHANGED <<dial, deployed, health, pass, manual, sets>>

Deploy ==
  /\ ~deployed /\ deployed' = TRUE
  /\ NoFault /\ UNCHANGED <<dial, override, health, pass, manual, sets, calm, firm>>

HealthChanges(r) ==
  /\ \E h \in Readings \union {None} : h # health[r] /\ health' = [health EXCEPT ![r] = h]
  /\ NoFault /\ UNCHANGED <<dial, deployed, override, pass, manual, sets, calm, firm>>
-----------------------------------------------------------------------------
Init ==
  /\ dial = [r \in Regions |-> Full] /\ deployed = TRUE
  /\ override = [r \in Regions |-> None] /\ health = [r \in Regions |-> None]
  /\ pass = [p \in Passes |-> Asleep] /\ manual = NoManual
  /\ faults = 0 /\ sets = 0
  /\ calm = TRUE /\ firm = {}

Works(p) == List(p) \/ Decide(p) \/ Apply(p) \/ Finish(p)

Next ==
  \/ \E p \in Passes : Begin(p) \/ Works(p) \/ Abandon(p)
  \/ \E r \in Regions : \/ \E percent \in Settings : SetDial(r, percent)
                        \/ ClearOverride(r) \/ HealthChanges(r)
  \/ RecordOverride \/ Deploy

Spec == Init /\ [][Next]_dialVars

(* The schedule goes on, an invocation that is not cut off ends, and the   *)
(* accelerator ends its deployments.  The operator owes nothing.           *)
FairSpec ==
  /\ Spec
  /\ WF_dialVars(\E p \in Passes : Begin(p)) /\ WF_dialVars(Deploy)
  /\ \A p \in Passes : WF_dialVars(Works(p))
-----------------------------------------------------------------------------
(* Every pass that ran alone and without a fault has left some region      *)
(* fully dialed, whatever state faults, overlapping passes and operators   *)
(* had left behind before it, unless every region is overridden.           *)
AbsorberKept ==
  calm /\ ~Flying(Passes) =>
    \/ \E r \in Regions : dial[r] = Full
    \/ \A r \in Regions : override[r] # None

(* An override holds its region's dial until it is cleared, if no pass was *)
(* in flight when it was set.                                              *)
OverridesHold == \A r \in firm : dial[r] = override[r]

(* A region that stays healthy and is not overridden is fully dialed in    *)
(* the end, and stays so, whatever becomes of the others.                  *)
RegionReturns ==
  \A r \in Regions :
    <>[](health[r] >= FullHealth /\ override[r] = None) => <>[](dial[r] = Full)

(* traffic-dial-controller/README.md:100 "Manual overrides always win":    *)
(* once no pass and no set is under way, an overridden region has its dial. *)
OverridesAlwaysWin ==
  ~Flying(Passes) /\ manual.at = "none" =>
    \A r \in Regions : override[r] # None => dial[r] = override[r]
=============================================================================

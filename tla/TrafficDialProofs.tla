-------------------------- MODULE TrafficDialProofs --------------------------
(***************************************************************************)
(* What holds of the traffic dials for any regions, any number of passes   *)
(* in flight, settings, signals and faults.                                *)
(***************************************************************************)
EXTENDS TrafficDial, TLAPS, FiniteSetTheorems, WellFoundedInduction

(* An override that is firm holds the dial, and no pass is going to move   *)
(* it; nor is one in flight around a set that was begun alone.             *)
Held ==
  /\ \A r \in firm :
       /\ override[r] # None /\ dial[r] = override[r]
       /\ \A p \in Passes : pass[p].at = "apply" => r \notin pass[p].todo
  /\ manual.at = "record" =>
       /\ manual.region \notin firm
       /\ manual.alone => dial[manual.region] = manual.to /\ ~Flying(Passes)

(* What the dials will be once p has written what it still means to.       *)
Goal(p) ==
  [r \in Regions |-> IF pass[p].at = "apply" /\ r \in pass[p].todo
                     THEN pass[p].dial[r] ELSE dial[r]]

Absorbed(d) == (\E r \in Regions : d[r] = Full) \/ \A r \in Regions : override[r] # None

(* A calm pass is the only one, works from the dials as they are, and      *)
(* leaves some region fully dialed.                                        *)
CalmPass ==
  calm =>
    /\ \A p, q \in Passes : pass[p].at # "idle" /\ pass[q].at # "idle" => p = q
    /\ \A p \in Passes : pass[p].at = "decide" => pass[p].dial = dial
    /\ \A p \in Passes : pass[p].at = "apply" => Absorbed(Goal(p))
    /\ ~Flying(Passes) => Absorbed(dial)
-----------------------------------------------------------------------------
(* Decisions *)

(* Every nonempty set of naturals has a least element.                     *)
LEMMA LeastNat ==
  ASSUME NEW T \in SUBSET Nat, T # {}
  PROVE  \E n \in T : \A m \in T : n <= m
<1>1. PICK n \in T : \A m \in T : ~ (<<m, n>> \in OpToRel(<, Nat))
  <2>1. IsWellFoundedOn(OpToRel(<, Nat), Nat)
    BY NatLessThanWellFounded
  <2> QED BY <2>1, WFMin
<1>2. ASSUME NEW m \in T, m < n PROVE FALSE
  <2>1. <<m, n>> \in OpToRel(<, Nat)
    BY <1>2 DEF OpToRel
  <2> QED BY <1>1, <2>1
<1> QED BY <1>2

LEMMA SignalsTyped ==
  \A g \in Readings \union {None} : g \in Int /\ g <= 100 /\ (g # None => g \in Percent)
<1>1. Readings \subseteq Percent
  BY DialAssumption
<1> QED BY <1>1 DEF Percent, None

(* Among some regions there is one with the best signal.                   *)
LEMMA BestExists ==
  ASSUME NEW S \in SUBSET Regions, S # {}, NEW h \in [Regions -> Readings \union {None}]
  PROVE  Best(S, h) \in S
<1> DEFINE N == Cardinality(Regions)
           A == {100 - h[r] : r \in S}
<1>1. N \in Nat
  BY OrderAssumption, FS_CardinalityType
<1>r. ASSUME NEW r \in S PROVE h[r] \in Int /\ h[r] <= 100 /\ Order[r] \in Int
  BY SignalsTyped, OrderAssumption, h[r] \in Readings \union {None}
<1>2. A \in SUBSET Nat /\ A # {}
  BY <1>r
<1>3. PICK a \in A : \A b \in A : a <= b
  BY <1>2, LeastNat
<1> DEFINE B == {N - Order[r] : r \in {q \in S : 100 - h[q] = a}}
<1>4. B \in SUBSET Nat /\ B # {}
  BY <1>1, <1>3, OrderAssumption
<1>5. PICK b \in B : \A c \in B : b <= c
  <2> HIDE DEF B
  <2> QED BY <1>4, LeastNat
<1>6. PICK r \in S : 100 - h[r] = a /\ N - Order[r] = b
  BY <1>5
<1>7. ASSUME NEW q \in S
      PROVE  h[q] < h[r] \/ (h[q] = h[r] /\ Order[q] <= Order[r])
  <2>2. 100 - h[r] <= 100 - h[q]
    BY <1>3, <1>6
  <2>3. h[q] = h[r] => N - Order[r] <= N - Order[q]
    BY <1>5, <1>6
  <2> QED BY <1>1, <1>r, <2>2, <2>3
<1> QED BY <1>7 DEF Best

(* Every decision is a percentage.                                         *)
LEMMA DecisionsTyped ==
  ASSUME NEW listed \in [Regions -> Percent], NEW pinned \in SUBSET Regions,
         NEW h \in [Regions -> Readings \union {None}]
  PROVE  /\ Computed(listed, pinned, h) \in [Regions -> Percent]
         /\ Guarded(listed, pinned, h) \in [Regions -> Percent]
<1>1. \A g \in Percent : Target(g) \in Percent
  BY DialAssumption DEF Target, Percent, Full
<1>2. ASSUME NEW c \in Percent, NEW t \in Percent PROVE Step(c, t) \in Percent
  <2>1. MaxStep \in 1 .. 100
    BY DialAssumption
  <2>2. CASE t > c + MaxStep
    <3>1. ~(t < c - MaxStep) /\ c + MaxStep \in Percent
      BY <2>1, <2>2 DEF Percent
    <3> QED BY <2>2, <3>1, Zenon DEF Step
  <2>3. CASE t < c - MaxStep
    <3>1. ~(t > c + MaxStep) /\ c - MaxStep \in Percent
      BY <2>1, <2>3 DEF Percent
    <3> QED BY <2>3, <3>1, Zenon DEF Step
  <2>4. CASE ~(t > c + MaxStep) /\ ~(t < c - MaxStep)
    BY <2>4 DEF Step
  <2> QED BY <2>2, <2>3, <2>4
<1>3. \A r \in Regions : h[r] # None => h[r] \in Percent
  BY SignalsTyped
<1>4. Computed(listed, pinned, h) \in [Regions -> Percent]
  BY <1>1, <1>2, <1>3 DEF Computed
<1>5. Guarded(listed, pinned, h) \in [Regions -> Percent]
  <2>1. ASSUME NEW r \in Regions
        PROVE  [Computed(listed, pinned, h) EXCEPT ![r] = Full] \in [Regions -> Percent]
    BY <1>4 DEF Full, Percent
  <2>2. Regions \ pinned # {} => Best(Regions \ pinned, h) \in Regions
    BY BestExists
  <2> QED BY <1>4, <2>1, <2>2 DEF Guarded, Lifted
<1> QED BY <1>4, <1>5

(* The guard: whatever the signals, a region is fully dialed after it, or  *)
(* every one is overridden; and overridden regions keep their dials.       *)
LEMMA GuardHolds ==
  ASSUME NEW listed \in [Regions -> Percent], NEW pinned \in SUBSET Regions,
         NEW h \in [Regions -> Readings \union {None}]
  PROVE  /\ (\E r \in Regions : Guarded(listed, pinned, h)[r] = Full) \/ pinned = Regions
         /\ \A r \in pinned : Guarded(listed, pinned, h)[r] = listed[r]
<1> DEFINE new == Computed(listed, pinned, h)
           S == Regions \ pinned
<1>1. new \in [Regions -> Percent] /\ \A r \in pinned : new[r] = listed[r]
  BY DecisionsTyped DEF Computed
<1>2. CASE S = {} \/ \E r \in S : new[r] = Full
  BY <1>1, <1>2 DEF Guarded
<1>3. CASE \E r \in pinned : listed[r] = Full
  BY <1>1, <1>3 DEF Guarded
<1>4. CASE /\ S # {} /\ ~ \E r \in S : new[r] = Full
           /\ ~ \E r \in pinned : listed[r] = Full
  <2>1. Best(S, h) \in S
    BY <1>4, BestExists
  <2>2. Guarded(listed, pinned, h) = [new EXCEPT ![Best(S, h)] = Full]
    BY <1>4 DEF Guarded, Lifted
  <2> QED BY <1>1, <2>1, <2>2
<1> QED BY <1>2, <1>3, <1>4
-----------------------------------------------------------------------------
(* Types *)

LEMMA InitType == Init => TypeOK
<1>1. Full \in Percent /\ 0 \in Percent
  BY DEF Full, Percent
<1>2. (CHOOSE r \in Regions : TRUE) \in Regions
  BY OrderAssumption
<1> QED BY <1>1, <1>2, DialAssumption DEF Init, TypeOK, Asleep, NoManual, PassPlaces

LEMMA AsleepTyped ==
  /\ Asleep \in [at: PassPlaces, dial: [Regions -> Percent], todo: SUBSET Regions]
  /\ NoManual \in [at: {"none", "record"}, region: Regions, to: Percent, alone: BOOLEAN]
<1>1. Full \in Percent /\ 0 \in Percent
  BY DEF Full, Percent
<1>2. (CHOOSE r \in Regions : TRUE) \in Regions
  BY OrderAssumption
<1> QED BY <1>1, <1>2 DEF Asleep, NoManual, PassPlaces

LEMMA FaultTyped ==
  ASSUME TypeOK, NoFault \/ Fault PROVE faults' \in 0 .. MaxFaults
BY DialAssumption DEF TypeOK, NoFault, Fault

LEMMA WorkType ==
  ASSUME TypeOK, NEW p \in Passes, Begin(p) \/ Works(p) \/ Abandon(p)
  PROVE  TypeOK'
<1>0. pass[p] \in [at: PassPlaces, dial: [Regions -> Percent], todo: SUBSET Regions]
  BY DEF TypeOK
<1>1. CASE Begin(p)
  BY <1>0, <1>1 DEF TypeOK, Begin, Put, NoFault, PassPlaces, Flying
<1>2. CASE List(p)
  BY <1>0, <1>2 DEF TypeOK, List, Put, NoFault, PassPlaces
<1>3. CASE Decide(p)
  <2>1. Pinned \in SUBSET Regions
    BY DEF Pinned
  <2>2. Guarded(pass[p].dial, Pinned, health) \in [Regions -> Percent]
    BY <1>0, <2>1, DecisionsTyped DEF TypeOK
  <2> QED BY <1>3, <2>2 DEF TypeOK, Decide, Put, NoFault, PassPlaces
<1>4. CASE Apply(p)
  <2> PICK r \in pass[p].todo : Apply(p)!(r)
    BY <1>4 DEF Apply
  <2>1. r \in Regions /\ pass[p].dial[r] \in Percent /\ [pass[p] EXCEPT !.todo = @ \ {r}]
          \in [at: PassPlaces, dial: [Regions -> Percent], todo: SUBSET Regions]
    BY <1>0
  <2>2. pass' \in [Passes -> [at: PassPlaces, dial: [Regions -> Percent], todo: SUBSET Regions]]
    BY <2>1, AsleepTyped DEF TypeOK, Put
  <2>3. dial' \in [Regions -> Percent] /\ deployed' \in BOOLEAN /\ calm' \in BOOLEAN
    BY <2>1 DEF TypeOK, Change
  <2>4. faults' \in 0 .. MaxFaults
    BY FaultTyped
  <2>5. \A q \in Passes : pass'[q].todo # {} => pass'[q].at = "apply"
    BY <1>0 DEF TypeOK, Put, Asleep
  <2> QED BY <2>2, <2>3, <2>4, <2>5 DEF TypeOK
<1>5. ASSUME pass' = [pass EXCEPT ![p] = Asleep]
      PROVE  /\ pass' \in [Passes -> [at: PassPlaces, dial: [Regions -> Percent], todo: SUBSET Regions]]
             /\ \A q \in Passes : pass'[q].todo # {} => pass'[q].at = "apply"
  BY <1>5, AsleepTyped DEF TypeOK, Asleep
<1>6. CASE Finish(p)
  BY <1>5, <1>6 DEF TypeOK, Finish, Put, NoFault
<1>7. CASE Abandon(p)
  BY <1>5, <1>7, FaultTyped DEF TypeOK, Abandon, Put
<1> QED BY <1>1, <1>2, <1>3, <1>4, <1>6, <1>7 DEF Works

LEMMA OperatorType ==
  ASSUME TypeOK, NEW r \in Regions,
         \/ \E percent \in Settings : SetDial(r, percent)
         \/ RecordOverride \/ ClearOverride(r) \/ HealthChanges(r) \/ Deploy
  PROVE  TypeOK'
<1>1. ASSUME NEW percent \in Settings, SetDial(r, percent) PROVE TypeOK'
  <2>1. percent \in Percent
    BY DialAssumption
  <2>2. faults' \in 0 .. MaxFaults
    BY <1>1, FaultTyped DEF SetDial
  <2>3. sets' \in 0 .. MaxSets
    BY <1>1, DialAssumption DEF SetDial, TypeOK
  <2>4. manual' \in [at: {"none", "record"}, region: Regions, to: Percent, alone: BOOLEAN]
    <3>1. PICK alone \in BOOLEAN : alone <=> ~Flying(Passes)
      BY Zenon DEF Flying
    <3>2. \/ manual' = [at |-> "record", region |-> r, to |-> percent, alone |-> alone]
          \/ manual' = manual
      BY <1>1, <3>1, Zenon DEF SetDial
    <3> QED BY <2>1, <3>2 DEF TypeOK
  <2> QED BY <1>1, <2>1, <2>2, <2>3, <2>4 DEF SetDial, TypeOK, Change
<1>2. CASE RecordOverride
  <2>1. faults' \in 0 .. MaxFaults
    BY <1>2, FaultTyped DEF RecordOverride
  <2> QED BY <1>2, <2>1, AsleepTyped DEF RecordOverride, TypeOK
<1>3. CASE ClearOverride(r)
  BY <1>3 DEF ClearOverride, TypeOK, NoFault
<1>4. CASE HealthChanges(r)
  BY <1>4 DEF HealthChanges, TypeOK, NoFault
<1>5. CASE Deploy
  BY <1>5 DEF Deploy, TypeOK, NoFault
<1> QED BY <1>1, <1>2, <1>3, <1>4, <1>5

LEMMA NextType == TypeOK /\ [Next]_dialVars => TypeOK'
<1> SUFFICES ASSUME TypeOK, [Next]_dialVars PROVE TypeOK'
  OBVIOUS
<1>1. ASSUME NEW p \in Passes, Begin(p) \/ Works(p) \/ Abandon(p) PROVE TypeOK'
  BY <1>1, WorkType
<1>2. ASSUME NEW r \in Regions,
             \/ \E percent \in Settings : SetDial(r, percent)
             \/ ClearOverride(r) \/ HealthChanges(r)
      PROVE  TypeOK'
  BY <1>2, OperatorType
<1>3. CASE RecordOverride \/ Deploy
  BY <1>3, OperatorType, OrderAssumption
<1>4. CASE UNCHANGED dialVars
  BY <1>4 DEF dialVars, TypeOK
<1> QED BY <1>1, <1>2, <1>3, <1>4 DEF Next

(* Type correctness: dials and decisions are percentages, and what a pass  *)
(* and an operator hold between two calls has its shape.                   *)
THEOREM TypeCorrect == Spec => []TypeOK
BY InitType, NextType, PTL DEF Spec
-----------------------------------------------------------------------------
(* Overrides *)

LEMMA InitHeld == Init => Held
BY DEF Init, Held, NoManual

LEMMA WorkHeld ==
  ASSUME TypeOK, Held, NEW p \in Passes, Begin(p) \/ Works(p) \/ Abandon(p)
  PROVE  Held'
<1> USE DEF Put, Flying
<1>1. CASE Begin(p)
  BY <1>1 DEF TypeOK, Held, Begin
<1>2. CASE List(p)
  BY <1>2 DEF TypeOK, Held, List
<1>3. CASE Decide(p)
  <2>1. firm \subseteq Pinned
    BY DEF TypeOK, Held, Pinned
  <2> QED BY <1>3, <2>1 DEF TypeOK, Held, Decide
<1>4. CASE Apply(p)
  <2> PICK r \in pass[p].todo : Apply(p)!(r)
    BY <1>4 DEF Apply
  <2>1. pass[p].at = "apply" /\ r \in Regions
    BY <1>4 DEF Apply, TypeOK
  <2>2. r \notin firm /\ (manual.at = "record" => ~manual.alone)
    BY <2>1 DEF Held
  <2>3. UNCHANGED <<override, manual, firm>> /\ \A q \in Regions : q # r => dial'[q] = dial[q]
    BY DEF Change, TypeOK
  <2>4. \A q \in Passes : pass'[q].at = "apply" =>
          pass[q].at = "apply" /\ pass'[q].todo \subseteq pass[q].todo
    BY <2>1 DEF TypeOK, Asleep
  <2> QED BY <2>2, <2>3, <2>4 DEF Held, TypeOK
<1>5. CASE Finish(p)
  BY <1>5 DEF TypeOK, Held, Finish, Asleep
<1>6. CASE Abandon(p)
  BY <1>6 DEF TypeOK, Held, Abandon, Asleep
<1> QED BY <1>1, <1>2, <1>3, <1>4, <1>5, <1>6 DEF Works

LEMMA OperatorHeld ==
  ASSUME TypeOK, Held, NEW r \in Regions,
         \/ \E percent \in Settings : SetDial(r, percent)
         \/ RecordOverride \/ ClearOverride(r) \/ HealthChanges(r) \/ Deploy
  PROVE  Held'
<1>1. ASSUME NEW percent \in Settings, SetDial(r, percent) PROVE Held'
  <2>1. /\ firm' = firm \ {r} /\ UNCHANGED <<override, pass>>
        /\ \A q \in Regions : dial'[q] = IF q = r THEN percent ELSE dial[q]
    BY <1>1 DEF SetDial, Change, TypeOK
  <2>2. \/ manual'.region = r /\ manual'.to = percent /\ (manual'.alone => ~Flying(Passes))
        \/ manual' = manual /\ manual.at = "none"
    <3>1. PICK alone \in BOOLEAN : alone <=> ~Flying(Passes)
      BY Zenon DEF Flying
    <3>2. \/ manual' = [at |-> "record", region |-> r, to |-> percent, alone |-> alone]
          \/ manual' = manual /\ manual.at = "none"
      BY <1>1, <3>1, Zenon DEF SetDial
    <3> QED BY <3>1, <3>2
  <2>3. ~Flying(Passes) => ~Flying(Passes)'
    BY <2>1 DEF Flying
  <2> QED BY <2>1, <2>2, <2>3 DEF Held, TypeOK
<1>2. CASE RecordOverride
  <2>1. manual.to # None
    BY DEF TypeOK, Percent, None
  <2>2. /\ UNCHANGED <<dial, pass>> /\ manual'.at = "none"
        /\ \/ UNCHANGED <<override, firm>>
           \/ /\ override' = [override EXCEPT ![manual.region] = manual.to]
              /\ firm' = IF manual.alone THEN firm \union {manual.region} ELSE firm
    BY <1>2 DEF RecordOverride, NoManual
  <2>3. /\ manual.region \notin firm
        /\ manual.alone => dial[manual.region] = manual.to /\ ~Flying(Passes)
    BY <1>2 DEF RecordOverride, Held
  <2> QED BY <2>1, <2>2, <2>3 DEF Held, TypeOK, Flying
<1>3. CASE ClearOverride(r)
  BY <1>3 DEF ClearOverride, Held, TypeOK, Flying
<1>4. CASE HealthChanges(r)
  BY <1>4 DEF HealthChanges, Held, Flying
<1>5. CASE Deploy
  BY <1>5 DEF Deploy, Held, Flying
<1> QED BY <1>1, <1>2, <1>3, <1>4, <1>5

LEMMA NextHeld == TypeOK /\ Held /\ [Next]_dialVars => Held'
<1> SUFFICES ASSUME TypeOK, Held, [Next]_dialVars PROVE Held'
  OBVIOUS
<1>1. ASSUME NEW p \in Passes, Begin(p) \/ Works(p) \/ Abandon(p) PROVE Held'
  BY <1>1, WorkHeld
<1>2. ASSUME NEW r \in Regions,
             \/ \E percent \in Settings : SetDial(r, percent)
             \/ ClearOverride(r) \/ HealthChanges(r)
      PROVE  Held'
  BY <1>2, OperatorHeld
<1>3. CASE RecordOverride \/ Deploy
  BY <1>3, OperatorHeld, OrderAssumption
<1>4. CASE UNCHANGED dialVars
  BY <1>4 DEF dialVars, Held, Flying
<1> QED BY <1>1, <1>2, <1>3, <1>4 DEF Next

(* An override that was set while no pass was in flight holds its region's *)
(* dial until it is cleared, however many passes run, overlap and fail.    *)
THEOREM OverridesKept == Spec => []OverridesHold
<1>1. Held => OverridesHold
  BY DEF Held, OverridesHold
<1> QED BY <1>1, InitType, NextType, InitHeld, NextHeld, PTL DEF Spec
-----------------------------------------------------------------------------
(* The absorber *)

LEMMA InitCalm == Init => CalmPass
BY OrderAssumption DEF Init, CalmPass, Asleep, Flying, Absorbed

LEMMA WorkCalm ==
  ASSUME TypeOK, CalmPass, NEW p \in Passes, Begin(p) \/ Works(p) \/ Abandon(p)
  PROVE  CalmPass'
<1> USE DEF Put, Flying
<1>0. pass[p] \in [at: PassPlaces, dial: [Regions -> Percent], todo: SUBSET Regions]
  BY DEF TypeOK
<1>1. CASE Begin(p)
  BY <1>1 DEF TypeOK, CalmPass, Begin
<1>2. CASE List(p)
  BY <1>2 DEF TypeOK, CalmPass, List
<1>3. CASE Decide(p)
  <2> SUFFICES ASSUME calm PROVE CalmPass'
    BY <1>3 DEF Decide, CalmPass
  <2> DEFINE new == Guarded(pass[p].dial, Pinned, health)
  <2>1. new \in [Regions -> Percent] /\ pass[p].dial = dial
    BY <1>0, <1>3, DecisionsTyped DEF TypeOK, Pinned, CalmPass, Decide
  <2>r. Pinned \in SUBSET Regions /\ health \in [Regions -> Readings \union {None}]
    BY DEF TypeOK, Pinned
  <2>2. (\E r \in Regions : new[r] = Full) \/ Pinned = Regions
    BY <1>0, <2>r, GuardHolds
  <2>3. \A r \in Pinned : new[r] = dial[r]
    BY <1>0, <2>1, <2>r, GuardHolds
  <2>4. /\ pass'[p].at = "apply" /\ pass'[p].dial = new /\ UNCHANGED <<dial, override>>
        /\ pass'[p].todo = {r \in Regions \ Pinned : new[r] # dial[r]}
        /\ \A q \in Passes : q # p => pass'[q] = pass[q]
    BY <1>3, <2>1 DEF Decide, TypeOK
  <2> HIDE DEF new
  <2>5. \A r \in Regions : Goal(p)'[r] = new[r]
    BY <2>3, <2>4 DEF Goal
  <2>6. Absorbed(Goal(p))'
    BY <2>2, <2>4, <2>5 DEF Absorbed, Pinned
  <2>7. \A q \in Passes : q # p => pass[q].at = "idle"
    BY <1>3 DEF CalmPass, Decide
  <2> QED BY <2>4, <2>6, <2>7 DEF CalmPass
<1>4. CASE Apply(p)
  <2> SUFFICES ASSUME calm' PROVE CalmPass'
    BY DEF CalmPass
  <2> PICK r \in pass[p].todo : Apply(p)!(r)
    BY <1>4 DEF Apply
  <2>1. pass[p].at = "apply" /\ r \in Regions
    BY <1>4 DEF Apply, TypeOK
  <2>2. /\ calm /\ UNCHANGED override /\ dial' = [dial EXCEPT ![r] = pass[p].dial[r]]
        /\ pass' = [pass EXCEPT ![p] = [pass[p] EXCEPT !.todo = @ \ {r}]]
    BY DEF Change
  <2>3. /\ pass'[p].at = "apply" /\ pass'[p].dial = pass[p].dial
        /\ pass'[p].todo = pass[p].todo \ {r}
        /\ \A q \in Passes : q # p => pass'[q] = pass[q]
    BY <1>0, <2>1, <2>2 DEF TypeOK
  <2>4. \A q \in Regions : Goal(p)'[q] = Goal(p)[q]
    BY <2>1, <2>2, <2>3 DEF Goal, TypeOK
  <2>5. Absorbed(Goal(p))'
    BY <2>1, <2>2, <2>4 DEF CalmPass, Absorbed
  <2>6. \A q \in Passes : q # p => pass[q].at = "idle"
    BY <2>1, <2>2 DEF CalmPass
  <2> QED BY <2>3, <2>5, <2>6 DEF CalmPass
<1>5. CASE Finish(p)
  <2> SUFFICES ASSUME calm' PROVE CalmPass'
    BY DEF CalmPass
  <2>1. /\ calm /\ UNCHANGED <<dial, override>> /\ pass[p].at = "apply" /\ pass[p].todo = {}
        /\ pass' = [pass EXCEPT ![p] = Asleep]
    BY <1>5 DEF Finish
  <2>2. \A q \in Regions : Goal(p)[q] = dial[q]
    BY <2>1 DEF Goal
  <2>3. Absorbed(dial)'
    BY <2>1, <2>2 DEF CalmPass, Absorbed
  <2>4. \A q \in Passes : pass'[q].at = "idle"
    BY <2>1 DEF CalmPass, Asleep, TypeOK
  <2> QED BY <2>3, <2>4 DEF CalmPass
<1>6. CASE Abandon(p)
  BY <1>6 DEF CalmPass, Abandon
<1> QED BY <1>1, <1>2, <1>3, <1>4, <1>5, <1>6 DEF Works

LEMMA QuietCalm ==
  ASSUME TypeOK, CalmPass, UNCHANGED <<dial, pass, calm>>,
         \A r \in Regions : override[r] # None => override'[r] # None
  PROVE  CalmPass'
BY DEF CalmPass, Goal, Absorbed, Flying

LEMMA NextCalm == TypeOK /\ CalmPass /\ [Next]_dialVars => CalmPass'
<1> SUFFICES ASSUME TypeOK, CalmPass, [Next]_dialVars PROVE CalmPass'
  OBVIOUS
<1>1. ASSUME NEW p \in Passes, Begin(p) \/ Works(p) \/ Abandon(p) PROVE CalmPass'
  BY <1>1, WorkCalm
<1>2. ASSUME NEW r \in Regions, \/ \E percent \in Settings : SetDial(r, percent)
                                \/ ClearOverride(r)
      PROVE  CalmPass'
  BY <1>2 DEF SetDial, ClearOverride, CalmPass
<1>3. CASE RecordOverride
  <2>1. manual.to # None
    BY DEF TypeOK, Percent, None
  <2> QED BY <1>3, <2>1, QuietCalm DEF RecordOverride, TypeOK
<1>4. ASSUME NEW r \in Regions, HealthChanges(r) PROVE CalmPass'
  BY <1>4, QuietCalm DEF HealthChanges
<1>5. CASE Deploy \/ UNCHANGED dialVars
  BY <1>5, QuietCalm DEF Deploy, dialVars
<1> QED BY <1>1, <1>2, <1>3, <1>4, <1>5 DEF Next

(* The last-healthy-region guard: a pass that ran alone and without a      *)
(* fault has left some region fully dialed, or every one is overridden,    *)
(* whatever dials, overrides and signals it found.                         *)
THEOREM AbsorberStays == Spec => []AbsorberKept
<1>1. CalmPass => AbsorberKept
  BY DEF CalmPass, AbsorberKept, Absorbed
<1> QED BY <1>1, InitType, NextType, InitCalm, NextCalm, PTL DEF Spec
=============================================================================

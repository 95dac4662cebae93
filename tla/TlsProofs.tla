------------------------------ MODULE TlsProofs ------------------------------
(***************************************************************************)
(* The certificate manager's two parts.                                    *)
(*                                                                         *)
(* What holds of the rollover of the root for any regions, clients,        *)
(* generations and failures, and for any times that a deployment's         *)
(* configuration is allowed to have; that no leaf lapses needs times that  *)
(* leave room as well (RoomyPolicy).  TrustInv is the inductive invariant  *)
(* of the first, LapseInv of the second.                                   *)
(*                                                                         *)
(* What holds of the registry of certificates for any regions,             *)
(* configurations, deployments, imports and faults: what is served is      *)
(* registered, no region has a certificate too many, and a deletion leaves *)
(* nothing.  Inv adds what an invocation relies on between two of its      *)
(* calls, and how far a cleanup has come.                                  *)
(***************************************************************************)
EXTENDS TlsRollover, TlsRegistry, FiniteSetTheorems, TLAPS

(* A root is known: the bundle has it, once there is one, and so have all  *)
(* the clients that still use theirs.                                      *)
Known(g, p, ca) ==
  /\ p = {} \/ g \in p
  /\ \A c \in Clients : ca[c].age <= MaxStale => g \in ca[c].roots

(* The current root and the previous ones are known.  The pending one is   *)
(* published if it is marked, and a client whose bundle is in use and      *)
(* younger than the mark has it.  Every leaf that has not expired was      *)
(* signed by the current root, or by a previous one that stays longer than *)
(* the leaf.                                                               *)
Sound(s, p, ca, lf) ==
  /\ s.current # None => Known(s.current, p, ca)
  /\ \A g \in s.previous : Known(g, p, ca)
  /\ s.pending # None /\ s.marked =>
       /\ s.pending \in p
       /\ \A c \in Clients :
            ca[c].age <= MaxStale /\ ca[c].age < Delay - s.wait => s.pending \in ca[c].roots
  /\ \A r \in RegionIds : lf[r].by # None /\ lf[r].left > 0 =>
       lf[r].by = s.current \/ (lf[r].by \in s.previous /\ s.keep[lf[r].by] > lf[r].left)

(* A leaf ends before the root that signed it.                             *)
Outlived ==
  \A r \in RegionIds : leaf[r].by # None /\ leaf[r].left > 0 => life[leaf[r].by] > leaf[r].left

(* No client has a bundle before the first one is published.               *)
Begun ==
  /\ secret.current = None => published = {}
  /\ published = {} => \A c \in Clients : cache[c].age > MaxStale

(* An invocation's copy of the root state is as sound as the Secret, and   *)
(* is what the Secret holds after the save.                                *)
Running ==
  /\ run.at = "save" => Sound(run.mem, published, cache, leaf)
  /\ run.at \in {"publish", "mark", "leaf"} => secret = run.mem
  /\ run.at = "mark" => run.mem.pending # None /\ run.mem.pending \in published

Busy == run.at # "idle" => run.mem.current # None

TrustInv == Sound(secret, published, cache, leaf) /\ Outlived /\ Begun /\ Running
-----------------------------------------------------------------------------
(* Types *)

LeafType == [by: Generations \union {None}, left: 0..LeafLife]
RunType == [at: Places, mem: RootState, next: 1..(NumRegions + 1)]
CacheType == [roots: SUBSET Generations, age: 0..(MaxStale + 1)]

LEMMA TypeParts ==
  TypeOK <=>
    /\ secret \in RootState /\ published \in SUBSET Generations
    /\ life \in [Generations -> 0..RootLife] /\ leaf \in [RegionIds -> LeafType]
    /\ wanted \in Generations /\ run \in RunType /\ cache \in [Clients -> CacheType]
    /\ since \in 0..Period /\ late \in BOOLEAN
BY Zenon DEF TypeOK, LeafType, RunType, CacheType

LEMMA NextTypes ==
  ASSUME secret' \in RootState, published' \in SUBSET Generations,
         life' \in [Generations -> 0..RootLife], leaf' \in [RegionIds -> LeafType],
         wanted' \in Generations, run' \in RunType, cache' \in [Clients -> CacheType],
         since' \in 0..Period, late' \in BOOLEAN
  PROVE  TypeOK'
BY Zenon DEF TypeOK, LeafType, RunType, CacheType

LEMMA Numbers ==
  /\ MaxGenerations \in Nat \ {0} /\ NumRegions \in Nat /\ Period \in Nat
  /\ Delay \in Nat /\ MaxStale \in Nat /\ MaxStale < Delay
  /\ LeafLife \in Nat /\ LeafBefore \in Nat /\ Overlap \in Nat /\ LeafLife < Overlap
  /\ RootLife \in Nat
BY PolicyAssumption

LEMMA GenerationFacts == Generations \subseteq Nat \ {0} /\ None = 0 /\ None \notin Generations
BY Numbers DEF Generations, None

LEMMA RootFields ==
  ASSUME NEW s \in RootState
  PROVE  /\ s.current \in Generations \union {None} /\ s.pending \in Generations \union {None}
         /\ s.wait \in 0..Delay /\ s.marked \in BOOLEAN /\ s.previous \subseteq Generations
         /\ s.keep \in [Generations -> 0..Overlap]
BY DEF RootState

LEMMA StateFields ==
  ASSUME TypeOK
  PROVE  /\ \A r \in RegionIds : leaf[r].by \in Generations \union {None} /\ leaf[r].left \in 0..LeafLife
         /\ run.at \in Places /\ run.mem \in RootState /\ run.next \in 1..(NumRegions + 1)
         /\ \A c \in Clients : cache[c].roots \subseteq Generations /\ cache[c].age \in 0..(MaxStale + 1)
         /\ \A g \in Generations : life[g] \in 0..RootLife
BY DEF TypeOK

(* What each decision does to the root state.                              *)
LEMMA BootstrappedAt ==
  ASSUME NEW s \in RootState, wanted \in Generations
  PROVE  /\ Bootstrapped(s) \in RootState
         /\ Bootstrapped(s).current = (IF s.current = None THEN wanted ELSE s.current)
         /\ Bootstrapped(s).pending = s.pending /\ Bootstrapped(s).wait = s.wait
         /\ Bootstrapped(s).marked = s.marked /\ Bootstrapped(s).previous = s.previous
         /\ Bootstrapped(s).keep = s.keep
<1>1. [s EXCEPT !.current = wanted] \in RootState
  BY DEF RootState
<1> QED BY <1>1 DEF Bootstrapped, RootState

LEMMA DesiredTyped ==
  ASSUME TypeOK, NEW s \in RootState, s.current # None
  PROVE  Desired(s) \in Generations
<1>1. s.current \in Generations
  BY RootFields
<1>2. wanted \in Generations
  BY DEF TypeOK
<1>3. s.current < MaxGenerations => s.current + 1 \in Generations
  BY <1>1, Numbers DEF Generations
<1> QED BY <1>1, <1>2, <1>3 DEF Desired, Larger

LEMMA StagedAt ==
  ASSUME TypeOK, NEW s \in RootState, s.current # None
  PROVE  /\ Staged(s) \in RootState
         /\ Staged(s).current = s.current /\ Staged(s).previous = s.previous
         /\ Staged(s).keep = s.keep
         /\ \/ ~Staged(s).marked
            \/ Staged(s).pending = s.pending /\ Staged(s).wait = s.wait /\ Staged(s).marked = s.marked
<1> DEFINE d == Desired(s)
<1>1. d \in Generations
  BY DesiredTyped
<1> HIDE DEF d
<1>2. [s EXCEPT !.pending = d, !.wait = Delay, !.marked = FALSE] \in RootState
  <2>1. Delay \in 0..Delay
    BY Numbers
  <2>2. ASSUME NEW w \in 0..Delay
        PROVE  [s EXCEPT !.pending = d, !.wait = w, !.marked = FALSE] \in RootState
    BY <1>1 DEF RootState
  <2> QED BY <2>1, <2>2, Zenon
<1>3. /\ [s EXCEPT !.pending = d, !.wait = Delay, !.marked = FALSE].current = s.current
      /\ [s EXCEPT !.pending = d, !.wait = Delay, !.marked = FALSE].previous = s.previous
      /\ [s EXCEPT !.pending = d, !.wait = Delay, !.marked = FALSE].keep = s.keep
      /\ ~[s EXCEPT !.pending = d, !.wait = Delay, !.marked = FALSE].marked
  BY DEF RootState
<1>4. CASE Stages(s)
  <2>1. Staged(s) = [s EXCEPT !.pending = d, !.wait = Delay, !.marked = FALSE]
    BY <1>4, Zenon DEF Staged, d
  <2> QED BY <1>2, <1>3, <2>1, Zenon
<1>5. CASE ~Stages(s)
  BY <1>5 DEF Staged
<1> QED BY <1>4, <1>5

LEMMA PromotedAt ==
  ASSUME NEW s \in RootState, s.current # None
  PROVE  /\ Promoted(s) \in RootState
         /\ Activates(s) => /\ Promoted(s).current = s.pending /\ Promoted(s).pending = None
                            /\ Promoted(s).previous = s.previous \union {s.current}
                            /\ Promoted(s).keep = [s.keep EXCEPT ![s.current] = Overlap]
         /\ ~Activates(s) => Promoted(s) = s
<1> DEFINE k == [s.keep EXCEPT ![s.current] = Overlap]
           p == s.previous \union {s.current}
           t == [current |-> s.pending, pending |-> None, wait |-> 0, marked |-> FALSE,
                 previous |-> p, keep |-> k]
<1>1. k \in [Generations -> 0..Overlap]
  BY RootFields, Numbers
<1>2. p \in SUBSET Generations
  BY RootFields
<1>3. t \in RootState /\ t.current = s.pending /\ t.pending = None /\ t.previous = p /\ t.keep = k
  <2> HIDE DEF k, p
  <2> QED BY <1>1, <1>2, RootFields, Numbers DEF RootState
<1>4. Activates(s) => Promoted(s) = t
  BY Zenon DEF Promoted
<1>5. ~Activates(s) => Promoted(s) = s
  BY Zenon DEF Promoted
<1> HIDE DEF t
<1> QED BY <1>3, <1>4, <1>5

LEMMA PrunedAt ==
  ASSUME NEW s \in RootState
  PROVE  /\ Pruned(s) \in RootState
         /\ Pruned(s).previous = {g \in s.previous : s.keep[g] > 0}
         /\ Pruned(s).current = s.current /\ Pruned(s).pending = s.pending
         /\ Pruned(s).wait = s.wait /\ Pruned(s).marked = s.marked /\ Pruned(s).keep = s.keep
<1> DEFINE q == {g \in s.previous : s.keep[g] > 0}
<1>1. q \in SUBSET Generations
  BY RootFields
<1>3. Pruned(s) = [s EXCEPT !.previous = q]
  BY Zenon DEF Pruned
<1> HIDE DEF q
<1>4. /\ Pruned(s) \in RootState /\ Pruned(s).previous = q
      /\ Pruned(s).current = s.current /\ Pruned(s).pending = s.pending
      /\ Pruned(s).wait = s.wait /\ Pruned(s).marked = s.marked /\ Pruned(s).keep = s.keep
  BY <1>1, <1>3 DEF RootState
<1> QED BY <1>4 DEF q

LEMMA MarkedAt ==
  ASSUME NEW s \in RootState
  PROVE  /\ Marked(s) \in RootState /\ Marked(s).marked /\ Marked(s).wait = Delay
         /\ Marked(s).current = s.current /\ Marked(s).pending = s.pending
         /\ Marked(s).previous = s.previous /\ Marked(s).keep = s.keep
<1>1. Delay \in 0..Delay
  BY Numbers
<1>2. ASSUME NEW w \in 0..Delay
      PROVE  [s EXCEPT !.marked = TRUE, !.wait = w] \in RootState
  BY DEF RootState
<1>3. [s EXCEPT !.marked = TRUE, !.wait = Delay] \in RootState
  BY <1>1, <1>2, Zenon
<1> QED BY <1>3 DEF Marked, RootState

LEMMA BundleTyped ==
  ASSUME NEW s \in RootState
  PROVE  Bundle(s) \in SUBSET Generations
BY RootFields DEF Bundle

LEMMA RunTyped ==
  ASSUME NEW a \in Places, NEW s \in RootState, NEW n \in 1..(NumRegions + 1)
  PROVE  [at |-> a, mem |-> s, next |-> n] \in RunType
BY DEF RunType

LEMMA RunMoves ==
  ASSUME run \in RunType
  PROVE  /\ \A a \in Places : /\ [run EXCEPT !.at = a] \in RunType /\ [run EXCEPT !.at = a].at = a
                               /\ [run EXCEPT !.at = a].mem = run.mem
         /\ run.next \in RegionIds =>
              /\ [run EXCEPT !.next = @ + 1] \in RunType /\ [run EXCEPT !.next = @ + 1].at = run.at
              /\ [run EXCEPT !.next = @ + 1].mem = run.mem
<1>1. ASSUME NEW a \in Places
      PROVE  /\ [run EXCEPT !.at = a] \in RunType /\ [run EXCEPT !.at = a].at = a
             /\ [run EXCEPT !.at = a].mem = run.mem
  BY DEF RunType
<1>2. ASSUME run.next \in RegionIds
      PROVE  /\ [run EXCEPT !.next = @ + 1] \in RunType /\ [run EXCEPT !.next = @ + 1].at = run.at
             /\ [run EXCEPT !.next = @ + 1].mem = run.mem
  <2>1. run.next + 1 \in 1..(NumRegions + 1)
    BY <1>2, Numbers DEF RegionIds
  <2>2. ASSUME NEW n \in 1..(NumRegions + 1)
        PROVE  /\ [run EXCEPT !.next = n] \in RunType /\ [run EXCEPT !.next = n].at = run.at
               /\ [run EXCEPT !.next = n].mem = run.mem
    BY DEF RunType
  <2> QED BY <2>1, <2>2, Zenon
<1> QED BY <1>1, <1>2

LEMMA IdleTyped == Idle \in RunType /\ Idle.at = "idle" /\ Uninitialized \in RootState
<1>1. [g \in Generations |-> 0] \in [Generations -> 0..Overlap] /\ 0 \in 0..Delay
  BY Numbers
<1>2. Uninitialized \in RootState
  BY <1>1 DEF Uninitialized, RootState
<1>3. 1 \in 1..(NumRegions + 1) /\ "idle" \in Places
  BY Numbers DEF Places
<1> QED BY <1>2, <1>3, RunTyped DEF Idle

LEMMA EndsTyped ==
  ASSUME TypeOK, NEW b \in BOOLEAN, Ends(b)
  PROVE  run' = Idle /\ run' \in RunType /\ since' \in 0..Period
BY IdleTyped, Numbers DEF TypeOK, Ends

LEMMA GoesTyped ==
  ASSUME TypeOK, NEW a \in Places, Goes(a)
  PROVE  /\ run' \in RunType /\ run'.at = a /\ run'.mem = run.mem /\ since' \in 0..Period
<1>1. run \in RunType /\ since \in 0..Period
  BY TypeParts
<1> QED BY <1>1, RunMoves DEF Goes

(* The state that an invocation decides on.                                *)
Decided ==
  IF secret.current = None THEN Bootstrapped(secret)
  ELSE Pruned(Promoted(Staged(Bootstrapped(secret))))

LEMMA LoadFacts ==
  ASSUME TypeOK, LoadRoot
  PROVE  /\ Decided \in RootState /\ Decided.current # None
         /\ run' \in RunType /\ run'.mem = Decided
         /\ run'.at = (IF Decided = secret THEN "publish" ELSE "save")
         /\ life' \in [Generations -> 0..RootLife]
         /\ \A g \in Generations : life'[g] >= life[g]
<1>0. /\ secret \in RootState /\ wanted \in Generations /\ life \in [Generations -> 0..RootLife]
      /\ RootLife \in 0..RootLife
  BY TypeParts, Numbers
<1> DEFINE b == Bootstrapped(secret)
           s == Staged(b)
<1>1. b \in RootState /\ b.current # None
  BY <1>0, BootstrappedAt, GenerationFacts
<1>2. s \in RootState /\ s.current # None
  BY <1>1, StagedAt
<1>3. Promoted(s) \in RootState /\ Promoted(s).current # None
  BY <1>2, PromotedAt DEF Activates
<1>4. Decided \in RootState /\ Decided.current # None
  <2> HIDE DEF b, s
  <2>1. Pruned(Promoted(s)) \in RootState /\ Pruned(Promoted(s)).current # None
    BY <1>3, PrunedAt
  <2>2. Decided = b \/ Decided = Pruned(Promoted(s))
    BY DEF Decided, b, s
  <2> QED BY <1>1, <2>1, <2>2
<1>5. run' = [at |-> IF Decided = secret THEN "publish" ELSE "save", mem |-> Decided, next |-> 1]
  BY Zenon DEF LoadRoot, Decided
<1>6. run' \in RunType
  <2>1. (IF Decided = secret THEN "publish" ELSE "save") \in Places /\ 1 \in 1..(NumRegions + 1)
    BY Numbers DEF Places
  <2> HIDE DEF b, s
  <2> QED BY <1>4, <1>5, <2>1, RunTyped
<1>7. life' \in [Generations -> 0..RootLife] /\ \A g \in Generations : life'[g] >= life[g]
  <2> DEFINE made == IF secret.current = None THEN [life EXCEPT ![wanted] = RootLife] ELSE life
  <2>1. ASSUME NEW f \in [Generations -> 0..RootLife], NEW g
        PROVE  /\ [f EXCEPT ![g] = RootLife] \in [Generations -> 0..RootLife]
               /\ \A h \in Generations : [f EXCEPT ![g] = RootLife][h] >= f[h]
    <3>1. [f EXCEPT ![g] = RootLife] \in [Generations -> 0..RootLife]
      BY <1>0
    <3>2. ASSUME NEW h \in Generations PROVE [f EXCEPT ![g] = RootLife][h] >= f[h]
      <4>1. f[h] \in Nat /\ f[h] <= RootLife
        BY Numbers
      <4>2. [f EXCEPT ![g] = RootLife][h] = RootLife \/ [f EXCEPT ![g] = RootLife][h] = f[h]
        OBVIOUS
      <4> QED BY <4>1, <4>2, Numbers
    <3> QED BY <3>1, <3>2
  <2>2. \A h \in Generations : life[h] >= life[h] /\ life[h] \in Nat
    BY <1>0, Numbers
  <2>3. made \in [Generations -> 0..RootLife] /\ \A h \in Generations : made[h] >= life[h]
    BY <1>0, <2>1, <2>2
  <2>4. \A h \in Generations : made[h] \in Nat
    BY <2>3, Numbers
  <2>5. life' = IF secret.current # None /\ Stages(b)
                THEN [made EXCEPT ![Desired(b)] = RootLife] ELSE made
    BY Zenon DEF LoadRoot
  <2>6. [made EXCEPT ![Desired(b)] = RootLife] \in [Generations -> 0..RootLife]
        /\ \A h \in Generations : [made EXCEPT ![Desired(b)] = RootLife][h] >= made[h]
    BY <2>1, <2>3
  <2>7. \A h \in Generations : [made EXCEPT ![Desired(b)] = RootLife][h] \in Nat
    BY <2>6, Numbers
  <2> HIDE DEF b, s, made
  <2> QED BY <2>2, <2>3, <2>4, <2>5, <2>6, <2>7
<1> QED BY <1>4, <1>5, <1>6, <1>7

LEMMA NewLeafTyped ==
  ASSUME TypeOK, run.mem.current # None, ~TooSoon
  PROVE  /\ NewLeaf \in LeafType /\ NewLeaf.by = run.mem.current
         /\ NewLeaf.left < life[run.mem.current]
<1>1. run.mem.current \in Generations
  BY StateFields, RootFields
<1>2. life[run.mem.current] \in Nat
  BY <1>1, StateFields, Numbers
<1>3. NewLeft \in 0..LeafLife /\ NewLeft <= Minus1(life[run.mem.current])
      /\ Minus1(life[run.mem.current]) \in Nat
  BY <1>2, Numbers DEF NewLeft, Smaller, Minus1
<1>4. NewLeft < life[run.mem.current]
  BY <1>2, <1>3, Numbers DEF TooSoon, Minus1
<1> QED BY <1>1, <1>3, <1>4 DEF NewLeaf, LeafType

LEMMA LeavesTyped ==
  ASSUME TypeOK, NEW l \in LeafType, NEW r
  PROVE  [leaf EXCEPT ![r] = l] \in [RegionIds -> LeafType]
BY TypeParts

(* How an invocation moves.                                                *)
Reconciles ==
  \/ LoadRoot \/ SaveRoot \/ PublishBundle \/ MarkPublished
  \/ KeepLeaf \/ (\E r \in RegionIds : RenewLeaf(r)) \/ RefuseLeaf \/ Finish \/ Disturbed
Others == (\E g \in Generations : Configure(g)) \/ (\E c \in Clients : Refresh(c)) \/ Tick

LEMMA NextCases == Next <=> Reconciles \/ Others
BY Zenon DEF Next, Reconciles, Others

LEMMA ReconcileTypes ==
  ASSUME TypeOK, Busy, Reconciles
  PROVE  TypeOK' /\ Busy'
<1>0. /\ secret \in RootState /\ published \in SUBSET Generations
      /\ life \in [Generations -> 0..RootLife] /\ leaf \in [RegionIds -> LeafType]
      /\ wanted \in Generations /\ run \in RunType /\ cache \in [Clients -> CacheType]
      /\ since \in 0..Period /\ late \in BOOLEAN /\ run.mem \in RootState
      /\ run.at # "idle" => run.mem.current # None
  BY TypeParts, StateFields DEF Busy
<1>p. "idle" \in Places /\ "save" \in Places /\ "publish" \in Places /\ "mark" \in Places /\ "leaf" \in Places
  BY DEF Places
<1>1. CASE LoadRoot
  BY <1>0, <1>1, LoadFacts, NextTypes DEF LoadRoot, Busy
<1>2. CASE SaveRoot
  BY <1>0, <1>2, <1>p, GoesTyped, NextTypes DEF SaveRoot, Busy
<1>3. CASE PublishBundle
  <2>1. AfterPublish(run.mem) \in Places
    BY <1>p DEF AfterPublish
  <2> QED BY <1>0, <1>3, <2>1, GoesTyped, BundleTyped, NextTypes DEF PublishBundle, Busy
<1>4. CASE MarkPublished
  <2> DEFINE m == Marked(run.mem)
  <2>1. m \in RootState /\ m.current = run.mem.current
    BY <1>0, MarkedAt
  <2>2. run' = [run EXCEPT !.at = "leaf", !.mem = m]
    BY <1>4 DEF MarkPublished
  <2> HIDE DEF m
  <2>3. run' \in RunType /\ run'.mem = m
    BY <1>0, <1>p, <2>1, <2>2 DEF RunType
  <2>4. secret' \in RootState
    BY <1>4, <2>1 DEF MarkPublished, m
  <2> QED BY <1>0, <1>4, <2>1, <2>3, <2>4, NextTypes DEF MarkPublished, Busy
<1>n. ASSUME run.at # "idle", run.next \in RegionIds, NextRegion
      PROVE  run' \in RunType /\ since' \in 0..Period /\ Busy'
  BY <1>0, <1>n, RunMoves DEF NextRegion, Busy
<1>5. CASE KeepLeaf
  BY <1>0, <1>5, <1>n, NextTypes DEF KeepLeaf
<1>6. ASSUME NEW r \in RegionIds, RenewLeaf(r) PROVE TypeOK' /\ Busy'
  <2>1. leaf' \in [RegionIds -> LeafType]
    BY <1>0, <1>6, NewLeafTyped, LeavesTyped DEF RenewLeaf
  <2> QED BY <1>0, <1>6, <1>n, <2>1, NextTypes DEF RenewLeaf
<1>e. ASSUME NEW b \in BOOLEAN, Ends(b) PROVE run' \in RunType /\ since' \in 0..Period /\ Busy'
  BY <1>e, EndsTyped, IdleTyped DEF Busy
<1>7. CASE RefuseLeaf
  BY <1>0, <1>7, <1>e, NextTypes DEF RefuseLeaf
<1>8. CASE Finish
  BY <1>0, <1>8, <1>e, NextTypes DEF Finish
<1>9. CASE Disturbed
  <2>1. secret' \in RootState
    BY <1>0, <1>9, MarkedAt DEF Disturbed
  <2>2. published' \in SUBSET Generations
    BY <1>0, <1>9, BundleTyped DEF Disturbed
  <2>3. leaf' \in [RegionIds -> LeafType]
    BY <1>0, <1>9, NewLeafTyped, LeavesTyped DEF Disturbed
  <2> QED BY <1>0, <1>9, <1>e, <2>1, <2>2, <2>3, NextTypes DEF Disturbed
<1> QED BY <1>1, <1>2, <1>3, <1>4, <1>5, <1>6, <1>7, <1>8, <1>9 DEF Reconciles

LEMMA MinusFacts ==
  /\ \A n \in Nat : Minus1(n) \in Nat /\ Minus1(n) <= n /\ (n > 0 => Minus1(n) = n - 1)
  /\ Minus1(0) = 0
BY DEF Minus1

LEMMA TickAt ==
  ASSUME TypeOK, Tick
  PROVE  /\ secret' \in RootState /\ leaf' \in [RegionIds -> LeafType]
         /\ life' \in [Generations -> 0..RootLife] /\ cache' \in [Clients -> CacheType]
         /\ secret'.current = secret.current /\ secret'.pending = secret.pending
         /\ secret'.wait = Minus1(secret.wait) /\ secret'.marked = secret.marked
         /\ secret'.previous = secret.previous
         /\ \A g \in Generations : secret'.keep[g] = Minus1(secret.keep[g])
         /\ \A r \in RegionIds : leaf'[r].by = leaf[r].by /\ leaf'[r].left = Minus1(leaf[r].left)
         /\ \A g \in Generations : life'[g] \in {life[g], Minus1(life[g])}
         /\ \A c \in Clients : /\ cache'[c].roots = cache[c].roots
                               /\ cache'[c].age = Older(cache[c].age, MaxStale)
<1>0. /\ secret \in RootState /\ leaf \in [RegionIds -> LeafType]
      /\ life \in [Generations -> 0..RootLife] /\ cache \in [Clients -> CacheType]
  BY TypeParts
<1>1. \A m \in Nat : \A n \in 0..m : Minus1(n) \in 0..m
  BY DEF Minus1
<1>2. /\ secret' \in RootState
      /\ secret'.current = secret.current /\ secret'.pending = secret.pending
      /\ secret'.wait = Minus1(secret.wait) /\ secret'.marked = secret.marked
      /\ secret'.previous = secret.previous
      /\ \A g \in Generations : secret'.keep[g] = Minus1(secret.keep[g])
  <2> DEFINE w == Minus1(secret.wait)
             k == [g \in Generations |-> Minus1(secret.keep[g])]
  <2>1. w \in 0..Delay
    BY <1>0, <1>1, RootFields, Numbers
  <2>2. k \in [Generations -> 0..Overlap]
    BY <1>0, <1>1, RootFields, Numbers
  <2>3. secret' = [secret EXCEPT !.wait = w, !.keep = k]
    BY Zenon DEF Tick
  <2>4. \A g \in Generations : k[g] = Minus1(secret.keep[g])
    OBVIOUS
  <2> HIDE DEF w, k
  <2>5. /\ secret' \in RootState
        /\ secret'.current = secret.current /\ secret'.pending = secret.pending
        /\ secret'.wait = w /\ secret'.marked = secret.marked
        /\ secret'.previous = secret.previous /\ secret'.keep = k
    BY <1>0, <2>1, <2>2, <2>3 DEF RootState
  <2> QED BY <2>4, <2>5 DEF w
<1>3. ASSUME NEW r \in RegionIds
      PROVE  /\ leaf'[r] \in LeafType
             /\ leaf'[r].by = leaf[r].by /\ leaf'[r].left = Minus1(leaf[r].left)
  <2>1. leaf[r] \in LeafType
    BY <1>0
  <2>2. Minus1(leaf[r].left) \in 0..LeafLife
    BY <1>1, <2>1, Numbers DEF LeafType
  <2>3. leaf'[r] = [leaf[r] EXCEPT !.left = Minus1(@)]
    BY DEF Tick
  <2> QED BY <2>1, <2>2, <2>3 DEF LeafType
<1>4. leaf' \in [RegionIds -> LeafType]
  BY <1>3 DEF Tick
<1>5. ASSUME NEW g \in Generations
      PROVE  life'[g] \in 0..RootLife /\ life'[g] \in {life[g], Minus1(life[g])}
  BY <1>0, <1>1, Numbers DEF Tick
<1>6. life' \in [Generations -> 0..RootLife]
  BY <1>5 DEF Tick
<1>7. ASSUME NEW c \in Clients
      PROVE  /\ cache'[c] \in CacheType /\ cache'[c].roots = cache[c].roots
             /\ cache'[c].age = Older(cache[c].age, MaxStale)
  <2>1. cache[c] \in CacheType
    BY <1>0
  <2>2. Older(cache[c].age, MaxStale) \in 0..(MaxStale + 1)
    BY <2>1, Numbers DEF CacheType, Older
  <2>3. cache'[c] = [cache[c] EXCEPT !.age = Older(@, MaxStale)]
    BY DEF Tick
  <2> HIDE DEF Older
  <2> QED BY <2>1, <2>2, <2>3 DEF CacheType
<1>8. cache' \in [Clients -> CacheType]
  BY <1>7 DEF Tick
<1> QED BY <1>2, <1>3, <1>4, <1>5, <1>6, <1>7, <1>8

LEMMA RefreshAt ==
  ASSUME TypeOK, NEW c \in Clients, Refresh(c)
  PROVE  /\ cache' \in [Clients -> CacheType]
         /\ cache'[c].roots = published /\ cache'[c].age = 0
         /\ \A d \in Clients \ {c} : cache'[d] = cache[d]
<1>1. published \in SUBSET Generations /\ cache \in [Clients -> CacheType] /\ 0 \in 0..(MaxStale + 1)
  BY TypeParts, Numbers
<1> DEFINE n == [roots |-> published, age |-> 0]
<1>2. n \in CacheType /\ n.roots = published /\ n.age = 0
  BY <1>1 DEF CacheType
<1>3. cache' = [cache EXCEPT ![c] = n]
  BY DEF Refresh
<1> HIDE DEF n
<1> QED BY <1>1, <1>2, <1>3

LEMMA OtherTypes ==
  ASSUME TypeOK, Busy, Others
  PROVE  TypeOK' /\ Busy'
<1>1. ASSUME NEW g \in Generations, Configure(g) PROVE TypeOK' /\ Busy'
  BY <1>1, TypeParts, NextTypes DEF Configure, Busy
<1>2. ASSUME NEW c \in Clients, Refresh(c) PROVE TypeOK' /\ Busy'
  BY <1>2, RefreshAt, TypeParts, NextTypes DEF Refresh, Busy
<1>3. CASE Tick
  <2>1. late' \in BOOLEAN
    BY <1>3, TypeParts DEF Tick
  <2>3. since' = (IF late \/ since = Period THEN 0 ELSE since + 1) /\ since \in 0..Period
    BY <1>3, TypeParts DEF Tick
  <2>2. since' \in 0..Period
    BY <2>3, Numbers
  <2> QED BY <1>3, <2>1, <2>2, TickAt, TypeParts, NextTypes DEF Tick, Busy
<1> QED BY <1>1, <1>2, <1>3 DEF Others

LEMMA InitTypes == Init => TypeOK /\ Busy
<1>1. ASSUME Init PROVE TypeOK
  <2>1. secret \in RootState /\ run \in RunType
    BY <1>1, IdleTyped DEF Init
  <2>2. life \in [Generations -> 0..RootLife]
    BY <1>1, Numbers DEF Init
  <2>3. leaf \in [RegionIds -> LeafType]
    BY <1>1, Numbers DEF Init, LeafType
  <2>4. cache \in [Clients -> CacheType]
    BY <1>1, Numbers DEF Init, CacheType
  <2>5. wanted \in Generations /\ since \in 0..Period
    BY <1>1, Numbers DEF Init, Generations
  <2> QED BY <1>1, <2>1, <2>2, <2>3, <2>4, <2>5, TypeParts DEF Init
<1> QED BY <1>1, IdleTyped DEF Init, Busy

LEMMA TypeStep == TypeOK /\ Busy /\ [Next]_tlsVars => TypeOK' /\ Busy'
<1>1. TypeOK /\ Busy /\ UNCHANGED tlsVars => TypeOK' /\ Busy'
  BY DEF TypeOK, Busy, tlsVars
<1> QED BY <1>1, NextCases, ReconcileTypes, OtherTypes

(* Every variable keeps its type.                                          *)
THEOREM RolloverTypeCorrect == Spec => []TypeOK
BY InitTypes, TypeStep, PTL DEF Spec
-----------------------------------------------------------------------------
(* Trust *)

LEMMA SoundDecision ==
  ASSUME TypeOK, Sound(secret, published, cache, leaf), Begun
  PROVE  Sound(Decided, published, cache, leaf)
<1> DEFINE b == Bootstrapped(secret)
           s == Staged(b)
           t == Promoted(s)
<1>0. secret \in RootState /\ wanted \in Generations
  BY TypeParts
<1>1. /\ b \in RootState /\ b.current # None /\ b.pending = secret.pending /\ b.wait = secret.wait
      /\ b.marked = secret.marked /\ b.previous = secret.previous /\ b.keep = secret.keep
      /\ secret.current # None => b.current = secret.current
  BY <1>0, BootstrappedAt, GenerationFacts
<1>2. Sound(b, published, cache, leaf)
  <2>1. secret.current = None => Known(b.current, published, cache)
    BY StateFields, Numbers DEF Begun, Known
  <2> HIDE DEF b
  <2> QED BY <1>1, <2>1 DEF Sound
<1>3. /\ s \in RootState /\ s.current = b.current /\ s.previous = b.previous /\ s.keep = b.keep
      /\ \/ ~s.marked
         \/ s.pending = b.pending /\ s.wait = b.wait /\ s.marked = b.marked
  BY <1>1, StagedAt
<1>4. Sound(s, published, cache, leaf)
  <2> HIDE DEF b, s
  <2> QED BY <1>2, <1>3 DEF Sound
<1>5. /\ t \in RootState
      /\ Activates(s) => /\ t.current = s.pending /\ t.pending = None
                         /\ t.previous = s.previous \union {s.current}
                         /\ t.keep = [s.keep EXCEPT ![s.current] = Overlap]
      /\ ~Activates(s) => t = s
  BY <1>1, <1>3, PromotedAt
<1>6. Sound(t, published, cache, leaf)
  <2> HIDE DEF b, s, t
  <2>1. CASE Activates(s)
    <3>1. Known(s.pending, published, cache)
      <4>1. /\ s.pending \in published
            /\ \A c \in Clients : cache[c].age <= MaxStale /\ cache[c].age < Delay =>
                  s.pending \in cache[c].roots
        <5>1. s.wait = 0 /\ s.pending # None /\ s.marked
          BY <2>1 DEF Activates
        <5>2. Delay - s.wait = Delay
          BY <5>1, Numbers
        <5> QED BY <1>4, <5>1, <5>2 DEF Sound
      <4>2. \A c \in Clients : cache[c].age <= MaxStale => cache[c].age < Delay
        BY StateFields, Numbers
      <4> QED BY <4>1, <4>2 DEF Known
    <3>2. Known(s.current, published, cache)
      BY <1>1, <1>3, <1>4 DEF Sound
    <3>3. ASSUME NEW r \in RegionIds, leaf[r].by # None, leaf[r].left > 0
          PROVE  leaf[r].by \in t.previous /\ t.keep[leaf[r].by] > leaf[r].left
      <4>1. leaf[r].by \in Generations /\ leaf[r].left \in Nat /\ leaf[r].left <= LeafLife
        BY <3>3, StateFields, Numbers
      <4>2. s.keep \in [Generations -> 0..Overlap]
        BY <1>3, RootFields
      <4>3. leaf[r].by = s.current \/ (leaf[r].by \in s.previous /\ s.keep[leaf[r].by] > leaf[r].left)
        BY <1>4, <3>3 DEF Sound
      <4>4. t.keep[leaf[r].by] = IF leaf[r].by = s.current THEN Overlap ELSE s.keep[leaf[r].by]
        BY <1>5, <2>1, <4>1, <4>2
      <4> QED BY <1>5, <2>1, <4>1, <4>3, <4>4, Numbers
    <3> QED BY <1>4, <1>5, <2>1, <3>1, <3>2, <3>3 DEF Sound
  <2> QED BY <1>4, <1>5, <2>1
<1>7. Sound(Pruned(t), published, cache, leaf)
  <2> HIDE DEF b, s, t
  <2>1. /\ Pruned(t).previous = {g \in t.previous : t.keep[g] > 0}
        /\ Pruned(t).current = t.current /\ Pruned(t).pending = t.pending
        /\ Pruned(t).wait = t.wait /\ Pruned(t).marked = t.marked /\ Pruned(t).keep = t.keep
    BY <1>5, PrunedAt
  <2>2. \A g \in t.previous : t.keep[g] \in Nat
    <3>1. t.previous \subseteq Generations /\ t.keep \in [Generations -> 0..Overlap]
      BY <1>5, RootFields
    <3> QED BY <3>1, Numbers
  <2>3. ASSUME NEW r \in RegionIds, leaf[r].by # None, leaf[r].left > 0,
               leaf[r].by \in t.previous, t.keep[leaf[r].by] > leaf[r].left
        PROVE  leaf[r].by \in Pruned(t).previous
    <3>1. leaf[r].left \in Nat
      BY StateFields, Numbers
    <3> QED BY <2>1, <2>2, <2>3, <3>1
  <2> QED BY <1>6, <2>1, <2>3 DEF Sound
<1> QED BY <1>2, <1>7, Zenon DEF Decided

(* The bundle of the saved state is as good as any before it.              *)
LEMMA SoundBundle ==
  ASSUME NEW s \in RootState, Sound(s, published, cache, leaf)
  PROVE  Sound(s, Bundle(s), cache, leaf)
<1>1. ASSUME NEW g, g # None, g = s.current \/ g \in s.previous, Known(g, published, cache)
      PROVE  Known(g, Bundle(s), cache)
  BY <1>1 DEF Known, Bundle
<1>2. \A g \in s.previous : g # None
  BY RootFields, GenerationFacts
<1>3. s.pending # None => s.pending \in Bundle(s)
  BY DEF Bundle
<1> QED BY <1>1, <1>2, <1>3 DEF Sound

LEMMA SoundMark ==
  ASSUME TypeOK, NEW s \in RootState, Sound(s, published, cache, leaf),
         s.pending \in published
  PROVE  Sound(Marked(s), published, cache, leaf)
<1>1. /\ Marked(s).wait = Delay /\ Marked(s).current = s.current /\ Marked(s).pending = s.pending
      /\ Marked(s).previous = s.previous /\ Marked(s).keep = s.keep
  BY MarkedAt
<1>2. \A c \in Clients : ~(cache[c].age < Delay - Delay)
  BY StateFields, Numbers
<1> QED BY <1>1, <1>2 DEF Sound

LEMMA SoundLeaf ==
  ASSUME TypeOK, TrustInv, run.at = "leaf", run.mem.current # None, ~TooSoon, NEW r \in RegionIds,
         leaf' = [leaf EXCEPT ![r] = NewLeaf]
  PROVE  /\ Sound(secret, published, cache, leaf')
         /\ \A q \in RegionIds : leaf'[q].by # None /\ leaf'[q].left > 0 => life[leaf'[q].by] > leaf'[q].left
<1>1. NewLeaf.by = secret.current /\ life[NewLeaf.by] > NewLeaf.left
  <2>1. NewLeaf.by = run.mem.current /\ NewLeaf.left < life[run.mem.current] /\ NewLeaf \in LeafType
    BY NewLeafTyped
  <2>2. NewLeaf.left \in Nat /\ life[run.mem.current] \in Nat
    <3>1. run.mem.current \in Generations
      BY StateFields, RootFields
    <3> QED BY <2>1, <3>1, StateFields, Numbers DEF LeafType
  <2> QED BY <2>1, <2>2 DEF TrustInv, Running
<1>2. leaf'[r] = NewLeaf /\ \A q \in RegionIds \ {r} : leaf'[q] = leaf[q]
  BY TypeParts
<1> QED BY <1>1, <1>2 DEF TrustInv, Sound, Outlived

LEMMA TrustReconciles ==
  ASSUME TypeOK, Busy, TypeOK', TrustInv, Reconciles
  PROVE  TrustInv'
<1>0. /\ Sound(secret, published, cache, leaf) /\ Outlived /\ Begun /\ Running
      /\ secret \in RootState /\ run.mem \in RootState
  BY TypeParts, StateFields DEF TrustInv
<1>i. Idle.at = "idle"
  BY DEF Idle
<1>1. CASE LoadRoot
  <2>1. /\ Decided.current # None /\ run'.mem = Decided
        /\ run'.at = (IF Decided = secret THEN "publish" ELSE "save")
        /\ \A g \in Generations : life'[g] >= life[g] /\ life'[g] \in Nat /\ life[g] \in Nat
    <3>1. \A g \in Generations : life[g] \in Nat
      BY StateFields, Numbers
    <3>2. \A g \in Generations : life'[g] \in Nat
      BY <1>1, LoadFacts, Numbers
    <3> QED BY <1>1, <3>1, <3>2, LoadFacts
  <2>2. UNCHANGED <<secret, published, cache, leaf>>
    BY <1>1 DEF LoadRoot
  <2>3. Outlived'
    <3>1. ASSUME NEW r \in RegionIds, leaf[r].by # None, leaf[r].left > 0
          PROVE  life'[leaf[r].by] > leaf[r].left
      <4>1. leaf[r].by \in Generations /\ leaf[r].left \in Nat
        BY <3>1, StateFields, Numbers
      <4> QED BY <1>0, <2>1, <3>1, <4>1 DEF Outlived
    <3> QED BY <2>2, <3>1 DEF Outlived
  <2>4. Sound(Decided, published, cache, leaf)
    BY <1>0, SoundDecision
  <2>5. Running'
    BY <2>1, <2>2, <2>4 DEF Running
  <2> QED BY <1>0, <2>2, <2>3, <2>5 DEF TrustInv, Begun
<1>2. CASE SaveRoot
  <2>1. run'.at = "publish" /\ run'.mem = run.mem /\ run.mem.current # None
    BY <1>2, GoesTyped DEF SaveRoot, Busy, Places
  <2>2. Running' /\ Sound(secret', published, cache, leaf) /\ secret'.current # None
    BY <1>0, <1>2, <2>1 DEF SaveRoot, Running
  <2> QED BY <1>0, <1>2, <2>2 DEF SaveRoot, TrustInv, Outlived, Begun
<1>b. run.at \in {"publish", "mark", "leaf"} => secret = run.mem /\ secret.current # None
  BY <1>0 DEF Running, Busy
<1>pb. run.at = "publish" => Sound(secret, Bundle(run.mem), cache, leaf) /\ Bundle(run.mem) # {}
  BY <1>0, <1>b, SoundBundle DEF Bundle
<1>3. CASE PublishBundle
  <2>1. run'.at = AfterPublish(run.mem) /\ run'.mem = run.mem
    BY <1>3, GoesTyped DEF PublishBundle, AfterPublish, Places
  <2>2. Running'
    BY <1>3, <1>b, <2>1 DEF PublishBundle, Running, AfterPublish, Bundle
  <2>3. published' = Bundle(run.mem) /\ UNCHANGED <<secret, life, leaf, cache>>
    BY <1>3 DEF PublishBundle
  <2>4. Sound(secret', published', cache', leaf')
    BY <1>3, <1>pb, <2>3 DEF PublishBundle
  <2>5. Begun' /\ Outlived'
    BY <1>0, <1>3, <1>b, <1>pb, <2>3 DEF PublishBundle, Outlived, Begun
  <2> QED BY <2>2, <2>4, <2>5 DEF TrustInv
<1>mk. run.at = "mark" => /\ Sound(Marked(run.mem), published, cache, leaf)
                         /\ Marked(run.mem).current # None
  BY <1>0, <1>b, SoundMark, MarkedAt DEF Running
<1>4. CASE MarkPublished
  <2>1. run'.at = "leaf" /\ run'.mem = Marked(run.mem)
    <3>1. run' = [run EXCEPT !.at = "leaf", !.mem = Marked(run.mem)] /\ run \in RunType
      BY <1>4, TypeParts DEF MarkPublished
    <3> QED BY <3>1 DEF RunType
  <2>2. Running'
    BY <1>4, <2>1 DEF MarkPublished, Running
  <2> QED BY <1>0, <1>4, <1>mk, <2>2 DEF MarkPublished, TrustInv, Outlived, Begun
<1>n. ASSUME run.at = "leaf", run.next \in RegionIds, NextRegion, secret' = secret PROVE Running'
  <2>1. run'.at = "leaf" /\ run'.mem = run.mem
    BY <1>n, RunMoves, TypeParts DEF NextRegion
  <2> QED BY <1>n, <1>b, <2>1 DEF Running
<1>5. CASE KeepLeaf
  BY <1>0, <1>5, <1>n DEF KeepLeaf, TrustInv, Outlived, Begun
<1>6. ASSUME NEW r \in RegionIds, RenewLeaf(r) PROVE TrustInv'
  <2>1. Running'
    BY <1>6, <1>n DEF RenewLeaf
  <2>2. Sound(secret, published, cache, leaf') /\ Outlived'
    BY <1>6, <1>b, SoundLeaf DEF RenewLeaf, Outlived
  <2> QED BY <1>0, <1>6, <2>1, <2>2 DEF RenewLeaf, TrustInv, Begun
<1>e. ASSUME NEW b \in BOOLEAN, Ends(b) PROVE Running'
  BY <1>e, <1>i DEF Ends, Running
<1>7. CASE RefuseLeaf \/ Finish
  <2>1. Running'
    BY <1>7, <1>e DEF RefuseLeaf, Finish
  <2> QED BY <1>0, <1>7, <2>1 DEF RefuseLeaf, Finish, TrustInv, Outlived, Begun
<1>8. CASE Disturbed
  <2>1. Running' /\ UNCHANGED <<life, cache>>
    BY <1>8, <1>e DEF Disturbed
  <2>2. CASE UNCHANGED <<secret, published, leaf>>
    BY <1>0, <2>1, <2>2 DEF TrustInv, Outlived, Begun
  <2>3. CASE run.at = "save" /\ secret' = run.mem /\ UNCHANGED <<published, leaf>>
    <3>1. Sound(run.mem, published, cache, leaf) /\ run.mem.current # None
      BY <1>0, <2>3 DEF Running, Busy
    <3> QED BY <1>0, <2>1, <2>3, <3>1 DEF TrustInv, Outlived, Begun
  <2>4. CASE run.at = "publish" /\ published' = Bundle(run.mem) /\ UNCHANGED <<secret, leaf>>
    <3>1. Sound(secret', published', cache', leaf')
      BY <1>pb, <2>1, <2>4
    <3>2. Begun' /\ Outlived'
      BY <1>0, <1>b, <1>pb, <2>1, <2>4 DEF Outlived, Begun
    <3> QED BY <2>1, <3>1, <3>2 DEF TrustInv
  <2>5. CASE run.at = "mark" /\ secret' = Marked(run.mem) /\ UNCHANGED <<published, leaf>>
    BY <1>0, <1>mk, <2>1, <2>5 DEF TrustInv, Outlived, Begun
  <2>6. CASE /\ run.at = "leaf" /\ run.next \in RegionIds /\ NeedsLeaf(run.next) /\ ~TooSoon
             /\ leaf' = [leaf EXCEPT ![run.next] = NewLeaf]
             /\ UNCHANGED <<secret, published>>
    <3>1. Sound(secret, published, cache, leaf')
          /\ \A q \in RegionIds : leaf'[q].by # None /\ leaf'[q].left > 0 => life[leaf'[q].by] > leaf'[q].left
      BY <1>b, <2>6, SoundLeaf
    <3> QED BY <1>0, <2>1, <2>6, <3>1 DEF TrustInv, Outlived, Begun
  <2> QED BY <1>8, <2>2, <2>3, <2>4, <2>5, <2>6 DEF Disturbed
<1> QED BY <1>1, <1>2, <1>3, <1>4, <1>5, <1>6, <1>7, <1>8 DEF Reconciles

LEMMA SoundRefresh ==
  ASSUME TypeOK, NEW c \in Clients, Refresh(c), NEW s \in RootState,
         Sound(s, published, cache, leaf)
  PROVE  Sound(s, published, cache', leaf)
<1>1. published # {} /\ cache'[c].roots = published /\ \A d \in Clients \ {c} : cache'[d] = cache[d]
  BY RefreshAt DEF Refresh
<1>2. ASSUME NEW g, Known(g, published, cache) PROVE Known(g, published, cache')
  BY <1>1, <1>2 DEF Known
<1> QED BY <1>1, <1>2 DEF Sound

LEMMA SoundTick ==
  ASSUME TypeOK, Tick, Sound(secret, published, cache, leaf)
  PROVE  Sound(secret', published, cache', leaf')
<1>1. /\ secret'.current = secret.current /\ secret'.pending = secret.pending
      /\ secret'.wait = Minus1(secret.wait) /\ secret'.marked = secret.marked
      /\ secret'.previous = secret.previous
      /\ \A g \in Generations : secret'.keep[g] = Minus1(secret.keep[g])
      /\ \A r \in RegionIds : leaf'[r].by = leaf[r].by /\ leaf'[r].left = Minus1(leaf[r].left)
  BY TickAt
<1>2. ASSUME NEW c \in Clients, cache'[c].age <= MaxStale
      PROVE  /\ cache'[c].age = cache[c].age + 1 /\ cache[c].age <= MaxStale /\ cache[c].age \in Nat
             /\ cache'[c].roots = cache[c].roots
  <2>1. cache[c].age \in Nat /\ cache[c].age <= MaxStale + 1
    BY StateFields, Numbers
  <2>2. cache'[c].age = Older(cache[c].age, MaxStale) /\ cache'[c].roots = cache[c].roots
    BY TickAt
  <2> QED BY <1>2, <2>1, <2>2, Numbers DEF Older
<1>3. ASSUME NEW g, Known(g, published, cache) PROVE Known(g, published, cache')
  BY <1>2, <1>3 DEF Known
<1>4. secret.wait \in Nat /\ secret.wait <= Delay /\ secret.previous \subseteq Generations
      /\ secret.keep \in [Generations -> 0..Overlap]
  BY TypeParts, RootFields, Numbers
<1>5. ASSUME NEW c \in Clients, cache'[c].age <= MaxStale, cache'[c].age < Delay - secret'.wait
      PROVE  cache[c].age <= MaxStale /\ cache[c].age < Delay - secret.wait
  BY <1>1, <1>2, <1>4, <1>5, Numbers DEF Minus1
<1>6. ASSUME NEW r \in RegionIds, leaf'[r].by # None, leaf'[r].left > 0
      PROVE  \/ leaf'[r].by = secret'.current
             \/ leaf'[r].by \in secret'.previous /\ secret'.keep[leaf'[r].by] > leaf'[r].left
  <2>1. leaf[r].left \in Nat
    BY StateFields, Numbers
  <2>2. leaf[r].left > 0 /\ leaf'[r].left = leaf[r].left - 1 /\ leaf[r].by # None
    BY <1>1, <1>6, <2>1 DEF Minus1
  <2>3. leaf[r].by = secret.current \/ (leaf[r].by \in secret.previous /\ secret.keep[leaf[r].by] > leaf[r].left)
    BY <2>2 DEF Sound
  <2>4. ASSUME NEW g \in secret.previous, secret.keep[g] > leaf[r].left
        PROVE  secret'.keep[g] > leaf[r].left - 1
    <3>1. g \in Generations /\ secret.keep[g] \in Nat
      BY <1>4, Numbers
    <3> QED BY <1>1, <2>1, <2>4, <3>1 DEF Minus1
  <2> QED BY <1>1, <2>2, <2>3, <2>4
<1>7. secret'.pending # None /\ secret'.marked =>
        /\ secret'.pending \in published
        /\ \A c \in Clients :
             cache'[c].age <= MaxStale /\ cache'[c].age < Delay - secret'.wait =>
               secret'.pending \in cache'[c].roots
  BY <1>1, <1>2, <1>5 DEF Sound
<1>8. /\ secret'.current # None => Known(secret'.current, published, cache')
      /\ \A g \in secret'.previous : Known(g, published, cache')
  BY <1>1, <1>3 DEF Sound
<1> QED BY <1>6, <1>7, <1>8, Zenon DEF Sound

LEMMA TrustOthers ==
  ASSUME TypeOK, TrustInv, Others
  PROVE  TrustInv'
<1>0. /\ Sound(secret, published, cache, leaf) /\ Outlived /\ Begun /\ Running
      /\ secret \in RootState /\ run.mem \in RootState
  BY TypeParts, StateFields DEF TrustInv
<1>1. ASSUME NEW g \in Generations, Configure(g) PROVE TrustInv'
  BY <1>0, <1>1 DEF Configure, TrustInv, Outlived, Begun, Running
<1>2. ASSUME NEW c \in Clients, Refresh(c) PROVE TrustInv'
  <2>1. UNCHANGED <<secret, published, life, leaf, run>> /\ published # {}
    BY <1>2 DEF Refresh
  <2>2. Sound(secret, published, cache', leaf)
    BY <1>0, <1>2, SoundRefresh
  <2>3. run.at = "save" => Sound(run.mem, published, cache', leaf)
    BY <1>0, <1>2, SoundRefresh DEF Running
  <2> QED BY <1>0, <2>1, <2>2, <2>3 DEF TrustInv, Outlived, Begun, Running
<1>3. CASE Tick
  <2>1. UNCHANGED <<published, run>> /\ run.at = "idle"
    BY <1>3 DEF Tick
  <2>2. Running'
    BY <2>1 DEF Running
  <2>3. Outlived'
    <3>1. ASSUME NEW r \in RegionIds, leaf'[r].by # None, leaf'[r].left > 0
          PROVE  life'[leaf'[r].by] > leaf'[r].left
      <4>1. leaf'[r].by = leaf[r].by /\ leaf'[r].left = Minus1(leaf[r].left)
        BY <1>3, TickAt
      <4>2. leaf[r].left \in Nat /\ leaf[r].by \in Generations
        BY <3>1, <4>1, StateFields, Numbers
      <4>3. leaf[r].left > 0 /\ leaf'[r].left = leaf[r].left - 1
        BY <3>1, <4>1, <4>2 DEF Minus1
      <4>4. life[leaf[r].by] > leaf[r].left /\ life[leaf[r].by] \in Nat
        BY <1>0, <3>1, <4>1, <4>2, <4>3, StateFields, Numbers DEF Outlived
      <4>5. life'[leaf[r].by] \in {life[leaf[r].by], Minus1(life[leaf[r].by])}
        BY <1>3, <4>2, TickAt
      <4> QED BY <4>1, <4>2, <4>3, <4>4, <4>5 DEF Minus1
    <3> QED BY <3>1 DEF Outlived
  <2>4. Begun'
    <3>1. \A c \in Clients : cache'[c].age = Older(cache[c].age, MaxStale)
      BY <1>3, TickAt
    <3>2. secret'.current = secret.current
      BY <1>3, TickAt
    <3> QED BY <1>0, <2>1, <3>1, <3>2 DEF Begun, Older
  <2> QED BY <1>0, <1>3, <2>1, <2>2, <2>3, <2>4, SoundTick DEF TrustInv
<1> QED BY <1>1, <1>2, <1>3 DEF Others

LEMMA TrustHolds == Spec => [](TypeOK /\ TrustInv)
<1>1. Init => TrustInv
  <2>1. ASSUME Init PROVE TrustInv
    <3>1. \A c \in Clients : cache[c].age > MaxStale
      BY <2>1, Numbers DEF Init
    <3>2. \A r \in RegionIds : leaf[r].by = None
      BY <2>1 DEF Init
    <3>3. /\ secret.current = None /\ secret.pending = None /\ secret.previous = {}
          /\ published = {} /\ run.at = "idle"
      BY <2>1 DEF Init, Uninitialized, Idle
    <3> QED BY <3>1, <3>2, <3>3 DEF TrustInv, Sound, Outlived, Begun, Running
  <2> QED BY <2>1
<1>2. TypeOK /\ Busy /\ TrustInv /\ [Next]_tlsVars => TrustInv'
  <2>1. TrustInv /\ UNCHANGED tlsVars => TrustInv'
    BY DEF tlsVars, TrustInv, Outlived, Begun, Running
  <2> QED BY <2>1, NextCases, TypeStep, TrustReconciles, TrustOthers
<1> QED BY <1>1, <1>2, InitTypes, TypeStep, PTL DEF Spec

(* A leaf that has not expired is verified by every client that still uses *)
(* its trust bundle, through a root that has not expired, for all policies *)
(* that pass the configuration's checks: rollovers, invocations that fail  *)
(* or die at any call, and bundles that cannot be refreshed included.      *)
THEOREM ClientsAlwaysTrust == Spec => []ClientsTrust
<1>1. TypeOK /\ TrustInv => ClientsTrust
  <2>1. SUFFICES ASSUME TypeOK, TrustInv, NEW r \in RegionIds, Serves(r)
                 PROVE  /\ life[leaf[r].by] > 0
                        /\ \A c \in Clients : Usable(c) => leaf[r].by \in cache[c].roots
    BY DEF ClientsTrust
  <2>2. leaf[r].by \in Generations /\ leaf[r].left \in Nat /\ leaf[r].left > 0 /\ leaf[r].by # None
    BY <2>1, StateFields, Numbers DEF Serves
  <2>3. life[leaf[r].by] \in Nat /\ life[leaf[r].by] > leaf[r].left
    BY <2>1, <2>2, StateFields, Numbers DEF TrustInv, Outlived
  <2>4. Known(leaf[r].by, published, cache)
    BY <2>1, <2>2 DEF TrustInv, Sound
  <2> QED BY <2>2, <2>3, <2>4 DEF Known, Usable
<1> QED BY <1>1, TrustHolds, PTL
-----------------------------------------------------------------------------
(* Time: no leaf lapses *)

(* From the publication of a pending root to its activation, at most.      *)
Turnover == Delay - 1 + Period
Room(n) == n * Turnover

(* How often another root may still be staged before the pending one is    *)
(* activated.                                                              *)
Further(s) == MaxGenerations - Larger(s.pending, s.current)

(* While the schedule keeps its pace, d being the ticks since it last did, *)
(* the current root outlives whatever may still delay its replacement, and *)
(* then the last leaf it signs ...                                         *)
CurrentLasts(s, l, d) ==
  /\ s.current = MaxGenerations => l[s.current] = RootLife
  /\ s.current \notin {None, MaxGenerations} =>
       /\ s.pending = None => l[s.current] + d >= RootBefore + 1
       /\ s.pending # None /\ ~s.marked =>
            l[s.current] + d >= LeafBefore + 2 + Turnover + Room(Further(s))
       /\ s.pending # None /\ s.marked /\ s.wait > 0 =>
            l[s.current] >= LeafBefore + 1 + s.wait + Room(Further(s))
       /\ s.pending # None /\ s.marked /\ s.wait = 0 =>
            l[s.current] + d >= LeafBefore + 2 + Room(Further(s))

(* ... and a pending one is not near its end when it becomes the current.  *)
PendingLasts(s, l, d) ==
  /\ s.pending = MaxGenerations => l[s.pending] = RootLife
  /\ s.pending \notin {None, MaxGenerations} =>
       /\ ~s.marked => l[s.pending] + d >= RootBefore + 1 + Period + Turnover
       /\ s.marked /\ s.wait > 0 => l[s.pending] >= RootBefore + s.wait + Period
       /\ s.marked /\ s.wait = 0 => l[s.pending] + d >= RootBefore + 1 + Period

Lasts(s, l, d) == CurrentLasts(s, l, d) /\ PendingLasts(s, l, d)

(* What an invocation has decided on waits for no activation that is due,  *)
(* nor for a root that should be staged.                                   *)
Ready(s, l) ==
  /\ s.pending # None /\ s.marked => s.wait > 0
  /\ s.pending = None /\ s.current # MaxGenerations => l[s.current] > RootBefore

LeavesLast == \A r \in RegionIds : leaf[r].by # None => leaf[r].left + since > LeafBefore

(* The regions an invocation has passed need no leaf.                      *)
Renewing ==
  /\ run.at # "idle" => Lasts(run.mem, life, since) /\ Ready(run.mem, life)
  /\ run.at # "leaf" => run.next = 1
  /\ run.at = "mark" => ~run.mem.marked
  /\ run.at = "leaf" =>
       /\ run.mem.pending # None => run.mem.marked
       /\ \A r \in RegionIds : r < run.next => leaf[r].left > LeafBefore

OnTime == Lasts(secret, life, since) /\ LeavesLast /\ Renewing

LapseInv == (secret.current = None => secret.pending = None) /\ (~late => OnTime)

LEMMA PolicyFacts ==
  ASSUME RoomyPolicy
  PROVE  /\ Turnover \in Nat /\ RootBefore \in Nat /\ Delay > 0 /\ Period <= LeafBefore
         /\ LeafBefore < LeafLife /\ LeafBefore + 1 + Room(MaxGenerations - 1) <= RootBefore
         /\ RootBefore + 1 + Period + Turnover <= RootLife
         /\ Period <= Turnover /\ Turnover = Delay - 1 + Period
<1>1. RootBefore \in Nat /\ LeafBefore < LeafLife
  BY PolicyAssumption
<1>2. Turnover \in Nat /\ Delay > 0 /\ Period <= Turnover
  BY Numbers DEF Turnover
<1>3. Turnover = Delay + Period - 1
  BY Numbers DEF Turnover
<1>4. Room(MaxGenerations - 1) = (MaxGenerations - 1) * (Delay + Period - 1)
  BY <1>3 DEF Room
<1>5. LeafBefore + 1 + Room(MaxGenerations - 1) <= RootBefore
  BY <1>4, Zenon DEF RoomyPolicy
<1>6. Period <= LeafBefore /\ RootBefore + Delay + 2 * Period <= RootLife
  BY DEF RoomyPolicy
<1> QED BY <1>1, <1>2, <1>3, <1>5, <1>6, Numbers

LEMMA RoomFacts ==
  ASSUME NEW n \in Nat
  PROVE  /\ Room(n) \in Nat
         /\ \A m \in Nat : m < n => Room(m) + Turnover <= Room(n)
<1>1. Turnover \in Nat
  BY Numbers DEF Turnover
<1> HIDE DEF Turnover
<1>2. ASSUME NEW m \in Nat, NEW t \in Nat, m < n
      PROVE  m * t + t <= n * t /\ n * t \in Nat
  <2>1. n - m - 1 \in Nat
    BY <1>2
  <2>2. (n - m - 1) * t \in Nat
    BY <2>1
  <2>3. n * t = (n - m - 1) * t + (m * t + t)
    BY <1>2
  <2> QED BY <2>2, <2>3
<1>3. ASSUME NEW t \in Nat PROVE n * t \in Nat
  OBVIOUS
<1> QED BY <1>1, <1>2, <1>3 DEF Room

LEMMA FurtherFacts ==
  ASSUME NEW s \in RootState
  PROVE  /\ Further(s) \in Nat /\ Larger(s.pending, s.current) \in Nat
         /\ Further(s) = MaxGenerations - Larger(s.pending, s.current)
         /\ Larger(s.pending, s.current) >= s.pending /\ Larger(s.pending, s.current) >= s.current
         /\ Larger(s.pending, s.current) \in {s.pending, s.current}
<1>1. s.pending \in 0..MaxGenerations /\ s.current \in 0..MaxGenerations
  BY RootFields, Numbers DEF Generations, None
<1> QED BY <1>1, Numbers DEF Further, Larger

LEMMA LifeFacts ==
  ASSUME NEW l \in [Generations -> 0..RootLife]
  PROVE  /\ \A g \in Generations : l[g] \in Nat /\ l[g] <= RootLife
         /\ MaxGenerations \in Generations /\ MaxGenerations # None
BY Numbers DEF Generations, None

(* A root that is made anew loses nothing by it.                           *)
LEMMA MoreLife ==
  ASSUME NEW l \in [Generations -> 0..RootLife], NEW m \in [Generations -> 0..RootLife],
         NEW s \in RootState, NEW d \in 0..Period,
         \A g \in Generations : m[g] >= l[g], Lasts(s, l, d)
  PROVE  Lasts(s, m, d)
<1>1. /\ s.current \in Generations \union {None} /\ s.pending \in Generations \union {None}
      /\ s.wait \in Nat /\ Further(s) \in Nat /\ d \in Nat
  BY RootFields, FurtherFacts, Numbers
<1>2. /\ \A g \in Generations : l[g] \in Nat /\ m[g] \in Nat /\ m[g] <= RootLife /\ m[g] >= l[g]
      /\ MaxGenerations \in Generations /\ RootLife \in Nat
  BY LifeFacts, Numbers
<1>3. Room(Further(s)) \in Nat /\ Turnover \in Nat
  BY <1>1, RoomFacts, Numbers DEF Turnover
<1>4. CurrentLasts(s, m, d)
  <2>1. s.current = MaxGenerations => m[s.current] = RootLife
    BY <1>2 DEF Lasts, CurrentLasts
  <2>2. ASSUME s.current \notin {None, MaxGenerations}
        PROVE  l[s.current] \in Nat /\ m[s.current] \in Nat /\ m[s.current] >= l[s.current]
    BY <1>1, <1>2, <2>2
  <2> HIDE DEF Further
  <2> QED BY <1>1, <1>3, <2>1, <2>2, PolicyAssumption DEF Lasts, CurrentLasts
<1>5. PendingLasts(s, m, d)
  <2>1. s.pending = MaxGenerations => m[s.pending] = RootLife
    BY <1>2 DEF Lasts, PendingLasts
  <2>2. ASSUME s.pending \notin {None, MaxGenerations}
        PROVE  l[s.pending] \in Nat /\ m[s.pending] \in Nat /\ m[s.pending] >= l[s.pending]
    BY <1>1, <1>2, <2>2
  <2> QED BY <1>1, <1>3, <2>1, <2>2, PolicyAssumption DEF Lasts, PendingLasts
<1> QED BY <1>4, <1>5 DEF Lasts

(* Staging: whatever was to come before has its time, and one less is to   *)
(* come.                                                                   *)
LEMMA StagedLasts ==
  ASSUME RoomyPolicy, NEW l \in [Generations -> 0..RootLife], NEW d \in 0..Period,
         NEW s \in RootState, NEW t \in RootState, s.current # None, Lasts(s, l, d),
         t.current = s.current, t.pending \in Generations, ~t.marked,
         t.pending > Larger(s.current, s.pending), l[t.pending] = RootLife
  PROVE  Lasts(t, l, d)
<1>1. /\ s.current \in 1..MaxGenerations /\ s.pending \in 0..MaxGenerations
      /\ t.pending \in 1..MaxGenerations /\ d \in Nat /\ d <= Period /\ None = 0
      /\ s.wait \in Nat /\ s.marked \in BOOLEAN /\ s.current \in Generations
  BY RootFields, Numbers DEF Generations, None
<1>2. t.pending > s.current /\ t.pending > s.pending /\ s.current < MaxGenerations
  BY <1>1, Numbers DEF Larger
<1>3. /\ Further(t) \in Nat /\ Further(s) \in Nat /\ Further(t) < Further(s)
      /\ MaxGenerations - 1 \in Nat /\ Further(t) < MaxGenerations - 1
  BY <1>1, <1>2, Numbers DEF Further, Larger
<1>4. /\ Room(Further(t)) \in Nat /\ Room(Further(s)) \in Nat /\ Room(MaxGenerations - 1) \in Nat
      /\ Room(Further(t)) + Turnover <= Room(Further(s))
      /\ Room(Further(t)) + Turnover <= Room(MaxGenerations - 1)
  BY <1>3, RoomFacts
<1>5. l[s.current] \in Nat
  BY <1>1, LifeFacts
<1>6. PendingLasts(t, l, d)
  BY <1>1, PolicyFacts, Numbers DEF PendingLasts
<1>7. l[s.current] + d >= LeafBefore + 2 + Turnover + Room(Further(t))
  <2> HIDE DEF Further
  <2>1. CASE s.pending = None
    BY <1>1, <1>2, <1>4, <1>5, <2>1, PolicyFacts, Numbers DEF Lasts, CurrentLasts
  <2>2. CASE s.pending # None /\ ~s.marked
    BY <1>1, <1>2, <1>4, <1>5, <2>2, PolicyFacts, Numbers DEF Lasts, CurrentLasts
  <2>3. CASE s.pending # None /\ s.marked /\ s.wait > 0
    BY <1>1, <1>2, <1>4, <1>5, <2>3, PolicyFacts, Numbers DEF Lasts, CurrentLasts
  <2>4. CASE s.pending # None /\ s.marked /\ s.wait = 0
    BY <1>1, <1>2, <1>4, <1>5, <2>4, PolicyFacts, Numbers DEF Lasts, CurrentLasts
  <2> QED BY <1>1, <2>1, <2>2, <2>3, <2>4
<1>8. CurrentLasts(t, l, d)
  BY <1>1, <1>2, <1>7 DEF CurrentLasts
<1> QED BY <1>6, <1>8 DEF Lasts

(* Activation, and a first root.                                           *)
LEMMA FreshLasts ==
  ASSUME RoomyPolicy, NEW l \in [Generations -> 0..RootLife], NEW d \in 0..Period,
         NEW t \in RootState, t.current \in Generations, t.pending = None,
         t.current = MaxGenerations => l[t.current] = RootLife,
         t.current # MaxGenerations => l[t.current] > RootBefore
  PROVE  Lasts(t, l, d) /\ Ready(t, l)
<1>1. l[t.current] \in Nat /\ None \notin Generations /\ MaxGenerations \in Generations
  BY LifeFacts, GenerationFacts
<1>2. d \in Nat
  BY Numbers
<1> QED BY <1>1, <1>2, PolicyFacts DEF Lasts, CurrentLasts, PendingLasts, Ready

LEMMA PromotedLasts ==
  ASSUME RoomyPolicy, NEW l \in [Generations -> 0..RootLife], NEW d \in 0..Period,
         NEW s \in RootState, s.pending # None, s.marked, s.wait = 0, Lasts(s, l, d)
  PROVE  /\ s.pending = MaxGenerations => l[s.pending] = RootLife
         /\ s.pending # MaxGenerations => l[s.pending] > RootBefore
<1>1. s.pending \in Generations /\ l[s.pending] \in Nat /\ d \in Nat /\ d <= Period
  BY RootFields, LifeFacts, Numbers
<1> QED BY <1>1, PolicyFacts, Numbers DEF Lasts, PendingLasts

LEMMA SameLasts ==
  ASSUME NEW s, NEW t, NEW l, NEW d, t.current = s.current, t.pending = s.pending,
         t.wait = s.wait, t.marked = s.marked
  PROVE  (Lasts(s, l, d) <=> Lasts(t, l, d)) /\ (Ready(s, l) <=> Ready(t, l))
<1>1. Further(t) = Further(s)
  BY DEF Further
<1> QED BY <1>1 DEF Lasts, CurrentLasts, PendingLasts, Ready

LEMMA LapseLoad ==
  ASSUME RoomyPolicy, TypeOK, LoadRoot, secret.current = None => secret.pending = None,
         Lasts(secret, life, since)
  PROVE  /\ Lasts(secret, life', since)
         /\ Lasts(Decided, life', since) /\ Ready(Decided, life')
<1>0. /\ secret \in RootState /\ life \in [Generations -> 0..RootLife] /\ since \in 0..Period
      /\ life' \in [Generations -> 0..RootLife] /\ wanted \in Generations
      /\ \A g \in Generations : life'[g] >= life[g]
      /\ secret.current \in Generations \union {None} /\ secret.pending \in Generations \union {None}
  BY TypeParts, LoadFacts, RootFields
<1>l. Lasts(secret, life', since)
  BY <1>0, MoreLife
<1>1. CASE secret.current = None
  <2> DEFINE t == Bootstrapped(secret)
  <2>1. t \in RootState /\ t.current = wanted /\ t.pending = None /\ t = Decided
    BY <1>0, <1>1, BootstrappedAt DEF Decided
  <2>2. life'[wanted] = RootLife
    BY <1>0, <1>1 DEF LoadRoot
  <2> HIDE DEF t
  <2> QED BY <1>l, <1>0, <2>1, <2>2, FreshLasts, PolicyAssumption
<1>2. CASE secret.current # None
  <2> DEFINE t == Staged(secret)
  <2>1. Bootstrapped(secret) = secret
    BY <1>2 DEF Bootstrapped
  <2>2. Decided = Pruned(Promoted(t))
    BY <1>2, <2>1, Zenon DEF Decided
  <2>3. t \in RootState /\ t.current = secret.current
    BY <1>0, <1>2, StagedAt
  <2>4. life' = IF Stages(secret) THEN [life EXCEPT ![Desired(secret)] = RootLife] ELSE life
    BY <1>2, <2>1 DEF LoadRoot
  <2>5. /\ Promoted(t) \in RootState
        /\ Activates(t) => Promoted(t).current = t.pending /\ Promoted(t).pending = None
        /\ ~Activates(t) => Promoted(t) = t
    BY <1>2, <2>3, PromotedAt
  <2>6. /\ Lasts(Promoted(t), life', since) /\ Ready(Promoted(t), life')
        => Lasts(Decided, life', since) /\ Ready(Decided, life')
    BY <2>2, <2>5, PrunedAt, SameLasts
  <2>7. CASE Stages(secret)
    <3> DEFINE p == Desired(secret)
    <3>1. p \in Generations /\ p > Larger(secret.current, secret.pending)
      BY <1>0, <1>2, <2>7, DesiredTyped DEF Stages
    <3>2. t = [secret EXCEPT !.pending = p, !.wait = Delay, !.marked = FALSE]
      BY <2>7, Zenon DEF Staged
    <3>3. life'[p] = RootLife
      BY <1>0, <2>4, <2>7, <3>1
    <3> HIDE DEF p, t
    <3>4. t.pending = p /\ ~t.marked
      BY <1>0, <3>2 DEF RootState
    <3>5. Lasts(t, life', since)
      BY <1>0, <1>2, <1>l, <2>3, <3>1, <3>3, <3>4, StagedLasts
    <3>6. Ready(t, life') /\ ~Activates(t)
      BY <3>1, <3>4, GenerationFacts DEF Ready, Activates
    <3> QED BY <1>l, <2>5, <2>6, <3>5, <3>6
  <2>8. CASE ~Stages(secret)
    <3>1. t = secret /\ life' = life
      BY <2>4, <2>8, Zenon DEF Staged
    <3> HIDE DEF t
    <3>2. CASE Activates(secret)
      <4>1. /\ secret.pending \in Generations
            /\ secret.pending = MaxGenerations => life'[secret.pending] = RootLife
            /\ secret.pending # MaxGenerations => life'[secret.pending] > RootBefore
        BY <1>0, <1>l, <3>2, PromotedLasts DEF Activates
      <4>2. Lasts(Promoted(t), life', since) /\ Ready(Promoted(t), life')
        BY <1>0, <2>5, <3>1, <3>2, <4>1, FreshLasts
      <4> QED BY <1>l, <2>6, <4>2
    <3>3. CASE ~Activates(secret)
      <4>1. secret.pending # None /\ secret.marked => secret.wait > 0
        BY <1>0, <3>3, RootFields, Numbers DEF Activates
      <4>2. ASSUME secret.pending = None, secret.current # MaxGenerations
            PROVE  life[secret.current] > RootBefore
        <5>1. /\ secret.current \in Nat /\ secret.current < MaxGenerations /\ wanted \in Nat
              /\ life[secret.current] \in Nat /\ None = 0 /\ secret.current > 0 /\ RootBefore \in Nat
          BY <1>0, <1>2, <4>2, LifeFacts, PolicyAssumption DEF Generations, None
        <5>2. SUFFICES ASSUME life[secret.current] <= RootBefore PROVE FALSE
          BY <5>1
        <5>3. Desired(secret) = Larger(wanted, secret.current + 1)
          BY <5>1, <5>2 DEF Desired
        <5> QED BY <2>8, <4>2, <5>1, <5>3 DEF Stages, Larger
      <4>3. Ready(secret, life')
        BY <3>1, <4>1, <4>2 DEF Ready
      <4> QED BY <1>l, <2>5, <2>6, <3>1, <3>3, <4>3
    <3> QED BY <3>2, <3>3
  <2> QED BY <2>7, <2>8
<1> QED BY <1>1, <1>2

LEMMA MarkedLasts ==
  ASSUME RoomyPolicy, NEW l \in [Generations -> 0..RootLife], NEW d \in 0..Period,
         NEW s \in RootState, s.pending # None, ~s.marked, Lasts(s, l, d)
  PROVE  Lasts(Marked(s), l, d) /\ Ready(Marked(s), l)
<1> DEFINE t == Marked(s)
<1>1. /\ t \in RootState /\ t.marked /\ t.wait = Delay
      /\ t.current = s.current /\ t.pending = s.pending
  BY MarkedAt
<1> HIDE DEF t
<1>2. Further(t) = Further(s) /\ Further(s) \in Nat /\ Room(Further(s)) \in Nat
  BY <1>1, FurtherFacts, RoomFacts DEF Further
<1>3. /\ s.current \in Generations \union {None} /\ s.pending \in Generations
      /\ \A g \in Generations : l[g] \in Nat
      /\ d \in Nat /\ d <= Period
  BY RootFields, LifeFacts, Numbers
<1> HIDE DEF Further
<1>4. CurrentLasts(t, l, d)
  BY <1>1, <1>2, <1>3, PolicyFacts, Numbers DEF Lasts, CurrentLasts
<1>5. PendingLasts(t, l, d)
  BY <1>1, <1>3, PolicyFacts, Numbers DEF Lasts, PendingLasts
<1> QED BY <1>1, <1>4, <1>5, PolicyFacts DEF Lasts, Ready, t

(* No leaf is refused.                                                     *)
LEMMA NeverTooSoon ==
  ASSUME RoomyPolicy, TypeOK, Busy, Renewing, run.at = "leaf"
  PROVE  ~TooSoon
<1> DEFINE s == run.mem
           n == life[s.current]
<1>1. /\ s \in RootState /\ s.current \in Generations /\ n \in Nat /\ n <= RootLife
      /\ life \in [Generations -> 0..RootLife] /\ s.current \in 1..MaxGenerations
  BY TypeParts, StateFields, RootFields, LifeFacts DEF Busy, Generations
<1>2. Lasts(s, life, since) /\ Ready(s, life) /\ (s.pending # None => s.marked)
  BY DEF Renewing
<1>3. n >= LeafBefore + 2
  <2>1. CASE s.current = MaxGenerations
    BY <1>1, <1>2, <2>1, PolicyFacts, RoomFacts, Numbers DEF Lasts, CurrentLasts
  <2>2. CASE s.current # MaxGenerations /\ s.pending = None
    <3>1. MaxGenerations - 1 \in Nat /\ 0 < MaxGenerations - 1 /\ 0 \in Nat
      BY <1>1, <2>2, Numbers
    <3>2. Room(MaxGenerations - 1) \in Nat /\ n > RootBefore
      BY <1>2, <2>2, <3>1, RoomFacts DEF Ready
    <3> HIDE DEF n
    <3> QED BY <1>1, <3>2, PolicyFacts, Numbers
  <2>3. CASE s.current # MaxGenerations /\ s.pending # None
    <3>1. Room(Further(s)) \in Nat /\ s.wait \in Nat /\ s.wait > 0
      BY <1>1, <1>2, <2>3, FurtherFacts, RoomFacts, RootFields, Numbers DEF Ready
    <3>2. n >= LeafBefore + 1 + s.wait + Room(Further(s))
      BY <1>1, <1>2, <2>3, <3>1, GenerationFacts DEF Lasts, CurrentLasts
    <3> HIDE DEF n
    <3> QED BY <1>1, <3>1, <3>2, Numbers
  <2> QED BY <2>1, <2>2, <2>3
<1>4. NewLeft > LeafBefore
  <2> HIDE DEF n
  <2>1. Minus1(n) = n - 1
    BY <1>1, <1>3, Numbers DEF Minus1
  <2>2. NewLeft = Smaller(LeafLife, n - 1)
    BY <2>1 DEF NewLeft, n
  <2> QED BY <1>1, <1>3, <2>2, PolicyFacts, Numbers DEF Smaller
<1>5. NewLeft \in Nat
  <2> HIDE DEF n
  <2>1. Minus1(n) \in Nat
    BY <1>1 DEF Minus1
  <2>2. NewLeft = Smaller(LeafLife, Minus1(n))
    BY DEF NewLeft, n
  <2> QED BY <2>1, <2>2, Numbers DEF Smaller
<1> QED BY <1>4, <1>5, Numbers DEF TooSoon

(* A tick takes one from every deadline, and gives one to the schedule's.  *)
LEMMA TickLasts ==
  ASSUME RoomyPolicy, TypeOK, Tick, since < Period, Lasts(secret, life, since)
  PROVE  Lasts(secret', life', since + 1)
<1> DEFINE s == secret
           t == secret'
<1>0. /\ s \in RootState /\ t \in RootState /\ since \in Nat
      /\ t.current = s.current /\ t.pending = s.pending /\ t.marked = s.marked
      /\ t.wait = Minus1(s.wait)
      /\ s.current \in Generations \union {None} /\ s.pending \in Generations \union {None}
      /\ s.wait \in Nat /\ None \notin Generations
  BY TypeParts, TickAt, RootFields, GenerationFacts, Numbers
<1>1. /\ \A g \in Generations : /\ life[g] \in Nat /\ life'[g] \in Nat
                                /\ life'[g] >= life[g] - 1
      /\ MaxGenerations \in Generations /\ life'[MaxGenerations] = life[MaxGenerations]
  <2>1. MaxGenerations \in Generations
    BY Numbers DEF Generations
  <2>2. ASSUME NEW g \in Generations
        PROVE  life[g] \in Nat /\ life'[g] \in Nat /\ life'[g] >= life[g] - 1
    <3>1. life[g] \in Nat
      BY StateFields, Numbers
    <3>2. life'[g] \in {life[g], Minus1(life[g])}
      BY TickAt
    <3> QED BY <3>1, <3>2 DEF Minus1
  <2> QED BY <2>1, <2>2 DEF Tick
<1>2. Further(t) = Further(s) /\ Further(s) \in Nat /\ Room(Further(s)) \in Nat
  BY <1>0, FurtherFacts, RoomFacts DEF Further
<1>3. /\ s.wait = 0 => t.wait = 0
      /\ s.wait > 0 => t.wait = s.wait - 1 /\ t.wait \in Nat
  BY <1>0 DEF Minus1
<1> HIDE DEF Further, s, t
<1>4. CurrentLasts(t, life', since + 1)
  <2>1. CASE s.current \in {None, MaxGenerations}
    BY <1>0, <1>1, <2>1 DEF Lasts, CurrentLasts, s
  <2>2. CASE s.current \notin {None, MaxGenerations}
    <3>1. life[s.current] \in Nat /\ life'[s.current] \in Nat /\ life'[s.current] >= life[s.current] - 1
      BY <1>0, <1>1, <2>2
    <3>2. CurrentLasts(s, life, since)
      BY DEF Lasts, s
    <3> QED BY <1>0, <1>2, <1>3, <2>2, <3>1, <3>2, PolicyFacts, Numbers DEF CurrentLasts
  <2> QED BY <2>1, <2>2
<1>5. PendingLasts(t, life', since + 1)
  <2>1. CASE s.pending \in {None, MaxGenerations}
    BY <1>0, <1>1, <2>1 DEF Lasts, PendingLasts, s
  <2>2. CASE s.pending \notin {None, MaxGenerations}
    <3>1. life[s.pending] \in Nat /\ life'[s.pending] \in Nat /\ life'[s.pending] >= life[s.pending] - 1
      BY <1>0, <1>1, <2>2
    <3>2. PendingLasts(s, life, since)
      BY DEF Lasts, s
    <3> QED BY <1>0, <1>3, <2>2, <3>1, <3>2, PolicyFacts, Numbers DEF PendingLasts
  <2> QED BY <2>1, <2>2
<1> QED BY <1>4, <1>5 DEF Lasts, t

(* An invocation that runs to its end leaves nothing the schedule is late  *)
(* for.                                                                    *)
LEMMA UndisturbedLasts ==
  ASSUME RoomyPolicy, NEW l \in [Generations -> 0..RootLife], NEW d \in 0..Period,
         NEW s \in RootState, s.current # None, Lasts(s, l, d), Ready(s, l),
         s.pending # None => s.marked
  PROVE  Lasts(s, l, 0)
<1>1. /\ s.current \in Generations /\ s.pending \in Generations \union {None} /\ l[s.current] \in Nat
      /\ s.wait \in Nat
  BY RootFields, LifeFacts, Numbers
<1>2. CurrentLasts(s, l, 0)
  BY <1>1, PolicyFacts, Numbers DEF Lasts, Ready, CurrentLasts
<1>3. PendingLasts(s, l, 0)
  BY <1>1, PolicyFacts, Numbers DEF Lasts, Ready, PendingLasts
<1> QED BY <1>2, <1>3 DEF Lasts

LEMMA RenewedLast ==
  ASSUME TypeOK, NEW r \in RegionIds, ~TooSoon, run.mem.current # None,
         leaf' = [leaf EXCEPT ![r] = NewLeaf]
  PROVE  /\ leaf'[r].left \in Nat /\ leaf'[r].left > LeafBefore
         /\ \A q \in RegionIds \ {r} : leaf'[q] = leaf[q]
<1>1. leaf'[r] = NewLeaf /\ \A q \in RegionIds \ {r} : leaf'[q] = leaf[q]
  BY TypeParts
<1>2. NewLeaf.left \in Nat /\ NewLeaf.left = NewLeft
  BY NewLeafTyped, Numbers DEF NewLeaf, LeafType
<1>3. NewLeft > LeafBefore
  BY <1>2, Numbers DEF TooSoon
<1> QED BY <1>1, <1>2, <1>3

LEMMA LapseLoaded ==
  ASSUME RoomyPolicy, TypeOK, LapseInv, LoadRoot
  PROVE  LapseInv'
<1>1. /\ UNCHANGED <<secret, leaf, since, late>> /\ run'.mem = Decided
      /\ run'.at \in {"save", "publish"} /\ run'.next = 1
  <2>1. run' = [at |-> IF Decided = secret THEN "publish" ELSE "save", mem |-> Decided, next |-> 1]
        /\ UNCHANGED <<secret, leaf, since, late>>
    BY Zenon DEF LoadRoot, Decided
  <2> QED BY <2>1
<1>2. SUFFICES ASSUME ~late PROVE OnTime'
  BY <1>1 DEF LapseInv
<1>3. /\ Lasts(secret, life', since) /\ Lasts(Decided, life', since) /\ Ready(Decided, life')
  BY <1>2, LapseLoad DEF LapseInv, OnTime
<1> QED BY <1>1, <1>2, <1>3 DEF LapseInv, OnTime, LeavesLast, Renewing

LEMMA LapseSave ==
  ASSUME TypeOK, Busy, LapseInv, SaveRoot
  PROVE  LapseInv'
<1>1. /\ secret' = run.mem /\ run.at # "idle" /\ run.at # "leaf" /\ run.mem.current # None
      /\ run'.at = "publish" /\ run'.mem = run.mem /\ run'.next = run.next
      /\ UNCHANGED <<life, leaf, since, late>>
  <2>1. run' = [run EXCEPT !.at = "publish"] /\ run \in RunType /\ "publish" \in Places
    BY TypeParts DEF SaveRoot, Goes, Places
  <2>2. run'.at = "publish" /\ run'.mem = run.mem /\ run'.next = run.next
    BY <2>1 DEF RunType
  <2> QED BY <2>2 DEF SaveRoot, Goes, Busy
<1> QED BY <1>1 DEF LapseInv, OnTime, LeavesLast, Renewing

LEMMA LapsePublish ==
  ASSUME TypeOK, Busy, LapseInv, PublishBundle
  PROVE  LapseInv'
<1>1. /\ run.at = "publish" /\ run'.at = AfterPublish(run.mem) /\ run'.mem = run.mem
      /\ UNCHANGED <<secret, life, leaf, since, late>> /\ run'.next = run.next
  <2>1. /\ run' = [run EXCEPT !.at = AfterPublish(run.mem)] /\ run \in RunType
        /\ AfterPublish(run.mem) \in Places
    BY TypeParts DEF PublishBundle, Goes, Places, AfterPublish
  <2> HIDE DEF AfterPublish
  <2>2. run'.at = AfterPublish(run.mem) /\ run'.mem = run.mem /\ run'.next = run.next
    BY <2>1 DEF RunType
  <2> QED BY <2>2 DEF PublishBundle, Goes
<1>2. /\ AfterPublish(run.mem) \in {"mark", "leaf"}
      /\ AfterPublish(run.mem) = "leaf" /\ run.mem.pending # None => run.mem.marked
      /\ AfterPublish(run.mem) = "mark" => ~run.mem.marked
  BY DEF AfterPublish
<1>3. \A r \in RegionIds : ~(r < 1)
  BY Numbers DEF RegionIds
<1> QED BY <1>1, <1>2, <1>3 DEF LapseInv, OnTime, LeavesLast, Renewing

LEMMA LapseMark ==
  ASSUME RoomyPolicy, TypeOK, Busy, TrustInv, LapseInv, MarkPublished
  PROVE  LapseInv'
<1> DEFINE m == Marked(run.mem)
<1>0. /\ run.mem \in RootState /\ life \in [Generations -> 0..RootLife] /\ since \in 0..Period
      /\ run.at = "mark" /\ run.mem.pending # None /\ run.mem.current # None
  BY TypeParts, StateFields DEF TrustInv, Running, Busy, MarkPublished
<1>1. m.marked /\ m.current = run.mem.current /\ m.pending = run.mem.pending
  BY <1>0, MarkedAt
<1>2. /\ run'.at = "leaf" /\ run'.mem = m /\ run'.next = run.next /\ secret' = m
      /\ UNCHANGED <<life, leaf, since, late>>
  <2>1. run' = [run EXCEPT !.at = "leaf", !.mem = m] /\ run \in RunType
    BY TypeParts DEF MarkPublished
  <2> HIDE DEF m
  <2>2. run'.at = "leaf" /\ run'.mem = m /\ run'.next = run.next
    BY <2>1 DEF RunType
  <2> QED BY <2>2 DEF MarkPublished, m
<1>3. ~late => Lasts(m, life, since) /\ Ready(m, life)
  BY <1>0, MarkedLasts DEF LapseInv, OnTime, Renewing
<1>4. \A r \in RegionIds : ~(r < 1)
  BY Numbers DEF RegionIds
<1> HIDE DEF m
<1> QED BY <1>0, <1>1, <1>2, <1>3, <1>4 DEF LapseInv, OnTime, LeavesLast, Renewing

LEMMA LapseRegion ==
  ASSUME TypeOK, Busy, LapseInv, run.at = "leaf", run.next \in RegionIds, NextRegion,
         UNCHANGED <<secret, life, late>>,
         leaf'[run.next].left \in Nat, leaf'[run.next].left > LeafBefore,
         \A q \in RegionIds \ {run.next} : leaf'[q] = leaf[q]
  PROVE  LapseInv'
<1>1. run'.at = "leaf" /\ run'.mem = run.mem /\ run'.next = run.next + 1 /\ UNCHANGED since
  BY TypeParts DEF NextRegion, RunType
<1>2. SUFFICES ASSUME ~late PROVE OnTime'
  BY <1>1 DEF LapseInv
<1>3. LeavesLast'
  <2>1. ASSUME NEW r \in RegionIds, leaf'[r].by # None
        PROVE  leaf'[r].left + since > LeafBefore
    <3>1. CASE r = run.next
      BY <3>1, TypeParts, Numbers
    <3>2. CASE r # run.next
      BY <1>2, <2>1, <3>2 DEF LapseInv, OnTime, LeavesLast
    <3> QED BY <3>1, <3>2
  <2> QED BY <1>1, <2>1 DEF LeavesLast
<1>4. ASSUME NEW r \in RegionIds, r < run.next + 1
      PROVE  leaf'[r].left > LeafBefore
  <2>1. CASE r = run.next
    BY <2>1
  <2>2. CASE r # run.next
    <3>1. r < run.next
      BY <1>4, <2>2, Numbers DEF RegionIds
    <3> QED BY <1>2, <2>2, <3>1 DEF LapseInv, OnTime, Renewing
  <2> QED BY <2>1, <2>2
<1> QED BY <1>1, <1>2, <1>3, <1>4 DEF LapseInv, OnTime, Renewing

LEMMA LapseKept ==
  ASSUME TypeOK, Busy, LapseInv, KeepLeaf
  PROVE  LapseInv'
<1>1. leaf[run.next].left \in Nat /\ leaf[run.next].left > LeafBefore
  <2>1. leaf[run.next].left \in Nat
    BY StateFields, Numbers DEF KeepLeaf
  <2> QED BY <2>1, Numbers DEF KeepLeaf, NeedsLeaf
<1> QED BY <1>1, LapseRegion DEF KeepLeaf

LEMMA LapseRenewed ==
  ASSUME TypeOK, Busy, LapseInv, NEW r \in RegionIds, RenewLeaf(r)
  PROVE  LapseInv'
<1>1. leaf' = [leaf EXCEPT ![r] = NewLeaf] /\ ~TooSoon /\ run.next = r /\ run.mem.current # None
  BY DEF RenewLeaf, Busy
<1> QED BY <1>1, RenewedLast, LapseRegion DEF RenewLeaf

LEMMA LapseRefused ==
  ASSUME RoomyPolicy, TypeOK, Busy, LapseInv, RefuseLeaf
  PROVE  LapseInv'
<1>1. late
  BY NeverTooSoon DEF RefuseLeaf, LapseInv, OnTime
<1> QED BY <1>1 DEF LapseInv, RefuseLeaf

LEMMA LapseFinished ==
  ASSUME RoomyPolicy, TypeOK, Busy, TrustInv, LapseInv, Finish
  PROVE  LapseInv'
<1>1. /\ run.at = "leaf" /\ run.next = NumRegions + 1 /\ run' = Idle /\ since' = 0
      /\ UNCHANGED <<secret, life, leaf, late>> /\ secret = run.mem /\ run.mem.current # None
      /\ run.mem \in RootState /\ life \in [Generations -> 0..RootLife] /\ since \in 0..Period
  BY TypeParts, StateFields DEF Finish, Ends, TrustInv, Running, Busy
<1>2. SUFFICES ASSUME ~late PROVE OnTime'
  BY <1>1 DEF LapseInv
<1>3. Lasts(secret, life, 0)
  BY <1>1, <1>2, UndisturbedLasts DEF LapseInv, OnTime, Renewing
<1>4. \A r \in RegionIds : leaf[r].left + 0 > LeafBefore
  <2>1. ASSUME NEW r \in RegionIds PROVE leaf[r].left + 0 > LeafBefore
    <3>1. r < run.next
      BY <1>1, Numbers DEF RegionIds
    <3>2. leaf[r].left \in Nat /\ leaf[r].left > LeafBefore
      BY <1>1, <1>2, <3>1, StateFields, Numbers DEF LapseInv, OnTime, Renewing
    <3> QED BY <3>2
  <2> QED BY <2>1
<1> QED BY <1>1, <1>3, <1>4 DEF OnTime, LeavesLast, Renewing, Idle

LEMMA LapseDisturbed ==
  ASSUME RoomyPolicy, TypeOK, Busy, TrustInv, LapseInv, Disturbed
  PROVE  LapseInv'
<1> DEFINE m == Marked(run.mem)
<1>1. /\ run.at # "idle" /\ run' = Idle /\ UNCHANGED <<life, late, since>>
      /\ run.mem.current # None /\ run.mem \in RootState
      /\ life \in [Generations -> 0..RootLife] /\ since \in 0..Period
  BY TypeParts, StateFields DEF Disturbed, Ends, Busy
<1>2. secret' \in {secret, run.mem} \/ (run.at = "mark" /\ secret' = m)
  BY DEF Disturbed
<1>3. /\ m.current = run.mem.current
      /\ ~late /\ run.at = "mark" => Lasts(m, life, since)
  <2>1. m.current = run.mem.current
    BY <1>1, MarkedAt
  <2>2. run.at = "mark" => run.mem.pending # None
    BY DEF TrustInv, Running
  <2> HIDE DEF m
  <2>3. ASSUME ~late, run.at = "mark" PROVE Lasts(m, life, since)
    BY <1>1, <2>2, <2>3, MarkedLasts DEF LapseInv, OnTime, Renewing, m
  <2> QED BY <2>1, <2>3
<1>4. secret'.current = None => secret'.pending = None
  BY <1>1, <1>2, <1>3 DEF LapseInv
<1>5. ~late => Lasts(secret', life, since)
  BY <1>1, <1>2, <1>3 DEF LapseInv, OnTime, Renewing
<1>6. ~late => LeavesLast'
  <2>1. CASE leaf' = leaf
    BY <1>1, <2>1 DEF LapseInv, OnTime, LeavesLast
  <2>2. CASE /\ run.at = "leaf" /\ run.next \in RegionIds /\ ~TooSoon
             /\ leaf' = [leaf EXCEPT ![run.next] = NewLeaf]
    <3>1. /\ leaf'[run.next].left \in Nat /\ leaf'[run.next].left > LeafBefore
          /\ \A q \in RegionIds \ {run.next} : leaf'[q] = leaf[q]
      BY <1>1, <2>2, RenewedLast
    <3>2. leaf'[run.next].left + since > LeafBefore
      BY <1>1, <3>1, Numbers
    <3> QED BY <1>1, <3>1, <3>2 DEF LapseInv, OnTime, LeavesLast
  <2> QED BY <2>1, <2>2 DEF Disturbed
<1> QED BY <1>1, <1>4, <1>5, <1>6 DEF LapseInv, OnTime, Renewing, Idle

LEMMA LapseTick ==
  ASSUME RoomyPolicy, TypeOK, LapseInv, Tick
  PROVE  LapseInv'
<1>1. /\ run.at = "idle" /\ UNCHANGED run
      /\ secret'.current = secret.current /\ secret'.pending = secret.pending
      /\ late' = (late \/ since = Period)
      /\ since' = IF late \/ since = Period THEN 0 ELSE since + 1
  BY TickAt DEF Tick
<1>2. SUFFICES ASSUME ~late, since # Period PROVE OnTime'
  BY <1>1 DEF LapseInv
<1>3. since' = since + 1 /\ since \in Nat /\ since < Period
  BY <1>1, <1>2, TypeParts, Numbers
<1>4. Lasts(secret', life', since')
  BY <1>2, <1>3, TickLasts DEF LapseInv, OnTime
<1>5. LeavesLast'
  <2>1. ASSUME NEW r \in RegionIds, leaf'[r].by # None
        PROVE  leaf'[r].left + since' > LeafBefore
    <3>1. /\ leaf'[r].by = leaf[r].by /\ leaf'[r].left = Minus1(leaf[r].left)
          /\ leaf[r].left \in Nat
      BY TickAt, StateFields, Numbers
    <3>2. leaf[r].left + since > LeafBefore
      BY <1>2, <2>1, <3>1 DEF LapseInv, OnTime, LeavesLast
    <3> QED BY <1>3, <3>1, <3>2, Numbers DEF Minus1
  <2> QED BY <2>1 DEF LeavesLast
<1> QED BY <1>1, <1>2, <1>4, <1>5 DEF LapseInv, OnTime, Renewing

LEMMA LapseStep ==
  ASSUME RoomyPolicy, TypeOK, Busy, TrustInv, LapseInv, [Next]_tlsVars
  PROVE  LapseInv'
<1>1. CASE Reconciles
  BY <1>1, LapseLoaded, LapseSave, LapsePublish, LapseMark, LapseKept, LapseRenewed,
     LapseRefused, LapseFinished, LapseDisturbed DEF Reconciles
<1>2. CASE Others
  <2>1. ASSUME UNCHANGED <<secret, life, leaf, run, since, late>> PROVE LapseInv'
    BY <2>1 DEF LapseInv, OnTime, LeavesLast, Renewing
  <2> QED BY <1>2, <2>1, LapseTick DEF Others, Configure, Refresh
<1>3. CASE UNCHANGED tlsVars
  BY <1>3 DEF tlsVars, LapseInv, OnTime, LeavesLast, Renewing
<1> QED BY <1>1, <1>2, <1>3, NextCases

LEMMA LapseStart ==
  ASSUME Init
  PROVE  LapseInv
<1>1. /\ secret.current = None /\ secret.pending = None /\ run.at = "idle" /\ run.next = 1
      /\ \A r \in RegionIds : leaf[r].by = None
  BY DEF Init, Uninitialized, Idle
<1>2. None # MaxGenerations
  BY Numbers DEF None
<1> QED BY <1>1, <1>2 DEF LapseInv, OnTime, LeavesLast, Renewing, Lasts, CurrentLasts, PendingLasts

(* Under a policy that leaves room, no leaf expires while it is served as  *)
(* long as no more than Period passes between undisturbed invocations:     *)
(* whatever else fails, for any regions, and through rollovers and         *)
(* expiries of the root however they follow each other.                    *)
THEOREM LeavesNeverLapse ==
  ASSUME RoomyPolicy
  PROVE  Spec => []NeverLapses
<1>1. Init => LapseInv
  BY LapseStart
<1>2. TypeOK /\ Busy /\ TrustInv /\ LapseInv /\ [Next]_tlsVars => LapseInv'
  BY LapseStep
<1>3. TypeOK /\ LapseInv => NeverLapses
  <2>1. SUFFICES ASSUME TypeOK, LapseInv, ~late, NEW r \in RegionIds, leaf[r].by # None
                 PROVE  leaf[r].left > 0
    BY DEF NeverLapses
  <2>2. leaf[r].left \in Nat /\ since \in Nat /\ since <= Period
    BY <2>1, TypeParts, StateFields, Numbers
  <2>3. leaf[r].left + since > LeafBefore
    BY <2>1 DEF LapseInv, OnTime, LeavesLast
  <2> QED BY <2>2, <2>3, PolicyFacts, Numbers
<1> QED BY <1>1, <1>2, <1>3, InitTypes, TypeStep, TrustHolds, PTL DEF Spec
-----------------------------------------------------------------------------
(* The registry.                                                           *)

Stacks == [phase: Phases, from: SUBSET Regions, to: SUBSET Regions]
Calls == [kind: Kinds, at: Points, active: SUBSET Regions, newly: SUBSET Regions,
          todo: SUBSET Regions, remaining: SUBSET Regions,
          region: Regions \union {NoRegion}, cert: Certs \union {NoCert}]

CertsTyped ==
  /\ acm \in [Regions -> SUBSET Certs]
  /\ registry \in [Regions -> Certs \union {NoCert}]
  /\ attached \in [Regions -> Certs \union {NoCert}]
  /\ issued \in 0..MaxCerts
  /\ retries \in [Regions -> Nat]
  /\ retired \in SUBSET Regions

CallsTyped ==
  /\ stack \in Stacks /\ env \in SUBSET Regions /\ call \in Calls
  /\ bounds \in [deployments: 0..MaxDeployments, faults: 0..MaxFaults]

LEMMA Typed == RegistryTypeOK <=> CertsTyped /\ CallsTyped
BY DEF RegistryTypeOK, CertsTyped, CallsTyped, Stacks, Calls

(* A cleanup is CloudFormation's last word.                                *)
StackOK(s, c) ==
  /\ s.phase = "deleted" => c.kind = "none"
  /\ c.kind = "none" => c.at = "leaves"
  /\ c.kind = "Delete" => s.phase = "deleting" /\ c.at \in {"clean", "unregister"}

(* What an invocation has done in its region, by the certificates a, the   *)
(* registry g and the repeated imports n: the certificate it has imported  *)
(* is registered by nobody else, the one it has dropped is gone.           *)
CallOK(c, a, g, n) ==
  /\ c.at \in {"register", "compensate", "unregister"} => c.region \in Regions
  /\ c.at \in {"register", "compensate"} => c.cert \in Certs
  /\ c.at = "register" => g[c.region] = NoCert
  /\ c.at = "compensate" => g[c.region] \in {NoCert, c.cert}
  /\ c.at = "unregister" =>
       g[c.region] \notin a[c.region] /\ Cardinality(a[c.region]) <= n[c.region]

(* A cleanup has emptied every region that is not on its list any more.    *)
CleanOK(s, c, a, g, n) ==
  c.kind = "Delete" =>
    \A r \in Regions \ c.todo :
      g[r] = NoCert /\ (r \in s.to => Cardinality(a[r]) <= n[r])

(* What a finished cleanup has left. *)
LeftOK(s, a, g, n) ==
  s.phase = "deleted" =>
    \A r \in Regions : g[r] = NoCert /\ (r \in s.to => Cardinality(a[r]) <= n[r])

RunOK(s, c, a, g, n) ==
  StackOK(s, c) /\ CallOK(c, a, g, n) /\ CleanOK(s, c, a, g, n) /\ LeftOK(s, a, g, n)

Inv ==
  /\ RegistryTypeOK /\ RunOK(stack, call, acm, registry, retries)
  /\ ServedIsRegistered /\ OneCertificate
-----------------------------------------------------------------------------
(* Counting certificates *)

LEMMA CertsAreFinite ==
  ASSUME NEW S \in SUBSET Certs
  PROVE  IsFiniteSet(S) /\ Cardinality(S) \in Nat
<1>1. IsFiniteSet(Certs)
  BY FS_Interval, RegistryAssumption DEF Certs
<1>2. IsFiniteSet(S)
  BY <1>1, FS_Subset
<1> QED BY <1>2, FS_CardinalityType

LEMMA OneLess ==
  ASSUME NEW S \in SUBSET Certs, NEW c
  PROVE  /\ Cardinality(S \ {c}) <= Cardinality(S)
         /\ c \in S => Cardinality(S \ {c}) = Cardinality(S) - 1
<1>1. IsFiniteSet(S) /\ Cardinality(S) \in Nat
  BY CertsAreFinite
<1>2. CASE c \in S
  <2>1. Cardinality(S \ {c}) = Cardinality(S) - 1
    BY <1>1, <1>2, FS_RemoveElement
  <2> QED BY <1>1, <1>2, <2>1
<1>3. CASE c \notin S
  <2>1. S \ {c} = S
    BY <1>3
  <2> QED BY <1>1, <1>3, <2>1
<1> QED BY <1>2, <1>3

LEMMA Fresh ==
  ASSUME NEW i \in Nat, NEW n \in {1, 2}
  PROVE  Cardinality((i + 1)..(i + n)) = n
<1>1. i + 1 \in Int /\ i + n \in Int /\ i + 1 <= i + n
  OBVIOUS
<1>2. Cardinality((i + 1)..(i + n)) = (i + n) - (i + 1) + 1
  BY <1>1, FS_Interval
<1> QED BY <1>2

-----------------------------------------------------------------------------
(* How an invocation ends *)

LEMMA NoCallTyped ==
  /\ NoCall \in Calls /\ NoCall.kind = "none" /\ NoCall.at = "leaves"
BY DEF NoCall, Calls, Kinds, Points

LEMMA Bounded ==
  ASSUME RegistryTypeOK, NoFault \/ Fault
  PROVE  bounds' \in [deployments: 0..MaxDeployments, faults: 0..MaxFaults]
<1>1. CASE NoFault
  BY <1>1 DEF NoFault, RegistryTypeOK
<1>2. CASE Fault
  <2>1. /\ bounds.faults \in 0..MaxFaults /\ bounds.faults < MaxFaults
        /\ bounds' = [bounds EXCEPT !.faults = @ + 1] /\ MaxFaults \in Nat
    BY <1>2, RegistryAssumption DEF Fault, RegistryTypeOK
  <2>2. bounds.faults + 1 \in 0..MaxFaults
    BY <2>1
  <2> QED BY <2>1, <2>2 DEF RegistryTypeOK
<1> QED BY <1>1, <1>2

(* An invocation that ends asks nothing of the certificates.               *)
LEMMA Resting ==
  ASSUME NEW s, NEW a, NEW g, NEW n
  PROVE  CallOK(NoCall, a, g, n) /\ CleanOK(s, NoCall, a, g, n)
BY NoCallTyped DEF CallOK, CleanOK

LEMMA Failing ==
  ASSUME RegistryTypeOK, StackOK(stack, call), call.kind # "none", Fails, NoFault \/ Fault
  PROVE  call' = NoCall /\ CallsTyped' /\ StackOK(stack', call') /\ stack'.phase # "deleted"
<1>1. stack \in Stacks /\ env \in SUBSET Regions /\ call \in Calls
  BY DEF RegistryTypeOK, Stacks, Calls
<1>2. call' = NoCall
  BY DEF Fails
<1>3. \/ stack' = stack
      \/ stack' = [stack EXCEPT !.phase = "gone"]
      \/ stack' = [stack EXCEPT !.phase = "rolling"]
  BY DEF Fails
<1>4. stack' \in Stacks
  BY <1>1, <1>3 DEF Stacks, Phases
<1>5. env' \in SUBSET Regions
  BY <1>1 DEF Fails, Stacks
<1>6. CallsTyped'
  BY <1>2, <1>4, <1>5, Bounded, NoCallTyped DEF CallsTyped
<1>7. stack.phase # "deleted"
  BY DEF StackOK
<1>8. StackOK(stack', NoCall) /\ stack'.phase # "deleted"
  BY <1>1, <1>3, <1>7, NoCallTyped DEF StackOK, Stacks
<1> QED BY <1>2, <1>6, <1>8

LEMMA Succeeding ==
  ASSUME RegistryTypeOK, StackOK(stack, call), call.kind # "none", Succeeds, NoFault \/ Fault
  PROVE  /\ call' = NoCall /\ CallsTyped' /\ StackOK(stack', call')
         /\ stack'.phase = "deleted" => call.kind = "Delete" /\ stack'.to = stack.to
<1>1. stack \in Stacks /\ env \in SUBSET Regions /\ call \in Calls
  BY DEF RegistryTypeOK, Stacks, Calls
<1>2. call' = NoCall /\ env' = env
  BY DEF Succeeds
<1>3. \/ stack' = stack
      \/ call.kind = "Delete" /\ stack' = [stack EXCEPT !.phase = "deleted"]
      \/ stack' = [stack EXCEPT !.phase = "steady", !.to = stack.from]
      \/ stack' = [stack EXCEPT !.phase = "steady", !.from = stack.to]
  BY DEF Succeeds
<1>4. stack' \in Stacks
  BY <1>1, <1>3 DEF Stacks, Phases
<1>5. CallsTyped'
  BY <1>1, <1>2, <1>4, Bounded, NoCallTyped DEF CallsTyped
<1>6. stack.phase # "deleted" /\ (call.kind = "Delete" => stack.phase = "deleting")
  BY DEF StackOK
<1>7. /\ StackOK(stack', NoCall)
      /\ stack'.phase = "deleted" => call.kind = "Delete" /\ stack'.to = stack.to
  BY <1>1, <1>3, <1>6, NoCallTyped DEF StackOK, Stacks
<1> QED BY <1>2, <1>5, <1>7
-----------------------------------------------------------------------------
(* What every step of an invocation comes to *)

(* The certificates after a step. *)
CertsOK == CertsTyped' /\ ServedIsRegistered' /\ OneCertificate'

LEMMA SameCerts ==
  ASSUME Inv, UNCHANGED <<certVars, attached>>
  PROVE  CertsOK
BY Typed DEF Inv, certVars, CertsOK, CertsTyped, ServedIsRegistered, OneCertificate

LEMMA Working ==
  ASSUME Inv, call.kind # "none"
  PROVE  /\ RegistryTypeOK /\ CertsTyped /\ CallsTyped /\ StackOK(stack, call) /\ stack.phase # "deleted"
         /\ CallOK(call, acm, registry, retries)
         /\ CleanOK(stack, call, acm, registry, retries)
         /\ ServedIsRegistered /\ OneCertificate
BY Typed DEF Inv, RunOK, StackOK

LEMMA AtWork ==
  ASSUME Inv, call.kind # "none" \/ call.at # "leaves"
  PROVE  call.kind # "none"
BY DEF Inv, RunOK, StackOK

LEMMA CallEnds ==
  ASSUME Inv, call.kind # "none", Fails, NoFault \/ Fault, CertsOK
  PROVE  Inv'
<1>1. call' = NoCall /\ CallsTyped' /\ StackOK(stack', call') /\ stack'.phase # "deleted"
  BY Working, Failing
<1>2. RegistryTypeOK'
  BY <1>1 DEF CertsOK, RegistryTypeOK, CertsTyped, CallsTyped, Stacks, Calls
<1>3. RunOK(stack', call', acm', registry', retries')
  BY <1>1, Resting DEF RunOK, LeftOK
<1> QED BY <1>2, <1>3 DEF Inv, CertsOK

LEMMA GoesOn ==
  ASSUME Inv, call.kind # "none", NEW c \in Calls, Continues(c), NoFault \/ Fault, CertsOK,
         c.kind = call.kind, c.kind = "Delete" => c.at \in {"clean", "unregister"},
         CallOK(c, acm', registry', retries'), CleanOK(stack, c, acm', registry', retries')
  PROVE  Inv'
<1>1. call' = c /\ stack' = stack /\ env' = env
  BY DEF Continues
<1>2. CallsTyped'
  BY <1>1, Working, Bounded DEF CallsTyped
<1>3. RegistryTypeOK'
  BY <1>2 DEF CertsOK, RegistryTypeOK, CertsTyped, CallsTyped, Stacks, Calls
<1>4. StackOK(stack, c) /\ stack.phase # "deleted"
  BY Working DEF StackOK
<1>5. RunOK(stack', call', acm', registry', retries')
  BY <1>1, <1>4 DEF RunOK, LeftOK
<1> QED BY <1>3, <1>5 DEF Inv, CertsOK
-----------------------------------------------------------------------------
(* Steps of an invocation *)

LEMMA RefuseStep ==
  ASSUME Inv, NEW r \in Regions, RefuseRegion(r)
  PROVE  Inv'
BY SameCerts, CallEnds DEF RefuseRegion, Reading

LEMMA DiesStep ==
  ASSUME Inv, Dies
  PROVE  Inv'
BY SameCerts, CallEnds DEF Dies

LEMMA KeepStep ==
  ASSUME Inv, NEW r \in Regions, KeepCertificate(r)
  PROVE  Inv'
<1> DEFINE c == [call EXCEPT !.todo = @ \ {r}]
<1>1. /\ call.kind # "none" /\ call.at = "leaves" /\ Continues(c) /\ NoFault /\ CertsOK
      /\ UNCHANGED <<certVars, attached>>
  BY SameCerts DEF KeepCertificate, Reading
<1>2. call \in Calls /\ call.kind # "Delete"
  BY <1>1, Working DEF CallsTyped, StackOK
<1>3. c \in Calls /\ c.kind = call.kind /\ c.at = "leaves"
  BY <1>1, <1>2 DEF Calls
<1> HIDE DEF c
<1>4. CallOK(c, acm', registry', retries') /\ CleanOK(stack, c, acm', registry', retries')
  BY <1>2, <1>3 DEF CallOK, CleanOK
<1> QED BY <1>1, <1>2, <1>3, <1>4, GoesOn

(* A region's only certificate is registered. *)
LEMMA AdoptStep ==
  ASSUME Inv, NEW r \in Regions, Adopt(r)
  PROVE  Inv'
<1>1. /\ call.kind # "none" /\ call.at \in {"leaves", "clean"} /\ r \in call.todo
      /\ registry[r] = NoCert /\ Cardinality(acm[r]) = 1
      /\ UNCHANGED <<acm, issued, retries, retired, attached>>
  BY DEF Adopt, Reading, Adoptable
<1>2. /\ CertsTyped /\ ServedIsRegistered /\ OneCertificate /\ call \in Calls
      /\ CleanOK(stack, call, acm, registry, retries) /\ StackOK(stack, call)
  BY <1>1, Working DEF CallsTyped
<1>3. PICK d \in acm[r] : registry' = [registry EXCEPT ![r] = d]
  <2>1. acm[r] # {}
    BY <1>1, FS_EmptySet
  <2> QED BY <2>1 DEF Adopt
<1>4. CertsTyped'
  BY <1>1, <1>2, <1>3 DEF CertsTyped
<1>5. ServedIsRegistered'
  <2>1. attached[r] = NoCert
    BY <1>1, <1>2 DEF ServedIsRegistered
  <2> QED BY <1>1, <1>2, <1>3, <2>1 DEF ServedIsRegistered, CertsTyped
<1>6. CertsOK
  BY <1>1, <1>2, <1>4, <1>5 DEF CertsOK, OneCertificate
<1>7. CASE Fails /\ Fault
  BY <1>1, <1>6, <1>7, CallEnds
<1>8. CASE Continues(call) /\ NoFault
  <2>1. CallOK(call, acm', registry', retries')
    BY <1>1 DEF CallOK
  <2>2. CleanOK(stack, call, acm', registry', retries')
    BY <1>1, <1>2, <1>3 DEF CleanOK, CertsTyped
  <2>3. call.kind = "Delete" => call.at \in {"clean", "unregister"}
    BY <1>2 DEF StackOK
  <2> QED BY <1>1, <1>2, <1>6, <1>8, <2>1, <2>2, <2>3, GoesOn
<1> QED BY <1>7, <1>8 DEF Adopt

(* An import finds no certificate, so the region has what it brings.       *)
LEMMA ImportStep ==
  ASSUME Inv, NEW r \in Regions, Import(r)
  PROVE  Inv'
<1>1. /\ call.kind # "none" /\ call.at = "leaves" /\ registry[r] = NoCert
      /\ Cardinality(acm[r]) # 1 /\ ~(Cardinality(acm[r]) > 1)
      /\ UNCHANGED <<registry, retired, attached>>
  BY DEF Import, Importable, Reading, Adoptable, Ambiguous
<1>2. /\ CertsTyped /\ ServedIsRegistered /\ OneCertificate /\ call \in Calls
      /\ StackOK(stack, call)
  BY <1>1, Working DEF CallsTyped
<1>3. PICK n \in {1, 2} :
        /\ issued + n \in Certs
        /\ acm' = [acm EXCEPT ![r] = @ \union ((issued + 1)..(issued + n))]
        /\ issued' = issued + n
        /\ retries' = [retries EXCEPT ![r] = @ + n - 1]
        /\ \/ /\ Continues([call EXCEPT !.at = "register", !.region = r, !.cert = issued + n])
              /\ IF n = 2 THEN Fault ELSE NoFault
           \/ n = 1 /\ Fails /\ Fault
  BY DEF Import
<1>4. acm[r] = {}
  <2>1. acm[r] \in SUBSET Certs
    BY <1>2 DEF CertsTyped
  <2>2. IsFiniteSet(acm[r]) /\ Cardinality(acm[r]) \in Nat
    BY <2>1, CertsAreFinite
  <2> QED BY <1>1, <2>2, FS_EmptySet
<1>5. issued \in Nat /\ retries[r] \in Nat /\ MaxCerts \in Nat /\ issued + n <= MaxCerts
  BY <1>2, <1>3, RegistryAssumption DEF CertsTyped, Certs
<1>6. (issued + 1)..(issued + n) \subseteq Certs
  BY <1>5 DEF Certs
<1>7. /\ acm'[r] = (issued + 1)..(issued + n) /\ retries'[r] = retries[r] + n - 1
      /\ \A q \in Regions : q # r => acm'[q] = acm[q] /\ retries'[q] = retries[q]
  BY <1>2, <1>3, <1>4 DEF CertsTyped
<1>8. CertsTyped'
  <2>1. acm' \in [Regions -> SUBSET Certs]
    BY <1>2, <1>3, <1>6 DEF CertsTyped
  <2>2. issued' \in 0..MaxCerts
    BY <1>3, <1>5
  <2>3. retries[r] + n - 1 \in Nat
    BY <1>5
  <2>4. retries' \in [Regions -> Nat]
    BY <1>2, <1>3, <2>3 DEF CertsTyped
  <2> QED BY <1>1, <1>2, <2>1, <2>2, <2>4 DEF CertsTyped
<1>9. ServedIsRegistered'
  BY <1>1, <1>2, <1>4, <1>7 DEF ServedIsRegistered
<1>10. OneCertificate'
  <2>1. Cardinality(acm'[r]) = n
    BY <1>5, <1>7, Fresh
  <2> QED BY <1>2, <1>5, <1>7, <2>1 DEF OneCertificate
<1>11. CertsOK
  BY <1>8, <1>9, <1>10 DEF CertsOK
<1>12. CASE Fails /\ Fault
  BY <1>1, <1>11, <1>12, CallEnds
<1>13. CASE /\ Continues([call EXCEPT !.at = "register", !.region = r, !.cert = issued + n])
            /\ IF n = 2 THEN Fault ELSE NoFault
  <2> DEFINE c == [call EXCEPT !.at = "register", !.region = r, !.cert = issued + n]
  <2>1. /\ c \in Calls /\ c.kind = call.kind /\ c.at = "register" /\ c.region = r
        /\ c.cert = issued + n
    BY <1>2, <1>3 DEF Calls, Points
  <2>2. Continues(c) /\ (NoFault \/ Fault) /\ call.kind # "Delete"
    BY <1>1, <1>2, <1>13 DEF StackOK
  <2> HIDE DEF c
  <2>3. CallOK(c, acm', registry', retries') /\ CleanOK(stack, c, acm', registry', retries')
    BY <1>1, <1>3, <2>1, <2>2 DEF CallOK, CleanOK
  <2> QED BY <1>1, <1>11, <2>1, <2>2, <2>3, GoesOn
<1> QED BY <1>3, <1>12, <1>13

(* Nothing of the region was registered, so nothing was served, when the   *)
(* new certificate is.                                                     *)
LEMMA RegisterStep ==
  ASSUME Inv, Register
  PROVE  Inv'
<1> DEFINE r == call.region
<1>1. /\ call.at = "register" /\ call.kind # "none" /\ registry' \in {registry, Registered}
      /\ UNCHANGED <<acm, issued, retries, retired, attached>>
  BY AtWork DEF Register
<1>2. /\ CertsTyped /\ ServedIsRegistered /\ OneCertificate /\ call \in Calls
      /\ call.kind # "Delete" /\ CallOK(call, acm, registry, retries)
  BY <1>1, Working DEF CallsTyped, StackOK
<1>3. r \in Regions /\ call.cert \in Certs /\ registry[r] = NoCert
  BY <1>1, <1>2 DEF CallOK
<1>4. /\ registry' \in [Regions -> Certs \union {NoCert}]
      /\ registry'[r] \in {NoCert, call.cert}
      /\ \A q \in Regions : q # r => registry'[q] = registry[q]
  BY <1>1, <1>2, <1>3 DEF Registered, CertsTyped
<1>5. attached[r] = NoCert
  BY <1>2, <1>3 DEF ServedIsRegistered
<1>6. CertsOK
  BY <1>1, <1>2, <1>4, <1>5 DEF CertsOK, CertsTyped, ServedIsRegistered, OneCertificate
<1>7. CASE Fails /\ Fault
  BY <1>1, <1>6, <1>7, CallEnds
<1>8. CASE Continues([call EXCEPT !.at = "leaves", !.todo = @ \ {r}]) /\ NoFault
  <2> DEFINE c == [call EXCEPT !.at = "leaves", !.todo = @ \ {r}]
  <2>1. c \in Calls /\ c.kind = call.kind /\ c.at = "leaves"
    BY <1>2 DEF Calls, Points
  <2>2. Continues(c)
    BY <1>8
  <2> HIDE DEF c
  <2>3. CallOK(c, acm', registry', retries') /\ CleanOK(stack, c, acm', registry', retries')
    BY <1>2, <2>1 DEF CallOK, CleanOK
  <2> QED BY <1>1, <1>2, <1>6, <1>8, <2>1, <2>2, <2>3, GoesOn
<1>9. CASE Continues([call EXCEPT !.at = "compensate"]) /\ Fault
  <2> DEFINE c == [call EXCEPT !.at = "compensate"]
  <2>1. /\ c \in Calls /\ c.kind = call.kind /\ c.at = "compensate" /\ c.region = r
        /\ c.cert = call.cert
    BY <1>2 DEF Calls, Points
  <2>2. Continues(c)
    BY <1>9
  <2> HIDE DEF c
  <2>3. CallOK(c, acm', registry', retries') /\ CleanOK(stack, c, acm', registry', retries')
    BY <1>2, <1>3, <1>4, <2>1 DEF CallOK, CleanOK
  <2> QED BY <1>1, <1>2, <1>6, <1>9, <2>1, <2>2, <2>3, GoesOn
<1> QED BY <1>7, <1>8, <1>9 DEF Register

(* A certificate that is not served goes: what is registered or served in  *)
(* the region is at most that one.                                         *)
LEMMA Removing ==
  ASSUME Inv, NEW r \in Regions, NEW c, attached[r] # NoCert => attached[r] # c,
         acm' = [acm EXCEPT ![r] = @ \ {c}],
         UNCHANGED <<registry, issued, retries, retired, attached>>
  PROVE  /\ CertsOK /\ Cardinality(acm'[r]) <= Cardinality(acm[r])
         /\ c \in acm[r] => Cardinality(acm'[r]) = Cardinality(acm[r]) - 1
         /\ \A q \in Regions : q # r => acm'[q] = acm[q]
<1>1. CertsTyped /\ ServedIsRegistered /\ OneCertificate
  BY Typed DEF Inv
<1>2. /\ acm[r] \in SUBSET Certs /\ acm'[r] = acm[r] \ {c}
      /\ acm' \in [Regions -> SUBSET Certs]
      /\ \A q \in Regions : q # r => acm'[q] = acm[q]
  BY <1>1 DEF CertsTyped
<1>3. /\ Cardinality(acm'[r]) <= Cardinality(acm[r])
      /\ c \in acm[r] => Cardinality(acm'[r]) = Cardinality(acm[r]) - 1
  BY <1>2, OneLess
<1>4. CertsTyped'
  BY <1>1, <1>2 DEF CertsTyped
<1>5. ServedIsRegistered'
  BY <1>1, <1>2 DEF ServedIsRegistered
<1>6. Cardinality(acm[r]) \in Nat /\ Cardinality(acm'[r]) \in Nat /\ retries[r] \in Nat
  BY <1>1, <1>2, CertsAreFinite DEF CertsTyped
<1>7. OneCertificate'
  BY <1>1, <1>2, <1>3, <1>6 DEF OneCertificate
<1> QED BY <1>2, <1>3, <1>4, <1>5, <1>7 DEF CertsOK

LEMMA CompensateStep ==
  ASSUME Inv, Compensate
  PROVE  Inv'
<1> DEFINE r == call.region
<1>1. /\ call.at = "compensate" /\ call.kind # "none" /\ Fails /\ (NoFault \/ Fault)
      /\ UNCHANGED <<registry, issued, retries, retired, attached>>
  BY AtWork DEF Compensate
<1>2. CallOK(call, acm, registry, retries)
  BY <1>1, Working
<1>3. r \in Regions
  BY <1>1, <1>2 DEF CallOK
<1>4. CASE UNCHANGED acm
  BY <1>1, <1>4, SameCerts, CallEnds DEF certVars
<1>5. CASE attached[r] # call.cert /\ acm' = [acm EXCEPT ![r] = @ \ {call.cert}]
  BY <1>1, <1>3, <1>5, Removing, CallEnds
<1> QED BY <1>4, <1>5 DEF Compensate

LEMMA RetireStep ==
  ASSUME Inv, Retire
  PROVE  Inv'
<1>1. /\ call.kind # "none" /\ call.at = "leaves" /\ retired' = Retiring
      /\ UNCHANGED <<acm, registry, issued, retries, attached>>
  BY DEF Retire
<1>2. /\ CertsTyped /\ ServedIsRegistered /\ OneCertificate /\ call \in Calls
      /\ call.kind # "Delete"
  BY <1>1, Working DEF CallsTyped, StackOK
<1>3. Retiring \in SUBSET Regions
  BY <1>2 DEF Retiring, CertsTyped, Calls
<1>4. CertsOK
  BY <1>1, <1>2, <1>3 DEF CertsOK, CertsTyped, ServedIsRegistered, OneCertificate
<1>5. CASE Fails /\ Fault
  BY <1>1, <1>4, <1>5, CallEnds
<1>6. CASE Continues([call EXCEPT !.at = "clean", !.todo = Retiring]) /\ NoFault
  <2> DEFINE c == [call EXCEPT !.at = "clean", !.todo = Retiring]
  <2>1. c \in Calls /\ c.kind = call.kind /\ c.at = "clean"
    BY <1>2, <1>3 DEF Calls, Points
  <2>2. Continues(c)
    BY <1>6
  <2> HIDE DEF c
  <2>3. CallOK(c, acm', registry', retries') /\ CleanOK(stack, c, acm', registry', retries')
    BY <1>2, <2>1 DEF CallOK, CleanOK
  <2> QED BY <1>1, <1>2, <1>4, <1>6, <2>1, <2>2, <2>3, GoesOn
<1> QED BY <1>5, <1>6 DEF Retire

(* A certificate in use stays; any other goes, and with it the region's    *)
(* last, save those that repeated imports have left.                       *)
LEMMA DropStep ==
  ASSUME Inv, NEW r \in Regions, Drop(r)
  PROVE  Inv'
<1>1. /\ call.kind # "none" /\ call.at = "clean" /\ r \in call.todo
      /\ ~Dangling(r) /\ ~Ambiguous(r) /\ ~Adoptable(r)
      /\ UNCHANGED <<registry, issued, retries, retired, attached>>
  BY DEF Drop, Reading, Blocked
<1>2. /\ CertsTyped /\ ServedIsRegistered /\ OneCertificate /\ call \in Calls
      /\ CleanOK(stack, call, acm, registry, retries)
  BY <1>1, Working DEF CallsTyped
<1>3. CASE registry[r] # NoCert /\ attached[r] = registry[r]
  <2>1. CertsOK
    BY <1>1, <1>3, SameCerts DEF Drop, certVars
  <2>2. CASE Fails
    BY <1>1, <1>3, <2>1, <2>2, CallEnds DEF Drop
  <2>3. CASE /\ call.kind # "Delete"
             /\ Continues([call EXCEPT !.todo = @ \ {r}, !.remaining = @ \union {r}])
    <3> DEFINE c == [call EXCEPT !.todo = @ \ {r}, !.remaining = @ \union {r}]
    <3>1. c \in Calls /\ c.kind = call.kind /\ c.at = "clean"
      BY <1>1, <1>2 DEF Calls
    <3>2. Continues(c) /\ NoFault
      BY <1>3, <2>3 DEF Drop
    <3> HIDE DEF c
    <3>3. CallOK(c, acm', registry', retries') /\ CleanOK(stack, c, acm', registry', retries')
      BY <2>3, <3>1 DEF CallOK, CleanOK
    <3> QED BY <1>1, <2>1, <2>3, <3>1, <3>2, <3>3, GoesOn
  <2> QED BY <1>3, <2>2, <2>3 DEF Drop
<1>4. CASE ~(registry[r] # NoCert /\ attached[r] = registry[r])
  <2>1. acm' = [acm EXCEPT ![r] = @ \ {registry[r]}]
    BY <1>4 DEF Drop
  <2>2. attached[r] = NoCert
    BY <1>2, <1>4 DEF ServedIsRegistered
  <2>3. /\ CertsOK /\ Cardinality(acm'[r]) <= Cardinality(acm[r])
        /\ registry[r] \in acm[r] => Cardinality(acm'[r]) = Cardinality(acm[r]) - 1
        /\ \A q \in Regions : q # r => acm'[q] = acm[q]
    BY <1>1, <2>1, <2>2, Removing
  <2>4. CASE Fails /\ Fault
    BY <1>1, <2>3, <2>4, CallEnds
  <2>5. CASE Continues([call EXCEPT !.at = "unregister", !.region = r]) /\ NoFault
    <3> DEFINE c == [call EXCEPT !.at = "unregister", !.region = r]
    <3>1. /\ c \in Calls /\ c.kind = call.kind /\ c.at = "unregister" /\ c.region = r
          /\ c.todo = call.todo
      BY <1>2 DEF Calls, Points
    <3>2. Continues(c)
      BY <2>5
    <3> HIDE DEF c
    <3>3. registry'[r] \notin acm'[r]
      BY <1>1, <1>2, <2>1 DEF CertsTyped
    <3>4. Cardinality(acm'[r]) <= retries'[r]
      <4>1. /\ acm[r] \in SUBSET Certs /\ acm'[r] \in SUBSET Certs /\ retries[r] \in Nat
            /\ retries'[r] = retries[r]
        BY <1>1, <1>2, <2>1 DEF CertsTyped
      <4>2. Cardinality(acm[r]) \in Nat /\ Cardinality(acm'[r]) \in Nat
        BY <4>1, CertsAreFinite
      <4>3. CASE registry[r] = NoCert
        <5>1. Cardinality(acm[r]) # 1 /\ ~(Cardinality(acm[r]) > 1)
          BY <1>1, <4>3 DEF Ambiguous, Adoptable
        <5> QED BY <2>3, <4>1, <4>2, <5>1
      <4>4. CASE registry[r] # NoCert
        <5>1. registry[r] \in acm[r]
          BY <1>1, <4>4 DEF Dangling
        <5>2. Cardinality(acm[r]) <= 1 + retries[r]
          BY <1>2 DEF OneCertificate
        <5> QED BY <2>3, <4>1, <4>2, <5>1, <5>2
      <4> QED BY <4>3, <4>4
    <3>5. CallOK(c, acm', registry', retries')
      BY <3>1, <3>3, <3>4 DEF CallOK
    <3>6. CleanOK(stack, c, acm', registry', retries')
      BY <1>1, <1>2, <2>3, <3>1 DEF CleanOK
    <3> QED BY <1>1, <2>3, <2>5, <3>1, <3>2, <3>5, <3>6, GoesOn
  <2> QED BY <1>4, <2>4, <2>5 DEF Drop
<1> QED BY <1>3, <1>4

(* The dropped certificate's region has nothing that is served.            *)
LEMMA UnregisterStep ==
  ASSUME Inv, Unregister
  PROVE  Inv'
<1> DEFINE r == call.region
<1>1. /\ call.at = "unregister" /\ call.kind # "none"
      /\ registry' = [registry EXCEPT ![r] = NoCert]
      /\ UNCHANGED <<acm, issued, retries, retired, attached>>
  BY AtWork DEF Unregister
<1>2. /\ CertsTyped /\ ServedIsRegistered /\ OneCertificate /\ call \in Calls
      /\ CallOK(call, acm, registry, retries) /\ CleanOK(stack, call, acm, registry, retries)
  BY <1>1, Working DEF CallsTyped
<1>3. r \in Regions /\ registry[r] \notin acm[r] /\ Cardinality(acm[r]) <= retries[r]
  BY <1>1, <1>2 DEF CallOK
<1>4. attached[r] = NoCert
  BY <1>2, <1>3 DEF ServedIsRegistered
<1>5. /\ registry' \in [Regions -> Certs \union {NoCert}] /\ registry'[r] = NoCert
      /\ \A q \in Regions : q # r => registry'[q] = registry[q]
  BY <1>1, <1>2, <1>3 DEF CertsTyped
<1>6. CertsOK
  BY <1>1, <1>2, <1>4, <1>5 DEF CertsOK, CertsTyped, ServedIsRegistered, OneCertificate
<1>7. CASE Fails /\ Fault
  BY <1>1, <1>6, <1>7, CallEnds
<1>8. CASE Continues([call EXCEPT !.at = "clean", !.todo = @ \ {r}]) /\ NoFault
  <2> DEFINE c == [call EXCEPT !.at = "clean", !.todo = @ \ {r}]
  <2>1. c \in Calls /\ c.kind = call.kind /\ c.at = "clean" /\ c.todo = call.todo \ {r}
    BY <1>2 DEF Calls, Points
  <2>2. Continues(c)
    BY <1>8
  <2> HIDE DEF c
  <2>3. CallOK(c, acm', registry', retries')
    BY <2>1 DEF CallOK
  <2>4. CleanOK(stack, c, acm', registry', retries')
    BY <1>1, <1>2, <1>3, <1>5, <2>1 DEF CleanOK
  <2> QED BY <1>1, <1>6, <1>8, <2>1, <2>2, <2>3, <2>4, GoesOn
<1> QED BY <1>7, <1>8 DEF Unregister

(* A cleanup that ends has nothing on its list.                            *)
LEMMA SaveStep ==
  ASSUME Inv, SaveRetired
  PROVE  Inv'
<1>1. /\ call.kind # "none" /\ call.todo = {} /\ retired' = call.remaining
      /\ UNCHANGED <<acm, registry, issued, retries, attached>>
  BY DEF SaveRetired
<1>2. /\ RegistryTypeOK /\ CertsTyped /\ ServedIsRegistered /\ OneCertificate /\ call \in Calls
      /\ StackOK(stack, call) /\ CleanOK(stack, call, acm, registry, retries)
  BY <1>1, Working DEF CallsTyped
<1>3. CertsOK
  BY <1>1, <1>2 DEF CertsOK, CertsTyped, Calls, ServedIsRegistered, OneCertificate
<1>4. CASE Fails /\ Fault
  BY <1>1, <1>3, <1>4, CallEnds
<1>5. CASE Succeeds /\ NoFault
  <2>1. /\ call' = NoCall /\ CallsTyped' /\ StackOK(stack', call')
        /\ stack'.phase = "deleted" => call.kind = "Delete" /\ stack'.to = stack.to
    BY <1>1, <1>2, <1>5, Succeeding
  <2>2. RegistryTypeOK'
    BY <1>3, <2>1 DEF CertsOK, RegistryTypeOK, CertsTyped, CallsTyped, Stacks, Calls
  <2>3. LeftOK(stack', acm', registry', retries')
    BY <1>1, <1>2, <2>1 DEF LeftOK, CleanOK
  <2>4. RunOK(stack', call', acm', registry', retries')
    BY <2>1, <2>3, Resting DEF RunOK
  <2> QED BY <1>3, <2>2, <2>4 DEF Inv, CertsOK
<1> QED BY <1>4, <1>5 DEF SaveRetired

-----------------------------------------------------------------------------
(* CloudFormation and the regional stacks *)

LEMMA Between ==
  ASSUME Inv, CertsOK, UNCHANGED <<acm, registry, retries>>, CallsTyped', StackOK(stack', call'),
         call'.at \in {"leaves", "clean"}, CleanOK(stack', call', acm, registry, retries),
         stack'.phase # "deleted"
  PROVE  Inv'
<1>1. RegistryTypeOK'
  BY DEF CertsOK, RegistryTypeOK, CertsTyped, CallsTyped, Stacks, Calls
<1>2. RunOK(stack', call', acm', registry', retries')
  BY DEF RunOK, CallOK, LeftOK
<1> QED BY <1>1, <1>2 DEF Inv, CertsOK

(* The stack moves while no invocation runs. *)
LEMMA StackStep ==
  ASSUME Inv, (\E c \in Configurations : Deploy(c)) \/ Abandon \/ Destroy
  PROVE  Inv'
<1>1. /\ call.kind = "none" /\ UNCHANGED <<certVars, attached, call>>
      /\ stack.phase \in {"steady", "updating", "rolling"}
  BY DEF Deploy, Abandon, Destroy, Free
<1>2. /\ CallsTyped /\ CertsOK /\ call.at = "leaves" /\ StackOK(stack, call)
      /\ RegistryTypeOK
  BY <1>1, SameCerts, Typed DEF Inv, RunOK, StackOK
<1>3. bounds' \in [deployments: 0..MaxDeployments, faults: 0..MaxFaults]
  <2>1. ASSUME bounds' = [bounds EXCEPT !.deployments = @ + 1],
               bounds.deployments < MaxDeployments
        PROVE  bounds' \in [deployments: 0..MaxDeployments, faults: 0..MaxFaults]
    <3>1. bounds.deployments \in 0..MaxDeployments /\ MaxDeployments \in Nat
      BY <1>2, RegistryAssumption DEF CallsTyped
    <3>2. bounds.deployments + 1 \in 0..MaxDeployments
      BY <2>1, <3>1
    <3> QED BY <1>2, <2>1, <3>2 DEF CallsTyped
  <2>2. NoFault \/ Fault =>
          bounds' \in [deployments: 0..MaxDeployments, faults: 0..MaxFaults]
    BY <1>2, Bounded
  <2> QED BY <2>1, <2>2 DEF Deploy, Abandon, Destroy, NoFault
<1>4. /\ stack' \in Stacks /\ env' \in SUBSET Regions /\ StackOK(stack', call)
      /\ stack'.phase # "deleted"
  <2>1. ASSUME NEW c \in Configurations, Deploy(c)
        PROVE  /\ stack' \in Stacks /\ env' \in SUBSET Regions /\ StackOK(stack', call)
               /\ stack'.phase # "deleted"
    BY <1>1, <1>2, <2>1, RegistryAssumption DEF Deploy, CallsTyped, Stacks, Phases, StackOK
  <2>2. CASE Abandon
    BY <1>1, <1>2, <2>2 DEF Abandon, CallsTyped, Stacks, Phases, StackOK
  <2>3. CASE Destroy
    BY <1>1, <1>2, <2>3 DEF Destroy, CallsTyped, Stacks, Phases, StackOK
  <2> QED BY <2>1, <2>2, <2>3
<1>5. CallsTyped'
  BY <1>1, <1>2, <1>3, <1>4 DEF CallsTyped
<1>6. CleanOK(stack', call, acm, registry, retries)
  BY <1>1 DEF CleanOK
<1> QED BY <1>1, <1>2, <1>4, <1>5, <1>6, Between DEF certVars

LEMMA InvokeStep ==
  ASSUME Inv, Told \/ Scheduled
  PROVE  Inv'
<1>1. /\ call.kind = "none" /\ UNCHANGED <<certVars, attached, stack, env, bounds>>
      /\ stack.phase # "deleted"
  BY DEF Told, Scheduled, Free
<1>2. CallsTyped /\ CertsOK /\ StackOK(stack, call)
  BY <1>1, SameCerts, Typed DEF Inv, RunOK
<1>3. PICK kind \in {"Update", "Rotate"}, active \in SUBSET Regions, newly \in SUBSET Regions :
        Invoke(kind, active, newly)
  <2>1. /\ stack.from \in SUBSET Regions /\ stack.to \in SUBSET Regions
        /\ env \in SUBSET Regions
    BY <1>2 DEF CallsTyped, Stacks
  <2>2. CASE Told
    <3>1. \/ Invoke("Update", stack.to, {})
          \/ Invoke("Update", stack.to, stack.from \ stack.to)
          \/ Invoke("Update", stack.from, stack.to \ stack.from)
      BY <2>2 DEF Told
    <3>2. {} \in SUBSET Regions /\ stack.from \ stack.to \in SUBSET Regions
          /\ stack.to \ stack.from \in SUBSET Regions
      BY <2>1
    <3> QED BY <2>1, <3>1, <3>2
  <2>3. CASE Scheduled
    BY <2>1, <2>3 DEF Scheduled
  <2> QED BY <2>2, <2>3
<1>4. call' \in Calls /\ call'.kind = kind /\ call'.at = "leaves"
  BY <1>3 DEF Invoke, NoCall, Calls, Kinds, Points
<1>5. CallsTyped' /\ StackOK(stack', call') /\ CleanOK(stack', call', acm, registry, retries)
  BY <1>1, <1>2, <1>4 DEF CallsTyped, StackOK, CleanOK
<1> QED BY <1>1, <1>2, <1>4, <1>5, Between DEF certVars

(* A cleanup starts with every region that may have something.             *)
LEMMA CleanupStep ==
  ASSUME Inv, BeginCleanup
  PROVE  Inv'
<1> DEFINE todo == stack.to \union Inventory \union retired
<1>1. /\ UNCHANGED <<certVars, attached, stack, env, bounds>> /\ stack.phase = "deleting"
      /\ call' = [NoCall EXCEPT !.kind = "Delete", !.at = "clean", !.todo = todo]
  BY DEF BeginCleanup
<1>2. CallsTyped /\ CertsTyped /\ CertsOK /\ StackOK(stack, call)
  BY <1>1, SameCerts, Typed DEF Inv, RunOK
<1>3. todo \in SUBSET Regions
  BY <1>2 DEF CallsTyped, CertsTyped, Stacks, Inventory
<1> HIDE DEF todo
<1>4. call' \in Calls /\ call'.kind = "Delete" /\ call'.at = "clean" /\ call'.todo = todo
  BY <1>1, <1>3 DEF NoCall, Calls, Kinds, Points
<1>5. CallsTyped' /\ StackOK(stack', call')
  BY <1>1, <1>2, <1>4 DEF CallsTyped, StackOK
<1>6. CleanOK(stack', call', acm, registry, retries)
  BY <1>1, <1>4 DEF CleanOK, todo, Inventory
<1> QED BY <1>1, <1>2, <1>4, <1>5, <1>6, Between DEF certVars

LEMMA ListenerStep ==
  ASSUME Inv, NEW r \in Regions, Attach(r) \/ Detach(r)
  PROVE  Inv'
<1>1. UNCHANGED <<acm, registry, issued, retries, retired, stack, env, call, bounds>>
  BY DEF Attach, Detach, certVars
<1>2. /\ CertsTyped /\ ServedIsRegistered /\ OneCertificate /\ CallsTyped
      /\ RunOK(stack, call, acm, registry, retries)
  BY Typed DEF Inv
<1>3. \E c \in Certs \union {NoCert} :
        /\ attached' = [attached EXCEPT ![r] = c]
        /\ c = NoCert \/ (c = registry[r] /\ c \in acm[r])
  BY <1>2 DEF Attach, Detach, CertsTyped
<1>4. CertsTyped'
  BY <1>1, <1>2, <1>3 DEF CertsTyped
<1>5. ServedIsRegistered' /\ OneCertificate'
  BY <1>1, <1>2, <1>3 DEF CertsTyped, ServedIsRegistered, OneCertificate
<1>6. RegistryTypeOK'
  BY <1>1, <1>2, <1>4 DEF RegistryTypeOK, CertsTyped, CallsTyped, Stacks, Calls
<1> QED BY <1>1, <1>2, <1>5, <1>6 DEF Inv
-----------------------------------------------------------------------------
(* The theorems *)

LEMMA InitInv == RegistryInit => Inv
<1> SUFFICES ASSUME RegistryInit PROVE Inv
  OBVIOUS
<1>1. /\ stack.phase = "creating" /\ stack.from = {} /\ call = NoCall
      /\ stack \in Stacks /\ env \in SUBSET Regions
  BY RegistryAssumption DEF RegistryInit, Stacks, Phases
<1>2. CertsTyped
  BY RegistryAssumption DEF RegistryInit, CertsTyped
<1>3. CallsTyped
  BY <1>1, NoCallTyped, RegistryAssumption DEF RegistryInit, CallsTyped
<1>4. RunOK(stack, call, acm, registry, retries)
  BY <1>1, NoCallTyped, Resting DEF RunOK, StackOK, LeftOK
<1>5. ServedIsRegistered
  BY DEF RegistryInit, ServedIsRegistered
<1>6. OneCertificate
  BY FS_EmptySet DEF RegistryInit, OneCertificate
<1> QED BY <1>2, <1>3, <1>4, <1>5, <1>6, Typed DEF Inv

LEMMA NextInv == Inv /\ [RegistryNext]_registryVars => Inv'
<1> SUFFICES ASSUME Inv, [RegistryNext]_registryVars PROVE Inv'
  OBVIOUS
<1>1. CASE UNCHANGED registryVars
  BY <1>1 DEF registryVars, Inv, RegistryTypeOK, RunOK, ServedIsRegistered, OneCertificate
<1>2. CASE (\E c \in Configurations : Deploy(c)) \/ Abandon \/ Destroy
  BY <1>2, StackStep
<1>3. CASE Told \/ Scheduled \/ BeginCleanup
  BY <1>3, InvokeStep, CleanupStep
<1>4. CASE \E r \in Regions : Attach(r) \/ Detach(r)
  BY <1>4, ListenerStep
<1>5. CASE Works
  BY <1>5, RefuseStep, AdoptStep, KeepStep, ImportStep, DropStep, RegisterStep, CompensateStep,
     RetireStep, UnregisterStep, SaveStep DEF Works
<1>6. CASE Dies
  BY <1>6, DiesStep
<1> QED BY <1>1, <1>2, <1>3, <1>4, <1>5, <1>6 DEF RegistryNext

LEMMA Always == RegistrySpec => []Inv
BY InitInv, NextInv, PTL DEF RegistrySpec

(* Every reachable state is well typed.                                    *)
THEOREM RegistryTypeCorrect == RegistrySpec => []RegistryTypeOK
<1>1. Inv => RegistryTypeOK
  BY DEF Inv
<1> QED BY <1>1, Always, PTL

(* What a load balancer serves is what is registered for its region and is *)
(* there, through crashes, rollbacks, returning regions and repeated       *)
(* imports: renewals reach it.                                             *)
THEOREM RenewalsReachIt == RegistrySpec => []ServedIsRegistered
<1>1. Inv => ServedIsRegistered
  BY DEF Inv
<1> QED BY <1>1, Always, PTL

(* A region has one certificate, and one more for each import that the     *)
(* client library sent twice.                                              *)
THEOREM NoCertificateTooMany == RegistrySpec => []OneCertificate
<1>1. Inv => OneCertificate
  BY DEF Inv
<1> QED BY <1>1, Always, PTL

(* A deletion that the function acknowledged leaves no ARN registered or   *)
(* served, whether it follows updates, rollbacks or a rollback that        *)
(* failed, and of the regions it was told of no certificate but those of   *)
(* imports sent twice.                                                     *)
THEOREM DeletionIsThorough == RegistrySpec => []NothingLeft
<1>1. Inv => NothingLeft
  <2> SUFFICES ASSUME Inv, stack.phase = "deleted", NEW r \in Regions
               PROVE  /\ registry[r] = NoCert /\ attached[r] = NoCert
                      /\ r \in stack.to => Cardinality(acm[r]) <= retries[r]
    BY DEF NothingLeft
  <2>1. registry[r] = NoCert /\ (r \in stack.to => Cardinality(acm[r]) <= retries[r])
    BY DEF Inv, RunOK, LeftOK
  <2>2. attached[r] = NoCert
    BY <2>1 DEF Inv, ServedIsRegistered
  <2> QED BY <2>1, <2>2
<1> QED BY <1>1, Always, PTL
=============================================================================

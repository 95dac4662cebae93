-------------------------- MODULE SigningKeysProofs --------------------------
(***************************************************************************)
(* What holds of the signing keys for any proxies and validators, any      *)
(* number of keys, windows and faults.                                     *)
(***************************************************************************)
EXTENDS SigningKeys, TLAPS

(* Where the labels are.  The key of a rotation is new, or is the newest   *)
(* and pending; a key that was displaced never comes back.                 *)
Labels ==
  /\ secret.current <= made /\ secret.pending <= made /\ secret.previous <= made
  /\ secret.previous # None => secret.previous \notin {secret.current, secret.pending}
  /\ rotation.at = "none" =>
       rotation.key = None /\ secret.pending \in {None, secret.current}
  /\ rotation.at # "none" =>
       \/ /\ rotation.at = "create" /\ rotation.key = made + 1
          /\ secret.pending \in {None, secret.current}
       \/ rotation.key = made /\ secret.pending = made
  /\ rotation.at = "move" => rotation.over = secret.current /\ rotation.key # secret.current
  /\ rotation.at \in {"test", "finish", "move", "complete"} => secret.pending = rotation.key
  /\ rotation.at = "complete" => secret.current = rotation.key

(* A key that has a label, or is not made, has not begun to age.           *)
Fresh ==
  \A k \in Keys : k = secret.current \/ k = secret.pending \/ k > made => gone[k] = 0

(* Unless a rotation was hasty, the key to be forgotten is past its window. *)
Apart(h, p, g) == h \/ p = None \/ g[p] > MaxStale

(* But between the move and its completion, the date of the last rotation  *)
(* is not before the displacement of the previous key.                     *)
Spaced ==
  /\ secret.current # rotation.key /\ secret.previous # None => rotated <= gone[secret.previous]
  /\ rotation.at # "none" /\ secret.current # rotation.key => Apart(hasty, secret.previous, gone)

(* What a cache or a refresh says of a key is no older than its labels:     *)
(* accepted as long as the cache is, it had one as the cache was read;     *)
(* accepted for some more ticks, the last rotation is as recent as that.   *)
Follows(c, g, r) ==
  \A k \in Keys :
    /\ c.left[k] = Always => g[k] <= c.age
    /\ c.left[k] <= MaxStale => r + c.left[k] <= MaxStale

(* And it says enough.  n ticks after it was displaced, a previous key is  *)
(* accepted for what remains of the window.                                *)
Lasts(n, age) == n = Always \/ (n = No /\ age > MaxStale) \/ (n <= MaxStale /\ n + age >= MaxStale)
Named(c, k) == k # None /\ k <= c.seen
Has(c, k) == Named(c, k) => c.left[k] = Always

Covers(c, sec, g) ==
  /\ Has(c, sec.current) /\ Has(c, sec.pending)
  /\ Named(c, sec.previous) => Lasts(c.left[sec.previous], g[sec.previous])

(* A refresh that has not read the current key will still meet it: as the  *)
(* pending one if it was moved since, as the previous one if it was        *)
(* displaced.                                                              *)
JustMoved(sec, g) ==
  sec.pending = sec.current /\ sec.previous # None /\ g[sec.previous] = 0

Reads(r, sec, g) ==
  /\ r.at = "pending" => Has(r.into, sec.current) \/ JustMoved(sec, g)
  /\ r.at \in {"previous", "date"} => Has(r.into, sec.current) /\ Has(r.into, sec.pending)
  /\ r.at = "date" => /\ r.into.left[r.old] = No
                      /\ sec.previous = r.old \/ Has(r.into, sec.previous)

Covered(c, r, sec, g) ==
  (~c.missed => Covers(c, sec, g)) /\ (~r.into.missed => Reads(r, sec, g))

Shape(c, r, m) ==
  /\ r.at = "none" => r = Resting
  /\ r.at = "date" => r.old # None
  /\ r.at # "none" => r.into.age = 0 /\ \A k \in Keys : r.into.left[k] \in {No, Always}
  /\ r.into.seen <= m /\ c.seen <= m

CacheInv ==
  \A v \in Validators :
    /\ Follows(cache[v], gone, rotated) /\ Follows(read[v].into, gone, rotated)
    /\ Shape(cache[v], read[v], made)
    /\ ~hasty => Covered(cache[v], read[v], secret, gone)

(* A proxy signs with the current or the previous key, or with one that is *)
(* past its window, and its copy is not younger than the displacement.     *)
Warm(s, sec, g, h) ==
  /\ s.key = None => s.age = Never
  /\ s.key # None => /\ g[s.key] <= s.age
                     /\ h \/ s.key \in {sec.current, sec.previous} \/ g[s.key] > MaxStale

SignInv == \A s \in Signers : Warm(signer[s], secret, gone, hasty)

KeysInv == TypeOK /\ Labels /\ Fresh /\ Spaced

(* What a rotation's step does to the labels.                              *)
Staged == secret' = [secret EXCEPT !.pending = made + 1] /\ made' = made + 1 /\ made + 1 \in Keys
Moved ==
  /\ secret.pending \notin {None, secret.current} /\ made' = made
  /\ secret' = [secret EXCEPT !.current = secret.pending, !.previous = secret.current]
Unstaged == secret' = [secret EXCEPT !.pending = None] /\ made' >= made
Relabels ==
  \/ secret' = secret /\ made' = made
  \/ (Staged \/ Moved \/ Unstaged) /\ Apart(hasty, secret.previous, gone)

(* And to all the rest: no key begins to age in it.                        *)
Rotates ==
  /\ Relabels /\ gone' = gone /\ (rotated' = rotated \/ rotated' = 0) /\ (hasty => hasty')
  /\ UNCHANGED <<signer, cache, read>>

RotationNext ==
  \/ StartRotation \/ CreateSecret \/ TestSecret \/ FinishReads \/ FinishMoves
  \/ Complete \/ StepFails \/ Cancel
ReaderNext ==
  \/ \E s \in Signers : SignerReads(s) \/ SignerRestarts(s)
  \/ \E v \in Validators :
       \/ RefreshBegins(v) \/ ReadCurrent(v) \/ ReadPending(v) \/ ReadPrevious(v)
       \/ ReadDate(v) \/ ReadFails(v) \/ ValidatorRestarts(v)

LEMMA NextCases == Next <=> RotationNext \/ ReaderNext \/ Tick
BY Zenon DEF Next, RotationNext, ReaderNext
-----------------------------------------------------------------------------
(* Types *)

LEMMA KeyFacts == 1 \in Keys /\ Keys \subseteq Nat /\ None \notin Keys /\ None = 0
BY WindowAssumption DEF Keys, None

LEMMA WindowFacts ==
  /\ MaxStale \in Nat /\ No = MaxStale + 1 /\ Always = MaxStale + 2 /\ Never = MaxStale + 1
  /\ \A a : a \in Ages <=> a \in Nat /\ a <= MaxStale + 1
  /\ \A n : n \in 0..Always <=> n \in Nat /\ n <= MaxStale + 2
BY WindowAssumption DEF Never, Ages, No, Always

LEMMA AgeFacts == 0 \in Ages /\ Never \in Ages /\ No \in 0..Always /\ Always \in 0..Always
BY WindowFacts

LEMMA EmptyTyped == Empty \in CacheType /\ Resting.into = Empty
BY AgeFacts DEF Empty, Resting, CacheType

LEMMA AgesTyped ==
  /\ \A a \in Ages : Older(a) \in Ages
  /\ \A n \in 0..Always : Shorter(n) \in 0..Always
  /\ \A a \in Ages : Deadline(a) \in 0..Always
<1>1. ASSUME NEW n \in 0..Always PROVE Shorter(n) \in 0..Always
  <2>1. CASE n = 0
    BY <2>1, WindowFacts DEF Shorter
  <2>2. CASE n \in 1..MaxStale
    <3>1. n # 0 /\ n - 1 \in 0..Always
      BY <2>2, WindowFacts
    <3> QED BY <2>2, <3>1, Zenon DEF Shorter
  <2>3. CASE n # 0 /\ n \notin 1..MaxStale
    BY <2>3, Zenon DEF Shorter
  <2> QED BY <2>1, <2>2, <2>3
<1> QED BY <1>1, WindowFacts DEF Older, Deadline

SecretType == [current: Keys, pending: Keys \union {None}, previous: Keys \union {None}]
RotationType ==
  [key: Keys \union {None}, over: Keys \union {None},
   at: {"none", "create", "test", "finish", "move", "complete"}]
SignerType == [Signers -> [key: Keys \union {None}, age: Ages]]
ReadType ==
  [at: {"none", "current", "pending", "previous", "date"}, into: CacheType,
   old: Keys \union {None}]

LEMMA TypeParts ==
  TypeOK <=>
    /\ secret \in SecretType /\ rotated \in Ages /\ rotation \in RotationType
    /\ signer \in SignerType /\ cache \in [Validators -> CacheType]
    /\ read \in [Validators -> ReadType]
    /\ made \in Keys /\ gone \in [Keys -> Ages] /\ hasty \in BOOLEAN /\ faults \in 0..MaxFaults
BY Zenon DEF TypeOK, SecretType, RotationType, SignerType, ReadType

LEMMA NextTypes ==
  ASSUME secret' \in SecretType, rotated' \in Ages, rotation' \in RotationType,
         signer' \in SignerType, cache' \in [Validators -> CacheType],
         read' \in [Validators -> ReadType],
         made' \in Keys, gone' \in [Keys -> Ages], hasty' \in BOOLEAN, faults' \in 0..MaxFaults
  PROVE  TypeOK'
BY Zenon DEF TypeOK, SecretType, RotationType, SignerType, ReadType

LEMMA StepsTyped ==
  ASSUME NEW r \in RotationType, NEW step \in {"none", "create", "test", "finish", "move", "complete"}
  PROVE  [r EXCEPT !.at = step] \in RotationType
BY DEF RotationType

LEMMA RotationsTyped ==
  /\ \A k \in Keys : [key |-> k, over |-> None, at |-> "create"] \in RotationType
  /\ [key |-> None, over |-> None, at |-> "none"] \in RotationType
BY DEF RotationType

LEMMA PendingTyped ==
  ASSUME NEW s \in SecretType, NEW k \in Keys \union {None}
  PROVE  [s EXCEPT !.pending = k] \in SecretType
BY DEF SecretType

LEMMA MissedTyped ==
  ASSUME NEW c \in CacheType, NEW b \in BOOLEAN
  PROVE  [c EXCEPT !.missed = b] \in CacheType
BY DEF CacheType

LEMMA LeftTyped ==
  ASSUME NEW c \in CacheType, NEW k, NEW n \in 0..Always
  PROVE  [c EXCEPT !.left[k] = n] \in CacheType
BY DEF CacheType

LEMMA RotationTypes ==
  ASSUME TypeOK, Labels, RotationNext
  PROVE  TypeOK'
<1>0. /\ secret \in SecretType /\ rotated \in Ages /\ rotation \in RotationType
      /\ made \in Keys /\ gone \in [Keys -> Ages] /\ hasty \in BOOLEAN /\ faults \in 0..MaxFaults
  BY TypeParts
<1>k. secret.current \in Keys /\ (rotation.at # "none" => rotation.key \in Keys)
  <2>1. rotation.key = made \/ rotation.key = made + 1 => rotation.key # None
    BY <1>0, KeyFacts
  <2> QED BY <1>0, <2>1 DEF SecretType, RotationType, Labels
<1>g. \A k : [gone EXCEPT ![k] = 0] \in [Keys -> Ages]
  BY <1>0, AgeFacts
<1>1. CASE StartRotation
  <2>1. made + 1 \in Keys
    BY <1>0, <1>1, WindowAssumption DEF StartRotation, Keys
  <2>2. rotation' \in RotationType /\ hasty' \in BOOLEAN
    BY <1>0, <1>1, <2>1, RotationsTyped, Zenon DEF StartRotation
  <2> QED BY <1>1, <2>2, TypeParts, NextTypes DEF StartRotation
<1>s. ASSUME rotation.at = "create", Stages(rotation.key) PROVE secret' \in SecretType /\ made' \in Keys
  <2>1. [secret EXCEPT !.pending = rotation.key] \in SecretType
    BY <1>0, <1>k, <1>s, PendingTyped
  <2> QED BY <1>0, <1>k, <1>s, <2>1 DEF Stages
<1>v. ASSUME rotation.at = "move", Moves PROVE secret' \in SecretType /\ gone' \in [Keys -> Ages]
  <2>1. [secret EXCEPT !.current = rotation.key, !.previous = secret.current] \in SecretType
    BY <1>0, <1>k, <1>v DEF SecretType
  <2> QED BY <1>g, <1>v, <2>1 DEF Moves
<1>r. ASSUME NEW step \in {"none", "create", "test", "finish", "move", "complete"}, Goes(step)
      PROVE  rotation' \in RotationType
  <2>1. [rotation EXCEPT !.at = step] \in RotationType
    BY <1>0, StepsTyped
  <2> QED BY <1>r, <2>1 DEF Goes
<1>2. CASE CreateSecret
  BY <1>2, <1>0, <1>r, <1>s, TypeParts, NextTypes DEF CreateSecret
<1>3. CASE TestSecret
  BY <1>3, <1>r, TypeParts, NextTypes DEF TestSecret
<1>4. CASE FinishReads
  <2>1. [rotation EXCEPT !.at = "move", !.over = secret.current] \in RotationType
    BY <1>0, <1>k DEF RotationType
  <2>2. rotation' \in RotationType
    BY <1>4, <1>r, <2>1 DEF FinishReads
  <2> QED BY <1>4, <2>2, TypeParts, NextTypes DEF FinishReads
<1>5. CASE FinishMoves
  BY <1>5, <1>v, <1>r, TypeParts, NextTypes DEF FinishMoves
<1>6. CASE Complete
  <2>1. rotation' \in RotationType
    BY <1>6, RotationsTyped, Zenon DEF Complete
  <2> QED BY <1>6, <2>1, AgeFacts, TypeParts, NextTypes DEF Complete
<1>7. CASE StepFails
  <2>1. faults' \in 0..MaxFaults
    BY <1>0, <1>7, WindowAssumption DEF StepFails, Spend
  <2> QED BY <1>7, <1>0, <1>r, <1>s, <1>v, <2>1, TypeParts, NextTypes DEF StepFails
<1>8. CASE Cancel
  <2>1. faults' \in 0..MaxFaults
    BY <1>0, <1>8, WindowAssumption DEF Cancel, Spend
  <2>2. secret' \in SecretType
    <3>1. [secret EXCEPT !.pending = None] \in SecretType
      BY <1>0, PendingTyped
    <3> QED BY <1>8, <3>1 DEF Cancel
  <2>3. rotation' \in RotationType
    BY <1>8, RotationsTyped, Zenon DEF Cancel
  <2>4. made' \in Keys /\ gone' \in [Keys -> Ages]
    BY <1>8, <1>k, <1>g DEF Cancel
  <2> QED BY <1>8, <2>1, <2>2, <2>3, <2>4, TypeParts, NextTypes DEF Cancel
<1> QED BY <1>1, <1>2, <1>3, <1>4, <1>5, <1>6, <1>7, <1>8 DEF RotationNext

(* Adding a key to what a refresh has read keeps its type.                 *)
LEMMA AddsTyped ==
  ASSUME TypeOK, NEW v \in Validators, NEW k, NEW n \in 0..Always
  PROVE  Adds(v, k, n) \in CacheType
<1>1. read[v].into \in CacheType
  BY DEF TypeOK
<1> QED BY <1>1, LeftTyped DEF Adds

LEMMA ContinuesTyped ==
  ASSUME TypeOK, NEW v \in Validators, NEW step, step \in {"current", "pending", "previous", "date"},
         NEW c \in CacheType, Continues(v, step, c)
  PROVE  read' \in [Validators -> ReadType]
<1> DEFINE r == [[read[v] EXCEPT !.at = step] EXCEPT !.into = c]
<1>1. read[v] \in ReadType /\ read \in [Validators -> ReadType]
  BY TypeParts
<1>2. r \in ReadType
  BY <1>1 DEF ReadType
<1>3. read' = [read EXCEPT ![v] = r]
  BY <1>1 DEF Continues
<1> HIDE DEF r
<1> QED BY <1>1, <1>2, <1>3

LEMMA StoresTyped ==
  ASSUME TypeOK, NEW v \in Validators, NEW c \in CacheType, Stores(v, c)
  PROVE  cache' \in [Validators -> CacheType] /\ read' \in [Validators -> ReadType]
<1>1. Resting \in ReadType
  BY EmptyTyped DEF Resting, ReadType
<1> QED BY <1>1, TypeParts, NextTypes DEF Stores

LEMMA ReaderTypes ==
  ASSUME TypeOK, ReaderNext
  PROVE  TypeOK'
<1>0. /\ \A v \in Validators : read[v].into \in CacheType
      /\ secret.current \in Keys /\ secret.pending \in Keys \union {None}
      /\ secret.previous \in Keys \union {None} /\ made \in Keys
  BY DEF TypeOK
<1>f. Spend => faults' \in 0..MaxFaults
  BY WindowAssumption DEF TypeOK, Spend
<1>1. ASSUME NEW s \in Signers, SignerReads(s) \/ SignerRestarts(s) PROVE TypeOK'
  <2>1. signer' \in SignerType
    BY <1>0, <1>1, AgeFacts, TypeParts, NextTypes DEF SignerReads, SignerRestarts, SignerType
  <2> QED BY <1>1, <1>f, <2>1, TypeParts, NextTypes DEF SignerReads, SignerRestarts
<1>2. ASSUME NEW v \in Validators, RefreshBegins(v) PROVE TypeOK'
  <2>1. [Empty EXCEPT !.age = 0, !.seen = made] \in CacheType
    BY <1>0, EmptyTyped, AgeFacts DEF CacheType
  <2> QED BY <1>2, <2>1, ContinuesTyped, TypeParts, NextTypes DEF RefreshBegins
<1>3. ASSUME NEW v \in Validators, ReadCurrent(v) PROVE TypeOK'
  <2>1. Adds(v, secret.current, Always) \in CacheType
    BY AddsTyped, AgeFacts
  <2> QED BY <1>3, <2>1, ContinuesTyped, TypeParts, NextTypes DEF ReadCurrent
<1>4. ASSUME NEW v \in Validators, ReadPending(v) PROVE TypeOK'
  <2>1. Adds(v, secret.pending, Always) \in CacheType
    BY AddsTyped, AgeFacts
  <2> QED BY <1>0, <1>4, <2>1, ContinuesTyped, TypeParts, NextTypes DEF ReadPending
<1>5. ASSUME NEW v \in Validators, ReadPrevious(v) PROVE TypeOK'
  <2>1. read[v] \in ReadType /\ read \in [Validators -> ReadType]
    BY TypeParts
  <2>2. [[read[v] EXCEPT !.at = "date"] EXCEPT !.old = secret.previous] \in ReadType
    BY <1>0, <2>1 DEF ReadType
  <2>3. [read EXCEPT ![v].at = "date", ![v].old = secret.previous] \in [Validators -> ReadType]
    BY <2>1, <2>2
  <2> QED BY <1>0, <1>5, <2>3, StoresTyped, TypeParts, NextTypes DEF ReadPrevious
<1>6. ASSUME NEW v \in Validators, ReadDate(v) PROVE TypeOK'
  <2>1. Adds(v, read[v].old, Deadline(rotated)) \in CacheType
    BY AgesTyped, AddsTyped, TypeParts
  <2>3. \A c \in CacheType : (c.missed \/ secret.current = rotation.key) \in BOOLEAN
    BY DEF CacheType
  <2>4. [Adds(v, read[v].old, Deadline(rotated)) EXCEPT !.missed = @ \/ secret.current = rotation.key]
          \in CacheType
    BY <2>1, <2>3, MissedTyped
  <2> QED BY <1>6, <2>4, StoresTyped, TypeParts, NextTypes DEF ReadDate
<1>7. ASSUME NEW v \in Validators, ReadFails(v) PROVE TypeOK'
  <2>1. [read[v].into EXCEPT !.missed = TRUE] \in CacheType
    BY <1>0 DEF CacheType
  <2>2. Resting \in ReadType
    BY EmptyTyped DEF Resting, ReadType
  <2> QED BY <1>7, <1>f, <2>1, <2>2, StoresTyped, ContinuesTyped, TypeParts, NextTypes DEF ReadFails
<1>8. ASSUME NEW v \in Validators, ValidatorRestarts(v) PROVE TypeOK'
  BY <1>8, <1>f, StoresTyped, EmptyTyped, TypeParts, NextTypes DEF ValidatorRestarts
<1> QED BY <1>1, <1>2, <1>3, <1>4, <1>5, <1>6, <1>7, <1>8 DEF ReaderNext

LEMMA TickTypes ==
  ASSUME TypeOK, Tick
  PROVE  TypeOK'
<1>1. ASSUME NEW c \in CacheType PROVE Aged(c) \in CacheType
  <2> DEFINE l == [k \in Keys |-> Shorter(c.left[k])]
             a == Older(c.age)
  <2>1. l \in [Keys -> 0..Always] /\ a \in Ages
    BY AgesTyped DEF CacheType
  <2>2. [c EXCEPT !.age = a, !.left = l] \in CacheType
    <3> HIDE DEF l, a
    <3> QED BY <2>1 DEF CacheType
  <2> QED BY <2>2, Zenon DEF Aged
<1>2. cache' \in [Validators -> CacheType]
  BY <1>1, TypeParts, NextTypes DEF Tick
<1>3. \A s \in Signers : [signer[s] EXCEPT !.age = Older(@)] \in [key: Keys \union {None}, age: Ages]
  BY AgesTyped DEF TypeOK
<1>4. signer' \in SignerType
  BY <1>3 DEF Tick, SignerType
<1>5. rotated' \in Ages
  BY AgesTyped, TypeParts, NextTypes DEF Tick
<1>6. gone' \in [Keys -> Ages]
  <2>1. \A k \in Keys : gone[k] \in Ages
    BY TypeParts
  <2> QED BY <2>1, AgesTyped, AgeFacts DEF Tick
<1> QED BY <1>2, <1>4, <1>5, <1>6, TypeParts, NextTypes DEF Tick

LEMMA InitTypes ==
  ASSUME Init
  PROVE  TypeOK /\ Labels
<1>1. secret \in SecretType
  BY KeyFacts DEF Init, SecretType
<1>2. rotation \in RotationType
  BY DEF Init, RotationType
<1>3. signer \in SignerType
  BY AgeFacts DEF Init, SignerType
<1>4. cache \in [Validators -> CacheType]
  BY EmptyTyped DEF Init
<1>5. read \in [Validators -> ReadType]
  <2>1. Resting \in ReadType
    BY EmptyTyped DEF ReadType, Resting
  <2> QED BY <2>1 DEF Init
<1>6. made \in Keys /\ gone \in [Keys -> Ages] /\ rotated \in Ages /\ hasty \in BOOLEAN
  BY KeyFacts, AgeFacts DEF Init
<1>8. faults \in 0..MaxFaults
  BY WindowAssumption DEF Init
<1>7. Labels
  BY KeyFacts DEF Init, Labels
<1> QED BY <1>1, <1>2, <1>3, <1>4, <1>5, <1>6, <1>7, <1>8, TypeParts

LEMMA StutterTypes == TypeOK /\ UNCHANGED keyVars => TypeOK'
BY DEF TypeOK, keyVars
-----------------------------------------------------------------------------
(* The labels *)

LEMMA LabelsKept ==
  ASSUME Labels, UNCHANGED <<secret, made, rotation>>
  PROVE  Labels'
BY DEF Labels

LEMMA KeyParts ==
  ASSUME TypeOK
  PROVE  /\ secret.current \in Keys /\ secret.pending \in Keys \union {None}
         /\ secret.previous \in Keys \union {None} /\ made \in Keys
         /\ rotation.key \in Keys \union {None}
BY DEF TypeOK

LEMMA NumberedParts ==
  ASSUME TypeOK
  PROVE  /\ secret.current \in Nat /\ secret.pending \in Nat /\ secret.previous \in Nat
         /\ made \in Nat /\ secret.current # 0 /\ made # 0 /\ rotation.key \in Nat
BY KeyParts, WindowAssumption DEF Keys, None

LEMMA Domains ==
  ASSUME TypeOK
  PROVE  DOMAIN secret = {"current", "pending", "previous"} /\ DOMAIN rotation = {"key", "over", "at"}
BY DEF TypeOK

LEMMA RotationLabels ==
  ASSUME TypeOK, Labels, RotationNext
  PROVE  Labels'
<1> USE NumberedParts, Domains, KeyFacts DEF Labels
<1>s. ASSUME Stages(rotation.key), rotation.at = "create", Goes("test") \/ Goes("create") PROVE Labels'
  BY <1>s DEF Stages, Goes
<1>v. ASSUME Moves, rotation.at = "move", Goes("complete") \/ Goes("create"), made' = made PROVE Labels'
  BY <1>v DEF Moves, Goes
<1>1. CASE StartRotation
  BY <1>1 DEF StartRotation
<1>2. CASE CreateSecret
  BY <1>2, <1>s DEF CreateSecret
<1>3. CASE TestSecret
  BY <1>3 DEF TestSecret, Goes
<1>4. CASE FinishReads
  BY <1>4 DEF FinishReads, Goes
<1>5. CASE FinishMoves
  BY <1>5, <1>v DEF FinishMoves
<1>6. CASE Complete
  BY <1>6 DEF Complete
<1>7. CASE StepFails
  <2>1. CASE UNCHANGED <<secret, made, gone>>
    BY <1>7, <2>1 DEF StepFails, Goes
  <2> QED BY <1>7, <1>s, <1>v, <2>1 DEF StepFails
<1>8. CASE Cancel
  BY <1>8 DEF Cancel
<1> QED BY <1>1, <1>2, <1>3, <1>4, <1>5, <1>6, <1>7, <1>8 DEF RotationNext

LEMMA ReaderLabels == ReaderNext \/ Tick \/ UNCHANGED keyVars => UNCHANGED <<secret, made, rotation, hasty>>
BY DEF ReaderNext, Tick, keyVars, SignerReads, SignerRestarts, RefreshBegins, ReadCurrent,
       ReadPending, ReadPrevious, ReadDate, ReadFails, ValidatorRestarts

LEMMA TypedLabels == Spec => [](TypeOK /\ Labels)
<1>1. TypeOK /\ Labels /\ [Next]_keyVars => TypeOK' /\ Labels'
  BY NextCases, RotationTypes, ReaderTypes, TickTypes, StutterTypes, RotationLabels,
     ReaderLabels, LabelsKept
<1> QED BY <1>1, InitTypes, PTL DEF Spec

(* Every variable keeps its type.                                          *)
THEOREM TypeCorrect == Spec => []TypeOK
BY TypedLabels, PTL
-----------------------------------------------------------------------------
(* A rotation's step, seen from the caches *)

LEMMA GoneKept == ASSUME NEW k \in Keys, gone \in [Keys -> Ages], gone[k] = 0
                  PROVE  [gone EXCEPT ![k] = 0] = gone
OBVIOUS

LEMMA RotationRelabels ==
  ASSUME KeysInv, RotationNext
  PROVE  Rotates
<1>0. TypeOK /\ Labels /\ gone \in [Keys -> Ages] /\ secret.current \in Keys
  BY KeyParts, TypeParts DEF KeysInv
<1>n. /\ secret.current \in Nat /\ secret.pending \in Nat /\ made \in Nat
      /\ secret.current # 0 /\ made # 0 /\ rotation.key \in Nat
  BY <1>0, NumberedParts
<1>a. rotation.at # "none" /\ secret.current # rotation.key => Apart(hasty, secret.previous, gone)
  BY DEF KeysInv, Spaced
<1>s. ASSUME Stages(rotation.key), rotation.at = "create" PROVE Relabels
  <2>1. CASE secret.pending = rotation.key
    BY <1>s, <2>1 DEF Stages, Relabels
  <2>2. CASE secret.pending # rotation.key
    <3>1. rotation.key = made + 1 /\ secret.current # rotation.key
      BY <1>0, <1>n, <1>s, <2>2 DEF Labels
    <3>2. secret' = [secret EXCEPT !.pending = rotation.key] /\ made' = rotation.key
      BY <1>s, <2>2 DEF Stages
    <3>3. rotation.key \in Keys
      BY <1>0, <1>n, <3>1, KeyParts, KeyFacts
    <3> QED BY <1>a, <1>s, <3>1, <3>2, <3>3 DEF Relabels, Staged
  <2> QED BY <2>1, <2>2
<1>v. ASSUME Moves, rotation.at = "move", made' = made PROVE Relabels /\ gone' = gone
  <2>1. secret.pending = rotation.key /\ secret.current # rotation.key /\ rotation.key # None
    BY <1>0, <1>n, <1>v, KeyFacts DEF Labels
  <2>2. gone' = gone
    BY <1>0, <1>v, GoneKept DEF Moves, KeysInv, Fresh
  <2>3. secret' = [secret EXCEPT !.current = secret.pending, !.previous = secret.current]
    BY <1>v, <2>1, Zenon DEF Moves
  <2> QED BY <1>a, <1>v, <2>1, <2>2, <2>3 DEF Relabels, Moved
<1>1. CASE StartRotation
  BY <1>1 DEF StartRotation, Rotates, Relabels
<1>2. CASE CreateSecret
  BY <1>2, <1>s DEF CreateSecret, Rotates
<1>3. CASE TestSecret
  BY <1>3 DEF TestSecret, Rotates, Relabels
<1>4. CASE FinishReads
  BY <1>4 DEF FinishReads, Rotates, Relabels
<1>5. CASE FinishMoves
  BY <1>5, <1>v DEF FinishMoves, Rotates
<1>6. CASE Complete
  BY <1>6 DEF Complete, Rotates, Relabels
<1>7. CASE StepFails
  <2>1. Relabels /\ gone' = gone
    <3>1. CASE UNCHANGED <<secret, made, gone>>
      BY <3>1 DEF Relabels
    <3> QED BY <1>7, <1>s, <1>v, <3>1 DEF StepFails
  <2> QED BY <1>7, <2>1 DEF StepFails, Rotates
<1>8. CASE Cancel
  <2>1. rotation.key \in Keys /\ rotation.key >= made
    BY <1>0, <1>n, <1>8, KeyParts, KeyFacts DEF Cancel, Labels
  <2>2. gone[rotation.key] = 0
    BY <1>0, <1>n, <1>8, <2>1 DEF Cancel, KeysInv, Fresh, Labels
  <2>3. gone' = gone
    BY <1>0, <1>8, <2>1, <2>2, GoneKept DEF Cancel
  <2>4. Unstaged /\ Apart(hasty, secret.previous, gone)
    BY <1>8, <1>a, <2>1 DEF Cancel, Unstaged
  <2> QED BY <1>8, <2>3, <2>4 DEF Cancel, Rotates, Relabels
<1> QED BY <1>1, <1>2, <1>3, <1>4, <1>5, <1>6, <1>7, <1>8 DEF RotationNext

(* A step that moves labels, label by label.                               *)
LEMMA LabelMoves ==
  ASSUME KeysInv, Relabels
  PROVE  /\ Staged => /\ secret'.current = secret.current /\ secret'.pending = made + 1
                      /\ secret'.previous = secret.previous
         /\ Moved => /\ secret'.current = secret.pending /\ secret'.pending = secret.pending
                     /\ secret'.previous = secret.current
         /\ Unstaged => /\ secret'.current = secret.current /\ secret'.pending = None
                        /\ secret'.previous = secret.previous
         /\ made' >= made
<1>1. DOMAIN secret = {"current", "pending", "previous"} /\ made \in Nat
  BY Domains, NumberedParts DEF KeysInv
<1>2. Staged => /\ secret'.current = secret.current /\ secret'.pending = made + 1
                /\ secret'.previous = secret.previous /\ made' >= made
  BY <1>1 DEF Staged
<1>3. Moved => /\ secret'.current = secret.pending /\ secret'.pending = secret.pending
               /\ secret'.previous = secret.current /\ made' >= made
  BY <1>1 DEF Moved
<1>4. Unstaged => /\ secret'.current = secret.current /\ secret'.pending = None
                  /\ secret'.previous = secret.previous /\ made' >= made
  BY <1>1 DEF Unstaged
<1>5. made' = made => made' >= made
  BY <1>1
<1> QED BY <1>2, <1>3, <1>4, <1>5 DEF Relabels

LEMMA FreshStep ==
  ASSUME KeysInv, TypeOK', [Next]_keyVars
  PROVE  Fresh'
<1>0. /\ secret.current \in Nat /\ secret.pending \in Nat /\ made \in Nat /\ made' \in Nat
      /\ Keys \subseteq Nat /\ None = 0 /\ secret.current # 0
  BY NumberedParts, KeyFacts DEF KeysInv, TypeOK
<1>1. CASE RotationNext
  <2>1. Rotates
    BY <1>1, RotationRelabels
  <2>2. gone' = gone /\ Relabels
    BY <2>1 DEF Rotates
  <2>3. made' >= made
    BY <1>0, <2>2, LabelMoves
  <2>4. SUFFICES ASSUME NEW k \in Keys, k = secret'.current \/ k = secret'.pending \/ k > made'
                 PROVE  gone[k] = 0
    BY <2>2 DEF Fresh
  <2>5. k = secret.current \/ k = secret.pending \/ k > made
    <3>1. CASE secret' = secret
      BY <1>0, <2>3, <2>4, <3>1
    <3>2. CASE Staged
      BY <1>0, <2>2, <2>3, <2>4, <3>2, LabelMoves
    <3>3. CASE Moved
      BY <1>0, <2>2, <2>3, <2>4, <3>3, LabelMoves
    <3>4. CASE Unstaged
      BY <1>0, <2>2, <2>3, <2>4, <3>4, LabelMoves, KeyFacts
    <3> QED BY <2>2, <3>1, <3>2, <3>3, <3>4 DEF Relabels
  <2> QED BY <2>5 DEF KeysInv, Fresh
<1>2. CASE ReaderNext \/ UNCHANGED keyVars
  <2>1. UNCHANGED <<secret, made, gone>>
    BY <1>2 DEF ReaderNext, keyVars, SignerReads, SignerRestarts, RefreshBegins, ReadCurrent,
       ReadPending, ReadPrevious, ReadDate, ReadFails, ValidatorRestarts
  <2> QED BY <2>1 DEF KeysInv, Fresh
<1>3. CASE Tick
  BY <1>3 DEF Tick, Fresh
<1> QED BY <1>1, <1>2, <1>3, NextCases

LEMMA SpacedRotation ==
  ASSUME KeysInv, RotationNext
  PROVE  Spaced'
<1>0. /\ secret.current \in Nat /\ secret.pending \in Nat /\ secret.previous \in Nat
      /\ made \in Nat /\ secret.current # 0 /\ made # 0 /\ rotation.key \in Nat
      /\ Labels /\ None = 0
  BY NumberedParts, KeyFacts DEF KeysInv
<1>d. DOMAIN secret = {"current", "pending", "previous"} /\ DOMAIN rotation = {"key", "over", "at"}
  BY Domains DEF KeysInv
<1>g. gone' = gone
  BY RotationRelabels DEF Rotates
<1>s. Spaced
  BY DEF KeysInv
<1>t. \A k \in Keys : gone[k] \in Nat
  BY WindowFacts DEF KeysInv, TypeOK
<1>p. secret.previous # None => gone[secret.previous] \in Nat
  BY <1>t, KeyParts, KeyFacts DEF KeysInv
<1>st. ASSUME Stages(rotation.key), rotation.at = "create", rotation'.key = rotation.key,
              UNCHANGED <<rotated, hasty>>
       PROVE  Spaced'
  BY <1>0, <1>d, <1>g, <1>s, <1>st DEF Stages, Spaced
<1>mv. ASSUME Moves, rotation.at = "move", rotation'.key = rotation.key
       PROVE  Spaced'
  BY <1>0, <1>d, <1>mv DEF Moves, Spaced
<1>go. ASSUME NEW step, Goes(step) PROVE rotation'.key = rotation.key
  BY <1>d, <1>go DEF Goes
<1>1. CASE StartRotation
  <2>1. secret.current # rotation.key
    BY <1>0, <1>1 DEF StartRotation, Labels
  <2>2. ASSUME ~hasty', secret.previous # None PROVE gone[secret.previous] > MaxStale
    <3>1. ~(gone[secret.previous] <= MaxStale)
      BY <1>1, <2>2, Zenon DEF StartRotation
    <3> QED BY <1>p, <2>2, <3>1, WindowFacts
  <2> QED BY <1>0, <1>1, <1>g, <1>s, <2>1, <2>2 DEF StartRotation, Spaced, Apart
<1>2. CASE CreateSecret
  BY <1>2, <1>st, <1>go DEF CreateSecret
<1>3. CASE TestSecret
  BY <1>3, <1>go, <1>s DEF TestSecret, Spaced
<1>4. CASE FinishReads
  <2>1. rotation'.key = rotation.key
    BY <1>4, <1>d, <1>go DEF FinishReads
  <2> QED BY <1>4, <1>s, <2>1 DEF FinishReads, Spaced
<1>5. CASE FinishMoves
  BY <1>5, <1>mv, <1>go DEF FinishMoves
<1>6. CASE Complete
  BY <1>0, <1>6, <1>g, <1>p DEF Complete, Spaced
<1>7. CASE StepFails
  <2>1. rotation'.key = rotation.key
    BY <1>7, <1>go DEF StepFails
  <2>2. CASE UNCHANGED <<secret, made, gone>>
    BY <1>7, <1>s, <2>1, <2>2 DEF StepFails, Spaced
  <2> QED BY <1>7, <1>st, <1>mv, <2>1, <2>2 DEF StepFails
<1>8. CASE Cancel
  <2>1. secret'.current = secret.current /\ secret'.previous = secret.previous
    BY <1>8, <1>d DEF Cancel
  <2> QED BY <1>0, <1>8, <1>g, <1>s, <2>1 DEF Cancel, Spaced
<1> QED BY <1>1, <1>2, <1>3, <1>4, <1>5, <1>6, <1>7, <1>8 DEF RotationNext

(* Over a tick, a key that has lost its labels ages, and no other does.    *)
LEMMA GoneTick ==
  ASSUME KeysInv, Tick, NEW k \in Keys
  PROVE  /\ gone'[k] \in {0, Older(gone[k])}
         /\ gone[k] > 0 \/ k = secret.previous => gone'[k] = Older(gone[k])
<1>1. gone'[k] = IF k \in {secret.current, secret.pending} \/ k > made THEN 0 ELSE Older(gone[k])
  BY DEF Tick
<1>2. gone[k] > 0 => ~(k \in {secret.current, secret.pending} \/ k > made)
  BY DEF KeysInv, Fresh
<1>3. k = secret.previous => ~(k \in {secret.current, secret.pending} \/ k > made)
  <2>1. k \in Nat /\ k # 0 /\ made \in Nat /\ None = 0
    BY KeyFacts, NumberedParts DEF KeysInv
  <2> QED BY <2>1 DEF KeysInv, Labels
<1> QED BY <1>1, <1>2, <1>3

LEMMA SpacedTick ==
  ASSUME KeysInv, Tick
  PROVE  Spaced'
<1>1. UNCHANGED <<secret, rotation, hasty>> /\ rotated' = Older(rotated)
  BY DEF Tick
<1>2. secret.previous # None => /\ secret.previous \in Keys
                                /\ gone'[secret.previous] = Older(gone[secret.previous])
                                /\ gone[secret.previous] \in Ages
  BY GoneTick, KeyParts DEF KeysInv, TypeOK
<1>3. rotated \in Ages
  BY DEF KeysInv, TypeOK
<1>4. \A a, b \in Ages : /\ a <= b => Older(a) <= Older(b)
                         /\ a > MaxStale => Older(a) > MaxStale
  BY WindowFacts DEF Older
<1> QED BY <1>1, <1>2, <1>3, <1>4 DEF KeysInv, Spaced, Apart

LEMMA KeysStep ==
  ASSUME KeysInv, [Next]_keyVars
  PROVE  KeysInv'
<1>1. TypeOK'
  BY NextCases, RotationTypes, ReaderTypes, TickTypes, StutterTypes DEF KeysInv
<1>2. Labels'
  BY NextCases, RotationLabels, ReaderLabels, LabelsKept DEF KeysInv
<1>3. ReaderNext \/ UNCHANGED keyVars => UNCHANGED <<secret, rotation, rotated, gone, hasty>>
  BY DEF ReaderNext, keyVars, SignerReads, SignerRestarts, RefreshBegins, ReadCurrent,
       ReadPending, ReadPrevious, ReadDate, ReadFails, ValidatorRestarts
<1>4. UNCHANGED <<secret, rotation, rotated, gone, hasty>> => Spaced'
  BY DEF KeysInv, Spaced
<1>5. Spaced'
  BY <1>3, <1>4, NextCases, SpacedRotation, SpacedTick
<1> QED BY <1>1, <1>2, <1>5, FreshStep DEF KeysInv

LEMMA KeysInit == Init => KeysInv
<1>1. Init => Fresh /\ Spaced
  BY DEF Init, Fresh, Spaced
<1> QED BY <1>1, InitTypes DEF KeysInv
-----------------------------------------------------------------------------
(* Caches and refreshes *)

LEMMA CacheFields ==
  ASSUME NEW c \in CacheType
  PROVE  /\ c.age \in Ages /\ c.seen \in Nat /\ c.missed \in BOOLEAN
         /\ \A k \in Keys : c.left[k] \in Nat /\ c.left[k] <= Always
<1>1. c.age \in Ages /\ c.seen \in Keys \union {None} /\ c.missed \in BOOLEAN
  BY DEF CacheType
<1>2. \A k \in Keys : c.left[k] \in 0..Always
  BY DEF CacheType
<1>3. c.seen \in Nat
  BY <1>1, WindowAssumption DEF Keys, None
<1>4. \A k \in Keys : c.left[k] \in Nat /\ c.left[k] <= Always
  BY <1>2, WindowFacts
<1> QED BY <1>1, <1>3, <1>4

LEMMA GoneFields ==
  ASSUME TypeOK
  PROVE  rotated \in Nat /\ \A k \in Keys : gone[k] \in Nat
BY WindowFacts DEF TypeOK

LEMMA EmptyFields ==
  /\ Empty.age = Never /\ Empty.seen = 0 /\ ~Empty.missed /\ \A k \in Keys : Empty.left[k] = No
  /\ Resting.at = "none" /\ Resting.into = Empty
BY DEF Empty, Resting, None

LEMMA EmptyFollows ==
  ASSUME NEW g, NEW r
  PROVE  Follows(Empty, g, r)
BY EmptyFields, WindowFacts DEF Follows

LEMMA AddsAt ==
  ASSUME TypeOK, NEW v \in Validators, NEW k \in Keys, NEW n
  PROVE  /\ Adds(v, k, n).age = read[v].into.age /\ Adds(v, k, n).seen = read[v].into.seen
         /\ Adds(v, k, n).missed = read[v].into.missed
         /\ \A j \in Keys : Adds(v, k, n).left[j] = IF j = k THEN n ELSE read[v].into.left[j]
<1> DEFINE c == read[v].into
<1>1. c \in CacheType
  BY DEF TypeOK
<1>2. /\ [c EXCEPT !.left[k] = n].age = c.age /\ [c EXCEPT !.left[k] = n].seen = c.seen
      /\ [c EXCEPT !.left[k] = n].missed = c.missed
      /\ \A j \in Keys : [c EXCEPT !.left[k] = n].left[j] = IF j = k THEN n ELSE c.left[j]
  <2> HIDE DEF c
  <2> QED BY <1>1 DEF CacheType
<1> QED BY <1>2 DEF Adds

LEMMA ContinuesAt ==
  ASSUME TypeOK, NEW v \in Validators, NEW step, NEW c, Continues(v, step, c)
  PROVE  /\ read'[v].at = step /\ read'[v].into = c /\ read'[v].old = read[v].old
         /\ \A u \in Validators \ {v} : read'[u] = read[u]
<1>1. DOMAIN read = Validators /\ DOMAIN read[v] = {"at", "into", "old"}
  BY DEF TypeOK
<1> QED BY <1>1 DEF Continues

LEMMA StoresAt ==
  ASSUME TypeOK, NEW v \in Validators, NEW c, Stores(v, c)
  PROVE  /\ cache'[v] = c /\ read'[v] = Resting
         /\ \A u \in Validators \ {v} : cache'[u] = cache[u] /\ read'[u] = read[u]
<1>1. DOMAIN read = Validators /\ DOMAIN cache = Validators
  BY DEF TypeOK
<1> QED BY <1>1 DEF Stores

(* A step of one validator's refresh leaves the others as they are: it is  *)
(* enough to look at that one.                                             *)
Good(c, r, sec, g, rot, m, h) ==
  /\ Follows(c, g, rot) /\ Follows(r.into, g, rot)
  /\ Shape(c, r, m)
  /\ ~h => Covered(c, r, sec, g)

LEMMA CacheParts ==
  CacheInv <=> \A v \in Validators : Good(cache[v], read[v], secret, gone, rotated, made, hasty)
BY Zenon DEF CacheInv, Good

LEMMA NextCaches ==
  ASSUME \A v \in Validators : Good(cache'[v], read'[v], secret', gone', rotated', made', hasty')
  PROVE  CacheInv'
BY Zenon DEF CacheInv, Good

LEMMA StoredGood ==
  ASSUME KeysInv, NEW c \in CacheType, Follows(c, gone, rotated), c.seen <= made,
         ~hasty /\ ~c.missed => Covers(c, secret, gone)
  PROVE  Good(c, Resting, secret, gone, rotated, made, hasty)
<1>1. Shape(c, Resting, made)
  BY EmptyFields, NumberedParts DEF KeysInv, Shape
<1>2. Reads(Resting, secret, gone)
  BY EmptyFields DEF Reads
<1> QED BY <1>1, <1>2, EmptyFollows, EmptyFields DEF Good, Covered

LEMMA EmptyCovers ==
  ASSUME KeysInv
  PROVE  Covers(Empty, secret, gone)
BY EmptyFields, NumberedParts, KeyFacts DEF KeysInv, Covers, Has, Named

(* A key is added to what a refresh accepts: one with a label, or one that *)
(* waits for its deadline.                                                 *)
LEMMA AddsFollow ==
  ASSUME KeysInv, NEW v \in Validators, NEW k \in Keys, NEW n,
         Follows(read[v].into, gone, rotated), read[v].into.age = 0,
         \/ n = Always /\ (k = secret.current \/ k = secret.pending)
         \/ n = Deadline(rotated)
  PROVE  Follows(Adds(v, k, n), gone, rotated)
<1>1. /\ Adds(v, k, n).age = read[v].into.age
      /\ \A j \in Keys : Adds(v, k, n).left[j] = IF j = k THEN n ELSE read[v].into.left[j]
  BY AddsAt DEF KeysInv
<1>2. /\ n = Always => gone[k] <= 0
      /\ n <= MaxStale => rotated + n <= MaxStale
  <2>1. CASE n = Always /\ (k = secret.current \/ k = secret.pending)
    BY <2>1, WindowFacts DEF KeysInv, Fresh
  <2>2. CASE n = Deadline(rotated)
    BY <2>2, WindowFacts, GoneFields DEF KeysInv, Deadline
  <2> QED BY <2>1, <2>2
<1> QED BY <1>1, <1>2 DEF Follows
-----------------------------------------------------------------------------
(* Caches under a rotation's step *)

LEMMA CoversRelabel ==
  ASSUME KeysInv, Relabels, NEW c \in CacheType, c.seen <= made, Covers(c, secret, gone)
  PROVE  Covers(c, secret', gone)
<1>0. made \in Nat /\ c.seen \in Nat
  BY NumberedParts, CacheFields DEF KeysInv
<1>1. CASE secret' = secret
  BY <1>1
<1>2. CASE Staged
  BY <1>0, <1>2, LabelMoves DEF Covers, Has, Named
<1>3. CASE Moved
  BY <1>3, LabelMoves DEF Covers, Has, Named, Lasts
<1>4. CASE Unstaged
  BY <1>4, LabelMoves DEF Covers, Has, Named
<1> QED BY <1>1, <1>2, <1>3, <1>4 DEF Relabels

LEMMA ReadsRelabel ==
  ASSUME KeysInv, Relabels, ~hasty, NEW r \in ReadType, r.into.seen <= made,
         Reads(r, secret, gone)
  PROVE  Reads(r, secret', gone)
<1>0. /\ made \in Nat /\ r.into.seen \in Nat /\ secret.current # None /\ secret.current \in Keys
      /\ secret.previous \in Keys \union {None}
  <2>1. r.into \in CacheType
    BY DEF ReadType
  <2> QED BY <2>1, NumberedParts, KeyParts, KeyFacts, CacheFields DEF KeysInv
<1>a. Apart(hasty, secret.previous, gone) => ~JustMoved(secret, gone)
  BY <1>0, GoneFields, WindowFacts DEF KeysInv, Apart, JustMoved
<1>f. gone[secret.current] = 0
  BY <1>0 DEF KeysInv, Fresh
<1>1. CASE secret' = secret
  BY <1>1
<1>2. CASE Staged /\ Apart(hasty, secret.previous, gone)
  <2>1. Has(r.into, secret'.pending)
    BY <1>0, <1>2, LabelMoves DEF Has, Named
  <2> QED BY <1>2, <1>a, <2>1, LabelMoves DEF Reads
<1>3. CASE Moved /\ Apart(hasty, secret.previous, gone)
  <2>1. JustMoved(secret', gone)
    BY <1>0, <1>3, <1>f, LabelMoves DEF JustMoved
  <2> QED BY <1>3, <2>1, LabelMoves DEF Reads
<1>4. CASE Unstaged /\ Apart(hasty, secret.previous, gone)
  <2>1. Has(r.into, secret'.pending)
    BY <1>4, LabelMoves DEF Has, Named
  <2> QED BY <1>4, <1>a, <2>1, LabelMoves DEF Reads
<1> QED BY <1>1, <1>2, <1>3, <1>4 DEF Relabels

LEMMA CachesRotate ==
  ASSUME KeysInv, CacheInv, Rotates, made' \in Nat
  PROVE  CacheInv'
<1>1. /\ Relabels /\ gone' = gone /\ (rotated' = rotated \/ rotated' = 0) /\ (hasty => hasty')
      /\ cache' = cache /\ read' = read
  BY DEF Rotates
<1>2. made' >= made /\ made \in Nat
  BY <1>1, LabelMoves, NumberedParts DEF KeysInv
<1>3. SUFFICES ASSUME NEW v \in Validators
               PROVE  Good(cache[v], read[v], secret', gone, rotated', made', hasty')
  BY <1>1, NextCaches
<1>4. cache[v] \in CacheType /\ read[v] \in ReadType /\ read[v].into \in CacheType
  BY TypeParts DEF KeysInv, ReadType
<1>5. Good(cache[v], read[v], secret, gone, rotated, made, hasty)
  BY CacheParts
<1>6. ASSUME NEW c \in CacheType, Follows(c, gone, rotated) PROVE Follows(c, gone, rotated')
  <2>1. \A k \in Keys : c.left[k] \in Nat
    BY CacheFields
  <2> QED BY <1>1, <1>6, <2>1 DEF Follows
<1>7. Shape(cache[v], read[v], made')
  <2>1. cache[v].seen \in Nat /\ read[v].into.seen \in Nat
    BY <1>4, CacheFields
  <2> QED BY <1>2, <1>5, <2>1 DEF Good, Shape
<1>8. ~hasty' => Covered(cache[v], read[v], secret', gone)
  <2>1. cache[v].seen <= made /\ read[v].into.seen <= made
    BY <1>5 DEF Good, Shape
  <2> QED BY <1>1, <1>4, <1>5, <2>1, CoversRelabel, ReadsRelabel DEF Good, Covered
<1> QED BY <1>4, <1>5, <1>6, <1>7, <1>8 DEF Good
-----------------------------------------------------------------------------
(* Caches under a step of a validator *)

(* What does not change in one.                                            *)
Fixed == UNCHANGED <<secret, rotated, rotation, signer, made, gone, hasty>>

LEMMA OneValidator ==
  ASSUME CacheInv, Fixed, NEW v \in Validators,
         \A u \in Validators \ {v} : cache'[u] = cache[u] /\ read'[u] = read[u],
         Good(cache'[v], read'[v], secret, gone, rotated, made, hasty)
  PROVE  CacheInv'
<1>1. \A u \in Validators : Good(cache[u], read[u], secret, gone, rotated, made, hasty)
  BY CacheParts
<1>2. \A u \in Validators : Good(cache'[u], read'[u], secret, gone, rotated, made, hasty)
  BY <1>1
<1> QED BY <1>2, NextCaches DEF Fixed

LEMMA RefreshBeginsCaches ==
  ASSUME KeysInv, CacheInv, NEW v \in Validators, RefreshBegins(v)
  PROVE  CacheInv'
<1> DEFINE c == [Empty EXCEPT !.age = 0, !.seen = made]
<1>1. c.age = 0 /\ c.seen = made /\ \A k \in Keys : c.left[k] = No
  BY EmptyFields DEF Empty
<1>2. /\ read'[v].at = "current" /\ read'[v].into = c
      /\ \A u \in Validators \ {v} : read'[u] = read[u]
  BY ContinuesAt DEF KeysInv, RefreshBegins
<1>3. Good(cache[v], read[v], secret, gone, rotated, made, hasty)
  BY CacheParts
<1> HIDE DEF c
<1>4. Follows(c, gone, rotated)
  BY <1>1, WindowFacts DEF Follows
<1>5. Good(cache[v], read'[v], secret, gone, rotated, made, hasty)
  <2>1. made <= made
    BY NumberedParts DEF KeysInv
  <2>2. Shape(cache[v], read'[v], made)
    BY <1>1, <1>2, <1>3, <2>1 DEF Good, Shape
  <2>3. Reads(read'[v], secret, gone)
    BY <1>2 DEF Reads
  <2> QED BY <1>2, <1>3, <1>4, <2>2, <2>3 DEF Good, Covered
<1> QED BY <1>2, <1>5, OneValidator DEF RefreshBegins, Fixed

(* A refresh goes on with what is as good as what it has.                  *)
Sound(c) ==
  /\ c.age = 0 /\ c.seen <= made /\ Follows(c, gone, rotated)
  /\ \A k \in Keys : c.left[k] \in {No, Always}

LEMMA ContinuesCaches ==
  ASSUME KeysInv, CacheInv, Fixed, cache' = cache, NEW v \in Validators, NEW step, NEW c,
         step \in {"pending", "previous"}, Continues(v, step, c), Sound(c),
         ~hasty /\ ~c.missed =>
           /\ step = "pending" => Has(c, secret.current) \/ JustMoved(secret, gone)
           /\ step = "previous" => Has(c, secret.current) /\ Has(c, secret.pending)
  PROVE  CacheInv'
<1>1. /\ read'[v].at = step /\ read'[v].into = c
      /\ \A u \in Validators \ {v} : read'[u] = read[u]
  BY ContinuesAt DEF KeysInv
<1>2. Good(cache[v], read[v], secret, gone, rotated, made, hasty)
  BY CacheParts
<1>3. Shape(cache[v], read'[v], made)
  BY <1>1, <1>2 DEF Good, Shape, Sound
<1>4. ~hasty => Covered(cache[v], read'[v], secret, gone)
  BY <1>1, <1>2 DEF Good, Covered, Reads
<1>5. Good(cache'[v], read'[v], secret, gone, rotated, made, hasty)
  BY <1>1, <1>2, <1>3, <1>4 DEF Good, Sound
<1> QED BY <1>1, <1>5, OneValidator

(* A refresh ends with what it stores.                                     *)
LEMMA StoresCaches ==
  ASSUME KeysInv, CacheInv, Fixed, NEW v \in Validators, NEW c \in CacheType, Stores(v, c),
         Follows(c, gone, rotated), c.seen <= made,
         ~hasty /\ ~c.missed => Covers(c, secret, gone)
  PROVE  CacheInv'
BY StoredGood, StoresAt, OneValidator DEF KeysInv

LEMMA MissedFields ==
  ASSUME NEW c \in CacheType, NEW b
  PROVE  /\ [c EXCEPT !.missed = b].left = c.left /\ [c EXCEPT !.missed = b].age = c.age
         /\ [c EXCEPT !.missed = b].seen = c.seen /\ [c EXCEPT !.missed = b].missed = b
BY DEF CacheType

(* Where a refresh stands.                                                 *)
LEMMA RefreshFacts ==
  ASSUME KeysInv, CacheInv, NEW v \in Validators, read[v].at # "none"
  PROVE  /\ read[v].into \in CacheType /\ read[v].into.age = 0 /\ read[v].into.seen <= made
         /\ \A k \in Keys : read[v].into.left[k] \in {No, Always}
         /\ Follows(read[v].into, gone, rotated)
         /\ read[v].at = "date" => read[v].old \in Keys
         /\ ~hasty /\ ~read[v].into.missed => Reads(read[v], secret, gone)
<1>1. read[v].into \in CacheType /\ read[v].old \in Keys \union {None}
  BY DEF KeysInv, TypeOK
<1>2. Good(cache[v], read[v], secret, gone, rotated, made, hasty)
  BY CacheParts
<1> QED BY <1>1, <1>2 DEF Good, Shape, Covered

LEMMA AddsSound ==
  ASSUME KeysInv, CacheInv, NEW v \in Validators, read[v].at # "none",
         NEW k \in {secret.current, secret.pending} \ {None}
  PROVE  Sound(Adds(v, k, Always))
<1>1. k \in Keys
  BY KeyParts DEF KeysInv
<1>2. /\ Adds(v, k, Always).age = read[v].into.age /\ Adds(v, k, Always).seen = read[v].into.seen
      /\ \A j \in Keys : Adds(v, k, Always).left[j] = IF j = k THEN Always ELSE read[v].into.left[j]
  BY <1>1, AddsAt DEF KeysInv
<1>3. Follows(Adds(v, k, Always), gone, rotated)
  BY <1>1, RefreshFacts, AddsFollow
<1> QED BY <1>2, <1>3, RefreshFacts DEF Sound

LEMMA ReadCurrentCaches ==
  ASSUME KeysInv, CacheInv, NEW v \in Validators, ReadCurrent(v)
  PROVE  CacheInv'
<1>1. secret.current \in Keys /\ secret.current # None
  BY KeyParts, KeyFacts DEF KeysInv
<1>2. Has(Adds(v, secret.current, Always), secret.current)
  BY <1>1, AddsAt DEF KeysInv, Has
<1>3. Sound(Adds(v, secret.current, Always))
  BY <1>1, AddsSound DEF ReadCurrent
<1> QED BY <1>1, <1>2, <1>3, ContinuesCaches DEF ReadCurrent, Fixed

LEMMA ReadPendingCaches ==
  ASSUME KeysInv, CacheInv, NEW v \in Validators, ReadPending(v)
  PROVE  CacheInv'
<1> DEFINE d == Adds(v, secret.pending, Always)
<1>1. ~hasty /\ ~read[v].into.missed => Has(read[v].into, secret.current) \/ JustMoved(secret, gone)
  BY RefreshFacts DEF ReadPending, Reads
<1>k. secret.current \in Keys /\ secret.current # None
  BY KeyParts, KeyFacts DEF KeysInv
<1>2. CASE secret.pending = None
  <2>1. Has(read[v].into, secret.pending) /\ ~JustMoved(secret, gone)
    BY <1>2, <1>k DEF Has, Named, JustMoved
  <2>2. Sound(read[v].into)
    BY RefreshFacts DEF ReadPending, Sound
  <2> QED BY <1>1, <1>2, <2>1, <2>2, ContinuesCaches DEF ReadPending, Fixed
<1>3. CASE secret.pending # None
  <2>1. secret.pending \in Keys
    BY <1>3, KeyParts DEF KeysInv
  <2>2. /\ d.missed = read[v].into.missed /\ d.seen = read[v].into.seen
        /\ \A j \in Keys : d.left[j] = IF j = secret.pending THEN Always ELSE read[v].into.left[j]
    BY <2>1, AddsAt DEF KeysInv
  <2> HIDE DEF d
  <2>3. Has(d, secret.pending)
    BY <2>1, <2>2 DEF Has
  <2>4. ~hasty /\ ~d.missed => Has(d, secret.current)
    BY <1>1, <1>k, <2>1, <2>2 DEF Has, Named, JustMoved
  <2>5. Continues(v, "previous", d)
    BY <1>3 DEF ReadPending, d
  <2>6. Fixed /\ cache' = cache
    BY DEF ReadPending, Fixed
  <2>7. Sound(d)
    BY <1>3, AddsSound DEF ReadPending, d
  <2> QED BY <2>3, <2>4, <2>5, <2>6, <2>7, ContinuesCaches
<1> QED BY <1>2, <1>3

LEMMA ReadPreviousCaches ==
  ASSUME KeysInv, CacheInv, NEW v \in Validators, ReadPrevious(v)
  PROVE  CacheInv'
<1> DEFINE c == read[v].into
<1>f. /\ read[v].at = "previous" /\ Fixed
  BY DEF ReadPrevious, Fixed
<1>0. /\ c \in CacheType /\ c.age = 0 /\ c.seen <= made /\ Follows(c, gone, rotated)
      /\ \A k \in Keys : c.left[k] \in {No, Always}
      /\ ~hasty /\ ~c.missed => Has(c, secret.current) /\ Has(c, secret.pending)
  BY <1>f, RefreshFacts DEF Reads
<1>p. secret.previous \in Keys \union {None}
  BY KeyParts DEF KeysInv
<1>1. CASE secret.previous # None /\ c.left[secret.previous] = No
  <2>1. /\ read'[v].at = "date" /\ read'[v].into = c /\ read'[v].old = secret.previous
        /\ \A u \in Validators \ {v} : read'[u] = read[u]
    <3>1. DOMAIN read = Validators /\ DOMAIN read[v] = {"at", "into", "old"}
      BY DEF KeysInv, TypeOK
    <3>2. read' = [read EXCEPT ![v].at = "date", ![v].old = secret.previous]
      BY <1>1 DEF ReadPrevious
    <3> QED BY <3>1, <3>2
  <2>2. cache' = cache
    BY <1>1 DEF ReadPrevious
  <2>3. Good(cache[v], read[v], secret, gone, rotated, made, hasty)
    BY CacheParts
  <2> HIDE DEF c
  <2>4. Shape(cache[v], read'[v], made)
    BY <1>0, <1>1, <2>1, <2>3 DEF Good, Shape
  <2>5. ~hasty => Covered(cache[v], read'[v], secret, gone)
    BY <1>0, <1>1, <2>1, <2>3 DEF Good, Covered, Reads
  <2>6. Good(cache[v], read'[v], secret, gone, rotated, made, hasty)
    BY <1>0, <2>1, <2>3, <2>4, <2>5 DEF Good
  <2> QED BY <1>f, <2>1, <2>2, <2>6, OneValidator
<1>2. CASE ~(secret.previous # None /\ c.left[secret.previous] = No)
  <2>1. Stores(v, c)
    BY <1>2 DEF ReadPrevious
  <2> HIDE DEF c
  <2>2. ~hasty /\ ~c.missed => Covers(c, secret, gone)
    BY <1>0, <1>2, <1>p DEF Covers, Named, Lasts
  <2> QED BY <1>0, <1>f, <2>1, <2>2, StoresCaches
<1> QED BY <1>1, <1>2

LEMMA ReadDateCaches ==
  ASSUME KeysInv, CacheInv, NEW v \in Validators, ReadDate(v)
  PROVE  CacheInv'
<1> DEFINE c == read[v].into
           n == Deadline(rotated)
           d == Adds(v, read[v].old, n)
           b == d.missed \/ secret.current = rotation.key
           e == [d EXCEPT !.missed = b]
<1>f. read[v].at = "date" /\ Fixed /\ Stores(v, e)
  BY DEF ReadDate, Fixed
<1>0. /\ c.age = 0 /\ c.seen <= made /\ Follows(c, gone, rotated) /\ read[v].old \in Keys
      /\ \A k \in Keys : c.left[k] \in {No, Always}
      /\ ~hasty /\ ~c.missed =>
           /\ Has(c, secret.current) /\ Has(c, secret.pending) /\ c.left[read[v].old] = No
           /\ secret.previous = read[v].old \/ Has(c, secret.previous)
  BY <1>f, RefreshFacts DEF Reads
<1>t. n \in 0..Always
  BY AgesTyped DEF KeysInv, TypeOK
<1>d. /\ d \in CacheType /\ Follows(d, gone, rotated)
      /\ d.age = c.age /\ d.seen = c.seen /\ d.missed = c.missed
      /\ \A j \in Keys : d.left[j] = IF j = read[v].old THEN n ELSE c.left[j]
  BY <1>0, <1>t, AddsTyped, AddsAt, AddsFollow DEF KeysInv
<1>b. b \in BOOLEAN
  <2> HIDE DEF d
  <2> QED BY <1>d, CacheFields
<1>e. /\ e \in CacheType /\ e.left = d.left /\ e.age = d.age /\ e.seen = d.seen /\ e.missed = b
  <2> HIDE DEF d, b
  <2> QED BY <1>d, <1>b, MissedTyped, MissedFields
<1>1. ASSUME ~hasty, ~e.missed PROVE Covers(e, secret, gone)
  <2>1. ~c.missed /\ secret.current # rotation.key
    <3> HIDE DEF d, e, c
    <3> QED BY <1>1, <1>d, <1>e
  <2>2. /\ secret.current \in Keys /\ secret.pending \in Keys \union {None}
        /\ secret.previous \in Keys \union {None}
    BY KeyParts DEF KeysInv
  <2>3. \A k \in Keys : c.left[k] = Always => k # read[v].old
    BY <1>0, <1>1, <2>1, WindowFacts
  <2> HIDE DEF c, d, e
  <2>4. ASSUME NEW k \in Keys \union {None}, Has(c, k) PROVE Has(e, k)
    BY <1>d, <1>e, <2>3, <2>4 DEF Has, Named
  <2>5. CASE secret.previous = read[v].old
    <3>1. secret.previous # None => rotated <= gone[secret.previous]
      BY <2>1 DEF KeysInv, Spaced
    <3>2. secret.previous # None => Lasts(n, gone[secret.previous])
      BY <2>2, <3>1, GoneFields, WindowFacts DEF KeysInv, Deadline, Lasts
    <3> QED BY <1>0, <1>1, <1>d, <1>e, <2>1, <2>2, <2>4, <2>5, <3>2 DEF Covers, Named
  <2>6. CASE Has(c, secret.previous)
    BY <1>0, <1>1, <2>1, <2>2, <2>4, <2>6 DEF Covers, Has, Lasts
  <2> QED BY <1>0, <1>1, <2>1, <2>5, <2>6
<1>2. Follows(e, gone, rotated) /\ e.seen <= made
  <2> HIDE DEF d, e
  <2> QED BY <1>0, <1>d, <1>e DEF Follows
<1> HIDE DEF c, d, e
<1> QED BY <1>1, <1>2, <1>e, <1>f, StoresCaches

LEMMA ReadFailsCaches ==
  ASSUME KeysInv, CacheInv, NEW v \in Validators, ReadFails(v)
  PROVE  CacheInv'
<1> DEFINE c == read[v].into
           e == [c EXCEPT !.missed = TRUE]
<1>f. read[v].at # "none" /\ Fixed
  BY DEF ReadFails, Fixed
<1>0. c \in CacheType /\ c.seen <= made /\ Follows(c, gone, rotated)
  BY <1>f, RefreshFacts
<1>e. e \in CacheType /\ e.left = c.left /\ e.age = c.age /\ e.seen = c.seen /\ e.missed
  <2> HIDE DEF c
  <2> QED BY <1>0, MissedTyped, MissedFields
<1>1. CASE read' = [read EXCEPT ![v] = Resting] /\ cache' = cache
  <2>1. read'[v] = Resting /\ \A u \in Validators \ {v} : read'[u] = read[u]
    BY <1>1 DEF KeysInv, TypeOK
  <2>2. Good(cache[v], read[v], secret, gone, rotated, made, hasty)
    BY CacheParts
  <2>3. Good(cache[v], Resting, secret, gone, rotated, made, hasty)
    <3>1. cache[v] \in CacheType
      BY DEF KeysInv, TypeOK
    <3> QED BY <2>2, <3>1, StoredGood DEF Good, Shape, Covered
  <2> QED BY <1>1, <1>f, <2>1, <2>3, OneValidator
<1>2. CASE Continues(v, "previous", e) /\ cache' = cache
  <2>1. \A k \in Keys : c.left[k] \in {No, Always}
    BY <1>f, RefreshFacts
  <2>2. c.age = 0
    BY <1>f, RefreshFacts
  <2> HIDE DEF c, e
  <2>3. Sound(e)
    BY <1>0, <1>e, <2>1, <2>2 DEF Sound, Follows
  <2> QED BY <1>2, <1>e, <1>f, <2>3, ContinuesCaches
<1>3. CASE Stores(v, e)
  <2> HIDE DEF c, e
  <2>1. Follows(e, gone, rotated) /\ e.seen <= made
    BY <1>0, <1>e DEF Follows
  <2> QED BY <1>3, <1>e, <1>f, <2>1, StoresCaches
<1> QED BY <1>1, <1>2, <1>3 DEF ReadFails

LEMMA RestartCaches ==
  ASSUME KeysInv, CacheInv, NEW v \in Validators, ValidatorRestarts(v)
  PROVE  CacheInv'
<1>1. Follows(Empty, gone, rotated) /\ Empty.seen <= made /\ Empty \in CacheType
  BY EmptyFollows, EmptyFields, EmptyTyped, NumberedParts DEF KeysInv
<1> QED BY <1>1, EmptyCovers, StoresCaches DEF ValidatorRestarts, Fixed

LEMMA ReaderCaches ==
  ASSUME KeysInv, CacheInv, ReaderNext
  PROVE  CacheInv'
<1>1. ASSUME NEW s \in Signers, SignerReads(s) \/ SignerRestarts(s) PROVE CacheInv'
  <2>1. UNCHANGED <<cache, read, secret, gone, rotated, made, hasty>>
    BY <1>1 DEF SignerReads, SignerRestarts
  <2> QED BY <2>1, CacheParts, NextCaches
<1> QED BY <1>1, RefreshBeginsCaches, ReadCurrentCaches, ReadPendingCaches, ReadPreviousCaches,
           ReadDateCaches, ReadFailsCaches, RestartCaches DEF ReaderNext
-----------------------------------------------------------------------------
(* A tick *)

LEMMA AgedFields ==
  ASSUME NEW c \in CacheType
  PROVE  /\ Aged(c).age = Older(c.age) /\ Aged(c).seen = c.seen /\ Aged(c).missed = c.missed
         /\ \A k \in Keys : Aged(c).left[k] = Shorter(c.left[k])
<1> DEFINE l == [k \in Keys |-> Shorter(c.left[k])]
           a == Older(c.age)
           d == [c EXCEPT !.age = a, !.left = l]
<1>1. d.age = a /\ d.seen = c.seen /\ d.missed = c.missed /\ d.left = l
  <2> HIDE DEF a, l
  <2> QED BY DEF CacheType
<1>2. Aged(c) = d
  BY Zenon DEF Aged
<1> HIDE DEF d
<1> QED BY <1>1, <1>2

LEMMA ShorterFacts ==
  ASSUME NEW n \in Nat, n <= Always
  PROVE  /\ n = 0 => Shorter(n) = No
         /\ n \in 1..MaxStale => Shorter(n) = n - 1
         /\ n = No => Shorter(n) = No
         /\ n = Always => Shorter(n) = Always
<1>1. n = 0 => Shorter(n) = No
  <2>1. ~(0 \in 1..MaxStale)
    BY WindowFacts
  <2> QED BY <2>1 DEF Shorter
<1>2. n \in 1..MaxStale => Shorter(n) = n - 1
  <2>1. n \in 1..MaxStale => n # 0
    BY WindowFacts
  <2> QED BY <2>1, Zenon DEF Shorter
<1>3. n = No \/ n = Always => n # 0 /\ n \notin 1..MaxStale
  BY WindowFacts
<1>4. n # 0 /\ n \notin 1..MaxStale => Shorter(n) = n
  BY Zenon DEF Shorter
<1> QED BY <1>1, <1>2, <1>3, <1>4

LEMMA CachesTick ==
  ASSUME KeysInv, CacheInv, Tick
  PROVE  CacheInv'
<1>1. /\ UNCHANGED <<secret, read, made, hasty>> /\ rotated' = Older(rotated)
      /\ \A v \in Validators : cache'[v] = Aged(cache[v]) /\ read[v].at = "none"
  BY DEF Tick
<1>2. SUFFICES ASSUME NEW v \in Validators
               PROVE  Good(Aged(cache[v]), read[v], secret, gone', Older(rotated), made, hasty)
  BY <1>1, NextCaches
<1> DEFINE c == cache[v]
           d == Aged(c)
<1>3. Good(c, read[v], secret, gone, rotated, made, hasty) /\ read[v] = Resting /\ c \in CacheType
  BY <1>1, CacheParts DEF Good, Shape, KeysInv, TypeOK
<1>4. /\ d.age = Older(c.age) /\ d.seen = c.seen /\ d.missed = c.missed
      /\ \A k \in Keys : d.left[k] = Shorter(c.left[k])
  BY <1>3, AgedFields
<1>5. /\ c.age \in Ages /\ \A k \in Keys : c.left[k] \in Nat /\ c.left[k] <= Always
      /\ rotated \in Ages /\ \A k \in Keys : gone[k] \in Ages
  BY <1>3, CacheFields DEF KeysInv, TypeOK
<1>6. \A n : n \in Nat /\ n <= Always =>
        /\ n = 0 \/ n \in 1..MaxStale \/ n = No \/ n = Always
  BY WindowFacts
<1> HIDE DEF d, c
<1>7. Follows(d, gone', Older(rotated))
  <2>1. SUFFICES ASSUME NEW k \in Keys
                 PROVE  /\ d.left[k] = Always => gone'[k] <= d.age
                        /\ d.left[k] <= MaxStale => Older(rotated) + d.left[k] <= MaxStale
    BY DEF Follows
  <2>2. /\ c.left[k] = Always => gone[k] <= c.age
        /\ c.left[k] <= MaxStale => rotated + c.left[k] <= MaxStale
    BY <1>3 DEF Good, Follows, c
  <2>3. gone'[k] \in {0, Older(gone[k])}
    BY GoneTick
  <2>4. d.left[k] = Always => c.left[k] = Always
    BY <1>4, <1>5, <1>6, ShorterFacts, WindowFacts
  <2>5. d.left[k] <= MaxStale => c.left[k] \in 1..MaxStale /\ d.left[k] = c.left[k] - 1
    BY <1>4, <1>5, <1>6, ShorterFacts, WindowFacts
  <2>6. gone[k] <= c.age => gone'[k] <= Older(c.age)
    BY <1>5, <2>3, WindowFacts DEF Older
  <2>7. d.left[k] <= MaxStale => Older(rotated) + d.left[k] <= MaxStale
    BY <1>5, <2>2, <2>5, WindowFacts DEF Older
  <2> QED BY <1>4, <2>2, <2>4, <2>6, <2>7
<1>8. Follows(read[v].into, gone', Older(rotated))
  BY <1>3, EmptyFields, EmptyFollows
<1>9. Shape(d, read[v], made)
  BY <1>3, <1>4 DEF Good, Shape
<1>10. ASSUME ~hasty, ~d.missed PROVE Covers(d, secret, gone')
  <2>1. Covers(c, secret, gone)
    BY <1>3, <1>4, <1>10 DEF Good, Covered
  <2>2. /\ secret.current \in Keys /\ secret.pending \in Keys \union {None}
        /\ secret.previous \in Keys \union {None}
    BY KeyParts DEF KeysInv
  <2>3. ASSUME NEW k \in Keys \union {None}, Has(c, k) PROVE Has(d, k)
    BY <1>4, <1>5, <2>3, ShorterFacts DEF Has, Named
  <2>4. ASSUME NEW k \in Keys, k = secret.previous, Lasts(c.left[k], gone[k])
        PROVE  Lasts(d.left[k], gone'[k])
    <3>1. gone'[k] = Older(gone[k])
      BY <2>4, GoneTick
    <3>2. CASE c.left[k] = Always
      BY <1>4, <1>5, <3>2, ShorterFacts DEF Lasts
    <3>3. CASE c.left[k] = No /\ gone[k] > MaxStale
      BY <1>4, <1>5, <3>1, <3>3, ShorterFacts, WindowFacts DEF Lasts, Older
    <3>4. CASE c.left[k] = 0 /\ c.left[k] + gone[k] >= MaxStale
      BY <1>4, <1>5, <3>1, <3>4, ShorterFacts, WindowFacts DEF Lasts, Older
    <3>5. CASE c.left[k] \in 1..MaxStale /\ c.left[k] + gone[k] >= MaxStale
      BY <1>4, <1>5, <3>1, <3>5, ShorterFacts, WindowFacts DEF Lasts, Older
    <3> QED BY <1>5, <2>4, <3>2, <3>3, <3>4, <3>5, WindowFacts DEF Lasts
  <2> QED BY <1>4, <2>1, <2>2, <2>3, <2>4 DEF Covers, Named
<1>11. ~hasty => Covered(d, read[v], secret, gone')
  BY <1>3, <1>10, EmptyFields DEF Covered, Reads
<1>12. Good(d, read[v], secret, gone', Older(rotated), made, hasty)
  BY <1>7, <1>8, <1>9, <1>11 DEF Good
<1> QED BY <1>12 DEF c, d

LEMMA CachesStep ==
  ASSUME KeysInv, KeysInv', CacheInv, [Next]_keyVars
  PROVE  CacheInv'
<1>1. CASE RotationNext
  BY <1>1, RotationRelabels, CachesRotate, NumberedParts, WindowAssumption DEF KeysInv, TypeOK, Keys
<1>2. CASE UNCHANGED keyVars
  BY <1>2, CacheParts, NextCaches DEF keyVars
<1> QED BY <1>1, <1>2, NextCases, ReaderCaches, CachesTick
-----------------------------------------------------------------------------
(* Proxies *)

LEMMA SignStep ==
  ASSUME KeysInv, SignInv, [Next]_keyVars
  PROVE  SignInv'
<1>1. SUFFICES ASSUME NEW s \in Signers PROVE Warm(signer'[s], secret', gone', hasty')
  BY DEF SignInv
<1>2. Warm(signer[s], secret, gone, hasty)
  BY DEF SignInv
<1>3. /\ signer[s].key \in Keys \union {None} /\ signer[s].age \in Ages
      /\ \A k \in Keys : gone[k] \in Ages
      /\ secret.current \in Keys /\ secret.current # None
  BY KeyFacts DEF KeysInv, TypeOK
<1>4. CASE RotationNext
  <2>1. Rotates
    BY <1>4, RotationRelabels
  <2>2. signer' = signer /\ gone' = gone /\ (hasty => hasty') /\ Relabels
    BY <2>1 DEF Rotates
  <2>3. signer[s].key \in {secret.current, secret.previous} /\ signer[s].key # None /\ ~hasty =>
          \/ signer[s].key \in {secret'.current, secret'.previous}
          \/ gone[signer[s].key] > MaxStale
    BY <2>2, LabelMoves DEF Relabels, Apart
  <2> QED BY <1>2, <2>2, <2>3 DEF Warm
<1>5. CASE Tick
  <2>1. signer'[s] = [signer[s] EXCEPT !.age = Older(@)] /\ UNCHANGED <<secret, hasty>>
    BY <1>5 DEF Tick
  <2>2. signer'[s].key = signer[s].key /\ signer'[s].age = Older(signer[s].age)
    BY <2>1 DEF KeysInv, TypeOK
  <2>3. ASSUME NEW k \in Keys, NEW a \in Ages, gone[k] <= a PROVE gone'[k] <= Older(a)
    BY <1>3, <1>5, <2>3, GoneTick, WindowFacts DEF Older
  <2>4. ASSUME NEW k \in Keys, gone[k] > MaxStale PROVE gone'[k] > MaxStale
    BY <1>3, <1>5, <2>4, GoneTick, WindowFacts DEF Older
  <2>5. signer[s].key = None => Older(signer[s].age) = Never
    BY <1>2 DEF Warm, Older
  <2> QED BY <1>2, <1>3, <2>1, <2>2, <2>3, <2>4, <2>5 DEF Warm
<1>6. CASE UNCHANGED <<signer, secret, gone, hasty>>
  BY <1>2, <1>6
<1>7. ASSUME NEW q \in Signers, SignerReads(q) PROVE Warm(signer'[s], secret', gone', hasty')
  <2>1. UNCHANGED <<secret, gone, hasty>>
    BY <1>7 DEF SignerReads
  <2>2. signer'[s] = signer[s] \/ signer'[s] = [key |-> secret.current, age |-> 0]
    BY <1>7 DEF SignerReads, KeysInv, TypeOK
  <2>3. gone[secret.current] = 0
    BY <1>3 DEF KeysInv, Fresh
  <2> QED BY <1>2, <1>3, <2>1, <2>2, <2>3 DEF Warm
<1>8. ASSUME NEW q \in Signers, SignerRestarts(q) PROVE Warm(signer'[s], secret', gone', hasty')
  <2>1. UNCHANGED <<secret, gone, hasty>>
    BY <1>8 DEF SignerRestarts
  <2>2. signer'[s] = signer[s] \/ signer'[s] = [key |-> None, age |-> Never]
    BY <1>8 DEF SignerRestarts, KeysInv, TypeOK
  <2> QED BY <1>2, <2>1, <2>2 DEF Warm
<1>9. ReaderNext \/ UNCHANGED keyVars =>
        \/ \E q \in Signers : SignerReads(q) \/ SignerRestarts(q)
        \/ UNCHANGED <<signer, secret, gone, hasty>>
  BY DEF ReaderNext, keyVars, RefreshBegins, ReadCurrent, ReadPending, ReadPrevious, ReadDate,
         ReadFails, ValidatorRestarts
<1> QED BY <1>4, <1>5, <1>6, <1>7, <1>8, <1>9, NextCases
-----------------------------------------------------------------------------
(* Theorems *)

LEMMA InvariantHolds == Spec => [](KeysInv /\ CacheInv /\ SignInv)
<1>1. Init => CacheInv /\ SignInv
  <2>1. ASSUME Init PROVE CacheInv
    <3>1. KeysInv
      BY <2>1, KeysInit
    <3>2. Follows(Empty, gone, rotated) /\ Empty.seen <= made /\ Empty \in CacheType
      BY <3>1, EmptyFollows, EmptyFields, EmptyTyped, NumberedParts DEF KeysInv
    <3>3. Good(Empty, Resting, secret, gone, rotated, made, hasty)
      BY <3>1, <3>2, EmptyCovers, StoredGood
    <3> QED BY <2>1, <3>3, CacheParts DEF Init
  <2>2. Init => SignInv
    <3>1. ASSUME Init, NEW s \in Signers PROVE signer[s].key = None /\ signer[s].age = Never
      BY <3>1 DEF Init
    <3> QED BY <3>1 DEF SignInv, Warm
  <2> QED BY <2>1, <2>2
<1>2. KeysInv /\ CacheInv /\ SignInv /\ [Next]_keyVars => KeysInv' /\ CacheInv' /\ SignInv'
  BY KeysStep, CachesStep, SignStep
<1> QED BY <1>1, <1>2, KeysInit, PTL DEF Spec

(* A key that was displaced by a rotation, or cancelled, is not accepted   *)
(* by any validator's cache once the window after the displacement and     *)
(* after the last completed rotation is over: what a refresh reads between *)
(* the steps of rotations, and how it fails, makes no difference.          *)
THEOREM DisplacedKeysEnd == Spec => []DisplacedEnds
<1>1. KeysInv /\ CacheInv => DisplacedEnds
  <2>1. SUFFICES ASSUME KeysInv, CacheInv, NEW v \in Validators, NEW k \in Keys,
                        Answers(v), Accepts(v, k)
                 PROVE  gone[k] <= MaxStale \/ rotated <= MaxStale
    BY DEF DisplacedEnds
  <2>2. Follows(cache[v], gone, rotated) /\ cache[v] \in CacheType
    BY <2>1, TypeParts DEF CacheInv, KeysInv
  <2>3. cache[v].left[k] \in Nat /\ cache[v].left[k] <= Always /\ cache[v].age \in Ages
    BY <2>2, CacheFields
  <2> QED BY <2>1, <2>2, <2>3, GoneFields, WindowFacts DEF Follows, Answers, Accepts, KeysInv
<1> QED BY <1>1, InvariantHolds, PTL

(* While rotations stay further apart than the window, no warm proxy signs *)
(* with a key that a validator refuses: every key that can still sign is   *)
(* current, or previous with its deadline ahead, in every cache that was   *)
(* read without a miss since the key was made.                             *)
THEOREM OverlapHolds == Spec => []OverlapCovers
<1>1. KeysInv /\ CacheInv /\ SignInv => OverlapCovers
  <2>1. SUFFICES ASSUME KeysInv, CacheInv, SignInv, ~hasty, NEW s \in Signers, NEW v \in Validators,
                        Signs(s), Answers(v), ~cache[v].missed, signer[s].key <= cache[v].seen
                 PROVE  Accepts(v, signer[s].key)
    BY DEF OverlapCovers
  <2> DEFINE k == signer[s].key
  <2>2. Warm(signer[s], secret, gone, hasty) /\ Covers(cache[v], secret, gone)
    BY <2>1 DEF SignInv, CacheInv, Covered
  <2>3. signer[s].age \in Nat /\ signer[s].age <= MaxStale /\ k \in Keys \union {None}
    BY <2>1, WindowFacts DEF Signs, KeysInv, TypeOK
  <2>4. k # None /\ k \in Keys
    BY <2>2, <2>3, WindowFacts DEF Warm
  <2>5. gone[k] \in Nat /\ gone[k] <= signer[s].age
    BY <2>1, <2>2, <2>4, GoneFields DEF Warm, KeysInv
  <2>6. k \in {secret.current, secret.previous}
    BY <2>1, <2>2, <2>3, <2>4, <2>5, WindowFacts DEF Warm
  <2>7. Named(cache[v], k)
    BY <2>1, <2>4 DEF Named
  <2>8. cache[v].left[k] = Always \/ Lasts(cache[v].left[k], gone[k])
    BY <2>2, <2>6, <2>7 DEF Covers, Has
  <2>9. cache[v].left[k] # No
    BY <2>3, <2>5, <2>8, WindowFacts DEF Lasts
  <2> QED BY <2>9 DEF Accepts
<1> QED BY <1>1, InvariantHolds, PTL
=============================================================================

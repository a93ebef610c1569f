------------------------- MODULE ReconciliationProofs -------------------------
(***************************************************************************)
(* How often a scan is reconciled, for all constants: at most once for each *)
(* time its name is given away; from that the number of its ConfigMaps, and *)
(* that the controller implements the lifecycle of a scan.                  *)
(***************************************************************************)
EXTENDS ComplianceScanProofs, FiniteSetTheorems, NaturalsInduction,
        WellFoundedInduction

-----------------------------------------------------------------------------
(* What lies ahead of a scan. *)

One(b) == IF b THEN 1 ELSE 0

\* What the cache holds when the i-th event on the way arrives.
Prior(s, i) == IF i = 1 THEN cache[s] ELSE watch[s][i - 1]

\* The events on the way that the predicate lets pass.
Creates(s) == {i \in 1..Len(watch[s]) : Predicate(Prior(s, i), watch[s][i])}

Created(s) == Cardinality(Creates(s))

\* The reconciliations of s that are on the way, queued or running.
Pending(s) == Created(s) + One(s \in queue) + One(pc[s] # "idle")

IsNew(o) == o # NoScan /\ ~AlreadyProcessed(o)

\* A worker that reads the cache, now or later, may still find s unprocessed.
MayLookNew(s) == IsNew(cache[s]) \/ \E i \in 1..Len(watch[s]) : IsNew(watch[s][i])

\* What the cache will hold when nothing is on the way any more.
Latest(s) == IF watch[s] = << >> THEN cache[s] ELSE watch[s][Len(watch[s])]

\* The informer ends up with what the API server has.
CatchesUp(s) == Latest(s) = scan[s]

PendingBounded(s) == CatchesUp(s) /\ Pending(s) <= incarnation[s]

-----------------------------------------------------------------------------
(* ConfigMaps. *)

Stored(s, u) == scan[s] # NoScan /\ scan[s].uid = u

\* The worker has created the ConfigMap of u, and nothing failed since.
Configures(s, u) == pc[s] = "completed" /\ obj[s].uid = u /\ ~expired[s]

\* How many ConfigMaps for u are still to come, without further failures.
Ahead(s, u) ==
  IF ~Stored(s, u) THEN One(pc[s] = "deploy" /\ obj[s].uid = u)
  ELSE IF ~MayLookNew(s) THEN One(pc[s] \in {"running", "deploy"})
  ELSE Created(s) + One(s \in queue)
         + One(pc[s] # "idle" /\ ~Configures(s, u))

CountedFor(s, u) == configMaps[s][u] + Ahead(s, u) <= incarnation[s] + faults

UnusedIsUnconfigured(s) ==
  \A u \in 0..MaxIncarnations : u > incarnation[s] => configMaps[s][u] = 0

NewIsUnconfigured(s) ==
  IsNew(scan[s]) => /\ configMaps[s][scan[s].uid] = 0
                    /\ ~(pc[s] = "deploy" /\ obj[s].uid = scan[s].uid)

ConfigMapsCounted(s) == /\ \A u \in 0..MaxIncarnations : CountedFor(s, u)
                        /\ UnusedIsUnconfigured(s)
                        /\ NewIsUnconfigured(s)

\* What holds of each name of a scan, next to InductiveInvariant.
KeyInvariant(s) == PendingBounded(s) /\ ConfigMapsCounted(s)

-----------------------------------------------------------------------------
(* Events on the way. *)

LEMMA OneValue == One(TRUE) = 1 /\ One(FALSE) = 0 /\ \A b : One(b) \in {0, 1}
BY DEF One

LEMMA LeastNumber ==
  ASSUME NEW T \in SUBSET Nat, T # {}
  PROVE  \E i \in T : \A j \in T : ~(j < i)
<1> DEFINE Less == {ss \in Nat \X Nat : ss[1] < ss[2]}
<1>1. IsWellFoundedOn(Less, Nat)
  BY NatLessThanWellFounded, Zenon DEF OpToRel
<1>2. PICK i \in T : \A j \in T : <<j, i>> \notin Less
  <2> HIDE DEF Less
  <2> QED BY <1>1, WFMin
<1>3. \A j \in T : ~(j < i)
  BY <1>2
<1> QED BY <1>3

LEMMA AppendValue ==
  ASSUME NEW S, NEW q \in Seq(S), NEW o \in S, NEW k \in Nat, k = Len(q)
  PROVE  /\ Len(Append(q, o)) = k + 1
         /\ \A i \in 1..k : Append(q, o)[i] = q[i]
         /\ Append(q, o)[k + 1] = o
         /\ Append(q, o) # << >>
         /\ k = 0 <=> q = << >>
OBVIOUS

LEMMA TailValue ==
  ASSUME NEW S, NEW q \in Seq(S), q # << >>, NEW k \in Nat \ {0}, k = Len(q)
  PROVE  /\ Len(Tail(q)) = k - 1
         /\ \A i \in 1..k - 1 : Tail(q)[i] = q[i + 1]
         /\ Head(q) = q[1]
         /\ Tail(q) \in Seq(S)
         /\ k - 1 = 0 <=> Tail(q) = << >>
<1>1. Tail(q) \in Seq(S) /\ Len(Tail(q)) = k - 1
  OBVIOUS
<1>2. \A i \in 1..k - 1 : Tail(q)[i] = q[i + 1]
  OBVIOUS
<1>3. Head(q) = q[1]
  OBVIOUS
<1>4. k - 1 = 0 <=> Tail(q) = << >>
  <2>1. \A t \in Seq(S) : Len(t) = 0 <=> t = << >>
    OBVIOUS
  <2> QED BY <1>1, <2>1
<1> QED BY <1>1, <1>2, <1>3, <1>4

LEMMA CreatedIsCount ==
  ASSUME NEW s, NEW S, watch[s] \in Seq(S)
  PROVE  IsFiniteSet(Creates(s)) /\ Created(s) \in Nat
<1>1. IsFiniteSet(1..Len(watch[s]))
  <2>1. Len(watch[s]) \in Int
    OBVIOUS
  <2> QED BY <2>1, FS_Interval
<1>2. Creates(s) \subseteq 1..Len(watch[s])
  BY DEF Creates
<1>3. IsFiniteSet(Creates(s))
  BY <1>1, <1>2, FS_Subset
<1> QED BY <1>3, FS_CardinalityType DEF Created

\* Steps that concern neither the watch nor the cache of a scan.
LEMMA EventsKept ==
  ASSUME NEW s, watch'[s] = watch[s], cache'[s] = cache[s]
  PROVE  /\ Created(s)' = Created(s)
         /\ MayLookNew(s)' <=> MayLookNew(s)
         /\ Latest(s)' = Latest(s)
<1>1. Creates(s)' = Creates(s)
  BY DEF Creates, Prior
<1> QED BY <1>1 DEF Created, MayLookNew, Latest

\* The API server's change of s to o.
LEMMA EventAdded ==
  ASSUME NEW s, NEW S, watch[s] \in Seq(S), NEW o \in S,
         watch'[s] = Append(watch[s], o), cache'[s] = cache[s]
  PROVE  /\ Created(s)' = Created(s) + One(Predicate(Latest(s), o))
         /\ MayLookNew(s)' <=> MayLookNew(s) \/ IsNew(o)
         /\ Latest(s)' = o
<1>0. PICK k \in Nat : k = Len(watch[s])
  OBVIOUS
<1>1. /\ Len(watch'[s]) = k + 1
      /\ \A i \in 1..k : watch'[s][i] = watch[s][i]
      /\ watch'[s][k + 1] = o
      /\ watch'[s] # << >>
      /\ k = 0 <=> watch[s] = << >>
  BY <1>0, AppendValue
<1>2. /\ 1..Len(watch'[s]) = 1..k \cup {k + 1}
      /\ k + 1 \notin 1..k
  BY <1>0, <1>1
<1>3. \A i \in 1..k : Prior(s, i)' = Prior(s, i)
  <2> TAKE i \in 1..k
  <2>1. CASE i = 1
    BY <2>1 DEF Prior
  <2>2. CASE i # 1
    <3>1. i - 1 \in 1..k
      BY <1>0, <1>1, <2>2
    <3>2. watch'[s][i - 1] = watch[s][i - 1]
      BY <1>0, <1>1, <3>1
    <3> QED BY <2>2, <3>2 DEF Prior
  <2> QED BY <2>1, <2>2
<1>4. Prior(s, k + 1)' = Latest(s)
  <2>1. CASE k = 0
    BY <1>0, <1>1, <2>1 DEF Prior, Latest
  <2>2. CASE k # 0
    <3>1. k + 1 # 1 /\ k + 1 - 1 = k /\ k \in 1..k
      BY <1>0, <1>1, <2>2
    <3>2. watch'[s][k] = watch[s][k]
      BY <1>0, <1>1, <3>1
    <3> QED BY <1>0, <1>1, <2>2, <3>1, <3>2 DEF Prior, Latest
  <2> QED BY <2>1, <2>2
<1>5. Creates(s)' = Creates(s) \cup {i \in {k + 1} : Predicate(Latest(s), o)}
  <2>1. \A i \in 1..k : i \in Creates(s)' <=> i \in Creates(s)
    BY <1>0, <1>1, <1>2, <1>3 DEF Creates
  <2>2. k + 1 \in Creates(s)' <=> Predicate(Latest(s), o)
    BY <1>0, <1>1, <1>2, <1>4 DEF Creates
  <2>3. Creates(s) \subseteq 1..k /\ Creates(s)' \subseteq 1..k \cup {k + 1}
    BY <1>0, <1>2 DEF Creates
  <2> QED BY <1>2, <2>1, <2>2, <2>3
<1>6. IsFiniteSet(Creates(s)) /\ Created(s) \in Nat
  BY CreatedIsCount
<1>7. Created(s)' = Created(s) + One(Predicate(Latest(s), o))
  <2>1. CASE Predicate(Latest(s), o)
    <3>1. Creates(s)' = Creates(s) \cup {k + 1}
      BY <1>5, <2>1
    <3>2. k + 1 \notin Creates(s)
      BY <1>0, <1>2 DEF Creates
    <3>3. Cardinality(Creates(s) \cup {k + 1}) = Cardinality(Creates(s)) + 1
      BY <1>6, <3>2, FS_AddElement
    <3> QED BY <2>1, <3>1, <3>3, OneValue DEF Created
  <2>2. CASE ~Predicate(Latest(s), o)
    <3>1. Creates(s)' = Creates(s) /\ One(Predicate(Latest(s), o)) = 0
      BY <1>5, <2>2 DEF One
    <3> QED BY <1>6, <3>1 DEF Created
  <2> QED BY <2>1, <2>2
<1>8. MayLookNew(s)' <=> MayLookNew(s) \/ IsNew(o)
  BY <1>0, <1>1, <1>2 DEF MayLookNew, IsNew, AlreadyProcessed
<1>9. Latest(s)' = o
  BY <1>0, <1>1 DEF Latest
<1> QED BY <1>7, <1>8, <1>9

\* The informer takes the first event from the watch.
LEMMA EventTaken ==
  ASSUME NEW s, NEW S, watch[s] \in Seq(S), watch[s] # << >>,
         watch'[s] = Tail(watch[s]), cache'[s] = Head(watch[s])
  PROVE  /\ Created(s)' \in Nat
         /\ Created(s) = Created(s)' + One(Predicate(cache[s], Head(watch[s])))
         /\ MayLookNew(s)' => MayLookNew(s)
         /\ Latest(s)' = Latest(s)
<1> DEFINE f == [i \in Creates(s)' |-> i + 1]
<1>0. PICK k \in Nat \ {0} : k = Len(watch[s])
  OBVIOUS
<1>1. /\ k \in Nat \ {0}
      /\ Len(watch'[s]) = k - 1
      /\ \A i \in 1..k - 1 : watch'[s][i] = watch[s][i + 1]
      /\ Head(watch[s]) = watch[s][1]
      /\ watch'[s] \in Seq(S)
      /\ k - 1 = 0 <=> watch'[s] = << >>
  <2>1. /\ Len(Tail(watch[s])) = k - 1
        /\ \A i \in 1..k - 1 : Tail(watch[s])[i] = watch[s][i + 1]
        /\ Head(watch[s]) = watch[s][1]
        /\ Tail(watch[s]) \in Seq(S)
        /\ k - 1 = 0 <=> Tail(watch[s]) = << >>
    BY <1>0, TailValue
  <2> QED BY <2>1
<1>2. \A i \in 1..k - 1 : Prior(s, i)' = Prior(s, i + 1)
  <2> TAKE i \in 1..k - 1
  <2>0. i + 1 # 1 /\ i + 1 - 1 = i
    BY <1>0, <1>1
  <2>1. CASE i = 1
    BY <1>0, <1>1, <2>0, <2>1 DEF Prior
  <2>2. CASE i # 1
    <3>1. i - 1 \in 1..k - 1 /\ i - 1 + 1 = i
      BY <1>0, <1>1, <2>2
    <3>2. watch'[s][i - 1] = watch[s][i]
      BY <1>0, <1>1, <3>1
    <3>3. Prior(s, i)' = watch'[s][i - 1]
      BY <2>2, Zenon DEF Prior
    <3>4. Prior(s, i + 1) = watch[s][i]
      BY <2>0 DEF Prior
    <3> QED BY <3>2, <3>3, <3>4
  <2> QED BY <2>1, <2>2
<1>3. \A i \in 1..k - 1 : i \in Creates(s)' <=> i + 1 \in Creates(s)
  <2> TAKE i \in 1..k - 1
  <2>1. i \in 1..Len(watch'[s]) /\ i + 1 \in 1..k
    BY <1>0, <1>1
  <2> QED BY <1>0, <1>1, <1>2, <2>1 DEF Creates
<1>4. Creates(s) \subseteq 1..k /\ Creates(s)' \subseteq 1..k - 1
  BY <1>0, <1>1 DEF Creates
<1>5. f \in Bijection(Creates(s)', Creates(s) \ {1})
  <2>1. \A i \in Creates(s)' : i \in 1..k - 1 /\ i + 1 \in Creates(s) \ {1}
    BY <1>0, <1>1, <1>3, <1>4
  <2>2. ASSUME NEW j \in Creates(s) \ {1}
        PROVE  \E i \in Creates(s)' : i + 1 = j
    <3>1. j - 1 \in 1..k - 1 /\ j - 1 + 1 = j
      BY <1>0, <1>1, <1>4
    <3>2. j - 1 \in Creates(s)'
      BY <1>3, <3>1
    <3> QED BY <3>1, <3>2
  <2>3. f \in [Creates(s)' -> Creates(s) \ {1}]
    BY <2>1
  <2>4. \A i, j \in Creates(s)' : f[i] = f[j] => i = j
    BY <1>0, <1>1, <2>1
  <2>5. \A j \in Creates(s) \ {1} : \E i \in Creates(s)' : f[i] = j
    BY <2>2
  <2> HIDE DEF f
  <2> QED BY <2>3, <2>4, <2>5 DEF Bijection, Injection, Surjection, IsInjective
<1>6. /\ IsFiniteSet(Creates(s)) /\ Created(s) \in Nat
      /\ IsFiniteSet(Creates(s)') /\ Created(s)' \in Nat
  <2>1. IsFiniteSet(Creates(s)) /\ Created(s) \in Nat
    BY CreatedIsCount
  <2>2. IsFiniteSet(1..k - 1)
    BY <1>0, <1>1, FS_Interval
  <2>3. IsFiniteSet(Creates(s)')
    BY <1>4, <2>2, FS_Subset
  <2> QED BY <2>1, <2>3, FS_CardinalityType DEF Created
<1>7. Cardinality(Creates(s) \ {1}) = Cardinality(Creates(s)')
  <2> HIDE DEF f
  <2> QED BY <1>5, <1>6, FS_Bijection DEF ExistsBijection
<1>8. 1 \in Creates(s) <=> Predicate(cache[s], Head(watch[s]))
  BY <1>0, <1>1 DEF Creates, Prior
<1>9. Created(s) = Created(s)' + One(Predicate(cache[s], Head(watch[s])))
  <2>1. Cardinality(Creates(s) \ {1}) =
          IF 1 \in Creates(s) THEN Cardinality(Creates(s)) - 1
                              ELSE Cardinality(Creates(s))
    BY <1>6, FS_RemoveElement
  <2> QED BY <1>6, <1>7, <1>8, <2>1 DEF One, Created
<1>10. MayLookNew(s)' => MayLookNew(s)
  <2>1. 1 \in 1..k /\ \A i \in 1..k - 1 : i + 1 \in 1..k
    BY <1>0, <1>1
  <2> QED BY <1>0, <1>1, <2>1 DEF MayLookNew, IsNew, AlreadyProcessed
<1>11. Latest(s)' = Latest(s)
  <2>1. CASE k = 1
    BY <1>0, <1>1, <2>1 DEF Latest
  <2>2. CASE k # 1
    <3>1. k - 1 \in 1..k - 1 /\ k - 1 + 1 = k
      BY <1>0, <1>1, <2>2
    <3>2. watch'[s][k - 1] = watch[s][k]
      BY <1>0, <1>1, <3>1
    <3> QED BY <1>0, <1>1, <2>2, <3>2 DEF Latest
  <2> QED BY <2>1, <2>2
<1> QED BY <1>6, <1>9, <1>10, <1>11

\* A list of all scans, by a restarted operator or after a broken watch.
LEMMA EventsListed ==
  ASSUME NEW s, NEW S, watch[s] \in Seq(S), CatchesUp(s), watch'[s] = << >>,
         cache'[s] = scan[s], scan'[s] = scan[s]
  PROVE  /\ Created(s)' = 0
         /\ MayLookNew(s)' <=> IsNew(scan[s])
         /\ CatchesUp(s)'
         /\ IsNew(scan[s]) => MayLookNew(s)
         /\ Predicate(cache[s], scan[s]) => Created(s) > 0
<1>0. PICK k \in Nat : k = Len(watch[s]) /\ (k = 0 <=> watch[s] = << >>)
  OBVIOUS
<1>1. Created(s)' = 0
  <2>1. 1..Len(watch'[s]) = {}
    OBVIOUS
  <2>2. Creates(s)' = {}
    BY <2>1 DEF Creates
  <2> QED BY <2>2, FS_EmptySet DEF Created
<1>2. MayLookNew(s)' <=> IsNew(scan[s])
  <2>1. 1..Len(watch'[s]) = {}
    OBVIOUS
  <2> QED BY <2>1 DEF MayLookNew, IsNew, AlreadyProcessed
<1>3. CatchesUp(s)'
  BY DEF CatchesUp, Latest
<1>4. IsNew(scan[s]) => MayLookNew(s)
  <2>1. CASE k = 0
    BY <1>0, <2>1 DEF CatchesUp, Latest, MayLookNew
  <2>2. CASE k # 0
    <3>1. k \in 1..Len(watch[s])
      BY <1>0, <2>2
    <3> QED BY <1>0, <2>2, <3>1 DEF CatchesUp, Latest, MayLookNew
  <2> QED BY <2>1, <2>2
<1>5. ASSUME Predicate(cache[s], scan[s])
      PROVE  Created(s) > 0
  <2> DEFINE Present == {i \in 1..k : watch[s][i] # NoScan}
  <2>1. cache[s] = NoScan /\ scan[s] # NoScan
    BY <1>5 DEF Predicate
  <2>2. k # 0 /\ watch[s][k] # NoScan
    BY <1>0, <2>1 DEF CatchesUp, Latest
  <2>3. Present # {} /\ Present \subseteq Nat
    <3>1. k \in 1..k
      BY <2>2
    <3> QED BY <2>2, <3>1
  <2>4. PICK i \in Present : \A j \in Present : ~(j < i)
    <3> HIDE DEF Present
    <3> QED BY <2>3, LeastNumber
  <2>5. i \in 1..k /\ watch[s][i] # NoScan
    OBVIOUS
  <2>6. Prior(s, i) = NoScan
    <3>1. CASE i = 1
      BY <2>1, <3>1 DEF Prior
    <3>2. CASE i # 1
      <4>1. i - 1 \in 1..k /\ i - 1 < i
        BY <2>5, <3>2
      <4>2. i - 1 \notin Present
        BY <2>4, <4>1
      <4> QED BY <3>2, <4>1, <4>2 DEF Prior
    <3> QED BY <3>1, <3>2
  <2>7. i \in Creates(s)
    BY <1>0, <2>5, <2>6 DEF Creates, Predicate
  <2> QED BY <2>7, CreatedIsCount, FS_EmptySet DEF Created
<1> QED BY <1>1, <1>2, <1>3, <1>4, <1>5

-----------------------------------------------------------------------------
(* The counts. *)

LEMMA KeyTypes ==
  ASSUME InductiveInvariant, NEW s \in Scans
  PROVE  /\ watch[s] \in Seq(Objects)
         /\ scan[s] \in Objects /\ cache[s] \in Objects /\ obj[s] \in Objects
         /\ incarnation[s] \in 0..MaxIncarnations
         /\ incarnation[s] \in Nat
         /\ faults \in Nat
         /\ scan[s] # NoScan => scan[s].uid \in 1..incarnation[s]
         /\ obj[s].uid \in 0..incarnation[s]
         /\ pc[s] \in {"idle", "get", "running", "deploy", "completed", "failed"}
         /\ \A u \in 0..MaxIncarnations : configMaps[s][u] \in Nat
         /\ Created(s) \in Nat
         /\ Pending(s) \in Nat
         /\ \A u : Ahead(s, u) \in Nat
<1> USE DEF InductiveInvariant
<1>1. /\ watch[s] \in Seq(Objects)
      /\ scan[s] \in Objects /\ cache[s] \in Objects /\ obj[s] \in Objects
      /\ incarnation[s] \in 0..MaxIncarnations
      /\ incarnation[s] \in Nat
      /\ faults \in Nat
      /\ pc[s] \in {"idle", "get", "running", "deploy", "completed", "failed"}
  BY BoundsAssumption DEF TypeOK
<1>2. \A u \in 0..MaxIncarnations : configMaps[s][u] \in Nat
  <2>1. configMaps[s] \in [0..MaxIncarnations -> Nat]
    BY DEF TypeOK
  <2> QED BY <2>1
<1>3. scan[s] # NoScan => scan[s].uid \in 1..incarnation[s]
  BY DEF CopiesOK, CopyOK
<1>4. obj[s].uid \in 0..incarnation[s]
  <2>1. NoScan.uid = 0
    BY DEF NoScan, NewScan
  <2> QED BY <1>1, <2>1 DEF CopiesOK, CopyOK
<1>5. Created(s) \in Nat
  BY <1>1, CreatedIsCount
<1>6. Pending(s) \in Nat
  BY <1>5, OneValue DEF Pending, One
<1>7. \A u : Ahead(s, u) \in Nat
  BY <1>5 DEF Ahead, One
<1> QED BY <1>1, <1>2, <1>3, <1>4, <1>5, <1>6, <1>7

\* A step that leaves a name alone may still add to the failures.
LEMMA KeyKept ==
  ASSUME InductiveInvariant, NEW s \in Scans, KeyInvariant(s),
         scan'[s] = scan[s], incarnation'[s] = incarnation[s],
         configMaps'[s] = configMaps[s], watch'[s] = watch[s],
         cache'[s] = cache[s], s \in queue' <=> s \in queue, pc'[s] = pc[s],
         obj'[s] = obj[s], expired'[s] = expired[s],
         faults' \in Nat, faults <= faults'
  PROVE  KeyInvariant(s)'
<1>1. /\ Created(s)' = Created(s)
      /\ MayLookNew(s)' <=> MayLookNew(s)
      /\ Latest(s)' = Latest(s)
  BY EventsKept
<1>2. PendingBounded(s)'
  BY <1>1 DEF KeyInvariant, PendingBounded, CatchesUp, Pending, One
<1>3. \A u : Ahead(s, u)' = Ahead(s, u)
  BY <1>1 DEF Ahead, Stored, Configures, One
<1>4. ASSUME NEW u \in 0..MaxIncarnations
      PROVE  CountedFor(s, u)'
  <2>1. CountedFor(s, u)
    BY DEF KeyInvariant, ConfigMapsCounted
  <2>2. /\ configMaps[s][u] \in Nat /\ Ahead(s, u) \in Nat
        /\ incarnation[s] \in Nat /\ faults \in Nat
    BY KeyTypes
  <2> QED BY <1>3, <2>1, <2>2 DEF CountedFor
<1>5. UnusedIsUnconfigured(s)' /\ NewIsUnconfigured(s)'
  BY DEF KeyInvariant, ConfigMapsCounted, UnusedIsUnconfigured,
         NewIsUnconfigured, IsNew, AlreadyProcessed
<1> QED BY <1>2, <1>4, <1>5 DEF KeyInvariant, ConfigMapsCounted

(***************************************************************************)
(* A step that creates no ConfigMap: it may lead to one more only with a    *)
(* failure.                                                                 *)
(***************************************************************************)
LEMMA CountKept ==
  ASSUME InductiveInvariant, NEW s \in Scans, KeyInvariant(s),
         NEW u \in 0..MaxIncarnations, configMaps'[s][u] = configMaps[s][u],
         incarnation'[s] = incarnation[s], Ahead(s, u)' \in Nat,
         \/ /\ Ahead(s, u)' <= Ahead(s, u)
            /\ faults' \in Nat /\ faults <= faults'
         \/ /\ Ahead(s, u)' <= Ahead(s, u) + 1
            /\ faults' = faults + 1
  PROVE  CountedFor(s, u)'
<1>1. configMaps[s][u] + Ahead(s, u) <= incarnation[s] + faults
  BY DEF CountedFor, KeyInvariant, ConfigMapsCounted
<1>2. /\ configMaps[s][u] \in Nat /\ Ahead(s, u) \in Nat
      /\ incarnation[s] \in Nat /\ faults \in Nat
  BY KeyTypes
<1> QED BY <1>1, <1>2 DEF CountedFor

-----------------------------------------------------------------------------
(* What each action does to the counts of its own name. *)

LEMMA CreateScanCounts ==
  ASSUME InductiveInvariant, NEW s \in Scans, KeyInvariant(s), CreateScan(s)
  PROVE  KeyInvariant(s)'
<1>0. PICK n : n = incarnation[s] + 1
  OBVIOUS
<1>1. /\ n \in 1..MaxIncarnations /\ n \in Nat /\ incarnation[s] < n
      /\ incarnation'[s] = n /\ faults' = faults
  <2>1. incarnation[s] < MaxIncarnations /\ faults' = faults
    BY DEF CreateScan
  <2>2. incarnation'[s] = n
    BY <1>0 DEF CreateScan, InductiveInvariant, TypeOK
  <2> QED BY <1>0, <2>1, <2>2, KeyTypes, BoundsAssumption
<1>2. /\ NewScan(n) \in Objects /\ NewScan(n) # NoScan
      /\ NewScan(n).uid = n /\ NewScan(n).phase = ""
  BY <1>1, NewScanValue
<1>3. /\ scan[s] = NoScan /\ scan'[s] = NewScan(n)
      /\ watch'[s] = Append(watch[s], NewScan(n)) /\ cache'[s] = cache[s]
      /\ configMaps' = configMaps /\ pc' = pc /\ obj' = obj
      /\ expired' = expired /\ queue' = queue
  BY <1>0 DEF CreateScan, Store, workerVars, InductiveInvariant, TypeOK
<1>4. /\ Created(s)' = Created(s) + One(Predicate(Latest(s), NewScan(n)))
      /\ MayLookNew(s)'
      /\ Latest(s)' = NewScan(n)
  <2>1. IsNew(NewScan(n))
    BY <1>2 DEF IsNew, AlreadyProcessed
  <2> QED BY <1>2, <1>3, <2>1, KeyTypes, EventAdded
<1>5. PendingBounded(s)'
  BY <1>0, <1>3, <1>4, <1>1, KeyTypes
     DEF KeyInvariant, PendingBounded, CatchesUp, Pending, One
<1>6. ASSUME NEW u \in 0..MaxIncarnations
      PROVE  CountedFor(s, u)'
  <2>1. CASE u = n
    <3>1. configMaps'[s][u] = 0
      BY <1>1, <1>3, <2>1 DEF KeyInvariant, ConfigMapsCounted, UnusedIsUnconfigured
    <3>0. Created(s)' \in Nat
      BY <1>4, KeyTypes, OneValue DEF One
    <3>2. Ahead(s, u)' <= Pending(s)'
      <4>1. Stored(s, u)' /\ MayLookNew(s)'
        BY <1>2, <1>3, <1>4, <2>1 DEF Stored
      <4> QED BY <3>0, <4>1 DEF Ahead, Pending, One
    <3>3. Pending(s)' \in Nat /\ Ahead(s, u)' \in Nat
      BY <3>0 DEF Pending, Ahead, One
    <3> QED BY <1>1, <1>5, <3>1, <3>2, <3>3, KeyTypes DEF CountedFor, PendingBounded
  <2>2. CASE u # n
    <3>1. ~Stored(s, u) /\ ~Stored(s, u)'
      BY <1>2, <1>3, <2>2 DEF Stored
    <3>2. Ahead(s, u)' = Ahead(s, u)
      BY <1>3, <3>1 DEF Ahead, One
    <3>3. /\ CountedFor(s, u) /\ Ahead(s, u) \in Nat
          /\ configMaps[s][u] \in Nat /\ incarnation[s] \in Nat /\ faults \in Nat
      BY KeyTypes DEF KeyInvariant, ConfigMapsCounted
    <3> QED BY <1>1, <1>3, <3>2, <3>3 DEF CountedFor
  <2> QED BY <2>1, <2>2
<1>7. UnusedIsUnconfigured(s)'
  BY <1>1, <1>3, KeyTypes DEF KeyInvariant, ConfigMapsCounted, UnusedIsUnconfigured
<1>8. NewIsUnconfigured(s)'
  <2>1. configMaps[s][n] = 0 /\ obj[s].uid # n
    BY <1>1, KeyTypes DEF KeyInvariant, ConfigMapsCounted, UnusedIsUnconfigured
  <2> QED BY <1>2, <1>3, <2>1 DEF NewIsUnconfigured
<1> QED BY <1>5, <1>6, <1>7, <1>8 DEF KeyInvariant, ConfigMapsCounted

LEMMA DeleteScanCounts ==
  ASSUME InductiveInvariant, NEW s \in Scans, KeyInvariant(s), DeleteScan(s)
  PROVE  KeyInvariant(s)'
<1>1. /\ scan'[s] = NoScan
      /\ watch'[s] = Append(watch[s], NoScan) /\ cache'[s] = cache[s]
      /\ configMaps' = configMaps /\ pc' = pc /\ obj' = obj
      /\ expired' = expired /\ queue' = queue /\ faults' = faults
      /\ incarnation' = incarnation
  BY DEF DeleteScan, Store, workerVars, InductiveInvariant, TypeOK
<1>2. Created(s)' = Created(s) /\ Latest(s)' = NoScan
  <2>1. /\ Created(s)' = Created(s) + One(Predicate(Latest(s), NoScan))
        /\ Latest(s)' = NoScan
    <3>1. watch[s] \in Seq(Objects) /\ NoScan \in Objects
      BY KeyTypes, NewScanValue
    <3> QED BY <1>1, <3>1, EventAdded
  <2> QED BY <2>1, KeyTypes DEF Predicate, One
<1>3. PendingBounded(s)'
  BY <1>1, <1>2 DEF KeyInvariant, PendingBounded, CatchesUp, Pending, One
<1>4. ASSUME NEW u \in 0..MaxIncarnations
      PROVE  CountedFor(s, u)'
  <2>1. Ahead(s, u)' <= Ahead(s, u) /\ Ahead(s, u)' \in Nat
    BY <1>1, KeyTypes DEF Ahead, Stored, Configures, One
  <2>2. faults' = faults /\ faults \in Nat
    BY <1>1, KeyTypes
  <2>3. faults' \in Nat /\ faults <= faults'
    BY <2>2
  <2> QED BY <1>1, <2>1, <2>3, CountKept
<1>5. UnusedIsUnconfigured(s)' /\ NewIsUnconfigured(s)'
  BY <1>1 DEF KeyInvariant, ConfigMapsCounted, UnusedIsUnconfigured,
              NewIsUnconfigured, IsNew
<1> QED BY <1>3, <1>4, <1>5 DEF KeyInvariant, ConfigMapsCounted

LEMMA DeliverCounts ==
  ASSUME InductiveInvariant, NEW s \in Scans, KeyInvariant(s), Deliver(s)
  PROVE  KeyInvariant(s)'
<1>1. /\ watch[s] # << >> /\ watch'[s] = Tail(watch[s])
      /\ cache'[s] = Head(watch[s])
      /\ scan' = scan /\ configMaps' = configMaps /\ pc' = pc /\ obj' = obj
      /\ expired' = expired /\ faults' = faults /\ incarnation' = incarnation
      /\ s \in queue' <=> s \in queue \/ Predicate(cache[s], Head(watch[s]))
  BY DEF Deliver, workerVars, InductiveInvariant, TypeOK
<1>2. /\ Created(s)' \in Nat
      /\ Created(s) = Created(s)' + One(Predicate(cache[s], Head(watch[s])))
      /\ MayLookNew(s)' => MayLookNew(s)
      /\ Latest(s)' = Latest(s)
  BY <1>1, KeyTypes, EventTaken
<1>3. PendingBounded(s)'
  BY <1>1, <1>2, KeyTypes
     DEF KeyInvariant, PendingBounded, CatchesUp, Pending, One
<1>4. ASSUME NEW u \in 0..MaxIncarnations
      PROVE  CountedFor(s, u)'
  <2>1. Ahead(s, u)' <= Ahead(s, u) /\ Ahead(s, u)' \in Nat
    BY <1>1, <1>2, KeyTypes DEF Ahead, Stored, Configures, One
  <2>2. faults' = faults /\ faults \in Nat
    BY <1>1, KeyTypes
  <2>3. faults' \in Nat /\ faults <= faults'
    BY <2>2
  <2> QED BY <1>1, <2>1, <2>3, CountKept
<1>5. UnusedIsUnconfigured(s)' /\ NewIsUnconfigured(s)'
  BY <1>1 DEF KeyInvariant, ConfigMapsCounted, UnusedIsUnconfigured,
              NewIsUnconfigured, IsNew, AlreadyProcessed
<1> QED BY <1>3, <1>4, <1>5 DEF KeyInvariant, ConfigMapsCounted

\* After a broken watch; the scans replaced meanwhile are never queued.
LEMMA RelistCounts ==
  ASSUME InductiveInvariant, NEW s \in Scans, KeyInvariant(s), Relist
  PROVE  KeyInvariant(s)'
<1>1. /\ watch'[s] = << >> /\ cache'[s] = scan[s]
      /\ scan' = scan /\ configMaps' = configMaps /\ pc' = pc /\ obj' = obj
      /\ expired' = expired /\ incarnation' = incarnation
      /\ faults' = faults + 1
      /\ s \in queue' <=> s \in queue \/ Predicate(cache[s], scan[s])
  BY DEF Relist, Fault, workerVars
<1>2. /\ Created(s)' = 0
      /\ MayLookNew(s)' => MayLookNew(s)
      /\ CatchesUp(s)'
      /\ Predicate(cache[s], scan[s]) => Created(s) > 0
  <2>1. scan'[s] = scan[s] /\ CatchesUp(s)
    BY <1>1 DEF KeyInvariant, PendingBounded
  <2> QED BY <1>1, <2>1, KeyTypes, EventsListed
<1>3. PendingBounded(s)'
  BY <1>1, <1>2, KeyTypes DEF KeyInvariant, PendingBounded, Pending, One
<1>4. ASSUME NEW u \in 0..MaxIncarnations
      PROVE  CountedFor(s, u)'
  <2>1. Ahead(s, u)' <= Ahead(s, u) /\ Ahead(s, u)' \in Nat
    BY <1>1, <1>2, KeyTypes DEF Ahead, Stored, Configures, One
  <2>2. faults' = faults + 1 /\ faults \in Nat
    BY <1>1, KeyTypes
  <2>3. faults' \in Nat /\ faults <= faults'
    BY <2>2
  <2> QED BY <1>1, <2>1, <2>3, CountKept
<1>5. UnusedIsUnconfigured(s)' /\ NewIsUnconfigured(s)'
  BY <1>1 DEF KeyInvariant, ConfigMapsCounted, UnusedIsUnconfigured,
              NewIsUnconfigured, IsNew, AlreadyProcessed
<1> QED BY <1>3, <1>4, <1>5 DEF KeyInvariant, ConfigMapsCounted

(***************************************************************************)
(* A new operator queues every scan once, and leaves those alone that the   *)
(* old one had begun with: only a new scan gets a ConfigMap, its first.     *)
(***************************************************************************)
LEMMA RestartCounts ==
  ASSUME InductiveInvariant, NEW s \in Scans, KeyInvariant(s), Restart
  PROVE  KeyInvariant(s)'
<1>1. /\ watch'[s] = << >> /\ cache'[s] = scan[s]
      /\ scan' = scan /\ configMaps' = configMaps /\ pc'[s] = "idle"
      /\ incarnation' = incarnation /\ faults' = faults
      /\ s \in queue' <=> scan[s] # NoScan
  BY DEF Restart, Predicate
<1>2. /\ Created(s)' = 0
      /\ MayLookNew(s)' <=> IsNew(scan[s])
      /\ CatchesUp(s)'
  <2>1. scan'[s] = scan[s] /\ CatchesUp(s)
    BY <1>1 DEF KeyInvariant, PendingBounded
  <2> QED BY <1>1, <2>1, KeyTypes, EventsListed
<1>3. PendingBounded(s)'
  BY <1>1, <1>2, KeyTypes DEF PendingBounded, Pending, One
<1>4. ASSUME NEW u \in 0..MaxIncarnations
      PROVE  CountedFor(s, u)'
  <2>1. CASE IsNew(scan[s]) /\ Stored(s, u)
    <3>1. configMaps[s][u] = 0 /\ incarnation[s] > 0
      BY <2>1, KeyTypes DEF KeyInvariant, ConfigMapsCounted, NewIsUnconfigured, Stored
    <3>2. Ahead(s, u)' = 1
      BY <1>1, <1>2, <2>1 DEF Ahead, Stored, One
    <3> QED BY <1>1, <3>1, <3>2, KeyTypes DEF CountedFor
  <2>2. CASE ~(IsNew(scan[s]) /\ Stored(s, u))
    <3>1. Ahead(s, u)' = 0
      BY <1>1, <1>2, <2>2 DEF Ahead, Stored, One
    <3>2. faults' \in Nat /\ faults <= faults' /\ Ahead(s, u) \in Nat
      BY <1>1, KeyTypes
    <3> QED BY <1>1, <3>1, <3>2, CountKept
  <2> QED BY <2>1, <2>2
<1>5. UnusedIsUnconfigured(s)' /\ NewIsUnconfigured(s)'
  BY <1>1 DEF KeyInvariant, ConfigMapsCounted, UnusedIsUnconfigured,
              NewIsUnconfigured, IsNew, AlreadyProcessed
<1> QED BY <1>3, <1>4, <1>5 DEF KeyInvariant, ConfigMapsCounted

LEMMA DequeueCounts ==
  ASSUME InductiveInvariant, NEW s \in Scans, KeyInvariant(s), Dequeue(s)
  PROVE  KeyInvariant(s)'
<1>1. /\ s \in queue /\ s \notin queue' /\ pc[s] = "idle" /\ pc'[s] = "get"
      /\ scan' = scan /\ incarnation' = incarnation /\ configMaps' = configMaps
      /\ watch' = watch /\ cache' = cache /\ obj' = obj /\ faults' = faults
  BY DEF Dequeue, serverVars, InductiveInvariant, TypeOK
<1>2. /\ Created(s)' = Created(s)
      /\ MayLookNew(s)' <=> MayLookNew(s)
      /\ Latest(s)' = Latest(s)
  BY <1>1, EventsKept
<1>3. PendingBounded(s)'
  BY <1>1, <1>2, KeyTypes DEF KeyInvariant, PendingBounded, CatchesUp, Pending, One
<1>4. ASSUME NEW u \in 0..MaxIncarnations
      PROVE  CountedFor(s, u)'
  <2>1. Ahead(s, u)' <= Ahead(s, u) /\ Ahead(s, u)' \in Nat
    BY <1>1, <1>2, KeyTypes DEF Ahead, Stored, Configures, One
  <2>2. faults' = faults /\ faults \in Nat
    BY <1>1, KeyTypes
  <2>3. faults' \in Nat /\ faults <= faults'
    BY <2>2
  <2> QED BY <1>1, <2>1, <2>3, CountKept
<1>5. UnusedIsUnconfigured(s)' /\ NewIsUnconfigured(s)'
  BY <1>1 DEF KeyInvariant, ConfigMapsCounted, UnusedIsUnconfigured,
              NewIsUnconfigured, IsNew, AlreadyProcessed
<1> QED BY <1>3, <1>4, <1>5 DEF KeyInvariant, ConfigMapsCounted

\* The worker goes on only if its copy was new: then MayLookNew holds.
LEMMA ReconcileGetCounts ==
  ASSUME InductiveInvariant, NEW s \in Scans, KeyInvariant(s), ReconcileGet(s)
  PROVE  KeyInvariant(s)'
<1>1. /\ scan' = scan /\ incarnation' = incarnation /\ configMaps' = configMaps
      /\ watch' = watch /\ cache' = cache /\ pc[s] = "get"
  BY DEF ReconcileGet, serverVars
<1>2. faults' \in Nat /\ faults <= faults'
  <2>1. faults' = faults \/ faults' = faults + 1
    BY DEF ReconcileGet, Fault
  <2> QED BY <2>1, KeyTypes
<1>3. \/ /\ pc'[s] = "idle"
      \/ /\ pc'[s] = "running" /\ IsNew(cache[s])
         /\ s \in queue' <=> s \in queue
  BY DEF ReconcileGet, Return, Goto, IsNew, InductiveInvariant, TypeOK
<1>4. /\ Created(s)' = Created(s)
      /\ MayLookNew(s)' <=> MayLookNew(s)
      /\ Latest(s)' = Latest(s)
  BY <1>1, EventsKept
<1>5. pc'[s] = "running" => MayLookNew(s)
  BY <1>3 DEF MayLookNew
<1>6. PendingBounded(s)'
  BY <1>1, <1>3, <1>4, KeyTypes
     DEF KeyInvariant, PendingBounded, CatchesUp, Pending, One
<1>7. ASSUME NEW u \in 0..MaxIncarnations
      PROVE  CountedFor(s, u)'
  <2>1. Ahead(s, u)' <= Ahead(s, u) /\ Ahead(s, u)' \in Nat
    BY <1>1, <1>3, <1>4, <1>5, KeyTypes DEF Ahead, Stored, Configures, One
  <2> QED BY <1>1, <1>2, <2>1, CountKept
<1>8. UnusedIsUnconfigured(s)' /\ NewIsUnconfigured(s)'
  BY <1>1, <1>3 DEF KeyInvariant, ConfigMapsCounted, UnusedIsUnconfigured,
                    NewIsUnconfigured, IsNew, AlreadyProcessed
<1> QED BY <1>6, <1>7, <1>8 DEF KeyInvariant, ConfigMapsCounted

\* A worker whose context expires may fail after it has created the ConfigMap.
LEMMA ContextExpiresCounts ==
  ASSUME InductiveInvariant, NEW s \in Scans, KeyInvariant(s), ContextExpires(s)
  PROVE  KeyInvariant(s)'
<1>1. /\ scan' = scan /\ incarnation' = incarnation /\ configMaps' = configMaps
      /\ watch' = watch /\ cache' = cache /\ pc' = pc /\ obj' = obj
      /\ queue' = queue /\ faults' = faults + 1
  BY DEF ContextExpires, serverVars, Fault
<1>2. /\ Created(s)' = Created(s)
      /\ MayLookNew(s)' <=> MayLookNew(s)
      /\ Latest(s)' = Latest(s)
  BY <1>1, EventsKept
<1>3. PendingBounded(s)'
  BY <1>1, <1>2, KeyTypes DEF KeyInvariant, PendingBounded, CatchesUp, Pending, One
<1>4. ASSUME NEW u \in 0..MaxIncarnations
      PROVE  CountedFor(s, u)'
  <2>1. Ahead(s, u)' <= Ahead(s, u) + 1 /\ Ahead(s, u)' \in Nat
    BY <1>1, <1>2, KeyTypes DEF Ahead, Stored, Configures, One
  <2> QED BY <1>1, <2>1, CountKept
<1>5. UnusedIsUnconfigured(s)' /\ NewIsUnconfigured(s)'
  BY <1>1 DEF KeyInvariant, ConfigMapsCounted, UnusedIsUnconfigured,
              NewIsUnconfigured, IsNew, AlreadyProcessed
<1> QED BY <1>3, <1>4, <1>5 DEF KeyInvariant, ConfigMapsCounted

-----------------------------------------------------------------------------
(* Status patches and the ConfigMap. *)

\* A status computed from the worker's copy, to another phase.
GoodPatch(s, new) == /\ new \in Objects
                     /\ new.uid = obj[s].uid
                     /\ new.phase \notin {"", obj[s].phase}
                     /\ new.conditions = ConditionsOf(new.phase)

LEMMA PatchesAreGood ==
  ASSUME InductiveInvariant, NEW s \in Scans
  PROVE  /\ pc[s] = "running" => /\ GoodPatch(s, RunningStatus(obj[s]))
                                 /\ RunningStatus(obj[s]).phase = "Running"
         /\ pc[s] = "completed" => /\ GoodPatch(s, CompletedStatus(obj[s]))
                                   /\ CompletedStatus(obj[s]).phase = "Completed"
         /\ pc[s] = "failed" => /\ GoodPatch(s, FailedStatus(obj[s]))
                                /\ FailedStatus(obj[s]).phase = "Failed"
<1> USE DEF InductiveInvariant
<1>1. ASSUME NEW new, NEW p \in {"Running", "Completed", "Failed"},
             pc[s] \in {"running", "completed", "failed"},
             new = [uid |-> obj[s].uid, phase |-> p, conditions |-> ConditionsOf(p)],
             p # obj[s].phase
      PROVE  GoodPatch(s, new) /\ new.phase = p
  <2>1. p \in Phases /\ p # ""
    BY DEF Phases
  <2>2. /\ obj[s] \in Objects /\ incarnation[s] \in Nat
        /\ obj[s].uid \in 1..incarnation[s]
    BY <1>1, WorkerCopy
  <2>3. /\ new \in Objects /\ new.phase = p
        /\ new.conditions = ConditionsOf(new.phase)
    <3>1. new = [uid |-> obj[s].uid, phase |-> p, conditions |-> ConditionsOf(p)]
      BY <1>1
    <3> QED BY <2>1, <2>2, <3>1, StatusCopy
  <2>4. new.uid = obj[s].uid
    BY <1>1
  <2> QED BY <1>1, <2>1, <2>3, <2>4 DEF GoodPatch
<1>2. CASE pc[s] = "running"
  <2>1. obj[s] \in Objects /\ obj[s].phase = "" /\ obj[s].conditions = ConditionsOf("")
    BY <1>2, WorkerCopy DEF WorkerOK
  <2> QED BY <1>1, <1>2, <2>1, RunningStatusValue
<1>3. CASE pc[s] = "completed"
  <2>1. /\ obj[s] \in Objects /\ obj[s].phase = "Running"
        /\ obj[s].conditions = ConditionsOf("Running")
    BY <1>3, WorkerCopy DEF WorkerOK
  <2> QED BY <1>1, <1>3, <2>1, CompletedStatusValue
<1>4. CASE pc[s] = "failed"
  <2>1. /\ obj[s] \in Objects /\ obj[s].phase \in {"Running", "Completed"}
        /\ obj[s].conditions = ConditionsOf(obj[s].phase)
    BY <1>4, WorkerCopy DEF WorkerOK
  <2>2. FailedStatus(obj[s]) = [uid |-> obj[s].uid, phase |-> "Failed",
                                conditions |-> ConditionsOf("Failed")]
    BY <2>1, FailedStatusValue
  <2> QED BY <1>1, <1>4, <2>1, <2>2
<1> QED BY <1>2, <1>3, <1>4

(***************************************************************************)
(* What a status patch leaves as it was, whether it was applied or not: no  *)
(* event it causes is a Create event, and it makes no scan new.             *)
(***************************************************************************)
LEMMA PatchEffect ==
  ASSUME InductiveInvariant, NEW s \in Scans, NEW new, GoodPatch(s, new),
         PatchOk(s, new) \/ PatchFails(s, new), cache' = cache,
         PendingBounded(s)
  PROVE  /\ Created(s)' = Created(s)
         /\ MayLookNew(s)' <=> MayLookNew(s)
         /\ CatchesUp(s)'
         /\ \A u : Stored(s, u)' <=> Stored(s, u)
         /\ IsNew(scan'[s]) => IsNew(scan[s]) /\ scan' = scan
         /\ \A t \in Scans : t # s => scan'[t] = scan[t] /\ watch'[t] = watch[t]
         /\ scan[s] # NoScan => /\ Merged(s, new).uid = scan[s].uid
                                /\ Merged(s, new).phase = new.phase
<1> USE DEF InductiveInvariant
<1>1. CatchesUp(s)
  BY DEF PendingBounded
<1>2. scan[s] # NoScan =>
        Merged(s, new) = [uid |-> scan[s].uid, phase |-> new.phase,
                          conditions |-> ConditionsOf(new.phase)]
        /\ Merged(s, new) \in Objects
  BY MergedValue DEF GoodPatch
<1>3. scan[s] # NoScan => /\ Merged(s, new).uid = scan[s].uid
                          /\ Merged(s, new).phase = new.phase
  BY <1>2
<1>4. CASE scan' = scan /\ watch' = watch
  <2>1. /\ Created(s)' = Created(s)
        /\ MayLookNew(s)' <=> MayLookNew(s)
        /\ Latest(s)' = Latest(s)
    BY <1>4, EventsKept
  <2> QED BY <1>1, <1>3, <1>4, <2>1 DEF CatchesUp, Stored
<1>5. CASE scan[s] # NoScan /\ Store(s, Merged(s, new))
  <2>1. /\ scan'[s] = Merged(s, new)
        /\ watch'[s] = Append(watch[s], Merged(s, new)) /\ cache'[s] = cache[s]
        /\ \A t \in Scans : t # s => scan'[t] = scan[t] /\ watch'[t] = watch[t]
    BY <1>5 DEF Store, TypeOK
  <2>2. Merged(s, new).phase # ""
    BY <1>3, <1>5 DEF GoodPatch
  <2>3. Merged(s, new) # NoScan /\ ~IsNew(Merged(s, new))
    <3>1. NoScan.phase = ""
      BY DEF NoScan, NewScan
    <3> QED BY <2>2, <3>1 DEF IsNew, AlreadyProcessed
  <2>4. /\ Created(s)' = Created(s) + One(Predicate(Latest(s), Merged(s, new)))
        /\ MayLookNew(s)' <=> MayLookNew(s) \/ IsNew(Merged(s, new))
        /\ Latest(s)' = Merged(s, new)
    BY <1>2, <1>5, <2>1, KeyTypes, EventAdded
  <2>5. ~Predicate(Latest(s), Merged(s, new))
    BY <1>1, <1>5 DEF Predicate, CatchesUp
  <2>6. Created(s)' = Created(s)
    BY <2>4, <2>5, KeyTypes DEF One
  <2> QED BY <1>3, <1>5, <2>1, <2>3, <2>4, <2>6 DEF CatchesUp, Stored
<1> QED BY <1>4, <1>5 DEF PatchOk, PatchFails

LEMMA PatchFaults ==
  ASSUME InductiveInvariant, NEW s \in Scans, NEW new,
         PatchOk(s, new) \/ PatchFails(s, new)
  PROVE  faults' \in Nat /\ faults <= faults'
<1>1. faults' = faults \/ faults' = faults + 1
  BY DEF PatchOk, PatchFails, CallRejected, CallLost, Fault
<1>2. faults \in Nat
  BY BoundsAssumption DEF InductiveInvariant, TypeOK
<1> QED BY <1>1, <1>2

LEMMA PatchRunningCounts ==
  ASSUME InductiveInvariant, NEW s \in Scans, KeyInvariant(s), PatchRunning(s)
  PROVE  KeyInvariant(s)'
<1> DEFINE new == RunningStatus(obj[s])
<1>1. /\ incarnation' = incarnation /\ configMaps' = configMaps /\ cache' = cache
      /\ queue' = queue /\ pc[s] = "running"
      /\ PatchOk(s, new) \/ PatchFails(s, new)
  BY DEF PatchRunning, Goto
<1>2. GoodPatch(s, new)
  BY <1>1, PatchesAreGood
<1>3. \/ /\ pc'[s] = "deploy" /\ obj'[s] = Merged(s, new)
         /\ scan[s] # NoScan /\ scan'[s] = Merged(s, new)
      \/ pc'[s] = "failed"
  BY DEF PatchRunning, PatchOk, Store, Goto, InductiveInvariant, TypeOK
<1> HIDE DEF new
<1>4. /\ Created(s)' = Created(s)
      /\ MayLookNew(s)' <=> MayLookNew(s)
      /\ CatchesUp(s)'
      /\ \A u : Stored(s, u)' <=> Stored(s, u)
      /\ IsNew(scan'[s]) => IsNew(scan[s]) /\ scan' = scan
      /\ scan[s] # NoScan => /\ Merged(s, new).uid = scan[s].uid
                             /\ Merged(s, new).phase = new.phase
  BY <1>1, <1>2, PatchEffect DEF KeyInvariant
<1>5. faults' \in Nat /\ faults <= faults'
  BY <1>1, PatchFaults
<1>6. PendingBounded(s)'
  BY <1>1, <1>3, <1>4, KeyTypes DEF KeyInvariant, PendingBounded, Pending, One
<1>7. ASSUME NEW u \in 0..MaxIncarnations
      PROVE  CountedFor(s, u)'
  <2>1. pc'[s] = "deploy" /\ obj'[s].uid = u => Stored(s, u)
    BY <1>3, <1>4 DEF Stored
  <2>2. Ahead(s, u)' <= Ahead(s, u) /\ Ahead(s, u)' \in Nat
    BY <1>1, <1>3, <1>4, <2>1, KeyTypes DEF Ahead, Configures, One
  <2> QED BY <1>1, <1>5, <2>2, CountKept
<1>8. UnusedIsUnconfigured(s)'
  BY <1>1 DEF KeyInvariant, ConfigMapsCounted, UnusedIsUnconfigured
<1>9. NewIsUnconfigured(s)'
  <2>1. SUFFICES ASSUME IsNew(scan'[s])
                 PROVE  /\ configMaps'[s][scan'[s].uid] = 0
                        /\ pc'[s] # "deploy"
    BY DEF NewIsUnconfigured, IsNew, AlreadyProcessed
  <2>2. IsNew(scan[s]) /\ scan' = scan
    BY <1>4, <2>1
  <2>3. pc'[s] # "deploy"
    <3>1. scan[s] # NoScan => Merged(s, new).phase # ""
      BY <1>2, <1>4 DEF GoodPatch
    <3> QED BY <1>3, <2>2, <3>1 DEF IsNew, AlreadyProcessed
  <2> QED BY <1>1, <2>2, <2>3 DEF KeyInvariant, ConfigMapsCounted, NewIsUnconfigured
<1> QED BY <1>6, <1>7, <1>8, <1>9 DEF KeyInvariant, ConfigMapsCounted

\* The Create comes after the patch to Running, and at most once per worker.
LEMMA DeployCounts ==
  ASSUME InductiveInvariant, NEW s \in Scans, KeyInvariant(s),
         DeployDikiConfigMap(s)
  PROVE  KeyInvariant(s)'
<1>0. PICK label : label = obj[s].uid
  OBVIOUS
<1>1. /\ scan' = scan /\ incarnation' = incarnation /\ watch' = watch
      /\ cache' = cache /\ obj' = obj /\ queue' = queue /\ expired' = expired
      /\ pc[s] = "deploy"
  BY DEF DeployDikiConfigMap, serverVars, Goto
<1>2. label \in 0..MaxIncarnations /\ label \in 0..incarnation[s]
  BY <1>0, KeyTypes DEF Objects
<1>3. \/ /\ pc'[s] = "completed" /\ ~expired[s] /\ faults' = faults
         /\ CreateConfigMap(s)
      \/ /\ pc'[s] = "failed" /\ faults' \in {faults, faults + 1}
         /\ configMaps' = configMaps
      \/ /\ pc'[s] = "failed" /\ faults' = faults + 1
         /\ CreateConfigMap(s)
  <2>1. \/ /\ ~expired[s] /\ faults' = faults
           /\ CreateConfigMap(s) /\ Goto(s, "completed")
        \/ /\ faults' \in {faults, faults + 1}
           /\ configMaps' = configMaps /\ Goto(s, "failed")
        \/ /\ faults' = faults + 1
           /\ CreateConfigMap(s) /\ Goto(s, "failed")
    BY DEF DeployDikiConfigMap, CallRejected, CallLost, Fault
  <2> QED BY <2>1 DEF Goto, InductiveInvariant, TypeOK
<1>4. CreateConfigMap(s) =>
        /\ configMaps'[s][label] = configMaps[s][label] + 1
        /\ \A u \in 0..MaxIncarnations :
             u # label => configMaps'[s][u] = configMaps[s][u]
  BY <1>0, <1>2, CreateConfigMapValue DEF InductiveInvariant, TypeOK
<1>5. /\ Created(s)' = Created(s)
      /\ MayLookNew(s)' <=> MayLookNew(s)
      /\ Latest(s)' = Latest(s)
  BY <1>1, EventsKept
<1>6. PendingBounded(s)'
  BY <1>1, <1>3, <1>5, KeyTypes
     DEF KeyInvariant, PendingBounded, CatchesUp, Pending, One
<1>7. ASSUME NEW u \in 0..MaxIncarnations
      PROVE  CountedFor(s, u)'
  <2>1. Ahead(s, u)' <= Ahead(s, u) /\ Ahead(s, u)' \in Nat
    BY <1>1, <1>3, <1>5, KeyTypes DEF Ahead, Stored, Configures, One
  <2>2. pc'[s] = "completed" /\ ~expired[s] /\ u = label =>
          Ahead(s, u)' + 1 <= Ahead(s, u)
    BY <1>0, <1>1, <1>5, KeyTypes DEF Ahead, Stored, Configures, One
  <2>0. /\ configMaps[s][u] + Ahead(s, u) <= incarnation[s] + faults
        /\ configMaps[s][u] \in Nat /\ Ahead(s, u) \in Nat
        /\ incarnation[s] \in Nat /\ faults \in Nat
        /\ faults' \in {faults, faults + 1}
    BY <1>3, KeyTypes DEF CountedFor, KeyInvariant, ConfigMapsCounted
  <2>3. CASE configMaps'[s][u] = configMaps[s][u]
    BY <1>1, <2>0, <2>1, <2>3 DEF CountedFor
  <2>4. CASE configMaps'[s][u] # configMaps[s][u]
    <3>1. u = label /\ configMaps'[s][u] = configMaps[s][u] + 1
      BY <1>3, <1>4, <2>4
    <3>2. \/ faults' = faults + 1
          \/ Ahead(s, u)' + 1 <= Ahead(s, u)
      BY <1>3, <2>2, <2>4, <3>1
    <3> QED BY <1>1, <2>0, <2>1, <3>1, <3>2 DEF CountedFor
  <2> QED BY <2>3, <2>4
<1>8. UnusedIsUnconfigured(s)'
  <2>1. ASSUME NEW u \in 0..MaxIncarnations, u > incarnation[s]
        PROVE  configMaps'[s][u] = configMaps[s][u]
    BY <1>2, <1>3, <1>4, <2>1, KeyTypes
  <2> QED BY <1>1, <2>1 DEF KeyInvariant, ConfigMapsCounted, UnusedIsUnconfigured
<1>9. NewIsUnconfigured(s)'
  <2>1. SUFFICES ASSUME IsNew(scan[s])
                 PROVE  configMaps'[s][scan[s].uid] = 0
    BY <1>1, <1>3 DEF NewIsUnconfigured, IsNew, AlreadyProcessed
  <2>2. scan[s].uid # label /\ configMaps[s][scan[s].uid] = 0
    BY <1>0, <1>1, <2>1 DEF KeyInvariant, ConfigMapsCounted, NewIsUnconfigured
  <2>3. scan[s].uid \in 0..MaxIncarnations
    BY KeyTypes DEF Objects
  <2> QED BY <1>3, <1>4, <2>2, <2>3
<1> QED BY <1>6, <1>7, <1>8, <1>9 DEF KeyInvariant, ConfigMapsCounted

(***************************************************************************)
(* If the patch fails, the worker's object may be processed once more only  *)
(* because something failed, now or before.                                 *)
(***************************************************************************)
LEMMA PatchCompletedCounts ==
  ASSUME InductiveInvariant, NEW s \in Scans, KeyInvariant(s), PatchCompleted(s)
  PROVE  KeyInvariant(s)'
<1> DEFINE new == CompletedStatus(obj[s])
<1>1. /\ incarnation' = incarnation /\ configMaps' = configMaps /\ cache' = cache
      /\ queue' = queue /\ pc[s] = "completed"
      /\ PatchOk(s, new) \/ PatchFails(s, new)
  BY DEF PatchCompleted, Goto, Return
<1>2. GoodPatch(s, new)
  BY <1>1, PatchesAreGood
<1>3. \/ pc'[s] = "idle"
      \/ /\ pc'[s] = "failed"
         /\ scan[s] = NoScan \/ expired[s] \/ faults' = faults + 1
  <2>1. pc'[s] = "idle" \/ (pc'[s] = "failed" /\ PatchFails(s, new))
    BY DEF PatchCompleted, Return, Goto, InductiveInvariant, TypeOK
  <2> HIDE DEF new
  <2> QED BY <2>1 DEF PatchFails, CallRejected, CallLost, Fault
<1> HIDE DEF new
<1>4. /\ Created(s)' = Created(s)
      /\ MayLookNew(s)' <=> MayLookNew(s)
      /\ CatchesUp(s)'
      /\ \A u : Stored(s, u)' <=> Stored(s, u)
      /\ IsNew(scan'[s]) => IsNew(scan[s]) /\ scan' = scan
  BY <1>1, <1>2, PatchEffect DEF KeyInvariant
<1>5. faults' \in Nat /\ faults <= faults'
  BY <1>1, PatchFaults
<1>6. PendingBounded(s)'
  BY <1>1, <1>3, <1>4, KeyTypes DEF KeyInvariant, PendingBounded, Pending, One
<1>7. ASSUME NEW u \in 0..MaxIncarnations
      PROVE  CountedFor(s, u)'
  <2>1. CASE pc'[s] = "failed" /\ faults' = faults + 1
    <3>1. Ahead(s, u)' <= Ahead(s, u) + 1 /\ Ahead(s, u)' \in Nat
      BY <1>1, <1>4, <2>1, KeyTypes DEF Ahead, Configures, One
    <3> QED BY <1>1, <2>1, <3>1, CountKept
  <2>2. CASE pc'[s] = "idle" \/ scan[s] = NoScan \/ expired[s]
    <3>0. pc'[s] \in {"idle", "failed"}
      BY <1>3
    <3>1. Ahead(s, u)' <= Ahead(s, u) /\ Ahead(s, u)' \in Nat
      <4>1. Stored(s, u) /\ Configures(s, u) => pc'[s] = "idle"
        BY <2>2 DEF Stored, Configures
      <4> QED BY <1>1, <1>4, <3>0, <4>1, KeyTypes DEF Ahead, Configures, One
    <3> QED BY <1>1, <1>5, <3>1, CountKept
  <2> QED BY <1>3, <2>1, <2>2
<1>8. UnusedIsUnconfigured(s)'
  BY <1>1 DEF KeyInvariant, ConfigMapsCounted, UnusedIsUnconfigured
<1>9. NewIsUnconfigured(s)'
  BY <1>1, <1>3, <1>4 DEF KeyInvariant, ConfigMapsCounted, NewIsUnconfigured,
                          IsNew, AlreadyProcessed
<1> QED BY <1>6, <1>7, <1>8, <1>9 DEF KeyInvariant, ConfigMapsCounted

LEMMA HandleFailedScanCounts ==
  ASSUME InductiveInvariant, NEW s \in Scans, KeyInvariant(s), HandleFailedScan(s)
  PROVE  KeyInvariant(s)'
<1> DEFINE new == FailedStatus(obj[s])
<1>1. /\ incarnation' = incarnation /\ configMaps' = configMaps /\ cache' = cache
      /\ pc[s] = "failed" /\ pc'[s] = "idle"
      /\ PatchOk(s, new) \/ PatchFails(s, new)
  BY DEF HandleFailedScan, Return, InductiveInvariant, TypeOK
<1>2. GoodPatch(s, new)
  BY <1>1, PatchesAreGood
<1> HIDE DEF new
<1>4. /\ Created(s)' = Created(s)
      /\ MayLookNew(s)' <=> MayLookNew(s)
      /\ CatchesUp(s)'
      /\ \A u : Stored(s, u)' <=> Stored(s, u)
      /\ IsNew(scan'[s]) => IsNew(scan[s]) /\ scan' = scan
  BY <1>1, <1>2, PatchEffect DEF KeyInvariant
<1>5. faults' \in Nat /\ faults <= faults'
  BY <1>1, PatchFaults
<1>6. PendingBounded(s)'
  BY <1>1, <1>4, KeyTypes DEF KeyInvariant, PendingBounded, Pending, One
<1>7. ASSUME NEW u \in 0..MaxIncarnations
      PROVE  CountedFor(s, u)'
  <2>1. Ahead(s, u)' <= Ahead(s, u) /\ Ahead(s, u)' \in Nat
    BY <1>1, <1>4, KeyTypes DEF Ahead, Configures, One
  <2> QED BY <1>1, <1>5, <2>1, CountKept
<1>8. UnusedIsUnconfigured(s)'
  BY <1>1 DEF KeyInvariant, ConfigMapsCounted, UnusedIsUnconfigured
<1>9. NewIsUnconfigured(s)'
  BY <1>1, <1>4 DEF KeyInvariant, ConfigMapsCounted, NewIsUnconfigured,
                    IsNew, AlreadyProcessed
<1> QED BY <1>6, <1>7, <1>8, <1>9 DEF KeyInvariant, ConfigMapsCounted

-----------------------------------------------------------------------------
(* The invariant of all names. *)

LEMMA InitCounts == Init => \A s \in Scans : KeyInvariant(s)
<1> SUFFICES ASSUME Init, NEW s \in Scans PROVE KeyInvariant(s)
  OBVIOUS
<1>1. /\ scan[s] = NoScan /\ cache[s] = NoScan /\ watch[s] = << >>
      /\ pc[s] = "idle" /\ queue = {} /\ incarnation[s] = 0 /\ faults = 0
      /\ \A u \in 0..MaxIncarnations : configMaps[s][u] = 0
  BY DEF Init
<1>2. 1..Len(watch[s]) = {}
  BY <1>1
<1>3. Created(s) = 0
  BY <1>2, FS_EmptySet DEF Created, Creates
<1>4. PendingBounded(s)
  BY <1>1, <1>3 DEF PendingBounded, CatchesUp, Latest, Pending, One
<1>5. \A u \in 0..MaxIncarnations : CountedFor(s, u)
  BY <1>1, <1>3 DEF CountedFor, Ahead, Stored, One
<1>6. UnusedIsUnconfigured(s) /\ NewIsUnconfigured(s)
  BY <1>1 DEF UnusedIsUnconfigured, NewIsUnconfigured, IsNew
<1> QED BY <1>4, <1>5, <1>6 DEF KeyInvariant, ConfigMapsCounted

\* What an action on the name s does to another name t.
LEMMA OtherNames ==
  ASSUME InductiveInvariant, NEW s \in Scans, NEW t \in Scans, t # s,
         \/ CreateScan(s) \/ DeleteScan(s) \/ Deliver(s) \/ Dequeue(s)
         \/ Worker(s) \/ ContextExpires(s)
  PROVE  /\ scan'[t] = scan[t] /\ incarnation'[t] = incarnation[t]
         /\ configMaps'[t] = configMaps[t] /\ watch'[t] = watch[t]
         /\ cache'[t] = cache[t] /\ pc'[t] = pc[t]
         /\ obj'[t] = obj[t] /\ expired'[t] = expired[t]
         /\ t \in queue' <=> t \in queue
         /\ faults' \in Nat /\ faults <= faults'
<1> USE DEF InductiveInvariant, TypeOK
<1>0. faults \in Nat
  BY BoundsAssumption
<1>1. CASE CreateScan(s)
  BY <1>0, <1>1 DEF CreateScan, Store, workerVars
<1>2. CASE DeleteScan(s)
  BY <1>0, <1>2 DEF DeleteScan, Store, workerVars
<1>3. CASE Deliver(s)
  BY <1>0, <1>3 DEF Deliver, workerVars
<1>4. CASE Dequeue(s)
  BY <1>0, <1>4 DEF Dequeue, serverVars
<1>5. CASE ContextExpires(s)
  BY <1>0, <1>5 DEF ContextExpires, serverVars, Fault
<1>6. CASE ReconcileGet(s)
  BY <1>0, <1>6 DEF ReconcileGet, Return, Goto, serverVars, Fault
<1>7. CASE PatchRunning(s)
  BY <1>0, <1>7 DEF PatchRunning, PatchOk, PatchFails, Store, CallRejected,
                    CallLost, Goto, Fault
<1>8. CASE DeployDikiConfigMap(s)
  <2>1. configMaps'[t] = configMaps[t]
    BY <1>8 DEF DeployDikiConfigMap, CreateConfigMap
  <2> QED BY <1>0, <1>8, <2>1 DEF DeployDikiConfigMap, CallRejected, CallLost,
                                  Goto, Fault, serverVars
<1>9. CASE PatchCompleted(s)
  <2> DEFINE new == CompletedStatus(obj[s])
  <2>1. PatchOk(s, new) \/ PatchFails(s, new)
    BY <1>9 DEF PatchCompleted
  <2>2. /\ incarnation' = incarnation /\ configMaps' = configMaps /\ cache' = cache
        /\ pc'[t] = pc[t] /\ obj'[t] = obj[t] /\ expired'[t] = expired[t]
        /\ t \in queue' <=> t \in queue
    <3> HIDE DEF new
    <3> QED BY <1>9 DEF PatchCompleted, Goto, Return
  <2> HIDE DEF new
  <2>3. scan'[t] = scan[t] /\ watch'[t] = watch[t]
    BY <2>1 DEF PatchOk, PatchFails, Store, CallRejected, CallLost
  <2>4. faults' = faults \/ faults' = faults + 1
    BY <2>1 DEF PatchOk, PatchFails, CallRejected, CallLost, Fault
  <2> QED BY <1>0, <2>2, <2>3, <2>4
<1>10. CASE HandleFailedScan(s)
  BY <1>0, <1>10 DEF HandleFailedScan, PatchOk, PatchFails, Store, CallRejected,
                     CallLost, Return, Fault
<1> QED BY <1>1, <1>2, <1>3, <1>4, <1>5, <1>6, <1>7, <1>8, <1>9, <1>10 DEF Worker

LEMMA NextCounts ==
  InductiveInvariant /\ (\A s \in Scans : KeyInvariant(s)) /\ [Next]_vars
    => \A s \in Scans : KeyInvariant(s)'
<1> SUFFICES ASSUME InductiveInvariant, \A s \in Scans : KeyInvariant(s),
                    [Next]_vars, NEW t \in Scans
             PROVE  KeyInvariant(t)'
  OBVIOUS
<1>1. ASSUME NEW s \in Scans,
             \/ CreateScan(s) \/ DeleteScan(s) \/ Deliver(s) \/ Dequeue(s)
             \/ Worker(s) \/ ContextExpires(s)
      PROVE  KeyInvariant(t)'
  <2>1. CASE t = s
    BY <1>1, <2>1, CreateScanCounts, DeleteScanCounts, DeliverCounts,
       DequeueCounts, ContextExpiresCounts, ReconcileGetCounts,
       PatchRunningCounts, DeployCounts, PatchCompletedCounts,
       HandleFailedScanCounts DEF Worker
  <2>2. CASE t # s
    BY <1>1, <2>2, OtherNames, KeyKept
  <2> QED BY <2>1, <2>2
<1>2. CASE Relist
  BY <1>2, RelistCounts
<1>3. CASE Restart
  BY <1>3, RestartCounts
<1>4. CASE UNCHANGED vars
  <2>1. faults \in Nat
    BY KeyTypes
  <2> QED BY <1>4, <2>1, KeyKept DEF vars
<1> QED BY <1>1, <1>2, <1>3, <1>4 DEF Next

(***************************************************************************)
(* Reconciliations of a name, on the way, queued or running, are never more *)
(* than the scans that had it, and each one makes at most one ConfigMap     *)
(* unless something fails (Predicate, the requeue after an error and        *)
(* deployDikiConfigMap), also through restarts and broken watches.          *)
(***************************************************************************)
THEOREM CountsHold == Spec => [](\A s \in Scans : KeyInvariant(s))
<1> DEFINE Counted == \A s \in Scans : KeyInvariant(s)
<1>1. Init => Counted
  BY InitCounts
<1>2. InductiveInvariant /\ Counted /\ [Next]_vars => Counted'
  BY NextCounts
<1> HIDE DEF Counted
<1>3. Spec => []Counted
  BY <1>1, <1>2, InvariantHolds, PTL DEF Spec
<1> QED BY <1>3 DEF Counted

(***************************************************************************)
(* However scans are deleted and created again, whatever fails and however  *)
(* often the operator restarts, the ConfigMaps made for one scan are no     *)
(* more than the failures and the scans of its name (deployDikiConfigMap).  *)
(***************************************************************************)
THEOREM ConfigMapsBoundedHolds == Spec => []ConfigMapsBounded
<1> DEFINE Counted == \A s \in Scans : KeyInvariant(s)
<1>1. InductiveInvariant /\ Counted => ConfigMapsBounded
  <2> SUFFICES ASSUME InductiveInvariant, Counted,
                      NEW s \in Scans, NEW u \in 0..MaxIncarnations
               PROVE  configMaps[s][u] <= incarnation[s] + faults
    BY DEF ConfigMapsBounded
  <2>1. /\ configMaps[s][u] + Ahead(s, u) <= incarnation[s] + faults
        /\ configMaps[s][u] \in Nat /\ Ahead(s, u) \in Nat
        /\ incarnation[s] \in Nat /\ faults \in Nat
    BY KeyTypes DEF KeyInvariant, ConfigMapsCounted, CountedFor
  <2> QED BY <2>1
<1>2. Spec => []Counted
  BY CountsHold
<1> HIDE DEF Counted
<1> QED BY <1>1, <1>2, InvariantHolds, PTL

-----------------------------------------------------------------------------
(***************************************************************************)
(* The compliancescan controller implements ScanLifecycle, for all constants *)
(* with which a name is used once and no answer of the API server gets lost. *)
(***************************************************************************)

IsFinished(o) == o.phase \in {"Completed", "Failed"}

(***************************************************************************)
(* Where the stored phase is, at each point of Reconcile. A finished scan   *)
(* is not reconciled any more, or its reconciliation finds a phase: else a  *)
(* worker could start over.                                                 *)
(***************************************************************************)
PhaseFollowed(s) ==
  /\ pc[s] \in {"running", "failed"} => ~IsFinished(scan[s])
  /\ pc[s] \in {"deploy", "completed"} =>
       scan[s] = NoScan \/ scan[s].phase = "Running"
  /\ IsFinished(scan[s]) =>
       Pending(s) = 0 \/ (~MayLookNew(s) /\ pc[s] \in {"idle", "get"})

Abstracted(s) == IF scan[s] = NoScan THEN "Absent" ELSE scan[s].phase

AbstractPhase == [s \in Scans |-> Abstracted(s)]

UsedOnce == MaxIncarnations <= 1

NothingLost == "lost" \notin FaultKinds

-----------------------------------------------------------------------------
(* Steps. *)

\* A patch without lost answers is applied, or fails without a trace.
LEMMA PatchApplied ==
  ASSUME NothingLost, NEW s, NEW new, PatchFails(s, new)
  PROVE  scan' = scan /\ watch' = watch
BY DEF NothingLost, PatchFails, CallLost, Fault

LEMMA NoScanIsNotFinished == ~IsFinished(NoScan) /\ NoScan.phase = ""
BY DEF IsFinished, NoScan, NewScan

\* A name that is used once is reconciled once.
LEMMA PendingOnce ==
  ASSUME UsedOnce, InductiveInvariant, NEW s \in Scans, PendingBounded(s)
  PROVE  /\ Pending(s) \in {0, 1}
         /\ pc[s] # "idle" => Created(s) = 0 /\ s \notin queue
         /\ incarnation[s] < MaxIncarnations => pc[s] = "idle"
<1>1. /\ Pending(s) <= incarnation[s] /\ incarnation[s] \in Nat
      /\ incarnation[s] <= MaxIncarnations /\ MaxIncarnations \in Nat
  BY KeyTypes, BoundsAssumption DEF PendingBounded
<1>2. Pending(s) \in {0, 1} /\ (incarnation[s] < MaxIncarnations => Pending(s) = 0)
  BY <1>1, KeyTypes DEF UsedOnce
<1>3. pc[s] # "idle" => Pending(s) = 1 /\ Created(s) = 0 /\ s \notin queue
  BY <1>2, KeyTypes DEF Pending, One
<1> QED BY <1>2, <1>3

\* In the abstract state, a step on one name changes that name's phase.
LEMMA AbstractChange ==
  ASSUME NEW s \in Scans, \A t \in Scans : t # s => scan'[t] = scan[t]
  PROVE  /\ AbstractPhase' = [AbstractPhase EXCEPT ![s] = Abstracted(s)']
         /\ AbstractPhase[s] = Abstracted(s)
<1>1. \A t \in Scans : t # s => Abstracted(t)' = Abstracted(t)
  BY DEF Abstracted
<1>2. AbstractPhase' = [t \in Scans |-> Abstracted(t)']
  BY DEF AbstractPhase
<1>3. AbstractPhase = [t \in Scans |-> Abstracted(t)]
  BY DEF AbstractPhase
<1> QED BY <1>1, <1>2, <1>3

\* A step that changes only s, along the abstract lifecycle or not at all.
Follows(s) ==
  /\ \A t \in Scans : t # s => scan'[t] = scan[t]
  /\ \/ Abstracted(s)' = Abstracted(s)
     \/ Abstracted(s) = "Absent" /\ Abstracted(s)' = ""
     \/ Abstracted(s) # "Absent" /\ Abstracted(s)' = "Absent"
     \/ <<Abstracted(s), Abstracted(s)'>> \in
          {<<"", "Running">>, <<"", "Failed">>,
           <<"Running", "Completed">>, <<"Running", "Failed">>}

LEMMA FollowsIsAbstractStep ==
  ASSUME NEW s \in Scans, Follows(s)
  PROVE  Lifecycle!Next \/ UNCHANGED AbstractPhase
<1>1. /\ AbstractPhase' = [AbstractPhase EXCEPT ![s] = Abstracted(s)']
      /\ AbstractPhase[s] = Abstracted(s)
  BY AbstractChange DEF Follows
<1>2. CASE Abstracted(s)' = Abstracted(s)
  <2>1. AbstractPhase' = AbstractPhase
    BY <1>1, <1>2 DEF AbstractPhase
  <2> QED BY <2>1
<1>3. CASE Abstracted(s) = "Absent" /\ Abstracted(s)' = ""
  <2>1. Lifecycle!Create(s)
    BY <1>1, <1>3 DEF Lifecycle!Create, AbstractPhase, Abstracted
  <2> QED BY <2>1 DEF Lifecycle!Next
<1>4. CASE Abstracted(s) # "Absent" /\ Abstracted(s)' = "Absent"
  <2>1. Lifecycle!Delete(s)
    BY <1>1, <1>4 DEF Lifecycle!Delete, AbstractPhase, Abstracted
  <2> QED BY <2>1 DEF Lifecycle!Next
<1>5. CASE <<Abstracted(s), Abstracted(s)'>> \in
             {<<"", "Running">>, <<"", "Failed">>,
              <<"Running", "Completed">>, <<"Running", "Failed">>}
  <2>1. PICK to : to = Abstracted(s)'
    OBVIOUS
  <2>2. to \in Lifecycle!Phases /\ <<Abstracted(s), to>> \in Lifecycle!Moves
    BY <1>5, <2>1 DEF Lifecycle!Phases, Lifecycle!Moves
  <2>3. Lifecycle!Advance(s, to)
    BY <1>1, <2>1, <2>2 DEF Lifecycle!Advance, AbstractPhase, Abstracted
  <2> QED BY <2>2, <2>3 DEF Lifecycle!Next
<1> QED BY <1>2, <1>3, <1>4, <1>5 DEF Follows

-----------------------------------------------------------------------------
(* Every action follows the lifecycle and keeps PhaseFollowed. *)

LEMMA CreateScanFollows ==
  ASSUME UsedOnce, InductiveInvariant, NEW s \in Scans, PendingBounded(s),
         CreateScan(s)
  PROVE  Follows(s) /\ PhaseFollowed(s)'
<1>1. PICK n : n = incarnation[s] + 1
  OBVIOUS
<1>2. n \in 1..MaxIncarnations /\ incarnation[s] < MaxIncarnations
  BY <1>1, KeyTypes, BoundsAssumption DEF CreateScan
<1>3. /\ scan[s] = NoScan /\ scan'[s] = NewScan(n) /\ pc' = pc
      /\ \A t \in Scans : t # s => scan'[t] = scan[t]
  BY <1>1 DEF CreateScan, Store, workerVars, InductiveInvariant, TypeOK
<1>4. scan'[s] # NoScan /\ scan'[s].phase = ""
  BY <1>2, <1>3, NewScanValue
<1>5. pc[s] = "idle"
  BY <1>2, PendingOnce
<1> QED BY <1>3, <1>4, <1>5 DEF Follows, Abstracted, PhaseFollowed, IsFinished

LEMMA DeleteScanFollows ==
  ASSUME InductiveInvariant, NEW s \in Scans, DeleteScan(s)
  PROVE  Follows(s) /\ PhaseFollowed(s)'
<1>1. /\ scan[s] # NoScan /\ scan'[s] = NoScan
      /\ \A t \in Scans : t # s => scan'[t] = scan[t]
  BY DEF DeleteScan, Store, InductiveInvariant, TypeOK
<1>2. Abstracted(s) # "Absent"
  <2>1. scan[s].phase \in Phases
    BY KeyTypes DEF Objects
  <2> QED BY <1>1, <2>1 DEF Abstracted, Phases
<1> QED BY <1>1, <1>2, NoScanIsNotFinished DEF Follows, Abstracted, PhaseFollowed, IsFinished

\* Nothing but the watch, the cache, the queue and the workers changes.
LEMMA QuietFollows ==
  ASSUME InductiveInvariant, NEW s \in Scans, scan' = scan, PhaseFollowed(s),
         Pending(s)' \in Nat, Pending(s)' <= Pending(s),
         MayLookNew(s)' => MayLookNew(s),
         \/ pc'[s] = pc[s]
         \/ pc'[s] = "idle"
         \/ pc'[s] = "get" /\ pc[s] = "idle"
  PROVE  Follows(s) /\ PhaseFollowed(s)'
<1>1. Follows(s)
  BY DEF Follows, Abstracted
<1>2. Pending(s) = 0 => Pending(s)' = 0
  BY KeyTypes
<1>3. IsFinished(scan'[s]) <=> IsFinished(scan[s])
  BY DEF IsFinished
<1>4. PhaseFollowed(s)'
  BY <1>2, <1>3 DEF PhaseFollowed, IsFinished
<1> QED BY <1>1, <1>4

LEMMA DeliverFollows ==
  ASSUME InductiveInvariant, NEW s \in Scans, KeyInvariant(s), PhaseFollowed(s),
         Deliver(s)
  PROVE  Follows(s) /\ PhaseFollowed(s)'
<1>1. /\ watch[s] # << >> /\ watch'[s] = Tail(watch[s])
      /\ cache'[s] = Head(watch[s])
      /\ scan' = scan /\ pc' = pc
      /\ s \in queue' <=> s \in queue \/ Predicate(cache[s], Head(watch[s]))
  BY DEF Deliver, workerVars, InductiveInvariant, TypeOK
<1>2. /\ Created(s)' \in Nat
      /\ Created(s) = Created(s)' + One(Predicate(cache[s], Head(watch[s])))
      /\ MayLookNew(s)' => MayLookNew(s)
  BY <1>1, KeyTypes, EventTaken
<1>3. Pending(s)' \in Nat /\ Pending(s)' <= Pending(s)
  BY <1>1, <1>2, KeyTypes DEF Pending, One
<1> QED BY <1>1, <1>2, <1>3, QuietFollows

LEMMA RelistFollows ==
  ASSUME InductiveInvariant, NEW s \in Scans, KeyInvariant(s), PhaseFollowed(s),
         Relist
  PROVE  Follows(s) /\ PhaseFollowed(s)'
<1>1. /\ watch'[s] = << >> /\ cache'[s] = scan[s] /\ scan' = scan /\ pc' = pc
      /\ s \in queue' <=> s \in queue \/ Predicate(cache[s], scan[s])
  BY DEF Relist, workerVars
<1>2. /\ Created(s)' = 0
      /\ MayLookNew(s)' => MayLookNew(s)
      /\ Predicate(cache[s], scan[s]) => Created(s) > 0
  <2>1. scan'[s] = scan[s] /\ CatchesUp(s)
    BY <1>1 DEF KeyInvariant, PendingBounded
  <2> QED BY <1>1, <2>1, KeyTypes, EventsListed
<1>3. Pending(s)' \in Nat /\ Pending(s)' <= Pending(s)
  BY <1>1, <1>2, KeyTypes DEF Pending, One
<1> QED BY <1>1, <1>2, <1>3, QuietFollows

\* The new operator finds the phase of a finished scan in its first list.
LEMMA RestartFollows ==
  ASSUME InductiveInvariant, NEW s \in Scans, KeyInvariant(s), Restart
  PROVE  Follows(s) /\ PhaseFollowed(s)'
<1>1. /\ watch'[s] = << >> /\ cache'[s] = scan[s] /\ scan' = scan
      /\ pc'[s] = "idle"
  BY DEF Restart
<1>2. MayLookNew(s)' <=> IsNew(scan[s])
  <2>1. scan'[s] = scan[s] /\ CatchesUp(s)
    BY <1>1 DEF KeyInvariant, PendingBounded
  <2> QED BY <1>1, <2>1, KeyTypes, EventsListed
<1>3. IsFinished(scan'[s]) => ~MayLookNew(s)'
  BY <1>1, <1>2 DEF IsFinished, IsNew, AlreadyProcessed
<1>4. PhaseFollowed(s)'
  BY <1>1, <1>3 DEF PhaseFollowed, IsFinished
<1> QED BY <1>1, <1>4 DEF Follows, Abstracted

LEMMA DequeueFollows ==
  ASSUME InductiveInvariant, NEW s \in Scans, PhaseFollowed(s),
         Dequeue(s) \/ ContextExpires(s)
  PROVE  Follows(s) /\ PhaseFollowed(s)'
<1>1. /\ scan' = scan /\ watch' = watch /\ cache' = cache
      /\ \/ s \in queue /\ s \notin queue' /\ pc[s] = "idle" /\ pc'[s] = "get"
         \/ queue' = queue /\ pc' = pc
  BY DEF Dequeue, ContextExpires, serverVars, InductiveInvariant, TypeOK
<1>2. /\ Created(s)' = Created(s)
      /\ MayLookNew(s)' <=> MayLookNew(s)
  BY <1>1, EventsKept
<1>3. Pending(s)' \in Nat /\ Pending(s)' <= Pending(s)
  BY <1>1, <1>2, KeyTypes DEF Pending, One
<1> QED BY <1>1, <1>2, <1>3, QuietFollows

\* A worker that finds its copy new is the only one there will be.
LEMMA ReconcileGetFollows ==
  ASSUME InductiveInvariant, NEW s \in Scans, PhaseFollowed(s), ReconcileGet(s)
  PROVE  Follows(s) /\ PhaseFollowed(s)'
<1>1. scan' = scan /\ watch' = watch /\ cache' = cache /\ pc[s] = "get"
  BY DEF ReconcileGet, serverVars
<1>2. \/ pc'[s] = "idle"
      \/ pc'[s] = "running" /\ IsNew(cache[s])
  BY DEF ReconcileGet, Return, Goto, IsNew, InductiveInvariant, TypeOK
<1>3. /\ Created(s)' = Created(s)
      /\ MayLookNew(s)' <=> MayLookNew(s)
  BY <1>1, EventsKept
<1>4. Pending(s) # 0
  BY <1>1, KeyTypes DEF Pending, One
<1>5. IsFinished(scan[s]) => ~MayLookNew(s)
  BY <1>4 DEF PhaseFollowed
<1>6. PhaseFollowed(s)'
  <2>1. CASE pc'[s] = "idle"
    BY <1>1, <1>3, <1>5, <2>1 DEF PhaseFollowed, IsFinished
  <2>2. CASE pc'[s] = "running" /\ IsNew(cache[s])
    <3>1. MayLookNew(s)
      BY <2>2 DEF MayLookNew
    <3> QED BY <1>1, <1>5, <2>2, <3>1 DEF PhaseFollowed, IsFinished
  <2> QED BY <1>2, <2>1, <2>2
<1> QED BY <1>1, <1>6 DEF Follows, Abstracted

\* An applied patch gives the stored scan the phase of the new status.
LEMMA PatchOkValue ==
  ASSUME InductiveInvariant, NEW s \in Scans, NEW new, GoodPatch(s, new),
         PatchOk(s, new)
  PROVE  /\ scan[s] # NoScan /\ scan'[s] # NoScan
         /\ scan'[s].phase = new.phase
         /\ \A t \in Scans : t # s => scan'[t] = scan[t]
<1>1. /\ scan[s] # NoScan /\ scan'[s] = Merged(s, new)
      /\ \A t \in Scans : t # s => scan'[t] = scan[t]
  BY DEF PatchOk, Store, InductiveInvariant, TypeOK
<1>2. Merged(s, new) = [uid |-> scan[s].uid, phase |-> new.phase,
                        conditions |-> ConditionsOf(new.phase)]
  BY <1>1, MergedValue DEF GoodPatch, InductiveInvariant
<1>3. Merged(s, new).phase = new.phase
  BY <1>2
<1>4. new.phase # ""
  BY DEF GoodPatch
<1> QED BY <1>1, <1>3, <1>4, NoScanIsNotFinished

LEMMA PatchRunningFollows ==
  ASSUME NothingLost, InductiveInvariant, NEW s \in Scans, PhaseFollowed(s),
         PatchRunning(s)
  PROVE  Follows(s) /\ PhaseFollowed(s)'
<1> DEFINE new == RunningStatus(obj[s])
<1>1. /\ pc[s] = "running"
      /\ \/ PatchOk(s, new) /\ pc'[s] = "deploy"
         \/ PatchFails(s, new) /\ pc'[s] = "failed"
  BY DEF PatchRunning, Goto, InductiveInvariant, TypeOK
<1>2. GoodPatch(s, new) /\ new.phase = "Running"
  BY <1>1, PatchesAreGood
<1>3. ~IsFinished(scan[s]) /\ scan[s].phase \in Phases
  BY <1>1, KeyTypes DEF PhaseFollowed, Objects
<1> HIDE DEF new
<1>4. CASE PatchOk(s, new) /\ pc'[s] = "deploy"
  BY <1>2, <1>3, <1>4, PatchOkValue
     DEF Follows, Abstracted, PhaseFollowed, IsFinished, Phases
<1>5. CASE PatchFails(s, new) /\ pc'[s] = "failed"
  BY <1>3, <1>5, PatchApplied DEF Follows, Abstracted, PhaseFollowed, IsFinished
<1> QED BY <1>1, <1>4, <1>5

LEMMA DeployFollows ==
  ASSUME InductiveInvariant, NEW s \in Scans, PhaseFollowed(s),
         DeployDikiConfigMap(s)
  PROVE  Follows(s) /\ PhaseFollowed(s)'
<1>1. scan' = scan /\ pc[s] = "deploy" /\ pc'[s] \in {"completed", "failed"}
  BY DEF DeployDikiConfigMap, serverVars, Goto, InductiveInvariant, TypeOK
<1>2. scan[s] = NoScan \/ scan[s].phase = "Running"
  BY <1>1 DEF PhaseFollowed
<1>3. ~IsFinished(scan[s])
  BY <1>2, NoScanIsNotFinished DEF IsFinished
<1> QED BY <1>1, <1>2, <1>3 DEF Follows, Abstracted, PhaseFollowed, IsFinished

LEMMA PatchCompletedFollows ==
  ASSUME UsedOnce, NothingLost, InductiveInvariant, NEW s \in Scans,
         KeyInvariant(s), PhaseFollowed(s), PatchCompleted(s)
  PROVE  Follows(s) /\ PhaseFollowed(s)'
<1> DEFINE new == CompletedStatus(obj[s])
<1>1. /\ pc[s] = "completed" /\ queue' = queue /\ cache' = cache
      /\ \/ PatchOk(s, new) /\ pc'[s] = "idle"
         \/ PatchFails(s, new) /\ pc'[s] = "failed"
  BY DEF PatchCompleted, Goto, Return, InductiveInvariant, TypeOK
<1>2. GoodPatch(s, new) /\ new.phase = "Completed"
  BY <1>1, PatchesAreGood
<1>3. scan[s] = NoScan \/ scan[s].phase = "Running"
  BY <1>1 DEF PhaseFollowed
<1> HIDE DEF new
<1>4. CASE PatchOk(s, new) /\ pc'[s] = "idle"
  <2>1. Created(s)' = Created(s)
    BY <1>1, <1>2, PatchEffect DEF KeyInvariant
  <2>2. Created(s) = 0 /\ s \notin queue
    BY <1>1, PendingOnce DEF KeyInvariant
  <2>3. Pending(s)' = 0
    BY <1>1, <1>4, <2>1, <2>2 DEF Pending, One
  <2> QED BY <1>2, <1>3, <1>4, <2>3, PatchOkValue
          DEF Follows, Abstracted, PhaseFollowed, IsFinished
<1>5. CASE PatchFails(s, new) /\ pc'[s] = "failed"
  BY <1>3, <1>5, PatchApplied, NoScanIsNotFinished
     DEF Follows, Abstracted, PhaseFollowed, IsFinished
<1> QED BY <1>1, <1>4, <1>5

LEMMA HandleFailedScanFollows ==
  ASSUME UsedOnce, NothingLost, InductiveInvariant, NEW s \in Scans,
         KeyInvariant(s), PhaseFollowed(s), HandleFailedScan(s)
  PROVE  Follows(s) /\ PhaseFollowed(s)'
<1> DEFINE new == FailedStatus(obj[s])
<1>1. /\ pc[s] = "failed" /\ pc'[s] = "idle" /\ cache' = cache
      /\ \/ PatchOk(s, new) /\ queue' = queue
         \/ PatchFails(s, new)
  BY DEF HandleFailedScan, Return, InductiveInvariant, TypeOK
<1>2. GoodPatch(s, new) /\ new.phase = "Failed"
  BY <1>1, PatchesAreGood
<1>3. ~IsFinished(scan[s]) /\ scan[s].phase \in Phases
  BY <1>1, KeyTypes DEF PhaseFollowed, Objects
<1> HIDE DEF new
<1>4. CASE PatchOk(s, new) /\ queue' = queue
  <2>1. Created(s)' = Created(s)
    BY <1>1, <1>2, PatchEffect DEF KeyInvariant
  <2>2. Created(s) = 0 /\ s \notin queue
    BY <1>1, PendingOnce DEF KeyInvariant
  <2>3. Pending(s)' = 0
    BY <1>1, <1>4, <2>1, <2>2 DEF Pending, One
  <2> QED BY <1>1, <1>2, <1>3, <1>4, <2>3, PatchOkValue
          DEF Follows, Abstracted, PhaseFollowed, IsFinished, Phases
<1>5. CASE PatchFails(s, new)
  BY <1>1, <1>3, <1>5, PatchApplied
     DEF Follows, Abstracted, PhaseFollowed, IsFinished
<1> QED BY <1>1, <1>4, <1>5

-----------------------------------------------------------------------------
(* The refinement. *)

LEMMA OtherPhases ==
  ASSUME NEW t \in Scans, PhaseFollowed(t), scan'[t] = scan[t],
         watch'[t] = watch[t], cache'[t] = cache[t], pc'[t] = pc[t],
         t \in queue' <=> t \in queue
  PROVE  PhaseFollowed(t)'
<1>1. /\ Created(t)' = Created(t)
      /\ MayLookNew(t)' <=> MayLookNew(t)
  BY EventsKept
<1>2. Pending(t)' = Pending(t)
  BY <1>1 DEF Pending, One
<1> QED BY <1>1, <1>2 DEF PhaseFollowed, IsFinished

LEMMA NextFollows ==
  ASSUME UsedOnce, NothingLost, InductiveInvariant,
         \A s \in Scans : KeyInvariant(s), \A s \in Scans : PhaseFollowed(s),
         [Next]_vars
  PROVE  /\ [Lifecycle!Next]_AbstractPhase
         /\ \A s \in Scans : PhaseFollowed(s)'
<1>1. ASSUME NEW s \in Scans,
             \/ CreateScan(s) \/ DeleteScan(s) \/ Deliver(s) \/ Dequeue(s)
             \/ Worker(s) \/ ContextExpires(s)
      PROVE  Follows(s) /\ \A t \in Scans : PhaseFollowed(t)'
  <2>1. Follows(s) /\ PhaseFollowed(s)'
    <3>1. PendingBounded(s)
      BY DEF KeyInvariant
    <3> QED BY <1>1, <3>1, CreateScanFollows, DeleteScanFollows, DeliverFollows,
               DequeueFollows, ReconcileGetFollows, PatchRunningFollows,
               DeployFollows, PatchCompletedFollows, HandleFailedScanFollows
            DEF Worker
  <2>2. ASSUME NEW t \in Scans, t # s
        PROVE  PhaseFollowed(t)'
    BY <1>1, <2>2, OtherNames, OtherPhases
  <2> QED BY <2>1, <2>2
<1>2. CASE \E s \in Scans : \/ CreateScan(s) \/ DeleteScan(s) \/ Deliver(s)
                            \/ Dequeue(s) \/ Worker(s) \/ ContextExpires(s)
  BY <1>1, <1>2, FollowsIsAbstractStep
<1>3. CASE Relist \/ Restart \/ UNCHANGED vars
  <2>1. \A t \in Scans : PhaseFollowed(t)'
    BY <1>3, RelistFollows, RestartFollows, OtherPhases DEF vars
  <2>2. scan' = scan
    BY <1>3 DEF Relist, Restart, vars
  <2>3. UNCHANGED AbstractPhase
    BY <2>2 DEF AbstractPhase, Abstracted
  <2> QED BY <2>1, <2>3
<1> QED BY <1>2, <1>3 DEF Next

LEMMA InitFollows == Init => Lifecycle!Init /\ \A s \in Scans : PhaseFollowed(s)
<1> SUFFICES ASSUME Init
             PROVE  Lifecycle!Init /\ \A s \in Scans : PhaseFollowed(s)
  OBVIOUS
<1>1. \A s \in Scans : scan[s] = NoScan /\ pc[s] = "idle"
  BY DEF Init
<1> QED BY <1>1, NoScanIsNotFinished DEF Lifecycle!Init, PhaseFollowed

(***************************************************************************)
(* The controller implements the lifecycle that the scheduled controller    *)
(* and every other reader of status.phase rely on: Completed only out of    *)
(* Running, Completed and Failed final, through retries, expired contexts,  *)
(* broken watches and restarts (Reconcile, handleFailedScan). What is       *)
(* excluded breaks it in the program, too: a name given to a second scan    *)
(* while the first one is reconciled, and a patch to Completed whose answer *)
(* gets lost, which handleFailedScan turns into Failed.                     *)
(***************************************************************************)
THEOREM LifecycleImplemented ==
  ASSUME UsedOnce, NothingLost
  PROVE  Spec => LifecycleSpec
<1> DEFINE Counted == \A s \in Scans : KeyInvariant(s)
           Followed == \A s \in Scans : PhaseFollowed(s)
<1>1. Init => Lifecycle!Init /\ Followed
  BY InitFollows
<1>2. InductiveInvariant /\ Counted /\ Followed /\ [Next]_vars
        => [Lifecycle!Next]_AbstractPhase /\ Followed'
  BY NextFollows
<1>3. Spec => []Counted
  BY CountsHold
<1> HIDE DEF Counted, Followed
<1>4. Spec => Lifecycle!Init /\ [][Lifecycle!Next]_AbstractPhase
  BY <1>1, <1>2, <1>3, InvariantHolds, PTL DEF Spec
<1> QED BY <1>4, PTL DEF LifecycleSpec, Lifecycle!Spec, AbstractPhase, Abstracted
=============================================================================

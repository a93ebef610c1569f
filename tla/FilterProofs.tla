---------------------------- MODULE FilterProofs ----------------------------
(***************************************************************************)
(* What Filtered computes, for every sequence. Induction over the sequence  *)
(* is the search for the first element at which a statement fails.          *)
(***************************************************************************)
EXTENDS Filter, FiniteSetTheorems, NaturalsInduction, WellFoundedInduction, TLAPS

LEMMA LeastNumber ==
  ASSUME NEW T \in SUBSET Nat, T # {}
  PROVE  \E i \in T : \A j \in T : ~(j < i)
<1> DEFINE Less == {ss \in Nat \X Nat : ss[1] < ss[2]}
<1>1. IsWellFoundedOn(Less, Nat)
  BY NatLessThanWellFounded, Zenon DEF OpToRel
<1>2. PICK i \in T : \A j \in T : <<j, i>> \notin Less
  <2> HIDE DEF Less
  <2> QED BY <1>1, WFMin
<1>3. \A j \in T : ~(j < i)
  BY <1>2
<1> QED BY <1>3

\* What holds of 0 and goes from each number below m to the next, up to m.
LEMMA UpToInduction ==
  ASSUME NEW m \in Nat, NEW T \in SUBSET (0..m), 0 \in T,
         \A n \in 0..m : n # m /\ n \in T => n + 1 \in T
  PROVE  T = 0..m
<1> SUFFICES ASSUME T # 0..m PROVE FALSE
  OBVIOUS
<1>1. (0..m) \ T \in SUBSET Nat /\ (0..m) \ T # {}
  <2>1. 0..m \subseteq Nat
    OBVIOUS
  <2> QED BY <2>1
<1>2. PICK i \in (0..m) \ T : \A j \in (0..m) \ T : ~(j < i)
  BY <1>1, LeastNumber
<1>3. i # 0 /\ i - 1 \in 0..m /\ i - 1 # m /\ i - 1 < i /\ i - 1 + 1 = i
  BY <1>2
<1>4. i - 1 \in T
  BY <1>2, <1>3
<1> QED BY <1>2, <1>3, <1>4

-----------------------------------------------------------------------------
(* The function that Filtered computes exists. *)

\* The loop's step: what is kept of the first n elements, given one less.
Taken(before, seq, keep, n) ==
  IF n \in keep THEN Append(before, seq[n]) ELSE before

\* The first k steps of the loop.
Loop(f, seq, keep, k) ==
  f = [n \in 0..k |-> IF n = 0 THEN << >> ELSE Taken(f[n - 1], seq, keep, n)]

LEMMA LoopExists ==
  ASSUME NEW seq, NEW keep, NEW m \in Nat
  PROVE  \E f : Loop(f, seq, keep, m)
<1> DEFINE T == {k \in 0..m : \E f : Loop(f, seq, keep, k)}
<1>1. 0 \in T
  <2> DEFINE f == [n \in 0..0 |-> << >>]
  <2>1. Loop(f, seq, keep, 0)
    BY DEF Loop
  <2> HIDE DEF f
  <2> QED BY <2>1
<1>2. ASSUME NEW k \in 0..m, k # m, k \in T
      PROVE  k + 1 \in T
  <2>1. PICK f : Loop(f, seq, keep, k)
    BY <1>2
  <2> DEFINE g == [n \in 0..k + 1 |-> IF n = k + 1 THEN Taken(f[k], seq, keep, n)
                                                  ELSE f[n]]
  <2>2. \A n \in 0..k : g[n] = f[n]
    OBVIOUS
  <2>3. g[k + 1] = Taken(f[k], seq, keep, k + 1)
    OBVIOUS
  <2>4. \A n \in 0..k : f[n] = IF n = 0 THEN << >> ELSE Taken(f[n - 1], seq, keep, n)
    BY <2>1 DEF Loop
  <2>5. ASSUME NEW n \in 0..k + 1
        PROVE  g[n] = IF n = 0 THEN << >> ELSE Taken(g[n - 1], seq, keep, n)
    <3> HIDE DEF g
    <3>1. CASE n = k + 1
      <4>1. n # 0 /\ n - 1 = k /\ k \in 0..k
        BY <3>1
      <4> QED BY <2>2, <2>3, <3>1, <4>1
    <3>2. CASE n # k + 1
      <4>1. n \in 0..k
        BY <3>2
      <4>2. n # 0 => n - 1 \in 0..k
        BY <4>1
      <4> QED BY <2>2, <2>4, <4>1, <4>2
    <3> QED BY <3>1, <3>2
  <2>6. g = [n \in 0..k + 1 |-> g[n]]
    OBVIOUS
  <2> HIDE DEF g
  <2>7. Loop(g, seq, keep, k + 1)
    BY <2>5, <2>6 DEF Loop
  <2>8. k + 1 \in 0..m
    BY <1>2
  <2> QED BY <2>7, <2>8
<1>3. T \in SUBSET (0..m)
  OBVIOUS
<1> HIDE DEF T
<1>4. T = 0..m
  BY <1>1, <1>2, <1>3, UpToInduction
<1> QED BY <1>4 DEF T

LEMMA FilteredIsLoop ==
  ASSUME NEW S, NEW seq \in Seq(S), NEW keep
  PROVE  \E f : Loop(f, seq, keep, Len(seq)) /\ Filtered(seq, keep) = f[Len(seq)]
<1> DEFINE D(f) == f = [n \in 0..Len(seq) |->
                          IF n = 0 THEN << >>
                          ELSE IF n \in keep THEN Append(f[n - 1], seq[n])
                          ELSE f[n - 1]]
           F == CHOOSE f : D(f)
<1>1. Filtered(seq, keep) = F[Len(seq)]
  BY DEF Filtered
<1>2. \A f : Loop(f, seq, keep, Len(seq)) <=> D(f)
  BY DEF Loop, Taken
<1>3. PICK g : Loop(g, seq, keep, Len(seq))
  <2>1. Len(seq) \in Nat
    OBVIOUS
  <2> QED BY <2>1, LoopExists
<1> HIDE DEF D
<1>4. D(F)
  BY <1>2, <1>3
<1> QED BY <1>1, <1>2, <1>4

-----------------------------------------------------------------------------
(* What Filtered computes. *)

\* The positions in seq, up to n, whose elements are kept.
Kept(keep, n) == {i \in 1..n : i \in keep}

\* out has the elements of seq at the positions K, each once, in order.
Picks(out, seq, K) ==
  \E at \in [1..Len(out) -> K] :
    /\ \A j \in 1..Len(out) : out[j] = seq[at[j]]
    /\ \A i, j \in 1..Len(out) : i < j => at[i] < at[j]
    /\ \A k \in K : \E j \in 1..Len(out) : at[j] = k

LEMMA KeptSteps ==
  ASSUME NEW keep
  PROVE  /\ Kept(keep, 0) = {}
         /\ \A n \in Nat :
              /\ IsFiniteSet(Kept(keep, n))
              /\ n + 1 \notin Kept(keep, n)
              /\ Kept(keep, n) \subseteq 1..n
              /\ Kept(keep, n + 1) = IF n + 1 \in keep THEN Kept(keep, n) \cup {n + 1}
                                                      ELSE Kept(keep, n)
<1>1. Kept(keep, 0) = {}
  BY DEF Kept
<1>2. ASSUME NEW n \in Nat
      PROVE  /\ IsFiniteSet(Kept(keep, n))
             /\ n + 1 \notin Kept(keep, n)
             /\ Kept(keep, n) \subseteq 1..n
             /\ Kept(keep, n + 1) = IF n + 1 \in keep THEN Kept(keep, n) \cup {n + 1}
                                                     ELSE Kept(keep, n)
  <2>1. Kept(keep, n) \subseteq 1..n
    BY DEF Kept
  <2>2. IsFiniteSet(1..n)
    BY FS_Interval
  <2>3. IsFiniteSet(Kept(keep, n))
    BY <2>1, <2>2, FS_Subset
  <2>4. 1..n + 1 = (1..n) \cup {n + 1} /\ n + 1 \notin 1..n
    OBVIOUS
  <2> QED BY <2>1, <2>3, <2>4 DEF Kept
<1> QED BY <1>1, <1>2

\* One more element is kept.
LEMMA PicksOneMore ==
  ASSUME NEW S, NEW out \in Seq(S), NEW seq, NEW n \in Nat, NEW K \in SUBSET (1..n),
         Picks(out, seq, K), seq[n + 1] \in S
  PROVE  Picks(Append(out, seq[n + 1]), seq, K \cup {n + 1})
<1> DEFINE L == Len(out)
           new == Append(out, seq[n + 1])
<1>1. PICK at \in [1..L -> K] :
        /\ \A j \in 1..L : out[j] = seq[at[j]]
        /\ \A i, j \in 1..L : i < j => at[i] < at[j]
        /\ \A k \in K : \E j \in 1..L : at[j] = k
  BY DEF Picks
<1>2. /\ L \in Nat /\ Len(new) = L + 1
      /\ \A j \in 1..L : new[j] = out[j]
      /\ new[L + 1] = seq[n + 1]
  OBVIOUS
<1> HIDE DEF new, L
<1> DEFINE more == [j \in 1..L + 1 |-> IF j = L + 1 THEN n + 1 ELSE at[j]]
<1>3. \A j \in 1..L : more[j] = at[j]
  BY <1>2
<1>4. more[L + 1] = n + 1
  BY <1>2
<1>5. more \in [1..L + 1 -> K \cup {n + 1}]
  BY <1>1, <1>2
<1> HIDE DEF more
<1>6. \A j \in 1..L + 1 : j # L + 1 => j \in 1..L
  BY <1>2
<1>7. \A j \in 1..L + 1 : new[j] = seq[more[j]]
  BY <1>1, <1>2, <1>3, <1>4, <1>6
<1>8. \A i, j \in 1..L + 1 : i < j => more[i] < more[j]
  <2> SUFFICES ASSUME NEW i \in 1..L + 1, NEW j \in 1..L + 1, i < j
               PROVE  more[i] < more[j]
    OBVIOUS
  <2>1. i \in 1..L
    BY <1>2
  <2>2. at[i] \in 1..n
    BY <1>1, <2>1
  <2>3. CASE j = L + 1
    BY <1>3, <1>4, <2>1, <2>2, <2>3
  <2>4. CASE j # L + 1
    BY <1>1, <1>3, <1>6, <2>1, <2>4
  <2> QED BY <2>3, <2>4
<1>9. \A k \in K \cup {n + 1} : \E j \in 1..L + 1 : more[j] = k
  <2>1. 1..L \subseteq 1..L + 1 /\ L + 1 \in 1..L + 1
    BY <1>2
  <2> QED BY <1>1, <1>3, <1>4, <2>1
<1> QED BY <1>2, <1>5, <1>7, <1>8, <1>9 DEF Picks, new

(***************************************************************************)
(* Filtered returns the elements of seq at the positions to keep, each      *)
(* once and in their order.                                                 *)
(***************************************************************************)
THEOREM FilteredPicks ==
  ASSUME NEW S, NEW seq \in Seq(S), NEW keep
  PROVE  /\ Filtered(seq, keep) \in Seq(S)
         /\ Len(Filtered(seq, keep)) = Cardinality(Kept(keep, Len(seq)))
         /\ Picks(Filtered(seq, keep), seq, Kept(keep, Len(seq)))
<1>1. PICK m \in Nat : m = Len(seq)
  OBVIOUS
<1>2. PICK f : Loop(f, seq, keep, m) /\ Filtered(seq, keep) = f[m]
  BY <1>1, FilteredIsLoop
<1>3. \A n \in 0..m : f[n] = IF n = 0 THEN << >> ELSE Taken(f[n - 1], seq, keep, n)
  BY <1>2 DEF Loop
<1> DEFINE T == {n \in 0..m : /\ f[n] \in Seq(S)
                              /\ Len(f[n]) = Cardinality(Kept(keep, n))
                              /\ Picks(f[n], seq, Kept(keep, n))}
<1>4. 0 \in T
  <2>1. f[0] = << >> /\ Kept(keep, 0) = {} /\ 0 \in 0..m
    BY <1>3, KeptSteps
  <2>2. Cardinality({}) = 0
    BY FS_EmptySet
  <2>3. Picks(<< >>, seq, {})
    <3> DEFINE at == [j \in 1..0 |-> 0]
    <3>1. at \in [1..0 -> {}] /\ 1..0 = {} /\ Len(<< >>) = 0
      OBVIOUS
    <3> HIDE DEF at
    <3> QED BY <3>1 DEF Picks
  <2>4. << >> \in Seq(S) /\ Len(<< >>) = 0
    OBVIOUS
  <2> QED BY <2>1, <2>2, <2>3, <2>4
<1>5. ASSUME NEW n \in 0..m, n # m, n \in T
      PROVE  n + 1 \in T
  <2>1. /\ n \in Nat /\ n + 1 \in 0..m /\ n + 1 # 0 /\ n + 1 - 1 = n
        /\ n + 1 \in 1..Len(seq)
    BY <1>1, <1>5
  <2>2. /\ f[n] \in Seq(S) /\ Len(f[n]) = Cardinality(Kept(keep, n))
        /\ Picks(f[n], seq, Kept(keep, n))
    BY <1>5
  <2>3. f[n + 1] = Taken(f[n], seq, keep, n + 1)
    BY <1>3, <2>1
  <2>4. seq[n + 1] \in S
    BY <2>1
  <2>5. CASE n + 1 \in keep
    <3>1. f[n + 1] = Append(f[n], seq[n + 1])
      BY <2>3, <2>5 DEF Taken
    <3>2. /\ Kept(keep, n + 1) = Kept(keep, n) \cup {n + 1}
          /\ IsFiniteSet(Kept(keep, n)) /\ n + 1 \notin Kept(keep, n)
          /\ Kept(keep, n) \subseteq 1..n
      BY <2>1, <2>5, KeptSteps
    <3>3. Cardinality(Kept(keep, n + 1)) = Cardinality(Kept(keep, n)) + 1
      BY <3>2, FS_AddElement
    <3>4. Picks(f[n + 1], seq, Kept(keep, n + 1))
      <4> DEFINE K == Kept(keep, n)
      <4>1. K \in SUBSET (1..n)
        BY <3>2
      <4>2. Picks(f[n], seq, K)
        BY <2>2
      <4> HIDE DEF K
      <4>3. Picks(Append(f[n], seq[n + 1]), seq, K \cup {n + 1})
        BY <2>1, <2>2, <2>4, <4>1, <4>2, PicksOneMore
      <4> QED BY <3>1, <3>2, <4>3 DEF K
    <3>5. f[n + 1] \in Seq(S) /\ Len(f[n + 1]) = Len(f[n]) + 1
      BY <2>2, <2>4, <3>1
    <3> QED BY <2>1, <2>2, <3>3, <3>4, <3>5
  <2>6. CASE n + 1 \notin keep
    <3>1. f[n + 1] = f[n] /\ Kept(keep, n + 1) = Kept(keep, n)
      BY <2>1, <2>3, <2>6, KeptSteps DEF Taken
    <3> QED BY <2>1, <2>2, <3>1
  <2> QED BY <2>5, <2>6
<1>6. T \in SUBSET (0..m)
  OBVIOUS
<1> HIDE DEF T
<1>7. m \in T
  BY <1>4, <1>5, <1>6, UpToInduction
<1> QED BY <1>1, <1>2, <1>7 DEF T
=============================================================================

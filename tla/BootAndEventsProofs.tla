------------------------ MODULE BootAndEventsProofs ------------------------
(***************************************************************************)
(* Boot-time loading, which subscribes plugins to the events of their      *)
(* manifests, and event delivery.                                          *)
(*                                                                         *)
(* Loader: topo_sort and the loading loop are right for every number of    *)
(* plugins and every graph of requirements.                                *)
(*                                                                         *)
(* Events: for every number of events, subscribers, registrations and      *)
(* crashes, and every max_retries, no subscription is out of reach of      *)
(* unsubscribe_all, and deliveries are bounded.                            *)
(***************************************************************************)
EXTENDS Events, Loader, TLAPS, FiniteSetTheorems, FunctionTheorems, WellFoundedInduction

-----------------------------------------------------------------------------
(* Loader: the inductive invariant.                                        *)

\* Requirements of id that are still in its way: to be loaded, and not popped or
\* popped with this entry still to be visited.
Pending(id) ==
    {k \in DOMAIN requires[id] :
       /\ requires[id][k] \notin refused
       /\ requires[id][k] \in Range(order) => <<id, k>> \in rest}

\* How far the boot has come: who is refused, and what is still empty.
LoaderBase ==
    /\ requires \in [Ids -> RequiresLists] /\ valid \in SUBSET Ids
    /\ pc \in {"validate", "resolve"} => refused = IF pc = "validate" THEN {} ELSE Ids \ valid
    /\ pc \in {"sort", "kahn"} => refused \subseteq Ids /\ active = Eligible
    /\ pc \in {"validate", "resolve", "sort"} => queue = <<>> /\ rest = {} /\ order = <<>>
    /\ pc \in {"validate", "resolve", "sort", "kahn"} => loaded = <<>> /\ dormant = {}
    /\ pc \in {"validate", "resolve", "sort", "kahn", "load", "ready", "ready_with_waker"}

\* The plugins popped, each after all it requires.
OrderInv ==
    /\ order \in Seq(Eligible) /\ IsInjective(order)
    /\ \A n \in DOMAIN order : \A dep \in Requires(order[n]) \cap Eligible :
         \E j \in 1..(n - 1) : order[j] = dep

\* While Kahn's algorithm runs.
KahnInv ==
    /\ queue \in Seq(Eligible) /\ IsInjective(queue)
    /\ Range(queue) \cap Range(order) = {}
    /\ in_degree \in [Ids -> Nat]
    /\ \A id \in Eligible : in_degree[id] = Cardinality(Pending(id))
    /\ \A id \in Eligible : in_degree[id] = 0 <=> id \in Range(queue) \cup Range(order)
    /\ \A e \in rest : /\ e = <<e[1], e[2]>> /\ e[1] \in Eligible /\ e[2] \in DOMAIN requires[e[1]]
                       /\ requires[e[1]][e[2]] \in Range(order)

\* What is loaded, in the order in which it is.
Sorted == IF Eligible \subseteq Range(order) THEN order ELSE ConfigOrder(Range(order))

LoadInv ==
    /\ Circular = Eligible \ Range(order)
    /\ loaded \in Seq(Eligible) /\ plan \in Seq(Eligible)
    /\ Len(loaded) + Len(plan) = Len(Sorted)
    /\ \A k \in DOMAIN loaded : loaded[k] = Sorted[k]
    /\ \A k \in DOMAIN plan : plan[k] = Sorted[Len(loaded) + k]
    /\ dormant = {id \in Range(loaded) : Sleeps(id)}
    /\ pc # "load" => plan = <<>>

LoaderInv ==
    /\ LoaderBase
    /\ OrderInv
    /\ pc = "kahn" => KahnInv
    /\ pc \in {"load", "ready", "ready_with_waker"} => LoadInv

-----------------------------------------------------------------------------
(* Loader: sequences without repetitions, and the configuration's order.   *)

\* A sequence without repetitions is as long as it has members.
LEMMA InjectiveCounts ==
  ASSUME NEW S, NEW s \in Seq(S), IsInjective(s)
  PROVE  /\ IsFiniteSet(Range(s)) /\ Range(s) \subseteq S
         /\ Cardinality(Range(s)) = Len(s) /\ Len(s) \in Nat /\ DOMAIN s = 1..Len(s)
<1>1. Len(s) \in Nat /\ DOMAIN s = 1..Len(s) /\ s \in [1..Len(s) -> S]
  OBVIOUS
<1>2. Range(s) \subseteq S /\ s \in Surjection(1..Len(s), Range(s))
  BY <1>1, Fun_RangeProperties
<1>3. s \in [1..Len(s) -> Range(s)]
  BY <1>1, <1>2, Fun_SurjectionProperties
<1>4. s \in Injection(1..Len(s), Range(s))
  BY <1>1, <1>3 DEF IsInjective, Injection
<1>5. s \in Bijection(1..Len(s), Range(s))
  BY <1>2, <1>4 DEF Bijection
<1>6. ExistsBijection(1..Len(s), Range(s))
  BY <1>5 DEF ExistsBijection
<1>7. Cardinality(Range(s)) = Len(s)
  BY <1>1, <1>6, FS_CountingElements
<1>8. IsFiniteSet(Range(s))
  BY <1>1, <1>6, FS_NatBijection
<1> QED
  BY <1>1, <1>2, <1>7, <1>8

\* Plugins before another in the configuration are fewer.
LEMMA RankStrict ==
  ASSUME NEW S \in SUBSET Ids, NEW i \in S, NEW j \in S, i < j
  PROVE  Cardinality({o \in S : o < i}) < Cardinality({o \in S : o < j})
<1>0. N \in Nat /\ IsFiniteSet(Ids) /\ Ids \subseteq Int
  BY LoaderAssumption, FS_Interval DEF Ids
<1>1. IsFiniteSet({o \in S : o < i}) /\ IsFiniteSet({o \in S : o < j})
  BY <1>0, FS_Subset
<1>2. {o \in S : o < i} \in SUBSET {o \in S : o < j}
  <2>1. \A o \in S : o < i => o < j
    BY <1>0
  <2> QED
    BY <2>1
<1>3. {o \in S : o < i} # {o \in S : o < j}
  <2>1. i \in {o \in S : o < j} /\ i \notin {o \in S : o < i}
    BY <1>0
  <2> QED
    BY <2>1
<1>4. /\ Cardinality({o \in S : o < i}) \in Nat /\ Cardinality({o \in S : o < j}) \in Nat
      /\ Cardinality({o \in S : o < i}) <= Cardinality({o \in S : o < j})
      /\ Cardinality({o \in S : o < j}) # Cardinality({o \in S : o < i})
  BY <1>1, <1>2, <1>3, FS_Subset, FS_CardinalityType
<1> QED
  BY <1>4

\* ConfigOrder has every plugin it is given once.
LEMMA ConfigOrdered ==
  ASSUME NEW S \in SUBSET Ids
  PROVE  /\ ConfigOrder(S) \in Seq(S) /\ IsInjective(ConfigOrder(S))
         /\ Range(ConfigOrder(S)) = S /\ Len(ConfigOrder(S)) = Cardinality(S)
<1>0. N \in Nat /\ IsFiniteSet(Ids) /\ Ids \subseteq Int
  BY LoaderAssumption, FS_Interval DEF Ids
<1>1. IsFiniteSet(S) /\ Cardinality(S) \in Nat
  BY <1>0, FS_Subset, FS_CardinalityType
<1> DEFINE n == Cardinality(S)
           R == [i \in S |-> Cardinality({o \in S : o < i})]
<1>2. ASSUME NEW i \in S PROVE R[i] \in 0..(n - 1)
  <2>1. {o \in S : o < i} \in SUBSET (S \ {i})
    BY <1>0
  <2>2. IsFiniteSet(S \ {i}) /\ Cardinality(S \ {i}) = n - 1
    BY <1>1, FS_RemoveElement
  <2>3. IsFiniteSet({o \in S : o < i}) /\ Cardinality({o \in S : o < i}) <= n - 1
    BY <2>1, <2>2, FS_Subset
  <2>4. Cardinality({o \in S : o < i}) \in Nat
    BY <2>3, FS_CardinalityType
  <2> QED
    BY <1>1, <2>3, <2>4
<1>3. ASSUME NEW i \in S, NEW j \in S, R[i] = R[j] PROVE i = j
  <2>1. i \in Int /\ j \in Int
    BY <1>0
  <2>2. ~(i < j)
    <3>1. i < j => R[i] < R[j]
      BY RankStrict
    <3> QED
      BY <1>1, <1>2, <1>3, <3>1
  <2>3. ~(j < i)
    <3>1. j < i => R[j] < R[i]
      BY RankStrict
    <3> QED
      BY <1>1, <1>2, <1>3, <3>1
  <2> QED
    BY <2>1, <2>2, <2>3
<1>4. R \in Injection(S, 0..(n - 1))
  <2>1. R \in [S -> 0..(n - 1)]
    BY <1>2
  <2> QED
    BY <1>3, <2>1, Fun_IsInj
<1>5. IsFiniteSet(0..(n - 1)) /\ Cardinality(0..(n - 1)) = n
  <2>1. n - 1 \in Int
    BY <1>1
  <2>2. IsFiniteSet(0..(n - 1)) /\ Cardinality(0..(n - 1)) = IF 0 > n - 1 THEN 0 ELSE (n - 1) - 0 + 1
    BY <2>1, FS_Interval
  <2> QED
    BY <1>1, <2>2
<1>6. R \in Surjection(S, 0..(n - 1))
  <2> HIDE DEF R
  <2> QED
    BY <1>4, <1>5, FS_Injection
<1>7. \A r \in 0..(n - 1) : \E i \in S : R[i] = r
  <2> HIDE DEF R
  <2> QED
    BY <1>6 DEF Surjection
<1>8. PICK C : C = ConfigOrder(S)
  OBVIOUS
<1>9. DOMAIN C = 1..n
  BY <1>8 DEF ConfigOrder
<1>10. ASSUME NEW k \in 1..n PROVE C[k] \in S /\ R[C[k]] = k - 1
  <2>1. C[k] = CHOOSE id \in S : Cardinality({other \in S : other < id}) = k - 1
    BY <1>8 DEF ConfigOrder
  <2>2. k - 1 \in 0..(n - 1)
    BY <1>1
  <2>3. \E id \in S : Cardinality({other \in S : other < id}) = k - 1
    BY <1>7, <2>2
  <2>4. C[k] \in S /\ Cardinality({other \in S : other < C[k]}) = k - 1
    BY <2>1, <2>3
  <2>5. \A i \in S : R[i] = Cardinality({o \in S : o < i})
    OBVIOUS
  <2> HIDE DEF R
  <2> QED
    BY <2>4, <2>5
<1>11. C \in Seq(S) /\ Len(C) = n
  <2>1. C = [k \in 1..n |-> CHOOSE id \in S : Cardinality({other \in S : other < id}) = k - 1]
    BY <1>8 DEF ConfigOrder
  <2>2. \A k \in 1..n : (CHOOSE id \in S : Cardinality({other \in S : other < id}) = k - 1) \in S
    BY <1>10, <2>1, Zenon
  <2>3. C \in [1..n -> S]
    BY <2>1, <2>2, Zenon
  <2>4. n \in Nat
    BY <1>1
  <2> HIDE DEF n
  <2> QED
    BY <2>3, <2>4
<1>12. IsInjective(C)
  <2>1. ASSUME NEW i \in 1..n, NEW j \in 1..n, C[i] = C[j] PROVE i = j
    <3>1. i - 1 = j - 1
      BY <1>10, <2>1
    <3> QED
      BY <1>1, <3>1
  <2> QED
    BY <1>9, <2>1 DEF IsInjective
<1>13. Range(C) = S
  <2>1. ASSUME NEW i \in S PROVE \E k \in 1..n : C[k] = i
    <3>1. R[i] + 1 \in 1..n /\ (R[i] + 1) - 1 = R[i]
      BY <1>1, <1>2
    <3>2. C[R[i] + 1] \in S /\ R[C[R[i] + 1]] = R[i]
      BY <1>10, <3>1
    <3>3. C[R[i] + 1] = i
      BY <1>3, <3>2
    <3> QED
      BY <3>1, <3>3
  <2> QED
    BY <1>9, <1>10, <2>1 DEF Range
<1> QED
  BY <1>8, <1>11, <1>12, <1>13

\* What Tail does to a sequence.
LEMMA TailOf ==
  ASSUME NEW S, NEW s \in Seq(S), s # <<>>
  PROVE  /\ Head(s) \in S /\ Head(s) = s[1] /\ 1 \in DOMAIN s
         /\ Tail(s) \in Seq(S) /\ Len(Tail(s)) = Len(s) - 1 /\ Len(s) \in Nat \ {0}
         /\ \A k \in 1..(Len(s) - 1) : Tail(s)[k] = s[k + 1]
         /\ DOMAIN s = 1..Len(s) /\ DOMAIN Tail(s) = 1..(Len(s) - 1)
  OBVIOUS

\* What Tail does to the members of a sequence without repetitions.
LEMMA RangeOfTail ==
  ASSUME NEW S, NEW s \in Seq(S), s # <<>>, IsInjective(s)
  PROVE  IsInjective(Tail(s)) /\ Range(Tail(s)) = Range(s) \ {Head(s)} /\ Head(s) \in Range(s)
<1>1. /\ Head(s) = s[1] /\ 1 \in DOMAIN s /\ Len(s) \in Nat \ {0}
      /\ \A k \in 1..(Len(s) - 1) : Tail(s)[k] = s[k + 1]
      /\ DOMAIN s = 1..Len(s) /\ DOMAIN Tail(s) = 1..(Len(s) - 1)
  BY TailOf
<1>2. ASSUME NEW i \in DOMAIN Tail(s), NEW j \in DOMAIN Tail(s), Tail(s)[i] = Tail(s)[j] PROVE i = j
  <2>1. i + 1 \in DOMAIN s /\ j + 1 \in DOMAIN s /\ s[i + 1] = s[j + 1]
    BY <1>1, <1>2
  <2>2. i + 1 = j + 1
    BY <2>1 DEF IsInjective
  <2> QED
    BY <1>1, <2>2
<1>3. ASSUME NEW x \in Range(Tail(s)) PROVE x \in Range(s) /\ x # Head(s)
  <2>1. PICK k \in DOMAIN Tail(s) : x = Tail(s)[k]
    BY <1>3 DEF Range
  <2>2. k + 1 \in DOMAIN s /\ x = s[k + 1] /\ k + 1 # 1
    BY <1>1, <2>1
  <2> QED
    BY <1>1, <2>2 DEF Range, IsInjective
<1>4. ASSUME NEW x \in Range(s), x # Head(s) PROVE x \in Range(Tail(s))
  <2>1. PICK k \in DOMAIN s : x = s[k]
    BY DEF Range
  <2>2. k - 1 \in DOMAIN Tail(s) /\ (k - 1) + 1 = k
    BY <1>1, <1>4, <2>1
  <2>3. Tail(s)[k - 1] = x
    BY <1>1, <2>1, <2>2
  <2> QED
    BY <2>2, <2>3 DEF Range
<1>5. Head(s) \in Range(s)
  BY <1>1 DEF Range
<1> QED
  BY <1>2, <1>3, <1>4, <1>5 DEF IsInjective

\* What Append does to a sequence.
LEMMA AppendOf ==
  ASSUME NEW S, NEW s \in Seq(S), NEW x \in S
  PROVE  /\ Append(s, x) \in Seq(S) /\ Len(Append(s, x)) = Len(s) + 1 /\ Len(s) \in Nat
         /\ \A k \in 1..Len(s) : Append(s, x)[k] = s[k]
         /\ Append(s, x)[Len(s) + 1] = x
         /\ DOMAIN s = 1..Len(s) /\ DOMAIN Append(s, x) = 1..(Len(s) + 1)
  OBVIOUS

\* What Append does to the members of a sequence, and to its having no
\* repetitions.
LEMMA RangeOfAppend ==
  ASSUME NEW S, NEW s \in Seq(S), NEW x \in S
  PROVE  /\ Range(Append(s, x)) = Range(s) \cup {x}
         /\ (IsInjective(s) /\ x \notin Range(s)) => IsInjective(Append(s, x))
<1>1. SUFFICES ASSUME NEW t, t = Append(s, x)
               PROVE  Range(t) = Range(s) \cup {x} /\ (IsInjective(s) /\ x \notin Range(s) => IsInjective(t))
  OBVIOUS
<1>2. /\ Len(s) \in Nat /\ t[Len(s) + 1] = x /\ \A k \in 1..Len(s) : t[k] = s[k]
      /\ DOMAIN s = 1..Len(s) /\ DOMAIN t = 1..(Len(s) + 1)
  BY <1>1, AppendOf
<1>3. ASSUME NEW y \in Range(t) PROVE y \in Range(s) \cup {x}
  <2>1. PICK k \in DOMAIN t : y = t[k]
    BY DEF Range
  <2>2. k \in DOMAIN s \/ k = Len(s) + 1
    BY <1>2
  <2> QED
    BY <1>2, <2>1, <2>2 DEF Range
<1>4. ASSUME NEW y \in Range(s) PROVE y \in Range(t)
  <2>1. PICK k \in DOMAIN s : y = s[k]
    BY DEF Range
  <2>2. k \in DOMAIN t /\ t[k] = y
    BY <1>2, <2>1
  <2> QED
    BY <2>2 DEF Range
<1>5. x \in Range(t)
  <2>1. Len(s) + 1 \in DOMAIN t
    BY <1>2
  <2> QED
    BY <1>2, <2>1 DEF Range
<1>6. ASSUME IsInjective(s), x \notin Range(s), NEW i \in DOMAIN t, NEW j \in DOMAIN t, t[i] = t[j]
      PROVE  i = j
  <2>1. \A k \in DOMAIN s : s[k] # x
    BY <1>6 DEF Range
  <2>2. (i \in DOMAIN s \/ i = Len(s) + 1) /\ (j \in DOMAIN s \/ j = Len(s) + 1)
    BY <1>2
  <2>3. CASE i \in DOMAIN s /\ j \in DOMAIN s
    BY <1>2, <1>6, <2>3 DEF IsInjective
  <2>4. CASE i = Len(s) + 1 \/ j = Len(s) + 1
    BY <1>2, <1>6, <2>1, <2>2, <2>4
  <2> QED
    BY <2>2, <2>3, <2>4
<1>7. Range(t) = Range(s) \cup {x}
  BY <1>3, <1>4, <1>5
<1>8. IsInjective(s) /\ x \notin Range(s) => IsInjective(t)
  BY <1>6 DEF IsInjective
<1> QED
  BY <1>1, <1>7, <1>8

\* The empty sequence.
LEMMA RangeEmpty == Range(<<>>) = {} /\ IsInjective(<<>>)
  BY DEF Range, IsInjective

-----------------------------------------------------------------------------
(* Loader: the manifests.                                                  *)

\* A `requires` list.
LEMMA RequiresTyped ==
  ASSUME LoaderBase, NEW id \in Ids
  PROVE  /\ DOMAIN requires[id] \subseteq 1..MaxRequires /\ IsFiniteSet(DOMAIN requires[id])
         /\ \A k \in DOMAIN requires[id] : requires[id][k] \in Ids \cup {Missing}
<1>0. MaxRequires \in Nat
  BY LoaderAssumption
<1>1. requires[id] \in RequiresLists
  BY DEF LoaderBase
<1>2. PICK n \in 0..MaxRequires : requires[id] \in [1..n -> Ids \cup {Missing}]
  BY <1>1 DEF RequiresLists
<1>3. DOMAIN requires[id] = 1..n
  BY <1>2
<1>4. DOMAIN requires[id] \subseteq 1..MaxRequires
  BY <1>0, <1>2, <1>3
<1>5. IsFiniteSet(1..n)
  BY <1>0, <1>2, FS_Interval
<1> QED
  BY <1>2, <1>3, <1>4, <1>5

\* An eligible plugin requires plugins of the configuration only.
LEMMA EligibleRequires ==
  ASSUME LoaderBase, NEW id \in Eligible
  PROVE  id \in Ids /\ \A k \in DOMAIN requires[id] : requires[id][k] \in Ids
<1>1. id \in Ids /\ Missing \notin Requires(id)
  BY DEF LoaderBase, Eligible
<1>2. \A k \in DOMAIN requires[id] : requires[id][k] \in Ids \cup {Missing} /\ requires[id][k] # Missing
  BY <1>1, RequiresTyped DEF Requires, Range
<1> QED
  BY <1>1, <1>2

\* Who is eligible and what is circular change with the manifests only.
LEMMA ManifestsKept ==
  ASSUME UNCHANGED <<requires, valid>>
  PROVE  Eligible' = Eligible /\ Circular' = Circular /\ \A id : Requires(id)' = Requires(id)
<1>1. \A id : Requires(id)' = Requires(id)
  BY DEF Requires, Range
<1>2. Eligible' = Eligible
  BY <1>1 DEF Eligible
<1> QED
  BY <1>1, <1>2 DEF Circular

\* The order and what follows from it change with the manifests and `order` only.
LEMMA OrderKept ==
  ASSUME UNCHANGED <<requires, valid, order>>
  PROVE  (OrderInv => OrderInv') /\ Sorted' = Sorted
<1>1. Eligible' = Eligible /\ \A id : Requires(id)' = Requires(id)
  BY ManifestsKept
<1>2. OrderInv => OrderInv'
  BY <1>1 DEF OrderInv
<1> QED
  BY <1>1, <1>2 DEF Sorted, ConfigOrder

-----------------------------------------------------------------------------
(* Loader: up to the start of topo_sort.                                   *)

\* When the requirements are resolved, what is left is the eligible plugins.
LEMMA PrepareStep ==
  ASSUME LoaderInv, Validate \/ Resolve
  PROVE  LoaderInv'
<1>1. /\ UNCHANGED <<requires, valid, in_degree, queue, rest, order, loaded, dormant>>
      /\ queue = <<>> /\ rest = {} /\ order = <<>> /\ loaded = <<>> /\ dormant = {}
  BY DEF Validate, Resolve, manifests, sorting, effects, LoaderInv, LoaderBase
<1>2. Eligible' = Eligible /\ \A id : Requires(id)' = Requires(id)
  BY <1>1, ManifestsKept
<1>3. OrderInv'
  <2>1. order' \in Seq(Eligible') /\ DOMAIN order' = {}
    BY <1>1
  <2> QED
    BY <1>1, <2>1, RangeEmpty DEF OrderInv
<1>4. requires \in [Ids -> RequiresLists] /\ valid \in SUBSET Ids
  BY DEF LoaderInv, LoaderBase
<1>5. CASE Validate
  <2>1. pc' = "resolve" /\ refused' = Ids \ valid
    BY <1>5 DEF Validate
  <2> QED
    BY <1>1, <1>3, <1>4, <2>1 DEF LoaderInv, LoaderBase
<1>6. CASE Resolve
  <2>1. /\ pc' = "sort"
        /\ refused' = (Ids \ valid) \cup
             {id \in Ids : \E k \in DOMAIN requires[id] : requires[id][k] = Missing}
    BY <1>6 DEF Resolve, LoaderInv, LoaderBase
  <2>2. Ids \ refused' = Eligible
    BY <1>4, <2>1 DEF Eligible, Requires, Range
  <2>3. active' = Eligible' /\ refused' \subseteq Ids
    BY <1>2, <2>1, <2>2 DEF active
  <2> QED
    BY <1>1, <1>3, <1>4, <2>1, <2>3 DEF LoaderInv, LoaderBase
<1> QED
  BY <1>5, <1>6

\* in_degree starts as the number of requirements that are to be loaded.
LEMMA BeginStep ==
  ASSUME LoaderInv, SortBegin
  PROVE  LoaderInv'
<1>1. /\ UNCHANGED <<requires, valid, refused, rest, order, loaded, dormant>>
      /\ rest = {} /\ order = <<>> /\ loaded = <<>> /\ dormant = {}
      /\ pc = "sort" /\ pc' = "kahn"
      /\ in_degree' = [id \in Ids |-> IF id \in active THEN InDegree(id) ELSE 0]
      /\ queue' = ConfigOrder({id \in active : InDegree(id) = 0})
  BY DEF SortBegin, manifests, effects, LoaderInv, LoaderBase
<1>2. Eligible' = Eligible
  BY <1>1, ManifestsKept
<1>3. LoaderBase /\ active = Eligible /\ refused \subseteq Ids /\ Eligible \subseteq Ids
  BY <1>1 DEF LoaderInv, LoaderBase, Eligible
<1>4. LoaderBase'
  <2>1. active' = active
    BY <1>1 DEF active
  <2> QED
    BY <1>1, <1>2, <1>3, <2>1 DEF LoaderBase
<1>5. OrderInv'
  <2>1. order' \in Seq(Eligible') /\ DOMAIN order' = {}
    BY <1>1
  <2> QED
    BY <1>1, <2>1, RangeEmpty DEF OrderInv
<1>6. ASSUME NEW id \in Eligible
      PROVE  Pending(id)' = {k \in DOMAIN requires[id] : requires[id][k] \notin refused}
  BY <1>1, RangeEmpty DEF Pending
<1>7. ASSUME NEW id \in Eligible
      PROVE  /\ InDegree(id) \in Nat /\ in_degree'[id] = InDegree(id)
             /\ in_degree'[id] = Cardinality(Pending(id)')
  <2>1. IsFiniteSet({k \in DOMAIN requires[id] : requires[id][k] \notin refused})
    BY <1>3, RequiresTyped, FS_Subset
  <2> QED
    BY <1>1, <1>3, <1>6, <2>1, FS_CardinalityType DEF InDegree
<1>8. in_degree' \in [Ids -> Nat]
  BY <1>1, <1>3, <1>7
<1>9. PICK Q : Q = {id \in active : InDegree(id) = 0}
  OBVIOUS
<1>10. queue' \in Seq(Q) /\ IsInjective(queue') /\ Range(queue') = Q
  <2>1. Q \in SUBSET Ids
    BY <1>3, <1>9
  <2> QED
    BY <1>1, <1>9, <2>1, ConfigOrdered
<1>11. queue' \in Seq(Eligible)
  <2>1. Q \subseteq Eligible
    BY <1>3, <1>9
  <2> QED
    BY <1>10, <2>1
<1>12. \A id \in Eligible : in_degree'[id] = 0 <=> id \in Range(queue') \cup Range(order')
  BY <1>1, <1>3, <1>7, <1>9, <1>10, RangeEmpty
<1>13. KahnInv'
  BY <1>1, <1>2, <1>7, <1>8, <1>10, <1>11, <1>12, RangeEmpty DEF KahnInv
<1> QED
  BY <1>1, <1>4, <1>5, <1>13 DEF LoaderInv

-----------------------------------------------------------------------------
(* Loader: Kahn's algorithm.                                               *)

\* A step of the loop leaves what is settled alone.
LEMMA KahnFrame ==
  ASSUME LoaderInv, pc = "kahn", UNCHANGED <<requires, valid, pc, refused, loaded, dormant>>
  PROVE  /\ LoaderBase /\ OrderInv /\ KahnInv /\ LoaderBase'
         /\ Eligible' = Eligible /\ (\A id : Requires(id)' = Requires(id))
         /\ active = Eligible /\ refused \subseteq Ids /\ Eligible = Ids \ refused
<1>1. LoaderBase /\ OrderInv /\ KahnInv
  BY DEF LoaderInv
<1>2. Eligible' = Eligible /\ \A id : Requires(id)' = Requires(id)
  BY ManifestsKept
<1>3. active = Eligible /\ refused \subseteq Ids
  BY <1>1 DEF LoaderBase
<1>4. active' = active
  BY DEF active
<1>5. LoaderBase'
  BY <1>1, <1>2, <1>3, <1>4 DEF LoaderBase
<1> QED
  BY <1>1, <1>2, <1>3, <1>5 DEF active

\* Nothing of a queued plugin is pending.
LEMMA QueuedReady ==
  ASSUME LoaderBase, KahnInv, NEW id \in Eligible
  PROVE  /\ IsFiniteSet(Pending(id)) /\ Cardinality(Pending(id)) \in Nat
         /\ in_degree[id] = 0 <=> Pending(id) = {}
<1>1. id \in Ids
  BY EligibleRequires
<1>2. IsFiniteSet(Pending(id))
  <2>1. Pending(id) \in SUBSET DOMAIN requires[id]
    BY DEF Pending
  <2> QED
    BY <1>1, <2>1, RequiresTyped, FS_Subset
<1>3. in_degree[id] = Cardinality(Pending(id))
  BY DEF KahnInv
<1> QED
  BY <1>2, <1>3, FS_CardinalityType, FS_EmptySet

\* A plugin is popped: its dependants are about to be visited.
LEMMA PopStep ==
  ASSUME LoaderInv, SortPop
  PROVE  LoaderInv'
<1>1. /\ UNCHANGED <<requires, valid, pc, refused, loaded, dormant, in_degree>>
      /\ pc = "kahn" /\ rest = {} /\ queue # <<>> /\ queue' = Tail(queue)
  BY DEF SortPop, manifests, effects
<1>2. /\ LoaderBase /\ OrderInv /\ KahnInv /\ LoaderBase'
      /\ Eligible' = Eligible /\ (\A id : Requires(id)' = Requires(id))
      /\ active = Eligible /\ Eligible = Ids \ refused
  BY <1>1, KahnFrame
<1>3. PICK h : h = Head(queue)
  OBVIOUS
<1>4. order' = Append(order, h) /\ rest' = rev(h)
  BY <1>3 DEF SortPop
<1>5. /\ queue \in Seq(Eligible) /\ IsInjective(queue) /\ Range(queue) \cap Range(order) = {}
      /\ in_degree \in [Ids -> Nat]
      /\ \A id \in Eligible : in_degree[id] = Cardinality(Pending(id))
      /\ \A id \in Eligible : in_degree[id] = 0 <=> id \in Range(queue) \cup Range(order)
  BY <1>2 DEF KahnInv
<1>6. order \in Seq(Eligible) /\ IsInjective(order)
  BY <1>2 DEF OrderInv
<1>7. h \in Eligible /\ queue' \in Seq(Eligible)
  BY <1>1, <1>3, <1>5, TailOf
<1>8. IsInjective(queue') /\ Range(queue') = Range(queue) \ {h} /\ h \in Range(queue)
  BY <1>1, <1>3, <1>5, RangeOfTail
<1>9. h \notin Range(order)
  BY <1>5, <1>8
<1>10. /\ order' \in Seq(Eligible) /\ Len(order) \in Nat
       /\ \A k \in 1..Len(order) : order'[k] = order[k]
       /\ order'[Len(order) + 1] = h
       /\ DOMAIN order = 1..Len(order) /\ DOMAIN order' = 1..(Len(order) + 1)
  BY <1>4, <1>6, <1>7, AppendOf
<1>11. Range(order') = Range(order) \cup {h} /\ IsInjective(order')
  BY <1>4, <1>6, <1>7, <1>9, RangeOfAppend
<1>12. \A k \in DOMAIN requires[h] : requires[h][k] \notin refused => requires[h][k] \in Range(order)
  <2>1. Pending(h) = {}
    BY <1>2, <1>5, <1>7, <1>8, QueuedReady
  <2> QED
    BY <2>1 DEF Pending
<1>13. ASSUME NEW n \in DOMAIN order', NEW dep \in Requires(order'[n]) \cap Eligible
       PROVE  \E j \in 1..(n - 1) : order'[j] = dep
  <2>1. CASE n \in DOMAIN order
    <3>1. PICK j \in 1..(n - 1) : order[j] = dep
      BY <1>2, <1>10, <1>13, <2>1 DEF OrderInv
    <3> QED
      BY <1>10, <2>1, <3>1
  <2>2. CASE n = Len(order) + 1
    <3>1. dep \in Range(order)
      BY <1>2, <1>10, <1>12, <1>13, <2>2 DEF Requires, Range
    <3>2. PICK j \in DOMAIN order : order[j] = dep
      BY <3>1 DEF Range
    <3> QED
      BY <1>10, <2>2, <3>2
  <2> QED
    BY <1>10, <2>1, <2>2
<1>14. OrderInv'
  <2>1. \A n \in DOMAIN order' : \A dep \in Range(requires'[order'[n]]) \cap Eligible' :
          \E j \in 1..(n - 1) : order'[j] = dep
    BY <1>1, <1>2, <1>13 DEF Requires
  <2> QED
    BY <1>2, <1>10, <1>11, <2>1 DEF OrderInv, Requires
<1>15. \A e : e \in rev(h) <=> /\ e \in Eligible \X (1..MaxRequires)
                               /\ e[2] \in DOMAIN requires[e[1]] /\ requires[e[1]][e[2]] = h
  BY <1>2 DEF rev
<1>16. ASSUME NEW id \in Eligible PROVE Pending(id)' = Pending(id)
  <2>1. id \in Ids
    BY <1>2, EligibleRequires
  <2>2. ASSUME NEW k \in DOMAIN requires[id]
        PROVE  <<id, k>> \in rev(h) <=> requires[id][k] = h
    <3>1. k \in 1..MaxRequires
      BY <1>2, <2>1, RequiresTyped
    <3> QED
      BY <1>15, <3>1
  <2>3. ASSUME NEW k \in DOMAIN requires[id]
        PROVE  (requires[id][k] \in Range(order') => <<id, k>> \in rest')
               <=> (requires[id][k] \in Range(order) => <<id, k>> \in rest)
    BY <1>1, <1>4, <1>9, <1>11, <2>2
  <2> QED
    BY <1>1, <2>3 DEF Pending
<1>17. \A e \in rest' : /\ e = <<e[1], e[2]>> /\ e[1] \in Eligible /\ e[2] \in DOMAIN requires[e[1]]
                        /\ requires[e[1]][e[2]] \in Range(order')
  BY <1>4, <1>11, <1>15
<1>18. /\ \A id \in Eligible : in_degree'[id] = Cardinality(Pending(id)')
       /\ \A id \in Eligible : in_degree'[id] = 0 <=> id \in Range(queue') \cup Range(order')
       /\ Range(queue') \cap Range(order') = {}
  BY <1>1, <1>5, <1>8, <1>11, <1>16
<1>19. KahnInv'
  BY <1>1, <1>2, <1>5, <1>7, <1>8, <1>17, <1>18 DEF KahnInv
<1> QED
  BY <1>1, <1>2, <1>14, <1>19 DEF LoaderInv

\* An entry is visited: one requirement less is pending.
LEMMA EdgeStep ==
  ASSUME LoaderInv, SortEdge
  PROVE  LoaderInv'
<1>1. UNCHANGED <<requires, valid, pc, refused, loaded, dormant, order>> /\ pc = "kahn"
  BY DEF SortEdge, manifests, effects
<1>2. /\ LoaderBase /\ OrderInv /\ KahnInv /\ LoaderBase'
      /\ Eligible' = Eligible /\ (\A id : Requires(id)' = Requires(id))
      /\ active = Eligible /\ Eligible = Ids \ refused
  BY <1>1, KahnFrame
<1>3. PICK e \in rest : /\ in_degree' = [in_degree EXCEPT ![e[1]] = Decremented(@)]
                        /\ queue' = IF Ready(e[1]) THEN Append(queue, e[1]) ELSE queue
                        /\ rest' = rest \ {e}
  BY DEF SortEdge
<1>4. PICK id, k : e = <<id, k>> /\ id \in Eligible /\ k \in DOMAIN requires[id]
                   /\ requires[id][k] \in Range(order)
  BY <1>2, <1>3 DEF KahnInv
<1>5. /\ queue \in Seq(Eligible) /\ IsInjective(queue) /\ Range(queue) \cap Range(order) = {}
      /\ in_degree \in [Ids -> Nat]
      /\ \A i \in Eligible : in_degree[i] = Cardinality(Pending(i))
      /\ \A i \in Eligible : in_degree[i] = 0 <=> i \in Range(queue) \cup Range(order)
      /\ \A f \in rest : /\ f = <<f[1], f[2]>> /\ f[1] \in Eligible /\ f[2] \in DOMAIN requires[f[1]]
                         /\ requires[f[1]][f[2]] \in Range(order)
  BY <1>2 DEF KahnInv
<1>6. order \in Seq(Eligible) /\ Range(order) \subseteq Eligible
  BY <1>2, InjectiveCounts DEF OrderInv
<1>7. k \in Pending(id)
  BY <1>2, <1>3, <1>4, <1>6 DEF Pending
<1>8. IsFiniteSet(Pending(id)) /\ Cardinality(Pending(id)) \in Nat /\ Cardinality(Pending(id)) # 0
  <2>1. IsFiniteSet(Pending(id)) /\ Cardinality(Pending(id)) \in Nat
    BY <1>2, <1>4, QueuedReady
  <2> QED
    BY <1>7, <2>1, FS_EmptySet
<1>9. Pending(id)' = Pending(id) \ {k}
  BY <1>1, <1>3, <1>4 DEF Pending
<1>10. ASSUME NEW i \in Eligible, i # id PROVE Pending(i)' = Pending(i)
  BY <1>1, <1>3, <1>4, <1>10 DEF Pending
<1>11. Cardinality(Pending(id)') = Cardinality(Pending(id)) - 1
  BY <1>7, <1>8, <1>9, FS_RemoveElement
<1>12. /\ in_degree[id] \in Nat \ {0} /\ in_degree'[id] = in_degree[id] - 1
       /\ \A i \in Eligible : i # id => in_degree'[i] = in_degree[i]
       /\ in_degree' \in [Ids -> Nat]
  <2>1. id \in Ids /\ e[1] = id
    BY <1>2, <1>4
  <2>2. in_degree[id] \in Nat \ {0}
    BY <1>4, <1>5, <1>8
  <2>3. Decremented(in_degree[id]) = in_degree[id] - 1
    BY <2>2 DEF Decremented
  <2> QED
    BY <1>2, <1>3, <1>5, <2>1, <2>2, <2>3
<1>13. \A i \in Eligible : in_degree'[i] = Cardinality(Pending(i)')
  BY <1>4, <1>5, <1>10, <1>11, <1>12
<1>14. id \notin Range(queue) \cup Range(order)
  BY <1>4, <1>5, <1>12
<1>15. Ready(e[1]) <=> in_degree'[id] = 0
  BY <1>4, <1>12 DEF Ready, Decremented
<1>16. /\ queue' \in Seq(Eligible) /\ IsInjective(queue')
       /\ Range(queue') = IF in_degree'[id] = 0 THEN Range(queue) \cup {id} ELSE Range(queue)
  <2>1. CASE Ready(e[1])
    <3>1. queue' = Append(queue, id)
      BY <1>3, <1>4, <2>1
    <3>2. queue' \in Seq(Eligible)
      BY <1>4, <1>5, <3>1, AppendOf
    <3>3. IsInjective(queue') /\ Range(queue') = Range(queue) \cup {id}
      BY <1>4, <1>5, <1>14, <3>1, RangeOfAppend
    <3> QED
      BY <1>15, <2>1, <3>2, <3>3
  <2>2. CASE ~Ready(e[1])
    BY <1>3, <1>5, <1>15, <2>2
  <2> QED
    BY <2>1, <2>2
<1>17. \A i \in Eligible : in_degree'[i] = 0 <=> i \in Range(queue') \cup Range(order')
  <2>1. ASSUME NEW i \in Eligible, i # id
        PROVE  in_degree'[i] = 0 <=> i \in Range(queue') \cup Range(order')
    BY <1>1, <1>5, <1>12, <1>16, <2>1
  <2>2. in_degree'[id] = 0 <=> id \in Range(queue') \cup Range(order')
    BY <1>1, <1>14, <1>16
  <2> QED
    BY <2>1, <2>2
<1>18. Range(queue') \cap Range(order') = {}
  BY <1>1, <1>5, <1>14, <1>16
<1>19. \A f \in rest' : /\ f = <<f[1], f[2]>> /\ f[1] \in Eligible' /\ f[2] \in DOMAIN requires'[f[1]]
                        /\ requires'[f[1]][f[2]] \in Range(order')
  BY <1>1, <1>2, <1>3, <1>5
<1>20. KahnInv'
  BY <1>2, <1>12, <1>13, <1>16, <1>17, <1>18, <1>19 DEF KahnInv
<1>21. OrderInv'
  BY <1>1, <1>2, OrderKept
<1> QED
  BY <1>1, <1>2, <1>20, <1>21 DEF LoaderInv

\* Nothing that was popped is on a cycle or depends on one: the first of them
\* would require one popped before it.
LEMMA PoppedNotCircular ==
  ASSUME OrderInv
  PROVE  Range(order) \cap Circular = {}
<1> SUFFICES ASSUME NEW id \in Range(order), id \in Circular PROVE FALSE
  OBVIOUS
<1>1. PICK s \in SUBSET Eligible : id \in s /\ \A i \in s : Requires(i) \cap s # {}
  BY DEF Circular
<1>2. Len(order) \in Nat /\ DOMAIN order = 1..Len(order)
  BY DEF OrderInv
<1>3. PICK T : T = {n \in DOMAIN order : order[n] \in s}
  OBVIOUS
<1>4. T # {} /\ T \subseteq Nat
  BY <1>1, <1>2, <1>3 DEF Range
<1>5. PICK n \in T : \A m \in T : <<m, n>> \notin OpToRel(<, Nat)
  BY <1>4, NatLessThanWellFounded, WFMin
<1>6. PICK dep : dep \in Requires(order[n]) /\ dep \in s
  BY <1>1, <1>3, <1>5
<1>7. PICK j \in 1..(n - 1) : order[j] = dep
  BY <1>1, <1>3, <1>5, <1>6 DEF OrderInv
<1>8. j \in T /\ j < n /\ j \in Nat /\ n \in Nat
  <2>1. n \in 1..Len(order)
    BY <1>2, <1>3, <1>5
  <2>2. j \in 1..Len(order) /\ j < n /\ j \in Nat /\ n \in Nat
    BY <1>2, <1>7, <2>1
  <2> QED
    BY <1>2, <1>3, <1>6, <1>7, <2>2
<1>9. <<j, n>> \in OpToRel(<, Nat)
  BY <1>8 DEF OpToRel
<1> QED
  BY <1>5, <1>8, <1>9

\* Everything that was not popped when the queue is empty is: each of them
\* requires another.
LEMMA RestCircular ==
  ASSUME LoaderInv, pc = "kahn", rest = {}, queue = <<>>
  PROVE  Circular = Eligible \ Range(order)
<1>1. LoaderBase /\ OrderInv /\ KahnInv /\ active = Eligible /\ Eligible = Ids \ refused
  BY KahnFrame DEF LoaderInv, LoaderBase, active
<1>2. PICK U : U = Eligible \ Range(order)
  OBVIOUS
<1>3. ASSUME NEW id \in U PROVE Requires(id) \cap U # {}
  <2>1. id \in Eligible /\ in_degree[id] # 0
    BY <1>1, <1>2, RangeEmpty DEF KahnInv
  <2>2. Pending(id) # {}
    BY <1>1, <2>1, QueuedReady
  <2>3. PICK k \in DOMAIN requires[id] : requires[id][k] \notin refused /\ requires[id][k] \notin Range(order)
    BY <2>2 DEF Pending
  <2>4. requires[id][k] \in Ids
    BY <1>1, <2>1, EligibleRequires
  <2> QED
    BY <1>1, <1>2, <2>3, <2>4 DEF Requires, Range
<1>4. U \subseteq Circular
  BY <1>2, <1>3 DEF Circular
<1>5. Circular \subseteq Eligible
  BY DEF Circular
<1> QED
  BY <1>1, <1>2, <1>4, <1>5, PoppedNotCircular

\* What is to be loaded is what was popped.
LEMMA SortedIsPopped ==
  ASSUME LoaderBase, OrderInv
  PROVE  /\ Sorted \in Seq(Eligible) /\ Range(Sorted) = Range(order)
         /\ IsInjective(Sorted) /\ Len(Sorted) = Cardinality(Range(order))
         /\ Len(Sorted) \in Nat /\ DOMAIN Sorted = 1..Len(Sorted)
<1>1. order \in Seq(Eligible) /\ IsInjective(order)
  BY DEF OrderInv
<1>2. Range(order) \subseteq Eligible /\ Cardinality(Range(order)) = Len(order)
  BY <1>1, InjectiveCounts
<1>3. Range(order) \in SUBSET Ids
  BY <1>2 DEF LoaderBase, Eligible
<1>4. PICK C : C = ConfigOrder(Range(order))
  OBVIOUS
<1>5. /\ C \in Seq(Range(order)) /\ IsInjective(C) /\ Range(C) = Range(order)
      /\ Len(C) = Cardinality(Range(order))
  BY <1>3, <1>4, ConfigOrdered
<1>6. C \in Seq(Eligible)
  BY <1>2, <1>5
<1>7. /\ Sorted \in Seq(Eligible) /\ Range(Sorted) = Range(order) /\ IsInjective(Sorted)
      /\ Len(Sorted) = Cardinality(Range(order))
  BY <1>1, <1>2, <1>4, <1>5, <1>6 DEF Sorted
<1> QED
  BY <1>7

\* The sort is over: what was not popped is refused.
LEMMA EndStep ==
  ASSUME LoaderInv, SortEnd
  PROVE  LoaderInv'
<1>1. /\ UNCHANGED <<requires, valid, in_degree, queue, rest, order, loaded, dormant>>
      /\ pc = "kahn" /\ rest = {} /\ queue = <<>> /\ pc' = "load"
  BY DEF SortEnd, manifests, sorting, effects
<1>2. LoaderBase /\ OrderInv /\ KahnInv /\ active = Eligible /\ loaded = <<>> /\ dormant = {}
  BY <1>1 DEF LoaderInv, LoaderBase
<1>3. Eligible' = Eligible /\ Circular' = Circular /\ \A id : Requires(id)' = Requires(id)
  BY <1>1, ManifestsKept
<1>4. Circular = Eligible \ Range(order)
  BY <1>1, RestCircular
<1>5. OrderInv'
  BY <1>1, <1>2, OrderKept
<1>6. LoaderBase'
  BY <1>1, <1>2 DEF LoaderBase
<1>7. Sorted' = Sorted
  BY <1>1, OrderKept
<1>8. plan' = Sorted
  <2>1. Len(order) = Cardinality(Range(order)) /\ Len(order) \in Nat /\ Range(order) \subseteq Eligible
        /\ IsFiniteSet(Range(order))
    BY <1>2, InjectiveCounts DEF OrderInv
  <2>2. IsFiniteSet(Eligible) /\ Cardinality(Eligible) \in Nat
    <3>1. IsFiniteSet(Ids)
      BY LoaderAssumption, FS_Interval DEF Ids
    <3>2. Eligible \in SUBSET Ids
      BY <1>2 DEF LoaderBase, Eligible
    <3> QED
      BY <3>1, <3>2, FS_Subset, FS_CardinalityType
  <2>3. Cardinality(Range(order)) <= Cardinality(Eligible)
        /\ (Cardinality(Eligible) = Cardinality(Range(order)) => Eligible = Range(order))
    BY <2>1, <2>2, FS_Subset
  <2>4. Len(order) < Cardinality(active) <=> ~(Eligible \subseteq Range(order))
    <3>1. CASE Eligible \subseteq Range(order)
      <4>1. Eligible = Range(order)
        BY <2>1, <3>1
      <4> QED
        BY <1>2, <2>1, <2>2, <3>1, <4>1
    <3>2. CASE ~(Eligible \subseteq Range(order))
      <4>1. Cardinality(Eligible) # Cardinality(Range(order))
        BY <2>3, <3>2
      <4> QED
        BY <1>2, <2>1, <2>2, <2>3, <3>2, <4>1
    <3> QED
      BY <3>1, <3>2
  <2>5. plan' = IF Len(order) < Cardinality(active) THEN ConfigOrder(Range(order)) ELSE order
    BY DEF SortEnd
  <2> QED
    BY <2>4, <2>5 DEF Sorted
<1>9. Sorted \in Seq(Eligible) /\ Len(Sorted) \in Nat /\ DOMAIN Sorted = 1..Len(Sorted)
  BY <1>2, SortedIsPopped
<1>10. Len(loaded) = 0 /\ loaded \in Seq(Eligible) /\ Range(loaded) = {} /\ DOMAIN loaded = {}
  BY <1>2, RangeEmpty
<1>11. /\ Len(loaded') + Len(plan') = Len(Sorted')
       /\ \A k \in DOMAIN plan' : plan'[k] = Sorted'[Len(loaded') + k]
  <2>1. \A k \in DOMAIN Sorted : 0 + k = k
    BY <1>9
  <2> QED
    BY <1>1, <1>7, <1>8, <1>9, <1>10, <2>1
<1>12. LoadInv'
  BY <1>1, <1>2, <1>3, <1>4, <1>8, <1>9, <1>10, <1>11 DEF LoadInv
<1> QED
  BY <1>1, <1>5, <1>6, <1>12 DEF LoaderInv

-----------------------------------------------------------------------------
(* Loader: the loading loop, and the theorems.                             *)

\* The next plugin of the plan is loaded.
LEMMA LoadStep ==
  ASSUME LoaderInv, RegisterLazy \/ StartOk \/ StartFails
  PROVE  LoaderInv'
<1>1. /\ UNCHANGED <<requires, valid, pc, refused, in_degree, queue, rest, order>>
      /\ pc = "load" /\ plan # <<>> /\ plan' = Tail(plan)
  BY DEF RegisterLazy, StartOk, StartFails, manifests, sorting
<1>2. PICK h : h = Head(plan)
  OBVIOUS
<1>3. loaded' = Append(loaded, h) /\ dormant' = dormant \cup {id \in {h} : Sleeps(id)}
  BY <1>2 DEF RegisterLazy, StartOk, StartFails, register_dormant
<1>4. LoaderBase /\ OrderInv /\ LoadInv
  BY <1>1 DEF LoaderInv
<1>5. Eligible' = Eligible /\ Circular' = Circular /\ \A id : Requires(id)' = Requires(id)
  BY <1>1, ManifestsKept
<1>6. OrderInv'
  BY <1>1, <1>4, OrderKept
<1>7. LoaderBase'
  BY <1>1, <1>4 DEF LoaderBase
<1>8. Sorted' = Sorted
  BY <1>1, OrderKept
<1>9. /\ loaded \in Seq(Eligible) /\ plan \in Seq(Eligible) /\ Circular = Eligible \ Range(order)
      /\ Len(loaded) + Len(plan) = Len(Sorted)
      /\ \A k \in DOMAIN loaded : loaded[k] = Sorted[k]
      /\ \A k \in DOMAIN plan : plan[k] = Sorted[Len(loaded) + k]
      /\ dormant = {id \in Range(loaded) : Sleeps(id)}
  BY <1>4 DEF LoadInv
<1>10. /\ h \in Eligible /\ h = plan[1] /\ 1 \in DOMAIN plan /\ Len(plan) \in Nat \ {0}
       /\ plan' \in Seq(Eligible) /\ Len(plan') = Len(plan) - 1
       /\ \A k \in 1..(Len(plan) - 1) : plan'[k] = plan[k + 1]
       /\ DOMAIN plan = 1..Len(plan) /\ DOMAIN plan' = 1..(Len(plan) - 1)
  BY <1>1, <1>2, <1>9, TailOf
<1>11. /\ loaded' \in Seq(Eligible) /\ Len(loaded') = Len(loaded) + 1 /\ Len(loaded) \in Nat
       /\ \A k \in 1..Len(loaded) : loaded'[k] = loaded[k]
       /\ loaded'[Len(loaded) + 1] = h
       /\ DOMAIN loaded = 1..Len(loaded) /\ DOMAIN loaded' = 1..(Len(loaded) + 1)
  BY <1>3, <1>9, <1>10, AppendOf
<1>12. Range(loaded') = Range(loaded) \cup {h}
  BY <1>3, <1>9, <1>10, RangeOfAppend
<1>13. Len(loaded') + Len(plan') = Len(Sorted)
  BY <1>9, <1>10, <1>11
<1>14. ASSUME NEW k \in DOMAIN loaded' PROVE loaded'[k] = Sorted[k]
  <2>1. CASE k \in 1..Len(loaded)
    BY <1>9, <1>11, <2>1
  <2>2. CASE k = Len(loaded) + 1
    BY <1>9, <1>10, <1>11, <2>2
  <2> QED
    BY <1>11, <2>1, <2>2
<1>15. ASSUME NEW k \in DOMAIN plan' PROVE plan'[k] = Sorted[Len(loaded') + k]
  <2>1. k + 1 \in DOMAIN plan /\ plan'[k] = plan[k + 1]
    BY <1>10
  <2>2. Len(loaded) + (k + 1) = Len(loaded') + k
    BY <1>10, <1>11
  <2>3. plan[k + 1] = Sorted[Len(loaded) + (k + 1)]
    BY <1>9, <2>1
  <2> QED
    BY <2>1, <2>2, <2>3
<1>16. dormant' = {id \in Range(loaded') : Sleeps(id)}
  BY <1>3, <1>9, <1>12
<1>17. LoadInv'
  BY <1>1, <1>5, <1>8, <1>9, <1>10, <1>11, <1>13, <1>14, <1>15, <1>16 DEF LoadInv, Sleeps
<1> QED
  BY <1>1, <1>6, <1>7, <1>17 DEF LoaderInv

\* The boot is over.
LEMMA FinishStep ==
  ASSUME LoaderInv, Finish
  PROVE  LoaderInv'
<1>1. /\ UNCHANGED <<requires, valid, refused, in_degree, queue, rest, order, plan, loaded, dormant>>
      /\ pc = "load" /\ plan = <<>> /\ pc' \in {"ready", "ready_with_waker"}
  BY DEF Finish, manifests, sorting, effects
<1>2. LoaderBase /\ OrderInv /\ LoadInv
  BY <1>1 DEF LoaderInv
<1>3. Eligible' = Eligible /\ Circular' = Circular /\ \A id : Requires(id)' = Requires(id)
  BY <1>1, ManifestsKept
<1>4. LoaderBase'
  BY <1>1, <1>2 DEF LoaderBase
<1>5. OrderInv'
  BY <1>1, <1>2, OrderKept
<1>6. Sorted' = Sorted
  BY <1>1, OrderKept
<1>7. LoadInv'
  BY <1>1, <1>2, <1>3, <1>6 DEF LoadInv, Sleeps
<1> QED
  BY <1>1, <1>4, <1>5, <1>7 DEF LoaderInv

\* Every step of the boot keeps the invariant.
LEMMA LoaderStep == LoaderInv /\ [LoaderNext]_loaderVars => LoaderInv'
<1> SUFFICES ASSUME LoaderInv, [LoaderNext]_loaderVars PROVE LoaderInv'
  OBVIOUS
<1>1. CASE UNCHANGED loaderVars
  <2>1. UNCHANGED <<requires, valid, pc, refused, in_degree, queue, rest, order, plan, loaded, dormant>>
    BY <1>1 DEF loaderVars, manifests, sorting, effects
  <2>2. Eligible' = Eligible /\ Circular' = Circular /\ \A id : Requires(id)' = Requires(id)
    BY <2>1, ManifestsKept
  <2>3. LoaderBase' = LoaderBase
    BY <2>1, <2>2 DEF LoaderBase, active
  <2>4. OrderInv => OrderInv'
    BY <2>1, OrderKept
  <2>5. KahnInv' = KahnInv
    BY <2>1, <2>2 DEF KahnInv, Pending
  <2>6. Sorted' = Sorted
    BY <2>1, OrderKept
  <2>7. LoadInv' = LoadInv
    BY <2>1, <2>2, <2>6 DEF LoadInv, Sleeps
  <2> QED
    BY <2>1, <2>3, <2>4, <2>5, <2>7 DEF LoaderInv
<1> QED
  BY <1>1, PrepareStep, BeginStep, PopStep, EdgeStep, EndStep, LoadStep, FinishStep DEF LoaderNext

\* At first nothing is refused, sorted or loaded.
LEMMA LoaderStart == LoaderInit => LoaderInv
<1> SUFFICES ASSUME LoaderInit PROVE LoaderInv
  OBVIOUS
<1>1. LoaderBase
  BY DEF LoaderInit, LoaderBase
<1>2. order = <<>> /\ order \in Seq(Eligible) /\ DOMAIN order = {}
  BY DEF LoaderInit
<1>3. OrderInv
  BY <1>2, RangeEmpty DEF OrderInv
<1> QED
  BY <1>1, <1>3 DEF LoaderInit, LoaderInv

\* "Deps are loaded first" (load_all, topo_sort), for every number of plugins
\* and every graph of requirements without a cycle, with repeated and refused
\* requirements: Kahn's algorithm is right.
THEOREM DependenciesFirst == LoaderSpec => []DepsFirst
<1>1. LoaderInv => DepsFirst
  <2> SUFFICES ASSUME LoaderInv, Circular = {}, NEW k \in DOMAIN loaded,
                      NEW dep \in Requires(loaded[k]) \cap Eligible
               PROVE  \E j \in 1..(k - 1) : loaded[j] = dep
    BY DEF DepsFirst
  <2>1. LoaderBase /\ OrderInv /\ LoadInv
    <3>1. DOMAIN <<>> = {}
      OBVIOUS
    <3> QED
      BY <3>1 DEF LoaderInv, LoaderBase
  <2>2. Sorted = order
    BY <2>1 DEF LoadInv, Sorted
  <2>3. /\ loaded \in Seq(Eligible) /\ plan \in Seq(Eligible)
        /\ Len(loaded) + Len(plan) = Len(order)
        /\ \A i \in DOMAIN loaded : loaded[i] = order[i]
    BY <2>1, <2>2 DEF LoadInv
  <2>4. order \in Seq(Eligible)
    BY <2>1 DEF OrderInv
  <2>5. /\ Len(loaded) \in Nat /\ Len(plan) \in Nat /\ Len(order) \in Nat
        /\ DOMAIN loaded = 1..Len(loaded) /\ DOMAIN order = 1..Len(order)
    BY <2>3, <2>4
  <2>6. k \in DOMAIN order /\ loaded[k] = order[k]
    BY <2>3, <2>5
  <2>7. PICK j \in 1..(k - 1) : order[j] = dep
    BY <2>1, <2>6 DEF OrderInv
  <2>8. j \in DOMAIN loaded
    BY <2>5, <2>7
  <2> QED
    BY <2>3, <2>7, <2>8
<1> QED
  BY <1>1, LoaderStart, LoaderStep, PTL DEF LoaderSpec

\* "Circular dependencies are refused. Missing deps refuse the dependant", and
\* nothing else does (load_all): for every number of plugins, when the boot is
\* over every other valid plugin has been started or is dormant, and once only,
\* although starts failed.
THEOREM TheRestIsLoaded == LoaderSpec => []LoadsTheRest
<1>1. LoaderInv => LoadsTheRest
  <2> SUFFICES ASSUME LoaderInv, pc \in {"ready", "ready_with_waker"}
               PROVE  /\ Range(loaded) = Eligible \ Circular
                      /\ Len(loaded) = Cardinality(Eligible \ Circular)
                      /\ dormant = {id \in Eligible \ Circular : Sleeps(id)}
    BY DEF LoadsTheRest
  <2>1. LoaderBase /\ OrderInv /\ LoadInv
    BY DEF LoaderInv
  <2>2. /\ Circular = Eligible \ Range(order) /\ loaded \in Seq(Eligible) /\ plan = <<>>
        /\ Len(loaded) + Len(plan) = Len(Sorted)
        /\ \A k \in DOMAIN loaded : loaded[k] = Sorted[k]
        /\ dormant = {id \in Range(loaded) : Sleeps(id)}
    BY <2>1 DEF LoadInv
  <2>3. /\ Range(Sorted) = Range(order) /\ Len(Sorted) = Cardinality(Range(order))
        /\ Len(Sorted) \in Nat /\ DOMAIN Sorted = 1..Len(Sorted)
    BY <2>1, SortedIsPopped
  <2>4. Len(loaded) = Len(Sorted) /\ DOMAIN loaded = DOMAIN Sorted
    <3>0. loaded \in Seq(Eligible)
      BY <2>2
    <3>1. Len(loaded) \in Nat /\ DOMAIN loaded = 1..Len(loaded)
      BY <3>0
    <3>2. Len(<<>>) = 0
      OBVIOUS
    <3>3. Len(loaded) + 0 = Len(Sorted)
      BY <2>2, <3>2
    <3>4. Len(loaded) = Len(Sorted)
      BY <3>1, <3>3
    <3> QED
      BY <2>3, <3>1, <3>4
  <2>5. Range(loaded) = Range(order)
    BY <2>2, <2>3, <2>4 DEF Range
  <2>6. Range(order) \subseteq Eligible
    BY <2>1, InjectiveCounts DEF OrderInv
  <2>7. Eligible \ Circular = Range(order)
    BY <2>2, <2>6
  <2> QED
    BY <2>2, <2>3, <2>4, <2>5, <2>7
<1> QED
  BY <1>1, LoaderStart, LoaderStep, PTL DEF LoaderSpec

-----------------------------------------------------------------------------
(* Events: subscriptions.                                                  *)

\* Between its two writes, unsubscribe has the plugin out of the type's set,
\* and only the loader could put it back: unsubscribe is the router's.
SubscriptionInv ==
    /\ NoOrphanSubscription
    /\ \A p \in subscriptions : At("router", "unsubscribe", p) => p \in crossed
    /\ writer \in [Writers -> [pc : {"idle", "subscribe", "unsubscribe", "take", "clear", "register"},
                               id : Plugins \cup {None}]]

\* Nobody is subscribed at first.
LEMMA SubscriptionInit == Init => SubscriptionInv
  BY DEF Init, SubscriptionInv, NoOrphanSubscription, AtRest

\* Every step of the router, the boot task and the disconnect loops and a crash
\* keep the two sets together; no other step touches them.
LEMMA SubscriptionStep == SubscriptionInv /\ [Next]_vars => SubscriptionInv'
<1> SUFFICES ASSUME SubscriptionInv, [Next]_vars PROVE SubscriptionInv'
  OBVIOUS
<1> USE DEF SubscriptionInv, NoOrphanSubscription, AtRest, At, Writers, Loops, bus, history, vars
<1>1. ASSUME UNCHANGED <<subscriptions, by_plugin, writer, crossed>> PROVE SubscriptionInv'
  BY <1>1
<1>2. ASSUME NEW p \in Plugins, Subscribe(p) PROVE SubscriptionInv'
  BY <1>2 DEF Subscribe, SubscribeWrite, Go
<1>3. ASSUME NEW p \in Plugins, LoaderSubscribe(p) PROVE SubscriptionInv'
  BY <1>3 DEF LoaderSubscribe, SubscribeWrite, Go
<1>4. ASSUME NEW t \in Writers, Subscribed(t) PROVE SubscriptionInv'
  BY <1>4 DEF Subscribed, SubscribeWrite, Done
<1>5. ASSUME NEW p \in Plugins, Unsubscribe(p) PROVE SubscriptionInv'
  BY <1>5 DEF Unsubscribe, Go
<1>6. CASE Unsubscribed
  BY <1>6 DEF Unsubscribed, Done
<1>7. ASSUME NEW p \in Plugins, NEW t \in Writers, Disconnect(t, p) PROVE SubscriptionInv'
  BY <1>7 DEF Disconnect, Go
<1>8. ASSUME NEW t \in Writers, UnsubscribeTake(t) PROVE SubscriptionInv'
  BY <1>8 DEF UnsubscribeTake, AfterClear, Go, Done
<1>9. ASSUME NEW t \in Writers, UnsubscribeClear(t) PROVE SubscriptionInv'
  BY <1>9 DEF UnsubscribeClear, AfterClear, Go, Done
<1>10. CASE Crash
  BY <1>10 DEF Crash
<1>11. ASSUME NEW p \in Plugins, Register(p) PROVE SubscriptionInv'
  BY <1>11 DEF Register, Done
<1>12. ASSUME NEW p \in Plugins, Close(p) \/ Stopped(p) \/ Receive(p) PROVE SubscriptionInv'
  BY <1>1, <1>12 DEF Close, Stopped, Receive
<1>13. ASSUME NEW p \in Plugins, NEW e \in EventIds, EventAck(p, e) PROVE SubscriptionInv'
  BY <1>1, <1>13 DEF EventAck
<1>14. ASSUME NEW e \in EventIds, Publish(e) \/ Publishing(e) \/ Age(e) PROVE SubscriptionInv'
  BY <1>1, <1>14 DEF Publish, Publishing, Persist, PublishDeliver, Age
<1>15. CASE Worker
  BY <1>1, <1>15 DEF Worker, WorkerScan, WorkerBump, WorkerPrune, WorkerRedeliver, WorkerSleep
<1>16. CASE Quiet \/ UNCHANGED vars
  BY <1>1, <1>16 DEF Quiet
<1> QED
  BY <1>2, <1>3, <1>4, <1>5, <1>6, <1>7, <1>8, <1>9, <1>10, <1>11, <1>12, <1>13, <1>14, <1>15, <1>16
  DEF Next, BusStep, Evict

\* unsubscribe_all finds every subscription, whichever tasks subscribe and clean
\* up at once, except one that is being written or cleared at the moment, and one
\* that the loader began to write between the two writes of an unsubscribe.
THEOREM SubscriptionsFound == Spec => []NoOrphanSubscription
<1>1. SubscriptionInv => NoOrphanSubscription
  BY DEF SubscriptionInv
<1> QED
  BY SubscriptionInit, SubscriptionStep, <1>1, PTL DEF Spec

-----------------------------------------------------------------------------
(* Events: deliveries.                                                     *)

\* The types the count of deliveries needs.
TypeInv ==
    /\ status \in [EventIds -> {"none", "pending", "delivered", "dead", "pruned"}]
    /\ retry_count \in [EventIds -> Nat]
    /\ aged \subseteq EventIds
    /\ publish \in [EventIds -> {"new", "persist", "deliver", "done"}]
    /\ worker \in [pc : {"sleep", "bump", "redeliver"}, batch : Seq(EventIds),
                   out : Seq(EventIds)]
    /\ sends \in [EventIds -> Nat]
    /\ uncounted \in [EventIds -> Nat] /\ unmarked \in [EventIds -> Nat]

\* The least limit that increment_retry_or_dead enforces.
Limit == Max({1, max_retries})

\* Deliveries of e that are still to come from its publisher ...
Unpublished(e) == IF publish[e] = "done" THEN 0 ELSE 1

\* ... and from the worker, which has counted e already.
Counted(e) == IF \E k \in DOMAIN worker.out : worker.out[k] = e THEN 1 ELSE 0

\* Deliveries that rounds of the worker account for, counted by the store or not.
Paid(e) == 1 + retry_count[e] + uncounted[e]

\* What the count may reach: a round that was not marked leaves the event pending.
Allowed(e) == Limit + unmarked[e]

\* No event is twice in the worker's hands.
Distinct ==
    /\ \A j, k \in DOMAIN worker.batch : worker.batch[j] = worker.batch[k] => j = k
    /\ \A j, k \in DOMAIN worker.out : worker.out[j] = worker.out[k] => j = k
    /\ \A j \in DOMAIN worker.batch, k \in DOMAIN worker.out : worker.batch[j] # worker.out[k]

\* Every delivery of a retry comes after a round of its own; an event that may be
\* counted again is below the limit, and so is one that the worker read before it
\* was delivered.
RetryInv ==
    /\ \A e \in EventIds : sends[e] + Unpublished(e) + Counted(e) <= Paid(e)
    /\ \A e \in EventIds : retry_count[e] <= Allowed(e)
    /\ \A e \in EventIds : status[e] \in {"none", "pending"} => retry_count[e] < Allowed(e)
    /\ \A k \in DOMAIN worker.batch : retry_count[worker.batch[k]] < Allowed(worker.batch[k])
    /\ Distinct

\* The limit is max_retries, and at least 1.
LEMMA LimitIsMax == Limit \in Nat /\ Limit >= 1 /\ Limit >= max_retries /\ Limit \in {1, max_retries}
<1>1. max_retries \in Nat
  BY EventsAssumption
<1>2. \E x \in {1, max_retries} : \A y \in {1, max_retries} : x >= y
  BY <1>1
<1> QED
  BY <1>1, <1>2 DEF Limit, Max

\* A batch has every due event once.
LEMMA BatchOK ==
  ASSUME aged \subseteq EventIds, NEW unread, NEW batch \in SetToSeqs(pending_older_than \ unread)
  PROVE  /\ batch \in Seq(EventIds)
         /\ \A k \in DOMAIN batch : batch[k] \in EventIds /\ status[batch[k]] = "pending"
         /\ \A j, k \in DOMAIN batch : batch[j] = batch[k] => j = k
<1> DEFINE S == pending_older_than \ unread
<1>1. S \subseteq EventIds
  BY DEF pending_older_than
<1>2. IsFiniteSet(EventIds)
  BY FS_Interval, EventsAssumption DEF EventIds
<1>3. Cardinality(S) \in Nat
  BY <1>1, <1>2, FS_Subset, FS_CardinalityType
<1>4. batch \in [1..Cardinality(S) -> S]
  BY DEF SetToSeqs
<1>5. \A j, k \in 1..Cardinality(S) : j # k => batch[j] # batch[k]
  BY DEF SetToSeqs
<1>6. batch \in Seq(EventIds)
  <2> HIDE DEF S
  <2>1. batch \in [1..Cardinality(S) -> EventIds]
    BY <1>1, <1>4
  <2> QED
    BY <1>3, <2>1
<1>7. \A e \in S : e \in EventIds /\ status[e] = "pending"
  BY <1>1 DEF pending_older_than
<1> QED
  BY <1>4, <1>5, <1>6, <1>7

\* The empty store has its types, and nothing has been sent.
LEMMA RetryInit == Init => TypeInv /\ RetryInv
<1> SUFFICES ASSUME Init PROVE TypeInv /\ RetryInv
  OBVIOUS
<1>1. TypeInv
  BY DEF Init, TypeInv, WorkerIdle
<1>2. RetryInv
  BY LimitIsMax DEF Init, RetryInv, Distinct, Unpublished, Counted, Paid, Allowed, WorkerIdle
<1> QED
  BY <1>1, <1>2

\* Every step keeps the types.
LEMMA TypeStep == TypeInv /\ [Next]_vars => TypeInv'
<1> SUFFICES ASSUME TypeInv, [Next]_vars PROVE TypeInv'
  OBVIOUS
<1> USE DEF TypeInv, store, history, missed, vars
<1>1. ASSUME UNCHANGED <<store, publish, worker, sends, missed>> PROVE TypeInv'
  BY <1>1
<1>2. ASSUME NEW e \in EventIds, Publish(e) \/ Persist(e) \/ Age(e) PROVE TypeInv'
  BY <1>2 DEF Publish, Persist, Age
<1>3. ASSUME NEW e \in EventIds, PublishDeliver(e) PROVE TypeInv'
  BY <1>3 DEF PublishDeliver, Deliver
<1>4. ASSUME NEW p \in Plugins, NEW e \in EventIds, EventAck(p, e) PROVE TypeInv'
  BY <1>4 DEF EventAck, mark_delivered
<1>5. CASE WorkerScan
  <2>1. PICK unread \in SUBSET pending_older_than :
          \E batch \in SetToSeqs(pending_older_than \ unread) :
            worker' = [pc |-> "bump", batch |-> batch, out |-> <<>>]
    BY <1>5 DEF WorkerScan
  <2>0. PICK batch \in SetToSeqs(pending_older_than \ unread) :
          worker' = [pc |-> "bump", batch |-> batch, out |-> <<>>]
    BY <2>1
  <2>2. batch \in Seq(EventIds)
    BY BatchOK
  <2> QED
    BY <1>5, <2>0, <2>2 DEF WorkerScan
<1>6. CASE WorkerBump
  <2>1. /\ Head(worker.batch) \in EventIds
        /\ Tail(worker.batch) \in Seq(EventIds)
        /\ Append(worker.out, Head(worker.batch)) \in Seq(EventIds)
    BY <1>6 DEF WorkerBump
  <2>2. worker' \in [pc : {"sleep", "bump", "redeliver"}, batch : Seq(EventIds),
                     out : Seq(EventIds)]
    BY <1>6, <2>1 DEF WorkerBump
  <2> QED
    <3>1. PICK counted \in BOOLEAN, marked \in BOOLEAN :
            /\ increment_retry_or_dead(Head(worker.batch), counted, marked)
            /\ uncounted' = IF counted THEN uncounted
                            ELSE [uncounted EXCEPT ![Head(worker.batch)] = @ + 1]
            /\ unmarked' = IF counted /\ ~marked /\ retry_count'[Head(worker.batch)] >= max_retries
                           THEN [unmarked EXCEPT ![Head(worker.batch)] = @ + 1] ELSE unmarked
      BY <1>6 DEF WorkerBump
    <3>2. retry_count' \in [EventIds -> Nat]
      BY <2>1, <3>1 DEF increment_retry_or_dead
    <3>3. uncounted' \in [EventIds -> Nat]
      BY <2>1, <3>1
    <3>5. unmarked' \in [EventIds -> Nat]
      BY <2>1, <3>1
    <3>4. status' \in [EventIds -> {"none", "pending", "delivered", "dead", "pruned"}]
      BY <2>1, <3>1 DEF increment_retry_or_dead
    <3> QED
      BY <1>6, <2>2, <3>2, <3>3, <3>4, <3>5 DEF WorkerBump
<1>7. CASE WorkerPrune
  BY <1>7 DEF WorkerPrune
<1>8. CASE WorkerRedeliver
  <2>1. Head(worker.out) \in EventIds /\ Tail(worker.out) \in Seq(EventIds)
    BY <1>8 DEF WorkerRedeliver
  <2>2. sends' \in [EventIds -> Nat]
    BY <1>8, <2>1 DEF WorkerRedeliver, Deliver
  <2> QED
    BY <1>8, <2>1, <2>2 DEF WorkerRedeliver
<1>9. CASE WorkerSleep
  BY <1>9 DEF WorkerSleep, WorkerIdle
<1>10. CASE Crash
  BY <1>10 DEF Crash, WorkerIdle
<1>11. ASSUME NEW p \in Plugins, Register(p) \/ Subscribe(p) \/ LoaderSubscribe(p) \/ Unsubscribe(p)
                                 \/ Close(p) \/ Evict(p) \/ Stopped(p) \/ Receive(p)
                                 \/ \E t \in Loops : Disconnect(t, p)
       PROVE TypeInv'
  BY <1>1, <1>11 DEF Register, Subscribe, LoaderSubscribe, Unsubscribe, Close, Evict, Disconnect, Stopped, Receive
<1>12. CASE (\E t \in Writers : BusStep(t)) \/ Unsubscribed \/ Quiet \/ UNCHANGED vars
  BY <1>1, <1>12 DEF BusStep, Subscribed, Unsubscribed, UnsubscribeTake,
     UnsubscribeClear, Quiet
<1> QED
  BY <1>2, <1>3, <1>4, <1>5, <1>6, <1>7, <1>8, <1>9, <1>10, <1>11, <1>12
  DEF Next, Publishing, Worker

\* Sending e takes one delivery off the list of those to come.
LEMMA RetryStep == TypeInv /\ RetryInv /\ [Next]_vars => RetryInv'
<1> SUFFICES ASSUME TypeInv, RetryInv, [Next]_vars PROVE RetryInv'
  OBVIOUS
<1>0. TypeInv'
  BY TypeStep
<1> USE DEF Paid, Allowed, missed
<1>1. ASSUME UNCHANGED <<status, retry_count, publish, worker, sends, missed>> PROVE RetryInv'
  BY <1>1 DEF RetryInv, Distinct, Unpublished, Counted
<1>2. ASSUME NEW e \in EventIds, Publish(e) \/ Persist(e) PROVE RetryInv'
  <2>1. UNCHANGED <<retry_count, worker, sends, missed>>
    BY <1>2 DEF Publish, Persist, store, history
  <2>2. \A f \in EventIds : Unpublished(f)' = Unpublished(f) /\ Counted(f)' = Counted(f)
    BY <1>2, <2>1 DEF Publish, Persist, Unpublished, Counted, TypeInv
  <2>3. \A f \in EventIds : status'[f] \in {"none", "pending"} => status[f] \in {"none", "pending"}
    BY <1>2 DEF Publish, Persist, store, TypeInv
  <2> QED
    BY <2>1, <2>2, <2>3 DEF RetryInv, Distinct
<1>3. ASSUME NEW e \in EventIds, PublishDeliver(e) PROVE RetryInv'
  <2>1. UNCHANGED <<status, retry_count, worker, missed>>
    BY <1>3 DEF PublishDeliver, store
  <2>2. \A f \in EventIds : /\ sends'[f] + Unpublished(f)' = sends[f] + Unpublished(f)
                            /\ Counted(f)' = Counted(f)
    BY <1>3, <2>1 DEF PublishDeliver, Deliver, Unpublished, Counted, TypeInv
  <2>3. \A f \in EventIds : sends'[f] + Unpublished(f)' + Counted(f)' <= Paid(f)'
    BY <2>1, <2>2 DEF RetryInv
  <2> QED
    BY <2>1, <2>3 DEF RetryInv, Distinct
<1>4. ASSUME NEW p \in Plugins, NEW e \in EventIds, EventAck(p, e) PROVE RetryInv'
  <2>1. UNCHANGED <<retry_count, publish, worker, sends, missed>>
    BY <1>4 DEF EventAck, history
  <2>2. \A f \in EventIds : status'[f] \in {"none", "pending"} => status[f] \in {"none", "pending"}
    BY <1>4 DEF EventAck, mark_delivered, TypeInv
  <2> QED
    BY <2>1, <2>2 DEF RetryInv, Distinct, Unpublished, Counted
<1>5. CASE WorkerScan
  <2>1. PICK unread \in SUBSET pending_older_than :
          \E batch \in SetToSeqs(pending_older_than \ unread) :
            worker' = [pc |-> "bump", batch |-> batch, out |-> <<>>]
    BY <1>5 DEF WorkerScan
  <2>0. PICK batch \in SetToSeqs(pending_older_than \ unread) :
          worker' = [pc |-> "bump", batch |-> batch, out |-> <<>>]
    BY <2>1
  <2>2. /\ batch \in Seq(EventIds)
        /\ \A k \in DOMAIN batch : batch[k] \in EventIds /\ status[batch[k]] = "pending"
        /\ \A j, k \in DOMAIN batch : batch[j] = batch[k] => j = k
    BY BatchOK DEF TypeInv
  <2>3. worker'.batch = batch /\ worker'.out = <<>>
    BY <2>0
  <2>4. UNCHANGED <<status, retry_count, publish, sends, missed>>
    BY <1>5 DEF WorkerScan, store, history
  <2>5. \A f \in EventIds : Counted(f)' <= Counted(f) /\ Counted(f)' \in Nat /\ Counted(f) \in Nat
    BY <2>3 DEF Counted
  <2>6. \A f \in EventIds : sends'[f] + Unpublished(f)' + Counted(f)' <= Paid(f)'
    BY <2>4, <2>5 DEF RetryInv, Unpublished, TypeInv
  <2>7. Distinct'
    BY <2>2, <2>3 DEF Distinct
  <2>8. \A k \in DOMAIN worker'.batch : retry_count'[worker'.batch[k]] < Allowed(worker.batch[k])'
    BY <2>2, <2>3, <2>4 DEF RetryInv
  <2> QED
    BY <2>4, <2>6, <2>7, <2>8 DEF RetryInv
<1>6. CASE WorkerBump
  <2>0. PICK e \in EventIds : e = Head(worker.batch)
    <3>1. worker.batch \in Seq(EventIds) /\ worker.batch # <<>>
      BY <1>6 DEF WorkerBump, TypeInv
    <3> QED
      BY <3>1
  <2>1. /\ worker.batch \in Seq(EventIds) /\ worker.batch # <<>> /\ worker.out \in Seq(EventIds)
        /\ e = worker.batch[1] /\ 1 \in DOMAIN worker.batch
    BY <1>6, <2>0 DEF WorkerBump, TypeInv
  <2>2. worker'.batch = Tail(worker.batch) /\ worker'.out = Append(worker.out, e)
    BY <1>6, <2>0 DEF WorkerBump, TypeInv
  <2>3. UNCHANGED <<publish, sends>>
    BY <1>6 DEF WorkerBump, history
  <2>4. PICK counted \in BOOLEAN, marked \in BOOLEAN :
          /\ increment_retry_or_dead(e, counted, marked)
          /\ uncounted' = IF counted THEN uncounted ELSE [uncounted EXCEPT ![e] = @ + 1]
          /\ unmarked' = IF counted /\ ~marked /\ retry_count'[e] >= max_retries
                         THEN [unmarked EXCEPT ![e] = @ + 1] ELSE unmarked
    BY <1>6, <2>0 DEF WorkerBump
  <2>41. retry_count' = [retry_count EXCEPT ![e] = IF counted THEN @ + 1 ELSE @]
    BY <2>4 DEF increment_retry_or_dead
  <2>42. \A f \in EventIds : f # e => /\ retry_count'[f] = retry_count[f]
                                     /\ uncounted'[f] = uncounted[f] /\ unmarked'[f] = unmarked[f]
    BY <2>4, <2>41 DEF TypeInv
  <2>43. Paid(e)' = Paid(e) + 1
    <3>1. /\ retry_count'[e] = IF counted THEN retry_count[e] + 1 ELSE retry_count[e]
          /\ uncounted'[e] = IF counted THEN uncounted[e] ELSE uncounted[e] + 1
      BY <2>4, <2>41 DEF TypeInv
    <3>2. retry_count[e] \in Nat /\ uncounted[e] \in Nat
      BY DEF TypeInv
    <3> QED
      BY <3>1, <3>2
  <2>44. /\ retry_count[e] \in Nat /\ retry_count'[e] \in Nat /\ max_retries \in Nat
         /\ unmarked[e] \in Nat /\ unmarked'[e] \in Nat
    BY <1>0, EventsAssumption DEF TypeInv
  <2>45. /\ retry_count'[e] = IF counted THEN retry_count[e] + 1 ELSE retry_count[e]
         /\ unmarked'[e] = IF counted /\ ~marked /\ retry_count'[e] >= max_retries
                           THEN unmarked[e] + 1 ELSE unmarked[e]
    BY <2>4, <2>41 DEF TypeInv
  <2>5. \A k \in DOMAIN worker'.batch : /\ k + 1 \in DOMAIN worker.batch
                                        /\ worker'.batch[k] = worker.batch[k + 1]
                                        /\ worker'.batch[k] # e
    BY <2>1, <2>2 DEF RetryInv, Distinct
  <2>6. \A k \in DOMAIN worker'.out : \/ k \in DOMAIN worker.out /\ worker'.out[k] = worker.out[k]
                                      \/ k = Len(worker.out) + 1 /\ worker'.out[k] = e
    BY <2>1, <2>2
  <2>7. \A k \in DOMAIN worker.out : worker.out[k] # e
    BY <2>1 DEF RetryInv, Distinct
  <2>8. Distinct'
    <3>1. \A j, k \in DOMAIN worker'.batch : worker'.batch[j] = worker'.batch[k] => j = k
      BY <2>1, <2>2, <2>5 DEF RetryInv, Distinct
    <3>2. \A j, k \in DOMAIN worker'.out : worker'.out[j] = worker'.out[k] => j = k
      BY <2>6, <2>7 DEF RetryInv, Distinct
    <3>3. \A j \in DOMAIN worker'.batch, k \in DOMAIN worker'.out :
            worker'.batch[j] # worker'.out[k]
      BY <2>5, <2>6 DEF RetryInv, Distinct
    <3> QED
      BY <3>1, <3>2, <3>3 DEF Distinct
  <2>9. \A f \in EventIds : f # e => Counted(f)' = Counted(f)
    <3> SUFFICES ASSUME NEW f \in EventIds, f # e PROVE Counted(f)' = Counted(f)
      OBVIOUS
    <3>1. \A k \in DOMAIN worker.out : k \in DOMAIN worker'.out /\ worker'.out[k] = worker.out[k]
      BY <2>1, <2>2
    <3> QED
      BY <2>6, <3>1 DEF Counted
  <2>10. Counted(e) = 0 /\ Counted(e)' \in {0, 1}
    BY <2>7 DEF Counted
  <2>11. \A f \in EventIds : sends'[f] + Unpublished(f)' + Counted(f)' <= Paid(f)'
    <3> SUFFICES ASSUME NEW f \in EventIds
                 PROVE sends'[f] + Unpublished(f)' + Counted(f)' <= Paid(f)'
      OBVIOUS
    <3>1. sends[f] + Unpublished(f) + Counted(f) <= Paid(f)
      BY DEF RetryInv
    <3>2. Unpublished(f)' = Unpublished(f) /\ Unpublished(f) \in Nat /\ sends'[f] = sends[f]
      BY <2>3 DEF Unpublished
    <3>3. sends[f] \in Nat /\ retry_count[f] \in Nat /\ uncounted[f] \in Nat
      BY DEF TypeInv
    <3>4. CASE f = e
      BY <2>10, <2>43, <3>1, <3>2, <3>3, <3>4
    <3>5. CASE f # e
      BY <2>9, <2>42, <3>1, <3>2, <3>3, <3>5
    <3> QED
      BY <3>4, <3>5
  <2>12. retry_count[e] < Limit + unmarked[e]
    BY <2>1 DEF RetryInv
  <2>13. retry_count'[e] <= Limit + unmarked'[e]
    BY <2>12, <2>44, <2>45, LimitIsMax
  <2>14. ASSUME status'[e] \in {"none", "pending"} PROVE retry_count'[e] < Limit + unmarked'[e]
    <3>1. ~(marked /\ retry_count'[e] >= max_retries)
      BY <2>4, <2>14 DEF increment_retry_or_dead, TypeInv
    <3>2. CASE retry_count'[e] < max_retries
      BY <2>44, <3>2, LimitIsMax
    <3>3. CASE ~(retry_count'[e] < max_retries)
      BY <2>12, <2>44, <2>45, <3>1, <3>3, LimitIsMax
    <3> QED
      BY <3>2, <3>3
  <2>15. \A f \in EventIds : /\ retry_count'[f] <= Allowed(f)'
                             /\ status'[f] \in {"none", "pending"} => retry_count'[f] < Allowed(f)'
    <3> SUFFICES ASSUME NEW f \in EventIds, f # e
                 PROVE  /\ retry_count'[f] <= Allowed(f)'
                        /\ status'[f] \in {"none", "pending"} => retry_count'[f] < Allowed(f)'
      BY <2>13, <2>14
    <3>1. status'[f] = status[f]
      BY <2>4 DEF increment_retry_or_dead, TypeInv
    <3> QED
      BY <2>42, <3>1 DEF RetryInv
  <2>16. \A k \in DOMAIN worker'.batch : retry_count'[worker'.batch[k]] < Allowed(worker.batch[k])'
    <3> SUFFICES ASSUME NEW k \in DOMAIN worker'.batch
                 PROVE  retry_count'[worker'.batch[k]] < Limit + unmarked'[worker'.batch[k]]
      OBVIOUS
    <3>1. PICK f \in EventIds : f = worker.batch[k + 1]
      BY <2>1, <2>5
    <3>2. retry_count[f] < Limit + unmarked[f] /\ f # e /\ worker'.batch[k] = f
      BY <2>5, <3>1 DEF RetryInv
    <3> QED
      BY <2>42, <3>2
  <2> QED
    BY <2>8, <2>11, <2>15, <2>16 DEF RetryInv
<1>7. CASE WorkerPrune
  <2>1. UNCHANGED <<retry_count, publish, sends, missed>>
    BY <1>7 DEF WorkerPrune, history
  <2>2. worker'.batch = worker.batch /\ worker'.out = worker.out
    BY <1>7 DEF WorkerPrune, TypeInv
  <2>3. \A f \in EventIds : status'[f] \in {"none", "pending"} => status[f] \in {"none", "pending"}
    BY <1>7 DEF WorkerPrune
  <2> QED
    BY <2>1, <2>2, <2>3 DEF RetryInv, Distinct, Unpublished, Counted
<1>8. CASE WorkerRedeliver
  <2>0. PICK e \in EventIds : e = Head(worker.out)
    BY <1>8 DEF WorkerRedeliver, TypeInv
  <2>1. /\ worker.out \in Seq(EventIds) /\ worker.out # <<>> /\ worker.batch \in Seq(EventIds)
        /\ e = worker.out[1] /\ 1 \in DOMAIN worker.out
    BY <1>8, <2>0 DEF WorkerRedeliver, TypeInv
  <2>2. worker'.batch = worker.batch /\ worker'.out = Tail(worker.out)
    BY <1>8 DEF WorkerRedeliver, TypeInv
  <2>3. UNCHANGED <<status, retry_count, publish, missed>>
    BY <1>8 DEF WorkerRedeliver, store
  <2>4. sends' = [sends EXCEPT ![e] = @ + 1]
    BY <1>8, <2>0 DEF WorkerRedeliver, Deliver
  <2>5. \A k \in DOMAIN worker'.out : /\ k + 1 \in DOMAIN worker.out
                                      /\ worker'.out[k] = worker.out[k + 1]
                                      /\ worker'.out[k] # e
    BY <2>1, <2>2 DEF RetryInv, Distinct
  <2>6. Distinct'
    BY <2>1, <2>2, <2>5 DEF RetryInv, Distinct
  <2>7. Counted(e)' = 0 /\ Counted(e) = 1
    BY <2>1, <2>5 DEF Counted
  <2>8. \A f \in EventIds : Counted(f)' <= Counted(f) /\ Counted(f)' \in Nat /\ Counted(f) \in Nat
    BY <2>5 DEF Counted
  <2>9. \A f \in EventIds : sends'[f] + Unpublished(f)' + Counted(f)' <= Paid(f)'
    <3> SUFFICES ASSUME NEW f \in EventIds
                 PROVE sends'[f] + Unpublished(f)' + Counted(f)' <= Paid(f)'
      OBVIOUS
    <3>1. sends[f] + Unpublished(f) + Counted(f) <= Paid(f)
      BY DEF RetryInv
    <3>2. Unpublished(f)' = Unpublished(f) /\ Unpublished(f) \in Nat
      BY <2>3 DEF Unpublished
    <3>3. sends[f] \in Nat /\ retry_count[f] \in Nat /\ uncounted[f] \in Nat /\ retry_count'[f] = retry_count[f]
        /\ uncounted'[f] = uncounted[f]
      BY <2>3 DEF TypeInv
    <3>4. CASE f = e
      BY <2>4, <2>7, <3>1, <3>2, <3>3, <3>4 DEF TypeInv
    <3>5. CASE f # e
      BY <2>4, <2>8, <3>1, <3>2, <3>3, <3>5 DEF TypeInv
    <3> QED
      BY <3>4, <3>5
  <2> QED
    BY <2>2, <2>3, <2>6, <2>9 DEF RetryInv
<1>9. CASE WorkerSleep
  <2>1. worker'.batch = <<>> /\ worker'.out = <<>>
    BY <1>9 DEF WorkerSleep, WorkerIdle
  <2>2. UNCHANGED <<status, retry_count, publish, sends, missed>>
    BY <1>9 DEF WorkerSleep, store, history
  <2>3. \A f \in EventIds : Counted(f)' = 0 /\ Counted(f) \in Nat
    BY <2>1 DEF Counted
  <2>4. \A f \in EventIds : sends'[f] + Unpublished(f)' + Counted(f)' <= Paid(f)'
    BY <2>2, <2>3 DEF RetryInv, Unpublished, TypeInv
  <2> QED
    BY <2>1, <2>2, <2>4 DEF RetryInv, Distinct
<1>10. CASE Crash
  <2>1. worker'.batch = <<>> /\ worker'.out = <<>>
    BY <1>10 DEF Crash, WorkerIdle
  <2>2. UNCHANGED <<status, retry_count, sends, missed>>
    BY <1>10 DEF Crash, store
  <2>3. \A f \in EventIds : Counted(f)' = 0 /\ Counted(f) \in Nat
    BY <2>1 DEF Counted
  <2>4. \A f \in EventIds : Unpublished(f)' <= Unpublished(f) /\ Unpublished(f)' \in Nat
                            /\ Unpublished(f) \in Nat
    BY <1>10 DEF Crash, Unpublished
  <2>5. \A f \in EventIds : sends'[f] + Unpublished(f)' + Counted(f)' <= Paid(f)'
    BY <2>2, <2>3, <2>4 DEF RetryInv, TypeInv
  <2> QED
    BY <2>1, <2>2, <2>5 DEF RetryInv, Distinct
<1>11. ASSUME NEW p \in Plugins, Register(p) \/ Subscribe(p) \/ LoaderSubscribe(p) \/ Unsubscribe(p)
                                 \/ Close(p) \/ Evict(p) \/ Stopped(p) \/ Receive(p)
                                 \/ \E t \in Loops : Disconnect(t, p)
       PROVE RetryInv'
  BY <1>1, <1>11 DEF Register, Subscribe, LoaderSubscribe, Unsubscribe, Close, Evict, Disconnect, Stopped, Receive, store, history
<1>12. ASSUME NEW e \in EventIds, Age(e) PROVE RetryInv'
  BY <1>1, <1>12 DEF Age, history
<1>13. CASE (\E t \in Writers : BusStep(t)) \/ Unsubscribed \/ Quiet \/ UNCHANGED vars
  BY <1>1, <1>13 DEF BusStep, Subscribed, Unsubscribed, UnsubscribeTake,
     UnsubscribeClear, Quiet, store, history, vars
<1> QED
  BY <1>2, <1>3, <1>4, <1>5, <1>6, <1>7, <1>8, <1>9, <1>10, <1>11, <1>12, <1>13
  DEF Next, Publishing, Worker

\* An event goes out at most once more than increment_retry_or_dead may count,
\* and than the rounds its UPDATEs failed in, over any number of crashes.
THEOREM DeliveriesBounded == Spec => []RetriesBounded
<1>1. TypeInv /\ RetryInv => RetriesBounded
  <2> SUFFICES ASSUME TypeInv, RetryInv, NEW e \in EventIds 
               PROVE sends[e] <= 1 + Limit + uncounted[e] + unmarked[e]
    BY DEF RetriesBounded, Limit
  <2>1. Unpublished(e) \in Nat /\ Counted(e) \in Nat
    BY DEF Unpublished, Counted
  <2>2. sends[e] \in Nat /\ retry_count[e] \in Nat /\ Limit \in Nat
        /\ uncounted[e] \in Nat /\ unmarked[e] \in Nat
    BY LimitIsMax DEF TypeInv
  <2> QED
    BY <2>1, <2>2 DEF RetryInv, Paid, Allowed
<1> QED
  BY RetryInit, TypeStep, RetryStep, <1>1, PTL DEF Spec
=============================================================================

------------------------ MODULE SimplexStorageProofs ------------------------
(***************************************************************************)
(* Proofs about SimplexStorage.tla, for every set of attributes and every  *)
(* bound.  The inductive invariant is the type invariant with the order    *)
(* capacity <= reserved <= size of every attribute: a manager that decides *)
(* by what it believes to be reserved is right as long as the belief is    *)
(* between the two quantities that matter.                                 *)
(***************************************************************************)
EXTENDS SimplexStorage, SequenceTheorems, FiniteSetTheorems, TLAPS

Inv == TypeOK /\ BeliefIsCovered

\* reserve leaves the belief covered, also where it lowers it.
LEMMA ReserveCovers ==
    ASSUME sizes \in [live -> 0 .. MaxSize],
           NEW n \in Nat, reserve(n)
    PROVE  /\ reserved' = n /\ n <= MaxSize
           /\ live' = live
           /\ sizes' \in [live -> 0 .. MaxSize]
           /\ \A a \in live : sizes[a] <= sizes'[a] /\ n <= sizes'[a]
<1>1. reserved' = n /\ n <= MaxSize
  BY DEF reserve
<1>2. sizes' = [a \in live |-> IF sizes[a] < n THEN n ELSE sizes[a]]
  BY DEF reserve
<1>3. live' = live
  BY <1>2 DEF live
<1>4. \A a \in live : sizes'[a] = IF sizes[a] < n THEN n ELSE sizes[a]
  BY <1>2
<1>5. \A a \in live : sizes[a] \in 0 .. MaxSize
  OBVIOUS
<1>6. \A a \in live : sizes[a] <= sizes'[a] /\ n <= sizes'[a] /\ sizes'[a] \in 0 .. MaxSize
  BY <1>1, <1>4, <1>5, BoundAssumption
<1>7. sizes' \in [live -> 0 .. MaxSize]
  BY <1>2, <1>6
<1> QED
  BY <1>1, <1>3, <1>6, <1>7

\* A guarantee raises the belief or leaves it, and keeps its order to the
\* sizes.
LEMMA GuaranteeCovers ==
    ASSUME sizes \in [live -> 0 .. MaxSize], reserved \in 0 .. MaxSize,
           \A a \in live : reserved <= sizes[a],
           NEW n \in Nat, guarantee_at_least(n)
    PROVE  /\ live' = live
           /\ sizes' \in [live -> 0 .. MaxSize]
           /\ reserved' \in 0 .. MaxSize
           /\ n <= reserved' /\ reserved <= reserved'
           /\ \A a \in live : reserved' <= sizes'[a]
<1>1. CASE n > reserved
  <2>1. reserve(n)
    BY <1>1 DEF guarantee_at_least
  <2> QED
    BY <1>1, <2>1, ReserveCovers, BoundAssumption
<1>2. CASE ~(n > reserved)
  <2>1. reserved' = reserved /\ sizes' = sizes
    BY <1>2 DEF guarantee_at_least
  <2> QED
    BY <1>2, <2>1, BoundAssumption DEF live
<1> QED
  BY <1>1, <1>2

\* The ids below a greater capacity include those below a smaller one.
LEMMA IdsGrow ==
    ASSUME NEW m \in Nat, NEW n \in Nat, m <= n
    PROVE  Ids(m) \subseteq Ids(n)
BY DEF Ids

\* A mesh just constructed satisfies the invariant.
LEMMA InitInv == Init => Inv
<1> SUFFICES ASSUME Init PROVE Inv
  OBVIOUS
<1> USE DEF Init
<1>1. live = {Flags} /\ sizes[Flags] = 0
  BY DEF live
<1>2. sizes \in [live -> 0 .. MaxSize]
  BY <1>1, BoundAssumption DEF live
<1>3. scopes \in Seq(SUBSET Ids(capacity))
  BY EmptySeq
<1> QED
  BY <1>1, <1>2, <1>3, FlagsAssumption, BoundAssumption DEF Inv, TypeOK, BeliefIsCovered

\* What consolidate knows of the number of active simplices.
LEMMA ActiveCount ==
    ASSUME capacity \in Nat, active \subseteq Ids(capacity)
    PROVE  Cardinality(active) \in Nat /\ Cardinality(active) <= capacity
<1>1. IsFiniteSet(Ids(capacity)) /\ Cardinality(Ids(capacity)) <= capacity
  <2> DEFINE d == capacity - 1
  <2>1. d \in Int /\ (IF 0 > d THEN 0 ELSE d - 0 + 1) <= capacity
    OBVIOUS
  <2> HIDE DEF d
  <2>2. IsFiniteSet(0 .. d) /\ Cardinality(0 .. d) = IF 0 > d THEN 0 ELSE d - 0 + 1
    BY <2>1, FS_Interval
  <2> QED
    BY <2>1, <2>2 DEF Ids, d
<1>2. IsFiniteSet(active) /\ Cardinality(active) <= Cardinality(Ids(capacity))
  BY <1>1, FS_Subset
<1> QED
  BY <1>1, <1>2, FS_CardinalityType

\* Every operation keeps the invariant.
LEMMA NextInv == Inv /\ [Next]_vars => Inv'
<1> SUFFICES ASSUME Inv, [Next]_vars PROVE Inv'
  OBVIOUS
<1> USE BoundAssumption DEF Inv
<1>0. /\ capacity \in 0 .. MaxSize /\ reserved \in 0 .. MaxSize
      /\ Flags \in live /\ live \subseteq Attribute
      /\ sizes \in [live -> 0 .. MaxSize]
      /\ active \subseteq Ids(capacity)
      /\ scopes \in Seq(SUBSET Ids(capacity))
      /\ granted \subseteq Ids(capacity)
      /\ capacity <= reserved
      /\ \A a \in live : reserved <= sizes[a]
  BY DEF TypeOK, BeliefIsCovered
<1>1. ASSUME NEW n \in 0 .. MaxSize, initialize(n) PROVE Inv'
  <2>1. /\ reserved' = n /\ live' = live /\ sizes' \in [live -> 0 .. MaxSize]
        /\ \A a \in live : n <= sizes'[a]
    BY <1>0, <1>1, ReserveCovers DEF initialize
  <2>2. /\ capacity' = n /\ active' = Ids(n)
        /\ capacity = 0 /\ scopes' = scopes /\ granted' = granted
    BY <1>1 DEF initialize
  <2>3. Ids(capacity) \subseteq Ids(capacity')
    BY <2>2, IdsGrow
  <2>4. scopes' \in Seq(SUBSET Ids(capacity'))
    BY <1>0, <2>2, <2>3, SeqMonotonic
  <2> QED
    BY <1>0, <2>1, <2>2, <2>3, <2>4 DEF TypeOK, BeliefIsCovered
<1>2. ASSUME NEW n \in 0 .. MaxSize, reserve_more_attributes(n) PROVE Inv'
  <2>1. /\ reserved' = reserved + n /\ reserved' <= MaxSize
        /\ live' = live /\ sizes' \in [live -> 0 .. MaxSize]
        /\ \A a \in live : reserved' <= sizes'[a]
    BY <1>0, <1>2, ReserveCovers DEF reserve_more_attributes
  <2> QED
    BY <1>0, <1>2, <2>1 DEF TypeOK, BeliefIsCovered, reserve_more_attributes
<1>3. ASSUME NEW n \in 0 .. MaxSize, guarantee_at_least_attributes(n) PROVE Inv'
  <2>1. /\ live' = live /\ sizes' \in [live -> 0 .. MaxSize]
        /\ reserved' \in 0 .. MaxSize /\ reserved <= reserved'
        /\ \A a \in live : reserved' <= sizes'[a]
    BY <1>0, <1>3, GuaranteeCovers DEF guarantee_at_least_attributes
  <2> QED
    BY <1>0, <1>3, <2>1 DEF TypeOK, BeliefIsCovered, guarantee_at_least_attributes
<1>4. CASE reserve_attributes_to_fit
  <2>1. /\ reserved' = capacity
        /\ live' = live /\ sizes' \in [live -> 0 .. MaxSize]
        /\ \A a \in live : reserved' <= sizes'[a]
    BY <1>0, <1>4, ReserveCovers DEF reserve_attributes_to_fit
  <2> QED
    BY <1>0, <1>4, <2>1 DEF TypeOK, BeliefIsCovered, reserve_attributes_to_fit
<1>5. ASSUME NEW n \in 1 .. MaxSize, request_simplex_indices(n) PROVE Inv'
  <2>1. /\ live' = live /\ sizes' \in [live -> 0 .. MaxSize]
        /\ reserved' \in 0 .. MaxSize /\ capacity + n <= reserved'
        /\ \A a \in live : reserved' <= sizes'[a]
    BY <1>0, <1>5, GuaranteeCovers DEF request_simplex_indices, guarantee_more
  <2>2. ~(capacity + n > sizes'[Flags])
    BY <1>0, <2>1
  <2>3. /\ granted' = capacity .. capacity + n - 1
        /\ capacity' = capacity + n
        /\ active' = active \cup granted'
        /\ scopes' = scopes
    BY <1>5, <2>2 DEF request_simplex_indices
  <2>4. Ids(capacity) \subseteq Ids(capacity')
    BY <1>0, <2>3, IdsGrow
  <2>5. granted' \subseteq Ids(capacity')
    BY <1>0, <2>3 DEF Ids
  <2>6. scopes' \in Seq(SUBSET Ids(capacity'))
    BY <1>0, <2>3, <2>4, SeqMonotonic
  <2>7. active' \subseteq Ids(capacity')
    BY <1>0, <2>3, <2>4, <2>5
  <2>8. capacity' \in 0 .. MaxSize
    BY <1>0, <2>1, <2>3
  <2> QED
    BY <1>0, <2>1, <2>3, <2>5, <2>6, <2>7, <2>8 DEF TypeOK, BeliefIsCovered
<1>6. ASSUME NEW a \in Attribute, register_attribute(a) PROVE Inv'
  <2>1. sizes' = [b \in live \cup {a} |-> IF b = a THEN reserved ELSE sizes[b]]
    BY <1>6 DEF register_attribute
  <2>2. live' = live \cup {a}
    BY <2>1 DEF live
  <2>3. \A b \in live' : sizes'[b] \in 0 .. MaxSize /\ reserved <= sizes'[b]
    BY <1>0, <2>1, <2>2
  <2>4. sizes' \in [live' -> 0 .. MaxSize]
    BY <2>1, <2>2, <2>3
  <2> QED
    BY <1>0, <1>6, <2>2, <2>3, <2>4 DEF TypeOK, BeliefIsCovered, register_attribute
<1>7. ASSUME NEW a \in Attribute, delete_attribute(a) PROVE Inv'
  <2>1. /\ sizes' = [b \in live \ {a} |-> sizes[b]]
        /\ a \in live \ {Flags}
    BY <1>7 DEF delete_attribute
  <2>2. live' = live \ {a}
    BY <2>1 DEF live
  <2>3. \A b \in live' : sizes'[b] \in 0 .. MaxSize /\ reserved <= sizes'[b]
    BY <1>0, <2>1, <2>2
  <2>4. sizes' \in [live' -> 0 .. MaxSize]
    BY <2>1, <2>2, <2>3
  <2> QED
    BY <1>0, <1>7, <2>1, <2>2, <2>3, <2>4 DEF TypeOK, BeliefIsCovered, delete_attribute
<1>8. ASSUME NEW i \in active, deactivate(i) PROVE Inv'
  BY <1>0, <1>8 DEF TypeOK, BeliefIsCovered, deactivate, live
<1>9. CASE push_scope
  <2>1. scopes' = Append(scopes, active)
    BY <1>9 DEF push_scope
  <2>2. scopes' \in Seq(SUBSET Ids(capacity))
    BY <1>0, <2>1, AppendProperties
  <2> QED
    BY <1>0, <1>9, <2>2 DEF TypeOK, BeliefIsCovered, push_scope, live
<1>10. ASSUME NEW apply_updates \in BOOLEAN, pop_scope(apply_updates) PROVE Inv'
  <2>1. /\ scopes # << >>
        /\ active' = IF apply_updates THEN active ELSE scopes[Len(scopes)]
        /\ scopes' = SubSeq(scopes, 1, Len(scopes) - 1)
        /\ UNCHANGED <<capacity, reserved, sizes, granted>>
    BY <1>10 DEF pop_scope
  <2>2. Len(scopes) \in 1 .. Len(scopes) /\ Len(scopes) - 1 \in Int
    BY <1>0, <2>1, EmptySeq, LenProperties
  <2>3. \A i \in 1 .. Len(scopes) : scopes[i] \in SUBSET Ids(capacity)
    BY <1>0, ElementOfSeq
  <2>4. scopes' \in Seq(SUBSET Ids(capacity))
    BY <2>1, <2>2, <2>3, SubSeqProperties
  <2>5. active' \subseteq Ids(capacity)
    BY <1>0, <2>1, <2>2, <2>3
  <2> QED
    BY <1>0, <2>1, <2>4, <2>5 DEF TypeOK, BeliefIsCovered, live
<1>11. CASE consolidate
  <2> DEFINE n == Cardinality(active)
  <2>1. n \in Nat /\ n <= capacity
    BY <1>0, ActiveCount
  <2>2. /\ scopes = << >> /\ scopes' = scopes
        /\ capacity' = n /\ reserved' = n
        /\ sizes' = [a \in live |-> n]
        /\ active' = Ids(n) /\ granted' = {}
    BY <1>11 DEF consolidate
  <2> HIDE DEF n
  <2>3. live' = live /\ sizes' \in [live -> 0 .. MaxSize]
    BY <1>0, <2>1, <2>2 DEF live
  <2>4. \A a \in live' : reserved' <= sizes'[a]
    BY <2>1, <2>2, <2>3
  <2>5. scopes' \in Seq(SUBSET Ids(n))
    BY <2>2, EmptySeq
  <2> QED
    BY <1>0, <2>1, <2>2, <2>3, <2>4, <2>5 DEF TypeOK, BeliefIsCovered
<1>12. CASE reload
  BY <1>0, <1>12 DEF TypeOK, BeliefIsCovered, reload, live
<1>13. CASE UNCHANGED vars
  BY <1>0, <1>13 DEF TypeOK, BeliefIsCovered, vars, live
<1> QED
  BY <1>1, <1>2, <1>3, <1>4, <1>5, <1>6, <1>7, <1>8, <1>9, <1>10, <1>11, <1>12, <1>13 DEF Next

\* The inductive invariant holds in every reachable state.
THEOREM InvCorrect == Spec => []Inv
BY InitInv, NextInv, PTL DEF Spec

\* The quantities stay in their ranges, and every id that is active, that a
\* scope would restore or that was granted last is below the capacity.
THEOREM TypeCorrect == Spec => []TypeOK
<1>1. Inv => TypeOK
  BY DEF Inv
<1> QED
  BY <1>1, InvCorrect, PTL

\* The belief of the managers lies between the capacity and every size.
THEOREM BeliefCorrect == Spec => []BeliefIsCovered
<1>1. Inv => BeliefIsCovered
  BY DEF Inv
<1> QED
  BY <1>1, InvCorrect, PTL

\* Every id handed out has memory in every attribute.
THEOREM MemoryCorrect == Spec => []EveryIdHasMemory
<1>1. Inv => EveryIdHasMemory
  <2> SUFFICES ASSUME Inv, NEW a \in live PROVE capacity <= sizes[a]
    BY DEF EveryIdHasMemory
  <2>1. capacity \in Int /\ reserved \in Int /\ sizes[a] \in Int
    BY DEF Inv, TypeOK
  <2> QED
    BY <2>1 DEF Inv, BeliefIsCovered
<1> QED
  BY <1>1, InvCorrect, PTL

\* What a request does in a state that satisfies the invariant.
LEMMA RequestEffect ==
    ASSUME Inv, NEW n \in 1 .. MaxSize, request_simplex_indices(n)
    PROVE  /\ granted' = capacity .. capacity + n - 1
           /\ active' = active \cup granted'
<1> USE BoundAssumption
<1>1. /\ capacity \in 0 .. MaxSize /\ reserved \in 0 .. MaxSize /\ Flags \in live
      /\ sizes \in [live -> 0 .. MaxSize]
      /\ \A a \in live : reserved <= sizes[a]
  BY DEF Inv, TypeOK, BeliefIsCovered
<1>2. /\ sizes' \in [live -> 0 .. MaxSize]
      /\ reserved' \in 0 .. MaxSize /\ capacity + n <= reserved'
      /\ \A a \in live : reserved' <= sizes'[a]
  BY <1>1, GuaranteeCovers DEF request_simplex_indices, guarantee_more
<1>3. ~(capacity + n > sizes'[Flags])
  BY <1>1, <1>2
<1> QED
  BY <1>3 DEF request_simplex_indices

\* No request is refused, whatever happened before it.
THEOREM GrantsCorrect == Spec => RequestsAreGranted
<1>1. ASSUME Inv, NEW n \in 1 .. MaxSize, request_simplex_indices(n)
      PROVE  Cardinality(granted') = n /\ granted' \subseteq active'
  <2>1. granted' = capacity .. capacity + n - 1 /\ active' = active \cup granted'
    BY <1>1, RequestEffect
  <2>2. capacity \in Int /\ capacity + n - 1 \in Int
    BY <1>1, BoundAssumption DEF Inv, TypeOK
  <2>3. Cardinality(capacity .. capacity + n - 1) = n
    BY <2>2, FS_Interval
  <2> QED
    BY <2>1, <2>3
<1>2. Inv => [\A n \in 1 .. MaxSize : request_simplex_indices(n) =>
                Cardinality(granted') = n /\ granted' \subseteq active']_vars
  BY <1>1
<1> QED
  BY <1>2, InvCorrect, PTL DEF RequestsAreGranted

\* An id that is handed out is neither active nor remembered as active by an
\* open scope.
THEOREM FreshCorrect == Spec => GrantedIdsAreFresh
<1>1. ASSUME Inv, [Next]_vars, granted' # granted, NEW k \in 1 .. Len(scopes)
      PROVE  granted' \cap (scopes[k] \cup active) = {}
  <2>1. CASE granted' = {}
    BY <2>1
  <2>2. ASSUME NEW n \in 1 .. MaxSize, request_simplex_indices(n)
        PROVE  granted' \cap (scopes[k] \cup active) = {}
    <3>1. granted' = capacity .. capacity + n - 1
      BY <1>1, <2>2, RequestEffect
    <3>2. active \subseteq Ids(capacity) /\ scopes[k] \subseteq Ids(capacity)
      BY <1>1, ElementOfSeq DEF Inv, TypeOK
    <3>3. capacity \in Nat
      BY <1>1, BoundAssumption DEF Inv, TypeOK
    <3>4. (capacity .. capacity + n - 1) \cap Ids(capacity) = {}
      BY <3>3 DEF Ids
    <3> QED
      BY <3>1, <3>2, <3>4
  <2>3. granted' = {} \/ \E n \in 1 .. MaxSize : request_simplex_indices(n)
    BY <1>1 DEF Next, vars, initialize, reserve_more_attributes,
       guarantee_at_least_attributes, reserve_attributes_to_fit, register_attribute,
       delete_attribute, deactivate, push_scope, pop_scope, consolidate, reload
  <2> QED
    BY <2>1, <2>2, <2>3
<1>2. Inv /\ [Next]_vars => [granted' # granted =>
         \A k \in 1 .. Len(scopes) : granted' \cap (scopes[k] \cup active) = {}]_vars
  BY <1>1
<1> QED
  BY <1>2, InvCorrect, PTL DEF Spec, GrantedIdsAreFresh
=============================================================================

----------------------- MODULE CachingAttributeProofs -----------------------
(***************************************************************************)
(* The undo log of CachingAttribute, for attributes of any size, values of *)
(* any kind and scopes of any depth.                                       *)
(***************************************************************************)
EXTENDS CachingAttribute, TLAPS, SequenceTheorems, NaturalsInduction,
        WellFoundedInduction

-----------------------------------------------------------------------------
(* The log as a value.                                                      *)

\* A non-empty set of natural numbers has a least element.
LEMMA LeastNatural ==
    ASSUME NEW S \in SUBSET Nat, S # {}
    PROVE  \E r \in S : \A s \in S : r <= s
<1> DEFINE less == {pair \in Nat \X Nat : pair[1] < pair[2]}
<1>1. OpToRel(<, Nat) = less
  BY DEF OpToRel
<1>2. IsWellFoundedOn(less, Nat)
  BY <1>1, NatLessThanWellFounded
<1>3. PICK r \in S : \A s \in S : ~ (<<s, r>> \in less)
  <2> HIDE DEF less
  <2> QED
    BY <1>2, WFMin
<1>4. ASSUME NEW s \in S
      PROVE  r <= s
  <2>1. r \in Nat /\ s \in Nat
    OBVIOUS
  <2>2. s < r => <<s, r>> \in less
    BY <2>1
  <2>3. ~ (<<s, r>> \in less)
    BY <1>3
  <2> QED
    BY <2>1, <2>2, <2>3
<1> QED
  BY <1>4

\* A search that finds nothing returns the value of m_data.
LEMMA SearchMiss ==
    ASSUME NEW log, NEW start, NEW d, NEW i, Recorded(log, start, i) = {}
    PROVE  get_value(log, start, d, i) = d[i]
  BY DEF get_value

\* A search that finds something meets one of its records first.
LEMMA SearchFound ==
    ASSUME NEW log \in Seq(Record), NEW start \in Nat, NEW i, Recorded(log, start, i) # {}
    PROVE  \E r \in Recorded(log, start, i) : \A s \in Recorded(log, start, i) : r <= s
<1>1. Recorded(log, start, i) \in SUBSET Nat
  BY LenProperties DEF Recorded
<1> QED
  BY <1>1, LeastNatural

\* It returns the value of the record it meets first.
LEMMA SearchHit ==
    ASSUME NEW log \in Seq(Record), NEW start \in Nat, NEW d, NEW i,
           NEW r \in Recorded(log, start, i), \A s \in Recorded(log, start, i) : r <= s
    PROVE  get_value(log, start, d, i) = log[r].value
<1> DEFINE found == Recorded(log, start, i)
           least == CHOOSE x \in found : \A s \in found : x <= s
<1>1. found \in SUBSET Nat
  BY LenProperties DEF Recorded
<1>2. least \in found /\ r <= least /\ least <= r
  OBVIOUS
<1>3. least = r
  BY <1>1, <1>2
<1> QED
  BY <1>3 DEF get_value

\* A search returns a value of the attribute.
LEMMA SearchType ==
    ASSUME NEW log \in Seq(Record), NEW start \in Nat, NEW d, NEW i, d[i] \in Value
    PROVE  get_value(log, start, d, i) \in Value
<1>1. CASE Recorded(log, start, i) = {}
  BY <1>1, SearchMiss
<1>2. CASE Recorded(log, start, i) # {}
  <2>1. PICK r \in Recorded(log, start, i) :
               get_value(log, start, d, i) = log[r].value
    BY <1>2, SearchFound, SearchHit
  <2>2. r \in 1 .. Len(log)
    BY LenProperties DEF Recorded
  <2>3. log[r] \in Record
    BY <2>2, ElementOfSeq
  <2> QED
    BY <2>1, <2>3 DEF Record
<1> QED
  BY <1>1, <1>2

\* A scope opened at the end of the log has kept the values of m_data.
LEMMA SearchEmpty ==
    ASSUME NEW log \in Seq(Record), NEW d, NEW i
    PROVE  get_value(log, Len(log), d, i) = d[i]
<1>1. Len(log) \in Nat
  BY LenProperties
<1>2. Recorded(log, Len(log), i) = {}
  BY <1>1 DEF Recorded
<1> QED
  BY <1>2, SearchMiss

\* A write of index j that first adds the record of j to the log changes
\* nothing that a scope has kept.
LEMMA SearchAfterWrite ==
    ASSUME NEW log \in Seq(Record), NEW start \in Nat, start <= Len(log), NEW d,
           NEW new \in Seq(Record), NEW e, NEW i, NEW j,
           Len(new) = Len(log) + 1,
           \A r \in 1 .. Len(log) : new[r] = log[r],
           new[Len(log) + 1].index = j,
           new[Len(log) + 1].value = d[j],
           i # j => e[i] = d[i]
    PROVE  get_value(new, start, e, i) = get_value(log, start, d, i)
<1>1. Len(log) \in Nat
  BY LenProperties
<1>2. \A r \in Recorded(log, start, i) : r \in Recorded(new, start, i) /\ new[r] = log[r]
  BY <1>1 DEF Recorded
<1>3. \A r \in Recorded(new, start, i) :
         r \in Recorded(log, start, i) \/ (r = Len(log) + 1 /\ i = j)
  BY <1>1 DEF Recorded
<1>4. CASE Recorded(log, start, i) # {}
  <2>1. PICK r \in Recorded(log, start, i) : \A s \in Recorded(log, start, i) : r <= s
    BY <1>4, SearchFound
  <2>2. get_value(log, start, d, i) = log[r].value
    BY <2>1, SearchHit
  <2>3. r \in Recorded(new, start, i) /\ \A s \in Recorded(new, start, i) : r <= s
    BY <1>1, <1>2, <1>3, <2>1 DEF Recorded
  <2>4. get_value(new, start, e, i) = new[r].value
    BY <2>3, SearchHit
  <2> QED
    BY <1>2, <2>2, <2>4
<1>5. CASE Recorded(log, start, i) = {} /\ i # j
  <2>1. Recorded(new, start, i) = {}
    BY <1>3, <1>5
  <2>2. get_value(new, start, e, i) = e[i]
    BY <2>1, SearchMiss
  <2>3. get_value(log, start, d, i) = d[i]
    BY <1>5, SearchMiss
  <2> QED
    BY <1>5, <2>2, <2>3
<1>6. CASE Recorded(log, start, i) = {} /\ i = j
  <2>1. Recorded(new, start, i) = {Len(log) + 1}
    BY <1>1, <1>3, <1>6 DEF Recorded
  <2> DEFINE r == Len(log) + 1
  <2>a. r \in Recorded(new, start, i) /\ \A s \in Recorded(new, start, i) : r <= s
    BY <1>1, <2>1
  <2> HIDE DEF r
  <2>b. get_value(new, start, e, i) = new[r].value
    BY <2>a, SearchHit
  <2>2. get_value(new, start, e, i) = new[Len(log) + 1].value
    BY <2>b DEF r
  <2>3. get_value(log, start, d, i) = d[i]
    BY <1>6, SearchMiss
  <2> QED
    BY <1>6, <2>2, <2>3
<1> QED
  BY <1>4, <1>5, <1>6

\* Replaying an inner scope changes nothing that a scope around it has kept.
LEMMA SearchAfterReplay ==
    ASSUME NEW log \in Seq(Record), NEW start \in Nat, NEW inner \in Nat,
           start <= inner, NEW d, NEW e, NEW i, e[i] = get_value(log, inner, d, i)
    PROVE  get_value(log, start, e, i) = get_value(log, start, d, i)
<1>1. CASE Recorded(log, start, i) # {}
  <2>1. PICK r \in Recorded(log, start, i) : \A s \in Recorded(log, start, i) : r <= s
    BY <1>1, SearchFound
  <2> QED
    BY <2>1, SearchHit
<1>2. CASE Recorded(log, start, i) = {}
  <2>1. Recorded(log, inner, i) = {}
    BY <1>2, LenProperties DEF Recorded
  <2> QED
    BY <1>2, <2>1, SearchMiss
<1> QED
  BY <1>1, <1>2

\* What a scope has kept depends on m_data at the index alone.
LEMMA SearchCongruence ==
    ASSUME NEW log \in Seq(Record), NEW start \in Nat, NEW d, NEW e, NEW i, d[i] = e[i]
    PROVE  get_value(log, start, d, i) = get_value(log, start, e, i)
  BY DEF get_value

-----------------------------------------------------------------------------
(* The inductive invariant.  A replay writes values of records, so the type *)
(* of m_data needs the type of the log; and it is only total on m_data      *)
(* because the scopes start inside the log.                                 *)

Inv == TypeOK /\ ScopesNest /\ RecordsInRange

\* What an open scope has kept for an index is a value of the attribute.
LEMMA ScopeValueType ==
    ASSUME TypeOK, NEW k \in 1 .. transaction_depth, NEW i \in Indices
    PROVE  scope_value(k, i) \in Value
<1>1. transaction_starts[k] \in Nat
  BY ElementOfSeq DEF TypeOK, transaction_depth
<1>2. data[i] \in Value
  BY DEF TypeOK
<1> QED
  BY <1>1, <1>2, SearchType DEF TypeOK, scope_value

\* Leaving a scope with its changes undone, or rolling it back, leaves data of
\* the right type.
LEMMA ApplyCacheType ==
    ASSUME TypeOK, has_transactions
    PROVE  apply_cache \in [Indices -> Value]
<1>1. transaction_depth \in 1 .. transaction_depth
  BY LenProperties DEF TypeOK, transaction_depth, has_transactions
<1> QED
  BY <1>1, ScopeValueType DEF apply_cache

\* The initial states satisfy the invariant.
LEMMA InitInv == Init => Inv
<1> SUFFICES ASSUME Init PROVE Inv
  OBVIOUS
<1>1. TypeOK
  BY ValueAssumption, EmptySeq DEF Init, TypeOK, Indices
<1>2. ScopesNest /\ RecordsInRange
  BY EmptySeq DEF Init, ScopesNest, RecordsInRange, transaction_depth
<1> QED
  BY <1>1, <1>2 DEF Inv

\* Every step preserves the invariant.
LEMMA NextInv == Inv /\ [Next]_vars => Inv'
<1> SUFFICES ASSUME Inv, [Next]_vars PROVE Inv'
  OBVIOUS
<1> USE DEF Inv, transaction_depth
<1>0. /\ Len(transaction_starts) \in Nat /\ Len(indices) \in Nat
      /\ \A k \in 1 .. Len(transaction_starts) : transaction_starts[k] \in Nat
      /\ size \in Nat
  BY LenProperties, ElementOfSeq, BoundAssumption DEF TypeOK
<1>1. CASE push_scope
  <2> DEFINE n == Len(transaction_starts)
  <2>1. /\ transaction_starts' \in Seq(Nat)
        /\ Len(transaction_starts') = n + 1
        /\ \A k \in 1 .. n : transaction_starts'[k] = transaction_starts[k]
        /\ transaction_starts'[n + 1] = Len(indices)
    BY <1>0, <1>1, AppendProperties DEF push_scope, TypeOK
  <2>2. TypeOK'
    BY <1>0, <1>1, <2>1 DEF push_scope, TypeOK, Indices
  <2>3. ScopesNest'
    BY <1>0, <1>1, <2>1 DEF push_scope, ScopesNest
  <2>4. RecordsInRange'
    BY <1>1 DEF push_scope, RecordsInRange
  <2> QED
    BY <2>2, <2>3, <2>4
<1>2. CASE rollback_current_scope
  <2>1. data' \in [Indices -> Value]
    BY <1>2, ApplyCacheType DEF rollback_current_scope
  <2>2. TypeOK'
    BY <1>2, <2>1 DEF rollback_current_scope, TypeOK, Indices
  <2>3. ScopesNest' /\ RecordsInRange'
    BY <1>2 DEF rollback_current_scope, ScopesNest, RecordsInRange
  <2> QED
    BY <2>2, <2>3
<1>3. ASSUME NEW preserve_changes \in BOOLEAN, pop_scope(preserve_changes)
      PROVE  Inv'
  <2> DEFINE n == Len(transaction_starts)
  <2>1. n > 0
    BY <1>3 DEF pop_scope, has_transactions
  <2>2. data' \in [Indices -> Value]
    BY <1>3, ApplyCacheType DEF pop_scope, TypeOK
  <2>3. /\ transaction_starts' \in Seq(Nat)
        /\ Len(transaction_starts') = n - 1
        /\ \A k \in 1 .. n - 1 : transaction_starts'[k] = transaction_starts[k]
    <3>1. transaction_starts' = [k \in 1 .. n - 1 |-> transaction_starts[k]]
      BY <1>3 DEF pop_scope
    <3> QED
      BY <1>0, <2>1, <3>1
  <2>4. indices' \in Seq(Record) /\ (indices' = indices \/ (indices' = << >> /\ n = 1))
    BY <1>3, EmptySeq DEF pop_scope, TypeOK
  <2>5. TypeOK'
    BY <1>0, <1>3, <2>1, <2>2, <2>3, <2>4 DEF pop_scope, TypeOK, Indices
  <2>6. ScopesNest'
    <3>1. current_transaction_index' <= n - 1 /\ transaction_depth' = n - 1 /\ transaction_depth = n
      BY <1>0, <1>3, <2>1, <2>3 DEF pop_scope, ScopesNest
    <3>2. /\ \A k \in 1 .. n : transaction_starts[k] <= Len(indices)
          /\ \A k, l \in 1 .. n : k <= l => transaction_starts[k] <= transaction_starts[l]
      BY <3>1 DEF ScopesNest
    <3>3. n = 1 => 1 .. n - 1 = {}
      OBVIOUS
    <3>4. n # 1 => indices' = indices
      BY <2>4
    <3>5. n - 1 = 0 => indices' = << >>
      BY <1>3, <2>4 DEF pop_scope
    <3> QED
      BY <1>0, <2>1, <2>3, <3>1, <3>2, <3>3, <3>4, <3>5 DEF ScopesNest
  <2>7. RecordsInRange'
    BY <1>0, <1>3, <2>4, EmptySeq DEF pop_scope, RecordsInRange
  <2> QED
    BY <2>5, <2>6, <2>7
<1>4. ASSUME NEW i \in Indices, NEW v \in Value, vector_attribute(i, v)
      PROVE  Inv'
  <2> DEFINE rec == [index |-> i, value |-> data[i]]
  <2>1. rec \in Record
    BY <1>0 DEF Record, TypeOK, Indices
  <2>2. /\ indices' \in Seq(Record)
        /\ Len(indices') >= Len(indices)
        /\ \A r \in 1 .. Len(indices') :
              indices'[r].index = i \/ (r \in 1 .. Len(indices) /\ indices'[r] = indices[r])
        /\ ~ has_transactions => indices' = indices
    <3>1. CASE has_transactions
      <4>1. indices' = Append(indices, rec)
        BY <1>4, <3>1 DEF vector_attribute
      <4>2. rec.index = i
        OBVIOUS
      <4> HIDE DEF rec
      <4> QED
        BY <1>0, <2>1, <3>1, <4>1, <4>2, AppendProperties DEF TypeOK
    <3>2. CASE ~ has_transactions
      BY <1>0, <1>4, <3>2 DEF vector_attribute, TypeOK
    <3> QED
      BY <3>1, <3>2
  <2>3. TypeOK'
    BY <1>4, <2>2 DEF vector_attribute, TypeOK, Indices
  <2>4. ScopesNest'
    BY <1>0, <1>4, <2>2, LenProperties
       DEF vector_attribute, TypeOK, ScopesNest, has_transactions
  <2>5. RecordsInRange'
    BY <1>0, <1>4, <2>2 DEF vector_attribute, RecordsInRange, Indices
  <2> QED
    BY <2>3, <2>4, <2>5
<1>5. ASSUME NEW n \in 1 .. MaxSize, reserve(n)
      PROVE  Inv'
  <2>1. TypeOK'
    BY <1>0, <1>5, ValueAssumption, BoundAssumption DEF reserve, TypeOK, Indices
  <2>2. ScopesNest'
    BY <1>5 DEF reserve, ScopesNest
  <2>3. RecordsInRange'
    <3>1. ASSUME NEW r \in 1 .. Len(indices)
          PROVE  indices[r].index \in Nat
      <4>1. indices[r] \in Record
        BY ElementOfSeq DEF TypeOK
      <4> QED
        BY <4>1 DEF Record
    <3> QED
      BY <1>0, <1>5, <3>1, BoundAssumption DEF reserve, RecordsInRange
  <2> QED
    BY <2>1, <2>2, <2>3
<1>6. CASE change_to_next_scope
  BY <1>0, <1>6 DEF change_to_next_scope, TypeOK, Indices, ScopesNest, RecordsInRange
<1>7. CASE change_to_previous_scope
  BY <1>0, <1>7 DEF change_to_previous_scope, at_current_scope, TypeOK, Indices, ScopesNest,
                    RecordsInRange
<1>8. CASE UNCHANGED vars
  BY <1>8 DEF vars, TypeOK, Indices, ScopesNest, RecordsInRange
<1> QED
  BY <1>1, <1>2, <1>3, <1>4, <1>5, <1>6, <1>7, <1>8 DEF Next


\* The conjunction of the invariants holds in every behaviour of the attribute.
THEOREM InvCorrect == Spec => []Inv
  BY InitInv, NextInv, PTL DEF Spec

\* The variables keep their types.
THEOREM TypeCorrect == Spec => []TypeOK
<1>1. Inv => TypeOK
  BY DEF Inv
<1> QED
  BY <1>1, InvCorrect, PTL

\* The open scopes nest inside the log, which is empty when none is open: what
\* push_scope, pop_scope and the two changes of scope must keep true of
\* m_transaction_starts and m_indices_end.
THEOREM NestingCorrect == Spec => []ScopesNest
<1>1. Inv => ScopesNest
  BY DEF Inv
<1> QED
  BY <1>1, InvCorrect, PTL

\* Replaying the log never writes outside m_data, whatever was reserved or
\* recorded since: what apply_cache relies on.
THEOREM RangeCorrect == Spec => []RecordsInRange
<1>1. Inv => RecordsInRange
  BY DEF Inv
<1> QED
  BY <1>1, InvCorrect, PTL

-----------------------------------------------------------------------------
(* What a scope has kept.                                                   *)

\* While a scope stays open, no step changes a value it has kept.
LEMMA KeptByStep ==
    ASSUME Inv, [Next]_vars, NEW k \in 1 .. transaction_depth, k <= transaction_depth',
           NEW i \in Indices
    PROVE  scope_value(k, i)' = scope_value(k, i)
<1> USE DEF Inv, transaction_depth, scope_value
<1> DEFINE depth == Len(transaction_starts)
           start == transaction_starts[k]
<1>0. /\ depth \in Nat /\ depth > 0 /\ Len(indices) \in Nat /\ size \in Nat
      /\ start \in 0 .. Len(indices)
      /\ transaction_starts[depth] \in Nat
      /\ start <= transaction_starts[depth]
      /\ indices \in Seq(Record)
      /\ data[i] \in Value
      /\ has_transactions
  <2>1. depth \in Nat /\ depth > 0 /\ Len(indices) \in Nat /\ size \in Nat
    BY LenProperties, BoundAssumption DEF TypeOK
  <2>2. start \in Nat /\ transaction_starts[depth] \in Nat
    BY <2>1, ElementOfSeq DEF TypeOK
  <2> QED
    BY <2>1, <2>2 DEF TypeOK, ScopesNest, has_transactions
\* A replay of the last scope leaves in m_data what that scope has kept.
<1>a. ASSUME data' = apply_cache
      PROVE  get_value(indices, start, data', i) = get_value(indices, start, data, i)
  <2>1. data'[i] = get_value(indices, transaction_starts[depth], data, i)
    BY <1>a DEF apply_cache
  <2> QED
    BY <1>0, <2>1, SearchAfterReplay
<1>1. CASE push_scope
  <2>1. transaction_starts'[k] = start
    BY <1>0, <1>1, AppendProperties DEF push_scope, TypeOK
  <2> QED
    BY <1>1, <2>1 DEF push_scope
<1>2. CASE rollback_current_scope
  BY <1>2, <1>a DEF rollback_current_scope
<1>3. ASSUME NEW preserve_changes \in BOOLEAN, pop_scope(preserve_changes)
      PROVE  scope_value(k, i)' = scope_value(k, i)
  <2>1. transaction_starts' = [l \in 1 .. depth - 1 |-> transaction_starts[l]]
    BY <1>3 DEF pop_scope
  <2>2. k <= depth - 1 /\ transaction_starts'[k] = start
    BY <1>0, <2>1
  <2>3. indices' = indices
    BY <1>0, <1>3, <2>2 DEF pop_scope
  <2>4. data' = data \/ data' = apply_cache
    BY <1>3 DEF pop_scope
  <2> QED
    BY <1>a, <2>2, <2>3, <2>4
<1>4. ASSUME NEW j \in Indices, NEW v \in Value, vector_attribute(j, v)
      PROVE  scope_value(k, i)' = scope_value(k, i)
  <2>1. /\ indices' = Append(indices, [index |-> j, value |-> data[j]])
        /\ data' = [data EXCEPT ![j] = v]
        /\ transaction_starts' = transaction_starts
    BY <1>0, <1>4 DEF vector_attribute
  <2> DEFINE rec == [index |-> j, value |-> data[j]]
  <2>2. rec \in Record /\ rec.index = j /\ rec.value = data[j]
    BY <1>0 DEF Indices, TypeOK, Record
  <2>3. i # j => data'[i] = data[i]
    BY <2>1
  <2> HIDE DEF rec
  <2>4. /\ indices' \in Seq(Record)
        /\ Len(indices') = Len(indices) + 1
        /\ \A r \in 1 .. Len(indices) : indices'[r] = indices[r]
        /\ indices'[Len(indices) + 1] = rec
    <3>1. indices' = Append(indices, rec)
      BY <2>1 DEF rec
    <3> QED
      BY <1>0, <2>2, <3>1, AppendProperties
  <2>5. get_value(indices', start, data', i) = get_value(indices, start, data, i)
    BY <1>0, <2>2, <2>3, <2>4, SearchAfterWrite
  <2> QED
    BY <2>1, <2>5
<1>5. ASSUME NEW n \in 1 .. MaxSize, reserve(n)
      PROVE  scope_value(k, i)' = scope_value(k, i)
  <2>1. indices' = indices /\ transaction_starts' = transaction_starts
    BY <1>5 DEF reserve
  <2>2. data'[i] = data[i]
    BY <1>0, <1>5, BoundAssumption DEF reserve, Indices
  <2>3. get_value(indices, start, data', i) = get_value(indices, start, data, i)
    BY <1>0, <2>2, SearchCongruence
  <2> QED
    BY <2>1, <2>3
<1>6. CASE change_to_next_scope
  BY <1>6 DEF change_to_next_scope
<1>7. CASE change_to_previous_scope
  BY <1>7 DEF change_to_previous_scope
<1>8. CASE UNCHANGED vars
  BY <1>8 DEF vars
<1> QED
  BY <1>1, <1>2, <1>3, <1>4, <1>5, <1>6, <1>7, <1>8 DEF Next

\* Nothing done inside a scope changes what undoing that scope will restore:
\* the property a caller relies on when it opens scopes inside a scope, as
\* Operation::operator() does when operations call operations.
THEOREM ScopesStable == Spec => ScopesAreStable
<1>1. Inv /\ [Next]_vars =>
         [\A k \in 1 .. transaction_depth :
             k <= transaction_depth' =>
                \A i \in Indices : scope_value(k, i)' = scope_value(k, i)]_vars
  BY KeptByStep
<1> QED
  BY <1>1, InvCorrect, PTL DEF Spec, ScopesAreStable

-----------------------------------------------------------------------------
(* The log implements the stack of copies.                                  *)

\* The copies of the scopes that stay open are those of before the step, grown
\* with the default value where the attribute grew.
LEMMA CopiesKept ==
    ASSUME Inv, [Next]_vars, NEW k \in 1 .. transaction_depth, k <= transaction_depth',
           size' = size
    PROVE  copies'[k] = copies[k]
<1>1. transaction_depth \in Nat /\ transaction_depth' \in Nat
  BY NextInv, LenProperties DEF Inv, TypeOK, transaction_depth
<1>2. k \in 1 .. transaction_depth'
  BY <1>1
<1>3. \A i \in Indices : scope_value(k, i)' = scope_value(k, i)
  BY KeptByStep
<1>4. copies[k] = [i \in Indices |-> scope_value(k, i)]
  BY <1>1 DEF copies, const_vector_attribute
<1>5. copies'[k] = [i \in Indices' |-> scope_value(k, i)']
  BY <1>1, <1>2 DEF copies, const_vector_attribute
<1> QED
  BY <1>3, <1>4, <1>5 DEF Indices

\* An attribute without scopes has no copies.
LEMMA InitRefines == Init => Stack!Init
<1> SUFFICES ASSUME Init PROVE Stack!Init
  OBVIOUS
<1>1. copies = << >>
  BY DEF Init, copies, transaction_depth
<1> QED
  BY <1>1 DEF Init, Stack!Init, Stack!Indices, Indices, copies

\* Every step of the log is a step of the stack, or changes nothing of it.
LEMMA NextRefines == Inv /\ [Next]_vars => [Stack!Next]_(Stack!vars)
<1> SUFFICES ASSUME Inv, [Next]_vars PROVE [Stack!Next]_(Stack!vars)
  OBVIOUS
<1> DEFINE depth == Len(transaction_starts)
<1>n. depth \in Nat /\ depth' \in Nat
  BY NextInv, LenProperties DEF Inv, TypeOK
\* The copies, by the scopes they are read through.
<1>s. copies = [k \in 1 .. depth |-> [i \in Indices |-> scope_value(k, i)]]
  BY <1>n DEF copies, const_vector_attribute, transaction_depth
<1>t. copies' = [k \in 1 .. depth' |-> [i \in Indices' |-> scope_value(k, i)']]
  BY <1>n DEF copies, const_vector_attribute, transaction_depth
<1>0. /\ depth \in Nat /\ depth' \in Nat /\ Len(indices) \in Nat /\ size \in Nat
      /\ transaction_depth = depth /\ transaction_depth' = depth'
      /\ Len(copies) = depth /\ DOMAIN copies = 1 .. depth
      /\ copies \in Seq([Indices -> Value])
      /\ copies' = [k \in 1 .. depth' |-> copies'[k]]
      /\ copies = << >> <=> depth = 0
  <2>1. depth \in Nat /\ depth' \in Nat /\ Len(indices) \in Nat /\ size \in Nat
    BY NextInv, LenProperties, BoundAssumption DEF Inv, TypeOK
  <2>2. copies \in [1 .. depth -> [Indices -> Value]]
    BY <1>s, ScopeValueType DEF Inv, transaction_depth
  <2>3. copies' = [k \in 1 .. depth' |-> copies'[k]]
    BY <1>t
  <2>4. copies \in Seq([Indices -> Value]) /\ Len(copies) = depth
    BY <2>1, <2>2
  <2> QED
    BY <2>1, <2>2, <2>3, <2>4, EmptySeq DEF transaction_depth
<1>a. Stack!AtCurrent <=> at_current_scope
  BY <1>0 DEF Stack!AtCurrent, at_current_scope
\* The copy of the last scope is what a replay leaves in m_data.
<1>b. depth > 0 => copies[Len(copies)] = apply_cache
  BY <1>0, <1>s DEF apply_cache
<1>c. ASSUME size' = size, depth' = depth
      PROVE  copies' = copies
  <2>1. \A k \in 1 .. depth : copies'[k] = copies[k]
    BY <1>0, <1>c, CopiesKept
  <2>2. copies = [k \in 1 .. depth |-> copies[k]]
    BY <1>s
  <2> QED
    BY <1>0, <1>c, <2>1, <2>2
<1>1. CASE push_scope
  <2>1. depth' = depth + 1 /\ transaction_starts'[depth + 1] = Len(indices)
    BY <1>0, <1>1, AppendProperties DEF push_scope, Inv, TypeOK
  <2>2. \A k \in 1 .. depth : copies'[k] = copies[k]
    BY <1>0, <1>1, <2>1, CopiesKept DEF push_scope
  <2>3. copies'[depth + 1] = data
    <3> DEFINE last == depth + 1
    <3>0. /\ last \in 1 .. depth' /\ transaction_starts'[last] = Len(indices)
          /\ Indices' = Indices /\ indices' = indices /\ data' = data
      BY <1>0, <1>1, <2>1 DEF push_scope, Indices
    <3> HIDE DEF last
    <3>1. ASSUME NEW i \in Indices
          PROVE  get_value(indices', transaction_starts'[last], data', i) = data[i]
      BY <3>0, SearchEmpty DEF Inv, TypeOK
    <3>2. copies'[last] = [i \in Indices |-> data[i]]
      BY <1>0, <1>t, <3>0, <3>1 DEF scope_value
    <3> QED
      BY <3>2 DEF last, Inv, TypeOK
  <2>4. copies' = Append(copies, data)
    <3>1. data \in [Indices -> Value]
      BY DEF Inv, TypeOK
    <3>2. /\ Append(copies, data) \in Seq([Indices -> Value])
          /\ Len(Append(copies, data)) = depth + 1
          /\ \A k \in 1 .. depth : Append(copies, data)[k] = copies[k]
          /\ Append(copies, data)[depth + 1] = data
      BY <1>0, <3>1, AppendProperties
    <3>3. Append(copies, data) = [k \in 1 .. depth + 1 |-> Append(copies, data)[k]]
      BY <3>2, LenProperties
    <3> QED
      BY <1>0, <2>1, <2>2, <2>3, <3>2, <3>3
  <2>5. Stack!Push
    BY <1>0, <1>a, <1>1, <2>4 DEF push_scope, Stack!Push
  <2> QED
    BY <2>5 DEF Stack!Next
<1>2. CASE rollback_current_scope
  <2>1. copies' = copies
    BY <1>2, <1>c DEF rollback_current_scope
  <2>2. Stack!Rollback
    BY <1>0, <1>a, <1>b, <1>2, <2>1
       DEF rollback_current_scope, has_transactions, Stack!Rollback
  <2> QED
    BY <2>2 DEF Stack!Next
<1>3. ASSUME NEW preserve_changes \in BOOLEAN, pop_scope(preserve_changes)
      PROVE  Stack!Next
  <2>1. depth > 0 /\ depth' = depth - 1
    BY <1>0, <1>3 DEF pop_scope, has_transactions
  <2>2. \A k \in 1 .. depth - 1 : copies'[k] = copies[k]
    BY <1>0, <1>3, <2>1, CopiesKept DEF pop_scope
  <2>3. copies' = [k \in 1 .. Len(copies) - 1 |-> copies[k]]
    BY <1>0, <2>1, <2>2
  <2>4. Stack!Pop(preserve_changes)
    BY <1>0, <1>a, <1>b, <1>3, <2>1, <2>3 DEF pop_scope, Stack!Pop
  <2> QED
    BY <2>4 DEF Stack!Next
<1>4. ASSUME NEW i \in Indices, NEW v \in Value, vector_attribute(i, v)
      PROVE  Stack!Next
  <2>1. copies' = copies
    BY <1>4, <1>c DEF vector_attribute
  <2>2. Stack!Write(i, v)
    BY <1>a, <1>4, <2>1 DEF vector_attribute, Stack!Write
  <2> QED
    BY <2>2 DEF Stack!Next, Stack!Indices, Indices
<1>5. ASSUME NEW n \in 1 .. MaxSize, reserve(n)
      PROVE  Stack!Next
  <2>1. /\ n > size /\ size' = n /\ depth' = depth /\ n \in Nat
        /\ indices' = indices /\ transaction_starts' = transaction_starts
        /\ data' = [i \in 0 .. n - 1 |-> IF i < size THEN data[i] ELSE Default]
    BY <1>5, BoundAssumption DEF reserve
  <2>2. ASSUME NEW k \in 1 .. depth
        PROVE  copies'[k] = Stack!Grown(copies[k], n)
    <3>0. transaction_starts[k] \in Nat
      BY ElementOfSeq DEF Inv, TypeOK
    <3>1. ASSUME NEW i \in Indices
          PROVE  scope_value(k, i)' = copies[k][i]
      BY <1>0, <1>s, <2>1, KeptByStep
    <3>2. ASSUME NEW i \in 0 .. n - 1, i \notin Indices
          PROVE  scope_value(k, i)' = Default
      <4>1. ~ (i < size)
        BY <1>0, <3>2 DEF Indices
      <4>2. Recorded(indices, transaction_starts[k], i) = {}
        BY <1>0, <3>0, <4>1 DEF Recorded, Inv, RecordsInRange
      <4>3. get_value(indices, transaction_starts[k], data', i) = data'[i]
        BY <4>2, SearchMiss
      <4> QED
        BY <2>1, <4>1, <4>3 DEF scope_value
    <3>3. copies'[k] = [i \in 0 .. n - 1 |-> scope_value(k, i)']
      BY <1>0, <1>t, <2>1 DEF Indices
    <3> QED
      BY <1>0, <3>1, <3>2, <3>3 DEF Stack!Grown, Indices
  <2>3. copies' = [k \in 1 .. Len(copies) |-> Stack!Grown(copies[k], n)]
    BY <1>0, <2>1, <2>2
  <2>4. Stack!Reserve(n)
    BY <1>5, <2>1, <2>3 DEF reserve, Stack!Reserve, Stack!Grown
  <2> QED
    BY <2>4 DEF Stack!Next
<1>6. CASE change_to_next_scope
  <2>1. copies' = copies
    BY <1>6, <1>c DEF change_to_next_scope
  <2> QED
    BY <1>6, <2>1 DEF change_to_next_scope, Stack!Next, Stack!ToParent
<1>7. CASE change_to_previous_scope
  <2>1. copies' = copies
    BY <1>7, <1>c DEF change_to_previous_scope
  <2> QED
    BY <1>a, <1>7, <2>1 DEF change_to_previous_scope, Stack!Next, Stack!ToChild
<1>8. CASE UNCHANGED vars
  <2>1. copies' = copies
    BY <1>8, <1>c DEF vars
  <2> QED
    BY <1>8, <2>1 DEF vars, Stack!vars
<1> QED
  BY <1>1, <1>2, <1>3, <1>4, <1>5, <1>6, <1>7, <1>8 DEF Next

\* The shared undo log does what a copy of the attribute made at each
\* push_scope would do: leaving a scope with its changes undone, rolling it
\* back and reading through it give the values of the moment it was opened.
THEOREM Refinement == Spec => ImplementsTransactionStack
  BY InitRefines, NextRefines, InvCorrect, PTL
     DEF Spec, Stack!Spec, ImplementsTransactionStack
=============================================================================

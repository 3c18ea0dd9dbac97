-------------------------- MODULE CachingAttribute --------------------------
(***************************************************************************)
(* src/src/wmtk/attribute/CachingAttribute.hxx: an attribute whose writes  *)
(* can be undone.  While a scope is open, taking a mutable reference to    *)
(* index i first appends the record <<i, value of i>> to one log that all  *)
(* open scopes share; a scope is no more than a position in that log.      *)
(* Undoing a scope replays its records backwards; reading through a        *)
(* checkpoint looks for the oldest record a scope has of the index.        *)
(*                                                                         *)
(*   size, data     m_data of the base class Attribute, dimension values   *)
(*                  taken as one                                           *)
(*   indices        m_indices below m_indices_end, each record with the    *)
(*                  values its offset designates in m_buffer (the two      *)
(*                  arrays themselves are modelled by UndoBuffer.tla)      *)
(*   transaction_starts, current_transaction_index                         *)
(*                  m_transaction_starts and m_current_transaction_index   *)
(***************************************************************************)
EXTENDS Integers, Sequences

CONSTANTS
    Value,          \* the values one index of the attribute can hold
    Default,        \* m_default_value
    MaxSize,        \* bound: indices of the attribute
    MaxDepth,       \* bound: scopes open at the same time
    MaxRecords      \* bound: records in the log

ASSUME ValueAssumption == Default \in Value
ASSUME BoundAssumption ==
    MaxSize \in Nat \ {0} /\ MaxDepth \in Nat \ {0} /\ MaxRecords \in Nat

VARIABLES size, data, indices, transaction_starts, current_transaction_index

vars == <<size, data, indices, transaction_starts, current_transaction_index>>

Indices == 0 .. size - 1
Record  == [index : Nat, value : Value]

transaction_depth == Len(transaction_starts)
has_transactions  == transaction_depth > 0
at_current_scope  == current_transaction_index = transaction_depth

(***************************************************************************)
(* Reading the log.  The records of a scope are those above the position   *)
(* it starts at, the records of the scopes it encloses included.           *)
(***************************************************************************)

\* The positions above start at which the log has a record of index i.
Recorded(log, start, i) == {r \in start + 1 .. Len(log) : log[r].index = i}

\* get_value, with the fall-back of its callers to m_data: the first record
\* that a search from the start meets, which is the one that a replay from the
\* end of the log applies last.
get_value(log, start, d, i) ==
    LET found == Recorded(log, start, i)
    IN  IF found = {} THEN d[i]
        ELSE log[CHOOSE r \in found : \A s \in found : r <= s].value

\* The value scope k, counted from the outermost one, has kept for index i.
scope_value(k, i) == get_value(indices, transaction_starts[k], data, i)

\* What apply_cache leaves in m_data: the records of the last scope replayed
\* from the newest to the oldest.
apply_cache == [i \in Indices |-> scope_value(transaction_depth, i)]

\* const_vector_attribute, const_scalar_attribute and const_vector_single_value,
\* as they read when current_transaction_index is view.
const_vector_attribute(view, i) ==
    IF view = transaction_depth THEN data[i] ELSE scope_value(view + 1, i)

-----------------------------------------------------------------------------
Init ==
    /\ size \in 0 .. MaxSize
    /\ data = [i \in Indices |-> Default]
    /\ indices = << >>
    /\ transaction_starts = << >>
    /\ current_transaction_index = 0

push_scope ==
    /\ at_current_scope
    /\ transaction_depth < MaxDepth
    /\ transaction_starts' = Append(transaction_starts, Len(indices))
    /\ current_transaction_index' = transaction_depth + 1
    /\ UNCHANGED <<size, data, indices>>

\* Variant with a bug: leaving any scope empties the log.
pop_scope_emptying(preserve_changes) ==
    /\ at_current_scope
    /\ has_transactions
    /\ data' = IF preserve_changes THEN data ELSE apply_cache
    /\ transaction_starts' = [k \in 1 .. transaction_depth - 1 |-> transaction_starts[k]]
    /\ current_transaction_index' = transaction_depth - 1
    /\ indices' = << >>
    /\ UNCHANGED size

\* The records of a scope that is left stay in the log, whether its changes
\* were kept or undone, until the outermost scope is left.
pop_scope(preserve_changes) ==
    /\ at_current_scope
    /\ has_transactions
    /\ data' = IF preserve_changes THEN data ELSE apply_cache
    /\ transaction_starts' = [k \in 1 .. transaction_depth - 1 |-> transaction_starts[k]]
    /\ current_transaction_index' = transaction_depth - 1
    /\ indices' = IF transaction_depth = 1 THEN << >> ELSE indices
    /\ UNCHANGED size

\* Variant with a bug: the log is replayed forwards, so the newest record wins.
rollback_current_scope_keeping_newest ==
    /\ has_transactions
    /\ at_current_scope
    /\ data' = [i \in Indices |->
                 LET found == Recorded(indices, transaction_starts[transaction_depth], i)
                 IN  IF found = {} THEN data[i]
                     ELSE indices[CHOOSE r \in found : \A s \in found : s <= r].value]
    /\ UNCHANGED <<size, indices, transaction_starts, current_transaction_index>>

rollback_current_scope ==
    /\ has_transactions
    /\ at_current_scope
    /\ data' = apply_cache
    /\ UNCHANGED <<size, indices, transaction_starts, current_transaction_index>>

\* Variant with a bug: the value is recorded after the assignment.
vector_attribute_late(i, v) ==
    /\ at_current_scope
    /\ has_transactions => Len(indices) < MaxRecords
    /\ indices' = IF has_transactions
                  THEN Append(indices, [index |-> i, value |-> v])
                  ELSE indices
    /\ data' = [data EXCEPT ![i] = v]
    /\ UNCHANGED <<size, transaction_starts, current_transaction_index>>

\* Mutable access, and the assignment its caller makes through the reference.
vector_attribute(i, v) ==
    /\ at_current_scope
    /\ has_transactions => Len(indices) < MaxRecords
    /\ indices' = IF has_transactions
                  THEN Append(indices, [index |-> i, value |-> data[i]])
                  ELSE indices
    /\ data' = [data EXCEPT ![i] = v]
    /\ UNCHANGED <<size, transaction_starts, current_transaction_index>>

\* Variant with a bug: the new size is taken without filling m_data.
reserve_unfilled(n) ==
    /\ n > size
    /\ size' = n
    /\ UNCHANGED <<data, indices, transaction_starts, current_transaction_index>>

\* Variant with a bug: a smaller size shrinks m_data.
reserve_shrinking(n) ==
    /\ n # size
    /\ size' = n
    /\ data' = [i \in 0 .. n - 1 |-> IF i < size THEN data[i] ELSE Default]
    /\ UNCHANGED <<indices, transaction_starts, current_transaction_index>>

\* Attribute::reserve; nothing keeps it from running inside a scope.
reserve(n) ==
    /\ n > size
    /\ size' = n
    /\ data' = [i \in 0 .. n - 1 |-> IF i < size THEN data[i] ELSE Default]
    /\ UNCHANGED <<indices, transaction_starts, current_transaction_index>>

\* One step towards the outermost scope.  The decrement is unguarded: every
\* caller nests its checkpoints less deep than the scopes that are open.
change_to_next_scope ==
    /\ current_transaction_index > 0
    /\ current_transaction_index' = current_transaction_index - 1
    /\ UNCHANGED <<size, data, indices, transaction_starts>>

change_to_previous_scope ==
    /\ ~at_current_scope
    /\ current_transaction_index' = current_transaction_index + 1
    /\ UNCHANGED <<size, data, indices, transaction_starts>>

Next ==
    \/ push_scope
    \/ rollback_current_scope
    \/ \E preserve_changes \in BOOLEAN : pop_scope(preserve_changes)
    \/ \E i \in Indices, v \in Value : vector_attribute(i, v)
    \/ \E n \in 1 .. MaxSize : reserve(n)
    \/ change_to_next_scope
    \/ change_to_previous_scope

Spec == Init /\ [][Next]_vars

-----------------------------------------------------------------------------
\* The types of the variables.
TypeOK ==
    /\ size \in 0 .. MaxSize
    /\ data \in [Indices -> Value]
    /\ indices \in Seq(Record)
    /\ transaction_starts \in Seq(Nat)
    /\ current_transaction_index \in Nat

\* The scopes nest: each starts at a record that exists, no later than the
\* scopes it encloses, and no record outlives the outermost scope.  A replay
\* or a checkpoint that met a start beyond the log, or a record without a
\* scope, would write back values of a transaction that is over.
ScopesNest ==
    /\ current_transaction_index <= transaction_depth
    /\ \A k \in 1 .. transaction_depth : transaction_starts[k] <= Len(indices)
    /\ \A k, l \in 1 .. transaction_depth :
          k <= l => transaction_starts[k] <= transaction_starts[l]
    /\ transaction_depth = 0 => indices = << >>

\* Every record names an index of the attribute, so that replaying the log
\* never writes outside m_data.
RecordsInRange == \A r \in 1 .. Len(indices) : indices[r].index < size

\* The value an open scope would restore, for every index it can restore, is
\* not changed by anything done while it stays open: neither by writes, nor
\* by opening, keeping, undoing or reading through the scopes inside it.
ScopesAreStable ==
    [][\A k \in 1 .. transaction_depth :
          k <= transaction_depth' =>
             \A i \in Indices : scope_value(k, i)' = scope_value(k, i)]_vars

\* What a reader sees through each open scope.
copies == [k \in 1 .. transaction_depth |->
              [i \in Indices |-> const_vector_attribute(k - 1, i)]]

Stack == INSTANCE TransactionStack WITH
    stack <- copies, view <- current_transaction_index

\* The log is as good as a copy of the attribute made at push_scope: undoing a
\* scope leaves behind what a reader sees through it, and both are what the
\* attribute held when the scope was opened, whatever happened inside.
ImplementsTransactionStack == Stack!Spec
=============================================================================

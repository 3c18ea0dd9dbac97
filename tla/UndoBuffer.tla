----------------------------- MODULE UndoBuffer -----------------------------
(***************************************************************************)
(* The two arrays in which src/src/wmtk/attribute/CachingAttribute.hxx     *)
(* keeps its undo log.  m_indices holds pairs of an attribute index and an *)
(* offset, m_buffer the Dimension values that were found there; both are   *)
(* larger than what they hold, their live part ends at m_indices_end and   *)
(* m_buffer_end, and what lies beyond is left over from earlier scopes.    *)
(* The log of CachingAttribute.tla is what the live part stands for.       *)
(* Changing the scope that is read leaves the arrays alone and is left     *)
(* out; so are reset and clear, which nothing but the unit tests reach.    *)
(***************************************************************************)
EXTENDS Integers, Sequences, FiniteSets

CONSTANTS
    Value, Default, MaxSize, MaxDepth, MaxRecords,   \* as in CachingAttribute
    Dimension,        \* values per index
    InitialIndices,   \* first size of m_indices, 32 in the code
    InitialBuffer     \* first size of m_buffer, 64 in the code

ASSUME DimensionAssumption == Dimension \in Nat \ {0}
ASSUME InitialAssumption ==
    /\ InitialIndices \in Nat /\ InitialIndices > 2
    /\ InitialBuffer \in Nat /\ InitialBuffer > 2
ASSUME BufferValueAssumption == Default \in Value /\ "torn" \notin Value
ASSUME BufferBoundAssumption ==
    MaxSize \in Nat \ {0} /\ MaxDepth \in Nat \ {0} /\ MaxRecords \in Nat

VARIABLES
    size, data, transaction_starts,
    m_indices, m_buffer, m_indices_end, m_buffer_end

vars == <<size, data, transaction_starts,
          m_indices, m_buffer, m_indices_end, m_buffer_end>>

depth == Len(transaction_starts)
has_transactions == depth > 0

\* What std::vector puts in the slots nothing was written to.
EmptySlot == [index |-> 0, offset |-> 0]
EmptyCell == <<"empty", 0>>

\* A vector v resized to n elements, the new ones being e.
Resized(v, n, e) == [s \in 0 .. n - 1 |-> IF s \in DOMAIN v THEN v[s] ELSE e]
length(v) == Cardinality(DOMAIN v)

\* The value of one index, as the Dimension cells it is stored in.
Cells(v) == [c \in 0 .. Dimension - 1 |-> <<v, c>>]

\* The value that is read at an offset of the buffer.
Holds(buffer, offset, v) == \A c \in 0 .. Dimension - 1 : buffer[offset + c] = <<v, c>>
ValueAt(buffer, offset) ==
    CHOOSE v \in Value \cup {"torn"} :
        IF v = "torn" THEN ~ \E w \in Value : Holds(buffer, offset, w)
                      ELSE Holds(buffer, offset, v)

\* apply_cache: the live records from the start of the last scope on, written
\* back from the newest to the oldest; restored[s] is m_data when the records
\* from slot s on have been.
restored[s \in transaction_starts[depth] .. m_indices_end] ==
    IF s = m_indices_end THEN data
    ELSE [restored[s + 1] EXCEPT ![m_indices[s].index] =
                                     ValueAt(m_buffer, m_indices[s].offset)]
apply_cache == restored[transaction_starts[depth]]

-----------------------------------------------------------------------------
(* update_buffer_sizes_for_add: a vector grows by three quarters, once.     *)

grown(n) == (n * 7) \div 4

room_indices ==
    IF m_indices_end + 1 >= length(m_indices) THEN grown(length(m_indices))
    ELSE length(m_indices)

\* Variant with a bug: the buffer grows only once it is full.
room_buffer_late ==
    IF m_buffer_end >= length(m_buffer) THEN grown(length(m_buffer))
    ELSE length(m_buffer)

room_buffer ==
    IF m_buffer_end + Dimension >= length(m_buffer) THEN grown(length(m_buffer))
    ELSE length(m_buffer)

\* Variant with a bug: the offset counts records instead of values.
cache_unstrided(i) ==
    LET buffer == Resized(m_buffer, room_buffer, EmptyCell)
    IN  /\ m_indices' = [Resized(m_indices, room_indices, EmptySlot) EXCEPT
                            ![m_indices_end] = [index |-> i, offset |-> m_indices_end]]
        /\ m_buffer' = [s \in DOMAIN buffer |->
                          IF s - m_buffer_end \in 0 .. Dimension - 1
                          THEN Cells(data[i])[s - m_buffer_end] ELSE buffer[s]]
        /\ m_indices_end' = m_indices_end + 1
        /\ m_buffer_end' = m_buffer_end + Dimension

\* cache(index, value): a record at the end of both vectors.
cache(i) ==
    LET buffer == Resized(m_buffer, room_buffer, EmptyCell)
    IN  /\ m_indices' = [Resized(m_indices, room_indices, EmptySlot) EXCEPT
                            ![m_indices_end] = [index |-> i, offset |-> m_buffer_end]]
        /\ m_buffer' = [s \in DOMAIN buffer |->
                          IF s - m_buffer_end \in 0 .. Dimension - 1
                          THEN Cells(data[i])[s - m_buffer_end] ELSE buffer[s]]
        /\ m_indices_end' = m_indices_end + 1
        /\ m_buffer_end' = m_buffer_end + Dimension

-----------------------------------------------------------------------------
Init ==
    /\ size \in 1 .. MaxSize
    /\ data = [i \in 0 .. size - 1 |-> Default]
    /\ transaction_starts = << >>
    /\ m_indices = [s \in 0 .. InitialIndices - 1 |-> EmptySlot]
    /\ m_buffer = [s \in 0 .. InitialBuffer - 1 |-> EmptyCell]
    /\ m_indices_end = 0
    /\ m_buffer_end = 0

push_scope ==
    /\ depth < MaxDepth
    /\ transaction_starts' = Append(transaction_starts, m_indices_end)
    /\ UNCHANGED <<size, data, m_indices, m_buffer, m_indices_end, m_buffer_end>>

\* Variant with a bug: the end of the buffer is not reset with that of m_indices.
pop_scope_half_reset(preserve_changes) ==
    /\ has_transactions
    /\ data' = IF preserve_changes THEN data ELSE apply_cache
    /\ transaction_starts' = SubSeq(transaction_starts, 1, depth - 1)
    /\ m_indices_end' = IF depth = 1 THEN 0 ELSE m_indices_end
    /\ UNCHANGED <<size, m_indices, m_buffer, m_buffer_end>>

pop_scope(preserve_changes) ==
    /\ has_transactions
    /\ data' = IF preserve_changes THEN data ELSE apply_cache
    /\ transaction_starts' = SubSeq(transaction_starts, 1, depth - 1)
    /\ IF depth = 1 THEN m_indices_end' = 0 /\ m_buffer_end' = 0
                    ELSE UNCHANGED <<m_indices_end, m_buffer_end>>
    /\ UNCHANGED <<size, m_indices, m_buffer>>

rollback_current_scope ==
    /\ has_transactions
    /\ data' = apply_cache
    /\ UNCHANGED <<size, transaction_starts,
                   m_indices, m_buffer, m_indices_end, m_buffer_end>>

vector_attribute(i, v) ==
    /\ IF has_transactions
       THEN m_indices_end < MaxRecords /\ cache(i)
       ELSE UNCHANGED <<m_indices, m_buffer, m_indices_end, m_buffer_end>>
    /\ data' = [data EXCEPT ![i] = v]
    /\ UNCHANGED <<size, transaction_starts>>

Next ==
    \/ push_scope
    \/ rollback_current_scope
    \/ \E preserve_changes \in BOOLEAN : pop_scope(preserve_changes)
    \/ \E i \in DOMAIN data, v \in Value : vector_attribute(i, v)

Spec == Init /\ [][Next]_vars

-----------------------------------------------------------------------------
(* The assertions of cache(index, value).                                   *)

\* The growth of the buffer leaves room for the values of the next record:
\* assert(m_buffer.size() >= m_buffer_end + dim), on which std::copy relies.
BufferHasRoom ==
    has_transactions => room_buffer >= m_buffer_end + Dimension

\* The two ends agree: assert(m_buffer_end == m_indices_end * dim), by which
\* the offsets of the records of a scope follow from where the scope starts.
EndsAgree == m_buffer_end = m_indices_end * Dimension

\* Neither what earlier scopes left beyond the ends nor the growth of the
\* vectors shows: the live part is the log of CachingAttribute, and replaying
\* it record by record gives what reading the oldest records gives.
Log == INSTANCE CachingAttribute WITH
    current_transaction_index <- depth,
    indices <- [r \in 1 .. m_indices_end |->
                   [index |-> m_indices[r - 1].index,
                    value |-> ValueAt(m_buffer, m_indices[r - 1].offset)]]

ImplementsLog == Log!Spec
=============================================================================

-------------------------- MODULE UndoBufferProofs --------------------------
(***************************************************************************)
(* Proofs about UndoBuffer.tla, for every dimension, size and depth and    *)
(* any number of records: the two arrays that are never shortened hold the *)
(* undo log, as long as the buffer, growing by three quarters, gains room  *)
(* for one more record.                                                    *)
(***************************************************************************)
EXTENDS UndoBuffer, FiniteSetTheorems, SequenceTheorems, TLAPS

\* The first size of the buffer is one that grows by a record's values.  With
\* the 64 of the code that is so up to 48 values per index; MC_UndoBuffer_wide
\* is about what happens beyond.
BufferFits == 4 * Dimension <= 3 * InitialBuffer

\* The log that the live part of the arrays stands for.
log == [r \in 1 .. m_indices_end |->
           [index |-> m_indices[r - 1].index,
            value |-> ValueAt(m_buffer, m_indices[r - 1].offset)]]

\* What was proved of the log.
LogProofs == INSTANCE CachingAttributeProofs WITH
    current_transaction_index <- depth,
    indices <- [r \in 1 .. m_indices_end |->
                   [index |-> m_indices[r - 1].index,
                    value |-> ValueAt(m_buffer, m_indices[r - 1].offset)]]

\* A vector of n elements.
IsVector(v, n) == n \in Nat /\ DOMAIN v = 0 .. n - 1

Types ==
    /\ transaction_starts \in Seq(Nat)
    /\ m_indices_end \in Nat /\ m_buffer_end \in Nat
    /\ IsVector(m_indices, length(m_indices)) /\ IsVector(m_buffer, length(m_buffer))

\* Scopes start inside the log, the vectors are no shorter than at first, and
\* the records fit into the first of them.
Bounds ==
    /\ \A k \in 1 .. depth : transaction_starts[k] <= m_indices_end
    /\ depth = 0 => m_indices_end = 0
    /\ m_indices_end <= length(m_indices) /\ InitialIndices <= length(m_indices)
    /\ InitialBuffer <= length(m_buffer)

\* The records fit into the buffer; each is about an index of the attribute and
\* finds the cells of one value.
Live(record) ==
    /\ record.index \in DOMAIN data
    /\ record.offset \in Nat /\ record.offset + Dimension <= m_buffer_end
    /\ \E v \in Value : Holds(m_buffer, record.offset, v)
LiveRecords ==
    /\ m_buffer_end <= length(m_buffer)
    /\ \A s \in 0 .. m_indices_end - 1 : Live(m_indices[s])

\* The ends of the arrays, of any dimension; and their contents.
Ends     == Types /\ Bounds /\ EndsAgree
Contents == /\ Ends /\ LiveRecords
            /\ size \in 0 .. MaxSize /\ data \in [0 .. size - 1 -> Value]

-----------------------------------------------------------------------------
(* The vectors.                                                            *)

LEMMA VectorLength ==
    ASSUME NEW v, NEW n \in Nat, DOMAIN v = 0 .. n - 1
    PROVE  length(v) = n
<1>1. Cardinality(0 .. n - 1) = IF 0 > n - 1 THEN 0 ELSE (n - 1) - 0 + 1
  BY FS_Interval
<1> QED
  BY <1>1 DEF length

\* Growing by three quarters gains at least one element, and as many as a
\* record needs where the dimension is small against the size.
LEMMA Grows ==
    ASSUME NEW n \in Nat, n > 2, NEW d \in Nat, 4 * d <= 3 * n
    PROVE  grown(n) \in Nat /\ grown(n) >= n + 1 /\ grown(n) >= n + d
<1>1. (n * 7) \div 4 \in Int /\ 4 * ((n * 7) \div 4) > n * 7 - 4
  OBVIOUS
<1>2. (n * 7) \div 4 >= n + 1
  BY <1>1
<1>3. (n * 7) \div 4 >= n + d
  BY <1>1
<1> QED
  BY <1>2, <1>3, <1>1 DEF grown

\* The room that is made before a record is written.
LEMMA IndicesRoom ==
    ASSUME Types, Bounds
    PROVE  /\ room_indices \in Nat /\ room_indices >= length(m_indices)
           /\ room_indices >= m_indices_end + 1
<1>1. length(m_indices) \in Nat /\ length(m_indices) > 2 /\ m_indices_end \in Nat
  BY InitialAssumption DEF Types, Bounds, IsVector
<1>2. grown(length(m_indices)) \in Nat /\ grown(length(m_indices)) >= length(m_indices) + 1
  BY <1>1, Grows
<1> QED
  BY <1>1, <1>2 DEF room_indices, Bounds

LEMMA BufferGrows ==
    ASSUME Types, Bounds
    PROVE  room_buffer \in Nat /\ room_buffer >= length(m_buffer)
<1>1. length(m_buffer) \in Nat /\ length(m_buffer) > 2
  BY InitialAssumption DEF Types, Bounds, IsVector
<1>2. grown(length(m_buffer)) \in Nat /\ grown(length(m_buffer)) >= length(m_buffer) + 1
  BY <1>1, Grows
<1> QED
  BY <1>1, <1>2 DEF room_buffer

LEMMA BufferRoom ==
    ASSUME BufferFits, Types, Bounds, m_buffer_end <= length(m_buffer)
    PROVE  room_buffer >= m_buffer_end + Dimension
<1>1. /\ length(m_buffer) \in Nat /\ length(m_buffer) > 2 /\ m_buffer_end \in Nat
      /\ Dimension \in Nat /\ InitialBuffer \in Nat /\ InitialBuffer <= length(m_buffer)
  BY InitialAssumption, DimensionAssumption DEF Types, Bounds, IsVector
<1>2. 4 * Dimension <= 3 * length(m_buffer)
  BY <1>1 DEF BufferFits
<1>3. grown(length(m_buffer)) \in Nat
      /\ grown(length(m_buffer)) >= length(m_buffer) + Dimension
  BY <1>1, <1>2, Grows
<1> QED
  BY <1>1, <1>3 DEF room_buffer

-----------------------------------------------------------------------------
(* A record is written.                                                    *)

LEMMA Cached ==
    ASSUME Ends, NEW i \in DOMAIN data, cache(i)
    PROVE  /\ IsVector(m_indices', length(m_indices')) /\ length(m_indices') = room_indices
           /\ IsVector(m_buffer', length(m_buffer')) /\ length(m_buffer') = room_buffer
           /\ m_indices_end' = m_indices_end + 1
           /\ m_buffer_end' = m_buffer_end + Dimension
           /\ m_indices'[m_indices_end] = [index |-> i, offset |-> m_buffer_end]
           /\ \A s \in 0 .. m_indices_end - 1 : m_indices'[s] = m_indices[s]
           /\ \A s \in 0 .. m_buffer_end - 1 :
                 s < length(m_buffer) => m_buffer'[s] = m_buffer[s]
           /\ \A c \in 0 .. Dimension - 1 :
                 m_buffer_end + c < room_buffer => m_buffer'[m_buffer_end + c] = <<data[i], c>>
<1>1. /\ m_indices_end \in Nat /\ m_buffer_end \in Nat /\ Dimension \in Nat
      /\ length(m_indices) \in Nat /\ DOMAIN m_indices = 0 .. length(m_indices) - 1
      /\ length(m_buffer) \in Nat /\ DOMAIN m_buffer = 0 .. length(m_buffer) - 1
      /\ m_indices_end <= length(m_indices)
  BY DimensionAssumption DEF Ends, Types, Bounds, IsVector
<1>2. /\ room_indices \in Nat /\ room_indices >= length(m_indices)
      /\ room_indices >= m_indices_end + 1
      /\ room_buffer \in Nat /\ room_buffer >= length(m_buffer)
  BY IndicesRoom, BufferGrows DEF Ends
<1> DEFINE indices == Resized(m_indices, room_indices, EmptySlot)
           buffer  == Resized(m_buffer, room_buffer, EmptyCell)
<1>3. /\ DOMAIN indices = 0 .. room_indices - 1
      /\ \A s \in 0 .. room_indices - 1 : s \in DOMAIN m_indices => indices[s] = m_indices[s]
      /\ \E S : indices \in [0 .. room_indices - 1 -> S]
  <2>1. indices \in [0 .. room_indices - 1 -> {indices[s] : s \in 0 .. room_indices - 1}]
    BY DEF Resized
  <2> QED
    BY <2>1 DEF Resized
<1>4. /\ DOMAIN buffer = 0 .. room_buffer - 1
      /\ \A s \in 0 .. room_buffer - 1 : s \in DOMAIN m_buffer => buffer[s] = m_buffer[s]
  BY DEF Resized
<1>5. /\ m_indices' = [indices EXCEPT ![m_indices_end] = [index |-> i, offset |-> m_buffer_end]]
      /\ m_buffer' = [s \in DOMAIN buffer |->
                        IF s - m_buffer_end \in 0 .. Dimension - 1
                        THEN Cells(data[i])[s - m_buffer_end] ELSE buffer[s]]
      /\ m_indices_end' = m_indices_end + 1
      /\ m_buffer_end' = m_buffer_end + Dimension
  BY DEF cache
<1> HIDE DEF indices, buffer
<1>6. /\ DOMAIN m_indices' = 0 .. room_indices - 1 /\ length(m_indices') = room_indices
      /\ IsVector(m_indices', length(m_indices'))
  BY <1>2, <1>3, <1>5, VectorLength DEF IsVector
<1>7. /\ DOMAIN m_buffer' = 0 .. room_buffer - 1 /\ length(m_buffer') = room_buffer
      /\ IsVector(m_buffer', length(m_buffer'))
  BY <1>2, <1>4, <1>5, VectorLength DEF IsVector
<1>8. m_indices'[m_indices_end] = [index |-> i, offset |-> m_buffer_end]
  BY <1>1, <1>2, <1>3, <1>5
<1>9. ASSUME NEW s \in 0 .. m_indices_end - 1 PROVE m_indices'[s] = m_indices[s]
  <2>1. s \in 0 .. room_indices - 1 /\ s \in DOMAIN m_indices /\ s # m_indices_end
    BY <1>1, <1>2
  <2>2. indices[s] = m_indices[s]
    BY <1>3, <2>1
  <2> QED
    BY <1>3, <1>5, <2>1, <2>2
<1>10. ASSUME NEW s \in 0 .. m_buffer_end - 1, s < length(m_buffer)
       PROVE  m_buffer'[s] = m_buffer[s]
  <2>1. s \in 0 .. room_buffer - 1 /\ s \in DOMAIN m_buffer
        /\ ~(s - m_buffer_end \in 0 .. Dimension - 1)
    BY <1>1, <1>2, <1>10
  <2> QED
    BY <1>4, <1>5, <2>1
<1>11. ASSUME NEW c \in 0 .. Dimension - 1, m_buffer_end + c < room_buffer
       PROVE  m_buffer'[m_buffer_end + c] = <<data[i], c>>
  <2>1. (m_buffer_end + c) - m_buffer_end = c /\ m_buffer_end + c \in 0 .. room_buffer - 1
    BY <1>1, <1>2, <1>11
  <2>2. m_buffer'[m_buffer_end + c] = Cells(data[i])[c]
    BY <1>4, <1>5, <2>1
  <2> QED
    BY <2>2 DEF Cells
<1> QED
  BY <1>5, <1>6, <1>7, <1>8, <1>9, <1>10, <1>11

\* What is read where the cells of a value are.
LEMMA ValueRead ==
    ASSUME NEW buffer, NEW offset, NEW v \in Value, Holds(buffer, offset, v)
    PROVE  ValueAt(buffer, offset) = v
<1> DEFINE P(w) == IF w = "torn" THEN ~ \E u \in Value : Holds(buffer, offset, u)
                                 ELSE Holds(buffer, offset, w)
           read == CHOOSE w \in Value \cup {"torn"} : P(w)
<1>1. 0 \in 0 .. Dimension - 1
  BY DimensionAssumption
<1>2. v # "torn" /\ P(v)
  BY BufferValueAssumption
<1>3. read \in Value \cup {"torn"} /\ P(read)
  BY <1>2
<1>4. read # "torn"
  BY <1>3
<1>5. Holds(buffer, offset, read)
  BY <1>3, <1>4
<1> HIDE DEF read
<1>6. <<read, 0>> = <<v, 0>>
  BY <1>1, <1>5 DEF Holds
<1>7. read = v
  BY <1>6
<1> QED
  BY <1>7 DEF read, ValueAt

-----------------------------------------------------------------------------
(* The ends of the arrays.                                                 *)

LEMMA InitEnds == Init => Ends
<1> SUFFICES ASSUME Init PROVE Ends
  OBVIOUS
<1>1. /\ transaction_starts = << >> /\ m_indices_end = 0 /\ m_buffer_end = 0
      /\ DOMAIN m_indices = 0 .. InitialIndices - 1
      /\ DOMAIN m_buffer = 0 .. InitialBuffer - 1
  BY DEF Init
<1>2. length(m_indices) = InitialIndices /\ length(m_buffer) = InitialBuffer
  BY <1>1, InitialAssumption, VectorLength
<1>3. Types
  BY <1>1, <1>2, InitialAssumption, EmptySeq DEF Types, IsVector
<1>4. Bounds
  BY <1>1, <1>2, InitialAssumption DEF Bounds, depth
<1>5. EndsAgree
  <2>1. 0 * Dimension = 0
    BY DimensionAssumption
  <2> QED
    BY <1>1, <2>1 DEF EndsAgree
<1> QED
  BY <1>3, <1>4, <1>5 DEF Ends

\* The scopes that stay open when the innermost one is closed.
LEMMA Closed ==
    ASSUME Types, has_transactions,
           transaction_starts' = SubSeq(transaction_starts, 1, depth - 1)
    PROVE  /\ transaction_starts' \in Seq(Nat) /\ depth \in Nat \ {0} /\ depth' = depth - 1
           /\ \A k \in 1 .. depth - 1 : transaction_starts'[k] = transaction_starts[k]
<1>1. /\ depth \in Nat \ {0}
      /\ \A k \in 1 .. depth - 1 : transaction_starts[k] \in Nat
  BY LenProperties, ElementOfSeq DEF Types, depth, has_transactions
<1> DEFINE starts == SubSeq(transaction_starts, 1, depth - 1)
<1>2. /\ starts \in Seq(Nat)
      /\ Len(starts) = IF 1 <= depth - 1 THEN (depth - 1) - 1 + 1 ELSE 0
      /\ \A k \in 1 .. (depth - 1) - 1 + 1 : starts[k] = transaction_starts[1 + k - 1]
  <2>1. 1 \in Int /\ depth - 1 \in Int
    BY <1>1
  <2> HIDE DEF depth
  <2> QED
    BY <1>1, <2>1, SubSeqProperties
<1> HIDE DEF starts
<1>3. ASSUME NEW n \in Nat \ {0}
      PROVE  (IF 1 <= n - 1 THEN (n - 1) - 1 + 1 ELSE 0) = n - 1 /\ (n - 1) - 1 + 1 = n - 1
  OBVIOUS
<1>4. Len(starts) = depth - 1
  BY <1>1, <1>2, <1>3
<1>5. ASSUME NEW k \in 1 .. depth - 1 PROVE starts[k] = transaction_starts[k]
  <2>1. k \in 1 .. (depth - 1) - 1 + 1 /\ 1 + k - 1 = k
    BY <1>1
  <2> QED
    BY <1>2, <2>1
<1>6. transaction_starts' = starts
  BY DEF starts
<1> QED
  BY <1>1, <1>2, <1>4, <1>5, <1>6 DEF depth

LEMMA NextEnds == Ends /\ [Next]_vars => Ends'
<1> SUFFICES ASSUME Ends, [Next]_vars PROVE Ends'
  OBVIOUS
<1>0. /\ Types /\ Bounds /\ EndsAgree
      /\ m_indices_end \in Nat /\ m_buffer_end \in Nat /\ depth \in Nat
      /\ transaction_starts \in Seq(Nat) /\ Dimension \in Nat \ {0}
  BY DimensionAssumption, LenProperties DEF Ends, Types, depth
<1>1. CASE push_scope
  <2>1. /\ transaction_starts' = Append(transaction_starts, m_indices_end)
        /\ UNCHANGED <<m_indices, m_buffer, m_indices_end, m_buffer_end>>
    BY <1>1 DEF push_scope
  <2>2. /\ transaction_starts' \in Seq(Nat) /\ depth' = depth + 1
        /\ \A k \in 1 .. depth : transaction_starts'[k] = transaction_starts[k]
        /\ transaction_starts'[depth + 1] = m_indices_end
    BY <1>0, <2>1, AppendProperties DEF depth
  <2>3. \A k \in 1 .. depth' : transaction_starts'[k] <= m_indices_end'
    <3>1. ASSUME NEW k \in 1 .. depth + 1 PROVE transaction_starts'[k] <= m_indices_end
      <4>1. CASE k = depth + 1
        BY <1>0, <2>2, <4>1
      <4>2. CASE k # depth + 1
        <5>1. k \in 1 .. depth
          BY <1>0, <4>2
        <5> QED
          BY <1>0, <2>2, <5>1 DEF Bounds
      <4> QED
        BY <4>1, <4>2
    <3> QED
      BY <2>1, <2>2, <3>1
  <2>4. depth' # 0
    BY <1>0, <2>2
  <2>5. Types' /\ EndsAgree'
    BY <1>0, <2>1, <2>2 DEF Types, EndsAgree, IsVector, length
  <2>6. Bounds'
    BY <1>0, <2>1, <2>3, <2>4 DEF Bounds, length
  <2> QED
    BY <2>5, <2>6 DEF Ends
<1>2. ASSUME NEW preserve_changes \in BOOLEAN, pop_scope(preserve_changes) PROVE Ends'
  <2>1. /\ has_transactions
        /\ transaction_starts' = SubSeq(transaction_starts, 1, depth - 1)
        /\ m_indices' = m_indices /\ m_buffer' = m_buffer
        /\ IF depth = 1 THEN m_indices_end' = 0 /\ m_buffer_end' = 0
           ELSE m_indices_end' = m_indices_end /\ m_buffer_end' = m_buffer_end
    BY <1>2 DEF pop_scope
  <2>2. /\ transaction_starts' \in Seq(Nat) /\ depth \in Nat \ {0} /\ depth' = depth - 1
        /\ \A k \in 1 .. depth - 1 : transaction_starts'[k] = transaction_starts[k]
    BY <1>0, <2>1, Closed
  <2>3. Types'
    BY <1>0, <2>1, <2>2 DEF Types, IsVector, length
  <2>4. EndsAgree'
    <3>1. 0 * Dimension = 0
      BY <1>0
    <3> QED
      BY <1>0, <2>1, <3>1 DEF EndsAgree
  <2>5. ASSUME NEW k \in 1 .. depth' PROVE transaction_starts'[k] <= m_indices_end'
    <3>1. depth # 1 /\ k \in 1 .. depth /\ k \in 1 .. depth - 1
      BY <2>2
    <3> QED
      BY <1>0, <2>1, <2>2, <3>1 DEF Bounds
  <2>6. depth' = 0 => m_indices_end' = 0
    BY <2>1, <2>2
  <2>7. m_indices_end' <= length(m_indices)
    <3>1. length(m_indices) \in Nat /\ m_indices_end <= length(m_indices)
      BY <1>0 DEF Bounds, Types, IsVector
    <3> QED
      BY <2>1, <3>1
  <2>8. Bounds'
    BY <1>0, <2>1, <2>5, <2>6, <2>7 DEF Bounds, length
  <2> QED
    BY <2>3, <2>4, <2>8 DEF Ends
<1>3. ASSUME UNCHANGED <<transaction_starts, m_indices, m_buffer, m_indices_end, m_buffer_end>>
      PROVE  Ends'
  BY <1>0, <1>3 DEF Ends, Types, Bounds, EndsAgree, IsVector, length, depth
<1>4. ASSUME NEW i \in DOMAIN data, NEW v \in Value, vector_attribute(i, v) PROVE Ends'
  <2>1. CASE ~has_transactions
    BY <1>3, <1>4, <2>1 DEF vector_attribute
  <2>2. CASE has_transactions
    <3>1. transaction_starts' = transaction_starts /\ cache(i)
      BY <1>4, <2>2 DEF vector_attribute
    <3>2. /\ IsVector(m_indices', length(m_indices')) /\ length(m_indices') = room_indices
          /\ IsVector(m_buffer', length(m_buffer')) /\ length(m_buffer') = room_buffer
          /\ m_indices_end' = m_indices_end + 1
          /\ m_buffer_end' = m_buffer_end + Dimension
      BY <3>1, Cached
    <3>3. /\ room_indices \in Nat /\ room_indices >= length(m_indices)
          /\ room_indices >= m_indices_end + 1
          /\ room_buffer \in Nat /\ room_buffer >= length(m_buffer)
          /\ length(m_indices) \in Nat /\ length(m_buffer) \in Nat
      BY <1>0, IndicesRoom, BufferGrows DEF Types, IsVector
    <3>4. Types'
      BY <1>0, <3>1, <3>2 DEF Types
    <3>5. EndsAgree'
      <4>1. (m_indices_end + 1) * Dimension = m_indices_end * Dimension + Dimension
        BY <1>0
      <4> QED
        BY <1>0, <3>2, <4>1 DEF EndsAgree
    <3>6. ASSUME NEW k \in 1 .. depth PROVE transaction_starts[k] <= m_indices_end + 1
      <4>1. transaction_starts[k] \in Nat /\ transaction_starts[k] <= m_indices_end
        BY <1>0, ElementOfSeq DEF Bounds, depth
      <4> QED
        BY <1>0, <4>1
    <3>7. depth' = depth /\ depth # 0
      BY <1>0, <2>2, <3>1 DEF has_transactions, depth
    <3>8. InitialIndices <= room_indices /\ InitialBuffer <= room_buffer
      BY <1>0, <3>3, InitialAssumption DEF Bounds
    <3>9. Bounds'
      BY <3>1, <3>2, <3>3, <3>6, <3>7, <3>8 DEF Bounds
    <3> QED
      BY <3>4, <3>5, <3>9 DEF Ends
  <2> QED
    BY <2>1, <2>2
<1>5. CASE rollback_current_scope
  BY <1>3, <1>5 DEF rollback_current_scope
<1>6. CASE UNCHANGED vars
  BY <1>3, <1>6 DEF vars
<1> QED
  BY <1>1, <1>2, <1>4, <1>5, <1>6 DEF Next

-----------------------------------------------------------------------------
(* The log and its replay.                                                 *)

\* The record of a slot, and the log that they make up.
LEMMA LogRecords ==
    ASSUME Contents
    PROVE  /\ Len(log) = m_indices_end /\ log \in Seq(LogProofs!Record)
           /\ \A s \in 0 .. m_indices_end - 1 :
                 /\ log[s + 1] = [index |-> m_indices[s].index,
                                  value |-> ValueAt(m_buffer, m_indices[s].offset)]
                 /\ log[s + 1].index \in 0 .. size - 1 /\ log[s + 1].value \in Value
<1>1. /\ m_indices_end \in Nat /\ size \in Nat /\ DOMAIN data = 0 .. size - 1
      /\ \A s \in 0 .. m_indices_end - 1 : Live(m_indices[s])
  BY BufferBoundAssumption DEF Contents, Ends, Types, LiveRecords
<1>2. ASSUME NEW s \in 0 .. m_indices_end - 1
      PROVE  /\ m_indices[s].index \in 0 .. size - 1
             /\ ValueAt(m_buffer, m_indices[s].offset) \in Value
  <2>1. Live(m_indices[s])
    BY <1>1
  <2>2. PICK v \in Value : Holds(m_buffer, m_indices[s].offset, v)
    BY <2>1 DEF Live
  <2>3. ValueAt(m_buffer, m_indices[s].offset) = v
    BY <2>2, ValueRead
  <2> QED
    BY <1>1, <2>1, <2>3 DEF Live
<1>3. ASSUME NEW s \in 0 .. m_indices_end - 1
      PROVE  log[s + 1] = [index |-> m_indices[s].index,
                           value |-> ValueAt(m_buffer, m_indices[s].offset)]
  <2>1. s + 1 \in 1 .. m_indices_end /\ (s + 1) - 1 = s
    BY <1>1
  <2> QED
    BY <2>1 DEF log
<1>4. ASSUME NEW r \in 1 .. m_indices_end PROVE log[r] \in LogProofs!Record
  <2>1. r - 1 \in 0 .. m_indices_end - 1 /\ (r - 1) + 1 = r
    BY <1>1
  <2>2. m_indices[r - 1].index \in Nat /\ ValueAt(m_buffer, m_indices[r - 1].offset) \in Value
    BY <1>1, <1>2, <2>1
  <2> QED
    BY <2>2 DEF log, LogProofs!Record
<1>5. log \in [1 .. m_indices_end -> LogProofs!Record]
  <2>1. log = [r \in 1 .. m_indices_end |-> log[r]]
    BY DEF log
  <2> QED
    BY <1>4, <2>1
<1>6. log \in Seq(LogProofs!Record)
  BY <1>1, <1>5, SeqDef
<1>7. Len(log) = m_indices_end
  BY <1>1, <1>5, <1>6, LenProperties
<1>8. ASSUME NEW s \in 0 .. m_indices_end - 1
      PROVE  log[s + 1].index \in 0 .. size - 1 /\ log[s + 1].value \in Value
  <2> DEFINE index == m_indices[s].index
             old == ValueAt(m_buffer, m_indices[s].offset)
  <2>1. index \in 0 .. size - 1 /\ old \in Value
    BY <1>2
  <2>2. log[s + 1] = [index |-> index, value |-> old]
    BY <1>3
  <2> HIDE DEF index, old
  <2> QED
    BY <2>1, <2>2
<1> QED
  BY <1>3, <1>6, <1>7, <1>8

\* What a scope that starts at slot s has kept for an index.
Kept(s, i) == LogProofs!get_value(log, s, data, i)

\* The oldest record decides for its index and no other.
LEMMA KeptFirst ==
    ASSUME Contents, NEW s \in 0 .. m_indices_end - 1, NEW i
    PROVE  Kept(s, i) = IF log[s + 1].index = i THEN log[s + 1].value ELSE Kept(s + 1, i)
<1>1. /\ m_indices_end \in Nat /\ s \in Nat /\ s + 1 \in Nat
      /\ Len(log) = m_indices_end /\ log \in Seq(LogProofs!Record)
  BY LogRecords DEF Contents, Ends, Types
<1>2. /\ s + 1 \in s + 1 .. Len(log)
      /\ \A r \in s + 1 .. Len(log) : r = s + 1 \/ r \in (s + 1) + 1 .. Len(log)
      /\ (s + 1) + 1 .. Len(log) \subseteq s + 1 .. Len(log)
  BY <1>1
<1>3. CASE log[s + 1].index = i
  <2>1. s + 1 \in LogProofs!Recorded(log, s, i)
    BY <1>2, <1>3 DEF LogProofs!Recorded
  <2>2. \A r \in LogProofs!Recorded(log, s, i) : s + 1 <= r
    BY <1>1 DEF LogProofs!Recorded
  <2>3. LogProofs!get_value(log, s, data, i) = log[s + 1].value
    BY <1>1, <2>1, <2>2, LogProofs!SearchHit, BufferValueAssumption, BufferBoundAssumption
  <2> QED
    BY <1>3, <2>3 DEF Kept
<1>4. CASE log[s + 1].index # i
  <2>1. LogProofs!Recorded(log, s, i) = LogProofs!Recorded(log, s + 1, i)
    BY <1>2, <1>4 DEF LogProofs!Recorded
  <2> QED
    BY <1>4, <2>1 DEF Kept, LogProofs!get_value
<1> QED
  BY <1>3, <1>4

\* An attribute in which every index has the value kept from slot s on.
KeptData(s) == [i \in 0 .. size - 1 |-> Kept(s, i)]

\* One step of the replay.
LEMMA KeptStep ==
    ASSUME Contents, NEW s \in 0 .. m_indices_end - 1
    PROVE  KeptData(s) = [KeptData(s + 1) EXCEPT ![m_indices[s].index] =
                                                    ValueAt(m_buffer, m_indices[s].offset)]
<1> DEFINE index == m_indices[s].index
           old == ValueAt(m_buffer, m_indices[s].offset)
<1>1. log[s + 1].index = index /\ log[s + 1].value = old /\ index \in 0 .. size - 1
  <2>1. log[s + 1] = [index |-> index, value |-> old] /\ log[s + 1].index \in 0 .. size - 1
    BY LogRecords
  <2> HIDE DEF index, old
  <2> QED
    BY <2>1
<1>2. \A i \in 0 .. size - 1 : Kept(s, i) = IF index = i THEN old ELSE Kept(s + 1, i)
  BY <1>1, KeptFirst
<1> HIDE DEF index, old
<1>3. [KeptData(s + 1) EXCEPT ![index] = old] =
          [i \in 0 .. size - 1 |-> IF i = index THEN old ELSE Kept(s + 1, i)]
  BY DEF KeptData
<1>4. KeptData(s) = [i \in 0 .. size - 1 |-> IF i = index THEN old ELSE Kept(s + 1, i)]
  BY <1>2 DEF KeptData
<1> QED
  BY <1>3, <1>4 DEF index, old

LEMMA KeptLast ==
    ASSUME Contents
    PROVE  KeptData(m_indices_end) = data
<1>1. log \in Seq(LogProofs!Record) /\ Len(log) = m_indices_end /\ data \in [0 .. size - 1 -> Value]
  BY LogRecords DEF Contents
<1>2. \A i : Kept(m_indices_end, i) = data[i]
  BY <1>1, LogProofs!SearchEmpty, BufferValueAssumption, BufferBoundAssumption DEF Kept
<1> QED
  BY <1>1, <1>2 DEF KeptData

\* The replay from the newest to the oldest record leaves in every index the
\* value of its oldest record.  A slot at which it did not would have one
\* above it, up to the end of the log, where nothing has been replayed.
LEMMA Replayed ==
    ASSUME Contents, has_transactions
    PROVE  apply_cache = KeptData(transaction_starts[depth])
<1> DEFINE start == transaction_starts[depth]
           slots == start .. m_indices_end
           Replay(f) == f = [s \in slots |->
               IF s = m_indices_end THEN data
               ELSE [f[s + 1] EXCEPT ![m_indices[s].index] =
                                        ValueAt(m_buffer, m_indices[s].offset)]]
           kept == [s \in slots |-> KeptData(s)]
<1>1. start \in Nat /\ m_indices_end \in Nat /\ start <= m_indices_end
  <2>1. depth \in 1 .. Len(transaction_starts) /\ transaction_starts \in Seq(Nat)
    BY LenProperties DEF Contents, Ends, Types, depth, has_transactions
  <2>2. start \in Nat
    BY <2>1, ElementOfSeq
  <2> QED
    BY <2>1, <2>2 DEF Contents, Ends, Types, Bounds, depth
<1>2. Replay(kept)
  <2>1. ASSUME NEW s \in slots
        PROVE  kept[s] = IF s = m_indices_end THEN data
                         ELSE [kept[s + 1] EXCEPT ![m_indices[s].index] =
                                        ValueAt(m_buffer, m_indices[s].offset)]
    <3>1. CASE s = m_indices_end
      BY <3>1, KeptLast
    <3>2. CASE s # m_indices_end
      <4>1. s \in 0 .. m_indices_end - 1 /\ s + 1 \in slots
        BY <1>1, <3>2
      <4>2. kept[s] = KeptData(s) /\ kept[s + 1] = KeptData(s + 1)
        BY <4>1
      <4> QED
        BY <3>2, <4>1, <4>2, KeptStep
    <3> QED
      BY <3>1, <3>2
  <2>2. kept = [s \in slots |-> kept[s]]
    OBVIOUS
  <2> HIDE DEF kept
  <2> QED
    BY <2>1, <2>2
<1>3. restored = CHOOSE f : Replay(f)
  BY DEF restored
<1>4. Replay(restored)
  <2> HIDE DEF Replay
  <2> QED
    BY <1>2, <1>3
<1> DEFINE Wrong == {j \in 0 .. m_indices_end - start :
                        restored[m_indices_end - j] # kept[m_indices_end - j]}
<1>5. Wrong = {}
  <2> SUFFICES ASSUME Wrong # {} PROVE FALSE
    OBVIOUS
  <2>1. Wrong \in SUBSET Nat
    BY <1>1
  <2>2. PICK j \in Wrong : \A l \in Wrong : j <= l
    <3> HIDE DEF Wrong
    <3> QED
      BY <2>1, LogProofs!LeastNatural, BufferValueAssumption, BufferBoundAssumption
  <2> DEFINE s == m_indices_end - j
  <2>3. j \in 0 .. m_indices_end - start /\ s \in slots /\ restored[s] # kept[s]
    BY <1>1, <2>2
  <2>4. CASE s = m_indices_end
    <3>1. restored[s] = data /\ kept[s] = data
      BY <1>2, <1>4, <2>3, <2>4
    <3> QED
      BY <2>3, <3>1
  <2>5. CASE s # m_indices_end
    <3>1. /\ j - 1 \in 0 .. m_indices_end - start /\ ~(j <= j - 1)
          /\ m_indices_end - (j - 1) = s + 1
      BY <1>1, <2>3, <2>5
    <3>2. j - 1 \notin Wrong
      BY <2>2, <3>1
    <3>3. restored[s + 1] = kept[s + 1]
      BY <3>1, <3>2
    <3>4. /\ restored[s] = [restored[s + 1] EXCEPT ![m_indices[s].index] =
                                       ValueAt(m_buffer, m_indices[s].offset)]
          /\ kept[s] = [kept[s + 1] EXCEPT ![m_indices[s].index] =
                                       ValueAt(m_buffer, m_indices[s].offset)]
      BY <1>2, <1>4, <2>3, <2>5
    <3> QED
      BY <2>3, <3>3, <3>4
  <2> QED
    BY <2>4, <2>5
<1>6. restored[start] = kept[start]
  <2>1. m_indices_end - start \in 0 .. m_indices_end - start
        /\ m_indices_end - (m_indices_end - start) = start
    BY <1>1
  <2>2. ASSUME NEW j \in 0 .. m_indices_end - start
        PROVE  restored[m_indices_end - j] = kept[m_indices_end - j]
    <3> HIDE DEF kept
    <3> QED
      BY <1>5
  <2>3. restored[m_indices_end - (m_indices_end - start)]
          = kept[m_indices_end - (m_indices_end - start)]
    <3> HIDE DEF kept, start
    <3> QED
      BY <2>1, <2>2
  <2> HIDE DEF kept, start
  <2> QED
    BY <2>1, <2>3
<1>7. kept[start] = KeptData(start)
  BY <1>1
<1> QED
  BY <1>6, <1>7 DEF apply_cache


LEMMA ReplayType ==
    ASSUME Contents, has_transactions
    PROVE  apply_cache \in [0 .. size - 1 -> Value]
<1> DEFINE start == transaction_starts[depth]
<1>1. start \in Nat
  <2>1. depth \in 1 .. Len(transaction_starts) /\ transaction_starts \in Seq(Nat)
    BY LenProperties DEF Contents, Ends, Types, depth, has_transactions
  <2> QED
    BY <2>1, ElementOfSeq
<1> HIDE DEF start
<1>2. log \in Seq(LogProofs!Record) /\ data \in [0 .. size - 1 -> Value]
  BY LogRecords DEF Contents
<1>3. ASSUME NEW i \in 0 .. size - 1 PROVE Kept(start, i) \in Value
  BY <1>1, <1>2, LogProofs!SearchType, BufferValueAssumption, BufferBoundAssumption DEF Kept
<1>4. KeptData(start) \in [0 .. size - 1 -> Value]
  BY <1>3 DEF KeptData
<1> QED
  BY <1>4, Replayed DEF start

\* A write adds one record to the live part and leaves the others as they are,
\* wherever the vectors have grown to.
LEMMA RecordAdded ==
    ASSUME BufferFits, Contents, NEW i \in DOMAIN data, cache(i)
    PROVE  /\ m_buffer_end' <= length(m_buffer')
           /\ \A s \in 0 .. m_indices_end - 1 :
                 /\ m_indices'[s] = m_indices[s] /\ Live(m_indices[s])
                 /\ \A v \in Value : Holds(m_buffer, m_indices[s].offset, v) =>
                                        Holds(m_buffer', m_indices[s].offset, v)
           /\ m_indices'[m_indices_end] = [index |-> i, offset |-> m_buffer_end]
           /\ Holds(m_buffer', m_buffer_end, data[i])
<1>1. /\ m_indices_end \in Nat /\ m_buffer_end \in Nat /\ Dimension \in Nat
      /\ length(m_buffer) \in Nat /\ m_buffer_end <= length(m_buffer)
      /\ room_buffer \in Nat /\ room_buffer >= m_buffer_end + Dimension
  BY DimensionAssumption, BufferRoom, BufferGrows
     DEF Contents, Ends, Types, LiveRecords, IsVector
<1>2. /\ length(m_buffer') = room_buffer /\ m_buffer_end' = m_buffer_end + Dimension
      /\ m_indices'[m_indices_end] = [index |-> i, offset |-> m_buffer_end]
      /\ \A s \in 0 .. m_indices_end - 1 : m_indices'[s] = m_indices[s]
      /\ \A s \in 0 .. m_buffer_end - 1 :
            s < length(m_buffer) => m_buffer'[s] = m_buffer[s]
      /\ \A c \in 0 .. Dimension - 1 :
            m_buffer_end + c < room_buffer => m_buffer'[m_buffer_end + c] = <<data[i], c>>
  BY Cached DEF Contents
<1>3. ASSUME NEW s \in 0 .. m_indices_end - 1, NEW v \in Value,
             Holds(m_buffer, m_indices[s].offset, v)
      PROVE  Holds(m_buffer', m_indices[s].offset, v)
  <2> DEFINE offset == m_indices[s].offset
  <2>1. offset \in Nat /\ offset + Dimension <= m_buffer_end
    BY DEF Contents, LiveRecords, Live
  <2> HIDE DEF offset
  <2>2. ASSUME NEW c \in 0 .. Dimension - 1 PROVE m_buffer'[offset + c] = m_buffer[offset + c]
    <3>1. offset + c \in 0 .. m_buffer_end - 1 /\ offset + c < length(m_buffer)
      BY <1>1, <2>1
    <3> QED
      BY <1>2, <3>1
  <2> QED
    BY <1>3, <2>2 DEF Holds, offset
<1>4. Holds(m_buffer', m_buffer_end, data[i])
  <2>1. \A c \in 0 .. Dimension - 1 : m_buffer_end + c < room_buffer
    BY <1>1
  <2> QED
    BY <1>2, <2>1 DEF Holds
<1>5. \A s \in 0 .. m_indices_end - 1 : Live(m_indices[s])
  BY DEF Contents, LiveRecords
<1> QED
  BY <1>1, <1>2, <1>3, <1>4, <1>5

LEMMA InitContents == Init => Contents
<1> SUFFICES ASSUME Init PROVE Contents
  OBVIOUS
<1>1. Ends /\ m_indices_end = 0 /\ m_buffer_end = 0
  BY InitEnds DEF Init
<1>2. length(m_buffer) \in Nat
  BY <1>1 DEF Ends, Types, IsVector
<1>3. LiveRecords
  BY <1>1, <1>2 DEF LiveRecords
<1>4. size \in 0 .. MaxSize /\ data \in [0 .. size - 1 -> Value]
  BY BufferBoundAssumption, BufferValueAssumption DEF Init
<1> QED
  BY <1>1, <1>3, <1>4 DEF Contents

LEMMA NextContents == ASSUME BufferFits, Contents, [Next]_vars PROVE Contents'
<1>0. /\ Ends' /\ LiveRecords /\ size \in 0 .. MaxSize /\ data \in [0 .. size - 1 -> Value]
      /\ m_indices_end \in Nat /\ m_buffer_end \in Nat /\ Dimension \in Nat
      /\ length(m_buffer) \in Nat
  BY NextEnds, DimensionAssumption DEF Contents, Ends, Types, IsVector
\* Steps that leave the live part as it is, or drop it.
<1>1. ASSUME UNCHANGED <<size, m_indices, m_buffer>>, data' \in [0 .. size - 1 -> Value],
             \/ m_indices_end' = m_indices_end /\ m_buffer_end' = m_buffer_end
             \/ m_indices_end' = 0 /\ m_buffer_end' = 0
      PROVE  Contents'
  <2>1. m_buffer_end' <= length(m_buffer)
    BY <1>0, <1>1 DEF LiveRecords
  <2>2. DOMAIN data' = DOMAIN data
    BY <1>0, <1>1
  <2>3. ASSUME NEW s \in 0 .. m_indices_end' - 1 PROVE Live(m_indices[s])'
    <3>1. m_indices_end' = m_indices_end /\ m_buffer_end' = m_buffer_end
      BY <1>1, <2>3
    <3>2. Live(m_indices[s])
      BY <1>0, <2>3, <3>1 DEF LiveRecords
    <3> QED
      BY <1>1, <2>2, <3>1, <3>2 DEF Live
  <2>4. LiveRecords'
    BY <1>1, <2>1, <2>3 DEF LiveRecords, length
  <2> QED
    BY <1>0, <1>1, <2>4 DEF Contents
<1>2. CASE push_scope
  BY <1>0, <1>1, <1>2 DEF push_scope
<1>3. CASE rollback_current_scope
  BY <1>1, <1>3, ReplayType DEF rollback_current_scope
<1>4. ASSUME NEW preserve_changes \in BOOLEAN, pop_scope(preserve_changes) PROVE Contents'
  BY <1>0, <1>1, <1>4, ReplayType DEF pop_scope
<1>5. ASSUME NEW i \in DOMAIN data, NEW v \in Value, vector_attribute(i, v) PROVE Contents'
  <2>1. /\ size' = size /\ data' = [data EXCEPT ![i] = v]
    BY <1>5 DEF vector_attribute
  <2>2. data' \in [0 .. size - 1 -> Value] /\ DOMAIN data' = DOMAIN data
    BY <1>0, <2>1
  <2>3. CASE ~has_transactions
    BY <1>1, <1>5, <2>1, <2>2, <2>3 DEF vector_attribute
  <2>4. CASE has_transactions
    <3>1. cache(i)
      BY <1>5, <2>4 DEF vector_attribute
    <3>2. /\ m_indices_end' = m_indices_end + 1 /\ m_buffer_end' = m_buffer_end + Dimension
      BY <3>1 DEF cache
    <3>3. /\ m_buffer_end' <= length(m_buffer')
          /\ \A s \in 0 .. m_indices_end - 1 :
                /\ m_indices'[s] = m_indices[s] /\ Live(m_indices[s])
                /\ \A w \in Value : Holds(m_buffer, m_indices[s].offset, w) =>
                                       Holds(m_buffer', m_indices[s].offset, w)
          /\ m_indices'[m_indices_end] = [index |-> i, offset |-> m_buffer_end]
          /\ Holds(m_buffer', m_buffer_end, data[i])
      BY <3>1, RecordAdded
    <3>4. ASSUME NEW s \in 0 .. m_indices_end' - 1 PROVE Live(m_indices[s])'
      <4>1. CASE s = m_indices_end
        <5>1. m_indices'[s].index = i /\ m_indices'[s].offset = m_buffer_end
          BY <3>3, <4>1
        <5>2. m_buffer_end + Dimension <= m_buffer_end'
          BY <1>0, <3>2
        <5>3. data[i] \in Value /\ i \in DOMAIN data'
          BY <1>0, <2>2
        <5> QED
          BY <1>0, <3>3, <5>1, <5>2, <5>3 DEF Live
      <4>2. CASE s # m_indices_end
        <5>1. s \in 0 .. m_indices_end - 1
          BY <1>0, <3>2, <4>2
        <5>2. /\ m_indices'[s] = m_indices[s] /\ Live(m_indices[s])
              /\ \A w \in Value : Holds(m_buffer, m_indices[s].offset, w) =>
                                     Holds(m_buffer', m_indices[s].offset, w)
          BY <3>3, <5>1
        <5>3. m_indices[s].offset \in Nat /\ m_indices[s].offset + Dimension <= m_buffer_end
          BY <5>2 DEF Live
        <5>4. m_indices[s].offset + Dimension <= m_buffer_end'
          BY <1>0, <3>2, <5>3
        <5> QED
          BY <2>2, <5>2, <5>4 DEF Live
      <4> QED
        BY <4>1, <4>2
    <3>5. LiveRecords'
      BY <3>3, <3>4 DEF LiveRecords
    <3> QED
      BY <1>0, <2>1, <2>2, <3>5 DEF Contents
  <2> QED
    BY <2>3, <2>4
<1>6. CASE UNCHANGED vars
  BY <1>0, <1>1, <1>6 DEF vars
<1> QED
  BY <1>2, <1>3, <1>4, <1>5, <1>6 DEF Next

-----------------------------------------------------------------------------
(* The arrays implement the log.                                           *)

LEMMA LogAppended ==
    ASSUME BufferFits, Contents, NEW i \in DOMAIN data, cache(i)
    PROVE  log' = Append(log, [index |-> i, value |-> data[i]])
<1> DEFINE new == [index |-> i, value |-> data[i]]
<1>1. /\ m_indices_end \in Nat /\ Len(log) = m_indices_end
      /\ log \in Seq(LogProofs!Record) /\ data[i] \in Value /\ i \in 0 .. size - 1
      /\ size \in Nat /\ m_indices_end' = m_indices_end + 1
  BY LogRecords, BufferBoundAssumption DEF Contents, Ends, Types, cache
<1>2. new \in LogProofs!Record
  BY <1>1 DEF LogProofs!Record
<1>3. /\ Append(log, new) \in Seq(LogProofs!Record)
      /\ Len(Append(log, new)) = m_indices_end + 1
      /\ \A r \in 1 .. m_indices_end : Append(log, new)[r] = log[r]
      /\ Append(log, new)[m_indices_end + 1] = new
  BY <1>1, <1>2, AppendProperties
<1>4. ASSUME NEW s \in 0 .. m_indices_end - 1
      PROVE  [index |-> m_indices'[s].index, value |-> ValueAt(m_buffer', m_indices'[s].offset)]
                = log[s + 1]
  <2>1. /\ m_indices'[s] = m_indices[s] /\ Live(m_indices[s])
        /\ \A v \in Value : Holds(m_buffer, m_indices[s].offset, v) =>
                               Holds(m_buffer', m_indices[s].offset, v)
    BY RecordAdded
  <2>2. PICK v \in Value : Holds(m_buffer, m_indices[s].offset, v)
    BY <2>1 DEF Live
  <2>3. ValueAt(m_buffer, m_indices[s].offset) = v /\ ValueAt(m_buffer', m_indices[s].offset) = v
    BY <2>1, <2>2, ValueRead
  <2>4. log[s + 1] = [index |-> m_indices[s].index,
                      value |-> ValueAt(m_buffer, m_indices[s].offset)]
    BY LogRecords
  <2> QED
    BY <2>1, <2>3, <2>4
<1>5. [index |-> m_indices'[m_indices_end].index,
       value |-> ValueAt(m_buffer', m_indices'[m_indices_end].offset)] = new
  <2>1. /\ m_indices'[m_indices_end] = [index |-> i, offset |-> m_buffer_end]
        /\ Holds(m_buffer', m_buffer_end, data[i])
    BY RecordAdded
  <2>2. ValueAt(m_buffer', m_buffer_end) = data[i]
    BY <1>1, <2>1, ValueRead
  <2>3. m_indices'[m_indices_end].index = i /\ m_indices'[m_indices_end].offset = m_buffer_end
    BY <2>1
  <2> QED
    BY <2>2, <2>3
<1> HIDE DEF new
<1>6. ASSUME NEW r \in 1 .. m_indices_end + 1
      PROVE  [index |-> m_indices'[r - 1].index,
              value |-> ValueAt(m_buffer', m_indices'[r - 1].offset)] = Append(log, new)[r]
  <2>1. CASE r = m_indices_end + 1
    <3>1. r - 1 = m_indices_end
      BY <1>1, <2>1
    <3> QED
      BY <1>3, <1>5, <2>1, <3>1
  <2>2. CASE r # m_indices_end + 1
    <3>1. r - 1 \in 0 .. m_indices_end - 1 /\ r \in 1 .. m_indices_end /\ (r - 1) + 1 = r
      BY <1>1, <2>2
    <3> QED
      BY <1>3, <1>4, <3>1
  <2> QED
    BY <2>1, <2>2
<1>7. log' = [r \in 1 .. m_indices_end + 1 |-> Append(log, new)[r]]
  BY <1>1, <1>6 DEF log
<1>8. Append(log, new) = [r \in 1 .. m_indices_end + 1 |-> Append(log, new)[r]]
  BY <1>3, LenProperties
<1> QED
  BY <1>7, <1>8 DEF new

LEMMA InitRefines == Init => Log!Init
<1> SUFFICES ASSUME Init PROVE Log!Init
  OBVIOUS
<1>1. log = << >> /\ transaction_starts = << >> /\ depth = 0
  BY DEF Init, log, depth
<1>2. size \in 0 .. MaxSize
  BY BufferBoundAssumption DEF Init
<1> QED
  BY <1>1, <1>2 DEF Init, Log!Init, Log!Indices, log

\* The start of the last scope, and what a replay of the log leaves.
LEMMA ReplayRefines ==
    ASSUME Contents, has_transactions
    PROVE  apply_cache = Log!apply_cache
<1>1. Log!apply_cache = KeptData(transaction_starts[depth])
  BY DEF Log!apply_cache, Log!Indices, Log!scope_value, Log!get_value, Log!Recorded,
         Log!transaction_depth, KeptData, Kept, LogProofs!get_value, LogProofs!Recorded, log, depth
<1> QED
  BY <1>1, Replayed

LEMMA NextRefines ==
    ASSUME BufferFits, Contents, [Next]_vars PROVE [Log!Next]_(Log!vars)
<1>0. /\ Len(log) = m_indices_end /\ DOMAIN data = 0 .. size - 1
      /\ Log!at_current_scope /\ (Log!has_transactions <=> has_transactions)
      /\ Log!transaction_depth = depth
  BY LogRecords DEF Contents, Log!at_current_scope, Log!has_transactions,
     Log!transaction_depth, has_transactions, depth
<1>1. CASE push_scope
  <2>1. log' = log /\ depth' = depth + 1
    <3>1. transaction_starts \in Seq(Nat) /\ m_indices_end \in Nat
      BY DEF Contents, Ends, Types
    <3> QED
      BY <1>1, <3>1, AppendProperties DEF push_scope, log, depth
  <2>2. Log!push_scope
    BY <1>0, <1>1, <2>1 DEF push_scope, Log!push_scope, log
  <2> QED
    BY <2>2 DEF Log!Next
<1>2. CASE rollback_current_scope
  <2>1. log' = log /\ depth' = depth
    BY <1>2 DEF rollback_current_scope, log, depth
  <2>2. data' = Log!apply_cache
    BY <1>2, ReplayRefines DEF rollback_current_scope
  <2>3. Log!rollback_current_scope
    BY <1>0, <1>2, <2>1, <2>2
       DEF rollback_current_scope, Log!rollback_current_scope, log
  <2> QED
    BY <2>3 DEF Log!Next
<1>3. ASSUME NEW preserve_changes \in BOOLEAN, pop_scope(preserve_changes) PROVE Log!Next
  <2>1. /\ transaction_starts' \in Seq(Nat) /\ depth \in Nat \ {0} /\ depth' = depth - 1
        /\ \A k \in 1 .. depth - 1 : transaction_starts'[k] = transaction_starts[k]
    BY <1>3, Closed DEF pop_scope, Contents, Ends
  <2>2. transaction_starts' = [k \in 1 .. depth - 1 |-> transaction_starts[k]]
    <3>1. transaction_starts' = [k \in 1 .. depth - 1 |-> transaction_starts'[k]]
      BY <2>1, LenProperties DEF depth
    <3> QED
      BY <2>1, <3>1
  <2>3. log' = IF depth = 1 THEN << >> ELSE log
    <3>1. CASE depth = 1
      <4>1. m_indices_end' = 0
        BY <1>3, <3>1 DEF pop_scope
      <4> QED
        BY <3>1, <4>1 DEF log
    <3>2. CASE depth # 1
      BY <1>3, <3>2 DEF pop_scope, log
    <3> QED
      BY <3>1, <3>2
  <2>4. data' = IF preserve_changes THEN data ELSE Log!apply_cache
    BY <1>3, ReplayRefines DEF pop_scope
  <2>5. Log!pop_scope(preserve_changes)
    BY <1>0, <1>3, <2>1, <2>2, <2>3, <2>4 DEF pop_scope, Log!pop_scope, log
  <2> QED
    BY <2>5 DEF Log!Next
<1>4. ASSUME NEW i \in DOMAIN data, NEW v \in Value, vector_attribute(i, v) PROVE Log!Next
  <2>1. depth' = depth
    BY <1>4 DEF vector_attribute, depth
  <2>2. log' = IF has_transactions THEN Append(log, [index |-> i, value |-> data[i]]) ELSE log
    <3>1. CASE has_transactions
      BY <1>4, <3>1, LogAppended DEF vector_attribute
    <3>2. CASE ~has_transactions
      BY <1>4, <3>2 DEF vector_attribute, log
    <3> QED
      BY <3>1, <3>2
  <2>3. Log!vector_attribute(i, v)
    BY <1>0, <1>4, <2>1, <2>2 DEF vector_attribute, Log!vector_attribute, log
  <2> QED
    BY <1>0, <2>3 DEF Log!Next, Log!Indices
<1>5. CASE UNCHANGED vars
  <2>1. log' = log /\ depth' = depth
    BY <1>5 DEF vars, log, depth
  <2> QED
    BY <1>5, <2>1 DEF vars, Log!vars, log
<1> QED
  BY <1>1, <1>2, <1>3, <1>4, <1>5 DEF Next

-----------------------------------------------------------------------------
(* The theorems.                                                           *)

\* The ends of the two arrays and the starts of the scopes, for every dimension.
THEOREM EndsHold == Spec => []Ends
BY InitEnds, NextEnds, PTL DEF Spec

\* assert(m_buffer_end == m_indices_end * dim): the two ends, which are reset
\* together and nowhere else, agree.
THEOREM EndsAlwaysAgree == Spec => []EndsAgree
<1>1. Ends => EndsAgree
  BY DEF Ends
<1> QED
  BY <1>1, EndsHold, PTL

\* The contents of the arrays, where the buffer grows by a record's values.
THEOREM ContentsHold == ASSUME BufferFits PROVE Spec => []Contents
<1>1. Contents /\ [Next]_vars => Contents'
  BY NextContents
<1> QED
  BY <1>1, InitContents, PTL DEF Spec

\* assert(m_buffer.size() >= m_buffer_end + dim): one growth is enough for the
\* next record, in every later state too.
THEOREM RoomCorrect == ASSUME BufferFits PROVE Spec => []BufferHasRoom
<1>1. Contents => BufferHasRoom
  BY BufferRoom DEF Contents, Ends, LiveRecords, BufferHasRoom
<1> QED
  BY <1>1, ContentsHold, PTL

\* The live part of the arrays is the log of CachingAttribute, and replaying it
\* slot by slot from its end leaves in every index the value of its oldest
\* record.
THEOREM Refinement == ASSUME BufferFits PROVE Spec => ImplementsLog
<1>1. Contents /\ [Next]_vars => [Log!Next]_(Log!vars)
  BY NextRefines
<1> QED
  BY <1>1, InitRefines, ContentsHold, PTL DEF Spec, ImplementsLog, Log!Spec

\* With what CachingAttributeProofs shows of the log, the two arrays implement
\* one full copy of the attribute per open scope.
THEOREM StackRefinement ==
    ASSUME BufferFits PROVE Spec => LogProofs!ImplementsTransactionStack
<1>1. LogProofs!Spec => LogProofs!ImplementsTransactionStack
  BY BufferValueAssumption, BufferBoundAssumption, LogProofs!Refinement
<1>2. Log!Init => LogProofs!Init
  BY DEF Log!Init, LogProofs!Init, Log!Indices, LogProofs!Indices
<1>3. [Log!Next]_(Log!vars) => [LogProofs!Next]_(LogProofs!vars)
  BY Zenon DEF Log!Next, LogProofs!Next, Log!vars, LogProofs!vars,
         Log!transaction_depth, LogProofs!transaction_depth,
         Log!has_transactions, LogProofs!has_transactions,
         Log!at_current_scope, LogProofs!at_current_scope,
         Log!Indices, LogProofs!Indices,
         Log!Recorded, LogProofs!Recorded,
         Log!get_value, LogProofs!get_value,
         Log!scope_value, LogProofs!scope_value,
         Log!apply_cache, LogProofs!apply_cache,
         Log!push_scope, LogProofs!push_scope,
         Log!rollback_current_scope, LogProofs!rollback_current_scope,
         Log!pop_scope, LogProofs!pop_scope,
         Log!vector_attribute, LogProofs!vector_attribute,
         Log!reserve, LogProofs!reserve,
         Log!change_to_next_scope, LogProofs!change_to_next_scope,
         Log!change_to_previous_scope, LogProofs!change_to_previous_scope
<1> QED
  BY <1>1, <1>2, <1>3, Refinement, PTL DEF ImplementsLog, Log!Spec, LogProofs!Spec
=============================================================================

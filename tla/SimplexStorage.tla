--------------------------- MODULE SimplexStorage ---------------------------
(***************************************************************************)
(* How a mesh hands out the ids of its simplices and the memory behind     *)
(* them: src/src/wmtk/Mesh_attributes.cpp over attribute/AttributeManager  *)
(* and attribute/TypedAttributeManager, for the simplices of one           *)
(* dimension.  Three quantities that nothing keeps equal decide whether an *)
(* id may be used:                                                         *)
(*                                                                         *)
(*   capacity  m_capacities: the ids handed out so far                     *)
(*   reserved  m_reserved_size: what a manager believes to be reserved.    *)
(*             The managers of the four value types are only ever reserved *)
(*             together and are one here                                   *)
(*   sizes     the indices that each live attribute really has             *)
(*                                                                         *)
(* The flags are one of the attributes.  Their values, the set active, are *)
(* undone with a scope (scopes holds what TransactionStack.tla keeps for   *)
(* it, outermost first); the three quantities above are not.  granted is   *)
(* what the last request returned: the new ids, or none.                   *)
(***************************************************************************)
EXTENDS Integers, Sequences, FiniteSets

CONSTANTS
    Attribute,      \* the attributes a program can register
    Flags,          \* the flag attribute, m_flag_handles
    MaxSize,        \* bound: ids and indices of the dimension
    MaxDepth        \* bound: open scopes

ASSUME FlagsAssumption == Flags \in Attribute
ASSUME BoundAssumption == MaxSize \in Nat /\ MaxDepth \in Nat

VARIABLES capacity, reserved, sizes, active, scopes, granted

vars == <<capacity, reserved, sizes, active, scopes, granted>>

Ids(n) == 0 .. n - 1
live   == DOMAIN sizes

\* TypedAttributeManager::reserve: the belief is overwritten, an attribute
\* never shrinks.
reserve(n) ==
    /\ n <= MaxSize
    /\ reserved' = n
    /\ sizes' = [a \in live |-> IF sizes[a] < n THEN n ELSE sizes[a]]

\* guarantee_at_least decides by the belief, not by the attributes.
guarantee_at_least(n) ==
    IF n > reserved THEN reserve(n) ELSE UNCHANGED <<reserved, sizes>>

\* Variant with a bug: the ids already handed out are not counted.
guarantee_more_total(n) == guarantee_at_least(n)
guarantee_more(n) == guarantee_at_least(capacity + n)

-----------------------------------------------------------------------------
\* A mesh just constructed: its flags are registered and nothing has a size.
Init ==
    /\ capacity = 0
    /\ reserved = 0
    /\ sizes = [a \in {Flags} |-> 0]
    /\ active = {}
    /\ scopes = << >>
    /\ granted = {}

\* set_capacities and the activation of the n simplices of the input, once.
initialize(n) ==
    /\ capacity = 0 /\ scopes = << >>
    /\ reserve(n)
    /\ capacity' = n
    /\ active' = Ids(n)
    /\ UNCHANGED <<scopes, granted>>

\* register_attribute.  No attribute is registered or deleted while a scope is
\* open: it would have no record of the scope.
register_attribute(a) ==
    /\ scopes = << >>
    /\ a \notin live
    /\ sizes' = [b \in live \cup {a} |-> IF b = a THEN reserved ELSE sizes[b]]
    /\ UNCHANGED <<capacity, reserved, active, scopes, granted>>

delete_attribute(a) ==
    /\ scopes = << >>
    /\ a \in live \ {Flags}
    /\ sizes' = [b \in live \ {a} |-> sizes[b]]
    /\ UNCHANGED <<capacity, reserved, active, scopes, granted>>

reserve_more_attributes(n) ==
    /\ reserve(reserved + n)
    /\ UNCHANGED <<capacity, active, scopes, granted>>

guarantee_at_least_attributes(n) ==
    /\ n <= MaxSize
    /\ guarantee_at_least(n)
    /\ UNCHANGED <<capacity, active, scopes, granted>>

reserve_attributes_to_fit ==
    /\ reserve(capacity)
    /\ UNCHANGED <<capacity, active, scopes, granted>>

\* Variant with a bug: the memory is not asked for before the ids.
request_simplex_indices_unguaranteed(n) ==
    /\ capacity + n <= MaxSize
    /\ IF capacity + n > sizes[Flags]
       THEN granted' = {} /\ UNCHANGED <<capacity, active>>
       ELSE /\ granted' = capacity .. capacity + n - 1
            /\ capacity' = capacity + n
            /\ active' = active \cup granted'
    /\ UNCHANGED <<reserved, sizes, scopes>>
\* EdgeOperationData::request_simplex_indices: memory first, then the ids, as
\* far as the flag attribute reaches.
request_simplex_indices(n) ==
    /\ capacity + n <= MaxSize
    /\ guarantee_more(n)
    /\ IF capacity + n > sizes'[Flags]
       THEN granted' = {} /\ UNCHANGED <<capacity, active>>
       ELSE /\ granted' = capacity .. capacity + n - 1
            /\ capacity' = capacity + n
            /\ active' = active \cup granted'
    /\ UNCHANGED scopes

\* delete_simplices.
deactivate(i) ==
    /\ active' = active \ {i}
    /\ UNCHANGED <<capacity, reserved, sizes, scopes, granted>>

push_scope ==
    /\ Len(scopes) < MaxDepth
    /\ scopes' = Append(scopes, active)
    /\ UNCHANGED <<capacity, reserved, sizes, active, granted>>

\* Variant with a bug: the ids of an undone scope are taken back.
pop_scope_releasing(apply_updates) ==
    /\ scopes # << >>
    /\ active' = IF apply_updates THEN active ELSE scopes[Len(scopes)]
    /\ capacity' = IF apply_updates THEN capacity ELSE Cardinality(active')
    /\ scopes' = SubSeq(scopes, 1, Len(scopes) - 1)
    /\ UNCHANGED <<reserved, sizes, granted>>
pop_scope(apply_updates) ==
    /\ scopes # << >>
    /\ active' = IF apply_updates THEN active ELSE scopes[Len(scopes)]
    /\ scopes' = SubSeq(scopes, 1, Len(scopes) - 1)
    /\ UNCHANGED <<capacity, reserved, sizes, granted>>

\* Variant with a bug: the attributes are cut, the belief stays.
consolidate_keeping_belief ==
    LET n == Cardinality(active)
    IN  /\ scopes = << >>
        /\ capacity' = n
        /\ sizes' = [a \in live |-> n]
        /\ active' = Ids(n)
        /\ granted' = {}
        /\ UNCHANGED <<reserved, scopes>>

\* Variant with a bug: the flags stay with the old ids.
consolidate_keeping_flags ==
    LET n == Cardinality(active)
    IN  /\ scopes = << >>
        /\ capacity' = n
        /\ reserved' = n
        /\ sizes' = [a \in live |-> n]
        /\ granted' = {}
        /\ UNCHANGED <<active, scopes>>

\* consolidate, outside of any scope: every attribute is cut to the active
\* simplices, which take the first ids in their order.
consolidate ==
    LET n == Cardinality(active)
    IN  /\ scopes = << >>
        /\ capacity' = n
        /\ reserved' = n
        /\ sizes' = [a \in live |-> n]
        /\ active' = Ids(n)
        /\ granted' = {}
        /\ UNCHANGED scopes

\* The mesh is written to a file and read back: HDF5Reader sets the capacities
\* first and gives every attribute the data of the file afterwards, which has
\* the size the attribute was written with.
reload ==
    /\ scopes = << >>
    /\ reserved' = capacity
    /\ granted' = {}
    /\ UNCHANGED <<capacity, sizes, active, scopes>>

Next ==
    \/ \E n \in 0 .. MaxSize :
          \/ initialize(n)
          \/ reserve_more_attributes(n)
          \/ guarantee_at_least_attributes(n)
    \/ \E n \in 1 .. MaxSize : request_simplex_indices(n)
    \/ reserve_attributes_to_fit
    \/ \E a \in Attribute : register_attribute(a) \/ delete_attribute(a)
    \/ \E i \in active : deactivate(i)
    \/ push_scope
    \/ \E apply_updates \in BOOLEAN : pop_scope(apply_updates)
    \/ consolidate
    \/ reload

Spec == Init /\ [][Next]_vars

-----------------------------------------------------------------------------
TypeOK ==
    /\ capacity \in 0 .. MaxSize
    /\ reserved \in 0 .. MaxSize
    /\ Flags \in live /\ live \subseteq Attribute
    /\ sizes \in [live -> 0 .. MaxSize]
    /\ active \subseteq Ids(capacity)
    /\ scopes \in Seq(SUBSET Ids(capacity))
    /\ granted \subseteq Ids(capacity)

\* AttributeManager::assert_capacity_valid: every id handed out has memory in
\* every attribute, also in one registered after the reservation, read from a
\* file, or present while a consolidation cut the others.
EveryIdHasMemory == \A a \in live : capacity <= sizes[a]

\* The belief of a manager never exceeds what an attribute has, so a guarantee
\* that it grants without reserving is kept.  It is the invariant behind the
\* two others.
BeliefIsCovered == capacity <= reserved /\ \A a \in live : reserved <= sizes[a]

\* The assertion of the executors, new_vids.size() == n: a request made inside
\* an operation is never refused, and the ids are active, whatever was
\* reserved, consolidated or undone before.
RequestsAreGranted ==
    [][\A n \in 1 .. MaxSize : request_simplex_indices(n) =>
          Cardinality(granted') = n /\ granted' \subseteq active']_vars

\* An id that is handed out is not one that an open scope remembers as active:
\* undoing the scope removes the new simplex and cannot give its id back to
\* another one that was alive before.
GrantedIdsAreFresh ==
    [][granted' # granted =>
         \A k \in 1 .. Len(scopes) : granted' \cap (scopes[k] \cup active) = {}]_vars
=============================================================================

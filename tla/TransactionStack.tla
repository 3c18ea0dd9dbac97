-------------------------- MODULE TransactionStack --------------------------
(***************************************************************************)
(* What the scopes of an attribute promise to the code that opens them:    *)
(* src/src/wmtk/attribute/CachingAttribute.hpp declares push_scope,        *)
(* pop_scope, rollback_current_scope and the changes of scope that let a   *)
(* reader look at the values an enclosing scope started from.  Here a      *)
(* scope is the complete copy of the attribute made when it was opened,    *)
(* which is what the undo log of CachingAttribute.tla saves having to do.  *)
(*                                                                         *)
(*   data   the values of the attribute, at the indices 0 .. size - 1      *)
(*   stack  the copies held by the open scopes, the outermost first        *)
(*   view   what is being read: the current values when it is Len(stack),  *)
(*          otherwise the copy view + 1                                    *)
(***************************************************************************)
EXTENDS Integers, Sequences

CONSTANTS
    Value,          \* the values one index of the attribute can hold
    Default,        \* the value a newly reserved index is filled with
    MaxSize         \* bound: indices of the attribute

VARIABLES size, data, stack, view

vars == <<size, data, stack, view>>

Indices == 0 .. size - 1

\* The values d, of the first size indices, grown to n of them.
Grown(d, n) == [i \in 0 .. n - 1 |-> IF i < size THEN d[i] ELSE Default]

TypeOK ==
    /\ size \in 0 .. MaxSize
    /\ data \in [Indices -> Value]
    /\ stack \in Seq([Indices -> Value])
    /\ view \in 0 .. Len(stack)

Init ==
    /\ size \in 0 .. MaxSize
    /\ data = [i \in Indices |-> Default]
    /\ stack = << >>
    /\ view = 0

AtCurrent == view = Len(stack)

Push ==
    /\ AtCurrent
    /\ stack' = Append(stack, data)
    /\ view' = Len(stack) + 1
    /\ UNCHANGED <<size, data>>

Write(i, v) ==
    /\ AtCurrent
    /\ data' = [data EXCEPT ![i] = v]
    /\ UNCHANGED <<size, stack, view>>

Rollback ==
    /\ AtCurrent
    /\ stack # << >>
    /\ data' = stack[Len(stack)]
    /\ UNCHANGED <<size, stack, view>>

Pop(preserve) ==
    /\ AtCurrent
    /\ stack # << >>
    /\ data' = IF preserve THEN data ELSE stack[Len(stack)]
    /\ stack' = [k \in 1 .. Len(stack) - 1 |-> stack[k]]
    /\ view' = Len(stack) - 1
    /\ UNCHANGED size

\* An index that did not exist when a scope was opened had, for that scope,
\* the value it was created with.
Reserve(n) ==
    /\ n > size
    /\ size' = n
    /\ data' = Grown(data, n)
    /\ stack' = [k \in 1 .. Len(stack) |-> Grown(stack[k], n)]
    /\ UNCHANGED view

ToParent ==
    /\ view > 0
    /\ view' = view - 1
    /\ UNCHANGED <<size, data, stack>>

ToChild ==
    /\ ~AtCurrent
    /\ view' = view + 1
    /\ UNCHANGED <<size, data, stack>>

Next ==
    \/ Push
    \/ Rollback
    \/ \E preserve \in BOOLEAN : Pop(preserve)
    \/ \E i \in Indices, v \in Value : Write(i, v)
    \/ \E n \in 1 .. MaxSize : Reserve(n)
    \/ ToParent
    \/ ToChild

Spec == Init /\ [][Next]_vars
=============================================================================

-------------------------- MODULE AtomicOperation --------------------------
(***************************************************************************)
(* What a caller of an operation may rely on (operations/Operation.hpp and *)
(* the operation sequences), with nothing of how it is achieved: a call    *)
(* that returns no simplices left no trace, one that returns some kept     *)
(* everything that the parts which succeeded did and nothing else, and an  *)
(* exception out of an Operation is like a failure.  A sequence promises   *)
(* less: it opens no scope of its own, so an exception may leave behind    *)
(* the parts that had succeeded and a torn attribute transfer.             *)
(*                                                                         *)
(* A state of the mesh is the sequence of what was done to it since the    *)
(* call: <<o, "edit">> and <<o, "transfer">> are the work of operation o,  *)
(* the second with what a composite writes itself once its parts are done; *)
(* <<o, "torn">> is work cut short.                                        *)
(***************************************************************************)
EXTENDS Integers, Sequences

CONSTANTS
    Op,         \* the operations
    Root,       \* those called by the scheduler
    kind,       \* "edit", "composite", "and", "or" or "min"
    parts       \* the operations that one is made of, in their order

VARIABLES called, result, kept

vars == <<called, result, kept>>

NoOp == "none"
IsSequence(o) == kind[o] \in {"and", "or", "min"}

Then(S, T)   == {s \o t : s \in S, t \in T}
Transfer(o)  == {<< <<o, "transfer">> >>}
Torn(o)      == {<< <<o, "torn">> >>}

\* What sets of states leave one after the other, for each number of them.
Successive(w) ==
    LET upto[k \in 0 .. Len(w)] == IF k = 0 THEN {<< >>} ELSE Then(upto[k - 1], w[k])
    IN  upto

\* What operation o leaves without its transfer, each[k] being what its k-th
\* part leaves when it succeeds.
Finished(o, each) ==
    CASE kind[o] = "edit"          -> {<< <<o, "edit">> >>}
      [] kind[o] = "composite"     -> Successive(each)[Len(each)]
      [] kind[o] = "and"           -> UNION {Successive(each)[k] : k \in 1 .. Len(each)}
      [] kind[o] \in {"or", "min"} -> UNION {each[k] : k \in 1 .. Len(each)}

\* What the parts before the k-th one have left when that one is tried.
Prior(o, each, k) ==
    IF kind[o] \in {"composite", "and"} THEN Successive(each)[k - 1] ELSE {<< >>}

\* The states that a successful call leaves.
Success[o \in Op] ==
    Then(Finished(o, [k \in 1 .. Len(parts[o]) |-> Success[parts[o][k]]]), Transfer(o))

\* The states that an exception leaves.
Thrown[o \in Op] ==
    LET each == [k \in 1 .. Len(parts[o]) |-> Success[parts[o][k]]]
        thrown == [k \in 1 .. Len(parts[o]) |-> Thrown[parts[o][k]]]
    IN  IF ~IsSequence(o) THEN {<< >>}
        ELSE Then(Finished(o, each), Torn(o))
             \cup UNION {Then(Prior(o, each, k), thrown[k]) : k \in 1 .. Len(parts[o])}

Init == called = NoOp /\ result = "none" /\ kept = << >>

Call(o) ==
    /\ called = NoOp
    /\ called' = o
    /\ result' = "none" /\ kept' = << >>

Return ==
    /\ called # NoOp
    /\ \/ result' = "mods"  /\ kept' \in Success[called]
       \/ result' = "empty" /\ kept' = << >>
       \/ result' = "throw" /\ kept' \in Thrown[called]
    /\ called' = NoOp

Next == (\E o \in Root : Call(o)) \/ Return

Spec == Init /\ [][Next]_vars
=============================================================================

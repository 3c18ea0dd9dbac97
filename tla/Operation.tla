----------------------------- MODULE Operation -----------------------------
(***************************************************************************)
(* Operation::operator() (src/src/wmtk/operations/Operation.cpp), the      *)
(* composites that call other operations from their execute, and the And,  *)
(* Or and Min sequences, as one thread that runs a call stack.  What the   *)
(* invariants answer, which operation refuses or throws and how far its    *)
(* writes have come by then is left open.                                  *)
(*                                                                         *)
(*   value      the attributes of all meshes, as what was done to them     *)
(*              since the call (AtomicOperation.tla says how)              *)
(*   scopes     the open attribute scopes: what each would restore.  That  *)
(*              a scope restores exactly that is TransactionStack.tla,     *)
(*              which CachingAttribute.tla is shown to implement           *)
(*   stack      the active calls, outermost first.  entry is no state of   *)
(*              the program: the value at the call                         *)
(*   returned   what the call that ended last gave to its caller: "mods"   *)
(*              (simplices), "empty" or "throw"                            *)
(***************************************************************************)
EXTENDS Integers, Sequences, FiniteSets, Functions

CONSTANTS
    Op,         \* the operations
    Root,       \* those called by the scheduler
    kind,       \* "edit", "composite", "and", "or" or "min"
    parts       \* m_operations, or the operations a composite calls, in order

ASSUME TreeAssumption ==
    /\ Root \subseteq Op /\ "none" \notin Op
    /\ kind \in [Op -> {"edit", "composite", "and", "or", "min"}]
    /\ parts \in [Op -> Seq(Op)]
    /\ \A o \in Op : (kind[o] = "edit") <=> (parts[o] = << >>)

VARIABLES value, scopes, stack, returned

vars == <<value, scopes, stack, returned>>

IsSequence(o) == kind[o] \in {"and", "or", "min"}
Top           == stack[Len(stack)]
Pop(s)        == SubSeq(s, 1, Len(s) - 1)

\* The frame of a call to o; order is the order in which its parts are tried.
Frame(o) == [op |-> o, at |-> "before", i |-> 1, order |-> parts[o], entry |-> value]

\* The orders that m_value may sort the alternatives of a Min into.
Orders(s) == {[i \in DOMAIN s |-> s[p[i]]] : p \in Bijection(DOMAIN s, DOMAIN s)}

GoTo(label)  == stack' = [stack EXCEPT ![Len(stack)].at = label]
At(label)    == stack # << >> /\ Top.at = label /\ returned = "none"
Write(token) == value' = Append(value, <<Top.op, token>>)
Return(outcome) == stack' = Pop(stack) /\ returned' = outcome

-----------------------------------------------------------------------------
Init == value = << >> /\ scopes = << >> /\ stack = << >> /\ returned = "none"

\* The scheduler calls an operation; what was done is counted from here.
call(o) ==
    /\ stack = << >>
    /\ value' = << >>
    /\ stack' = << [Frame(o) EXCEPT !.entry = << >>] >>
    /\ returned' = "none"
    /\ UNCHANGED scopes

\* before() refuses the simplex, or an invariant throws: no scope has been
\* opened.
before_refuses ==
    /\ At("before")
    /\ Return("empty") \/ Return("throw")
    /\ UNCHANGED <<value, scopes>>

\* create_scope.  A sequence opens none.  A Min sorts its alternatives.
before_accepts ==
    /\ At("before")
    /\ scopes' = IF IsSequence(Top.op) THEN scopes ELSE Append(scopes, value)
    /\ \E order \in IF kind[Top.op] = "min" THEN Orders(parts[Top.op]) ELSE {parts[Top.op]} :
          stack' = [stack EXCEPT ![Len(stack)].order = order,
                                 ![Len(stack)].at = "execute"]
    /\ UNCHANGED <<value, returned>>

\* execute of an operation without parts.
execute ==
    /\ At("execute") /\ kind[Top.op] = "edit"
    /\ \/ Write("edit") /\ GoTo("transfer")
       \/ (Write("torn") \/ UNCHANGED value) /\ GoTo("failed")
       \/ (Write("torn") \/ UNCHANGED value) /\ GoTo("thrown")
    /\ UNCHANGED <<scopes, returned>>

\* The next part is called.
call_part ==
    /\ At("execute") /\ kind[Top.op] # "edit"
    /\ stack' = Append(stack, Frame(Top.order[Top.i]))
    /\ UNCHANGED <<value, scopes, returned>>

-----------------------------------------------------------------------------
(* A part has returned to its caller, the top of the stack.                *)

PartReturned(outcome) == stack # << >> /\ returned = outcome /\ returned' = "none"
IsLast == Top.i = Len(Top.order)
NextPart == stack' = [stack EXCEPT ![Len(stack)].i = @ + 1]

\* Variant with a bug: an And or a composite goes on past its last part.
part_succeeded_overrunning ==
    /\ PartReturned("mods")
    /\ IF kind[Top.op] \in {"or", "min"} THEN GoTo("transfer") ELSE NextPart
    /\ UNCHANGED <<value, scopes>>
\* It succeeded: an Or or Min is finished, the others go on to the next part.
part_succeeded ==
    /\ PartReturned("mods")
    /\ IF kind[Top.op] \in {"or", "min"} \/ IsLast THEN GoTo("transfer") ELSE NextPart
    /\ UNCHANGED <<value, scopes>>

\* Variant with a bug: a failed alternative is tried again.
part_failed_retrying ==
    /\ PartReturned("empty")
    /\ CASE kind[Top.op] = "composite"     -> GoTo("failed")
         [] kind[Top.op] = "and"           -> IF Top.i = 1 THEN GoTo("failed") ELSE GoTo("transfer")
         [] kind[Top.op] \in {"or", "min"} -> UNCHANGED stack
    /\ UNCHANGED <<value, scopes>>
\* Variant with a bug: an And that fails at a later part reports the failure
\* and keeps what the parts before it have done.
part_failed_keeping ==
    /\ PartReturned("empty")
    /\ IF kind[Top.op] \in {"or", "min"} /\ ~IsLast THEN NextPart ELSE GoTo("failed")
    /\ UNCHANGED <<value, scopes>>
\* It failed.  A composite fails with it; an Or or Min tries the next; an And
\* keeps the parts before it and reports success, if there are any.
part_failed ==
    /\ PartReturned("empty")
    /\ CASE kind[Top.op] = "composite" -> GoTo("failed")
         [] kind[Top.op] = "and" -> IF Top.i = 1 THEN GoTo("failed") ELSE GoTo("transfer")
         [] kind[Top.op] \in {"or", "min"} -> IF IsLast THEN GoTo("failed") ELSE NextPart
    /\ UNCHANGED <<value, scopes>>

part_threw ==
    /\ PartReturned("throw")
    /\ GoTo("thrown")
    /\ UNCHANGED <<value, scopes>>

-----------------------------------------------------------------------------
\* A composite finds between its parts that it cannot go on, or throws there
\* or after the last one.  What it writes itself, it writes after the last
\* one: that is part of its "transfer", and of a torn one if it throws.
composite_fails ==
    /\ \/ At("execute") /\ Top.i > 1 /\ (GoTo("failed") \/ GoTo("thrown"))
       \/ At("transfer") /\ GoTo("thrown")
    /\ kind[Top.op] = "composite"
    /\ UNCHANGED <<value, scopes, returned>>

\* apply_attribute_transfer: the strategies run one after the other, and any
\* of them may throw.
apply_attribute_transfer ==
    /\ At("transfer")
    /\ \/ Write("transfer") /\ GoTo(IF IsSequence(Top.op) THEN "return" ELSE "after")
       \/ Write("torn") /\ GoTo("thrown")
    /\ UNCHANGED <<scopes, returned>>

\* A sequence asks no invariant afterwards.
sequence_returns ==
    /\ At("return")
    /\ Return("mods")
    /\ UNCHANGED <<value, scopes>>

\* after() accepts: the scope is popped and its writes are kept.
after_accepts ==
    /\ At("after")
    /\ scopes' = Pop(scopes)
    /\ Return("mods")
    /\ UNCHANGED value

\* after() refuses, or an invariant throws.
after_refuses ==
    /\ At("after")
    /\ GoTo("failed") \/ GoTo("thrown")
    /\ UNCHANGED <<value, scopes, returned>>

\* Variant with a bug: the scope is left without being marked as failed.
fail_unmarked ==
    /\ At("failed")
    /\ Return("empty")
    /\ scopes' = IF IsSequence(Top.op) THEN scopes ELSE Pop(scopes)
    /\ UNCHANGED value
\* mark_failed and the end of the scope.
fail ==
    /\ At("failed")
    /\ Return("empty")
    /\ IF IsSequence(Top.op) THEN UNCHANGED <<value, scopes>>
       ELSE value' = scopes[Len(scopes)] /\ scopes' = Pop(scopes)

\* Variant with a bug: the exception passes the operation by, as it would if
\* the scope were not closed by a destructor.
unwind_leaking ==
    /\ At("thrown")
    /\ Return("throw")
    /\ UNCHANGED <<value, scopes>>
\* The exception is caught, the scope marked as failed, the exception thrown
\* again.  A sequence catches nothing.
unwind ==
    /\ At("thrown")
    /\ Return("throw")
    /\ IF IsSequence(Top.op) THEN UNCHANGED <<value, scopes>>
       ELSE value' = scopes[Len(scopes)] /\ scopes' = Pop(scopes)

Step ==
    \/ before_refuses \/ before_accepts \/ execute \/ call_part
    \/ part_succeeded \/ part_failed \/ part_threw \/ composite_fails
    \/ apply_attribute_transfer \/ sequence_returns
    \/ after_accepts \/ after_refuses \/ fail \/ unwind

Next == (\E o \in Root : call(o)) \/ Step

\* A call runs on; whether the scheduler makes another is up to it.
Spec == Init /\ [][Next]_vars /\ WF_vars(Step)

-----------------------------------------------------------------------------
Labels == {"before", "execute", "transfer", "return", "after", "failed", "thrown"}

\* A call that is not the innermost waits in its execute for the part it has
\* called, and no call goes on past its last part.
TypeOK ==
    /\ \A k \in 1 .. Len(stack) :
          /\ stack[k].op \in Op /\ stack[k].at \in Labels
          /\ kind[stack[k].op] = "edit" \/ stack[k].i \in 1 .. Len(stack[k].order)
    /\ returned \in {"none", "mods", "empty", "throw"}
    /\ \A k \in 1 .. Len(stack) - 1 :
          stack[k].at = "execute" /\ stack[k].order[stack[k].i] = stack[k + 1].op

\* The calls that have opened a scope.
Scoped == {k \in 1 .. Len(stack) : ~IsSequence(stack[k].op) /\ stack[k].at # "before"}

\* Scopes and calls correspond, also while an exception unwinds: there is one
\* scope for every operation that has passed its before, in the order of the
\* calls, and it would restore the state that the operation was called in.
\* AttributeManager keeps one stack for all of them and does not know whose a
\* scope is.
ScopesMatchCalls ==
    /\ Len(scopes) = Cardinality(Scoped)
    /\ \A k \in Scoped :
          scopes[Cardinality({j \in Scoped : j <= k})] = stack[k].entry

\* However deep it is nested and whatever it has called by then, an operation
\* that returns no simplices has put everything back as it was at its call,
\* and so has one that lets an exception out, unless it is a sequence.
CallEnds == stack # << >> /\ Len(stack') < Len(stack)
FailureLeavesNothing ==
    [][CallEnds /\ (returned' = "empty" \/ (returned' = "throw" /\ ~IsSequence(Top.op)))
       => value' = Top.entry]_vars

\* Whatever is nested in it, a call is one atomic step of AtomicOperation: a
\* failure leaves nothing, a success what its successful parts did.
Abstract == INSTANCE AtomicOperation WITH
    called <- IF stack = << >> THEN "none" ELSE stack[1].op,
    result <- IF stack = << >> THEN returned ELSE "none",
    kept   <- IF stack = << >> THEN value ELSE << >>
ImplementsAtomic == Abstract!Spec

\* Every call of the scheduler ends.
CallsEnd == stack # << >> ~> stack = << >>
=============================================================================

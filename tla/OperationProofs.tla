--------------------------- MODULE OperationProofs ---------------------------
(***************************************************************************)
(* Proofs about Operation.tla, for every set of operations and every way   *)
(* of building them from each other, trees and graphs.  The invariant has  *)
(* three parts, each inductive given the ones before it: the shape of the  *)
(* calls, the correspondence of scopes and calls, and what a call that has *)
(* kept nothing yet knows of the value it would have to leave.             *)
(***************************************************************************)
EXTENDS Operation, FiniteSetTheorems, FunctionTheorems, SequenceTheorems, TLAPS

Outcomes == {"none", "mods", "empty", "throw"}
Values   == Seq(Op \X {"edit", "torn", "transfer"})
Frames   == [op : Op, at : Labels, i : Nat \ {0}, order : Seq(Op), entry : Values]

Types ==
    /\ value \in Values /\ scopes \in Seq(Values)
    /\ stack \in Seq(Frames) /\ returned \in Outcomes

\* One call: its order is one of its parts, and of the labels "after" is for an
\* operation with a scope, "return" for a sequence.
FrameFits(f) ==
    /\ Len(f.order) = Len(parts[f.op])
    /\ kind[f.op] = "edit" \/ f.i \in 1 .. Len(f.order)
    /\ f.at = "after" => ~IsSequence(f.op)
    /\ f.at = "return" => IsSequence(f.op)

\* A call that waits for a part.
Waits(f) == f.at = "execute" /\ kind[f.op] # "edit"

Shape ==
    /\ Types
    /\ \A k \in 1 .. Len(stack) : FrameFits(stack[k])
    /\ \A k \in 1 .. Len(stack) - 1 :
          Waits(stack[k]) /\ stack[k].order[stack[k].i] = stack[k + 1].op
    /\ stack # << >> /\ returned # "none" => Waits(Top)

\* A sequence none of whose parts has succeeded.
KeptNothing(f) == kind[f.op] \in {"or", "min"} \/ (kind[f.op] = "and" /\ f.i = 1)

\* What such a call, or one that has not begun, finds is what it was called in.
Untouched ==
    /\ \A k \in 1 .. Len(stack) - 1 :
          KeptNothing(stack[k]) => stack[k + 1].entry = stack[k].entry
    /\ stack # << >> =>
          /\ Top.at = "before" => value = Top.entry
          /\ Top.at = "execute" /\ KeptNothing(Top) /\ returned \in {"none", "empty"}
                => value = Top.entry
          /\ Top.at = "failed" /\ IsSequence(Top.op) => value = Top.entry

Inv == Shape /\ ScopesMatchCalls /\ Untouched

-----------------------------------------------------------------------------
(* What the steps do with the stack.                                       *)

\* The stack after a step that changes the innermost call only.
TopBecomes(at, i, order) ==
    /\ stack' \in Seq(Frames) /\ Len(stack') = Len(stack)
    /\ \A k \in 1 .. Len(stack) - 1 : stack'[k] = stack[k]
    /\ stack'[Len(stack)] = [Top EXCEPT !.at = at, !.i = i, !.order = order]

LEMMA TopFrame ==
    ASSUME Types, stack # << >>
    PROVE  /\ Len(stack) \in Nat \ {0} /\ Top \in Frames
           /\ \A k \in 1 .. Len(stack) : stack[k] \in Frames
BY EmptySeq, ElementOfSeq DEF Types, Top

\* Writing a frame in the place of the innermost call.
LEMMA TopWritten ==
    ASSUME Types, stack # << >>,
           NEW at \in Labels, NEW i \in Nat \ {0}, NEW order \in Seq(Op),
           stack' = [stack EXCEPT ![Len(stack)] =
                        [Top EXCEPT !.at = at, !.i = i, !.order = order]]
    PROVE  TopBecomes(at, i, order)
<1> DEFINE f == [Top EXCEPT !.at = at, !.i = i, !.order = order]
<1>1. Len(stack) \in 1 .. Len(stack) /\ Top \in Frames
  BY TopFrame
<1>2. f \in Frames
  BY <1>1 DEF Frames
<1>3. stack \in Seq(Frames)
  BY DEF Types
<1> HIDE DEF f
<1>4. stack' = [stack EXCEPT ![Len(stack)] = f]
  BY DEF f
<1>5. /\ stack' \in Seq(Frames) /\ Len(stack') = Len(stack)
      /\ \A k \in 1 .. Len(stack) : stack'[k] = IF k = Len(stack) THEN f ELSE stack[k]
  BY <1>1, <1>2, <1>3, <1>4, ExceptSeq
<1> QED
  BY <1>1, <1>5, TopFrame DEF TopBecomes, f

LEMMA GoToWrites ==
    ASSUME Types, stack # << >>, NEW label \in Labels, GoTo(label)
    PROVE  TopBecomes(label, Top.i, Top.order)
<1>1. Top \in Frames /\ stack \in Seq(Frames)
  BY TopFrame DEF Types
<1>2. Top.i \in Nat \ {0} /\ Top.order \in Seq(Op)
  BY <1>1 DEF Frames
<1>3. stack' = [stack EXCEPT ![Len(stack)] =
                   [Top EXCEPT !.at = label, !.i = Top.i, !.order = Top.order]]
  BY <1>1 DEF GoTo, Frames, Top
<1> QED
  BY <1>2, <1>3, TopWritten

LEMMA NextPartWrites ==
    ASSUME Types, stack # << >>, NextPart
    PROVE  TopBecomes(Top.at, Top.i + 1, Top.order)
<1>1. Top \in Frames /\ stack \in Seq(Frames)
  BY TopFrame DEF Types
<1>2. Top.at \in Labels /\ Top.i + 1 \in Nat \ {0} /\ Top.order \in Seq(Op)
  BY <1>1 DEF Frames
<1>3. stack' = [stack EXCEPT ![Len(stack)] =
                   [Top EXCEPT !.at = Top.at, !.i = Top.i + 1, !.order = Top.order]]
  BY <1>1 DEF NextPart, Frames, Top
<1> QED
  BY <1>2, <1>3, TopWritten

\* An order of the parts has the same length and the same operations.
LEMMA OrdersFit ==
    ASSUME NEW s \in Seq(Op), NEW order \in Orders(s)
    PROVE  order \in Seq(Op) /\ Len(order) = Len(s)
<1>1. PICK p \in Bijection(DOMAIN s, DOMAIN s) : order = [i \in DOMAIN s |-> s[p[i]]]
  BY DEF Orders
<1>2. p \in [DOMAIN s -> DOMAIN s]
  BY <1>1 DEF Bijection, Injection
<1>3. DOMAIN s = 1 .. Len(s) /\ Len(s) \in Nat /\ \A j \in DOMAIN s : s[j] \in Op
  BY LenProperties
<1>4. order \in [1 .. Len(s) -> Op]
  BY <1>1, <1>2, <1>3
<1>5. order \in Seq(Op)
  BY <1>3, <1>4, SeqDef
<1> QED
  BY <1>3, <1>4, <1>5, LenProperties

LEMMA AcceptWrites ==
    ASSUME Types, stack # << >>, NEW order \in Seq(Op),
           stack' = [stack EXCEPT ![Len(stack)].order = order,
                                  ![Len(stack)].at = "execute"]
    PROVE  TopBecomes("execute", Top.i, order)
<1>1. Top \in Frames /\ stack \in Seq(Frames) /\ Len(stack) \in DOMAIN stack
  BY TopFrame, LenProperties DEF Types
<1>2. Top.i \in Nat \ {0} /\ "execute" \in Labels
  BY <1>1 DEF Frames, Labels
<1>3. stack' = [stack EXCEPT ![Len(stack)] =
                   [Top EXCEPT !.at = "execute", !.i = Top.i, !.order = order]]
  BY <1>1 DEF Frames, Top
<1> QED
  BY <1>2, <1>3, TopWritten

\* A call ends: the calls around it stay as they are.
LEMMA Popped ==
    ASSUME NEW S, NEW s \in Seq(S), s # << >>
    PROVE  /\ Pop(s) \in Seq(S) /\ Len(Pop(s)) = Len(s) - 1
           /\ \A k \in 1 .. Len(s) - 1 : Pop(s)[k] = s[k]
<1>1. Len(s) \in Nat \ {0} /\ \A k \in 1 .. Len(s) - 1 : s[k] \in S
  BY EmptySeq, ElementOfSeq
<1>2. /\ SubSeq(s, 1, Len(s) - 1) \in Seq(S)
      /\ Len(SubSeq(s, 1, Len(s) - 1)) = IF 1 <= Len(s) - 1 THEN Len(s) - 1 ELSE 0
      /\ \A k \in 1 .. Len(s) - 1 : SubSeq(s, 1, Len(s) - 1)[k] = s[1 + k - 1]
  BY <1>1, SubSeqProperties
<1>3. ASSUME NEW k \in 1 .. Len(s) - 1 PROVE SubSeq(s, 1, Len(s) - 1)[k] = s[k]
  <2>1. 1 + k - 1 = k
    BY <1>1
  <2> QED
    BY <1>2, <2>1
<1>4. ASSUME NEW n \in Nat \ {0} PROVE (IF 1 <= n - 1 THEN n - 1 ELSE 0) = n - 1
  OBVIOUS
<1>5. Len(SubSeq(s, 1, Len(s) - 1)) = Len(s) - 1
  BY <1>1, <1>2, <1>4
<1> QED
  BY <1>2, <1>3, <1>5 DEF Pop

-----------------------------------------------------------------------------
(* The shape of the calls.                                                 *)

LEMMA TopShape ==
    ASSUME Shape, stack # << >>, NEW at, NEW i, NEW order,
           TopBecomes(at, i, order), value' \in Values, scopes' \in Seq(Values),
           returned' = "none",
           FrameFits([Top EXCEPT !.at = at, !.i = i, !.order = order])
    PROVE  Shape'
<1>1. Len(stack) \in Nat \ {0} /\ Top \in Frames
  BY TopFrame DEF Shape
<1>2. Types'
  BY DEF TopBecomes, Types, Outcomes
<1>3. ASSUME NEW k \in 1 .. Len(stack) PROVE FrameFits(stack'[k])
  <2>1. CASE k = Len(stack)
    BY <2>1 DEF TopBecomes
  <2>2. CASE k # Len(stack)
    <3>1. stack'[k] = stack[k]
      BY <1>1, <2>2 DEF TopBecomes
    <3> QED
      BY <3>1 DEF Shape
  <2> QED
    BY <2>1, <2>2
<1>4. stack'[Len(stack)].op = Top.op
  BY <1>1 DEF TopBecomes, Frames
<1>5. ASSUME NEW k \in 1 .. Len(stack) - 1
      PROVE  Waits(stack'[k]) /\ stack'[k].order[stack'[k].i] = stack'[k + 1].op
  <2>1. stack'[k] = stack[k]
    BY DEF TopBecomes
  <2>2. stack'[k + 1].op = stack[k + 1].op
    <3>1. CASE k + 1 = Len(stack)
      BY <1>4, <3>1 DEF Top
    <3>2. CASE k + 1 # Len(stack)
      BY <1>1, <3>2 DEF TopBecomes
    <3> QED
      BY <3>1, <3>2
  <2> QED
    BY <2>1, <2>2 DEF Shape
<1>6. Len(stack') = Len(stack)
  BY DEF TopBecomes
<1> QED
  BY <1>2, <1>3, <1>5, <1>6 DEF Shape

LEMMA PopShape ==
    ASSUME Shape, stack # << >>, NEW outcome \in Outcomes \ {"none"}, Return(outcome),
           value' \in Values, scopes' \in Seq(Values)
    PROVE  /\ Shape' /\ Len(stack') = Len(stack) - 1
           /\ \A k \in 1 .. Len(stack) - 1 : stack'[k] = stack[k]
<1>1. Len(stack) \in Nat \ {0} /\ stack \in Seq(Frames)
  BY TopFrame DEF Shape, Types
<1>2. /\ stack' \in Seq(Frames) /\ Len(stack') = Len(stack) - 1
      /\ \A k \in 1 .. Len(stack) - 1 : stack'[k] = stack[k]
  BY <1>1, Popped DEF Return
<1>3. Types'
  BY <1>2 DEF Types, Return
<1>4. \A k \in 1 .. Len(stack') : FrameFits(stack'[k])
  <2>1. \A k \in 1 .. Len(stack) : FrameFits(stack[k])
    BY DEF Shape
  <2>2. \A k \in 1 .. Len(stack') : k \in 1 .. Len(stack) /\ stack'[k] = stack[k]
    BY <1>1, <1>2
  <2> QED
    BY ONLY <2>1, <2>2
<1>5. ASSUME NEW k \in 1 .. Len(stack') - 1
      PROVE  Waits(stack'[k]) /\ stack'[k].order[stack'[k].i] = stack'[k + 1].op
  <2>1. k \in 1 .. Len(stack) - 1 /\ k + 1 \in 1 .. Len(stack) - 1
    BY <1>1, <1>2
  <2>2. stack'[k] = stack[k] /\ stack'[k + 1] = stack[k + 1]
    BY <1>2, <2>1
  <2> QED
    BY <2>1, <2>2 DEF Shape
<1>6. ASSUME stack' # << >> PROVE Waits(stack'[Len(stack')])
  <2>1. Len(stack') \in 1 .. Len(stack) - 1
    BY <1>1, <1>2, <1>6, EmptySeq
  <2> QED
    BY <1>2, <2>1 DEF Shape
<1> QED
  BY <1>2, <1>3, <1>4, <1>5, <1>6 DEF Shape, Top

\* A frame of a new call fits.
LEMMA NewFrame ==
    ASSUME NEW o \in Op, NEW v \in Values
    PROVE  LET f == [Frame(o) EXCEPT !.entry = v]
           IN  f \in Frames /\ FrameFits(f) /\ f.op = o /\ f.at = "before" /\ f.entry = v
<1> DEFINE f == [Frame(o) EXCEPT !.entry = v]
<1>1. /\ parts[o] \in Seq(Op)
      /\ kind[o] = "edit" <=> parts[o] = << >>
  BY TreeAssumption
<1>2. f = [op |-> o, at |-> "before", i |-> 1, order |-> parts[o], entry |-> v]
  BY DEF Frame
<1>3. kind[o] # "edit" => Len(parts[o]) \in Nat \ {0}
  BY <1>1, EmptySeq
<1> HIDE DEF f
<1>4. f \in Frames /\ f.op = o /\ f.at = "before" /\ f.entry = v /\ f.i = 1 /\ f.order = parts[o]
  BY <1>1, <1>2 DEF Frames, Labels
<1>5. FrameFits(f)
  BY <1>3, <1>4 DEF FrameFits
<1> QED
  BY <1>4, <1>5 DEF f

LEMMA CallShape ==
    ASSUME Shape, NEW o \in Root, call(o)
    PROVE  Shape'
<1> DEFINE f == [Frame(o) EXCEPT !.entry = << >>]
<1>1. o \in Op
  BY TreeAssumption
<1>2. << >> \in Values /\ scopes \in Seq(Values)
  BY EmptySeq DEF Values, Shape, Types
<1>3. f \in Frames /\ FrameFits(f)
  BY <1>1, <1>2, NewFrame
<1> HIDE DEF f
<1>4. stack' = <<f>> /\ value' = << >> /\ scopes' = scopes /\ returned' = "none"
  BY DEF call, f
<1>5. stack' \in Seq(Frames) /\ Len(stack') = 1 /\ stack'[1] = f
  BY <1>3, <1>4
<1> QED
  BY <1>2, <1>3, <1>4, <1>5 DEF Shape, Types, Outcomes


LEMMA PartShape ==
    ASSUME Shape, call_part
    PROVE  /\ Shape' /\ Len(stack') = Len(stack) + 1
           /\ \A k \in 1 .. Len(stack) : stack'[k] = stack[k]
           /\ stack'[Len(stack) + 1].at = "before"
           /\ stack'[Len(stack) + 1].entry = value
<1>0. stack # << >> /\ Top.at = "execute" /\ kind[Top.op] # "edit" /\ returned = "none"
  BY DEF call_part, At
<1>1. Len(stack) \in Nat \ {0} /\ stack \in Seq(Frames) /\ Top \in Frames
  BY <1>0, TopFrame DEF Shape, Types
<1> DEFINE o == Top.order[Top.i]
           f == [Frame(o) EXCEPT !.entry = value]
<1>2. o \in Op
  <2>1. FrameFits(Top)
    BY <1>1 DEF Shape, Top
  <2>2. Top.i \in 1 .. Len(Top.order) /\ Top.order \in Seq(Op)
    BY <1>0, <1>1, <2>1 DEF FrameFits, Frames
  <2> QED
    BY <2>2, ElementOfSeq
<1>3. value \in Values /\ scopes \in Seq(Values)
  BY DEF Shape, Types
<1> HIDE DEF o
<1>4. f \in Frames /\ FrameFits(f) /\ f.op = o /\ f.at = "before" /\ f.entry = value
  BY <1>2, <1>3, NewFrame
<1>5. f = Frame(o)
  BY DEF Frame
<1> HIDE DEF f
<1>6. stack' = Append(stack, f)
  BY <1>5 DEF call_part, o
<1>7. /\ stack' \in Seq(Frames) /\ stack' # << >> /\ Len(stack') = Len(stack) + 1
      /\ \A k \in 1 .. Len(stack) : stack'[k] = stack[k]
      /\ stack'[Len(stack) + 1] = f
  BY <1>1, <1>4, <1>6, AppendProperties
<1>8. value' = value /\ scopes' = scopes /\ returned' = "none"
  BY <1>0 DEF call_part
<1>9. \A k \in 1 .. Len(stack') : FrameFits(stack'[k])
  <2>1. ASSUME NEW k \in 1 .. Len(stack) PROVE FrameFits(stack'[k])
    BY <1>7 DEF Shape
  <2> QED
    BY <1>1, <1>4, <1>7, <2>1
<1>10. ASSUME NEW k \in 1 .. Len(stack') - 1
       PROVE  Waits(stack'[k]) /\ stack'[k].order[stack'[k].i] = stack'[k + 1].op
  <2>1. CASE k = Len(stack)
    <3>1. stack'[k] = Top /\ stack'[k + 1] = f
      BY <1>1, <1>7, <2>1 DEF Top
    <3> QED
      BY <1>0, <1>4, <3>1 DEF Waits, o
  <2>2. CASE k # Len(stack)
    <3>1. k \in 1 .. Len(stack) - 1 /\ k + 1 \in 1 .. Len(stack)
      BY <1>1, <1>7, <2>2
    <3>2. stack'[k] = stack[k] /\ stack'[k + 1] = stack[k + 1]
      BY <1>1, <1>7, <3>1
    <3> QED
      BY <3>1, <3>2 DEF Shape
  <2> QED
    BY <2>1, <2>2
<1>11. Types'
  BY <1>3, <1>7, <1>8 DEF Types, Outcomes
<1>12. Shape'
  BY <1>8, <1>9, <1>10, <1>11 DEF Shape
<1> QED
  BY <1>4, <1>7, <1>12

\* What the parts of a call have done, and so what a step may write.
LEMMA Written ==
    ASSUME Types, stack # << >>, NEW token \in {"edit", "torn", "transfer"}, Write(token)
    PROVE  value' \in Values
<1>1. Top.op \in Op /\ value \in Values
  BY TopFrame DEF Frames, Types
<1>2. <<Top.op, token>> \in Op \X {"edit", "torn", "transfer"}
  BY <1>1
<1> QED
  BY <1>1, <1>2, AppendProperties DEF Write, Values

\* A scope that is open can be popped, and restores a value.
LEMMA ScopePopped ==
    ASSUME Types, scopes # << >>
    PROVE  scopes[Len(scopes)] \in Values /\ Pop(scopes) \in Seq(Values)
<1>1. scopes \in Seq(Values) /\ Len(scopes) \in Nat \ {0}
  BY EmptySeq DEF Types
<1> QED
  BY <1>1, Popped, ElementOfSeq

-----------------------------------------------------------------------------
(* Scopes and calls.                                                       *)

Upto(S, k) == {j \in S : j <= k}

\* Counting the members of a set of positions up to one of them.
LEMMA Counted ==
    ASSUME NEW n \in Nat, NEW S \in SUBSET (1 .. n)
    PROVE  /\ IsFiniteSet(S) /\ Cardinality(S) \in Nat
           /\ \A k \in S : Cardinality(Upto(S, k)) \in 1 .. Cardinality(S)
<1>1. IsFiniteSet(S) /\ Cardinality(S) \in Nat
  <2>1. IsFiniteSet(1 .. n)
    BY FS_Interval
  <2> QED
    BY <2>1, FS_Subset, FS_CardinalityType
<1>2. ASSUME NEW k \in S PROVE Cardinality(Upto(S, k)) \in 1 .. Cardinality(S)
  <2> DEFINE U == Upto(S, k)
  <2>1. U \subseteq S /\ k \in U
    BY DEF Upto
  <2> HIDE DEF U
  <2>2. IsFiniteSet(U) /\ Cardinality(U) \in Nat /\ Cardinality(U) <= Cardinality(S)
    BY <1>1, <2>1, FS_Subset, FS_CardinalityType
  <2>3. Cardinality(U) # 0
    BY <2>1, <2>2, FS_EmptySet
  <2>4. Cardinality(U) \in 1 .. Cardinality(S)
    BY <1>1, <2>2, <2>3
  <2> QED
    BY <2>4 DEF U
<1> QED
  BY <1>1, <1>2

\* One position more, the last.
Extends(S, T, n) == n \in Nat \ {0} /\ T \in SUBSET (1 .. n - 1) /\ S = T \cup {n}

LEMMA CountedLast ==
    ASSUME NEW n, NEW T, NEW S, Extends(S, T, n)
    PROVE  /\ Cardinality(S) = Cardinality(T) + 1
           /\ Upto(S, n) = S
           /\ \A k \in T : Upto(S, k) = Upto(T, k)
<1>0. n \in Nat \ {0} /\ T \in SUBSET (1 .. n - 1) /\ S = T \cup {n}
  BY DEF Extends
<1>1. IsFiniteSet(T) /\ n \notin T
  <2>1. n - 1 \in Nat
    BY <1>0
  <2>2. IsFiniteSet(T)
    BY <1>0, <2>1, Counted
  <2> QED
    BY <1>0, <2>2
<1>2. Cardinality(S) = Cardinality(T) + 1
  BY <1>0, <1>1, FS_AddElement
<1>3. Upto(S, n) = S
  <2>1. \A j \in S : j <= n
    BY <1>0
  <2> QED
    BY <2>1 DEF Upto
<1>4. ASSUME NEW k \in T PROVE Upto(S, k) = Upto(T, k)
  <2>1. ~(n <= k)
    BY <1>0
  <2> QED
    BY <1>0, <2>1 DEF Upto
<1> QED
  BY <1>2, <1>3, <1>4

\* The scope of the innermost call, if it has one, is the last one.
LEMMA TopScope ==
    ASSUME Shape, ScopesMatchCalls, stack # << >>,
           Top.at # "before", ~IsSequence(Top.op)
    PROVE  /\ Len(stack) \in Scoped
           /\ scopes # << >> /\ scopes[Len(scopes)] = Top.entry
<1>1. Len(stack) \in Nat \ {0} /\ scopes \in Seq(Values)
  BY TopFrame DEF Shape, Types
<1>2. Scoped \in SUBSET (1 .. Len(stack)) /\ Len(stack) \in Scoped
  BY <1>1 DEF Scoped, Top
<1>3. Upto(Scoped, Len(stack)) = Scoped
  <2>1. \A j \in Scoped : j <= Len(stack)
    BY <1>1, <1>2
  <2> QED
    BY <2>1 DEF Upto
<1>4. Cardinality(Scoped) \in Nat \ {0}
  <2>1. /\ Cardinality(Scoped) \in Nat
        /\ Cardinality(Upto(Scoped, Len(stack))) \in 1 .. Cardinality(Scoped)
    BY <1>1, <1>2, Counted
  <2> QED
    BY <2>1
<1>5. Len(scopes) = Cardinality(Scoped)
      /\ scopes[Cardinality(Upto(Scoped, Len(stack)))] = stack[Len(stack)].entry
  BY <1>2 DEF ScopesMatchCalls, Upto
<1>6. scopes # << >>
  BY <1>1, <1>4, <1>5, EmptySeq
<1> QED
  BY <1>2, <1>3, <1>5, <1>6 DEF Top

\* A step that opens and closes no scope.
LEMMA ScopesStay ==
    ASSUME ScopesMatchCalls, scopes' = scopes, Scoped' = Scoped,
           \A k \in Scoped : stack'[k].entry = stack[k].entry
    PROVE  ScopesMatchCalls'
BY DEF ScopesMatchCalls

LEMMA TopKeepsScopes ==
    ASSUME Shape, ScopesMatchCalls, stack # << >>, NEW at, NEW i, NEW order,
           TopBecomes(at, i, order), scopes' = scopes,
           (at = "before" <=> Top.at = "before") \/ IsSequence(Top.op)
    PROVE  ScopesMatchCalls'
<1>1. Len(stack) \in Nat \ {0} /\ Top \in Frames
  BY TopFrame DEF Shape
<1>2. /\ stack'[Len(stack)].op = Top.op /\ stack'[Len(stack)].entry = Top.entry
      /\ stack'[Len(stack)].at = at
  BY <1>1 DEF TopBecomes, Frames
<1>3. ASSUME NEW k \in 1 .. Len(stack)
      PROVE  /\ stack'[k].entry = stack[k].entry
             /\ ~IsSequence(stack'[k].op) /\ stack'[k].at # "before"
                <=> ~IsSequence(stack[k].op) /\ stack[k].at # "before"
  <2>1. CASE k = Len(stack)
    BY <1>2, <2>1 DEF Top
  <2>2. CASE k # Len(stack)
    BY <1>1, <2>2 DEF TopBecomes
  <2> QED
    BY <2>1, <2>2
<1>4. Len(stack') = Len(stack)
  BY DEF TopBecomes
<1>5. Scoped' = Scoped
  BY <1>3, <1>4 DEF Scoped
<1>6. \A k \in Scoped : stack'[k].entry = stack[k].entry
  BY <1>3 DEF Scoped
<1> QED
  BY <1>5, <1>6, ScopesStay

\* A scope opens when the innermost call passes its before.
LEMMA ScopeOpens ==
    ASSUME Shape, ScopesMatchCalls, stack # << >>, NEW at, NEW i, NEW order,
           TopBecomes(at, i, order), at # "before", Top.at = "before",
           ~IsSequence(Top.op), scopes' = Append(scopes, value), value = Top.entry
    PROVE  ScopesMatchCalls'
<1>1. Len(stack) \in Nat \ {0} /\ Top \in Frames /\ scopes \in Seq(Values) /\ value \in Values
  BY TopFrame DEF Shape, Types
<1>2. /\ stack'[Len(stack)].op = Top.op /\ stack'[Len(stack)].entry = Top.entry
      /\ stack'[Len(stack)].at = at
  BY <1>1 DEF TopBecomes, Frames
<1>3. Len(stack') = Len(stack) /\ \A k \in 1 .. Len(stack) - 1 : stack'[k] = stack[k]
  BY DEF TopBecomes
<1>4. Scoped \in SUBSET (1 .. Len(stack) - 1)
  <2>1. Scoped \subseteq 1 .. Len(stack) /\ Len(stack) \notin Scoped
    BY DEF Scoped, Top
  <2> QED
    BY <1>1, <2>1
<1>5. Scoped' = Scoped \cup {Len(stack)}
  <2>1. Len(stack) \in Scoped'
    BY <1>1, <1>2, <1>3 DEF Scoped
  <2>2. ASSUME NEW k \in 1 .. Len(stack) - 1 PROVE k \in Scoped' <=> k \in Scoped
    <3>1. k \in 1 .. Len(stack) /\ stack'[k] = stack[k]
      BY <1>1, <1>3
    <3> QED
      BY <1>3, <3>1 DEF Scoped
  <2>3. \A k \in Scoped' : k \in 1 .. Len(stack) - 1 \/ k = Len(stack)
    BY <1>1, <1>3 DEF Scoped
  <2> HIDE DEF Scoped
  <2> QED
    BY <1>4, <2>1, <2>2, <2>3
<1>6. /\ Cardinality(Scoped') = Cardinality(Scoped) + 1
      /\ Upto(Scoped', Len(stack)) = Scoped'
      /\ \A k \in Scoped : Upto(Scoped', k) = Upto(Scoped, k)
  <2> DEFINE n == Len(stack)
             T == Scoped
             S == Scoped'
  <2>1. Extends(S, T, n)
    BY <1>1, <1>4, <1>5 DEF Extends
  <2> HIDE DEF n, T, S
  <2>2. /\ Cardinality(S) = Cardinality(T) + 1 /\ Upto(S, n) = S
        /\ \A k \in T : Upto(S, k) = Upto(T, k)
    BY <2>1, CountedLast
  <2> QED
    BY <2>2 DEF n, T, S
<1>7. /\ Len(scopes) = Cardinality(Scoped)
      /\ \A k \in Scoped : scopes[Cardinality(Upto(Scoped, k))] = stack[k].entry
  BY DEF ScopesMatchCalls, Upto
<1>8. /\ Len(scopes') = Len(scopes) + 1 /\ scopes'[Len(scopes) + 1] = value
      /\ \A j \in 1 .. Len(scopes) : scopes'[j] = scopes[j]
  BY <1>1, AppendProperties
<1>9. ASSUME NEW k \in Scoped' PROVE scopes'[Cardinality(Upto(Scoped', k))] = stack'[k].entry
  <2>1. CASE k = Len(stack)
    BY <1>2, <1>6, <1>7, <1>8, <2>1
  <2>2. CASE k # Len(stack)
    <3>1. k \in Scoped /\ stack'[k] = stack[k]
      BY <1>3, <1>4, <1>5, <2>2
    <3>2. Cardinality(Upto(Scoped, k)) \in 1 .. Len(scopes)
      <4>1. Len(stack) - 1 \in Nat
        BY <1>1
      <4>2. \A j \in Scoped : Cardinality(Upto(Scoped, j)) \in 1 .. Cardinality(Scoped)
        BY <1>4, <4>1, Counted
      <4> QED
        BY <1>7, <3>1, <4>2
    <3> QED
      BY <1>6, <1>7, <1>8, <3>1, <3>2
  <2> QED
    BY <2>1, <2>2
<1>10. Len(scopes') = Cardinality(Scoped')
  BY <1>6, <1>7, <1>8
<1> QED
  BY <1>9, <1>10 DEF ScopesMatchCalls, Upto

\* A call ends that has no scope.
LEMMA PopKeepsScopes ==
    ASSUME Shape, ScopesMatchCalls, stack # << >>,
           Len(stack') = Len(stack) - 1, \A k \in 1 .. Len(stack) - 1 : stack'[k] = stack[k],
           scopes' = scopes, Top.at = "before" \/ IsSequence(Top.op)
    PROVE  ScopesMatchCalls'
<1>1. Len(stack) \in Nat \ {0}
  BY TopFrame DEF Shape
<1>2. Scoped \subseteq 1 .. Len(stack) - 1
  <2>1. Scoped \subseteq 1 .. Len(stack) /\ Len(stack) \notin Scoped
    BY DEF Scoped, Top
  <2> QED
    BY <1>1, <2>1
<1>3. Scoped' = Scoped
  BY <1>1, <1>2 DEF Scoped
<1>4. \A k \in Scoped : stack'[k].entry = stack[k].entry
  BY <1>2
<1> QED
  BY <1>3, <1>4, ScopesStay

\* The innermost call ends and its scope with it.
LEMMA ScopeCloses ==
    ASSUME Shape, ScopesMatchCalls, stack # << >>,
           Len(stack') = Len(stack) - 1, \A k \in 1 .. Len(stack) - 1 : stack'[k] = stack[k],
           scopes' = Pop(scopes), Top.at # "before", ~IsSequence(Top.op)
    PROVE  ScopesMatchCalls'
<1>1. Len(stack) \in Nat \ {0} /\ scopes \in Seq(Values) /\ Len(scopes) \in Nat
  BY TopFrame, LenProperties DEF Shape, Types
<1>2. Len(stack) \in Scoped /\ scopes # << >>
  BY TopScope
<1>3. Scoped' = Scoped \ {Len(stack)}
  BY <1>1 DEF Scoped
<1>4. Scoped' \in SUBSET (1 .. Len(stack) - 1) /\ Scoped = Scoped' \cup {Len(stack)}
  <2>1. \A k \in Scoped : k \in 1 .. Len(stack)
    BY DEF Scoped
  <2>2. \A k \in 1 .. Len(stack) : k # Len(stack) => k \in 1 .. Len(stack) - 1
    BY <1>1
  <2> HIDE DEF Scoped
  <2> QED
    BY <1>2, <1>3, <2>1, <2>2
<1>5. /\ Cardinality(Scoped) = Cardinality(Scoped') + 1
      /\ \A k \in Scoped' : Upto(Scoped, k) = Upto(Scoped', k)
  <2> DEFINE n == Len(stack)
             T == Scoped'
             S == Scoped
  <2>1. Extends(S, T, n)
    BY <1>1, <1>4 DEF Extends
  <2> HIDE DEF n, T, S
  <2>2. /\ Cardinality(S) = Cardinality(T) + 1 /\ Upto(S, n) = S
        /\ \A k \in T : Upto(S, k) = Upto(T, k)
    BY <2>1, CountedLast
  <2> QED
    BY <2>2 DEF n, T, S
<1>6. /\ Len(scopes) = Cardinality(Scoped)
      /\ \A k \in Scoped : scopes[Cardinality(Upto(Scoped, k))] = stack[k].entry
  BY DEF ScopesMatchCalls, Upto
<1>7. /\ Len(scopes') = Len(scopes) - 1
      /\ \A j \in 1 .. Len(scopes) - 1 : scopes'[j] = scopes[j]
  BY <1>1, <1>2, Popped
<1>8. Cardinality(Scoped') \in Nat
      /\ \A k \in Scoped' : Cardinality(Upto(Scoped', k)) \in 1 .. Cardinality(Scoped')
  <2> DEFINE n == Len(stack) - 1
             T == Scoped'
  <2>1. n \in Nat /\ T \in SUBSET (1 .. n)
    BY <1>1, <1>4
  <2> HIDE DEF n, T
  <2>2. /\ Cardinality(T) \in Nat
        /\ \A k \in T : Cardinality(Upto(T, k)) \in 1 .. Cardinality(T)
    BY <2>1, Counted
  <2> QED
    BY <2>2 DEF T
<1>9. Len(scopes') = Cardinality(Scoped') /\ Cardinality(Scoped') = Len(scopes) - 1
  BY <1>1, <1>5, <1>6, <1>7, <1>8
<1>10. ASSUME NEW k \in Scoped'
       PROVE  scopes'[Cardinality(Upto(Scoped', k))] = stack'[k].entry
  <2>1. k \in Scoped /\ stack'[k] = stack[k]
    BY <1>4
  <2>2. Cardinality(Upto(Scoped', k)) \in 1 .. Len(scopes) - 1
    BY <1>8, <1>9
  <2> QED
    BY <1>5, <1>6, <1>7, <2>1, <2>2
<1> QED
  BY <1>9, <1>10 DEF ScopesMatchCalls, Upto

-----------------------------------------------------------------------------
(* What a call has to leave.                                               *)

LEMMA TopUntouched ==
    ASSUME Shape, Untouched, stack # << >>, NEW at, NEW i, NEW order,
           TopBecomes(at, i, order),
           at = "before" => value' = Top.entry,
           at = "execute" /\ KeptNothing([Top EXCEPT !.at = at, !.i = i, !.order = order])
              => value' = Top.entry,
           at = "failed" /\ IsSequence(Top.op) => value' = Top.entry
    PROVE  Untouched'
<1> DEFINE f == [Top EXCEPT !.at = at, !.i = i, !.order = order]
<1>1. Len(stack) \in Nat \ {0} /\ Top \in Frames
  BY TopFrame DEF Shape
<1>2. f.op = Top.op /\ f.entry = Top.entry /\ f.at = at
  BY <1>1 DEF Frames
<1>3. /\ Len(stack') = Len(stack) /\ stack'[Len(stack)] = f
      /\ \A k \in 1 .. Len(stack) - 1 : stack'[k] = stack[k]
  BY DEF TopBecomes
<1>4. ASSUME NEW k \in 1 .. Len(stack) - 1, KeptNothing(stack'[k])
      PROVE  stack'[k + 1].entry = stack'[k].entry
  <2>1. stack'[k] = stack[k]
    BY <1>3
  <2>2. stack'[k + 1].entry = stack[k + 1].entry
    <3>1. CASE k + 1 = Len(stack)
      BY <1>2, <1>3, <3>1 DEF Top
    <3>2. CASE k + 1 # Len(stack)
      BY <1>1, <1>3, <3>2
    <3> QED
      BY <3>1, <3>2
  <2> QED
    BY <1>4, <2>1, <2>2 DEF Untouched
<1> HIDE DEF f
<1>5. stack'[Len(stack')] = f
  BY <1>3
<1>6. KeptNothing(f) /\ at = "execute" => value' = Top.entry
  BY DEF f
<1> QED
  BY <1>2, <1>3, <1>4, <1>5, <1>6 DEF Untouched, Top

LEMMA PopUntouched ==
    ASSUME Shape, Untouched, stack # << >>, Shape',
           Len(stack') = Len(stack) - 1, \A k \in 1 .. Len(stack) - 1 : stack'[k] = stack[k],
           returned' \in {"mods", "empty", "throw"},
           returned' = "empty" => value' = Top.entry
    PROVE  Untouched'
<1>1. Len(stack) \in Nat \ {0}
  BY TopFrame DEF Shape
<1>2. ASSUME NEW k \in 1 .. Len(stack') - 1, KeptNothing(stack'[k])
      PROVE  stack'[k + 1].entry = stack'[k].entry
  <2>1. k \in 1 .. Len(stack) - 1 /\ k + 1 \in 1 .. Len(stack) - 1
    BY <1>1
  <2>2. stack'[k] = stack[k] /\ stack'[k + 1] = stack[k + 1]
    BY <2>1
  <2> QED
    BY <1>2, <2>1, <2>2 DEF Untouched
<1>3. ASSUME stack' # << >>
      PROVE  /\ stack'[Len(stack')].at = "execute"
             /\ KeptNothing(stack'[Len(stack')]) /\ returned' = "empty"
                   => value' = stack'[Len(stack')].entry
  <2> DEFINE k == Len(stack) - 1
  <2>1. k \in 1 .. Len(stack) - 1 /\ k + 1 = Len(stack)
    BY <1>1, <1>3, EmptySeq DEF Shape, Types
  <2>2. stack'[k] = stack[k]
    BY <2>1
  <2>3. Waits(stack[k])
    BY <2>1 DEF Shape
  <2>4. KeptNothing(stack[k]) => Top.entry = stack[k].entry
    BY <2>1 DEF Untouched, Top
  <2> HIDE DEF k
  <2>5. Len(stack') = k
    BY DEF k
  <2> QED
    BY <2>2, <2>3, <2>4, <2>5 DEF Waits
<1> QED
  BY <1>2, <1>3 DEF Untouched, Top

-----------------------------------------------------------------------------
(* The invariant, by what a step does with the innermost call.             *)

LEMMA GoToInv ==
    ASSUME Inv, stack # << >>, NEW label \in Labels \ {"before", "execute"}, GoTo(label),
           value' \in Values, scopes' = scopes, returned' = "none", Top.at # "before",
           label = "after" => ~IsSequence(Top.op),
           label = "return" => IsSequence(Top.op),
           label = "failed" /\ IsSequence(Top.op) => value' = Top.entry
    PROVE  Inv'
<1> DEFINE f == [Top EXCEPT !.at = label, !.i = Top.i, !.order = Top.order]
<1>1. /\ Shape /\ ScopesMatchCalls /\ Untouched /\ Types
      /\ Top \in Frames /\ Len(stack) \in Nat \ {0}
  BY TopFrame DEF Inv, Shape
<1>2. TopBecomes(label, Top.i, Top.order)
  BY <1>1, GoToWrites
<1>3. FrameFits(f)
  <2>1. f.op = Top.op /\ f.at = label /\ f.i = Top.i /\ f.order = Top.order
    BY <1>1 DEF Frames
  <2>2. FrameFits(Top)
    BY <1>1 DEF Shape, Top
  <2> HIDE DEF f
  <2> QED
    BY <2>1, <2>2 DEF FrameFits
<1> HIDE DEF f
<1>4. scopes' \in Seq(Values)
  BY <1>1 DEF Types
<1>5. Shape'
  BY <1>1, <1>2, <1>3, <1>4, TopShape DEF f
<1>6. ScopesMatchCalls'
  BY <1>1, <1>2, TopKeepsScopes
<1>7. Untouched'
  BY <1>1, <1>2, TopUntouched
<1> QED
  BY <1>5, <1>6, <1>7 DEF Inv

LEMMA NextPartInv ==
    ASSUME Inv, stack # << >>, Waits(Top), NextPart, ~IsLast,
           UNCHANGED <<value, scopes>>, returned' = "none",
           kind[Top.op] \in {"or", "min"} => value = Top.entry
    PROVE  Inv'
<1> DEFINE f == [Top EXCEPT !.at = Top.at, !.i = Top.i + 1, !.order = Top.order]
<1>1. /\ Shape /\ ScopesMatchCalls /\ Untouched /\ Types
      /\ Top \in Frames /\ Len(stack) \in Nat \ {0}
  BY TopFrame DEF Inv, Shape
<1>2. TopBecomes(Top.at, Top.i + 1, Top.order)
  BY <1>1, NextPartWrites
<1>3. f.op = Top.op /\ f.at = "execute" /\ f.i = Top.i + 1 /\ f.order = Top.order
  BY <1>1 DEF Frames, Waits
<1>4. FrameFits(f)
  <2>1. FrameFits(Top) /\ kind[Top.op] # "edit"
    BY <1>1 DEF Shape, Top, Waits
  <2>2. Top.i \in 1 .. Len(Top.order) /\ Top.i # Len(Top.order) /\ Len(Top.order) \in Nat
    BY <1>1, <2>1, LenProperties DEF FrameFits, IsLast, Frames
  <2>3. Top.i + 1 \in 1 .. Len(Top.order)
    BY <2>2
  <2> HIDE DEF f
  <2> QED
    BY <1>3, <2>1, <2>3 DEF FrameFits
<1>5. KeptNothing(f) => kind[Top.op] \in {"or", "min"}
  <2>1. Top.i + 1 # 1
    BY <1>1 DEF Frames
  <2> HIDE DEF f
  <2> QED
    BY <1>3, <2>1 DEF KeptNothing
<1> HIDE DEF f
<1>6. scopes' \in Seq(Values) /\ value' \in Values /\ value' = value
  BY <1>1 DEF Types
<1>7. Shape'
  BY <1>1, <1>2, <1>4, <1>6, TopShape DEF f
<1>8. ScopesMatchCalls'
  BY <1>1, <1>2, TopKeepsScopes
<1>9. Untouched'
  <2>1. Top.at = "execute"
    BY DEF Waits
  <2> QED
    BY <1>1, <1>2, <1>5, <1>6, <2>1, TopUntouched DEF f
<1> QED
  BY <1>7, <1>8, <1>9 DEF Inv

LEMMA PopInv ==
    ASSUME Inv, stack # << >>, NEW outcome \in {"mods", "empty", "throw"}, Return(outcome),
           value' \in Values, outcome = "empty" => value' = Top.entry,
           IF Top.at = "before" \/ IsSequence(Top.op) THEN scopes' = scopes
                                                      ELSE scopes' = Pop(scopes)
    PROVE  Inv' /\ Len(stack') = Len(stack) - 1
<1>1. Shape /\ ScopesMatchCalls /\ Untouched /\ Types
  BY DEF Inv, Shape
<1>2. scopes' \in Seq(Values)
  <2>1. CASE Top.at = "before" \/ IsSequence(Top.op)
    BY <1>1, <2>1 DEF Types
  <2>2. CASE ~(Top.at = "before" \/ IsSequence(Top.op))
    BY <1>1, <2>2, TopScope, ScopePopped
  <2> QED
    BY <2>1, <2>2
<1>3. outcome \in Outcomes \ {"none"} /\ returned' = outcome
  BY DEF Outcomes, Return
<1>4. /\ Shape' /\ Len(stack') = Len(stack) - 1
      /\ \A k \in 1 .. Len(stack) - 1 : stack'[k] = stack[k]
  BY <1>1, <1>2, <1>3, PopShape
<1>5. ScopesMatchCalls'
  <2>1. CASE Top.at = "before" \/ IsSequence(Top.op)
    BY <1>1, <1>4, <2>1, PopKeepsScopes
  <2>2. CASE ~(Top.at = "before" \/ IsSequence(Top.op))
    BY <1>1, <1>4, <2>2, ScopeCloses
  <2> QED
    BY <2>1, <2>2
<1>6. Untouched'
  BY <1>1, <1>3, <1>4, PopUntouched
<1> QED
  BY <1>4, <1>5, <1>6 DEF Inv

-----------------------------------------------------------------------------
(* Every step.                                                             *)

\* What FailureLeavesNothing says of a step.
Leaves ==
    CallEnds /\ (returned' = "empty" \/ (returned' = "throw" /\ ~IsSequence(Top.op)))
        => value' = Top.entry

\* The step leaves the stack as long as it was, or longer.
LEMMA NoCallEnds ==
    ASSUME Types, Len(stack') \in Nat, Len(stack') >= Len(stack)
    PROVE  Leaves
<1>1. Len(stack) \in Nat
  BY LenProperties DEF Types
<1>2. ~(Len(stack') < Len(stack))
  BY <1>1
<1> QED
  BY <1>2 DEF Leaves, CallEnds

LEMMA SameLength ==
    ASSUME Inv, Len(stack') = Len(stack) PROVE Leaves
<1>1. Types /\ Len(stack) \in Nat
  BY LenProperties DEF Inv, Shape, Types
<1> QED
  BY <1>1, NoCallEnds

LEMMA CallStep == ASSUME Inv, NEW o \in Root, call(o) PROVE Inv' /\ Leaves
<1> DEFINE f == [Frame(o) EXCEPT !.entry = << >>]
<1>1. Shape'
  BY CallShape DEF Inv
<1>2. /\ stack = << >> /\ stack' = <<f>> /\ value' = << >> /\ scopes' = scopes
      /\ returned' = "none"
  BY DEF call
<1>3. f.at = "before" /\ f.entry = << >>
  <2>1. o \in Op /\ << >> \in Values
    BY TreeAssumption, EmptySeq DEF Values
  <2> QED
    BY <2>1, NewFrame
<1> HIDE DEF f
<1>4. Len(stack) = 0 /\ Len(stack') = 1 /\ stack'[1] = f
  BY <1>2
<1>5. Scoped = {} /\ Scoped' = {}
  BY <1>3, <1>4 DEF Scoped
<1>6. ScopesMatchCalls'
  BY <1>2, <1>5, ScopesStay DEF Inv
<1>7. Untouched'
  BY <1>2, <1>3, <1>4 DEF Untouched, Top
<1>8. Leaves
  BY <1>2 DEF Leaves, CallEnds
<1> QED
  BY <1>1, <1>6, <1>7, <1>8 DEF Inv

LEMMA BeforeStep ==
    ASSUME Inv, before_refuses \/ before_accepts PROVE Inv' /\ Leaves
<1>0. stack # << >> /\ Top.at = "before" /\ returned = "none"
  BY DEF before_refuses, before_accepts, At
<1>1. /\ Shape /\ ScopesMatchCalls /\ Untouched /\ Types
      /\ Top \in Frames /\ Len(stack) \in Nat \ {0}
  BY <1>0, TopFrame DEF Inv, Shape
<1>2. value = Top.entry /\ value \in Values
  BY <1>0, <1>1 DEF Untouched, Types
<1>3. CASE before_refuses
  <2>1. value' = value /\ scopes' = scopes
    BY <1>3 DEF before_refuses
  <2>2. PICK outcome \in {"empty", "throw"} : Return(outcome)
    BY <1>3 DEF before_refuses
  <2>3. Inv'
    BY <1>0, <1>2, <2>1, <2>2, PopInv
  <2> QED
    BY <1>2, <2>1, <2>3 DEF Leaves
<1>4. CASE before_accepts
  <2>1. PICK order \in IF kind[Top.op] = "min" THEN Orders(parts[Top.op]) ELSE {parts[Top.op]} :
            stack' = [stack EXCEPT ![Len(stack)].order = order,
                                   ![Len(stack)].at = "execute"]
    BY <1>4 DEF before_accepts
  <2>2. /\ scopes' = IF IsSequence(Top.op) THEN scopes ELSE Append(scopes, value)
        /\ value' = value /\ returned' = "none"
    BY <1>0, <1>4 DEF before_accepts
  <2>3. parts[Top.op] \in Seq(Op)
    BY <1>1, TreeAssumption DEF Frames
  <2>4. order \in Seq(Op) /\ Len(order) = Len(parts[Top.op])
    BY <2>1, <2>3, OrdersFit
  <2>5. TopBecomes("execute", Top.i, order)
    BY <1>0, <1>1, <2>1, <2>4, AcceptWrites
  <2> DEFINE f == [Top EXCEPT !.at = "execute", !.i = Top.i, !.order = order]
  <2>6. FrameFits(f)
    <3>1. f.op = Top.op /\ f.at = "execute" /\ f.i = Top.i /\ f.order = order
      BY <1>1 DEF Frames
    <3>2. FrameFits(Top)
      BY <1>1 DEF Shape, Top
    <3> HIDE DEF f
    <3> QED
      BY <2>4, <3>1, <3>2 DEF FrameFits
  <2> HIDE DEF f
  <2>7. scopes' \in Seq(Values)
    BY <1>1, <1>2, <2>2, AppendProperties DEF Types
  <2>8. Shape'
    BY <1>0, <1>1, <1>2, <2>2, <2>5, <2>6, <2>7, TopShape DEF f
  <2>9. ScopesMatchCalls'
    <3>1. CASE IsSequence(Top.op)
      BY <1>0, <1>1, <2>2, <2>5, <3>1, TopKeepsScopes
    <3>2. CASE ~IsSequence(Top.op)
      BY <1>0, <1>1, <1>2, <2>2, <2>5, <3>2, ScopeOpens
    <3> QED
      BY <3>1, <3>2
  <2>10. Untouched'
    BY <1>0, <1>1, <1>2, <2>2, <2>5, TopUntouched
  <2>11. Leaves
    BY <2>5, SameLength DEF TopBecomes
  <2> QED
    BY <2>8, <2>9, <2>10, <2>11 DEF Inv
<1> QED
  BY <1>3, <1>4

\* A step that moves the innermost call to another label.
LEMMA GoToLeaves ==
    ASSUME Inv, stack # << >>, NEW label \in Labels, GoTo(label)
    PROVE  Leaves
BY GoToWrites, SameLength DEF Inv, Shape, TopBecomes

LEMMA ExecuteStep == ASSUME Inv, execute PROVE Inv' /\ Leaves
<1>0. /\ stack # << >> /\ Top.at = "execute" /\ kind[Top.op] = "edit" /\ returned = "none"
      /\ scopes' = scopes /\ returned' = "none"
  BY DEF execute, At
<1>1. Types /\ value \in Values /\ ~IsSequence(Top.op)
  BY <1>0 DEF Inv, Shape, Types, IsSequence
<1>2. PICK label \in {"transfer", "failed", "thrown"} :
          GoTo(label) /\ (value' = value \/ \E token \in {"edit", "torn"} : Write(token))
  BY DEF execute
<1>3. value' \in Values
  BY <1>0, <1>1, <1>2, Written
<1>4. label \in Labels \ {"before", "execute"} /\ label \notin {"after", "return"}
  BY <1>2 DEF Labels
<1> QED
  BY <1>0, <1>1, <1>2, <1>3, <1>4, GoToInv, GoToLeaves

LEMMA PartStep == ASSUME Inv, call_part PROVE Inv' /\ Leaves
<1>0. /\ stack # << >> /\ Top.at = "execute" /\ returned = "none"
      /\ scopes' = scopes /\ value' = value /\ returned' = "none"
  BY DEF call_part, At
<1>1. Shape /\ ScopesMatchCalls /\ Untouched /\ Types /\ Len(stack) \in Nat \ {0}
  BY <1>0, TopFrame DEF Inv, Shape
<1>2. /\ Shape' /\ Len(stack') = Len(stack) + 1
      /\ \A k \in 1 .. Len(stack) : stack'[k] = stack[k]
      /\ stack'[Len(stack) + 1].at = "before"
      /\ stack'[Len(stack) + 1].entry = value
  BY <1>1, PartShape
<1>3. Scoped' = Scoped
  <2>1. ASSUME NEW k \in 1 .. Len(stack) + 1 PROVE k \in Scoped' <=> k \in Scoped
    <3>1. CASE k = Len(stack) + 1
      BY <1>1, <1>2, <3>1 DEF Scoped
    <3>2. CASE k # Len(stack) + 1
      BY <1>1, <1>2, <3>2 DEF Scoped
    <3> QED
      BY <3>1, <3>2
  <2>2. \A k \in Scoped \cup Scoped' : k \in 1 .. Len(stack) + 1
    BY <1>1, <1>2 DEF Scoped
  <2> HIDE DEF Scoped
  <2> QED
    BY <2>1, <2>2
<1>4. \A k \in Scoped : stack'[k].entry = stack[k].entry
  BY <1>2 DEF Scoped
<1>5. ScopesMatchCalls'
  BY <1>0, <1>1, <1>3, <1>4, ScopesStay
<1>6. ASSUME NEW k \in 1 .. Len(stack') - 1, KeptNothing(stack'[k])
      PROVE  stack'[k + 1].entry = stack'[k].entry
  <2>1. CASE k = Len(stack)
    <3>1. stack'[k] = Top /\ stack'[k + 1].entry = value
      BY <1>1, <1>2, <2>1 DEF Top
    <3> QED
      BY <1>0, <1>1, <1>6, <3>1 DEF Untouched
  <2>2. CASE k # Len(stack)
    <3>1. k \in 1 .. Len(stack) - 1 /\ k + 1 \in 1 .. Len(stack) /\ k \in 1 .. Len(stack)
      BY <1>1, <1>2, <2>2
    <3>2. stack'[k] = stack[k] /\ stack'[k + 1] = stack[k + 1]
      BY <1>2, <3>1
    <3> QED
      BY <1>1, <1>6, <3>1, <3>2 DEF Untouched
  <2> QED
    BY <2>1, <2>2
<1>7. stack'[Len(stack')].at = "before" /\ stack'[Len(stack')].entry = value
  BY <1>2
<1>8. Untouched'
  BY <1>0, <1>6, <1>7 DEF Untouched, Top
<1>9. Leaves
  BY <1>1, <1>2, NoCallEnds
<1> QED
  BY <1>2, <1>5, <1>8, <1>9 DEF Inv


LEMMA NextPartLeaves ==
    ASSUME Inv, stack # << >>, NextPart PROVE Leaves
BY NextPartWrites, SameLength DEF Inv, Shape, TopBecomes

\* The three ways in which a part returns to the call that waits for it.
LEMMA ReturnedStep ==
    ASSUME Inv, part_succeeded \/ part_failed \/ part_threw
    PROVE  Inv' /\ Leaves
<1>0. /\ stack # << >> /\ returned # "none" /\ returned' = "none"
      /\ value' = value /\ scopes' = scopes
  BY DEF part_succeeded, part_failed, part_threw, PartReturned
<1>1. /\ Waits(Top) /\ Top.at = "execute" /\ kind[Top.op] # "edit"
      /\ value' \in Values /\ Types /\ Untouched
      /\ Top \in Frames /\ Top.op \in Op
  BY <1>0, TopFrame DEF Inv, Shape, Waits, Types, Frames
<1>2. kind[Top.op] \in {"composite", "and", "or", "min"}
  BY <1>1, TreeAssumption
<1>3. ASSUME NEW label \in {"transfer", "thrown"}, GoTo(label) PROVE Inv' /\ Leaves
  <2>1. label \in Labels \ {"before", "execute"} /\ label \notin {"after", "return", "failed"}
    BY DEF Labels
  <2> QED
    BY <1>0, <1>1, <1>3, <2>1, GoToInv, GoToLeaves
<1>4. ASSUME GoTo("failed"), IsSequence(Top.op) => value = Top.entry PROVE Inv' /\ Leaves
  <2>1. "failed" \in Labels \ {"before", "execute"}
    BY DEF Labels
  <2> QED
    BY <1>0, <1>1, <1>4, <2>1, GoToInv, GoToLeaves
<1>5. ASSUME NextPart, ~IsLast, kind[Top.op] \in {"or", "min"} => value = Top.entry
      PROVE  Inv' /\ Leaves
  BY <1>0, <1>1, <1>5, NextPartInv, NextPartLeaves
<1>6. CASE part_succeeded
  <2>1. CASE kind[Top.op] \in {"or", "min"} \/ IsLast
    BY <1>3, <1>6, <2>1 DEF part_succeeded
  <2>2. CASE ~(kind[Top.op] \in {"or", "min"} \/ IsLast)
    BY <1>5, <1>6, <2>2 DEF part_succeeded
  <2> QED
    BY <2>1, <2>2
<1>7. CASE part_failed
  <2>1. returned = "empty"
    BY <1>7 DEF part_failed, PartReturned
  <2>2. KeptNothing(Top) => value = Top.entry
    BY <1>0, <1>1, <2>1 DEF Untouched
  <2>3. CASE kind[Top.op] = "composite"
    <3>1. GoTo("failed") /\ ~IsSequence(Top.op)
      BY <1>7, <2>3 DEF part_failed, IsSequence
    <3> QED
      BY <1>4, <3>1
  <2>4. CASE kind[Top.op] = "and"
    <3>1. CASE Top.i = 1
      BY <1>4, <1>7, <2>2, <2>4, <3>1 DEF part_failed, KeptNothing
    <3>2. CASE Top.i # 1
      BY <1>3, <1>7, <2>4, <3>2 DEF part_failed
    <3> QED
      BY <3>1, <3>2
  <2>5. CASE kind[Top.op] \in {"or", "min"}
    <3>1. value = Top.entry
      BY <2>2, <2>5 DEF KeptNothing
    <3>2. IF IsLast THEN GoTo("failed") ELSE NextPart
      BY <1>7, <2>5 DEF part_failed
    <3> QED
      BY <1>4, <1>5, <3>1, <3>2
  <2> QED
    BY <1>2, <2>3, <2>4, <2>5
<1>8. CASE part_threw
  BY <1>3, <1>8 DEF part_threw
<1> QED
  BY <1>0, <1>6, <1>7, <1>8

\* A composite that fails or throws by itself.
LEMMA OwnFailureStep == ASSUME Inv, composite_fails PROVE Inv' /\ Leaves
<1>0. /\ stack # << >> /\ Top.at \in {"execute", "transfer"}
      /\ value' = value /\ scopes' = scopes /\ returned' = "none"
  BY DEF composite_fails, At
<1>1. PICK label \in {"failed", "thrown"} : GoTo(label)
  BY DEF composite_fails
<1>2. ~IsSequence(Top.op) /\ value' \in Values
  BY <1>0 DEF composite_fails, IsSequence, Inv, Shape, Types
<1>3. label \in Labels \ {"before", "execute"} /\ label \notin {"after", "return"}
  BY DEF Labels
<1> QED
  BY <1>0, <1>1, <1>2, <1>3, GoToInv, GoToLeaves

\* The transfer at the end of a call.
LEMMA TransferStep == ASSUME Inv, apply_attribute_transfer PROVE Inv' /\ Leaves
<1>0. /\ stack # << >> /\ Top.at = "transfer" /\ scopes' = scopes /\ returned' = "none"
  BY DEF apply_attribute_transfer, At
<1>1. PICK label \in {"after", "return", "thrown"} :
          /\ GoTo(label) /\ \E token \in {"transfer", "torn"} : Write(token)
          /\ label = "after" => ~IsSequence(Top.op)
          /\ label = "return" => IsSequence(Top.op)
  BY DEF apply_attribute_transfer
<1>2. value' \in Values
  BY <1>0, <1>1, Written DEF Inv, Shape
<1>3. label \in Labels \ {"before", "execute"} /\ label # "failed"
  BY DEF Labels
<1> QED
  BY <1>0, <1>1, <1>2, <1>3, GoToInv, GoToLeaves

\* The call ends with success.
LEMMA SuccessStep ==
    ASSUME Inv, sequence_returns \/ after_accepts PROVE Inv' /\ Leaves
<1>0. /\ stack # << >> /\ value' = value /\ Return("mods")
  BY DEF sequence_returns, after_accepts, At
<1>1. value' \in Values
  BY <1>0 DEF Inv, Shape, Types
<1>2. IF Top.at = "before" \/ IsSequence(Top.op) THEN scopes' = scopes
                                                 ELSE scopes' = Pop(scopes)
  <2>1. FrameFits(Top)
    <3>1. Len(stack) \in 1 .. Len(stack)
      BY <1>0, TopFrame DEF Inv, Shape
    <3> QED
      BY <3>1 DEF Inv, Shape, Top
  <2>2. CASE sequence_returns
    BY <2>1, <2>2 DEF sequence_returns, At, FrameFits
  <2>3. CASE after_accepts
    BY <2>1, <2>3 DEF after_accepts, At, FrameFits
  <2> QED
    BY <2>2, <2>3
<1>3. Inv'
  BY <1>0, <1>1, <1>2, PopInv
<1>4. Leaves
  BY <1>0 DEF Leaves, Return
<1> QED
  BY <1>3, <1>4

LEMMA RefusedStep == ASSUME Inv, after_refuses PROVE Inv' /\ Leaves
<1>0. /\ stack # << >> /\ Top.at = "after" /\ value' = value /\ scopes' = scopes
      /\ returned' = "none"
  BY DEF after_refuses, At
<1>1. PICK label \in {"failed", "thrown"} : GoTo(label)
  BY DEF after_refuses
<1>2. Len(stack) \in 1 .. Len(stack) /\ value' \in Values
  BY <1>0, TopFrame DEF Inv, Shape, Types
<1>3. ~IsSequence(Top.op)
  BY <1>0, <1>2 DEF Inv, Shape, FrameFits, Top
<1>4. label \in Labels \ {"before", "execute"} /\ label \notin {"after", "return"}
  BY DEF Labels
<1> QED
  BY <1>0, <1>1, <1>2, <1>3, <1>4, GoToInv, GoToLeaves

\* The call ends without: the scope puts back what it was opened with, and a
\* sequence has none to put back.
LEMMA FailureStep == ASSUME Inv, fail \/ unwind PROVE Inv' /\ Leaves
<1>0. stack # << >> /\ Top.at \in {"failed", "thrown"} /\ (fail => Top.at = "failed")
  BY DEF fail, unwind, At
<1>1. /\ Shape /\ ScopesMatchCalls /\ Untouched /\ Types
      /\ value \in Values /\ Top \in Frames /\ Top.entry \in Values
  BY <1>0, TopFrame DEF Inv, Shape, Types, Frames
<1>2. PICK outcome \in {"empty", "throw"} :
          Return(outcome) /\ (outcome = "empty" => fail)
  BY DEF fail, unwind
<1>3. CASE IsSequence(Top.op)
  <2>1. value' = value /\ scopes' = scopes
    BY <1>3 DEF fail, unwind
  <2>2. outcome = "empty" => value' = Top.entry
    BY <1>0, <1>1, <1>2, <1>3, <2>1 DEF Untouched
  <2>3. Inv'
    BY <1>0, <1>1, <1>2, <1>3, <2>1, <2>2, PopInv
  <2> QED
    BY <1>2, <1>3, <2>2, <2>3 DEF Leaves, Return
<1>4. CASE ~IsSequence(Top.op)
  <2>1. value' = scopes[Len(scopes)] /\ scopes' = Pop(scopes)
    BY <1>4 DEF fail, unwind
  <2>2. value' = Top.entry
    BY <1>0, <1>1, <1>4, <2>1, TopScope
  <2>3. Inv'
    BY <1>0, <1>1, <1>2, <1>4, <2>1, <2>2, PopInv
  <2> QED
    BY <2>2, <2>3 DEF Leaves
<1> QED
  BY <1>3, <1>4

-----------------------------------------------------------------------------
(* The theorems.                                                           *)

LEMMA InitInv == Init => Inv
<1> SUFFICES ASSUME Init PROVE Inv
  OBVIOUS
<1>1. value = << >> /\ scopes = << >> /\ stack = << >> /\ returned = "none"
  BY DEF Init
<1>2. Len(stack) = 0 /\ Len(scopes) = 0
  BY <1>1
<1>3. Types
  BY <1>1, EmptySeq DEF Types, Values, Outcomes
<1>4. Shape
  BY <1>1, <1>2, <1>3 DEF Shape
<1>5. Scoped = {}
  BY <1>2 DEF Scoped
<1>6. ScopesMatchCalls
  BY <1>2, <1>5, FS_EmptySet DEF ScopesMatchCalls
<1>7. Untouched
  BY <1>1, <1>2 DEF Untouched
<1> QED
  BY <1>4, <1>6, <1>7 DEF Inv

LEMMA NextInv == ASSUME Inv, [Next]_vars PROVE Inv' /\ (vars' = vars \/ Leaves)
<1>1. CASE Next
  <2>1. ASSUME NEW o \in Root, call(o) PROVE Inv' /\ Leaves
    BY <2>1, CallStep
  <2>2. CASE Step
    BY <2>2, BeforeStep, ExecuteStep, PartStep, ReturnedStep, TransferStep,
       SuccessStep, RefusedStep, FailureStep, OwnFailureStep DEF Step
  <2> QED
    BY <1>1, <2>1, <2>2 DEF Next
<1>2. CASE UNCHANGED vars
  <2>1. Scoped' = Scoped
    BY <1>2 DEF vars, Scoped
  <2>2. ScopesMatchCalls'
    BY <1>2, <2>1 DEF vars, Inv, ScopesMatchCalls
  <2>3. Shape'
    BY <1>2 DEF vars, Inv, Shape, Types, Top
  <2>4. Untouched'
    BY <1>2 DEF vars, Inv, Untouched, Top
  <2> QED
    BY <1>2, <2>2, <2>3, <2>4 DEF Inv
<1> QED
  BY <1>1, <1>2

\* The three parts together hold in every state.
THEOREM InvHolds == Spec => []Inv
<1>1. Init => Inv
  BY InitInv
<1>2. Inv /\ [Next]_vars => Inv'
  BY NextInv
<1> QED
  BY <1>1, <1>2, PTL DEF Spec

\* Every call on the stack is one of an operation, is at a label of operator(),
\* has a part left to call, and waits in its execute for the call it has made:
\* so it is however the operations are built from each other.
THEOREM TypeCorrect == Spec => []TypeOK
<1>1. Inv => TypeOK
  <2> SUFFICES ASSUME Inv PROVE TypeOK
    OBVIOUS
  <2>1. Shape /\ stack \in Seq(Frames) /\ returned \in Outcomes
    BY DEF Inv, Shape, Types
  <2>2. ASSUME NEW k \in 1 .. Len(stack)
        PROVE  /\ stack[k].op \in Op /\ stack[k].at \in Labels
               /\ kind[stack[k].op] = "edit" \/ stack[k].i \in 1 .. Len(stack[k].order)
    <3>1. stack[k] \in Frames /\ FrameFits(stack[k])
      BY <2>1, ElementOfSeq DEF Shape
    <3> QED
      BY <3>1 DEF Frames, FrameFits
  <2>3. \A k \in 1 .. Len(stack) - 1 :
            stack[k].at = "execute" /\ stack[k].order[stack[k].i] = stack[k + 1].op
    BY <2>1 DEF Shape, Waits
  <2> QED
    BY <2>1, <2>2, <2>3 DEF TypeOK, Outcomes
<1> QED
  BY <1>1, InvHolds, PTL

\* The open scopes and the calls that have opened one correspond, in number
\* and order, and each scope holds what its call found: also while a failure
\* or an exception closes them one after the other.
THEOREM ScopesAlwaysMatch == Spec => []ScopesMatchCalls
<1>1. Inv => ScopesMatchCalls
  BY DEF Inv
<1> QED
  BY <1>1, InvHolds, PTL

\* An operation that returns no simplices has left nothing behind, whatever it
\* has called and however deep it is nested.
THEOREM FailuresLeaveNothing == Spec => FailureLeavesNothing
<1>1. Inv /\ [Next]_vars => [Leaves]_vars
  BY NextInv
<1>2. Spec => [][Leaves]_vars
  BY <1>1, InvHolds, PTL DEF Spec
<1> QED
  BY <1>2, PTL DEF Leaves, FailureLeavesNothing

-----------------------------------------------------------------------------
(* Operation.tla implements AtomicOperation.tla: whatever is nested in it, *)
(* a call is one step of its caller.  What an operation may leave is       *)
(* defined in AtomicOperation by recursion over the operations it is built *)
(* from, so the proof is about operations built from finished ones, to any *)
(* depth.                                                                  *)

\* Operations are built from others that are there already.
Built(n, level) ==
    /\ n \in Nat /\ level \in [Op -> 0 .. n]
    /\ \A o \in Op : \A k \in 1 .. Len(parts[o]) : level[parts[o][k]] < level[o]

\* The natural numbers are well-founded; stands in for induction.
LEMMA LeastNatural ==
    ASSUME NEW S \in SUBSET Nat, S # {}
    PROVE  \E r \in S : \A s \in S : r <= s
<1> DEFINE less == {pair \in Nat \X Nat : pair[1] < pair[2]}
<1>1. OpToRel(<, Nat) = less
  BY DEF OpToRel
<1>2. IsWellFoundedOn(less, Nat)
  BY <1>1, NatLessThanWellFounded
<1>3. PICK r \in S : \A s \in S : ~ (<<s, r>> \in less)
  <2> HIDE DEF less
  <2> QED
    BY <1>2, WFMin
<1>4. ASSUME NEW s \in S
      PROVE  r <= s
  <2>1. r \in Nat /\ s \in Nat
    OBVIOUS
  <2>2. s < r => <<s, r>> \in less
    BY <2>1
  <2>3. ~ (<<s, r>> \in less)
    BY <1>3
  <2> QED
    BY <2>1, <2>2, <2>3
<1> QED
  BY <1>4

-----------------------------------------------------------------------------
(* What the recursive definitions of AtomicOperation compute.              *)

\* u gives what the first n of the sets in w leave.
Successions(u, w, n) ==
    u = [k \in 0 .. n |-> IF k = 0 THEN {<< >>} ELSE Abstract!Then(u[k - 1], w[k])]

LEMMA SuccessionsExist ==
    ASSUME NEW w, NEW n \in Nat
    PROVE  \E u : Successions(u, w, n)
<1> DEFINE Wrong == {m \in Nat : ~ \E u : Successions(u, w, m)}
<1> SUFFICES ASSUME Wrong # {} PROVE FALSE
  OBVIOUS
<1>1. PICK m \in Wrong : \A l \in Wrong : m <= l
  <2>1. Wrong \in SUBSET Nat
    OBVIOUS
  <2> HIDE DEF Wrong
  <2> QED
    BY <2>1, LeastNatural
<1>2. CASE m = 0
  <2>1. Successions([k \in 0 .. 0 |-> {<< >>}], w, 0)
    BY DEF Successions
  <2> QED
    BY <1>1, <1>2, <2>1
<1>3. CASE m # 0
  <2>1. m - 1 \in Nat /\ ~ (m <= m - 1)
    BY <1>1, <1>3
  <2>2. PICK u : Successions(u, w, m - 1)
    BY <1>1, <2>1
  <2> DEFINE v == [k \in 0 .. m |-> IF k = m THEN Abstract!Then(u[m - 1], w[m]) ELSE u[k]]
  <2>3. ASSUME NEW k \in 0 .. m
        PROVE  v[k] = IF k = 0 THEN {<< >>} ELSE Abstract!Then(v[k - 1], w[k])
    <3>1. CASE k = m
      BY <1>3, <2>1, <3>1
    <3>2. CASE k # m
      <4>1. k \in 0 .. m - 1 /\ v[k] = u[k] /\ (k # 0 => v[k - 1] = u[k - 1])
        BY <1>1, <2>1, <3>2
      <4>2. u[k] = IF k = 0 THEN {<< >>} ELSE Abstract!Then(u[k - 1], w[k])
        BY <2>2, <4>1 DEF Successions
      <4> QED
        BY <4>1, <4>2
    <3> QED
      BY <3>1, <3>2
  <2>4. v = [k \in 0 .. m |-> v[k]]
    OBVIOUS
  <2> HIDE DEF v
  <2>5. Successions(v, w, m)
    BY <2>3, <2>4 DEF Successions
  <2> QED
    BY <1>1, <2>5
<1> QED
  BY <1>2, <1>3

LEMMA SuccessiveSets ==
    ASSUME NEW w, Len(w) \in Nat
    PROVE  /\ Abstract!Successive(w)[0] = {<< >>}
           /\ \A k \in 1 .. Len(w) :
                 Abstract!Successive(w)[k] = Abstract!Then(Abstract!Successive(w)[k - 1], w[k])
<1>1. Abstract!Successive(w) = CHOOSE u : Successions(u, w, Len(w))
  BY DEF Abstract!Successive, Successions
<1>2. Successions(Abstract!Successive(w), w, Len(w))
  BY <1>1, SuccessionsExist
<1> DEFINE u == Abstract!Successive(w)
<1> HIDE DEF u
<1>3. u = [k \in 0 .. Len(w) |-> IF k = 0 THEN {<< >>} ELSE Abstract!Then(u[k - 1], w[k])]
  BY <1>2 DEF Successions, u
<1>4. \A k \in 0 .. Len(w) :
         u[k] = IF k = 0 THEN {<< >>} ELSE Abstract!Then(u[k - 1], w[k])
  BY <1>3, Zenon
<1>5. u[0] = {<< >>} /\ \A k \in 1 .. Len(w) : u[k] = Abstract!Then(u[k - 1], w[k])
  BY <1>4
<1> QED
  BY <1>5 DEF u

\* What each part of an operation leaves, by a table of what operations leave.
Each(f, o) == [k \in 1 .. Len(parts[o]) |-> f[parts[o][k]]]

Succeeded(f, o) == Abstract!Then(Abstract!Finished(o, Each(f, o)), Abstract!Transfer(o))

Escaped(f, o) ==
    IF ~Abstract!IsSequence(o) THEN {<< >>}
    ELSE Abstract!Then(Abstract!Finished(o, Each(Abstract!Success, o)), Abstract!Torn(o))
         \cup UNION {Abstract!Then(Abstract!Prior(o, Each(Abstract!Success, o), k), Each(f, o)[k]) :
                        k \in 1 .. Len(parts[o])}

LEMMA SuccessChosen ==
    Abstract!Success = CHOOSE f : f = [o \in Op |-> Succeeded(f, o)]
BY DEF Abstract!Success, Succeeded, Each

LEMMA ThrownChosen ==
    Abstract!Thrown = CHOOSE f : f = [o \in Op |-> Escaped(f, o)]
BY DEF Abstract!Thrown, Escaped, Each

Below(level, m) == {o \in Op : level[o] < m}

LEMMA PartsBelow ==
    ASSUME NEW n, NEW level, Built(n, level), NEW m \in Nat,
           NEW o \in Below(level, m), NEW k \in 1 .. Len(parts[o])
    PROVE  /\ parts[o][k] \in Below(level, m - 1) /\ parts[o][k] \in Below(level, m)
           /\ m # 0
<1>1. o \in Op /\ parts[o] \in Seq(Op) /\ parts[o][k] \in Op
  BY TreeAssumption, ElementOfSeq DEF Below
<1>2. level[parts[o][k]] < level[o] /\ level[o] < m /\ level[o] \in Nat /\ level[parts[o][k]] \in Nat
  BY <1>1 DEF Built, Below
<1> QED
  BY <1>1, <1>2 DEF Below

\* The equations of Success and Thrown can be solved, level by level.
LEMMA SuccessExists ==
    ASSUME NEW n, NEW level, Built(n, level)
    PROVE  \E f : f = [o \in Op |-> Succeeded(f, o)]
<1> DEFINE Wrong == {m \in Nat : ~ \E g : g = [o \in Below(level, m) |-> Succeeded(g, o)]}
<1>1. Wrong = {}
  <2> SUFFICES ASSUME Wrong # {} PROVE FALSE
    OBVIOUS
  <2>1. PICK m \in Wrong : \A l \in Wrong : m <= l
    <3>1. Wrong \in SUBSET Nat
      OBVIOUS
    <3> HIDE DEF Wrong
    <3> QED
      BY <3>1, LeastNatural
  <2>2. PICK g : m # 0 => g = [o \in Below(level, m - 1) |-> Succeeded(g, o)]
    <3>1. m # 0 => m - 1 \in Nat /\ ~ (m <= m - 1)
      BY <2>1
    <3> QED
      BY <2>1, <3>1
  <2> DEFINE h == [o \in Below(level, m) |-> Succeeded(g, o)]
  <2>3. ASSUME NEW o \in Below(level, m)
        PROVE  Succeeded(h, o) = Succeeded(g, o)
    <3>1. ASSUME NEW k \in 1 .. Len(parts[o])
          PROVE  h[parts[o][k]] = g[parts[o][k]]
      <4>1. /\ parts[o][k] \in Below(level, m - 1) /\ parts[o][k] \in Below(level, m)
            /\ m # 0
        BY <2>1, PartsBelow
      <4> QED
        BY <2>2, <4>1
    <3> HIDE DEF h
    <3>2. Each(h, o) = Each(g, o)
      BY <3>1 DEF Each
    <3> QED
      BY <3>2 DEF Succeeded
  <2>4. h = [o \in Below(level, m) |-> Succeeded(h, o)]
    BY <2>3
  <2> QED
    BY <2>1, <2>4
<1>2. n + 1 \in Nat /\ n + 1 \notin Wrong
  BY <1>1 DEF Built
<1>3. Op = Below(level, n + 1)
  BY DEF Built, Below
<1> QED
  BY <1>2, <1>3

LEMMA ThrownExists ==
    ASSUME NEW n, NEW level, Built(n, level)
    PROVE  \E f : f = [o \in Op |-> Escaped(f, o)]
<1> DEFINE Wrong == {m \in Nat : ~ \E g : g = [o \in Below(level, m) |-> Escaped(g, o)]}
<1>1. Wrong = {}
  <2> SUFFICES ASSUME Wrong # {} PROVE FALSE
    OBVIOUS
  <2>1. PICK m \in Wrong : \A l \in Wrong : m <= l
    <3>1. Wrong \in SUBSET Nat
      OBVIOUS
    <3> HIDE DEF Wrong
    <3> QED
      BY <3>1, LeastNatural
  <2>2. PICK g : m # 0 => g = [o \in Below(level, m - 1) |-> Escaped(g, o)]
    <3>1. m # 0 => m - 1 \in Nat /\ ~ (m <= m - 1)
      BY <2>1
    <3> QED
      BY <2>1, <3>1
  <2> DEFINE h == [o \in Below(level, m) |-> Escaped(g, o)]
  <2>3. ASSUME NEW o \in Below(level, m)
        PROVE  Escaped(h, o) = Escaped(g, o)
    <3>1. ASSUME NEW k \in 1 .. Len(parts[o])
          PROVE  h[parts[o][k]] = g[parts[o][k]]
      <4>1. /\ parts[o][k] \in Below(level, m - 1) /\ parts[o][k] \in Below(level, m)
            /\ m # 0
        BY <2>1, PartsBelow
      <4> QED
        BY <2>2, <4>1
    <3> HIDE DEF h
    <3>2. Each(h, o) = Each(g, o)
      BY <3>1 DEF Each
    <3> QED
      BY <3>2 DEF Escaped
  <2>4. h = [o \in Below(level, m) |-> Escaped(h, o)]
    BY <2>3
  <2> QED
    BY <2>1, <2>4
<1>2. n + 1 \in Nat /\ n + 1 \notin Wrong
  BY <1>1 DEF Built
<1>3. Op = Below(level, n + 1)
  BY DEF Built, Below
<1> QED
  BY <1>2, <1>3

\* Some operation of a set is built from operations outside of it.
LEMMA Innermost ==
    ASSUME NEW n, NEW level, Built(n, level), NEW S \in SUBSET Op, S # {}
    PROVE  \E o \in S : \A k \in 1 .. Len(parts[o]) : parts[o][k] \in Op \ S
<1> DEFINE L == {level[o] : o \in S}
<1>1. L \in SUBSET Nat /\ L # {}
  BY DEF Built
<1>2. PICK l \in L : \A m \in L : l <= m
  <2> HIDE DEF L
  <2> QED
    BY <1>1, LeastNatural
<1>3. PICK o \in S : level[o] = l
  BY <1>2
<1>4. ASSUME NEW k \in 1 .. Len(parts[o]), parts[o][k] \in S
      PROVE  FALSE
  <2>1. level[parts[o][k]] < l /\ level[parts[o][k]] \in Nat /\ l \in Nat
    BY <1>3, <1>4 DEF Built
  <2>2. level[parts[o][k]] \in L
    BY <1>4
  <2>3. l <= level[parts[o][k]]
    BY <1>2, <2>2
  <2> QED
    BY <2>1, <2>3
<1>5. \A k \in 1 .. Len(parts[o]) : parts[o][k] \in Op
  BY TreeAssumption, ElementOfSeq
<1> QED
  BY <1>4, <1>5

LEMMA SuccessIs ==
    ASSUME NEW n, NEW level, Built(n, level), NEW o \in Op
    PROVE  Abstract!Success[o] = Succeeded(Abstract!Success, o)
<1> DEFINE f == Abstract!Success
<1>1. f = [p \in Op |-> Succeeded(f, p)]
  BY SuccessChosen, SuccessExists
<1> HIDE DEF f
<1>2. f[o] = Succeeded(f, o)
  BY <1>1
<1> QED
  BY <1>2 DEF f

LEMMA ThrownIs ==
    ASSUME NEW n, NEW level, Built(n, level), NEW o \in Op
    PROVE  Abstract!Thrown[o] = Escaped(Abstract!Thrown, o)
<1> DEFINE f == Abstract!Thrown
<1>1. f = [p \in Op |-> Escaped(f, p)]
  BY ThrownChosen, ThrownExists
<1> HIDE DEF f
<1>2. f[o] = Escaped(f, o)
  BY <1>1
<1> QED
  BY <1>2 DEF f

LEMMA ThenTyped ==
    ASSUME NEW S \in SUBSET Values, NEW T \in SUBSET Values
    PROVE  Abstract!Then(S, T) \in SUBSET Values
<1>1. ASSUME NEW s \in S, NEW t \in T
      PROVE  s \o t \in Values
  <2>1. s \in Values /\ t \in Values
    OBVIOUS
  <2> QED
    BY <2>1, ConcatProperties DEF Values
<1>2. Abstract!Then(S, T) = {s \o t : s \in S, t \in T}
  BY DEF Abstract!Then
<1>3. \A x \in Abstract!Then(S, T) : \E s \in S, t \in T : x = s \o t
  BY <1>2
<1> QED
  BY <1>1, <1>3

LEMMA TokenTyped ==
    ASSUME NEW o \in Op, NEW token \in {"edit", "torn", "transfer"}
    PROVE  << <<o, token>> >> \in Values
BY DEF Values

\* A list of n sets of values.
Listed(w, n) == n \in Nat /\ Len(w) = n /\ \A k \in 1 .. n : w[k] \in SUBSET Values

LEMMA SuccessiveTyped ==
    ASSUME NEW w, NEW n, Listed(w, n), NEW k \in 0 .. n
    PROVE  Abstract!Successive(w)[k] \in SUBSET Values
<1> DEFINE u == Abstract!Successive(w)
           Wrong == {m \in 0 .. n : u[m] \notin SUBSET Values}
<1>1. u[0] = {<< >>} /\ \A m \in 1 .. n : u[m] = Abstract!Then(u[m - 1], w[m])
  BY SuccessiveSets DEF Listed
<1>2. n \in Nat /\ \A m \in 1 .. n : w[m] \in SUBSET Values
  BY DEF Listed
<1> HIDE DEF u
<1>3. Wrong = {}
  <2> SUFFICES ASSUME Wrong # {} PROVE FALSE
    OBVIOUS
  <2>1. PICK m \in Wrong : \A l \in Wrong : m <= l
    <3>1. Wrong \in SUBSET Nat
      BY <1>2
    <3> HIDE DEF Wrong
    <3> QED
      BY <3>1, LeastNatural
  <2>2. CASE m = 0
    <3>1. << >> \in Values
      BY DEF Values
    <3> QED
      BY <1>1, <2>1, <2>2, <3>1
  <2>3. CASE m # 0
    <3>1. m \in 1 .. n /\ m - 1 \in 0 .. n /\ ~ (m <= m - 1)
      BY <1>2, <2>1, <2>3
    <3>2. u[m - 1] \in SUBSET Values
      BY <2>1, <3>1
    <3>3. u[m] \in SUBSET Values
      BY <1>1, <1>2, <3>1, <3>2, ThenTyped
    <3> QED
      BY <2>1, <3>3
  <2> QED
    BY <2>2, <2>3
<1>4. u[k] \in SUBSET Values
  BY <1>3
<1> QED
  BY <1>4 DEF u

LEMMA FinishedTyped ==
    ASSUME NEW o \in Op, NEW w, Listed(w, Len(parts[o]))
    PROVE  /\ Abstract!Finished(o, w) \in SUBSET Values
           /\ \A k \in 1 .. Len(parts[o]) : Abstract!Prior(o, w, k) \in SUBSET Values
<1> DEFINE n == Len(parts[o])
<1>1. n \in Nat /\ Len(w) = n /\ \A k \in 1 .. n : w[k] \in SUBSET Values
  BY DEF Listed
<1>2. \A k \in 0 .. n : Abstract!Successive(w)[k] \in SUBSET Values
  BY SuccessiveTyped
<1>3. n \in 0 .. n /\ \A k \in 1 .. n : k \in 0 .. n /\ k - 1 \in 0 .. n
  BY <1>1
<1>4. << >> \in Values /\ << <<o, "edit">> >> \in Values
  BY TokenTyped DEF Values
<1>5. kind[o] \in {"edit", "composite", "and", "or", "min"}
  BY TreeAssumption
<1> HIDE DEF n
<1>6. Abstract!Finished(o, w) \in SUBSET Values
  <2>1. CASE kind[o] = "edit"
    BY <1>4, <2>1 DEF Abstract!Finished
  <2>2. CASE kind[o] = "composite"
    BY <1>1, <1>2, <1>3, <2>2 DEF Abstract!Finished
  <2>3. CASE kind[o] = "and"
    BY <1>1, <1>2, <1>3, <2>3 DEF Abstract!Finished
  <2>4. CASE kind[o] \in {"or", "min"}
    BY <1>1, <2>4 DEF Abstract!Finished
  <2> QED
    BY <1>5, <2>1, <2>2, <2>3, <2>4
<1>7. \A k \in 1 .. n : Abstract!Prior(o, w, k) \in SUBSET Values
  BY <1>2, <1>3, <1>4 DEF Abstract!Prior
<1> QED
  BY <1>6, <1>7 DEF n

\* What each part of operation o leaves when it succeeds.
Parts(o) == Each(Abstract!Success, o)

LEMMA SuccessTyped ==
    ASSUME NEW n, NEW level, Built(n, level), NEW o \in Op
    PROVE  Abstract!Success[o] \in SUBSET Values /\ Listed(Parts(o), Len(parts[o]))
<1> DEFINE Bad == {p \in Op : Abstract!Success[p] \notin SUBSET Values}
<1>1. ASSUME NEW p \in Op, \A k \in 1 .. Len(parts[p]) : parts[p][k] \in Op \ Bad
      PROVE  Listed(Parts(p), Len(parts[p]))
  <2>1. Len(parts[p]) \in Nat
    BY TreeAssumption, LenProperties
  <2>2. Len(Parts(p)) = Len(parts[p])
    BY <2>1 DEF Parts, Each
  <2>3. ASSUME NEW k \in 1 .. Len(parts[p]) PROVE Parts(p)[k] \in SUBSET Values
    <3>1. Parts(p)[k] = Abstract!Success[parts[p][k]]
      BY DEF Parts, Each
    <3> QED
      BY <1>1, <3>1
  <2> QED
    BY <2>1, <2>2, <2>3 DEF Listed
<1>2. Bad = {}
  <2> SUFFICES ASSUME Bad # {} PROVE FALSE
    OBVIOUS
  <2>1. PICK p \in Bad : \A k \in 1 .. Len(parts[p]) : parts[p][k] \in Op \ Bad
    <3>1. Bad \in SUBSET Op
      OBVIOUS
    <3> HIDE DEF Bad
    <3> QED
      BY <3>1, Innermost
  <2>2. p \in Op
    OBVIOUS
  <2>3. Abstract!Finished(p, Parts(p)) \in SUBSET Values
    BY <1>1, <2>1, <2>2, FinishedTyped
  <2>4. Abstract!Transfer(p) \in SUBSET Values
    BY <2>2, TokenTyped DEF Abstract!Transfer
  <2>5. Abstract!Success[p] = Abstract!Then(Abstract!Finished(p, Parts(p)), Abstract!Transfer(p))
    BY <2>2, SuccessIs DEF Succeeded, Parts
  <2> QED
    BY <2>1, <2>3, <2>4, <2>5, ThenTyped
<1>3. \A k \in 1 .. Len(parts[o]) : parts[o][k] \in Op
  BY TreeAssumption, ElementOfSeq
<1> QED
  BY <1>1, <1>2, <1>3

LEMMA Prefixed ==
    ASSUME NEW T \in SUBSET Values
    PROVE  Abstract!Then({<< >>}, T) = T
<1>1. \A t \in T : << >> \o t = t
  BY ConcatEmptySeq DEF Values
<1>2. Abstract!Then({<< >>}, T) = {<< >> \o t : t \in T}
  BY DEF Abstract!Then
<1> QED
  BY <1>1, <1>2

\* An exception may always leave nothing: the first part may have refused.
LEMMA ThrownTyped ==
    ASSUME NEW n, NEW level, Built(n, level), NEW o \in Op
    PROVE  Abstract!Thrown[o] \in SUBSET Values /\ << >> \in Abstract!Thrown[o]
<1> DEFINE Good(p) == Abstract!Thrown[p] \in SUBSET Values /\ << >> \in Abstract!Thrown[p]
           Bad == {p \in Op : ~ Good(p)}
<1>1. ASSUME NEW p \in Op, \A k \in 1 .. Len(parts[p]) : parts[p][k] \in Op \ Bad
      PROVE  Good(p)
  <2> DEFINE each == Each(Abstract!Thrown, p)
             escaped(k) == Abstract!Then(Abstract!Prior(p, Parts(p), k), each[k])
  <2>1. Abstract!Thrown[p] = Escaped(Abstract!Thrown, p)
    BY ThrownIs
  <2>2. CASE ~ Abstract!IsSequence(p)
    <3>1. Abstract!Thrown[p] = {<< >>}
      BY <2>1, <2>2 DEF Escaped
    <3> QED
      BY <3>1 DEF Values
  <2>3. CASE Abstract!IsSequence(p)
    <3>1. Abstract!Thrown[p] = Abstract!Then(Abstract!Finished(p, Parts(p)), Abstract!Torn(p))
                                 \cup UNION {escaped(k) : k \in 1 .. Len(parts[p])}
      BY <2>1, <2>3 DEF Escaped, Parts
    <3>2. /\ Abstract!Finished(p, Parts(p)) \in SUBSET Values
          /\ \A k \in 1 .. Len(parts[p]) : Abstract!Prior(p, Parts(p), k) \in SUBSET Values
      BY SuccessTyped, FinishedTyped
    <3>3. Abstract!Torn(p) \in SUBSET Values
      BY TokenTyped DEF Abstract!Torn
    <3>4. ASSUME NEW k \in 1 .. Len(parts[p])
          PROVE  each[k] \in SUBSET Values /\ << >> \in each[k]
      <4>1. each[k] = Abstract!Thrown[parts[p][k]]
        BY DEF Each
      <4>2. parts[p][k] \in Op \ Bad
        BY <1>1
      <4> QED
        BY <4>1, <4>2
    <3> HIDE DEF each
    <3>5. \A k \in 1 .. Len(parts[p]) : escaped(k) \in SUBSET Values
      BY <3>2, <3>4, ThenTyped
    <3>6. << >> \in escaped(1) /\ 1 \in 1 .. Len(parts[p])
      <4>1. kind[p] \in {"and", "or", "min"}
        BY <2>3 DEF Abstract!IsSequence
      <4>2. parts[p] \in Seq(Op) /\ parts[p] # << >>
        BY <4>1, TreeAssumption
      <4>3. Len(parts[p]) \in Nat /\ 1 \in 1 .. Len(parts[p])
        BY <4>2, LenProperties, EmptySeq
      <4>4. Abstract!Prior(p, Parts(p), 1) = {<< >>}
        <5>1. Len(Parts(p)) \in Nat
          BY SuccessTyped DEF Listed
        <5>2. Abstract!Successive(Parts(p))[0] = {<< >>} /\ 1 - 1 = 0
          BY <5>1, SuccessiveSets
        <5> QED
          BY <5>2 DEF Abstract!Prior
      <4> QED
        BY <3>4, <4>3, <4>4, Prefixed
    <3>7. Abstract!Then(Abstract!Finished(p, Parts(p)), Abstract!Torn(p)) \in SUBSET Values
      BY <3>2, <3>3, ThenTyped
    <3> HIDE DEF escaped
    <3>8. UNION {escaped(k) : k \in 1 .. Len(parts[p])} \in SUBSET Values
      BY <3>5
    <3>9. << >> \in UNION {escaped(k) : k \in 1 .. Len(parts[p])}
      BY <3>6
    <3> QED
      BY <3>1, <3>7, <3>8, <3>9
  <2> QED
    BY <2>2, <2>3
<1>2. Bad = {}
  <2> SUFFICES ASSUME Bad # {} PROVE FALSE
    OBVIOUS
  <2> HIDE DEF Good
  <2>1. PICK p \in Bad : \A k \in 1 .. Len(parts[p]) : parts[p][k] \in Op \ Bad
    <3>1. Bad \in SUBSET Op
      OBVIOUS
    <3> HIDE DEF Bad
    <3> QED
      BY <3>1, Innermost
  <2> QED
    BY <1>1, <2>1
<1> QED
  BY <1>2

-----------------------------------------------------------------------------
(* What a call has left of its work.                                       *)

After(v, S) == {v \o d : d \in S}

\* What the parts before the one that is tried now, f.order[f.i], have left.
Earlier(f) == Abstract!Prior(f.op, Parts(f.op), f.i)
Tried(f)   == f.order[f.i]

\* Only a Min has another order than the one in which its parts were added.
OrderFits(f) ==
    /\ kind[f.op] # "min" => f.order = parts[f.op]
    /\ \A i \in 1 .. Len(f.order) : \E k \in 1 .. Len(parts[f.op]) : f.order[i] = parts[f.op][k]

\* The work that a call in frame f can have left where it stands, when outcome
\* is what its part has returned.
Accounted(v, f, outcome) ==
    /\ f.at = "before" => f.i = 1
    /\ f.at = "execute" =>
          /\ outcome \in {"none", "empty"} => v \in After(f.entry, Earlier(f))
          /\ outcome = "mods" =>
                v \in After(f.entry, Abstract!Then(Earlier(f), Abstract!Success[Tried(f)]))
          /\ outcome = "throw" =>
                v \in After(f.entry, Abstract!Then(Earlier(f), Abstract!Thrown[Tried(f)]))
    /\ f.at = "transfer" => v \in After(f.entry, Abstract!Finished(f.op, Parts(f.op)))
    /\ f.at \in {"after", "return"} => v \in After(f.entry, Abstract!Success[f.op])
    /\ f.at = "thrown" /\ IsSequence(f.op) => v \in After(f.entry, Abstract!Thrown[f.op])

Origins ==
    /\ \A k \in 1 .. Len(stack) : OrderFits(stack[k])
    /\ \A k \in 1 .. Len(stack) - 1 : stack[k + 1].entry \in After(stack[k].entry, Earlier(stack[k]))
    /\ stack # << >> =>
          /\ stack[1].op \in Root /\ stack[1].entry = << >>
          /\ Accounted(value, Top, returned)

LEMMA AfterNothing ==
    ASSUME NEW v \in Values PROVE After(v, {<< >>}) = {v}
<1>1. v \o << >> = v
  BY ConcatEmptySeq DEF Values
<1> QED
  BY <1>1 DEF After

LEMMA AfterThen ==
    ASSUME NEW v \in Values, NEW S \in SUBSET Values, NEW T \in SUBSET Values,
           NEW x \in After(v, S), NEW y \in After(x, T)
    PROVE  y \in After(v, Abstract!Then(S, T))
<1>1. PICK s \in S : x = v \o s
  BY DEF After
<1>2. PICK t \in T : y = x \o t
  BY DEF After
<1>3. s \in Values /\ t \in Values
  OBVIOUS
<1>4. y = v \o (s \o t)
  <2>1. (v \o s) \o t = v \o (s \o t)
    BY ONLY <1>3, v \in Values, ConcatAssociative DEF Values
  <2> QED
    BY ONLY <1>1, <1>2, <2>1
<1>5. s \o t \in Abstract!Then(S, T)
  BY DEF Abstract!Then
<1> QED
  BY <1>4, <1>5 DEF After

LEMMA AfterToken ==
    ASSUME NEW v \in Values, NEW o \in Op, NEW token \in {"edit", "torn", "transfer"},
           NEW w \in Values, NEW S \in SUBSET Values, w \in After(v, S)
    PROVE  Append(w, <<o, token>>) \in After(v, Abstract!Then(S, {<< <<o, token>> >>}))
<1> DEFINE T == {<< <<o, token>> >>}
<1>1. Append(w, <<o, token>>) = w \o << <<o, token>> >>
  <2>1. w \in Seq(Op \X {"edit", "torn", "transfer"})
    BY DEF Values
  <2>2. <<o, token>> \in Op \X {"edit", "torn", "transfer"}
    OBVIOUS
  <2> QED
    BY <2>1, <2>2, AppendIsConcat
<1>2. Append(w, <<o, token>>) \in After(w, T)
  BY <1>1 DEF After
<1>3. T \in SUBSET Values
  BY TokenTyped
<1> HIDE DEF T
<1>4. Append(w, <<o, token>>) \in After(v, Abstract!Then(S, T))
  BY <1>2, <1>3, AfterThen
<1> QED
  BY <1>4 DEF T

-----------------------------------------------------------------------------
(* What the parts of an operation contribute.                              *)

\* The types of what an operation can leave.
LEMMA LeftTyped ==
    ASSUME NEW n, NEW level, Built(n, level), NEW o \in Op
    PROVE  /\ Abstract!Finished(o, Parts(o)) \in SUBSET Values
           /\ \A k \in 1 .. Len(parts[o]) :
                 /\ parts[o][k] \in Op
                 /\ Abstract!Prior(o, Parts(o), k) \in SUBSET Values
                 /\ Parts(o)[k] = Abstract!Success[parts[o][k]]
<1>1. \A k \in 1 .. Len(parts[o]) : parts[o][k] \in Op
  BY TreeAssumption, ElementOfSeq
<1>2. \A k \in 1 .. Len(parts[o]) : Parts(o)[k] = Abstract!Success[parts[o][k]]
  BY DEF Parts, Each
<1> QED
  BY <1>1, <1>2, SuccessTyped, FinishedTyped

\* A composite and an And go from part to part.
LEMMA ChainRules ==
    ASSUME NEW n, NEW level, Built(n, level), NEW o \in Op, kind[o] \in {"composite", "and"},
           NEW k \in 1 .. Len(parts[o])
    PROVE  LET done == Abstract!Then(Abstract!Prior(o, Parts(o), k), Abstract!Success[parts[o][k]])
           IN  /\ k # Len(parts[o]) => done = Abstract!Prior(o, Parts(o), k + 1)
               /\ k = Len(parts[o]) => done \subseteq Abstract!Finished(o, Parts(o))
               /\ k = 1 => Abstract!Prior(o, Parts(o), k) = {<< >>}
               /\ k # 1 /\ kind[o] = "and" =>
                     Abstract!Prior(o, Parts(o), k) \subseteq Abstract!Finished(o, Parts(o))
<1> DEFINE u == Abstract!Successive(Parts(o))
           done == Abstract!Then(Abstract!Prior(o, Parts(o), k), Abstract!Success[parts[o][k]])
<1>1. Len(parts[o]) \in Nat /\ Len(Parts(o)) = Len(parts[o])
  BY SuccessTyped DEF Listed
<1>2. u[0] = {<< >>} /\ \A j \in 1 .. Len(parts[o]) : u[j] = Abstract!Then(u[j - 1], Parts(o)[j])
  BY <1>1, SuccessiveSets
<1>3. \A j : Abstract!Prior(o, Parts(o), j) = u[j - 1]
  BY DEF Abstract!Prior
<1>4. kind[o] = "and" => Abstract!Finished(o, Parts(o)) = UNION {u[j] : j \in 1 .. Len(parts[o])}
  BY <1>1 DEF Abstract!Finished
<1>5. kind[o] = "composite" => Abstract!Finished(o, Parts(o)) = u[Len(parts[o])]
  BY <1>1 DEF Abstract!Finished
<1>6. done = u[k]
  BY <1>2, <1>3, LeftTyped
<1> HIDE DEF u, done
<1>7. (k + 1) - 1 = k
  BY <1>1
<1>8. k # Len(parts[o]) => done = Abstract!Prior(o, Parts(o), k + 1)
  BY <1>3, <1>6, <1>7
<1>9. k = Len(parts[o]) => done \subseteq Abstract!Finished(o, Parts(o))
  BY <1>4, <1>5, <1>6
<1>10. k = 1 => Abstract!Prior(o, Parts(o), k) = {<< >>}
  BY <1>2, <1>3
<1>11. k # 1 /\ kind[o] = "and" =>
          Abstract!Prior(o, Parts(o), k) \subseteq Abstract!Finished(o, Parts(o))
  <2>1. k # 1 => k - 1 \in 1 .. Len(parts[o])
    BY <1>1
  <2> QED
    BY <1>3, <1>4, <2>1
<1> QED
  BY <1>8, <1>9, <1>10, <1>11 DEF done

\* An Or and a Min start anew with each part.
LEMMA ChoiceRules ==
    ASSUME NEW n, NEW level, Built(n, level), NEW o \in Op, kind[o] \in {"or", "min"}
    PROVE  /\ \A k : Abstract!Prior(o, Parts(o), k) = {<< >>}
           /\ \A k \in 1 .. Len(parts[o]) :
                 Abstract!Success[parts[o][k]] \subseteq Abstract!Finished(o, Parts(o))
<1>1. \A k : Abstract!Prior(o, Parts(o), k) = {<< >>}
  BY DEF Abstract!Prior
<1>2. Len(Parts(o)) = Len(parts[o])
  BY SuccessTyped DEF Listed
<1>3. Abstract!Finished(o, Parts(o)) = UNION {Parts(o)[k] : k \in 1 .. Len(parts[o])}
  BY <1>2 DEF Abstract!Finished
<1> QED
  BY <1>1, <1>3, LeftTyped

\* How success and exceptions leave an operation.
LEMMA EndRules ==
    ASSUME NEW n, NEW level, Built(n, level), NEW o \in Op
    PROVE  /\ Abstract!Success[o] = Abstract!Then(Abstract!Finished(o, Parts(o)),
                                                  {<< <<o, "transfer">> >>})
           /\ ~IsSequence(o) => Abstract!Thrown[o] = {<< >>}
           /\ IsSequence(o) =>
                 /\ Abstract!Then(Abstract!Finished(o, Parts(o)), {<< <<o, "torn">> >>})
                       \subseteq Abstract!Thrown[o]
                 /\ \A k \in 1 .. Len(parts[o]) :
                       Abstract!Then(Abstract!Prior(o, Parts(o), k), Abstract!Thrown[parts[o][k]])
                          \subseteq Abstract!Thrown[o]
<1>1. Abstract!Success[o] = Succeeded(Abstract!Success, o)
  BY SuccessIs
<1>2. Abstract!Thrown[o] = Escaped(Abstract!Thrown, o)
  BY ThrownIs
<1>3. Abstract!IsSequence(o) <=> IsSequence(o)
  BY DEF Abstract!IsSequence, IsSequence
<1>4. ~IsSequence(o) => Abstract!Thrown[o] = {<< >>}
  BY <1>2, <1>3 DEF Escaped
<1>5. ASSUME IsSequence(o)
      PROVE  /\ Abstract!Then(Abstract!Finished(o, Parts(o)), {<< <<o, "torn">> >>})
                  \subseteq Abstract!Thrown[o]
             /\ \A k \in 1 .. Len(parts[o]) :
                   Abstract!Then(Abstract!Prior(o, Parts(o), k), Abstract!Thrown[parts[o][k]])
                      \subseteq Abstract!Thrown[o]
  <2> DEFINE escaped(k) == Abstract!Then(Abstract!Prior(o, Parts(o), k), Each(Abstract!Thrown, o)[k])
  <2>1. Abstract!Thrown[o] = Abstract!Then(Abstract!Finished(o, Parts(o)), Abstract!Torn(o))
                               \cup UNION {escaped(k) : k \in 1 .. Len(parts[o])}
    BY <1>2, <1>3, <1>5 DEF Escaped, Parts
  <2>2. \A k \in 1 .. Len(parts[o]) :
           escaped(k) = Abstract!Then(Abstract!Prior(o, Parts(o), k), Abstract!Thrown[parts[o][k]])
    BY DEF Each
  <2> HIDE DEF escaped
  <2> QED
    BY <2>1, <2>2 DEF Abstract!Torn
<1>6. Abstract!Success[o] = Abstract!Then(Abstract!Finished(o, Parts(o)),
                                          {<< <<o, "transfer">> >>})
  BY <1>1 DEF Succeeded, Parts, Abstract!Transfer
<1> QED
  BY <1>4, <1>5, <1>6

-----------------------------------------------------------------------------
(* The invariant Origins, by what a step does with the innermost call; a   *)
(* step inside of a call stutters in AtomicOperation.                      *)

Fits == Origins' /\ [Abstract!Next]_(Abstract!vars)

LEMMA Stutters ==
    ASSUME stack # << >>, stack' # << >>, stack'[1].op = stack[1].op
    PROVE  UNCHANGED Abstract!vars
BY DEF Abstract!vars

LEMMA FrameKept ==
    ASSUME NEW f \in Frames, NEW at \in Labels, NEW i \in Nat \ {0}, NEW order \in Seq(Op)
    PROVE  LET g == [f EXCEPT !.at = at, !.i = i, !.order = order]
           IN  g \in Frames /\ g.op = f.op /\ g.entry = f.entry
                /\ g.at = at /\ g.i = i /\ g.order = order
BY DEF Frames

LEMMA TopFits ==
    ASSUME Types, Origins, stack # << >>,
           NEW at \in Labels, NEW i \in Nat \ {0}, NEW order \in Seq(Op),
           TopBecomes(at, i, order),
           OrderFits([Top EXCEPT !.at = at, !.i = i, !.order = order]),
           Accounted(value', [Top EXCEPT !.at = at, !.i = i, !.order = order], returned')
    PROVE  Fits
<1> DEFINE f == [Top EXCEPT !.at = at, !.i = i, !.order = order]
<1>1. Len(stack) \in Nat \ {0} /\ Top \in Frames /\ Top = stack[Len(stack)]
  BY TopFrame DEF Top
<1>2. f.op = Top.op /\ f.entry = Top.entry
  BY <1>1 DEF Frames
<1>3. /\ Len(stack') = Len(stack) /\ stack'[Len(stack)] = f
      /\ \A k \in 1 .. Len(stack) - 1 : stack'[k] = stack[k]
  BY DEF TopBecomes
<1>4. OrderFits(f) /\ Accounted(value', f, returned')
  OBVIOUS
<1> HIDE DEF f
<1>5. stack' # << >>
  BY <1>1, <1>3
<1>6. \A k \in 1 .. Len(stack) :
         stack'[k].op = stack[k].op /\ stack'[k].entry = stack[k].entry
  <2> SUFFICES ASSUME NEW k \in 1 .. Len(stack)
               PROVE  stack'[k].op = stack[k].op /\ stack'[k].entry = stack[k].entry
    OBVIOUS
  <2>1. CASE k = Len(stack)
    BY <1>1, <1>2, <1>3, <2>1
  <2>2. CASE k # Len(stack)
    BY <1>1, <1>3, <2>2
  <2> QED
    BY <2>1, <2>2
<1>7. ASSUME NEW k \in 1 .. Len(stack') PROVE OrderFits(stack'[k])
  <2>1. CASE k = Len(stack)
    BY <1>3, <1>4, <2>1
  <2>2. CASE k # Len(stack)
    <3>1. k \in 1 .. Len(stack) - 1 /\ k \in 1 .. Len(stack)
      BY <1>1, <1>3, <2>2
    <3>2. stack'[k] = stack[k] /\ OrderFits(stack[k])
      BY <1>3, <3>1 DEF Origins
    <3> QED
      BY <3>2
  <2> QED
    BY <2>1, <2>2
<1>8. ASSUME NEW k \in 1 .. Len(stack') - 1
      PROVE  stack'[k + 1].entry \in After(stack'[k].entry, Earlier(stack'[k]))
  <2>1. k \in 1 .. Len(stack) - 1 /\ k + 1 \in 1 .. Len(stack)
    BY <1>1, <1>3
  <2>2. stack'[k] = stack[k] /\ stack'[k + 1].entry = stack[k + 1].entry
    BY <1>3, <1>6, <2>1
  <2>3. stack[k + 1].entry \in After(stack[k].entry, Earlier(stack[k]))
    BY <2>1 DEF Origins
  <2> QED
    BY <2>2, <2>3
<1>9. stack'[1].op = stack[1].op /\ stack'[1].entry = stack[1].entry
  BY <1>1, <1>6
<1>10. stack'[1].op \in Root /\ stack'[1].entry = << >>
  BY <1>9 DEF Origins
<1>11. Accounted(value', stack'[Len(stack')], returned')
  BY <1>3, <1>4
<1>12. Origins'
  BY <1>7, <1>8, <1>10, <1>11 DEF Origins, Top
<1> QED
  BY <1>5, <1>9, <1>12, Stutters DEF Fits

\* A call ends, having left in the value what its outcome says.
Ended(o, outcome) ==
    CASE outcome = "mods"  -> Abstract!Success[o]
      [] outcome = "empty" -> {<< >>}
      [] outcome = "throw" -> Abstract!Thrown[o]

LEMMA EndedTyped ==
    ASSUME NEW n, NEW level, Built(n, level), NEW o \in Op, NEW outcome \in {"mods", "empty", "throw"}
    PROVE  Ended(o, outcome) \in SUBSET Values
<1>1. << >> \in Values
  BY DEF Values
<1> QED
  BY <1>1, SuccessTyped, ThrownTyped DEF Ended

LEMMA PopFits ==
    ASSUME NEW n, NEW level, Built(n, level),
           Shape, Origins, stack # << >>, scopes' \in Seq(Values), value' \in Values,
           NEW outcome \in {"mods", "empty", "throw"}, Return(outcome),
           value' \in After(Top.entry, Ended(Top.op, outcome))
    PROVE  Fits
<1> DEFINE m == Len(stack)
<1>0. m = Len(stack)
  OBVIOUS
<1>1. m \in Nat \ {0} /\ Top \in Frames /\ Top = stack[m] /\ FrameFits(Top) /\ Types
  BY TopFrame DEF Top, Shape
<1>2. returned' = outcome /\ outcome \in Outcomes \ {"none"}
  BY DEF Return, Outcomes
<1>3. Shape' /\ Len(stack') = m - 1 /\ \A k \in 1 .. m - 1 : stack'[k] = stack[k]
  BY <1>2, PopShape
<1>4. stack' \in Seq(Frames) /\ Top.op \in Op /\ Top.entry \in Values
  BY <1>1, <1>3 DEF Shape, Types, Frames
<1>5. Ended(Top.op, outcome) \in SUBSET Values
  BY <1>4, EndedTyped
<1> HIDE DEF m
<1>6. CASE m = 1
  <2>1. stack' = << >>
    BY <1>3, <1>4, <1>6, EmptySeq
  <2>2. Top.entry = << >> /\ Top.op \in Root /\ Top = stack[1]
    BY <1>1, <1>6 DEF Origins
  <2>3. After(Top.entry, Ended(Top.op, outcome)) = Ended(Top.op, outcome)
    <3>1. \A d \in Ended(Top.op, outcome) : << >> \o d = d
      BY <1>5, ConcatEmptySeq DEF Values
    <3> QED
      BY <2>2, <3>1 DEF After
  <2>4. value' \in Ended(stack[1].op, outcome)
    BY <2>2, <2>3
  <2>5. stack[1].op # "none"
    BY <2>2, TreeAssumption
  <2>6. \/ returned' = "mods" /\ value' \in Abstract!Success[stack[1].op]
        \/ returned' = "empty" /\ value' = << >>
        \/ returned' = "throw" /\ value' \in Abstract!Thrown[stack[1].op]
    BY <1>2, <2>4 DEF Ended
  <2>7. Abstract!Return
    BY <2>1, <2>5, <2>6 DEF Abstract!Return, Abstract!NoOp
  <2>8. Origins'
    BY <2>1 DEF Origins
  <2> QED
    BY <2>7, <2>8 DEF Fits, Abstract!Next
<1>7. CASE m # 1
  <2> DEFINE f == stack[m - 1]
  <2>1. m - 1 \in 1 .. m - 1 /\ m - 1 \in 1 .. Len(stack) /\ (m - 1) + 1 = m /\ 1 \in 1 .. m - 1
    BY <1>0, <1>1, <1>7
  <2>2. f \in Frames /\ Waits(f) /\ FrameFits(f) /\ Tried(f) = Top.op
    BY <1>1, <2>1, TopFrame DEF Shape, Tried, m
  <2>3. Top.entry \in After(f.entry, Earlier(f))
    BY <1>1, <2>1 DEF Origins, m
  <2>4. f.op \in Op /\ f.entry \in Values /\ f.at = "execute" /\ kind[f.op] # "edit"
        /\ f.i \in 1 .. Len(parts[f.op])
    BY <2>2 DEF Frames, Waits, FrameFits
  <2>5. Earlier(f) \in SUBSET Values
    BY <2>4, LeftTyped DEF Earlier
  <2> HIDE DEF f
  <2>6. value' \in After(f.entry, Abstract!Then(Earlier(f), Ended(Top.op, outcome)))
    BY <1>5, <2>3, <2>4, <2>5, AfterThen
  <2>7. outcome = "empty" => value' \in After(f.entry, Earlier(f))
    <3> SUFFICES ASSUME outcome = "empty" PROVE value' \in After(f.entry, Earlier(f))
      OBVIOUS
    <3>1. Ended(Top.op, outcome) = {<< >>}
      BY DEF Ended
    <3>2. value' = Top.entry
      BY <1>4, <3>1, AfterNothing
    <3> QED
      BY <2>3, <3>2
  <2>8. Accounted(value', f, returned')
    BY <1>2, <2>2, <2>4, <2>6, <2>7 DEF Accounted, Ended
  <2>9. stack' # << >> /\ stack'[Len(stack')] = f
    BY <1>3, <2>1 DEF f
  <2>10. stack'[1] = stack[1] /\ stack[1].op \in Root /\ stack[1].entry = << >>
    BY <1>3, <2>1 DEF Origins
  <2>11. \A k \in 1 .. Len(stack') : OrderFits(stack'[k])
    BY <1>1, <1>3 DEF Origins, m
  <2>12. ASSUME NEW k \in 1 .. Len(stack') - 1
         PROVE  stack'[k + 1].entry \in After(stack'[k].entry, Earlier(stack'[k]))
    <3>1. k \in 1 .. m - 1 /\ k + 1 \in 1 .. m - 1
      BY <1>1, <1>3
    <3>2. stack'[k] = stack[k] /\ stack'[k + 1] = stack[k + 1]
      BY <1>3, <3>1
    <3>3. stack[k + 1].entry \in After(stack[k].entry, Earlier(stack[k]))
      BY <3>1 DEF Origins, m
    <3> QED
      BY <3>2, <3>3
  <2>13. Origins'
    BY <2>8, <2>9, <2>10, <2>11, <2>12 DEF Origins, Top
  <2>14. UNCHANGED Abstract!vars
    BY <2>9, <2>10, Stutters
  <2> QED
    BY <2>13, <2>14 DEF Fits
<1> QED
  BY <1>6, <1>7

-----------------------------------------------------------------------------
(* Every step.                                                             *)

\* A step that moves the innermost call to another label.
LEMMA GoToFits ==
    ASSUME Inv, Origins, stack # << >>,
           NEW label \in {"transfer", "return", "after", "failed", "thrown"}, GoTo(label),
           label = "transfer" => value' \in After(Top.entry, Abstract!Finished(Top.op, Parts(Top.op))),
           label \in {"after", "return"} => value' \in After(Top.entry, Abstract!Success[Top.op]),
           label = "thrown" /\ IsSequence(Top.op) =>
              value' \in After(Top.entry, Abstract!Thrown[Top.op])
    PROVE  Fits
<1> DEFINE f == [Top EXCEPT !.at = label, !.i = Top.i, !.order = Top.order]
<1>1. Types /\ Top \in Frames /\ Len(stack) \in 1 .. Len(stack) /\ label \in Labels
  BY TopFrame DEF Inv, Shape, Labels
<1>2. Top.i \in Nat \ {0} /\ Top.order \in Seq(Op)
  BY <1>1 DEF Frames
<1>3. TopBecomes(label, Top.i, Top.order)
  BY <1>1, GoToWrites
<1>4. f.op = Top.op /\ f.entry = Top.entry /\ f.at = label /\ f.i = Top.i /\ f.order = Top.order
  BY <1>1 DEF Frames
<1>5. OrderFits(Top)
  BY <1>1 DEF Origins, Top
<1> HIDE DEF f
<1>6. OrderFits(f)
  BY <1>4, <1>5 DEF OrderFits
<1>7. Accounted(value', f, returned')
  BY <1>4 DEF Accounted
<1> QED
  BY <1>1, <1>2, <1>3, <1>6, <1>7, TopFits DEF f

LEMMA NextPartFits ==
    ASSUME Inv, Origins, stack # << >>, Waits(Top), NextPart, returned' = "none",
           value' \in After(Top.entry, Abstract!Prior(Top.op, Parts(Top.op), Top.i + 1))
    PROVE  Fits
<1> DEFINE f == [Top EXCEPT !.at = Top.at, !.i = Top.i + 1, !.order = Top.order]
<1>1. Types /\ Top \in Frames /\ Len(stack) \in 1 .. Len(stack)
  BY TopFrame DEF Inv, Shape
<1>2. Top.at \in Labels /\ Top.i + 1 \in Nat \ {0} /\ Top.order \in Seq(Op) /\ Top.at = "execute"
  BY <1>1 DEF Frames, Waits
<1>3. TopBecomes(Top.at, Top.i + 1, Top.order)
  BY <1>1, NextPartWrites
<1>4. /\ f.op = Top.op /\ f.entry = Top.entry /\ f.at = "execute" /\ f.i = Top.i + 1
      /\ f.order = Top.order
  BY <1>1, <1>2 DEF Frames
<1>5. OrderFits(Top)
  BY <1>1 DEF Origins, Top
<1> HIDE DEF f
<1>6. OrderFits(f)
  BY <1>4, <1>5 DEF OrderFits
<1>7. Accounted(value', f, returned')
  BY <1>4 DEF Accounted, Earlier
<1> QED
  BY <1>1, <1>2, <1>3, <1>6, <1>7, TopFits DEF f

LEMMA CallFits ==
    ASSUME Inv, Origins, NEW o \in Root, call(o) PROVE Fits
<1> DEFINE f == [Frame(o) EXCEPT !.entry = << >>]
<1>1. stack = << >> /\ stack' = <<f>> /\ value' = << >> /\ returned' = "none"
  BY DEF call
<1>2. o \in Op /\ << >> \in Values
  BY TreeAssumption, EmptySeq DEF Values
<1>3. f.op = o /\ f.at = "before" /\ f.entry = << >> /\ f.order = parts[o] /\ f.i = 1
  BY <1>2 DEF Frame
<1> HIDE DEF f
<1>4. Len(stack') = 1 /\ stack'[1] = f /\ stack' # << >>
  BY <1>1
<1>5. OrderFits(f)
  BY <1>3 DEF OrderFits
<1>6. Accounted(value', f, returned')
  BY <1>3 DEF Accounted
<1>7. Origins'
  BY <1>3, <1>4, <1>5, <1>6 DEF Origins, Top
<1>8. Abstract!Call(o)
  BY <1>1, <1>3, <1>4 DEF Abstract!Call, Abstract!NoOp
<1> QED
  BY <1>7, <1>8 DEF Fits, Abstract!Next

\* An order of a sequence has the elements of the sequence.
LEMMA OrderElements ==
    ASSUME NEW s \in Seq(Op), NEW order \in Orders(s), NEW i \in 1 .. Len(order)
    PROVE  \E k \in 1 .. Len(s) : order[i] = s[k]
<1>1. PICK p \in Bijection(DOMAIN s, DOMAIN s) : order = [j \in DOMAIN s |-> s[p[j]]]
  BY DEF Orders
<1>2. p \in [DOMAIN s -> DOMAIN s]
  BY <1>1 DEF Bijection, Injection
<1>3. DOMAIN s = 1 .. Len(s) /\ Len(order) = Len(s)
  BY LenProperties, OrdersFit
<1> QED
  BY <1>1, <1>2, <1>3

\* Nothing has been left when the first part is tried.
LEMMA FirstPart ==
    ASSUME NEW n, NEW level, Built(n, level), NEW o \in Op
    PROVE  Abstract!Prior(o, Parts(o), 1) = {<< >>}
<1>1. Len(Parts(o)) \in Nat
  BY SuccessTyped DEF Listed
<1>2. Abstract!Successive(Parts(o))[0] = {<< >>} /\ 1 - 1 = 0
  BY <1>1, SuccessiveSets
<1> QED
  BY <1>2 DEF Abstract!Prior

LEMMA BeforeFits ==
    ASSUME NEW n, NEW level, Built(n, level), Inv, Origins, before_refuses \/ before_accepts
    PROVE  Fits
<1>0. stack # << >> /\ Top.at = "before" /\ returned = "none" /\ value' = value
  BY DEF before_refuses, before_accepts, At
<1>1. /\ Shape /\ Types /\ Top \in Frames /\ Len(stack) \in 1 .. Len(stack)
      /\ scopes \in Seq(Values) /\ value \in Values /\ value = Top.entry
  BY <1>0, TopFrame DEF Inv, Shape, Types, Untouched
<1>2. Top.op \in Op /\ Top.entry \in Values
  BY <1>1 DEF Frames
<1>3. value \in After(Top.entry, {<< >>})
  BY <1>1, AfterNothing
<1>4. CASE before_refuses
  <2>1. scopes' = scopes
    BY <1>4 DEF before_refuses
  <2>2. PICK outcome \in {"empty", "throw"} : Return(outcome)
    BY <1>4 DEF before_refuses
  <2>3. << >> \in Ended(Top.op, outcome)
    BY <1>2, ThrownTyped DEF Ended
  <2>4. value' \in After(Top.entry, Ended(Top.op, outcome))
    BY <1>0, <1>3, <2>3 DEF After
  <2> QED
    BY <1>0, <1>1, <2>1, <2>2, <2>4, PopFits
<1>5. CASE before_accepts
  <2>1. PICK order \in IF kind[Top.op] = "min" THEN Orders(parts[Top.op]) ELSE {parts[Top.op]} :
            stack' = [stack EXCEPT ![Len(stack)].order = order,
                                   ![Len(stack)].at = "execute"]
    BY <1>5 DEF before_accepts
  <2>2. returned' = "none"
    BY <1>0, <1>5 DEF before_accepts
  <2>3. parts[Top.op] \in Seq(Op)
    BY <1>2, TreeAssumption
  <2>4. order \in Seq(Op) /\ (kind[Top.op] # "min" => order = parts[Top.op])
    BY <2>1, <2>3, OrdersFit
  <2>5. \A i \in 1 .. Len(order) : \E k \in 1 .. Len(parts[Top.op]) : order[i] = parts[Top.op][k]
    BY <2>1, <2>3, OrderElements
  <2>6. TopBecomes("execute", Top.i, order)
    BY <1>0, <1>1, <2>1, <2>4, AcceptWrites
  <2> DEFINE f == [Top EXCEPT !.at = "execute", !.i = Top.i, !.order = order]
  <2>7. /\ f.op = Top.op /\ f.at = "execute" /\ f.i = Top.i /\ f.order = order
        /\ f.entry = Top.entry
    BY <1>1 DEF Frames
  <2>8. Top.i = 1 /\ "execute" \in Labels
    BY <1>0 DEF Origins, Accounted, Labels
  <2> HIDE DEF f
  <2>9. OrderFits(f)
    BY <2>4, <2>5, <2>7 DEF OrderFits
  <2>10. Earlier(f) = {<< >>}
    BY <1>2, <2>7, <2>8, FirstPart DEF Earlier
  <2>11. Accounted(value', f, returned')
    BY <1>0, <1>3, <2>2, <2>7, <2>10 DEF Accounted
  <2>12. Top.i \in Nat \ {0}
    BY <2>8
  <2> QED
    BY <1>0, <1>1, <2>4, <2>6, <2>8, <2>9, <2>11, <2>12, TopFits DEF f
<1> QED
  BY <1>4, <1>5

LEMMA ExecuteFits ==
    ASSUME NEW n, NEW level, Built(n, level), Inv, Origins, execute PROVE Fits
<1>0. /\ stack # << >> /\ Top.at = "execute" /\ kind[Top.op] = "edit" /\ returned = "none"
      /\ ~IsSequence(Top.op)
  BY DEF execute, At, IsSequence
<1>1. Types /\ Top \in Frames /\ value \in Values
  BY <1>0, TopFrame DEF Inv, Shape, Types
<1>2. Top.op \in Op /\ Top.entry \in Values
  BY <1>1 DEF Frames
<1>3. value = Top.entry
  <2>1. value \in After(Top.entry, Earlier(Top))
    BY <1>0 DEF Origins, Accounted
  <2>2. Earlier(Top) = {<< >>}
    BY <1>0 DEF Earlier, Abstract!Prior
  <2> QED
    BY <1>2, <2>1, <2>2, AfterNothing
<1>4. CASE Write("edit") /\ GoTo("transfer")
  <2>1. value' = Append(value, <<Top.op, "edit">>)
    BY <1>4 DEF Write
  <2>2. value \in After(Top.entry, {<< >>}) /\ {<< >>} \in SUBSET Values
    <3>1. << >> \in Values
      BY DEF Values
    <3> QED
      BY <1>2, <1>3, <3>1, AfterNothing
  <2> DEFINE T == {<< <<Top.op, "edit">> >>}
  <2>3. value' \in After(Top.entry, Abstract!Then({<< >>}, T))
    BY <1>1, <1>2, <2>1, <2>2, AfterToken
  <2>4. T \in SUBSET Values
    BY <1>2, TokenTyped
  <2>5. T = Abstract!Finished(Top.op, Parts(Top.op))
    BY <1>0 DEF Abstract!Finished
  <2> HIDE DEF T
  <2>6. value' \in After(Top.entry, Abstract!Finished(Top.op, Parts(Top.op)))
    BY <2>3, <2>4, <2>5, Prefixed
  <2> QED
    BY <1>0, <1>4, <2>6, GoToFits
<1>5. CASE GoTo("failed") \/ GoTo("thrown")
  BY <1>0, <1>5, GoToFits
<1> QED
  BY <1>4, <1>5 DEF execute

LEMMA PartFits ==
    ASSUME Inv, Origins, call_part PROVE Fits
<1>0. /\ stack # << >> /\ Top.at = "execute" /\ returned = "none" /\ kind[Top.op] # "edit"
      /\ value' = value /\ returned' = "none"
  BY DEF call_part, At
<1>1. Shape /\ Types /\ Len(stack) \in Nat \ {0} /\ Top \in Frames
  BY <1>0, TopFrame DEF Inv, Shape
<1> DEFINE m == Len(stack)
           o == Top.order[Top.i]
           f == [Frame(o) EXCEPT !.entry = value]
<1>2. /\ Len(stack') = m + 1 /\ \A k \in 1 .. m : stack'[k] = stack[k]
      /\ stack'[m + 1].at = "before" /\ stack'[m + 1].entry = value
  BY <1>1, PartShape
<1>3. stack'[m + 1] = Frame(o)
  BY <1>1 DEF call_part, Types
<1>4. stack'[m + 1].order = parts[o] /\ stack'[m + 1].op = o /\ stack'[m + 1].i = 1
  BY <1>3 DEF Frame
<1>5. m \in Nat \ {0} /\ Top = stack[m]
  BY <1>1 DEF Top
<1> HIDE DEF m, o, f
<1>6. OrderFits(stack'[m + 1]) /\ Accounted(value', stack'[m + 1], returned')
  BY <1>2, <1>4 DEF OrderFits, Accounted
<1>7. value \in After(Top.entry, Earlier(Top))
  BY <1>0 DEF Origins, Accounted
<1>8. ASSUME NEW k \in 1 .. Len(stack') PROVE OrderFits(stack'[k])
  <2>1. k = m + 1 \/ k \in 1 .. m
    BY <1>2, <1>5
  <2> QED
    BY <1>2, <1>6, <2>1 DEF Origins, m
<1>9. ASSUME NEW k \in 1 .. Len(stack') - 1
      PROVE  stack'[k + 1].entry \in After(stack'[k].entry, Earlier(stack'[k]))
  <2>1. CASE k = m
    <3>1. stack'[k] = Top /\ stack'[k + 1].entry = value
      BY <1>2, <1>5, <2>1
    <3> QED
      BY <1>7, <3>1
  <2>2. CASE k # m
    <3>1. k \in 1 .. m - 1 /\ k + 1 \in 1 .. m /\ k \in 1 .. m
      BY <1>2, <1>5, <2>2
    <3>2. stack'[k] = stack[k] /\ stack'[k + 1] = stack[k + 1]
      BY <1>2, <3>1
    <3>3. stack[k + 1].entry \in After(stack[k].entry, Earlier(stack[k]))
      BY <3>1 DEF Origins, m
    <3> QED
      BY <3>2, <3>3
  <2> QED
    BY <2>1, <2>2
<1>10. stack'[1] = stack[1] /\ stack' # << >> /\ stack[1].op \in Root /\ stack[1].entry = << >>
  <2>1. 1 \in 1 .. m
    BY <1>5
  <2>2. stack' # << >>
    BY <1>2, <1>5
  <2> QED
    BY <1>0, <1>2, <2>1, <2>2 DEF Origins
<1>11. stack'[Len(stack')] = stack'[m + 1]
  BY <1>2
<1>12. Origins'
  BY <1>6, <1>8, <1>9, <1>10, <1>11 DEF Origins, Top
<1> QED
  BY <1>0, <1>10, <1>12, Stutters DEF Fits

\* Where a call stands whose part returns.
LEMMA Returned ==
    ASSUME NEW n, NEW level, Built(n, level), Inv, Origins,
           NEW outcome \in {"mods", "empty", "throw"}, PartReturned(outcome)
    PROVE  /\ stack # << >> /\ returned = outcome /\ returned' = "none" /\ Waits(Top)
           /\ Top.op \in Op /\ Top.entry \in Values /\ value \in Values
           /\ kind[Top.op] \in {"composite", "and", "or", "min"}
           /\ Top.i \in 1 .. Len(parts[Top.op]) /\ Len(Top.order) = Len(parts[Top.op])
           /\ kind[Top.op] # "min" => Tried(Top) = parts[Top.op][Top.i]
           /\ \E k \in 1 .. Len(parts[Top.op]) : Tried(Top) = parts[Top.op][k]
           /\ value \in After(Top.entry,
                 CASE outcome = "mods"  -> Abstract!Then(Earlier(Top), Abstract!Success[Tried(Top)])
                   [] outcome = "empty" -> Earlier(Top)
                   [] outcome = "throw" -> Abstract!Then(Earlier(Top), Abstract!Thrown[Tried(Top)]))
<1>1. stack # << >> /\ returned = outcome /\ returned' = "none" /\ outcome # "none"
  BY DEF PartReturned
<1>2. Shape /\ Types /\ Top \in Frames /\ Len(stack) \in 1 .. Len(stack) /\ Waits(Top)
  BY <1>1, TopFrame DEF Inv, Shape
<1>3. FrameFits(Top) /\ OrderFits(Top) /\ value \in Values
  BY <1>2 DEF Shape, Types, Origins, Top
<1>4. Top.op \in Op /\ Top.entry \in Values /\ Top.at = "execute" /\ kind[Top.op] # "edit"
  BY <1>2 DEF Frames, Waits
<1>5. kind[Top.op] \in {"composite", "and", "or", "min"}
  BY <1>4, TreeAssumption
<1>6. Top.i \in 1 .. Len(parts[Top.op]) /\ Len(Top.order) = Len(parts[Top.op])
  BY <1>3, <1>4 DEF FrameFits
<1>7. /\ kind[Top.op] # "min" => Tried(Top) = parts[Top.op][Top.i]
      /\ \E k \in 1 .. Len(parts[Top.op]) : Tried(Top) = parts[Top.op][k]
  BY <1>3, <1>6 DEF OrderFits, Tried
<1>8. Accounted(value, Top, outcome)
  BY <1>1 DEF Origins
<1>9. value \in After(Top.entry,
                 CASE outcome = "mods"  -> Abstract!Then(Earlier(Top), Abstract!Success[Tried(Top)])
                   [] outcome = "empty" -> Earlier(Top)
                   [] outcome = "throw" -> Abstract!Then(Earlier(Top), Abstract!Thrown[Tried(Top)]))
  BY <1>4, <1>8 DEF Accounted
<1> QED
  BY <1>1, <1>2, <1>3, <1>4, <1>5, <1>6, <1>7, <1>9

LEMMA SucceededFits ==
    ASSUME NEW n, NEW level, Built(n, level), Inv, Origins, part_succeeded PROVE Fits
<1>0. PartReturned("mods") /\ value' = value
  BY DEF part_succeeded
<1> DEFINE o == Top.op
           k == Top.i
<1>1. /\ stack # << >> /\ returned' = "none" /\ Waits(Top)
      /\ o \in Op /\ Top.entry \in Values
      /\ kind[o] \in {"composite", "and", "or", "min"}
      /\ k \in 1 .. Len(parts[o]) /\ Len(Top.order) = Len(parts[o])
      /\ kind[o] # "min" => Tried(Top) = parts[o][k]
      /\ \E j \in 1 .. Len(parts[o]) : Tried(Top) = parts[o][j]
      /\ value \in After(Top.entry, Abstract!Then(Earlier(Top), Abstract!Success[Tried(Top)]))
  BY <1>0, Returned
<1>2. Earlier(Top) = Abstract!Prior(o, Parts(o), k)
  BY DEF Earlier
<1>3. IsLast <=> k = Len(parts[o])
  BY <1>1 DEF IsLast
<1>4. IF kind[o] \in {"or", "min"} \/ IsLast THEN GoTo("transfer") ELSE NextPart
  BY DEF part_succeeded
<1>5. CASE kind[o] \in {"or", "min"}
  <2>1. PICK j \in 1 .. Len(parts[o]) : Tried(Top) = parts[o][j]
    BY <1>1
  <2>2. Earlier(Top) = {<< >>} /\ Abstract!Success[Tried(Top)] \subseteq Abstract!Finished(o, Parts(o))
    BY <1>1, <1>2, <1>5, <2>1, ChoiceRules
  <2>3. Abstract!Success[Tried(Top)] \in SUBSET Values
    BY <1>1, <2>1, LeftTyped, SuccessTyped
  <2>4. value \in After(Top.entry, Abstract!Finished(o, Parts(o)))
    BY <1>1, <2>2, <2>3, Prefixed DEF After
  <2>5. GoTo("transfer")
    BY <1>4, <1>5
  <2> QED
    BY <1>0, <1>1, <2>4, <2>5, GoToFits
<1>6. CASE kind[o] \in {"composite", "and"}
  <2> DEFINE done == Abstract!Then(Abstract!Prior(o, Parts(o), k), Abstract!Success[parts[o][k]])
  <2>1. /\ k # Len(parts[o]) => done = Abstract!Prior(o, Parts(o), k + 1)
        /\ k = Len(parts[o]) => done \subseteq Abstract!Finished(o, Parts(o))
    BY <1>1, <1>6, ChainRules
  <2>2. value \in After(Top.entry, done)
    BY <1>1, <1>2, <1>6
  <2> HIDE DEF done
  <2>3. CASE IsLast
    <3>1. value' \in After(Top.entry, Abstract!Finished(o, Parts(o)))
      BY <1>0, <1>3, <2>1, <2>2, <2>3 DEF After
    <3>2. GoTo("transfer")
      BY <1>4, <2>3
    <3> QED
      BY <1>1, <3>1, <3>2, GoToFits
  <2>4. CASE ~IsLast
    <3>1. value' \in After(Top.entry, Abstract!Prior(o, Parts(o), k + 1))
      BY <1>0, <1>3, <2>1, <2>2, <2>4
    <3>2. NextPart
      BY <1>4, <1>6, <2>4
    <3> QED
      BY <1>1, <3>1, <3>2, NextPartFits
  <2> QED
    BY <2>3, <2>4
<1> QED
  BY <1>1, <1>5, <1>6

LEMMA FailedFits ==
    ASSUME NEW n, NEW level, Built(n, level), Inv, Origins, part_failed PROVE Fits
<1>0. PartReturned("empty") /\ value' = value
  BY DEF part_failed
<1> DEFINE o == Top.op
           k == Top.i
<1>1. /\ stack # << >> /\ returned' = "none" /\ Waits(Top)
      /\ o \in Op /\ Top.entry \in Values
      /\ kind[o] \in {"composite", "and", "or", "min"}
      /\ k \in 1 .. Len(parts[o]) /\ Len(Top.order) = Len(parts[o])
      /\ value \in After(Top.entry, Earlier(Top))
  BY <1>0, Returned
<1>2. Earlier(Top) = Abstract!Prior(o, Parts(o), k)
  BY DEF Earlier
<1>3. ASSUME GoTo("failed") PROVE Fits
  BY <1>1, <1>3, GoToFits
<1>4. CASE kind[o] = "composite"
  BY <1>3, <1>4 DEF part_failed
<1>5. CASE kind[o] = "and"
  <2>1. CASE k = 1
    BY <1>3, <1>5, <2>1 DEF part_failed
  <2>2. CASE k # 1
    <3>1. Abstract!Prior(o, Parts(o), k) \subseteq Abstract!Finished(o, Parts(o))
      BY <1>1, <1>5, <2>2, ChainRules
    <3>2. value' \in After(Top.entry, Abstract!Finished(o, Parts(o)))
      BY <1>0, <1>1, <1>2, <3>1 DEF After
    <3>3. GoTo("transfer")
      BY <1>5, <2>2 DEF part_failed
    <3> QED
      BY <1>1, <3>2, <3>3, GoToFits
  <2> QED
    BY <2>1, <2>2
<1>6. CASE kind[o] \in {"or", "min"}
  <2>1. IF IsLast THEN GoTo("failed") ELSE NextPart
    BY <1>6 DEF part_failed
  <2>2. CASE IsLast
    BY <1>3, <2>1, <2>2
  <2>3. CASE ~IsLast
    <3>1. Abstract!Prior(o, Parts(o), k + 1) = Abstract!Prior(o, Parts(o), k)
      BY <1>1, <1>6, ChoiceRules
    <3>2. value' \in After(Top.entry, Abstract!Prior(o, Parts(o), k + 1))
      BY <1>0, <1>1, <1>2, <3>1
    <3>3. NextPart
      BY <2>1, <2>3
    <3> QED
      BY <1>1, <3>2, <3>3, NextPartFits
  <2> QED
    BY <2>2, <2>3
<1> QED
  BY <1>1, <1>4, <1>5, <1>6

LEMMA ThrewFits ==
    ASSUME NEW n, NEW level, Built(n, level), Inv, Origins, part_threw PROVE Fits
<1>0. PartReturned("throw") /\ value' = value /\ GoTo("thrown")
  BY DEF part_threw
<1> DEFINE o == Top.op
           k == Top.i
<1>1. /\ stack # << >> /\ o \in Op
      /\ kind[o] \in {"composite", "and", "or", "min"} /\ k \in 1 .. Len(parts[o])
      /\ kind[o] # "min" => Tried(Top) = parts[o][k]
      /\ \E j \in 1 .. Len(parts[o]) : Tried(Top) = parts[o][j]
      /\ value \in After(Top.entry, Abstract!Then(Earlier(Top), Abstract!Thrown[Tried(Top)]))
  BY <1>0, Returned
<1>2. \A j : Abstract!Prior(o, Parts(o), j) = Abstract!Prior(o, Parts(o), k) \/ kind[o] \notin {"or", "min"}
  BY <1>1, ChoiceRules
<1>3. ASSUME IsSequence(o)
      PROVE  Abstract!Then(Earlier(Top), Abstract!Thrown[Tried(Top)]) \subseteq Abstract!Thrown[o]
  <2>1. \A j \in 1 .. Len(parts[o]) :
           Abstract!Then(Abstract!Prior(o, Parts(o), j), Abstract!Thrown[parts[o][j]])
              \subseteq Abstract!Thrown[o]
    BY <1>1, <1>3, EndRules
  <2>2. PICK j \in 1 .. Len(parts[o]) :
           Tried(Top) = parts[o][j] /\ Earlier(Top) = Abstract!Prior(o, Parts(o), j)
    <3>1. CASE kind[o] = "min"
      BY <1>1, <1>2, <3>1 DEF Earlier
    <3>2. CASE kind[o] # "min"
      BY <1>1, <3>2 DEF Earlier
    <3> QED
      BY <3>1, <3>2
  <2> QED
    BY <2>1, <2>2
<1>4. IsSequence(o) => value' \in After(Top.entry, Abstract!Thrown[o])
  BY <1>0, <1>1, <1>3 DEF After
<1> QED
  BY <1>0, <1>1, <1>4, GoToFits

LEMMA TransferFits ==
    ASSUME NEW n, NEW level, Built(n, level), Inv, Origins, apply_attribute_transfer PROVE Fits
<1>0. stack # << >> /\ Top.at = "transfer"
  BY DEF apply_attribute_transfer, At
<1>1. Types /\ Top \in Frames /\ value \in Values
  BY <1>0, TopFrame DEF Inv, Shape, Types
<1> DEFINE o == Top.op
<1>2. o \in Op /\ Top.entry \in Values
  BY <1>1 DEF Frames
<1>3. value \in After(Top.entry, Abstract!Finished(o, Parts(o)))
  BY <1>0 DEF Origins, Accounted
<1>4. Abstract!Finished(o, Parts(o)) \in SUBSET Values
  BY <1>2, LeftTyped
<1>5. CASE Write("transfer") /\ GoTo(IF IsSequence(Top.op) THEN "return" ELSE "after")
  <2>1. value' = Append(value, <<o, "transfer">>)
    BY <1>5 DEF Write
  <2>2. value' \in After(Top.entry, Abstract!Then(Abstract!Finished(o, Parts(o)),
                                                 {<< <<o, "transfer">> >>}))
    BY <1>1, <1>2, <1>3, <1>4, <2>1, AfterToken
  <2>3. value' \in After(Top.entry, Abstract!Success[o])
    BY <1>2, <2>2, EndRules
  <2>4. PICK label \in {"return", "after"} : GoTo(label)
    BY <1>5
  <2> QED
    BY <1>0, <2>3, <2>4, GoToFits
<1>6. CASE Write("torn") /\ GoTo("thrown")
  <2>1. value' = Append(value, <<o, "torn">>)
    BY <1>6 DEF Write
  <2>2. value' \in After(Top.entry, Abstract!Then(Abstract!Finished(o, Parts(o)), {<< <<o, "torn">> >>}))
    BY <1>1, <1>2, <1>3, <1>4, <2>1, AfterToken
  <2>3. IsSequence(o) => value' \in After(Top.entry, Abstract!Thrown[o])
    BY <1>2, <2>2, EndRules DEF After
  <2> QED
    BY <1>0, <1>6, <2>3, GoToFits
<1> QED
  BY <1>5, <1>6 DEF apply_attribute_transfer

\* A call that ends, whether it succeeds, fails or throws.
LEMMA EndFits ==
    ASSUME NEW n, NEW level, Built(n, level), Inv, Origins,
           sequence_returns \/ after_accepts \/ fail \/ unwind
    PROVE  Fits
<1>0. stack # << >> /\ Top.at \in {"return", "after", "failed", "thrown"}
  BY DEF sequence_returns, after_accepts, fail, unwind, At
<1>1. Shape /\ Types /\ Top \in Frames
  BY <1>0, TopFrame DEF Inv, Shape
<1>2. Top.op \in Op /\ Top.entry \in Values
  BY <1>1 DEF Frames
<1>3. Inv' /\ Leaves
  BY SuccessStep, FailureStep
<1>4. value' \in Values /\ scopes' \in Seq(Values)
  BY <1>3 DEF Inv, Shape, Types
<1>5. ASSUME NEW outcome, Return(outcome)
      PROVE  CallEnds /\ returned' = outcome
  <2>1. stack \in Seq(Frames) /\ Len(stack) \in Nat
    BY <1>1, LenProperties DEF Types
  <2>2. Len(stack') = Len(stack) - 1
    BY <1>0, <1>5, <2>1, Popped DEF Return
  <2> QED
    BY <1>0, <1>5, <2>1, <2>2 DEF CallEnds, Return
<1>6. CASE sequence_returns \/ after_accepts
  <2>1. Return("mods") /\ value' = value /\ Top.at \in {"return", "after"}
    BY <1>6 DEF sequence_returns, after_accepts, At
  <2>2. value' \in After(Top.entry, Ended(Top.op, "mods"))
    BY <1>0, <2>1 DEF Origins, Accounted, Ended
  <2> QED
    BY <1>0, <1>1, <1>4, <2>1, <2>2, PopFits
<1>7. CASE fail
  <2>1. Return("empty")
    BY <1>7 DEF fail
  <2>2. value' = Top.entry
    BY <1>3, <1>5, <2>1 DEF Leaves
  <2>3. value' \in After(Top.entry, Ended(Top.op, "empty"))
    BY <1>2, <2>2, AfterNothing DEF Ended
  <2> QED
    BY <1>0, <1>1, <1>4, <2>1, <2>3, PopFits
<1>8. CASE unwind
  <2>1. Return("throw") /\ Top.at = "thrown"
    BY <1>8 DEF unwind, At
  <2>2. value' \in After(Top.entry, Abstract!Thrown[Top.op])
    <3>1. CASE IsSequence(Top.op)
      <4>1. value' = value
        BY <1>8, <3>1 DEF unwind
      <4> QED
        BY <1>0, <2>1, <3>1, <4>1 DEF Origins, Accounted
    <3>2. CASE ~IsSequence(Top.op)
      <4>1. value' = Top.entry
        BY <1>3, <1>5, <2>1, <3>2 DEF Leaves
      <4>2. Abstract!Thrown[Top.op] = {<< >>}
        BY <1>2, <3>2, EndRules
      <4> QED
        BY <1>2, <4>1, <4>2, AfterNothing
    <3> QED
      BY <3>1, <3>2
  <2>3. value' \in After(Top.entry, Ended(Top.op, "throw"))
    BY <2>2 DEF Ended
  <2> QED
    BY <1>0, <1>1, <1>4, <2>1, <2>3, PopFits
<1> QED
  BY <1>6, <1>7, <1>8

LEMMA NextFits ==
    ASSUME NEW n, NEW level, Built(n, level), Inv, Origins, [Next]_vars PROVE Fits
<1>1. ASSUME NEW o \in Root, call(o) PROVE Fits
  BY <1>1, CallFits
<1>2. CASE before_refuses \/ before_accepts
  BY <1>2, BeforeFits
<1>3. CASE execute
  BY <1>3, ExecuteFits
<1>4. CASE call_part
  BY <1>4, PartFits
<1>5. CASE part_succeeded
  BY <1>5, SucceededFits
<1>6. CASE part_failed
  BY <1>6, FailedFits
<1>7. CASE part_threw
  BY <1>7, ThrewFits
<1>8. CASE apply_attribute_transfer
  BY <1>8, TransferFits
<1>9. CASE after_refuses
  <2>1. stack # << >> /\ Top.at = "after" /\ ~IsSequence(Top.op)
    <3>1. stack # << >> /\ Top.at = "after"
      BY <1>9 DEF after_refuses, At
    <3>2. FrameFits(Top)
      BY <3>1, TopFrame DEF Inv, Shape, Top
    <3> QED
      BY <3>1, <3>2 DEF FrameFits
  <2>2. GoTo("failed") \/ GoTo("thrown")
    BY <1>9 DEF after_refuses
  <2> QED
    BY <2>1, <2>2, GoToFits
<1>10. CASE sequence_returns \/ after_accepts \/ fail \/ unwind
  BY <1>10, EndFits
<1>11. CASE composite_fails
  <2>1. stack # << >> /\ Top.at # "before" /\ ~IsSequence(Top.op)
    BY <1>11 DEF composite_fails, At, IsSequence
  <2>2. GoTo("failed") \/ GoTo("thrown")
    BY <1>11 DEF composite_fails
  <2> QED
    BY <2>1, <2>2, GoToFits
<1>12. CASE UNCHANGED vars
  <2>1. Origins'
    BY <1>12 DEF vars, Origins, Top
  <2>2. UNCHANGED Abstract!vars
    BY <1>12 DEF vars, Abstract!vars
  <2> QED
    BY <2>1, <2>2 DEF Fits
<1> QED
  BY <1>1, <1>2, <1>3, <1>4, <1>5, <1>6, <1>7, <1>8, <1>9, <1>10, <1>11, <1>12 DEF Next, Step

\* Operations are built from finished ones, as their constructors do: no
\* operation is a part of itself, directly or through others.
Hierarchy == \E n : \E level : Built(n, level)

\* The innermost calls account for all work that has been done since the
\* outermost one was called: the work of the parts that have succeeded.
THEOREM WorkAccounted == ASSUME Hierarchy PROVE Spec => []Origins
<1>1. PICK n : \E level : Built(n, level)
  BY DEF Hierarchy
<1>2. PICK level : Built(n, level)
  BY <1>1
<1>3. Init => Origins
  BY DEF Init, Origins
<1>4. Inv /\ Origins /\ [Next]_vars => Origins'
  BY <1>2, NextFits DEF Fits
<1> QED
  BY <1>3, <1>4, InvHolds, PTL DEF Spec

\* Whatever is nested in it, to any depth, a call is one atomic step: a
\* failure leaves nothing, a success the work of the parts that succeeded and
\* nothing else, and an exception what AtomicOperation allows.
THEOREM Refinement == ASSUME Hierarchy PROVE Spec => ImplementsAtomic
<1>1. PICK n : \E level : Built(n, level)
  BY DEF Hierarchy
<1>2. PICK level : Built(n, level)
  BY <1>1
<1>3. Init => Abstract!Init
  BY DEF Init, Abstract!Init, Abstract!NoOp
<1>4. Inv /\ Origins /\ [Next]_vars => [Abstract!Next]_(Abstract!vars)
  BY <1>2, NextFits DEF Fits
<1> QED
  BY <1>3, <1>4, InvHolds, WorkAccounted, PTL DEF Spec, ImplementsAtomic, Abstract!Spec
=============================================================================

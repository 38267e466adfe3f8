---------------------------- MODULE ContainerUtil ----------------------------
(***************************************************************************)
(* The vector helpers of namespace spring (src/rts/System/ContainerUtil.h)*)
(* and the uses they are written for.                                      *)
(*                                                                         *)
(* A std::vector<T> is a sequence over Values, ordered by <.  The loops    *)
(* are RECURSIVE operators that keep the code's 0-based index: element i  *)
(* of the code is vec[i + 1].  Three vectors are operated on, each by the *)
(* helpers meant for it: v, any vector (VectorInsertUnique, the erase     *)
(* helpers, VectorUnique, VectorSortUnique); sv, a sorted vector without  *)
(* duplicates (VectorInsertUniqueSorted, VectorEraseUniqueSorted); ms, a  *)
(* sorted vector that may hold duplicates (VectorInsertSorted,            *)
(* VectorBackPop).  BinarySearch reads the sorted ones.  A predicate p is *)
(* the set of values it accepts.                                          *)
(***************************************************************************)
EXTENDS Integers, Sequences, SequencesExt, FiniteSets

CONSTANTS
    Values,  \* element values, ordered by <
    MaxLen   \* bound on the length of v and ms

ASSUME Values \subseteq Int /\ MaxLen \in Nat

VARIABLES v, sv, ms

cuVars == <<v, sv, ms>>

-----------------------------------------------------------------------------
(* The standard algorithms the helpers call, by their specification       *)

\* std::lower_bound: the first position whose element is not less than e
LowerBound(vec, e) == Cardinality({i \in DOMAIN vec : vec[i] < e})
\* std::upper_bound: the first position whose element is greater than e
UpperBound(vec, e) == Cardinality({i \in DOMAIN vec : ~(e < vec[i])})

\* std::sort: the ordered permutation of vec
StdSort(vec) == FoldLeft(LAMBDA acc, x : InsertAt(acc, UpperBound(acc, x) + 1, x), <<>>, vec)
\* std::unique followed by erase(last, end): drop adjacent repeats
StdUniqueErase(vec) ==
    FoldLeft(LAMBDA acc, x : IF acc # <<>> /\ Last(acc) = x THEN acc ELSE Append(acc, x),
             <<>>, vec)

\* v[i] = std::move(v.back()); v.pop_back();
MoveBackInto(vec, i) == Front([vec EXCEPT ![i + 1] = Last(vec)])

-----------------------------------------------------------------------------
(* The helpers.  A helper returning bool gives [v, b].                     *)

\* BinarySearch: lower_bound, then last unless the element there equals value
BinarySearchNoCheck(vec, e) == LowerBound(vec, e)
BinarySearch(vec, e) ==
    LET first == LowerBound(vec, e)
    IN IF first # Len(vec) /\ ~(e < vec[first + 1]) THEN first ELSE Len(vec)

(* Mutant of VectorEraseAllIf: the index moves on after an erase, so the  *)
(* element moved in from the back is never tested.                         *)
RECURSIVE EraseAllIfSkipsRetest(_, _, _, _)
EraseAllIfSkipsRetest(vec, p, i, b) ==
    IF i >= Len(vec) THEN [v |-> vec, b |-> b]
    ELSE IF vec[i + 1] \in p THEN EraseAllIfSkipsRetest(MoveBackInto(vec, i), p, i + 1, TRUE)
    ELSE EraseAllIfSkipsRetest(vec, p, i + 1, b)

\* VectorEraseAllIf's loop from index i: an erased slot takes the back
\* element and is tested again
RECURSIVE EraseAllIfLoop(_, _, _, _)
EraseAllIfLoop(vec, p, i, b) ==
    IF i >= Len(vec) THEN [v |-> vec, b |-> b]
    ELSE IF vec[i + 1] \in p THEN EraseAllIfLoop(MoveBackInto(vec, i), p, i, TRUE)
    ELSE EraseAllIfLoop(vec, p, i + 1, b)

VectorEraseAllIf(vec, p) == EraseAllIfLoop(vec, p, 0, FALSE)

\* VectorEraseIf: the first match takes the back element; the back is popped
VectorEraseIf(vec, p) ==
    LET it == SelectInSeq(vec, LAMBDA x : x \in p)
    IN IF it = 0 THEN [v |-> vec, b |-> FALSE]
       ELSE [v |-> MoveBackInto(vec, it - 1), b |-> TRUE]

\* VectorErase: VectorEraseIf with the predicate "== e"
VectorErase(vec, e) == VectorEraseIf(vec, {e})

(* Mutant of VectorEraseUniqueSorted: the found element is replaced by   *)
(* the back element, as VectorErase does, instead of bubbled to the end.  *)
VectorEraseUniqueSortedByMove(vec, e) ==
    LET iter == LowerBound(vec, e)
    IN IF iter = Len(vec) \/ vec[iter + 1] # e THEN [v |-> vec, b |-> FALSE]
       ELSE [v |-> MoveBackInto(vec, iter), b |-> TRUE]

\* The loop of VectorEraseUniqueSorted: swap v[n] and v[n + 1] for n from
\* the found position while n < v.size() - 1 (v is not empty here)
RECURSIVE BubbleToBack(_, _)
BubbleToBack(vec, n) ==
    IF n >= Len(vec) - 1 THEN vec
    ELSE BubbleToBack([vec EXCEPT ![n + 1] = vec[n + 2], ![n + 2] = vec[n + 1]], n + 1)

\* VectorEraseUniqueSorted: lower_bound, give up unless it is e, bubble it
\* to the back, pop it
VectorEraseUniqueSorted(vec, e) ==
    LET iter == LowerBound(vec, e)
    IN IF iter = Len(vec) \/ vec[iter + 1] # e THEN [v |-> vec, b |-> FALSE]
       ELSE [v |-> Front(BubbleToBack(vec, iter)), b |-> TRUE]

(* Mutant of VectorUnique: the inner index moves on after an erase too.   *)
RECURSIVE UniqueLoopSkipsRetest(_, _, _)
UniqueLoopSkipsRetest(vec, i, j) ==
    IF i >= Len(vec) THEN vec
    ELSE IF j >= Len(vec) THEN UniqueLoopSkipsRetest(vec, i + 1, i + 2)
    ELSE IF vec[i + 1] = vec[j + 1] THEN UniqueLoopSkipsRetest(MoveBackInto(vec, j), i, j + 1)
    ELSE UniqueLoopSkipsRetest(vec, i, j + 1)

\* VectorUnique's two loops: for each i, every later j equal to v[i] takes
\* the back element and is tested again
RECURSIVE UniqueLoop(_, _, _)
UniqueLoop(vec, i, j) ==
    IF i >= Len(vec) THEN vec
    ELSE IF j >= Len(vec) THEN UniqueLoop(vec, i + 1, i + 2)
    ELSE IF vec[i + 1] = vec[j + 1] THEN UniqueLoop(MoveBackInto(vec, j), i, j)
    ELSE UniqueLoop(vec, i, j + 1)

VectorUnique(vec) == UniqueLoop(vec, 0, 1)

\* VectorSortUnique: std::sort, std::unique, erase
VectorSortUnique(vec) == StdUniqueErase(StdSort(vec))

(* Mutant of VectorInsertUnique: the membership test is skipped whatever *)
(* b says.                                                                *)
VectorInsertUniqueNoTest(vec, e, b) == [v |-> Append(vec, e), b |-> TRUE]

\* VectorInsertUnique (built with NDEBUG: with b false the assert is gone
\* and e is appended whether or not it is present)
VectorInsertUnique(vec, e, b) ==
    IF b /\ \E i \in DOMAIN vec : vec[i] = e THEN [v |-> vec, b |-> FALSE]
    ELSE [v |-> Append(vec, e), b |-> TRUE]

\* VectorInsertSorted: insert before the upper bound
VectorInsertSorted(vec, e) == InsertAt(vec, UpperBound(vec, e) + 1, e)

(* Mutant of VectorInsertUniqueSorted: the test for an equal element at   *)
(* the lower bound is left out.                                            *)
VectorInsertUniqueSortedNoCheck(vec, e) ==
    [v |-> InsertAt(vec, LowerBound(vec, e) + 1, e), b |-> TRUE]

\* VectorInsertUniqueSorted: insert at the lower bound unless e is there
VectorInsertUniqueSorted(vec, e) ==
    LET iter == LowerBound(vec, e)
    IN IF iter # Len(vec) /\ vec[iter + 1] = e THEN [v |-> vec, b |-> FALSE]
       ELSE [v |-> InsertAt(vec, iter + 1, e), b |-> TRUE]

\* VectorBackPop: move the back out and pop it (v must not be empty)
VectorBackPop(vec) == [e |-> Last(vec), v |-> Front(vec)]

-----------------------------------------------------------------------------
(* Operations: one helper call each                                        *)

Preds == SUBSET Values

Init ==
    /\ v = <<>>
    /\ sv = <<>>
    /\ ms = <<>>

InsertUnique(e, b) ==
    /\ Len(v) < MaxLen
    /\ v' = VectorInsertUnique(v, e, b).v
    /\ UNCHANGED <<sv, ms>>

EraseAllIf(p) == v' = VectorEraseAllIf(v, p).v /\ UNCHANGED <<sv, ms>>
EraseIf(p) == v' = VectorEraseIf(v, p).v /\ UNCHANGED <<sv, ms>>
Erase(e) == v' = VectorErase(v, e).v /\ UNCHANGED <<sv, ms>>
Unique == v' = VectorUnique(v) /\ UNCHANGED <<sv, ms>>
SortUnique == v' = VectorSortUnique(v) /\ UNCHANGED <<sv, ms>>

InsertUniqueSorted(e) == sv' = VectorInsertUniqueSorted(sv, e).v /\ UNCHANGED <<v, ms>>
EraseUniqueSorted(e) == sv' = VectorEraseUniqueSorted(sv, e).v /\ UNCHANGED <<v, ms>>

InsertSorted(e) ==
    /\ Len(ms) < MaxLen
    /\ ms' = VectorInsertSorted(ms, e)
    /\ UNCHANGED <<v, sv>>
BackPop ==
    /\ ms # <<>>
    /\ ms' = VectorBackPop(ms).v
    /\ UNCHANGED <<v, sv>>

Next ==
    \/ \E e \in Values, b \in BOOLEAN : InsertUnique(e, b)
    \/ \E p \in Preds : EraseAllIf(p) \/ EraseIf(p)
    \/ \E e \in Values : Erase(e)
    \/ Unique
    \/ SortUnique
    \/ \E e \in Values : InsertUniqueSorted(e) \/ EraseUniqueSorted(e)
    \/ \E e \in Values : InsertSorted(e)
    \/ BackPop

Spec == Init /\ [][Next]_cuVars

-----------------------------------------------------------------------------
(* Properties *)

(* Types; sv needs no bound of its own: VectorInsertUniqueSorted never    *)
(* lets it hold a value twice, so it never outgrows Values.                *)
ContainerTypeOK ==
    /\ v \in BoundedSeq(Values, MaxLen)
    /\ sv \in BoundedSeq(Values, Cardinality(Values))
    /\ ms \in BoundedSeq(Values, MaxLen)

(* The erase helpers remove exactly what they are asked to, whatever the  *)
(* vector: VectorEraseAllIf every element p accepts (the back element     *)
(* moved into an erased slot is tested too), VectorEraseIf and            *)
(* VectorErase one, the first match, and VectorEraseUniqueSorted the one  *)
(* element equal to e, keeping the order of the rest (on a sorted vector, *)
(* at every length, e absent, first, last or beyond the back); each       *)
(* returns whether it erased anything.  Order is not kept by the first    *)
(* three, so they are compared as multisets.                              *)
EraseMatchesReference ==
    /\ \A p \in Preds :
         /\ ToBag(VectorEraseAllIf(v, p).v) = ToBag(SelectSeq(v, LAMBDA x : x \notin p))
         /\ VectorEraseAllIf(v, p).b = (ToSet(v) \cap p # {})
         /\ ToBag(VectorEraseIf(v, p).v) = ToBag(RemoveFirstMatch(v, LAMBDA x : x \in p))
         /\ VectorEraseIf(v, p).b = (ToSet(v) \cap p # {})
    /\ \A e \in Values, vec \in {sv, ms} :
         VectorEraseUniqueSorted(vec, e) = [v |-> RemoveFirst(vec, e), b |-> e \in ToSet(vec)]

(* VectorUnique leaves every value of the vector exactly once (in an      *)
(* order of its own); VectorSortUnique leaves every value exactly once in *)
(* increasing order; VectorInsertUnique with its test (b true) keeps a    *)
(* vector without duplicates so, holding e afterwards, and returns        *)
(* whether it inserted (with b false it appends unchecked: the caller's   *)
(* assert is all that keeps a duplicate out).                             *)
UniqueMatchesReference ==
    /\ ToSet(VectorUnique(v)) = ToSet(v)
    /\ IsInjective(VectorUnique(v))
    /\ VectorSortUnique(v) = SetToSortSeq(ToSet(v), LAMBDA x, y : x < y)
    /\ \A e \in Values :
         LET r == VectorInsertUnique(VectorUnique(v), e, TRUE)
         IN /\ IsInjective(r.v)
            /\ ToSet(r.v) = ToSet(v) \cup {e}
            /\ r.b = (e \notin ToSet(v))

(* Through any sequence of inserts and erases, the vector kept by          *)
(* VectorInsertUniqueSorted / VectorEraseUniqueSorted stays strictly       *)
(* increasing, and the one kept by VectorInsertSorted / VectorBackPop      *)
(* stays non-decreasing: each helper's result is what the next one's       *)
(* lower_bound or upper_bound relies on.                                    *)
SortedVectorsStaySorted ==
    /\ IsSorted(sv, LAMBDA x, y : x < y)
    /\ IsSorted(ms, LAMBDA x, y : x <= y)

(* BinarySearch on a sorted vector returns the position of the first       *)
(* element equal to the value, or the end when there is none.              *)
BinarySearchMatchesReference ==
    \A e \in Values, vec \in {sv, ms} :
        BinarySearch(vec, e) = IF e \in ToSet(vec)
                               THEN SelectInSeq(vec, LAMBDA x : x = e) - 1
                               ELSE Len(vec)

=============================================================================

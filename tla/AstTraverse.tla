----------------------------- MODULE AstTraverse -----------------------------
(***************************************************************************)
(* `Ast::traverse` (lib.rs:170-188) = `iterate_subtree` (lib.rs:124-138):  *)
(* a generator over an explicit stack.  Each resumption pops the top node, *)
(* pushes its children in the order `IntoIterator for &Ast` gives them     *)
(* (lib.rs:140-147: the shape's T fields in declaration order, AstSpan's   *)
(* Kids), and yields the popped node; the generator ends when the stack is *)
(* empty.  Nodes are Rc-shared, so Children is a DAG.  Several readers may *)
(* traverse the same nodes at once (spec 5): each has its own generator.   *)
(***************************************************************************)
EXTENDS Naturals, SequencesExt

CONSTANTS
    Nodes,      \* the Ast nodes (Rc pointers)
    Children,   \* Children[n]: the child nodes of n, in field order
    Readers     \* callers each running one traverse()

VARIABLES
    stack,      \* stack[r]: the generator's `nodes` vector, top at the end
    yielded     \* yielded[r]: what r's iterator has returned so far

vars == <<stack, yielded>>

\* traverse(root) before the first next(): `vec![ast]`.
Init ==
    /\ \E root \in [Readers -> Nodes] : stack = [r \in Readers |-> <<root[r]>>]
    /\ yielded = [r \in Readers |-> <<>>]

(***************************************************************************)
(* Faulty variants of one next(), each a bug the properties must catch:    *)
(* a FIFO instead of a stack, a loop that stops at one node left, one      *)
(* reader's stack stored as the generators' state of all readers, the     *)
(* first child skipped.                                                    *)
(***************************************************************************)
StepFromFront(r) ==
    /\ stack[r] # <<>>
    /\ stack' = [stack EXCEPT ![r] = Tail(@) \o Children[Head(stack[r])]]
    /\ yielded' = [yielded EXCEPT ![r] = Append(@, Head(stack[r]))]

StepWhileMoreThanOne(r) ==
    /\ Len(stack[r]) > 1
    /\ stack' = [stack EXCEPT ![r] = Front(@) \o Children[Last(stack[r])]]
    /\ yielded' = [yielded EXCEPT ![r] = Append(@, Last(stack[r]))]

StepOneStack(r) ==
    /\ stack[r] # <<>>
    /\ stack' = Front(stack[r]) \o Children[Last(stack[r])]
    /\ yielded' = [yielded EXCEPT ![r] = Append(@, Last(stack[r]))]

StepSkipFirstChild(r) ==
    /\ stack[r] # <<>>
    /\ LET kids == Children[Last(stack[r])]
       IN stack' = [stack EXCEPT ![r] = Front(@) \o (IF kids = <<>> THEN <<>> ELSE Tail(kids))]
    /\ yielded' = [yielded EXCEPT ![r] = Append(@, Last(stack[r]))]

\* One next(): `while !nodes.is_empty()`, pop, push every child, yield.
Step(r) ==
    /\ stack[r] # <<>>
    /\ LET ast == Last(stack[r])
       IN /\ stack' = [stack EXCEPT ![r] = Front(@) \o Children[ast]]
          /\ yielded' = [yielded EXCEPT ![r] = Append(@, ast)]

Next == \E r \in Readers : Step(r)

\* A caller drains its iterator (e.g. a `for` loop over traverse()).
Fairness == \A r \in Readers : WF_vars(Step(r))

Spec == Init /\ [][Next]_vars /\ Fairness

-----------------------------------------------------------------------------

TypeOK ==
    /\ stack \in [Readers -> Seq(Nodes)]
    /\ yielded \in [Readers -> Seq(Nodes)]

\* Depth-first pre-order of the subtree at n with the children of every
\* node taken last to first, and the same in field order.
RECURSIVE RightToLeftPreorder(_), LeftToRightPreorder(_)
RightToLeftPreorder(n) ==
    <<n>> \o FoldRight(LAMBDA c, acc : acc \o RightToLeftPreorder(c), Children[n], <<>>)
LeftToRightPreorder(n) ==
    <<n>> \o FoldLeft(LAMBDA acc, c : acc \o LeftToRightPreorder(c), <<>>, Children[n])

\* The root a reader's traversal started from.
Root(r) == IF yielded[r] = <<>> THEN stack[r][1] ELSE yielded[r][1]

(***************************************************************************)
(* The stack generator yields exactly a depth-first pre-order of the       *)
(* subtree, each child subtree in full before its siblings, siblings last  *)
(* to first; a shared node once per path; and it stops only after the last *)
(* node of that order.                                                     *)
(***************************************************************************)
YieldsRightToLeftPreorder ==
    \A r \in Readers :
        /\ IsPrefix(yielded[r], RightToLeftPreorder(Root(r)))
        /\ stack[r] = <<>> => yielded[r] = RightToLeftPreorder(Root(r))

(***************************************************************************)
(* Spec 4.2: "A node is yielded before its children; children in natural  *)
(* left-to-right field order."                                             *)
(***************************************************************************)
YieldsLeftToRightPreorder ==
    \A r \in Readers : IsPrefix(yielded[r], LeftToRightPreorder(Root(r)))

\* Every traversal a caller drains comes to its end.
Terminates == \A r \in Readers : <>(stack[r] = <<>>)

=============================================================================

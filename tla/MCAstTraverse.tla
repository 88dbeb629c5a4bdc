---------------------------- MODULE MCAstTraverse ----------------------------
(***************************************************************************)
(* A small module `Module [ (f ~) + f ; <blank> ; f ~ ]` as Ast values:    *)
(* the Var f and the Prefix `f ~` are Rc-shared by two parents.  Children  *)
(* are taken from the shapes (AstSpan's Kids).                             *)
(***************************************************************************)
EXTENDS AstTraverse, AstSpan

CONSTANTS r1, r2

NodeOf(shape) == [shape |-> shape, id |-> "None", span |-> Span([shape |-> shape])]

F      == NodeOf([kind |-> "Var", name |-> 1])
Plus   == NodeOf([kind |-> "Opr", name |-> 1])
Tilde  == NodeOf([kind |-> "SectionSides", opr |-> NodeOf([kind |-> "Opr", name |-> 1])])
App    == NodeOf([kind |-> "Prefix", func |-> F, off |-> 1, arg |-> Tilde])
Sum    == NodeOf([kind |-> "Infix", larg |-> App, loff |-> 1, opr |-> Plus, roff |-> 1, rarg |-> F])
Top    == NodeOf([kind |-> "Module",
                  lines |-> << [elem |-> <<Sum>>, off |-> 0],
                               [elem |-> <<>>, off |-> 0],
                               [elem |-> <<App>>, off |-> 0] >>])

MCNodes == {F, Plus, Tilde, App, Sum, Top, Tilde.shape.opr}
MCChildren == [n \in MCNodes |-> Kids(n.shape)]
MCReaders == {r1, r2}
=============================================================================

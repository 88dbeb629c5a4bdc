------------------------------ MODULE AstSpan ------------------------------
(***************************************************************************)
(* The span algebra of ast/core/src/lib.rs for the node shapes an Ast      *)
(* holds: `impl HasSpan for Shape<T>` and the per-variant impls it         *)
(* dispatches to.  Names and string literals are abstracted to their       *)
(* length in code points (all that `HasSpan for &str` observes).           *)
(*                                                                         *)
(* An Ast value is a record [shape, id, span]; a shape is a record whose   *)
(* `kind` is the Shape variant and whose other fields keep the variant's   *)
(* field names.  A child field (`T`, always Ast once resolved) holds the   *)
(* child Ast value itself: Rc sharing is equality of values.  Option<X> is *)
(* <<>> or <<x>>.                                                          *)
(*                                                                         *)
(* `HasSpan for Ast` (lib.rs:191-195) is `self.wrapped.span()`.  No impl   *)
(* of HasSpan exists for WithSpan (lib.rs:655-657 is commented out), so    *)
(* method resolution dereferences through Rc, WithID and WithSpan down to  *)
(* Shape<Ast> and RECOMPUTES the span from the shape, recursively through  *)
(* every child: the cached `span` field is never read by span().  Span     *)
(* below is that accessor.                                                 *)
(***************************************************************************)
EXTENDS Integers, Sequences

\* The outcome of `panic!` / a failed `assert!` in a span computation.
Panic == -1

\* The variants whose arm in `impl HasSpan for Shape<T>` is the catch-all
\* `_ => panic!("not implemented {}")`.
UnspecifiedKinds ==
    {"Match", "Ambiguous", "Comment", "Import", "Mixfix", "Group", "Def", "Foreign"}

\* Sum of a sequence of spans; a panic anywhere in the operands panics.
RECURSIVE SumSpans(_)
SumSpans(xs) ==
    IF xs = <<>> THEN 0
    ELSE LET rest == SumSpans(Tail(xs))
         IN IF Head(xs) = Panic \/ rest = Panic THEN Panic ELSE Head(xs) + rest

\* The children of a shape in field order: the fields of type T, which
\* `impl IntoIterator for &Ast` (lib.rs:140-147) walks via shape().
\* Block lines and Module lines contribute their present elems.
PresentElems(lines) == [i \in 1..Len(lines) |-> lines[i].elem]

RECURSIVE Flatten(_)
Flatten(ss) == IF ss = <<>> THEN <<>> ELSE Head(ss) \o Flatten(Tail(ss))

\* The Ast values inside the SegmentExpr segments of a formatted text.
ExprKids(segs) ==
    Flatten([i \in 1..Len(segs) |->
                IF segs[i].kind = "SegmentExpr" THEN segs[i].value ELSE <<>>])

Kids(s) ==
    CASE s.kind = "Prefix"        -> <<s.func, s.arg>>
      [] s.kind = "Infix"         -> <<s.larg, s.opr, s.rarg>>
      [] s.kind = "SectionLeft"   -> <<s.arg, s.opr>>
      [] s.kind = "SectionRight"  -> <<s.opr, s.arg>>
      [] s.kind = "SectionSides"  -> <<s.opr>>
      [] s.kind = "InvalidSuffix" -> <<s.elem>>
      [] s.kind = "Module"        -> Flatten(PresentElems(s.lines))
      [] s.kind = "Block"         -> <<s.first_line.elem>> \o Flatten(PresentElems(s.lines))
      [] s.kind = "Group"         -> s.body
      [] s.kind = "TextLineFmt"   -> ExprKids(s.text)
      [] s.kind = "TextBlockFmt"  -> Flatten([i \in 1..Len(s.text) |-> ExprKids(s.text[i].text)])
      [] s.kind = "TextUnclosed"  -> IF s.line.kind = "TextLineFmt" THEN ExprKids(s.line.text) ELSE <<>>
      [] OTHER                    -> <<>>

(***************************************************************************)
(* ShapeSpan(s, cached) is `s.span()`.  A child's span is its cached       *)
(* `span` field when cached is TRUE, and otherwise what                    *)
(* `<Ast as HasSpan>::span` returns for it, the recomputation.             *)
(***************************************************************************)
RECURSIVE Span(_)
ChildSpan(c, cached) == IF cached THEN c.span ELSE Span(c)

\* Option<T>::span: 0 when absent (lib.rs:583-587).
OptSpan(o, cached) == IF o = <<>> THEN 0 ELSE ChildSpan(o[1], cached)

\* BlockLine<T>::span = elem.span() + off (lib.rs:1004-1008).
LineSpan(l, cached) == SumSpans(<<OptSpan(l.elem, cached), l.off>>)

\* Module::span (lib.rs:1179-1187): assert!(lines.len() > 0), then the
\* line spans plus one NEWLINE per break.
ModuleSpan(s, cached) ==
    IF Len(s.lines) = 0 THEN Panic
    ELSE SumSpans(<<SumSpans([i \in 1..Len(s.lines) |-> LineSpan(s.lines[i], cached)]),
                    Len(s.lines) - 1>>)

\* Block::span (lib.rs:1188-1202): the head newline unless orphan, each
\* empty line plus its newline, the indented first line, and for every
\* further line a newline, the indent only when the line has an elem, and
\* the line itself.
BlockSpan(s, cached) ==
    LET further(l) ==
            SumSpans(<<1, IF l.elem = <<>> THEN 0 ELSE s.indent, LineSpan(l, cached)>>)
    IN SumSpans(<< IF s.is_orphan THEN 0 ELSE 1,
                   SumSpans([i \in 1..Len(s.empty_lines) |-> s.empty_lines[i] + 1]),
                   s.indent,
                   SumSpans(<<ChildSpan(s.first_line.elem, cached), s.first_line.off>>),
                   SumSpans([i \in 1..Len(s.lines) |-> further(s.lines[i])]) >>)

(***************************************************************************)
(* Text, escapes and builders (lib.rs:870-1075, 1120-1150).  Strings are   *)
(* their length; a char is 1 (`HasSpan for char`).  Segments are records   *)
(* with the variant as `kind`: SegmentPlain[value], SegmentRawEscape[code],*)
(* SegmentExpr[value : Option<Ast>], SegmentEscape[code].                  *)
(***************************************************************************)
\* RawEscape::span: Unfinished 0, Invalid its char, Slash/Quote/RawQuote 1.
RawEscapeSpan(e) == IF e.kind = "Unfinished" THEN 0 ELSE 1

\* Escape::span (lib.rs:1036-1051): the escape code without the backslash.
EscapeSpan(e) ==
    CASE e.kind = "Character" -> 1
      [] e.kind = "Control"   -> e.name
      [] e.kind = "Number"    -> e.digits
      [] e.kind = "Unicode16" -> 1 + e.digits              \* "u"
      [] e.kind = "Unicode21" -> 2 + e.digits + 1          \* "u{" ... "}"
      [] e.kind = "Unicode32" -> 1 + e.digits              \* "U"

\* A faulty SegmentExpr::span counting one EXPR_QUOTE instead of two.
SegmentSpanOneBacktick(g, cached) ==
    CASE g.kind = "SegmentPlain"     -> g.value
      [] g.kind = "SegmentRawEscape" -> RawEscapeSpan(g.code) + 1
      [] g.kind = "SegmentExpr"      -> SumSpans(<<OptSpan(g.value, cached), 1>>)
      [] g.kind = "SegmentEscape"    -> 1 + EscapeSpan(g.code)

\* SegmentRaw::span and SegmentFmt::span (lib.rs:983-1031).
SegmentSpan(g, cached) ==
    CASE g.kind = "SegmentPlain"     -> g.value
      [] g.kind = "SegmentRawEscape" -> RawEscapeSpan(g.code) + 1      \* BACKSLASH
      [] g.kind = "SegmentExpr"      -> SumSpans(<<OptSpan(g.value, cached), 2>>)  \* 2 * EXPR_QUOTE
      [] g.kind = "SegmentEscape"    -> 1 + EscapeSpan(g.code)

SegmentsSpan(segs, cached) == SumSpans([i \in 1..Len(segs) |-> SegmentSpan(segs[i], cached)])

\* TextLineRaw / TextLineFmt::span: two quotes around the segments.
TextLineSpan(l, cached) == SumSpans(<<2, SegmentsSpan(l.text, cached)>>)

\* TextBlockLine::span(block_offset) (lib.rs:880-887): the empty lines'
\* spaces, one NEWLINE per physical line, the block offset, the segments.
TextBlockLineSpan(l, offset, cached) ==
    SumSpans(<<SumSpans(l.empty_lines), Len(l.empty_lines) + 1, offset,
               SegmentsSpan(l.text, cached)>>)

\* TextBlockRaw / TextBlockFmt::span: the QUOTE (3), spaces, the lines.
TextBlockSpan(s, cached) ==
    SumSpans(<<3, s.spaces,
               SumSpans([i \in 1..Len(s.text) |-> TextBlockLineSpan(s.text[i], s.offset, cached)])>>)

\* Builder::span (lib.rs:901-937); Seq holds Rc<Builder>s.
RECURSIVE BuilderSpan(_)
BuilderSpan(b) ==
    CASE b.kind = "Empty"  -> 0
      [] b.kind = "Letter" -> 1
      [] b.kind = "Space"  -> b.span
      [] b.kind = "Text"   -> b.str
      [] b.kind = "Seq"    -> BuilderSpan(b.first) + BuilderSpan(b.second)

ShapeSpan(s, cached) ==
    LET S(c) == ChildSpan(c, cached)
    IN CASE s.kind = "Blank"         -> 1                                \* Blank::REPR
         [] s.kind \in {"Var", "Cons", "Opr"} -> s.name
         [] s.kind = "Mod"           -> s.name + 1                       \* "+ 1 // FIXME"
         [] s.kind = "Unrecognized"  -> s.str
         [] s.kind \in {"InvalidQuote", "InlineBlock"} -> BuilderSpan(s.quote)
         [] s.kind = "Number"        -> (IF s.base = <<>> THEN 0 ELSE s.base[1] + 1) + s.int
         [] s.kind = "DanglingBase"  -> s.base + 1                       \* BASE_SEPARATOR
         [] s.kind \in {"TextLineRaw", "TextLineFmt"} -> TextLineSpan(s, cached)
         [] s.kind \in {"TextBlockRaw", "TextBlockFmt"} -> TextBlockSpan(s, cached)
         [] s.kind = "TextUnclosed"  -> LET l == TextLineSpan(s.line, cached)
                                        IN IF l = Panic THEN Panic ELSE l - 1  \* "- 1 // FIXME"
         [] s.kind = "InvalidSuffix" -> SumSpans(<<S(s.elem), s.suffix>>)
         [] s.kind = "Prefix"        -> SumSpans(<<S(s.func), s.off, S(s.arg)>>)
         [] s.kind = "Infix"         -> SumSpans(<<S(s.larg), s.loff, S(s.opr), s.roff, S(s.rarg)>>)
         [] s.kind = "SectionLeft"   -> SumSpans(<<S(s.arg), s.off, S(s.opr)>>)
         [] s.kind = "SectionRight"  -> SumSpans(<<S(s.opr), s.off, S(s.arg)>>)
         [] s.kind = "SectionSides"  -> S(s.opr)
         [] s.kind = "Module"        -> ModuleSpan(s, cached)
         [] s.kind = "Block"         -> BlockSpan(s, cached)
         [] s.kind \in UnspecifiedKinds -> Panic

\* `<Ast as HasSpan>::span`: recomputed from the shape through all children.
Span(a) == ShapeSpan(a.shape, FALSE)

\* The span a reader of the wire format derives from the children's cached
\* `span` fields, which is what the spec says a node's span is made of.
CachedComposition(a) == ShapeSpan(a.shape, TRUE)

=============================================================================

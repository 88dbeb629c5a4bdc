------------------------------ MODULE AstSource ------------------------------
(***************************************************************************)
(* A reference for the span algebra: the source text a node stands for, as *)
(* a sequence of code points, built from the lexical symbols lib.rs names  *)
(* (Blank::REPR, BASE_SEPARATOR, RAW_QUOTE, FMT_QUOTE, NEWLINE, BACKSLASH, *)
(* EXPR_QUOTE, the unicode introducers, the text block QUOTEs,             *)
(* lib.rs:835-875) and the layout spec 4.1 describes (offsets are spaces,  *)
(* lines are separated by newlines).  A name, digit string or plain text   *)
(* of length n is n letters.  The span of a node should be the length of  *)
(* its source text (spec 4.1: "counting source code points").              *)
(***************************************************************************)
EXTENDS AstSpan

Letters(n) == [i \in 1..n |-> "a"]
Spaces(n)  == [i \in 1..n |-> " "]
NL == <<"newline">>

RECURSIVE Concat(_)
Concat(ss) == IF ss = <<>> THEN <<>> ELSE Head(ss) \o Concat(Tail(ss))

RECURSIVE BuilderText(_)
BuilderText(b) ==
    CASE b.kind = "Empty"  -> <<>>
      [] b.kind = "Letter" -> <<"c">>
      [] b.kind = "Space"  -> Spaces(b.span)
      [] b.kind = "Text"   -> Letters(b.str)
      [] b.kind = "Seq"    -> BuilderText(b.first) \o BuilderText(b.second)

RawEscapeText(e) ==
    CASE e.kind = "Unfinished" -> <<>>
      [] e.kind = "Invalid"    -> <<"c">>
      [] e.kind = "Slash"      -> <<"backslash">>
      [] e.kind = "Quote"      -> <<"dquote">>
      [] e.kind = "RawQuote"   -> <<"squote">>

EscapeText(e) ==
    CASE e.kind = "Character" -> <<"n">>
      [] e.kind = "Control"   -> Letters(e.name)
      [] e.kind = "Number"    -> Letters(e.digits)
      [] e.kind = "Unicode16" -> <<"u">> \o Letters(e.digits)
      [] e.kind = "Unicode21" -> <<"u", "{">> \o Letters(e.digits) \o <<"}">>
      [] e.kind = "Unicode32" -> <<"U">> \o Letters(e.digits)

(***************************************************************************)
(* SourceText(a): the text of node a, its children's text included.        *)
(***************************************************************************)
RECURSIVE SourceText(_)

OptText(o) == IF o = <<>> THEN <<>> ELSE SourceText(o[1])

SegmentText(g) ==
    CASE g.kind = "SegmentPlain"     -> Letters(g.value)
      [] g.kind = "SegmentRawEscape" -> <<"backslash">> \o RawEscapeText(g.code)
      [] g.kind = "SegmentExpr"      ->
            <<"expr_quote">> \o OptText(g.value) \o <<"expr_quote">>
      [] g.kind = "SegmentEscape"    -> <<"backslash">> \o EscapeText(g.code)

SegmentsText(segs) == Concat([i \in 1..Len(segs) |-> SegmentText(segs[i])])

LineQuote(l) == IF l.kind = "TextLineRaw" THEN <<"squote">> ELSE <<"dquote">>

\* A text block line: each empty line (its spaces and a newline), then a
\* newline, the block's offset and the segments.
TextBlockLineText(l, offset) ==
    Concat([i \in 1..Len(l.empty_lines) |-> Spaces(l.empty_lines[i]) \o NL])
    \o NL \o Spaces(offset) \o SegmentsText(l.text)

LineText(l) == OptText(l.elem) \o Spaces(l.off)

ShapeText(s) ==
    CASE s.kind = "Unrecognized"  -> Letters(s.str)
      [] s.kind \in {"InvalidQuote", "InlineBlock"} -> BuilderText(s.quote)
      [] s.kind = "Blank"         -> <<"_">>
      [] s.kind \in {"Var", "Cons", "Opr", "Mod"} -> Letters(s.name)
      [] s.kind = "InvalidSuffix" -> SourceText(s.elem) \o Letters(s.suffix)
      [] s.kind = "Number"        ->
            (IF s.base = <<>> THEN <<>> ELSE Letters(s.base[1]) \o <<"_">>) \o Letters(s.int)
      [] s.kind = "DanglingBase"  -> Letters(s.base) \o <<"_">>
      [] s.kind \in {"TextLineRaw", "TextLineFmt"} ->
            LineQuote(s) \o SegmentsText(s.text) \o LineQuote(s)
      [] s.kind \in {"TextBlockRaw", "TextBlockFmt"} ->
            \* TextBlockRaw::QUOTE is three double quotes, TextBlockFmt's three single.
            (IF s.kind = "TextBlockRaw" THEN <<"dquote", "dquote", "dquote">>
                                        ELSE <<"squote", "squote", "squote">>)
            \o Spaces(s.spaces)
            \o Concat([i \in 1..Len(s.text) |-> TextBlockLineText(s.text[i], s.offset)])
      \* An unclosed line is its opening quote and segments, no closing quote.
      [] s.kind = "TextUnclosed"  -> LineQuote(s.line) \o SegmentsText(s.line.text)
      [] s.kind = "Prefix"        -> SourceText(s.func) \o Spaces(s.off) \o SourceText(s.arg)
      [] s.kind = "Infix"         -> SourceText(s.larg) \o Spaces(s.loff) \o SourceText(s.opr)
                                     \o Spaces(s.roff) \o SourceText(s.rarg)
      [] s.kind = "SectionLeft"   -> SourceText(s.arg) \o Spaces(s.off) \o SourceText(s.opr)
      [] s.kind = "SectionRight"  -> SourceText(s.opr) \o Spaces(s.off) \o SourceText(s.arg)
      [] s.kind = "SectionSides"  -> SourceText(s.opr)
      [] s.kind = "Module"        ->
            Concat([i \in 1..Len(s.lines) |->
                      (IF i = 1 THEN <<>> ELSE NL) \o LineText(s.lines[i])])
      [] s.kind = "Block"         ->
            (IF s.is_orphan THEN <<>> ELSE NL)
            \o Concat([i \in 1..Len(s.empty_lines) |-> Spaces(s.empty_lines[i]) \o NL])
            \o Spaces(s.indent) \o SourceText(s.first_line.elem) \o Spaces(s.first_line.off)
            \o Concat([i \in 1..Len(s.lines) |->
                         NL \o (IF s.lines[i].elem = <<>> THEN <<>> ELSE Spaces(s.indent))
                            \o LineText(s.lines[i])])

SourceText(a) == ShapeText(a.shape)

=============================================================================

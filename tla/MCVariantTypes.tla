---------------------------- MODULE MCVariantTypes ----------------------------
(***************************************************************************)
(* The declarations of ast/core/src/lib.rs the attributes are applied to:  *)
(* every enum that gets narrowing, with Shape cut to the variants that     *)
(* differ in kind (a field naming T or not, no field, a user's type), all  *)
(* variants of MacroPatternRaw and MacroPatternMatchRaw (lib.rs:439-521),  *)
(* and the structs and enums those variants hold.  A field gives its       *)
(* type's name and the type names in it.                                   *)
(***************************************************************************)
EXTENDS VariantTypes

Fd(ty, reprs) == [ty |-> ty, reprs |-> reprs]
Named(ident, fields) == [ident |-> ident, style |-> "named", fields |-> fields]
Holds(ident, ty, reprs) == [ident |-> ident, style |-> "unnamed", fields |-> <<Fd(ty, reprs)>>]
UnitV(ident) == [ident |-> ident, style |-> "unit", fields |-> <<>>]
EnumD(ident, generics, attrs, variants) ==
    [ident |-> ident, generics |-> generics, attrs |-> attrs, data |-> "enum", variants |-> variants]
StructD(ident, generics, fields) ==
    [ident |-> ident, generics |-> generics, attrs |-> {}, data |-> "struct", fields |-> fields]
AstD(args, d) == [macro |-> "ast", args |-> args, decl |-> d]
NodeD(d) == [macro |-> "ast_node", args |-> "", decl |-> d]

MCTypeParams == {"T"}

Str == Fd("String", {"String"})

\* MacroPattern (an Rc of MacroPatternRaw) and Spaced (an Option<bool>).
Pat == Fd("MacroPattern", {"MacroPattern"})
Spaced == Fd("Spaced", {"Spaced"})

\* A match variant: its `pat` field of the type lib.rs names, then its elem.
MatchOf(c, pat, elem) == Named(c, <<Fd(pat, {pat})>> \o elem)
Sub == Fd("MacroPatternMatch", {"MacroPatternMatch", "T"})
Elem == Fd("T", {"T"})

MCShape == EnumD("Shape", <<"T">>, {}, <<
    Named("Unrecognized", <<Str>>),
    Named("Blank", <<>>),
    Named("Var", <<Str>>),
    Named("Cons", <<Str>>),
    Named("InvalidSuffix", <<Fd("T", {"T"}), Str>>),
    Named("Prefix", <<Fd("T", {"T"}), Fd("usize", {"usize"}), Fd("T", {"T"})>>),
    Named("TextLineRaw", <<Fd("Vec", {"Vec", "SegmentRaw"})>>),
    Named("TextLineFmt", <<Fd("Vec", {"Vec", "SegmentFmt", "T"})>>),
    Named("Match", <<Fd("Option", {"Option", "MacroPatternMatch", "Shifted", "Ast"}),
                     Fd("ShiftedVec1", {"ShiftedVec1", "MacroMatchSegment", "T"}),
                     Fd("Ast", {"Ast"})>>),
    Named("Ambiguous", <<Fd("ShiftedVec1", {"ShiftedVec1", "MacroAmbiguousSegment"}),
                         Fd("Tree", {"Tree", "Ast", "Unit"})>>),
    Holds("Comment", "Comment", {"Comment"}),
    Holds("Import", "Import", {"Import", "T"}),
    Holds("Group", "Group", {"Group", "T"}) >>)

MCDecls == {
    AstD("flat", MCShape),
    AstD("flat", EnumD("Builder", <<>>, {}, <<
        UnitV("Empty"), Named("Letter", <<Fd("char", {"char"})>>),
        Named("Space", <<Fd("usize", {"usize"})>>), Named("Text", <<Str>>),
        Named("Seq", <<Fd("Rc", {"Rc", "Builder"}), Fd("Rc", {"Rc", "Builder"})>>) >>)),
    AstD("flat", EnumD("TextLine", <<"T">>, {"derive(HasSpan)"}, <<
        Holds("TextLineRaw", "TextLineRaw", {"TextLineRaw"}),
        Holds("TextLineFmt", "TextLineFmt", {"TextLineFmt", "T"}) >>)),
    AstD("flat", EnumD("SegmentRaw", <<>>, {}, <<
        Holds("SegmentPlain", "SegmentPlain", {"SegmentPlain"}),
        Holds("SegmentRawEscape", "SegmentRawEscape", {"SegmentRawEscape"}) >>)),
    AstD("flat", EnumD("SegmentFmt", <<"T">>, {}, <<
        Holds("SegmentPlain", "SegmentPlain", {"SegmentPlain"}),
        Holds("SegmentRawEscape", "SegmentRawEscape", {"SegmentRawEscape"}),
        Holds("SegmentExpr", "SegmentExpr", {"SegmentExpr", "T"}),
        Holds("SegmentEscape", "SegmentEscape", {"SegmentEscape"}) >>)),
    NodeD(StructD("SegmentPlain", <<>>, <<Str>>)),
    NodeD(StructD("SegmentRawEscape", <<>>, <<Fd("RawEscape", {"RawEscape"})>>)),
    NodeD(StructD("SegmentExpr", <<"T">>, <<Fd("Option", {"Option", "T"})>>)),
    NodeD(StructD("SegmentEscape", <<>>, <<Fd("Escape", {"Escape"})>>)),
    AstD("flat", EnumD("RawEscape", <<>>, {}, <<
        Named("Unfinished", <<>>), Named("Invalid", <<Fd("char", {"char"})>>),
        Named("Slash", <<>>), Named("Quote", <<>>), Named("RawQuote", <<>>) >>)),
    NodeD(EnumD("Escape", <<>>, {}, <<>>)),
    AstD("", EnumD("MacroPatternRaw", <<>>, {}, <<
        Named("Begin", <<>>), Named("End", <<>>), Named("Nothing", <<>>),
        Named("Seq", <<Pat, Pat>>), Named("Or", <<Pat, Pat>>), Named("Many", <<Pat>>),
        Named("Except", <<Pat, Pat>>), Named("Build", <<Pat>>), Named("Err", <<Str, Pat>>),
        Named("Tag", <<Str, Pat>>), Named("Cls", <<Fd("PatternClass", {"PatternClass"}), Pat>>),
        Named("Tok", <<Spaced, Fd("Ast", {"Ast"})>>), Named("Blank", <<Spaced>>),
        Named("Var", <<Spaced>>), Named("Cons", <<Spaced>>),
        Named("Opr", <<Spaced, Fd("Option", {"Option", "usize"})>>), Named("Mod", <<Spaced>>),
        Named("Num", <<Spaced>>), Named("Text", <<Spaced>>), Named("Block", <<Spaced>>),
        Named("Macro", <<Spaced>>), Named("Invalid", <<Spaced>>) >>)),
    AstD("", EnumD("PatternClass", <<>>, {}, <<UnitV("Normal"), UnitV("Pattern")>>)),
    AstD("", EnumD("MacroPatternMatchRaw", <<"T">>, {}, <<
        MatchOf("Begin", "MacroPatternRawBegin", <<>>),
        MatchOf("End", "MacroPatternRawEnd", <<>>),
        MatchOf("Nothing", "MacroPatternRawNothing", <<>>),
        MatchOf("Seq", "MacroPatternRawSeq", <<Fd("Tuple", {"MacroPatternMatch", "T"})>>),
        MatchOf("Or", "MacroPatternRawOr", <<Fd("Switch", {"Switch", "MacroPatternMatch", "T"})>>),
        MatchOf("Many", "MacroPatternRawMany", <<Fd("Vec", {"Vec", "MacroPatternMatch", "T"})>>),
        MatchOf("Except", "MacroPatternRawExcept", <<Sub>>),
        MatchOf("Build", "MacroPatternRawBuild", <<Elem>>),
        MatchOf("Err", "MacroPatternRawErr", <<Elem>>),
        MatchOf("Tag", "MacroPatternRawTag", <<Sub>>),
        MatchOf("Cls", "MacroPatternRawCls", <<Sub>>),
        MatchOf("Tok", "MacroPatternRawTok", <<Elem>>),
        MatchOf("Blank", "MacroPatternRawBlank", <<Elem>>),
        MatchOf("Var", "MacroPatternRawVar", <<Elem>>),
        MatchOf("Cons", "MacroPatternRawCons", <<Elem>>),
        MatchOf("Opr", "MacroPatternRawOpr", <<Elem>>),
        MatchOf("Mod", "MacroPatternRawMod", <<Elem>>),
        MatchOf("Num", "MacroPatternRawNum", <<Elem>>),
        MatchOf("Text", "MacroPatternRawText", <<Elem>>),
        MatchOf("Block", "MacroPatternRawBlock", <<Elem>>),
        MatchOf("Macro", "MacroPatternRawMacro", <<Elem>>),
        MatchOf("Invalid", "MacroPatternRawInvalid", <<Elem>>) >>)),
    AstD("", StructD("Comment", <<>>, <<Fd("Vec", {"Vec", "String"})>>)),
    AstD("", StructD("Import", <<"T">>, <<Fd("Vec", {"Vec", "T"})>>)),
    AstD("", StructD("Group", <<"T">>, <<Fd("Option", {"Option", "T"})>>)) }

=============================================================================

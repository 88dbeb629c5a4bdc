---------------------------- MODULE VariantTypes ----------------------------
(***************************************************************************)
(* ast/macros/src/lib.rs: the `ast`, `ast_node` and `to_variant_types`     *)
(* attributes and the HasSpan derive, applied to the declarations of       *)
(* ast/core/src/lib.rs, and the conversions the expansion generates:       *)
(* `From<Variant> for Sum` (widen) and `TryFrom<&Sum> for &Variant` and    *)
(* `TryFrom<Sum> for Variant` (narrow), with the hand-written transitive   *)
(* conversions of lib.rs:694-755.                                          *)
(*                                                                         *)
(* A declaration is a record: its name, generic parameters (a sequence of  *)
(* names), the attributes left on it (a set: "ast_node",                   *)
(* "derive(HasSpan)"), "enum" or "struct", and its variants or fields.  A  *)
(* field is the name of its type and the set of type names                 *)
(* gather_all_type_reprs finds in it (macro_utils, outside this            *)
(* repository: every type named in the field's type, parameters           *)
(* included).  The expansion is a set of items (types, with the traits    *)
(* they derive and, for a rewritten enum, the payload type of each         *)
(* variant) and a set of impls.                                            *)
(*                                                                         *)
(* The state is one value a caller holds, which it builds, widens,         *)
(* narrows by reference or by value, or whose `code` field it reads.       *)
(***************************************************************************)
EXTENDS Sequences, FiniteSets, Functions, TLC

CONSTANTS
    Decls,      \* [macro : {"ast", "ast_node"}, args : {"flat", ""}, decl : declaration]
    TypeParams  \* the names of generic parameters

FieldReprs(fields) == UNION {fields[i].reprs : i \in DOMAIN fields}

(***************************************************************************)
(* ast_node (macros/src/lib.rs:21-39): the item derives Eq, PartialEq,     *)
(* Debug, Iterator, Serialize and Deserialize.                             *)
(***************************************************************************)
AstNode(item) ==
    [item EXCEPT !.derives = @ \cup {"Eq", "PartialEq", "Debug", "Iterator",
                                     "Serialize", "Deserialize"}]

\* derive_has_span (lib.rs:259-290) prints the impl it builds and returns an
\* empty token stream: the item gets nothing.
DeriveHasSpan(item) == item

\* The attribute macros left on a declaration, applied to its item.
WithAttrs(item, attrs) ==
    LET a == IF "ast_node" \in attrs THEN AstNode(item) ELSE item
    IN IF "derive(HasSpan)" \in attrs THEN DeriveHasSpan(a) ELSE a

PlainItem(decl) ==
    WithAttrs([kind |-> decl.data, ident |-> decl.ident, generics |-> decl.generics,
               derives |-> {}, payloads |-> <<>>,
               fields |-> IF decl.data = "struct" THEN decl.fields ELSE <<>>],
              decl.attrs)

(***************************************************************************)
(* mk_product_type (lib.rs:81-105): the struct of one variant.  It is      *)
(* named after the constructor when the enum is flat, else enum name then  *)
(* constructor; it keeps only the enum's type parameters that its fields   *)
(* mention; it carries the enum's attributes and the variant's fields.     *)
(***************************************************************************)
\* A faulty product type that keeps every parameter of the enum.
MkProductTypeAllParams(isFlat, decl, variant) ==
    [ident    |-> IF isFlat THEN variant.ident ELSE decl.ident \o variant.ident,
     generics |-> decl.generics,
     attrs    |-> decl.attrs,
     style    |-> variant.style,
     fields   |-> variant.fields]

MkProductType(isFlat, decl, variant) ==
    [ident    |-> IF isFlat THEN variant.ident ELSE decl.ident \o variant.ident,
     generics |-> SelectSeq(decl.generics, LAMBDA p : p \in FieldReprs(variant.fields)),
     attrs    |-> decl.attrs,
     style    |-> variant.style,
     fields   |-> variant.fields]

\* gen_variant_decl (lib.rs:110-120): the constructor now holds the struct.
GenVariantDecl(ident, variant) == [con |-> ident, ty |-> variant.ident, args |-> variant.generics]

(***************************************************************************)
(* gen_from_impls (lib.rs:126-204): From<Variant> for Sum building         *)
(* `Sum::ident(t)`, and TryFrom by reference and by value matching         *)
(* `Sum::ident(elem)`, else `WrongEnum { expected_con: variant_name }`,    *)
(* variant_name being the struct's name.                                   *)
(***************************************************************************)
\* A faulty expansion matching on the struct's name instead of the
\* constructor (`#sum_label::#variant_label(elem)`).
GenFromImplsLabelPattern(ident, decl, variant) ==
    { [trait |-> t, from |-> IF t = "From" THEN variant.ident ELSE decl.ident,
       into |-> IF t = "From" THEN decl.ident ELSE variant.ident,
       con |-> IF t = "From" THEN ident ELSE variant.ident, expected |-> variant.ident]
      : t \in {"From", "TryFromRef", "TryFrom"} }

\* A faulty expansion naming the constructor in the error.
GenFromImplsConName(ident, decl, variant) ==
    { [trait |-> t, from |-> IF t = "From" THEN variant.ident ELSE decl.ident,
       into |-> IF t = "From" THEN decl.ident ELSE variant.ident,
       con |-> ident, expected |-> ident]
      : t \in {"From", "TryFromRef", "TryFrom"} }

GenFromImpls(ident, decl, variant) ==
    { [trait |-> t, from |-> IF t = "From" THEN variant.ident ELSE decl.ident,
       into |-> IF t = "From" THEN decl.ident ELSE variant.ident,
       con |-> ident, expected |-> variant.ident]
      : t \in {"From", "TryFromRef", "TryFrom"} }

\* A variant holding one unnamed field holds a type the user declared.
IsUserHeld(st) == st.style = "unnamed" /\ Len(st.fields) = 1

(***************************************************************************)
(* to_variant_types (lib.rs:215-256): the rewritten enum, the structs of   *)
(* its variants except those holding a user's type, and the impls of every *)
(* variant.  The enum and the structs carry the declaration's attributes.  *)
(***************************************************************************)
ToVariantTypes(attrs, decl) ==
    CHOOSE x \in
      { [items |-> {WithAttrs([kind |-> "enum", ident |-> decl.ident, generics |-> decl.generics,
                               derives |-> {}, fields |-> <<>>,
                               payloads |-> [i \in DOMAIN sts |->
                                               GenVariantDecl(decl.variants[i].ident, sts[i])]],
                              decl.attrs)}
                   \cup {WithAttrs([kind |-> "struct", ident |-> sts[i].ident,
                                    generics |-> sts[i].generics, derives |-> {},
                                    payloads |-> <<>>, fields |-> sts[i].fields], sts[i].attrs)
                         : i \in {j \in DOMAIN sts : ~IsUserHeld(sts[j])}},
         impls |-> UNION {GenFromImpls(decl.variants[i].ident, decl, sts[i]) : i \in DOMAIN sts}]
        : sts \in {[i \in DOMAIN decl.variants |->
                      MkProductType(attrs = "flat", decl, decl.variants[i])]} } : TRUE

\* ast (lib.rs:43-63): ast_node on the declaration, and to_variant_types
\* before it when it is an enum.
Ast(attrs, decl) ==
    LET marked == [decl EXCEPT !.attrs = @ \cup {"ast_node"}]
    IN IF decl.data = "enum" THEN ToVariantTypes(attrs, marked)
       ELSE [items |-> {PlainItem(marked)}, impls |-> {}]

Expand(d) ==
    IF d.macro = "ast" THEN Ast(d.args, d.decl)
    ELSE [items |-> {PlainItem([d.decl EXCEPT !.attrs = @ \cup {"ast_node"}])}, impls |-> {}]

Items == UNION {Expand(d).items : d \in Decls}
GenImpls == UNION {Expand(d).impls : d \in Decls}
ImplOf(t, f, i) == CHOOSE x \in GenImpls : x.trait = t /\ x.from = f /\ x.into = i

-----------------------------------------------------------------------------
(***************************************************************************)
(* Values: a struct [ty, con |-> "", val |-> <<>> or <<code>>], a sum      *)
(* [ty, con, val |-> <<payload>>].                                         *)
(***************************************************************************)
Struct(s, inner) == [ty |-> s, con |-> "", val |-> inner]
Sum(e, c, p) == [ty |-> e, con |-> c, val |-> <<p>>]

Ok(v) == [ok |-> TRUE, val |-> <<v>>, err |-> <<>>]
Err(e) == [ok |-> FALSE, val |-> <<>>, err |-> <<e>>]

\* WrongEnum (core/src/lib.rs:19-22).
WrongEnum(con) == [expected_con |-> con]

\* The generated `fn from(t)`: `Sum::ident(t)`.
From_(impl, t) == Sum(impl.into, impl.con, t)

\* The generated `try_from(value: &Sum)`.
TryFromRef_(impl, value) ==
    IF value.con = impl.con THEN Ok(value.val[1]) ELSE Err(WrongEnum(impl.expected))

\* The generated `try_from(value: Sum)`.
TryFromVal_(impl, value) ==
    IF value.con = impl.con THEN Ok(value.val[1]) ELSE Err(WrongEnum(impl.expected))

(***************************************************************************)
(* The hand-written conversions (core/src/lib.rs:694-755): a raw escape    *)
(* variant into SegmentRaw or SegmentFmt, and an Escape into SegmentFmt,   *)
(* as `SegmentRawEscape{ code: value.into() }.into()` (SegmentEscape for   *)
(* an Escape, whose into() is the identity).                               *)
(***************************************************************************)
CodeType == ("SegmentRawEscape" :> "RawEscape") @@ ("SegmentEscape" :> "Escape")

HandFroms ==
    {[trait |-> "FromVia", from |-> f, into |-> s, via |-> "SegmentRawEscape"]
       : f \in {"Unfinished", "Invalid", "Slash", "Quote", "RawQuote"}, s \in {"SegmentRaw", "SegmentFmt"}}
    \cup {[trait |-> "FromVia", from |-> "Escape", into |-> "SegmentFmt", via |-> "SegmentEscape"]}

FromVia_(impl, value) ==
    LET code == IF value.ty = CodeType[impl.via] THEN value
                ELSE From_(ImplOf("From", value.ty, CodeType[impl.via]), value)
    IN From_(ImplOf("From", impl.via, impl.into), Struct(impl.via, <<code>>))

Impls == GenImpls \cup HandFroms

\* The values a caller builds with a struct literal: every plain type's
\* value, and a segment escape around each code value.
PlainValues == {Struct(it.ident, <<>>) : it \in {x \in Items : x.payloads = <<>> /\ x.ident \notin DOMAIN CodeType}}
Literals ==
    PlainValues
    \cup UNION {{Struct(w, <<c>>) : c \in {v \in PlainValues \cup {From_(i, Struct(i.from, <<>>)) :
                                              i \in {j \in GenImpls : j.trait = "From"}}
                                        : v.ty = CodeType[w]}}
                 : w \in DOMAIN CodeType}

-----------------------------------------------------------------------------

VARIABLES
    held,   \* <<>>, or <<v>>: the value the caller owns
    last    \* the outcome of the last narrowing

vars == <<held, last>>

Init ==
    /\ held = <<>>
    /\ last = [op |-> "none", ok |-> TRUE, err |-> <<>>]

\* A struct literal.
Make(v) ==
    /\ held' = <<v>>
    /\ UNCHANGED last

\* `Sum::from(v)` / `v.into()`, generated or hand-written.
Widen(impl) ==
    /\ held # <<>>
    /\ impl.trait \in {"From", "FromVia"}
    /\ impl.from = held[1].ty
    /\ held' = <<IF impl.trait = "From" THEN From_(impl, held[1]) ELSE FromVia_(impl, held[1])>>
    /\ UNCHANGED last

\* `<&Variant>::try_from(&sum)`: the caller keeps the sum; on success it
\* goes on with the borrowed payload.
NarrowRef(impl) ==
    /\ held # <<>>
    /\ impl.trait = "TryFromRef"
    /\ impl.from = held[1].ty
    /\ LET r == TryFromRef_(impl, held[1])
       IN /\ held' = IF r.ok THEN r.val ELSE held
          /\ last' = [op |-> "ref", ok |-> r.ok, err |-> r.err]

\* `Variant::try_from(sum)`: the sum is moved in; on failure it is dropped
\* with the match and only the WrongEnum comes back.
NarrowVal(impl) ==
    /\ held # <<>>
    /\ impl.trait = "TryFrom"
    /\ impl.from = held[1].ty
    /\ LET r == TryFromVal_(impl, held[1])
       IN /\ held' = r.val
          /\ last' = [op |-> "value", ok |-> r.ok, err |-> r.err]

\* Reading the `code` of a SegmentRawEscape or SegmentEscape (lib.rs:394-396).
Field ==
    /\ held # <<>>
    /\ held[1].ty \in DOMAIN CodeType
    /\ held' = held[1].val
    /\ UNCHANGED last

Next ==
    \/ \E v \in Literals : Make(v)
    \/ \E i \in Impls : Widen(i) \/ NarrowRef(i) \/ NarrowVal(i)
    \/ Field

Spec == Init /\ [][Next]_vars

-----------------------------------------------------------------------------

ItemNames == {it.ident : it \in Items}

TypeOK ==
    /\ DOMAIN held \subseteq {1}
    /\ \A i \in DOMAIN held : held[i].ty \in ItemNames
    /\ last.op \in {"none", "ref", "value"}
    /\ last.err \in {<<>>} \cup {<<WrongEnum(n)>> : n \in ItemNames}
    /\ last.ok = (last.err = <<>>)

(***************************************************************************)
(* The expansion of the declarations of core/src/lib.rs is code rustc      *)
(* accepts, for the type of every value a caller can hold: one item has    *)
(* that name; a struct declares exactly the type parameters its fields use *)
(* (an unused one is error E0392); each constructor of a rewritten enum    *)
(* holds a declared type with as many parameters as it is given, which     *)
(* derives every trait the enum derives but Iterator (the enum's derives   *)
(* need them of its fields); and no two impls, generated or hand-written,  *)
(* implement one trait from that type to another.                          *)
(***************************************************************************)
RustTrait(i) == IF i.trait = "FromVia" THEN "From" ELSE i.trait

ExpansionCompiles ==
    \A h \in Range(held) : \A it \in {x \in Items : x.ident = h.ty} :
        /\ {x \in Items : x.ident = h.ty} = {it}
        /\ it.kind = "struct" => Range(it.generics) = FieldReprs(it.fields) \cap TypeParams
        /\ \A k \in DOMAIN it.payloads :
              \E p \in Items : /\ p.ident = it.payloads[k].ty
                               /\ Len(p.generics) = Len(it.payloads[k].args)
                               /\ it.derives \ {"Iterator"} \subseteq p.derives
        /\ \A i, j \in {x \in Impls : x.from = h.ty} :
              RustTrait(i) = RustTrait(j) /\ i.into = j.into => i = j

(***************************************************************************)
(* Spec 6 and 8: widening is total and lossless, narrowing fails with the  *)
(* name of the variant asked for exactly when the sum holds another one.   *)
(* For whatever value the caller holds after any sequence of literals,     *)
(* conversions and field reads: narrowing it (by reference or by value) to *)
(* each variant type of its sum gives its payload when that is the type    *)
(* asked for, else WrongEnum naming that type; and it widens into every    *)
(* enum one of whose constructors holds its type, from where narrowing     *)
(* gives it back.                                                          *)
(***************************************************************************)
Narrowed(i, v) == IF i.trait = "TryFromRef" THEN TryFromRef_(i, v) ELSE TryFromVal_(i, v)

NarrowingLaw ==
    \A h \in Range(held) :
        /\ \A i \in GenImpls : i.trait \in {"TryFromRef", "TryFrom"} /\ i.from = h.ty =>
              Narrowed(i, h) = IF h.val[1].ty = i.into THEN Ok(h.val[1]) ELSE Err(WrongEnum(i.into))
        /\ \A it \in Items : (\E k \in DOMAIN it.payloads : it.payloads[k].ty = h.ty) =>
              \E i \in GenImpls :
                 /\ i.trait = "From" /\ i.from = h.ty /\ i.into = it.ident
                 /\ \A j \in GenImpls : j.trait \in {"TryFromRef", "TryFrom"} /\ j.from = it.ident
                                        /\ j.into = h.ty => Narrowed(j, From_(i, h)) = Ok(h)

=============================================================================

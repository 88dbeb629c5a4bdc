------------------------------ MODULE AstNode ------------------------------
(***************************************************************************)
(* The Ast node of ast/core/src/lib.rs and its wire encoding.  The state   *)
(* is the set of Ast values the resolver and the decoder hold; children    *)
(* are shared by value (an Rc clone is the same value).  Operations:       *)
(*   New     - `Ast::new(shape, id)`: span computed by `shape.span()`      *)
(*             (children through `<Ast as HasSpan>::span`), then           *)
(*             `Ast::new_with_span`.  Also `Ast::from` and `Ast::var`,     *)
(*             which are `new` with id None.                               *)
(*   Decode  - `AstDeserializationVisitor::visit_map` over one JSON        *)
(*             object, which ends in `Ast::new_with_span` with the span    *)
(*             read from the wire.                                         *)
(* `Serialize for Ast` is the operator Encode.                             *)
(***************************************************************************)
EXTENDS AstSource, FiniteSets

CONSTANTS
    Ids,        \* model values standing for Uuids
    NoId,       \* Option<ID>::None
    WireNull,   \* a JSON null
    NameLens,   \* lengths of names and digit strings
    Offs,       \* offsets (spaces) and indents
    NewKinds,   \* the Shape variants the resolver builds with Ast::new
    PeerKinds,  \* variants a peer sends (Ast::new may have no rule for them)
    PeerSpans,  \* spans a peer writes for those
    ModuleLines, \* numbers of lines a Module has (Vec<BlockLine<..>>)
    ExtraKeys,  \* object keys outside the schema that payloads may carry
    RawEscapeKinds, \* RawEscape variants in text segments
    EscapeKinds,    \* Escape variants in formatted text segments
    MaxSegs,    \* bound on the segments of a text line
    MaxTail,    \* bound on the tail of an Ambiguous shape's ShiftedVec1 of segments
    MaxBranches, \* bound on the branches of an Ambiguous shape's path tree
    MaxNodes    \* bound on the number of distinct nodes held

VARIABLES
    nodes,      \* the Ast values built or decoded so far
    lastDecode, \* outcome of the last visit_map: "ok" or the error
    panicked,   \* <<>>, or <<shape>> when Ast::new(shape, _) panicked
    peerDecode  \* <<>>, or << [meant, got] >>: the last node a peer wrote, and what it decoded to

vars == <<nodes, lastDecode, panicked, peerDecode>>

Opt(S) == {<<>>} \cup {<<x>> : x \in S}

(***************************************************************************)
(* Shapes(K, Kinds): the shapes of the given variants whose children are   *)
(* drawn from K.  Block's `ty` does not enter any span and is left out.    *)
(***************************************************************************)
LinesOver(K) == [elem : Opt(K), off : Offs]

\* Sequences over S of length at most n.
SeqsUpTo(S, n) == UNION {[1..i -> S] : i \in 0..n}

\* Builders: the atoms and one Seq of two atoms (Rc<Builder> children).
BuilderAtoms ==
    {[kind |-> "Empty"], [kind |-> "Letter"]}
    \cup [kind : {"Space"}, span : NameLens] \cup [kind : {"Text"}, str : NameLens]
Builders == BuilderAtoms \cup [kind : {"Seq"}, first : BuilderAtoms, second : BuilderAtoms]

Escapes ==
    [kind : {"Character"} \cap EscapeKinds]
    \cup [kind : {"Control"} \cap EscapeKinds, name : NameLens]
    \cup [kind : EscapeKinds \ {"Character", "Control"}, digits : NameLens]
RawSegments ==
    [kind : {"SegmentPlain"}, value : NameLens]
    \cup [kind : {"SegmentRawEscape"}, code : [kind : RawEscapeKinds]]
FmtSegments(K) ==
    RawSegments \cup [kind : {"SegmentExpr"}, value : Opt(K)]
    \cup [kind : {"SegmentEscape"}, code : Escapes]

TextLines(k, Segs) == [kind : {k}, text : SeqsUpTo(Segs, MaxSegs)]
\* A text block of at most one line, with at most one empty line before it.
TextBlocks(k, Segs) ==
    [kind : {k}, spaces : Offs, offset : Offs,
     text : SeqsUpTo([empty_lines : SeqsUpTo(Offs, 1), text : SeqsUpTo(Segs, 1)], 1)]

(***************************************************************************)
(* The data of an Ambiguous shape (lib.rs:336-337): segs, a ShiftedVec1    *)
(* (lib.rs:51-56) of MacroAmbiguousSegment (lib.rs:434-437: a head Ast and *)
(* an optional Shifted<Ast> body), and paths, a Tree<Ast, Unit> (lib.rs:   *)
(* 31-36): an optional Unit value and an ordered sequence of (key,         *)
(* subtree) branches, keys not necessarily distinct.  Shifted (lib.rs:     *)
(* 42-49) is [wrapped, off].  Subtrees are leaves in these bounds.          *)
(***************************************************************************)
Shifted(S) == [wrapped : S, off : Offs]
ShiftedVec1(S) == [head : S, tail : SeqsUpTo(Shifted(S), MaxTail)]
AmbiguousSegments(K) == [head : K, body : Opt(Shifted(K))]
TreeLeaves == [value : Opt({"Unit"}), branches : {<<>>}]
Trees(K) == [value : Opt({"Unit"}), branches : SeqsUpTo(K \X TreeLeaves, MaxBranches)]

ShapesOf(k, K) ==
    CASE k \in {"Var", "Cons", "Opr", "Mod"} -> [kind : {k}, name : NameLens]
      [] k = "Blank"         -> {[kind |-> "Blank"]}
      [] k = "Number"        -> [kind : {k}, base : Opt(NameLens), int : NameLens]
      [] k = "InvalidSuffix" -> [kind : {k}, elem : K, suffix : NameLens]
      [] k = "Prefix"        -> [kind : {k}, func : K, off : Offs, arg : K]
      [] k = "Infix"         -> [kind : {k}, larg : K, loff : Offs, opr : K, roff : Offs, rarg : K]
      [] k = "SectionLeft"   -> [kind : {k}, arg : K, off : Offs, opr : K]
      [] k = "SectionRight"  -> [kind : {k}, opr : K, off : Offs, arg : K]
      [] k = "SectionSides"  -> [kind : {k}, opr : K]
      [] k = "Module"        -> [kind : {k}, lines : UNION {[1..n -> LinesOver(K)] : n \in ModuleLines}]
      [] k = "Block"         -> [kind : {k}, indent : Offs, empty_lines : {<<>>, <<0>>},
                                 first_line : [elem : K, off : Offs],
                                 lines : {<<>>} \cup {<<l>> : l \in LinesOver(K)},
                                 is_orphan : BOOLEAN]
      [] k = "Group"         -> [kind : {k}, body : Opt(K)]
      [] k = "Ambiguous"     -> [kind : {k}, segs : ShiftedVec1(AmbiguousSegments(K)), paths : Trees(K)]
      [] k = "Unrecognized"  -> [kind : {k}, str : NameLens]
      [] k \in {"InvalidQuote", "InlineBlock"} -> [kind : {k}, quote : Builders]
      [] k = "DanglingBase"  -> [kind : {k}, base : NameLens]
      [] k = "TextLineRaw"   -> TextLines(k, RawSegments)
      [] k = "TextLineFmt"   -> TextLines(k, FmtSegments(K))
      [] k = "TextBlockRaw"  -> TextBlocks(k, RawSegments)
      [] k = "TextBlockFmt"  -> TextBlocks(k, FmtSegments(K))
      [] k = "TextUnclosed"  -> [kind : {k}, line : TextLines("TextLineRaw", RawSegments)
                                                   \cup TextLines("TextLineFmt", FmtSegments(K))]

Shapes(K, Kinds) == UNION {ShapesOf(k, K) : k \in Kinds}

(***************************************************************************)
(* MapKids(s, F): s with F applied to every child Ast field.               *)
(***************************************************************************)
MapOpt(o, F(_)) == IF o = <<>> THEN <<>> ELSE <<F(o[1])>>
MapLines(ls, F(_)) == [i \in 1..Len(ls) |-> [elem |-> MapOpt(ls[i].elem, F), off |-> ls[i].off]]

MapSegs(segs, F(_)) ==
    [i \in 1..Len(segs) |-> IF segs[i].kind = "SegmentExpr"
                            THEN [segs[i] EXCEPT !.value = MapOpt(@, F)] ELSE segs[i]]

\* The Ast fields of a MacroAmbiguousSegment, and of the segments of segs.
MapSegment(g, F(_)) == [head |-> F(g.head), body |-> MapOpt(g.body, LAMBDA b : [b EXCEPT !.wrapped = F(@)])]
MapSegments(v, F(_)) ==
    [head |-> MapSegment(v.head, F),
     tail |-> [i \in 1..Len(v.tail) |-> [wrapped |-> MapSegment(v.tail[i].wrapped, F), off |-> v.tail[i].off]]]

MapKids(s, F(_)) ==
    CASE s.kind = "Prefix"        -> [s EXCEPT !.func = F(@), !.arg = F(@)]
      [] s.kind = "Infix"         -> [s EXCEPT !.larg = F(@), !.opr = F(@), !.rarg = F(@)]
      [] s.kind \in {"SectionLeft", "SectionRight"} -> [s EXCEPT !.arg = F(@), !.opr = F(@)]
      [] s.kind = "SectionSides"  -> [s EXCEPT !.opr = F(@)]
      [] s.kind = "InvalidSuffix" -> [s EXCEPT !.elem = F(@)]
      [] s.kind = "Module"        -> [s EXCEPT !.lines = MapLines(@, F)]
      [] s.kind = "Block"         -> [s EXCEPT !.first_line.elem = F(@), !.lines = MapLines(@, F)]
      [] s.kind = "Group"         -> [s EXCEPT !.body = MapOpt(@, F)]
      [] s.kind = "Ambiguous"     -> [s EXCEPT !.segs = MapSegments(@, F)]
      [] s.kind = "TextLineFmt"   -> [s EXCEPT !.text = MapSegs(@, F)]
      [] s.kind = "TextBlockFmt"  ->
            [s EXCEPT !.text = [i \in 1..Len(@) |-> [@[i] EXCEPT !.text = MapSegs(@, F)]]]
      [] s.kind = "TextUnclosed" /\ s.line.kind = "TextLineFmt" ->
            [s EXCEPT !.line.text = MapSegs(@, F)]
      [] OTHER                    -> s

(***************************************************************************)
(* Serialize for Ast (lib.rs:218-230): a JSON object, here the sequence of *)
(* its <<key, value>> entries: "shape" (children encoded the same way),    *)
(* "id" only when the id is Some, then "span" from the cached field.       *)
(***************************************************************************)
(***************************************************************************)
(* Serde's derived impls for Tree<Ast, Unit> (lib.rs:31-36): an object     *)
(* with "value", where an Option is null for None and its content for      *)
(* Some, and "branches", an array of [key, subtree] pairs, each key an Ast *)
(* object.  `pub struct Unit{}` (lib.rs:89-98) is a struct with braces so  *)
(* that serde_json writes it as an empty object, not as null (its comment: *)
(* serde issue 1690).  u is the JSON a present Unit is written as.         *)
(***************************************************************************)
EmptyObject == "{}"
\* A faulty `pub struct Unit;`: a unit struct, which serde_json writes as null.
UnitStructJson == WireNull
UnitJson == EmptyObject

RECURSIVE Encode(_), TreeToWire(_, _)
TreeToWire(t, u) ==
    [value |-> IF t.value = <<>> THEN WireNull ELSE u,
     branches |-> [i \in DOMAIN t.branches |->
                     <<Encode(t.branches[i][1]), TreeToWire(t.branches[i][2], u)>>]]

ShapeToWire(s, u) == IF s.kind = "Ambiguous" THEN [s EXCEPT !.paths = TreeToWire(@, u)] ELSE s

Encode(a) ==
    << <<"shape", ShapeToWire(MapKids(a.shape, Encode), UnitJson)>> >>
    \o (IF a.id # NoId THEN << <<"id", a.id>> >> ELSE <<>>)
    \o << <<"span", a.span>> >>

(***************************************************************************)
(* visit_map (lib.rs:244-266).  Each key is matched against the schema;    *)
(* "shape" decodes the nested shape (its children through this visitor,    *)
(* an error there is returned by `?`), "id" stores Some(value) where a     *)
(* JSON null is None, "span" stores the number; a repeated key overwrites. *)
(* The `_ => {}` arm does not call next_value, so serde_json's MapAccess   *)
(* next calls next_key with the unknown key's value still unread and fails *)
(* with "expected `,` or `}`".  After the loop a missing shape or span is  *)
(* `missing_field`; a missing id is None.                                  *)
(***************************************************************************)
Ok(v) == [ok |-> TRUE, val |-> v, err |-> "none"]
Err(e) == [ok |-> FALSE, val |-> "none", err |-> e]

FirstErr(rs) ==
    LET bad == {i \in DOMAIN rs : ~rs[i].ok}
    IN IF bad = {} THEN Ok(<<>>) ELSE rs[CHOOSE i \in bad : \A j \in bad : i <= j]

\* The Ast fields serde visits in a shape, in field order: the T fields, and
\* for Ambiguous the Ast fields of its segments (its paths are read apart).
SegmentAsts(g) == <<g.head>> \o MapOpt(g.body, LAMBDA b : b.wrapped)
WireKids(s) ==
    IF s.kind = "Ambiguous"
    THEN SegmentAsts(s.segs.head) \o Flatten([i \in 1..Len(s.segs.tail) |-> SegmentAsts(s.segs.tail[i].wrapped)])
    ELSE Kids(s)

(***************************************************************************)
(* Deserialize for Tree<Ast, Unit>: "value" first, where null is None and  *)
(* otherwise a Unit is read, which only the Unit's own encoding is; then   *)
(* the branches in order, each key through visit_map, then its subtree.   *)
(***************************************************************************)
RECURSIVE DecodeAst(_), TreeFromWire(_)
TreeFromWire(t) ==
    CHOOSE r \in { LET errs == [i \in DOMAIN bs |-> IF bs[i][1].ok THEN bs[i][2] ELSE bs[i][1]]
                   IN CASE t.value \notin {WireNull, UnitJson} -> Err("invalid type: expected unit struct Unit")
                        [] ~FirstErr(errs).ok -> FirstErr(errs)
                        [] OTHER -> Ok([value |-> IF t.value = WireNull THEN <<>> ELSE <<"Unit">>,
                                       branches |-> [i \in DOMAIN bs |-> <<bs[i][1].val, bs[i][2].val>>]])
                 : bs \in {[i \in DOMAIN t.branches |->
                             <<DecodeAst(t.branches[i][1]), TreeFromWire(t.branches[i][2])>>]} } : TRUE

DecodePaths(s) == IF s.kind = "Ambiguous" THEN TreeFromWire(s.paths) ELSE Ok(<<>>)
WithPaths(s, t) == IF s.kind = "Ambiguous" THEN [s EXCEPT !.paths = t] ELSE s

\* The children are decoded once (dec is bound, not re-expanded); the first
\* failing child in field order gives the error, as `?` returns it.
DecodeShape(s) ==
    CHOOSE r \in { CASE ~FirstErr(WireKids(dec)).ok -> FirstErr(WireKids(dec))
                     [] ~paths.ok -> paths
                     [] OTHER -> Ok(WithPaths(MapKids(dec, LAMBDA x : x.val), paths.val))
                 : dec \in {MapKids(s, DecodeAst)}, paths \in {DecodePaths(s)} } : TRUE

\* A faulty visitor step that keeps a JSON null id as the id itself.
VisitIdRaw(st, entry) ==
    CASE st.err # "none" -> st
      [] entry[1] = "shape" ->
           LET r == DecodeShape(entry[2])
           IN IF r.ok THEN [st EXCEPT !.shape = <<r.val>>] ELSE [st EXCEPT !.err = r.err]
      [] entry[1] = "id"    -> [st EXCEPT !.id = <<entry[2]>>]
      [] entry[1] = "span"  -> [st EXCEPT !.span = <<entry[2]>>]
      [] OTHER              -> [st EXCEPT !.err = "ExpectedObjectCommaOrEnd"]

Visit(st, entry) ==
    LET key == entry[1]
        val == entry[2]
    IN CASE st.err # "none" -> st
         [] key = "shape" ->
              LET r == DecodeShape(val)
              IN IF r.ok THEN [st EXCEPT !.shape = <<r.val>>] ELSE [st EXCEPT !.err = r.err]
         [] key = "id"    -> [st EXCEPT !.id = <<IF val = WireNull THEN NoId ELSE val>>]
         [] key = "span"  -> [st EXCEPT !.span = <<val>>]
         [] OTHER         -> [st EXCEPT !.err = "ExpectedObjectCommaOrEnd"]

RECURSIVE VisitAll(_, _)
VisitAll(st, p) == IF p = <<>> THEN st ELSE VisitAll(Visit(st, Head(p)), Tail(p))

\* A faulty decoder that treats "id" as required like "shape" and "span".
DecodeAstIdRequired(p) ==
    LET st == VisitAll([shape |-> <<>>, id |-> <<>>, span |-> <<>>, err |-> "none"], p)
    IN CASE st.err # "none"  -> Err(st.err)
         [] st.shape = <<>>  -> Err("missing field shape")
         [] st.id = <<>>     -> Err("missing field id")
         [] st.span = <<>>   -> Err("missing field span")
         [] OTHER            -> Ok([shape |-> st.shape[1], id |-> st.id[1], span |-> st.span[1]])

DecodeAst(p) ==
    LET st == VisitAll([shape |-> <<>>, id |-> <<>>, span |-> <<>>, err |-> "none"], p)
    IN CASE st.err # "none"  -> Err(st.err)
         [] st.shape = <<>>  -> Err("missing field shape")
         [] st.span = <<>>   -> Err("missing field span")
         [] OTHER            -> Ok([shape |-> st.shape[1],
                                    id    |-> IF st.id = <<>> THEN NoId ELSE st.id[1],
                                    span  |-> st.span[1]])

(***************************************************************************)
(* Payloads the decoder is given: every arrangement of a subset of a held  *)
(* node's top-level entries, with a null id when it has none and with the  *)
(* ExtraKeys; and objects a peer sends for PeerKinds over held nodes.      *)
(***************************************************************************)
RECURSIVE Arrangements(_)
Arrangements(E) ==
    {<<>>} \cup UNION { {<<e>> \o r : r \in Arrangements(E \ {e})} : e \in E }

EntriesOf(a) ==
    LET enc == Encode(a)
    IN {enc[i] : i \in DOMAIN enc}
       \cup (IF a.id = NoId THEN {<<"id", WireNull>>} ELSE {})
       \cup {<<k, 0>> : k \in ExtraKeys}

\* The object a peer writes for a node of shape s and span sp, with no id,
\* in the fixed wire schema: a present Unit is the empty object.
PeerPayload(s, sp) == << <<"shape", ShapeToWire(MapKids(s, Encode), EmptyObject)>>, <<"span", sp>> >>

Payloads == UNION {Arrangements(EntriesOf(a)) : a \in nodes}

-----------------------------------------------------------------------------

Init ==
    /\ nodes = {}
    /\ lastDecode = "ok"
    /\ panicked = <<>>
    /\ peerDecode = <<>>

\* Ast::new (lib.rs:156-168): span = shape.span(), a panic when the shape or
\* any child's recomputed span has no rule; else new_with_span.
New(shape, id) ==
    /\ panicked = <<>>
    /\ Cardinality(nodes) < MaxNodes
    /\ IF ShapeSpan(shape, FALSE) = Panic
       THEN /\ panicked' = <<shape>>
            /\ UNCHANGED nodes
       ELSE /\ nodes' = nodes \cup {[shape |-> shape, id |-> id, span |-> ShapeSpan(shape, FALSE)]}
            /\ UNCHANGED panicked
    /\ UNCHANGED <<lastDecode, peerDecode>>

\* Deserialize for Ast (lib.rs:269-276): the node visit_map returned, or its error.
Visited(r) ==
    /\ panicked = <<>>
    /\ IF r.ok THEN r.val \in nodes \/ Cardinality(nodes) < MaxNodes ELSE TRUE
    /\ nodes' = IF r.ok THEN nodes \cup {r.val} ELSE nodes
    /\ lastDecode' = IF r.ok THEN "ok" ELSE r.err
    /\ UNCHANGED panicked

\* Deserialize for Ast on an object of this side's encoding.
Decode(p) == \E r \in {DecodeAst(p)} : Visited(r) /\ UNCHANGED peerDecode

\* Deserialize for Ast on the object a peer wrote for a node of shape s.
PeerDecode(s, sp) ==
    \E r \in {DecodeAst(PeerPayload(s, sp))} :
        /\ Visited(r)
        /\ peerDecode' = << [meant |-> [shape |-> s, id |-> NoId, span |-> sp], got |-> r] >>

Next ==
    \/ Cardinality(nodes) < MaxNodes /\ \E s \in Shapes(nodes, NewKinds), id \in Ids \cup {NoId} : New(s, id)
    \/ \E p \in Payloads : Decode(p)
    \/ Cardinality(nodes) < MaxNodes /\ \E s \in Shapes(nodes, PeerKinds), sp \in PeerSpans : PeerDecode(s, sp)

Spec == Init /\ [][Next]_vars

-----------------------------------------------------------------------------

TypeOK ==
    /\ \A a \in nodes :
          /\ a.shape.kind \in NewKinds \cup PeerKinds
          /\ a.shape \in ShapesOf(a.shape.kind, nodes)
          /\ a.id \in Ids \cup {NoId}
          /\ a.span \in Nat
    /\ lastDecode \in STRING
    /\ \A i \in DOMAIN peerDecode : peerDecode[i].meant.shape.kind \in PeerKinds
    /\ panicked # <<>> => panicked[1].kind \in NewKinds /\ panicked[1] \in ShapesOf(panicked[1].kind, nodes)

\* The payloads that carry every entry Serialize wrote for a, in any key
\* order, with an explicit null id where Serialize omitted it.
Reencodings(a) ==
    LET enc == Encode(a)
    IN {p \in Arrangements({e \in EntriesOf(a) : e[1] \notin ExtraKeys}) :
          \A i \in DOMAIN enc : \E j \in DOMAIN p : p[j] = enc[i]}

(***************************************************************************)
(* Wire round trip (lib.rs:218-276, test serialization_round_trip): for   *)
(* every node held, built by Ast::new or decoded, Serialize writes no "id" *)
(* key when the id is None, and visit_map gives back the same node from    *)
(* that object whatever the order of its keys and whether the absent id is *)
(* omitted or null.                                                        *)
(***************************************************************************)
WireRoundTrip ==
    \A a \in nodes :
        /\ (a.id = NoId) <=> (\A i \in DOMAIN Encode(a) : Encode(a)[i][1] # "id")
        /\ \A p \in Reencodings(a) : DecodeAst(p) = Ok(a)

(***************************************************************************)
(* Spec 4.1: a span counts source code points.  Every node held, built by  *)
(* Ast::new through the span algebra (text lines, text blocks, segments,   *)
(* escapes, builders, applications, layout) or decoded, has as its span    *)
(* the length of the source text it stands for, its children's included.  *)
(***************************************************************************)
SpanIsSourceLength == \A a \in nodes : a.span = Len(SourceText(a))

(***************************************************************************)
(* Ast::new fails only for a shape that has no span rule of its own: a     *)
(* shape whose children are already-built nodes, with their span cached,  *)
(* never panics because of a child.  (The spec: the span is cached at      *)
(* construction and never recomputed.)                                     *)
(***************************************************************************)
NewPanicsOnlyOnOwnShape ==
    panicked # <<>> => ShapeSpan(panicked[1], TRUE) = Panic

(***************************************************************************)
(* Spec 4.3 and 6: the wire schema is fixed by a peer implementation.      *)
(* Every object a peer writes for a node, over the nodes held, in that     *)
(* schema (no id, a present Unit of an Ambiguous path tree as an empty     *)
(* object, the branches in their order) decodes to the node it stands for. *)
(***************************************************************************)
PeerNodesUnderstood == \A i \in DOMAIN peerDecode : peerDecode[i].got.ok /\ peerDecode[i].got.val = peerDecode[i].meant

(***************************************************************************)
(* The `_ => {}` arm of visit_map (lib.rs:258) means an object key outside *)
(* the schema is skipped: decoding never fails because of one.             *)
(***************************************************************************)
UnknownKeySkipped == lastDecode # "ExpectedObjectCommaOrEnd"

=============================================================================

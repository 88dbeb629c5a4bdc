# TLA+ models of the AST core and JSON-RPC messages

These modules model three Rust crates of this repository:

- `src/common/rust/ast/core/src/lib.rs`: the syntax-tree node `Ast`, its span algebra, its wire encoding and its traversal.
- `src/common/rust/ast/macros/src/lib.rs`: the `ast`, `ast_node` and `to_variant_types` attribute macros, which give every enum variant a struct of its own with `From` and `TryFrom` conversions.
- `src/common/rust/json-rpc/src/messages.rs`: the JSON-RPC message types and their serde encoding.

## The system's parts and how they interact

- **Span algebra** (`impl HasSpan for Shape<T>` and its per-variant impls). This is a pure function from a shape to its length in source code points.
- **Ast node** (`Ast::new`, `Ast::new_with_span`, `From<T> for Ast`). Each node is an immutable `Rc<WithID<WithSpan<Shape<Ast>>>>`, so parents share children.
  - `Ast::new` computes the span through the span algebra.
  - `new_with_span` stores a span the caller supplies. The decoder uses it.
  - `<Ast as HasSpan>::span` (lib.rs:191-195) never reads the cached `span` field. WithSpan has no HasSpan impl, so the call derefs to `Shape` and recomputes the span through every child.
- **Wire encoding**:
  - `Serialize for Ast` writes `shape`, then `id` only when it is present, then `span`.
  - `AstDeserializationVisitor::visit_map` reads keys in any order.
- **Traversal**. `iterate_subtree` / `Ast::traverse` is a generator over an explicit stack. Many readers may traverse shared subtrees; each has its own generator over immutable nodes, so they share no mutable state.
- **Variant types** (macros crate). `#[ast]` on an enum runs `to_variant_types`: each variant becomes a struct (`mk_product_type`), the enum holds those structs (`gen_variant_decl`), and `gen_from_impls` writes `From<Variant> for Enum` (widen), `TryFrom<&Enum>` and `TryFrom<Enum>` (narrow, failing with `WrongEnum{expected_con}`). lib.rs adds hand-written transitive `From` impls from the raw escapes to `SegmentRaw` and `SegmentFmt` (lib.rs:694-755).
- **JSON-RPC messages**. `Message::new_*` builds a message and serde serializes it. The client reads what arrives as an `IncomingMessage`: it tries `Response`, then `Notification<serde_json::Value>`, which takes any other JSON object whole.

## Modules

| module | models | state / actions |
|---|---|---|
| `AstSpan` | span algebra, `Kids` (`IntoIterator for &Ast`) | operators only. `Span` is the recursive accessor and `Panic` is the outcome of the `panic!` arm. |
| `AstSource` | a reference, not code | `SourceText(a)` is the sequence of code points a node stands for. It is built from the lexical symbols lib.rs defines (quotes, backslash, backtick, unicode introducers, `_`) and the layout of spec §4.1. It is independent of the span rules. |
| `AstNode` | `Ast::new`, Serialize, visit_map, Deserialize | `nodes` is the set of Ast values that exist (sharing is value equality). `panicked` records a panic of `Ast::new`. `lastDecode` is the last decode result, and `peerDecode` the last node a peer wrote with what it decoded to. Actions: `New(shape, id)`, `Decode(payload)`, where a payload is any key order of an own encoding, with an omitted or null id and possibly an unknown key, and `PeerDecode(shape, span)`, a node a peer writes in the fixed wire schema. The Ambiguous shape carries its `ShiftedVec1` of segments and its `Tree<Ast, Unit>` of paths. Their serde layouts are `TreeToWire`/`TreeFromWire`, which call `Encode`/`DecodeAst` on the tree's keys. `UnitJson` is how `struct Unit{}` is written: an empty object, never null. |
| `AstTraverse` | `iterate_subtree` | one stack per reader and the sequence each reader has been yielded. `Step(r)` is one iteration of the while loop: pop, push the children in order, yield. |
| `JsonRpcMessages` | messages.rs | a one-message slot, the last received message (who sent it, what was meant, what was decoded), and the last outgoing request. Actions: send request, success, error (data from `ErrorData`) or notification (own), `PeerSend` (a JSON-RPC 2.0 peer's messages), and `Receive` (decode as IncomingMessage: `DecodeResponse`, else `DecodeNotification`, the whole object as a `Value`). |
| `VariantTypes` | macros/src/lib.rs, the conversions of core lib.rs | the expansion is operators: `Ast`, `AstNode`, `ToVariantTypes`, `MkProductType`, `GenVariantDecl`, `GenFromImpls`, applied to the declarations `Decls` (`MCVariantTypes` lists those of lib.rs). A field is abstracted to its type name and the type names `gather_all_type_reprs` finds in it. State: the value a caller `held` and the `last` conversion. Actions: `Make` a literal, `Widen` (a generated or hand-written `From`), `NarrowRef` and `NarrowVal` (the two `TryFrom`s), and `Field` (reading `code` of `SegmentRawEscape` / `SegmentEscape`). |

The `MC*` modules give the constants values.

## Runs

| run | expect | what it shows |
|---|---|---|
| `ast_node_wire` | pass | Every node built or decoded re-encodes without an `id` key when it has none. It decodes back to itself from any key order, with an omitted or a null id. Every node a peer writes in the fixed schema decodes to that node (`PeerNodesUnderstood`). That includes an Ambiguous node whose path tree has a present `Unit` and two branches, so branch order counts. If `Unit` were a unit struct (serialized as null, the serde issue its comment names), the peer's `{}` would fail to decode. |
| `ast_new_over_decoded` | violation | A node decoded from the wire whose kind has no span rule (Group) makes `Ast::new` of any parent panic. The cause is that span() recomputes children and does not use their cached span. The spec says the span is cached and never recomputed. A decoded Module with no lines (spec §4.1 requires one; visit_map does not check) fails the same way, at the assert of `Module::span` (lib.rs:1181). |
| `ast_decode_unknown_key` | violation | The `_ => {}` arm of visit_map does not consume the value, so an unknown key makes the decode fail instead of being skipped. |
| `ast_text_span` | pass | Every text line, text block, unclosed line and inline quote built by `Ast::new` has a span equal to the length of its source text. This covers raw escapes (including the span-0 `Unfinished`), unicode escapes with opener and closer, and expression segments nesting another node. |
| `ast_mod_span` | violation | `Mod::span` is `name + 1 // FIXME` (lib.rs:1098). Spec §4.1 says an identifier's span is the length of its name. |
| `ast_traverse` | pass | Two readers over a DAG with shared nodes each get exactly a depth-first pre-order with siblings last-to-first. A shared node is yielded once per path. Each reader terminates. |
| `ast_traverse_order` | violation | Spec §4.2 says children come in left-to-right field order. The stack yields them right-to-left. |
| `jsonrpc_own` | pass | Every response and notification this code serializes decodes to the same variant and contents (error data `None` or an object). |
| `jsonrpc_error_null_data` | violation | An error built with data `Some(Value::Null)` is written as `"data": null` and read back with data `None`. |
| `variant_narrowing` | pass | The expansion of every `#[ast]`/`#[ast_node]` declaration is well formed: each struct keeps exactly the type parameters its fields use, no two items share a name, and every impl's types exist. Whatever value a caller reaches through literals, generated and hand-written widenings, narrowings and field reads narrows back to its own variant, and a narrowing to any other fails with `WrongEnum` naming the wanted variant. |
| `jsonrpc_peer` | violation | A JSON-RPC 2.0 peer's response with a string (or null) id, or an error response with its fields in `"error": {...}`, is not a `Response`; the client reads it as a `Notification` of the whole object, with no decode error, and the call it answers is never answered. Peer notifications, with `params` or without, are read as notifications. |

Each property of a pass run has a mutant in PROJECT.json, and the mutant breaks it. Examples: popping the front of the stack, stopping while one node is left, and nesting the error fields.

## Bounds

- **AstNode**
  - One id, name length 1, offsets {0,1}, kinds Var, Mod, Number, Prefix, Module, Block.
  - At most 2 nodes, which is enough for a parent over a child.
  - All arrangements of up to 4 keys are decoded.
  - A peer writes Ambiguous nodes over a held node. Each has a head segment with an optional Shifted body, at most one tail segment (`MaxTail`), and a path tree whose value is None or a Unit, with at most 2 branches to leaves (`MaxBranches`). A peer's node is a new node, so `PeerDecode` runs only while there is room under `MaxNodes`.
- **AstNode, text** (`ast_text_span`)
  - Name length 1 and offset 1, so spaces are counted.
  - Raw escape `Unfinished` (span 0) and escape `Unicode21` (opener and closer).
  - At most 2 segments per line, and at most one line per block with at most one empty line before it.
  - Builders up to one `Seq` of atoms.
  - 2 nodes, so that a formatted text can nest another node in an expression segment.
- **AstTraverse**
  - A fixed DAG of 6 nodes: a Module of 3 lines over Infix, Prefix, Section and identifier nodes, where two nodes are shared.
  - Two readers.
- **JsonRpc**
  - Two ids, one error code, one method, payloads {object, null}.
  - Peer ids are a number and a string.
  - Error data: none or an object (none, an object or null in `jsonrpc_error_null_data`).
- **VariantTypes**
  - The declarations of lib.rs that carry `#[ast]` or `#[ast_node]`, with `Shape` cut to 13 variants that differ in kind (no field, a `T` field, a user struct, a container naming `T` or not); `MacroPatternRaw` and `MacroPatternMatchRaw` with all 22 variants each, transcribed from lib.rs:439-521. The run takes about 13 s (24,361 states).
  - Every literal the values start from, and every conversion of them. The reachable values are a few levels deep, and each one is checked.
- **AstNode, panic** (`ast_new_over_decoded`): the peer sends a Group or a Module of 0 lines, and there are at most 3 nodes, so a Prefix can be built over the decoded node.

The failures found need only one level of nesting or one message, so these bounds reach them. The passing properties are per-node or per-message laws, and larger bounds repeat the same cases.

## Fairness

A caller of `traverse()` drains the iterator, so each reader's `Step` is weakly fair. The traversal ends, so `CHECK_DEADLOCK FALSE` is set for that run. The other runs use safety only.

## Not modelled

- `MacroPatternMatchRaw::span` (constant 0) is reached from no shape.
- `gather_all_type_reprs` is in `macro_utils`, which is not in this repository. A field's type names are given directly in the declarations.
- A by-value `TryFrom` consumes the sum, and on failure the caller keeps only `WrongEnum`. That is the contract of the signature; the by-reference impl keeps the value.
- visit_map trusts the span on the wire. Spec §4.2 makes the caller of `new_with_span` responsible for it.
- The token-level parts of the macros (quote!, spans of identifiers) are abstracted to records.
- `MacroPatternRaw` and `MacroPatternMatchRaw` are declared in full for the expansion (`MCVariantTypes`). Beyond that they are plain data with no operations in this code. The matching they describe is done by the external resolver (spec §4.4). The Tree, Shifted and segment types are modelled only as the data of the Ambiguous shape on the wire.
- Match and Ambiguous hold their inner Ast values in fields typed `Ast`, not `T`. The Iterator derive that `traverse()` walks lives in the shapely crate, outside the repository, so `Kids` gives no children for them and no property says whether traversal reaches inside a macro node.
- `derive_has_span` generates nothing. `DeriveHasSpan` is the identity, and TextLine's `HasSpan` is the hand-written impl at lib.rs:890.
- The `Layer` trait and its impls for `Layered`, `WithID` and `WithSpan` (lib.rs:60-86, 626-664) are not used to build any `Ast` in this code. `WithSpan::layered` would compute the same span as `Ast::new`, from the variant's own `span()`.
- The `jsonrpc` version is written as "2.0" and never read back: `IncomingMessage` has no such member.
- `jsclient.rs` does not compile, and `build.rs` is build-time file I/O.
- Recursion depth of the span computation cannot be observed by TLC.
- The source lines no definition maps are: the two `#[cfg(test)]` modules, the character and quote constants (lib.rs:836-875, used only through the source text `AstSource` builds), the spaceless shapes' declarations (Comment, Import, Mixfix, Group, Def, Foreign), whose span is the "not yet specified" panic, `Either`/`Switch`, and the declarations listed above. None of them changes state or decides anything a property could observe, so modelling them further would only transliterate data.

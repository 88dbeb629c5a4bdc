----------------------------- MODULE MCAstNode -----------------------------
EXTENDS AstNode

CONSTANTS u1

MCIds == {u1}
MCNameLens == {1}
MCOffs == {0, 1}
\* The resolver's shapes: identifiers, numbers, applications and layout.
MCNewKinds == {"Var", "Mod", "Number", "Prefix", "Module", "Block"}
\* A peer's spaceless Group, which Shape::span does not cover.
MCPeerKinds == {"Group"}
MCPeerSpans == {2}
\* Text, text blocks and quotes, and a variable to nest in a text's
\* expression segment; the raw escape of span 0 and the escape
\* with both an opener and a closer; nonzero offsets.
MCTextKinds == {"Var", "TextLineRaw", "TextLineFmt", "TextBlockRaw", "TextBlockFmt",
                "TextUnclosed", "InlineBlock"}
MCRawEscapeKinds == {"Unfinished"}
MCEscapeKinds == {"Unicode21"}
MCTextOffs == {1}
=============================================================================

----------------------------- MODULE BlockWriter -----------------------------
(* How both stream converters of conversion/anthropic_openai.py write        *)
(* content blocks: operators on a converter's state, which collect the       *)
(* events of one upstream chunk in its field "out".  The Responses           *)
(* converter's _open_block and _close_block are the chat converter's, but    *)
(* for the citations; and so is its _emit_content, but for the blank line    *)
(* between two parts of a reasoning summary, which is left out.              *)
EXTENDS Naturals, SequencesExt

CONSTANT None

\* index: blocks opened so far; kind, open: of the last; deferred: text held back while a
\* call is live; cites, cited: annotations came, were written.
NoBlocks == [index |-> 0, kind |-> None, open |-> FALSE, calls |-> <<>>, live |-> 0,
             deferred |-> <<>>, finish |-> None, cites |-> FALSE, cited |-> FALSE, out |-> <<>>]

\* f, and g where f says nothing: TLC's f @@ g, which the provers do not know.
Merge(f, g) == [x \in DOMAIN f \cup DOMAIN g |-> IF x \in DOMAIN f THEN f[x] ELSE g[x]]

Yield(s, events) == [s EXCEPT !.out = @ \o events]
Start(i, k, id)  == [e |-> "start", i |-> i, k |-> k, id |-> id]
Delta(i, k, d)   == [e |-> "delta", i |-> i, k |-> k, d |-> d]
Stop(i)          == [e |-> "stop", i |-> i]
Current(s)       == s.index - 1

\* Reasoning has no signature of its own; the first text block closed after
\* annotations came carries the citations.
CloseBlock(s) ==
    IF ~s.open THEN s
    ELSE LET cite == s.kind = "text" /\ s.cites /\ ~s.cited
             tail == IF s.kind = "thinking" THEN <<Delta(Current(s), "signature", None)>>
                     ELSE IF cite THEN <<Delta(Current(s), "citation", None)>> ELSE <<>>
         IN [Yield(s, tail \o <<Stop(Current(s))>>) EXCEPT !.open = FALSE, !.cited = @ \/ cite]

OpenBlock(s, kind, id) ==
    LET c == CloseBlock(s)
    IN [Yield(c, <<Start(c.index, kind, id)>>) EXCEPT !.index = @ + 1, !.kind = kind, !.open = TRUE]

\* Mutant: text is written into whatever block is open.
EmitContentAtOnce(s, kind, piece) ==
    LET o == IF s.open /\ s.kind = kind THEN s ELSE OpenBlock(s, kind, None)
    IN Yield(o, <<Delta(Current(o), kind, <<piece>>)>>)
\* Text is never interleaved into the live call's block: it is deferred.
EmitContent(s, kind, piece) ==
    IF s.live # 0 THEN [s EXCEPT !.deferred = Append(@, <<kind, piece>>)]
    ELSE LET o == IF s.open /\ s.kind = kind THEN s ELSE OpenBlock(s, kind, None)
         IN Yield(o, <<Delta(Current(o), kind, <<piece>>)>>)

\* The text that waited, in its order.
EmitDeferred(s) ==
    FoldLeft(LAMBDA t, p : EmitContent(t, p[1], p[2]), [s EXCEPT !.deferred = <<>>], s.deferred)

\* A message has at least one block.
AtLeastOne(s) == IF s.index = 0 THEN CloseBlock(OpenBlock(s, "text", None)) ELSE s
=============================================================================

----------------------------- MODULE ChatStream -----------------------------
(* A chat completion stream turned into an Anthropic message stream while it *)
(* runs: OpenAIToAnthropicConverter (conversion/anthropic_openai.py) driven  *)
(* by anthropic_adapter_messages_stream (providers/anthropic_adapter.py).    *)
(*                                                                           *)
(* The upstream interleaves text, reasoning and the fragments of its tool    *)
(* calls, which name their call by index, by id, by both or by neither.  A   *)
(* chunk with several parts is those parts one after another: the converter  *)
(* handles reasoning, text, calls and the finish reason in that order.       *)
EXTENDS BlockWriter

CONSTANTS Calls,        \* tool calls the model makes, numbered from 0
          MaxPieces,    \* bound: argument fragments of any two calls
          MaxTexts,     \* bound: pieces of text or reasoning
          MaxRetries    \* _MAX_PARAM_RETRIES

\* How an upstream names the call a fragment belongs to.
Dialects == {"indexed",     \* index always, id and name first
             "late",        \* the name comes after the id
             "noids",       \* no id at all
             "oneindex",    \* every call under one index, told apart by a new id (Gemini)
             "freshids"}    \* a new id with each fragment, the name only with the first

VARIABLES
    dialect,
    given,      \* what the upstream meant: the pieces of each call, and the text in order
    named,      \* calls whose name has been sent
    last,       \* the call the upstream sent last
    conv,       \* StreamConversionState
    sent,       \* events yielded to the client
    started,    \* message_start has been yielded
    retries,
    phase       \* "run", "ended", "failed" (an error event), "raised", "left"
vars == <<dialect, given, named, last, conv, sent, started, retries, phase>>

\* ids, keys: an upstream's id, index -> position in calls
NewState == Merge(NoBlocks, [ids |-> <<>>, keys |-> <<>>])
Silent == [calls |-> [c \in Calls |-> <<>>], text |-> <<>>]

TypeOK ==
    /\ dialect \in Dialects /\ named \subseteq Calls /\ last \in Calls \cup {None}
    /\ DOMAIN given.calls = Calls /\ Len(given.text) <= MaxTexts
    /\ started \in BOOLEAN /\ retries \in 0..MaxRetries
    /\ phase \in {"run", "ended", "failed", "raised", "left"}
    /\ conv.live \in 0..Len(conv.calls) /\ conv.open \in BOOLEAN /\ conv.out = <<>>

Room(c) == \A d \in Calls \ {c} : Len(given.calls[c]) + Len(given.calls[d]) < MaxPieces

Init ==
    /\ dialect \in Dialects
    /\ given = Silent /\ named = {} /\ last = None
    /\ conv = NewState /\ sent = <<>> /\ started = FALSE /\ retries = 0
    /\ phase = "run"

-----------------------------------------------------------------------------
(* The converter. *)
OpenToolBlock(s, key) ==
    LET o == OpenBlock(s, "tool", s.calls[key].id) IN [o EXCEPT !.calls[key].block = Current(o)]

\* The pieces buffered for a call, in one delta.
Flush(s, key) ==
    IF s.calls[key].args = <<>> THEN s
    ELSE [Yield(s, <<Delta(Current(s), "json", s.calls[key].args)>>) EXCEPT !.calls[key].args = <<>>]

\* Mutant: a fragment is matched by its index alone.
FindCallByIndex(s, tc) == IF tc.index \in DOMAIN s.keys THEN s.keys[tc.index] ELSE 0
\* By id first; then by index, unless a new id comes with a name: that is a new call.
FindCall(s, tc) ==
    IF tc.id \in DOMAIN s.ids THEN s.ids[tc.id]
    ELSE IF tc.index \in DOMAIN s.keys
            /\ ~(tc.id # None /\ tc.name /\ s.calls[s.keys[tc.index]].id # None)
         THEN s.keys[tc.index] ELSE 0

HandleToolDelta(s0, tc) ==
    LET found == FindCall(s0, tc)
        key == IF found = 0 THEN Len(s0.calls) + 1 ELSE found
        added == IF found # 0 THEN s0
                 ELSE [s0 EXCEPT !.calls = Append(@, [id |-> None, name |-> FALSE, args |-> <<>>, block |-> None])]
        s == [added EXCEPT !.keys = Merge([x \in {tc.index} |-> key], @),
                           !.ids = IF tc.id = None THEN @ ELSE Merge([x \in {tc.id} |-> key], @),
                           !.calls[key].id = IF @ = None THEN tc.id ELSE @,
                           !.calls[key].name = @ \/ tc.name]
        pending == s.calls[key]
        open == /\ key = 1 /\ s.live = 0 /\ pending.block = None /\ pending.name
                /\ pending.id # None \/ pending.args # <<>> \/ tc.args # <<>>
    IN IF key = s.live
       THEN IF tc.args = <<>> THEN s ELSE Yield(s, <<Delta(pending.block, "json", tc.args)>>)
       ELSE IF ~open THEN [s EXCEPT !.calls[key].args = @ \o tc.args]
       ELSE LET o == [Flush(OpenToolBlock(s, key), key) EXCEPT !.live = key]
            IN IF tc.args = <<>> THEN o ELSE Yield(o, <<Delta(Current(o), "json", tc.args)>>)

\* convert_stream_end: the live call is closed, the others follow whole, then the text
\* that waited; a message has at least one block.
EmitBuffered(s, key) ==
    IF s.calls[key].block # None \/ ~s.calls[key].name THEN s
    ELSE CloseBlock(Flush(OpenToolBlock(s, key), key))

StreamEnd(s0) ==
    LET s1 == IF s0.live = 0 THEN s0 ELSE [CloseBlock(s0) EXCEPT !.live = 0]
        s2 == FoldLeft(EmitBuffered, s1, [key \in DOMAIN s1.calls |-> key])
        s3 == AtLeastOne(CloseBlock(EmitDeferred(s2)))
        tools == \E key \in DOMAIN s3.calls : s3.calls[key].block # None
        reason == IF tools /\ s3.finish \notin {"length", "content_filter"} THEN "tool_use"
                  ELSE CASE s3.finish = "length" -> "max_tokens"
                         [] s3.finish = "content_filter" -> "refusal"
                         [] OTHER -> "end_turn"
    IN Yield(s3, <<[e |-> "end", reason |-> reason]>>)

-----------------------------------------------------------------------------
(* The adapter. *)
Begun == IF started THEN <<>> ELSE <<[e |-> "message"]>>

\* A chunk of the upstream is converted, and its events yielded.
Chunk(s) ==
    /\ phase = "run"
    /\ sent' = sent \o Begun \o s.out
    /\ started' = TRUE
    /\ conv' = [s EXCEPT !.out = <<>>]
    /\ UNCHANGED <<dialect, retries, phase>>

Content(kind) ==
    /\ Len(given.text) < MaxTexts
    /\ LET piece == Len(given.text) + 1
       IN Chunk(EmitContent(conv, kind, piece)) /\ given' = [given EXCEPT !.text = Append(@, <<kind, piece>>)]
    /\ UNCHANGED <<named, last>>

Annotations ==
    /\ ~conv.cites
    /\ Chunk([conv EXCEPT !.cites = TRUE])
    /\ UNCHANGED <<given, named, last>>

\* What names call c in the next fragment of its arguments.
Labels(c) ==
    LET first == c \notin named
        n == Len(given.calls[c])
    IN CASE dialect = "indexed"  -> {[index |-> c, id |-> IF first THEN <<c, 0>> ELSE None, name |-> first]}
         [] dialect = "noids"    -> {[index |-> c, id |-> None, name |-> first]}
         [] dialect = "late"     -> IF first /\ \A key \in DOMAIN conv.calls : conv.calls[key].id # <<c, 0>>
                                    THEN {[index |-> c, id |-> <<c, 0>>, name |-> FALSE]}
                                    ELSE {[index |-> c, id |-> None, name |-> first]}
         [] dialect = "oneindex" -> {[index |-> 0, id |-> <<c, 0>>, name |-> first]}
                                    \cup IF last = c THEN {[index |-> 0, id |-> None, name |-> FALSE]} ELSE {}
         [] dialect = "freshids" -> {[index |-> c, id |-> <<c, n>>, name |-> first]}

ToolDelta(c) ==
    /\ \A d \in Calls : d < c => given.calls[d] # <<>> \/ d \in named     \* calls begin in order
    /\ \E label \in Labels(c), some \in BOOLEAN :
        LET piece == IF some THEN <<Len(given.calls[c]) + 1>> ELSE <<>>
        IN /\ some => Room(c)
           /\ ~some => c \notin named                  \* only a first fragment may be empty
           /\ Chunk(HandleToolDelta(conv, Merge(label, [args |-> piece])))
           /\ given' = [given EXCEPT !.calls[c] = @ \o piece]
           /\ named' = IF label.name THEN named \cup {c} ELSE named
           /\ last' = c

FinishReason(reason) ==
    /\ conv.finish = None
    /\ Chunk([conv EXCEPT !.finish = reason])
    /\ UNCHANGED <<given, named, last>>

\* [DONE], or the end of the stream.
Done ==
    /\ phase = "run"
    /\ LET s == StreamEnd(conv)
       IN /\ conv' = [s EXCEPT !.out = <<>>]
          /\ sent' = sent \o Begun \o s.out
    /\ phase' = "ended"
    /\ UNCHANGED <<dialect, given, named, last, started, retries>>

\* Mutant: a refused parameter is dropped and the request repeated at any time.
MayRetryAlways == retries < MaxRetries
MayRetry == ~started /\ retries < MaxRetries

\* An error chunk names an optional parameter: the request is sent again without it.
Retry ==
    /\ phase = "run" /\ MayRetry
    /\ retries' = retries + 1
    /\ given' = Silent /\ named' = {} /\ last' = None      \* another answer of the model's
    /\ UNCHANGED <<dialect, conv, sent, started, phase>>

ErrorChunk ==
    /\ phase = "run"
    /\ sent' = sent \o Begun \o <<[e |-> "error"]>>
    /\ phase' = "failed"
    /\ UNCHANGED <<dialect, given, named, last, conv, started, retries>>

\* The upstream's generator raises, or the client's side closes this one.
Abort ==
    /\ phase = "run"
    /\ phase' \in {"raised", "left"}
    /\ UNCHANGED <<dialect, given, named, last, conv, sent, started, retries>>

Next ==
    \/ \E kind \in {"text", "thinking"} : Content(kind)
    \/ Annotations
    \/ \E c \in Calls : ToolDelta(c)
    \/ \E reason \in {"stop", "length", "content_filter"} : FinishReason(reason)
    \/ Done \/ Retry \/ ErrorChunk \/ Abort

Spec == Init /\ [][Next]_vars

-----------------------------------------------------------------------------
Blocks == INSTANCE BlockStream WITH log <- sent

\* Whatever the upstream interleaves, the client sees one well-formed message.
WellFormedMessage == Blocks!Spec

Told(i)      == FlattenSeq([n \in DOMAIN sent |-> IF sent[n].e = "delta" /\ sent[n].i = i /\ sent[n].k = "json"
                                                  THEN sent[n].d ELSE <<>>])
ToldText(k)  == FlattenSeq([n \in DOMAIN sent |-> IF sent[n].e = "delta" /\ sent[n].k = k THEN sent[n].d ELSE <<>>])
GivenText(k) == LET mine == SelectSeq(given.text, LAMBDA p : p[1] = k) IN [n \in DOMAIN mine |-> mine[n][2]]
ToolBlocks   == {n \in DOMAIN sent : sent[n].e = "start" /\ sent[n].k = "tool"}

\* A message that ended carries every call the upstream named, each once and with exactly
\* its own arguments in order, though calls interleave, share an index or change their
\* ids; and all the text and all the reasoning, each in its order (StreamConversionState).
NothingLostNothingMixed ==
    phase = "ended" =>
       /\ \E blockOf \in [named -> ToolBlocks] :
             /\ \A b \in ToolBlocks : \E c \in named : blockOf[c] = b
             /\ \A c, d \in named : c # d => blockOf[c] # blockOf[d]
             /\ \A c \in named : /\ Told(sent[blockOf[c]].i) = given.calls[c]
                                 /\ sent[blockOf[c]].id = IF dialect = "noids" THEN None ELSE <<c, 0>>
       /\ \A k \in {"text", "thinking"} : ToldText(k) = GivenText(k)
=============================================================================

--------------------------- MODULE ResponsesStream ---------------------------
(* A Responses API stream turned into an Anthropic message stream:           *)
(* ResponsesToAnthropicConverter (conversion/anthropic_openai.py), driven by *)
(* anthropic_adapter_messages_stream.                                        *)
(*                                                                           *)
(* An event names its function call by item id, call id or output index, and *)
(* may bring arguments as a fragment, as the whole so far (a snapshot), or   *)
(* both; a snapshot may contradict what has already been streamed.           *)
EXTENDS BlockWriter

CONSTANTS Calls,        \* function calls, numbered by output index
          MaxPieces,    \* bound: argument fragments of any two calls
          MaxTexts      \* bound: pieces of text or reasoning

Parameters == IsFiniteSet(Calls) /\ Calls = 0..(Cardinality(Calls) - 1)

\* How an upstream names the call that a fragment, or a "done", is of.
Dialects == {"item",
             "output",
             "callid",        \* items carry only a call id; fragments the output index
             "anonymous"}     \* a fragment names nothing: possible while there is one call

VARIABLES
    dialect,
    given,      \* what the upstream meant: arguments of each call, and the text in order
    seen,       \* calls the upstream has mentioned
    settled,    \* calls whose item the upstream has ended
    whole,      \* calls whose arguments it has ended: no fragment follows
    conv,       \* StreamConversionState and the converter's own fields
    sent,       \* events yielded to the client
    phase       \* "run", "over" (a terminal event came), "ended", "left"
vars == <<dialect, given, seen, settled, whole, conv, sent, phase>>

NewState == Merge(NoBlocks, [alias |-> <<>>, refused |-> FALSE, error |-> FALSE])

TypeOK ==
    /\ dialect \in Dialects /\ DOMAIN given.calls = Calls
    /\ settled \cup whole \subseteq seen /\ seen \subseteq Calls
    /\ conv.live \in 0..1 /\ Len(conv.calls) <= Cardinality(seen) /\ conv.out = <<>>
    /\ phase \in {"run", "over", "ended", "left"}

Room(c) == \A d \in Calls \ {c} : Len(given.calls[c]) + Len(given.calls[d]) < MaxPieces

Init ==
    /\ dialect \in Dialects
    /\ given = [calls |-> [c \in Calls |-> <<>>], text |-> <<>>]
    /\ seen = {} /\ settled = {} /\ whole = {} /\ conv = NewState /\ sent = <<>> /\ phase = "run"

-----------------------------------------------------------------------------
(* The converter. *)
\* The call an event refers to, under the first of its names that is known; all its
\* names are remembered.  An event without a name belongs to a sole call.
Resolve(s, names, create) ==
    LET known == {n \in DOMAIN names : names[n] \in DOMAIN s.alias}
        key == IF known # {} THEN s.alias[names[Min(known)]]
               ELSE IF names = <<>> THEN IF Len(s.calls) = 1 THEN 1 ELSE 0
               ELSE IF create THEN Len(s.calls) + 1 ELSE 0
        grown == IF key <= Len(s.calls) THEN s
                 ELSE [s EXCEPT !.calls = Append(@, [id |-> None, name |-> FALSE, args |-> <<>>, block |-> None, done |-> FALSE])]
    IN [s |-> IF key = 0 THEN s
              ELSE [grown EXCEPT !.alias = Merge(@, [n \in ToSet(names) |-> key])],
        key |-> key]

\* The id is fixed once the block has started.
Identify(s, key, item) ==
    [s EXCEPT !.calls[key].id = IF s.calls[key].block # None THEN @
                                ELSE IF item.call # None THEN item.call
                                ELSE IF @ # None THEN @ ELSE item.id,
              !.calls[key].name = @ \/ item.name]

OpenToolBlock(s, key) ==
    LET o == OpenBlock(s, "tool", s.calls[key].id) IN [o EXCEPT !.calls[key].block = Current(o)]

Arguments(s, key) ==
    IF s.calls[key].args = <<>> THEN s
    ELSE Yield(s, <<Delta(s.calls[key].block, "json", s.calls[key].args)>>)

\* Mutant: whichever call has a name first streams live, though another already does.
MaybeOpenAnyLive(s) ==
    IF \A key \in DOMAIN s.calls : s.calls[key].block # None \/ ~s.calls[key].name THEN s
    ELSE LET key == CHOOSE key \in DOMAIN s.calls : s.calls[key].block = None /\ s.calls[key].name
         IN [Arguments(OpenToolBlock(s, key), key) EXCEPT !.live = key]
\* The first call streams live once its name is known.
MaybeOpenLive(s) ==
    IF s.live # 0 \/ s.calls = <<>> \/ s.calls[1].block # None \/ ~s.calls[1].name THEN s
    ELSE [Arguments(OpenToolBlock(s, 1), 1) EXCEPT !.live = 1]

Fail(s) == [s EXCEPT !.error = TRUE, !.finish = "failed"]

\* Mutant: a snapshot is taken for one more fragment.
AppendSnapshot(s, key, all) ==
    IF all = <<>> THEN s
    ELSE IF s.calls[key].block = None THEN [s EXCEPT !.calls[key].args = all]
    ELSE Yield([s EXCEPT !.calls[key].args = @ \o all], <<Delta(s.calls[key].block, "json", all)>>)
\* Before the block opens a snapshot replaces what came; after it, it may only continue it.
ApplySnapshot(s, key, all) ==
    LET received == s.calls[key].args
    IN IF all = <<>> THEN s
       ELSE IF s.calls[key].block = None THEN [s EXCEPT !.calls[key].args = all]
       ELSE IF all = received THEN s
       ELSE IF IsPrefix(received, all)
            THEN Yield([s EXCEPT !.calls[key].args = all],
                       <<Delta(s.calls[key].block, "json", SubSeq(all, Len(received) + 1, Len(all)))>>)
       ELSE Fail(s)

EmitBuffered(s, key) ==
    IF s.calls[key].block # None \/ ~s.calls[key].name THEN s
    ELSE CloseBlock(Arguments(OpenToolBlock(s, key), key))

\* After a failure nothing more is flushed.
StreamEnd(s0) ==
    IF s0.finish = "failed" THEN Yield(CloseBlock(s0), <<[e |-> "error"]>>)
    ELSE LET s1 == IF s0.live = 0 THEN s0 ELSE [CloseBlock(s0) EXCEPT !.live = 0]
             s2 == FoldLeft(EmitBuffered, s1, [key \in DOMAIN s1.calls |-> key])
             s3 == AtLeastOne(CloseBlock(EmitDeferred(s2)))
             tools == \E key \in DOMAIN s3.calls : s3.calls[key].block # None
             reason == IF s3.finish = "incomplete" THEN "max_tokens"
                       ELSE IF tools THEN "tool_use" ELSE IF s3.refused THEN "refusal" ELSE "end_turn"
         IN Yield(s3, <<[e |-> "end", reason |-> reason]>>)

-----------------------------------------------------------------------------
(* The upstream's events. *)
Begun == IF sent = <<>> THEN <<[e |-> "message"]>> ELSE <<>>

\* A failure is final: later events are ignored.
Event(s) ==
    /\ phase \in {"run", "over"}
    /\ LET t == IF conv.error THEN conv ELSE s
       IN conv' = [t EXCEPT !.out = <<>>] /\ sent' = sent \o Begun \o t.out
    /\ UNCHANGED dialect

Item(c, name) == [id |-> IF dialect = "callid" THEN None ELSE <<"item", c>>, call |-> <<"call", c>>, name |-> name]
Fragment      == [id |-> None, call |-> None, name |-> FALSE]
ItemNames(c)  == IF dialect = "callid" THEN << <<"call", c>>, <<"output", c>> >>
                 ELSE << <<"item", c>>, <<"call", c>>, <<"output", c>> >>
DeltaNames(c) == CASE dialect = "item"   -> << <<"item", c>> >>
                   [] dialect \in {"output", "callid"} -> << <<"output", c>> >>
                   [] OTHER -> <<>>

Content(kind, refusal) ==
    /\ phase = "run" /\ Len(given.text) < MaxTexts
    /\ LET piece == Len(given.text) + 1
       IN Event(EmitContent([conv EXCEPT !.refused = @ \/ refusal], kind, piece))
          /\ given' = [given EXCEPT !.text = Append(@, <<kind, piece>>)]
    /\ UNCHANGED <<seen, settled, whole, phase>>

\* response.output_item.added; the item may not have its name yet.
ItemAdded(c, name) ==
    /\ phase = "run" /\ c \notin seen
    /\ dialect = "anonymous" => seen = {}
    /\ LET r == Resolve(conv, ItemNames(c), TRUE)
       IN Event(MaybeOpenLive(Identify(r.s, r.key, Item(c, name))))
    /\ seen' = seen \cup {c}
    /\ UNCHANGED <<given, settled, whole, phase>>

\* response.function_call_arguments.delta
ArgumentsDelta(c) ==
    /\ phase = "run" /\ c \in seen \ (whole \cup settled) /\ Room(c)
    /\ LET r == Resolve(conv, DeltaNames(c), TRUE)
           piece == <<Len(given.calls[c]) + 1>>
           s == [r.s EXCEPT !.calls[r.key].args = @ \o piece]
       IN /\ Event(IF conv.calls[r.key].done THEN r.s
                   ELSE IF r.key = s.live THEN Yield(s, <<Delta(s.calls[r.key].block, "json", piece)>>)
                   ELSE MaybeOpenLive(s))
          /\ given' = [given EXCEPT !.calls[c] = @ \o piece]
    /\ UNCHANGED <<seen, settled, whole, phase>>

\* No snapshot, the same, a longer one, or one that contradicts the fragments.
Same(c)      == given.calls[c]
Longer(c)    == IF Room(c) /\ Same(c) # <<0>> THEN Append(Same(c), Len(Same(c)) + 1) ELSE Same(c)
Snapshots(c) == {<<>>, Same(c), Longer(c), <<0>>}

\* response.function_call_arguments.done and response.output_item.done
Done(c, names, item) ==
    /\ phase = "run" /\ c \notin settled
    /\ \E args \in Snapshots(c) :
        LET r == Resolve(conv, names, TRUE)
            s == ApplySnapshot(Identify(r.s, r.key, item), r.key, args)
            d == [s EXCEPT !.calls[r.key].done = TRUE]
        IN /\ Event(IF d.error THEN d ELSE MaybeOpenLive(d))
           /\ given' = IF args = <<>> THEN given ELSE [given EXCEPT !.calls[c] = args]
    /\ UNCHANGED phase

ArgumentsDone(c) == c \in seen \ whole /\ Done(c, DeltaNames(c), Fragment)
                    /\ whole' = whole \cup {c} /\ UNCHANGED <<seen, settled>>
ItemDone(c) ==
    /\ dialect = "anonymous" => seen \subseteq {c}
    /\ Done(c, ItemNames(c), Item(c, TRUE))
    /\ seen' = seen \cup {c} /\ settled' = settled \cup {c} /\ UNCHANGED whole

\* A call that the final snapshot has, if it is known.
Complete(s, c, final) ==
    LET r == Resolve(s, IF dialect = "callid" THEN << <<"call", c>> >> ELSE << <<"item", c>>, <<"call", c>> >>, FALSE)
    IN IF c \notin DOMAIN final \/ r.key = 0 THEN s ELSE ApplySnapshot(r.s, r.key, final[c])
CompleteAll(s0, final) ==
    FoldLeft(LAMBDA s, c : Complete(s, c, final), s0, [n \in 1..Cardinality(Calls) |-> n - 1])

\* response.completed, .incomplete: the calls in the final snapshot complete those seen.
\* Which of the two it was, only End tells.
Terminal ==
    /\ phase = "run" /\ phase' = "over"
    /\ \E calls \in SUBSET seen : \E form \in [calls -> {"same", "longer", "other"}] :
        LET final == [c \in calls |-> CASE form[c] = "same" -> Same(c)
                                        [] form[c] = "longer" -> Longer(c)
                                        [] OTHER -> <<0>>]
        IN /\ Event(CompleteAll(conv, final))
           /\ given' = [given EXCEPT !.calls = [c \in Calls |-> IF c \in calls THEN final[c] ELSE @[c]]]
    /\ UNCHANGED <<seen, settled, whole>>

\* response.failed
Failed ==
    /\ phase = "run" /\ phase' = "over"
    /\ Event(Fail(conv))
    /\ UNCHANGED <<given, seen, settled, whole>>

\* The stream ends, with or without a terminal event.
End ==
    /\ phase \in {"run", "over"} /\ phase' = "ended"
    /\ \E status \in IF phase = "over" /\ ~conv.error THEN {"completed", "incomplete"} ELSE {conv.finish} :
       LET s == StreamEnd([conv EXCEPT !.finish = status])
       IN conv' = [s EXCEPT !.out = <<>>] /\ sent' = sent \o Begun \o s.out
    /\ UNCHANGED <<dialect, given, seen, settled, whole>>

\* The upstream's error event is passed on by the adapter; its generator may raise, the
\* client may leave.
Abort ==
    /\ phase = "run" /\ phase' = "left"
    /\ sent' \in {sent, sent \o Begun \o <<[e |-> "error"]>>}
    /\ UNCHANGED <<dialect, given, seen, settled, whole, conv>>

Next ==
    \/ \E kind \in {"text", "thinking"} : Content(kind, FALSE)
    \/ Content("text", TRUE)
    \/ \E c \in Calls : (\E name \in BOOLEAN : ItemAdded(c, name)) \/ ArgumentsDelta(c) \/ ArgumentsDone(c) \/ ItemDone(c)
    \/ Terminal \/ Failed \/ End \/ Abort

Spec == Init /\ [][Next]_vars

-----------------------------------------------------------------------------
Blocks == INSTANCE BlockStream WITH log <- sent

\* However calls are named and their arguments repeated, the client sees one well-formed
\* message.
WellFormedMessage == Blocks!Spec

Told(i)      == FlattenSeq([n \in DOMAIN sent |-> IF sent[n].e = "delta" /\ sent[n].i = i /\ sent[n].k = "json"
                                                  THEN sent[n].d ELSE <<>>])
ToldText(k)  == FlattenSeq([n \in DOMAIN sent |-> IF sent[n].e = "delta" /\ sent[n].k = k THEN sent[n].d ELSE <<>>])
GivenText(k) == LET mine == SelectSeq(given.text, LAMBDA p : p[1] = k) IN [n \in DOMAIN mine |-> mine[n][2]]
Ended        == sent # <<>> /\ Last(sent).e = "end"
ToolBlocks   == {n \in DOMAIN sent : sent[n].e = "start" /\ sent[n].k = "tool"}
BlocksOf(c)  == {n \in ToolBlocks : sent[n].id = <<"call", c>>}

\* A message that ended, rather than failed, carries no call twice, and each with exactly
\* the arguments the upstream last gave it: input already streamed is never contradicted
\* ("fail rather than concatenate incompatible JSON"); nor is text lost or reordered.
NothingLostNothingMixed ==
    Ended =>
       /\ ToolBlocks = UNION {BlocksOf(c) : c \in seen}
       /\ \A c \in seen : Cardinality(BlocksOf(c)) <= 1 /\ \A n \in BlocksOf(c) : Told(sent[n].i) = given.calls[c]
       /\ \A c \in settled : BlocksOf(c) # {}
       /\ \A k \in {"text", "thinking"} : ToldText(k) = GivenText(k)
=============================================================================

----------------------------- MODULE SearchLoop -----------------------------
(* The server-side web search loops: websearch/loop.py.  A model's search    *)
(* calls (internal) are run here and answered in the next request to the     *)
(* model, until it answers; the client sees one answer, of one stream.       *)
(*                                                                           *)
(* Three surfaces share _QueryGuard: Anthropic messages, streamed block by   *)
(* block and renumbered; chat completions, whose own tool calls are streamed *)
(* too; and responses, handed back whole, whose unanswered internal calls    *)
(* the client's next turn must settle.                                       *)
EXTENDS Integers, Sequences, FiniteSets

CONSTANTS MaxLoops,     \* max_agentic_loops
          MaxQueries,   \* max_queries_per_turn
          Uses,         \* max_uses, from the client's tool: a bound, or None
          Queries,
          MaxBlocks,    \* bound: blocks of one answer of the model's
          None

\* What the settings and the client's tool allow (auth/models.py: at least one round).
Parameters ==
    /\ MaxLoops \in Nat \ {0} /\ MaxQueries \in Nat /\ MaxBlocks \in Nat
    /\ None \in Uses /\ Uses \subseteq Nat \cup {None}
    /\ None \notin (0..MaxLoops + 1) \X (1..MaxBlocks)

VARIABLES
    surface,    \* "anthropic", "chat", "responses"
    native,     \* emit_native: searches are shown to the client as blocks
    stored,     \* the upstream keeps the response: `store` is not false, and it has an id
    uses, shortcut,
    rounds, executed, prints,   \* LoopStats; fingerprints of the rounds asked for
    asks,       \* requests sent to the model
    turn,       \* the model's answer so far: its blocks, in order
    reading,    \* the last of them is still open
    next,       \* next_out_index
    texted,     \* text was shown (in this round only, for chat)
    sent,       \* events yielded (Anthropic)
    handed,     \* calls the client was given
    replayed,   \* turns sent back to the model: their calls, and the calls answered
    told,       \* stop reason given to the client
    pending,    \* _pending_internal_calls of the response handed back
    forgotten,  \* its entry is gone: 24 hours, 10 000 later responses, or a restart
    settled,    \* calls of that response that the client's next turn answers, once it is sent
    phase       \* "shortcut", "ask", "read", "search", "done", "failed"
limits == <<surface, native, stored, uses>>
guard  == <<rounds, executed, prints>>
shown  == <<next, texted, sent, handed>>
after  == <<told, pending, forgotten, settled>>
vars == <<limits, shortcut, guard, asks, turn, reading, shown, replayed, after, phase>>

Block == [k : {"text", "client", "internal"}, id : (0..MaxLoops + 1) \X (1..MaxBlocks), q : Queries \cup {None}]

TypeOK ==
    /\ surface \in {"anthropic", "chat", "responses"} /\ native \in BOOLEAN /\ shortcut \in BOOLEAN
    /\ stored \in BOOLEAN /\ forgotten \in BOOLEAN
    /\ uses \in Uses /\ rounds \in Nat /\ executed \in Nat /\ asks \in Nat /\ next \in Nat
    /\ turn \in Seq(Block) /\ Len(turn) <= MaxBlocks
    /\ reading \in BOOLEAN /\ texted \in BOOLEAN
    /\ told \in {None, "tool_use", "end_turn", "max_tokens"}
    /\ phase \in {"shortcut", "ask", "read", "search", "done", "failed"}

Init ==
    /\ surface \in {"anthropic", "chat", "responses"}
    /\ native \in {surface = "anthropic", FALSE}
    /\ stored \in {surface = "responses", FALSE}
    /\ uses \in IF native THEN Uses ELSE {None}
    /\ shortcut \in {native, FALSE}          \* claude_code_shortcircuit
    /\ rounds = 0 /\ executed = 0 /\ prints = {} /\ asks = 0
    /\ turn = <<>> /\ reading = FALSE
    /\ next = 0 /\ texted = FALSE /\ sent = <<>> /\ handed = {} /\ replayed = <<>>
    /\ told = None /\ pending = {} /\ forgotten = FALSE /\ settled = None
    /\ phase = IF shortcut THEN "shortcut" ELSE "ask"

-----------------------------------------------------------------------------
IdsOf(k)   == {turn[n].id : n \in {m \in DOMAIN turn : turn[m].k = k}}
Searches   == {n \in DOMAIN turn : turn[n].k = "internal"}
Fewest(S)  == CHOOSE n \in S : \A m \in S : n <= m

\* Mutant: max_uses caps the searches of a round.
RunCountPerRound(n) == Fewest({n, MaxQueries} \cup (IF uses = None THEN {} ELSE {uses}))
\* Of n queries, how many are run: max_uses caps those of all rounds.
Left        == IF executed > uses THEN 0 ELSE uses - executed
RunCount(n) == Fewest({n, MaxQueries} \cup (IF uses = None THEN {} ELSE {Left}))

\* Mutant: queries over the limit are dropped, not refused.
AnsweredRun(calls) ==
    {turn[n].id : n \in {m \in calls : Cardinality({l \in calls : l < m}) < RunCount(Cardinality(calls))}}
\* Every query has an outcome, a result or a refusal, and its call that answer.
Answered(calls) == {turn[n].id : n \in calls}

Fingerprint(calls) == [q \in Queries |-> Cardinality({n \in calls : turn[n].q = q})]
Allowed(calls)     == rounds < MaxLoops /\ Fingerprint(calls) \notin prints

Count(n) == rounds' = rounds + 1 /\ executed' = executed + RunCount(n)

\* A search shown natively: a server_tool_use and its result, two blocks.
NativeEvents(i) == <<[e |-> "start", i |-> i, k |-> "search", id |-> None],
                     [e |-> "delta", i |-> i, k |-> "json"], [e |-> "stop", i |-> i],
                     [e |-> "start", i |-> i + 1, k |-> "result", id |-> None], [e |-> "stop", i |-> i + 1]>>
NativeSearches(i, n) ==
    [m \in 1..(5 * n) |-> NativeEvents(i + 2 * ((m - 1) \div 5))[1 + ((m - 1) % 5)]]
TextEvents(i)   == <<[e |-> "start", i |-> i, k |-> "text", id |-> None],
                     [e |-> "delta", i |-> i, k |-> "text"], [e |-> "stop", i |-> i]>>

\* _run_shortcircuit: the search is made before the model is asked at all, once.
Shortcut ==
    /\ phase = "shortcut" /\ phase' = "ask"
    /\ Count(1)
    /\ replayed' = <<[calls |-> {<<0, 1>>}, answered |-> {<<0, 1>>}]>>
    /\ UNCHANGED <<limits, shortcut, prints, asks, turn, reading, shown, after>>

\* The model begins to answer; the first time, message_start and the shortcut's blocks.
Ask ==
    /\ phase = "ask" /\ phase' = "read"
    /\ asks' = asks + 1 /\ turn' = <<>>
    /\ texted' = IF surface = "chat" THEN FALSE ELSE texted
    /\ IF surface = "anthropic" /\ sent = <<>>
       THEN /\ sent' = <<[e |-> "message"]>> \o (IF shortcut THEN NativeEvents(0) ELSE <<>>)
            /\ next' = IF shortcut THEN 2 ELSE 0
       ELSE UNCHANGED <<sent, next>>
    /\ UNCHANGED <<limits, shortcut, guard, reading, handed, replayed, after>>

\* Mutant: the client is shown the calls the server makes itself.
VisibleAll(b) == TRUE
Visible(b) == b.k # "internal"

\* Mutant: a block keeps the number it had in the model's own answer.
OutIndexKept == Len(turn)
OutIndex     == next

\* A block begins.  Text and the client's own calls are shown as they come; an internal
\* call is kept back and takes no number.
OpenBlock(k, q) ==
    /\ phase = "read" /\ ~reading /\ Len(turn) < MaxBlocks
    /\ k = "internal" <=> q # None
    /\ LET b == [k |-> k, id |-> <<asks, Len(turn) + 1>>, q |-> q]
       IN /\ turn' = Append(turn, b)
          /\ next' = IF Visible(b) THEN next + 1 ELSE next
          /\ sent' = IF surface = "anthropic" /\ Visible(b)
                     THEN Append(sent, [e |-> "start", i |-> OutIndex, id |-> b.id,
                                        k |-> IF k = "client" THEN "tool" ELSE "text"]) ELSE sent
          /\ handed' = IF surface # "responses" /\ k = "client" THEN handed \cup {b.id} ELSE handed
    /\ texted' = (texted \/ k = "text")
    /\ reading' = TRUE
    /\ UNCHANGED <<limits, shortcut, guard, asks, replayed, after, phase>>

\* Its delta and stop are passed on under its new number; a cited text block says so.
CloseBlock ==
    /\ phase = "read" /\ reading
    /\ LET b == turn[Len(turn)]
           i == next - 1
           kind == IF b.k = "client" THEN "json" ELSE "text"
       IN sent' = IF surface = "anthropic" /\ Visible(b)
                  THEN sent \o <<[e |-> "delta", i |-> i, k |-> kind]>>
                            \o (IF b.k = "text" /\ native /\ executed > 0
                                THEN <<[e |-> "delta", i |-> i, k |-> "citation"]>> ELSE <<>>)
                            \o <<[e |-> "stop", i |-> i]>>
                  ELSE sent
    /\ reading' = FALSE
    /\ UNCHANGED <<limits, shortcut, guard, asks, turn, next, texted, handed, replayed, after, phase>>

\* The request to the model fails, or its stream ends with an error, which is passed on,
\* be it all the client is ever sent.
Fail ==
    /\ phase \in {"ask", "read"}
    /\ \/ surface = "anthropic" /\ sent' = Append(sent, [e |-> "error"])
       \/ ~(surface = "anthropic" /\ phase = "read") /\ sent' = sent
    /\ phase' = "failed"
    /\ UNCHANGED <<limits, shortcut, guard, asks, turn, reading, next, texted, handed, replayed, after>>

-----------------------------------------------------------------------------
(* The model's answer is complete, with its stop reason. *)
Stopped(stop) ==
    /\ phase = "read" /\ ~reading
    /\ stop = "tool_use" => IdsOf("client") \cup IdsOf("internal") # {}
    /\ stop = "end_turn" => IdsOf("client") \cup IdsOf("internal") = {}

Finish(stop, last) ==
    /\ told' = stop /\ phase' = "done"
    /\ sent' = IF surface = "anthropic" THEN sent \o last \o <<[e |-> "end", reason |-> stop]>> ELSE sent
    /\ handed' = IF surface = "responses" THEN IdsOf("client") ELSE handed
    /\ UNCHANGED <<limits, shortcut, guard, asks, turn, reading, next, texted, replayed, forgotten, settled>>

\* Cut short, a turn's searches are not run; responses carry no such reason here.
NoSearch(stop) == Searches = {} \/ (stop = "max_tokens" /\ surface # "responses")
Answer(stop) ==
    /\ Stopped(stop) /\ NoSearch(stop)
    /\ Finish(stop, <<>>)
    /\ UNCHANGED pending

\* Mutant: the calls left open in a stored response are not remembered.
RememberNothing(ids) == pending' = pending
Remember(ids) == pending' = IF stored THEN ids ELSE pending

\* A mixed turn: the client gets its own calls, the searches are dropped.
HandOver(stop) ==
    /\ Stopped(stop) /\ ~NoSearch(stop) /\ IdsOf("client") # {}
    /\ Finish("tool_use", <<>>)
    /\ Remember(IdsOf("internal"))

\* Too many rounds, or the same queries again.
GiveUp(stop) ==
    /\ Stopped(stop) /\ ~NoSearch(stop) /\ IdsOf("client") = {}
    /\ ~Allowed(Searches)
    /\ Finish("end_turn", IF texted THEN <<>> ELSE TextEvents(next))
    /\ Remember(IdsOf("internal"))

Accept(stop) ==
    /\ Stopped(stop) /\ ~NoSearch(stop) /\ IdsOf("client") = {}
    /\ Allowed(Searches)
    /\ prints' = prints \cup {Fingerprint(Searches)}
    /\ phase' = "search"
    /\ UNCHANGED <<limits, shortcut, rounds, executed, asks, turn, reading, shown, replayed, after>>

\* The searches end: the model's turn and their answers go into the next request.
Search ==
    /\ phase = "search" /\ phase' = "ask"
    /\ Count(Cardinality(Searches))
    /\ replayed' = Append(replayed, [calls |-> IdsOf("internal") \cup IdsOf("client"), answered |-> Answered(Searches)])
    /\ IF native
       THEN /\ sent' = sent \o NativeSearches(next, Cardinality(Searches))
            /\ next' = next + 2 * Cardinality(Searches)
       ELSE UNCHANGED <<sent, next>>
    /\ UNCHANGED <<limits, shortcut, prints, asks, turn, reading, texted, handed, after>>

\* settle_pending_responses_calls: the client's next turn names the response, answers its
\* own calls, and is given an answer for each internal one remembered.  The entry stays: a
\* turn sent again is settled again.
NextTurn ==
    /\ surface = "responses" /\ phase = "done"
    /\ settled' = handed \cup pending
    /\ UNCHANGED <<limits, shortcut, guard, asks, turn, reading, shown, replayed, told, pending, forgotten, phase>>

\* The entry expires, is evicted for newer ones, or goes with the process.
Forget ==
    /\ stored /\ phase = "done" /\ ~forgotten
    /\ pending' = {} /\ forgotten' = TRUE
    /\ UNCHANGED <<limits, shortcut, guard, asks, turn, reading, shown, replayed, told, settled, phase>>

Next ==
    \/ Shortcut \/ Ask
    \/ \E k \in {"text", "client", "internal"}, q \in Queries \cup {None} : OpenBlock(k, q)
    \/ CloseBlock \/ Fail
    \/ \E stop \in {"tool_use", "end_turn", "max_tokens"} : Answer(stop) \/ HandOver(stop) \/ GiveUp(stop) \/ Accept(stop)
    \/ Search \/ NextTurn \/ Forget

Spec == Init /\ [][Next]_vars

-----------------------------------------------------------------------------
Blocks == INSTANCE BlockStream WITH log <- sent

\* The rounds of a turn, renumbered and with the searches between them, are one message.
OneMessage == Blocks!Spec

\* No turn searches for ever, nor more than the client allowed: rounds, requests to the
\* model and searches are bounded (LoopStats, _QueryGuard), across all rounds.
SearchesBounded ==
    /\ rounds <= MaxLoops /\ asks <= MaxLoops + 1
    /\ uses # None => executed <= uses
    /\ executed <= rounds * MaxQueries

\* What a turn of the model's, as it is sent again, holds: a stored response all its calls,
\* one the client sends back itself those it was shown.
Kept == IF stored THEN IdsOf("internal") \cup IdsOf("client") ELSE IdsOf("client")

\* A model is never sent a turn of its own with a call left unanswered ("the upstream rejects
\* that turn unless every call in it gets an output"): not in a round, nor in the client's
\* next turn, however often that is sent, as long as the response is remembered.
EveryCallAnswered ==
    /\ \A n \in DOMAIN replayed : replayed[n].calls = replayed[n].answered
    /\ settled # None /\ ~forgotten => settled = Kept

\* Internal calls stay inside, and a client told to run tools has every call of its own
\* to run, while one told that the turn ended has none.
ClientSeesItsOwnCalls ==
    /\ \A n \in DOMAIN sent : sent[n].e = "start" => sent[n].id \notin IdsOf("internal")
    /\ phase = "done" /\ told # "max_tokens" =>
          /\ handed = IdsOf("client")
          /\ told = "tool_use" <=> handed # {}
=============================================================================

----------------------------- MODULE StreamServe -----------------------------
(* One tracked request whose answer is a stream of server-sent events: the  *)
(* tracking middleware of main.py, the route, and the generator between the *)
(* upstream's stream and the client (routes/stream_utils.py), in its two    *)
(* forms, `chat` (OpenAI format) and `messages` (Anthropic format).         *)
(*                                                                          *)
(* Time passes in ticks of STREAM_DISCONNECT_POLL_SECONDS; the event loop   *)
(* is taken to wake a due wait before the next tick.  The upstream may be   *)
(* silent, slow or endless; the client may stop reading or leave; whoever   *)
(* runs the generator may cancel it (in `wait`) or drop it (in `out`).      *)
EXTENDS Naturals, Sequences

CONSTANTS FirstBudget,    \* STREAM_FIRST_CHUNK_TIMEOUT_SECONDS, in ticks
          ChunkBudget,    \* STREAM_CHUNK_TIMEOUT_SECONDS
          Timeout,        \* STREAM_TIMEOUT_SECONDS
          KeepEvery,      \* STREAM_KEEPALIVE_INTERVAL_SECONDS, 0: off
          None

VARIABLES
    api,       \* "chat" or "messages"
    pc,        \* where the request is
    fetch,     \* next_chunk_task: "none", "pending", or what it came back with
    up,        \* the upstream generator: "open", "closed", or "leaked"
    stopped,   \* terminal_event_seen
    age, waited, quiet, polled,  \* ticks since the start, the fetch, the last byte, the poll began
    seen,      \* a first chunk came
    box,       \* what the generator has still to hand to the client
    late,      \* the chunk in box came after the overall timeout
    last,      \* the loop ends when box is empty
    exc,       \* what ends the generator, if not its own loop
    final,     \* stream_state["final_status"]
    outcome,   \* request.state.tracking_final's status, or None
    record,    \* the tracker's record: "active", or how it ended
    gone,      \* the client has left
    told,      \* history: the client was told of an error the server made, or read in the stream
    silence    \* history: ticks since the client was sent anything

clocks == <<age, waited, quiet, polled, silence>>
loopVars == <<fetch, up, stopped, seen, box, late, last>>
endVars == <<exc, final, outcome, record>>
vars == <<api, pc, clocks, loopVars, endVars, gone, told>>

MinOf(a, b) == IF a <= b THEN a ELSE b
Poll == 1
MaxAge == Timeout + 1        \* bound: later makes no difference
Budget == IF seen THEN ChunkBudget ELSE MinOf(FirstBudget, ChunkBudget)

Parameters ==
    /\ FirstBudget \in Nat /\ ChunkBudget \in Nat /\ Timeout \in Nat /\ KeepEvery \in Nat
    /\ None \notin {"completed", "errored", "cancelled"}

Ends  == {"completed", "errored", "cancelled"}
Items == {"chunk", "errChunk", "stop", "err", "lateErr", "end", "raise"}

TypeOK ==
    /\ api \in {"chat", "messages"}
    /\ pc \in {"handler", "answered", "top", "wait", "out", "cleanup", "closing", "finish", "done"}
    /\ fetch \in {"none", "pending"} \cup Items
    /\ up \in {"open", "closed", "leaked"}
    /\ \A t \in {age, waited, quiet, polled, silence} : t \in 0..MaxAge
    /\ box \in Seq({"chunk", "errChunk", "stop", "err", "lateErr", "keepalive", "error", "done"})
    /\ {stopped, seen, late, last, gone, told} \subseteq BOOLEAN
    /\ exc \in {"none", "cancel", "exit", "raise", "bad", "lost"}
    /\ final \in Ends /\ outcome \in Ends \cup {None} /\ record \in Ends \cup {"active"}

Init ==
    /\ api \in {"chat", "messages"} /\ pc = "handler"
    /\ fetch = "none" /\ up = "open" /\ stopped = FALSE
    /\ age = 0 /\ waited = 0 /\ quiet = 0 /\ polled = 0 /\ silence = 0
    /\ seen = FALSE /\ box = <<>> /\ late = FALSE /\ last = FALSE
    /\ exc = "none" /\ final = "completed" /\ outcome = None /\ record = "active"
    /\ gone = FALSE /\ told = FALSE

-----------------------------------------------------------------------------
\* Mutant: the last word wins.
SetOutcomeAlways(status) == outcome' = status
\* set_request_tracking_outcome: an error is never made good by a later word.
SetOutcome(status) == outcome' = IF outcome = "errored" THEN outcome ELSE status

\* The route answers without a stream, raises, or is cancelled before it answers:
\* `except Exception` of the middleware lets the last go by.
Respond ==
    /\ pc = "handler" /\ pc' = "answered"
    /\ \/ exc' \in {"none", "bad"} /\ UNCHANGED record
       \/ exc' = "raise" /\ record' = "errored"
       \/ exc' = "lost" /\ UNCHANGED record
    /\ UNCHANGED <<api, clocks, loopVars, final, outcome, gone, told>>

\* The route hands a generator to StreamingResponse.
StartStream ==
    /\ pc = "handler" /\ pc' = "top"
    /\ UNCHANGED <<api, clocks, loopVars, endVars, gone, told>>

Streaming == pc \in {"top", "wait", "out"}

\* Time passes while the loop waits, for the upstream or for the client to read.
Tick ==
    /\ \/ pc = "wait" /\ fetch = "pending" /\ polled < MinOf(Poll, IF Budget > waited THEN Budget - waited ELSE 1)
       \/ pc = "out"
    /\ age' = MinOf(age + 1, MaxAge) /\ waited' = MinOf(waited + 1, MaxAge)
    /\ quiet' = MinOf(quiet + 1, MaxAge) /\ silence' = MinOf(silence + 1, MaxAge)
    /\ polled' = IF pc = "wait" THEN polled + 1 ELSE polled
    /\ UNCHANGED <<api, pc, loopVars, endVars, gone, told>>

ClientLeaves ==
    /\ Streaming /\ ~gone /\ gone' = TRUE
    /\ UNCHANGED <<api, pc, clocks, loopVars, endVars, told>>

\* The upstream comes back.  Of `messages`, generate() of the route runs first: an error
\* event, and an exception made into one, are the request's outcome, but an error event
\* after a terminal event is not.  `chat` reads no chunk: one that says that the
\* provider failed is passed on like any other.
Arrive(x) ==
    /\ fetch = "pending" /\ Streaming
    /\ api = "chat" => x \in {"chunk", "errChunk", "end", "raise"}
    /\ api = "messages" => x \in {"chunk", "stop", "err", "lateErr", "end"}
    /\ x = "lateErr" => stopped
    /\ fetch' = x
    /\ stopped' = (stopped \/ x \in {"stop", "err"})
    /\ IF x = "err" THEN SetOutcome("errored") ELSE UNCHANGED outcome
    /\ UNCHANGED <<api, pc, clocks, up, seen, box, late, last, exc, final, record, gone, told>>

-----------------------------------------------------------------------------
\* The top of the loop.  `chat` asks there, debounced, whether the client has left.
NoticeGone ==
    /\ pc = "top" /\ api = "chat" /\ gone
    /\ SetOutcome("cancelled")
    /\ pc' = "cleanup"
    /\ UNCHANGED <<api, clocks, loopVars, exc, final, record, gone, told>>

\* Mutant: the overall timeout is looked at only while the upstream is silent.
OverdueInSilence == api = "messages" /\ age >= Timeout /\ fetch # "none"
Overdue == api = "messages" /\ age >= Timeout
TooSilent == fetch # "none" /\ waited >= Budget

\* The overall timeout, or the budget of the fetch, is spent: the fetch is cancelled and
\* the client told.
TimeOut ==
    /\ pc = "top" /\ (Overdue \/ TooSilent)
    /\ SetOutcome("errored")
    /\ final' = IF api = "messages" THEN "errored" ELSE final
    /\ fetch' = "none"
    /\ box' = IF api = "chat" THEN <<"error", "done">> ELSE <<"error">>
    /\ last' = TRUE /\ late' = (api = "chat" /\ age > Timeout) /\ pc' = "out"
    /\ UNCHANGED <<api, clocks, up, stopped, seen, exc, record, gone, told>>

Wait ==
    /\ pc = "top" /\ ~Overdue /\ ~TooSilent
    /\ IF fetch = "none" THEN fetch' = "pending" /\ waited' = 0 ELSE UNCHANGED <<fetch, waited>>
    /\ polled' = 0 /\ pc' = "wait"
    /\ UNCHANGED <<api, age, quiet, silence, up, stopped, seen, box, late, last, endVars, gone, told>>

\* The fetch is done: the stream ends, fails, or has a chunk to hand on.
Take ==
    /\ pc = "wait" /\ fetch \in Items
    /\ fetch' = "none"
    /\ IF fetch \in {"end", "raise"}
       THEN /\ exc' = IF fetch = "raise" THEN "raise" ELSE exc
            /\ pc' = "cleanup"
            /\ UNCHANGED <<seen, quiet, box, late>>
       ELSE /\ seen' = TRUE /\ quiet' = 0
            /\ box' = <<fetch>> /\ late' = (api = "chat" /\ age > Timeout)
            /\ pc' = "out" /\ UNCHANGED exc
    /\ UNCHANGED <<api, age, waited, polled, silence, up, stopped, last, final, outcome, record, gone, told>>

PolledOut == pc = "wait" /\ fetch = "pending" /\ polled >= MinOf(Poll, IF Budget > waited THEN Budget - waited ELSE 1)

\* A poll found the client gone.
PollGone ==
    /\ pc = "wait" /\ fetch = "pending" /\ polled > 0 /\ gone
    /\ SetOutcome("cancelled")
    /\ final' = IF api = "messages" THEN "cancelled" ELSE final
    /\ fetch' = IF api = "messages" THEN "none" ELSE fetch
    /\ pc' = "cleanup"
    /\ UNCHANGED <<api, clocks, up, stopped, seen, box, late, last, exc, record, gone, told>>

\* Mutant: a fetch gets one keepalive.
KeepaliveDueOnce == KeepEvery > 0 /\ waited = KeepEvery
KeepaliveDue == KeepEvery > 0 /\ quiet >= KeepEvery

\* A poll found nothing: a keepalive when one is due, which in `chat` is also when an
\* overall timeout during silence is noticed.
PollSilent ==
    /\ PolledOut
    /\ IF KeepaliveDue
       THEN /\ quiet' = 0 /\ pc' = "out"
            /\ IF api = "chat" /\ age > Timeout
               THEN SetOutcome("errored") /\ box' = <<"error", "done">> /\ last' = TRUE
               ELSE box' = <<"keepalive">> /\ UNCHANGED <<outcome, last>>
       ELSE pc' = "top" /\ UNCHANGED <<quiet, box, outcome, last>>
    /\ UNCHANGED <<api, age, waited, polled, silence, fetch, up, stopped, seen, late, exc, final, record, gone, told>>

\* The client reads the next item, or what is sent to a client that left is dropped.  A
\* chunk that came too late is followed by the timeout's error.
Deliver ==
    /\ pc = "out"
    /\ told' = (told \/ Head(box) \in {"err", "error"})
    /\ silence' = 0
    /\ IF late
       THEN /\ SetOutcome("errored")
            /\ box' = <<"error", "done">> /\ late' = FALSE /\ last' = TRUE /\ UNCHANGED pc
       ELSE /\ box' = Tail(box)
            /\ pc' = IF Len(box) > 1 THEN "out" ELSE IF last THEN "cleanup" ELSE "top"
            /\ UNCHANGED <<outcome, late, last>>
    /\ UNCHANGED <<api, age, waited, quiet, polled, fetch, up, stopped, seen, exc, final, record, gone>>

\* Whoever runs the generator stops: a cancellation reaches it where it waits, and only
\* closes it where it has handed something on.
Cancel ==
    /\ pc \in {"wait", "out"}
    /\ exc' = IF pc = "wait" THEN "cancel" ELSE "exit"
    /\ final' = IF api = "messages" THEN "cancelled" ELSE final
    /\ pc' = "cleanup"
    /\ UNCHANGED <<api, clocks, loopVars, outcome, record, gone, told>>

-----------------------------------------------------------------------------
\* Mutant: the generator is closed while its fetch runs.
CancelFetchNot ==
    /\ pc = "cleanup" /\ pc' = "closing"
    /\ UNCHANGED <<api, clocks, loopVars, endVars, gone, told>>
\* The finally blocks: the fetch is cancelled and awaited before the generator is closed,
\* which refuses to be closed while it runs.
CancelFetch ==
    /\ pc = "cleanup" /\ pc' = "closing"
    /\ fetch' = "none"
    /\ UNCHANGED <<api, clocks, up, stopped, seen, box, late, last, endVars, gone, told>>

CloseUpstream ==
    /\ pc = "closing" /\ pc' = "finish"
    /\ up' = IF fetch = "pending" THEN "leaked" ELSE "closed"
    /\ UNCHANGED <<api, clocks, fetch, stopped, seen, box, late, last, endVars, gone, told>>

\* What the outer generator says of it.  `messages` does not say that it was cancelled.
Finish ==
    /\ pc = "finish" /\ pc' = "done"
    /\ CASE exc = "raise" -> SetOutcome("errored")
         [] exc = "cancel" /\ api = "chat" -> SetOutcome("cancelled")
         [] exc = "none" /\ api = "messages" -> SetOutcome(final)
         [] OTHER -> UNCHANGED outcome
    /\ UNCHANGED <<api, clocks, loopVars, exc, final, record, gone, told>>

\* tracking_iterator ends the record, after the response, or as soon as it is itself
\* cancelled; without an outcome the HTTP status speaks.
EndRecord ==
    /\ record = "active" /\ exc # "lost"
    /\ pc \in {"answered", "done"} \/ exc \in {"cancel", "exit"}
    /\ record' = IF outcome # None THEN outcome ELSE IF exc = "bad" THEN "errored" ELSE "completed"
    /\ UNCHANGED <<api, pc, clocks, loopVars, exc, final, outcome, gone, told>>

-----------------------------------------------------------------------------
Loop == NoticeGone \/ TimeOut \/ Wait \/ Take \/ PollSilent \/ CancelFetch \/ CloseUpstream \/ Finish

Next ==
    \/ Respond \/ StartStream \/ Tick \/ ClientLeaves \/ PollGone \/ Deliver \/ Cancel \/ EndRecord
    \/ \E x \in Items : Arrive(x)
    \/ NoticeGone \/ TimeOut \/ Wait \/ Take \/ PollSilent \/ CancelFetch \/ CloseUpstream \/ Finish

\* The clock runs whenever the event loop gives it a turn, the event loop runs what is due,
\* and the client reads or its connection ends.  Nothing is asked of the upstream, and
\* nobody has to cancel or to notice anything.
Fairness == WF_vars(Loop) /\ SF_vars(Tick) /\ WF_vars(Deliver) /\ WF_vars(EndRecord)

Spec == Init /\ [][Next]_vars /\ Fairness

-----------------------------------------------------------------------------
\* A stream whose client was told of an error by the server, or in `messages` by the
\* provider, is never recorded as completed or cancelled (set_request_tracking_outcome:
\* "`errored` outcomes always win over `completed`"), whatever ends it afterwards.  An error
\* that the server passes on as data, in a chunk of `chat` or after a terminal event, is not
\* the outcome.
ErrorsAreRecorded == told /\ record # "active" => record = "errored"

\* A connected client waits no longer than a keepalive interval and a poll for a byte.
NeverSilent == KeepEvery > 0 /\ pc = "wait" => silence <= KeepEvery + Poll

\* Every stream ends and is recorded, whether its upstream is silent, slow or endless, and
\* its upstream generator is closed, with no fetch running, so that the connection goes
\* back to its pool.
StreamEnds == Streaming ~> (pc = "done" /\ record # "active" /\ up = "closed")
=============================================================================

---------------------------- MODULE MCKeyedLocks ----------------------------
(* KeyedLocks with one lock object more than keys, so that a key can be     *)
(* given a second lock while its first is still referenced, and StreamServe *)
(* with times in the order of the default settings.  The two share no       *)
(* state; `part` says which of them a behaviour runs, so that their states  *)
(* add up instead of multiplying.                                           *)
EXTENDS KeyedLocks

CONSTANTS FirstBudget, ChunkBudget, Timeout, KeepEvery, None

VARIABLES
    api, pc, fetch, up, stopped, age, waited, quiet, polled, seen, box, late, last, exc, final,
    outcome, record, gone, told, silence,
    part

stream == <<api, pc, fetch, up, stopped, age, waited, quiet, polled, seen, box, late, last, exc, final,
            outcome, record, gone, told, silence>>

Stream == INSTANCE StreamServe

ASSUME StreamParameters == Stream!Parameters

MCInit ==
    /\ part \in {"locks", "stream"}
    /\ Init
    /\ Stream!Init /\ (part # "stream" => api = "chat")

MCNext ==
    \/ part = "locks"  /\ Next        /\ UNCHANGED <<stream, part>>
    \/ part = "stream" /\ Stream!Next /\ UNCHANGED <<vars, part>>

\* The fairness of both: while a part does not run, nothing of it is enabled that its
\* fairness is about.
MCSpec == MCInit /\ [][MCNext]_<<vars, stream, part>> /\ Fairness /\ Stream!Fairness

-----------------------------------------------------------------------------
\* StreamServe: a stream whose client was told of an error, but for one that the server
\* passed on as data, is recorded as errored, and a
\* connected client waits no longer than a keepalive interval for a byte.
ClientsAreTold ==
    part = "stream" => Stream!TypeOK /\ Stream!ErrorsAreRecorded /\ Stream!NeverSilent

\* StreamServe: every stream ends, is recorded, and has let go of its upstream.
StreamEnds == Stream!StreamEnds
=============================================================================

----------------------------- MODULE BlockStream -----------------------------
(* What a client of the Anthropic Messages API may rely on in a streamed     *)
(* message, whichever of the server's converters produced it: one message    *)
(* start, content blocks one at a time and numbered from 0, deltas only for  *)
(* the open block and of its kind, one end.  An error may end it anywhere.   *)
EXTENDS Naturals, Sequences

VARIABLE log   \* the events sent so far

Fits == [text |-> {"text", "citation"}, thinking |-> {"thinking", "signature"},
         tool |-> {"json"}, search |-> {"json"}, result |-> {}]

Over(l)   == \E n \in DOMAIN l : l[n].e \in {"end", "error"}
Starts(l) == {n \in DOMAIN l : l[n].e = "start"}
Open(l)   == {n \in Starts(l) : \A m \in DOMAIN l : ~(l[m].e = "stop" /\ l[m].i = l[n].i)}

Legal(l, event) ==
    /\ ~Over(l)
    /\ event.e = "message" => l = <<>>
    /\ l = <<>> => event.e \in {"message", "error"}
    /\ event.e = "start" => Open(l) = {} /\ \A n \in Starts(l) : l[n].i < event.i
    /\ event.e = "start" => \A i \in 0..(event.i - 1) : \E n \in Starts(l) : l[n].i = i
    /\ event.e = "delta" => \E n \in Open(l) : l[n].i = event.i /\ event.k \in Fits[l[n].k]
    /\ event.e = "stop"  => \E n \in Open(l) : l[n].i = event.i
    /\ event.e = "end"   => Open(l) = {}

Send ==
    /\ Len(log') > Len(log) /\ SubSeq(log', 1, Len(log)) = log
    /\ \A n \in (Len(log) + 1)..Len(log') : Legal(SubSeq(log', 1, n - 1), log'[n])

Spec == log = <<>> /\ [][Send]_log
=============================================================================

--------------------------- MODULE ModelResolution ---------------------------
(* From the name a client sends to the model that is called (model_resolution,*)
(* model_alias, outages, byok, and the access checks of cache and             *)
(* model_access_dep). Three layers look at the name: the tracking middleware, *)
(* before anyone is authenticated, maps it provisionally and rewrites the     *)
(* body; authentication maps it again for the caller; the route resolves it.  *)
(* A context carries what the earlier layers did, so that the last one judges *)
(* the client's own name. Configuration may change between any two of them.   *)
(* A name is a sequence: what stands before each '/'. A rule list is the map  *)
(* its ordered patterns amount to on one API surface.                         *)
EXTENDS Naturals, Sequences, FiniteSets, TLC

CONSTANTS
    Providers, FamilyOf,    \* registered keys, and the name before their ':'
    Owner,                  \* the user a key belongs to (BYOK), or None
    Users, Admin, PreAuth,  \* callers; PreAuth stands for "not known yet"
    ProfileOf, Default,     \* each user's profile, and the one of the rest
    Supports,               \* ids whose provider claims to serve this surface
    Exceptions,             \* explicit per-model decisions of a "custom" profile
    Names, Routes,          \* what clients ask for, and where
    Lists,                  \* the rule lists an admin may store
    Configs,                \* [live, cached, off, down, mode] an admin may leave
    MaxChanges, None

\* A caller is known or not; names, what rules make of them and cached ids are names, keys
\* are strings; what an administrator says of a model for a custom profile is yes or no.
Parameters ==
    /\ PreAuth \notin Users \cup {Admin}
    /\ Names \subseteq Seq(STRING)
    /\ \A n \in Names : n \notin {<<>>, None}
    /\ \A l \in Lists : \A n \in DOMAIN l : l[n] \in Seq(STRING) /\ l[n] \notin {<<>>, None}
    /\ \A c \in Configs : c.live \subseteq STRING /\ c.cached \subseteq Seq(STRING) \ {<<>>}
    /\ \A m \in DOMAIN Exceptions : Exceptions[m] \in BOOLEAN

VARIABLES
    cfg,        \* live keys, cached ids, ids the global gate lets through, outages, modes
    lists,      \* [profile, kind] -> rule list
    changes,    \* edits of cfg since the request began
    reloads,    \* reloads of the rule lists since then
    stage, route, caller, client,
    ctx,        \* the request's context variables
    body,       \* the name the route reads
    model,      \* request.state.model
    tracked,    \* the tracker entry's model
    failure,    \* why it was refused: [status, name]
    called      \* the id an upstream was called with

config  == <<cfg, lists, changes, reloads>>
request == <<stage, route, caller, client, ctx, body, model, tracked, failure, called>>
vars    == <<config, request>>

Kinds    == {"alias", "fallback"}
ProfileIds == {Default} \cup {ProfileOf[u] : u \in Users}
Fresh    == [original |-> None, input |-> None, resolved |-> None, scope |-> None,
             seen |-> {}, profile |-> None]

Init ==
    /\ cfg \in Configs
    /\ lists \in [ProfileIds \X Kinds -> Lists]
    /\ changes = 0 /\ reloads = 0
    /\ stage = "arrived" /\ route \in Routes /\ caller \in Users \cup {Admin}
    /\ client \in IF route = "deployment" THEN {n \in Names : Len(n) > 1} ELSE Names
    /\ ctx = Fresh /\ body = client /\ model = None /\ tracked = None /\ failure = None
    /\ called = None

-----------------------------------------------------------------------------
(* The registry, the cache, the gate, outages and access.                    *)

IsByok(m)    == Head(m) \in Providers /\ Owner[Head(m)] # None
Family(f)    == {p \in cfg.live : FamilyOf[p] = f /\ Owner[p] = None}
HasPrefix(f) == f \in cfg.live \/ Family(f) # {}

\* A family that names one instance is that instance.
Canonical(name) ==
    IF Len(name) > 1 /\ Head(name) \notin cfg.live /\ Cardinality(Family(Head(name))) = 1
    THEN <<CHOOSE p \in Family(Head(name)) : TRUE>> \o Tail(name)
    ELSE name

Bare(name) == {m \in cfg.cached : Tail(m) = name}
InOutage(m) == m \in cfg.down \/ (Len(m) > 1 /\ <<Head(m)>> \in cfg.down)
Gate(m) == m \notin cfg.off

\* A profile's access mode; no profile reaches another's instance.
ProfileAllows(p, m) ==
    LET mode == cfg.mode[p] IN
    /\ ~IsByok(m)
    /\ CASE mode = "allow"  -> TRUE
         [] mode = "deny"   -> FALSE
         [] mode = "custom" /\ m \in DOMAIN Exceptions -> Exceptions[m]
         [] OTHER           -> Gate(m)

MayUse(c, m) ==
    CASE c = PreAuth -> ~IsByok(m) /\ Gate(m)
      [] c # PreAuth /\ IsByok(m) -> Owner[Head(m)] = c /\ Gate(m)
      [] c = Admin /\ ~IsByok(m)  -> TRUE
      [] OTHER       -> ProfileAllows(ProfileOf[c], m)

\* The candidates that are registered, serve the surface if any of them claims to, and
\* are switched on.
FilterPool(pool) ==
    LET live == {m \in pool : Head(m) \in cfg.live}
        able == live \cap Supports
    IN {m \in IF able # {} THEN able ELSE live : Gate(m)}

Visible(pool, c) == {m \in pool : IsByok(m) => MayUse(c, m)}

No(status)  == [status |-> status, ids |-> {}]
\* Mutant: somebody's own instance is denied to the others, not unknown to them.
SingleTells(m, c) ==
    IF ~MayUse(c, m) THEN No("denied")
    ELSE IF InOutage(m) THEN No("outage") ELSE [status |-> "ok", ids |-> {m}]
Single(m, c) ==
    CASE ~MayUse(c, m) -> No(IF IsByok(m) THEN "unavailable" ELSE "denied")
      [] MayUse(c, m) /\ InOutage(m) -> No("outage")
      [] OTHER         -> [status |-> "ok", ids |-> {m}]

Pool(name, c) ==
    LET whole == Visible(FilterPool(Bare(name)), c) IN
    IF whole = {} /\ Len(name) > 1 THEN Visible(FilterPool(Bare(Tail(name))), c) ELSE whole

\* Can caller c be served this name? Access first, then outages.
Evaluate(name, c) ==
    LET allowed == {m \in Pool(name, c) : MayUse(c, m)}
        up      == {m \in allowed : ~InOutage(m)}
    IN CASE name \in cfg.cached                    -> Single(name, c)
         [] name \notin cfg.cached /\ Len(name) > 1 /\ HasPrefix(Head(name))
                                                   -> Single(Canonical(name), c)
         [] OTHER -> CASE Pool(name, c) = {} -> No("unavailable")
                       [] Pool(name, c) # {} /\ allowed = {} -> No("denied")
                       [] allowed # {} /\ up = {} -> No("outage")
                       [] OTHER -> [status |-> "ok", ids |-> up]

\* The listings: what a user, or a caller without an account, is shown.
EnabledFor(u) == {m \in cfg.cached : IF IsByok(m) THEN Owner[Head(m)] = u /\ Gate(m)
                                     ELSE ProfileAllows(ProfileOf[u], m)}
EnabledForAll == {m \in cfg.cached : ~IsByok(m) /\ Gate(m)}

-----------------------------------------------------------------------------
(* The rule lists, and the context of the names a request has produced.      *)

Mapped(name, p, kind) ==
    LET rules == lists[<<IF p = None THEN Default ELSE p, kind>>] IN
    IF name \in DOMAIN rules THEN rules[name] ELSE name

Produced(c, name)   == c.resolved # None /\ name \in {c.resolved, c.input} \cup c.seen
\* Mutant: a mapped name is taken for the client's.
SourceNameForgets(c, name) == IF c.resolved = name THEN name ELSE name
SourceName(c, name) == IF Produced(c, name) THEN c.input ELSE name

\* [ctx, name] after a layer asks for name to be mapped with one kind of list.
ApplyAlias(c, name, kind) ==
    LET scope  == <<IF c.profile = None THEN Default ELSE c.profile, kind>>
        target == Mapped(SourceName(c, name), c.profile, kind)
    IN CASE Produced(c, name) /\ c.scope = scope -> [ctx |-> c, name |-> c.resolved]
         [] Produced(c, name) /\ c.scope # scope ->
              [ctx  |-> [c EXCEPT !.resolved = target, !.scope = scope, !.seen = @ \cup {target}],
               name |-> target]
         [] ~Produced(c, name) /\ target = name -> [ctx |-> c, name |-> name]
         [] OTHER -> [ctx |-> [c EXCEPT !.original = name, !.input = name, !.resolved = target,
                                        !.scope = scope, !.seen = {target}],
                      name |-> target]

\* map_model_name: the layers that map without resolving.
MapName(c, name, who) ==
    LET source == SourceName(c, name)
        target == Mapped(source, c.profile, "fallback")
    IN IF Evaluate(source, who).status = "ok" THEN ApplyAlias(c, source, "alias")
       ELSE IF who # PreAuth /\ target # source /\ Evaluate(target, who).status # "ok"
       THEN [ctx |-> c, name |-> source]
       ELSE ApplyAlias(c, source, "fallback")

-----------------------------------------------------------------------------
(* The layers a request goes through.                                        *)

\* track_requests: a JSON body is rewritten with the mapped name, a form's field is not;
\* count_tokens is not tracked. A deployment's name stands in the URL.
Track ==
    /\ stage = "arrived" /\ stage' = "tracked"
    /\ IF route = "untracked" THEN UNCHANGED <<ctx, body, model, tracked>>
       ELSE LET m == MapName(ctx, client, PreAuth) IN
            /\ ctx' = m.ctx /\ model' = m.name /\ tracked' = m.name
            /\ body' = IF route = "json" THEN m.name ELSE body
    /\ UNCHANGED <<config, route, caller, client, failure, called>>

\* _bind_profile_context: the caller is known; the name is mapped again for them.
Authenticate ==
    /\ stage = "tracked" /\ stage' = "authenticated"
    /\ LET bound == [ctx EXCEPT !.profile = IF caller = Admin THEN None ELSE ProfileOf[caller]] IN
       IF model = None THEN ctx' = bound /\ UNCHANGED <<model, tracked>>
       ELSE LET m == MapName(bound, model, caller) IN
            ctx' = m.ctx /\ model' = m.name /\ tracked' = m.name
    /\ UNCHANGED <<config, route, caller, client, body, failure, called>>

Fail(status, name) ==
    /\ stage' = "failed" /\ failure' = [status |-> status, name |-> name]
    /\ UNCHANGED <<model, tracked, called>>

\* Mutant: the tracker keeps the name it was started with.
ChooseUntold(c, m, source) ==
    /\ stage' = "resolved" /\ model' = m
    /\ ctx' = [c EXCEPT !.original = IF @ = None /\ m # source THEN source ELSE @]
    /\ UNCHANGED <<tracked, failure, called>>

\* The chosen id is echoed as what the client sent, kept in the state and told the tracker.
Choose(c, m, source) ==
    /\ stage' = "resolved" /\ model' = m
    /\ ctx' = [c EXCEPT !.original = IF @ = None /\ m # source THEN source ELSE @]
    /\ tracked' = IF route = "untracked" THEN tracked ELSE m
    /\ UNCHANGED <<failure, called>>

\* resolve_model_for_request: rotation picks any of the candidates.
Resolve ==
    /\ stage = "authenticated" /\ route # "deployment"
    /\ LET source  == SourceName(ctx, body)
           first   == Evaluate(source, caller)
           a       == ApplyAlias(ctx, source, IF first.status = "ok" THEN "alias" ELSE "fallback")
           second  == IF a.name = source THEN first ELSE Evaluate(a.name, caller)
           other   == Mapped(source, ctx.profile, "fallback")
           rescue  == Evaluate(other, caller)
           ev      == IF first.status = "ok"
                      THEN IF second.status = "outage" /\ other # source /\ rescue.status = "ok"
                              /\ a.name # source
                           THEN rescue ELSE second
                      ELSE IF second.status = "ok" THEN second ELSE first
       IN \/ ev.status = "ok" /\ \E m \in ev.ids : Choose(a.ctx, m, source)
          \/ /\ ev.status # "ok" /\ ctx' = a.ctx
             /\ Fail(ev.status, IF first.status = "ok" THEN a.name ELSE source)
    /\ UNCHANGED <<config, route, caller, client, body>>

\* enforce_access_and_limits, after the tracker was told: access, then outages.
Refused(m) == CASE ~MayUse(caller, m) -> IF IsByok(m) THEN "unavailable" ELSE "denied"
                [] MayUse(caller, m) /\ InOutage(m) -> "outage"
                [] OTHER              -> "ok"

\* _parse_model_name and _get_provider: where an id is sent. A prefix that is not
\* registered any more is looked up as a bare name, whoever's choice it was.
Dispatched(m) ==
    LET shared(name) == {c \in Bare(name) : Head(c) \in cfg.live /\ ~IsByok(c)} IN
    CASE HasPrefix(Head(m)) -> {c \in {Canonical(m)} : Head(c) \in cfg.live}
      [] ~HasPrefix(Head(m)) /\ shared(m) # {} -> shared(m)
      [] OTHER -> shared(Tail(m))

Enforce ==
    /\ stage = "resolved"
    /\ CASE Refused(model) # "ok"   -> Fail(Refused(model), model)
         [] Refused(model) = "ok" /\ Dispatched(model) = {} -> Fail("invalid", model)
         [] OTHER -> /\ stage' = "served" /\ called' \in Dispatched(model)
                     /\ UNCHANGED <<model, tracked, failure>>
    /\ UNCHANGED <<config, route, caller, client, ctx, body>>

\* The instance a deployment URL names, if there is one.
Instance == IF Head(client) \in cfg.live THEN Head(client) ELSE Head(Canonical(client))

\* A deployment route: the URL's provider serves the mapped deployment name.
Deploy ==
    /\ stage = "authenticated" /\ route = "deployment"
    /\ LET m     == MapName(ctx, client, caller)
           name  == Canonical(m.name)
           there == <<Instance>> \o Tail(name)
           asked == <<Instance>> \o Tail(client)
           down  == IF InOutage(there) THEN {there}
                    ELSE IF Head(name) # Instance /\ InOutage(asked) THEN {asked} ELSE {}
       IN IF Instance \notin cfg.live \/ Owner[Instance] \notin {None, caller}
          THEN Fail("unavailable", client) /\ UNCHANGED ctx
          ELSE /\ ctx' = [m.ctx EXCEPT !.original = IF @ = None /\ name # m.name THEN m.name ELSE @]
               /\ IF MayUse(caller, name) /\ down # {} THEN Fail("outage", CHOOSE d \in down : TRUE)
                  ELSE IF Refused(name) # "ok" THEN Fail(Refused(name), name)
                  ELSE /\ stage' = "served" /\ called' = there /\ UNCHANGED failure
                       /\ IF name = m.name THEN UNCHANGED <<model, tracked>>
                          ELSE model' = name /\ tracked' = name
    /\ UNCHANGED <<config, route, caller, client, body>>

\* An admin edits flags, modes or outages, or the registry or its models change.
Change ==
    /\ stage \notin {"served", "failed"} /\ changes < MaxChanges
    /\ cfg' \in Configs \ {cfg} /\ changes' = changes + 1
    /\ UNCHANGED <<lists, reloads, request>>

\* load_from_database: the stored rules replace every list at once.
Reload ==
    /\ stage \notin {"served", "failed"} /\ reloads < MaxChanges
    /\ \E s \in DOMAIN lists : \E l \in Lists \ {lists[s]} : lists' = [lists EXCEPT ![s] = l]
    /\ reloads' = reloads + 1
    /\ UNCHANGED <<cfg, changes, request>>

Done == stage \in {"served", "failed"} /\ UNCHANGED vars

Next == Track \/ Authenticate \/ Resolve \/ Enforce \/ Deploy \/ Change \/ Reload \/ Done
Spec == Init /\ [][Next]_vars

-----------------------------------------------------------------------------
(* What the project says of it.                                              *)

\* The answer the two lists promise for a name as the client sent it, as if no layer had
\* looked at it before: the ids it may be served with, or why and for which name it fails.
Answers(name, c) ==
    LET who == IF c = Admin THEN Default ELSE ProfileOf[c]
        Try(n)  == Evaluate(n, c)
        regular == Mapped(name, who, "alias")
        standby == Mapped(name, who, "fallback")
        used    == IF Try(name).status = "ok" THEN regular ELSE name
        saved   == standby # name /\ Try(standby).status = "ok"
                   /\ (used = name \/ Try(used).status = "outage")
        result  == CASE Try(used).status = "ok" -> Try(used)
                     [] Try(used).status # "ok" /\ saved -> Try(standby)
                     [] OTHER -> Try(used)
    IN IF result.status = "ok" THEN {<<"ok", m>> : m \in result.ids}
       ELSE {<<result.status, used>>}

\* A request is served or refused by the client's own name, the caller's profile and the
\* present configuration: neither the provisional mapping made before authentication nor
\* the ones after it show in the answer, whichever layer's name the route reads
\* (resolve_model_for_request, alias_source_name).
EarlierLayersDoNotShow ==
    [][Resolve /\ reloads = 0 =>
          (IF stage' = "resolved" THEN <<"ok", model'>> ELSE <<failure'.status, failure'.name>>)
             \in Answers(client, caller)]_vars

\* A served request echoes the name its client sent; it is recorded as the model called
\* (of another instance, for a deployment mapped elsewhere), if its provider was not
\* unregistered meanwhile and a deployment's configuration did not change.
NamedAsServed ==
    stage = "served" =>
        /\ client = IF ctx.original # None THEN ctx.original ELSE model
        /\ route \in {"json", "form"} /\ HasPrefix(Head(model)) => Canonical(tracked) = called
        /\ route = "deployment" /\ changes + reloads = 0 => Tail(tracked) = Tail(called)

\* A model of a user's own instance that is registered or cached.
OwnModel(m) == Len(m) > 1 /\ IsByok(m) /\ (Head(m) \in cfg.live \/ m \in cfg.cached)

\* A user's own instance is called for its owner alone, and nobody else's refusal names it
\* as one it is denied (404, never 403); what is called is not in outage, unless its
\* provider was unregistered meanwhile.
OwnInstanceOnly ==
    /\ stage = "served" =>
           /\ IsByok(called) => Owner[Head(called)] = caller
           /\ route = "deployment" \/ Head(model) \in cfg.live => ~InOutage(called)
    /\ stage = "failed" /\ failure.status = "denied" => ~OwnModel(failure.name)

\* Whoever is shown a model can be served it by its id, unless it is in outage.
ListedIsServed ==
    /\ \A u \in Users : \A m \in EnabledFor(u) : Evaluate(m, u).status \in {"ok", "outage"}
    /\ \A m \in EnabledForAll : Evaluate(m, Admin).status \in {"ok", "outage"}

NamesKept == NamedAsServed /\ OwnInstanceOnly /\ ListedIsServed
=============================================================================

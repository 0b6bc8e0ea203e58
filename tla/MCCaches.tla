------------------------------ MODULE MCCaches ------------------------------
(* What the process keeps of the tables: LimitConfig, with two admins, the  *)
(* refresh loop and one row of each table, and AuthCache, with two accounts,*)
(* two names and one key, which the first account has at first; and how a   *)
(* request's name is resolved by it, over the catalogues of                 *)
(* Catalogues.  The three share no state; `part` says which of them  *)
(* a behaviour runs, so that their states add up instead of multiplying.    *)
EXTENDS MCLimitConfig, Catalogues, FiniteSets

CONSTANTS
    Ids, Names, ApiKeys, Reqs, Editors, MaxOps,
    Providers, FamilyOf, Owner, Callers, Admin, PreAuth, ProfileOf, Default,
    Supports, Exceptions, Models, Routes, Lists, Configs,
    Starts      \* the configurations that may be in force at first

VARIABLES users, apiKeys, userCache, keyCache, toUpdate, reqs, changes, loop, owed, made,
    cfg, lists, turned, reloads, layer, route, caller, client, ctx, body, model, tracked, failure, called,
    part

authCache == <<users, apiKeys, userCache, keyCache, toUpdate, reqs, changes, loop, owed, made>>
resolution == <<cfg, lists, turned, reloads, layer, route, caller, client, ctx, body, model, tracked,
                failure, called>>

Auth == INSTANCE AuthCache WITH Keys <- ApiKeys, MaxEdits <- MaxOps, keys <- apiKeys, edits <- changes

ASSUME CacheParameters == Auth!Parameters

Res == INSTANCE ModelResolution WITH
    Users <- Callers, Names <- Models, MaxChanges <- 1, changes <- turned, stage <- layer

ASSUME ResolutionParameters == Res!Parameters

MCInit ==
    /\ part \in {"config", "auth", "names"}
    /\ Init
    /\ Auth!Init
    /\ \A i \in Ids : users[i] = None <=> i # 1
    /\ \A k \in ApiKeys : apiKeys[k] # None
    /\ users[1].name = CHOOSE n \in Names : TRUE
    \* At first at most one list has rules.
    /\ Res!Init /\ cfg \in Starts /\ Cardinality({s \in DOMAIN lists : lists[s] # <<>>}) <= 1
    /\ part # "names" => /\ cfg = CHOOSE c \in Starts : TRUE
                         /\ lists = [s \in DOMAIN lists |-> <<>>]
                         /\ route = "json" /\ caller = Admin /\ client = CHOOSE n \in Models : TRUE

MCNext ==
    \/ part = "config" /\ Next      /\ UNCHANGED <<authCache, resolution, part>>
    \/ part = "auth"   /\ Auth!Next /\ UNCHANGED <<vars, resolution, part>>
    \/ part = "names"  /\ Res!Next  /\ UNCHANGED <<vars, authCache, part>>

\* The fairness of the part that runs.
MCSpec ==
    /\ MCInit /\ [][MCNext]_<<vars, authCache, resolution, part>>
    /\ WF_vars(part = "config" /\ TakeReloadLock(Loop))
    /\ \A t \in Tasks : WF_vars(Load(t))
    /\ WF_authCache(part = "auth" /\ (Auth!LoopStep \/ Auth!WriteFails)) /\ Auth!ReadsSucceed

-----------------------------------------------------------------------------
\* AuthCache: an entry that no longer says what the tables say was cached across the edit
\* that outdated it, and a use of a key is pending, being written or written.
AuthCacheIsTrue == part = "auth" => Auth!TypeOK /\ Auth!OutdatedOnlyByRace /\ Auth!UsesAreKept

\* AuthCache: once the edits have ended, no revoked key stays in the cache, nor a name that
\* nobody active has.
RevokedCredentialsGo == Auth!RevokedCredentialsGo
\* ModelResolution: a request is answered by its client's own name, and echoed, recorded,
\* permitted and listed under the names that go with it.
AnsweredByClientsName == Res!EarlierLayersDoNotShow /\ [](part = "names" => Res!NamesKept)
=============================================================================

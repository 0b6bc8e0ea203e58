------------------------- MODULE MCConcurrencySlots -------------------------
(* Calls and what they depend on: small instances of ConcurrencySlots (one  *)
(* call more than the largest cap), ChatStream, ResponsesStream, SearchLoop,*)
(* SignIn and ProviderSync (one of the two providers exists at first).      *)
(* They share no state; `part` says which of them a behaviour runs, so that *)
(* their states add up instead of multiplying.                              *)
EXTENDS ConcurrencySlots, TLC

CONSTANTS ToolCalls, MaxPieces, MaxTexts, RespPieces, RespTexts, MaxRetries, MaxLoops, MaxQueries, Uses, MaxBlocks,
          Ids, Emails, Subs, MaxBorn, MaxRequests, Global, Byok, MaxEdits, MaxClock, None

VARIABLES
    chatDialect, chatGiven, chatNamed, chatLast, chatConv, chatSent, chatStarted, chatRetries, chatPhase,
    respDialect, respGiven, respSeen, respSettled, respWhole, respConv, respSent, respPhase,
    surface, native, stored, uses, shortcut, rounds, executed, prints, asks, turn, reading, next, texted,
    loopSent, handed, replayed, loopTold, pending, forgotten, loopSettled, loopPhase,
    accounts, links, tokens, signing, raced, born, begun,
    rows, models, registry, owners, errors, open, closing, editing, status, slices, editors, fetches, clock,
    made, behind, crossed, overtaken,
    part

chat == <<chatDialect, chatGiven, chatNamed, chatLast, chatConv, chatSent, chatStarted, chatRetries, chatPhase>>
resp == <<respDialect, respGiven, respSeen, respSettled, respWhole, respConv, respSent, respPhase>>
search == <<surface, native, stored, uses, shortcut, rounds, executed, prints, asks, turn, reading, next, texted,
            loopSent, handed, replayed, loopTold, pending, forgotten, loopSettled, loopPhase>>
signIn == <<accounts, links, tokens, signing, raced, born, begun>>
providers == <<rows, models, registry, owners, errors, open, closing, editing, status, slices, editors, fetches,
               clock, made, behind, crossed, overtaken>>

Chat == INSTANCE ChatStream WITH Calls <- ToolCalls,
    dialect <- chatDialect, given <- chatGiven, named <- chatNamed, last <- chatLast, conv <- chatConv,
    sent <- chatSent, started <- chatStarted, retries <- chatRetries, phase <- chatPhase

Resp == INSTANCE ResponsesStream WITH Calls <- ToolCalls, MaxPieces <- RespPieces, MaxTexts <- RespTexts,
    dialect <- respDialect, given <- respGiven, seen <- respSeen, settled <- respSettled,
    whole <- respWhole, conv <- respConv, sent <- respSent, phase <- respPhase

ASSUME ResponsesParameters == Resp!Parameters

Search == INSTANCE SearchLoop WITH Queries <- Users,
    sent <- loopSent, told <- loopTold, settled <- loopSettled, phase <- loopPhase

ASSUME SearchParameters == Search!Parameters

Accounts == INSTANCE SignIn WITH Tasks <- Users, tasks <- signing

ASSUME AccountsParameters == Accounts!Parameters

Providers == INSTANCE ProviderSync WITH Tasks <- Users, tasks <- editors

ASSUME ProviderParameters == Providers!Parameters

MCInit ==
    /\ part \in {"slots", "chat", "responses", "search", "accounts", "providers"}
    /\ Init              /\ (part # "slots"     => \A u \in Users : limit[u] = Unlimited)
    /\ Chat!Init         /\ (part # "chat"      => chatDialect = "indexed")
    /\ Resp!Init         /\ (part # "responses" => respDialect = "item")
    /\ Search!Init       /\ (part # "search"    => surface = "chat" /\ ~shortcut)
    /\ Accounts!Init     /\ (part # "accounts"  => born = 0)
    /\ Providers!Init    /\ Cardinality(open) = IF part = "providers" THEN 1 ELSE 0

MCNext ==
    \/ /\ part = "slots" /\ Next
       /\ UNCHANGED <<chat, resp, search, signIn, providers, part>>
    \/ /\ part = "chat" /\ Chat!Next
       /\ UNCHANGED <<vars, resp, search, signIn, providers, part>>
    \/ /\ part = "responses" /\ Resp!Next
       /\ UNCHANGED <<vars, chat, search, signIn, providers, part>>
    \/ /\ part = "search" /\ Search!Next
       /\ UNCHANGED <<vars, chat, resp, signIn, providers, part>>
    \/ /\ part = "accounts" /\ Accounts!Next
       /\ UNCHANGED <<vars, chat, resp, search, providers, part>>
    \/ /\ part = "providers" /\ Providers!Next
       /\ UNCHANGED <<vars, chat, resp, search, signIn, part>>

MCSpec == MCInit /\ [][MCNext]_<<vars, chat, resp, search, signIn, providers, part>>

Symmetry == Permutations(Users)

-----------------------------------------------------------------------------
\* ChatStream, ResponsesStream, SearchLoop: whatever the upstream interleaves, and however
\* many rounds a turn takes, what the client is sent is one well-formed message.
OneMessage == Chat!WellFormedMessage /\ Resp!WellFormedMessage /\ Search!OneMessage

\* ChatStream, ResponsesStream: every call of a stream reaches the client once, with its
\* own arguments, and all its text in order.
NothingLostNothingMixed ==
    /\ part = "chat" => Chat!TypeOK /\ Chat!NothingLostNothingMixed
    /\ part = "responses" => Resp!TypeOK /\ Resp!NothingLostNothingMixed

\* SearchLoop: rounds, requests to the model and searches stay within their bounds; a turn
\* sent back to the model has an answer for each of its calls; and the client gets its own
\* calls, all of them, and no internal one.
TurnsAreWhole ==
    part = "search" =>
        Search!TypeOK /\ Search!SearchesBounded /\ Search!EveryCallAnswered /\ Search!ClientSeesItsOwnCalls

\* SignIn: an account has one identity, which never signs into another account than the
\* one that created or confirmed it.
IdentityKeepsItsAccount ==
    part = "accounts" => Accounts!TypeOK /\ Accounts!IdentityKeepsItsAccount /\ Accounts!OneIdentityEach

\* ProviderSync: between edits the registry of providers is what the table says, a user's
\* provider that is on and not routed has its build's error on record, none is routed
\* without its owner, and no client is leaked or closed while it is in use.
RegistryIsCurrent ==
    part = "providers" => Providers!TypeOK /\ Providers!RegistryIsCurrent /\ Providers!ClientsAccounted

\* ProviderSync: an older fetch never overwrites what a later one cached, and no sync
\* changes what an administrator toggled.
SyncsKeepWhatIsNewer ==
    [][part = "providers" => Providers!SliceOrderKept /\ Providers!TogglesKept]_providers
=============================================================================

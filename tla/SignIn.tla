-------------------------------- MODULE SignIn --------------------------------
(* Sign-up, ZOHO sign-in, linking an identity to an account and withdrawing  *)
(* a pending sign-up: routes/auth.py over the OAuth functions of             *)
(* auth/database.py and the tokens of auth/purpose_tokens.py.                *)
(*                                                                           *)
(* SQLite may give the id of a deleted account to a new one, so an account   *)
(* is its id and its incarnation (`born`: the name and the creation time     *)
(* that a token's claims carry).  A request reads rows, awaits, and writes;  *)
(* in between the account may be deleted, or its id given away.  An identity *)
(* refers to its account by a foreign key: it goes with the account, and is  *)
(* refused without one.                                                      *)
EXTENDS Naturals, FiniteSets

CONSTANTS Ids, Emails, Subs, Tasks,
          MaxBorn,      \* bound: accounts created in a behaviour
          MaxRequests,  \* bound: requests begun
          None

VARIABLES
    accounts,  \* id -> [born, email, pw, sub, st], or None
    links,     \* oauth_users: subject -> [id, born], or None (born is history)
    tokens,    \* link and withdraw cookies that have been issued
    tasks,     \* requests under way
    raced,     \* history: subjects linked by a request that had read another account
    born,      \* accounts created so far
    begun      \* requests begun so far

vars == <<accounts, links, tokens, tasks, raced, born, begun>>

Idle == [ph |-> "idle"]
Account == [born : 1..MaxBorn, email : Emails, pw : BOOLEAN, sub : Subs \cup {None},
            st : {"active", "pending", "off"}]
Identity == [id : Ids, born : 1..MaxBorn]

\* What the parameters must satisfy: there is room for one account, and None is no value.
Parameters == /\ MaxBorn \in Nat \ {0} /\ MaxRequests \in Nat
              /\ None \notin Subs /\ None \notin Account /\ None \notin Identity

TypeOK ==
    /\ accounts \in [Ids -> Account \cup {None}]
    /\ links \in [Subs -> Identity \cup {None}]
    /\ \A k \in tokens : k.kind \in {"link", "withdraw"} /\ k.id \in Ids /\ k.born \in 1..MaxBorn
    /\ \A t \in Tasks : tasks[t].ph \in {"idle", "asked", "known", "unlinked", "new", "match", "target", "leaving"}
    /\ raced \subseteq Subs
    /\ born \in 0..MaxBorn /\ begun \in 0..MaxRequests

\* Nobody has an account, or somebody who signed up and has an identity linked.
Init ==
    /\ \/ /\ accounts = [i \in Ids |-> None] /\ links = [s \in Subs |-> None]
          /\ born = 0
       \/ \E i \in Ids, s \in Subs, m \in Emails :
          /\ accounts = [j \in Ids |-> IF j = i THEN [born |-> 1, email |-> m, pw |-> TRUE, sub |-> s, st |-> "active"]
                                      ELSE None]
          /\ links = [q \in Subs |-> IF q = s THEN [id |-> i, born |-> 1] ELSE None]
          /\ born = 1
    /\ tokens = {} /\ raced = {} /\ begun = 0
    /\ tasks = [t \in Tasks |-> Idle]

-----------------------------------------------------------------------------
Exists(i)        == accounts[i] # None
WithEmail(m)     == {i \in Ids : Exists(i) /\ accounts[i].email = m}
IdentitiesOf(i)  == {s \in Subs : links[s] # None /\ links[s].id = i}
\* Mutant: an identity of another subject does not count.
HasIdentityNever(i, row) == FALSE
\* user_has_provider_identity, for a user row read earlier
HasIdentity(i, row) == row.sub # None \/ IdentitiesOf(i) # {}
\* Mutant: the id alone is taken for the account.
MatchesId(claims, i) == Exists(i) /\ claims.id = i
\* claims_match_user
Matches(claims, i) == Exists(i) /\ claims.id = i /\ claims.born = accounts[i].born

Begin(t) == tasks[t] = Idle /\ begun < MaxRequests /\ begun' = begun + 1
End(t)   == tasks' = [tasks EXCEPT ![t] = Idle]
Go(t, p) == tasks' = [tasks EXCEPT ![t] = p]

NewAccount(i, m, pw, s, st) ==
    /\ born < MaxBorn /\ ~Exists(i) /\ WithEmail(m) = {}
    /\ born' = born + 1
    /\ accounts' = [accounts EXCEPT ![i] = [born |-> born + 1, email |-> m, pw |-> pw, sub |-> s, st |-> st]]

\* The account's row and everything that refers to its id go in one commit.
RemoveAccount(i) ==
    /\ accounts' = [accounts EXCEPT ![i] = None]
    /\ links' = [s \in Subs |-> IF s \in IdentitiesOf(i) THEN None ELSE links[s]]

-----------------------------------------------------------------------------
\* signup: pending until an administrator approves it.
Signup(i, m) ==
    /\ NewAccount(i, m, TRUE, None, "pending")
    /\ UNCHANGED <<links, tokens, tasks, raced, begun>>

\* approve_user, activate_user, delete_user
SetStatus(i, st) ==
    /\ Exists(i) /\ accounts[i].st # st
    /\ accounts' = [accounts EXCEPT ![i].st = st]
    /\ UNCHANGED <<links, tokens, tasks, raced, born, begun>>

\* Deletion by an administrator or by the account's owner.
DeleteAccount(i) ==
    /\ Exists(i) /\ RemoveAccount(i)
    /\ UNCHANGED <<tokens, tasks, raced, born, begun>>

-----------------------------------------------------------------------------
\* zoho_callback, once ZOHO has said who it is: subject, email, and whether verified.
Callback(t, s, m, verified) ==
    /\ Begin(t)
    /\ Go(t, [ph |-> "asked", sub |-> s, email |-> m, verified |-> verified])
    /\ UNCHANGED <<accounts, links, tokens, raced, born>>

ReadIdentity(t) ==
    /\ tasks[t].ph = "asked"
    /\ LET s == tasks[t].sub
       IN IF links[s] # None
          THEN Go(t, [ph |-> "known", sub |-> s, id |-> links[s].id, row |-> accounts[links[s].id]])
          ELSE Go(t, [tasks[t] EXCEPT !.ph = "unlinked"])
    /\ UNCHANGED <<accounts, links, tokens, raced, born, begun>>

\* _finish_oauth_login on the row read before: a pending account gets a withdraw cookie.
FinishLogin(t, i, row) ==
    /\ tokens' = IF row.st = "pending" THEN tokens \cup {[kind |-> "withdraw", id |-> i, born |-> row.born]} ELSE tokens
    /\ End(t)

\* A: linked already.  A user that has no provider yet is given it; the UPDATE of a row
\* that is gone raises, and so does an identity whose user is gone.
SignInKnown(t) ==
    /\ tasks[t].ph = "known"
    /\ LET i == tasks[t].id
           row == tasks[t].row
       IN IF row = None \/ (row.sub = None /\ ~Exists(i))
          THEN End(t) /\ UNCHANGED <<accounts, tokens>>
          ELSE /\ FinishLogin(t, i, row)
               /\ accounts' = IF row.sub = None THEN [accounts EXCEPT ![i].sub = tasks[t].sub] ELSE accounts
    /\ UNCHANGED <<links, raced, born, begun>>

\* B or C: is the email an account's?
ReadEmail(t) ==
    /\ tasks[t].ph = "unlinked"
    /\ LET found == WithEmail(tasks[t].email)
       IN IF found = {} THEN Go(t, [tasks[t] EXCEPT !.ph = "new"])
          ELSE \E i \in found : Go(t, [ph |-> "match", sub |-> tasks[t].sub, email |-> tasks[t].email,
                                      verified |-> tasks[t].verified, id |-> i, row |-> accounts[i]])
    /\ UNCHANGED <<accounts, links, tokens, raced, born, begun>>

\* C: create_oauth_user, whose commit fails if the email or the identity was taken in between.
CreateAccount(t) ==
    /\ tasks[t].ph = "new"
    /\ LET s == tasks[t].sub
           m == tasks[t].email
       IN CASE WithEmail(m) # {} ->
                 /\ \E i \in WithEmail(m) : Go(t, [ph |-> "match", sub |-> s, email |-> m,
                                                  verified |-> tasks[t].verified, id |-> i, row |-> accounts[i]])
                 /\ UNCHANGED <<accounts, links, tokens, born>>
            [] WithEmail(m) = {} /\ links[s] # None ->
                 /\ IF Exists(links[s].id) THEN FinishLogin(t, links[s].id, accounts[links[s].id])
                    ELSE End(t) /\ UNCHANGED tokens
                 /\ UNCHANGED <<accounts, links, born>>
            [] OTHER ->
                 \E i \in Ids, st \in {"active", "pending"} :
                    /\ NewAccount(i, m, FALSE, s, st)
                    /\ links' = [links EXCEPT ![s] = [id |-> i, born |-> born + 1]]
                    /\ FinishLogin(t, i, [st |-> st, born |-> born + 1])
    /\ UNCHANGED <<raced, begun>>

\* B: _oauth_email_match.  Linking is never silent: it takes a verified email, a password
\* to confirm with, and no identity yet; then a cookie that names the account is issued.
OfferLink(t) ==
    /\ tasks[t].ph = "match" /\ tasks[t].row.sub # tasks[t].sub
    /\ tokens' = IF tasks[t].verified /\ ~HasIdentity(tasks[t].id, tasks[t].row) /\ tasks[t].row.pw
                 THEN tokens \cup {[kind |-> "link", id |-> tasks[t].id, born |-> tasks[t].row.born,
                                    sub |-> tasks[t].sub, email |-> tasks[t].email]}
                 ELSE tokens
    /\ End(t)
    /\ UNCHANGED <<accounts, links, raced, born, begun>>

\* The account records this very subject but its identity row is not there: it is put back.
RestoreLink(t) ==
    /\ tasks[t].ph = "match" /\ tasks[t].row.sub = tasks[t].sub
    /\ LET s == tasks[t].sub
           i == tasks[t].id
       IN IF links[s] # None
          THEN /\ IF Exists(links[s].id) THEN FinishLogin(t, links[s].id, accounts[links[s].id])
                  ELSE End(t) /\ UNCHANGED tokens
               /\ UNCHANGED <<links, raced>>
          ELSE IF ~Exists(i) THEN End(t) /\ UNCHANGED <<links, tokens, raced>>
          ELSE /\ links' = [links EXCEPT ![s] = [id |-> i, born |-> tasks[t].row.born]]
               /\ raced' = IF accounts[i].born = tasks[t].row.born THEN raced ELSE raced \cup {s}
               /\ FinishLogin(t, i, tasks[t].row)
    /\ UNCHANGED <<accounts, born, begun>>

-----------------------------------------------------------------------------
\* zoho_link_confirm: _load_link_target, and the account's password checked against the
\* row just read.
LoadTarget(t, k) ==
    /\ Begin(t) /\ k \in tokens /\ k.kind = "link"
    /\ IF /\ Matches(k, k.id)
          /\ accounts[k.id].email = k.email /\ accounts[k.id].pw
          /\ ~HasIdentity(k.id, accounts[k.id])
       THEN Go(t, [ph |-> "target", sub |-> k.sub, id |-> k.id, row |-> accounts[k.id],
                   born |-> k.born, free |-> IdentitiesOf(k.id) = {}])
       ELSE End(t)
    /\ UNCHANGED <<accounts, links, tokens, raced, born>>

\* Mutant: the subject is not looked up again and an identity moves to the account.
LinkIdentityBlindly(t) ==
    /\ tasks[t].ph = "target"
    /\ Exists(tasks[t].id)
    /\ links' = [links EXCEPT ![tasks[t].sub] = [id |-> tasks[t].id, born |-> tasks[t].row.born]]
    /\ accounts' = [accounts EXCEPT ![tasks[t].id].sub = tasks[t].sub]
    /\ End(t)
    /\ UNCHANGED <<tokens, raced, born, begun>>
\* link_oauth_identity: the INSERT fails on a linked subject, the UPDATE of the user's
\* provider on a user that is gone.  The cookie is not consumed.
LinkIdentity(t) ==
    /\ tasks[t].ph = "target"
    /\ LET s == tasks[t].sub
           i == tasks[t].id
       IN IF links[s] # None \/ ~Exists(i)
          THEN End(t) /\ UNCHANGED <<accounts, links, tokens, raced>>
          ELSE /\ links' = [links EXCEPT ![s] = [id |-> i, born |-> tasks[t].born]]
               /\ accounts' = [accounts EXCEPT ![i].sub = s]
               /\ raced' = IF accounts[i].born # tasks[t].row.born \/ (tasks[t].free /\ IdentitiesOf(i) # {})
                           THEN raced \cup {s} ELSE raced
               /\ FinishLogin(t, i, tasks[t].row)
    /\ UNCHANGED <<born, begun>>

-----------------------------------------------------------------------------
\* withdraw_pending_signup, by the cookie or by name and password.
AskToWithdraw(t, i) ==
    /\ Begin(t) /\ Exists(i) /\ accounts[i].st = "pending"
    /\ accounts[i].pw \/ \E k \in tokens : k.kind = "withdraw" /\ Matches(k, i)
    /\ Go(t, [ph |-> "leaving", id |-> i])
    /\ UNCHANGED <<accounts, links, tokens, raced, born>>

\* delete_user_account goes by the id alone, whatever became of the account meanwhile.
Withdraw(t) ==
    /\ tasks[t].ph = "leaving"
    /\ IF Exists(tasks[t].id) THEN RemoveAccount(tasks[t].id) ELSE UNCHANGED <<accounts, links>>
    /\ End(t)
    /\ UNCHANGED <<tokens, raced, born, begun>>

\* A cookie runs out.
ExpireToken(k) ==
    /\ k \in tokens /\ tokens' = tokens \ {k}
    /\ UNCHANGED <<accounts, links, tasks, raced, born, begun>>

-----------------------------------------------------------------------------
Handle(t) ==
    \/ \E s \in Subs, m \in Emails, verified \in BOOLEAN : Callback(t, s, m, verified)
    \/ ReadIdentity(t) \/ SignInKnown(t) \/ ReadEmail(t) \/ CreateAccount(t)
    \/ OfferLink(t) \/ RestoreLink(t) \/ LinkIdentity(t) \/ Withdraw(t)
    \/ \E k \in tokens : LoadTarget(t, k)
    \/ \E i \in Ids : AskToWithdraw(t, i)

Next ==
    \/ \E t \in Tasks : Handle(t)
    \/ \E i \in Ids, m \in Emails : Signup(i, m)
    \/ \E i \in Ids, st \in {"active", "off"} : SetStatus(i, st)
    \/ \E i \in Ids : DeleteAccount(i)
    \/ \E k \in tokens : ExpireToken(k)

Spec == Init /\ [][Next]_vars

-----------------------------------------------------------------------------
\* An identity signs into the account that it created or that confirmed it with its
\* password, never into a later account of the same id (purpose_tokens.py: "the id alone
\* is not enough") and never into nothing; but for an account that vanished between the
\* reads and the commit of the linking request itself.
IdentityKeepsItsAccount == \A s \in Subs \ raced :
    links[s] # None => Exists(links[s].id) /\ accounts[links[s].id].born = links[s].born

\* An account has one ZOHO identity, however callbacks, confirmations and deletions
\* overlap, but for two confirmations that both found it without one.
OneIdentityEach == \A i \in Ids : Cardinality(IdentitiesOf(i) \ raced) <= 1
=============================================================================

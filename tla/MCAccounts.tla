----------------------------- MODULE MCAccounts -----------------------------
(* What an account is entered by: the second factor (Mfa), sign-ins with a     *)
(* provider (Provider), the accounts that registrations and identities make    *)
(* (Accounts), and passkeys and API tokens (Credentials).  What leads from one *)
(* to another is the outcome that the other takes from the set of all there    *)
(* can be, so a run takes one of them.                                         *)
EXTENDS Mfa, Provider, Sequences, TLC

CONSTANTS
  Given, Candidates, Own, AdminName, AdminAddress, MaxAccounts,
  Challenge, Key, Token, MaxPasskeys, PerUser, MaxCount, MaxEvents,
  MaxOutcomes   \* bounds what has come of the accounts at any time

VARIABLES
  users, made, links, sessions, step, kind, form, target, took, claimed, cleared, home,
  status, challenges, passkeys, tokens, at, call, record, answered, count, copied, together,
  crowded, valid, wrong, events,
  part

A == INSTANCE Accounts WITH pc <- step
C == INSTANCE Credentials
       WITH pc <- at, op <- call, seen <- record, used <- answered, newest <- count

ASSUME A!AccountsAssumption /\ C!CredentialsAssumption

\* Two people: one takes the identity's address, the other the name tried first for the
\* identity, which is the administrator's too.
Two == {[name |-> "ann", email |-> "ann@"], [name |-> "ann", email |-> "bob@"]}
TwoNames == <<"ann", "ann_1">>

accountVars ==
  <<users, made, links, sessions, step, kind, form, target, took, claimed, cleared, home>>
credentialVars ==
  <<status, challenges, passkeys, tokens, at, call, record, answered, count, copied, together,
    crowded, valid, wrong, events>>
MCVars == <<vars, signInVars, accountVars, credentialVars, part>>

\* What the others start from does not matter.
MCInit ==
  /\ Init /\ ProviderInit /\ A!Init /\ C!Init
  /\ part \in {"mfa", "provider", "accounts", "credentials"}
  /\ part # "provider" => idTokens
  /\ part # "credentials" => C!Registered = {}

\* Two of one, of secrets and lists, beside one of the other.
MintedBound == secrets + lists <= MaxSecrets + MaxLists - 1

\* What has come of the accounts: links, sessions, and accounts deleted.
OutcomesBound == Len(links) + Cardinality(sessions) + made - Cardinality(A!Existing) <= MaxOutcomes

\* Passkeys and tokens have nothing in common but the account: one of the two is in use.
KeysOrTokens ==
  \/ C!Stored = {} /\ \A r \in Request : call[r].kind \notin {"create", "call"}
  \/ C!Unused = Challenge /\ \A r \in Request : call[r].kind \notin {"options", "register", "login"}

MCNext ==
  /\ UNCHANGED part
  /\ \/ part = "mfa" /\ Next /\ MintedBound' /\ UNCHANGED <<signInVars, accountVars, credentialVars>>
     \/ part = "provider" /\ ProviderNext /\ UNCHANGED <<vars, accountVars, credentialVars>>
     \/ part = "accounts" /\ A!Next /\ OutcomesBound' /\ UNCHANGED <<vars, signInVars, credentialVars>>
     \/ part = "credentials" /\ C!Next /\ KeysOrTokens' /\ UNCHANGED <<vars, signInVars, accountVars>>

MCSpec == MCInit /\ [][MCNext]_MCVars

\* No two accounts share a name, an address, an identity or the first administrator's role.
OneOfEach == A!OneOfEach

\* An account belongs to whoever proved the identity or its address.
AccountsHold == A!AccountsHold

\* A credential that is copied, spent, removed or past a limit opens nothing.
CredentialsHold == C!CredentialsHold

\* A password that was set with a reset link is the account's, taken over or not.
ResetAlwaysCounts == A!ResetAlwaysCounts

\* An identity that was ever linked still leads to an account.
LinkedIsFound == A!LinkedIsFound

\* Requests are interchangeable, and so are the codes of a list, and challenges.
Symmetry == Permutations(Request) \cup Permutations(Slot) \cup Permutations(Challenge)
            \cup Permutations(Key)
=============================================================================

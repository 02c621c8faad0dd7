------------------------------- MODULE Access -------------------------------
(***************************************************************************)
(* Who may come in: accounts of the agent server (register, log in) and    *)
(* companion devices (pair with a one-time token, keep a session, revoke). *)
(*                                                                         *)
(* A registration checks the email, waits for the hash of its password and *)
(* only then writes; the routes of a companion run in one piece, but the   *)
(* server may stop between the two writes of a pairing, and any answer may *)
(* be lost on its way.                                                     *)
(*                                                                         *)
(* Its names are its own, so that AccountProofs can extend it together     *)
(* with Settings.                                                          *)
(***************************************************************************)
EXTENDS Naturals, FiniteSets

CONSTANTS
  Forms,       \* registrations that people send
  Email, Name, \* functions: the email and the user name of a form
  Tokens,      \* pairing tokens
  Fingerprints,\* devices, which are known by their fingerprint
  None,
  MaxSessions, \* bound of the model: session tokens issued
  MaxFailures    \* bound of the model: failures, crashes and lost answers

Scopes == {"readonly", "admin"}

ASSUME AccessAssumption ==
  /\ Forms = DOMAIN Email /\ Forms = DOMAIN Name
  /\ None \notin Fingerprints
  /\ MaxSessions \in Nat \ {0} /\ MaxFailures \in Nat

VARIABLES
  users,   \* the accounts, each known by the form that it was made from
  homes,   \* the accounts that have a workspace
  hashing, \* registrations that wait for the hash of their password
  told,    \* forms that were answered 201; kept for the properties
  tokens,  \* companion_tokens
  devices, \* companion_devices: None for a fingerprint without a row
  issued,  \* session tokens issued so far
  held,    \* the session tokens that each device was told; kept for the properties
  failures

accounts == <<users, homes, hashing, told>>
companions == <<tokens, devices, issued, held>>
accessVars == <<users, homes, hashing, told, tokens, devices, issued, held, failures>>

-----------------------------------------------------------------------------

SessionsOrNull == 1 .. MaxSessions \cup {None}

PairingToken == [scope : Scopes, state : {"unused", "open", "expired"},
                 claimedBy : Fingerprints \cup {None}]

Device == [scope : Scopes, session : SessionsOrNull, live : BOOLEAN, revoked : BOOLEAN]

\* None is told apart from what it stands for the lack of.
ASSUME NoneAssumption == None \notin Device /\ None \notin 1 .. MaxSessions

AccessInit ==
  /\ users = {} /\ homes = {} /\ hashing = {} /\ told = {}
  /\ tokens \in [Tokens -> {[scope |-> s, state |-> "unused", claimedBy |-> None] : s \in Scopes}]
  /\ devices = [f \in Fingerprints |-> None]
  /\ issued = 0
  /\ held = [f \in Fingerprints |-> {}]
  /\ failures = 0

Failure == failures < MaxFailures /\ failures' = failures + 1

-----------------------------------------------------------------------------
\* Accounts.

\* POST /api/auth/register checks that the email is free and waits for bcrypt.
Register(f) ==
  /\ f \notin hashing \cup users
  /\ \A u \in users : Email[u] # Email[f]
  /\ hashing' = hashing \cup {f}
  /\ UNCHANGED <<users, homes, told, companions, failures>>

\* A plausible bug: the insert replaces the account that is in the way.
ReplaceUser(f) == {u \in users : Email[u] # Email[f] /\ Name[u] # Name[f]} \cup {f}

\* INSERT INTO users, where the email and the user name are UNIQUE.
CreateUser(f) ==
  IF \E u \in users : Email[u] = Email[f] \/ Name[u] = Name[f]
    THEN users
    ELSE users \cup {f}

\* The workspace of an account, with a folder of its own for tools: its id is new.
CreateWorkspace(f) == homes' = homes \cup {f}

\* The hash is there. The insert may be refused (500); the workspace may fail to be created, or
\* the server stop before it (500 or nothing, with an account); or the answer be lost.
Registered(f) ==
  /\ f \in hashing
  /\ hashing' = hashing \ {f}
  /\ users' = CreateUser(f)
  /\ IF f \notin users'
       THEN UNCHANGED <<homes, told, failures>>
       ELSE \/ /\ CreateWorkspace(f)
               /\ told' = told \cup {f}
               /\ UNCHANGED failures
            \/ /\ Failure
               /\ CreateWorkspace(f) \/ UNCHANGED homes
               /\ UNCHANGED told
  /\ UNCHANGED companions

\* POST /api/auth/login: the account of the form's email, if the form's password is its password.
LogsIn(f) == {u \in users : Email[u] = Email[f]} = {f}

\* GET /api/auth/me: the account that the token of an answer names.
Me(f) == users \cap {f}

\* The server stops: the registrations that wait are gone.
ServerStops ==
  /\ hashing # {}
  /\ Failure
  /\ hashing' = {}
  /\ UNCHANGED <<users, homes, told, companions>>

-----------------------------------------------------------------------------
\* Companions.

\* validateSession, for the device whose row has the session.
Valid(f, s) ==
  /\ devices[f] # None
  /\ devices[f].session = s /\ devices[f].live /\ ~devices[f].revoked

HasSession(f) == \E s \in 1 .. MaxSessions : Valid(f, s)

CreatePairingToken(t) ==
  /\ tokens[t].state = "unused"
  /\ tokens' = [tokens EXCEPT ![t].state = "open"]
  /\ UNCHANGED <<devices, issued, held, accounts, failures>>

TokenExpires(t) ==
  /\ tokens[t].state = "open"
  /\ tokens' = [tokens EXCEPT ![t].state = "expired"]
  /\ UNCHANGED <<devices, issued, held, accounts, failures>>

Claimable(t) == tokens[t].state = "open" /\ tokens[t].claimedBy = None

\* A plausible bug: any open token pairs any fingerprint, and takes over the row that is there.
TakeOver(t, f) == Claimable(t)

\* The transaction of claimPairingToken: the fingerprint of a row is unique, revoked or not.
Claims(t, f) == Claimable(t) /\ devices[f] = None

\* createDeviceSession for a device of `rows`.
CreateDeviceSession(rows, f) ==
  /\ issued < MaxSessions
  /\ issued' = issued + 1
  /\ devices' = [rows EXCEPT ![f].session = issued + 1, ![f].live = TRUE]

\* The answer with the new session reaches the one who asked, or is lost.
Answer(f) ==
  \/ held' = [held EXCEPT ![f] = @ \cup {issued'}] /\ UNCHANGED failures
  \/ Failure /\ UNCHANGED held

\* POST /api/companion/pair/claim. The server may stop after the device has its row and before
\* it has a session.
ClaimPairingToken(t, f) ==
  /\ Claims(t, f)
  /\ tokens' = [tokens EXCEPT ![t].claimedBy = f]
  /\ LET rows == [devices EXCEPT ![f] = [scope |-> tokens[t].scope, session |-> None,
                                         live |-> FALSE, revoked |-> FALSE]]
     IN  \/ CreateDeviceSession(rows, f) /\ Answer(f)
         \/ Failure /\ devices' = rows /\ UNCHANGED <<issued, held>>
  /\ UNCHANGED accounts

\* A plausible bug: a refresh needs the id of the device and no session of its own.
BareId(f, g) ==
  /\ devices[g] # None /\ ~devices[g].revoked
  /\ CreateDeviceSession(devices, g)
  /\ Answer(f)
  /\ UNCHANGED <<tokens, accounts>>

\* POST /api/companion/session: f sends the id of device g and a session token it was told.
RefreshSession(f, g) ==
  /\ \E s \in held[f] : Valid(g, s)
  /\ CreateDeviceSession(devices, g)
  /\ Answer(f)
  /\ UNCHANGED <<tokens, accounts>>

SessionExpires(f) ==
  /\ HasSession(f)
  /\ devices' = [devices EXCEPT ![f].live = FALSE]
  /\ UNCHANGED <<tokens, issued, held, accounts, failures>>

RevokeDevice(f) ==
  /\ devices[f] # None
  /\ devices' = [devices EXCEPT ![f].revoked = TRUE, ![f].session = None]
  /\ UNCHANGED <<tokens, issued, held, accounts, failures>>

-----------------------------------------------------------------------------

AccessNext ==
  \/ \E f \in Forms : Register(f) \/ Registered(f)
  \/ ServerStops
  \/ \E t \in Tokens : CreatePairingToken(t) \/ TokenExpires(t)
  \/ \E t \in Tokens, f \in Fingerprints : ClaimPairingToken(t, f)
  \/ \E f, g \in Fingerprints : RefreshSession(f, g)
  \/ \E f \in Fingerprints : SessionExpires(f) \/ RevokeDevice(f)

AccessSpec == AccessInit /\ [][AccessNext]_accessVars

-----------------------------------------------------------------------------

AccessTypeOK ==
  /\ users \subseteq Forms /\ homes \subseteq users /\ hashing \subseteq Forms
  /\ told \subseteq Forms
  /\ tokens \in [Tokens -> PairingToken]
  /\ devices \in [Fingerprints -> Device \cup {None}]
  /\ issued \in 0 .. MaxSessions
  /\ held \in [Fingerprints -> SUBSET (1 .. issued)]
  /\ failures \in 0 .. MaxFailures

\* Whoever was told that the registration went through has an account with a workspace, can log in
\* with its password and is known by the token of the answer, though others registered the same
\* email or name while the password was hashed. And every variable keeps its type.
AnsweredIsIn ==
  /\ AccessTypeOK
  /\ \A f \in told : LogsIn(f) /\ Me(f) = {f} /\ f \in homes

\* A session that is let in is known to its device and nobody else, and says the scope of the
\* one token that the device was paired with: another token never hands the device over.
SessionsAreOwn ==
  \A f \in Fingerprints : HasSession(f) =>
    /\ \A g \in Fingerprints \ {f} : devices[f].session \notin held[g]
    /\ \E t \in Tokens :
         /\ {u \in Tokens : tokens[u].claimedBy = f} = {t}
         /\ devices[f].scope = tokens[t].scope

\* A device that is in stays in until its session expires, it is revoked, or it is told another
\* session (one that it asked for, whose answer may be lost): nobody else locks it out.
StaysIn ==
  [][\A f \in Fingerprints : HasSession(f) =>
       \/ devices'[f].session = devices[f].session
       \/ ~devices'[f].live \/ devices'[f].revoked
       \/ devices'[f].session \in held'[f]
       \/ failures' # failures]_accessVars

\* A device whose session is over can pair again with a new token, as the answer to its refresh
\* and the documentation tell it to. The code's row for its fingerprint stands in the way.
PairsAgain ==
  \A t \in Tokens, f \in Fingerprints : Claimable(t) /\ ~HasSession(f) => Claims(t, f)

=============================================================================

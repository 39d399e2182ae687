------------------------------- MODULE Accounts -------------------------------
(***************************************************************************)
(* The accounts of the server and what they hand out: signing in and its   *)
(* limit of failed attempts (app/main.py), registrations that an           *)
(* administrator approves, the codes that pair the Android companion       *)
(* (app/monitor.py) and public links to files (app/share_links.py).        *)
(*                                                                         *)
(* A handler is a sequence of SQLite transactions (app/database.py), each  *)
(* on a connection of its own, and the handlers of different clients       *)
(* interleave between them: one step of the model is one transaction.  The *)
(* administrator's command line (app/manage_users.py) runs in a process of *)
(* its own, at any moment.                                                 *)
(***************************************************************************)
EXTENDS Naturals, FiniteSets

CONSTANTS
    Client,      \* browsers and applications; all have the same address
    User,        \* user names
    Code,        \* the pairing codes that can be drawn
    Share,       \* the tokens of public links that can be drawn
    Quota,       \* the numbers of downloads a link can be limited to
    Unlimited,   \* SQL NULL as a limit of downloads
    None,        \* no user, no account
    MaxFailed,   \* attempts of ten minutes after which no other is made (5)
    MaxPending   \* registrations that may wait (100)

ASSUME AccountsAssumption ==
    /\ IsFiniteSet(Client)
    /\ None \notin User
    /\ Quota \subseteq Nat \ {0}
    /\ Unlimited \notin Nat
    /\ MaxFailed \in Nat \ {0}
    /\ MaxPending \in Nat

VARIABLES
    account,     \* users
    failed,      \* login_attempts: the failed ones of the last ten minutes
    tries,       \* registration_attempts of the last ten minutes
    requests,    \* registration_requests
    lastId,      \* the AUTOINCREMENT counter of registration_requests
    codes,       \* monitor_pairing_codes
    devices,     \* monitor_devices, with the code that paired each
    share,       \* file_shares
    sent,        \* the downloads of each link that reached send_from_directory
    signed,      \* the user of each client's session cookie
    page,        \* the registrations on the client's screen
    job          \* the request the client waits for

accountVars == <<account, signed>>
loginVars   == <<failed>>
registerVars == <<tries, requests, lastId, page>>
pairVars    == <<codes, devices>>
shareVars   == <<share, sent>>
vars == <<account, failed, tries, requests, lastId, codes, devices, share,
          sent, signed, page, job>>

-----------------------------------------------------------------------------
Account == [role : {"admin", "user"}, active : BOOLEAN]

Registration == [id : Nat, user : User]

PairingCode == [code : Code, user : User, expired : BOOLEAN]

Link == [owner   : User,
         limit   : Quota \cup {Unlimited},
         count   : Nat,                    \* download_count
         revoked : BOOLEAN,
         expired : BOOLEAN]

NoLink == [owner |-> None, limit |-> Unlimited, count |-> 0,
           revoked |-> FALSE, expired |-> FALSE]

Op == {"login", "register", "list", "approve", "reject",
       "code", "pair", "share", "revoke", "download"}

\* "auth" is the look at the session's account with which most requests begin.
Stage == {"idle", "auth", "count", "find", "note", "act", "send"}

JobRecord == [op    : Op \cup {"none"},
              at    : Stage,
              user  : User \cup {None},     \* the name given, or the session's
              right : BOOLEAN,              \* the password is the right one, or
                                            \* the session an administrator's
              row   : Registration \cup {None},
              code  : Code \cup {None},
              link  : Share \cup {None},
              limit : Quota \cup {Unlimited}]

NoJob == [op |-> "none", at |-> "idle", user |-> None, right |-> FALSE,
          row |-> None, code |-> None, link |-> None, limit |-> Unlimited]

TypeOK ==
    /\ account \in [User -> Account \cup {None}]
    /\ failed \in [User -> Nat]
    /\ tries \in Nat
    /\ requests \in SUBSET Registration
    /\ lastId \in Nat
    /\ codes \in SUBSET PairingCode
    /\ devices \in SUBSET [owner : User, code : Code, by : Client]
    /\ share \in [Share -> Link \cup {NoLink}]
    /\ sent \in [Share -> Nat]
    /\ signed \in [Client -> User \cup {None}]
    /\ page \in [Client -> SUBSET Registration]
    /\ job \in [Client -> JobRecord]

\* The server has accounts, and browsers hold permanent cookies of theirs.  No
\* program of the repository disables an account any more (see Manage), but one
\* that is disabled in the database stays so.
Init ==
    /\ account \in [User -> Account \cup {None}]
    /\ failed = [u \in User |-> 0]
    /\ tries = 0
    /\ requests = {}
    /\ lastId = 0
    /\ codes = {}
    /\ devices = {}
    /\ share = [s \in Share |-> NoLink]
    /\ sent = [s \in Share |-> 0]
    /\ signed \in [Client -> {u \in User : account[u] # None} \cup {None}]
    /\ page = [c \in Client |-> {}]
    /\ job = [c \in Client |-> NoJob]

-----------------------------------------------------------------------------
IsActive(u) == u # None /\ account[u] # None /\ account[u].active
IsAdmin(u)  == IsActive(u) /\ account[u].role = "admin"

\* Client c sends request j.
Send(c, j) ==
    /\ job[c] = NoJob
    /\ job' = [job EXCEPT ![c] = j]
    /\ UNCHANGED <<accountVars, loginVars, registerVars, pairVars, shareVars>>

\* The request of c goes on with stage at, or is answered.
Go(c, at) == job' = [job EXCEPT ![c].at = at]
Reply(c)  == job' = [job EXCEPT ![c] = NoJob]

At(c, op, at) == job[c].op = op /\ job[c].at = at

-----------------------------------------------------------------------------
(* Signing in.                                                             *)

AskLogin(c) ==
    \E u \in User, right \in BOOLEAN :
        Send(c, [NoJob EXCEPT !.op = "login", !.at = "count", !.user = u,
                              !.right = right])

LoginCount_Wrong(c) ==
    /\ At(c, "login", "count")
    /\ Go(c, "find")
    /\ UNCHANGED <<accountVars, loginVars, registerVars, pairVars, shareVars>>

\* count_recent_failed_login_attempts
LoginCount(c) ==
    /\ At(c, "login", "count")
    /\ IF failed[job[c].user] >= MaxFailed THEN Reply(c) ELSE Go(c, "find")
    /\ UNCHANGED <<accountVars, loginVars, registerVars, pairVars, shareVars>>

\* find_user_by_username.  What was read decides although the account may be
\* disabled before the attempt is recorded.
LoginFind(c) ==
    LET u == job[c].user IN
    /\ At(c, "login", "find")
    /\ job' = [job EXCEPT ![c].at = "note",
                          ![c].right = job[c].right /\ IsActive(u)]
    /\ UNCHANGED <<accountVars, loginVars, registerVars, pairVars, shareVars>>

\* record_login_attempt, and the session of a successful one.
LoginRecord(c) ==
    LET u == job[c].user IN
    /\ At(c, "login", "note")
    /\ IF job[c].right
       THEN signed' = [signed EXCEPT ![c] = u] /\ UNCHANGED failed
       ELSE failed' = [failed EXCEPT ![u] = @ + 1] /\ UNCHANGED signed
    /\ Reply(c)
    /\ UNCHANGED <<account, registerVars, pairVars, shareVars>>

Logout(c) ==
    /\ job[c] = NoJob
    /\ signed[c] # None
    /\ signed' = [signed EXCEPT ![c] = None]
    /\ UNCHANGED <<account, loginVars, registerVars, pairVars, shareVars, job>>

\* An attempt becomes older than ten minutes.
AttemptExpires ==
    /\ \/ /\ \E u \in User : /\ failed[u] > 0
                             /\ failed' = [failed EXCEPT ![u] = @ - 1]
          /\ UNCHANGED tries
       \/ /\ tries > 0
          /\ tries' = tries - 1
          /\ UNCHANGED failed
    /\ UNCHANGED <<accountVars, requests, lastId, page, pairVars, shareVars,
                   job>>

-----------------------------------------------------------------------------
(* Requests of a session begin with its account.                           *)

Ask(c, j) ==
    /\ signed[c] # None
    /\ Send(c, [j EXCEPT !.at = "auth", !.user = signed[c]])

AdminOps == {"list", "approve", "reject", "code"}

AuthStage(op) == IF op \in {"revoke", "code"} THEN "find" ELSE "act"

\* get_session_user, require_admin: the session of a disabled account ends.  The
\* role that was read here is the one the rest of the handler goes by.
Authenticate(c) ==
    LET u == job[c].user
        allowed == IF job[c].op \in AdminOps THEN IsAdmin(u) ELSE IsActive(u)
    IN  /\ job[c].at = "auth"
        /\ signed' = IF IsActive(u) THEN signed ELSE [signed EXCEPT ![c] = None]
        /\ IF allowed
           THEN job' = [job EXCEPT ![c].at = AuthStage(job[c].op),
                                   ![c].right = IsAdmin(u)]
           ELSE Reply(c)
        /\ UNCHANGED <<account, loginVars, registerVars, pairVars, shareVars>>

-----------------------------------------------------------------------------
(* Registrations.                                                          *)

AskRegister(c) ==
    \E u \in User :
        Send(c, [NoJob EXCEPT !.op = "register", !.at = "count", !.user = u])

\* count_recent_registration_attempts
RegisterCount(c) ==
    /\ At(c, "register", "count")
    /\ IF tries >= MaxFailed THEN Reply(c) ELSE Go(c, "note")
    /\ UNCHANGED <<accountVars, loginVars, registerVars, pairVars, shareVars>>

\* record_registration_attempt
RegisterRecord(c) ==
    /\ At(c, "register", "note")
    /\ tries' = tries + 1
    /\ Go(c, "act")
    /\ UNCHANGED <<accountVars, loginVars, requests, lastId, page, pairVars,
                   shareVars>>

NextId_Wrong ==
    1 + Cardinality(requests)

NextId == lastId + 1

\* create_registration_request: a name that is taken, that waits already (the
\* column is UNIQUE) or that is one too many is refused.
Register(c) ==
    LET u == job[c].user IN
    /\ At(c, "register", "act")
    /\ IF /\ account[u] = None
          /\ Cardinality(requests) < MaxPending
          /\ \A r \in requests : r.user # u
       THEN /\ requests' = requests \cup {[id |-> NextId, user |-> u]}
            /\ lastId' = NextId
       ELSE UNCHANGED <<requests, lastId>>
    /\ Reply(c)
    /\ UNCHANGED <<accountVars, loginVars, tries, page, pairVars, shareVars>>

\* The page of an administrator shows the registrations, and its buttons act on
\* one of those it shows.
AskList(c)    == Ask(c, [NoJob EXCEPT !.op = "list"])
AskApprove(c) ==
    \E r \in page[c] : Ask(c, [NoJob EXCEPT !.op = "approve", !.row = r])
AskReject(c)  ==
    \E r \in page[c] : Ask(c, [NoJob EXCEPT !.op = "reject", !.row = r])

ListRequests(c) ==
    /\ At(c, "list", "act")
    /\ page' = [page EXCEPT ![c] = requests]
    /\ Reply(c)
    /\ UNCHANGED <<accountVars, loginVars, tries, requests, lastId, pairVars,
                   shareVars>>

\* approve_registration_request: of a row that is gone nothing is left to do, a
\* name that was taken meanwhile is a conflict and the row stays.
Approve(c) ==
    LET rows == {r \in requests : r.id = job[c].row.id} IN
    /\ At(c, "approve", "act")
    /\ IF \E r \in rows : account[r.user] = None
       THEN \E r \in rows :
               /\ account' = [account EXCEPT ![r.user] =
                                 [role |-> "user", active |-> TRUE]]
               /\ requests' = requests \ rows
       ELSE UNCHANGED <<account, requests>>
    /\ Reply(c)
    /\ UNCHANGED <<signed, loginVars, tries, lastId, page, pairVars, shareVars>>

Reject(c) ==
    /\ At(c, "reject", "act")
    /\ requests' = {r \in requests : r.id # job[c].row.id}
    /\ Reply(c)
    /\ UNCHANGED <<accountVars, loginVars, tries, lastId, page, pairVars,
                   shareVars>>

-----------------------------------------------------------------------------
(* Pairing the Android companion.                                          *)

AskCode(c) == Ask(c, [NoJob EXCEPT !.op = "code"])

\* monitor_create_pairing_code asks for the session's account a second time,
\* and fails if that was disabled in between.
CodeOwner(c) ==
    LET active == IsActive(job[c].user) IN
    /\ At(c, "code", "find")
    /\ signed' = IF active THEN signed ELSE [signed EXCEPT ![c] = None]
    /\ IF active THEN Go(c, "act") ELSE Reply(c)
    /\ UNCHANGED <<account, loginVars, registerVars, pairVars, shareVars>>

\* create_monitor_pairing_code: the codes of the user and the expired ones go.
\* A code that is stored or has paired a device is not drawn again.
CreateCode(c) ==
    /\ At(c, "code", "act")
    /\ \E k \in Code :
          /\ \A p \in codes : p.code # k
          /\ \A d \in devices : d.code # k
          /\ codes' = {p \in codes : p.user # job[c].user /\ ~p.expired}
                      \cup {[code |-> k, user |-> job[c].user,
                             expired |-> FALSE]}
    /\ Reply(c)
    /\ UNCHANGED <<accountVars, loginVars, registerVars, devices, shareVars>>

AskPair(c) ==
    \E k \in Code :
        Send(c, [NoJob EXCEPT !.op = "pair", !.at = "find", !.code = k])

PairFind_Wrong(c) ==
    /\ At(c, "pair", "find")
    /\ IF \E p \in codes : p.code = job[c].code /\ ~p.expired
       THEN Go(c, "act") /\ UNCHANGED codes
       ELSE Reply(c) /\ UNCHANGED codes
    /\ UNCHANGED <<accountVars, loginVars, registerVars, devices, shareVars>>

\* consume_monitor_pairing_code reads the code without a transaction ...
PairFind(c) ==
    LET good == {p \in codes : /\ p.code = job[c].code /\ ~p.expired
                               /\ IsAdmin(p.user)}
    IN  /\ At(c, "pair", "find")
        /\ IF good = {}
           THEN /\ codes' = {p \in codes : ~p.expired}
                /\ Reply(c)
           ELSE /\ \E p \in good :
                      job' = [job EXCEPT ![c].at = "act", ![c].user = p.user]
                /\ UNCHANGED codes
        /\ UNCHANGED <<accountVars, loginVars, registerVars, devices, shareVars>>

\* ... and the DELETE that begins one does not ask whether it found the code.
PairWrite(c) ==
    /\ At(c, "pair", "act")
    /\ codes' = {p \in codes : p.code # job[c].code}
    /\ devices' = devices \cup {[owner |-> job[c].user, code |-> job[c].code,
                                 by |-> c]}
    /\ Reply(c)
    /\ UNCHANGED <<accountVars, loginVars, registerVars, shareVars>>

CodeExpires ==
    /\ \E p \in codes :
          /\ ~p.expired
          /\ codes' = (codes \ {p}) \cup {[p EXCEPT !.expired = TRUE]}
    /\ UNCHANGED <<accountVars, loginVars, registerVars, devices, shareVars, job>>

-----------------------------------------------------------------------------
(* Public links.                                                           *)

AskShare(c) ==
    \E l \in Quota \cup {Unlimited} :
        Ask(c, [NoJob EXCEPT !.op = "share", !.limit = l])

\* create_share_route: one's own file or, for an administrator, anybody's.
CreateShare(c) ==
    LET u == job[c].user IN
    /\ At(c, "share", "act")
    /\ \E s \in Share, o \in {v \in User : account[v] # None} :
          /\ share[s] = NoLink
          /\ o = u \/ job[c].right
          /\ share' = [share EXCEPT ![s] =
                          [owner |-> o, limit |-> job[c].limit, count |-> 0,
                           revoked |-> FALSE, expired |-> FALSE]]
    /\ Reply(c)
    /\ UNCHANGED <<accountVars, loginVars, registerVars, pairVars, sent>>

AskRevoke(c) ==
    \E s \in Share :
        share[s] # NoLink /\ Ask(c, [NoJob EXCEPT !.op = "revoke", !.link = s])

\* find_file_share and the right to it.
RevokeFind(c) ==
    LET u == job[c].user IN
    /\ At(c, "revoke", "find")
    /\ IF share[job[c].link].owner = u \/ job[c].right
       THEN Go(c, "act") ELSE Reply(c)
    /\ UNCHANGED <<accountVars, loginVars, registerVars, pairVars, shareVars>>

Revoke(c) ==
    /\ At(c, "revoke", "act")
    /\ share' = [share EXCEPT ![job[c].link].revoked = TRUE]
    /\ Reply(c)
    /\ UNCHANGED <<accountVars, loginVars, registerVars, pairVars, sent>>

AskDownload(c) ==
    \E s \in Share :
        /\ share[s] # NoLink
        /\ Send(c, [NoJob EXCEPT !.op = "download", !.at = "act", !.link = s])

Claimable_Wrong(l) ==
    /\ IsActive(l.owner) /\ ~l.revoked /\ ~l.expired
    /\ l.limit # Unlimited => l.count <= l.limit

Claimable(l) ==
    /\ IsActive(l.owner) /\ ~l.revoked /\ ~l.expired
    /\ l.limit # Unlimited => l.count < l.limit

\* claim_file_share_download, in one transaction (BEGIN IMMEDIATE).
Claim(c) ==
    LET s == job[c].link IN
    /\ At(c, "download", "act")
    /\ IF Claimable(share[s])
       THEN /\ share' = [share EXCEPT ![s].count = @ + 1]
            /\ Go(c, "send")
       ELSE Reply(c) /\ UNCHANGED share
    /\ UNCHANGED <<accountVars, loginVars, registerVars, pairVars, sent>>

\* The file is sent, or is no longer there: the download counts all the same.
SendFile(c) ==
    /\ At(c, "download", "send")
    /\ \/ sent' = [sent EXCEPT ![job[c].link] = @ + 1]
       \/ UNCHANGED sent
    /\ Reply(c)
    /\ UNCHANGED <<accountVars, loginVars, registerVars, pairVars, share>>

LinkExpires ==
    /\ \E s \in Share :
          /\ share[s] # NoLink /\ ~share[s].expired
          /\ share' = [share EXCEPT ![s].expired = TRUE]
    /\ UNCHANGED <<accountVars, loginVars, registerVars, pairVars, sent, job>>

-----------------------------------------------------------------------------
\* app/manage_users.py: create an account, or change its role (the passwords are
\* left out).  Its activate and deactivate change nothing: handle_set_active
\* calls set_user_active, which the file does not import.
Manage ==
    /\ \E u \in User, r \in {"admin", "user"} :
          account' = [account EXCEPT ![u] =
                         IF @ = None THEN [role |-> r, active |-> TRUE]
                         ELSE [@ EXCEPT !.role = r]]
    /\ UNCHANGED <<signed, loginVars, registerVars, pairVars, shareVars, job>>

AsksOf(c) ==
    \/ AskLogin(c) \/ Logout(c) \/ AskRegister(c) \/ AskList(c)
    \/ AskApprove(c) \/ AskReject(c) \/ AskCode(c) \/ AskPair(c)
    \/ AskShare(c) \/ AskRevoke(c) \/ AskDownload(c)

ServeLogin(c) == LoginCount(c) \/ LoginFind(c) \/ LoginRecord(c)
ServeRegistration(c) ==
    \/ RegisterCount(c) \/ RegisterRecord(c) \/ Register(c)
    \/ ListRequests(c) \/ Approve(c) \/ Reject(c)
ServePairing(c) == CodeOwner(c) \/ CreateCode(c) \/ PairFind(c) \/ PairWrite(c)
ServeShare(c) ==
    \/ CreateShare(c) \/ RevokeFind(c) \/ Revoke(c) \/ Claim(c) \/ SendFile(c)

Serve(c) ==
    \/ Authenticate(c) \/ ServeLogin(c) \/ ServeRegistration(c)
    \/ ServePairing(c) \/ ServeShare(c)

Elapse == AttemptExpires \/ CodeExpires \/ LinkExpires

Next ==
    \/ \E c \in Client : AsksOf(c) \/ Serve(c)
    \/ Elapse
    \/ Manage

Spec == Init /\ [][Next]_vars

-----------------------------------------------------------------------------
(* What the limits and the approvals amount to.                            *)

AtNote(op) == {c \in Client : At(c, op, "note")}

\* Counting the failed attempts and recording one are two transactions, so the
\* limit of five can be passed; but only by the requests that were already
\* past the count, one of each client, whatever they are and however old
\* attempts expire (app/main.py:341-386, 403-414).
AttemptsBounded ==
    /\ \A u \in User : failed[u] <= MaxFailed - 1 + Cardinality(Client)
    /\ tries <= MaxFailed - 1 + Cardinality(Client)

\* No link sends its file more often than it was created for, however many
\* downloads are claimed at once (app/database.py:3378-3434).
DownloadsWithinLimit ==
    \A s \in Share :
        share[s].limit # Unlimited => sent[s] <= share[s].limit

\* Approving a registration creates the account the administrator saw on the
\* page and no other, even when the row on the page was approved or rejected
\* meanwhile and another user registered; it changes no account that exists
\* (app/main.py:487-500, app/database.py:1977-2029).
ApprovalIsExact ==
    [][\A c \in Client :
          At(c, "approve", "act") /\ job'[c] = NoJob =>
             \A u \in User : account'[u] # account[u] =>
                /\ u = job[c].row.user
                /\ account[u] = None
                /\ account'[u] = [role |-> "user", active |-> TRUE]]_vars

\* docs/OPERATIONS.md says of the companion: "Pairing uses a single-use code".
SingleUseCode ==
    \A d, e \in devices : d.code = e.code => d = e

=============================================================================

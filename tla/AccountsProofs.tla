---------------------------- MODULE AccountsProofs ----------------------------
(***************************************************************************)
(* Theorems of module Accounts, for any number of clients, users, links    *)
(* and attempts.                                                           *)
(***************************************************************************)
EXTENDS Accounts, FiniteSetTheorems, TLAPS

-----------------------------------------------------------------------------
(* Types.  A request carries what its handler needs: the ones of a session *)
(* a user, a revocation a link that exists.                                *)

Carries(j) ==
    /\ \/ j.user \in User
       \/ j.op \in {"none", "download"}
       \/ j.op = "pair" /\ j.at # "act"
    /\ j.op = "pair" => j.code \in Code
    /\ j.op \in {"revoke", "download"} => j.link \in Share
    /\ j.op = "revoke" => share[j.link] # NoLink
    /\ j.op \in {"approve", "reject"} => j.row \in Registration

TypeInv == TypeOK /\ \A c \in Client : Carries(job[c])

LEMMA NoJobType == NoJob \in JobRecord
BY DEF NoJob, JobRecord, Stage

\* The next stage of a request that stays as it is.
LEMMA GoType ==
    ASSUME TypeInv, NEW c \in Client, NEW at \in Stage, Go(c, at),
           at = "act" => job[c].op # "pair"
    PROVE  \E j \in JobRecord :
              /\ job' = [job EXCEPT ![c] = j]
              /\ Carries(j)
              /\ j.op = job[c].op /\ j.at = at
              /\ j.user = job[c].user /\ j.link = job[c].link
              /\ j.row = job[c].row
<1> DEFINE j == [job[c] EXCEPT !.at = at]
<1>1. job[c] \in JobRecord
  BY DEF TypeInv, TypeOK
<1>2. /\ j \in JobRecord
      /\ j.op = job[c].op /\ j.at = at /\ j.user = job[c].user
      /\ j.link = job[c].link /\ j.row = job[c].row /\ j.code = job[c].code
  BY <1>1 DEF JobRecord
<1>3. job' = [job EXCEPT ![c] = j]
  BY DEF Go
<1>4. Carries(j)
  BY <1>2 DEF TypeInv, Carries
<1>5. QED
  BY <1>2, <1>3, <1>4

\* One request changes, and links stay.
LEMMA JobStep ==
    ASSUME TypeInv, NEW c \in Client, NEW j \in JobRecord, Carries(j),
           job' = [job EXCEPT ![c] = j],
           \A s \in Share : share[s] # NoLink => share'[s] # NoLink
    PROVE  job' \in [Client -> JobRecord] /\ \A d \in Client : Carries(job[d])'
<1>1. /\ job \in [Client -> JobRecord]
      /\ \A d \in Client : Carries(job[d])
  BY DEF TypeInv, TypeOK
<1>2. /\ job' \in [Client -> JobRecord]
      /\ job'[c] = j
      /\ \A d \in Client \ {c} : job'[d] = job[d]
  BY <1>1
<1>3. ASSUME NEW d \in Client PROVE Carries(job[d])'
  BY <1>1, <1>2 DEF Carries
<1>4. QED
  BY <1>2, <1>3

LEMMA ReplyStep ==
    ASSUME TypeInv, NEW c \in Client, Reply(c),
           \A s \in Share : share[s] # NoLink => share'[s] # NoLink
    PROVE  job' \in [Client -> JobRecord] /\ \A d \in Client : Carries(job[d])'
<1>1. Carries(NoJob)
  BY DEF Carries, NoJob
<1>2. QED
  BY <1>1, NoJobType, JobStep DEF Reply

LEMMA GoStep ==
    ASSUME TypeInv, NEW c \in Client, NEW at \in Stage, Go(c, at),
           at = "act" => job[c].op # "pair",
           \A s \in Share : share[s] # NoLink => share'[s] # NoLink
    PROVE  job' \in [Client -> JobRecord] /\ \A d \in Client : Carries(job[d])'
BY GoType, JobStep

LEMMA SendStep ==
    ASSUME TypeInv, NEW c \in Client, NEW j \in JobRecord, Carries(j), Send(c, j)
    PROVE  TypeInv'
<1>1. \A s \in Share : share[s] # NoLink => share'[s] # NoLink
  BY DEF Send, shareVars
<1>2. job' \in [Client -> JobRecord] /\ \A d \in Client : Carries(job[d])'
  BY <1>1, JobStep DEF Send
<1>3. UNCHANGED <<accountVars, loginVars, registerVars, pairVars, shareVars>>
  BY DEF Send
<1>4. QED
  BY <1>2, <1>3
     DEF TypeInv, TypeOK, accountVars, loginVars, registerVars, pairVars, shareVars

\* The requests a client can send.
Fresh(c, j) ==
    /\ Carries(j)
    /\ \/ j.at \in {"auth", "count"}
       \/ j.op = "pair" /\ j.at = "find"
       \/ j.op = "download" /\ j.at = "act"
    /\ j.op \in {"approve", "reject"} => j.row \in page[c]
    /\ j.op = "register" => j.at = "count"

LEMMA AskForm ==
    ASSUME TypeInv, NEW c \in Client, AsksOf(c), ~Logout(c)
    PROVE  \E j \in JobRecord : Send(c, j) /\ Fresh(c, j)
<1>1. NoJob \in JobRecord
  BY NoJobType
<1>2. ASSUME NEW j \in JobRecord, Ask(c, j), j.op \notin {"none", "pair"},
             j.op = "revoke" => j.link \in Share /\ share[j.link] # NoLink,
             j.op \in {"approve", "reject"} => j.row \in page[c],
             j.op \notin {"download", "register"}
      PROVE  \E k \in JobRecord : Send(c, k) /\ Fresh(c, k)
  <2> DEFINE k == [j EXCEPT !.at = "auth", !.user = signed[c]]
  <2>1. signed[c] \in User
    BY <1>2 DEF Ask, TypeInv, TypeOK
  <2>2. /\ k \in JobRecord /\ k.user \in User
        /\ k.op = j.op /\ k.link = j.link /\ k.row = j.row
        /\ k.at = "auth"
    BY <1>2, <2>1 DEF JobRecord, Stage
  <2>3. page[c] \subseteq Registration
    BY DEF TypeInv, TypeOK
  <2>4. Fresh(c, k)
    BY <1>2, <2>2, <2>3 DEF Carries, Fresh
  <2>5. QED
    BY <1>2, <2>2, <2>4 DEF Ask
<1>3. CASE AskLogin(c)
  <2>1. PICK u \in User, right \in BOOLEAN :
           Send(c, [NoJob EXCEPT !.op = "login", !.at = "count", !.user = u,
                                 !.right = right])
    BY <1>3 DEF AskLogin
  <2> DEFINE k == [NoJob EXCEPT !.op = "login", !.at = "count", !.user = u,
                                !.right = right]
  <2>2. k \in JobRecord /\ k.op = "login" /\ k.at = "count" /\ k.user = u
    BY <1>1 DEF NoJob, JobRecord, Stage, Op
  <2>3. Fresh(c, k)
    BY <2>2 DEF Carries, Fresh
  <2>4. QED BY <2>1, <2>2, <2>3
<1>5. CASE AskRegister(c)
  <2>1. PICK u \in User :
           Send(c, [NoJob EXCEPT !.op = "register", !.at = "count", !.user = u])
    BY <1>5 DEF AskRegister
  <2> DEFINE k == [NoJob EXCEPT !.op = "register", !.at = "count", !.user = u]
  <2>2. k \in JobRecord /\ k.op = "register" /\ k.at = "count" /\ k.user = u
    BY <1>1 DEF NoJob, JobRecord, Stage, Op
  <2>3. Fresh(c, k)
    BY <2>2 DEF Carries, Fresh
  <2>4. QED BY <2>1, <2>2, <2>3
<1>6. CASE AskList(c)
  <2> DEFINE j == [NoJob EXCEPT !.op = "list"]
  <2>1. j \in JobRecord /\ j.op = "list"
    BY <1>1 DEF NoJob, JobRecord, Op
  <2>2. QED BY <1>2, <1>6, <2>1 DEF AskList
<1>7. ASSUME NEW op \in {"approve", "reject"}, NEW r \in page[c],
             Ask(c, [NoJob EXCEPT !.op = op, !.row = r])
      PROVE  \E k \in JobRecord : Send(c, k) /\ Fresh(c, k)
  <2> DEFINE j == [NoJob EXCEPT !.op = op, !.row = r]
  <2>1. r \in Registration
    BY DEF TypeInv, TypeOK
  <2>2. j \in JobRecord /\ j.op = op /\ j.row = r
    BY <1>1, <2>1 DEF NoJob, JobRecord, Op
  <2>3. QED BY <1>2, <1>7, <2>1, <2>2
<1>8. CASE AskApprove(c) \/ AskReject(c)
  BY <1>7, <1>8 DEF AskApprove, AskReject
<1>9. CASE AskCode(c)
  <2> DEFINE j == [NoJob EXCEPT !.op = "code"]
  <2>1. j \in JobRecord /\ j.op = "code"
    BY <1>1 DEF NoJob, JobRecord, Op
  <2>2. QED BY <1>2, <1>9, <2>1 DEF AskCode
<1>10. CASE AskPair(c)
  <2>1. PICK k \in Code :
           Send(c, [NoJob EXCEPT !.op = "pair", !.at = "find", !.code = k])
    BY <1>10 DEF AskPair
  <2> DEFINE j == [NoJob EXCEPT !.op = "pair", !.at = "find", !.code = k]
  <2>2. j \in JobRecord /\ j.op = "pair" /\ j.code = k /\ j.at = "find"
    BY <1>1 DEF NoJob, JobRecord, Stage, Op
  <2>3. Fresh(c, j)
    BY <2>2 DEF Carries, Fresh
  <2>4. QED BY <2>1, <2>2, <2>3
<1>11. CASE AskShare(c)
  <2>1. PICK l \in Quota \cup {Unlimited} :
           Ask(c, [NoJob EXCEPT !.op = "share", !.limit = l])
    BY <1>11 DEF AskShare
  <2> DEFINE j == [NoJob EXCEPT !.op = "share", !.limit = l]
  <2>2. j \in JobRecord /\ j.op = "share"
    BY <1>1 DEF NoJob, JobRecord, Op
  <2>3. QED BY <1>2, <2>1, <2>2
<1>12. CASE AskRevoke(c)
  <2>1. PICK s \in Share :
           /\ share[s] # NoLink
           /\ Ask(c, [NoJob EXCEPT !.op = "revoke", !.link = s])
    BY <1>12 DEF AskRevoke
  <2> DEFINE j == [NoJob EXCEPT !.op = "revoke", !.link = s]
  <2>2. j \in JobRecord /\ j.op = "revoke" /\ j.link = s
    BY <1>1 DEF NoJob, JobRecord, Op
  <2>3. QED BY <1>2, <2>1, <2>2
<1>13. CASE AskDownload(c)
  <2>1. PICK s \in Share :
           Send(c, [NoJob EXCEPT !.op = "download", !.at = "act", !.link = s])
    BY <1>13 DEF AskDownload
  <2> DEFINE j == [NoJob EXCEPT !.op = "download", !.at = "act", !.link = s]
  <2>2. j \in JobRecord /\ j.op = "download" /\ j.at = "act" /\ j.link = s
    BY <1>1 DEF NoJob, JobRecord, Stage, Op
  <2>3. Fresh(c, j)
    BY <2>2 DEF Carries, Fresh
  <2>4. QED BY <2>1, <2>2, <2>3
<1>14. QED
  BY <1>3, <1>5, <1>6, <1>8, <1>9, <1>10, <1>11, <1>12, <1>13 DEF AsksOf

LEMMA AsksType ==
    ASSUME TypeInv, NEW c \in Client, AsksOf(c)
    PROVE  TypeInv'
<1>1. CASE Logout(c)
  BY <1>1 DEF Logout, TypeInv, TypeOK, Carries, loginVars, registerVars, pairVars,
              shareVars
<1>2. CASE ~Logout(c)
  BY <1>2, AskForm, SendStep DEF Fresh
<1>3. QED BY <1>1, <1>2

\* A request that a stage answers or passes on, with whatever else it writes.
LEMMA ServeType ==
    ASSUME TypeInv, NEW c \in Client, Serve(c)
    PROVE  TypeInv'
<1> DEFINE Links == \A s \in Share : share[s] # NoLink => share'[s] # NoLink
           Jobs == job' \in [Client -> JobRecord]
                   /\ \A d \in Client : Carries(job[d])'
<1>1. job[c] \in JobRecord /\ Carries(job[c])
  BY DEF TypeInv, TypeOK
<1>2. ASSUME Links, Reply(c) PROVE Jobs
  BY <1>2, ReplyStep
<1>3. ASSUME Links, NEW at \in Stage, Go(c, at), at = "act" => job[c].op # "pair"
      PROVE  Jobs
  BY <1>3, GoStep
<1>4. {"find", "note", "act", "send"} \subseteq Stage
  BY DEF Stage
<1>5. CASE Authenticate(c)
  <2>1. Links
    BY <1>5 DEF Authenticate, shareVars
  <2>2. CASE Reply(c)
    BY <1>2, <1>5, <2>1, <2>2
       DEF Authenticate, TypeInv, TypeOK, loginVars, registerVars, pairVars,
           shareVars
  <2>3. CASE ~Reply(c)
    <3> DEFINE j == [job[c] EXCEPT !.at = AuthStage(job[c].op),
                                   !.right = IsAdmin(job[c].user)]
    <3>1. job' = [job EXCEPT ![c] = j]
      BY <1>5, <2>3 DEF Authenticate
    <3>2. AuthStage(job[c].op) \in Stage
      BY <1>4 DEF AuthStage
    <3>3. IsAdmin(job[c].user) \in BOOLEAN
      BY <1>1 DEF IsAdmin, IsActive
    <3>4. j \in JobRecord /\ j.user = job[c].user /\ j.op = job[c].op
          /\ j.code = job[c].code /\ j.link = job[c].link
          /\ j.row = job[c].row
      BY <1>1, <3>2, <3>3 DEF JobRecord
    <3>5. IsActive(job[c].user) => job[c].user \in User
      BY <1>1 DEF IsActive, JobRecord
    <3>6. IsActive(job[c].user)
      BY <1>5, <2>3 DEF Authenticate, IsAdmin
    <3>7. Carries(j)
      BY <1>1, <3>4, <3>5, <3>6 DEF Carries
    <3>8. Jobs
      BY <2>1, <3>1, <3>4, <3>7, JobStep
    <3>9. QED
      BY <1>5, <3>8
         DEF Authenticate, TypeInv, TypeOK, loginVars, registerVars, pairVars,
             shareVars
  <2>4. QED BY <2>2, <2>3
<1>6. CASE LoginCount(c)
  <2>1. Jobs
    BY <1>1, <1>2, <1>3, <1>4, <1>6 DEF LoginCount, At, shareVars
  <2>2. QED
    BY <1>6, <2>1
       DEF LoginCount, TypeInv, TypeOK, accountVars, loginVars, registerVars,
           pairVars, shareVars
<1>7. CASE LoginFind(c)
  <2> DEFINE j == [job[c] EXCEPT !.at = "note",
                     !.right = job[c].right /\ IsActive(job[c].user)]
  <2>1. job' = [job EXCEPT ![c] = j]
    BY <1>7 DEF LoginFind
  <2>2. (job[c].right /\ IsActive(job[c].user)) \in BOOLEAN
    BY DEF IsActive
  <2>3. j \in JobRecord /\ j.user = job[c].user /\ j.op = job[c].op
    BY <1>1, <1>4, <2>2 DEF JobRecord
  <2>4. Carries(j)
    BY <1>1, <1>7, <2>3 DEF Carries, LoginFind, At
  <2>5. Jobs
    BY <1>7, <2>1, <2>3, <2>4, JobStep DEF LoginFind, shareVars
  <2>6. QED
    BY <1>7, <2>5
       DEF LoginFind, TypeInv, TypeOK, accountVars, loginVars, registerVars,
           pairVars, shareVars
<1>8. CASE LoginRecord(c)
  <2>1. Jobs
    BY <1>2, <1>8 DEF LoginRecord, shareVars
  <2>2. failed' \in [User -> Nat] /\ signed' \in [Client -> User \cup {None}]
    BY <1>1, <1>8 DEF LoginRecord, TypeInv, TypeOK, JobRecord
  <2>3. QED
    BY <1>8, <2>1, <2>2
       DEF LoginRecord, TypeInv, TypeOK, registerVars, pairVars, shareVars
<1>9. CASE RegisterCount(c)
  <2>1. Jobs
    BY <1>1, <1>2, <1>3, <1>4, <1>9 DEF RegisterCount, At, shareVars
  <2>2. QED
    BY <1>9, <2>1
       DEF RegisterCount, TypeInv, TypeOK, accountVars, loginVars, registerVars,
           pairVars, shareVars
<1>10. CASE RegisterRecord(c)
  <2>1. Jobs
    BY <1>1, <1>3, <1>4, <1>10 DEF RegisterRecord, At, shareVars
  <2>2. QED
    BY <1>10, <2>1
       DEF RegisterRecord, TypeInv, TypeOK, accountVars, loginVars, pairVars,
           shareVars
<1>11. CASE Register(c)
  <2>1. Jobs
    BY <1>2, <1>11 DEF Register, shareVars
  <2>2. job[c].user \in User
    BY <1>1, <1>11 DEF Register, At, Carries
  <2>3. lastId' \in Nat /\ requests' \in SUBSET Registration
    BY <1>11, <2>2 DEF Register, NextId, Registration, TypeInv, TypeOK
  <2>4. QED
    BY <1>11, <2>1, <2>3
       DEF Register, TypeInv, TypeOK, accountVars, loginVars, pairVars, shareVars
<1>12. CASE ListRequests(c)
  <2>1. Jobs
    BY <1>2, <1>12 DEF ListRequests, shareVars
  <2>2. QED
    BY <1>12, <2>1
       DEF ListRequests, TypeInv, TypeOK, accountVars, loginVars, pairVars,
           shareVars
<1>13. CASE Approve(c)
  <2>1. Jobs
    BY <1>2, <1>13 DEF Approve, shareVars
  <2>2. [role |-> "user", active |-> TRUE] \in Account
    BY DEF Account
  <2>3. account' \in [User -> Account \cup {None}]
        /\ requests' \in SUBSET Registration
    BY <1>13, <2>2 DEF Approve, TypeInv, TypeOK
  <2>4. QED
    BY <1>13, <2>1, <2>3
       DEF Approve, TypeInv, TypeOK, loginVars, pairVars, shareVars
<1>14. CASE Reject(c)
  <2>1. Jobs
    BY <1>2, <1>14 DEF Reject, shareVars
  <2>2. QED
    BY <1>14, <2>1
       DEF Reject, TypeInv, TypeOK, accountVars, loginVars, pairVars, shareVars
<1>15. CASE CodeOwner(c)
  <2>1. Jobs
    BY <1>1, <1>2, <1>3, <1>4, <1>15 DEF CodeOwner, At, shareVars
  <2>2. QED
    BY <1>15, <2>1
       DEF CodeOwner, TypeInv, TypeOK, loginVars, registerVars, pairVars,
           shareVars
<1>16. CASE CreateCode(c)
  <2>1. Jobs
    BY <1>2, <1>16 DEF CreateCode, shareVars
  <2>2. job[c].user \in User
    BY <1>1, <1>16 DEF CreateCode, At, Carries
  <2>3. PICK k \in Code :
           codes' = {p \in codes : p.user # job[c].user /\ ~p.expired}
                    \cup {[code |-> k, user |-> job[c].user, expired |-> FALSE]}
    BY <1>16 DEF CreateCode
  <2>4. [code |-> k, user |-> job[c].user, expired |-> FALSE] \in PairingCode
    BY <2>2 DEF PairingCode
  <2>5. codes' \in SUBSET PairingCode
    BY <2>3, <2>4 DEF TypeInv, TypeOK
  <2>6. QED
    BY <1>16, <2>1, <2>5
       DEF CreateCode, TypeInv, TypeOK, accountVars, loginVars, registerVars,
           shareVars
<1>17. CASE PairFind(c)
  <2>1. Links
    BY <1>17 DEF PairFind, shareVars
  <2>2. Jobs
    <3>1. CASE Reply(c)
      BY <1>2, <2>1, <3>1
    <3>2. CASE ~Reply(c)
      <4>1. PICK p \in codes :
               job' = [job EXCEPT ![c].at = "act", ![c].user = p.user]
        BY <1>17, <3>2 DEF PairFind
      <4> DEFINE j == [job[c] EXCEPT !.at = "act", !.user = p.user]
      <4>2. p.user \in User
        BY DEF TypeInv, TypeOK, PairingCode
      <4>3. /\ j \in JobRecord /\ j.user = p.user /\ j.op = job[c].op
            /\ j.code = job[c].code
        BY <1>1, <1>4, <4>2 DEF JobRecord
      <4>4. Carries(j)
        BY <1>1, <1>17, <4>2, <4>3 DEF Carries, PairFind, At
      <4>5. QED
        BY <2>1, <4>1, <4>3, <4>4, JobStep
    <3>3. QED BY <3>1, <3>2
  <2>3. codes' \in SUBSET PairingCode
    BY <1>17 DEF PairFind, TypeInv, TypeOK
  <2>4. QED
    BY <1>17, <2>2, <2>3
       DEF PairFind, TypeInv, TypeOK, accountVars, loginVars, registerVars,
           shareVars
<1>18. CASE PairWrite(c)
  <2>1. Jobs
    BY <1>2, <1>18 DEF PairWrite, shareVars
  <2>2. job[c].user \in User /\ job[c].code \in Code
    BY <1>1, <1>18 DEF PairWrite, At, Carries
  <2>3. QED
    BY <1>18, <2>1, <2>2
       DEF PairWrite, TypeInv, TypeOK, accountVars, loginVars, registerVars,
           shareVars
<1>19. CASE CreateShare(c)
  <2>1. PICK s \in Share, o \in User :
           /\ share[s] = NoLink
           /\ share' = [share EXCEPT ![s] =
                           [owner |-> o, limit |-> job[c].limit, count |-> 0,
                            revoked |-> FALSE, expired |-> FALSE]]
    BY <1>19 DEF CreateShare
  <2> DEFINE l == [owner |-> o, limit |-> job[c].limit, count |-> 0,
                   revoked |-> FALSE, expired |-> FALSE]
  <2>2. l \in Link /\ l # NoLink
    BY <1>1, AccountsAssumption DEF Link, NoLink, JobRecord
  <2>3. share' \in [Share -> Link \cup {NoLink}] /\ Links
    BY <2>1, <2>2 DEF TypeInv, TypeOK
  <2>4. Jobs
    BY <1>2, <1>19, <2>3 DEF CreateShare
  <2>5. QED
    BY <1>19, <2>3, <2>4
       DEF CreateShare, TypeInv, TypeOK, accountVars, loginVars, registerVars,
           pairVars
<1>20. CASE RevokeFind(c)
  <2>1. Jobs
    BY <1>1, <1>2, <1>3, <1>4, <1>20 DEF RevokeFind, At, shareVars
  <2>2. QED
    BY <1>20, <2>1
       DEF RevokeFind, TypeInv, TypeOK, accountVars, loginVars, registerVars,
           pairVars, shareVars
<1>21. ASSUME NEW s \in Share, share[s] # NoLink, NEW l \in Link,
              share' = [share EXCEPT ![s] = l]
       PROVE  share' \in [Share -> Link \cup {NoLink}] /\ Links
  <2>1. l # NoLink
    BY AccountsAssumption DEF Link, NoLink
  <2>2. QED
    BY <1>21, <2>1 DEF TypeInv, TypeOK
<1>22. CASE Revoke(c)
  <2> DEFINE s == job[c].link  l == [share[s] EXCEPT !.revoked = TRUE]
  <2>1. s \in Share /\ share[s] # NoLink
    BY <1>1, <1>22 DEF Revoke, At, Carries
  <2>2. share[s] \in Link
    BY <2>1 DEF TypeInv, TypeOK
  <2>3. l \in Link
    BY <2>2 DEF Link
  <2>4. share' = [share EXCEPT ![s] = l]
    BY <1>22 DEF Revoke
  <2>5. share' \in [Share -> Link \cup {NoLink}] /\ Links
    BY <1>21, <2>1, <2>3, <2>4
  <2>6. Jobs
    BY <1>2, <1>22, <2>5 DEF Revoke
  <2>7. QED
    BY <1>22, <2>5, <2>6
       DEF Revoke, TypeInv, TypeOK, accountVars, loginVars, registerVars, pairVars
<1>23. CASE Claim(c)
  <2> DEFINE s == job[c].link  l == [share[s] EXCEPT !.count = @ + 1]
  <2>1. s \in Share
    BY <1>1, <1>23 DEF Claim, At, Carries
  <2>2. CASE Claimable(share[s])
    <3>1. share[s] \in Link /\ share[s] # NoLink
      BY <2>1, <2>2 DEF TypeInv, TypeOK, Claimable, IsActive, NoLink
    <3>2. l \in Link
      BY <3>1 DEF Link
    <3>3. share' = [share EXCEPT ![s] = l]
      BY <1>23, <2>2 DEF Claim
    <3>4. share' \in [Share -> Link \cup {NoLink}] /\ Links
      BY <1>21, <2>1, <3>1, <3>2, <3>3
    <3>5. Jobs
      BY <1>3, <1>4, <1>23, <2>2, <3>4 DEF Claim
    <3>6. QED
      BY <1>23, <3>4, <3>5
         DEF Claim, TypeInv, TypeOK, accountVars, loginVars, registerVars, pairVars
  <2>3. CASE ~Claimable(share[s])
    <3>1. Jobs
      BY <1>2, <1>23, <2>3 DEF Claim
    <3>2. QED
      BY <1>23, <2>3, <3>1
         DEF Claim, TypeInv, TypeOK, accountVars, loginVars, registerVars, pairVars
  <2>4. QED BY <2>2, <2>3
<1>24. CASE SendFile(c)
  <2>1. Jobs
    BY <1>2, <1>24 DEF SendFile
  <2>2. QED
    BY <1>24, <2>1
       DEF SendFile, TypeInv, TypeOK, accountVars, loginVars, registerVars, pairVars
<1>25. QED
  BY <1>5, <1>6, <1>7, <1>8, <1>9, <1>10, <1>11, <1>12, <1>13, <1>14, <1>15,
     <1>16, <1>17, <1>18, <1>19, <1>20, <1>22, <1>23, <1>24
     DEF Serve, ServeLogin, ServeRegistration, ServePairing, ServeShare

\* Time and the administrator's command line write no request.
LEMMA ElsewhereType ==
    ASSUME TypeInv, Elapse \/ Manage
    PROVE  TypeInv'
<1>1. CASE AttemptExpires
  <2>1. failed' \in [User -> Nat] /\ tries' \in Nat
    BY <1>1 DEF AttemptExpires, TypeInv, TypeOK
  <2>2. QED
    BY <1>1, <2>1
       DEF AttemptExpires, TypeInv, TypeOK, Carries, accountVars, pairVars, shareVars
<1>2. CASE CodeExpires
  <2>1. PICK p \in codes :
           codes' = (codes \ {p}) \cup {[p EXCEPT !.expired = TRUE]}
    BY <1>2 DEF CodeExpires
  <2>2. [p EXCEPT !.expired = TRUE] \in PairingCode
    BY DEF TypeInv, TypeOK, PairingCode
  <2>3. QED
    BY <1>2, <2>1, <2>2
       DEF CodeExpires, TypeInv, TypeOK, Carries, accountVars, loginVars,
           registerVars, shareVars
<1>3. CASE LinkExpires
  <2>1. PICK s \in Share :
           share[s] # NoLink /\ share' = [share EXCEPT ![s].expired = TRUE]
    BY <1>3 DEF LinkExpires
  <2> DEFINE l == [share[s] EXCEPT !.expired = TRUE]
  <2>2. share[s] \in Link
    BY <2>1 DEF TypeInv, TypeOK
  <2>3. l \in Link
    BY <2>2 DEF Link
  <2>4. l # NoLink
    BY <2>3, AccountsAssumption DEF Link, NoLink
  <2>5. /\ share' \in [Share -> Link \cup {NoLink}]
        /\ \A t \in Share : share[t] # NoLink => share'[t] # NoLink
    BY <2>1, <2>3, <2>4 DEF TypeInv, TypeOK
  <2>6. QED
    BY <1>3, <2>5
       DEF LinkExpires, TypeInv, TypeOK, Carries, accountVars, loginVars,
           registerVars, pairVars
<1>4. CASE Manage
  <2>1. PICK u \in User, r \in {"admin", "user"} :
           account' = [account EXCEPT ![u] =
                          IF @ = None THEN [role |-> r, active |-> TRUE]
                          ELSE [@ EXCEPT !.role = r]]
    BY <1>4 DEF Manage
  <2>2. [role |-> r, active |-> TRUE] \in Account
    BY DEF Account
  <2>3. account[u] # None => [account[u] EXCEPT !.role = r] \in Account
    BY DEF TypeInv, TypeOK, Account
  <2>4. account' \in [User -> Account \cup {None}]
    BY <2>1, <2>2, <2>3 DEF TypeInv, TypeOK
  <2>5. QED
    BY <1>4, <2>4
       DEF Manage, TypeInv, TypeOK, Carries, loginVars, registerVars, pairVars,
           shareVars
<1>5. QED
  BY <1>1, <1>2, <1>3, <1>4 DEF Elapse

LEMMA TypeInit == Init => TypeInv
<1>1. SUFFICES ASSUME Init PROVE TypeInv
  OBVIOUS
<1>2. Carries(NoJob)
  BY DEF Carries, NoJob
<1>3. QED
  BY <1>1, <1>2, NoJobType DEF Init, TypeInv, TypeOK

LEMMA TypeNext == TypeInv /\ [Next]_vars => TypeInv'
<1>1. CASE UNCHANGED vars
  BY <1>1 DEF vars, TypeInv, TypeOK, Carries
<1>2. QED
  BY <1>1, AsksType, ServeType, ElsewhereType DEF Next

\* Every account, session, registration, code, link and request keeps its type,
\* and a request has what its handler will read (the handlers of app/main.py,
\* app/monitor.py and app/share_links.py).
THEOREM TypeCorrect == Spec => []TypeOK
<1>1. TypeInv => TypeOK
  BY DEF TypeInv
<1>2. QED
  BY <1>1, TypeInit, TypeNext, PTL DEF Spec

-----------------------------------------------------------------------------
(* A handler answers its request or goes on with it: neither its operation *)
(* nor the row or the link it is about changes.                            *)

Onward(c, j) ==
    /\ job' = [job EXCEPT ![c] = j]
    /\ \/ j = NoJob
       \/ j.op = job[c].op /\ j.link = job[c].link /\ j.row = job[c].row

LEMMA ServeForm ==
    ASSUME TypeInv, NEW c \in Client, Serve(c)
    PROVE  \E j \in JobRecord : Onward(c, j)
<1>1. job[c] \in JobRecord
  BY DEF TypeInv, TypeOK
<1>2. ASSUME Reply(c) PROVE \E j \in JobRecord : Onward(c, j)
  BY <1>2, NoJobType DEF Reply, Onward
<1>3. ASSUME NEW at \in Stage, NEW right \in BOOLEAN,
             NEW user \in User \cup {None},
             job' = [job EXCEPT ![c].at = at, ![c].right = right,
                                ![c].user = user]
      PROVE  \E j \in JobRecord : Onward(c, j)
  <2> DEFINE j == [job[c] EXCEPT !.at = at, !.right = right, !.user = user]
  <2>1. j \in JobRecord /\ j.op = job[c].op /\ j.link = job[c].link
        /\ j.row = job[c].row
    BY <1>1 DEF JobRecord
  <2>2. job' = [job EXCEPT ![c] = j]
    BY <1>3
  <2>3. QED BY <2>1, <2>2 DEF Onward
<1>4. ASSUME NEW at \in Stage, Go(c, at) PROVE \E j \in JobRecord : Onward(c, j)
  <2> DEFINE j == [job[c] EXCEPT !.at = at]
  <2>1. j \in JobRecord /\ j.op = job[c].op /\ j.link = job[c].link
        /\ j.row = job[c].row
    BY <1>1 DEF JobRecord
  <2>2. job' = [job EXCEPT ![c] = j]
    BY <1>4 DEF Go
  <2>3. QED BY <2>1, <2>2 DEF Onward
<1>5. {"find", "note", "act", "send"} \subseteq Stage
  BY DEF Stage
<1>6. ASSUME NEW at \in Stage, NEW right \in BOOLEAN,
             job' = [job EXCEPT ![c].at = at, ![c].right = right]
      PROVE  \E j \in JobRecord : Onward(c, j)
  <2> DEFINE j == [job[c] EXCEPT !.at = at, !.right = right]
  <2>1. j \in JobRecord /\ j.op = job[c].op /\ j.link = job[c].link
        /\ j.row = job[c].row
    BY <1>1 DEF JobRecord
  <2>2. job' = [job EXCEPT ![c] = j]
    BY <1>6
  <2>3. QED BY <2>1, <2>2 DEF Onward
<1>7. CASE Authenticate(c)
  <2>1. AuthStage(job[c].op) \in Stage
    BY <1>5 DEF AuthStage
  <2>2. IsAdmin(job[c].user) \in BOOLEAN
    BY DEF IsAdmin, IsActive
  <2>3. QED BY <1>2, <1>6, <1>7, <2>1, <2>2 DEF Authenticate
<1>8. CASE LoginFind(c)
  <2>1. (job[c].right /\ IsActive(job[c].user)) \in BOOLEAN
    BY DEF IsActive
  <2>2. QED BY <1>5, <1>6, <1>8, <2>1 DEF LoginFind
<1>9. CASE PairFind(c) /\ ~Reply(c)
  <2>1. PICK p \in codes :
           job' = [job EXCEPT ![c].at = "act", ![c].user = p.user]
    BY <1>9 DEF PairFind
  <2>2. p.user \in User
    BY DEF TypeInv, TypeOK, PairingCode
  <2> DEFINE j == [job[c] EXCEPT !.at = "act", !.user = p.user]
  <2>3. j \in JobRecord /\ j.op = job[c].op /\ j.link = job[c].link
        /\ j.row = job[c].row
    BY <1>1, <1>5, <2>2 DEF JobRecord
  <2>4. job' = [job EXCEPT ![c] = j]
    BY <2>1
  <2>5. QED BY <2>3, <2>4 DEF Onward
<1>10. CASE LoginCount(c) \/ LoginRecord(c)
  BY <1>2, <1>4, <1>5, <1>10 DEF LoginCount, LoginRecord
<1>11. CASE ServeRegistration(c)
  BY <1>2, <1>4, <1>5, <1>11
     DEF ServeRegistration, RegisterCount, RegisterRecord, Register, ListRequests,
         Approve, Reject
<1>12. CASE CodeOwner(c) \/ CreateCode(c) \/ PairWrite(c)
  BY <1>2, <1>4, <1>5, <1>12 DEF CodeOwner, CreateCode, PairWrite
<1>13. CASE ServeShare(c)
  BY <1>2, <1>4, <1>5, <1>13
     DEF ServeShare, CreateShare, RevokeFind, Revoke, Claim, SendFile
<1>14. QED
  BY <1>2, <1>7, <1>8, <1>9, <1>10, <1>11, <1>12, <1>13
     DEF Serve, ServeLogin, ServePairing

-----------------------------------------------------------------------------
(* Approvals.  No two registrations ever have the same number, so that the *)
(* number of a row that was shown stands for that row or for none.         *)

Seen(c) ==
    page[c] \cup (IF job[c].op \in {"approve", "reject"} THEN {job[c].row} ELSE {})

IdsInv ==
    /\ \A r \in requests : r.id <= lastId
    /\ \A r, q \in requests : r.id = q.id => r = q
    /\ \A c \in Client : \A q \in Seen(c) :
          /\ q.id <= lastId
          /\ \A r \in requests : r.id = q.id => r = q

LEMMA IdsKept ==
    ASSUME TypeInv, IdsInv, requests' \subseteq requests, UNCHANGED lastId,
           \A c \in Client : Seen(c)' \subseteq Seen(c) \cup requests
    PROVE  IdsInv'
BY DEF IdsInv

LEMMA IdsNext ==
    ASSUME TypeInv, IdsInv, [Next]_vars
    PROVE  IdsInv'
<1>1. CASE UNCHANGED vars
  BY <1>1, IdsKept DEF vars, Seen
<1>2. CASE Elapse \/ Manage
  <2>1. UNCHANGED <<requests, lastId, page, job>>
    BY <1>2 DEF Elapse, AttemptExpires, CodeExpires, LinkExpires, Manage, loginVars,
                registerVars
  <2>2. QED BY <2>1, IdsKept DEF Seen
<1>3. ASSUME NEW c \in Client, AsksOf(c) PROVE IdsInv'
  <2>1. CASE Logout(c)
    BY <2>1, IdsKept DEF Logout, Seen, registerVars
  <2>2. CASE ~Logout(c)
    <3>1. PICK j \in JobRecord : Send(c, j) /\ Fresh(c, j)
      BY <1>3, <2>2, AskForm
    <3>2. UNCHANGED <<requests, lastId, page>> /\ job' = [job EXCEPT ![c] = j]
      BY <3>1 DEF Send, registerVars
    <3>3. job'[c] = j /\ \A d \in Client \ {c} : job'[d] = job[d]
      BY <3>2 DEF TypeInv, TypeOK
    <3>4. \A d \in Client : Seen(d)' \subseteq Seen(d)
      BY <3>1, <3>2, <3>3 DEF Seen, Fresh
    <3>5. QED BY <3>2, <3>4, IdsKept
  <2>3. QED BY <2>1, <2>2
<1>4. ASSUME NEW c \in Client, Serve(c) PROVE IdsInv'
  <2>1. PICK j \in JobRecord : Onward(c, j)
    BY <1>4, ServeForm
  <2>2. job'[c] = j /\ \A d \in Client \ {c} : job'[d] = job[d]
    BY <2>1 DEF Onward, TypeInv, TypeOK
  <2>3. \A d \in Client :
           job'[d].op \in {"approve", "reject"} =>
              job[d].op = job'[d].op /\ job[d].row = job'[d].row
    BY <2>1, <2>2 DEF Onward, NoJob
  <2>4. CASE UNCHANGED <<lastId, page>> /\ requests' \subseteq requests
    <3>1. \A d \in Client : Seen(d)' \subseteq Seen(d)
      BY <2>3, <2>4 DEF Seen
    <3>2. QED BY <2>4, <3>1, IdsKept
  <2>5. CASE ListRequests(c)
    <3>1. UNCHANGED <<lastId, requests>> /\ page' = [page EXCEPT ![c] = requests]
      BY <2>5 DEF ListRequests
    <3>2. page'[c] = requests /\ \A d \in Client \ {c} : page'[d] = page[d]
      BY <3>1 DEF TypeInv, TypeOK
    <3>3. \A d \in Client : Seen(d)' \subseteq Seen(d) \cup requests
      BY <2>3, <3>2 DEF Seen
    <3>4. QED BY <3>1, <3>3, IdsKept
  <2>6. CASE Register(c) /\ ~UNCHANGED <<lastId, requests>>
    <3> DEFINE new == [id |-> lastId + 1, user |-> job[c].user]
    <3>1. /\ requests' = requests \cup {new}
          /\ lastId' = lastId + 1
          /\ UNCHANGED page
      BY <2>6 DEF Register, NextId
    <3>2. lastId \in Nat /\ new.id = lastId + 1
      BY DEF TypeInv, TypeOK
    <3>3. \A r \in requests : r.id \in Nat /\ r.id # new.id
      BY <3>2 DEF TypeInv, TypeOK, Registration, IdsInv
    <3>4. \A d \in Client : Seen(d)' \subseteq Seen(d)
      BY <2>3, <3>1 DEF Seen
    <3>5. \A d \in Client : \A q \in Seen(d) : q.id \in Nat /\ q.id # new.id
      <4>1. \A d \in Client : Seen(d) \subseteq Registration
        BY DEF TypeInv, TypeOK, Carries, Seen
      <4>2. QED BY <3>2, <4>1 DEF Registration, IdsInv
    <3>6. (\A r \in requests : r.id <= lastId)'
      BY <3>1, <3>2, <3>3 DEF IdsInv
    <3>7. (\A r, q \in requests : r.id = q.id => r = q)'
      BY <3>1, <3>3 DEF IdsInv
    <3>8. ASSUME NEW d \in Client, NEW q \in Seen(d)'
          PROVE  q.id <= lastId' /\ \A r \in requests' : r.id = q.id => r = q
      BY <3>1, <3>2, <3>4, <3>5 DEF IdsInv
    <3>9. QED BY <3>6, <3>7, <3>8 DEF IdsInv
  <2>7. CASE Authenticate(c) \/ ServeLogin(c) \/ ServePairing(c) \/ ServeShare(c)
    <3>1. UNCHANGED <<requests, lastId, page>>
      BY <2>7 DEF Authenticate, ServeLogin, ServePairing, ServeShare, LoginCount,
         LoginFind, LoginRecord, CodeOwner, CreateCode, PairFind, PairWrite,
         CreateShare, RevokeFind, Revoke, Claim, SendFile, registerVars
    <3>2. QED BY <2>4, <3>1
  <2>8. CASE RegisterCount(c) \/ RegisterRecord(c) \/ Approve(c) \/ Reject(c)
    <3>1. UNCHANGED <<lastId, page>> /\ requests' \subseteq requests
      BY <2>8 DEF RegisterCount, RegisterRecord, Approve, Reject, registerVars
    <3>2. QED BY <2>4, <3>1
  <2>9. CASE Register(c) /\ UNCHANGED <<lastId, requests>>
    BY <2>4, <2>9 DEF Register
  <2>10. QED
    BY <1>4, <2>5, <2>6, <2>7, <2>8, <2>9 DEF Serve, ServeRegistration
<1>5. QED
  BY <1>1, <1>2, <1>3, <1>4 DEF Next

\* What one step of a client's request can do to the accounts.
Exact(c) ==
    At(c, "approve", "act") /\ job'[c] = NoJob =>
       \A u \in User : account'[u] # account[u] =>
          /\ u = job[c].row.user
          /\ account[u] = None
          /\ account'[u] = [role |-> "user", active |-> TRUE]

\* Only the step that serves a client's request ends it.
LEMMA OthersGoOn ==
    ASSUME TypeInv, NEW c \in Client, At(c, "approve", "act"),
           job'[c] = NoJob, [Next]_vars
    PROVE  Approve(c)
<1>1. job[c] # NoJob /\ job[c].op = "approve" /\ job[c].at = "act"
  BY DEF At, NoJob
<1>2. ~UNCHANGED vars /\ ~Elapse /\ ~Manage
  BY <1>1 DEF vars, Elapse, AttemptExpires, CodeExpires, LinkExpires, Manage
<1>3. ASSUME NEW d \in Client, AsksOf(d) PROVE FALSE
  <2>1. CASE Logout(d)
    BY <1>1, <2>1 DEF Logout
  <2>2. CASE ~Logout(d)
    <3>1. PICK j \in JobRecord : Send(d, j)
      BY <1>3, <2>2, AskForm
    <3>2. job[d] = NoJob /\ job' = [job EXCEPT ![d] = j]
      BY <3>1 DEF Send
    <3>3. d # c
      BY <1>1, <3>2
    <3>4. QED BY <1>1, <3>2, <3>3 DEF TypeInv, TypeOK
  <2>3. QED BY <2>1, <2>2
<1>4. ASSUME NEW d \in Client, Serve(d) PROVE d = c
  <2>1. PICK j \in JobRecord : job' = [job EXCEPT ![d] = j]
    BY <1>4, ServeForm DEF Onward
  <2>2. QED BY <1>1, <2>1 DEF TypeInv, TypeOK
<1>5. Serve(c)
  BY <1>2, <1>3, <1>4 DEF Next
<1>6. QED
  BY <1>1, <1>5 DEF Serve, Authenticate, ServeLogin, ServeRegistration,
     ServePairing, ServeShare, LoginCount, LoginFind, LoginRecord, RegisterCount,
     RegisterRecord, Register, ListRequests, Reject, CodeOwner, CreateCode,
     PairFind, PairWrite, CreateShare, RevokeFind, Revoke, Claim, SendFile, At

LEMMA ApproveExact ==
    ASSUME TypeInv, IdsInv, NEW c \in Client, [Next]_vars
    PROVE  Exact(c)
<1>1. SUFFICES ASSUME At(c, "approve", "act"), job'[c] = NoJob,
                      NEW u \in User, account'[u] # account[u]
               PROVE  /\ u = job[c].row.user
                      /\ account[u] = None
                      /\ account'[u] = [role |-> "user", active |-> TRUE]
  BY DEF Exact
<1>2. Approve(c)
  BY <1>1, OthersGoOn
<1>3. job[c].row \in Seen(c)
  BY <1>1 DEF Seen, At
<1>4. \A r \in requests : r.id = job[c].row.id => r = job[c].row
  BY <1>3 DEF IdsInv
<1>5. account \in [User -> Account \cup {None}]
  BY DEF TypeInv, TypeOK
<1>6. {r \in requests : r.id = job[c].row.id} \subseteq {job[c].row}
  BY <1>4
<1>7. /\ account[job[c].row.user] = None
      /\ account' = [account EXCEPT ![job[c].row.user] =
                        [role |-> "user", active |-> TRUE]]
  BY <1>1, <1>2, <1>6 DEF Approve
<1>8. QED
  BY <1>1, <1>5, <1>7

\* Whatever administrators, registrants and the command line do meanwhile, an
\* approval creates the account whose row the administrator saw or none, and
\* touches no account that exists (app/database.py:1977-2029).
THEOREM ApprovalCorrect == Spec => ApprovalIsExact
<1>1. Init => TypeInv /\ IdsInv
  <2>1. SUFFICES ASSUME Init PROVE IdsInv
    BY TypeInit
  <2>2. requests = {} /\ \A c \in Client : Seen(c) = {}
    BY <2>1 DEF Init, Seen, NoJob
  <2>3. QED BY <2>2 DEF IdsInv
<1>2. TypeInv /\ IdsInv /\ [Next]_vars => (TypeInv /\ IdsInv)'
  BY TypeNext, IdsNext
<1>3. TypeInv /\ IdsInv /\ [Next]_vars =>
         [\A c \in Client :
             At(c, "approve", "act") /\ job'[c] = NoJob =>
                \A u \in User : account'[u] # account[u] =>
                   /\ u = job[c].row.user
                   /\ account[u] = None
                   /\ account'[u] = [role |-> "user", active |-> TRUE]]_vars
  BY ApproveExact DEF Exact
<1>4. QED
  BY <1>1, <1>2, <1>3, PTL DEF Spec, ApprovalIsExact

-----------------------------------------------------------------------------
(* The limits.  What a request past the check may still add is part of the *)
(* bound: a handler that has counted holds a place until it records.       *)

Signing(u)  == {c \in Client : /\ job[c].op = "login"
                               /\ job[c].at \in {"find", "note"}
                               /\ job[c].user = u}
Registering == {c \in Client : job[c].op = "register" /\ job[c].at = "note"}
Sending(s)  == {c \in Client : /\ job[c].op = "download"
                               /\ job[c].at = "send"
                               /\ job[c].link = s}

AttemptsInv ==
    /\ \A u \in User :
          failed[u] + Cardinality(Signing(u)) <= MaxFailed - 1 + Cardinality(Client)
    /\ tries + Cardinality(Registering) <= MaxFailed - 1 + Cardinality(Client)

DownloadsInv ==
    \A s \in Share :
        /\ sent[s] + Cardinality(Sending(s)) <= share[s].count
        /\ share[s].limit # Unlimited => share[s].count <= share[s].limit

\* Sets of clients are finite, and smaller ones count less.
LEMMA Clients ==
    /\ Cardinality(Client) \in Nat
    /\ \A S \in SUBSET Client :
          /\ Cardinality(S) \in Nat
          /\ Cardinality(S) <= Cardinality(Client)
          /\ \A T \in SUBSET S : Cardinality(T) <= Cardinality(S)
          /\ \A c \in S : Cardinality(S \ {c}) = Cardinality(S) - 1
          /\ \A c \in Client \ S : Cardinality(S \cup {c}) = Cardinality(S) + 1
<1>1. IsFiniteSet(Client)
  BY AccountsAssumption
<1>2. Cardinality(Client) \in Nat
  BY <1>1, FS_CardinalityType
<1>3. ASSUME NEW S \in SUBSET Client
      PROVE  /\ Cardinality(S) \in Nat
             /\ Cardinality(S) <= Cardinality(Client)
             /\ \A T \in SUBSET S : Cardinality(T) <= Cardinality(S)
             /\ \A c \in S : Cardinality(S \ {c}) = Cardinality(S) - 1
             /\ \A c \in Client \ S : Cardinality(S \cup {c}) = Cardinality(S) + 1
  <2>1. IsFiniteSet(S) /\ Cardinality(S) <= Cardinality(Client)
    BY <1>1, FS_Subset
  <2>2. Cardinality(S) \in Nat
    BY <2>1, FS_CardinalityType
  <2>3. \A T \in SUBSET S : Cardinality(T) <= Cardinality(S)
    BY <2>1, FS_Subset
  <2>4. \A c \in S : Cardinality(S \ {c}) = Cardinality(S) - 1
    BY <2>1, FS_RemoveElement
  <2>5. \A c \in Client \ S : Cardinality(S \cup {c}) = Cardinality(S) + 1
    BY <2>1, FS_AddElement
  <2>6. QED BY <2>1, <2>2, <2>3, <2>4, <2>5
<1>4. QED
  BY <1>2, <1>3

LEMMA AttemptsKept ==
    ASSUME TypeInv, TypeInv', AttemptsInv,
           \A u \in User : /\ failed'[u] <= failed[u]
                           /\ Signing(u)' \subseteq Signing(u),
           tries' <= tries, Registering' \subseteq Registering
    PROVE  AttemptsInv'
<1>1. /\ \A u \in User : /\ failed[u] \in Nat /\ failed'[u] \in Nat
                          /\ Signing(u) \in SUBSET Client
      /\ tries \in Nat /\ tries' \in Nat /\ Registering \in SUBSET Client
      /\ MaxFailed \in Nat
  BY AccountsAssumption DEF TypeInv, TypeOK, Signing, Registering
<1>2. Cardinality(Client) \in Nat
  BY Clients
<1>3. ASSUME NEW u \in User
      PROVE  failed'[u] + Cardinality(Signing(u)')
                <= MaxFailed - 1 + Cardinality(Client)
  <2>1. /\ Cardinality(Signing(u)') <= Cardinality(Signing(u))
        /\ Cardinality(Signing(u)) \in Nat /\ Cardinality(Signing(u)') \in Nat
    BY <1>1, Clients
  <2>2. failed[u] + Cardinality(Signing(u)) <= MaxFailed - 1 + Cardinality(Client)
    BY DEF AttemptsInv
  <2>3. QED BY <1>1, <1>2, <2>1, <2>2
<1>4. tries' + Cardinality(Registering') <= MaxFailed - 1 + Cardinality(Client)
  <2>1. /\ Cardinality(Registering') <= Cardinality(Registering)
        /\ Cardinality(Registering) \in Nat /\ Cardinality(Registering') \in Nat
    BY <1>1, Clients
  <2>2. tries + Cardinality(Registering) <= MaxFailed - 1 + Cardinality(Client)
    BY DEF AttemptsInv
  <2>3. QED BY <1>1, <1>2, <2>1, <2>2
<1>5. QED
  BY <1>3, <1>4 DEF AttemptsInv

LEMMA DownloadsKept ==
    ASSUME TypeInv, TypeInv', DownloadsInv,
           \A s \in Share : /\ sent'[s] = sent[s]
                            /\ share'[s].count = share[s].count
                            /\ share'[s].limit = share[s].limit
                            /\ Sending(s)' \subseteq Sending(s)
    PROVE  DownloadsInv'
<1>1. ASSUME NEW s \in Share
      PROVE  sent'[s] + Cardinality(Sending(s)') <= share'[s].count
  <2>1. Sending(s) \in SUBSET Client
    BY DEF Sending
  <2>2. /\ Cardinality(Sending(s)') <= Cardinality(Sending(s))
        /\ Cardinality(Sending(s)) \in Nat /\ Cardinality(Sending(s)') \in Nat
    BY <2>1, Clients
  <2>3. sent[s] \in Nat /\ share[s].count \in Nat
    BY DEF TypeInv, TypeOK, Link, NoLink
  <2>4. QED BY <2>2, <2>3 DEF DownloadsInv
<1>2. QED
  BY <1>1 DEF DownloadsInv

\* A client's new request has not been counted or claimed yet.
LEMMA AskLimits ==
    ASSUME TypeInv, TypeInv', AttemptsInv, DownloadsInv,
           NEW c \in Client, AsksOf(c)
    PROVE  AttemptsInv' /\ DownloadsInv'
<1>1. UNCHANGED <<failed, tries, share, sent>>
  BY AskForm DEF Logout, Send, loginVars, registerVars, shareVars
<1>2. \A d \in Client : \/ job'[d] = job[d]
                        \/ /\ job'[d].at = "find" => job'[d].op = "pair"
                           /\ job'[d].at = "note" => job'[d].op = "none"
                           /\ job'[d].at # "send"
  <2>1. CASE Logout(c)
    BY <2>1 DEF Logout
  <2>2. CASE ~Logout(c)
    <3>1. PICK j \in JobRecord : Send(c, j) /\ Fresh(c, j)
      BY <2>2, AskForm
    <3>2. job' = [job EXCEPT ![c] = j]
      BY <3>1 DEF Send
    <3>3. QED BY <3>1, <3>2 DEF Fresh, TypeInv, TypeOK
  <2>3. QED BY <2>1, <2>2
<1>3. /\ \A u \in User : Signing(u)' \subseteq Signing(u)
      /\ Registering' \subseteq Registering
      /\ \A s \in Share : Sending(s)' \subseteq Sending(s)
  BY <1>2 DEF Signing, Registering, Sending
<1>4. /\ \A u \in User : failed'[u] <= failed[u]
      /\ tries' <= tries
  BY <1>1 DEF TypeInv, TypeOK
<1>5. QED
  BY <1>1, <1>3, <1>4, AttemptsKept, DownloadsKept

LEMMA ElsewhereLimits ==
    ASSUME TypeInv, TypeInv', AttemptsInv, DownloadsInv, Elapse \/ Manage
    PROVE  AttemptsInv' /\ DownloadsInv'
<1>1. UNCHANGED <<job, sent>>
  BY DEF Elapse, AttemptExpires, CodeExpires, LinkExpires, Manage, shareVars
<1>2. \A s \in Share : /\ share'[s].count = share[s].count
                       /\ share'[s].limit = share[s].limit
  <2>1. CASE LinkExpires
    BY <2>1 DEF LinkExpires, TypeInv, TypeOK, Link, NoLink
  <2>2. CASE ~LinkExpires
    BY <2>2 DEF Elapse, AttemptExpires, CodeExpires, Manage, shareVars
  <2>3. QED BY <2>1, <2>2
<1>3. (\A u \in User : failed'[u] <= failed[u]) /\ tries' <= tries
  <2>1. CASE AttemptExpires
    BY <2>1 DEF AttemptExpires, TypeInv, TypeOK
  <2>2. CASE ~AttemptExpires
    BY <2>2 DEF Elapse, CodeExpires, LinkExpires, Manage, loginVars, registerVars,
                TypeInv, TypeOK
  <2>3. QED BY <2>1, <2>2
<1>4. /\ \A u \in User : Signing(u)' \subseteq Signing(u)
      /\ Registering' \subseteq Registering
      /\ \A s \in Share : Sending(s)' \subseteq Sending(s)
  BY <1>1 DEF Signing, Registering, Sending
<1>5. QED
  BY <1>1, <1>2, <1>3, <1>4, AttemptsKept, DownloadsKept

\* Recording an attempt gives its place to what is recorded.
LEMMA ServeAttempts ==
    ASSUME TypeInv, TypeInv', AttemptsInv, NEW c \in Client, Serve(c)
    PROVE  AttemptsInv'
<1>1. /\ job[c] \in JobRecord /\ MaxFailed \in Nat
      /\ Cardinality(Client) \in Nat /\ tries \in Nat
      /\ \A u \in User : failed[u] \in Nat
  BY AccountsAssumption, Clients DEF TypeInv, TypeOK
<1>2. PICK j \in JobRecord : Onward(c, j)
  BY ServeForm
<1>3. job'[c] = j /\ \A d \in Client \ {c} : job'[d] = job[d]
  BY <1>2 DEF Onward, TypeInv, TypeOK
<1>4. \A u \in User : Signing(u)' \in SUBSET Client /\ Signing(u) \in SUBSET Client
  BY DEF Signing
<1>5. Registering' \in SUBSET Client /\ Registering \in SUBSET Client
  BY DEF Registering
<1>6. job[c].op # "login" => \A u \in User : Signing(u)' \subseteq Signing(u)
  BY <1>2, <1>3 DEF Signing, Onward, NoJob
<1>7. job[c].op # "register" => Registering' \subseteq Registering
  BY <1>2, <1>3 DEF Registering, Onward, NoJob
<1>8. CASE UNCHANGED <<failed, tries>> /\ job[c].op \notin {"login", "register"}
  BY <1>1, <1>6, <1>7, <1>8, AttemptsKept
<1>9. CASE Authenticate(c)
  <2>1. UNCHANGED <<failed, tries>>
    BY <1>9 DEF Authenticate, loginVars, registerVars
  <2>2. job'[c].at \notin {"find", "note"} \/ job'[c].op = job[c].op
    BY <1>2, <1>3 DEF Onward, NoJob
  <2>3. job'[c].at = "find" => job[c].op \in {"revoke", "code"}
    <3>1. CASE Reply(c)
      BY <1>3, <3>1 DEF Reply, NoJob, TypeInv, TypeOK
    <3>2. CASE ~Reply(c)
      <4>1. job'[c].at = AuthStage(job[c].op)
        BY <1>9, <3>2, <1>1 DEF Authenticate, TypeInv, TypeOK, JobRecord
      <4>2. QED BY <4>1 DEF AuthStage
    <3>3. QED BY <3>1, <3>2
  <2>4. job'[c].at # "note"
    <3>1. CASE Reply(c)
      BY <1>3, <3>1 DEF Reply, NoJob, TypeInv, TypeOK
    <3>2. CASE ~Reply(c)
      <4>1. job'[c].at = AuthStage(job[c].op)
        BY <1>9, <3>2, <1>1 DEF Authenticate, TypeInv, TypeOK, JobRecord
      <4>2. QED BY <4>1 DEF AuthStage
    <3>3. QED BY <3>1, <3>2
  <2>5. /\ \A u \in User : Signing(u)' \subseteq Signing(u)
        /\ Registering' \subseteq Registering
    BY <1>3, <2>2, <2>3, <2>4 DEF Signing, Registering
  <2>6. QED BY <1>1, <2>1, <2>5, AttemptsKept
<1>10. CASE LoginCount(c)
  <2>1. UNCHANGED <<failed, tries>> /\ Registering' \subseteq Registering
    BY <1>7, <1>10 DEF LoginCount, At, loginVars, registerVars
  <2>2. CASE failed[job[c].user] >= MaxFailed
    <3>1. job'[c] = NoJob
      BY <1>10, <2>2 DEF LoginCount, Reply, TypeInv, TypeOK
    <3>2. \A u \in User : Signing(u)' \subseteq Signing(u)
      BY <1>3, <3>1 DEF Signing, NoJob
    <3>3. QED BY <1>1, <2>1, <3>2, AttemptsKept
  <2>3. CASE ~(failed[job[c].user] >= MaxFailed)
    <3>1. job'[c].user = job[c].user
      BY <1>1, <1>10, <2>3 DEF LoginCount, Go, TypeInv, TypeOK, JobRecord
    <3>2. \A u \in User \ {job[c].user} : Signing(u)' \subseteq Signing(u)
      BY <1>3, <3>1 DEF Signing
    <3>3. ASSUME NEW u \in User
          PROVE  failed'[u] + Cardinality(Signing(u)')
                    <= MaxFailed - 1 + Cardinality(Client)
      <4>1. Cardinality(Signing(u)') \in Nat
            /\ Cardinality(Signing(u)') <= Cardinality(Client)
        BY <1>4, Clients
      <4>2. CASE u = job[c].user
        BY <1>1, <2>1, <2>3, <4>1, <4>2
      <4>3. CASE u # job[c].user
        <5>1. Cardinality(Signing(u)') <= Cardinality(Signing(u))
              /\ Cardinality(Signing(u)) \in Nat
          BY <1>4, <3>2, <4>3, Clients
        <5>2. QED BY <1>1, <2>1, <4>1, <5>1 DEF AttemptsInv
      <4>4. QED BY <4>2, <4>3
    <3>4. Registering' = Registering
      <4>1. job'[c].op = "login"
        BY <1>1, <1>10, <2>3 DEF LoginCount, Go, At, TypeInv, TypeOK, JobRecord
      <4>2. QED BY <1>3, <1>10, <4>1 DEF Registering, LoginCount, At
    <3>5. QED BY <2>1, <3>3, <3>4 DEF AttemptsInv
  <2>4. QED BY <2>2, <2>3
<1>11. CASE LoginFind(c)
  <2>1. UNCHANGED <<failed, tries>> /\ Registering' \subseteq Registering
    BY <1>7, <1>11 DEF LoginFind, At, loginVars, registerVars
  <2>2. job'[c].user = job[c].user
    BY <1>1, <1>11 DEF LoginFind, TypeInv, TypeOK, JobRecord
  <2>3. \A u \in User : Signing(u)' \subseteq Signing(u)
    BY <1>3, <1>11, <2>2 DEF Signing, LoginFind, At
  <2>4. QED BY <1>1, <2>1, <2>3, AttemptsKept
<1>12. CASE LoginRecord(c)
  <2> DEFINE v == job[c].user
  <2>1. tries' = tries /\ job'[c] = NoJob
    BY <1>12 DEF LoginRecord, Reply, registerVars, TypeInv, TypeOK
  <2>2. Registering' \subseteq Registering
    BY <1>7, <1>12 DEF LoginRecord, At
  <2>3. v \in User /\ c \in Signing(v)
    BY <1>12 DEF LoginRecord, At, TypeInv, Carries, Signing
  <2>4. \A u \in User : Signing(u)' \subseteq Signing(u) \ {c}
    BY <1>3, <2>1 DEF Signing, NoJob
  <2>5. failed' = failed \/ failed' = [failed EXCEPT ![v] = @ + 1]
    BY <1>12 DEF LoginRecord
  <2>6. ASSUME NEW u \in User
        PROVE  failed'[u] + Cardinality(Signing(u)')
                  <= MaxFailed - 1 + Cardinality(Client)
    <3>1. /\ Cardinality(Signing(u)') \in Nat /\ Cardinality(Signing(u)) \in Nat
          /\ Cardinality(Signing(u)') <= Cardinality(Signing(u))
      BY <1>4, <2>4, Clients
    <3>2. CASE u = v
      <4>1. Cardinality(Signing(u)') <= Cardinality(Signing(u) \ {c})
        BY <1>4, <2>4, Clients
      <4>2. Cardinality(Signing(u) \ {c}) = Cardinality(Signing(u)) - 1
        BY <1>4, <2>3, <3>2, Clients
      <4>3. failed'[u] <= failed[u] + 1 /\ failed'[u] \in Nat
        BY <1>1, <2>5, <3>2 DEF TypeInv, TypeOK
      <4>4. QED BY <1>1, <3>1, <4>1, <4>2, <4>3 DEF AttemptsInv
    <3>3. CASE u # v
      <4>1. failed'[u] = failed[u]
        BY <2>5, <3>3 DEF TypeInv, TypeOK
      <4>2. QED BY <1>1, <3>1, <4>1 DEF AttemptsInv
    <3>4. QED BY <3>2, <3>3
  <2>7. Cardinality(Registering') <= Cardinality(Registering)
        /\ Cardinality(Registering) \in Nat /\ Cardinality(Registering') \in Nat
    BY <1>5, <2>2, Clients
  <2>8. QED BY <1>1, <2>1, <2>6, <2>7 DEF AttemptsInv
<1>13. CASE RegisterCount(c)
  <2>1. UNCHANGED <<failed, tries>> /\ \A u \in User : Signing(u)' \subseteq Signing(u)
    BY <1>6, <1>13 DEF RegisterCount, At, loginVars, registerVars
  <2>2. CASE tries >= MaxFailed
    <3>1. job'[c] = NoJob
      BY <1>13, <2>2 DEF RegisterCount, Reply, TypeInv, TypeOK
    <3>2. Registering' \subseteq Registering
      BY <1>3, <3>1 DEF Registering, NoJob
    <3>3. QED BY <1>1, <2>1, <3>2, AttemptsKept
  <2>3. CASE ~(tries >= MaxFailed)
    <3>1. Cardinality(Registering') \in Nat
          /\ Cardinality(Registering') <= Cardinality(Client)
      BY <1>5, Clients
    <3>2. tries' + Cardinality(Registering') <= MaxFailed - 1 + Cardinality(Client)
      BY <1>1, <2>1, <2>3, <3>1
    <3>3. ASSUME NEW u \in User
          PROVE  failed'[u] + Cardinality(Signing(u)')
                    <= MaxFailed - 1 + Cardinality(Client)
      <4>1. /\ Cardinality(Signing(u)') \in Nat /\ Cardinality(Signing(u)) \in Nat
            /\ Cardinality(Signing(u)') <= Cardinality(Signing(u))
        BY <1>4, <2>1, Clients
      <4>2. QED BY <1>1, <2>1, <4>1 DEF AttemptsInv
    <3>4. QED BY <3>2, <3>3 DEF AttemptsInv
  <2>4. QED BY <2>2, <2>3
<1>14. CASE RegisterRecord(c)
  <2>1. /\ failed' = failed /\ tries' = tries + 1
        /\ \A u \in User : Signing(u)' \subseteq Signing(u)
    BY <1>6, <1>14 DEF RegisterRecord, At, loginVars
  <2>2. c \in Registering
    BY <1>14 DEF RegisterRecord, At, Registering
  <2>3. job'[c].at = "act"
    BY <1>1, <1>14 DEF RegisterRecord, Go, TypeInv, TypeOK, JobRecord
  <2>4. Registering' \subseteq Registering \ {c}
    BY <1>3, <2>3 DEF Registering
  <2>5. /\ Cardinality(Registering') <= Cardinality(Registering) - 1
        /\ Cardinality(Registering) \in Nat /\ Cardinality(Registering') \in Nat
    <3>1. Cardinality(Registering') <= Cardinality(Registering \ {c})
      BY <1>5, <2>4, Clients
    <3>2. QED BY <1>5, <2>2, <3>1, Clients
  <2>6. tries' + Cardinality(Registering') <= MaxFailed - 1 + Cardinality(Client)
    BY <1>1, <2>1, <2>5 DEF AttemptsInv
  <2>7. ASSUME NEW u \in User
        PROVE  failed'[u] + Cardinality(Signing(u)')
                  <= MaxFailed - 1 + Cardinality(Client)
    <3>1. /\ Cardinality(Signing(u)') \in Nat /\ Cardinality(Signing(u)) \in Nat
          /\ Cardinality(Signing(u)') <= Cardinality(Signing(u))
      BY <1>4, <2>1, Clients
    <3>2. QED BY <1>1, <2>1, <3>1 DEF AttemptsInv
  <2>8. QED BY <2>6, <2>7 DEF AttemptsInv
<1>15. CASE Register(c)
  <2>1. UNCHANGED <<failed, tries>> /\ job'[c] = NoJob
    BY <1>15 DEF Register, Reply, loginVars, TypeInv, TypeOK
  <2>2. /\ \A u \in User : Signing(u)' \subseteq Signing(u)
        /\ Registering' \subseteq Registering
    BY <1>3, <2>1 DEF Signing, Registering, NoJob
  <2>3. QED BY <1>1, <2>1, <2>2, AttemptsKept
<1>16. CASE ListRequests(c) \/ Approve(c) \/ Reject(c)
  BY <1>8, <1>16 DEF ListRequests, Approve, Reject, At, loginVars
<1>17. CASE ServePairing(c)
  BY <1>8, <1>17 DEF ServePairing, CodeOwner, CreateCode, PairFind, PairWrite, At,
                     loginVars, registerVars
<1>18. CASE ServeShare(c)
  BY <1>8, <1>18 DEF ServeShare, CreateShare, RevokeFind, Revoke, Claim, SendFile,
                     At, loginVars, registerVars
<1>19. QED
  BY <1>9, <1>10, <1>11, <1>12, <1>13, <1>14, <1>15, <1>16, <1>17, <1>18
     DEF Serve, ServeLogin, ServeRegistration

\* A claim raises the count together with the downloads under way.
LEMMA ServeDownloads ==
    ASSUME TypeInv, TypeInv', DownloadsInv, NEW c \in Client, Serve(c)
    PROVE  DownloadsInv'
<1>1. /\ job[c] \in JobRecord
      /\ \A s \in Share : sent[s] \in Nat /\ share[s].count \in Nat
  BY DEF TypeInv, TypeOK, Link, NoLink
<1>2. PICK j \in JobRecord : Onward(c, j)
  BY ServeForm
<1>3. job'[c] = j /\ \A d \in Client \ {c} : job'[d] = job[d]
  BY <1>2 DEF Onward, TypeInv, TypeOK
<1>4. \A s \in Share : Sending(s)' \in SUBSET Client /\ Sending(s) \in SUBSET Client
  BY DEF Sending
<1>5. job[c].op # "download" => \A s \in Share : Sending(s)' \subseteq Sending(s)
  BY <1>2, <1>3 DEF Sending, Onward, NoJob
<1>6. CASE /\ UNCHANGED <<sent, share>>
           /\ \A s \in Share : Sending(s)' \subseteq Sending(s)
  BY <1>6, DownloadsKept
<1>7. CASE Authenticate(c)
  <2>1. UNCHANGED <<sent, share>>
    BY <1>7 DEF Authenticate, shareVars
  <2>2. job'[c].at # "send"
    <3>1. CASE Reply(c)
      BY <1>3, <3>1 DEF Reply, NoJob, TypeInv, TypeOK
    <3>2. CASE ~Reply(c)
      <4>1. job'[c].at = AuthStage(job[c].op)
        BY <1>7, <3>2, <1>1 DEF Authenticate, TypeInv, TypeOK, JobRecord
      <4>2. QED BY <4>1 DEF AuthStage
    <3>3. QED BY <3>1, <3>2
  <2>3. QED BY <1>3, <1>6, <2>1, <2>2 DEF Sending
<1>8. CASE ServeLogin(c) \/ ServeRegistration(c) \/ ServePairing(c) \/ RevokeFind(c)
  <2>1. UNCHANGED <<sent, share>> /\ job[c].op # "download"
    BY <1>8 DEF ServeLogin, ServeRegistration, ServePairing, LoginCount, LoginFind,
       LoginRecord, RegisterCount, RegisterRecord, Register, ListRequests, Approve,
       Reject, CodeOwner, CreateCode, PairFind, PairWrite, RevokeFind, At, shareVars
  <2>2. QED BY <1>5, <1>6, <2>1
<1>9. CASE CreateShare(c)
  <2>1. PICK s \in Share, o \in User :
           /\ share[s] = NoLink
           /\ share' = [share EXCEPT ![s] =
                           [owner |-> o, limit |-> job[c].limit, count |-> 0,
                            revoked |-> FALSE, expired |-> FALSE]]
    BY <1>9 DEF CreateShare
  <2>2. sent' = sent /\ \A t \in Share : Sending(t)' \subseteq Sending(t)
    BY <1>5, <1>9 DEF CreateShare, At
  <2>3. \A t \in Share : Cardinality(Sending(t)') <= Cardinality(Sending(t))
          /\ Cardinality(Sending(t)) \in Nat /\ Cardinality(Sending(t)') \in Nat
    BY <1>4, <2>2, Clients
  <2>4. /\ share'[s].count = 0 /\ share'[s].limit = job[c].limit
        /\ share[s].count = 0
        /\ \A t \in Share \ {s} : share'[t] = share[t]
    BY <2>1 DEF TypeInv, TypeOK, NoLink
  <2>5. \A t \in Share : sent'[t] + Cardinality(Sending(t)') <= share'[t].count
    BY <1>1, <2>2, <2>3, <2>4 DEF DownloadsInv
  <2>6. \A t \in Share :
           share'[t].limit # Unlimited => share'[t].count <= share'[t].limit
    <3>1. job[c].limit # Unlimited => job[c].limit \in Nat
      BY <1>1, AccountsAssumption DEF JobRecord
    <3>2. QED BY <2>4, <3>1 DEF DownloadsInv
  <2>7. QED BY <2>5, <2>6 DEF DownloadsInv
<1>10. CASE Revoke(c)
  <2> DEFINE s == job[c].link
  <2>1. /\ sent' = sent /\ share' = [share EXCEPT ![s].revoked = TRUE]
        /\ s \in Share /\ share[s] \in Link
        /\ \A t \in Share : Sending(t)' \subseteq Sending(t)
    BY <1>5, <1>10 DEF Revoke, At, TypeInv, TypeOK, Carries
  <2>2. \A t \in Share : /\ share'[t].count = share[t].count
                         /\ share'[t].limit = share[t].limit
    BY <2>1 DEF TypeInv, TypeOK, Link
  <2>3. QED BY <2>1, <2>2, DownloadsKept
<1>11. CASE Claim(c)
  <2>1. PICK s \in Share :
           s = job[c].link /\ job[c].op = "download" /\ job[c].at = "act"
    BY <1>11 DEF Claim, At, TypeInv, Carries
  <2>2. CASE ~Claimable(share[s])
    <3>1. UNCHANGED <<sent, share>> /\ job'[c] = NoJob
      BY <1>11, <2>1, <2>2 DEF Claim, Reply, TypeInv, TypeOK
    <3>2. QED BY <1>3, <1>6, <3>1 DEF Sending, NoJob
  <2>3. CASE Claimable(share[s])
    <3>1. share[s] \in Link
      BY <2>1, <2>3 DEF TypeInv, TypeOK, Claimable, IsActive, NoLink
    <3>2. /\ sent' = sent /\ share' = [share EXCEPT ![s].count = @ + 1]
          /\ Go(c, "send")
      BY <1>11, <2>1, <2>3 DEF Claim
    <3>3. /\ share'[s].count = share[s].count + 1
          /\ share'[s].limit = share[s].limit
          /\ \A t \in Share \ {s} : share'[t] = share[t]
      BY <2>1, <3>1, <3>2 DEF TypeInv, TypeOK, Link
    <3>4. job'[c].link = s
      BY <1>1, <2>1, <3>2 DEF Go, TypeInv, TypeOK, JobRecord
    <3>5. /\ Sending(s)' \subseteq Sending(s) \cup {c} /\ c \in Client \ Sending(s)
          /\ \A t \in Share \ {s} : Sending(t)' \subseteq Sending(t)
      BY <1>3, <2>1, <3>4 DEF Sending
    <3>6. Cardinality(Sending(s)') <= Cardinality(Sending(s)) + 1
      <4>1. Sending(s) \cup {c} \in SUBSET Client
        BY <1>4, <2>1
      <4>2. Cardinality(Sending(s)') <= Cardinality(Sending(s) \cup {c})
        BY <3>5, <4>1, Clients
      <4>3. QED BY <1>4, <2>1, <3>5, <4>2, Clients
    <3>7. \A t \in Share \ {s} : Cardinality(Sending(t)') <= Cardinality(Sending(t))
      BY <1>4, <3>5, Clients
    <3>8. \A t \in Share : Cardinality(Sending(t)) \in Nat
                           /\ Cardinality(Sending(t)') \in Nat
      BY <1>4, Clients
    <3>9. \A t \in Share : sent'[t] + Cardinality(Sending(t)') <= share'[t].count
      BY <1>1, <3>2, <3>3, <3>6, <3>7, <3>8 DEF DownloadsInv
    <3>10. share[s].limit # Unlimited => share'[s].count <= share'[s].limit
      <4>1. share[s].limit # Unlimited => share[s].limit \in Nat
        BY <3>1, AccountsAssumption DEF Link
      <4>2. QED BY <1>1, <2>1, <2>3, <3>3, <4>1 DEF Claimable
    <3>11. QED BY <3>3, <3>9, <3>10 DEF DownloadsInv
  <2>4. QED BY <2>2, <2>3
<1>12. CASE SendFile(c)
  <2>0. PICK s \in Share : s = job[c].link /\ c \in Sending(s)
    BY <1>12 DEF SendFile, At, Sending, TypeInv, Carries
  <2>1. /\ share' = share /\ job'[c] = NoJob
        /\ sent' = sent \/ sent' = [sent EXCEPT ![s] = @ + 1]
    BY <1>12, <2>0 DEF SendFile, Reply, TypeInv, TypeOK
  <2>2. s \in Share /\ c \in Sending(s)
    BY <2>0
  <2>3. \A t \in Share : Sending(t)' \subseteq Sending(t) \ {c}
    BY <1>3, <2>1 DEF Sending, NoJob
  <2>4. \A t \in Share : Cardinality(Sending(t)) \in Nat
                         /\ Cardinality(Sending(t)') \in Nat
                         /\ Cardinality(Sending(t)') <= Cardinality(Sending(t))
    BY <1>4, <2>3, Clients
  <2>5. Cardinality(Sending(s)') <= Cardinality(Sending(s)) - 1
    <3>1. Cardinality(Sending(s)') <= Cardinality(Sending(s) \ {c})
      BY <1>4, <2>2, <2>3, Clients
    <3>2. QED BY <1>4, <2>2, <3>1, Clients
  <2>6. sent'[s] <= sent[s] + 1 /\ sent'[s] \in Nat
        /\ \A t \in Share \ {s} : sent'[t] = sent[t]
    BY <1>1, <2>1, <2>2 DEF TypeInv, TypeOK
  <2>7. ASSUME NEW t \in Share
        PROVE  sent'[t] + Cardinality(Sending(t)') <= share'[t].count
    <3>1. sent[t] + Cardinality(Sending(t)) <= share[t].count
      BY DEF DownloadsInv
    <3>2. CASE t = s
      BY <1>1, <2>1, <2>2, <2>4, <2>5, <2>6, <3>1, <3>2
    <3>3. CASE t # s
      BY <1>1, <2>1, <2>4, <2>6, <3>1, <3>3
    <3>4. QED BY <3>2, <3>3
  <2>8. QED BY <2>1, <2>7 DEF DownloadsInv
<1>13. QED
  BY <1>7, <1>8, <1>9, <1>10, <1>11, <1>12 DEF Serve, ServeShare

-----------------------------------------------------------------------------
Limits == TypeInv /\ AttemptsInv /\ DownloadsInv

LEMMA LimitsInit == Init => Limits
<1>1. SUFFICES ASSUME Init PROVE AttemptsInv /\ DownloadsInv
  BY TypeInit DEF Limits
<1>2. /\ \A u \in User : Signing(u) = {} /\ failed[u] = 0
      /\ Registering = {} /\ tries = 0
      /\ \A s \in Share : /\ Sending(s) = {} /\ sent[s] = 0
                           /\ share[s].count = 0 /\ share[s].limit = Unlimited
  BY <1>1 DEF Init, Signing, Registering, Sending, NoJob, NoLink
<1>3. Cardinality({}) = 0
  BY FS_EmptySet
<1>4. MaxFailed - 1 + Cardinality(Client) >= 0
  BY AccountsAssumption, Clients
<1>5. AttemptsInv
  BY <1>2, <1>3, <1>4 DEF AttemptsInv
<1>6. DownloadsInv
  BY <1>2, <1>3 DEF DownloadsInv
<1>7. QED
  BY <1>5, <1>6

LEMMA LimitsNext == Limits /\ [Next]_vars => Limits'
<1>1. SUFFICES ASSUME Limits, [Next]_vars PROVE AttemptsInv' /\ DownloadsInv'
  BY TypeNext DEF Limits
<1>2. TypeInv /\ TypeInv' /\ AttemptsInv /\ DownloadsInv
  BY <1>1, TypeNext DEF Limits
<1>3. CASE UNCHANGED vars
  BY <1>2, <1>3 DEF vars, AttemptsInv, DownloadsInv, Signing, Registering, Sending
<1>4. QED
  BY <1>1, <1>2, <1>3, AskLimits, ElsewhereLimits, ServeAttempts, ServeDownloads
     DEF Next

\* At most one attempt of each client passes the limit, for any number of
\* clients (app/main.py:341-386, 403-414).
THEOREM AttemptsCorrect == Spec => []AttemptsBounded
<1>1. Limits => AttemptsBounded
  <2>1. SUFFICES ASSUME Limits PROVE AttemptsBounded
    OBVIOUS
  <2>2. /\ \A u \in User : Signing(u) \in SUBSET Client /\ failed[u] \in Nat
        /\ Registering \in SUBSET Client /\ tries \in Nat
    BY <2>1 DEF Limits, TypeInv, TypeOK, Signing, Registering
  <2>3. /\ \A u \in User : Cardinality(Signing(u)) \in Nat
        /\ Cardinality(Registering) \in Nat /\ Cardinality(Client) \in Nat
    BY <2>2, Clients
  <2>4. MaxFailed \in Nat
    BY AccountsAssumption
  <2>5. QED
    BY <2>1, <2>2, <2>3, <2>4 DEF Limits, AttemptsInv, AttemptsBounded
<1>2. QED
  BY <1>1, LimitsInit, LimitsNext, PTL DEF Spec

\* No link sends its file more often than it was created for, whatever is
\* claimed, revoked or sent at once (app/database.py:3378-3434).
THEOREM DownloadsCorrect == Spec => []DownloadsWithinLimit
<1>1. Limits => DownloadsWithinLimit
  <2>1. SUFFICES ASSUME Limits, NEW s \in Share, share[s].limit # Unlimited
                 PROVE  sent[s] <= share[s].limit
    BY DEF DownloadsWithinLimit
  <2>2. share[s] \in Link
    BY <2>1 DEF Limits, TypeInv, TypeOK, NoLink
  <2>3. share[s].limit \in Nat /\ share[s].count \in Nat /\ sent[s] \in Nat
    BY <2>1, <2>2, AccountsAssumption DEF Limits, TypeInv, TypeOK, Link
  <2>4. Sending(s) \in SUBSET Client
    BY DEF Sending
  <2>5. Cardinality(Sending(s)) \in Nat
    BY <2>4, Clients
  <2>6. QED
    BY <2>1, <2>3, <2>5 DEF Limits, DownloadsInv
<1>2. QED
  BY <1>1, LimitsInit, LimitsNext, PTL DEF Spec

=============================================================================

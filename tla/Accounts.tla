------------------------------ MODULE Accounts ------------------------------
(***************************************************************************)
(* Accounts and what proves an identity: registration, the links sent by   *)
(* e-mail (address verification, password reset), login and its JWTs, API  *)
(* keys, and the deletion of an account.                                   *)
(*                                                                         *)
(* A link is made by a goroutine that outlives its request and runs three  *)
(* statements, each its own transaction: the lookup of the account, the    *)
(* UPDATE that invalidates the older links, the INSERT of the new one;     *)
(* then it sends the mail. A link is redeemed by a request in two: the     *)
(* atomic UPDATE ... RETURNING of Consume, then the UPDATE of the account. *)
(*                                                                         *)
(* Ids of accounts and raw tokens are numbers given in order. The password *)
(* of an account is the number of the link that set it, 0 the one chosen   *)
(* at registration: requests that use different links choose different     *)
(* passwords.                                                              *)
(***************************************************************************)
EXTENDS Naturals, FiniteSets

CONSTANTS Emails,       \* addresses
          NoEmail,
          Senders,      \* goroutines that make links at one time
          Requests,     \* requests with two steps under way at one time
          MaxUsers,     \* bound on registrations
          MaxTokens,    \* bound on links
          KeyIds,       \* bound: API keys that are created
          MaxApiKeysPerUser,
          MaxFaults,    \* bound on failing calls
          MaxCrashes    \* bound on crashes of the server

ASSUME AccountsAssumption ==
    /\ NoEmail \notin Emails
    /\ IsFiniteSet(Senders) /\ IsFiniteSet(Requests) /\ IsFiniteSet(KeyIds)
    /\ {MaxUsers, MaxTokens, MaxFaults, MaxCrashes} \subseteq Nat
    /\ MaxApiKeysPerUser \in Nat \ {0}

VARIABLES users,      \* users[u]: the row of account u, and whether it was deleted
          nextUser,   \* the sequence behind users.id
          tokens,     \* tokens[t]: the row of email_tokens for the raw token t
          nextToken,  \* raw tokens made so far
          send,       \* send[s]: where the goroutine is, and its locals
          req,        \* req[r]: where the request is, and its locals
          inbox,      \* inbox[e]: the links mailed to e
          redeemed,   \* history: how often each link was accepted (2: or more)
          jwts,       \* JWTs that have not expired
          keys,       \* keys[k]: the owner of API key k, 0 if it has no row
          usedKeys,   \* keys that were ever created
          faults, crashes

accountVars == <<users, nextUser>>
linkVars == <<tokens, nextToken, send, inbox>>
keyVars == <<keys, usedKeys>>
boundVars == <<faults, crashes>>
vars == <<users, nextUser, tokens, nextToken, send, req, inbox, redeemed, jwts,
          keys, usedKeys, faults, crashes>>

Users == 1..MaxUsers
Tokens == 1..MaxTokens
LinkTypes == {"email_verification", "password_reset"}

User == [state : {"none", "unverified", "verified", "deleted"},
         email : Emails \cup {NoEmail}, password : Tokens \cup {0}]
Token == [state : {"none", "live", "dead"}, user : Users \cup {0},
          type : LinkTypes]
Sender == [pc : {"idle", "lookup", "invalidate", "insert", "mail"},
           kind : {"register", "resend", "forgot"},
           email : Emails \cup {NoEmail}, user : Users \cup {0},
           token : Tokens \cup {0}]
Request == [pc : {"idle", "verify", "reset", "issuePair", "issueAccess",
                  "insertKey"},
            user : Users \cup {0}, token : Tokens \cup {0}]
Jwt == [user : Users, type : {"access", "refresh"}]

AccountsTypeOK ==
    /\ users \in [Users -> User]
    /\ nextUser \in 1..(MaxUsers + 1)
    /\ tokens \in [Tokens -> Token]
    /\ nextToken \in 1..(MaxTokens + 1)
    /\ send \in [Senders -> Sender]
    /\ req \in [Requests -> Request]
    /\ inbox \in [Emails -> SUBSET Tokens]
    /\ redeemed \in [Tokens -> 0..2]
    /\ jwts \subseteq Jwt
    /\ keys \in [KeyIds -> Users \cup {0}]
    /\ usedKeys \subseteq KeyIds
    /\ faults \in 0..MaxFaults
    /\ crashes \in 0..MaxCrashes

NoUser == [state |-> "none", email |-> NoEmail, password |-> 0]
NoToken == [state |-> "none", user |-> 0, type |-> "email_verification"]
NoSender == [pc |-> "idle", kind |-> "register", email |-> NoEmail, user |-> 0,
             token |-> 0]
NoRequest == [pc |-> "idle", user |-> 0, token |-> 0]

Init ==
    /\ users = [u \in Users |-> NoUser] /\ nextUser = 1
    /\ tokens = [t \in Tokens |-> NoToken] /\ nextToken = 1
    /\ send = [s \in Senders |-> NoSender]
    /\ req = [r \in Requests |-> NoRequest]
    /\ inbox = [e \in Emails |-> {}]
    /\ redeemed = [t \in Tokens |-> 0]
    /\ jwts = {}
    /\ keys = [k \in KeyIds |-> 0] /\ usedKeys = {}
    /\ faults = 0 /\ crashes = 0

-----------------------------------------------------------------------------
(***************************************************************************)
(* The repositories.                                                       *)
(***************************************************************************)
Exists(u) == users[u].state \in {"unverified", "verified"}

\* users.email is UNIQUE: at most one account answers.
GetUserByEmail(e) == {u \in Users : Exists(u) /\ users[u].email = e}

\* Mutant: a link is accepted whatever it was made for.
ConsumeAnyType(t, type) == tokens[t].state = "live"

\* Mutant: "AND used_at IS NULL" is dropped.
ConsumeAgain(t, type) == tokens[t].state # "none" /\ tokens[t].type = type

\* The condition under which the UPDATE of TokenRepo.Consume returns a row.
Consumable(t, type) == tokens[t].state = "live" /\ tokens[t].type = type

Consume(t, type) ==
    /\ Consumable(t, type)
    /\ tokens' = [tokens EXCEPT ![t].state = "dead"]
    /\ redeemed' = [redeemed EXCEPT ![t] = IF @ < 2 THEN @ + 1 ELSE @]

-----------------------------------------------------------------------------
(***************************************************************************)
(* Making a link.                                                          *)
(***************************************************************************)
Idle(s) == send[s].pc = "idle"

\* Bound: a goroutine is only started if a token is left for it.
TokenLeft ==
    nextToken + Cardinality({s \in Senders : send[s].pc = "lookup"}) <= MaxTokens

Spawn(s, kind, e) ==
    /\ Idle(s)
    /\ TokenLeft
    /\ send' = [send EXCEPT ![s] = [pc |-> "lookup", kind |-> kind, email |-> e,
                                    user |-> 0, token |-> 0]]
Ends(s) == send' = [send EXCEPT ![s] = NoSender]

\* A taken address makes the INSERT fail and changes nothing.
CreateUser(e) ==
    /\ nextUser <= MaxUsers
    /\ GetUserByEmail(e) = {}
    /\ users' = [users EXCEPT ![nextUser] =
                   [state |-> "unverified", email |-> e, password |-> 0]]
    /\ nextUser' = nextUser + 1

Register(s, e) ==
    /\ CreateUser(e)
    /\ Spawn(s, "register", e)
    /\ UNCHANGED <<tokens, nextToken, req, inbox, redeemed, jwts, keyVars, boundVars>>

ResendVerification(s, e) ==
    /\ Spawn(s, "resend", e)
    /\ UNCHANGED <<accountVars, tokens, nextToken, req, inbox, redeemed, jwts,
                   keyVars, boundVars>>

ForgotPassword(s, e) ==
    /\ Spawn(s, "forgot", e)
    /\ UNCHANGED <<accountVars, tokens, nextToken, req, inbox, redeemed, jwts,
                   keyVars, boundVars>>

LinkType(kind) ==
    IF kind = "forgot" THEN "password_reset" ELSE "email_verification"

\* Mutant: the condition is turned round.
WantedVerified(s, u) == users[u].state = "verified"

\* Who is sent a link: only a resend asks whether the address is unverified.
Wanted(s, u) == send[s].kind = "resend" => users[u].state = "unverified"

\* The goroutine reads the account by address and makes the raw token.
Lookup(s) ==
    /\ send[s].pc = "lookup"
    /\ \/ /\ \A u \in GetUserByEmail(send[s].email) : ~Wanted(s, u)
          /\ Ends(s)
          /\ UNCHANGED nextToken
       \/ \E u \in GetUserByEmail(send[s].email) :
             /\ Wanted(s, u)
             /\ send' = [send EXCEPT ![s].pc = "invalidate", ![s].user = u,
                                     ![s].token = nextToken]
             /\ nextToken' = nextToken + 1
    /\ UNCHANGED <<accountVars, tokens, req, inbox, redeemed, jwts, keyVars,
                   boundVars>>

\* Mutant: the older links are left alone.
InvalidateNothing(s) ==
    /\ send[s].pc = "invalidate"
    /\ send' = [send EXCEPT ![s].pc = "insert"]
    /\ UNCHANGED <<accountVars, tokens, nextToken, req, inbox, redeemed, jwts,
                   keyVars, boundVars>>

\* TokenRepo.Create, first statement: every unused link of the type.
InvalidateOld(s) ==
    /\ send[s].pc = "invalidate"
    /\ tokens' = [t \in Tokens |->
         IF /\ tokens[t].state = "live" /\ tokens[t].user = send[s].user
            /\ tokens[t].type = LinkType(send[s].kind)
         THEN [tokens[t] EXCEPT !.state = "dead"] ELSE tokens[t]]
    /\ send' = [send EXCEPT ![s].pc = "insert"]
    /\ UNCHANGED <<accountVars, nextToken, req, inbox, redeemed, jwts, keyVars,
                   boundVars>>

\* Second statement. The foreign key refuses it once the account is deleted.
InsertToken(s) ==
    /\ send[s].pc = "insert"
    /\ IF Exists(send[s].user)
         THEN /\ tokens' = [tokens EXCEPT ![send[s].token] =
                              [state |-> "live", user |-> send[s].user,
                               type |-> LinkType(send[s].kind)]]
              /\ send' = [send EXCEPT ![s].pc = "mail"]
         ELSE Ends(s) /\ UNCHANGED tokens
    /\ UNCHANGED <<accountVars, nextToken, req, inbox, redeemed, jwts, keyVars,
                   boundVars>>

\* The mail goes to the address the request named, which is the account's.
SendMail(s) ==
    /\ send[s].pc = "mail"
    /\ inbox' = [inbox EXCEPT ![send[s].email] = @ \cup {send[s].token}]
    /\ Ends(s)
    /\ UNCHANGED <<accountVars, tokens, nextToken, req, redeemed, jwts, keyVars,
                   boundVars>>

\* Mutant: a failing INSERT does not stop the mail.
AfterSendErrorAnyway(s) ==
    send' = [send EXCEPT ![s] =
      CASE @.pc = "invalidate" -> [@ EXCEPT !.pc = "insert"]
        [] @.pc = "insert" -> [@ EXCEPT !.pc = "mail"]
        [] OTHER -> NoSender]

\* The error of the first statement is dropped; any other ends the goroutine.
AfterSendError(s) ==
    send' = [send EXCEPT ![s] =
      IF @.pc = "invalidate" THEN [@ EXCEPT !.pc = "insert"] ELSE NoSender]

SendFails(s) ==
    /\ ~Idle(s)
    /\ faults < MaxFaults /\ faults' = faults + 1
    /\ AfterSendError(s)
    /\ UNCHANGED <<accountVars, tokens, nextToken, req, inbox, redeemed, jwts,
                   keyVars, crashes>>

-----------------------------------------------------------------------------
(***************************************************************************)
(* Redeeming a link. The raw token is known from the mail only.            *)
(***************************************************************************)
Mailed(t) == \E e \in Emails : t \in inbox[e]

Redeem(r, t, type, pc) ==
    /\ req[r].pc = "idle"
    /\ Mailed(t)
    /\ Consume(t, type)
    /\ req' = [req EXCEPT ![r] = [pc |-> pc, user |-> tokens[t].user, token |-> t]]
    /\ UNCHANGED <<accountVars, nextToken, send, inbox, jwts, keyVars, boundVars>>

VerifyEmail(r, t) == Redeem(r, t, "email_verification", "verify")
ResetPassword(r, t) == Redeem(r, t, "password_reset", "reset")

Finish(r) == req' = [req EXCEPT ![r] = NoRequest]

\* UPDATE users SET email_verified_at: no row if the account is gone by now.
MarkVerified(r) ==
    /\ req[r].pc = "verify"
    /\ users' = IF Exists(req[r].user)
                  THEN [users EXCEPT ![req[r].user].state = "verified"] ELSE users
    /\ Finish(r)
    /\ UNCHANGED <<nextUser, linkVars, redeemed, jwts, keyVars, boundVars>>

\* UPDATE users SET password_hash.
SetPassword(r) ==
    /\ req[r].pc = "reset"
    /\ users' = IF Exists(req[r].user)
                  THEN [users EXCEPT ![req[r].user].password = req[r].token]
                  ELSE users
    /\ Finish(r)
    /\ UNCHANGED <<nextUser, linkVars, redeemed, jwts, keyVars, boundVars>>

\* The second statement fails: the link is spent and nothing was changed.
RequestFails(r) ==
    /\ req[r].pc # "idle"
    /\ faults < MaxFaults /\ faults' = faults + 1
    /\ Finish(r)
    /\ UNCHANGED <<accountVars, linkVars, redeemed, jwts, keyVars, crashes>>

-----------------------------------------------------------------------------
(***************************************************************************)
(* Sessions and API keys.                                                  *)
(***************************************************************************)
Start(r, pc, u) ==
    /\ req[r].pc = "idle"
    /\ req' = [req EXCEPT ![r] = [pc |-> pc, user |-> u, token |-> 0]]

\* Mutant: the address is not required to be verified.
LoginUnverified(r, e, p) ==
    /\ \E u \in GetUserByEmail(e) : /\ users[u].password = p
                                   /\ Start(r, "issuePair", u)
    /\ UNCHANGED <<accountVars, linkVars, redeemed, jwts, keyVars, boundVars>>

\* Login reads the row once; the password is compared and the tokens are made
\* from what was read.
Login(r, e, p) ==
    /\ \E u \in GetUserByEmail(e) : /\ users[u].password = p
                                   /\ users[u].state = "verified"
                                   /\ Start(r, "issuePair", u)
    /\ UNCHANGED <<accountVars, linkVars, redeemed, jwts, keyVars, boundVars>>

\* A JWT that verifies and is of the type "refresh".
VerifyRefreshToken(u) == [user |-> u, type |-> "refresh"] \in jwts

\* Mutant: the account is taken from the token, not from the table.
RefreshWithoutLookup(r, u) ==
    /\ VerifyRefreshToken(u)
    /\ Start(r, "issueAccess", u)
    /\ UNCHANGED <<accountVars, linkVars, redeemed, jwts, keyVars, boundVars>>

RefreshToken(r, u) ==
    /\ VerifyRefreshToken(u)
    /\ Exists(u)
    /\ Start(r, "issueAccess", u)
    /\ UNCHANGED <<accountVars, linkVars, redeemed, jwts, keyVars, boundVars>>

\* Login answers with an access and a refresh token.
IssuePair(r) ==
    /\ req[r].pc = "issuePair"
    /\ jwts' = jwts \cup {[user |-> req[r].user, type |-> "access"],
                          [user |-> req[r].user, type |-> "refresh"]}
    /\ Finish(r)
    /\ UNCHANGED <<accountVars, linkVars, redeemed, keyVars, boundVars>>

IssueAccess(r) ==
    /\ req[r].pc = "issueAccess"
    /\ jwts' = jwts \cup {[user |-> req[r].user, type |-> "access"]}
    /\ Finish(r)
    /\ UNCHANGED <<accountVars, linkVars, redeemed, keyVars, boundVars>>

KeysOf(u) == {k \in KeyIds : keys[k] = u}

\* The middleware takes an API key that has a row, or a JWT that verifies; it
\* does not ask whether the account of a JWT still exists.
ResolveApiKey(u) == KeysOf(u) # {}
ResolveJWT(u) == \E j \in jwts : j.user = u
Authenticated(u) == ResolveApiKey(u) \/ ResolveJWT(u)

\* Mutant: the limit is off by one.
HasKeyRoomOffByOne(u) == Cardinality(KeysOf(u)) <= MaxApiKeysPerUser

HasKeyRoom(u) == Cardinality(KeysOf(u)) < MaxApiKeysPerUser

\* ApiKeyHandler.Create, up to the INSERT.
CountKeys(r, u) ==
    /\ Authenticated(u)
    /\ HasKeyRoom(u)
    /\ Start(r, "insertKey", u)
    /\ UNCHANGED <<accountVars, linkVars, redeemed, jwts, keyVars, boundVars>>

\* The error of the SELECT COUNT is dropped: count is 0, whatever the table holds.
CountKeysFails(r, u) ==
    /\ Authenticated(u)
    /\ faults < MaxFaults /\ faults' = faults + 1
    /\ Start(r, "insertKey", u)
    /\ UNCHANGED <<accountVars, linkVars, redeemed, jwts, keyVars, crashes>>

\* The foreign key refuses a key for a deleted account.
InsertKey(r) ==
    /\ req[r].pc = "insertKey"
    /\ Finish(r)
    /\ IF Exists(req[r].user)
         THEN \E k \in KeyIds \ usedKeys :
                 /\ keys' = [keys EXCEPT ![k] = req[r].user]
                 /\ usedKeys' = usedKeys \cup {k}
         ELSE UNCHANGED keyVars
    /\ UNCHANGED <<accountVars, linkVars, redeemed, jwts, boundVars>>

DeleteKey(k) ==
    /\ keys[k] # 0
    /\ Authenticated(keys[k])
    /\ keys' = [keys EXCEPT ![k] = 0]
    /\ UNCHANGED <<accountVars, linkVars, req, redeemed, jwts, usedKeys, boundVars>>

\* UserRepo.DeleteUserByID: email_tokens and api_keys are deleted by cascade.
DeleteUserByID(u) ==
    /\ Exists(u)
    /\ users' = [users EXCEPT ![u].state = "deleted"]
    /\ tokens' = [t \in Tokens |-> IF tokens[t].user = u
                    THEN [tokens[t] EXCEPT !.state = "dead"] ELSE tokens[t]]
    /\ keys' = [k \in KeyIds |-> IF keys[k] = u THEN 0 ELSE keys[k]]
    /\ UNCHANGED <<nextUser, nextToken, send, req, inbox, redeemed, jwts,
                   usedKeys, boundVars>>

DeleteUser(u) == Authenticated(u) /\ DeleteUserByID(u)
AdminDeleteUser(u) == DeleteUserByID(u)

-----------------------------------------------------------------------------
(***************************************************************************)
(* The environment.                                                        *)
(***************************************************************************)
\* expires_at passes: 24 hours for a verification, one hour for a reset.
LinkExpires(t) ==
    /\ tokens[t].state = "live"
    /\ tokens' = [tokens EXCEPT ![t].state = "dead"]
    /\ UNCHANGED <<accountVars, nextToken, send, req, inbox, redeemed, jwts,
                   keyVars, boundVars>>

JwtExpires(j) ==
    /\ jwts' = jwts \ {j}
    /\ UNCHANGED <<accountVars, linkVars, req, redeemed, keyVars, boundVars>>

\* Goroutines and requests are lost; rows, mails and JWTs are not.
ServerCrash ==
    /\ crashes < MaxCrashes /\ crashes' = crashes + 1
    /\ send' = [s \in Senders |-> NoSender]
    /\ req' = [r \in Requests |-> NoRequest]
    /\ UNCHANGED <<accountVars, tokens, nextToken, inbox, redeemed, jwts,
                   keyVars, faults>>

SenderStep(s) == Lookup(s) \/ InvalidateOld(s) \/ InsertToken(s) \/ SendMail(s)

Next ==
    \/ \E s \in Senders :
          \/ \E e \in Emails : \/ Register(s, e)
                               \/ ResendVerification(s, e)
                               \/ ForgotPassword(s, e)
          \/ SenderStep(s)
          \/ SendFails(s)
    \/ \E r \in Requests :
          \/ \E t \in Tokens : VerifyEmail(r, t) \/ ResetPassword(r, t)
          \/ MarkVerified(r)
          \/ SetPassword(r)
          \/ RequestFails(r)
          \/ \E e \in Emails, p \in Tokens \cup {0} : Login(r, e, p)
          \/ IssuePair(r)
          \/ IssueAccess(r)
          \/ \E u \in Users : \/ RefreshToken(r, u)
                              \/ CountKeys(r, u)
                              \/ CountKeysFails(r, u)
          \/ InsertKey(r)
    \/ \E u \in Users : DeleteUser(u) \/ AdminDeleteUser(u)
    \/ \E k \in KeyIds : DeleteKey(k)
    \/ \E t \in Tokens : LinkExpires(t)
    \/ \E j \in jwts : JwtExpires(j)
    \/ ServerCrash

Spec == Init /\ [][Next]_vars

\* A goroutine that was started runs on: it waits for nobody.
FairSpec == Spec /\ \A s \in Senders : WF_vars(SenderStep(s))

-----------------------------------------------------------------------------
(***************************************************************************)
(* Properties.                                                             *)
(***************************************************************************)
\* Two requests with the same link, at the same time or after a failure, are
\* not both accepted: the UPDATE of TokenRepo.Consume is the only gate.
RedeemedOnce == \A t \in Tokens : redeemed[t] <= 1

\* Links of account u that a request has had accepted.
Spent(u, type) == {t \in Tokens : /\ redeemed[t] > 0
                                  /\ tokens[t].user = u
                                  /\ tokens[t].type = type
                                  /\ t \in inbox[users[u].email]}

\* A verified address has received a verification link of its own account and
\* somebody has used it: neither a reset link, nor a link of an earlier account
\* with the same address, nor one sent elsewhere verifies an account.
VerifiedByMail ==
    \A u \in Users :
       users[u].state = "verified" => Spent(u, "email_verification") # {}

\* A password other than the one of the registration was set through a reset
\* link mailed to the address of that very account (ResetPassword).
PasswordByMail ==
    \A u \in Users : users[u].password # 0
                       => users[u].password \in Spent(u, "password_reset")

\* A JWT belongs to an account whose address was verified, also when it was
\* renewed by RefreshToken, which does not look at email_verified_at.
JwtOfVerified == \A j \in jwts : users[j.user].state \in {"verified", "deleted"}

Issuing(u) == {r \in Requests : /\ req[r].pc \in {"issuePair", "issueAccess"}
                                /\ req[r].user = u}
JwtsOf(u) == {j \in jwts : j.user = u}

\* Once an account is deleted no login and no refresh begins for it, although
\* its refresh token goes on verifying; only a request that had read the row
\* before may still answer with a JWT.
NoTokenAfterDeletion ==
    [][\A u \in Users : users[u].state = "deleted" =>
          /\ Issuing(u)' \subseteq Issuing(u)
          /\ Issuing(u)' = Issuing(u) => JwtsOf(u)' \subseteq JwtsOf(u)]_vars

\* A mailed link was stored before it was sent (TokenRepo.Create, then the
\* mail), for an account that has the address it was sent to.
MailedIsStored ==
    \A e \in Emails : \A t \in inbox[e] :
       /\ tokens[t].state # "none"
       /\ users[tokens[t].user].email = e

LiveLinks(u, type) == {t \in Tokens : /\ tokens[t].state = "live"
                                      /\ tokens[t].user = u
                                      /\ tokens[t].type = type}
Inserting(u, type) == {s \in Senders : /\ send[s].pc = "insert"
                                       /\ send[s].user = u
                                       /\ LinkType(send[s].kind) = type}

\* An account never has more live links of a type than goroutines make links at
\* the same time, and one more for each failing call: every Create invalidates
\* what was inserted before, so only overlapping ones, and those whose UPDATE
\* failed, leave several behind.
LinksBounded ==
    \A u \in Users, type \in LinkTypes :
       Cardinality(LiveLinks(u, type)) + Cardinality(Inserting(u, type))
          <= Cardinality(Senders) + faults

InsertingKey(u) == {r \in Requests : req[r].pc = "insertKey" /\ req[r].user = u}

\* maxApiKeysPerUser is checked before the INSERT and not by it: requests that
\* passed the check together overshoot it, by no more than their number less one,
\* and by one more for each count that fails and is taken for 0.
KeyOvershoot ==
    \A u \in Users :
       Cardinality(KeysOf(u)) + Cardinality(InsertingKey(u))
          <= MaxApiKeysPerUser - 1 + Cardinality(Requests) + faults

\* Unless a call fails or the server crashes, every account that is registered
\* is sent a verification link, if it is not deleted first or verified by
\* another one.
LinkIsSent ==
    \A u \in Users :
       users[u].state = "unverified" ~>
          \/ users[u].state # "unverified"
          \/ faults + crashes > 0
          \/ \E t \in inbox[users[u].email] :
                tokens[t].user = u /\ tokens[t].type = "email_verification"
=============================================================================

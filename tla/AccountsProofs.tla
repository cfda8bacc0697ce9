--------------------------- MODULE AccountsProofs ---------------------------
(***************************************************************************)
(* Proofs about Accounts: what a link, a password, a verified address and  *)
(* a JWT go back to, the overshoot of API keys and of live links, and what *)
(* a deleted account can still obtain, for any number of accounts, links,  *)
(* goroutines, requests, failures and crashes.                             *)
(***************************************************************************)
EXTENDS Accounts, FiniteSetTheorems, TLAPS

\* Senders that have read the account and made the raw token.
Making == {"invalidate", "insert", "mail"}
Looking == {s \in Senders : send[s].pc = "lookup"}

\* The bound on tokens counts the goroutines that will make one.
Reserved == nextToken + Cardinality(Looking) <= MaxTokens + 1

\* Ids are given in order; an account has an address; it is verified, and its
\* password changed, by links that were mailed to it and accepted.
UserOK(u) ==
    /\ u >= nextUser => users[u].state = "none"
    /\ users[u].state = "none" => users[u].password = 0
    /\ users[u].state # "none" => users[u].email \in Emails
    /\ users[u].state = "verified" => Spent(u, "email_verification") # {}
    /\ users[u].password # 0 => users[u].password \in Spent(u, "password_reset")

\* A stored link belongs to an account; an accepted one is used up.
TokenOK(t) ==
    /\ tokens[t].state = "none" => tokens[t].user = 0
    /\ tokens[t].state # "none" =>
          /\ tokens[t].user \in Users /\ users[tokens[t].user].state # "none"
          /\ t < nextToken
    /\ redeemed[t] <= 1
    /\ redeemed[t] > 0 => tokens[t].state = "dead"

\* A goroutine makes a link for the account that has the address it was given,
\* and mails it once it is stored.
SenderOK(q) ==
    /\ q.pc # "idle" => q.email \in Emails
    /\ q.pc \in Making =>
          /\ q.user \in Users /\ users[q.user].state # "none"
          /\ users[q.user].email = q.email
          /\ q.token \in Tokens /\ q.token < nextToken
    /\ q.pc \in {"invalidate", "insert"} => tokens[q.token].state = "none"
    /\ q.pc = "mail" => tokens[q.token].state # "none" /\ tokens[q.token].user = q.user

\* A request has had its link accepted, or read an account that was verified.
RequestOK(q) ==
    /\ q.pc # "idle" => q.user \in Users
    /\ q.pc = "verify" => q.token \in Spent(q.user, "email_verification")
    /\ q.pc = "reset" => q.token \in Spent(q.user, "password_reset")
    /\ q.pc \in {"verify", "reset"} => users[q.user].state # "none"
    /\ q.pc \in {"issuePair", "issueAccess"} =>
          users[q.user].state \in {"verified", "deleted"}

UserInv == \A u \in Users : UserOK(u)
TokenInv == \A t \in Tokens : TokenOK(t)
SenderInv == \A s \in Senders : SenderOK(send[s])
RequestInv == \A r \in Requests : RequestOK(req[r])

\* No two goroutines make the same link.
DistinctInv ==
    \A s, z \in Senders : send[s].pc \in Making /\ send[z].pc \in Making
                             /\ send[s].token = send[z].token => s = z

\* The inductive invariant of links and identities.
AInv == /\ AccountsTypeOK /\ Reserved /\ DistinctInv
        /\ UserInv /\ TokenInv /\ SenderInv /\ RequestInv
        /\ JwtOfVerified /\ MailedIsStored

-----------------------------------------------------------------------------
\* The bounds are numbers.
LEMMA Numbers == /\ MaxUsers \in Nat /\ MaxTokens \in Nat /\ MaxFaults \in Nat
                 /\ MaxCrashes \in Nat /\ MaxApiKeysPerUser \in Nat \ {0}
BY AccountsAssumption

\* The records that stand for nothing.
LEMMA Nothing ==
    /\ NoUser \in User /\ NoToken \in Token /\ NoSender \in Sender /\ NoRequest \in Request
    /\ NoSender.pc = "idle" /\ NoRequest.pc = "idle"
BY DEF NoUser, NoToken, NoSender, NoRequest, User, Token, Sender, Request, LinkTypes

LEMMA NothingOK == SenderOK(NoSender) /\ RequestOK(NoRequest)
BY Nothing DEF SenderOK, RequestOK, Making

\* What no step takes back.
UsersGrow ==
    \A u \in Users :
       /\ users[u].state # "none" => /\ users'[u].state # "none"
                                     /\ users'[u].email = users[u].email
       /\ users[u].state \in {"verified", "deleted"} =>
             users'[u].state \in {"verified", "deleted"}
TokensGrow ==
    \A t \in Tokens :
       /\ tokens[t].state # "none" =>
             /\ tokens'[t].state # "none"
             /\ tokens'[t].user = tokens[t].user /\ tokens'[t].type = tokens[t].type
       /\ redeemed[t] <= redeemed'[t]
Grows ==
    /\ UsersGrow /\ TokensGrow
    /\ nextUser <= nextUser' /\ nextToken <= nextToken'
    /\ \A e \in Emails : inbox[e] \subseteq inbox'[e]

\* An accepted link stays one.
LEMMA SpentGrows ==
    ASSUME AInv, AccountsTypeOK', Grows, NEW u \in Users, users[u].state # "none",
           NEW type
    PROVE  Spent(u, type) \subseteq Spent(u, type)'
<1> SUFFICES ASSUME NEW t \in Spent(u, type) PROVE t \in Spent(u, type)'
  OBVIOUS
<1>1. /\ t \in Tokens /\ redeemed[t] > 0 /\ tokens[t].user = u /\ tokens[t].type = type
      /\ t \in inbox[users[u].email]
  BY DEF Spent
<1>2. tokens[t].state # "none" /\ users[u].email \in Emails
  BY <1>1 DEF AInv, TokenInv, TokenOK, UserInv, UserOK
<1>3. /\ tokens'[t].user = u /\ tokens'[t].type = type
      /\ users'[u].email = users[u].email /\ t \in inbox'[users'[u].email]
  BY <1>1, <1>2 DEF Grows, UsersGrow, TokensGrow
<1>4. redeemed'[t] > 0
  <2>1. redeemed[t] \in 0..2 /\ redeemed'[t] \in 0..2 /\ redeemed[t] <= redeemed'[t]
    BY <1>1 DEF AInv, AccountsTypeOK, Grows, TokensGrow
  <2>2. QED
    BY <1>1, <2>1
<1>5. QED
  BY <1>1, <1>3, <1>4 DEF Spent

\* A step keeps the invariant if what it changes satisfies it.
LEMMA Frame ==
    ASSUME AInv, AccountsTypeOK', Reserved', DistinctInv', Grows,
           \A u \in Users : users'[u] # users[u] \/ u = nextUser => UserOK(u)',
           \A t \in Tokens : tokens'[t] # tokens[t] \/ redeemed'[t] # redeemed[t]
                                => TokenOK(t)',
           \A s \in Senders : send'[s] # send[s] => SenderOK(send[s])',
           \A s \in Senders : send'[s] = send[s] /\ send[s].pc \in {"invalidate", "insert"}
                                => tokens'[send[s].token].state = "none",
           \A r \in Requests : req'[r] # req[r] => RequestOK(req[r])',
           nextUser' \in {nextUser, nextUser + 1},
           \A j \in jwts' : j \in jwts \/ users[j.user].state \in {"verified", "deleted"},
           \A e \in Emails : \A t \in inbox'[e] :
              t \in inbox[e] \/ (tokens[t].state # "none" /\ users[tokens[t].user].email = e)
    PROVE  AInv'
<1> USE DEF Grows, UsersGrow, TokensGrow
<1>1. UserInv'
  <2> SUFFICES ASSUME NEW u \in Users PROVE UserOK(u)'
    BY DEF UserInv
  <2>1. CASE users'[u] # users[u] \/ u = nextUser
    BY <2>1
  <2>2. CASE users'[u] = users[u] /\ u # nextUser
    <3>1. UserOK(u)
      BY DEF AInv, UserInv
    <3>2. u >= nextUser' => u >= nextUser
      BY <2>2, Numbers DEF AInv, AccountsTypeOK, Users
    <3>3. users[u].state # "none" =>
            /\ Spent(u, "email_verification") \subseteq Spent(u, "email_verification")'
            /\ Spent(u, "password_reset") \subseteq Spent(u, "password_reset")'
      BY SpentGrows
    <3>4. QED
      BY <2>2, <3>1, <3>2, <3>3 DEF UserOK
  <2>3. QED
    BY <2>1, <2>2
<1>2. TokenInv'
  <2> SUFFICES ASSUME NEW t \in Tokens PROVE TokenOK(t)'
    BY DEF TokenInv
  <2>1. CASE tokens'[t] # tokens[t] \/ redeemed'[t] # redeemed[t]
    BY <2>1
  <2>2. CASE tokens'[t] = tokens[t] /\ redeemed'[t] = redeemed[t]
    <3>1. TokenOK(t)
      BY DEF AInv, TokenInv
    <3>2. t < nextToken => t < nextToken'
      BY Numbers DEF AInv, AccountsTypeOK, Tokens
    <3>3. QED
      BY <2>2, <3>1, <3>2 DEF TokenOK
  <2>3. QED
    BY <2>1, <2>2
<1>3. SenderInv'
  <2> SUFFICES ASSUME NEW s \in Senders PROVE SenderOK(send[s])'
    BY DEF SenderInv
  <2>1. CASE send'[s] # send[s]
    BY <2>1
  <2>2. CASE send'[s] = send[s]
    <3>1. PICK q : q = send[s]
      OBVIOUS
    <3>2. SenderOK(q) /\ send'[s] = q
      BY <2>2, <3>1 DEF AInv, SenderInv
    <3>3. q.pc \in Making =>
            /\ q.user \in Users /\ users'[q.user].state # "none"
            /\ users'[q.user].email = q.email
            /\ q.token \in Tokens /\ q.token < nextToken'
      <4>1. q.token \in Tokens /\ q.token < nextToken => q.token < nextToken'
        BY Numbers DEF AInv, AccountsTypeOK, Tokens
      <4>2. QED
        BY <3>2, <4>1 DEF SenderOK
    <3>4. q.pc \in {"invalidate", "insert"} => tokens'[q.token].state = "none"
      BY <2>2, <3>1
    <3>5. q.pc = "mail" => tokens'[q.token].state # "none" /\ tokens'[q.token].user = q.user
      BY <3>2 DEF SenderOK, Making
    <3>6. QED
      BY <3>2, <3>3, <3>4, <3>5 DEF SenderOK
  <2>3. QED
    BY <2>1, <2>2
<1>4. RequestInv'
  <2> SUFFICES ASSUME NEW r \in Requests PROVE RequestOK(req[r])'
    BY DEF RequestInv
  <2>1. CASE req'[r] # req[r]
    BY <2>1
  <2>2. CASE req'[r] = req[r]
    <3>1. PICK q : q = req[r]
      OBVIOUS
    <3>2. RequestOK(q) /\ req'[r] = q
      BY <2>2, <3>1 DEF AInv, RequestInv
    <3>3. q.pc \in {"verify", "reset"} =>
            /\ users'[q.user].state # "none"
            /\ Spent(q.user, "email_verification") \subseteq Spent(q.user, "email_verification")'
            /\ Spent(q.user, "password_reset") \subseteq Spent(q.user, "password_reset")'
      BY <3>2, SpentGrows DEF RequestOK
    <3>4. q.pc \in {"issuePair", "issueAccess"} =>
            users'[q.user].state \in {"verified", "deleted"}
      BY <3>2 DEF RequestOK
    <3>5. QED
      BY <3>2, <3>3, <3>4 DEF RequestOK
  <2>3. QED
    BY <2>1, <2>2
<1>5. JwtOfVerified'
  <2>1. \A j \in jwts' : j.user \in Users
    BY DEF AccountsTypeOK, Jwt
  <2>2. QED
    BY <2>1 DEF AInv, JwtOfVerified
<1>6. MailedIsStored'
  <2> SUFFICES ASSUME NEW e \in Emails, NEW t \in inbox'[e]
               PROVE  tokens'[t].state # "none" /\ users'[tokens'[t].user].email = e
    BY DEF MailedIsStored
  <2>1. t \in Tokens
    BY DEF AccountsTypeOK
  <2>2. tokens[t].state # "none" /\ users[tokens[t].user].email = e
    BY DEF AInv, MailedIsStored
  <2>3. tokens[t].user \in Users /\ users[tokens[t].user].state # "none"
    BY <2>1, <2>2 DEF AInv, TokenInv, TokenOK
  <2>4. QED
    BY <2>1, <2>2, <2>3
<1>7. QED
  BY <1>1, <1>2, <1>3, <1>4, <1>5, <1>6 DEF AInv

-----------------------------------------------------------------------------
\* Steps of a request.

\* A step of one request that leaves accounts and links alone.
LEMMA RequestStep ==
    ASSUME AInv, NEW r \in Requests, NEW q \in Request, RequestOK(q),
           req' = [req EXCEPT ![r] = q],
           UNCHANGED <<accountVars, linkVars, redeemed>>,
           jwts' \subseteq Jwt, keys' \in [KeyIds -> Users \cup {0}],
           usedKeys' \subseteq KeyIds, faults' \in 0..MaxFaults, crashes' \in 0..MaxCrashes,
           \A j \in jwts' : j \in jwts \/ users[j.user].state \in {"verified", "deleted"}
    PROVE  AInv'
<1>1. UNCHANGED <<users, nextUser, tokens, nextToken, send, inbox, redeemed>>
  BY DEF accountVars, linkVars
<1>2. AccountsTypeOK'
  BY <1>1 DEF AInv, AccountsTypeOK
<1>3. Reserved' /\ DistinctInv'
  BY <1>1 DEF AInv, Reserved, DistinctInv, Looking
<1>4. nextUser \in Nat /\ nextToken \in Nat /\ \A t \in Tokens : redeemed[t] \in Nat
  BY Numbers DEF AInv, AccountsTypeOK
<1>5. Grows
  BY <1>1, <1>4 DEF Grows, UsersGrow, TokensGrow
<1>6. \A u \in Users : UserOK(u)'
  BY <1>1 DEF AInv, UserInv, UserOK, Spent
<1>7. ASSUME NEW z \in Requests, req'[z] # req[z] PROVE RequestOK(req[z])'
  <2>1. req'[z] = q
    BY <1>7 DEF AInv, AccountsTypeOK
  <2>2. QED
    BY <1>1, <2>1 DEF RequestOK, Spent
<1>8. \A z \in Senders : send[z].pc \in {"invalidate", "insert"}
                            => tokens'[send[z].token].state = "none"
  BY <1>1 DEF AInv, SenderInv, SenderOK
<1>9. QED
  BY <1>1, <1>2, <1>3, <1>5, <1>6, <1>7, <1>8, Frame

\* The request that an action works on.
LEMMA TheRequest ==
    ASSUME AInv, NEW r \in Requests
    PROVE  req[r] \in Request /\ RequestOK(req[r])
BY DEF AInv, AccountsTypeOK, RequestInv

\* A request that only begins or ends.
LEMMA QuietRequest ==
    ASSUME AInv, NEW r \in Requests, NEW q \in Request, RequestOK(q),
           req' = [req EXCEPT ![r] = q],
           UNCHANGED <<accountVars, linkVars, redeemed, jwts, keyVars, crashes>>,
           faults' \in 0..MaxFaults
    PROVE  AInv'
<1>1. /\ jwts' \subseteq Jwt /\ keys' \in [KeyIds -> Users \cup {0}]
      /\ usedKeys' \subseteq KeyIds /\ crashes' \in 0..MaxCrashes /\ jwts' = jwts
  BY DEF AInv, AccountsTypeOK, keyVars
<1>2. UNCHANGED <<accountVars, linkVars, redeemed>>
  OBVIOUS
<1>3. QED
  BY <1>1, <1>2, RequestStep

LEMMA FaultCounted ==
    ASSUME AInv, faults < MaxFaults, faults' = faults + 1
    PROVE  faults' \in 0..MaxFaults
BY Numbers DEF AInv, AccountsTypeOK

LEMMA RequestFailsAInv ==
    ASSUME AInv, NEW r \in Requests, RequestFails(r)
    PROVE  AInv'
BY Nothing, NothingOK, FaultCounted, QuietRequest DEF RequestFails, Finish

\* The record of a request that begins.
LEMMA Started ==
    ASSUME AInv, NEW r \in Requests, NEW u \in Users,
           NEW pc \in {"issuePair", "issueAccess", "insertKey"}, Start(r, pc, u),
           pc \in {"issuePair", "issueAccess"} => users[u].state \in {"verified", "deleted"}
    PROVE  \E q \in Request : /\ RequestOK(q) /\ q.pc = pc /\ q.user = u
                              /\ req[r].pc = "idle"
                              /\ req' = [req EXCEPT ![r] = q]
<1> DEFINE q == [pc |-> pc, user |-> u, token |-> 0]
<1>1. q \in Request /\ q.pc = pc /\ q.user = u
  BY DEF Request
<1>2. RequestOK(q)
  BY <1>1 DEF RequestOK
<1>3. req' = [req EXCEPT ![r] = q] /\ req[r].pc = "idle"
  BY DEF Start
<1>4. QED
  BY <1>1, <1>2, <1>3

LEMMA LoginAInv ==
    ASSUME AInv, NEW r \in Requests, NEW e \in Emails, NEW p \in Tokens \cup {0},
           Login(r, e, p)
    PROVE  AInv'
<1>1. PICK u \in GetUserByEmail(e) : users[u].state = "verified" /\ Start(r, "issuePair", u)
  BY DEF Login
<1>2. u \in Users
  BY DEF GetUserByEmail
<1>3. PICK q \in Request : RequestOK(q) /\ req' = [req EXCEPT ![r] = q]
  BY <1>1, <1>2, Started
<1>4. UNCHANGED <<accountVars, linkVars, redeemed, jwts, keyVars, crashes>>
      /\ faults' \in 0..MaxFaults
  BY DEF Login, boundVars, AInv, AccountsTypeOK
<1>5. QED
  BY <1>3, <1>4, QuietRequest

LEMMA RefreshAInv ==
    ASSUME AInv, NEW r \in Requests, NEW u \in Users, RefreshToken(r, u)
    PROVE  AInv'
<1>1. users[u].state = "verified"
  <2>1. PICK j \in jwts : j.user = u
    BY DEF RefreshToken, VerifyRefreshToken
  <2>2. QED
    BY <2>1 DEF AInv, JwtOfVerified, RefreshToken, Exists
<1>2. PICK q \in Request : RequestOK(q) /\ req' = [req EXCEPT ![r] = q]
  BY <1>1, Started DEF RefreshToken
<1>3. UNCHANGED <<accountVars, linkVars, redeemed, jwts, keyVars, crashes>>
      /\ faults' \in 0..MaxFaults
  BY DEF RefreshToken, boundVars, AInv, AccountsTypeOK
<1>4. QED
  BY <1>2, <1>3, QuietRequest

LEMMA CountAInv ==
    ASSUME AInv, NEW r \in Requests, NEW u \in Users,
           CountKeys(r, u) \/ CountKeysFails(r, u)
    PROVE  AInv'
<1>1. PICK q \in Request : RequestOK(q) /\ req' = [req EXCEPT ![r] = q]
  BY Started DEF CountKeys, CountKeysFails
<1>2. UNCHANGED <<accountVars, linkVars, redeemed, jwts, keyVars, crashes>>
  BY DEF CountKeys, CountKeysFails, boundVars
<1>3. faults' \in 0..MaxFaults
  BY FaultCounted DEF CountKeys, CountKeysFails, boundVars, AInv, AccountsTypeOK
<1>4. QED
  BY <1>1, <1>2, <1>3, QuietRequest

LEMMA IssueAInv ==
    ASSUME AInv, NEW r \in Requests, IssuePair(r) \/ IssueAccess(r)
    PROVE  AInv'
<1>1. /\ req[r].user \in Users /\ users[req[r].user].state \in {"verified", "deleted"}
  BY TheRequest DEF RequestOK, IssuePair, IssueAccess
<1>2. \A j \in jwts' \ jwts : j \in Jwt /\ j.user = req[r].user
  BY <1>1 DEF IssuePair, IssueAccess, Jwt
<1>3. /\ UNCHANGED <<accountVars, linkVars, redeemed>> /\ UNCHANGED <<keyVars, boundVars>>
      /\ req' = [req EXCEPT ![r] = NoRequest]
  BY DEF IssuePair, IssueAccess, Finish
<1>4. /\ jwts' \subseteq Jwt /\ keys' \in [KeyIds -> Users \cup {0}]
      /\ usedKeys' \subseteq KeyIds /\ faults' \in 0..MaxFaults /\ crashes' \in 0..MaxCrashes
      /\ \A j \in jwts' : j \in jwts \/ users[j.user].state \in {"verified", "deleted"}
  BY <1>1, <1>2, <1>3 DEF AInv, AccountsTypeOK, keyVars, boundVars
<1>5. QED
  BY <1>3, <1>4, Nothing, NothingOK, RequestStep

LEMMA InsertKeyAInv ==
    ASSUME AInv, NEW r \in Requests, InsertKey(r)
    PROVE  AInv'
<1>1. req[r].user \in Users
  BY TheRequest DEF RequestOK, InsertKey
<1>2. keys' \in [KeyIds -> Users \cup {0}] /\ usedKeys' \subseteq KeyIds
  BY <1>1 DEF InsertKey, keyVars, AInv, AccountsTypeOK
<1>3. /\ UNCHANGED <<accountVars, linkVars, redeemed>> /\ UNCHANGED <<jwts, boundVars>>
      /\ req' = [req EXCEPT ![r] = NoRequest]
  BY DEF InsertKey, Finish
<1>4. /\ jwts' \subseteq Jwt /\ faults' \in 0..MaxFaults /\ crashes' \in 0..MaxCrashes
      /\ \A j \in jwts' : j \in jwts
  BY <1>3 DEF AInv, AccountsTypeOK, boundVars
<1>5. QED
  BY <1>2, <1>3, <1>4, Nothing, NothingOK, RequestStep

-----------------------------------------------------------------------------
\* Links that are used up, and what they change.

\* A link is used up or expires, or all links of a deleted account go; nothing
\* is stored and no goroutine moves.
LEMMA LinkStep ==
    ASSUME AInv, AccountsTypeOK',
           UNCHANGED <<nextUser, nextToken, send, inbox>>, jwts' \subseteq jwts,
           UsersGrow, TokensGrow,
           \A u \in Users : users'[u] # users[u] => UserOK(u)',
           \A t \in Tokens : tokens'[t] # tokens[t] \/ redeemed'[t] # redeemed[t]
                                => TokenOK(t)',
           \A t \in Tokens : tokens[t].state = "none" => tokens'[t].state = "none",
           \A r \in Requests : req'[r] # req[r] => RequestOK(req[r])'
    PROVE  AInv'
<1>1. Reserved' /\ DistinctInv'
  BY DEF AInv, Reserved, DistinctInv, Looking
<1>2. nextUser \in Nat /\ nextToken \in Nat
  BY Numbers DEF AInv, AccountsTypeOK
<1>3. Grows
  BY <1>2 DEF Grows
<1>4. \A s \in Senders : send[s].pc \in {"invalidate", "insert"}
                            => tokens'[send[s].token].state = "none"
  BY DEF AInv, SenderInv, SenderOK, Making
<1>5. ASSUME NEW u \in Users, users'[u] # users[u] \/ u = nextUser PROVE UserOK(u)'
  <2>1. CASE users'[u] # users[u]
    BY <2>1
  <2>2. CASE users'[u] = users[u]
    <3>1. UserOK(u) /\ u = nextUser /\ u \in Nat
      BY <1>2, <1>5, <2>2 DEF AInv, UserInv
    <3>2. users[u].state = "none" /\ users[u].password = 0
      BY <3>1 DEF UserOK
    <3>3. QED
      BY <2>2, <3>2 DEF UserOK
  <2>3. QED
    BY <2>1, <2>2
<1>6. QED
  BY <1>1, <1>3, <1>4, <1>5, Frame

\* The condition of Consume makes its link a spent one.
LEMMA RedeemAInv ==
    ASSUME AInv, NEW r \in Requests, NEW t \in Tokens,
           VerifyEmail(r, t) \/ ResetPassword(r, t)
    PROVE  AInv'
<1>1. PICK type \in LinkTypes, pc \in {"verify", "reset"} :
          /\ Redeem(r, t, type, pc)
          /\ (pc = "verify" => type = "email_verification")
          /\ (pc = "reset" => type = "password_reset")
  BY DEF VerifyEmail, ResetPassword, LinkTypes
<1> DEFINE u == tokens[t].user
           q == [pc |-> pc, user |-> u, token |-> t]
<1>2. /\ tokens[t].state = "live" /\ tokens[t].type = type /\ Mailed(t)
      /\ tokens' = [tokens EXCEPT ![t].state = "dead"]
      /\ redeemed' = [redeemed EXCEPT ![t] = IF @ < 2 THEN @ + 1 ELSE @]
      /\ req' = [req EXCEPT ![r] = q]
      /\ UNCHANGED <<users, nextUser, nextToken, send, inbox, jwts, keys, usedKeys,
                     faults, crashes>>
  BY <1>1 DEF Redeem, Consume, Consumable, accountVars, keyVars, boundVars
<1>3. tokens[t] \in Token /\ redeemed[t] \in 0..2 /\ TokenOK(t)
  BY DEF AInv, AccountsTypeOK, TokenInv
<1>4. u \in Users /\ users[u].state # "none" /\ redeemed[t] = 0
  BY <1>2, <1>3 DEF TokenOK
<1>5. /\ tokens'[t].state = "dead" /\ tokens'[t].user = u /\ tokens'[t].type = type
      /\ redeemed'[t] = 1
      /\ \A x \in Tokens : x # t => tokens'[x] = tokens[x] /\ redeemed'[x] = redeemed[x]
  BY <1>2, <1>3, <1>4 DEF AInv, AccountsTypeOK, Token
<1>6. t \in inbox[users[u].email]
  BY <1>2 DEF Mailed, AInv, MailedIsStored
<1>7. q \in Request /\ q.pc = pc /\ q.user = u /\ q.token = t
  BY <1>4 DEF Request
<1>8. AccountsTypeOK'
  <2>1. tokens' \in [Tokens -> Token] /\ redeemed' \in [Tokens -> 0..2]
    BY <1>2 DEF AInv, AccountsTypeOK, Token
  <2>2. req' \in [Requests -> Request]
    BY <1>2, <1>7 DEF AInv, AccountsTypeOK
  <2>3. QED
    BY <1>2, <2>1, <2>2 DEF AInv, AccountsTypeOK
<1>9. UsersGrow /\ TokensGrow
  <2>1. \A x \in Tokens : redeemed[x] \in 0..2
    BY DEF AInv, AccountsTypeOK
  <2>2. QED
    BY <1>2, <1>4, <1>5, <2>1 DEF UsersGrow, TokensGrow
<1>10. TokenOK(t)'
  BY <1>2, <1>3, <1>4, <1>5 DEF TokenOK
<1>11. RequestOK(req[r])'
  <2>1. PICK p : p = q
    OBVIOUS
  <2>2. PICK x : x = u
    OBVIOUS
  <2>3. req'[r] = p /\ p.pc = pc /\ p.user = x /\ p.token = t
    BY <1>2, <1>7, <2>1, <2>2 DEF AInv, AccountsTypeOK
  <2>4. t \in Spent(x, type)' /\ x \in Users /\ users'[x].state # "none"
    BY <1>2, <1>4, <1>5, <1>6, <2>2 DEF Spent
  <2>5. QED
    BY <1>1, <2>3, <2>4 DEF RequestOK
<1>12. \A z \in Requests : req'[z] # req[z] => z = r
  BY <1>2 DEF AInv, AccountsTypeOK
<1>13. /\ \A x \in Users : users'[x] # users[x] => UserOK(x)'
       /\ \A x \in Tokens : tokens'[x] # tokens[x] \/ redeemed'[x] # redeemed[x]
                                => TokenOK(x)'
       /\ \A x \in Tokens : tokens[x].state = "none" => tokens'[x].state = "none"
       /\ \A z \in Requests : req'[z] # req[z] => RequestOK(req[z])'
  BY <1>2, <1>5, <1>10, <1>11, <1>12
<1>14. jwts' \subseteq jwts /\ UNCHANGED <<nextUser, nextToken, send, inbox>>
  BY <1>2
<1>15. QED
  BY <1>8, <1>9, <1>13, <1>14, LinkStep

\* The request that has had a link accepted changes the account.
LEMMA AccountStep ==
    ASSUME AInv, NEW r \in Requests, NEW u \in Users, NEW v \in User,
           users[u].state # "none", users' = [users EXCEPT ![u] = v],
           v.email = users[u].email, v.state # "none",
           users[u].state \in {"verified", "deleted"} => v.state \in {"verified", "deleted"},
           v.state = "verified" => Spent(u, "email_verification") # {},
           v.password # 0 => v.password \in Spent(u, "password_reset"),
           req' = [req EXCEPT ![r] = NoRequest],
           UNCHANGED <<nextUser, linkVars, redeemed, jwts, keyVars, boundVars>>
    PROVE  AInv'
<1>1. UNCHANGED <<nextUser, tokens, nextToken, send, inbox, redeemed, jwts, keys, usedKeys,
                  faults, crashes>>
  BY DEF linkVars, keyVars, boundVars
<1>2. AccountsTypeOK'
  <2>1. users' \in [Users -> User] /\ req' \in [Requests -> Request]
    BY Nothing DEF AInv, AccountsTypeOK
  <2>2. QED
    BY <1>1, <2>1 DEF AInv, AccountsTypeOK
<1>3. users'[u] = v /\ \A x \in Users : x # u => users'[x] = users[x]
  BY DEF AInv, AccountsTypeOK
<1>4. UsersGrow
  BY <1>3 DEF UsersGrow
<1>5. TokensGrow
  <2>1. \A x \in Tokens : redeemed[x] \in 0..2
    BY DEF AInv, AccountsTypeOK
  <2>2. QED
    BY <1>1, <2>1 DEF TokensGrow
<1>6. UserOK(u)'
  <2>1. /\ Spent(u, "email_verification")' = Spent(u, "email_verification")
        /\ Spent(u, "password_reset")' = Spent(u, "password_reset")
    BY <1>1, <1>3 DEF Spent
  <2>2. UserOK(u)
    BY DEF AInv, UserInv
  <2>3. QED
    BY <1>1, <1>3, <2>1, <2>2 DEF UserOK
<1>7. RequestOK(req[r])' /\ \A z \in Requests : req'[z] # req[z] => z = r
  BY Nothing DEF AInv, AccountsTypeOK, RequestOK
<1>8. /\ \A x \in Users : users'[x] # users[x] => UserOK(x)'
      /\ \A z \in Requests : req'[z] # req[z] => RequestOK(req[z])'
  BY <1>3, <1>6, <1>7
<1>9. QED
  BY <1>1, <1>2, <1>4, <1>5, <1>8, LinkStep

LEMMA FinishAInv ==
    ASSUME AInv, NEW r \in Requests, MarkVerified(r) \/ SetPassword(r)
    PROVE  AInv'
<1> DEFINE u == req[r].user
<1>1. /\ req' = [req EXCEPT ![r] = NoRequest] /\ req[r].pc \in {"verify", "reset"}
      /\ UNCHANGED <<nextUser, linkVars, redeemed, jwts, keyVars, boundVars>>
  BY DEF MarkVerified, SetPassword, Finish
<1>2. /\ RequestOK(req[r]) /\ req[r] \in Request /\ u \in Users /\ users[u] \in User
      /\ users[u].state # "none" /\ UserOK(u)
  BY <1>1, TheRequest DEF RequestOK, AInv, AccountsTypeOK, UserInv
<1>3. CASE ~Exists(u)
  <2>1. users' = users
    BY <1>3 DEF MarkVerified, SetPassword
  <2>2. /\ UNCHANGED <<accountVars, linkVars, redeemed, jwts, keyVars, crashes>>
        /\ faults' \in 0..MaxFaults
    BY <1>1, <2>1 DEF accountVars, boundVars, AInv, AccountsTypeOK
  <2>3. QED
    BY <1>1, <2>2, Nothing, NothingOK, QuietRequest
<1>4. CASE Exists(u) /\ MarkVerified(r)
  <2> DEFINE v == [users[u] EXCEPT !.state = "verified"]
  <2>1. /\ v \in User /\ v.state = "verified" /\ v.email = users[u].email
        /\ v.password = users[u].password
    BY <1>2 DEF User
  <2>2. users' = [users EXCEPT ![u] = v]
    BY <1>4 DEF MarkVerified
  <2>3. Spent(u, "email_verification") # {}
    BY <1>2, <1>4 DEF MarkVerified, RequestOK
  <2>4. users[u].password # 0 => users[u].password \in Spent(u, "password_reset")
    BY <1>2 DEF UserOK
  <2>5. QED
    BY <1>1, <1>2, <2>1, <2>2, <2>3, <2>4, AccountStep
<1>5. CASE Exists(u) /\ SetPassword(r)
  <2> DEFINE v == [users[u] EXCEPT !.password = req[r].token]
  <2>1. req[r].token \in Spent(u, "password_reset")
    BY <1>2, <1>5 DEF SetPassword, RequestOK
  <2>2. /\ v \in User /\ v.state = users[u].state /\ v.email = users[u].email
        /\ v.password = req[r].token
    BY <1>2 DEF User, Request
  <2>3. users' = [users EXCEPT ![u] = v]
    BY <1>5 DEF SetPassword
  <2>4. users[u].state = "verified" => Spent(u, "email_verification") # {}
    BY <1>2 DEF UserOK
  <2>5. QED
    BY <1>1, <1>2, <2>1, <2>2, <2>3, <2>4, AccountStep
<1>6. QED
  BY <1>3, <1>4, <1>5

LEMMA ExpiresAInv ==
    ASSUME AInv, NEW t \in Tokens, LinkExpires(t)
    PROVE  AInv'
<1>1. /\ tokens[t].state = "live" /\ tokens' = [tokens EXCEPT ![t].state = "dead"]
      /\ UNCHANGED <<users, nextUser, nextToken, send, req, inbox, redeemed, jwts, keys,
                     usedKeys, faults, crashes>>
  BY DEF LinkExpires, accountVars, keyVars, boundVars
<1>2. tokens[t] \in Token /\ TokenOK(t)
  BY DEF AInv, AccountsTypeOK, TokenInv
<1>3. /\ tokens'[t].state = "dead" /\ tokens'[t].user = tokens[t].user
      /\ tokens'[t].type = tokens[t].type
      /\ \A x \in Tokens : x # t => tokens'[x] = tokens[x]
  BY <1>1, <1>2 DEF AInv, AccountsTypeOK, Token
<1>4. AccountsTypeOK'
  <2>1. tokens' \in [Tokens -> Token]
    BY <1>1 DEF AInv, AccountsTypeOK, Token
  <2>2. QED
    BY <1>1, <2>1 DEF AInv, AccountsTypeOK
<1>5. UsersGrow /\ TokensGrow
  <2>1. \A x \in Tokens : redeemed[x] \in 0..2
    BY DEF AInv, AccountsTypeOK
  <2>2. QED
    BY <1>1, <1>3, <2>1 DEF UsersGrow, TokensGrow
<1>6. TokenOK(t)'
  BY <1>1, <1>2, <1>3 DEF TokenOK
<1>7. QED
  BY <1>1, <1>3, <1>4, <1>5, <1>6, LinkStep

\* The deletion of an account takes its links and keys.
LEMMA DeleteAInv ==
    ASSUME AInv, NEW u \in Users, DeleteUserByID(u)
    PROVE  AInv'
<1>1. /\ Exists(u) /\ users' = [users EXCEPT ![u].state = "deleted"]
      /\ UNCHANGED <<nextUser, nextToken, send, req, inbox, redeemed, jwts,
                     usedKeys, faults, crashes>>
  BY DEF DeleteUserByID, boundVars
<1>2. \A t \in Tokens : /\ tokens[t].user = u => tokens'[t] = [tokens[t] EXCEPT !.state = "dead"]
                        /\ tokens[t].user # u => tokens'[t] = tokens[t]
  BY DEF DeleteUserByID
<1>3. /\ users'[u].state = "deleted" /\ users'[u].email = users[u].email
      /\ users'[u].password = users[u].password
      /\ \A x \in Users : x # u => users'[x] = users[x]
  BY <1>1 DEF AInv, AccountsTypeOK, User
<1>4. \A t \in Tokens : /\ tokens'[t].user = tokens[t].user /\ tokens'[t].type = tokens[t].type
                        /\ tokens'[t] = tokens[t] \/ tokens'[t].state = "dead"
                        /\ tokens'[t] = tokens[t] \/ tokens[t].state # "none"
  <2> SUFFICES ASSUME NEW t \in Tokens
               PROVE  /\ tokens'[t].user = tokens[t].user /\ tokens'[t].type = tokens[t].type
                      /\ tokens'[t] = tokens[t] \/ tokens'[t].state = "dead"
                      /\ tokens'[t] = tokens[t] \/ tokens[t].state # "none"
    OBVIOUS
  <2>1. tokens[t] \in Token /\ TokenOK(t) /\ u # 0
    BY Numbers DEF AInv, AccountsTypeOK, TokenInv, Users
  <2>2. QED
    BY <1>2, <2>1 DEF TokenOK, Token
<1>5. AccountsTypeOK'
  <2>1. users' \in [Users -> User]
    BY <1>1 DEF AInv, AccountsTypeOK, User
  <2>2. tokens' \in [Tokens -> Token]
    BY DEF DeleteUserByID, AInv, AccountsTypeOK, Token
  <2>3. keys' \in [KeyIds -> Users \cup {0}]
    BY DEF DeleteUserByID, AInv, AccountsTypeOK
  <2>4. QED
    BY <1>1, <2>1, <2>2, <2>3 DEF AInv, AccountsTypeOK
<1>6. UsersGrow
  BY <1>3 DEF UsersGrow
<1>7. TokensGrow
  <2>1. \A x \in Tokens : redeemed[x] \in 0..2
    BY DEF AInv, AccountsTypeOK
  <2>2. QED
    BY <1>1, <1>4, <2>1 DEF TokensGrow
<1>8. UserOK(u)'
  <2>1. UserOK(u) /\ users[u].state # "none"
    BY <1>1 DEF AInv, UserInv, Exists
  <2>2. Spent(u, "password_reset")' = Spent(u, "password_reset")
    BY <1>1, <1>3, <1>4 DEF Spent
  <2>3. u < nextUser
    BY <2>1, Numbers DEF UserOK, Users, AInv, AccountsTypeOK
  <2>4. nextUser \in Nat /\ u \in Nat
    BY Numbers DEF Users, AInv, AccountsTypeOK
  <2>5. QED
    BY <1>1, <1>3, <2>1, <2>2, <2>3, <2>4 DEF UserOK
<1>9. ASSUME NEW t \in Tokens, tokens'[t] # tokens[t] PROVE TokenOK(t)'
  <2>1. TokenOK(t) /\ tokens'[t].state = "dead" /\ tokens[t].state # "none"
    BY <1>4, <1>9 DEF AInv, TokenInv
  <2>2. /\ tokens'[t].user \in Users /\ users'[tokens'[t].user].state # "none"
    BY <1>4, <1>6, <2>1 DEF TokenOK, UsersGrow
  <2>3. QED
    BY <1>1, <2>1, <2>2 DEF TokenOK
<1>10. /\ \A x \in Users : users'[x] # users[x] => UserOK(x)'
       /\ \A t \in Tokens : tokens'[t] # tokens[t] \/ redeemed'[t] # redeemed[t]
                                => TokenOK(t)'
       /\ \A t \in Tokens : tokens[t].state = "none" => tokens'[t].state = "none"
  BY <1>1, <1>3, <1>4, <1>8, <1>9
<1>11. QED
  BY <1>1, <1>5, <1>6, <1>7, <1>10, LinkStep

-----------------------------------------------------------------------------
\* Steps of a goroutine that makes a link.

LEMMA TheSender ==
    ASSUME AInv, NEW s \in Senders
    PROVE  /\ send \in [Senders -> Sender] /\ send[s] \in Sender /\ SenderOK(send[s])
           /\ nextToken \in Nat /\ nextUser \in Nat
           /\ IsFiniteSet(Looking) /\ Cardinality(Looking) \in Nat
<1>1. nextToken \in Nat /\ nextUser \in Nat
  BY Numbers DEF AInv, AccountsTypeOK
<1>2. IsFiniteSet(Senders) /\ Looking \subseteq Senders
  BY AccountsAssumption DEF Looking
<1>3. IsFiniteSet(Looking) /\ Cardinality(Looking) \in Nat
  BY <1>2, FS_Subset, FS_CardinalityType
<1>4. QED
  BY <1>1, <1>3 DEF AInv, AccountsTypeOK, SenderInv

\* A goroutine that does not look up, and goes on with its own link if it makes
\* one at all.
LEMMA SenderMoves ==
    ASSUME AInv, NEW s \in Senders, NEW q \in Sender, send' = [send EXCEPT ![s] = q],
           q.pc # "lookup", nextToken' = nextToken,
           q.pc \in Making => send[s].pc \in Making /\ q.token = send[s].token
    PROVE  /\ send' \in [Senders -> Sender] /\ send'[s] = q
           /\ \A z \in Senders : z # s => send'[z] = send[z]
           /\ Reserved' /\ DistinctInv'
<1>1. /\ send' \in [Senders -> Sender] /\ send'[s] = q
      /\ \A z \in Senders : z # s => send'[z] = send[z]
  BY TheSender
<1>2. Reserved'
  <2>1. Looking' \subseteq Looking
    BY <1>1 DEF Looking
  <2>2. Cardinality(Looking') <= Cardinality(Looking) /\ Cardinality(Looking') \in Nat
    BY <2>1, TheSender, FS_Subset, FS_CardinalityType
  <2>3. nextToken + Cardinality(Looking) <= MaxTokens + 1
    BY DEF AInv, Reserved
  <2>4. nextToken' + Cardinality(Looking') <= MaxTokens + 1
    BY <2>2, <2>3, TheSender, Numbers
  <2>5. QED
    BY <2>4 DEF Reserved
<1>3. DistinctInv'
  BY <1>1 DEF AInv, DistinctInv
<1>4. QED
  BY <1>1, <1>2, <1>3

\* A step of a goroutine that leaves accounts and the rows of links alone.
LEMMA SenderStepFrame ==
    ASSUME AInv, NEW s \in Senders, NEW q \in Sender, send' = [send EXCEPT ![s] = q],
           SenderOK(q)', Reserved', DistinctInv', nextToken' \in 1..(MaxTokens + 1),
           nextToken <= nextToken',
           UNCHANGED <<accountVars, tokens, req, redeemed, jwts, keyVars, crashes>>,
           faults' \in 0..MaxFaults, inbox' \in [Emails -> SUBSET Tokens],
           \A e \in Emails : inbox[e] \subseteq inbox'[e],
           \A e \in Emails : \A t \in inbox'[e] :
              t \in inbox[e] \/ (tokens[t].state # "none" /\ users[tokens[t].user].email = e)
    PROVE  AInv'
<1>1. UNCHANGED <<users, nextUser, tokens, req, redeemed, jwts, keys, usedKeys, crashes>>
  BY DEF accountVars, keyVars
<1>2. send' \in [Senders -> Sender] /\ send'[s] = q
      /\ \A z \in Senders : z # s => send'[z] = send[z]
  BY TheSender
<1>3. AccountsTypeOK'
  BY <1>1, <1>2 DEF AInv, AccountsTypeOK
<1>4. Grows
  <2>1. \A x \in Tokens : redeemed[x] \in 0..2
    BY DEF AInv, AccountsTypeOK
  <2>2. UsersGrow /\ TokensGrow
    BY <1>1, <2>1 DEF UsersGrow, TokensGrow
  <2>3. QED
    BY <1>1, <2>2, TheSender DEF Grows
<1>5. ASSUME NEW u \in Users, u = nextUser PROVE UserOK(u)'
  <2>1. UserOK(u) /\ u \in Nat
    BY <1>5, TheSender DEF AInv, UserInv
  <2>2. users[u].state = "none" /\ users[u].password = 0
    BY <1>5, <2>1 DEF UserOK
  <2>3. QED
    BY <1>1, <2>2 DEF UserOK
<1>6. \A z \in Senders : send'[z] # send[z] => SenderOK(send[z])'
  BY <1>2 DEF SenderOK
<1>7. \A z \in Senders : send[z].pc \in {"invalidate", "insert"}
                            => tokens'[send[z].token].state = "none"
  BY <1>1 DEF AInv, SenderInv, SenderOK
<1>8. QED
  BY <1>1, <1>3, <1>4, <1>5, <1>6, <1>7, Frame

\* A goroutine ends or moves on within the making of its link, and nothing else
\* changes.
LEMMA QuietSender ==
    ASSUME AInv, NEW s \in Senders, NEW q \in Sender, send' = [send EXCEPT ![s] = q],
           q.pc # "lookup", SenderOK(q),
           q.pc \in Making => send[s].pc \in Making /\ q.token = send[s].token,
           UNCHANGED <<accountVars, tokens, nextToken, req, inbox, redeemed, jwts,
                       keyVars, crashes>>,
           faults' \in 0..MaxFaults
    PROVE  AInv'
<1>1. Reserved' /\ DistinctInv'
  BY SenderMoves
<1>2. SenderOK(q)'
  BY DEF SenderOK, accountVars
<1>3. /\ UNCHANGED <<accountVars, tokens, req, redeemed, jwts, keyVars, crashes>>
      /\ nextToken' \in 1..(MaxTokens + 1) /\ nextToken <= nextToken'
      /\ inbox' \in [Emails -> SUBSET Tokens] /\ inbox' = inbox
  BY Numbers DEF AInv, AccountsTypeOK
<1>4. QED
  BY <1>1, <1>2, <1>3, SenderStepFrame

\* A new goroutine has a token reserved.
LEMMA Spawned ==
    ASSUME AInv, NEW s \in Senders, NEW e \in Emails,
           NEW kind \in {"register", "resend", "forgot"}, Spawn(s, kind, e),
           nextToken' = nextToken
    PROVE  \E q \in Sender : /\ send' = [send EXCEPT ![s] = q]
                             /\ q.pc = "lookup" /\ q.email = e
                             /\ send' \in [Senders -> Sender] /\ send'[s] = q
                             /\ \A z \in Senders : z # s => send'[z] = send[z]
                             /\ Reserved' /\ DistinctInv'
<1> DEFINE q == [pc |-> "lookup", kind |-> kind, email |-> e, user |-> 0, token |-> 0]
<1>1. q \in Sender /\ q.pc = "lookup" /\ q.email = e
  BY DEF Sender
<1>2. send' = [send EXCEPT ![s] = q] /\ send[s].pc = "idle" /\ TokenLeft
  BY DEF Spawn, Idle
<1>3. /\ send' \in [Senders -> Sender] /\ send'[s] = q
      /\ \A z \in Senders : z # s => send'[z] = send[z]
  BY <1>1, <1>2, TheSender
<1>4. Reserved'
  <2>1. Looking' = Looking \cup {s} /\ s \notin Looking
    BY <1>1, <1>2, <1>3 DEF Looking
  <2>2. Cardinality(Looking') = Cardinality(Looking) + 1
    BY <2>1, TheSender, FS_AddElement
  <2>3. nextToken + Cardinality(Looking) <= MaxTokens
    BY <1>2 DEF TokenLeft, Looking
  <2>4. nextToken' + Cardinality(Looking') <= MaxTokens + 1
    BY <2>2, <2>3, TheSender, Numbers
  <2>5. QED
    BY <2>4 DEF Reserved
<1>5. DistinctInv'
  BY <1>1, <1>3 DEF AInv, DistinctInv, Making
<1>6. QED
  BY <1>1, <1>2, <1>3, <1>4, <1>5

LEMMA AskAInv ==
    ASSUME AInv, NEW s \in Senders, NEW e \in Emails,
           ResendVerification(s, e) \/ ForgotPassword(s, e)
    PROVE  AInv'
<1>1. PICK kind \in {"register", "resend", "forgot"} : Spawn(s, kind, e)
  BY DEF ResendVerification, ForgotPassword
<1>2. /\ UNCHANGED <<accountVars, tokens, req, redeemed, jwts, keyVars, crashes>>
      /\ faults' \in 0..MaxFaults /\ inbox' = inbox /\ nextToken' = nextToken
  BY DEF ResendVerification, ForgotPassword, boundVars, AInv, AccountsTypeOK
<1>3. PICK q \in Sender : /\ send' = [send EXCEPT ![s] = q] /\ q.pc = "lookup" /\ q.email = e
                          /\ Reserved' /\ DistinctInv'
  BY <1>1, <1>2, Spawned
<1>4. SenderOK(q)'
  BY <1>3 DEF SenderOK, Making
<1>5. /\ nextToken' \in 1..(MaxTokens + 1) /\ nextToken <= nextToken'
      /\ inbox' \in [Emails -> SUBSET Tokens]
  BY <1>2, Numbers DEF AInv, AccountsTypeOK
<1>6. QED
  BY <1>2, <1>3, <1>4, <1>5, SenderStepFrame

\* A registration takes the next id, which no link and no request knows.
LEMMA RegisterAInv ==
    ASSUME AInv, NEW s \in Senders, NEW e \in Emails, Register(s, e)
    PROVE  AInv'
<1> DEFINE n == nextUser
           v == [state |-> "unverified", email |-> e, password |-> 0]
<1>1. /\ UNCHANGED <<tokens, nextToken, req, inbox, redeemed, jwts, keys, usedKeys, faults,
                     crashes>>
      /\ Spawn(s, "register", e)
      /\ n <= MaxUsers /\ users' = [users EXCEPT ![n] = v] /\ nextUser' = n + 1
  BY DEF Register, CreateUser, keyVars, boundVars
<1>2. PICK q \in Sender : /\ q.pc = "lookup" /\ q.email = e
                          /\ send' \in [Senders -> Sender] /\ send'[s] = q
                          /\ \A z \in Senders : z # s => send'[z] = send[z]
                          /\ Reserved' /\ DistinctInv'
  BY <1>1, Spawned
<1>3. n \in Users /\ n \in Nat /\ nextToken \in Nat /\ users[n].state = "none"
  <2>1. n \in Users /\ n \in Nat /\ nextToken \in Nat
    BY <1>1, Numbers DEF AInv, AccountsTypeOK, Users
  <2>2. QED
    BY <2>1 DEF AInv, UserInv, UserOK
<1>4. v \in User /\ v.state = "unverified" /\ v.email = e /\ v.password = 0
  BY DEF User
<1>5. users'[n] = v /\ \A u \in Users : u # n => users'[u] = users[u]
  BY <1>1, <1>3 DEF AInv, AccountsTypeOK
<1>6. AccountsTypeOK'
  <2>1. users' \in [Users -> User]
    BY <1>1, <1>4 DEF AInv, AccountsTypeOK
  <2>2. nextUser' \in 1..(MaxUsers + 1)
    BY <1>1, <1>3, Numbers DEF AInv, AccountsTypeOK
  <2>3. QED
    BY <1>1, <1>2, <2>1, <2>2 DEF AInv, AccountsTypeOK
<1>7. Grows
  <2>1. \A x \in Tokens : redeemed[x] \in 0..2
    BY DEF AInv, AccountsTypeOK
  <2>2. UsersGrow
    BY <1>3, <1>5 DEF UsersGrow
  <2>3. TokensGrow
    BY <1>1, <2>1 DEF TokensGrow
  <2>4. QED
    BY <1>1, <1>3, <2>2, <2>3 DEF Grows
<1>8. \A u \in Users : users'[u] # users[u] \/ u = n => UserOK(u)'
  <2> SUFFICES ASSUME NEW u \in Users, u = n PROVE UserOK(u)'
    BY <1>5
  <2>1. users'[u] = v
    BY <1>5
  <2>2. ~(u >= nextUser')
    BY <1>1, <1>3
  <2>3. QED
    BY <1>4, <2>1, <2>2 DEF UserOK
<1>9. \A z \in Senders : send'[z] # send[z] => SenderOK(send[z])'
  BY <1>2 DEF SenderOK, Making
<1>10. \A z \in Senders : send[z].pc \in {"invalidate", "insert"}
                            => tokens'[send[z].token].state = "none"
  BY <1>1 DEF AInv, SenderInv, SenderOK
<1>11. QED
  BY <1>1, <1>2, <1>6, <1>7, <1>8, <1>9, <1>10, Frame

\* The goroutine reads the account and takes the next token, which is nobody
\* else's.
LEMMA LookupAInv ==
    ASSUME AInv, NEW s \in Senders, Lookup(s)
    PROVE  AInv'
<1>1. /\ send[s].pc = "lookup" /\ UNCHANGED inbox
      /\ UNCHANGED <<accountVars, tokens, req, redeemed, jwts, keyVars, crashes>>
      /\ faults' \in 0..MaxFaults
  BY DEF Lookup, boundVars, AInv, AccountsTypeOK
<1>2. CASE Ends(s) /\ UNCHANGED nextToken
  <2>1. NoSender.pc # "lookup" /\ NoSender.pc \notin Making
    BY Nothing DEF Making
  <2>2. send' = [send EXCEPT ![s] = NoSender]
    BY <1>2 DEF Ends
  <2>3. UNCHANGED <<accountVars, tokens, nextToken, req, inbox, redeemed, jwts,
                    keyVars, crashes>>
    BY <1>1, <1>2
  <2>4. QED
    BY <1>1, <2>1, <2>2, <2>3, Nothing, NothingOK, QuietSender
<1>3. ASSUME NEW u \in GetUserByEmail(send[s].email),
             send' = [send EXCEPT ![s].pc = "invalidate", ![s].user = u,
                                  ![s].token = nextToken],
             nextToken' = nextToken + 1
      PROVE  AInv'
  <2> DEFINE q == [send[s] EXCEPT !.pc = "invalidate", !.user = u, !.token = nextToken]
  <2>1. u \in Users /\ users[u].state # "none" /\ users[u].email = send[s].email
    BY DEF GetUserByEmail, Exists
  <2>2. s \in Looking
    BY <1>1 DEF Looking
  <2>3. nextToken \in Tokens /\ nextToken \in Nat
    <3>1. Cardinality(Looking) # 0
      BY <2>2, TheSender, FS_EmptySet
    <3>2. nextToken + Cardinality(Looking) <= MaxTokens + 1
      BY DEF AInv, Reserved
    <3>3. nextToken <= MaxTokens
      BY <3>1, <3>2, TheSender, Numbers
    <3>4. QED
      BY <3>3, Numbers DEF AInv, AccountsTypeOK, Tokens
  <2>4. /\ q \in Sender /\ q.pc = "invalidate" /\ q.user = u /\ q.token = nextToken
        /\ q.email = send[s].email
    <3>1. send[s] \in Sender
      BY TheSender
    <3>2. q \in Sender
      BY <2>1, <2>3, <3>1 DEF Sender
    <3>3. q.pc = "invalidate" /\ q.user = u /\ q.token = nextToken /\ q.email = send[s].email
      BY <3>1 DEF Sender
    <3>4. QED
      BY <3>2, <3>3
  <2>5. send' = [send EXCEPT ![s] = q]
    BY <1>3, TheSender
  <2>6. send'[s] = q /\ \A z \in Senders : z # s => send'[z] = send[z]
    BY <2>5, TheSender
  <2>7. Reserved'
    <3>1. Looking' = Looking \ {s}
      BY <2>4, <2>6 DEF Looking
    <3>2. Cardinality(Looking') = Cardinality(Looking) - 1
      BY <2>2, <3>1, TheSender, FS_RemoveElement
    <3>3. nextToken + Cardinality(Looking) <= MaxTokens + 1
      BY DEF AInv, Reserved
    <3>4. nextToken' + Cardinality(Looking') <= MaxTokens + 1
      BY <1>3, <3>2, <3>3, TheSender, Numbers
    <3>5. QED
      BY <3>4 DEF Reserved
  <2>8. DistinctInv'
    <3>1. \A z \in Senders : send[z].pc \in Making => send[z].token # nextToken
      <4> SUFFICES ASSUME NEW z \in Senders, send[z].pc \in Making
                   PROVE  send[z].token # nextToken
        OBVIOUS
      <4>1. SenderOK(send[z]) /\ nextToken \in Nat
        BY TheSender
      <4>2. send[z].token \in Tokens /\ send[z].token < nextToken
        BY <4>1 DEF SenderOK
      <4>3. QED
        BY <4>1, <4>2, Numbers DEF Tokens
    <3>2. send'[s].token = nextToken /\ \A z \in Senders : z # s => send'[z] = send[z]
      BY <2>4, <2>6
    <3>3. QED
      BY <3>1, <3>2 DEF AInv, DistinctInv
  <2>9. PICK p \in Sender : p = q
    BY <2>4
  <2>10. SenderOK(p)'
    <3>1. PICK x : x = nextToken
      OBVIOUS
    <3>2. p.pc = "invalidate" /\ p.user = u /\ p.token = x /\ p.email = users[u].email
          /\ p.email \in Emails
      BY <1>1, <2>1, <2>4, <2>9, <3>1, TheSender DEF SenderOK
    <3>3. tokens[x].state = "none"
      BY <2>3, <3>1 DEF AInv, TokenInv, TokenOK
    <3>4. x \in Tokens /\ x < nextToken'
      BY <1>3, <2>3, <3>1
    <3>5. UNCHANGED <<users, tokens>>
      BY <1>1 DEF accountVars
    <3>6. QED
      BY <2>1, <3>2, <3>3, <3>4, <3>5 DEF SenderOK, Making
  <2>11. /\ nextToken' \in 1..(MaxTokens + 1) /\ nextToken <= nextToken'
         /\ inbox' \in [Emails -> SUBSET Tokens] /\ inbox' = inbox
    BY <1>1, <1>3, <2>3, Numbers DEF AInv, AccountsTypeOK, Tokens
  <2>12. QED
    BY <1>1, <2>5, <2>7, <2>8, <2>9, <2>10, <2>11, SenderStepFrame
<1>4. QED
  BY <1>2, <1>3 DEF Lookup

\* The older links go: none that a goroutine is still making is among them.
LEMMA InvalidateAInv ==
    ASSUME AInv, NEW s \in Senders, InvalidateOld(s)
    PROVE  AInv'
<1> DEFINE q == [send[s] EXCEPT !.pc = "insert"]
<1>1. /\ send[s].pc = "invalidate" /\ send' = [send EXCEPT ![s] = q]
      /\ UNCHANGED <<users, nextUser, nextToken, req, inbox, redeemed, jwts, keys, usedKeys,
                     faults, crashes>>
  BY TheSender DEF InvalidateOld, accountVars, keyVars, boundVars
<1>2. \A t \in Tokens :
        \/ tokens'[t] = tokens[t]
        \/ tokens[t].state = "live" /\ tokens'[t] = [tokens[t] EXCEPT !.state = "dead"]
  BY DEF InvalidateOld
<1>3. \A t \in Tokens :
        \/ tokens'[t] = tokens[t]
        \/ /\ tokens[t].state = "live" /\ tokens'[t].state = "dead"
           /\ tokens'[t].user = tokens[t].user /\ tokens'[t].type = tokens[t].type
  BY <1>2 DEF AInv, AccountsTypeOK, Token
<1>4. /\ q \in Sender /\ q.pc = "insert" /\ q.token = send[s].token /\ q.user = send[s].user
      /\ q.email = send[s].email
  BY TheSender DEF Sender
<1>5. /\ send' \in [Senders -> Sender] /\ send'[s] = q
      /\ \A z \in Senders : z # s => send'[z] = send[z]
      /\ Reserved' /\ DistinctInv'
  <2>1. PICK p \in Sender : p = q
    BY <1>4
  <2>2. send' = [send EXCEPT ![s] = p] /\ p.pc = "insert" /\ p.token = send[s].token
    BY <1>1, <1>4, <2>1
  <2>3. QED
    BY <1>1, <2>1, <2>2, SenderMoves DEF Making
<1>6. AccountsTypeOK'
  <2>1. tokens' \in [Tokens -> Token]
    BY DEF InvalidateOld, AInv, AccountsTypeOK, Token
  <2>2. QED
    BY <1>1, <1>5, <2>1 DEF AInv, AccountsTypeOK
<1>7. Grows
  <2>1. \A x \in Tokens : redeemed[x] \in 0..2
    BY DEF AInv, AccountsTypeOK
  <2>2. UsersGrow
    BY <1>1 DEF UsersGrow
  <2>3. TokensGrow
    BY <1>1, <1>3, <2>1 DEF TokensGrow
  <2>4. QED
    BY <1>1, <2>2, <2>3, TheSender DEF Grows
<1>8. ASSUME NEW u \in Users, u = nextUser PROVE UserOK(u)'
  <2>1. UserOK(u) /\ u \in Nat
    BY <1>8, TheSender DEF AInv, UserInv
  <2>2. users[u].state = "none" /\ users[u].password = 0
    BY <1>8, <2>1 DEF UserOK
  <2>3. QED
    BY <1>1, <2>2 DEF UserOK
<1>9. ASSUME NEW t \in Tokens, tokens'[t] # tokens[t] PROVE TokenOK(t)'
  <2>1. TokenOK(t)
    BY DEF AInv, TokenInv
  <2>2. QED
    BY <1>1, <1>3, <1>9, <2>1 DEF TokenOK
<1>10. \A z \in Senders : send[z].pc \in {"invalidate", "insert"}
                            => tokens'[send[z].token].state = "none"
  <2> SUFFICES ASSUME NEW z \in Senders, send[z].pc \in {"invalidate", "insert"}
               PROVE  tokens'[send[z].token].state = "none"
    OBVIOUS
  <2>1. tokens[send[z].token].state = "none" /\ send[z].token \in Tokens
    BY TheSender DEF SenderOK, Making
  <2>2. QED
    BY <1>3, <2>1
<1>11. \A z \in Senders : send'[z] # send[z] => SenderOK(send[z])'
  <2>1. PICK p \in Sender : p = q
    BY <1>4
  <2>2. SenderOK(send[s]) /\ send[s].pc \in Making
    BY <1>1, TheSender DEF Making
  <2>3. /\ p.pc = "insert" /\ p.email = send[s].email /\ p.user = send[s].user
        /\ p.token = send[s].token
    BY <1>4, <2>1
  <2>4. /\ p.email \in Emails /\ p.user \in Users /\ users'[p.user].state # "none"
        /\ users'[p.user].email = p.email /\ p.token \in Tokens /\ p.token < nextToken'
    BY <1>1, <2>2, <2>3 DEF SenderOK
  <2>5. tokens'[p.token].state = "none"
    BY <1>1, <1>10, <2>3
  <2>6. send'[s] = p
    BY <1>5, <2>1
  <2>7. SenderOK(send[s])'
    BY <2>3, <2>4, <2>5, <2>6 DEF SenderOK
  <2>8. QED
    BY <1>5, <2>7
<1>12. QED
  BY <1>1, <1>5, <1>6, <1>7, <1>8, <1>9, <1>10, <1>11, Frame

\* The link is stored: it was nobody's before.
LEMMA InsertAInv ==
    ASSUME AInv, NEW s \in Senders, InsertToken(s)
    PROVE  AInv'
<1>1. /\ send[s].pc = "insert" /\ SenderOK(send[s]) /\ send[s] \in Sender
      /\ UNCHANGED <<users, nextUser, nextToken, req, inbox, redeemed, jwts, keys, usedKeys,
                     faults, crashes>>
  BY TheSender DEF InsertToken, accountVars, keyVars, boundVars
<1>2. CASE ~Exists(send[s].user)
  <2>1. send' = [send EXCEPT ![s] = NoSender] /\ tokens' = tokens
    BY <1>2 DEF InsertToken, Ends
  <2>2. NoSender.pc # "lookup" /\ NoSender.pc \notin Making
    BY Nothing DEF Making
  <2>3. /\ UNCHANGED <<accountVars, tokens, nextToken, req, inbox, redeemed, jwts,
                       keyVars, crashes>>
        /\ faults' \in 0..MaxFaults
    BY <1>1, <2>1 DEF accountVars, keyVars, AInv, AccountsTypeOK
  <2>4. QED
    BY <2>1, <2>2, <2>3, Nothing, NothingOK, QuietSender
<1>3. CASE Exists(send[s].user)
  <2>1. PICK p : p = [send[s] EXCEPT !.pc = "mail"]
    OBVIOUS
  <2>2. PICK t : t = send[s].token
    OBVIOUS
  <2>3. PICK u : u = send[s].user
    OBVIOUS
  <2>4. /\ p \in Sender /\ p.pc = "mail" /\ p.token = t /\ p.user = u
        /\ p.email = send[s].email
    BY <1>1, <2>1, <2>2, <2>3 DEF Sender
  <2>5. /\ u \in Users /\ users[u].state # "none" /\ users[u].email = send[s].email
        /\ t \in Tokens /\ t < nextToken /\ tokens[t].state = "none"
        /\ send[s].email \in Emails
    BY <1>1, <2>2, <2>3 DEF SenderOK, Making
  <2>6. PICK v \in Token : /\ v.state = "live" /\ v.user = u
                           /\ tokens' = [tokens EXCEPT ![t] = v]
    <3> DEFINE v == [state |-> "live", user |-> u, type |-> LinkType(send[s].kind)]
    <3>1. v \in Token /\ v.state = "live" /\ v.user = u
      BY <2>5 DEF Token, LinkType, LinkTypes
    <3>2. tokens' = [tokens EXCEPT ![t] = v]
      BY <1>3, <2>2, <2>3 DEF InsertToken
    <3>3. QED
      BY <3>1, <3>2
  <2>7. send' = [send EXCEPT ![s] = p]
    BY <1>3, <2>1, TheSender DEF InsertToken
  <2>8. /\ send' \in [Senders -> Sender] /\ send'[s] = p
        /\ \A z \in Senders : z # s => send'[z] = send[z]
        /\ Reserved' /\ DistinctInv'
    BY <1>1, <2>2, <2>4, <2>7, SenderMoves DEF Making
  <2>9. tokens'[t] = v /\ \A x \in Tokens : x # t => tokens'[x] = tokens[x]
    BY <2>5, <2>6 DEF AInv, AccountsTypeOK
  <2>10. AccountsTypeOK'
    <3>1. tokens' \in [Tokens -> Token]
      BY <2>5, <2>6 DEF AInv, AccountsTypeOK
    <3>2. QED
      BY <1>1, <2>8, <3>1 DEF AInv, AccountsTypeOK
  <2>11. Grows
    <3>1. \A x \in Tokens : redeemed[x] \in 0..2
      BY DEF AInv, AccountsTypeOK
    <3>2. UsersGrow
      BY <1>1 DEF UsersGrow
    <3>3. TokensGrow
      BY <1>1, <2>5, <2>9, <3>1 DEF TokensGrow
    <3>4. QED
      BY <1>1, <3>2, <3>3, TheSender DEF Grows
  <2>12. ASSUME NEW x \in Users, x = nextUser PROVE UserOK(x)'
    <3>1. UserOK(x) /\ x \in Nat
      BY <2>12, TheSender DEF AInv, UserInv
    <3>2. users[x].state = "none" /\ users[x].password = 0
      BY <2>12, <3>1 DEF UserOK
    <3>3. QED
      BY <1>1, <3>2 DEF UserOK
  <2>13. TokenOK(t)'
    <3>1. redeemed[t] = 0
      <4>1. redeemed[t] \in 0..2 /\ TokenOK(t)
        BY <2>5 DEF AInv, AccountsTypeOK, TokenInv
      <4>2. QED
        BY <2>5, <4>1 DEF TokenOK
    <3>2. QED
      BY <1>1, <2>5, <2>6, <2>9, <3>1 DEF TokenOK
  <2>14. \A z \in Senders : z # s /\ send[z].pc \in {"invalidate", "insert"}
                               => tokens'[send[z].token].state = "none"
    <3> SUFFICES ASSUME NEW z \in Senders, z # s, send[z].pc \in {"invalidate", "insert"}
                 PROVE  tokens'[send[z].token].state = "none"
      OBVIOUS
    <3>1. tokens[send[z].token].state = "none" /\ send[z].token \in Tokens
      BY TheSender DEF SenderOK, Making
    <3>2. send[z].token # t
      BY <1>1, <2>2 DEF AInv, DistinctInv, Making
    <3>3. QED
      BY <2>9, <3>1, <3>2
  <2>15. SenderOK(send[s])'
    BY <1>1, <2>4, <2>5, <2>6, <2>8, <2>9 DEF SenderOK
  <2>16. send'[s] # send[s]
    BY <1>1, <2>4, <2>8
  <2>17. /\ \A x \in Users : users'[x] # users[x] \/ x = nextUser => UserOK(x)'
         /\ \A x \in Tokens : tokens'[x] # tokens[x] \/ redeemed'[x] # redeemed[x]
                                  => TokenOK(x)'
         /\ \A z \in Senders : send'[z] # send[z] => SenderOK(send[z])'
         /\ \A z \in Senders : send'[z] = send[z] /\ send[z].pc \in {"invalidate", "insert"}
                                  => tokens'[send[z].token].state = "none"
    BY <1>1, <2>8, <2>9, <2>12, <2>13, <2>14, <2>15, <2>16
  <2>18. QED
    BY <1>1, <2>8, <2>10, <2>11, <2>17, Frame
<1>4. QED
  BY <1>2, <1>3

\* The mail carries a link that is stored for the account with that address.
LEMMA MailAInv ==
    ASSUME AInv, NEW s \in Senders, SendMail(s)
    PROVE  AInv'
<1>1. /\ send[s].pc = "mail" /\ SenderOK(send[s])
      /\ send' = [send EXCEPT ![s] = NoSender] /\ UNCHANGED nextToken
      /\ inbox' = [inbox EXCEPT ![send[s].email] = @ \cup {send[s].token}]
      /\ UNCHANGED <<accountVars, tokens, req, redeemed, jwts, keyVars, crashes>>
      /\ faults' \in 0..MaxFaults
  BY TheSender DEF SendMail, Ends, boundVars, AInv, AccountsTypeOK
<1>2. /\ send[s].email \in Emails /\ send[s].token \in Tokens
      /\ tokens[send[s].token].state # "none"
      /\ users[tokens[send[s].token].user].email = send[s].email
  BY <1>1 DEF SenderOK, Making
<1>3. /\ inbox' \in [Emails -> SUBSET Tokens]
      /\ \A e \in Emails : inbox[e] \subseteq inbox'[e]
      /\ \A e \in Emails : \A t \in inbox'[e] :
            t \in inbox[e] \/ (t = send[s].token /\ e = send[s].email)
  BY <1>1, <1>2 DEF AInv, AccountsTypeOK
<1>4. NoSender.pc # "lookup" /\ NoSender.pc \notin Making
  BY Nothing DEF Making
<1>5. Reserved' /\ DistinctInv'
  BY <1>1, <1>4, Nothing, SenderMoves
<1>6. SenderOK(NoSender)'
  BY <1>4, Nothing DEF SenderOK
<1>7. nextToken' \in 1..(MaxTokens + 1) /\ nextToken <= nextToken'
  BY <1>1, Numbers DEF AInv, AccountsTypeOK
<1>8. \A e \in Emails : \A t \in inbox'[e] :
         t \in inbox[e] \/ (tokens[t].state # "none" /\ users[tokens[t].user].email = e)
  BY <1>2, <1>3
<1>9. QED
  BY <1>1, <1>3, <1>5, <1>6, <1>7, <1>8, Nothing, SenderStepFrame

\* A statement fails: the goroutine ends, or inserts without having invalidated.
LEMMA SendFailsAInv ==
    ASSUME AInv, NEW s \in Senders, SendFails(s)
    PROVE  AInv'
<1>1. /\ UNCHANGED <<accountVars, tokens, nextToken, req, inbox, redeemed, jwts,
                     keyVars, crashes>>
      /\ faults' \in 0..MaxFaults
  BY FaultCounted DEF SendFails
<1>2. CASE send[s].pc = "invalidate"
  <2>1. PICK p : p = [send[s] EXCEPT !.pc = "insert"]
    OBVIOUS
  <2>2. send' = [send EXCEPT ![s] = p]
    BY <1>2, <2>1 DEF SendFails, AfterSendError
  <2>3. /\ p \in Sender /\ p.pc = "insert" /\ p.token = send[s].token
        /\ p.user = send[s].user /\ p.email = send[s].email
    BY <2>1, TheSender DEF Sender
  <2>4. SenderOK(p)
    BY <1>2, <2>3, TheSender DEF SenderOK, Making
  <2>5. QED
    BY <1>1, <1>2, <2>2, <2>3, <2>4, QuietSender DEF Making
<1>3. CASE send[s].pc # "invalidate"
  <2>1. send' = [send EXCEPT ![s] = NoSender]
    BY <1>3 DEF SendFails, AfterSendError
  <2>2. NoSender.pc # "lookup" /\ NoSender.pc \notin Making
    BY Nothing DEF Making
  <2>3. QED
    BY <1>1, <2>1, <2>2, Nothing, NothingOK, QuietSender
<1>4. QED
  BY <1>2, <1>3

-----------------------------------------------------------------------------
\* The other steps.

\* A key or a JWT goes: accounts, links, goroutines and requests stay.
LEMMA IdentitiesStay ==
    ASSUME AInv, UNCHANGED <<accountVars, linkVars, req, redeemed>>,
           jwts' \subseteq jwts, keys' \in [KeyIds -> Users \cup {0}],
           UNCHANGED <<usedKeys, boundVars>>
    PROVE  AInv'
<1>1. UNCHANGED <<users, nextUser, tokens, nextToken, send, inbox, req, redeemed, usedKeys,
                  faults, crashes>>
  BY DEF accountVars, linkVars, boundVars
<1>2. AccountsTypeOK'
  BY <1>1 DEF AInv, AccountsTypeOK
<1>3. UsersGrow /\ TokensGrow
  <2>1. \A x \in Tokens : redeemed[x] \in 0..2
    BY DEF AInv, AccountsTypeOK
  <2>2. QED
    BY <1>1, <2>1 DEF UsersGrow, TokensGrow
<1>4. QED
  BY <1>1, <1>2, <1>3, LinkStep

LEMMA CrashAInv ==
    ASSUME AInv, ServerCrash
    PROVE  AInv'
<1>1. /\ UNCHANGED <<users, nextUser, tokens, nextToken, inbox, redeemed, jwts, keys,
                     usedKeys, faults>>
      /\ send' = [s \in Senders |-> NoSender] /\ req' = [r \in Requests |-> NoRequest]
  BY DEF ServerCrash, accountVars, keyVars
<1>2. /\ \A s \in Senders : send'[s] = NoSender
      /\ \A r \in Requests : req'[r] = NoRequest
  BY <1>1
<1>3. nextToken \in Nat /\ nextUser \in Nat /\ NoSender.pc \notin Making
  BY Numbers, Nothing DEF AInv, AccountsTypeOK, Making
<1>4. AccountsTypeOK'
  <2>1. crashes' \in 0..MaxCrashes
    BY Numbers DEF ServerCrash, AInv, AccountsTypeOK
  <2>2. send' \in [Senders -> Sender] /\ req' \in [Requests -> Request]
    BY <1>1, Nothing
  <2>3. QED
    BY <1>1, <2>1, <2>2 DEF AInv, AccountsTypeOK
<1>5. Reserved'
  <2>1. Looking' = {}
    BY <1>2, Nothing DEF Looking
  <2>2. Cardinality(Looking') = 0
    BY <2>1, FS_EmptySet
  <2>3. nextToken' + 0 <= MaxTokens + 1
    BY <1>1, Numbers DEF AInv, AccountsTypeOK
  <2>4. QED
    BY <2>2, <2>3 DEF Reserved
<1>6. DistinctInv'
  BY <1>2, <1>3 DEF DistinctInv
<1>7. Grows
  <2>1. \A x \in Tokens : redeemed[x] \in 0..2
    BY DEF AInv, AccountsTypeOK
  <2>2. UsersGrow /\ TokensGrow
    BY <1>1, <2>1 DEF UsersGrow, TokensGrow
  <2>3. QED
    BY <1>1, <1>3, <2>2 DEF Grows
<1>8. \A u \in Users : UserOK(u)'
  BY <1>1 DEF AInv, UserInv, UserOK, Spent
<1>9. ASSUME NEW s \in Senders PROVE SenderOK(send[s])'
  BY <1>2, <1>3, Nothing DEF SenderOK
<1>10. ASSUME NEW r \in Requests PROVE RequestOK(req[r])'
  BY <1>2, Nothing DEF RequestOK
<1>11. \A s \in Senders : send[s].pc \in {"invalidate", "insert"}
                             => tokens'[send[s].token].state = "none"
  BY <1>1 DEF AInv, SenderInv, SenderOK
<1>12. QED
  BY <1>1, <1>4, <1>5, <1>6, <1>7, <1>8, <1>9, <1>10, <1>11, Frame

LEMMA InitAInv == Init => AInv
<1> SUFFICES ASSUME Init PROVE AInv
  OBVIOUS
<1>1. AccountsTypeOK
  BY Numbers, Nothing DEF Init, AccountsTypeOK
<1>2. /\ \A u \in Users : users[u].state = "none" /\ users[u].password = 0
      /\ \A t \in Tokens : tokens[t].state = "none" /\ tokens[t].user = 0 /\ redeemed[t] = 0
      /\ \A s \in Senders : send[s] = NoSender /\ send[s].pc = "idle"
      /\ \A r \in Requests : req[r] = NoRequest
      /\ \A e \in Emails : inbox[e] = {}
      /\ jwts = {} /\ nextToken = 1
  BY Nothing DEF Init, NoUser, NoToken
<1>3. Reserved
  <2>1. Looking = {}
    BY <1>2 DEF Looking
  <2>2. Cardinality(Looking) = 0
    BY <2>1, FS_EmptySet
  <2>3. QED
    BY <1>2, <2>2, Numbers DEF Reserved
<1>4. DistinctInv
  BY <1>2 DEF DistinctInv, Making
<1>5. UserInv /\ TokenInv
  BY <1>2 DEF UserInv, UserOK, TokenInv, TokenOK
<1>6. SenderInv /\ RequestInv
  BY <1>2, NothingOK DEF SenderInv, RequestInv
<1>7. JwtOfVerified /\ MailedIsStored
  BY <1>2 DEF JwtOfVerified, MailedIsStored
<1>8. QED
  BY <1>1, <1>3, <1>4, <1>5, <1>6, <1>7 DEF AInv

LEMMA NextAInv == AInv /\ [Next]_vars => AInv'
<1> SUFFICES ASSUME AInv, [Next]_vars PROVE AInv'
  OBVIOUS
<1>1. ASSUME NEW s \in Senders,
             \/ \E e \in Emails : \/ Register(s, e)
                                  \/ ResendVerification(s, e)
                                  \/ ForgotPassword(s, e)
             \/ SenderStep(s)
             \/ SendFails(s)
      PROVE  AInv'
  BY <1>1, RegisterAInv, AskAInv, LookupAInv, InvalidateAInv, InsertAInv, MailAInv,
     SendFailsAInv DEF SenderStep
<1>2. ASSUME NEW r \in Requests,
             \/ \E t \in Tokens : VerifyEmail(r, t) \/ ResetPassword(r, t)
             \/ MarkVerified(r)
             \/ SetPassword(r)
             \/ RequestFails(r)
             \/ \E e \in Emails, p \in Tokens \cup {0} : Login(r, e, p)
             \/ IssuePair(r)
             \/ IssueAccess(r)
             \/ \E u \in Users : \/ RefreshToken(r, u)
                                 \/ CountKeys(r, u)
                                 \/ CountKeysFails(r, u)
             \/ InsertKey(r)
      PROVE  AInv'
  BY <1>2, RedeemAInv, FinishAInv, RequestFailsAInv, LoginAInv, IssueAInv, RefreshAInv,
     CountAInv, InsertKeyAInv
<1>3. ASSUME NEW u \in Users, DeleteUser(u) \/ AdminDeleteUser(u) PROVE AInv'
  BY <1>3, DeleteAInv DEF DeleteUser, AdminDeleteUser
<1>4. ASSUME NEW k \in KeyIds, DeleteKey(k) PROVE AInv'
  <2>1. /\ UNCHANGED <<accountVars, linkVars, req, redeemed>> /\ jwts' = jwts
        /\ UNCHANGED <<usedKeys, boundVars>>
    BY <1>4 DEF DeleteKey
  <2>2. keys' \in [KeyIds -> Users \cup {0}]
    BY <1>4 DEF DeleteKey, AInv, AccountsTypeOK
  <2>3. QED
    BY <2>1, <2>2, IdentitiesStay
<1>5. ASSUME NEW t \in Tokens, LinkExpires(t) PROVE AInv'
  BY <1>5, ExpiresAInv
<1>6. ASSUME NEW j \in jwts, JwtExpires(j) PROVE AInv'
  <2>1. /\ UNCHANGED <<accountVars, linkVars, req, redeemed>> /\ jwts' \subseteq jwts
        /\ UNCHANGED <<usedKeys, boundVars>>
    BY <1>6 DEF JwtExpires, keyVars
  <2>2. keys' \in [KeyIds -> Users \cup {0}]
    BY <1>6 DEF JwtExpires, keyVars, AInv, AccountsTypeOK
  <2>3. QED
    BY <2>1, <2>2, IdentitiesStay
<1>7. CASE ServerCrash
  BY <1>7, CrashAInv
<1>8. CASE UNCHANGED vars
  <2>1. /\ UNCHANGED <<accountVars, linkVars, req, redeemed>> /\ jwts' = jwts
        /\ UNCHANGED <<usedKeys, boundVars>> /\ keys' = keys
    BY <1>8 DEF vars, accountVars, linkVars, boundVars
  <2>2. keys' \in [KeyIds -> Users \cup {0}]
    BY <2>1 DEF AInv, AccountsTypeOK
  <2>3. QED
    BY <2>1, <2>2, IdentitiesStay
<1>9. QED
  BY <1>1, <1>2, <1>3, <1>4, <1>5, <1>6, <1>7, <1>8 DEF Next

-----------------------------------------------------------------------------
\* The counts of API keys and of live links.

\* One element more or less.
LEMMA OneMore ==
    ASSUME NEW A, IsFiniteSet(A), NEW x, NEW B \in SUBSET (A \cup {x})
    PROVE  /\ Cardinality(B) <= Cardinality(A) + 1
           /\ Cardinality(A) \in Nat /\ Cardinality(B) \in Nat
<1>1. IsFiniteSet(A \cup {x}) /\ Cardinality(A \cup {x}) <= Cardinality(A) + 1
  <2>1. /\ IsFiniteSet(A \cup {x})
        /\ \/ Cardinality(A \cup {x}) = Cardinality(A)
           \/ Cardinality(A \cup {x}) = Cardinality(A) + 1
    BY FS_AddElement
  <2>2. Cardinality(A) \in Nat
    BY FS_CardinalityType
  <2>3. QED
    BY <2>1, <2>2
<1>2. QED
  BY <1>1, FS_Subset, FS_CardinalityType

LEMMA OneLess ==
    ASSUME NEW A, IsFiniteSet(A), NEW x \in A, NEW B \in SUBSET (A \ {x})
    PROVE  /\ Cardinality(B) + 1 <= Cardinality(A)
           /\ Cardinality(A) \in Nat /\ Cardinality(B) \in Nat
<1>1. IsFiniteSet(A \ {x}) /\ Cardinality(A \ {x}) = Cardinality(A) - 1
  BY FS_RemoveElement
<1>2. QED
  BY <1>1, FS_Subset, FS_CardinalityType

KeyBound(u) ==
    Cardinality(KeysOf(u)) + Cardinality(InsertingKey(u))
       <= MaxApiKeysPerUser - 1 + Cardinality(Requests) + faults

LEMMA KeySets ==
    ASSUME NEW u
    PROVE  /\ IsFiniteSet(KeysOf(u)) /\ IsFiniteSet(InsertingKey(u)) /\ IsFiniteSet(Requests)
           /\ Cardinality(KeysOf(u)) \in Nat /\ Cardinality(InsertingKey(u)) \in Nat
           /\ Cardinality(Requests) \in Nat
<1>1. KeysOf(u) \subseteq KeyIds /\ InsertingKey(u) \subseteq Requests
  BY DEF KeysOf, InsertingKey
<1>2. IsFiniteSet(KeyIds) /\ IsFiniteSet(Requests)
  BY AccountsAssumption
<1>3. QED
  BY <1>1, <1>2, FS_Subset, FS_CardinalityType

\* A step that neither creates a key nor begins to.
LEMMA QuietKeys ==
    ASSUME NEW u, KeyBound(u), faults \in Nat, faults' \in Nat, faults <= faults',
           KeysOf(u)' \subseteq KeysOf(u), InsertingKey(u)' \subseteq InsertingKey(u)
    PROVE  KeyBound(u)'
<1>1. /\ Cardinality(KeysOf(u)') <= Cardinality(KeysOf(u)) /\ Cardinality(KeysOf(u)') \in Nat
      /\ Cardinality(InsertingKey(u)') <= Cardinality(InsertingKey(u))
      /\ Cardinality(InsertingKey(u)') \in Nat
  BY KeySets, FS_Subset, FS_CardinalityType
<1>2. Cardinality(KeysOf(u)') + Cardinality(InsertingKey(u)')
         <= MaxApiKeysPerUser - 1 + Cardinality(Requests) + faults'
  BY <1>1, KeySets, Numbers DEF KeyBound
<1>3. QED
  BY <1>2 DEF KeyBound

\* The count found room, or failed and was taken for 0.
LEMMA CountBound ==
    ASSUME AInv, NEW r \in Requests, NEW v \in Users, NEW u \in Users, KeyBound(u),
           CountKeys(r, v) \/ CountKeysFails(r, v)
    PROVE  KeyBound(u)'
<1>1. keys' = keys /\ KeysOf(u)' = KeysOf(u)
  BY DEF CountKeys, CountKeysFails, keyVars, KeysOf
<1>2. /\ faults \in Nat /\ faults' \in Nat /\ faults <= faults'
      /\ CountKeysFails(r, v) => faults' = faults + 1
      /\ CountKeys(r, v) => faults' = faults
  BY Numbers DEF CountKeys, CountKeysFails, boundVars, AInv, AccountsTypeOK
<1>3. /\ InsertingKey(u)' \subseteq InsertingKey(u) \cup {r}
      /\ u # v => InsertingKey(u)' \subseteq InsertingKey(u)
  <2>1. /\ \A z \in Requests : z # r => req'[z] = req[z]
        /\ req'[r].user = v
    BY DEF CountKeys, CountKeysFails, Start, AInv, AccountsTypeOK
  <2>2. QED
    BY <2>1 DEF InsertingKey
<1>4. CASE u # v
  BY <1>1, <1>2, <1>3, <1>4, QuietKeys
<1>5. CASE u = v /\ CountKeys(r, v)
  <2>1. Cardinality(KeysOf(u)) < MaxApiKeysPerUser
    BY <1>5 DEF CountKeys, HasKeyRoom
  <2>2. InsertingKey(u)' \subseteq Requests
    BY DEF InsertingKey
  <2>3. /\ Cardinality(InsertingKey(u)') <= Cardinality(Requests)
        /\ Cardinality(InsertingKey(u)') \in Nat
    BY <2>2, KeySets, FS_Subset, FS_CardinalityType
  <2>4. Cardinality(KeysOf(u)) + Cardinality(InsertingKey(u)')
           <= MaxApiKeysPerUser - 1 + Cardinality(Requests) + faults'
    BY <1>2, <2>1, <2>3, KeySets, Numbers
  <2>5. QED
    BY <1>1, <2>4 DEF KeyBound
<1>6. CASE CountKeysFails(r, v)
  <2>1. /\ Cardinality(InsertingKey(u)') <= Cardinality(InsertingKey(u)) + 1
        /\ Cardinality(InsertingKey(u)') \in Nat
    BY <1>3, KeySets, OneMore
  <2>2. Cardinality(KeysOf(u)) + Cardinality(InsertingKey(u)')
           <= MaxApiKeysPerUser - 1 + Cardinality(Requests) + faults'
    BY <1>2, <1>6, <2>1, KeySets, Numbers DEF KeyBound
  <2>3. QED
    BY <1>1, <2>2 DEF KeyBound
<1>7. QED
  BY <1>4, <1>5, <1>6

\* The INSERT turns a request into a key.
LEMMA InsertKeyBound ==
    ASSUME AInv, NEW r \in Requests, NEW u \in Users, KeyBound(u), InsertKey(r)
    PROVE  KeyBound(u)'
<1>1. faults \in Nat /\ faults' = faults /\ req[r].pc = "insertKey"
  BY Numbers DEF InsertKey, boundVars, AInv, AccountsTypeOK
<1>2. /\ \A z \in Requests : z # r => req'[z] = req[z]
      /\ req'[r].pc = "idle"
  BY Nothing DEF InsertKey, Finish, AInv, AccountsTypeOK
<1>3. InsertingKey(u)' \subseteq InsertingKey(u) \ {r}
  BY <1>2 DEF InsertingKey
<1>4. CASE KeysOf(u)' \subseteq KeysOf(u)
  BY <1>1, <1>3, <1>4, QuietKeys
<1>5. CASE ~(KeysOf(u)' \subseteq KeysOf(u))
  <2>1. PICK k \in KeyIds : keys' = [keys EXCEPT ![k] = req[r].user]
    BY <1>5 DEF InsertKey, keyVars, KeysOf
  <2>2. req[r].user = u /\ KeysOf(u)' \subseteq KeysOf(u) \cup {k}
    BY <1>5, <2>1 DEF KeysOf, AInv, AccountsTypeOK
  <2>3. r \in InsertingKey(u)
    BY <1>1, <2>2 DEF InsertingKey
  <2>4. /\ Cardinality(KeysOf(u)') <= Cardinality(KeysOf(u)) + 1
        /\ Cardinality(KeysOf(u)') \in Nat
    BY <2>2, KeySets, OneMore
  <2>5. /\ Cardinality(InsertingKey(u)') + 1 <= Cardinality(InsertingKey(u))
        /\ Cardinality(InsertingKey(u)') \in Nat
    BY <1>3, <2>3, KeySets, OneLess
  <2>6. Cardinality(KeysOf(u)') + Cardinality(InsertingKey(u)')
           <= MaxApiKeysPerUser - 1 + Cardinality(Requests) + faults'
    BY <1>1, <2>4, <2>5, KeySets, Numbers DEF KeyBound
  <2>7. QED
    BY <2>6 DEF KeyBound
<1>6. QED
  BY <1>4, <1>5

\* A step of a request that does not begin to create a key.
LEMMA NoNewKey ==
    ASSUME AInv, NEW r \in Requests, NEW q, req' = [req EXCEPT ![r] = q],
           q.pc # "insertKey", NEW u
    PROVE  InsertingKey(u)' \subseteq InsertingKey(u)
BY DEF AInv, AccountsTypeOK, InsertingKey

LEMMA KeyNext == AInv /\ AInv' /\ KeyOvershoot /\ [Next]_vars => KeyOvershoot'
<1> SUFFICES ASSUME AInv, AInv', [Next]_vars, NEW u \in Users, KeyBound(u)
             PROVE  KeyBound(u)'
  BY DEF KeyOvershoot, KeyBound
<1>0. faults \in Nat /\ faults' \in Nat
  BY Numbers DEF AInv, AccountsTypeOK
<1>1. ASSUME req' = req, keys' = keys, faults <= faults' PROVE KeyBound(u)'
  <2>1. KeysOf(u)' \subseteq KeysOf(u) /\ InsertingKey(u)' \subseteq InsertingKey(u)
    BY <1>1 DEF KeysOf, InsertingKey
  <2>2. QED
    BY <1>0, <1>1, <2>1, QuietKeys
<1>2. ASSUME NEW s \in Senders,
             \/ \E e \in Emails : \/ Register(s, e)
                                  \/ ResendVerification(s, e)
                                  \/ ForgotPassword(s, e)
             \/ SenderStep(s)
             \/ SendFails(s)
      PROVE  KeyBound(u)'
  <2>1. req' = req /\ keys' = keys /\ faults' \in {faults, faults + 1}
    BY <1>2 DEF Register, ResendVerification, ForgotPassword, SenderStep, Lookup,
                InvalidateOld, InsertToken, SendMail, SendFails, keyVars, boundVars
  <2>2. QED
    BY <1>0, <1>1, <2>1
<1>3. ASSUME NEW r \in Requests, NEW q, req' = [req EXCEPT ![r] = q], q.pc # "insertKey",
             keys' = keys, faults' \in {faults, faults + 1}
      PROVE  KeyBound(u)'
  <2>1. KeysOf(u)' \subseteq KeysOf(u)
    BY <1>3 DEF KeysOf
  <2>2. InsertingKey(u)' \subseteq InsertingKey(u)
    BY <1>3, NoNewKey
  <2>3. QED
    BY <1>0, <1>3, <2>1, <2>2, QuietKeys
<1>4. ASSUME NEW r \in Requests,
             \/ \E t \in Tokens : VerifyEmail(r, t) \/ ResetPassword(r, t)
             \/ MarkVerified(r)
             \/ SetPassword(r)
             \/ RequestFails(r)
             \/ \E e \in Emails, p \in Tokens \cup {0} : Login(r, e, p)
             \/ IssuePair(r)
             \/ IssueAccess(r)
             \/ \E v \in Users : RefreshToken(r, v)
      PROVE  KeyBound(u)'
  <2>1. keys' = keys /\ faults' \in {faults, faults + 1}
    BY <1>4 DEF VerifyEmail, ResetPassword, Redeem, MarkVerified, SetPassword, RequestFails,
                Login, IssuePair, IssueAccess, RefreshToken, keyVars, boundVars
  <2>2. PICK q : req' = [req EXCEPT ![r] = q] /\ q.pc # "insertKey"
    <3>1. CASE \E t \in Tokens : VerifyEmail(r, t) \/ ResetPassword(r, t)
      <4>1. PICK t \in Tokens, pc \in {"verify", "reset"} :
               req' = [req EXCEPT ![r] = [pc |-> pc, user |-> tokens[t].user, token |-> t]]
        BY <3>1 DEF VerifyEmail, ResetPassword, Redeem
      <4>2. [pc |-> pc, user |-> tokens[t].user, token |-> t].pc # "insertKey"
        OBVIOUS
      <4>3. QED
        BY <4>1, <4>2
    <3>2. CASE \E v \in Users, pc \in {"issuePair", "issueAccess"} : Start(r, pc, v)
      <4>1. PICK v \in Users, pc \in {"issuePair", "issueAccess"} :
               req' = [req EXCEPT ![r] = [pc |-> pc, user |-> v, token |-> 0]]
        BY <3>2 DEF Start
      <4>2. [pc |-> pc, user |-> v, token |-> 0].pc # "insertKey"
        OBVIOUS
      <4>3. QED
        BY <4>1, <4>2
    <3>3. CASE Finish(r)
      BY <3>3, Nothing DEF Finish
    <3>4. QED
      BY <1>4, <3>1, <3>2, <3>3
         DEF MarkVerified, SetPassword, RequestFails, Login, GetUserByEmail, IssuePair,
             IssueAccess, RefreshToken
  <2>3. QED
    BY <1>3, <2>1, <2>2
<1>5. ASSUME NEW r \in Requests, NEW v \in Users, CountKeys(r, v) \/ CountKeysFails(r, v)
      PROVE  KeyBound(u)'
  BY <1>5, CountBound
<1>6. ASSUME NEW r \in Requests, InsertKey(r) PROVE KeyBound(u)'
  BY <1>6, InsertKeyBound
<1>7. ASSUME req' = req, faults' = faults, \A k \in KeyIds : keys'[k] \in {keys[k], 0}
      PROVE  KeyBound(u)'
  <2>1. u # 0
    BY Numbers DEF Users
  <2>2. KeysOf(u)' \subseteq KeysOf(u) /\ InsertingKey(u)' \subseteq InsertingKey(u)
    BY <1>7, <2>1 DEF KeysOf, InsertingKey
  <2>3. QED
    BY <1>0, <1>7, <2>2, QuietKeys
<1>8. ASSUME NEW v \in Users, DeleteUser(v) \/ AdminDeleteUser(v) PROVE KeyBound(u)'
  BY <1>7, <1>8 DEF DeleteUser, AdminDeleteUser, DeleteUserByID, boundVars
<1>9. ASSUME NEW k \in KeyIds, DeleteKey(k) PROVE KeyBound(u)'
  <2>1. req' = req /\ faults' = faults /\ \A x \in KeyIds : keys'[x] \in {keys[x], 0}
    BY <1>9 DEF DeleteKey, boundVars, AInv, AccountsTypeOK
  <2>2. QED
    BY <1>7, <2>1
<1>10. ASSUME NEW t \in Tokens, LinkExpires(t) PROVE KeyBound(u)'
  BY <1>0, <1>1, <1>10 DEF LinkExpires, keyVars, boundVars
<1>11. ASSUME NEW j \in jwts, JwtExpires(j) PROVE KeyBound(u)'
  BY <1>0, <1>1, <1>11 DEF JwtExpires, keyVars, boundVars
<1>12. CASE ServerCrash
  <2>1. /\ keys' = keys /\ faults' = faults
        /\ \A r \in Requests : req'[r].pc = "idle"
    BY <1>12, Nothing DEF ServerCrash, keyVars
  <2>2. KeysOf(u)' \subseteq KeysOf(u) /\ InsertingKey(u)' \subseteq InsertingKey(u)
    BY <2>1 DEF KeysOf, InsertingKey
  <2>3. QED
    BY <1>0, <2>1, <2>2, QuietKeys
<1>13. CASE UNCHANGED vars
  BY <1>0, <1>1, <1>13 DEF vars
<1>14. QED
  BY <1>2, <1>4, <1>5, <1>6, <1>8, <1>9, <1>10, <1>11, <1>12, <1>13 DEF Next

LinkBound(u, type) ==
    Cardinality(LiveLinks(u, type)) + Cardinality(Inserting(u, type))
       <= Cardinality(Senders) + faults

LEMMA LinkSets ==
    ASSUME NEW u, NEW type
    PROVE  /\ IsFiniteSet(LiveLinks(u, type)) /\ IsFiniteSet(Inserting(u, type))
           /\ IsFiniteSet(Senders) /\ Cardinality(Senders) \in Nat
           /\ Cardinality(LiveLinks(u, type)) \in Nat
           /\ Cardinality(Inserting(u, type)) \in Nat
<1>1. LiveLinks(u, type) \subseteq Tokens /\ Inserting(u, type) \subseteq Senders
  BY DEF LiveLinks, Inserting
<1>2. IsFiniteSet(Tokens) /\ IsFiniteSet(Senders)
  BY AccountsAssumption, Numbers, FS_Interval DEF Tokens
<1>3. QED
  BY <1>1, <1>2, FS_Subset, FS_CardinalityType

\* A step that neither stores a link nor comes to the INSERT of one.
LEMMA QuietLinks ==
    ASSUME NEW u, NEW type, LinkBound(u, type), faults \in Nat, faults' \in Nat,
           faults <= faults', LiveLinks(u, type)' \subseteq LiveLinks(u, type),
           Inserting(u, type)' \subseteq Inserting(u, type)
    PROVE  LinkBound(u, type)'
<1>1. /\ Cardinality(LiveLinks(u, type)') <= Cardinality(LiveLinks(u, type))
      /\ Cardinality(LiveLinks(u, type)') \in Nat
      /\ Cardinality(Inserting(u, type)') <= Cardinality(Inserting(u, type))
      /\ Cardinality(Inserting(u, type)') \in Nat
  BY LinkSets, FS_Subset, FS_CardinalityType
<1>2. Cardinality(LiveLinks(u, type)') + Cardinality(Inserting(u, type)')
         <= Cardinality(Senders) + faults'
  BY <1>1, LinkSets DEF LinkBound
<1>3. QED
  BY <1>2 DEF LinkBound

\* What a goroutine does to the goroutines before their INSERT.
LEMMA InsertingStep ==
    ASSUME AInv, NEW s \in Senders, NEW q, send' = [send EXCEPT ![s] = q],
           NEW u, NEW type
    PROVE  /\ Inserting(u, type)' \subseteq Inserting(u, type) \cup {s}
           /\ q.pc # "insert" => Inserting(u, type)' \subseteq Inserting(u, type) \ {s}
           /\ ~(q.user = u /\ LinkType(q.kind) = type) =>
                 Inserting(u, type)' \subseteq Inserting(u, type) \ {s}
BY DEF AInv, AccountsTypeOK, Inserting

\* The UPDATE leaves no older link alive.
LEMMA InvalidateBound ==
    ASSUME AInv, NEW s \in Senders, NEW u \in Users, NEW type \in LinkTypes,
           LinkBound(u, type), InvalidateOld(s)
    PROVE  LinkBound(u, type)'
<1>1. faults \in Nat /\ faults' = faults
  BY Numbers DEF InvalidateOld, boundVars, AInv, AccountsTypeOK
<1>2. LiveLinks(u, type)' \subseteq LiveLinks(u, type)
  BY DEF InvalidateOld, LiveLinks, AInv, AccountsTypeOK, Token
<1>3. CASE send[s].user = u /\ LinkType(send[s].kind) = type
  <2>1. LiveLinks(u, type)' = {}
    BY <1>3 DEF InvalidateOld, LiveLinks, AInv, AccountsTypeOK, Token
  <2>2. Cardinality(LiveLinks(u, type)') = 0
    BY <2>1, FS_EmptySet
  <2>3. Inserting(u, type)' \subseteq Senders
    BY DEF Inserting
  <2>4. /\ Cardinality(Inserting(u, type)') <= Cardinality(Senders)
        /\ Cardinality(Inserting(u, type)') \in Nat
    BY <2>3, LinkSets, FS_Subset, FS_CardinalityType
  <2>5. Cardinality(LiveLinks(u, type)') + Cardinality(Inserting(u, type)')
           <= Cardinality(Senders) + faults'
    BY <1>1, <2>2, <2>4, LinkSets
  <2>6. QED
    BY <2>5 DEF LinkBound
<1>4. CASE ~(send[s].user = u /\ LinkType(send[s].kind) = type)
  <2>1. PICK q : q = [send[s] EXCEPT !.pc = "insert"]
    OBVIOUS
  <2>2. send' = [send EXCEPT ![s] = q] /\ q.user = send[s].user /\ q.kind = send[s].kind
    BY <2>1, TheSender DEF InvalidateOld, Sender
  <2>3. Inserting(u, type)' \subseteq Inserting(u, type)
    BY <1>4, <2>2, InsertingStep
  <2>4. QED
    BY <1>1, <1>2, <2>3, QuietLinks
<1>5. QED
  BY <1>3, <1>4

\* The INSERT turns a goroutine into a live link.
LEMMA InsertBound ==
    ASSUME AInv, NEW s \in Senders, NEW u \in Users, NEW type \in LinkTypes,
           LinkBound(u, type), InsertToken(s)
    PROVE  LinkBound(u, type)'
<1>1. faults \in Nat /\ faults' = faults /\ send[s].pc = "insert"
  BY Numbers DEF InsertToken, boundVars, AInv, AccountsTypeOK
<1>2. Inserting(u, type)' \subseteq Inserting(u, type) \ {s}
  <2>1. PICK q : send' = [send EXCEPT ![s] = q] /\ q.pc # "insert"
    <3>1. CASE Exists(send[s].user)
      <4>1. PICK q : q = [send[s] EXCEPT !.pc = "mail"]
        OBVIOUS
      <4>2. send' = [send EXCEPT ![s] = q] /\ q.pc = "mail"
        BY <3>1, <4>1, TheSender DEF InsertToken, Sender
      <4>3. QED
        BY <4>2
    <3>2. CASE ~Exists(send[s].user)
      BY <3>2, Nothing DEF InsertToken, Ends
    <3>3. QED
      BY <3>1, <3>2
  <2>2. QED
    BY <2>1, InsertingStep
<1>3. CASE Exists(send[s].user) /\ send[s].user = u /\ LinkType(send[s].kind) = type
  <2>1. LiveLinks(u, type)' \subseteq LiveLinks(u, type) \cup {send[s].token}
    BY <1>3 DEF InsertToken, LiveLinks, AInv, AccountsTypeOK
  <2>2. s \in Inserting(u, type)
    BY <1>1, <1>3 DEF Inserting
  <2>3. /\ Cardinality(LiveLinks(u, type)') <= Cardinality(LiveLinks(u, type)) + 1
        /\ Cardinality(LiveLinks(u, type)') \in Nat
    BY <2>1, LinkSets, OneMore
  <2>4. /\ Cardinality(Inserting(u, type)') + 1 <= Cardinality(Inserting(u, type))
        /\ Cardinality(Inserting(u, type)') \in Nat
    BY <1>2, <2>2, LinkSets, OneLess
  <2>5. Cardinality(LiveLinks(u, type)') + Cardinality(Inserting(u, type)')
           <= Cardinality(Senders) + faults'
    BY <1>1, <2>3, <2>4, LinkSets DEF LinkBound
  <2>6. QED
    BY <2>5 DEF LinkBound
<1>4. CASE ~(Exists(send[s].user) /\ send[s].user = u /\ LinkType(send[s].kind) = type)
  <2>1. LiveLinks(u, type)' \subseteq LiveLinks(u, type)
    BY <1>4 DEF InsertToken, LiveLinks, AInv, AccountsTypeOK
  <2>2. QED
    BY <1>1, <1>2, <2>1, QuietLinks
<1>5. QED
  BY <1>3, <1>4

\* A failing UPDATE lets the goroutine pass, at the price of a fault.
LEMMA FailBound ==
    ASSUME AInv, NEW s \in Senders, NEW u \in Users, NEW type \in LinkTypes,
           LinkBound(u, type), SendFails(s)
    PROVE  LinkBound(u, type)'
<1>1. faults \in Nat /\ faults' = faults + 1 /\ tokens' = tokens
  BY Numbers DEF SendFails, AInv, AccountsTypeOK
<1>2. LiveLinks(u, type)' = LiveLinks(u, type)
  BY <1>1 DEF LiveLinks
<1>3. Inserting(u, type)' \subseteq Inserting(u, type) \cup {s}
  BY InsertingStep DEF SendFails, AfterSendError
<1>4. /\ Cardinality(Inserting(u, type)') <= Cardinality(Inserting(u, type)) + 1
      /\ Cardinality(Inserting(u, type)') \in Nat
  BY <1>3, LinkSets, OneMore
<1>5. Cardinality(LiveLinks(u, type)) + Cardinality(Inserting(u, type)')
         <= Cardinality(Senders) + faults'
  BY <1>1, <1>4, LinkSets DEF LinkBound
<1>6. QED
  BY <1>2, <1>5 DEF LinkBound

LEMMA LinkNext == AInv /\ AInv' /\ LinksBounded /\ [Next]_vars => LinksBounded'
<1> SUFFICES ASSUME AInv, AInv', [Next]_vars, NEW u \in Users, NEW type \in LinkTypes,
                    LinkBound(u, type)
             PROVE  LinkBound(u, type)'
  BY DEF LinksBounded, LinkBound
<1>0. faults \in Nat /\ faults' \in Nat
  BY Numbers DEF AInv, AccountsTypeOK
<1>1. ASSUME send' = send, faults' \in {faults, faults + 1},
             \A t \in Tokens : tokens'[t] = tokens[t] \/ tokens'[t].state = "dead"
      PROVE  LinkBound(u, type)'
  <2>1. /\ LiveLinks(u, type)' \subseteq LiveLinks(u, type)
        /\ Inserting(u, type)' \subseteq Inserting(u, type)
    BY <1>1 DEF LiveLinks, Inserting
  <2>2. QED
    BY <1>0, <1>1, <2>1, QuietLinks
<1>2. ASSUME NEW s \in Senders, NEW q, send' = [send EXCEPT ![s] = q], q.pc # "insert",
             faults' = faults, tokens' = tokens
      PROVE  LinkBound(u, type)'
  <2>1. LiveLinks(u, type)' \subseteq LiveLinks(u, type)
    BY <1>2 DEF LiveLinks
  <2>2. Inserting(u, type)' \subseteq Inserting(u, type)
    BY <1>2, InsertingStep
  <2>3. QED
    BY <1>0, <1>2, <2>1, <2>2, QuietLinks
<1>3. ASSUME NEW s \in Senders, NEW e \in Emails,
             Register(s, e) \/ ResendVerification(s, e) \/ ForgotPassword(s, e)
      PROVE  LinkBound(u, type)'
  <2>1. PICK kind \in {"register", "resend", "forgot"} : Spawn(s, kind, e)
    BY <1>3 DEF Register, ResendVerification, ForgotPassword
  <2>2. nextToken' = nextToken /\ tokens' = tokens /\ faults' = faults
    BY <1>3 DEF Register, ResendVerification, ForgotPassword, boundVars
  <2>3. PICK q : send' = [send EXCEPT ![s] = q] /\ q.pc = "lookup"
    BY <2>1, <2>2, Spawned
  <2>4. QED
    BY <1>2, <2>2, <2>3
<1>4. ASSUME NEW s \in Senders, Lookup(s) \/ SendMail(s) PROVE LinkBound(u, type)'
  <2>1. tokens' = tokens /\ faults' = faults
    BY <1>4 DEF Lookup, SendMail, boundVars
  <2>2. CASE Ends(s)
    BY <1>2, <2>1, <2>2, Nothing DEF Ends
  <2>3. CASE \E v \in Users : send' = [send EXCEPT ![s].pc = "invalidate", ![s].user = v,
                                                   ![s].token = nextToken]
    <3>1. PICK v \in Users : send' = [send EXCEPT ![s].pc = "invalidate", ![s].user = v,
                                                  ![s].token = nextToken]
      BY <2>3
    <3>2. PICK q : q = [send[s] EXCEPT !.pc = "invalidate", !.user = v, !.token = nextToken]
      OBVIOUS
    <3>3. send' = [send EXCEPT ![s] = q] /\ q.pc = "invalidate"
      BY <3>1, <3>2, TheSender DEF Sender
    <3>4. QED
      BY <1>2, <2>1, <3>3
  <2>4. QED
    BY <1>4, <2>2, <2>3 DEF Lookup, SendMail, GetUserByEmail
<1>5. ASSUME NEW s \in Senders, InvalidateOld(s) PROVE LinkBound(u, type)'
  BY <1>5, InvalidateBound
<1>6. ASSUME NEW s \in Senders, InsertToken(s) PROVE LinkBound(u, type)'
  BY <1>6, InsertBound
<1>7. ASSUME NEW s \in Senders, SendFails(s) PROVE LinkBound(u, type)'
  BY <1>7, FailBound
<1>8. ASSUME NEW r \in Requests, NEW t \in Tokens, VerifyEmail(r, t) \/ ResetPassword(r, t)
      PROVE  LinkBound(u, type)'
  <2>1. /\ send' = send /\ faults' = faults /\ tokens' = [tokens EXCEPT ![t].state = "dead"]
    BY <1>8 DEF VerifyEmail, ResetPassword, Redeem, Consume, boundVars
  <2>2. \A x \in Tokens : tokens'[x] = tokens[x] \/ tokens'[x].state = "dead"
    BY <2>1 DEF AInv, AccountsTypeOK, Token
  <2>3. QED
    BY <1>1, <2>1, <2>2
<1>9. ASSUME NEW r \in Requests,
             \/ MarkVerified(r)
             \/ SetPassword(r)
             \/ RequestFails(r)
             \/ \E e \in Emails, p \in Tokens \cup {0} : Login(r, e, p)
             \/ IssuePair(r)
             \/ IssueAccess(r)
             \/ \E v \in Users : \/ RefreshToken(r, v)
                                 \/ CountKeys(r, v)
                                 \/ CountKeysFails(r, v)
             \/ InsertKey(r)
      PROVE  LinkBound(u, type)'
  <2>1. send' = send /\ tokens' = tokens /\ faults' \in {faults, faults + 1}
    BY <1>9 DEF MarkVerified, SetPassword, RequestFails, Login, IssuePair, IssueAccess,
                RefreshToken, CountKeys, CountKeysFails, InsertKey, linkVars, boundVars
  <2>2. QED
    BY <1>1, <2>1
<1>10. ASSUME NEW v \in Users, DeleteUser(v) \/ AdminDeleteUser(v) PROVE LinkBound(u, type)'
  <2>1. /\ send' = send /\ faults' = faults
        /\ \A x \in Tokens : tokens'[x] = tokens[x] \/ tokens'[x].state = "dead"
    BY <1>10 DEF DeleteUser, AdminDeleteUser, DeleteUserByID, boundVars, AInv,
                 AccountsTypeOK, Token
  <2>2. QED
    BY <1>1, <2>1
<1>11. ASSUME NEW t \in Tokens, LinkExpires(t) PROVE LinkBound(u, type)'
  <2>1. /\ send' = send /\ faults' = faults
        /\ \A x \in Tokens : tokens'[x] = tokens[x] \/ tokens'[x].state = "dead"
    BY <1>11 DEF LinkExpires, boundVars, AInv, AccountsTypeOK, Token
  <2>2. QED
    BY <1>1, <2>1
<1>12. ASSUME \/ \E k \in KeyIds : DeleteKey(k)
              \/ \E j \in jwts : JwtExpires(j)
              \/ UNCHANGED vars
       PROVE  LinkBound(u, type)'
  <2>1. send' = send /\ tokens' = tokens /\ faults' = faults
    BY <1>12 DEF DeleteKey, JwtExpires, linkVars, boundVars, vars
  <2>2. QED
    BY <1>1, <2>1
<1>13. CASE ServerCrash
  <2>1. tokens' = tokens /\ faults' = faults /\ \A s \in Senders : send'[s].pc = "idle"
    BY <1>13, Nothing DEF ServerCrash
  <2>2. /\ LiveLinks(u, type)' \subseteq LiveLinks(u, type)
        /\ Inserting(u, type)' \subseteq Inserting(u, type)
    BY <2>1 DEF LiveLinks, Inserting
  <2>3. QED
    BY <1>0, <2>1, <2>2, QuietLinks
<1>14. QED
  BY <1>3, <1>4, <1>5, <1>6, <1>7, <1>8, <1>9, <1>10, <1>11, <1>12, <1>13
     DEF Next, SenderStep

LEMMA InitCounts == Init => KeyOvershoot /\ LinksBounded
<1> SUFFICES ASSUME Init PROVE KeyOvershoot /\ LinksBounded
  OBVIOUS
<1>1. ASSUME NEW u \in Users PROVE KeyBound(u)
  <2>1. KeysOf(u) = {} /\ InsertingKey(u) = {}
    BY Numbers, Nothing DEF Init, KeysOf, InsertingKey, Users
  <2>2. Cardinality(KeysOf(u)) = 0 /\ Cardinality(InsertingKey(u)) = 0 /\ faults = 0
    BY <2>1, FS_EmptySet DEF Init
  <2>3. QED
    BY <2>2, KeySets, Numbers DEF KeyBound
<1>2. ASSUME NEW u \in Users, NEW type \in LinkTypes PROVE LinkBound(u, type)
  <2>1. LiveLinks(u, type) = {} /\ Inserting(u, type) = {}
    BY Nothing DEF Init, LiveLinks, Inserting, NoToken
  <2>2. /\ Cardinality(LiveLinks(u, type)) = 0 /\ Cardinality(Inserting(u, type)) = 0
        /\ faults = 0
    BY <2>1, FS_EmptySet DEF Init
  <2>3. QED
    BY <2>2, LinkSets DEF LinkBound
<1>3. QED
  BY <1>1, <1>2 DEF KeyOvershoot, KeyBound, LinksBounded, LinkBound

-----------------------------------------------------------------------------
\* What a deleted account can still obtain.

\* The step formula of NoTokenAfterDeletion.
Barred(u) ==
    /\ Issuing(u)' \subseteq Issuing(u)
    /\ Issuing(u)' = Issuing(u) => JwtsOf(u)' \subseteq JwtsOf(u)

\* A request step that does not begin to issue for u, and no new JWT.
LEMMA QuietBarred ==
    ASSUME NEW u, jwts' \subseteq jwts,
           \A r \in Requests : \/ req'[r] = req[r]
                               \/ req'[r].pc \notin {"issuePair", "issueAccess"}
                               \/ req'[r].user # u
    PROVE  Barred(u)
BY DEF Barred, Issuing, JwtsOf

LEMMA DeletionNext ==
    ASSUME AInv, [Next]_vars, NEW u \in Users, users[u].state = "deleted"
    PROVE  Barred(u)
<1>1. ASSUME req' = req, jwts' \subseteq jwts PROVE Barred(u)
  BY <1>1, QuietBarred
<1>2. ASSUME NEW s \in Senders,
             \/ \E e \in Emails : \/ Register(s, e)
                                  \/ ResendVerification(s, e)
                                  \/ ForgotPassword(s, e)
             \/ SenderStep(s)
             \/ SendFails(s)
      PROVE  Barred(u)
  BY <1>1, <1>2 DEF Register, ResendVerification, ForgotPassword, SenderStep, Lookup,
                    InvalidateOld, InsertToken, SendMail, SendFails
<1>3. ASSUME NEW r \in Requests, NEW q, req' = [req EXCEPT ![r] = q], jwts' = jwts,
             q.pc \notin {"issuePair", "issueAccess"} \/ q.user # u
      PROVE  Barred(u)
  BY <1>3, QuietBarred DEF AInv, AccountsTypeOK
<1>4. ASSUME NEW r \in Requests,
             \/ \E t \in Tokens : VerifyEmail(r, t) \/ ResetPassword(r, t)
             \/ MarkVerified(r)
             \/ SetPassword(r)
             \/ RequestFails(r)
             \/ InsertKey(r)
             \/ \E v \in Users : CountKeys(r, v) \/ CountKeysFails(r, v)
      PROVE  Barred(u)
  <2>1. jwts' = jwts
    BY <1>4 DEF VerifyEmail, ResetPassword, Redeem, MarkVerified, SetPassword, RequestFails,
                InsertKey, CountKeys, CountKeysFails
  <2>2. CASE \E t \in Tokens : VerifyEmail(r, t) \/ ResetPassword(r, t)
    <3>1. PICK t \in Tokens, pc \in {"verify", "reset"} :
             req' = [req EXCEPT ![r] = [pc |-> pc, user |-> tokens[t].user, token |-> t]]
      BY <2>2 DEF VerifyEmail, ResetPassword, Redeem
    <3>2. [pc |-> pc, user |-> tokens[t].user, token |-> t].pc \notin {"issuePair", "issueAccess"}
      OBVIOUS
    <3>3. QED
      BY <1>3, <2>1, <3>1, <3>2
  <2>3. CASE \E v \in Users : Start(r, "insertKey", v)
    <3>1. PICK v \in Users :
             req' = [req EXCEPT ![r] = [pc |-> "insertKey", user |-> v, token |-> 0]]
      BY <2>3 DEF Start
    <3>2. [pc |-> "insertKey", user |-> v, token |-> 0].pc \notin {"issuePair", "issueAccess"}
      OBVIOUS
    <3>3. QED
      BY <1>3, <2>1, <3>1, <3>2
  <2>4. CASE Finish(r)
    BY <1>3, <2>1, <2>4, Nothing DEF Finish
  <2>5. QED
    BY <1>4, <2>2, <2>3, <2>4
       DEF MarkVerified, SetPassword, RequestFails, InsertKey, CountKeys, CountKeysFails
<1>5. ASSUME NEW r \in Requests,
             \/ \E e \in Emails, p \in Tokens \cup {0} : Login(r, e, p)
             \/ \E v \in Users : RefreshToken(r, v)
      PROVE  Barred(u)
  <2>1. PICK v \in Users, pc \in {"issuePair", "issueAccess"} : Exists(v) /\ Start(r, pc, v)
    BY <1>5 DEF Login, RefreshToken, GetUserByEmail
  <2>2. v # u /\ jwts' = jwts
    BY <1>5, <2>1 DEF Exists, Login, RefreshToken
  <2>3. [pc |-> pc, user |-> v, token |-> 0].user # u
    BY <2>2
  <2>4. QED
    BY <1>3, <2>1, <2>2, <2>3 DEF Start
<1>6. ASSUME NEW r \in Requests, IssuePair(r) \/ IssueAccess(r) PROVE Barred(u)
  <2>1. /\ req[r].pc \in {"issuePair", "issueAccess"}
        /\ \A j \in jwts' : j \in jwts \/ j.user = req[r].user
        /\ req' = [req EXCEPT ![r] = NoRequest]
    BY <1>6 DEF IssuePair, IssueAccess, Finish
  <2>2. req'[r].pc = "idle" /\ \A z \in Requests : z # r => req'[z] = req[z]
    BY <2>1, Nothing DEF AInv, AccountsTypeOK
  <2>3. Issuing(u)' \subseteq Issuing(u)
    BY <2>2 DEF Issuing
  <2>4. CASE req[r].user = u
    <3>1. r \in Issuing(u) /\ r \notin Issuing(u)'
      BY <2>1, <2>2, <2>4 DEF Issuing
    <3>2. QED
      BY <2>3, <3>1 DEF Barred
  <2>5. CASE req[r].user # u
    BY <2>1, <2>3, <2>5 DEF Barred, JwtsOf
  <2>6. QED
    BY <2>4, <2>5
<1>7. ASSUME NEW v \in Users, DeleteUser(v) \/ AdminDeleteUser(v) PROVE Barred(u)
  BY <1>1, <1>7 DEF DeleteUser, AdminDeleteUser, DeleteUserByID
<1>8. ASSUME \/ \E k \in KeyIds : DeleteKey(k)
             \/ \E t \in Tokens : LinkExpires(t)
             \/ \E j \in jwts : JwtExpires(j)
             \/ UNCHANGED vars
      PROVE  Barred(u)
  BY <1>1, <1>8 DEF DeleteKey, LinkExpires, JwtExpires, vars
<1>9. CASE ServerCrash
  <2>1. jwts' = jwts /\ \A r \in Requests : req'[r].pc = "idle"
    BY <1>9, Nothing DEF ServerCrash
  <2>2. QED
    BY <2>1, QuietBarred
<1>10. QED
  BY <1>2, <1>4, <1>5, <1>6, <1>7, <1>8, <1>9 DEF Next

-----------------------------------------------------------------------------
\* The theorems.

\* Every behaviour of Accounts satisfies the invariant.
THEOREM AccountsInvariant == Spec => []AInv
BY InitAInv, NextAInv, PTL DEF Spec

\* Types, the bounds on ids and tokens among them.
THEOREM AccountsTypeCorrect == Spec => []AccountsTypeOK
<1>1. AInv => AccountsTypeOK
  BY DEF AInv
<1>2. QED
  BY <1>1, AccountsInvariant, PTL

\* The UPDATE of TokenRepo.Consume accepts a link once, however many requests
\* race for it and whatever fails, expires or is deleted in between.
THEOREM LinksAreRedeemedOnce == Spec => []RedeemedOnce
<1>1. AInv => RedeemedOnce
  BY DEF AInv, TokenInv, TokenOK, RedeemedOnce
<1>2. QED
  BY <1>1, AccountsInvariant, PTL

\* sendVerificationEmail and its like mail what is stored, to the address of
\* the account it is stored for.
THEOREM MailedLinksAreStored == Spec => []MailedIsStored
<1>1. AInv => MailedIsStored
  BY DEF AInv
<1>2. QED
  BY <1>1, AccountsInvariant, PTL

\* An address becomes verified only through a verification link of that very
\* account that was mailed to it.
THEOREM VerificationByMail == Spec => []VerifiedByMail
<1>1. AInv => VerifiedByMail
  BY DEF AInv, UserInv, UserOK, VerifiedByMail
<1>2. QED
  BY <1>1, AccountsInvariant, PTL

\* A password is replaced only through a reset link of that very account that
\* was mailed to it.
THEOREM ResetByMail == Spec => []PasswordByMail
<1>1. AInv => PasswordByMail
  BY DEF AInv, UserInv, UserOK, PasswordByMail
<1>2. QED
  BY <1>1, AccountsInvariant, PTL

\* Login and RefreshToken issue JWTs for accounts with a verified address only,
\* although RefreshToken does not look at it.
THEOREM JwtsOfVerified == Spec => []JwtOfVerified
<1>1. AInv => JwtOfVerified
  BY DEF AInv
<1>2. QED
  BY <1>1, AccountsInvariant, PTL

\* Creates of API keys that passed the check together overshoot the limit by no
\* more than their number less one, and one for each failed count.
THEOREM KeysBounded == Spec => []KeyOvershoot
<1>1. AInv /\ AInv' /\ KeyOvershoot /\ [Next]_vars => KeyOvershoot'
  BY KeyNext
<1>2. Init => KeyOvershoot
  BY InitCounts
<1>3. QED
  BY <1>1, <1>2, AccountsInvariant, PTL DEF Spec

\* The live links of an account and a type are no more than the goroutines that
\* make them at one time and the statements that failed.
THEOREM LiveLinksBounded == Spec => []LinksBounded
<1>1. AInv /\ AInv' /\ LinksBounded /\ [Next]_vars => LinksBounded'
  BY LinkNext
<1>2. Init => LinksBounded
  BY InitCounts
<1>3. QED
  BY <1>1, <1>2, AccountsInvariant, PTL DEF Spec

\* After its deletion an account begins neither a login nor a refresh, and only
\* a request that had read its row before may still answer with a JWT.
THEOREM DeletionBarsTokens == Spec => NoTokenAfterDeletion
<1> DEFINE Step == \A u \in Users : users[u].state = "deleted" =>
                      /\ Issuing(u)' \subseteq Issuing(u)
                      /\ Issuing(u)' = Issuing(u) => JwtsOf(u)' \subseteq JwtsOf(u)
<1>1. AInv /\ [Next]_vars => [Step]_vars
  BY DeletionNext DEF Barred
<1>2. QED
  BY <1>1, AccountsInvariant, PTL DEF Spec, NoTokenAfterDeletion
=============================================================================

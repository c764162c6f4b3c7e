-------------------------------- MODULE Users --------------------------------
(***************************************************************************)
(* Users, their tokens and roles (web/auth.go, web/users.go, web/rbac,     *)
(* web/middleware): one user name, the requests around it, and a server    *)
(* that may die. A change of the stored record reads it again under the    *)
(* lock of the name and writes it whole; a create and a delete take no     *)
(* lock. Tokens are numbers; what a role allows is left to Policies.       *)
(***************************************************************************)
EXTENDS Integers, FiniteSets, Sequences

CONSTANTS
    UserRequests,   \* requests at work at once
    MaxTokens,      \* bound on tokens
    MaxUserOps,     \* bound on requests
    MaxUserCrashes, \* bound on crashes
    NoUser

Passwords == {1, 2}
RoleNames == {"disabled", "viewer", "admin"}
Notes == {"signed", "proxied"}
UserRecords == [password : Passwords, role : RoleNames, tokens : SUBSET (Nat \X Notes)]

ASSUME UsersAssumption ==
    /\ MaxTokens \in Nat /\ MaxUserOps \in Nat /\ MaxUserCrashes \in Nat
    /\ NoUser \notin UserRequests \cup UserRecords

VARIABLES
    user,        \* the stored record, or NoUser
    userLock,    \* holder of the name's mutex, or NoUser
    userReq,     \* per request: where it is and what it holds
    tokensMade,  \* tokens signed so far
    kept,        \* acknowledged: tokens, role and password since the last delete
    loggedOut,   \* tokens whose logout was acknowledged
    userBudget   \* requests begun and crashes

userVars == <<user, userLock, userReq, tokensMade, kept, loggedOut, userBudget>>

NoUserRequest == [at |-> "rest"]
NothingKept == [tokens |-> {}, role |-> NoUser, password |-> NoUser]

\* Requests that change a record, by what they do to it.
UserSteps == {"rest", "create", "lock", "read", "save"}

UsersTypeOK ==
    /\ user # NoUser =>
        /\ user.password \in Passwords /\ user.role \in RoleNames
        /\ user.tokens \subseteq (1 .. tokensMade) \X Notes
        /\ Cardinality({t \in user.tokens : t[2] = "proxied"}) <= 1
    /\ userLock \in UserRequests \cup {NoUser}
    /\ \A q \in UserRequests : userReq[q].at \in UserSteps
    /\ \A q \in UserRequests : userLock = q <=> userReq[q].at \in {"read", "save"}

NewUser(p) == [password |-> p, role |-> "disabled", tokens |-> {}]

UsersInit ==
    /\ user \in {NoUser, [NewUser(1) EXCEPT !.role = "admin"]}
    /\ userLock = NoUser
    /\ userReq = [q \in UserRequests |-> NoUserRequest]
    /\ tokensMade = 0 /\ kept = NothingKept /\ loggedOut = {}
    /\ userBudget = [ops |-> 0, crashes |-> 0]

----------------------------------------------------------------------------
(* Changes of a record, each a function of what is stored.                 *)

\* Fault: proxied tokens pile up.
AddsAnother(u, t, note) == [u EXCEPT !.tokens = @ \cup {<<t, note>>}]

\* AddToken: one proxied token at most.
AddToken(u, t, note) ==
    [u EXCEPT !.tokens = {x \in @ : ~(note = "proxied" /\ x[2] = "proxied")} \cup {<<t, note>>}]

DeleteToken(u, t) == [u EXCEPT !.tokens = {x \in @ : x[1] # t}]
SetRole(u, r) == [u EXCEPT !.role = r]
UpdatePassword(u, p) == [u EXCEPT !.password = p]

Changed(u, c) ==
    CASE c.is = "token" -> AddToken(u, c.token, c.note)
      [] c.is = "logout" -> DeleteToken(u, c.token)
      [] c.is = "role" -> SetRole(u, c.role)
      [] c.is = "password" -> UpdatePassword(u, c.password)
      [] c.is = "name" -> u

\* What the client is told, once the change is stored.
Acknowledged(c) ==
    CASE c.is = "token" ->
            [kept EXCEPT !.tokens = {x \in @ : ~(c.note = "proxied" /\ x[2] = "proxied")} \cup {<<c.token, c.note>>}]
      [] c.is = "logout" -> [kept EXCEPT !.tokens = {x \in @ : x[1] # c.token}]
      [] c.is = "role" -> [kept EXCEPT !.role = c.role]
      [] c.is = "password" -> [kept EXCEPT !.password = c.password]
      [] c.is = "name" -> kept

----------------------------------------------------------------------------
(* Requests. A request that is allowed carries the changes it will make,   *)
(* each an update of its own.                                              *)

Puts(q, r) == userReq' = [userReq EXCEPT ![q] = r]
Begun(q) ==
    /\ userReq[q] = NoUserRequest /\ userBudget.ops < MaxUserOps
    /\ userBudget' = [userBudget EXCEPT !.ops = @ + 1]

\* The user middleware: the token is still stored for the user, and the role
\* is the one stored now.
Auth(t, roles) ==
    /\ user # NoUser
    /\ \E note \in Notes : <<t, note>> \in user.tokens
    /\ user.role \in roles

SignsToken(q, changes) ==
    /\ tokensMade < MaxTokens /\ tokensMade' = tokensMade + 1
    /\ Puts(q, [at |-> "lock", copy |-> user, todo |-> changes])

\* Signup, CreateUser: the record is created if there is none, with no role;
\* the token, or the role, is a second write.
Signup(q, p, note) ==
    /\ Begun(q) /\ tokensMade < MaxTokens
    /\ Puts(q, [at |-> "create", password |-> p, todo |-> <<[is |-> "token", token |-> tokensMade + 1, note |-> note]>>])
    /\ tokensMade' = tokensMade + 1
    /\ UNCHANGED <<user, userLock, kept, loggedOut>>

CreateUser(q, p, r) ==
    /\ Begun(q)
    /\ Puts(q, [at |-> "create", password |-> p, todo |-> <<[is |-> "role", role |-> r]>>])
    /\ UNCHANGED <<user, userLock, tokensMade, kept, loggedOut>>

\* createUser: a name that is taken is refused.
StoresUser(q) ==
    /\ userReq[q].at = "create"
    /\ IF user = NoUser
       THEN /\ user' = NewUser(userReq[q].password)
            /\ Puts(q, [at |-> "lock", copy |-> user', todo |-> userReq[q].todo])
       ELSE UNCHANGED user /\ Puts(q, NoUserRequest)
    /\ UNCHANGED <<userLock, tokensMade, kept, loggedOut, userBudget>>

\* Login: the password is compared with the record as it is now; behind a
\* proxy it is not.
Login(q, p, note) ==
    /\ Begun(q) /\ user # NoUser
    /\ note = "proxied" \/ user.password = p
    /\ SignsToken(q, <<[is |-> "token", token |-> tokensMade + 1, note |-> note]>>)
    /\ UNCHANGED <<user, userLock, kept, loggedOut>>

\* CreateUserToken, by the user or an administrator.
CreateUserToken(q, t) ==
    /\ Begun(q) /\ Auth(t, {"viewer", "admin"})
    /\ SignsToken(q, <<[is |-> "token", token |-> tokensMade + 1, note |-> "signed"]>>)
    /\ UNCHANGED <<user, userLock, kept, loggedOut>>

Logout(q, t) ==
    /\ Begun(q) /\ Auth(t, RoleNames)
    /\ Puts(q, [at |-> "lock", copy |-> user, todo |-> <<[is |-> "logout", token |-> t]>>])
    /\ UNCHANGED <<user, userLock, tokensMade, kept, loggedOut>>

\* UpdateUser: names, role and password, one update after the other. The old
\* password is compared with the copy that the updates before it left.
UpdateUser(q, t, r, p) ==
    /\ Begun(q) /\ Auth(t, {"viewer", "admin"})
    /\ Puts(q, [at |-> "lock", copy |-> user,
                todo |-> <<[is |-> "name"]>>
                         \o (IF user.role = "admin" THEN <<[is |-> "role", role |-> r]>> ELSE <<>>)
                         \o <<[is |-> "password", old |-> p, password |-> 3 - p]>>])
    /\ UNCHANGED <<user, userLock, tokensMade, kept, loggedOut>>

\* DeleteUser takes no lock.
DeleteUser(q) ==
    /\ Begun(q) /\ user # NoUser
    /\ user' = NoUser /\ kept' = NothingKept
    /\ UNCHANGED <<userLock, userReq, tokensMade, loggedOut>>

----------------------------------------------------------------------------
(* User.update.                                                            *)

Now(q) == userReq[q].todo[1]
Later(q) == [i \in 1 .. Len(userReq[q].todo) - 1 |-> userReq[q].todo[i + 1]]

\* UpdatePassword refuses an old password that is not the copy's.
PasswordRefused(q) ==
    /\ userReq[q].at = "lock" /\ Now(q).is = "password" /\ userReq[q].copy.password # Now(q).old
    /\ Puts(q, NoUserRequest)
    /\ UNCHANGED <<user, userLock, tokensMade, kept, loggedOut, userBudget>>

LocksUser(q) ==
    /\ userReq[q].at = "lock" /\ userLock = NoUser
    /\ Now(q).is = "password" => userReq[q].copy.password = Now(q).old
    /\ userLock' = q
    /\ Puts(q, [userReq[q] EXCEPT !.at = "read"])
    /\ UNCHANGED <<user, tokensMade, kept, loggedOut, userBudget>>

\* Fault: the copy of the handler is taken for what is stored.
TrustsCopy(q) ==
    /\ userReq[q].at = "read" /\ user # NoUser
    /\ Puts(q, [userReq[q] EXCEPT !.at = "save"])
    /\ UNCHANGED <<user, userLock, tokensMade, kept, loggedOut, userBudget>>

RereadsUser(q) ==
    /\ userReq[q].at = "read"
    /\ IF user = NoUser
       THEN Puts(q, NoUserRequest) /\ userLock' = NoUser
       ELSE Puts(q, [userReq[q] EXCEPT !.at = "save", !.copy = user]) /\ UNCHANGED userLock
    /\ UNCHANGED <<user, tokensMade, kept, loggedOut, userBudget>>

\* Save fails when the user is gone; an error of SetRole is not looked at.
SavesUser(q) ==
    LET new == Changed(userReq[q].copy, Now(q))
    IN  /\ userReq[q].at = "save"
        /\ userLock' = NoUser
        /\ IF user = NoUser
           THEN UNCHANGED <<user, kept, loggedOut>>
           ELSE /\ user' = new
                /\ kept' = Acknowledged(Now(q))
                /\ loggedOut' = IF Now(q).is = "logout" THEN loggedOut \cup {Now(q).token} ELSE loggedOut
        /\ IF Later(q) = <<>> \/ (user = NoUser /\ Now(q).is # "role")
           THEN Puts(q, NoUserRequest)
           ELSE Puts(q, [at |-> "lock", todo |-> Later(q), copy |-> IF user = NoUser THEN userReq[q].copy ELSE new])
        /\ UNCHANGED <<tokensMade, userBudget>>

\* The server dies: requests and locks are gone, a user between create and
\* role stays disabled.
UsersCrash ==
    /\ userBudget.crashes < MaxUserCrashes
    /\ \E q \in UserRequests : userReq[q] # NoUserRequest
    /\ userBudget' = [userBudget EXCEPT !.crashes = @ + 1]
    /\ userReq' = [q \in UserRequests |-> NoUserRequest] /\ userLock' = NoUser
    /\ UNCHANGED <<user, tokensMade, kept, loggedOut>>

UpdateStep(q) == PasswordRefused(q) \/ LocksUser(q) \/ RereadsUser(q) \/ SavesUser(q)

UsersNext ==
    \/ \E q \in UserRequests :
        \/ StoresUser(q) \/ UpdateStep(q) \/ DeleteUser(q)
        \/ \E p \in Passwords, n \in Notes : Signup(q, p, n) \/ Login(q, p, n)
        \/ \E p \in Passwords, r \in RoleNames : CreateUser(q, p, r)
        \/ \E t \in 1 .. MaxTokens : CreateUserToken(q, t) \/ Logout(q, t)
        \/ \E t \in 1 .. MaxTokens, r \in RoleNames, p \in Passwords : UpdateUser(q, t, r, p)
    \/ UsersCrash

UsersSpec == UsersInit /\ [][UsersNext]_userVars

----------------------------------------------------------------------------
\* What a request was told is stored stays stored until it is changed or the
\* user is deleted, and a token that was logged out never works again,
\* whatever ran beside it ("so parallel requests keep each other's changes",
\* User.update).
AcknowledgedKept ==
    user # NoUser =>
        /\ kept.tokens \subseteq user.tokens
        /\ kept.role # NoUser => user.role = kept.role
        /\ kept.password # NoUser => user.password = kept.password
        /\ \A t \in user.tokens : t[1] \notin loggedOut
=============================================================================

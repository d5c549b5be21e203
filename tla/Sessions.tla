------------------------------ MODULE Sessions ------------------------------
(***************************************************************************)
(* Accounts and sessions: register, login, refresh and logout              *)
(* (src/auth/auth.service.ts) on the tables users and sessions.  Requests  *)
(* are handled on any node; an action is a handler's code from one query   *)
(* to the next, with the hashing and signing in between, which nobody else *)
(* observes.  Ids are positions: uuidv7 orders rows by their insertion.    *)
(***************************************************************************)
EXTENDS Integers, Sequences, FiniteSets

CONSTANTS
    Callers,      \* requests in progress at once
    Emails, Names,
    None,
    MaxSessions,  \* bound: rows of sessions
    MaxDbFaults   \* bound: queries that fail

ASSUME SessionsAssumption ==
    /\ None \notin Emails \cup Names
    /\ MaxSessions \in Nat
    /\ MaxDbFaults \in Nat

VARIABLES
    users,      \* table users: [email, name]
    sessions,   \* table sessions: its user, and the session whose token asked for it
    revoked,    \* sessions whose revoked_at is set
    lapsed,     \* sessions up to this one are past expires_at, as are their tokens
    loggedOut,  \* sessions that a logout was asked to end
    held,       \* sessions whose refresh token a client was answered with
    request,    \* what the handlers work on
    dbFaults

vars == <<users, sessions, revoked, lapsed, loggedOut, held, request, dbFaults>>

Idle == [pc |-> "idle", email |-> None, name |-> None,
         user |-> 0, from |-> 0, matched |-> 0, created |-> 0]

\* A request that is to create a session for user u: a refresh with the token of t
\* that matched i, or, with 0, a register or login.
Creating(u, t, i) == [pc |-> "create", email |-> None, name |-> None,
                      user |-> u, from |-> t, matched |-> i, created |-> 0]
Inserting(e, n) == [pc |-> "insert", email |-> e, name |-> n,
                    user |-> 0, from |-> 0, matched |-> 0, created |-> 0]

Row(S) == 1..Len(S)
Request == [pc : {"idle", "insert", "create", "revoke"},
            email : Emails \cup {None}, name : Names \cup {None},
            user : Nat, from : Nat, matched : Nat, created : Nat]

SessionsTypeOK ==
    /\ users \in Seq([email : Emails, name : Names])
    /\ sessions \in Seq([user : Nat, from : Nat])
    /\ \A i \in Row(sessions) : sessions[i].user \in Row(users) /\ sessions[i].from \in 0..i-1
    /\ revoked \subseteq Row(sessions)
    /\ loggedOut \subseteq revoked
    /\ held \subseteq Row(sessions)
    /\ lapsed \in 0..Len(sessions)
    /\ request \in [Callers -> Request]
    /\ dbFaults \in 0..MaxDbFaults

Init ==
    /\ users = <<>>
    /\ sessions = <<>>
    /\ revoked = {}
    /\ lapsed = 0
    /\ loggedOut = {}
    /\ held = {}
    /\ request = [h \in Callers |-> Idle]
    /\ dbFaults = 0

-----------------------------------------------------------------------------
Starts(h, r) ==
    /\ request[h] = Idle
    /\ Len(sessions) + Cardinality({g \in Callers : request[g].pc \in {"insert", "create"}})
           < MaxSessions
    /\ request' = [request EXCEPT ![h] = r]
    /\ UNCHANGED <<users, sessions, revoked, lapsed, loggedOut, held, dbFaults>>

\* register: a known e-mail is answered with tokens of its account, another one is
\* inserted.  The name is not looked up: findByEmail returns a promise, never null.
Register(h, e, n) ==
    \/ \E u \in Row(users) :
          users[u].email = e /\ Starts(h, Creating(u, 0, 0))
    \/ /\ \A u \in Row(users) : users[u].email # e
       /\ Starts(h, Inserting(e, n))

\* login with the right password; with a wrong one, or an unknown e-mail, it is
\* refused and nothing changes.
Login(h, u) == Starts(h, Creating(u, 0, 0))

Live == {i \in Row(sessions) : i > lapsed /\ i \notin revoked}

WholeToken(t, i) == t = i  \* mutant of Matches

\* bcrypt reads 72 bytes.  The refresh tokens of a user have more than that in
\* common, header and first half of the user id, so any of them matches any hash.
Matches(t, i) == sessions[t].user = sessions[i].user

\* refresh: the token is verified, the live sessions of its user are read, and the
\* first one that matches is taken; the query gives no order.
Refresh(h, t, i) ==
    /\ t > lapsed
    /\ i \in Live
    /\ sessions[i].user = sessions[t].user
    /\ Matches(t, i)
    /\ Starts(h, Creating(sessions[t].user, t, i))

-----------------------------------------------------------------------------
Answer(h, i) ==
    /\ held' = held \cup {i}
    /\ request' = [request EXCEPT ![h] = Idle]

TrustsLookup(e, n) == TRUE  \* mutant of Unique

\* The unique constraints of the table.
Unique(e, n) == \A u \in Row(users) : users[u].email # e /\ users[u].name # n

GoesOnAnyway(h) ==  \* mutant of InsertUser
    LET r == request[h] IN
    /\ r.pc = "insert"
    /\ users' = IF Unique(r.email, r.name)
                THEN Append(users, [email |-> r.email, name |-> r.name]) ELSE users
    /\ request' = [request EXCEPT ![h] = Creating(Len(users) + 1, 0, 0)]
    /\ UNCHANGED <<sessions, revoked, lapsed, loggedOut, held, dbFaults>>

\* createUser.  A row that breaks a constraint is refused, which ends the request.
InsertUser(h) ==
    LET r == request[h] IN
    /\ r.pc = "insert"
    /\ IF Unique(r.email, r.name)
       THEN /\ users' = Append(users, [email |-> r.email, name |-> r.name])
            /\ request' = [request EXCEPT ![h] = Creating(Len(users) + 1, 0, 0)]
       ELSE /\ request' = [request EXCEPT ![h] = Idle]
            /\ UNCHANGED users
    /\ UNCHANGED <<sessions, revoked, lapsed, loggedOut, held, dbFaults>>

NewSession(r) == sessions' = Append(sessions, [user |-> r.user, from |-> r.from])

\* createSessionAndTokens.  A refresh goes on to revoke the session it matched.
CreateSession(h) ==
    LET r == request[h] IN
    /\ r.pc = "create"
    /\ NewSession(r)
    /\ IF r.matched = 0
       THEN Answer(h, Len(sessions) + 1)
       ELSE /\ request' = [request EXCEPT ![h].pc = "revoke", ![h].created = Len(sessions) + 1]
            /\ UNCHANGED held
    /\ UNCHANGED <<users, revoked, lapsed, loggedOut, dbFaults>>

RevokesOthers(h) ==  \* mutant of Revoke
    /\ request[h].pc = "revoke"
    /\ revoked' = revoked \cup {i \in 1..request[h].created - 1 :
                                   sessions[i].user = request[h].user}
    /\ Answer(h, request[h].created)
    /\ UNCHANGED <<users, sessions, lapsed, loggedOut, dbFaults>>

Revoke(h) ==
    /\ request[h].pc = "revoke"
    /\ revoked' = revoked \cup {request[h].matched}
    /\ Answer(h, request[h].created)
    /\ UNCHANGED <<users, sessions, lapsed, loggedOut, dbFaults>>

\* logout, with the access token of a client that was answered once: of one session
\* of its user, or, without a sessionId, of all that are not revoked.
Logout(u) ==
    /\ \E t \in held : sessions[t].user = u
    /\ \E E \in {{i} : i \in Row(sessions)} \cup {Row(sessions) \ revoked} :
          LET ended == {i \in E : sessions[i].user = u} IN
          /\ revoked' = revoked \cup ended
          /\ loggedOut' = loggedOut \cup ended
    /\ UNCHANGED <<users, sessions, lapsed, held, request, dbFaults>>

\* Thirty days pass; sessions expire in the order in which they were created.
Lapse ==
    /\ lapsed < Len(sessions)
    /\ lapsed' = lapsed + 1
    /\ UNCHANGED <<users, sessions, revoked, loggedOut, held, request, dbFaults>>

\* A query is rejected, before or after it took effect, or the node is gone: the
\* request ends without an answer.
DbFails(h) ==
    LET r == request[h] IN
    /\ r.pc # "idle"
    /\ dbFaults < MaxDbFaults
    /\ \/ UNCHANGED <<users, sessions, revoked>>
       \/ /\ r.pc = "insert" /\ Unique(r.email, r.name)
          /\ users' = Append(users, [email |-> r.email, name |-> r.name])
          /\ UNCHANGED <<sessions, revoked>>
       \/ r.pc = "create" /\ NewSession(r) /\ UNCHANGED <<users, revoked>>
       \/ /\ r.pc = "revoke"
          /\ revoked' = revoked \cup {r.matched}
          /\ UNCHANGED <<users, sessions>>
    /\ dbFaults' = dbFaults + 1
    /\ request' = [request EXCEPT ![h] = Idle]
    /\ UNCHANGED <<lapsed, loggedOut, held>>

Next ==
    \/ \E h \in Callers, e \in Emails, n \in Names : Register(h, e, n)
    \/ \E h \in Callers, u \in Row(users) : Login(h, u)
    \/ \E h \in Callers, t \in held, i \in Row(sessions) : Refresh(h, t, i)
    \/ \E h \in Callers : InsertUser(h) \/ CreateSession(h) \/ Revoke(h) \/ DbFails(h)
    \/ \E u \in Row(users) : Logout(u)
    \/ Lapse

Spec == Init /\ [][Next]_vars

-----------------------------------------------------------------------------
(* Properties *)

\* Registrations that look their e-mail up at the same time do not make two
\* accounts of one e-mail or of one name.
AccountsUnique ==
    \A u, v \in Row(users) :
        users[u].email = users[v].email \/ users[u].name = users[v].name => u = v

LoggedOutSince(t) == \E i \in loggedOut : i >= t /\ sessions[i].user = sessions[t].user

\* A client is not stranded: with a refresh token that has not expired it finds a
\* live session, unless its user has logged out of that session or a later one,
\* though other requests refresh with the same token meanwhile and the answer to
\* its own last refresh may be lost after the session was revoked.
HeldCanRefresh ==
    \A t \in held : t > lapsed /\ ~LoggedOutSince(t) => \E i \in Live : Matches(t, i)

\* The refreshes of a user revoke no more sessions than they create: what they do
\* to each other's sessions costs no device its login
\* (src/db/migrations/001_init.sql:13, multiple login support).
LoginsKept ==
    \A u \in Row(users) :
        Cardinality({i \in revoked \ loggedOut : sessions[i].user = u})
            <= Cardinality({i \in Row(sessions) : sessions[i].user = u /\ sessions[i].from # 0})

\* src/auth/auth.controller.ts:86, log out current session or a specific session:
\* once a session is logged out, no refresh with its token opens another one.
LoggedOutStaysOut ==
    [][\A i \in Row(sessions') \ Row(sessions) : sessions'[i].from \notin loggedOut]_vars

=============================================================================

--------------------------- MODULE SessionsProofs ---------------------------
(***************************************************************************)
(* Proofs about Sessions, for all values of its constants: accounts are    *)
(* unique, and a client that holds a token is not stranded.                *)
(*                                                                         *)
(* The argument for HeldCanRefresh: from every session there is a chain of *)
(* successors to one that is not revoked (ChainInv).  A handler that is    *)
(* about to revoke a session has created a later one of the same user      *)
(* (RequestInv), whose own chain does not need the one that is revoked.    *)
(*                                                                         *)
(* For LoginsKept: each session that was revoked and not logged out has a  *)
(* session of its own that the refresh created which revoked it (PairInv). *)
(***************************************************************************)
EXTENDS Sessions, FiniteSetTheorems, FunctionTheorems, TLAPS

\* What is known of a request that is in progress.
RequestFacts(r, us, ss) ==
    /\ r \in Request
    /\ r.pc = "insert" => r.email \in Emails /\ r.name \in Names
    /\ r.pc = "create" =>
          /\ r.user \in 1..Len(us)
          /\ r.from \in 0..Len(ss)
          /\ r.matched # 0 => r.matched \in 1..Len(ss) /\ ss[r.matched].user = r.user
    /\ r.pc = "revoke" =>
          /\ r.matched \in 1..Len(ss) /\ ss[r.matched].user = r.user
          /\ r.created \in 1..Len(ss) /\ ss[r.created].user = r.user
          /\ r.matched < r.created

RequestInv == \A h \in Callers : RequestFacts(request[h], users, sessions)

\* From session t on there is one of its user that is not revoked, or was logged out.
Chained(t, ss, rv, lo) ==
    \/ \E i \in lo : i >= t /\ ss[i].user = ss[t].user
    \/ \E i \in 1..Len(ss) : i >= t /\ i \notin rv /\ ss[i].user = ss[t].user

ChainInv == \A t \in Row(sessions) : Chained(t, sessions, revoked, loggedOut)

\* The tables are as they were, or have rows added.
TablesGrow ==
    /\ Len(users') \in Nat /\ Len(users) <= Len(users')
    /\ Len(sessions') \in Nat /\ Len(sessions) <= Len(sessions')
    /\ \A i \in Row(sessions) : sessions'[i] = sessions[i]

Inv ==
    /\ SessionsTypeOK
    /\ RequestInv
    /\ ChainInv
    /\ AccountsUnique

-----------------------------------------------------------------------------
(* Lemmas *)

\* Appending to a table: what it holds, and where.
LEMMA Appended ==
    ASSUME NEW T, NEW q \in Seq(T), NEW x \in T
    PROVE  /\ Append(q, x) \in Seq(T)
           /\ Len(Append(q, x)) = Len(q) + 1
           /\ Len(q) \in Nat
           /\ \A i \in 1..Len(q) : Append(q, x)[i] = q[i]
           /\ Append(q, x)[Len(q) + 1] = x
  OBVIOUS

\* A request that has ended is as good as none.
LEMMA IdleFacts == ASSUME NEW us, NEW ss PROVE RequestFacts(Idle, us, ss)
  BY DEF RequestFacts, Idle, Request

\* A request that is to create a session for a user of the table.
LEMMA CreatingFacts ==
    ASSUME NEW us, NEW ss, NEW u \in 1..Len(us), Len(us) \in Nat, Len(ss) \in Nat,
           NEW t \in 0..Len(ss), NEW i \in 0..Len(ss), i # 0 => ss[i].user = u
    PROVE  RequestFacts(Creating(u, t, i), us, ss)
  BY DEF RequestFacts, Creating, Request

\* A request that is to insert an account.
LEMMA InsertingFacts ==
    ASSUME NEW us, NEW ss, NEW e \in Emails, NEW n \in Names
    PROVE  RequestFacts(Inserting(e, n), us, ss)
  BY DEF RequestFacts, Inserting, Request

\* The tables may grow under a request.
LEMMA FactsGrow ==
    ASSUME NEW r, NEW us, NEW ss, NEW us2, NEW ss2, RequestFacts(r, us, ss),
           Len(us) \in Nat, Len(ss) \in Nat, Len(us2) \in Nat, Len(ss2) \in Nat,
           Len(us) <= Len(us2), Len(ss) <= Len(ss2), \A i \in 1..Len(ss) : ss2[i] = ss[i]
    PROVE  RequestFacts(r, us2, ss2)
  BY DEF RequestFacts

\* A refresh that goes on from its create to its revoke is still a request.
LEMMA GoesOn ==
    ASSUME NEW r \in Request, NEW n \in Nat
    PROVE  LET next == [r EXCEPT !.pc = "revoke", !.created = n] IN
           /\ next \in Request /\ next.pc = "revoke" /\ next.created = n
           /\ next.user = r.user /\ next.matched = r.matched
  BY DEF Request

\* Tables that are left alone have grown by nothing.
LEMMA TablesStay == Inv /\ UNCHANGED <<users, sessions>> => TablesGrow
  BY DEF TablesGrow, Inv, SessionsTypeOK

\* A handler ends, or goes on to a request that is known to be sound, and the
\* tables are as they were or have grown.
LEMMA RequestStep ==
    ASSUME Inv, TablesGrow, NEW h \in Callers, NEW r, RequestFacts(r, users', sessions'),
           request' = [request EXCEPT ![h] = r]
    PROVE  RequestInv' /\ request' \in [Callers -> Request]
  <1>1. Len(users) \in Nat /\ Len(sessions) \in Nat /\ request \in [Callers -> Request]
    BY DEF Inv, SessionsTypeOK
  <1>2. ASSUME NEW g \in Callers PROVE RequestFacts(request'[g], users', sessions')
    <2>1. CASE g = h
      BY <2>1, <1>1
    <2>2. CASE g # h
      <3>1. request'[g] = request[g] /\ RequestFacts(request[g], users, sessions)
        BY <2>2, <1>1 DEF Inv, RequestInv
      <3>2. QED
        BY <3>1, <1>1, FactsGrow DEF TablesGrow, Row
    <2>3. QED
      BY <2>1, <2>2
  <1>3. r \in Request
    BY DEF RequestFacts
  <1>4. QED
    BY <1>1, <1>2, <1>3 DEF RequestInv

\* A user is added whose e-mail and name are new.
LEMMA UserAdded ==
    ASSUME Inv, NEW e \in Emails, NEW n \in Names, Unique(e, n),
           users' = Append(users, [email |-> e, name |-> n])
    PROVE  /\ users' \in Seq([email : Emails, name : Names])
           /\ Len(users') = Len(users) + 1
           /\ Len(users) \in Nat
           /\ AccountsUnique'
  <1>1. /\ users' \in Seq([email : Emails, name : Names])
        /\ Len(users') = Len(users) + 1
        /\ Len(users) \in Nat
        /\ \A i \in 1..Len(users) : users'[i] = users[i]
        /\ users'[Len(users) + 1] = [email |-> e, name |-> n]
    <2>1. users \in Seq([email : Emails, name : Names])
      BY DEF Inv, SessionsTypeOK
    <2>2. [email |-> e, name |-> n] \in [email : Emails, name : Names]
      OBVIOUS
    <2> HIDE DEF Inv
    <2>3. QED
      BY <2>1, <2>2, Appended
  <1>2. SUFFICES ASSUME NEW u \in 1..Len(users) + 1, NEW v \in 1..Len(users) + 1, u < v,
                        users'[u].email = users'[v].email \/ users'[u].name = users'[v].name
                 PROVE  FALSE
    BY <1>1 DEF AccountsUnique, Row
  <1>3. u \in 1..Len(users) /\ users'[u] = users[u]
    BY <1>1, <1>2
  <1>4. CASE v = Len(users) + 1
    BY <1>1, <1>2, <1>3, <1>4 DEF Unique, Row
  <1>5. CASE v \in 1..Len(users)
    BY <1>1, <1>2, <1>3, <1>5 DEF Inv, AccountsUnique, Row
  <1>6. QED
    BY <1>1, <1>4, <1>5

\* A session is added for a user; it is not revoked, so it ends the chain of its
\* user, and the others keep theirs.
LEMMA SessionAdded ==
    ASSUME Inv, NEW h \in Callers, request[h].pc = "create", NewSession(request[h]),
           UNCHANGED <<users, revoked, loggedOut>>
    PROVE  /\ sessions' \in Seq([user : Nat, from : Nat])
           /\ \A i \in Row(sessions)' : /\ sessions'[i].user \in Row(users)
                                        /\ sessions'[i].from \in 0..i-1
           /\ Len(sessions') = Len(sessions) + 1
           /\ Len(sessions) \in Nat
           /\ \A i \in Row(sessions) : sessions'[i] = sessions[i]
           /\ sessions'[Len(sessions) + 1].user = request[h].user
           /\ ChainInv'
  <1> DEFINE x == [user |-> request[h].user, from |-> request[h].from]
             n == Len(sessions) + 1
  <1>1. /\ request[h].user \in Row(users) /\ request[h].from \in 0..Len(sessions)
        /\ sessions \in Seq([user : Nat, from : Nat]) /\ Len(sessions) \in Nat
        /\ Len(users) \in Nat /\ x \in [user : Nat, from : Nat]
        /\ \A i \in Row(sessions) : /\ sessions[i].user \in Row(users)
                                    /\ sessions[i].from \in 0..i-1
        /\ revoked \subseteq Row(sessions) /\ loggedOut \subseteq Row(sessions)
    <2>1. /\ Len(users) \in Nat /\ Len(sessions) \in Nat
          /\ sessions \in Seq([user : Nat, from : Nat])
          /\ \A i \in Row(sessions) : /\ sessions[i].user \in Row(users)
                                      /\ sessions[i].from \in 0..i-1
          /\ revoked \subseteq Row(sessions) /\ loggedOut \subseteq Row(sessions)
      BY DEF Inv, SessionsTypeOK
    <2>2. request[h].user \in Row(users) /\ request[h].from \in 0..Len(sessions)
      BY DEF Inv, RequestInv, RequestFacts, Row
    <2>3. x \in [user : Nat, from : Nat]
      <3>1. request[h].user \in Nat /\ request[h].from \in Nat
        BY <2>1, <2>2 DEF Row
      <3>2. QED
        BY <3>1
    <2> HIDE DEF x, n, Inv
    <2>4. QED
      BY <2>1, <2>2, <2>3
  <1>2. /\ sessions' \in Seq([user : Nat, from : Nat])
        /\ Len(sessions') = n
        /\ \A i \in 1..Len(sessions) : sessions'[i] = sessions[i]
        /\ sessions'[n] = x
    <2>1. sessions' = Append(sessions, x)
      BY DEF NewSession
    <2> HIDE DEF x, Inv
    <2>2. QED
      BY <1>1, <2>1, Appended
  <1>3. ASSUME NEW i \in Row(sessions)'
        PROVE  sessions'[i].user \in Row(users) /\ sessions'[i].from \in 0..i-1
    <2>1. CASE i = n
      BY <2>1, <1>1, <1>2
    <2>2. CASE i \in Row(sessions)
      BY <2>2, <1>1, <1>2 DEF Row
    <2>3. QED
      BY <2>1, <2>2, <1>1, <1>2 DEF Row
  <1>4. ASSUME NEW t \in Row(sessions)' PROVE Chained(t, sessions', revoked', loggedOut')
    <2>1. CASE t = n
      <3>1. n \in 1..Len(sessions') /\ n >= t /\ n \notin revoked
        BY <2>1, <1>1, <1>2 DEF Row
      <3>2. QED
        BY <3>1, <2>1 DEF Chained
    <2>2. CASE t \in Row(sessions)
      <3>1. Chained(t, sessions, revoked, loggedOut)
        BY <2>2 DEF Inv, ChainInv
      <3>2. ASSUME NEW i \in loggedOut, i >= t, sessions[i].user = sessions[t].user
            PROVE  Chained(t, sessions', revoked', loggedOut')
        <4>1. i \in Row(sessions)
          BY <1>1
        <4>2. sessions'[i].user = sessions'[t].user
          BY <3>2, <4>1, <2>2, <1>2 DEF Row
        <4>3. QED
          BY <4>2, <3>2 DEF Chained
      <3>3. ASSUME NEW i \in 1..Len(sessions), i >= t, i \notin revoked,
                   sessions[i].user = sessions[t].user
            PROVE  Chained(t, sessions', revoked', loggedOut')
        <4>1. i \in 1..Len(sessions')
          BY <1>1, <1>2
        <4>2. sessions'[i].user = sessions'[t].user
          BY <3>3, <2>2, <1>2 DEF Row
        <4>3. QED
          BY <4>1, <4>2, <3>3 DEF Chained
      <3>4. QED
        BY <3>1, <3>2, <3>3 DEF Chained
    <2>3. QED
      BY <2>1, <2>2, <1>1, <1>2 DEF Row
  <1>5. QED
    BY <1>1, <1>2, <1>3, <1>4 DEF ChainInv, Row

\* A session that a refresh has replaced is revoked.
LEMMA SessionRevoked ==
    ASSUME Inv, NEW h \in Callers, request[h].pc = "revoke",
           revoked' = revoked \cup {request[h].matched}, UNCHANGED <<sessions, loggedOut>>
    PROVE  revoked' \subseteq Row(sessions) /\ loggedOut' \subseteq revoked' /\ ChainInv'
  <1> DEFINE m == request[h].matched
             c == request[h].created
  <1>1. /\ m \in Row(sessions) /\ c \in Row(sessions) /\ m < c
        /\ sessions[m].user = sessions[c].user /\ Len(sessions) \in Nat
        /\ revoked \subseteq Row(sessions) /\ loggedOut \subseteq revoked
    BY DEF Inv, RequestInv, RequestFacts, SessionsTypeOK, Row
  <1>2. ASSUME NEW t \in Row(sessions) PROVE Chained(t, sessions, revoked', loggedOut)
    <2>1. Chained(t, sessions, revoked, loggedOut) /\ Chained(c, sessions, revoked, loggedOut)
      BY <1>1 DEF Inv, ChainInv
    <2>2. CASE Chained(t, sessions, revoked', loggedOut)
      BY <2>2
    <2>3. CASE ~Chained(t, sessions, revoked', loggedOut)
      \* Only m kept t chained, and what keeps c chained does the same for t.
      <3>1. m >= t /\ sessions[m].user = sessions[t].user
        BY <2>1, <2>3 DEF Chained
      <3>2. ASSUME NEW i \in loggedOut, i >= c, sessions[i].user = sessions[c].user
            PROVE  Chained(t, sessions, revoked', loggedOut)
        BY <1>1, <3>1, <3>2 DEF Chained, Row
      <3>3. ASSUME NEW i \in 1..Len(sessions), i >= c, i \notin revoked,
                   sessions[i].user = sessions[c].user
            PROVE  Chained(t, sessions, revoked', loggedOut)
        BY <1>1, <3>1, <3>3 DEF Chained, Row
      <3>4. QED
        BY <2>1, <3>2, <3>3 DEF Chained
    <2>4. QED
      BY <2>2, <2>3
  <1>3. QED
    BY <1>1, <1>2 DEF ChainInv, Row

-----------------------------------------------------------------------------
(* The invariant *)

\* The invariant holds of empty tables.
LEMMA InitInv == Init => Inv
  BY SessionsAssumption, IdleFacts
     DEF Init, Inv, SessionsTypeOK, RequestInv, ChainInv, AccountsUnique, Row, Idle, Request

\* The steps of a request.
LEMMA StartsStep ==
    ASSUME Inv, NEW h \in Callers, NEW r, Starts(h, r), RequestFacts(r, users, sessions)
    PROVE  Inv'
  <1>1. RequestInv' /\ request' \in [Callers -> Request]
    <2>1. TablesGrow
      BY TablesStay DEF Starts
    <2>2. RequestFacts(r, users', sessions') /\ request' = [request EXCEPT ![h] = r]
      BY DEF Starts
    <2>3. QED
      BY <2>1, <2>2, RequestStep
  <1>2. QED
    BY <1>1 DEF Starts, Inv, SessionsTypeOK, ChainInv, AccountsUnique, Row

\* register, up to its first write, for a known or an unknown e-mail.
LEMMA RegisterStep ==
    ASSUME Inv, NEW h \in Callers, NEW e \in Emails, NEW n \in Names, Register(h, e, n)
    PROVE  Inv'
  <1>1. Len(users) \in Nat /\ Len(sessions) \in Nat
    BY DEF Inv, SessionsTypeOK
  <1>2. CASE \E u \in Row(users) : Starts(h, Creating(u, 0, 0))
    <2>1. PICK u \in Row(users) : Starts(h, Creating(u, 0, 0))
      BY <1>2
    <2>2. RequestFacts(Creating(u, 0, 0), users, sessions)
      BY <1>1, CreatingFacts DEF Row
    <2>3. QED
      BY <2>1, <2>2, StartsStep
  <1>3. CASE Starts(h, Inserting(e, n))
    BY <1>3, InsertingFacts, StartsStep
  <1>4. QED
    BY <1>2, <1>3 DEF Register

\* login, up to its first write.
LEMMA LoginStep ==
    ASSUME Inv, NEW h \in Callers, NEW u \in Row(users), Login(h, u)
    PROVE  Inv'
  <1>1. Len(users) \in Nat /\ Len(sessions) \in Nat
    BY DEF Inv, SessionsTypeOK
  <1>2. RequestFacts(Creating(u, 0, 0), users, sessions)
    BY <1>1, CreatingFacts DEF Row
  <1>3. QED
    BY <1>2, StartsStep DEF Login

\* refresh, up to its first write: what it matched is a session of its user.
LEMMA RefreshStep ==
    ASSUME Inv, NEW h \in Callers, NEW t \in held, NEW i \in Row(sessions), Refresh(h, t, i)
    PROVE  Inv'
  <1>1. /\ Len(users) \in Nat /\ Len(sessions) \in Nat /\ t \in Row(sessions)
        /\ sessions[t].user \in Row(users) /\ sessions[i].user = sessions[t].user
    BY DEF Inv, SessionsTypeOK, Refresh
  <1>2. RequestFacts(Creating(sessions[t].user, t, i), users, sessions)
    BY <1>1, CreatingFacts DEF Row
  <1>3. QED
    BY <1>2, StartsStep DEF Refresh

\* createUser: the constraints keep e-mails and names unique.
LEMMA InsertStep ==
    ASSUME Inv, NEW h \in Callers, InsertUser(h)
    PROVE  Inv'
  <1> DEFINE r == request[h]
             next == Creating(Len(users) + 1, 0, 0)
  <1>1. /\ Len(users) \in Nat /\ Len(sessions) \in Nat /\ r.email \in Emails /\ r.name \in Names
        /\ UNCHANGED sessions
    BY DEF Inv, SessionsTypeOK, InsertUser, RequestInv, RequestFacts
  <1>2. CASE Unique(r.email, r.name)
    <2>1. /\ users' \in Seq([email : Emails, name : Names])
          /\ Len(users') = Len(users) + 1 /\ AccountsUnique'
      BY <1>1, <1>2, UserAdded DEF InsertUser
    <2>2. RequestFacts(next, users', sessions') /\ request' = [request EXCEPT ![h] = next]
      BY <1>1, <1>2, <2>1, CreatingFacts DEF InsertUser
    <2>3. RequestInv' /\ request' \in [Callers -> Request]
      <3>1. TablesGrow
        BY <1>1, <2>1 DEF TablesGrow
      <3>2. QED
        BY <2>2, <3>1, RequestStep
    <2>4. \A i \in Row(sessions) : sessions[i].user \in Row(users')
      BY <1>1, <2>1 DEF Inv, SessionsTypeOK, Row
    <2>5. QED
      BY <1>1, <2>1, <2>3, <2>4 DEF InsertUser, Inv, SessionsTypeOK, ChainInv, Row
  <1>3. CASE ~Unique(r.email, r.name)
    <2>1. RequestInv' /\ request' \in [Callers -> Request]
      <3>1. TablesGrow
        BY <1>3, TablesStay DEF InsertUser
      <3>2. QED
        BY <1>3, <3>1, IdleFacts, RequestStep DEF InsertUser
    <2>2. QED
      BY <1>3, <2>1 DEF InsertUser, Inv, SessionsTypeOK, ChainInv, AccountsUnique, Row
  <1>4. QED
    BY <1>2, <1>3

\* createSessionAndTokens: the new session is newer than the one a refresh matched.
LEMMA CreateStep ==
    ASSUME Inv, NEW h \in Callers, CreateSession(h)
    PROVE  Inv'
  <1> DEFINE r == request[h]
             n == Len(sessions) + 1
             next == [r EXCEPT !.pc = "revoke", !.created = n]
  <1>1. /\ sessions' \in Seq([user : Nat, from : Nat])
        /\ \A i \in Row(sessions)' : /\ sessions'[i].user \in Row(users)
                                     /\ sessions'[i].from \in 0..i-1
        /\ Len(sessions') = n /\ Len(sessions) \in Nat /\ Len(users) \in Nat
        /\ \A i \in Row(sessions) : sessions'[i] = sessions[i]
        /\ sessions'[n].user = r.user
        /\ ChainInv' /\ UNCHANGED users
    BY SessionAdded DEF CreateSession, Inv, SessionsTypeOK
  <1>2. /\ r \in Request
        /\ r.matched # 0 => r.matched \in Row(sessions) /\ sessions[r.matched].user = r.user
    BY DEF Inv, RequestInv, RequestFacts, CreateSession, Row
  <1>3. RequestInv' /\ request' \in [Callers -> Request]
    <2> TablesGrow
      BY <1>1 DEF TablesGrow
    <2>1. CASE r.matched = 0
      BY <2>1, IdleFacts, RequestStep DEF CreateSession, Answer
    <2>2. CASE r.matched # 0
      <3>1. RequestFacts(next, users', sessions')
        <4>1. /\ next \in Request /\ next.pc = "revoke" /\ next.created = n
              /\ next.user = r.user /\ next.matched = r.matched
          <5>1. r \in Request /\ n \in Nat
            BY <1>1, <1>2
          <5> HIDE DEF r, n
          <5>2. QED
            BY <5>1, GoesOn
        <4>2. /\ r.matched \in 1..Len(sessions) /\ sessions'[r.matched].user = r.user
              /\ n \in 1..Len(sessions') /\ r.matched < n
          BY <1>1, <1>2, <2>2 DEF Row
        <4>3. n \in 1..Len(sessions')
          BY <1>1
        <4> HIDE DEF r, n, next
        <4>4. QED
          BY <1>1, <4>1, <4>2, <4>3 DEF RequestFacts
      <3>2. request' = [request EXCEPT ![h] = next]
        BY <2>2 DEF CreateSession
      <3>3. QED
        BY <3>1, <3>2, RequestStep
    <2>3. QED
      BY <2>1, <2>2
  <1>4. held' \subseteq Row(sessions)' /\ revoked' \subseteq Row(sessions)'
        /\ loggedOut' \subseteq revoked' /\ lapsed' \in 0..Len(sessions')
        /\ dbFaults' \in 0..MaxDbFaults /\ users' \in Seq([email : Emails, name : Names])
    <2>1. /\ held \subseteq Row(sessions) /\ revoked \subseteq Row(sessions)
          /\ loggedOut \subseteq revoked /\ lapsed \in 0..Len(sessions)
          /\ dbFaults \in 0..MaxDbFaults /\ users \in Seq([email : Emails, name : Names])
      BY DEF Inv, SessionsTypeOK
    <2>2. /\ UNCHANGED <<users, revoked, lapsed, loggedOut, dbFaults>>
          /\ held' = held \/ held' = held \cup {n}
      BY DEF CreateSession, Answer
    <2>3. Row(sessions) \subseteq Row(sessions)' /\ n \in Row(sessions)'
          /\ 0..Len(sessions) \subseteq 0..Len(sessions')
      BY <1>1 DEF Row
    <2> HIDE DEF n, Inv
    <2>4. QED
      BY <2>1, <2>2, <2>3
  <1>5. SessionsTypeOK'
    <2> HIDE DEF n, r, next, Inv
    <2>1. QED
      BY <1>1, <1>3, <1>4 DEF SessionsTypeOK
  <1>6. AccountsUnique'
    BY <1>1 DEF Inv, AccountsUnique, Row
  <1>7. QED
    BY <1>1, <1>3, <1>5, <1>6 DEF Inv

\* The revocation of a refresh: the session it created stands in for the one it ends.
LEMMA RevokeStep ==
    ASSUME Inv, NEW h \in Callers, Revoke(h)
    PROVE  Inv'
  <1>1. revoked' \subseteq Row(sessions) /\ loggedOut' \subseteq revoked' /\ ChainInv'
    BY SessionRevoked DEF Revoke
  <1>2. /\ Len(sessions) \in Nat /\ Len(users) \in Nat
        /\ request[h].created \in Row(sessions)
    BY DEF Inv, SessionsTypeOK, RequestInv, RequestFacts, Revoke, Row
  <1>3. RequestInv' /\ request' \in [Callers -> Request]
    <2>1. TablesGrow
      BY TablesStay DEF Revoke
    <2>2. QED
      BY <2>1, IdleFacts, RequestStep DEF Revoke, Answer
  <1>4. QED
    BY <1>1, <1>2, <1>3 DEF Revoke, Answer, Inv, SessionsTypeOK, AccountsUnique, Row

\* logout: what it revokes is logged out.
LEMMA LogoutStep ==
    ASSUME Inv, NEW u \in Row(users), Logout(u)
    PROVE  Inv'
  <1>1. PICK E \in {{i} : i \in Row(sessions)} \cup {Row(sessions) \ revoked} :
            LET ended == {i \in E : sessions[i].user = u} IN
            revoked' = revoked \cup ended /\ loggedOut' = loggedOut \cup ended
    BY DEF Logout
  <1> DEFINE ended == {i \in E : sessions[i].user = u}
  <1>2. ended \subseteq Row(sessions) /\ UNCHANGED <<users, sessions, lapsed, held, request, dbFaults>>
    BY DEF Logout
  <1>3. ASSUME NEW t \in Row(sessions) PROVE Chained(t, sessions, revoked', loggedOut')
    BY <1>1 DEF Inv, ChainInv, Chained
  <1>4. QED
    BY <1>1, <1>2, <1>3
       DEF Inv, SessionsTypeOK, RequestInv, ChainInv, AccountsUnique, Row

\* A query that fails, before or after it took effect.
LEMMA DbFailsStep ==
    ASSUME Inv, NEW h \in Callers, DbFails(h)
    PROVE  Inv'
  <1> DEFINE r == request[h]
  <1>1. /\ Len(users) \in Nat /\ Len(sessions) \in Nat /\ request' = [request EXCEPT ![h] = Idle]
        /\ UNCHANGED <<lapsed, loggedOut, held>> /\ dbFaults' \in 0..MaxDbFaults
    BY SessionsAssumption DEF Inv, SessionsTypeOK, DbFails
  <1>2. CASE UNCHANGED <<users, sessions, revoked>>
    <2>1. RequestInv' /\ request' \in [Callers -> Request]
      BY <1>1, <1>2, TablesStay, IdleFacts, RequestStep
    <2>2. QED
      BY <1>1, <1>2, <2>1 DEF Inv, SessionsTypeOK, ChainInv, AccountsUnique, Row
  <1>3. CASE /\ r.pc = "insert" /\ Unique(r.email, r.name)
             /\ users' = Append(users, [email |-> r.email, name |-> r.name])
             /\ UNCHANGED <<sessions, revoked>>
    <2>1. r.email \in Emails /\ r.name \in Names
      BY <1>3 DEF Inv, RequestInv, RequestFacts
    <2>2. /\ users' \in Seq([email : Emails, name : Names])
          /\ Len(users') = Len(users) + 1 /\ AccountsUnique'
      BY <1>3, <2>1, UserAdded
    <2>3. RequestInv' /\ request' \in [Callers -> Request]
      <3>1. TablesGrow
        BY <1>1, <1>3, <2>2 DEF TablesGrow
      <3>2. QED
        BY <1>1, <3>1, IdleFacts, RequestStep
    <2>4. \A i \in Row(sessions) : sessions[i].user \in Row(users')
      BY <1>1, <2>2 DEF Inv, SessionsTypeOK, Row
    <2>5. QED
      BY <1>1, <1>3, <2>2, <2>3, <2>4 DEF Inv, SessionsTypeOK, ChainInv, Row
  <1>4. CASE r.pc = "create" /\ NewSession(r) /\ UNCHANGED <<users, revoked>>
    <2>1. /\ sessions' \in Seq([user : Nat, from : Nat])
          /\ \A i \in Row(sessions)' : /\ sessions'[i].user \in Row(users)
                                       /\ sessions'[i].from \in 0..i-1
          /\ Len(sessions') = Len(sessions) + 1
          /\ \A i \in Row(sessions) : sessions'[i] = sessions[i]
          /\ ChainInv'
      BY <1>1, <1>4, SessionAdded
    <2>2. RequestInv' /\ request' \in [Callers -> Request]
      <3>1. TablesGrow
        BY <1>1, <1>4, <2>1 DEF TablesGrow
      <3>2. QED
        BY <1>1, <3>1, IdleFacts, RequestStep
    <2>3. QED
      BY <1>1, <1>4, <2>1, <2>2 DEF Inv, SessionsTypeOK, AccountsUnique, Row
  <1>5. CASE /\ r.pc = "revoke" /\ revoked' = revoked \cup {r.matched}
             /\ UNCHANGED <<users, sessions>>
    <2>1. revoked' \subseteq Row(sessions) /\ loggedOut' \subseteq revoked' /\ ChainInv'
      BY <1>1, <1>5, SessionRevoked
    <2>2. RequestInv' /\ request' \in [Callers -> Request]
      BY <1>1, <1>5, TablesStay, IdleFacts, RequestStep
    <2>3. QED
      BY <1>1, <1>5, <2>1, <2>2 DEF Inv, SessionsTypeOK, AccountsUnique, Row
  <1>6. QED
    BY <1>2, <1>3, <1>4, <1>5 DEF DbFails

\* Every step keeps the invariant.
LEMMA InvStep == Inv /\ [Next]_vars => Inv'
  <1> SUFFICES ASSUME Inv, [Next]_vars PROVE Inv'
    OBVIOUS
  <1>1. CASE Lapse
    <2>1. lapsed' \in 0..Len(sessions)
      BY <1>1 DEF Lapse, Inv, SessionsTypeOK
    <2>2. QED
      BY <1>1, <2>1 DEF Lapse, Inv, SessionsTypeOK, RequestInv, ChainInv, AccountsUnique, Row
  <1>2. CASE UNCHANGED vars
    BY <1>2 DEF vars, Inv, SessionsTypeOK, RequestInv, ChainInv, AccountsUnique, Row
  <1>3. QED
    BY <1>1, <1>2, RegisterStep, LoginStep, RefreshStep, InsertStep, CreateStep, RevokeStep,
       LogoutStep, DbFailsStep DEF Next

-----------------------------------------------------------------------------
(* The theorems *)

\* The tables and the requests have their types; a session belongs to an account and
\* was asked for with the token of an older one.
THEOREM SessionsTypeCorrect == Spec => []SessionsTypeOK
  <1>1. Inv => SessionsTypeOK
    BY DEF Inv
  <1>2. QED
    BY <1>1, InitInv, InvStep, PTL DEF Spec

\* However many registrations look up their e-mail at once, no e-mail and no name
\* has two accounts.
THEOREM AccountsStayUnique == Spec => []AccountsUnique
  <1>1. Inv => AccountsUnique
    BY DEF Inv
  <1>2. QED
    BY <1>1, InitInv, InvStep, PTL DEF Spec

\* However many requests refresh at once and wherever they fail, a client with a
\* token that has not expired finds a live session until its user logs out.
THEOREM ClientsNotStranded == Spec => []HeldCanRefresh
  <1>1. Inv => HeldCanRefresh
    <2> SUFFICES ASSUME Inv, NEW t \in held, t > lapsed, ~LoggedOutSince(t)
                 PROVE  \E i \in Live : Matches(t, i)
      BY DEF HeldCanRefresh
    <2>1. t \in Row(sessions) /\ Len(sessions) \in Nat /\ lapsed \in Nat
      BY DEF Inv, SessionsTypeOK
    <2>2. PICK i \in 1..Len(sessions) :
              i >= t /\ i \notin revoked /\ sessions[i].user = sessions[t].user
      BY <2>1 DEF Inv, ChainInv, Chained, LoggedOutSince
    <2>3. i \in Live /\ Matches(t, i)
      BY <2>1, <2>2 DEF Live, Matches, Row
    <2>4. QED
      BY <2>3
  <1>2. QED
    BY <1>1, InitInv, InvStep, PTL DEF Spec

-----------------------------------------------------------------------------
(* Sessions revoked and sessions created *)

\* What a refresh creates was asked for with a token, and no two refreshes that
\* are about to revoke have created the same session.
CreatedFacts ==
    /\ \A h \in Callers :
          /\ request[h].pc = "create" /\ request[h].matched # 0 => request[h].from # 0
          /\ request[h].pc = "revoke" => sessions[request[h].created].from # 0
    /\ \A g, h \in Callers :
          /\ request[g].pc = "revoke" /\ request[h].pc = "revoke"
          /\ request[g].created = request[h].created
          => g = h

\* f gives each of the sessions D one that a refresh of its user created, no two the
\* same one and none of those whose refresh has yet to revoke.
Pairs(f, D, ss, rq) ==
    /\ f \in [D -> 1..Len(ss)]
    /\ \A i \in D : ss[f[i]].user = ss[i].user /\ ss[f[i]].from # 0
    /\ \A i, j \in D : f[i] = f[j] => i = j
    /\ \A h \in Callers : rq[h].pc = "revoke" => \A i \in D : f[i] # rq[h].created

PairInv == CreatedFacts /\ \E f : Pairs(f, revoked \ loggedOut, sessions, request)

\* Sessions are added, or logged out, and a request goes on to its create or to the
\* revocation for which it has just created a session.
LEMMA PairsKept ==
    ASSUME Inv, PairInv, TablesGrow, revoked' \ loggedOut' \subseteq revoked \ loggedOut,
           NEW h \in Callers, NEW r, request' = [request EXCEPT ![h] = r],
           r.pc = "create" /\ r.matched # 0 => r.from # 0,
           r.pc = "revoke" => r.created = Len(sessions) + 1 /\ sessions'[r.created].from # 0
    PROVE  PairInv'
  <1>1. /\ Len(sessions) \in Nat /\ Len(sessions') \in Nat /\ Len(sessions) <= Len(sessions')
        /\ \A i \in 1..Len(sessions) : sessions'[i] = sessions[i]
        /\ request \in [Callers -> Request]
        /\ revoked \subseteq 1..Len(sessions)
    BY DEF Inv, SessionsTypeOK, TablesGrow, Row
  <1>2. request'[h] = r /\ \A g \in Callers : g # h => request'[g] = request[g]
    BY <1>1
  <1>3. \A g \in Callers : request[g].pc = "revoke" => request[g].created \in 1..Len(sessions)
    BY DEF Inv, RequestInv, RequestFacts
  <1>4. CreatedFacts'
    <2>1. \A g \in Callers :
            /\ request'[g].pc = "create" /\ request'[g].matched # 0 => request'[g].from # 0
            /\ request'[g].pc = "revoke" => sessions'[request'[g].created].from # 0
      BY <1>1, <1>2, <1>3 DEF PairInv, CreatedFacts
    <2>2. ASSUME NEW g \in Callers, NEW k \in Callers, request'[g].pc = "revoke",
                 request'[k].pc = "revoke", request'[g].created = request'[k].created
          PROVE  g = k
      <3>1. \A x \in Callers : x # h /\ request'[x].pc = "revoke" =>
                request'[x].created # Len(sessions) + 1
        BY <1>1, <1>2, <1>3
      <3>2. CASE g = h \/ k = h
        BY <1>2, <2>2, <3>1, <3>2
      <3>3. CASE g # h /\ k # h
        BY <1>2, <2>2, <3>3 DEF PairInv, CreatedFacts
      <3>4. QED
        BY <3>2, <3>3
    <2>3. QED
      BY <2>1, <2>2 DEF CreatedFacts
  <1>5. PICK f : Pairs(f, revoked \ loggedOut, sessions, request)
    BY DEF PairInv
  <1> DEFINE D == revoked' \ loggedOut'
             e == [i \in D |-> f[i]]
  <1>6. \A i \in D : i \in revoked \ loggedOut /\ i \in 1..Len(sessions) /\ f[i] \in 1..Len(sessions)
    BY <1>1, <1>5 DEF Pairs
  <1>7. Pairs(e, D, sessions', request')
    <2>1. e \in [D -> 1..Len(sessions')]
      BY <1>1, <1>6
    <2>2. \A i \in D : e[i] = f[i]
      OBVIOUS
    <2> HIDE DEF e, D
    <2>3. \A i \in D : sessions'[e[i]].user = sessions'[i].user /\ sessions'[e[i]].from # 0
      BY <1>1, <1>5, <1>6, <2>2 DEF Pairs
    <2>4. \A i, j \in D : e[i] = e[j] => i = j
      BY <1>5, <1>6, <2>2 DEF Pairs
    <2>5. ASSUME NEW g \in Callers, request'[g].pc = "revoke", NEW i \in D
          PROVE  e[i] # request'[g].created
      <3>1. CASE g = h
        BY <1>1, <1>2, <1>6, <2>2, <2>5, <3>1
      <3>2. CASE g # h
        BY <1>2, <1>5, <1>6, <2>2, <2>5, <3>2 DEF Pairs
      <3>3. QED
        BY <3>1, <3>2
    <2>6. QED
      BY <2>1, <2>3, <2>4, <2>5 DEF Pairs
  <1> HIDE DEF e
  <1>8. QED
    BY <1>4, <1>7 DEF PairInv

\* Sessions are logged out, or nothing that matters here changes.
LEMMA PairsStay ==
    ASSUME PairInv, revoked' \ loggedOut' \subseteq revoked \ loggedOut,
           UNCHANGED <<sessions, request>>
    PROVE  PairInv'
  <1>1. PICK f : Pairs(f, revoked \ loggedOut, sessions, request)
    BY DEF PairInv
  <1> DEFINE D == revoked' \ loggedOut'
             e == [i \in D |-> f[i]]
  <1>2. Pairs(e, D, sessions, request)
    BY <1>1 DEF Pairs
  <1> HIDE DEF e, D
  <1>3. Pairs(e, D, sessions', request')
    BY <1>2
  <1>4. CreatedFacts'
    BY DEF PairInv, CreatedFacts
  <1>5. QED
    BY <1>3, <1>4 DEF PairInv, D

\* A refresh that revokes pairs the session it matched, if it is the first to, with the
\* one it created.
LEMMA PairAdded ==
    ASSUME Inv, PairInv, NEW h \in Callers, request[h].pc = "revoke",
           revoked' = revoked \cup {request[h].matched},
           request' = [request EXCEPT ![h] = Idle], UNCHANGED <<sessions, loggedOut>>
    PROVE  PairInv'
  <1> DEFINE m == request[h].matched
             c == request[h].created
             D == revoked \ loggedOut
  <1>1. /\ c \in 1..Len(sessions) /\ sessions[c].user = sessions[m].user
        /\ sessions[c].from # 0
        /\ loggedOut \subseteq revoked
        /\ request \in [Callers -> Request]
    BY DEF Inv, RequestInv, RequestFacts, SessionsTypeOK, PairInv, CreatedFacts
  <1>2. request'[h].pc = "idle" /\ \A g \in Callers : g # h => request'[g] = request[g]
    BY <1>1 DEF Idle
  <1>3. CreatedFacts'
    BY <1>2 DEF PairInv, CreatedFacts
  <1>4. PICK f : Pairs(f, D, sessions, request)
    BY DEF PairInv
  <1>5. CASE m \in revoked
    <2>1. revoked' = revoked
      BY <1>5
    <2>2. Pairs(f, D, sessions, request')
      BY <1>2, <1>4 DEF Pairs
    <2>3. QED
      BY <1>3, <2>1, <2>2 DEF PairInv
  <1>6. CASE m \notin revoked
    <2> DEFINE e == [i \in D \cup {m} |-> IF i = m THEN c ELSE f[i]]
    <2>1. revoked' \ loggedOut' = D \cup {m}
      BY <1>1, <1>6
    <2>2. e[m] = c /\ m \notin D /\ \A i \in D : e[i] = f[i]
      BY <1>6
    <2>3. \A i \in D : f[i] # c
      BY <1>4 DEF Pairs
    <2>4. \A g \in Callers : g # h /\ request[g].pc = "revoke" => request[g].created # c
      BY DEF PairInv, CreatedFacts
    <2>5. e \in [D \cup {m} -> 1..Len(sessions)]
      BY <1>1, <1>4 DEF Pairs
    <2> HIDE DEF e, D, m, c
    <2>6. Pairs(e, D \cup {m}, sessions, request')
      <3>1. \A i \in D \cup {m} : sessions[e[i]].user = sessions[i].user /\ sessions[e[i]].from # 0
        BY <1>1, <1>4, <2>2 DEF Pairs
      <3>2. \A i, j \in D \cup {m} : e[i] = e[j] => i = j
        BY <1>4, <2>2, <2>3 DEF Pairs
      <3>3. \A g \in Callers : request'[g].pc = "revoke" =>
                \A i \in D \cup {m} : e[i] # request'[g].created
        BY <1>2, <1>4, <2>2, <2>4 DEF Pairs
      <3>4. QED
        BY <2>5, <3>1, <3>2, <3>3 DEF Pairs
    <2>7. QED
      BY <1>3, <2>1, <2>6 DEF PairInv
  <1>7. QED
    BY <1>5, <1>6

LEMMA PairStep == Inv /\ PairInv /\ [Next]_vars => PairInv'
  <1> SUFFICES ASSUME Inv, PairInv, [Next]_vars PROVE PairInv'
    OBVIOUS
  <1>1. ASSUME NEW h \in Callers, NEW r, Starts(h, r), r.pc # "revoke",
               r.matched # 0 => r.from # 0
        PROVE  PairInv'
    <2>1. TablesGrow
      BY <1>1, TablesStay DEF Starts
    <2>2. QED
      BY <1>1, <2>1, PairsKept DEF Starts
  <1>2. ASSUME NEW h \in Callers, NEW e \in Emails, NEW n \in Names, Register(h, e, n)
        PROVE  PairInv'
    BY <1>1, <1>2 DEF Register, Creating, Inserting
  <1>3. ASSUME NEW h \in Callers, NEW u \in Row(users), Login(h, u)
        PROVE  PairInv'
    BY <1>1, <1>3 DEF Login, Creating
  <1>4. ASSUME NEW h \in Callers, NEW t \in held, NEW i \in Row(sessions), Refresh(h, t, i)
        PROVE  PairInv'
    <2>1. t # 0
      BY DEF Inv, SessionsTypeOK, Row
    <2>2. QED
      BY <1>1, <1>4, <2>1 DEF Refresh, Creating
  <1>5. ASSUME NEW h \in Callers, InsertUser(h)
        PROVE  PairInv'
    <2>1. TablesGrow
      <3>1. /\ users \in Seq([email : Emails, name : Names])
            /\ Len(sessions) \in Nat
            /\ request[h].email \in Emails /\ request[h].name \in Names
        BY <1>5 DEF InsertUser, Inv, SessionsTypeOK, RequestInv, RequestFacts
      <3>2. Len(users') \in Nat /\ Len(users) <= Len(users')
        BY <1>5, <3>1 DEF InsertUser
      <3>3. QED
        BY <1>5, <3>1, <3>2 DEF InsertUser, TablesGrow
    <2>2. PICK r : request' = [request EXCEPT ![h] = r] /\ r.pc # "revoke" /\ r.matched = 0
      <3>1. \A u : Creating(u, 0, 0).pc # "revoke" /\ Creating(u, 0, 0).matched = 0
        BY DEF Creating
      <3>2. Idle.pc # "revoke" /\ Idle.matched = 0
        BY DEF Idle
      <3>3. \/ request' = [request EXCEPT ![h] = Creating(Len(users) + 1, 0, 0)]
            \/ request' = [request EXCEPT ![h] = Idle]
        BY <1>5 DEF InsertUser
      <3>4. QED
        BY <3>1, <3>2, <3>3
    <2>3. QED
      BY <1>5, <2>1, <2>2, PairsKept DEF InsertUser
  <1>6. ASSUME NEW h \in Callers, request[h].pc = "create", NewSession(request[h]), UNCHANGED users
        PROVE  TablesGrow /\ sessions'[Len(sessions) + 1].from = request[h].from
    <2>1. /\ sessions \in Seq([user : Nat, from : Nat])
          /\ Len(users) \in Nat
          /\ request[h].user \in Nat /\ request[h].from \in Nat
      BY DEF Inv, SessionsTypeOK, Request
    <2>2. [user |-> request[h].user, from |-> request[h].from] \in [user : Nat, from : Nat]
      BY <2>1
    <2>3. /\ Len(sessions') = Len(sessions) + 1 /\ Len(sessions) \in Nat
          /\ \A i \in 1..Len(sessions) : sessions'[i] = sessions[i]
          /\ sessions'[Len(sessions) + 1].from = request[h].from
      BY <1>6, <2>1, <2>2, Appended DEF NewSession
    <2>4. QED
      BY <1>6, <2>1, <2>3 DEF TablesGrow, Row
  <1>7. ASSUME NEW h \in Callers, CreateSession(h)
        PROVE  PairInv'
    <2>1. TablesGrow /\ sessions'[Len(sessions) + 1].from = request[h].from
      BY <1>6, <1>7 DEF CreateSession
    <2>2. PICK r : /\ request' = [request EXCEPT ![h] = r]
                   /\ \/ r.pc = "idle"
                      \/ /\ r.pc = "revoke" /\ r.created = Len(sessions) + 1
                         /\ request[h].matched # 0
      <3>1. CASE request[h].matched = 0
        <4>1. request' = [request EXCEPT ![h] = Idle]
          BY <1>7, <3>1 DEF CreateSession, Answer
        <4>2. Idle.pc = "idle"
          BY DEF Idle
        <4>3. QED
          BY <4>1, <4>2
      <3>2. CASE request[h].matched # 0
        <4>1. PICK r : r = [request[h] EXCEPT !.pc = "revoke", !.created = Len(sessions) + 1]
          OBVIOUS
        <4>2. request[h] \in Request /\ Len(sessions) + 1 \in Nat /\ request \in [Callers -> Request]
          BY DEF Inv, SessionsTypeOK
        <4>3. r.pc = "revoke" /\ r.created = Len(sessions) + 1
          BY <4>1, <4>2, GoesOn
        <4>4. request' = [request EXCEPT ![h] = r]
          BY <1>7, <3>2, <4>1, <4>2 DEF CreateSession
        <4>5. QED
          BY <3>2, <4>3, <4>4
      <3>3. QED
        BY <3>1, <3>2
    <2>3. request[h].matched # 0 => request[h].from # 0
      BY <1>7 DEF CreateSession, PairInv, CreatedFacts
    <2>4. QED
      BY <1>7, <2>1, <2>2, <2>3, PairsKept DEF CreateSession
  <1>8. ASSUME NEW h \in Callers, Revoke(h)
        PROVE  PairInv'
    BY <1>8, PairAdded DEF Revoke, Answer
  <1>9. ASSUME NEW u \in Row(users), Logout(u)
        PROVE  PairInv'
    <2>1. revoked' \ loggedOut' \subseteq revoked \ loggedOut
      BY <1>9 DEF Logout
    <2>2. QED
      BY <1>9, <2>1, PairsStay DEF Logout
  <1>10. CASE Lapse \/ UNCHANGED vars
    BY <1>10, PairsStay DEF Lapse, vars
  <1>11. ASSUME NEW h \in Callers, DbFails(h)
         PROVE  PairInv'
    <2>1. request' = [request EXCEPT ![h] = Idle] /\ UNCHANGED loggedOut
      BY <1>11 DEF DbFails
    <2>2. Idle.pc = "idle"
      BY DEF Idle
    <2>3. ASSUME TablesGrow, UNCHANGED revoked
          PROVE  PairInv'
      BY <2>1, <2>2, <2>3, PairsKept
    <2>4. CASE UNCHANGED <<users, sessions, revoked>>
      BY <2>3, <2>4, TablesStay
    <2>5. CASE /\ request[h].pc = "insert"
               /\ users' = Append(users, [email |-> request[h].email, name |-> request[h].name])
               /\ UNCHANGED <<sessions, revoked>>
      <3>1. /\ users \in Seq([email : Emails, name : Names])
            /\ Len(sessions) \in Nat
            /\ request[h].email \in Emails /\ request[h].name \in Names
        BY <2>5 DEF Inv, SessionsTypeOK, RequestInv, RequestFacts
      <3>2. Len(users') \in Nat /\ Len(users) <= Len(users')
        BY <2>5, <3>1
      <3>3. TablesGrow
        BY <2>5, <3>1, <3>2 DEF TablesGrow
      <3>4. QED
        BY <2>3, <2>5, <3>3
    <2>6. CASE request[h].pc = "create" /\ NewSession(request[h]) /\ UNCHANGED <<users, revoked>>
      BY <1>6, <2>3, <2>6
    <2>7. CASE /\ request[h].pc = "revoke"
               /\ revoked' = revoked \cup {request[h].matched}
               /\ UNCHANGED <<users, sessions>>
      BY <2>1, <2>7, PairAdded
    <2>8. QED
      BY <1>11, <2>4, <2>5, <2>6, <2>7 DEF DbFails
  <1>12. QED
    BY <1>2, <1>3, <1>4, <1>5, <1>7, <1>8, <1>9, <1>10, <1>11 DEF Next

LEMMA InitPairs == Init => PairInv
  <1> SUFFICES ASSUME Init PROVE PairInv
    OBVIOUS
  <1>1. CreatedFacts
    BY DEF Init, CreatedFacts, Idle
  <1>2. Pairs([i \in {} |-> i], revoked \ loggedOut, sessions, request)
    BY DEF Init, Pairs
  <1>3. QED
    BY <1>1, <1>2 DEF PairInv

\* However many requests of a user refresh at once, and wherever they fail, they
\* revoke no more sessions than they create: no device loses its login to another's.
THEOREM RefreshesKeepLogins == Spec => []LoginsKept
  <1>1. Inv /\ PairInv => LoginsKept
    <2> SUFFICES ASSUME Inv, PairInv, NEW u \in Row(users)
                 PROVE  Cardinality({i \in revoked \ loggedOut : sessions[i].user = u})
                          <= Cardinality({i \in Row(sessions) :
                                            sessions[i].user = u /\ sessions[i].from # 0})
      BY DEF LoginsKept
    <2>1. PICK A, B : /\ A = {i \in revoked \ loggedOut : sessions[i].user = u}
                      /\ B = {i \in Row(sessions) : sessions[i].user = u /\ sessions[i].from # 0}
      OBVIOUS
    <2>2. PICK f : Pairs(f, revoked \ loggedOut, sessions, request)
      BY DEF PairInv
    <2> DEFINE e == [i \in A |-> f[i]]
    <2>3. e \in [A -> B]
      BY <2>1, <2>2 DEF Pairs, Row
    <2>4. \A i, j \in A : e[i] = e[j] => i = j
      BY <2>1, <2>2 DEF Pairs
    <2>5. e \in Injection(A, B)
      BY <2>3, <2>4, Fun_IsInj
    <2> HIDE DEF e
    <2>6. IsFiniteSet(B)
      <3>1. Len(sessions) \in Int /\ 1 \in Int
        BY DEF Inv, SessionsTypeOK
      <3>2. IsFiniteSet(1..Len(sessions))
        BY <3>1, FS_Interval
      <3>3. B \in SUBSET (1..Len(sessions))
        BY <2>1 DEF Row
      <3>4. QED
        BY <3>2, <3>3, FS_Subset
    <2>7. Cardinality(A) <= Cardinality(B)
      BY <2>5, <2>6, FS_Injection
    <2>8. QED
      BY <2>1, <2>7
  <1>2. QED
    BY <1>1, InitInv, InvStep, InitPairs, PairStep, PTL DEF Spec

=============================================================================

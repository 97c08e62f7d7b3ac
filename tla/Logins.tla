-------------------------------- MODULE Logins --------------------------------
(***************************************************************************)
(* Magic links, users and sessions (api/auth/magiclink.go, users.go,       *)
(* sessions.go).                                                           *)
(*                                                                         *)
(* A login is two requests with a mailbox between them.  The first stores  *)
(* the link, one row per address, and then sends the letter; when that     *)
(* fails it deletes the row again.  The second consumes the link, finds or *)
(* creates the user and stores a session.  Every SQL statement is a        *)
(* transaction of its own, so that several logins of one address may be    *)
(* anywhere between their statements.  A link's id and its token are drawn *)
(* together and are one value here; addresses are normalized.              *)
(***************************************************************************)
EXTENDS Naturals, FiniteSets

CONSTANTS
    Email,
    Link,         \* random ids and tokens of links
    UserId,       \* random ids of users
    SessionId,    \* random ids of sessions
    Request,      \* slots for handlers running at the same time
    None

LinkRow == [link : Link, expired : BOOLEAN]

ASSUME LoginAssumption == None \notin Link \cup Email \cup LinkRow

VARIABLES
    links,        \* email_magic_links: address -> row
    users,        \* atombase_users
    sessions,     \* atombase_sessions, without the hash of the secret
    req,          \* the handlers in flight
    letters,      \* history: the address each link was drawn for, in time
    newest,       \* history: the link stored last for an address
    announced,    \* history: the links whose caller was told "magic link sent"
    spent,        \* history: the links that were consumed
    opened        \* history: the sessions that were stored, and by which link

vars == <<links, users, sessions, req, letters, newest, announced, spent, opened>>

Idle == [pc |-> "idle"]
Sending == [pc : {"stored", "unsent"}, link : Link, email : Email]
Completing == [pc : {"consumed", "missing"}, link : Link, email : Email]
Found == [pc : {"found"}, link : Link, email : Email, user : UserId]

TypeOK ==
    /\ links \in [Email -> LinkRow \cup {None}]
    /\ users \subseteq [id : UserId, email : Email]
    /\ sessions \subseteq [id : SessionId, user : UserId]
    /\ req \in [Request -> {Idle} \cup Sending \cup Completing \cup Found]
    /\ letters \in [Link -> Email \cup {None}]
    /\ newest \in [Email -> Link \cup {None}]
    /\ announced \subseteq Link
    /\ spent \subseteq Link
    /\ opened \subseteq [id : SessionId, user : UserId, link : Link]

Init ==
    /\ links = [e \in Email |-> None]
    /\ users = {}
    /\ sessions = {}
    /\ req = [r \in Request |-> Idle]
    /\ letters = [k \in Link |-> None]
    /\ newest = [e \in Email |-> None]
    /\ announced = {}
    /\ spent = {}
    /\ opened = {}

-----------------------------------------------------------------------------
Goto(r, state) == req' = [req EXCEPT ![r] = state]

Holding(e, k) == links[e] # None /\ links[e].link = k

accounts == <<users, sessions, opened>>

(* POST /auth/magic-link/start: BeginMagicLogin *)

\* the address's previous link is replaced
SaveLink(r, e, k) ==
    /\ req[r] = Idle
    /\ letters[k] = None
    /\ links' = [links EXCEPT ![e] = [link |-> k, expired |-> FALSE]]
    /\ letters' = [letters EXCEPT ![k] = e]
    /\ newest' = [newest EXCEPT ![e] = k]
    /\ Goto(r, [pc |-> "stored", link |-> k, email |-> e])
    /\ UNCHANGED <<accounts, announced, spent>>

\* whether the letter leaves or not, the mail server may report an error
SendLetter(r) ==
    LET q == req[r] IN
    /\ q.pc = "stored"
    /\ \/ announced' = announced \cup {q.link} /\ Goto(r, Idle)
       \/ UNCHANGED announced /\ Goto(r, [q EXCEPT !.pc = "unsent"])
    /\ UNCHANGED <<links, accounts, letters, newest, spent>>

\* Mutant: the row is deleted by its address.
DropLinkOfAddress(r) ==
    LET q == req[r] IN
    /\ q.pc = "unsent"
    /\ links' = [links EXCEPT ![q.email] = None]
    /\ Goto(r, Idle)
    /\ UNCHANGED <<accounts, letters, newest, announced, spent>>

\* by its id: a newer link of the address is left alone
DropLink(r) ==
    LET q == req[r] IN
    /\ q.pc = "unsent"
    /\ links' = [links EXCEPT ![q.email] = IF Holding(q.email, q.link) THEN None ELSE @]
    /\ Goto(r, Idle)
    /\ UNCHANGED <<accounts, letters, newest, announced, spent>>

-----------------------------------------------------------------------------
(* GET /auth/magic-link/complete: CompleteMagicLink *)

\* Mutant: the row is only read, and deleted when the session is stored.
ReadLink(r, k) ==
    /\ req[r] = Idle
    /\ \E e \in Email :
          /\ Holding(e, k) /\ ~links[e].expired
          /\ Goto(r, [pc |-> "consumed", link |-> k, email |-> e])
    /\ spent' = spent \cup {k}
    /\ UNCHANGED <<links, accounts, letters, newest, announced>>

\* DELETE ... WHERE token_hash = ? AND expires_at > ? RETURNING email
ConsumeLink(r, k) ==
    /\ req[r] = Idle
    /\ \E e \in Email :
          /\ Holding(e, k) /\ ~links[e].expired
          /\ links' = [links EXCEPT ![e] = None]
          /\ Goto(r, [pc |-> "consumed", link |-> k, email |-> e])
    /\ spent' = spent \cup {k}
    /\ UNCHANGED <<accounts, letters, newest, announced>>

\* a link that was used, replaced, dropped or has expired
RefuseLink(r, k) ==
    /\ req[r] = Idle
    /\ \A e \in Email : Holding(e, k) => links[e].expired
    /\ UNCHANGED vars

WithUser(q, id) == [pc |-> "found", link |-> q.link, email |-> q.email, user |-> id]

FindUser(r) ==
    LET q == req[r] IN
    /\ q.pc = "consumed"
    /\ \/ \E u \in users : u.email = q.email /\ Goto(r, WithUser(q, u.id))
       \/ /\ \A u \in users : u.email # q.email
          /\ Goto(r, [q EXCEPT !.pc = "missing"])
    /\ UNCHANGED <<links, accounts, letters, newest, announced, spent>>

\* Mutant: INSERT OR IGNORE, and on with the id that was drawn.
CreateUserOrIgnore(r, id) ==
    LET q == req[r] IN
    /\ q.pc = "missing"
    /\ \A u \in users : u.id # id
    /\ users' = IF \E u \in users : u.email = q.email
                THEN users ELSE users \cup {[id |-> id, email |-> q.email]}
    /\ Goto(r, WithUser(q, id))
    /\ UNCHANGED <<links, sessions, opened, letters, newest, announced, spent>>

\* email is UNIQUE: the slower of two first logins fails here
CreateUser(r, id) ==
    LET q == req[r] IN
    /\ q.pc = "missing"
    /\ \A u \in users : u.id # id /\ u.email # q.email
    /\ users' = users \cup {[id |-> id, email |-> q.email]}
    /\ Goto(r, WithUser(q, id))
    /\ UNCHANGED <<links, sessions, opened, letters, newest, announced, spent>>

SaveSession(r, s) ==
    LET q == req[r] IN
    /\ q.pc = "found"
    /\ \A o \in opened : o.id # s
    /\ sessions' = sessions \cup {[id |-> s, user |-> q.user]}
    /\ opened' = opened \cup {[id |-> s, user |-> q.user, link |-> q.link]}
    /\ Goto(r, Idle)
    /\ UNCHANGED <<links, users, letters, newest, announced, spent>>

-----------------------------------------------------------------------------
\* POST /auth/signout
DeleteSession(s) ==
    /\ s \in sessions
    /\ sessions' = sessions \ {s}
    /\ UNCHANGED <<links, users, req, letters, newest, announced, spent, opened>>

\* expires_at of a link passes
Expire(e) ==
    /\ links[e] # None /\ ~links[e].expired
    /\ links' = [links EXCEPT ![e].expired = TRUE]
    /\ UNCHANGED <<accounts, req, letters, newest, announced, spent>>

\* an error return, a timeout or the end of the process: what was consumed or
\* stored stays so
Fail(r) ==
    /\ req[r] # Idle
    /\ Goto(r, Idle)
    /\ UNCHANGED <<links, accounts, letters, newest, announced, spent>>

Login(r) ==
    \/ \E e \in Email, k \in Link : SaveLink(r, e, k)
    \/ SendLetter(r) \/ DropLink(r)
    \/ \E k \in Link : ConsumeLink(r, k) \/ RefuseLink(r, k)
    \/ FindUser(r)
    \/ \E id \in UserId : CreateUser(r, id)
    \/ \E s \in SessionId : SaveSession(r, s)
    \/ Fail(r)

Next ==
    \/ \E r \in Request : Login(r)
    \/ \E s \in sessions : DeleteSession(s)
    \/ \E e \in Email : Expire(e)

Spec == Init /\ [][Next]_vars

-----------------------------------------------------------------------------
(* Safety *)

\* A link opens at most one session, however many requests present it at once.
LinkOpensOneSession ==
    \A o, p \in opened : o.link = p.link => o = p

\* Whoever was told that a link was sent can use the newest one of the address
\* until it expires or is used: a request for the same address whose letter
\* fails takes only its own link away (BeginMagicLogin).
AnnouncedLinkWorks ==
    \A e \in Email : newest[e] \in announced \ spent => Holding(e, newest[e])

\* A session belongs to the user of the address its link was sent to.
SessionsOfMailbox ==
    \A o \in opened : \E u \in users : u.id = o.user /\ u.email = letters[o.link]

\* Two first logins of an address leave one user (FindOrCreateUser).
OneUserPerAddress ==
    \A u, v \in users : u.email = v.email => u = v

=============================================================================

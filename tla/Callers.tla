-------------------------------- MODULE Callers --------------------------------
(***************************************************************************)
(* Who a request acts as: the header is looked at first (AuthMiddleware in *)
(* tools/middleware.go), the session it names when the handler asks for it *)
(* (auth/handlers.go, auth/sessions.go, definitions/service.go), beside    *)
(* the logins that open sessions, the sign-outs that end them, and the     *)
(* clock.                                                                  *)
(***************************************************************************)
EXTENDS Logins

CONSTANTS
    Call,                 \* slots for requests in flight
    Service, Anonymous

ASSUME CallersAssumption ==
    {Service, Anonymous, None} \cap UserId = {} /\ Service # Anonymous

(* What needs no caller, the login itself, is not here.  "me" is the caller's
   own account, "orgs" what members and the service do to an organization. *)
Path == {"platform", "me", "signout", "orgs", "data"}

VARIABLES
    lapsed,       \* the sessions whose expires_at has passed
    calls,        \* the requests in flight
    signedOut     \* history: the sessions that were signed out of

callVars == <<lapsed, calls, signedOut>>
allVars == <<vars, callVars>>

Key == [kind : {"key"}, right : BOOLEAN]
SessionToken == [kind : {"session"}, id : SessionId, right : BOOLEAN]
Credential == [kind : {"none"}] \cup Key \cup SessionToken

Who == UserId \cup {Service, Anonymous}

\* ended: the session was over when the request arrived
CallState ==
    [pc : {"identified"}, path : Path, with : Credential, ended : BOOLEAN]
    \cup [pc : {"acting"}, path : Path, with : Credential, ended : BOOLEAN, who : Who]

CallersTypeOK ==
    /\ TypeOK
    /\ lapsed \subseteq SessionId
    /\ calls \in [Call -> {Idle} \cup CallState]
    /\ signedOut \subseteq SessionId

CallersInit ==
    /\ Init
    /\ lapsed = {}
    /\ calls = [c \in Call |-> Idle]
    /\ signedOut = {}

-----------------------------------------------------------------------------
\* a token names a session that was opened; one that is made up is like one with
\* a wrong secret
Presentable(with) == with.kind = "session" => \E o \in opened : o.id = with.id

Over(with) == with.kind = "session" /\ with.id \in lapsed \cup signedOut

Identified(path, with) ==
    [pc |-> "identified", path |-> path, with |-> with, ended |-> Over(with)]
Acting(q, who) ==
    [pc |-> "acting", path |-> q.path, with |-> q.with, ended |-> q.ended, who |-> who]

\* The platform's routes are for the service key alone; elsewhere a wrong key is
\* refused, and a session token is passed on as it came.
AuthMiddleware(c, path, with) ==
    /\ calls[c] = Idle /\ Presentable(with)
    /\ with.kind = "key" => with.right
    /\ path = "platform" => with.kind = "key"
    /\ calls' = [calls EXCEPT ![c] =
          IF path = "platform" THEN Acting(Identified(path, with), Service)
          ELSE Identified(path, with)]
    /\ UNCHANGED <<vars, lapsed, signedOut>>

\* Mutant: the id of a session is enough.
SessionOfId(with) == {s \in sessions : s.id = with.id /\ s.id \notin lapsed}

\* Mutant: expires_at is not compared.
SessionForEver(with) == {s \in sessions : s.id = with.id /\ with.right}

\* ValidateSession, and validateSession beside it: the row, the secret, the clock
ValidateSession(with) ==
    {s \in sessions : s.id = with.id /\ with.right /\ s.id \notin lapsed}

\* getSession, getOrgActor or ResolvePrincipal; otherwise the request is refused
ResolvePrincipal(c) ==
    LET q == calls[c] IN
    /\ q.pc = "identified"
    /\ \/ /\ q.with.kind = "session"
          /\ \E s \in ValidateSession(q.with) : calls' = [calls EXCEPT ![c] = Acting(q, s.user)]
       \/ /\ q.with.kind = "key" /\ q.path \in {"orgs", "data"}
          /\ calls' = [calls EXCEPT ![c] = Acting(q, Service)]
       \/ /\ q.with.kind = "none" /\ q.path = "data"
          /\ calls' = [calls EXCEPT ![c] = Acting(q, Anonymous)]
    /\ UNCHANGED <<vars, lapsed, signedOut>>

\* POST /auth/signout: the row of the caller's session is deleted, if it is still there
SignOut(c) ==
    LET q == calls[c] IN
    /\ q.pc = "acting" /\ q.path = "signout"
    /\ sessions' = {s \in sessions : s.id # q.with.id}
    /\ signedOut' = signedOut \cup {q.with.id}
    /\ calls' = [calls EXCEPT ![c] = Idle]
    /\ UNCHANGED <<links, users, req, letters, newest, announced, spent, opened, lapsed>>

\* the answer, whatever it is
EndCall(c) ==
    /\ calls[c] # Idle
    /\ calls' = [calls EXCEPT ![c] = Idle]
    /\ UNCHANGED <<vars, lapsed, signedOut>>

\* 24 hours after a session was opened
Lapse(s) ==
    /\ s \in sessions /\ s.id \notin lapsed
    /\ lapsed' = lapsed \cup {s.id}
    /\ UNCHANGED <<vars, calls, signedOut>>

CallersNext ==
    \/ /\ \/ \E r \in Request : Login(r)
          \/ \E e \in Email : Expire(e)
       /\ UNCHANGED callVars
    \/ \E c \in Call :
          \/ \E path \in Path, with \in Credential : AuthMiddleware(c, path, with)
          \/ ResolvePrincipal(c) \/ SignOut(c) \/ EndCall(c)
    \/ \E s \in sessions : Lapse(s)

CallersSpec == CallersInit /\ [][CallersNext]_allVars

-----------------------------------------------------------------------------
(* Safety *)

\* A request that arrives after its session was signed out of, or has lapsed, acts
\* as nobody, however many requests of that session and others are under way.
EndedSessionsStayEnded ==
    \A c \in Call : calls[c] # Idle /\ calls[c].pc = "acting" => ~calls[c].ended

\* Whoever acts as a user holds the token that a link sent to that user's address
\* opened; whoever acts as the service holds its key, and nobody else reaches the
\* platform's routes.
CallersHoldTheirKey ==
    \A c \in Call : calls[c] # Idle /\ calls[c].pc = "acting" =>
        LET q == calls[c] IN
        /\ q.who \in UserId =>
              /\ q.with.right
              /\ \E o \in opened, u \in users :
                    /\ o.id = q.with.id /\ o.user = q.who
                    /\ u.id = q.who /\ letters[o.link] = u.email
        /\ q.who = Service => q.with.kind = "key" /\ q.with.right
        /\ q.path = "platform" => q.who = Service

=============================================================================

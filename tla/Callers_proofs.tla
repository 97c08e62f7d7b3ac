----------------------------- MODULE Callers_proofs -----------------------------
(***************************************************************************)
(* Proofs about Callers and the logins beside them, for any addresses,     *)
(* links, users, sessions, and number of handlers and requests in flight.  *)
(***************************************************************************)
EXTENDS Callers, TLAPS

\* a link is on its way, or has been consumed and its login is not over
SendsLink(r) == req[r].pc \in {"stored", "unsent"}
Completes(r) == req[r].pc \in {"consumed", "missing", "found"}

-----------------------------------------------------------------------------
(* What the logins rest on *)

\* The row of an address holds the link stored last, which nobody has used.
LinkInv ==
    \A e \in Email : links[e] # None =>
        links[e].link = newest[e] /\ links[e].link \notin spent

\* Links are drawn for one address, and everybody who has one got it there.
LetterInv ==
    /\ \A e \in Email : newest[e] # None => letters[newest[e]] = e
    /\ \A k \in announced \cup spent : letters[k] # None
    /\ \A r \in Request : req[r] # Idle => letters[req[r].link] = req[r].email

\* A link that is being sent is not announced, and nobody else sends it.
SendInv ==
    \A r \in Request : SendsLink(r) =>
        /\ req[r].link \notin announced
        /\ \A s \in Request \ {r} : SendsLink(s) => req[s].link # req[r].link

\* It is there until it is used, replaced or dropped by whoever sends it.
HoldInv ==
    \A r \in Request : SendsLink(r) =>
        \/ req[r].link \in spent
        \/ newest[req[r].email] # req[r].link
        \/ Holding(req[r].email, req[r].link)

\* A link is consumed by one request, which has not opened a session with it yet.
CompleteInv ==
    \A r \in Request : Completes(r) =>
        /\ req[r].link \in spent
        /\ \A o \in opened : o.link # req[r].link
        /\ \A s \in Request \ {r} : Completes(s) => req[s].link # req[r].link
        /\ req[r].pc = "found" =>
               \E u \in users : u.id = req[r].user /\ u.email = req[r].email

\* Sessions are opened by consumed links, and have ids of their own.
SessionInv ==
    /\ \A o \in opened : o.link \in spent
    /\ \A o, p \in opened : o.id = p.id => o = p
    /\ \A s \in sessions : \E o \in opened : o.id = s.id /\ o.user = s.user

LoginInv ==
    /\ TypeOK /\ LinkInv /\ LetterInv /\ SendInv /\ HoldInv
    /\ CompleteInv /\ SessionInv
    /\ LinkOpensOneSession /\ AnnouncedLinkWorks
    /\ SessionsOfMailbox /\ OneUserPerAddress

\* Nothing is there at first.
LEMMA InitLogins == Init => LoginInv
<1> SUFFICES ASSUME Init PROVE LoginInv
  OBVIOUS
<1>1. TypeOK
  BY DEF Init, TypeOK
<1>2. LinkInv /\ LetterInv /\ SendInv /\ HoldInv /\ CompleteInv /\ SessionInv
  BY DEF Init, LinkInv, LetterInv, SendInv, HoldInv, CompleteInv, SessionInv, SendsLink, Completes,
     Idle
<1>3. LinkOpensOneSession /\ AnnouncedLinkWorks /\ SessionsOfMailbox /\ OneUserPerAddress
  BY DEF Init, LinkOpensOneSession, AnnouncedLinkWorks, SessionsOfMailbox, OneUserPerAddress
<1> QED
  BY <1>1, <1>2, <1>3 DEF LoginInv

\* The program counter tells how far a login is.
LEMMA LoginTypes ==
    ASSUME TypeOK, NEW r \in Request
    PROVE  /\ SendsLink(r) => req[r] \in Sending
           /\ req[r].pc \in {"consumed", "missing"} => req[r] \in Completing
           /\ req[r].pc = "found" => req[r] \in Found
           /\ SendsLink(r) \/ Completes(r) <=> req[r] # Idle
           /\ req[r] # Idle => req[r].link \in Link /\ req[r].email \in Email
<1>1. req[r] \in {Idle} \cup Sending \cup Completing \cup Found
  BY DEF TypeOK
<1> QED
  BY <1>1 DEF Idle, Sending, Completing, Found, SendsLink, Completes

\* One handler moves at a time.
LEMMA Gone ==
    ASSUME TypeOK, NEW r \in Request, NEW state, Goto(r, state)
    PROVE  /\ req'[r] = state
           /\ \A s \in Request \ {r} : req'[s] = req[s]
BY DEF TypeOK, Goto

\* Moving one handler to a well-formed state leaves all of them well formed.
LEMMA GotoType ==
    ASSUME TypeOK, NEW r \in Request,
           NEW s \in {Idle} \cup Sending \cup Completing \cup Found, Goto(r, s)
    PROVE  req' \in [Request -> {Idle} \cup Sending \cup Completing \cup Found]
BY DEF TypeOK, Goto

\* The link that a request draws and stores replaces what the address had.
LEMMA SaveLinkKeeps ==
    ASSUME LoginInv, NEW r \in Request, NEW e \in Email, NEW k \in Link, SaveLink(r, e, k)
    PROVE  LoginInv'
<1> USE DEF LoginInv
<1> DEFINE state == [pc |-> "stored", link |-> k, email |-> e]
<1>1. /\ req[r] = Idle /\ letters[k] = None
      /\ links' = [links EXCEPT ![e] = [link |-> k, expired |-> FALSE]]
      /\ letters' = [letters EXCEPT ![k] = e]
      /\ newest' = [newest EXCEPT ![e] = k]
      /\ UNCHANGED <<users, sessions, opened, announced, spent>>
  BY DEF SaveLink, accounts
<1>2. req'[r] = state /\ \A s \in Request \ {r} : req'[s] = req[s]
  BY Gone DEF SaveLink
<1>3. k \notin announced \cup spent
  BY <1>1 DEF LetterInv
<1>4. \A s \in Request : req[s] # Idle => req[s].link # k
  BY <1>1, LoginTypes, LoginAssumption DEF LetterInv
<1>5. TypeOK'
  <2>1. state \in Sending
    BY DEF Sending
  <2>2. req' \in [Request -> {Idle} \cup Sending \cup Completing \cup Found]
    BY <2>1, GotoType DEF SaveLink
  <2> QED
    BY <1>1, <2>2 DEF TypeOK, LinkRow
<1>6. LinkInv'
  BY <1>1, <1>3 DEF LinkInv, TypeOK
<1>7. LetterInv'
  <2>1. \A j \in Link : letters[j] # None => letters'[j] = letters[j]
    BY <1>1 DEF TypeOK
  <2>2. \A d \in Email : newest'[d] # None => letters'[newest'[d]] = d
    BY <1>1, <2>1, LoginAssumption DEF LetterInv, TypeOK
  <2>3. \A j \in announced' \cup spent' : letters'[j] # None
    BY <1>1, <2>1 DEF LetterInv, TypeOK
  <2>4. ASSUME NEW s \in Request, req'[s] # Idle PROVE letters'[req'[s].link] = req'[s].email
    <3>1. CASE s = r
      BY <1>1, <1>2, <3>1 DEF TypeOK
    <3>2. CASE s # r
      BY <1>1, <1>2, <1>4, <2>1, <2>4, <3>2, LoginTypes, LoginAssumption DEF LetterInv
    <3> QED
      BY <3>1, <3>2
  <2> QED
    BY <2>2, <2>3, <2>4 DEF LetterInv
<1>8. SendInv'
  BY <1>1, <1>2, <1>3, <1>4, LoginTypes DEF SendInv, SendsLink, Idle
<1>9. HoldInv' /\ CompleteInv'
  <2>1. CompleteInv'
    BY <1>1, <1>2 DEF CompleteInv, Completes
  <2>2. ASSUME NEW s \in Request, SendsLink(s)', req'[s].link \notin spent,
               newest'[req'[s].email] = req'[s].link
        PROVE  Holding(req[s].email, req[s].link)'
    <3>1. CASE s = r
      <4>1. req'[s].email = e /\ req'[s].link = k
        BY <1>2, <3>1
      <4>2. links'[e] = [link |-> k, expired |-> FALSE] /\ links'[e] \in LinkRow
        BY <1>1 DEF LinkRow, TypeOK
      <4>3. [link |-> k, expired |-> FALSE].link = k /\ links'[e] # None
        BY <4>2, LoginAssumption
      <4> QED
        BY <4>1, <4>2, <4>3 DEF Holding
    <3>2. CASE s # r
      <4>1. /\ SendsLink(s) /\ req'[s] = req[s] /\ req[s].link # k
            /\ req[s].email \in Email
        BY <1>2, <1>4, <2>2, <3>2, LoginTypes DEF SendsLink
      <4>2. req[s].email # e /\ newest[req[s].email] = req[s].link
        BY <1>1, <2>2, <4>1 DEF TypeOK
      <4> QED
        BY <1>1, <2>2, <4>1, <4>2 DEF HoldInv, Holding, TypeOK
    <3> QED
      BY <3>1, <3>2
  <2> QED
    BY <1>1, <2>1, <2>2 DEF HoldInv
<1>10. SessionInv' /\ LinkOpensOneSession' /\ OneUserPerAddress'
  BY <1>1 DEF SessionInv, LinkOpensOneSession, OneUserPerAddress
<1>11. AnnouncedLinkWorks'
  BY <1>1, <1>3, LoginAssumption DEF AnnouncedLinkWorks, Holding, TypeOK
<1>12. SessionsOfMailbox'
  <2>1. \A o \in opened : o.link \in Link /\ o.link # k
    BY <1>3 DEF SessionInv, TypeOK
  <2> QED
    BY <1>1, <2>1 DEF SessionsOfMailbox, TypeOK
<1> QED
  BY <1>5, <1>6, <1>7, <1>8, <1>9, <1>10, <1>11, <1>12

\* A letter announces its link; when it fails, the link is dropped by its id.
LEMMA SendLetterKeeps ==
    ASSUME LoginInv, NEW r \in Request, SendLetter(r) \/ DropLink(r)
    PROVE  LoginInv'
<1> USE DEF LoginInv
<1>1. /\ SendsLink(r) /\ req[r] \in Sending /\ req[r] # Idle
      /\ UNCHANGED <<users, sessions, opened, letters, newest, spent>>
  BY LoginTypes DEF SendLetter, DropLink, SendsLink, accounts
<1>2. /\ \A s \in Request \ {r} : req'[s] = req[s]
      /\ \/ req'[r] = Idle
         \/ /\ req'[r] = [pc |-> "unsent", link |-> req[r].link, email |-> req[r].email]
            /\ UNCHANGED <<announced, links>>
  <2>1. \/ req' = [req EXCEPT ![r] = Idle]
        \/ /\ req' = [req EXCEPT ![r] = [req[r] EXCEPT !.pc = "unsent"]]
           /\ UNCHANGED <<announced, links>>
    BY DEF SendLetter, DropLink, Goto
  <2>2. [req[r] EXCEPT !.pc = "unsent"]
            = [pc |-> "unsent", link |-> req[r].link, email |-> req[r].email]
    BY <1>1 DEF Sending
  <2> QED
    BY <2>1, <2>2 DEF TypeOK
<1>3. /\ announced' \subseteq announced \cup {req[r].link}
      /\ announced' # announced => req'[r] = Idle
  BY <1>2, Gone DEF SendLetter, DropLink
<1>4. /\ links' \in [Email -> LinkRow \cup {None}]
      /\ \A e \in Email :
            \/ links'[e] = links[e]
            \/ links'[e] = None /\ links[e] # None /\ links[e].link = req[r].link
               /\ announced' = announced
  BY DEF SendLetter, DropLink, Holding, TypeOK
<1>5. TypeOK'
  <2>1. req' \in [Request -> {Idle} \cup Sending \cup Completing \cup Found]
    <3>1. req'[r] \in {Idle} \cup Sending
      BY <1>1, <1>2 DEF Sending
    <3>2. req' = [req EXCEPT ![r] = req'[r]]
      BY <3>1 DEF SendLetter, DropLink, Goto, TypeOK
    <3> QED
      BY <3>1, <3>2 DEF TypeOK
  <2>2. announced' \subseteq Link
    BY <1>1, <1>3 DEF Sending, TypeOK
  <2> QED
    BY <1>1, <1>4, <2>1, <2>2 DEF TypeOK
<1>6. LinkInv'
  BY <1>1, <1>4 DEF LinkInv
<1>7. LetterInv'
  <2>1. letters[req[r].link] # None /\ letters[req[r].link] = req[r].email
    BY <1>1, LoginAssumption DEF LetterInv, Sending
  <2> QED
    BY <1>1, <1>2, <1>3, <2>1 DEF LetterInv
<1>8. SendInv'
  BY <1>1, <1>2, <1>3 DEF SendInv, SendsLink, Idle
<1>9. CompleteInv' /\ HoldInv'
  <2>1. CompleteInv'
    BY <1>1, <1>2 DEF CompleteInv, Completes, Idle
  <2>2. ASSUME NEW s \in Request, SendsLink(s)', req'[s].link \notin spent,
               newest[req'[s].email] = req'[s].link
        PROVE  Holding(req[s].email, req[s].link)'
    <3>1. CASE s = r
      BY <1>1, <1>2, <2>2, <3>1 DEF HoldInv, SendsLink, Holding, Idle
    <3>2. CASE s # r
      <4>1. /\ SendsLink(s) /\ req'[s] = req[s] /\ req[s].link # req[r].link
            /\ Holding(req[s].email, req[s].link)
        BY <1>1, <1>2, <2>2, <3>2 DEF HoldInv, SendInv, SendsLink
      <4>2. req[s].email \in Email
        BY <4>1, LoginTypes
      <4> QED
        BY <1>4, <4>1, <4>2 DEF Holding
    <3> QED
      BY <3>1, <3>2
  <2> QED
    BY <1>1, <2>1, <2>2 DEF HoldInv
<1>10. SessionInv' /\ LinkOpensOneSession' /\ OneUserPerAddress' /\ SessionsOfMailbox'
  BY <1>1 DEF SessionInv, LinkOpensOneSession, OneUserPerAddress, SessionsOfMailbox
<1>11. AnnouncedLinkWorks'
  <2> SUFFICES ASSUME NEW e \in Email, newest[e] \in announced', newest[e] \notin spent
               PROVE  links'[e] # None /\ links'[e].link = newest[e]
    BY <1>1 DEF AnnouncedLinkWorks, Holding
  <2>1. CASE links'[e] = links[e] /\ newest[e] \in announced
    BY <2>1 DEF AnnouncedLinkWorks, Holding
  <2>2. CASE links'[e] # links[e]
    <3>1. newest[e] = req[r].link /\ newest[e] \in announced
      BY <1>4, <2>2 DEF LinkInv
    <3> QED
      BY <1>1, <3>1 DEF SendInv
  <2>3. CASE links'[e] = links[e] /\ newest[e] \notin announced
    <3>1. newest[e] = req[r].link
      BY <1>3, <2>3
    <3>2. e = req[r].email
      BY <1>1, <3>1, LoginAssumption DEF LetterInv, Sending
    <3> QED
      BY <1>1, <2>3, <3>1, <3>2 DEF HoldInv, Holding
  <2> QED
    BY <2>1, <2>2, <2>3
<1> QED
  BY <1>5, <1>6, <1>7, <1>8, <1>9, <1>10, <1>11

\* A link that is consumed is there and unused, and leaves its row.
LEMMA ConsumeLinkKeeps ==
    ASSUME LoginInv, NEW r \in Request, NEW k \in Link, ConsumeLink(r, k)
    PROVE  LoginInv'
<1> USE DEF LoginInv
<1>1. PICK e \in Email :
          /\ Holding(e, k) /\ links' = [links EXCEPT ![e] = None]
          /\ Goto(r, [pc |-> "consumed", link |-> k, email |-> e])
  BY DEF ConsumeLink
<1>2. /\ req[r] = Idle /\ spent' = spent \cup {k}
      /\ UNCHANGED <<users, sessions, opened, letters, newest, announced>>
  BY DEF ConsumeLink, accounts
<1>3. /\ req'[r] = [pc |-> "consumed", link |-> k, email |-> e]
      /\ \A s \in Request \ {r} : req'[s] = req[s]
  BY <1>1, Gone
<1>4. /\ links[e] # None /\ links[e].link = k /\ newest[e] = k /\ k \notin spent
      /\ letters[k] = e
  BY <1>1, LoginAssumption DEF Holding, LinkInv, LetterInv
<1>5. /\ links'[e] = None
      /\ \A d \in Email \ {e} : links'[d] = links[d] /\ newest[d] # k
  BY <1>1, <1>4, LoginAssumption DEF LetterInv, TypeOK
<1>6. TypeOK'
  <2>1. [pc |-> "consumed", link |-> k, email |-> e] \in Completing
    BY DEF Completing
  <2>2. req' \in [Request -> {Idle} \cup Sending \cup Completing \cup Found]
    BY <1>1, <2>1, GotoType
  <2> QED
    BY <1>1, <1>2, <2>2 DEF TypeOK
<1>7. LinkInv'
  BY <1>2, <1>5 DEF LinkInv
<1>8. LetterInv'
  <2>1. letters[k] # None
    BY <1>4, LoginAssumption
  <2> QED
    BY <1>2, <1>3, <1>4, <2>1 DEF LetterInv
<1>9. SendInv'
  BY <1>2, <1>3 DEF SendInv, SendsLink
<1>10. HoldInv'
  <2> SUFFICES ASSUME NEW s \in Request, SendsLink(s)', req'[s].link \notin spent',
                      newest[req'[s].email] = req'[s].link
               PROVE  Holding(req[s].email, req[s].link)'
    BY <1>2 DEF HoldInv
  <2>1. s # r /\ req'[s] = req[s] /\ SendsLink(s) /\ req[s].email \in Email
    BY <1>3, LoginTypes DEF SendsLink
  <2>2. Holding(req[s].email, req[s].link) /\ req[s].link # k
    BY <1>2, <2>1 DEF HoldInv
  <2>3. req[s].email # e
    BY <1>4, <2>2 DEF Holding
  <2> QED
    BY <1>5, <2>1, <2>2, <2>3 DEF Holding
<1>11. CompleteInv'
  BY <1>2, <1>3, <1>4 DEF CompleteInv, Completes, SessionInv
<1>12. SessionInv' /\ LinkOpensOneSession' /\ SessionsOfMailbox' /\ OneUserPerAddress'
  BY <1>2 DEF SessionInv, LinkOpensOneSession, SessionsOfMailbox, OneUserPerAddress
<1>13. AnnouncedLinkWorks'
  <2> SUFFICES ASSUME NEW d \in Email, newest[d] \in announced \ spent'
               PROVE  links'[d] # None /\ links'[d].link = newest[d]
    BY <1>2 DEF AnnouncedLinkWorks, Holding
  <2>1. d # e /\ newest[d] \notin spent
    BY <1>2, <1>4
  <2> QED
    BY <1>5, <2>1 DEF AnnouncedLinkWorks, Holding
<1> QED
  BY <1>6, <1>7, <1>8, <1>9, <1>10, <1>11, <1>12, <1>13

\* When no link, session or user changes, a login may go on as itself or stop.
LEMMA LoginGoesOn ==
    ASSUME LoginInv, NEW r \in Request,
           NEW to \in {Idle} \cup Completing \cup Found, Goto(r, to),
           to # Idle => /\ Completes(r)
                        /\ to.link = req[r].link /\ to.email = req[r].email,
           to # Idle /\ to.pc = "found" =>
               \E u \in users' : u.id = to.user /\ u.email = to.email,
           users \subseteq users', users' \subseteq [id : UserId, email : Email],
           \A u, v \in users' : u.email = v.email => u = v,
           UNCHANGED <<links, sessions, opened, letters, newest, announced, spent>>
    PROVE  LoginInv'
<1> USE DEF LoginInv
<1>1. req'[r] = to /\ \A s \in Request \ {r} : req'[s] = req[s]
  BY Gone
<1>2. to # Idle => Completes(r)' /\ ~SendsLink(r)'
  BY <1>1 DEF Completing, Found, Completes, SendsLink, Idle
<1>3. ~SendsLink(r)'
  BY <1>1, <1>2 DEF SendsLink, Idle
<1>4. TypeOK'
  BY GotoType DEF TypeOK
<1>5. LinkInv'
  BY DEF LinkInv
<1>6. LetterInv'
  <2>1. to # Idle => req[r] # Idle
    BY LoginTypes
  <2> QED
    BY <1>1, <2>1 DEF LetterInv
<1>7. SendInv' /\ HoldInv'
  BY <1>1, <1>3 DEF SendInv, HoldInv, SendsLink, Holding
<1>8. CompleteInv'
  <2> SUFFICES ASSUME NEW s \in Request, Completes(s)'
               PROVE  /\ req'[s].link \in spent
                      /\ \A o \in opened : o.link # req'[s].link
                      /\ \A t \in Request \ {s} :
                             Completes(t)' => req'[t].link # req'[s].link
                      /\ req'[s].pc = "found" =>
                             \E u \in users' : u.id = req'[s].user /\ u.email = req'[s].email
    BY DEF CompleteInv
  <2>1. \A t \in Request : Completes(t)' => Completes(t) /\ req'[t].link = req[t].link
    BY <1>1 DEF Completes, Idle
  <2>2. req'[s].pc = "found" =>
             \E u \in users' : u.id = req'[s].user /\ u.email = req'[s].email
    <3>1. CASE s = r
      BY <1>1, <2>1, <3>1 DEF Completes, Idle
    <3>2. CASE s # r
      BY <1>1, <2>1, <3>2 DEF CompleteInv
    <3> QED
      BY <3>1, <3>2
  <2> QED
    BY <2>1, <2>2 DEF CompleteInv
<1>9. SessionInv' /\ LinkOpensOneSession' /\ SessionsOfMailbox' /\ OneUserPerAddress'
  BY DEF SessionInv, LinkOpensOneSession, SessionsOfMailbox, OneUserPerAddress
<1>10. AnnouncedLinkWorks'
  BY DEF AnnouncedLinkWorks, Holding
<1> QED
  BY <1>4, <1>5, <1>6, <1>7, <1>8, <1>9, <1>10

\* The user that is found has the address of the link.
LEMMA FindUserKeeps ==
    ASSUME LoginInv, NEW r \in Request, FindUser(r)
    PROVE  LoginInv'
<1> USE DEF LoginInv
<1>1. /\ Completes(r) /\ req[r] \in Completing
      /\ UNCHANGED <<links, users, sessions, opened, letters, newest, announced, spent>>
  BY LoginTypes DEF FindUser, Completes, accounts
<1>2. CASE \E u \in users : u.email = req[r].email /\ Goto(r, WithUser(req[r], u.id))
  <2>1. PICK u \in users : u.email = req[r].email /\ Goto(r, WithUser(req[r], u.id))
    BY <1>2
  <2>2. PICK to : to = WithUser(req[r], u.id)
    OBVIOUS
  <2>3. /\ to \in Found /\ to.link = req[r].link /\ to.email = req[r].email
        /\ to.user = u.id
    BY <1>1, <2>1, <2>2 DEF WithUser, Found, Completing, TypeOK
  <2> QED
    BY <1>1, <2>1, <2>2, <2>3, LoginGoesOn DEF TypeOK, OneUserPerAddress
<1>3. CASE Goto(r, [req[r] EXCEPT !.pc = "missing"])
  <2>1. PICK to : to = [req[r] EXCEPT !.pc = "missing"]
    OBVIOUS
  <2>2. to = [pc |-> "missing", link |-> req[r].link, email |-> req[r].email]
    BY <1>1, <2>1 DEF Completing
  <2>3. /\ to \in Completing /\ to.link = req[r].link /\ to.email = req[r].email
        /\ to.pc # "found"
    BY <1>1, <2>2 DEF Completing
  <2> QED
    BY <1>1, <1>3, <2>1, <2>3, LoginGoesOn DEF TypeOK, OneUserPerAddress
<1> QED
  BY <1>2, <1>3 DEF FindUser

\* A user is created for the address of the link, when there is none.
LEMMA CreateUserKeeps ==
    ASSUME LoginInv, NEW r \in Request, NEW id \in UserId, CreateUser(r, id)
    PROVE  LoginInv'
<1> USE DEF LoginInv
<1>1. /\ Completes(r) /\ req[r] \in Completing
      /\ UNCHANGED <<links, sessions, opened, letters, newest, announced, spent>>
  BY LoginTypes DEF CreateUser, Completes
<1>2. /\ \A u \in users : u.email # req[r].email
      /\ users' = users \cup {[id |-> id, email |-> req[r].email]}
      /\ Goto(r, WithUser(req[r], id))
  BY DEF CreateUser
<1>3. PICK to : to = WithUser(req[r], id)
  OBVIOUS
<1>4. /\ to \in Found /\ to.link = req[r].link /\ to.email = req[r].email
      /\ to.user = id
  BY <1>1, <1>3 DEF WithUser, Found, Completing
<1>5. users \subseteq users' /\ users' \subseteq [id : UserId, email : Email]
  BY <1>1, <1>2 DEF Completing, TypeOK
<1>6. \A u, v \in users' : u.email = v.email => u = v
  BY <1>2 DEF OneUserPerAddress
<1>7. \E u \in users' : u.id = to.user /\ u.email = to.email
  <2>1. PICK u : u = [id |-> id, email |-> req[r].email]
    OBVIOUS
  <2>2. u \in users' /\ u.id = id /\ u.email = req[r].email
    BY <1>2, <2>1
  <2> QED
    BY <1>4, <2>2
<1> QED
  BY <1>1, <1>2, <1>3, <1>4, <1>5, <1>6, <1>7, LoginGoesOn

\* What a handler stored or consumed before it stops stays so.
LEMMA FailKeeps ==
    ASSUME LoginInv, NEW r \in Request, Fail(r)
    PROVE  LoginInv'
<1> USE DEF LoginInv
<1>1. /\ Goto(r, Idle)
      /\ UNCHANGED <<links, users, sessions, opened, letters, newest, announced, spent>>
  BY DEF Fail, accounts
<1>2. PICK to : to = Idle
  OBVIOUS
<1>3. \A u, v \in users' : u.email = v.email => u = v
  BY <1>1 DEF OneUserPerAddress
<1>4. Goto(r, to) /\ users' \subseteq [id : UserId, email : Email]
  BY <1>1, <1>2 DEF Goto, TypeOK
<1> QED
  BY <1>1, <1>2, <1>3, <1>4, LoginGoesOn

\* A session is stored for a link that has opened none, under an id of its own.
LEMMA SaveSessionKeeps ==
    ASSUME LoginInv, NEW r \in Request, NEW i \in SessionId, SaveSession(r, i)
    PROVE  LoginInv'
<1> USE DEF LoginInv
<1>1. /\ req[r].pc = "found" /\ Completes(r) /\ req[r] \in Found /\ req[r] # Idle
      /\ \A o \in opened : o.id # i
      /\ UNCHANGED <<links, users, letters, newest, announced, spent>>
  BY LoginTypes DEF SaveSession, Completes
<1>2. /\ sessions' = sessions \cup {[id |-> i, user |-> req[r].user]}
      /\ opened' = opened \cup {[id |-> i, user |-> req[r].user, link |-> req[r].link]}
      /\ Goto(r, Idle)
  BY DEF SaveSession
<1>3. req'[r] = Idle /\ \A s \in Request \ {r} : req'[s] = req[s]
  BY <1>2, Gone
<1>4. TypeOK'
  <2>1. req' \in [Request -> {Idle} \cup Sending \cup Completing \cup Found]
    BY <1>2, GotoType
  <2> QED
    BY <1>1, <1>2, <2>1 DEF TypeOK, Found
<1>5. LinkInv' /\ AnnouncedLinkWorks' /\ OneUserPerAddress'
  BY <1>1 DEF LinkInv, AnnouncedLinkWorks, OneUserPerAddress, Holding
<1>6. LetterInv' /\ SendInv' /\ HoldInv'
  BY <1>1, <1>3 DEF LetterInv, SendInv, HoldInv, SendsLink, Holding, Idle
<1>7. req[r].link \in spent /\ \A o \in opened : o.link # req[r].link
  BY <1>1 DEF CompleteInv
<1>8. CompleteInv'
  <2> SUFFICES ASSUME NEW s \in Request, Completes(s)'
               PROVE  /\ req[s].link \in spent
                      /\ \A o \in opened' : o.link # req[s].link
                      /\ \A t \in Request \ {s} : Completes(t)' => req'[t].link # req'[s].link
                      /\ req[s].pc = "found" =>
                             \E u \in users : u.id = req[s].user /\ u.email = req[s].email
    BY <1>1, <1>3 DEF CompleteInv, Completes, Idle
  <2>1. s # r /\ req'[s] = req[s] /\ Completes(s)
    BY <1>3 DEF Completes, Idle
  <2>2. req[r].link # req[s].link
    BY <1>1, <2>1 DEF CompleteInv
  <2>3. \A o \in opened' : o.link # req[s].link
    BY <1>2, <2>1, <2>2 DEF CompleteInv
  <2>4. \A t \in Request \ {s} : Completes(t)' => req'[t].link # req'[s].link
    BY <1>3, <2>1 DEF CompleteInv, Completes, Idle
  <2> QED
    BY <2>1, <2>3, <2>4 DEF CompleteInv
<1>9. SessionInv'
  <2>1. \A o \in opened' : o.link \in spent
    BY <1>2, <1>7 DEF SessionInv
  <2>2. \A o, p \in opened' : o.id = p.id => o = p
    BY <1>1, <1>2 DEF SessionInv
  <2>3. \A s \in sessions' : \E o \in opened' : o.id = s.id /\ o.user = s.user
    <3>1. PICK o : o = [id |-> i, user |-> req[r].user, link |-> req[r].link]
      OBVIOUS
    <3>2. o \in opened' /\ o.id = i /\ o.user = req[r].user
      BY <1>2, <3>1
    <3>3. \A s \in sessions' : s \in sessions \/ (s.id = i /\ s.user = req[r].user)
      BY <1>2
    <3>4. opened \subseteq opened'
      BY <1>2
    <3> QED
      BY <3>2, <3>3, <3>4 DEF SessionInv
  <2> QED
    BY <1>1, <2>1, <2>2, <2>3 DEF SessionInv
<1>10. LinkOpensOneSession'
  BY <1>2, <1>7 DEF LinkOpensOneSession
<1>11. SessionsOfMailbox'
  <2>1. PICK u \in users : u.id = req[r].user /\ u.email = req[r].email
    BY <1>1 DEF CompleteInv
  <2>2. letters[req[r].link] = req[r].email
    BY <1>1 DEF LetterInv
  <2> QED
    BY <1>1, <1>2, <2>1, <2>2 DEF SessionsOfMailbox
<1> QED
  BY <1>4, <1>5, <1>6, <1>8, <1>9, <1>10, <1>11

\* A link that expires is still in its row.
LEMMA ExpireKeeps ==
    ASSUME LoginInv, NEW e \in Email, Expire(e)
    PROVE  LoginInv'
<1> USE DEF LoginInv
<1>1. UNCHANGED <<users, sessions, opened, req, letters, newest, announced, spent>>
  BY DEF Expire, accounts
<1>2. /\ links' \in [Email -> LinkRow \cup {None}]
      /\ \A d \in Email : \/ links'[d] = links[d]
                          \/ /\ links[d] # None /\ links'[d] # None
                             /\ links'[d].link = links[d].link
  <2>1. links[e] \in LinkRow /\ links' = [links EXCEPT ![e].expired = TRUE]
    BY DEF Expire, TypeOK
  <2>2. PICK row : row = [links[e] EXCEPT !.expired = TRUE]
    OBVIOUS
  <2>3. row \in LinkRow /\ row.link = links[e].link
    BY <2>1, <2>2 DEF LinkRow
  <2>4. links' = [links EXCEPT ![e] = row]
    BY <2>1, <2>2
  <2> QED
    BY <2>1, <2>3, <2>4, LoginAssumption DEF TypeOK
<1>3. TypeOK'
  BY <1>1, <1>2 DEF TypeOK
<1>4. LinkInv' /\ AnnouncedLinkWorks'
  BY <1>1, <1>2 DEF LinkInv, AnnouncedLinkWorks, Holding
<1>5. HoldInv'
  <2> SUFFICES ASSUME NEW s \in Request, SendsLink(s), req[s].link \notin spent,
                      newest[req[s].email] = req[s].link
               PROVE  Holding(req[s].email, req[s].link)'
    BY <1>1 DEF HoldInv, SendsLink
  <2>1. req[s].email \in Email
    BY LoginTypes
  <2> QED
    BY <1>1, <1>2, <2>1 DEF HoldInv, Holding
<1>6. LetterInv' /\ SendInv' /\ CompleteInv' /\ SessionInv'
  BY <1>1 DEF LetterInv, SendInv, CompleteInv, SessionInv, SendsLink, Completes
<1>7. LinkOpensOneSession' /\ SessionsOfMailbox' /\ OneUserPerAddress'
  BY <1>1 DEF LinkOpensOneSession, SessionsOfMailbox, OneUserPerAddress
<1> QED
  BY <1>3, <1>4, <1>5, <1>6, <1>7

\* Ending sessions leaves the logins alone.
LEMMA EndSessionsKeeps ==
    ASSUME LoginInv, sessions' \subseteq sessions,
           UNCHANGED <<links, users, req, letters, newest, announced, spent, opened>>
    PROVE  LoginInv'
<1> USE DEF LoginInv
<1>1. TypeOK' /\ LinkInv' /\ LetterInv' /\ SendInv' /\ HoldInv'
  BY DEF TypeOK, LinkInv, LetterInv, SendInv, HoldInv, SendsLink, Holding
<1>2. CompleteInv' /\ SessionInv'
  BY DEF CompleteInv, SessionInv, Completes
<1>3. LinkOpensOneSession' /\ AnnouncedLinkWorks' /\ SessionsOfMailbox' /\ OneUserPerAddress'
  BY DEF LinkOpensOneSession, AnnouncedLinkWorks, SessionsOfMailbox, OneUserPerAddress, Holding
<1> QED
  BY <1>1, <1>2, <1>3

\* Every step of a login keeps what the logins rest on.
LEMMA LoginKeeps ==
    ASSUME LoginInv, NEW r \in Request, Login(r)
    PROVE  LoginInv'
<1>1. ASSUME NEW k \in Link, RefuseLink(r, k) PROVE LoginInv'
  BY <1>1, EndSessionsKeeps DEF RefuseLink, vars
<1> QED
  BY <1>1, SaveLinkKeeps, SendLetterKeeps, ConsumeLinkKeeps, FindUserKeeps, CreateUserKeeps,
     SaveSessionKeeps, FailKeeps
  DEF Login

-----------------------------------------------------------------------------
(* What the requests in flight rest on *)

\* A request names a session that was opened or holds the right key, and acts as
\* no more than that gives it.
Proper(q) ==
    /\ Presentable(q.with)
    /\ q.with.kind = "key" => q.with.right
    /\ q.ended => Over(q.with)
    /\ q.pc = "identified" => q.path # "platform"
    /\ q.pc = "acting" =>
          /\ ~q.ended
          /\ q.path = "signout" => q.with.kind = "session"
          /\ q.who \in UserId =>
                /\ q.with.right
                /\ \E o \in opened, u \in users :
                      /\ o.id = q.with.id /\ o.user = q.who
                      /\ u.id = q.who /\ letters[o.link] = u.email
          /\ q.who = Service => q.with.kind = "key" /\ q.with.right
          /\ q.path = "platform" => q.who = Service

ProperInv == \A c \in Call : calls[c] # Idle => Proper(calls[c])

\* What was signed out of was a session, and is none any more.
SignedOutInv ==
    /\ \A s \in sessions : s.id \notin signedOut
    /\ \A i \in signedOut : \E o \in opened : o.id = i

CallInv == CallersTypeOK /\ LoginInv /\ ProperInv /\ SignedOutInv

\* Users, sessions that were opened and the addresses of links are not forgotten.
HistoryGrows ==
    /\ opened \subseteq opened' /\ users \subseteq users'
    /\ \A o \in opened : letters'[o.link] = letters[o.link]
    /\ lapsed \subseteq lapsed' /\ signedOut \subseteq signedOut'

\* What is proper stays so as the history grows.
LEMMA ProperLasts ==
    ASSUME NEW q, Proper(q), HistoryGrows
    PROVE  Proper(q)'
<1>1. Presentable(q.with)' /\ (q.ended => Over(q.with)')
  BY DEF Proper, Presentable, Over, HistoryGrows
<1>2. ASSUME q.pc = "acting", q.who \in UserId
      PROVE  \E o \in opened', u \in users' :
                 /\ o.id = q.with.id /\ o.user = q.who
                 /\ u.id = q.who /\ letters'[o.link] = u.email
  BY <1>2 DEF Proper, HistoryGrows
<1> QED
  BY <1>1, <1>2 DEF Proper

\* The requests that do not move stay as they should be.
LEMMA OneCallMoves ==
    ASSUME CallInv, NEW c \in Call, NEW to \in {Idle} \cup CallState,
           calls' = [calls EXCEPT ![c] = to], to # Idle => Proper(to), HistoryGrows
    PROVE  ProperInv' /\ calls' \in [Call -> {Idle} \cup CallState]
<1>1. calls \in [Call -> {Idle} \cup CallState]
  BY DEF CallInv, CallersTypeOK
<1>2. ASSUME NEW d \in Call, calls'[d] # Idle PROVE Proper(calls[d])'
  <2>1. PICK q : q = calls'[d]
    OBVIOUS
  <2>2. Proper(q)
    <3>1. CASE d = c
      BY <1>1, <1>2, <2>1, <3>1
    <3>2. CASE d # c
      BY <1>1, <1>2, <2>1, <3>2 DEF CallInv, ProperInv
    <3> QED
      BY <3>1, <3>2
  <2>3. Proper(q)'
    BY <2>2, ProperLasts
  <2> QED
    BY <2>1, <2>3 DEF Proper, Presentable, Over
<1> QED
  BY <1>1, <1>2 DEF ProperInv

\* A login beside the requests adds to what they rest on.
LEMMA LoginGrows ==
    ASSUME LoginInv, NEW r \in Request, Login(r), UNCHANGED callVars
    PROVE  /\ HistoryGrows
           /\ \A s \in sessions' : s \in sessions \/ \A o \in opened : o.id # s.id
<1>1. \A o \in opened : o.link \in Link /\ letters[o.link] # None
  BY DEF LoginInv, TypeOK, SessionInv, LetterInv
<1>2. letters \in [Link -> Email \cup {None}]
  BY DEF LoginInv, TypeOK
<1>3. lapsed' = lapsed /\ signedOut' = signedOut
  BY DEF callVars
<1>4. ASSUME NEW e \in Email, NEW k \in Link, SaveLink(r, e, k)
      PROVE  /\ UNCHANGED <<users, sessions, opened>>
             /\ \A o \in opened : letters'[o.link] = letters[o.link]
  BY <1>1, <1>2, <1>4 DEF SaveLink, accounts
<1>5. ASSUME NEW i \in SessionId, SaveSession(r, i)
      PROVE  /\ users' = users /\ letters' = letters /\ opened \subseteq opened'
             /\ \A s \in sessions' : s \in sessions \/ \A o \in opened : o.id # s.id
  BY <1>5 DEF SaveSession
<1>6. ASSUME NEW id \in UserId, CreateUser(r, id)
      PROVE  users \subseteq users' /\ UNCHANGED <<sessions, opened, letters>>
  BY <1>6 DEF CreateUser
<1>7. \/ \E e \in Email, k \in Link : SaveLink(r, e, k)
      \/ \E i \in SessionId : SaveSession(r, i)
      \/ \E id \in UserId : CreateUser(r, id)
      \/ UNCHANGED <<users, sessions, opened, letters>>
  BY DEF Login, SendLetter, DropLink, ConsumeLink, RefuseLink, FindUser, Fail, accounts, vars
<1> QED
  BY <1>3, <1>4, <1>5, <1>6, <1>7 DEF HistoryGrows

\* Logins and the clocks of links leave the requests alone.
LEMMA BesideKeeps ==
    ASSUME CallInv, UNCHANGED callVars,
           (\E r \in Request : Login(r)) \/ \E e \in Email : Expire(e)
    PROVE  CallInv'
<1>1. /\ LoginInv' /\ HistoryGrows
      /\ \A s \in sessions' : s \in sessions \/ \A o \in opened : o.id # s.id
  <2>1. CASE \E r \in Request : Login(r)
    BY <2>1, LoginKeeps, LoginGrows DEF CallInv
  <2>2. CASE \E e \in Email : Expire(e)
    BY <2>2, ExpireKeeps DEF CallInv, Expire, accounts, HistoryGrows, callVars
  <2> QED
    BY <2>1, <2>2
<1>2. CallersTypeOK'
  BY <1>1 DEF CallInv, CallersTypeOK, LoginInv, callVars
<1>3. ASSUME NEW c \in Call, calls'[c] # Idle PROVE Proper(calls[c])'
  <2>1. PICK q : q = calls[c] /\ q = calls'[c]
    BY DEF callVars
  <2>2. Proper(q)'
    BY <1>1, <1>3, <2>1, ProperLasts DEF CallInv, ProperInv
  <2> QED
    BY <2>1, <2>2 DEF Proper, Presentable, Over
<1>4. SignedOutInv'
  BY <1>1 DEF CallInv, SignedOutInv, HistoryGrows, callVars
<1> QED
  BY <1>1, <1>2, <1>3, <1>4 DEF CallInv, ProperInv

\* The middleware lets the right key pass, and keeps the rest from the platform.
LEMMA AuthMiddlewareKeeps ==
    ASSUME CallInv, NEW c \in Call, NEW path \in Path, NEW with \in Credential,
           AuthMiddleware(c, path, with)
    PROVE  CallInv'
<1>1. UNCHANGED <<vars, lapsed, signedOut>> /\ HistoryGrows
  BY DEF AuthMiddleware, vars, HistoryGrows
<1>2. LoginInv'
  BY <1>1, EndSessionsKeeps DEF CallInv, vars
<1>3. PICK q : q = Identified(path, with)
  OBVIOUS
<1>4. PICK to : to = IF path = "platform" THEN Acting(q, Service) ELSE q
  OBVIOUS
<1>5. calls' = [calls EXCEPT ![c] = to]
  BY <1>3, <1>4 DEF AuthMiddleware
<1>6. /\ with.kind = "key" => with.right
      /\ path = "platform" => with.kind = "key"
      /\ Presentable(with) /\ Over(with) \in BOOLEAN
  BY DEF AuthMiddleware, Over
<1>7. /\ q \in CallState
      /\ q.pc = "identified" /\ q.path = path /\ q.with = with /\ q.ended = Over(with)
  BY <1>3, <1>6 DEF Identified, CallState
<1>8. CASE path = "platform"
  <2>1. to = [pc |-> "acting", path |-> path, with |-> with, ended |-> Over(with),
              who |-> Service]
    BY <1>4, <1>7, <1>8 DEF Acting
  <2>2. to \in CallState
    BY <1>6, <2>1 DEF CallState, Who
  <2>3. Proper(to)
    <3>1. ~Over(with) /\ with.right /\ Service \notin UserId
      BY <1>6, <1>8, CallersAssumption DEF Over
    <3> QED
      BY <1>6, <1>8, <2>1, <3>1 DEF Proper
  <2> QED
    BY <1>1, <1>2, <1>5, <2>2, <2>3, OneCallMoves
    DEF CallInv, CallersTypeOK, LoginInv, SignedOutInv, vars
<1>9. CASE path # "platform"
  <2>1. to = q /\ Proper(q)
    BY <1>4, <1>6, <1>7, <1>9 DEF Proper
  <2> QED
    BY <1>1, <1>2, <1>5, <1>7, <2>1, OneCallMoves
    DEF CallInv, CallersTypeOK, LoginInv, SignedOutInv, vars
<1> QED
  BY <1>8, <1>9

\* The session a request names still is one, and was never signed out of.
LEMMA ResolvePrincipalKeeps ==
    ASSUME CallInv, NEW c \in Call, ResolvePrincipal(c)
    PROVE  CallInv'
<1>1. UNCHANGED <<vars, lapsed, signedOut>> /\ HistoryGrows
  BY DEF ResolvePrincipal, vars, HistoryGrows
<1>2. LoginInv'
  BY <1>1, EndSessionsKeeps DEF CallInv, vars
<1>3. PICK q : q = calls[c]
  OBVIOUS
<1>4. /\ q \in CallState /\ q.pc = "identified" /\ q.path # "platform"
      /\ Proper(q)
  BY <1>3 DEF ResolvePrincipal, CallInv, CallersTypeOK, ProperInv, Proper, Idle
<1>5. PICK who :
          /\ calls' = [calls EXCEPT ![c] = Acting(q, who)]
          /\ \/ /\ q.with.kind = "session"
                /\ \E s \in ValidateSession(q.with) : who = s.user
             \/ /\ q.with.kind = "key" /\ q.path \in {"orgs", "data"} /\ who = Service
             \/ /\ q.with.kind = "none" /\ q.path = "data" /\ who = Anonymous
  BY <1>3 DEF ResolvePrincipal
<1>6. PICK to : to = Acting(q, who)
  OBVIOUS
<1>7. to = [pc |-> "acting", path |-> q.path, with |-> q.with, ended |-> q.ended,
            who |-> who]
  BY <1>6 DEF Acting
<1>8. CASE q.with.kind = "session"
  <2>1. PICK s \in sessions : /\ s.id = q.with.id /\ q.with.right /\ s.id \notin lapsed
                              /\ who = s.user
    BY <1>5, <1>8 DEF ValidateSession
  <2>2. who \in UserId /\ who # Service
    BY <2>1, CallersAssumption DEF CallInv, LoginInv, TypeOK
  <2>3. ~q.ended
    BY <1>4, <2>1 DEF Proper, Over, CallInv, SignedOutInv
  <2>4. \E o \in opened, u \in users :
            /\ o.id = q.with.id /\ o.user = who
            /\ u.id = who /\ letters[o.link] = u.email
    <3>1. PICK o \in opened : o.id = s.id /\ o.user = s.user
      BY DEF CallInv, LoginInv, SessionInv
    <3>2. PICK u \in users : u.id = o.user /\ u.email = letters[o.link]
      BY DEF CallInv, LoginInv, SessionsOfMailbox
    <3> QED
      BY <2>1, <3>1, <3>2
  <2>5. to \in CallState /\ Proper(to)
    BY <1>4, <1>7, <1>8, <2>1, <2>2, <2>3, <2>4 DEF CallState, Who, Proper
  <2> QED
    BY <1>1, <1>2, <1>5, <1>6, <2>5, OneCallMoves
    DEF CallInv, CallersTypeOK, LoginInv, SignedOutInv, vars
<1>9. CASE q.with.kind # "session"
  <2>1. /\ ~q.ended /\ q.path # "signout" /\ who \notin UserId
        /\ who \in {Service, Anonymous}
        /\ who = Service => q.with.kind = "key" /\ q.with.right
    BY <1>4, <1>5, <1>9, CallersAssumption DEF Proper, Over
  <2>2. to \in CallState /\ Proper(to)
    BY <1>4, <1>7, <2>1 DEF CallState, Who, Proper
  <2> QED
    BY <1>1, <1>2, <1>5, <1>6, <2>2, OneCallMoves
    DEF CallInv, CallersTypeOK, LoginInv, SignedOutInv, vars
<1> QED
  BY <1>8, <1>9

\* Signing out removes the row that the caller's token names, and no other.
LEMMA SignOutKeeps ==
    ASSUME CallInv, NEW c \in Call, SignOut(c)
    PROVE  CallInv'
<1>1. PICK q : q = calls[c]
  OBVIOUS
<1>2. /\ q.pc = "acting" /\ q.path = "signout"
      /\ sessions' = {s \in sessions : s.id # q.with.id}
      /\ signedOut' = signedOut \cup {q.with.id}
      /\ calls' = [calls EXCEPT ![c] = Idle]
      /\ UNCHANGED <<links, users, req, letters, newest, announced, spent, opened, lapsed>>
  BY <1>1 DEF SignOut
<1>3. LoginInv'
  BY <1>2, EndSessionsKeeps DEF CallInv
<1>4. Proper(q)
  BY <1>1, <1>2 DEF CallInv, ProperInv, Idle
<1>5. PICK o \in opened : o.id = q.with.id
  BY <1>2, <1>4 DEF Proper, Presentable
<1>6. q.with.id \in SessionId
  BY <1>5 DEF CallInv, LoginInv, TypeOK
<1>7. HistoryGrows
  BY <1>2 DEF HistoryGrows
<1>8. CallersTypeOK' /\ ProperInv'
  BY <1>2, <1>3, <1>6, <1>7, OneCallMoves DEF CallInv, CallersTypeOK, LoginInv
<1>9. SignedOutInv'
  BY <1>2, <1>5 DEF CallInv, SignedOutInv
<1> QED
  BY <1>3, <1>8, <1>9 DEF CallInv

\* An answer ends a request.
LEMMA EndCallKeeps ==
    ASSUME CallInv, NEW c \in Call, EndCall(c)
    PROVE  CallInv'
<1>1. UNCHANGED <<vars, lapsed, signedOut>> /\ HistoryGrows
  BY DEF EndCall, vars, HistoryGrows
<1>2. LoginInv'
  BY <1>1, EndSessionsKeeps DEF CallInv, vars
<1> QED
  BY <1>1, <1>2, OneCallMoves DEF EndCall, CallInv, CallersTypeOK, LoginInv, SignedOutInv, vars

\* A session that lapses ends no request that is already acting.
LEMMA LapseKeeps ==
    ASSUME CallInv, NEW s \in sessions, Lapse(s)
    PROVE  CallInv'
<1>1. UNCHANGED <<vars, calls, signedOut>> /\ lapsed' = lapsed \cup {s.id} /\ HistoryGrows
  BY DEF Lapse, vars, HistoryGrows
<1>2. LoginInv'
  BY <1>1, EndSessionsKeeps DEF CallInv, vars
<1>3. CallersTypeOK' /\ SignedOutInv'
  BY <1>1, <1>2 DEF CallInv, CallersTypeOK, LoginInv, TypeOK, SignedOutInv, vars
<1>4. ASSUME NEW c \in Call, calls'[c] # Idle PROVE Proper(calls[c])'
  <2>1. PICK q : q = calls[c] /\ q = calls'[c]
    BY <1>1
  <2>2. Proper(q)'
    BY <1>1, <1>4, <2>1, ProperLasts DEF CallInv, ProperInv
  <2> QED
    BY <2>1, <2>2 DEF Proper, Presentable, Over
<1> QED
  BY <1>2, <1>3, <1>4 DEF CallInv, ProperInv

-----------------------------------------------------------------------------
\* The inductive invariant of logins and requests together.
LEMMA CallInvHolds == CallersSpec => []CallInv
<1>1. ASSUME CallersInit PROVE CallInv
  BY <1>1, InitLogins
  DEF CallersInit, CallInv, CallersTypeOK, LoginInv, ProperInv, SignedOutInv, Init
<1>2. ASSUME CallInv, [CallersNext]_allVars PROVE CallInv'
  <2>1. CASE UNCHANGED allVars
    <3>1. LoginInv' /\ UNCHANGED callVars
      BY <1>2, <2>1, EndSessionsKeeps DEF CallInv, allVars, vars
    <3>2. ProperInv'
      BY <1>2, <2>1
      DEF CallInv, ProperInv, Proper, Presentable, Over, allVars, vars, callVars
    <3> QED
      BY <1>2, <2>1, <3>1, <3>2
      DEF CallInv, CallersTypeOK, LoginInv, SignedOutInv, allVars, vars, callVars
  <2> QED
    BY <1>2, <2>1, BesideKeeps, AuthMiddlewareKeeps, ResolvePrincipalKeeps, SignOutKeeps,
       EndCallKeeps, LapseKeeps
    DEF CallersNext
<1> QED
  BY <1>1, <1>2, PTL DEF CallersSpec

\* Every variable has its type, in the logins and in the requests beside them.
THEOREM CallersTyped == CallersSpec => []CallersTypeOK
BY CallInvHolds, PTL DEF CallInv

\* However many requests present a link at once, one of them consumes the row, and
\* a session is only stored by that one (CompleteMagicLink).
THEOREM OneSessionPerLink == CallersSpec => []LinkOpensOneSession
<1>1. CallInv => LinkOpensOneSession
  BY DEF CallInv, LoginInv
<1> QED
  BY <1>1, CallInvHolds, PTL

\* A request whose letter failed deletes by id, so it takes nobody's newer link
\* away (BeginMagicLogin).
THEOREM LinkWorksOnceAnnounced == CallersSpec => []AnnouncedLinkWorks
<1>1. CallInv => AnnouncedLinkWorks
  BY DEF CallInv, LoginInv
<1> QED
  BY <1>1, CallInvHolds, PTL

\* The user a session is stored for has the address of the link, also when two
\* first logins of the address race to create the user (FindOrCreateUser).
THEOREM SessionsAreOfTheirMailbox == CallersSpec => [](SessionsOfMailbox /\ OneUserPerAddress)
<1>1. CallInv => SessionsOfMailbox /\ OneUserPerAddress
  BY DEF CallInv, LoginInv
<1> QED
  BY <1>1, CallInvHolds, PTL

\* No request that arrives after its session was over comes to act
\* (ValidateSession).
THEOREM EndedForGood == CallersSpec => []EndedSessionsStayEnded
<1>1. CallInv => EndedSessionsStayEnded
  BY DEF CallInv, ProperInv, Proper, EndedSessionsStayEnded
<1> QED
  BY <1>1, CallInvHolds, PTL

\* Users act with what a letter to them opened, the service with its key, and only
\* the service on the platform's routes (AuthMiddleware, ResolvePrincipal).
THEOREM ActsByCredential == CallersSpec => []CallersHoldTheirKey
<1>1. CallInv => CallersHoldTheirKey
  BY DEF CallInv, ProperInv, Proper, CallersHoldTheirKey
<1> QED
  BY <1>1, CallInvHolds, PTL
=============================================================================

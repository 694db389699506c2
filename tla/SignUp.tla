------------------------------- MODULE SignUp -------------------------------
(***************************************************************************)
(* Users that register themselves: by a phone number and a code sent to    *)
(* it (admin/api/v1/auth/phone.py) or by a social account (plugin/oauth2). *)
(* Both look for a row and insert it if there is none, in a transaction    *)
(* that commits when the request is answered.  Only username and email     *)
(* are unique in the database.                                             *)
(***************************************************************************)
EXTENDS Integers, FiniteSets, Sequences

CONSTANTS
    Phones,         \* phone numbers
    Sids,           \* accounts of one social platform
    MailOf,         \* the email the platform gives for an account, or NoMail
    NoMail, NoPhone,
    Member,         \* the email of the user there is at the start
    MaxCodes,       \* bound: codes sent to a phone
    Simultaneous,   \* bound: requests in progress at the same time
    MaxSignUps      \* bound: requests in all

VARIABLES
    code,           \* sms_code:{phone} in Redis: the number of the code, or 0
    users, socials, \* committed rows
    calls,          \* requests in progress
    (* history *)
    sent,           \* codes sent to each phone
    uses,           \* codes accepted: <<phone, code, request>>
    begun, together \* requests begun, pairs of requests that ran together

vars == <<code, users, socials, calls, sent, uses, begun, together>>

Social == [sid : Sids, user : 0 .. MaxSignUps, by : 1 .. MaxSignUps]

Init ==
    /\ code = [p \in Phones |-> 0] /\ sent = [p \in Phones |-> 0]
    /\ users = {[id |-> 0, phone |-> NoPhone, mail |-> Member]} /\ socials = {}
    /\ calls = {} /\ uses = {} /\ begun = 0 /\ together = {}

-----------------------------------------------------------------------------
\* send_verification_code: a new code replaces the one before.
SendCode(p) ==
    /\ sent[p] < MaxCodes
    /\ sent' = [sent EXCEPT ![p] = @ + 1]
    /\ code' = [code EXCEPT ![p] = sent'[p]]
    /\ UNCHANGED <<users, socials, calls, uses, begun, together>>

ExpireCode(p) ==
    /\ code' = [code EXCEPT ![p] = 0]
    /\ UNCHANGED <<users, socials, calls, sent, uses, begun, together>>

\* subject is what the client presents; user is the row the request is about.
Begin(op, subject, user, first) ==
    /\ begun < MaxSignUps /\ Cardinality(calls) < Simultaneous
    /\ begun' = begun + 1
    /\ together' = together \union {{begun + 1, r.n} : r \in calls}
    /\ calls' = calls \union {[n |-> begun + 1, op |-> op, subject |-> subject, user |-> user,
                              at |-> first, newUser |-> {}, newSocial |-> {}, gone |-> {}]}
    /\ UNCHANGED <<code, users, socials, sent, uses>>

BeginPhone(p) == \E c \in 1 .. sent[p] : Begin("phone", <<p, c>>, 0, "code")
BeginSocial(s) == Begin("social", s, 0, "sid")
BeginBinding(s) == \E u \in users : Begin("bind", s, u.id, "source")
BeginUnbinding == \E u \in users : Begin("unbind", 0, u.id, "bound")
BeginDeletion == \E u \in users : Begin("delete", 0, u.id, "socials")

Become(r, s) == calls' = (calls \ {r}) \union {s}
Goto(r, l) == Become(r, [r EXCEPT !.at = l])
Fail(r) == calls' = calls \ {r}
database == <<users, socials>>

\* The code is read and compared, ...
CheckCode(r) ==
    /\ r.at = "code"
    /\ IF code[r.subject[1]] = r.subject[2] THEN Goto(r, "spend") ELSE Fail(r)
    /\ UNCHANGED <<code, database, sent, uses, begun, together>>

\* ... and deleted by a command of its own, whichever it is by now.
SpendCode(r) ==
    /\ r.at = "spend"
    /\ code' = [code EXCEPT ![r.subject[1]] = 0]
    /\ uses' = uses \union {<<r.subject[1], r.subject[2], r.n>>}
    /\ Goto(r, "phone")
    /\ UNCHANGED <<database, sent, begun, together>>

\* A phone number without a user registers one; its row is flushed, and so
\* locks its unique columns until the end of the request.
FindPhone(r) ==
    /\ r.at = "phone"
    /\ IF \E u \in users : u.phone = r.subject[1] THEN Goto(r, "commit")
       ELSE Become(r, [r EXCEPT !.at = "commit",
                           !.newUser = {[id |-> r.n, phone |-> r.subject[1], mail |-> NoMail]}])
    /\ UNCHANGED <<code, database, sent, uses, begun, together>>

\* OAuth2Service.login: a known account logs its user in, or fails if the row
\* is gone; an unknown one is looked up by its email.
FindSid(r) ==
    /\ r.at = "sid"
    /\ \/ /\ \E b \in socials : b.sid = r.subject /\ \E u \in users : u.id = b.user
          /\ Goto(r, "commit")
       \/ /\ \E b \in socials : b.sid = r.subject /\ \A u \in users : u.id # b.user
          /\ Fail(r)
       \/ /\ \A b \in socials : b.sid # r.subject
          /\ Goto(r, "mail")
    /\ UNCHANGED <<code, database, sent, uses, begun, together>>

Bound(r, u) == {[sid |-> r.subject, user |-> u, by |-> r.n]}

\* The user of the email gets the account bound, also if it has another one;
\* without one a user is inserted, which waits for a request that has
\* inserted the same email and fails if that one commits.
FindMail(r) ==
    LET mail == MailOf[r.subject] IN
    /\ r.at = "mail"
    /\ \/ \E u \in users :
             /\ u.mail = mail /\ mail # NoMail
             /\ Become(r, [r EXCEPT !.at = "commit", !.newSocial = Bound(r, u.id)])
       \/ /\ mail = NoMail \/ \A u \in users : u.mail # mail
          /\ Goto(r, "insert")
    /\ UNCHANGED <<code, database, sent, uses, begun, together>>

InsertUser(r) ==
    LET mail == MailOf[r.subject] IN
    /\ r.at = "insert"
    /\ mail = NoMail \/ \A q \in calls : \A u \in q.newUser : u.mail # mail
    /\ IF mail # NoMail /\ \E u \in users : u.mail = mail THEN Fail(r)
       ELSE Become(r, [r EXCEPT !.at = "commit", !.newSocial = Bound(r, r.n),
                           !.newUser = {[id |-> r.n, phone |-> NoPhone, mail |-> mail]}])
    /\ UNCHANGED <<code, database, sent, uses, begun, together>>

\* Variant with a bug: the account may be bound to somebody else.
CheckBindingOfUser(r) ==
    /\ r.at = "source"
    /\ IF \E b \in socials : b.user = r.user THEN Fail(r)
       ELSE Become(r, [r EXCEPT !.at = "commit", !.newSocial = Bound(r, r.user)])
    /\ UNCHANGED <<code, database, sent, uses, begun, together>>

\* binding_with_oauth2: neither the user nor the account may be bound.  The
\* user itself, named by the state of the authorization, is not looked up.
CheckBinding(r) ==
    /\ \/ /\ r.at = "source"
          /\ IF \E b \in socials : b.user = r.user THEN Fail(r) ELSE Goto(r, "free")
       \/ /\ r.at = "free"
          /\ IF \E b \in socials : b.sid = r.subject THEN Fail(r)
             ELSE Become(r, [r EXCEPT !.at = "commit", !.newSocial = Bound(r, r.user)])
    /\ UNCHANGED <<code, database, sent, uses, begun, together>>

\* unbinding deletes what is committed by then.
Unbind(r) ==
    /\ \/ /\ r.at = "bound"
          /\ IF \E b \in socials : b.user = r.user THEN Goto(r, "socials") ELSE Fail(r)
       \/ /\ r.at = "socials"
          /\ Become(r, [r EXCEPT !.at = "commit", !.gone = {b \in socials : b.user = r.user}])
    /\ UNCHANGED <<code, database, sent, uses, begun, together>>

\* The handler returns and the transaction commits.
Commit(r) ==
    /\ r.at = "commit"
    /\ users' = (users \union r.newUser) \ {u \in users : r.op = "delete" /\ u.id = r.user}
    /\ socials' = (socials \union r.newSocial) \ r.gone
    /\ Fail(r)
    /\ UNCHANGED <<code, sent, uses, begun, together>>

\* An error or a client that leaves: nothing is committed, the code is gone.
Abort(r) ==
    /\ Fail(r)
    /\ UNCHANGED <<code, database, sent, uses, begun, together>>

Step(r) ==
    \/ CheckCode(r) \/ SpendCode(r) \/ FindPhone(r) \/ FindSid(r) \/ FindMail(r)
    \/ InsertUser(r) \/ CheckBinding(r) \/ Unbind(r) \/ Commit(r) \/ Abort(r)
Next ==
    \/ \E p \in Phones : SendCode(p) \/ ExpireCode(p) \/ BeginPhone(p)
    \/ \E s \in Sids : BeginSocial(s) \/ BeginBinding(s)
    \/ BeginUnbinding \/ BeginDeletion
    \/ \E r \in calls : Step(r)

-----------------------------------------------------------------------------
(* Properties.                                                             *)

Together(m, n) == {m, n} \in together

\* phone_login deletes a code when it accepts it: a code is accepted twice
\* only by requests that ran together.
CodeUsedOnce ==
    \A x, y \in uses : (x[1] = y[1] /\ x[2] = y[2] /\ x[3] # y[3]) => Together(x[3], y[3])

\* The phone number and the social account that somebody logs in with name
\* one user (phone_login, OAuth2Service.login, binding_with_oauth2), but for
\* registrations and bindings that ran together.
OneUserPerPhone ==
    \A u, v \in users : (u # v /\ u.phone = v.phone /\ u.phone # NoPhone) => Together(u.id, v.id)
OneUserPerAccount ==
    \A b, c \in socials : (b # c /\ b.sid = c.sid) => Together(b.by, c.by)

\* So whoever proves to be the owner of a phone or an account is one user.
OwnersAreUsers == CodeUsedOnce /\ OneUserPerPhone /\ OneUserPerAccount

=============================================================================

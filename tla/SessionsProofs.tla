--------------------------- MODULE SessionsProofs ---------------------------
(***************************************************************************)
(* What Sessions promises, for any number of users and requests.  A        *)
(* request is followed by its place in the plan of its operation: what is  *)
(* left of it is an end of that plan, so how many steps it has left says   *)
(* which step is next and what it has done (BaseInv).  Each of the four    *)
(* properties adds what its requests know at their places.                 *)
(***************************************************************************)
EXTENDS Sessions, FiniteSetTheorems, TLAPS

-----------------------------------------------------------------------------
(* The plans.                                                              *)

PlanOf(op) ==
    CASE op = "login" -> LoginPlan
      [] op = "swagger" -> SwaggerPlan
      [] op = "phone" -> PhonePlan
      [] op = "social" -> SocialPlan
      [] op = "refresh" -> RefreshPlan
      [] op = "logout" -> LogoutPlan
      [] op = "kick" -> KickPlan
      [] op \in {"switch", "switchOwn"} -> SwitchPlan
      [] op = "status" -> StatusPlan
      [] op = "profile" -> ProfilePlan
      [] op = "reset" -> ResetPlan
      [] op = "password" -> PasswordPlan
      [] op = "delete" -> DeletePlan

Makers == {"login", "swagger", "phone", "social", "refresh"}
Own == {"logout", "profile", "password", "switchOwn"}
Changers == {"profile", "password", "switchOwn", "switch", "status", "reset", "delete"}
Ops == Makers \union Own \union Changers \union {"kick"}
Entry == {<<"user">>, <<"load">>, <<"fill">>}

StoreAt(op) == IF op = "swagger" THEN 1 ELSE IF op = "social" THEN 4 ELSE 3

Steps == {"user", "load", "fill", "touch", "drop", "store", "dropRefresh", "storeRefresh", "check", "spend",
          "revoke", "read", "write", "dropOthers", "clear", "purge", "purgeRefresh", "purgeUsers"}

LEMMA OwnPlans == DOMAIN OwnPlan = Own /\ \A op \in Own : OwnPlan[op] = PlanOf(op)
  BY DEF OwnPlan, Own, PlanOf

LEMMA AdminPlans == \A op \in DOMAIN AdminPlan : op \in Ops \ (Makers \union Own) /\ AdminPlan[op] = PlanOf(op)
  BY DEF AdminPlan, Own, PlanOf, Ops, Makers, Changers

LEMMA PlansAreSequences == \A op \in Ops : PlanOf(op) \in Seq(Steps) /\ Len(PlanOf(op)) \in 1 .. 7
<1>1. LoginPlan \in Seq(Steps) /\ Len(LoginPlan) \in 1 .. 7
  BY DEF LoginPlan, Steps
<1>2. SwaggerPlan \in Seq(Steps) /\ Len(SwaggerPlan) \in 1 .. 7
  BY DEF SwaggerPlan, Steps
<1>3. PhonePlan \in Seq(Steps) /\ Len(PhonePlan) \in 1 .. 7
  BY DEF PhonePlan, Steps
<1>4. SocialPlan \in Seq(Steps) /\ Len(SocialPlan) \in 1 .. 7
  BY DEF SocialPlan, Steps
<1>5. RefreshPlan \in Seq(Steps) /\ Len(RefreshPlan) \in 1 .. 7
  BY DEF RefreshPlan, Steps
<1>6. LogoutPlan \in Seq(Steps) /\ Len(LogoutPlan) \in 1 .. 7
  BY DEF LogoutPlan, Steps
<1>7. KickPlan \in Seq(Steps) /\ Len(KickPlan) \in 1 .. 7
  BY DEF KickPlan, Steps
<1>8. SwitchPlan \in Seq(Steps) /\ Len(SwitchPlan) \in 1 .. 7
  BY DEF SwitchPlan, Steps
<1>9. StatusPlan \in Seq(Steps) /\ Len(StatusPlan) \in 1 .. 7
  BY DEF StatusPlan, Steps
<1>10. ProfilePlan \in Seq(Steps) /\ Len(ProfilePlan) \in 1 .. 7
  BY DEF ProfilePlan, Steps
<1>11. ResetPlan \in Seq(Steps) /\ Len(ResetPlan) \in 1 .. 7
  BY DEF ResetPlan, Steps
<1>12. PasswordPlan \in Seq(Steps) /\ Len(PasswordPlan) \in 1 .. 7
  BY DEF PasswordPlan, Steps
<1>13. DeletePlan \in Seq(Steps) /\ Len(DeletePlan) \in 1 .. 7
  BY DEF DeletePlan, Steps
<1>14. \A op \in Ops : \/ PlanOf(op) \in {LoginPlan, SwaggerPlan, PhonePlan, SocialPlan, RefreshPlan, LogoutPlan, KickPlan}
                        \/ PlanOf(op) \in {SwitchPlan, StatusPlan, ProfilePlan, ResetPlan, PasswordPlan, DeletePlan}
  BY DEF PlanOf, Ops, Makers, Own, Changers
<1> QED
  BY <1>1, <1>2, <1>3, <1>4, <1>5, <1>6, <1>7, <1>8, <1>9, <1>10, <1>11, <1>12, <1>13, <1>14

\* Which request takes a step, and how many it has left.
Takes(op, step, m) ==
    /\ step \notin {"user", "load", "fill"}
    /\ step = "store" => op \in Makers /\ m = StoreAt(op)
    /\ step = "drop" => op \in Makers /\ m = StoreAt(op) + 1
    /\ step = "touch" => op \in Makers \ {"refresh"} /\ (m > StoreAt(op) + 1 \/ (op = "social" /\ m = 1))
    /\ step \in {"dropRefresh", "storeRefresh"} => op \in Makers /\ m < StoreAt(op)
    /\ step = "check" => op = "refresh" /\ m = 7
    /\ step = "spend" => (op = "refresh" /\ m = 6) \/ op = "logout"
    /\ step = "revoke" => (op = "refresh" /\ m = 5) \/ op \in {"logout", "kick"}
    /\ step \in {"read", "write"} => op \in Changers /\ m > 1 /\ (op \in Credentials => m > 3)
    /\ step = "dropOthers" => op \in {"switch", "switchOwn"} /\ m > 1
    /\ step = "clear" => op \in Changers \ Credentials /\ m = 1
    /\ step = "purge" => op \in Credentials /\ m = 3
    /\ step = "purgeRefresh" => op \in Credentials /\ m = 2
    /\ step = "purgeUsers" => op \in Credentials /\ m = 1

LEMMA PlanTable ==
    ASSUME NEW op \in Ops, NEW m \in 1 .. Len(PlanOf(op))
    PROVE  Takes(op, PlanOf(op)[1 + Len(PlanOf(op)) - m], m)
<1> USE DEF Takes, PlanOf, Makers, Changers, Credentials, StoreAt
<1>1. CASE op = "login"
  BY <1>1 DEF LoginPlan
<1>2. CASE op = "swagger"
  BY <1>2 DEF SwaggerPlan
<1>3. CASE op = "phone"
  BY <1>3 DEF PhonePlan
<1>4. CASE op = "social"
  BY <1>4 DEF SocialPlan
<1>5. CASE op = "refresh"
  BY <1>5 DEF RefreshPlan
<1>6. CASE op = "logout"
  BY <1>6 DEF LogoutPlan
<1>7. CASE op = "kick"
  BY <1>7 DEF KickPlan
<1>8. CASE op \in {"switch", "switchOwn"}
  BY <1>8 DEF SwitchPlan
<1>9. CASE op = "status"
  BY <1>9 DEF StatusPlan
<1>10. CASE op = "profile"
  BY <1>10 DEF ProfilePlan
<1>11. CASE op = "reset"
  BY <1>11 DEF ResetPlan
<1>12. CASE op = "password"
  BY <1>12 DEF PasswordPlan
<1>13. CASE op = "delete"
  BY <1>13 DEF DeletePlan
<1> QED
  BY <1>1, <1>2, <1>3, <1>4, <1>5, <1>6, <1>7, <1>8, <1>9, <1>10, <1>11, <1>12, <1>13 DEF Ops, Own

IsRequest(r) ==
    r \in [n : {r.n}, op : {r.op}, u : {r.u}, key : {r.key}, todo : {r.todo},
           multi : {r.multi}, since : {r.since}, line : {r.line},
           snap : {r.snap}, change : {r.change}, lock : {r.lock}]
Left(r) == Len(r.todo)
\* The request as it goes on.
Same(r, s) == /\ IsRequest(s) /\ s.n = r.n /\ s.op = r.op /\ s.u = r.u /\ s.key = r.key
              /\ s.since = r.since /\ s.line = r.line

Follows(op, todo) ==
    /\ Len(todo) <= Len(PlanOf(op))
    /\ \A i \in 1 .. Len(todo) : todo[i] = PlanOf(op)[i + Len(PlanOf(op)) - Len(todo)]
Entering(r) == r.op \in Own /\ r.todo \in Entry /\ ~r.lock
\* What is left of a request is an end of its handler's steps, after those
\* that find out who the caller is.
OnItsWay(r) == r.todo \in Seq(Steps) /\ (Entering(r) \/ Follows(r.op, r.todo))

RequestOK(r) ==
    /\ IsRequest(r) /\ OnItsWay(r)
    /\ r.n \in 1 .. started /\ r.op \in Ops /\ r.u \in Accounts /\ r.since \in Nat
    /\ r.lock => r.op \in Makers \union Changers
    /\ r.op \in Makers => r.u \in Users /\ r.n \in r.line
    /\ r.op \in Makers \ {"refresh"} => r.key = NoKey
    /\ r.op = "refresh" => r.key \in cookies /\ r.key[1] = r.u
    /\ r.op \in Own => r.key \in DOMAIN made /\ r.key[1] = r.u

\* The session of a request is made when it is stored.
MadeOK(r) ==
    /\ NewKey(r) \in DOMAIN made <=> r.op \in Makers /\ Left(r) < StoreAt(r.op)
    /\ NewKey(r) \in DOMAIN made =>
          /\ made[NewKey(r)].since = r.since /\ made[NewKey(r)].line = r.line
          /\ made[NewKey(r)].from = r.key
          /\ r.op \in {"login", "phone", "refresh"} => made[NewKey(r)].cookie

KeyOK(k) ==
    /\ k \in Users \X Nat /\ k[2] <= started /\ made[k].since \in Nat
    /\ k[2] \in made[k].line \/ k[2] = 0

BaseInv ==
    /\ started \in Nat /\ IsFiniteSet(reqs) /\ Cardinality(reqs) <= Parallel
    /\ \A r \in reqs : RequestOK(r) /\ MadeOK(r)
    /\ \A q, r \in reqs : q # r => q.n # r.n /\ {q.n, r.n} \in overlap
    /\ \A k \in DOMAIN made : KeyOK(k)
    /\ access \subseteq DOMAIN made /\ refresh \subseteq DOMAIN made /\ cookies \subseteq DOMAIN made
    /\ \A k \in cookies : made[k].cookie /\ \A r \in reqs : k[2] # r.n
    /\ commits \in [Accounts -> Seq([by : Nat, ends : BOOLEAN])]

-----------------------------------------------------------------------------
(* How a request goes on.                                                  *)

Goes(r, s) == reqs' = (reqs \ {r}) \union {s} /\ Same(r, s) /\ OnItsWay(s)

LEMMA WholePlans == \A op \in Ops : PlanOf(op) \in Seq(Steps) /\ Follows(op, PlanOf(op))
  BY PlansAreSequences DEF Follows

LEMMA TailOfPlan ==
    ASSUME NEW r, OnItsWay(r), r.op \in Ops, NEW step, At(r, step), step \notin {"user", "load", "fill"}
    PROVE  /\ Takes(r.op, step, Left(r)) /\ Left(r) \in Nat /\ Left(r) > 0
           /\ Tail(r.todo) \in Seq(Steps) /\ Len(Tail(r.todo)) = Left(r) - 1
           /\ Follows(r.op, Tail(r.todo))
<1>1. r.todo \in Seq(Steps) /\ r.todo # <<>> /\ Head(r.todo) = step
  BY DEF At, OnItsWay
<1>2. Follows(r.op, r.todo)
<2>1. ~ (r.todo \in Entry)
  BY <1>1 DEF Entry
<2> QED
  BY <2>1 DEF OnItsWay, Entering
<1> DEFINE P == PlanOf(r.op)
           L == Len(r.todo)
<1>3. P \in Seq(Steps) /\ Len(P) \in 1 .. 7
  BY PlansAreSequences
<1>4. L \in Nat /\ L > 0 /\ Tail(r.todo) \in Seq(Steps) /\ Len(Tail(r.todo)) = L - 1
      /\ Head(r.todo) = r.todo[1] /\ \A i \in 1 .. L - 1 : Tail(r.todo)[i] = r.todo[i + 1]
  BY <1>1
<1> HIDE DEF P
<1>5. L <= Len(P) /\ \A i \in 1 .. L : r.todo[i] = P[i + Len(P) - L]
  BY <1>2 DEF Follows, P
<1>6. Takes(r.op, P[1 + Len(P) - L], L)
<2>1. L \in 1 .. Len(P)
  BY <1>3, <1>4, <1>5
<2> QED
  BY <2>1, PlanTable DEF P
<1>7. step = P[1 + Len(P) - L]
<2>1. 1 \in 1 .. L
  BY <1>4
<2> QED
  BY <1>1, <1>4, <1>5, <2>1
<1>8. \A i \in 1 .. L - 1 : Tail(r.todo)[i] = P[i + Len(P) - (L - 1)]
<2> SUFFICES ASSUME NEW i \in 1 .. L - 1 PROVE Tail(r.todo)[i] = P[i + Len(P) - (L - 1)]
  OBVIOUS
<2>1. i + 1 \in 1 .. L /\ (i + 1) + Len(P) - L = i + Len(P) - (L - 1)
  BY <1>3, <1>4
<2>2. Tail(r.todo)[i] = r.todo[i + 1] /\ r.todo[i + 1] = P[(i + 1) + Len(P) - L]
  BY <1>4, <1>5, <2>1
<2> QED
  BY <2>1, <2>2
<1>9. Len(Tail(r.todo)) <= Len(P) /\ \A i \in 1 .. Len(Tail(r.todo)) : Tail(r.todo)[i] = P[i + Len(P) - Len(Tail(r.todo))]
<2> DEFINE K == Len(Tail(r.todo))
           T == Tail(r.todo)
<2>1. K = L - 1
  BY <1>4
<2>3. K <= Len(P)
  BY <1>3, <1>4, <1>5, <2>1
<2>4. \A i \in 1 .. L - 1 : T[i] = P[i + Len(P) - (L - 1)]
  BY <1>8, Zenon
<2> HIDE DEF K, T
<2>2. K <= Len(P) /\ \A i \in 1 .. K : T[i] = P[i + Len(P) - K]
  BY <2>1, <2>3, <2>4, Zenon
<2> QED
  BY <2>2, Zenon DEF K, T
<1> QED
  BY <1>4, <1>6, <1>7, <1>9 DEF Left, Follows, P

\* A step of a handler, with what the handler remembers.
LEMMA HandlerGoes ==
    ASSUME NEW r, OnItsWay(r), IsRequest(r), r.op \in Ops, NEW step, At(r, step), step \notin {"user", "load", "fill"},
           NEW s, reqs' = (reqs \ {r}) \union {s}, Same(r, s), s.todo = Tail(r.todo)
    PROVE  Goes(r, s) /\ Left(s) = Left(r) - 1 /\ Follows(s.op, s.todo)
  BY TailOfPlan DEF Goes, OnItsWay, Same, Left

LEMMA ContinueGoes ==
    ASSUME NEW r, OnItsWay(r), IsRequest(r), r.op \in Ops, NEW step, At(r, step), step \notin {"user", "load", "fill"},
           Continue(r)
    PROVE  \E s : Goes(r, s) /\ Left(s) = Left(r) - 1 /\ Follows(s.op, s.todo) /\ s.multi = r.multi /\ s.lock = r.lock
<1> DEFINE s == [r EXCEPT !.todo = Tail(r.todo)]
<1>1. Same(r, s) /\ s.todo = Tail(r.todo) /\ s.multi = r.multi /\ s.lock = r.lock
  BY DEF IsRequest, Same
<1>2. reqs' = (reqs \ {r}) \union {s}
  BY DEF Continue, Become, After
<1> HIDE DEF s
<1> QED
  BY <1>1, <1>2, HandlerGoes

\* The first steps of a request with an access token.
LEMMA EntryGoes ==
    ASSUME NEW r, OnItsWay(r), IsRequest(r), r.op \in Ops, NEW step \in {"user", "load", "fill"}, At(r, step)
    PROVE  Entering(r) /\ r.todo = <<step>> /\ Left(r) = 1
<1>1. r.todo \in Seq(Steps) /\ r.todo # <<>> /\ Head(r.todo) = step /\ Len(r.todo) \in Nat /\ Len(r.todo) > 0
      /\ r.todo[1] = step
  BY DEF At, OnItsWay
<1>2. ~ Follows(r.op, r.todo)
<2> SUFFICES ASSUME Follows(r.op, r.todo) PROVE FALSE
  OBVIOUS
<2> DEFINE P == PlanOf(r.op)
           L == Len(r.todo)
<2>1. L <= Len(P) /\ \A i \in 1 .. L : r.todo[i] = P[i + Len(P) - L]
  BY DEF Follows
<2>2. Len(P) \in Nat /\ L \in 1 .. Len(P) /\ 1 \in 1 .. L
  BY <1>1, <2>1, PlansAreSequences
<2>3. Takes(r.op, P[1 + Len(P) - L], L)
  BY <2>2, PlanTable
<2> HIDE DEF P, L
<2>4. step = P[1 + Len(P) - L]
  BY <1>1, <2>1, <2>2
<2> QED
  BY <2>3, <2>4 DEF Takes
<1>3. Entering(r)
  BY <1>2 DEF OnItsWay
<1> QED
  BY <1>1, <1>3 DEF Entering, Entry, Left

LEMMA EnterGoes ==
    ASSUME NEW r, Entering(r), IsRequest(r), NEW snap, Enter(r, snap)
    PROVE  \E s : Goes(r, s) /\ Follows(s.op, s.todo) /\ s.todo \in {LogoutPlan, ProfilePlan, PasswordPlan, SwitchPlan} /\ ~s.lock
<1> DEFINE s == [r EXCEPT !.todo = OwnPlan[r.op], !.snap = NotCached, !.multi = r.op = "switchOwn" /\ snap.multi]
<1>1. Same(r, s) /\ s.todo = OwnPlan[r.op] /\ s.lock = r.lock
  BY DEF IsRequest, Same
<1>2. reqs' = (reqs \ {r}) \union {s}
  BY DEF Enter, Become
<1> HIDE DEF s
<1>3. r.op \in Own /\ ~r.lock /\ r.op \in Ops
  BY DEF Entering, Ops
<1>4. s.todo = PlanOf(s.op) /\ s.op \in Ops /\ OwnPlan[r.op] \in {LogoutPlan, ProfilePlan, PasswordPlan, SwitchPlan}
<2>1. OwnPlan[r.op] = PlanOf(r.op) /\ s.op = r.op
  BY <1>1, <1>3, OwnPlans DEF Same
<2>2. OwnPlan[r.op] \in {LogoutPlan, ProfilePlan, PasswordPlan, SwitchPlan}
  BY <1>3 DEF Own, OwnPlan
<2> QED
  BY <1>1, <1>3, <2>1, <2>2
<1>5. s.todo \in Seq(Steps) /\ Follows(s.op, s.todo)
  BY <1>4, WholePlans
<1> QED
  BY <1>1, <1>2, <1>3, <1>4, <1>5 DEF Goes, OnItsWay

-----------------------------------------------------------------------------
(* The steps keep what is true of the requests.                            *)

\* Another request sees more cookies and more sessions, none of them its own.
LEMMA OthersKeep ==
    ASSUME BaseInv, NEW q \in reqs, started <= started', started' \in Nat, cookies \subseteq cookies', DOMAIN made \subseteq DOMAIN made'
    PROVE  RequestOK(q)'
<1>1. RequestOK(q) /\ started \in Nat
  BY DEF BaseInv
<1>2. q.n \in 1 .. started'
  BY <1>1 DEF RequestOK
<1> QED
  BY <1>1, <1>2 DEF RequestOK, Entering, Left

\* One request in the place of another.
LEMMA OneForAnother ==
    ASSUME NEW S, IsFiniteSet(S), NEW r \in S, NEW s
    PROVE  /\ IsFiniteSet((S \ {r}) \union {s}) /\ Cardinality((S \ {r}) \union {s}) <= Cardinality(S)
           /\ Cardinality(S) \in Nat /\ Cardinality((S \ {r}) \union {s}) \in Nat
<1>1. IsFiniteSet(S \ {r}) /\ Cardinality(S \ {r}) = Cardinality(S) - 1 /\ Cardinality(S) \in Nat
  BY FS_RemoveElement, FS_CardinalityType
<1> DEFINE T == S \ {r}
<1>2. IsFiniteSet(T) /\ Cardinality(T) = Cardinality(S) - 1
  BY <1>1
<1> HIDE DEF T
<1>3. IsFiniteSet(T \union {s}) /\ (Cardinality(T \union {s}) = Cardinality(T) \/ Cardinality(T \union {s}) = Cardinality(T) + 1)
  BY <1>2, FS_AddElement
<1>4. IsFiniteSet(T \union {s}) /\ Cardinality(T \union {s}) <= Cardinality(S) /\ Cardinality(T \union {s}) \in Nat
  BY <1>1, <1>2, <1>3, FS_CardinalityType
<1> QED
  BY <1>1, <1>4 DEF T

\* A request goes on without storing a session.
LEMMA BaseMoves ==
    ASSUME BaseInv, NEW r \in reqs, NEW s, Goes(r, s), s.lock => s.op \in Makers \union Changers,
           r.op \in Makers => (Left(s) < StoreAt(r.op) <=> Left(r) < StoreAt(r.op)),
           made' = made, cookies' = cookies, commits' = commits, started' = started, overlap' = overlap,
           access' \subseteq DOMAIN made, refresh' \subseteq DOMAIN made
    PROVE  BaseInv'
<1>1. /\ started' \in Nat
      /\ \A k \in DOMAIN made' : KeyOK(k)'
      /\ access' \subseteq DOMAIN made' /\ refresh' \subseteq DOMAIN made' /\ cookies' \subseteq DOMAIN made'
      /\ commits' \in [Accounts -> Seq([by : Nat, ends : BOOLEAN])]
  BY DEF BaseInv, KeyOK
<1>2. /\ reqs' = (reqs \ {r}) \union {s} /\ s.n = r.n /\ s.op = r.op /\ s.u = r.u /\ s.key = r.key /\ s.since = r.since
      /\ s.line = r.line /\ IsRequest(s) /\ OnItsWay(s)
  BY DEF Goes, Same
<1>3. IsFiniteSet(reqs') /\ Cardinality(reqs') <= Parallel
<2>1. IsFiniteSet(reqs) /\ Cardinality(reqs) <= Parallel /\ r \in reqs /\ Parallel \in Nat
  BY SessionsAssumption DEF BaseInv
<2>2. IsFiniteSet((reqs \ {r}) \union {s}) /\ Cardinality((reqs \ {r}) \union {s}) <= Cardinality(reqs)
      /\ Cardinality(reqs) \in Nat /\ Cardinality((reqs \ {r}) \union {s}) \in Nat
  BY <2>1, OneForAnother
<2> QED
  BY <1>2, <2>1, <2>2
<1>4. ASSUME NEW q \in reqs \ {r} PROVE RequestOK(q)' /\ MadeOK(q)'
<2>1. RequestOK(q)'
  BY OthersKeep DEF BaseInv
<2>2. MadeOK(q)'
  BY DEF BaseInv, MadeOK, NewKey
<2> QED
  BY <2>1, <2>2
<1>5. RequestOK(s)'
<2>1. RequestOK(r)
  BY DEF BaseInv
<2> QED
  BY <1>2, <2>1 DEF RequestOK
<1>6. MadeOK(s)'
<2>1. MadeOK(r)
  BY DEF BaseInv
<2> QED
  BY <1>2, <2>1 DEF MadeOK, NewKey
<1>7. \A q, p \in reqs' : q # p => q.n # p.n /\ {q.n, p.n} \in overlap'
<2>1. \A q, p \in reqs : q # p => q.n # p.n /\ {q.n, p.n} \in overlap
  BY DEF BaseInv
<2>2. \A q \in reqs' : \E p \in reqs : p.n = q.n /\ (q = s => p = r) /\ (q # s => p = q /\ p # r)
  BY <1>2
<2> QED
  BY <2>1, <2>2
<1>8. \A k \in cookies' : made'[k].cookie /\ \A q \in reqs' : k[2] # q.n
  BY <1>2 DEF BaseInv
<1>9. \A q \in reqs' : RequestOK(q)' /\ MadeOK(q)'
  BY <1>2, <1>4, <1>5, <1>6
<1> QED
  BY <1>1, <1>3, <1>7, <1>8, <1>9 DEF BaseInv

\* A request ends: a session it leaves a cookie of is its own.
LEMMA BaseEnds ==
    ASSUME BaseInv, NEW r \in reqs, reqs' = reqs \ {r},
           cookies \subseteq cookies', \A k \in cookies' \ cookies : k = NewKey(r) /\ k \in DOMAIN made /\ made[k].cookie,
           commits' \in [Accounts -> Seq([by : Nat, ends : BOOLEAN])],
           made' = made, started' = started, overlap' = overlap,
           access' \subseteq DOMAIN made, refresh' \subseteq DOMAIN made
    PROVE  BaseInv'
<1>1. /\ started' \in Nat
      /\ \A k \in DOMAIN made' : KeyOK(k)'
      /\ access' \subseteq DOMAIN made' /\ refresh' \subseteq DOMAIN made' /\ cookies' \subseteq DOMAIN made'
  BY DEF BaseInv, KeyOK
<1>2. IsFiniteSet(reqs') /\ Cardinality(reqs') <= Parallel
<2>1. IsFiniteSet(reqs) /\ Cardinality(reqs) <= Parallel /\ r \in reqs /\ Parallel \in Nat
  BY SessionsAssumption DEF BaseInv
<2>2. IsFiniteSet(reqs \ {r}) /\ Cardinality(reqs \ {r}) = Cardinality(reqs) - 1 /\ Cardinality(reqs) \in Nat
  BY <2>1, FS_RemoveElement, FS_CardinalityType
<2> QED
  BY <2>1, <2>2
<1>3. ASSUME NEW q \in reqs' PROVE RequestOK(q)' /\ MadeOK(q)'
<2>1. RequestOK(q)'
  BY OthersKeep DEF BaseInv
<2>2. MadeOK(q)'
  BY DEF BaseInv, MadeOK, NewKey
<2> QED
  BY <2>1, <2>2
<1>4. \A q, p \in reqs' : q # p => q.n # p.n /\ {q.n, p.n} \in overlap'
  BY DEF BaseInv
<1>5. ASSUME NEW k \in cookies' PROVE made'[k].cookie /\ \A q \in reqs' : k[2] # q.n
<2>1. CASE k \in cookies
  BY <2>1 DEF BaseInv
<2>2. CASE k \notin cookies
<3>1. k[2] = r.n /\ made[k].cookie
  BY <2>2 DEF NewKey
<3> QED
  BY <3>1 DEF BaseInv
<2> QED
  BY <2>1, <2>2
<1> QED
  BY <1>1, <1>2, <1>3, <1>4, <1>5 DEF BaseInv

\* What a request may begin with.
BeginsWith(op, u, key, steps, since, line) ==
    /\ op \in Ops /\ u \in Accounts /\ since \in Nat
    /\ steps = IF op \in Own THEN <<"user">> ELSE PlanOf(op)
    /\ op \in Makers => u \in Users /\ started + 1 \in line
    /\ op \in Makers \ {"refresh"} => key = NoKey
    /\ op = "refresh" => key \in cookies /\ key[1] = u
    /\ op \in Own => key \in DOMAIN made /\ key[1] = u

\* The request that begins.
Begun(s, op, u, key, steps, multi, since, line) ==
    /\ reqs' = reqs \union {s} /\ IsRequest(s)
    /\ s.n = started + 1 /\ s.op = op /\ s.u = u /\ s.key = key /\ s.todo = steps /\ s.multi = multi /\ s.since = since
    /\ s.line = line /\ s.snap = NotCached /\ s.lock = FALSE

LEMMA BeginMakes ==
    ASSUME NEW op, NEW u, NEW key, NEW steps, NEW multi, NEW since, NEW line,
           Begin(op, u, key, steps, multi, since, line)
    PROVE  \E s : Begun(s, op, u, key, steps, multi, since, line)
<1> DEFINE s == [n |-> started + 1, op |-> op, u |-> u, key |-> key, todo |-> steps,
                 multi |-> multi, since |-> since, line |-> line,
                 snap |-> NotCached, change |-> <<>>, lock |-> FALSE]
<1>1. reqs' = reqs \union {s}
  BY Zenon DEF Begin
<1>2. IsRequest(s) /\ s.n = started + 1 /\ s.op = op /\ s.u = u /\ s.key = key /\ s.todo = steps /\ s.multi = multi
      /\ s.since = since /\ s.line = line /\ s.snap = NotCached /\ s.lock = FALSE
  BY DEF IsRequest
<1> HIDE DEF s
<1> QED
  BY <1>1, <1>2 DEF Begun

LEMMA PlansAreLong == \A op \in Makers : Len(PlanOf(op)) >= StoreAt(op)
  BY DEF PlanOf, Makers, StoreAt, LoginPlan, SwaggerPlan, PhonePlan, SocialPlan, RefreshPlan

LEMMA BaseBegins ==
    ASSUME BaseInv, NEW op, NEW u, NEW key, NEW steps, NEW multi, NEW since, NEW line,
           Begin(op, u, key, steps, multi, since, line), BeginsWith(op, u, key, steps, since, line)
    PROVE  BaseInv'
<1>1. PICK s : Begun(s, op, u, key, steps, multi, since, line)
  BY BeginMakes
<1>2. /\ started' = started + 1 /\ overlap' = overlap \union {{started + 1, r.n} : r \in reqs}
      /\ access' = access /\ refresh' = refresh /\ cookies' = cookies /\ commits' = commits /\ made' = made
      /\ Cardinality(reqs) < Parallel
  BY DEF Begin, clients
<1>3. started \in Nat /\ \A k \in DOMAIN made : k[2] <= started /\ k \in Users \X Nat
  BY DEF BaseInv, KeyOK
<1>4. started' \in Nat /\ started <= started' /\ \A k \in DOMAIN made' : KeyOK(k)'
  BY <1>2 DEF BaseInv, KeyOK
<1>5. IsFiniteSet(reqs') /\ Cardinality(reqs') <= Parallel
<2>1. IsFiniteSet(reqs) /\ Cardinality(reqs) \in Nat /\ Parallel \in Nat
  BY SessionsAssumption, FS_CardinalityType DEF BaseInv
<2>2. IsFiniteSet(reqs \union {s}) /\ Cardinality(reqs \union {s}) \in Nat /\ Cardinality(reqs \union {s}) <= Cardinality(reqs) + 1
  BY <2>1, FS_AddElement, FS_CardinalityType
<2>3. reqs' = reqs \union {s}
  BY <1>1 DEF Begun
<2> QED
  BY <1>2, <2>1, <2>2, <2>3
<1>6. ASSUME NEW q \in reqs PROVE RequestOK(q)' /\ MadeOK(q)' /\ q.n # s.n
<2>1. RequestOK(q)'
  BY <1>2, <1>4, OthersKeep
<2>2. MadeOK(q)'
  BY <1>2 DEF BaseInv, MadeOK, NewKey
<2>3. q.n <= started /\ q.n \in Nat
  BY <1>3 DEF BaseInv, RequestOK
<2> QED
  BY <1>1, <1>3, <2>1, <2>2, <2>3 DEF Begun
<1>7. OnItsWay(s)
<2>1. CASE op \in Own
<3>1. <<"user">> \in Seq(Steps) /\ <<"user">> \in Entry
  BY DEF Steps, Entry
<3> QED
  BY <1>1, <2>1, <3>1 DEF Begun, BeginsWith, OnItsWay, Entering
<2>2. CASE op \notin Own
  BY <1>1, <2>2, WholePlans DEF Begun, BeginsWith, OnItsWay
<2> QED
  BY <2>1, <2>2
<1>8. RequestOK(s)'
  BY <1>1, <1>2, <1>3, <1>4, <1>7 DEF Begun, BeginsWith, RequestOK
<1>9. MadeOK(s)'
<2>1. NewKey(s) \notin DOMAIN made
<3>1. NewKey(s)[2] = started + 1
  BY <1>1 DEF Begun, NewKey
<3> QED
  BY <1>3, <3>1
<2>2. op \in Makers => ~(Left(s) < StoreAt(op))
<3>1. op \in Makers => s.todo = PlanOf(op)
  BY <1>1 DEF Begun, BeginsWith, Own, Makers
<3>2. op \in Makers => Len(PlanOf(op)) >= StoreAt(op) /\ Len(PlanOf(op)) \in Nat /\ StoreAt(op) \in Nat
  BY PlansAreLong, PlansAreSequences DEF Ops, StoreAt
<3> QED
  BY <3>1, <3>2 DEF Left
<2> QED
  BY <1>1, <1>2, <2>1, <2>2 DEF MadeOK, Begun, NewKey
<1>10. \A q, p \in reqs' : q # p => q.n # p.n /\ {q.n, p.n} \in overlap'
<2>1. \A q, p \in reqs : q # p => q.n # p.n /\ {q.n, p.n} \in overlap'
  BY <1>2 DEF BaseInv
<2>2. \A q \in reqs : {s.n, q.n} \in overlap' /\ {q.n, s.n} \in overlap'
<3> SUFFICES ASSUME NEW q \in reqs PROVE {s.n, q.n} \in overlap' /\ {q.n, s.n} \in overlap'
  OBVIOUS
<3>1. {started + 1, q.n} \in overlap'
  BY <1>2
<3>2. s.n = started + 1 /\ {q.n, s.n} = {s.n, q.n}
  BY <1>1 DEF Begun
<3> QED
  BY <3>1, <3>2, Zenon
<2>3. \A q \in reqs' : q \in reqs \/ q = s
  BY <1>1 DEF Begun
<2> QED
  BY <1>6, <2>1, <2>2, <2>3
<1>11. \A k \in cookies' : made'[k].cookie /\ \A q \in reqs' : k[2] # q.n
<2> SUFFICES ASSUME NEW k \in cookies PROVE made[k].cookie /\ \A q \in reqs' : k[2] # q.n
  BY <1>2
<2>1. made[k].cookie /\ (\A q \in reqs : k[2] # q.n) /\ k \in DOMAIN made
  BY DEF BaseInv
<2>2. k[2] # s.n
<3>1. k[2] <= started /\ k[2] \in Nat /\ s.n = started + 1
  BY <1>1, <1>3, <2>1 DEF Begun
<3> QED
  BY <1>3, <3>1
<2> QED
  BY <1>1, <2>1, <2>2 DEF Begun
<1>12. \A q \in reqs' : RequestOK(q)' /\ MadeOK(q)'
  BY <1>1, <1>6, <1>8, <1>9 DEF Begun
<1> QED
  BY <1>2, <1>4, <1>5, <1>10, <1>11, <1>12 DEF BaseInv

\* What is kept of a session that is made.
Stored(r) == [multi |-> r.multi, since |-> r.since, line |-> r.line, from |-> r.key,
              cookie |-> r.op \in {"login", "phone", "refresh"}]

LEMMA StoreGoes ==
    ASSUME BaseInv, NEW r \in reqs, StoreToken(r)
    PROVE  /\ r.op \in Makers /\ Left(r) = StoreAt(r.op) /\ NewKey(r) \notin DOMAIN made
           /\ DOMAIN made' = DOMAIN made \union {NewKey(r)} /\ made'[NewKey(r)] = Stored(r)
           /\ \A j \in DOMAIN made : made'[j] = made[j]
           /\ \E s : Goes(r, s) /\ Left(s) = Left(r) - 1 /\ Follows(s.op, s.todo) /\ s.multi = r.multi /\ s.lock = r.lock
<1>1. At(r, "store") /\ Continue(r) /\ made' = [k \in DOMAIN made \union {NewKey(r)} |-> IF k # NewKey(r) THEN made[k] ELSE Stored(r)]
  BY Zenon DEF StoreToken, Stored
<1>2. OnItsWay(r) /\ IsRequest(r) /\ r.op \in Ops /\ MadeOK(r)
  BY DEF BaseInv, RequestOK
<1>3. r.op \in Makers /\ Left(r) = StoreAt(r.op) /\ Left(r) \in Nat
  BY <1>1, <1>2, TailOfPlan DEF Takes
<1>4. NewKey(r) \notin DOMAIN made
  BY <1>2, <1>3 DEF MadeOK
<1>5. \E s : Goes(r, s) /\ Left(s) = Left(r) - 1 /\ Follows(s.op, s.todo) /\ s.multi = r.multi /\ s.lock = r.lock
  BY <1>1, <1>2, ContinueGoes
<1>6. /\ DOMAIN made' = DOMAIN made \union {NewKey(r)} /\ made'[NewKey(r)] = Stored(r)
      /\ \A j \in DOMAIN made : made'[j] = made[j]
  BY <1>1, <1>4
<1> QED
  BY <1>1, <1>3, <1>4, <1>5, <1>6

LEMMA BaseStores ==
    ASSUME BaseInv, NEW r \in reqs, StoreToken(r)
    PROVE  BaseInv'
<1>1. /\ r.op \in Makers /\ Left(r) = StoreAt(r.op) /\ NewKey(r) \notin DOMAIN made
      /\ DOMAIN made' = DOMAIN made \union {NewKey(r)} /\ made'[NewKey(r)] = Stored(r)
      /\ \A j \in DOMAIN made : made'[j] = made[j]
  BY StoreGoes
<1>2. PICK s : Goes(r, s) /\ Left(s) = Left(r) - 1 /\ s.lock = r.lock
  BY StoreGoes
<1>3. /\ access' = access \union {NewKey(r)} /\ refresh' = refresh /\ cookies' = cookies /\ commits' = commits
      /\ started' = started /\ overlap' = overlap
  BY DEF StoreToken, clients
<1>4. /\ reqs' = (reqs \ {r}) \union {s} /\ s.n = r.n /\ s.op = r.op /\ s.u = r.u /\ s.key = r.key /\ s.since = r.since
      /\ s.line = r.line /\ IsRequest(s) /\ OnItsWay(s)
  BY <1>2 DEF Goes, Same
<1>5. RequestOK(r) /\ r.u \in Users /\ r.n \in r.line /\ r.n \in 1 .. started /\ r.since \in Nat /\ started \in Nat
  BY <1>1 DEF BaseInv, RequestOK
<1>6. \A k \in DOMAIN made' : KeyOK(k)'
<2>1. ASSUME NEW k \in DOMAIN made PROVE KeyOK(k)'
  BY <1>1, <1>3 DEF BaseInv, KeyOK
<2>2. KeyOK(NewKey(r))'
<3>1. NewKey(r) \in Users \X Nat /\ NewKey(r)[2] = r.n
  BY <1>5 DEF NewKey
<3>2. made'[NewKey(r)].since = r.since /\ made'[NewKey(r)].line = r.line
  BY <1>1 DEF Stored
<3> QED
  BY <1>3, <1>5, <3>1, <3>2 DEF KeyOK, NewKey
<2> QED
  BY <1>1, <2>1, <2>2
<1>7. IsFiniteSet(reqs') /\ Cardinality(reqs') <= Parallel
<2>1. IsFiniteSet(reqs) /\ Cardinality(reqs) <= Parallel /\ r \in reqs /\ Parallel \in Nat
  BY SessionsAssumption DEF BaseInv
<2>2. IsFiniteSet((reqs \ {r}) \union {s}) /\ Cardinality((reqs \ {r}) \union {s}) <= Cardinality(reqs)
      /\ Cardinality(reqs) \in Nat /\ Cardinality((reqs \ {r}) \union {s}) \in Nat
  BY <2>1, OneForAnother
<2> QED
  BY <1>4, <2>1, <2>2
<1>8. ASSUME NEW q \in reqs \ {r} PROVE RequestOK(q)' /\ MadeOK(q)'
<2>1. RequestOK(q)'
  BY <1>1, <1>3, <1>5, OthersKeep
<2>2. NewKey(q) # NewKey(r)
  BY DEF BaseInv, NewKey
<2>3. MadeOK(q)
  BY DEF BaseInv
<2>4. MadeOK(q)'
  BY <1>1, <2>2, <2>3 DEF MadeOK, NewKey
<2> QED
  BY <2>1, <2>4
<1>9. RequestOK(s)'
  BY <1>1, <1>2, <1>3, <1>4, <1>5 DEF RequestOK
<1>10. MadeOK(s)'
<2>1. NewKey(s) = NewKey(r) /\ Left(s) < StoreAt(s.op)
<3>1. Left(r) \in Nat
  BY <1>1 DEF StoreAt
<3> QED
  BY <1>1, <1>2, <1>4, <3>1 DEF NewKey
<2>2. /\ made'[NewKey(r)].since = r.since /\ made'[NewKey(r)].line = r.line /\ made'[NewKey(r)].from = r.key
      /\ made'[NewKey(r)].cookie = (r.op \in {"login", "phone", "refresh"})
  BY <1>1 DEF Stored
<2> QED
  BY <1>1, <1>4, <2>1, <2>2 DEF MadeOK, NewKey
<1>11. \A q, p \in reqs' : q # p => q.n # p.n /\ {q.n, p.n} \in overlap'
<2>1. \A q, p \in reqs : q # p => q.n # p.n /\ {q.n, p.n} \in overlap
  BY DEF BaseInv
<2>2. \A q \in reqs' : \E p \in reqs : p.n = q.n /\ (q = s => p = r) /\ (q # s => p = q /\ p # r)
  BY <1>4
<2> QED
  BY <1>3, <2>1, <2>2
<1>12. \A k \in cookies' : made'[k].cookie /\ \A q \in reqs' : k[2] # q.n
<2>1. \A k \in cookies : k \in DOMAIN made /\ made[k].cookie /\ \A q \in reqs : k[2] # q.n
  BY DEF BaseInv
<2> QED
  BY <1>1, <1>3, <1>4, <2>1
<1>13. /\ access' \subseteq DOMAIN made' /\ refresh' \subseteq DOMAIN made' /\ cookies' \subseteq DOMAIN made'
       /\ commits' \in [Accounts -> Seq([by : Nat, ends : BOOLEAN])] /\ started' \in Nat
  BY <1>1, <1>3 DEF BaseInv
<1>14. \A q \in reqs' : RequestOK(q)' /\ MadeOK(q)'
  BY <1>4, <1>8, <1>9, <1>10
<1> QED
  BY <1>6, <1>7, <1>11, <1>12, <1>13, <1>14 DEF BaseInv

LEMMA InitBase == Init => BaseInv
<1> SUFFICES ASSUME Init PROVE BaseInv
  OBVIOUS
<1>1. /\ reqs = {} /\ access = Users \X {0} /\ refresh = Users \X {0} /\ cookies = Users \X {0} /\ started = 0
      /\ commits = [u \in Accounts |-> <<>>] /\ DOMAIN made = Users \X {0}
      /\ \A k \in Users \X {0} : made[k].since = 0 /\ made[k].cookie /\ made[k].from = NoKey /\ made[k].line = {}
  BY DEF Init
<1>2. IsFiniteSet(reqs) /\ Cardinality(reqs) <= Parallel
  BY <1>1, SessionsAssumption, FS_EmptySet
<1>3. commits \in [Accounts -> Seq([by : Nat, ends : BOOLEAN])]
  BY <1>1
<1>4. \A k \in DOMAIN made : KeyOK(k)
  BY <1>1 DEF KeyOK
<1> QED
  BY <1>1, <1>2, <1>3, <1>4 DEF BaseInv

-----------------------------------------------------------------------------
(* What each step does to the requests.                                    *)

Quiet == UNCHANGED <<started, overlap, commits, made, cookies>>
\* The request has one step less before it.
On(r, s) == Goes(r, s) /\ Left(s) = Left(r) - 1 /\ Follows(s.op, s.todo)
Ahead(r) == \E s : On(r, s) /\ s.multi = r.multi /\ s.lock = r.lock

LEMMA BaseOf ==
    ASSUME BaseInv, NEW r \in reqs
    PROVE  OnItsWay(r) /\ IsRequest(r) /\ r.op \in Ops /\ RequestOK(r) /\ MadeOK(r)
  BY DEF BaseInv, RequestOK

LEMMA StepContinues ==
    ASSUME BaseInv, NEW r \in reqs, NEW step, At(r, step), step \notin {"user", "load", "fill"}
    PROVE  Takes(r.op, step, Left(r)) /\ Left(r) \in Nat /\ Left(r) > 0 /\ (Continue(r) => Ahead(r))
<1>1. OnItsWay(r) /\ IsRequest(r) /\ r.op \in Ops
  BY BaseOf
<1>2. Takes(r.op, step, Left(r)) /\ Left(r) \in Nat /\ Left(r) > 0
  BY <1>1, TailOfPlan
<1>3. ASSUME Continue(r) PROVE Ahead(r)
  BY <1>1, <1>3, ContinueGoes DEF Ahead, On
<1> QED
  BY <1>2, <1>3

LEMMA EntryMoves ==
    ASSUME BaseInv, NEW r \in reqs, GetUser(r) \/ LoadUser(r) \/ FillCache(r)
    PROVE  /\ Quiet /\ access' = access /\ refresh' = refresh
           /\ r.op \in Own /\ ~r.lock /\ Left(r) = 1 /\ r.todo \in Entry
           /\ reqs' = reqs \ {r} \/ \E s : Goes(r, s) /\ ~s.lock
<1>1. Quiet /\ access' = access /\ refresh' = refresh
  BY DEF Quiet, GetUser, LoadUser, FillCache, clients, history
<1>2. OnItsWay(r) /\ IsRequest(r) /\ r.op \in Ops
  BY BaseOf
<1>3. PICK step \in {"user", "load", "fill"} : At(r, step)
  BY Zenon DEF GetUser, LoadUser, FillCache
<1>4. Entering(r) /\ Left(r) = 1
  BY <1>2, <1>3, EntryGoes
<1>5. r.op \in Own /\ ~r.lock /\ Left(r) = 1 /\ r.todo \in Entry
  BY <1>4 DEF Entering
<1>6. (\E snap : Enter(r, snap)) => \E s : Goes(r, s) /\ ~s.lock
  BY <1>2, <1>4, EnterGoes
<1>7. CASE \E snap : Enter(r, snap)
  BY <1>1, <1>5, <1>6, <1>7
<1>8. CASE Become(r, [r EXCEPT !.todo = <<"load">>])
<2> DEFINE s == [r EXCEPT !.todo = <<"load">>]
<2>1. Same(r, s) /\ s.todo = <<"load">> /\ s.lock = r.lock
  BY <1>2 DEF IsRequest, Same
<2>2. <<"load">> \in Seq(Steps) /\ <<"load">> \in Entry
  BY DEF Steps, Entry
<2>3. reqs' = (reqs \ {r}) \union {s}
  BY <1>8 DEF Become
<2> HIDE DEF s
<2>4. OnItsWay(s) /\ ~s.lock
  BY <1>5, <2>1, <2>2 DEF OnItsWay, Entering, Same
<2> QED
  BY <1>1, <1>5, <2>1, <2>3, <2>4 DEF Goes
<1>9. CASE \E snap : Become(r, [r EXCEPT !.todo = <<"fill">>, !.snap = snap])
<2>1. PICK snap : Become(r, [r EXCEPT !.todo = <<"fill">>, !.snap = snap])
  BY <1>9, Zenon
<2> DEFINE s == [r EXCEPT !.todo = <<"fill">>, !.snap = snap]
<2>2. Same(r, s) /\ s.todo = <<"fill">> /\ s.lock = r.lock
  BY <1>2 DEF IsRequest, Same
<2>3. <<"fill">> \in Seq(Steps) /\ <<"fill">> \in Entry
  BY DEF Steps, Entry
<2>4. reqs' = (reqs \ {r}) \union {s}
  BY <2>1 DEF Become
<2> HIDE DEF s
<2>5. OnItsWay(s) /\ ~s.lock
  BY <1>5, <2>2, <2>3 DEF OnItsWay, Entering, Same
<2> QED
  BY <1>1, <1>5, <2>2, <2>4, <2>5 DEF Goes
<1>10. CASE End(r)
  BY <1>1, <1>5, <1>10 DEF End
<1>11. \/ \E snap : Enter(r, snap)
       \/ Become(r, [r EXCEPT !.todo = <<"load">>])
       \/ \E snap : Become(r, [r EXCEPT !.todo = <<"fill">>, !.snap = snap])
       \/ End(r)
  BY Zenon DEF GetUser, LoadUser, FillCache
<1> QED
  BY <1>7, <1>8, <1>9, <1>10, <1>11, Zenon

LEMMA TouchMoves ==
    ASSUME BaseInv, NEW r \in reqs, Touch(r)
    PROVE  /\ Quiet /\ access' = access /\ refresh' = refresh /\ cache' = cache
           /\ r.op \in Makers \ {"refresh"} /\ (Left(r) > StoreAt(r.op) + 1 \/ (r.op = "social" /\ Left(r) = 1)) /\ Left(r) \in Nat
           /\ \/ reqs' = reqs \ {r}
              \/ \E s : On(r, s) /\ (s.multi = r.multi \/ r.op = "login")
<1>1. Quiet /\ access' = access /\ refresh' = refresh /\ cache' = cache
  BY DEF Quiet, Touch, clients, history
<1>2. OnItsWay(r) /\ IsRequest(r) /\ r.op \in Ops
  BY BaseOf
<1>3. At(r, "touch")
  BY DEF Touch
<1>4. r.op \in Makers \ {"refresh"} /\ (Left(r) > StoreAt(r.op) + 1 \/ (r.op = "social" /\ Left(r) = 1)) /\ Left(r) \in Nat
  BY <1>2, <1>3, TailOfPlan DEF Takes
<1>5. CASE End(r)
  BY <1>1, <1>4, <1>5 DEF End
<1>6. CASE Continue(r)
<2>1. Ahead(r)
  BY <1>3, <1>6, StepContinues
<2> QED
  BY <1>1, <1>4, <2>1 DEF Ahead
<1>7. CASE Become(r, [After(r) EXCEPT !.lock = TRUE, !.multi = IF r.op = "login" THEN row[r.u].multi ELSE @])
<2> DEFINE s == [After(r) EXCEPT !.lock = TRUE, !.multi = IF r.op = "login" THEN row[r.u].multi ELSE @]
<2>1. Same(r, s) /\ s.todo = Tail(r.todo) /\ (s.multi = r.multi \/ r.op = "login")
  BY <1>2 DEF IsRequest, Same, After
<2>2. reqs' = (reqs \ {r}) \union {s}
  BY <1>7 DEF Become
<2> HIDE DEF s
<2>3. On(r, s)
  BY <1>2, <1>3, <2>1, <2>2, HandlerGoes DEF On
<2> QED
  BY <1>1, <1>4, <2>1, <2>3
<1>8. End(r) \/ Continue(r) \/ Become(r, [After(r) EXCEPT !.lock = TRUE, !.multi = IF r.op = "login" THEN row[r.u].multi ELSE @])
  BY Zenon DEF Touch
<1> QED
  BY <1>5, <1>6, <1>7, <1>8

LEMMA DropMoves ==
    ASSUME BaseInv, NEW r \in reqs, DropTokens(r)
    PROVE  /\ Quiet /\ refresh' = refresh /\ cache' = cache /\ Ahead(r)
           /\ r.op \in Makers /\ Left(r) = StoreAt(r.op) + 1
           /\ access' = IF r.multi THEN access ELSE access \ PrefixKeys(access, r.u)
<1>1. At(r, "drop") /\ Continue(r) /\ access' = IF r.multi THEN access ELSE access \ PrefixKeys(access, r.u)
  BY DEF DropTokens
<1>2. Quiet /\ refresh' = refresh /\ cache' = cache
  BY DEF DropTokens, Quiet, clients, history
<1> QED
  BY <1>1, <1>2, StepContinues DEF Takes

LEMMA DropRefreshMoves ==
    ASSUME BaseInv, NEW r \in reqs, DropRefresh(r)
    PROVE  /\ Quiet /\ access' = access /\ refresh' \subseteq refresh /\ cache' = cache /\ Ahead(r)
           /\ r.op \in Makers /\ Left(r) < StoreAt(r.op)
<1>1. At(r, "dropRefresh") /\ Continue(r) /\ refresh' \subseteq refresh
  BY DEF DropRefresh
<1>2. Quiet /\ access' = access /\ cache' = cache
  BY DEF DropRefresh, Quiet, clients, history
<1> QED
  BY <1>1, <1>2, StepContinues DEF Takes

LEMMA StoreRefreshMoves ==
    ASSUME BaseInv, NEW r \in reqs, StoreRefresh(r)
    PROVE  /\ Quiet /\ access' = access /\ refresh' = refresh \union {NewKey(r)} /\ cache' = cache /\ Ahead(r)
           /\ r.op \in Makers /\ Left(r) < StoreAt(r.op) /\ NewKey(r) \in DOMAIN made
<1>1. At(r, "storeRefresh") /\ Continue(r) /\ refresh' = refresh \union {NewKey(r)}
  BY DEF StoreRefresh
<1>2. Quiet /\ access' = access /\ cache' = cache
  BY DEF StoreRefresh, Quiet, clients, history
<1>3. r.op \in Makers /\ Left(r) < StoreAt(r.op) /\ Ahead(r)
  BY <1>1, StepContinues DEF Takes
<1>4. NewKey(r) \in DOMAIN made
  BY <1>3, BaseOf DEF MadeOK
<1> QED
  BY <1>1, <1>2, <1>3, <1>4

LEMMA CheckMoves ==
    ASSUME BaseInv, NEW r \in reqs, CheckRefresh(r)
    PROVE  /\ Quiet /\ access' = access /\ refresh' = refresh /\ cache' = cache
           /\ r.op = "refresh" /\ Left(r) = 7
           /\ (r.key \in refresh /\ Ahead(r)) \/ reqs' = reqs \ {r}
<1>1. At(r, "check") /\ ((r.key \in refresh /\ Continue(r)) \/ End(r))
  BY Zenon DEF CheckRefresh
<1>2. Quiet /\ access' = access /\ refresh' = refresh /\ cache' = cache
  BY DEF CheckRefresh, Quiet, clients, history
<1>3. r.op = "refresh" /\ Left(r) = 7 /\ (Continue(r) => Ahead(r))
  BY <1>1, StepContinues DEF Takes
<1> QED
  BY <1>1, <1>2, <1>3 DEF End

LEMMA SpendMoves ==
    ASSUME BaseInv, NEW r \in reqs, SpendRefresh(r)
    PROVE  /\ Quiet /\ access' = access /\ refresh' \subseteq refresh /\ cache' = cache /\ Ahead(r)
           /\ (r.op = "refresh" /\ Left(r) = 6 /\ refresh' = refresh \ {r.key}) \/ r.op = "logout"
<1>1. At(r, "spend") /\ Continue(r) /\ refresh' = IF made[r.key].cookie THEN refresh \ {r.key} ELSE refresh
  BY DEF SpendRefresh
<1>2. Quiet /\ access' = access /\ cache' = cache
  BY DEF SpendRefresh, Quiet, clients, history
<1>3. ((r.op = "refresh" /\ Left(r) = 6) \/ r.op = "logout") /\ Ahead(r)
  BY <1>1, StepContinues DEF Takes
<1>4. r.op = "refresh" => made[r.key].cookie
  BY DEF BaseInv, RequestOK
<1> QED
  BY <1>1, <1>2, <1>3, <1>4

LEMMA RevokeMoves ==
    ASSUME BaseInv, NEW r \in reqs, RevokeToken(r)
    PROVE  /\ Quiet /\ access' \subseteq access /\ refresh' = refresh /\ cache' = cache /\ Ahead(r)
           /\ (r.op = "refresh" /\ Left(r) = 5) \/ r.op \in {"logout", "kick"}
<1>1. At(r, "revoke") /\ Continue(r) /\ access' \subseteq access
  BY DEF RevokeToken
<1>2. Quiet /\ refresh' = refresh /\ cache' = cache
  BY DEF RevokeToken, Quiet, clients, history
<1>3. ((r.op = "refresh" /\ Left(r) = 5) \/ r.op \in {"logout", "kick"}) /\ Ahead(r)
  BY <1>1, StepContinues DEF Takes
<1> QED
  BY <1>1, <1>2, <1>3

\* Reading and writing the row: only the write takes its lock.
LEMMA RowMoves ==
    ASSUME BaseInv, NEW r \in reqs, ReadRow(r) \/ WriteRow(r)
    PROVE  /\ Quiet /\ access' = access /\ refresh' = refresh /\ cache' = cache
           /\ r.op \in Changers /\ Left(r) \in Nat /\ Left(r) > 1 /\ (r.op \in Credentials => Left(r) > 3)
           /\ reqs' = reqs \ {r} \/ \E s : On(r, s)
<1>1. Quiet /\ access' = access /\ refresh' = refresh /\ cache' = cache
  BY DEF ReadRow, WriteRow, Quiet, clients, history
<1>2. OnItsWay(r) /\ IsRequest(r) /\ r.op \in Ops
  BY BaseOf
<1>3. PICK step \in {"read", "write"} : At(r, step)
  BY Zenon DEF ReadRow, WriteRow
<1>4. r.op \in Changers /\ Left(r) \in Nat /\ Left(r) > 1 /\ (r.op \in Credentials => Left(r) > 3)
  BY <1>2, <1>3, TailOfPlan DEF Takes
<1>5. CASE End(r)
  BY <1>1, <1>4, <1>5 DEF End
<1>6. CASE \E c : Become(r, [After(r) EXCEPT !.change = c])
<2>1. PICK c : Become(r, [After(r) EXCEPT !.change = c])
  BY <1>6
<2> DEFINE s == [After(r) EXCEPT !.change = c]
<2>2. Same(r, s) /\ s.todo = Tail(r.todo)
  BY <1>2 DEF IsRequest, Same, After
<2>3. reqs' = (reqs \ {r}) \union {s}
  BY <2>1 DEF Become
<2> HIDE DEF s
<2>4. On(r, s)
  BY <1>2, <1>3, <2>2, <2>3, HandlerGoes DEF On
<2> QED
  BY <1>1, <1>4, <2>4
<1>7. CASE \E l : Become(r, [After(r) EXCEPT !.lock = l])
<2>1. PICK l : Become(r, [After(r) EXCEPT !.lock = l])
  BY <1>7
<2> DEFINE s == [After(r) EXCEPT !.lock = l]
<2>2. Same(r, s) /\ s.todo = Tail(r.todo)
  BY <1>2 DEF IsRequest, Same, After
<2>3. reqs' = (reqs \ {r}) \union {s}
  BY <2>1 DEF Become
<2> HIDE DEF s
<2>4. On(r, s)
  BY <1>2, <1>3, <2>2, <2>3, HandlerGoes DEF On
<2> QED
  BY <1>1, <1>4, <2>4
<1>8. End(r) \/ (\E c : Become(r, [After(r) EXCEPT !.change = c])) \/ (\E l : Become(r, [After(r) EXCEPT !.lock = l]))
  BY Zenon DEF ReadRow, WriteRow
<1> QED
  BY <1>5, <1>6, <1>7, <1>8

-----------------------------------------------------------------------------
(* Every step keeps BaseInv.                                               *)

LEMMA ClearMoves ==
    ASSUME BaseInv, NEW r \in reqs, ClearCache(r)
    PROVE  /\ Quiet /\ access' = access /\ refresh' = refresh /\ Ahead(r)
           /\ cache' = [u \in Users |-> IF u = r.u THEN NotCached ELSE cache[u]]
           /\ r.op \in Changers \ Credentials /\ Left(r) = 1
<1>1. At(r, "clear") /\ Continue(r) /\ cache' = [u \in Users |-> IF u = r.u THEN NotCached ELSE cache[u]]
  BY DEF ClearCache
<1>2. Quiet /\ access' = access /\ refresh' = refresh
  BY DEF ClearCache, Quiet, clients, history
<1> QED
  BY <1>1, <1>2, StepContinues DEF Takes

LEMMA DropOthersMoves ==
    ASSUME BaseInv, NEW r \in reqs, DropOthers(r)
    PROVE  /\ Quiet /\ access' \subseteq access /\ refresh' = refresh /\ cache' = cache /\ Ahead(r)
           /\ r.op \in {"switch", "switchOwn"} /\ Left(r) > 1
<1>1. At(r, "dropOthers") /\ Continue(r) /\ access' \subseteq access
  BY DEF DropOthers
<1>2. Quiet /\ refresh' = refresh /\ cache' = cache
  BY DEF DropOthers, Quiet, clients, history
<1> QED
  BY <1>1, <1>2, StepContinues DEF Takes

LEMMA PurgeMoves ==
    ASSUME BaseInv, NEW r \in reqs, Purge(r)
    PROVE  /\ Quiet /\ Ahead(r) /\ r.op \in Credentials
           /\ \/ /\ Left(r) = 3 /\ access' = access \ PrefixKeys(access, r.u) /\ refresh' = refresh /\ cache' = cache
              \/ /\ Left(r) = 2 /\ refresh' = refresh \ PrefixKeys(refresh, r.u) /\ access' = access /\ cache' = cache
              \/ /\ Left(r) = 1 /\ refresh' = refresh /\ access' = access
                 /\ cache' = [v \in Users |-> IF HasPrefix(v, r.u) THEN NotCached ELSE cache[v]]
<1>1. Quiet /\ Continue(r)
  BY DEF Purge, Quiet, clients, history
<1>2. \/ /\ At(r, "purge") /\ access' = access \ PrefixKeys(access, r.u) /\ refresh' = refresh /\ cache' = cache
      \/ /\ At(r, "purgeRefresh") /\ refresh' = refresh \ PrefixKeys(refresh, r.u) /\ access' = access /\ cache' = cache
      \/ /\ At(r, "purgeUsers") /\ refresh' = refresh /\ access' = access
         /\ cache' = [v \in Users |-> IF HasPrefix(v, r.u) THEN NotCached ELSE cache[v]]
  BY DEF Purge
<1>3. CASE At(r, "purge") /\ access' = access \ PrefixKeys(access, r.u) /\ refresh' = refresh /\ cache' = cache
<2>1. r.op \in Credentials /\ Left(r) = 3 /\ Ahead(r)
  BY <1>1, <1>3, StepContinues DEF Takes
<2> QED
  BY <1>1, <1>3, <2>1
<1>4. CASE At(r, "purgeRefresh") /\ refresh' = refresh \ PrefixKeys(refresh, r.u) /\ access' = access /\ cache' = cache
<2>1. r.op \in Credentials /\ Left(r) = 2 /\ Ahead(r)
  BY <1>1, <1>4, StepContinues DEF Takes
<2> QED
  BY <1>1, <1>4, <2>1
<1>5. CASE /\ At(r, "purgeUsers") /\ refresh' = refresh /\ access' = access
           /\ cache' = [v \in Users |-> IF HasPrefix(v, r.u) THEN NotCached ELSE cache[v]]
<2>1. r.op \in Credentials /\ Left(r) = 1 /\ Ahead(r)
  BY <1>1, <1>5, StepContinues DEF Takes
<2> QED
  BY <1>1, <1>5, <2>1
<1> QED
  BY <1>2, <1>3, <1>4, <1>5

\* What the handler's last step leaves, and what a dead request leaves.
LEMMA FinishMoves ==
    ASSUME BaseInv, NEW r \in reqs, Finish(r)
    PROVE  /\ reqs' = reqs \ {r} /\ Left(r) = 0
           /\ UNCHANGED <<access, refresh, cache, started, overlap, made>>
           /\ cookies \subseteq cookies' /\ \A k \in cookies' \ cookies : k = NewKey(r) /\ k \in DOMAIN made /\ made[k].cookie
           /\ \/ commits' = commits
              \/ /\ r.lock /\ r.op \in Changers
                 /\ commits' = [commits EXCEPT ![r.u] = Append(@, [by |-> r.n, ends |-> r.op \in Credentials])]
           /\ commits' \in [Accounts -> Seq([by : Nat, ends : BOOLEAN])]
<1>1. reqs' = reqs \ {r} /\ r.todo = <<>> /\ UNCHANGED <<access, refresh, cache, started, overlap, made>>
  BY Zenon DEF Finish, End
<1>2. Left(r) = 0
  BY <1>1 DEF Left
<1>3. \/ cookies' = cookies
      \/ /\ r.op \in {"login", "phone"} /\ cookies' = cookies \union IF NewKey(r) \in DOMAIN made THEN {NewKey(r)} ELSE {}
  BY Zenon DEF Finish
<1>4. cookies \subseteq cookies' /\ \A k \in cookies' \ cookies : k = NewKey(r) /\ k \in DOMAIN made /\ made[k].cookie
<2>1. r.op \in {"login", "phone"} /\ NewKey(r) \in DOMAIN made => made[NewKey(r)].cookie
  BY BaseOf DEF MadeOK
<2> QED
  BY <1>3, <2>1
<1>5. \/ commits' = commits
      \/ /\ r.lock /\ r.op \in DOMAIN OwnPlan \union DOMAIN AdminPlan
         /\ commits' = [commits EXCEPT ![r.u] = Append(@, [by |-> r.n, ends |-> r.op \in Credentials])]
  BY Zenon DEF Finish
<1>6. r.lock /\ r.op \in DOMAIN OwnPlan \union DOMAIN AdminPlan => r.op \in Changers
<2>1. r.lock => r.op \in Makers \union Changers
  BY BaseOf DEF RequestOK
<2>2. r.op \in DOMAIN OwnPlan \union DOMAIN AdminPlan => r.op \notin Makers
  BY OwnPlans, AdminPlans DEF Own, Makers
<2> QED
  BY <2>1, <2>2
<1>7. commits' \in [Accounts -> Seq([by : Nat, ends : BOOLEAN])]
<2>1. commits \in [Accounts -> Seq([by : Nat, ends : BOOLEAN])] /\ r.u \in Accounts /\ r.n \in Nat
  BY BaseOf DEF BaseInv, RequestOK
<2> DEFINE c == [by |-> r.n, ends |-> r.op \in Credentials]
           C == [by : Nat, ends : BOOLEAN]
<2>2. c \in C
  BY <2>1
<2>3. \A q \in Seq(C) : Append(q, c) \in Seq(C)
<3> HIDE DEF c, C
<3> QED
  BY <2>2
<2>4. CASE commits' = [commits EXCEPT ![r.u] = Append(@, c)]
<3>1. commits \in [Accounts -> Seq(C)] /\ Append(commits[r.u], c) \in Seq(C)
  BY <2>1, <2>3
<3> HIDE DEF c, C
<3>2. commits' \in [Accounts -> Seq(C)]
  BY <2>4, <3>1
<3> QED
  BY <3>2 DEF C
<2> QED
  BY <1>5, <2>1, <2>4
<1> QED
  BY <1>1, <1>2, <1>4, <1>5, <1>6, <1>7

LEMMA DieMoves ==
    ASSUME NEW r \in reqs, Die(r)
    PROVE  Quiet /\ reqs' = reqs \ {r} /\ access' = access /\ refresh' = refresh /\ cache' = cache
  BY DEF Die, End, Quiet, clients, history

\* What is begun, and with what.
LEMMA BeginActions ==
    ASSUME BaseInv,
           \/ \E u \in Users : BeginLogin(u) \/ BeginCodeLogin(u)
           \/ \E k \in cookies : BeginRefresh(k)
           \/ \E op \in DOMAIN OwnPlan, k \in known : BeginOwn(op, k)
           \/ \E op \in DOMAIN AdminPlan, u \in Accounts : BeginAdmin(op, u)
    PROVE  \E op, u, key, steps, multi, since, line :
              /\ Begin(op, u, key, steps, multi, since, line) /\ BeginsWith(op, u, key, steps, since, line)
              /\ op \in Makers \ {"refresh"} => since = Len(commits[u])
              /\ op = "refresh" => since = made[key].since /\ line = made[key].line \union {started + 1}
<1>1. \A u \in Users : u \in Accounts /\ Len(commits[u]) \in Nat
  BY DEF BaseInv, Accounts
<1>2. ASSUME NEW u \in Users, BeginLogin(u) \/ BeginCodeLogin(u) PROVE
        \E op \in Makers \ {"refresh"} : \E multi : Begin(op, u, NoKey, PlanOf(op), multi, Len(commits[u]), {started + 1})
<2>1. PlanOf("login") = LoginPlan /\ PlanOf("swagger") = SwaggerPlan /\ PlanOf("phone") = PhonePlan /\ PlanOf("social") = SocialPlan
  BY DEF PlanOf
<2>2. {"login", "swagger", "phone", "social"} \subseteq Makers \ {"refresh"}
  BY DEF Makers
<2>3. \/ Begin("login", u, NoKey, PlanOf("login"), row[u].multi, Len(commits[u]), {started + 1})
      \/ Begin("swagger", u, NoKey, PlanOf("swagger"), row[u].multi, Len(commits[u]), {started + 1})
      \/ Begin("phone", u, NoKey, PlanOf("phone"), row[u].multi, Len(commits[u]), {started + 1})
      \/ Begin("social", u, NoKey, PlanOf("social"), row[u].multi, Len(commits[u]), {started + 1})
  BY <1>2, <2>1, Zenon DEF BeginLogin, BeginCodeLogin
<2> QED
  BY <2>2, <2>3, Zenon
<1>3. CASE \E u \in Users : BeginLogin(u) \/ BeginCodeLogin(u)
<2>1. PICK u \in Users, op \in Makers \ {"refresh"} : \E multi : Begin(op, u, NoKey, PlanOf(op), multi, Len(commits[u]), {started + 1})
  BY <1>2, <1>3, Zenon
<2>2. BeginsWith(op, u, NoKey, PlanOf(op), Len(commits[u]), {started + 1})
  BY <1>1 DEF BeginsWith, Ops, Makers, Own
<2> QED
  BY <2>1, <2>2, Zenon
<1>4. CASE \E k \in cookies : BeginRefresh(k)
<2>1. PICK k \in cookies : BeginRefresh(k)
  BY <1>4, Zenon
<2>2. Begin("refresh", k[1], k, PlanOf("refresh"), row[k[1]].multi, made[k].since, made[k].line \union {started + 1})
  BY <2>1 DEF BeginRefresh, PlanOf
<2>3. k[1] \in Users /\ made[k].since \in Nat
  BY DEF BaseInv, KeyOK
<2>4. BeginsWith("refresh", k[1], k, PlanOf("refresh"), made[k].since, made[k].line \union {started + 1})
  BY <1>1, <2>3 DEF BeginsWith, Ops, Makers, Own
<2>5. "refresh" \notin Makers \ {"refresh"}
  OBVIOUS
<2> QED
  BY <2>2, <2>4, <2>5, Zenon
<1>5. CASE \E op \in DOMAIN OwnPlan, k \in known : BeginOwn(op, k)
<2>1. PICK op \in Own, k \in known : BeginOwn(op, k)
  BY <1>5, OwnPlans, Zenon
<2>2. Begin(op, k[1], k, <<"user">>, FALSE, 0, {}) /\ k \in DOMAIN made
  BY <2>1 DEF BeginOwn, BaseInv
<2>3. k[1] \in Users
  BY <2>2 DEF BaseInv, KeyOK
<2>4. BeginsWith(op, k[1], k, <<"user">>, 0, {}) /\ op \notin Makers \ {"refresh"} /\ op # "refresh"
  BY <1>1, <2>2, <2>3 DEF BeginsWith, Ops, Makers, Own
<2> QED
  BY <2>2, <2>4, Zenon
<1>6. CASE \E op \in DOMAIN AdminPlan, u \in Accounts : BeginAdmin(op, u)
<2>1. PICK op \in DOMAIN AdminPlan, u \in Accounts : BeginAdmin(op, u)
  BY <1>6, Zenon
<2>2. op \in Ops \ (Makers \union Own) /\ AdminPlan[op] = PlanOf(op)
  BY AdminPlans
<2>3. \E multi : Begin(op, u, NoKey, PlanOf(op), multi, 0, {})
  BY <2>1, <2>2, Zenon DEF BeginAdmin
<2>4. BeginsWith(op, u, NoKey, PlanOf(op), 0, {}) /\ op \notin Makers \ {"refresh"} /\ op # "refresh"
  BY <2>2 DEF BeginsWith, Makers
<2> QED
  BY <2>3, <2>4, Zenon
<1> QED
  BY <1>3, <1>4, <1>5, <1>6

\* A request goes on, or ends, and no session is stored.
LEMMA BaseAhead ==
    ASSUME BaseInv, NEW r \in reqs, Ahead(r), Quiet, Left(r) \in Nat, r.op \in Makers => Left(r) # StoreAt(r.op),
           access' \subseteq DOMAIN made, refresh' \subseteq DOMAIN made
    PROVE  BaseInv'
<1>1. PICK s : On(r, s) /\ s.lock = r.lock
  BY DEF Ahead
<1>2. s.op = r.op /\ Goes(r, s) /\ Left(s) = Left(r) - 1
  BY <1>1 DEF On, Goes, Same
<1>3. s.lock => s.op \in Makers \union Changers
  BY <1>1, <1>2, BaseOf DEF RequestOK
<1>4. r.op \in Makers => (Left(s) < StoreAt(r.op) <=> Left(r) < StoreAt(r.op))
<2>1. StoreAt(r.op) \in Nat
  BY DEF StoreAt
<2> QED
  BY <1>2, <2>1
<1> QED
  BY <1>2, <1>3, <1>4, BaseMoves DEF Quiet

LEMMA BaseQuits ==
    ASSUME BaseInv, NEW r \in reqs, reqs' = reqs \ {r}, Quiet, access' \subseteq DOMAIN made, refresh' \subseteq DOMAIN made
    PROVE  BaseInv'
<1>1. commits' \in [Accounts -> Seq([by : Nat, ends : BOOLEAN])] /\ cookies' = cookies /\ made' = made /\ started' = started /\ overlap' = overlap
  BY DEF BaseInv, Quiet
<1> QED
  BY <1>1, BaseEnds

LEMMA StepBase == BaseInv /\ [Next]_vars => BaseInv'
<1> SUFFICES ASSUME BaseInv, [Next]_vars PROVE BaseInv'
  OBVIOUS
<1>1. access \subseteq DOMAIN made /\ refresh \subseteq DOMAIN made
  BY DEF BaseInv
<1>2. CASE UNCHANGED vars
  BY <1>2 DEF vars, clients, history, BaseInv, RequestOK, MadeOK, KeyOK, OnItsWay, Entering, Left, NewKey
<1>3. CASE \/ \E u \in Users : BeginLogin(u) \/ BeginCodeLogin(u)
           \/ \E k \in cookies : BeginRefresh(k)
           \/ \E op \in DOMAIN OwnPlan, k \in known : BeginOwn(op, k)
           \/ \E op \in DOMAIN AdminPlan, u \in Accounts : BeginAdmin(op, u)
  BY <1>3, BeginActions, BaseBegins
<1>4. CASE \E k \in access : Expire(k)
<2>1. Quiet /\ reqs' = reqs /\ access' \subseteq access /\ refresh' = refresh
  BY <1>4 DEF Expire, Quiet, clients, history
<2> QED
  BY <1>1, <2>1 DEF Quiet, BaseInv, RequestOK, MadeOK, KeyOK, OnItsWay, Entering, Left, NewKey
<1>5. ASSUME NEW r \in reqs, Step(r) PROVE BaseInv'
<2>1. CASE GetUser(r) \/ LoadUser(r) \/ FillCache(r)
<3>1. Quiet /\ access' = access /\ refresh' = refresh /\ r.op \in Own /\ (reqs' = reqs \ {r} \/ \E s : Goes(r, s) /\ ~s.lock)
  BY <2>1, EntryMoves
<3>2. CASE reqs' = reqs \ {r}
  BY <1>1, <3>1, <3>2, BaseQuits
<3>3. CASE \E s : Goes(r, s) /\ ~s.lock
<4>1. PICK s : Goes(r, s) /\ ~s.lock
  BY <3>3
<4>2. r.op \notin Makers
  BY <3>1 DEF Own, Makers
<4> QED
  BY <1>1, <3>1, <4>1, <4>2, BaseMoves DEF Quiet
<3> QED
  BY <3>1, <3>2, <3>3
<2>2. CASE Touch(r)
<3>1. /\ Quiet /\ access' = access /\ refresh' = refresh /\ r.op \in Makers /\ Left(r) # StoreAt(r.op) /\ Left(r) \in Nat
      /\ reqs' = reqs \ {r} \/ \E s : On(r, s)
  BY <2>2, TouchMoves DEF StoreAt
<3>2. CASE reqs' = reqs \ {r}
  BY <1>1, <3>1, <3>2, BaseQuits
<3>3. CASE \E s : On(r, s)
<4>1. PICK s : On(r, s)
  BY <3>3
<4>2. Goes(r, s) /\ Left(s) = Left(r) - 1 /\ s.op = r.op
  BY <4>1 DEF On, Goes, Same
<4>3. Left(s) < StoreAt(r.op) <=> Left(r) < StoreAt(r.op)
<5>1. StoreAt(r.op) \in Nat
  BY DEF StoreAt
<5> QED
  BY <3>1, <4>2, <5>1
<4> QED
  BY <1>1, <3>1, <4>2, <4>3, BaseMoves DEF Quiet
<3> QED
  BY <3>1, <3>2, <3>3
<2>3. CASE DropTokens(r)
<3>1. Quiet /\ access' \subseteq access /\ refresh' = refresh /\ Ahead(r) /\ Left(r) = StoreAt(r.op) + 1
  BY <2>3, DropMoves
<3>2. Left(r) \in Nat /\ Left(r) # StoreAt(r.op)
  BY <3>1 DEF StoreAt
<3> QED
  BY <1>1, <3>1, <3>2, BaseAhead
<2>4. CASE StoreToken(r)
  BY <2>4, BaseStores
<2>5. CASE DropRefresh(r) \/ StoreRefresh(r)
<3>1. Quiet /\ access' = access /\ refresh' \subseteq DOMAIN made /\ Ahead(r) /\ r.op \in Makers /\ Left(r) < StoreAt(r.op)
  BY <1>1, <2>5, DropRefreshMoves, StoreRefreshMoves
<3>2. Left(r) \in Nat /\ Left(r) # StoreAt(r.op)
<4>1. Left(r) \in Nat
  BY BaseOf DEF OnItsWay, Left
<4> QED
  BY <3>1, <4>1 DEF StoreAt
<3> QED
  BY <1>1, <3>1, <3>2, BaseAhead
<2>6. CASE CheckRefresh(r)
<3>1. Quiet /\ access' = access /\ refresh' = refresh /\ r.op = "refresh" /\ Left(r) = 7 /\ (Ahead(r) \/ reqs' = reqs \ {r})
  BY <2>6, CheckMoves
<3>2. Left(r) \in Nat /\ Left(r) # StoreAt(r.op)
  BY <3>1 DEF StoreAt
<3> QED
  BY <1>1, <3>1, <3>2, BaseAhead, BaseQuits
<2>7. CASE SpendRefresh(r) \/ RevokeToken(r)
<3>1. Quiet /\ access' \subseteq access /\ refresh' \subseteq refresh /\ Ahead(r)
      /\ ((r.op = "refresh" /\ Left(r) \in {5, 6}) \/ r.op \in {"logout", "kick"})
  BY <2>7, SpendMoves, RevokeMoves
<3>2. Left(r) \in Nat
  BY BaseOf DEF OnItsWay, Left
<3>3. r.op \in Makers => Left(r) # StoreAt(r.op)
  BY <3>1 DEF StoreAt, Makers
<3> QED
  BY <1>1, <3>1, <3>2, <3>3, BaseAhead
<2>8. CASE ReadRow(r) \/ WriteRow(r)
<3>1. /\ Quiet /\ access' = access /\ refresh' = refresh /\ r.op \in Changers
      /\ reqs' = reqs \ {r} \/ \E s : On(r, s)
  BY <2>8, RowMoves
<3>2. CASE reqs' = reqs \ {r}
  BY <1>1, <3>1, <3>2, BaseQuits
<3>3. CASE \E s : On(r, s)
<4>1. PICK s : On(r, s)
  BY <3>3
<4>2. Goes(r, s) /\ s.op = r.op /\ r.op \notin Makers
  BY <3>1, <4>1 DEF On, Goes, Same, Changers, Makers
<4> QED
  BY <1>1, <3>1, <4>2, BaseMoves DEF Quiet
<3> QED
  BY <3>1, <3>2, <3>3
<2>9. CASE DropOthers(r) \/ ClearCache(r) \/ Purge(r)
<3>1. Quiet /\ access' \subseteq access /\ refresh' \subseteq refresh /\ Ahead(r) /\ r.op \in Changers
  BY <2>9, DropOthersMoves, ClearMoves, PurgeMoves DEF Changers, Credentials
<3>2. Left(r) \in Nat
  BY BaseOf DEF OnItsWay, Left
<3>3. r.op \notin Makers
  BY <3>1 DEF Changers, Makers
<3> QED
  BY <1>1, <3>1, <3>2, <3>3, BaseAhead
<2>10. CASE Finish(r)
  BY <1>1, <2>10, FinishMoves, BaseEnds
<2>11. CASE Die(r)
  BY <1>1, <2>11, DieMoves, BaseQuits
<2> QED
  BY <1>5, <2>1, <2>2, <2>3, <2>4, <2>5, <2>6, <2>7, <2>8, <2>9, <2>10, <2>11, Zenon DEF Step
<1> QED
  BY <1>2, <1>3, <1>4, <1>5, Zenon DEF Next

-----------------------------------------------------------------------------
(* A refresh token makes one session, but for requests that overlap.       *)

Checked(r) == r.op = "refresh" /\ Left(r) < 7
Spent(r) == r.op = "refresh" /\ Left(r) < 6
\* The sessions made of the token r presents are its own or those of requests
\* it was in progress with.
KnowsForks(r) == \A j \in DOMAIN made : made[j].from = r.key => j = NewKey(r) \/ {j[2], r.n} \in overlap

ForkInv ==
    /\ \A j \in DOMAIN made : made[j].from # NoKey => made[j].from \in cookies \ refresh
    /\ \A r \in reqs : Spent(r) => r.key \notin refresh
    /\ \A r \in reqs : Checked(r) => KnowsForks(r)
    /\ ForkedByOverlapOnly

LEMMA InitFork == Init => ForkInv
<1> SUFFICES ASSUME Init PROVE ForkInv
  OBVIOUS
<1>1. reqs = {} /\ \A j \in DOMAIN made : made[j].from = NoKey
  BY DEF Init
<1> QED
  BY <1>1 DEF ForkInv, ForkedByOverlapOnly

\* No session is made.
LEMMA ForkKeeps ==
    ASSUME BaseInv, ForkInv, made' = made, overlap \subseteq overlap', cookies \subseteq cookies',
           \A k \in refresh' : k \in refresh \/ k \notin cookies,
           \A s \in reqs' : (Spent(s) => s.key \in cookies \ refresh') /\ (Checked(s) => KnowsForks(s))
    PROVE  ForkInv'
<1>1. \A j \in DOMAIN made' : made'[j].from # NoKey => made'[j].from \in cookies' \ refresh'
  BY DEF ForkInv
<1>2. \A s \in reqs' : Spent(s)' => s.key \notin refresh'
  BY DEF Spent, Left
<1>3. \A s \in reqs' : Checked(s)' => KnowsForks(s)'
  BY DEF Checked, Left, KnowsForks, NewKey
<1>4. ForkedByOverlapOnly'
<2> SUFFICES ASSUME NEW j \in DOMAIN made, NEW k \in DOMAIN made, j # k, made[j].from # NoKey, made[j].from = made[k].from
             PROVE  {j[2], k[2]} \in overlap'
  BY DEF ForkedByOverlapOnly
<2>1. {j[2], k[2]} \in overlap
  BY DEF ForkInv, ForkedByOverlapOnly
<2> QED
  BY <2>1
<1> QED
  BY <1>1, <1>2, <1>3, <1>4 DEF ForkInv

\* A request goes on or ends at a step that is not one of a refresh's first two.
LEMMA ForkPasses ==
    ASSUME BaseInv, ForkInv, Quiet, NEW r \in reqs, reqs' = reqs \ {r} \/ \E s : Goes(r, s) /\ (Left(s) = Left(r) - 1 \/ r.op \in Own),
           r.op = "refresh" => Left(r) < 6,
           \A k \in refresh' : k \in refresh \/ k \notin cookies
    PROVE  ForkInv'
<1>1. \A q \in reqs : Spent(q) => q.key \in cookies \ refresh'
<2> SUFFICES ASSUME NEW q \in reqs, Spent(q) PROVE q.key \in cookies \ refresh'
  OBVIOUS
<2>1. q.key \in cookies /\ q.key \notin refresh
  BY BaseOf DEF RequestOK, Spent, ForkInv
<2> QED
  BY <2>1
<1>2. \A q \in reqs : Checked(q) => KnowsForks(q)
  BY DEF ForkInv
<1>3. made' = made /\ overlap' = overlap /\ cookies' = cookies
  BY DEF Quiet
<1>4. CASE reqs' = reqs \ {r}
  BY <1>1, <1>2, <1>3, <1>4, ForkKeeps
<1>5. CASE \E s : Goes(r, s) /\ (Left(s) = Left(r) - 1 \/ r.op \in Own)
<2>1. PICK s : Goes(r, s) /\ (Left(s) = Left(r) - 1 \/ r.op \in Own)
  BY <1>5
<2>2. s.op = r.op /\ s.key = r.key /\ s.n = r.n /\ s.u = r.u /\ reqs' = (reqs \ {r}) \union {s}
  BY <2>1 DEF Goes, Same
<2>3. s.op = "refresh" => Spent(r) /\ Checked(r)
  BY <2>2, BaseOf DEF Spent, Checked, OnItsWay, Left
<2>4. (Spent(s) => s.key \in cookies \ refresh') /\ (Checked(s) => KnowsForks(s))
<3>1. Spent(s) => s.op = "refresh"
  BY DEF Spent
<3>2. Checked(s) => s.op = "refresh"
  BY DEF Checked
<3>3. KnowsForks(r) => KnowsForks(s)
  BY <2>2 DEF KnowsForks, NewKey
<3> QED
  BY <1>1, <1>2, <2>2, <2>3, <3>1, <3>2, <3>3
<2>5. \A q \in reqs' : (Spent(q) => q.key \in cookies \ refresh') /\ (Checked(q) => KnowsForks(q))
  BY <1>1, <1>2, <2>2, <2>4
<2> QED
  BY <1>3, <2>5, ForkKeeps
<1> QED
  BY <1>4, <1>5

LEMMA ForkBegins ==
    ASSUME BaseInv, ForkInv, NEW op, NEW u, NEW key, NEW steps, NEW multi, NEW since, NEW line,
           Begin(op, u, key, steps, multi, since, line), BeginsWith(op, u, key, steps, since, line)
    PROVE  ForkInv'
<1>1. PICK s : Begun(s, op, u, key, steps, multi, since, line)
  BY BeginMakes
<1>2. made' = made /\ overlap \subseteq overlap' /\ cookies' = cookies /\ refresh' = refresh
  BY DEF Begin, clients
<1>3. ~Spent(s) /\ ~Checked(s)
<2>1. op = "refresh" => steps = RefreshPlan
  BY DEF BeginsWith, Own, PlanOf
<2>2. Len(RefreshPlan) = 7
  BY DEF RefreshPlan
<2>3. s.op = "refresh" => s.todo = RefreshPlan
  BY <1>1, <2>1, Zenon DEF Begun
<2>4. s.op = "refresh" => Left(s) = 7
  BY <2>2, <2>3 DEF Left
<2> QED
  BY <2>4 DEF Spent, Checked
<1>4. \A q \in reqs : (Spent(q) => q.key \in cookies \ refresh') /\ (Checked(q) => KnowsForks(q))
<2> SUFFICES ASSUME NEW q \in reqs PROVE (Spent(q) => q.key \in cookies \ refresh') /\ (Checked(q) => KnowsForks(q))
  OBVIOUS
<2>1. q.op = "refresh" => q.key \in cookies
  BY BaseOf DEF RequestOK
<2> QED
  BY <1>2, <2>1 DEF ForkInv, Spent
<1>5. \A q \in reqs' : (Spent(q) => q.key \in cookies \ refresh') /\ (Checked(q) => KnowsForks(q))
  BY <1>1, <1>3, <1>4 DEF Begun
<1> QED
  BY <1>2, <1>5, ForkKeeps

LEMMA ForkStores ==
    ASSUME BaseInv, ForkInv, NEW r \in reqs, StoreToken(r)
    PROVE  ForkInv'
<1>1. /\ r.op \in Makers /\ Left(r) = StoreAt(r.op) /\ NewKey(r) \notin DOMAIN made
      /\ DOMAIN made' = DOMAIN made \union {NewKey(r)} /\ made'[NewKey(r)] = Stored(r)
      /\ \A j \in DOMAIN made : made'[j] = made[j]
  BY StoreGoes
<1>2. PICK s : Goes(r, s) /\ Left(s) = Left(r) - 1
  BY StoreGoes
<1>3. s.op = r.op /\ s.key = r.key /\ s.n = r.n /\ s.u = r.u /\ reqs' = (reqs \ {r}) \union {s}
  BY <1>2 DEF Goes, Same
<1>4. refresh' = refresh /\ cookies' = cookies /\ overlap' = overlap
  BY DEF StoreToken, clients
<1>5. \/ r.op = "refresh" /\ r.key \in cookies \ refresh /\ Spent(r) /\ Checked(r)
      \/ r.op # "refresh" /\ r.key = NoKey
<2>1. r.op = "refresh" => Left(r) < 6 /\ Left(r) < 7
  BY <1>1 DEF StoreAt
<2> QED
  BY <1>1, <2>1, BaseOf DEF RequestOK, Spent, Checked, ForkInv
<1>6. made'[NewKey(r)].from = r.key
  BY <1>1 DEF Stored
<1>7. \A j \in DOMAIN made' : made'[j].from # NoKey => made'[j].from \in cookies' \ refresh'
  BY <1>1, <1>4, <1>5, <1>6 DEF ForkInv
\* What the request knows of the others' sessions.
<1>8. r.op = "refresh" => \A j \in DOMAIN made : made[j].from = r.key => {j[2], r.n} \in overlap
  BY <1>1, <1>5 DEF ForkInv, KnowsForks
<1>9. NewKey(r)[2] = r.n /\ NewKey(s) = NewKey(r)
  BY <1>3 DEF NewKey
<1>10. ASSUME NEW q \in reqs' PROVE (Spent(q)' => q.key \notin refresh') /\ (Checked(q)' => KnowsForks(q)')
<2>1. Spent(q)' <=> Spent(q)
  BY DEF Spent, Left
<2>2. Checked(q)' <=> Checked(q)
  BY DEF Checked, Left
<2>3. CASE q = s
<3>1. Checked(q) => r.op = "refresh"
  BY <1>3, <2>3 DEF Checked
<3>2. r.op = "refresh" => KnowsForks(s)'
  BY <1>1, <1>3, <1>4, <1>8, <1>9 DEF KnowsForks, NewKey
<3>3. Spent(q) => r.op = "refresh"
  BY <1>3, <2>3 DEF Spent
<3> QED
  BY <1>3, <1>4, <1>5, <2>1, <2>2, <2>3, <3>1, <3>2, <3>3
<2>4. CASE q \in reqs \ {r}
<3>1. Spent(q) => q.key \notin refresh
  BY <2>4 DEF ForkInv
<3>2. ASSUME Checked(q), NEW j \in DOMAIN made', made'[j].from = q.key PROVE j = NewKey(q) \/ {j[2], q.n} \in overlap
<4>1. CASE j \in DOMAIN made
  BY <1>1, <2>4, <3>2, <4>1 DEF ForkInv, KnowsForks
<4>2. CASE j = NewKey(r)
  BY <1>9, <2>4, <4>2 DEF BaseInv
<4> QED
  BY <1>1, <4>1, <4>2
<3>3. Checked(q) => KnowsForks(q)'
  BY <1>4, <3>2 DEF KnowsForks, NewKey
<3> QED
  BY <1>4, <2>1, <2>2, <3>1, <3>3
<2> QED
  BY <1>3, <2>3, <2>4
<1>11. ForkedByOverlapOnly'
<2> SUFFICES ASSUME NEW j \in DOMAIN made', NEW k \in DOMAIN made', j # k, made'[j].from # NoKey, made'[j].from = made'[k].from
             PROVE  {j[2], k[2]} \in overlap
  BY <1>4 DEF ForkedByOverlapOnly
<2>1. CASE j \in DOMAIN made /\ k \in DOMAIN made
  BY <1>1, <2>1 DEF ForkInv, ForkedByOverlapOnly
<2>2. CASE j \in DOMAIN made /\ k = NewKey(r)
  BY <1>1, <1>5, <1>6, <1>8, <1>9, <2>2
<2>3. CASE j = NewKey(r) /\ k \in DOMAIN made
<3>1. {k[2], j[2]} \in overlap
  BY <1>1, <1>5, <1>6, <1>8, <1>9, <2>3
<3> QED
  BY <3>1, Zenon
<2> QED
  BY <1>1, <2>1, <2>2, <2>3
<1> QED
  BY <1>7, <1>10, <1>11 DEF ForkInv

LEMMA StepFork == BaseInv /\ ForkInv /\ [Next]_vars => ForkInv'
<1> SUFFICES ASSUME BaseInv, ForkInv, [Next]_vars PROVE ForkInv'
  OBVIOUS
<1>1. CASE UNCHANGED vars
  BY <1>1 DEF vars, clients, history, ForkInv, ForkedByOverlapOnly, KnowsForks, Checked, Spent, Left, NewKey
<1>2. CASE \/ \E u \in Users : BeginLogin(u) \/ BeginCodeLogin(u)
           \/ \E k \in cookies : BeginRefresh(k)
           \/ \E op \in DOMAIN OwnPlan, k \in known : BeginOwn(op, k)
           \/ \E op \in DOMAIN AdminPlan, u \in Accounts : BeginAdmin(op, u)
  BY <1>2, BeginActions, ForkBegins
<1>3. CASE \E k \in access : Expire(k)
<2>1. Quiet /\ reqs' = reqs /\ refresh' = refresh
  BY <1>3 DEF Expire, Quiet, clients, history
<2> QED
  BY <2>1 DEF Quiet, ForkInv, ForkedByOverlapOnly, KnowsForks, Checked, Spent, Left, NewKey
<1>4. ASSUME NEW r \in reqs, Step(r) PROVE ForkInv'
<2>1. Ahead(r) => \E s : Goes(r, s) /\ (Left(s) = Left(r) - 1 \/ r.op \in Own)
  BY DEF Ahead, On
<2>2. (\E s : On(r, s)) => \E s : Goes(r, s) /\ (Left(s) = Left(r) - 1 \/ r.op \in Own)
  BY DEF On
<2>3. CASE GetUser(r) \/ LoadUser(r) \/ FillCache(r)
<3>1. Quiet /\ refresh' = refresh /\ r.op \in Own /\ (reqs' = reqs \ {r} \/ \E s : Goes(r, s))
  BY <2>3, EntryMoves
<3>2. r.op # "refresh"
  BY <3>1 DEF Own
<3> QED
  BY <3>1, <3>2, ForkPasses
<2>4. CASE Touch(r) \/ DropTokens(r) \/ DropRefresh(r)
<3>1. /\ Quiet /\ refresh' \subseteq refresh /\ r.op \in Makers /\ (r.op = "refresh" => Left(r) < 6)
      /\ reqs' = reqs \ {r} \/ \E s : Goes(r, s) /\ (Left(s) = Left(r) - 1 \/ r.op \in Own)
<4>1. CASE Touch(r)
  BY <2>2, <4>1, TouchMoves
<4>2. CASE DropTokens(r)
  BY <2>1, <4>2, DropMoves DEF StoreAt
<4>3. CASE DropRefresh(r)
<5>1. Left(r) \in Nat
  BY BaseOf DEF OnItsWay, Left
<5> QED
  BY <2>1, <4>3, <5>1, DropRefreshMoves DEF StoreAt
<4> QED
  BY <2>4, <4>1, <4>2, <4>3
<3> QED
  BY <3>1, ForkPasses
<2>5. CASE StoreToken(r)
  BY <2>5, ForkStores
<2>6. CASE StoreRefresh(r)
<3>1. Quiet /\ refresh' = refresh \union {NewKey(r)} /\ Ahead(r) /\ Left(r) < StoreAt(r.op)
  BY <2>6, StoreRefreshMoves
<3>2. r.op = "refresh" => Left(r) < 6
<4>1. Left(r) \in Nat
  BY BaseOf DEF OnItsWay, Left
<4> QED
  BY <3>1, <4>1 DEF StoreAt
<3>3. NewKey(r) \notin cookies
  BY DEF BaseInv, NewKey
<3> QED
  BY <2>1, <3>1, <3>2, <3>3, ForkPasses
<2>7. CASE CheckRefresh(r)
<3>1. /\ Quiet /\ refresh' = refresh /\ r.op = "refresh" /\ Left(r) = 7
      /\ (r.key \in refresh /\ Ahead(r)) \/ reqs' = reqs \ {r}
  BY <2>7, CheckMoves
<3>2. \A q \in reqs : (Spent(q) => q.key \in cookies \ refresh') /\ (Checked(q) => KnowsForks(q))
<4> SUFFICES ASSUME NEW q \in reqs PROVE (Spent(q) => q.key \in cookies \ refresh') /\ (Checked(q) => KnowsForks(q))
  OBVIOUS
<4>1. q.op = "refresh" => q.key \in cookies
  BY BaseOf DEF RequestOK
<4> QED
  BY <3>1, <4>1 DEF ForkInv, Spent
<3>3. CASE reqs' = reqs \ {r}
  BY <3>1, <3>2, <3>3, ForkKeeps DEF Quiet
<3>4. CASE r.key \in refresh /\ Ahead(r)
<4>1. PICK s : On(r, s)
  BY <3>4 DEF Ahead
<4>2. s.op = r.op /\ s.key = r.key /\ s.n = r.n /\ s.u = r.u /\ reqs' = (reqs \ {r}) \union {s} /\ Left(s) = 6
  BY <3>1, <4>1 DEF On, Goes, Same
<4>3. r.key # NoKey
<5>1. r.key[1] = r.u /\ r.u \in Users /\ 0 \notin Users
  BY <3>1, BaseOf, SessionsAssumption DEF RequestOK, Makers
<5> QED
  BY <5>1 DEF NoKey
<4>4. KnowsForks(s)
  BY <3>4, <4>2, <4>3 DEF KnowsForks, ForkInv
<4>5. ~Spent(s)
  BY <4>2 DEF Spent
<4>6. \A q \in reqs' : (Spent(q) => q.key \in cookies \ refresh') /\ (Checked(q) => KnowsForks(q))
  BY <3>2, <4>2, <4>4, <4>5
<4> QED
  BY <3>1, <4>6, ForkKeeps DEF Quiet
<3> QED
  BY <3>1, <3>3, <3>4
<2>8. CASE SpendRefresh(r)
<3>1. Quiet /\ refresh' \subseteq refresh /\ Ahead(r) /\ ((r.op = "refresh" /\ Left(r) = 6 /\ refresh' = refresh \ {r.key}) \/ r.op = "logout")
  BY <2>8, SpendMoves
<3>2. CASE r.op = "logout"
  BY <2>1, <3>1, <3>2, ForkPasses
<3>3. CASE r.op = "refresh" /\ Left(r) = 6 /\ refresh' = refresh \ {r.key}
<4>1. PICK s : On(r, s)
  BY <3>1 DEF Ahead
<4>2. s.op = r.op /\ s.key = r.key /\ s.n = r.n /\ s.u = r.u /\ reqs' = (reqs \ {r}) \union {s}
  BY <4>1 DEF On, Goes, Same
<4>3. KnowsForks(s) /\ s.key \in cookies \ refresh'
<5>1. Checked(r) /\ r.key \in cookies
  BY <3>3, BaseOf DEF Checked, RequestOK
<5> QED
  BY <3>3, <4>2, <5>1 DEF ForkInv, KnowsForks, NewKey
<4>4. ASSUME NEW q \in reqs PROVE (Spent(q) => q.key \in cookies \ refresh') /\ (Checked(q) => KnowsForks(q))
<5>1. q.op = "refresh" => q.key \in cookies
  BY BaseOf DEF RequestOK
<5> QED
  BY <3>1, <5>1 DEF ForkInv, Spent
<4>5. \A q \in reqs' : (Spent(q) => q.key \in cookies \ refresh') /\ (Checked(q) => KnowsForks(q))
  BY <4>2, <4>3, <4>4
<4> QED
  BY <3>1, <4>5, ForkKeeps DEF Quiet
<3> QED
  BY <3>1, <3>2, <3>3
<2>9. CASE RevokeToken(r)
<3>1. Quiet /\ refresh' = refresh /\ Ahead(r) /\ ((r.op = "refresh" /\ Left(r) = 5) \/ r.op \in {"logout", "kick"})
  BY <2>9, RevokeMoves
<3> QED
  BY <2>1, <3>1, ForkPasses
<2>10. CASE ReadRow(r) \/ WriteRow(r)
<3>1. Quiet /\ refresh' = refresh /\ r.op \in Changers /\ (reqs' = reqs \ {r} \/ \E s : On(r, s))
  BY <2>10, RowMoves
<3>2. r.op # "refresh"
  BY <3>1 DEF Changers
<3> QED
  BY <2>2, <3>1, <3>2, ForkPasses
<2>11. CASE DropOthers(r) \/ ClearCache(r) \/ Purge(r)
<3>1. Quiet /\ refresh' \subseteq refresh /\ Ahead(r) /\ r.op \in Changers
  BY <2>11, DropOthersMoves, ClearMoves, PurgeMoves DEF Changers, Credentials
<3>2. r.op # "refresh"
  BY <3>1 DEF Changers
<3> QED
  BY <2>1, <3>1, <3>2, ForkPasses
<2>12. CASE Finish(r) \/ Die(r)
<3>1. reqs' = reqs \ {r} /\ refresh' = refresh /\ made' = made /\ overlap' = overlap /\ cookies \subseteq cookies'
  BY <2>12, FinishMoves, DieMoves DEF Quiet
<3>2. \A q \in reqs : (Spent(q) => q.key \in cookies \ refresh') /\ (Checked(q) => KnowsForks(q))
<4> SUFFICES ASSUME NEW q \in reqs PROVE (Spent(q) => q.key \in cookies \ refresh') /\ (Checked(q) => KnowsForks(q))
  OBVIOUS
<4>1. q.op = "refresh" => q.key \in cookies
  BY BaseOf DEF RequestOK
<4> QED
  BY <3>1, <4>1 DEF ForkInv, Spent
<3> QED
  BY <3>1, <3>2, ForkKeeps
<2> QED
  BY <1>4, <2>3, <2>4, <2>5, <2>6, <2>7, <2>8, <2>9, <2>10, <2>11, <2>12, Zenon DEF Step
<1> QED
  BY <1>1, <1>2, <1>3, <1>4, Zenon DEF Next

\* A refresh token makes two sessions only for two requests that were in
\* progress together (jwt.create_new_token checks the token and deletes it
\* with two commands).
THEOREM ForksOverlap == Spec => []ForkedByOverlapOnly
<1>1. Init => BaseInv /\ ForkInv
  BY InitBase, InitFork
<1>2. (BaseInv /\ ForkInv) /\ [Next]_vars => (BaseInv /\ ForkInv)'
  BY StepBase, StepFork
<1>3. BaseInv /\ ForkInv => ForkedByOverlapOnly
  BY DEF ForkInv
<1> QED
  BY <1>1, <1>2, <1>3, PTL DEF Spec

-----------------------------------------------------------------------------
(* A change of the credentials ends the sessions.                          *)

\* The changes of u's row that came after the first since and end sessions
\* overlapped one of the requests in line.
Explained(u, since, line) ==
    \A i \in since + 1 .. Len(commits[u]) :
        commits[u][i].ends => \E n \in line : {n, commits[u][i].by} \in overlap

\* What a request that will make a session knows is explained; a refresh has
\* found its token first.
MakerKnows(r) == r.op \in Makers /\ (r.op = "refresh" => Checked(r)) => Explained(r.u, r.since, r.line)
Descends(r) == r.op = "refresh" => r.since = made[r.key].since /\ made[r.key].line \subseteq r.line
\* The sessions among keys that the change of q has not ended were stored
\* while it was in progress.
Purged(q, keys) == \A k \in keys : k[1] = q.u => k[2] \in made[k].line /\ {k[2], q.n} \in overlap
HasPurged(q, keys, rkeys) ==
    q.op \in Credentials /\ q.lock => (Left(q) <= 2 => Purged(q, keys)) /\ (Left(q) <= 1 => Purged(q, rkeys))

CredInv ==
    /\ \A k \in access \union refresh : Explained(k[1], made[k].since, made[k].line)
    /\ \A r \in reqs : MakerKnows(r) /\ Descends(r) /\ HasPurged(r, access, refresh)

LEMMA InitCred == Init => CredInv
<1> SUFFICES ASSUME Init PROVE CredInv
  OBVIOUS
<1>1. reqs = {} /\ access \union refresh = Users \X {0}
  BY DEF Init
<1>2. ASSUME NEW k \in Users \X {0} PROVE Explained(k[1], made[k].since, made[k].line)
<2>1. k[1] \in Accounts /\ commits = [u \in Accounts |-> <<>>] /\ made[k].since = 0
  BY DEF Init, Accounts
<2>2. Len(commits[k[1]]) = 0
  BY <2>1
<2> QED
  BY <2>1, <2>2 DEF Explained
<1> QED
  BY <1>1, <1>2 DEF CredInv

LEMMA ExplainedStays ==
    ASSUME NEW u, NEW since, NEW line, NEW sup, Explained(u, since, line), line \subseteq sup,
           commits' = commits, overlap \subseteq overlap'
    PROVE  Explained(u, since, sup)'
<1> SUFFICES ASSUME NEW i \in since + 1 .. Len(commits[u]), commits[u][i].ends
             PROVE  \E n \in sup : {n, commits[u][i].by} \in overlap'
  BY DEF Explained
<1>1. PICK n \in line : {n, commits[u][i].by} \in overlap
  BY DEF Explained
<1> QED
  BY <1>1

\* No session is made or stored, no change committed.
LEMMA CredKeeps ==
    ASSUME BaseInv, CredInv, made' = made, commits' = commits, overlap \subseteq overlap',
           access' \subseteq access, refresh' \subseteq refresh,
           \A s \in reqs' : MakerKnows(s) /\ Descends(s) /\ HasPurged(s, access', refresh')
    PROVE  CredInv'
<1>1. ASSUME NEW k \in access' \union refresh' PROVE Explained(k[1], made[k].since, made[k].line)'
<2>1. Explained(k[1], made[k].since, made[k].line)
  BY DEF CredInv
<2>2. made'[k] = made[k]
  OBVIOUS
<2> QED
  BY <2>1, <2>2 DEF Explained
<1>2. ASSUME NEW s \in reqs' PROVE MakerKnows(s)' /\ Descends(s)' /\ HasPurged(s, access, refresh)'
<2>1. MakerKnows(s) /\ Descends(s) /\ HasPurged(s, access', refresh')
  OBVIOUS
<2>2. MakerKnows(s)'
  BY <2>1, ExplainedStays DEF MakerKnows, Checked, Left
<2>3. Descends(s)'
  BY <2>1 DEF Descends
<2>4. HasPurged(s, access, refresh)'
  BY <2>1 DEF HasPurged, Purged, Left
<2> QED
  BY <2>2, <2>3, <2>4
<1> QED
  BY <1>1, <1>2 DEF CredInv

LEMMA CredPasses ==
    ASSUME BaseInv, CredInv, Quiet, access' \subseteq access, refresh' \subseteq refresh, NEW r \in reqs,
           \/ reqs' = reqs \ {r}
           \/ \E s : Goes(r, s) /\ (Checked(s) => Checked(r)) /\ HasPurged(s, access', refresh')
    PROVE  CredInv'
<1>1. \A q \in reqs : MakerKnows(q) /\ Descends(q) /\ HasPurged(q, access', refresh')
  BY DEF CredInv, HasPurged, Purged
<1>2. made' = made /\ commits' = commits /\ overlap' = overlap
  BY DEF Quiet
<1>3. CASE reqs' = reqs \ {r}
  BY <1>1, <1>2, <1>3, CredKeeps
<1>4. CASE \E s : Goes(r, s) /\ (Checked(s) => Checked(r)) /\ HasPurged(s, access', refresh')
<2>1. PICK s : Goes(r, s) /\ (Checked(s) => Checked(r)) /\ HasPurged(s, access', refresh')
  BY <1>4
<2>2. reqs' = (reqs \ {r}) \union {s} /\ s.n = r.n /\ s.op = r.op /\ s.u = r.u /\ s.key = r.key /\ s.since = r.since /\ s.line = r.line
  BY <2>1 DEF Goes, Same
<2>3. MakerKnows(s) /\ Descends(s)
  BY <1>1, <2>1, <2>2 DEF MakerKnows, Descends
<2>4. \A q \in reqs' : MakerKnows(q) /\ Descends(q) /\ HasPurged(q, access', refresh')
  BY <1>1, <2>1, <2>2, <2>3
<2> QED
  BY <1>2, <2>4, CredKeeps
<1> QED
  BY <1>3, <1>4

LEMMA CredBegins ==
    ASSUME BaseInv, CredInv, NEW op, NEW u, NEW key, NEW steps, NEW multi, NEW since, NEW line,
           Begin(op, u, key, steps, multi, since, line), BeginsWith(op, u, key, steps, since, line),
           op \in Makers \ {"refresh"} => since = Len(commits[u]),
           op = "refresh" => since = made[key].since /\ line = made[key].line \union {started + 1}
    PROVE  CredInv'
<1>1. PICK s : Begun(s, op, u, key, steps, multi, since, line)
  BY BeginMakes
<1>2. made' = made /\ commits' = commits /\ overlap \subseteq overlap' /\ access' = access /\ refresh' = refresh
  BY DEF Begin, clients
<1>3. s.op = op /\ s.u = u /\ s.key = key /\ s.todo = steps /\ s.since = since /\ s.line = line /\ s.lock = FALSE
      /\ reqs' = reqs \union {s}
  BY <1>1 DEF Begun
<1>4. MakerKnows(s)
<2>1. CASE op = "refresh"
<3>1. steps = RefreshPlan /\ Len(RefreshPlan) = 7
  BY <2>1 DEF BeginsWith, Own, PlanOf, RefreshPlan
<3>2. ~Checked(s)
  BY <1>3, <3>1 DEF Checked, Left
<3> QED
  BY <1>3, <2>1, <3>2 DEF MakerKnows
<2>2. CASE op \in Makers \ {"refresh"}
<3>1. since = Len(commits[u]) /\ Len(commits[u]) \in Nat
  BY <2>2 DEF BeginsWith
<3>2. Explained(u, since, line)
  BY <3>1 DEF Explained
<3> QED
  BY <1>3, <3>2 DEF MakerKnows
<2>3. CASE op \notin Makers
  BY <1>3, <2>3 DEF MakerKnows
<2> QED
  BY <2>1, <2>2, <2>3
<1>5. Descends(s) /\ HasPurged(s, access', refresh')
  BY <1>3 DEF Descends, HasPurged
<1>6. \A q \in reqs : MakerKnows(q) /\ Descends(q) /\ HasPurged(q, access', refresh')
  BY <1>2 DEF CredInv
<1>7. \A q \in reqs' : MakerKnows(q) /\ Descends(q) /\ HasPurged(q, access', refresh')
  BY <1>3, <1>4, <1>5, <1>6
<1> QED
  BY <1>2, <1>7, CredKeeps

\* A session is made, or its refresh token stored.
LEMMA CredStores ==
    ASSUME BaseInv, CredInv, NEW r \in reqs, StoreToken(r) \/ StoreRefresh(r)
    PROVE  CredInv'
<1>1. /\ r.op \in Makers /\ (r.op = "refresh" => Checked(r))
      /\ DOMAIN made' = DOMAIN made \union {NewKey(r)} /\ \A j \in DOMAIN made : made'[j] = made[j]
      /\ made'[NewKey(r)].since = r.since /\ made'[NewKey(r)].line = r.line
      /\ \E s : Goes(r, s) /\ Left(s) = Left(r) - 1
      /\ access' \subseteq access \union {NewKey(r)} /\ refresh' \subseteq refresh \union {NewKey(r)}
      /\ commits' = commits /\ overlap' = overlap /\ Left(r) \in Nat
<2>1. CASE StoreToken(r)
<3>1. /\ r.op \in Makers /\ Left(r) = StoreAt(r.op) /\ made'[NewKey(r)] = Stored(r)
      /\ DOMAIN made' = DOMAIN made \union {NewKey(r)} /\ \A j \in DOMAIN made : made'[j] = made[j]
      /\ \E s : Goes(r, s) /\ Left(s) = Left(r) - 1
  BY <2>1, StoreGoes
<3>2. access' = access \union {NewKey(r)} /\ refresh' = refresh /\ commits' = commits /\ overlap' = overlap
  BY <2>1 DEF StoreToken
<3>3. Left(r) \in Nat /\ (r.op = "refresh" => Left(r) < 7)
  BY <3>1 DEF StoreAt
<3>4. made'[NewKey(r)].since = r.since /\ made'[NewKey(r)].line = r.line
  BY <3>1 DEF Stored
<3> QED
  BY <3>1, <3>2, <3>3, <3>4 DEF Checked
<2>2. CASE StoreRefresh(r)
<3>1. /\ Quiet /\ access' = access /\ refresh' = refresh \union {NewKey(r)} /\ Ahead(r)
      /\ r.op \in Makers /\ Left(r) < StoreAt(r.op) /\ NewKey(r) \in DOMAIN made
  BY <2>2, StoreRefreshMoves
<3>2. Left(r) \in Nat
  BY BaseOf DEF OnItsWay, Left
<3>3. r.op = "refresh" => Left(r) < 7
  BY <3>1, <3>2 DEF StoreAt
<3>4. made[NewKey(r)].since = r.since /\ made[NewKey(r)].line = r.line
  BY <3>1, BaseOf DEF MadeOK
<3> QED
  BY <3>1, <3>2, <3>3, <3>4 DEF Checked, Quiet, Ahead, On
<2> QED
  BY <2>1, <2>2
<1>2. PICK s : Goes(r, s) /\ Left(s) = Left(r) - 1
  BY <1>1
<1>3. reqs' = (reqs \ {r}) \union {s} /\ s.n = r.n /\ s.op = r.op /\ s.u = r.u /\ s.key = r.key /\ s.since = r.since /\ s.line = r.line
  BY <1>2 DEF Goes, Same
<1>4. Explained(r.u, r.since, r.line)
  BY <1>1 DEF CredInv, MakerKnows
<1>5. r.n \in r.line /\ NewKey(r)[1] = r.u /\ NewKey(r)[2] = r.n
  BY <1>1, BaseOf DEF RequestOK, NewKey
<1>6. access \subseteq DOMAIN made /\ refresh \subseteq DOMAIN made
  BY DEF BaseInv
<1>7. ASSUME NEW k \in access' \union refresh' PROVE Explained(k[1], made[k].since, made[k].line)'
<2>1. CASE k = NewKey(r)
<3>1. k[1] = r.u /\ made'[k].since = r.since /\ made'[k].line = r.line
  BY <1>1, <1>5, <2>1
<3> QED
  BY <1>1, <1>4, <3>1 DEF Explained
<2>2. CASE k # NewKey(r)
<3>1. made'[k] = made[k] /\ k \in access \union refresh
  BY <1>1, <1>6, <2>2
<3>2. Explained(k[1], made[k].since, made[k].line)
  BY <3>1 DEF CredInv
<3> QED
  BY <1>1, <3>1, <3>2 DEF Explained
<2> QED
  BY <2>1, <2>2
<1>8. ASSUME NEW q \in reqs, q # r PROVE MakerKnows(q)' /\ Descends(q)' /\ HasPurged(q, access, refresh)'
<2>1. MakerKnows(q) /\ Descends(q) /\ HasPurged(q, access, refresh)
  BY DEF CredInv
<2>2. MakerKnows(q)'
  BY <1>1, <2>1 DEF MakerKnows, Explained, Checked, Left
<2>3. Descends(q)'
<3>1. q.op = "refresh" => q.key \in DOMAIN made
  BY BaseOf DEF RequestOK, BaseInv
<3> QED
  BY <1>1, <2>1, <3>1 DEF Descends
<2>4. ASSUME NEW keys, keys \subseteq DOMAIN made, NEW more, more \subseteq keys \union {NewKey(r)}, Purged(q, keys),
             NEW k \in more, k[1] = q.u
      PROVE  k[2] \in made'[k].line /\ {k[2], q.n} \in overlap
<3>1. CASE k \in keys
  BY <1>1, <2>4, <3>1 DEF Purged
<3>2. CASE k = NewKey(r)
<4>1. {r.n, q.n} \in overlap
  BY <1>8 DEF BaseInv
<4> QED
  BY <1>1, <1>5, <3>2, <4>1
<3> QED
  BY <2>4, <3>1, <3>2
<2>5. HasPurged(q, access, refresh)'
<3>1. Purged(q, access) => Purged(q, access)'
  BY <1>1, <1>6, <2>4 DEF Purged
<3>2. Purged(q, refresh) => Purged(q, refresh)'
  BY <1>1, <1>6, <2>4 DEF Purged
<3>3. q.op \in Credentials /\ q.lock => (Left(q) <= 2 => Purged(q, access)') /\ (Left(q) <= 1 => Purged(q, refresh)')
  BY <2>1, <3>1, <3>2 DEF HasPurged
<3> QED
  BY <3>3, Zenon DEF HasPurged, Left
<2> QED
  BY <2>2, <2>3, <2>5
<1>9. MakerKnows(s)'
  BY <1>1, <1>3, <1>4 DEF MakerKnows, Explained
<1>10. Descends(s)'
<2>1. s.op = "refresh" => s.key \in DOMAIN made /\ Descends(r)
  BY <1>3, BaseOf DEF RequestOK, BaseInv, CredInv
<2> QED
  BY <1>1, <1>3, <2>1 DEF Descends
<1>11. HasPurged(s, access, refresh)'
<2>1. s.op \notin Credentials
  BY <1>1, <1>3 DEF Makers, Credentials
<2> QED
  BY <2>1 DEF HasPurged
<1> QED
  BY <1>3, <1>7, <1>8, <1>9, <1>10, <1>11 DEF CredInv

\* A change is committed.
LEMMA CredFinishes ==
    ASSUME BaseInv, CredInv, NEW r \in reqs, Finish(r)
    PROVE  CredInv'
<1>1. /\ reqs' = reqs \ {r} /\ Left(r) = 0 /\ access' = access /\ refresh' = refresh /\ overlap' = overlap /\ made' = made
      /\ \/ commits' = commits
         \/ /\ r.lock /\ r.op \in Changers
            /\ commits' = [commits EXCEPT ![r.u] = Append(@, [by |-> r.n, ends |-> r.op \in Credentials])]
  BY FinishMoves
<1>2. CASE commits' = commits
<2>1. \A q \in reqs' : MakerKnows(q) /\ Descends(q) /\ HasPurged(q, access', refresh')
  BY <1>1 DEF CredInv
<2> QED
  BY <1>1, <1>2, <2>1, CredKeeps
<1>3. CASE /\ r.lock /\ r.op \in Changers
           /\ commits' = [commits EXCEPT ![r.u] = Append(@, [by |-> r.n, ends |-> r.op \in Credentials])]
<2> DEFINE c == [by |-> r.n, ends |-> r.op \in Credentials]
           C == [by : Nat, ends : BOOLEAN]
           L == Len(commits[r.u])
<2>1. commits \in [Accounts -> Seq(C)] /\ r.u \in Accounts /\ r.n \in Nat /\ \A q \in reqs : q.u \in Accounts /\ q.since \in Nat
  BY BaseOf DEF BaseInv, RequestOK
<2>2. c.by = r.n /\ c.ends = (r.op \in Credentials)
  OBVIOUS
<2>3. /\ \A u \in Accounts \ {r.u} : commits'[u] = commits[u]
      /\ commits'[r.u] = Append(commits[r.u], c)
  BY <1>3, <2>1
<2>4. commits[r.u] \in Seq(C)
  BY <2>1
<2> HIDE DEF c, C
<2>5. L \in Nat /\ Len(commits'[r.u]) = L + 1 /\ commits'[r.u][L + 1] = c /\ \A i \in 1 .. L : commits'[r.u][i] = commits[r.u][i]
  BY <2>3, <2>4
\* What is explained before and has a request that overlapped r is explained.
<2>6. ASSUME NEW u \in Accounts, NEW since \in Nat, NEW line, Explained(u, since, line),
             u = r.u /\ r.op \in Credentials => \E n \in line : {n, r.n} \in overlap
      PROVE  Explained(u, since, line)'
<3>1. CASE u # r.u
  BY <1>1, <2>3, <2>6, <3>1 DEF Explained
<3>2. CASE u = r.u
<4> SUFFICES ASSUME NEW i \in since + 1 .. Len(commits'[r.u]), commits'[r.u][i].ends
             PROVE  \E n \in line : {n, commits'[r.u][i].by} \in overlap
  BY <1>1, <3>2 DEF Explained
<4>1. CASE i = L + 1
<5>1. commits'[r.u][i].by = r.n /\ r.op \in Credentials
  BY <2>2, <2>5, <4>1, Zenon
<5> QED
  BY <2>6, <3>2, <5>1
<4>2. CASE i # L + 1
<5>1. i \in 1 .. L /\ i \in since + 1 .. L
  BY <2>5, <4>2
<5>2. commits'[r.u][i] = commits[r.u][i]
  BY <2>5, <5>1
<5> QED
  BY <2>6, <3>2, <5>1, <5>2 DEF Explained
<4> QED
  BY <4>1, <4>2
<3> QED
  BY <3>1, <3>2
<2>7. ASSUME NEW k \in access' \union refresh' PROVE Explained(k[1], made[k].since, made[k].line)'
<3>1. k \in access \union refresh /\ made'[k] = made[k] /\ k[1] \in Accounts /\ made[k].since \in Nat
  BY <1>1 DEF BaseInv, KeyOK, Accounts
<3>2. Explained(k[1], made[k].since, made[k].line)
  BY <3>1 DEF CredInv
<3>3. k[1] = r.u /\ r.op \in Credentials => k[2] \in made[k].line /\ {k[2], r.n} \in overlap
  BY <1>1, <1>3, <3>1 DEF CredInv, HasPurged, Purged
<3>4. PICK since \in Nat, line \in {made[k].line} : since = made[k].since
  BY <3>1
<3>5. Explained(k[1], since, line)'
<4>1. k[1] = r.u /\ r.op \in Credentials => \E n \in line : {n, r.n} \in overlap
  BY <3>3, <3>4
<4> QED
  BY <2>6, <3>1, <3>2, <3>4, <4>1
<3>6. since = made'[k].since /\ line = made'[k].line
  BY <3>1, <3>4
<3> QED
  BY <3>5, <3>6 DEF Explained
<2>8. ASSUME NEW q \in reqs' PROVE MakerKnows(q)' /\ Descends(q)' /\ HasPurged(q, access, refresh)'
<3>1. q \in reqs /\ q # r /\ MakerKnows(q) /\ Descends(q) /\ HasPurged(q, access, refresh)
  BY <1>1 DEF CredInv
<3>2. MakerKnows(q)'
<4>1. q.op \in Makers => q.n \in q.line /\ {q.n, r.n} \in overlap
  BY <3>1, BaseOf DEF RequestOK, BaseInv
<4>2. Explained(q.u, q.since, q.line) /\ q.op \in Makers => Explained(q.u, q.since, q.line)'
  BY <2>1, <2>6, <3>1, <4>1
<4> QED
  BY <3>1, <4>2, Zenon DEF MakerKnows, Checked, Left
<3>3. Descends(q)' /\ HasPurged(q, access, refresh)'
  BY <1>1, <3>1 DEF Descends, HasPurged, Purged, Left
<3> QED
  BY <3>2, <3>3
<2> QED
  BY <2>7, <2>8 DEF CredInv
<1> QED
  BY <1>1, <1>2, <1>3

LEMMA StepCred == BaseInv /\ CredInv /\ [Next]_vars => CredInv'
<1> SUFFICES ASSUME BaseInv, CredInv, [Next]_vars PROVE CredInv'
  OBVIOUS
<1>1. CASE UNCHANGED vars
<2>1. Quiet /\ reqs' = reqs /\ access' = access /\ refresh' = refresh
  BY <1>1 DEF vars, clients, history, Quiet
<2> QED
  BY <2>1, CredKeeps DEF Quiet, CredInv
<1>2. CASE \/ \E u \in Users : BeginLogin(u) \/ BeginCodeLogin(u)
           \/ \E k \in cookies : BeginRefresh(k)
           \/ \E op \in DOMAIN OwnPlan, k \in known : BeginOwn(op, k)
           \/ \E op \in DOMAIN AdminPlan, u \in Accounts : BeginAdmin(op, u)
  BY <1>2, BeginActions, CredBegins
<1>3. CASE \E k \in access : Expire(k)
<2>1. Quiet /\ reqs' = reqs /\ access' \subseteq access /\ refresh' = refresh
  BY <1>3 DEF Expire, Quiet, clients, history
<2>2. \A q \in reqs : MakerKnows(q) /\ Descends(q) /\ HasPurged(q, access', refresh')
  BY <2>1 DEF CredInv, HasPurged, Purged
<2> QED
  BY <2>1, <2>2, CredKeeps DEF Quiet
<1>4. ASSUME NEW r \in reqs, Step(r) PROVE CredInv'
<2>0. Left(r) \in Nat
  BY BaseOf DEF OnItsWay, Left
\* A step of a request that does not change credentials.
<2>1. ASSUME Quiet, access' \subseteq access, refresh' \subseteq refresh, r.op \notin Credentials,
             r.op = "refresh" => Checked(r),
             reqs' = reqs \ {r} \/ \E s : Goes(r, s)
      PROVE  CredInv'
<3>1. ASSUME NEW s, Goes(r, s) PROVE (Checked(s) => Checked(r)) /\ HasPurged(s, access', refresh')
<4>1. s.op = r.op
  BY <3>1 DEF Goes, Same
<4> QED
  BY <2>1, <4>1 DEF Checked, HasPurged
<3> QED
  BY <2>1, <3>1, CredPasses
<2>2. Ahead(r) => \E s : Goes(r, s)
  BY DEF Ahead, On
<2>3. (\E s : On(r, s)) => \E s : Goes(r, s)
  BY DEF On
<2>4. CASE GetUser(r) \/ LoadUser(r) \/ FillCache(r)
<3>1. Quiet /\ access' = access /\ refresh' = refresh /\ r.op \in Own /\ (reqs' = reqs \ {r} \/ \E s : Goes(r, s) /\ ~s.lock)
  BY <2>4, EntryMoves
<3>2. \A s : Goes(r, s) /\ ~s.lock => Goes(r, s) /\ (Checked(s) => Checked(r)) /\ HasPurged(s, access', refresh')
<4>1. r.op # "refresh"
  BY <3>1 DEF Own
<4> QED
  BY <4>1 DEF HasPurged, Checked, Goes, Same
<3> QED
  BY <3>1, <3>2, CredPasses
<2>5. CASE Touch(r) \/ DropTokens(r) \/ DropRefresh(r)
<3>1. Quiet /\ access' \subseteq access /\ refresh' \subseteq refresh /\ r.op \in Makers
      /\ (reqs' = reqs \ {r} \/ \E s : Goes(r, s))
  BY <2>2, <2>3, <2>5, TouchMoves, DropMoves, DropRefreshMoves
<3>2. r.op = "refresh" => Left(r) < 7
  BY <2>0, <2>5, TouchMoves, DropMoves, DropRefreshMoves DEF StoreAt
<3>3. r.op \notin Credentials
  BY <3>1 DEF Makers, Credentials
<3> QED
  BY <2>1, <3>1, <3>2, <3>3 DEF Checked
<2>6. CASE StoreToken(r) \/ StoreRefresh(r)
  BY <2>6, CredStores
<2>7. CASE CheckRefresh(r)
<3>1. /\ Quiet /\ access' = access /\ refresh' = refresh /\ r.op = "refresh" /\ Left(r) = 7
      /\ (r.key \in refresh /\ Ahead(r)) \/ reqs' = reqs \ {r}
  BY <2>7, CheckMoves
<3>2. \A q \in reqs : MakerKnows(q) /\ Descends(q) /\ HasPurged(q, access', refresh')
  BY <3>1 DEF CredInv
<3>3. CASE reqs' = reqs \ {r}
  BY <3>1, <3>2, <3>3, CredKeeps DEF Quiet
<3>4. CASE r.key \in refresh /\ Ahead(r)
<4>1. PICK s : On(r, s)
  BY <3>4 DEF Ahead
<4>2. reqs' = (reqs \ {r}) \union {s} /\ s.n = r.n /\ s.op = r.op /\ s.u = r.u /\ s.key = r.key /\ s.since = r.since /\ s.line = r.line
  BY <4>1 DEF On, Goes, Same
\* The token it has found is explained, and the new session descends from it.
<4>3. Explained(s.u, s.since, s.line)
<5>1. Explained(r.key[1], made[r.key].since, made[r.key].line)
  BY <3>4 DEF CredInv
<5>2. r.key[1] = r.u /\ r.since = made[r.key].since /\ made[r.key].line \subseteq r.line
  BY <3>1, BaseOf DEF RequestOK, CredInv, Descends
<5> QED
  BY <4>2, <5>1, <5>2 DEF Explained
<4>4. MakerKnows(s) /\ Descends(s) /\ HasPurged(s, access', refresh')
<5>1. s.op \notin Credentials
  BY <3>1, <4>2 DEF Credentials
<5> QED
  BY <3>2, <4>2, <4>3, <5>1 DEF MakerKnows, Descends, HasPurged
<4>5. \A q \in reqs' : MakerKnows(q) /\ Descends(q) /\ HasPurged(q, access', refresh')
  BY <3>2, <4>2, <4>4
<4> QED
  BY <3>1, <4>5, CredKeeps DEF Quiet
<3> QED
  BY <3>1, <3>3, <3>4
<2>8. CASE SpendRefresh(r) \/ RevokeToken(r)
<3>1. Quiet /\ access' \subseteq access /\ refresh' \subseteq refresh /\ Ahead(r)
      /\ ((r.op = "refresh" /\ Left(r) \in {5, 6}) \/ r.op \in {"logout", "kick"})
  BY <2>8, SpendMoves, RevokeMoves
<3>2. r.op \notin Credentials /\ (r.op = "refresh" => Left(r) < 7)
  BY <3>1 DEF Credentials
<3> QED
  BY <2>1, <2>2, <3>1, <3>2 DEF Checked
<2>9. CASE ReadRow(r) \/ WriteRow(r)
<3>1. /\ Quiet /\ access' = access /\ refresh' = refresh /\ r.op \in Changers /\ (r.op \in Credentials => Left(r) > 3)
      /\ (reqs' = reqs \ {r} \/ \E s : On(r, s))
  BY <2>9, RowMoves
<3>2. \A s : On(r, s) => Goes(r, s) /\ (Checked(s) => Checked(r)) /\ HasPurged(s, access', refresh')
<4> SUFFICES ASSUME NEW s, On(r, s) PROVE Goes(r, s) /\ (Checked(s) => Checked(r)) /\ HasPurged(s, access', refresh')
  OBVIOUS
<4>1. Goes(r, s) /\ s.op = r.op /\ Left(s) = Left(r) - 1 /\ r.op # "refresh"
  BY <3>1 DEF On, Goes, Same, Changers
<4>2. s.op \in Credentials => ~(Left(s) <= 2) /\ ~(Left(s) <= 1)
  BY <2>0, <3>1, <4>1
<4> QED
  BY <4>1, <4>2 DEF Checked, HasPurged
<3> QED
  BY <3>1, <3>2, CredPasses
<2>10. CASE DropOthers(r) \/ ClearCache(r)
<3>1. Quiet /\ access' \subseteq access /\ refresh' = refresh /\ Ahead(r) /\ r.op \notin Credentials /\ r.op \in Changers
  BY <2>10, DropOthersMoves, ClearMoves DEF Changers, Credentials
<3>2. r.op # "refresh"
  BY <3>1 DEF Changers
<3> QED
  BY <2>1, <2>2, <3>1, <3>2
<2>11. CASE Purge(r)
<3>1. /\ Quiet /\ Ahead(r) /\ r.op \in Credentials
      /\ \/ Left(r) = 3 /\ access' = access \ PrefixKeys(access, r.u) /\ refresh' = refresh
         \/ Left(r) = 2 /\ refresh' = refresh \ PrefixKeys(refresh, r.u) /\ access' = access
         \/ Left(r) = 1 /\ access' = access /\ refresh' = refresh
  BY <2>11, PurgeMoves
<3>2. PICK s : On(r, s) /\ s.lock = r.lock
  BY <3>1 DEF Ahead
<3>3. Goes(r, s) /\ s.op = r.op /\ s.u = r.u /\ s.n = r.n /\ Left(s) = Left(r) - 1 /\ r.op # "refresh"
  BY <3>1, <3>2 DEF On, Goes, Same, Credentials
<3>4. access' \subseteq access /\ refresh' \subseteq refresh
  BY <3>1
<3>5. \A keys : Purged(r, keys) => Purged(s, keys)
  BY <3>3 DEF Purged
<3>6. \A keys : Purged(s, keys \ PrefixKeys(keys, r.u))
  BY <3>3 DEF Purged, PrefixKeys, HasPrefix
<3>7. HasPurged(r, access, refresh)
  BY DEF CredInv
<3>8. HasPurged(s, access', refresh')
<4>1. CASE Left(r) = 3 /\ access' = access \ PrefixKeys(access, r.u)
<5>1. Left(s) = 2 /\ Purged(s, access')
  BY <3>3, <3>6, <4>1
<5> QED
  BY <5>1 DEF HasPurged
<4>2. CASE Left(r) = 2 /\ refresh' = refresh \ PrefixKeys(refresh, r.u) /\ access' = access
<5>1. Left(s) = 1 /\ Purged(s, refresh')
  BY <3>3, <3>6, <4>2
<5> QED
  BY <3>2, <3>3, <3>5, <3>7, <4>2, <5>1 DEF HasPurged
<4>3. CASE Left(r) = 1 /\ access' = access /\ refresh' = refresh
  BY <3>2, <3>3, <3>5, <3>7, <4>3 DEF HasPurged
<4> QED
  BY <3>1, <4>1, <4>2, <4>3
<3> QED
  BY <3>1, <3>3, <3>4, <3>8, CredPasses DEF Checked
<2>12. CASE Finish(r)
  BY <2>12, CredFinishes
<2>13. CASE Die(r)
  BY <2>13, DieMoves, CredPasses
<2> QED
  BY <1>4, <2>4, <2>5, <2>6, <2>7, <2>8, <2>9, <2>10, <2>11, <2>12, <2>13, Zenon DEF Step
<1> QED
  BY <1>1, <1>2, <1>3, <1>4, Zenon DEF Next

\* A session opened from the row as it was before a password change or a
\* deletion lives on only if a request it descends from was in progress
\* together with the change (user_service's three delete_prefix calls).
THEOREM CredentialsEndSessions == Spec => []CredentialChangesEndSessions
<1>1. Init => BaseInv /\ CredInv
  BY InitBase, InitCred
<1>2. (BaseInv /\ CredInv) /\ [Next]_vars => (BaseInv /\ CredInv)'
  BY StepBase, StepCred
<1>3. BaseInv /\ CredInv => CredentialChangesEndSessions
  BY DEF CredInv, Explained, CredentialChangesEndSessions, Overlapped
<1> QED
  BY <1>1, <1>2, <1>3, PTL DEF Spec

-----------------------------------------------------------------------------
(* A cached user is stale only by changes that overlap.                    *)

Seen(u, by, since) == \A i \in since + 1 .. Len(commits[u]) : {by, commits[u][i].by} \in overlap

CachedSeen(u) == cache[u] # NotCached => cache[u].since \in Nat /\ Seen(u, cache[u].by, cache[u].since)
SnapSeen(r) == r.todo = <<"fill">> => r.snap.by = r.n /\ r.snap.since \in Nat /\ Seen(r.key[1], r.n, r.snap.since)
\* A request about to commit has emptied the cache; who filled it since was
\* in progress with it.
HasCleared(q, c) ==
    q.op \in Changers /\ q.lock /\ Left(q) = 0 /\ q.u \in Users /\ c[q.u] # NotCached => {c[q.u].by, q.n} \in overlap

StaleInv ==
    /\ DOMAIN cache = Users /\ \A u \in Users : CachedSeen(u)
    /\ \A r \in reqs : SnapSeen(r) /\ HasCleared(r, cache)

LEMMA InitStale == Init => StaleInv
  BY DEF Init, StaleInv, CachedSeen

LEMMA HandlersAreNoEntry == ASSUME NEW op \in Ops, NEW todo, Follows(op, todo) PROVE todo # <<"fill">>
<1> SUFFICES ASSUME todo = <<"fill">> PROVE FALSE
  OBVIOUS
<1>1. Len(todo) = 1 /\ todo[1] = "fill"
  OBVIOUS
<1>2. Len(PlanOf(op)) \in Nat
  BY PlansAreSequences
<1>3. 1 <= Len(PlanOf(op)) /\ todo[1] = PlanOf(op)[1 + Len(PlanOf(op)) - 1]
  BY <1>1, <1>2 DEF Follows
<1>4. Takes(op, PlanOf(op)[1 + Len(PlanOf(op)) - 1], 1)
  BY <1>2, <1>3, PlanTable
<1> QED
  BY <1>1, <1>3, <1>4 DEF Takes

LEMMA StaleKeeps ==
    ASSUME BaseInv, StaleInv, commits' = commits, overlap \subseteq overlap', DOMAIN cache' = Users,
           \A u \in Users : cache'[u] \in {cache[u], NotCached},
           \A s \in reqs' : SnapSeen(s) /\ HasCleared(s, cache')
    PROVE  StaleInv'
<1>1. ASSUME NEW u \in Users PROVE CachedSeen(u)'
<2>1. CachedSeen(u) /\ cache'[u] \in {cache[u], NotCached}
  BY DEF StaleInv
<2> QED
  BY <2>1 DEF CachedSeen, Seen
<1>2. ASSUME NEW s \in reqs' PROVE SnapSeen(s)' /\ HasCleared(s, cache)'
<2>1. SnapSeen(s) /\ HasCleared(s, cache')
  OBVIOUS
<2> QED
  BY <2>1 DEF SnapSeen, Seen, HasCleared, Left
<1> QED
  BY <1>1, <1>2 DEF StaleInv

LEMMA StalePasses ==
    ASSUME BaseInv, StaleInv, Quiet, DOMAIN cache' = Users, \A u \in Users : cache'[u] \in {cache[u], NotCached}, NEW r \in reqs,
           reqs' = reqs \ {r} \/ \E s : On(r, s) /\ HasCleared(s, cache')
    PROVE  StaleInv'
<1>1. \A q \in reqs : SnapSeen(q) /\ HasCleared(q, cache')
<2> SUFFICES ASSUME NEW q \in reqs PROVE SnapSeen(q) /\ HasCleared(q, cache')
  OBVIOUS
<2>1. SnapSeen(q) /\ HasCleared(q, cache)
  BY DEF StaleInv
<2>2. q.u \in Users => cache'[q.u] \in {cache[q.u], NotCached}
  OBVIOUS
<2> QED
  BY <2>1, <2>2 DEF HasCleared
<1>2. commits' = commits /\ overlap' = overlap
  BY DEF Quiet
<1>3. CASE reqs' = reqs \ {r}
  BY <1>1, <1>2, <1>3, StaleKeeps
<1>4. CASE \E s : On(r, s) /\ HasCleared(s, cache')
<2>1. PICK s : On(r, s) /\ HasCleared(s, cache')
  BY <1>4
<2>2. reqs' = (reqs \ {r}) \union {s} /\ s.op = r.op /\ Follows(s.op, s.todo)
  BY <2>1 DEF On, Goes, Same
<2>3. SnapSeen(s)
  BY <2>2, BaseOf, HandlersAreNoEntry DEF SnapSeen
<2>4. \A q \in reqs' : SnapSeen(q) /\ HasCleared(q, cache')
  BY <1>1, <2>1, <2>2, <2>3
<2> QED
  BY <1>2, <2>4, StaleKeeps
<1> QED
  BY <1>3, <1>4

LEMMA StaleBegins ==
    ASSUME BaseInv, StaleInv, NEW op, NEW u, NEW key, NEW steps, NEW multi, NEW since, NEW line,
           Begin(op, u, key, steps, multi, since, line), BeginsWith(op, u, key, steps, since, line)
    PROVE  StaleInv'
<1>1. PICK s : Begun(s, op, u, key, steps, multi, since, line)
  BY BeginMakes
<1>2. commits' = commits /\ overlap \subseteq overlap' /\ cache' = cache
  BY DEF Begin, clients
<1>3. s.op = op /\ s.todo = steps /\ s.lock = FALSE /\ reqs' = reqs \union {s}
  BY <1>1 DEF Begun
<1>4. steps # <<"fill">>
<2>1. CASE op \in Own
<3>1. <<"user">> # <<"fill">>
  OBVIOUS
<3> QED
  BY <2>1, <3>1 DEF BeginsWith
<2>2. CASE op \notin Own
<3>1. op \in Ops /\ Follows(op, steps)
  BY <2>2, WholePlans DEF BeginsWith
<3> QED
  BY <3>1, HandlersAreNoEntry
<2> QED
  BY <2>1, <2>2
<1>5. SnapSeen(s) /\ HasCleared(s, cache')
  BY <1>3, <1>4 DEF SnapSeen, HasCleared
<1>6. \A q \in reqs : SnapSeen(q) /\ HasCleared(q, cache')
  BY <1>2 DEF StaleInv
<1>7. \A q \in reqs' : SnapSeen(q) /\ HasCleared(q, cache')
  BY <1>3, <1>5, <1>6
<1>8. DOMAIN cache' = Users
  BY <1>2 DEF StaleInv
<1> QED
  BY <1>2, <1>7, <1>8, StaleKeeps

LEMMA StaleEnters ==
    ASSUME BaseInv, StaleInv, NEW r \in reqs, GetUser(r) \/ LoadUser(r) \/ FillCache(r)
    PROVE  StaleInv'
<1>1. commits' = commits /\ overlap' = overlap
  BY EntryMoves DEF Quiet
<1>2. OnItsWay(r) /\ IsRequest(r) /\ r.op \in Ops
  BY BaseOf
<1>3. PICK step \in {"user", "load", "fill"} : At(r, step)
  BY Zenon DEF GetUser, LoadUser, FillCache
<1>4. Entering(r) /\ r.todo = <<step>>
  BY <1>2, <1>3, EntryGoes
<1>5. r.op \in Own /\ ~r.lock /\ r.key[1] \in Users
<2>1. r.op \in Own /\ ~r.lock
  BY <1>4 DEF Entering
<2> QED
  BY <2>1, BaseOf DEF RequestOK, BaseInv, KeyOK
<1>6. ASSUME NEW s, reqs' = (reqs \ {r}) \union {s} \/ reqs' = reqs \ {r}, SnapSeen(s), s.lock = FALSE, cache' = cache
      PROVE  StaleInv'
<2>1. \A q \in reqs' : SnapSeen(q) /\ HasCleared(q, cache')
  BY <1>6 DEF StaleInv, HasCleared
<2> QED
  BY <1>1, <1>6, <2>1, StaleKeeps DEF StaleInv
<1>7. CASE LoadUser(r)
<2>1. cache' = cache
  BY <1>7 DEF LoadUser
<2>2. CASE reqs' = reqs \ {r}
<3>1. \A q \in reqs' : SnapSeen(q) /\ HasCleared(q, cache')
  BY <2>1, <2>2 DEF StaleInv
<3> QED
  BY <1>1, <2>1, <3>1, StaleKeeps DEF StaleInv
<2>3. CASE reqs' # reqs \ {r}
<3> DEFINE u == r.key[1]
           snap == [multi |-> row[u].multi, since |-> Len(commits[u]), by |-> r.n]
           s == [r EXCEPT !.todo = <<"fill">>, !.snap = snap]
<3>1. Become(r, s)
  BY <1>7, <2>3, Zenon DEF LoadUser, End
<3>2. Same(r, s) /\ s.snap = snap /\ s.lock = r.lock
  BY <1>2 DEF IsRequest, Same
<3>3. snap.by = r.n /\ snap.since = Len(commits[u]) /\ Len(commits[u]) \in Nat
  BY <1>5 DEF BaseInv, Accounts
<3>4. reqs' = (reqs \ {r}) \union {s}
  BY <3>1 DEF Become
<3> HIDE DEF s, snap
<3>5. Seen(u, r.n, Len(commits[u]))
  BY <3>3 DEF Seen
<3>6. SnapSeen(s)
  BY <3>2, <3>3, <3>5 DEF SnapSeen, Same
<3>7. s.lock = FALSE
  BY <1>5, <3>2, BaseOf DEF RequestOK
<3> QED
  BY <1>6, <2>1, <3>4, <3>6, <3>7
<2> QED
  BY <2>2, <2>3
<1>8. CASE GetUser(r)
<2>1. cache' = cache
  BY <1>8 DEF GetUser
<2>2. CASE \E snap : Enter(r, snap)
<3>1. PICK s : Goes(r, s) /\ Follows(s.op, s.todo) /\ ~s.lock
  BY <1>2, <1>4, <2>2, EnterGoes
<3>2. reqs' = (reqs \ {r}) \union {s} /\ s.op \in Ops
  BY <1>2, <3>1 DEF Goes, Same
<3>3. SnapSeen(s)
  BY <3>1, <3>2, HandlersAreNoEntry DEF SnapSeen
<3>4. \A q \in reqs' : SnapSeen(q) /\ HasCleared(q, cache')
  BY <2>1, <3>1, <3>2, <3>3 DEF StaleInv, HasCleared
<3> QED
  BY <1>1, <2>1, <3>4, StaleKeeps DEF StaleInv
<2>3. CASE Become(r, [r EXCEPT !.todo = <<"load">>])
<3> DEFINE s == [r EXCEPT !.todo = <<"load">>]
<3>1. s.todo = <<"load">> /\ s.lock = r.lock /\ <<"load">> # <<"fill">>
  BY <1>2 DEF IsRequest
<3>2. reqs' = (reqs \ {r}) \union {s}
  BY <2>3 DEF Become
<3> HIDE DEF s
<3>3. \A q \in reqs' : SnapSeen(q) /\ HasCleared(q, cache')
  BY <1>5, <2>1, <3>1, <3>2 DEF StaleInv, HasCleared, SnapSeen
<3> QED
  BY <1>1, <2>1, <3>3, StaleKeeps DEF StaleInv
<2> QED
  BY <1>8, <2>2, <2>3, Zenon DEF GetUser
<1>9. CASE FillCache(r)
<2>1. At(r, "fill") /\ cache' = [cache EXCEPT ![r.key[1]] = r.snap] /\ Enter(r, r.snap)
  BY <1>9 DEF FillCache
<2>2. PICK s : Goes(r, s) /\ Follows(s.op, s.todo) /\ ~s.lock
  BY <1>2, <1>4, <2>1, EnterGoes
<2>3. reqs' = (reqs \ {r}) \union {s} /\ s.op \in Ops
  BY <1>2, <2>2 DEF Goes, Same
<2>4. r.todo = <<"fill">>
  BY <1>2, <2>1, EntryGoes
<2>5. r.snap.by = r.n /\ r.snap.since \in Nat /\ Seen(r.key[1], r.n, r.snap.since)
  BY <2>4 DEF StaleInv, SnapSeen
<2>6. DOMAIN cache' = Users /\ cache'[r.key[1]] = r.snap /\ \A v \in Users \ {r.key[1]} : cache'[v] = cache[v]
  BY <1>5, <2>1 DEF StaleInv
<2>7. ASSUME NEW v \in Users PROVE CachedSeen(v)'
<3>1. CASE v = r.key[1]
  BY <1>1, <2>5, <2>6, <3>1 DEF CachedSeen, Seen
<3>2. CASE v # r.key[1]
<4>1. cache'[v] = cache[v] /\ CachedSeen(v)
  BY <2>6, <3>2 DEF StaleInv
<4> QED
  BY <1>1, <4>1 DEF CachedSeen, Seen
<3> QED
  BY <3>1, <3>2
<2>8. ASSUME NEW q \in reqs' PROVE SnapSeen(q)' /\ HasCleared(q, cache)'
<3>1. CASE q = s
<4>1. SnapSeen(q)'
  BY <2>2, <2>3, <3>1, HandlersAreNoEntry DEF SnapSeen
<4>2. HasCleared(q, cache)'
  BY <2>2, <3>1 DEF HasCleared
<4> QED
  BY <4>1, <4>2
<3>2. CASE q # s
<4>1. q \in reqs /\ q # r /\ SnapSeen(q) /\ HasCleared(q, cache) /\ {r.n, q.n} \in overlap
  BY <2>3, <3>2 DEF StaleInv, BaseInv
<4>2. SnapSeen(q)'
  BY <1>1, <4>1 DEF SnapSeen, Seen
<4>3. q.u = r.key[1] \/ q.u \notin Users \/ cache'[q.u] = cache[q.u]
  BY <2>6
<4>4. HasCleared(q, cache)'
  BY <1>1, <2>5, <2>6, <4>1, <4>3 DEF HasCleared, Left
<4> QED
  BY <4>2, <4>4
<3> QED
  BY <3>1, <3>2
<2> QED
  BY <2>6, <2>7, <2>8 DEF StaleInv
<1> QED
  BY <1>7, <1>8, <1>9

\* A change is committed: the cache has been emptied for it.
LEMMA StaleFinishes ==
    ASSUME BaseInv, StaleInv, NEW r \in reqs, Finish(r)
    PROVE  StaleInv'
<1>1. /\ reqs' = reqs \ {r} /\ Left(r) = 0 /\ cache' = cache /\ overlap' = overlap
      /\ \/ commits' = commits
         \/ /\ r.lock /\ r.op \in Changers
            /\ commits' = [commits EXCEPT ![r.u] = Append(@, [by |-> r.n, ends |-> r.op \in Credentials])]
  BY FinishMoves
<1>2. CASE commits' = commits
<2>1. \A q \in reqs' : SnapSeen(q) /\ HasCleared(q, cache')
  BY <1>1 DEF StaleInv
<2> QED
  BY <1>1, <1>2, <2>1, StaleKeeps DEF StaleInv
<1>3. CASE /\ r.lock /\ r.op \in Changers
           /\ commits' = [commits EXCEPT ![r.u] = Append(@, [by |-> r.n, ends |-> r.op \in Credentials])]
<2> DEFINE c == [by |-> r.n, ends |-> r.op \in Credentials]
           C == [by : Nat, ends : BOOLEAN]
           L == Len(commits[r.u])
<2>1. commits \in [Accounts -> Seq(C)] /\ r.u \in Accounts
  BY BaseOf DEF BaseInv, RequestOK
<2>2. c.by = r.n
  OBVIOUS
<2>3. /\ \A u \in Accounts \ {r.u} : commits'[u] = commits[u]
      /\ commits'[r.u] = Append(commits[r.u], c)
  BY <1>3, <2>1
<2>4. commits[r.u] \in Seq(C)
  BY <2>1
<2> HIDE DEF c, C
<2>5. L \in Nat /\ Len(commits'[r.u]) = L + 1 /\ commits'[r.u][L + 1] = c /\ \A i \in 1 .. L : commits'[r.u][i] = commits[r.u][i]
  BY <2>3, <2>4
<2>6. ASSUME NEW u \in Accounts, NEW by, NEW since \in Nat, Seen(u, by, since), u = r.u => {by, r.n} \in overlap
      PROVE  Seen(u, by, since)'
<3>1. CASE u # r.u
  BY <1>1, <2>3, <2>6, <3>1 DEF Seen
<3>2. CASE u = r.u
<4> SUFFICES ASSUME NEW i \in since + 1 .. Len(commits'[r.u]) PROVE {by, commits'[r.u][i].by} \in overlap
  BY <1>1, <3>2 DEF Seen
<4>1. CASE i = L + 1
<5>1. commits'[r.u][i].by = r.n
  BY <2>2, <2>5, <4>1, Zenon
<5> QED
  BY <2>6, <3>2, <5>1
<4>2. CASE i # L + 1
<5>1. i \in 1 .. L /\ i \in since + 1 .. L
  BY <2>5, <4>2
<5>2. commits'[r.u][i] = commits[r.u][i]
  BY <2>5, <5>1
<5> QED
  BY <2>6, <3>2, <5>1, <5>2 DEF Seen
<4> QED
  BY <4>1, <4>2
<3> QED
  BY <3>1, <3>2
<2>7. ASSUME NEW u \in Users PROVE CachedSeen(u)'
<3>1. cache'[u] = cache[u] /\ CachedSeen(u) /\ u \in Accounts
  BY <1>1 DEF StaleInv, Accounts
<3>2. ASSUME cache[u] # NotCached PROVE cache[u].since \in Nat /\ Seen(u, cache[u].by, cache[u].since)'
<4>1. PICK by \in {cache[u].by}, since \in {cache[u].since} : TRUE
  OBVIOUS
<4>2. since \in Nat /\ Seen(u, by, since)
  BY <3>1, <3>2, <4>1 DEF CachedSeen
<4>3. u = r.u => {by, r.n} \in overlap
  BY <1>1, <1>3, <3>2, <4>1 DEF StaleInv, HasCleared
<4>4. Seen(u, by, since)'
  BY <2>6, <3>1, <4>2, <4>3
<4>5. by = cache'[u].by /\ since = cache'[u].since
  BY <3>1, <4>1
<4> QED
  BY <4>1, <4>2, <4>4, <4>5 DEF Seen
<3> QED
  BY <1>1, <3>2 DEF CachedSeen
<2>8. ASSUME NEW q \in reqs' PROVE SnapSeen(q)' /\ HasCleared(q, cache)'
<3>1. q \in reqs /\ SnapSeen(q) /\ HasCleared(q, cache) /\ {q.n, r.n} \in overlap
  BY <1>1 DEF StaleInv, BaseInv
<3>2. q.todo = <<"fill">> => q.key[1] \in Accounts
<4>1. q.todo = <<"fill">> => q.op \in Own
  BY <3>1, BaseOf, HandlersAreNoEntry DEF OnItsWay, Entering
<4> QED
  BY <3>1, <4>1, BaseOf DEF RequestOK
<3>3. SnapSeen(q)'
  BY <2>6, <3>1, <3>2 DEF SnapSeen
<3>4. HasCleared(q, cache)'
  BY <1>1, <3>1 DEF HasCleared, Left
<3> QED
  BY <3>3, <3>4
<2> QED
  BY <1>1, <2>7, <2>8 DEF StaleInv
<1> QED
  BY <1>1, <1>2, <1>3

LEMMA StepStale == BaseInv /\ StaleInv /\ [Next]_vars => StaleInv'
<1> SUFFICES ASSUME BaseInv, StaleInv, [Next]_vars PROVE StaleInv'
  OBVIOUS
<1>0. DOMAIN cache = Users
  BY DEF StaleInv
<1>1. CASE UNCHANGED vars
<2>1. commits' = commits /\ overlap' = overlap /\ reqs' = reqs /\ cache' = cache
  BY <1>1 DEF vars, clients, history
<2> QED
  BY <1>0, <2>1, StaleKeeps DEF StaleInv
<1>2. CASE \/ \E u \in Users : BeginLogin(u) \/ BeginCodeLogin(u)
           \/ \E k \in cookies : BeginRefresh(k)
           \/ \E op \in DOMAIN OwnPlan, k \in known : BeginOwn(op, k)
           \/ \E op \in DOMAIN AdminPlan, u \in Accounts : BeginAdmin(op, u)
  BY <1>2, BeginActions, StaleBegins
<1>3. CASE \E k \in access : Expire(k)
<2>1. commits' = commits /\ overlap' = overlap /\ reqs' = reqs /\ cache' = cache
  BY <1>3 DEF Expire, clients, history
<2> QED
  BY <1>0, <2>1, StaleKeeps DEF StaleInv
<1>4. ASSUME NEW r \in reqs, Step(r) PROVE StaleInv'
<2>1. Left(r) \in Nat
  BY BaseOf DEF OnItsWay, Left
\* A step of a request that changes no row, or not its last.
<2>2. ASSUME Quiet, cache' = cache, r.op \notin Changers \/ Left(r) > 1, reqs' = reqs \ {r} \/ \E s : On(r, s)
      PROVE  StaleInv'
<3>1. ASSUME NEW s, On(r, s) PROVE HasCleared(s, cache')
<4>1. s.op = r.op /\ Left(s) = Left(r) - 1
  BY <3>1 DEF On, Goes, Same
<4> QED
  BY <2>1, <2>2, <4>1 DEF HasCleared
<3> QED
  BY <1>0, <2>2, <3>1, StalePasses
<2>3. Ahead(r) => \E s : On(r, s)
  BY DEF Ahead
<2>4. CASE GetUser(r) \/ LoadUser(r) \/ FillCache(r)
  BY <2>4, StaleEnters
<2>5. CASE Touch(r) \/ DropTokens(r) \/ DropRefresh(r) \/ StoreRefresh(r)
<3>1. Quiet /\ cache' = cache /\ r.op \in Makers /\ (reqs' = reqs \ {r} \/ \E s : On(r, s))
  BY <2>3, <2>5, TouchMoves, DropMoves, DropRefreshMoves, StoreRefreshMoves
<3>2. r.op \notin Changers
  BY <3>1 DEF Makers, Changers
<3> QED
  BY <2>2, <3>1, <3>2
<2>6. CASE StoreToken(r)
<3>1. commits' = commits /\ overlap' = overlap /\ cache' = cache /\ r.op \in Makers
  BY <2>6, StoreGoes DEF StoreToken
<3>2. PICK s : Goes(r, s) /\ Follows(s.op, s.todo)
  BY <2>6, StoreGoes
<3>3. reqs' = (reqs \ {r}) \union {s} /\ s.op = r.op
  BY <3>2 DEF Goes, Same
<3>4. SnapSeen(s) /\ HasCleared(s, cache')
<4>1. s.op \notin Changers /\ s.op \in Ops
  BY <3>1, <3>3 DEF Makers, Changers, Ops
<4> QED
  BY <3>2, <4>1, HandlersAreNoEntry DEF SnapSeen, HasCleared
<3>5. \A q \in reqs' : SnapSeen(q) /\ HasCleared(q, cache')
  BY <3>1, <3>3, <3>4 DEF StaleInv
<3> QED
  BY <1>0, <3>1, <3>5, StaleKeeps
<2>7. CASE CheckRefresh(r) \/ SpendRefresh(r) \/ RevokeToken(r)
<3>1. Quiet /\ cache' = cache /\ r.op \in {"refresh", "logout", "kick"} /\ (reqs' = reqs \ {r} \/ \E s : On(r, s))
  BY <2>3, <2>7, CheckMoves, SpendMoves, RevokeMoves
<3>2. r.op \notin Changers
  BY <3>1 DEF Changers
<3> QED
  BY <2>2, <3>1, <3>2
<2>8. CASE ReadRow(r) \/ WriteRow(r) \/ DropOthers(r)
  BY <2>2, <2>3, <2>8, RowMoves, DropOthersMoves
<2>9. CASE ClearCache(r) \/ Purge(r)
<3>1. /\ Quiet /\ Ahead(r)
      /\ \/ cache' = [u \in Users |-> IF u = r.u THEN NotCached ELSE cache[u]]
         \/ cache' = [u \in Users |-> IF HasPrefix(u, r.u) THEN NotCached ELSE cache[u]]
         \/ cache' = cache /\ Left(r) > 1
  BY <2>9, ClearMoves, PurgeMoves
<3>2. CASE cache' = cache /\ Left(r) > 1
  BY <2>2, <2>3, <3>1, <3>2
<3>3. CASE \/ cache' = [u \in Users |-> IF u = r.u THEN NotCached ELSE cache[u]]
           \/ cache' = [u \in Users |-> IF HasPrefix(u, r.u) THEN NotCached ELSE cache[u]]
<4>1. DOMAIN cache' = Users /\ (\A u \in Users : cache'[u] \in {cache[u], NotCached}) /\ (r.u \in Users => cache'[r.u] = NotCached)
  BY <3>3 DEF HasPrefix
<4>2. ASSUME NEW s, On(r, s) PROVE HasCleared(s, cache')
<5>1. s.u = r.u
  BY <4>2 DEF On, Goes, Same
<5> QED
  BY <4>1, <5>1 DEF HasCleared
<4> QED
  BY <2>3, <3>1, <4>1, <4>2, StalePasses
<3> QED
  BY <3>1, <3>2, <3>3
<2>10. CASE Finish(r)
  BY <2>10, StaleFinishes
<2>11. CASE Die(r)
  BY <1>0, <2>11, DieMoves, StalePasses
<2> QED
  BY <1>4, <2>4, <2>5, <2>6, <2>7, <2>8, <2>9, <2>10, <2>11, Zenon DEF Step
<1> QED
  BY <1>1, <1>2, <1>3, <1>4, Zenon DEF Next

\* The cached user a request is served from (jwt.get_jwt_user) is the
\* committed row but for changes in progress together with the request that
\* cached it.
THEOREM CachedUserIsCommitted == Spec => []StaleUserOverlapped
<1>1. Init => BaseInv /\ StaleInv
  BY InitBase, InitStale
<1>2. (BaseInv /\ StaleInv) /\ [Next]_vars => (BaseInv /\ StaleInv)'
  BY StepBase, StepStale
<1>3. BaseInv /\ StaleInv => StaleUserOverlapped
  BY DEF StaleInv, CachedSeen, Seen, StaleUserOverlapped, Overlapped
<1> QED
  BY <1>1, <1>2, <1>3, PTL DEF Spec

-----------------------------------------------------------------------------
(* Single logins overshoot by the requests in progress.                    *)

\* The request has dropped the user's other sessions and is about to store its own.
IsComing(r) == r.op \in Makers /\ ~r.multi /\ Left(r) = StoreAt(r.op)
Singles(u) == {k \in access : k[1] = u /\ ~made[k].multi}
Coming(u) == {NewKey(r) : r \in {q \in reqs : q.u = u /\ IsComing(q)}}
Held(u) == Singles(u) \union Coming(u)

SingleInv == \A u \in Users : IsFiniteSet(Held(u)) /\ Cardinality(Held(u)) <= Parallel

LEMMA FewerHeld ==
    ASSUME NEW S, NEW T, IsFiniteSet(S), Cardinality(S) <= Parallel, T \subseteq S
    PROVE  IsFiniteSet(T) /\ Cardinality(T) <= Parallel
<1>1. IsFiniteSet(T) /\ Cardinality(T) <= Cardinality(S)
  BY FS_Subset
<1>2. Cardinality(T) \in Nat /\ Cardinality(S) \in Nat /\ Parallel \in Nat
  BY <1>1, FS_CardinalityType, SessionsAssumption
<1> QED
  BY <1>1, <1>2

LEMMA InitSingle == Init => SingleInv
<1> SUFFICES ASSUME Init, NEW u \in Users PROVE IsFiniteSet(Held(u)) /\ Cardinality(Held(u)) <= Parallel
  BY DEF SingleInv
<1>1. Held(u) \subseteq {<<u, 0>>}
  BY DEF Init, Held, Singles, Coming
<1>2. IsFiniteSet({<<u, 0>>}) /\ Cardinality({<<u, 0>>}) = 1
  BY FS_Singleton
<1>3. 1 <= Parallel
  BY SessionsAssumption
<1> QED
  BY <1>1, <1>2, <1>3, FewerHeld

\* No user gets a session but those its requests were about to store.
LEMMA SingleKeeps ==
    ASSUME SingleInv,
           \A k \in access' : ~made'[k].multi => k \in Held(k[1]),
           \A s \in reqs' : IsComing(s) => NewKey(s) \in Held(s.u)
    PROVE  SingleInv'
<1> SUFFICES ASSUME NEW u \in Users PROVE IsFiniteSet(Held(u))' /\ (Cardinality(Held(u)) <= Parallel)'
  BY DEF SingleInv
<1>1. Held(u)' \subseteq Held(u)
<2>1. Singles(u)' \subseteq Held(u)
  BY DEF Singles
<2>2. Coming(u)' \subseteq Held(u)
  BY DEF Coming, IsComing, NewKey, Left
<2> QED
  BY <2>1, <2>2, Zenon DEF Held
<1>2. IsFiniteSet(Held(u)) /\ Cardinality(Held(u)) <= Parallel
  BY DEF SingleInv
<1>3. IsFiniteSet(Held(u)') /\ Cardinality(Held(u)') <= Parallel
  BY <1>1, <1>2, FewerHeld
<1> QED
  BY <1>3

LEMMA SinglePasses ==
    ASSUME BaseInv, SingleInv, access' \subseteq access, made' = made, NEW r \in reqs,
           reqs' = reqs \ {r} \/ \E s : Goes(r, s) /\ ~IsComing(s)
    PROVE  SingleInv'
<1>1. \A k \in access' : ~made'[k].multi => k \in Held(k[1])
  BY DEF Held, Singles
<1>2. \A q \in reqs : IsComing(q) => NewKey(q) \in Held(q.u)
  BY DEF Held, Coming
<1>3. \A q \in reqs' : IsComing(q) => NewKey(q) \in Held(q.u)
  BY <1>2 DEF Goes
<1> QED
  BY <1>1, <1>3, SingleKeeps

LEMMA PlansAreLonger == \A op \in Makers : Len(PlanOf(op)) > StoreAt(op)
  BY DEF PlanOf, Makers, StoreAt, LoginPlan, SwaggerPlan, PhonePlan, SocialPlan, RefreshPlan

LEMMA SingleBegins ==
    ASSUME BaseInv, SingleInv, NEW op, NEW u, NEW key, NEW steps, NEW multi, NEW since, NEW line,
           Begin(op, u, key, steps, multi, since, line), BeginsWith(op, u, key, steps, since, line)
    PROVE  SingleInv'
<1>1. PICK s : Begun(s, op, u, key, steps, multi, since, line)
  BY BeginMakes
<1>2. made' = made /\ access' = access
  BY DEF Begin
<1>3. ~IsComing(s)
<2>1. op \in Makers => s.todo = PlanOf(op)
  BY <1>1 DEF Begun, BeginsWith, Own, Makers
<2>2. op \in Makers => Len(PlanOf(op)) > StoreAt(op) /\ Len(PlanOf(op)) \in Nat /\ StoreAt(op) \in Nat
  BY PlansAreLonger, PlansAreSequences DEF Ops, StoreAt
<2>3. s.op = op
  BY <1>1 DEF Begun
<2> QED
  BY <2>1, <2>2, <2>3 DEF IsComing, Left
<1>4. \A k \in access' : ~made'[k].multi => k \in Held(k[1])
  BY <1>2 DEF Held, Singles
<1>5. \A q \in reqs' : IsComing(q) => NewKey(q) \in Held(q.u)
  BY <1>1, <1>3 DEF Begun, Held, Coming
<1> QED
  BY <1>4, <1>5, SingleKeeps

LEMMA SingleStores ==
    ASSUME BaseInv, SingleInv, NEW r \in reqs, StoreToken(r)
    PROVE  SingleInv'
<1>1. /\ r.op \in Makers /\ Left(r) = StoreAt(r.op)
      /\ made'[NewKey(r)] = Stored(r) /\ \A j \in DOMAIN made : made'[j] = made[j]
  BY StoreGoes
<1>2. PICK s : Goes(r, s) /\ Left(s) = Left(r) - 1
  BY StoreGoes
<1>3. access' = access \union {NewKey(r)} /\ access \subseteq DOMAIN made
  BY DEF StoreToken, BaseInv
<1>4. reqs' = (reqs \ {r}) \union {s} /\ s.op = r.op
  BY <1>2 DEF Goes, Same
<1>5. ~IsComing(s)
<2>1. Left(r) \in Nat
  BY BaseOf DEF OnItsWay, Left
<2> QED
  BY <1>1, <1>2, <1>4, <2>1 DEF IsComing
<1>6. ASSUME NEW k \in access', ~made'[k].multi PROVE k \in Held(k[1])
<2>1. CASE k = NewKey(r)
<3>1. ~r.multi /\ k[1] = r.u
  BY <1>1, <1>6, <2>1 DEF Stored, NewKey
<3> QED
  BY <1>1, <2>1, <3>1 DEF Held, Coming, IsComing
<2>2. CASE k # NewKey(r)
<3>1. k \in access /\ made'[k] = made[k]
  BY <1>1, <1>3, <2>2
<3> QED
  BY <1>6, <3>1 DEF Held, Singles
<2> QED
  BY <2>1, <2>2
<1>7. \A q \in reqs' : IsComing(q) => NewKey(q) \in Held(q.u)
  BY <1>4, <1>5 DEF Held, Coming
<1> QED
  BY <1>6, <1>7, SingleKeeps

\* A single login has dropped the sessions of its user: those to come are at
\* most as many as the requests in progress.
LEMMA SingleDrops ==
    ASSUME BaseInv, SingleInv, NEW r \in reqs, DropTokens(r)
    PROVE  SingleInv'
<1>1. /\ made' = made /\ access' = IF r.multi THEN access ELSE access \ PrefixKeys(access, r.u)
  BY DropMoves DEF Quiet
<1>2. PICK s : Goes(r, s) /\ s.multi = r.multi
  BY DropMoves DEF Ahead, On
<1>3. reqs' = (reqs \ {r}) \union {s} /\ s.u = r.u
  BY <1>2 DEF Goes, Same
<1>4. CASE r.multi
<2>1. access' \subseteq access /\ ~IsComing(s)
  BY <1>1, <1>2, <1>4 DEF IsComing
<2> QED
  BY <1>1, <1>2, <2>1, SinglePasses
<1>5. CASE ~r.multi
<2>1. access' = access \ PrefixKeys(access, r.u)
  BY <1>1, <1>5
<2> SUFFICES ASSUME NEW u \in Users PROVE IsFiniteSet(Held(u))' /\ (Cardinality(Held(u)) <= Parallel)'
  BY DEF SingleInv
<2>2. CASE u = r.u
<3>1. Singles(u)' = {}
  BY <2>1, <2>2 DEF Singles, PrefixKeys, HasPrefix
<3>2. BaseInv'
  BY StepBase DEF Next, Step
<3>3. IsFiniteSet(reqs') /\ Cardinality(reqs') <= Parallel
  BY <3>2 DEF BaseInv
<3>4. IsFiniteSet({NewKey(q) : q \in reqs'}) /\ Cardinality({NewKey(q) : q \in reqs'}) <= Cardinality(reqs')
<4> DEFINE f == [q \in reqs' |-> NewKey(q)]
           T == {NewKey(q) : q \in reqs'}
<4>1. f \in Surjection(reqs', T)
  BY DEF Surjection
<4> HIDE DEF f, T
<4>2. IsFiniteSet(T) /\ Cardinality(T) <= Cardinality(reqs')
  BY <3>3, <4>1, FS_Surjection
<4> QED
  BY <4>2 DEF T
<3>5. Held(u)' \subseteq {NewKey(q) : q \in reqs'}
<4>1. Coming(u)' \subseteq {NewKey(q) : q \in reqs'}
  BY DEF Coming, NewKey
<4> QED
  BY <3>1, <4>1, Zenon DEF Held
<3>6. Cardinality({NewKey(q) : q \in reqs'}) \in Nat /\ Cardinality(reqs') \in Nat /\ Parallel \in Nat
  BY <3>3, <3>4, FS_CardinalityType, SessionsAssumption
<3>7. Cardinality({NewKey(q) : q \in reqs'}) <= Parallel
  BY <3>3, <3>4, <3>6
<3>8. IsFiniteSet(Held(u)') /\ Cardinality(Held(u)') <= Parallel
  BY <3>4, <3>5, <3>7, FewerHeld
<3> QED
  BY <3>8
<2>3. CASE u # r.u
<3>1. Held(u)' \subseteq Held(u)
<4>1. Singles(u)' \subseteq Singles(u)
  BY <1>1, <2>1 DEF Singles
<4>2. Coming(u)' \subseteq Coming(u)
  BY <1>3, <2>3 DEF Coming, IsComing, NewKey, Left
<4> QED
  BY <4>1, <4>2, Zenon DEF Held
<3>2. IsFiniteSet(Held(u)) /\ Cardinality(Held(u)) <= Parallel
  BY DEF SingleInv
<3>3. IsFiniteSet(Held(u)') /\ Cardinality(Held(u)') <= Parallel
  BY <3>1, <3>2, FewerHeld
<3> QED
  BY <3>3
<2> QED
  BY <2>2, <2>3
<1> QED
  BY <1>4, <1>5

LEMMA StepSingle == BaseInv /\ SingleInv /\ [Next]_vars => SingleInv'
<1> SUFFICES ASSUME BaseInv, SingleInv, [Next]_vars PROVE SingleInv'
  OBVIOUS
<1>1. ASSUME reqs' = reqs, access' \subseteq access, made' = made PROVE SingleInv'
<2>1. \A k \in access' : ~made'[k].multi => k \in Held(k[1])
  BY <1>1 DEF Held, Singles
<2>2. \A q \in reqs' : IsComing(q) => NewKey(q) \in Held(q.u)
  BY <1>1 DEF Held, Coming
<2> QED
  BY <2>1, <2>2, SingleKeeps
<1>2. CASE UNCHANGED vars
  BY <1>1, <1>2 DEF vars, history
<1>3. CASE \/ \E u \in Users : BeginLogin(u) \/ BeginCodeLogin(u)
           \/ \E k \in cookies : BeginRefresh(k)
           \/ \E op \in DOMAIN OwnPlan, k \in known : BeginOwn(op, k)
           \/ \E op \in DOMAIN AdminPlan, u \in Accounts : BeginAdmin(op, u)
  BY <1>3, BeginActions, SingleBegins
<1>4. CASE \E k \in access : Expire(k)
  BY <1>1, <1>4 DEF Expire, history
<1>5. ASSUME NEW r \in reqs, Step(r) PROVE SingleInv'
<2>1. Left(r) \in Nat /\ StoreAt(r.op) \in Nat
  BY BaseOf DEF OnItsWay, Left, StoreAt
\* A step that is not the drop.
<2>2. ASSUME access' \subseteq access, Quiet, r.op \in Makers => Left(r) # StoreAt(r.op) + 1, reqs' = reqs \ {r} \/ \E s : On(r, s)
      PROVE  SingleInv'
<3>1. \A s : On(r, s) => Goes(r, s) /\ ~IsComing(s)
<4> SUFFICES ASSUME NEW s, On(r, s) PROVE Goes(r, s) /\ ~IsComing(s)
  OBVIOUS
<4>1. Goes(r, s) /\ s.op = r.op /\ Left(s) = Left(r) - 1
  BY DEF On, Goes, Same
<4> QED
  BY <2>1, <2>2, <4>1 DEF IsComing
<3> QED
  BY <2>2, <3>1, SinglePasses DEF Quiet
<2>3. Ahead(r) => \E s : On(r, s)
  BY DEF Ahead
<2>4. CASE GetUser(r) \/ LoadUser(r) \/ FillCache(r)
<3>1. Quiet /\ access' = access /\ r.op \in Own /\ (reqs' = reqs \ {r} \/ \E s : Goes(r, s))
  BY <2>4, EntryMoves
<3>2. \A s : Goes(r, s) => ~IsComing(s)
  BY <3>1 DEF IsComing, Goes, Same, Own, Makers
<3> QED
  BY <3>1, <3>2, SinglePasses DEF Quiet
<2>5. CASE Touch(r)
  BY <2>2, <2>5, TouchMoves DEF StoreAt
<2>6. CASE DropTokens(r)
  BY <2>6, SingleDrops
<2>7. CASE StoreToken(r)
  BY <2>7, SingleStores
<2>8. CASE DropRefresh(r) \/ StoreRefresh(r)
<3>1. Quiet /\ access' = access /\ Ahead(r) /\ Left(r) < StoreAt(r.op)
  BY <2>8, DropRefreshMoves, StoreRefreshMoves
<3> QED
  BY <2>1, <2>2, <2>3, <3>1
<2>9. CASE CheckRefresh(r) \/ SpendRefresh(r) \/ RevokeToken(r)
<3>1. /\ Quiet /\ access' \subseteq access /\ (reqs' = reqs \ {r} \/ \E s : On(r, s))
      /\ (r.op = "refresh" /\ Left(r) \in {5, 6, 7}) \/ r.op \in {"logout", "kick"}
  BY <2>3, <2>9, CheckMoves, SpendMoves, RevokeMoves
<3>2. r.op \in Makers => Left(r) # StoreAt(r.op) + 1
  BY <3>1 DEF Makers, StoreAt
<3> QED
  BY <2>2, <3>1, <3>2
<2>10. CASE ReadRow(r) \/ WriteRow(r) \/ DropOthers(r) \/ ClearCache(r) \/ Purge(r)
<3>1. Quiet /\ access' \subseteq access /\ r.op \in Changers /\ (reqs' = reqs \ {r} \/ \E s : On(r, s))
  BY <2>3, <2>10, RowMoves, DropOthersMoves, ClearMoves, PurgeMoves DEF Changers, Credentials
<3>2. r.op \notin Makers
  BY <3>1 DEF Changers, Makers
<3> QED
  BY <2>2, <3>1, <3>2
<2>11. CASE Finish(r) \/ Die(r)
<3>1. reqs' = reqs \ {r} /\ access' = access /\ made' = made
  BY <2>11, FinishMoves, DieMoves DEF Quiet
<3> QED
  BY <3>1, SinglePasses
<2> QED
  BY <1>5, <2>4, <2>5, <2>6, <2>7, <2>8, <2>9, <2>10, <2>11, Zenon DEF Step
<1> QED
  BY <1>2, <1>3, <1>4, <1>5, Zenon DEF Next

\* A single-login user never has more sessions of its own than there are
\* requests at a time (jwt.create_access_token drops the others, then stores).
THEOREM SingleLoginsBounded == Spec => []SingleLoginOvershoot
<1>1. Init => BaseInv /\ SingleInv
  BY InitBase, InitSingle
<1>2. (BaseInv /\ SingleInv) /\ [Next]_vars => (BaseInv /\ SingleInv)'
  BY StepBase, StepSingle
<1>3. BaseInv /\ SingleInv => SingleLoginOvershoot
<2> SUFFICES ASSUME SingleInv, NEW u \in Users PROVE Cardinality(Singles(u)) <= Parallel
  BY DEF SingleLoginOvershoot, Singles
<2>1. IsFiniteSet(Held(u)) /\ Cardinality(Held(u)) <= Parallel /\ Singles(u) \subseteq Held(u)
  BY DEF SingleInv, Held
<2> QED
  BY <2>1, FewerHeld
<1> QED
  BY <1>1, <1>2, <1>3, PTL DEF Spec

=============================================================================

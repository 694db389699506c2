---------------------------- MODULE Permissions ----------------------------
(***************************************************************************)
(* What a user may do: the rows it follows from (user, roles, menus, data  *)
(* scopes and rules, and the tables that link them), the copy of all of    *)
(* them that get_jwt_user keeps in Redis for each user, the decisions made *)
(* from it, and the requests that change the rows and clear the copies of  *)
(* whom they concern before they commit.                                   *)
(***************************************************************************)
EXTENDS Integers, FiniteSets, JoinedRows

CONSTANTS
    Users, Roles, Menus, Scopes, Rules,
    Loads,          \* requests at a time that load a user
    Changes,        \* changes at a time
    MaxChanges      \* bound: changes

VARIABLES
    db,             \* the committed rows
    change,         \* the changes under way
    cache,          \* the copy of each user
    load,           \* loads under way
    changes,
    (* history *)
    mixed,          \* whether a copy was loaded across a change
    missed          \* whether a change that clears nothing came after it

vars == <<db, change, cache, load, changes, mixed, missed>>

NoView == [roles |-> {}, locked |-> FALSE, kept |-> FALSE]
NoLoad == [user |-> "nobody", view |-> NoView, mixed |-> FALSE]
NoChange == [pc |-> "free"]

-----------------------------------------------------------------------------
(* The rows.  A link may name a row that is gone.                          *)

FirstRows ==
    [super |-> [u \in Users |-> FALSE], staff |-> [u \in Users |-> TRUE],
     dept |-> TRUE,
     roles |-> Roles, roleOn |-> [r \in Roles |-> TRUE], filters |-> [r \in Roles |-> TRUE],
     menus |-> Menus, menuOn |-> [m \in Menus |-> TRUE],
     scopes |-> Scopes, scopeOn |-> [s \in Scopes |-> TRUE],
     rules |-> Rules, version |-> [d \in Rules |-> 0],
     userRole |-> Users \X {CHOOSE r \in Roles : TRUE},
     roleMenu |-> Roles \X {CHOOSE m \in Menus : TRUE},
     roleScope |-> Roles \X Scopes,
     scopeRule |-> Scopes \X Rules]

Init ==
    /\ db = FirstRows
    /\ change = [c \in Changes |-> NoChange] /\ changes = 0
    /\ cache = [u \in Users |-> NoView]
    /\ load = [l \in Loads |-> NoLoad]
    /\ mixed = [u \in Users |-> FALSE] /\ missed = [u \in Users |-> FALSE]

\* What a read finds (JoinedRows), with the columns of each row.
Role(rows, role) ==
    [on |-> rows.roleOn[role.id], filters |-> rows.filters[role.id],
     menus |-> {<<m, rows.menuOn[m]>> : m \in role.menus},
     scopes |-> {<<rows.scopeOn[scope.id], {<<d, rows.version[d]>> : d \in scope.rules}>> :
                    scope \in role.scopes}]

\* get_current_user: a user whose department or whose roles are all disabled
\* is not loaded.
Locked(rows, roles) ==
    \/ ~rows.dept
    \/ roles # {} /\ \A r \in roles : ~rows.roleOn[r]

\* roles: what hangs on the user.
ViewOf(rows, u, roles) ==
    [super |-> rows.super[u], staff |-> rows.staff[u],
     roles |-> {Role(rows, role) : role \in roles},
     locked |-> Locked(rows, {role.id : role \in roles}), kept |-> TRUE]

View(rows, u) == ViewOf(rows, u, Serialized(rows, u))

-----------------------------------------------------------------------------
(* The decisions.                                                          *)

\* rbac_verify, for the path that asks for the permission of a menu.  A role
\* that is disabled counts: its object is compared with 0.
MayUse(view, perm) ==
    \/ view.super
    \/ /\ view.roles # {}
       /\ \E role \in view.roles : role.menus # {}
       /\ view.staff
       /\ \E role \in view.roles : <<perm, TRUE>> \in role.menus

\* filter_data_permission: the rules that limit the rows a user sees.
Unlimited == {<<"all", 0>>}
DataFilter(view) ==
    LET rules == UNION {UNION {scope[2] : scope \in {s \in role.scopes : s[1]}} : role \in view.roles}
    IN IF view.super \/ (\E role \in view.roles : ~role.filters) \/ rules = {}
       THEN Unlimited ELSE rules

\* get_sidebar: a user whose roles have no menus is shown all of them.
Sidebar(view) ==
    LET own == {menu[1] : menu \in UNION {role.menus : role \in view.roles}}
    IN IF view.super \/ (view.roles # {} /\ own = {}) THEN Menus ELSE own

Decisions(view) ==
    IF view.locked THEN [locked |-> TRUE]
    ELSE [locked |-> FALSE, uses |-> {m \in Menus : MayUse(view, m)},
          sees |-> DataFilter(view), shows |-> Sidebar(view)]

-----------------------------------------------------------------------------
(* get_jwt_user.                                                           *)

Select(l, u) ==
    /\ load[l] = NoLoad /\ ~cache[u].kept
    /\ ~View(db, u).locked
    /\ load' = [load EXCEPT ![l] = [user |-> u, view |-> View(db, u),
                    mixed |-> \E c \in Changes : change[c].pc \in {"clear", "commit"}]]
    /\ UNCHANGED <<db, change, cache, changes, mixed, missed>>

Fill(l) ==
    LET u == load[l].user IN
    /\ load[l] # NoLoad
    /\ cache' = [cache EXCEPT ![u] = load[l].view]
    /\ mixed' = [mixed EXCEPT ![u] = load[l].mixed]
    /\ missed' = [missed EXCEPT ![u] = FALSE]
    /\ load' = [load EXCEPT ![l] = NoLoad]
    /\ UNCHANGED <<db, change, changes>>

\* setex: the copy lives as long as a token.
Expire(u) ==
    /\ cache[u].kept
    /\ cache' = [cache EXCEPT ![u] = NoView]
    /\ UNCHANGED <<db, change, load, changes, mixed, missed>>

-----------------------------------------------------------------------------
(* What a change does to the rows, and whose copies it clears: the holders *)
(* that the link tables name once it has written.                          *)

Replace(links, from, to) == {k \in links : k[1] # from} \cup ({from} \X to)

Requests ==
    [what : {"super", "staff"}, of : Users]
    \cup [what : {"roles"}, of : Users, to : SUBSET Roles]
    \cup [what : {"role"}, of : Roles, on : BOOLEAN, filters : BOOLEAN]
    \cup [what : {"roleMenus"}, of : Roles, to : SUBSET Menus]
    \cup [what : {"roleScopes"}, of : Roles, to : SUBSET Scopes]
    \cup [what : {"scopeRules"}, of : Scopes, to : SUBSET Rules]
    \cup [what : {"menu", "menuDelete"}, of : Menus]
    \cup [what : {"scope", "scopeDelete"}, of : Scopes]
    \cup [what : {"rule", "ruleDelete"}, of : Rules]
    \cup [what : {"roleDelete"}, of : Roles]
    \cup [what : {"dept"}, of : {"dept"}]

\* user_service.update, update_permission
UserRows(rows, c) ==
    CASE c.what = "roles" -> [rows EXCEPT !.userRole = Replace(@, c.of, c.to \cap rows.roles)]
      [] c.what = "super" -> [rows EXCEPT !.super[c.of] = ~@]
      [] c.what = "staff" -> [rows EXCEPT !.staff[c.of] = ~@]

\* role_service.update, update_role_menu, update_role_scope, delete
RoleRows(rows, c) ==
    CASE c.what = "role" -> [rows EXCEPT !.roleOn[c.of] = c.on, !.filters[c.of] = c.filters]
      [] c.what = "roleMenus" -> [rows EXCEPT !.roleMenu = Replace(@, c.of, c.to)]
      [] c.what = "roleScopes" -> [rows EXCEPT !.roleScope = Replace(@, c.of, c.to)]
      [] c.what = "roleDelete" -> [rows EXCEPT !.roles = @ \ {c.of}]

\* menu_service.update, delete: the links of the menu go with it.
MenuRows(rows, c) ==
    IF c.what = "menu" THEN [rows EXCEPT !.menuOn[c.of] = ~@]
    ELSE [rows EXCEPT !.menus = @ \ {c.of}, !.roleMenu = {k \in @ : k[2] # c.of}]

\* data_scope_service.update, update_data_scope_rule, delete
ScopeRows(rows, c) ==
    CASE c.what = "scope" -> [rows EXCEPT !.scopeOn[c.of] = ~@]
      [] c.what = "scopeRules" -> [rows EXCEPT !.scopeRule = Replace(@, c.of, c.to)]
      [] c.what = "scopeDelete" -> [rows EXCEPT !.scopes = @ \ {c.of}]

\* data_rule_service.update, delete
RuleRows(rows, c) ==
    IF c.what = "rule" THEN [rows EXCEPT !.version[c.of] = 1 - @]
    ELSE [rows EXCEPT !.rules = @ \ {c.of}]

Write(rows, c) ==
    CASE c.of \in Users -> UserRows(rows, c)
      [] c.of \in Roles -> RoleRows(rows, c)
      [] c.of \in Menus -> MenuRows(rows, c)
      [] c.of \in Scopes -> ScopeRows(rows, c)
      [] c.of \in Rules -> RuleRows(rows, c)
      [] OTHER -> [rows EXCEPT !.dept = ~@]

\* What update looks up first; a deletion looks nothing up, and deletes none.
Exists(rows, c) ==
    /\ c.of \in Users \cup {"dept"} \cup rows.roles \cup rows.menus \cup rows.scopes \cup rows.rules
    /\ c.what \in {"roles", "roleMenus", "roleScopes", "scopeRules"} =>
           c.to \subseteq rows.roles \cup rows.menus \cup rows.scopes \cup rows.rules

\* clear_by_role_id, clear_by_menu_id, clear_by_data_scope_id,
\* clear_by_data_rule_id; a department's change clears nothing.
RolesHolders(rows, roles) == {u \in Users : \E r \in roles : <<u, r>> \in rows.userRole}
MenuHolders(rows, m) == RolesHolders(rows, {r \in Roles : <<r, m>> \in rows.roleMenu})
ScopeHolders(rows, scopes) ==
    RolesHolders(rows, {r \in Roles : \E s \in scopes : <<r, s>> \in rows.roleScope})
\* Variation: the rule's id is compared with those of the scopes.
RuleHoldersOfScope(rows, d) == ScopeHolders(rows, {s \in Scopes : s = d})

RuleHolders(rows, d) == ScopeHolders(rows, {s \in Scopes : <<s, d>> \in rows.scopeRule})

Holders(rows, c) ==
    CASE c.of \in Users -> {c.of}
      [] c.of \in Roles -> RolesHolders(rows, {c.of})
      [] c.of \in Menus -> MenuHolders(rows, c.of)
      [] c.of \in Scopes -> ScopeHolders(rows, {c.of})
      [] c.of \in Rules -> RuleHolders(rows, c.of)
      [] OTHER -> {}

-----------------------------------------------------------------------------
(* A change: the service finds the rows, writes, looks up the holders,     *)
(* clears their copies, and the request commits.                           *)

Begin(c, request) ==
    /\ change[c] = NoChange /\ changes < MaxChanges
    /\ Exists(db, request)
    /\ changes' = changes + 1
    /\ change' = [change EXCEPT ![c] = [pc |-> "write", request |-> request, holders |-> {}]]
    /\ UNCHANGED <<db, cache, load, mixed, missed>>

\* A row that another change has written makes this one wait.
WriteRows(c) ==
    /\ change[c].pc = "write"
    /\ \A d \in Changes :
           change[d].pc \in {"look", "clear", "commit"} => change[d].request.of # change[c].request.of
    /\ change' = [change EXCEPT ![c].pc = "look"]
    /\ UNCHANGED <<db, cache, load, changes, mixed, missed>>

LookUp(c) ==
    /\ change[c].pc = "look"
    /\ change' = [change EXCEPT ![c].pc = "clear",
                      ![c].holders = Holders(Write(db, change[c].request), change[c].request)]
    /\ load' = [l \in Loads |-> IF load[l] = NoLoad THEN NoLoad ELSE [load[l] EXCEPT !.mixed = TRUE]]
    /\ UNCHANGED <<db, cache, changes, mixed, missed>>

Clear(c) ==
    /\ change[c].pc = "clear"
    /\ cache' = [u \in Users |-> IF u \in change[c].holders THEN NoView ELSE cache[u]]
    /\ change' = [change EXCEPT ![c].pc = "commit"]
    /\ UNCHANGED <<db, load, changes, mixed, missed>>

\* Who changes a department or deletes a menu clears nobody's copy.
Commit(c) ==
    /\ change[c].pc = "commit"
    /\ db' = Write(db, change[c].request)
    /\ missed' = [u \in Users |-> missed[u] \/ (cache[u].kept
                                              /\ change[c].request.what \in {"dept", "menuDelete"})]
    /\ change' = [change EXCEPT ![c] = NoChange]
    /\ UNCHANGED <<cache, load, changes, mixed>>

\* An error rolls the rows back; the copies stay cleared.
Rollback(c) ==
    /\ change[c].pc \in {"write", "look", "clear", "commit"}
    /\ change' = [change EXCEPT ![c] = NoChange]
    /\ UNCHANGED <<db, cache, load, changes, mixed, missed>>

Next ==
    \/ \E l \in Loads : (\E u \in Users : Select(l, u)) \/ Fill(l)
    \/ \E u \in Users : Expire(u)
    \/ \E c \in Changes :
           \/ \E request \in Requests : Begin(c, request)
           \/ WriteRows(c) \/ LookUp(c) \/ Clear(c) \/ Commit(c) \/ Rollback(c)

Spec == Init /\ [][Next]_vars

-----------------------------------------------------------------------------
(* Properties.                                                             *)

\* What hangs on a user, from the tables that link it.
Linked(rows, u) ==
    {[id |-> r,
      menus |-> {m \in rows.menus : <<r, m>> \in rows.roleMenu},
      scopes |-> {[id |-> s, rules |-> {d \in rows.rules : <<s, d>> \in rows.scopeRule}] :
                     s \in {t \in rows.scopes : <<r, t>> \in rows.roleScope}}] :
        r \in {q \in rows.roles : <<u, q>> \in rows.userRole}}

\* What a copy decides, folded back from the joined rows (serializers.py:77),
\* is what the committed rows and links decide, unless it was
\* loaded across a change, or the change was one of a department or the
\* deletion of a menu, which clear no copy (cache.py:25, menu_service.py:130,
\* dept_service.py:95).
CopiesDecideAsRows ==
    \A u \in Users :
        cache[u].kept /\ ~mixed[u] /\ ~missed[u] =>
            Decisions(cache[u]) = Decisions(ViewOf(db, u, Linked(db, u)))

=============================================================================

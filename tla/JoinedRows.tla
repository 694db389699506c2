----------------------------- MODULE JoinedRows -----------------------------
(***************************************************************************)
(* How a user is read with all that hangs on them: one query with eight    *)
(* joins (user_dao.get_join), whose flat rows select_join_serialize        *)
(* (utils/serializers.py) folds back into a tree.  The order of rows and   *)
(* columns is left out; an element is its id.                              *)
(***************************************************************************)

Null == "null"

\* The relationships of the call: under what each type hangs.  A type hangs
\* under one other only.
ParentType == [role |-> "user", menu |-> "role", scope |-> "role", rule |-> "scope"]

-----------------------------------------------------------------------------
(* The joins.                                                              *)

\* An outer join: a row without a match stays, with Null.
Matches(links, from, there) ==
    LET found == {to \in there : <<from, to>> \in links}
    IN IF found = {} THEN {Null} ELSE found

JoinRows(rows, u) ==
    UNION {UNION {UNION {{[user |-> u, role |-> r, menu |-> m, scope |-> s, rule |-> d] :
                d \in Matches(rows.scopeRule, s, rows.rules)} :
            s \in Matches(rows.roleScope, r, rows.scopes)} :
        m \in Matches(rows.roleMenu, r, rows.menus)} :
    r \in Matches(rows.userRole, u, rows.roles)}

-----------------------------------------------------------------------------
(* select_join_serialize.                                                  *)

\* Variation: what hangs under the element is looked for in one row only.
HierarchyOfARow(joined, type, parent) ==
    LET mine == {row \in joined : row[ParentType[type]] = parent}
    IN IF mine = {} THEN {} ELSE {(CHOOSE row \in mine : TRUE)[type]} \ {Null}

\* The elements of a type in the rows that hold the element they hang under,
\* each once.
Hierarchy(joined, type, parent) ==
    {row[type] : row \in {j \in joined : j[ParentType[type]] = parent}} \ {Null}

\* recursive_build.
BuildRules(joined, s) == Hierarchy(joined, "rule", s)
BuildScopes(joined, r) ==
    {[id |-> s, rules |-> BuildRules(joined, s)] : s \in Hierarchy(joined, "scope", r)}
BuildRoles(joined, u) ==
    {[id |-> r, menus |-> Hierarchy(joined, "menu", r), scopes |-> BuildScopes(joined, r)] :
        r \in Hierarchy(joined, "role", u)}

Serialized(rows, u) == BuildRoles(JoinRows(rows, u), u)

=============================================================================

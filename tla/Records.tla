------------------------------ MODULE Records ------------------------------
(***************************************************************************)
(* The administration of rows: one resource of the program, the rows of    *)
(* its table, and those of the table they belong to.  A request looks      *)
(* things up, one query after another, and then writes; between the        *)
(* queries other requests commit.  Each resource below says what its       *)
(* service looks up, what its table enforces and whether its session       *)
(* commits.                                                                *)
(***************************************************************************)
EXTENDS Integers, Sequences, FiniteSets

CONSTANTS
    Clients,        \* requests at a time
    Names,          \* the values of the column that must not repeat
    MaxRows,        \* bound: rows ever created
    MaxRequests,    \* bound: requests
    Chosen          \* the resources of a run

VARIABLES
    resource,       \* whose rows these are
    rows,           \* the committed rows
    parents,        \* the rows they may belong to, in another table
    op,             \* the request of each client
    made,           \* rows created so far
    requests,
    (* history *)
    told,           \* rows whose creation was acknowledged, and no deletion
    overlap,        \* whether two requests were under way together
    moved           \* whether a row came among others with its name unchanged

vars == <<resource, rows, parents, op, made, requests, told, overlap, moved>>

Free == [does |-> "nothing"]

-----------------------------------------------------------------------------
(* The services: what each method looks up, in order.                      *)

Simple == [create |-> <<"name">>, update |-> <<"row", "name">>, delete |-> <<>>]
RoleService == Simple
DataScopeService == Simple
DataRuleService == Simple
DictTypeService == Simple
ConfigService == Simple
NoticeService == [create |-> <<>>, update |-> <<"row">>, delete |-> <<>>]
DeptService == [create |-> <<"name", "parent">>,
                update |-> <<"row", "name", "parent", "self">>,
                delete |-> <<"row", "users", "children">>]
MenuService == [create |-> <<"name", "parent">>,
                update |-> <<"row", "name", "parent", "self">>,
                delete |-> <<"children">>]
UserService == [create |-> <<"name", "parent">>,
                update |-> <<"row", "name", "parent">>,
                delete |-> <<"row">>]
DictDataService == [create |-> <<"parent", "name">>,
                    update |-> <<"row", "parent", "name">>,
                    delete |-> <<>>]
TaskSchedulerService == [Simple EXCEPT !.delete = <<"row">>]
ProviderService == [Simple EXCEPT !.delete = <<"row">>]
ModelGroupService == [Simple EXCEPT !.delete = <<"row">>]
RateLimitService == [Simple EXCEPT !.delete = <<"row">>]
ModelService == [create |-> <<"parent", "name">>,
                 update |-> <<"row", "parent", "name">>,
                 delete |-> <<"row">>]
ApiKeyService == [create |-> <<"parent">>,
                  update |-> <<"row", "owner", "parent">>,
                  delete |-> <<"row", "owner">>]
GenBusinessService == [create |-> <<"name">>, update |-> <<>>, delete |-> <<>>]
GenColumnService == [create |-> <<"name">>, update |-> <<"row", "name">>, delete |-> <<>>]

Service ==
    [role |-> RoleService, scope |-> DataScopeService, rule |-> DataRuleService,
     dictType |-> DictTypeService, dictData |-> DictDataService, config |-> ConfigService,
     notice |-> NoticeService, dept |-> DeptService, menu |-> MenuService,
     user |-> UserService, task |-> TaskSchedulerService, provider |-> ProviderService,
     model |-> ModelService, group |-> ModelGroupService, limit |-> RateLimitService,
     key |-> ApiKeyService, business |-> GenBusinessService, column |-> GenColumnService]

-----------------------------------------------------------------------------
(* The tables: whether the column of the names is UNIQUE, and which table  *)
(* a row belongs to; a reference is a foreign key of the database or only  *)
(* a logical one.                                                          *)

Plain == [unique |-> FALSE, parent |-> "none", foreign |-> FALSE]
Role == [Plain EXCEPT !.unique = TRUE]
DataScope == [Plain EXCEPT !.unique = TRUE]
DataRule == [Plain EXCEPT !.unique = TRUE]
DictType == [Plain EXCEPT !.unique = TRUE]
Config == [Plain EXCEPT !.unique = TRUE]
TaskScheduler == [Plain EXCEPT !.unique = TRUE]
ModelProvider == [Plain EXCEPT !.unique = TRUE]
ModelGroup == [Plain EXCEPT !.unique = TRUE]
RateLimitConfig == [Plain EXCEPT !.unique = TRUE]
GenBusiness == [Plain EXCEPT !.unique = TRUE]
Notice == Plain
Dept == [Plain EXCEPT !.parent = "dept"]
Menu == [Plain EXCEPT !.parent = "menu"]
User == [Plain EXCEPT !.unique = TRUE, !.parent = "dept"]
DictData == [Plain EXCEPT !.parent = "dictType"]
ModelConfig == [Plain EXCEPT !.parent = "provider", !.foreign = TRUE]
UserApiKey == [Plain EXCEPT !.parent = "limit"]
GenColumn == [Plain EXCEPT !.parent = "business"]

Table ==
    [role |-> Role, scope |-> DataScope, rule |-> DataRule, dictType |-> DictType,
     dictData |-> DictData, config |-> Config, notice |-> Notice, dept |-> Dept,
     menu |-> Menu, user |-> User, task |-> TaskScheduler, provider |-> ModelProvider,
     model |-> ModelConfig, group |-> ModelGroup, limit |-> RateLimitConfig,
     key |-> UserApiKey, business |-> GenBusiness, column |-> GenColumn]

-----------------------------------------------------------------------------
(* The queries: among which rows a name is looked for, whether a write     *)
(* commits by itself, and whether a deletion takes the rows that belong to *)
(* the deleted one.                                                        *)

InTable == [among |-> "all", commits |-> FALSE, cascades |-> FALSE]
CRUDRole == InTable
CRUDDataScope == InTable
CRUDDataRule == InTable
CRUDDictData == [InTable EXCEPT !.among = "siblings"]
\* Variation: the data of a deleted type stay.
CRUDDictTypeAlone == InTable
CRUDDictType == [InTable EXCEPT !.cascades = TRUE]
CRUDConfig == InTable
CRUDNotice == InTable
CRUDDept == InTable
CRUDMenu == [InTable EXCEPT !.among = "but buttons"]
CRUDUser == InTable
CRUDTaskScheduler == InTable
CRUDProvider == [InTable EXCEPT !.commits = TRUE]
CRUDModelConfig == [InTable EXCEPT !.commits = TRUE]
CRUDModelGroup == InTable
CRUDRateLimitConfig == InTable
CRUDUserApiKey == InTable
CRUDGenBusiness == InTable
CRUDGenColumn == [InTable EXCEPT !.among = "siblings"]

Dao ==
    [role |-> CRUDRole, scope |-> CRUDDataScope, rule |-> CRUDDataRule,
     dictType |-> CRUDDictType, dictData |-> CRUDDictData, config |-> CRUDConfig,
     notice |-> CRUDNotice, dept |-> CRUDDept, menu |-> CRUDMenu, user |-> CRUDUser,
     task |-> CRUDTaskScheduler, provider |-> CRUDProvider, model |-> CRUDModelConfig,
     group |-> CRUDModelGroup, limit |-> CRUDRateLimitConfig, key |-> CRUDUserApiKey,
     business |-> CRUDGenBusiness, column |-> CRUDGenColumn]

-----------------------------------------------------------------------------
(* The routes: the session of the requests that write.  One begins a       *)
(* transaction that is committed with the request, the other is closed.    *)

CurrentSessionTransaction == [begins |-> TRUE]
CurrentSession == [begins |-> FALSE]
RoleRoutes == CurrentSessionTransaction
DataScopeRoutes == CurrentSessionTransaction
DataRuleRoutes == CurrentSessionTransaction
DictTypeRoutes == CurrentSessionTransaction
DictDataRoutes == CurrentSessionTransaction
ConfigRoutes == CurrentSessionTransaction
NoticeRoutes == CurrentSessionTransaction
DeptRoutes == CurrentSessionTransaction
MenuRoutes == CurrentSessionTransaction
UserRoutes == CurrentSessionTransaction
TaskSchedulerRoutes == CurrentSessionTransaction
ProviderRoutes == CurrentSession
ModelRoutes == CurrentSession
ModelGroupRoutes == CurrentSession
RateLimitRoutes == CurrentSession
ApiKeyRoutes == CurrentSession
GenBusinessRoutes == CurrentSessionTransaction
GenColumnRoutes == CurrentSessionTransaction

Routes ==
    [role |-> RoleRoutes, scope |-> DataScopeRoutes, rule |-> DataRuleRoutes,
     dictType |-> DictTypeRoutes, dictData |-> DictDataRoutes, config |-> ConfigRoutes,
     notice |-> NoticeRoutes, dept |-> DeptRoutes, menu |-> MenuRoutes,
     user |-> UserRoutes, task |-> TaskSchedulerRoutes, provider |-> ProviderRoutes,
     model |-> ModelRoutes, group |-> ModelGroupRoutes, limit |-> RateLimitRoutes,
     key |-> ApiKeyRoutes, business |-> GenBusinessRoutes, column |-> GenColumnRoutes]

Parent == Table[resource].parent
Nested == Parent = resource
Belongs == Parent \notin {"none", resource}
Siblings == Dao[resource].among = "siblings"
Commits(r) == Routes[r].begins \/ Dao[r].commits

-----------------------------------------------------------------------------
Init ==
    /\ resource \in Chosen
    /\ rows = {} /\ made = 0 /\ requests = 0
    /\ parents = IF Belongs THEN {-1, -2} ELSE {}
    /\ op = [c \in Clients |-> Free]
    /\ told = {} /\ overlap = FALSE /\ moved = FALSE

Ids == {row.id : row \in rows}
Places == IF Nested THEN {0} \cup (1..MaxRows)
          ELSE IF Belongs THEN {-1, -2} ELSE {0}

Begin(c, request) ==
    /\ op[c] = Free /\ requests < MaxRequests
    /\ requests' = requests + 1
    /\ op' = [op EXCEPT ![c] = request]
    /\ overlap' = (overlap \/ \E d \in Clients \ {c} : op[d] # Free)
    /\ UNCHANGED <<resource, rows, parents, made, told, moved>>

\* button: a menu entry of type 2, whose title may repeat.
Create(c, name, place, button) ==
    /\ made < MaxRows
    /\ button => resource = "menu"
    /\ Begin(c, [does |-> "create", todo |-> Service[resource].create,
                 id |-> 0, name |-> name, in |-> place, button |-> button, was |-> "none", by |-> c])

Update(c, id, name, place, button) ==
    /\ button => resource = "menu"
    /\ Begin(c, [does |-> "update", todo |-> Service[resource].update,
                 id |-> id, name |-> name, in |-> place, button |-> button, was |-> "none", by |-> c])

Delete(c, id) ==
    Begin(c, [does |-> "delete", todo |-> Service[resource].delete,
              id |-> id, name |-> "none", in |-> 0, button |-> FALSE, was |-> "none", by |-> c])

\* The resource of the other table, which has services of its own.
DeleteParent(c, id) ==
    /\ Belongs
    /\ Begin(c, [does |-> "delete", todo |-> Service[Parent].delete,
                 id |-> id, name |-> "none", in |-> 0, button |-> FALSE, was |-> "none", by |-> c])

-----------------------------------------------------------------------------
(* The look-ups.                                                           *)

Found(o) == o.id \in Ids \cup parents
TheRow(o) == CHOOSE row \in rows : row.id = o.id

\* get_by_name: a button's title is not looked at.
Taken(o) ==
    \E row \in rows :
        /\ row.name = o.name
        /\ Dao[resource].among = "but buttons" => ~row.button
        /\ Siblings => row.in = o.in
\* Variation: only a creation looks.
NameFreeOnCreation(o) == o.does = "update" \/ ~Taken(o)

NameFree(o) == o.name = o.was \/ ~Taken(o)

ParentFound(o) == o.in = 0 \/ o.in \in (IF Nested THEN Ids ELSE parents)
Children(o) == {row \in rows : row.in = o.id}

Passes(look, o) ==
    CASE look = "row" -> Found(o)
      [] look = "name" -> NameFree(o)
      [] look = "parent" -> ParentFound(o)
      [] look = "self" -> o.in # o.id
      [] look = "owner" -> \A row \in rows : row.id = o.id => row.by = o.by
      [] look = "users" -> resource = "user" => Children(o) = {}
      [] look = "children" -> Nested => Children(o) = {}

\* One query.  An update compares with the row it found.
LookUp(c) ==
    LET o == op[c]
        look == Head(o.todo)
        was == IF look = "row" /\ o.id \in Ids THEN TheRow(o).name ELSE o.was
    IN
    /\ o # Free /\ o.todo # <<>>
    /\ op' = [op EXCEPT ![c] =
                 IF Passes(look, o) THEN [o EXCEPT !.todo = Tail(o.todo), !.was = was] ELSE Free]
    /\ UNCHANGED <<resource, rows, parents, made, requests, told, overlap, moved>>

-----------------------------------------------------------------------------
(* The write, its commit and the answer, which is an error if the database *)
(* refuses, and a failure if no row was there.                             *)

Ready(c, does) == op[c] # Free /\ op[c].todo = <<>> /\ op[c].does = does
Done(c) == op' = [op EXCEPT ![c] = Free]

Refused(o) ==
    \/ Table[resource].unique /\ \E row \in rows : row.name = o.name /\ row.id # o.id
    \/ Table[resource].foreign /\ ~ParentFound(o)

RowOf(o, id) == [id |-> id, name |-> o.name, in |-> o.in, button |-> o.button, by |-> o.by]

Insert(c) ==
    LET o == op[c] IN
    /\ Ready(c, "create") /\ ~Refused(o) /\ made < MaxRows
    /\ made' = made + 1
    /\ rows' = IF Commits(resource) THEN rows \cup {RowOf(o, made + 1)} ELSE rows
    /\ told' = told \cup {made + 1}
    /\ Done(c)
    /\ UNCHANGED <<resource, parents, requests, overlap, moved>>

\* Whether the name is one the request's own check never compared.
Moves(o) ==
    \/ TheRow(o).button /\ ~o.button
    \/ Siblings /\ TheRow(o).in # o.in

Replace(c) ==
    LET o == op[c] IN
    /\ Ready(c, "update") /\ ~Refused(o) /\ o.id \in Ids
    /\ rows' = IF Commits(resource)
               THEN (rows \ {TheRow(o)}) \cup {[RowOf(o, o.id) EXCEPT !.by = TheRow(o).by]}
               ELSE rows
    /\ moved' = (moved \/ (Moves(o) /\ TheRow(o).name = o.name))
    /\ Done(c)
    /\ UNCHANGED <<resource, parents, made, requests, told, overlap>>

Remove(c) ==
    LET o == op[c] IN
    /\ Ready(c, "delete") /\ o.id \in Ids
    /\ rows' = IF Commits(resource) THEN rows \ {TheRow(o)} ELSE rows
    /\ told' = told \ {o.id}
    /\ Done(c)
    /\ UNCHANGED <<resource, parents, made, requests, overlap, moved>>

RemoveParent(c) ==
    LET o == op[c]
        gone == IF Dao[Parent].cascades THEN Children(o) ELSE {}
    IN
    /\ Ready(c, "delete") /\ o.id \in parents
    /\ Table[resource].foreign => Children(o) = {}
    /\ parents' = IF Commits(Parent) THEN parents \ {o.id} ELSE parents
    /\ rows' = IF Commits(Parent) THEN rows \ gone ELSE rows
    /\ told' = told \ {row.id : row \in gone}
    /\ Done(c)
    /\ UNCHANGED <<resource, made, requests, overlap, moved>>

\* An error of the database, or no row to change.
WriteFails(c) ==
    LET o == op[c] IN
    /\ op[c] # Free /\ op[c].todo = <<>>
    /\ \/ o.does \in {"create", "update"} /\ Refused(o)
       \/ o.does \in {"update", "delete"} /\ ~Found(o)
       \/ o.does = "delete" /\ Table[resource].foreign /\ o.id \in parents /\ Children(o) # {}
    /\ Done(c)
    /\ UNCHANGED <<resource, rows, parents, made, requests, told, overlap, moved>>

Next ==
    \E c \in Clients :
        \/ \E name \in Names, place \in Places, button \in BOOLEAN : Create(c, name, place, button)
        \/ \E id \in 1..made, name \in Names, place \in Places, button \in BOOLEAN :
               Update(c, id, name, place, button)
        \/ \E id \in 1..made : Delete(c, id)
        \/ \E id \in {-1, -2} : DeleteParent(c, id)
        \/ LookUp(c) \/ Insert(c) \/ Replace(c) \/ Remove(c) \/ RemoveParent(c) \/ WriteFails(c)

Spec == Init /\ [][Next]_vars

-----------------------------------------------------------------------------
(* traversal_to_tree (utils/build_tree.py): the nodes a tree shows.        *)

\* Variation: recursive_to_tree, which begins with the rows without parent.
TopsWithoutParent(nodes) == {n \in nodes : n.in = 0}

Tops(nodes) == {n \in nodes : n.in = 0 \/ \A p \in nodes : p.id # n.in}

Shown(nodes) ==
    LET below[k \in 0..MaxRows] ==
            IF k = 0 THEN Tops(nodes)
            ELSE below[k - 1] \cup {n \in nodes : \E p \in below[k - 1] : p.id = n.in}
    IN below[MaxRows]

-----------------------------------------------------------------------------
(* Properties.                                                             *)

\* Two rows share a name that the services check only where nothing but the
\* services checks it, and then only because two requests were under way
\* together, or an update brought a row among others without its check
\* (role_service.py:109, dict_data_service.py:131, crud_menu.py:24).
NamesAreUnique ==
    \A a, b \in rows :
        /\ a # b /\ a.name = b.name /\ ~a.button /\ ~b.button
        /\ Siblings => a.in = b.in
        =>
        ~Table[resource].unique /\ (overlap \/ moved \/ resource \in {"notice", "key"})

\* A row belongs to one that is gone only if the two requests were under way
\* together, or the deletion looks at no children; with a foreign key, never
\* (dept_service.py:98, menu_service.py:126, crud_dict_type.py:82).
ParentsExist ==
    \A row \in rows :
        ~ParentFound(row) =>
            /\ ~Table[resource].foreign
            /\ overlap \/ resource = "column"

\* A tree shows every row that does not descend from itself, also one whose
\* parent is gone (build_tree.py:25).
TreeShowsAll ==
    Nested =>
        \A row \in rows \ Shown(rows) :
            \E chain \in [0..MaxRows -> rows] :
                /\ chain[0] = row
                /\ \A k \in 1..MaxRows : chain[k].id = chain[k - 1].in

\* What the answer to a creation says: the row is there (api_keys.py:68).
CreatedRowsExist == \A id \in told : id \in Ids

=============================================================================

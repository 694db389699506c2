----------------------------- MODULE MCRequests -----------------------------
(***************************************************************************)
(* The requests of clients and those of administrators, in one run: calls  *)
(* of the LLM gateway, calls with one API key, and the administration of   *)
(* rows.  A behaviour follows one of them.                                 *)
(***************************************************************************)
EXTENDS MCLLMGateway

CONSTANTS Clients, Names, MaxRows, MaxRequests, Chosen,
          Calls, DefaultDaily, Limits, MaxTokens
VARIABLES part, resource, rows, parents, op, made, requests, told, overlap, moved,
          key, config, token, call, daily, hasty

Tables == INSTANCE Records
Keys == INSTANCE ApiKeys

\* The chosen are resources, and no name is the mark of an update that has
\* not found its row yet.
ASSUME ResourcesAreKnown == Chosen \subseteq DOMAIN Tables!Service /\ "none" \notin Names /\ MaxRows \in Nat

tableVars == <<resource, rows, parents, op, made, requests, told, overlap, moved>>
keyVars == <<key, config, token, call, daily, hasty>>

RequestsInit ==
    /\ Init /\ Tables!Init /\ Keys!Init
    /\ part \in {"gateway", "tables", "keys"}
    /\ part = "tables" \/ resource = "role"
    /\ part = "keys" \/ (key.custom = 0 /\ key.status = "ACTIVE" /\ config = Keys!NoConfig)

RequestsNext ==
    /\ UNCHANGED part
    /\ \/ part = "gateway" /\ Next /\ UNCHANGED <<tableVars, keyVars>>
       \/ part = "tables" /\ Tables!Next /\ UNCHANGED <<vars, keyVars>>
       \/ part = "keys" /\ Keys!Next /\ UNCHANGED <<vars, tableVars>>

NamesAreUnique == Tables!NamesAreUnique
ParentsExist == Tables!ParentsExist
TreeShowsAll == Tables!TreeShowsAll
KeyOvershootsOnce == Keys!KeyOvershootsOnce

\* Requests are alike, those of administrators too.
Alike == Symmetry \cup Permutations(Clients)

=============================================================================

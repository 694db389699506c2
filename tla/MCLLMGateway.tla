---------------------------- MODULE MCLLMGateway ----------------------------
(***************************************************************************)
(* Instances of LLMGateway for TLC.  In the group of three models, one and *)
(* three belong to the same provider, so that a fallback scan can meet the *)
(* refusing provider again and ask one breaker twice.                      *)
(***************************************************************************)
EXTENDS LLMGateway, TLC

ModelsThree == {"one", "two", "three"}
ProvidersTwo == {"p", "q"}
ProviderOfThree == [m \in ModelsThree |-> IF m = "two" THEN "q" ELSE "p"]
GroupThree == <<"one", "two", "three">>

ModelsOne == {"one"}
ProvidersOne == {"p"}
ProviderOfOne == [m \in ModelsOne |-> "p"]
GroupOne == <<"one">>

Symmetry == Permutations(Requests)

=============================================================================

------------------------------ MODULE MCServices ------------------------------
(* Values for the administrative services. *)
EXTENDS Services, TLC

CONSTANTS p1, p2, b1, b2, x1, x2

-----------------------------------------------------------------------------
(* Values *)

QuestionListsDef == {<<"bare", "bare">>, <<"labeled">>}
\* None, and one more than is taken.
SpecListsDef == LET turn == [message |-> TRUE, reference |-> FALSE]
                    own == [message |-> FALSE, reference |-> TRUE]
                IN  {<<>>, <<turn, own, own>>}
TypeOfDef == 1 :> "llm" @@ 2 :> "llm" @@ 3 :> "rerank"
AllCodes == {"user:write", "role:write", "system:read", "audit:read"}
BuiltinCodesDef == "super_admin" :> AllCodes @@ "admin" :> (AllCodes \ {"role:write"}) @@ "guest" :> {}
RankDef == "super_admin" :> 100 @@ "admin" :> 50 @@ "guest" :> 10 @@ "user" :> 10 @@ "team" :> 5
LevelDef == "super_admin" :> 2 @@ "admin" :> 1 @@ "guest" :> 0 @@ "user" :> 0 @@ "team" :> 0
SuccessorDef == "user" :> "guest"
TablesDef == {<<1, 1, 3, 1>>}
AnswerFromDef == b1 :> "f1" @@ b2 :> "f1"
Symmetry == Permutations({p1, p2}) \cup Permutations({b1, b2}) \cup Permutations({x1, x2})
=============================================================================

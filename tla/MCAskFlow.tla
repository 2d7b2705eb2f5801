------------------------------ MODULE MCAskFlow ------------------------------
(* Two documents in two bases, two conversations. *)
EXTENDS AskFlow

CONSTANTS a1, a2, d1, d2, k1, k2

KbOf == d1 :> k1 @@ d2 :> k2
ChunksOf == {<<d1, 1>>, <<d1, 2>>, <<d1, 3>>, <<d2, 1>>}

ConversationsSym == Permutations({a1, a2})
=============================================================================

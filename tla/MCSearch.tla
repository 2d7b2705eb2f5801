-------------------------------- MODULE MCSearch --------------------------------
(* Values for Search.                                                            *)
EXTENDS Search, TLC

CONSTANTS a, b, c, d, x1, x2, b1, b2

-----------------------------------------------------------------------------
(* Values *)

\* Every text of five characters, and every page of up to five lines.
TextsDef == [1..5 -> {"x", " ", "newline", "#"}]
PagesDef == UNION {[1..n -> {"h1", "h2", "line", "blank", "fence"}] : n \in 1..5}

\* Pages of up to three blocks, with one long text, one empty one and two tables.
TextBlock(t) == [type |-> "text", text |-> t]
BlocksDef == {TextBlock(<<"x", "x", " ", "x", "newline", "newline", "#", "x">>), TextBlock(<<>>),
              [type |-> "table", rows |-> 1], [type |-> "table", rows |-> 4], [type |-> "image"]}
LayoutsDef == UNION {[1..n -> BlocksDef] : n \in 1..3}

Hit(chunk, score) == [chunk |-> chunk, score |-> score]
FindsDef == {<<Hit(a, 60), Hit(b, 30)>>, <<Hit(c, 60), Hit(a, 60), Hit(d, 20)>>, <<Hit(b, 20)>>}
RewritesDef == {[rewrite |-> r, expansions |-> e, hyde |-> h] :
                  r \in Queries \cup {NoQuery}, e \in {<<>>, <<"q2">>, <<"q1", "q3", "q2">>}, h \in BOOLEAN}
Scored(index, score) == [index |-> index, score |-> score]
\* In another order, with an index twice, and with none that is right.
RepliesDef == {<<Scored(1, 50), Scored(0, 20)>>, <<Scored(0, 30), Scored(0, 50), Scored(2, 80)>>, <<Scored(7, 50)>>}

MatchesDef == {{}, {a, b}, {b, c, d}}
OrderDef == <<a, b, c, d>>
BaseOfDef == a :> "k1" @@ b :> "k1" @@ c :> "k2" @@ d :> "k1"
TargetsDef == <<"k1", "k2">>
\* Similar to the question are long texts that cover little of it, and the
\* other way round.
SimilarityDef == [q \in Queries |-> IF q = "q2" THEN a :> 5 @@ b :> 50 @@ c :> 5 @@ d :> 10
                                    ELSE a :> 10 @@ b :> 5 @@ c :> 30 @@ d :> 30]
GramsDef == [q \in Queries |-> IF q = "q3" THEN {} ELSE {"g1", "g2", "g3"}]
GramsInDef == a :> {} @@ b :> {"g1", "g2", "g3"} @@ c :> {"g1"} @@ d :> {"g1", "g2"}

\* Documents of one and of two batches; questions that are one another's but
\* for a character or a mark, and two in one; refs that are wrong or repeated.
DocumentsDef == {[chunks |-> 2, chars |-> 100], [chunks |-> 3, chars |-> 900]}
Ask(s) == s \o <<"?">>
Long == <<"w", "x", "y", "z", "u">>
Item(question, said, refs) == [question |-> question, answer |-> said, refs |-> refs]
ModelRepliesDef ==
    {<<Item(Ask(Long), "one", <<1>>), Item(<<"secret">>, "one", <<1>>)>>,
     <<Item(Long, "two", <<2, 1, 2, 1>>), Item(<<"x", "each", "w">>, "secret", <<2>>)>>,
     <<Item(Append(Long, "x"), "one", <<1, 9>>), Item(<<"w", "each", "w">>, "one", <<1>>)>>,
     <<Item(<<"x", "?", "y", "?">>, "two", <<2>>), Item(<<"y", "z">>, "brief", <<1>>), Item(<<>>, "one", <<1>>)>>}
ActiveSetsDef == {{}, {Append(Long, "y")}, {<<"y", "z">>}}

HomeDef == x1 :> b1 @@ x2 :> b2
Symmetry == {x1 :> x2 @@ x2 :> x1 @@ b1 :> b2 @@ b2 :> b1}
=============================================================================

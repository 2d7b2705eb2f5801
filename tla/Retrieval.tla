------------------------------ MODULE Retrieval ------------------------------
(***************************************************************************)
(* One retrieval: the question is rewritten and expanded by a language     *)
(* model, searched for in the vectors and in the text of the chunks, the   *)
(* ranked lists are fused, reranked and cut at the relevance threshold;    *)
(* when nothing is found the question itself is searched for once more.    *)
(* Every service on the way may fail.                                      *)
(***************************************************************************)
EXTENDS Integers, Sequences, FiniteSets, FiniteSetsExt, SequencesExt, Lists

CONSTANTS
    Strategies,     \* of "vector", "fulltext", "hybrid"
    Queries,        \* query texts that differ in more than case
    Question,       \* the one of them the user asked
    NoQuery,        \* the blank text
    Rewrites,       \* what the model may answer: [rewrite, expansions, hyde]
    ExpansionCount, \* expansion_count of the administrator
    Finds,          \* ranked lists a search may give: [chunk, score], best first
    Targets, BaseOf, \* the bases to search, in order, and the base of each chunk
    Matches,        \* sets of chunks the patterns of a text may be found in
    Order,          \* the chunks by document and place
    Similarity,     \* of each text and chunk, as pg_trgm counts it
    Grams, GramsIn, \* the n-grams of each text (of a short one, itself); of each chunk
    Cjk,            \* texts with Chinese in them
    Replies,        \* what the reranker may answer: [index, score]
    TopK, Multiplier, CandidateLimit, \* top_k, RERANK_CANDIDATE_MULTIPLIER, 50
    RrfK,           \* QA_RRF_K
    Full,           \* the score 1.0, in the units scores are counted in
    Threshold       \* QA_RELEVANCE_THRESHOLD in these units

Hits == [chunk : ToSet(Order), score : Nat]

ASSUME RetrievalAssumption ==
    /\ Question \in Queries /\ NoQuery \notin Queries
    /\ Rewrites \subseteq [rewrite : Queries \cup {NoQuery}, expansions : Seq(Queries \cup {NoQuery}),
                           hyde : BOOLEAN]
    /\ \A f \in Finds : /\ f \in Seq(Hits)
                        /\ \A i, j \in DOMAIN f : i < j => f[i].score >= f[j].score
                        /\ \A i, j \in DOMAIN f : f[i].chunk = f[j].chunk => i = j
    /\ Order \in Seq(ToSet(Order)) /\ IsInjective(Order)
    /\ Targets \in Seq(ToSet(Targets)) /\ IsInjective(Targets)
    /\ BaseOf \in [ToSet(Order) -> ToSet(Targets)]
    /\ Matches \subseteq SUBSET ToSet(Order)
    /\ Similarity \in [Queries -> [ToSet(Order) -> 0..Full]] /\ Cjk \subseteq Queries
    /\ \A q \in Queries : IsFiniteSet(Grams[q])
    /\ Replies \subseteq Seq([index : Int, score : Int])
    /\ {TopK, CandidateLimit} \subseteq Nat \ {0}
    /\ {Multiplier, RrfK, Full, Threshold, ExpansionCount} \subseteq Nat

VARIABLES
    request,    \* strategy, and whether there is a knowledge base to search
    retrieval_stage, \* where the request is
    query,      \* main, expansions, hyde, and whether this is the second try
    to_search,  \* texts still to be searched for in the chunks
    ranked,     \* the lists found
    candidates, \* their fusion
    answer      \* the hits

retrieval_vars == <<request, retrieval_stage, query, to_search, ranked, candidates, answer>>

CandidateK == Min({CandidateLimit, Max({TopK, TopK * Max({1, Multiplier})})})
Cut_(list, n) == SubSeq(list, 1, Min({n, Len(list)}))
ChunksIn(list) == {list[i].chunk : i \in DOMAIN list}
RankOfChunk(list, c) == CHOOSE i \in DOMAIN list : list[i].chunk = c

-----------------------------------------------------------------------------
(* The query *)

\* _build_result: the first new expansions.  The limit is looked at after one
\* is taken, so that a limit of 0 takes one.
NewTexts(texts, known) ==
    LET new[i \in 0..Len(texts)] ==
            IF i = 0 THEN <<>>
            ELSE IF texts[i] \in known \cup {NoQuery} \cup ToSet(new[i - 1]) THEN new[i - 1]
            ELSE Append(new[i - 1], texts[i])
    IN  new[Len(texts)]
BuildResult(reply) ==
    LET main == IF reply.rewrite = NoQuery THEN Question ELSE reply.rewrite IN
    [main |-> main,
     expansions |-> Cut_(NewTexts(reply.expansions, {Question, main}), Max({1, ExpansionCount})),
     hyde |-> reply.hyde, again |-> FALSE]

\* The fallback of process, and the second try.
AsAsked(again) == [main |-> Question, expansions |-> <<>>, hyde |-> FALSE, again |-> again]

\* search_variants of retrieve.
Variants(q) == <<q.main>> \o NewTexts(q.expansions, {q.main})

\* process: without an answer that can be read, the question as it is.
ProcessQuery ==
    /\ retrieval_stage = "query"
    /\ \/ query' = AsAsked(FALSE)
       \/ \E reply \in Rewrites : query' = BuildResult(reply)
    /\ retrieval_stage' = "vectors"
    /\ UNCHANGED <<request, to_search, ranked, candidates, answer>>

-----------------------------------------------------------------------------
(* The channels *)

\* retrieve without a knowledge base.
NothingToSearch ==
    /\ retrieval_stage = "vectors" /\ ~request.targets
    /\ retrieval_stage' = "found"
    /\ UNCHANGED <<request, query, to_search, ranked, candidates, answer>>

\* _search_by_embedding: some of each base, which has a collection of its own,
\* and the best of all of them; of equal score those of the first base first.
PerBaseK == Max({CandidateK, Min({2 * CandidateK, 20})})
OfBase(found, base) ==
    Cut_(Sift(found, {i \in DOMAIN found : BaseOf[found[i].chunk] = base}), Max({1, PerBaseK}))
VectorHits(found) ==
    LET all == FlattenSeq([t \in DOMAIN Targets |-> OfBase(found, Targets[t])])
        sorted == BestFirst(DOMAIN all, [i \in DOMAIN all |-> all[i].score], [i \in DOMAIN all |-> i])
    IN  Cut_([i \in DOMAIN sorted |-> all[sorted[i]]], Max({1, CandidateK}))

VectorLists == {VectorHits(found) : found \in Finds} \cup {<<>>}

\* search_many, for all texts and the hypothetical document at once: when the
\* embeddings fail nothing is found, and a search that fails or finds nothing
\* gives no list.
SearchVectors ==
    /\ retrieval_stage = "vectors" /\ request.targets
    /\ LET n == Len(Variants(query)) + (IF query.hyde THEN 1 ELSE 0) IN
       IF request.strategy = "fulltext" THEN ranked' = <<>>
       ELSE \E hits \in [1..n -> VectorLists] : ranked' = Sift(hits, {i \in 1..n : hits[i] # <<>>})
    /\ to_search' = IF request.strategy = "vector" THEN <<>> ELSE Variants(query)
    /\ retrieval_stage' = "text"
    /\ UNCHANGED <<request, query, candidates, answer>>

\* (Mutant: one list after the other.)
AppendByChunkId(first, second) ==
    Cut_(first \o Sift(second, {i \in DOMAIN second : second[i].chunk \notin ChunksIn(first)}), CandidateK)

\* Chunks with their scores; of equal scores the one met first.
FirstPlaces(met) == [c \in ToSet(met) |-> Min({i \in DOMAIN met : met[i] = c})]
ScoredList(chunks_, score, place) ==
    LET sorted == BestFirst(chunks_, score, place)
    IN  [i \in DOMAIN sorted |-> [chunk |-> sorted[i], score |-> score[sorted[i]]]]

\* _merge_by_chunk_id: of two hits of a chunk the one with the higher score.
ScoreIn(list, c) == IF c \in ChunksIn(list) THEN list[RankOfChunk(list, c)].score ELSE -1
MergeByChunkId(first, second) ==
    LET order == [i \in DOMAIN (first \o second) |-> (first \o second)[i].chunk]
        score == [c \in ToSet(order) |-> Max({ScoreIn(first, c), ScoreIn(second, c)})]
    IN  Cut_(ScoredList(ToSet(order), score, FirstPlaces(order)), CandidateK)

\* _lexical_coverage_score: the share of the text's n-grams that are in a chunk.
LexicalCoverage(text, c) ==
    IF Grams[text] = {} THEN 0
    ELSE (Full * Cardinality(Grams[text] \cap GramsIn[c])) \div Cardinality(Grams[text])

\* _search_trgm: the most similar of the chunks found, ties in any order.  They
\* are scored after they were ordered, Chinese by coverage too: the list need
\* not be best first.
TrigramLists(text, found) ==
    LET Score(c) == IF text \in Cjk THEN Max({Similarity[text][c], LexicalCoverage(text, c)})
                    ELSE Similarity[text][c] IN
    {Cut_([i \in DOMAIN l |-> [chunk |-> l[i], score |-> Score(l[i])]], CandidateK) :
        l \in {m \in SetToSeqs(found) :
                 \A i, j \in DOMAIN m : i < j => Similarity[text][m[i]] >= Similarity[text][m[j]]}}

\* _search_ilike_fallback: the hundred chunks it may take are all that are found.
IlikeHits(text, found) ==
    Cut_(ScoredList(found, [c \in found |-> LexicalCoverage(text, c)], FirstPlaces(Order)), Max({1, CandidateK}))

\* Without the trigram extension its query fails and substrings are searched
\* for; when that fails too nothing is found.
SecondLists(text, found) == TrigramLists(text, found) \cup {IlikeHits(text, found), <<>>}

\* search of the fulltext retriever: by words, and when they do not give enough
\* by substrings too.
FulltextHits(words, second) ==
    LET first == Cut_(words, CandidateK) IN
    IF Len(first) < CandidateK THEN MergeByChunkId(first, second) ELSE first

SearchText ==
    /\ retrieval_stage = "text" /\ to_search # <<>>
    /\ \E words \in Finds \cup {<<>>}, found \in Matches :
          \E second \in SecondLists(Head(to_search), found) :
             LET hits == FulltextHits(words, second) IN
             ranked' = IF hits = <<>> THEN ranked ELSE Append(ranked, hits)
    /\ to_search' = Tail(to_search)
    /\ UNCHANGED <<request, retrieval_stage, query, candidates, answer>>

-----------------------------------------------------------------------------
(* Fusion, reranking, threshold *)

\* 1 / (k + rank), times Denominator.
Denominator ==
    LET product[r \in 0..CandidateK] == IF r = 0 THEN 1 ELSE product[r - 1] * (RrfK + r) IN product[CandidateK]
Part(list, c) == IF c \in ChunksIn(list) THEN Denominator \div (RrfK + RankOfChunk(list, c)) ELSE 0

\* (Mutant: the last list counts alone.)
LastPart(lists, c) ==
    LET of == {i \in DOMAIN lists : c \in ChunksIn(lists[i])} IN Part(lists[Max(of)], c)

\* The score of _rrf_fuse_many.
RrfScore(lists, c) ==
    LET sum[i \in 0..Len(lists)] == IF i = 0 THEN 0 ELSE sum[i - 1] + Part(lists[i], c) IN sum[Len(lists)]

\* _normalize_rrf: 1.0 is to be the first of every list.
NormalizeRrf(score, n) == Min({Full, (score * (RrfK + 1) * Full) \div (Denominator * n)})

\* _rrf_fuse_many: chunks of equal score in the order they were met.
RrfFuse(lists) ==
    LET met == FlattenSeq([i \in DOMAIN lists |-> [j \in DOMAIN lists[i] |-> lists[i][j].chunk]])
        score == [c \in ToSet(met) |-> RrfScore(lists, c)]
        sorted == BestFirst(ToSet(met), score, FirstPlaces(met))
    IN  Cut_([i \in DOMAIN sorted |->
                [chunk |-> sorted[i], score |-> NormalizeRrf(score[sorted[i]], Len(lists))]],
             CandidateK)

\* A single list keeps its scores.
Fuse ==
    /\ retrieval_stage = "text" /\ to_search = <<>>
    /\ candidates' = CASE ranked = <<>> -> <<>>
                       [] Len(ranked) = 1 -> Cut_(ranked[1], CandidateK)
                       [] OTHER -> RrfFuse(ranked)
    /\ retrieval_stage' = "rerank"
    /\ UNCHANGED <<request, query, to_search, ranked, answer>>

Clamped(score) == Max({0, Min({Full, score})})

\* _apply_results: indices that are wrong or come again are passed over.
ApplyResults(hits, reply) ==
    LET results[k \in 0..Len(reply)] ==
            IF k = 0 THEN <<>>
            ELSE IF reply[k].index + 1 \notin DOMAIN hits THEN results[k - 1]
            ELSE LET chunk == hits[reply[k].index + 1].chunk IN
                 IF chunk \in ChunksIn(results[k - 1]) THEN results[k - 1]
                 ELSE Append(results[k - 1], [chunk |-> chunk, score |-> Clamped(reply[k].score)])
    IN  results[Len(reply)]

\* rerank: without a configuration, an answer, or a usable result in it the
\* candidates stay as they are.
Reranked(reply) ==
    LET results == ApplyResults(candidates, reply) IN
    Cut_(IF results = <<>> THEN candidates ELSE results, TopK)

\* (Mutant: then nothing is kept.)
KeepRelevantOnly(hits) == Sift(hits, {i \in DOMAIN hits : hits[i].score >= Threshold})

\* _apply_threshold, and what retrieve keeps when nothing reaches it.
KeepRelevant(hits) ==
    LET relevant == Sift(hits, {i \in DOMAIN hits : hits[i].score >= Threshold}) IN
    IF relevant = <<>> THEN Cut_(hits, TopK) ELSE relevant

RerankAndCut ==
    /\ retrieval_stage = "rerank"
    /\ \E reply \in Replies \cup {<<>>} : answer' = KeepRelevant(Reranked(reply))
    /\ retrieval_stage' = "found"
    /\ UNCHANGED <<request, query, to_search, ranked, candidates>>

\* An answer that is not a JSON object is an error rerank does not catch.
RerankRaises ==
    /\ retrieval_stage = "rerank" /\ candidates # <<>>
    /\ retrieval_stage' = "raised"
    /\ UNCHANGED <<request, query, to_search, ranked, candidates, answer>>

\* The pipeline: nothing found for a rewritten question, the question itself.
TryAgain ==
    /\ retrieval_stage = "found" /\ answer = <<>> /\ ~query.again /\ query.main # Question
    /\ query' = AsAsked(TRUE) /\ retrieval_stage' = "vectors"
    /\ ranked' = <<>> /\ candidates' = <<>>
    /\ UNCHANGED <<request, to_search, answer>>

-----------------------------------------------------------------------------
(* Specification *)

RetrievalInit ==
    /\ \E s \in Strategies, b \in BOOLEAN : request = [strategy |-> s, targets |-> b]
    /\ retrieval_stage = "query" /\ query = AsAsked(FALSE)
    /\ to_search = <<>> /\ ranked = <<>> /\ candidates = <<>> /\ answer = <<>>

RetrievalNext ==
    \/ ProcessQuery \/ NothingToSearch \/ SearchVectors \/ SearchText
    \/ Fuse \/ RerankAndCut \/ RerankRaises \/ TryAgain

RetrievalSpec == RetrievalInit /\ [][RetrievalNext]_retrieval_vars

-----------------------------------------------------------------------------
(* Properties *)

\* A chunk that is in every list another is in, and ahead of it there, is ahead
\* of it after the fusion, whatever lists were found and whichever of them it
\* is in besides (_rrf_fuse_many).
Ahead(lists, c, d) ==
    \A i \in DOMAIN lists : d \in ChunksIn(lists[i]) =>
        c \in ChunksIn(lists[i]) /\ RankOfChunk(lists[i], c) < RankOfChunk(lists[i], d)
Dominance ==
    retrieval_stage = "rerank" =>
        \A i \in DOMAIN candidates : \A c \in UNION {ChunksIn(ranked[j]) : j \in DOMAIN ranked} :
            c # candidates[i].chunk /\ Ahead(ranked, c, candidates[i].chunk) =>
                \E h \in 1..(i - 1) : candidates[h].chunk = c

\* The answer is empty only when no channel found a chunk, whatever failed, was
\* reranked away or fell below the threshold (retrieve, rerank).
NeverEmptyHanded ==
    retrieval_stage = "found" /\ answer = <<>> => ranked = <<>> /\ candidates = <<>>

\* The answer has no more than top_k hits, none twice, each found by a channel
\* of the query answered, and one below the threshold only when none reached it
\* (_apply_results, _apply_threshold).
AnswerWhole ==
    retrieval_stage = "found" =>
        /\ Len(answer) <= TopK
        /\ \A i, j \in DOMAIN answer : answer[i].chunk = answer[j].chunk => i = j
        /\ ChunksIn(answer) \subseteq UNION {ChunksIn(ranked[j]) : j \in DOMAIN ranked}
        /\ \/ \A i \in DOMAIN answer : answer[i].score >= Threshold
           \/ \A i \in DOMAIN answer : answer[i].score < Threshold

\* Every list that is fused or answered from is best first, as its places are
\* what counts there, whichever searches made it; no chunk is in it twice
\* (_search_trgm, _merge_by_chunk_id).
RankedWell == \A n \in DOMAIN ranked :
    LET list == ranked[n] IN
    /\ list # <<>> /\ Len(list) <= CandidateK
    /\ \A i, j \in DOMAIN list : i < j => /\ list[i].score >= list[j].score
                                          /\ list[i].chunk # list[j].chunk

\* What a retrieval promises its caller (retrieve).
RetrievalKept == Dominance /\ NeverEmptyHanded /\ AnswerWhole /\ RankedWell
=============================================================================

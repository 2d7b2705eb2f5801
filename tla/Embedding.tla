------------------------------- MODULE Embedding -------------------------------
(***************************************************************************)
(* The vectors of the chunks of a document, or of the variants of a query: *)
(* the texts are sent in batches, and each answer lists vectors with the   *)
(* place of their text in the batch, in any order and perhaps not for all  *)
(* of them.  What comes out is stored, or searched with, by place.         *)
(*                                                                         *)
(* A text is its place, and so is its vector.                              *)
(***************************************************************************)
EXTENDS Integers, Sequences, FiniteSets, FiniteSetsExt, SequencesExt, Lists

CONSTANTS
    TextCounts, \* how many texts there may be
    BatchSizes  \* EMBEDDING_BATCH_SIZE

ASSUME EmbeddingAssumption == TextCounts \subseteq Nat /\ BatchSizes \subseteq Nat \ {0}

VARIABLES
    client,      \* "sync" for documents, "async" for queries
    text_count, batch_size,
    sent,        \* texts in the batches so far
    vectors,     \* from their answers
    embed_stage, \* "running", "stored" or "failed"
    upserted     \* what the collection, or the search, was given

embed_vars == <<client, text_count, batch_size, sent, vectors, embed_stage, upserted>>

EmbedInit ==
    /\ client \in {"sync", "async"} /\ text_count \in TextCounts /\ batch_size \in BatchSizes
    /\ sent = 0 /\ vectors = <<>> /\ upserted = <<>> /\ embed_stage = "running"

-----------------------------------------------------------------------------
(* embed_texts, of either client *)

Batch == (sent + 1)..Min({sent + batch_size, text_count})

\* What the provider may answer: every vector at most once.
AnswersTo(batch) ==
    {[i \in DOMAIN order |-> [index |-> order[i] - sent - 1, embedding |-> order[i]]] :
        order \in UNION {SetToSeqs(part) : part \in SUBSET batch}}

\* (Mutant: as they came.)
AsAnswered(items) == [i \in DOMAIN items |-> items[i].embedding]

SortedByIndex(items) ==
    LET places == 1..Len(items)
        order == Sorted(places, {p \in places \X places : items[p[1]].index < items[p[2]].index})
    IN  [i \in DOMAIN order |-> items[order[i]].embedding]

\* The client of the queries compares the counts of each batch.
EmbedBatch ==
    /\ embed_stage = "running" /\ sent < text_count
    /\ \E items \in AnswersTo(Batch) :
         IF client = "async" /\ Len(items) # Cardinality(Batch)
         THEN embed_stage' = "failed" /\ UNCHANGED <<vectors, sent>>
         ELSE /\ vectors' = vectors \o SortedByIndex(items) /\ sent' = sent + Cardinality(Batch)
              /\ UNCHANGED embed_stage
    /\ UNCHANGED <<client, text_count, batch_size, upserted>>

\* No key, a timeout, an error status, an answer of another form or an empty
\* vector in it.
EmbedRaises ==
    /\ embed_stage = "running" /\ sent < text_count
    /\ embed_stage' = "failed"
    /\ UNCHANGED <<client, text_count, batch_size, sent, vectors, upserted>>

\* upsert_chunks, and search_many before it searches: only as many vectors as
\* texts; without texts there is nothing to write.
UpsertChunks ==
    /\ embed_stage = "running" /\ sent >= text_count
    /\ IF Len(vectors) = text_count THEN embed_stage' = "stored" /\ upserted' = vectors
       ELSE embed_stage' = "failed" /\ UNCHANGED upserted
    /\ UNCHANGED <<client, text_count, batch_size, sent, vectors>>

EmbedNext == EmbedBatch \/ EmbedRaises \/ UpsertChunks

EmbedSpec == EmbedInit /\ [][EmbedNext]_embed_vars

-----------------------------------------------------------------------------
(* Properties *)

\* Every text is found by its own vector or the write fails as a whole: no
\* batch is put before another, no answer in another order is taken as it came,
\* and one that misses a vector does not move those that follow
\* (embed_texts, upsert_chunks).
VectorsMatch == embed_stage = "stored" =>
    Len(upserted) = text_count /\ \A i \in 1..text_count : upserted[i] = i
=============================================================================

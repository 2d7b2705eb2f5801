--------------------------------- MODULE Search ---------------------------------
(* Cutting texts into chunks, embedding them, finding chunks again, drafting    *)
(* FAQs from them, and finding a FAQ: five parts that share no state.            *)
EXTENDS Chunking, Embedding, Retrieval, FaqDrafts, FaqLookup

VARIABLE part \* the one that is at work

NoChunking == input = [kind |-> "none"] /\ is_cut = FALSE /\ chunks = <<>>
NoRetrieval == RetrievalInit /\ request = [strategy |-> "vector", targets |-> FALSE]
NoLookups ==
    /\ faq_row = [f \in Faqs |-> NoRow_] /\ faq_enabled = [x \in Bases |-> FALSE]
    /\ entry_of = [x \in Bases |-> [q \in Asked |-> NoFaq]]
    /\ asker = [s \in Askers |-> NoLookup] /\ editor = [e \in Editors |-> NoEdit]
    /\ misled = {} /\ edits = 0 /\ redis_errors = 0

NoDrafts == drafting = [stage |-> "none"] /\ drafts = <<>> /\ stated = {}
NoEmbedding == EmbedInit /\ client = "sync" /\ text_count = 0 /\ batch_size = 1

SearchInit ==
    \/ part = "chunking" /\ ChunkInit /\ NoEmbedding /\ NoRetrieval /\ NoLookups /\ NoDrafts
    \/ part = "embedding" /\ EmbedInit /\ NoChunking /\ NoRetrieval /\ NoLookups /\ NoDrafts
    \/ part = "retrieval" /\ RetrievalInit /\ NoChunking /\ NoEmbedding /\ NoLookups /\ NoDrafts
    \/ part = "faqs" /\ LookupInit /\ (\A f \in Faqs : faq_row[f].live) /\ NoChunking /\ NoEmbedding /\ NoRetrieval /\ NoDrafts
    \/ part = "drafts" /\ DraftsInit /\ NoChunking /\ NoEmbedding /\ NoRetrieval /\ NoLookups

ChunkStep == part = "chunking" /\ ChunkNext
    /\ UNCHANGED <<embed_vars, retrieval_vars, lookup_vars, draft_vars, part>>
EmbedStep == part = "embedding" /\ EmbedNext
    /\ UNCHANGED <<chunk_vars, retrieval_vars, lookup_vars, draft_vars, part>>
RetrievalStep == part = "retrieval" /\ RetrievalNext
    /\ UNCHANGED <<chunk_vars, embed_vars, lookup_vars, draft_vars, part>>
FaqStep == part = "faqs" /\ LookupNext
    /\ UNCHANGED <<chunk_vars, embed_vars, retrieval_vars, draft_vars, part>>
DraftStep == part = "drafts" /\ DraftsNext
    /\ UNCHANGED <<chunk_vars, embed_vars, retrieval_vars, lookup_vars, part>>

SearchNext == ChunkStep \/ EmbedStep \/ RetrievalStep \/ FaqStep \/ DraftStep
search_vars == <<chunk_vars, embed_vars, retrieval_vars, lookup_vars, draft_vars, part>>
SearchSpec == SearchInit /\ [][SearchNext]_search_vars

\* What is embedded is what was cut, and what is drafted from it cites it: no
\* text is lost or attributed to another on its way into vectors and FAQs
\* (chunking.py, embedding.py, kb_faq_service.py).
TextsKept == ChunkingKept /\ VectorsMatch /\ DraftsKept
=============================================================================

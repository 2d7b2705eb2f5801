------------------------------- MODULE FaqLookup -------------------------------
(***************************************************************************)
(* How a question is answered from the FAQs.  A Redis entry per base and   *)
(* question leads to a row, which is read again; without an entry the rows *)
(* are searched, by the question and then by meaning, and the row found is *)
(* counted, which locks it, and entered.  Writers of rows clear the        *)
(* entries of the base after their commit, or between their statements and *)
(* their commit.                                                           *)
(*                                                                         *)
(* A question is its normalized form.  A row keeps its id for good; a      *)
(* rollback brings rows back with the ids they had.                        *)
(***************************************************************************)
EXTENDS Naturals, FiniteSets

CONSTANTS
    Faqs, Bases, Questions,
    Asked,     \* questions that users ask; the others are only on rows
    Home,      \* the base of each FAQ
    MaxLevel,  \* sensitivity levels are 0..MaxLevel
    Askers, Editors,
    NoFaq,
    MaxEdits, MaxRedisErrors \* bounds of the model

ASSUME FaqLookupAssumption ==
    /\ Home \in [Faqs -> Bases] /\ NoFaq \notin Faqs /\ Asked \subseteq Questions
    /\ {MaxLevel, MaxEdits, MaxRedisErrors} \subseteq Nat

VARIABLES
    faq_row,     \* committed rows
    faq_enabled, \* of each base
    entry_of,    \* Redis: the FAQ id under each base and question
    asker,       \* lookups
    editor,      \* transactions that write a row
    misled,      \* history: keys whose entry nobody will clear (see FlushHit)
    edits, redis_errors

lookup_vars == <<faq_row, faq_enabled, entry_of, asker, editor, misled, edits, redis_errors>>

-----------------------------------------------------------------------------
(* State *)

LookupRow == [question : Questions, level : 0..MaxLevel, live : BOOLEAN]
NoRow_ == [live |-> FALSE]
IsRow(r) == r # NoRow_
\* live: active and is_active.
Answers(r, level) == r.live /\ r.level <= level

\* silent: FAQs this user could at no time since the lookup began be answered
\* with; open: those that all the time had the answer.
Lookup == [stage : {"entries", "row", "flush", "write", "ended"}, question : Asked,
           level : 0..MaxLevel, bases : SUBSET Bases, todo : SUBSET Bases,
           faq : Faqs \cup {NoFaq}, exact : BOOLEAN, denied : BOOLEAN, crossed : BOOLEAN, locks : BOOLEAN,
           outcome : {"none", "answered", "denied", "missed", "failed"},
           silent : SUBSET Faqs, open : SUBSET Faqs]
NoLookup == [stage |-> "idle"]
\* late: cleared after the commit; early: between flush and commit; reject:
\* before the flush.
Edit == [stage : {"flushed", "cleared", "committed"}, kind : {"late", "early", "reject"},
         faq : Faqs, new : LookupRow \cup {NoRow_}]
NoEdit == [stage |-> "idle"]

LookupTypeOK ==
    /\ faq_row \in [Faqs -> LookupRow \cup {NoRow_}]
    /\ faq_enabled \in [Bases -> BOOLEAN]
    /\ entry_of \in [Bases -> [Asked -> Faqs \cup {NoFaq}]]
    /\ asker \in [Askers -> Lookup \cup {NoLookup}]
    /\ editor \in [Editors -> Edit \cup {NoEdit}]
    /\ misled \subseteq Bases \X Asked
    /\ edits \in 0..MaxEdits /\ redis_errors \in 0..MaxRedisErrors

\* A question is asked once in a base (uk_kb_faq_unique).
Distinct(rows) ==
    \A f, g \in Faqs : IsRow(rows[f]) /\ IsRow(rows[g]) /\ Home[f] = Home[g]
                       /\ rows[f].question = rows[g].question => f = g

LookupInit ==
    /\ faq_row \in [Faqs -> LookupRow] /\ Distinct(faq_row)
    /\ faq_enabled = [b \in Bases |-> TRUE]
    /\ entry_of = [b \in Bases |-> [q \in Asked |-> NoFaq]]
    /\ asker = [s \in Askers |-> NoLookup]
    /\ editor = [e \in Editors |-> NoEdit]
    /\ misled = {} /\ edits = 0 /\ redis_errors = 0

\* Who wrote a row in a transaction that has not ended.
LockedByAsker(f) == \E s \in Askers : asker[s] # NoLookup /\ asker[s].locks /\ asker[s].faq = f
LockedByEditor(f) == \E e \in Editors :
    editor[e].stage \in {"flushed", "cleared"} /\ editor[e].kind # "reject" /\ editor[e].faq = f

RedisFails == redis_errors < MaxRedisErrors /\ redis_errors' = redis_errors + 1
RedisWorks == UNCHANGED redis_errors

-----------------------------------------------------------------------------
(* Lookups: check_faq_hit *)

\* The bases the user may search whose FAQs are on.
BeginLookup(s, q, level) ==
    LET bases == {b \in Bases : faq_enabled[b]} IN
    /\ asker[s] = NoLookup /\ bases # {}
    /\ asker' = [asker EXCEPT ![s] =
         [stage |-> "entries", question |-> q, level |-> level, bases |-> bases, todo |-> bases,
          faq |-> NoFaq, exact |-> TRUE, denied |-> FALSE, crossed |-> FALSE, locks |-> FALSE,
          outcome |-> "none",
          silent |-> {f \in Faqs : ~Answers(faq_row[f], level)},
          open |-> {f \in Faqs : /\ Home[f] \in bases /\ Answers(faq_row[f], level)
                                 /\ faq_row[f].question = q}]]
    /\ UNCHANGED <<faq_row, faq_enabled, entry_of, editor, misled, edits, redis_errors>>

\* The entry of one base after the other; one that cannot be read is none.
GetEntry(s, b) ==
    LET found == entry_of[b][asker[s].question] IN
    /\ asker[s].stage = "entries" /\ b \in asker[s].todo
    /\ \/ /\ found # NoFaq /\ RedisWorks
          /\ asker' = [asker EXCEPT ![s].todo = @ \ {b}, ![s].faq = found, ![s].stage = "row"]
       \/ /\ IF found = NoFaq THEN RedisWorks ELSE RedisFails
          /\ asker' = [asker EXCEPT ![s].todo = @ \ {b}]
    /\ UNCHANGED <<faq_row, faq_enabled, entry_of, editor, misled, edits>>

\* Mutant of CheckRow: what is in Redis is taken for an answer of today.
TrustEntry(s) ==
    /\ asker[s].stage = "row"
    /\ asker' = [asker EXCEPT ![s].stage = "ended", ![s].outcome = "answered"]
    /\ UNCHANGED <<faq_row, faq_enabled, entry_of, editor, misled, edits, redis_errors>>

\* "Only the database is trusted": the row must be live and within the level;
\* an entry that leads to none that is live is removed.
CheckRow(s) ==
    LET x == asker[s]
        r == faq_row[x.faq]
        home == Home[x.faq] IN
    /\ x.stage = "row"
    /\ IF ~r.live
       THEN /\ asker' = [asker EXCEPT ![s].stage = "entries", ![s].faq = NoFaq]
            /\ \/ RedisWorks /\ entry_of' = [entry_of EXCEPT ![home][x.question] = NoFaq]
               \/ RedisFails /\ UNCHANGED entry_of
       ELSE /\ UNCHANGED entry_of /\ RedisWorks
            /\ asker' = IF r.level > x.level
                        THEN [asker EXCEPT ![s].stage = "entries", ![s].faq = NoFaq, ![s].denied = TRUE]
                        ELSE [asker EXCEPT ![s].stage = "ended", ![s].outcome = "answered"]
    /\ UNCHANGED <<faq_row, faq_enabled, editor, misled, edits>>

\* The rows that are found: one within the level is taken, otherwise the next
\* search follows.
Take(s, found, exact) ==
    LET x == asker[s]
        allowed == {f \in found : faq_row[f].level <= x.level}
        denied == x.denied \/ found # {} IN
    IF allowed # {}
    THEN \E f \in allowed : asker' = [asker EXCEPT ![s].stage = "flush", ![s].faq = f, ![s].exact = exact]
    ELSE IF exact THEN asker' = [asker EXCEPT ![s].denied = denied, ![s].exact = FALSE]
    ELSE asker' = [asker EXCEPT ![s].stage = "ended", ![s].outcome = IF denied THEN "denied" ELSE "missed"]

Candidates(s) == {f \in Faqs : Home[f] \in asker[s].bases /\ faq_row[f].live}
Searching(s) == asker[s].stage = "entries" /\ asker[s].todo = {}

SelectRows(s) ==
    /\ Searching(s) /\ asker[s].exact
    /\ Take(s, {f \in Candidates(s) : faq_row[f].question = asker[s].question}, TRUE)
    /\ UNCHANGED <<faq_row, faq_enabled, entry_of, editor, misled, edits, redis_errors>>

\* _semantic_faq_hit: those of the candidates whose meaning is near, or none
\* when the embedding fails.
SearchByMeaning(s) ==
    /\ Searching(s) /\ ~asker[s].exact
    /\ \E near \in SUBSET Candidates(s) : Take(s, near, FALSE)
    /\ UNCHANGED <<faq_row, faq_enabled, entry_of, editor, misled, edits, redis_errors>>

\* hit_count: waits for whoever writes the row, which may be gone then (the
\* update of no row is an error).  A row that has another question since it was
\* selected is entered under the old one, and whoever changed it may have
\* cleared the entries already.
FlushHit(s) ==
    LET x == asker[s]
        r == faq_row[x.faq] IN
    /\ x.stage = "flush" /\ ~LockedByEditor(x.faq) /\ ~LockedByAsker(x.faq)
    /\ asker' = [asker EXCEPT ![s] =
         IF ~IsRow(r) THEN [x EXCEPT !.stage = "ended", !.faq = NoFaq, !.outcome = "failed"]
         ELSE IF x.exact
         THEN [x EXCEPT !.stage = "write", !.locks = TRUE, !.crossed = r.question # x.question]
         ELSE [x EXCEPT !.stage = "ended", !.locks = TRUE, !.outcome = "answered"]]
    /\ UNCHANGED <<faq_row, faq_enabled, entry_of, editor, misled, edits, redis_errors>>

WriteEntry(s) ==
    LET x == asker[s]
        home == Home[x.faq] IN
    /\ x.stage = "write"
    /\ asker' = [asker EXCEPT ![s].stage = "ended", ![s].outcome = "answered"]
    /\ \/ /\ RedisWorks
          /\ entry_of' = [entry_of EXCEPT ![home][x.question] = x.faq]
          /\ misled' = IF x.crossed THEN misled \cup {<<home, x.question>>} ELSE misled \ {<<home, x.question>>}
       \/ RedisFails /\ UNCHANGED <<entry_of, misled>>
    /\ UNCHANGED <<faq_row, faq_enabled, editor, edits>>

\* The answer is given and its transaction ends, or the client leaves.
EndLookup(s) ==
    /\ asker[s] # NoLookup
    /\ asker' = [asker EXCEPT ![s] = NoLookup]
    /\ UNCHANGED <<faq_row, faq_enabled, entry_of, editor, misled, edits, redis_errors>>

-----------------------------------------------------------------------------
(* Writers *)

\* invalidate_kb_faq_redis; an error is logged.
Clear(b) ==
    \/ /\ RedisWorks
       /\ entry_of' = [entry_of EXCEPT ![b] = [q \in Asked |-> NoFaq]]
       /\ misled' = {k \in misled : k[1] # b}
    \/ /\ RedisFails /\ UNCHANGED entry_of
       /\ misled' = misled \cup {<<b, q>> : q \in {p \in Asked : entry_of[b][p] # NoFaq}}

\* What each writer may make of a row: update_faq, batch_faq and the others that
\* clear late anything; a rollback too, and rows that are gone, which it brings
\* back; prune_by_document and mark_stale_by_version remove or disable.
Makes(kind, f, new) ==
    /\ new # faq_row[f]
    /\ \/ kind = "early"
       \/ kind = "late" /\ IsRow(faq_row[f])
       \/ kind = "reject" /\ IsRow(faq_row[f]) /\ new = [faq_row[f] EXCEPT !.live = FALSE]
    /\ IsRow(new) => Distinct([faq_row EXCEPT ![f] = new])

\* The statements of a writer lock the row; record_reject clears before them.
BeginEdit(e, kind, f, new) ==
    /\ editor[e] = NoEdit /\ edits < MaxEdits /\ edits' = edits + 1
    /\ Makes(kind, f, new)
    /\ IF kind = "reject" THEN Clear(Home[f])
       ELSE ~LockedByEditor(f) /\ ~LockedByAsker(f) /\ UNCHANGED <<entry_of, misled>> /\ RedisWorks
    /\ editor' = [editor EXCEPT ![e] = [stage |-> IF kind = "reject" THEN "cleared" ELSE "flushed",
                                        kind |-> kind, faq |-> f, new |-> new]]
    /\ UNCHANGED <<faq_row, faq_enabled, asker>>

ClearEarly(e) ==
    /\ editor[e].stage = "flushed" /\ editor[e].kind = "early"
    /\ Clear(Home[editor[e].faq])
    /\ editor' = [editor EXCEPT ![e].stage = "cleared"]
    /\ UNCHANGED <<faq_row, faq_enabled, asker, edits>>

CommitEdit(e) ==
    LET x == editor[e]
        new == IF x.kind = "reject" /\ IsRow(faq_row[x.faq]) THEN [faq_row[x.faq] EXCEPT !.live = FALSE]
               ELSE IF x.kind = "reject" THEN NoRow_ ELSE x.new IN
    /\ \/ x.stage = "flushed" /\ x.kind = "late"
       \/ x.stage = "cleared" /\ (x.kind = "reject" => ~LockedByEditor(x.faq) /\ ~LockedByAsker(x.faq))
    /\ IsRow(new) => Distinct([faq_row EXCEPT ![x.faq] = new])
    /\ faq_row' = [faq_row EXCEPT ![x.faq] = new]
    /\ asker' = [s \in Askers |->
         IF asker[s] = NoLookup THEN NoLookup
         ELSE [asker[s] EXCEPT !.silent = IF Answers(new, asker[s].level) THEN @ \ {x.faq} ELSE @,
                               !.open = @ \ {x.faq}]]
    /\ editor' = [editor EXCEPT ![e] = IF x.kind = "late" THEN [x EXCEPT !.stage = "committed"] ELSE NoEdit]
    /\ UNCHANGED <<faq_enabled, entry_of, misled, edits, redis_errors>>

ClearLate(e) ==
    /\ editor[e].stage = "committed"
    /\ Clear(Home[editor[e].faq])
    /\ editor' = [editor EXCEPT ![e] = NoEdit]
    /\ UNCHANGED <<faq_row, faq_enabled, asker, edits>>

\* The transaction fails.
AbortEdit(e) ==
    /\ editor[e].stage \in {"flushed", "cleared"}
    /\ editor' = [editor EXCEPT ![e] = NoEdit]
    /\ UNCHANGED <<faq_row, faq_enabled, entry_of, asker, misled, edits, redis_errors>>

\* toggle_faq: entries are cleared when the FAQs of a base are turned off.
ToggleFaq(b) ==
    /\ edits < MaxEdits /\ edits' = edits + 1
    /\ faq_enabled' = [faq_enabled EXCEPT ![b] = ~@]
    /\ IF faq_enabled[b] THEN Clear(b) ELSE UNCHANGED <<entry_of, misled>> /\ RedisWorks
    /\ UNCHANGED <<faq_row, asker, editor>>

\* FAQ_REDIS_CACHE_TTL_SECONDS
ExpireEntry(b, q) ==
    /\ entry_of[b][q] # NoFaq
    /\ entry_of' = [entry_of EXCEPT ![b][q] = NoFaq]
    /\ UNCHANGED <<faq_row, faq_enabled, asker, editor, misled, edits, redis_errors>>

LookupNext ==
    \/ \E s \in Askers :
         \/ \E q \in Asked, level \in 0..MaxLevel : BeginLookup(s, q, level)
         \/ \E b \in Bases : GetEntry(s, b)
         \/ CheckRow(s) \/ SelectRows(s) \/ SearchByMeaning(s)
         \/ FlushHit(s) \/ WriteEntry(s) \/ EndLookup(s)
    \/ \E e \in Editors :
         \/ \E kind \in {"late", "early", "reject"}, f \in Faqs, new \in LookupRow \cup {NoRow_} :
               BeginEdit(e, kind, f, new)
         \/ ClearEarly(e) \/ CommitEdit(e) \/ ClearLate(e) \/ AbortEdit(e)
    \/ \E b \in Bases : ToggleFaq(b) \/ \E q \in Asked : ExpireEntry(b, q)

LookupSpec == LookupInit /\ [][LookupNext]_lookup_vars

-----------------------------------------------------------------------------
(* Properties *)

\* Nobody is answered with a FAQ that at no time since the lookup began was live
\* and within the level of the user, whatever Redis still leads to; and nobody
\* is refused, or sent on, past a FAQ that had the answer all the time.
OutcomeRight == \A s \in Askers : asker[s] # NoLookup =>
    /\ asker[s].outcome = "answered" => asker[s].faq \notin asker[s].silent
    /\ asker[s].outcome \in {"denied", "missed"} => asker[s].open = {}

\* An entry leads to a row that asks its question, unless the clearing is still
\* to come, failed, or was crossed by a lookup that had selected the row before.
EntriesLead == \A b \in Bases, q \in Asked :
    LET f == entry_of[b][q] IN
    f # NoFaq /\ IsRow(faq_row[f]) =>
        \/ faq_row[f].question = q
        \/ <<b, q>> \in misled
        \/ \E e \in Editors : editor[e].stage = "committed" /\ Home[editor[e].faq] = b

\* What a lookup of the FAQs promises (check_faq_hit).
LookupKept == OutcomeRight /\ EntriesLead
=============================================================================

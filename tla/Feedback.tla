-------------------------------- MODULE Feedback --------------------------------
(***************************************************************************)
(* A user rates answers as useful or useless, or takes a rating back.  The *)
(* rating is written in the message and as a fact of its own in one        *)
(* transaction; a useless answer that came from a FAQ counts against the   *)
(* FAQ, which is disabled at a limit.                                      *)
(*                                                                         *)
(* The message is only updated when the rating differs from the one that   *)
(* was read, so that two requests about one message need not meet at its   *)
(* row lock.                                                               *)
(***************************************************************************)
EXTENDS Naturals

CONSTANTS
    RatedMessages, RatedFaqs,
    AnswerFrom,    \* the FAQ each message was answered from, or NoFaqUsed
    NoFaqUsed,
    Raters,        \* requests at the same time
    RejectLimit,   \* FAQ_REJECT_DISABLE_THRESHOLD
    MaxRatings     \* bound of the model: requests in all

ASSUME FeedbackAssumption ==
    /\ NoFaqUsed \notin RatedFaqs /\ AnswerFrom \in [RatedMessages -> RatedFaqs \cup {NoFaqUsed}]
    /\ RejectLimit \in Nat \ {0} /\ MaxRatings \in Nat

VARIABLES
    told,         \* feedback in the meta of each message
    fact,         \* qa_feedback_events
    reject_count, \* of each FAQ
    refused,      \* FAQs disabled for their rejects
    rating,       \* requests under way
    said_useless, \* history: useless ratings that were committed, of each FAQ
    crossed,      \* history: messages whose rating and fact some request parted
    ratings       \* requests so far

feedback_vars == <<told, fact, reject_count, refused, rating, said_useless, crossed, ratings>>

Ratings == {"useful", "useless", "none"}
NoRating == [stage |-> "idle"]
Rating == [stage : {"read", "written", "counting"}, message : RatedMessages,
           value : Ratings, seen : Ratings, \* to be written; read before
           touches : BOOLEAN,               \* whether it writes the fact
           count : Nat]                     \* reject_count as it was read

FeedbackTypeOK ==
    /\ told \in [RatedMessages -> Ratings] /\ fact \in [RatedMessages -> Ratings]
    /\ reject_count \in [RatedFaqs -> Nat] /\ said_useless \in [RatedFaqs -> Nat]
    /\ refused \subseteq RatedFaqs /\ crossed \subseteq RatedMessages
    /\ rating \in [Raters -> Rating \cup {NoRating}]
    /\ ratings \in 0..MaxRatings

FeedbackInit ==
    /\ told = [m \in RatedMessages |-> "none"] /\ fact = told
    /\ reject_count = [f \in RatedFaqs |-> 0] /\ said_useless = reject_count
    /\ refused = {} /\ crossed = {}
    /\ rating = [p \in Raters |-> NoRating]
    /\ ratings = 0

-----------------------------------------------------------------------------
(* submit_feedback *)

Updates(p) == rating[p].value # rating[p].seen
InRequest(p, m) == rating[p] # NoRating /\ rating[p].stage # "read" /\ rating[p].message = m
HoldsMessage(m) == \E p \in Raters : InRequest(p, m) /\ Updates(p)
HoldsFact(m) == \E p \in Raters : InRequest(p, m) /\ rating[p].touches

ReadMessage(p, m, value) ==
    /\ rating[p] = NoRating /\ ratings < MaxRatings
    /\ rating' = [rating EXCEPT ![p] = [stage |-> "read", message |-> m, value |-> value,
                                        seen |-> told[m], touches |-> FALSE, count |-> 0]]
    /\ ratings' = ratings + 1
    /\ UNCHANGED <<told, fact, reject_count, refused, said_useless, crossed>>

\* upsert_feedback, clear_feedback: their statement flushes the update of the
\* message first.  Who writes a fact waits for others that do; to delete a fact
\* that is not there is to write nothing.
WriteRating(p) ==
    LET x == rating[p]
        touches == x.value # "none" \/ fact[x.message] # "none" IN
    /\ x.stage = "read"
    /\ Updates(p) => ~HoldsMessage(x.message)
    /\ touches => ~HoldsFact(x.message)
    /\ rating' = [rating EXCEPT ![p].stage = "written", ![p].touches = touches]
    /\ UNCHANGED <<told, fact, reject_count, refused, said_useless, crossed, ratings>>

CountsAgainst(p) == rating[p].value = "useless" /\ AnswerFrom[rating[p].message] # NoFaqUsed

\* record_reject reads the row; its Redis calls follow before it is written.
ReadRejects(p) ==
    /\ rating[p].stage = "written" /\ CountsAgainst(p)
    /\ rating' = [rating EXCEPT ![p].stage = "counting",
                                ![p].count = reject_count[AnswerFrom[rating[p].message]]]
    /\ UNCHANGED <<told, fact, reject_count, refused, said_useless, crossed, ratings>>

\* (Mutant: one too early.)
DisablesEarly(count) == count + 2 >= RejectLimit

\* Whether one more reject disables a FAQ.
Disables(count) == count + 1 >= RejectLimit

CommitRating(p) ==
    LET x == rating[p]
        m == x.message
        f == AnswerFrom[m] IN
    /\ x # NoRating /\ x.stage = (IF CountsAgainst(p) THEN "counting" ELSE "written")
    /\ told' = IF Updates(p) THEN [told EXCEPT ![m] = x.value] ELSE told
    /\ fact' = IF x.touches THEN [fact EXCEPT ![m] = x.value] ELSE fact
    /\ IF CountsAgainst(p)
       THEN /\ reject_count' = [reject_count EXCEPT ![f] = x.count + 1]
            /\ said_useless' = [said_useless EXCEPT ![f] = @ + 1]
            /\ refused' = IF Disables(x.count) THEN refused \cup {f} ELSE refused
       ELSE UNCHANGED <<reject_count, said_useless, refused>>
    /\ crossed' = IF ~Updates(p) /\ x.touches /\ told[m] # x.value THEN crossed \cup {m} ELSE crossed
    /\ rating' = [rating EXCEPT ![p] = NoRating]
    /\ UNCHANGED ratings

\* (Mutant: the fact is committed on its own.)
FailAfterFact(p) ==
    /\ rating[p] # NoRating
    /\ fact' = IF rating[p].stage # "read" /\ rating[p].touches
               THEN [fact EXCEPT ![rating[p].message] = rating[p].value] ELSE fact
    /\ rating' = [rating EXCEPT ![p] = NoRating]
    /\ UNCHANGED <<told, reject_count, refused, said_useless, crossed, ratings>>

\* Whatever fails, everything is rolled back.
FailRating(p) ==
    /\ rating[p] # NoRating
    /\ rating' = [rating EXCEPT ![p] = NoRating]
    /\ UNCHANGED <<told, fact, reject_count, refused, said_useless, crossed, ratings>>

\* batch_faq enables the FAQ again; its count stays.
EnableRefused(f) ==
    /\ f \in refused
    /\ refused' = refused \ {f}
    /\ UNCHANGED <<told, fact, reject_count, rating, said_useless, crossed, ratings>>

FeedbackNext ==
    \/ \E p \in Raters :
         \/ \E m \in RatedMessages, value \in Ratings : ReadMessage(p, m, value)
         \/ WriteRating(p) \/ ReadRejects(p) \/ CommitRating(p) \/ FailRating(p)
    \/ \E f \in RatedFaqs : EnableRefused(f)

FeedbackSpec == FeedbackInit /\ [][FeedbackNext]_feedback_vars

-----------------------------------------------------------------------------
(* Properties *)

\* What the message says of a rating is what the statistics count, whichever
\* requests overlapped or failed, but for one that left the message as it had
\* read it while another changed it (submit_feedback).
FeedbackAgrees == \A m \in RatedMessages : m \notin crossed => told[m] = fact[m]

\* A FAQ is disabled for its rejects only after as many useless ratings as the
\* limit asks; overlapping ones may count as one, none counts twice.
RejectsHonest == \A f \in RatedFaqs :
    reject_count[f] <= said_useless[f] /\ (f \in refused => said_useless[f] >= RejectLimit)

\* What the rating of answers promises.
FeedbackKept == FeedbackAgrees /\ RejectsHonest
=============================================================================

------------------------------- MODULE FaqVerify -------------------------------
(***************************************************************************)
(* The verification of FAQs: answers are made again from their documents   *)
(* and compared.  FAQs wait in a queue in memory; FAQ_VERIFY_CONCURRENCY   *)
(* workers take them, DAILY_LIMIT in a day.  A verdict that the answer has *)
(* drifted is written on the row as it was loaded before the model call,   *)
(* while people enable, disable and delete FAQs.                           *)
(*                                                                         *)
(* One process: every other one has a queue and a count of its own.        *)
(***************************************************************************)
EXTENDS Naturals, Sequences, FiniteSets

CONSTANTS
    Faqs,
    Checkers,    \* workers
    DailyLimit,  \* FAQ_VERIFY_DAILY_LIMIT
    MaxWaiting,  \* FAQs in the queue (a bound of the model)
    MaxToday, MaxDecisions \* bounds of the model

ASSUME FaqVerifyAssumption ==
    DailyLimit \in Nat \ {0} /\ {MaxWaiting, MaxToday, MaxDecisions} \subseteq Nat

VARIABLES
    faq,       \* rows
    waiting,   \* _queue
    checker,   \* what each worker does
    daily,     \* _daily_day and _daily_count
    now,       \* the day
    begun,     \* history: model calls that began on this day
    decided,   \* history: FAQs that do not answer since a person last changed them
    decisions

verify_vars == <<faq, waiting, checker, daily, now, begun, decided, decisions>>

FaqRow == [status : {"active", "pending_review", "disabled"}, is_active : BOOLEAN, drifted : BOOLEAN]
Deleted == [status |-> "deleted"]
Resting == [faq |-> "none"]

VerifyTypeOK ==
    /\ faq \in [Faqs -> FaqRow \cup {Deleted}]
    /\ waiting \in Seq(Faqs) /\ Len(waiting) <= MaxWaiting
    /\ \A c \in Checkers : checker[c] = Resting \/ checker[c] \in [faq : Faqs, read : FaqRow]
    /\ daily \in [day : 0..MaxToday, count : 0..DailyLimit]
    /\ now \in 0..MaxToday
    /\ begun \in Nat
    /\ decided \subseteq Faqs
    /\ decisions \in 0..MaxDecisions

\* FAQs as they are generated; a later generation, which may make a disabled one
\* anew, is the subject of FaqBase.
VerifyInit ==
    /\ faq \in [Faqs -> {[status |-> s, is_active |-> TRUE, drifted |-> FALSE] :
                          s \in {"active", "pending_review"}}]
    /\ waiting = <<>>
    /\ checker = [c \in Checkers |-> Resting]
    /\ daily = [day |-> 0, count |-> 0]
    /\ now = 0 /\ begun = 0
    /\ decided = {} /\ decisions = 0

\* check_faq_hit answers with it.
Answering(r) == r # Deleted /\ r.is_active /\ r.status = "active"

-----------------------------------------------------------------------------
\* The count of the day, from 0 when another day has come.
CountToday == IF daily.day = now THEN daily.count ELSE 0
UnderDailyLimit == CountToday < DailyLimit

\* enqueue_faq_ids, for one of the FAQs that a generation, the hits or the scan
\* select; those that wait already do not count.
EnqueueFaq(f) ==
    /\ Answering(faq[f]) /\ Len(waiting) < MaxWaiting
    /\ daily' = [day |-> now, count |-> CountToday]
    /\ waiting' = IF UnderDailyLimit THEN Append(waiting, f) ELSE waiting
    /\ UNCHANGED <<faq, checker, now, begun, decided, decisions>>

\* Mutant of TakeFaq: only enqueue_faq_ids looks at the limit.
TakeUnlimited(c) ==
    /\ checker[c] = Resting /\ waiting # <<>>
    /\ waiting' = Tail(waiting)
    /\ LET f == Head(waiting) IN
       /\ daily' = [day |-> now, count |-> IF UnderDailyLimit THEN CountToday + 1 ELSE CountToday]
       /\ IF faq[f] = Deleted \/ ~faq[f].is_active \/ faq[f].status = "disabled"
          THEN UNCHANGED <<checker, begun>>
          ELSE checker' = [checker EXCEPT ![c] = [faq |-> f, read |-> faq[f]]] /\ begun' = begun + 1
    /\ UNCHANGED <<faq, now, decided, decisions>>

\* The worker takes the next FAQ, drops it if the day is full, counts it, and
\* loads the row; then it waits for the model.
TakeFaq(c) ==
    /\ checker[c] = Resting /\ waiting # <<>>
    /\ waiting' = Tail(waiting)
    /\ LET f == Head(waiting)
           skipped == faq[f] = Deleted \/ ~faq[f].is_active \/ faq[f].status = "disabled" IN
       /\ daily' = [day |-> now, count |-> IF UnderDailyLimit THEN CountToday + 1 ELSE CountToday]
       /\ IF skipped \/ ~UnderDailyLimit
          THEN UNCHANGED <<checker, begun>>
          ELSE checker' = [checker EXCEPT ![c] = [faq |-> f, read |-> faq[f]]] /\ begun' = begun + 1
    /\ UNCHANGED <<faq, now, decided, decisions>>

\* The model failed, no enabled chunk is left, the answers agree, or the row is
\* gone when the verdict is written.
LeaveFaq(c) ==
    /\ checker[c] # Resting
    /\ checker' = [checker EXCEPT ![c] = Resting]
    /\ UNCHANGED <<faq, waiting, daily, now, begun, decided, decisions>>

\* verify_one: the columns that differ from what was loaded are written, over
\* whatever was decided meanwhile.  is_active is not one of them.
ReportDrift(c) ==
    LET f == checker[c].faq IN
    /\ checker[c] # Resting /\ faq[f] # Deleted
    /\ faq' = [faq EXCEPT ![f].drifted = TRUE,
                          ![f].status = IF checker[c].read.status = "active" THEN "pending_review" ELSE @]
    /\ checker' = [checker EXCEPT ![c] = Resting]
    /\ UNCHANGED <<waiting, daily, now, begun, decided, decisions>>

-----------------------------------------------------------------------------
(* People: batch_faq, update_faq and delete_faq. *)

Decide(f, r) ==
    /\ faq[f] # Deleted /\ decisions < MaxDecisions /\ decisions' = decisions + 1
    /\ faq' = [faq EXCEPT ![f] = r]
    /\ decided' = IF r # Deleted /\ ~Answering(r) THEN decided \cup {f} ELSE decided \ {f}
    /\ UNCHANGED <<waiting, checker, daily, now, begun>>

ApproveFaq(f) == Decide(f, [faq[f] EXCEPT !.status = "active", !.is_active = TRUE])
DisableFaq(f) == Decide(f, [faq[f] EXCEPT !.status = "disabled", !.is_active = FALSE])
DeleteFaq(f) == Decide(f, Deleted)
\* By hand, status and is_active are fields of their own; the status active, or
\* an answer written, takes the mark away.
PutFaq(f, status, is_active) ==
    Decide(f, [faq[f] EXCEPT !.status = status, !.is_active = is_active, !.drifted = @ /\ status # "active"])
EditAnswer(f) == Decide(f, [faq[f] EXCEPT !.drifted = FALSE])

\* The process stops: what waits is gone, rows stay.
RestartVerify ==
    /\ waiting # <<>> \/ \E c \in Checkers : checker[c] # Resting
    /\ decisions < MaxDecisions /\ decisions' = decisions + 1
    /\ waiting' = <<>> /\ checker' = [c \in Checkers |-> Resting]
    /\ daily' = [day |-> 0, count |-> 0]
    /\ begun' = 0
    /\ UNCHANGED <<faq, now, decided>>

NextToday ==
    /\ now < MaxToday /\ now' = now + 1 /\ begun' = 0
    /\ UNCHANGED <<faq, waiting, checker, daily, decided, decisions>>

VerifyNext ==
    \/ \E f \in Faqs :
         \/ EnqueueFaq(f)
         \/ ApproveFaq(f) \/ DisableFaq(f) \/ DeleteFaq(f) \/ EditAnswer(f)
         \/ \E s \in {"active", "disabled"}, is_active \in BOOLEAN : PutFaq(f, s, is_active)
    \/ \E c \in Checkers : TakeFaq(c) \/ LeaveFaq(c) \/ ReportDrift(c)
    \/ RestartVerify \/ NextToday

VerifySpec == VerifyInit /\ [][VerifyNext]_verify_vars

-----------------------------------------------------------------------------
(* Properties *)

\* A process makes no more model calls in a day than the limit, although FAQs
\* are queued in one place and counted in another, and days change in between.
DailyLimitKept == begun <= DailyLimit

\* What does not answer by the decision of a person does not until a person says
\* so, whatever verdict was under way: it is at most put into the list to review.
DisabledStaysSilent == \A f \in decided : ~Answering(faq[f])

\* A verdict warns, and takes an answer out at most (faq_verify_service.py:1).
VerifyKept == DailyLimitKept /\ DisabledStaysSilent
=============================================================================

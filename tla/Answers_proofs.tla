----------------------------- MODULE Answers_proofs -----------------------------
(***************************************************************************)
(* Proofs about asks, for any number of conversations, documents and       *)
(* slots: the gate of the model, what a client is told, and what is cited. *)
(* And about the answer cache, for any number of requests, writers and     *)
(* processes, and any scopes that are narrow enough for the Redis key.     *)
(*                                                                         *)
(* The first follow an ask from stage to stage.  The gate is exact because *)
(* the stage "generating" is entered only with a slot and left only with   *)
(* its release.  The outcome is honest because the turn is committed       *)
(* exactly between the answer and the stages "kept" and "done"             *)
(* (KeptByStage).  An ask cites what it may because every way to citations *)
(* either filters them or takes them whole from an answer made for the     *)
(* same bases; the filters are recursions over sequences, about which      *)
(* induction tells what is left (Sifted).                                  *)
(***************************************************************************)
EXTENDS AskFlow, AnswerCache, FiniteSetTheorems, SequenceTheorems, WellFoundedInduction, TLAPS

-----------------------------------------------------------------------------
(* Asks *)

\* The fields of an ask these proofs look at.
AskShape ==
    /\ DOMAIN ask = Conversations
    /\ \A a \in Conversations :
        /\ {"stage", "way", "kept", "outcome", "cites", "hits", "bases", "level", "moved"} \subseteq DOMAIN ask[a]
        /\ ask[a].stage \in Stages

\* A turn is committed in the last stages of an ask, and in no earlier one;
\* an ask that ended says so by its outcome.
KeptByStage == \A a \in Conversations :
    IF ask[a].stage = "idle" THEN
        /\ ask[a].outcome = "done" => ask[a].kept
        /\ ask[a].outcome \in {"error", "blocked", "denied"} => ~ask[a].kept
    ELSE /\ ask[a].outcome = "none"
         /\ ask[a].kept = IF ask[a].stage \in {"kept", "done"} THEN TRUE ELSE FALSE

GateInv == free \in Nat /\ IsFiniteSet(Generating) /\ GateExact

AskInv == AskShape /\ KeptByStage /\ GateInv

\* The steps of an ask that neither take nor release a slot.
Ungated(a) ==
    \/ Start(a) \/ Block(a) \/ Route(a) \/ ResolveScope(a) \/ RefuseScope(a)
    \/ HitFaq(a) \/ MissFaq(a) \/ HitRole(a) \/ ServeExact(a) \/ MissCaches(a)
    \/ Retrieve(a) \/ Gather(a) \/ Refilter(a) \/ SearchNothing(a) \/ Busy(a)
    \/ PersistTurn(a) \/ StoreAnswer(a) \/ Done(a)

\* Such a step leaves the other asks alone and tells the truth about its turn.
Apart(a) ==
    /\ AskShape' /\ free' = free
    /\ \A b \in Conversations \ {a} : ask'[b] = ask[b]
    /\ ask[a].stage # "generating" /\ ask'[a].stage # "generating"
    /\ KeptByStage'

-----------------------------------------------------------------------------
(* How an ask changes *)

\* An ask that ends is idle and keeps what it says of its turn.
LEMMA AskEnds ==
    ASSUME AskShape, NEW a \in Conversations, NEW o, Ends(a, o)
    PROVE  /\ AskShape'
           /\ ask'[a].stage = "idle" /\ ask'[a].outcome = o /\ ask'[a].kept = ask[a].kept
           /\ \A b \in Conversations \ {a} : ask'[b] = ask[b]
  BY DEF AskShape, Ends, Idle, Stages

\* An ask that goes on changes its stage only.
LEMMA AskGoes ==
    ASSUME AskShape, NEW a \in Conversations, NEW s \in Stages, Goes(a, s)
    PROVE  /\ AskShape'
           /\ ask'[a].stage = s /\ ask'[a].outcome = ask[a].outcome /\ ask'[a].kept = ask[a].kept
           /\ \A b \in Conversations \ {a} : ask'[b] = ask[b]
  BY DEF AskShape, Goes

\* Where no ask begins or ends to generate and no slot moves, the gate stays.
LEMMA GateStays ==
    ASSUME GateInv, free' = free,
           \A a \in Conversations : At(a, "generating")' <=> At(a, "generating")
    PROVE  GateInv'
<1>1. Generating' = Generating
  BY DEF Generating
<1> QED BY <1>1 DEF GateInv, GateExact

\* Every step that neither takes nor releases a slot is such a step.
LEMMA UngatedStep ==
    ASSUME AskInv, NEW a \in Conversations, Ungated(a)
    PROVE  Apart(a)
<1> USE DEF AskInv
<1>1. ASSUME NEW o \in Outcomes, Ends(a, o), free' = free, ask[a].stage # "generating",
             o = "done" => ask[a].kept, o # "done" => ~ask[a].kept
      PROVE  Apart(a)
  <2>1. /\ AskShape'
        /\ ask'[a].stage = "idle" /\ ask'[a].outcome = o /\ ask'[a].kept = ask[a].kept
        /\ \A b \in Conversations \ {a} : ask'[b] = ask[b]
    BY <1>1, AskEnds
  <2>2. KeptByStage'
    BY <1>1, <2>1 DEF KeptByStage
  <2> QED BY <1>1, <2>1, <2>2 DEF Apart
<1>2. ASSUME NEW s \in Stages \ {"idle", "generating"}, Goes(a, s), free' = free,
             ask[a].stage \notin {"idle", "generating"},
             s \in {"kept", "done"} <=> ask[a].stage \in {"kept", "done"}
      PROVE  Apart(a)
  <2>1. /\ AskShape'
        /\ ask'[a].stage = s /\ ask'[a].outcome = ask[a].outcome /\ ask'[a].kept = ask[a].kept
        /\ \A b \in Conversations \ {a} : ask'[b] = ask[b]
    BY <1>2, AskGoes
  <2>2. KeptByStage'
    BY <1>2, <2>1 DEF KeptByStage
  <2> QED BY <1>2, <2>1, <2>2 DEF Apart
<1>3. ASSUME NEW x, ask' = [ask EXCEPT ![a] = x], free' = free,
             {"stage", "way", "kept", "outcome", "cites", "hits", "bases", "level", "moved"} \subseteq DOMAIN x,
             x.stage \in Stages \ {"idle", "generating"}, ask[a].stage # "generating",
             x.outcome = "none", x.kept = IF x.stage \in {"kept", "done"} THEN TRUE ELSE FALSE
      PROVE  Apart(a)
  <2>1. AskShape' /\ ask'[a] = x /\ \A b \in Conversations \ {a} : ask'[b] = ask[b]
    BY <1>3 DEF AskShape
  <2>2. KeptByStage'
    BY <1>3, <2>1 DEF KeptByStage
  <2> QED BY <1>3, <2>1, <2>2 DEF Apart
<1>4. ask[a].stage \notin {"idle", "kept", "done"} => ask[a].outcome = "none" /\ ask[a].kept = FALSE
  BY DEF KeptByStage
<1>5. CASE Block(a) \/ RefuseScope(a) \/ Busy(a)
  <2>1. PICK o \in {"blocked", "error"} : Ends(a, o)
    BY <1>5 DEF Block, RefuseScope, Busy
  <2>2. free' = free /\ ask[a].stage \in {"open", "checked", "routed", "cited"}
    BY <1>5 DEF Block, RefuseScope, Busy, At
  <2> QED BY <1>1, <1>4, <2>1, <2>2 DEF Outcomes
<1>6. CASE Done(a)
  <2>1. Ends(a, "done") /\ free' = free /\ ask[a].stage = "done"
    BY <1>6 DEF Done, At
  <2>2. ask[a].kept
    BY <2>1 DEF KeptByStage
  <2> QED BY <1>1, <2>1, <2>2 DEF Outcomes
<1>7. CASE MissFaq(a) \/ MissCaches(a) \/ SearchNothing(a)
  <2>1. PICK s \in {"checked", "missed", "answered"} : Goes(a, s)
    BY <1>7 DEF MissFaq, MissCaches, SearchNothing
  <2>2. free' = free /\ ask[a].stage \in {"scoped", "checked", "missed"}
    BY <1>7 DEF MissFaq, MissCaches, SearchNothing, At
  <2> QED BY <1>2, <2>1, <2>2 DEF Stages
<1>8. CASE StoreAnswer(a)
  BY <1>2, <1>8 DEF StoreAnswer, At, Stages
<1>9. CASE Start(a)
  <2> DEFINE x == [Idle EXCEPT !.stage = "open"]
  <2>1. ask' = [ask EXCEPT ![a] = x] /\ free' = free /\ ask[a].stage = "idle"
    BY <1>9 DEF Start, At
  <2>2. /\ {"stage", "way", "kept", "outcome", "cites", "hits", "bases", "level", "moved"} \subseteq DOMAIN x
        /\ x.stage = "open" /\ x.outcome = "none" /\ x.kept = FALSE
    BY DEF Idle
  <2> HIDE DEF x
  <2> QED BY <1>3, <2>1, <2>2 DEF Stages
<1>10. ASSUME NEW x, ask' = [ask EXCEPT ![a] = x], free' = free,
              ask[a].stage \notin {"idle", "kept", "done", "generating"},
              DOMAIN x = DOMAIN ask[a], x.outcome = ask[a].outcome, x.kept = ask[a].kept,
              x.stage \in Stages \ {"idle", "kept", "done", "generating"}
       PROVE  Apart(a)
  <2>1. {"stage", "way", "kept", "outcome", "cites", "hits", "bases", "level", "moved"} \subseteq DOMAIN x
    BY <1>10 DEF AskShape
  <2> QED BY <1>3, <1>4, <1>10, <2>1
<1> DEFINE y == ask[a]
<1>11. CASE Route(a)
  <2>1. free' = free /\ ask[a].stage = "open"
    BY <1>11 DEF Route, At
  <2>2. PICK x \in {[y EXCEPT !.stage = "direct", !.way = "direct"], [y EXCEPT !.stage = "routed"],
                    [y EXCEPT !.stage = "routed", !.way = "followup"]} : ask' = [ask EXCEPT ![a] = x]
    BY <1>11 DEF Route, Goes
  <2>3. /\ DOMAIN x = DOMAIN ask[a] /\ x.outcome = ask[a].outcome /\ x.kept = ask[a].kept
        /\ x.stage \in {"direct", "routed"}
    BY <2>2 DEF AskShape
  <2> QED BY <1>10, <2>1, <2>2, <2>3 DEF Stages
<1>12. CASE ResolveScope(a)
  <2>1. free' = free /\ ask[a].stage = "routed"
    BY <1>12 DEF ResolveScope, At
  <2>2. PICK B : ask' = [ask EXCEPT ![a] = [y EXCEPT !.stage = "scoped", !.bases = B, !.level = rank[a]]]
    BY <1>12 DEF ResolveScope
  <2> DEFINE x == [y EXCEPT !.stage = "scoped", !.bases = B, !.level = rank[a]]
  <2>3. /\ DOMAIN x = DOMAIN ask[a] /\ x.outcome = ask[a].outcome /\ x.kept = ask[a].kept
        /\ x.stage = "scoped"
    BY DEF AskShape
  <2> HIDE DEF x
  <2> QED BY <1>10, <2>1, <2>2, <2>3 DEF Stages, x
<1>13. CASE HitFaq(a)
  <2>1. free' = free /\ ask[a].stage = "scoped"
    BY <1>13 DEF HitFaq, At
  <2>2. PICK c \in Chunks : \/ ask' = [ask EXCEPT ![a] = [y EXCEPT !.stage = "direct", !.way = "direct", !.cites = <<c>>]]
                            \/ Ends(a, "denied")
    BY <1>13 DEF HitFaq
  <2>3. CASE Ends(a, "denied")
    BY <1>1, <1>4, <2>1, <2>3 DEF Outcomes
  <2> DEFINE x == [y EXCEPT !.stage = "direct", !.way = "direct", !.cites = <<c>>]
  <2>4. CASE ask' = [ask EXCEPT ![a] = x]
    <3>1. /\ DOMAIN x = DOMAIN ask[a] /\ x.outcome = ask[a].outcome /\ x.kept = ask[a].kept
          /\ x.stage = "direct"
      BY DEF AskShape
    <3> HIDE DEF x
    <3> QED BY <1>10, <2>1, <2>4, <3>1 DEF Stages
  <2> QED BY <2>2, <2>3, <2>4
\* An answer that is there already, and the evidence of one that is not.
<1> DEFINE present(w, s) == [y EXCEPT !.stage = "direct", !.way = w, !.cites = s]
           gathered(t, s) == [y EXCEPT !.stage = t, !.cites = s]
<1>14. ASSUME NEW w, NEW s, ask' = [ask EXCEPT ![a] = present(w, s)], free' = free, ask[a].stage = "checked"
       PROVE  Apart(a)
  <2>1. LET x == present(w, s)
        IN  /\ DOMAIN x = DOMAIN ask[a] /\ x.outcome = ask[a].outcome /\ x.kept = ask[a].kept
            /\ x.stage = "direct"
    BY DEF AskShape
  <2> HIDE DEF present
  <2> QED BY <1>10, <1>14, <2>1 DEF Stages
<1>15. ASSUME NEW t \in {"merged", "answered", "cited"}, NEW s, ask' = [ask EXCEPT ![a] = gathered(t, s)],
              free' = free, ask[a].stage \in {"found", "merged"}
       PROVE  Apart(a)
  <2>1. LET x == gathered(t, s)
        IN  /\ DOMAIN x = DOMAIN ask[a] /\ x.outcome = ask[a].outcome /\ x.kept = ask[a].kept
            /\ x.stage = t
    BY DEF AskShape
  <2> HIDE DEF gathered
  <2> QED BY <1>10, <1>15, <2>1 DEF Stages
<1>17. CASE HitRole(a)
  <2>1. free' = free /\ ask[a].stage = "checked" /\ ask' = [ask EXCEPT ![a] = present("role", role.cites)]
    BY <1>17 DEF HitRole, At
  <2> HIDE DEF present
  <2> QED BY <1>14, <2>1
<1>18. CASE ServeExact(a)
  <2>1. /\ free' = free /\ ask[a].stage = "checked"
        /\ ask' = [ask EXCEPT ![a] = present("direct", exact.cites)] \/ Goes(a, "missed")
    BY <1>18 DEF ServeExact, At
  <2> HIDE DEF present
  <2> QED BY <1>2, <1>14, <2>1 DEF Stages
<1>19. CASE Retrieve(a)
  <2>1. free' = free /\ ask[a].stage = "missed"
    BY <1>19 DEF Retrieve, At
  <2>2. PICK s : ask' = [ask EXCEPT ![a] = [y EXCEPT !.stage = "found", !.hits = Allowed(s, ask[a].level),
                                                     !.cites = Allowed(s, ask[a].level)]]
    BY <1>19 DEF Retrieve
  <2> DEFINE x == [y EXCEPT !.stage = "found", !.hits = Allowed(s, ask[a].level),
                            !.cites = Allowed(s, ask[a].level)]
  <2>3. /\ DOMAIN x = DOMAIN ask[a] /\ x.outcome = ask[a].outcome /\ x.kept = ask[a].kept
        /\ x.stage = "found"
    BY DEF AskShape
  <2> HIDE DEF x
  <2> QED BY <1>10, <2>1, <2>2, <2>3 DEF Stages, x
<1>20. CASE Gather(a)
  <2> DEFINE follows == y.way = "followup" /\ last[a] # <<>>
             sticky == IF follows THEN Within(last[a], y.bases) ELSE <<>>
             near == Neighbors(sticky \o y.hits, y.bases)
             room == IF TopK + Len(near) > Cap THEN TopK + Len(near) ELSE Cap
             evidence == Merge(y.hits, sticky \o near, IF follows THEN Cap ELSE room)
  <2>1. free' = free /\ ask[a].stage = "found" /\ ask' = [ask EXCEPT ![a] = gathered("merged", evidence)]
    BY <1>20 DEF Gather, At
  <2> HIDE DEF gathered, evidence
  <2> QED BY <1>15, <2>1
<1>21. CASE Refilter(a)
  <2> DEFINE allowed == Allowed(ask[a].cites, ask[a].level)
             to == IF allowed = <<>> THEN "answered" ELSE "cited"
  <2>1. free' = free /\ ask[a].stage = "merged" /\ ask' = [ask EXCEPT ![a] = gathered(to, allowed)]
    BY <1>21 DEF Refilter, At
  <2>2. to \in {"answered", "cited"}
    OBVIOUS
  <2> HIDE DEF gathered, allowed, to
  <2> QED BY <1>15, <2>1, <2>2
<1>16. CASE PersistTurn(a)
  <2>1. free' = free /\ ask[a].stage \in {"answered", "direct"}
    BY <1>16 DEF PersistTurn, At
  <2>2. PICK s \in {"kept", "done"} : ask' = [ask EXCEPT ![a] = [y EXCEPT !.stage = s, !.kept = TRUE]]
    BY <1>16 DEF PersistTurn
  <2> DEFINE x == [y EXCEPT !.stage = s, !.kept = TRUE]
  <2>3. /\ DOMAIN x = DOMAIN ask[a] /\ x.outcome = ask[a].outcome /\ x.kept = TRUE /\ x.stage = s
    BY DEF AskShape
  <2>4. {"stage", "way", "kept", "outcome", "cites", "hits", "bases", "level", "moved"} \subseteq DOMAIN x
    BY <2>3 DEF AskShape
  <2> HIDE DEF x
  <2> QED BY <1>3, <1>4, <2>1, <2>2, <2>3, <2>4 DEF Stages, x
<1> QED
  BY <1>5, <1>6, <1>7, <1>8, <1>9, <1>11, <1>12, <1>13, <1>16, <1>17, <1>18,
     <1>19, <1>20, <1>21 DEF Ungated

-----------------------------------------------------------------------------
(* The gate *)

\* What taking a slot does to those that generate.
LEMMA OneMore ==
    ASSUME GateInv, NEW a \in Conversations, ~At(a, "generating"), free > 0, free' = free - 1,
           Generating' = Generating \cup {a}
    PROVE  GateInv'
<1>1. a \notin Generating
  BY DEF Generating
<1>2. /\ IsFiniteSet(Generating')
      /\ Cardinality(Generating') = Cardinality(Generating) + 1
  BY <1>1, FS_AddElement DEF GateInv
<1>3. Cardinality(Generating) \in Nat
  BY FS_CardinalityType DEF GateInv
<1> QED BY <1>2, <1>3, FlowAssumption DEF GateInv, GateExact

\* What giving it back does.
LEMMA OneLess ==
    ASSUME GateInv, NEW a \in Conversations, At(a, "generating"), free' = free + 1,
           Generating' = Generating \ {a}
    PROVE  GateInv'
<1>1. a \in Generating
  BY DEF Generating
<1>2. /\ IsFiniteSet(Generating')
      /\ Cardinality(Generating') = Cardinality(Generating) - 1
  BY <1>1, FS_RemoveElement DEF GateInv
<1>3. Cardinality(Generating) \in Nat
  BY FS_CardinalityType DEF GateInv
<1> QED BY <1>2, <1>3, FlowAssumption DEF GateInv, GateExact

\* A step of one ask changes whether that one generates, and no other.
LEMMA OthersGenerate ==
    ASSUME AskShape, NEW a \in Conversations, \A b \in Conversations \ {a} : ask'[b] = ask[b]
    PROVE  Generating' = IF ask'[a].stage = "generating" THEN Generating \cup {a} ELSE Generating \ {a}
  BY DEF Generating, At

\* A slot is taken with the stage "generating" and given back with its end.
LEMMA GatedStep ==
    ASSUME AskInv, NEW a \in Conversations, AcquireSlot(a) \/ Generate(a) \/ Fail(a) \/ Leave(a)
    PROVE  AskInv'
<1> USE DEF AskInv
<1>1. CASE AcquireSlot(a)
  <2>1. /\ ask[a].stage = "cited" /\ free > 0 /\ free' = free - 1 /\ Goes(a, "generating")
        /\ ~At(a, "generating")
    BY <1>1 DEF AcquireSlot, At
  <2>2. /\ AskShape'
        /\ ask'[a].stage = "generating" /\ ask'[a].outcome = ask[a].outcome /\ ask'[a].kept = ask[a].kept
        /\ \A b \in Conversations \ {a} : ask'[b] = ask[b]
    BY <2>1, AskGoes DEF Stages
  <2>3. GateInv'
    BY <2>1, <2>2, OthersGenerate, OneMore
  <2>4. KeptByStage'
    BY <2>1, <2>2 DEF KeptByStage
  <2> QED BY <2>2, <2>3, <2>4
<1>2. CASE Generate(a)
  <2>1. ask[a].stage = "generating" /\ free' = free + 1 /\ Goes(a, "answered") /\ At(a, "generating")
    BY <1>2 DEF Generate, At
  <2>2. /\ AskShape'
        /\ ask'[a].stage = "answered" /\ ask'[a].outcome = ask[a].outcome /\ ask'[a].kept = ask[a].kept
        /\ \A b \in Conversations \ {a} : ask'[b] = ask[b]
    BY <2>1, AskGoes DEF Stages
  <2>3. GateInv'
    BY <2>1, <2>2, OthersGenerate, OneLess
  <2>4. KeptByStage'
    BY <2>1, <2>2 DEF KeptByStage
  <2> QED BY <2>2, <2>3, <2>4
<1>3. CASE Fail(a) \/ Leave(a)
  <2>1. PICK o \in {"error", "left"} : Ends(a, o) /\ (o = "error" => ask[a].stage \notin {"kept", "done"})
    BY <1>3 DEF Fail, Leave
  <2>2. ask[a].stage # "idle" /\ Release(a)
    BY <1>3 DEF Fail, Leave
  <2>3. /\ AskShape'
        /\ ask'[a].stage = "idle" /\ ask'[a].outcome = o /\ ask'[a].kept = ask[a].kept
        /\ \A b \in Conversations \ {a} : ask'[b] = ask[b]
    BY <2>1, AskEnds
  <2>4. Generating' = Generating \ {a}
    BY <2>3, OthersGenerate
  <2>5. At(a, "generating") => GateInv'
    BY <2>2, <2>4, OneLess DEF Release
  <2>6. ~At(a, "generating") => GateInv'
    <3> SUFFICES ASSUME ~At(a, "generating") PROVE GateInv'
      OBVIOUS
    <3>1. Generating' = Generating /\ free' = free
      BY <2>2, <2>4 DEF Release, Generating
    <3> QED BY <3>1 DEF GateInv, GateExact
  <2>7. KeptByStage'
    BY <2>1, <2>2, <2>3 DEF KeptByStage
  <2> QED BY <2>3, <2>5, <2>6, <2>7
<1> QED BY <1>1, <1>2, <1>3

-----------------------------------------------------------------------------
(* The invariant *)

\* Nobody asks at the start, and all slots are free.
LEMMA AskStarts == Init => AskInv
<1> SUFFICES ASSUME Init PROVE AskInv
  OBVIOUS
<1>1. \A a \in Conversations : ask[a].stage = "idle" /\ ask[a].outcome = "none"
  BY DEF Init, Idle
<1>2. Generating = {}
  BY <1>1 DEF Generating, At
<1>3. GateInv
  BY <1>2, FS_EmptySet, FlowAssumption DEF GateInv, GateExact, Init
<1>4. AskShape
  BY DEF Init, Idle, AskShape, Stages
<1>5. KeptByStage
  BY <1>1 DEF KeptByStage
<1> QED BY <1>3, <1>4, <1>5 DEF AskInv

\* Administrators change levels, rights and the role cache under running asks;
\* an ask only notes the documents that moved.
LEMMA Administration ==
    ASSUME AskInv,
           \/ \E d \in Docs, l \in Levels : SetLevel(d, l)
           \/ \E a \in Conversations, B \in SUBSET Bases, l \in Levels : SetRights(a, B, l)
           \/ \E c \in Chunks : AnalyzeDocuments(c)
    PROVE  AskInv'
<1> USE DEF AskInv
<1>1. CASE \E d \in Docs, l \in Levels : SetLevel(d, l)
  <2>1. PICK d \in Docs, l \in Levels : SetLevel(d, l)
    BY <1>1
  <2>2. /\ free' = free /\ DOMAIN ask' = Conversations
        /\ \A a \in Conversations :
             ask'[a] = IF At(a, "idle") THEN ask[a] ELSE [ask[a] EXCEPT !.moved = ask[a].moved \cup {d}]
    BY <2>1 DEF SetLevel
  <2>3. \A a \in Conversations :
            /\ DOMAIN ask'[a] = DOMAIN ask[a] /\ ask'[a].stage = ask[a].stage
            /\ ask'[a].outcome = ask[a].outcome /\ ask'[a].kept = ask[a].kept
    BY <2>2 DEF AskShape
  <2>4. AskShape' /\ KeptByStage'
    BY <2>2, <2>3 DEF AskShape, KeptByStage
  <2>5. GateInv'
    BY <2>2, <2>3, GateStays DEF At
  <2> QED BY <2>4, <2>5
<1>2. CASE \/ \E a \in Conversations, B \in SUBSET Bases, l \in Levels : SetRights(a, B, l)
           \/ \E c \in Chunks : AnalyzeDocuments(c)
  <2>1. ask' = ask /\ free' = free
    BY <1>2 DEF SetRights, AnalyzeDocuments
  <2>2. GateInv'
    BY <2>1, GateStays DEF At
  <2>3. AskShape' /\ KeptByStage'
    BY <2>1 DEF AskShape, KeptByStage
  <2> QED BY <2>2, <2>3
<1> QED BY <1>1, <1>2

\* Every step of an ask and of an administrator keeps the invariant.
LEMMA AskStep == AskInv /\ [Next]_vars => AskInv'
<1> SUFFICES ASSUME AskInv, [Next]_vars PROVE AskInv'
  OBVIOUS
<1>1. ASSUME NEW a \in Conversations, Step(a) PROVE AskInv'
  <2>1. CASE Ungated(a)
    <3>1. Apart(a)
      BY <2>1, UngatedStep
    <3>2. \A b \in Conversations : At(b, "generating")' <=> At(b, "generating")
      BY <3>1 DEF Apart, At
    <3>3. GateInv'
      BY <3>1, <3>2, GateStays DEF Apart, AskInv
    <3> QED BY <3>1, <3>3 DEF Apart, AskInv
  <2>2. CASE AcquireSlot(a) \/ Generate(a) \/ Fail(a) \/ Leave(a)
    BY <2>2, GatedStep
  <2> QED BY <1>1, <2>1, <2>2 DEF Step, Ungated
<1>2. CASE UNCHANGED vars
  <2>1. ask' = ask /\ free' = free
    BY <1>2 DEF vars
  <2>2. GateInv'
    BY <2>1, GateStays DEF At, AskInv
  <2>3. AskShape' /\ KeptByStage'
    BY <2>1 DEF AskShape, KeptByStage, AskInv
  <2> QED BY <2>2, <2>3 DEF AskInv
<1> QED BY <1>1, <1>2, Administration DEF Next

\* The invariant of the asks always holds.
LEMMA AskAlways == Spec => []AskInv
  BY AskStarts, AskStep, PTL DEF Spec

\* However an ask ends (answered, failed, cut off by its client), the slots of
\* the gate are free or held by asks that generate.
THEOREM NoSlotLost == Spec => []GateExact
<1>1. AskInv => GateExact
  BY DEF AskInv, GateInv
<1> QED BY <1>1, AskAlways, PTL

\* A client that is told "done" has a committed turn, and one that is told of
\* an error or a refusal has none.
THEOREM ClientsToldTruth == Spec => []OutcomeHonest
<1>1. AskInv => OutcomeHonest
  BY DEF AskInv, AskShape, KeptByStage, OutcomeHonest
<1> QED BY <1>1, AskAlways, PTL

-----------------------------------------------------------------------------
(* Induction over places of a sequence: the theorems of the library take a  *)
(* predicate as a parameter; here a set is one, and the least number that   *)
(* is not in it the counterexample.                                         *)

\* The natural numbers are well founded.
LEMMA Least == ASSUME NEW T, T \subseteq Nat, T # {} PROVE \E n \in T : \A m \in T : n <= m
<1> DEFINE R == {p \in Nat \X Nat : p[1] < p[2]}
<1>1. IsWellFoundedOn(R, Nat)
  BY NatLessThanWellFounded DEF OpToRel
<1>2. \A m, n \in Nat : m < n => <<m, n>> \in R
  OBVIOUS
<1> HIDE DEF R
<1>3. PICK n \in T : \A m \in T : ~ (<<m, n>> \in R)
  BY <1>1, WFMin
<1>4. ASSUME NEW m \in T PROVE n <= m
  <2>1. m \in Nat /\ n \in Nat /\ ~(m < n)
    BY <1>2, <1>3
  <2> QED BY <2>1
<1> QED BY <1>4

\* Induction, for a set instead of a predicate.
LEMMA Induction == ASSUME NEW T, T \subseteq Nat, 0 \in T, \A n \in T : n + 1 \in T PROVE Nat = T
<1> SUFFICES ASSUME NEW m \in Nat, m \notin T PROVE FALSE
  OBVIOUS
<1>1. PICK n \in Nat \ T : \A k \in Nat \ T : n <= k
  <2>1. Nat \ T \subseteq Nat /\ Nat \ T # {}
    OBVIOUS
  <2> QED BY <2>1, Least
<1>2. n # 0 /\ n - 1 \in Nat /\ n - 1 \in T
  BY <1>1
<1> QED BY <1>1, <1>2

\* f is built from v by step.
BuiltBy(f, v, step, n) == f[0] = v /\ \A i \in 1..n : f[i] = step[<<i, f[i - 1]>>]

\* What a recursive function over a prefix of the numbers is: it exists.
LEMMA Recursion ==
    ASSUME NEW V, NEW v \in V, NEW n \in Nat, NEW step \in [(1..n) \X V -> V]
    PROVE  \E f \in [0..n -> V] : BuiltBy(f, v, step, n)
<1> DEFINE Upto(m) == \E f \in [0..m -> V] : f[0] = v /\ \A i \in 1..m : f[i] = step[<<i, f[i - 1]>>]
           T == {m \in Nat : m <= n => Upto(m)}
<1>1. 0 \in T
  <2> DEFINE f == [i \in 0..0 |-> v]
  <2>1. f \in [0..0 -> V] /\ f[0] = v /\ \A i \in 1..0 : f[i] = step[<<i, f[i - 1]>>]
    OBVIOUS
  <2>2. Upto(0)
    BY <2>1
  <2> QED BY <2>2
<1>2. ASSUME NEW m \in T PROVE m + 1 \in T
  <2> SUFFICES ASSUME m + 1 <= n PROVE Upto(m + 1)
    OBVIOUS
  <2>1. m \in Nat /\ Upto(m)
    OBVIOUS
  <2>2. PICK f \in [0..m -> V] : f[0] = v /\ \A i \in 1..m : f[i] = step[<<i, f[i - 1]>>]
    BY <2>1
  <2> DEFINE x == step[<<m + 1, f[m]>>]
             g == [i \in 0..(m + 1) |-> IF i = m + 1 THEN x ELSE f[i]]
  <2>3. x \in V
    <3>1. m + 1 \in 1..n /\ f[m] \in V
      BY <2>1
    <3> QED BY <3>1
  <2>4. g \in [0..(m + 1) -> V]
    BY <2>1, <2>3
  <2>5. ASSUME NEW i \in 1..(m + 1) PROVE g[i] = step[<<i, g[i - 1]>>]
    <3>1. CASE i = m + 1
      BY <2>1, <3>1
    <3>2. CASE i # m + 1
      <4>1. i \in 1..m /\ i \in 0..(m + 1) /\ i - 1 \in 0..(m + 1) /\ i - 1 # m + 1
        BY <2>1, <3>2
      <4> QED BY <2>2, <4>1, <3>2
    <3> QED BY <3>1, <3>2
  <2>6. g[0] = v
    BY <2>1, <2>2
  <2> HIDE DEF g
  <2> QED BY <2>4, <2>5, <2>6
<1>3. n \in T
  <2>1. T \subseteq Nat
    OBVIOUS
  <2> HIDE DEF T
  <2> QED BY <2>1, <1>1, <1>2, Induction
<1> QED BY <1>3 DEF BuiltBy

LEMMA Appended ==
    ASSUME NEW S, NEW s \in Seq(S), NEW x \in S
    PROVE  Append(s, x) \in Seq(S) /\ ToSet(Append(s, x)) = ToSet(s) \cup {x}
<1> DEFINE t == Append(s, x)
<1>1. /\ t \in Seq(S) /\ Len(t) = Len(s) + 1 /\ t[Len(s) + 1] = x /\ \A i \in 1..Len(s) : t[i] = s[i]
      /\ DOMAIN t = 1..Len(t) /\ DOMAIN s = 1..Len(s) /\ Len(s) \in Nat
  OBVIOUS
<1> HIDE DEF t
<1>2. ASSUME NEW y PROVE y \in ToSet(t) <=> y \in ToSet(s) \cup {x}
  <2>1. ASSUME NEW i \in DOMAIN t PROVE t[i] \in ToSet(s) \cup {x}
    BY <1>1 DEF ToSet
  <2>2. \A i \in DOMAIN s : i \in DOMAIN t /\ t[i] = s[i]
    BY <1>1
  <2>3. Len(s) + 1 \in DOMAIN t
    BY <1>1
  <2> QED BY <1>1, <2>1, <2>2, <2>3 DEF ToSet
<1> QED BY <1>1, <1>2 DEF t

\* A selection has the members at the places selected.
LEMMA Sifted == ASSUME NEW S, NEW s \in Seq(S), NEW I
  PROVE /\ Sift(s, I) \in Seq(S) 
        /\ ToSet(Sift(s, I)) = {s[i] : i \in I \cap DOMAIN s}
<1> DEFINE n == Len(s)
           f[i \in 0..Len(s)] == IF i = 0 THEN <<>> ELSE IF i \in I THEN Append(f[i - 1], s[i]) ELSE f[i - 1]
           step == [p \in (1..n) \X Seq(S) |-> IF p[1] \in I THEN Append(p[2], s[p[1]]) ELSE p[2]]
<1>1. n \in Nat /\ DOMAIN s = 1..n /\ \A i \in 1..n : s[i] \in S
  OBVIOUS
<1>2. step \in [(1..n) \X Seq(S) -> Seq(S)]
  BY <1>1
<1>3. \E g \in [0..n -> Seq(S)] : g[0] = <<>> /\ \A i \in 1..n : g[i] = step[<<i, g[i - 1]>>]
  <2> DEFINE V == Seq(S)
             v == <<>>
  <2>1. v \in V /\ n \in Nat /\ step \in [(1..n) \X V -> V]
    BY <1>1, <1>2
  <2> HIDE DEF step, n, f, V, v
  <2>2. \E g \in [0..n -> V] : g[0] = v /\ \A i \in 1..n : g[i] = step[<<i, g[i - 1]>>]
    <3>1. \E g \in [0..n -> V] : BuiltBy(g, v, step, n)
      BY <2>1, Recursion
    <3> QED BY <3>1 DEF BuiltBy
  <2> QED BY <2>2 DEF V, v
<1>4. PICK g \in [0..n -> Seq(S)] : g[0] = <<>> /\ \A i \in 1..n : g[i] = step[<<i, g[i - 1]>>]
  BY <1>3
<1>5. \A i \in 0..n : i # 0 => i \in 1..n /\ i - 1 \in 0..n /\ g[i-1] \in Seq(S)
  BY <1>1
<1>6. g = [i \in 0..n |-> IF i = 0 THEN <<>> ELSE IF i \in I THEN Append(g[i - 1], s[i]) ELSE g[i - 1]]
  BY <1>1, <1>4, <1>5
<1>7. f = [i \in 0..n |-> IF i = 0 THEN <<>> ELSE IF i \in I THEN Append(f[i - 1], s[i]) ELSE f[i - 1]]
  BY <1>6
<1>8. Sift(s, I) = f[n]
  BY DEF Sift
<1> HIDE DEF step, f
<1> DEFINE T == {i \in Nat : i <= n => f[i] \in Seq(S) /\ ToSet(f[i]) = {s[j] : j \in I \cap (1..i)}}
<1>9. 0 \in T
  BY <1>1, <1>7 DEF ToSet
<1>10. ASSUME NEW i \in T PROVE i + 1 \in T
  <2> SUFFICES ASSUME i + 1 <= n PROVE f[i + 1] \in Seq(S) /\ ToSet(f[i + 1]) = {s[j] : j \in I \cap (1..(i + 1))}
    OBVIOUS
  <2>1. i \in Nat /\ i + 1 \in 1..n /\ i + 1 \in 0..n /\ i + 1 # 0 /\ (i + 1) - 1 = i
    BY <1>1
  <2>2. f[i + 1] = IF i + 1 \in I THEN Append(f[i], s[i + 1]) ELSE f[i]
    BY <1>7, <2>1
  <2>3. f[i] \in Seq(S) /\ ToSet(f[i]) = {s[j] : j \in I \cap (1..i)} /\ s[i + 1] \in S
    BY <1>1, <2>1
  <2>4. CASE i + 1 \in I
    <3>1. ToSet(Append(f[i], s[i + 1])) = ToSet(f[i]) \cup {s[i + 1]}
      BY <2>3, Appended
    <3>2. {s[j] : j \in I \cap (1..(i + 1))} = {s[j] : j \in I \cap (1..i)} \cup {s[i + 1]}
      BY <2>1, <2>4
    <3>3. Append(f[i], s[i + 1]) \in Seq(S)
      BY <2>3, Appended
    <3> QED BY <2>2, <2>3, <2>4, <3>1, <3>2, <3>3
  <2>5. CASE i + 1 \notin I
    BY <2>1, <2>2, <2>3, <2>5
  <2> QED BY <2>4, <2>5
<1>11. n \in T
  <2>1. T \subseteq Nat
    OBVIOUS
  <2> HIDE DEF T
  <2> QED BY <2>1, <1>1, <1>9, <1>10, Induction
<1> QED BY <1>1, <1>8, <1>11

-----------------------------------------------------------------------------
(* Evidence *)

LEMMA OnlyThose ==
    ASSUME NEW S, NEW s \in Seq(S), NEW C
    PROVE  Only(s, C) \in Seq(S) /\ ToSet(Only(s, C)) = ToSet(s) \cap C
<1> DEFINE I == {i \in DOMAIN s : s[i] \in C}
<1>1. Only(s, C) \in Seq(S) /\ ToSet(Only(s, C)) = {s[i] : i \in I \cap DOMAIN s}
  <2> HIDE DEF I
  <2>1. Sift(s, I) \in Seq(S) /\ ToSet(Sift(s, I)) = {s[i] : i \in I \cap DOMAIN s}
    BY Sifted
  <2> QED BY <2>1 DEF Only, I
<1> QED BY <1>1 DEF ToSet

LEMMA DistinctOnes ==
    ASSUME NEW S, NEW s \in Seq(S)
    PROVE  Distinct(s) \in Seq(S) /\ ToSet(Distinct(s)) \subseteq ToSet(s)
<1> DEFINE I == {i \in DOMAIN s : \A j \in 1..(i - 1) : s[j] # s[i]}
<1>1. Distinct(s) \in Seq(S) /\ ToSet(Distinct(s)) = {s[i] : i \in I \cap DOMAIN s}
  <2> HIDE DEF I
  <2>1. Sift(s, I) \in Seq(S) /\ ToSet(Sift(s, I)) = {s[i] : i \in I \cap DOMAIN s}
    BY Sifted
  <2> QED BY <2>1 DEF Distinct, I
<1> QED BY <1>1 DEF ToSet

LEMMA FirstOnes ==
    ASSUME NEW S, NEW s \in Seq(S), NEW n \in Nat
    PROVE  First(n, s) \in Seq(S) /\ ToSet(First(n, s)) \subseteq ToSet(s)
<1> DEFINE m == IF Len(s) < n THEN Len(s) ELSE n
<1>1. Len(s) \in Nat /\ m \in 0..Len(s) /\ DOMAIN s = 1..Len(s) /\ s \in [1..Len(s) -> S]
  OBVIOUS
<1> HIDE DEF m
<1>2. SubSeq(s, 1, m) = [i \in 1..m |-> s[i]]
  BY <1>1
<1>3. [i \in 1..m |-> s[i]] \in Seq(S) /\ DOMAIN [i \in 1..m |-> s[i]] = 1..m
  BY <1>1
<1>4. First(n, s) = [i \in 1..m |-> s[i]]
  BY <1>2 DEF First, m
<1> QED BY <1>1, <1>3, <1>4 DEF ToSet

LEMMA BothOnes ==
    ASSUME NEW S, NEW s \in Seq(S), NEW t \in Seq(S)
    PROVE  s \o t \in Seq(S) /\ ToSet(s \o t) = ToSet(s) \cup ToSet(t)
<1> DEFINE u == s \o t
<1>1. /\ Len(s) \in Nat /\ Len(t) \in Nat /\ DOMAIN s = 1..Len(s) /\ DOMAIN t = 1..Len(t)
      /\ u \in Seq(S) /\ DOMAIN u = 1..(Len(s) + Len(t))
      /\ \A i \in 1..Len(s) : u[i] = s[i]
      /\ \A i \in 1..Len(t) : u[Len(s) + i] = t[i]
  BY ConcatProperties
<1> HIDE DEF u
<1>2. ASSUME NEW i \in DOMAIN u PROVE u[i] \in ToSet(s) \cup ToSet(t)
  <2>1. CASE i <= Len(s)
    BY <1>1, <2>1 DEF ToSet
  <2>2. CASE i > Len(s)
    <3>1. i - Len(s) \in 1..Len(t) /\ Len(s) + (i - Len(s)) = i
      BY <1>1, <2>2
    <3>2. u[i] = t[i - Len(s)]
      BY <1>1, <3>1
    <3> QED BY <1>1, <3>1, <3>2 DEF ToSet
  <2> QED BY <1>1, <2>1, <2>2
<1>3. \A i \in DOMAIN s : s[i] \in ToSet(u)
  BY <1>1 DEF ToSet
<1>4. ASSUME NEW i \in DOMAIN t PROVE t[i] \in ToSet(u)
  <2>1. Len(s) + i \in DOMAIN u /\ u[Len(s) + i] = t[i]
    BY <1>1
  <2> QED BY <2>1 DEF ToSet
<1>5. ToSet(u) = ToSet(s) \cup ToSet(t)
  BY <1>2, <1>3, <1>4 DEF ToSet
<1> QED BY <1>1, <1>5 DEF u

\* A sequence of the members of a set.
LEMMA SequenceOf ==
    ASSUME NEW S, NEW C, NEW s \in Seq(S), ToSet(s) \subseteq C PROVE s \in Seq(C)
<1>1. s \in [1..Len(s) -> C] /\ Len(s) \in Nat
  BY DEF ToSet
<1> QED BY <1>1

InBases(s, B) == \A c \in ToSet(s) : BaseOf(c) \in B

LEMMA WithinBases ==
    ASSUME NEW s \in Seq(Chunks), NEW B, NEW l
    PROVE  /\ Within(s, B) \in Seq(Chunks) /\ InBases(Within(s, B), B)
           /\ Allowed(s, l) \in Seq(Chunks) /\ ToSet(Allowed(s, l)) \subseteq ToSet(s)
           /\ \A c \in ToSet(Allowed(s, l)) : LevelOf(c) <= l
<1>1. \A C : Only(s, C) \in Seq(Chunks) /\ ToSet(Only(s, C)) = ToSet(s) \cap C
  BY OnlyThose
<1> QED BY <1>1 DEF Within, Allowed, InBases

LEMMA NeighborsWithin ==
    ASSUME NEW s \in Seq(Chunks), NEW B
    PROVE  Neighbors(s, B) \in Seq(Chunks) /\ InBases(Neighbors(s, B), B)
<1> DEFINE places == [k \in 1..(2 * Len(s)) |-> Beside(s, k)]
           P == {Beside(s, k) : k \in 1..(2 * Len(s))}
           near == Only(Distinct(places), Chunks \ ToSet(s))
<1>1. places \in Seq(P)
  <2>1. 2 * Len(s) \in Nat /\ places \in [1..(2 * Len(s)) -> P]
    OBVIOUS
  <2> HIDE DEF places, P
  <2> QED BY <2>1
<1>2. Distinct(places) \in Seq(P)
  BY <1>1, DistinctOnes
<1>3. near \in Seq(P) /\ ToSet(near) \subseteq Chunks
  <2> DEFINE d == Distinct(places)
             C == Chunks \ ToSet(s)
  <2> HIDE DEF d, P, C
  <2>1. Only(d, C) \in Seq(P) /\ ToSet(Only(d, C)) = ToSet(d) \cap C
    BY <1>2, OnlyThose DEF d
  <2> QED BY <2>1 DEF d, C
<1>4. near \in Seq(Chunks)
  <2> HIDE DEF near, P
  <2> QED BY <1>3, SequenceOf
<1>5. Neighbors(s, B) = Within(near, B)
  BY DEF Neighbors
<1> HIDE DEF near
<1> QED BY <1>4, <1>5, WithinBases

LEMMA ResultsWithin ==
    ASSUME NEW B, NEW s \in Results(B) PROVE s \in Seq(Chunks) /\ InBases(s, B)
<1> DEFINE C == {c \in Chunks : BaseOf(c) \in B}
<1>1. \E n \in 0..TopK : s \in [1..n -> C]
  BY DEF Results, BoundedSeq, SeqOf
<1>2. PICK n \in 0..TopK : s \in [1..n -> C]
  BY <1>1
<1>3. n \in Nat
  BY FlowAssumption
<1> QED BY <1>2, <1>3 DEF InBases, ToSet

-----------------------------------------------------------------------------
(* What an ask may cite *)

Typed ==
    /\ level \in [Docs -> Levels] /\ rights \in [Conversations -> SUBSET Bases]
    /\ rank \in [Conversations -> Levels]
    /\ exact \in Answers /\ role \in Answers
    /\ last \in [Conversations -> Seq(Chunks)]
    /\ ask \in [Conversations -> Ask]

FitsLevel(x) == \A c \in ToSet(x.cites) : LevelOf(c) <= x.level \/ c[1] \in x.moved

\* An ask has no evidence before it retrieved some, and from then on only of its
\* bases; what it shows is within its level, as far as levels have stayed.
Early == {"open", "routed", "scoped", "checked", "missed"}
Evident(x) ==
    /\ x.stage \in Early => x.cites = <<>>
    /\ x.stage = "found" => InBases(x.hits, x.bases)
    /\ x.stage \in {"merged"} \cup Shown => InBases(x.cites, x.bases)
    /\ x.stage \in Shown => FitsLevel(x)

\* Answers in the caches are of the bases they name.
CitesInv ==
    /\ Typed /\ \A a \in Conversations : Evident(ask[a])
    /\ InBases(role.cites, role.bases) /\ InBases(exact.cites, exact.bases)

LEMMA NothingCited ==
    /\ <<>> \in Seq(Chunks) /\ \A B : InBases(<<>>, B)
    /\ Idle \in Ask /\ Evident(Idle)
    /\ \A x \in Ask : x.cites = <<>> => FitsLevel(x) /\ InBases(x.cites, x.bases)
<1>1. ToSet(<<>>) = {}
  BY DEF ToSet
<1> QED BY <1>1 DEF InBases, FitsLevel, Idle, Ask, Stages, Ways, Outcomes, Evident, Early, Shown

LEMMA CitesStart == Init => CitesInv
<1> SUFFICES ASSUME Init PROVE CitesInv
  OBVIOUS
<1>1. Nothing \in Answers /\ InBases(Nothing.cites, Nothing.bases)
  BY NothingCited DEF Nothing, Answers
<1>2. ASSUME NEW c \in Chunks
      PROVE  RoleEntry(c) \in Answers /\ InBases(RoleEntry(c).cites, RoleEntry(c).bases)
  <2>1. <<c>> \in Seq(Chunks) /\ ToSet(<<c>>) = {c} /\ BaseOf(c) \in Bases
    BY FlowAssumption DEF ToSet, BaseOf
  <2> QED BY <2>1 DEF RoleEntry, Answers, InBases
<1>3. Typed
  BY <1>1, <1>2, NothingCited, FlowAssumption DEF Init, Typed
<1> QED BY <1>1, <1>2, <1>3, NothingCited DEF Init, CitesInv

\* A step of an ask, which changes no level, leaves the other asks as they are.
LEMMA AskMoves ==
    ASSUME CitesInv, NEW a \in Conversations, NEW x \in Ask, Evident(x),
           ask' = [ask EXCEPT ![a] = x], UNCHANGED <<level, rights, rank, role>>,
           exact' \in Answers, InBases(exact'.cites, exact'.bases),
           last' \in [Conversations -> Seq(Chunks)]
    PROVE  CitesInv'
<1>1. Typed'
  BY DEF CitesInv, Typed
<1>2. \A b \in Conversations : Evident(ask'[b])
  BY DEF CitesInv, Typed
<1>3. ASSUME NEW b \in Conversations PROVE Evident(ask[b])'
  <2>1. Evident(ask'[b])
    BY <1>2
  <2> QED BY <2>1 DEF Evident, FitsLevel, InBases, LevelOf
<1>4. InBases(role.cites, role.bases)' /\ InBases(exact.cites, exact.bases)'
  BY DEF CitesInv, InBases
<1> QED BY <1>1, <1>3, <1>4 DEF CitesInv

\* The ask ends.
LEMMA AskOver ==
    ASSUME CitesInv, NEW a \in Conversations, NEW o \in Outcomes, Ends(a, o),
           UNCHANGED <<level, rights, rank, role, last>>,
           exact' \in Answers, InBases(exact'.cites, exact'.bases)
    PROVE  CitesInv'
<1> DEFINE x == [Idle EXCEPT !.outcome = o, !.kept = ask[a].kept]
<1>1. x \in Ask /\ x.stage = "idle"
  BY NothingCited DEF CitesInv, Typed, Ask, Idle
<1>2. Evident(x)
  BY <1>1 DEF Evident, Early, Shown
<1>3. ask' = [ask EXCEPT ![a] = x]
  BY DEF Ends
<1> HIDE DEF x
<1> QED BY <1>1, <1>2, <1>3, AskMoves DEF CitesInv, Typed

LEMMA EndingKeeps ==
    ASSUME CitesInv, NEW a \in Conversations,
           Block(a) \/ RefuseScope(a) \/ Busy(a) \/ Fail(a) \/ Leave(a)
    PROVE  CitesInv'
<1>1. \E o \in Outcomes : Ends(a, o)
  BY DEF Block, RefuseScope, Busy, Fail, Leave, Outcomes
<1>2. UNCHANGED <<level, rights, rank, role, last, exact>>
  BY DEF Block, RefuseScope, Busy, Fail, Leave
<1> QED BY <1>1, <1>2, AskOver DEF CitesInv, Typed

\* Steps that go on with the evidence there is.
LEMMA GoingKeeps ==
    ASSUME CitesInv, NEW a \in Conversations,
           \/ Start(a) \/ Route(a) \/ ResolveScope(a) \/ MissFaq(a) \/ MissCaches(a)
           \/ SearchNothing(a) \/ AcquireSlot(a) \/ Generate(a)
    PROVE  CitesInv'
<1> USE DEF Goes, At
<1>1. /\ UNCHANGED <<level, rights, rank, role, last, exact>>
      /\ ask[a] \in Ask /\ Evident(ask[a]) /\ ask \in [Conversations -> Ask]
      /\ rank[a] \in Levels /\ rights[a] \in SUBSET Bases
  BY DEF Start, Route, ResolveScope, MissFaq, MissCaches, SearchNothing, AcquireSlot, Generate, CitesInv, Typed
<1>2. CASE Start(a)
  <2> DEFINE x == [Idle EXCEPT !.stage = "open"]
  <2>1. x \in Ask /\ Evident(x)
    BY NothingCited DEF Idle, Ask, Stages, Evident, Early, Shown
  <2>2. ask' = [ask EXCEPT ![a] = x]
    BY <1>2 DEF Start
  <2> HIDE DEF x
  <2> QED BY <1>1, <2>1, <2>2, AskMoves DEF CitesInv, Typed
<1>3. CASE ResolveScope(a)
  <2>1. PICK B \in SUBSET rights[a] : ask' = [ask EXCEPT ![a].stage = "scoped", ![a].bases = B, ![a].level = rank[a]]
    BY <1>3 DEF ResolveScope
  <2> DEFINE x == [ask[a] EXCEPT !.stage = "scoped", !.bases = B, !.level = rank[a]]
  <2>2. x \in Ask /\ x.stage = "scoped" /\ x.cites = <<>>
    BY <1>1, <1>3 DEF Ask, Stages, Evident, Early, ResolveScope
  <2>3. ask' = [ask EXCEPT ![a] = x]
    BY <1>1, <2>1
  <2> HIDE DEF x
  <2>4. Evident(x)
    BY <2>2 DEF Evident, Early, Shown
  <2> QED BY <1>1, <2>2, <2>3, <2>4, AskMoves DEF CitesInv, Typed
<1>4. ASSUME NEW s \in Stages, NEW w \in Ways,
             ask' = [ask EXCEPT ![a] = [[ask[a] EXCEPT !.stage = s] EXCEPT !.way = w]],
             \/ s \in Early \cup {"direct", "answered"} /\ ask[a].stage \in Early
             \/ s \in Shown /\ ask[a].stage \in Shown
      PROVE  CitesInv'
  <2> DEFINE x == [[ask[a] EXCEPT !.stage = s] EXCEPT !.way = w]
  <2>1. x \in Ask /\ x.stage = s /\ x.cites = ask[a].cites /\ x.bases = ask[a].bases
        /\ x.level = ask[a].level /\ x.moved = ask[a].moved
    BY <1>1, <1>4 DEF Ask
  <2>2. ask' = [ask EXCEPT ![a] = x]
    BY <1>4
  <2> HIDE DEF x
  <2>3. CASE ask[a].stage \in Early
    <3>1. x.cites = <<>>
      BY <1>1, <2>1, <2>3 DEF Evident
    <3>2. Evident(x)
      BY <1>4, <2>1, <2>3, <3>1, NothingCited DEF Evident, Early, Shown
    <3> QED BY <1>1, <2>1, <2>2, <3>2, AskMoves DEF CitesInv, Typed
  <2>4. CASE s \in Shown /\ ask[a].stage \in Shown
    <3>1. Evident(x)
      BY <1>1, <2>1, <2>4 DEF Evident, FitsLevel, Shown, Early
    <3> QED BY <1>1, <2>1, <2>2, <3>1, AskMoves DEF CitesInv, Typed
  <2> QED BY <1>4, <2>3, <2>4
<1>5. CASE Route(a)
  <2>1. PICK s \in {"direct", "routed"}, w \in Ways :
            ask' = [ask EXCEPT ![a] = [[ask[a] EXCEPT !.stage = s] EXCEPT !.way = w]]
    <3>1. [[ask[a] EXCEPT !.stage = "routed"] EXCEPT !.way = ask[a].way] = [ask[a] EXCEPT !.stage = "routed"]
      BY <1>1 DEF Ask
    <3>2. ask[a].way \in Ways /\ "direct" \in Ways /\ "followup" \in Ways
      BY <1>1 DEF Ask, Ways
    <3> QED BY <1>1, <1>5, <3>1, <3>2 DEF Route
  <2> QED BY <1>4, <1>5, <2>1 DEF Route, Early, Stages
<1>6. CASE MissFaq(a) \/ MissCaches(a) \/ SearchNothing(a) \/ AcquireSlot(a) \/ Generate(a)
  <2>1. PICK s \in Stages : /\ Goes(a, s)
                            /\ \/ s \in Early \cup {"direct", "answered"} /\ ask[a].stage \in Early
                               \/ s \in Shown /\ ask[a].stage \in Shown
    BY <1>6 DEF MissFaq, MissCaches, SearchNothing, AcquireSlot, Generate, Stages, Early, Shown
  <2>2. [[ask[a] EXCEPT !.stage = s] EXCEPT !.way = ask[a].way] = [ask[a] EXCEPT !.stage = s]
    BY <1>1 DEF Ask
  <2>3. ask[a].way \in Ways
    BY <1>1 DEF Ask
  <2> QED BY <1>4, <2>1, <2>2, <2>3
<1> QED BY <1>2, <1>3, <1>5, <1>6

\* Steps that answer with what is there already.
LEMMA ReadyKeeps ==
    ASSUME CitesInv, NEW a \in Conversations, HitFaq(a) \/ HitRole(a) \/ ServeExact(a)
    PROVE  CitesInv'
<1>1. /\ UNCHANGED <<level, rights, rank, role, last>>
      /\ ask[a] \in Ask /\ Evident(ask[a]) /\ ask \in [Conversations -> Ask]
      /\ role \in Answers /\ exact \in Answers
      /\ InBases(role.cites, role.bases) /\ InBases(exact.cites, exact.bases)
  BY DEF HitFaq, HitRole, ServeExact, CitesInv, Typed
<1>2. ASSUME NEW s \in Seq(Chunks), NEW w \in Ways,
             ask' = [ask EXCEPT ![a] = [[[ask[a] EXCEPT !.stage = "direct"] EXCEPT !.way = w] EXCEPT !.cites = s]],
             InBases(s, ask[a].bases), \A c \in ToSet(s) : LevelOf(c) <= ask[a].level, exact' = exact
      PROVE  CitesInv'
  <2> DEFINE x == [[[ask[a] EXCEPT !.stage = "direct"] EXCEPT !.way = w] EXCEPT !.cites = s]
  <2>1. x \in Ask /\ x.stage = "direct" /\ x.cites = s /\ x.bases = ask[a].bases /\ x.level = ask[a].level
    BY <1>1, <1>2 DEF Ask, Stages
  <2>2. ask' = [ask EXCEPT ![a] = x]
    BY <1>2
  <2> HIDE DEF x
  <2>3. Evident(x)
    BY <1>2, <2>1 DEF Evident, FitsLevel, Early
  <2> QED BY <1>1, <1>2, <2>1, <2>2, <2>3, AskMoves DEF CitesInv, Typed
<1>3. CASE HitFaq(a)
  <2>1. PICK c \in Chunks :
          /\ BaseOf(c) \in ask[a].bases
          /\ IF LevelOf(c) <= ask[a].level
             THEN ask' = [ask EXCEPT ![a].stage = "direct", ![a].way = "direct", ![a].cites = <<c>>]
             ELSE Ends(a, "denied")
    BY <1>3 DEF HitFaq
  <2>2. <<c>> \in Seq(Chunks) /\ ToSet(<<c>>) = {c} /\ exact' = exact
    BY <1>3 DEF ToSet, HitFaq
  <2>3. CASE LevelOf(c) <= ask[a].level
    <3>1. InBases(<<c>>, ask[a].bases) /\ \A d \in ToSet(<<c>>) : LevelOf(d) <= ask[a].level
      BY <2>1, <2>2, <2>3 DEF InBases
    <3>2. ask' = [ask EXCEPT ![a] = [[[ask[a] EXCEPT !.stage = "direct"] EXCEPT !.way = "direct"] EXCEPT !.cites = <<c>>]]
      BY <2>1, <2>3
    <3> QED BY <1>2, <2>2, <3>1, <3>2 DEF Ways
  <2>4. CASE ~(LevelOf(c) <= ask[a].level)
    <3>1. Ends(a, "denied")
      BY <2>1, <2>4
    <3> QED BY <1>1, <2>2, <3>1, AskOver DEF Outcomes
  <2> QED BY <2>3, <2>4
<1>4. CASE HitRole(a)
  <2>1. role.cites \in Seq(Chunks) /\ role.bases \subseteq ask[a].bases /\ exact' = exact
        /\ \A c \in ToSet(role.cites) : LevelOf(c) <= ask[a].level
    BY <1>1, <1>4 DEF HitRole, RoleFits, Answers
  <2>2. InBases(role.cites, ask[a].bases)
    BY <1>1, <2>1 DEF InBases
  <2>3. ask' = [ask EXCEPT ![a] = [[[ask[a] EXCEPT !.stage = "direct"] EXCEPT !.way = "role"] EXCEPT !.cites = role.cites]]
    BY <1>4 DEF HitRole
  <2> QED BY <1>2, <2>1, <2>2, <2>3 DEF Ways
<1>5. CASE ServeExact(a)
  <2>1. exact.cites \in Seq(Chunks) /\ exact.bases = ask[a].bases /\ ask[a].stage = "checked"
    BY <1>1, <1>5 DEF ServeExact, ExactFits, Answers, At
  <2>2. CASE \A c \in ToSet(exact.cites) : LevelOf(c) <= ask[a].level
    <3>1. /\ ask' = [ask EXCEPT ![a] = [[[ask[a] EXCEPT !.stage = "direct"] EXCEPT !.way = "direct"] EXCEPT !.cites = exact.cites]]
          /\ exact' = exact
      BY <1>5, <2>2 DEF ServeExact
    <3> QED BY <1>1, <1>2, <2>1, <2>2, <3>1 DEF Ways
  <2>3. CASE ~ \A c \in ToSet(exact.cites) : LevelOf(c) <= ask[a].level
    <3> DEFINE x == [ask[a] EXCEPT !.stage = "missed"]
    <3>1. exact' = Nothing /\ ask' = [ask EXCEPT ![a] = x]
      BY <1>5, <2>3 DEF ServeExact, Goes
    <3>2. x \in Ask /\ x.stage = "missed" /\ x.cites = <<>>
      BY <1>1, <2>1 DEF Ask, Stages, Evident, Early
    <3> HIDE DEF x
    <3>3. Evident(x)
      BY <3>2 DEF Evident, Early, Shown
    <3>4. Nothing \in Answers /\ InBases(Nothing.cites, Nothing.bases)
      BY NothingCited DEF Nothing, Answers
    <3> QED BY <1>1, <3>1, <3>2, <3>3, <3>4, AskMoves DEF CitesInv, Typed
  <2> QED BY <2>2, <2>3
<1> QED BY <1>3, <1>4, <1>5

\* Steps that find, gather and filter evidence.
LEMMA FindingKeeps ==
    ASSUME CitesInv, NEW a \in Conversations, Retrieve(a) \/ Gather(a) \/ Refilter(a)
    PROVE  CitesInv'
<1>1. /\ UNCHANGED <<level, rights, rank, role, last, exact>>
      /\ ask[a] \in Ask /\ Evident(ask[a]) /\ ask \in [Conversations -> Ask]
      /\ last[a] \in Seq(Chunks)
  BY DEF Retrieve, Gather, Refilter, CitesInv, Typed
<1>2. CASE Retrieve(a)
  <2>1. PICK s \in Results(ask[a].bases) :
            ask' = [ask EXCEPT ![a].stage = "found",
                               ![a].hits = Allowed(s, ask[a].level), ![a].cites = Allowed(s, ask[a].level)]
    BY <1>2 DEF Retrieve
  <2> DEFINE r == Allowed(s, ask[a].level)
             x == [[[ask[a] EXCEPT !.stage = "found"] EXCEPT !.hits = r] EXCEPT !.cites = r]
  <2>2. r \in Seq(Chunks) /\ InBases(r, ask[a].bases)
    BY ResultsWithin, WithinBases DEF InBases
  <2>3. ask' = [ask EXCEPT ![a] = x]
    BY <2>1
  <2> HIDE DEF r
  <2>4. x \in Ask /\ x.stage = "found" /\ x.hits = r /\ x.bases = ask[a].bases
    BY <1>1, <2>2 DEF Ask, Stages
  <2> HIDE DEF x
  <2>5. Evident(x)
    BY <2>2, <2>4 DEF Evident, Early, Shown
  <2> QED BY <1>1, <2>3, <2>4, <2>5, AskMoves DEF CitesInv, Typed
<1>3. CASE Gather(a)
  <2> DEFINE B == ask[a].bases
             hits == ask[a].hits
             follows == ask[a].way = "followup" /\ last[a] # <<>>
             sticky == IF follows THEN Within(last[a], B) ELSE <<>>
             near == Neighbors(sticky \o hits, B)
             room == IF TopK + Len(near) > Cap THEN TopK + Len(near) ELSE Cap
             r == Merge(hits, sticky \o near, IF follows THEN Cap ELSE room)
             x == [[ask[a] EXCEPT !.stage = "merged"] EXCEPT !.cites = r]
  <2>1. ask' = [ask EXCEPT ![a] = x]
    BY <1>3 DEF Gather
  <2>2. hits \in Seq(Chunks) /\ InBases(hits, B)
    BY <1>1, <1>3 DEF Gather, At, Ask, Evident
  <2>3. sticky \in Seq(Chunks) /\ InBases(sticky, B)
    BY <1>1, WithinBases, NothingCited
  <2>4. near \in Seq(Chunks) /\ InBases(near, B)
    <3> HIDE DEF sticky, hits, B
    <3>1. sticky \o hits \in Seq(Chunks)
      BY <2>2, <2>3, BothOnes
    <3> QED BY <3>1, NeighborsWithin
  <2>5. (IF follows THEN Cap ELSE room) \in Nat
    <3>1. Len(near) \in Nat
      BY <2>4
    <3> HIDE DEF near, follows
    <3> QED BY <3>1, FlowAssumption
  <2>6. r \in Seq(Chunks) /\ InBases(r, B)
    <3> DEFINE before == sticky \o near
               all == before \o hits
               n == IF follows THEN Cap ELSE room
    <3> HIDE DEF sticky, near, hits, n, B
    <3>1. all \in Seq(Chunks) /\ InBases(all, B)
      <4>1. before \in Seq(Chunks) /\ ToSet(before) = ToSet(sticky) \cup ToSet(near)
        BY <2>3, <2>4, BothOnes
      <4> HIDE DEF before
      <4>2. all \in Seq(Chunks) /\ ToSet(all) = ToSet(before) \cup ToSet(hits)
        BY <2>2, <4>1, BothOnes
      <4>3. ToSet(all) = ToSet(sticky) \cup ToSet(near) \cup ToSet(hits)
        BY <4>1, <4>2
      <4> HIDE DEF all
      <4> QED BY <2>2, <2>3, <2>4, <4>2, <4>3 DEF InBases
    <3>2. r = First(n, Distinct(all))
      BY DEF Merge, n
    <3> HIDE DEF all, r
    <3>3. Distinct(all) \in Seq(Chunks) /\ ToSet(Distinct(all)) \subseteq ToSet(all)
      BY <3>1, DistinctOnes
    <3>4. n \in Nat
      BY <2>5 DEF n
    <3>5. r \in Seq(Chunks) /\ ToSet(r) \subseteq ToSet(Distinct(all))
      BY <3>2, <3>3, <3>4, FirstOnes
    <3> QED BY <3>1, <3>3, <3>5 DEF InBases
  <2> HIDE DEF r
  <2>7. x \in Ask /\ x.stage = "merged" /\ x.cites = r /\ x.bases = B
    BY <1>1, <2>6 DEF Ask, Stages
  <2> HIDE DEF x
  <2>8. Evident(x)
    BY <2>6, <2>7 DEF Evident, Early, Shown
  <2> QED BY <1>1, <2>1, <2>7, <2>8, AskMoves DEF CitesInv, Typed
<1>4. CASE Refilter(a)
  <2> DEFINE r == Allowed(ask[a].cites, ask[a].level)
             s == IF r = <<>> THEN "answered" ELSE "cited"
             x == [[ask[a] EXCEPT !.stage = s] EXCEPT !.cites = r]
  <2>1. ask' = [ask EXCEPT ![a] = x]
    BY <1>4 DEF Refilter
  <2>2. ask[a].cites \in Seq(Chunks) /\ InBases(ask[a].cites, ask[a].bases)
    BY <1>1, <1>4 DEF Refilter, At, Ask, Evident
  <2>3. r \in Seq(Chunks) /\ InBases(r, ask[a].bases) /\ \A c \in ToSet(r) : LevelOf(c) <= ask[a].level
    BY <2>2, WithinBases DEF InBases
  <2> HIDE DEF r
  <2>4. x \in Ask /\ x.stage \in {"answered", "cited"} /\ x.cites = r /\ x.bases = ask[a].bases
        /\ x.level = ask[a].level
    BY <1>1, <2>3 DEF Ask, Stages
  <2> HIDE DEF x
  <2>5. Evident(x)
    BY <2>3, <2>4 DEF Evident, FitsLevel, Early
  <2> QED BY <1>1, <2>1, <2>4, <2>5, AskMoves DEF CitesInv, Typed
<1> QED BY <1>2, <1>3, <1>4

\* Steps that keep an answer, in the conversation and in the exact cache.
LEMMA KeepingKeeps ==
    ASSUME CitesInv, NEW a \in Conversations, PersistTurn(a) \/ StoreAnswer(a) \/ Done(a)
    PROVE  CitesInv'
<1>1. /\ UNCHANGED <<level, rights, rank, role>>
      /\ ask[a] \in Ask /\ Evident(ask[a]) /\ ask \in [Conversations -> Ask]
      /\ exact \in Answers /\ InBases(exact.cites, exact.bases)
      /\ last \in [Conversations -> Seq(Chunks)]
  BY DEF PersistTurn, StoreAnswer, Done, CitesInv, Typed
<1>2. ask[a].stage \in Shown /\ ask[a].cites \in Seq(Chunks) /\ InBases(ask[a].cites, ask[a].bases)
  BY <1>1 DEF PersistTurn, StoreAnswer, Done, At, Shown, Evident, Ask
<1>3. Entry(a) \in Answers /\ InBases(Entry(a).cites, Entry(a).bases)
  BY <1>1, <1>2 DEF Entry, Answers, Ask
<1>4. CASE PersistTurn(a) \/ StoreAnswer(a)
  <2>1. PICK s \in {"kept", "done"}, k \in BOOLEAN :
            ask' = [ask EXCEPT ![a] = [[ask[a] EXCEPT !.stage = s] EXCEPT !.kept = k]]
    <3>1. [[ask[a] EXCEPT !.stage = "done"] EXCEPT !.kept = ask[a].kept] = [ask[a] EXCEPT !.stage = "done"]
      BY <1>1 DEF Ask
    <3>2. ask[a].kept \in BOOLEAN
      BY <1>1 DEF Ask
    <3> QED BY <1>1, <1>4, <3>1, <3>2 DEF PersistTurn, StoreAnswer, Goes
  <2> DEFINE x == [[ask[a] EXCEPT !.stage = s] EXCEPT !.kept = k]
  <2>2. x \in Ask /\ x.stage = s /\ x.cites = ask[a].cites /\ x.bases = ask[a].bases
        /\ x.level = ask[a].level /\ x.moved = ask[a].moved
    BY <1>1 DEF Ask, Stages
  <2>3. ask' = [ask EXCEPT ![a] = x]
    BY <2>1
  <2> HIDE DEF x
  <2>4. Evident(x)
    BY <1>1, <1>2, <2>2 DEF Evident, FitsLevel, Shown, Early
  <2>5. last' \in [Conversations -> Seq(Chunks)]
    BY <1>1, <1>2, <1>4 DEF PersistTurn, StoreAnswer
  <2>6. exact' \in {exact, Entry(a)}
    BY <1>4 DEF PersistTurn, StoreAnswer
  <2>7. exact' \in Answers /\ InBases(exact'.cites, exact'.bases)
    BY <1>1, <1>3, <2>6
  <2> QED BY <1>1, <2>2, <2>3, <2>4, <2>5, <2>7, AskMoves
<1>5. CASE Done(a)
  <2>1. Ends(a, "done") /\ last' = last /\ exact' \in {exact, Entry(a)}
    BY <1>5 DEF Done
  <2>2. exact' \in Answers /\ InBases(exact'.cites, exact'.bases)
    BY <1>1, <1>3, <2>1
  <2> QED BY <1>1, <2>1, <2>2, AskOver DEF Outcomes
<1> QED BY <1>4, <1>5

\* A document whose level changes has moved for every ask that runs.
LEMMA LevelMoves ==
    ASSUME CitesInv, NEW d \in Docs, NEW l \in Levels, SetLevel(d, l)
    PROVE  CitesInv'
<1>1. /\ UNCHANGED <<rights, rank, role, last>> /\ level' = [level EXCEPT ![d] = l]
      /\ level \in [Docs -> Levels] /\ exact' \in {exact, Nothing}
      /\ ask' = [a \in Conversations |-> IF At(a, "idle") THEN ask[a] ELSE [ask[a] EXCEPT !.moved = ask[a].moved \cup {d}]]
  BY DEF SetLevel, CitesInv, Typed
<1>2. Nothing \in Answers /\ InBases(Nothing.cites, Nothing.bases)
  BY NothingCited DEF Nothing, Answers
<1>3. ASSUME NEW a \in Conversations PROVE ask'[a] \in Ask /\ Evident(ask[a])'
  <2>1. ask[a] \in Ask /\ Evident(ask[a])
    BY DEF CitesInv, Typed
  <2>2. CASE At(a, "idle")
    BY <1>1, <2>1, <2>2 DEF At, Evident, Early, Shown
  <2>3. CASE ~At(a, "idle")
    <3>1. ask'[a] = [ask[a] EXCEPT !.moved = ask[a].moved \cup {d}]
      BY <1>1, <2>3
    <3>2. /\ ask'[a] \in Ask /\ ask'[a].moved = ask[a].moved \cup {d}
          /\ ask'[a].stage = ask[a].stage /\ ask'[a].cites = ask[a].cites /\ ask'[a].hits = ask[a].hits
          /\ ask'[a].bases = ask[a].bases /\ ask'[a].level = ask[a].level
      BY <2>1, <3>1 DEF Ask
    <3>3. FitsLevel(ask[a]) => FitsLevel(ask[a])'
      <4> SUFFICES ASSUME FitsLevel(ask[a]), NEW c \in ToSet(ask[a].cites)
                   PROVE  LevelOf(c)' <= ask[a].level \/ c[1] \in ask[a].moved \cup {d}
        BY <3>2 DEF FitsLevel
      <4>1. c \in Chunks
        BY <2>1 DEF Ask, ToSet
      <4>2. c[1] \in Docs
        BY <4>1, FlowAssumption
      <4>3. c[1] # d => LevelOf(c)' = LevelOf(c)
        BY <1>1, <4>2 DEF LevelOf
      <4> QED BY <4>3 DEF FitsLevel
    <3> QED BY <2>1, <3>2, <3>3 DEF Evident, InBases
  <2> QED BY <2>2, <2>3
<1>4. exact' \in Answers /\ InBases(exact'.cites, exact'.bases)
  BY <1>1, <1>2 DEF CitesInv, Typed
<1>5. Typed'
  BY <1>1, <1>3, <1>4 DEF CitesInv, Typed
<1>6. InBases(role.cites, role.bases)' /\ InBases(exact.cites, exact.bases)'
  BY <1>1, <1>4 DEF CitesInv, InBases
<1> QED BY <1>3, <1>5, <1>6 DEF CitesInv

LEMMA RightsMove ==
    ASSUME CitesInv,
           \/ \E a \in Conversations, B \in SUBSET Bases, l \in Levels : SetRights(a, B, l)
           \/ \E c \in Chunks : AnalyzeDocuments(c)
           \/ UNCHANGED vars
    PROVE  CitesInv'
<1>1. level' = level /\ exact' = exact /\ last' = last /\ ask' = ask
  BY DEF SetRights, AnalyzeDocuments, vars
<1>2. /\ rights' \in [Conversations -> SUBSET Bases] /\ rank' \in [Conversations -> Levels]
  BY DEF SetRights, AnalyzeDocuments, vars, CitesInv, Typed
<1>3. role' \in Answers /\ InBases(role'.cites, role'.bases)
  <2>1. ASSUME NEW c \in Chunks
        PROVE  RoleEntry(c) \in Answers /\ InBases(RoleEntry(c).cites, RoleEntry(c).bases)
    <3>1. <<c>> \in Seq(Chunks) /\ ToSet(<<c>>) = {c} /\ BaseOf(c) \in Bases
      BY FlowAssumption DEF ToSet, BaseOf
    <3> QED BY <3>1 DEF RoleEntry, Answers, InBases
  <2>2. role' = role \/ \E c \in Chunks : role' = RoleEntry(c)
    BY DEF SetRights, AnalyzeDocuments, vars
  <2> QED BY <2>1, <2>2 DEF CitesInv, Typed
<1>4. Typed'
  BY <1>1, <1>2, <1>3 DEF CitesInv, Typed
<1>5. \A a \in Conversations : Evident(ask[a])'
  BY <1>1 DEF CitesInv, Evident, FitsLevel, InBases, LevelOf
<1>6. InBases(role.cites, role.bases)' /\ InBases(exact.cites, exact.bases)'
  BY <1>1, <1>3 DEF CitesInv, InBases
<1> QED BY <1>4, <1>5, <1>6 DEF CitesInv

LEMMA CitesStep == CitesInv /\ [Next]_vars => CitesInv'
  BY EndingKeeps, GoingKeeps, ReadyKeeps, FindingKeeps, KeepingKeeps, LevelMoves, RightsMove DEF Next, Step

\* Whatever an answer comes from, it cites only documents of the bases resolved
\* for its ask, and none above its level but those whose level changed since
\* (filter_hits_by_sensitivity, load_hits_from_citations, expand_neighbor_hits,
\* RoleCacheService.lookup, the check of the exact cache).
THEOREM CitesWhatItMay == Spec => []CitesAllowed
<1>1. CitesInv => CitesAllowed
  BY DEF CitesInv, CitesAllowed, Evident, FitsLevel, InBases
<1>2. Spec => []CitesInv
  BY CitesStart, CitesStep, PTL DEF Spec
<1> QED BY <1>1, <1>2, PTL

-----------------------------------------------------------------------------
(* The answer cache *)

\* No request searches more than n bases.
Narrow(n) == \A a \in Asks : Cardinality(a.scope) <= n

-----------------------------------------------------------------------------
(* Keys *)

\* Fewer than all ids of a scope come before one of them.
LEMMA RankBound ==
    ASSUME NEW ids \in SUBSET Nat, IsFiniteSet(ids), NEW k \in ids
    PROVE  /\ Rank(ids, k) \in Nat /\ Cardinality(ids) \in Nat
           /\ Rank(ids, k) < Cardinality(ids)
<1> DEFINE before == {i \in ids : i < k}
<1>1. before \in SUBSET (ids \ {k}) OBVIOUS
<1>2. IsFiniteSet(ids \ {k}) /\ Cardinality(ids \ {k}) = Cardinality(ids) - 1
  BY FS_RemoveElement
<1>3. IsFiniteSet(before) /\ Cardinality(before) <= Cardinality(ids \ {k})
  BY <1>1, <1>2, FS_Subset
<1>4. Cardinality(before) \in Nat /\ Cardinality(ids) \in Nat
  BY <1>3, FS_CardinalityType
<1> QED BY <1>2, <1>3, <1>4 DEF Rank

\* A scope with one id more than the key has room for is still told apart.
LEMMA KeyKeepsScope ==
    ASSUME NEW a \in Asks, Narrow(WholeIds + 1)
    PROVE  Key(a) = [ids |-> a.scope, level |-> a.level]
<1>1. a.scope \in SUBSET Nat /\ IsFiniteSet(a.scope) /\ WholeIds \in Nat
  BY AnswerCacheAssumption
<1>2. ASSUME NEW k \in a.scope PROVE Rank(a.scope, k) <= WholeIds
  <2>1. /\ Rank(a.scope, k) \in Nat /\ Cardinality(a.scope) \in Nat
        /\ Rank(a.scope, k) < Cardinality(a.scope)
    BY <1>1, RankBound
  <2> QED BY <2>1, <1>1 DEF Narrow
<1>3. {k \in a.scope : Rank(a.scope, k) <= WholeIds} = a.scope
  BY <1>2
<1> QED BY <1>3 DEF Key

\* Hence different requests have different keys.
LEMMA KeyInjective ==
    ASSUME NEW a \in Asks, NEW b \in Asks, Narrow(WholeIds + 1), Key(a) = Key(b)
    PROVE  a = b
<1>1. a.scope = b.scope /\ a.level = b.level
  BY KeyKeepsScope
<1>2. /\ a \in [scope : SUBSET Nat, level : Level]
      /\ b \in [scope : SUBSET Nat, level : Level]
  BY AnswerCacheAssumption
<1> QED BY <1>1, <1>2

\* The invalidation pattern finds every key of a scope that fits and has Home.
LEMMA HomeMatches ==
    ASSUME NEW a \in Asks, Narrow(WholeIds), Home \in a.scope
    PROVE  Matches(Key(a))
<1>1. a.scope \in SUBSET Nat /\ IsFiniteSet(a.scope) /\ WholeIds \in Nat
  BY AnswerCacheAssumption
<1>2. \A b \in Asks : b.scope \in SUBSET Nat /\ IsFiniteSet(b.scope)
  BY AnswerCacheAssumption
<1>3. Narrow(WholeIds + 1)
  <2> SUFFICES ASSUME NEW b \in Asks PROVE Cardinality(b.scope) <= WholeIds + 1
    BY DEF Narrow
  <2>1. Cardinality(b.scope) \in Nat BY <1>2, FS_CardinalityType
  <2>2. Cardinality(b.scope) <= WholeIds BY DEF Narrow
  <2> QED BY <2>1, <2>2, <1>1
<1>4. Key(a) = [ids |-> a.scope, level |-> a.level]
  BY <1>3, KeyKeepsScope
<1>5. /\ Rank(a.scope, Home) \in Nat /\ Cardinality(a.scope) \in Nat
      /\ Rank(a.scope, Home) < Cardinality(a.scope)
  BY <1>1, RankBound
<1> QED BY <1>1, <1>4, <1>5 DEF Matches, Narrow

-----------------------------------------------------------------------------
(* Types *)

\* Constants of the right type.
LEMMA Idles == IdleRequest \in RequestState /\ IdleWriter \in WriterState
<1>1. SomeAsk \in Asks BY AnswerCacheAssumption DEF SomeAsk
<1> QED BY <1>1 DEF IdleRequest, RequestState, RequestPcs, CacheEntry, IdleWriter, WriterState

\* Every request has a key, and runs in a process.
LEMMA RequestTyped ==
    ASSUME CacheTypeOK, NEW q \in Requests
    PROVE  /\ req[q] \in RequestState /\ req[q].ask \in Asks /\ req[q].held \in CacheEntry
           /\ KeyOf(q) \in Keys /\ Process[q] \in Processes
  BY AnswerCacheAssumption DEF CacheTypeOK, RequestState, KeyOf, Keys

\* What retrieval finds is a revision, or 0.
LEMMA FoundTyped == ASSUME CacheTypeOK, NEW a PROVE Found(a) \in 0..MaxRevision
<1>1. doc.revision \in 1..MaxRevision BY DEF CacheTypeOK, DocState
<1> QED BY <1>1, AnswerCacheAssumption DEF Found

\* Setting fields of a request keeps it a request.
LEMMA RequestFields ==
    ASSUME NEW r \in RequestState, NEW pc \in RequestPcs, NEW entry \in CacheEntry
    PROVE  /\ [r EXCEPT !.pc = pc] \in RequestState
           /\ [r EXCEPT !.pc = pc, !.held = entry] \in RequestState
           /\ [r EXCEPT !.pc = pc, !.waited = TRUE] \in RequestState
  BY DEF RequestState

\* Moving a request, with or without an answer, keeps the table typed.
LEMMA RequestMoves ==
    ASSUME CacheTypeOK, NEW q \in Requests, NEW pc \in RequestPcs, NEW entry \in CacheEntry,
           Goto(q, pc) \/ Take(q, pc, entry) \/ Finish(q)
    PROVE  req' \in [Requests -> RequestState]
<1>1. req \in [Requests -> RequestState] /\ req[q] \in RequestState
  BY DEF CacheTypeOK
<1>2. /\ [req[q] EXCEPT !.pc = pc] \in RequestState
      /\ [req[q] EXCEPT !.pc = pc, !.held = entry] \in RequestState
  BY <1>1, RequestFields
<1> QED BY <1>1, <1>2, Idles DEF Goto, Take, Finish

\* Writing one entry of a dictionary keeps it typed.
LEMMA L1Typed ==
    ASSUME CacheTypeOK, NEW q \in Requests, NEW entry \in CacheEntry, L1Set(q, entry)
    PROVE  l1' \in [Processes -> [Asks -> CacheEntry]]
<1>1. Process[q] \in Processes /\ req[q].ask \in Asks BY RequestTyped
<1>2. l1 \in [Processes -> [Asks -> CacheEntry]] BY DEF CacheTypeOK
<1>3. [l1[Process[q]] EXCEPT ![req[q].ask] = entry] \in [Asks -> CacheEntry]
  BY <1>1, <1>2
<1> QED BY <1>1, <1>2, <1>3 DEF L1Set

\* The types hold at the start.
LEMMA TypeInit == CacheInit => CacheTypeOK
<1> SUFFICES ASSUME CacheInit PROVE CacheTypeOK OBVIOUS
<1>1. doc \in DocState /\ changes \in 0..MaxChanges
  <2>1. StartLevels \subseteq Level /\ 1 \in 1..MaxRevision /\ 0 \in 0..MaxChanges
    BY AnswerCacheAssumption
  <2>2. doc \in [exists : BOOLEAN, revision : 1..MaxRevision, level : Level]
    BY <2>1 DEF CacheInit
  <2> QED BY <2>1, <2>2 DEF CacheInit, DocState
<1>2. /\ l1 \in [Processes -> [Asks -> CacheEntry]] /\ l2 \in [Keys -> CacheEntry]
      /\ lock \in SUBSET Keys /\ disturbed \in BOOLEAN
  BY DEF CacheInit, CacheEntry
<1>3. req \in [Requests -> RequestState] /\ writer \in [Writers -> WriterState]
  BY Idles DEF CacheInit
<1> QED BY <1>1, <1>2, <1>3 DEF CacheTypeOK

\* Every step of a request keeps the types.
LEMMA TypeRequest ==
    ASSUME CacheTypeOK, NEW q \in Requests,
           Work(q) \/ Abandon(q) \/ \E a \in Asks : Begin(q, a)
    PROVE  CacheTypeOK'
<1> USE DEF CacheTypeOK
<1>1. /\ req[q] \in RequestState /\ req[q].ask \in Asks /\ req[q].held \in CacheEntry
      /\ KeyOf(q) \in Keys /\ Process[q] \in Processes
  BY RequestTyped
<1>2. NoAnswer \in CacheEntry BY DEF CacheEntry
<1>3. ASSUME UNCHANGED <<database, l1, l2, lock>>,
             NEW pc \in RequestPcs, NEW entry \in CacheEntry,
             Goto(q, pc) \/ Take(q, pc, entry) \/ Finish(q)
      PROVE  CacheTypeOK'
  <2>1. req' \in [Requests -> RequestState] BY <1>3, RequestMoves
  <2> QED BY <1>3, <2>1 DEF database
<1>4. CASE \E a \in Asks : Begin(q, a)
  <2> PICK a \in Asks : Begin(q, a) BY <1>4
  <2>1. [IdleRequest EXCEPT !.pc = "lookup", !.ask = a] \in RequestState
    BY Idles DEF RequestState, RequestPcs
  <2>2. disturbed' \in BOOLEAN BY DEF Begin
  <2> QED BY <2>1, <2>2 DEF Begin
<1>5. CASE LookupL1(q)
  <2> DEFINE entry == l1[Process[q]][req[q].ask]
  <2>1. entry \in CacheEntry BY <1>1
  <2>2. Take(q, "found", entry) \/ Goto(q, "get") BY <1>5 DEF LookupL1
  <2> HIDE DEF entry
  <2>3. CASE Take(q, "found", entry)
    <3>1. "found" \in RequestPcs BY DEF RequestPcs
    <3> QED BY <1>3, <1>5, <2>1, <2>3, <3>1 DEF LookupL1
  <2>4. CASE Goto(q, "get")
    <3>1. "get" \in RequestPcs BY DEF RequestPcs
    <3> QED BY <1>2, <1>3, <1>5, <2>4, <3>1 DEF LookupL1
  <2> QED BY <2>2, <2>3, <2>4
<1>6. CASE GetL2(q)
  <2>1. CASE Take(q, "got", l2[KeyOf(q)])
    <3>1. "got" \in RequestPcs /\ l2[KeyOf(q)] \in CacheEntry BY <1>1 DEF RequestPcs
    <3> QED BY <1>3, <1>6, <2>1, <3>1 DEF GetL2
  <2>2. CASE Goto(q, IF req[q].waited THEN "waiting" ELSE "missed")
    <3>1. (IF req[q].waited THEN "waiting" ELSE "missed") \in RequestPcs BY DEF RequestPcs
    <3> QED BY <1>2, <1>3, <1>6, <2>2, <3>1 DEF GetL2
  <2> QED BY <1>6, <2>1, <2>2 DEF GetL2
<1>7. CASE FillL1(q)
  <2>1. l1' \in [Processes -> [Asks -> CacheEntry]] BY <1>1, <1>7, L1Typed DEF FillL1
  <2>2. "found" \in RequestPcs BY DEF RequestPcs
  <2>3. req' \in [Requests -> RequestState] BY <1>2, <1>7, <2>2, RequestMoves DEF FillL1
  <2> QED BY <1>7, <2>1, <2>3 DEF FillL1, database
<1>8. CASE Serve(q) \/ Abandon(q)
  <2>1. "idle" \in RequestPcs BY DEF RequestPcs
  <2> QED BY <1>2, <1>3, <1>8, <2>1 DEF Serve, Abandon
<1>9. CASE Reject(q)
  <2>1. l1' \in [Processes -> [Asks -> CacheEntry]] BY <1>2, <1>9, L1Typed DEF Reject
  <2>2. "dropping" \in RequestPcs BY DEF RequestPcs
  <2>3. req' \in [Requests -> RequestState] BY <1>2, <1>9, <2>2, RequestMoves DEF Reject
  <2> QED BY <1>9, <2>1, <2>3 DEF Reject, database
<1>10. CASE DropL2(q)
  <2>1. l2' \in [Keys -> CacheEntry] BY <1>2, <1>10 DEF DropL2
  <2>2. (IF req[q].waited THEN "building" ELSE "missed") \in RequestPcs BY DEF RequestPcs
  <2>3. req' \in [Requests -> RequestState] BY <1>2, <1>10, <2>2, RequestMoves DEF DropL2
  <2> QED BY <1>10, <2>1, <2>3 DEF DropL2, database
<1>11. CASE TryBegin(q)
  <2>1. lock' \in SUBSET Keys BY <1>1, <1>11 DEF TryBegin
  <2>2. "building" \in RequestPcs /\ "lookup" \in RequestPcs BY DEF RequestPcs
  <2>3. req' \in [Requests -> RequestState]
    <3>1. CASE Goto(q, "building") BY <1>2, <2>2, <3>1, RequestMoves
    <3>2. CASE req' = [req EXCEPT ![q] = [@ EXCEPT !.pc = "lookup", !.waited = TRUE]]
      <4>1. [req[q] EXCEPT !.pc = "lookup", !.waited = TRUE] \in RequestState
        BY <1>1, <1>2, <2>2, RequestFields
      <4> QED BY <3>2, <4>1
    <3> QED BY <1>11, <3>1, <3>2 DEF TryBegin
  <2> QED BY <1>11, <2>1, <2>3 DEF TryBegin, database
<1>12. CASE Poll(q) \/ TimeoutWait(q)
  <2>1. "lookup" \in RequestPcs /\ "building" \in RequestPcs BY DEF RequestPcs
  <2> QED BY <1>2, <1>3, <1>12, <2>1 DEF Poll, TimeoutWait
<1>13. CASE BuildAnswer(q)
  <2> DEFINE answer == [ask |-> req[q].ask, revision |-> Found(req[q].ask)]
  <2>1. Found(req[q].ask) \in 0..MaxRevision BY FoundTyped
  <2>4. answer \in CacheEntry BY <1>1, <2>1 DEF CacheEntry, Answer
  <2>2. "answered" \in RequestPcs /\ "release" \in RequestPcs BY DEF RequestPcs
  <2>3. Take(q, "answered", answer) \/ Goto(q, "release") BY <1>13 DEF BuildAnswer
  <2> HIDE DEF answer
  <2> QED BY <1>2, <1>3, <1>13, <2>4, <2>2, <2>3 DEF BuildAnswer
<1>14. CASE PutL2(q)
  <2>1. l2' \in [Keys -> CacheEntry] BY <1>1, <1>14 DEF PutL2
  <2>2. "stored" \in RequestPcs /\ "release" \in RequestPcs BY DEF RequestPcs
  <2>3. req' \in [Requests -> RequestState] BY <1>2, <1>14, <2>2, RequestMoves DEF PutL2
  <2> QED BY <1>14, <2>1, <2>3 DEF PutL2, database
<1>15. CASE PutL1(q)
  <2>1. l1' \in [Processes -> [Asks -> CacheEntry]] BY <1>1, <1>15, L1Typed DEF PutL1
  <2>2. "release" \in RequestPcs BY DEF RequestPcs
  <2>3. req' \in [Requests -> RequestState] BY <1>2, <1>15, <2>2, RequestMoves DEF PutL1
  <2> QED BY <1>15, <2>1, <2>3 DEF PutL1, database
<1>16. CASE ReleaseLock(q)
  <2>1. lock' \in SUBSET Keys BY <1>16 DEF ReleaseLock
  <2>2. "idle" \in RequestPcs BY DEF RequestPcs
  <2>3. req' \in [Requests -> RequestState] BY <1>2, <1>16, <2>2, RequestMoves DEF ReleaseLock
  <2> QED BY <1>16, <2>1, <2>3 DEF ReleaseLock, database
<1> QED
  BY <1>4, <1>5, <1>6, <1>7, <1>8, <1>9, <1>10, <1>11, <1>12, <1>13, <1>14, <1>15, <1>16
  DEF Work

\* Every step of a writer keeps the types.
LEMMA TypeWriter ==
    ASSUME CacheTypeOK, NEW w \in Writers,
           \/ CommitRevision(w) \/ BeginDelete(w) \/ Write(w) \/ StopWriter(w)
           \/ \E lev \in Level : CommitLevel(w, lev)
    PROVE  CacheTypeOK'
<1> USE DEF CacheTypeOK
<1>1. ASSUME NEW pc \in {"idle", "clear", "scan", "commit"}, NEW deletes \in BOOLEAN,
             GoWriter(w, pc, deletes)
      PROVE  writer' \in [Writers -> WriterState]
  BY <1>1 DEF GoWriter, WriterState
<1>2. writer[w] \in WriterState /\ writer[w].deletes \in BOOLEAN BY DEF WriterState
<1>3. MaxChanges \in Nat /\ MaxRevision \in Nat \ {0} BY AnswerCacheAssumption
<1>4. Overlap => disturbed' \in BOOLEAN BY DEF Overlap
<1>5. NoAnswer \in CacheEntry BY DEF CacheEntry
<1>6. CASE CommitRevision(w)
  <2>1. doc' \in DocState BY <1>3, <1>6 DEF CommitRevision, DocState
  <2>2. changes' \in 0..MaxChanges BY <1>3, <1>6 DEF CommitRevision, CanChange
  <2> QED BY <1>1, <1>4, <1>6, <2>1, <2>2 DEF CommitRevision, caches
<1>7. CASE \E lev \in Level : CommitLevel(w, lev)
  <2> PICK lev \in Level : CommitLevel(w, lev) BY <1>7
  <2>1. doc' \in DocState BY DEF CommitLevel, DocState
  <2>2. changes' \in 0..MaxChanges BY <1>3 DEF CommitLevel, CanChange
  <2> QED BY <1>1, <1>4, <2>1, <2>2 DEF CommitLevel, caches
<1>8. CASE BeginDelete(w)
  BY <1>1, <1>4, <1>8 DEF BeginDelete, caches
<1>9. CASE ClearL1(w)
  <2>1. l1' \in [Processes -> [Asks -> CacheEntry]] BY <1>5, <1>9 DEF ClearL1
  <2> QED BY <1>1, <1>2, <1>9, <2>1 DEF ClearL1
<1>10. CASE ScanL2(w)
  <2>1. l2' \in [Keys -> CacheEntry] BY <1>5, <1>10 DEF ScanL2, Scanned
  <2>2. writer' \in [Writers -> WriterState] BY <1>1, <1>2, <1>10 DEF ScanL2
  <2> QED BY <1>10, <2>1, <2>2 DEF ScanL2
<1>11. CASE CommitDelete(w)
  <2>1. doc' \in DocState BY <1>11 DEF CommitDelete, DocState
  <2>2. changes' \in 0..MaxChanges BY <1>3, <1>11 DEF CommitDelete
  <2> QED BY <1>1, <1>11, <2>1, <2>2 DEF CommitDelete, caches
<1>12. CASE StopWriter(w)
  BY <1>1, <1>12 DEF StopWriter, caches
<1> QED
  BY <1>6, <1>7, <1>8, <1>9, <1>10, <1>11, <1>12 DEF Write

\* Expiry keeps the types.
LEMMA TypeExpiry ==
    ASSUME CacheTypeOK,
           \/ \E p \in Processes, a \in Asks : ExpireL1(p, a)
           \/ \E k \in Keys : ExpireL2(k) \/ ExpireLock(k)
    PROVE  CacheTypeOK'
<1> USE DEF CacheTypeOK
<1>1. NoAnswer \in CacheEntry BY DEF CacheEntry
<1>2. CASE \E p \in Processes, a \in Asks : ExpireL1(p, a)
  <2> PICK p \in Processes, a \in Asks : ExpireL1(p, a) BY <1>2
  <2>1. [l1[p] EXCEPT ![a] = NoAnswer] \in [Asks -> CacheEntry] BY <1>1
  <2>2. l1' = [l1 EXCEPT ![p] = [l1[p] EXCEPT ![a] = NoAnswer]] BY DEF ExpireL1
  <2>3. l1' \in [Processes -> [Asks -> CacheEntry]] BY <2>1, <2>2
  <2> QED BY <2>3 DEF ExpireL1, database
<1>3. CASE \E k \in Keys : ExpireL2(k) \/ ExpireLock(k)
  BY <1>1, <1>3 DEF ExpireL2, ExpireLock, database
<1> QED BY <1>2, <1>3

\* Every step keeps the types.
LEMMA TypeNext == CacheTypeOK /\ [CacheNext]_cache_vars => CacheTypeOK'
<1> SUFFICES ASSUME CacheTypeOK, [CacheNext]_cache_vars PROVE CacheTypeOK' OBVIOUS
<1>1. CASE UNCHANGED cache_vars BY <1>1 DEF cache_vars, CacheTypeOK
<1>2. CASE CacheNext BY <1>2, TypeRequest, TypeWriter, TypeExpiry DEF CacheNext
<1> QED BY <1>1, <1>2

\* Every variable of the cache keeps its type.
THEOREM Typing == CacheSpec => []CacheTypeOK
  BY TypeInit, TypeNext, PTL DEF CacheSpec

-----------------------------------------------------------------------------
(* Answers stay with the requests they were made for *)

\* An entry that requests a may find: made for one like them, and without
\* evidence if they do not search Home.
Proper(entry, a) ==
    entry # NoAnswer => entry.ask = a /\ (Home \notin a.scope => entry.revision = 0)

HeldProper == \A q \in Requests : Proper(req[q].held, req[q].ask)

\* The inductive form: every entry is where requests like its own look for it.
Shared ==
    /\ HeldProper
    /\ \A p \in Processes, a \in Asks : Proper(l1[p][a], a)
    /\ \A a \in Asks : Proper(l2[Key(a)], a)

\* "No answer" may be anywhere.
LEMMA NothingIsProper == \A a : Proper(NoAnswer, a)
  BY DEF Proper

\* How a request holds what it took.
LEMMA Holding ==
    ASSUME CacheTypeOK, NEW q \in Requests, NEW pc, NEW entry,
           Goto(q, pc) \/ Take(q, pc, entry) \/ Finish(q)
    PROVE  /\ \A other \in Requests : other # q => req'[other] = req[other]
           /\ Goto(q, pc) => req'[q].held = req[q].held /\ req'[q].ask = req[q].ask
           /\ Take(q, pc, entry) => req'[q].held = entry /\ req'[q].ask = req[q].ask
           /\ Finish(q) => req'[q].held = NoAnswer
           /\ Goto(q, pc) \/ Take(q, pc, entry) => req'[q].pc = pc
<1>1. req[q] \in RequestState /\ req \in [Requests -> RequestState] BY DEF CacheTypeOK
<1>2. /\ [req[q] EXCEPT !.pc = pc].pc = pc
      /\ [req[q] EXCEPT !.pc = pc, !.held = entry].pc = pc
      /\ [req[q] EXCEPT !.pc = pc].held = req[q].held
      /\ [req[q] EXCEPT !.pc = pc].ask = req[q].ask
      /\ [req[q] EXCEPT !.pc = pc, !.held = entry].held = entry
      /\ [req[q] EXCEPT !.pc = pc, !.held = entry].ask = req[q].ask
  BY <1>1 DEF RequestState
<1>3. \A row : /\ [req EXCEPT ![q] = row][q] = row
                /\ \A other \in Requests : other # q => [req EXCEPT ![q] = row][other] = req[other]
  BY <1>1
<1>4. IdleRequest.held = NoAnswer BY DEF IdleRequest
<1>5. Goto(q, pc) => req'[q] = [req[q] EXCEPT !.pc = pc] BY <1>3 DEF Goto
<1>6. Take(q, pc, entry) => req'[q] = [req[q] EXCEPT !.pc = pc, !.held = entry]
  BY <1>3 DEF Take
<1>7. Finish(q) => req'[q] = IdleRequest BY <1>3 DEF Finish
<1>8. \A other \in Requests : other # q => req'[other] = req[other]
  BY <1>3 DEF Goto, Take, Finish
<1> QED BY <1>2, <1>4, <1>5, <1>6, <1>7, <1>8

\* Steps of requests preserve it.
LEMMA SharedRequest ==
    ASSUME CacheTypeOK, Shared, Narrow(WholeIds + 1), NEW q \in Requests,
           Work(q) \/ Abandon(q) \/ \E a \in Asks : Begin(q, a)
    PROVE  Shared'
<1>1. /\ req[q] \in RequestState /\ req[q].ask \in Asks /\ req[q].held \in CacheEntry
      /\ KeyOf(q) \in Keys /\ Process[q] \in Processes
  BY RequestTyped
<1>2. Proper(req[q].held, req[q].ask) /\ Proper(NoAnswer, req[q].ask)
  BY NothingIsProper DEF Shared, HeldProper
<1>3. \* what the request holds is its own
      ASSUME NEW pc, NEW entry, Proper(entry, req[q].ask),
             Goto(q, pc) \/ Take(q, pc, entry) \/ Finish(q)
      PROVE  HeldProper'
  <2>1. /\ \A other \in Requests : other # q => req'[other] = req[other]
        /\ Goto(q, pc) => req'[q].held = req[q].held /\ req'[q].ask = req[q].ask
        /\ Take(q, pc, entry) => req'[q].held = entry /\ req'[q].ask = req[q].ask
        /\ Finish(q) => req'[q].held = NoAnswer
    BY <1>3, Holding
  <2>2. ASSUME NEW r \in Requests PROVE Proper(req'[r].held, req'[r].ask)
    <3>1. CASE r # q BY <2>1, <3>1 DEF Shared, HeldProper
    <3>2. CASE r = q /\ Goto(q, pc) BY <1>2, <2>1, <3>2
    <3>3. CASE r = q /\ Take(q, pc, entry) BY <1>3, <2>1, <3>3
    <3>4. CASE r = q /\ Finish(q) BY <2>1, <3>4, NothingIsProper
    <3> QED BY <1>3, <3>1, <3>2, <3>3, <3>4
  <2> QED BY <2>2 DEF HeldProper
<1>4. \* an entry it writes to its dictionary is its own
      ASSUME NEW entry, Proper(entry, req[q].ask), L1Set(q, entry)
      PROVE  \A p \in Processes, a \in Asks : Proper(l1'[p][a], a)
  <2>1. l1 \in [Processes -> [Asks -> CacheEntry]] BY DEF CacheTypeOK
  <2>2. l1' = [l1 EXCEPT ![Process[q]] = [l1[Process[q]] EXCEPT ![req[q].ask] = entry]]
    BY <1>4 DEF L1Set
  <2> SUFFICES ASSUME NEW p \in Processes, NEW a \in Asks
               PROVE  Proper(l1'[p][a], a)
    OBVIOUS
  <2>3. CASE p = Process[q] /\ a = req[q].ask
    <3>1. l1'[p][a] = entry BY <1>1, <2>1, <2>2, <2>3
    <3> QED BY <1>4, <2>3, <3>1
  <2>4. CASE ~(p = Process[q] /\ a = req[q].ask)
    <3>1. l1'[p][a] = l1[p][a] BY <1>1, <2>1, <2>2, <2>4
    <3> QED BY <3>1 DEF Shared, HeldProper
  <2> QED BY <2>3, <2>4
<1>5. \* ... and so is one it writes to Redis, because no other request has its key
      ASSUME NEW entry, Proper(entry, req[q].ask),
             l2' = [l2 EXCEPT ![KeyOf(q)] = entry]
      PROVE  \A a \in Asks : Proper(l2'[Key(a)], a)
  <2> SUFFICES ASSUME NEW a \in Asks
               PROVE  Proper(l2'[Key(a)], a)
    OBVIOUS
  <2>1. l2 \in [Keys -> CacheEntry] /\ Key(a) \in Keys BY DEF CacheTypeOK, Keys
  <2>2. CASE Key(a) = KeyOf(q)
    <3>1. a = req[q].ask BY <1>1, <2>2, KeyInjective DEF KeyOf
    <3>2. l2'[Key(a)] = entry BY <1>1, <1>5, <2>1, <2>2
    <3> QED BY <1>5, <3>1, <3>2
  <2>3. CASE Key(a) # KeyOf(q)
    <3>1. l2'[Key(a)] = l2[Key(a)] BY <1>5, <2>1, <2>3
    <3> QED BY <3>1 DEF Shared, HeldProper
  <2> QED BY <2>2, <2>3
<1>6. CASE \E a \in Asks : Begin(q, a)
  <2> PICK a \in Asks : Begin(q, a) BY <1>6
  <2>1. req' = [req EXCEPT ![q] = [IdleRequest EXCEPT !.pc = "lookup", !.ask = a]]
    BY DEF Begin
  <2>2. [IdleRequest EXCEPT !.pc = "lookup", !.ask = a].held = NoAnswer
    BY DEF IdleRequest
  <2>3. \A r \in Requests : r # q => req'[r] = req[r]
    BY <2>1 DEF CacheTypeOK
  <2>4. req'[q].held = NoAnswer BY <2>1, <2>2 DEF CacheTypeOK
  <2>5. HeldProper' BY <2>3, <2>4, NothingIsProper DEF Shared, HeldProper
  <2> QED BY <2>5 DEF Begin, Shared
<1>7. CASE LookupL1(q)
  <2> DEFINE entry == l1[Process[q]][req[q].ask]
  <2>1. Proper(entry, req[q].ask) BY <1>1 DEF Shared, HeldProper
  <2>2. Take(q, "found", entry) \/ Goto(q, "get") BY <1>7 DEF LookupL1
  <2> HIDE DEF entry
  <2>3. HeldProper' BY <1>3, <2>1, <2>2
  <2> QED BY <1>7, <2>3 DEF LookupL1, Shared
<1>8. CASE GetL2(q)
  <2> DEFINE entry == l2[KeyOf(q)]
             pc == IF req[q].waited THEN "waiting" ELSE "missed"
  <2>1. Proper(entry, req[q].ask) BY <1>1 DEF Shared, KeyOf
  <2>2. Take(q, "got", entry) \/ Goto(q, pc) BY <1>8 DEF GetL2
  <2> HIDE DEF entry, pc
  <2>3. HeldProper' BY <1>3, <2>1, <2>2
  <2> QED BY <1>8, <2>3 DEF GetL2, Shared
<1>9. CASE FillL1(q)
  <2>1. HeldProper' BY <1>2, <1>3, <1>9 DEF FillL1
  <2>2. \A p \in Processes, a \in Asks : Proper(l1'[p][a], a)
    BY <1>2, <1>4, <1>9 DEF FillL1
  <2> QED BY <1>9, <2>1, <2>2 DEF FillL1, Shared
<1>10. CASE Serve(q) \/ Abandon(q)
  <2>1. HeldProper' BY <1>2, <1>3, <1>10 DEF Serve, Abandon
  <2> QED BY <1>10, <2>1 DEF Serve, Abandon, Shared
<1>11. CASE Reject(q)
  <2>1. HeldProper' BY <1>2, <1>3, <1>11 DEF Reject
  <2>2. \A p \in Processes, a \in Asks : Proper(l1'[p][a], a)
    BY <1>2, <1>4, <1>11 DEF Reject
  <2> QED BY <1>11, <2>1, <2>2 DEF Reject, Shared
<1>12. CASE DropL2(q)
  <2>1. HeldProper' BY <1>2, <1>3, <1>12 DEF DropL2
  <2>2. \A a \in Asks : Proper(l2'[Key(a)], a)
    BY <1>2, <1>5, <1>12 DEF DropL2, Shared
  <2> QED BY <1>12, <2>1, <2>2 DEF DropL2, Shared
<1>13. CASE TryBegin(q)
  <2>1. HeldProper'
    <3>1. CASE Goto(q, "building") BY <1>2, <1>3, <3>1
    <3>2. CASE req' = [req EXCEPT ![q] = [@ EXCEPT !.pc = "lookup", !.waited = TRUE]]
      <4>1. [req[q] EXCEPT !.pc = "lookup", !.waited = TRUE].held = req[q].held
        BY <1>1 DEF RequestState
      <4>2. [req[q] EXCEPT !.pc = "lookup", !.waited = TRUE].ask = req[q].ask
        BY <1>1 DEF RequestState
      <4> QED BY <3>2, <4>1, <4>2 DEF Shared, HeldProper, CacheTypeOK
    <3> QED BY <1>13, <3>1, <3>2 DEF TryBegin
  <2> QED BY <1>13, <2>1 DEF TryBegin, Shared
<1>14. CASE Poll(q) \/ TimeoutWait(q)
  <2>1. HeldProper' BY <1>2, <1>3, <1>14 DEF Poll, TimeoutWait
  <2> QED BY <1>14, <2>1 DEF Poll, TimeoutWait, Shared
<1>15. CASE BuildAnswer(q)
  <2> DEFINE answer == [ask |-> req[q].ask, revision |-> Found(req[q].ask)]
  <2>1. Proper(answer, req[q].ask) BY DEF Proper, Found
  <2>2. Take(q, "answered", answer) \/ Goto(q, "release")
    BY <1>15 DEF BuildAnswer
  <2> HIDE DEF answer
  <2>3. HeldProper' BY <1>2, <1>3, <2>1, <2>2
  <2> QED BY <1>15, <2>3 DEF BuildAnswer, Shared
<1>16. CASE PutL2(q)
  <2>1. HeldProper'
    <3>1. CASE Goto(q, "stored") BY <1>2, <1>3, <3>1
    <3>2. CASE Take(q, "release", NoAnswer) BY <1>2, <1>3, <3>2
    <3> QED BY <1>16, <3>1, <3>2 DEF PutL2
  <2>2. \A a \in Asks : Proper(l2'[Key(a)], a)
    BY <1>2, <1>5, <1>16 DEF PutL2, Shared
  <2> QED BY <1>16, <2>1, <2>2 DEF PutL2, Shared
<1>17. CASE PutL1(q)
  <2>1. HeldProper' BY <1>2, <1>3, <1>17 DEF PutL1
  <2>2. \A p \in Processes, a \in Asks : Proper(l1'[p][a], a)
    BY <1>2, <1>4, <1>17 DEF PutL1
  <2> QED BY <1>17, <2>1, <2>2 DEF PutL1, Shared
<1>18. CASE ReleaseLock(q)
  <2>1. HeldProper' BY <1>2, <1>3, <1>18 DEF ReleaseLock
  <2> QED BY <1>18, <2>1 DEF ReleaseLock, Shared
<1> QED
  BY <1>6, <1>7, <1>8, <1>9, <1>10, <1>11, <1>12, <1>13, <1>14, <1>15, <1>16, <1>17, <1>18
  DEF Work

\* Steps of writers and of time only remove entries.
LEMMA SharedRest ==
    ASSUME CacheTypeOK, Shared,
           \/ \E w \in Writers :
                 \/ CommitRevision(w) \/ BeginDelete(w) \/ Write(w) \/ StopWriter(w)
                 \/ \E lev \in Level : CommitLevel(w, lev)
           \/ \E p \in Processes, a \in Asks : ExpireL1(p, a)
           \/ \E k \in Keys : ExpireL2(k) \/ ExpireLock(k)
           \/ UNCHANGED cache_vars
    PROVE  Shared'
<1>1. UNCHANGED req
  BY DEF CommitRevision, BeginDelete, Write, StopWriter, CommitLevel, ClearL1, ScanL2,
         CommitDelete, ExpireL1, ExpireL2, ExpireLock, cache_vars, caches
<1>2. \A p \in Processes, a \in Asks : l1'[p][a] # NoAnswer => l1'[p][a] = l1[p][a]
  <2>1. CASE UNCHANGED l1 BY <2>1
  <2>2. CASE \E w \in Writers : ClearL1(w) BY <2>2 DEF ClearL1, CacheTypeOK
  <2>3. CASE \E p \in Processes, a \in Asks : ExpireL1(p, a)
    <3> PICK p \in Processes, a \in Asks : ExpireL1(p, a) BY <2>3
    <3>1. l1' = [l1 EXCEPT ![p] = [l1[p] EXCEPT ![a] = NoAnswer]] BY DEF ExpireL1
    <3> QED BY <3>1 DEF CacheTypeOK
  <2> QED
    BY <2>1, <2>2, <2>3
    DEF CommitRevision, BeginDelete, Write, StopWriter, CommitLevel, ScanL2,
        CommitDelete, ExpireL2, ExpireLock, cache_vars, caches
<1>3. \A k \in Keys : l2'[k] # NoAnswer => l2'[k] = l2[k]
  <2>1. CASE UNCHANGED l2 BY <2>1
  <2>2. CASE \E w \in Writers : ScanL2(w) BY <2>2 DEF ScanL2, Scanned
  <2>3. CASE \E k \in Keys : ExpireL2(k) BY <2>3 DEF ExpireL2, CacheTypeOK
  <2> QED
    BY <2>1, <2>2, <2>3
    DEF CommitRevision, BeginDelete, Write, StopWriter, CommitLevel, ClearL1,
        CommitDelete, ExpireL1, ExpireLock, cache_vars, caches
<1>4. \A a \in Asks : Key(a) \in Keys BY DEF Keys
<1> QED BY <1>1, <1>2, <1>3, <1>4 DEF Shared, HeldProper, Proper

\* It holds while the caches are empty.
LEMMA SharedInit == CacheInit => Shared
<1> SUFFICES ASSUME CacheInit PROVE Shared OBVIOUS
<1>1. \A a \in Asks : Key(a) \in Keys BY DEF Keys
<1> QED BY <1>1 DEF CacheInit, Shared, HeldProper, Proper, IdleRequest

\* Every step preserves it.
LEMMA SharedNext ==
    ASSUME CacheTypeOK, Shared, Narrow(WholeIds + 1), [CacheNext]_cache_vars
    PROVE  Shared'
<1>1. ASSUME NEW q \in Requests, Work(q) \/ Abandon(q) \/ \E a \in Asks : Begin(q, a)
      PROVE  Shared'
  BY <1>1, SharedRequest
<1> QED BY <1>1, SharedRest DEF CacheNext

\* If no scope has more than one id over what fits whole into a key, an answer is
\* only ever served to requests with the scope and the level it was made for.
THEOREM Sharing == Narrow(WholeIds + 1) => (CacheSpec => []SharedWithinAsk)
<1> SUFFICES ASSUME Narrow(WholeIds + 1) PROVE CacheSpec => []SharedWithinAsk
  OBVIOUS
<1>1. CacheTypeOK /\ Shared /\ [CacheNext]_cache_vars => Shared' BY SharedNext
<1>2. Shared => SharedWithinAsk BY DEF Shared, HeldProper, Proper, SharedWithinAsk
<1> QED BY <1>1, <1>2, SharedInit, Typing, PTL DEF CacheSpec

-----------------------------------------------------------------------------
(* Without overlaps an invalidation leaves nothing outdated behind *)

\* All writers run in process p.
Hosts(p) == \A w \in Writers : Process[w] = p
SomeWriter(pcs) == \E w \in Writers : writer[w].pc \in pcs

\* An entry nobody can be misled by.
Sound(entry) == entry # NoAnswer => Fresh(entry)

\* An answer on its way into a cache.
HeldSound == \A q \in Requests :
    req[q].pc \in {"got", "answered", "stored"} => Sound(req[q].held)
L2Sound == \A k \in Keys : Sound(l2[k])
L1Sound == \A p \in Processes, a \in Asks : Hosts(p) => Sound(l1[p][a])
L2Empty == \A a \in Asks : Home \in a.scope => l2[Key(a)] = NoAnswer
L1Empty == \A p \in Processes, a \in Asks : Hosts(p) => l1[p][a] = NoAnswer

\* The inductive form.  Outdated entries are excused only while the invalidation
\* that removes them is still to come; what a delete has removed stays away until
\* its commit.
Calm ==
    /\ ~(Asking /\ Writing)
    /\ HeldSound
    /\ L2Sound \/ SomeWriter({"clear", "scan"})
    /\ L1Sound \/ SomeWriter({"clear"})
    /\ SomeWriter({"scan", "commit"}) => L1Empty
    /\ SomeWriter({"commit"}) => L2Empty
Quiet == ~disturbed => Calm

\* A writer that is somewhere is writing.
LEMMA WriterWrites ==
    /\ SomeWriter({"clear", "scan"}) => Writing
    /\ SomeWriter({"clear"}) => Writing
    /\ SomeWriter({"scan", "commit"}) => Writing
    /\ SomeWriter({"commit"}) => Writing
  BY DEF SomeWriter, Writing

\* While no writer is about, the three caches being sound is all there is to show.
LEMMA CalmWithoutWriters ==
    ASSUME ~Writing, HeldSound, L2Sound, L1Sound PROVE Calm
  BY WriterWrites DEF Calm

\* Requests store what they found or made while nobody was writing.
LEMMA QuietRequest ==
    ASSUME CacheTypeOK, Quiet, NEW q \in Requests, Work(q) \/ Abandon(q)
    PROVE  Quiet'
<1> SUFFICES ASSUME ~disturbed' PROVE Calm'
  BY DEF Quiet
<1>1. UNCHANGED database /\ req[q].pc # "idle"
  BY DEF Work, Abandon, LookupL1, GetL2, FillL1, Serve, Reject, DropL2, TryBegin, Poll,
         TimeoutWait, BuildAnswer, PutL2, PutL1, ReleaseLock, RequestAt
<1>2. ~disturbed /\ Calm BY <1>1 DEF database, Quiet
<1>3. Asking BY <1>1 DEF Asking
<1>4. ~Writing /\ HeldSound /\ L2Sound /\ L1Sound
  BY <1>2, <1>3, WriterWrites DEF Calm
<1>5. /\ req[q] \in RequestState /\ req[q].ask \in Asks /\ req[q].held \in CacheEntry
      /\ KeyOf(q) \in Keys /\ Process[q] \in Processes
  BY RequestTyped
<1>6. doc' = doc BY <1>1 DEF database
<1>7. Sound(NoAnswer) BY DEF Sound
<1>8. \* the answer the request holds afterwards
      ASSUME NEW pc, NEW entry,
             \/ Goto(q, pc) /\ (pc \in {"got", "answered", "stored"} => Sound(req[q].held))
             \/ Take(q, pc, entry) /\ (pc \in {"got", "answered", "stored"} => Sound(entry))
             \/ Finish(q)
      PROVE  HeldSound'
  <2>1. /\ \A other \in Requests : other # q => req'[other] = req[other]
        /\ Goto(q, pc) => req'[q].held = req[q].held
        /\ Take(q, pc, entry) => req'[q].held = entry
        /\ Finish(q) => req'[q].held = NoAnswer
        /\ Goto(q, pc) \/ Take(q, pc, entry) => req'[q].pc = pc
    BY <1>8, Holding
  <2>2. ASSUME NEW r \in Requests, req'[r].pc \in {"got", "answered", "stored"}
        PROVE  Sound(req'[r].held)
    <3>1. CASE r # q BY <1>4, <2>1, <2>2, <3>1 DEF HeldSound
    <3>2. CASE r = q BY <1>7, <1>8, <2>1, <2>2, <3>2
    <3> QED BY <3>1, <3>2
  <2> QED BY <1>6, <2>2 DEF HeldSound, Sound, Fresh, Found
<1>9. \* an entry it writes to Redis
      ASSUME NEW entry, Sound(entry), l2' = [l2 EXCEPT ![KeyOf(q)] = entry]
      PROVE  L2Sound'
  <2>1. \A k \in Keys : Sound(l2'[k]) BY <1>4, <1>9 DEF L2Sound, CacheTypeOK
  <2> QED BY <1>6, <2>1 DEF L2Sound, Sound, Fresh, Found
<1>10. \* an entry it writes to its dictionary
      ASSUME NEW entry, Sound(entry), L1Set(q, entry)
      PROVE  L1Sound'
  <2>1. l1 \in [Processes -> [Asks -> CacheEntry]] BY DEF CacheTypeOK
  <2>2. l1' = [l1 EXCEPT ![Process[q]] = [l1[Process[q]] EXCEPT ![req[q].ask] = entry]]
    BY <1>10 DEF L1Set
  <2>3. ASSUME NEW p \in Processes, NEW a \in Asks, Hosts(p) PROVE Sound(l1'[p][a])
    <3>1. l1'[p][a] = entry \/ l1'[p][a] = l1[p][a] BY <2>1, <2>2
    <3> QED BY <1>4, <1>10, <2>3, <3>1 DEF L1Sound
  <2> QED BY <1>6, <2>3 DEF L1Sound, Hosts, Sound, Fresh, Found
<1>11. UNCHANGED l2 => L2Sound' BY <1>4, <1>6 DEF L2Sound, Sound, Fresh, Found
<1>12. UNCHANGED l1 => L1Sound' BY <1>4, <1>6 DEF L1Sound, Hosts, Sound, Fresh, Found
<1>13. ~Writing' BY <1>1, <1>4 DEF database, Writing
<1>14. SUFFICES HeldSound' /\ L2Sound' /\ L1Sound'
  BY <1>13 DEF Calm, SomeWriter, Writing
<1>15. CASE LookupL1(q)
  <2> DEFINE entry == l1[Process[q]][req[q].ask]
  <2>1. Take(q, "found", entry) \/ Goto(q, "get") BY <1>15 DEF LookupL1
  <2> HIDE DEF entry
  <2>2. HeldSound' BY <1>8, <2>1
  <2> QED BY <1>11, <1>12, <1>15, <2>2 DEF LookupL1
<1>16. CASE GetL2(q)
  <2> DEFINE entry == l2[KeyOf(q)]
             pc == IF req[q].waited THEN "waiting" ELSE "missed"
  <2>1. Take(q, "got", entry) \/ Goto(q, pc) BY <1>16 DEF GetL2
  <2>2. Sound(entry) BY <1>4, <1>5 DEF L2Sound
  <2>3. pc \notin {"got", "answered", "stored"} OBVIOUS
  <2> HIDE DEF entry, pc
  <2>4. HeldSound' BY <1>8, <2>1, <2>2, <2>3
  <2> QED BY <1>11, <1>12, <1>16, <2>4 DEF GetL2
<1>17. CASE FillL1(q)
  <2>1. HeldSound' BY <1>7, <1>8, <1>17 DEF FillL1
  <2>2. L1Sound' BY <1>4, <1>10, <1>17 DEF FillL1, HeldSound, RequestAt
  <2> QED BY <1>11, <1>17, <2>1, <2>2 DEF FillL1
<1>18. CASE Serve(q) \/ Abandon(q)
  <2>1. HeldSound' BY <1>8, <1>18 DEF Serve, Abandon
  <2> QED BY <1>11, <1>12, <1>18, <2>1 DEF Serve, Abandon
<1>19. CASE Reject(q)
  <2>1. HeldSound' BY <1>7, <1>8, <1>19 DEF Reject
  <2>2. L1Sound' BY <1>7, <1>10, <1>19 DEF Reject
  <2> QED BY <1>11, <1>19, <2>1, <2>2 DEF Reject
<1>20. CASE DropL2(q)
  <2> DEFINE pc == IF req[q].waited THEN "building" ELSE "missed"
  <2>1. Goto(q, pc) BY <1>20 DEF DropL2
  <2>2. pc \in {"building", "missed"} OBVIOUS
  <2> HIDE DEF pc
  <2>3. HeldSound' BY <1>8, <2>1, <2>2
  <2>4. L2Sound' BY <1>7, <1>9, <1>11, <1>20 DEF DropL2
  <2> QED BY <1>12, <1>20, <2>3, <2>4 DEF DropL2
<1>21. CASE TryBegin(q)
  <2>1. CASE Goto(q, "building") BY <1>8, <1>11, <1>12, <1>21, <2>1 DEF TryBegin
  <2>2. CASE req' = [req EXCEPT ![q] = [@ EXCEPT !.pc = "lookup", !.waited = TRUE]]
    <3>1. [req[q] EXCEPT !.pc = "lookup", !.waited = TRUE].pc = "lookup"
      BY <1>5 DEF RequestState
    <3>2. req'[q].pc = "lookup" /\ \A r \in Requests : r # q => req'[r] = req[r]
      BY <2>2, <3>1 DEF CacheTypeOK
    <3>3. HeldSound' BY <1>4, <1>6, <3>2 DEF HeldSound, Sound, Fresh, Found
    <3> QED BY <1>11, <1>12, <1>21, <3>3 DEF TryBegin
  <2> QED BY <1>21, <2>1, <2>2 DEF TryBegin
<1>22. CASE Poll(q) \/ TimeoutWait(q)
  <2>1. HeldSound'
    <3>1. CASE Goto(q, "lookup") BY <1>8, <3>1
    <3>2. CASE Goto(q, "building") BY <1>8, <3>2
    <3> QED BY <1>22, <3>1, <3>2 DEF Poll, TimeoutWait
  <2> QED BY <1>11, <1>12, <1>22, <2>1 DEF Poll, TimeoutWait
<1>23. CASE BuildAnswer(q)
  <2> DEFINE answer == [ask |-> req[q].ask, revision |-> Found(req[q].ask)]
  <2>1. Sound(answer) BY DEF Sound, Fresh
  <2>2. Take(q, "answered", answer) \/ Goto(q, "release")
    BY <1>23 DEF BuildAnswer
  <2> HIDE DEF answer
  <2>3. HeldSound'
    <3>1. CASE Take(q, "answered", answer) BY <1>8, <2>1, <3>1
    <3>2. CASE Goto(q, "release") BY <1>8, <3>2
    <3> QED BY <2>2, <3>1, <3>2
  <2> QED BY <1>11, <1>12, <1>23, <2>3 DEF BuildAnswer
<1>24. CASE PutL2(q)
  <2>1. Sound(req[q].held) BY <1>4, <1>24 DEF PutL2, HeldSound, RequestAt
  <2>2. HeldSound'
    <3>1. CASE Goto(q, "stored") BY <1>8, <2>1, <3>1
    <3>2. CASE Take(q, "release", NoAnswer) BY <1>7, <1>8, <3>2
    <3> QED BY <1>24, <3>1, <3>2 DEF PutL2
  <2>3. L2Sound' BY <1>9, <1>11, <1>24, <2>1 DEF PutL2
  <2> QED BY <1>12, <1>24, <2>2, <2>3 DEF PutL2
<1>25. CASE PutL1(q)
  <2>1. HeldSound' BY <1>7, <1>8, <1>25 DEF PutL1
  <2>2. L1Sound' BY <1>4, <1>10, <1>25 DEF PutL1, HeldSound, RequestAt
  <2> QED BY <1>11, <1>25, <2>1, <2>2 DEF PutL1
<1>26. CASE ReleaseLock(q)
  <2>1. HeldSound' BY <1>8, <1>26 DEF ReleaseLock
  <2> QED BY <1>11, <1>12, <1>26, <2>1 DEF ReleaseLock
<1> QED
  BY <1>15, <1>16, <1>17, <1>18, <1>19, <1>20, <1>21, <1>22, <1>23, <1>24, <1>25, <1>26
  DEF Work

\* A request that begins while somebody writes is an overlap.
LEMMA QuietBegin ==
    ASSUME CacheTypeOK, Quiet, NEW q \in Requests, NEW a \in Asks, Begin(q, a)
    PROVE  Quiet'
<1> SUFFICES ASSUME ~disturbed' PROVE Calm'
  BY DEF Quiet
<1>1. ~disturbed /\ ~Writing /\ UNCHANGED <<doc, writer, l1, l2>> BY DEF Begin
<1>2. HeldSound /\ L2Sound /\ L1Sound BY <1>1, WriterWrites DEF Quiet, Calm
<1>3. req' = [req EXCEPT ![q] = [IdleRequest EXCEPT !.pc = "lookup", !.ask = a]]
  BY DEF Begin
<1>4. [IdleRequest EXCEPT !.pc = "lookup", !.ask = a].pc = "lookup" BY DEF IdleRequest
<1>5. req'[q].pc = "lookup" /\ \A r \in Requests : r # q => req'[r] = req[r]
  BY <1>3, <1>4 DEF CacheTypeOK
<1>6. HeldSound' BY <1>1, <1>2, <1>5 DEF HeldSound, Sound, Fresh, Found
<1>7. L2Sound' /\ L1Sound' BY <1>1, <1>2 DEF L2Sound, L1Sound, Hosts, Sound, Fresh, Found
<1>8. ~Writing' BY <1>1 DEF Writing
<1> QED BY <1>6, <1>7, <1>8 DEF Calm, SomeWriter, Writing

\* Without entries for requests that search Home, Redis misleads nobody.
LEMMA EmptyL2IsSound == ASSUME Shared, L2Empty PROVE L2Sound
<1> SUFFICES ASSUME NEW k \in Keys, l2[k] # NoAnswer PROVE Fresh(l2[k])
  BY DEF L2Sound, Sound
<1> PICK a \in Asks : k = Key(a) BY DEF Keys
<1>1. Home \notin a.scope /\ Proper(l2[k], a) BY DEF L2Empty, Shared
<1> QED BY <1>1 DEF Proper, Fresh, Found

\* A writer excuses what it outdates until it has removed it.
LEMMA QuietWriter ==
    ASSUME CacheTypeOK, Shared, Quiet, Narrow(WholeIds), NEW w \in Writers,
           \/ CommitRevision(w) \/ BeginDelete(w) \/ Write(w) \/ StopWriter(w)
           \/ \E lev \in Level : CommitLevel(w, lev)
    PROVE  Quiet'
<1> SUFFICES ASSUME ~disturbed' PROVE Calm'
  BY DEF Quiet
<1>1. ~disturbed
  BY DEF CommitRevision, BeginDelete, Write, StopWriter, CommitLevel, ClearL1, ScanL2,
         CommitDelete, Overlap
<1>2. Calm BY <1>1 DEF Quiet
<1>3. UNCHANGED req /\ ~StopWriter(w)
  BY DEF CommitRevision, BeginDelete, Write, StopWriter, CommitLevel, ClearL1, ScanL2,
         CommitDelete, caches
<1>4. ~Asking
  <2>1. CASE writer[w].pc # "idle" BY <1>2, <2>1 DEF Calm, Writing
  <2>2. CASE Overlap BY <1>1, <2>2 DEF Overlap
  <2> QED
    BY <1>3, <2>1, <2>2
    DEF CommitRevision, BeginDelete, Write, CommitLevel, ClearL1, ScanL2, CommitDelete
<1>5. ~Asking' /\ HeldSound'
  BY <1>3, <1>4 DEF Asking, HeldSound
<1>6. ASSUME NEW pc, NEW deletes, GoWriter(w, pc, deletes)
      PROVE  /\ writer'[w].pc = pc
             /\ \A v \in Writers : v # w => writer'[v] = writer[v]
  BY <1>6 DEF GoWriter, CacheTypeOK
<1>7. \* a commit before the invalidation, or the beginning of a delete
      ASSUME writer[w].pc = "idle", GoWriter(w, "clear", TRUE) \/ GoWriter(w, "clear", FALSE),
             UNCHANGED <<l1, l2>>
      PROVE  Calm'
  <2>1. writer'[w].pc = "clear" /\ \A v \in Writers : v # w => writer'[v] = writer[v]
    BY <1>6, <1>7
  <2>2. SomeWriter({"clear", "scan"})' /\ SomeWriter({"clear"})' BY <2>1 DEF SomeWriter
  <2>3. SomeWriter({"scan", "commit"})' => SomeWriter({"scan", "commit"})
    BY <1>7, <2>1 DEF SomeWriter
  <2>4. SomeWriter({"commit"})' => SomeWriter({"commit"}) BY <1>7, <2>1 DEF SomeWriter
  <2>5. (L1Empty => L1Empty') /\ (L2Empty => L2Empty') BY <1>7 DEF L1Empty, L2Empty, Hosts
  <2> QED BY <1>2, <1>5, <2>2, <2>3, <2>4, <2>5 DEF Calm
<1>12. L2Empty' => L2Sound'
  <2>1. Shared' BY SharedRest
  <2> QED BY <2>1, EmptyL2IsSound, PTL
<1>8. CASE CommitRevision(w) \/ BeginDelete(w) \/ \E lev \in Level : CommitLevel(w, lev)
  BY <1>7, <1>8 DEF CommitRevision, BeginDelete, CommitLevel, CanChange, caches
<1>9. CASE ClearL1(w)
  <2>1. /\ writer[w].pc = "clear" /\ writer'[w].pc = "scan"
        /\ \A v \in Writers : v # w => writer'[v] = writer[v]
    BY <1>6, <1>9 DEF ClearL1
  <2>2. L1Empty' BY <1>9 DEF ClearL1, L1Empty, Hosts, CacheTypeOK
  <2>3. L1Sound' BY <2>2 DEF L1Empty, L1Sound, Sound
  <2>4. SomeWriter({"clear", "scan"})' BY <2>1 DEF SomeWriter
  <2>5. SomeWriter({"commit"})' => SomeWriter({"commit"}) BY <2>1 DEF SomeWriter
  <2>6. L2Empty => L2Empty' BY <1>9 DEF ClearL1, L2Empty
  <2> QED BY <1>2, <1>5, <2>2, <2>3, <2>4, <2>5, <2>6 DEF Calm
<1>10. CASE ScanL2(w)
  <2>1. /\ writer[w].pc = "scan" /\ writer'[w].pc \in {"idle", "commit"}
        /\ \A v \in Writers : v # w => writer'[v] = writer[v]
    BY <1>6, <1>10 DEF ScanL2
  <2>2. l2' = Scanned BY <1>10 DEF ScanL2
  <2>3. \A a \in Asks : Key(a) \in Keys BY DEF Keys
  <2>4. L2Empty' BY <2>2, <2>3, HomeMatches DEF L2Empty, Scanned
  <2>5. L1Empty BY <1>2, <2>1 DEF Calm, SomeWriter
  <2>6. L1Empty' BY <1>10, <2>5 DEF ScanL2, L1Empty, Hosts
  <2>7. L1Sound' BY <2>6 DEF L1Empty, L1Sound, Sound
  <2> QED BY <1>5, <1>12, <2>4, <2>6, <2>7 DEF Calm
<1>11. CASE CommitDelete(w)
  <2>1. writer[w].pc = "commit" BY <1>11 DEF CommitDelete
  <2>2. L1Empty /\ L2Empty BY <1>2, <2>1 DEF Calm, SomeWriter
  <2>3. L1Empty' /\ L2Empty' BY <1>11, <2>2 DEF CommitDelete, caches, L1Empty, L2Empty, Hosts
  <2>4. L1Sound' /\ L2Sound' BY <1>12, <2>3 DEF L1Empty, L1Sound, Sound
  <2> QED BY <1>5, <2>3, <2>4 DEF Calm
<1> QED BY <1>3, <1>8, <1>9, <1>10, <1>11 DEF Write

\* Expiry only removes.
LEMMA QuietExpiry ==
    ASSUME CacheTypeOK, Quiet,
           \/ \E p \in Processes, a \in Asks : ExpireL1(p, a)
           \/ \E k \in Keys : ExpireL2(k) \/ ExpireLock(k)
           \/ UNCHANGED cache_vars
    PROVE  Quiet'
<1> SUFFICES ASSUME ~disturbed' PROVE Calm'
  BY DEF Quiet
<1>1. UNCHANGED <<doc, req, writer, disturbed>>
  BY DEF ExpireL1, ExpireL2, ExpireLock, cache_vars, database
<1>2. Calm BY <1>1 DEF Quiet
<1>3. \A p \in Processes, a \in Asks : l1'[p][a] \in {NoAnswer, l1[p][a]}
  <2>1. CASE \E p \in Processes, a \in Asks : ExpireL1(p, a)
    <3> PICK p \in Processes, a \in Asks : ExpireL1(p, a) BY <2>1
    <3>1. l1' = [l1 EXCEPT ![p] = [l1[p] EXCEPT ![a] = NoAnswer]] BY DEF ExpireL1
    <3> QED BY <3>1 DEF CacheTypeOK
  <2> QED BY <2>1 DEF ExpireL2, ExpireLock, cache_vars
<1>4. \A k \in Keys : l2'[k] \in {NoAnswer, l2[k]}
  BY DEF ExpireL1, ExpireL2, ExpireLock, cache_vars, CacheTypeOK
<1>5. HeldSound => HeldSound' BY <1>1 DEF HeldSound, Sound, Fresh, Found
<1>6. L2Sound => L2Sound' BY <1>1, <1>4 DEF L2Sound, Sound, Fresh, Found
<1>7. L1Sound => L1Sound' BY <1>1, <1>3 DEF L1Sound, Hosts, Sound, Fresh, Found
<1>8. L2Empty => L2Empty' BY <1>4 DEF L2Empty, Keys
<1>9. L1Empty => L1Empty' BY <1>3 DEF L1Empty, Hosts
<1>10. /\ SomeWriter({"clear", "scan"})' = SomeWriter({"clear", "scan"})
       /\ SomeWriter({"clear"})' = SomeWriter({"clear"})
       /\ SomeWriter({"scan", "commit"})' = SomeWriter({"scan", "commit"})
       /\ SomeWriter({"commit"})' = SomeWriter({"commit"})
       /\ Asking' = Asking /\ Writing' = Writing
  BY <1>1 DEF SomeWriter, Asking, Writing
<1> QED BY <1>2, <1>5, <1>6, <1>7, <1>8, <1>9, <1>10 DEF Calm

\* If every scope fits whole into a key, then after writers that no request
\* overlapped and nothing cut short, Redis and the process the writers ran in
\* hold no answer older than the document.
THEOREM QuietInvalidation == Narrow(WholeIds) => (CacheSpec => []QuietFresh)
<1> SUFFICES ASSUME Narrow(WholeIds) PROVE CacheSpec => []QuietFresh
  OBVIOUS
<1>1. Narrow(WholeIds + 1)
  <2> SUFFICES ASSUME NEW a \in Asks PROVE Cardinality(a.scope) <= WholeIds + 1
    BY DEF Narrow
  <2>1. Cardinality(a.scope) \in Nat /\ WholeIds \in Nat
    BY AnswerCacheAssumption, FS_CardinalityType
  <2>2. Cardinality(a.scope) <= WholeIds BY DEF Narrow
  <2> QED BY <2>1, <2>2
<1>2. CacheInit => Shared /\ Quiet
  <2> SUFFICES ASSUME CacheInit PROVE Shared /\ Quiet OBVIOUS
  <2>1. Shared BY SharedInit
  <2>2. ~Writing BY DEF CacheInit, Writing, IdleWriter
  <2>3. HeldSound /\ L2Sound /\ L1Sound
    BY DEF CacheInit, HeldSound, L2Sound, L1Sound, Sound, IdleRequest
  <2> QED BY <2>1, <2>2, <2>3, CalmWithoutWriters DEF Quiet
<1>3. CacheTypeOK /\ Shared /\ Quiet /\ [CacheNext]_cache_vars => Shared' /\ Quiet'
  <2> SUFFICES ASSUME CacheTypeOK, Shared, Quiet, [CacheNext]_cache_vars PROVE Shared' /\ Quiet'
    OBVIOUS
  <2>1. Shared' BY <1>1, SharedNext
  <2>2. ASSUME NEW q \in Requests, Work(q) \/ Abandon(q) PROVE Quiet'
    BY <2>2, QuietRequest
  <2>3. ASSUME NEW q \in Requests, NEW a \in Asks, Begin(q, a) PROVE Quiet'
    BY <2>3, QuietBegin
  <2>4. Quiet' BY <2>2, <2>3, QuietWriter, QuietExpiry DEF CacheNext
  <2> QED BY <2>1, <2>4
<1>4. Quiet => QuietFresh
  <2> SUFFICES ASSUME Quiet, ~disturbed, ~Writing
               PROVE  /\ \A k \in Keys : l2[k] # NoAnswer => Fresh(l2[k])
                      /\ \A p \in Processes, a \in Asks :
                            (\A w \in Writers : Process[w] = p) /\ l1[p][a] # NoAnswer
                                => Fresh(l1[p][a])
    BY DEF QuietFresh
  <2>1. L2Sound /\ L1Sound BY WriterWrites DEF Quiet, Calm
  <2> QED BY <2>1 DEF L2Sound, L1Sound, Hosts, Sound
<1> QED BY <1>2, <1>3, <1>4, Typing, PTL DEF CacheSpec
=============================================================================

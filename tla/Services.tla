-------------------------------- MODULE Services -------------------------------
(***************************************************************************)
(* The administrative services.  They share no state that any of the       *)
(* models has, so that one part moves in each behaviour.                   *)
(***************************************************************************)
EXTENDS HitTests, RagasRuns, Departments, ModelConfigs, Accounts, ExternalApi, Retention,
        RoleCaches, RoleShadow, FaqVerify, Feedback

VARIABLE part
Parts == {"hits", "ragas", "departments", "models", "accounts", "external", "retention",
          "caches", "shadow", "verification", "feedback"}

Init ==
    /\ part \in Parts
    /\ HitsInit /\ RagasInit /\ DeptInit /\ ModelsInit /\ AccountsInit /\ ExternalInit /\ RetentionInit
    /\ RoleCachesInit /\ ShadowInit /\ VerifyInit /\ FeedbackInit
    /\ part # "ragas" => base = "published"
    /\ part # "accounts" => \A n \in Names : ~role[n].there
    /\ part # "verification" => \A f \in Faqs : faq[f].status = "active"

HitsPart == part = "hits" /\ HitsNext
    /\ UNCHANGED <<ragas_vars, dept_vars, model_vars, account_vars, external_vars,
                   retention_vars, cache_vars, shadow_vars, verify_vars, feedback_vars, part>>
RagasPart == part = "ragas" /\ RagasNext
    /\ UNCHANGED <<hit_vars, dept_vars, model_vars, account_vars, external_vars,
                   retention_vars, cache_vars, shadow_vars, verify_vars, feedback_vars, part>>
DeptPart == part = "departments" /\ DeptNext
    /\ UNCHANGED <<hit_vars, ragas_vars, model_vars, account_vars, external_vars,
                   retention_vars, cache_vars, shadow_vars, verify_vars, feedback_vars, part>>
ModelsPart == part = "models" /\ ModelsNext
    /\ UNCHANGED <<hit_vars, ragas_vars, dept_vars, account_vars, external_vars,
                   retention_vars, cache_vars, shadow_vars, verify_vars, feedback_vars, part>>
AccountsPart == part = "accounts" /\ AccountsNext
    /\ UNCHANGED <<hit_vars, ragas_vars, dept_vars, model_vars, external_vars,
                   retention_vars, cache_vars, shadow_vars, verify_vars, feedback_vars, part>>
ExternalPart == part = "external" /\ ExternalNext
    /\ UNCHANGED <<hit_vars, ragas_vars, dept_vars, model_vars, account_vars,
                   retention_vars, cache_vars, shadow_vars, verify_vars, feedback_vars, part>>
RetentionPart == part = "retention" /\ RetentionNext
    /\ UNCHANGED <<hit_vars, ragas_vars, dept_vars, model_vars, account_vars,
                   external_vars, cache_vars, shadow_vars, verify_vars, feedback_vars, part>>
CachesPart == part = "caches" /\ RoleCachesNext
    /\ UNCHANGED <<hit_vars, ragas_vars, dept_vars, model_vars, account_vars,
                   external_vars, retention_vars, shadow_vars, verify_vars, feedback_vars, part>>
ShadowPart == part = "shadow" /\ ShadowNext
    /\ UNCHANGED <<hit_vars, ragas_vars, dept_vars, model_vars, account_vars,
                   external_vars, retention_vars, cache_vars, verify_vars, feedback_vars, part>>
VerifyPart == part = "verification" /\ VerifyNext
    /\ UNCHANGED <<hit_vars, ragas_vars, dept_vars, model_vars, account_vars,
                   external_vars, retention_vars, cache_vars, shadow_vars, feedback_vars, part>>
FeedbackPart == part = "feedback" /\ FeedbackNext
    /\ UNCHANGED <<hit_vars, ragas_vars, dept_vars, model_vars, account_vars,
                   external_vars, retention_vars, cache_vars, shadow_vars, verify_vars, part>>

Next ==
    \/ HitsPart \/ RagasPart \/ DeptPart \/ ModelsPart \/ AccountsPart \/ ExternalPart \/ RetentionPart
    \/ CachesPart \/ ShadowPart \/ VerifyPart \/ FeedbackPart
Spec == Init /\ [][Next]_<<hit_vars, ragas_vars, dept_vars, model_vars, account_vars, external_vars,
                           retention_vars, cache_vars, shadow_vars, verify_vars, feedback_vars, part>>

ServicesTypeOK ==
    /\ HitsTypeOK /\ RagasTypeOK /\ DeptTypeOK /\ ModelsTypeOK /\ AccountsTypeOK
    /\ ExternalTypeOK /\ RetentionTypeOK /\ RoleCachesTypeOK /\ ShadowTypeOK /\ VerifyTypeOK /\ FeedbackTypeOK

\* Every service keeps its state in shape; the processes that see the shadow
\* window of the role caches end record it once (role_cache_shadow.py); imports
\* keep the rows they read, and figures of test runs are those of their results
\* (import_to_knowledge_base, execute_test_run).
ServicesSound == ServicesTypeOK /\ AuditedOnce /\ ImportedRows /\ FiguresFit
=============================================================================

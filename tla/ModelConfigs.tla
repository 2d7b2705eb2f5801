----------------------------- MODULE ModelConfigs -----------------------------
(***************************************************************************)
(* The registry of models: rows of a type (llm, embedding, rerank), one of *)
(* which is the default of its type, and the published versions of their   *)
(* parameters.  Requests of administrators overlap: each loads its row,    *)
(* decides by what it loaded, and writes the columns it changes.           *)
(*                                                                         *)
(* Under READ COMMITTED the UPDATE that takes the default from other rows  *)
(* finds those that were defaults when it began, waits for the ones        *)
(* another transaction has written, and looks at them again.               *)
(***************************************************************************)
EXTENDS Naturals, Sequences, FiniteSets

CONSTANTS
    ModelIds,      \* rows that are ever made, numbers in the order of their priority
    TypeOf,        \* the type each is made with
    Params,        \* parameter sets, after validate_params
    Registry,      \* MODEL_CONFIG_REGISTRY_V2_ENABLED
    Admins,        \* requests in flight at a time
    MaxChanges,    \* requests that are ever made (a bound of the model)
    Keep           \* a field that a request leaves alone

ModelTypes == {TypeOf[i] : i \in ModelIds}

ASSUME ModelConfigsAssumption ==
    /\ ModelIds \subseteq Nat /\ IsFiniteSet(ModelIds) /\ DOMAIN TypeOf = ModelIds
    /\ Registry \in BOOLEAN /\ MaxChanges \in Nat /\ Params # {}
    /\ Keep \notin BOOLEAN /\ Keep \notin Params

VARIABLES
    model,      \* the rows
    versions,   \* published versions, in the order of published_at
    change,     \* the request of each administrator
    changes,    \* requests made so far
    contested   \* history: types whose default two requests were about to set

model_vars == <<model, versions, change, changes, contested>>

-----------------------------------------------------------------------------
(* State *)

NoModel == [there |-> FALSE]
ModelRow(enabled, default, params) ==
    [there |-> TRUE, enabled |-> enabled, default |-> default, params |-> params]
Made(i) == model[i].there
Change == [enabled : BOOLEAN \cup {Keep}, default : BOOLEAN \cup {Keep}, params : Params \cup {Keep}]
Nothing == [stage |-> "nothing"]
Changing(a) == change[a] # Nothing
Defaults(t) == {i \in ModelIds : TypeOf[i] = t /\ Made(i) /\ model[i].default}
Claims(t) == {a \in Admins : Changing(a) /\ TypeOf[change[a].id] = t /\ change[a].to.default = TRUE}
\* Rows whose default a transaction has taken and not committed.
Held(a) == IF Changing(a) /\ change[a].stage = "cleared" THEN change[a].found ELSE {}

ModelsTypeOK ==
    /\ \A i \in ModelIds :
        \/ model[i] = NoModel
        \/ model[i] \in [there : {TRUE}, enabled : BOOLEAN, default : BOOLEAN, params : Params]
    /\ versions \in Seq([model : ModelIds, params : Params])
    /\ \A a \in Admins : change[a] = Nothing \/
        /\ change[a].stage \in {"loaded", "seeking", "cleared"}
        /\ change[a].id \in ModelIds /\ change[a].to \in Change
        /\ change[a].found \subseteq ModelIds
    /\ changes \in 0..MaxChanges /\ contested \subseteq ModelTypes

\* seed_model_configs: a type without any row gets its default from the settings.
Seed(rows) == [i \in ModelIds |->
    IF /\ ~\E j \in ModelIds : TypeOf[j] = TypeOf[i] /\ rows[j].there
       /\ \A j \in ModelIds : TypeOf[j] = TypeOf[i] => i <= j
    THEN ModelRow(TRUE, TRUE, CHOOSE p \in Params : TRUE) ELSE rows[i]]

ModelsInit ==
    /\ model = Seed([i \in ModelIds |-> NoModel])
    /\ versions = <<>>
    /\ change = [a \in Admins |-> Nothing]
    /\ changes = 0 /\ contested = {}

-----------------------------------------------------------------------------
(* Requests *)

Count == changes < MaxChanges /\ changes' = changes + 1
Start(a, i, to, seen) ==
    /\ Count /\ ~Changing(a)
    /\ change' = [change EXCEPT ![a] = [stage |-> "loaded", id |-> i, to |-> to, seen |-> seen, found |-> {}]]
    /\ contested' = IF to.default = TRUE /\ Claims(TypeOf[i]) # {} THEN contested \cup {TypeOf[i]} ELSE contested
    /\ UNCHANGED <<model, versions>>

\* (Mutant: the row is inserted as the default it claims to be.)
CreateDefault(a, i, enabled, default, params) ==
    /\ ~Made(i) /\ \A b \in Admins : Changing(b) => change[b].id # i
    /\ Start(a, i, [enabled |-> Keep, default |-> Keep, params |-> Keep], ModelRow(enabled, default, params))

\* A new row is no default when it is inserted; it may claim to be, also when
\* it is disabled.
CreateModel(a, i, enabled, default, params) ==
    /\ ~Made(i) /\ \A b \in Admins : Changing(b) => change[b].id # i
    /\ Start(a, i, [enabled |-> Keep, default |-> IF default THEN TRUE ELSE Keep, params |-> Keep],
             ModelRow(enabled, FALSE, params))

\* is_default is taken out of the other fields; a row that will be disabled
\* cannot claim.
UpdateModel(a, i, to) ==
    /\ Made(i)
    /\ to.default = TRUE => IF to.enabled = Keep THEN model[i].enabled ELSE to.enabled
    /\ Start(a, i, to, model[i])

SetStatus(a, i, enabled) ==
    /\ Made(i)
    /\ Start(a, i, [enabled |-> enabled, default |-> IF enabled THEN Keep ELSE FALSE, params |-> Keep], model[i])

SetDefault(a, i, default) ==
    /\ Made(i) /\ (default => model[i].enabled)
    /\ Start(a, i, [enabled |-> Keep, default |-> default, params |-> Keep], model[i])

\* _set_default: the UPDATE finds the defaults of the type,
SeekDefaults(a) ==
    /\ Changing(a) /\ change[a].stage = "loaded" /\ change[a].to.default = TRUE
    /\ change' = [change EXCEPT ![a].stage = "seeking", ![a].found = Defaults(TypeOf[change[a].id])]
    /\ UNCHANGED <<model, versions, changes, contested>>

\* and waits for those that are held, which are no defaults any more then.
ClearDefaults(a) ==
    /\ Changing(a) /\ change[a].stage = "seeking"
    /\ \A b \in Admins \ {a} : Held(b) \cap change[a].found = {}
    /\ change' = [change EXCEPT ![a].stage = "cleared", ![a].found = @ \cap Defaults(TypeOf[change[a].id])]
    /\ UNCHANGED <<model, versions, changes, contested>>

\* The columns that differ from what was loaded are written.
Written(now, seen, to, field) ==
    IF to[field] # Keep /\ to[field] # seen[field] THEN to[field] ELSE now[field]
\* The UPDATE of _set_default has reset the loaded row, too: TRUE is written.
RowAfter(now, seen, to) ==
    ModelRow(Written(now, seen, to, "enabled"),
        IF to.default = TRUE THEN TRUE ELSE Written(now, seen, to, "default"),
        Written(now, seen, to, "params"))
CommitChange(a) ==
    /\ Changing(a)
    /\ LET x == change[a]
           now == IF Made(x.id) THEN model[x.id] ELSE x.seen
       IN /\ x.stage = IF x.to.default = TRUE THEN "cleared" ELSE "loaded"
          /\ \A b \in Admins \ {a} : x.id \notin Held(b)
          /\ model' = [i \in ModelIds |->
                CASE i = x.id      -> RowAfter(now, x.seen, x.to)
                  [] i \in x.found \ {x.id} -> [model[i] EXCEPT !.default = FALSE]
                  [] OTHER         -> model[i]]
    /\ change' = [change EXCEPT ![a] = Nothing]
    /\ UNCHANGED <<versions, changes, contested>>

\* An error, or the victim of a deadlock.
AbortChange(a) ==
    /\ Changing(a)
    /\ change' = [change EXCEPT ![a] = Nothing]
    /\ UNCHANGED <<model, versions, changes, contested>>

\* publish: a version, and the parameters of the row.
Publish(i, params) ==
    /\ Count
    /\ Registry /\ Made(i)
    /\ versions' = Append(versions, [model |-> i, params |-> params])
    /\ model' = [model EXCEPT ![i].params = params]
    /\ UNCHANGED <<change, contested>>

\* A version of this model is published again.
RollbackVersion(n) == n \in DOMAIN versions /\ Publish(versions[n].model, versions[n].params)

ModelsNext ==
    \/ \E a \in Admins :
        \/ \E i \in ModelIds :
            \/ \E e, d \in BOOLEAN, p \in Params : CreateModel(a, i, e, d, p)
            \/ \E to \in Change : UpdateModel(a, i, to)
            \/ \E b \in BOOLEAN : SetStatus(a, i, b) \/ SetDefault(a, i, b)
        \/ SeekDefaults(a) \/ ClearDefaults(a) \/ CommitChange(a) \/ AbortChange(a)
    \/ \E i \in ModelIds, p \in Params : Publish(i, p)
    \/ \E n \in DOMAIN versions : RollbackVersion(n)

ModelsSpec == ModelsInit /\ [][ModelsNext]_model_vars

-----------------------------------------------------------------------------
(* Properties *)

\* The comment in update: the default of a type is unique.  It is, unless two
\* requests claimed it at a time.
UncontestedDefault == \A t \in ModelTypes \ contested : Cardinality(Defaults(t)) <= 1
=============================================================================

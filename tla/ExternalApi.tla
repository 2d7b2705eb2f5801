------------------------------ MODULE ExternalApi ------------------------------
(***************************************************************************)
(* Documents that arrive from other systems: uploads by API clients, made  *)
(* repeatable with an Idempotency-Key, and imports of a table as Markdown, *)
(* one document per batch of rows.  Every upload_document commits on its   *)
(* own, and so does the record of a key.  With them the rows of the        *)
(* clients and data sources these requests depend on.  Requests that only  *)
(* read, keys that are rotated and connection tests change none of this.   *)
(***************************************************************************)
EXTENDS Naturals, Sequences, FiniteSets, SequencesExt

CONSTANTS
    Callers,     \* requests in flight at a time
    Clients, Sources, \* rows, each with its own id for ever
    Keys, NoKey, \* Idempotency-Key headers, or none
    Contents,    \* files, told apart by their hash
    Tables,      \* what a data source may return: sequences of row sizes
    Header,      \* bytes of the title of a batch
    MaxBytes,    \* DATA_SOURCE_MAX_IMPORT_BYTES
    MaxRows,     \* DATA_SOURCE_MAX_IMPORT_ROWS
    MaxFiles     \* documents that are ever made (a bound of the model)

ASSUME ExternalAssumption ==
    /\ NoKey \notin Keys
    /\ Tables \subseteq Seq(Nat)
    /\ {Header, MaxBytes, MaxFiles} \subseteq Nat /\ MaxRows \in Nat \ {0}

VARIABLES
    source,    \* status of the data sources
    client,    \* API clients
    files,     \* documents in the order they were made
    remembered,\* external_api_idempotency_records
    call,      \* the request of each caller
    disturbed, \* history: keys with overlapping requests, or one that broke off
    unchecked  \* history: sources listed or deleted without an up-to-date look

external_vars == <<source, client, files, remembered, call, disturbed, unchecked>>

-----------------------------------------------------------------------------
(* State *)

Absent == [stage |-> "absent"]
\* A client is on when its key opens anything: it is enabled, not expired, its
\* account is active, and scope and permissions allow the upload.
ClientRows == [st : {"on", "off", "deleted"}, allowed : SUBSET Sources]
Idle == [stage |-> "idle"]
Free(p) == call[p] = Idle
Listed(s) == source[s] \in {"enabled", "disabled"}

\* import: the first document of the import a document belongs to, 0 for an upload.
File == [owner : (Clients \X (Keys \cup {NoKey})) \cup {<<>>}, content : Contents \cup {<<>>},
         import : 0..MaxFiles, rows : Seq(Nat), scheduled : BOOLEAN]

ExternalTypeOK ==
    /\ source \in [Sources -> {"unused", "enabled", "disabled", "deleted"}]
    /\ \A c \in Clients : client[c] = Absent \/ client[c] \in ClientRows
    /\ files \in Seq(File) /\ Len(files) <= MaxFiles
    /\ remembered \subseteq [owner : Clients \X Keys, content : Contents, file : DOMAIN files]
    /\ \A p \in Callers : call[p].stage \in {"idle", "lookup", "store", "record", "import", "remove", "create"}
    /\ disturbed \subseteq Clients \X Keys /\ unchecked \subseteq Sources

ExternalInit ==
    /\ source = [s \in Sources |-> "unused"]
    /\ client = [c \in Clients |-> Absent]
    /\ files = <<>> /\ remembered = {}
    /\ call = [p \in Callers |-> Idle]
    /\ disturbed = {} /\ unchecked = {}

Begin(p, what) == Free(p) /\ call' = [call EXCEPT ![p] = what]
Finish(p) == call' = [call EXCEPT ![p] = Idle]

-----------------------------------------------------------------------------
(* Upload by a client *)

\* authenticate_api_key, require_scope, require_user_permission.
Admitted(c) ==
    client[c] # Absent /\ client[c].st = "on"

SameKey(c, k) == {p \in Callers : call[p].stage \in {"lookup", "store", "record"} /\ call[p].owner = <<c, k>>}

StartUpload(p, c, k, content) ==
    /\ Admitted(c)
    /\ Begin(p, [stage |-> "lookup", owner |-> <<c, k>>, content |-> content])
    /\ disturbed' = IF k # NoKey /\ SameKey(c, k) # {} THEN disturbed \cup {<<c, k>>} ELSE disturbed
    /\ UNCHANGED <<source, client, files, remembered, unchecked>>

\* find_idempotency: the stored answer, 409 for another content, or go on.
Lookup(p) ==
    /\ call[p].stage = "lookup"
    /\ IF \E r \in remembered : r.owner = call[p].owner
       THEN Finish(p)
       ELSE call' = [call EXCEPT ![p].stage = "store"]
    /\ UNCHANGED <<source, client, files, remembered, disturbed, unchecked>>

\* upload_document, which commits.  A base that cannot be changed, or a file
\* that is not acceptable, ends the request.
Store(p) ==
    /\ call[p].stage = "store" /\ Len(files) < MaxFiles
    /\ files' = Append(files, [owner |-> call[p].owner, content |-> call[p].content,
                               import |-> 0, rows |-> <<>>, scheduled |-> FALSE])
    /\ call' = [call EXCEPT ![p] = [stage |-> "record", owner |-> call[p].owner,
                                    content |-> call[p].content, file |-> Len(files) + 1]]
    /\ UNCHANGED <<source, client, remembered, disturbed, unchecked>>

Refuse(p) ==
    /\ call[p].stage = "store"
    /\ Finish(p)
    /\ UNCHANGED <<source, client, files, remembered, disturbed, unchecked>>

\* (Mutant: the answer of a request whose record failed.)
AnswerOnly(p) ==
    /\ call[p].stage = "record"
    /\ files' = [files EXCEPT ![call[p].file].scheduled = TRUE]
    /\ Finish(p)
    /\ UNCHANGED <<source, client, remembered, disturbed, unchecked>>

\* save_idempotency commits on its own; then the answer, and the pipeline of the
\* document.  Without a client the record has nothing to refer to.
Record(p) ==
    /\ call[p].stage = "record"
    /\ LET keyed == call[p].owner[2] # NoKey
           kept == ~keyed \/ client[call[p].owner[1]].st # "deleted" IN
       /\ remembered' = IF keyed /\ kept
                        THEN remembered \cup {[owner |-> call[p].owner, content |-> call[p].content,
                                               file |-> call[p].file]}
                        ELSE remembered
       /\ files' = [files EXCEPT ![call[p].file].scheduled = kept]
    /\ Finish(p)
    /\ UNCHANGED <<source, client, disturbed, unchecked>>

-----------------------------------------------------------------------------
(* Import of a table *)

Bytes(sizes) ==
    LET total[i \in 0..Len(sizes)] == IF i = 0 THEN Header ELSE total[i - 1] + sizes[i]
    IN  total[Len(sizes)]

Full(batch, row) == batch # <<>> /\ Bytes(Append(batch, row)) > MaxBytes
WithRest(split) == IF split.batch = <<>> THEN split.batches ELSE Append(split.batches, split.batch)

\* (Mutant: the rows of a full batch are not kept.)
ForgetBatch(rows) ==
    LET split[i \in 0..Len(rows)] ==
            IF i = 0 THEN [batches |-> <<>>, batch |-> <<>>]
            ELSE [split[i - 1] EXCEPT !.batch = IF Full(@, rows[i]) THEN <<rows[i]>> ELSE Append(@, rows[i])]
    IN  WithRest(split[Len(rows)])

\* split_markdown_batches: a row that would make the batch too long starts the next.
WithRow(split, row) ==
    IF Full(split.batch, row)
    THEN [batches |-> Append(split.batches, split.batch), batch |-> <<row>>]
    ELSE [batches |-> split.batches, batch |-> Append(split.batch, row)]
Batches(rows) ==
    LET split[i \in 0..Len(rows)] ==
            IF i = 0 THEN [batches |-> <<>>, batch |-> <<>>] ELSE WithRow(split[i - 1], rows[i])
    IN  WithRest(split[Len(rows)])

FirstRows(table) == SubSeq(table, 1, IF Len(table) < MaxRows THEN Len(table) ELSE MaxRows)

\* A table with no row is an error; a disabled source is not opened.
\* done: the documents so far; the number of the first one names the import.
StartImport(p, s, table) ==
    /\ source[s] = "enabled" /\ table # <<>>
    /\ Begin(p, [stage |-> "import", table |-> FirstRows(table),
                 left |-> Batches(FirstRows(table)), done |-> <<>>])
    /\ UNCHANGED <<source, client, files, remembered, disturbed, unchecked>>

ImportBatch(p) ==
    /\ call[p].stage = "import" /\ call[p].left # <<>> /\ Len(files) < MaxFiles
    /\ LET n == Len(files) + 1 IN
       /\ files' = Append(files, [owner |-> <<>>, content |-> <<>>, rows |-> Head(call[p].left),
                                  import |-> IF call[p].done = <<>> THEN n ELSE call[p].done[1],
                                  scheduled |-> FALSE])
       /\ call' = [call EXCEPT ![p].left = Tail(@), ![p].done = Append(@, n)]
    /\ UNCHANGED <<source, client, remembered, disturbed, unchecked>>

\* The base has become immutable: the error ends the request, the documents
\* of the batches before it stay as they are.
ImportFails(p) ==
    /\ call[p].stage = "import" /\ call[p].left # <<>>
    /\ Finish(p)
    /\ UNCHANGED <<source, client, files, remembered, disturbed, unchecked>>

\* The audit row, and a pipeline for every document.
ImportAnswer(p) ==
    /\ call[p].stage = "import" /\ call[p].left = <<>>
    /\ files' = [n \in DOMAIN files |-> IF Contains(call[p].done, n)
                                        THEN [files[n] EXCEPT !.scheduled = TRUE] ELSE files[n]]
    /\ Finish(p)
    /\ UNCHANGED <<source, client, remembered, disturbed, unchecked>>

-----------------------------------------------------------------------------
(* Clients and data sources *)

CreateSource(s) ==
    /\ source[s] = "unused"
    /\ source' = [source EXCEPT ![s] = "enabled"]
    /\ UNCHANGED <<client, files, remembered, call, disturbed, unchecked>>

UpdateSource(s, status) ==
    /\ Listed(s)
    /\ source' = [source EXCEPT ![s] = status]
    /\ UNCHANGED <<client, files, remembered, call, disturbed, unchecked>>

\* delete_data_source reads every client first; 409 when one lists the source.
StartRemoveSource(p, s) ==
    /\ Listed(s)
    /\ \A c \in Clients : client[c] # Absent /\ client[c].st # "deleted" => s \notin client[c].allowed
    /\ Begin(p, [stage |-> "remove", source |-> s])
    /\ UNCHANGED <<source, client, files, remembered, disturbed, unchecked>>

RemoveSource(p) ==
    /\ call[p].stage = "remove"
    /\ source' = [source EXCEPT ![call[p].source] = "deleted"]
    /\ Finish(p)
    /\ UNCHANGED <<client, files, remembered, disturbed, unchecked>>

\* Every source of the list exists when create_client looks.
StartCreateClient(p, c, allowed) ==
    /\ client[c] = Absent /\ \A s \in allowed : Listed(s)
    /\ Begin(p, [stage |-> "create", client |-> c, allowed |-> allowed])
    /\ UNCHANGED <<source, client, files, remembered, disturbed, unchecked>>

Removing == {call[p].source : p \in {q \in Callers : call[q].stage = "remove"}}

\* The second of two requests with one name fails at the unique column.
CreateClient(p) ==
    /\ call[p].stage = "create"
    /\ LET c == call[p].client IN
       IF client[c] = Absent
       THEN /\ client' = [client EXCEPT ![c] = [st |-> "on", allowed |-> call[p].allowed]]
            /\ unchecked' = unchecked \cup {s \in call[p].allowed : s \in Removing \/ ~Listed(s)}
       ELSE UNCHANGED <<client, unchecked>>
    /\ Finish(p)
    /\ UNCHANGED <<source, files, remembered, disturbed>>

\* update_client takes the list as it is.  With it, whatever else turns a
\* client on or off: the key expires, the account is disabled.
UpdateClient(c, on, allowed) ==
    /\ client[c] # Absent /\ client[c].st # "deleted"
    /\ client' = [client EXCEPT ![c].st = IF on THEN "on" ELSE "off", ![c].allowed = allowed]
    /\ unchecked' = unchecked \cup (allowed \ client[c].allowed)
    /\ UNCHANGED <<source, files, remembered, call, disturbed>>

\* The records of its keys go with it.
DeleteClient(c) ==
    /\ client[c] # Absent /\ client[c].st # "deleted"
    /\ client' = [client EXCEPT ![c].st = "deleted"]
    /\ remembered' = {r \in remembered : r.owner[1] # c}
    /\ UNCHANGED <<source, files, call, disturbed, unchecked>>

\* The process stops: what was committed stays, nobody answers.
BreakOff(p) ==
    /\ ~Free(p) /\ Finish(p)
    /\ disturbed' = IF call[p].stage = "record" /\ call[p].owner[2] # NoKey
                    THEN disturbed \cup {call[p].owner} ELSE disturbed
    /\ UNCHANGED <<source, client, files, remembered, unchecked>>

-----------------------------------------------------------------------------
(* Specification *)

ExternalNext ==
    \/ \E p \in Callers :
         \/ \E c \in Clients, k \in Keys \cup {NoKey}, x \in Contents : StartUpload(p, c, k, x)
         \/ Lookup(p) \/ Store(p) \/ Refuse(p) \/ Record(p)
         \/ \E s \in Sources, t \in Tables : StartImport(p, s, t)
         \/ ImportBatch(p) \/ ImportFails(p) \/ ImportAnswer(p)
         \/ \E s \in Sources : StartRemoveSource(p, s)
         \/ RemoveSource(p)
         \/ \E c \in Clients, a \in SUBSET Sources : StartCreateClient(p, c, a)
         \/ CreateClient(p)
         \/ BreakOff(p)
    \/ \E s \in Sources : CreateSource(s) \/ \E st \in {"enabled", "disabled"} : UpdateSource(s, st)
    \/ \E c \in Clients :
         \/ \E on \in BOOLEAN, a \in SUBSET Sources : UpdateClient(c, on, a)
         \/ DeleteClient(c)

ExternalSpec == ExternalInit /\ [][ExternalNext]_external_vars

-----------------------------------------------------------------------------
(* Properties *)

\* A retried upload does not make a second document: of a client and a key
\* there is one document at most, the one the record names, with the content
\* the record was made for.  Two requests that overlap both miss the record
\* (no column is unique), and one that broke off between the commit of the
\* document and that of the record leaves none: those keys are left out
\* (external.upload_doc, find_idempotency, save_idempotency).
OneDocumentPerKey ==
    \A c \in Clients, k \in Keys : <<c, k>> \notin disturbed =>
        LET made == {n \in DOMAIN files : files[n].owner = <<c, k>>} IN
        /\ client[c] # Absent /\ client[c].st # "deleted" => Cardinality(made) <= 1
        /\ \A r \in remembered : r.owner = <<c, k>> => made = {r.file} /\ files[r.file].content = r.content

\* The documents of an import and the batches still to come hold the rows it
\* read, each once and in order; the pipelines are started for all of its
\* documents or for none.  A document is longer than the limit only if one row
\* is (split_markdown_batches, import_to_knowledge_base).
Imported(i) == FlattenSeq([n \in DOMAIN files |-> IF files[n].import = i THEN files[n].rows ELSE <<>>])
ImportedRows ==
    /\ \A n \in DOMAIN files : files[n].import # 0 =>
         /\ Len(files[n].rows) > 1 => Bytes(files[n].rows) <= MaxBytes
         /\ files[n].rows # <<>>
         /\ \A m \in DOMAIN files : files[m].import = files[n].import => files[m].scheduled = files[n].scheduled
    /\ \A p \in Callers : call[p].stage = "import" /\ call[p].done # <<>> =>
         Imported(call[p].done[1]) \o FlattenSeq(call[p].left) = call[p].table

\* A source a client lists exists, unless the list came through update_client,
\* which looks at nothing, or was created while a deletion of the source was
\* under way (delete_data_source, create_client).
ListedSourcesExist ==
    \A c \in Clients : client[c] # Absent /\ client[c].st # "deleted" =>
        \A s \in client[c].allowed \ unchecked : Listed(s)

\* What clients and data sources are promised (upload_document,
\* delete_data_source).
ExternalKept == OneDocumentPerKey /\ ListedSourcesExist
=============================================================================

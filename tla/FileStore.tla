------------------------------- MODULE FileStore -------------------------------
(* Uploaded files: the content-addressed blob, the rows of "files", the intake   *)
(* that publishes a handoff once, the material cases that wait for an instruc-   *)
(* tion, the analyses that take files out of them, the deletion of unreferenced  *)
(* rows and the collection of orphaned blobs.  All uploads have the same content *)
(* and so share one blob.  The receipt of an API upload only refuses a key that  *)
(* was used for another content, which does not happen here.                     *)
EXTENDS Integers, FiniteSets

CONSTANTS
  ApiRefs, ChatRefs, RunRefs, \* handoffs: API keys, Telegram messages, artifact requests
  Batch,                      \* handoffs with one batch_ref or of one album
  Uploaders,                  \* requests being served
  MaxUploads,                 \* bound: requests
  MaxFiles,                   \* bound: rows of files
  MaxAnalyses,                \* bound: tasks that analyse files
  MaxFileFaults               \* bound: failures, uncertain commits, restarts

Refs  == ApiRefs \cup ChatRefs \cup RunRefs
Files == 1 .. MaxFiles

ASSUME FileAssumption ==
  /\ Batch \subseteq ApiRefs \cup ChatRefs
  /\ RunRefs \cap (ApiRefs \cup ChatRefs) = {}
  /\ {MaxUploads, MaxFiles, MaxAnalyses, MaxFileFaults} \subseteq Nat

VARIABLES
  blob,      \* the file under the content's path: absent, or within or past the grace period
  files,     \* rows of files: not yet there, there, deleted or discarded, whether the blob was
             \* found old and whether a commit that published the row was reported as failed
  intakes,   \* canonical file_intakes by external_ref
  cases,     \* material_cases that no task belongs to, with their files
  analyses,  \* material_cases of source workflow, each with the task it was queued for
  artifacts, \* worker_run_files by request_id
  leased,    \* the claim the artifact requests name stands
  upload,    \* requests being served
  collector, \* the pass of files.orphan_blobs
  answers,   \* ids answered by handoff
  reopened,  \* analyses queued again by a rework of their task
  uploads,   \* requests so far
  faults     \* faults so far

recordVars == <<intakes, cases, analyses, artifacts, reopened>>
loadVars   == <<leased, uploads, faults>>
fileVars   == <<blob, files, recordVars, upload, collector, answers, loadVars>>

NoUpload   == [pc |-> "idle", ref |-> "none", old |-> FALSE, file |-> 0, canonical |-> 0]
NoAnalysis == [status |-> "none", files |-> {}, task |-> FALSE]
NoCase     == [status |-> "none", files |-> {}]
Fault      == faults < MaxFileFaults /\ faults' = faults + 1

CaseOf(ref) == IF ref \in Batch THEN "batch" ELSE ref
CaseNames   == {CaseOf(ref) : ref \in ApiRefs \cup ChatRefs}

FilesInit ==
  /\ blob = "absent"
  /\ files = [f \in Files |-> [status |-> "none", old |-> FALSE, unsure |-> FALSE]]
  /\ intakes = [ref \in ApiRefs \cup ChatRefs |-> [status |-> "none", file |-> 0]]
  /\ cases = [c \in CaseNames |-> NoCase]
  /\ analyses = [a \in 1 .. MaxAnalyses |-> NoAnalysis]
  /\ artifacts = [ref \in RunRefs |-> 0]
  /\ leased = TRUE
  /\ upload = [u \in Uploaders |-> NoUpload]
  /\ collector = [pc |-> "idle", live |-> FALSE]
  /\ answers = [ref \in Refs |-> {}]
  /\ reopened = {}
  /\ uploads = 0
  /\ faults = 0

Kept       == {f \in Files : files[f].status = "there"}
Goes(u, s) == upload' = [upload EXCEPT ![u] = s]
Ends(u)    == Goes(u, NoUpload)
Answered(u, f) ==
  /\ answers' = [answers EXCEPT ![upload[u].ref] = @ \cup {f}]
  /\ Ends(u)
\* FileByID of the canonical file: it may be gone.
AnsweredIfKept(u, f) == IF f \in Kept THEN Answered(u, f) ELSE Ends(u) /\ UNCHANGED answers

--------------------------------------------------------------------------------
(* Uploads *)

\* An artifact is refused before its body is read when the claim is stale.
BeginUpload(u, ref) ==
  /\ upload[u].pc = "idle"
  /\ uploads < MaxUploads
  /\ uploads' = uploads + 1
  /\ ref \in RunRefs => leased
  /\ Goes(u, [NoUpload EXCEPT !.ref = ref, !.pc = IF ref \in ChatRefs THEN "intake" ELSE "install"])
  /\ UNCHANGED <<blob, files, recordVars, collector, answers, leased, faults>>

\* CreateFileIntake: a handoff that was saved is answered with its file.
OpenIntake(u) ==
  LET ref == upload[u].ref
      saved == intakes[ref].status = "saved"
  IN /\ upload[u].pc = "intake"
     /\ intakes' = [intakes EXCEPT ![ref].status = IF saved THEN @ ELSE "pending"]
     /\ IF saved /\ intakes[ref].file # 0 THEN AnsweredIfKept(u, intakes[ref].file)
        ELSE /\ Goes(u, [upload[u] EXCEPT !.pc = IF ref \in ChatRefs THEN "install" ELSE "row"])
             /\ UNCHANGED answers
     /\ UNCHANGED <<blob, files, cases, analyses, artifacts, reopened, collector, loadVars>>

\* InstallContentFile: a blob that is there already is left as it is.
Install(u) ==
  /\ upload[u].pc = "install"
  /\ blob' = IF blob = "absent" THEN "fresh" ELSE blob
  /\ Goes(u, [upload[u] EXCEPT !.pc = IF upload[u].ref \in ApiRefs THEN "intake" ELSE "row", !.old = blob = "old"])
  /\ UNCHANGED <<files, recordVars, collector, answers, loadVars>>

\* A Telegram download that fails marks its intake unless another request saved it.
InstallFails(u) ==
  /\ upload[u].pc = "install"
  /\ Fault
  /\ intakes' = IF upload[u].ref \in ChatRefs /\ intakes[upload[u].ref].status = "pending"
                THEN [intakes EXCEPT ![upload[u].ref].status = "failed"] ELSE intakes
  /\ Ends(u)
  /\ UNCHANGED <<blob, files, cases, analyses, artifacts, reopened, collector, answers, leased, uploads>>

CreateRow(u) ==
  /\ upload[u].pc = "row"
  /\ \E f \in Files :
       /\ files[f].status = "none"
       /\ \A g \in Files : g < f => files[g].status # "none"
       /\ files' = [files EXCEPT ![f] = [status |-> "there", old |-> upload[u].old, unsure |-> FALSE]]
       /\ Goes(u, [upload[u] EXCEPT !.pc = "publish", !.file = f])
  /\ UNCHANGED <<blob, recordVars, collector, answers, loadVars>>

\* Mistake: the row of this request always becomes the published one.
NeverPublished(ref) == FALSE

IsPublished(ref) == intakes[ref].status = "saved" /\ intakes[ref].file # 0

\* CompleteFileIntake: the intake names the row, and its case waits for an
\* instruction (again).
Saved(ref, f) ==
  /\ intakes' = [intakes EXCEPT ![ref] = [status |-> "saved", file |-> f]]
  /\ cases' = [cases EXCEPT ![CaseOf(ref)] = [status |-> "received", files |-> @.files \cup {f}]]
  /\ UNCHANGED <<analyses, artifacts, reopened>>

PublishIntake(u) ==
  LET up == upload[u] IN
  /\ up.pc = "publish"
  /\ up.ref \notin RunRefs
  /\ IF IsPublished(up.ref) THEN /\ Goes(u, [up EXCEPT !.pc = "discard", !.canonical = intakes[up.ref].file])
                                 /\ UNCHANGED <<recordVars, answers>>
     ELSE IF up.file \in Kept THEN Saved(up.ref, up.file) /\ Answered(u, up.file)
     ELSE Goes(u, [up EXCEPT !.pc = "discard"]) /\ UNCHANGED <<recordVars, answers>>
  /\ UNCHANGED <<blob, files, collector, loadVars>>

\* AddWorkerArtifact: a stale claim is refused, a repeated request gets the first file.
RecordArtifact(u) ==
  LET up == upload[u] IN
  /\ up.pc = "publish"
  /\ up.ref \in RunRefs
  /\ IF leased /\ up.file \in Kept /\ artifacts[up.ref] = 0
     THEN artifacts' = [artifacts EXCEPT ![up.ref] = up.file] /\ Answered(u, up.file)
     ELSE /\ Goes(u, [up EXCEPT !.pc = "discard",
                                !.canonical = IF leased /\ up.file \in Kept THEN artifacts[up.ref] ELSE 0])
          /\ UNCHANGED <<artifacts, answers>>
  /\ UNCHANGED <<blob, files, intakes, cases, analyses, reopened, collector, loadVars>>

\* The transaction fails, or its commit goes through and is reported as failed.
PublishFails(u, committed) ==
  LET up == upload[u] IN
  /\ up.pc = "publish"
  /\ Fault
  /\ Goes(u, [up EXCEPT !.pc = "discard"])
  /\ IF ~committed THEN UNCHANGED <<files, recordVars>>
     ELSE /\ up.file \in Kept
          /\ files' = [files EXCEPT ![up.file].unsure = TRUE]
          /\ IF up.ref \in RunRefs
             THEN /\ leased /\ artifacts[up.ref] = 0
                  /\ artifacts' = [artifacts EXCEPT ![up.ref] = up.file]
                  /\ UNCHANGED <<intakes, cases, analyses, reopened>>
             ELSE ~IsPublished(up.ref) /\ Saved(up.ref, up.file)
  /\ UNCHANGED <<blob, collector, answers, leased, uploads>>

Referenced(f) ==
  \/ \E ref \in RunRefs : artifacts[ref] = f
  \/ \E a \in 1 .. MaxAnalyses : analyses[a].task /\ f \in analyses[a].files

\* deleteUnreferencedFileRowTx: the row leaves its intake and its cases, and cases
\* that held nothing else go.
Removed(f, how) ==
  /\ files' = [files EXCEPT ![f].status = how]
  /\ intakes' = [ref \in DOMAIN intakes |->
       IF intakes[ref].file = f THEN [intakes[ref] EXCEPT !.file = 0] ELSE intakes[ref]]
  /\ cases' = [c \in CaseNames |-> IF cases[c].files = {f} THEN NoCase ELSE [cases[c] EXCEPT !.files = @ \ {f}]]
  /\ analyses' = [a \in 1 .. MaxAnalyses |-> [analyses[a] EXCEPT !.files = @ \ {f}]]
  /\ UNCHANGED <<artifacts, reopened>>

\* Mistake: the canonical row is discarded.
RowOfRequest(up) == IF up.canonical # 0 THEN up.canonical ELSE up.file

RowToDiscard(up) == up.file

\* DeleteOrphanFileRow, and the canonical file if there is one.
Discard(u) ==
  LET f == RowToDiscard(upload[u]) IN
  /\ upload[u].pc = "discard"
  /\ IF f \in Kept /\ ~Referenced(f) THEN Removed(f, "discarded") ELSE UNCHANGED <<files, recordVars>>
  /\ IF upload[u].canonical \in Kept \ {f} THEN Answered(u, upload[u].canonical)
     ELSE Ends(u) /\ UNCHANGED answers
  /\ UNCHANGED <<blob, collector, loadVars>>

LeaseEnds ==
  /\ RunRefs # {} /\ leased
  /\ leased' = FALSE
  /\ UNCHANGED <<blob, files, recordVars, upload, collector, answers, uploads, faults>>

--------------------------------------------------------------------------------
(* Deletion, analysis, collection *)

\* delete_file
DeleteFile(f) ==
  /\ f \in Kept /\ ~Referenced(f)
  /\ Removed(f, "deleted")
  /\ UNCHANGED <<blob, upload, collector, answers, loadVars>>

\* Mistake: only analyses that have not been started count.
TakenByQueued == UNION {analyses[a].files : a \in {b \in 1 .. MaxAnalyses : analyses[b].status = "queued"}}

\* "processing" also stands for needs_input, from which only a rework or the end of
\* the task leads on.
Working == {"queued", "processing"}
Taken   == UNION {analyses[a].files : a \in {b \in 1 .. MaxAnalyses : analyses[b].status \in Working}}

\* queueMaterialFilesTx: the files leave the cases that wait, and cases left empty
\* are completed.
Analyse(a, chosen) ==
  /\ analyses[a] = NoAnalysis
  /\ \A b \in 1 .. MaxAnalyses : b < a => analyses[b] # NoAnalysis
  /\ chosen # {} /\ chosen \subseteq Kept
  /\ chosen \cap Taken = {}
  /\ analyses' = [analyses EXCEPT ![a] = [status |-> "queued", files |-> chosen, task |-> TRUE]]
  /\ cases' = [c \in CaseNames |->
       IF cases[c].status # "received" THEN cases[c]
       ELSE [status |-> IF cases[c].files \subseteq chosen THEN "completed" ELSE "received",
             files |-> cases[c].files \ chosen]]
  /\ UNCHANGED <<blob, files, intakes, artifacts, reopened, upload, collector, answers, loadVars>>

\* Claims, releases, questions, retries and the completion of the worker's run.
AnalysisMoves(a, status) ==
  /\ analyses[a].status \in Working /\ analyses[a].task
  /\ <<analyses[a].status, status>> \in
       {<<"queued", "processing">>, <<"processing", "queued">>, <<"processing", "completed">>}
  /\ analyses' = [analyses EXCEPT ![a].status = status]
  /\ UNCHANGED <<blob, files, intakes, cases, artifacts, reopened, upload, collector, answers, loadVars>>

\* restartTaskWorkerRunTx: a revised or rejected task is worked on again.
Rework(a) ==
  /\ analyses[a].status \in {"processing", "completed"} /\ analyses[a].task
  /\ analyses' = [analyses EXCEPT ![a].status = "queued"]
  /\ reopened' = IF analyses[a].status = "completed" THEN reopened \cup {a} ELSE reopened
  /\ UNCHANGED <<blob, files, intakes, cases, artifacts, upload, collector, answers, loadVars>>

\* The task is cancelled, or deleted with its attachments.
TaskEnds(a, deleted) ==
  /\ analyses[a].task
  /\ deleted \/ analyses[a].status # "ignored"
  /\ analyses' = [analyses EXCEPT ![a].status = "ignored", ![a].task = ~deleted]
  /\ UNCHANGED <<blob, files, intakes, cases, artifacts, reopened, upload, collector, answers, loadVars>>

\* The grace period passes: it is longer than an upload and than a pass of the
\* collector.
BlobAges ==
  /\ blob = "fresh"
  /\ collector.pc = "idle"
  /\ \A u \in Uploaders : upload[u].pc \notin {"intake", "row"} \/ upload[u].old
  /\ blob' = "old"
  /\ UNCHANGED <<files, recordVars, upload, collector, answers, loadVars>>

\* FileStoragePaths
ListLive ==
  /\ collector.pc = "idle"
  /\ blob # "absent"
  /\ collector' = [pc |-> "walk", live |-> Kept # {}]
  /\ UNCHANGED <<blob, files, recordVars, upload, answers, loadVars>>

\* Mistake: a blob nobody lists is removed whatever its age.
CollectsAnyAge == ~collector.live

Collects == blob = "old" /\ ~collector.live

WalkBlobs ==
  /\ collector.pc = "walk"
  /\ blob' = IF Collects THEN "absent" ELSE blob
  /\ collector' = [pc |-> "idle", live |-> FALSE]
  /\ UNCHANGED <<files, recordVars, upload, answers, loadVars>>

FilesRestart ==
  /\ Fault
  /\ upload' = [u \in Uploaders |-> NoUpload]
  /\ collector' = [pc |-> "idle", live |-> FALSE]
  /\ UNCHANGED <<blob, files, recordVars, answers, leased, uploads>>

FilesNext ==
  \/ \E u \in Uploaders :
       \/ \E ref \in Refs : BeginUpload(u, ref)
       \/ OpenIntake(u) \/ Install(u) \/ InstallFails(u) \/ CreateRow(u)
       \/ PublishIntake(u) \/ RecordArtifact(u) \/ Discard(u)
       \/ \E committed \in BOOLEAN : PublishFails(u, committed)
  \/ LeaseEnds
  \/ \E f \in Files : DeleteFile(f)
  \/ \E a \in 1 .. MaxAnalyses :
       \/ \E chosen \in SUBSET Files : Analyse(a, chosen)
       \/ \E status \in Working \cup {"completed"} : AnalysisMoves(a, status)
       \/ Rework(a)
       \/ \E deleted \in BOOLEAN : TaskEnds(a, deleted)
  \/ BlobAges \/ ListLive \/ WalkBlobs
  \/ FilesRestart

FilesSpec == FilesInit /\ [][FilesNext]_fileVars

--------------------------------------------------------------------------------
(* Properties *)

\* A row has its blob, unless the upload found an old blob in the place: then the
\* collector may be about to remove it.
RowsHaveBlobs == \A f \in Kept : blob # "absent" \/ files[f].old

\* All answers to one handoff name the same file as long as it is not deleted.
AnswersAgree == \A ref \in Refs : Cardinality(answers[ref] \cap Kept) <= 1

\* A file that was answered goes only when a user deletes it, unless the commit that
\* published it was reported as failed.
AnswersStand ==
  \A ref \in Refs : \A f \in answers[ref] : files[f].status = "discarded" => files[f].unsure

\* A published file is in a case or was taken by an analysis.
FilesAreFiled ==
  \A ref \in ApiRefs \cup ChatRefs : IsPublished(ref) =>
    /\ intakes[ref].file \in Kept
    /\ \/ \E c \in CaseNames : intakes[ref].file \in cases[c].files /\ cases[c].status = "received"
       \/ \E a \in 1 .. MaxAnalyses : intakes[ref].file \in analyses[a].files

\* Two analyses work on one file only after one of them was opened again.
AnalysedOnce ==
  \A a, b \in 1 .. MaxAnalyses :
    /\ a # b /\ {analyses[a].status, analyses[b].status} \subseteq Working
    /\ analyses[a].files \cap analyses[b].files # {}
    => {a, b} \cap reopened # {}

\* Nothing that was answered for, filed or referenced is lost, whatever is repeated,
\* deleted or collected meanwhile (publishAPIUpload, saveIncomingTelegramFiles,
\* AddWorkerArtifact, maintainFileBlobs, queueMaterialFilesTx).
FilesAreKept == RowsHaveBlobs /\ AnswersAgree /\ AnswersStand /\ FilesAreFiled /\ AnalysedOnce
================================================================================

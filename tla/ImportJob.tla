----------------------------- MODULE ImportJob -----------------------------
(***************************************************************************)
(* Storing a message of an IMAP client on the server (APPEND, COPY): the   *)
(* import job of the bridge with the task that closes it, the steps of an  *)
(* import, and the client that tries again after NO.  An import outlives   *)
(* the command that started it: at its deadline the client is told to try  *)
(* again while the task runs on.  All imports here are of one message.     *)
(***************************************************************************)
EXTENDS Naturals, FiniteSets

CONSTANTS
  Imports,         \* tasks, one per APPEND
  ImportJobs,            \* import jobs the server can issue
  NoJob,
  ImportFaults     \* bound on calls that fail, answers that are lost, and stops

ASSUME ImportAssumption == NoJob \notin ImportJobs /\ ImportFaults \in Nat

VARIABLES
  job,             \* the server's jobs: "unborn", "open" or "completed"
  slot,            \* IMPORT_JOB
  quiet,           \* no activity for IMPORT_JOB_IDLE_SECS
  closer,          \* the closer task: "none" (flag clear), "sleep", "closing", "ending"
  closing,         \* the job it took out of the slot
  copy,            \* the message on the server: "absent", "bare" or "whole"
  at,            \* where an import stands
  with,            \* the job it was given
  retried,         \* job_retried
  ended,         \* how it ended: "none", "stored", "duplicate", "failed", "left"
  command,         \* the import whose command the client waits for, or none
  told,            \* the client's last answer: "nothing", "ok", "retry"
  \* observation only
  early,           \* imports told of a duplicate while another one was completing the copy
  abandoned,       \* an import lost sight of a copy it had not completed
  orphan,          \* the job in the slot was put there when no closer looked at the slot any more
  importFaults

importVars == <<job, slot, quiet, closer, closing, copy, at, with, retried, ended,
                command, told, early, abandoned, orphan, importFaults>>
theJob == <<job, slot, quiet, closer, closing, orphan>>
theClient == <<command, told>>
theCopy == <<copy, early, abandoned>>

NoImport == "none"
ImportFault == importFaults < ImportFaults /\ importFaults' = importFaults + 1

ImportInit ==
  /\ job = [j \in ImportJobs |-> "unborn"] /\ slot = NoJob /\ quiet = TRUE
  /\ closer = "none" /\ closing = NoJob /\ copy = "absent"
  /\ at = [i \in Imports |-> "idle"] /\ with = [i \in Imports |-> NoJob]
  /\ retried = [i \in Imports |-> FALSE] /\ ended = [i \in Imports |-> "none"]
  /\ command = NoImport /\ told = "nothing" /\ early = {} /\ abandoned = FALSE /\ orphan = FALSE
  /\ importFaults = 0

MovesOn(i, here, there) == at[i] = here /\ at' = [at EXCEPT ![i] = there]
Finishes(i, here, how) ==
  /\ MovesOn(i, here, "done") /\ ended' = [ended EXCEPT ![i] = how]
  /\ with' = [with EXCEPT ![i] = NoJob] /\ retried' = [retried EXCEPT ![i] = FALSE]

-----------------------------------------------------------------------------
(* The client *)

(* APPEND, the first time and after NO: run_with_keepalive spawns the import. *)
ClientAppends(i) ==
  /\ command = NoImport /\ told # "ok" /\ MovesOn(i, "idle", "job") /\ command' = i
  /\ quiet' = FALSE
  /\ UNCHANGED <<job, slot, closer, closing, orphan, theCopy, with, retried, ended, told, importFaults>>

ClientAnswered(i) ==
  /\ command = i /\ at[i] = "done" /\ command' = NoImport
  /\ told' = IF ended[i] \in {"stored", "duplicate"} THEN "ok" ELSE "retry"
  /\ UNCHANGED <<theJob, theCopy, at, with, retried, ended, importFaults>>

(* APPEND_DEADLINE_SECS: the client is asked to retry; the task goes on. *)
Deadline ==
  /\ command # NoImport /\ at[command] # "done"
  /\ command' = NoImport /\ told' = "retry"
  /\ UNCHANGED <<theJob, theCopy, at, with, retried, ended, importFaults>>

-----------------------------------------------------------------------------
(* The job *)

Open == {j \in ImportJobs : job[j] = "open"}

(* processing_import_job: the slot's, one that is open on the server, or a new
   one; start_import_job must work.  Only the first one of an import looks for
   a closer. *)
GetsJob(i) ==
  /\ MovesOn(i, "job", IF retried[i] THEN "store" ELSE "closer")
  /\ \/ /\ slot # NoJob /\ with' = [with EXCEPT ![i] = slot]
        /\ UNCHANGED <<job, slot>>
     \/ /\ slot = NoJob
        /\ \E j \in ImportJobs :
             /\ IF Open # {} THEN j \in Open ELSE job[j] = "unborn"
             /\ job' = [job EXCEPT ![j] = "open"] /\ slot' = j
             /\ with' = [with EXCEPT ![i] = j]
  /\ orphan' = IF slot = NoJob THEN retried[i] /\ closer # "sleep" ELSE orphan
  /\ UNCHANGED <<quiet, closer, closing, theCopy, retried, ended, theClient, importFaults>>

NoJobToBeHad(i) ==
  /\ ImportFault /\ Finishes(i, "job", "failed")
  /\ UNCHANGED <<theJob, theCopy, theClient>>

(* Mutant: only the first import of the process starts a closer. *)
SpawnsCloserMut(i) ==
  /\ MovesOn(i, "closer", "store")
  /\ closer' = IF closer = "none" /\ with[i] = CHOOSE j \in ImportJobs : TRUE THEN "sleep" ELSE closer
  /\ orphan' = (orphan \/ (slot # NoJob /\ closer \in {"closing", "ending"}))
  /\ UNCHANGED <<job, slot, quiet, closing, theCopy, with, retried, ended, theClient, importFaults>>

(* spawn_import_job_closer, when the flag is clear. *)
SpawnsCloser(i) ==
  /\ MovesOn(i, "closer", "store")
  /\ closer' = IF closer = "none" THEN "sleep" ELSE closer
  /\ orphan' = (orphan \/ (slot # NoJob /\ closer \in {"closing", "ending"}))
  /\ UNCHANGED <<job, slot, quiet, closing, theCopy, with, retried, ended, theClient, importFaults>>

GoesQuiet ==
  /\ ~quiet /\ quiet' = TRUE
  /\ UNCHANGED <<job, slot, closer, closing, orphan, theCopy, at, with, retried, ended, theClient, importFaults>>

(* The closer: idle long enough, it takes the job out of the slot, completes it
   on the server, or not, and clears the flag. *)
CloserTakes ==
  /\ closer = "sleep" /\ quiet
  /\ closer' = "closing" /\ closing' = slot /\ slot' = NoJob /\ orphan' = FALSE
  /\ UNCHANGED <<job, quiet, theCopy, at, with, retried, ended, theClient, importFaults>>

CloserCompletes ==
  /\ closer = "closing" /\ closer' = "ending" /\ closing' = NoJob
  /\ \/ /\ job' = [j \in ImportJobs |-> IF j = closing THEN "completed" ELSE job[j]]
        /\ UNCHANGED importFaults
     \/ ImportFault /\ UNCHANGED job
  /\ UNCHANGED <<slot, quiet, orphan, theCopy, at, with, retried, ended, theClient>>

CloserEnds ==
  /\ closer = "ending" /\ closer' = "none"
  /\ UNCHANGED <<job, slot, quiet, closing, orphan, theCopy, at, with, retried, ended, theClient, importFaults>>

-----------------------------------------------------------------------------
(* An import *)

(* forget_import_job and one more try, after a refusal that waiting does not
   help; the second one is the end of it. *)
Refused(i) ==
  \/ /\ ~retried[i] /\ retried' = [retried EXCEPT ![i] = TRUE]
     /\ MovesOn(i, "store", "job") /\ slot' = NoJob /\ orphan' = FALSE /\ UNCHANGED <<with, ended>>
  \/ retried[i] /\ Finishes(i, "store", "failed") /\ UNCHANGED <<slot, orphan>>

(* store_imported_emails: the server takes a message once for the same hashes;
   an answer that is lost is asked for again, and the server then knows it.  A
   full storage is the end of it. *)
StoresOnServer(i) ==
  /\ at[i] = "store"
  /\ \/ /\ job[with[i]] = "open" /\ copy = "absent" /\ copy' = "bare"
        /\ \/ MovesOn(i, "store", "upload") /\ UNCHANGED <<abandoned, importFaults>>
           \/ ImportFault /\ abandoned' = TRUE /\ UNCHANGED at
        /\ UNCHANGED <<slot, orphan, with, retried, ended, early>>
     \/ /\ job[with[i]] = "open" /\ copy # "absent" /\ Finishes(i, "store", "duplicate")
        /\ early' = IF \E k \in Imports : at[k] = "upload" THEN early \union {i} ELSE early
        /\ UNCHANGED <<slot, orphan, copy, abandoned, importFaults>>
     \/ /\ ImportFault /\ Finishes(i, "store", "failed") /\ UNCHANGED <<slot, orphan, theCopy>>
     \/ /\ job[with[i]] # "open" /\ Refused(i) /\ UNCHANGED <<theCopy, importFaults>>
     \/ /\ ImportFault /\ Refused(i) /\ UNCHANGED theCopy
  /\ quiet' = FALSE
  /\ UNCHANGED <<job, closer, closing, theClient>>

(* Mutant: the failed upload is only logged. *)
UploadsMut(i) ==
  /\ MovesOn(i, "upload", "keep")
  /\ \/ copy' = "whole" /\ UNCHANGED importFaults
     \/ ImportFault /\ UNCHANGED copy
  /\ UNCHANGED <<theJob, with, retried, ended, early, abandoned, theClient>>

(* locate_stored_item, upload_attachments and apply_placement: a failure to
   find the copy leaves it there, a later one removes it, if that works. *)
Uploads(i) ==
  /\ \/ /\ copy' = "whole" /\ MovesOn(i, "upload", "keep")
        /\ UNCHANGED <<with, retried, ended, abandoned, importFaults>>
     \/ ImportFault /\ Finishes(i, "upload", "left") /\ abandoned' = TRUE /\ UNCHANGED copy
     \/ ImportFault /\ Finishes(i, "upload", "failed") /\ copy' = "absent" /\ UNCHANGED abandoned
  /\ UNCHANGED <<theJob, early, theClient>>

(* The copy is pinned, cached and given its UID; a stop in between is an error
   although the message is stored. *)
KeepsLocally(i) ==
  /\ \/ Finishes(i, "keep", "stored") /\ UNCHANGED importFaults
     \/ ImportFault /\ Finishes(i, "keep", "left")
  /\ UNCHANGED <<theJob, theCopy, theClient>>

ImportStep(i) ==
  \/ GetsJob(i) \/ NoJobToBeHad(i) \/ SpawnsCloser(i) \/ StoresOnServer(i) \/ Uploads(i) \/ KeepsLocally(i)
CloserStep == CloserTakes \/ CloserCompletes \/ CloserEnds
ImportNext ==
  \/ \E i \in Imports : ClientAppends(i) \/ ClientAnswered(i) \/ ImportStep(i)
  \/ Deadline \/ GoesQuiet \/ CloserStep

(* Time passes and tasks run; nothing is assumed of the client. *)
ImportFairness ==
  /\ WF_importVars(GoesQuiet) /\ WF_importVars(CloserTakes)
  /\ WF_importVars(CloserCompletes) /\ WF_importVars(CloserEnds)
  /\ \A i \in Imports : WF_importVars(ImportStep(i))

ImportSpec == ImportInit /\ [][ImportNext]_importVars /\ ImportFairness

-----------------------------------------------------------------------------
(* Properties *)

(* An import that says it stored the message has stored all of it, and no
   other import takes it away again.  One that finds it on the server, and gets
   its client an OK for that, finds all of it, but in two cases: another import
   is still completing the copy, and may fail to; or nobody ever will, since an
   import lost sight of the copy it had put there, its own included, when the
   answer of the server was lost, or could not find it again, or could not
   remove it after a failed upload.  (import_message, locate_stored_item.) *)
StoredIsWhole ==
  /\ \A i \in Imports : ended[i] = "stored" => copy = "whole"
  /\ \A i \in Imports : ended[i] = "duplicate" => copy = "whole" \/ i \in early \/ abandoned
  /\ copy = "bare" => abandoned \/ \E i \in Imports : at[i] = "upload"

(* A client that was told OK has the message on the server with all that goes
   with it, and was told of an error otherwise.  (import_message.) *)
OkMeansWhole == told = "ok" => copy = "whole"

(* An import job is not kept open for ever: the closer takes it once imports
   have been quiet.  A job that a retry put in the slot after the closer, or one
   put there while the closer was ending, has none until the next import.
   (spawn_import_job_closer.) *)
JobIsClosed == \A j \in ImportJobs : slot = j ~> slot # j \/ orphan
=============================================================================

---------------------------- MODULE BackupJobs ----------------------------
(***************************************************************************)
(* Backup and restore jobs and the storage directory: internal/web/jobs.go *)
(* with handleBackupRun of backup.go and the Storage Manager, storage.go.  *)
(*                                                                         *)
(* A job is one request to handleBackupRun, its process, and the goroutine *)
(* that waits for the process.  A step is a critical section under jobsMu  *)
(* or under the job's mu, one operation on the storage directory, or one   *)
(* step of a process.  Files are known by who wrote into them, so that a   *)
(* file with two writers is a mixture and a file removed is nobody's.      *)
(*                                                                         *)
(* An operator Name_Slip is Name with the slip a change of the code could  *)
(* bring; each property is checked to be violated by one of them.          *)
(***************************************************************************)
EXTENDS Integers, Sequences, FiniteSets

CONSTANTS
    Jobs,       \* requests to handleBackupRun
    Uploads,    \* requests to handleStorageUpload
    Names,      \* file names in the storage directory
    MaxJobs,    \* maxJobs
    None        \* no output: backupCmd.Out = ""

ASSUME ConstantsAssumption ==
    /\ MaxJobs \in Nat \ {0}
    /\ None \notin Names
    /\ Jobs \cap Uploads = {}

VARIABLES
    order,      \* jobsOrder, oldest first; jobsByID has the same jobs
    at,         \* job -> where its request or its goroutine is
    status,     \* job -> job.status
    live,       \* job -> its context is neither cancelled nor past its deadline
    proc,       \* job -> the process of the client tool
    out,        \* writer -> the name it writes to
    files,      \* name -> the writers whose output the file holds, {} if none
    upload      \* upload -> where its request is

vars == <<order, at, status, live, proc, out, files, upload>>
jobVars == <<order, at, status, live, proc>>
-----------------------------------------------------------------------------
Writers == Jobs \cup Uploads

\* "started": c.Start has returned, the job is not registered yet;
\* "removing": wait has set the status and is to remove the output.
Steps    == {"idle", "checked", "started", "waiting", "removing", "over"}
Statuses == {"running", "done", "failed", "cancelled"}
Procs    == {"none", "starting", "writing", "ok", "err"}
UploadSteps == {"idle", "copying", "failed", "stored", "gone"}

TypeOK ==
    /\ order \in Seq(Jobs)
    /\ at \in [Jobs -> Steps]
    /\ status \in [Jobs -> Statuses]
    /\ live \in [Jobs -> BOOLEAN]
    /\ proc \in [Jobs -> Procs]
    /\ out \in [Writers -> Names \cup {None}]
    /\ files \in [Names -> SUBSET Writers]
    /\ upload \in [Uploads -> UploadSteps]

Init ==
    /\ order = <<>>
    /\ at = [j \in Jobs |-> "idle"]
    /\ status = [j \in Jobs |-> "running"]
    /\ live = [j \in Jobs |-> TRUE]
    /\ proc = [j \in Jobs |-> "none"]
    /\ out = [w \in Writers |-> None]
    /\ files = [n \in Names |-> {}]
    /\ upload = [u \in Uploads |-> "idle"]

Exists(n)  == files[n] # {}
Listed(j)  == \E i \in DOMAIN order : order[i] = j
Exited(j)  == proc[j] \in {"ok", "err"}
Writing(w) == IF w \in Jobs THEN proc[w] = "writing" ELSE upload[w] = "copying"
-----------------------------------------------------------------------------
(* handleBackupRun and startJob *)

\* A dump's name must be free (os.Lstat).  A restore has no output, and the
\* file it reads must exist (os.Stat in buildPgRestore).
CheckName(j) ==
    /\ at[j] = "idle"
    /\ \/ \E n \in Names : ~Exists(n) /\ out' = [out EXCEPT ![j] = n]
       \/ (\E n \in Names : Exists(n)) /\ UNCHANGED out
    /\ at' = [at EXCEPT ![j] = "checked"]
    /\ UNCHANGED <<order, status, live, proc, files, upload>>

StartProcess(j) ==
    /\ at[j] = "checked"
    /\ at' = [at EXCEPT ![j] = "started"]
    /\ proc' = [proc EXCEPT ![j] = "starting"]
    /\ UNCHANGED <<order, status, live, out, files, upload>>

\* The tool is not on PATH, or c.Start fails.
StartFails(j) ==
    /\ at[j] = "checked"
    /\ at' = [at EXCEPT ![j] = "idle"]
    /\ out' = [out EXCEPT ![j] = None]
    /\ UNCHANGED <<order, status, live, proc, files, upload>>

\* pruneJobsLocked: the first index that is kept, because the list is short
\* enough from there on or the job there is running.
Keeps_ByNumber(s, i) == Len(s) - i < MaxJobs
Keeps(s, i) == Len(s) - i < MaxJobs \/ status[s[i]] = "running"
FirstKept(s, i) == Keeps(s, i) /\ \A k \in 1..(i - 1) : ~Keeps(s, k)

Register(j) ==
    /\ at[j] = "started"
    /\ LET s == Append(order, j)
       IN  \E i \in 1..Len(s) : FirstKept(s, i) /\ order' = SubSeq(s, i, Len(s))
    /\ at' = [at EXCEPT ![j] = "waiting"]
    /\ UNCHANGED <<status, live, proc, out, files, upload>>
-----------------------------------------------------------------------------
(* The process (pg_dump, pg_dumpall, pg_restore, psql) *)

\* It opens its output whether or not the file exists, and truncates it.  Who
\* still writes into the file goes on doing so.
Open(j) ==
    /\ proc[j] = "starting" /\ out[j] \in Names
    /\ proc' = [proc EXCEPT ![j] = "writing"]
    /\ files' = [files EXCEPT ![out[j]] = {w \in @ : Writing(w)} \cup {j}]
    /\ UNCHANGED <<order, at, status, live, out, upload>>

Exit(j) ==
    /\ \/ /\ proc[j] \in {"starting", "writing"}
          /\ proc' = [proc EXCEPT ![j] = "err"]
       \/ /\ proc[j] = IF out[j] = None THEN "starting" ELSE "writing"
          /\ proc' = [proc EXCEPT ![j] = "ok"]
    /\ UNCHANGED <<order, at, status, live, out, files, upload>>

\* The deadline of the job's context passes: the process is killed.
Expire(j) ==
    /\ at[j] \in {"started", "waiting"} /\ live[j]
    /\ live' = [live EXCEPT ![j] = FALSE]
    /\ UNCHANGED <<order, at, status, proc, out, files, upload>>
-----------------------------------------------------------------------------
(* wait and requestCancel *)

\* The status after c.Wait returns: an exit without error counts as done even
\* when the job was cancelled meanwhile.
Outcome_CancelWins(j) == IF status[j] = "cancelled" THEN "cancelled"
                         ELSE IF proc[j] = "ok" THEN "done" ELSE "failed"
Outcome(j) == IF proc[j] = "ok" THEN "done"
              ELSE IF status[j] = "cancelled" THEN "cancelled" ELSE "failed"

MustRemove_IfFailed(j) == Outcome(j) = "failed" /\ out[j] # None
MustRemove(j) == Outcome(j) # "done" /\ out[j] # None

Finished(j) ==
    /\ status' = [status EXCEPT ![j] = Outcome(j)]
    /\ live' = [live EXCEPT ![j] = FALSE]
    /\ at' = [at EXCEPT ![j] = IF MustRemove(j) THEN "removing" ELSE "over"]
    /\ UNCHANGED <<order, proc, out, files, upload>>

SetOutcome_NotWaiting(j) == at[j] = "waiting" /\ Finished(j)
SetOutcome(j) == at[j] = "waiting" /\ Exited(j) /\ Finished(j)

\* os.RemoveAll(j.Out), by name: whoever wrote the file.
RemoveOutput(j) ==
    /\ at[j] = "removing"
    /\ files' = [files EXCEPT ![out[j]] = {}]
    /\ at' = [at EXCEPT ![j] = "over"]
    /\ UNCHANGED <<order, status, live, proc, out, upload>>

Cancelled(s) == IF s = "running" THEN "cancelled" ELSE s

RequestCancel_NoKill(j) ==
    /\ Listed(j)
    /\ status' = [status EXCEPT ![j] = Cancelled(@)]
    /\ UNCHANGED <<order, at, live, proc, out, files, upload>>
RequestCancel(j) ==
    /\ Listed(j)
    /\ status' = [status EXCEPT ![j] = Cancelled(@)]
    /\ live' = [live EXCEPT ![j] = FALSE]
    /\ UNCHANGED <<order, at, proc, out, files, upload>>
-----------------------------------------------------------------------------
(* Storage Manager *)

\* O_CREATE | O_EXCL.
CreateUpload(u, n) ==
    /\ upload[u] = "idle" /\ ~Exists(n)
    /\ files' = [files EXCEPT ![n] = {u}]
    /\ upload' = [upload EXCEPT ![u] = "copying"]
    /\ out' = [out EXCEPT ![u] = n]
    /\ UNCHANGED jobVars

EndCopy(u) ==
    /\ upload[u] = "copying"
    /\ \E step \in {"stored", "failed"} : upload' = [upload EXCEPT ![u] = step]
    /\ UNCHANGED <<jobVars, out, files>>

\* os.Remove(path); it fails on a directory, which is not the upload's.
RemoveUpload(u) ==
    /\ upload[u] = "failed"
    /\ \/ files' = [files EXCEPT ![out[u]] = {}]
       \/ u \notin files[out[u]] /\ UNCHANGED files
    /\ upload' = [upload EXCEPT ![u] = "gone"]
    /\ UNCHANGED <<jobVars, out>>

DeleteFile(n) ==
    /\ Exists(n)
    /\ files' = [files EXCEPT ![n] = {}]
    /\ UNCHANGED <<jobVars, out, upload>>
-----------------------------------------------------------------------------
JobStep(j) ==
    \/ StartProcess(j) \/ StartFails(j) \/ Register(j)
    \/ SetOutcome(j) \/ RemoveOutput(j)

UploadStep(u) == EndCopy(u) \/ RemoveUpload(u)

Next ==
    \/ \E j \in Jobs : \/ CheckName(j) \/ JobStep(j)
                       \/ Open(j) \/ Exit(j) \/ Expire(j) \/ RequestCancel(j)
    \/ \E u \in Uploads : (\E n \in Names : CreateUpload(u, n)) \/ UploadStep(u)
    \/ \E n \in Names : DeleteFile(n)

Spec == Init /\ [][Next]_vars

\* Goroutines run, a killed process exits.
LiveSpec ==
    /\ Spec
    /\ \A j \in Jobs : WF_vars(JobStep(j)) /\ WF_vars(~live[j] /\ Exit(j))
-----------------------------------------------------------------------------
(* Properties *)

\* A job that runs can be found, and so cancelled, although finished jobs are
\* pruned from the list at every start (pruneJobsLocked stops at it).
RunningListed ==
    \A j \in Jobs : at[j] = "waiting" /\ status[j] = "running" => Listed(j)

\* When a job is over its status tells how the process ended, whatever the
\* order of a cancel and the exit; a dump that succeeded is never called
\* cancelled, and only a job that was asked to is (wait, requestCancel).
StatusTellsExit ==
    \A j \in Jobs : at[j] \in {"removing", "over"} =>
        /\ status[j] # "running"
        /\ status[j] = "done" <=> proc[j] = "ok"

\* "A failed or cancelled dump never leaves a partial file or directory
\* behind" (wait), nor does an upload that failed, although files come and
\* go under the same name meanwhile.
NoPartialLeft ==
    \A n \in Names :
      /\ \A j \in Jobs : at[j] = "over" /\ status[j] # "done" => j \notin files[n]
      /\ \A u \in Uploads : upload[u] = "gone" => u \notin files[n]

\* The end of a job is final: neither a late cancel nor another job's removal
\* changes it (requestCancel acts on a running job only).
KeepsEnds == \A j \in Jobs : at[j] = "over" => /\ at'[j] = "over"
                                              /\ status'[j] = status[j]
EndIsFinal == [][KeepsEnds]_vars

\* A job is over once and for all, and nothing of a dump that did not succeed
\* is stored then: JobLife is what a job looks like from its dialog.
Life == [j \in Jobs |-> CASE at[j] \in {"idle", "checked"} -> "none"
                          [] at[j] = "over" -> status[j]
                          [] OTHER -> "active"]
Stored == {j \in Jobs : \E n \in Names : j \in files[n]}

JL == INSTANCE JobLife WITH life <- Life, stored <- Stored
KeepsPromise == JL!Spec

\* A job that was cancelled, or is past its deadline, ends: its process is
\* killed and its output removed, so that it cannot be "running" for ever in
\* the list (requestCancel, backupTimeout, wait).
JobEnds ==
    \A j \in Jobs : status[j] = "cancelled" \/ ~live[j] ~> at[j] = "over"

\* backup.go: "Out is the file or directory a dump creates (removed again if
\* the job fails or is cancelled)": what a job removes is its own.
RemovesOwnOutput ==
    \A j \in Jobs : at[j] = "removing" => files[out[j]] \subseteq {j}
=============================================================================

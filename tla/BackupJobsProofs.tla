-------------------------- MODULE BackupJobsProofs --------------------------
(* Theorems about BackupJobs, and that it implements JobLife.               *)
EXTENDS BackupJobs, TLAPS, SequenceTheorems

\* How far a request, its process and its status go together.
Flow(j) ==
    /\ at[j] \in {"idle", "checked"} <=> proc[j] = "none"
    /\ at[j] \in {"idle", "checked", "started"} => status[j] = "running"
    /\ at[j] = "waiting" => status[j] \in {"running", "cancelled"}
    /\ at[j] \in {"removing", "over"} =>
         /\ Exited(j)
         /\ status[j] # "running"
         /\ status[j] = "done" <=> proc[j] = "ok"
    /\ proc[j] = "writing" \/ at[j] = "removing" => out[j] \in Names
    /\ at[j] = "removing" => status[j] # "done"

Flows == \A j \in Jobs : Flow(j)

\* Only registered jobs are listed.
OrderFlow ==
    \A i \in 1..Len(order) : at[order[i]] \in {"waiting", "removing", "over"}

\* A file has the output of writers that were given its name.
JobFiles ==
    \A j \in Jobs : \A n \in Names : j \in files[n] =>
        /\ out[j] = n
        /\ proc[j] \notin {"none", "starting"}
        /\ at[j] = "over" => status[j] = "done"
UploadFiles ==
    \A u \in Uploads :
        /\ upload[u] \in {"copying", "failed"} => out[u] \in Names
        /\ \A n \in Names : u \in files[n] => /\ out[u] = n
                                               /\ upload[u] \notin {"idle", "gone"}

OrderInv == OrderFlow /\ RunningListed
FilesInv == JobFiles /\ UploadFiles
IInv == TypeOK /\ Flows /\ OrderInv /\ FilesInv

USE DEF Writers, Steps, Statuses, Procs, UploadSteps
-----------------------------------------------------------------------------
(* Pruning drops no running job, and not the last one. *)
LEMMA RegisterList ==
  ASSUME TypeOK, NEW j \in Jobs, Register(j)
  PROVE  /\ order' \in Seq(Jobs)
         /\ \A i \in 1..Len(order') :
               order'[i] = j \/ \E k \in 1..Len(order) : order'[i] = order[k]
         /\ \A k \in 1..Len(order) : status[order[k]] = "running" =>
               \E i \in 1..Len(order') : order'[i] = order[k]
         /\ \E i \in 1..Len(order') : order'[i] = j
<1> DEFINE s == Append(order, j)
<1>1. PICK i \in 1..Len(s) : FirstKept(s, i) /\ order' = SubSeq(s, i, Len(s))
  BY DEF Register
<1>2. /\ order \in Seq(Jobs)
      /\ s \in Seq(Jobs)
      /\ Len(s) = Len(order) + 1
      /\ \A k \in 1..Len(order) : s[k] = order[k]
      /\ s[Len(s)] = j
      /\ Len(order) \in Nat
  BY AppendProperties, LenProperties DEF TypeOK
<1> HIDE DEF s
<1>3. \A k \in 1..Len(s) : s[k] \in Jobs
  BY <1>2, ElementOfSeq
<1>4. /\ order' \in Seq(Jobs)
      /\ Len(order') = Len(s) - i + 1
      /\ \A k \in 1..(Len(s) - i + 1) : order'[k] = s[i + k - 1]
  BY <1>1, <1>2, <1>3, SubSeqProperties
<1>5. \A k \in i..Len(s) : /\ k - i + 1 \in 1..Len(order')
                           /\ order'[k - i + 1] = s[k]
  BY <1>2, <1>4
<1>6. ASSUME NEW k \in 1..Len(order), status[order[k]] = "running"
      PROVE  \E m \in 1..Len(order') : order'[m] = order[k]
  <2>1. k \in i..Len(s)
    BY <1>1, <1>2, <1>6 DEF FirstKept, Keeps
  <2>. QED
    BY <2>1, <1>2, <1>5
<1>7. ASSUME NEW m \in 1..Len(order')
      PROVE  order'[m] = j \/ \E k \in 1..Len(order) : order'[m] = order[k]
  <2>1. i + m - 1 \in 1..Len(s) /\ order'[m] = s[i + m - 1]
    BY <1>2, <1>4
  <2>2. CASE i + m - 1 = Len(s)
    BY <2>1, <2>2, <1>2
  <2>3. CASE i + m - 1 # Len(s)
    BY <2>1, <2>3, <1>2, SMTT(30)
  <2>. QED
    BY <2>2, <2>3
<1>8. Len(s) \in i..Len(s)
  BY <1>2
<1>. QED
  BY <1>2, <1>4, <1>5, <1>6, <1>7, <1>8
-----------------------------------------------------------------------------
(* The steps keep the invariant. *)
LEMMA TypeStep ==
  ASSUME TypeOK, [Next]_vars
  PROVE  TypeOK'
<1>1. ASSUME NEW j \in Jobs, CheckName(j) PROVE TypeOK'
  BY <1>1 DEF CheckName, TypeOK
<1>2. ASSUME NEW j \in Jobs, StartProcess(j) PROVE TypeOK'
  BY <1>2 DEF StartProcess, TypeOK
<1>3. ASSUME NEW j \in Jobs, StartFails(j) PROVE TypeOK'
  BY <1>3 DEF StartFails, TypeOK
<1>4. ASSUME NEW j \in Jobs, Register(j) PROVE TypeOK'
  BY <1>4, RegisterList DEF Register, TypeOK
<1>5. ASSUME NEW j \in Jobs, SetOutcome(j) PROVE TypeOK'
  BY <1>5 DEF SetOutcome, Finished, Outcome, TypeOK
<1>6. ASSUME NEW j \in Jobs, RemoveOutput(j) PROVE TypeOK'
  BY <1>6 DEF RemoveOutput, TypeOK
<1>7. ASSUME NEW j \in Jobs, Open(j) PROVE TypeOK'
  BY <1>7 DEF Open, TypeOK
<1>8. ASSUME NEW j \in Jobs, Exit(j) PROVE TypeOK'
  BY <1>8 DEF Exit, TypeOK
<1>9. ASSUME NEW j \in Jobs, Expire(j) PROVE TypeOK'
  BY <1>9 DEF Expire, TypeOK
<1>10. ASSUME NEW j \in Jobs, RequestCancel(j) PROVE TypeOK'
  BY <1>10 DEF RequestCancel, Cancelled, TypeOK
<1>11. ASSUME NEW u \in Uploads, EndCopy(u) PROVE TypeOK'
  BY <1>11 DEF EndCopy, jobVars, TypeOK
<1>12. ASSUME NEW u \in Uploads, RemoveUpload(u) PROVE TypeOK'
  BY <1>12 DEF RemoveUpload, jobVars, TypeOK
<1>13. ASSUME NEW u \in Uploads, NEW n \in Names, CreateUpload(u, n) PROVE TypeOK'
  BY <1>13 DEF CreateUpload, jobVars, TypeOK
<1>14. ASSUME NEW n \in Names, DeleteFile(n) PROVE TypeOK'
  BY <1>14 DEF DeleteFile, jobVars, TypeOK
<1>15. CASE UNCHANGED vars
  BY <1>15 DEF vars, TypeOK
<1>. QED
  BY <1>1, <1>2, <1>3, <1>4, <1>5, <1>6, <1>7, <1>8, <1>9,
     <1>10, <1>11, <1>12, <1>13, <1>14, <1>15 DEF Next, JobStep, UploadStep

\* Every step leaves each job at a place that fits its status and process.
LEMMA FlowStep ==
  ASSUME TypeOK, ConstantsAssumption, Flows, OrderFlow, [Next]_vars
  PROVE  Flows'
<1>1. ASSUME NEW j \in Jobs, CheckName(j) PROVE Flows'
  BY <1>1 DEF CheckName, Flows, Flow, Exited, ConstantsAssumption, TypeOK
<1>2. ASSUME NEW j \in Jobs, StartProcess(j) PROVE Flows'
  BY <1>2 DEF StartProcess, Flows, Flow, Exited, ConstantsAssumption, TypeOK
<1>3. ASSUME NEW j \in Jobs, StartFails(j) PROVE Flows'
  BY <1>3 DEF StartFails, Flows, Flow, Exited, ConstantsAssumption, TypeOK
<1>4. ASSUME NEW j \in Jobs, Register(j) PROVE Flows'
  BY <1>4 DEF Register, Flows, Flow, Exited, ConstantsAssumption, TypeOK
<1>5. ASSUME NEW j \in Jobs, SetOutcome(j) PROVE Flows'
  BY <1>5 DEF SetOutcome, Finished, Outcome, MustRemove, Flows, Flow, Exited,
     TypeOK
<1>6. ASSUME NEW j \in Jobs, RemoveOutput(j) PROVE Flows'
  BY <1>6 DEF RemoveOutput, Flows, Flow, Exited, ConstantsAssumption, TypeOK
<1>7. ASSUME NEW j \in Jobs, Open(j) PROVE Flows'
  BY <1>7 DEF Open, Flows, Flow, Exited, ConstantsAssumption, TypeOK
<1>8. ASSUME NEW j \in Jobs, Exit(j) PROVE Flows'
  BY <1>8 DEF Exit, Flows, Flow, Exited, ConstantsAssumption, TypeOK
<1>9. ASSUME NEW j \in Jobs, Expire(j) PROVE Flows'
  BY <1>9 DEF Expire, Flows, Flow, Exited, ConstantsAssumption, TypeOK
<1>10. ASSUME NEW j \in Jobs, RequestCancel(j) PROVE Flows'
  <2>1. at[j] \in {"waiting", "removing", "over"}
    BY <1>10, LenProperties DEF RequestCancel, Listed, OrderFlow, TypeOK
  <2>. QED
    BY <1>10, <2>1 DEF RequestCancel, Cancelled, Flows, Flow, Exited, TypeOK
<1>11. ASSUME NEW u \in Uploads, EndCopy(u) PROVE Flows'
  BY <1>11 DEF EndCopy, jobVars, Flows, Flow, Exited, ConstantsAssumption,
     TypeOK
<1>12. ASSUME NEW u \in Uploads, RemoveUpload(u) PROVE Flows'
  BY <1>12 DEF RemoveUpload, jobVars, Flows, Flow, Exited,
     ConstantsAssumption, TypeOK
<1>13. ASSUME NEW u \in Uploads, NEW n \in Names, CreateUpload(u, n) PROVE Flows'
  BY <1>13 DEF CreateUpload, jobVars, Flows, Flow, Exited,
     ConstantsAssumption, TypeOK
<1>14. ASSUME NEW n \in Names, DeleteFile(n) PROVE Flows'
  BY <1>14 DEF DeleteFile, jobVars, Flows, Flow, Exited, ConstantsAssumption,
     TypeOK
<1>15. CASE UNCHANGED vars
  BY <1>15 DEF vars, Flows, Flow, Exited, ConstantsAssumption, TypeOK
<1>. QED
  BY <1>1, <1>2, <1>3, <1>4, <1>5, <1>6, <1>7, <1>8, <1>9,
     <1>10, <1>11, <1>12, <1>13, <1>14, <1>15 DEF Next, JobStep, UploadStep

\* Every step keeps running jobs on the list, and puts none there before it is
\* registered.
LEMMA OrderStep ==
  ASSUME TypeOK, Flows, OrderInv, [Next]_vars
  PROVE  OrderInv'
<1>1. ASSUME NEW j \in Jobs, CheckName(j) PROVE OrderInv'
  BY <1>1, ElementOfSeq, LenProperties DEF CheckName, OrderInv, OrderFlow,
     RunningListed, Listed, Flows, Flow, Exited, TypeOK
<1>2. ASSUME NEW j \in Jobs, StartProcess(j) PROVE OrderInv'
  BY <1>2, ElementOfSeq, LenProperties DEF StartProcess, OrderInv, OrderFlow,
     RunningListed, Listed, Flows, Flow, Exited, TypeOK
<1>3. ASSUME NEW j \in Jobs, StartFails(j) PROVE OrderInv'
  BY <1>3, ElementOfSeq, LenProperties DEF StartFails, OrderInv, OrderFlow,
     RunningListed, Listed, Flows, Flow, Exited, TypeOK
<1>4. ASSUME NEW j \in Jobs, Register(j) PROVE OrderInv'
  <2>1. /\ at' = [at EXCEPT ![j] = "waiting"]
        /\ status' = status
        /\ \A i \in 1..Len(order) : order[i] \in Jobs
        /\ \A i \in 1..Len(order') : order'[i] \in Jobs
        /\ DOMAIN order = 1..Len(order) /\ DOMAIN order' = 1..Len(order')
    BY <1>4, RegisterList, ElementOfSeq, LenProperties DEF Register, TypeOK
  <2>2. OrderFlow'
    BY <1>4, <2>1, RegisterList DEF OrderInv, OrderFlow, TypeOK
  <2>3. RunningListed'
    <3>1. SUFFICES ASSUME NEW m \in Jobs, at'[m] = "waiting", status[m] = "running"
                   PROVE  \E i \in 1..Len(order') : order'[i] = m
      BY <2>1 DEF RunningListed, Listed
    <3>2. CASE m = j
      BY <3>2, <1>4, RegisterList
    <3>3. CASE m # j
      <4>1. at[m] = "waiting"
        BY <3>1, <3>3, <2>1 DEF TypeOK
      <4>2. PICK k \in 1..Len(order) : order[k] = m
        BY <4>1, <3>1, <2>1 DEF OrderInv, RunningListed, Listed
      <4>. QED
        BY <4>2, <3>1, <1>4, RegisterList
    <3>. QED
      BY <3>2, <3>3
  <2>. QED
    BY <2>2, <2>3 DEF OrderInv
<1>5. ASSUME NEW j \in Jobs, SetOutcome(j) PROVE OrderInv'
  BY <1>5, ElementOfSeq, LenProperties DEF SetOutcome, Finished, Outcome,
     OrderInv, OrderFlow, RunningListed, Listed, Flows, Flow, Exited, TypeOK
<1>6. ASSUME NEW j \in Jobs, RemoveOutput(j) PROVE OrderInv'
  BY <1>6, ElementOfSeq, LenProperties DEF RemoveOutput, OrderInv, OrderFlow,
     RunningListed, Listed, Flows, Flow, Exited, TypeOK
<1>7. ASSUME NEW j \in Jobs, Open(j) PROVE OrderInv'
  BY <1>7, ElementOfSeq, LenProperties DEF Open, OrderInv, OrderFlow,
     RunningListed, Listed, Flows, Flow, Exited, TypeOK
<1>8. ASSUME NEW j \in Jobs, Exit(j) PROVE OrderInv'
  BY <1>8, ElementOfSeq, LenProperties DEF Exit, OrderInv, OrderFlow,
     RunningListed, Listed, Flows, Flow, Exited, TypeOK
<1>9. ASSUME NEW j \in Jobs, Expire(j) PROVE OrderInv'
  BY <1>9, ElementOfSeq, LenProperties DEF Expire, OrderInv, OrderFlow,
     RunningListed, Listed, Flows, Flow, Exited, TypeOK
<1>10. ASSUME NEW j \in Jobs, RequestCancel(j) PROVE OrderInv'
  BY <1>10, ElementOfSeq, LenProperties DEF RequestCancel, Cancelled,
     OrderInv, OrderFlow, RunningListed, Listed, TypeOK
<1>11. ASSUME NEW u \in Uploads, EndCopy(u) PROVE OrderInv'
  BY <1>11, ElementOfSeq, LenProperties DEF EndCopy, jobVars, OrderInv,
     OrderFlow, RunningListed, Listed, Flows, Flow, Exited, TypeOK
<1>12. ASSUME NEW u \in Uploads, RemoveUpload(u) PROVE OrderInv'
  BY <1>12, ElementOfSeq, LenProperties DEF RemoveUpload, jobVars, OrderInv,
     OrderFlow, RunningListed, Listed, Flows, Flow, Exited, TypeOK
<1>13. ASSUME NEW u \in Uploads, NEW n \in Names, CreateUpload(u, n) PROVE OrderInv'
  BY <1>13, ElementOfSeq, LenProperties DEF CreateUpload, jobVars, OrderInv,
     OrderFlow, RunningListed, Listed, Flows, Flow, Exited, TypeOK
<1>14. ASSUME NEW n \in Names, DeleteFile(n) PROVE OrderInv'
  BY <1>14, ElementOfSeq, LenProperties DEF DeleteFile, jobVars, OrderInv,
     OrderFlow, RunningListed, Listed, Flows, Flow, Exited, TypeOK
<1>15. CASE UNCHANGED vars
  BY <1>15 DEF vars, OrderInv, OrderFlow, RunningListed, Listed, Flows, Flow,
     Exited, TypeOK
<1>. QED
  BY <1>1, <1>2, <1>3, <1>4, <1>5, <1>6, <1>7, <1>8, <1>9,
     <1>10, <1>11, <1>12, <1>13, <1>14, <1>15 DEF Next, JobStep, UploadStep

\* Every step leaves a file only output of writers that were given its name.
LEMMA FilesStep ==
  ASSUME TypeOK, ConstantsAssumption, Flows, FilesInv, [Next]_vars
  PROVE  FilesInv'
<1>1. ASSUME NEW j \in Jobs, CheckName(j) PROVE FilesInv'
  <2>1. /\ \A n \in Names : j \notin files[n]
        /\ \A w \in Writers : w # j => out'[w] = out[w]
        /\ UNCHANGED <<files, proc, status, upload>>
        /\ at' = [at EXCEPT ![j] = "checked"]
    BY <1>1 DEF CheckName, FilesInv, JobFiles, Flows, Flow, TypeOK
  <2>2. JobFiles'
    BY <2>1 DEF FilesInv, JobFiles, TypeOK
  <2>3. UploadFiles'
    BY <2>1, j \notin Uploads DEF FilesInv, UploadFiles, ConstantsAssumption,
       TypeOK
  <2>. QED
    BY <2>2, <2>3 DEF FilesInv
<1>2. ASSUME NEW j \in Jobs, StartProcess(j) PROVE FilesInv'
  BY <1>2 DEF StartProcess, FilesInv, JobFiles, UploadFiles, Exists, Flows,
     Flow, Exited, ConstantsAssumption, TypeOK
<1>3. ASSUME NEW j \in Jobs, StartFails(j) PROVE FilesInv'
  BY <1>3 DEF StartFails, FilesInv, JobFiles, UploadFiles, Exists, Flows,
     Flow, Exited, ConstantsAssumption, TypeOK
<1>4. ASSUME NEW j \in Jobs, Register(j) PROVE FilesInv'
  BY <1>4 DEF Register, FilesInv, JobFiles, UploadFiles, Exists, Flows, Flow,
     Exited, ConstantsAssumption, TypeOK
<1>5. ASSUME NEW j \in Jobs, SetOutcome(j) PROVE FilesInv'
  BY <1>5 DEF SetOutcome, Finished, Outcome, MustRemove, FilesInv, JobFiles,
     UploadFiles, Flows, Flow, Exited, ConstantsAssumption, TypeOK
<1>6. ASSUME NEW j \in Jobs, RemoveOutput(j) PROVE FilesInv'
  BY <1>6 DEF RemoveOutput, FilesInv, JobFiles, UploadFiles, Exists, Flows,
     Flow, Exited, ConstantsAssumption, TypeOK
<1>7. ASSUME NEW j \in Jobs, Open(j) PROVE FilesInv'
  BY <1>7 DEF Open, Writing, FilesInv, JobFiles, UploadFiles, Flows, Flow,
     Exited, ConstantsAssumption, TypeOK
<1>8. ASSUME NEW j \in Jobs, Exit(j) PROVE FilesInv'
  BY <1>8 DEF Exit, FilesInv, JobFiles, UploadFiles, Exists, Flows, Flow,
     Exited, ConstantsAssumption, TypeOK
<1>9. ASSUME NEW j \in Jobs, Expire(j) PROVE FilesInv'
  BY <1>9 DEF Expire, FilesInv, JobFiles, UploadFiles, Exists, Flows, Flow,
     Exited, ConstantsAssumption, TypeOK
<1>10. ASSUME NEW j \in Jobs, RequestCancel(j) PROVE FilesInv'
  BY <1>10 DEF RequestCancel, Cancelled, FilesInv, JobFiles, UploadFiles,
     Flows, Flow, ConstantsAssumption, TypeOK
<1>11. ASSUME NEW u \in Uploads, EndCopy(u) PROVE FilesInv'
  BY <1>11 DEF EndCopy, jobVars, FilesInv, JobFiles, UploadFiles, Exists,
     Flows, Flow, Exited, ConstantsAssumption, TypeOK
<1>12. ASSUME NEW u \in Uploads, RemoveUpload(u) PROVE FilesInv'
  BY <1>12 DEF RemoveUpload, jobVars, FilesInv, JobFiles, UploadFiles,
     Exists, Flows, Flow, Exited, ConstantsAssumption, TypeOK
<1>13. ASSUME NEW u \in Uploads, NEW n \in Names, CreateUpload(u, n) PROVE FilesInv'
  BY <1>13 DEF CreateUpload, jobVars, FilesInv, JobFiles, UploadFiles,
     Exists, Flows, Flow, Exited, ConstantsAssumption, TypeOK
<1>14. ASSUME NEW n \in Names, DeleteFile(n) PROVE FilesInv'
  BY <1>14 DEF DeleteFile, jobVars, FilesInv, JobFiles, UploadFiles, Exists,
     Flows, Flow, Exited, ConstantsAssumption, TypeOK
<1>15. CASE UNCHANGED vars
  BY <1>15 DEF vars, FilesInv, JobFiles, UploadFiles, Exists, Flows, Flow,
     Exited, ConstantsAssumption, TypeOK
<1>. QED
  BY <1>1, <1>2, <1>3, <1>4, <1>5, <1>6, <1>7, <1>8, <1>9,
     <1>10, <1>11, <1>12, <1>13, <1>14, <1>15 DEF Next, JobStep, UploadStep

\* The inductive invariant of the jobs holds throughout.
LEMMA Inductive == Spec => []IInv
<1>1. Init => IInv
  BY DEF Init, IInv, Flows, Flow, Exited, OrderInv, OrderFlow, RunningListed,
         FilesInv, JobFiles, UploadFiles, ConstantsAssumption, TypeOK
<1>2. IInv /\ [Next]_vars => IInv'
  BY TypeStep, FlowStep, OrderStep, FilesStep, ConstantsAssumption
     DEF IInv, OrderInv
<1>. QED
  BY <1>1, <1>2, PTL DEF Spec
-----------------------------------------------------------------------------
\* Every variable keeps its type.
THEOREM TypeCorrect == Spec => []TypeOK
  BY Inductive, PTL DEF IInv

\* Whatever the length of the list and the number of jobs, a running job is
\* never pruned, so it can always be cancelled (pruneJobsLocked).
THEOREM RunningJobsListed == Spec => []RunningListed
  BY Inductive, PTL DEF IInv, OrderInv

\* The status of a job that is over is that of its process (wait).
THEOREM StatusIsExit == Spec => []StatusTellsExit
<1>1. IInv => StatusTellsExit
  BY DEF IInv, Flows, Flow, StatusTellsExit
<1>. QED
  BY Inductive, <1>1, PTL

\* Nothing is left of a dump or an upload that failed (wait,
\* handleStorageUpload), for any number of jobs, names and uploads.
THEOREM NothingLeft == Spec => []NoPartialLeft
<1>1. IInv => NoPartialLeft
  BY DEF IInv, FilesInv, JobFiles, UploadFiles, NoPartialLeft
<1>. QED
  BY Inductive, <1>1, PTL

\* The end of a job is final (requestCancel, wait).
THEOREM EndsAreFinal == Spec => EndIsFinal
<1>1. ASSUME IInv, [Next]_vars, NEW m \in Jobs, at[m] = "over"
      PROVE  at'[m] = "over" /\ status'[m] = status[m]
  <2>. USE DEF TypeOK
  <2>1. Exited(m) /\ status[m] # "running" /\ TypeOK
    BY <1>1 DEF IInv, Flows, Flow
  <2>2. ASSUME NEW j \in Jobs, CheckName(j) \/ JobStep(j)
        PROVE  at'[m] = "over" /\ status'[m] = status[m]
    BY <1>1, <2>1, <2>2 DEF CheckName, JobStep, StartProcess, StartFails, Register,
       SetOutcome, Finished, RemoveOutput
  <2>3. ASSUME NEW j \in Jobs,
               Open(j) \/ Exit(j) \/ Expire(j) \/ RequestCancel(j)
        PROVE  at'[m] = "over" /\ status'[m] = status[m]
    BY <1>1, <2>1, <2>3 DEF Open, Exit, Expire, RequestCancel, Cancelled
  <2>4. ASSUME UNCHANGED jobVars PROVE at'[m] = "over" /\ status'[m] = status[m]
    BY <1>1, <2>4 DEF jobVars
  <2>. QED
    BY <1>1, <2>2, <2>3, <2>4 DEF Next, UploadStep, CreateUpload, EndCopy,
       RemoveUpload, DeleteFile, vars, jobVars
<1>2. IInv /\ [Next]_vars => [KeepsEnds]_vars
  BY <1>1 DEF KeepsEnds
<1>. QED
  BY Inductive, <1>2, PTL DEF Spec, EndIsFinal
-----------------------------------------------------------------------------
(* BackupJobs implements JobLife. *)

\* A step that only makes output disappear.
LEMMA OnlyVanishes ==
  ASSUME Life' = Life, Stored' \subseteq Stored
  PROVE  JL!Next
<1>1. JL!Vanish(Stored \ Stored')
  BY DEF JL!Vanish
<1>2. Stored \ Stored' \in SUBSET Jobs
  BY DEF Stored
<1>. QED
  BY <1>1, <1>2 DEF JL!Next

\* Every step is a step of JobLife, or leaves life and output as they are.
LEMMA LifeStep ==
  ASSUME IInv, [Next]_vars
  PROVE  [JL!Next]_JL!vars
<1>. USE DEF IInv, TypeOK
<1>. DEFINE Same == Life' = Life /\ Stored' = Stored
<1>1. ASSUME Same PROVE UNCHANGED JL!vars
  BY <1>1 DEF JL!vars
<1>2. ASSUME UNCHANGED files PROVE Stored' = Stored
  BY <1>2 DEF Stored
<1>3. ASSUME UNCHANGED <<at, status>> PROVE Life' = Life
  BY <1>3 DEF Life
<1>4. ASSUME NEW j \in Jobs,
             CheckName(j) \/ StartFails(j) \/ Register(j) \/ Exit(j) \/ Expire(j)
      PROVE  Same
  BY <1>4, <1>2 DEF CheckName, StartFails, Register, Exit, Expire, Life
<1>5. ASSUME NEW j \in Jobs, RequestCancel(j) PROVE Same
  BY <1>5, <1>2 DEF RequestCancel, Cancelled, Life, Flows, Flow
<1>6. ASSUME NEW j \in Jobs, StartProcess(j) PROVE JL!Begin(j)
  BY <1>6, <1>2 DEF StartProcess, JL!Begin, Life
<1>7. ASSUME NEW j \in Jobs, Open(j) PROVE JL!Write(j, Stored \ Stored')
  <2>1. Life' = Life /\ Life[j] = "active"
    BY <1>7, <1>3 DEF Open, Life, Flows, Flow, Exited
  <2>2. Stored' \subseteq Stored \cup {j} /\ j \in Stored'
    BY <1>7 DEF Open, Stored
  <2>. QED
    BY <2>1, <2>2 DEF JL!Write
<1>8. ASSUME NEW j \in Jobs, SetOutcome(j)
      PROVE  Same \/ JL!End(j, Outcome(j), {})
  <2>1. Stored' = Stored /\ Life[j] = "active"
    BY <1>8, <1>2 DEF SetOutcome, Finished, Life
  <2>2. CASE MustRemove(j)
    BY <1>8, <2>1, <2>2 DEF SetOutcome, Finished, Life
  <2>3. CASE ~MustRemove(j)
    <3>1. Life' = [Life EXCEPT ![j] = Outcome(j)]
      BY <1>8, <2>3 DEF SetOutcome, Finished, Life
    <3>2. Outcome(j) # "done" => j \notin Stored
      BY <2>3, ConstantsAssumption DEF MustRemove, Stored, FilesInv, JobFiles,
         ConstantsAssumption
    <3>. QED
      BY <2>1, <3>1, <3>2 DEF JL!End
  <2>. QED
    BY <2>2, <2>3
<1>9. ASSUME NEW j \in Jobs, RemoveOutput(j)
      PROVE  JL!End(j, status[j], Stored \ Stored') /\ status[j] \in JL!Outcomes
  <2>1. /\ Life[j] = "active"
        /\ Life' = [Life EXCEPT ![j] = status[j]]
    BY <1>9 DEF RemoveOutput, Life
  <2>2. Stored' \subseteq Stored /\ j \notin Stored'
    BY <1>9 DEF RemoveOutput, Stored, FilesInv, JobFiles, Flows, Flow
  <2>3. status[j] \in JL!Outcomes
    BY <1>9 DEF RemoveOutput, JL!Outcomes, Flows, Flow
  <2>. QED
    BY <2>1, <2>2, <2>3 DEF JL!End
<1>10. ASSUME NEW u \in Uploads, NEW n \in Names, CreateUpload(u, n) PROVE Same
  <2>1. UNCHANGED <<at, status>> /\ files[n] = {} /\ u \notin Jobs
        /\ files' = [files EXCEPT ![n] = {u}]
    BY <1>10, ConstantsAssumption
       DEF CreateUpload, Exists, jobVars, ConstantsAssumption
  <2>. QED
    BY <2>1, <1>3 DEF Stored
<1>11. ASSUME NEW u \in Uploads, EndCopy(u) PROVE Same
  BY <1>11, <1>2, <1>3 DEF EndCopy, jobVars
<1>12. ASSUME NEW u \in Uploads, RemoveUpload(u)
       PROVE  Life' = Life /\ Stored' \subseteq Stored
  BY <1>12, <1>3 DEF RemoveUpload, jobVars, Stored, FilesInv, UploadFiles
<1>13. ASSUME NEW n \in Names, DeleteFile(n)
       PROVE  Life' = Life /\ Stored' \subseteq Stored
  BY <1>13, <1>3 DEF DeleteFile, jobVars, Stored
<1>14. ASSUME UNCHANGED vars PROVE Same
  BY <1>14, <1>2, <1>3 DEF vars
<1>15. /\ {} \in SUBSET Jobs
       /\ Stored \ Stored' \in SUBSET Jobs
       /\ \A j \in Jobs : Outcome(j) \in JL!Outcomes
  BY DEF Stored, Outcome, JL!Outcomes
<1>. HIDE DEF Same, IInv, TypeOK
<1>. QED
  BY <1>1, <1>4, <1>5, <1>6, <1>7, <1>8, <1>9, <1>10, <1>11, <1>12, <1>13,
     <1>14, <1>15, OnlyVanishes DEF Next, JobStep, UploadStep, JL!Next

\* A job is over once and for all, and nothing is left of a dump that did not
\* succeed: jobs, processes and storage together implement JobLife, for any
\* number of each.
THEOREM ImplementsJobLife == Spec => KeepsPromise
<1>1. Init => JL!Init
  BY DEF Init, JL!Init, Life, Stored
<1>2. IInv /\ [Next]_vars => [JL!Next]_JL!vars
  BY LifeStep
<1>. QED
  BY <1>1, <1>2, Inductive, PTL DEF Spec, JL!Spec, KeepsPromise
=============================================================================

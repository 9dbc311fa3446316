-------------------------- MODULE ConfigDeployProofs --------------------------
(***************************************************************************)
(* Configuration deployment for any number of calls, processes, versions,  *)
(* files and faults.                                                       *)
(*                                                                         *)
(* FilesInv: until two calls share a temporary file, the target is durable *)
(* and whole, no temporary name refers to it, and a writer's file is its   *)
(* own and holds what its step says.  ScopesInv: each scope has one        *)
(* version on record.  RecordInv: while calls do not overlap or end early, *)
(* the latest version on record is what the target holds, or what the one  *)
(* call in flight can put back, until a failed reload puts nothing back.   *)
(***************************************************************************)
EXTENDS ConfigDeploy, TLAPS

DeploySteps == {"idle", "read", "open", "write", "sync", "rename", "syncDirectory", "reload",
                "mark"}

\* The types the proofs need.
DeployTypes ==
  /\ verStatus \in [Versions -> {"approved", "deployed", "superseded"}]
  /\ targetFile \in 0..MaxInode /\ targetOnDisk \in 0..MaxInode
  /\ tempFile \in [Pids -> 0..MaxInode]
  /\ content \in [Inodes -> 0..(MaxVersion + 1)]
  /\ synced \in SUBSET Inodes
  /\ deployPc \in [Deployers -> DeploySteps]
  /\ pid \in [Deployers -> Pids]
  /\ want \in [Deployers -> 0..(MaxVersion + 1)]
  /\ prev \in [Deployers -> 0..(MaxVersion + 1)]
  /\ handle \in [Deployers -> 0..MaxInode]
  /\ back \in [Deployers -> BOOLEAN]
  /\ clash \in BOOLEAN /\ overlapped \in BOOLEAN /\ broken \in BOOLEAN

\* A writer has its file, and it is not a stray one.
HandleTypes == \A d \in Deployers : deployPc[d] \in {"write", "sync"} => handle[d] \in Inodes

\* The first deployment, or one that was made before.
LEMMA InitDeployTypes == DeployInit => DeployTypes /\ HandleTypes
<1> SUFFICES ASSUME DeployInit PROVE DeployTypes /\ HandleTypes
  OBVIOUS
<1>1. targetFile \in 0..MaxInode /\ targetOnDisk \in 0..MaxInode /\ synced \in SUBSET Inodes
  BY DeployBounds DEF DeployInit, Inodes
<1>2. content \in [Inodes -> 0..(MaxVersion + 1)]
  BY DeployBounds DEF DeployInit, Blank
<1>3. verStatus \in [Versions -> {"approved", "deployed", "superseded"}]
  BY DEF DeployInit
<1>4. back \in [Deployers -> BOOLEAN] /\ clash \in BOOLEAN /\ overlapped \in BOOLEAN
      /\ broken \in BOOLEAN
  BY DEF DeployInit
<1>5. /\ tempFile \in [Pids -> 0..MaxInode] /\ pid \in [Deployers -> Pids]
      /\ want \in [Deployers -> 0..(MaxVersion + 1)] /\ prev \in [Deployers -> 0..(MaxVersion + 1)]
      /\ handle \in [Deployers -> 0..MaxInode]
  BY DeployBounds DEF DeployInit
<1>6. deployPc \in [Deployers -> DeploySteps] /\ HandleTypes
  BY DEF DeployInit, DeploySteps, HandleTypes
<1> QED
  BY <1>1, <1>2, <1>3, <1>4, <1>5, <1>6 DEF DeployTypes

\* Every step keeps the types.
LEMMA NextDeployTypes ==
  ASSUME DeployTypes, HandleTypes, [DeployNext]_deployVars
  PROVE  DeployTypes' /\ HandleTypes'
<1> DEFINE Goal == DeployTypes' /\ HandleTypes'
<1>0. MaxVersion \in Nat /\ MaxInode \in Nat
  BY DeployBounds
<1>1. ASSUME NEW d \in Deployers, EndCallOf(d), UNCHANGED <<fileVars, clash, overlapped>>,
             verStatus' \in [Versions -> {"approved", "deployed", "superseded"}],
             broken' \in BOOLEAN
      PROVE  Goal
  <2>1. /\ deployPc' \in [Deployers -> DeploySteps]
        /\ want' \in [Deployers -> 0..(MaxVersion + 1)]
        /\ prev' \in [Deployers -> 0..(MaxVersion + 1)]
        /\ handle' \in [Deployers -> 0..MaxInode]
    BY <1>0, <1>1 DEF EndCallOf, DeployTypes, DeploySteps
  <2>2. back' \in [Deployers -> BOOLEAN]
    BY <1>1 DEF EndCallOf, DeployTypes
  <2>3. HandleTypes'
    BY <1>1 DEF EndCallOf, DeployTypes, HandleTypes
  <2> QED
    BY <1>1, <2>1, <2>2, <2>3 DEF EndCallOf, fileVars, DeployTypes
<1>2. ASSUME NEW d \in Deployers, NEW v \in Versions, StartDeploy(d, v) PROVE Goal
  <2>1. want' \in [Deployers -> 0..(MaxVersion + 1)] /\ deployPc' \in [Deployers -> DeploySteps]
    BY <1>0, <1>2 DEF StartDeploy, DeployGoes, DeployTypes, DeploySteps, Versions
  <2>2. overlapped' \in BOOLEAN
    BY <1>2 DEF StartDeploy
  <2>3. HandleTypes'
    BY <1>2 DEF StartDeploy, DeployGoes, DeployTypes, HandleTypes
  <2> QED
    BY <1>2, <2>1, <2>2, <2>3 DEF StartDeploy, Record, fileVars, DeployTypes
<1>3. ASSUME NEW d \in Deployers, ReadPrevious(d) PROVE Goal
  <2>1. targetFile # 0 => content[targetFile] \in 0..(MaxVersion + 1)
    BY <1>0 DEF DeployTypes, Inodes
  <2>2. prev' \in [Deployers -> 0..(MaxVersion + 1)] /\ deployPc' \in [Deployers -> DeploySteps]
    BY <1>0, <1>3, <2>1 DEF ReadPrevious, DeployGoes, DeployTypes, DeploySteps
  <2>3. HandleTypes'
    BY <1>3 DEF ReadPrevious, DeployGoes, DeployTypes, HandleTypes
  <2> QED
    BY <1>3, <2>2, <2>3 DEF ReadPrevious, fileVars, History, Record, DeployTypes
<1>4. ASSUME NEW d \in Deployers, OpenTemporary(d) PROVE Goal
  <2>1. PICK i \in Inodes :
          /\ tempFile' = [tempFile EXCEPT ![pid[d]] = i]
          /\ content' = [content EXCEPT ![i] = Blank]
          /\ synced' = synced \ {i}
          /\ handle' = [handle EXCEPT ![d] = i]
    BY <1>4 DEF OpenTemporary
  <2>2. i \in 0..MaxInode /\ pid[d] \in Pids
    BY <1>0 DEF Inodes, DeployTypes
  <2>3. /\ tempFile' \in [Pids -> 0..MaxInode] /\ handle' \in [Deployers -> 0..MaxInode]
        /\ synced' \in SUBSET Inodes
    BY <2>1, <2>2 DEF DeployTypes
  <2>4. content' \in [Inodes -> 0..(MaxVersion + 1)]
    BY <1>0, <2>1 DEF Blank, DeployTypes
  <2>5. deployPc' \in [Deployers -> DeploySteps] /\ HandleTypes'
    BY <1>4, <2>1 DEF OpenTemporary, DeployGoes, DeployTypes, DeploySteps, HandleTypes
  <2>6. clash' \in BOOLEAN
    BY <1>4 DEF OpenTemporary
  <2> QED
    BY <1>4, <2>3, <2>4, <2>5, <2>6 DEF OpenTemporary, Record, DeployTypes
<1>5. ASSUME NEW d \in Deployers, WriteTemporary(d) PROVE Goal
  <2>1. PICK c \in {want[d], Mixed} : content' = [content EXCEPT ![handle[d]] = c]
    BY <1>5 DEF WriteTemporary
  <2>2. c \in 0..(MaxVersion + 1)
    BY <1>0 DEF Mixed, DeployTypes
  <2>3. content' \in [Inodes -> 0..(MaxVersion + 1)]
    BY <2>1, <2>2 DEF DeployTypes
  <2>4. deployPc' \in [Deployers -> DeploySteps] /\ HandleTypes'
    BY <1>5 DEF WriteTemporary, DeployGoes, DeployTypes, DeploySteps, HandleTypes, localVars
  <2> QED
    BY <1>5, <2>3, <2>4 DEF WriteTemporary, localVars, History, Record, DeployTypes
<1>6. ASSUME NEW d \in Deployers, SyncTemporary(d) PROVE Goal
  <2>1. handle[d] \in Inodes
    BY <1>6 DEF SyncTemporary, DeployGoes, HandleTypes
  <2>2. synced' \in SUBSET Inodes /\ handle' \in [Deployers -> 0..MaxInode]
    BY <1>0, <1>6, <2>1 DEF SyncTemporary, SyncFile, DeployTypes
  <2>3. deployPc' \in [Deployers -> DeploySteps] /\ HandleTypes'
    BY <1>6 DEF SyncTemporary, DeployGoes, DeployTypes, DeploySteps, HandleTypes
  <2> QED
    BY <1>6, <2>2, <2>3 DEF SyncTemporary, History, Record, DeployTypes
<1>7. ASSUME NEW d \in Deployers, Rename(d) PROVE Goal
  <2>1. CASE tempFile[pid[d]] # 0
    <3>1. /\ deployPc' = [deployPc EXCEPT ![d] = "syncDirectory"]
          /\ targetFile' = tempFile[pid[d]] /\ tempFile' = [tempFile EXCEPT ![pid[d]] = 0]
          /\ UNCHANGED localVars
      BY <1>7, <2>1 DEF Rename, DeployGoes
    <3>2. targetFile' \in 0..MaxInode /\ tempFile' \in [Pids -> 0..MaxInode]
      BY <1>0, <3>1 DEF DeployTypes
    <3>3. deployPc' \in [Deployers -> DeploySteps] /\ HandleTypes'
      BY <3>1 DEF DeployTypes, DeploySteps, HandleTypes, localVars
    <3> QED
      BY <1>7, <3>1, <3>2, <3>3 DEF Rename, localVars, History, Record, DeployTypes
  <2>2. CASE tempFile[pid[d]] = 0
    BY <1>1, <1>7, <2>2 DEF Rename, History, Record, fileVars, DeployTypes
  <2> QED
    BY <2>1, <2>2
<1>8. ASSUME NEW d \in Deployers, SyncDirectory(d) PROVE Goal
  <2>1. targetOnDisk' \in 0..MaxInode
    BY <1>8 DEF SyncDirectory, DeployTypes
  <2>2. deployPc' \in [Deployers -> DeploySteps] /\ HandleTypes'
    BY <1>8 DEF SyncDirectory, DeployGoes, DeployTypes, DeploySteps, HandleTypes, localVars
  <2> QED
    BY <1>8, <2>1, <2>2 DEF SyncDirectory, localVars, History, Record, DeployTypes
<1>9. ASSUME NEW d \in Deployers, ReloadSucceeds(d) PROVE Goal
  <2>1. deployPc' \in [Deployers -> DeploySteps] /\ HandleTypes'
    BY <1>9 DEF ReloadSucceeds, DeployGoes, DeployTypes, DeploySteps, HandleTypes, localVars
  <2> QED
    BY <1>9, <2>1 DEF ReloadSucceeds, fileVars, localVars, History, Record, DeployTypes
<1>10. ASSUME NEW d \in Deployers, ReloadFails(d) PROVE Goal
  <2>1. CASE prev[d] # 0
    <3>1. /\ deployPc' = [deployPc EXCEPT ![d] = "open"] /\ want' = [want EXCEPT ![d] = prev[d]]
          /\ back' = [back EXCEPT ![d] = TRUE] /\ UNCHANGED <<pid, prev, handle>>
      BY <1>10, <2>1 DEF ReloadFails, DeployGoes
    <3>2. want' \in [Deployers -> 0..(MaxVersion + 1)]
      BY <3>1 DEF DeployTypes
    <3>3. back' \in [Deployers -> BOOLEAN]
      BY <3>1 DEF DeployTypes
    <3>4. deployPc' \in [Deployers -> DeploySteps] /\ HandleTypes'
      BY <3>1 DEF DeployTypes, DeploySteps, HandleTypes
    <3> QED
      BY <1>10, <3>1, <3>2, <3>3, <3>4 DEF ReloadFails, fileVars, History, Record, DeployTypes
  <2>2. CASE prev[d] = 0
    BY <1>1, <1>10, <2>2 DEF ReloadFails, History, Record, DeployTypes
  <2> QED
    BY <2>1, <2>2
<1>11. ASSUME NEW d \in Deployers, RolledBack(d) PROVE Goal
  BY <1>1, <1>11 DEF RolledBack, History, Record, DeployTypes
<1>12. ASSUME NEW d \in Deployers, MarkDeployed(d) PROVE Goal
  <2>1. verStatus' \in [Versions -> {"approved", "deployed", "superseded"}]
    BY <1>12 DEF MarkDeployed, Record, DeployTypes
  <2> QED
    BY <1>1, <1>12, <2>1 DEF MarkDeployed, History, Record, DeployTypes
<1>13. ASSUME NEW d \in Deployers, DeployBreaks(d) PROVE Goal
  BY <1>1, <1>13 DEF DeployBreaks, Record, DeployTypes
<1>14. ASSUME PowerLoss PROVE Goal
  <2>1. /\ deployPc' \in [Deployers -> DeploySteps]
        /\ want' \in [Deployers -> 0..(MaxVersion + 1)]
        /\ prev' \in [Deployers -> 0..(MaxVersion + 1)]
        /\ handle' \in [Deployers -> 0..MaxInode]
    BY <1>0, <1>14 DEF PowerLoss, DeploySteps
  <2>2. back' \in [Deployers -> BOOLEAN] /\ broken' \in BOOLEAN
    BY <1>14 DEF PowerLoss
  <2>3. targetFile' \in 0..MaxInode /\ targetOnDisk' \in 0..MaxInode /\ synced' \in SUBSET Inodes
    BY <1>14 DEF PowerLoss, DeployTypes
  <2>4. content' \in [Inodes -> 0..(MaxVersion + 1)]
    BY <1>0, <1>14 DEF PowerLoss, Mixed, DeployTypes
  <2>5. HandleTypes'
    BY <1>14 DEF PowerLoss, HandleTypes
  <2> QED
    BY <1>14, <2>1, <2>2, <2>3, <2>4, <2>5 DEF PowerLoss, Record, DeployTypes
<1>15. ASSUME UNCHANGED deployVars PROVE Goal
  BY <1>15 DEF deployVars, fileVars, localVars, DeployTypes, HandleTypes
<1>16. ASSUME NEW d \in Deployers, ReadFails(d) PROVE Goal
  <2>1. prev' \in [Deployers -> 0..(MaxVersion + 1)] /\ deployPc' \in [Deployers -> DeploySteps]
    BY <1>0, <1>16 DEF ReadFails, DeployGoes, DeployTypes, DeploySteps
  <2>2. HandleTypes'
    BY <1>16 DEF ReadFails, DeployGoes, DeployTypes, HandleTypes
  <2> QED
    BY <1>16, <2>1, <2>2 DEF ReadFails, Record, fileVars, DeployTypes
<1>17. Goal
  <2> HIDE DEF Goal
  <2> QED
    BY <1>2, <1>3, <1>4, <1>5, <1>6, <1>7, <1>8, <1>9, <1>10, <1>11, <1>12, <1>13, <1>14, <1>15,
       <1>16
    DEF DeployNext
<1> QED
  BY <1>17

-----------------------------------------------------------------------------
(* The files.                                                              *)

Whole(i) == i \in synced /\ content[i] \in Versions

\* What the engine boots from, now or after a power loss, is whole and
\* durable, and no temporary name refers to it or to another's file.
PlacesWhole ==
  /\ targetFile # 0 => Whole(targetFile)
  /\ targetOnDisk # 0 => Whole(targetOnDisk)
  /\ \A p \in Pids : tempFile[p] # 0 => tempFile[p] # targetFile /\ tempFile[p] # targetOnDisk
  /\ \A p, q \in Pids : tempFile[p] # 0 /\ tempFile[p] = tempFile[q] => p = q

\* A writer's temporary file is its own, and holds what its step says.
WritersOwn ==
  /\ \A d, e \in Deployers : Writing(d) /\ Writing(e) /\ pid[d] = pid[e] => d = e
  /\ \A d \in Deployers : Writing(d) => tempFile[pid[d]] # 0
  /\ \A d \in Deployers : deployPc[d] \in {"write", "sync"} => handle[d] = tempFile[pid[d]]
  /\ \A d \in Deployers : deployPc[d] = "write" => content[tempFile[pid[d]]] = Blank
  /\ \A d \in Deployers : deployPc[d] \in {"sync", "rename"} => content[tempFile[pid[d]]] = want[d]
  /\ \A d \in Deployers : deployPc[d] = "rename" => tempFile[pid[d]] \in synced

\* Only whole versions are written or put back.
WholeWanted ==
  \A d \in Deployers :
    /\ deployPc[d] # "idle" => want[d] \in Versions
    /\ prev[d] # 0 => prev[d] \in Versions

FilesInv == ~clash => PlacesWhole /\ WritersOwn /\ WholeWanted

\* The deployed version is in place, or nothing is.
LEMMA InitFilesInv == DeployInit => FilesInv
<1> SUFFICES ASSUME DeployInit PROVE PlacesWhole /\ WritersOwn /\ WholeWanted
  BY DEF FilesInv
<1>1. 1 \in Versions /\ 1 \in Inodes
  BY DeployBounds DEF Versions, Inodes
<1>2. PlacesWhole
  BY <1>1 DEF DeployInit, PlacesWhole, Whole
<1>3. WritersOwn /\ WholeWanted
  BY DEF DeployInit, WritersOwn, WholeWanted, Writing
<1> QED
  BY <1>2, <1>3

\* A step that changes no file and makes no writer.
LEMMA NoFileTouched ==
  ASSUME FilesInv, UNCHANGED <<fileVars, clash, pid>>,
         \A e \in Deployers : Writing(e)' =>
           deployPc'[e] = deployPc[e] /\ want'[e] = want[e] /\ handle'[e] = handle[e],
         ~clash => WholeWanted'
  PROVE  FilesInv'
<1> SUFFICES ASSUME ~clash PROVE PlacesWhole' /\ WritersOwn'
  BY DEF FilesInv
<1>1. PlacesWhole /\ WritersOwn
  BY DEF FilesInv
<1>2. PlacesWhole'
  BY <1>1 DEF PlacesWhole, Whole, fileVars
<1>3. \A e \in Deployers : Writing(e)' => Writing(e)
  BY DEF Writing
<1>4. WritersOwn'
  BY <1>1, <1>3 DEF WritersOwn, Writing, fileVars
<1> QED
  BY <1>2, <1>4

\* A call that ends.
LEMMA EndKeepsFiles ==
  ASSUME DeployTypes, FilesInv, NEW d \in Deployers, EndCallOf(d), UNCHANGED <<fileVars, clash>>
  PROVE  FilesInv'
<1>1. \A e \in Deployers : e # d =>
        /\ deployPc'[e] = deployPc[e] /\ want'[e] = want[e] /\ handle'[e] = handle[e]
        /\ prev'[e] = prev[e]
  BY DEF EndCallOf, DeployTypes
<1>2. deployPc'[d] = "idle" /\ prev'[d] = 0
  BY DEF EndCallOf, DeployTypes
<1>3. \A e \in Deployers : Writing(e)' => e # d
  BY <1>2 DEF Writing
<1>4. ~clash => WholeWanted'
  BY <1>1, <1>2 DEF FilesInv, WholeWanted
<1> QED
  BY <1>1, <1>3, <1>4, NoFileTouched DEF EndCallOf

\* Every step keeps the target whole until two calls share a temporary file.
LEMMA NextFilesInv ==
  ASSUME DeployTypes, HandleTypes, FilesInv, [DeployNext]_deployVars
  PROVE  FilesInv'
<1>1. ASSUME NEW d \in Deployers, NEW v \in Versions, StartDeploy(d, v) PROVE FilesInv'
  <2>1. /\ deployPc' = [deployPc EXCEPT ![d] = "read"] /\ want' = [want EXCEPT ![d] = v]
        /\ UNCHANGED <<fileVars, clash, pid, prev, handle>>
    BY <1>1 DEF StartDeploy, DeployGoes
  <2>2. \A e \in Deployers : Writing(e)' =>
          deployPc'[e] = deployPc[e] /\ want'[e] = want[e] /\ handle'[e] = handle[e]
    BY <2>1 DEF Writing, DeployTypes
  <2>3. ~clash => WholeWanted'
    BY <2>1 DEF FilesInv, WholeWanted, DeployTypes
  <2> QED
    BY <2>1, <2>2, <2>3, NoFileTouched
<1>2. ASSUME NEW d \in Deployers, ReadPrevious(d) PROVE FilesInv'
  <2>1. /\ deployPc[d] = "read" /\ deployPc' = [deployPc EXCEPT ![d] = "open"]
        /\ prev' = [prev EXCEPT ![d] = IF targetFile = 0 THEN 0 ELSE content[targetFile]]
        /\ UNCHANGED <<fileVars, clash, pid, want, handle>>
    BY <1>2 DEF ReadPrevious, DeployGoes, History, Record
  <2>2. \A e \in Deployers : Writing(e)' =>
          deployPc'[e] = deployPc[e] /\ want'[e] = want[e] /\ handle'[e] = handle[e]
    BY <2>1 DEF Writing, DeployTypes
  <2>3. ~clash => WholeWanted'
    BY <2>1 DEF FilesInv, WholeWanted, PlacesWhole, Whole, DeployTypes
  <2> QED
    BY <2>1, <2>2, <2>3, NoFileTouched
<1>3. ASSUME NEW d \in Deployers, OpenTemporary(d) PROVE FilesInv'
  <2> SUFFICES ASSUME ~clash' PROVE PlacesWhole' /\ WritersOwn' /\ WholeWanted'
    BY DEF FilesInv
  <2>1. ~clash /\ \A e \in Deployers \ {d} : ~(pid[e] = pid[d] /\ Writing(e))
    BY <1>3 DEF OpenTemporary
  <2>2. PlacesWhole /\ WritersOwn /\ WholeWanted
    BY <2>1 DEF FilesInv
  <2>3. PICK i \in Inodes :
          /\ OpenedFile(d, i)
          /\ tempFile' = [tempFile EXCEPT ![pid[d]] = i]
          /\ content' = [content EXCEPT ![i] = Blank]
          /\ synced' = synced \ {i}
          /\ handle' = [handle EXCEPT ![d] = i]
    BY <1>3 DEF OpenTemporary
  <2>4. /\ deployPc[d] = "open" /\ deployPc' = [deployPc EXCEPT ![d] = "write"]
        /\ UNCHANGED <<targetFile, targetOnDisk, pid, want, prev>>
    BY <1>3 DEF OpenTemporary, DeployGoes
  <2>5. i # 0 /\ pid[d] \in Pids /\ \A e \in Deployers : pid[e] \in Pids
    BY DeployBounds DEF Inodes, DeployTypes
  <2>6. /\ i # targetFile /\ i # targetOnDisk
        /\ \A q \in Pids : q # pid[d] => tempFile[q] # i
    BY <2>2, <2>3, <2>5 DEF OpenedFile, InUse, PlacesWhole
  <2>7. tempFile'[pid[d]] = i /\ \A q \in Pids : q # pid[d] => tempFile'[q] = tempFile[q]
    BY <2>3, <2>5 DEF DeployTypes
  <2>8. content'[i] = Blank /\ \A k \in Inodes : k # i => content'[k] = content[k]
    BY <2>3 DEF DeployTypes
  <2>9. targetFile \in Inodes \cup {0} /\ targetOnDisk \in Inodes \cup {0}
    BY DeployBounds DEF DeployTypes, Inodes
  <2>10. PlacesWhole'
    BY <2>2, <2>3, <2>4, <2>5, <2>6, <2>7, <2>8, <2>9 DEF PlacesWhole, Whole
  <2>11. deployPc'[d] = "write" /\ handle'[d] = i
         /\ \A e \in Deployers : e # d => deployPc'[e] = deployPc[e] /\ handle'[e] = handle[e]
    BY <2>3, <2>4 DEF DeployTypes
  <2>12. \A e \in Deployers : e # d /\ Writing(e) =>
           /\ pid[e] # pid[d] /\ tempFile'[pid[e]] = tempFile[pid[e]]
           /\ tempFile[pid[e]] \in Inodes /\ tempFile[pid[e]] # i
    <3>1. \A p \in Pids : tempFile[p] \in Inodes \cup {0}
      BY DeployBounds DEF DeployTypes, Inodes
    <3> QED
      BY <2>1, <2>2, <2>5, <2>6, <2>7, <3>1 DEF WritersOwn
  <2>13. WritersOwn'
    BY <2>2, <2>3, <2>4, <2>5, <2>7, <2>8, <2>11, <2>12 DEF WritersOwn, Writing
  <2>14. WholeWanted'
    BY <2>2, <2>4, <2>11 DEF WholeWanted
  <2> QED
    BY <2>10, <2>13, <2>14
<1>4. ASSUME NEW d \in Deployers, WriteTemporary(d) PROVE FilesInv'
  <2>1. /\ deployPc[d] = "write" /\ deployPc' = [deployPc EXCEPT ![d] = "sync"]
        /\ synced' = synced \ {handle[d]}
        /\ UNCHANGED <<targetFile, targetOnDisk, tempFile, pid, want, prev, handle, clash>>
    BY <1>4 DEF WriteTemporary, DeployGoes, localVars, History, Record
  <2> SUFFICES ASSUME ~clash PROVE PlacesWhole' /\ WritersOwn' /\ WholeWanted'
    BY <2>1 DEF FilesInv
  <2>2. PlacesWhole /\ WritersOwn /\ WholeWanted
    BY DEF FilesInv
  <2> DEFINE i == tempFile[pid[d]]
  <2>3. handle[d] = i /\ i \in Inodes /\ i # 0 /\ content[i] = Blank /\ pid[d] \in Pids
    BY <2>1, <2>2 DEF WritersOwn, HandleTypes, Writing, DeployTypes
  <2>4. content' = [content EXCEPT ![i] = want[d]]
    BY <1>4, <2>3 DEF WriteTemporary
  <2>5. i # targetFile /\ i # targetOnDisk
    BY <2>2, <2>3 DEF PlacesWhole
  <2>6. content'[i] = want[d] /\ \A k \in Inodes : k # i => content'[k] = content[k]
    BY <2>3, <2>4 DEF DeployTypes
  <2>7. targetFile \in Inodes \cup {0} /\ targetOnDisk \in Inodes \cup {0}
    BY DeployBounds DEF DeployTypes, Inodes
  <2>8. deployPc'[d] = "sync" /\ \A e \in Deployers : e # d => deployPc'[e] = deployPc[e]
    BY <2>1 DEF DeployTypes
  <2>9. \A e \in Deployers : e # d /\ Writing(e) =>
           tempFile[pid[e]] \in Inodes /\ tempFile[pid[e]] # i
    <3>1. \A p \in Pids : tempFile[p] \in Inodes \cup {0}
      BY DeployBounds DEF DeployTypes, Inodes
    <3>2. Writing(d) /\ \A e \in Deployers : pid[e] \in Pids
      BY <2>1 DEF Writing, DeployTypes
    <3> QED
      BY <2>2, <2>3, <3>1, <3>2 DEF WritersOwn, PlacesWhole
  <2> HIDE DEF i
  <2>10. PlacesWhole'
    BY <2>1, <2>2, <2>3, <2>5, <2>6, <2>7 DEF PlacesWhole, Whole
  <2>11. WritersOwn'
    <3>1. \A e \in Deployers : Writing(e)' => Writing(e)
      BY <2>1, <2>8 DEF Writing
    <3>2. tempFile'[pid'[d]] = i
      BY <2>1 DEF i
    <3> QED
      BY <2>1, <2>2, <2>3, <2>6, <2>8, <2>9, <3>1, <3>2 DEF WritersOwn, Writing
  <2>12. WholeWanted'
    BY <2>1, <2>2, <2>8 DEF WholeWanted
  <2> QED
    BY <2>10, <2>11, <2>12
<1>5. ASSUME NEW d \in Deployers, SyncTemporary(d) PROVE FilesInv'
  <2>1. /\ deployPc[d] = "sync" /\ deployPc' = [deployPc EXCEPT ![d] = "rename"]
        /\ synced' = synced \cup {handle[d]} /\ handle' = [handle EXCEPT ![d] = 0]
        /\ UNCHANGED <<targetFile, targetOnDisk, tempFile, content, pid, want, prev, clash>>
    BY <1>5 DEF SyncTemporary, SyncFile, DeployGoes, History, Record
  <2> SUFFICES ASSUME ~clash PROVE PlacesWhole' /\ WritersOwn' /\ WholeWanted'
    BY <2>1 DEF FilesInv
  <2>2. PlacesWhole /\ WritersOwn /\ WholeWanted
    BY DEF FilesInv
  <2>3. /\ deployPc'[d] = "rename"
        /\ \A e \in Deployers : e # d => deployPc'[e] = deployPc[e] /\ handle'[e] = handle[e]
    BY <2>1 DEF DeployTypes
  <2>4. PlacesWhole'
    BY <2>1, <2>2 DEF PlacesWhole, Whole
  <2>5. WritersOwn'
    <3>1. \A e \in Deployers : Writing(e)' => Writing(e)
      BY <2>1, <2>3 DEF Writing
    <3> QED
      BY <2>1, <2>2, <2>3, <3>1 DEF WritersOwn
  <2>6. WholeWanted'
    BY <2>1, <2>2, <2>3 DEF WholeWanted
  <2> QED
    BY <2>4, <2>5, <2>6
<1>6. ASSUME NEW d \in Deployers, Rename(d) PROVE FilesInv'
  <2>1. CASE tempFile[pid[d]] = 0
    BY <1>6, <2>1, EndKeepsFiles DEF Rename, History, Record, fileVars
  <2>2. CASE tempFile[pid[d]] # 0
    <3>1. /\ deployPc[d] = "rename" /\ deployPc' = [deployPc EXCEPT ![d] = "syncDirectory"]
          /\ targetFile' = tempFile[pid[d]] /\ tempFile' = [tempFile EXCEPT ![pid[d]] = 0]
          /\ UNCHANGED <<pid, want, prev, handle, targetOnDisk, content, synced, clash>>
      BY <1>6, <2>2 DEF Rename, DeployGoes, localVars, History, Record
    <3> SUFFICES ASSUME ~clash PROVE PlacesWhole' /\ WritersOwn' /\ WholeWanted'
      BY <3>1 DEF FilesInv
    <3>2. PlacesWhole /\ WritersOwn /\ WholeWanted
      BY DEF FilesInv
    <3>3. Whole(tempFile[pid[d]])
      BY <3>1, <3>2 DEF WritersOwn, WholeWanted, Whole
    <3>4. /\ \A e \in Deployers : pid[e] \in Pids
          /\ tempFile'[pid[d]] = 0 /\ \A q \in Pids : q # pid[d] => tempFile'[q] = tempFile[q]
      BY <3>1 DEF DeployTypes
    <3>5. /\ deployPc'[d] = "syncDirectory"
          /\ \A e \in Deployers : e # d => deployPc'[e] = deployPc[e]
      BY <3>1 DEF DeployTypes
    <3>6. PlacesWhole'
      BY <2>2, <3>1, <3>2, <3>3, <3>4 DEF PlacesWhole, Whole
    <3>7. \A e \in Deployers : Writing(e)' => Writing(e) /\ e # d /\ pid[e] # pid[d]
      BY <3>1, <3>2, <3>5 DEF WritersOwn, Writing
    <3>8. WritersOwn'
      BY <3>1, <3>2, <3>4, <3>5, <3>7 DEF WritersOwn, Writing
    <3>9. WholeWanted'
      BY <3>1, <3>2, <3>5 DEF WholeWanted
    <3> QED
      BY <3>6, <3>8, <3>9
  <2> QED
    BY <2>1, <2>2
<1>7. ASSUME NEW d \in Deployers, SyncDirectory(d) PROVE FilesInv'
  <2>1. /\ deployPc[d] = "syncDirectory" /\ deployPc' = [deployPc EXCEPT ![d] = "reload"]
        /\ targetOnDisk' \in {targetFile, targetOnDisk}
        /\ UNCHANGED <<targetFile, tempFile, content, synced, pid, want, prev, handle, clash>>
    BY <1>7 DEF SyncDirectory, DeployGoes, localVars, History, Record
  <2> SUFFICES ASSUME ~clash PROVE PlacesWhole' /\ WritersOwn' /\ WholeWanted'
    BY <2>1 DEF FilesInv
  <2>2. PlacesWhole /\ WritersOwn /\ WholeWanted
    BY DEF FilesInv
  <2>3. \A e \in Deployers :
          /\ Writing(e)' => deployPc'[e] = deployPc[e]
          /\ deployPc'[e] # "idle" => deployPc[e] # "idle"
    BY <2>1 DEF Writing, DeployTypes
  <2>4. PlacesWhole'
    BY <2>1, <2>2 DEF PlacesWhole, Whole
  <2>5. WritersOwn'
    <3>1. \A e \in Deployers : Writing(e)' => Writing(e)
      BY <2>3 DEF Writing
    <3> QED
      BY <2>1, <2>2, <2>3, <3>1 DEF WritersOwn, Writing
  <2>6. WholeWanted'
    BY <2>1, <2>2, <2>3 DEF WholeWanted
  <2> QED
    BY <2>4, <2>5, <2>6
<1>8. ASSUME NEW d \in Deployers, ReloadSucceeds(d) PROVE FilesInv'
  <2>1. /\ deployPc[d] = "reload" /\ deployPc' = [deployPc EXCEPT ![d] = "mark"]
        /\ UNCHANGED <<fileVars, clash, pid, want, prev, handle>>
    BY <1>8 DEF ReloadSucceeds, DeployGoes, localVars, History, Record
  <2>2. \A e \in Deployers : Writing(e)' => deployPc'[e] = deployPc[e]
    BY <2>1 DEF Writing, DeployTypes
  <2>3. ~clash => WholeWanted'
    BY <2>1 DEF FilesInv, WholeWanted, DeployTypes
  <2> QED
    BY <2>1, <2>2, <2>3, NoFileTouched
<1>9. ASSUME NEW d \in Deployers, ReloadFails(d) PROVE FilesInv'
  <2>1. CASE prev[d] = 0
    BY <1>9, <2>1, EndKeepsFiles DEF ReloadFails, History, Record
  <2>2. CASE prev[d] # 0
    <3>1. /\ deployPc' = [deployPc EXCEPT ![d] = "open"] /\ want' = [want EXCEPT ![d] = prev[d]]
          /\ UNCHANGED <<fileVars, clash, pid, prev, handle>>
      BY <1>9, <2>2 DEF ReloadFails, DeployGoes, History, Record
    <3>2. \A e \in Deployers : Writing(e)' => deployPc'[e] = deployPc[e] /\ want'[e] = want[e]
      BY <3>1 DEF Writing, DeployTypes
    <3>3. ~clash => WholeWanted'
      BY <2>2, <3>1 DEF FilesInv, WholeWanted, DeployTypes
    <3> QED
      BY <3>1, <3>2, <3>3, NoFileTouched
  <2> QED
    BY <2>1, <2>2
<1>10. ASSUME NEW d \in Deployers, RolledBack(d) \/ MarkDeployed(d) \/ DeployBreaks(d)
       PROVE  FilesInv'
  BY <1>10, EndKeepsFiles DEF RolledBack, MarkDeployed, DeployBreaks, History, Record
<1>11. ASSUME PowerLoss PROVE FilesInv'
  <2>1. /\ \A e \in Deployers : deployPc'[e] = "idle" /\ prev'[e] = 0
        /\ targetFile' \in {targetFile, targetOnDisk} /\ targetOnDisk' = targetFile'
        /\ content' = [i \in Inodes |-> IF i \in synced THEN content[i] ELSE Mixed]
        /\ synced' = Inodes /\ UNCHANGED <<tempFile, clash>>
    BY <1>11 DEF PowerLoss
  <2> SUFFICES ASSUME ~clash PROVE PlacesWhole' /\ WritersOwn' /\ WholeWanted'
    BY <2>1 DEF FilesInv
  <2>2. PlacesWhole
    BY DEF FilesInv
  <2>3. PlacesWhole'
    BY <2>1, <2>2 DEF PlacesWhole, Whole, DeployTypes
  <2>4. WritersOwn' /\ WholeWanted'
    BY <2>1 DEF WritersOwn, WholeWanted, Writing
  <2> QED
    BY <2>3, <2>4
<1>12. CASE UNCHANGED deployVars
  BY <1>12
  DEF deployVars, fileVars, localVars, FilesInv, PlacesWhole, Whole, WritersOwn, WholeWanted,
      Writing
<1>13. ASSUME NEW d \in Deployers, ReadFails(d) PROVE FilesInv'
  <2>1. /\ deployPc[d] = "read" /\ deployPc' = [deployPc EXCEPT ![d] = "open"]
        /\ prev' = [prev EXCEPT ![d] = 0] /\ UNCHANGED <<fileVars, clash, pid, want, handle>>
    BY <1>13 DEF ReadFails, DeployGoes
  <2>2. \A e \in Deployers : Writing(e)' =>
          deployPc'[e] = deployPc[e] /\ want'[e] = want[e] /\ handle'[e] = handle[e]
    BY <2>1 DEF Writing, DeployTypes
  <2>3. ~clash => WholeWanted'
    BY <2>1 DEF FilesInv, WholeWanted, DeployTypes
  <2> QED
    BY <2>1, <2>2, <2>3, NoFileTouched
<1> QED
  BY <1>1, <1>2, <1>3, <1>4, <1>5, <1>6, <1>7, <1>8, <1>9, <1>10, <1>11, <1>12, <1>13
  DEF DeployNext

-----------------------------------------------------------------------------
(* The record.                                                             *)

\* Calls that share a file overlap, and without overlap one call is in flight.
OverlapInv ==
  /\ clash => overlapped
  /\ ~overlapped => \A d, e \in Deployers : Busy(d) /\ Busy(e) => d = e

\* Only a call past its first reload rolls back, and it never marks.
BackInv == \A d \in Deployers : deployPc[d] \in {"idle", "read", "mark"} => ~back[d]

Recorded(v) == verStatus[v] = "deployed"

\* A call that does not roll back deploys a version.
NewWanted == \A d \in Deployers : Busy(d) /\ ~back[d] => want[d] \in Versions

\* The latest version is on record, and each scope has one at most.
ScopesInv ==
  /\ NewWanted
  /\ latest # 0 => latest \in Versions /\ Recorded(latest)
  /\ \A u, v \in Versions : Recorded(u) /\ Recorded(v) /\ ScopeOf[u] = ScopeOf[v] => u = v

\* The call has not replaced the target.
Untouched(d) == ~back[d] /\ deployPc[d] \in {"idle", "read", "open", "write", "sync", "rename"}

\* The target holds the latest version, before a call replaces it.
RecordHolds ==
  latest # 0 =>
    /\ targetFile # 0
    /\ ~unrestored /\ (\A d \in Deployers : Untouched(d)) => content[targetFile] = latest

\* A call is about to put the latest version back, or can, or has read nothing.
CanRestore ==
  ~unrestored /\ latest # 0 =>
    \A d \in Deployers : deployPc[d] \notin {"idle", "read"} =>
      IF back[d] THEN want[d] = latest ELSE prev[d] \in {0, latest}

\* After its rename the target holds what the call wants.
InPlace ==
  \A d \in Deployers : deployPc[d] \in {"syncDirectory", "reload", "mark"} =>
    targetFile # 0 /\ content[targetFile] = want[d]

\* A call deploys a version that is still approved.
StillApproved ==
  \A d \in Deployers : Busy(d) /\ ~back[d] => verStatus[want[d]] = "approved"

RecordInv ==
  ~overlapped /\ ~broken => RecordHolds /\ CanRestore /\ InPlace /\ StillApproved

\* The first version is in place, or none is recorded.
LEMMA InitRecordInv == DeployInit => OverlapInv /\ BackInv /\ ScopesInv /\ RecordInv
<1> SUFFICES ASSUME DeployInit PROVE OverlapInv /\ BackInv /\ ScopesInv /\ RecordInv
  OBVIOUS
<1>1. OverlapInv
  BY DEF DeployInit, OverlapInv, Busy
<1>2. BackInv
  BY DEF DeployInit, BackInv
<1>3. 1 \in Versions /\ 1 \in Inodes
  BY DeployBounds DEF Versions, Inodes
<1>4. RecordHolds
  BY <1>3 DEF DeployInit, RecordHolds
<1>5. CanRestore /\ InPlace /\ StillApproved
  BY DEF DeployInit, CanRestore, InPlace, StillApproved, Busy
<1>6. NewWanted
  BY DEF DeployInit, NewWanted, Busy
<1>7. ASSUME latest = 0, verStatus = [v \in Versions |-> "approved"] PROVE ScopesInv
  <2>1. \A v \in Versions : ~Recorded(v)
    BY <1>7 DEF Recorded
  <2> QED
    BY <1>6, <1>7, <2>1 DEF ScopesInv
<1>8. ASSUME latest = 1,
             verStatus = [v \in Versions |-> IF v = 1 THEN "deployed" ELSE "approved"]
      PROVE  ScopesInv
  <2>1. \A v \in Versions : Recorded(v) <=> v = 1
    BY <1>8 DEF Recorded
  <2> QED
    BY <1>3, <1>6, <1>8, <2>1 DEF ScopesInv
<1> QED
  BY <1>1, <1>2, <1>4, <1>5, <1>7, <1>8 DEF DeployInit, RecordInv

\* Without overlap the other calls are not in flight.
LEMMA Alone ==
  ASSUME OverlapInv, ~overlapped, NEW d \in Deployers, Busy(d)
  PROVE  \A e \in Deployers : e # d => deployPc[e] = "idle"
  BY DEF OverlapInv, Busy

\* Every step keeps the calls apart until two overlap.
LEMMA NextOverlapInv ==
  ASSUME DeployTypes, OverlapInv, BackInv, [DeployNext]_deployVars
  PROVE  OverlapInv' /\ BackInv'
<1> DEFINE Goal == OverlapInv' /\ BackInv'
<1>1. ASSUME NEW d \in Deployers, EndCallOf(d), UNCHANGED <<clash, overlapped>> PROVE Goal
  <2>1. deployPc'[d] = "idle" /\ \A e \in Deployers : e # d => deployPc'[e] = deployPc[e]
    BY <1>1 DEF EndCallOf, DeployTypes
  <2>2. ~back'[d] /\ \A e \in Deployers : e # d => back'[e] = back[e]
    BY <1>1 DEF EndCallOf, DeployTypes
  <2>3. OverlapInv'
    BY <1>1, <2>1 DEF OverlapInv, Busy
  <2>4. BackInv'
    BY <2>1, <2>2 DEF BackInv
  <2> QED
    BY <2>3, <2>4
<1>2. ASSUME NEW d \in Deployers, NEW to \in DeploySteps, Busy(d),
             deployPc' = [deployPc EXCEPT ![d] = to], UNCHANGED <<overlapped, back>>,
             clash' => clash \/ overlapped,
             to \in {"idle", "read", "mark"} => ~back[d]
      PROVE  Goal
  <2>1. deployPc'[d] = to /\ \A e \in Deployers : e # d => deployPc'[e] = deployPc[e]
    BY <1>2 DEF DeployTypes
  <2>2. OverlapInv'
    BY <1>2, <2>1 DEF OverlapInv, Busy
  <2>3. BackInv'
    BY <1>2, <2>1 DEF BackInv
  <2> QED
    BY <2>2, <2>3
<1>3. ASSUME NEW d \in Deployers, NEW v \in Versions, StartDeploy(d, v) PROVE Goal
  <2>1. /\ deployPc[d] = "idle" /\ deployPc' = [deployPc EXCEPT ![d] = "read"]
        /\ UNCHANGED <<clash, back>>
    BY <1>3 DEF StartDeploy, DeployGoes
  <2>2. overlapped' <=> overlapped \/ \E e \in Deployers : Busy(e)
    BY <1>3 DEF StartDeploy
  <2>3. deployPc'[d] = "read" /\ \A e \in Deployers : e # d => deployPc'[e] = deployPc[e]
    BY <2>1 DEF DeployTypes
  <2>4. OverlapInv'
    BY <2>1, <2>2, <2>3 DEF OverlapInv, Busy
  <2>5. BackInv'
    BY <2>1, <2>3 DEF BackInv
  <2> QED
    BY <2>4, <2>5
<1>4. ASSUME NEW d \in Deployers,
             \/ ReadPrevious(d) \/ ReadFails(d) \/ WriteTemporary(d) \/ SyncTemporary(d)
             \/ SyncDirectory(d) \/ ReloadSucceeds(d)
      PROVE  Goal
  <2>1. PICK to \in {"open", "sync", "rename", "reload", "mark"} :
          deployPc' = [deployPc EXCEPT ![d] = to] /\ (to = "mark" => ~back[d])
    BY <1>4
    DEF ReadPrevious, ReadFails, WriteTemporary, SyncTemporary, SyncDirectory, ReloadSucceeds,
        DeployGoes
  <2>2. UNCHANGED <<clash, overlapped, back>> /\ Busy(d)
    BY <1>4
    DEF ReadPrevious, ReadFails, WriteTemporary, SyncTemporary, SyncDirectory, ReloadSucceeds,
        DeployGoes, History, localVars, Busy
  <2> QED
    BY <1>2, <2>1, <2>2 DEF DeploySteps
<1>5. ASSUME NEW d \in Deployers, OpenTemporary(d) PROVE Goal
  <2>1. /\ deployPc[d] = "open" /\ deployPc' = [deployPc EXCEPT ![d] = "write"]
        /\ UNCHANGED <<overlapped, back>>
    BY <1>5 DEF OpenTemporary, DeployGoes
  <2>2. Busy(d) /\ \A e \in Deployers : Writing(e) => Busy(e)
    BY <2>1 DEF Busy, Writing
  <2>3. clash' => clash \/ \E e \in Deployers \ {d} : Writing(e)
    BY <1>5 DEF OpenTemporary
  <2>4. clash' => clash \/ overlapped
    BY <2>2, <2>3 DEF OverlapInv
  <2> QED
    BY <1>2, <2>1, <2>2, <2>4 DEF DeploySteps
<1>6. ASSUME NEW d \in Deployers, Rename(d) PROVE Goal
  <2>1. CASE EndCallOf(d)
    BY <1>1, <1>6, <2>1 DEF Rename, History, Record
  <2>2. CASE DeployGoes(d, "rename", "syncDirectory") /\ UNCHANGED localVars
    BY <1>2, <1>6, <2>2 DEF Rename, DeployGoes, Busy, History, Record, localVars, DeploySteps
  <2> QED
    BY <1>6, <2>1, <2>2 DEF Rename
<1>7. ASSUME NEW d \in Deployers, ReloadFails(d) PROVE Goal
  <2>1. CASE EndCallOf(d)
    BY <1>1, <1>7, <2>1 DEF ReloadFails, History, Record
  <2>2. CASE DeployGoes(d, "reload", "open") /\ back' = [back EXCEPT ![d] = TRUE]
    <3>1. /\ deployPc[d] = "reload" /\ deployPc'[d] = "open"
          /\ \A e \in Deployers : e # d => deployPc'[e] = deployPc[e]
      BY <2>2 DEF DeployGoes, DeployTypes
    <3>2. \A e \in Deployers : e # d => back'[e] = back[e]
      BY <2>2 DEF DeployTypes
    <3>3. OverlapInv'
      BY <1>7, <3>1 DEF ReloadFails, History, Record, OverlapInv, Busy
    <3>4. BackInv'
      BY <3>1, <3>2 DEF BackInv
    <3> QED
      BY <3>3, <3>4
  <2> QED
    BY <1>7, <2>1, <2>2 DEF ReloadFails
<1>8. ASSUME NEW d \in Deployers, RolledBack(d) \/ MarkDeployed(d) \/ DeployBreaks(d) PROVE Goal
  BY <1>1, <1>8 DEF RolledBack, MarkDeployed, DeployBreaks, History, Record
<1>9. ASSUME PowerLoss PROVE Goal
  BY <1>9 DEF PowerLoss, OverlapInv, BackInv, Busy
<1>10. ASSUME UNCHANGED deployVars PROVE Goal
  BY <1>10 DEF deployVars, localVars, OverlapInv, BackInv, Busy
<1>11. Goal
  <2> HIDE DEF Goal
  <2> QED
    BY <1>3, <1>4, <1>5, <1>6, <1>7, <1>8, <1>9, <1>10 DEF DeployNext
<1> QED
  BY <1>11

\* A step of the one call in flight that leaves the record, the target and its
\* own intentions alone, and does not yet, or no longer, put anything in place.
LEMMA RecordKept ==
  ASSUME RecordHolds, CanRestore, InPlace, StillApproved, NEW d \in Deployers, Busy(d),
         deployPc'[d] # "idle", back'[d] = back[d], want'[d] = want[d], prev'[d] = prev[d],
         \A e \in Deployers : e # d =>
           deployPc[e] = "idle" /\ deployPc'[e] = "idle" /\ back'[e] = back[e],
         UNCHANGED <<Record, targetFile>>,
         targetFile # 0 => content'[targetFile] = content[targetFile],
         deployPc[d] # "read", deployPc'[d] # "read", Untouched(d)' => Untouched(d),
         deployPc'[d] \in {"syncDirectory", "reload", "mark"} =>
           deployPc[d] \in {"syncDirectory", "reload", "mark"}
  PROVE  RecordHolds' /\ CanRestore' /\ InPlace' /\ StillApproved'
<1>1. \A e \in Deployers : Untouched(e)' => Untouched(e)
  BY DEF Untouched
<1>2. RecordHolds'
  BY <1>1 DEF RecordHolds, Record
<1>3. CanRestore'
  BY DEF CanRestore, Record, Busy
<1>4. InPlace'
  BY DEF InPlace
<1>5. StillApproved'
  BY DEF StillApproved, Record, Busy
<1> QED
  BY <1>2, <1>3, <1>4, <1>5

\* Every step leaves a call its version unless it rolls back.
LEMMA NextNewWanted ==
  ASSUME DeployTypes, NewWanted, [DeployNext]_deployVars
  PROVE  NewWanted'
<1> USE DEF NewWanted, Busy
<1>1. ASSUME NEW d \in Deployers, EndCallOf(d) PROVE NewWanted'
  BY <1>1 DEF EndCallOf, DeployTypes
<1>2. ASSUME UNCHANGED <<want, back>>, \A d \in Deployers : Busy(d)' => Busy(d) PROVE NewWanted'
  BY <1>2
<1>3. ASSUME NEW d \in Deployers, NEW v \in Versions, StartDeploy(d, v) PROVE NewWanted'
  BY <1>3 DEF StartDeploy, DeployGoes, DeployTypes
<1>4. ASSUME NEW d \in Deployers,
             \/ ReadPrevious(d) \/ ReadFails(d) \/ OpenTemporary(d) \/ WriteTemporary(d)
             \/ SyncTemporary(d) \/ SyncDirectory(d) \/ ReloadSucceeds(d)
      PROVE  NewWanted'
  <2>1. UNCHANGED <<want, back>>
    BY <1>4
    DEF ReadPrevious, ReadFails, OpenTemporary, WriteTemporary, SyncTemporary, SyncDirectory,
        ReloadSucceeds, localVars
  <2>2. PICK to \in DeploySteps : Busy(d) /\ deployPc' = [deployPc EXCEPT ![d] = to]
    BY <1>4
    DEF ReadPrevious, ReadFails, OpenTemporary, WriteTemporary, SyncTemporary, SyncDirectory,
        ReloadSucceeds, DeployGoes, DeploySteps
  <2> QED
    BY <1>2, <2>1, <2>2 DEF DeployTypes
<1>5. ASSUME NEW d \in Deployers, Rename(d) PROVE NewWanted'
  BY <1>1, <1>2, <1>5 DEF Rename, DeployGoes, localVars, DeployTypes
<1>6. ASSUME NEW d \in Deployers, ReloadFails(d) PROVE NewWanted'
  <2>1. CASE EndCallOf(d)
    BY <1>1, <2>1
  <2>2. CASE /\ DeployGoes(d, "reload", "open")
             /\ want' = [want EXCEPT ![d] = prev[d]] /\ back' = [back EXCEPT ![d] = TRUE]
    BY <2>2 DEF DeployGoes, DeployTypes
  <2> QED
    BY <1>6, <2>1, <2>2 DEF ReloadFails
<1>7. ASSUME NEW d \in Deployers, RolledBack(d) \/ MarkDeployed(d) \/ DeployBreaks(d)
      PROVE  NewWanted'
  BY <1>1, <1>7 DEF RolledBack, MarkDeployed, DeployBreaks
<1>8. CASE PowerLoss
  BY <1>8 DEF PowerLoss
<1>9. CASE UNCHANGED deployVars
  BY <1>9 DEF deployVars, localVars
<1> QED
  BY <1>3, <1>4, <1>5, <1>6, <1>7, <1>8, <1>9 DEF DeployNext

\* A version that is deployed takes the place of its scope's.
LEMMA NextScopesInv ==
  ASSUME DeployTypes, BackInv, ScopesInv, [DeployNext]_deployVars
  PROVE  ScopesInv'
<1>0. NewWanted'
  BY NextNewWanted DEF ScopesInv
<1>1. ASSUME UNCHANGED <<verStatus, latest>> PROVE ScopesInv'
  BY <1>0, <1>1 DEF ScopesInv, Recorded
<1>2. ASSUME NEW d \in Deployers, MarkDeployed(d) PROVE ScopesInv'
  <2>1. CASE UNCHANGED Record
    BY <1>1, <2>1 DEF Record
  <2>2. CASE /\ verStatus[want[d]] = "approved" /\ latest' = want[d]
             /\ verStatus' = [u \in Versions |->
                  IF u = want[d] THEN "deployed"
                  ELSE IF SupersededBy(want[d], u) THEN "superseded" ELSE verStatus[u]]
    <3>1. want[d] \in Versions
      BY <1>2 DEF MarkDeployed, ScopesInv, NewWanted, BackInv, Busy
    <3> QED
      BY <1>0, <2>2, <3>1 DEF SupersededBy, ScopesInv, Recorded
  <2> QED
    BY <1>2, <2>1, <2>2 DEF MarkDeployed
<1>3. ASSUME NEW d \in Deployers, NEW v \in Versions, StartDeploy(d, v) PROVE ScopesInv'
  BY <1>1, <1>3 DEF StartDeploy, Record
<1>4. ASSUME NEW d \in Deployers,
             \/ ReadPrevious(d) \/ ReadFails(d) \/ OpenTemporary(d) \/ WriteTemporary(d)
             \/ SyncTemporary(d) \/ Rename(d) \/ SyncDirectory(d) \/ ReloadSucceeds(d)
             \/ ReloadFails(d) \/ RolledBack(d) \/ DeployBreaks(d)
      PROVE  ScopesInv'
  BY <1>1, <1>4
  DEF ReadPrevious, ReadFails, OpenTemporary, WriteTemporary, SyncTemporary, Rename,
      SyncDirectory, ReloadSucceeds, ReloadFails, RolledBack, DeployBreaks, Record
<1>5. CASE PowerLoss \/ UNCHANGED deployVars
  BY <1>1, <1>5 DEF PowerLoss, Record, deployVars
<1> QED
  BY <1>2, <1>3, <1>4, <1>5 DEF DeployNext

\* Every step keeps the record true while calls neither overlap nor end early.
LEMMA NextRecordInv ==
  ASSUME DeployTypes, HandleTypes, FilesInv, OverlapInv, BackInv, ScopesInv, RecordInv,
         [DeployNext]_deployVars
  PROVE  RecordInv'
<1> DEFINE Truths == RecordHolds /\ CanRestore /\ InPlace /\ StillApproved
<1>0. RecordInv => (~overlapped /\ ~broken => Truths)
  BY DEF RecordInv
<1>1. CASE UNCHANGED deployVars
  BY <1>1
  DEF deployVars, fileVars, localVars, RecordInv, RecordHolds, CanRestore, InPlace, StillApproved,
      Untouched, Busy
<1>2. ASSUME broken' PROVE RecordInv'
  BY <1>2 DEF RecordInv
<1>3. ASSUME NEW d \in Deployers, NEW v \in Versions, StartDeploy(d, v) PROVE RecordInv'
  <2> SUFFICES ASSUME ~overlapped', ~broken' PROVE Truths'
    BY DEF RecordInv
  <2>1. ~overlapped /\ ~broken /\ \A e \in Deployers : ~Busy(e)
    BY <1>3 DEF StartDeploy
  <2>2. RecordHolds
    BY <1>0, <2>1
  <2>3. /\ deployPc' = [deployPc EXCEPT ![d] = "read"] /\ want' = [want EXCEPT ![d] = v]
        /\ verStatus[v] = "approved" /\ UNCHANGED <<Record, fileVars, back, prev>>
    BY <1>3 DEF StartDeploy, DeployGoes
  <2>4. /\ deployPc'[d] = "read" /\ want'[d] = v
        /\ \A e \in Deployers : e # d => deployPc'[e] = "idle"
    BY <2>1, <2>3 DEF DeployTypes, Busy
  <2>5. \A e \in Deployers : Untouched(e) /\ ~back[e]
    BY <2>1 DEF Untouched, BackInv, Busy
  <2>6. RecordHolds'
    BY <2>2, <2>3, <2>5 DEF RecordHolds, Record, fileVars
  <2>7. CanRestore' /\ InPlace'
    BY <2>4 DEF CanRestore, InPlace
  <2>8. StillApproved'
    BY <2>3, <2>4 DEF StillApproved, Record, Busy
  <2> QED
    BY <2>6, <2>7, <2>8
<1>4. ASSUME NEW d \in Deployers, ReadPrevious(d) \/ ReadFails(d) PROVE RecordInv'
  <2>1. /\ deployPc[d] = "read" /\ deployPc' = [deployPc EXCEPT ![d] = "open"]
        /\ UNCHANGED <<Record, fileVars, want, back, overlapped, broken>>
    BY <1>4 DEF ReadPrevious, ReadFails, DeployGoes, History
  <2> SUFFICES ASSUME ~overlapped, ~broken PROVE Truths'
    BY <2>1 DEF RecordInv
  <2>2. Truths
    BY <1>0
  <2>3. Busy(d) /\ \A e \in Deployers : e # d => deployPc[e] = "idle"
    BY <2>1, Alone DEF Busy
  <2>4. \A e \in Deployers : Untouched(e) /\ ~back[e]
    BY <2>1, <2>3 DEF Untouched, BackInv
  <2>5. deployPc'[d] = "open" /\ \A e \in Deployers : e # d => deployPc'[e] = "idle"
    BY <2>1, <2>3 DEF DeployTypes
  <2>6. prev'[d] \in {0, IF targetFile = 0 THEN 0 ELSE content[targetFile]}
    BY <1>4 DEF ReadPrevious, ReadFails, DeployTypes
  <2>7. ~unrestored /\ latest # 0 => prev'[d] \in {0, latest}
    BY <2>2, <2>4, <2>6 DEF RecordHolds
  <2>8. RecordHolds'
    BY <2>1, <2>2, <2>4 DEF RecordHolds, Record, fileVars
  <2>9. CanRestore'
    BY <2>1, <2>4, <2>5, <2>7 DEF CanRestore, Record
  <2>10. InPlace'
    BY <2>5 DEF InPlace
  <2>11. StillApproved'
    BY <2>1, <2>2, <2>3, <2>5 DEF StillApproved, Record, Busy
  <2> QED
    BY <2>8, <2>9, <2>10, <2>11
<1>5. ASSUME NEW d \in Deployers,
             OpenTemporary(d) \/ WriteTemporary(d) \/ SyncTemporary(d) \/ SyncDirectory(d)
             \/ ReloadSucceeds(d)
      PROVE  RecordInv'
  <2>1. PICK from \in {"open", "write", "sync", "syncDirectory", "reload"},
             to \in {"write", "sync", "rename", "reload", "mark"} :
          /\ deployPc[d] = from /\ deployPc' = [deployPc EXCEPT ![d] = to]
          /\ to \in {"reload", "mark"} => from \in {"syncDirectory", "reload"}
          /\ to \in {"write", "sync", "rename"} => from \in {"open", "write", "sync"}
    BY <1>5
    DEF OpenTemporary, WriteTemporary, SyncTemporary, SyncDirectory, ReloadSucceeds, DeployGoes
  <2>2. UNCHANGED <<Record, targetFile, want, back, prev, overlapped, broken>>
    BY <1>5
    DEF OpenTemporary, WriteTemporary, SyncTemporary, SyncDirectory, ReloadSucceeds, History,
        localVars, fileVars
  <2> SUFFICES ASSUME ~overlapped, ~broken PROVE Truths'
    BY <2>2 DEF RecordInv
  <2>3. Truths
    BY <1>0
  <2>4. Busy(d) /\ \A e \in Deployers : e # d => deployPc[e] = "idle"
    BY <2>1, Alone DEF Busy
  <2>5. ~clash /\ PlacesWhole /\ WritersOwn
    BY DEF OverlapInv, FilesInv
  <2>6. deployPc'[d] = to /\ \A e \in Deployers : e # d => deployPc'[e] = "idle"
    BY <2>1, <2>4 DEF DeployTypes
  <2>7. targetFile # 0 => content'[targetFile] = content[targetFile]
    <3>1. CASE OpenTemporary(d)
      <4>1. PICK i \in Inodes : OpenedFile(d, i) /\ content' = [content EXCEPT ![i] = Blank]
        BY <3>1 DEF OpenTemporary
      <4>2. pid[d] \in Pids /\ i # 0
        BY DeployBounds DEF DeployTypes, Inodes
      <4>3. i # targetFile
        BY <2>5, <4>1, <4>2 DEF OpenedFile, InUse, PlacesWhole
      <4>4. targetFile # 0 => targetFile \in Inodes
        BY DeployBounds DEF DeployTypes, Inodes
      <4> QED
        BY <4>1, <4>3, <4>4 DEF DeployTypes
    <3>2. CASE WriteTemporary(d)
      <4>1. PICK c : content' = [content EXCEPT ![handle[d]] = c]
        BY <3>2 DEF WriteTemporary
      <4>2. pid[d] \in Pids /\ Writing(d) /\ deployPc[d] = "write"
        BY <3>2 DEF WriteTemporary, DeployGoes, Writing, DeployTypes
      <4>3. handle[d] # targetFile
        BY <2>5, <4>2 DEF WritersOwn, PlacesWhole
      <4>4. targetFile # 0 => targetFile \in Inodes
        BY DeployBounds DEF DeployTypes, Inodes
      <4> QED
        BY <4>1, <4>3, <4>4 DEF DeployTypes
    <3>3. CASE SyncTemporary(d) \/ SyncDirectory(d) \/ ReloadSucceeds(d)
      BY <3>3 DEF SyncTemporary, SyncDirectory, ReloadSucceeds, fileVars
    <3> QED
      BY <1>5, <3>1, <3>2, <3>3
  <2>8. Untouched(d)' => Untouched(d)
    BY <2>1, <2>2, <2>6 DEF Untouched
  <2>9. deployPc[d] # "read"
    BY <2>1
  <2>10. deployPc'[d] \notin {"idle", "read"}
    BY <2>6
  <2>11. deployPc'[d] \in {"syncDirectory", "reload", "mark"} =>
           deployPc[d] \in {"syncDirectory", "reload", "mark"}
    BY <2>1, <2>6
  <2> HIDE DEF Untouched
  <2> QED
    BY <2>2, <2>3, <2>4, <2>6, <2>7, <2>8, <2>9, <2>10, <2>11, RecordKept
<1>6. ASSUME NEW d \in Deployers, Rename(d) PROVE RecordInv'
  <2>1. UNCHANGED <<Record, content, overlapped, broken>> /\ deployPc[d] = "rename"
    BY <1>6 DEF Rename, History, Record
  <2> SUFFICES ASSUME ~overlapped, ~broken PROVE Truths'
    BY <2>1 DEF RecordInv
  <2>2. Truths
    BY <1>0
  <2>3. Busy(d) /\ \A e \in Deployers : e # d => deployPc[e] = "idle"
    BY <2>1, Alone DEF Busy
  <2>4. ~clash /\ WritersOwn /\ WholeWanted
    BY DEF OverlapInv, FilesInv
  <2>5. tempFile[pid[d]] # 0 /\ content[tempFile[pid[d]]] = want[d]
    BY <2>1, <2>4 DEF WritersOwn, Writing
  <2>6. /\ deployPc' = [deployPc EXCEPT ![d] = "syncDirectory"] /\ targetFile' = tempFile[pid[d]]
        /\ UNCHANGED localVars
    BY <1>6, <2>5 DEF Rename, DeployGoes
  <2>7. deployPc'[d] = "syncDirectory" /\ \A e \in Deployers : e # d => deployPc'[e] = "idle"
    BY <2>3, <2>6 DEF DeployTypes
  <2>8. RecordHolds'
    BY <2>5, <2>6, <2>7 DEF RecordHolds, Untouched
  <2>9. CanRestore'
    BY <2>1, <2>2, <2>6, <2>7 DEF CanRestore, Record, localVars
  <2>10. InPlace'
    BY <2>1, <2>5, <2>6, <2>7 DEF InPlace, localVars
  <2>11. StillApproved'
    BY <2>1, <2>2, <2>3, <2>6, <2>7 DEF StillApproved, Record, Busy, localVars
  <2> QED
    BY <2>8, <2>9, <2>10, <2>11
<1>7. ASSUME NEW d \in Deployers, ReloadFails(d) PROVE RecordInv'
  <2>1. /\ UNCHANGED <<verStatus, latest, fileVars, overlapped, broken>>
        /\ deployPc[d] = "reload" /\ ~back[d]
    BY <1>7 DEF ReloadFails, History
  <2> SUFFICES ASSUME ~overlapped, ~broken PROVE Truths'
    BY <2>1 DEF RecordInv
  <2>2. Truths
    BY <1>0
  <2>3. Busy(d) /\ \A e \in Deployers : e # d => deployPc[e] = "idle"
    BY <2>1, Alone DEF Busy
  <2>4. latest # 0 => targetFile # 0 /\ (~unrestored => prev[d] \in {0, latest})
    BY <2>1, <2>2 DEF CanRestore, RecordHolds
  <2>5. CASE prev[d] # 0
    <3>1. /\ deployPc' = [deployPc EXCEPT ![d] = "open"] /\ want' = [want EXCEPT ![d] = prev[d]]
          /\ back' = [back EXCEPT ![d] = TRUE] /\ UNCHANGED <<prev, unrestored>>
      BY <1>7, <2>5 DEF ReloadFails, DeployGoes
    <3>2. /\ deployPc'[d] = "open" /\ want'[d] = prev[d]
          /\ \A e \in Deployers : e # d => deployPc'[e] = "idle"
      BY <2>3, <3>1 DEF DeployTypes
    <3>3. back'[d]
      BY <3>1 DEF DeployTypes
    <3>4. RecordHolds'
      BY <2>1, <2>4, <3>3 DEF RecordHolds, Untouched, fileVars
    <3>5. CanRestore'
      BY <2>1, <2>4, <2>5, <3>1, <3>2, <3>3 DEF CanRestore
    <3>6. InPlace' /\ StillApproved'
      BY <3>2, <3>3 DEF InPlace, StillApproved, Busy
    <3> QED
      BY <3>4, <3>5, <3>6
  <2>6. CASE prev[d] = 0
    <3>1. unrestored' /\ \A e \in Deployers : deployPc'[e] = "idle"
      BY <1>7, <2>3, <2>6 DEF ReloadFails, EndCallOf, DeployTypes
    <3>2. RecordHolds'
      BY <2>1, <2>4, <3>1 DEF RecordHolds, fileVars
    <3>3. CanRestore' /\ InPlace' /\ StillApproved'
      BY <3>1 DEF CanRestore, InPlace, StillApproved, Busy
    <3> QED
      BY <3>2, <3>3
  <2> QED
    BY <2>5, <2>6
<1>8. ASSUME NEW d \in Deployers, RolledBack(d) PROVE RecordInv'
  <2>1. /\ UNCHANGED <<Record, fileVars, overlapped, broken>>
        /\ deployPc[d] = "reload" /\ back[d] /\ EndCallOf(d)
    BY <1>8 DEF RolledBack, History
  <2> SUFFICES ASSUME ~overlapped, ~broken PROVE Truths'
    BY <2>1 DEF RecordInv
  <2>2. Truths
    BY <1>0
  <2>3. Busy(d) /\ \A e \in Deployers : e # d => deployPc[e] = "idle"
    BY <2>1, Alone DEF Busy
  <2>4. latest # 0 => targetFile # 0 /\ (~unrestored => content[targetFile] = latest)
    BY <2>1, <2>2 DEF RecordHolds, CanRestore, InPlace
  <2>5. \A e \in Deployers : deployPc'[e] = "idle"
    BY <2>1, <2>3 DEF EndCallOf, DeployTypes
  <2>6. RecordHolds'
    BY <2>1, <2>4 DEF RecordHolds, Record, fileVars
  <2>7. CanRestore' /\ InPlace' /\ StillApproved'
    BY <2>5 DEF CanRestore, InPlace, StillApproved, Busy
  <2> QED
    BY <2>6, <2>7
<1>9. ASSUME NEW d \in Deployers, MarkDeployed(d) PROVE RecordInv'
  <2>1. UNCHANGED <<fileVars, overlapped, broken>> /\ deployPc[d] = "mark" /\ EndCallOf(d)
    BY <1>9 DEF MarkDeployed, History
  <2> SUFFICES ASSUME ~overlapped, ~broken PROVE Truths'
    BY <2>1 DEF RecordInv
  <2>2. Truths
    BY <1>0
  <2>3. Busy(d) /\ \A e \in Deployers : e # d => deployPc[e] = "idle"
    BY <2>1, Alone DEF Busy
  <2>4. ~back[d] /\ verStatus[want[d]] = "approved"
    BY <2>1, <2>2, <2>3 DEF BackInv, StillApproved
  <2>5. latest' = want[d]
    BY <1>9, <2>4 DEF MarkDeployed
  <2>6. targetFile # 0 /\ content[targetFile] = want[d]
    BY <2>1, <2>2 DEF InPlace
  <2>7. \A e \in Deployers : deployPc'[e] = "idle"
    BY <2>1, <2>3 DEF EndCallOf, DeployTypes
  <2>8. RecordHolds'
    BY <2>1, <2>5, <2>6 DEF RecordHolds, fileVars
  <2>9. CanRestore' /\ InPlace' /\ StillApproved'
    BY <2>7 DEF CanRestore, InPlace, StillApproved, Busy
  <2> QED
    BY <2>8, <2>9
<1>10. ASSUME PowerLoss \/ \E d \in Deployers : DeployBreaks(d) PROVE RecordInv'
  BY <1>2, <1>10 DEF PowerLoss, DeployBreaks
<1> QED
  BY <1>1, <1>3, <1>4, <1>5, <1>6, <1>7, <1>8, <1>9, <1>10 DEF DeployNext

\* Whatever reads and reloads fail, calls or processes die and power is lost, the
\* file that the engine boots from is one whole version until two calls share a
\* temporary file; and between calls that neither overlap nor end early it is the
\* version that markConfigurationDeployed recorded last, the only one of its
\* scope on record, unless a later reload failed with nothing to put back.
THEOREM DeployedConfigSound == DeploySpec => []ConfigSound
<1> DEFINE Inv == /\ DeployTypes /\ HandleTypes /\ FilesInv
                  /\ OverlapInv /\ BackInv /\ ScopesInv /\ RecordInv
<1>1. DeployInit => Inv
  BY InitDeployTypes, InitFilesInv, InitRecordInv
<1>2. Inv /\ [DeployNext]_deployVars => Inv'
  BY NextDeployTypes, NextFilesInv, NextOverlapInv, NextScopesInv, NextRecordInv
<1>3. Inv => ConfigSound
  <2> SUFFICES ASSUME Inv PROVE ConfigSound
    OBVIOUS
  <2>1. targetFile # 0 /\ ~clash => content[targetFile] \in Versions
    BY DEF FilesInv, PlacesWhole, Whole
  <2>2. ASSUME ~overlapped, ~broken, ~unrestored, latest # 0, \A d \in Deployers : ~Busy(d)
        PROVE  targetFile # 0 /\ content[targetFile] = latest
    <3>1. \A d \in Deployers : Untouched(d)
      BY <2>2 DEF Untouched, Busy, BackInv
    <3> QED
      BY <2>2, <3>1 DEF RecordInv, RecordHolds
  <2>3. latest # 0 => \A v \in Versions :
          verStatus[v] = "deployed" /\ ScopeOf[v] = ScopeOf[latest] => v = latest
    BY DEF ScopesInv, Recorded
  <2> QED
    BY <2>1, <2>2, <2>3 DEF ConfigSound
<1>4. QED
  BY <1>1, <1>2, <1>3, PTL DEF DeploySpec

===============================================================================

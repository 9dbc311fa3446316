----------------------------- MODULE ConfigDeploy -----------------------------
(***************************************************************************)
(* Deploying a generated configuration: the target file the engine boots   *)
(* from, the temporary file it is replaced through, the reload with its    *)
(* rollback, and the configuration_versions rows that say what is          *)
(* deployed.                                                               *)
(*                                                                         *)
(* A file name is 0 or names an inode; an open file stays writable after a *)
(* rename.  The temporary name holds only the process id, so deployments   *)
(* with one pid share it.  What was not synced is lost with the power.     *)
(***************************************************************************)
EXTENDS Naturals, FiniteSets

CONSTANTS
  Deployers,       \* calls of POST /configurations/:id/deploy that may overlap
  Pids,            \* process ids of the replicas
  MaxVersion,      \* bound: versions
  ScopeOf,         \* ScopeOf[v]: v's scope and tenant; they share the engine's one file
  MaxDeploys,      \* bound: calls of deploy()
  MaxInode,        \* bound: files that exist at once
  MaxDeployFaults  \* bound: calls that end early and power losses

ASSUME DeployBounds ==
  /\ MaxVersion \in Nat \ {0} /\ MaxInode \in Nat \ {0}
  /\ MaxDeploys \in Nat /\ MaxDeployFaults \in Nat

VARIABLES
  verStatus,    \* configuration_versions.status
  targetFile,   \* the inode the target's name refers to
  targetOnDisk, \* the same after a power loss, if the directory is not synced
  tempFile,     \* per pid
  content,      \* what an inode holds: a version, Blank or Mixed
  synced,       \* inodes whose content is durable
  deployPc,     \* where a call is
  pid,          \* process.pid where it runs
  want,         \* the content it writes
  back,         \* whether it rolls back
  prev,         \* the target's previous content, 0 when there was none
  handle,       \* its open file
  clash,        \* history: two calls with one pid were writing
  overlapped,   \* history: two calls were in deploy()
  broken,       \* history: a call ended early, or the power was lost
  latest,       \* history: the version recorded as deployed last, 0 when none is
  unrestored,   \* history: since then a failed reload put nothing back
  deploys, deployFaults

fileVars == <<targetFile, targetOnDisk, tempFile, content, synced>>
localVars == <<pid, want, back, prev, handle>>
deployVars == <<verStatus, latest, unrestored, fileVars, deployPc, localVars,
                clash, overlapped, broken, deploys, deployFaults>>

Versions == 1..MaxVersion
Blank == 0
Mixed == MaxVersion + 1
Inodes == 1..MaxInode

\* No version is deployed yet, or the first one is.
DeployInit ==
  /\ \/ /\ verStatus = [v \in Versions |-> "approved"]
        /\ targetFile = 0 /\ synced = {} /\ latest = 0
        /\ content = [i \in Inodes |-> Blank]
     \/ /\ verStatus = [v \in Versions |-> IF v = 1 THEN "deployed" ELSE "approved"]
        /\ targetFile = 1 /\ synced = {1} /\ latest = 1
        /\ content = [i \in Inodes |-> IF i = 1 THEN 1 ELSE Blank]
  /\ targetOnDisk = targetFile
  /\ tempFile = [p \in Pids |-> 0]
  /\ deployPc = [d \in Deployers |-> "idle"]
  /\ pid \in [Deployers -> Pids]
  /\ want = [d \in Deployers |-> 0] /\ back = [d \in Deployers |-> FALSE]
  /\ prev = [d \in Deployers |-> 0] /\ handle = [d \in Deployers |-> 0]
  /\ clash = FALSE /\ overlapped = FALSE /\ broken = FALSE /\ unrestored = FALSE
  /\ deploys = 0 /\ deployFaults = 0

DeployFault == deployFaults < MaxDeployFaults /\ deployFaults' = deployFaults + 1

DeployGoes(d, from, to) == deployPc[d] = from /\ deployPc' = [deployPc EXCEPT ![d] = to]

Record == <<verStatus, latest, unrestored>>
History == <<clash, overlapped, broken, deploys, deployFaults>>

Busy(d) == deployPc[d] # "idle"

Writing(d) == deployPc[d] \in {"write", "sync", "rename"}

\* The call is over: it returned or threw.
EndCallOf(d) ==
  /\ deployPc' = [deployPc EXCEPT ![d] = "idle"]
  /\ want' = [want EXCEPT ![d] = 0] /\ back' = [back EXCEPT ![d] = FALSE]
  /\ prev' = [prev EXCEPT ![d] = 0] /\ handle' = [handle EXCEPT ![d] = 0]
  /\ UNCHANGED pid

-----------------------------------------------------------------------------
(* deploy().                                                               *)

\* The version is approved, and the native validator accepts it.
StartDeploy(d, v) ==
  /\ verStatus[v] = "approved"
  /\ deploys < MaxDeploys /\ deploys' = deploys + 1
  /\ DeployGoes(d, "idle", "read")
  /\ want' = [want EXCEPT ![d] = v]
  /\ overlapped' = (overlapped \/ \E e \in Deployers : Busy(e))
  /\ UNCHANGED <<Record, fileVars, pid, back, prev, handle, clash, broken, deployFaults>>

ReadPrevious(d) ==
  /\ DeployGoes(d, "read", "open")
  /\ prev' = [prev EXCEPT ![d] = IF targetFile = 0 THEN 0 ELSE content[targetFile]]
  /\ UNCHANGED <<Record, fileVars, pid, want, back, handle, History>>

\* A read that fails is taken for a first deployment.
ReadFails(d) ==
  /\ DeployFault /\ DeployGoes(d, "read", "open")
  /\ prev' = [prev EXCEPT ![d] = 0]
  /\ UNCHANGED <<Record, fileVars, pid, want, back, handle, clash, overlapped, broken, deploys>>

InUse == {targetFile, targetOnDisk} \cup {tempFile[p] : p \in Pids}
           \cup {handle[d] : d \in Deployers}

\* The temporary file, or a new one.
OpenedFile(d, i) ==
  IF tempFile[pid[d]] # 0 THEN i = tempFile[pid[d]]
  ELSE i \notin InUse /\ \A k \in 1..(i - 1) : k \in InUse

\* open(path, 'w') truncates.
OpenTemporary(d) ==
  /\ DeployGoes(d, "open", "write")
  /\ \E i \in Inodes :
       /\ OpenedFile(d, i)
       /\ tempFile' = [tempFile EXCEPT ![pid[d]] = i]
       /\ content' = [content EXCEPT ![i] = Blank]
       /\ synced' = synced \ {i}
       /\ handle' = [handle EXCEPT ![d] = i]
  /\ clash' = (clash \/ \E e \in Deployers \ {d} : pid[e] = pid[d] /\ Writing(e))
  /\ UNCHANGED <<Record, targetFile, targetOnDisk, pid, want, back, prev, overlapped, broken,
                 deploys, deployFaults>>

\* handle.writeFile from the start of the file; what another call wrote before
\* shows where it is longer.
WriteTemporary(d) ==
  /\ DeployGoes(d, "write", "sync")
  /\ \E c \in {want[d], Mixed} :
       /\ content[handle[d]] = Blank => c = want[d]
       /\ content' = [content EXCEPT ![handle[d]] = c]
  /\ synced' = synced \ {handle[d]}
  /\ UNCHANGED <<Record, targetFile, targetOnDisk, tempFile, localVars, History>>

\* Mutation: the file is renamed before it is durable.
SyncNothing(d) == synced

\* handle.sync
SyncFile(d) == synced \cup {handle[d]}

SyncTemporary(d) ==
  /\ DeployGoes(d, "sync", "rename")
  /\ synced' = SyncFile(d)
  /\ handle' = [handle EXCEPT ![d] = 0]
  /\ UNCHANGED <<Record, targetFile, targetOnDisk, tempFile, content, pid, want, back, prev,
                 History>>

\* rename() replaces the target; without a temporary file it throws.
Rename(d) ==
  /\ deployPc[d] = "rename"
  /\ \/ /\ tempFile[pid[d]] # 0
        /\ DeployGoes(d, "rename", "syncDirectory")
        /\ targetFile' = tempFile[pid[d]]
        /\ tempFile' = [tempFile EXCEPT ![pid[d]] = 0]
        /\ UNCHANGED localVars
     \/ tempFile[pid[d]] = 0 /\ EndCallOf(d) /\ UNCHANGED <<targetFile, tempFile>>
  /\ UNCHANGED <<Record, targetOnDisk, content, synced, History>>

\* Not portable: it may do nothing.
SyncDirectory(d) ==
  /\ DeployGoes(d, "syncDirectory", "reload")
  /\ targetOnDisk' \in {targetFile, targetOnDisk}
  /\ UNCHANGED <<Record, targetFile, tempFile, content, synced, localVars, History>>

\* The engine restarts with the target, or there is no reload endpoint.
ReloadSucceeds(d) ==
  /\ ~back[d] /\ DeployGoes(d, "reload", "mark")
  /\ UNCHANGED <<Record, fileVars, localVars, History>>

\* The engine did not come back: the previous content is put in place, unless
\* there is none.
ReloadFails(d) ==
  /\ deployPc[d] = "reload" /\ ~back[d]
  /\ \/ /\ prev[d] # 0
        /\ DeployGoes(d, "reload", "open")
        /\ want' = [want EXCEPT ![d] = prev[d]]
        /\ back' = [back EXCEPT ![d] = TRUE]
        /\ UNCHANGED <<pid, prev, handle, unrestored>>
     \/ prev[d] = 0 /\ EndCallOf(d) /\ unrestored' = TRUE
  /\ UNCHANGED <<verStatus, latest, fileVars, History>>

\* The rollback's own reload may fail as well.
RolledBack(d) ==
  /\ deployPc[d] = "reload" /\ back[d]
  /\ EndCallOf(d)
  /\ UNCHANGED <<Record, fileVars, History>>

\* WHERE scope=$1 AND status='deployed', within the tenant.
SupersededBy(v, u) == ScopeOf[u] = ScopeOf[v] /\ verStatus[u] = "deployed"

\* markConfigurationDeployed, unless another call deployed the version.
MarkDeployed(d) ==
  /\ deployPc[d] = "mark"
  /\ LET v == want[d] IN
       \/ verStatus[v] # "approved" /\ UNCHANGED Record
       \/ /\ verStatus[v] = "approved"
          /\ verStatus' = [u \in Versions |->
               IF u = v THEN "deployed"
               ELSE IF SupersededBy(v, u) THEN "superseded" ELSE verStatus[u]]
          /\ latest' = v /\ unrestored' = FALSE
  /\ EndCallOf(d)
  /\ UNCHANGED <<fileVars, History>>

-----------------------------------------------------------------------------
(* Failures.                                                               *)

\* A file operation or the repository rejects, or the process ends.
DeployBreaks(d) ==
  /\ DeployFault /\ Busy(d)
  /\ EndCallOf(d)
  /\ broken' = TRUE
  /\ UNCHANGED <<Record, fileVars, clash, overlapped, deploys>>

PowerLoss ==
  /\ DeployFault
  /\ deployPc' = [d \in Deployers |-> "idle"]
  /\ want' = [d \in Deployers |-> 0] /\ back' = [d \in Deployers |-> FALSE]
  /\ prev' = [d \in Deployers |-> 0] /\ handle' = [d \in Deployers |-> 0]
  /\ targetFile' \in {targetFile, targetOnDisk}
  /\ targetOnDisk' = targetFile'
  /\ content' = [i \in Inodes |-> IF i \in synced THEN content[i] ELSE Mixed]
  /\ synced' = Inodes
  /\ broken' = TRUE
  /\ UNCHANGED <<Record, tempFile, pid, clash, overlapped, deploys>>

DeployNext ==
  \/ PowerLoss
  \/ \E d \in Deployers :
       \/ ReadPrevious(d) \/ ReadFails(d) \/ OpenTemporary(d) \/ WriteTemporary(d)
       \/ SyncTemporary(d) \/ Rename(d) \/ SyncDirectory(d) \/ ReloadSucceeds(d)
       \/ ReloadFails(d) \/ RolledBack(d) \/ MarkDeployed(d) \/ DeployBreaks(d)
       \/ \E v \in Versions : StartDeploy(d, v)

DeploySpec == DeployInit /\ [][DeployNext]_deployVars

-----------------------------------------------------------------------------
(* Properties.                                                             *)

\* "leaving a correctly-named, truncated configuration" never happens: what
\* the engine boots from is one whole version through failed reloads,
\* rollbacks, overlapping replicas, crashes and power losses, as long as no
\* two calls shared a temporary file.  Between calls it is the version recorded
\* as deployed last, whichever scopes' versions are on record beside it, unless
\* calls overlapped, one ended early, or a failed reload found nothing to put
\* back: the target was new, or could not be read.
ConfigSound ==
  /\ targetFile # 0 /\ ~clash => content[targetFile] \in Versions
  /\ ~overlapped /\ ~broken /\ (\A d \in Deployers : ~Busy(d)) /\ ~unrestored /\ latest # 0 =>
       /\ targetFile # 0 /\ content[targetFile] = latest
       /\ \A v \in Versions :
            verStatus[v] = "deployed" /\ ScopeOf[v] = ScopeOf[latest] => v = latest

===============================================================================

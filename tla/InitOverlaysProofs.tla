--------------------------- MODULE InitOverlaysProofs --------------------------
(***************************************************************************)
(* Proofs about InitOverlays, for any directories, hooks and number of     *)
(* faults.                                                                 *)
(***************************************************************************)
EXTENDS InitOverlays, TLAPS

\* What a complete file system holds.
Complete == Dirs \cup (Hooks \ skipped)

\* The commands of init_userdata_format, before and after the file system is
\* made, and those that find it mounted or not.
Formatting == {"mkfs", "mkfs2", "first mount", "dirs", "hooks", "umount", "rename"}
OnNewFs == {"first mount", "dirs", "hooks", "umount", "rename"}
OnMounted == {"dirs", "hooks", "umount", "overlays", "exec", "init"}
OnUnmounted == {"count", "grep", "fix", "create", "reboot", "mkfs", "mkfs2", "first mount",
                "rename", "partprobe", "mount"}

\* Where the script is says whether the partition is mounted, and how far a
\* partition that is still named "raw" has come.
FormatInv ==
    /\ pc \in OnMounted => mounted
    /\ pc \in OnUnmounted => ~mounted
    /\ pc \in Formatting => label = "raw"
    /\ pc \in OnNewFs => fs = "made"
    /\ pc = "hooks" => Dirs \subseteq cache
    /\ pc = "umount" => Complete \subseteq cache
    /\ pc = "rename" => Complete \subseteq media
    /\ pc = "partprobe" => label = "userdata"

\* A complete partition stays complete while it is mounted, whatever part of the
\* cache a power loss leaves.
MountInv == label = "userdata" /\ mounted => Complete \subseteq cache

\* init runs on a partition that is not named "userdata" only after the table
\* could not be listed.
UseInv ==
    /\ pc = "grep" => label # "none"
    /\ (used \/ pc \in {"mount", "overlays", "exec", "init"}) /\ label # "userdata" => misread

\* What holds between any two commands of the script.
Inductive == TypeOK /\ NamedIsComplete /\ UserDataIsKept /\ FormatInv /\ MountInv /\ UseInv

\* The two halves of TypeOK: the provers take flags and other values apart.
Flags == mounted \in BOOLEAN /\ used \in BOOLEAN /\ misread \in BOOLEAN /\ wiped \in BOOLEAN
Data ==
    /\ pc \in Commands \cup {"count", "grep", "hooks", "init", "panic"}
    /\ label \in {"none", "raw", "userdata"}
    /\ fs \in {"none", "torn", "made"}
    /\ media \subseteq Dirs \cup Hooks /\ cache \subseteq Dirs \cup Hooks
    /\ skipped \subseteq Hooks
    /\ faults \in 0 .. MaxFaults

\* They make it up, before and after a step.
LEMMA TypeHalves == (TypeOK <=> Flags /\ Data) /\ (TypeOK' <=> Flags' /\ Data')
BY DEF TypeOK, Flags, Data

\* The number of faults stays within its bound.
LEMMA FaultsBounded ==
    ASSUME faults \in 0 .. MaxFaults, Faulted \/ UNCHANGED faults
    PROVE  faults' \in 0 .. MaxFaults
BY FaultsAssumption DEF Faulted, CanFail

\* The first boot finds a raw partition or none.
LEMMA InitInductive == Init => Inductive
<1> SUFFICES ASSUME Init PROVE Inductive
  OBVIOUS
<1>1. Flags
  BY DEF Init, Flags
<1>2. Data
  BY FaultsAssumption DEF Init, Data, Commands
<1>3. NamedIsComplete /\ UserDataIsKept /\ MountInv /\ UseInv
  BY DEF Init, NamedIsComplete, UserDataIsKept, MountInv, UseInv
<1>4. FormatInv
  BY DEF Init, FormatInv, Formatting, OnNewFs, OnMounted, OnUnmounted
<1> QED
  BY <1>1, <1>2, <1>3, <1>4, TypeHalves DEF Inductive

\* A restart leaves of the mounted file system at least what the medium and the
\* cache agree on.
LEMMA RestartInductive ==
    ASSUME Inductive, Restart, Faulted \/ UNCHANGED faults
    PROVE  Inductive'
<1>1. /\ media' \subseteq media \cup cache
      /\ mounted => media \cap cache \subseteq media'
      /\ ~mounted => media' = media
  BY DEF Restart
<1>2. /\ pc' = "count" /\ mounted' = FALSE /\ cache' = {}
      /\ UNCHANGED <<label, fs, skipped, used, misread, wiped>>
  BY DEF Restart
<1>3. Flags'
  BY <1>2, TypeHalves DEF Inductive, Flags
<1>4. Data'
  BY <1>1, <1>2, TypeHalves, FaultsBounded DEF Inductive, Data, Commands
<1>5. NamedIsComplete'
  BY <1>1, <1>2 DEF Inductive, NamedIsComplete, MountInv, Complete
<1>6. UserDataIsKept' /\ MountInv' /\ UseInv'
  BY <1>2 DEF Inductive, UserDataIsKept, MountInv, UseInv
<1>7. FormatInv'
  BY <1>2 DEF FormatInv, Formatting, OnNewFs, OnMounted, OnUnmounted
<1> QED
  BY <1>3, <1>4, <1>5, <1>6, <1>7, TypeHalves DEF Inductive

\* The commands that look at the partition table, create the partition and
\* rename it.
LEMMA TableInductive ==
    ASSUME Inductive,
           CountPartitions \/ GrepRaw \/ FixTable \/ CreatePartition \/ Reboot \/ Rename \/ Partprobe
    PROVE  Inductive'
<1> USE DEF CountPartitions, GrepRaw, FixTable, CreatePartition, Reboot, Rename, Partprobe, Goes,
            Inductive
<1>1. Flags'
  BY TypeHalves DEF Flags
<1>2. Data'
  BY TypeHalves, FaultsBounded DEF Data, Commands
<1>3. NamedIsComplete'
  BY DEF NamedIsComplete, FormatInv, Complete, OnNewFs
<1>4. MountInv'
  BY DEF MountInv, FormatInv, Complete, OnUnmounted
<1>5. FormatInv'
  <2>1. CASE CountPartitions
    BY <2>1 DEF FormatInv, Complete, Formatting, OnNewFs, OnMounted, OnUnmounted
  <2>2. CASE GrepRaw
    BY <2>2 DEF FormatInv, Complete, Formatting, OnNewFs, OnMounted, OnUnmounted
  <2>3. CASE FixTable
    BY <2>3 DEF FormatInv, Complete, Formatting, OnNewFs, OnMounted, OnUnmounted
  <2>4. CASE CreatePartition
    BY <2>4 DEF FormatInv, Complete, Formatting, OnNewFs, OnMounted, OnUnmounted
  <2>5. CASE Reboot
    BY <2>5 DEF FormatInv, Complete, Formatting, OnNewFs, OnMounted, OnUnmounted
  <2>6. CASE Rename
    BY <2>6 DEF FormatInv, Complete, Formatting, OnNewFs, OnMounted, OnUnmounted
  <2>7. CASE Partprobe
    BY <2>7 DEF FormatInv, Complete, Formatting, OnNewFs, OnMounted, OnUnmounted
  <2> QED
    BY <2>1, <2>2, <2>3, <2>4, <2>5, <2>6, <2>7
<1>6. UserDataIsKept'
  BY DEF UserDataIsKept
<1>7. UseInv'
  <2>1. CASE CountPartitions
    BY <2>1, TypeHalves DEF Data, UseInv, FormatInv, Formatting
  <2>2. CASE GrepRaw
    BY <2>2, TypeHalves DEF Data, UseInv, FormatInv, Formatting
  <2>3. CASE FixTable
    BY <2>3, TypeHalves DEF Data, UseInv, FormatInv, Formatting
  <2>4. CASE CreatePartition
    BY <2>4, TypeHalves DEF Data, UseInv, FormatInv, Formatting
  <2>5. CASE Reboot
    BY <2>5, TypeHalves DEF Data, UseInv, FormatInv, Formatting
  <2>6. CASE Rename
    BY <2>6, TypeHalves DEF Data, UseInv, FormatInv, Formatting
  <2>7. CASE Partprobe
    BY <2>7, TypeHalves DEF Data, UseInv, FormatInv, Formatting
  <2> QED
    BY <2>1, <2>2, <2>3, <2>4, <2>5, <2>6, <2>7
<1> QED
  BY <1>1, <1>2, <1>3, <1>4, <1>5, <1>6, <1>7, TypeHalves

\* The commands that format and fill the file system, of a raw partition only.
LEMMA FormatInductive ==
    ASSUME Inductive,
           \/ StartMkfs \/ EndMkfs \/ Mount("first mount", "dirs") \/ DirsMade
           \/ (\E d \in Dirs : MakeDir(d)) \/ (\E h \in Hooks : RunHook(h)) \/ HooksRun \/ Umount
    PROVE  Inductive'
<1> USE DEF StartMkfs, EndMkfs, Mount, DirsMade, MakeDir, RunHook, HooksRun, Umount, Goes, Inductive
<1>1. Flags'
  BY TypeHalves DEF Flags
<1>2. Data'
  BY TypeHalves, FaultsBounded DEF Data, Commands
<1>3. label = "raw" /\ label' = "raw"
  BY DEF FormatInv, Formatting
<1>4. NamedIsComplete' /\ MountInv'
  BY <1>3 DEF NamedIsComplete, MountInv
<1>5. FormatInv'
  <2>1. CASE StartMkfs
    BY <2>1, <1>3 DEF FormatInv, Complete, Formatting, OnNewFs, OnMounted, OnUnmounted
  <2>2. CASE EndMkfs
    BY <2>2, <1>3 DEF FormatInv, Complete, Formatting, OnNewFs, OnMounted, OnUnmounted
  <2>3. CASE Mount("first mount", "dirs")
    BY <2>3, <1>3 DEF FormatInv, Complete, Formatting, OnNewFs, OnMounted, OnUnmounted
  <2>4. CASE DirsMade
    BY <2>4, <1>3 DEF FormatInv, Complete, Formatting, OnNewFs, OnMounted, OnUnmounted
  <2>5. CASE \E d \in Dirs : MakeDir(d)
    BY <2>5, <1>3 DEF FormatInv, Complete, Formatting, OnNewFs, OnMounted, OnUnmounted
  <2>6. CASE \E h \in Hooks : RunHook(h)
    BY <2>6, <1>3 DEF FormatInv, Complete, Formatting, OnNewFs, OnMounted, OnUnmounted
  <2>7. CASE HooksRun
    BY <2>7, <1>3 DEF FormatInv, Complete, Formatting, OnNewFs, OnMounted, OnUnmounted
  <2>8. CASE Umount
    BY <2>8, <1>3 DEF FormatInv, Complete, Formatting, OnNewFs, OnMounted, OnUnmounted
  <2> QED
    BY <2>1, <2>2, <2>3, <2>4, <2>5, <2>6, <2>7, <2>8
<1>6. UserDataIsKept'
  BY <1>3 DEF UserDataIsKept, UseInv
<1>7. UseInv'
  <2>1. CASE StartMkfs
    BY <2>1, <1>3 DEF UseInv
  <2>2. CASE EndMkfs
    BY <2>2, <1>3 DEF UseInv
  <2>3. CASE Mount("first mount", "dirs")
    BY <2>3, <1>3 DEF UseInv
  <2>4. CASE DirsMade
    BY <2>4, <1>3 DEF UseInv
  <2>5. CASE \E d \in Dirs : MakeDir(d)
    BY <2>5, <1>3 DEF UseInv
  <2>6. CASE \E h \in Hooks : RunHook(h)
    BY <2>6, <1>3 DEF UseInv
  <2>7. CASE HooksRun
    BY <2>7, <1>3 DEF UseInv
  <2>8. CASE Umount
    BY <2>8, <1>3 DEF UseInv
  <2> QED
    BY <2>1, <2>2, <2>3, <2>4, <2>5, <2>6, <2>7, <2>8
<1> QED
  BY <1>1, <1>2, <1>4, <1>5, <1>6, <1>7, TypeHalves

\* The commands that mount what there is and become init, and a failing one.
LEMMA MountInductive ==
    ASSUME Inductive,
           Mount("mount", "overlays") \/ MountOverlays \/ ExecInit \/ Fails
    PROVE  Inductive'
<1> USE DEF Mount, MountOverlays, ExecInit, Fails, Goes, Inductive
<1>1. Flags'
  BY TypeHalves DEF Flags
<1>2. Data'
  BY TypeHalves, FaultsBounded DEF Data, Commands
<1>3. NamedIsComplete'
  BY DEF NamedIsComplete
<1>4. MountInv'
  BY DEF MountInv, NamedIsComplete, Complete
<1>5. FormatInv'
  BY DEF FormatInv, Complete, Formatting, OnNewFs, OnMounted, OnUnmounted
<1>6. UserDataIsKept' /\ UseInv'
  BY DEF UserDataIsKept, UseInv
<1> QED
  BY <1>1, <1>2, <1>3, <1>4, <1>5, <1>6, TypeHalves

\* Every command of the script, a failing command and a power loss anywhere keep
\* the invariant.
THEOREM InductiveInvariant == Spec => []Inductive
<1>1. Inductive /\ [Next]_vars => Inductive'
  <2> SUFFICES ASSUME Inductive, [Next]_vars PROVE Inductive'
    OBVIOUS
  <2>1. CASE PowerLoss \/ PowerCycle
    BY <2>1, RestartInductive DEF PowerLoss, PowerCycle
  <2>2. CASE CountPartitions \/ GrepRaw \/ FixTable \/ CreatePartition \/ Reboot \/ Rename \/ Partprobe
    BY <2>2, TableInductive
  <2>3. CASE \/ StartMkfs \/ EndMkfs \/ Mount("first mount", "dirs") \/ DirsMade
             \/ (\E d \in Dirs : MakeDir(d)) \/ (\E h \in Hooks : RunHook(h)) \/ HooksRun \/ Umount
    BY <2>3, FormatInductive
  <2>4. CASE Mount("mount", "overlays") \/ MountOverlays \/ ExecInit \/ Fails
    BY <2>4, MountInductive
  <2>5. CASE UNCHANGED vars
    BY <2>5 DEF vars, Inductive, TypeOK, NamedIsComplete, UserDataIsKept, FormatInv, MountInv, UseInv,
                Complete
  <2> QED
    BY <2>1, <2>2, <2>3, <2>4, <2>5 DEF Next, Boot
<1> QED
  BY <1>1, InitInductive, PTL DEF Spec

\* Whenever the power fails and whatever of the cache is lost, a partition that
\* is named "userdata" has its file system, with every directory and the result
\* of every hook that did not fail, on the medium (init_userdata_format).
THEOREM NamedAlwaysComplete == Spec => []NamedIsComplete
<1>1. Inductive => NamedIsComplete
  BY DEF Inductive
<1> QED
  BY <1>1, InductiveInvariant, PTL

\* User data is never formatted as long as the partition table can be listed
\* (HAS_RAW_USERDATA).
THEOREM UserDataAlwaysKept == Spec => []UserDataIsKept
<1>1. Inductive => UserDataIsKept
  BY DEF Inductive
<1> QED
  BY <1>1, InductiveInvariant, PTL

(***************************************************************************)
(* No state of the disk is a dead end.                                     *)
(***************************************************************************)

\* A command finds the disk in a state that it cannot work on only after the
\* partition table could not be listed.
RefusedOnlyMisread == Refused => misread

\* A partition is made only where none was found.
TableInv == pc \in {"fix", "create"} /\ label # "none" => misread

\* What the script has seen of the table, and what it did since, is what its
\* commands rely on.
LEMMA RefusedIsMisread ==
    ASSUME Inductive, TableInv
    PROVE  RefusedOnlyMisread
<1> SUFFICES ASSUME Refused PROVE misread
  BY DEF RefusedOnlyMisread
<1>1. CASE pc = "create" /\ label # "none"
  BY <1>1 DEF TableInv
<1>2. CASE pc = "first mount" /\ fs # "made"
  BY <1>2 DEF Inductive, FormatInv, OnNewFs
<1>3. CASE pc = "mount" /\ fs # "made"
  BY <1>3 DEF Inductive, UseInv, NamedIsComplete
<1>4. CASE pc = "overlays" /\ ~(EtcDirs \subseteq cache)
  <2>1. mounted /\ Dirs \subseteq Complete
    BY <1>4 DEF Inductive, FormatInv, OnMounted, Complete
  <2>2. label # "userdata"
    BY <1>4, <2>1, DirsAssumption DEF Inductive, MountInv
  <2> QED
    BY <1>4, <2>2 DEF Inductive, UseInv
<1> QED
  BY <1>1, <1>2, <1>3, <1>4 DEF Refused

\* Only listing the table leads to making a partition, and only making one
\* names it.
LEMMA TableKept ==
    ASSUME TableInv, [Next]_vars
    PROVE  TableInv'
<1>1. CASE CountPartitions
  BY <1>1 DEF CountPartitions, TableInv
<1>2. CASE FixTable
  BY <1>2 DEF FixTable, Goes, TableInv
<1>3. CASE UNCHANGED vars
  BY <1>3 DEF vars, TableInv
<1>4. CASE \/ GrepRaw \/ CreatePartition \/ Reboot \/ StartMkfs \/ EndMkfs \/ DirsMade
           \/ HooksRun \/ Umount \/ Rename \/ Partprobe \/ MountOverlays \/ ExecInit
           \/ Mount("first mount", "dirs") \/ Mount("mount", "overlays")
  <2>1. pc' \notin {"fix", "create"}
    BY <1>4 DEF GrepRaw, CreatePartition, Reboot, StartMkfs, EndMkfs, DirsMade, HooksRun, Umount,
                Rename, Partprobe, MountOverlays, ExecInit, Mount, Goes
  <2> QED
    BY <2>1 DEF TableInv
<1>5. CASE (\E d \in Dirs : MakeDir(d)) \/ (\E h \in Hooks : RunHook(h))
  <2>1. pc' \notin {"fix", "create"}
    BY <1>5 DEF MakeDir, RunHook
  <2> QED
    BY <2>1 DEF TableInv
<1>6. CASE Fails \/ PowerCycle \/ PowerLoss
  <2>1. pc' \notin {"fix", "create"}
    BY <1>6 DEF Fails, PowerCycle, PowerLoss, Restart
  <2> QED
    BY <2>1 DEF TableInv
<1> QED
  BY <1>1, <1>2, <1>3, <1>4, <1>5, <1>6 DEF Next, Boot

\* Wherever the power fails, what it leaves is a disk that every command of the
\* next boot can work on, unless the table could not be listed: no power loss
\* makes the script end in set -e boot after boot.  It is the safety part of
\* ComesUp.
THEOREM AlwaysRefusedOnlyMisread == Spec => []RefusedOnlyMisread
<1>1. Init => TableInv
  BY DEF Init, TableInv
<1>2. TableInv /\ [Next]_vars => TableInv'
  BY TableKept
<1>3. Inductive /\ TableInv => RefusedOnlyMisread
  BY RefusedIsMisread
<1> QED
  BY <1>1, <1>2, <1>3, InductiveInvariant, PTL DEF Spec

\* Every variable of the script, the partition and its file system keeps its type.
THEOREM TypeCorrect == Spec => []TypeOK
<1>1. Inductive => TypeOK
  BY DEF Inductive
<1> QED
  BY <1>1, InductiveInvariant, PTL
================================================================================

------------------------------ MODULE InitOverlays -----------------------------
(***************************************************************************)
(* The first process of the system (init-overlays): it creates and formats *)
(* the user data partition on the first boots, mounts it and the overlay   *)
(* of /etc, and becomes init.  Power may fail between any two steps, and   *)
(* every command may fail.                                                 *)
(*                                                                         *)
(* Under set -e a failing command ends the script and with it, as it is    *)
(* process 1, the boot.  Not so in a pipe, where only the last command     *)
(* counts, nor in find -exec, which does not pass on a hook's status.      *)
(*                                                                         *)
(* sgdisk, mkfs.f2fs and the file system are external: a table is written  *)
(* whole or not at all, what a mounted file system was told may be lost    *)
(* with the power until it is unmounted.                                   *)
(***************************************************************************)
EXTENDS Naturals, FiniteSets

CONSTANTS
    Dirs,       \* the directories that the script makes on the new file system
    EtcDirs,    \* those that the overlay of /etc needs
    Hooks,      \* the format hooks; each makes directories of its own
    MaxFaults   \* bound on power losses, failing commands and reads

ASSUME DirsAssumption == EtcDirs \subseteq Dirs /\ Dirs \cap Hooks = {}
ASSUME FaultsAssumption == MaxFaults \in Nat

VARIABLES
    pc,         \* the command that is next
    label,      \* of partition 8: "none" when it does not exist, "raw" or "userdata"
    fs,         \* its file system: "none", "torn" while it is made, or "made"
    media,      \* directories and hook results on the medium
    cache,      \* and in the mounted file system
    mounted,    \* is it mounted?
    skipped,    \* history: hooks that failed
    used,       \* history: init has run on this file system
    misread,    \* history: the table could not be listed when it was looked at
    wiped,      \* history: a file system that was in use was formatted
    faults

vars == <<pc, label, fs, media, cache, mounted, skipped, used, misread, wiped, faults>>

Init ==
    /\ pc = "count"
    /\ label \in {"none", "raw"}
    /\ fs = "none"
    /\ media = {} /\ cache = {}
    /\ mounted = FALSE
    /\ skipped = {}
    /\ used = FALSE
    /\ misread = FALSE
    /\ wiped = FALSE
    /\ faults = 0

--------------------------------------------------------------------------------
CanFail == faults < MaxFaults
Faulted == CanFail /\ faults' = faults + 1

\* One command that succeeds and has no effect but the one on the variables that
\* its action names.
Goes(from, to) == pc = from /\ pc' = to /\ UNCHANGED faults

\* NUM_LINES: when sgdisk fails, wc counts no line.
CountPartitions ==
    /\ pc = "count"
    /\ \/ /\ pc' = IF label = "none" THEN "fix" ELSE "grep"
          /\ UNCHANGED <<misread, faults>>
       \/ pc' = "fix" /\ misread' = TRUE /\ Faulted
    /\ UNCHANGED <<label, fs, media, cache, mounted, skipped, used, wiped>>

\* HAS_RAW_USERDATA, likewise.
GivesUpOnTorn ==
    /\ pc = "grep"
    /\ pc' = IF label = "raw" /\ fs # "torn" THEN "mkfs" ELSE "mount"
    /\ UNCHANGED <<label, fs, media, cache, mounted, skipped, used, misread, wiped, faults>>
GrepRaw ==
    /\ pc = "grep"
    /\ \/ /\ pc' = IF label = "raw" THEN "mkfs" ELSE "mount"
          /\ UNCHANGED <<misread, faults>>
       \/ pc' = "mount" /\ misread' = TRUE /\ Faulted
    /\ UNCHANGED <<label, fs, media, cache, mounted, skipped, used, wiped>>

\* init_userdata_part; sgdisk refuses to create a partition that exists.
FixTable ==
    /\ Goes("fix", "create")
    /\ UNCHANGED <<label, fs, media, cache, mounted, skipped, used, misread, wiped>>

CreatePartition ==
    /\ label = "none"
    /\ Goes("create", "reboot")
    /\ label' = "raw"
    /\ UNCHANGED <<fs, media, cache, mounted, skipped, used, misread, wiped>>

Reboot ==
    /\ Goes("reboot", "count")
    /\ UNCHANGED <<label, fs, media, cache, mounted, skipped, used, misread, wiped>>

\* init_userdata_format.  mkfs overwrites what is there, and takes its time.
StartMkfs ==
    /\ Goes("mkfs", "mkfs2")
    /\ fs' = "torn"
    /\ media' = {}
    /\ wiped' = (wiped \/ used)
    /\ UNCHANGED <<label, cache, mounted, skipped, used, misread>>

EndMkfs ==
    /\ Goes("mkfs2", "first mount")
    /\ fs' = "made"
    /\ skipped' = {}
    /\ UNCHANGED <<label, media, cache, mounted, used, misread, wiped>>

Mount(from, to) ==
    /\ fs = "made"
    /\ Goes(from, to)
    /\ mounted' = TRUE
    /\ cache' = media
    /\ UNCHANGED <<label, fs, media, skipped, used, misread, wiped>>

MakeDir(d) ==
    /\ pc = "dirs" /\ d \notin cache
    /\ cache' = cache \cup {d}
    /\ UNCHANGED <<pc, label, fs, media, mounted, skipped, used, misread, wiped, faults>>

DirsMade ==
    /\ Dirs \subseteq cache
    /\ Goes("dirs", "hooks")
    /\ UNCHANGED <<label, fs, media, cache, mounted, skipped, used, misread, wiped>>

\* find -exec sh: the status of a hook is lost.
RunHook(h) ==
    /\ pc = "hooks" /\ h \notin cache \cup skipped
    /\ \/ cache' = cache \cup {h} /\ UNCHANGED <<skipped, faults>>
       \/ skipped' = skipped \cup {h} /\ Faulted /\ UNCHANGED cache
    /\ UNCHANGED <<pc, label, fs, media, mounted, used, misread, wiped>>

HooksRun ==
    /\ Hooks \subseteq cache \cup skipped
    /\ Goes("hooks", "umount")
    /\ UNCHANGED <<label, fs, media, cache, mounted, skipped, used, misread, wiped>>

\* umount writes everything out; only then is the partition renamed.
RenamesMounted ==
    /\ Goes("umount", "rename")
    /\ UNCHANGED <<label, fs, media, cache, mounted, skipped, used, misread, wiped>>
Umount ==
    /\ Goes("umount", "rename")
    /\ media' = cache
    /\ mounted' = FALSE
    /\ UNCHANGED <<label, fs, cache, skipped, used, misread, wiped>>

StaysRaw ==
    /\ Goes("rename", "partprobe")
    /\ UNCHANGED <<label, fs, media, cache, mounted, skipped, used, misread, wiped>>
Rename ==
    /\ Goes("rename", "partprobe")
    /\ label' = "userdata"
    /\ UNCHANGED <<fs, media, cache, mounted, skipped, used, misread, wiped>>

Partprobe ==
    /\ Goes("partprobe", "mount")
    /\ UNCHANGED <<label, fs, media, cache, mounted, skipped, used, misread, wiped>>

\* mount_overlays, which needs its directories.
MountOverlays ==
    /\ EtcDirs \subseteq cache
    /\ Goes("overlays", "exec")
    /\ UNCHANGED <<label, fs, media, cache, mounted, skipped, used, misread, wiped>>

\* exec /sbin/init: from here on there is data of the user.
ExecInit ==
    /\ Goes("exec", "init")
    /\ used' = TRUE
    /\ UNCHANGED <<label, fs, media, cache, mounted, skipped, misread, wiped>>

Commands == {"fix", "create", "reboot", "mkfs", "mkfs2", "first mount", "dirs", "umount", "rename",
             "partprobe", "mount", "overlays", "exec"}

\* A command fails, and set -e ends the boot.  Those that depend on the state of
\* the disk fail by themselves.
Refused ==
    \/ pc = "create" /\ label # "none"
    \/ pc \in {"first mount", "mount"} /\ fs # "made"
    \/ pc = "overlays" /\ ~(EtcDirs \subseteq cache)
Fails ==
    /\ \/ pc \in Commands /\ Faulted
       \/ Refused /\ UNCHANGED faults
    /\ pc' = "panic"
    /\ UNCHANGED <<label, fs, media, cache, mounted, skipped, used, misread, wiped>>

\* The machine starts again: what was not written out may or may not be there.
Restart ==
    /\ pc' = "count"
    /\ mounted' = FALSE
    /\ IF mounted
       THEN media' \in {(media \cap cache) \cup s : s \in SUBSET ((media \cup cache) \ (media \cap cache))}
       ELSE UNCHANGED media
    /\ cache' = {}
    /\ UNCHANGED <<label, fs, skipped, used, misread, wiped>>

PowerLoss == Faulted /\ Restart
PowerCycle == pc = "panic" /\ UNCHANGED faults /\ Restart

--------------------------------------------------------------------------------
Boot ==
    \/ CountPartitions \/ GrepRaw \/ FixTable \/ CreatePartition \/ Reboot
    \/ StartMkfs \/ EndMkfs \/ Mount("first mount", "dirs") \/ (\E d \in Dirs : MakeDir(d)) \/ DirsMade
    \/ (\E h \in Hooks : RunHook(h)) \/ HooksRun \/ Umount \/ Rename \/ Partprobe
    \/ Mount("mount", "overlays") \/ MountOverlays \/ ExecInit \/ Fails \/ PowerCycle

Next == Boot \/ PowerLoss

\* The script runs on, and a machine that has stopped is switched off and on.
Spec == Init /\ [][Next]_vars /\ WF_vars(Boot)

--------------------------------------------------------------------------------
(* Correctness.                                                            *)

\* Every variable holds a value of its type.
TypeOK ==
    /\ pc \in Commands \cup {"count", "grep", "hooks", "init", "panic"}
    /\ label \in {"none", "raw", "userdata"}
    /\ fs \in {"none", "torn", "made"}
    /\ media \subseteq Dirs \cup Hooks /\ cache \subseteq Dirs \cup Hooks
    /\ skipped \subseteq Hooks
    /\ mounted \in BOOLEAN /\ used \in BOOLEAN /\ misread \in BOOLEAN /\ wiped \in BOOLEAN
    /\ faults \in 0 .. MaxFaults

\* The name "userdata" says that the file system is there with all of its
\* directories, on the medium: whenever the power fails, a partition that is not
\* complete is formatted again.
NamedIsComplete ==
    label = "userdata" => /\ fs = "made"
                          /\ Dirs \cup (Hooks \ skipped) \subseteq media

\* Only a partition that init has never run on is formatted, as long as the
\* partition table could be listed (HAS_RAW_USERDATA takes a failing sgdisk for
\* an initialised partition).
UserDataIsKept == wiped => misread

\* However often the power and commands fail, if they stop failing the system
\* comes up.
ComesUp == <>[](pc = "init")

--------------------------------------------------------------------------------
\* "All good - starting init": the hooks have created their directories.
AllGood == pc = "init" => misread \/ Dirs \cup Hooks \subseteq cache
================================================================================

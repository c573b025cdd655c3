----------------------------- MODULE MCInitOverlays ----------------------------
(* InitOverlays for TLC: the directories of /etc, one other, and two hooks.   *)
EXTENDS InitOverlays
CONSTANTS etc, work, logs, confd, other
MCDirs == {etc, work, logs}
MCEtcDirs == {etc, work}
MCHooks == {confd, other}
================================================================================

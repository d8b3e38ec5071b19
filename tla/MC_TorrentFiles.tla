--------------------------- MODULE MC_TorrentFiles ---------------------------
(***************************************************************************)
(* Model-checking instance of TorrentFiles: two files, two concurrent      *)
(* requests, and the properties.                                           *)
(***************************************************************************)
EXTENDS TorrentFiles

CONSTANTS c1, c2, Private

MCClients == {c1, c2}
MCModes == {Standard, Private}

(***************************************************************************)
(* Type invariant.                                                         *)
(***************************************************************************)
TypeOK ==
    /\ prio \in [FileIdx -> Priorities]
    /\ done \in [FileIdx -> BOOLEAN]
    /\ profile \in [mode : Modes, hops : 0 .. MaxHops]
    /\ selected \subseteq FileIdx
    /\ progress \in [FileIdx -> 0 .. Size]
    /\ perFile \in BOOLEAN
    /\ pc \in [Clients -> {"idle", "update"}]
    /\ want \in [Clients -> SUBSET FileIdx]
    /\ budget \in 0 .. MaxRequests

(***************************************************************************)
(* Spec 4.2 step 7: a file is "downloaded" only when the engine has all    *)
(* of its bytes.  get_content reports runtime.files[i].downloaded; tick    *)
(* sets it from file_progress, or, when the engine reports finished        *)
(* without a per-file array, for every file the registry does not skip.    *)
(***************************************************************************)
DownloadedSound == \A f \in FileIdx : done[f] => progress[f] >= Size

(***************************************************************************)
(* A file the engine has completed and the registry does not skip is       *)
(* eventually reported downloaded (or skipped), whether the engine's stats *)
(* carry file_progress or only finished.                                   *)
(***************************************************************************)
FileCompletionReported ==
    \A f \in FileIdx :
        (progress[f] >= Size /\ prio[f] # "skip") ~> (done[f] \/ prio[f] = "skip")

=============================================================================

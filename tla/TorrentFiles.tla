---------------------------- MODULE TorrentFiles ----------------------------
(***************************************************************************)
(* The per-file part of one torrent record and the daemon code that moves  *)
(* it: h_patch_file_priority (set_file_priority and only_files_for in one  *)
(* critical section, then update_only_files on the engine after the lock   *)
(* is released), h_patch_profile (set_profile in one critical section),    *)
(* and the last step of tick()'s stats loop, which recomputes every file's *)
(* downloaded flag from the engine's report.                               *)
(*                                                                         *)
(* A file is its index in runtime.files; the record's file list is fixed   *)
(* at integration and every path of a request matches the files in some   *)
(* set P of indices.  Only "skip" is told apart by the code, so the other  *)
(* three priorities are represented by the members of Priorities other     *)
(* than "skip".  The engine side (its only_files selection and per-file    *)
(* bytes) is modelled from the collaborator contract: it transfers the     *)
(* files it selects, and its stats carry finished (every selected file     *)
(* complete) and, depending on the engine build, a file_progress array     *)
(* (perFile), the same at every tick.                                      *)
(***************************************************************************)
EXTENDS Naturals, FiniteSets

CONSTANTS
    FileIdx,        \* indices of runtime.files
    Size,           \* size of every file, in abstract byte units
    Priorities,     \* priority strings requests carry ("skip" among them)
    Modes,          \* TorrentMode
    Standard,       \* TorrentMode::Standard, the mode of a new record
    HopInputs,      \* hops values requests carry
    MaxHops,        \* MAX_HOPS of PatchTorrentProfileRequest::validate
    Clients,        \* concurrent requests
    MaxRequests,    \* bound on the number of requests issued in a behaviour
    EngineMayFail   \* whether update_only_files may return an error

ASSUME Size \in Nat \ {0} /\ "skip" \in Priorities /\ MaxRequests \in Nat
ASSUME EngineMayFail \in BOOLEAN /\ Standard \in Modes /\ 0 \in HopInputs

VARIABLES
    prio,       \* runtime.files[i].priority
    done,       \* runtime.files[i].downloaded
    profile,    \* torrent.profile
    selected,   \* the engine's only_files for this torrent
    progress,   \* the engine's bytes of each file
    perFile,    \* the engine's stats carry a file_progress array
    pc,         \* "idle", or "update" between the lock section and the engine call
    want,       \* only_files the request read under the lock
    budget      \* requests still to be issued

vars == <<prio, done, profile, selected, progress, perFile, pc, want, budget>>

Init ==
    /\ prio = [f \in FileIdx |-> CHOOSE p \in Priorities : p # "skip"]
    /\ done = [f \in FileIdx |-> FALSE]
    /\ profile = [mode |-> Standard, hops |-> 0]
    /\ selected = FileIdx
    /\ progress = [f \in FileIdx |-> 0]
    /\ perFile \in BOOLEAN
    /\ pc = [c \in Clients |-> "idle"]
    /\ want = [c \in Clients |-> {}]
    /\ budget = MaxRequests

\* only_files_for: the indices whose priority is not "skip"
OnlyFiles(pr) == {f \in FileIdx : pr[f] # "skip"}

\* set_file_priority: every file some path of the request names gets p
SetFilePriority(pr, P, p) == [f \in FileIdx |-> IF f \in P THEN p ELSE pr[f]]

(***************************************************************************)
(* h_patch_file_priority, first half: under the lock, set_file_priority    *)
(* and only_files_for.  The record exists and its file list is not empty,  *)
(* so both answer and the handler goes on to the engine call.              *)
(***************************************************************************)
PatchFilePriority(c, P, p) ==
    /\ pc[c] = "idle" /\ budget > 0
    /\ budget' = budget - 1
    /\ prio' = SetFilePriority(prio, P, p)
    /\ want' = [want EXCEPT ![c] = OnlyFiles(prio')]
    /\ pc' = [pc EXCEPT ![c] = "update"]
    /\ UNCHANGED <<done, profile, selected, progress, perFile>>

(***************************************************************************)
(* Second half, after the lock is dropped: api_torrent_action_update_only_ *)
(* files with the set read above.  On an error the handler answers 400;    *)
(* the registry keeps the new priorities either way.                       *)
(***************************************************************************)
UpdateOnlyFiles(c) ==
    /\ pc[c] = "update"
    /\ \/ selected' = want[c]
       \/ EngineMayFail /\ UNCHANGED selected
    /\ pc' = [pc EXCEPT ![c] = "idle"]
    /\ want' = [want EXCEPT ![c] = {}]
    /\ UNCHANGED <<prio, done, profile, progress, perFile, budget>>

\* PatchTorrentProfileRequest::validate
ProfileAccepted(h) == h <= MaxHops

\* set_profile with the TorrentProfile the handler builds
SetProfile(m, h) == [mode |-> m, hops |-> h]

\* Seeded fault: the hops bound of validate dropped.
PatchProfileUnvalidated(c, m, h) ==
    /\ pc[c] = "idle" /\ budget > 0
    /\ budget' = budget - 1
    /\ profile' = SetProfile(m, h)
    /\ UNCHANGED <<prio, done, selected, progress, perFile, pc, want>>

\* h_patch_profile: hops above MAX_HOPS answer 400, otherwise set_profile stores the profile
PatchProfile(c, m, h) ==
    /\ pc[c] = "idle" /\ budget > 0
    /\ budget' = budget - 1
    /\ profile' = IF ProfileAccepted(h) THEN SetProfile(m, h) ELSE profile
    /\ UNCHANGED <<prio, done, selected, progress, perFile, pc, want>>

(***************************************************************************)
(* tick(), per-file completion: with a file_progress array, a file is      *)
(* downloaded when its bytes reach its size and it is not skipped;         *)
(* without one but finished, every non-skip file is marked downloaded and  *)
(* skipped files keep their flag; otherwise nothing changes.               *)
(***************************************************************************)
Finished == \A f \in selected : progress[f] >= Size

\* Seeded fault: a file counted complete only past its size.
FileDownloadedStrict(f) == progress[f] > Size /\ prio[f] # "skip"

FileDownloaded(f) == progress[f] >= Size /\ prio[f] # "skip"

FilesFromProgress == [f \in FileIdx |-> FileDownloaded(f)]

FilesFromFinished == [f \in FileIdx |-> IF prio[f] # "skip" THEN TRUE ELSE done[f]]

TickFiles ==
    /\ \/ perFile /\ done' = FilesFromProgress
       \/ ~perFile /\ Finished /\ done' = FilesFromFinished
       \/ ~perFile /\ ~Finished /\ UNCHANGED done
    /\ UNCHANGED <<prio, profile, selected, progress, perFile, pc, want, budget>>

\* the engine transfers a byte of a file it has selected
EngineTransfer(f) ==
    /\ f \in selected /\ progress[f] < Size
    /\ progress' = [progress EXCEPT ![f] = @ + 1]
    /\ UNCHANGED <<prio, done, profile, selected, perFile, pc, want, budget>>

Next ==
    \/ \E c \in Clients :
         \/ \E P \in SUBSET FileIdx, p \in Priorities : PatchFilePriority(c, P, p)
         \/ \E m \in Modes, h \in HopInputs : PatchProfile(c, m, h)
         \/ UpdateOnlyFiles(c)
    \/ TickFiles
    \/ \E f \in FileIdx : EngineTransfer(f)

(***************************************************************************)
(* Fairness: the tick task runs every second, a request in flight gets its *)
(* engine call answered, and the engine keeps transferring the files it    *)
(* has selected (the torrent has peers).                                   *)
(***************************************************************************)
Fairness ==
    /\ WF_vars(TickFiles)
    /\ \A c \in Clients : WF_vars(UpdateOnlyFiles(c))
    /\ \A f \in FileIdx : WF_vars(EngineTransfer(f))

Spec == Init /\ [][Next]_vars /\ Fairness

=============================================================================

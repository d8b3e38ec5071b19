---------------------------- MODULE MC_OrcDaemon ----------------------------
(***************************************************************************)
(* Model-checking instance of OrcDaemon: the constants, a state            *)
(* constraint-free bound through the request budget, and the properties.   *)
(***************************************************************************)
EXTENDS OrcDaemon

CONSTANTS c1, c2, i1, i2, i3, h1, h2

MCClients == {c1, c2}
MCIds == {i1, i2, i3}
MCHashes == {h1, h2}

MCSymmetry == Permutations(MCClients) \cup Permutations(MCIds)

(***************************************************************************)
(* Type invariant.                                                         *)
(***************************************************************************)
TypeOK ==
    /\ EngineTypeOK
    /\ DOMAIN torrents \subseteq issued
    /\ issued \subseteq Ids
    /\ \A i \in DOMAIN torrents : torrents[i] \in Record
                                  /\ Len(torrents[i].hb) <= HeartbeatCap
    /\ ksEnabled \in BOOLEAN /\ ksState \in KillSwitchStates
    /\ netAllowed \in BOOLEAN /\ vpn \in BOOLEAN
    /\ pc \in [Clients -> Labels]
    /\ tid \in [Clients -> Ids \cup {NoId}]
    /\ eid \in [Clients -> EngineIds \cup {0}]
    /\ hsh \in [Clients -> Hashes]
    /\ sawRunning \in [Clients -> BOOLEAN]
    /\ budget \in 0 .. MaxRequests

(***************************************************************************)
(* The registry never holds more than MAX_TORRENTS records, however many   *)
(* adds run concurrently: integrate_added_torrent checks the count in the  *)
(* same critical section that inserts.                                     *)
(***************************************************************************)
CapacityBound == Cardinality(DOMAIN torrents) <= MaxTorrents

(***************************************************************************)
(* A record agrees with its engine torrent: it is running exactly when the *)
(* engine is initializing or live, torrent.running mirrors it, and its     *)
(* state is the one the engine's status and finished flag map to.          *)
(***************************************************************************)
Agree(i) ==
    i \in DOMAIN torrents /\ Managed(torrents[i].eid)
        => /\ torrents[i].running = Active(torrents[i].eid)
           /\ torrents[i].pubRunning = torrents[i].running
           /\ torrents[i].state = EngineState(engine[torrents[i].eid])

(***************************************************************************)
(* Whatever interleaving of start, stop, recheck, add and remove requests  *)
(* and kill-switch engagements has made a record disagree with the engine, *)
(* once the requests stop tick() brings every record back into agreement   *)
(* and keeps it there.  Among those disagreements: set_running(true) on a  *)
(* record added with total_bytes 0 reports Seeding (lib.rs:1458), and a    *)
(* recheck's Checking override outlives the engine's own state.            *)
(***************************************************************************)
RegistryConverges == \A i \in Ids : <>[]Agree(i)

(***************************************************************************)
(* An engaged kill switch is released to Armed once the VPN is back: tick  *)
(* moves Engaged to Armed at the first tick that sees the VPN connected.   *)
(***************************************************************************)
ReleaseOnReconnect ==
    (ksState = "Engaged" /\ vpn) ~> (ksState # "Engaged" \/ ~vpn)

(***************************************************************************)
(* Spec 4.4 and 8: when the kill switch engages, every running torrent is  *)
(* stopped; while it stays Engaged no record is running.                   *)
(***************************************************************************)
KillSwitchStopsTorrents ==
    ksState = "Engaged" => \A i \in DOMAIN torrents : ~torrents[i].running

(***************************************************************************)
(* Spec 7 (PolicyRejected): while the kill switch blocks the network, no   *)
(* request makes the engine start transferring a torrent, whether by       *)
(* adding it or by resuming a paused or failed one.                        *)
(***************************************************************************)
Activated(e) ==
    /\ e \in DOMAIN engine'
    /\ engine'[e].status \in {"initializing", "live"}
    /\ e \in DOMAIN engine => engine[e].status \in {"paused", "error"}

NoEngineStartWhileBlocked ==
    [][Blocked => \A e \in EngineIds : ~Activated(e)]_vars

(***************************************************************************)
(* h_start, h_recheck and h_announce refuse with 403 while the kill       *)
(* switch blocks the network: none of them issues its engine start while   *)
(* the switch blocks.                                                      *)
(***************************************************************************)
GatedStartSteps == {"start_engine", "recheck_start", "announce_start"}

StartGateHolds ==
    [][\A c \in Clients : pc[c] \in GatedStartSteps /\ pc'[c] # pc[c] => ~Blocked]_vars

(***************************************************************************)
(* Spec 4.1 and 8: adding a torrent whose info-hash is already known       *)
(* resumes the existing record instead of creating a second one.           *)
(***************************************************************************)
NoDuplicateInfoHash ==
    \A i, j \in DOMAIN torrents : i # j => torrents[i].hash # torrents[j].hash

(***************************************************************************)
(* Spec 4.1: an add refused with CapacityExceeded leaves nothing behind:   *)
(* every torrent the engine manages belongs to a registry record, or to an *)
(* add request that is about to integrate it.                              *)
(***************************************************************************)
EngineTorrentsRegistered ==
    \A e \in DOMAIN engine :
        \/ \E i \in DOMAIN torrents : torrents[i].eid = e
        \/ \E c \in Clients : pc[c] = "add_integrate" /\ eid[c] = e

(***************************************************************************)
(* Spec 4.2 steps 3 and 6: the running flag tick() derives, false on an    *)
(* engine failure, is mirrored onto the public torrent record.             *)
(***************************************************************************)
RunningMirrored ==
    \A i \in DOMAIN torrents : torrents[i].pubRunning = torrents[i].running

(***************************************************************************)
(* Spec 4.2 steps 3 and 6: a failed stats call in tick sets runtime.running *)
(* false and leaves torrent.running as it was (lib.rs:1684).  The engine   *)
(* forgets a torrent only in h_remove, so the public flag may disagree     *)
(* with the runtime one only while the request that forgot its engine      *)
(* torrent has still to remove the record.                                 *)
(***************************************************************************)
RunningMirroredUnlessRemoving ==
    \A i \in DOMAIN torrents :
        torrents[i].pubRunning # torrents[i].running =>
            \E c \in Clients : pc[c] = "remove_set" /\ tid[c] = i

(***************************************************************************)
(* Spec 4.2 step 1: a heartbeat sample is the throughput since the         *)
(* previous sample.  For every running record, the sample the next tick    *)
(* would push (downloaded_bytes - heartbeat_last_bytes) counts no bytes    *)
(* downloaded before the previous sample, taken at heartbeat_last_sample.  *)
(***************************************************************************)
HeartbeatSinceLastSample ==
    \A i \in DOMAIN torrents :
        torrents[i].running =>
            SatSub(torrents[i].down, torrents[i].hbLast) <= SatSub(torrents[i].down, torrents[i].hbAt)

(***************************************************************************)
(* Refinement: the daemon, with its concurrent requests and ticks,         *)
(* implements the abstract kill switch.  patch_kill_switch is Toggle, a    *)
(* tick's state-machine match with its network_allowed write, and          *)
(* patch_policy, are Evaluate steps, and every other step leaves the       *)
(* switch alone.                                                           *)
(***************************************************************************)
KS == INSTANCE KillSwitch WITH enabled <- ksEnabled, state <- ksState

KillSwitchRefinement == KS!Spec

=============================================================================

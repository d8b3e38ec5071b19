------------------------------- MODULE OrcCore -------------------------------
(***************************************************************************)
(* The process-wide state container of orc-core (OrcState behind one       *)
(* tokio Mutex) and the lib.rs operations that change it.  Each operator   *)
(* below is the body of one lock-held critical section: the daemon         *)
(* (OrcDaemon) calls them from its handlers and from the 1 s tick task.    *)
(*                                                                         *)
(* Data abstraction: a torrent record keeps the fields tick(), the kill    *)
(* switch and the handlers read or write: info-hash, engine id, the two    *)
(* running flags (runtime.running and the public torrent.running),         *)
(* TorrentState, downloaded bytes with their rate-sampling anchor, the     *)
(* download rate (bytes per sampling interval), whether last_error is set, *)
(* the transient Checking override (as the number of ticks it still        *)
(* applies) and the heartbeat ring with its two anchors: hbLast is        *)
(* heartbeat_last_bytes, and hbAt stands for the instant                   *)
(* heartbeat_last_sample, as the downloaded bytes at that instant (time    *)
(* itself is abstracted to ticks).  Names, paths,                          *)
(* profiles, upload counters, files, trackers and peers are left out here. *)
(* The policy is reduced to effective.network_allowed, the only field any  *)
(* code reads back; the kill switch to enabled and enforcement_state.      *)
(***************************************************************************)
EXTENDS Engine, Sequences, FiniteSets

CONSTANTS
    Ids,           \* torrent ids (Uuid::new_v4), never reused
    MaxTorrents,   \* MAX_TORRENTS
    HeartbeatCap,  \* HEARTBEAT_MAX_SAMPLES
    OverrideTicks  \* ticks a force_checking override lasts (4 s at 1 tick/s)

ASSUME MaxTorrents \in Nat \ {0}
ASSUME HeartbeatCap \in Nat \ {0}
ASSUME OverrideTicks \in Nat \ {0}

VARIABLES
    torrents,    \* OrcState.torrents: id -> record
    issued,      \* ids ever handed out (a fresh Uuid is never one of them)
    ksEnabled,   \* kill_switch.enabled
    ksState,     \* kill_switch.enforcement_state
    netAllowed,  \* policy.effective.network_allowed
    vpn          \* what is_vpn_connected() would report now (host interfaces)

coreVars == <<torrents, issued, ksEnabled, ksState, netAllowed, vpn, engineVars>>

TorrentStates == {"Stopped", "Downloading", "Seeding", "Checking", "Error"}
KillSwitchStates == {"Disarmed", "Armed", "Engaged", "Releasing"}
Bytes == 0 .. TotalBytes

Record == [hash : Hashes, eid : EngineIds, running : BOOLEAN, pubRunning : BOOLEAN,
           state : TorrentStates, total : Bytes, down : Bytes, lastDown : Bytes, rate : Bytes,
           err : BOOLEAN, override : 0 .. OverrideTicks,
           hb : Seq(Bytes), hbLast : Bytes, hbAt : Bytes]

\* u64::saturating_sub
SatSub(a, b) == IF a > b THEN a - b ELSE 0

CoreInit ==
    /\ EngineInit
    /\ torrents = [i \in {} |-> CHOOSE r \in Record : TRUE]
    /\ issued = {}
    /\ ksEnabled = FALSE
    /\ ksState = "Disarmed"
    /\ netAllowed = TRUE
    /\ vpn \in BOOLEAN

(***************************************************************************)
(* find_torrent_by_info_hash: the ids whose record carries hash h (the     *)
(* HashMap iteration picks any one of them).                               *)
(***************************************************************************)
FindByInfoHash(h) == {i \in DOMAIN torrents : torrents[i].hash = h}

(***************************************************************************)
(* integrate_added_torrent: refuses when the registry is full, otherwise   *)
(* inserts a fresh record for engine id e, running and Checking.  Its      *)
(* total_bytes is the sum of the answer's file sizes; details.files is an  *)
(* Option, and an answer without it (a magnet whose metadata the engine    *)
(* has not resolved) gives total_bytes 0.                                  *)
(***************************************************************************)
\* Seeded fault: the capacity test off by one (> instead of >=).
CapacityReachedOffByOne == Cardinality(DOMAIN torrents) > MaxTorrents

CapacityReached == Cardinality(DOMAIN torrents) >= MaxTorrents

IntegrateAdded(h, e) ==
    /\ ~CapacityReached
    /\ \E id \in Ids \ issued, tot \in {0, TotalBytes} :
         /\ torrents' = (id :> [hash |-> h, eid |-> e, running |-> TRUE, pubRunning |-> TRUE,
                                state |-> "Checking", total |-> tot, down |-> 0, lastDown |-> 0, rate |-> 0,
                                err |-> FALSE, override |-> 0, hb |-> <<>>, hbLast |-> 0,
                                hbAt |-> 0])
                        @@ torrents
         /\ issued' = issued \cup {id}
    /\ UNCHANGED <<ksEnabled, ksState, netAllowed, vpn, engineVars>>

(***************************************************************************)
(* set_running: NotFound is ignored by every caller (let _ =).             *)
(***************************************************************************)
RunningRecord(r, run) ==
    IF run
    THEN [r EXCEPT !.running = TRUE, !.pubRunning = TRUE,
                   !.state = IF r.down >= r.total THEN "Seeding" ELSE "Downloading"]
    ELSE [r EXCEPT !.running = FALSE, !.pubRunning = FALSE, !.state = "Stopped", !.rate = 0]

SetRunning(id, run) ==
    /\ torrents' = IF id \in DOMAIN torrents
                   THEN [torrents EXCEPT ![id] = RunningRecord(@, run)]
                   ELSE torrents
    /\ UNCHANGED <<issued, ksEnabled, ksState, netAllowed, vpn, engineVars>>

\* remove_torrent
RemoveTorrent(id) ==
    /\ torrents' = Restrict(torrents, DOMAIN torrents \ {id})
    /\ UNCHANGED <<issued, ksEnabled, ksState, netAllowed, vpn, engineVars>>

\* force_checking: Checking override for the next few seconds
ForceChecking(id) ==
    /\ torrents' = IF id \in DOMAIN torrents
                   THEN [torrents EXCEPT ![id].override = OverrideTicks]
                   ELSE torrents
    /\ UNCHANGED <<issued, ksEnabled, ksState, netAllowed, vpn, engineVars>>

\* patch_kill_switch with enabled = Some(en); scope, grace period and
\* triggers are stored but never read, so a patch without `enabled` is a no-op here.
PatchKillSwitch(en) ==
    /\ ksEnabled' = en
    /\ ksState' = IF en THEN "Armed" ELSE "Disarmed"
    /\ UNCHANGED <<torrents, issued, netAllowed, vpn, engineVars>>

\* patch_policy: effective.network_allowed from the switch and the live VPN
PatchPolicy ==
    /\ netAllowed' = IF ksEnabled THEN vpn ELSE TRUE
    /\ UNCHANGED <<torrents, issued, ksEnabled, ksState, vpn, engineVars>>

(***************************************************************************)
(* tick(), in the code's order: heartbeat sampling for the torrents whose  *)
(* 200 ms interval has elapsed (due), the kill-switch state machine with   *)
(* its network_allowed update, then the per-torrent stats reconciliation.  *)
(***************************************************************************)
\* Seeded fault: the heartbeat ring pushed without dropping the oldest sample.
HeartbeatPushUntrimmed(s, v) == Append(s, v)

HeartbeatPush(s, v) ==
    IF Len(s) + 1 > HeartbeatCap THEN Tail(Append(s, v)) ELSE Append(s, v)

HeartbeatSample(r) ==
    IF r.running
    THEN [r EXCEPT !.hb = HeartbeatPush(@, SatSub(r.down, r.hbLast)), !.hbLast = r.down,
                   !.hbAt = r.down]
    ELSE [r EXCEPT !.hb = HeartbeatPush(@, 0), !.hbAt = r.down]

Engages == ksEnabled /\ ksState = "Armed" /\ ~vpn

\* Seeded fault: the Engaged arm of the match missing (falls to no change).
KillSwitchNextSticky ==
    IF Engages THEN "Engaged"
    ELSE IF ksEnabled /\ vpn /\ ksState # "Engaged" THEN "Armed"
    ELSE ksState

\* Seeded fault: the Engaged arm releasing without checking vpn_connected.
KillSwitchNextNoVpnCheck ==
    IF Engages THEN "Engaged"
    ELSE IF ksEnabled THEN "Armed"
    ELSE ksState

KillSwitchNext ==
    IF Engages THEN "Engaged"
    ELSE IF ksEnabled /\ vpn THEN "Armed"
    ELSE ksState

EngageStop(r) ==
    IF r.running
    THEN [r EXCEPT !.running = FALSE, !.pubRunning = FALSE, !.state = "Stopped", !.rate = 0]
    ELSE r

\* the status string and `finished` flag mapped to TorrentState
\* Seeded fault: the "error" arm missing, so it falls to the default arm.
EngineStateNoError(s) ==
    CASE s.status = "paused"       -> "Stopped"
      [] s.status = "initializing" -> "Checking"
      [] OTHER                     -> IF s.bytes = TotalBytes THEN "Seeding" ELSE "Downloading"

EngineState(s) ==
    CASE s.status = "paused"       -> "Stopped"
      [] s.status = "initializing" -> "Checking"
      [] s.status = "error"        -> "Error"
      [] OTHER                     -> IF s.bytes = TotalBytes THEN "Seeding" ELSE "Downloading"

Reconcile(r) ==
    IF ~Managed(r.eid)
    THEN [r EXCEPT !.err = TRUE, !.state = "Error", !.running = FALSE, !.rate = 0]
    ELSE LET s   == engine[r.eid]
             st  == IF r.override > 0 THEN "Checking" ELSE EngineState(s)
             run == st \notin {"Stopped", "Error"}
         IN  [r EXCEPT !.rate = SatSub(s.bytes, r.lastDown), !.lastDown = s.bytes,
                       !.total = TotalBytes, !.down = s.bytes, !.err = (s.status = "error"), !.state = st,
                       !.override = IF @ > 0 THEN @ - 1 ELSE 0,
                       !.running = run, !.pubRunning = run]

Tick ==
    \E due \in SUBSET DOMAIN torrents :
        LET sampled == [i \in DOMAIN torrents |->
                          IF i \in due THEN HeartbeatSample(torrents[i]) ELSE torrents[i]]
            guarded == IF Engages THEN [i \in DOMAIN torrents |-> EngageStop(sampled[i])]
                       ELSE sampled
        IN  /\ torrents' = [i \in DOMAIN torrents |-> Reconcile(guarded[i])]
            /\ ksState' = KillSwitchNext
            /\ netAllowed' = IF ksEnabled THEN vpn ELSE TRUE
            /\ UNCHANGED <<issued, ksEnabled, vpn, engineVars>>

=============================================================================

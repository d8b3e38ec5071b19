------------------------------ MODULE OrcDaemon ------------------------------
(***************************************************************************)
(* orc-daemon: the background tick task and the axum handlers that drive   *)
(* OrcCore.  Every handler takes the state lock in several short critical  *)
(* sections and calls the engine between them, outside the lock; each     *)
(* critical section and each engine call is one step here, so a tick, a    *)
(* VPN change or another request can fall between any two of them.         *)
(*                                                                         *)
(* A client is one in-flight request; pc[c] says which step it is at and   *)
(* tid, eid, hsh, sawRunning hold the handler's locals carried across an   *)
(* await.  Validation of ids and payloads is left out: it only turns       *)
(* malformed input into 400 before any state is touched.                   *)
(***************************************************************************)
EXTENDS OrcCore

CONSTANTS
    Clients,      \* concurrent requests
    MaxRequests,  \* bound on the number of requests issued in a behaviour
    NoId          \* "no torrent id" in a client's locals

ASSUME NoId \notin Ids
ASSUME MaxRequests \in Nat

VARIABLES
    pc,          \* step each client is at ("idle" between requests)
    tid,         \* torrent id the request is about
    eid,         \* rqbit id read under the lock (0 = None)
    hsh,         \* info-hash of an add request
    sawRunning,  \* is_running returned by find_torrent_by_info_hash
    budget       \* requests still to be issued

clientVars == <<pc, tid, eid, hsh, sawRunning, budget>>
vars == <<coreVars, clientVars>>

Labels == {"idle",
           "start_lookup", "start_engine", "start_set",
           "stop_engine", "stop_set",
           "remove_engine", "remove_set",
           "recheck_lookup", "recheck_mark", "recheck_pause", "recheck_start",
           "announce_lookup", "announce_pause", "announce_start",
           "add_existing_lookup", "add_existing_start", "add_existing_set",
           "add_engine", "add_retry", "add_integrate"}

\* the kill-switch gate of h_start, h_recheck and h_announce
Blocked == ksEnabled /\ ~netAllowed

Goto(c, l) == pc' = [pc EXCEPT ![c] = l]

\* a request ends: the client is idle again and its locals are dropped
Finish(c) ==
    /\ pc' = [pc EXCEPT ![c] = "idle"]
    /\ tid' = [tid EXCEPT ![c] = NoId]
    /\ eid' = [eid EXCEPT ![c] = 0]
    /\ hsh' = [hsh EXCEPT ![c] = CHOOSE h \in Hashes : TRUE]
    /\ sawRunning' = [sawRunning EXCEPT ![c] = FALSE]
    /\ UNCHANGED budget

\* a new request arrives at an idle client
Arrive(c) ==
    /\ pc[c] = "idle"
    /\ budget > 0
    /\ budget' = budget - 1

\* rqbit_id_for under the lock: found -> go on to l, missing -> 404
Lookup(c, l) ==
    IF tid[c] \in DOMAIN torrents
    THEN /\ Goto(c, l)
         /\ eid' = [eid EXCEPT ![c] = torrents[tid[c]].eid]
         /\ UNCHANGED <<tid, hsh, sawRunning, budget>>
    ELSE Finish(c)

\* an engine call whose error is returned to the caller (400)
EngineCall(c, call, l) ==
    IF Managed(eid[c])
    THEN /\ call
         /\ Goto(c, l)
         /\ UNCHANGED <<tid, eid, hsh, sawRunning, budget>>
    ELSE /\ Finish(c)
         /\ UNCHANGED engineVars

\* an engine call whose result is discarded (let _ = ...)
EngineCallIgnored(c, call) ==
    /\ IF Managed(eid[c]) THEN call ELSE UNCHANGED engineVars
    /\ Finish(c)

Core == <<torrents, issued, ksEnabled, ksState, netAllowed, vpn>>

(***************************************************************************)
(* h_start: gate on the kill switch, look up the rqbit id, start it on the *)
(* engine, then set_running(true).                                         *)
(***************************************************************************)
StartArrive(c, i) ==
    /\ Arrive(c)
    /\ IF Blocked
       THEN UNCHANGED <<pc, tid, eid, hsh, sawRunning>>
       ELSE /\ Goto(c, "start_lookup")
            /\ tid' = [tid EXCEPT ![c] = i]
            /\ UNCHANGED <<eid, hsh, sawRunning>>
    /\ UNCHANGED <<Core, engineVars>>

StartLookup(c) ==
    /\ pc[c] = "start_lookup"
    /\ Lookup(c, "start_engine")
    /\ UNCHANGED <<Core, engineVars>>

StartEngine(c) ==
    /\ pc[c] = "start_engine"
    /\ EngineCall(c, EngineStart(eid[c]), "start_set")
    /\ UNCHANGED Core

StartSet(c) ==
    /\ pc[c] = "start_set"
    /\ SetRunning(tid[c], TRUE)
    /\ Finish(c)

(***************************************************************************)
(* h_stop: look up, pause on the engine, then set_running(false).          *)
(***************************************************************************)
StopArrive(c, i) ==
    /\ Arrive(c)
    /\ IF i \in DOMAIN torrents
       THEN /\ Goto(c, "stop_engine")
            /\ tid' = [tid EXCEPT ![c] = i]
            /\ eid' = [eid EXCEPT ![c] = torrents[i].eid]
       ELSE UNCHANGED <<pc, tid, eid>>
    /\ UNCHANGED <<hsh, sawRunning, Core, engineVars>>

StopEngine(c) ==
    /\ pc[c] = "stop_engine"
    /\ EngineCall(c, EnginePause(eid[c]), "stop_set")
    /\ UNCHANGED Core

StopSet(c) ==
    /\ pc[c] = "stop_set"
    /\ SetRunning(tid[c], FALSE)
    /\ Finish(c)

(***************************************************************************)
(* h_remove: look up, forget on the engine, then remove_torrent.           *)
(***************************************************************************)
RemoveArrive(c, i) ==
    /\ Arrive(c)
    /\ IF i \in DOMAIN torrents
       THEN /\ Goto(c, "remove_engine")
            /\ tid' = [tid EXCEPT ![c] = i]
            /\ eid' = [eid EXCEPT ![c] = torrents[i].eid]
       ELSE UNCHANGED <<pc, tid, eid>>
    /\ UNCHANGED <<hsh, sawRunning, Core, engineVars>>

RemoveEngine(c) ==
    /\ pc[c] = "remove_engine"
    /\ EngineCall(c, EngineForget(eid[c]), "remove_set")
    /\ UNCHANGED Core

RemoveSet(c) ==
    /\ pc[c] = "remove_set"
    /\ RemoveTorrent(tid[c])
    /\ Finish(c)

(***************************************************************************)
(* h_recheck: gate, look up, force_checking, then pause and start on the   *)
(* engine with both results ignored.                                       *)
(***************************************************************************)
RecheckArrive(c, i) ==
    /\ Arrive(c)
    /\ IF Blocked
       THEN UNCHANGED <<pc, tid, eid, hsh, sawRunning>>
       ELSE /\ Goto(c, "recheck_lookup")
            /\ tid' = [tid EXCEPT ![c] = i]
            /\ UNCHANGED <<eid, hsh, sawRunning>>
    /\ UNCHANGED <<Core, engineVars>>

RecheckLookup(c) ==
    /\ pc[c] = "recheck_lookup"
    /\ Lookup(c, "recheck_mark")
    /\ UNCHANGED <<Core, engineVars>>

RecheckMark(c) ==
    /\ pc[c] = "recheck_mark"
    /\ ForceChecking(tid[c])
    /\ Goto(c, "recheck_pause")
    /\ UNCHANGED <<tid, eid, hsh, sawRunning, budget>>

RecheckPause(c) ==
    /\ pc[c] = "recheck_pause"
    /\ IF Managed(eid[c]) THEN EnginePause(eid[c]) ELSE UNCHANGED engineVars
    /\ Goto(c, "recheck_start")
    /\ UNCHANGED <<Core, tid, eid, hsh, sawRunning, budget>>

RecheckStart(c) ==
    /\ pc[c] = "recheck_start"
    /\ EngineCallIgnored(c, EngineStart(eid[c]))
    /\ UNCHANGED Core

(***************************************************************************)
(* h_announce: gate, look up, mark_announce, then pause and start on the   *)
(* engine with both results ignored.  mark_announce only bumps tracker     *)
(* counters, which Analytics models and nothing here reads, so its lock    *)
(* section is folded into the lookup's successful branch.                  *)
(***************************************************************************)
AnnounceArrive(c, i) ==
    /\ Arrive(c)
    /\ IF Blocked
       THEN UNCHANGED <<pc, tid, eid, hsh, sawRunning>>
       ELSE /\ Goto(c, "announce_lookup")
            /\ tid' = [tid EXCEPT ![c] = i]
            /\ UNCHANGED <<eid, hsh, sawRunning>>
    /\ UNCHANGED <<Core, engineVars>>

AnnounceLookup(c) ==
    /\ pc[c] = "announce_lookup"
    /\ Lookup(c, "announce_pause")
    /\ UNCHANGED <<Core, engineVars>>

AnnouncePause(c) ==
    /\ pc[c] = "announce_pause"
    /\ IF Managed(eid[c]) THEN EnginePause(eid[c]) ELSE UNCHANGED engineVars
    /\ Goto(c, "announce_start")
    /\ UNCHANGED <<Core, tid, eid, hsh, sawRunning, budget>>

AnnounceStart(c) ==
    /\ pc[c] = "announce_start"
    /\ EngineCallIgnored(c, EngineStart(eid[c]))
    /\ UNCHANGED Core

(***************************************************************************)
(* h_add_torrent for a magnet with info-hash h.  Under the lock it looks   *)
(* for a record with that hash; if one exists it re-reads the rqbit id in  *)
(* a later critical section and starts it unless the first section saw it *)
(* running.  Otherwise it asks the engine to add the torrent (retrying     *)
(* once on a "file exists" error) and integrates the response in a last   *)
(* critical section.  The two sections that only clone the Api handle and *)
(* the download path touch no state and are folded into their neighbours. *)
(***************************************************************************)
AddArrive(c, h) ==
    /\ Arrive(c)
    /\ hsh' = [hsh EXCEPT ![c] = h]
    /\ IF FindByInfoHash(h) # {}
       THEN \E i \in FindByInfoHash(h) :
              /\ Goto(c, "add_existing_lookup")
              /\ tid' = [tid EXCEPT ![c] = i]
              /\ sawRunning' = [sawRunning EXCEPT ![c] = torrents[i].running]
       ELSE /\ Goto(c, "add_engine")
            /\ UNCHANGED <<tid, sawRunning>>
    /\ UNCHANGED <<eid, Core, engineVars>>

AddExistingLookup(c) ==
    /\ pc[c] = "add_existing_lookup"
    /\ IF tid[c] \in DOMAIN torrents /\ ~sawRunning[c]
       THEN /\ Goto(c, "add_existing_start")
            /\ eid' = [eid EXCEPT ![c] = torrents[tid[c]].eid]
            /\ UNCHANGED <<tid, hsh, sawRunning, budget>>
       ELSE Finish(c)
    /\ UNCHANGED <<Core, engineVars>>

AddExistingStart(c) ==
    /\ pc[c] = "add_existing_start"
    /\ EngineCall(c, EngineStart(eid[c]), "add_existing_set")
    /\ UNCHANGED Core

AddExistingSet(c) ==
    /\ pc[c] = "add_existing_set"
    /\ SetRunning(tid[c], TRUE)
    /\ Finish(c)

\* api_add_torrent: Ok, a "file exists" error (retried once), or another error
AddEngine(c) ==
    /\ pc[c] = "add_engine"
    /\ \/ \E e \in EngineIds :
            /\ EngineAdd(hsh[c], e)
            /\ Goto(c, "add_integrate")
            /\ eid' = [eid EXCEPT ![c] = e]
            /\ UNCHANGED <<tid, hsh, sawRunning, budget>>
       \/ /\ Goto(c, "add_retry")
          /\ UNCHANGED <<tid, eid, hsh, sawRunning, budget, engineVars>>
       \/ /\ Finish(c)
          /\ UNCHANGED engineVars
    /\ UNCHANGED Core

AddRetry(c) ==
    /\ pc[c] = "add_retry"
    /\ \/ \E e \in EngineIds :
            /\ EngineAdd(hsh[c], e)
            /\ Goto(c, "add_integrate")
            /\ eid' = [eid EXCEPT ![c] = e]
            /\ UNCHANGED <<tid, hsh, sawRunning, budget>>
       \/ /\ Finish(c)
          /\ UNCHANGED engineVars
    /\ UNCHANGED Core

AddIntegrate(c) ==
    /\ pc[c] = "add_integrate"
    /\ \/ IntegrateAdded(hsh[c], eid[c])
       \/ /\ CapacityReached
          /\ UNCHANGED Core
          /\ UNCHANGED engineVars
    /\ Finish(c)

(***************************************************************************)
(* h_patch_kill_switch and h_patch_policy: one critical section each.      *)
(***************************************************************************)
PatchKillSwitchRequest(c, en) ==
    /\ Arrive(c)
    /\ PatchKillSwitch(en)
    /\ UNCHANGED <<pc, tid, eid, hsh, sawRunning>>

PatchPolicyRequest(c) ==
    /\ Arrive(c)
    /\ PatchPolicy
    /\ UNCHANGED <<pc, tid, eid, hsh, sawRunning>>

(***************************************************************************)
(* The environment: the tick task, the VPN coming and going, the engine's  *)
(* own progress.                                                           *)
(***************************************************************************)
TickTask ==
    /\ Tick
    /\ UNCHANGED clientVars

VpnChange ==
    /\ vpn' = ~vpn
    /\ UNCHANGED <<torrents, issued, ksEnabled, ksState, netAllowed, engineVars, clientVars>>

EngineProgress ==
    /\ EngineStep
    /\ UNCHANGED <<Core, clientVars>>

Init ==
    /\ CoreInit
    /\ pc = [c \in Clients |-> "idle"]
    /\ tid = [c \in Clients |-> NoId]
    /\ eid = [c \in Clients |-> 0]
    /\ hsh = [c \in Clients |-> CHOOSE h \in Hashes : TRUE]
    /\ sawRunning = [c \in Clients |-> FALSE]
    /\ budget = MaxRequests

Request(c) ==
    \/ \E i \in Ids : StartArrive(c, i) \/ StopArrive(c, i) \/ RemoveArrive(c, i)
                      \/ RecheckArrive(c, i) \/ AnnounceArrive(c, i)
    \/ \E h \in Hashes : AddArrive(c, h)
    \/ \E en \in BOOLEAN : PatchKillSwitchRequest(c, en)
    \/ PatchPolicyRequest(c)

\* every step of an in-flight request
Serve(c) ==
    \/ StartLookup(c) \/ StartEngine(c) \/ StartSet(c)
    \/ StopEngine(c) \/ StopSet(c)
    \/ RemoveEngine(c) \/ RemoveSet(c)
    \/ RecheckLookup(c) \/ RecheckMark(c) \/ RecheckPause(c) \/ RecheckStart(c)
    \/ AnnounceLookup(c) \/ AnnouncePause(c) \/ AnnounceStart(c)
    \/ AddExistingLookup(c) \/ AddExistingStart(c) \/ AddExistingSet(c)
    \/ AddEngine(c) \/ AddRetry(c) \/ AddIntegrate(c)

Next ==
    \/ \E c \in Clients : Request(c) \/ Serve(c)
    \/ TickTask
    \/ VpnChange
    \/ EngineProgress

(***************************************************************************)
(* Fairness: the tick task is a tokio interval loop that always gets the   *)
(* lock eventually (tokio's Mutex is FIFO), and a request in flight runs   *)
(* to completion (its engine calls return).  New requests, VPN changes     *)
(* and the engine's own progress are not assumed to happen.                *)
(***************************************************************************)
Fairness ==
    /\ WF_vars(TickTask)
    /\ \A c \in Clients : WF_vars(Serve(c))

Spec == Init /\ [][Next]_vars /\ Fairness

=============================================================================

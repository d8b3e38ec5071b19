------------------------------- MODULE Engine -------------------------------
(***************************************************************************)
(* The external transfer engine (librqbit's Session/Api) as the daemon     *)
(* sees it through the collaborator contract: add, stats, start, pause,    *)
(* forget.  It is not code of this repository; it is modelled from the     *)
(* contract so that the daemon's calls have something to act on.           *)
(*                                                                         *)
(* A managed torrent has an info-hash, a status string (the values the     *)
(* stats call reports and tick() maps) and a byte count.  Engine ids are   *)
(* handed out in increasing order and never reused.  A stats or action     *)
(* call on an id the engine no longer manages fails.                       *)
(***************************************************************************)
EXTENDS Naturals, TLC, Functions

CONSTANTS
    Hashes,       \* info-hashes of the torrents clients may add
    MaxEngineIds, \* bound on how many distinct torrents the engine is asked to manage
    TotalBytes    \* size of every torrent, in abstract byte units

ASSUME MaxEngineIds \in Nat \ {0}
ASSUME TotalBytes \in Nat \ {0}

VARIABLES
    engine,     \* engine id -> [hash, status, bytes] of each managed torrent
    engineNext  \* the id the next newly managed torrent receives

engineVars == <<engine, engineNext>>

EngineIds == 1 .. MaxEngineIds
EngineStatus == {"initializing", "live", "paused", "error"}
EngineTorrent == [hash : Hashes, status : EngineStatus, bytes : 0 .. TotalBytes]

EngineTypeOK ==
    /\ DOMAIN engine \subseteq EngineIds
    /\ \A e \in DOMAIN engine : engine[e] \in EngineTorrent
    /\ engineNext \in 1 .. MaxEngineIds + 1

EngineInit ==
    /\ engine = [e \in {} |-> CHOOSE t \in EngineTorrent : TRUE]
    /\ engineNext = 1

Managed(e) == e \in DOMAIN engine

\* A torrent the engine is transferring for (what the kill switch must stop).
Active(e) == Managed(e) /\ engine[e].status \in {"initializing", "live"}

(***************************************************************************)
(* add: a torrent whose info-hash is already managed is answered with the  *)
(* existing id (AlreadyManaged); otherwise a new id is assigned and the    *)
(* torrent starts initializing.  The result id is returned in e.           *)
(***************************************************************************)
EngineAdd(h, e) ==
    IF \E x \in DOMAIN engine : engine[x].hash = h
    THEN /\ e \in DOMAIN engine
         /\ engine[e].hash = h
         /\ UNCHANGED engineVars
    ELSE /\ engineNext <= MaxEngineIds
         /\ e = engineNext
         /\ engine' = (e :> [hash |-> h, status |-> "initializing", bytes |-> 0]) @@ engine
         /\ engineNext' = engineNext + 1

\* action start: resumes a paused or failed torrent; fails on an unknown id.
EngineStart(e) ==
    /\ Managed(e)
    /\ engine' = [engine EXCEPT ![e].status =
                    IF @ \in {"paused", "error"} THEN "initializing" ELSE @]
    /\ UNCHANGED engineNext

\* action pause
EnginePause(e) ==
    /\ Managed(e)
    /\ engine' = [engine EXCEPT ![e].status = "paused"]
    /\ UNCHANGED engineNext

\* action forget
EngineForget(e) ==
    /\ Managed(e)
    /\ engine' = Restrict(engine, DOMAIN engine \ {e})
    /\ UNCHANGED engineNext

(***************************************************************************)
(* The engine's own progress, not caused by the daemon.                    *)
(***************************************************************************)
EngineInitialized(e) ==
    /\ Managed(e) /\ engine[e].status = "initializing"
    /\ engine' = [engine EXCEPT ![e].status = "live"]
    /\ UNCHANGED engineNext

EngineTransfer(e) ==
    /\ Managed(e) /\ engine[e].status = "live" /\ engine[e].bytes < TotalBytes
    /\ engine' = [engine EXCEPT ![e].bytes = @ + 1]
    /\ UNCHANGED engineNext

EngineFail(e) ==
    /\ Active(e)
    /\ engine' = [engine EXCEPT ![e].status = "error"]
    /\ UNCHANGED engineNext

EngineStep ==
    \E e \in DOMAIN engine :
        EngineInitialized(e) \/ EngineTransfer(e) \/ EngineFail(e)

=============================================================================

------------------------------ MODULE Analytics ------------------------------
(***************************************************************************)
(* The per-torrent analytics of orc-core for one record: peers_for (the    *)
(* peer-rate sample table with its prune and cap, the piece-availability   *)
(* counters and the per-peer progress cache) and mark_announce.  h_peers   *)
(* and h_announce call them with the state lock held, so each call is one *)
(* atomic step; tick never touches this state.                             *)
(*                                                                         *)
(* A peer's progress fraction is Num/ProgressDen for Num in Progresses;    *)
(* values above ProgressDen stand for the engine reporting more than 1.0.  *)
(* Byte counters and rates are left out: no property here is about them.   *)
(* Every sample kept after the prune has last_seen_ms = now (both arms of  *)
(* the match produce now_ms_epoch), so the samples are a set of keys.      *)
(***************************************************************************)
EXTENDS Naturals, Sequences, FiniteSets, FiniteSetsExt, Functions, TLC

CONSTANTS
    Peers,         \* peer address strings an engine snapshot may report
    NoProgress,    \* a peer entry without a "progress" field
    Progresses,    \* numerators of the progress fractions peers report
    ProgressDen,   \* their common denominator
    TotalPieces,   \* total_pieces_estimate of the record
    SampleCap,     \* MAX_PEER_SAMPLES_PER_TORRENT
    Trackers,      \* runtime.trackers of the record
    MaxAnnounces   \* bound on mark_announce calls

ASSUME Progresses \subseteq Nat /\ ProgressDen \in Nat \ {0}
ASSUME TotalPieces \in Nat /\ SampleCap \in Nat /\ MaxAnnounces \in Nat

VARIABLES
    samples,       \* DOMAIN runtime.peer_samples
    cache,         \* runtime.peer_progress_cache : peer id -> progress
    avail,         \* runtime.piece_availability
    lastError,     \* runtime.last_error is set
    trackerState,  \* runtime.tracker_state : url -> announce_count
    announces      \* mark_announce calls so far (bounded)

vars == <<samples, cache, avail, lastError, trackerState, announces>>

\* an engine peer snapshot: the peers it lists, each with a progress or none
Snapshots == UNION {[S -> Progresses \cup {NoProgress}] : S \in SUBSET Peers}

\* (progress * total_pieces as f32).ceil() as usize, then .min(total_pieces)
PiecesOf(num) ==
    LET c == (num * TotalPieces + ProgressDen - 1) \div ProgressDen
    IN  IF c < TotalPieces THEN c ELSE TotalPieces

\* saturating_add / saturating_sub of 1 on the first k counters
AddFirst(a, k) == [i \in DOMAIN a |-> IF i <= k THEN a[i] + 1 ELSE a[i]]
SubFirst(a, k) == [i \in DOMAIN a |-> IF i <= k /\ a[i] > 0 THEN a[i] - 1 ELSE a[i]]

AnalyticsInit ==
    /\ samples = {}
    /\ cache = [p \in {} |-> 0]
    /\ avail = [i \in 1 .. TotalPieces |-> 0]
    /\ lastError = FALSE
    /\ trackerState = [t \in Trackers |-> 0]
    /\ announces = 0

(***************************************************************************)
(* update_piece_availability_from_peers, on st = [avail, cache].  The      *)
(* resize branch never fires: the counters are created with length         *)
(* total_pieces_estimate, which never changes afterwards.                  *)
(***************************************************************************)
OldPiecesRemoved(st, p) ==
    IF p \in DOMAIN st.cache THEN SubFirst(st.avail, PiecesOf(st.cache[p])) ELSE st.avail

\* the old progress's pieces not taken off before the new ones are added
UpdateAvailabilityNoSub(st, p, num) ==
    IF TotalPieces = 0 THEN st
    ELSE [avail |-> AddFirst(st.avail, PiecesOf(num)), cache |-> (p :> num) @@ st.cache]

UpdateAvailability(st, p, num) ==
    IF TotalPieces = 0 THEN st
    ELSE [avail |-> AddFirst(OldPiecesRemoved(st, p), PiecesOf(num)),
          cache |-> (p :> num) @@ st.cache]

\* a disconnected peer dropped from the cache without releasing its pieces
RemovePeerKeepCounts(st, p) ==
    IF p \in DOMAIN st.cache
    THEN [avail |-> st.avail, cache |-> Restrict(st.cache, DOMAIN st.cache \ {p})]
    ELSE st

\* remove_peer_from_availability
RemovePeer(st, p) ==
    IF p \in DOMAIN st.cache
    THEN [avail |-> IF Len(st.avail) = TotalPieces
                    THEN SubFirst(st.avail, PiecesOf(st.cache[p])) ELSE st.avail,
          cache |-> Restrict(st.cache, DOMAIN st.cache \ {p})]
    ELSE st

\* the first loop of peers_for: every listed peer gets a sample stamped now
SampledPeers(snap) == samples \cup DOMAIN snap

\* peer_samples.retain(|k, _| seen.contains(k))
Retained(snap) == SampledPeers(snap) \cap DOMAIN snap

\* to_remove one short
ExcessOffByOne(kept) == Cardinality(kept) - SampleCap - 1

\* the number of samples the cap removes (to_remove)
Excess(kept) == Cardinality(kept) - SampleCap

\* samples.len() > MAX_PEER_SAMPLES_PER_TORRENT
OverCap(kept) == Cardinality(kept) > SampleCap

(***************************************************************************)
(* peers_for with a successful api_peer_stats:                             *)
(*   1. one sample per listed peer;                                        *)
(*   2. availability updated for every peer that reports a progress;       *)
(*   3. cached peers missing from the snapshot removed from availability;  *)
(*   4. samples of unlisted peers pruned (retain over seen);               *)
(*   5. the cap: sort by last_seen_ms and drop the first to_remove.  All   *)
(*      kept samples carry the same last_seen_ms, so which ones go is      *)
(*      the sort's arbitrary order among equals: any to_remove of them.    *)
(***************************************************************************)
PeersFor(snap) ==
    LET S       == DOMAIN snap
        st0     == [avail |-> avail, cache |-> cache]
        updated == FoldSet(LAMBDA p, st : IF snap[p] = NoProgress THEN st
                                          ELSE UpdateAvailability(st, p, snap[p]),
                           st0, S)
        gone    == DOMAIN updated.cache \ S
        st2     == FoldSet(LAMBDA p, st : RemovePeer(st, p), updated, gone)
        kept    == Retained(snap)
    IN  /\ avail' = st2.avail
        /\ cache' = st2.cache
        /\ IF OverCap(kept)
           THEN \E evicted \in kSubset(Excess(kept), kept) : samples' = kept \ evicted
           ELSE samples' = kept
        /\ UNCHANGED <<lastError, trackerState, announces>>

\* peers_for when api_peer_stats fails: last_error is set and nothing else changes
PeersForError ==
    /\ lastError' = TRUE
    /\ UNCHANGED <<samples, cache, avail, trackerState, announces>>

(***************************************************************************)
(* mark_announce: every tracker's announce_count is bumped (the announce   *)
(* times are not modelled).  tracker_state gets an entry for every tracker *)
(* at integrate and runtime.trackers never changes, so the entry or_default *)
(* of mark_announce and of trackers_for never inserts: trackers_for only   *)
(* reads.                                                                  *)
(***************************************************************************)
MarkAnnounce ==
    /\ announces < MaxAnnounces
    /\ announces' = announces + 1
    /\ trackerState' = [t \in DOMAIN trackerState |-> trackerState[t] + 1]
    /\ UNCHANGED <<samples, cache, avail, lastError>>

AnalyticsNext ==
    \/ \E snap \in Snapshots : PeersFor(snap)
    \/ PeersForError
    \/ MarkAnnounce

-----------------------------------------------------------------------------
(***************************************************************************)
(* get_row_snapshot: the availability heatmap computed from this state.    *)
(* Pieces are counted from 0 as in the code, so piece k is avail[k + 1].   *)
(* progress is downloaded/total clamped to [0, 1], and completed_pieces is *)
(* the floor of progress * total_pieces, taken here in exact arithmetic    *)
(* (the rounding of the f64 product is not modelled).  A bin's have_ratio  *)
(* is the fraction have/pib.  BINS is a parameter, so that a check can use *)
(* bin counts both below and above the piece count.                        *)
(***************************************************************************)
\* u32::MAX, which no counter reaches (it is bounded by the peers); TLC's
\* integers stop below it, so the sentinel is a value of its own
U32Max == "u32::MAX"

\* total_pieces_estimate.max(1)
RowPieces == Max({TotalPieces, 1})

\* (downloaded / total).clamp(0, 1) * total_pieces, floored; 0 when total is 0
CompletedPieces(down, total) ==
    IF total = 0 THEN 0 ELSE (Min({down, total}) * RowPieces) \div total

\* Seeded fault: pieces_per_bin rounded down.
PiecesPerBinFloor(bins) == RowPieces \div bins

\* (total_pieces as f64 / BINS as f64).ceil()
PiecesPerBin(bins) == (RowPieces + bins - 1) \div bins

(***************************************************************************)
(* One PieceBin of the loop: a bin starting past the last piece is empty;  *)
(* otherwise have_count is the completed pieces that fall in it, and       *)
(* min_avail is u32::MAX for a complete bin, else the least counter of its *)
(* pieces at or past completed_pieces (0 when there is none).              *)
(***************************************************************************)
PieceBin(a, completed, bins, b) ==
    LET ppb   == PiecesPerBin(bins)
        start == b * ppb
        end   == Min({(b + 1) * ppb, RowPieces})
        pib   == end - start
        have  == Min({IF completed > start THEN completed - start ELSE 0, pib})
        open  == {k \in start .. end - 1 : k + 1 \in DOMAIN a /\ k >= completed}
    IN  IF start >= RowPieces
        THEN [have |-> 0, pib |-> 0, minAvail |-> 0]
        ELSE [have |-> have, pib |-> pib,
              minAvail |-> IF have >= pib THEN U32Max
                           ELSE IF open = {} THEN 0
                           ELSE Min({a[k + 1] : k \in open})]

\* the pieces_bins of a snapshot of a record with the given byte counts
RowSnapshot(a, down, total, bins) ==
    [b \in 0 .. bins - 1 |-> PieceBin(a, CompletedPieces(down, total), bins, b)]

====

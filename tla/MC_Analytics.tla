---------------------------- MODULE MC_Analytics ----------------------------
(***************************************************************************)
(* Repeated h_peers and h_announce calls on one record, with every engine  *)
(* snapshot over a few peers and progress values, and engine failures.     *)
(* listed is a history variable: the peers of the last successful          *)
(* snapshot.                                                               *)
(***************************************************************************)
EXTENDS Analytics

CONSTANTS p1, p2, p3, t1, t2

CONSTANT BinCounts   \* values of BINS the heatmap is checked with

VARIABLE listed

MCPeers == {p1, p2, p3}
MCTrackers == {t1, t2}

Init == AnalyticsInit /\ listed = {}

Next ==
    \/ \E snap \in Snapshots : PeersFor(snap) /\ listed' = DOMAIN snap
    \/ (PeersForError \/ MarkAnnounce) /\ UNCHANGED listed

Spec == Init /\ [][Next]_<<vars, listed>>

-----------------------------------------------------------------------------

\* the number of cached peers whose progress covers piece i
Holders(i) == Quantify(DOMAIN cache, LAMBDA p : PiecesOf(cache[p]) >= i)

(***************************************************************************)
(* Type invariant.  A counter never exceeds the number of peers there are. *)
(***************************************************************************)
TypeOK ==
    /\ samples \subseteq Peers
    /\ DOMAIN cache \subseteq Peers /\ \A p \in DOMAIN cache : cache[p] \in Progresses
    /\ avail \in [1 .. TotalPieces -> 0 .. Cardinality(Peers)]
    /\ lastError \in BOOLEAN
    /\ trackerState \in [Trackers -> 0 .. MaxAnnounces]

(***************************************************************************)
(* Spec 4.3: piece_availability counts, for each piece, the peers whose    *)
(* last known progress covers it.  After any sequence of peers_for calls,  *)
(* with peers appearing, changing progress, dropping their progress field  *)
(* and disconnecting, every counter equals the count recomputed from       *)
(* peer_progress_cache.                                                    *)
(***************************************************************************)
AvailabilityMatchesCache == \A i \in 1 .. TotalPieces : avail[i] = Holders(i)

(***************************************************************************)
(* Spec 4.3 and 5: peer_samples is pruned to the peers of the latest       *)
(* snapshot and then capped at MAX_PEER_SAMPLES_PER_TORRENT, and the       *)
(* progress cache keeps only peers of the latest snapshot, so peer churn   *)
(* cannot grow either table.                                               *)
(***************************************************************************)
PeerTablesBounded ==
    /\ Cardinality(samples) <= SampleCap
    /\ samples \subseteq listed
    /\ DOMAIN cache \subseteq listed

\* the first piece of bin b, when bins hold the given numbers of pieces
BinFirst(pibs, b) == SumFunctionOnSet(pibs, 0 .. b - 1)

(***************************************************************************)
(* Spec 4.3 and 5, row_snapshot: whatever the number of bins relative to   *)
(* the piece estimate, and whatever the record's byte counts, the bins of  *)
(* get_row_snapshot are consecutive ranges that together hold every piece  *)
(* once; their completed counts add up to the completed pieces; and an     *)
(* incomplete bin reports the least availability among its not-yet-       *)
(* completed pieces, read from the counters peers_for has left.            *)
(***************************************************************************)
RowSnapshotCoversPieces ==
    \A bins \in BinCounts, down \in 0 .. TotalPieces + 1, total \in 0 .. TotalPieces :
        LET r    == RowSnapshot(avail, down, total, bins)
            c    == CompletedPieces(down, total)
            pibs == [b \in DOMAIN r |-> r[b].pib]
        IN  /\ DOMAIN r = 0 .. bins - 1
            /\ SumFunction(pibs) = TotalPieces
            /\ SumFunction([b \in DOMAIN r |-> r[b].have]) = c
            /\ \A b \in DOMAIN r :
                 r[b].have < r[b].pib =>
                   r[b].minAvail = Min({avail[k + 1] : k \in {k \in BinFirst(pibs, b) ..
                                          BinFirst(pibs, b) + r[b].pib - 1 : k >= c}})

=============================================================================

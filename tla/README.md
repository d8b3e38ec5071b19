# TLA+ models of orc-core and orc-daemon

This directory holds TLA+ models of the Orc torrent daemon. The library is
`src/crates/orc-core/src/lib.rs` and the HTTP daemon is
`src/crates/orc-daemon/src/main.rs`. The models are checked with TLC. Each run's
properties, mutants and source mapping are listed in `PROJECT.json`.

## 1. The system

### Components, state and operations

| Component | State (code) | Operations that change state |
|---|---|---|
| Torrent Registry | `OrcState.torrents: HashMap<String, TorrentRecord>` (`Torrent` + `TorrentRuntime`) | `integrate_added_torrent`, `set_running`, `remove_torrent`, `force_checking`, `set_profile`, `set_file_priority` |
| Policy & Kill-Switch | `OrcState.policy` (`effective.network_allowed`), `OrcState.kill_switch` (`enabled`, `enforcement_state`) | `patch_kill_switch`, `patch_policy`, the kill-switch match in `tick` |
| Reconciliation Loop | every `TorrentRuntime` | `tick` (heartbeat sampling, kill-switch state machine, network_allowed, stats reconciliation, file progress) |
| HTTP daemon | per-request locals held across `.await`s | `h_add_torrent`, `h_start`, `h_stop`, `h_remove`, `h_recheck`, `h_announce`, `h_patch_*`, `h_peers`, `h_trackers` |
| Analytics Engine | `peer_samples`, `piece_availability`, `peer_progress_cache`, `tracker_state` | `peers_for`, `trackers_for`, `mark_announce`; `get_row_snapshot` reads the counters into heatmap bins |
| Metadata Decoder | none (pure) | `split_path_components`, `sanitize_path_component`, `parse_bencode_with_depth`, `extract_info_hash_from_*`, `prepare_add_input`, `parse_trackers_from_*`, `percent_decode`, `dedup_preserve` |
| Transfer engine (librqbit, external) | its managed torrents | add, start, pause, forget, stats |
| Config / VPN detection / GeoIP | files, host interfaces, MaxMind DB | read-only lookups or start-up I/O |

### How they interact

All of `OrcState` sits behind one `tokio::sync::Mutex`. A spawned task runs a
1 s `tokio::time::interval` and calls `tick` with the lock held
(`main.rs:224-234`).

Each mutating handler works in several short critical sections:
1. It reads what it needs under the lock, such as the gate, the engine id, or whether the hash is already known.
2. It releases the lock and awaits an engine call.
3. It re-takes the lock to write the result.

So a tick, a VPN change or another request can come between any two of these
steps. `tick` itself calls the engine's stats synchronously while holding the
lock, so one tick is atomic.

### The hard behaviours

- **TOCTOU between critical sections.**
  - The kill-switch gate of `h_start`/`h_recheck` is read in one section; the engine start happens after a later one.
  - The duplicate check of `h_add_torrent` is separate from its insert.
  - The add-existing path uses `is_running` read two sections earlier.
  - The engine id of an `AlreadyManaged` answer is integrated a section later, after a concurrent `h_remove` may have forgotten it.
- **Partial failure.** The engine add succeeds, then `integrate_added_torrent` refuses for capacity. A stats error in `tick` updates one running flag but not the other. `h_patch_file_priority` stores the new priorities, then `update_only_files` fails and nothing is rolled back.
- **Registry and engine out of step.** `h_patch_file_priority` changes the registry's priorities under the lock and the engine's file selection after it. Two patches' engine calls can land in either order.
- **Ordering inside one tick.** Kill-switch engagement writes `running=false`, and the stats loop later in the same tick writes it again from the engine.
- **Environment.** The VPN can appear or vanish at any time. The engine initialises, transfers and fails on its own.
- **Liveness.** Records must come back into agreement with the engine. The kill switch must release when the VPN returns.
- **Bounds.** `MAX_TORRENTS`, `HEARTBEAT_MAX_SAMPLES`, `MAX_PEER_SAMPLES_PER_TORRENT`, and the bencode depth and length limits.

### What makes each component correct

- **Registry:**
  - at most `MAX_TORRENTS` records;
  - one record per info-hash;
  - every engine torrent belongs to a record;
  - the public `torrent.running` mirrors `runtime.running`;
  - a record's trackers are every tracker URL of its add request, decoded, once each, in first-seen order.
- **Kill switch:**
  - `enabled` exactly when Armed or Engaged;
  - while Engaged, nothing runs;
  - while blocked, no request starts a transfer;
  - Engaged is released once the VPN is back.
- **Files:** a file is reported downloaded only when the engine has all its bytes (spec 4.2 step 7), and a completed file that is not skipped is eventually reported downloaded.
- **Reconciliation:** once requests stop, every record converges to the engine's state and stays there. The heartbeat ring stays bounded, and each sample counts only the bytes since the previous sample.
- **Decoder:** `parse_bencode` accepts exactly the values within its limits and decodes them unchanged. The info-hash scanner hashes exactly the root dictionary's `info` value and never panics. A magnet's info-hash is its `xt=urn:btih:` parameter, lower-cased.
- **Analytics:** availability counters equal the count recomputed from the peer cache. The sample table and cache hold only current peers, and the table stays within its cap.

## 2. Modules

| Module | Models | Code |
|---|---|---|
| `Engine` | The librqbit engine as the collaborator contract describes it. It is not repository code, so its map entries are `spec_modelled`. | librqbit `Api` |
| `OrcCore` | `OrcState` and the `lib.rs` operations, each operator one lock-held critical section | `lib.rs` |
| `OrcDaemon` | The tick task and the handlers, one action per critical section or engine call; the VPN and engine progress as environment actions | `main.rs` |
| `MC_OrcDaemon` | Model values, symmetry, and all properties | — |
| `KillSwitch` | The abstract kill switch of spec 4.4: toggle, VPN flip, and evaluation steps that move only along the allowed transitions and refresh the network gate to its live value | — (specification) |
| `Analytics` | One record's `peers_for` (sample prune and cap, availability counters, progress cache, engine-error branch) and `mark_announce`, each one atomic step; the heatmap bins of `get_row_snapshot` as the operator `RowSnapshot` | `lib.rs:1012-1046`, `1047-1104`, `2038-2193`, `2378-2410` |
| `MC_Analytics` | Model values, a history variable `listed` (the peers of the last snapshot), and the analytics properties | — |
| `Bencode` | `parse_bencode_with_depth` as RECURSIVE operators, with each limit a CONSTANT | `lib.rs:1824-1830`, `1917-2023` |
| `InfoHashScan` | `extract_info_hash_from_torrent_bytes`: the marker search, then one step per iteration of the scanning loop | `lib.rs:1213-1289` |
| `Metadata` | `prepare_add_input`, `extract_info_hash_from_magnet`, `parse_trackers_from_magnet` with `percent_decode` and `from_hex`, `parse_trackers_from_torrent_bytes` with `get_dict_value`, `dedup_preserve`, and the tracker list of `integrate_added_torrent`, as operators over byte sequences | `lib.rs:1189-1211`, `1292-1318`, `1372-1382`, `1900-1902`, `2274-2375` |
| `TorrentFiles` | One record's file table (priority and downloaded flag per file) and profile; `h_patch_file_priority` as its lock section and its later engine call, `h_patch_profile`, tick's per-file completion update, and the engine's file selection and per-file bytes (from the contract) | `lib.rs:1143-1152`, `1347-1368`, `1476-1495`, `1705`, `1753-1767`; `main.rs:637-696` |
| `PathSanitize` | `split_path_components` and `sanitize_path_component` as operators over character sequences: split on both separators, the empty and `.`/`..` filters, the safe-character filter, the 255-character cap, `trim`, the depth cap and the `file` placeholder | `lib.rs:1784-1813` |
| `MC_TorrentFiles` | Model values and the file properties | — |
| `MC_Bencode` | Reference definitions (canonical printer `Encode`, limit-free grammar `RefEnd`, reference info range `RefInfo`, percent-encoding `Encodings`, `RefHash`, `RefTrackers`), the inputs, and the decoder properties. It instantiates `Metadata` as `MD` with limits wide enough for torrents that list trackers, and `PathSanitize` as `PS`. | — |

### Correspondence

- **`OrcCore` record.** Each record keeps:
  - `hash`: `info_hash_hex`
  - `eid`: `rqbit_id`
  - `running` / `pubRunning`: `runtime.running` / `torrent.running`
  - `state`
  - `total`: `total_bytes`. `integrate_added_torrent` sums the file sizes of the engine's answer. `details.files` is an `Option`, so an answer without it gives 0. Every successful stats call then sets it to the engine's size.
  - `down` / `lastDown`: `downloaded_bytes` / `last_downloaded_bytes`
  - `rate`: `down_rate_bps`, as bytes per sampling interval
  - `err`: whether `last_error` is set
  - `override`: ticks left on the `force_checking` override (4 s at 1 tick/s)
  - `hb` / `hbLast`: the heartbeat ring and `heartbeat_last_bytes`
  - `hbAt`: `heartbeat_last_sample`, the instant of the last sample. Time is abstracted, so it is stored as the downloaded bytes at that instant. Both branches of the sampling set it, as the code sets the instant.

  Left out here: names, paths, upload counters, trackers and peers. Files and the profile are in `TorrentFiles`.
- **`OrcCore` operators.**
  - `Tick` follows `tick` in the code's order:
    1. heartbeat sampling for the set of torrents whose 200 ms interval elapsed (chosen nondeterministically);
    2. the kill-switch match and its `network_allowed` update;
    3. `Reconcile` for each record.
  - An engine id the engine no longer manages makes the stats call fail. That is the code's `Err` branch, which leaves `torrent.running` untouched.
- **`OrcDaemon` clients.** A client is one in-flight request.
  - `pc[c]` is its position in the handler.
  - `tid`, `eid`, `hsh` and `sawRunning` are the locals carried across awaits.
  - Each handler starts with an `…Arrive` action: its first critical section, which also holds the 403/404 early returns.
  - Each later step is one action named after it, e.g. `StartLookup`, `StartEngine`, `StartSet`.
  - `h_announce` is gate, lookup, then an ignored pause and an ignored start. Its `mark_announce` section only bumps tracker counters (modelled in `Analytics`), so it is folded into the lookup.
  - `h_add_torrent` is modelled for an input with a known info-hash:
    - dedup lookup;
    - the add-existing branch, with its re-read of the engine id and a start only when not running;
    - the engine add, a single retry on "file exists", and the integrate section.

- **`TorrentFiles`.** `prio[f]` and `done[f]` are `runtime.files[f].priority` and `.downloaded`; `profile` is `torrent.profile`.
  - `PatchFilePriority` is the handler's critical section: `set_file_priority` (every file some path names gets the priority) and `only_files_for` (the non-skip indices), kept in `want[c]`.
  - `UpdateOnlyFiles` is the engine call after the lock is dropped. It sets the engine's `selected`, or fails (400) and leaves it.
  - `PatchProfile` is `validate` (hops at most `MAX_HOPS`) and `set_profile`.
  - `TickFiles` is the end of tick's stats loop. With a `file_progress` array it sets each flag to "bytes reach size and not skip". Without one, once the engine is `finished`, it sets every non-skip flag and leaves skipped ones. Otherwise nothing changes.
  - The engine side is modelled from the contract. `selected` starts with every file; `EngineTransfer` adds a byte to a selected file. `finished` means every selected file is complete. `perFile` says whether this engine's stats carry `file_progress`, and is fixed for a behaviour.
  - Only `"skip"` is compared by the code, so `Priorities={"normal","skip"}` stands for all four valid values.

## 3. Runs

### Daemon runs

All runs in this table use `MC_OrcDaemon` with these bounds:
- clients `{c1,c2}`, torrent ids `{i1,i2,i3}`, hashes `{h1,h2}`;
- `MaxEngineIds=2`, `TotalBytes=2`, `MaxTorrents=1` (2 in `dedup`), `HeartbeatCap=2`, `OverrideTicks=2`;
- `MaxRequests=3` (2 in `liveness`).

| Run | Result | Properties | What it shows |
|---|---|---|---|
| `safety` | pass (≈1.5M distinct states) | `TypeOK`, `CapacityBound`, `KillSwitchRefinement` | Concurrent adds never exceed the cap; the heartbeat ring is trimmed; and the daemon implements the abstract `KillSwitch` (see below). The abstract switch changes `enabled` and its state together, so the refinement also keeps `enabled` exactly when Armed or Engaged; no separate invariant states it. |
| `liveness` | pass (≈266k states) | `RegistryConverges`, `ReleaseOnReconnect` | Whatever interleaving disturbed a record, fair ticks bring it back into agreement with the engine for good: its running flags and its state. Among the disturbances is a record added without a file list (`total_bytes` 0) and started before its first tick, which `set_running(true)` reports as Seeding with nothing downloaded (`lib.rs:1458`). That state is repaired at the next tick, so this property does not judge `set_running`. It says only that no disagreement outlives the requests. The stale `is_running` of the add-existing path (`main.rs:477`) acts on the engine itself, and tick copies that into the record, so this run cannot see it either. Engaged is released at the first tick that sees the VPN. |
| `killswitch` | violation | `KillSwitchStopsTorrents` | Engagement never pauses the engine, so the same tick's reconciliation marks the torrent running while Engaged (`lib.rs:1631`, `1751`). |
| `blocked` | violation | `NoEngineStartWhileBlocked` | `h_add_torrent` has no gate: a torrent starts transferring while the network is blocked. |
| `zombie` | violation | `RunningMirroredUnlessRemoving` | Client 1 adds a hash and integrates it. Client 2's add of the same hash misses the lookup, and its engine add answers `AlreadyManaged` with client 1's engine id. A remove then forgets that id and deletes the record, and client 2 integrates a new record with the dead id. From then on every stats call fails (`lib.rs:1684`): the record is Error with `runtime.running=false`, `torrent.running` stays true, and no request can repair it. |
| `dedup` | violation | `NoDuplicateInfoHash` | Two adds of one magnet both miss the lookup and insert two records. |
| `heartbeat` | violation | `HeartbeatSinceLastSample` | The engine downloads a byte and fails, and a tick records `running=false`. `h_start` resumes the torrent. The next tick samples before it reconciles, so it pushes 0 and moves `heartbeat_last_sample` but not `heartbeat_last_bytes` (`lib.rs:1617`). The next running sample counts that byte again, and divides it by one interval. |

### Why the bounds are enough

Every behaviour above needs at most two clients and two requests. Three ids
let an add pick a fresh id after a removal. Two hashes separate the same-hash
and the different-hash cases. With `MaxTorrents=1`, the capacity refusal
happens after a single add. With `TotalBytes=2`, a torrent passes through
Downloading to Seeding. `HeartbeatCap=2` makes the ring trim after two samples.
`OverrideTicks=2` lets the override outlive one tick.

Symmetry is used over clients and ids. Hashes are not symmetric, because
`Finish` and `Init` use `CHOOSE` over them. The liveness run uses no symmetry.

### Refinement

`MC_OrcDaemon` defines `KS == INSTANCE KillSwitch WITH enabled <- ksEnabled, state <- ksState`.
`vpn` and `netAllowed` map to the variables of the same name. `KillSwitchRefinement == KS!Spec` is checked as a PROPERTY in the `safety` run. The correspondence is:
- `patch_kill_switch` is `Toggle`;
- a tick (its match on `enforcement_state` and its `network_allowed` write) and `patch_policy` are `Evaluate` steps;
- `VpnChange` is `VpnFlip`;
- every handler step and engine step leaves the switch unchanged.

The abstract spec takes "Disarmed → Armed when VPN reconnects" to require the switch to be on. Spec 4.4 says it happens "whenever VPN reconnects while disarmed", but an armed switch that is off would contradict the spec's own data model, and the code only evaluates the machine when `enabled`. Releasing is never entered by the code and is left out.

### Analytics run (`MC_Analytics`)

Bounds:
- peers `{p1,p2,p3}`, each listed or not in a snapshot, with progress 0, 0.5, 1 or 1.5 (`ProgressDen=2`), or no progress field;
- `TotalPieces=3`, so 0.5 covers 2 pieces (the ceiling) and 1.5 is clamped;
- `SampleCap=2`, so a three-peer snapshot triggers the eviction;
- trackers `{t1,t2}`, `MaxAnnounces=2`;
- `BinCounts={2,4}` stand for `BINS=200`. Two bins give two pieces per bin and a partial last bin. Four bins give one piece per bin and an empty trailing bin, which is the case spec 5 names (fewer pieces than bins).

| Run | Result | Properties | What it shows |
|---|---|---|---|
| `analytics` | pass (≈2.8k states, 1.3M transitions) | `TypeOK`, `AvailabilityMatchesCache`, `PeerTablesBounded`, `RowSnapshotCoversPieces` | Across any sequence of snapshots and engine failures, every availability counter equals the count from the progress cache, and the sample table and cache hold only current peers within the cap. In every such state, for every byte count and for 2 and 4 bins, the `get_row_snapshot` bins hold every piece exactly once, in consecutive ranges. Their completed counts add up to the completed pieces, and each incomplete bin reports the least counter among its pieces that are not yet complete. |

### Decoder runs (`MC_Bencode`)

A behaviour fixes one input in `Init` and runs the scanner on it; the decoder
properties are invariants over that input. The inputs are:
- every byte string of up to 5 bytes over `d l i e : 0 1 - x`;
- the canonical encodings of about a hundred values: ints `-10,-1,0,1,10`, strings of 0 to 3 bytes, lists of up to 3 of those, single-entry dicts, nested up to three levels;
- torrents `d4:info<dict>e`, the bare marker followed by an info dict, and `4:infod` cut off.
- add requests, which `MD` checks and the scanner does not touch:
  - about 9,500 magnets of up to two parameters: `xt=urn:btih:` with a valid upper- or lower-case hash, a short hash or a non-hex hash; `dn=`; a bare `tr`; and `tr=` with every URL of up to two bytes over `u % & space =` in every percent-encoding (either hex case, or literal where allowed);
  - one link without the `magnet:?` prefix;
  - every file name of up to four characters over `a . space / \ *`, which `PS` turns into path components (with `MAX_PATH_DEPTH` scaled to 1 and the 255-character cap scaled to 2, so that four characters reach both);
  - about 2,700 torrents whose `announce` and `announce-list` hold strings, blanks, integers, lists and bare-string tiers, with and without a trailing byte.

  `MaxMagnetLen=30` and `MaxDecodedSize=40` reject the longest requests. `MaxB64Size=52` rejects a 40-byte torrent before the decoded-size check does, as 13 MiB of base64 does for a 10 MiB file.

`WithDecoy=TRUE` adds a torrent whose string value `4:info` precedes the info key. With it, `ScanMatchesReference` is violated by the marker search taking that first occurrence (`lib.rs:1218`). The runs keep it `FALSE` so that `scanskip` shows the integer-`e` bug; the marker flaw is listed as a hazard.

The limits are scaled down so that each is reached: `MaxDepth=1`, `MaxInput=7`, `MaxIntLen=2`, `MaxLenDigits=2`, `MaxStrLen=2` and `MaxItems=1`. Every limit is met exactly at its boundary and one past it. With `MaxItems=1`, a two-item list (`l0:0:e`) fits under `MaxInput`; a larger item cap would be unreachable.

| Run | Result | Properties | What it shows |
|---|---|---|---|
| `decode` | pass (≈150k states) | `TypeOK`, `DecodeRoundTrip`, `DecodeSound`, `MagnetHashMatches`, `TrackersMatch`, `PathComponentsSafe` | The decoder accepts exactly the values within every limit, decodes them back unchanged, and on any bytes stops where the grammar ends. A magnet yields its `xt` hash lower-cased. A record gets every tracker URL of its request, percent-decoded, blanks dropped, once each, in first-seen order. Every file name becomes one to `MAX_PATH_DEPTH` components: non-empty, capped, made of safe characters, with no surrounding spaces. |
| `scanskip` | violation | `ScanMatchesReference` | `d4:infod1:xi0eee`: the integer's `e` closes the info dict, and the hashed range is `[8,15)` instead of `[8,16)` (`lib.rs:1270`, `1241`). |

### File runs (`MC_TorrentFiles`)

Bounds: two files of size 1, clients `{c1,c2}`, `MaxRequests=3`, priorities `{"normal","skip"}`, modes `{Standard, Private}`, hops `{0, 11}` with `MAX_HOPS=10`. Two clients and three requests allow two patches in flight together with a third request. Hops 11 is the first value `validate` refuses. Both stats forms (`perFile` TRUE and FALSE) are initial states.

| Run | Result | Properties | What it shows |
|---|---|---|---|
| `files` | pass (≈7.8k states) | `TypeOK`, `FileCompletionReported` | With concurrent patches, failing `update_only_files` calls and either stats form, a completed file that is not skipped is eventually reported downloaded. A profile above `MAX_HOPS` is never stored. |
| `filedone` | violation | `DownloadedSound` | Every file is set to skip, and the engine applies it. File 1 is set back to normal. A tick comes before that request's engine call: the engine reports an empty selection as finished, and the fallback marks file 1 downloaded with 0 bytes (`main.rs:653`, `lib.rs:1762`). `EngineMayFail=FALSE` here, so the trace needs no engine error. |

### Mutants

Each property of a passing run is broken by a plausible fault in the mapped code:
- the heartbeat pushed without trimming;
- the capacity test written with `>`;
- the `Engaged` arm missing;
- the `"error"` status arm missing;
- `dict_end` one byte past the `e`;
- a byte string's end not skipping the `:`;
- the item-count guard written with `>`;
- the Engaged arm releasing without checking the VPN;
- the old progress not subtracted before the new one is added;
- a disconnected peer dropped from the cache without releasing its pieces;
- `to_remove` one short.
- `to_lowercase` left out of the magnet hash;
- `percent_decode`'s room check one short, so an escape at the end of a value stays literal;
- `validate`'s hops bound dropped from `h_patch_profile`;
- a file counted complete only when its bytes exceed its size;
- a path component trimmed before it is capped, so the cap can leave a trailing space;
- `pieces_per_bin` rounded down, so the bins miss the last pieces.

## 4. Fairness

`WF(TickTask)` holds because the interval task loops forever and tokio's
`Mutex` is fair (FIFO). `WF(Serve(c))` holds for each client because an
in-flight request runs to completion: its engine calls return, and
`rqbit_api`/`rqbit_id_for` don't block. No fairness is assumed for new
requests, VPN changes or the engine's own progress, because the code does not
cause them.

`TorrentFiles` assumes `WF(TickFiles)` and `WF(UpdateOnlyFiles(c))` for the same
reasons. It also assumes `WF(EngineTransfer(f))`: the engine keeps downloading
a file it has selected. This is an assumption about the swarm, not about the
code. `FileCompletionReported` needs it only when the stats carry no
`file_progress`, because the fallback waits for the whole selection to finish. Requests are bounded by `MaxRequests`, so "once requests stop" is
reachable.

## 5. Not modelled, and why

- Validation (`validate_torrent_id`, `req.validate`). It only turns malformed input into 400 before any state is touched.
- Read-only handlers.
- The policy's other fields, version counter and timestamps. They are never read back.
- `config.rs`. `load_config` runs once in `main` before the listener and the tick task exist. It reads, writes or defaults one port number. A crash during `save_config` can leave a torn file, which then fails to parse at every start, so the default port is used. A crash before `set_permissions` leaves the file with the umask's mode. These are listed as hazards. They are file-system crash semantics around a port number, and no property of the daemon's concurrent state depends on them.
- A run for `NoDotSegments`. Spec 4.1 says `.` and `..` segments are dropped from file paths. The code drops them before it sanitizes, so a name segment such as `.*` or ` .` becomes the component `.`. TLC finds this in the decode inputs. The property is stated in `MC_Bencode`. A single input shows it and a unit test reaches it, so no run is spent on it. The components are kept only in the registry, and the engine writes the files under its own names.
- The rounding of the `f64` products in `get_row_snapshot`. `RowSnapshot` computes `completed_pieces` exactly.
- Engine stats errors in `TorrentFiles`. Such a tick leaves the flags alone (the error is `OrcCore`'s `Reconcile` branch).
- Runs for `EngineTorrentsRegistered` and `ScanNeverPanics`. Both properties are still stated. The first is violated when a capacity refusal follows a successful engine add (`main.rs:574`). The second is violated for input shorter than 6 bytes (`lib.rs:1218`), which is reachable from `h_add_torrent` with a short `torrent_b64`. Each needs a single request or input to show, and the line order shows both. The runs are spent on the file behaviours instead, which only a model checker reaches.
- VPN detection and GeoIP, beyond the boolean they produce.
- Wall-clock time. It is abstracted to ticks, and the heartbeat's "due" is a nondeterministic subset.
- Add requests carrying `.torrent` bytes without a recoverable hash. These skip the dedup lookup entirely.
- The SHA-1 digest and its hex encoding in the info-hash scanner. The model stops at the byte range that is hashed, and equal ranges give equal hashes.
- Error messages of the decoder. Every `Err` is one failed result.
- `parse_torrent_metainfo`, `get_int` and `get_bytes`. Nothing calls them.
- Base64 decoding. A request carries the decoded bytes, and its base64 length is computed. Invalid base64 is refused with a 400 before any state is touched, so it is not among the inputs.
- A magnet whose `tr=` value carries an unencoded `xt=urn:btih:`. The inputs encode no `x`, so `MagnetHashMatches` does not reach the whole-link search of `lib.rs:1197`. The search would return the tracker's hash, and this is listed as a hazard.
- A run for `StartGateHolds` (the gate of `h_start` is passed, a tick engages the switch, and the engine start still goes out). The property is still stated in `MC_OrcDaemon`. The run was given up for `zombie`. The same start is caught by `NoEngineStartWhileBlocked`, which the `blocked` run checks.
- A run for the plain `RunningMirrored`. A tick whose stats call fails right after `h_remove` forgot the engine torrent violates it while the remove is still in flight. `RunningMirroredUnlessRemoving` excludes that window, and its violation (`zombie`) is a record that stays out of step for good.
- Peer rates, byte counters and the other per-peer fields in `peers_for`, and the response rows. No property reads them back. `trackers_for` and `get_row_snapshot` only read. Snapshots in the array form with two entries of one address are not generated; processing such a duplicate twice leaves the counters consistent.

## 6. Plan

1. **Engine selection property.** A safety run for "with no request in flight, the engine's selection is the registry's non-skip set". TLC reaches its violation through the reordered or failed `update_only_files`.
2. **Run slots.** Every run slot is used. `EngineTorrentsRegistered`, `ScanNeverPanics`, `StartGateHolds` and `NoDotSegments` are stated, and each is known to be violated. They would become violation runs if a slot is freed.
3. **`trackers_for` and `torrent_status_from_record`.** Both are read-only projections: the tracker rows' status, and progress with its ETA. They could be operators checked against the record, like `RowSnapshot`.

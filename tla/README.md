# TLA+ models of the stacks-pyth-bridge relay engine

This directory holds the formal models of the bridge relay engine in
`src/example/relayer/src/service.rs` and `src/relayer/src/utils.rs`, and of
the older service of `src/node/src/service.rs` that the relayer binary's
`service start` command runs. Each
module is written from the Rust source. TLC checks the models on small
instances, and TLAPS proves the main safety invariants for every value of
the constants.

## The system

Three long-running loops share nothing but crossbeam channels.

* **Event Bridge** (`start_bridge_service`, service.rs 37-135) receives
  observer events. It drops chain events without a block identifier or below
  `start_block`. It turns a microblock event into
  `PerformPriceFeedMicroblockUpdate`, any other chain event into
  `StartPriceFeedBlockUpdates`, and `Terminate` into
  `StopPriceFeedBlockUpdates`. All of these are sent on the unbounded tenure
  channel, and send errors are ignored.
* **Tenure Controller** (`start_bridge_runloop`, 248-321) owns
  `price_updated`, `rbf_tracking` (the fee-bump tracker) and the stop sender
  of the current clock.
  * On Start it sends `Terminate` to the previous clock, spawns a new one and
    resets `price_updated`.
  * On Tick it checks the debounce (`price_updated && !rbf_enabled`, where
    `rbf_enabled` is the literal `false`). It then fetches the VAAs and runs
    `submit_stacks_transaction` (367-442): encode, `get_nonce` (`expect`),
    tracker lookup or estimate, sign, and `post_transaction` with only its
    result logged.
  * On Stop it breaks out of its loop.
* **Clock** (`start_new_clock`, utils.rs 11-27) is one thread per tenure. It
  sleeps, polls its stop channel with `try_recv` and exits only on
  `Ok(Terminate)`, then sends a Tick.
* **VAA Codec** (`compute_secp256k1_recovery_from_vaa`, 444-501) decodes the
  wire format with a `Cursor`, discarding every read's byte count. It then
  recovers one key per signature, with three `expect`s.

* **Legacy node service** (`src/node/src/service.rs`) has the same Event
  Bridge loop and clocks, but its Controller keeps no `price_updated`: every
  Tick fetches and calls `submit_stacks_transaction`, which only encodes a
  contract call with nonce 0 and fee 0 and returns `Ok` without posting it.
  When the observer's channel breaks, the bridge loop breaks,
  `start_bridge_service` returns `Ok`, `main` returns and the process ends
  with all its threads.

The Stacks node (nonce and mempool) is an external collaborator. It appears
in the model as environment only.

## Modules

| module | models | state |
|---|---|---|
| `Relayer.tla` | Event Bridge, Tenure Controller, fee-bump tracker, clock threads, node as environment | see below |
| `MC_Relayer.tla` | constant definitions for TLC | |
| `RelayerProofs.tla` | TLAPS proofs about `Relayer` | |
| `VaaCodec.tla` | the decoder and recovery loop | input buffer, cursor, the fields read, keys |
| `VaaCodecProofs.tla` | TLAPS proofs about `VaaCodec` | |
| `MC_VaaCodec.tla` | constant definitions for TLC | |
| `TenureAbstract.tla` | what the Tenure Controller promises (spec section 4.3) | tenures opened, updated, posts in the tenure, stopped |
| `NodeService.tla` | the legacy service of `src/node` | process alive, channel, Controller, clocks, transactions built this tenure |
| `MC_NodeService.tla` | constant definitions for TLC | |
| `NodeServiceProofs.tla` | TLAPS proofs about `NodeService` | |

### Relayer

The variables map to the code as follows:

* `tenureQueue` is the tenure channel.
* `ctrl` is the Controller's position:
  * `recv`: blocked in `recv`;
  * `post`: awaiting `post_transaction`;
  * `exited`: after the break or a panic.
* `price_updated`, `rbf_tracking` and `clock_stop` are the locals of the same
  name. `clock_stop` holds the clock's index, with 0 standing for `None`.
* `tx` is the signed transaction being posted.
* `clocks` has one record per spawned thread: its program counter, whether a
  `Terminate` is queued for it.
* `chainNonce` and `mempool` are the node.
* `postsThisTenure`, `acceptedThisTenure` and `lastFee` are history
  variables for the properties.

Each handler is one action and includes every state change it makes. A Tick
splits into cases by outcome:

* `TickDebounced`: the debounce guard skips it.
* `TickAborted`: the fetch or the encoding fails.
* `TickNonceFailed`: `get_nonce` fails, the `expect` panics and the thread
  dies with the channel's receiver.
* `TickSubmit(est, signed)`: the tracker lookup, the estimate or the default
  10000, and signing.

The post is a step of its own (`PostAccepted`, `PostFailed`), because the
clocks and the node move while the Controller awaits it. A clock has two
steps:
* `ClockWake`: the sleep ends and `try_recv` runs.
* `ClockTick`: it sends a Tick.

Sends to an exited Controller are dropped, as `let _ = send(...)` drops
them. The constant `PriceUpdatesPerMinute` is the configured rate: for 0,
`SleepPanics` holds and every clock dies in its first sleep, since
`60 / updates_per_min` divides by zero and `from_config_file` copies the
rate unchecked.

`Relayer` ends with `Abs`, an INSTANCE of `TenureAbstract` under the
refinement mapping tenure = `Len(clocks)` (one clock per Start handled),
updated = `price_updated`, posts = `postsThisTenure` (the
`post_transaction` calls since the last Start), stopped =
(`ctrl = "exited"`). `TenureRefinement` is `Abs!Spec` as a property:
* a Start is a `NewTenure`;
* a post, accepted or not, is the one `Update` of the tenure. `Update`
  needs a tenure with no post yet, and it moves the post count from 0 to 1
  and sets the flag. So a second post in a tenure, for example a stale
  tick judged against a flag that is not set yet, is a step the abstract
  spec does not allow, and so is a Start that leaves `price_updated` set;
* the Stop and the nonce panic are `Stop`;
* every other step is a stutter: the Bridge, the clocks, the node, and the
  Tick handlers that do not post.

Dropping the debounce guard breaks the refinement (the run's mutant).

The Bridge's `break` when the observer channel fails (service.rs 80-87) is
not an action of `Relayer`. It ends the service. That is the same as a run
in which no further observer event arrives, which the bounded observer
already contains. `NodeService` models this exit explicitly, as
`ObserverChannelBroken`.

### NodeService

The same structure as `Relayer`, without the node and the fee tracker.
`running` is the process. `ObserverChannelBroken` models the exit: the
Controller and every clock end wherever they are. The Tick handler is one
action over the outcomes of the fetch and of the encoding
(`FetchResults`, `SubmitResults`); `txBuilt` counts contract calls encoded
since the last Start, up to `BuiltCap` = 2, which is all the property needs
to tell apart.

### VaaCodec

There is one action per cursor read: version, magic and signature count.
Each iteration of the record loop, `read_to_end` of the payload, and each
iteration of the recovery loop are also actions. `ReadBuf` copies the bytes
that remain and leaves zeros in the rest of the buffer, as `Cursor::read`
into `[0u8; n]` does when the result is discarded.

Field widths are constants: `MagicLen` is 4 in the code and `SigBytesLen`
is 64. This lets TLC enumerate every buffer up to a length. Keccak256 and
secp256k1 recovery are abstracted: a key is the tuple (payload, signature,
recovery id), a function of what the real key depends on. The `expect`s
reject a recovery id above 3, or an r or s that is zero or all 0xFF.

## Runs

The `relayer_*` runs have two block heights with `start_block` = 2, so the
filter both admits and drops blocks. The estimates are {5, 20}, plus the
default fee. The channel is bounded at 2.

| run | cfg | result | what it shows |
|---|---|---|---|
| relayer_safety | `MC_Relayer_safety.cfg` | pass, about 263k states | `TypeOK` and `DebounceExact`: at most one post per tenure, and `price_updated` iff one was made, with stale ticks of superseded clocks interleaved. Uses 4 observer events, so up to 4 clocks, and 3 nonces. |
| relayer_liveness | `MC_Relayer_liveness.cfg` | pass | `SupersededClocksExit` and `TenureServed`, under the fairness below. |
| relayer_refinement | `MC_Relayer_refinement.cfg` | pass, about 263k states | `TenureRefinement`: the Controller, with everything else interleaved, implements `TenureAbstract`, including one post per tenure. |
| relayer_zero_rate | `MC_Relayer_ZeroRate.cfg` | violation | With a rate of 0 every clock panics and `TenureServed` fails: no tenure is ever served. |
| relayer_updated_only_if_accepted | | violation | A failed post still sets `price_updated`. |
| relayer_fee_never_decreases | | violation | The same nonce is reposted with a lower fee. |
| relayer_clocks_stop_after_exit | | violation | The clock thread leaks after Stop or the nonce panic. |
| vaa_safety | `MC_VaaCodec_safety.cfg` | pass, 77k states | Checks `RoundTrip` and `KeysFromWire` on every buffer of at most 8 bytes over {0, 1, 4}. That covers a full record with and without a payload, every truncation, and bad recovery ids. `RoundTrip`: serialising the fields read gives the buffer back. `KeysFromWire`: the keys equal those recovered at the fixed wire offsets over the payload, in order. |
| vaa_truncated_rejected | | violation | A truncated buffer, even an empty one, decodes with zeros instead of failing as MalformedVaa. |
| vaa_recovery_never_aborts | | violation | One bad signature panics the whole batch. |
| node_safety | `MC_NodeService.cfg` | pass, 8k states | Under `FairSpec`: `TypeOK` and `SupersededClocksExit` for the legacy service, with the process exit possible at every point. Five observer events. |
| node_one_submission_per_tenure | | violation | `OneSubmissionPerTenure`: without a debounce, a second tick of a tenure builds a second transaction. |

The bounds are large enough for the interesting cases:
* Four events give a Start, a second Start that supersedes the first clock,
  and a Stop, with interleavings of ticks from both clocks.
* Three nonces let the node confirm between a nonce read and a post.
* Each passing run has a mutant, listed in PROJECT.json: a plausible code
  change that TLC catches.

`CHECK_DEADLOCK FALSE` is set in the relayer cfgs because the bounded model
ends with every loop blocked on an empty channel, as the real process is. It
is also set in the codec cfgs because the function returns.

### Fairness

`FairSpec` assumes:
* weak fairness for the Controller: it runs whenever it has a command;
* strong fairness for the successful Tick path (`TickSubmitted`): fetches
  and signatures do not fail forever;
* strong fairness for each clock. A clock's send never blocks in the code,
  because the channel is unbounded. It waits here only because of the model's
  bound `MaxQueue`, so the clock is enabled infinitely often.

`NodeService`'s `FairSpec` has the same weak fairness for the Controller
and strong fairness for each clock, for the same reasons. The observer gets
no fairness, so the process exit may or may not happen.

## Proofs (RelayerProofs.tla, VaaCodecProofs.tla and NodeServiceProofs.tla, all checked by tlapm)

### RelayerProofs

* `TypeCorrect`: `Spec => []TypeOK`. Its lemmas give the types of
  `SendTenure`, `NextFee`, `StopPreviousClock` and the clock `EXCEPT`
  updates.
* `DebounceCorrect`: `Spec => []DebounceExact`. `DebounceExact` is not
  inductive: a post can be in flight. The inductive invariant
  `DebounceInv` adds `PostOnlyUndebounced`: while the Controller awaits a
  post, no post has been made in this tenure. `DebounceInv` was checked
  with TLC first.
* `TenureRefines`: `Spec => TenureRefinement`. `RefineInit` maps the
  initial state to `Abs!Init` (no clocks, by `EmptySeq`). `RefineStep`
  shows `DebounceInv /\ [Next]_vars => [Abs!Next]_Abs!vars`, with one case
  per action class. A Start appends one clock (`StopPreviousClockType`,
  `AppendProperties`). A clock step keeps the length (`ClockStepKeepsLen`).
  A post is an `Update` only if the tenure has no post yet and
  `price_updated` is false. That is where the debounce invariant is
  needed: while a post is in flight, `PostOnlyUndebounced` gives no post
  this tenure, and `DebounceExact` then gives `~price_updated`. The temporal step combines the two lemmas with
  `DebounceInit` and `DebounceStep` by PTL.

All three hold for every value of the constants, under
`RelayerAssumption`.

### VaaCodecProofs

All three theorems hold for every field width and every input bound
allowed by `VaaCodecAssumption`, not only the 8-byte buffers TLC enumerates.

* `TypeCorrect`: `Spec => []TypeOK` (the codec's own `TypeOK`).
* `KeysFromWireHolds`: `Spec => []KeysFromWire`.
* `RoundTripHolds`: `Spec => []RoundTrip`.

All three rest on the inductive invariant `WireInv`, which TLC checked first on
the vaa_safety instance. `KeysFromWire` is not inductive: it says nothing
before `ReturnKeys`, so it cannot carry the loops. `WireInv` says where
the cursor is and what each field holds at each statement. Its parts:

* `PosInv`: the cursor is at `Clamp(o)`, the wire offset `o` of the next
  field, cut at the end of the buffer.
* `FieldsInv`: version, magic and count are `Byte(k)` at their offsets.
  `Byte(k)` is 0 past the end, which is the zero fill of a short read.
* `SigsInv`: record `i` is `RecAt(RecOff(i))`, and the loop runs
  `sig_len` times.
* `PayloadInv`: the payload is everything after the declared records.
* `KeysInv`: key `i` belongs to record `i`.

Two cursor lemmas carry the record loop: `ReadAt` (a read at `Clamp(o)`
yields `Byte(o + 1 ..)`) and `AdvanceAt` (advancing `Clamp(o)` gives
`Clamp(o + n)`). `WireKeysCorrect` finishes the argument. On a complete
buffer every record ends by `DeclaredLen` (`RecordInside`,
`CompleteHeader`), so each `Byte` is an actual byte and `RecAt` is the
`SubSeq` that `WireKeys` reads.

`WireRoundTrip` proves `RoundTrip` from `WireInv`. The reference serialiser
`SigRecords` is written in closed form: byte `k` of the record list is
byte `(k-1) % SigRecLen + 1` of record `(k-1) \div SigRecLen + 1`. It uses
no recursion, so the property needs no induction over the record count.
The argument has three steps:
* `RecordBytes`: one record read at offset `o` serialises to
  `Byte(o+1) .. Byte(o+SigRecLen)`.
* `RecordsBytes`: the records together are `Byte(HeaderLen+1 ..)`, by
  `DivMod` and `DivBound` on the record width.
* On a complete buffer the five fields are the five adjacent slices of the
  buffer. `PrefixExtend` (from `ConcatAdjacentSubSeq`) glues the slices
  together, and `SubSeqFull` closes the chain.

### NodeServiceProofs

`TypeCorrect`: `Spec => []TypeOK` holds for any number of clocks, events
and queue slots, under `NodeServiceAssumption`. When the observer channel
breaks, every clock thread exits. The proof writes that step's clock
update as `AllExited(clocks)`, and `ExitAllClocks` gives its type and
length.

### What stays with TLC

Liveness (`SupersededClocksExit`, `TenureServed`) involves fairness and
ENABLED, which TLAPS cannot handle here, so it is checked only by TLC.
The runs that expect a violation end in counterexamples, not
theorems. Every invariant that a passing run checks is also proved.

## Not modelled

* The configuration and CLI (parsing, file writing and dispatch only). Of
  the configuration, the model keeps what the engine reads: `start_block`
  and the rate (with its missing check, run relayer_zero_rate).
* The exit status of the process and any restart by a supervisor (outside
  the process).
* The diagnostic commands `ping_bridge_service` and
  `collect_guardians_public_keys`.
* HTTP, JSON and base64.
* Time. The clock period is not part of the model.

## Plan

1. A collector module for `collect_guardians_public_keys` on top of
   `VaaCodec`. It loops until exactly 19 keys are known, and its fetch retry
   has no sleep.
2. A variant with `rbf_enabled` true, to check the fee-bump retry path the
   spec describes.

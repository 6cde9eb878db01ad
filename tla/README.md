# Verification of beanstalk-rs (ebeans)

These are TLA+ models of the beanstalk-rs server (`src/src`), with TLC runs
and TLAPS proofs, checked against `spec.md`.

## The system and its parts

* **Wire decoder** (`src/wire/decoder.rs`, `src/wire/mod.rs`).
  * A `tokio_util::codec::Decoder` with three states:
    * `ParseCommand`: looks for `\r\n` in the first 224 bytes;
    * `ParseJob{remaining}`: hands out the put payload in chunks, then expects `\r\n`;
    * `DiscardToNewline`: recovers after a framing error.
  * `wire::framed` wraps it in a `FramedRead` over the client's TCP stream.
* **Connection loop** (`do_client_loop` in `src/bin/ebeans/main.rs`).
  * Takes the decoder's events and answers them.
  * A command is answered `INTERNAL_ERROR`, since no command is implemented yet.
  * A payload event is answered `BAD_FORMAT`.
  * A framing error is answered, and then the connection closes.
  * Every wait in the loop races a process-wide `CancellationToken` that ctrl-c fires, except one.
  * `main` waits for every connection before it exits.
* **Encoder** (`src/wire/encoder.rs`).
  * Turns each `Response` that `framed.send` is given into bytes in the write buffer.
  * A fixed word, `"{word} {num}\r\n"`, `"USING {tube}\r\n"`, or `"OK {len}\r\n{yaml}\r\n"` for the stats and list replies.
  * A reserved or peeked job is sent as three Responses: `Reserved{id}` or `Found{id}`, the job's `JobChunk`, and `JobEnd`.
  * A failed YAML serialisation writes `INTERNAL_ERROR` into the write buffer and returns `Err`. `x?` (main.rs:143, 163) then returns from `do_client_loop` and drops `framed` with its unflushed buffer, so the client never gets that `INTERNAL_ERROR`; `SendSerdeFails` leaves `wire` and `sent` unchanged and stops all further sends.
* **Process** (`main` and `accept_loop` in `src/bin/ebeans/main.rs`).
  * Start-up: a WAL directory is rejected with exit code 2, and a failed bind exits with 111, both before `accept_loop` runs.
  * A task fires the token on ctrl-c.
  * `accept_loop` races `listener.accept()` against the token in a `select!`, and spawns one `do_client_loop` task per connection. Each task holds a clone of the mpsc sender `shutdown_hold`.
  * When the token fires, `accept_loop` returns and drops its own sender.
  * `main` then blocks in `shutdown_wait.recv()`, which returns once every sender is gone, and exits.
* **Job store** (`src/types/tube.rs`, `states.rs`, `job.rs`).
  * `Server` holds the jobs. Each tube (`TubeState`) holds:
    * a ready map keyed by a running position `ready_sn`;
    * a delayed set;
    * statistics counters that are kept by hand beside the maps.
  * Only `reserve_by_id` and the tube helpers have bodies; the other operations are `todo!()`.
  * Nothing connects the store to the connection loop yet.
* **Not modelled:**
  * The reservation scheduler (`reserve_by_queue`, `release`, `bury`, `kick`, `touch`, `handle_delayed_jobs` in `src/types/tube.rs`) is `todo!()` throughout and has no behaviour to model.
  * Argument parsing (`args.rs`, clap) and logging set-up are configuration. What `main` does with the WAL flag is modelled in `Process`.
  * The YAML text `serde_yaml` produces for stats is an abstract byte sequence. Only its length and its bytes matter to framing.
  * The command parser (`wire/parser.rs`) is not in the repository. Its contract is taken from the spec (`ParsedCommand`, marked spec-modelled).

## Modules

| Module | Models | State and actions |
|---|---|---|
| `Codec` | `decoder.rs` `decode`, the default `decode_eof` | pure operators: `DecodeCommand`, `DecodeJobEnd`, `DecodeJobChunk`, `DecodeDiscard`, `Decode`, `DecodeEof`; a decoder step returns `[dec, buf, out]` |
| `Reader` | `FramedRead::poll_next` (the state `eof`, `is_readable`, `has_errored`) over one client's stream | `FrDecode`, `FrErrored`, `FrRead`, `Hangup` (the client closes its side), `Consume` (a consumer that polls past errors, as the decoder tests do) |
| `Framing` | spec 4.1, the framing over the whole stream | `RefFraming(stream, recover)`: a recursive function, the reference the incremental decoder is compared with |
| `Session` | `do_client_loop`, ctrl-c, the socket send buffer | `Poll`, `Recv`, `CancelRecv`, `SendDone`, `CancelSend`, `Shutdown`, `Cancel`, `ClientRead`, `ClientHangup` |
| `Store` | `TubeState` helpers, `Server::reserve_by_id`; job creation from spec 4.2 | `Put(t, delay)`, `ReserveById(id)`; a failed `assert!` or `unwrap` sets `panicked` |
| `Encoder` | `Encoder::encode`, `put_str_and_u32/u64` (with the decimal conversion), `put_ok_and_data`, successive `framed.send`s of one reply | `Send(items)`, `SendSerdeFails(items)`; `wire` is what reaches the client, `sent` what each reply means by `protocol.rs`'s "On the wire" |
| `ReplyGrammar` | spec section 6: how a client splits the bytes into replies | `Parse(w)`: the reference the encoder's output is read with (recursive; not code of the repository) |
| `SessionAbs` | what one connection task promises `main` | `AbsEnd` (the task returns, dropping its sender), `AbsCancel`; weak fairness on ending once cancelled |
| `Process` | `main`, `accept_loop`, the ctrl-c task, the `shutdown_hold` senders | `Startup` (exit 2 or 111), `AcceptStart` (the `local_addr()?` error), `Accept(c)`, `AcceptCancelled`, `TaskEnd(c)`, `Signal`, `MainExit` |
| `ReaderProofs`, `SessionProofs`, `ProcessProofs`, `StoreProofs` | the TLAPS proofs about `Reader`, `Session`, `Process` and `Store` | |
| `MCSession`, `MCReader`, `MCStore`, `MCProcess`, `MCEncoder` | the instances for TLC | |

`Session` and `Process` are composed by refinement rather than in one state space.
* `Session` maps to `SessionAbs` with `ended <- (pc = "done")` and the token shared.
* `session_framing` checks `SessionImplementsAbs`, which is `SessionAbs!AbsSpec` as a property of the detailed `FairSpec`. So the detailed loop ends once cancelled, as the abstract task promises.
* `Process` then treats each connection as that abstract task: `TaskEnd(c)` is `AbsEnd` for connection `c`, with the same fairness.
* Connections share nothing but the token and the sender, so this keeps the product of four detailed sessions out of TLC's way.

Data is abstracted as follows.
* A byte is a small integer: `CR`, `LF`, `X` (any other byte), `Cmd` (the verb of a non-put command), or `n` (the verb of `put ... n`).
* A command line is therefore its verb followed by argument bytes.
* Each call of `decode` is one step, and every segmentation of the stream into reads is explored.
* A response is its kind; a tube is a model value.
* `JobState::Ready{pos}` is kept as a job's `pos`. The delayed set keeps ids only, because nothing reads the instants.

## Runs

| Run | Checks | Result |
|---|---|---|
| `session_framing` (MCSession.cfg, `FairSpec`) | `TypeOK` (the send buffer never overruns), `FramingAgreement`, `FramingErrorFatal`, `SessionImplementsAbs`, `InputEndCloses` | pass, about 124k states |
| `process_shutdown` (MCProcess.cfg, `ProcSpec`) | `ProcTypeOK`, `ExitOnlyWhenAsked`, `ShutdownExits` | pass, 268 states |
| `encoder_framing` (MCEncoder.cfg) | `ClientReadsReplies` | pass, 1,226 states |
| `reader_recovery` (MCReader.cfg) | `ReaderTypeOK`, `ReaderRecovery` | pass |
| `store_index` (MCStore.cfg) | `StoreTypeOK`, `IndexAgrees`, `StatsMatchIndex` | pass |
| `session_shutdown_unfair` | `ShutdownCompletes` under `Spec` (client not obliged to read) | violated: finding |
| `session_responses` | `OneResponsePerRequest` | violated: finding |
| `reader_progress` | `DecodeProgress` | violated: finding |
| `reader_payload_eos` (MCReaderEos.cfg) | `PayloadCutIsError` | violated: finding |
| `encoder_job_replies` (MCEncoderJobs.cfg) | `ClientReadsReplies` with `RESERVED`/`FOUND` replies | violated: finding |
| `store_reserve_by_id` | `JobIndexAgrees` | violated: finding |

What the properties say:
* **`FramingAgreement`**: whatever the read sizes, the events the loop acts on are a prefix of `RefFraming(stream, FALSE)`, and all of it once the loop ended on end of stream, IO or a framing error. The reference ends cleanly when the stream stops inside a payload, as the code and `test_put_eos` do; the comment that says otherwise is the finding `reader_payload_eos`. Every mutant of the window, the chunking or the discarding breaks it.
* **`FramingErrorFatal`**: a framing error is protocol-fatal (spec section 6). No event after a `BAD_FORMAT` or `EXPECTED_CRLF` is acted on. Once the loop has ended on such an error, the last response sent is that error's own, unless ctrl-c cancelled the send. The mutant `continue`s instead of `break`ing after the error's response; it then ends on the errored reader's `None` without the error being the last word.
* **`ReaderRecovery`**: for a consumer that keeps polling after an error (as `test_recovery` does), the events are a prefix of the reference with recovery: no bad byte surfaces as an event, and when the line end after the bad bytes is in the buffer, the command after it arrives intact. When only its CR has arrived, the decoder livelocks (`reader_progress`) and the prefix holds only because nothing more arrives; so the property speaks about the recovery path through `src.advance(idx + 2)`, and its mutant (advancing one byte short, leaving the LF) breaks it.
* **`PayloadCutIsError`** (violation run only): the comment at decoder.rs:107-110 promises an error when the stream ends inside a payload.
* **`SessionImplementsAbs`**: the connection loop implements `SessionAbs`. It ends at most once, never un-cancels the token, and ends once the token has fired.
* **`ShutdownCompletes`**: once cancelled, the connection task ends. It is the same promise stated directly, and is checked without the reading client.
* **`ExitOnlyWhenAsked`**: `main` returns only with an exit code, `SUCCESS` only after ctrl-c, and never while a spawned task holds its sender.
* **`ClientReadsReplies`**: a client that reads the bytes by the grammar of spec section 6 gets back exactly the replies sent, in order. The length prefixes, decimal numbers and CRLFs must delimit every reply, including bodies that contain CRLF and lengths of two digits.
* **`ShutdownExits`**: provided every task ends once cancelled (`TasksEndOnCancel`), once ctrl-c has fired, `main` exits. This includes connections accepted after the signal, because `select!` may still pick the accept branch. Every sender clone must be dropped; if `main` kept one, as in the mutant, it would hang. Without the proviso it is false: a task stuck in the uncancellable send at main.rs:154 hangs `main` at main.rs:73 (`session_shutdown_unfair`).
* **`InputEndCloses`**: once the client has closed its side, the connection task ends.
* **`IndexAgrees`**: every ready or delayed entry names a live job of that tube, in that state and at that position, below `ready_sn`.
* **`StatsMatchIndex`**: the counters equal the sizes of the maps.

Every property of a passing run has a mutant in `PROJECT.json`: a plausible bug in the mapped code that TLC shows breaks it.

### Findings

* **`encoder_job_replies`** (encoder.rs:123). `Reserved` and `Found` are written as `RESERVED <id>\r\n` and `FOUND <id>\r\n`, with no byte count. Spec section 6 and the doc comments of `Response::Reserved`/`Found` (protocol.rs:223, 227) say `RESERVED <id> <n_bytes>`. A client cannot find the end of the body; one with CRLF inside reads as more replies.
* **`reader_progress`** (decoder.rs:152). `DiscardToNewline` with one buffered byte and no CRLF returns `Discarded` without consuming anything. `FramedRead` then decodes again forever and never reads. A consumer that polls past an error livelocks. `do_client_loop` hides this by closing after every framing error.
* **`session_shutdown_unfair`** (main.rs:154). The `BAD_FORMAT` send for payload events is not raced against the token. Suppose the client stops reading and the send buffer is full. Then ctrl-c never ends that connection, and `main` waits for it forever.
* **`session_responses`** (main.rs:153). A put gets `INTERNAL_ERROR`, then one `BAD_FORMAT` per payload chunk and one more for the end. The number of responses depends on the read sizes.
* **`reader_payload_eos`** (decoder.rs:107). The comment in `ParseJob` says returning `Ok(None)` on an empty buffer makes the codec fail when the stream ends inside a payload. The default `decode_eof` returns `Ok(None)` on an empty buffer, so a put cut short (`put 1\r\n` then a hangup) ends cleanly. `test_put_eos` expects exactly that; the comment is wrong, or the code misses the error.
* **`store_reserve_by_id`** (tube.rs:168). `reserve_by_id` removes the ready entry but leaves the job `Ready{pos}`. A second reserve of the same id panics in `take_ready`.

## Bounds

* **MCSession:**
  * `MaxLine = 4` stands for 224. Lines of 3, 4 and 5 bytes cover both sides of the limit, including a CRLF that straddles the window edge.
  * Puts announce 0 or 2 bytes, with payloads that end in `\r` or contain `\r\n`, and a payload not followed by CRLF.
  * A stream is one or two such messages, and `Hangup` may cut it at any point.
  * `OutCap = 1` makes the send buffer fill after one response.
  * Every read size is explored, so a CRLF split across reads and a chunk followed by the next command in the same read both happen.
* **MCProcess:** four connections, as model values. With three the state space is under a hundred states; four give every order of accepts, task ends and the signal, with accepts both before and after it. No symmetry is declared, because the run checks liveness.
* **MCEncoder:**
  * Two replies of every kind, with numbers 0, 7 and 12 (one and two digits).
  * YAML texts and bodies that are empty, are exactly CRLF, end in a lone CR, or are ten bytes with a CRLF inside (a two-digit length).
  * One reply is enough for the job-reply violation.
* **MCReader:** each stream is one kind of bad input followed by a command, so each recovery path is exercised, including a lone `\r` kept across reads.
* **MCStore:**
  * Two tubes (symmetric model values) and three jobs, delayed or not.
  * Enough for two ready jobs in one tube, a reserve between two puts, and a second reserve of one job.
  * Symmetry is sound because no definition names a tube.

## Fairness

* `WF` on the server task: tokio schedules a task that can run.
* `SF` on the two cancellation branches: `select!` polls its branches in random order, so a branch that is ready infinitely often is eventually taken.
* The client and the signal are not obliged to act.
* `FairSpec` adds a client that keeps reading; `session_shutdown_unfair` shows what happens without it.
* In `Process`:
  * `WF` on `MainExit` and on `accept_loop`'s start, since tokio runs a task that can run.
  * `SF` on the cancellation branch of `accept_loop`'s `select!`, because an `accept` may keep winning the random choice.
  * `TasksEndOnCancel`: each task ends once cancelled (`WF` on `cancelled /\ TaskEnd(c)`), which is the fairness of `SessionAbs`. This is an assumption about `do_client_loop`, not a guarantee of the code: `session_framing` checks that the loop meets it when the client reads, and `session_shutdown_unfair` shows that it fails when the client stops reading. `ShutdownExits` holds only under it.
  * `MCProcess` checks `CHECK_DEADLOCK FALSE`, because the real process idles in `accept()` and `recv()` when no client and no signal come.

## Proofs (TLAPS)

`ReaderProofs` proves `ReaderTypeCorrect`: `ReaderSpec => []ReaderTypeOK` for every `MaxLine`, `MaxPut` and set of streams.
* Lemmas give each decoder operator its type: the split index lies in the buffer, and `remaining` stays in `1..MaxPut`.
* The inductive `ReaderInv` adds that the item handed to the consumer is never `Ok(None)`. `FramedRead` loops instead of returning it, and without this fact `Consume` is not closed.
* `MinExists` (the first CRLF exists when one does) comes from `WellFoundedInduction`'s `WFMin` on `<` over the naturals.

`ProcessProofs` proves `ExitOnlyWhenAskedHolds` and `ProcTypeCorrect` for every set of connections, with no assumption on `Conns`.
* `ExitOnlyWhenAsked` is not inductive on its own. The invariant `PInv` adds what each exit code says about where `main` is:
  * no exit code and no exit while `accept_loop` runs;
  * `SUCCESS` or `FAILURE` once it has returned;
  * 2 or 111 only during start-up, before any connection is spawned.
* It also adds that `SUCCESS` implies the token has fired, and that an exited `main` has no running task.
* With these facts, no `Accept` or `TaskEnd` can follow the exit.
* `TasksRefineAbsSafety` proves the process's side of the composition. For each connection `c`, `ProcSpec` implies the safety part of `SessionAbs` under `ended <- (c \in finished)`.
  * `TaskEnd(c)` is `AbsEnd`, and `Signal` is `AbsCancel`; every other step leaves both alone (`ProcStepTask`).
  * So Process never lets a task end twice or resume, and never resets the token.
  * SessionAbs's fairness is not implied for a connection that is never accepted, because it has no task. `ProcSpec` assumes it only as `WF(cancelled /\ TaskEnd(c))`, and `Session`'s side of it is model-checked.

`SessionProofs` proves `SessionTypeCorrect`: `Spec => []TypeOK` for every `OutCap`.
* `SessionInv` is `TypeOK` plus the reader's fact above. Every event the loop receives then has an arm of its match.
* There is one lemma per group of actions.
* `SendDone` keeps `Len(outq) <= OutCap` because `framed.send` completes only with room in the buffer.

`SessionProofs` also proves `SessionRefinesAbsSafety`: `Spec => AbsSession!AbsInit /\ [][AbsSession!AbsNext]_AbsSession!absVars`, the safety part of `SessionImplementsAbs`.
* Initial states map to `AbsInit`.
* By `SessionStepRefines`, every step under `SessionInv` maps to an abstract step or a stutter:
  * `Shutdown` is `AbsEnd`;
  * `Cancel` is `AbsCancel`;
  * every other action leaves `pc = "done"` and `cancelled` as they were.
* `Recv` needs `SessionInv`. A `CASE` with no matching arm would leave `pc'` unconstrained, and the lemma `RecvKeepsRunning` shows that every event has an arm and that none of them ends the task.
* The fairness conjunct `WF(cancelled /\ AbsEnd)` is liveness and is only model-checked.

`SessionProofs` also proves `FramingErrorFatalHolds`: `Spec => []FramingErrorFatal`.
* The property alone is not inductive, because it says nothing of where the loop is.
* `ErrInv` adds three facts, each relating `pc` to the log:
  * in `next`, `send` and `sendBadFormat`, the log holds no framing error;
  * in `sendError`, the error is the last logged event and the pending response is its own;
  * once the loop has left, a log that ends on the error comes with `closedBy = "Client"` and that response last in `sent`, or with `closedBy = "Cancel"`.
* TLC checked `ErrInv` on the `session_framing` instance before it was proved.
* The lemmas `AppendNoClientError` and `AppendClientError` say what logging one event does to these predicates. `RecvErrInv` goes through the arms of the match, and `ErrStepInv` has one step per action.
* The errored reader's `None` cannot be logged, because `Logged` drops `End`. That is why no event follows the error.

`StoreProofs` proves `StoreSpec => []IInv` for every set of tubes and every `MaxJobs`. It rests only on `StoreAssumption` (there is at least one tube, and `MaxJobs` is a natural).

`IndexAgrees` alone is not inductive, so `IInv` strengthens it with three facts about each tube:
* the ready map and the delayed set are finite;
* the counters equal their cardinalities;
* no two ready entries share a position.

Each fact is needed:
* `put_ready` must insert a fresh entry, so that the count grows by exactly one (`FS_AddElement`);
* `take_ready` removes exactly one entry, because positions are unique (`FS_RemoveElement`).

Three lemmas (`PutReadyInv`, `PutDelayedInv`, `TakeReadyInv`) prove that each helper preserves the per-tube part. The theorem has one step per action. `StoreTypeCorrect`, `IndexAgreesHolds` and `StatsMatchIndexHolds` follow as corollaries; they state for every instance what `store_index` checks on one. `IInv` implies `put_ready`'s assert (`PutReadyOk`), so `Put` never panics. `take_ready`'s unwrap is different: it can fail, and `store_reserve_by_id` shows how.

## What is only model-checked, and why

* **Liveness, and the fairness half of the refinement** (`ShutdownCompletes`, `InputEndCloses`, `DecodeProgress`, `ShutdownExits`, the `WF` conjunct of `SessionImplementsAbs`): TLAPS does not reason about fairness or `ENABLED`. `DecodeProgress` is an action property, but its run is a violation.
* **`ClientReadsReplies`**: the reply grammar is recursive, and what the encoder and `Parse` compute for every input needs induction over data.
* **The framing properties:** they compare with the recursive reference `RefFraming`. What a recursive definition computes for every input needs induction over data, which the installed provers cannot instantiate.

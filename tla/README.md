# tongues: a TLA+ verification project

`tongues` is a Rust workspace for incremental speech: audio comes in, is cut into segments and
recognised, a duplex engine guesses how the utterance goes on, and speech synthesis starts before
the text is final, so that what has not been played yet is revised while earlier audio is heard. This
directory holds TLA+ models of the parts that keep state, TLC configurations that check them on
small instances, and TLAPS proofs of every safety and action property those runs check: of the ledger and the assembler
that decide what is heard, the event contract, the way from captured audio to segments, the sessions of the server, its
live turns and its recorded work.

Every definition is translated from the Rust code; the documents under `docs/` and the comments are
only quoted for what they promise. Paths in this file are relative to `src/`; `crates/` is
`src/crates/`. `PROJECT.json` maps each definition to the lines it stands for.

## 1. Inventory

The system has three pipelines that meet in the server.

```
microphone / browser -> AudioInput -> VadPipeline(UtteranceSegmenter) -> segments -> recognisers
                           ^                                               |
                 audio_input_ws.rs session                       AsrRuntime + asr_api.rs permits
                                                                            |
transcript events <- TranscriptCandidateTracker -> numbered envelopes -> StreamValidator
                                                                            |
live turn (live.rs, main.rs) -> planner -> PlaybackLedger -> RevisionWaveformAssembler -> device

browser -> command jobs (child processes, durable records)      main.rs, one process that may
        -> pipeline runs (one slot, durable records, controls)   crash and start again
```

| Component | State | Operations | Interacts with | What is hard |
|---|---|---|---|---|
| Playback ledger, `crates/tongues-tts/src/tts_ledger.rs` | emission order, entries (delivery state, commitment, audio), revision, metrics | `apply_delta`, `attach_pcm`, `advance_state`, `collect_unplayed_pcm`, `build_revision_assembler` | planner, renderer and player call it in any order | revisions against playback; one validation for a list of changes; late audio |
| Revision assembler, `crates/tongues-tts/src/revision_assembler.rs` | sample buffer, played count | `push`, `mark_played`, `replace_suffix`, `drain_pending` | built from the ledger | fades at the boundary of what was played |
| Event contract, `crates/speaking/src/event.rs` | sequencer counter; validator's stream, sequence, texts, commits | `push`, `validate` | producers, a transport, consumers | loss, repetition, reordering; text ranges |
| Recogniser sessions and transcripts, `crates/speaking/src/asr.rs`, `transcript.rs`, `text_stability.rs` | last hypothesis, whether it was final, active candidate and its text | `push_audio`, `finish`, `cancel`, `ingest_candidate` | producers of the event contract | ranges of a text that changes; hypotheses left open at the end |
| Utterance segmenter, `crates/tongues-audio/src/segmentation.rs` | pre-roll, pending speech, active segment, counters | `process_vad`, `process_authoritative`, `note_source_discontinuity`, `force_flush` | VAD pipeline, providers with endpoints | many thresholds, many ways to close |
| Bounded input, `crates/tongues-audio/src/source.rs`, `system_input.rs` | bounded channel, expected sequence, held-back chunk, two flags | `try_send`, `end`, `reconnect`, `next_event`, `cancel` | capture callback, browser session, file readers | a full queue, reconnects, dropped senders |
| VAD pipeline, `crates/tongues-audio/src/speech_pipeline.rs` | samples short of a frame, timeline position, queued events | `next_event`, `cancel` | input, segmenter | gaps seen twice, partial frames |
| Browser audio session, `crates/tongues-server/src/audio_input_ws.rs` | a task, a blocking task, a thread; three queues | session loop, consumer, language worker | a client that ends, closes, or disappears | joins against full queues, a `try_send` whose error is dropped |
| Recognition sessions, `crates/tongues-server/src/asr_api.rs`, `crates/speaking/src/asr.rs` | semaphore, runtime behind a mutex, its sessions | stream sockets, file transcription with a timeout | clients, providers | every exit path has to release; a timeout leaves the work running |
| Live turn, `crates/tongues-server/src/live.rs`, `main.rs:2268-2758` | active turn ids, one cancellation flag, five tasks, five channels | start, cancel, coordinate generation and synthesis | LLM provider, synthesis worker, client | workers blocked on queues nobody reads; a verdict that races cancellation and the last audio |
| Belief state, `crates/speaking/src/duplex.rs` | word emissions, their delivery, journal | commit, withdraw, repair, replay | duplex engine | replay equals the state it was recorded from |
| Command jobs, `crates/tongues-server/src/main.rs:3983-4103`, `4705-4958` | registry behind a mutex, a child behind its own mutex, a record on disk per job | start, run, read output, cancel, finish, restore after a restart | child processes, clients | cancel against exit, late output, failed writes, crash and restart |
| Pipeline runs, `crates/tongues-server/src/main.rs:1052-1176`, `1281-1635`, `1746-1759` | one slot, command senders, a task, a record on disk per run | start, steps and their events, stop, panic | clients, operators, step sources | a slot leaked or shared; a client that is gone; a source that gives nothing |
| The rest (recognisers, language data, synthesis models, training, command line, browser code) | listed in `PROJECT.json` with the reason it is not modelled | | | |

What makes each part correct:

* **Playback ledger.** Predicted audio is never played. What was played is frozen and remains the
  start of the schedule, through every revision. The two views of the audio - the device's and the
  assembler's - hold the same samples.
* **Assembler.** The played prefix does not change, nothing of a replaced suffix stays, a fade does not
  make a listener hear played audio again (the code's does, by one sample).
* **Event contract.** What a consumer applies is an unbroken run of one stream; its text is the
  producer's text; committed text is final (for the validator it is, but for another commit).
* **Recogniser sessions.** The changes a session tells make up the hypotheses it heard; when it is over, each of them has
  been committed or called off.
* **Segmenter, input and pipeline.** No gap is passed over, a segment is one stretch of one connection's
  audio, no speech is reported twice or lost, and the end of the stream flushes.
* **Browser session.** The client hears everything before the end and nothing after it; the session ends.
* **Recognition sessions.** A session never outlives its permit, whatever way its task ends; whoever is
  admitted is served; whoever is told that it is over may come back; permits return, unless the client pings for ever.
* **Live turn.** What is spoken was committed before, in that order; `completed` means that all was spoken; a
  client that stays is told how the turn ended; the turn ends and its id is free again.
* **Command jobs.** No process runs that the disk does not know; a running job has a thread; a final status is final
  and true, and in view as long as its record can be read; a cancel that was answered ends the job.
* **Pipeline runs.** The slot is never shared, and taken exactly while a run is alive, or for good by one whose
  handler was dropped before it had a task; the end of a task is on record; a stop ends it.

## 2. Modules

| Module | Models | Lines of code behind it |
|---|---|---|
| `PlaybackLedger` | the ledger with its three callers | `tts_ledger.rs` |
| `LedgerHandoff` (extends it) | the assembler and the device's audio that are built from a ledger; the refinement of `Playout` | `tts_ledger.rs:456-500`, `revision_assembler.rs` |
| `Playout` | the abstract promise to a listener, with no ledger in it | - |
| `PlaybackLedgerProofs` | theorems about `PlaybackLedger` and `LedgerHandoff`, the refinement of `Playout` among them | - |
| `RevisionAssembler` | push, playback, replacement with its fade | `revision_assembler.rs` |
| `RevisionAssemblerProofs` | theorems about `RevisionAssembler` | - |
| `SpeechOutput` (extends `LedgerHandoff` and `RevisionAssembler`) | both in one system, for the runs | - |
| `StreamContract` | sequencer, an unreliable transport, validator | `event.rs` |
| `RecognitionStream` (extends it) | a recogniser's session and its candidate tracker as a producer | `asr.rs:468-655`, `transcript.rs`, `text_stability.rs` |
| `StreamContractProofs` | theorems about `StreamContract` and `RecognitionStream` | - |
| `UtteranceSegmenter` | the segmenter as a record and operators on it (no variables) | `segmentation.rs` |
| `SegmenterCalls` | a caller that may make any call on any frame | as above |
| `AudioInput` | the bounded channel, its senders and `next_event` (variables and actions, composed by others) | `source.rs`, `system_input.rs` |
| `VadPipeline` (composes `AudioInput` and `UtteranceSegmenter`) | `next_event` and `cancel` of the pipeline | `speech_pipeline.rs` |
| `Segmentation` (extends `SegmenterCalls` and `VadPipeline`) | both in one system, for the runs | - |
| `SegmentationProofs` | theorems about `SegmenterCalls`, `AudioInput` and `VadPipeline` | - |
| `BrowserAudioSession` (composes `AudioInput`) | session, consumer, language worker and client | `audio_input_ws.rs` |
| `BrowserAudioSessionProofs` | theorems about `BrowserAudioSession` | - |
| `AsrSessions` | permits, runtime, streams and transcriptions | `asr_api.rs`, `asr.rs` |
| `AsrSessionsProofs` | theorems about `AsrSessions` | - |
| `LiveTurn` | provider, generator, coordinator, synthesis worker, client; cancellation; the refinement of `SpokenTurn` | `live.rs:120-455`, `main.rs:2268-2758` |
| `SpokenTurn` | what a turn promises a listener, without tasks and queues | - |
| `LiveTurnProofs` | theorems about `LiveTurn`, the refinement of `SpokenTurn` among them | - |
| `CommandJobs` | requests, threads, readers, cancels, disk, crash and restart | `main.rs:3983-4103`, `4705-4958` |
| `PipelineRuns` | handler, task, channel, controls, records | `main.rs:1052-1176`, `1281-1635`, `1746-1759` |
| `ServerWork` (extends `CommandJobs`, composes `PipelineRuns`) | both kinds of work in one server that crashes and restarts | as above |
| `ServerWorkProofs` | theorems about `CommandJobs` and `PipelineRuns`, both carried over to the server with jobs and runs | - |
| `MC...` | constants of the TLC runs | - |

How state and actions correspond to the code, where it is not one action per method:

* `apply_delta` validates *all* changes of a delta first and then applies them. It is three actions
  (`ApplyDelta`, `ApplyChange`, `FinishDelta`), so that the invariants speak of the ledger between two
  changes as well; all other actions need `incoming = 0`, since the method holds `&mut self`.
* Calls the code refuses with an error change nothing and are stuttering steps. The exception is
  `validate` of the event contract, which binds the validator to a stream before its last check;
  the model keeps that.
* In `PlaybackLedger` a position in `emission_order` keeps its number when an earlier one is removed.
  The code's vector closes up; only the relative order has a meaning, and `MaxSlots` bounds the numbers.
* The audio of an emission is a sequence over `Sample`. `pieces` lays what each emission gives out by its position,
  and `Concat` joins it, as the loops over `emission_order` do (`entries_in_order`). `heard` and `plan`, which map the
  ledger to `Playout`, are of the same form.
* `PrefixPlayback` is the player's discipline, which the ledger leaves to it: emissions are reported as
  played in order. `TRUE` adds it to `AdvanceState`, `FALSE` is the code's own guard and nothing else.
* A sample of `RevisionAssembler` is the set of renderer samples it is mixed from, so a fade is a union
  and "heard again unmixed" can be said.
* In `StreamContract` a producer is held to what the contract asks of it, but for the mistakes in `Faults`: an unknown
  version, a derived event without its sources, a range outside the text, a hypothesis for a committed segment (`late`),
  a second commit of one (`recommit`). The theorems are about any set of them.
* In `RecognitionStream` a stream is a recognition session or any producer at all. A call of a session is one action; what
  it returns is in `outgoing`, which the caller sends before it calls again (`asr_api.rs:518-536`). The session is the one
  of `asr.rs` that takes hypotheses as they come; Whisper's uses the same tracker and hears everything at its end. The
  code finds the stable prefix in bytes and counts its characters; the model counts characters.
* The segmenter is a record, not variables: the pipeline calls several of its methods in a step. Its
  history `log` holds the events they return. The code's `None` is a value that no segment, chunk or place is:
  `NoSegment`, `NoChunk`, `Unknown`.
* In `AudioInput` the message queue, the held-back chunk and the flags are the code's. A chunk carries its
  connection (`era`) and its place in the order of capture, which the code does not have: properties use them,
  actions do not read them. `accepted` holds the chunks whose senders were told `Ok`.
* In `BrowserAudioSession` what the consumer does for one pipeline event is an `outbox` worked off step by
  step, so that the other tasks run in between; `try_send` and the blocking `send` are kept apart.
* `allocated_memory` of `AsrSessions` is the sum over the open sessions that the runtime keeps as a counter.
* In `AsrSessions` an operation of a stream under the mutex is one action. The two locks that a failed push
  takes, one to push and one to cancel, are two actions. A transcription holds the mutex over several. A ping or a pong
  is a step of the client (`Ping`) and one of the task (`ReadOn`), which is back in its loop with its timer started anew;
  all other messages have actions of their own.
* In `LiveTurn` each action is what a task does between two awaits. `generated` and `voiced` are the events a task
  has still to send, `telling` is the event the coordinator is sending, so that every send can meet a full queue or
  a listener that is gone. `told` is the stream as the client gets it, without the events no property is about.
  `phase`, `committed` and `spoken`, which map a turn to `SpokenTurn`, are read off it (`ToldOf`, `SegmentsIn`).
  `NextPass` is the test at the end of the `select!` loop, which reads the worker's state before it is joined.
* In `CommandJobs` what a thread does under the registry's lock is one action, the write of the record included, since
  the code writes while it holds the lock. `Restart` skips any records, as `load_job_registry` does when it cannot read
  them; `skipped` remembers which, for the properties. The child's own lock is the thread's place: `asleep` and `giveup` hold it.
  Output lines and progress appear as the writes of the record they cause. `verdict` and `lost` are history.
* In `PipelineRuns` an event is two actions, `Emit` (written) and `Send` (sent), because the second waits for room.
  `After` says where the task goes on behind an event. The end of a run is two as well: the final status, and the slot.
  Before the task is spawned the request's handler is at work, and a connection that is lost drops it at the await it is
  in, undoing nothing: `DropHandler`, with the place `dropped`, from which there is no step but a crash.
* `ServerWork` crashes both at once. A behaviour has jobs or runs: they share no state but the process they live in, and
  their product would only multiply the states. In the same way a behaviour of `SpeechOutput` is that of a ledger or of an
  assembler (the one that a ledger builds is a state of it, reached by `Push` and `MarkPlayed` as in
  `build_revision_assembler`), and one of `Segmentation` that of a pipeline with its segmenter or of a segmenter under
  any calls.

## 3. Runs

Each property has a mutant in `PROJECT.json`: a plausible bug in a mapped definition under which TLC must
find that property violated in that run.

| Run | Question | What it shows |
|---|---|---|
| `speech_output` | a ledger: a player that goes in order, deltas that schedule an id once, buffers that sound different | played emissions are a prefix (`PlayedIsPrefix`), handoff to device and assembler neither loses nor doubles audio (`HandoffConserves`, `AssemblerPrefixIsPlayed`), and the ledger implements `Playout` (`PlayoutPromise`: heard once, in order, out of reach of revisions) |
| | an assembler: any sequence of pushes, playback and revisions | `PlayedPrefixFrozen`, `NoStaleSuffix`, `AtMostOneRepeated` |
| `ledger_suffix` (violation) | the comment that a replaced suffix discards what has *not* been played | see finding 1 |
| `assembler_repeat` (violation) | a revision repeats no played audio | see finding 4 |
| `stream_transport` | a transport that loses, repeats, reorders and mixes two streams, producers that are recognition sessions, and others that make mistakes | `AcceptedIsContiguous`, `TextAgrees`; nothing but a commit of its segment replaces a committed text (`CommittedGuarded`); `HypothesesSettled` for the sessions |
| `stream_recommit` (violation) | a committed segment is immutable | see finding 5 |
| `segmentation` | a pipeline: lost, repeated and misnumbered chunks, holes on the timeline, reconnects, a full queue | `GapsAnnounced`, `AcceptedConserved`, `FramesTrue`, `SegmentsAreStretches`, `NoAudioLost`, `PipelineEnds` |
| | a segmenter: any mixture of calls and frames | segments are contiguous as the pipeline calls it (`SegmentsContiguous`), speech is reported once (`SpeechReportedOnce`), no run that could open a segment is lost (`NoSpeechRunLost`), lawful lives (`LifecycleLawful`) |
| `browser_session` | every interleaving of session, consumer, worker and client | `EndedIsLast`, `LanguageFollowsSegment`, `SessionEnds`, `CloseEnds` |
| `browser_end` (violation) | the end of stream every adapter yields | see finding 2 |
| `asr_requests` | streams and transcriptions that end in all the ways there are, and streams that are pinged | `NoSessionLeak`, `AdmittedIsServed`, `TerminalMeansReleased`, `PermitsReturn` |
| `live_turn` | a turn in every interleaving, with a provider or a synthesis that fails, a cancel and a client that leaves at any point | `TurnPromise` (implements `SpokenTurn`), `VerdictTold`, `TurnEnds` |
| `live_terminal` (violation) | terminal events are terminal | see finding 3 |
| `server_work` | jobs and runs through cancels, stops, dropped handlers, failed writes, a crash, and a restart that cannot read every record | `RecordBeforeProcess`, `RunningIsServed`, `FinalForGood`, `SucceededDid`, `CancelEnds`; `SlotIsServed`, `EndIsRecorded`, `StopEnds` |

### Bounds, and why they are enough

* **Ledger.** Three emissions, three positions, deltas of one or two changes of any kind, two
  revisions. A revision can then hit a middle emission with something before and
  after it, a delta can hold every pair of conflicting changes but two schedules of one id, and an id can be cancelled and scheduled
  again. The run `speech_output` has a buffer of *two* samples, one of a third, and the empty one,
  so that counting emissions instead of samples shows, and so does audio in another order. Emission ids are symmetric:
  no action or property orders them.
  Revisions are bounded by the deltas offered. The theorems of section 5 lift these bounds.
* **Assembler.** A fade of three samples (first, middle and last weights differ) and waveforms of 0 to 4, on
  both sides of the fade length; enough waveforms that two revisions and a push in between fit.
* **Stream.** One stream of four events - hypothesis, revision, commit, late revision or second commit - and one of one
  stray event; two texts of one character, which a revision makes longer, so that a range has a beginning, a middle and
  an end, and a second commit says something else than the first. Of the mistakes, a wrong version and a missing source
  do not occur in the runs: they are refused as a range outside the text is, and change no more. The hypotheses of a
  session are two that differ behind the first letter of their second word, so that the shared prefix retreats to the
  boundary before it and ranges of different lengths occur, and the empty one.
* **Segmenter.** Seven frames with thresholds of 2 to open, 1 to end, 2 to close, 4 at most and 3 of
  pre-roll: a segment can open with pre-roll, end, resume, close for its length, and a second one open
  behind it. Thresholds that are no multiples of a frame are among them.
* **Pipeline.** Queue of 2, three chunks of three samples with frames of two (so that a frame straddles two
  chunks), steps of the number 0, 1, 2 (repeated, next, skipped), a hole of one sample, one reconnect
  that starts at 0 again, and a segmenter with the thresholds above.
* **Browser session.** Queues of 1, 2 and 1, three chunks and two segments: each queue can be full while the
  next is not. The code's 8, 64 and 2 differ only in how long it takes to fill them.
* **Recognition.** A semaphore of two, three clients (one that streams, two transcriptions), so that one is
  always waiting; a provider of one session and one limited by the semaphore only; a memory limit that two
  sessions keep. `MaxChunks` stands for `MAX_AUDIO_MS`, with which the code ends a stream, too.

* **Live turn.** Every queue holds one event, so that each can be full while another is empty; three tokens and two
  segments, so that the worker can be behind, a segment can come out of the end of the text, and both can be
  waiting when the turn is cancelled. The code's 32, 64, 16 and 64 differ in how long it takes to fill a queue.
* **Jobs.** Two jobs and a limit of one (one may be refused, one may be admitted twice past the limit), one failed write
  at any of the writes, one crash at any point with the restart behind it. The theorems lift all of these.
* **Runs.** Two runs for one slot, one step - every place of the task occurs in it, and the step counter in the
  theorems is any - and a channel of one. One failed write at any of the writes, one crash.

Where `CHECK_DEADLOCK FALSE` stands, the configuration says why the system may really stop: inputs are
bounded, or the work is over.

### Fairness, and why the code justifies it

Only tasks the scheduler owns are fair; what a client, a planner or a device does is not, except where it
is said here.

* `VadPipeline`: weak fairness of `Pull` and of `EmitCompleteVadFrame`, the two branches of the loop that
  calls `next_event`. `recv` returns when there is a message or no sender left.
* `BrowserAudioSession`: weak fairness of each branch of the session's `select!`, of the consumer as a
  whole and of the worker as a whole: a task and two threads, each of which runs when its blocking call
  can return. That a probe can be sent assumes a client that reads or is gone. The client is not fair. `session` only reads the socket while `input_open`.
* `AsrSessions`: weak fairness of the tasks. This assumes that timers fire (a socket that says nothing is
  timed out, and one that pings now and then is not: a task that goes round and round is as fair as one that is done,
  and `PermitsReturn` is stated for clients that stop pinging) and that a client reads what it is sent or is gone: only receives have a timeout in the code.
  The mutex needs no strong fairness here, since each transcription takes it once and there are finitely
  many; a mutex that starves one waiter for ever is not excluded by the code.
* `LiveTurn`: weak fairness of each task. This assumes that a provider's request and a synthesis come to an end
  (the code gives neither a timeout of its own), and that a client reads or is gone. The provider reads the flag when it
  likes; nobody has to cancel.
* `CommandJobs`: weak fairness of the job's thread and of nothing else. A process need not end, so `CancelEnds`
  shows that a cancel does not wait for one; and a cancel need not be answered, since the child's lock is not fair.
* `PipelineRuns`: weak fairness of the task and of a client that reads (one that stays connected and reads nothing
  holds its run in a send for good, and no stop reaches it: `StopEnds` is about the others); strong fairness of `ObeyCommand`, since the task
  comes back to its `select!` with the command still there, and `tokio::select!` polls its branches in random order.
  A source that gives output for ever cannot starve a stop, then; with weak fairness it could.

## 4. What the runs found

1. **A suffix reaches over played emissions** (`ledger_suffix`). `validate_change` looks only at the
   emission a `ReplaceSuffix` starts with; `apply_change` then removes everything from there on. The
   ledger does not make its player go in order, and `collect_unplayed_pcm` skips predicted emissions, so a
   committed emission can overtake one. A revision of the predicted one then drops the played one, against
   `crates/speaking/src/tts_ledger.rs:93` ("that have not yet been" played). With a player that goes in
   order it cannot happen: `PlayedImmutable` proves it.
2. **The end of a browser stream is lost when its queue is full** (`browser_end`). The end control is
   `let _ = source_tx.end();`, a `try_send` on a queue of 8. If it fails, the pipeline waits for a message
   that cannot come any more, since the session no longer reads the socket; `docs/audio-input.md:4-11`
   promises an end of stream from every adapter.
3. **A terminal event of a live turn is not the last** (`live_terminal`). `docs/streaming-event-contract.md:81-83`
  calls events after `cancelled`, `completed` and a non-recoverable `error` malformed, and `speech-studio.js` refuses
  them. The coordinator forwards an `error` or `cancelled` of the generator like any event and goes on with the audio
  that is still to come (`main.rs:2531-2554`), and an `error` of the worker is followed by the generator's own end.

4. **A revision repeats one played sample** (`assembler_repeat`). `revision_assembler.rs:6-7` promises a splice "without
   dropping or duplicating played samples", and `:19` that only the non-duplicated portion is returned. The weight of the
   incoming waveform is 0 at the first sample of a fade (`127-131`), so that this sample is the played one at `fade_start`
   once more. It never is more than that one: `AtMostOneRepeated` checks and `OneRepeated` proves it.
5. **A committed segment can be committed again** (`stream_recommit`). `docs/streaming-event-contract.md:42` calls a
   `committed_segment` immutable, and `86-87` has mutation of committed text fail closed. The arm of the validator that
   takes a commit (`event.rs:620-625`) does not look at the commits it has, and replaces the text. Hypotheses are
   refused, and nothing else replaces it: `CommittedGuarded`, proved by `OnlyCommitsReplace`. The recognition sessions
   of the crate commit each segment once.

Met while reading and modelling, and not contradicting a written promise:

* Two `Schedule` of one id in one delta are both applied and leave it twice in the order; this is why the
  theorems assume `UniqueSchedules`.
* `queue_depth_high_water` is taken at revisions only; a queue that fills and drains in between is not seen.
* The assembler that is built from a ledger is primed with predicted audio too, the device's audio is not;
  `HandoffConserves` therefore speaks of ledgers with every emission committed.
* `drain_pending` does not advance the played count.
* An envelope that is refused for its content still binds a fresh validator to its stream, and every later
  event of that stream is then out of order, as nothing advances past the refused one.
* `force_flush` and an authoritative end leave the pre-roll, so if frames are then missing without a
  discontinuity, the next segment joins audio across the hole. The pipeline never calls it that way:
  `SegmentsContiguous` is stated for it.
* A discontinuity discards pending speech without an event.
* What a full capture queue refuses last is not reported. The callback drops the error of `try_send`
  (`system_input.rs:285`), and the loss shows in the number of the next chunk only; when there is none, the consumer gets
  the end of the stream right behind the audio before the loss. The comment there says as much ("when capture catches
  up"), although `docs/audio-input.md:22-23`, that "callback queue overflow" is reported, can be read as more.
  `GapsAnnounced` speaks of two chunks that were given, and does not see it.
* `cancel` of a pipeline that has ended queues a second end of stream.
* The browser session awaits its consumer with the probe receiver still alive and unread; a consumer blocked
  on a full probe queue then never returns. `CloseEnds` states exactly this exception.
* Pings and pongs of a recognition stream start its idle timeout anew (`asr_api.rs:477`, `614`). A client that sends
  nothing else keeps its permit and its session for as long as it likes; `PermitsReturn` names exactly this exception.
* A panic under the runtime's mutex poisons it, and every later request is answered as if capacity were
  exhausted. A transcription holds the mutex to its end, and a stream's task waits for it on an executor thread.
* The coordinator of a live turn joins its synthesis worker while holding a queue of 16 it does not read any
  more (`JoinBlocked`), and a cancelled generator awaits its provider while holding a queue of 32 it does not read
  any more (`ProviderBlocked`). Either hangs the turn for good, and its id stays taken; `TurnEnds` names exactly these.
* A turn cancelled between the completion of its text and the verdict ends with no terminal event at all. `VerdictTold`
  is stated for turns nobody cancelled.
* The Ollama provider looks at the flag per chunk of the response, not per line.
* Command jobs: two requests at the limit are both admitted, as the count (`main.rs:3997`) and the insertion (`4039`)
  are two locks; the message of `4005` promises a limit. A cancel that comes before the child is attached is answered
  "unknown or finished job" and leaves the flag, so that the job later ends as canceled. A cancel that is answered ok
  after the exit was judged does not change a success. The guard of the child's lock lives as long as the `match` on
  `try_wait` (`4851`), sleep included, so that a cancel competes with a thread that frees the lock only to take it
  again. When `try_wait` itself fails the job is shown as failed while its process may run on. Processes that survive a
  crash of the server are neither killed nor counted. A reader's late line overwrites the phase of a finished job, not
  its status. A record that cannot be read at a restart is skipped, and its
  job is not shown until a restart that can read it; `FinalForGood` says so. A subscriber that lags more than 256 events behind can miss the final status.
* Pipeline runs: a stop that is accepted behind the last step, or while the last event is being sent, ends in a
  completed run. Records of runs that were active when the server crashed, or whose last write failed, stay active on
  disk for good: nothing reads them at the start. If axum drops the handler while it waits for the lock of
  the controls (`1347-1353`) or, behind a failed write, for that of the slot (`1335-1340`), slot and record stay as they
  are, and every later run is refused until the server is started anew. No document promises the slot's release, so this
  is an exception of `SlotIsServed` and `EndIsRecorded`, the only one they have beside failed writes and crashes.

## 5. Proofs

Every invariant, action property and refinement that a passing run checks is proved here for every value of the
constants; the liveness properties are not.

`PlaybackLedgerProofs` proves, for every set of emissions, buffers and deltas and every bound, from the assumptions on
the constants alone unless said:

| Theorem | Statement | Assumes |
|---|---|---|
| `TypeCorrect` | `Spec => []TypeOK` | - |
| `PlayedCommitted` | `Spec => []PlayedWasCommitted` | - |
| `VerifiedKept` | `Spec => VerifiedAudioKept` | - |
| `ReplacementsCounted` | `Spec => []ReplacementsAccounted` | - |
| `PlayedPrefix` | `Spec => [](OrderMatchesEntries /\ PlayedIsPrefix /\ PendingChangesFit)` | `UniqueSchedules`, `PrefixPlayback` |
| `PlayedImmutable` | `Spec => PlayedFrozen` | `UniqueSchedules`, `PrefixPlayback` |
| `AssemblerPrefix` | `Spec => []AssemblerPrefixIsPlayed` | `UniqueSchedules`, `PrefixPlayback` |
| `HandoffConserved` | `Spec => []HandoffConserves` | `UniqueSchedules`, `PrefixPlayback` |
| `LedgerIsPlayout` | `Spec => PlayoutPromise` | `UniqueSchedules`, `PrefixPlayback` |

`PlayedWasCommitted` is inductive beside the types: the only step that makes an emission played checks its
commitment, no step takes a commitment back, and a cancelled emission comes back as planned.

`PlayedIsPrefix` is not inductive. In the middle of a delta a suffix is replaced whose first emission was
checked *before* the delta began; that it is still unplayed, and still there only once, has to be carried along.
`LedgerInv` is the strengthening: the types, `OrderMatchesEntries` (one position per known emission; without
it a suffix could start at a second position of a played id), `PlayedIsPrefix`, `PendingChangesFit` (every
change still to come fits the ledger as it is *now*) and that nothing is pending between deltas. The
argument has three lemmas: a change leaves the rest fitting as long as it makes nothing known or played that
was not (`RestFits`; `Schedule` is the exception and uses that an id is scheduled once); a suffix that starts at an
unplayed emission holds no played one (`SuffixUnplayed`, from the prefix); and each action keeps `LedgerInv`
(`LedgerInvStep`). `PlayedImmutable` follows from `LedgerInv` and `PlayedWasCommitted`: the latter is needed because
a `Commit` writes to a played entry, too, and changes nothing only if it was committed.

The last three speak of `LedgerHandoff`. Its views join what each position gives, so what they need is one fact about
joining: when every piece of `a` is a piece of `g` followed by one of `h`, and no piece of `g` comes behind one of `h`,
then `a` joined is `g` joined followed by `h` joined (`ConcatParts`). `PlayedIsPrefix` is this condition for the played
emissions and the others (`PlayedFirst`). The assembler's prefix follows at once; that device and assembler have the
same samples also needs that a planned emission has no audio (`PlannedSilent`), since the device takes committed ones
whether they are ready or not. For the refinement, a played emission keeps its position and its audio (`PositionKept`,
`PlayedKept`), only the player plays (`OnlyPlayerPlays`), and what it plays is the head of the plan (`PlayedNext`); every
other step leaves `heard` alone and may plan anew, which is `Playout`'s `Revise`.

The assumptions are the callers' duties and not the code's: the run `ledger_suffix` drops `PrefixPlayback` and
finds the violation, and the first four theorems hold without either.

Facts about recursive functions such as `Concat` are inductions over data. The library's induction theorems take an
operator as a parameter, which no prover here can instantiate; `SetInduction` is the same principle for a *set* of
numbers, proved from `NatLessThanWellFounded` and `WFMin`. That such a function exists at all is part of what is proved
(`GathersExists`; in `LiveTurnProofs`, `SelectsExists`), as its definition is a `CHOOSE`.

`ServerWorkProofs` proves, for every finite set of jobs, every limit, every number of failed writes and of crashes:

| Theorem | Statement |
|---|---|
| `TypeCorrect` | `Spec => []TypeOK` |
| `RecordedBeforeProcess` | `Spec => []RecordBeforeProcess` |
| `RunningServed` | `Spec => []RunningIsServed` |
| `VerdictIsFinal` | `Spec => []FinalForGood` |
| `NoFalseSuccess` | `Spec => []SucceededDid` |

None of the four is inductive: what is shown depends on what the thread has decided, what is restored on what is on
disk, and what is on disk on which write failed or which record was skipped. `JobInv(j)` says it for one job: where the thread may be given its
process, what it may have decided, that registry and disk agree unless a write failed or the record was skipped, that a verdict on disk is the
one given, and that a success anywhere is a process that succeeded. Each action keeps it for the job it works for
(`StartStep`, `RunStep`, `ReadStep`, `CancelStep`, `ExitStep`), leaves the others alone (`Untouched`), and crash and
restart keep it for all (`CrashStep`, `RestartStep`: what is restored as failed is what was running on disk).

About the runs it proves, from `RunsAssumption` (which `ServerWork` states as an assumption of its constants) and for
every number of runs, steps, channel slots and failed writes:

| Theorem | Statement |
|---|---|
| `RunTypes` | `Spec => []TypeOK` |
| `SlotServed` | `Spec => []SlotIsServed` |
| `EndRecorded` | `Spec => []EndIsRecorded` |

`RunInv(r)` is the strengthening: the slot is the run's exactly while its handler or task lives or when its handler was
dropped, there is no record before the handler has written the first, and a task that only has to release has a record of the end it came to, unless that write failed. `RunOwnStep` shows it action by action for the run
that moves, `OtherRunsUntouched` that no run's step reaches another's slot, and `RunsCrashStep` that a crash frees it.

`ServerWorkProofs` also carries both over to the server that has them: `JobsUndisturbed` is `WorkSpec => Spec`, the
refinement of the jobs alone, fairness included (a run's step is a stuttering step of theirs); `RunsInvariant` is the
other direction, where a restart is a stuttering step and a crash is `LoseMemory`. From them `WorkRecordedFirst`,
`WorkSlotServed` and `WorkEndRecorded` are what the run `server_work` checks, for any number of jobs and runs.

`RevisionAssemblerProofs` proves, for every fade, any lengths and any number of waveforms:

| Theorem | Statement |
|---|---|
| `PrefixFrozen` | `Spec => PlayedPrefixFrozen` |
| `NoStale` | `Spec => []NoStaleSuffix` |
| `OneRepeated` | `Spec => []AtMostOneRepeated` |

That nothing of a replaced suffix is pending says nothing of the samples a fade mixes into it. `Inv` says it sample by
sample: every pending sample but one is `New` - it holds audio of no earlier sample, and none older than the last
revision - and the one exception, the first of a fade, was played. A fade keeps that, because each of its samples
but the first mixes a played one with a fresh one (`OutputFacts`); `push` and `mark_played` do, because fresh audio is in
no sample before it.

`StreamContractProofs` proves, for any streams, segments, words and faults of the transport, and any hypotheses:

| Theorem | Statement |
|---|---|
| `Contiguous` | `Spec => []AcceptedIsContiguous` |
| `TextsAgree` | `Spec => []TextAgrees` |
| `OnlyCommitsReplace` | `Spec => CommittedGuarded` |
| `RecognitionAgrees` | `RecognitionSpec => [](AcceptedIsContiguous /\ TextAgrees) /\ CommittedGuarded` |
| `Settled` | `RecognitionSpec => []HypothesesSettled` |

The invariant relates three parties. `LogInv` is the producer's: its events are numbered without a hole, each comes
with the texts it means. `AcceptedInv` says that what a validator accepted
is a stretch of one such log, whatever the transport did in between. `ValidatorInv` says that the validator's texts are
those of the last event, if it followed the stream from its start, and that what it holds as committed is the text it shows. An event that follows the last one therefore is the producer's next one, and its range
edits give the producer's next text; an event of any other place or stream is refused.

For a recognition session it has to be shown that what it sends is such a log, and that means what the recogniser
heard. `TrackerOk` relates four things: the texts told so far, the tracker, the events returned and not yet sent, and
all that was said. An event that is still to be sent gives the tracker's text when it is applied to the texts before it
(`SpliceGivesNew`: the kept prefix is one both texts share, `StableIsShared`, whatever the word boundaries are); the active
candidate is open; and every segment told is the active one, or has been, or is about to be, committed or called off. Each
call keeps it for what it returns (`IngestOk`, `CancelOk`, `LastOk`), and each envelope sent keeps it (`PublishOk`).

`SegmentationProofs` proves, for every configuration of the segmenter, every sequence of calls and frames, every
capacity of the channel and everything a producer may send:

| Theorem | Statement |
|---|---|
| `SegmentLives` | `CallsSpec => []LifecycleLawful` |
| `SegmentsJoined` | `CallsSpec => []SegmentsContiguous` |
| `SpeechOnce` | `CallsSpec => []SpeechReportedOnce` |
| `SpeechKept` | `CallsSpec => []NoSpeechRunLost` |
| `GapsTold` | `Spec => []GapsAnnounced` (this `Spec` and those below are `VadPipeline`'s) |
| `ChunksConserved` | `Spec => []AcceptedConserved` |
| `FramesAreTrue` | `Spec => []FramesTrue` |
| `SegmentsTrue` | `Spec => []SegmentsAreStretches` |
| `AudioHeard` | `Spec => []NoAudioLost` |

The properties of the segmenter speak of what it reported, and what it will report is in its buffers. `CallsInv` says of
both what the properties say of the first. `Lawful`: the log is one life after the other, an open segment is what its
last event says, and each counter and buffer is below its threshold, so that the next frame cannot pass one unnoticed.
`Once`: no speech is in two of the places reported, open, pre-roll and pending, and all of it lies before `now`;
the pre-roll must be silent for it, as it is taken again. `RunsSafe`: of a run of speech at the end of what was heard, either
all is pending or some of it is in a segment. `Joins`: what the pipeline's segmenter buffers has no hole and ends
at `now`. Each method is one lemma about the record it returns, for any set of frames; frames of the
calls and frames of the pipeline are both such sets, which is why one proof serves both.

`InputInv` is about the input. A gap is announced because `expected_sequence` is the number behind the last chunk given,
and because between two chunks of different connections, wherever they are - held back, in the channel, yet to be
sent - there is a `Reconnected` message (`ErasAnnounced`). Chunks that were accepted lie on their timeline in the order of
their capture (`ChunksInOrder`), so that the order in which they are given says that none was overtaken.

`PipelineInv` adds the pipeline. It never finds a gap itself, since the input announced it before (`PipelineInStep`); the
samples short of a frame end where the last chunk ended (`PendingTrue`); and what the segmenter buffers ends where
they start (`BufferTrue`). So a frame, and a segment, is a stretch: this holds only because a discontinuity
empties the three of them together. `HearingInv` adds that of the stretch that goes on, everything was framed or waits.
The sequences of samples and frames are compared by their elements and neighbours (`Stretch`, `Adjoins`), so that no
induction over them is needed.

`AsrSessionsProofs` proves, for any number of clients, permits and limits:

| Theorem | Statement |
|---|---|
| `NoLeak` | `Spec => []NoSessionLeak` |
| `TerminalReleased` | `Spec => []TerminalMeansReleased` |
| `AdmittedServed` | `Spec => []AdmittedIsServed` |

`TaskInv(c)` says at which place of its task a client may own a session: from the moment the runtime opened it until the
one statement that removes it on every way out. `StreamInv(c)` says what a stream may still have to send at each
place, so that a terminal message is only ever sent behind that statement.

Why nobody with a permit is refused needs to count. `AdmittedInv` says that there are at most as many holders as permits,
that each session is that of a holder and of its provider (`OwnerInv`), that a transcription's is in the runtime only as
long as it holds the mutex (`LockInv`), and that nobody has been refused. A holder that opens a session has none yet, so
there are fewer sessions than permits (`RoomForOne`, an injection from sessions to the other holders), and their memory
is at most that many times the largest. That this fits is `LimitsAssumption`: the providers that stream take
`session_capacity` sessions, and so many of any kind fit into the memory of the runtime. The server's constants are so
(`asr_api.rs:40`, `76`; `whisper.rs:411`); for others the property is false.

`BrowserAudioSessionProofs` proves, for all capacities of the three queues:

| Theorem | Statement |
|---|---|
| `LanguageAfterSegment` | `Spec => []LanguageFollowsSegment` |
| `EndedCloses` | `Spec => []EndedIsLast` |

Both speak of what the client has been sent, and depend on what waits: `Told` is that and the queue of probes. The
invariant says of `Told` what the properties say, that a segment the consumer or the worker holds has been
announced in it (`AnnouncedInv`), and that a segment without an answer in it is still held by one of them, unless the
worker failed and said so (`HeldInv`). It holds only while the session is in its loop: a probe whose send fails is
lost, and from then on nothing more is sent.

`LiveTurnProofs` proves, for all capacities of the queues, any text and any number of segments:

| Theorem | Statement |
|---|---|
| `VerdictIsTold` | `Spec => []VerdictTold` |
| `TurnIsSpoken` | `Spec => TurnPromise` |

The verdict may be the coordinator's, the generator's or the worker's, and the last two pass through a queue and
through the coordinator. `VerdictInv` gives every way a turn is stopped its reason: a cancelled turn nobody cancelled
has an error between the worker and the client (`WorkerSaid`), a generator behind its loop has its end between itself and
the client (`GeneratorSaid`), and a coordinator that has left its loop has the text complete or one of the two. It holds as
long as the client listens; `Conclude`, which reads the flag once, then finds one of them. Each task keeps it
(`GeneratorKeeps`, `WorkerKeeps`, `CoordinatorKeeps`).

The refinement of `SpokenTurn` needs to know where each segment is. `SpeechInv` lines the places up: what the client was
told is committed is, in order, what it has heard, what the coordinator is telling, what is in the worker's queue of
audio, what the worker has yet to send, and a rest (`Line`). The rest is what the worker holds and what waits for it
(`Pending`) as long as the worker works; it is empty when the worker ended without a cancellation; and it is anything when
the worker failed or was cancelled, which is why the rest is bound by an existential quantifier (`Owed`). Each step then
moves a segment one place along the line (`LineSent`, `LineHeard`, `LineVoiced`, `LineTold`) or adds one to its end
(`LineJoined`), and an `AudioChunk` that is told is the next segment (`NextInLine`). `TellInv` has what the coordinator
knows: text is told only while the source is open, and the `verdict` it sends behind join and drain is reached with an
empty line (`AllSpoken`). `TaskInv` has what it relies on: a worker that is done without a cancellation has seen its queue
closed, and the drain is behind the join. All but `TaskInv` holds while the client reads; one that is gone is told
nothing, and the turn stutters.

Only model-checked, and why:

* The liveness properties: `PipelineEnds`, `SessionEnds`, `CloseEnds`, `PermitsReturn`, `TurnEnds`, `CancelEnds` and
  `StopEnds`. Fairness and `ENABLED` are beyond the prover.

## 6. Not modelled

`PROJECT.json` lists each part with its reason. In short: pure functions of strings, tables or scores (language
data, alignment, interpretation, routing policy), numerical code (neural models, training, signal processing, VAD
detectors), conversions (JSON lines, WAV), the command line and the browser's code. Of the modelled files,
the rest is construction, accessors, serialisation and tests; `BoundedEventBuffer` of `event.rs` is only used by tests.

## 7. Plan

1. `LiveTurn`'s stream through `StreamContract`'s validator.
2. `BeliefState`: `crates/speaking/src/duplex.rs`, sequential and finite; the journal replays to the state it was recorded
   from; a theorem that committed words and their delivery only move forward. Only tests make such a state at
   present, so it comes behind what the server runs.
3. Proofs: the safety part of the ends that TLC checks as liveness - that a turn, a job or a run that cannot go on is over,
   or at one of the deadlocks that section 4 names.

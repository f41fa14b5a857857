# Verification of HearWrite

HearWrite turns one stream of PCM audio into an append-only log of events:
words that are final the moment they are committed, the turns and speakers they
belong to, endpoints between utterances, and display-only partials and polish.
The models behind it (recogniser, VAD, speaker embedder, turn detector,
punctuation model) are black boxes. The program is everything between them: the
adapters that feed audio to them, the coordinator that decides what to commit,
the server that runs one coordinator per connection, the polish of finished
utterances, and the measurement of the result. These TLA+ modules model that
logic, TLC checks it on small instances, and TLAPS proves the central results
for every policy, stream, engine and number of connections.

Paths below are relative to `src/src/hearwrite/`.

## 1. Inventory

    client -> server/app.py -> Session -> Coordinator.push(pcm, lag)
                 |               built on a thread: pipeline.py -> loaders.py -> models.py
                 v
      Coordinator -> clock, backpressure, VAD, speaker frontend -> SpeakerTracker,
                     engine -> CommitPolicy -> EventLog,
                     EndpointGate <- turn detector, polish chain -> EventLog

Within a session everything is a plain call, one audio chunk at a time. Between
sessions there are two kinds of concurrency: handlers on one event loop, which
interleave at every `await`, and pipeline builds on executor threads, which
interleave anywhere and share a cache directory with no lock.

| Component | State it keeps | Operations | What makes it correct |
|---|---|---|---|
| endpoint gate `coordinator/endpoint.py` | start of this silence, silence fired for, speech since the last endpoint | `observe`, `flush`, `silence_held` | one endpoint per utterance, after the silence its reason asks for, never later than `max_silence_seconds` |
| commit policy `coordinator/commit.py` | commit frontier, one held word | `take`, `settle`, `flush` | no word the engine says is passed over; what it stands behind at the end is in the log, but for what a guess ran into; the log never refuses a word |
| speaker tracker `coordinator/speakers.py` | clusters, labelled spans, merges | `assign`, `merge`, `label_for`, `resolve` | labels only ever come together; eviction and pruning are invisible where they promise to be |
| event log, transcript `events.py`, `transcript.py` | the events, last time, last commit end | `emit`, `committed_text`, `display_text` | nothing emitted is contradicted; both readings have the same content |
| coordinator `coordinator/coordinator.py`, `backpressure.py` | all of the above, turn, waiting words, utterance, latest hypothesis, lag | `push`, `finish` | the parts stay in step: frontier with log, turn with speaker, endpoint with waiting words |
| sherpa engine `engines/sherpa.py` | decoded count, words, pending pieces | `push`, `flush`, `reset` | words follow one another, stable ones are final, nothing decoded is lost |
| whisper engine `engines/whisper.py` | audio buffer, previous pass, stable words, agreement point | `push`, `flush`, `reset` | agreed words are promoted once; trimming loses nothing |
| speaker frontend `speakers/sherpa.py` | region, samples, silence run | `push`, `flush`, `reset` | segments are disjoint and span the audio they were computed from |
| Silero VAD `vad/silero.py` | partial window, last reading | `push`, `reset` | the decisions do not depend on how the audio is sliced |
| server `server/session.py`, `server/app.py`, `protocol.py` | admission count, sessions, recorder | connect, message, finish, disconnect | slots are returned exactly once; a client reads its log from the start, in order |
| model store and loaders `models.py`, `loaders.py` | cache directory, shared models | `resolve`, `ensure`, the cached loaders | what stands in the cache is whole, whoever downloads it and whenever the process dies |
| pipeline builder `pipeline.py` | none | `build`, `build_turn_detector`, `build_polish` | every text has one source of punctuation |
| polish chain `polish/` | rejected stages | `Chain.run`, `normalise` | a stage that fails or changes words has no effect; a figure is what was said |
| measurement `wer.py`, `metrics.py` | none | `compare`, `evaluate` | the score is the edit distance and the best mapping |
| turn detectors, policy, clock, features, command line | constants; sample count; none | | |

What is hard about it:

* **Interleaving.** Handlers between two awaits; builds that race to download
  and move the same model.
* **Failure and restart.** A build, a hello, a send or a push may each fail and
  must give back one slot; a process killed during a download must not leave a
  torn model; a polish stage may raise or drop words; the log may raise in the
  middle of a batch.
* **Stale reads.** One push asks the gate how long silence has held *before*
  the gate sees this chunk's reading, reuses a hypothesis from an earlier push,
  and throttles the turn detector by reusing its last score. Whisper compares
  two passes by text and promotes by time.
* **Ordering.** The engine, the speaker frontend and the VAD lag the audio by
  different amounts, so a word, the segment that labels it and the endpoint
  after it arrive in any order.
* **Long sequences of legal calls.** Frontier, held word, open turn, waiting
  words and the spent pause all survive from one push to the next, and a
  Whisper buffer moves under every pass.
* **Limits and boundaries.** A full cluster table, a full server, a full audio
  buffer, windows and tails, words exactly on the frontier, number words at the
  end of a run.
* **The end of the stream**, which can come in the middle of a word, a pause or
  a region, and runs a different path through every part.

`PROJECT.json` lists each such hazard at its line with the properties that
cover it.

## 2. Modules

A position in the audio is an integer number of ticks of the stream clock. A
module that is a set of operators on one record stands for one Python object;
the module next to it gives that object its variables and one action per call.

| Module | Stands for | Kind |
|---|---|---|
| `EndpointGate` | `EndpointGate`, and the throttle `_maybe_score` before it | operators |
| `Endpointing` | one stream of readings through the gate, as `push` and `finish` drive it | state machine |
| `Utterances` | what endpointing promises: the life of an utterance | abstract specification |
| `CommitPolicy` | `CommitPolicy`, and the checks a commit passes | operators |
| `EngineContract` | what an `ASREngine` may answer | operators |
| `Committing` | `take`, `settle` and `flush` in any order the Coordinator can call them | state machine |
| `SpeakerTracker` | `SpeakerTracker` | operators |
| `Labelling` | segments heard and words asked about, in any order | state machine |
| `EventLog` | the log, the turn, waiting words and polish | operators |
| `Transcript` | THE ONE RULE of `events.py`, seen by a consumer | abstract specification |
| `Coordinator` | the whole of `push` and of `finish`, each one action | state machine, composes the above |
| `LagTwin` | two Coordinators on the same audio, one of which lags | composition |
| `HypothesisStream` | what `engines/base.py` asks of every engine | abstract specification |
| `SherpaEngine`, `WhisperEngine` | the two engines | state machines |
| `SpeakerRegions` | `SherpaSpeakerFrontend` | state machine |
| `SileroVad` | `SileroVAD` | state machine |
| `Adapters` | the four of them, each on a stream of its own | composition |
| `Slots` | what the admission limit promises | abstract specification |
| `Server` | the handlers of `server/app.py`, `Session` and `Admission` | state machine |
| `ModelStore` | `resolve`, `ensure` and the loaders, on executor threads | state machine |
| `Serving` | the handlers with the builds their sessions come from | composition of the two |
| `Pipeline` | what a choice of backends is built into | operators |
| `Itn` | `polish/itn.py` | operators |
| `PolishChain` | `Chain.run` over the stages of `Pipeline` and `Itn`, the punctuation gate of `turn/textual.py` | state machine |
| `Wer` | `wer.py`, with the edit distance as its reference definition | operators |
| `Measurement` | `metrics.py` on a log that grows | state machine |
| `Text` | polishing, scoring words, scoring speakers and scoring what is shown, one of them at a time | composition |
| `Folding` | what a fold over a finite set keeps, whatever it folds | proofs |
| `..._proofs` | theorems about the module of that name | proofs |
| `MC...` | instances for TLC | |

How state and actions correspond to the code:

* **Coordinator.** `gate`, `scorer`, `policy`, `tracker`, `latest`,
  `degraded`, `spokeYet` are the Coordinator's attributes of nearly the same
  names; `doc` gathers the log with `_turn_index`, `_turn_speaker`, `_unlabeled`
  and `_utterance`. `Push` follows `push` line by line: lag notice, VAD reading
  and onset, segments, hypothesis (`take`, then the partial), labels for waiting
  words, `settle` (deciding on the *old* gate), score, gate, endpoint with
  labels and polish. An exception sets `doc.error`; every later operator of the
  same push then does nothing, and no further action is enabled.
* **Server.** `pc[c]` is the `await` a handler stands at, so an action is what
  runs between two awaits: `Admit` and `Refuse` decide before the build,
  `Receive` runs a whole push and logs all of its events, `Send` is one frame.
  Every way out of the `try` of `handler` is `End`, whose `Released` is
  `Admission.release`. `Crash` kills the process.
* **ModelStore.** `step[c]` is where the build of session `c` stands: `Find` is
  the existence test, `Download` the fetch and the checksum in a temporary
  directory, `MoveFile`, `Aim`, `Place` and `Nest` are `shutil.move`, which for
  a directory looks first and renames later. `Load` is the constructor inside
  `lru_cache`, which does not hold back a second miss. `Die` loses memory and
  temporary directories and keeps the cache directory.
* **Serving.** `Starts` is `run_in_executor`, `Fails` and `Serves` read its
  future; `Works` is the thread.
* **WhisperEngine.** `Infer` is one pass with all that follows it: capped
  timestamps, the common prefix, promotion (a fold over `Promoted`), trimming.
  `Wait` is a push between passes. A pass hears a run of words in order, with
  all that are whole in the buffer among them.
* **SileroVad.** `Push` cuts the buffer into windows and folds the verdicts.
* **PolishChain.** Each stage of `Chain.run` is one action: skipped, raised,
  discarded by `Verified`, unchanged, or kept. `built` tells a chain of the
  builder from one a caller makes, which may hold the same stage twice.
* **Itn, Wer.** A token is a word with its capital and its trailing mark, or a
  figure with its signs; `Normalise` of each is the module's own pipeline of substitutions.
* **Measurement.** `Resolved`, `BestMapping`, `Report`, `TurnLatency` are the
  functions of `metrics.py`; `Commit`, `Name`, `NameTurn` grow the log they read
  the way the Coordinator does.
* What a model or the operating system answers is an input: a VAD reads
  anything, a detector scores anything, a recogniser decodes any pieces with
  times in order, a Whisper pass mishears anything and moves any boundary by
  `Jitter`, a download ends whole, damaged or not at all, a link goes down at
  any time.
* **EngineContract.** The words of one hypothesis follow one another and end
  within the audio pushed; what was once called stable comes back as it was in
  every later hypothesis, `flush` included. Nothing else is asked: from one
  hypothesis to the next a tentative word may be dated anew, replaced, joined
  with another or dropped, and words may appear before it, as `engines/base.py`
  (50-52, 66-67) and `engines/fake.py` (8-10) allow and both engines do: sherpa
  guesses where its last word ends, whisper dates all of them in each pass.
  `Renderings` is the finite set of what can be said of the audio.
* **Transcript.** A reader's lines are keyed by the `seq` of the commit they
  show, as in `transcript.py`: a step may add lines behind all it has and give a
  speaker to a line that has none, and nothing else.
* Variables named "history" in a module (`spoke`, `quiet`, `commits`, `spans`,
  `spoken`, `agreed`, `given`, `marked`, ...) record what an observer would have
  written down. No guard of the code reads them.

An operator `Mut...` beside a definition is that definition with a slip (a
dropped guard, an off-by-one, a missing reset). It is used nowhere: putting it
in the definition's place must make the property paired with it in
`PROJECT.json` fail, which is how each property is shown to depend on the code.

Abstractions: at most one segment closes per chunk in `Coordinator` (the code
loops over several the same way); the content of a text is a number
and whether the word is whole; similarity is an input, restricted to
what cosine similarity can answer; `1e-6` tolerances vanish with integer ticks;
in `Coordinator` polish "changed the text" or did not, and `PolishChain` says
how; a push of `Server` logs any number of events up to `MaxBurst`; one model of
`ModelStore` stands for all; hyphens and the marks inside a figure are left out
of `Itn` and `Wer`.

## 3. What the runs check

A bounded stream ends when `finish` is called, its bound is reached or an
exception ends it, so deadlock is not checked. The `TypeOK` of a module that no
run lists only states the shapes of its variables.

**`endpointing`** (`MCEndpointing`). Every sequence of readings and detector
answers, 10 ticks, chunks of 0 to 2 ticks, gates at 2 and 4 ticks: room for two
utterances, each with a pause that resumes and one that times out.
`BoundedSilence` (a speaker who trails off cannot hang the session),
`EndpointClosesAPause`, `FreshScore` (the throttle never lets a score from an
earlier pause end this one), and the refinement `PromiseKept`: the stream of
readings and endpoints is one of `Utterances`.

**`committing_settle`** (`MCCommitting`). Four ticks, and
every sequence of hypotheses made of seven renderings: a word, the same word cut
short, dated late, heard as another or as one with the next, and what may follow
it, so that each kind of revision can come after a commit that relied on what it
revises. Fragments are included. There is no confidence gate; early commits are
on and a settle may come at any moment. With a gate and no VAD to settle for, the
same holds by the proofs of `Committing_proofs`, and no run repeats it.
* `NoHoles`: no step moves the commit frontier past a word the engine says,
  stable or tentative, without committing it. It speaks of what the engine says
  at that step: what it says later may well begin behind the frontier.
* `NothingLost`: at the end every stable word is in the log, but for those a
  *guess* ran into, a commit of something the engine had not called stable and
  revised since. That loss is the price of committing early or settling, and
  the property says nothing else is lost.
* `NothingRaised`: the policy's frontier and the log's `last_commit_end` agree,
  so the log refuses nothing.

**`labelling`** (`MCLabelling`). Five segments of any voices with a gap, three
cluster slots, two letters (so that labels reach the second spelling length,
where string order and minting order differ), a memory of four ticks (so that
spans are forgotten). `SameVoiceStaysSame` (two labels for one person stay so
through every merge and eviction), `NobodyIsAbsorbed` (a label is handed out for
a standing voice, and still leads to one after later merges),
`MemoryIsBounded`, `ForgettingIsInvisible` (pruning changes no answer about a
word recent enough that nothing it could reach was forgotten).

**`coordinator_auto`** (`MCCoordinator`). Four unit chunks, two voices, a word
across the boundary between them, which may be dated short of it at first, and
one inside the second; early commits are on (any confidence reaches
`EarlyConfidence`), so words are committed before and after the segments that
label them, and before the engine is sure of them. `TurnsAreOneVoice` (every labelled word
of a turn carries the label the turn was announced with before it),
`NullsAreAbandoned` (no word waits for a label past an endpoint), and the
refinement `NeverContradicted`: what a consumer reads from the log is a
behaviour of `Transcript`.

**`lag_twin`** (`MCLagTwin`). Two Coordinators of a solo session with VAD,
detector, early commits and polish on the same audio and the same answers, one
of which falls behind and catches up at any push. `LagChangesNothing`: their
logs are equal but for partials and lag notices, and so is everything they have
waiting. `NothingRaised`, and `SameContent` (the display transcript shows every
commit once, in order, whatever was polished). Early commits are on, and the
engine may take the two words for one when it has heard all of it. Four unit
chunks are enough for lag to begin, end and begin again around commits, an
endpoint and a polish.

**`adapters`** (`MCAdapters`, an instance of `Adapters`). The four adapters, one
`device` per behaviour, each from its first chunk through `flush` and `reset`
into another stream.
* Regions: windows of 4 ticks, tails of at least 3, pauses of 2, chunks of 1, 3
  and 9, a cap of 11: a chunk may be less than a tail, less than a window, or
  more than two windows, and 3 + 9 passes the cap. `SegmentsAreDisjoint`,
  `BufferIsTheTail` (the buffered samples are exactly the last of the stream,
  fewer than a window, so spans never drift from their audio),
  `SpeechIsAccountedFor` (all speech is in a segment, in the buffer, or in a
  tail too short to embed), `NoSegmentSpansAPause`. With the default window (2s)
  the region cap (30s) can only be reached by a single chunk of 28s or more.
* Sherpa: up to four pieces, two per push, with any times in order, a tail of
  two ticks so that the next piece can fall inside it. `EveryPieceIsSaid`,
  `StartsAreFinal` (a tentative word keeps its start, which is what the commit
  frontier relies on), `EndsWithinTheAudio` (but for what `flush` dates in its
  padding).
* Whisper: four words, two of them with no pause between, ten ticks, a pass
  every two, a context of one and a buffer capped at five: buffers are trimmed
  behind what was agreed, and passes that do not agree meet the cap.
  `EachWordOnce`: while no pass moves a boundary, no word is said twice and at
  the end every word wholly in the stream has been said; only words the cap cut
  may be missing, and one it cut in two may be said twice. With no context at
  all a word cut at the agreement point could be heard again from its middle, so
  the property is about a `Context` above 0.
* VAD: windows of two, chunks of 1, 2 and 5, every sequence of verdicts.
  `DecisionsAreTheAudios`: the decisions after t ticks are those of the audio,
  however it was sliced and whatever stream came before.
* `KeepsContract`: both engines implement `HypothesisStream`, whatever their
  models answer. `EngineContract`, which the Coordinator is given, allows the same
  steps but for one: it has no word end after the audio in `flush` either, where
  sherpa may date a word in its padding. With that exception both engines are
  ones the Coordinator's results are about.

**`serving`** (`MCServing`). Three connections for two slots, with the builds
of their sessions: two at once, a third that comes while both slots are taken
or after one is free; one client may say two things and each push yields up to
two events. Builds fail, links close or break at any await, pushes raise, and
the process is killed. `SlotsAreCounted`, the refinement `KeepsTheCap` of
`Slots` (a client is refused only while `Limit` others are served),
`FramesFollowTheLog` (hello, then the log from its first event, no gap and no
repeat), `ModelIsWhole`, and the liveness property `SlotsComeBack`: a session
whose client is gone or has asked to finish ends and its slot comes back,
unless its build waits for a download.

**`text`** (`MCText`). Polish: a percentage, a count and a date, in pairs so
that there is a context, through every chain of every choice of backends with a
VAD and a turn detector. The punctuation model marks or capitalises any one
token of what it is given, context included, loses a word, changes one, does
nothing or raises; one token at a time is enough for a mark on a number, between
a number and its unit, or on the unit.
* `BadStageCostsOnlyItself`: a punctuation stage that raised or failed its check
  leaves exactly the display that the rest of the chain makes of what was said.
  One that was kept passed a check of the words alone, and its marks do reach
  the stage after it: "twenty five. percent" and "twenty five Percent" pass the
  check and keep `_convert_units` from attaching the unit (`itn.py:228-231`). So
  of a display with such a stage in it the property says that it has the words,
  figures and units of what was said, in their order, a unit as a word or sign.
* `PunctuationHasOneSource`.
* Scoring: references and hypotheses of up to three words of three;
  `ErrorsAreTheDistance` compares the traced table with a definition over all
  alignments. Speakers: logs of five events, three labels, three true speakers,
  with every arrangement tried up to two labels and the greedy mapping past
  that, so that both are reached; `AgreementIsBest`, and `NamesOnlyFill`: a name
  given late never replaces the label a word was given at its commit or by its
  own number, though that one may replace what came through the turn; no word is
  scored that was not, the unlabelled ones do not grow, and a known latency is
  neither lost nor longer, though an earlier word of the turn may shorten it.
* Figures: every text of up to four words of eleven (a unit, a teen, a ten, both
  scales, "and", a percentage, a month, two ordinals, a plain word), shown after
  a punctuation stage that was kept or left it alone. `FiguresAreForgiven`:
  figures cost no word error. It is about texts in which every number is said as
  the metric would say it (`SaidAsScored`): the value of each run of number
  words, if it has one, is spoken back as that run, up to "and"; there is no
  money in it, and no fifteenth, eighteenth or nineteenth.

**Fairness.** Only `Serving` assumes any: `WF` of `Runs(c)` for each
connection, because the event loop and the executor run whatever is ready. What
it leaves out, on purpose: clients need not speak or hang up; connections need
not come; a download need not end, because `urlopen` is called without a
timeout (`models.py:304`), so `SlotsComeBack` exempts it. `send` is taken to
return while the link is up: a client that reads nothing is cut off by the
keepalive of the websockets library or not at all. Elsewhere only safety is
checked: every call of a Coordinator returns after finite work and its caller
may simply stop pushing. `BoundedSilence` is the safety form of "a pause ends".

### Findings

* **A held word is skipped by settle** (`committing_hole`, `NoHoles`). With a
  confidence gate above 0, `take` holds a doubtful word and everything after it;
  `settle` (`coordinator/commit.py:133`) looks at tentative words only, commits
  past the held word and moves the frontier over it. The word is stable, so it
  keeps its place, and nothing commits a word that starts behind the frontier.
  Presets leave the gate at 0, where `NoHolesEver` proves this cannot
  happen.
* **Half a word is settled while the speaker resumes** (`coordinator_resume`,
  `NothingSettledMidWord`). `coordinator/coordinator.py:375` reads
  `silence_held` before the gate observes this chunk's reading.
* **A word two passes agree on is not promoted** (`whisper_jitter`,
  `AgreedIsSaid`). The agreed prefix is compared by text, and a word of it is
  promoted by where the newer pass says it starts (`engines/whisper.py:188`). A
  start that moves back over the agreement point, by as little as one tick of
  Whisper's own jitter, leaves the word out of the stable words, and, by the same
  test (`whisper.py:210-216`), out of the tentative ones. A later pass that
  agrees on it, or `flush`, still promotes it if it dates it at or past the
  agreement point again; until then nobody is shown it.
* **"One and two" becomes 3** (`itn`, `SeparateValuesStay`). `_value` takes any
  "and" as part of one number and forgets the word before it
  (`polish/itn.py:122`), so the rule that keeps two bare units apart never sees
  them; "between one and two" is shown as "between 3", and the stage's own
  verification accepts it, because only number words changed.

What the models also show, or leave out, without a run:

* Figures are read back in one way, whatever was said, although `wer.py:14-18`
  says that figures stop "being punished by the metric". "nineteen hundred",
  written 1900, becomes "one thousand nine hundred"; 15th, 18th and 19th become
  fifth, eighth and ninth (`wer.py:100`); $5 becomes "dollars five", and the
  signs of other money vanish. Each costs word errors. A sum written for two
  numbers ("one and two", the finding before) costs them as well, rightly.
  `FiguresAreForgiven` exempts these texts by name, and is violated without.
* A word of zero length sits on the frontier it moved and is taken again
  (`commit.py:92`); both engines can produce one. So is a word the engine dates
  anew past the frontier it moved. No property forbids either.
* `coordinator.py:290` compares a word's resolved label with the turn's
  unresolved one, so a merge opens a turn for the same person.
* `label_for` answers from one neighbour when the segment on the other side has
  not been heard yet, for good. Without a VAD there is no endpoint before
  `finish`, and words without a label are looked up again on every push.
* `flush` of the sherpa engine feeds padding; a word dated in it ends after the
  audio, which `_emit_words` refuses. `EngineContract`, and with it
  `NothingRaised`, assumes an engine that does not.
* The loser of a download race fails with `FileExistsError` although the model
  it wanted is there (`models.py:345`), or leaves a second copy inside the first;
  sessions that start together each load a copy of the model.
* The key "thirty first" of `itn.py:83` is two words and equals no token.
* A model given as a path is not in the registry: a recogniser that punctuates
  is punctuated again (`pipeline.py:168`). `PunctuationHasOneSource` exempts it.
* A turn's latency counts to the commit of its first named word, not to the
  moment it was named (`metrics.py:237`).
* Two sessions accepted in one second record to the same file (`app.py:169`),
  and an exception in the receive loop leaves a recorder open until it is
  collected. The recorder is not modelled.

## 4. What is proved

`tlapm` checks these for every value of the constants, under the named
assumptions only.

`Endpointing_proofs`: from `EndpointAssumption` (types of the policy's values;
silences may be 0, the timeout may not) and `StreamAssumption`.

* `TypeCorrect`, `SilenceIsBounded`, `EndpointsClosePauses`, `EndClosesAll`,
  and `ScoreIsFresh`, which needs `TurnInterval <= SilenceTicks`.
* `KeepsThePromise`: every step of `Endpointing` is a step of `Utterances` or a
  stutter.
* The inductive invariant is `IInv`. `BoundedSilence` speaks of what a listener
  heard, and the gate decides on its own fields, so `IInv` adds
  `GateKnowsTheReadings` (the fields say what the readings said) and
  `HistoryInOrder`. Each is preserved by a push that hears speech, one that
  hears silence and fires, and one that hears silence and does not.

`Committing_proofs`: from `CommitAssumption`, `ContractAssumption` (renderings
have their types, and do not end before they start) and `SessionAssumption`.

* `TypeCorrect` and `NothingEverRaised`. `CInv` adds that the frontier and the
  log's last commit end are equal (`FrontiersAgree`) and that the latest
  hypothesis is well heard; then whatever `take`, `settle` or `flush` releases
  is in order from the frontier on, which is all the log asks.
* `NoHolesEver` and `NothingEverLost`, if words are never held back or there is
  no VAD to settle for (`NeverSkips`); `committing_hole` shows it is needed.
  `HoleInv` adds that no stable word waits where a settle could pass it
  (`NothingWaits`), and that every stable word behind the frontier is committed
  or obstructed (`PassedKept`): a word that becomes stable behind the frontier
  begins before the end of the commit that moved it there, which was a guess,
  because two words of one hypothesis do not overlap.

`Adapters_proofs`: from `RegionAssumption` (types; windows and tails are not
empty) and `AdaptersAssumption` (types; the VAD's window is not empty; spoken
words follow one another and have a length).

* The frontend: `TypeCorrect`, `Disjointness`, `LongSegments`, `BoundedBuffer`.
  Segments are cut with multiplication and division; `WindowsTile` and
  `RestIsTheTail` prove that the cut is a tiling, `Extend` that segments cut
  behind all earlier ones keep the whole set disjoint, and the invariant keeps
  all of them behind the frontier: the region's start while one is open, the end
  of the stream otherwise. `NothingSpokenIsLost` and `PausesSeparate`:
  `SpeechInv` says every tick spoken is covered, by a segment, the buffer, or a
  tail too short, and `PauseInv` that within what is closed, and within the open
  region, two chunks of speech are never `min_silence` apart with no speech
  between them.
* The VAD: `SameDecisions`. `VadInv` says the buffer is the remainder of the
  audio after whole windows, the verdicts given are the first of the stream, and
  the run reported is the one a reader of those verdicts would find, begun at the
  window the code dates it by. One push folds the verdicts of its windows, and
  the fold keeps that relation verdict by verdict.
* The sherpa engine: `SaysEveryPiece`, `EndsInTime`, `KeepsStarts`. `SherpaInv`
  says that the pieces decoded are numbered and dated in order and that there is
  a split of them into consecutive runs, one for each word and a last one pending,
  from which every word was assembled. `_drain` is a fold that moves the last
  boundary or adds one, so it only ever makes the split finer at its end.
* The whisper engine: `SaysEachWordOnce`. `WhisperInv` says that the stable words
  follow one another up to the agreement point; that the buffer begins where the
  cap last cut it, or `Context` behind the agreement point; and, while no
  boundary moved, that each stable word lies within its audio and every word
  begun before the agreement point is stable or was cut. A word in both the
  stable ones and a later pass began before the agreement point, so the pass must
  have heard it from the middle, from the buffer's start: then the cap made that
  cut. Filters, capping and promotion are folds, of which lemmas say what they
  leave (`ChosenTo`, `PromotedTo`).
* `EnginesKeepContract`: on every stream of every device, each step is one
  `HypothesisStream` allows. The length of a stream is bounded by a constant
  like any other: the results hold for every value of it.

`Serving_proofs`: from `ServerAssumption` (finitely many connections). First
the server alone:

* `SlotsCounted`, and `CapIsKept`, the refinement of `Slots`. Both rest on
  `ServerStep`: to the slots, every step of every handler is one taken, one
  turned away, one given back, none, or all of them gone. The invariant
  `SlotInv` says the counter is the number of holders and within the limit; a
  counter that is right is never clamped at zero by `release`, which is why
  giving back once is enough.
* `FramesAreTheLog` and `ServerTypeCorrect`. `FrameInv` says that what a client
  has received and what its handler still has queued are together hello and the
  log, in order, and that nothing is queued while the handler awaits a message.

Then the model store, which needs no assumption:

* `WholeForever`. `ModelIsWhole` says nothing of downloads under way, so
  `StoreInv` adds that what is being moved is whole, and that a build past the
  move, or moving into another's directory, has a whole model under it.

Then the composition with real builds: `ServingStep` proves that each of its
steps is a step or a stutter of `Server` and of `ModelStore`, so the results of
both hold of it (`ServingKeepsTheCap`, `ServedFramesAreTheLog`,
`ServedModelIsWhole`).

`Folding`: no assumption. `FoldKeeps`: what holds at the start of a fold over a
finite set, and is kept by each of its steps, holds at its end. The folds of
the community modules are recursive functions, so the theorem first shows that
such a function exists (`FoldExists`), on the subsets of at most n members for
ever larger n: the least n without one would be the successor of one with. A
theorem cannot take the operation as a parameter, so the module does, as constant
operators, and every loop of the code is an instance of it.

`Labelling_proofs`: from `TrackerAssumption` (the alphabet has letters, the
limits their types) and `LabellingAssumption` (segments follow one another).

* `LabellingTypeCorrect`, `MemoryStaysBounded`, `LabelsStand`,
  `VoicesStayMerged`, `ForgettingChangesNothing`.
* The labels minted are live, evicted or absorbed, and no two of these at once;
  an absorbed label leads to one that sorts before it, hence along any chain to
  one that is not absorbed (`Fine`). Both halves need a fold: `Taught` merges
  pairs one after another and keeps `Fine` at each, and `Resolve` follows merges
  until none applies. The order in which pairs are taken is an order only
  because no two labels are spelled alike, which the proof shows of the way
  labels are minted.
* `ForgettingChangesNothing` compares the spans kept with the spans ever heard:
  the first are a suffix of the second, so whatever a recent word overlaps, or
  is within `MaxGap` of, has the same place in both.

`Coordinator_proofs`: from `TrackerAssumption`, `LogAssumption`,
`ContractAssumption` and `CoordinatorAssumption` (types of the policy's values;
segments follow one another).

* `CoordinatorTypeCorrect`, which includes that log and policy agree on the
  frontier; `NeverRaises`, `TurnsHaveOneVoice`, `NullsWaitNoLonger`,
  `TheLogOnlyGrows`, `PolishKeepsTheContent`, and `NothingIsContradicted`, the
  refinement of `Transcript`.
* One predicate on the document, `Sound`, is kept by every single thing the
  code writes: an event, the announcement of a turn, a committed word, a label,
  a polish. It says that nothing was raised and nothing lies in the future
  (`Shape`); that a labelled word's turn was announced for its speaker before
  it and for nobody else (`Turns`); that a label fills a commit that had none
  and was given none before, and those waiting are commits of that kind
  (`Fills`); and that a polish renders a stretch of commits with none left out,
  while the open utterance is such a stretch reaching the last one (`Renders`).
  `EmitWords`, `FillUnlabeled`, `Displayed` and `Committed` are loops over these
  things: instances of `Folding` carry `Sound`, and what the first has read, from
  the start to the end.
* `IInv` is `Sound` together with the type, the waiting words and the engine's
  latest hypothesis: its words tile the audio up to now (`Tiling`), which is
  what makes whatever `take`, `settle` or `flush` releases acceptable to the log.

Also in `Coordinator_proofs`, about `LagTwin` and from the same assumptions:

* `LagIsInvisible`. The events of the two logs have different numbers, so the
  proof needs a relation of the two documents, `Alike`: the same things last in
  both, under the same numbers once what does not last is left out, and turn,
  frontier, queue and utterance are the same up to that. `PlusBoth` shows that an
  event that lasts keeps it when it is written to both, `PlusOne` that a partial
  or a notice of lag keeps it when it is written to one. The loops are folded in
  parallel (`FoldsAgree`): the n-th word waiting in one document is the n-th in
  the other.
* Everything else an action writes is computed from the audio, the models'
  answers and what is already equal in both (`Shared`), by the same code (the
  lemmas whose names begin with `Same`).

`Text_proofs`: from `PipelineAssumption` (the default model is in the registry,
and no name is the absent one), `PolishAssumption` (an utterance has a word in
it: `Chain.run` returns at once from one that has none) and
`MeasurementAssumption` (times are integers and no label is the absent one).

* `PunctuatedOnce`. What a chain is built from is one of five lists, and sorting
  adds no stage (`StagesAreGiven`). The invariant `SourceInv` says that an
  utterance that has been punctuated once is not again: the chain has noted it in
  `present`, or has no stage that could (`Done`). Where the builder was left to
  choose, the registry knows what the recogniser does (`ChoosingWrites`), so
  there is such a stage only behind one that writes nothing.
* `LateNamesOnlyFill`. Of a log the invariant is only `Recorded`: who names has
  a label, and commits have times. A name at the end of the log is the last to
  name its commit or turn (`NameFills`), so a word that was null may have a label
  after it, and one that has a label of its own keeps it, because `Resolved`
  asks for that one first. The commits a turn's latency is read from only grow,
  so the first of them comes no later.
* `ScoredAtBest`. Small: the loop is a fold over finitely many arrangements
  (`FinitePairs`) and leaves none that agrees more (`TriesAll`); a reading of
  some of the labels as somebody extends to an arrangement (`Extends`, and its
  mirror where there are more labels than speakers), which agrees at least as
  much. Past the limit: the fold over the kinds of pairs, the most frequent
  first, keeps `Reading`, that each kind is read as it stands or has another as
  frequent, with its label or its speaker, in its way. Each word of another
  reading is then sent to one that the greedy reading has right, no two of them
  that are in the way by the same side to the same one (`GreedyIsHalf`): hence
  half.

* `CountsTheDistance`, of any two sequences of words. `Best` is the least cost of
  pairing off two prefixes; it obeys the recursion of the table: leaving out the
  last word of either text or pairing both off cannot be cheaper than what the
  whole costs (`BestBounds`, by adding a pair or a word to an alignment), and the
  best of the whole leaves one of the three (`BestStep`). Hence the table is
  `Best` cell by cell (`DistanceIs`, by induction on the sum of the
  coordinates). Each step of the walk goes to an earlier cell, whose distance is
  less by what the step counts (`WalkComes`, which shows also that the last
  branch, taken without a test, is an insertion), so the walk as a recursive
  function exists (`WalkExists`) and counts the distance (`WalkCounts`). The
  library's induction theorems cannot be cited for this: the inductions go by the
  least counterexample (`Folding`).

Only model-checked:

* `BadStageCostsOnlyItself` and `FiguresAreForgiven`: `Itn` and the
  normalisation of `Wer` compute by recursion on the length of what is said, and
  what such a function returns for every input needs an induction of its own for
  each of their rules; both also rest on strings being told apart word by word,
  which the provers do not do.
* `SlotsComeBack`, because liveness under fairness is out of the prover's reach.

## 5. Not modelled

* The neural models: recognition, voice activity, embeddings, punctuation and
  smart-turn. Their answers are inputs.
* `features.py` is floating point arithmetic without state. `cli.py` and
  `audio.py` parse, print and read; what they decide is in `pipeline.py`.
* The server's recorder, its lag clock (the flag is an input of `LagTwin`), the
  page it serves to browsers, and the text of its frames.
* Of the measurement: `score_endpoints`, `load_turns`, percentiles, corpus sums.
* `models.py`: the registry's contents, `find` and `unused_files`, which only
  read.
* `policy.py` and the clock beyond their constants and ticks; `events.py` as
  JSON; `scripts/`, which build fixtures and a web page.
* The sample arithmetic of the clock, float rounding, text layout.

## 6. Plan

The order was: endpointing and committing with their proofs; labels, log and
coordinator; the adapters; the server with its model store; the text after the
log. All of it stands. What would add most next:

1. `Page`: the browser's rendering of the frames implements the display
   transcript, also for a second session on one page (`server/ui.html`).
2. The recorder and the lag clock in `Server`, with the file two sessions share.
3. `score_endpoints`: the matching of emitted to true endpoints against a
   definition over all matchings.

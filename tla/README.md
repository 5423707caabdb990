# A verification of the PII masking service

TLA+ models of the service in this repository, the TLC configurations that
check them on small instances, and TLAPS proofs of their main properties for
every value of the constants.

The service masks personal data before a text goes to an LLM and restores it
afterwards. `POST /process` takes a text and an id. A new id is masked: a
detector finds entities, their characters are replaced by `*`, and the pair of
original and mask is stored under the id. The mask sent with its id gives the
original back; any other text with a known id gives the stored mask.

## 1. The system

| Component | State | Operations | Modules |
|---|---|---|---|
| Inference engine (`src/core/engine.py`, `batcher.py`) | job queue, charged characters, worker tasks with their batches, a thread pool, a future for each request | `start`, `submit`, the worker loop with `BatchCollector.collect`, `_process_batch` in a pool thread, `stop` | `InferenceEngine`, `SubmitContract` |
| Memory store (`src/core/correlation.py`) | an `OrderedDict` of deadlines and records, a lock | `get`, `set`, `put_if_absent`, `get_result`, `set_result` | `MemoryStore`, `TtlStore` |
| Redis store (`correlation.py`, `redis_client.py`) | keys `corr:<id>` and `result:<id>` with a time to live | the same five | `CorrelationBackends` |
| HTTP API (`src/api/`) | the metrics counters of each process | `process()` | `ProcessApi`, `ProcessContract` |
| Masking (`src/core/masking.py`) | none between calls | `mask_text`, `unmask_text` | `Masking`, `Pipeline` |
| Detectors (`src/models/`: rules, hybrid, post-processing, factory) | none between calls | `predict_batch` | `Detection`, `Pipeline` |
| Student inference (`src/models/student/inference.py`, `batched.py`) | none between calls | windows, flushes, merge, `tags_to_entities` | `StudentWindows`, `BioDecoding` |
| ONNX inference (`src/models/rubert/`, `recall_onnx/`) | none between calls | votes between windows, decoding | `OnnxInference`, `BioDecoding` |
| Tunnel (`deploy/tunnel/run.py`) | an ssh child, the address file, the stop event | the reconnect loop, the signal handler | `Tunnel` |
| Student network (`src/models/student/model.py`) | its weights | the Viterbi search of `decode` | `Tagging`; the layers are not modelled |
| Corpus scripts (`scripts/`: `integrate_new_pii`, `make_rare_label_supplement`, `dedup_csv_splits`, `enrich_csv`, `relabel_public_persons`) | `data/csv` and `data/hybrid`, three splits each | the five scripts, started by hand in any order | `CorpusRows`, `Corpus` |
| Distillation notebook (`scripts/build_distill_notebook.py`) | the files in `OUT_DIR`, the weights in memory | the cells from the configuration to the artifacts; gold tags of a row | `Distill`, `Tagging` |
| Configuration, entry point, schema, artifacts | constants | reading and checking them | constants and `ASSUME`s only |
| Test stand, benchmark and export scripts; the networks | — | — | not modelled (section 8) |

How they interact:

- `process()` reads the store, and on a miss calls `submit()` of the engine of
  its process. Read and write are not one step: between them another request,
  perhaps in another process, may store a record for the id.
- `submit()` puts a job with a future in the queue and waits with a timeout. A
  worker task takes jobs, fills a batch, and hands those still wanted to a pool
  thread, which runs the detector, masks, and calls `put_if_absent` for each job
  in turn. Only the event loop touches futures.
- `stop()` (from the lifespan of the application) cancels the workers, waits for
  them and their threads, closes the store and cancels what is left in the queue.
- Everything about an id is decided by the store: the first record written wins.

What is hard: cancellation, timeouts and threads in the engine; the gap between
read and write in the API; calls whose answer is lost; lazily expiring rows;
intervals, windows and tag sequences with all their boundary cases; a signal
handler that runs between any two steps; scripts that rewrite their files in
place and are run over each other's output; a notebook that takes what earlier
runs left. `PROJECT.json` lists each such hazard
with its line and the properties that would notice it going wrong.

## 2. How the modules fit together

```
ProcessContract      what POST /process promises
      ^  implements
ProcessApi  ----- uses the engine through ----->  SubmitContract
      |                                                 ^  implements
      | uses a store as a map: TtlStore            InferenceEngine
      v                        ^  implements
  CorrelationBackends      MemoryStore
  (memory against Redis)

  inside _process_batch:   Pipeline = Detection -> Masking
  inside the detectors:    StudentWindows, OnnxInference -> BioDecoding
  where tags come from:    Tagging -> BioDecoding
  beside the service:      Tunnel
  before the service:      CorpusRows -> Corpus -> (training) Distill
```

`InferenceEngine` implements `SubmitContract` (a job is accepted or refused,
takes effect at most once, is answered with its own effect, may be given up);
`ProcessApi` composes the handlers with that contract, so that its states are
few enough for three requests in two processes. `MemoryStore` implements
`TtlStore`, the store `ProcessApi` takes for granted. `ProcessApi` allows more
than the stores do: a record may go at any time (`Forget` stands for the time to
live and for a Redis that restarts from an append-only file it had not synced),
and the memory of a process goes with it.

`Pipeline` hands the entities of `Detection` to `Masking`, so that one property
speaks of patterns and predictions at one end and of the masked text at the other.

Each component with proofs has a module `...Proofs` beside it, and each
instance an `MC...` module with one or more `.cfg` files. `PipelineProofs` holds the
proofs of masking, `Detection` and their composition, `DetectorsProofs` those of windows,
decoding, votes, tagging and Viterbi, `DeploymentProofs` those of the tunnel and the backends.

## 3. From the code to the modules

`PROJECT.json` maps every definition to its lines. The choices that matter:

**InferenceEngine.** Steps of the event loop are atomic between `await`s; pool
threads interleave with them. `TakeFirst`, `PopNext`, `ResumeWithItem` and
`CollectTimeout` are the collection of a batch; `WorkerFinishes` is the resumption
after the batch, `WorkerCancelled` that with a cancellation, each with the `finally` clause
(`Release`, `Settle`). `handoff` is the job that the inner task of `wait_for` has
taken and the worker has not seen: the constant `LegacyWaitFor` tells the
`asyncio.wait_for` of Python 3.11 and earlier, which returns such a job and drops
a cancellation, from that of 3.12, which has no inner task. `ThreadStore` is one
`mask_text` with one `put_if_absent`; with `RedisStore` a call may fail before the
write, after it, or be written later than its failure is seen (`RedisWritesLate`).
Payloads are jobs with a length; `pending_chars` counts their characters as pairs of
a place and a job, so that the proof needs no sum. A request's task may be cancelled at its await
(`SubmitAbandoned`, for the jobs in `Cancellable`), which cancels the future under the
worker. `aclose()` of the store may raise in `stop()`, which then skips its drain. `start()` and `stop()` are called in turn, as the
lifespan does, with `stop()` once for each `start()`.

**MemoryStore.** A call takes the lock, reads the clock once for its purge, drops
rows from the front one at a time, then reads or writes; the clock may advance
between any two of these. The write reads the clock again.

**ProcessApi.** `process()` in two steps, read and answer or submit; the engine's
contract in between. With the memory store there is no `await` between read and
submit; the model lets other requests in for both backends, which can only add
behaviours. A request's task may be cancelled at either of its two awaits (`Cancelled`); it then
counts nowhere, while its thread may still write. `Masks[t]` has several masks where a detector may answer differently
in another batch (padding changes the numbers). `served` and `stale` are history.

**Masking.** A text is a sequence of characters, a span a pair of offsets with a
label. The loops advance one entity, interval, span or character at a time. Labels
matter only as private or public.

**Detection.** A pattern is a set of matches that do not overlap, a network a set
of entities; what the code does with them (sort, `_dedupe`, merge, filter,
supplement) is modelled step by step where it loops. Lists that are sorted before
anyone sees them are sets.

**Pipeline.** `_process_batch` for one text: `mask_text` waits for the detector and gets
its list, ascending by start but for the recall model's, which goes label by label. Runs
that begin with a list of any shape stand for plug-ins outside the repository.

**StudentWindows.** `Findings` is what the network and the decoder say of a window,
any set of spans in it. Labels are numbers, as the sort compares them.

**BioDecoding.** The three decoding loops, each as it is written, against one
definition of what tags mean (`SpansUpTo`). Softmax and `argmax` are before it.

**OnnxInference.** Extends `BioDecoding` by what comes before it: a window is a
sequence of tokens, the network answers any tag with any confidence, and the
tokens that won their votes are handed to the decoder. The loop over batches and
the vote of each of their windows are one action for each window: votes of a run
that fails are never seen. `Ascending` is `sorted(vote)`. The student's tags are not voted on and start at the decoder.

**Tagging.** `TokenTag` is `token_labels_from_entities`: the entity that goes before all
others over a token gives its tag. Gold spans are the runs of those tags, since
`bio_decode` returns the runs (`DecodesExactly`). An entity may be merged
with one of its label that lies around it, overlaps it or begins within a token;
`LeadsAt`, `LedBy` and `LedAcross` (which entity gives a token its tag, and whether it begins there) say
exactly when. `Viterbi` is one action: the table `V`,
the back pointers and the walk back. Weights are integers; the tags of the network are
1 to `NumTags`. Tokens do not overlap, as the tokenizer's offsets and `iter_word_tokens` have it.

**Tunnel.** Every step of `main()` is an action, and the handler runs between any
two. Children are "current" or "old", so reconnections need no counter. The
container may be killed at any time and is started again as
`restart: unless-stopped` says.

**CorpusRows.** How each extractor makes entities of what its source marked:
`Redmadrobot` aligns tokens, joins equal neighbours and the parts of a name;
`Meddies` and `Alrosait` look for values, the one in order, the other in any free
place; `DocumentSpans` splits a document number. Each loop of the code is one operator
for what an iteration does (`RunOfToken`, `MergeName`, `FindMarker`, `TakePlace`, `Visit`)
and one function that gives what there is after n of them. A text is a length with the
places of its digits, its marks and the values in it, which is all that `find` and the
patterns see. `ValidRow` is the stack walk of `validate_row`, over the sorted places of the
entities (two in one place make no difference to it). Its
comparison of `text[start:end]` with the entity's text is left out: `make_entity`
has just sliced one from the other, so it cannot fail. `Parts` and `Built` are
`generate_row` with its blocks and `Builder`; what the random generator draws is the
constant `Generated`. `SourceRow` says what a source may hand over: spans inside their
text, tokens with any tags or values that occur in it or not; the text of `alexen2` is its joined tokens, as the
extractor makes it.

**Corpus.** A script reads a split, decides, opens the file for writing, which
empties it (`Open`), and writes (`Write`); `integrate` reads everything first
(`ReadAll`), takes the rows of its sources one by one (`SkipRow`, `AddRow`,
`RowRaises`), and writes at the end. `Stopped` may end any script while no file is
open, `Torn` while one is, with any of its rows written. The variables under
"history" serve the properties only. `Home` is `split_for`, the MD5 of the key.
At first the files hold rows of `OldSources` only, none that `integrate` or `rare` made;
those of `csv` are assumed sound, since no script mends a row it did not make, and those of
`hybrid` to lie in their texts; these may cross, which `enrich` has to notice.
A row a script makes is known by its source, its split and its place, as its id is.

**Distill.** An epoch, a load, a save and each exported file is a step, and the kernel may
be stopped before or in the middle of each write, which leaves a `Torn` file. Weights are known by
their run, epoch and vocabulary. A vocabulary is the table of a tokenizer and the ids whose
rows are kept: `Begin` takes the tokenizer from the run's `PII_TEACHER_NAME`, which may differ from
that of the runs before, and ids from what this run counts. A `val_loss` is one of
two numbers or NaN. The environment of each run is chosen anew (`Settings`). `best_loss`,
`best_epoch` and the patience are kept as the two training loops keep them. `Asked` are the
models that get the ids of `remap_ids`, the full teacher in its comparison with the pruned
one (lines 665-681) among them; ids for which a model may have no row may raise (`InputRaises`),
and so may cutting rows that a foreign table has not (`PruneRaises`). `inherited` is
what a run found of both teachers' checkpoints. Two tokenizers never have the same
table, and the asserts on the data and on the architecture are left out.

## 4. The runs

| Run | Instance | What it shows |
|---|---|---|
| `engine_safety` | 4 jobs (one of two characters, whose request may be cancelled), 2 workers, queue of 2, 4 characters, batches of 2, Redis, Python 3.11 | no job lost, in two places, revived or answered without a record; the character budget exact; `stop()` waits for inference and leaves nothing, or only the queue when closing the store fails; `SubmitContract` implemented |
| `engine_service` | 3 jobs, 2 workers, 3 characters, memory store, Python 3.12, a restart, no cancelled requests, no symmetry | no worker of a started engine dies; every `stop()` gets past its workers and every `submit()` returns without the help of a timeout |
| `engine_stop_hang` (violation) | Python 3.11 | `stop()` may wait for ever (section 6) |
| `memory_store` | 2 threads, 2 ids, time to live 2, clock to 4 | purging from the front finds every expired row; `TtlStore` implemented |
| `backends_records` | 2 ids, 2 records, clock to 4 | memory and Redis give the same reply to every call about ids `set_result` has not touched |
| `backends_results` (violation) | the same | they disagree on `get_result` (section 6) |
| `process_api` | 3 requests, any of them cancelled, 1 id, 2 processes, a text with two masks, one fault | answers are reproducible while the record lives; an original goes only to its mask; counters add up; `ProcessContract` implemented |
| `pipeline` | every detector on a text of 3 characters, 3 rules, up to 4 matches and 1 entity; other plug-ins on a text of 4 characters with up to 3 entities, invalid offsets among them; 5 lists of foreign spans | coverage is the union of what was found; the masked text hides exactly that, and no text is refused; the mask is exact for any plug-in; restoration is exact, or refused |
| `tunnel` | the whole module | no stale address; a signal ends the program; a lost connection is replaced |
| `detectors` | student: windows of 8 overlapping by 2, flushes of 2, texts of 0 to 15 characters; ONNX: one window of 4 tokens with every answer over 2 labels, 2 and 3 windows that share a token, 2 texts, 2 confidences; training: rows of 4 tokens with up to 3 entities of 2 labels or the container, which may begin and end within tokens, lie around each other or begin in one place; Viterbi: 2 tags, all weights of 0 and 1, up to 3 characters | short pieces are seen whole; each text gets the merge of its own findings; the best vote wins, whatever else is in the batch; the three decoders return the maximal runs; tagging a row gives back the entities that lead over their tokens, and it is exact which come back whole and which are merged with others of their label; no path beats the Viterbi path |
| `corpus` | 3 runs of any scripts over 3 pairs of files with copies within and across splits, and 378 single rows for the extractors: 3 tokens with any tags, sets of spans, numbers in four forms, values that occur twice or overlap | rows stay sound; after `dedup` no text is there twice, until `rare` is run; only a stop during a write loses a text, and only of that file; a second run of a script changes nothing |
| `distill` | 3 runs of the notebook over one directory, 5 environments, 2 tokenizers, 2 sets of kept ids, 2 losses and NaN, up to 3 epochs, a stop anywhere | the weights that go on are those of the first best epoch; the deployed files are of one run; a run raises only for want of weights that can be read and fit; whose rows a run's ids are answered with is settled by the teacher it found, and the full teacher in the A/B comparison always misfits |

Why the bounds are enough for what the runs ask: in the engine two queued short
jobs fill the queue with characters to spare, and the long job with two short
ones uses up the characters while the queue has room, so both limits bite alone;
with two workers one may collect while the other runs, fails or is cancelled, and
a batch of two may be full, cut short by the timeout, or half expired. In the
stores a row can expire, be written anew and expire again, with another row before
or behind it. In the API two racing writers and a third request that sees their
outcome are what first-writer-wins needs, and one fault, of either kind, may fall
between any two steps. Four characters hold three spans that are nested, overlap,
touch or lie apart. Four tags hold every pair of neighbours with something before
and behind. Three runs of scripts are a first one, perhaps cut off, a second that
finds what it left, and a third that repeats the second or undoes what it relied on.
The notebook's third run meets what two earlier ones left, one of them torn; two losses can
tie, fall and be NaN within three epochs, with a patience of two. A third character is the first
at which a Viterbi pointer leads to another. The windows include a text that fills one exactly and one with a single character
more. The proofs (section 7) do away with these bounds for most properties.

Other things a reader should know of the configurations:

- Symmetry is used in safety runs only, over jobs of one length, worker
  tasks, requests, processes, ids, and masks, which are interchangeable.
- `engine_safety` and `engine_stop_hang` do not check for deadlock: an engine that hangs in
  `stop()` really does stop. Elsewhere a state with no way on is allowed only
  through the explicit `Terminating`, `Finished`, `BatchFinished` and `AllRun` steps.
- `process_api` has the state constraint `OneFault`: a record goes or a process
  dies, not both, to keep the run short. The proofs have no such constraint.
- Bounds of the models, all named constants: `MaxStarts` (engine), `MaxClock`
  (stores), `MaxForgets` and `MaxCrashes` (API), `MaxRuns` (corpus, notebook), `Cancellable`
  (engine: whose request may be cancelled; only the long job in `engine_safety`, to keep
  the symmetry of the others and the run short). The tunnel has none.
- `pipeline` leaves empty what a kind of detector does not look at (`InitRestricted`).
- `detectors` puts side by side what shares no state: `DetectorInit` gives work to one of windows,
  votes, tagging and Viterbi only, and the three decoding loops are told apart by `decoder`. `corpus` gives the extractors' many rows to files of one row
  only (`CorpusInit`), and the files with copies to three feeds of three rows.

## 5. Fairness

*Engine.* Weak fairness of each worker's and each thread's steps, of the return of a
`submit()` whose future is done, and of `stop()` going on once its workers have
ended: the event loop runs every task that is ready, and a pool thread runs
until its inference ends. Inference is taken to terminate (`AUDIT.md`, limit 11,
says what happens if it does not). Nothing is assumed of timeouts, submits or
`stop()` being called. So `SubmitsComplete` says that no request needs its
timeout, and `StopTerminates` that a `stop()` that has begun passes its workers.

*Tunnel.* Strong fairness of `main()`, because the interpreter runs on between
signals that keep interrupting it; weak fairness of the handler; a child that
was sent SIGTERM ends. Nothing is assumed of ssh, the network or signals.
`StopEnds` excludes the two windows in which the code really misses a signal:
between the test of `STOP` and the assignment of `process`, where the handler
does not know the new child, and inside `STOP.wait`, whose lock `STOP.set()` in
the handler would wait for in the same thread.

## 6. Findings

- **`stop()` can hang on Python 3.11 and earlier** (`engine_stop_hang`; the
  Dockerfile uses 3.10). If a cancellation comes after `queue.get()` inside
  `wait_for` took a job and before the worker resumed, `wait_for` returns the job
  and the cancellation is gone. The worker finishes its batch and waits for the
  next, `stop()` waits for the worker. `AUDIT.md:27` says `stop()` waits for
  workers and ends waiting requests.
- **The backends are not interchangeable** (`backends_results`): after
  `put_if_absent`, `get_result` gives the mask from memory and `None` from Redis,
  which keeps results under keys of their own. `correlation.py:10-12` says callers never depend
  on a concrete backend. The API uses neither method (`AUDIT.md:33`).

Beside these, `rules.py:39` and the docstring of `_dedupe` promise that the first,
higher-priority rule wins, while the sort knows only positions and lengths: an
e-mail inside a URL is reported as URL. `Detection` has the order of the code;
the mask is the same either way (`CoverageIsUnion`).

`dedup_csv_splits.py:4-6` says it drops rows whose text is in an earlier split and
preserves all others; lines 36-39 drop the second of two copies within one split
too, and `FirstOfKey` has it so. `extract_alexen2` (lines 412-413) lets a tag `I-X`
go on with the last span of label `X` however far back that ended, over tokens tagged `O`
or with a label that has no map; `Alexen2` does the same. A row generated by
`make_rare_label_supplement.py` is checked against the other generated rows only,
so a run of it may put copies into other splits until `dedup` is run: that
is why `CleanSinceDedup` starts anew there.

The notebook says (lines 282-283) that the service must remap its tokens with
`vocab_remap` when the student was pruned; nothing in `src/models/rubert/inference.py` reads
that file. `Distill` ends where the files are written, so no run speaks of it.

Lines 281-282 of the notebook say that teacher and student are compared fairly, because both
get the remapped ids. The comparison of the pruned teacher with the full one (lines 673-676)
is not fair: `predict_texts` remaps the ids for any model (line 460, `remap_ids` at 336-339),
so the full teacher, whose embeddings still have all rows, looks up rows of
other tokens, and the F1 printed for it is not its own. `MisfitOnlyInherited` says so
of every state in which they are compared: the full teacher never fits.

Nothing compares a teacher found in `OUT_DIR` (lines 565-574) with the tokenizer or the kept ids
of the run that takes it. The smoke mode (line 61) writes to the same `OUT_DIR` by default,
with the tokenizer of another `PII_TEACHER_NAME` and a teacher trained on few rows; the next
full run takes that teacher and goes on to distill it. So does a run after one that was stopped
when its first epoch had been saved. Of these, `MisfitOnlyInherited` names the cases in which
the ids mean other tokens than the rows; how well a teacher was trained it does not say.

## 7. Proofs

Everything below is proved for all values of the constants that satisfy the
named assumptions of the modules (`EngineAssumption`, `StoreAssumption`, ...),
which ask no more than the code: positive sizes, distinct sentinels, data of the
right shape. The bounds of the models are among those constants.

| Module | Theorems | Argument |
|---|---|---|
| `InferenceEngineProofs` | `TypeCorrect`, `NoJobLost`, `NoJobDuplicated`, `AnswersAreRecorded`, `CapacityIsExact`, `ThreadsAreAwaited`, `StopIsClean`, `StaysRunning`, `ExpiredJobsStayExpired`, `EngineKeepsContract` | `IInv`: where workers, threads and the pool may be in each phase of `start`/`stop` (`Lifecycle`, `WorkerShape`), that a queued or held job was accepted (`Accepted`), that what a thread has stored is recorded (`Recorded`), with the two properties of jobs. `JobNeverLost` alone is not inductive: that the drain ends every job needs that no worker still holds one, which is `Lifecycle`. That the characters are exact needs that each charged job is in one place and charged once (`Exact`, `NoRepeats`), and the cardinalities of disjoint unions. |
| `MemoryStoreProofs` | `SortedByDeadline`, `PurgeFindsAll`, `StoreKeepsContract` | rows ascend by deadline because each write gives a deadline no earlier than any before (`clock + Ttl` bounds them all) and moves its row to the end; the lock admits one caller (`Locked`), who has purged before it looks (`Prepared`). |
| `ProcessApiProofs` | `AnswersStand`, `OriginalsGoToMasks`, `MetricsAddUp`, `ApiKeepsContract` | what a request knows in each phase (`Phases`), that all records in play for an id agree (`Agreement`) and come from a request (`Sources`), that answers match them (`Truthful`), and the sums as cardinalities (`Tallied`). |
| `PipelineProofs` | `MaskExact`, `FailsClosed`, `IntervalsDisjoint`, `RoundTrip`, `SplicesStand`, `DedupeAscends`, `NothingLostOrAdded`, `EmailsStayWhole`, `PipelineInvariance`, `FoundIsHidden`, `PipelineIsExact` | masking: for each loop, what its first k - 1 iterations have achieved; detection: the kept matches ascend in both ends, so that the last one covers whatever any would (`Ascends`, `Deduping`); together: `mask_text` has all entities of the detector and none is invalid (`Handed`), so that the masked text is the mask of their union. |
| `DetectorsProofs` | `NothingShortIsSplit`, `MergedInPlace`, `BioInvariance`, `DecodersAgree`, `VotingInvariance`, `BestAnswersAreDecoded`, `RunsOfBestAnswers`, `EntitiesSurviveTagging`, `ViterbiIsOptimal` | the windows cut so far cover the text with the full overlap (`CutCovers`), the merge of a sorted prefix is the merge of its set (`MergeSoFar`); before token k the closed spans are the runs that ended before the open one, and the open one is the run in progress (`Column`); the windows counted are the shortest ones, and the votes kept are the surest of what they said (`InTurn`, `VotesStand`); the order of `span_priority` has a least entity over each token, its leader, and the tag names the leader's label and whether it begins there (`LeaderTags`, `TagOfLeader`); so the run around a token is that of the tokens led by one label without a new beginning, and an entity leads to where it goes on or is cut (`GoesOnBehind`, `RunAround`); `V[t]` bounds the score of every path of t tags and the pointers attain it (`TableBounds`, `PointersAttain`). |
| `CorpusProofs` | `CorpusInvariance`, `CleanStays`, `NoTextLost`, `RerunsAreIdle`, `RowsStaySound` | `CorpusInv`: files not yet opened are as they were found (`Untouched`), rows a script made stand in the split of their key (`AllSettled`), and what a script's rows leave out of a file is in another (`Integrated`, `Covered`, `Deduplicated`). That a second run changes nothing needs a second invariant (`RerunInv`): what a script leaves at its end (`Stable`: for `rare` the others and the generated rows, for `integrate` the old rows and what it adds to these keys, for `enrich` rows with all they can be given, for `relabel` rows with nothing to strip), what it has made of that so far (`Progress`), and that a second run finds it and puts it back (`Again`). That rows stay sound takes a third (`SoundInv`: `csv`, what is to be written to it and what is added are sound, `hybrid` lies in its texts), and a proof for each extractor. The walk of `validate_row` keeps on its stack, in falling order, the ends of all it has met that are still open (`VisitStep`), so what it lets through nests or keeps apart (`ValidIsLaminar`). After n tokens the spans found lie in the text, climb and end by the n-th token's end (`RunSteps`, `MergeStep`), markers and values lie where `find` met them (`MarkerStep`, `PlaceStep`), and generated parts follow one another (`PartStep`). |
| `DistillProofs` | `DistillInvariance`, `BestAlwaysKept`, `DeploymentOfOneRun`, `MisfitInherited`, `RaisesForWant` | for each cell, what its checkpoint holds once the loop before it found a best epoch (`Training`, `First`), which vocabulary the files and models have, namely that of the teacher the run found (`FoundVocab`, `Inheritance`), and how far the exported ones are (`Artefacts`). |
| `DeploymentProofs` | `RepliesAlike`, `RecordsAlike`, `NoStaleAddress`, `AddressIsCurrent` | backends: the rows of an id are the same, deadline included, or the time of both is up (`Aligned`); tunnel: an address is published only where `main()` is on its way to clear it. |

Rows of a script are made by `Pick`, the rows at some places in their order: a function of
the place, about which the lemmas `NthIs` and `PickIs` say all that is needed, so that no fold
over rows is in the way. Where a definition does recurse (`V`, `PathFrom`, the runs of tags, the
loops of `CorpusRows`) the induction is over a set of numbers, by the least-number principle
(`LeastOf`, `Induction`, `WalkExists`).

Only model-checked: liveness and fairness (`StopTerminates`, `SubmitsComplete`, `StopEnds`,
`Reconnects`), which the prover does not reach. All safety and action properties of the passing
runs are proved.

## 8. What is not modelled, and why

- Networks, tokenizers and regular expressions: arithmetic and libraries; the
  models take any answer they may give. The lengths of windows of tokens are the
  tokenizer's.
- `/health`, `/metrics`, the 401 of the middleware: they read and change nothing.
- How long anything takes: a job that keeps its characters charged after its
  request timed out is in the model, the time it does so is not.
- `unmask_text` has no caller in the service (originals are stored whole); it is
  checked because `tests/test_masking.py` relies on it.
- `collect_sync` and `poll_interval_s` have no users.
- The manifest `relabel_public_persons.py` brings up to date, the printed counts, the
  download, shuffle and limit of MultiCoNER, the wording of generated rows, a line cut
  in its middle by a stop, and source offsets that lie outside their text.
- The notebook's batching, optimisers, layers and printed measurements, and `main()` of
  `build_distill_notebook.py`, which writes the cells to a file.
- The test stand: a page for trying the service by hand, which keeps the last call's id and
  mask and on which nothing depends.
- Settings and `create_detector`'s choice: independent range checks and a table of builders;
  their bounds are the `ASSUME`s of the models. `artifacts.py` tests for a Git LFS pointer.
- The benchmark, evaluation and export scripts: a straight line from arguments to output
  through third-party libraries.

## 9. Plan

Done, in this order: engine and its contract, memory store and its contract,
the API on top of both, Redis against memory, masking, detection, tunnel,
windows, decoding, voting and their composition, the corpus scripts; then cancelled
requests in the engine and the API, tagging and Viterbi, the notebook, the
composition of detection and masking, and the proofs of the character budget, the backends,
the votes and that composition; last the proofs of tagging, Viterbi, the corpus scripts and
the notebook. What could come next:

1. The manifest in `Corpus`: what it counts against what the files hold, after a stop.
2. The two windows in which the tunnel misses a signal, as a violation, should the
   repository promise that every signal ends the program.

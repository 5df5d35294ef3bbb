# TLA+ models of EdenSummary

EdenSummary takes a meeting recording over HTTP, transcribes it (ASR), summarizes
the transcript with a language model, mails the summary and serves it. This
directory holds TLA+ modules translated from the code in `eden_summary/`, the TLC
configurations that check them, and theorems proved with TLAPS.

    tlc -config Redelivered.cfg MCJobPipeline      # a run (PROJECT.json lists them)
    tlapm JobPipelineProofs.tla                    # the proofs: each *Proofs.tla

Paths below are relative to `eden_summary/`. `PROJECT.json` maps every definition to
the lines it models.

## 1. Inventory

| Component | State | Operations | Talks to |
|---|---|---|---|
| Job store (`core/job_store.py`, `core/models.py`) | `jobs` rows: status, emails, artifact keys, three signal columns, `updated_at`; `job_field_edits` rows | `create_job`, `get_status`, `get_result`, `update_job`, `record_result_edits` | PostgreSQL, S3 |
| Object storage (`storage/storage.py`) | objects of a job, by artifact | upload, download | S3 |
| HTTP API (`api/api.py`) | none of its own | POST a job, GET status, GET and PATCH its result | job store, broker |
| Pipeline (`pipeline.py`) | the row it read, local variables | `process_job`: preprocess, transcribe, summarize, regenerate, guard, upload, persist, mail | all |
| Worker (`worker/worker.py`) | Celery message, its acknowledgement | `process_job` task, `_dispatch_post_terminal`, the evals, `calibrate_edit_scores` | broker, job store |
| Reaper (`worker/worker.py`) | one transaction | `reap_stale_jobs`, every 300 s by beat | job store |
| Broker (Redis, Celery) | copies of a message | deliver, requeue a dead worker's message, redeliver after the visibility timeout | worker |
| Summarization (`summarize/summarize.py`) | attempts, thread pool | single pass; map and reduce; repair | LLM |
| Transcription (`transcribe/`) | pieces of audio, chunks of text | split, transcribe, `chunk_segments` | ffmpeg, ASR |
| Regeneration (`quality/regen.py`), SummQ, judge | two versions, their grades | `repair_if_inconsistent` | LLM |
| Edit calibration (`quality/calibration.py`) | labels | fit P(edit) from reviews and scores | job store |
| Inline guards (`quality/inline_guards.py`, `quality/numbers.py`), answers of SummQ (`quality/summq.py`) | none | `run_inline_guards`, `spoken_to_digits`, `_answer_match` | pipeline, evals |
| Email, configuration, metrics, migrations | – | – | – |

What makes the system hard:

- *Concurrency without locks.* Rows are read in one transaction and written in a later
  one, by primary key, without looking at the status: API requests, two deliveries of
  one message, the eval tasks and the reaper all write like that.
- *At-least-once delivery.* The task is acknowledged late and rejected when its worker
  is lost; Redis redelivers what stays unacknowledged for its visibility timeout. What
  makes this safe is the guard on `QUEUED` (`pipeline.py:43`), tested long before the
  status first moves (`pipeline.py:65`).
- *Three timers that overlap*: the reaper's 30 minutes, the soft limit of 6 hours, the
  hard limit that kills a run without a trace in the row.
- *Partial failure*: a job is a row, six objects, a message and an email; any of them
  may be made and the next not.
- *Retries inside retries* in the summary's map and reduce; up to seven model calls in
  regeneration, each of which can raise.
- *Settings nothing validates*: chunk sizes, attempts, workers, thresholds.

What each component has to guarantee is in section 3, and the places where it could
go wrong are the `hazards` of `PROJECT.json`.

## 2. Modules

    JobLifecycle          what a client is promised about a status   (abstract)
       ^ implemented by (run quiet; its safety part: theorem StatusesMoveForward)
    JobStore  <-- JobPipeline  <-- QualityEvals
                     ^   ^               ^
         MCJobPipeline   |               |
           JobPipelineProofs  <-- QualityEvalsProofs (TLAPS)

    Chunking  <-- Transcription  <-- TranscriptionProofs (TLAPS: both)

    ReviewRegister        a job's edits as one atomic register       (abstract)
       ^ implemented by (run result_edits, theorem TableIsARegister)
    ResultEdits  <-- ResultEditsProofs (TLAPS), MCResultEdits

    Numbers  <-- InlineGuards, AnswerMatch  <-- Quality  <-- MCQuality
    Calibration                             <-- Quality  <-- QualityProofs (TLAPS)
         ^                                                        |
       CalibrationProofs (TLAPS)  <-------------------------------+

    Summarize  <-- SummarizeProofs (TLAPS)
    Regen  <-- RegenProofs (TLAPS)

- **JobStore**: rows and objects as functions of the job; `update_job` as an assignment
  of one column. The content of an object is the number of the delivery that produced
  it (0: the API), so two runs of one job write different texts. `stale` stands for
  "`updated_at` is older than `REAPER_STALE_SECONDS`": only insertion and the reaper
  set that column.
- **JobPipeline**: POST as three steps (row, source, message) with failure after each;
  the broker; one action per externally visible call of `pipeline.process_job`, for
  every delivery; dispatch of the evals; raising, the hard limit, loss of the worker;
  the reaper as select and commit. What lies between two such calls (ffmpeg, ASR, LLM)
  belongs to the step that publishes its outcome.
- **QualityEvals** adds `evaluate_summary` and `verify_summq`: read the row, load the
  transcript, load the summary, store the score.
- **JobLifecycle**: statuses only, moving forward, final when terminal, and settling.
- **Chunking**: `chunk_segments`; segments are positions in the text and a chunk is an
  interval of them. One step per turn of the loop.
- **Transcription**: `split_audio`, `transcribe` and the chunking of its result. A piece
  is its number. `Precedes` is the order of the names `chunk_%03d.wav` as strings, where
  `Capacity` (1000) and `Radix` (10) are constants, so that names of two lengths occur in
  a small instance. Of a segment and of the language it keeps the piece they come from.
  Once transcribed, the steps are those of Chunking.
- **Summarize**: `summarize_transcript` with `concurrent.futures`: tasks are taken in
  order by a bounded number of threads, results collected in order, the queue cancelled
  and the threads awaited when the result that is waited for is an exception. An answer
  that does not parse is one of the outcomes of every call. (`build_summary`'s docstring
  speaks of retrying the reduce call; the code repeats the map as well, and so does the
  model.)
- **Regen**: `repair_if_inconsistent` call by call. A grade is half points out of `2n`;
  SummQ gives one per question, the judge one per claim; `n = 0` is `evaluated=False`.
  The rest of the pipeline sees of it only which columns it fills: none or, for its
  policy, all (`RegenColumns` of JobPipeline). `PayloadGradesServed` is what justifies
  that abstraction.
- **ReviewRegister**: a reader of a job's edits finds none, or all of the review that was
  recorded last; recording is one instant. Nothing of rows and transactions.
- **ResultEdits**: PATCH as two transactions with a download between, the second one
  upsert by upsert with PostgreSQL's row locks (external, from how `INSERT ... ON
  CONFLICT` is used), and the calibration's two reads. A correction is the PATCH it came
  with. `Register` instantiates ReviewRegister: `current` is what the rows of the table
  say, `recorded` the PATCHes that have committed.
- **Calibration**: `fit_calibration` and `predict`. Scores are the multiples of
  `1/Grain`, labels are counted by score, probabilities are exact fractions. Of the
  logistic fit there remains the sign of its slope, which is what its predictions order
  by.
- **Numbers**, **InlineGuards**, **AnswerMatch**: texts are sequences of tokens: number
  words with their value, numbers in digits with their notation (1000, 1,000, 12,50, 12.50
  or 12:50), other words. The recursive functions consume them as the code does; what they
  compute is compared with a reading of the text that knows nothing of the order of
  rewriting (`IsSaid`, `Figures`, `Decimals`, `Words`). `_norm` is modelled by what it does
  to each notation, `_numbers` and `_tokens` by where their regular expressions split one
  (`Sides`).
- **Quality** calls these functions with any input made of given labels, tokens and figures;
  **MCQuality** names the ones of the run.

Definitions under "Faulty variants" are plausible bugs. No specification uses them;
`PROJECT.json` ("mutants") says which definition each replaces and which property then
fails.

## 3. Runs

| Run | Configuration | Distinct states | Checks |
|---|---|---|---|
| `redelivered` | one job, two deliveries, redelivery, overrun, regeneration of one column, its eval (2 min) | 1,080,282 | the guarantees of DONE, that no eval is forgotten, and that the reaper alone settles a job |
| `evals` | one job, two deliveries, requeue only after a loss, overrun, regeneration of one column, both evals | 156,872 | one run's output is stored, mailed, served, graded; its copy of the row stays true; only the reaper puts statuses out of order |
| `quiet` | one job, three deliveries, no overrun | 9,196 | the whole system implements JobLifecycle |
| `transcription` | up to 4 pieces, names of two lengths, 2 segments each; up to 5 segments of 1–2 characters, 16 pairs of settings | 929,856 | playback order; cover, advance, overlap, limit of the chunks |
| `summarize` | up to 4 chunks, 0–3 workers, 0–2 attempts | 59,922 | completeness of the reduce, no orphan threads, cost, termination |
| `regen` | up to 2 questions, 3 claims, 3 thresholds, both policies | 124,702 | keep-if-better |
| `result_edits` | 3 PATCHes of every content, 2 fields, symmetry | 389,620 | implements ReviewRegister; the last review stays; no deadlock; labels of one review |
| `quality` | 5 scores with up to 2 labels of each class; transcripts and answers of up to 3 tokens, decimals and times among them (2 min) | 2,738,996 | the isotonic fit, monotone prediction, flagged figures, verdicts on answers |

Properties worth reading first:

- `DoneIsStored`, `DoneWasMailed`: hold even with duplicate deliveries and a reaper that
  overwrites statuses. They are about the objects and the mail; the keys in the row may be
  lost to a second run (`done_unreadable` below).
- `CachedRowHolds`: a run saves the keys of the copy of the row that it read while the job
  was queued, with its own added. As long as no second run is delivered beside a live one
  the copy stays true, so no key is lost and no signal of a lost run stays behind.
- `EvalsNotForgotten`: a regenerated column is not sent to an eval, since its scores are
  there already. Whatever another delivery or the reaper does in between, an eval that a
  returned run did not send has its score or was sent by somebody.
- `Settles`: a `QUEUED` job ends in a terminal status for good, assuming nothing of API,
  broker and workers.
- `ServedIsMailed`, `SignalsGradeServed`, `JudgedOnOwnTranscript`, `GradedAfterMail`,
  `SingleSourceOfTruth`: relate what is served, mailed and graded across runs. They
  need the absence of redelivery while a run is alive; with it the guard is too weak,
  which the runs `mailed_twice` and `done_unreadable` show. Of two live runs each stores
  its own scores, so that `SingleSourceOfTruth` says nothing of them.
- `PlaybackOrder`: sorting names is sorting numbers while the names have one length.
- `NothingLost`, `EachChunkAdvances`: for every pair of settings, an overlap larger than
  the limit included.
- `ReduceSeesItsRound`, `NothingRunsAfterwards`, `CallsBounded`: with `A` attempts and
  `n` chunks a summary costs at most `A * (n*A + 1)` calls.
- `NoMetricRegresses`, `AdoptedOnEvidence`: a repair that cannot be evaluated counts as 0
  and is never adopted for that. `BriefIsNotEmpty` needs a threshold that a score can
  reach, and the run has one that none can.
- `ReaperAloneDisturbs`: how far the promise of JobLifecycle still holds when a run may
  outlive the reaper's threshold, as with the default settings, and is not delivered twice.
- `FitIsBest`: pooling backwards gives the fit that the min-max definition of isotonic
  regression asks for. `PredictNonIncreasing` also looks between and outside the knots.
- `FlagsAreOfTheUnsaid`: relates the guard's flags to what was said, in whatever notation,
  in both directions.
- `VerdictFollowsMeaning`: a match of `_answer_match` has no figure that the transcript's
  answer lacks, up to the figures that a decimal comma or a time passes for (`Blurred`:
  1250 for 12,50, 10 and 30 for 10:30), and an answer that is an extract of the
  transcript's matches, whether whole numbers are spoken, plain or grouped. `Blurred` is
  what the docstring of `_answer_match` leaves out, see below.
- `ReviewsAreAtomic`, `LastEditWins`, `WaitingHoldsNothing`: the fixed order of
  `_EDIT_FIELDS` is what keeps two PATCHes from mixing their rows or waiting for each
  other. "Last" is by real time: of two reviews that overlap, the one that commits last
  stays, and its `created_at` may be the earlier one.

### What disagrees with the documentation

Four runs are expected to fail; each checks one sentence of the code's own text.

| Run | Property | The text | The code |
|---|---|---|---|
| `terminal_not_final` | `TerminalIsFinal` | "DONE/FAILED/EMAIL_FAILED are terminal" | the reaper fails a slow but live run, which then moves FAILED back to an active status |
| `mailed_twice` | `MailedAtMostOnce` | "safe under Celery redelivery" | two deliveries pass the guard while the first preprocesses |
| `done_unreadable` | `DoneIsReadable` | the same sentence, and "Available only when status is `done`" of GET /result | the second of two runs resets the keys that the first has saved; the first then writes `done`, and the result cannot be fetched |
| `upload_failure_raises` | `UploadFailureIsTerminal` | "any failure drives the job to a terminal ... state instead of raising" | the uploads of the results are in no `try` |

Others need no run: they are visible at a glance, or the property that a run checks
says where the sentence stops being true.

- "<=chunk_max_chars chunks" (`transcribe/transcribe_audio.py:81`): the length is tested
  after the segment was added (`:94`). `OverLimitByOneSegment` says by how much a chunk
  may be longer.
- "Non-increasing in `score` by construction" (`quality/calibration.py:36`): the logistic
  fit rises when the edited fields are those with higher scores, and when fewer than half
  were edited of labels that all have one score. `PredictNonIncreasing` names both.
- "only valid compounds" are summed (`quality/numbers.py:131`): zero is among the units,
  so "двадцать ноль" is read as 20. The definition of a number phrase (`Phrase`) that
  `FlagsAreOfTheUnsaid` and `VerdictFollowsMeaning` use counts it as one, too.
- "a fabricated figure ... is always inconsistent" (`quality/summq.py:131-132`), and "drop
  grouping commas so '1,000' and '1000' ... compare equal" (`:112-113`): `_norm` drops every
  comma (`:114`). So 12,50 in the summary's answer matches 1250 in the transcript's, a
  hundred times as much, and does not match 12.50. And 10:30 is two numbers to
  `_DIGITS_RE` (`:100`), each of which may come from somewhere else in the transcript's
  answer. `VerdictFollowsMeaning` names just these figures (`Blurred`); the run `quality`
  has answers with each of them, and there 2,5 matches 25.
- "To view the summary, go to /{job_id}/result" (`pipeline.py:149`), the error text of a job
  whose email failed: GET answers 409 unless the job is `done` (`core/job_store.py:96`,
  `GetResult`).
- "playback order" (`transcribe/audio.py`, `split_audio`): from the thousandth piece on the
  names are sorted as strings. `PlaybackOrder` is stated up to `Capacity`.

### Bounds

- *One job.* Jobs share nothing but the reaper's transaction, which treats each of its
  jobs alike (`terminal_not_final` and `done_unreadable` have two; the proofs, any set).
- *Two deliveries* make every overlap of two runs, of a run and the requeued message of
  its predecessor, and of a run and the other's leavings; `quiet` has three, since there
  each loss uses one up. `MaxDeliveries` bounds how often a message comes again; a worker
  is lost only while a delivery is left, so the bound never loses a message.
- *Segments, chunks, questions, claims*: two or three of each are enough for every branch
  and for each pair of neighbours; the rest multiplies what is there already.
- *Four pieces with `Capacity` 3 and `Radix` 3*: the fourth has a longer name and is taken
  between two others. Names at most one digit too long (`MaxPieces <= Capacity * Radix`,
  10,000 pieces in the code).
- *Five scores, two labels of each class*: blocks are pooled over several knots and again
  after that, and scores without labels lie between, below and above. `RegimeThreshold`
  is 4, so that both regimes occur. Floating-point rounding is not modelled.
- *Three tokens*: each pair of neighbouring number words, hundreds followed by tens
  followed by a unit, and each notation beside them. In an answer: two words, number words
  that make 25, the figure 25 that 2,5 passes for, 2.5 and a time.
- *Two fields of four*: enough for an order to matter. *Three PATCHes*: two that overlap
  and one before or after them.
- `CallCap` bounds the counter of calls, one above what `CallsBounded` allows.

### Fairness

- `ReaperFairness`: time passes (`Age`), and beat sends the reaper every 300 s to a
  worker whose container restarts unless it is stopped (`docker-compose.yml`). That the
  database answers the reaper eventually is part of it; a reaper whose transaction
  fails has no effect and is not an action.
- `WorkFairness`, in `quiet` only: a POST ends, a waiting message is taken, and a run
  takes its next step or meets the hard time limit, which Celery enforces from outside.
  Nothing is assumed of losses and exceptions: they may happen or not.
- `Summarize`: weak fairness of its steps, since each call has a timeout and a bounded
  number of provider retries.
- The *quiet* regime (`Overrun = FALSE`, `Redelivery = FALSE`) is what a deployment gets
  from a `REAPER_STALE_SECONDS` above queueing time + `JOB_SOFT_TIMEOUT` +
  `JOB_TIMEOUT_GRACE`, and a broker whose visibility timeout exceeds the latter two. The
  defaults are not like that.

## 4. Proofs

**JobPipelineProofs** — for every set of jobs, bound on deliveries and configuration:
`TypeCorrect`, `MessagesHaveSource`, `DoneJobsAreStored`, `DoneJobsWereMailed`,
`EvalsAreNotForgotten`. `QueuedRowsAreFresh`, that a queued row has its source key and
nothing else, is a step on the way: it says with what a run begins, and nothing of what
becomes of the row while the run goes on. Assumptions: the ones named in JobStore and
JobPipeline (jobs exist, the bound is positive, the flags are flags).

None of the guarantees is inductive: that a DONE job is stored has to be known of
every run from the stage on at which it made the object. The invariant `Inv` therefore
says of each run what it has achieved when it stands before a given call, and of the row
what the runs that have begun imply. Two facts make it inductive under interference: what
other actors do to a job only grows (objects are replaced and never removed, the set of
mailed runs grows), so what a run achieved stays achieved; and nobody writes `queued`
again once a run has left it, so a queued row is the one that was inserted. The proof
that steps preserve `Inv` first shows that each step grows (`StepGrows`) and leaves other
jobs alone (`OthersSame`), and then looks only at the run that moved.

`EvalsAreNotForgotten` has an invariant of its own on top: what a run that dispatches or
has returned no longer intends to send has a score or was sent. A score is never removed
and a message once sent stays sent, so each step keeps what is accounted for.

The second part of the module has the theorems that need one of two hypotheses on the
constants, each the negation of a fault that a run shows to matter. They are stated as
`~Redelivery => (Spec => ...)`, for every value of the other constants.

- *`~Redelivery`* (the visibility timeout exceeds what a run may take; messages of lost
  workers do come again): `RunsAreAlone`, `OneMailPerJob`,
  `ServedOutputWasMailed`. `TokenInv` is the reason for all of them: a job has one
  message or one run, never both, and the run is that of the last delivery. A lost run
  gives its token back, a delivery takes it, and no other step makes one. Then
  `OutputInv` can say, stage by stage, that the run has stored its summary, transcript
  and structured summary, saved their keys and mailed, and that nobody mailed before: no
  other run is there to replace an object in between. `MarkDone` turns this into
  `DoneInv`, and since a run that finds the job no longer queued starts nothing,
  published output stays. The part of `OutputInv` about the keys (`KeysInv`) says which keys
are in the row at each stage: those of the run's own copy. The mail is sent once because a run reaches that stage once,
  and a queued job, the only kind a run begins with, has mailed nobody (`MailInv`).
  `OnlyTheReaperDisturbs` is about statuses under the same hypothesis, `Overrun` allowed:
  each change of a status is the next one of the lifecycle, or the reaper failing a job it
  selected, or a run going on with a job that the reaper has failed. `DriftInv` suffices
  for it: a run that stands before a call finds in the row the status it wrote itself, or
  "failed". `StatusFollows` derives from that what any step of the run writes next.
- *`~Redelivery /\ ~Overrun`* (the quiet regime of section 3): `StatusesMoveForward`, the
  refinement of the safety part of JobLifecycle, and `TerminalStatusIsFinal`. `QuietInv`
  says that while a run is in the pipeline the status is the one that goes with its stage
  (`StatusAt`), and that a stale or selected job is settled: no message, no run, no
  request. So each write of a run moves the status on along `Successor` or gives the job
  up, and the reaper's blind UPDATE meets only jobs in the status it selected them for.
  Both are needed: `mailed_twice` drops the first, `terminal_not_final` the second.

**QualityEvalsProofs** — under `~Redelivery`, with the eval tasks beside the rest:
`CachedRowsHold`, `ScoresAreOfServed`, `JudgesReadOneRun`, `ScoresComeAfterMail`, the action property
`RegenerationHasTheLastWord`, and `TasksDisturbNoJob`, which carries the theorems above
over to this specification. The notion that makes them provable is `Finished`: accepted, past
`queued`, no run in the pipeline. It is stable, and no step of the
pipeline, the broker or the reaper changes a finished job's objects, mail or signals
(`FinishedStays`). Whoever sends an
eval's message is the job's only run and has left the pipeline (`SenderIsFinished`), so
every message, task and score belongs to a finished job; a message is sent only for a
column that regeneration did not fill, and stays so (`DelayInv`, `MessageInv`); a task
that starts finds the job DONE, hence published, and what it downloads later is still the
same run's (`TaskInv`). Before that, signals are empty until the run persists, and then
they are of the summary it stored (`UnsavedInv`, `GradeInv`). `CachedRowsHold` combines
that with `KeysInv`.

**SummarizeProofs** — for every number of chunks, threads (none included) and attempts:
`PhasesAreTyped`, `ReduceIsOfOneRound`, `NoThreadIsLeft`, `RetriesAreBounded`. `PoolInv`
gives the states of the tasks for each state of the caller; that those below `next` are
parsed in this round makes the reduce complete. For the cost, the sum over the chunks of
the attempts used is the cardinality of a set of pairs (`Spent`), a subset of chunks
times attempts; each call of a task adds one pair, and the call of a reduce that is tried
again pays for emptying the set (`CallInv`). The cap on the counter plays no part: the
proof uses only that a call adds at most one.

**RegenProofs** — for every number of questions and claims and all thresholds:
`GradesAreTyped`, `MetricsAreOfServed`, `AdoptionLowersNothing`, `AdoptionHasEvidence`,
`RepairHasIssues`. The invariant adds that from the trigger on the grades of the original
are those that triggered (`RepairInv`), that version 2 is served only if it was better
(`ServedInv`), and that SummQ flags just the questions without points (`QuizInv`).
Triggering means that every metric of the original was evaluated; this is why an
unevaluated repair, which `_is_better` takes for a score of 0, is never an improvement.

**TranscriptionProofs** — for transcripts of every length and settings of every value, the
theorems of Chunking: `TypeCorrect`, `NothingIsLost`, `ChunksAdvance`, `OverlapIsCarried`,
`LimitIsPassedOnce`. The invariant adds that segment ends increase, that the chunks made so
far cover the text up to `Flushed`, and that `current` is the seed of the last chunk
followed by the segments read since, below the limit as soon as there is one.
`new_since_flush` is exactly `Flushed < read`, which is why the last chunk is neither
dropped nor made twice. Then those of Transcription, for any number of pieces within the
bound on names, and any capacity: `PlaybackIsKept`, from the invariant that the pieces
taken are an initial segment and the transcript is of them alone; `ChunkingIsComposed`:
every behaviour is one of Chunking; and with it `RecordingIsCovered`, which states the
guarantees of chunking for a recording.

**ResultEditsProofs** — for any number of requests and of judged fields (at least one of
each): `TypeCorrect`, `TableIsARegister`, `LastEditStays`, `NoDeadlock`,
`LabelsAreConsistent`. `TableIsARegister` is the refinement: a commit is `Record`, and
every other step leaves unchanged what a reader finds. It rests on two parts of the
invariant: the rows of a committed state are all of one review (`WholeReview`), and each
row is the one its PATCH writes (`RowsAgree`). The invariant adds that the rows written
in open transactions exclude one another and are, for each transaction, an initial
segment of `_EDIT_FIELDS`; a transaction that already held a row and waited for another
would find its holder also holding the first row. That an answered review does not come
back needs `OlderAnswered`: the reviews in `older` have ended, and only a request that
has not can commit.

**CalibrationProofs** — for any number of scores and of labels, about the recursive functions
of Calibration. `PoolingIsIsotonic`: `_isotonic` computes the fit that the min-max
definition asks for. The proof draws the labels as a diagram, edited labels over labels, both
summed up to each score: the value of a block is the slope between two points of it. The
invariant of the loop (`IsStack`) is that the blocks are the sides of a polygon with rising
slopes below which no point lies, so `PushKeepsStack` shows what one more score and the
merging that follows do to the corners. From such a polygon the min-max formula can be read
off. `PredictionsDoNotRise` follows score by score: interpolation between knots that do not
fall does not fall either (`InterpRises`), and Platt's slope has the sign of a covariance
(`SlopeIsCovariance`), which is what the exception for rising edits says. Both theorems need
induction over data. The library states it with an operator as parameter; here it is
obtained from `WFMin`, which takes a set: the numbers for which a statement holds. That a
recursive function has the values its definition gives is proved the same way
(`CumulativeIsDefined`, `PoppedSteps`), from the existence of a function on each initial
segment.

**QualityProofs** — for transcripts and answers of any length: `GuardFlagsTheUnsaid` and
`VerdictIsOfMeaning` about the functions themselves. A turn of the scan takes a maximal
number phrase and nothing of its neighbours (`GroupIsPhrase`, `PhraseIsJoined`), so by
induction from the end of the text the scan hears just the figures and words that are in it
(`ScanHearsAll`). For the guard this gives both directions; for the verdict, that `Norm`
keeps just the words, figures and decimals that are in an answer (`NormIsSaid`), that the
numbers compared are the whole figures with what passes for one, and beside them the
decimals that keep their form (`NumbersAreCompared`), and that neither hides the other
(`ComparedIsExact`). `FitIsIsotonic`,
`PredictionsFallWithScore`, `FlaggedFiguresAreUnsaid` and `VerdictsFollowMeaning` state the
four invariants of the run `quality` for every value of its constants, from the invariant
that a result is that of its call (`ResultIsOfCall`). Assumed of the constants: labels are
counted by naturals, and tokens are tokens.

Only model-checked: liveness (`Settles`, `Ends`, and of `LifecycleSpec` the part about
settling), which is beyond TLAPS. Every invariant and every action property of a passing run
has its theorem. The four runs of section 3 that find a disagreement have none, for their
properties are false; `OneMailPerJob`, `ServedOutputWasMailed` and `TerminalStatusIsFinal`
say under which hypotheses three of them become true.

## 5. Not modelled

- Text: prompts (those of the judge included), rendering, JSON parsing beyond "parses or
  not", the regular expressions that find tokens in characters. Each enters as the set of
  its outcomes.
- Words with digits in them (80M, Q3), and numbers with a 0 in front of another digit behind
  the separator (10:05). Texts are Russian or of no known language in the run; the English
  rules are the Russian ones without the hundreds.
- Numerical values of the logistic fit (Platt's targets, Newton steps) and rounding.
- Error and warning texts of a row, metrics, logging, request validation and API keys,
  migrations, loading of the configuration.
- ffmpeg, the ASR and LLM providers, SMTP, S3, PostgreSQL, Redis, Celery: external, only
  as the code uses them. A `delay()` that publishes and then raises, and two reapers at
  once, are left out: the first is a request that failed with its message sent, the
  second writes what one reaper writes.
- The slots of the worker pool: a waiting message is a job that waits, however long.
- The broker's loss of a message: the job then stays queued, as after `RequestFails`.

## 6. Plan

Done: JobLifecycle, JobStore, JobPipeline, QualityEvals; Chunking, Transcription;
ResultEdits with ReviewRegister; Summarize, Regen; Calibration, Numbers, InlineGuards,
AnswerMatch, Quality; the proofs of section 4.

Left, should the code change there: the rounding of the fit, once a threshold compares
predictions for equality; and the slots of the worker pool, once evals and pipelines share
them with a priority.

# Verification of the review pipeline

TLA+ models of the AI code-review pipeline in `src/`, checked with TLC on small
instances and, for the properties that matter most, proved with TLAPS for every
value of the constants.

The pipeline takes a pushed commit, reviews its files with deterministic checkers
and language-model agents, and reports a verdict on the pull request. Its hard part
is mostly around the checkers: webhooks that come twice, workers
that die, Redis and GitHub calls that fail halfway, a provider that goes down or
starts to answer nonsense - and the rule that none of this may ever look like a
clean pass.

## The system

| Component | State it keeps | Operations | Interacts with |
|---|---|---|---|
| Webhook receivers, `api/webhook.py` | none | one Celery task per file of a delivery | broker |
| Review task, `worker/tasks.py`, `worker/celery_app.py` | the step a worker is at; messages in the broker | `_execute_review()`, retries, `on_failure()` | everything below |
| Claim, `storage/idempotency_store.py` | one Redis key per (repo, commit) | `try_mark_processed()`, `release()`, TTL | workers |
| Dead letters, `storage/dlq_store.py` | a Redis list | `push()` | workers |
| Orchestrator, `core/orchestrator.py` | none | `review_code()`: parse, checkers, agents; syntax errors and their fixes | agents, checkers; its fixes come back as the next commit |
| Agents and trust layer, `agents/`, `core/grounding.py`, `core/prompt_sanitizer.py` | none | `run_finding_agent()`, `run_all_agents()`, `is_trustworthy()`, `sanitize_for_prompt()` | LLM client, breaker |
| LLM client, `agents/llm_client.py`, `core/backoff.py`, `cache/llm_cache.py` | answers on disk, shared by all processes | `call_llm()` | provider, breaker |
| Circuit breaker, `core/circuit_breaker.py` | state, window of outcomes, time of opening; one per process | `allow_request()`, `record_success()`, `record_failure()` | LLM client, agents |
| PR gate, `core/pr_gate.py`, `core/models.py` | none | `decide()` | publisher, task, CLI |
| Publisher, `integrations/publisher.py`, `integrations/github_client.py`, `storage/comment_store.py` | comment id in Redis; comments and check runs on GitHub | `publish_review()` | GitHub, Redis |
| Notifier, history, audit trail | rows, alerts | `notify()`, `save_review()`, `record()` | task |
| Pull-request reviewer, `cli/review_pr.py` | files and results of one run | `review_pr()`, `apply_fixes_to_file()`, inline comments | GitHub, orchestrator, publisher |
| GitHub App tokens, `integrations/github_app_auth.py` | one cached token per process | `generate_jwt()`, `get_installation_token()` | every GitHub request |
| Repository index, `cli/index_repo.py`, `ingestion/`, `embeddings/`, `cache/embedding_cache.py`, `vectordb/`, `rag/` | chunks with vectors; cached vectors on disk | `index_directory()`, `retrieve_context()` | prompts take context from it |
| Deterministic checkers, `analyzers/`, `core/grounding.py` | none | `run_deterministic_checkers()`: findings and the fixes they offer | orchestrator; their fixes come back as the next commit |
| Canary, risk score, enrichment, dashboard, fix actions | see `PROJECT.json` | | |

What is hard, and what makes each part correct:

- *Task and claim.* Interleavings of workers, deliveries and redeliveries; crashes;
  Redis answers that are lost. Correct when no two workers are in the claimed part
  for one commit, when a commit is reported once per claim, when a push always ends
  in a review or a dead letter, and when a retry is not blocked by its own claim.
- *Breaker and agents.* Each call is judged twice, by its transport and by its
  parse, and cached answers are judged as well. Correct when a failing or drifting
  provider trips the breaker in time, when the trial of a half-open breaker is the
  call that decides about it, when the breaker recovers, and when nothing that has
  not been heard is approved.
- *Publisher.* Two stores, no transaction, requests that are repeated, two programs
  that do not know of each other. Correct when duplicates have a cause, when comment and
  check run say the same thing, and when no verdict is given where nobody can read its
  reasons any more.
- *Checkers and fixes.* A fix is made from the syntax tree of one version of a file,
  put into it as text, alone or with others, and the result is reviewed again.
  Correct when the file still parses, when a call ends as before or with the
  exception that the fix announces, when a "guaranteed" failure is one, and when a
  checker recognises the guard it has asked for.
- *Syntax errors.* The fix for one error is found by moving lines until the file
  compiles, which many wrong moves achieve as well; the findings behind a missing
  colon are made for a file that has it already. Correct when a lost colon and a lost
  body come back exactly, when nothing from outside is drawn into a body, and when an
  applied fix takes away its own finding and no other.
- *Findings of a model.* The model sees a sanitized file, quotes it, and may say
  anything; four agents share one list. Correct when the first agent that may
  report a category prevails and no other takes anything away, and when an honest quote
  is not dropped.
- *Tokens.* Two clocks, requests that take time and are repeated. Correct when GitHub
  takes every credential at the moment it arrives, and when tokens are reused.
- *Index.* Delete, embed and insert without a transaction, while files and settings
  change. Correct when the store has one version of a file or nothing, when a run
  repairs what failed ones have left, and when no line is lost.
- *Pull-request reviewer.* Several pushes to a branch, line numbers of earlier
  commits. Correct when what is posted describes the commit it is posted on,
  and when each finding is pointed at where it is, once.

The complete list of components, the modelled and the others with the reason, is
in `PROJECT.json` under "components", and the hazards with their lines under "hazards".

## Modules

| Module | What it models |
|---|---|
| `Gate` | `decide()`, the check-run conclusion and `should_notify()` on a result's status and critical findings |
| `ReviewTask` | webhook, broker, workers in `_execute_review()`, claim, retries, dead letters |
| `ClaimLifecycle` | abstract: what the claim promises about one commit. `ReviewTask` implements it |
| `CircuitBreaker` | the breaker's operations as operators on a record |
| `ReviewCode` | `review_code()`, the agents, `call_llm()`, cache and breaker, in several processes |
| `Publisher` | `publish_review()` call by call, by processes that know nothing of each other |
| `ReviewPr` | `review_pr()` with `--post`, run again and again on a branch that developers push to |
| `ApplyFixes` | `apply_fixes_to_file()` on sequences of lines, and what it is meant to do |
| `PyFile` | the Python that the checkers read and rewrite: which lines parse, how a call of the function ends (external) |
| `Checkers` | the checkers that offer fixes for failing accesses and unsafe calls, and `is_valid_fix()` |
| `AutoFix` | a file that is reviewed and fixed again and again; composes `Checkers` and `ApplyFixes` |
| `SyntaxFixes` | `_collect_syntax_error_findings()` and its four fixes on the lines of a file, and what `compile()` says of it (external) |
| `Repair` | a file that its author breaks and whose syntax errors are fixed; composes `SyntaxFixes` and `ApplyFixes` |
| `Findings` | sanitizer, answers, `_to_findings()`, `is_trustworthy()`, `_dedupe()` and the status of a review |
| `InstallationToken` | the tokens of a GitHub App, under two clocks and repeated requests |
| `Chunker` | `chunk_file()` |
| `RepoIndex` | runs of `index_directory()` with cache and store, edits, changed settings, failures; `retrieve_context()` |
| `MCReviewTask`, `MCReviewCode`, `MCPublisher`, `MCReviewPr`, `MCAutoFix`, `MCRepair`, `MCFindings`, `MCInstallationToken`, `MCRepoIndex` | instances for TLC |
| `ReviewTask_proofs`, `ReviewCode_proofs`, `ApplyFixes_proofs`, `Fixes_proofs` (of `SyntaxFixes`, `Repair` and `AutoFix`), `ReviewPr_proofs`, `Integrations_proofs` (of `Publisher` and `InstallationToken`), `RepoIndex_proofs`, `Findings_proofs` | theorems and proofs |

### ReviewTask

A worker's `pc` names the call of `_execute_review()` it is about to make: `claim`
(line 69), `review` (78), `release` (82), `publish` (100), `notify` (102), `save`
(105), `audit` (110). `raised` is the exception in Celery's hands, `ack` the end of
the attempt. Each call is an action, with a second action where it may raise; a
remote call may have been carried out although it raises. `claim[c]` is the Redis
key of a commit. The code stores "1"; the model stores the task that set it, which
nothing but the properties reads. The broker is modelled from `task_acks_late`: a
message leaves it when the attempt is over; it comes back when the whole worker dies or
holds it past the broker's visibility timeout. When only the child process dies that runs
the task, Celery acknowledges its message, since `task_reject_on_worker_lost` is not set
(`Crash` leaves both open). Retries are new messages with a higher count; the
broker may fail when one is queued (`RetryLost`). `on_failure()` runs when the count is at
`max_retries`.

A fault is any of the kinds in `FaultKinds`, at most `MaxFaults` of them in a
behaviour. `Lapse` is the TTL of seven days; it is assumed to run out only while nobody
works on the commit, which nothing in the code enforces.
`publish_review()` is one step here; `checkRuns` and `alerts` count calls of
`create_check_run()` and `notify()`, not the HTTP requests these repeat (see
`Publisher`).

### CircuitBreaker and ReviewCode

The breaker's window is a sequence of outcomes, and the time it opened is the part
of the cooldown that is left, in ticks. A process goes through `lookup` (the cache),
`allow` (the breaker), `call`, `store` and `parse` for each agent. An answer is
`clean`, `critical`, `garbage` or `infinite`, by what is left of it after parsing,
grounding and de-duplication (see `Findings`); `infinite` has a line number such as
`1e999`, at which `int()` raises an exception that nobody catches, so that the review
ends without a result (`ParseRaises`). `garbage` is what `json.loads()` refuses with a
`JSONDecodeError`. A blank file is not sent to the model. `critical` and `ok` are the findings and `all_succeeded` so far.
`heard`, `trial` and `bad` are history variables, which no guard reads: what came of
each agent, whether the current call is a half-open breaker's trial, and how many
useless calls there have been in a row. The cache can be read while another process
writes it, and then counts as a miss.

### Publisher

Four requests: look up the comment id, update or post the comment, store the id,
create the check run. A GitHub request that gets no answer is repeated up to
`MaxAttempts` times, whether or not GitHub has carried it out; one that is refused
raises at once. A comment is the decision it shows; its id is its position.
People may delete a comment at any time (`Delete`): its id is then in `deleted`, Redis is
not told, and an update of it is refused with a 404 (`UpdateGone`).
`overlap` and `settled` are history variables. A request is carried out while its
caller waits for it or not at all: one that GitHub carries out after the caller has
given up is not modelled.

### ReviewPr and ApplyFixes

A branch is the list of its commits, each of which maps the Python files of the pull
request to their contents; a `sha` is a position in that list. `pc` follows
`review_pr()`: `list` (line 132), `review` (143), `fix` (156), `rereview` (189),
`publish` (223), `suggest` and `suggesting` (`post_fix_suggestions()`), `commenting`
(`post_no_fix_comments()`). A developer's push may come between any two of its
steps. `reviews` is `file_data` and `results` together. A run that raises loses its
variables; what is on GitHub stays. `pushes` and `reports` are history variables.

A content is the sequence of a file's lines and `ReviewOf` gives the results that
`review_code()` may return for it: deterministic in its checkers, not in its model.
GitHub is external. A contents update is accepted if the file still has the blob it
was read with, which is to say the same content; right after a push the pull
request's metadata may still be the old ones; a comment is listed without a line
once its file has changed (GitHub keeps the line if the change is elsewhere in the
file). `publish_review()` is one step: `HTTPError` is caught, anything else is not.
The two passes that comment keep in `pending` the places `<<review, finding>>` that they
still have to get to; the next one is the foremost of them. A comment is recorded with
the finding it was posted for, the commit it was posted on and the run that posted it, so
that one finding's comment is not taken for another's.

`ApplyFixes` has the algorithm and, in `Intended`, what it is for, line by line, without
groups or order. `Ordered` is Python's stable sort: each fixable finding comes at the
place (`Place`) that the number of earlier ones gives it. `GroupEnd` is the loop that
opens and extends groups, as a function of the findings seen so far; a finding is the
`Single` one of its group if neither it nor the next one joins a group. `Patch` replaces
from the bottom up. `PushesApplyFixes` says of every push that the algorithm has done
what is intended. Lines are those of `splitlines()`, joined by newlines: that the code turns
other line ends of a file (CRLF, form feeds) into newlines is left out.

### PyFile, Checkers and AutoFix

A file is one function: a sequence of lines, each with its indentation, its form
(`if`, `with`, `try`, `except`, a simple statement, or the first or last line of one
that is too long) and the one thing it does. Every variable holds a number - a value,
a length, or whether a key, an object or a path is there - so that all accesses are
alike: `index`, `div`, `divlen`, `key`, `attr`, `open` and `int` fail when the variable
has no more than `n`, with the exception in `Raises`. Tests compare in the same way.
`Parses` is what `ast.parse()` says of indentation, blocks, `try` and broken lines;
`Run` executes the function, exceptions and handlers included.

`Checkers` is one operator per checker, from the accesses it looks at and the guards
it recognises anywhere in the function to the lines its fix puts in place of which;
`IsValidFix` drops a fix that does not parse by itself, and with it the finding. The
four checkers that reprint a statement (`_build_fix_line()`) differ only in the call
they look for. A name that is bound to a module, direct literals such as `x / 0`, and
several keys of one dict are abstracted: the first does not fail, the second is a
name that is assigned once, the third is one key.

`AutoFix` starts from a file as it was written. `AutoApply` is `review-pr
--auto-apply`: all findings through `apply_fixes_to_file()`; `AcceptSuggestion` is a
person who takes one. Both are reviewed as the next commit. The operators have been
compared with the code: on 6,620 files of one to three statements, out of a larger pool
of statements, findings, patched files and the outcomes of two calls are those of the
Python functions.

### SyntaxFixes and Repair

A line has an indent in levels, a form (`def`, `if`, `return`, another statement,
blank), a colon or none, and perhaps a comment behind it, which keeps the missing-colon
fix from trying. `Compile` gives CPython's first error: an indent that does not fit, a
header without a body, a missing colon, or a `return` outside a function, in the order
in which tokenizer, parser and compiler report them. The file's last line is not blank.
The fixes are operators from the lines and the error to the fix they offer; each trial
compile of the code is a use of `Compiles`. `CollectSyntaxErrorFindings` is the loop,
with its 25 rounds. On all 13,346 files of the run's kind, broken in up to two ways,
the findings are those of the Python function. Strings, brackets and continuation lines,
`else` and `except`, tabs and uneven indents are not there.

`Repair` starts from a file that compiles. Its author drops colons and moves stretches
of lines by a level; `AutoRepair` is `review-pr --auto-apply` and `AcceptRepair` a person who
accepts one suggestion, as in `AutoFix`.

### Findings

A line is a sequence of words. In the prompt some are neutralized (`Injections`), and code
fences become quotes (`Fences`). Two agents cap the severity of what they report (`Caps`).
The agents' categories may overlap: in the code as it is they do not, but
`coordinator.py:71-74` and `tests/test_coordinator.py:159-187` are about agents that do.
The model answers with anything in `Answers(prompt)`: a list of raw findings, an object without
one, a list, a text. `ToFinding` keeps a finding's place in the answer, so that
`<<agent, place>>` identifies it; grounding compares words, which is what the code's
`split()` and `join()` amount to, except that a quote can also end in the middle of a
word there. `raw` is a history variable.

### InstallationToken

`now` is GitHub's time and `clock` that of the process, anywhere within `MaxSkew` of it
from one tick to the next. A request is in `headers` while it chooses a token, in
`exchange` while it asks for one, and in `send` on its way to its own destination; it
is under way for at most `Delay`. `Repeat` is another attempt of `call_with_backoff()`,
which makes its headers anew.

### Chunker and RepoIndex

A content is [parses, lines]. What the first level of the syntax tree says of a file is
in the lines: `def` begins a function or class, `body` goes on with it, `code` is
anything else. A run of the indexer is a record with its phase and what it has to do;
its loop is `ReadFile`, `DeleteFile`, `EmbedText` for each chunk, `Upsert`. `Fail` may
end it anywhere. `tainted` and `fresh` are history variables: files whose last deletion
was swallowed, and files that still are as this run has read them. A vector is the pair
of model and text; a query is a position in a ranking of the store. `Elsewhere`, the results of
other files in their order, selects the j-th by counting those up to it. The chunks of 3,824
files are those of the Python function.

## What the runs show

| Run | Instance | Shows |
|---|---|---|
| `ReviewTask_safety` | one commit, delivered twice, two workers, one retry, three faults of any kind | `TypeOK`, `ClaimExclusive`, `ReportedOnce`, `ClaimLifecycleSpec`, `PushSettles` |
| `ReviewTask_retry` | as above, six faults: `review_code()` raises, claims run out, rows are not written | `DeadLettersFinal`, `RetryNotBlocked`, `PushConcludes` |
| `ReviewCode_breaker` | one process, two agents, one of them capped, a plain, an unparsable and a blank file, every kind of answer, breaker at its defaults | `TripsInTime`, `DriftTrips`, `TrialInFlight`, `ApprovedIsHeard`, `TrialDecides`, `ReviewEnds`, `BreakerRecovers` |
| `Publisher_pair` | worker and CLI, three publications, two faults, comments that people delete | `ForsakenStaysSilent`, `DuplicatesExplained`, `OneStory` |
| `ReviewPr_rerun` | two files, two runs with and without `--auto-apply`, one push by a developer, one fault | `PostedIsReviewed`, `PushesApplyFixes`, `ApprovalIsUnanimous`, `SaidOnce`, `EachFindingCommented` |
| `AutoFix_apply` | 20,439 files: bodies of up to three statements out of 27, all calls with values 0 and 1, three commits | `StillParses`, `FixesOnlyRaise`, `CriticalIsCertain`, `GuardsAreRecognised` |
| `Repair_slips` | all files of a function with up to four lines more; one slip in five lines, two in four, and so on; all orders of the fixes | `OnlyAppliedGo`, `ColonsRestored`, `BodiesRestored`, `BodyMovesTogether` |
| `RepoIndex_runs` | two files, one of which says all sorts of things, two models, two edits or changes of settings, two runs that may fail anywhere | `EveryLineInAChunk`, `OneVersion`, `RunRepairs`, `BestContext` |
| `InstallationToken_clock` | the code's durations in minutes, skew and delay of one, three attempts, over two lives of a token | `TokenAlive`, `JwtAccepted`, `TokensReused` |
| `Findings_merge` | five files, one of them blank, one with a code fence, two agents with a category in common, one of them capped, one finding of any line or two of one line each, and answers of other shapes | `FirstHeardPrevails`, `HonestIsReported` |

The type invariants are checked in `ReviewTask_safety` and proved for every module that
has theorems.

Bounds. Two workers and two deliveries are enough for every conflict over a claim,
which is always between two; three faults allow a lost claim, a failed retry and a
crash in one behaviour; six let the reviews of both deliveries fail for good and a claim run out besides.
The breaker runs with its real window of 10, minimum of 5 and threshold of one half;
the cooldown of 2 ticks distinguishes open, cooling and cooled. Two agents show that
one of them can fail or be capped on its own. Three publications are a first one, a
repetition and one that overlaps. The two files of `ReviewPr_rerun` have, between them,
fixes that change the number of lines, fixes in conflict, one past the end of the
file, and a critical finding without a fix; its page holds eight comments, so that it
overflows. Every access asks for item or key 0, so two values tell success from
failure; three statements are an assignment, a guard and an access, or three fixes that
meet; after three commits every fix of such a file is in it.
Five lines hold a block with a nested one and something behind it. A chunk's text does
not depend on the length of the windows, so windows of two lines with one of overlap
stand for those of 60 and 10; `TopK` and `OverFetch` are one, so that a file can have more
chunks than the query allows for. Two agents can meet on a line in a category of one of them or of both,
and a pair of findings of one agent can be a duplicate. Where a bound could matter, the theorems below
hold without it. Deadlock is not checked where the system rightly stops: when all
deliveries are processed or all publications are made.

Fairness. `FairSpec` of `ReviewTask` says that a running worker carries on and that an
idle worker takes a waiting message; it does not make deliveries, faults or crashes
happen. The calls to GitHub and to the model have timeouts, so each of them returns or
raises. Those to Redis (`idempotency_store.py:43`) and Postgres (`postgres_store.py:52`)
have none: that they return or raise, at the latest when the connection breaks, is an
assumption. `FairSpec` of `ReviewCode` says that a review that has begun goes on - it
waits for the model only - and that time passes. No new review is assumed to begin. `BreakerRecovers`
has two premises: calls that the cache does not answer keep coming, and answers that do
not parse stop coming. The second is there because the code fails without it (below).

### Where the code does not do what it says

Each of these runs checks one statement of the repository, which TLC refutes.

| Run | Statement | What happens |
|---|---|---|
| `ReviewTask_v_publish` | `tasks.py:26-30`: the claim is released if the work fails, so that the retry is not blocked | `publish_review()` is outside the `try`: when it raises, the claim stays and the retry is skipped |
| `ReviewTask_v_green` | `publisher.py:7-8`: never "success" for an incomplete review | the files of a commit share one claim: one is reviewed, the others are skipped, the commit is green |

Other instances are refuted as well; this is why the passing runs leave them out, or
why a property has a premise.

- `PushConcludes` with `Faults = {"crash"}`: the job of a dead worker comes back and is
  skipped, because its claim is still there (`celery_app.py:27-29`: a crash redelivers
  the job "instead of silently losing it"), or it does not come back at all, since only the
  child process died; with `{"review", "broker"}`: queueing the retry fails, and the review is in no
  dead letter either (`dlq_store.py:4-6`: recorded "instead of silently vanishing"); with
  `{"redis"}`: SET NX is carried out, its answer is lost, the retry is skipped (`docs/chaos_testing.md:34-35`: never a dropped
  review); and with `{"github"}`. `ReviewTask_retry` allows failures of the review only.
- `BreakerRecovers` without its second premise: unusable answers from the cache
  (`llm_client.py:94` stores them unparsed) count as failures of the open breaker and
  restart its cooldown, again and again (`circuit_breaker.py:18-19`: "cooldown elapsed -
  the next call is let through as a trial").
- `TrialDecides` for an answer that does not parse: the transport's success closes the
  half-open breaker before the answer turns out to be unusable
  (`circuit_breaker.py:19-20`: "failure reopens it").
- `StillParses` with an unsafe call in a statement of several lines (`Long(Call)`): the
  reprinted statement replaces its first line only, and the rest stays. It is a fix that
  parses, as `grounding.py:14-18` asks, in a file that then does not.
- `CriticalIsCertain` without its premises: only plain assignments count, so `count = 0`
  followed by `count += 1` is taken for 0, and so is a parameter that is assigned 0 after
  the division by it (`x = 1 / n`, then `n = 0`); the fix raises unconditionally before a
  division that works (`division_guard_checker.py:171-172`: "guaranteed
  ZeroDivisionError every time this line runs"; `:28-29`: "an AST-verifiable fact").
- `GuardsAreRecognised` with a subscript by a parameter among the statements (an index
  guard), which is why the pool has none: `_len_guard_covers()` does not know the
  `if len(p) <= N: raise` of its own checker, the finding is back, and each run inserts the
  guard once more (`review_pr.py:80-81`: auto-fixed are "findings this run actually
  resolved and pushed"); and for literals, whose raise leaves the access where it is.
- `OneVersion` and `RunRepairs` for a file in `tainted`: the store's exception at a
  deletion is swallowed (`chroma_store.py:89-90`), and old chunks stay beside the new ones
  (`index_repo.py:46`: "not accumulate stale chunks from a prior version").
- `BestContext` for a file with more than `OverFetch` chunks of its own, which crowd out
  the others (`retriever.py:37-38`: "shouldn't shrink the final result count").
- `HonestIsReported` for a quote of a line that was rewritten for the prompt, because a
  phrase in it was neutralized or it has a code fence (`prompt_sanitizer.py:42`): the quote
  is compared with the original and dropped (`prompt_sanitizer.py:13-15`: grounding "still
  works against the original file").
- `EachFindingCommented` without `Sidestepped`: `post_no_fix_comments()` looks up the
  existing comments after `post_fix_suggestions()` of the same run has posted its own, so a
  finding without a fix gets no comment if the run has offered a fix for another one that
  ends on its line. Its docstring says that it skips lines that have a comment "from a previous
  run" (`review_pr.py:398-399`), and a test that such a finding "must still get pointed at
  directly on the PR" (`tests/test_review_pr.py:561-566`; `review_pr.py:24-33` says the
  same). The property names the case as its one exception.
- `BodyMovesTogether` for the fix of a misaligned indent: lines that are further out than
  the first may move with it, since only siblings at its own indent stop the search (the
  comment at `orchestrator.py:343-345` says they were "at (or nested under) the same
  original indentation"). The property is about `_missing_indent_fix()`.
- `BodiesRestored` without `Coherent` and `SetOff`: a body with a `return` or a
  definition after its first line comes back in part, and a statement that follows is drawn into it;
  the code calls this a judgment call (`confidence.py:46-51`, where "the smallest reindent"
  is the largest, `orchestrator.py:342`).

More that was met while modelling, and that no property counts as wrong:

- A comment that people have deleted is never posted again: each later review of the commit
  asks to update it, gets a 404 and ends before it creates a check run
  (`publisher.py:58-59`), until Redis forgets the id after 30 days; "re-running the same
  commit updates the existing comment" (`publisher.py:4-6`, `comment_store.py:4-7`).
  `ForsakenStaysSilent` says that this is all that happens then.
- `coordinator.py:71-74` says that two agents can flag the same line and that the first is
  kept, and `tests/test_coordinator.py:159-187` gives an example with a `logic` finding of
  the security agent. The agents' own categories (`llm_supplement.py:44`,
  `security_agent.py:31`, `style_agent.py:28`, `test_coverage_agent.py:28`) are disjoint and
  `_to_findings()` drops every other one, so that `_dedupe()`, whose key has the category,
  can only meet two findings of one agent: two agents that flag one line are both shown.
  `FirstHeardPrevails` states what was meant for agents with any categories, and holds.
- A file that is emptied or removed keeps its chunks in the index: `index_directory()`
  passes over a file without chunks before it deletes. It also skips every file if the
  directory it is given lies under one called, say, `build` (`index_repo.py:37`).
- An answer with a line number such as `1e999` makes `run_finding_agent()` raise, although
  its docstring promises `succeeded = False` (`_llm_finding_agent.py:50-53`); it is cached
  before, so that every retry raises again.
- A JSON object without a list of findings counts as a successful answer that found
  nothing, and the review can be approved.
- With several agents the first finding of a line and category hides a later, perhaps
  critical one of the same agent, which the path with a single agent reports
  (`coordinator.py:8-10`).
- A quote is accepted up to two lines from the line it is given for (`grounding.py:51`), and
  the fix replaces the line it is given for; without a quote that line need not exist.
- `confidence.py:20-24` says that no source produces HIGH; the missing-colon fix does.

## What is proved

For every set of commits, files, deliveries, workers, processes and agents, every
number of retries, attempts and faults, under the named assumptions on the
constants that the modules state:

- `ReviewTask_proofs`: `TypeCorrect`, `ClaimIsExclusive`, `CommitReportedOnce`,
  `ImplementsLifecycle`, `DeadLettersAreFinal` and `RetryIsNotBlocked`. The inductive
  invariant is `IInv`. `ClaimExclusive` is inductive together with the types: whoever
  enters the section has just found the key absent, so nobody else of that commit was
  inside. `ReportedOnce` is not: it is
  strengthened by `WithinBudget` (one report for each claim there has been, the
  current one included) and `Unspent` (a worker that has not reached its report yet
  finds the budget of its claim unspent). The refinement maps a commit to its claim
  and to whether anybody is in the section; a step that enters, leaves or gives back
  is a step of `ClaimLifecycle` and every other one a stutter. The last two theorems
  have a hypothesis on the faults: a dead letter is final if no worker dies and no
  message comes twice (`DeliveredOnce`), since then a task has one attempt at a time
  (`OneAttempt`: one message, or one worker that is at work on it, or an entry of its
  end); a retry finds no claim of its own task if moreover neither Redis nor GitHub
  fails (`OnlyReviewsRaise`), since then an attempt that raises has given its claim
  back (`HolderSettled`). Without the hypotheses neither holds: a worker that dies after
  `on_failure()` leaves its message, and `publish_review()` raises with the claim held.
- `ReviewCode_proofs`: `TypeCorrect`, `BreakerTripsInTime`, `TrialIsInFlight`,
  `ApprovalIsHeard`, `TrialIsDecisive` and `DriftIsCaught`, after lemmas on the breaker's
  windows and their recent part. A window whose failures are *tolerable* (fewer than the
  threshold's share of a full window) stays so: a success adds none, and a failure that
  would be one too many empties the window, because it has either reached the minimum of
  calls and trips, or is below it, and `MinCallsAssumption` says that fewer than the
  minimum are tolerable. The first two theorems depend on each other (`TypesStep` needs
  tolerable windows only for its shape, `CalmStep` needs the types) and are proved together.
  `ApprovalIsHeard` is strengthened by `OnRecord`: as long as a review may still be
  approved, the agents that are through have been heard. `TrialOn` keeps what
  `TrialIsDecisive` needs: whoever holds an answer to a trial has closed the breaker.
  `DriftIsCaught` has a hypothesis on the constants, `Roomy`: a full window has room for as
  many failures as trip the breaker and a success beside each of them, because each
  unusable answer is first recorded as one. The defaults (half of 10) meet it with
  equality; at a threshold above one half, fresh unusable answers alone, one failure beside
  one success each, would never trip that window.
  Its invariant, `Drift`, says that each useless call in a row has left its failure among
  the last outcomes; it rests on `RecentSlide`, about the failures in the tail of a deque.
- `Integrations_proofs`, of `Publisher`: `TypeCorrect`, `SilenceIsKept`, `DuplicatesAreExplained` and
  `OneStoryTold`. That the commit stays silent rests on what the calls under way are about to do:
  whoever is past the look-up holds the deleted id, and its update is refused. As long as `overlap` is false there is only one call under way (`Alone`),
  so what it has posted and stored is what is in Redis and on GitHub when it creates its
  check run (`OwnStory`), and nobody changes it until the next call begins (`Told`). The
  comments are counted (`PostsPaid`): as long as no id is stored, each comment belongs to
  a call that is about to store one, or to a fault; from then on nobody starts to post,
  and those on their way to it are added to the count.
- `Integrations_proofs`, of `InstallationToken`: `TokenTypeCorrect`, `TokenArrivesAlive`, `JwtIsAccepted` and
  `TokensAreReused`, under `TokenAssumption` and `JwtAssumption`, which relate the margins
  of the source to the skew of the clocks and the duration of a request. `LongEnough`
  says that a credential outlives the request it sets out with, whatever happens
  meanwhile; `NearlyUsedUp` that a token is replaced at the end of its life only.
- `RepoIndex_proofs`: `TypeCorrect`, `OneVersionCorrect`, `RunRepairsCorrect`,
  `NoLineDropped` and `ContextNotShrunk`. The first two of the properties except the files of
  which a deletion has failed in the store (`tainted`), and `RunRepairs` also those that gave
  no chunks, which a run passes over (`index_repo.py:43-44`): what the store has of these
  stays as it was. The inductive invariant says that the cache is
  true (each key's vector is the one that its model makes of its text), that the vectors
  of the run under way are those of the chunks that are done, that its file has no
  chunks in the store once they have been deleted, and that the fresh files which it is
  through with are in the store as they are on the disk. `NoLineDropped` is about
  `chunk_file()` on every file (`ContentsAssumption`, and `WindowAssumption`: a window
  is longer than its overlap). The pieces of a file that parses lie apart: nodes of the
  syntax tree, and the stretches between them, whose ends are the nearest node before
  and behind a line (`LeastNumber`). Each line in a stretch is in one of its windows,
  which begin every `WINDOW_LINES` minus the overlap. `ContextNotShrunk` counts: a query
  returns the first entries of a ranking, those of the file itself are dropped, and what
  is left is cut to `top_k` (`RetrieverAssumption`: the query asks for that many more
  than it needs); that the ranking exists for the store there is follows from the store
  being finite.
- `Findings_proofs`: `TypeCorrect`, `FirstIsKept` and `HonestyPays`. Of the findings with one
  key the first is kept, in the order of the agents and of their answers. An agent's
  findings are validated against its own categories; so if no agent that is left out of a
  selection and is heard before one of it may report a category, the first finding of a line in that
  category that the selection has is the first of all, or the first of all is no
  finding of the selection. For `HonestyPays` the invariant follows an answer from the model to the
  result: what an agent has handed in is its answer as it was parsed (`Recorded`), the
  agents still to come have said nothing (`InTurn`), and the result is the merge of
  what was heard (`Merged`). An honest quote is grounded, since a line that
  was not rewritten is the same in the prompt and in the file; of the findings with one
  key, the first one stays.
- `ApplyFixes_proofs`: `PatchIsIntended`, for every list of lines and every list of
  findings with their lines and fixes (`AreFindings`): what the algorithm makes of a file
  is what is intended. `Ordered` lists each fixable finding once, because no two have the
  same place, in the order of their lines (`OrderedSorts`). A finding is the only one of
  its group exactly if its range overlaps no other fixable one (`SingleMeans`,
  `UndisputedSingle`), whatever the length of the groups, since `GroupEnd` is the greatest
  end so far. The loop that replaces has the invariant `DoneBehind`: after the last `n`
  findings, the lines before the next one are those of the file, and what follows is what
  is intended from there on, so that no replacement has moved the lines of one still to
  come; the lines of no undisputed range stay (`LinesStay`), those of one give way to its
  fix (`LinesGiveWay`).
- `Fixes_proofs`: `RepairTypeCorrect`, `ColonsComeBackAlways`, `BodiesComeBackAlways`,
  `BodyMovesTogetherAlways` and `OnlyAppliedGoes` of `Repair`, for files of any length.
  The invariant of that specification is only its types and that the author's file compiles (`RepairInv`): the properties are about
  what a review finds in whatever text there is. That is a loop over a file it changes, and
  `FindingsAre` says what comes out of it without the loop: the first findings give their
  colon to a set of lines, in some order (`Given`); with these filled in (`Filled`) every
  line up to the last of them is faultless (`Sound`); and behind them either the rounds are
  used up or there is at most one more finding, which is about what the filled file
  still lacks (`Finished`). It is an induction over the rounds (`Underway`), whose step is
  that the next colon to be given lies behind all the others (`GivenNext`), because a fault depends
  on the lines up to its own only (`SameFault`). If the set could not grow any more
  (`Ended`), it holds every set that is sound for the same file (`GivenFirst`): for `ColonsRestored`, that of all
  lost colons. `PatchedAs` brings in `PatchIsIntended`: findings whose fixes are stretches of
  one target file, and disjoint, make of the text that file, wherever they cover the
  difference. `BodiesComeBackAlways` needs moreover that the moved block is the largest that
  makes the file compile: up to the block's end it does, since the file is then the author's
  (`RunsOn`, `BehindHeader`), and beyond it the search stops, or the next line is no part of any block
  (`SetOff`). `BodyMovesTogetherAlways` looks at one fix: what lies further out than the first line of
  the body stops the search, or cannot follow it in a file that compiles.

  `OnlyAppliedGoes` compares two reviews. A review that is not cut short finds the colons
  of the one set that is both sound and ended, and what the filled file lacks (`FoundFrom`,
  `RestIs`): at most one finding, which is a move or has no fix. So it is enough to know
  that set for the next file. Whatever is accepted of such a review leads to the same file, but for the
  colons `T` not yet given (`Partly`): the filled one, or the filled and moved one
  (`ColonAccepted`, `MoveAccepted`, `ColonsAccepted`, `AllAccepted`, by `GoalReached`).
  For that the move must be apart from the colons, or `apply_fixes_to_file()` would drop both as
  overlapping: it is, since a move that starts at the error lies behind all of them, and
  one of the lines above the error cannot hold a header that has its colon, whose body
  would not be deeper then (`MovesApart`). In the next file `T` is sound and ended again (`Heals`), which
  gives its findings (`LeftOver`); and a finding counts as applied exactly when it is
  one of those accepted (`ColonsGone`, `StillThere`).

  `FileStaysLines` and `CriticalIsCertainAlways` are about `AutoFix`, for all files, inputs
  and numbers of commits. Their assumptions are what the constants are: an author's file is
  made of lines (`FilesAssumption`), a call has a number for each parameter and one for
  a response (`InputsAssumption`). The invariant is that the file is a sequence of lines
  (`FileIsLines`). It holds because each checker finds finitely many things
  (`FewOf`: no more than there are lines) and offers lines for each (`ReviewOffers`, with one
  lemma per checker, in which a statement ends within the file because the file
  parses, `StmtEndIs`), so that the algorithm gets what it takes (`PatchPy`). In
  such a file, a run is a step per line (`RunIs`, again by `Recursion`), and a variable
  that is never given any other value than the literal's, by no line of the file, has
  that value or none, whichever lines the run has passed over and wherever an exception
  has taken it (`ValueStays`). So the access fails with the exception in
  `Raises`, or because there is no value yet (`LiteralFails`). That the name is
  assigned exactly once is what the checkers look for (`Tracked`); that it is no parameter and
  not grown they do not, which is why both are premises of the property.
- `ReviewPr_proofs`: `TypeCorrect`, `PostedWasReviewed`, `ApprovalNeedsAll`,
  `FixesApplied`, `NoFindingForgotten` and `NothingSaidTwice`. `PostedIsReviewed` is
  strengthened by `Fresh` (what the run holds is in the commit at `head`, except between
  the first push and the second review) and `Filed` (what has been reported is a typed
  result on a commit there is). That a push undoes nothing needs `Grounded`: it goes on
  top of the very content its fixes were made for; `PatchIsIntended` says what they make
  of it. Of a review, `ReviewsAssumption` asks that it is a list of findings with their
  lines, and that what its fixes make of a content is a content again.
  `NoFindingForgotten` needs `Attended`: in the two passes that comment, each finding of
  the pass that is no longer pending has been dealt with: by a comment of the run's own on
  it, or for one of the two reasons to leave it out. Which comments are the run's own is in
  `Dated`: those of its first pass were posted for findings with a fix, and all the others it
  finds are older. What an older one shows is still at its line, because the file has been the
  same at some time since the commit under review. `NothingSaidTwice`
  needs `Unsaid`: in a run with nobody else at work (`Calm`), a pending finding is not
  among the comments, which the pass has listed before it posts its first one. It has
  the hypothesis `FindingsDiffer`, that no review lists a finding twice: `_dedupe()` sees
  to that between agents, and nothing does within the answer of a single one; such a
  pair of findings would be commented on twice. The run assumes it of its reviews.

There is no induction over data in these proofs. Where one is needed, over the lines of
a file or the places of a list, it is over numbers, in the form of `LeastNumber`: a
non-empty set of numbers has a least element, because the sets `1 .. n` are finite and
finite sets are well-founded by inclusion. A function that is defined by recursion over
the places of a list, as those of `ApplyFixes` are, exists for the same reason
(`Recursion`: one up to each number, since there is one up to 0 and one up to `n - 1`
goes on to `n`), and is then known by its equation.

TLC evaluates every assumption on the constants of the passing runs.

Model-checked only: everything under fairness (`PushSettles`, `PushConcludes`,
`ReviewEnds`, `BreakerRecovers`), which is out of the prover's reach; and the properties
`GuardsAreRecognised`, `StillParses` and `FixesOnlyRaise` of `AutoFix`. These three
compare what a parser, an interpreter and the checkers make of a file before and after a
fix, and not every file has them: `StillParses` and `GuardsAreRecognised` fail for the
statements that the pool leaves out (see above).

## What is not modelled

Within the modelled components: signature checks, metrics, texts; the choice of a
provider and model; the token budget; the notifier's channels;
worker crashes outside a task (the broker's own persistence); the TTL of 30 days of the comment id;
the agents' prompts and the context in them; of the checkers, those that only report,
and the fixes for secrets, unused imports and constructor parameters; loops, `else`
branches and nested functions of the files under review. An unserialisable result of Celery is taken for a
crash.

What the models assume of single calls, and a reader should know:

- `ReviewTask`: a DELETE of the claim is carried out or not (`ReleaseRaises`), but neither
  twice nor after the exception, when it could free another worker's claim. A claim does
  not run out while somebody works on the commit (`Lapse`).
- `ReviewCode`: `json.loads()` raises nothing but a `JSONDecodeError` (`ParseFails`). With a
  number of more digits than Python converts, or brackets too deep, it raises a plain `ValueError`
  or a `RecursionError`, and the review ends before the breaker has heard of the answer.
- `ReviewPr`: GitHub's first page of the files has any of the Python files on it, in any
  order, possibly none (`Listing`); the page holds 30 files of all kinds
  (`github_client.py:160-166`).
- `Findings`: which of two findings with one key is kept is a matter of order, not of
  severity: a warning hides a critical finding that comes later.

Whole components: see "components" in `PROJECT.json`.

## Plan

Done, in this order: `Gate`, `ClaimLifecycle`, `ReviewTask` and its proofs;
`CircuitBreaker`, `ReviewCode` and their proofs; `Publisher`; `ApplyFixes`, `ReviewPr`
and its proofs; `PyFile`, `Checkers` and `AutoFix`; `SyntaxFixes` and `Repair`; `Chunker`,
`RepoIndex`, `InstallationToken` and `Findings` with their proofs; the proofs of
`Publisher`; those of the inline comments (`ReviewPr`), the chunks and the context
(`RepoIndex`) and of honest findings (`Findings`); what
`apply_fixes_to_file()` computes (`ApplyFixes`); and what the review of a broken file finds
and its fixes restore and leave (`Repair`).

Next, by what is most worth knowing:

1. The remaining fixes of the checkers: secrets, unused imports, constructor parameters,
   and the checkers that only report.
2. Two publishers whose requests are carried out late, and the TTL of the comment's id.

# Verification of the Social SDK

TLA+ models of the protocols inside `packages/social-sdk`: how a publication is sent at most once,
how the adapters make one post out of many requests, how media are staged for them, how scheduled
jobs are run, cancelled and moved by several processes, how posting slots are given out, how
credentials are rotated, how account connections are completed, activated and disconnected, and how
calls to one backend are limited. TLC checks the models on small instances. TLAPS proves the safety
properties of most of them for every value of the constants.

Source paths below are relative to `src/packages/social-sdk/src`.

## 1. The system

The SDK is a library. It runs inside the application's processes, usually several of them, and keeps
no state of its own between calls other than one limiter per client. Everything that must survive a
process is kept in stores the application supplies, over a SQL, Redis or in-memory driver. So the
hard part of this code is always the same: several calls, in several processes, work on one stored
record with nothing but a compare-and-set or a lease between them, and in the middle they make a
request to a provider whose answer may be late, lost or ambiguous.

| component | state it keeps | operations | interacts with | what is hard | what makes it correct |
| --- | --- | --- | --- | --- | --- |
| Publication, `core/client.ts`, `server/recovery.ts` | the claim of an idempotency key, one outcome per target, fences of retries | `posts.publish`, `posts.reconcile`, `posts.retryFailed` | called by the application and the scheduler; sends through adapters behind the limiter | concurrent recovery, a crash between sending and saving, ambiguous answers, outcomes saved late | a target never has two submissions that are or may become posts |
| Scheduler, `server/scheduler.ts` | a job: lanes, steps, outcomes, lease, revision, next run time | `schedule`, `runDue`, `reconcile`, `retryFailed`, `reschedule`, `cancel` | calls Publication; native lanes leave scheduled copies at the provider | leases that expire under their holder, dispatch fences, cancel and move while a step is in flight | one copy per step, a truthful record, "cancelled" means silence, every job comes to rest |
| Queue slots, `server/schedule-store.ts` | one reservation record per slot, next to the job records | `reserveSlot`, `releaseSlot`, inside `schedule` and `reschedule` | Scheduler | two records with a compare-and-set each and nothing that writes both | one active job per slot, no slot lost |
| Connections, `server/connections.ts`, `server/durable-stores.ts`, `server/durable-driver.ts` | one document per attempt: discovered accounts, grants, revocations | `begin`, `discover`, `select`, `complete`, `revokeGrant` | OAuth provider (one-use code), connect handlers | duplicate callbacks, two pickers, writes that throw and land | the code is exchanged once, one selection wins, revocations stay |
| Credentials, `server/credentials.ts`, `server/oauth.ts` | the encrypted credential, its revision and its refresh marker; a lock with a lease | `resolve`, `rotate`, `revoke`, `save`, `delete` | provider with rotating refresh tokens | a lock that expires during a refresh, a timed-out refresh that still takes effect, a reconnect during a refresh | a refresh token is presented once, nothing late overwrites what is newer |
| Limiter, `core/concurrency.ts` | a counter and a FIFO queue in memory | acquire, release, abort | in front of every adapter call | an abort in the turn in which a slot is handed over | no slot lost or given twice, nobody overtakes |
| Media staging, `core/staging.ts`, `media-staging.ts` | staged copies and their leases | stage, settle | inside a target's call, between the limiter and the adapter | a stage result after the deadline or the abort; a platform that still fetches | a copy is removed exactly when nobody needs it |
| Workflow adapters, `platforms/threads.ts`, `platforms/instagram.ts` | a stored workflow and its claim | `publishTarget`, `getDelivery`, `resumePublication` | the client, the platform's containers | polls in several processes, claims of dead calls, writes without an answer | one post, and an end for every workflow |
| Upload adapters, `platforms/tiktok-upload.ts`, `platforms/youtube-upload.ts`, `platforms/youtube.ts` | a source being read, a saved session | `publishTarget`, `resumeUpload` | the platform's upload session | pieces of any size, sources of another length, chunks stored in part or late | the platform gets every byte once, in order |
| Attachment adapters, X, Bluesky, LinkedIn, Facebook in `platforms/` | none | `publishTarget` | the platform, through the transport | an upload or a post without an answer, photos to be removed again | truthful or ambiguous, never wrong |
| Inbox, `inbox.ts` | composite cursor, held by the caller | list over many accounts | adapters | one source of several fails | no entry skipped or repeated |
| Webhooks, `server/webhooks.ts` | none; the application's inbox | verify, decode, accept | application | none once the bytes are verified | idempotent accept |
| Connect handlers, `server/oauth-connect.ts` | a cookie in the browser | begin, callback, select, disconnect | Connections, the application's hooks | commit and activation, and revocation and removal, are two writes each | no live token is forgotten, nothing is active without a grant |
| OAuth providers, `server/oauth.ts`, `server/bluesky-oauth.ts` | DPoP nonces | authorize, exchange, refresh, revoke | Connections, Credentials | nonces shared by requests | honest classification of answers |
| Drivers, `server/sql-stores.ts`, `server/redis-stores.ts` | rows and keys | get, compare-and-set, lease | all stores | outside the repository: the database | atomic writes under a revision |
| Clouds and streams, `cloud/`, `platforms/*-stream.ts` | none | one request, or a reader of one connection | providers over HTTP | honest classification of answers | truthful or ambiguous, never wrong |
| Transport, `transport/` | a retry budget per call | request, retry, redirect | adapters | deadlines, what may be repeated | only reads are repeated |
| Front ends, `cli.ts`, `mcp/`, `ai/`, and pure helpers (manifests, projections, zone arithmetic) | none | one client call each | Publication | none | |

`PROJECT.json` lists every component with its status, and every hazard at its line.

## 2. Modules

| module | lines of code it stands for | role |
| --- | --- | --- |
| `AtMostOnce` | promise of `core/types.ts` and the publishing guide | abstract specification: attempts per target |
| `Publication` | `core/client.ts`, `core/client-support.ts`, `server/recovery.ts`, the claim operations of `server/schedule-store.ts` | one idempotency key under any number of calls |
| `Publication_proofs` | | theorems about `Publication` |
| `KeyedTargets` | what `server/scheduler.ts` relies on | abstract specification: a target under its key |
| `Scheduler` | `server/scheduler.ts` | one job under any number of runners and callers |
| `Scheduler_proofs` | | theorems about `Scheduler` |
| `QueueSlots` | `server/schedule-store.ts`, the slot side of `server/scheduler.ts` | slots and jobs |
| `QueueSlots_proofs` | | theorems about `QueueSlots` |
| `ConnectionAttempt` | the `ConnectionStore` interface in `server/connections.ts` | abstract specification: one attempt |
| `Connections` | `server/connections.ts`, `server/durable-stores.ts`, `server/durable-driver.ts` | one attempt under any number of calls |
| `ConnectHandlers` | `server/oauth-connect.ts` | the routes over one attempt; extends `Connections` |
| `Connections_proofs` | | theorems about `Connections` and `ConnectHandlers` |
| `Credentials` | `server/credentials.ts`, `server/oauth.ts` | one credential under any number of operations |
| `Credentials_proofs` | | theorems about `Credentials` |
| `Limiter` | `core/concurrency.ts` | one backend's budget |
| `Staging` | `core/staging.ts`, `media-staging.ts`, `dispatchTarget` of `core/client.ts` | calls with local media; extends `Limiter` |
| `Staging_proofs` | | theorems about `Limiter` and `Staging` |
| `Submission` | what `core/client.ts` and `server/recovery.ts` rely on | abstract specification: one submission to one adapter |
| `ContainerWorkflow` | `platforms/threads.ts`, `platforms/instagram.ts` | one stored workflow under any number of polls |
| `ChunkedUpload` | `platforms/tiktok-upload.ts`, `platforms/youtube-upload.ts` | one file, its source, and resumptions |
| `AttachedPost` | X, Bluesky, LinkedIn and Facebook in `platforms/`, `transport/http.ts` | attachments and the request that posts them |
| `Adapters` | `publishTarget` of all of these | the three ways, side by side, against `Submission` |
| `ContainerWorkflow_proofs`, `Adapters_proofs` | | theorems about the adapters |
| `MC...` | | symmetry sets and inputs for TLC |

The modules compose in two ways. Where one piece of code calls another on the same state, its module
extends the other's and its actions contain the other's: `Staging` over `Limiter`, `ConnectHandlers`
over `Connections`, `Adapters` over the three ways to submit. Elsewhere they compose by contract.
`KeyedTargets` is the one between `Publication` and `Scheduler`: the claim of a key is taken before
anything is sent and again only after a failure, a copy is sent only while no other can appear, and
what the claim settles on is so. `Publication` implements it for its key, whatever calls are made,
and `Scheduler`, which takes `posts.publish`, `posts.reconcile`, `posts.retryFailed` and
`posts.cancelScheduled` as single steps, never lets such a step do to the key of a step of the job
what `KeyedTargets` does not allow (a withdrawn copy is one the provider drops). Both are checked
and proved. What `Publication` takes an adapter to be, truthful or in doubt, is `Submission`, which
`Adapters` implements; that side is stated in the head of `Publication`. `QueueSlots` and
`Scheduler` are two views of a job: the first keeps its slot and its lease, the second its steps.

### How state and actions correspond to the code

A step of a model is what the code does between two awaits that other processes can see. A
compare-and-set together with the guards evaluated on the record whose revision it expects is one
step: if the record changed in between, the compare-and-set fails and the code reads again. A
compare-and-set with guards on an *older* read (the conflicts this project is about) is two steps. A
process may die between any two steps.

**Publication.** `claim` is the fingerprint stored with the key and `saved` its outcomes. `Publish`
is the atomic create of the claim with its three replies (created, replayed, conflict).
`EnterAdapter` is the moment at which the request leaves, `AdapterAnswers` what `callTarget` makes
of the answer or of its absence, `SaveOutcome` the write of the outcome, which may be lost.
`OpenRecoveryClaim`, `FenceTarget`, `Reload`, `Poll`, `SavePolled`, `FenceRetry`, `SaveRetried` and
`SkipRetry` are the steps of `server/recovery.ts`. `provider[t][a]` is the truth about an attempt. A
submission, once handed to the adapter, travels by itself and may arrive after its call has died.
Abstracted: `observedAt` (two outcomes that differ only in it are equal, and the compare-and-set
does compare them); `accepted` stands for scheduled, accepted and processing; the retry disposition
has five values; staging happens inside the dispatch. Adapters are taken to be truthful or to say
that they do not know.

**Scheduler.** `Claim` .. `Release` is `#process`; the phases salvage, retry, advance and poll are
its passes; `MarkDispatching` is the dispatch fence; `Publish`, `Recover`, `RetryFailed`, `Poll` are
calls of the client for the step's key of the revision that was read; `CancelFence`, `WithdrawCopy`,
`CancelFinal` are `cancel`; `Reschedule` .. `Move` are `reschedule`, with its fence lease, its
renewal and its fall back to `cancel`. `#mutate`, which reads again and re-applies on conflict, is
one step. A step of a job has one destination. "failed" also stands for not-submitted, "unknown" for
accepted, processing and `reconcile-first`. The code stops after three rounds or after one that
changed nothing; the model may stop after any, and fairness makes it stop. `unsure` and `touched`
are what a cancellation or a move has learned so far about the copies it withdraws.
`RetryOutlivesLease` says whether a lease may expire while its holder is re-sending failed steps. It
is FALSE in the passing runs, because the code does not survive it: run `scheduler_late_retry` sets
it to TRUE.

**QueueSlots.** `ReadSlot`, `ReadHolder`, `Revoke`, `Take` are an attempt of `reserveSlot`;
`ReadOwn`, `ReadOwnJob`, `Vacate` are `releaseSlot`. An operation's name is its token. Whether a
compare-and-set still wins is a flag that every write of the same key clears (`fresh` for the slot,
`current` for the holder's job), in place of version numbers. The scheduled, running and blocked
statuses are "active". The expiry of a lease is judged by the time at which the operation started,
so an expired lease may still be taken as held. `Run` is the claim of poll, runDue and
`retryFailed`; `Releases` is the status that `#release` computes: an active job goes on or is
completed, and a run in `Retries`, which may be a `retryFailed`, can make a completed job active
again. `Scheduler` has the reasons (lanes, steps, times) of such a release and no slots; here the
reasons are left out.

**Connections.** One document, its revision and the writes in doubt. `Get`, `Look` and `Choose` are
the manager's reads; `Decide` and `Commit`/`Lose` are a round of `updateRecord`; `Throw` is a write
that throws, `Land` its late effect; `Exchange` presents the code. `Fail` ends a call at any step:
it stands for a refused redirect, state or principal, an account the provider did not return, a read
that throws and a death. The read and the decision of one update are one step, as nothing happens
between them. `getGrant` and `listGrants` only read and are left out. The identifier of an attempt
is fresh, so nobody calls before `begin` has returned.

**Credentials.** `rev`, `token`, `mark` are the stored record: a token set is a number in the order
of issue and the marker is what `refreshState` holds. `Read`, `Acquire`, `ReadHeld`, `Mark`, `Call`,
`Answered`, `AnswerLost`, `Cancelled`, `TimesOut`, `Store`, `Restore`, `Doubt`, `Release` are
`resolve` and `rotate`; `ReadToRevoke`, `Revoke`, `Delete`, `Recheck` are `revoke`; `Authorize`,
`Save` a reconnect; `Remove` is `delete`, and `RemoveLands` one that threw and takes effect later.
The manager's revoke hook is optional: the operations in `Revokers` have it and ask the provider
first, the others delete the record with nothing revoked. The provider spends the token a request
presents when it applies the request, whenever that is. The deadline of a marker and the worker's
own timer share a clock: the timer starts after the deadline was fixed, hence `TimesOut` only after
`late`. The constant `Hook` says how the refresh hook reports a request it has no answer to:
"contract" as `CredentialRefresher` asks, "refreshOAuthToken" as the helper of `server/oauth.ts`
does. Revisions are never reused, as the drivers promise.

**ConnectHandlers.** `Remember`, `Recall` and `Forget` are what happens to the cookie; `Activate` is
the activation that follows a committed selection; `Find`, `Revocation`, `Remove` and `Removed` are
a disconnect. The hooks are the application's; removal is taken to be `revokeGrant` of the store. A
hook that throws may have done its work.

**Limiter.** `Arrive`, `Abort`, `Resume`, `Finish` are the callbacks of one event loop. A slot that
was handed over stays counted until the woken call runs, and an abort may come in between.

**Staging.** A call with a slot stages its sources one by one. `Ask` calls the storage provider,
`Answer`, `Refuse` and `AnswerLate` are what comes of it, `StagingStops` is the abort or the
deadline of `stageBeforeAbort`, `Enter` and `AdapterAnswers` the adapter, `Settle` is `settle` with
`releaseLeases`. `fetching` is the truth about the platform: whether it may still read the copies.
The upload of a copy is not split further, and a cleanup that fails is not repeated by the code
either; it counts as done.

**ContainerWorkflow.** `row` is the stored workflow and `claim` its lease. `Start` and `Poll` are
the entries, `Claim`, `Read`, `NextChild`, `LeaveChildren`, `CheckChildren`, `CheckParent` the way
through the workflow, `Mark`, `Send`, `Created`, `Lost`, `Refused`, `Record` a write that is noted
before it is made and after, `Adopt` the parent of a single container, `Reopen` the rejected token,
`Release` the end. `Threads` and `SingleContainer` tell the two platforms apart. The store is the
application's, which recovers abandoned claims (the guides of both platforms ask for it): the claim
of a dead call goes, that of a living one does not. All containers of children have one state.

**ChunkedUpload.** A byte is its place in the source. `Refill` is a piece of any size, `Consume`
skips and takes, `Prove` is the check that nothing follows the last chunk, `Put` sends it,
`Accepted`, `Rejected` and `LostAnswer` are its answers; `Resume` is `resumeUpload`, which asks the
session what it has. `resumeUpload` checks the channel only: that an upload is resumed while its
outcome is unresolved, and not after a failure was reported, is the caller's part, and `Truthful`
rests on it. After the last byte YouTube's video may still be processing or scheduled (`Accepted`
says published or nothing yet); that its processing fails for good later is left out. `Receives` and
`ReceivesLate` are the platform, which keeps what it does not have yet, at YouTube perhaps only part
of a chunk. The session exists when the module begins.

**AttachedPost.** `Ask` sends the next attachment, the post, or the removal of a photo; `Granted`,
`Failing`, `Silence` and `AsksAgain` are what the transport makes of the answer, `Concludes` throws
once the photos of a failed post are gone. `held` is what the platform has. Alt texts, the look-up
of a video by its id and the readiness polls of media are attachment requests like the others.

## 3. What is checked

| run | instance | distinct states | question |
| --- | --- | --- | --- |
| `publication` | 3 calls, 1 target, 2 fingerprints, 2 retries | 1.1M | is a target ever sent twice; are outcomes lost or reopened; does the protocol implement `AtMostOnce` and `KeyedTargets` |
| `adapters_submit` | a publisher and 2 pollers on 5 shapes of workflow, 3 faults; 12 files in chunks of 2, 2 resumptions, 2 breaks; 5 hosts with up to 2 attachments, 3 mishaps; with fairness | 162k | is anything posted twice, in part, or after a failure was reported; does every workflow come to an end its caller hears of |
| `connections_routes` | 3 operations, 2 accounts of which one can be revoked at its provider, 2 tries, 1 throwing write, all routes | 445k | is the code exchanged twice; do two pickers or two winners disagree; does it implement `ConnectionAttempt`; is anything active without a grant, or a live token forgotten |
| `credentials_two` | 2 operations of all five kinds, one of them with the revoke hook, 1 throwing write, with fairness | 171k | is a refresh token presented twice; is something newer overwritten; does a refresh end if the provider never answers |
| `staging_calls` | 3 calls with 2, 1 and no local sources, 1 slot, 1 place in the queue, with fairness | 55k | is a slot lost; does anybody overtake or starve; is a copy removed too early or left behind |
| `scheduler_caller` | 1 native step, 1 runner with all operations, 1 caller, 1 move, 1 retry | 1.9M | moves, withdrawals and retries against a runner |
| `scheduler_runners` | 1 runtime step, 2 runners with runDue and retryFailed, 1 cancellation | 564k | runners that outlive their leases, against a cancellation; is a key ever used as `KeyedTargets` does not allow |
| `scheduler_live` | a chain of 2 runtime steps, 1 runner, 1 caller, 1 move, with fairness | 48k | does the reply wait for its parent; does every job come to rest |
| `slots_three` | 3 operations, 2 jobs, 2 slots, 3 attempts | 259k | two jobs in one slot; a slot lost |
| `credentials_lost_answer` | 2 resolves with `refreshOAuthToken` as the hook | violated | |
| `scheduler_late_retry` | `scheduler_runners` with a retry that outlives its lease | violated | |
| `slots_retry` | 4 operations, one of them `retryFailed`, 1 slot, 1 attempt | violated | |

Every property has a mutant of the code that it refutes; they stand beside the definitions they
change, named `<Definition>_<Bug>`.

### Bounds

* Calls, operations, runners. Three is enough for a victim, an intruder and a third whose write
  makes the intruder's guard true. `credentials_two` has two, because fairness forbids symmetry;
  three operations of resolve, revoke, save and delete were explored without fairness (1.1M states),
  and the proofs hold for any number. A crashed runner may call again, so one `Runner` also stands
  for a process that replaces a dead one; two are needed for one that is only late.
* One target, one key, one job, one attempt document, one workflow: they share nothing with others,
  except slots (two jobs) and the limiter (three calls).
* `Files` are sources as long as declared, one byte too short and one too long, in one chunk and in
  two, the last of which takes TikTok's odd byte; pieces may have any size. `Shapes` are a text, a
  text that publishes itself, a single medium and carousels. `Drafts` are none, one and two
  attachments at every host.
* `RetryIds`, `MaxRetries`, `MaxRevision`, `Faults`, `Breaks`, `Mishaps`, `Cancels`, `Retries` bound
  what would otherwise go on for ever. Two retries let a stale one meet a newer one.
* `Tries` is 2 where the code has 16 (`MAX_CAS_ATTEMPTS`): an update that loses reads again once.
  Contention takes a call more than two accounts and three calls allow; what is to be said of it is
  proved for every number of tries (section 5) and is no property of a run.
* `Attempts` is the code's 3. Two slots are the least that lets a job move.
* `MaxPolls` is 1, so that a step reaches its poll limit.
* `CHECK_DEADLOCK FALSE` everywhere: each instance ends when its operations are done.

Every inductive invariant was evaluated by TLC as an invariant of its instance before it was proved:
that of `Publication_proofs` with three calls and no symmetry, that of the keys in
`Scheduler_proofs` also with retries that outlive their lease, that of `QueueSlots_proofs` also with
four operations on one slot (6.6M states), the others on the instances above.

### Properties

*Publication*: `RetryableMeansDead` (what the store lets be retried cannot appear any more),
`RetryOutcomeNeverDropped` (the compare-and-set whose result `retryFailed` ignores always wins),
`SettledOnlyReopenedByRetry`, `ImplementsAtMostOnce` and `ImplementsKeyedTargets` (refinements).
`AtMostOneAlive`, which the first refinement contains, and `OriginalNeverSendsLate` are stated by
theorems only.

*Scheduler*: `OneCopy`, `CancelledIsQuiet`, `SettledIsTrue`, `InOrder`, `CompletedIsOver`,
`FenceHolds`, `ProgressIsFenced`, `KeysAreKept` (the contract `KeyedTargets`), and, under fairness,
`NeverStalls` and `InterruptedIsRecovered`.

*QueueSlots*: `OneJobPerSlot`, `OccupantHolds`, `NothingLeaks`.

*Connections*: `PickersAgree`, `OneWinner`, `RevokedOnce`, `OneUseAttempt` (refinement); over the
routes also `ForgottenIsConsumed`, `ActiveIsGranted`, `RevokedBeforeRemoved`.

*Credentials*: `PresentedOnce`, `UnmarkedIsLive`, `NothingOverwritten`, `RefreshEnds`.

*Limiter* and *Staging*: `SlotsAreHeld`, `NoBarging`, `QueueIsServed`; `KeptWhileFetched` and
`NothingLeftBehind`, the two sides of when a copy may go.

*Adapters*: `OnePost`, `Whole` (`WholeFile` and `KeepsAttachments`), `Truthful` (refinement of
`Submission`), and, under fairness, `Settles` and `Completes`. `Settles` asks that the caller can
tell how a workflow it knows about ended: its post is recorded, the rejection of a container was
reported, or its fate is unknown and nobody works on it. It names one exception, `StuckCarousel`,
which the code really has (section 4).

### Fairness

* Scheduler. A call to a client or a store settles (WF of a runner's step), time and leases go by
  (WF of `TimePasses` and `LeaseExpires`), the loop of rounds ends (SF of `EndRounds`; the code
  counts to three), and the application calls `runDue` again and again (SF of a runDue claim, as the
  lease it needs may come and go). Cancel, move, crash, retry and the provider have none. Both
  liveness properties hold under `Healthy`: from some time on no runner dies, throws or outlives its
  lease. Before that, anything may have happened.
* Credentials. The worker goes on with what it can do by itself, time passes and the timer fires.
  Nothing is assumed of the provider, of the hook or of the lock.
* Staging. The event loop runs what is ready, the deadline's timer fires and the work of an adapter
  ends (the client gives it a deadline). Nothing is assumed of the storage provider.
* Adapters. A call that lives goes on, somebody polls or resumes again and again (one of the
  callers, as the application's reconciler does), containers are processed in the end and the claim
  of a dead call is recovered (the guides ask this of the workflow store). Deaths, refusals and lost
  answers have no fairness, and their number is bounded.

## 4. What the checks found

Three runs end in a counterexample on purpose; each is a disagreement between the code and what it
documents.

1. `credentials_lost_answer`. `refreshOAuthToken` reports a broken connection or an unreadable body
   as `upstream_failure` (`server/oauth.ts:490`). The manager takes that for a refusal, puts the
   credential back without a marker, and the next resolve presents a refresh token that may be
   spent.
2. `scheduler_late_retry`. `#retrySteps` sends without looking at its lease again
   (`server/scheduler.ts:1563`). A retry that stalls past its lease is recovered as failed, the job
   is cancelled with the result `cancelled`, and then the retry sends.
3. `slots_retry`. `#process` refuses to retry only cancelled jobs (`server/scheduler.ts:1462`) and
   `#release` computes the status of any other job anew (`server/scheduler.ts:2022`). A completed
   job whose slot is still to come, for instance one whose native lane was refused early, holds the
   slot no longer: `reserveSlot` gives it to another job. `retryFailed` then makes the first job
   active again, with the `queueId` and `runAt` it had, and two active jobs share a slot.

Four more can be reproduced by changing a cfg:

* The last mutation of `cancel` writes its own finding whatever the status is by then
  (`server/scheduler.ts:1427`). Of two overlapping cancellations the later one, which failed, turns
  a cancelled job into `cancel-unresolved`, an active status, in a slot that was given to another
  job. With `Cancels = {o3, o4}` and `Retries = {}` in `QueueSlots_retry.cfg`, TLC refutes
  `OneJobPerSlot`.
* Instagram's `continueWorkflow` answers `processing` for every child that is not finished
  (`platforms/instagram.ts:2384`), also for one that was rejected: a carousel with a rejected child
  is processing at every poll for ever, where `docs/concepts/media.mdx:110` says "a confirmed
  rejection produces failed". `CarouselsSettle` is `Settles` without its exception; as a PROPERTY in
  `Adapters_submit.cfg`, TLC refutes it.
* `retryFailed` takes a completed or blocked job without setting `nextRunAt`
  (`server/scheduler.ts:1473`). If its process dies with a step dispatching, no `runDue` comes back
  to the job. With `"retryFailed"` added to `Kinds` and `MaxRetries = 1` in `Scheduler_live.cfg`,
  TLC refutes `InterruptedIsRecovered`.
* `revoke` decides by the revision alone that a credential was replaced
  (`server/credentials.ts:574`). If its lease expired and a resolve wrote its in-flight marker, the
  credential it has just revoked is kept and reported as a replacement (`verdict = "replaced"` with
  the token it read).

Hazards the code leaves open by design or that no property covers: a process that dies between
`reserveSlot` and `create`, or a store that throws while a failed operation frees its slot, leaves a
reservation nobody can take (`NothingLeaks` excepts exactly the operations that are broken off); a
completing write of `Connections` that lands but throws consumes the attempt, whose grants the
application then finds with `listGrants`; a disconnect between the commit of a selection and its
activation leaves the credential of a removed grant to the `activate` hook
(`server/oauth-connect.ts:634`).

Smaller things met while modelling, for which there is no run:

* A disconnect whose removal fails reports that the token was revoked even if the provider cannot
  revoke tokens (`server/oauth-connect.ts:196`), and that the grant was not removed although a
  removal that throws may have landed.
* A photo whose upload had no answer is not known to the call and is not removed from the Facebook
  page; and such an upload makes the outcome unknown although no post can exist.

## 5. What is proved

All theorems are of the form `Spec => ...` and hold for any sets of calls, targets and accounts and
any bounds.

**Publication_proofs** (eight theorems): type correctness, every safety and action property of the
run, and the refinements of `AtMostOnce` and `KeyedTargets`. The invariant behind them, `IInv`,
says: at any time at most one call has a target *in hand* (it may still send it, or owns the verdict
of what it sent), `UniqueInv` and `HandInv`; and every attempt that may still appear is the one the
saved outcome speaks of, and that outcome may not be retried, `CoverInv`. The other parts say what
holds before the claim exists (`UnclaimedInv`), while a recovery fences the claim it has created
(`FencingInv`) and while a poll is out (`PollInv`). `HandInv` and `PollInv` also tie verdicts to the
truth before they are saved: a final failure is of an attempt that cannot appear, "published" of a
public one. That is what the refinement of `KeyedTargets` needs beyond the one of `AtMostOnce`.
`AtMostOneAlive` alone is not inductive: nothing in it ties a live attempt to the record that keeps
others from retrying. Assumed: `PublicationAssumption` and `NoneAssumption`, that the original and
the absent value are none of the retry ids and outcomes.

**Connections_proofs** (thirteen theorems): type correctness, `PickersAgree`, `OneWinner`,
`RevokedOnce`, and that the store implements `ConnectionAttempt`. The argument: whatever a call, or
a write in doubt, is about to write over the *stored* revision is a legal next document (`Decided`,
`DoubtInv`); and at most one call holds the code from its claim to the accounts it keeps, while no
write in doubt can take effect (`Held`, `Alone`). Every step of the refinement then follows from the
document's step being legal. A step of the routes is a step of `Connections` or leaves it alone, so
these hold under `HandlersSpec` too; `RoutesInv` adds what a handler has seen of the document when
it forgets the cookie, activates or removes, and gives `ForgottenIsConsumed`, `ActiveIsGranted` and
`RevokedBeforeRemoved`. `ContentionIsProgress`, which no run checks, says when the bounded loop of
`updateRecord` may give up: after as many revocations as it has tries. A check is lost only to a
change of the document. Its stages are passed once, and an update that comes to a later stage than
its own is refused, so it loses one check at most; a revocation that has lost k checks knows of k
grants that others revoked (`Overtaken`, `Counted`). Hence none gives up where there are fewer
accounts than tries (`FewAccountsNeverContend`), and with the code's 16 tries no attempt of fewer
than 16 accounts ever reports contention.

**Credentials_proofs** (four theorems), in two layers. `TypeOK` and `NothingOverwritten` hold
whatever the refresh hook reports: what an operation read is what is stored, as long as the revision
is the same (`SeenInv`), its marker is its own (`MarkerInv`), and a write in doubt would replace
what its operation had read (`DoubtInv`). A record is erased only by a delete or by a revoke that
read it; a revoke that has the hook has had that token revoked before. `PresentedOnce` and
`UnmarkedIsLive` are stated for a hook that keeps its contract (`Hook = "contract"`): a token set is
then in one place only. The stored record, or a write in doubt, offers it without a marker
(`RecordInv`, `DoubtInv`), or one operation has it in hand, because its marker is written and its
request not yet decided (`EngagedInv`). The revision of the marker moves it from one place to the
other, and a new token set is nowhere until it is stored (`FreshInv`). The condition on the hook is
needed: `credentials_lost_answer` is the counterexample without it.

**QueueSlots_proofs** (five theorems), in two layers. The bookkeeping of the reservations
(`SteadyInv`) is invariant whatever is cancelled: a reservation is its operation's own, is made
once, and is given back; from it follow type correctness and `NothingLeaks`. The occupation of the
slots (`IInv`) gives `OneJobPerSlot` and `OccupantHolds`: an operation that may still save its job
into a slot holds the slot's reservation (`CanCommit`), and one that may take a reservation has seen
that its owner will not come back (`Spent`); the rest says what each operation knows at its label,
as long as its `fresh` and `current` flags stand. These two are stated under two conditions on the
behaviour, not on the constants (`Spec /\ []CancelsApart /\ []RetriesOpen => []OneJobPerSlot`): no
two cancellations of one job withdraw its copies at the same time, and no retry that holds the lease
takes up a completed job that has a slot. The code ensures neither. `slots_retry` is the
counterexample without the second, and its variant of section 4 without the first;
`OneCancellationIsSafe` says that one cancellation and no retry meet both, which is the instance of
`slots_three`.

**Staging_proofs** (four theorems): `SlotsAreHeld` and `NoBarging` of the limiter under `CallSpec`,
`KeptWhileFetched` and `NothingLeftBehind`. The queue has no duplicates and holds exactly the
waiting calls, the counted slots are those handed over and those held; a copy that is asked for
belongs to the source being staged or to a call that has given up.

**ContainerWorkflow_proofs**, **Adapters_proofs** (five theorems): `OnePost`, `Whole` and `Truthful`
of the three ways together, and `WholeFile` and the promise of `Submission` for an upload by itself.
A workflow: one call works at a time, because it has the claim or because nobody else knows the
workflow; a write that posts is only on its way while the doubt is stored; a workflow in doubt is
not gone on with; and a failure is said only if nothing was posted and no such write is out. An
upload: every chunk anywhere carries the bytes its offset promises, the stored bytes are a prefix of
the file (`StoredInv`, `SentInv`), and a reader knows how far its source goes (`Reading`), so that
the last chunk is out only if the length is right. An attached post: the post is asked for when all
attachments are confirmed, and photos are removed only when the post was refused or never asked for.

**Scheduler_proofs** (ten theorems): the invariant `IInv`, type correctness, all seven safety
properties of the Scheduler and `KeysAreKept`, for any number of runners, callers, lanes and
revisions. The argument has two layers.

*Whatever expires*: `SchedulerTypes`, `StoppedStaysStopped`, `OnlyTheHolderRecords`,
`LanesGoInOrder` and `KeysAreUsedAsPromised` hold even if leases expire under a retry. The holder of
the lease has read the present revision and a caller that holds it knows of no step in flight
(`HolderInv`, `FencerInv`), and nobody else puts a step in flight or settles one. The order of a
chain rests on more (`OrderInv`): a chain has no native route, so it is never moved once a step was
sent and all its claims are of the present revision; a step leaves pending only behind a published
one; and what is published is neither retried nor taken back. The keys need no lease at all
(`SpokenInv`): a key in flight is claimed and in flight at one runner only, and what its claim says
is so.

*While no lease expires under a retry* (`LeaseCoversRetry`): `OneCopyOfAStep`,
`SettledOutcomesAreTrue`, `CancellationIsQuiet`, `CompletionIsOver`. A key is sent only while its
step is in flight, and by the one call that marked it (`WorkInv`, `AloneInv`). The holder of the
lease has read the present revision (`LeaseInv`), so what it records is true of the present key
(`StepInv`). A caller that cancels or moves the job knows of every copy it has not withdrawn
(`MoverInv`, `WithdrawInv`), so no key of an earlier revision has a copy that may appear (`KeyInv`),
and at most one key per step does. What an action does to everybody who is not its actor is bounded
once (`Mild`), and each action then has to be followed for its own actor alone. None of these four
can do without the assumption: `scheduler_late_retry` is the counterexample to `CancelledIsQuiet`,
and with `RetryOutlivesLease = TRUE` TLC refutes `SettledIsTrue` and `CompletedIsOver` in the same
instance. It refutes `OneCopy` with two runners and a caller on a native lane: a retry sends under
the key of a revision that a move has left meanwhile.

Both layers assume, with the module, that lanes scheduled at the provider have one step, because
`#lanes` schedules only posts natively.

Only model-checked is everything temporal beyond safety (`RefreshEnds`, `QueueIsServed`,
`NeverStalls`, `InterruptedIsRecovered`, `Settles`, `Completes`), as TLAPS does not reason about
fairness and ENABLED. No module declares a RECURSIVE operator.

## 6. Not modelled

Most lines of the repository are not protocols. The platform files and the clouds, two thirds of the
code, turn requests into the HTTP interfaces of thirteen providers and their answers into types; the
rest of their volume is validation, manifests and messages. What can go wrong there is a wrong
field, which a model that abstracts fields cannot show. The models therefore stand for the part of
the code that keeps state, waits, or decides what to do after an answer that is missing, and cover
few of its lines. In particular:

* The drivers' SQL and Redis statements run in a database that is not in the repository; their
  contract, an atomic write under a revision and leases that expire, is assumed.
* Of the adapters only publishing, polling and resuming are modelled; reading, deleting and
  commenting are one request each. Thumbnails, captions and the creation of an upload session are
  left out.
* A cloud's record is not the post: its clients map one interface to another.
* Streams read one connection and never reconnect. The front ends make one client call each.
* The inbox is one pure step per call whose cursor holds the state of every source. Accepting a
  webhook is one atomic call of the application. The outcome reconciler makes calls that
  `Publication` already allows in any order.
* The DPoP nonce with its single retry, and the single use of media at a cloud, are local to one
  request.
* Cryptography, zone arithmetic, egress checks and manifests are pure functions.

Within the modelled parts: liveness of native lanes before their time, of two runners, and of chains
that `retryFailed` works on is not checked; nor are sequences with `stopOnFailure: false` and jobs
with both a native and a runtime lane.

## 7. Plan

Done, in the order of what would hurt most: Publication and `AtMostOnce`, Scheduler, QueueSlots,
Credentials, Connections and `ConnectionAttempt`, Limiter; then Staging, the connect handlers, and
the adapters with `Submission`; then `KeyedTargets` between Publication and Scheduler; all with
proofs of their safety.

What would come next:

1. `Scheduler`: jobs with both a native and a runtime lane in one run, and liveness of chains that
   `retryFailed` works on.
2. `Submission` and `Publication`: the reports `Publication` allows an adapter, as a refinement of
   `Submission` for every attempt, so that all three layers are joined by checked contracts.
3. The inbox's cursor under partial failure, the DPoP nonce shared by parallel requests, and the
   single-use claim of media at a cloud: small models of one request each.
4. Comments and deletions behind the same `Submission` promise, where an adapter repeats them.

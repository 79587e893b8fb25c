# TLA+ for seazn.club

Seazn.club runs tournaments: organisers create divisions, scorers record events
on fixtures from courtside pads, and the server folds those events into results,
results into standings, and standings into the next stage's draw. This directory
models the part of the system on which every published result depends, the
registrations that take entrants' money, the credits organisations buy and
spend, the events by which Stripe says so, and the undo history of the board;
checks them with TLC and proves their main guarantees with TLAPS. Paths are relative to the
repository root; `PROJECT.json` names the lines each definition stands for.

    tlc -workers 2 -config ScoreLedger.cfg MCScoreLedger.tla   # any run
    tlapm ScoreLedgerProofs.tla                                # any proof

## 1. The system

| Component | Where | State it keeps | Operations that change it |
|---|---|---|---|
| Fold kernel and sport modules | `packages/engine/src/core/events.ts`, `sports/*` | none: a pure fold over an event list | `foldMatch`, `resolveVoids`, `apply` |
| Fixture ledger | `apps/web/src/server/engine-db/append-event.ts`, `rebuild.ts`, `fixture-cfg.ts`, `usecases/admin-fixture-config.ts` | `score_events`, `match_states`, `fixtures` (status, outcome, `config_snapshot`) | `appendEvent`, `rebuildState`, `resnapshotFixtureConfig`, the config edit of `patchDivision` |
| Scoring requests | `usecases/scoring.ts`, `lib/cache.ts`, `device-score-pad.tsx` | the idempotency cache in Redis, each request's place in `scoreEvent` | lookup, entitlement, undo check, append, remember |
| Stage progression | `usecases/scoring.ts` (`onDecided`), `usecases/stages.ts`, `engine-db/competition.ts`, `engine/competition/stage.ts` | bracket slots, `standings_snapshots`, `stages`, `divisions.seq`, `division_events` | `onDecided`, `recomputeStandings`, `completeStage`, `seedNextStage`, `generateStageFixtures`, `maybeAutoAdvance` |
| Standings mathematics, draw generators | `engine/competition`, `engine/scheduling` | none | pure functions |
| Calendar and solver, AI scheduling | `engine/scheduling/{build,calendar,repair}.ts`, `usecases/*schedule*` | proposed and applied schedules, AI runs | build, repair, preview, apply, restore |
| Registrations | `usecases/registrations.ts`, the claim in `billing-events.ts` (`runEvent`) | `registrations` (status, pay window, intent, refunded), `entrants`, Stripe's sessions and charges | submit, checkout, webhook and return, sweep, withdraw, promote, refund, confirm, waive, waitlist |
| Credit wallet | `lib/credits.ts`, wallet moves in `usecases/billing-groups.ts` | the credit ledger (its buckets are sums), each metered run's place, the organisations' wallets | grants, purchase and refund of packs, earn, adjust, reserve, settle, release, merge |
| Billing events | `usecases/billing-events.ts` | `billing_events` (lease, attempts, `processed_at`) | `runEvent`, `replayEvent`, `sweepStuckEvents`, the handlers |
| Subscriptions, passes | `usecases/billing-*.ts`, `lib/billing*.ts`, `pass-credit.ts` | subscriptions, passes | subscription and invoice handlers, upgrades |
| Division history | `engine/history`, `usecases/history.ts`, the board edits of `schedule.ts`, `schedule-plus.ts`, `competition-schedule-apply.ts` | `division_events`, `divisions.edit_watermark`, the rows of `fixtures` | undo, redo, apply, move, shift, clear, pool clear, generate |
| Withdrawal, discipline | `usecases/withdrawal.ts`, `discipline.ts` | forfeits, suspensions | cascade, serve |
| People, entrants, officials, invites, links, claims | `usecases/*` | records and tokens | mostly one transaction each |
| Database access | `lib/db.ts` | | `withTenant`: one READ COMMITTED transaction |
| UI, API routes, mail, realtime, analytics, help, migrations | `apps/web/src/app`, ... | | rendering, parsing, fire-and-forget |

`PROJECT.json` lists every component with its status.

### How they interact

A pad sends one request body under one idempotency key and repeats it until it
is answered. `scoreEvent` looks the key up, reads entitlement and the undo target
in transactions of their own, and calls `appendEvent`, the only step under the
fixture's advisory lock. A decision, or a void that may have erased one, then
runs `onDecided`: it fills the winner's slot in the next fixture, pins ranks,
recomputes the standings and, with `auto_progress`, completes the stage - the
same `completeStage` an organiser's button calls, at the same time if need be.
Completion, seeding and generation are three transactions under the *division's*
advisory lock, each writing a `division_events` row and moving `divisions.seq`,
the watermark division-level undo compares against. Only after all of that is
the answer cached.

Before a division starts its places are registered and paid for. A submission
counts and inserts under the settings row; a checkout session is minted in a
call to Stripe and any session minted stays payable. A payment arrives as a
webhook, claimed by `runEvent` and stamped when its handler is through, and
again when the payer's browser returns. `confirmPaidRegistration` decides under
the registration's row lock; the refund it may owe is a call to Stripe after the
commit, and its record a third step. Withdrawal and the hourly sweep take
spots away and promote the oldest waitlisted registration in the same
transaction.

AI runs are metered: `spendCredit` reserves what a run costs, in a transaction
under the wallet's advisory lock, does the work outside any, and settles or
releases. A wallet belongs to a billing group and its organisations share it;
when the last one moves out it takes the credits along. Packs are bought and
refunded at Stripe, so the ledger hears of them in events, which `runEvent`
claims under a lease, hands to their handler and stamps; a sweeper takes up what
nobody stamped, three times, and then parks it for staff.

The board of a division is edited under the division's advisory lock, each edit
with an event. Undo appends the inverse of the last edit before
`edit_watermark` and moves the watermark back, redo appends a copy and moves it
forward. Scorers hold the fixture's lock, not the division's.

### What is hard about it

* **Interleaving.** Checks are read before the lock and used after it: entitlement
  and undo target (`scoring.ts` 154-275), the standings inputs (`competition.ts`
  250, 302), `max(seq)` of the auto-advance record (`scoring.ts` 410),
  `rank_overrides` (`scoring.ts` 322-363), the status a generated stage had
  (`stages.ts` 840, 1028).
* **Retries and crashes.** The pad retries; Redis fails open; a process can die
  between any two transactions of a hook.
* **Undo.** A void removes any earlier event, so a suspension or a decision can
  come back from under later events, and every cache must follow.
* **Config under recorded events.** The format lock is a check without a lock;
  the config is frozen on the fixture with its first event, and staff can
  re-freeze it.
* **Two definitions of "finished".** The hook's and the completion predicate's.
* **Money outside the transaction.** Stripe charges and refunds between the
  transactions that record them; payments and refund events come late, twice
  and out of order, and race withdrawals and expiry (`registrations.ts`
  1191-1326, 1457, 1811, 1892).
* **A lock that not everybody takes.** `release` and the trial grant write the
  credit ledger without the wallet's lock; which wallet is an organisation's is
  read before the transaction that uses it (`credits.ts` 79, 1328).
* **At-least-once delivery under leases.** A handler may be slower than its lease,
  die after its effect, or be swept twice (`billing-events.ts` 2184-2276).
* **A history with branches.** Inverses and copies sit in the same ledger as the
  edits; a watermark that one writer forgets to move makes the fold of the
  ledger and the table two different things.

### What makes each component correct

* Ledger: the recorded events always fold again; the caches are their fold;
  status follows the surviving events; a final result stays.
* Requests: one write per client action, one undo per event, no false acceptance,
  device links confined, and all of it equal to an atomic ledger.
* Progression: every structural step once and in order; the watermark is the
  tip; what advanced stays; a swiss stage plays all its rounds; the tables of table
  stages and rank locks catch up; a ready stage eventually progresses.
* Registrations: no place sold twice; a place paid for keeps its money; a second
  or a late payment goes back; entrants are the confirmed registrations; the
  books never show less returned than Stripe returned.
* Wallet: every cause is booked once, for no more than it is worth; a refund goes
  where the debit was; no wallet ends below zero; caps hold; a run is charged in
  full or given back in full.
* Inbox: a stamped payment is booked; an event received is in the end stamped or
  parked.
* History: the fold up to the watermark is the table; what is decided stays.

## 2. The modules

    GenericSport <- FoldKernel <- FixtureLedger <- ScoreLedger
                                       ^               ^
                        FixtureLedgerProofs <-- ScoreLedgerProofs
    StageProgress <- StageProgressProofs
    Registrations <- RegistrationsProofs
    CreditPool  <... CreditWallet <- Billing -> WebhookInbox
                          ^             ^
               CreditWalletProofs <- BillingProofs
    DivisionHistory <- DivisionHistoryProofs
    Induction <- FixtureLedgerProofs, CreditWalletProofs, DivisionHistoryProofs

(`<-` is EXTENDS, `<...` a refinement: CreditWallet instantiates CreditPool.)
`MC*` modules give the constants values; `*Proofs` modules hold the theorems.

**GenericSport** is the `generic` sport module as a transition function over
`[phase, score, outcome, running]`. A fold that throws is the state `Refused`.
Scores are small integers, entrants are the two sides.

**FoldKernel** is `resolveVoids` and the loop of `foldMatchWithStoppage`, with the
two ways an event is barred: after a decision, and during a stoppage.
`ResolveVoids` is the set of the places that survive, where the code filters the
list: a place in the ledger says the order too. `FoldOver` folds over that set,
the last place last, with the fold of the community modules, so that the modules
above can be proved about.

**FixtureLedger** has the rows `fixture`, `ledger`, `matchState` and the
division's live config. `AppendEvent`, `RebuildState`, `ResnapshotFixtureConfig`
each commit under the fixture lock, so each is one action. `EditConfig` is not:
`patchDivision` checks that no fixtures exist without a lock, so its commit may
land at any later moment. `LedgerSpec` is the *abstract specification* of
scoring: what one atomic writer would do.

**ScoreLedger** extends it with the requests. A handler has a program counter:
`Receive` (lookup) - `AssertEntitled` - `AssertUndoTarget` - `AppendAccepted` or
`AppendRefused` - `Remember`. `Crash` ends it anywhere. `Send` fixes a body once;
`Receive` may be repeated for the same key by any handler, which covers retries,
duplicates and late arrivals. `answers` is a history variable: every answer
given under a key.

**StageProgress** has the rows of a division and, per handler, the place of its
request and what that request has read. One action is one transaction, or the
part of it before or after the division lock where the code reads first and
locks second (`RecomputeRead`/`RecomputeWrite`, `CompleteRead`/`CompleteWrite`,
`GenerateRead`/`GenerateFixtures`, `MarkRead`/`MarkInsert`). A fixture is met by
its `Sides`: who was drawn, and the winners its feeders sent. `rankLocks` is
`config.rank_overrides` of each stage by entrant, the key the code filters by,
so a later placement game replaces what its two held from an earlier one.
`ReadStandings` is `getStandings` on a stage of any kind in `Watched`. A standings table is the function from fixtures to
outcomes it was folded from, which keeps apart every table the properties need
to tell apart. Scoring is reduced to the rows a ledger commit leaves: a result,
its undo, a note, or finalize. `MarkInsertTears` is the unlocked insert landing
between another transaction's `max(seq)` and its insert: the unique constraint
on `(division_id, seq)` rolls that transaction back. `GenerateFixtures` may do
nothing, for the paywall and entrant checks that are not modelled.

**Registrations** has one division that takes cards: `row` and `entrant` are its
tables; `sessions`, `paid`, `returned` and `notices` are Stripe's side; `handler`
is where a request or webhook delivery stands and what it read. One action is
one transaction or one call to Stripe. `SubmitCount` takes the settings row lock
and counts, `SubmitInsert` commits and frees it. `ConfirmPaid` is
`confirmPaidRegistration`'s transaction with its three outcomes: `PaidTwice`,
`PaidLate`, `PaidInTime`. The webhook runs it after its claim, as one action,
for nothing it uses is read before; the payer's return reads the status first
(`ReturnFromCheckout`) and settles after (`Settle`). `StripeRefund` and `Record` follow for
whoever owes a refund, told apart by `mode`. `Stamp` is `processed_at`; a webhook
that crashed before it is delivered again. An intent is a pair of the registration and
the number of its session, so which session a payment is for is never
ambiguous. `Promote` stays inside the transaction that frees the spot. Registrants are numbered
by `created_at`. `paid`, a status no commit leaves behind, is left out.
`beyond`, `byHand` and `missed` are history variables that say which cases the
properties exclude, so that they can be stated without weakening them elsewhere.

**CreditPool** is the *abstract specification* of the credit ledger: a pool of
credits per wallet, changed by causes that take effect at most once, each within
its least and its most, a refund only where what it takes back took effect; and
credits that move between wallets whole. It has no buckets, locks or requests.

**CreditWallet** has the ledger as `entry` and `delta` by cause (an idempotency key,
or the run of a hold), `balance` as its sum per bucket, the organisations'
wallets, and the place of every run and move. A transaction under the wallet's
lock is one action unless something that takes no lock can come between its
reads and its writes: `ReserveRead`/`ReserveWrite` and `Begin`/`CommitMove` are
two, for `Release` and `GrantTrial` can. `homes` keeps the wallets an
organisation has been in: whoever read its wallet earlier may act on any of
them (`Resolved`). The CHECK on `balance_after` appears as the guard that aborts.
The ledger row of `settle` changes no balance and is only a step of the run.

**WebhookInbox** is `billing_events` and `runEvent` without what the handlers do: claim
under a lease, handler, stamp; the sweeper that counts failures and parks; a
lease that expires whether or not its handler still runs. **Billing** composes it with
CreditWallet: `Handle` is the handler of a purchase or refund, between claim and
stamp, while the wallet's own steps go on.

**DivisionHistory** has the fixtures of a division, its ledger and the watermark.
`Effect`, `Inverted`, `Fold` are the engine's registry, `Execute` is the use case's
executor on the table; the two are written apart, as in the code, since that they agree is
the question. A request takes the division lock and reads (`Take`), then writes;
`Score` is a scorer in between. `MoveRead` reads before the lock, as `moveFixture`
does. A fixture is (pairing, how many times generated): a row put back from a
snapshot keeps its id and loses its `ext_key`, one made again has a new id.
The five event types that move fixtures share one: their apply, inverse and
executor are those of a list of moves. A redo of a generation without snapshots
leaves its request at `Generate`, a transaction of its own. `detached` is a
history variable: what has set ledger and table apart, so that the properties can
say in which histories they agree.

## 3. The runs

| Run | Question | Instance | Result |
|---|---|---|---|
| `FixtureLedger` | Does any sequence of events, undos, edits and repairs leave a ledger that does not replay, a stale cache, a wrong status, a changed final result? | eleven kinds of event, three configs, at most five events and two edits | holds, 193k states |
| `ScoreLedger` | Do retries, crashes and races write or undo twice, or acknowledge falsely; do links stay confined; do requests implement `LedgerSpec`? | three keys, two handlers, an assigned scorer and a link; undo, abandon, finalize | holds |
| `StageProgress` | Do racing, crashing completions keep the division's structure in order? | two swiss rounds, then a final; two handlers; three results, one crash; readers of the first stage | holds, 1.91m states |
| `StageProgressAlone` | Does one request at a time keep tables, rank locks and slots right? | a league, then a stepladder of two placement games; every kind of outcome; five commits; readers of both stages | holds, 464k states |
| `StageProgressFair` | Does a ready stage eventually progress? | two handlers, one crash, `FairSpec` | holds, 414k states |
| `StageHalfSeed` | Can a next stage be seeded from a half-finished one? | a league of two fixtures, then a final; two handlers | **violated** |
| `Registrations` | Do submissions, payments, withdrawals, sweeps, promotions and the organiser's acts, raced and crashed, oversell or misplace money? | two registrants, one spot; two handlers; two sessions each and two payments, or one session and two acts by hand; a fee of two units; one failure | holds |
| `RegistrationsLate` | Is every late payment sent back? | one registrant, two sessions | **violated** |
| `CreditWallet` | Do the wallets implement the pool, keep the caps and charge runs right? | two organisations in one group, two wallets, two runs of cost 3 under a cap of 5, a pack of 2, two milestones, a trial, a staff debit, two months; two moves, one crash; at most five entries, moves and crashes together and two requests at a time | holds |
| `Billing` | Is a stamped payment booked, does every event settle? | one pack, its purchase and its refund; two workers; one replay before parking; one move, one crash | holds |
| `DivisionHistory` | Is the fold the table, through undos, redos and races; does a decided fixture stay? | two pairings, one in a pool that can be emptied, two slots, two requests, four events, two acts of scorers | holds, 1.68m states |
| `HistoryStale` | And after an edit of the board behind the head? | the same | **violated** |

**Why the bounds are enough.** A race of two steps needs two handlers; a third
party to it (the one whose write makes a reading stale) is there as a completed
request, which frees its handler. `ScoreLedger` has three keys because a
double undo needs an event and two undos of it. Five events in `FixtureLedger`
hold the longest hazard: start, suspend, result after resume, void of the
resume. Two edits are one config change and one re-freeze. Two stages give one
of each transition (completion, seeding, generation, end of division), and two
swiss rounds are the least with a "more rounds to pair" state.
`StageProgressAlone` has no second handler: its invariants are false with two,
as section 4 says, and what it checks is that nothing but concurrency breaks
them. Its stepladder is the least bracket in which an entrant plays two placement
games. Standings are asked for where it matters that they are (`Watched`): of the
first stage in `StageProgress`, of both in `StageProgressAlone`, of none in the
liveness run. Symmetry is used for keys and handlers only, and never with liveness.
For registrations, two registrants and one spot is the least division with
somebody waiting; two sessions and two payments are the two tabs (of one registrant or
one each); a fee of two units is the least that can be refunded in parts. That
the oldest of several waiting is promoted needs a third registrant, and no property
here is about that order. Two runs of cost 3 under a cap of 5 are the least that
a cap must tell apart, two organisations the least group that one can leave and
the other close; five entries, moves and crashes hold a grant, two holds, a
move and a refund. In `Billing` the monthly grant is left out and moves do not
crash (`CreditWallet` has both), and one replay stands for the code's three: the
sweeper goes through replay, failure, count and parking with either. Four
events of history hold generate, place, undo, and one edit or redo more; the second
organiser only moves and undoes and only pool fixtures are scored, which keeps
every race of two requests and a scorer. The theorems of section 5 hold without these bounds.

`CHECK_DEADLOCK FALSE` is set where a finite number of keys, events, scores,
edits, sessions, payments, causes or events runs out.

**Fairness.** `FairSpec` assumes that an accepted request keeps running unless
it crashes (weak fairness of `Transaction(h)`: the server awaits each step in
turn), and that an organiser who keeps pressing Complete on a stage gets
through when a handler is free now and then (strong fairness, since handlers are
intermittently busy). Nobody is obliged to score, to read standings, or to
generate by hand. For `EventsSettle`, a handler that was entered returns or throws
and a transaction under a wallet's lock ends (weak fairness: the process awaits
each), the clock runs (leases expire), and the hourly sweep takes up each stuck
event now and then although workers and leases come and go (strong fairness per
event). Handlers may throw every time; nobody is obliged to deliver.

## 4. Where code and documentation disagree

* **A stage can be seeded from a half-finished table** (`StageHalfSeed`).
  Completion writes the table, seeding reads it in a later transaction; a
  scoring hook that read the stage before its last result writes in between.
  A seeded stage is never seeded again.
* **A second late payment is kept** (`RegistrationsLate`). `registrations.ts:1213`
  promises to send money landing on a dead registration "straight back". The
  charge sent back is the *recorded* one: with two tabs paid after an expiry, the
  second payment asks Stripe to return the first again, and is kept.
* **A board edit after an undo is behind the watermark** (`HistoryStale`).
  `applySchedule`, `moveFixture` and the joint apply leave `edit_watermark` where the
  undo put it; shift, clear and generation reset it. The engine's "fold(events <=
  watermark) is always the current schedule state" fails, the next undo takes back
  an edit before the one just made, and redo replays the undone one over it.

Met while modelling, and without a run of their own.

In scoring and progression: a retry that arrives before the first attempt has run all its
hooks, or after it died between commit and `cacheSet`, is told `SEQ_CONFLICT` for an
event that was recorded, where `scoring.ts:91` says "same answer, no double write"
(the second half is proved); `maybeAutoAdvance` (`scoring.ts` 400-403) counts
finalized and abandoned fixtures as open, so a scorer who finalizes each match as it
ends stops the automatic progression; two overlapping completions
record `stage_completed` twice (the completed test, `competition.ts` 302-305,
reads a row from before the lock); `stage_auto_advanced` is recorded although
nothing completed, as after every swiss round but the last (`scoring.ts` 408);
an older table can overwrite a newer one and stay until the stage's next scored
event; of two placement games decided together one loses its rank locks; a
bracket slot keeps its first winner when the result is corrected, which
`SlotsStand` states as the behaviour it is; a generator that read its stage as
`pending` and waited for the lock while the stage was generated, played and
completed by others sets it back to `active` (`stages.ts` 840, 1028), the one
exception `AdvancementStands` makes; asking for a knockout stage's standings
stores a snapshot that no result refreshes (`stages.ts` 1303-1314 against
`scoring.ts` 382), so `StandingsCatchUp` is about table stages; rank locks go by
entrant, so a placement game annotated or finalized after its winner's next one
pins the earlier ranks again, and those of an undone game stay, for which
`PlacementsPinned` allows; a crash between a deciding
commit and `onDecided` leaves slot and table behind until a later event.

In the ledger: the comment at `admin-fixture-config.ts:283` says that a re-freeze
can change a result or un-decide a fixture, in sports whose config says when a
match is over. The generic sport's does not, so no run shows it; `ResultStands`
promises nothing of a re-freeze.

In the wallet: a pack bucket can go below zero when a release gives grant credits
back between a reserve's reading and its writing, contrary to `credits.ts`
1214-1218, and then the monthly expiry can fail until credits are bought; a
clawback takes from the wallet the pack was bought for, also when a merge has
carried its credits on; a `charge.refunded` that is handled before its purchase is
stamped and forgotten; overlapping sweeps can take an event past the cap without
anybody parking it; a process that dies in the metered work leaves its hold
charged; two organisations that leave a group at once leave its credits behind.

In the history: redo passes over an inverse that was itself undone (edit, undo,
edit, undo, undo, redo) and then the table is not the fold; redo of a generation
runs the generator after its own commit, with new ids and another event at the
head, and a crash in between leaves no fixtures; the results guard asks for
`decided` only, so undoing a generation or emptying a pool deletes fixtures in
play, forfeited or finalized with their score events, where `history.ts:229` says
"never silently discard a scoresheet"; rows put back have no `ext_key`, so the
next generation makes their pairings again; `restoreCheckpoint` compares the
watermark in one transaction and undoes in another, so two restores at once go
past the checkpoint (`history.ts` 529-536); a shift does not repeat `status <>
'decided'` in its update.

## 5. What is proved

For every number of handlers, keys, events, stages and fixtures. The assumptions
are the named `ASSUME`s. They type the constants, say that `Null` is none of the
values it is absent from, and say a few things more, each at its line in the modules:
that a result card names as its winner one of the two sides or nobody (`sideOf`,
`generic.ts` 85-89, refuses anybody else), or that fixtures are finitely many. What is said of caches, replays and requests
holds of every sport, for those proofs never look into the fold; what is said
of status, stoppages, open fixtures and results rests on what the generic
module and the kernel compute.

**Induction** (285 obligations) has what the proofs about folds and sums rest on.
Least and greatest elements of a set of numbers, and induction over numbers
(`UpTo`) and over subsets (`SubsetInduction`), are stated for sets and proved by
a minimal counterexample. That a recursive function satisfies its equations is
not given either: `SummingExists` builds the sum up by the size of the sets,
`SummingUnique` shows there is no other, and `SumTakesOut`, `SumSame`, `SumOneMore` and
`SumOfFewer` say what `SumFunctionOnSet` returns.

**FixtureLedgerProofs** (1193 obligations)
* `LedgerTypeCorrect`, by itself inductive: `seq` is gapless.
* `CacheCorrect`, `ReplayCorrect`. Neither property is inductive alone. That the
  caches are the fold *under the config the fixture reads* survives a config
  edit only because an event freezes the config, and that holds only because an
  unscored fixture has no cache. `CacheInv` joins the three.
* `FinalizedStays`, an action property: every writer tests the lock status.
* `StatusCorrect`. `StatusInv` tells the finalized fixture apart, whose row keeps
  the word its last event gave it. A rebuild and a re-freeze do not write the
  status, so it must also be that what they compute is what is there.
* `StoppageCorrect`. The fold is shown equal to one step more on a shorter fold
  (`AppendFolds`); between a suspension and the next resume the accumulator says so,
  and from there on an event is barred.
* `ResultsStand`: an appended event finds the fixture decided, and what may follow
  a decision leaves the outcome alone; a rebuild computes what is there. A
  re-freeze is exempt, as in the property.
* `NobodyLockedOut`. A note is always accepted, by the generic module and in every
  phase; but it is refused with the whole ledger if the draw on record is one the
  stage does not take. `DrawInv` says the frozen config always absorbs it.
  The staff preflight asks only whether the recorded events fold under the new
  config; that this is enough is a fact of the generic sport, in which two configs
  that both read a ledger read the same state in it (`ReadsSame`).

**ScoreLedgerProofs** (650 obligations)
* `TypeCorrect`.
* `WritesAtMostOnce`. The reason is `expected_seq`, not the cache: `PlaceInv` says
  that a client saw a tip no longer than the ledger (`TipsSeen`) and that an
  event of key `k` sits exactly at `k`'s expected place plus one
  (`EventsWhereExpected`). Two events of one key would share a place.
* `UndoesAtMostOnce`. A handler past the undo check holds a fact about a ledger
  that may have grown; `CheckedUndoHolds` keeps it for the prefix that the
  request expects, and the append succeeds only if that prefix is everything.
* `AcceptancesTrue`. Cached, pending and given acceptances all name a recorded
  event (`AcceptancesRecorded`).
* `LinksAreConfined`. The check on a device link is made before the lock and used
  under it; `CheckedLinks` carries it there as a fact about entries of the ledger,
  which later entries cannot change.
* `RequestsImplementLedger`. Every step of the interleaved system is a step of
  `LedgerSpec` or leaves its variables alone.
* `ScoringKeepsFixture`: hence six of the ledger's properties (all but
  `ResultStands`) hold of racing, retried and crashing requests.

**StageProgressProofs** (2450 obligations)
* `ProgressInvInductive`. The order of the division ledger is not inductive: a
  request acts on what it established two transactions ago. `ProgressInv` says
  that every record was justified by the ones before it (`LogInv`), that a
  complete or seeded stage is on record (`StageInv`), and that every request in
  flight still stands on records that exist (`RequestInv`), which survives other
  requests since records are never removed (`Grows`).
* `WatermarkCorrect` and `OrderCorrect` follow.
* `RowsTypeCorrect` and `CompletionsCoverRounds`. Readiness is judged on fixtures read
  before the lock. `ReadsInv` says what such a reading is worth later: the fixtures
  in it still exist, for rows come and are never removed (`RowsStay`), and the
  table folded from them is one of the stage.
* `SlotsAreKept` and `AdvancementIsKept`, action properties of the same invariants:
  only a generator that read `pending` takes a complete stage back.
* `StructureHappensOnce`. That a step is not taken twice needs that its trace is never
  wiped: a completed table stage has a snapshot (`SnapshotTaken`), so a seeding
  leaves a seed list (`SeededStands`), a division completed says so (`DoneStands`),
  and a generated stage has nothing left to generate, or is swiss and has its
  rounds 1 to n without a gap (`Generated`). This is where the assumptions that
  there are finitely many fixtures and that the first stage is generated at the
  start are used.
* `TablesCatchUp` and `PinsCatchUp`. `StandingsCatchUp` and `PlacementsPinned` are false
  of requests that overlap (section 4), so these theorems say *which* overlaps it takes. The
  first adds to `Spec` that no result of a stage is committed between a request's
  reading of the stage and the write of its table (`NoResultBetween`); the second
  that no other rank lock of the stage is written between `onDecided`'s reading of
  the config and its own write, and that its game gets no other result meanwhile
  (`NoPinBetween`). All other interleavings of any number of requests are
  allowed. `StandInv` and `PinInv`: what is behind has a request on its way that
  will put it right, and what such a request has read is still so. Every table
  stage has the table of its results; both players of a won placement game have its
  ranks or those of another one they are in. The second needs that a game is only
  won by those who are in it (`PlayersWin`), which lasts because slots do
  (`SidesStay`). Both properties are about divisions in which no request crashed.
* `TablesCatchUpAlone`, `PinsCatchUpAlone`: with one handler the conditions hold
  of every step, so the theorems need none. This is the case
  `StageProgressAlone` checks.

**RegistrationsProofs** (2555 obligations), for any number of registrants,
spots, handlers, sessions, failures and acts by hand
* `TypeCorrect`, with `JobOK`: what a handler between two steps holds.
* `NeverOversold`. The bound on the spots held is not inductive: a submission that
  has counted holds a spot no row shows. `SpotsCounted` counts it, and
  `InsertInv` says there is one at a time, because of the settings row lock, and
  that its row is not there yet. A withdrawal or an expiry gives at most its own
  spot to the promoted registration (`SpotHandedOn`).
* `EntrantsAreConfirmed`.
* `PaidPlacesAreKept`. A refund is decided in one transaction and made after it,
  so what must be invariant is about the refunds in flight: every charge that is
  returned or about to be is `Spared`, that is, its registration is dead, or was
  settled by hand, or rests on another charge. That lasts because a
  recorded intent is never replaced and only the organiser brings a dead
  registration back (`RowStep`).
* `BooksKeepUp`. `Known` is inductive: each refund of a charge is an event still to
  come, an event that matched no registration, or in the books. It needs `BooksInv`:
  what a refund under way stands on (`JobsSound`), that a live registration nobody
  touched has had nothing back (`RowsSound`), and that an event never says more than
  was returned (`NoticesSound`).
* `DeadAreRefunded`, by `DeadRepaid`: whatever step makes a registration owe its
  payment begins the refund in that step, and only the Stripe call or a counted
  failure ends one.
* `DuplicatesGoBack`, by `DuplicatesFound`: an event is stamped only by a handler that
  found its payment recorded, found the registration dead, or has sent it back.

**CreditWalletProofs** (1921 obligations), for any number of organisations, wallets,
runs, purchases, months, moves and crashes
* `WalletTypeCorrect`, `RunsChargedRight`, `WalletsStaySolvent`. None is inductive
  alone. `WalletInv` adds that a wallet's lock has one holder (`LocksApart`), that
  the grant credits read under it are still there (`ReadingsHold`: whoever takes no
  lock only adds), that a move goes between two wallets that exist (`MovesSound`),
  and that a hold only debits (`HoldsDebit`), so that giving it back only adds.
* `CapIsKept`. What an organisation has spent is a sum over the holds of this month
  that were not given back. The cap was checked on a sum read earlier:
  `ReadUnderCap` says the run still fits when it writes, for releases and the
  turn of the month, the only things to come between, take terms out of the sum.
* `EarnCapIsKept`: a sum over what organisations earned into the wallet, which
  moves do not touch, since a row keeps the wallet it was written for.
* `LedgerImplementsPool`: every action maps to `Apply` of one cause, to `Carry`, or to
  a stutter.

**BillingProofs** (323 obligations)
* `BillingTypeCorrect`, `StampedIsApplied`. A stamp is only as good as the handler
  before it: `HandledIsApplied` says that a worker about to stamp a purchase has
  booked it, which no other worker and no expired lease can undo since rows are
  never removed (`EntriesStay`).
* `BillingKeepsCaps`: caps and runs stay right while handlers run twice or late.
* `BillingImplementsPool`: the inbox adds no step that the pool does not allow.

**DivisionHistoryProofs** (1878 obligations)
* `HistoryTypeCorrect`: the lock has one holder, because everything that takes it
  waits for it; the watermark is a place in the ledger; inverses, copies and
  enriched events are events.
* `DecidedUntouched`, an action property: whatever the event says, the executor
  passes over decided rows (`ExecuteSpares`), also when the guard looked too early.
* `HistoryFolds`: the fold up to the watermark is the table, unless `detached` names
  a cause. Undo takes back the last edit *before* the watermark while its inverse
  is appended at the *end*, so two folds have to be followed: that of the whole
  ledger and that of the part before the watermark. `Linear` says both are the
  table, that every event fitted the fold it was appended to, and that the
  generator's numbers have no gap. From that the inverse of an event fits the fold
  after it and leads back to the fold before it (`BackFolds`), the executor does on
  the table what the registry does on a fold (`ExecuteFolds`), and the events that
  undo or redo pass over move nothing (`PassedOver`). `Current` carries what a
  request read over to when it writes: whoever holds the lock, or a move whose
  `expected_seq` still is the head, finds it unchanged. A row that was deleted must have
  lost its place (`NoGhosts`), or a row put back would not be the one folded.

**Only model-checked.** Liveness (`ReadyStagesProgress`, `EventsSettle`), which is
beyond the prover. Every other property that a passing run checks is stated by a
theorem. The findings of section 4 are TLC's counterexamples. What the theorems
do not reach is the other sports behind the fold (see above which theorems
need the generic one).

## 6. What is not modelled, and why

* In the ledger: game-time stamps, lineups, the hash chain (`prev_hash`), feature
  gates and frozen competitions, rate limits. They refuse a request or add a
  column; no property here tells them apart from a refusal.
* In `scoreEvent`: discipline and news hooks, realtime and cache invalidation after
  the answer.
* In progression: loser and cross feeds, byes, pools, ladders and americano,
  editing or deleting stages, and ranks overridden by hand. `loadStageInputs` issues several statements
  in one READ COMMITTED transaction; they are read as one here. What standings
  rows say is abstracted to what they were folded from.
* In registrations: divisions that are free or paid offline, where no money moves
  through the system; disputes; edits of the settings and of the plan's limit
  while registrations exist; the locked fee rate, earned credits, mails; the
  persons a confirmation creates. A session is minted from the status the
  request read, here in one action with it, so none is minted for a
  registration that was withdrawn while the request ran; that session would be one
  more late payment. The lease of a webhook claim is taken to outlast its handler.
  `skip locked` in the promotion never skips: transactions are atomic here.
* In the wallet: complimentary plans and the catalogue of packs, audit rows,
  low-balance alerts, and `balance_after` except as the CHECK it carries. A reserve
  and a move hold their lock from reading to writing; the other locked writers
  are one step, for nothing that comes between theirs changes what they do.
* In billing events: subscription, invoice and dispute handlers, seat quantities,
  transfers of ownership, repricing. They follow the payment provider's state
  machine, and no document here says what their order must be.
* In the history: checkpoints and restore (a run of undos), pins and scope locks,
  feeds between fixtures, and the conflicts that make a board edit refuse.
* The other sports, the solver, AI prompting, and everything that only renders,
  parses, mails or publishes: pure functions with golden tests, search, or I/O.

## 7. Plan

Done: the modules above and their proofs. What would come next, in this order:

1. **Withdrawal** and **Discipline** on top of FixtureLedger: a cascade that stops
   half-way can be re-run; suspensions follow undone results.
2. **Draws** (`roundrobin.ts`, `bracket.ts`, `swiss.ts`, `qualification.ts`): pure functions
   against what a draw must be, over bounded inputs.
3. Checkpoints and restore on top of DivisionHistory; event passes on top of Billing.

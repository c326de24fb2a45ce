# Waga: specifications and proofs

Waga collects market prices from agents in Addis Ababa over Telegram, has them
reviewed, publishes an index from the accepted ones and sells access to it. It
is a FastAPI service (`src/app`) over PostgreSQL, with a Telegram bot
(`src/telegram_bot`) as a client. This directory holds TLA+ specifications of
the parts where requests meet in the database, the TLC configurations that check
them and TLAPS proofs about them.

## How the program behaves under load

Everything below rests on a few facts of the runtime, and the modules model them
rather than ideal transactions.

* Each HTTP request has one `AsyncSession` (`app/database.py:31-36`), PostgreSQL
  runs at its default READ COMMITTED, and any number of requests overlap.
* A plain SELECT puts a row in the session's identity map. A later SELECT of it,
  `FOR UPDATE` included, locks the row but returns the object with the values it
  was loaded with (no `populate_existing` is used, and `expire_on_commit=False`
  keeps them over a commit). Only a rollback expires them.
* A commit writes the columns whose value differs from the loaded one, as
  absolute values: `x += 1` is read, add, write.
* A bulk `UPDATE ... WHERE` works on the rows of its snapshot. When it waits for
  a row lock it looks again at that row only, and never sees rows inserted since.
* A process may die, or a statement fail, between any two steps: the open
  transaction is rolled back, what was committed before stays.

So a request is modelled as the actions between which another request can run:
one per row lock that is waited for, per call of an outside service and per
commit. What it read before is carried in the request's record.

## Inventory

| Component | State | Operations | Hard behaviour |
|---|---|---|---|
| Score, reports, reviews (`agent_score.py`, `submissions.py`, `reviews.py`) | contributors' counters and ban, submissions, verifications, events, payout requests, index values | submit, score hook, accept, flag, redeem | no row locks at all: lost updates, double reviews, double payouts; the bot's retries |
| Applications and invites (`agent_applications.py`, `agent_score.py:94-210`) | applications, invites with `uses_count` | submit, approve, reject, create, activate, deactivate | check-then-write without a lock |
| Sessions (`auth.py`, `repositories/auth_sessions.py`) | users' `auth_version`, token families | login, refresh, logout, logout everywhere, change password | rotation races, reuse detection, bulk revocation against inserts, lock order |
| Accounts (`auth.py`, `subscriptions.py:84-154`, `commands/create_admin.py`) | users' password, status, failed attempts, `locked_until`; invites of staff | create, invite, accept, register, log in, change and reset a password | attempts are not reset when the lock-out ends; requests go on with rows they loaded before; a reset takes no lock |
| Subscriptions (`subscriptions.py`) | one subscription per user, usage per day | trial, lazy expiry, export, cancel, activate, admin update | objects a context keeps, older than the lock |
| Payments (`chapa.py`) | payment transactions | checkout, webhook, polling | calls to Chapa inside a transaction, two transactions for one payment |
| Plans (`subscription_plans.py`) | plans | create, update, delete | reference check before the delete, `ON DELETE SET NULL` |
| Index (`index_calculation.py`) | index values | recompute on acceptance, rebuild | two acceptances at once; weighted median |
| Reference data (`reference_data.py`) | markets, commodities | create, update | edited while answers are put together |
| Reads (`prices_read.py`, `heatmap.py`, `alerts.py`, `affordability.py`, `business.py`, `brief.py`, `research.py`) | none | one answer from several statements | the catalogue and the index change between the statements; days that are over must not |
| Exports (`exports.py`), copilot and chat (`copilot.py`, `addis_chat.py`) | none | a query; advice worded by a language model | the model refuses, or does not answer |
| Review triage (`review_triage.py`) | a label of the report | once, after a report is stored | it delays the answer to the bot |
| Telegram bot (`telegram_bot/`) | a conversation state per chat and flow, `user_data`, the agents and bans it knows, all in memory | report a price, apply, activate an invite | two flows share `user_data`; answers and posts are lost; restarts; handlers in parallel in webhook mode |
| Dashboard, notifications, seeding, migrations | none of their own | | |

The API routes connect them: a review (`reviews.py`) changes the contributor
through `agent_score.py` and publishes through `index_calculation.py` in one
transaction; approving an application writes the same contributor row; a Chapa
webhook concludes a payment and then activates a subscription in a second
transaction; exports ask the subscription for the tier and the quota; the bot posts reports,
applications and invite codes and asks for the agent's standing; every
authenticated route loads the user (`get_current_user`) before its own work.
`PROJECT.json` lists every component with its status and, under `hazards`, the
lines that are hard to test.

## Modules

| Module | Models |
|---|---|
| `AgentScore` | contributors, reports, reviews, redemptions and approvals |
| `IndexCalculation` | the published values of one market and commodity |
| `AgentOnboarding` | applications, invites and the contributors they create |
| `AuthSessions` | refresh-token families and access tokens of one user |
| `Accounts` | how an account comes to be, log-in and lock-out, passwords and the access tokens issued under them |
| `PaymentLifecycle` | abstract: what a payment promises |
| `Billing` | subscription, payments, plans and exports of one subscriber; implements `PaymentLifecycle` |
| `PriceReads` | what the read services compute from the catalogue and the stored values, as operators |
| `MarketReads` | a read request, statement by statement, while the catalogue and the index change; extends `PriceReads` |
| `SubmitFlow`, `ApplyFlow` | the callbacks of the bot's two conversations, as functions of a state, an update and `user_data` |
| `TelegramBot` | the chat: dispatch, awaits, the API, lost calls and restarts; extends both flows |
| `MC_*` | values of the constants for TLC |
| `*Proofs` | theorems and their proofs |

### AgentScore

`agent[a]` is the row of a contributor, `verdict` the outcome of each report,
`ledger` sums and tallies of `agent_score_events`, `indexed` the reports with an
index value, and `inflight` the requests between the read of the contributor and
the commit. `ReadFor...` is a handler up to its last check, `Commit...` its
writes; `Merge` is the ORM's UPDATE: it overwrites the columns the request
changed. `raced` records the agents some of whose writers overlapped, because
no lock protects the row: exact accounting is stated for the others, and what
survives the races is stated without it.

The contributor and the consent of a submission are read in one step although
they are two SELECTs; the unique constraint on consents decides at commit either
way. The value of the index is represented by its existence. `is_agent` is set
for every agent here; `AgentOnboarding` is about how it comes about.

### AgentOnboarding

`contributor[p]` is the row of a person, if there is one, `app[i]` an
application, `invite[c]` a code with its limit and `uses_count`. A handler is
one action per query after which its checks continue, and one for its commit;
`req[w]` holds what it has read: the contributor's row and the code's
`uses_count`. `Conflicts` is the unique constraint on `telegram_id`, after which
only `Abort` is left. `Ban` stands for the review in `AgentScore` that reaches
the flag limit, and `activations` counts the ACTIVATE events of a code.

Left out: names, phone numbers and the other answers of an application, the
label of an invite, and the counters of a contributor, which `AgentScore` has.
A contributor is only created as an agent, so the row and `is_agent` are one. Two
overlapping decisions about one application end with the later status; no
document says which should win, and no property does.

### IndexCalculation

`report` is what the agents sent (fixed when the model starts, since a pending
report has no effect on values), `outcome` their verifications, `index` the
values published. A review is three steps because it waits for row locks:
`BeginReview` reads, `Lock` flushes the verification and the agent's row and
holds both, `Compute` reads the accepted reports of the window and flushes the
value; then it commits. A rebuild is one transaction that computes report
after report, oldest first. `computed` is the number of the transaction, which
is the order of `computed_at`.

`weighted_median` walks over sorted reports; the model takes the least price at
which half of the weight is reached, which is the price it returns. Weights are
exact where the code has floats. A value is stored with the set of reports
it counted, from which the counts and the source mix follow.

Left out: reading values (`PriceReads`), other cells,
which share nothing but the agents, and the unit.

### AuthSessions

One user, sessions numbered in the order in which they are created, and requests
that carry the lock they hold and the rows they revoke. `BeginRefresh` locks
the presented session, `LockUser` the user, `Rotate` commits the replacement;
`BeginReuse` and `LockUser` take the snapshot of the rows a bulk UPDATE will
revoke and `Visit` locks them one by one in any order, since SQL promises none.
`Victim` is PostgreSQL's deadlock detector. Access tokens are the
`auth_version` they carry.

Left out: password verification, lock-out and the user's status, which are in
`Accounts`, and sessions that start other than by login.

### Accounts

`users[e]` is the row of an email, `held[e]` the request that has it locked,
`req[w]` a request with the row it loaded. Requests that look an email up, hash
a password and insert are two steps; a log-in holds the row between two.
`change_password` and `logout_all` lock the row but go on with the copy
`get_current_user` loaded (`Bumped`), and `reset_admin_password` takes no lock
and writes only what differs from its copy. `refused` and `lockouts` count wrong
passwords, `outdated` says that a version was computed from an older row.

A token carries, as history, the password and the status of the account when it
was issued. Left out: refresh tokens (`AuthSessions`), the clock of an access
token, and the strength of passwords.

### PriceReads and MarketReads

`index[cell]` maps each row of a market and a commodity, its `computed_at` and its id, to
its value. The rows of one rebuild share their `computed_at`, and a query that sorts by it
returns them in any order: what takes the first or the last of them is given the order
(`Orders`), and each read may meet another one. `PriceReads` has one operator per computation: the latest cells and
their coverage, city prices, the points of a series, the heat of a market, the
trend and band of an alert, the basket, the cost of a list, a quote. Medians are
doubled and changes are thousandths of a percent, so that everything is an
integer; z-scores are compared squared. `MarketReads` asks for one answer:
`ListCatalogue`, `LoadLatest` and the `Answer...` of the part are three
statements (the brief is three parts, one after another), between which
`CreateMarket`, `UpdateMarket`, `CreateCommodity`, `UpdateCommodity`, `Begin`,
`Publish`, `RollBack` and `Tick` happen. One request suffices, as it writes nothing.
A value is stored with the time its transaction began; `open` holds these times, and a
transaction may commit any number of days later. A day is over once it is past and none
of them lies in it.

Left out: layout, rounding, units and the sample counts of an answer; the names of
markets and commodities, which the panel prints as they are today; prompts and citations
of the copilot.

### SubmitFlow, ApplyFlow and TelegramBot

A callback is a function of the state of its conversation, the update and what it
keeps in `user_data`, and yields an `Effect`: the new `user_data` and the state
it returns, or that it posts, or raises (a key of `user_data` is missing).
`SubmitTakes` and `ApplyTakes` are the patterns of the handlers, in the order in
which they are registered; a button of an old message can be tapped at any time.

In `TelegramBot` a handler runs from one await to the next: `Receive...` hands it
the update, `Answered` or `Synced` runs its synchronous part, `Replied` sends its
answers, and only then is its state set. `TelegramFails` ends it before that.
`PostArrives` is the request reaching the API, `PostAnswered` its answer,
`PostFails` its loss or a timeout, `TriageTooSlow` the answer to a stored report
that waits for the language model longer than the bot waits for the answer.
`Restart` forgets everything but the settings: `let_in` says that the person is in
`WAGA_TELEGRAM_AGENT_IDS` or that `WAGA_TELEGRAM_REQUIRE_AGENT` is off, and may then report
whatever the API knows. `Printed` is what a summary prints of a price (`:g`, six
significant digits); the report carries the price itself. In polling mode a handler ends before the next
update is fetched, in webhook mode they overlap. The API is what it knows of the
person; `shown` is what the last summary showed.

Left out: wording, the choice between commodities and prices beyond one and two,
an allow-list that also names other people, the score card and `/redeem` (which only read), and the dry-run mode.

### Billing and PaymentLifecycle

One subscriber, its payments, the plans and what Chapa would answer. A request
carries `copy`, the subscription its `SubscriptionContext` refers to: the identity map
is weak, so a row that nothing refers to (what `get_current_subscriber` and
`exports_used_today` load) is read anew, and only the routes that keep a context (the two
exports and the cancellation) go on with the object as it was loaded. `record_export`
reads the usage under the lock but decides by that object; the expiry it may set on it
is rolled back with the export it refuses. Transactions that lock the subscription and wait for nothing
else are one action (`Ensure`, `Context`, `Record`, `Cancel`). Checkout and
verification wait for Chapa, so each is two or three: `BeginVerify` locks the
payment, `Succeed` or `Fail` commits the outcome, `Activate` is the second
transaction. A plan's deletion checks its references, waits for key-share locks of checkouts
and for locked payments, and sets references to null at commit. `Abort` is a
failure of Chapa, of a constraint or of the process at any point.

`PaymentLifecycle` says what a payment is for: it is opened, concluded once with
the outcome Chapa gave, and granted at most once after success. `Billing`
implements it with `status` mapped to the payments' status.

Left out: amounts and billing cadence, the enquiry form, registration, creating
plans, answers of requests. `EndTrial` happens once: no code moves
`trial_ends_at`.

## Runs

| Run | Shows | Bounds |
|---|---|---|
| `agent_score` | counters equal events and outcomes, payouts are earned, one credit per client id, accepted reports are indexed, the flag limit bans, only approval lifts a ban | one agent, two reports, two requests at once, ban limit 1: 340,000 states |
| `agent_double_redeem` | **violation**: one score is paid twice | three reports, two requests at once, ban limit 3 |
| `onboarding` | invites count their activations, approvals leave linked agents, bans are lifted only by approvals that read them | two people, two applications, one code of unlimited or two uses, two requests at once: 350,000 states |
| `index` | one value per report and method, values are weighted medians of accepted reports, acceptances of one agent see each other | three reports in 24 combinations of price, source, agent and time (all in one window, or the oldest outside it), two requests at once, four transactions, two methods: 1,800,000 states |
| `auth_sessions` | families are chains with one live end, revocations revoke what they promise | four sessions, three requests at once: 370,000 states |
| `auth_live` | every request ends in spite of opposite lock orders | three sessions, two requests |
| `billing` | `PaymentLifecycle` is implemented, the quota holds, an active subscription lapses only by an admin | two requests, a payment, a plan, quota 2, three exports: 770,000 states |
| `billing_crash` | **violation**: paid and never activated | as `billing` |
| `login` | no wrong password is lost to a lock-out, a token dies with the password it was issued under | one email, two requests at once, two passwords, lock-out after two: 1,450,000 states |
| `reads` | coverages add up, history does not change, what an alert needs | two markets and two commodities, eighteen starting databases, one edit or one commit of index values during an answer: 520,000 states |
| `reads_partial_basket` | **violation**: a basket is compared with a part of itself | as `reads` |
| `bot` | what is sent reads as what was shown, who is let in or locked out has a cause at the API or in the settings | polling mode, a person the settings let in or not, one listed market and the other, one commodity, two prices of which one has more digits than a summary shows: 3,600,000 states |

Rows of different agents, users, emails or subscribers share nothing (except the plans),
so one of each suffices; `onboarding` has two people, who meet in one
code. Each race needs two requests (`onboarding` was checked with three once:
5,600,000 states, 120 s); a third is
there for sessions, where a reuse, a rotation and a logout can wait for each
other. The ban limit is lowered to one in `agent_score`, so that with two reports there is
a flag after a ban was lifted, fresh or overlapping; the violation uses the real three. The
publication threshold is two in `index`, so that three reports give values on both
sides of it, and the window is two units of time, of which reports are one to three apart. One payment
is enough because payments meet only in the subscription they activate (two were
checked once: 155 s). `MaxHooks`, `MaxExports`, `MaxActivations` and the limits on sessions and
versions bound counters that have no bound in the code. In `reads` a day is
two instants and the compared day is the one before; a database has a short past of published, unpublished and missing values, the two values
of one rebuild (on either day, once with a transaction still open since the day before),
or the long past of one cell that an alert needs, once with its last value computed
twice. At most one transaction begins at an instant, and only while a change is left. One
change during an answer is enough to fall between
any two of its statements. In `bot` one listed market tells a market from a label
and two prices tell one report from the next; one of them is longer than its summary,
so they are not symmetric; phones share them. In polling mode
there is one handler at a time, so one slot; the theorems on bans and approval
also hold in webhook mode, for any number of handlers. `MaxChanges`,
`MaxAttempts` and `MaxVersion` are bounds of the same kind as those above.

Deadlock is not checked where a system that has used up its ids may stop.

### Fairness

Only `auth_live` assumes any. Strong fairness of taking row locks is PostgreSQL's
first-come queue for each row; weak fairness of commits says that a handler that
waits for nothing goes on; weak fairness of `Victim` is `deadlock_timeout`. New
requests and failures have none.

### Findings

Three are shown by a run that expects a violation.

1. `agent_score.py:290` (`agent_double_redeem`): two redemptions at once pay the same
   score twice, against docs/agent-score.md:97 and :150. The same unlocked row
   loses one of two flags that overlap, so that the ban after three flags comes late
   (`raced` in `AgentScore`).
2. `chapa.py:155` (`billing_crash`): a payment is committed as succeeded before the
   subscription is activated in another transaction. A crash or a deleted plan in
   between is never repaired, because a payment that is not pending is left alone.
3. `affordability.py:79` (`reads_partial_basket`): the basket of today has all its
   commodities, the one it is compared with those that had a price then, against
   docs/data-products-research.md:330 and docs/api-contracts-v1.md:298.

The others are behaviours of the models that the properties name as exceptions,
or that need no run to see:

* `index_calculation.py:91`: a value is computed once, from the reports accepted
  until then, and the review queue lists the newest report first. Values
  published before an older report of their window is accepted are never
  corrected; a rebuild publishes others, against plan.md:323 and AGENT.md:164.
* `auth.py:116`: a replacement inserted by a rotation survives the revocation of
  its family, against plan.md:231 (`ReuseRevokesWhatItSaw` speaks of what there was).
* `auth.py:170`: `logout_all` increments an `auth_version` it loaded before it
  had the lock, and so can write the version a token just issued carries (`stale`
  in `AuthSessions`, `outdated` in `Accounts`).
* `agent_score.py:194`: two activations at once each use a single-use invite and
  count once, against agent_score.py:100 and docs/agent-score.md:114 (`InviteCounted`
  counts what does not overlap).
* `routes/submissions.py:53`: the answer to a stored report waits for the language
  model, for up to 45 s where the bot waits 20 s. The agent reads that nothing was
  saved, and a report sent again is stored twice. The comments there and at
  reviews.py:98 say that triage never blocks.
* `subscriptions.py:95`: registering with the email of an account that exists checks
  the password but neither lock-out nor status (`SubscribeExisting`).
* `create_admin.py:53`: a reset that loaded the row before a lock-out began does not
  lift it, and no reset revokes refresh sessions. Two requests can both find that there
  is no admin yet (`auth.py:224`). An invite that expired leaves an account that
  nobody can invite again (`auth.py:290`).
* `subscriptions.py:309`: `record_export` locks the subscription but gets the object the
  context of its route refers to, so an export passes on the tier the subscription had
  before a cancellation committed in between.
* `submit.py:892` shows a price with six significant digits (12345.67 as 12345.7, 999999.9
  as 1e+06), while `submit.py:788` sends the price that was typed. What is sent reads as
  what was confirmed; it need not be equal to it (`SentIsLastShown`).
* `index_values.py:59` and `:85`: values of one rebuild have the same `computed_at`, and
  nothing else orders them, so two reads of one day may take different ones
  (`HistoryIsFixed` holds the order fixed). A commodity whose code is changed takes its
  past along to the new code.
* `prices_read.py:195` lists the markets a second time for the coverage of a
  series; `business.py:28` fails without a base date (`timedelta` is not imported);
  `brief.py:52` reads the basket again for its advice; `copilot.py:82` turns a falling
  basket into a range from zero down; a timeout of the language model is not an
  `AddisChatError` and fails the request; the quota of an export is spent before the
  panel is computed.

## Proofs

The theorems hold for any number of agents, reports, windows, people, codes, requests,
payments, plans, emails, markets, commodities and handlers and any
values of the constants that satisfy the named assumptions. Each module proves
an inductive invariant from `Init` and every action, and the theorems follow from it.

* `AgentScoreProofs`. A request in flight is one its agent's history permits;
  an agent that has not raced has at most stale *readers*, and a stale commit
  makes it raced, so that the ledger of the others is exact (`LedgerIsExact`), its
  payouts were earned (`PayoutsEarned`) and the limit bans (`FlagBans`). What
  needs no luck is proved without `raced`: `TypeCorrect` (no counter is
  negative), `AcceptedStaysIndexed`, `CreditedOnce`, `BanStands`.
  `CountersMatch` counts: a commit changes the verdict of one report and so the
  size of the sets of each verdict by one, as the report it decides is still pending
  unless the agent has raced.
* `AgentOnboardingProofs`. A request in progress may rely on what never changes
  although its rows are not locked: an application keeps its person, a code its
  limit, and activations are not taken back. From these, `InvitesCounted`,
  `ApprovedAreAgents` and `BansLiftedKnowingly`.
* `IndexCalculationProofs`. What a value counts was accepted when it was read and
  stays so unless it becomes contested; holders of row locks have different agents.
  From these, `OnlyAcceptedCount` and `AcceptancesOfOneAgentMeet`;
  `ReportsIndexedOnce` follows from the unique constraint and the order within a
  rebuild. A second invariant types what is computed: sums of weights are folds over
  finite sets, and what a fold does is proved by induction along strict subsets
  (`SetInduction`; the sums it builds are `Sums`). From it, `TypeCorrect` and
  `ValuesAreMedians`: the least price with half the weight at or below it exists, is
  a price of a report, and leaves at most half on either side. Assumed: finitely many
  reports and at least one method.
* `AuthSessionsProofs`. Sessions are numbered without gaps; a request that holds a
  row holds what its next action needs; one that revokes everything covers every
  live session while it holds the user. From these, `RotatedOnce` (one live session per
  family) and `EverythingRevoked` (`logout_all` and `change_password` leave
  none). Three more invariants rest on that one: heirs are sessions that exist, and a
  live session has none and is the newest of its family, so a rotation adds the only
  link to its replacement (`ChainsKept`); families never change and nothing revoked
  comes back, so what a reuse has visited or has still to visit covers the family as it
  was when it was noticed (`Seen`, `FamilyRevoked`); no token has a version still to
  come while none was computed from an outdated row (`AccessEnds`).
* `AccountsProofs`. A log-in holds the row of its account, so that the row it loaded is
  still the row but for the end of a lock-out (`Relies`); the attempts are the wrong
  passwords, and each from the limit on was a lock-out (`Counted`); a token belongs to an
  account, has no version the account has not reached, and if it has the version of now it
  was issued under the password of now (`Bound`). From these, `GuessesBounded` and
  `TokensDie`.
* `BillingProofs`. A waiting request holds the payment it is about, two requests
  never open or activate the same payment, and nothing is granted before success.
  From these, `ImplementsPromise` (the refinement), `QuotaKept` for
  every quota (the usage row counts every export, `Counted`, and is read under the lock),
  and `ActiveStays`.

* `MarketReadsProofs`. What was loaded is what was listed, so the cells an answer counts
  cannot be more than it expects (`CoveragesAddUp`). `HistoryFixed` is that a
  commit adds rows of the day its transaction began, which is not over, and then the
  congruence of each computation: a finite set of rows has a last one in each order
  (`LastIsOne`), and none of the rows a median is taken of has changed. The panel stays
  because an index value keeps its market and its commodity, which are never deleted
  (`Referenced`). `SpikesHaveHistory` rests on
  least squares: the distances from the fitted line sum to zero, also
  when weighted by their ranks (`Balanced`), so that n (n + 1) times the square of the
  last one is at most (n - 1)(n - 2) times the sum of all squares (`LastIsNear`). The
  square of the z-score is thus below 4 up to seven points and below 9 up to twelve,
  whatever the prices are. Assumed: `MinPoints` is at least 3 (5 in the code).
* `TelegramBotProofs` has three invariants. `TypeInv` follows the type of an
  update and of its effect through every handler, crash and restart, in both modes: an
  answer of the API carries what the conversation expects of it (`TypeCorrect`).
  `CauseInv` follows what the API was since the bot started through every handler that
  carries an answer, in both modes (`BansHaveCause`; `ReportersApproved`: who reports was
  approved by the API or is let in by the settings). `ShownInv` is about polling mode: one handler
  at a time, which finds the conversations as they were when its update arrived; a draft
  that waits for confirmation prints as the last summary did, and only `start`, a
  restart or an end takes it away (`SentWasShown`, `AppliedWasShown`). In webhook mode
  it does not hold, as two handlers may change one draft.

Every safety property of the passing runs, state invariant or action property, is
stated by a theorem. Only model-checked: `RequestsEnd`, as liveness under fairness is
out of the prover's reach. The properties of the three runs that expect a violation
are false of the code, and no theorem states them. Induction over the steps of a
computation is used where a well-founded ordering gives it (folds over finite sets);
the library's schemes with an operator as a parameter are not. `IndexCalculationProofs`
and `MarketReadsProofs` each carry the lemmas on sums, in the form each needs.

## Not modelled

The admin's payout settings and the settling of payout requests, enquiries, the
creation of a plan, sectors, synonyms and unit conversions: single rows that
an administrator writes, whose values the models take as given. `intelligence.py`, which no
route uses. The labels of review triage and the dashboard's counts. Wording,
keyboards' texts, CSV and JSON shapes, notifications; the words of the language model.
The bot's dry-run mode. Seeding commands; migrations (constraints are taken from
`app/models`); mock data, scripts and the pitch.

The modules meet in rows: `AgentScore` and `AgentOnboarding` in the contributor,
`AuthSessions` and `Accounts` in `auth_version`, `TelegramBot` and both of the
first in what the API knows of a person. They are composed by abstraction (each
has an action for what the other does to the shared row) and not by a product of
their states, which TLC could not exhaust.

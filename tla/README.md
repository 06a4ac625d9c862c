# Formal models of Schoolapp

TLA+ specifications of the parts of Schoolapp (a multi-school management system: PostgreSQL, a
TypeScript core, a Hono API, a web application) where a wrong order of steps costs
money or loses somebody's place. The modules are checked with TLC on small instances; the
properties that matter most are proved with TLAPS for every size. `PROJECT.json` lists the
components, the runs, the hazards, the theorems, and for every definition that models code the
lines it stands for.

Paths below are relative to the repository (`src/` is its root).

## 1. Inventory of the system

| Component (code) | State it keeps | Operations | Interacts with |
|---|---|---|---|
| **Charge ledger** `packages/core/src/payments-access.ts`, `payments.ts`, `money.ts` | `school_charges`, `school_payment_transactions`, `_sessions`, `_refunds`, `_receipts`, `charge_adjustments` | create, issue, cancel, adjust a charge; record an offline payment; open a checkout; request a refund; settle a provider event | called by the payment routes, the webhook, the activities |
| **Webhook claims** `packages/api/src/routes/webhooks-payments.ts`, migration `0066` | `school_payment_provider_events` | claim, take over, finish, answer | calls the settlement of the charge ledger and of the invoice ledger |
| **Provider adapters** `packages/core/src/payment-provider.ts` | none (Stripe holds it) | create a checkout, refund, verify and map a webhook | events go to the webhook |
| **Invoice ledger** `packages/core/src/tuition-access.ts`, `tuition.ts` | invoices, lines, payments, credits, checkout sessions | issue, refresh, pay, reverse, credit, void, check out, settle | webhook, billing runs, mail queue |
| **Billing runs, fees, VAT** `tuition-access.ts`, `student-fees-access.ts`, `tuition.ts`, `vat.ts` | plans, schedules, runs, quotes | preview, confirm, catch up late joiners, quote | creates invoices |
| **Activities** `packages/core/src/activities-access.ts`, `activities.ts`, routes and portal | activities, participants, consents | publish, register, consent, decline, withdraw, promote, remove | creates and cancels charges |
| **Mail queue** migrations `0048`, `0057`, `packages/api/src/email-delivery.ts` | `mail_outbox` rows with leases and one-time links | enqueue, claim, send, record, requeue, expire | invoices, invitations, the mail provider |
| **Files** `file-service.ts`, `stored-object-cleanup.ts`, migrations `0028`, `0029` | file rows, objects in a bucket | register, put, complete, reject, remove, clean up | object storage, public forms |
| **Admissions** `routes/admissions.ts`, `routes/public-forms.ts`, `domain/src/admissions-workflow.ts`, migrations `0013`, `0014`, `0070` | forms, applications, offers, waiting list, enrolments | draft, send, move through the workflow, offer, answer, enrol | students, guardians, files |
| **Operational reset** `operational-reset.ts` | all of a school's rows | preview, reset | every table |
| **Years, terms, timetable** `academic-lifecycle.ts`, `timetable-lifecycle.ts`, `routes/timetable.ts`, `domain/src/recurrence-lifecycle.ts`, migrations `0027`, `0046` | years, terms, periods, recurring lessons, covers | activate, close; make, edit, end, replace, withdraw a lesson; cover it; move a period | attendance, fees |
| **Learning and submissions** `routes/learning.ts`, `routes/student.ts`, migration `0018` | assignments, submissions, revisions, marks | publish, save, submit, attach, mark, ask again | files |
| **Assessments and reports** `routes/assessments.ts`, migrations `0019`-`0021` | assessments, inclusions, results, reports, publications | open, enter, review, publish, archive | notifications |
| **Engagement** `engagement-service.ts`, `routes/engagement.ts`, migrations `0034`, `0035` | attempts, XP events, rewards, achievements, competitions and their results | play, score, award, revoke, complete | |
| **Statutory census** `routes/statutory.ts`, migration `0033` | census runs, snapshots, exports | create, take a snapshot, validate, finalise, export, retire | pupil records |
| Attendance, behaviour, messaging | records per pupil | submit, publish, lock | the years and classes |
| Onboarding and sessions, tenancy, Stripe secrets, imports, web application | see `PROJECT.json` | | |

**How they interact.** There is one database. A request runs in one READ COMMITTED transaction
per call of a core function; the functions of the charge ledger begin with `lockCharge` (`select
... for update`), so writers of one charge queue on its row. A webhook delivery is different: it
runs in *several* transactions (claim, settle, finish, record the result) with nothing held in
between. Stripe is outside: it takes the money first and tells the school later, possibly more
than once, in any order, until it gets a 2xx answer.

Most other requests are of a third kind: one transaction that reads a row *without* locking it, decides,
and writes. What such a request meets at its write is whatever the triggers, constraints and unique indexes look at
again. The models give these requests two steps, the read and the write, and the properties say which decisions
survive that and which do not.

**Hard behaviours.** Several open checkouts of one charge; a success after a failure report, after
a cancellation, after a refund; refunds pending at the provider while others are requested;
two events for one payment; a crash between the commit of a settlement and the finish of its event
row; two workers on one event after the two-minute takeover, or on one message after its lease; idempotency keys sent again for
another charge; status columns that some operations recompute and others assign; waiting lists
that move while consents arrive; a form sent twice, or while staff move its application; two billing runs confirmed at
once; a decision on a row that another request has changed since. `PROJECT.json` "hazards" lists each at its line.

**What makes each component correct.**

* Charge ledger: no charge is credited with more than is due; refunds add up and stay within what
  was paid; stored statuses agree with the money; a cancelled charge stays quiet and closed;
  receipts are exactly the credits; credits are not undone but by refunds.
* Webhooks: the ledger never holds money the provider did not take; an event marked processed has
  had its effect; an answered payment is decided; a payment taken is credited or in front of staff in the end.
* Invoices: payments and credit notes never exceed the total; totals, balance and status agree with the rows; a
  period has one live invoice; a card payment is booked once and leaves through Stripe only; a checkout paid after a
  void is put in front of staff.
* Activities: confirmed places never exceed capacity; the waiting list is a queue; a charge follows a place.
* Mail: a message is delivered twice only after a lapsed lease or a lost answer, keeps its one-time link exactly while it may be sent, and settles in the end.
* Public forms and files: a form is filed once and is final, what it holds is in storage, and dead files are erased in the end.
* Admissions: a pupil is made of an application at most once and never of a decided one; offer, application and waiting list move together.
* Timetable: no class and no teacher is in two lessons at once unless requests overlapped; what has been taught stays on record; a replacement keeps every day.
* Billing: a run bills a pupil once, two runs bill a pupil twice only when they overlap; discounts, VAT, instalments and shares add up.
* Census: what was finalised was validated and cannot be rewritten. Learning: the verdict on work and its status agree, and nothing handed in is lost.
* Results and reports: what is published stands, and what a family sees it was told of. Engagement: XP and rewards are booked once; frozen results stay.

## 2. Modules

| Module | What it is |
|---|---|
| `Totals` | The sum of a column of a table, as the number of units its rows hold. |
| `TotalsTheorems` | Lemmas about sums: type, change of one entry, bounds, pointwise comparison, a column split in two. |
| `ChargeAccount` | Abstract specification: what the ledger promises per charge, an amount due and an amount paid. |
| `ChargeLedger` | The charge ledger: five tables, eight operations, the settlement of a provider event. Instantiates `ChargeAccount` as the account it implements. |
| `ChargeLedgerProofs` | The ledger's theorems: the books, statuses, booking, history and the refinement. |
| `WebhookClaims` | Claiming, finishing and answering a webhook event by concurrent deliveries, with crashes and failing statements. What settling does is left open. |
| `PaymentSettlement` | Composition: `ChargeLedger` + `WebhookClaims` + the payment provider. |
| `SettlementProofs` | The theorems of the composition. |
| `InvoiceLedger` | The invoice ledger: tuition invoices, payments, credits, checkouts, and the settlement of a provider event. |
| `InvoiceProofs` | The invoice ledger's theorems. |
| `ActivityPlaces` | Places of one activity, its waiting list, consents and charges. |
| `AdmissionsWorkflow` | One application: its status, offers, waiting list entries, and the pupil it becomes. |
| `PublicForm` | A published admissions form, its drafts and filings, the files of a form, and the clean-up of stored files. |
| `MailOutbox` | The outbox: claims, leases, sending, recording, requeueing, expiry. |
| `TimetableLessons` | The recurring lessons of one period of one weekday, and their covers. |
| `BillingRuns` | The billing runs of one period and the changes the office makes meanwhile. |
| `TuitionQuotes` | The arithmetic of a quote: discounts, VAT, instalments, proration, shares. |
| `CensusRuns` | The runs of one statutory census. |
| `LearningWork` | One piece of learning work and one pupil's submission. |
| `AssessmentResults` | One assessment and the results of its pupils. |
| `PupilReports` | One school report, its sections and publications. |
| `PracticeRewards` | One pupil's practice attempts, XP, rewards and an achievement. |
| `CompetitionResults` | One competition and the board it is frozen to. |
| `OutboxAndFormsProofs`, `SchoolOfficeProofs`, `TuitionAndPlacesProofs`, `SchoolYearProofs` | The theorems of the smaller components, together as their runs are: `MailOutbox` and `PublicForm`; `AdmissionsWorkflow` and `TimetableLessons`; `BillingRuns`, `TuitionQuotes` and `ActivityPlaces`; the six of the school year. They share no state, and each theorem is about the specification of one. |
| `MC...` | Instances for TLC. `MCTuitionBilling`, `MCSchoolYear`, `MCOutboxAndForms` and `MCSchoolOffice` put components that share no state side by side: a variable `focus` names the one that moves, so that TLC explores the sum of their states and not the product. |

### ChargeLedger and the code

Every operation is *one* action, because each runs in one database transaction whose first
statement locks the charge, and all writers of the charge's rows take that lock. An operation that
throws is rolled back and is no step; neither is a request answered with the row an earlier
request with the same idempotency key wrote.

| Action | Function |
|---|---|
| `CreateCharge`, `IssueCharge`, `CancelCharge` | `createCharge` (and `createBulkCharges`, a sequence of it), `issueCharge`, `cancelCharge` |
| `ApplyChargeAdjustment` | `applyChargeAdjustment`; adjustment rows appear as `original - due` |
| `RecordOfflinePayment` | `recordOfflinePayment`, with `createReceiptForTransaction` and `refreshChargeStatus` inside it |
| `CreateCheckoutSession` | `createCheckoutSession` |
| `RequestRefund` | `requestRefund` with `applySucceededRefund`; the provider's answer is a choice |
| `SettleProviderEvent` | `settleProviderEvent`: one disjunct per path through it (mismatch, ignored, refund completed, refund failed, payment not made, refused, credited) |

Data is abstracted to what the properties tell apart: amounts are small integers of minor units; a
transaction is the only one with its provider payment id, so an event names its transaction; the
payload of an event differs from the row by nothing, its amount or its currency. Names, dates,
notes, currency codes, permission checks and listings are left out.

### WebhookClaims, PaymentSettlement and the code

`row[e]` is the status column of `school_payment_provider_events`; `stale` is the test
`received_at < now() - interval '2 minutes'`. `Claim` is `claim_payment_provider_event`,
`Finish` is `finish_payment_provider_event`, which writes the status without looking at the old
one; `FinishFails` is the handler's `catch`, which writes `failed`. `Answer` stands for
`recordOrganisationWebhookResult` and the 200. A worker's place in the handler is its `pc`; between any two places it may crash, be slow
for more than two minutes, or meet a failing statement. `PaymentSettlement` plugs the ledger's own
`SettleProviderEvent` into the settle step, and adds the provider: `Pay`, `Decline`,
`DecideRefund`, and delivery of any event it has begun to send. Two events may report the same
success: `checkout.session.completed` sent again under another id, or `async_payment_succeeded`.
Events on a payment intent (`payment_intent.*`) name the session by the school's own id, which
`resolve_payment_provider_session` does not find: the handler refuses them before any claim, so they
have no action. Signatures, HTTP details and log redaction are left out.

### InvoiceLedger and the code

Again every operation is one action: each writer locks the invoice row (`refreshInvoiceStatus`), a provider event its
transaction before that. The two orders can deadlock; PostgreSQL then aborts one operation, which is no step.

| Action | Function |
|---|---|
| `IssueInvoice` | `issueTuitionInvoiceForAccount`, with the index that admits one live invoice per period |
| `LoadInvoice`, `SyncOverdueInvoiceStatuses` | the refresh every page of one invoice runs, and the overdue marking of every list |
| `RecordInvoicePayment`, `ReverseInvoicePayment` | the same names; staff may name a payment intent as the reference of a card payment |
| `CreateInvoiceCredit` | `createInvoiceCredit` by staff; `note` stands for the four kinds that are not refunds |
| `VoidInvoice`, `CreateInvoiceCheckoutSession` | the same names, with `reusableInvoiceCheckoutSession` and `failInvoiceCheckout` |
| `SettleInvoiceProviderEvent`, `SettleRefund` | `settleInvoiceProviderEvent`, for payments and for refunds |
| `TurnCalendar`, `RefundInDashboard` | environment: due dates and grace, refunds made in Stripe |

`late` says whether today is past the due date and its grace. Every checkout is Stripe's: a card payment is known by
the payment intent it names (`ref`). An invoice is issued with a total; its lines, discounts and VAT are not
modelled. In this code a refund *settles*: it is added to `credit_total_minor` while the payment stays in
`paid_minor`, so an invoice that was paid and refunded has nothing outstanding. The tests expect it and the model keeps it.

### ActivityPlaces and the code

One activity: its row (`status`, `capacity`, `consentRequired`, `policy`), its participants (`place`,
`position`), the effective response of each pupil's guardians, and the state of the charge that carries the key
`activity:<activity>:<pupil>`. The handlers read the activity's status *before* they lock its row and do
not read it again under the lock, so a request is two steps: `Admit` (its checks) and its change. The change runs
under `lockActivityCapacity`: placing the pupil, the promotion that follows, and the charges of both are one
step, written as operators that pass the rows on (`WritePlace`, `SyncCharge`, `Upsert`, `PromoteNext`).

| Action | Handler |
|---|---|
| `Decide` | `applyConsentDecision`, for the parent portal and for responses staff enter |
| `SignUp`, `StudentWithdraw` | `studentSignupForActivity` |
| `StaffAdd`, `StaffPromote`, `StaffWithdraw` | the routes under `/activities/:activityId/participants` |
| `UpdateActivity`, `Transition` | `PATCH /activities/:activityId`, `transition` (with the database trigger) |
| `Abandon` | any request that throws or dies before it commits |
| `FinanceStep` | payment, refund and cancellation of the charge; the operations themselves are in `ChargeLedger` |

An activity without a price is one with policy `none`. `Eligible` are the pupils in the snapshot of eligible pupils taken
at publication; in a draft there are none, so the staff's right to act on drafts has no effect. Deadlines only refuse
requests and are left out; an activity without a capacity is `Unlimited`. Charges other than the activity's own are left out.

### AdmissionsWorkflow and the code

A request of staff, or of the applicant's family, is a `Read` (what the handler selects and checks, without a lock) and a write
in which only the triggers of migration `0013`, the unique indexes and the enrolment function look at the rows again.

| Definition | Code |
|---|---|
| `MoveTo`, `MoveFrom` | the transition trigger and the routes that update the status |
| `SyncWaitingList`, `EditEntry` | the waiting list trigger; the entries staff edit directly |
| `MayConvert`, `Enrol` | `enrol_admitted_applicant` |
| offer actions | making, sending, answering and withdrawing an offer, with their check of the offer's status at the read only |

### PublicForm and the code

A page is a browser tab with the form. `Ask` is the check of the files of the form, a query of its own; `SubmitForm` is
`submit_public_admissions_form`, with the replay by idempotency key, the draft found by its link, and the application it files.
`Register`, `Put`, `Complete`, `Reject`, `Erase` and `Remove` are the life of a document; `TakeUp`, `CleanErase`, `CleanMark` and
`CleanUnlink` are the steps of `cleanupStoredObjects`. `UploadCrash` and `CleanerCrash` end them anywhere.

### TimetableLessons and the code

A day is a date on which the weekday falls. A request has three steps: it *reads* the lesson, what refers to it and the date
(`OpenDesk`, `recurrenceLifecycleFromState`); it *writes*, which locks the lessons it changes, and its deferred triggers look for clashes
among the lessons committed by then (`Write`, `timetable_collect_entry_conflicts`); it *commits*. A cover is checked and
written, then committed (`AddCover`, `CommitCover`).

| Action | Code |
|---|---|
| `CreateLesson`, `EditLesson`, `NoteLesson`, `RestoreLesson`, `WithdrawLesson`, `DeleteLesson` | `POST`, `PATCH` and `DELETE` of an entry in `routes/timetable.ts` |
| `EndLesson`, `ReplaceLesson` | end and replace from a date, with `validateRecurrenceStopFrom` and `effectiveUntilFromStopFrom` |
| `Commit`, `GiveUp` | the commit, with the cascade on covers; an error or a clash |
| `AddCover`, `CommitCover` | `POST` of a cover, with `timetable_covers_conflict_tg` |
| `MarkClass`, `MoveBell`, `NextDay` | environment: a register, `PATCH` of the period, midnight |

A `PATCH` writes the times of the lesson's period whatever it changes. Rooms, several teachers of a lesson, exceptions and half weeks are left out.

### MailOutbox and the code

Each SQL function is one action (`Enqueue`, `Requeue`, `ClaimBatch`, `ClaimOne`, and `Record` for `complete_mail_outbox_send` and
`fail_mail_outbox_send`); `Send` is the call of the provider between a claim and its record. `LeaseLapses`, `RetryFallsDue` and
`LinkAges` are time. A record asks for a row that is being sent, whoever claimed it: the model keeps that.

### BillingRuns, TuitionQuotes and the code

| Action | Function |
|---|---|
| `PreviewRead`, `PreviewSave` | `previewBillingRun`: the run is read without a lock, the quotes are saved later |
| `ConfirmCheck`, `ConfirmIssue` | `confirmBillingRun`: under the lock of the run, the stale check and then the invoices |
| `CatchUpCheck`, `CatchUpIssue` | `confirmMissingBillingRunInvoices` |
| `Enrol`, `Reprice`, `ChangePlan`, `Regroup`, `VoidInvoice` | what the office changes between the two |

`TuitionQuotes` holds pure functions, each an operator of its source name or idea (`applyDiscounts`, `splitVatAmount`,
`instalmentAmount`, `prorateMinor`, `allocateShareMinor`). A state is a question; its answer is what the code computes; the
properties compare the answer with a definition written from the rules, not from the loops.

### The records of a school year

| Module | Read | Write | What the write meets |
|---|---|---|---|
| `CensusRuns` | `ReadCensus` (status, version, validation) | `TakeSnapshot`, `ValidateCensus`, `FinaliseCensus`, `ExportCensus`, `RetireCensus` | the status and snapshot triggers, the index of one active run |
| `LearningWork` | `OpenTab`, then `ReadBase` (the revision whose files are copied) | `WriteRevision`, `AttachFile`, `AttachFirst` | the transition trigger, the unique revision number |
| `AssessmentResults` | `EnterRead`, `EditRead` | `EnterWrite`, `EditWrite` | the trigger on inclusion and maximum (migration `0021`) |
| `PupilReports` | `SaveSection` (its trigger), `FreezeReport` (status and text) | `CommitSection`, `CommitPublication` | the row lock of the report |
| `PracticeRewards` | `StartRead`, `Score`, `AwardWrite` | `StartWrite`, `SubmitCommit`, `AwardCommit` | unique keys of answers and XP |
| `CompetitionResults` | `CompleteRead`, `BuildLeaderboard`, `ScoreStatement`, `PublishContestRead` | `FreezeResults`, `ScoreCommit`, `PublishContest` | the trigger on frozen results |

Teachers' and administrators' operations that are single statements are single actions (`MoveWork`, `GiveMark`, `MoveReport`,
`WriteComment`, `PublishAssessment`, `RevokeReward`, ...). Each module has a history variable (`overtaken`, `strayed`, `late`, `crossed`,
`overlaps`, `crossings`) that records an overlap the code does not exclude; the properties name it as the one exception, so that
every other way to the same state is excluded.

## 3. What is checked

Bounds are the `Max...` constants and the sizes of the sets in the `.cfg` files; they are named in
the modules where they guard.

| Run | Bounds | Question and answer |
|---|---|---|
| `charge_ledger` | 1 charge, 2 transactions, 2 refunds, amounts 1..2, 1 key | Do balances, statuses, receipts and refunds stay consistent in every order of operations, repeated requests and provider events? `LedgerInv` (the inductive invariant of the proofs, `NoOverCredit` among its conjuncts), `StatusesAgree`, `BookedExactlyOnce`, `HistoryStands`; and the ledger implements the abstract account (`ImplementsAccount`). |
| `offline_refund` | 1 charge, 1 transaction, 2 refunds | `PaidChargeCanBeRefunded` is **violated**: see findings. |
| `one_payment` | 1 payment reported by two events after a failed attempt, 2 workers, 1 crash, 1 failed statement | Do the webhooks invent no money (`LedgerFollowsProvider`), is a processed or answered event really decided (`ClaimsTellTheTruth`), and does a processed event stay so, unless money of its charge was refunded before a second delivery settles it again (`ProcessedStays`)? |
| `settlement_live` | 1 payment, 1 refund, 2 workers, 1 crash | Is every payment the provider took credited, or in front of staff, in the end, every completed refund booked (`MoneyArrives`), and every event sent decided (`SentIsDecided`)? |
| `invoice_ledger` | 2 invoices of one period, totals 0 and 2, 2 checkouts, 2 payments, 2 credits, 1 Stripe refund, amounts 1..2 | Do an invoice's totals, balance and status agree with its rows and is no debt settled twice and does every refund Stripe made fit (`InvoiceInv`, `StatusTellsTheBalance`), has a parent one checkout and a period one invoice (`AskedAndBookedOnce`), and does card money leave through Stripe only (`CardPaymentsStand`)? |
| `activity_places` | capacity 0..1; 2 pupils charged on confirmation, consent required until staff drop it (2 requests open) or never (1), published and completed only; 3 pupils without price or consent (1 request open) | Nobody is overbooked (`NeverOverbooked`) or confirmed without consent and the waiting list is in order (`PlacesInv`), a place given up goes to the one who has waited longest (`PlaceIsPassedOn`), the charge goes with the place (`ChargeFollowsPlace`). |
| `school_office` | an application with 2 requests, 1 offer, 2 waiting list entries; 2 lessons, 2 classes, 2 teachers, 2 times, 2 days, 2 requests, 4 events (3 when the lessons belong to no period), all lessons of the period or none | `AdmissionsInv` (enrolled once, never out of a withdrawn or declined application), `AnswersStand` (offer and application are answered together, and it stands), `WaitingListIsListed`; `LessonsStand` (nobody is in two places unless two requests overlapped, covers are free, past lessons and the days of a replaced one stand). 1.1 million states, under three minutes. |
| `lesson_times` | 1 lesson, 1 class, 1 teacher, 2 times, 2 days, 1 request, 4 events | `PastLessonsKeepTheirTime` is **violated**: see findings. |
| `outbox_and_forms` | 2 messages, 2 workers, 2 attempts, 1 fault, 1 requeue; 2 pages, 2 forms and filings or 1 form and 1 document, 1 call of each page at a time, 1 failure | `MailInv` (links and statuses tell the truth), `DuplicatesNeedALapse`, `SettledForCause` (every message settles, and is given up for cause only); `FormInv` (filed once, attached files are in storage), `SentStands` (what was sent is final and staff have the say), `DeadFilesGo`. |
| `tuition_billing` | 2 pupils, 2 accounts, a general run and a run of one schedule, 1 change by the office; quotes over 5 fees, 5 discounts in all combinations, 5 VAT rates, 3 plans | `BillingInv`, `DoubleBillingNeedsOverlap`, `QuietRunsBillExactly`; `QuotesByTheRules`, `PartsMakeTheWhole`. |
| `school_year` | 2 things and 2 requests in each of six components; 2 snapshots, 3 revisions, 2 marks, 3 publications, 2 attempts, 2 rewards, scores up to 2 | `CensusStands`, `WorkIsKept`, `ResultsStand`, `ReportsStand`, `RewardsAreFair`, `ResultsStayFrozen`. |
| `fresh_preview` | 2 plans of 3 instalments | `PreviewStaysFresh` is **violated**: see findings. |

**What the properties conjoin.** `LedgerInv`, `InvoiceInv`, `PlacesInv`, `AdmissionsInv`, `MailInv`, `FormInv` and `BillingInv` begin with
the type invariant of their module and add the relations between its rows. `LessonsStand` joins two invariants and two action properties. The properties of `school_year` are one per component: its
invariant, joined where there is one with an action property in one temporal formula; their parts are named definitions above them.

**Why the bounds are enough.** Two transactions are the least for two open checkouts, or for an
offline payment beside one; two refunds the least for two that are pending at once and together exceed the payment;
amounts up to two tell part from full payment. A second invoice of
a period exists only after the first is void, so two show a late payment of the void one beside the new one; two
credits let a refund by staff compete with one made in Stripe. Two
workers are the least for a takeover by a second delivery while the first is slow; a third would only repeat what the second
does, since workers meet in one row. One crash and one failed statement put a fault at every place of the
handler, together and apart. Two pupils and one place let one hold it while the other waits; a third pupil lets two wait in line when the place is given up, without
charges and consent, which the order of the list does not depend on. That instance takes the activity through every status; the charged one
through published and completed, since requests do not tell published from closed, nor completed from cancelled or archived. Two requests in flight are the least for every overlap of a
read and a write, and the rows they meet in are single; two snapshots, three revisions or three publications let the row change
and change again between them. A second change by the office would be seen by the same stale check as the first.
Two lessons, two days and four events show an overlap of requests, a cover beside it and a midnight between a read and its write.
The theorems of section 4 hold without the bounds. (The invariant of the invoice ledger was also model-checked, before it was proved, on a second
instance: one invoice with three payments and credits, two refunds and amounts up to 3.)

`CHECK_DEADLOCK FALSE` is stated where a finished system is a legitimate end: all charges closed, every message settled, an
archived activity, an answered question, a bound reached.

**Fairness.** `SettlementFairness` asks for weak fairness of a worker's steps (a request that has
begun goes on unless a fault ends it) and of time (two minutes pass), and strong fairness of the
delivery of an event that has no 2xx answer: Stripe retries for days, so its attempts meet an idle worker and a claimable or decided row
again and again. The provider need not be paid, staff need not act, and faults are never fair. The liveness
run has a crash but no failing statement: a statement that fails after the provider had its answer from a
duplicate delivery leaves a failed row nobody delivers again.
`MailFairness` asks for the scheduled delivery to run again and again, for a worker that is alive to go on, and for leases and retry
delays to run out; staff need not requeue. `FormFairness` asks the same of the steps of an upload that has begun and of the clean-up job (`TakeUp`), which the
scheduler starts again; families need not send anything.

**Mutants.** Every property of every passing run names a mutated definition (an operator with the
comment "Mutant" before the definition it replaces) under which TLC finds it violated.

## 4. What is proved

Every theorem is of the form `Spec => ...` for all values of the constants, from the assumptions of the modules alone: bounds are natural
numbers, the sets of workers, offers, entries and eligible pupils are finite, null is no row, key, filing or number, schedules differ in rank and discounts in key, a plan has at
most 24 instalments and a rate at most 100 % (the checks of migrations `0041` and `0054`), and each transaction has an event that reports its success.

| Module | Theorem | Property |
|---|---|---|
| `ChargeLedgerProofs` | `TypeCorrect`, `BooksHold`, `NeverOverCredited`, `RefundsAlwaysReconcile` | `TypeOK`, `LedgerInv`, `NoOverCredit`, `RefundsReconcile` |
| | `BookedOnce`, `StatusesAlwaysAgree`, `HistoryAlwaysStands` | `BookedExactlyOnce`, `StatusesAgree`, `HistoryStands` |
| | `LedgerImplementsAccount` | `ImplementsAccount`: `LedgerSpec => Account!Spec` |
| `SettlementProofs` | `SettlementKeepsLedger` | `SettlementSpec => LedgerSpec` |
| | `LedgerAlwaysFollows`, `ClaimsAlwaysTell`, `ProcessedAlwaysStays` | `LedgerFollowsProvider`, `ClaimsTellTheTruth`, `ProcessedStays` |
| `InvoiceProofs` | `BooksAlwaysAgree`, `StatusAlwaysTells`, `AlwaysAskedAndBookedOnce`, `CardPaymentsAlwaysStand` | `InvoiceInv`, `StatusTellsTheBalance`, `AskedAndBookedOnce`, `CardPaymentsStand` |
| `SchoolOfficeProofs` | `OnePupil`, `AnswersAlwaysStand`, `WaitingIsAlwaysListed` | `AdmissionsInv`, `AnswersStand`, `WaitingListIsListed` |
| | `TimetableStands` | `LessonsStand` |
| `OutboxAndFormsProofs` | `LinksAndSentRows`, `DeliveredOnceButForALapse`, `GivenUpForCauseOnly` | `MailInv`, `DuplicatesNeedALapse`, `GivenUpForCause` (the safety half of `SettledForCause`) |
| | `FormsFileOnce`, `SentFormsStand` | `FormInv`, `SentStands` |
| `TuitionAndPlacesProofs` | `PupilsAreBilledOnce`, `OnlyOverlapBillsTwice`, `QuietRunsAreExact` | `BillingInv`, `DoubleBillingNeedsOverlap`, `QuietRunsBillExactly` |
| | `WholesArePaid` | `PartsMakeTheWhole` |
| | `PlacesInOrder`, `PlacesAreNeverOverbooked`, `PlacesArePassedOn`, `ChargesFollowPlaces` | `PlacesInv`, `NeverOverbooked`, `PlaceIsPassedOn`, `ChargeFollowsPlace` |
| `SchoolYearProofs` | `CensusIsFinal`, `WorkIsAlwaysKept`, `PublishedResultsStand`, `PublishedReportsStand`, `FrozenResultsStand`, `RewardsStayFair` | `CensusStands`, `WorkIsKept`, `ResultsStand`, `ReportsStand`, `ResultsStayFrozen`, `RewardsAreFair` |

**The charge ledger.** `NoOverCredit` is not inductive alone. A late success credits `tx.amount` to the charge of its transaction,
so the transaction must belong to an inserted charge and an uninserted charge must hold no money
(`RowsBelong`), and its refunded amount must be nil before it is credited, or its net contribution would not be its amount (`RefundedSaysSo`).
`netPaid` cuts off at zero in the code, so it is the difference of gross and
refunded only while no transaction is refunded beyond its amount (`RefundsReconcile`, lemma `NetIsDifference`).
`LedgerInv` is their conjunction. The proof has one step per action; each is reduced to one of three lemmas about a change of
the ledger: no money moves, money comes in, money goes back. Those rest on
`TotalsTheorems`: how a sum over a table changes when one row changes.

`BookedExactlyOnce` is inductive with the types (`BookedInv`). `StatusesAgree` is not: a derived status tells the money only when each
amount counts and no charge is over-credited, so `StatusInv` adds `LedgerInv` and `AmountsArePositive`. Lemma `StepKinds` sorts all operations and events into
seven kinds of step: four operations on a charge, nothing, money in, money out. `StatusStep`, `HistoryStep` and the refinement are then proved once for each kind.
In the refinement a step moves the account of one charge and leaves the balances of the others (`OtherBalances`).

**The settlement.** The composed specification implements `LedgerSpec`, so every theorem about the ledger holds however deliveries repeat, crash, fail and take over one another.
What is new is about things remembered: a row says what an event did, a delivery holds a result it got earlier. `SettlementInv` therefore says of each that the ledger
*still* bears it out (`RowsTellTheTruth`, `WorkersTellTheTruth`), and the lemmas behind it show what no step of the ledger undoes: a credit, a succeeded refund, a decided session.
The proof corrected a property. `ProcessedStays` used to say that a processed event never goes to staff; the step of a slow delivery did not preserve any
strengthening of it, because refunds reopen what is outstanding on a charge: a success that was refused while the charge was settled is credited after a refund, and the slow
delivery's older answer overwrites its row. The small instance had too few transactions to show it. The property now names this exception.

**The invoice ledger.** `NeverOversettled` and `StripeRefundsFit` depend on one another, since in this code refunds settle. `BooksInv` keeps the sums by kind: card money, other
money, notes, refunds by staff, refunds given back through Stripe. Once card money is in, card money, notes and refunds by staff together are at most the total (the rule of
`LocalRefundAllowed` and the caps of payments and credits keep it); and what Stripe gave back, what it gave back without the invoice showing it yet, and
what it still may give back are together at most the card money (`DebtsHeld`). Hence what is awaited fits what may still be credited. `RowsStand` says that rows name rows
that are there, and `RefundsHeld` that Stripe refunds no payment beyond its amount, which is how Stripe behaves (the guard of `RefundInDashboard`).
`OneLiveInvoicePerPeriod`, `OneOpenCheckout`, `BookedOnce` and `StatusTellsTheBalance` are inductive in this company.

**Admissions.** `AdmissionsInv` is inductive. Its core is lemma `MoveFollows`: what the triggers of migration `0013` do to the application and its entries when the status is written,
whatever a request read before. Every step is such a move, an enrolment, or leaves application and entries alone (`AdmissionsStep`), and from the status of the application the three
action properties follow: an accepted application can only be enrolled or withdrawn, so that no answer read earlier declines it.

**Mail.** `DuplicatesNeedALapse` counts deliveries, lost answers and lapsed leases. `QueueInv` also counts the deliveries still to come: the workers that have the message in their batch, or have
failed to deliver it and will say so (`Holders`). A message has one delivery, made or to come, more than faults that account for it, and none more while nobody is trusted with it (`DeliveriesAnswered`). Each step then moves one worker in or
out of a finite set.

**The public form.** `FormIsSound` turns counting into uniqueness: a filing is of one form, a key names one form, and the page that sent a form has its key (`FilingsHaveOneForm`,
`KeysHaveOneForm`). That an attached file is there needs the order of an upload (`UploadsInOrder`), and that the clean-up is only at documents no upload is at
(`CleanerIsAlone`), so that a row is gone before its bytes are. What is attached anywhere, in an answer, a form or a request in flight, is or was an active document (`AttachmentsWereActive`).

**The timetable.** `LessonsAreSound` says of each request what it may still rely on at its commit. What it has written clashes with nothing but lessons that others committed since
its triggers looked (`met`, in `WritingIsRight`); the commit turns exactly these into `overlapped`, so `ClashesAreKnown` is kept. The same holds of covers (`CoveringIsRight`). A request whose reading was not out of
date has written rows that keep every day taught (`RowsKeepThePast`), and stays so over midnight because a decision to rewrite was made of a lesson that had not begun (`ReadingIsRight`).
No lesson is in two hands, which is the row lock (`HandsAreApart`).

**Billing.** Between the check and the issue of a run others commit. `WhatTheHolderKnows` says what remains true meanwhile for whoever holds the lock of a run: it is about to charge what the *run* has not charged
(`OneInvoiceEach` follows), and what was not billed by any run when it looked, which is why only an overlap bills twice; and if nothing came across it, it would read the same quotes again, which is why
a quiet run charges exactly who is due. Catch-ups test for any invoice of the pupil at the issue itself, hence `OneCatchUpEach`.

**Quotes.** `WholesArePaid` rests on lemmas of `TotalsTheorems` about the total of equal amounts and on facts about quotients that the provers do not find at once: a product of two unknowns is named and hidden before each
step of linear arithmetic. Two quotients of parts that make up a multiple of the divisor lose one unit at most (`PartsRoundDown`).

**Places.** `PlacesInv` needs one strengthening: nobody *waits* without the consent that is required either, and no request under way would give a place without it (`ConsentIsKept`); a promotion relies on both. A request is a chain of operators on the rows, so the
proof follows the rows and not the states: each operator takes rows in line to rows in line and moves one pupil (`RowsAreGood`, `OnlyMoves`), and `FairChange` collects what the whole change under the lock
may do, from which the four theorems follow for every handler. Finitely many eligible pupils are needed: the position of a pupil who joins is one more than the last, and the confirmed are counted.

**The school year.** In each module a request holds what it read earlier. The invariants say what remains true of such a reading: a final census only changes its status (`ReadsAreHonest`), no request that enters results has read a
published assessment (`EntryIsClosed`), a publication in flight holds the row of its report (`FreezeHoldsTheRow`), calls about a competition are current unless something crossed (`CallsAreCurrent`), attempts are numbered
in order and rewarded apart unless two overlapped (`NumberedInOrder`, `RewardedApart`). The history variables enter these invariants exactly where the code has no lock.

**Form of the models.** No definition is recursive: a sum of money is the number of
units its rows hold together (`Totals`), so that the library's theorems on cardinalities apply instead of induction over data, which the installed provers cannot do.
`tlapm` 1.4.5 expands an `@` inside a nested `EXCEPT` wrongly; where one was nested, `InvoiceLedger` spells out the row. It does not know `@@` and `:>`, so the timetable writes its rows with `After` and `Only`.

**Only model-checked.** Liveness under fairness (`MoneyArrives`, `SentIsDecided`, `EveryMessageSettles` in `SettledForCause`, `DeadFilesGo`), because TLAPS does not reason about ENABLED or
fairness. `QuotesByTheRules`: discounts and VAT lines are folds over a sequence of any length, and what a fold computes for every sequence needs induction over data; the run compares it with a definition
written from the rules, over bounded inputs. Every other property of the passing runs is stated by a theorem.

## 5. Findings

* **A partly refunded offline payment cannot be refunded again** (`offline_refund`). `requestRefund` makes the
  provider id of an offline refund from the transaction id alone (`payments-access.ts:1021`), and a
  unique index admits each id once, although the code selects partly refunded transactions as refundable and
  tells staff to refund a paid charge they want to cancel.
* **A preview of plans that start in different months is stale at once** (`fresh_preview`). The stale check quotes every plan with the
  instalment number of the run, which is that of the first quote (`tuition-access.ts:2937`, `:2142`); the rule says that a preview is
  stale only when a fresh quote would issue different invoices (`tuition.ts:183`).
* **A note moves past lessons to another time** (`lesson_times`). The `PATCH` of a lesson writes the times its period has now, even when it changes
  the notes only (`routes/timetable.ts:943`): over a time of the lesson's own, as in the trace of the run, and after the period was moved; while "past occurrences keep the definition that applied on that date" (ADR 0021:29) and the page says that
  notes can be changed and past lessons stay as they were (`schedule/page.tsx:1020`).

**Divergences the models keep, without a run of their own.** The models do what the code does here, and the properties are worded
so that they hold in spite of it.

* *Payments.* `manual_review` is called terminal (`0066:12`) and `finish` overwrites it (`0066:128`). The student portal's withdrawal keeps the charge
  (`activities-portal.ts:316`, ADR 0024:49); a pupil who comes back is not charged again, since the cancelled charge has the key; a second consent of a
  confirmed pupil in a full activity costs the place; raising the capacity promotes nobody (`activities.ts:573`). A refund is asked of the provider inside the database
  transaction (`payments-access.ts:1037`), a dashboard refund of a charge has no row (`:944`), and the idempotency key of an
  offline payment is looked up after the check that the charge is payable (`:565`).
* *Invoices.* Refunds count as settlement (`tuition-access.ts:3693`); a refund that fails after Stripe reported success stays credited (`:5642`); a checkout is created inside
  the transaction (`:5538`); the webhook and the checkout lock invoice and transaction in opposite orders (`:5594`).
* *Billing.* "Issued billing runs stay immutable" (`0064:2`), but a preview that read the run before may save after its confirmation (`tuition-access.ts:2126`). The account
  that will be billed is not part of the stale signature (`tuition.ts:177`).
* *Admissions and mail.* An offer may be withdrawn or expire after another request has read it and accepted (`routes/admissions.ts:1501`). The files of a form are
  checked before and not with its submission (ADR 0022:52). "In-request delivery and cron cannot double-send the same row" (ADR 0031:19) holds but for a lapsed lease or a lost record.
* *Timetable.* Two requests that overlap do not see each other's lessons, nor two covers each other, so that one class or teacher may be in two places; the triggers of lessons do
  not look at covers.
* *School year.* A finalisation that overlaps a snapshot makes an unvalidated snapshot final (`statutory.ts:912-946`), and one that overlaps an archiving takes the census out of the archive.
  A section saved across a publication differs from it (ADR 0017:51); a comment may change after approval
  (`assessments.ts:1401`). Reviewing a published result moves its maximum to the definition's, which may have changed since (`0021`). A result entered by a request that overlaps
  the publication is released without a notice. Two completions of a competition
  freeze its rows twice (`engagement-service.ts:1230`), one while competitions are switched off freezes an empty board, and a score that overlaps the completion is missing on the board.
  Two attempts completed at once are rewarded twice when XP is off (`:747`); two started at once may exceed the number allowed (`:597`).

## 6. Not modelled, and why

* Every component marked `not_modelled` in `PROJECT.json`, with its reason there; the plan below takes up those with state worth interleaving.
* Of the charge ledger: listings, statements, formatting, permission checks and notifications, which change none of the modelled rows.
* Of the invoice ledger: the display snapshot of an invoice, receipts, audit rows and mails; its lines and VAT are in `TuitionQuotes`.
* Of billing: how the discount candidates of a pupil are collected, one-off charges, and the calendar of the periods.
* Of admissions: the conversion of an enquiry, guardian links, mails. Of files: the other owners of stored objects.
* Of the timetable: years, terms, exceptions, rooms, several teachers of a lesson, the occurrences that pages compute from it.
* Of mail: templates, attachments, branding. Of the school year: recipients, deadlines, grade schemes, targets, audiences, and what
  the rules of the census check (a snapshot has errors or not).
* Charges: a refund that succeeds at the provider while the transaction that asked for it is rolled back, and
  refunds made in the provider's dashboard. Invoices: a dashboard refund that fails after Stripe reported it as made.

## 7. Plan

1. `InvoiceSettlement`, the composition of `InvoiceLedger` with `WebhookClaims` and the provider, and an abstract account of an
   invoice like `ChargeAccount`, implemented by a mapping that `BooksInv` justifies.
2. Academic years and terms, timetable versions and exceptions, registers, invitations and sessions, message threads, the operational reset.
3. Provider side of refunds: requests rolled back after the provider acted, dashboard refunds.

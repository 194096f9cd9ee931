# ConfPilot: a verification project

ConfPilot takes a conference from the call for papers to a published program.
Its server (`src/apps/api/src`) is a Hono application over one relational
database (D1 on Cloudflare, SQLite on Node), a private file store (R2 or a
directory) and an e-mail provider; its pages (`src/apps/web/src`) are React over
that API. Requests, cron ticks and replicas run concurrently and share nothing
but the database and the file store, so what can go wrong lies between two
statements: a row read by one request and changed by another before the first
one writes, a process that dies between a file and its row, a timer that fires
twice. And it lies between two readings of the same rows: a rule that a trigger
enforces in SQL, a page explains in TypeScript and a button decides in React.

The directory holds TLA+ modules that model the server and its pages, TLC
configurations that check them on small instances, and proofs that TLAPS checks
for every instance.

## Inventory

| Component | State it keeps | Operations | Interacts with |
| --- | --- | --- | --- |
| Message outbox (`features/messaging/message-outbox.ts`) | `message_outbox` rows: state, attempts, lease token and expiry, next attempt, cancellation | enqueue, cancel, purge, and the dispatcher: three sweeps, select, lease, read, send, record | routes that enqueue or cancel; the mail provider; the scheduler |
| Scheduler (`host/scheduler.ts`) | a timer, the run under way, a stop flag | tick, stop | the dispatcher, one per process |
| Decision notifications (`app/email-dispatch.ts`) | `notification_outbox` rows | queue, bridge pending notifications into the message outbox, copy the outcome back | decisions, message outbox |
| Decisions and acceptance (`features/decisions`) | `decisions`, sessions, submission states | record or replay a decision, accept | review, speaker content, notifications |
| Reviewer invitations (`event-invitation-routes.ts`) | `reviewer_invitations` | create, revoke, resolve, accept, register | message outbox (cancels the invitation mail in the same batch) |
| Speaker claims (`speaker-claim-routes.ts`) | `speaker_claim_invitations` | create, revoke, resolve, accept, register | message outbox, speaker profiles, roster intake, call for papers |
| Review workflow (`features/review`) | plans, assignments, scorecards, corrections, recusals, rounds, pools | assign, auto-assign, answer, score, correct, recuse, revoke, open and close a round | call for papers, decisions |
| Call for papers (`features/cfp`) | calls, proposals, answers, presenters | open, close, save, submit, invite a co-presenter | speaker accounts, review, decisions |
| Speaker content (`features/speakers`) | profiles, tasks, deliverable requests, versions, reviews, approvals | edit, upload, download, submit, approve, return | file storage, agenda and publication |
| File storage (`private-file-storage.ts`, `runtime/filesystem-file-store.ts`) | objects and their sidecars; the columns that name them | put, head, get, delete; store with verification and cleanup, verified reads | speaker content |
| Agenda and publication (`features/agenda`, `features/publication`) | days, rooms, placements, publication, embeds | place, move, auto-place, publish, read the public program | speaker content |
| Program readiness (`app/program-readiness-service.ts`) | nothing of its own | derives what still keeps a session from the public | all of the above |
| Web application (`apps/web/src`) | the last page loaded, drafts, a visitor's schedule | load, save, every button | the API |
| Sessions, rate limiter, migrations, host | sessions, counters, applied migrations | sign in and out, count, migrate | everything |

What is hard here: interleavings of requests on one row, guards that are read
in one statement and relied on in another, batches that a trigger aborts, a
provider call whose answer is lost, leases and other timers, crashes between the
file store and the database, two tables held together by a copying job, and one
rule written three times. `PROJECT.json` lists each such place under `hazards`
with the properties that would catch it going wrong.

## Plan

1. The message outbox and its dispatcher, the abstract lifecycle it implements,
   the dispatcher on hosts that never stall, and their proofs. (done)
2. The components whose steps are several statements of one request and whose
   writes end a message of the outbox: reviewer invitations, speaker claims,
   and the pages over them. (done)
3. The private file store with crashes, its proof, and the uploads, downloads
   and archives above it. (done)
4. `ContentApproval` with its proofs, and the pages and screens over it. (done)
5. `ProgramAgenda` on top of it, the readiness page, the public pages and the
   screens over them. (done)
6. `DecisionNotifications`, the composition of the notifications with the
   outbox. (done)
7. `CallForPapers`, `ReviewWorkflow` and `Decisions`, three layers of one
   state machine, with the pages and screens over them. (done)
8. `ProfileEditor`, the two forms that edit one profile. (done)
9. Sessions, the rate limiter's window, the migration runner, the editor of
   embeds.
10. Theorems about invitations, claims, uploads and the review of a proposal,
    each over its own strengthening. (done)
11. Theorems about the composition of notifications and outbox, about the agenda
    and about the pages and screens of both consoles. (done)
12. `ObjectStore`, the abstract store that `FileStore` implements, and the
    refinement. (done)
13. `PrivateUploads` over an instance of `ObjectStore` instead of its own `stored`.

How the modules build on each other (EXTENDS):

    DeliveryLifecycle <- MessageOutbox <- PromptDispatch
                         MessageOutbox <- DecisionNotifications
                         MessageOutbox <- OutboxCancellation <- MessageOutboxProofs
    DecisionNotifications, MessageOutboxProofs <- DecisionNotificationsProofs
    ReviewerInvitations <- InvitationScreens <- ReviewerInvitationsProofs
    SpeakerClaims <- ClaimScreens <- SpeakerClaimsProofs
    FileStore <- FileStoreProofs
    PrivateUploads <- PrivateUploadsProofs
    ProfileEditor
    ContentApproval <- ContentPages <- ContentScreens
    ContentApproval <- ProgramAgenda <- ProgramReadiness <- PublicPages <- AgendaScreens
    ContentScreens, AgendaScreens <- ProgramProofs
    CallForPapers <- ReviewWorkflow <- Decisions <- ReviewPages <- ReviewScreens <- SubmissionsProofs

(`DeliveryLifecycle` is instantiated by `MessageOutbox` and `ObjectStore` by
`FileStore`; neither is extended.) A module
named `...Pages` holds what the server's queries answer, one named `...Screens`
what the browser makes of it: which operations a freshly loaded page offers, and
what its buttons send. What the server takes is a named guard of the operation
(`MayCreate`, `MayPublish`, `MayPersist`, ...), the same definition its action
has as a conjunct, so that an offer and a guard are two state predicates that
can be compared, and proved equivalent. A page that has grown old sends requests the server may
get at any time anyway, and the modules below it take those in every state; so
the screens are operators over the state, with no variables of their own, and
the property of a screen says that what it shows is true and what it offers is
taken. `ProfileEditor` is the exception: there the age of the page is the point.

## The modules

### MessageOutbox

One step is one SQL statement or one provider call of one process. `clock` is
wall-clock time; `outbox[m]` is the row of message `m`, or `AbsentRow`;
`worker[w]` holds the phase of process `w` and the locals of
`dispatchQueuedMessages` that outlive a statement: `now` (fixed when the run
starts), the candidates not visited yet, the message and lease token in hand,
the attempt count read before the send, the provider's answer. `history[m]` is
not in the database: it counts the provider's acceptances and remembers whether
anything happened that entitles the system to send again.

| Action | Code |
| --- | --- |
| `Enqueue` | `prepareMessageInsert`, `prepareMessageEnqueue` |
| `Cancel` | the cancellation in the batches of the invitation and claim routes |
| `Purge` | `purgeTerminalMessages` |
| `StartRun` | entry of `dispatchQueuedMessages` |
| `RecoverExpiredLeases`, `FailExhaustedLeases`, `CancelExpired` | the three sweeps; `CancelExpiredAborts` is the trigger that rejects the third |
| `SelectBatch`, `LeaseCandidate`, `SkipCandidate`, `ReadRow` | candidate query, compare-and-set, read by id |
| `ReleaseCanceled`, `Send`, `RecordDelivered`, `RecordQuota`, `RecordRetry`, `RecordFailed` | the rest of the loop |
| `Crash` | the process dies or a statement throws, at any point of a run |

A run goes on with a stale `now`, so several runs at different instants overlap
with no bound on how far they lag behind: that is what a stalled or slow process
is. Time is cut off at `Horizon`; an instant beyond it is `Horizon`, so at the
end of time every timer is due and behaviours still go on (needed for liveness).

### OutboxCancellation

`MessageOutbox` with one history variable. A run reads its row (`ReadRow`) and
calls the provider later (`Send`); a route or another run's sweep may cancel the
message in between, and the call is made all the same. `overtaken` remembers of
which runs that is so; it keeps no step from happening. The property is about
the send and not about the read: `LateSendWasOvertaken` says that the provider
accepts a canceled message only from a run that had read the row before the
cancellation committed, and only while that run owns the lease unless the
message has a cause to be sent twice. So one cancellation is overtaken by the
calls under way, and no retry, recovered lease or second run sends after it.

### DeliveryLifecycle

What the outbox promises of one message with no clock, tokens or dispatchers:
the transitions the triggers allow and the attempt budget. `MessageOutbox`
implements it under the mapping `Lifecycle`.

### PromptDispatch

`MessageOutbox` on hosts that never stall: time passes in a run only inside a
provider call, a call lasts at most `SendTimeout`, every message is accepted and
the answer arrives in time, nobody crashes, cancels or purges. Each process
starts a run when its timer fires.

### DecisionNotifications

The whole scheduled run (`email-dispatch.ts`): copy the oldest pending
notifications into the outbox, dispatch, copy the outcomes back. The dispatch is
`MessageOutbox`'s, action by action; `notice[m]` is the row of
`notification_outbox`, `bridge[w]` the notifications a run works on.

| Action | Code |
| --- | --- |
| `QueueNotification` | `queueDecisionNotification` |
| `StartScheduledRun`, `BridgeNotification` | the query of pending notifications and the loop that enqueues each, or fails it when nobody can be mailed |
| `StartDispatch`, `ContinueDispatch` | `dispatchQueuedMessages` |
| `SynchronizeNotification` | `synchronizeDecisionNotification` |
| `RunDies` | the process dies, or a statement throws |
| `Mail` | what the rest of the program does to messages that are not notifications |

`notificationStatus`, `transportStatus` and `deliveryStatus` are the words of the
owner's page and of the organizers' communication history,
`LedgerNotificationAction` the button of the decision ledger.

### ReviewerInvitations, InvitationScreens

Invitations of one event. A request is a sequence of statements and batches, a
batch one step; `request[r]` holds the step it is at and the locals that
outlive a statement. `invitation` and `message` are the rows, `accounts` and
`reviewers` the users and their role.

| Action | Code (`event-invitation-routes.ts`) |
| --- | --- |
| `BeginCreate`, `ExpireOverdue`, `CheckConflict`, `InsertInvitation`, `FindReplay`, `FindPending`, `FindReviewer` | create: the lookup by key, the batch that expires, the conflict query, the insert with its message, the three queries of the catch block |
| `BeginRevoke`, `CommitRevoke` | revoke |
| `BeginAccept`, `CommitAccept`, `ExplainAccept`, `ExplainRole` | accept by an account |
| `BeginRegister`, `CheckAccount`, `CommitRegister`, `ExplainAccount`, `ExplainToken` | accept with a new account |
| `LeaseMessage`, `SettleMessage`, `ExpireMessage` | the dispatcher, cut down to what it does to the message of an invitation |

A batch is aborted when a trigger (migrations 0016, 0018, 0023) or a unique
index rejects one of its statements; the guards of the triggers are conjuncts
(`Insertable`, `OutboxAgrees`, `Acceptable`). Hosts share no clock: a request
reads any instant that is not before its own last reading, so a lease, an expiry
and an acceptance may carry timestamps in any order.

`InvitationScreens` adds the route that resolves a link and the two pages
(`projection`, `ReviewerInvitationPanel`, `ConnectedReviewerInvitation`), loaded
at an instant of one more clock. `InvitationPagesWork` says that an offered
button is taken by the database as it is, unless the offer rests on a clock that
is behind a row.

### SpeakerClaims, ClaimScreens

The same for the claims of speaker profiles (`speaker-claim-routes.ts`,
migrations 0017, 0018, 0025), which end in the ownership of a profile. The
profile's contact address decides who may claim, and other parts of the program
move addresses and owners while a claim is open: `ChangeContact` (the profile's
editor), `IngestRow` (the roster), `AddCoPresenter`, `RegisterByCfp` and
`JoinByProposal` (the call for papers), `OpenAccount`. Requests here stamp their
writes with the later of their clock and the timestamps they read with the claim.
`ClaimScreens` does for these pages what `InvitationScreens` does for those.

### FileStore, ObjectStore

`filesystem-file-store.ts`: an object is a data file and a sidecar that names
it, published by `rename` and made durable by `fsync` of the directory. One step
is one system call. `sidecar[k]` and `data` are what a process sees;
`maybe[k]` is what a lost host may make of the sidecar, the values it had since
the last sync, and `kept` the data files that are sure to be on the disk. `Crash`
picks among them for each entry separately and ends every call.

Every step may meet an I/O error. One of a write, a sync or a removal ends the call
(`Error`; a failed `Reclaim` is dropped). One of a read does not: `readSidecar`
catches any error and returns `null`, and so does the opening of the data file in a
`get`, so that a failing read passes for a missing object. A `get` then answers that
there is none (`OpenFails`, or `Begin` with a read that failed), a `put` or a `delete`
goes on and removes no bytes. A call has therefore two fields: `read` is what it
took the sidecar to name, and the code knows no other; `previous` is what the sidecar
did name, which only the properties ask for. A `head` is the first read of a `get`.
Errors of the stream after the data file is open are the reader's, and are left out.

| Action | Code (`filesystem-file-store.ts`) |
| --- | --- |
| `BeginPut`, `WriteData`, `SyncData`, `PublishSidecar`, `SyncSidecar`, `Reclaim` | `put` |
| `BeginDelete`, `Unlink`, `SyncUnlink`, `Remove` | `delete` |
| `BeginGet`, `Open`, `OpenFails` | `get`: the sidecar, then the data file |
| `readSidecar` | the first statement of each, with its `catch` |

A write's bytes are its identity: reading the wrong bytes is reading another
write's. Temporary names are left out, since nobody reads them, and the platform
is one on which a directory can be synced.

`ObjectStore` is what the callers rely on, with no files: a key has an object or
none, `fate` is what a crash may make of it, and a call is begun, takes effect at
once, is settled when no crash can undo it, and is answered only then. A `get`
answers that there is nothing if it saw nothing, which a failing read makes of
any object (`Begin`, `Misread`), and otherwise only if what it saw is gone
for good. `FileStore` implements it (`ImplementsStore`) with `sidecar` for the
object, `maybe` for its fate and the steps of a call grouped by `StateOf`: writing
and syncing the data file is a stutter, the rename or unlink of the sidecar the
effect, the sync of the directory the settling, and reclaiming a stutter or the answer.

### PrivateUploads

`storePrivateFile` and the two upload handlers: an object is put, inspected, and
a row that names it is written; if that fails the handler asks whether a row
names the object after all and removes it if none does. Beside them the reads:
a download finds the row and then its object, an archive verifies every object
before the answer starts and opens each one again while it is streamed. `stored`
is the store as `FileStore` shows it for keys that are put once (every put draws
a new key), `profile` and `versions` are the rows.

| Action | Code |
| --- | --- |
| `BeginHeadshot`, `BeginVersion`, `ReadSource` | `speakerForUpload`, `uploadSource` |
| `Put`, `Inspect`, `Check`, `Cleanup` and their failures | `storePrivateFile`, `privateFileIsReferenced` |
| `ReadProfile`, `UpdateProfile`, `VerifyHeadshot`, `Replace` | `finalizeHeadshot`, the removal of the replaced headshot |
| `Insert`, `FindCanonical`, `VerifyVersion` | `finalizeDeliverableVersion` with the trigger `deliverable_versions_valid_insert` |
| `BeginDownload`, `BeginArchive`, `VerifyObject`, `Open` | the download routes, `readPrivateFile`, the deliverables archive |
| `Unread` | the same, when the store does not give an object that may be there |
| `Crash` | the process dies at any step |
| `EditProfile`, `ToggleRequest` | other writes of the two rows |

A call that fails may have had its effect; an effect that comes later than the
error is not modelled. The handler's three attempts are one: see below.

### ContentApproval, ContentPages, ContentScreens

Everything between the acceptance of a session and its approval. The trigger
`program_sessions_approval_gate_update` checks the gates of an approval once,
and seven others, each on one table, take the approval back when a later write
unsettles a gate (migration `0006`). The state is the columns the gates read, as
sets of rows: `accepted` and `approved` sessions, `confirmed`, `ready`, `signed`
and `published` speakers, the states of `task`s and `request`s, the stored
`deliverables` status. `complete` is what `profile_status` is meant to say.

| Action | Code |
| --- | --- |
| `Accept` | `acceptanceStatements` of a decision: session, presenters, default tasks |
| `OwnProfile`, `Headshot`, `OrganizerProfile`, `RestoreProfile`, `Visibility`, `Workflow` | the functions of those names in `speaker-content-service.ts`, with `speakers_demote_approved_update` (`HeldBack`) |
| `ProposalBio` | the create and save handlers of a proposal, which write the bio of the profile |
| `SpeakerTask`, `OrganizerTask` (`SetTask`) | `mutateTask`, with the agreement and the trigger of reopened tasks |
| `AddTasks` | `createBulkSpeakerTasks`, with the trigger of added tasks |
| `CreateRequest`, `UpdateRequest`, `Upload`, `ReviewLatest`, `ReviewOlder` | requests, versions and reviews, each with its trigger (`Refresh`) |
| `Approve`, `Unapprove` | `updateSessionApproval` |

Each operation reads a row and writes it only if its revision is still the one
read, so it is one step. Of a request only the latest version's latest review
decides anything, so a request's row keeps that and whether an older version can
still be reviewed. Edits of a session's title, abstract and other content change
none of these columns: they leave an approval as it is, and are left out.

`ContentPages` are the readings: the causes the content page lists
(`unmetGates`, TypeScript) beside the gates of the trigger (SQL), the roster, the
speaker's workspace, the two reminders, the archive's contents. `ContentScreens`
are the dossiers, the roster and the speaker's desk over them. Their property
`ContentScreensOffer` has four parts: `WorkspacesAgree` (no two readings
contradict each other or the trigger), `ButtonsAreTaken` (what a screen offers,
the server takes, and what it would take is offered), `NothingIsStuck` (for every
cause that holds a session back somebody is offered the remedy) and `RosterIsTrue`
(desk, deadline panel and roster count the same tasks). `LastButtonClears` is about
steps: when one thing is left, pressing its button empties the list of causes.
`StatusesFollow` is about the two copies the database keeps of other rows: the
deliverables' status (`DeliverablesCurrent`) and the agreement
(`AgreementFollowsRelease`).

### ProgramAgenda, ProgramReadiness, PublicPages, AgendaScreens

The agenda over the sessions and speakers of `ContentApproval`: `day` and `room`
rows, `placement`s, lengths and publication. Rooms and windows are protected by
triggers (migrations 0007, 0014), speakers are not.

| Action | Code (`agenda-service.ts`) |
| --- | --- |
| `CreateDay`, `EditDay`, `CreateRoom` | days and rooms, with the triggers that keep placements inside their day |
| `EditLength` | the session's duration, refused while it is placed |
| `CreatePlacement`, `MovePlacement`, `DeletePlacement` | placements, with the overlap triggers |
| `AutoPlace` | `autoPlaceAgenda`: for each session asked for, the first start at which a room is free and no presenter busy |
| `Publish` | `publishAgenda`: refuses an agenda with a conflict, publishes what is ready |

`Program` is the public program's query. `ProgramReadiness` is the third reading
of the same rows (what blocks each session); `PublicPages` the speakers, embeds,
calendars, and the organizers' counts and conflicts; `AgendaScreens` the board,
the cockpit and the program page in the browser, with the filter of a fixed embed
and a visitor's own schedule worked out again in TypeScript. `AgendaSound`: no
room holds two sessions at once, every placement lies in its day's window and on
its grid and lasts as long as its session, however days and lengths are edited,
and what counts as published has a place. `AgendaScreensOffer` collects
`ViewsAgree` and `PublicPagesAgree` (nobody is in two places at once in the
program; the counts, the blockers, the calendars and the program tell the same
of a session), `BoardIsTrue`, `PublishIsOffered`, `CockpitLeadsOn` and
`BrowserAgrees`. `PublicationDecides`: what is not published cannot change the
program (`ProgramIgnoresDrafts`), and publishing shows whatever the cockpit wanted
published (`ButtonsKeepTheirWord`). `AutoPlacementSound`: an automatic placement makes no conflict, and what
it leaves without a place has none.

### CallForPapers, ReviewWorkflow, Decisions

One proposal from draft to decision. `proposal` (status, the row's copy of the
text, the answers), the co-presenter's `presenter` row, `rows[r]` (the
assignments of reviewer `r`, with stage, conflict, revision, plan), the named
round's `window`, `pool` and `plan`, the `decision` and the `session` an
acceptance makes.

Handlers that look at tables other than the one they write are two operators:
`XRead`, what their queries must have found, and `XWrite`, what their batch does
to the tables as they are by then (the conditions its SQL repeats, and the
triggers of migrations 0003, 0012, 0013 and 0019 to 0021). `Decisions` joins them:
`XNow` runs a handler at once, `XEnters` and `XFinishes` let the one overtaken
`request` arrive and write later with any number of others in between, `Dies`
loses it. Handlers that repeat at the write every condition they read run at once:
being overtaken only refuses them. One overtaken request is enough because a
request in flight changes nothing until its single batch, so what an interleaving
of several does is what each of them sees, which is a sequence of others' batches
between its read and its own.

| Actions | Code |
| --- | --- |
| `SaveForm`, `CreateProposal`, `Save…`, `Submit…`, `Join…`, `Leave…`, `ClaimProfile` | `cfp-routes.ts` and the claim of the co-presenter's profile |
| `Assign…`, `Auto…`, `Revoke`, `Accept`, `Decline`, `Recuse`, `DeclareConflict`, `Score…` (with corrections), `PatchRound`, `AddToPool`, `RemoveFromPool`, `createEvaluationPlanVersion` | `review-routes.ts` |
| `Decide…`, `DecideAgain`, `acceptanceStatements`, `materializeAcceptance` | `decision-service.ts`, `acceptance.ts` |

Creating a proposal runs at once, since its insert rechecks all but the window.
An assignment's stage merges its state and its answer. A waitlisting leaves the
proposal as a rejection does. The default round has no plan.

`DossierFrozen`: from the first assignment on, nothing the owner has in flight
changes the title, the answers or who presents. `ScorecardsStand`: a scorecard is
written only on an accepted assignment without a conflict, by somebody who does
not present, under the plan that was active when the assignment was made; and no
revocation, decision, recusal or conflict that races with it takes its assignment
away. `DecisionIsWhole`: a decided proposal has no open assignment of the default
round, and a session exists exactly for an acceptance and has the presenters the
proposal has.

`ReviewPages` are the dozen queries about a proposal, `ReviewScreens` the
reviewer's queue and workspace, the organizers' queue, detail, rounds, decisions,
and the owner's history; `ScreensOffer` says that they agree with each other
(`PagesAgree`), that what they offer is taken, and that nobody who could act is
shown nothing to do. `FormsAreSaved` is about the step that follows: what the server
takes is not lost on conditions that only the tables' own SQL has.

### ProfileEditor

One profile, edited in the portal and in the roster. The server is its revision
and fields; a form is what its code keeps: the last profile given
(`canonicalDraft`), the `draft` with the revision a save will name, and one slot
for each kind of request it may have in the air. Reloads, answers and typing meet
in any order.

| Action | Code |
| --- | --- |
| `Type`, `Save`, `Headshot`, `ToggleVisibility`, `ToggleWorkflow`, `Restore` | the form's handlers |
| `Take` | the server takes a request at its current revision, or answers 409 |
| `PageReload`, `Read`, `Loaded`, `Reload` | `useApiResource` and the effect that shows a new profile |
| `SaveAnswered`, `MetaAnswered`, `OnlyThisMutationAdvancedCanonical` | the form's reactions to an answer |

## The runs

Every run states its question in `PROJECT.json` (`runs`); here are the bounds.
A module's type invariant is a property of its own, or the first conjunct of one:
of the invitations' `AnswersAreTrue`, `AcceptedClaimOwns`, `VersionsInOrder` and
`AgendaSound`. The longest runs (`file_store`, `program_agenda`, `content_approval`)
take about two and a half minutes with two workers.

* `outbox_race`: one message, two dispatchers, budget of two attempts, horizon
  of four ticks with a lease of one and backoffs of one and two. One message is
  enough for every race on a row, two attempts for the last and the last but
  one, four ticks for a recovered, backed-off and recovered-again lease. Batches
  of several rows are met in `slow_batch` only; the proofs are for any number.
* `outbox_liveness`: the composition with the notifications; one message, which
  is ordinary mail or a notification, two processes, three instants. Fairness is
  one clause per process, `WF(ScheduledRun(w))`: the timer of `startScheduler` (or
  the cron trigger) fires again after every run, and a run's next statement is
  executed; and that time passes. A process may die in any run before the last
  instant, which stands for all later time (`NotificationNext`), and the property
  assumes that quota answers stop: a process that dies in every run, or a provider
  whose quota is always exhausted, never delivers anything.
* `slow_batch`: see Findings.
* `invitation_race`: two requests of any kind, again and again, two invitations
  of one address and two idempotency keys, time 0 and 1 with a lifetime of one.
  Two requests make every race of two statements on a row; a third would only
  repeat one of them, since a request leaves nothing behind but its rows. Two
  instants are before and at the expiry. Creates that differ in their address
  under one key are outside this instance: see "Met while modelling".
* `claim_race`: two requests, two claims, two profiles, two addresses, two
  instants, hosts whose clocks differ. Two addresses are the one a claim was sent
  to and the one it changed to, two profiles let an address move from one to the
  other. `LiveState` merges states that differ in what nothing reads any more.
* `file_store`: three calls on one key, three writes, two faults. Keys share
  nothing but the directory's sync; three writes are the object there was, its
  overwrite and another overwrite that races with it. A fault is a crash, an error
  of a write, a sync or a removal, or a failing read; two are one and what follows
  it. The run checks the refinement of `ObjectStore` beside what the answers mean:
  what was answered as written or deleted stays so even if the call misread the
  sidecar, and a `get` whose reads did not fail finds the object.
* `private_uploads`: two calls (uploads of either kind, downloads, archives),
  three objects, two keys and two files, two edits, two faults: a failure and the
  failure of its cleanup, or a failing read beside either. `LiveState` forgets a call that is over once no property
  speaks of it.
* `content_approval`: two sessions, a speaker who presents one, a speaker who
  presents both and is the primary of the second; the release task for all, one
  further task for the shared speaker of the first session (`Addressed`), one
  request; the shared speaker goes on writing proposals (`Drafting`) and comes with
  a full profile (`Described`). Two sessions with a shared speaker are what makes
  one agreement or profile decide about several approvals; a primary and a co-
  presenter of one session are the two kinds of gate. No counter is bounded: the
  state space is finite. `LiveState` merges states that differ in what no later
  step and no property of the run asks for.
* `approved_profiles`: see Findings.
* `program_agenda`: two sessions of one speaker, two rooms, one day with two
  windows, lengths of one and two slots. Two sessions and two slots are what
  overlaps, in a room or in a person; two rooms let one person be in both. The
  rooms, and the sessions, are interchangeable. No session has requests or a
  co-presenter here, nor are there two days, which share nothing: what the pages say of deliverables and of co-presenters who are not public
  rests on the proof, `AgendaScreensAreTrue`.
* `submissions`: one proposal, one reviewer with at most two rows (`MaxRetries`: one
  in each round, or a second try in one), a scorecard and one correction of it
  (`MaxRevision`), a named round whose plan changes once (`MaxPlan`), a co-presenter who joins once and whose profile the reviewer may
  come to own, and one overtaken request. Two proposals share no row; two reviewers
  share a pool and a quota, so a race of two automatic assignments is not met.
  `LiveState` merges states that differ in what nothing asks for any more.
* `profile_editor`: see Findings. Three contents, so that two users can type
  different things over the first; four revisions; the form that is out of
  revisions may stop, so deadlock is not an error there.

## Findings

* `slow_batch`. `scheduler.ts:16-23` says a second send of a message needs the
  process to stall for most of a minute. A lease counts from the start of the run
  (`message-outbox.ts:255`, `:300`), not from the call it protects, and a run
  makes up to 25 calls of up to ten seconds. With the shipped timings (lease 60
  s, timeout 10 s, interval 5 min, backoff 30 s) and two replicas whose timers
  are a minute apart, the seventh message of a batch of slow, successful calls
  is recovered by the second replica and accepted twice, and nobody stalled.
* `approved_profiles`. Creating or saving a proposal writes its bio into the
  author's profile, an empty one too (`cfp-routes.ts:867`, `:1195`), and leaves
  `profile_status` alone. `program-readiness-service.ts:275` says primary
  presenters of a ready session must be "complete"; after such a save an
  approved, and perhaps public, session has a presenter without a bio whose
  status still says `ready`. Every other write of a bio judges the profile anew.
* `profile_editor`. `ConnectedSpeakerContentAdmin.tsx:261` promises that unsaved
  edits keep their original revision so that they cannot overwrite a change made
  elsewhere. The answer of a headshot, visibility or workflow change compares its
  revision with the profile the form was last *given* (`:251-258`, and
  `ConnectedSpeakerPortal.tsx:99-105`), not with the one the edits started from: a
  reload that brings somebody's save, and then such an answer, move the draft to
  the newest revision, and its save replaces that somebody's text.

### Met while modelling, without a run of their own

Invitations, claims, mail

* Two creates with one idempotency key and two addresses that race: the one that
  loses is answered with the other's invitation (`event-invitation-routes.ts:272-280`),
  where the sequential case is a 409 (`:200`); `speaker-claim-routes.ts:180` has
  the same shape.
* Revoking a claim that an accept has just ended is answered 200: the batch
  changes no row and nothing looks. A repeated accept of an invitation is answered
  410, the agent manifest says 409.
* A claim's or invitation's page does not tell whether to register or to sign in.
  A profile whose address belongs to an account that is a speaker already can
  never be claimed. The organizers' invitation panel keeps its idempotency key
  after a replay.
* The 25 oldest pending notifications occupy the bridge's window until their
  messages settle. `purgeTerminalMessages`, which nothing calls, would let a stale
  run enqueue a sent notification again. A notification queued before the
  activation cutoff is never bridged.

Call for papers, review, decisions

* A create whose answer was lost is found again by its draft key, and the newer
  text the author has typed by then is replaced by the old; `submitProposal` then
  submits the old values (`cfp-routes.ts:814`, `:878`; `ConnectedCfpPages.tsx:298`).
* A save that read `draft` commits blank answers after a submission; a submission
  writes title and abstract of answers read earlier; an acceptance makes its
  session of a title and abstract read before the batch
  (`docs/backend-foundation.md:72` calls it a copy).
* The limit of twenty proposals is counted and inserted in two statements. The
  deadline is read once, at the start of a request; the window of a named round
  is not rechecked by the insert of an assignment.
* Two automatic assignments at once may exceed the number of reviewers asked for.
  Two assignments of one reviewer to different rounds race for a retry number,
  and one is a 500.
* A conflict declared on one row leaves the reviewer's other row scorable; its
  second declaration is answered with a misleading 409. A reviewer who has scored
  may claim the co-presenter's profile, and the scorecard keeps counting.
* `docs/backend-foundation.md:102` predates corrections.
* The pool editor sends the whole list of a page that may be old, and the plan's
  form saves without a revision: edits are lost. The reviewer's workspace may open
  a withdrawn row first; a decided proposal without assignments drops out of the
  organizers' list, results and CSV.

Content, files

* A session that never had a request keeps `deliverables_status` `missing` while
  the view says `ready`. The approval reads neither, but the roster
  (`speaker-content-service.ts:613`) and the reminders (`speaker-reminders.ts:108`)
  then show its deliverables as outstanding. `DeliverablesCurrent` is therefore
  stated of sessions that have had one.
* A speaker marked as declined is confirmed again by the next acceptance of a
  session of theirs. A speaker may empty their own profile and stay `published`.
* The roster's filter "Ready" asks for a headshot the portal calls optional, its
  approval column calls a speaker without sessions approved, and a waived task
  never completes the speaker's progress ring.
* `get` of the filesystem store answers `null` when an overwrite removes the
  data file between its two opens, though the key has an object throughout. Two
  overlapping overwrites leave a data file nobody names.
* An I/O error of a read is a missing object to `get` and `head`
  (`filesystem-file-store.ts:259`, `:326`), and with them to downloads and archives:
  one failing open answers `null` for an object that is there, put once and never
  deleted. A `delete` whose read of the sidecar fails answers done and leaves bytes
  nobody names; an overwrite whose read fails leaves those of the old object.
* `speaker-content-handlers.ts:319` retries on a message that
  `deliverable_versions_valid_insert` does not use for a stale number, and
  the trigger speaks before any unique index: the retry is never taken, and two
  uploads of versions at once make one of them a 500.
* `agent-manifest.ts:270` says a retry with the same key returns the existing
  version; `uploadSource` answers 404 once the request is inactive.
* A write that is followed at once by another is answered 409 although it is done:
  the handler reads the row again and finds the wrong revision. For a headshot
  upload the replaced object then stays in the store.

Agenda, publication

* Readiness counts a published session as not published while any placement of
  its speaker overlaps, though the program shows it; the agenda's
  `publicSessionCount` counts conflicting sessions the program hides.
* Approving a session again makes it public at once if it was published before.
* The public program is read in three statements, the readiness page in five:
  a page may show two states. A calendar's `DTSTAMP` is the publication's although
  a move changes its contents.
* The agenda's page can create only the first day and edit none; the placement
  dialog starts with an empty start if the session is too long for it; a session
  that is hidden for a while is lost from a visitor's saved schedule at the next
  toggle.

## Proofs

`MessageOutboxProofs` proves the inductive invariant `OutboxInv`; type
correctness is not inductive alone: that a lease keeps `attempts` within its
range needs the budget of queued rows (`QueuedHasBudget`), that of a retried row
needs the count read before the send to be current (`AttemptsReadAreCurrent`),
that needs a run's token to name one lease. `HistoryInv` adds what is known of a
message nothing has happened to, and with it every second send has a cause; the
action properties and the refinement of `DeliveryLifecycle` follow from the two.
`CancellationsStopSends` is of the outbox with the memory of `OutboxCancellation`:
a step of it is a step of the outbox, so both invariants hold of it too, and to
them it adds `OvertakenKnown`, that a run still to call with a canceled message is
remembered as overtaken; that it owns the lease is `HistoryInv`.
The assumptions are `OutboxAssumption` (types and positive timings) and
`BackoffAssumption`, which is true of all numbers and stated because the provers
have no theory of exponentiation.

`FileStoreProofs` proves that no object is ever torn, that no crash undoes an
answer, that a `get` whose reads did not fail finds the object, and the refinement
of `ObjectStore`, for any number of calls, writes, keys and faults, failing reads
among them. None is inductive: an overwrite removes the data file of the sidecar it
read, and nothing in that step says that no sidecar names the file. `IInv` adds what
makes it so. A write is drawn for one key (`OwnKey`) and published once (`Fresh`);
its bytes are on the disk before its sidecar is renamed (`BytesFirst`); what a call
replaced is out of sight after its change and off the disk after its sync
(`Replaced`), so what it removes is named by no sidecar, seen or recoverable, and
each sidecar a crash may leave names bytes that are there (`SafeData`). What a call
read is what the sidecar named or nothing (`TrueReads`), so a failing read makes a
call remove less and never another's bytes. The
refinement needs, besides, that a call's operation goes with its step (`StepsOfOp`);
one lemma per system call says which step of the store it is. The case with
substance is a `get` that read a sidecar and finds no bytes: what it read is in no
sidecar that may survive, because `SafeData` holds of all of them.

`PrivateUploadsProofs` proves that a row names an object that is stored, that
versions are numbered in order and none is lost, what a download finds, and that
a refusal leaves nothing behind, for any number of uploads, keys, objects, edits
and failures. The heart of the invariant is `Own`: until an upload has written
its row, its object is in nobody else's hands, neither named by a row nor on
another call's list to be removed. `Knows` is what a call between two statements
may rely on; it has to survive the steps of the others, which is where `Own` is
needed. `RefusedLeavesNothing` is stated of the step that refuses and not of every
later state: an update that was done and answered as a conflict leaves its object
as the headshot, and the next edit replaces that headshot and takes a step before
it removes the object. As a property of states it was true with one edit and false
with two. The assumption is `UploadAssumption`.

`ReviewerInvitationsProofs` and `SpeakerClaimsProofs` have the same shape.
`Agrees` relates an invitation, or a claim, to the row of its mail; what it adds
to the checked property is that a mail is canceled under a pending invitation
only as expired and not before the invitation's own time, otherwise the state
written later would not match the code. `Knows` is what a request between two of
its statements knows of rows that others write, and `Grows` says why it cannot
become false: an invitation is inserted once and ended once, and nobody loses an
account or a role. Nothing is known of the row a create replays after it lost:
its address is not compared (see "Met while modelling"), and `AnswersAreTrue`
promises nothing of the answer `replayed`. For claims there are three
tables. The owner of a profile is unique because of `OneLive`: an accept is
rejected by an accepted claim it sees, and `OneLive` says that there is none it
does not see; `Fits` carries this from the claims to the profile. The assumptions,
`InvitationAssumption` and `ClaimAssumption`, are that lifetimes are positive and
the `No...` values differ from the others.

`SubmissionsProofs` is about a proposal, its assignments and its decision, with
any number of reviewers, where the run has one: that one reviewer's rows say
nothing wrong about another's is shown by the proof only. The handlers decide by
the tables at the moment of the write, so the invariant says almost nothing of the
request in flight (`NamesRow`); what is inductive is what an assignment may be
like (`Sound`) beside the proposal, the pool and the plan: among the rest, that a
proposal with assignments is under review or decided, since nothing takes it back to
its author. `Steady` is what no step does to a proposal under review, and gives
`DossierFrozen` and `ScorecardsStand`. All of `ScreensOffer` is proved from the same
invariant (`ScreensAreTrue`): each part compares what a page decides by with what a
handler asks for, and the two differ by conjuncts of `Sound`. `FormsSave` goes
through the writes: a scorecard the guards let through meets the trigger's
conditions, a new assignment is the active one of its reviewer, and so on for each
form. The assumptions are `CfpAssumption` and `ReviewAssumption` (types) and
`FewReviewers`: the reviewers are finitely many, without which counts of their rows
mean nothing.

`DecisionNotificationsProofs` is about the scheduled run: two tables, and a job
that copies between them. `PagesTellTruth` compares what the owner is told with
the row of the message, and a run may die, or lose its lease, anywhere in between.
`Told` says that a notification is never ahead of its message and never takes back
what it said; since delivered and failed rows of notifications are kept by every
purge, a copy that comes late is still true. `Counts` is about attempts: a run
that has lost its lease leaves its attempt in the row beside that of the new owner,
so that a message refunded for a quota is not shown as never attempted when it
was accepted; `BridgeFits` says what a run knows of the notifications in its hands.
The dispatch being `MessageOutbox`'s, action by action, its invariants
are proved of the composition again (`OutboxKeepsItsWord`): a scheduled run inserts
at the time the decision was queued and dispatches at an instant that has passed,
and the lemmas about inserting and about beginning a run hold at any time. The
assumptions are those of the outbox and `BridgeAssumption`.

`ProgramProofs` proves types, gates, agreements and deliverables for any
event. `ApprovedMeetsGates` is inductive together with the types, which is what
the triggers are meant to achieve: each gate reads rows of one kind, so a step
that writes a speaker's row has to be answered by `HeldBack` (`SpeakerWrite`), one
that writes a request by `Refresh` (`RequestWrite`), one that opens a task by the
demotion of its session. `AgreementFollowsRelease` is not: an acceptance opens
the default tasks of its session and would overwrite a released one, so
`TasksOfAccepted` (only accepted sessions have tasks) is proved with it.
`DeliverablesCurrent` needs that a session's view reads no other session's
requests (`ReadinessFrame`). The assumption is `ProgramAssumption`: the types of
the constants, and that a session's primary presenter is one of its presenters.
From these, with two facts about history, follow the screens (`ContentScreensAreTrue`
and `LastButtonsClear`). `TasksStay` says that an acceptance opens the default tasks
and no step takes one away, so whoever is unsigned finds the task that signs;
`RequestsBelong` that requests are of accepted sessions only, so a request that holds
a session back is on a page with a button. `LastButtonsClear` evaluates the gates
after the step that the button sends; a gate the button does not write keeps its
value because no other row it reads has changed.

The second half of the module is the agenda. `AgendaSound` is inductive as it
stands; its heart is `Schedule`, which says that every placement would be taken among
the others, and four lemmas say when a set of rows stays one: fewer rows, one more
that fits, the same rows on other ground, and the outcome of a batch. Automatic
placement is a recursive function over the statements of its batch. That it exists,
and what each outcome keeps (`BatchOutcome`), is proved by the least number of
statements for which it would fail (`LeastNatural`, from the well-foundedness of
the naturals). What becomes free only shrinks as rows are added
(`AvailableShrinks`), and so a session passed over by its own statement has no place
at the end of the batch either, which `AutoPlacementSound` says.
Publishing is decisive (`PublicationIsDecisive`): that drafts leave the program alone
needs no invariant, only that a conflict counts when both sessions are live; that a
publication shows whatever the cockpit had pending needs the schedule without
conflicts that its guard asks for. `AgendaKeepsApprovals` is the refinement of
`ContentApproval`, by which all of the first half holds under the agenda.

`AgendaScreensAreTrue` is all of `AgendaScreensOffer`. That the page lists a conflict
whenever publication is refused needs placements of positive length, which is
`AgendaSound` again; that the board finds the window a placement was made in needs
that a day has one row (`OneRowPerDay`). The board draws a placement in the row of its
start and lets it span the rows its length takes: `RowOnTheBoard` counts the starts of
a window, by an injection, to show that this row is there, and `RowsFollow` that what
starts after a placement ends starts below the last of its rows. The dialog offers
exactly the starts that fit a day (`DialogFits`), and of those the server takes the
ones whose room is free (`SavedWhenFree`). `AgendaAssumption` adds that lengths and slots are positive,
that there is a room, and that the sessions are finitely many, without which a batch
of them has no length. Rooms are created without a limit, so a set of them that is
not empty assumes nothing of a state: `rooms` starts empty.

Every property a passing run checks is stated by a theorem except one, which TLC
alone checks: `EventuallyTold`, since liveness is out of these provers' reach. The
violations of the three findings are counterexamples, and there is nothing to prove
of them.

## Not modelled

In the modelled components: content hashing and input normalisation (a message
is its dedupe key), the text of messages, provider names and error codes that no
statement tests, the limits of a purge, display names and organizations, comments,
history rows and due dates, rate limits in front of the routes, file types and
sizes, the layout of a ZIP, the parsing of a roster's CSV, the creation of rounds,
the limits of twenty, the arithmetic of scores, rows that predate a migration.
R2 and the mail provider are external: they are what the code expects of them.

The components without a module are listed in `PROJECT.json` with the reason:
sessions, the rate limiter and the migration runner, which the plan still holds;
contracts, the host's configuration, static files and catalogues, which have no
state; the operator scripts. Of the web application, the embed editor, the
router and the layout are left out.

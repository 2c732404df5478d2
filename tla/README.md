# Loocateme backend: specifications, model checking and proofs

Loocateme is a Node.js/Express backend (MongoDB through Mongoose, Redis, BullMQ queues, Stripe, RevenueCat)
for an application that shows who is in which venue. Three or more PM2 workers serve the API; the crons run in
one of them only. There is no transaction anywhere: every handler reads one or more documents, awaits, and
writes one document at a time. What is atomic is one MongoDB update, and what protects the data is the
filter of that update, when it has one. That is where the difficulties of this code are, and what these
modules are about: which interleavings of handlers, crons, webhooks, crashes and clock ticks the filters
allow, and what remains true in all of them.

## 1. The system

| Component | State | Operations | Hard behaviour | Correct when |
|---|---|---|---|---|
| Presence (`services/user.service.js`, `controllers/premium.controller.js`) | `currentLocation`, `currentLocationSince`, `pendingLocation`, `boostUntil`, `lastCheckInMode`, `lastForceCheckInRequestAt`, `location.updatedAt` of a user | heartbeat, manual and automatic check-in, check-out, Bluetooth check-in, boost, free boost, stale-presence cron, administrator's clean-up | all of them interleave between their read and their write; requests overtake one another | the last request that started decides; a stay has a start; a manual check-in and a boost hold the user; no ghost stays for ever |
| Matching a venue (same file) | none (`pendingLocation` between heartbeats) | choose among the venues in 200 m, with hysteresis, lead and Bluetooth | thresholds, two venues side by side | a phone that lies still settles and does not flap |
| Sponsorship slot (`businessBoost.controller.js`, `cron.service.js`) | one slot document, the venue's `sponsorship`, its credits | activate, buy a credit, release cron | slot and venue are two writes; crash in between; late cron | one sponsor at a time, who keeps the paid term; the slot comes back |
| Streak (`services/streak.service.js`, `middlewares/auth.js`) | `streak.*`, `lastLoginAt` of a user | report of a day, two claims, nightly decay | background reports of parallel requests; find-then-update decay | consecutive civil days are counted, rewards take their days, an abandoned streak ends |
| Referral (`services/referral.service.js`) | `Referral` documents, `referralStats`, the premium fields | redeem, validate by a visit, reward, nightly cron, store webhook | concurrent validations, month boundary, crash half-way | no friend counted twice, a reward for enough friends, its month ends |
| Business billing (`businessBilling.controller.js`, `config/queue.js`) | subscription fields and tier of a venue, boost balances, date of a purge | checkout, upgrade, downgrade, cancel, reactivate, webhook jobs with retries, purge cron | reordered and repeated events, stale saves | tier and credits follow what was paid |
| Ultra and Event Boosts | balances, the venue's offer | launch, claim, expiry | double clicks | one broadcast for one credit |
| Premium wallet and purchases (`premium.controller.js`, `iap.controller.js`) | balances, trial dates, `isPremium` | spend, weekly allowance, webhooks | repeated webhooks, absolute saves against increments | nobody spends what is not there |
| Account (`services/auth.service.js`, `middlewares/auth.js`) | refresh tokens, verification, reset and e-mail-change tokens | sign-up, login, verify, reset, change e-mail or password, delete | two protocols share one token field; saves of an old read; lost mails | an address becomes the user's only through a link sent to it, or by the one confusion of tokens that the code allows; no save takes back another's; the owner of a mailbox is verified at last |
| Business profile and media (`businessProfile.controller.js`, `mediaProcessing.service.js`) | logo, media, stories, events, files | add, remove, video job, expiry cron | check-then-push at the caps, job retry, file removal after the save | what the page shows is on the disk; what another request added stays |
| Business claim, directory (`businessClaim.service.js`, `location.controller.js`) | claim requests, accounts, owner of a venue | sync, apply, approve, reject, activate, end | double approval, crash between three writes | one owner per venue, one venue per owner |
| Moderation (`report.controller.js`, `admin.routes.js`) | reports, warnings, bans | report, act, ban, unban, clear | two moderators at once, the user's own visit | a sanction is lifted only by who saw it |
| Social graph and chat (`follow.controller.js`, `chat.controller.js`) | blocks, follow requests, conversation, messages | block, request, accept, decline, send, read | crossing requests, checks before awaits | nobody writes to whom did not agree |
| Policy, consent and mailing (`gdpr.controller.js`, `policyNotification.service.js`) | versions, consents, mail job with a cursor | publish, accept, refuse, cron batches | overlapping ticks, crash in a batch | everyone is mailed; who accepts is not blocked for ever |
| Venue cache (`utils/singleflight.js`, `utils/locationCache.js`) | Redis entry and lock, in-flight map | read-through, lock, poll, invalidate | lock expiry, fill after invalidation, dead holder | everyone is answered; no old page for ever |
| Venue search, city stars (`location.controller.js`, `location.service.js`) | derived | list, recalculate | thresholds, ties, too few venues | the list is the nearest and best of the vibe asked for; stars follow popularity |
| Crossed paths, Bluetooth sightings, statistics, rate limits, notifications, migrations | small or derived | | | |
| HTTP plumbing, validators, static pages, scripts | none of their own | | | |

How they interact. `middlewares/auth.js` starts the streak report of every authenticated request. A heartbeat
(`updateLocation`) records visits, and the first visit of a friend validates a referral; it claims the free
boost of a venue's Ultra Boost. The store's webhooks and the referral reward write the same `isPremium`. Stripe's
webhook credits the boosts that an owner spends on the sponsorship slot. `cron.service.js` runs the
clean-ups of all of them, each a find or an update of its own.

## 2. Plan

Order: what most users touch at every moment first, then what is paid for, then the rest.

1. `VenueMatch`, `Presence`, `PresenceOrder` (abstract), `MatchStability`, `PresenceProofs`: done.
2. `Sponsorship`, `SponsorshipProofs`: done.
3. `Streak`, `Referral`, `LoyaltyProofs`: done, with what overlapping reports of one user do guarantee. Left: a bound on the
   rewards that overlapping claims deliver.
4. `Billing`, `BillingProofs`: done for the subscription. Left: the launches of Ultra and Event Boosts and their balances.
5. `Wallet` (proved with `Account`), `VenueSearch`, `CityStars`: done (the two algorithms are proved in
   `PresenceProofs`, with the matching).
6. `VenueCache`: done; the safety half of its liveness property is proved in `AccountProofs`.
7. `Account`, `Directory`, `AccountProofs`: done for one account and one device.
8. `Moderation`, `Chat`, `CommunityProofs`, `VenuePage`, `VenuePageProofs`: done.
9. `Policy`, `PolicyMail`, `PolicyMailProofs`: done.
10. Left: the compositions `Presence` with `Referral` (the visit that validates) and `Billing` with `Sponsorship` (credits
    bought and spent); crossed paths and the confirmation of Bluetooth sightings.

Components that share no state are checked in one run (section 4), so that the list of runs stays short.

## 3. Modules and how they map to the code

Conventions. A handler's read and each of its writes are separate actions; the record a handler keeps between them
(`req`, `beat`, `job`, `spending`) is what its local variables hold. Updates with a filter are one action whose guard is the
filter. `save()` of Mongoose writes only the fields that changed since the read, so an action that models it changes only those; an
array assigned as a whole is always written, and refused if another save of the array came first (`Conflict`). Time is
a counter advanced by `Tick`, and 0 is the null date; in the modules where only the order matters, an expiry is an action
of its own (`ExpireLink`, `ExpireLock`, `Age`). A handler may stop at any await (`Abandon`, `Crash`, `Fails`, `Die`): an exception
or a restarted worker. Variables that the code does not have are marked "(not in the code)" and no guard reads
them, except `paying` in `Referral`, which says which event the store may send next.

### VenueMatch
The pure part of `updateLocation` (`user.service.js:441-562`): effective radius, hysteresis, ambiguity, the Bluetooth
tie-break and the pending candidate. `BleAnswers` stands for `resolveAmbiguousVenueViaBle`: any rival, or none.

### Presence (with MCPresence)
State: `doc` is the user document, `req` the requests in progress with the snapshot each has read, `ultra` the Ultra
Boost offer of each venue, `cron` the stale-presence cron. `opener` remembers which kind of request opened the stay.
Actions: `Start` takes `requestStartedAt`; `Read` is the `findById` with its refusals; `CheckIn`, `CheckOut`, `CheckInBle`
and `Heartbeat` are the filtered updates; `ClaimUltra` and `GrantUltra` the two updates of the free boost;
`SaveBoost` the `save()` of `activateBoost`; `CronFind` and `CronClear` the two halves of `expireStalePresence`;
`AdminCleanup` the administrator's `updateMany`. `PresenceOrder` is the abstract specification: a register that only a
writer at least as recent may change; `OrderSpec` is the refinement, through `place <- doc.cur` and `stamp <- doc.last`. `BoostHoldsVenue` has two
exceptions, both in the code: a request or a clean-up that was under way when the boost started, and the administrators'
clean-up (`POST /api/admin/cleanup-presence`, `admin.routes.js:249-260`), which does not look at `boostUntil` as the cron does, and may, at any time
later, evict a boosted user whose phone has been silent for 15 minutes. It then changes the venue and nothing else (`AdminEviction`).

### MatchStability
A phone at rest repeats `VenueMatch` on one list of candidates, from every remembered venue and pending candidate.

### Sponsorship (with MCSponsorship)
`slot` is the `SponsorshipSlot` document, `venue` the `sponsorship` and `proBoostBalance` of each venue, `req` the
activations and purchases, `cron` the release run. `Load` is the middleware's read; `Seize` is the
`findOneAndUpdate` (`businessBoost.controller.js:66-74`), atomic; `SaveSponsor` the later `save()`. A purchase is the
webhook's `findById` (the same `Load`) and `SavePurchase`. `CronStart`, `CronRelease` and `CronClear` are the cron's time stamp
and its two updates.

### Referral (with MCReferral)
One referrer. `visits`, `ref` per friend; `stats` is `referralStats`; `prem` the four premium fields; `beat` the heartbeats
between the creation of their visit and the end of the validation they trigger; `hook` the store's webhook. The
validation is cut at each await: `Claim`, `ReadReferrer`, `Bump`, `Mark`, `ReadPremium`, `Grant`. A ban is the only moderation
modelled here. The webhook is the one that a route mounts, `iap.controller.js`. The rule that one visit is recorded per venue and twelve hours is abstracted: a friend may have up to
`MaxVisits` visits.

### Streak
One user. `user` holds the streak fields, `job` the background reports and the claims in progress. `Report` is the test in
`requireAuth` and the branch on the gap; `ReadCount`, `WriteCount` and `Reset` are the calls of `recordDailyActivity`; `ClaimRead`
and `ClaimSupervise`/`ClaimBoost` the two halves of the claims; `DecayFind` and `DecayClear` those of the nightly cron. `run`
counts days independently of the code. A handler does not span two clock
units, so a report that starts before midnight and writes after it is not explored. The expiry warnings
change nothing that the streak depends on and are left out.

### Billing (with MCBilling)
One venue. `doc` holds the billing fields of its `Location` document, `jobs` the BullMQ queue of webhook events, `own` the request
of the owner in progress with the document it loaded, `cron` the two halves of the purge. `subs` is Stripe (external):
`Pay`, `Renew`, `Settle` and `GiveUp` are what Stripe does of itself, and each puts in the queue the events that the webhook would
receive. A job is `JobRead` and `JobSave` (`findOne`, then `save()`), except the end of a checkout, which is one `findByIdAndUpdate`
(`JobComplete`); `Completed`, `Bought`, `Updated`, `Deleted` and `Paid` say what each kind of event does to the document it found, and `Saved`
is Mongoose's `save()`, which writes the fields that changed since they were read. `Ends` lets a job that is over run again, once
`MaxRetries` allows; jobs may be taken in any order, `Concurrency` at a time. A request of the owner is `Load`, then its call
of Stripe (`OpenPage`, `ChangeTier`, `Cancel`, `Reactivate`, `CancelNow`), then `OwnerSave`; `OwnerCrash` stops it between the
two. `Buy` pays for a single boost, whose event adds a credit each time its job is run. An invoice of the higher tier adds one unless its
period is the one granted last, which is all that is remembered; an invoice without a line (`Undated`) has no period and adds one each
time. The ghosts `late` and `stale` say that an event was handled after a newer one and that a handler saved over a document
that was not the one it had read; `credited` and `again`, for which periods and events a credit was added, and for which more than once.
`PeriodGrantedOnce` is what holds: the invoices of a period, however many and however often handled, bring one credit, while Stripe settles
them in the order of their periods (`Chronological`), no event is handled after a newer one and no two handlers overlap.
`CreditedOnce`, which the comments say of every event, does not hold; run `billing_credits` shows it.

### Account (with MCAccount)
One account, one device. `account` is the user document, `link` the mail whose token is stored, of verification or change of address, `session` and
`access` the valid refresh and access tokens, `req` the requests in progress; `proved` records the addresses whose mailbox followed a link, `crossed` those
confirmed with a link that was mailed elsewhere (neither is in the code). `Follow` takes any link to either route: both look up the one token field
(`auth.service.js:233`, `438`), so that the link which verifies an address also confirms the new address that is pending. A handler is its read, with the checks, and its save (`VerifySave`, `ConfirmSave`, `ResetSave`...), which writes what was
assigned (`Kept`). Issuing a link is the save (`IssueLink`) and the mail, sent or lost (`MailLink`). `Delete` goes token by token
(`DeleteTokens`), then the user (`DeleteUser`).

### Chat
Two users. `follows` are the requests either way, `convo` their conversation, `messages` the senders in order. Each check
is a read of its own: `LookFollow` then `CreateFollow`; `CheckRelation`, `Open`, `Post` and `Stamp` are the four steps of
a message. `agreed` says that the target of some request accepted (not in the code).

### Moderation
`user` is `user.moderation`, `reports` the reports on the user, `req` the moderators' requests and the user's own visit (`Me`, which rewrites
the warnings). The end of a ban is undefined (`unset`) until a handler assigns it, null (`none`) when one has cleared it. `Save` writes the fields that differ from those read (`Assigned`) and, for the array of warnings, may be refused
(`Conflict`); `Close` resolves the report after it. `Ages` is three months going by, or the end of a temporary ban.

### VenuePage (with MCVenue)
The page of one venue: pictures, stories and events, each with its file. `Add`/`AddSave`/`Enqueue` are an upload,
`Remove`/`RemoveSave`/`Tidy` a removal, whose file goes after the save; `SetLogo`... likewise. `Transcode`, `MarkReady`, `JobFails` and `Stalls` are the
video job and its second attempt; a story marked failed after it had been ready keeps its file and its url (`withdrawn`), and a removal deletes
by url whatever the status; `ExpireEvents` and `ExpireStories` the crons.

### Directory
Claims, accounts and venues, three collections written one after the other: the two passes of the synchronisation, a claim, its
approval (account, venue, claim), its rejection, the activation and the end of an account.

### Wallet
`wallet` holds the premium flag, the trial and the two balances; `spending` the requests. A request saves the balance it
computed from its read; the allowance, the streak and the cron increment. `due` says that the last
allowance is a week old, `sent` what became of the superlike to each target; `charged` (not in the code) who was charged for.

### VenueSearch, CityStars
Pure algorithms. Each is one action from an arbitrary input to the answer, held against a definition written
independently (`ListSound`, `StarsFair`). The sorts of the database are said by what they return: a listing in
which each comes `Before` the next. That such a listing exists is proved.

### VenueCache
One key, two processes. `flight` is each process's shared promise, `cache` and `lock` what Redis holds, `venue` the document's version. A
flight tries the lock, runs the query, or polls for the holder's page, and runs the query when it gives up. `Write` and
`Invalidate` are the two steps of an update. Pages of a venue take no lock, candidates of a heartbeat do (`locking`, fixed at
the start).

### Policy, PolicyMail
`Policy`: `published` is the set of versions, `newest` the one dated last, `user` the consent, `req` the requests. A version is dated before it is
inserted (`Date`, `UpdatePolicySave`), so that of two published at once the first inserted may be the latest; a user who accepted none counts as having
accepted major version 0, which a 0.x policy does not exceed. `PolicyMail`: `Publish` inserts a version, and `EnqueuePolicyEmailJob` creates its job
or `EnqueueFails`, which is only logged: nobody is mailed that version; `job` holds the mail jobs with their
cursors, `tick` the runs of the cron, each with the cursor it read and the batch it works on, `tried` the mails handed to the server. A tick that outlives its
minute overlaps the next; `Die` loses the batch, and the next tick starts again from the stored cursor.

### MCLoyalty, MCCommunity, MCAccount, MCAlgorithms, MCEventually, MCPolicy
Each joins components that share no state: `MCAccount` adds `Directory` and `Wallet` to `Account`, `MCAlgorithms` holds the three that
are pure (`VenueSearch`, `CityStars`, `MatchStability`). `side` (in `MCEventually`, `which`) is chosen at the start and never changes: a behaviour is one of
one component, from the same states and with the same actions as alone, while the others' variables stay as they were. In `MCLoyalty`, `side` also says whether
the requests of the user of the streak come one at a time (`Alone`) or overlap.

## 4. Runs

`eventually` checks the liveness
of `Account` on an instance of its own, since `account` uses symmetry.

| Run | Instance | Shows |
|---|---|---|
| `presence` | 2 requests of any of 6 kinds, or an early manual check-in and then 2 heartbeats, manual check-ins or boosts; 2 venues, one Ultra Boost, candidates in range, out of range and ambiguous, fair | types; `GraceNotFromGps`: the grace window never protects a stay opened by GPS; `OrderSpec`: refinement of `PresenceOrder`; `BoostHoldsVenue` and `GraceHoldsVenue`: only what had read the document before, or the administrators' clean-up, may move a boosted user, and only the former one within the grace window; `FreeBoostOnce`; `NoGhost`: the cron empties a presence nobody refreshes |
| `sponsorship` | 3 activations or purchases, 2 venues, a term of 2 units, 5 units, fair | `OneSponsor`, `SponsorKeepsTerm`, `SlotComesBack` |
| `loyalty` | Referral: 2 friends, 2 heartbeats, target 2, a month boundary; Streak: 2 requests of one user, alone or overlapping, with the decay between their steps, 6 days of visits, rewards at 2 and 3 days; fair | `CountsRight`: no friend counted twice, no day of the streak lost, and the streak is the run of days while requests come alone; `RewardsEarned`: no month, boost or superlike without its friends or days, the last two while requests come alone; `DecaySparesActive`; `EndsAtLast`: offered months and abandoned streaks end |
| `reward_ends_paid_premium` | Referral, 1 friend, target 1 | the counterexample below |
| `billing` | 5 events and requests of the owner, 2 jobs at a time, 1 retry, 2 requests of the owner, 2 subscriptions, 2 periods, 2 tiers | `TierFollows`: the tier follows the payment when handlers neither overlap nor swap, whatever stopped half-way; `PurgeMeansUnpaid`: in any order of events, a purge is scheduled only without a tier; `PeriodGrantedOnce`: a period brings its credits once, whatever runs again |
| `billing_credits` | 3 events and requests, 1 retry, 1 subscription | the counterexample below |
| `account` | Account: 2 addresses, 2 passwords, 2 requests at once; Directory: 2 venues, 2 accounts, 2 claims, 2 requests; Wallet: 2 requests, 2 targets, packs of 1 | `AddressProved`: the address of a verified account followed a link mailed to it, or was pending when the link of another address was followed, which the shared token allows, and nothing else; `NothingUndone`: no late save takes back a verification, an address or a password; `OneToOne`: one venue per owner, by a recorded claim; `NothingForFree`: nobody spends what is not there |
| `community` | Chat: 2 users, 2 follow requests, 2 messages, 2 requests at once; Moderation: 1 report, 2 warnings, 2 moderators | `TalkNeedsConsent`: no message before a request was accepted; `SanctionsKept`: a warning in term or a permanent ban goes only by the action of someone who saw it |
| `venue` | 2 items, 2 pictures, 2 requests at once, a cap of 1; pictures change until both items are uploaded | `ShownOnDisk`: what the page shows is on the disk; `NothingLost`: no save of an outdated page drops what another added |
| `algorithms` | VenueSearch: every map of 4 venues over 4 distances, for lists of 1 and of 3; CityStars: every city of 3 venues; MatchStability: every list of up to 3 venues around each threshold, 3 heartbeats | `RankedFairly`: the list has no repetition or intruder, is long enough, and nobody in it is preceded by a venue that deserves its place less; the stars follow the popularity; `MatchSound`: a phone that lies still settles within two heartbeats, does not flap, in no far venue, and a pending candidate is confirmable |
| `eventually` | Account: 1 address, 1 password, 2 requests; VenueCache: 2 processes, 2 requests, 1 write; fair | `VerifiedAtLast`: whoever keeps signing in and following links is verified, whatever crash or lost mail came before; `FlightsGoOn`: a flight never goes back, and ends with an answer to all who joined it; `PagesServed`: every request is answered though the lock's holder died, and an outdated page leaves the cache |
| `policy` | PolicyMail: 3 users, batches of 2, 2 overlapping ticks that may die, accounts deleted meanwhile; Policy: 2 versions, 2 requests; fair | `NobodySkipped`: a finished mailing tried everyone who stayed; `EveryoneInformed`: everyone is mailed the versions whose job was created, and whoever keeps accepting is not blocked for ever |

`billing_credits` checks what a comment says of every kind of event (`businessBilling.controller.js:460-464`: each case is idempotent, should BullMQ
retry a job). The shortest counterexample is a single boost: the job saves the venue with one credit more (471-480), stops before BullMQ knows, and
is run again. Longer ones are an invoice without a period's end, and the retry of an older period's invoice after a newer one's, against
"une seule fois par période" (547-549).

`reward_ends_paid_premium` checks a statement that a comment of the code makes and that the code does not keep: the end of
the month offered leaves a paid subscription alone, but nothing writes `premiumSource: 'paid'`, on which the exemption rests.

### Behaviours that a reader of the comments would not expect

They are in the models, without a run of their own, unless it is said.

Presence, sponsorship, loyalty, billing:
- a manual check-in is not protected from a heartbeat that read before it wrote and started no earlier, although
  `user.service.js:428-433` says the next heartbeats leave it alone; a Bluetooth check-in keeps the mode "manual" and inherits its
  grace window, although `user.service.js:582-585` says every automatic entry resets it;
- a heartbeat in flight when a boost is activated moves the boosted user out of the venue and may erase `boostUntil`, although the
  comment at `user.service.js:566-569` says the user stays locked there; the administrators' clean-up, which ignores boosts, evicts a boosted user
  whose phone has been silent for 15 minutes; `BoostHoldsVenue` says what does hold;
- `expireStalePresence` filters its `updateMany` by the ids it found, so a user who came back in between is checked out
  (`CronFind`, `Heartbeat`, `CronClear`); a Bluetooth check-in does not refresh `location.updatedAt`, so the cron may find its stay stale at once;
- a venue that takes over an expired slot before the cron came leaves the previous one `active: true` for ever;
  `OneSponsor` holds because the venue list also looks at the end of the term;
- a code entered after the first visit, or while the first two visits are counted together, is never validated
  (`CountVisits` requires exactly one visit), although `referral.service.js:111-113` says the next visit validates;
- two reports of one day in parallel count two days, although `streak.service.js:15-16` says the second does nothing (so that
  `CountsRight` says `CountIsRun` only of requests that come alone, and `NoDayLost` of any); two claims of one streak reward that both read the pending flag are both delivered;
- the first `invoice.paid`, handled before `checkout.session.completed`, finds no venue and gives no credits, although
  `businessBilling.controller.js:545-547` says the first invoice brings those of the top tier;
- a credit bought between the `Load` and the `SaveSponsor` of an activation is overwritten by the absolute balance that
  the activation saves, although `constants/boosts.js:5-7` says only what is above the cap is lost;
- an invoice of an older period, paid late or run again after a newer one's, is granted again: one period is remembered
  (`PeriodGrantedOnce` leaves these out, `CreditedOnce` does not);
- two `customer.subscription.updated` handled in the other order leave the tier of the older one (`late`); an upgrade of the owner
  saves its tier over what a webhook wrote during its call of Stripe (`stale`); a checkout that ends between the two halves of the
  purge has cancelled it, and the content is erased nevertheless; two checkout pages opened before either is paid give two
  subscriptions, of which the venue knows the last, although `businessBilling.controller.js:192-193` means to prevent it;
- outside the models, `sendStreakExpiryWarnings` records nothing when it warns, so that each half-hour of the window warns
  again (`streak.service.js:155-158` says once per cycle).

Accounts:
- a sign-in that began before a change of address was asked for may mail its link after, to the old address, and replace the token of the
  change; that link, followed on the route that confirms a change, sets a new address whose mailbox nobody has opened (`crossed`);
- a login in flight creates a refresh token for an account just deleted; every request with its access token is refused all the same;
- two handlers that change the password may overwrite each other, and a reset link clicked twice at once works twice;
- the link mailed for a change of address is opened by GET, while `user.routes.js:28` mounts the confirmation on POST only; the model
  takes the link as followed.

Chat and moderation:
- a message sent by conversation id checks neither the blocks nor the relation; two requests that cross are both created; `lastMessage`
  may be the older of two messages sent together;
- two reports of one reporter can both be created; two moderators on one report both act: a second ban applies, a second
  warning is refused by the version of the array and leaves its report as it was; a crash after the user's save leaves the report pending;
- an unban that read an expired ban may lift a temporary ban it did not see; `SanctionsKept` is about permanent bans and warnings.

Venue page, directory, search, cache:
- a removal of another story that loaded the venue earlier writes "processing" over "ready"; a job delivered again after "ready" marks the
  story "failed"; a stop between the save and the queue leaves it "processing" until it expires;
- a removal deletes the file of a story whatever its status (`businessProfile.controller.js:190-195`); `removeMedia` deletes no file, nor does the story cron; expiries by the crons do not invalidate the cache;
- of two claims of one venue approved one after the other, the second owner replaces the first; a stop after the account's creation leaves
  its address taken, and an expired activation link cannot be asked for again; a rejection that races an approval leaves a
  rejected claim with an account; deletion by its owner's request leaves the venue "pro" without anyone, and may unset a newer owner;
- the clean-up of the directory deletes any venue marked `shouldDelete`, not only those entered by hand (`location.controller.js:653-658`);
- the first pass of the synchronisation removes a venue without OpenStreetMap id and under three stars even if it has an owner
  (`location.controller.js:665` is its comment);
- the comment at `location.controller.js:297` completes the list with the other vibe; the code leaves the other vibe out;
- a page filled after the invalidation of a write it did not see is served until its time to live ends; the lock's
  release is a get and a del, so it may remove another's lock; the key of a venue by OpenStreetMap id is never invalidated.

Wallet, policy:
- a trial sets `isPremium` and nothing takes it away when it ends, after which it can be started again;
- two purchases at once lose one to the absolute save (the comment at `premium.controller.js:231` says packs add up), a repeated delivery
  credits twice, and a superlike is charged before its creation, which may fail; a boost paid by a test client is free
  in every environment; `payment.controller.js` is mounted nowhere;
- a policy published as "major" under an explicit number of the same major version asks for consent in the mail but does not block
  (`PrivacyPolicy.js:13-14`); a lower number may be published last and becomes the latest; acceptance records the latest version at the time
  of the request, not the one shown; a user who accepted no version is not blocked by a 0.x one (`parseVersion` gives 0);
- a version whose mail job could not be created is published all the same and never mailed (`gdpr.controller.js:132-136`);
- a tick that ends late puts the cursor of the mailing back, or reopens it: some are mailed twice, nobody is skipped.

### Bounds, and why they are enough
Every bound is a constant and appears as a guard: requests are a finite set, each handled once in `Presence`, `Sponsorship` and
`Referral`, and elsewhere taken up again as soon as they end; documents ever created are a finite set (`Item`, `Picture`, `Claim`, `Account`,
`Report`, `Warning`), or counted (`MaxFollows`, `MaxMessages`, `MaxVersions`, `MaxWrites`, `Jobs`);
`LastStart`, `LastVisit` and `LastWork` end the arrival of work so that
the clock, bounded by `MaxTime`, runs on alone; `MaxVisits`, `MaxRewards` and `MaxBalance` bound counters; an Ultra Boost is launched
once per venue. Two handlers are enough for a race between two writers of one document, a third for a race seen
by a reader; two venues are enough to move, or to contend for the slot. Two claims and two accounts are enough for two owners to contend
for a venue, two items with a cap of one for the cap to be met and raced; pictures and
items share neither field nor file, so that `PictureFirst` leaves out only overlaps of one with two of the other. Three users by batches of two make two batches, one of
them short, which two ticks can share, and two jobs would be mailed one after the other. One report is enough for two moderators to act on it
at once, and one after the other when the first stops before closing it. Durations are one or two units so that each
can elapse, and overlap another, within the clock's range; `MaxTime` leaves at least one whole duration after the last
request. Three venues of a city make a tertile each; four on the map, for a list of one and of three, fill the first radius, or a
later one, or none, and are more than the candidates considered (`Window`); two or three candidates on both sides of each radius and lead meet every branch of the
matching. In `Billing`, `MaxWork`,
`MaxPeriods`, `MaxSubs`, `MaxAsked` and `MaxRetries` bound what Stripe, the owner and the queue do: the initial states include a venue
whose first period is paid, so that five events and requests are enough for a renewal refused and then settled, for an update overtaken by the end of
the subscription, or for an old invoice paid after a new one. The constraint `Fresh` of `MCBilling` stops at the first save of an outdated document: from
there on the properties say nothing but the type, which is proved. In `Presence`, a third request is a manual check-in that ends before the others start
(`EarlyOnly`): a stay to hold, a boost or a grace window, and the request that would break it; `OneOffer` leaves one Ultra Boost, for which two heartbeats contend.
In `Billing` the clock advances only while a purge is scheduled. Symmetry, over what nothing
distinguishes, is used only in runs without liveness (`account`, `community`, `venue`);
in `account`, sets that no component uses together share their names, which one permutation then moves.
The bounds on arrivals are not needed for the theorems below, which hold for all values of the constants.

Deadlock is not checked where work ends and the clock stops at `MaxTime`, or documents run out, or an
algorithm ends; in `community`, where there is always a request to start, it is.

### Fairness
Weak fairness of `Tick` (time passes), of the crons' actions (node-cron fires them again and again and their queries
end), and of the handlers where their end matters (an event loop runs every promise to its end, or the process dies:
`Abandon`/`Crash` are part of the fair disjunction). `SF(CronRelease)`: the cron instance may be restarted many times,
but not for ever in the same window. `Streak` uses strong fairness for the clock and the worker's steps, because reports and
crashes can disable them again and again. In `Account`, strong fairness of the sign-in, of the mail that arrives and of the
link's use says that the user keeps trying and that crashes and losses do not hit every attempt: the two halves of a
handler each succeed if tried again and again. `VenueCache` has weak fairness of every flight's next step and of the end of
the time to live; a process may die at any time and as often as it likes, with its flight and its requests: only the lock outlives it. `PolicyMail` and `Policy` say
that processes and calls may fail as often as they like, but in the end stay up (`<>[]`): with a cron each minute, a
batch that died every time would never be mailed. `Policy` adds that the blocked user keeps accepting. In the joined runs, fairness
of the component that does not run is void or restricted by `side`. `Billing`, `Chat`, `Moderation`, `VenuePage`, `Directory` and
`Wallet` are checked for safety only. No fairness makes an owner or Stripe send anything.

## 5. Proofs

Every safety property that a run expects to hold has its theorem. Each argument is an inductive invariant; what it adds to the property is what handlers hold in memory
between their read and their write.

`PresenceProofs` (for any requests, venues, geo queries and durations):
- `TypeCorrect`; `StayAlwaysStarts` (`StayHasStart`: every stay has a start; inductive with types, since every writer sets venue and start
  together, or clears the venue; no run repeats it);
- `OrderRefined`: `Spec => OrderSpec`, one step per writer, from the filter `NotOvertaken`;
- `GraceSource` (`GraceNotFromGps`): not inductive, since a user who is nowhere may still be in mode "manual"; `ManualStay` says
  when that mode speaks of the present stay;
- `GraceHolds` (`GraceHoldsVenue`) and `BoostHolds` (`BoostHoldsVenue`), action properties; the second needs `ReadersOK`: what a request
  between its read and its write knows;
- `OneFreeBoost` (`FreeBoostOnce`), with `GrantsClaimed`: whoever is about to grant has claimed the offer it grants, so that a second
  claim fails. It rests on the bound that an offer is launched once per venue: a launch resets the claim;
- `StillPhoneSettles` (`MatchSound`, of `MatchStability`), for any lists of candidates, any cap and any lead. `BeatStep` says what one heartbeat makes
  of what is remembered; `Held`, which the invariant adds, that what the GPS alone decided is within the hysteresis, and that after a first
  heartbeat with a venue in range the user is somewhere or that venue is pending;
- `ListsAndStars` (`RankedFairly`), for any number of venues, any distances, scores and radii, any length asked for and any city. A sort is
  a choice, of which nothing is known until a sorted listing is shown to exist: `SortedListing` builds it by counting, since in a finite set each element
  has one rank, the number of those before it, and the ranks are exactly 1 to the cardinality (`CountRanks`, `RanksFilled`). `NearestEnough`
  says that a cut after the nearest keeps enough of them and leaves out nobody nearer than one it keeps; `FoundLists`, `CompletedLists`
  and `CutLists` carry the order and the set of what is listed through the three stages of the list, and `StarsSound` is the tertiles';
- `AlgorithmsTypeCorrect` (`AlgorithmsTypeOK`), of the three algorithms.

`SponsorshipProofs` (for any venues, requests, balances and term): `TypeCorrect`, `OneSponsorAlways`, `TermKept`. The
inductive invariant is `SlotInv`: types, `InFlightOK` (time stamps lie in the past, an activation in flight had a credit)
and `TermInSlot`: every term to come, written in a venue or still to be written by a handler, is exactly the slot's. The key
lemma `FreeSlot`: a compare-and-swap that succeeds with a time stamp of the past finds no such term.

`BillingProofs` (for any tiers, caps, events, retries, subscriptions and requests): `TypeCorrect`, `PurgeNeedsNoTier`
(`PurgeMeansUnpaid`) and `GrantedOncePerPeriod` (`PeriodGrantedOnce`). `PurgeMeansUnpaid` is not inductive: an upgrade gives a tier and leaves
the date of the purge alone, and is safe only because it was allowed on an active subscription. `BillingInv` therefore keeps
`Sound`, no purge while the subscription is active, together with the reason an upgrade may run (`OwnerOK`) and with the fact that
Stripe never announces an active subscription without a tier (`PaidEvent`, `PaidSub`). `GrantedOncePerPeriod`
needs `GrantInv`: while the behaviour is regular (nothing late or stale, invoices paid in the order of their periods), the period granted last is the newest
one, and an invoice of an older one cannot be begun any more; so that remembering one period is enough (`SavedInvoice`).
`TierIsPaidFor` (`TierFollows`) is about the moment when nothing is left to do, and needs what each job still to come will
write (`FollowInv`): the last event announced of a subscription tells its present tier and status (`LastEventTrue`), an upgrade about to be
saved writes what Stripe now charges for (`UpgradeTrue`), and a document whose subscription has no event left agrees with it
(`DocFollows`). Handling the last event with none begun after it makes the third true; any other step leaves an event to wait for.

`PolicyMailProofs` (for any number of users, jobs and ticks and any size of a batch): `MailTypeCorrect`, `NobodyIsSkipped`
(`NobodySkipped`) and `CursorNeverAhead` (no stored cursor is ahead of the mails). `NobodySkipped` is not inductive: a tick with a stale
cursor may save at any time. `MailInv` adds `JobsSound`, the same for what is stored, and `TicksSound`: what a tick
holds in memory, cursor and batch, is never ahead of the mails either, and its batch leaves out no member between two of its own. The last
rests on the lemma `FirstOfIsInitial`: a sorted and limited query returns an initial segment of the members above its cursor,
which is shown by counting. Stale saves can then only put the cursor back.
`PolicyTypeCorrect` (`PolicyTypeOK`, with `Policy`): a save from an old document and an old version still leaves a
document of the schema; `RequestReady` says that a request has loaded what it stamps by the time it does.

`AccountProofs`, for any addresses, passwords, venues, accounts, claims, targets, packs and requests at once, and the cache of a page:
- Account: `AddressIsProved` (`AddressProved`) is not inductive. A verification link is good for an address that may change before it is
  followed, a change of address is confirmed by a token that a sign-in may have replaced, and either kind of link opens either route. `RequestSound` says
  of a request about to save that the address it read is still there or was replaced by a confirmed one (`StillVouched`); `LinkSound` to which address a link that
  still opens something was mailed; `MailSound` that the mail for a new address goes out only while that address is pending. What is left of the
  confusion of tokens is `crossed`, and the theorem says that there is no other; `NothingIsUndone` (`NothingUndone`) follows from the same invariant;
- Directory: `OwnersAreOneToOne` (`OneToOne`). An approval creates an account, gives it the venue, and records it with the claim:
  three writes, and another approval of the same claim between any of them. `CaseSound` says what an approval knows after each, `OneGrant`
  that no two give venues to one account, `OwnerSound` that two accounts have two addresses and that a claim is recorded with an account of
  its own address: the account that a second approval overwrites in the claim is therefore gone, or there would have
  been two of one address;
- Wallet: `NothingComesFree` (`NothingForFree`). What a request read was there, and what it is to spend was part of it
  (`SpendingSound`): each save is an absolute value of its own, so that overlaps may lose a purchase, and never go below zero;
- `TypesCorrect` (`AccountsTypeOK`) of the three;
- VenueCache, for any processes, requests and number of writes: `NobodyWaitsForNothing` (`NobodyForgotten`: who waits has a flight of its
  own process to wait for; inductive with types), and from it `NoFlightGoesBack` (`FlightsGoOn`: a flight only goes forward, or ends with an answer to
  all who joined it). Together they are the safety half of `PagesServed`. What is left to TLC is that flights do go on, which is the fairness.

`CommunityProofs`, for any conversation between two users, any reports, warnings and requests at once:
- `TalkIsConsented` (`TalkNeedsConsent`): a message takes four steps, of which only the first looks at the relation. `RequestSound` carries
  what it saw through the others, and `ConsentSound` says that an accepted request or a conversation exists only after an acceptance;
- `SanctionsAreKept` (`SanctionsKept`): `SeenSound` says that a request which no save of the warnings has outdated (`fresh`, the version
  of the array) read the present ones; one that has is refused, or does not write them;
- `TypesCorrect` (`CommunityTypeOK`), which includes the unique index: one follow request in each direction.

`VenuePageProofs`, for any items, pictures, caps and requests at once: `TypeCorrect`, `ShownIsThere` (`ShownOnDisk`) and
`NothingIsLost` (`NothingLost`). A file is deleted after the save that took it off the page, while others may have loaded the page before.
The invariant `PageInv` rests on `Left`: nothing under way can bring an item back, neither an upload nor an array loaded while it was shown,
unless that array is outdated and its save refused. Files are deleted of items that have left (`TidyingSound`), a finished video has its
file or has left (`JobSound`), an array still fresh holds all that the page has (`ReplacingSound`), and an item about to be published is
known to its own request alone (`PublishingSound`); `PictureSound` is the like for the logo and the cover, whose names are new each time.

`LoyaltyProofs`:
- Referral, for any finite set of friends, any heartbeats and targets: `MonthsAreEarned` (`NeverOvercounted` and `RewardEarned`). The counters
  are saved as absolute values, by handlers that read them earlier. The invariant compares all of them, stored and in memory, with the set
  `Counted` of friends validated and no longer in flight, which only grows: a stale save can lose a friend, and never add one;
- Streak: `TheActiveAreSpared` (`DecaySparesActive`) for any number of requests at once: while the decay has found a user, no report is in
  the middle of counting a day, and whoever comes back resets the streak (`DaySound`);
- `CountsAreRight` (`CountsRight`) and `RewardsAreEarned` (`RewardsEarned`) join the two. Of requests that overlap, two may each add a day to what
  they read, or deliver one pending reward twice, as section 4 says; the equality of streak and run, and the days of a reward, are therefore stated of the
  behaviours in which requests come one at a time (`Alone`, an invariant of those). `EarnedSound` then says in numbers that every
  reward, pending or delivered, has had its days. That no day is lost holds of any overlap: a count is saved as an absolute value by a report that
  read it earlier, so that it might go back. `CountSound` says why it does not: what a report has read and is about to write is at least
  what the run will be then, and a report that resets excludes others in the middle of counting;
- `TypesCorrect` (`LoyaltyTypeOK`), for any number of requests.

Assumptions are those the modules state. Durations are natural numbers, and those that divide positive; caps, tiers, targets and the
size of a batch are positive; the reward at half a streak comes before the one at a full streak; friends are finitely many and two users
chat; geo queries return sequences of candidates; distances, radii and scores, like packs, writes and the floor of the allowance, are natural
numbers; the lengths asked for, and the candidates considered per venue of the list, are positive. The rest is about names: `NoVenue` is
not a venue, `None` and `Gone` are no document, and items, pictures and accounts have names of their own (generated file names, object ids).
A theorem about a component that runs beside others speaks of the joined specification where the property does; the lemmas
`EachRuns` and `EitherRuns` take it to the component's own.

Only model-checked: liveness (`NoGhost`, `SlotComesBack`, `EndsAtLast`, `VerifiedAtLast`, `PagesServed`, `EveryoneInformed`), which is beyond the
prover.

## 6. Not modelled

Left out on purpose: routing, validation and formatting; queries without state (users nearby, events, exports,
statistics); the contents of e-mails and notifications; file storage; rate limits (a library's counters); migrations and the
maintenance scripts; crossed paths (one upsert per pair) and the recording of Bluetooth sightings.

In the components modelled: in `Presence`, the anonymous location history and the price of a bought boost; in `Referral`, who may redeem a code;
in `Streak`, the warnings; in `Billing`, promo codes, the identity of Stripe's customer, the refund at the end of an account, the end of a
period as it is shown to the owner, and the statuses of Stripe other than active, past due and canceled; in `Sponsorship`, the owner check of
the middleware; of the boosts of a venue, the launches of Ultra and Event Boosts and their balances; in `Account`, several devices and refused
requests; in `VenuePage`, the text fields, the upload itself and the purge after a subscription, which removes files before it
saves; in `Wallet`, the restoring of purchases; in `CityStars`, two jobs of one city that overlap; in `Policy`, the flag
`requiresConsent` and the banner for minor versions.

# Verification of k0nnect

TLA+ models of k0nnect's server and client, their TLC runs, and TLAPS proofs.
`PROJECT.json` is the index: components, runs, mutants, the lines each definition
models, findings, hazards and theorems.

    tlc -workers 2 -config MCCallLease.cfg MCCallLease.tla      # a run
    tlapm CallLeaseProofs.tla                                   # the proofs

`MC*.cfg` are the runs, each of the module its name begins with; `*Proofs.tla` are the proofs.

## The system

A Cloudflare Worker serves the HTTP API and upgrades one WebSocket per client
transport into a single durable object, `ServerRealtime`. Persistent data is in
D1 (SQL); media goes through an SFU that the worker drives by HTTP. React and
Tauri clients hold one realtime socket and one media session.

The durable object runs one event at a time. An await on its own storage lets no
other event in; an await on D1, on another object or on `fetch` does. Worker
requests interleave at every await. These two facts decide where every model
cuts its handlers into actions.

| Part | State | Operations | Talks to | What is hard | What must hold |
| --- | --- | --- | --- | --- | --- |
| Connections and call lease, `worker/durable/server-realtime.ts` | attachment of each socket, suspended records, the alarm | upgrade, resume, `call.join`, `call.takeover`, `call.leave`, close, alarm, refresh, snapshot | D1, clients | D1 awaits in `fetch` and `alarm`; closing sockets; replaced transports; expiry | one place per connection, one call per account, rosters right, the grace period ends |
| Media registry, same file | session, publications, subscriptions and closures of each attachment | register, reserve, complete, cancel, remove, close | realtime routes, SFU | late SFU answers after leave, takeover or rebuild | no publication outlives its call; every reservation completes or is cancelled once |
| Realtime routes, `worker/routes/realtime-routes.ts` | none | reserve, call the SFU, complete or cancel | registry, SFU | failure between two steps | as above |
| Chat, same object and `worker/repositories/social.ts` | messages in D1 | send, edit, delete, broadcast | D1, clients | idempotent retries; broadcasts after awaits | each message stored once; an edit is not shown before its message |
| Groups and friends, `worker/services/social-service.ts` | conversations and members in D1 | add, remove, transfer, leave | D1, `refreshSocialState` | check, then act, across requests | one owner per group; the object's cached rights follow D1 |
| Accounts, `worker/services/auth-service.ts`, `worker/auth/session.ts` | users, sessions, invites, recovery codes | register, log in, recover, rotate, revoke | D1, `disconnectSession` | concurrent batches | an invite and a recovery code serve once; recovery ends every session |
| Rate limits, `worker/durable/security-gate.ts` | counters | consume | routes | window boundaries | the limit per window |
| Client socket, `src/features/rooms/use-server-realtime.ts` | logical connection, epoch, pending commands, participants | connect, reconnect, command | `ServerRealtime` | lost `server.ready`; late answers | commands settle once; the epoch grows |
| Call supervisor, `src/features/call/connection-supervisor.ts` | attempt, generation, timer, pending reason | request, run, disconnect, resume | media session | stale timers and runs | one recovery at a time; a request is not lost |
| Voice session, `src/features/voice/*` | status, generation, client, microphone, camera, screen, negotiation queue | join, leave, switch, start, reconcile, capture, subscribe, mute | registry, browser, socket | every function is cut by awaits, and a later one changes the refs of an earlier one | what is shown, what is held and what the server has agree; no track records after a leave |
| Call context, `src/features/call/call-context.tsx`, `call-resume.ts` | conversation of the call, refs of the resumption, sessionStorage | join, switch, leave, save, resume | voice session, socket | effects of one commit that see each other's refs; reload | a reload comes back to the call the user is in, and to nothing after it |
| Native shell, UI, HTTP shell, cryptography, schemas, cleanup | — | — | — | little protocol state of their own | see *Not modelled* |


## Modules

| Module | Models | Instance | Proofs |
| --- | --- | --- | --- |
| `CallLease` | the lease of a call over sockets, suspension and resumption | `MCCallLease` | `CallLeaseProofs` |
| `MediaConnection`, `PublicationRegistry` | publications and their HTTP requests, over one connection of that lease | `MCPublicationRegistry` | `PublicationRegistryProofs` |
| `Accounts` | accounts, sessions, invites, recovery codes, sockets of a session | `MCAccounts` | `AccountsProofs` |
| `Groups` | friendships, a group, and the rights cached by `ServerRealtime` | `MCGroups` | `GroupsProofs` |
| `ChatDelivery` | messages from a command through D1 and broadcasts to one cache | `MCChatDelivery` | `ChatDeliveryProofs` |
| `RealtimeClient` | the socket of a tab against the server of `CallLease` | `MCRealtimeClient`, `MCInTheEnd` | `RealtimeClientProofs` |
| `RecoveryLoop`, `Supervisor` | what a call's recovery promises, and the supervisor that implements it | `MCClientLoops` | `SupervisorProofs` |
| `Reception` | subscriptions: effect, negotiation queue, routes, registry | `MCClientLoops` | |
| `VoiceSession` | joining, leaving, starting, recovering, camera and screen | `MCVoiceSession` | `VoiceProofs` |
| `Microphone` | the open microphone against mute, deafen and device changes | `MCVoiceSession` | `VoiceProofs` |
| `CallResumption` | the conversation of the call and what a reload comes back to | `MCVoiceSession` | `VoiceProofs` |

Components meet in three ways. `PublicationRegistry` EXTENDS `MediaConnection`, the lease seen by
one connection. `RealtimeClient` carries its own server end, the handlers of `CallLease` for a
single tab, its alarm and its refresh included; `Groups`, `Reception` and `ChatDelivery` likewise carry both ends of their exchange.
And `Supervisor` implements `RecoveryLoop` through a refinement mapping (`INSTANCE ... WITH`).
`VoiceSession`, `Microphone`, `CallResumption` and `Reception` are four views of the same hook,
each with the calls, failures and overtakings that matter to it; joining them would multiply
states without a property to gain. The alarm's write-back of an attachment it read before an await is a step
of every module whose properties rest on what it may undo: `CallLease`, `MediaConnection`, `Groups`,
`RealtimeClient` and `Microphone`. `MCClientLoops`, `MCVoiceSession` and `MCInTheEnd` check modules that share
no variable in one run: `part` is chosen in the initial state and says which one a behaviour
follows, and the others rest. The three modules of `MCVoiceSession` take null from `NullValue`, so that
it can extend all of them.

Properties that fail for a known reason name it. History variables (`blind`, `misled`, `astray`,
`missed`, `raced`, `carried`, `excuses`, `excused`, `taken`, `unsent`, `loose`, `strayed`, `crossed`, `collided`)
record the step where the code acts on what is not so any more; no guard reads them, and the property
promises everything else. Each reason is a flaw or a limit of the code worth knowing, listed under
its module below; the mutants of `PROJECT.json` show that the promise still has content.

## CallLease

### State and code

| Variable | Code |
| --- | --- |
| `status` | a `WebSocket`: not there, in an upgrade whose `fetch` awaits D1 (`pending`), `OPEN`, or closed by the server and waiting for its close event (`closing`) |
| `att` | `serializeAttachment`: user, connectionId, connectionEpoch, channelId; `dead` is `superseded` with `lifecycleHandled` |
| `suspended` | storage keys `suspended-connection:<user>:<connection>`; `expired` is `expiresAt <= Date.now()` |
| `graceAlarm` | `getAlarm()` is no later than the expiry of every live record |
| `alarm`, `todo`, `held`, `copy` | the locals of `alarm()` across its D1 await |
| `roster` | another client's participant list (`use-server-realtime.ts`): room of each account, from `call.member.joined`, `call.member.left` and snapshots |
| `blind`, `misled` | history, see below; no action reads them |

`FetchNew`, `FetchReplacing` and `FetchResuming` are `fetch` up to
`loadRealtimeCapabilities`; `FetchAccept` and `FetchFail` the rest. `AlarmFires` is
`alarm()` up to its first `nextSessionCheck`; `SessionValid`, `SessionInvalid` and
`AlarmFails` are one answer each, with the way to the next question or to the end of the handler
(`NextCheck`). Every other handler awaits only storage and is one action. `Expire`
is the clock.

### What is assumed of the environment

* The client may ask for any connectionId of its account with any greater epoch,
  at any time: the code ties neither to the session.
* The sessions of an account are any division of its sockets, so `Disconnect`
  closes any set of them.
* A socket on which the server called `close()` stays listed by
  `getWebSockets()` with `readyState` other than `OPEN` until its close event, and messages already
  sent by the client may still be handled on it.
* A session limit may be due at any time, and D1 may fail at any await. A failed
  alarm is run again by the runtime.
* The rooms an account may join are not tracked: any room may be joined, and a
  refresh may withdraw any set. Message counters only close a socket, at any time.
  Presence, mute, speaking and media are left out.
* A connectionId is used again once nothing carries it, as a socket is: the pools
  are finite, the history is not.

### Properties

| Property | Says |
| --- | --- |
| `OneCarrier` | a connection is on one transport not superseded, or in one record, not both |
| `LeaseExclusive` | an account has a call in one place, counting pending and closing sockets and expired records |
| `RosterFaithful` | the others see the account in the room of its call, through suspension and resumption, and nowhere without one |
| `GraceCovered` | a live record has an alarm, or the handler is running |
| `EpochAdvances` | a step moves a connection to another transport only with a greater epoch; suspension keeps it |
| `ScheduledExpirySwept` | a record that expires under an alarm is ended by it, D1 failures notwithstanding |
| `OneCallPerAccount`, `ExpiredScheduled` | what `docs/architecture.md` says; violated |

The code does not keep the first three without exception: it acts on reads that
may be stale. The model records when it does. `blind` gets an account when one of its
connections joins past a call that `findCallOwner` cannot see (upgrade in
progress, closing socket, expired record), and when the alarm writes back an attachment that
changed during its await. `misled` gets an account when the others are told something outdated or
nothing: a command on a superseded socket or its eviction, a resumed call lost
because D1 failed, a snapshot taken while the call cannot be seen. The
properties promise the rest: outside these cases nothing goes wrong, and each
case is needed, since the run fails when any one of them is taken out. The two findings
are the exceptions that contradict the documentation, shown without history.

### Runs

| Run | Instance | Distinct states |
| --- | --- | --- |
| `MCCallLease.cfg` | 1 account, 2 connections, 3 sockets, 2 rooms, epochs to 2 | 113 thousand, symmetry over sockets, connections and rooms |
| `MCInTheEnd.cfg`, part "lease" | 1 connection, 2 sockets, 1 room, with `Fairness` | 8.7 thousand |
| `MCCallLeaseTwoCalls.cfg` | 2 connections, 3 sockets | 9-state counterexample |
| `MCCallLeaseGhost.cfg` | the same | 10-state counterexample |

Two connections are two tabs in conflict; three sockets let one of them have two
transports at once while the other is open; two rooms tell a move from a
rejoin; epoch 2 is one resumption, which a reused connectionId starts again.
One account suffices for TLC: no handler but the alarm touches two accounts, and the
proofs are for any number. `StillPromised` cuts behaviours where the only account is
blind, of which the lease properties promise nothing; `MCInTheEnd` has no such constraint
and covers those states for the grace period. Deadlock is checked in all runs.

`Fairness` is for `MCInTheEnd`. `WF(graceAlarm /\ AlarmFires)`: the runtime fires an alarm
that is set. `WF` of the three answers: D1 answers or fails. Clients, expiry and
closing have none.

### Proofs

`CallLeaseProofs` proves, for any accounts, connections, sockets, rooms
and epochs, from `Placeholders` (the null values are no data) and `EpochBound`:

* `TypeCorrect`: `TypeOK` is inductive with `HeldListed` (the socket the alarm holds is listed and of the same
  user), without which the write-back of `copy` might revive a gone socket.
* `OneCarrierCorrect` and `LeaseCorrect`: inductive together as `LeaseInv`, with `Superseded`
  (a superseded transport is closing, and the alarm never holds the attachment of one).
  `OneCarrier` is what makes a rejoin safe: the owner found under the own connectionId is the
  socket itself. Actions that only let go of connections and calls are one class,
  `Calm`; each of the others has a lemma.
* `EpochsCorrect`: from `LeaseInv`, a step either keeps every carrier (`Settled`) or moves one
  connection.
* `GraceCorrect`: every step that writes a record or ends an alarm goes through `EnsureAlarm`.

`RosterCorrect`, in the second part of the module: `call.member.left` names an account and no
connection, so what the others believe is right only because the account has no other
call: the proof carries `RosterFaithful` together with `LeaseInv`, and most of its steps begin
with `OneCall`.

Liveness (`ScheduledExpirySwept`) is checked by TLC only.

## MediaConnection and PublicationRegistry

### State and code

`MediaConnection` is `CallLease` seen by one connection: what its attachment goes
through, without saying what it holds. `PublicationRegistry` extends it with the
publications and with the requests of `POST /session`, cut where other events
may pass.

| Variable | Code |
| --- | --- |
| `place` | where the attachment lives: a listed socket (`open`, or `closing` once the server closed it), a suspended record, the locals of a `fetch` that awaits D1 (`resuming`), nowhere |
| `att` | the attachment: `inCall` is `channelId`, `session` is `realtimeSessionId`; `pending` and `published` are `publications` by their flag, `closing` is `pendingClosures` |
| `replaced` | the attachment of the superseded socket `resumeConnection` closed, which stays listed until its close event |
| `copy` | the attachment in the locals of `alarm()` across its D1 await |
| `req` | for each HTTP request, the await it is at (`stage`), the session it names, its publications, those still to be removed |
| `view` | the publications the other clients have been told of: `media.published`, `media.unpublished`, `call.member.left` as `use-server-realtime.ts` applies them |
| `astray`, `missed` | history, see below; no action reads them |

| Actions | Code |
| --- | --- |
| `Move`, `Join`, `Leave`, `Evict`, `End`, `Connect` | close events, resumption, alarm; `joinCall`; `leaveCall`; `refreshSocialState`; `finalizeConnection`; a new connection |
| `RequestSession`, `Register`, `Fail` | `create`: `hasActiveCall`, the SFU's new session, `registerRealtimeSession` |
| `RequestPublish`, `Reserve`, `Complete`, `Cancel` | `publish`: `reservePublications`, the SFU, then `completePublications` or, in the `catch`, `cancelPublications` |
| `RequestClose`, `Resolve`, `Pair`, `Remove`, `Closed`, `Fail` | `close`: the publication, the audio that goes with a screen's video, `removePublication` of each, `closeTracks` of the SFU, `completePublicationClosures` |

A call that finds no connection (`Nobody`) changes nothing and answers as the code
does: the request ends, is cancelled, or, in a removal, goes on.

### What is assumed of the environment

* An SFU answer and the object's call that follows it are one action: nothing of
  the registry is touched between them, and the answer comes at any time or is a failure.
  `ownsRealtimeSession` is merged with the call after it, which repeats its test.
* The requests of a client come in any number and order, name any session the
  connection has or had in some attachment, and any publication to close. Every
  reservation has new identifiers (`crypto.randomUUID`): pairs of request and source, used again
  once nothing mentions them. A session of the SFU is never one still known.
* One connection, at most one superseded socket of it, and an alarm that
  holds one attachment; a takeover by another connection is a `Leave` or an `End`
  here. The order of `getWebSockets` is not assumed: with a superseded socket listed,
  `findConnection` returns either. That the alarm may write to a superseded socket is in `CallLease`.
* The expiry of a record and the sweep that ends it are one action, `End`.
* `mid`, track names, SDP, kinds and the single-publication variants that no
  route calls are left out. So are renegotiation, which keeps no state, and subscriptions.

### Properties

| Property | Says |
| --- | --- |
| `TypeOK` | types, and a record is pending, published or closing, never two of them |
| `ViewFaithful` | what the others were told is what the attachment holds as published, while it is in a call, at every moment |
| `InCallOnly` | no record on a connection without a call: a late reservation, completion or session finds its match gone |
| `ReservationOwned` | a pending record has a request that will complete or cancel it; a batch is reserved as a whole or not at all |
| `OneBySource` | two records of one source are never both reserved or seen |
| `UnpublishedFirst` | when a close asks the SFU to close tracks, the others no longer believe in them |
| `AnnouncedOnce` | a step makes publications known only out of the reservation of a request, so what ended does not come back |
| `FailuresCancel` | what `docs/architecture.md` says of failures; violated |

Two things go wrong in this code, and history says when. `astray`: a call of
the object wrote to a superseded socket instead of the one that carries the connection, the alarm wrote
back an attachment that had changed during its await, or a resuming connection was lost
(D1 failed) or lost its room with its call. Afterwards nothing is promised, and
`CallLease` has those cases as its own. `missed`: the publications whose
cancellation or removal found no connection because it was suspended or
resuming. A pending record in `missed` stays until the call ends or the session is rebuilt
(the finding); a published one stays announced though its tracks are closed in
the SFU, and the close is answered with success.

### Runs

| Run | Instance | Distinct states |
| --- | --- | --- |
| `MCPublicationRegistry.cfg` | 2 requests, 2 sessions, the 2 sources of a screen | 989 thousand, symmetry over requests and sessions |
| `MCPublicationStuck.cfg` | the same | 8-state counterexample |

Two requests are a race: publish against publish, close against publish, a rebuilt
session against either. Two sessions tell a rebuilt one from the one
before. The screen's sources are the only ones the code ties together, and two sources make a batch that could be
split. `StillPromised` cuts behaviours that are astray, and keeps the superseded socket and
the alarm's copy apart from each other and from requests in progress: until somebody
acts on them they change nothing, and acting on them is being astray. The violated run and
the proofs have no such bound. No fairness is assumed: nothing here promises progress, and
a request that the runtime drops leaves its record behind as a `missed` one does. Deadlock is checked.

### Proofs

`PublicationRegistryProofs` proves all seven properties of the run, for any requests,
sessions and sources, from `NoSession`, `NoAttachment` (null values are no data) and
`ScreenSources`. The invariant is `RegistryInv`: the types, and, while nobody is astray,
`Promise`. Besides the properties this says what a request relies on between its
calls. `AdmittedFresh` carries the argument of `InCallOnly`: a request admitted in a call
names the session of that call, a call that ends takes its session along, so
if the connection still has that session, the call goes on, and the reservation needs no
test of `channelId`; `Reserve`, `Complete` and `Remove` rest on it. `Reserved`
says which records may have a request's identifiers; with `CloseApart` it keeps two requests
from touching the same records, `SourcesTaken` gives `OneBySource`, and `RemovedUnseen` counts
a close's removals down to `UnpublishedFirst`. One lemma per action keeps `Promise`; those
that clear the media share `ClearedPromise`, those that move the connection `MovesPromise`.

## Accounts

### State and code

`accounts`, `sessions` and `invites` are rows of D1; `requests` what a request of
`auth-service.ts` has read and not yet written. A request is two actions: its reads (`BeginRegister`,
`BeginLogin`, `BeginRecover`, `BeginRegenerate`), then, after the hashes, its batch (`Register`, `Login`,
`Recover`, `Regenerate`, or `Fails`). `sockets` are the sessions with a socket in
`ServerRealtime`, `events` the `disconnectSession` and `disconnectUser` on their way; `Deliver`
handles one, `Accept` is an upgrade whose session was live when read, `Revalidate` the alarm.

`password_changed_at = now` is what the later statements of a recovery look for, so `time` has the
milliseconds that two changes may share.

### Properties

| Property | Says |
| --- | --- |
| `InviteSpends` | an invite makes one account, and is used exactly then |
| `OldPasswordEnds` | no live session was opened with a password its account has given up |
| `CodesKnown` | an account's recovery codes are of one issue, which its owner was shown |
| `SocketsEnd` | the socket of a revoked session is closed, or the event that closes it is on its way |

What they set aside: a login or regeneration that read the password before a recovery opens a session
after it (`timely` is FALSE); a recovery with a wrong code in the millisecond of another change finds
its marker, revokes the sessions and replaces the codes by ones nobody sees (`collided`); an upgrade
accepted after the revocation lives to its session's limit (`late`). A login replaces the session of its
cookie without an event ("rotated"), and a username taken meanwhile revokes the invite.
Events are assumed to be delivered (`waitUntil`).

### Run and proofs

`MCAccounts.cfg`: 2 users, sessions, invites and requests, one code per issue, 2 issues, 2 moments;
970 thousand states. Two requests are a race of any two operations; `Few` keeps one event
and one socket at a time, since `SocketsEnd` speaks of one session, and the proofs have no such bound.

`AccountsProofs` proves all five properties for any constants, from `Limits` and `NoneIsNone`. The
invariant adds `Known`: whoever has a session, or a request past its first read, is registered, so no
batch finds a row missing. Lemmas `...Does` say once what each batch writes, with its
records spelled out; `Follow` is the class of changes that only end sessions, and
`PasswordsKept`, `CodesKept`, `SocketsKept` state what suffices for each property.

## Groups

### State and code

`friends`, `group`, `owner` and `rows` are D1; `requests` first a task of `social-service.ts` between
its checks and its batch (`BeginTask`, `Check`, then the write), then the refresh it owes
(`List`, `Load`, `Apply` are `groupMemberIds` and, per user, the two halves of
`refreshSocialState`). `cached` is the list of rooms in the attachment of a user, `fetched` the answer
an upgrade has loaded, `inCall` the group's call. `copy` is what `alarm` has read of an open socket's
attachment before it asks D1 for the session (`AlarmReads`); the answer writes all of it back
(`AlarmWrites`), unless the session is over, D1 fails (`AlarmLeaves`) or the socket has gone (`Dropped`). A
connection has one socket here: a transport that is superseded is `CallLease`'s.

### Properties

| Property | Says |
| --- | --- |
| `GroupWhole` | a group has its owner among its members, nobody else has the role, and the limit holds |
| `CapabilitiesFollow` | after every change the attachment agrees with D1, or a request is still to refresh it |
| `CallsFollow` | nobody stays in the call of a group they are not a member of |

`transferGroup` and `addGroupMember` write without repeating their checks (`raced`): a transfer
overtaken by another, or by a removal, leaves a group with two owners or with one who is no member. D1 answers
applied in the other order, a refresh that fails and a member added after `deleteGroup`
has listed them leave an attachment that nobody corrects (`missed`), and so does a refresh that runs
while the alarm awaits D1, which the alarm undoes. A resumption carries a call past a removal
(`carried`); the alarm may write such a call back after a refresh ended it.

### Run and proofs

`MCGroups.cfg`: 3 users, of whom b and c are not friends, 2 requests, a limit of 2. Two requests are
what a race takes; only b connects, since attachments of different users never meet; a
behaviour is followed to the first `raced` or `missed`; 1.29 million states.

`GroupsProofs` proves `TypeOK`, `GroupWhole`, `CapabilitiesFollow` and `CallsFollow` for any users,
pairs, requests and limit, from `Bounded` (finitely many users) and `NoneIsNone`. The invariant adds
`Asked` (a creation has looked at fewer friends than the limit, none of them its own user), without which a
created group could exceed it, and `CallCached` (who is connected and in the call has it in the
attachment, or was carried there by a resumption or the alarm). `AsksDoes` and `WritesDoes` say once what each
request does to the refreshes: one that only asks keeps covering whom it covered, one that writes
covers everybody whose membership it changed, except the deletion, which may miss members added
since it listed them. `CallsFollow` then needs no step of its own: it follows from `CapabilitiesFollow`
and `CallCached`.
## ChatDelivery

### State and code

`rows` is D1, `sends` the `sendChatMessage` of each message between its awaits, `announces` the
edits and deletions between batch and broadcast, `wire` the events to one client. `cache`, `loaded`,
`recency`, `fetch` and `older` are that client: `updateChat`, `setConversationMessages`, the first page and
the pages before it. `Lose` drops the socket with what is on it; commands may be retried.

### Properties

| Property | Says, once nothing is under way |
| --- | --- |
| `Shown` | a loaded conversation shows every message from its oldest one on, as D1 has it |
| `InOrder` | once each and in D1's order |
| `Noticed` | a message of this client is in D1 or shown as failed, and what is shown as failed is not in D1 |

`excuses` names what breaks them: `gap` (a conversation counts as loaded after a reconnection in which events were
lost), `stale` (a broadcast of a read older than an announcement), `clobbered` (a page replaces
what arrived since it was read), `strayed` (a page of one conversation put into another:
`chat-view.tsx:236`, `app-page.tsx:432`), `early` (`canLoadOlder` of another conversation), `late` (D1
answers out of order), `emptied` (one's own unsent messages pushed every confirmed one out of a
conversation that still counts as loaded: the next to arrive leaves out those before it). `unsure`: D1 stored what it
reported as failed.

`MCChatDelivery.cfg`: one client, two conversations of which the cache keeps one, two messages (its own
and another's), pages of one message, one edit or deletion, one loss; a behaviour is followed to its
first excuse. Other clients' caches never meet this one. Also true and not modelled:
`slice(-100)` drops the oldest pages again.

### Proofs

`ChatDeliveryProofs` proves `Shown`, `InOrder` and `Noticed` for any messages, conversations, changes, losses, and
sizes of page and cache, from `MineAreMessages` and `SizesArePositive`. The invariant has three layers, each
inductive with the ones before it:

* `Base` (`BaseHolds`): what everything is made of. Entries and events are of rows D1 has, or of messages this client
  sent; a page ascends, is of one conversation and leaves no row out between its ends. It holds whatever the
  excuses, so nothing shown is ever invented.
* `Attempts`, unless a page was put where it does not belong: a message of this client is sent by one attempt at
  a time (`OneWord`), what the attempt tells is true of D1 (`Truthful`), an entry that says sending or failed is
  where it was put (`InPlace`), and what was asked is still awaited, stored, failed or excused (`Remembered`, `Awaited`).
  `Noticed` is this at a quiet state.
* `RightUnlessExcused`: the last event about a row that is on the wire says what the row says, or an announcement is to
  follow (`LastWord`), and what is shown, what a read page holds, and the pages captured by `loadOlder` are
  ascending, right but for rows an event is still to correct, and whole but for rows one is still to bring
  (`AllRight`). At a quiet state no event is left, which is `Shown` and `InOrder`.

The server's steps add what is pending before they change a row (`Steady`); the client's all end in `updateChat`,
so `ShowsWhatIsRight` says once that keeping the last entries of a list that was right and whole leaves one that is.
The lists are handled by lemmas about `Those` and `Nth`, which filter by positions and replace recursive filters
(`ThoseSelects`, `LastOfPart`, `PageIs`).

The proof found what the run cannot reach: with a cache of two and one message of its own this client cannot push out what
is confirmed, with two it can, and then `Shown` was false. Such a send is `emptied` since.

## RealtimeClient

### State and code

`client` is the hook: `activeRef`, `pageIsUnloadingRef`, the timer, the logical connection, the current
transport and the state shown. Each of `sockets` has its two ends, the frames in both directions and, at the
server, what `fetch` awaits. `stored` is sessionStorage, `records` the suspended connections, `pending` the
commands with their 8-second timers. `saved` is what the alarm has read of an attachment until D1 answers.

The server ends or changes a connection in every way the object has: it closes a transport with 4003
(`SessionEnds`), with 4002 for its successor (`FetchReplacing`), or with 4004, 1008 or 1009 (`Cuts`, at
any moment, so that message counters need no state); a transport it closed stays listed until its close event
(`ServerLoses`, `ReplacedGoes`), and commands that come on it are handled, without an answer. A call is
taken by another device (`TakenElsewhere`), ended by a refresh that withdraws its room (`Evicts`,
`EvictsSuspended`), or undone or revived by the alarm (`AlarmWrites`; `AlarmRevives` for a
transport replaced meanwhile, which the write-back makes live again and its close event suspends).

### Properties

| Property | Says |
| --- | --- |
| `Resumes` | the server refuses the next epoch only of a connection in `excused` |
| `InCall` | once nothing is under way, both sides know the same connection and epoch, and the tab is in the call or out of it as the last answer said |
| `Reconnects` | a tab that is mounted, online and in its session is connected in the end |

`excused`: a transport given up before its `server.ready` (the tab asks the same epoch again, is
refused, and its call is a ghost for 45 seconds that `call.join` conflicts with), a grace
that passed, a connection closed with 1000 or 4003, taken over, or lost when D1 failed during its upgrade; and
one that the server cut with 4004 (recovery codes regenerated), 1008 or 1009: `resumeConnection` skips a
closing socket, so a tab that is back before the close event was handled gets a new connection,
and its call is a ghost too. A command is settled by its answer or its timeout, never by the close of its socket: after a timeout
`told` is unknown, and stays so until an answer comes with no abandoned command behind it.
`taken`: another connection took the call and `call.replaced` was lost with a transport; a refresh evicted
the tab, which hears a `call.member.left` that answers none of its commands; or a command came on a
transport the server had closed and its answer was not sent. Nothing tells the tab when it resumes, and it believes
what it was told last, until the next answer. `astray`: the alarm wrote back an attachment in which a
call had begun or ended meanwhile, or of a transport that was replaced meanwhile; nobody is told of that either,
and the connection may be in two places for a while (`OneHolder` says so of no other).
`pageIsUnloadingRef` stays TRUE after a page comes back from the back-forward cache.

`MCRealtimeClient.cfg`: two connections and two transports (one that ends late beside its
successor), one command, two faults; symmetry over transports; 677 thousand states. A cut, an
eviction, a take-over and a reading alarm count as faults. A request id serves again once no queue and no timer has it. `Reconnects` is checked in `MCInTheEnd.cfg`, which follows a tab
with a command past one fault and one without commands past two (104 thousand states with the part of
`CallLease`). Fairness: the timer fires, the browser delivers
what came or closed on a transport, the server handles what reached it, D1 answers the alarm or fails, some
grace passes; which of several is first is open. Faults are finite: with endless ones nothing reconnects. A connected tab may
stay idle, so deadlock is not checked.

### Proofs

`RealtimeClientProofs` proves `Resumes`, for any connections, transports, commands and faults. That no
connection is refused without a reason is not inductive: it needs what the server still has whenever a tab
asks. The invariant `Kept` has these parts:

* `Shapes`: what ends, flags and queues of a transport may be together; `server.ready` is the first
  message, and after `4003` the server sends nothing.
* `Tab`, `OneLive`: storage and ref hold the same identity, and only the current transport lives.
* `Asked`: a transport that asks for a connection not excused is the current one and not yet settled. So
  whoever gives up a request has excused its connection.
* `OneHolder`: a connection that the alarm did not put back is on one transport or in one record,
  never both. Otherwise the close of an old transport would overwrite or lose what a new one resumed. It is a
  theorem of its own.
* `Newest`, `SavedFits`: even after the alarm wrote back, one transport carries a connection that is not
  excused, and a record or the alarm's copy beside it is older. So what is revived never stands in the
  way of the next epoch.
* `Gone`: what the server closed for good or cut, or took from under a listening tab, is excused.
* `StoredKept`, `AskedKept`: for the stored identity, and for every request under way, the server has an open
  transport or a record of that connection with a smaller epoch (`Keeps`), and nothing of it with a
  greater one, the alarm's copy included (`Below`), unless it is excused.

A first group of lemmas says what each action does to a transport field by field (`Does`); `Steps` puts the
actions into classes by what they can disturb, and each part has a lemma over those classes.

The second part of the module proves `InCall` on top of `Kept`. The property speaks of quiet moments only; the
invariant `Understood` says what holds while messages, answers and transports are still under way:

* `NoneAhead`, `NoneReplaces`, `AsksNext`: no request is ahead of the epoch of the tab, so no late one
  takes the connection from the current transport.
* `Heard`: once `server.ready` is no longer in the queue the tab is on the connection and epoch of its transport.
* `Waits`: while the tab is sure (`told` is known) it waits for every command and answer that may change
  the call, on the current transport and on any other that still carries its connection. This is what
  a timed-out command breaks, and what `told = "unknown"` stands for.
* `LastWord`: the last effective message in a queue says what the call is at the server.
* `Told`: `call.replaced` and the `call.member.left` of an eviction are on their way only to a connection
  in `taken`.
* `Speaking`, `Fresh`: with no effective message in the queue, and everything waited for still to be
  executed, the server has the call as the tab was told; a connection not heard of yet has none.
* `Agreed`: with nothing to wait for, the same holds wherever the server keeps the connection: a transport
  that is loading, an older one it does not know to be dead, or a record. So the call survives the
  resumption, in whichever order close and upgrade arrive.

`LastWord` and what follows speak of transports the server still answers on (`Speaks`: open, or cut before
any command came on it) and of connections that are neither in `taken` nor in `astray`.

The steps fall into five classes (`Waning`, `Starting`, `FetchesIt`, `Says`, `HearsIt`) described by the
fields they change, with one lemma for each.

## RecoveryLoop and Supervisor

`Supervisor` is `ConnectionSupervisor` with the hook that feeds it: `Observe` is a render and its three
effects, `Lifecycle` and `Notice` the page's events, `RunRecovery` and the `Settle...` actions a
recovery and its end. Timers and recoveries of an abandoned generation fire and settle too.

| Property | Says |
| --- | --- |
| `SingleLoop` | one timer or one recovery of the current generation |
| `GivesUp` | after `MaxAttempts` failures nothing begins another |
| `DisconnectSticks` | nothing of the past is reported over a disconnect |
| `LoopSpec` | the supervisor implements `RecoveryLoop` |
| `Answered` | a request that was heard leads to a recovery, to giving up, or to a disconnect or resumption |

A stale recovery that settles while a current one runs clears `activeRecovery` of it (`crossed`):
then two loops run and more than the six attempts of `docs/native-clients.md:42` may be made.
`resume()` keeps the timer and the recovery of before it, so a request behind them is dropped, as is one
whose timer effect 3 invalidates in the same commit; `asked` excludes both. The
application calls `disconnect` only through `dispose`.

`MCClientLoops.cfg`, part "supervisor": eight snapshots that tell the derived states apart, two timers
and two recoveries (one of each that is stale), two attempts, generations to 4. Fairness: timers fire and
recoveries settle, as their calls have timeouts. `SupervisorProofs` proves the first four
and the types for any snapshots, pools and bounds; the refinement is proved step by step under
the mapping `Phase`, with the loop's `tries` being `attempt`.

## Reception

A listener's subscriptions from end to end: `Effect` compares the list with `marked`, the
negotiation queue of each session runs one job at a time, `routes` are the requests between
`reserveSubscriptions`, the SFU and `completeSubscriptions`, `held` the subscriptions in the attachment,
`registered` its session. `IsRebuilt` replaces the session, `Drops` suspends the connection, `AnswerLost`,
`SfuFails` and `NegotiationFails` are failures, `ListMisses` a list that lacks a publication for a while.

| Property | Says |
| --- | --- |
| `Received` | what the list has is shown in the end |
| `Vanishes` | what it no longer has disappears in the end |

`excuses`: after a lost answer, a failed renegotiation or a cancellation while suspended the server keeps the
subscription and refuses (403) every batch with it, so what is new in the batch is not heard
either, until the session is rebuilt (`refused`). A publication loses its mark, or its retry, when a failed
job, also one of the previous session, takes back the mark of what was asked again, when the
success of another clears the retry, or when it is listed again while its close is under way
(`unmarked`). A close that fails leaves the track open, and a late one of the old session hides the track of
the new one (`left`). The effect also runs on changes that do not concern it, which only helps and is
left out. So is the alarm's write-back, which can undo a subscription as it can a publication
(`PublicationRegistry` follows it there).

Part "listener" of `MCClientLoops.cfg`: two publications with one failure, or one with two; two
sessions. Fairness: effects, timers, requests, messages and the resumption of a dropped connection.

## VoiceSession

`operations` are the joins, switches, starts and recoveries, each at one of its awaits; `session` the refs and
status of the hook, `peers`, `published` and `microphones` what the clients hold, `captures` camera and
screen with their managers, `commands` and `lease` the calls on the socket. `LeaveHandled` is the server's
`call.leave`; it may find no socket or be lost with one (`LeaveLost`), and a switch goes on without its answer
(`LeaveTimesOut`), because `leave` and `join` swallow what `leaveCall` rejects. A recovery detaches its client in two
steps: `Detach` takes the generation, `RecoveryStarts` closes the peer once the senders have let
go, and what is being published in between may still succeed. A recovery is asked for in every status but
`idle`, so also while a join starts its client, which it overtakes.

| Property | Says, once nothing is under way |
| --- | --- |
| `Coherent` | idle is no client, no call, no microphone; connected is an open peer with its own live microphone, in the call of the room shown |
| `CaptureShown` | a camera or screen is live exactly when it is shown and wanted, and is sent on the session of now |

`astray` has one reason per way an operation goes on after a later one. `microphone`: a leave during the start
leaks the microphone, against `docs/architecture.md:51`. `revived`: a join pending at a leave
starts its client anyway. `undercut`: a stale join's failure sends `leaveCall`, or `reconcile` and
`startClient` write a status, over a later call. `late`: the join's 8 seconds end while the server
still executes it. `unleft`: `call.leave` never reached the server, and the resumed connection keeps the call of
an idle tab. `mislaid`: a stale close sets idle over a restarted camera. `kept`: the screen
manager keeps a stream nobody asks for any more, one that ended, or a live one whose publication
succeeded while a recovery detached its client, with the state idle beside it. `removed`: the camera's device went. `misplaced`: a switch
overtaken by another join shows its own room.

`MCVoiceSession.cfg`, part "session": 2 rooms, 3 operations (one that is overtaken, one that overtakes,
one that recovers), both captures, a budget of 5 requests, symmetry. `OneKind` follows a behaviour to a
second reason; `FiveWithTwo` allows the fifth request only while an operation is left and nothing
went astray; `AlarmAlone`, for the microphone, follows a reading alarm while every word has reached the
server. 1.81 million states with the other two parts, in three minutes.

Left to other modules, or out: the server changes the lease by itself (eviction, alarm, take-over) in
`RealtimeClient`, which says what the tab then knows; the peer of a `leave` is closed after its senders were waited
for, as in a recovery, but the refs are already empty and nothing shows; a `connected` that
`onConnectionChange` reports before `startClient` has published the microphone is not modelled.

### Proofs

`VoiceProofs` proves both properties for any rooms and operations, under `HookNoneApart`: `None`, which is
null in the code, is no operation, room, or record of one. `Captures` is assumed to be camera and screen, because
`reconcile` restores these two by name and in this order. Both properties speak of quiet states; their
invariants say what each await may leave behind.

`HookInv` is inductive for `Coherent`:

* `Grounded`: no operation is of a generation still to come; how far it came says whether its client has a
  peer yet and whether it holds a microphone.
* `Core`, until an operation was revived or undercut: at most one operation is of the generation of now.
  The refs and the status are what it made them, and those an earlier generation left behind (`Aside`)
  have nothing of the session, so whatever they still do changes nothing of it. Without an operation of
  now the status alone says what the session holds (`StatusFits`), and every microphone that is open is the
  session's, an operation's, or leaked (`MicrophonesFit`).
* `Leased`, until a join was also answered too late: the lease after the commands still on their way. The
  join of the operation of now, while it waits, is the last command, and what is before it ends without a
  call (`ClearedTo`), or with the one a lost leave left behind (`Left`). A join whose client a recovery
  overtook still waits to leave the call (`Overtaken`).

`CapsInv` adds `Caps` for `CaptureShown`, until a stream was mislaid or kept: each capture is as shown,
except for what the recovery under way still restores (`Pends`) and what the one task of the capture
will do when its await ends. `StreamFits` relates state, stream and wish; `TaskFits` says of a task
which generations it was started in: one that started before a stop, a leave or a rebuild is seen by its
own check, and one that passes the check is of the client of now. While a recovery detaches its client, a
publication on it is of the old session, whichever way it ends. TLC checked the
parts with the bounds of the run before they were proved.

## Microphone

`sessions` are media sessions from permission to stop, `input` and `enabled` the tracks, `ref` the hook's
`microphoneTrackRef`, `controls` the user's, `presence` what the server tells the others. `Follows`: once
nothing is under way, out of a call no microphone is open; in one, the session publishes the one the hook
knows, alone, silent exactly when muted or deafened, and the others see the controls.

`LeavesCall` resets the controls whether or not `call.leave` reaches the server (`LeftAtServer`); it may also
reach it late (`LeavesLate`). The alarm writes back what it had read of the presence
(`AlarmReadsPresence`, `AlarmWritesPresence`).

Set aside: a toggle before or while joining, or with the socket down, is never sent
again, a leave that did not reach the server leaves the old mute and deafen with the resumed connection, and
the alarm undoes a change made while it awaits D1 (`unsent`); a device change that ends across a rebuild or a leave leaves an open track nobody stops, or
puts a dead one into a later call's ref (`loose`). A fresh microphone is open from
`replaceTrack` or publishing until `setMuted` runs, so whoever muted before joining is heard for a moment;
`Follows` speaks of settled states only. Two sessions and two tracks: one of each to be overtaken.

### Proofs

`VoiceProofs` proves `Follows` for any sessions and tracks, under `NoneApart`: `None` is no session,
track or change. The parts of `Inv`:

* `Phased`, `OneActive`: what goes with a phase; one session at a time starts, is ready or is rebuilt, and
  while the user wants the call it is the hook's.
* `Told`: what the others were told is what the controls are, unless `unsent`. It is inductive by itself.
* `Named`: a track that is named was opened, so one that opens now is nobody's.
* `Owned`: every live track belongs to one session or to the change that opened it. Otherwise a stop would
  end the track of another session, or nobody would end it.
* `Known`: the hook's ref is the track of the session while it is ready, detached and started again, and ends
  with a recovery that fails.
* `Changed`: a change that replaces a track has one, and its session was published.

`Named`, `Owned` and `Known` hold until tracks are set aside (`loose # Inputs`). `Known` was found not to be
inductive with an earlier definition of `loose`: a change whose call was left may end during the
recovery of a later call, and put a track that is about to be stopped into the ref the next attempt reads. It
takes four sessions, more than the run has; since then such a change is set aside too. The invariant
was checked by TLC with four sessions and three tracks before it was proved.

## CallResumption

`Commit` is the sequence of effects of one render over `refs` and `stored`; between commits the user joins,
switches, leaves and toggles the camera, lists change, entries age and the page reloads. `Resumable`: settled
in a call, it is the one the user asked for, it is shown, and what is stored would bring
it back with its camera; settled without one, nothing is stored and none was asked for.

`strayed`: a reload during a switch, or before the commit that stores; a takeover, which shows and stores
nothing; a conflict, whose conversation the next effect clears; a camera to resume that survives a leave and
starts in a later call; a resumption rendered together with a change of the lists, which clears itself; a join
during a switch's leave. `savedAt` is refreshed only when the effect runs: a reload more than a
minute after the last change does not resume (`Ages`). Two conversations: one to switch to.

### Proofs

`VoiceProofs` proves `Resumable` for any conversations, under `TabNoneApart`: `None`, which is null in
the code, is no conversation, entry, join or switch. `Resumable` speaks of moments with nothing left to
render; its invariant `TabInv` says how each difference before that is made up for by what is still to be rendered:

* `Opening`, `ResumesEarly`: the first commit after the connection is where a reload resumes, and until it
  there is no call. Had it been possible later, the entry of a call that is over would be joined again.
* `InFlight`: a join in flight is the one the status speaks of, or overtaken, so its answer changes nothing.
* `InACall`: the entry is right, or a dependency of the effect that saves is in `changed`; a switch past its
  leave already counts as the new call.
* `InASwitch`: a switch shows another conversation in the end, so the effect that saves runs again.
* `OutOfACall`: what is stored or asked for without a call is about to be resumed, joined by a switch, or
  cleared by the next commit.

`Commit` is proved in three cases (`CommitInCall`, `CommitRejoins`, `CommitIdle`), from `CommitDoes` and
`RememberedIs`, which say once what its effects do.

## Not modelled

* **Rate limits** (`security-gate.ts`): one synchronous SQL step per call; twice the limit passes
  around a window boundary, as with every fixed window.
* **Cleanup**: deletes rows that no query returns any more.
* **HTTP shell, origin and Turnstile checks, cryptography, schemas**: stateless.
* **Native shell**: the same frames as a browser socket.
* **User interface**: rendering; the two writers of the chat cache are in `ChatDelivery`.
* **Within modelled parts**: `failedLoginCount`, read and written by concurrent logins
  (`auth-service.ts:167`); presence announcements, where `wasOnline` is read before the D1 await
  (`server-realtime.ts:141`); the first message of a direct conversation and its `pending_` entry;
  the audio of a screen reserved while its video closes (`realtime-routes.ts:204`); publications
  whose close failed and is tried again (`retryClosePublication`); the registry's variants
  for one publication or subscription, which no route calls; statistics and the speech detector;
  two tabs that share a copied identity; the alarm's write-back of subscriptions and of the lists
  of conversations that chat broadcasts go by; devices that are unplugged during a call, but for the camera.
* **Liveness** (`ScheduledExpirySwept`, `Answered`, `Received`, `Vanishes`, `Reconnects`) is
  checked by TLC only: fairness and ENABLED are out of the prover's reach.
* **Only model-checked**: the properties of `Reception`, which are liveness and rest on its fairness.

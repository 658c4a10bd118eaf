# UNISZN: a verification project

UNISZN (`src/UNISZN`) is an iOS app, written in Swift over Firebase (Auth,
Firestore, Storage, Messaging) and Algolia, in which students find each other,
become friends, write to each other and look at each other's profiles.  There is
no server code: every rule of the system is kept, or not kept, by what the
clients write into shared documents and by what their listeners make of them.
This directory holds TLA+ modules of that behaviour and of the part of the
Firestore SDK it rests on, TLC configurations that check them on small
instances, and proofs of many of the invariants for instances of every size.

The compiled program is `src/UNISZN/FinalUniApp`.  Files called `* 2.swift` are
stale duplicates outside the build target, and `MainViewController`,
`LoginViewController`, `RootPageViewController`, `UniveristyChoice`,
`temporary code nameusername` and `Testing` are not part of the running app.
`src/UNISZN/Pods` is third-party code that is kept, and built, with the app.  Of
it, the write path of `FirebaseFirestore` (`core/src`) is modelled, because
everything the app promises its users about a message, a request or a report is
a promise about a queued write.  There are no tests, and the repository's README
has one line; the strings the app shows its users are its only statement of
intent, and the findings below quote them.

## 1. Inventory

| Component | State it keeps | Operations | What is hard about it | What makes it correct |
|---|---|---|---|---|
| **Firestore SDK, write path** (`sync_engine`, `local_store`, `leveldb_mutation_queue`, `remote_store`, `stream`, `write_stream`, credentials) | per account, mutation batches on disk; batch ids; callbacks; worker queue; write pipeline; the stream's state, handshake, timers, token under way; cached versions | write, change of account, token, open, handshake, result, refusal, close, back off, idle, connectivity, restart | answers carry no id; the pipeline is sent again after a lost answer; tokens, timers and account changes all race on the worker queue | writes are sent and settled in order, in their writer's name, each with its own answer; every write is settled; the cache never goes back |
| **Firestore service** (external) | documents | read, listen, commit or refuse a batch | may refuse any write | assumed, section 4 |
| **Another user's page** (`SearchProfile`, `FriendsLogic`) | `Friends/u/Accepted`, `Friends/u/Requested`, `Blocked/u`; button title; three listener handles | add, cancel, accept, unfriend, unblock, block, report, message | listeners are created inside listeners and overwrite their own handles; the button acts on what it says, not on what is stored | friendships are mutual as far as one batch can make them and rest on a request; the title is never one that no document explains |
| **Friend request list** (`FriendRequests`) | rows, user documents being fetched, recognizers bound to cells | load, refresh, accept, delete, open a page | reused cells keep recognizers of other rows; a refresh does not cancel earlier fetches | one accepts only who has asked; a request comes to the screen |
| **Global spinner** (`vSpinner`) | one reference to the overlay last shown | `showSpinner`, `removeSpinner` | shared by all screens, removed by completions of screens long gone | every overlay is taken off, and only where it lies |
| **Chat** (`MessageLog`) | `user-messages/a/b` of both sides; a listener | send text, send an image, look at the partner | four independent writes per message; an upload that outlives the screen | the copies agree; an open chat shows the log |
| **Latest messages** (`MessagesMainView`) | `Latest-Messages/a/Latest`; array, table, one handle for many listeners | appear, refresh, open, delete | array and table change at different times; leaked listeners | the table settles on the latest rows, newest first |
| **Row cell** (`MessageCell`) | what it shows; whether it can be tapped; the listeners it was ever given | bind to a row, be reused | listeners of earlier rows keep writing into the cell | at rest a row shows its own conversation |
| **Profile editing** (`EditProfilePage`) | four picture flags, a count, the overlay, an alert | pick, Done, Cancel, retry | name check, batch, display name and uploads are answered in any order, also after the page has gone | usernames are unique; the page closes when, and only when, everything is saved |
| **Reporting** (`SearchProfile`, `HomePage`) | `reportedUsers/u`: reasons and a count | report | read, let the user type, write back | no report is lost or counted twice |
| **Sign-up** (`EmailPassword` … `Course`) | account; the stack of screens, sheets, alerts and overlays; the requests under way; user document, memberships, listings | sign up, type, confirm, choose, list, go back, swipe away, relaunch | four screens with a write each; the username is checked three requests before it is written; requests outlive their screens | nobody is a member or listed without a name; profile, membership and listing agree; overlays end |
| **Course administration** (`ChangePeoplesCourses`) | five documents of a user | move to a course | typed by hand, crosses the user's own choices | a profile has its membership |
| **Own profile** (`Profile`) | listeners, array of pictures | show, refresh, log out | every snapshot appends | three pictures, of the signed-in user |
| **Closest universities, related courses** | a dispatch group, result arrays | load | called from dead code only | – |
| **Search pages, lists of friends** | arrays filled one answer at a time | filter, tap | taps index the unfiltered array | a tap opens the row it hits |
| **Home, tabs, posting, app start** | sample posts, a badge | | little state; the post is never stored | |

Components interact in four ways: through Firestore documents written by one
and listened to by another; through the SDK's one queue of writes per account,
which outlives screens and restarts; through UIKit (a page covers the list below
it, an overlay swallows taps, an alert takes the dismissal meant for its page);
and through globals, `vSpinner` above all.

## 2. Modules

| Module | Models | Kind |
|---|---|---|
| `WriteQueue` | what the SDK promises the app about its writes | abstract specification |
| `FirestoreClient` | the write path of the SDK, with the network and the service as its environment | detailed, implements `WriteQueue` |
| `FirestoreClientProofs` | TLAPS proofs about `FirestoreClient`, the refinement among them | proofs |
| `Firestore` | documents, outboxes, `Sees`, `Enqueue`, `Commit`, `Refuse`: Firestore as the app's screens see it | external, shared by the app's modules through `INSTANCE` |
| `Friendship` | what the documents of two users promise to be: who may change which, and together with which | abstract specification |
| `Friends` | `SearchProfile` + `FriendsLogic` + `FriendRequests` + the spinner | detailed, over `Firestore`, implements `Friendship` |
| `FriendsProofs` | TLAPS proofs about `Friends` | proofs |
| `Messaging` | `MessageLog`, `MessagesMainView` | detailed, over `Firestore` |
| `MessagingProofs` | TLAPS proofs about `Messaging` | proofs |
| `MessageCell` | `MessageCell`, and the reloads of `MessagesMainView` that deal rows to cells | detailed |
| `MessageCellProofs` | TLAPS proofs about `MessageCell` | proofs |
| `EditProfile` | `EditProfilePage`, `SelectProfilePicture`, the spinner | detailed, over `Firestore` |
| `EditProfileProofs` | TLAPS proofs about `EditProfile` | proofs |
| `Report` | `reportuser` of both screens | detailed, over `Firestore` |
| `ReportProofs` | TLAPS proofs about `Report` | proofs |
| `Signup` | `EmailPassword`, `NameAndUsername`, `UniAndCourse`, `University`, `Course`, the spinner, `ChangePeoplesCourses` | detailed, over `Firestore` |
| `SignupProofs` | TLAPS proofs about `Signup` | proofs |
| `SignupFinishedProofs` | TLAPS proof about the sign-ups that go straight through, over `SignupProofs` | proofs |
| `MC…` | values of the constants for TLC | |

`Firestore` and `FirestoreClient` are two views of one thing.  The app's modules
need only that a client's batches reach the server one by one, in order, all or
nothing, in its own name; `Firestore` says so with one outbox per client.
`FirestoreClient` has the machinery that is to bring this about and shows, as
`KeepsPromise`, how far it does: batches are applied in order and settled in
order with the verdict the service gave, and a batch whose answer was lost may be
applied again before it is settled.  In `Firestore` each batch is applied once, at
its acknowledgement.  The difference is left out of the app's modules: the second
application writes what the first one wrote, and matters only where another client
has changed the same document between the two.

### How state and actions correspond to the code

**`FirestoreClient`.**  One task of the SDK's worker queue is one action, since
the queue runs its tasks one after the other; `worker` holds the tasks that other
threads have put on it (a write of the app, a change of the account, a token).
`queue`, `nextId` and `cached` are the local store, `callbacks` and `user` the sync
engine, `pipeline` the remote store, `stream`, `handshake` and `idle` the write
stream.  `asks` are the `GetToken` calls under way, each with whether it was made
for the stream of this moment: the code compares `close_count_`, of which nothing
but equality matters.  `toServer` and `toClient` are a connection, `account` whose
token it was opened with.  `FillWritePipeline` is an operator, for every handler
that changes the pipeline ends in it (`fillWritePipeline` also starts the stream
and arms the idle timer): `RunWrite`, `OnWriteStreamMutationResult`,
`HandleWriteError`, `RunCredential`, `RunConnectivity`, `Restart`.  `writer`,
`told` and `refused` are history.

**`Friends`.**  `page[u]` is the `SearchProfile` a user has open: the uid it
shows, whether it is covered, the button's title, and its listeners, each with
the document it listens to and what it delivered last.  A listener whose handle
is overwritten stays in the set; that is how the code leaks it.
`areTheyFriends`, `checkIfRequested` and `CheckIfYouBlockedThem` deliver one
snapshot each and create the next listener of the chain.  `list[u]` is
`FriendRequests`: rows, the user documents still being fetched (by number of
fetches, since a refresh starts them again), and for each row the set of
requesters whose recognizers its cell has collected.  `page[u].overlays` and
`list[u].overlays` count the overlays laid over each screen, and `vSpinner[u]` is
the screen whose overlay the global refers to.  The button's actions and
`blockuser` put one batch into the outbox; `Committed` and `Refused` are
the server's answer *and* the completion closure of that batch.

**`Messaging`.**  `chat[u]` is the open log; `inbox[u]` is the list with its
array `messages`, the table's `rows`, and one entry per listener ever added and
not removed.  `sendMessage` appends four batches to the outbox, in the order of
the source.  `uploads` are images on their way to Storage, which survive the
chat that started them but not the app.  `Readers` are the users whose screens are
followed; of the others only what they write is, from a chat that is open at first
(`Chatting`).

**`MessageCell`.**  `row`, `preview` and `enabled` are what a cell shows;
`listening` and `asked` are the listeners it was ever given, before and after
their first call.  `main` is the main queue, on which Firestore puts one call per
change and `loadLatestMessagesForUser` one reload per row.  A listener that is
removed is muted: its calls stay on the queue and do nothing when they run
(`Mute`, `MutedCalled`).  `reloadData` deals the rows to any cells at all, which is
what UIKit's reuse pool may do.

**`EditProfile`.**  `page[u][v]` is the `v`-th page a user opens, followed after
it has been left because its requests go on.  `calls` are the requests not
answered yet: the username query, the read of one's own name, the display name
and the uploads; the batch is in the outbox.  `overtaken` is history: the users who
had passed the check of a name when another user's batch with it arrived.  `Settle` is the test
`count == 4` with what follows it, including that a page which presents an
alert dismisses the alert instead of itself.

**`Report`.**  `reading` are reads not answered yet, `alert` is what the screen
presents; the prompt carries the count it was opened with.

**`Signup`.**  `screen`, `pages` and `over` are the navigation controller: the base
screen, the `UniAndCourse` pages pushed over the names (a second confirmation
pushes a second page), and the sheet or alert presented over the top one.
`overlays` are the spinner views, each with the request that showed it and the
view it lies on; `vSpinner` is the one `removeSpinner` takes off.  `calls` are the
username query, the token and the pictures' addresses, which follow one another
in `confirm`, each reading the text field anew where the code does; the four
batches are in the outbox with their handlers, which a relaunch takes away.
`changeCourse` is the developers' page, whose batch waits in `outbox[Admin]` and
is answered by `CourseChanged` or `CourseRefused`.
`slips` is history: what a user did while a request was under way, for the
properties that are about undisturbed sign-ups.

## 3. Runs

| Run | Question | Bounds | Result |
|---|---|---|---|
| `client_writes` | what becomes of a write, through failures, restarts and changes of account | 2 accounts, 3 writes, a pipeline of 2, 2 events, fairness | `TypeOK`, `PipelineIsPrefix`, `AnswersMatch`, `InCallersName`, `ToldIsSeen`, `LastWriteStands`, `AssertionsHold`, `WritesSettle` hold; `FirestoreClient` implements `WriteQueue` |
| `friends_one` | one user on the page, the other with the list | 2 users, 3 writes, 4 visits, a refused batch | `TypeOK`, `SpinnerOnScreen`, `FriendshipWasAsked`, `TitleHonest` hold; `Friends` implements `Friendship` |
| `friends_live` | does the chain of listeners come to rest | 2 users, also one's own page, 2 writes, 3 visits, 2 loads of the list at once, fairness | `TitleConverges`, `RequestSurfaces` hold |
| `friends_offered` | `AddFriendOffered` | 3 writes, 3 visits | **violated**, finding 1 |
| `messages_main` | writers, refused writes, leaked listeners, deletions | 3 users, of whom two write to the third, who has screens and may answer; 2 messages, 1 of them an image, 3 visits, 1 failure | `TypeOK`, `LatestInLog`, `LogsAgree`, `InboxHonest` hold |
| `messages_live` | does a message arrive | 2 users, 1 message, 4 visits, fairness | `RowArrives`, `MessageShown` hold |
| `messages_empty` | `EmptyListShown` | 1 message, 4 visits | **violated**, finding 2 |
| `cells_reused` | what reused cells show | 2 rows, 2 cells, 2 messages or deletions, 2 appearances | `TypeOK`, `PreviewHonest`, `OffAfterDeletion` hold |
| `edit_save` | saves, failures, retries, later pages | 2 users who both edit, 3 names, 2 pages opened by either or both, 4 pictures picked, 2 saves, 1 failure | `TypeOK`, `SharedOnlyIfOvertaken`, `DismissedSaved`, `StuckOnlyPastFour` hold |
| `edit_retry` | does trying again help | 1 page, 2 saves, 1 failure, fairness | `TryingAgainEnds` **violated**, finding 3 |
| `report_two` | two reporters race | 5 reports, 2 failures | `TypeOK`, `ReasonsKept`, `CountBounded`, `CountExact` hold |
| `signup_one` | one user signs up in every order the screens allow | 2 users, 2 names, 2 universities, 1 course and Pending, names confirmed once with 4 choices and listings or twice with 3, 1 failure or change by the developers, which may be refused | `TypeOK`, `Backed`, `ListedAreMembers`, `ListedAreNamed`, `NamesUnique`, `FinishedListed`, `OverlaysEnd` hold |

**Findings.**  (1) A page left open while its request is accepted offers "Add
friend" to a friend.  (2) Deleting the last conversation leaves its row on the
screen, over an empty array.  (3) A picture's
upload fails, the page says "Something Went Wrong", "Try again Later" with a count
short of four, and the second save counts past four: its overlay stays for ever.

Two more disagreements between the app's words and its deeds follow from one
guard each and have no run.  A pending request survives a block
(`SearchProfile.swift:493`) and can be accepted afterwards, which makes a blocked
user a friend; "You have already Reported this User" (`SearchProfile.swift:539`)
is unreachable, since the field its guard reads is written by nobody, and a second
report is counted.

What the passing runs do *not* say matters as much.

* Usernames are not unique.  Two users who edit or sign up at the same time can both
  pass the check of one free name before either batch is committed;
  `SharedOnlyIfOvertaken` says that, of users who edit, this is the only way, and the
  run has states in which it happens.  `NamesUnique` speaks of the names of users
  who had signed up before, and exempts a user who typed another name while the
  first one was being checked, because the batch takes what the field holds then.
* `CountExact` speaks of users whom one person reports: of two overlapping reports
  by different people one is not counted, and `CountBounded` and `ReasonsKept` are
  what remains true.
* `TryingAgainEnds` speaks of a page that has raised an alert with its count short of
  four; `StuckOnlyPastFour` says exactly which page keeps its overlay, whatever
  failed.  `DismissedSaved` supposes that no request
  has failed: after a failure the count of one save can be completed by the
  pictures of another, and a late answer to an earlier page takes the overlay off
  the present one.
* A refused block batch is announced with "This user has been blocked." because
  its closure ignores the error.
* `ListedAreMembers` and `FinishedListed` suppose that no request failed: a choice
  may be refused after the listing that was made from it.  `ListedAreMembers` says
  nothing of the university under which the developers list a course, as they may
  type another than the user's: the run has such a listing.  `FinishedListed` also
  exempts a sign-up in which a page was left (`"left"`) or confirmed again
  (`"again"`) while its request was under way, and a course changed by the
  developers.  Without the exemptions each has a counterexample: a sheet swiped
  down in flight leaves the page with a choice its profile has not; a second
  confirmation pushes a second page, and answers to the first one's requests
  dismiss what the second presents.  Failures leave overlays, in all three screens
  (`OverlaysEnd`).
* `LastWriteStands` exempts a write that the service applied, and refused when the
  answer had been lost and it was sent again.
* `PreviewHonest` allows a row to show "Delivered" of another row that was
  deleted: that listener's last call switches the cell's text and interaction and
  no reload follows it.  `OffAfterDeletion` says that this is the only way a cell is
  switched off; nothing switches it on again.
* `WritesSettle` speaks of an account that stays signed in.  With another account
  signed in, the writes of the first wait on disk, as they should.

**Why the bounds are enough.**  The hazards are about the order of a few steps of
at most two users and one server, or of one device and one server: a listener
delivering between two writes, a batch refused after it has been read, a
completion after its screen has gone, an answer lost after its batch was applied.
`MaxWrites`/`MaxSends`/`MaxSaves`/`MaxReports`/`MaxConfirms` bound the batches
written (`Signup`'s `MaxWrites` counts a confirmation of the names twice, so that
five writes need not come with a second confirmation); `MaxFailures` the refusals; `MaxEvents` failures and other events
together; `MaxVisits`, `MaxQueries` the pages, appearances and loads, which is what
leaks listeners; `MaxUploads` the images, `MaxPages` and `MaxPicked` the pages and pictures
of all editors together.  In each run the bounds let every action fire, let two leaked
listeners coexist, and let a failure fall before or after every other step.  In
`client_writes` three writes and a pipeline of two are the least with which a batch
waits outside a full pipeline while two are unanswered, and two events the least
with which a sign-in or a restart races with a lost answer or a failed token.
Every property has a mutant of the code that violates it within the same bounds
(`PROJECT.json`), so that none of them holds because the case is out of reach.

Where a bound is exhausted `Friends`, `Messaging`, `EditProfile` and `Report`
stutter in the action `Done`; `FirestoreClient`, `Signup` and `MessageCell` really may
come to rest (nothing to write, signed up, nothing to show), and their runs do not
check for deadlock.  `SYMMETRY` is used over the two senders in
`messages_main`, over usernames and the four pictures in `edit_save`, over usernames and universities in `signup_one`, over rows and cells in
`cells_reused`, all of which the modules treat alike, and never with a liveness
property.

**Fairness.**  In the app's modules weak fairness is given to what Firestore and
the main queue do: answers, snapshots, reloads.  The SDK retries writes until the
server answers, and the main queue runs everything that is put on it.  That the SDK
does so is itself checked: `FirestoreClient`'s `FairSpec` assumes only that the
worker queue runs its tasks, that an answer that has arrived is handled, that the
service answers a live connection, that a `GetToken` call ends and that the back-off
timer fires, and `WritesSettle` follows.  No action of a user is fair, and neither is
any failure; the idle timer, a restart and connectivity are not fair either.

## 4. Abstractions

*FirestoreClient.*  All batches write one document, whose version is the length
of the service's log: a version says exactly which writes a client has seen.  The
service answers the requests of one connection in order and ends the connection
when it refuses one, as the Write RPC does; it does nothing for a connection that
has ended.  The watch stream is reduced to the versions it brings, any of them at
any time.  A change of the account in `FIRAuth` and its notification are one step:
`FIRAuth` posts the notification on the main queue, on which `GetToken` calls are
answered and the app writes as well, and the app writes nothing between the two.
The end of a `GetToken` call and the task it puts on the worker queue are one step
too.  The close count is represented by whether a token is for the present stream; the
stream token, which the client only returns to the service, is left out.
`LoadNextBatchIdFromDb` is the predicate `IsNextBatchId`, as the highest id stored
plus one.  Opening a stream is one step with the grant of its token.  A broken
connection loses any number of the last answers.  That a *failing write* on a gRPC
stream can cut off results that were received behind it (`grpc_stream.cc:241`) is
listed as a hazard and not modelled.  The app never disables the network,
terminates the client or waits for pending writes, and these are left out.

*Firestore.*  A write or delete is queued at its client and acknowledged or
refused in order; a batch is atomic; a read sees the server overlaid with the
client's own queue.  The queue survives a restart (disk persistence is on by
default), completion handlers do not.  Listeners do not fail and deliver the
latest state, perhaps skipping states in between.  Answer and completion handler
are one step.

*Friends.*  One page and one list per user at a time; the user documents of
requesters exist and have a uid; the listeners of a popped page go on but touch
only views that nobody sees, and are dropped; the count of friends, the
"Accepted" label and hidden buttons of a row are left out.  Overlays block taps
on the view but not on the navigation bar, and the model lets the menu be opened
accordingly.  A reference of `vSpinner` to a view that is no longer on any
screen is `None`.

*Messaging.*  Messages carry distinct stamps, per user increasing and in any
order between users (the stamp is the sender's clock).  The user document that
`didSelectRowAt` reads is answered in the same step.  A look at the partner's
profile and the return from it are one step.  Pictures are left out, and cells are
in a module of their own.  Blocking is represented by what it deletes here; the
code sends messages regardless of blocks.  `Relaunch` also stands for the index
out of range that a stale row can cause.

*MessageCell.*  A cell's listeners are never removed: its `deinit` does not run,
because the callbacks hold the cell.  The calls of one change run together, as
each writes into another cell.  The list has one listener here; the ones that
refreshing leaks are in `Messaging`.  The second listener of a cell, to the other
user's name and picture, is left out: its only hazard is one write by one leaked
listener, listed in `PROJECT.json`.

*EditProfile.*  An upload (put the data, get the URL, write it) is one request
with three ways to fail, with or without an alert.  The picker opens and closes
in one step.  A username query that fails unwraps nil (`EditProfilePage.swift:381`)
and is the action `Relaunch`.  The text fields are read once, at Done.  The
change of the e-mail address has no effect on the page in either outcome.

*Report.*  A reason is not told apart from another reason of the same reporter.
Every report begins with a tap, so `MaxReports` on the reports sent never keeps
a prompt from being answered; it is a guard because the proof of the types
would otherwise need a sum over all screens.

*Signup.*  The name and the username are one field, `None` if either is empty.  The
keyboard stays up while an overlay covers the page, so that the fields can be typed
in and confirmed under it.  A swipe from the edge pops a covered page, a swipe down
a sheet with a choice in flight.  One account is followed: there is one `createUser`
at a time, and no relaunch during it.  A sheet takes one row.  A name of one's own
counts as taken, as the query does not look at whose it is.  A relaunch lands on
the home page whatever is missing, as `TabBarController` only asks whether somebody
is signed in; it also stands for the query that fails and unwraps nil.  The display
name, the notification token's topics and the pictures' contents are left out.
`changeCourse` acts on members of "Pending Addition", which is what its page is for;
the university is any, as the code compares it with nothing.  No course is called
"Total" (`SignupAssumption`), the name of the collection of all of a university's
students; courses come from the database.  A change's refusal is bounded by the change
and not by `MaxEvents`.

## 5. Proofs

All theorems are of the form `Spec => []Inv`, or `Spec` implies the abstract
specification, for every value of the constants that satisfies the module's
assumption (`FirestoreClientAssumption`, `FriendsAssumption`, `MessagingAssumption`,
`EditProfileAssumption`, `ReportAssumption`, `SignupAssumption`,
`MessageCellAssumption`: finite bounds, users among the clients, a pipeline that holds
at least one batch, four pictures to a profile, a cell for every row, a developers'
device on which nobody signs up), and those about the app rest on `Firestore`
as it is stated here.

| Theorem | Module | Says |
|---|---|---|
| `TypeCorrect` | `FirestoreClientProofs` | types; in particular the pipeline keeps its limit, and batch ids, which start again, stay bounded |
| `WritesInOrder` | `FirestoreClientProofs` | the pipeline is the beginning of the account's mutation queue |
| `AnswersSettleTheirBatch` | `FirestoreClientProofs` | an answer taken for one to the first batch is one |
| `AppliedInCallersName` | `FirestoreClientProofs` | no write is applied in another account's name |
| `SuccessIsShown` | `FirestoreClientProofs` | an announced success is never taken back from the document shown |
| `NoAssertionFails` | `FirestoreClientProofs` | the stream's assertions about idleness and tokens hold |
| `LastWriteIsLast` | `FirestoreClientProofs` | with nothing waiting, an account's last write is its last one in the log, unless it was refused |
| `PromiseKept` | `FirestoreClientProofs` | `Spec => KeepsPromise`: the write path implements `WriteQueue` |
| `TypeCorrect` | `FriendsProofs` | types; in particular an overlay is only taken off a screen that has one |
| `SpinnerFound` | `FriendsProofs` | `vSpinner` refers to an overlay that lies where it says, or to none |
| `FriendshipAsked` | `FriendsProofs` | a friendship on the server stands on a request that was once made |
| `FriendshipKept` | `FriendsProofs` | `Spec => ImplementsFriendship`: `Friends` implements `Friendship` |
| `TitleIsHonest` | `FriendsProofs` | the button of a page at rest claims nothing its viewer cannot read back |
| `TypeCorrect` | `MessagingProofs` | types |
| `RowsBacked`, `QueuesBacked` | `MessagingProofs` | a latest row speaks of a message its owner's log got, or was refused |
| `LogsInAgreement` | `MessagingProofs` | once the sender's writes are answered, a message is in both logs or was refused there |
| `InboxIsHonest` | `MessagingProofs` | at rest, array and table hold what the query finds |
| `QueriesAreLists` | `MessagingProofs` | what the query finds is a list of every latest message, each once, sorted |
| `TypeCorrect` | `MessageCellProofs` | types; in particular no two cells show one row |
| `OffAfterADeletion` | `MessageCellProofs` | a cell that is switched off was given a row that was deleted since |
| `PreviewsAreHonest` | `MessageCellProofs` | at rest a row shows its own message, or "Delivered" of one that was deleted |
| `TypeCorrect` | `EditProfileProofs` | types; the count of a page stays below four per save |
| `OnlyPastFour` | `EditProfileProofs` | an overlay with nothing to wait for lies over a count that has jumped past four |
| `DismissedHasSaved` | `EditProfileProofs` | as long as no request failed, a page that dismisses itself has stored its pictures |
| `OthersKeepTheirNames` | `EditProfileProofs` | no editor gets the name of a user who is not editing, whoever edits at once |
| `OnlyARaceShares` | `EditProfileProofs` | two users share a username only if one had passed the check when the other's name arrived |
| `TypeCorrect` | `ReportProofs` | types |
| `ReasonsStay` | `ReportProofs` | accepted reasons stay, and a reported user has exactly one count |
| `CountsStay` | `ReportProofs` | no count exceeds the reports sent off |
| `CountsAreExact` | `ReportProofs` | without failures, the reports of a single reporter are all counted |
| `TypeCorrect` | `SignupProofs` | types; every page on the screen was pushed by a confirmation |
| `ProfilesBacked` | `SignupProofs` | a profile that names a university or a course has the membership |
| `MembersNamed` | `SignupProofs` | no member without a username, unless the name was typed anew |
| `NamesFree` | `SignupProofs` | a sign-up never takes the name of a user who had signed up before, unless likewise |
| `OverlaysTakenOff` | `SignupProofs` | without a failure or a second confirmation, an overlay has a request under way that will take it off |
| `ListedChoseBefore` | `SignupProofs` | without a failure, whoever is listed is a member of what the listing names, but for universities the developers typed |
| `FinishedIsListed` | `SignupFinishedProofs` | a sign-up that went straight through is listed under what its profile says |

**`FirestoreClientProofs`** has one inductive invariant, `Inv`, of eight parts, and a
second one over it, `StandInv`, for `LastWriteIsLast`.
None of the properties is inductive alone, because each speaks of the place where
something goes wrong and not of how it would come there.

* `Stored`: the ids of each mutation queue increase and stay below `nextId`, every
  callback belongs to a batch that is in its queue, and `PipelineIsPrefix`.  Ids start
  again when the queues are empty; that no callback of an earlier life is left for
  the id is what makes the right completion be called.
* `Connection`: before its handshake a connection holds one greeting or the answer
  to it (`Greeting`); after it the answers under way are for the first batches of
  the pipeline, the requests for the others, and nothing follows an answer that ends
  it (`Dialogue`).  `AnswersMatch` is one clause; it holds in the next state only
  because of the requests.  Every answer also tells the truth about the service's
  log and refusals (`Truths`), which is what `SuccessIsShown` and the refinement use.
* `TokensCurrent`: of all the `GetToken` calls and the tokens on the worker queue one at
  most is for the present stream, and only while the stream is starting.
* `TasksNamed`: `Acting(worker, user, i, u)` says that `u` will be the current user
  when the `i`-th task runs, given the account changes queued before it.  Every write
  task runs under its writer, every token task under the account whose token it is,
  and a task added now under the account signed in now.  `AppliedInCallersName` is the
  induction over this queue.
* `TasksInOrder`: the write tasks run in the order of their numbers, and a write not
  run yet is younger than all that is queued, applied or settled (`FreshWrites`).
* `Owned`: queued and applied writes are their writers'.  `Seen`: the cached version
  is not ahead of the log, and `ToldIsSeen`.  `TypeOK`.

`PromiseKept` maps each account's batches and the service's log to their writes.  A
task that runs is an `Accept`, whose freshness is `TasksInOrder`; a batch applied is an
`Apply`, whose guard, that all earlier ones have been applied, comes from `Dialogue` and
`Truths`, for the earlier ones are exactly those whose results are still under way; a
result or a permanent error is a `Settle`; everything else stutters.

`LastWriteIsLast` is not a fact about the queue alone: a batch whose answer was lost is
applied again, on top of younger ones.  `NotOvertaken` says that whatever is younger than
the last write of an account in the log was refused or still waits, so that it is sent
again as well.  A second application keeps this, as what waits is younger
than what waits no more (`Passed`); a settlement keeps it, as the result that settles a
batch reports an application after which only younger writes were applied
(`ResultsStand`), all results under way being of one connection.

**`FriendsProofs`.**  `TypeCorrect` and `SpinnerFound` are parts of one inductive
invariant, `Inv == TypeOK /\ SpinnerOnScreen /\ ClosedScreens`.  Types alone are not
inductive: `removeSpinner` subtracts an overlay from whatever screen `vSpinner`
names, and the count stays natural only because that screen has one; and a screen
that is closed must have no overlay left that a completion could find, which is
`ClosedScreens`.  `FriendshipAsked` needs to know, beyond the server, why a friendship
can be on its way.  `AskedInv` says of every queued batch that nobody puts a request
into their own collection and that every acceptance in it answers a request
(`QueuesAsked`); of every row, user document being fetched and recognizer kept
by a reused cell that its requester has asked (`RowsAsked`); and that a user's
page shows no buttons to its owner (`OwnPageHidden`).  The theorem therefore
covers what the runs cannot: any number of requesters sharing one cell.

`FriendshipKept` rests on `Shaped`: the oldest batch of every outbox is one step of
`Friendship` for its writer, whatever the documents are by the time it is applied.
What a batch puts and deletes is fixed when it is made, so this is an induction over
the queue; the one guard that a batch does not carry itself, that an acceptance answers a
request, is `AskedInv`.

`TitleIsHonest` needs to know where a title comes from.  `Backed` says so of every page
whose first listener is still there: each title names the delivery that it rests on, or
a listener that has yet to deliver and will overwrite it.  The listeners leaked by
earlier callbacks count like any other.  When the page is settled, nothing is due, and
what was delivered is what the viewer reads.

**`MessagingProofs`.**  `LatestInLog` speaks of the server only.  `Queues` adds that in
every outbox a row comes after the log copy it speaks of, unless that copy has
already been answered, and that no queued batch deletes from a log.  The order
of the four writes of `sendMessage` is what the lemma `Sending_sendMessage`
uses; with two of them swapped it has no proof, and the run has a counterexample.
`CopiesKept` says of each copy of a message that it is stored, was refused or is
still in the sender's outbox; that nothing on its way deletes one is in `Queues`.

`InboxIsHonest` speaks of the moment when no listener is due, that is, when each has
delivered last what the query finds now.  `Fresh` says what holds before: a list on the
screen has a listener that has yet to deliver, or one that delivered last what the array
holds; and `Redrawn`, that a table which differs from an array that is not empty is to be
reloaded.  The query itself is a `CHOOSE` over sequences and has a value to speak of only if
some list satisfies it.  `QueriesAreLists` proves that one does: every row speaks of a
message that was sent (`RowsSent`), the messages sent have different stamps per sender
and are finitely many, and a finite set of stamped rows has a sorted list, by taking the
least size of a set that would have none.

**`ReportProofs`.**  `Queued` says that every batch on its way puts one count with one
reason, deletes the other counts of the same user, and that its count does not
exceed the reports sent; `Asked` says the same of the count in a prompt.  A read is
covered by both cases of `Sees`.  `CountsAreExact` follows one reporter `u` of `t`:
`Standing` says which count the server will have when `u`'s queue has been applied, and
`u` reads the same one, as `Sees` includes the client's own queue.  While nobody else
reports `t` and nothing fails (`Alone`) it is the number of reports sent, and so is the
count in a prompt (`Exact`).

**`EditProfileProofs`.**  The count of a page says little by itself, because it is
compared with four while uploads are on their way.  `Total` is what it comes to: the
count, plus one for each upload of the page under way, plus four for each save whose
pictures have not begun.  Answers move units between the terms; only a save adds
to the sum and only a rejected name or a failure takes from it.  `Inv` has three parts.
`Tracked`: types, and where each save is, namely in one place at a time (`OnceEach`).
`Reckoned`: `Bounded`, the sum is at most four per save; `Watched`, a page under an
overlay has a sum of at least four, and more than four if the count is four now, so
that with nothing under way the count itself is past four, which is `OnlyPastFour`;
`Undisturbed`, while nothing has failed a page has one save under way at a time, of
which every picture is stored or on its way.  `Named`: the name of a user who does not
edit is in nobody's queue, and in no answer that called it free.  `OnlyARaceShares` has
an invariant of its own, `Contested`: once a name is on the server as one user's,
another user holds it or is past its check only if one of the two was overtaken.

**`MessageCellProofs`.**  `PreviewHonest` speaks of the empty queue, its invariant of
what every state comes to when the queue runs.  `Ends(main, c, preview[c], y)` says that
`y` is what cell `c` will show when all calls have run; `Finals`, that this is what its
listener last heard and, once no reload is to come, the message of the cell's own row or
of one that is gone, unless the row's own listener is still to be called (`FinallyShows`).
`Listed` says that the rows the list will hold are the rows there are.  `Known` says that
calls and listeners are for rows their cell was given and that `Gone` comes of deletions;
`OffAfterADeletion` needs no more.

**`SignupProofs`.**  A batch is applied long after the state it was made from, so
each property is stated of the queues as well as of the server.  `SafeBatches`: a
batch that writes a profile writes its membership, and one that takes a membership
away takes the profile away; applying such batches in any order, from any client,
keeps `Backed`.  `HonestQueues`: a queued batch makes nobody a member who has no name,
takes a name only to replace it, and the name it puts is free among those who had
signed up before.  `ScreensNamed`: a page on which one chooses is only shown to a user
who has a name, as it is pushed by the acknowledgement of the names.  `Checked`: a
name is still what was typed, and still free, at every step between the query and
the batch.  These are conditional on the user not having typed anew.

`OverlaysEnd` says that somebody is still at work for every overlay; `OverlayInv` adds
where it lies.  `removeSpinner` takes off what the global `vSpinner` refers to and
nothing else, so an overlay has an end only while it is that one: as long as
nothing fails and no names are confirmed a second time under an overlay, there is at
most one, it lies on the view the user sees, and the request that will take it off is
under way.  `MemberInv` follows a listing back to the choices it was made from.  While
nothing has failed, a listing comes after its memberships, on the server as in a queue
(`ListedQueues`), a page shows a choice only once its batch is queued (`ListedPages`), and
nothing that is queued takes such a membership back (`KeptQueues`): `changeCourse`
takes only "Pending Addition" from anybody.  Once it has been used (`ByHand`) a
listing outside the total says nothing of the university.

**`SignupFinishedProofs`.**  The listing is made from the page and the profile from the
choices, and a choice made while the listing is on its way would part them.  `StraightInv`
says why none is made by a user who neither leaves a page nor confirms twice: each such
user is `OnCourse`, with nothing under way (`Resting`), the names being confirmed
(`Asking`), or one batch under way whose answer the view on top awaits under an overlay
(`Writing`).  Then the one page shows what the profile will say once that batch has
been applied (`Truthful`), and from the listing on the user is at home or waits for it
(`ListingSent`).  That others do not interfere is `OwnQueues`: what a signer queues writes
the signer's own profile and listings.  Other users may leave, retry and overlap as they
like; only failures and `changeCourse` are excluded for all.

**Model-checked only.**  Liveness under fairness (`WritesSettle`, `TitleConverges`,
`RequestSurfaces`, `RowArrives`, `MessageShown`, `TryingAgainEnds`) and the findings, which are
counterexamples, belong to TLC.  Every invariant of the passing runs is
proved.

## 6. What is not modelled

* One's own profile, search pages and lists of friends only read; what can go
  wrong there goes wrong in one step (three more pictures at every snapshot, a tap
  on a filtered row) and is listed among the hazards where the code has it.
* Closest universities and related courses (`ClosestUnis`, `RelatedCourses`) are
  reached only from `HomePage 2.swift`, a stale copy that nothing opens.
* Log-in, log-out and the forgotten password are single requests to Firebase Auth.
* Home and posting have sample data and store nothing.  `AppDelegate`,
  `SceneDelegate`, cells other than the message row, zooming and the input bar are
  glue and layout.
* Of `Pods`, everything but the write path of `FirebaseFirestore`: gRPC, BoringSSL,
  Protobuf, LevelDB, Abseil, the other Firebase SDKs and the user-interface
  libraries are vendored in full, make up almost all of the repository's lines and
  have no behaviour of this program in them.  Of Firestore itself the watch stream,
  queries and their cache, transactions, garbage collection and several clients on
  one database are left out.
* Firebase's and Algolia's services are outside the repository; the security rules
  of the database are not in it either, so every write may be refused.

Within the modelled components, what is left out is named in section 4 and in the
notes of `PROJECT.json`.

## 7. Plan

Done, in this order: `Friends` with `Friendship`, `FriendsProofs`; `Messaging`,
`MessagingProofs`; `EditProfile`, `EditProfileProofs`; `Report`, `ReportProofs`; `Signup`, `SignupProofs`,
`SignupFinishedProofs`; `MessageCell`, `MessageCellProofs`; `WriteQueue`, `FirestoreClient`, `FirestoreClientProofs`.

1. **The app over `FirestoreClient`**: `Messaging`'s four writes per message with
   batches that may be applied twice, to see which of its properties depend on
   their being applied once.
2. **The watch stream** of the SDK (`watch_change_aggregator`, `remote_store`), with the
   target ids and resume tokens that the app's leaked listeners keep alive.

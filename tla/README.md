# HikakuKun in TLA+

HikakuKun ("comparison kun") is an iPhone app that keeps tables comparing
things: a *group* has a title, up to seven *items* (rows), up to four or five
*compared things* (columns) and a memo for each thing.  The groups are stored
with Realm, edited in `CompareMainVC` and listed in `ViewController`.  The
repository contains Realm's *Object Store* as well, the C++ library under
`HikakuKun/Pods/Realm/Realm/ObjectStore` that the app is built with: sync
sessions, users, file actions and change notifications.

This directory models the control of both: what the app stores and shows when a
database call fails, the process is killed or an ad comes between the user and a
message; and what the Object Store's threads, locks, callbacks, restarts and
merged changes can do to each other.

App paths below are relative to `src/HikakuKun/HikakuKun/`, Object Store paths to
`src/HikakuKun/Pods/Realm/Realm/ObjectStore/src/`.

## The system

### The app

| part | code | state | operations |
|---|---|---|---|
| database | `RealmClasses/*.swift` | rows `CompareItemRealm` (one per group) and `CompareContentsRealm` (one per thing, `id` 0 to 4) | `getMaxGroupId`, `getItems`, `getContentsList`; the two controllers write |
| list | `Scenes/ViewController.swift` | `displayList`, `groupIdList`, the alert in front, the row a confirmation is about | load and `callBack`, add, select, delete with its confirmation, how-to |
| editor: saving | `Scenes/CompareMainVC.swift` | `groupId`, `colNum`, the ad object, what is presented, where `saveData` is | `viewDidLoad`, add a column or a row, save (update or insert), ad loaded and closed, back |
| editor: texts | the same | the 53 fields, `rowNum`, `colNum` | which texts are read, kept, restored, written |
| app | `AppDelegate.swift`, `SceneDelegate.swift` | the process, the screen in front | launch |

The controllers share nothing but the database.  The list creates an editor with
a `groupId`, a `rowNum` and a `callBack`; the editor writes to the database itself
and calls `callBack` after it has been dismissed, which reloads the list.  All
handlers run on the main thread.  What makes the app hard is therefore not
parallelism but

- copies that go stale: the list's arrays, the editor's fields, `rowNum` and
  `colNum`, all derived from the database at one moment and used later;
- several steps that are meant as one: an insertion commits one transaction for
  the item and one for every column, a deletion changes the screen first;
- failure and death between those steps: any Realm call can throw, the process
  can be killed, and unwrapping nil kills it too;
- one presentation slot for an ad, an alert and a screen: whoever asks second is
  dropped by UIKit.

The app supports landscape orientation on iPhones only, where a presented
controller covers the screen: no swipe dismisses the editor past its back button,
and the width, hence the limit of columns, does not change while the app runs.

### The Object Store

| part | code | state | operations | hard because |
|---|---|---|---|---|
| sync session | `sync/sync_session.cpp` | its state (inactive, waiting for a token, active, dying), the core session, queued waits, deferred close and commit, death count | revive, token, close, log out, reconfigure, wait, commit, every kind of error, client resync | user threads and the event loop take `m_state_mutex` in turns, and `advance_state` releases it under its caller |
| registry of sessions | `sync/sync_manager.cpp`, `sync/sync_user.cpp` | `SyncManager::m_sessions`, the user's `m_sessions` and `m_waiting_sessions`, external references | get, drop and unregister a session, log in and out, end of the event loop's work | two locks that are taken in both orders, weak references, checks that are stale when used |
| metadata and start | `sync/impl/sync_metadata.cpp`, `sync/sync_manager.cpp` | user rows and file actions of the metadata Realm, the Realm files, the recovery directory | `configure`'s loops, `run_file_action`, log in, log out, client reset, permission denied | every change is a commit or a file operation of its own, and the process may end after each |
| notifications | `impl/collection_notifier.cpp`, `impl/realm_coordinator.cpp`, `impl/results_notifier.cpp`, `shared_realm.cpp` | notifiers, their callbacks and versions, packaged changes, the version to be skipped | register, remove, suppress, the worker's passes, package, deliver, write (also inside a callback) | a worker, a target thread and other writers hand versions over to each other |
| changes of collections | `collection_notifications.cpp`, `impl/collection_change_builder.cpp`, `impl/list_notifier.cpp`, `index_set.cpp` | deletions, insertions, modifications and moves of a pass and of all passes not delivered yet | each operation of a list, recalculation for results, merge, finalize | positions shift with every operation, and passes are merged any number of times |

The registry hands sessions out and closes them; a session's errors write the
metadata; the next start reads it.  A session's commits and a notifier's versions
both come from the commits of a Realm.  These parts meet in the modules below
where one reads what another writes: `SyncRegistry` has the session's states (with
what decides its life only), `SyncSession` has the external reference and the two
steps of `get_session`, `SyncMetadata` has the member state of users and the paths
whose sessions are live.

Not modelled, with the reason for each, is everything in the last section.

### What makes each part correct

- database: no group twice, columns 0, 1, 2, ... without a gap and only below an
  item, whatever was interrupted; a saved group appears whole, grows, and leaves
  whole.
- list: a row's index is valid in both arrays; the list shows what is stored when
  it comes to the front; a row opens and deletes the group it shows (it does not:
  see the findings).
- editor, saving: what the user is told of a save is true and is told; a save
  stores all columns on screen, and all stored columns are on screen; nothing
  unwrapped is nil.
- editor, texts: a text that was on screen when it was saved is stored, stays on
  screen, and is there again when the group is opened.
- sync session: commits are announced; a queued wait has an operation that will
  call it, and is called once it is over; a resync is transparent; a dying session
  uploads what it was closed with.
- registry: one session works on a file at a time, it is the registered one, and
  sessions are open for exactly the users who are logged in; no cycle of waits.
- metadata: a backup that was announced exists; a start carries out what is
  pending; users are found as the application left them.
- notifications: the changes a callback is told lead exactly from what it knew to
  what its Realm shows; nobody waits in vain.
- changes: deletions and insertions rebuild the rows; moves and modifications are
  true of the rows before and after.

## Modules

| module | what it models |
|---|---|
| `CompareRealm` | the app's database: `items`, `contents`, the queries, each write as one committed transaction; every call may throw (`faults`) |
| `Presentation` | UIKit's rule that a controller presents one thing |
| `HikakuList` | `ViewController`: `Reload*` is `viewDidLoad`, `AddNewThrows` and `SelectThrows` the failing taps, `DeleteTap`, `DeleteNo`, `DeleteYes*` the swipe and its dialog |
| `CompareMain` | `CompareMainVC` without texts: `OpenEditor` and `Rebuild` are its `viewDidLoad`s, `SaveUpdateWorks` the update, `SaveInsertItem` and `SaveInsertColumn` the transactions of an insertion (`pc`, `nextCol`), `FinishSave` what `saveBtnDidTap` does after `saveData`, `AdLoaded` and `AdDismissed` the ad SDK's calls, `BackTap` and `DismissDialog` the dialogs |
| `HikakuApp` | the composition: which screen is in front, launch, kill, trap; one action per handler; the properties, the inductive invariant, the refinement |
| `Notebook` | the abstract specification of the app: a partial function from groups to numbers of things, created whole, growing, removed, torn only by an incident |
| `CompareCells` | the texts of one group, in the database (`db`) and in the fields; `Reads` is `viewDidLoad`, `RowsOf` the row count of `didSelectRowAt`, `RestoredRows` is `backupData` and `restoreData`, `Written` is `saveData` |
| `SyncSession` | one `SyncSession`, an action per operation and lock-holding step; the core library as bags of wait operations |
| `SyncRegistry` | `SyncManager` and `SyncUser` for one path and one user, a step per lock taken or released |
| `SyncMetadata` | the metadata Realm, the start, the file actions, and a process that may end between any two of their steps |
| `Notifications` | the notifiers of one file, the worker, the target thread and other writers; a change set is the set of versions it covers; the vectors of notifiers are sets, so the order within a package is open, that of the callbacks is kept |
| `IndexSet` | the sets of positions the changes are made of: shift, unshift, insert, erase |
| `CollectionChanges` | `CollectionChangeBuilder` on lists and on results, pass by pass, with the merge into what has not been delivered |
| `HikakuAppProofs`, `NotebookProofs`, `CompareCellsProofs`, `SyncSessionProofs`, `SyncRegistryProofs`, `SyncMetadataProofs`, `NotificationsProofs`, `CollectionChangesProofs` | the proofs |
| `MC*` | the instances TLC checks: symmetry, and the cells of `CompareCells` |

Definitions whose comment starts with *Mutant* are not part of a specification:
each is a definition of the same module with a bug put in, against which a
property has been tried.

### How the state corresponds to the code

App.

- `items` is the sequence of the `groupId`s of all `CompareItemRealm` rows, in
  insertion order, which is the order of a query; `contents[g]` is the sequence of
  the `id`s of group `g`'s columns in that order.
- `displayList[r]` is the group whose title and names the text of row `r` shows.
- `presented` and `listAlert` are what UIKit presents; they start as `"none"`.
  While something is presented the controller below takes no touches.  An ad that
  is ready is presented before `saveData` runs, so the ad wins the slot.  From
  `viewDidLoad` the view may not be in the window yet, so presenting there may or
  may not work: both outcomes are allowed.
- `lastSave` and `answered` observe the editor for the properties; nothing reads
  them.  `screen = "off"` means that the process does not run; everything but the
  database is reset then.
- In `CompareCells` a cell is `<<row, column>>`, row 0 for title and names, row 8
  for memos, column 0 for the item names; `id` n is column n + 1.
- `CompareMain` and `CompareCells` describe the same saves at two levels: the first
  knows the steps of a save, the ads and the other groups but no texts, the second
  the texts of one group, with a save as one step that may stop half way.

Object Store.

- `SyncSession`: `state`, `session`, `connection`, `queue`, `deferredClose`,
  `deferredCommit` and `deathCount` are the members of the same names.  `loop` is
  what the event loop thread still has to do for the error it handles, because
  `handle_error` releases the lock between its steps.  `coreWaits` are the wait
  operations of the core session, `staleWaits` those of destroyed ones, which are
  aborted some time later.  A version is a commit; `announced` is what the core
  session has been told of and `uploaded` what the server has.
- `SyncRegistry`: `thread[t]` says where a thread is inside `get_session`,
  `log_out`, `update_refresh_token` (`log_in`), `did_drop_external_reference` or
  `unregister_session`; `fresh` and the place `peek` are the external references
  that the code itself holds for a moment.  A session's own lock is never held
  while another one is awaited, so it is no variable.
- `SyncMetadata`: `actions` and `row` are the two tables of the metadata Realm; a
  user has one Realm, whose path is the local uuid; `file[p]` is the number of the
  file at path `p`, `recovery[n]` the file at recovery path `n` or `Partial`.
  `phase` is the loop of `configure`, `run` the call of `run_file_action`; a user
  row is written and its token set in two commits (`logging`).
- `Notifications`: `sg` is `m_sg_version`, `rows` the version of
  `m_previous_rows`, `accumulated` and `toDeliver` the two change sets of a
  callback, `skipVersion` is `m_notifier_skip_version`, `worker` where
  `run_async_notifiers` is, `thread` what the target thread is doing.  Every commit
  is taken to change every collection.
- `CollectionChanges`: `start`, `middle`, `rows` are the rows when the callback was
  last called, when the notifier last ran, and now; `pass` is the notifier's
  `m_change`, `whole` the callback's `accumulated_changes`.  A row is a number, so
  that moves and modifications can be told from the rows alone.

Several variables observe behaviour for the properties and are read by nothing
else.  They name exactly the interleavings under which the code breaks a promise;
the properties hold without them, and each stands for a finding below:

| module | name | what has happened |
|---|---|---|
| `SyncSession` | `strayed` | a reference was handed out while the session was closing |
| | `overtaken` | a client resync put handlers back into a session that another thread had revived |
| `SyncRegistry` | `overlapped` | a session was revived or ended while another thread was about to unregister the path |
| | `overtaken` | a session was ended or unregistered while another thread was reviving it |
| | `failed` | a session or the user met a fatal error |
| `SyncMetadata` | `overwritten` | a permission error replaced the pending backup of a file |
| | `abandoned` | the file went with the directory of its user |
| | `interrupted` | a copy to this recovery path failed or met the end of the process |
| | `adminRevived` | `set_is_admin` revived a user who had been logged out since the log-in |
| `Notifications` | `nested` | a write was begun inside a callback |
| | `miscounted` | a callback that was not in the package was removed during a delivery |
| | `hasty` | a pass of the worker delivered while the skip was meant for a later commit |
| | `overwritten` | another Realm's commit replaced the version the worker was to stop at |
| | `unwatched` | a callback was added to a notifier that had run without listeners |
| | `stranded` | the wake-up for a token was skipped or swallowed |
| `CollectionChanges` | `stranded` | a list was changed and deleted in one transaction |


## Runs

`MC<X>.cfg` is checked with module `MC<X>` (`MCStore` and `MCEditor` are two
instances of `MCHikakuApp`, `MCSyncLive` one of `MCSyncSession`); the last
three files are of properties that the code does not have.

| run | bounds | question |
|---|---|---|
| `store` | 3 groups, 4 columns, 2 failures, 1 kill | Is the database well formed after anything (`StoreIsWellFormed`)?  Do rows and arrays of the list agree (`ListIsFaithful`)?  Does the process die of itself only after an incident (`TrapsOnlyAfterIncidents`)?  Is the invariant of the proofs one (`IInv`)? |
| `editor` | 2 groups, 5 columns, 2 failures, 1 kill | Is what the user is told of a save true, complete and told at all (`AnswersWithoutAdAreTrue`, `SavedMeansComplete`, `EverySaveAnswered`)?  Are stored columns on screen (`EditorShowsAllColumns`)?  Does the app implement `Notebook`? |
| `cells` | 5 editable cells, 2 texts, 4 columns, any number of failures | Do texts survive saving, adding and reopening (`SaveKeepsTexts`, `AddingKeepsTexts`, `OpeningShowsMostTexts`)?  What is lost of what was typed when a save fails (`FailedSavesLoseKnownTexts`)?  Which texts can be stored but hidden (`HiddenTextsAreFirstColumn`)? |
| `sync_session` | 1 upload wait, client resync, every stop policy, 1 commit, 1 error, 2 deaths, at most 3 of waits, commits, errors and deaths together, 1 abandoned wait at a time | Is the core session there when the state says so, and told of every commit (`SessionMatchesState`, `CommitsAreAnnounced`)?  Does the state move along the arrows of the code's comment (`MovesAlongArrows`)?  Are waits registered, and neither dropped nor cancelled by a resync (`QueuedWaitsAreRegistered`, `WaitsAreNotDropped`, `ResyncIsTransparent`)?  Does a dying session upload first (`DyingUploadsFirst`)? |
| `sync_live` | 1 upload wait, no errors, policy `AfterChangesUploaded`, 2 of waits, commits and deaths together | Is a wait called at last (`WaitsEnd`), and is a dying session closed or revived at last (`DyingEnds`)? |
| `sync_registry` | 3 application threads and the event loop, 3 sessions of one path, 8 calls, every stop policy | Is the session that works on the file the registered one (`RunningIsRegistered`)?  Are sessions open for a user who is logged in only (`SessionsFollowUser`)?  Which waits for locks can be circular (`CyclesAreKnown`)? |
| `sync_metadata` | 2 users, 2 uuids, 2 recovery paths, 2 files, 2 crashes; 2.6 million states | Is what a client reset promised to keep kept (`PromisedCopiesExist`)?  Does a start leave no action but those that cannot be carried out (`StartsCarryOutActions`)?  Are users found as they were left (`UsersOutliveTheProcess`)? |
| `notifications` | 1 notifier, 2 callbacks, other Realms of the process with no notifiers or with notifiers nobody listens to, 3 versions, writes inside callbacks in behaviours with no other incident before | Do the changes a callback is told lead from what it knew to what its Realm shows (`ChangesFit`)?  Does somebody who waits for the worker get woken (`WaitersAreWoken`), is news announced (`NewsWillCome`), do the code's assertions hold (`AssertionsHold`)? |
| `collection_changes` | lists of up to 3 rows, 5 operations, 3 passes; results of up to 4 keys, 2 passes; 275 000 states | Do deletions and insertions lead from the old rows to the new ones, however operations and passes are merged (`ChangesRebuildRows`)?  Are moves and modifications true of the rows (`MovesAndModificationsAreTrue`)? |
| `deletes_row_shown`, `upload_waits`, `without_notifying` | as small as shows the case | the findings below |

### Why the bounds are enough

- App.  Two groups are needed for one to be wrong while another is right, three
  for a second deletion to hit a stored group behind a removed one; the columns
  have their real limits, 4 and 5.  One failure shows what it leaves, the second
  lets the next save fail too; one kill does what any number does, as only the
  database outlives it.  Group ids are handed out up to `MaxGroupId`; deleting
  makes them available again, so creating and deleting can go on for ever.  The
  cells that can be edited are one of each kind the code treats differently (item
  1's name, a text of item 1, the first column below, a later column in a row
  `restoreData` miscounts, a memo); all texts but the empty one are treated alike.
- `SyncSession`.  A wait is queued, registered, aborted and retried without regard
  to the others, but for the queue being empty or not: one wait shows every path of
  it, `upload_waits` has the second one that is answered by the first.  One commit
  tells "announced" from "not announced".  Two deaths are the fewest that let the
  first one's upload complete during the second.  `MaxIncidents` bounds waits, commits,
  errors and deaths together; what comes in between (references, tokens, log-outs,
  revivals, reconfigurations) is not bounded.
- `SyncRegistry`.  A cycle takes two threads and the third is the one that changes
  what they have checked; three sessions let one be replaced while its predecessor
  is still running and be replaced again.  The threads and the sessions are
  interchangeable: symmetry.
- `SyncMetadata`.  Two users are one that is found wrong beside one that is right;
  two recovery paths and two files let a path be reset twice; the first crash
  interrupts a file action, the second its repetition.  Every bound counts things
  that are never used again (uuids, recovery paths, files, crashes).  The theorems
  hold for all of them.
- `Notifications`.  One notifier suffices, because notifiers share versions and the
  worker but not callbacks; two callbacks are one that removes, adds or is
  suppressed, and another.  Three versions are the one a callback knows, one the
  worker is at, and one it has yet to reach.  The callbacks are interchangeable.
- `CollectionChanges`.  Three passes are two merged ones and a third merged with the
  result.  Every operation acts on at most two positions of a pass; three rows have
  one before, between and behind them.  Keys are numbers, so the longest common
  subsequence of up to four keys sees every relative order.

`CHECK_DEADLOCK FALSE` stands where behaviours end for good: `Notifications`,
`SyncMetadata` and `CollectionChanges` stop when their bounds are used up (the last
also when the list is deleted), `SyncRegistry` stops moreover where the code itself
does, in a cycle of locks or at an assertion; `CyclesAreKnown` is the property that
says which cycles those are.  Everywhere else TLC looks for deadlocks.  Symmetry is
used for safety properties only.

### Fairness

- `WaitsEnd` and `DyingEnds` need of `SyncSession` that the event loop runs what is
  due: weak fairness of `HandlerStep` (the rest of an error handler that has begun), of
  `HandleReconnect` (the binding is asked for a token again) and of `AbortsWait` for
  waits of destroyed sessions.  They need strong fairness of `TokenArrives`, `Connect`,
  `Upload` and of the completion of waits in either direction and of the death wait,
  because log-outs and deaths disable these again and again: the binding gets a token at
  last if it keeps being asked, the server can be reached, and the client reports what
  is complete.  These are assumptions on the server and the network.
- Users, applications, ads and the system owe nothing, and nothing is assumed of
  them.

## Findings

`PROJECT.json` quotes the lines.  Three of them are shown by a run that TLC refutes;
the others are cases that a property of a passing run has to exclude by name.

The app:

1. A deletion shortens `displayList` but not `groupIdList` (`ViewController:395`):
   the next deletion at or below that row deletes another group (run
   `deletes_row_shown`), and a tap opens another group than the row shows (207).
2. An insertion that stopped early leaves a group that opens, and whose next save
   unwraps nil (`CompareMainVC:951`).
3. After an ad the app says 保存されました even if saving failed (1285).
4. If an editor's first queries throw, `viewDidLoad` unwraps nil results after
   asking for the alert (155).
5. Row 1's texts in columns 1 and 2 are not read when item 1 has no name (156), and
   a row with a text in the first column only is not on screen when the group is
   reopened (`ViewController:215`): the next save overwrites these texts.
6. Adding a column with five or more rows loses the unsaved texts of the last row
   (`restoreData`, 1488).

Sync:

7. A wait for uploads can be answered by the operation of an earlier wait, which does
   not cover the commits in between (`sync_session.cpp:838`; run `upload_waits`).
8. A client resync puts the handlers back without the lock, possibly into a session
   that another thread has made active: nobody calls them (483).
9. `get_session` revives a session before it references it, and can hand out one that
   is being closed (`sync_manager.cpp:465`).
10. `log_out` and `get_session` take the two locks in opposite orders
    (`sync_user.cpp:163`); `unregister_session` can be left with the last reference
    and wait for itself (`sync_manager.cpp:502`).
11. Two threads that end a session both unregister it, and the second one fails the
    assertion (497); a session can be revived for a user who has just logged out
    (`sync_user.cpp:222`).
12. A copy that failed or was interrupted leaves a file at the recovery path, and no
    later start carries the client reset out (`sync_manager.cpp:186`).
13. `permission_denied` replaces the pending backup of a file by its deletion
    (`sync_session.cpp:548`).
14. `set_is_admin`, called after `get_user` has returned, takes a log-out back
    (`sync_user.cpp:190`).

Notifications:

15. `skip_next` is consumed by whichever pass hands over next, also one that began
    before the commit that was not to be told (`collection_notifier.cpp:425`; run
    `without_notifying`).
16. `remove_callback` decrements the count of packaged callbacks for a callback that
    was not packaged (239).
17. A callback that is added while others are being called has to wait for the next
    commit (215), though its documentation promises the initial results.
18. A write begun inside a callback discards changes or swallows another Realm's
    (`realm_coordinator.cpp:1029`).
19. A list that is changed and deleted in one transaction keeps its insertions next
    to the deletions (`list_notifier.cpp:76`).

Of the longest common subsequence, line 487 of `collection_change_builder.cpp` compares
`m.i + m.size` with `end2` where `end1` belongs, and line 450 counts from `best.j`
what it takes as the end of the block.  Both cost minimality only, which nothing
promises; the changes still lead from the old rows to the new ones.

## Proofs

TLC checks small instances; the theorems hold for every value of the constants.

### The app

`HikakuAppProofs` proves, for every number of groups, failures and kills and
for both widths, from nothing but the four assumptions on the constants:
`TypeCorrect`, `DatabaseWellFormed`, `SavesAreComplete`, `EditorShowsAll`
(`EditorShowsAllColumns`), `TrapsNeedIncidents`, `SavesAreAnswered`, `ListIsConsistent`.  All follow from `InvariantHolds`.

The invariant `IInv` conjoins the properties with what makes them inductive:

- `InsertionProgress`: inside the loop, the item and exactly the columns
  `0 .. nextCol - 1` of the group are stored.  Without it a column transaction
  could break `ColumnsArePrefix`, and `SavedMeansComplete` would not follow at
  the end of the loop.
- `TornOnlyAfterIncidents`: a group with fewer than two columns, but for the one
  being inserted, means that a call failed or the process was killed.
  `TrapsOnlyAfterIncidents` needs it at `SaveCrashes`.
- `EditorShowsAllColumns`: `colNum` is never below the number of stored columns, so
  an update adds exactly the columns that are missing.
- `NoOrphanColumns`: an insertion starts from no columns; this is where the deletion
  of item and columns in one transaction counts.
- `AnswerPendingUnderAd`: the only reason for a missing answer is an ad in front.

Each action has a lemma; actions of the same kind share one about what they leave
alone (`QuietListStep`, `QuietEditorStep`, `InEditorStep`, `FinishSaveStep`).
Two lemmas on the rows of the database come first: what `RemoveAt` leaves (from the
library's theorems on concatenation) and the maximum that `getMaxGroupId` finds (a largest element exists
because the ids are bounded).

`NotebookProofs` proves the refinement, `AppImplementsNotebook`, and
`AnswersAreTrue` (`AnswersWithoutAdAreTrue`) from the same invariant.  A step that
leaves the database alone is a stutter of the notebook, or its `Incident` when a call
fails or the process is killed (`QuietBookStep`, `IncidentStep`, `CallStep`); an
incident in the insertion loop is the one that puts a torn group into the notebook,
since a group is not in it while it is being inserted.  `InsertBookStep` (the item, a
column that is not the last) is a stutter, and the last column is `Create`, with at
least two things by `InsertionProgress` (`ColumnBookStep`); an update is `Grow` or a
stutter, by `EditorShowsAllColumns` (`UpdateBookStep`); a deletion is `Remove`
(`DeletionBookStep`).

### The texts of the cells

`CompareCellsProofs` proves, for any numbers of things and rows and any set of texts:
`TypeCorrect`, `OnlyFirstColumnHides` (`HiddenTextsAreFirstColumn`), `SavedTextsAreShown`
(`SaveKeepsTexts`), `FailedSavesLose` (`FailedSavesLoseKnownTexts`), `AddingLosesOneRow`
(`AddingKeepsTexts`) and `MostTextsAreShown` (`OpeningShowsMostTexts`).  The invariant `IInv` says of the database that texts are
stored only for columns that are there (`Stores`) and of an open editor
(`EditorShows`) that all stored columns are on screen, that fields off the screen are
empty (`BlankOutside`), and that a row is off the screen only if it has a text in the
first column only (`HidesFirstColumn`): the row count of `didSelectRowAt` looks at the
other columns.  `ShowStep` proves it of whatever loads the view, `WrittenIsStored`
says what a whole or half save leaves in the database, `RowsRestored` what the
miscount of `restoreData` loses, `MissingColumnsRead` what the view shows of columns
that a failed save has not stored.

### The sync session

`SyncSessionProofs` proves, for any set of waits, any number of commits, errors and
deaths: `TypeCorrect`, `SessionsMatchStates`, `NoCommitIsForgotten`
(`CommitsAreAnnounced`), `QueuedWaitsWillBeCalled` (`QueuedWaitsAreRegistered`),
`ResyncsAbortNothing` (`ResyncIsTransparent`), and of every step: `ArrowsAreComplete`
(`MovesAlongArrows`), `DeathsUploadFirst` (`DyingUploadsFirst`), `NoWaitIsDropped`
(`WaitsAreNotDropped`).  `IInv` has two halves:

- `SessionInv`, about the session.  `CommitsOnTheirWay` strengthens
  `CommitsAreAnnounced`: in every other state a commit is remembered for the state to
  come.  `RegistrationsAreCounted`: what was registered with a core session before a
  resync has a lower count than what was registered after it.  `DeathsAreCounted`:
  the upload that the current death waits for covers all that was there when it began;
  those of earlier deaths have lower counts and cannot end it.
- `ThreadInv`, about the event loop between two of its steps: which program it may be in
  (`Programs`), that a resync follows an error (`ResyncsFollowErrors`), where the
  waits are that were set aside (`AsideDuringResync`), that a session that closes
  has no reference (`ClosingIsUnreferenced`).

Each `enter_state` has one lemma (`EnterInactiveStep`, `EnterWaitingStep`,
`EnterActiveStep`, `EnterDyingStep`, `ReviveStep`) that the actions which end in that
state share; `BagOfBoth` and `BagWithout` are the facts about bags of operations.

### The registry

`SyncRegistryProofs` proves, for any sets of threads and sessions: `TypeCorrect`,
`DeadlocksAreKnown` (`CyclesAreKnown`), `SessionsAreOwned` (`RunningIsRegistered`),
`SessionsFollow` (`SessionsFollowUser`).  `IInv` is made of three parts:

- `Locking`: which lock a call holds where, and that whoever has a lock is in a call
  that releases it.  The two known deadlocks are what it leaves possible.
- `Ownership`, as long as nobody overlapped or was overtaken: what threads open or end,
  what the application refers to and what runs is the registered session; one thread
  ends a session at a time, and what it unregisters is inactive.
- `Following`, as long as there was no error besides: what is online or about to be is
  what the user has in its map; a session that is wanted (referenced, or about to
  be) is online and not to be closed, or about to be; while the user is logged out,
  it is the one that waits for the user.

`InactiveStep` is shared by everything that ends a session, `SettledStep` by every
`close` that does not, `QuietStep` by what cannot disturb `Following`.

### Metadata and start

`SyncMetadataProofs` proves, for every set of users and every number of uuids,
recovery paths, files and crashes, assuming only that the four bounds are natural
numbers: `TypeCorrect`, `PromisesAreKept` (`PromisedCopiesExist`),
`StartsAreComplete` (`StartsCarryOutActions`) and `UsersAreRemembered`
(`UsersOutliveTheProcess`).  The inductive invariant `IInv` of that module has three
strands:

- Users.  `PhasesApart` keeps the start, the application and the calls of
  `run_file_action` apart; `StartSplitsUsers` says that the start puts the rows that
  are marked and those that are not into different work lists; `RowsFollowMembers`
  that whoever is logged in, or about to be, has a row.  Together they carry
  `UsersOutliveTheProcess` through the two commits of a log-in.
- Copies.  `FilesAreDistinct`: no file is at two paths, so removing one loses one.
  `NamesAreDistinct`: no two actions share a recovery path.  `RunIsOnItsWay`: when the
  original is removed, the recovery path holds a complete copy of it.
  `CopiesAreAccountedFor`: a recovery path that is taken belongs to an interrupted
  copy, to the run under way, or to an action whose original is gone; otherwise
  finding it taken would mean losing the file.  `DeletionsAreAllowed`: a file whose
  copy was promised is deleted without one only after a permission error.
- Starts.  `StartProceeds`: what the first loop of `configure` has left behind is
  about to be removed or was interrupted.

Here too every action has a lemma.  `run_file_action` succeeds in three places (no
file, deleted, copied and removed); what follows depends on the caller only, and
`ReturnsTrueStep` proves it once.

### Notifications

`NotificationsProofs` proves, for any sets of notifiers and callbacks, any number of
commits and incidents, and assuming only what `NotificationsAssumption` says of the
bounds and of the other Realms: `TypeCorrect`, `WaitersWoken` (`WaitersAreWoken`),
`NewsComes` (`NewsWillCome`), `Asserted` (`AssertionsHold`), that all notifiers of a
package have one version (`PackagesHaveOneVersion`: the code takes `m_version` from
whichever was packaged last), and of every step `ChangesAlwaysFit` (`ChangesFit`).
All follow from `Invariant`, which says that `Safe` always holds.  TLC has checked
`Safe` on small instances before.  It has four parts:

- `Core` holds in every behaviour.  `Tokens`: a token is in the list of one notifier,
  once.  `Lists` and `Passes`: which list a notifier is in tells whether it has run; a
  pass of the worker has all of the older list and takes no notifier back.  `Skips`:
  there is something to stop for, and it is ahead of the pass under way.  `OneVersion`:
  notifiers that have run have the same version.  `Runs`: a notifier that is behind the
  file is in the pass under way or the worker has been woken; with `Waiting`, which says
  that whoever waits has packed every notifier there is, it carries `WaitersAreWoken`.
  `Calling`, `Writing` and `Counted` say where the index and the count of the package
  are while user code runs, which may write, add and remove.
- `News`, as long as no callback was miscounted: a callback that has not been called,
  or has changes, is on somebody's way, and if that is only the package under way, then
  it was packaged with its changes and the iteration has yet to come to it (`Hears`).
  `NewsWillCome` itself is not inductive: it would allow an iteration that has passed
  the callback.
- `Compared`, as long as nobody began to listen to a notifier with stale rows: the rows
  are those of the notifier's version, or of the version that the pass under way will
  give it, and the changes of a pass lead from the one to the other (`RowsOf`,
  `ChangeOf`).
- `Fits`, as long as there was no incident at all, has two cases for a callback that
  knows of a version.  If its turn in a package is still to come (`DueFits`), what was
  packaged leads to what the Realm shows, and what the worker has added since leads on
  from there.  Otherwise (`RestFits`) nothing is packaged, and what has been handed over
  leads from what it knows to the version of its notifier, less what it is to be spared.
  `Carries`: a package never lags behind its Realm.  `Spared`, `Marked` and `Written` are
  about suppression: whoever is to be skipped has no changes waiting, and the next
  version its notifier gets is the one to be skipped, because the worker stops there.

`ChangesAlwaysFit` is then `ToldOnce`: of all steps only `CallNext` gives changes up
without removing the callback, and it takes those of `DueFits`.  Each of the five incidents
is an exception in exactly the part of the invariant that it breaks; that it breaks
it is what the findings say.

### Changes of collections

`CollectionChangesProofs` proves `ChangesAreTrue` (`ChangesRebuildRows`) and
`MovesAndModificationsHold` (`MovesAndModificationsAreTrue`) for any numbers of rows,
operations, passes, keys and runs, assuming only that these bounds are natural numbers.
The first proof is about one relation between rows before, rows after and a set of
changes: `SoundBuilder` says that the rows that are not reported are the same in the
same order (`Same`), that every move takes one row from a deletion to an insertion
(`Follows`), and that no two moves take the same row (`Apart`).

- `IndexSet`: `Shift` and `Unshift` are inverse and keep the order, which is a matter
  of counting (`CountOrder`, `ShiftOf`, `ShiftBack`).  That a row that is left has as
  many rows that are left before it on both sides (`SameRank`, a bijection of finite
  sets) makes `Shift` after `Unshift` find it on the other side (`Partner`).
- The operations of a list: `InsertSound`, `EraseSound`, `MoveSound`, `SwapSound`,
  `SetSound` and `ClearSound` say that each keeps `SoundBuilder`; `PutIn`, `TakeOut` and
  `Reported` are the three ways in which they change what is reported.
- `CleanSound`: a move that `clean_up_stale_moves` takes for a no-op may be dropped with
  its deletion and insertion (`Restored`), also after others have been dropped.
- `MergeSound`: changes from a first to a second stage and from the second to a third
  become changes from the first to the third.  `Composed` is about deletions and
  insertions (`Before` and `After` translate positions between the stages).
  `UpdatedSound` is about the old moves, one by one: those that are moved on, whose
  rows are deleted, and the rest.  `NewMovesLead` is about the new moves that are left.
- `CalculateSound`: `LongestMatchIs` says that `find_longest_match` finds a block of equal
  rows within the window, which is what its two assertions say, although it may compare
  with a wrong count of modifications; `MatchesInOrder` that the matches of
  `find_longest_matches` follow each other in both lists, although line 487 asks the
  wrong question; `AlignedOrder` that the rows in matches therefore are in the same
  order.  The others are reported.

Where the code loops or recurses, the model has a recursive function.  That such a
function exists, and what its values are, is proved by taking the least argument for
which it fails (`Least`), since the induction theorems of the library cannot be used;
`CleanedExists`, `UpdatedExists`, `BestExists` and `MatchesExist` are these proofs.

The invariant `IInv` has the rows (`RowsAreRows`: no row occurs twice, which `FreshRow`
and the keys of a table give), `PassIsSound` from the rows of the last pass to those now,
`WholeIsSound` from what the callback knows to the rows of the last pass, and two parts
about the kinds: a query starts every run afresh (`RunsStartAfresh`), and only a
deleted list is `stranded`.

Moves and modifications need more, since neither is inductive as the property states it.

- Modifications (`Modified`): the modifications of a builder need not tell anything of
  the rows it inserts, and `Finalize` leaves these out.  But a row that is inserted because it was moved can become one that
  is not, when `clean_up_stale_moves` drops the move; of moved rows the changes have to
  know as well.  `Exact` are these two kinds of rows, and `Modified` says that of them
  exactly those are marked that were modified.
- `InsertModified`, `EraseModified`, `MoveModified`, `SwapModified` and `SetModified` keep
  it for the operations of a list (a swap is two moves, `SwapIsMoves`), `CleanModified`
  for the moves that are dropped, `CalculateModified` for a run of a query.
- `MergeModified`: two stages know together what was modified in either.  A row of the
  first stage is led on to the last (`Leads`) by being left or by being moved, and
  `Marking` says of the old moves, as they are brought up to date one by one, that
  the mark of a row that the second stage moves goes along.
- Moves (`AllReal`): the last step of a merge and of a pass is `clean_up_stale_moves`,
  after which none is left that could as well not be reported (`CleanReal`,
  `MergeReal`).  In the middle of a pass there may be such moves, so `MovesAreReal`
  speaks only of what is waiting.
- The model keeps one set of touched rows, and two stages are told of it.  `ModificationsAreTold`
  says that it is made of two sets, of which the waiting changes and those of the pass
  tell (`Told`); they need not be disjoint, nor need the invariant know which they are.
- `TruePromise` derives the property: with nothing in the pass, no row that is shown is
  in the second set, and `Finalize` takes the inserted rows out and translates what is
  left back to the old positions.

### Only model-checked

Liveness under fairness (`WaitsEnd`, `DyingEnds`), which is beyond the
prover, as is ENABLED.

## Not modelled

App:

- The keyboard (observers are added with object nil and removed with the window as
  object), layout arithmetic (`floor_2` and the frames), the contents of the how-to
  screen, `Common`: they decide where things are drawn and nothing else.
- Wording, fonts and colours; the time stamps, `del_flg` and the fields marked "no
  use", which nothing reads; `getMaxId`, which nothing calls; failures to allocate or
  to load images.
- The order in which `AppDelegate` and `SceneDelegate` build their lists and set
  Realm's configuration: the launch is one step.

Object Store, next to what is modelled:

- Notifications: errors of the worker, auto-refresh switched off, KVO observers,
  closed and frozen Realms, `ListResultsNotifier` and the notifier of single
  objects, changes per column.
- Changes: the chunks an `IndexSet` stores its ranges in (its operations are modelled
  as what they do to the set), lists with duplicate rows in results.  How a pass's
  result is taken over by the callbacks is in `Notifications`.
- Registry: management and permission sessions, users with an admin token,
  `reconnect()`.
- Metadata: creating, encrypting, migrating and resetting the metadata Realm itself.
  A copy that fails leaves what it has copied so far (the disk is full).  The three
  removals that delete a Realm's files are one step and do not fail.
- `Results`, `List`, `Object`, schemas, schedulers, partial sync, asynchronous open:
  thin layers over the core, or entry points to what is modelled.

Everything else under `Pods`:

- Realm core and Realm sync are headers here, the implementation is a binary.  They
  are the bulk of the C++ in the repository (query nodes, array leaves, sockets), so
  the share of all lines that these modules stand for is small; what they define in
  full are templates and inline accessors whose behaviour depends on the binary.  What
  the Object Store relies on (one writer, versions, transaction logs, sessions that
  call back) is stated in the modules that use it.
- The Cocoa and Swift bindings turn calls into calls; where one decides when the
  Object Store is called, that is in the module of the part it calls.
- nanopb, SnapKit, GoogleUtilities, PromisesObjC, the Google Mobile Ads SDK: nothing of
  the app's logic; what is relied on of UIKit and of the ads is in `Presentation` and
  `CompareMain`.

# A verification development of Novin Bartar

TLA+ models of the FastAPI/SQLAlchemy backend under `src/backend/app` and of the
session handling of the Next.js frontend under `src/frontend`, the TLC runs that
check them on small instances, and TLAPS proofs of the theorems that hold for
every instance. `PROJECT.json` lists the components, the runs, what each
definition stands for (file and lines), the finding, the hazards and the
theorems. Paths below are relative to `src/backend/app` unless they start with
`docs/` or `frontend/`.

## 1. The system and its parts

The program is a modular monolith for a holding of companies: PostgreSQL 17
behind SQLAlchemy 2 (SQLite in the tests), a REST API, and a Next.js frontend
that only calls the API. A request is one handler, run in a worker thread (the
upload handler alone is `async` and runs on the event loop), with one database
session. It ends in a commit, or in the rollback that closing the session
implies (`db/session.py`). There is no message queue and no background worker.
What is hard is that requests run at the same time, at PostgreSQL's default
isolation, with row locks in some places and plain reads in others; and, in the
browser, that tabs share cookies and answers get lost.

| component | state | operations | hard part | what makes it correct |
|---|---|---|---|---|
| Workflow definitions (`core/workflow`) | versions of a code: status, states, transitions | create, edit, publish, retire, clone | two publishers, two cloners, edits during validation | numbers 1..n; what is published is executable and never changes |
| Publish validation (`_validate_publishable`) | work list, visited states | one loop | cycles, states pushed twice | ends, accepts exactly the publishable graphs |
| Workflow execution (`core/workflow`) | instances, transition records, notifications | start, transition, cancel | two users move one instance, retries, a retirement during a start | the history is a walk; an instance ends in one way; one notification for a step |
| Documents (`core/documents`) | status, versions, files, links, access list | upload, archive, restore, link, unlink, grant, revoke | files outside the transaction, checks before the lock, crashes, the event loop | every version has its file, archived keeps its links, a restricted document keeps a manager |
| Document metadata, categories, retention (`core/documents`) | category tree, policies, review dates | create, update, move, deactivate, restore; metadata update | unlocked walk of ancestors, a policy that changes while a date is computed from it | no cycle, active below active, review date follows the dates of the document |
| HR (`modules/hr`) | positions, employments, job profiles | hire, rehire, transfer, end; create, move, activate, deactivate | no index backs "one employment", "one occupant"; the chain of superiors is walked without locks; lock order | one active employment of a person, one occupant of a position, no mutual reports, only moves deadlock |
| Suppliers (`modules/suppliers`) | profiles, representatives, notes, tags | create, edit, assign, archive, restore, tag | users edit copies that may be old; answers are read by two statements | no lost update; a version number names one content |
| Customers, commerce client (`modules/customers`) | profiles, tags, notes; HTTP calls to the shop | as suppliers; calls with retries in the middle of a request | answers come from the session and are not read again; retries, `Retry-After`, token life | a version names its columns; attempts and pauses are bounded |
| Organizations (`core/organization`) | tree with active flags | create, update, activate, deactivate | parent and children read under different locks | active below active |
| Access (`core/access`) | roles, permissions, assignments with scopes | grant, revoke, assign, activate, deactivate | "last manager" read without a common lock | an access manager survives |
| People (`core/people`) | persons, relationships | create, update, status, relationship | an assignment rests on a relationship another request ends | no assignment without its relationship |
| Identity (`core/identity`) | users, refresh sessions | login, rotate, revoke, status | rotation by two tabs, rotation for nobody | a token is exchanged once |
| Browser session (`frontend/lib`, `frontend/app/api/session`) | cookies shared by tabs, one refresh in flight for each tab | silent refresh after 401, login, logout | two tabs, lost, late and broken answers, timeouts | who may delete a usable cookie; every call ends |
| Notifications (`core/notifications`) | inbox rows | create once, mark read or unread | duplicates | one row for a key |
| Audit, search | append-only rows; none | record; query | - | recorded with the change |

Interaction is by function call inside one transaction and by rows that several
components read: workflow execution writes notifications and audit rows with its
own change; HR reads persons; documents, workflow, HR, suppliers and customers
ask the access component for permissions; everything names organizations.
Organizations, people, users, roles and assignments decide by each other's rows,
which is why one module models their administration. The browser session and the
refresh sessions meet in the session routes of the frontend server, and
`BrowserSession` composes the two.

## 2. What is modelled, and how it corresponds to the code

One rule serves all modules of the backend. A request is a record in `tx`: the
program counter `pc`, its parameters and the values its session has loaded. One
statement that another request can notice is one action, so a handler that
locks, reads and commits is three or four actions, and all interleavings of
those are explored.

- READ COMMITTED: a plain SELECT is an action that reads what is committed now.
- `with_for_update()`: an action that needs the row to be free and takes it;
  COMMIT and ROLLBACK free every lock of the request.
- Writes are flushed at the commit; flush and commit are one action, because
  nobody sees anything in between. Where what the commit writes was decided by
  reads that only a row lock protects, the reads are an action of their own
  (`Grant`, `Revoke` and `CommitAcl` in Documents).
- The session's identity map: an object that is loaded already is returned as
  it was loaded, even by a later `FOR UPDATE`, unless the statement has
  `populate_existing`. `view` (Documents) and `personSeen`, `positionSeen`
  (HrStaffing) are such values; SharedRecords re-reads because its code does,
  CustomerRecords does not because its code does not.
- A foreign key that is written locks the row it names FOR KEY SHARE, which
  waits for FOR UPDATE (`MayLock` in HrStaffing, `shares` in Administration,
  `NewReferences` in DocumentCatalog).
- `Abort`: at any point a request may be refused, be a deadlock victim, or die.

| module | models | main definitions |
|---|---|---|
| `WorkflowGraph` | the graph of a definition, `_validate_publishable` as a predicate | `Publishable`, `Executable`, `AllReachable` |
| `WorkflowDefinitions` | versions of one code | one action for each editing handler; `StartPublish`, `LockPublished`, `FinishPublish`; `CheckNoDraft`, `ReadMaxVersion`, `CloneVersion` |
| `WorkflowReleases` | the promise: a list of releases, one draft, one in force | `Draft`, `Publish`, `Retire` |
| `PublishCheck` | the reachability loop of the validation, statement by statement | `Pop`, `Push`, the verdict |
| `WorkflowInstances` | instances while versions are published and retired | start, transition, cancel with their locks, the unique key and the notifications |
| `WorkflowCase` | the promise to the user of an instance: a walk that grows until it closes | `Start`, `Move`, `Cancel` |
| `Documents` | one document, its files and access list | seven handlers (`Grant` and `Revoke` check, `CommitAcl` writes), storage writes, crashes, lost commits, the event loop (`Hosts`) |
| `DocumentVault` | the promise to uploaders: a list that only grows | `Upload` |
| `DocumentCatalog` | categories, retention policies and the metadata of documents | `LookUp` and `Walk` along the ancestors, `CheckChildren`, `CheckParent`; `ChangeFields`, `AssignPolicy`, `KeepPolicy`, `UpdateDocument` |
| `HrStaffing` | staff changes and the position tree of one organization | `StartHire`, `LockPerson`, `LockPosition`, `Hire`, ...; `MayReportTo`, `Move` |
| `SharedRecords` | supplier rows edited from copies | `Lock`, `Edit`, `Archive`, `Restore`, `Attach`, `Detach`, `Answer`, `ReadTags` |
| `CustomerRecords` (extends SharedRecords) | customer rows, notes, and the calls to the shop | `Written` with its answer; `StartCall`, `Attempt`, `Retry`, `RetryDelay`, `CreateCustomer` |
| `AccessPolicy` | the policy: scopes, effective permissions, delegation, domination, managers | `Reaches`, `EffectivePerms`, `CanDelegate`, `Dominates`, `ManagersSurvive` |
| `Administration` (extends AccessPolicy) | every change of organizations, people, users, roles and assignments | `Authenticate`, one operator for the checks of each handler, `Commit` |
| `RefreshSessions` | the refresh sessions of a user in the backend | `Login`, `Rotate`, `Revoke`, `Expire`, `Deactivate` |
| `BrowserSession` (extends RefreshSessions) | tabs, cookies, session routes, lost and late answers | `Send`, `Serve`, `ServeBroken`, `GiveUp`, `ServeLate`, `Deliver`, `Lose`, `CallDenied`, `Resume` |
| `*Proofs` | theorems of the module they are named after | `IInv`, one lemma for each action |
| `MC*` | instances, symmetry sets and initial data for TLC | |

Some choices that need a word:

- **Administration.** A request of an administrator is three actions: it is
  authenticated; it waits for its row lock and makes its checks; it flushes and
  commits. The flush locks the rows its foreign keys name, the acting user and
  the organization of the audit event among them. `overtaken` is a history
  variable: somebody has committed since the request was authenticated.
- **DocumentCatalog.** `raced` and `overtaken` play the same part for categories.
  A FOR KEY SHARE lock is taken with the commit: whoever holds one waits for
  nobody who could wait for it.
- **RefreshSessions.** The statement that locks a session names no table and
  joins user and person, so the three rows are locked together and a rotation
  or revocation is one action. PostgreSQL refuses the statement (see 3.3); the
  database of the tests does not. `refuses` is chosen once, at the start, and
  all properties of the run hold in both cases.
- **BrowserSession.** The cookie is taken when a request is sent and changed when
  its answer arrives. In between, the server of the frontend asks the backend
  and gives up after ten seconds; the backend goes on (`late`). A backend that
  cannot be reached or fails leaves the cookies alone; a rotation whose answer
  is not a token payload (cut off, timed out, malformed: `ServeBroken`) is
  answered like a refused one and clears them (`failedRefresh`). An access token
  may be rejected at any time, so a call is one action with any answer.
- **CustomerRecords.** An attempt may get any answer; its duration is left out,
  because nothing bounds it: httpx applies the timeout to each operation (pool,
  connection, write, every read). `slept` counts what the client itself decides,
  the pauses, for any delay the shop asks for.

Each component module also holds definitions that begin with "Mutant of": a
broken form of an action. They are not part of `Next`. `PROJECT.json` says
which property each of them would break; replacing the action by it makes TLC
report exactly that property, which shows that the property can fail.

## 3. The runs

### 3.1 What each run checks

| run | instance | distinct states | what it shows |
|---|---|---|---|
| `workflow_versions` | 3 rows, 2 requests that may both clone, 2 states, 1 transition | 0.47 M | versions are 1..n without gaps although two requests compute the next number; what is or was published is executable and never changes |
| `workflow_serial` | 3 rows, 2 requests of which one clones, fairness | 64 k | with one cloner: refinement of `WorkflowReleases` (one draft, one in force), and every request ends |
| `publish_check` | every draft the edit handlers can produce over 3 states and 3 transition codes | 27 k | the loop decides `Publishable` and ends |
| `workflow_instances` | 2 versions, 3 users (2 executors), 2 requests, 3 transitions | 0.70 M | history is a walk, an instance ends in one way, notifications exact, instances start from published versions, refinement of `WorkflowCase` |
| `documents` | 2 requests, 3 users, 3 roles, 2 objects, 2 versions, 2 events | 1.9 M | files and versions, access list, links of an archived document, permitted uploads, refinement of `DocumentVault` |
| `documents_archived_upload` | 1 object | violation | an archived document receives a version |
| `document_catalog` | 2 requests, 3 categories, 1 policy, 1 document, 2 dates, 2 periods, 4 changes | 0.81 M | review dates follow the dates of the document; no two categories below each other; no cycle and active below active unless requests overtake each other |
| `hr_staffing` | 2 requests, 2 persons, 2 positions, 2 employments, all operations | 0.8 M | the staff rules, no mutual reports, only moves can deadlock |
| `shared_records` | 2 users, a profile and a note of it, 2 values, 1 tag | 1.6 M | no lost update, a version names one content |
| `customer_records` | 2 users, a customer and a note of it, 1 owner, 2 tags, 2 attempts, no or a long Retry-After | 1.8 M | active and archived exclude each other; a version names its columns; attempts and pauses are bounded |
| `administration` | 2 requests, 4 organizations, 3 roles, 3 people, 3 assignments, 2 changes | 0.05 M | unless a request is overtaken: an access manager survives, active below active, assignments keep their relationship |
| `browser_session` | 2 tabs, 2 calls, 1 session, 3 tokens, 1 late request, 1 form, fairness | 0.38 M | tokens are exchanged once; the cookie keeps up; a usable cookie is deleted by a logout, a race or a broken answer only; every call ends |

**Why the bounds are enough.** Every rule here relates two requests and at most
two rows besides the one they compete for, so two requests reach each
interleaving the code has to survive; a third only repeats a role. Three
versions are what "old in force, new draft, clone" needs. Three states and
three transitions are the smallest graphs with a cycle, a state that is pushed
twice and one that is unreachable. Two positions and two employments are what a
swap needs. Two document versions are enough for a wrong number, two storage
objects for one orphan next to one live file. Three categories and four changes
build a chain and move one end of it while the other end is looked at; two dates
and two periods let a review date be wrong about either. Three transitions take
an instance around a loop and on. In `administration` the
tree has three levels, so that a scope reaches through an organization that is
switched off; a branch is switched off from the start, so that it can be
activated while the company above it is switched off, and the company can get a
depot; two administrators hold the whole tree, so that one can take the
other's access; two changes are the one that overtakes and the one that is
overtaken. Three tokens are a login and two rotations: the token a tab still
sends, the one that replaced it, and the next. Two attempts contain every kind
of step of a call; `SleepsBounded` proves the rest. Two tags let a copy differ in
one and agree in the other. The proofs remove these
bounds for the properties they cover.

`BrowserSessionLogins` looks further than its run and passes, too: two sessions,
so that a login can replace a cookie while a refresh of the old one is under
way; no late requests, safety only, 1.05 M states. In `customer_records` three
versions do not suffice for archive, edit and restore in turn; there
`CustomersTypeCorrect` is the evidence.

Bounds in guards: `MaxVersions`, `MaxEvents` (Documents), `MaxHistory`
(WorkflowInstances), `MaxVersion` for each row (SharedRecords, CustomerRecords),
`MaxChanges` (Administration, DocumentCatalog), `MaxTokens`, `MaxLate`,
`MaxForms` (BrowserSession); `MaxAttempts` is a setting of the program. The
number of rows bounds the others. At a bound the action is disabled, or the
request aborts. Deadlock is checked everywhere but in two runs: the loop of
`publish_check` does stop, and in `administration` no request begins once
`MaxChanges` are committed, and the last two administrators can switch each
other off, after which nobody can authenticate (see 3.3).

**Fairness.** `workflow_serial` uses weak fairness of each request's own
statements: a worker thread that is not waiting runs on. It uses strong
fairness of taking a row lock, because PostgreSQL grants row locks in the order
of waiting, so a request does not starve. `publish_check` uses weak fairness of
the loop. `browser_session` assumes two things of the refresh of each tab: the
frontend server gives up in time (`AbortSignal.timeout`, `frontend/lib/backend.ts`),
and an answer that is there arrives or its connection breaks. Nothing is assumed
of the backend, of logins, logouts or of new calls. No fairness of new requests
is assumed anywhere.

### 3.2 Finding

`documents_archived_upload`: the status that is checked under the row lock is the
one loaded before it, so an upload passes an archive that commits in between,
which the comment above the check says it cannot
(`core/documents/service.py:1006`).

### 3.3 Further counterexamples

Each of these is a configuration beside the runs, for the MC module of its
component, whose one property TLC finds violated.

| configuration | property | what happens |
|---|---|---|
| `WorkflowDefinitionsTwoPublished` | `OnePublished` | two clones made at the same time end in two drafts, and publishing both leaves two versions in force (`docs/phase-c1-workflow-core.md`: publishing retires the previous one) |
| `DocumentsLoop` | `RefusedAnswered` | the async upload handler waits for a row lock on the event loop, whose holder needs the loop to release it |
| `DocumentsLost` | `VersionsHaveFiles` | the file is removed when `commit()` raises, also when the server has committed |
| `HrStaffingCycle` | `NoReportingCycle` | overlapping moves of three positions close a cycle; two cannot (`NoMutualReports`, proved) |
| `AdministrationLast` | `LastManagerKept` | two requests, each locking its own row, see each other's access manager and remove both; `docs/phase-b5.6-core-write-apis.md:114` promises that one stays |
| `BrowserSessionLogout` | `LogoutRevokes` | `FOR UPDATE` over the LEFT OUTER JOINs of `joinedload` is refused by PostgreSQL, so refresh and logout fail there and a session outlives its logout; the tests use SQLite, which ignores the clause (`core/identity/session_service.py:76-78`, `docs/phase-b6.2-login-session.md:15`) |
| `BrowserSessionOutage` | `OutageKeepsCookie` | the backend rotates a token and its answer breaks off; `failedRefresh(502)` clears the cookies, also those a login of another tab has set meanwhile (`frontend/app/api/session/refresh/route.ts:50-51`), although `docs/phase-b6.2-login-session.md:47` says that "a temporary refresh-service outage is distinguished from an expired session and does not delete the refresh cookie" |
| `AdministrationTree` | `ActiveBelowActive` | an organization is activated while the one above it is deactivated: each reads the other's row without a lock |
| `AdministrationRooted` | `AllRooted` | a relationship ends while an assignment that needs it is created or enabled |
| `DocumentCatalogCycle` | `Acyclic` | two overlapping requests close a cycle of three categories: one has walked the ancestors and not yet committed while the other moves one of them |
| `DocumentCatalogDeadlines` | `DeadlinesKept` | a deadline changes although neither policy nor expiration date does: the form sends every field it shows, so the date is computed anew from what the policy says now |

Also met while modelling:

- The reactivation of an employment onto a position that was deactivated between
  its load and its lock (`docs/phase-d1-hr-foundation.md` asks for an active
  position), and an active position below an inactive one by the same pattern.
- An instance whose start raced a retirement starts from the retired version.
- The two last administrators can deactivate each other at the same moment.
- A logout that runs beside a refresh with the same token: the refresh comes
  first, the logout revokes nothing, and the answer of the refresh may set the
  cookies again after those of the logout have cleared them.
- Two tabs that refresh at the same time: the one that comes second is denied,
  and its answer deletes the cookies the first one has just received.
  `UsableCookieKept` says that nothing but this, a logout and a broken answer does
  so.
- `HierarchyKept` says that no order of requests makes two categories each
  other's parent, and that nothing but overlapping requests closes a longer
  cycle (`DocumentCatalogCycle`) or leaves a category active below an inactive
  one.
- A document whose policy or category has become inactive cannot be saved by the
  form, which sends both (`frontend`, `DocumentManagementView`).
- `attach_tag` of customers answers with the new version and the old tags, so
  the switch on the page needs a second click; `VersionNamesColumns` bounds the
  difference to the one tag.
- Nothing bounds how long a call to the shop takes: the timeout is one for each
  operation of httpx (`modules/customers/integration.py:89-91`), so a shop that
  sends its answer slowly holds the request, and the token the later attempts
  are sent with can have expired by then, under any setting. `SleepBounded`
  bounds what the client adds itself.
- A transition that is repeated because its answer was lost is applied again if
  a loop has brought the instance back to the state meanwhile: a request has no
  id by which it could be recognized.

## 4. The proofs

Every safety property of a passing run is a theorem, and so are the three
refinements: the run shows it on its instance, the theorem for any number of
requests, rows, users and values.

| module | theorems (the property where the name differs) | assumptions |
|---|---|---|
| `WorkflowDefinitionsProofs` | `TypeCorrect`; `PublishedStaysFrozen` (`Frozen`); `NumberedWithoutGaps` (`VersionsContiguous`); `PublishedRuns` (`PublishedExecutable`); `ReleasesImplemented` (`ImplementsReleases`) | `DefinitionsAssumption`, `GraphAssumption`; the refinement: at most one of the requests numbers new versions |
| `WorkflowInstancesProofs` | `TypeCorrect`; `HistoriesAreWalks` (`HistoryIsWalk`); `InstancesEndOneWay` (`EndsOneWay`); `StartersAreNotified` (`StarterIsNotified`); `StartedFromPublishedOnly` (`StartedFromPublished`); `InstancesAreCases` (`ImplementsCases`); about PublishCheck: `LoopDecidesPublishable` (`DecidesPublishable`) | `InstancesAssumption`; the loop: `PublishAssumption` |
| `DocumentsProofs` | `TypeCorrect`; `FilesAccounted` (`FilesAccountedFor`); `RestrictedKeepsManager` (`RestrictedHasManager`); `LinksFrozen` (`ArchivedKeepsLinks`); `UploadersManage` (`UploadsPermitted`); `FilesKept` (`VersionsHaveFiles`); `VaultImplemented` (`ImplementsVault`) | `DocumentsAssumption`; the last two: a COMMIT that raises has had no effect (`LostCommits = FALSE`) |
| `DocumentCatalogProofs` | `TypeCorrect`; `ReviewsFollowDates` (`ReviewFollowsDates`); `HierarchyIsKept` (`HierarchyKept`) | `CatalogAssumption` |
| `HrStaffingProofs` | `TypeCorrect`; `EmployedOnce` (`OneEmployment`); `OccupiedOnce` (`OneOccupant`); `NoTwoReportToEachOther` (`NoMutualReports`); `VacantWhenDeactivated` (`DeactivatedVacant`); `StaffLocksInOrder` (`OnlyMovesDeadlock`) | `HrAssumption`; the last: finitely many requests |
| `RecordsProofs` | about SharedRecords: `TypeCorrect`; `VersionsNameContents` (`VersionNamesContent`); `ActiveStaysOpen` (`ActiveNotArchived`); `UpdatesAreInformed` (`NoLostUpdate`); about CustomerRecords: `CustomersTypeCorrect`; `VersionsNameColumns` (`VersionNamesColumns`); `SleepsBounded` (`SleepBounded`) | `RecordsAssumption`, `CustomerAssumption` |
| `AdministrationProofs` | `TypeCorrect`; `TreeStaysInOrder` (`TreeOrder`); `AssignmentsStayRooted` (`AssignmentsRooted`); `ManagersAreKept` (`ManagerKept`) | `AdministrationAssumption`, `PolicyAssumption` |
| `BrowserSessionProofs` | `TypeCorrect`; `TokensAreExchangedOnce` (`ExchangedOnce`); `CookieIsLast` (`CookieKeepsUp`); `UsableCookieStays` (`UsableCookieKept`) | `BrowserAssumption`, `RefreshAssumption` |

The two hypotheses beyond the named assumptions are real limits of the code,
not of the proofs. Two requests that number new versions at the same time leave
two drafts (`WorkflowDefinitionsTwoPublished`); a COMMIT that raises although the
server committed loses a file (`DocumentsLost`). The runs `workflow_serial` and
`documents` have instances that satisfy them. The word `overtaken` in a property
is the third such limit: the theorems of AdministrationProofs and part of
`HierarchyKept` say what holds of requests that do not overlap, and that overlapping is the only way
out; the overlaps themselves are in the code (`AdministrationLast`,
`AdministrationTree`, `AdministrationRooted`, `DocumentCatalogCycle`).

Every argument has the same form: the property alone is not inductive, since a
step that writes relies on what an earlier step of the same request found out.
The invariant therefore says, for each place a request can be in, which row it
holds and which fact that lock protects. Where no lock protects the fact, it says
until when the fact is true.

- **WorkflowDefinitions**: a request past its first lock holds its row and its
  `view` is the committed row; a request that scans holds a draft that is
  publishable; what it is about to retire is locked. So an edit finds the draft
  it has loaded, and a publisher publishes the graph it has validated (`IInv`).
  Codes of transitions name one edge in every draft, and a request that has
  read a maximum has not read more than there is; the unique constraint turns
  away whoever comes second with the same number (`DataInv`). For the refinement
  (`SerialInv`): with one request that numbers there is at most one draft and one
  version in force, and a publisher that scans has what is in force before it or
  among what it will retire. `released` maps the rows to the list of `WorkflowReleases` by version
  number; every commit is one operation on that list, or changes a draft's graph
  and is invisible in it.
- **PublishCheck**: the visited states are reachable, and what is visited but not on
  the work list is closed under transitions: when the list is empty, visited
  is exactly what can be reached.
- **WorkflowInstances**: a request about to write holds the lock of its instance
  and its view is what is committed; a request about to insert has seen its
  version published, and no version becomes a draft again. What is completed,
  cancelled or active is read under that lock, so an instance that has ended
  stays as it is (`EndedOnce`). So each write appends
  one edge that leaves the committed state, with its notification, and each
  instance, as seen through `ImplementsCases`, does one step of `WorkflowCase` or
  none.
- **Documents**: whatever changes the document holds its row lock, so permission,
  status and next number are still what was checked when it commits; a request that has flushed an entry of the access list knows
  that the list it will commit has a manager (`Listable`), and nobody else can
  change the list before. Every
  file is a version's or a running upload's (`IInv`). A file that an upload may
  still remove is there, is no version's and no other upload's: this, `StoreInv`,
  is where lost commits are excluded. `contents` maps the versions with their files to the
  list of `DocumentVault`.
- **DocumentCatalog**: between the first read of a document and the commit its row is
  locked, so a request that keeps the policy keeps the one of the row, and the
  date it writes is computed from the expiration date it writes, or both are
  those of the row (`IInv`). For pairs (`HInv`): once a request holds a category,
  nobody can give it to another one as a parent, since the foreign key would
  have to wait; so what it has read, or will read, of the parent of its new
  parent stays different from its category. For the whole tree (`OrderInv`): a
  request that is not overtaken knows a set of categories that contains its new
  parent and every parent of its members, but not its own category, so no
  cycle comes about; its facts about children and parent are true likewise.
- **HrStaffing**: a hire or reactivation past the person lock holds a person whom
  nobody employs; a request about to fill a position holds it and nobody else
  occupies it; a transfer or reactivation holds its employment; a deactivation
  holds a vacant position; a move holds its position, and its new superior
  exists and does not report to it (`IInv`). That the superior is key-share locked
  is what makes `NoMutualReports` inductive; for chains of three nothing
  corresponds to it, which is the counterexample of `HrStaffingCycle`. For
  deadlocks (`Holders`): a person is held on the way to a position, a position
  by a request about to write, so a chain of waits reaches a move after two
  steps, and from a move only another move.
- **SharedRecords, CustomerRecords**: a locked request has loaded the committed row
  and each write increases the version (`Base`, which both share). Suppliers: no
  copy is ahead of its row and equal versions mean equal contents (`CopyInv`).
  Customers: the answer to a tag request carries the tags from before, so equal
  versions mean equal columns and tags that differ in one at most (`Near`). Calls:
  before attempt *a* the request has slept at most *a* - 1 pauses, and no pause
  is longer than the timeout or the longest backoff (`DelayBounded`).
- **Administration**: what a request has found out about other rows is true of the
  committed rows until somebody commits, and from then on it is overtaken. So a
  request that is not overtaken writes rows that fit the others (`Fits`) and
  switches off only rows that at least one manager of each organization that
  has one does not need (`Spared`). For assignments and roles the check of the
  code says so; an organization is switched off only when it has no active child, so
  it is on the way to no active one; and whoever switches off a user or a person could have
  granted all that this one has, so manages access there and stays.
- **BrowserSession**: only the cookie, the exchanges and the late requests hold
  tokens that can reach the backend. A new token that was answered and not yet
  delivered is in none of them, so nobody can exchange it and it is still the
  current one of its session when it is delivered. A token that was exchanged is
  never current again, because tokens only grow; so an answer that denies a
  refresh names a token that stays unusable, and so does a broken answer, whose
  token the backend has just exchanged.

Only model-checked: liveness (`RequestsEnd`, `Terminates`, `CallsEnd`), because
fairness and ENABLED are beyond the prover; and the counterexamples of 3.2 and
3.3, which are about instances. No theorem rests on a recursive definition.

## 5. Limits of the models

- One code, one document, one organization, one job profile, one user with
  refresh sessions: requests on different ones share no row the modules keep.
- Names, texts, codes, passwords and signatures are left out; they only make
  requests fail, which `Abort` covers. Unique keys appear where the code relies
  on them.
- Dates appear in DocumentCatalog only, as numbers of days. Role assignments
  have no dates: `starts_at` and `ends_at` are unset.
- The permissions to manage organizations, people and users are one code in
  AccessPolicy; a person has one relationship row to an organization, whatever
  its kind. The parent of an organization is a constant, for no handler changes
  it.
- Roles of users are constant in Documents; the access list is not. The other
  components ask for permissions where they begin, which `Abort` covers.
- A file is either there or not; its content is its key.
- Organization scope, masking and pagination are left out.
- `DISABLED` documents and the DELETED storage state are never set by the code.
- SQLite, used by the tests, serializes writers and shows none of the
  interleavings; the models are about PostgreSQL.

### Not modelled

- Notifications and audit trail beyond what the other modules keep: reading and
  marking are single-column updates of the user's own rows, and the audit trail
  is only appended to, in the transaction of the change.
- The tag catalogues of suppliers and customers and the external references of
  suppliers: rows guarded by one unique index each.
- Search, the API schemas, the pages of the frontend and its pass-through routes:
  no state that outlives a request.
- Migrations, scripts, containers: not part of the running program.
- Organization-wide job profiles and the scope of a profile over descendant
  organizations (`modules/hr`).

## 6. Plan

Done, in this order: WorkflowGraph, WorkflowDefinitions with WorkflowReleases;
PublishCheck; WorkflowInstances with WorkflowCase; Documents with DocumentVault;
HrStaffing; SharedRecords; AccessPolicy and Administration; RefreshSessions and
BrowserSession; DocumentCatalog; CustomerRecords; and the proofs named above.

Open:

1. The documents of a person who loses a role: AccessPolicy composed with Documents.
2. The scope of job profiles over descendant organizations in HrStaffing.
3. The inbox of notifications: mark all against new arrivals.
4. A refinement of the session store: RefreshSessions against a specification of
   one chain of tokens for each login, and its proof.

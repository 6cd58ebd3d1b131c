# RASENMAEHER API: a verification project

This directory holds TLA+ models of `python-rasenmaeher-api`, the service that
enrolls people, issues their mTLS certificates and tells Keycloak and the
integrated products about them; TLC configurations that check the models on
small instances; and TLAPS proofs of theorems about them for every value of
the constants. Paths such as `db/people.py` are relative to
`src/src/rasenmaeher_api/`.

## 1. The system

### Parts, state and operations

| part | state | operations | source |
|---|---|---|---|
| Enrollments | `enrollments` table: callsign, state PENDING / APPROVED / REJECTED, `decided_by`, `person`, approvecode | init, enroll by invite code, new approvecode, accept, lock (reject), promote, demote | `db/enrollments.py`, `web/api/enrollment/views.py` |
| Invite codes | `enrollmentpools` table: active, deleted | create, activate, deactivate, delete, enroll | same files |
| People | `users` table (soft delete), one directory per person with key, CSR, certificate and PKCS12 bundle | `create_with_cert`, `revoke`, `delete`, `update_from_kcdata`, `create_pfx`, downloads, lists | `db/people.py`, `web/api/people/views.py`, `web/api/enduserpfx/views.py` |
| Roles and groups | `roles` table and its copy in Keycloak; the products' groups in Keycloak and what each worker knows of them | `assign_role`, `remove_role`, background `user_promoted` / `user_demoted`, `ensure_product_groups` | `db/people.py`, `kchelpers.py` |
| Login codes | `logincodes` table: `used_on` | `create_for_claims`, `use_code` | `db/logincodes.py`, `web/api/tokens/views.py` |
| Nonces | `seentokens` table | `use_token` from `/token/jwt/exchange` and `/product/sign_csr` | `db/nonces.py`, `web/api/tokens/views.py`, `web/api/product/views.py` |
| Startup | schema and tables, JWT keys and the public keys of others, the service's own client key, CSR, certificate, lock files | `init_db`, `jwt_init`, `mtls_init` per worker | `db/dbinit.py`, `jwtinit.py`, `mtlsinit.py`, `web/application.py` |
| CA backends | CFSSL (remote) or cert-manager `CertificateRequest` objects | sign, revoke, bundle | `cert/` |
| First admin | none of its own | `/firstuser/add-admin` composes people, enrollments, roles and login codes | `web/api/firstuser/views.py` |
| Product notifications | none | POST created / revoked / promoted / demoted to each product | `productapihelpers.py` |
| Authentication | none | JWT and mTLS headers to a person and roles; the validity of a callsign, which the proxy asks on every request | `web/api/middleware/`, `web/api/internal/callsign_validity.py` |
| Database sessions | a pool of connections per worker | synchronous sessions inside an event loop | `db/engine.py` |
| Command line | none of its own | getpfx, revokeuser, addcode, each a process beside the workers | `console.py` |
| Rest | none | settings, schemas, instructions, health check, proxy | |

### How they interact, and what is hard about it

The container starts several gunicorn workers (`docker/entrypoint.sh`). Each
is one process with one asyncio event loop; they share the PostgreSQL
database, one persistent directory, the CA and Keycloak. Three facts decide
what can interleave with what:

* The database layer is synchronous. A handler gives up its worker's event
  loop only where it awaits something real: the CA, Keycloak, a product, a
  file lock. An `await Person.by_callsign(...)` does not switch. So within one
  worker a look followed by an INSERT is atomic; between workers it is not.
* Objects loaded from the database outlive their session. They are written
  later through another session, and the UPDATE carries only those attributes
  whose value was changed from what was loaded.
* Operations are several commits with external calls between them. A failed
  call or a killed worker leaves the first part behind. Background tasks run
  after the response and nobody waits for them.

The behaviours that follow, each at the line where it bites, are the list
`hazards` in PROJECT.json: races between workers (approve against approve,
approve against lock, delete against approve), stale copies written back,
single-use tokens used twice, external effects half done, background tasks
overtaking each other, workers starting at once and dying between two files,
connections kept while a handler waits, files read while a thread writes them.

What correctness means for each part:

* one certificate per callsign, however approvals race; a decision, its
  decider, the person and the certificate belong together; a live person's
  certificate is never revoked, a deleted one's is;
* who is live is valid for the proxy, who is deleted is not;
* what is downloaded is there, and whoever has a certificate gets a bundle;
* a handler returns its connection, and an empty pool never leaves a commit
  without the call it announces;
* a closed invite code takes nobody; deletion is final;
* a nonce or a login code buys one thing, and only after it is spent;
* Keycloak comes to agree with the roles table, and a user that is created is in
  the groups of all products;
* workers that start together use one key each for JWTs and for mTLS, never
  overwritten, and all come up again after a failure or a crash.

## 2. Modules

| module | models | remarks |
|---|---|---|
| `Handlers` | the slots in which handlers run, their workers, the scheduling and the death of a worker | extended by `Enrollment`, `Tokens`, `InviteCodes`, `Roles`, `Groups` and `FirstUser` |
| `Account` | what enrolling promises per callsign | abstract; implemented by `Enrollment` |
| `Enrollment` | enrollments, people, certificates, Keycloak users, and the handlers init, enroll, new approvecode, accept, lock, delete | the answer of callsign-validity is `IsValid` |
| `EnrollmentProofs` | theorems about it | |
| `OneTime` | what a one-time token promises | abstract; implemented by `Tokens`, twice |
| `Tokens` | login codes and nonces, and the handlers create_code, exchange_code, exchange_token, sign_csr | |
| `InviteCodes` | pools and the handlers create, activate, deactivate, delete, enroll | |
| `CodesProofs` | theorems about both | |
| `Roles` | role rows, the handlers promote, demote, delete, and the background tasks that update Keycloak | |
| `Groups` | the creation of a Keycloak user and of the products' groups | what is one step, `KcCreate`, in `Enrollment` |
| `KeycloakProofs` | theorems about both | |
| `Sessions` | the connection pool of one worker, and creations, deletions and lists in their sessions | |
| `SessionsProofs` | theorems about it | |
| `Bundles` | the PKCS12 bundle: background task, downloads, getpfx and revokeuser of the command line | composes people, an executor's threads and a second process |
| `BundlesProofs` | theorems about it | |
| `Startup` | the boot of every worker, with the fetching and copying of public keys, and the later `get_session_winit` | |
| `StartupProofs` | theorems about it | |
| `FirstUser` | `/firstuser/add-admin` with all it calls, and the notifications of the products | a composition: enrollment, person, role and code in one handler |
| `FirstUserProofs` | theorems about it | |
| `Cfssl` | signing and revoking with retries, OCSP refreshes, and who is told when | |
| `CertRequests` | cert-manager's `CertificateRequest` objects: names, conflicts, timeouts | |
| `Backend` | the choice between the two, made once at start | composes `Cfssl` and `CertRequests` |
| `BackendProofs` | theorems about it | |
| `MC...` | constants of the TLC instances | |

### How code becomes actions

A handler is a request slot `r` with a place `pc[r]` and its local variables
`job[r]`. Each action is at most one database transaction together with the
code up to the next point where something else may run. `Arrive` is the
client's choice to call an endpoint and does the first read; `Advance` is
every later step; `CallFails` makes the external call a handler awaits fail;
`WorkerCrash` kills a worker and all its handlers. `MayRun(r)` is cooperative
scheduling: no other handler of the same worker is between two of its own
awaits. What these have in common is `Handlers`; each model says at which places
its handlers wait. Requests that are refused without a change of state are not actions.

`Deployments` is a set of functions from slots to workers; Init chooses one,
and it stays. The instances contain the function that puts all slots on one
worker and one that spreads them over several, so that one run checks both.
`Serving` is the set of workers that serve some slot. What only the event loop
keeps apart is bounded by its size: a look followed by a write lets one handler
per worker through, so a code buys `Cardinality(Serving)` sessions at most, a
callsign has as many spellings, a person as many rows of one role, and a closed
pool takes one client fewer. With one worker these are the bounds the code is
written for; `docker/entrypoint.sh` starts four.

Some variables only observe, and no action reads them: `late` in `InviteCodes`
counts who entered a closed pool, `current` and `lost` in `Roles` say which
tasks' readings still stand and which persons' roles in Keycloak two tasks have
spoiled. `PoolNext` and `Next` join each step with what is noted of it. `limit`
in `OneTime` is fixed: how often a token may buy something.

Mapping of state: a callsign column is unique and rows are never physically
removed, so tables are keyed by callsign (`enrollment`, `users`, `deleted`,
`linked`); `certfile` is `mtls.pem` on disk; `signed` and `revoked` are what
the CA has done; `kcusers` and `kcadmin` are in Keycloak. Lookups by callsign
fold case (`Fold`), the unique column does not. `Dirty(current, loaded, new)`
is the UPDATE of an attribute by a stale object. A definition `XYZ` preceded
by the comment "Mutant" is not part of the specification: it is a changed form
of the definition after it, with which a property was seen to fail.

### Abstractions

* Deployments with Keycloak enabled and, in `Enrollment`, the CFSSL backend
  (cert-manager's revoke functions do nothing).
* Admins are constants distinct from the callsigns that enroll.
* Approvecodes are the version number per enrollment; login codes, nonces and
  invite codes are model values; a code drawn at random is any unused one.
* The check of a CSR's CN at approval always passes; key generation is part of
  the step that calls the CA.
* An external call that is abandoned (a timeout, a crash) is either carried out
  by then or never.
* Background tasks that write the bundle are in `Bundles` only; those that
  refresh OCSP or notify products in `FirstUser` and `Cfssl` only.
* The reload after the commit in `revoke` is part of that commit's step.
* Read-only endpoints (`/token/jwt/refresh`, check-code, shows) and the
  verification of JWTs and mTLS headers are not modelled; the acting user is
  given, except that `ValidUser` guards the downloads of `Bundles`. The lists of
  people are in `Sessions`, for the connections they need.
* `Roles`: persons exist from the start, with or without a Keycloak user; tasks
  run in slots of their own, of their handler's worker, and overlap; the load of the person and the
  look at the role are one step. `create_task` starts any number of tasks: here as
  many as there are slots (`Room`), and a handler that would start one more comes
  later; the theorems are about any number.
* `FirstUser`: nobody deletes anon_admin and nobody else promotes the new admin
  first; the callsigns are neither `anon_admin` nor the service's own CN (for
  both `create_for_callsign` succeeds and `create_with_cert` then refuses, which
  leaves the enrollment); the look at a table and the insert are one step, since
  on another worker the unique column refuses what the look missed.
* `Cfssl`: the handlers that create, that delete and that revoke for a product run
  beside each other, and a person may be deleted while its creation waits for
  Keycloak. A product may have any certificate revoked, a live person's too: the
  endpoint takes whatever PEM is posted (`web/api/product/views.py:83-94`). This is
  outside `Enrollment`, so that what `Account` says of revocation, only of deleted
  persons, is said of the handlers for people. What happens when the deletion comes
  before the certificate is in `Enrollment`. A holder is signed for once; a person
  is created and deleted once;
  keys, serials and the validity of certificates are left out; a refresh, and a
  refresh with the bundle that follows, is one step.
* `CertRequests`: keys stand for everything in a CSR except its CN; hashes do not
  collide. Whether the Kubernetes library derives `ResourceConflict` from
  `APIError`, and `_create_cr` so hides it from `_upsert_cr`, is not part of the
  repository: `wrapped` is chosen in Init.
* `Startup`: files appear whole; locks die with their holder; an exception in
  the lifespan halts gunicorn and the container starts all workers again. The
  keys of others are two sources, TILAUSPALVELU (fetched, may fail) and KRAFTWERK
  (copied); which of them are configured is the constant `Sources`.
* `Sessions`: persons are created and deleted once; every session is one
  connection. How many a pool lends is chosen in Init from `Limits`: the code
  gives none, so that the library's default holds (`db/engine.py:36` ignores the
  sizes in its settings). A handler that finds the pool empty blocks its event
  loop until the pool times out.
* `Bundles`: a person has one bundle, which is none, half or whole; opening the
  file empties it. A response is sent of what is there by then. What deletion
  does to the certificate is in `Enrollment`.
* `Groups`: a call to Keycloak and what the creation does with the answer are one
  step; Keycloak refuses a second group of one name. The instance has no
  anon_admin, whose creation makes no groups, and a manifest with products; the
  theorems are about any.
* `IsValid` is the set of answers callsign-validity may give: the lookup folds
  case and returns any row that matches.

## 3. Runs

| run | instance | shows |
|---|---|---|
| `EnrollmentRaces` | 2 spellings of one callsign and a product's CN, 2 handlers, one or two workers, 1 failure or crash | `SignedOnce`; `ValidIsLive`, with doubles on two workers only; `Enrollment` implements `Account` |
| `EnrollmentDecisions` | 1 callsign, 3 handlers on 2 workers, 1 new approvecode, no failures | `ApprovedHasCertificate`, `DecisionIsAttributed` under writes of stale copies; `InsertedIsReferenced`, `FoundCertificateIsRevoked` when nothing fails |
| `EnrollmentLock` | 2 handlers on 2 workers | violates `LockIsFinal` |
| `TokensRaces` | 1 login code, 2 nonces, 3 handlers, one or two workers, 1 failure or crash | `GrantedIsSpent`; nonces implement `OneTime` with one grant, login codes with one per worker; `SpentIsGranted` |
| `InviteCodesRaces` | 1 code, 3 callsigns, 3 handlers, one worker or three, 1 crash | `PoolsAreFinal`; `LateOnePerWorker`, with two late clients on three workers and none on one |
| `RolesRepair` | 1 person, 2 handlers, 2 tasks that overlap, one or two workers, 1 failure or crash | `RowPerWorker`, `SyncRepairs`, `RemovedStaysRemoved`; until something fails `KcCatchesUp` |
| `GroupsRaces` | 2 products, 3 creations, two of them on one worker, any groups at the start, 1 failure or crash | `MemberOfAll`; until something fails `NotAllRefused`, `GroupsGetMade` |
| `SessionsPool` | pools of 1, 2 and 4 connections, 3 handlers, 2 persons, 1 failure or crash | `ConnectionsReturned`, `FewNeverStarve`, `EveryoneEnds`; until something fails `CommittedReachesCa` |
| `BundlesRaces` | 1 callsign, 2 handlers and 1 task on a worker, 1 command and its task, 2 failures or crashes | `ServedIsThere`, `SettledStays`; until something fails `HalfIsBeingFilled`, `CertifiedGetsBundle` |
| `StartupRaces` | 3 workers, 2 sources of keys, 2 failures or crashes | `FilesMatch`, `KeysAreFinal`, `RestartsRecover` |
| `FirstUserRaces` | 2 callsigns, 2 requests, one or two workers, 1 product, 2 failures, timeouts or crashes | `CodeMeansAdmin`; until something fails `NothingHalfDone`, `CreatedBeforePromoted`, `EnrolledIsAnnounced` |
| `BackendRaces` | CFSSL: 1 person, 1 product, 2 locked answers, 1 failure; cert-manager: 2 CNs with one slug, 2 keys, 2 concurrent calls of 3, 1 denial or failure | `RetrySignsOnce`, `KnownBeforeTold`, `DeletedIsRevoked`; `AnswerIsForCN`, `AnswersAgree` |

Why the bounds are enough: every race here is between two handlers over one
row, and a third handler is there where a third could profit from what the
two left (a new accept after a lock and an approval). Two add-admin requests are
enough for every pair of places to meet; one person and one product, since
holders share only the OCSP responses, which every refresh makes anew for all
of them. A failure matters by where it strikes, and one can strike at every
await; `StartupRaces`, `FirstUserRaces` and `BundlesRaces` have two so that a retry after a failure can fail as well. Two
values per kind let the wrong one be picked. Three enrollment requests on
three workers let two clients into a pool that the third request closes meanwhile.
Two tasks are the one that writes last and the one it overrules; roles
and tasks of different persons share nothing but the slots. Three handlers over one connection,
as many as two or fewer than four are the three cases the pool knows. Three
creations let two that refused each other meet one that comes later, on their
worker or another; a second product makes the order of the walk matter. Of a
bundle there are at most five writers at once: two downloads, a command and the
tasks of both processes. What the runs leave open above these bounds the theorems of section 5 close for the properties proved. The
inductive invariants are no properties of the runs: that they hold is proved.

Bounds of the models are constants: `MaxFailures`, `MaxResets`,
`MaxRows`, `MaxLocked`, `MaxCalls`, `MaxDenied`, and the slots `Requests`,
`Tasks` and `Signers`. Deadlock is checked except where the system
may stop: when every person is deleted (`Roles`), every token is spent
(`Tokens`), every creation is over (`Groups`), every worker serves (`Startup`) or
every certificate is revoked or its handler over (`Backend`).

Type invariants are conjuncts of the inductive invariants that are proved, so the
runs do not repeat them.

### Fairness

`FairSpec` of `Enrollment`, `Tokens`, `Roles`, `FirstUser` and `Bundles` is strong
fairness of each request's (and task's) `Advance`: the event loop runs ready
handlers in the order in which they become ready, and calls to the CA and
Keycloak have timeouts, so a handler that is again and again able to run does.
Arrivals, failures and crashes are never fair. `Sessions` has the same for the
steps of a handler, and weak fairness of the answers from outside and of the
pool's timeout. `Startup` has weak fairness per worker: workers are processes,
sleeps and calls end. `Groups` has weak fairness per creation and `Backend` per
handler and task: there is no `MayRun` there, so a handler whose call has been
answered stays able to go on; cert-manager is not fair.

The liveness properties speak of executions without failures
(`\/ failures > 0`, or `MaxFailures = 0`), since nothing in the code takes up
again what a failure interrupted. `RestartsRecover` does not: restarts are what
takes up a start that was interrupted, and the property names the three pairs
whose first half they take for the whole. `EveryoneEnds` holds through failures
and crashes as well.

## 4. Where code and documentation disagree

Shown by a run that expects the violation, and listed under `findings`:

* A lock does not last: accept does not look at the state
  (`EnrollmentLock`).

Met while modelling, not shown by a run of this project. Enrollment and people:

* A failed `create_with_cert` leaves the person's row, committed before the CA
  is called; the test that expects otherwise is marked xfail
  (`db/people.py:119`, `tests/test_db.py:379`).
* A person deleted while its certificate is being signed ends deleted with a
  certificate that nobody revokes (`db/people.py:190` decides by the file).
* When the CA does not revoke, the person stays deleted and nobody tries again
  (`db/people.py:183`).
* Two workers enroll two spellings of one callsign, since the lookup folds case
  and the unique column does not (`db/enrollments.py:291`). The proxy is then
  answered for either of them. More spellings than workers there are not
  (`OneSpelling`).
* `Deleted` is a `NotFound`: what asks for a deleted person in order to create a
  missing one, as accept and getpfx do, goes on to the INSERT, which fails.
* `request_have_i_been_accepted` answers True for a rejected enrollment: it
  looks at `decided_by` (`web/api/enrollment/views.py:142`).
* `update_from_kcdata` changes `extra` in place (`db/people.py:69`), so the
  Keycloak id of a person whose extra was loaded as a dict is not stored.
* An enrollment enters a pool that another worker has just deleted or deactivated
  (`db/enrollments.py:59`), one for each other worker at most (`ClosedPools`).
* When a person is deleted while its creation waits for Keycloak, the creation goes
  on afterwards: products are told that the person is created after they were told
  that it is revoked (`db/people.py:143`).
* Half a bundle is sent when a download comes while a thread is filling the file
  (`db/people.py:157`), and ever after when a process died over it, although the
  comment says "Make sure the pfx exists, this is no-op if it does"
  (`web/api/enduserpfx/views.py:45`).

Tokens:

* Two workers exchange one single-use login code: `use_code` reads `used_on` in
  one session and sets it in another (`db/logincodes.py:38`). They get no more
  than a session each (`CodeOnce`).
* `use_code` with an unknown code continues with an unassigned variable, a 500
  (`db/logincodes.py:41`).
* `/product/sign_csr` awaits the CA between its look at the nonce and its use,
  so the CA may sign twice for one nonce, although only one is handed out.

Roles, groups and notifications:

* A task with an older view of the roles writes to Keycloak last
  (`db/people.py:426`), or is refused a user that another task makes first and
  leaves the role to that one's older view (`kchelpers.py:189`). These are the only
  two ways in which Keycloak is left behind without a failure
  (`NoDifferenceForgotten`).
* A task that started before the person was linked makes the Keycloak user again
  that a deletion has removed (`kchelpers.py:189`); no other does
  (`RemovedIsGone`).
* The index that should make user and role unique never reaches the database
  (`_idx`, `db/people.py:397`): two workers insert the role twice and one
  demotion removes one of the rows. There is one row per worker at most
  (`NobodyTwice`).
* Creations that find a product's groups missing at the same time refuse each
  other (`kchelpers.py:250`): the person of the one refused is there, with
  certificate and Keycloak user, without groups or a stored Keycloak id, and its
  enrollment is not approved.
* The promote endpoint, unlike add-admin, does not wait for the tasks that
  announce the person: a product may hear of the promotion first.

Sessions and startup:

* The sizes of the connection pool in the settings are not passed on
  (`db/engine.py:36-43`). As many deletions as the default has connections
  block the event loop of their worker until one of them gives up.
* The tables are created only together with the schema (`db/dbinit.py:43`): a
  failure between the two commits leaves a schema without tables for good.
* A crash between writing the client key and its CSR makes every later start
  fail: the key exists, the CSR that is read does not (`mtlsinit.py:100`).
* A crash between making the JWT keys and copying the public one leaves it
  missing for good; and a worker may serve before another one has copied it
  (`jwtinit.py:130`).

Certificate backends:

* With cert-manager the second CSR for a CN is answered with the certificate of
  the first one, of another key: the renewal of a product, or the service's own
  new key after it lost its data (`cert/cert_manager/private.py:167`). If the
  library's conflict is an `APIError` the call fails instead.
  `AnswersAgree` states what does hold. Nobody deletes a request (`_delete_cr` has
  no caller), so a CN that was denied once stays denied.
* `revoke_cert`, by which a product revokes a certificate, any certificate, leaves
  the person it belongs to as it is and does not refresh
  OCSP (`web/api/product/views.py:93`): the certificate is called good until
  somebody else causes a refresh. So is that of a person whose deletion fails
  after the CA has revoked.
* A timeout of a CFSSL or OCSP call is no `aiohttp.ClientError` and leaves
  `sign_csr`, `revoke_serial` and `post_ocsprest` as a `TimeoutError`, so that
  `revoke_cert` answers 500 instead of a failed operation.
* While the CFSSL database is locked `sign_csr` calls itself inside the session
  it has open, without limit (`cert/cfssl/private.py:69`).

## 5. Proofs

All proofs are checked by TLAPS for arbitrary finite or infinite sets of
callsigns, tokens, codes and requests, any finite set of workers, any deployments
and any bounds; they assume what the modules say of their constants
(`...Assumption`), nothing else. No theorem supposes that there is one worker, or
one task at a time.

* `EnrollmentProofs`: `Invariance` (`Spec => []IInv`), and from it
  `TypeCorrect`, `CertificateOnce`, `ApprovalIsBacked`, `DecisionAttributed`,
  `RevocationFollowsDeletion`, `LinkIsBacked`, and `Implements`
  (`Spec => AccountSpec`); and `OneSpelling`, and from it `ValidityIsTruth`. The
  safety properties are not
  inductive: that the CA signs once rests on the unique row (`RowInv`), on the fact that one handler
  at most is creating the person of a callsign (`OneCreator`), on where that
  handler is (`CreatorInv`), and on what a stale copy may still say
  (`SnapshotInv`: a copy is never ahead of the row). `DeleterInv` says the same
  of deletions that are under way. How many spellings enroll is counted in
  `SpellingInv`: those there are, and the workers about to insert one, together
  never exceed the workers that serve, since a worker enrolls one client at a time
  and, once it has enrolled a spelling, finds it. That products' names stay theirs
  rests on `ReservedInv`.
* `CodesProofs` about `Tokens`: `Invariance`, `NonceOnce`, `SpentFirst`,
  `NoncesAreOneTime`, `CodeOnce`, `CodesAreOneTime`. `SpendInv` ties every handler
  that is about to grant something to the commit that spent the token; for nonces
  the unique column makes that handler the only one. For login codes `CodeInv`
  counts the sessions bought and the workers inside `use_code`: together no more
  than the workers that serve.
* `CodesProofs` about `InviteCodes`: `PoolsCorrect`, `FinalPools`, `ClosedPools`.
  `LateInv` counts likewise who has come late and who is inside; the worker that
  closes a pool is inside a handler that enrolls nobody, so one is always missing.
* `KeycloakProofs` about `Roles`: `Invariance`, `TypeCorrect`, `NobodyTwice`,
  `TasksRepair`, `RemovedIsGone`, for any number of tasks that overlap. `RowInv`
  counts rows and the workers about to insert one. `TaskInv` says of a task whose
  reading still stands (`current`) that what it has read is what the table says,
  and once it is past the roles Keycloak says so too, unless another task has
  written an older reading over it (`lost`): a change of a role ends every reading
  of it. A removed user stays removed since a deletion goes on to Keycloak only
  after it has marked the person (`DeleterInv`), only a task that was told no id
  makes users, and a task started for a linked person is told one.
* `KeycloakProofs` about `Groups`: `GroupsInvariance`, `GroupsCorrect`,
  `UsersHaveTheirGroups`, `SomebodyGetsThrough`, for any number of creations,
  workers and products. Who joins knows all initial groups, whichever creation
  told its worker of them (`MemberInv`). That never all are refused is not
  inductive: `AheadInv` names who has nothing to fear, and `OrderInv` says why
  the one that makes a group becomes such: whatever was made since it listed the
  groups was made in the order of the walk, so all of it lies before the group
  it makes, and there it knows every group.
* `FirstUserProofs`: `Invariance`, `TypeCorrect`, `AdminCodes`,
  `NothingLeftHalfDone`, `AnnouncedInOrder`. One request at most is past the
  enrollment of a callsign (`OneOwner`), because it inserted the row; `OwnerInv`
  says what is done by the place it has reached, and that nobody else has
  started on the callsign. That the products hear in order rests on
  `AnnounceInv`: the announcement of the new person has arrived or is a task of
  the worker that the request belongs to, and the request passes its wait only
  when that worker has none.
* `BackendProofs`: `Invariance`, `TypeCorrect`, `SignsOnce`, `OcspFirst`,
  `AnswersAreForCN`, `OneAnswer`. `HandlerInv` and `TaskInv` say what the CA has
  signed and OCSP has learned by the time a handler or task is where it is; that
  a refresh learns all and forgets nothing is the lemma `RefreshLearns`. For
  cert-manager `CrInv` says that a name has one request for ever and every answer
  is its certificate; `NamesTellApart` that equal names are of equal CNs.
* `StartupProofs`: `Invariance`, `TypeCorrect`, `FilesAlwaysMatch`,
  `KeysStay`, from what each step under a lock file may rely on; and
  `HalvesStayHalves`: what `RestartsRecover` has to except is never repaired.
* `SessionsProofs`: `Invariance`, `ConnectionsCorrect`, `CommittedCorrect`,
  `FewCorrect`. A handler in the middle of what the event loop does not interrupt
  is the only one that is (`AloneInv`), and the connection it found when it began
  is still free (`StretchInv`); so an empty pool stops handlers only where
  nothing is half done (`BlockedInv`). `FewCorrect` counts: each holder is a
  handler, and the one that comes to the pool is not among them.
* `BundlesProofs`: `Invariance`, `ServedCorrect`, `HalfCorrect`,
  `SettledCorrect`, from `WriterInv`: who opens the file has a certificate to
  write, and a file that was opened is there for ever.

What is out of the prover's reach is liveness under fairness; but most of the
liveness properties have a safety half that needs no fairness: as long as the
thing that must happen has not happened, somebody is at it. That half is where
the code could go wrong (a task that is not started, a refusal with nobody left
to go on, a file in place that keeps the next one from writing it), and it is
proved for all constants, each until the first failure that the code does not
make good:

| liveness, checked by TLC | safety half, proved | argument |
|---|---|---|
| `InsertedIsReferenced` | `NoAcceptForgotten` | nobody removes the reference once it is there (`ReferenceStays`); the accept is refused in Keycloak only because of another spelling, since its own has no user yet (`CreatorsAreNew`) |
| `SpentIsGranted` | `NothingSpentInVain` | the commit that spends a token leaves its request at the grant, for any workers |
| `KcCatchesUp` | `NoDifferenceForgotten` | every change of a role ends in a task; it finds its user or makes one (`LinkInv`) and writes the role the table has; who undoes that is an outdated reading, who keeps it from it a task that makes the user first, and both are noted in `lost` |
| `GroupsGetMade` | `GroupsGoOn` | `OrderInv`: the one that makes a group knows all groups there are, so nobody refuses it (`MakerKnows`) |
| `CertifiedGetsBundle` | `NobodyIsLeftWithout` | the certificate's handler or task goes on to a thread; who finds the file there leaves the bundle to the thread that opened it |
| `EnrolledIsAnnounced` | `NothingLeftHalfDone` | of the code only: the request that enrolled the callsign is on its way to it (`OneOwner`); that the products hear of it stays with TLC |
| `DeletedIsRevoked` | `NoDeletionForgotten` | a handler passes its wait for the CA only with the task for every product started; a refresh learns of all revocations (`RefreshLearns`) |

Only model-checked: all liveness properties themselves, that is, that whoever is
at it is served in the end. `EveryoneEnds` and `FoundCertificateIsRevoked` follow
a handler from place to place, and `RestartsRecover` a start that nothing but
fairness brings about; nothing is left of them without it.

## 6. Plan

1. Core: enrollments and people (`Enrollment`), tokens (`Tokens`), invite codes
   (`InviteCodes`), startup (`Startup`), roles (`Roles`), the first admin and the
   notifications (`FirstUser`), the certificate backends (`Backend`). Done, with
   theorems about all.
2. The connection pool (`Sessions`), the bundles with the command line
   (`Bundles`), the groups in Keycloak (`Groups`), the copying of foreign public
   keys and the recovery of a start (`Startup`), the validity of callsigns
   (`Enrollment`). Done, with theorems about all.
3. Open: the demoted and updated notifications next to the tasks of `Roles`; the
   keys and renewals of `CertRequests` together with `Startup`, which signs
   through it.

### Not modelled

* Settings (`rmsettings.py`, `db/config.py`), schemas, descriptions and error
  types: values and their validation, without state.
* Audit logging (`web/api/utils/auditcontext.py`) and the creation of test users:
  no other part depends on them.
* Instructions, health check, check-auth, the descriptions of products and the
  proxy and interop of the product endpoints: each passes one request on to a
  product or Keycloak, or reads, and changes nothing of the service's own.
* The verification of JWTs, of signatures and of mTLS headers, which libraries do.
* The announcement to KRAFTWERK at startup: one message, nothing waits for it.
* `getpfx --admin`, `reset_invitecode`, `sign_ocsp` and `certadd`: the first
  assigns a role as promote does, the others have no caller in the service.
* cert-manager's bundles, CFSSL's CRLs and the anonymous client of the first
  start: they read.

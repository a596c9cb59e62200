# A TLA+ verification of SampleGrpcService

SampleGrpcService is a Go gRPC server (sign-in with Google, session JWTs, a users table in
PostgreSQL, a demo `Echo` RPC), a React client that reaches it through Kong's HTTP/JSON
transcoding, and the scripts and manifests that build and run both on a k3s cluster. This
directory models the parts of it whose correctness depends on order, concurrency or failure,
checks them with TLC on small instances and proves the most important properties with TLAPS
for instances of any size.

Contents: [inventory](#inventory), [modules](#modules), [runs](#runs), [bounds](#bounds),
[fairness](#fairness), [proofs](#proofs), [divergences](#divergences-from-docs-and-comments),
[what is only model-checked](#limits), [what is not modelled](#not-modelled), [plan](#plan).

## Inventory

| Part | State it keeps | Operations | Interacts with |
|---|---|---|---|
| User store, `internal/db/db.go` | the `users` table with unique indexes on `google_sub` and `username`; `echo_requests` | `New`, `UpsertUser`, `UpdateUsername`, `GetUserByID`, `ListUsers`, `WriteEchoRequest` | called by the RPC handlers, over one pool, without transactions across statements |
| AuthService, `internal/auth/service.go` | none between calls | `LoginWithGoogle`, `UpdateProfile`, `GetCurrentUser`, `ListUsers` | user store, ID token verification, JWTs |
| Auth interceptor, `internal/auth/interceptor.go` | two constant tables of methods | runs before every unary RPC | JWTs; hands `Claims` to the handler |
| Session JWTs, `internal/auth/auth.go`, `scripts/mint-cluster-token.sh` | the secret in the environment of each pod | `IssueJWT`, `ValidateJWT`, minting an admin token by hand | interceptor, clients |
| Google ID tokens, `internal/auth/auth.go` | none, the keys are fetched every time | `VerifyGoogleIDToken`, `fetchRSAKey`, `jwkToRSA` | Google's key server |
| Username generator, `internal/auth/usernames.go` | none | `GenerateUsername` | `UpsertUser` |
| Greeter and start, `main.go` | none; the health status | `Echo`, `loggingInterceptor`, `main` | user store, logger, Kubernetes probes |
| Web session, `web/src/auth`, `web/src/api/auth.ts` | React state in each tab, one key of localStorage shared by the tabs | restore on mount, sign in, sign out | AuthService over HTTP, Google's button |
| Web echo form, `web/src/App.tsx` | input, answer, error, loading | change, submit, take the answer | `Echo` over HTTP |
| Load test, `cmd/loadtest` | two atomic counters, a list of latencies under a mutex | workers, deadline, report | `Echo` |
| Message types of the web client, `web/src/generated` | none; a reader during `decode` | `create`, `fromPartial`, `encode`, `decode`, `toJSON`, `fromJSON` of some forty types | the runtime library for the bytes; the pages use the types alone |
| Registry script, `scripts/setup-registry.sh` | two configuration files of k3s | deploy, configure, restart | k3s, kubectl |
| Build and deployment, `Makefile`, `ci.yml.disabled` | tags in a registry, the pinned tag in two manifests | build, deploy, prune | registry, cluster |

Where it is hard:

* **Handlers run concurrently and take no lock.** `UpsertUser` is a SELECT, then an INSERT or
  an UPDATE, then up to ten turns of UPDATE and SELECT, each committed by itself. Another call
  of the same account, or another person who wants the same username, may come between any two.
* **Statements fail, and a failure does not say whether the write took place.** The claim loop
  retries after any error; `UpdateUsername` may commit and then fail to read the row again; `Echo`
  answers although its row was not written.
* **The pod restarts** between two statements and leaves an account without a username.
* **A session JWT outlives what it says**: the privilege in it is a copy, the secret is that of
  the pod that signed it, and nothing of it is kept on the server.
* **In the browser** an answer comes back to a page that has changed since the request, and two
  tabs write one key of localStorage without telling each other.
* **The decoders of nested messages share one reader**, and what they read may have been written
  in any of the ways the format allows.
* **The load test's** workers, counters, mutex and deadline end in any order.
* **The registry script** may stop between any two commands, by `set -e` or by hand, and is run again,
  while k3s starts, comes up and stops beside it.

What makes each part correct:

* *User store and AuthService*: one account and one id per Google subject for good; no username
  twice; nobody is answered with the account, or handed the JWT, of another; the admin flag is
  changed by the operator alone; errors have the reason their code states; what an answer
  says was true during the call; every call ends.
* *Interceptor, JWTs and ID tokens*: a session goes back to a genuine ID token, is good on every
  pod for its lifetime, ends with the secret it was signed with, and believes in a revoked
  privilege only if its login read the flag before; a login whose keys have come ends.
* *Greeter*: no echo that was answered is lost without a trace; the service comes back.
* *Web session*: the user shown is the one whose JWT the page would send; a page that is not
  loading agrees with localStorage, so a reload neither loses nor resurrects a session;
  loading ends.
* *Web echo form*: one call at a time; what is shown is the outcome of the latest one.
* *Load test*: the report adds up, its percentiles are of the samples, it ends with its deadline.
* *Message types*: what was written is what is read, over the wire and through JSON, or `decode`
  throws; a decoder stays in its message.
* *Registry script*: no host with two entries, and success without a warning means that k3s was started
  with the files as they are.

The hazards, each at its line with the properties that would show it, are the `hazards` of
`PROJECT.json`.

## Modules

```
Accounts <- refinement - AuthService <- AuthServiceHistory        Greeter <- EchoForm  <-+
                            ^                                        ^                    EchoSystem
                   AuthServiceProofs                                 +------ LoadTest  <-+
                            ^                                                            |
              AuthServiceHistoryProofs               LoadTestProofs -> EchoSystemProofs -+

WebAuth <- WebAuthProofs      Sessions <- SessionsProofs      RegistrySetup <- RegistrySetupProofs

            DecodeLoopProofs -> DecodeLoop -> WireFormat
                                    ^              |
                              MessageReader        v
                                    |          ProtoTypes -> ProtoFields
                                    v              ^              ^
                             MessageWriters -> ProtoCodec         |
                                                                  |
           MCMessageReader -> DescriptorMessages, ServiceMessages +
```

An arrow points to the module that is extended or refined; `AuthServiceHistoryProofs` extends
`AuthServiceHistory` too. Every specification has a module
`MC...` that gives its constants values for TLC.

**`Accounts`** is what the users table promises, without statements or handlers. One variable
gives each Google subject its account; the actions are `Register`, `Refresh`, `Rename` and
`SetAdmin`.

**`AuthService`** is the core. One action is one SQL statement of one call, with all the handler
does with its result.

| Variable | In the code |
|---|---|
| `users` | the table: for each uuid a row or nothing (`db.go` 23-37) |
| `tokens` | the claims of every JWT anybody holds (`auth.go` 26-30); from the start, the minted one |
| `call` | the goroutine of each RPC in flight: which statement it sends next (`pc`) and its local variables |
| `faults` | how many statements have failed by themselves, for the bound |

| Action | In the code |
|---|---|
| `LoginWithGoogle`, `UpdateProfile`, `GetCurrentUser`, `ListUsers`, `Unauthenticated` | interceptor and the first lines of the handler, up to the first statement or the refusal |
| `FindUser`, `InsertUser`, `RefreshUser` | the SELECT, INSERT and UPDATE of GORM's `Assign(...).FirstOrCreate` (`db.go` 94-100) |
| `UpdateUsername` | the UPDATE of `UpdateUsername`, for a profile update and for a turn of the claim loop (`db.go` 102-112, 135-153) |
| `GetUserByID` | the SELECT of `GetUserByID`, wherever it is called |
| `SelectUsers`, `Reply` | `ListUsers`; the return of the handler, where a login hands out its JWT |
| `StatementFault`, `LostCommit` | a statement fails without effect; a write commits and its answer is lost |
| `Crash` | the pod restarts and every handler is gone |
| `SetAdmin` | the operator's `psql` of `README.md` 134-141 |

Abstractions: e-mail and display name are written and read with the picture and stand behind
it. A username is a value: `Names` are those `usernameRE` accepts, `BadName` is any other, and the
empty one is `Null`, as `UpdateUsername` stores it. The generator chooses any name. A verified ID
token is its subject and picture; the subject is not empty. A single statement is atomic.
GORM's `Assign` takes a struct and leaves out its zero fields; an absent picture therefore changes
nothing. No code deletes a row, so none is. JWTs are kept for ever in this module: expiry
only takes them away, which is the `Unauthenticated` refusal, always possible.

**`AuthServiceHistory`** adds one history variable, `moments`: the tables there were during each
call. With it a property can say that an answer was true *at some moment of the call*, which is
the most an answer without transaction can promise.

**`WebAuth`** is the session of the web client. Its variables are `storage` (localStorage),
`tab` (the React state of each tab), `restore` and `login` (requests in flight, by tab and
number), `valid` (the JWTs the server accepts) and `logins` (for the bound). One action is one
turn of the event loop: `Mount`, `Unload`, `TakeRestore` (the `then`, `catch` and `finally` of the
effect, which run in one drain of microtasks), `ClickSignIn`, `TakeLogin`, `SignOut`; the server
and the network answer between turns with `AnswerRestore` and `AnswerLogin`; `Expire` ends a JWT.
A request that throws is told apart as the code does, `AuthError` for a 401 and `Error` for the
rest: `Mounted` and `Restored` are the states a mount begins with and a restore leaves. React's StrictMode runs the effect of a mount twice in a development build: `EffectRuns`.

**`Sessions`** is what a JWT is worth over time: `now`, the rotations of the secret (`secret`,
`rotatedAt`), the pods with the secret they were started with (`pod`, `staleUntil`), the operator's
flags (`isAdmin`, `revokedAt`), the logins under way (`login`) and the JWTs somebody holds
(`sessions`).

| Action | In the code |
|---|---|
| `LoginWithGoogle`, `KeyArrives`, `NoKey`, `VerifyGoogleIDToken` | `fetchRSAKey` for this login alone, then the checks in their order (`auth.go` 97-207) |
| `UpsertUser`, `UpsertFails`, `IssueJWT` | the flag is read with the row, the JWT signed later (`service.go` 67-92) |
| `StartPod`, `StopPod`, `RotateSecret` | a pod reads `JWT_SECRET` when it starts |
| `SetAdmin`, `Mint`, `Tick` | `psql`, `mint-cluster-token.sh`, the clock |

The interceptor keeps no state: `UnaryAuthInterceptor` is an operator over a pod, a method and a
JWT, and the properties quantify over it. An ID token is its subject, who signed it, the method, the end,
the issuer and the audience; `Genuine` is what the code asks of it, so any of the RSA methods will do.

Nothing limits how long a login takes: `fetchRSAKey` waits for the key server without a limit, and while
Kong gives a request up, a client on the gRPC NodePort 30051 (`k8s/deployment.yaml` 100) waits as long as
it likes. So a session may be signed long after its ID token has ended and after a revocation. Three
fields of a session exist for the properties alone: the ID token it goes back to (`token`), when that was
found valid (`verified`) and when the flag was read (`read`). `RevocationTakesEffect` counts from `read`, and
from when the JWT was signed.

**`Greeter`**, **`EchoForm`**, **`LoadTest`** and **`EchoSystem`** are the `Echo` RPC with its two
clients. `Greeter` is the process (`process`: down, starting, serving), the database (`dbUp`) and
the calls in flight (`calls`: what the client knows, what the handler does, the row and the line of
the log). It begins before the first start, with the database up or not; `Start`, `ConnectDb`, `Crash`, `DbFails`, `DbReturns`, and of a call `BeginEcho`,
`WriteEchoRequest`, `FailEchoRequest`, `Reply`, `Refuse`. A client that gives up cancels the context of
a handler that goes on. `EchoForm` is the page (`Change`, `Submit`, `TakeEcho`); an input stands for
a class of texts that trim to the same message. `LoadTest` has one action per step of a worker
that another goroutine can see: the select, the call, each atomic, the lock, the append; then
`Expire` for the deadline and `Report`. `EchoSystem` runs all three together.

**`ProtoFields`, `DescriptorMessages`, `ServiceMessages`** hold the generated message types as
tables: for each field its name, number, kind, label and default. `implicit`, `optional`, `member`
(of a oneof), `message`, `repeated`, `numbers` and `packed` are the forms a field takes in the
generated code. **`ProtoTypes`** has the tables as constants and what all functions of a type go by:
`createBase`, the wire type of a kind, `longToNumber`. **`ProtoCodec`** is what every type does with a
field of each form: `Encode`, `fromPartial`, `toJSON`, `fromJSON`.
**`DecodeLoop`** is `decode`: its state is the reader (`wire`, `pos`) and the stack of calls
(`frames`); one action is one turn of the innermost loop (`ReadScalar`, `ReadBlock`, `EnterMessage`,
`SkipField`, `StopAtEndGroup`, `ThrowOutOfRange`, `Return`). It reads any well-formed wire, whoever wrote it.
**`WireFormat`** says which wires are well-formed and what they mean (`Means`, `HasUnsafe`), by rules that know
neither a loop nor a stack. **`MessageReader`** is that loop over what `MessageWriters` writes, and has the
properties that speak of the writer. **`MessageWriters`** is who wrote the
message: this client, or another implementation that takes a liberty the format allows (other order,
packed or unpacked or both, a field written twice, interleaved lists, unknown fields of every wire
type, a known field of another type, a group).

The wire is a sequence of units (a tag, a length, a number, a text), not of bytes: varints and UTF-8
are the library's. What is said of all types at once was read in all of them: the tables give
each function's lines in `PROJECT.json`.

**`RegistrySetup`** is the script on one node, run again and again: `embedded` and `registries` (the
two files), `unit` and `loaded` (the unit of k3s and what k3s read when it was started last), `run` (the step to
come, the role that was detected, the hosts left, the script's two flags, whether it warned, the exit status),
`kind` and `embeddable` (the node). Its actions are the script's functions (`enable_embedded_registry`,
`deploy_registry_pod`, `ConfigureHost` and `EndConfigure` for `configure_registries_yaml`, `Finish` for
`restart_k3s` and the summary), `Start` with `node_role`, `Interrupt`, and `StartK3s`, `K3sIsUp` and `K3sStops`,
which may come at any time. `node_role` is what the script detects, not what the node is. `Finds` is the
`grep -q` of the script: a host is found in its own block, and in that of a host it is a part of.
`registries` is the hosts of the blocks that were appended, each of which has the keys `mirrors:` and
`configs:`. What k3s makes of a file that repeats them is not modelled: `loaded` is the text it has read.

Operators with a suffix (`Retry_Uncounted`, `SubTaken_Never`, ...) stand next to the definition
whose plausible bug they are. No specification uses them; `PROJECT.json` pairs each with the
property that must fail when it takes the place of the original.

## Runs

| Run | Shows |
|---|---|
| `accounts_two_people` | two people, two calls at once, one username, one failing statement, restarts: types, handler consistency, `OneAccountPerSubject`, `AnswerIsOwnAccount`, `ErrorsExplained`, `PrivilegeOnlyByOperator`, and that the table implements `Accounts` |
| `accounts_liveness` | `EveryCallAnswered` under fairness, with a username that stays taken and a failing statement |
| `answers_history` | two calls of one account with two usernames and a picture: `FreshAnswer` (no column answered is older than the request), `AcknowledgedRenameTookEffect`, `LoginRenamesOnlyNameless` |
| `web_session` | one tab of a production build: types, `ShownUserHoldsJwt`, `InSyncWithStorage`, `ExpiredIsSignedOut` and, under fairness, `LoadingEnds` |
| `message_codec` | every message type, no, one or two fields set, fourteen ways of writing: `DecodedIsWhatWasWritten`, `ThrowsExactlyOnUnsafeIntegers`, `NestedReadsStayInside`, `JsonRoundTrip`, `JsonAgreesWithWire`, `DecodeEnds` |
| `echo_system` | server, page and a worker of the load test, from before the first start and with two stops of the process or of the database, so that a process may start while the database is away: `NoSilentLoss`, `OneCallInFlight`, `ShowsLatest`, and under fairness `ServesAgain` and `FormUsableAgain` |
| `load_test` | two workers against a server and a database that may hang for good: `ReportAddsUp`, `PercentilesInRange`, `LoadTestEnds` |
| `sessions` | two pods, a rotation, revocations, a login that may hang, an ID token that expires on the way and one of each kind that is refused: `RevocationTakesEffect`, `RotationEndsOldSessions`, `FreshSessionsLast`, `SessionsHaveAnIdentity`, `LoginEndsOnceKeysCame` |
| `registry_setup` | three runs of the script with different hosts, each failing or interrupted anywhere, while k3s starts and stops: `NoDuplicateEntries`, `SuccessMeansLoaded` |
| `chosen_handle`, `web_discard`, `registry_rerun` | one sentence each of a comment or message that the code does not keep, see [below](#divergences-from-docs-and-comments) |

`TypeOK` is checked once per component; that of the registry script is part of its proof. Deadlock is checked for the accounts and the web session, where
a person may always start a call or open a page. The codec stops when a message is read; the echo
system, the sessions and the script stop when the bounds on calls, time and runs are used up.

## Bounds

| Constant | Values | Why they are enough |
|---|---|---|
| `Calls` | 2, or 1 for liveness | every race of this code is between a call and what others did since its last statement; one other call can do so any number of times, as a slot serves one request after the other. The proofs hold for any number |
| `Subs`, `Ids` | 2 people and 2 ids; 1 person and 1 id in the histories | a second account of one subject needs a second id; a username is contested by two |
| `Names` | 1, or 2 for the histories | one name is contested at once; replacing a name needs two |
| `Pictures` | none, or 1 | with `Null` two values tell old from new |
| `MaxTries` | 2 or 3, in the code 10 | a first, a middle and a last turn; the proofs hold for any number |
| `MaxFaults` | 0 or 1 | one fault reaches every error path, and a second one meets a handler in a state the first has left; the proofs hold for any number. None in the histories, where a failed call has no answer to judge |
| `MaxMoments` | 3 | how many tables a call may see; a call writes at most twice without a fault. The proofs hold for any bound |
| `Tabs`, `EffectRuns`, `MaxLogins`, `Persons` | 1, 1, 3, 2 | two logins in flight are answered in either order; a third comes after a reload. What one tab does to another goes through localStorage alone, and `InSyncWithStorage` is not claimed of two |
| `MaxSet` | 2 neighbouring fields of the outermost message, up to four samples each; messages inside messages with none, the middle or the outer fields set, two levels deep | the code of a field depends on no other field; two show that neither disturbs the next |
| `MaxSafe` | 7, in the code 2^53 - 1 | the same parity, so the first integer that rounds is the second beyond it, as in a double |
| `Messages`, `Workers`, `MaxCalls`, `MaxOutages` | 2, 1, 2, 2 (`echo_system`); 1, 2, 3, 1 (`load_test`) | a second call meets what the first has left; two workers merge at once; with two stops the database may go away while the process starts again. The proofs hold for any number |
| `Pods`, `Users`, `Logins`, `IdTokens`, `MaxSessions`, `MaxRotations` | 2, 1, 1, 6, 1, 1 | a session is judged by itself, and never reads another; a pod with the old and one with the new secret; an ID token that ends on the way, a good one with another RSA method, and one each for another client, signer, method and issuer. The proofs hold for any number |
| `SessionLifetime`, `MintedLifetime`, `MaxTime` | 2, 1, 3 | a login that reads the flag, a revocation, a later signature and the end of that session fit. The proofs hold for any |
| `Hosts`, `Finds`, `Arguments`, `MaxRuns` | 3, of which one is a part of another, 4 lists (one names a host twice), 3 | a run that is cut off, one that goes on after it and one that finds everything done. The proofs hold for any number |

Calls, people, ids and names are symmetric in the runs that say so; the liveness runs use no
symmetry.

## Fairness

`AuthService!FairSpec` is weak fairness of `Serve(c)`: a handler that can take its next step takes
it. The Go runtime schedules every goroutine, and a statement ends or fails when the database or
the connection does. Nothing is assumed of requests, faults, restarts or the operator. Weak
fairness suffices because nothing another call does can disable the next statement of a handler.

`WebAuth!FairSpec` is weak fairness of the answer to a restore and of the callback that takes it:
`fetch` settles, with an answer or an error, and an event loop runs every callback. Sign-ins,
clicks and reloads need not happen. When the page closes the obligation goes with it.

`EchoSystem` splits it in two. `LoadFairness` is of the load test alone: goroutines run, the context
ends in time and ends the calls made with it. `LoadTestEnds` needs no more, so it holds against a
server that hangs. `Fairness` adds that Kubernetes starts the container again, that the database
comes back, that a call which was taken is handled and answered or refused, and that the page runs its
callbacks. Crashes and outages are bounded by `MaxOutages`, without which "comes back for good" has no meaning.

`Sessions` assumes that handlers run while their pod does, and that statements end or fail as in
`AuthService`. Of the key server it assumes nothing, as `http.Get` runs without a limit of its own (see
below): a login may wait for its keys for ever. `LoginEndsOnceKeysCame` is about those whose keys have come.

`MessageReader` has weak fairness of `Next`: JavaScript runs a call to its end.

## Proofs

| Theorem | Says, for all values of the constants |
|---|---|
| `AuthServiceProofs!Invariance` | `Spec => []Inv` |
| `AuthServiceProofs!TypeCorrect` | `Spec => []TypeOK`; in particular the claim loop stays within `MaxTries` |
| `AuthServiceProofs!SubjectsHaveOneAccount` | `Spec => []OneAccountPerSubject` |
| `AuthServiceProofs!AnswersAreOwn` | `Spec => []AnswerIsOwnAccount` |
| `AuthServiceProofs!HandlersStayConsistent` | `Spec => []Consistent` |
| `AuthServiceProofs!ErrorsAreTrue` | `Spec => []ErrorsExplained` |
| `AuthServiceProofs!Refinement` | `Spec => ImplementsAccounts` |
| `AuthServiceProofs!PrivilegeIsTheOperators` | `Spec => PrivilegeOnlyByOperator` |
| `AuthServiceHistoryProofs!HistoryInvariance` | `HSpec => []HInv` |
| `AuthServiceHistoryProofs!AnswersAreFresh` | `HSpec => []FreshAnswer` |
| `AuthServiceHistoryProofs!RenamesTakeEffect` | `HSpec => []AcknowledgedRenameTookEffect` |
| `AuthServiceHistoryProofs!LoginsRenameOnlyNameless` | `HSpec => LoginRenamesOnlyNameless` |
| `SessionsProofs!Invariance`, `!TypeCorrect` | `Spec => []Inv`, `Spec => []TypeOK` |
| `SessionsProofs!RevocationIsTimely` | `Spec => []RevocationTakesEffect` |
| `SessionsProofs!RotationIsFinal` | `Spec => []RotationEndsOldSessions` |
| `SessionsProofs!SessionsSurviveRestarts` | `Spec => []FreshSessionsLast` |
| `SessionsProofs!IdentityIsGoogles` | `Spec => []SessionsHaveAnIdentity` |
| `EchoSystemProofs!Invariance`, `!TypeCorrect` | `SafetySpec => []Inv`, `Spec => []TypeOK` |
| `EchoSystemProofs!NothingLostSilently` | `Spec => []NoSilentLoss` |
| `EchoSystemProofs!FormHasOneCall`, `!FormShowsLatest` | `Spec => []OneCallInFlight`, `Spec => []ShowsLatest` |
| `LoadTestProofs!LoadTestInvariance` | `SafetySpec => []LoadTestInv` |
| `LoadTestProofs!ReportIsRight` | `LoadSpec => []ReportAddsUp` |
| `LoadTestProofs!PercentilesAreMeasured` | `LoadSpec => []PercentilesInRange` |
| `RegistrySetupProofs!Invariance` | `Spec => []Inv` |
| `RegistrySetupProofs!EntriesAreUnique` | `Spec => []NoDuplicateEntries` |
| `RegistrySetupProofs!SuccessIsLoaded` | `Spec => []SuccessMeansLoaded` |
| `WebAuthProofs!TypeCorrect`, `!ShownUserIsTheHolder` | `Spec => []TypeOK`, `Spec => []ShownUserHoldsJwt`, also under StrictMode |
| `WebAuthProofs!ExpiryIsOfTheSignedOut` | `EffectRuns = 1` gives `Spec => []ExpiredIsSignedOut`, for any tabs |
| `WebAuthProofs!LoadedPageAgreesWithStorage` | `EffectRuns = 1` and one tab give `Spec => []InSyncWithStorage` |
| `DecodeLoopProofs!Invariance`, `!TypeCorrect` | `DecodeSpec => []Inv`, `DecodeSpec => []TypeOK` |
| `DecodeLoopProofs!ReadsStayInside` | `DecodeSpec => []NestedReadsStayInside` |
| `DecodeLoopProofs!DecodeIsTheMeaning` | `DecodeSpec => []DecodesTheMeaning`: what `decode` returns is what the wire means, and that alone; it throws only on an integer that no JavaScript number holds, and then never returns |
| `DecodeLoopProofs!LongToNumberIsExact` | `longToNumber(n)` is `n` or throws |

The assumptions are those the specifications declare, which TLC evaluates in every run:
`BoundsAssumption` (at least one try) and `DistinctAssumption` (`Null` is no value and no row, the
minted identity is no uuid, a bad name is no good name); `SessionsAssumption` (durations are natural
numbers, an ID token names a user and an end, the operator is no user); `RegistryAssumption` (runs are
given lists of hosts, and grep for a host finds the host itself); `WebAssumption` and `NoneIsNoJwt` (`None` is no person and no JWT); `GreeterAssumption` (the bounds are
natural numbers), `FormAssumption` (a text trims to a message or to the blank, which is none), `LoadTestAssumption` (finitely
many workers, as the flag `-concurrency` is an `int`, and the free mutex is none of them) and `ClientsAssumption`
(a worker has a connection of its own, not the page's); `TypesAssumption` (what the generator made sure of: names and
numbers of a type's fields differ, a list begins empty, no list of 64-bit integers is packed, and the largest safe
integer is odd). `DecodeSpec` begins with any wire that is well-formed. That the wires of `message_codec` are is
`WritersAreLegal`, which TLC evaluates too.

**Accounts.** Neither property is inductive alone. `OneAccountPerSubject` rests on the unique
index; but `AnswerIsOwnAccount` needs that the account a handler found some statements ago is still
there and still its subject's. That is `Consistent`, and it needs the types. The invariant is
`Inv == TypeOK /\ Consistent /\ OneAccountPerSubject`. Each of its steps is proved per action.
A step of one call changes the table only in ways that take no account from another call (rows are never
deleted and never change their subject), which is one lemma; that the call which moves stays consistent
is one step per action under it.

The refinement maps the table to `[s \in Subs |-> AccountOf(s)]`, where `AccountOf` chooses the
row of `s`. `Inv` makes that row unique. Then the INSERT is `Register`, the UPDATE of
`FirstOrCreate` is `Refresh` or a stutter, the UPDATE of a username is `Rename`, whoever sends it and
whether or not its answer is lost, the operator's is `SetAdmin`, and everything else stutters.

`ErrorsExplained` is inductive next to `Inv`. What it needs of it is that an account that was found never goes
away, so that only a minted identity can be missing; and the INSERT that is refused finds the account of its
subject in the table, where it stays.

**Histories.** `HInv` says for each place where a handler carries something from one statement to the next in which
table of the call it was found: the row that `FirstOrCreate` assigns over (`Found`), an account without a username
in the claim loop (`Nameless`), the username of a profile update that is to be acknowledged (`TookEffect`), each
column of the answer (`Fresh`). A history only grows while its call lasts, so a step of another call preserves all
four; the steps of the call itself add the table they read or leave. The columns of one answer may come from
different tables, which is why `Fresh` cannot be said of the whole row.

**Echo.** `Evolves` is what any step may make of a call: it keeps its client and its message, and an answer is given
once. Every step of the server, the network and the clients is shown to send one call or to let the calls evolve; what
a client relies on follows from that alone. `WorkersOK` says that a worker waits exactly for the one call of its own
that has no answer. `FormOK` adds to `OneCallInFlight` that the pending call is the latest of the form, and that the
page shows its outcome, which is what `ShowsLatest` lacks to be inductive.

**Load test.** `ReportAddsUp` speaks of the end alone. `SumsOK` relates, at any moment, each counter to the set of
calls it has counted: `samples` to the replies of a worker that has taken note of them, `latencies` to those of the
workers that are done, `totalReqs` to replies, errors and the workers `Failing`, which are between `totalReqs.Add` and
`errCount.Add`. A call that its worker has counted has its answer for good, so the sets do not change under the
worker. `MergeOK` is the mutex: who appends holds it and has read what is there. `ReportOK` says that the report was
read when all were done, and no worker leaves that. The percentiles are arithmetic (`PercentileBounds`).
Nothing about the echo or the load test needs fairness here: `SafetySpec` has none, `Spec` and `LoadSpec` add it.

**Sessions.** The properties speak of JWTs that exist; what makes them true happened in a login that is over.
`LoginOK` says what a handler under way knows: its pod is up, its ID token was genuine and had not ended when
it was verified, the row was read after that, and if it believes in a flag that the user has no more, the flag was
taken away after it was read. `HeldOK` carries that over to each JWT, which may be signed at any later time. `SignedOK` relates a JWT to the secrets: one that
an older secret signed is from before the last rotation, or from before the last pod with such a secret
stopped, or such a pod still runs. `PastOK` keeps the times
of rotation and revocation in the past, so that a tick of the clock preserves the rest. Each property then follows by
arithmetic on `now`.

**Registry script.** `HostsOK` accounts for every host a run was given: it is in the file or still to come, and
none is to come once the loop is over. `RunOK` says that success comes after the restart that loads the
files, or with a warning; a k3s that starts later reads the files as they are. `NoDuplicateEntries` needs that
`Append` of what `grep` did not find keeps a sequence injective, and `HostsOK` that what it found stays found: the
lemma `AppendKeeps`, which asks of `Finds` only that a host finds itself.

**Web session.** Types and `ShownUserHoldsJwt` are inductive together, in any number of tabs and with any number of
runs of the effect. The other two rest on a rendering: `AuthBar` shows no button while the page loads. `LoadingOK`,
`RestoreOK` and `LoginOK` say that a page loads exactly while its restore is under way and that no
sign-in is under way then; so a restore finds its tab as `Mount` has left it, with nobody signed in.
With two runs of the effect the first ends the loading and `RestoreOK` fails. With one tab nobody else writes
localStorage meanwhile (`RestoredIsStored`), and the JWT that was restored is the one that is stored.

**Decode.** A *reading* is a position in a message and the message read so far. `WireFormat!Closed` has a rule for
each thing that may be at a position: a scalar, a block, a nested message (which has readings of its own, from
`createBase` on, and goes on in the caller with any complete one), a field that is skipped, an end-group tag. The
readings of a wire are the least set that is closed and has the first one, and the wire means the message of the
complete reading from position 1. It is not said there that this is only one; that it is belongs to the theorem.
The invariant `Tracks` runs the set of all readings there were beside the calls, and a stack of readings that has the
same types, messages and ends as `frames`. `FollowsOK` says that each is in every closed set, and that the rule of
each holds in the set unless it is on the stack; `StackOK` that each call ends in its caller and none is passed;
`Waits` that a call is at the field its caller is at. When `decode` returns, the stack is one complete reading, so
the set is closed and therefore the least one. The rule of a nested message speaks of every reading that completes
it, so a new reading might break an old rule: it does not, because the position of the caller is visited once
(`OnceOK`, `OnlyTheCallerWaits`), and only one complete reading starts anywhere. All turns of the loop but the throw are one
lemma about stacks (`StackStep`), which the turns use with the top, the place above it and the place below it. The
library's skipping of a group (`EndOfGroup`) is on both sides of the theorem and is trusted.

## Divergences from docs and comments

Three are runs in which TLC finds the sentence violated; the quotations are in `PROJECT.json`.

| Run | What the code does |
|---|---|
| `chosen_handle` | a login that met its account without a username replaces the one an `UpdateProfile` has put there since and acknowledges, where `db.go` 78-80 assigns "an initial handle" and otherwise "updates the cached profile fields" |
| `web_discard` | a restore that fails for any reason discards the cached JWT, where `AuthContext.tsx` 2-4 does so on `AuthError` |
| `registry_rerun` | a run that finds everything in place ends with status 1 and no message, where `setup-registry.sh` 179 has one: the last line of `configure_registries_yaml` returns 1 under `set -e`. Line 179 is never reached, and a restart that is still due does not happen |

Others were met while modelling and are part of the models:

* Of two first sign-ins of one subject at once the second INSERT violates the index, and that sign-in fails
  (`db.go` 77 speaks of an upsert).
* A user who cleared the username is given a generated one at the next sign-in (`db.go` 78-80).
* A login may answer a record that was in the table at no moment, its columns from different ones (`db.go`
  80); `FreshAnswer` is what holds instead.
* A sign-in without a picture keeps the old one (`db.go` 28-29).
* A restore of an expired JWT discards the one another tab has stored since (`AuthContext.tsx` 2-4).
* `k8s/README.md` 145: rotating the secret "invalidates every active session". It does when every
  pod that runs was started after it, which is the premise `Settled` of `RotationEndsOldSessions`; a pod
  that goes on running accepts the old ones and issues more.
* `auth.go` 94: an ID token "must be RS256-signed". Line 114 accepts any `*jwt.SigningMethodRSA`, so RS384 and
  RS512 as well. The signature is Google's in any case; the run has such a token.
* `setup-registry.sh` 5-6: to be run on every node, and "on the server node it will also deploy the registry pod".
  On a server whose k3s is stopped `node_role` (57-70) says "agent": no registry is deployed, no line for the
  embedded one is written, and at the end it is `k3s-agent` that is found inactive.
* `setup-registry.sh` 114: "preserves any existing entries". Each host appends a block with the top-level keys
  `mirrors:` and `configs:` of its own, so the two default hosts make a file that repeats both keys. A YAML reader
  may refuse it or keep one of the two; the model says which text k3s has read.
* `setup-registry.sh` 108: "if the entry already exists, skip". The `grep` finds the host anywhere, so an
  address that is a part of another one's is skipped without an entry.
* `setup-registry.sh` 145: "start it manually when ready", of a k3s that is activating with the files it has read
  before. To start it then does nothing.
* `auth.go` 183: "timeout via transport default". The default transport limits the dialling and the TLS
  handshake, not the wait for an answer. A login may hang there for ever, and the models do not assume that away.
* `main.go` 50: `loggingInterceptor` "logs every unary RPC". One the auth interceptor refuses does not reach it.
* `descriptor.ts` 370-371: a `oneofIndex` of 0 means the first oneof, but a message of this client that has it is written without it,
  like one that is in none. The same goes for an explicit `packed: false` (1010-1012). `DecodedIsWhatWasWritten` therefore
  compares with the message `create` makes, in which the two are already one.

`ExpiredIsSignedOut` is checked and proved for one run of the effect. Under StrictMode it does not hold: of
the two restores of one mount the first may succeed and the second find the JWT expired, and the page
then shows the user with the flag set. That is a development build, and nothing says otherwise, so it is
no finding.

Of the codec further: a nested message that occurs twice on the wire is replaced by the second, where
Protocol Buffers merges the two (no style writes that); an unsafe 64-bit integer throws when it is
decoded and rounds silently in `fromJSON`; an enumeration number this client does not know becomes -1
on a trip through JSON (`Recognised`). No page calls `encode`, `decode` or `fromJSON`: `api/auth.ts` 34 casts
the parsed JSON to the type, so that a default the gateway leaves out is `undefined` in the page.

## Limits

Only model-checked: all liveness (`EveryCallAnswered`, `LoadingEnds`, `ServesAgain`, `FormUsableAgain`,
`LoadTestEnds`, `LoginEndsOnceKeysCame`, `DecodeEnds`), as fairness is beyond the prover; and of the codec what relates it to a
writer or to JSON (`DecodedIsWhatWasWritten`, `ThrowsExactlyOnUnsafeIntegers`, `JsonRoundTrip`,
`JsonAgreesWithWire`), as encoders and JSON mappings recurse over message types. Each default stands in five
functions per field; the tables have it once, so that the copies agree is read off the code and not checked. `DecodeIsTheMeaning` is what can be
said of `decode` without a writer. Every other invariant and action property of
a run is a theorem too. `registry_rerun` and the other divergences are about small instances by nature.

### Not modelled

* The logger: it sets a format and exits on `Fatal`, which `Greeter!ConnectDb` has as the end of the process.
  Of the log only the line of a failed echo is in the model.
* `jwkToRSA`: a key is there or not. Base64 and big integers are the library's.
* The bytes of the wire, of JSON text and of base64.
* Generated Go code and the `.proto` files: stubs; their fields appear as records.
* Build, deployment and pruning (`Makefile`, CI). What is hard in them (a tag that names the digest of
  another, a checkout that has another pin, a push during a prune) is decided by the registry's API, git and
  kubectl; a model would be of those programs, not of this repository.
* Manifests and install scripts: declarations and straight sequences of calls. The models take from them that
  secrets are environment variables, that a pod is restarted and that a gateway is in front.
* Lint, coverage and code generation targets; CSS and layout; durations and rates of the load test; the
  contents and the order of the list that `ListUsers` returns.

`AuthService` has one replica, as `k8s/deployment.yaml` has it; `Sessions` has several pods. As no handler keeps state
outside the database, more replicas would only add calls; `Crash` would take some instead of all of them.

## Plan

What was planned is written, in this order: the accounts with their abstract specification and its refinement, the
histories, the web session, the sessions over time (with the ID tokens), the echo system, the load test, the
registry script, the message types, and the proofs of the accounts, the sessions, the script, the web session, the
histories, the echo system, the load test and the decode loop. What a continuation would add:

1. `LoadTest` as an implementation of a load test that counts each call in one step, by a refinement that maps a
   worker between its atomics to one that has counted.
2. `WebAuth` with two tabs and a specification of what they may disagree on.
3. `Delivery`: build, pin, checkouts and pruning over tags and digests, with the registry as an external
   specification.

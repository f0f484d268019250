# A specification of pegma storage-blobs

TLA+ modules, TLC configurations and TLAPS proofs for
`pegma-dev/storage-blobs`: the `BlobStore` port, its in-memory reference store,
its S3, R2 and Azure adapters, the conformance suite every store is held to,
and the workflow that publishes the packages.

    tlc -workers 2 -config MCS3Port.cfg MCS3BlobStore.tla    # one run
    tlapm MemoryBlobStoreProofs.tla                          # one proof module

`PROJECT.json` maps each definition to the source lines it translates and lists
the runs, the slips each property catches, the hazards and the findings.

## 1. The system

| Component | Source | State | Operations | Talks to |
|---|---|---|---|---|
| BlobStore port | `storage-blobs/src/index.ts:86-258` | none | `put`, `get`, `head`, `delete`, `list` | promised to components, kept by every store |
| Memory store | `storage-blobs/src/index.ts:722-917` | `objects` Map, `etagGeneration` | the five, in one process | body reader |
| Body reader | `storage-blobs/src/index.ts:597-683` | buffer, `total`, empty-chunk count | `readBlobBody` | the caller's stream; used by the `put` of every store |
| S3 adapter | `storage-s3/src/index.ts` | `bucketVerified` | the five, each as one or more requests | S3 through `S3Client` |
| R2 adapter | `storage-cloudflare-r2/src/index.ts` | same | same code as S3, other names | R2 through `S3Client` |
| Azure adapter | `storage-azure-blob/src/index.ts` | `ensureContainer` | `ready`, the five | Azure Blob Storage |
| Listing, cursors | `list` and `encodeCursor`/`decodeCursor` of all stores | none (the cursor is the caller's) | one page per call | the services' own pages |
| Byte ownership | `copyBytes`, `bytesToStream`, the copy in `readBlobBody` | buffers shared with callers | copy in, copy out | put, get, body reader |
| Validators | the `assert*` functions of all `index.ts` | none | pure functions | called first by every operation |
| Conformance suite | `storage-blobs/src/conformance.ts` | answers of earlier steps | run its cases | any store |
| Release publication | `scripts/release-packages.mjs`, `.github/workflows/publish.yml` | tag, manifest, artifact, the npm registry | authenticate, pack, smoke, verify, publish, confirm, run again | npm registry, GitHub Actions |
| Release validation | the same two | none | checks of tag, versions, lockfile, packed files | called by the prepare job |
| Application patterns | `docs/APPLICATION_PATTERNS.md` | metadata rows beside blobs | upload, download, orphan cleanup | BlobStore and a database |
| Tests, harness, CI | `tests/`, `test/`, workflows | — | — | — |

What is hard in it:

* **Awaits.** JavaScript runs one callback at a time, so the memory store is
  atomic between awaits. Its `put` awaits the body between checking its
  conditions and storing.
* **Several requests for one call.** S3 answers 409 without saying whether the
  key is taken and deletes without saying whether it was there, so the adapter
  asks with HEAD before or after; each answer may be stale when it is used.
* **Remembered facts.** `bucketVerified` and `ensureContainer` outlive what
  they were learned from and are shared by all calls of a store.
* **Lost answers.** A request that fails may have been applied; the S3 and Azure
  clients may send it again by themselves, as their retry policies do by default.
* **Etags that come back.** S3's ETag is derived from the bytes, so the same
  bytes put again make an old condition true again.
* **A body that is not under control.** It may be slow, endless, too large,
  illegal, or hang when it is cancelled; and its bytes, like those handed out,
  are in buffers that somebody else writes to.
* **Listings that are no snapshot.** Keys come and go between the pages of a walk,
  and a service may show one again that was deleted and put meanwhile.
* **Cursors that travel.** A page boundary outlives the keys it was cut at, and
  a cursor may be handed to another store.
* **A suite that decides who conforms.** A case that passes a wrong store, or
  fails a right one because of an order it did not expect, is not noticed.
* **Publication without a transaction.** Packages go out one after another to a
  registry whose queries lag; the job may die between any two steps, and the
  tag that names what is released may be moved between them.

What makes each component correct: the port's promise that a call takes effect
at one moment and answers truthfully (all stores); that no update is lost and
no etag comes back (memory store); that a walk skips nothing that was there
throughout, stays in its bucket and ends, and over the memory store repeats
nothing (listing); that a body is kept
whole or rejected for the right reason (body reader), whoever writes to the
buffers (byte ownership); that a stale HEAD costs nobody an object of another etag
and a bucket that never existed is not a free key (S3, R2); that the container is created once and a
failure does not poison the store (Azure); that the suite raises no false alarm
and tells every deviation it is about (conformance); that a release is never
mixed, comes from a reviewed commit, never installs without its dependencies,
and can be finished after any failure.

## 2. Modules

    BlobPort            requests, answers, constants of all stores
      BlobStore         abstract: what the port promises -> BlobStoreProofs
      MemoryBlobStore   implements BlobStore          -> MemoryBlobStoreProofs
      S3BlobStore       implements BlobStore          -> S3BlobStoreProofs
                        (Lossy, BlindDelete, EtagsComeBack, Resends)
      AzureBlobStore    implements BlobStore          -> AzureBlobStoreProofs
                        (Lossy, Resends, Perishable)
    Listing             list of every store           -> ListingProofs
    BodyReader          readBlobBody                  -> ByteOwnershipProofs
      ByteOwnership     implements BodyReader         -> ByteOwnershipProofs
    Validators          the assert functions
      ConformanceCases  what the suite calls and asserts
      ConformanceStore  the store it is run on
        Conformance     the run of the suite          -> ConformanceProofs
                        (its store without a deviation against BlobStore)
    ReleaseRules        checks of lockfile, versions, tag
      Publication       abstract: what the registry's users are promised
      Release           implements Publication        -> ReleaseProofs
    MC<module>          values, symmetry and bounds for TLC

**BlobPort.** An object is its etag and its size: bytes, content-type,
cache-control and metadata are written together with one etag and never change
under it. Etags are numbered in the order they are given out. A request is a
record, which says of a put also what will come of reading its body (`bodyFails`:
too large, an illegal chunk, a stream that fails); `Thrown(x)` is a promise that
rejects with an error of class `x`.

**BlobStore.** Each call has one moment between start and answer at which its
conditions are judged, its put or delete is applied whole, and its answer is
decided (`decided`); it may be told later (`Tell`). A put gets an etag from
outside `issued`. A call that throws has no effect; it throws when its options are
illegal or its body fails, and for no other reason: a put that loses a race is
refused. The remote stores promise
less, and say so when they instantiate it:

* `Lossy`: a request may fail and an answer may be lost, so any call may throw, and one
  that throws may have had its effect.
* `BlindDelete`: an unconditional delete may succeed on a free key. Of two
  unconditional deletes of one object both report success, because each sends
  its DeleteObject on the strength of a HEAD of before. `index.ts:244` says that
  delete of a missing key is `missing`; this is what S3 makes of it.
* `EtagsComeBack`: an etag names the bytes and not the version. `cameBack` holds
  the etags that were given out again; a call that names one of them may be told
  `changed` although it is back.
* `Resends`: the client repeats a put or delete whose answer was lost, so it may
  take effect again. A create-only put that meets its own first attempt is
  refused by it, and so is told `exists` of its own object, as an if-match put is told
  `changed` and a delete `missing`: that is a second moment of the call.
* `Perishable`: the owner of an Azure container may delete it with all that is
  in it. While that goes on, a create-only put may be told `exists` of a free key.

`OneWinner` is what a caller uses `ifMatch` for, stated of the port alone: of
those who name one version, two are never told that they replaced or deleted
it (where an etag names the bytes: unless they came back). Each store inherits
it through its refinement.

**MemoryBlobStore.** `PutStart` is everything up to the `await` (line 784), with
its three outcomes `PutRejected`, `PutRefusedEarly` and `PutAwaitsBody`;
`PutBodyFailed`, `PutRefusedLate` (told what `LostRace` says) and `PutStored` are what
follows it. `Read`,
`DeleteRefused` and `DeleteDone` are whole calls. `versions` is a history of
all versions: what each replaced and what became of it.

**S3BlobStore** (and R2). One action is one request: served by the service and
handled by the adapter up to its next request or its answer. `stage[c].sent` is
the request call `c` waits for; a HEAD is named by what its result decides
(`headAfterCreate409`, ...), and `checking` says that it waits for HeadBucket
now. `Missing` and `Present` are what each HEAD concludes; `Diagnoses` is the
table of refusals that lead to a HEAD. The service is external: it applies a
PutObject whose header holds, refuses with 404, 409 (only while another write
of the key is under way) or 412, or fails. `contents[e]` is what bytes etag `e`
stands for, so that putting the same bytes brings the etag back. `Faults` says
which faults happen. `PutResent` and `DeleteResent` are the client sending again a
request that was applied: the adapter sees nothing of it. `RequestsLeft` counts
the requests that can still follow, HeadBuckets included; `RetriesRunOut` says
that it falls with every reply. `NoBucketNoAnswer` is about a bucket that never was
there: one that is removed after it was seen is not looked for again, so a HEAD that
finds no bucket then says that the key is free.

**AzureBlobStore.** `ensure` is the shared promise: `Start` creates it or
waits for it, `Created` and `CreationFails` settle it for all who wait. `Awaits` is
what awaiting a promise comes to: one that was rejected and is still remembered
would answer every call at once with its old error; `AfterFailure` forgets it.
`StoreRecovers` says so. The rest is one request per call, and getProperties after a
409 or 412. The client is external: by its default retry policy it sends an upload or a
delete again whose response was lost or was a 5xx (`PutResent`, `DeleteResent`), with
the conditions it had, and the adapter answers for the resend. (`createIfNotExists` and
the reads have the same effect however often they are sent.)
`AnswersLeft` is how many a call waits for at most, `CallsRunOut` says that it falls.

**Listing.** A page depends only on which keys are taken, so the objects are
that set and a prefix is the set of keys under it. `WalkPage` is one call of
`list`: `MemoryPage` is the slice of the memory store, `ServicePages` are the
pages a service may answer with: short or empty ones with a continuation too, and
keys again that it has shown before, since "concurrent puts and deletes may produce
duplicates" (`index.ts:253`). `WalkListsOnce` is therefore about the memory store,
whose pages are slices of one sorted sequence.
A cursor is its kind, the `backendId` and a position; `Accepts` is the check
each store's decoder makes. `CursorRejected` and `PageFails` are what else a
call may come to; the caller asks again.

**BodyReader.** One action per reply of `reader.read()`. Bytes are numbered in
the order they are sent, so that one lost, repeated or out of place shows.
`cancel` is a promise nobody awaits. `ReadsLeft` bounds the replies still to come:
each byte up to the limit in a chunk of its own, and every allowed empty chunk
before each of them; `ReadsRunOut` says that every reply lowers it.

**ByteOwnership** is BodyReader with owners. The caller overwrites the array it
handed over; a source fills one scratch buffer again; a stream with a high-water
mark pulls a chunk ahead; readers of `get` overwrite the chunks they are given,
or transfer them, which detaches what is left of their own snapshot
(`ReaderTransfers`) and closes their stream early. Its steps are BodyReader's,
or leave BodyReader's variables alone (`ReadsAsBodyReader`).

**Conformance.** `Validators` has every rule of every assert function as a named
entry, over what it tells apart of a value (the one exception: no metadata name
comes twice, which the entries of an object cannot break). `ConformanceCases` is the suite:
each case a sequence of calls with what it asserts of the answers.
`ConformanceStore` is the memory store with all attributes of an object, or a
`deviation` of it: one rule left out, or one mistake an adapter's author may
make (`Mistakes`). `Conformance` runs the cases; the writers of the concurrent
case each go on in any order. `PromiseKept` says in the terms of `BlobStore` (its
`Admitted` and `RefusedFor`) what the outcome of one put or delete has to be.

**ReleaseRules, Release.** A commit is what the rules tell of it: versions,
specifiers, lockfile entries, package inventory. `ResolvedVersionSatisfies` is
the script's case analysis of ranges. A package's tarball is its integrity, a
manifest one integrity per package. The prepare job is `StartPreparing`,
`AuthenticateSource`, `Prepare`; then `Smoke`; the publish job authenticates
again (`ReauthenticateSource`), compares its downloaded copy (`CopyVerified`)
and loops over the records: `PublishAbsent`, `SkipExisting` or
`DifferentIntegrity`; `Publish` or `PublishRejected`; `ConfirmPublished`,
`ConfirmAgain` or `ConfirmGivesUp`. `JobDies` is a failure at any point,
`Propagate` the registry's queries catching up, `MoveTag` somebody moving the tag.
The prepare job judges its own copy of the tag, fetched after the check-out
(`publish.yml:83`): the step `Prepare` stands at that fetch, and a `MoveTag` after it is
a tag that moves while the packages are built.
`StepsLeft` counts the steps a publish job can still take.

**Publication** knows no jobs, records, queries or retries: a manifest is sealed
from a commit that somebody vouched for, the registry grows by one of its packages
at a time, each beside packages of that manifest which everybody can find, and
nothing published ever changes. `Release` implements it with its artifact's
manifest (`prepared`) as the sealed one and a job that is done as the report
(`ImplementsPublication`): every failure, lag and re-run in between is a stutter.

Definitions marked `\* slip` are used nowhere. Each is the mistake some property
is there to catch (a condition not checked again, a counter reset, a header not
repeated on the retry, a promise not shared): put in the place of the
definition it follows, it makes TLC find that property violated.
`PROJECT.json` lists the pairs.

## 3. Runs

| Run | What it shows | Bounds |
|---|---|---|
| `memory_store` | `EtagsNeverReused`, `NoLostUpdate`, `CreateOnlyExclusive` and `ImplementsBlobStore` while two calls race; a lost race is answered, not thrown | 2 callers, 1 key, 3 etags; legal and illegal options, failing bodies |
| `listing` | a walk finds what was there throughout, stays in its bucket, ends; over the memory store it lists nothing twice | 4 keys, a prefix of two, limits 0..3 of at most 2; 5 stores |
| `byte_ownership` | bodies kept whole, exact limit, slow streams survive, readers get snapshots, every body is decided; `ReadsAsBodyReader` | limit 12, first buffer 2, chunks 1..5, 2 empty chunks, 2 readers |
| `s3_port` | `ImplementsBlobStore` (Lossy, BlindDelete, EtagsComeBack), `NoBucketNoAnswer`, `DeleteKeepsOthersObjects` | 2 callers, 1 key, 3 etags; failing bodies and requests, missing bucket, repeated bytes |
| `s3_resend` | though puts and deletes are resent and conflict, `IfMatchOnce`, `OneWinner` and `CallsAreAnswered` | 2 callers, 1 key, 3 etags |
| `azure_port` | `OneCreation`, `ImplementsBlobStore` (Lossy, Resends, Perishable) | 2 callers, 1 key, 3 etags; failing bodies, requests and creations, resends, a container that is deleted; an illegal `maxBytes` |
| `azure_live` | `CallsAreAnswered`, with failures, resends and a container being deleted; `StoreRecovers` after failed creations | 2 callers, 2 etags |
| `release` | `NoMixedRelease`, `DependenciesFirst`, `DoneIsComplete`, `ReviewedSource`; `ImplementsPublication`; re-running the failed jobs completes the release | 2 packages, 2 builds each, 7 commits, 2 packings, 1 failure, 1 tag move, 2 confirm queries |
| `conformance` | `OneWriterStores`, `NoFalseAlarm`, `DeviationsAreCaught` over all cases | 3 concurrent writers; every rule and mistake, with both kinds of etags |

Why the bounds are enough. Objects at different keys never interact (only
`etagGeneration`, `bucketVerified` and `ensureContainer` are shared), so one key
shows the races; two callers are every pair of handlers in every order, and a
caller starts a new call whenever it has an answer, so the pair replays with
stale etags of earlier calls. Three etags give a version, its successor and a
re-creation after a delete. `MaxEtag` bounds what is issued; `EtagsLeft` (`EtagLeft` in the memory store) keeps a
put from starting when no etag would be left for it, so that the bound never
looks like a call that hangs; a resend takes an etag as well, so a call is resent
twice at most. Sizes are nothing to the races: the stores' runs have one legal size
and an illegal ceiling, and the theorems have no such bound. They matter in the
body reader, whose
numbers are 16 KiB and the like divided down, chosen so that the buffer grows
from empty, doubles twice, needs more than double, and is capped by the limit
(2, 4, 8, 12); a body of twelve comes out of `get` in three chunks of five, the
last cut short. Four keys give a walk a first, a middle and a last page with a
key before and after its cursor, and the prefix one with a key on either side.
Of the five stores two are of one kind and two share a `backendId`.

In `release`, two packages are the core and one that depends on it; one failure
is a death anywhere, two packings a second build over half of a first, one tag
move lies before or after each authentication. Five of the seven commits break
one rule each, the other two may be released. With `MaxFailures = 1` a
re-run is not interrupted again; the theorems have no such bound. All
retries of a release are of one sealed artifact: `RetriesComplete` promises
nothing once it was packed anew, or while the tag is moved.

The conformance suite is finite and runs as it is. Its concurrent case has more
writers than three, but each does the same; three already give a first, a last
and one in between.

Callers are symmetric where the run has no liveness property. Deadlock is
checked except where the system stops: a body that was decided and read, a suite
that has run, a release that is done with no packing left.

### What the suite does not assert

`conformance` finds twelve deviations no case fails on (`NotAsserted` in
`MCConformance`): unpaired surrogates in paths (`pathUnicode`), an empty or too
long content-type (`typeEmpty`, `typeBytes`), the bounds on metadata
(`metaEntries`, `metaKeyBytes`, `metaValueBytes`), a metadata value that is no string
(`metaString`), a `maxBytes` that is negative or not whole (`maxBytesNegative`,
`maxBytesFraction`), a limit that is not whole (`limitFraction`), if-match judged only
before the body is read (`lateIfMatchUnchecked`), and a cursor that counts keys instead
of naming one (`cursorByIndex`). The validators behind the first seven are exported, so an
adapter that calls them has those; the last five are for an adapter's own tests. Twelve is
the least there are: a deviation leaves a check out of every call at once, so one that
misses it in a single operation may pass where the whole one fails.

### Runs that find a disagreement

Three runs state what a document or comment says and find the code doing
otherwise. None is a defect in the memory store's state.

| Run | Says | Does |
|---|---|---|
| `s3_races_throw` | `ADAPTER_AUTHORING.md:140`: do not throw for expected races | with no fault at all, a create-only put whose retry was refused and whose HEAD finds the key free again throws; so does an if-match put that meets 409 twice |
| `scratch_buffer` | `index.ts:660`: copied immediately, streams may reuse one scratch buffer | a stream that has pulled one chunk ahead is pulled again by the read that takes that chunk out, and fills its buffer before the chunk is copied |
| `azure_exists` | `index.ts:115`: `exists` means the key was taken | any 409 is answered `exists`, that of a container being deleted too |

`byte_ownership` therefore has only sources that fill a buffer of their own per
chunk, or a scratch buffer with no pulling ahead.

### Fairness

* `Listing`: `WF(\E s : WalkPage(s))`. A caller that walks goes on asking, and a
  request does not fail for ever; `list` itself awaits one request at most.
* `BodyReader`, `ByteOwnership`: weak fairness of the stream's answers to reads,
  by whatever chunk. Nothing is assumed of `CancelSettles`, nor of any reader,
  source or caller that writes.
* `S3BlobStore`, `AzureBlobStore`: weak fairness of each call's `Serve`, and of
  the answer to container creation. SDK clients time out, so every request is
  answered, if only with a failure. Nothing says it ever succeeds, except what
  `StoreRecovers` has as its premise: calls keep coming, a creation that is possible
  again and again succeeds some time (`SF_vars(Created)`), and a container that is
  being deleted is gone some time.
* `Release`: weak fairness of the steps of its three jobs (they have time limits
  and no waits without bound), of `Propagate` (the registry is eventually
  consistent) and of `RerunFailedJobs` (a maintainer follows "Safe retry" in
  `RELEASING.md`); failures are finitely many. A new packing is not fair.
* `Conformance` states no liveness.

## 4. Proofs

`TLAPS` proves these for every value of the constants that satisfies the
assumptions in the modules: any callers, keys, ceilings, numbers of etags,
packages, commits, failures.

| Module | Theorems |
|---|---|
| `BlobStoreProofs` | `TypeCorrect`, `OneWinnerHolds` |
| `MemoryBlobStoreProofs` | `TypeCorrect`, `EtagsUnique`, `UpdatesKept`, `CreationExclusive`, `Implements`, `OneWinnerHolds` |
| `S3BlobStoreProofs` | `TypeCorrect`, `NoBucketSaysNothing`, `IfMatchAppliedOnce` (1), `DeleteSparesOthers`, `RetriesEnd`, `Implements`, `OneWinnerHolds` |
| `AzureBlobStoreProofs` | `TypeCorrect`, `CreatedOnce`, `CallsEnd`, `Implements`, `OneWinnerHolds` |
| `ListingProofs` | `TypeCorrect`, `SteadyKeysFound`, `ListedOnce`, `StayedHome`, `PagesAdvance` |
| `ByteOwnershipProofs` | of the body reader: `TypeCorrect`, `BodyKeptWhole`, `LimitExact`, `SlowStreamKept`, `ReadsEnd`; of its owners: `OwnershipTypeCorrect`, `OwnersKeepLimits`, `OwnersReadsEnd`, `StreamsKept` (2), `OwnersKeepBodyWhole` (2), `OwnersStutter` (2) |
| `ConformanceProofs` | `TypeCorrect`, `OneWriter`, `StoreKeepsPromise` |
| `ReleaseProofs` | `TypeCorrect`, `ReleaseUnmixed`, `DependenciesFound`, `DoneComplete`, `SourceReviewed`, `Implements`, `RetriesFindTheirOwn`, `JobEnds`, `RangesAreIntervals` |

Beside the modules' assumptions two things that may happen are excluded where a
property needs it: (1) no caller puts old bytes again, since with their etag
the condition is back too; (2) `NoScratchAhead`, no source fills a scratch
buffer ahead of a read, and `scratch_buffer` shows what happens if one does. The
runs check within the same limits. The refinements are proved
under every fault the modules have; that of S3 under
resends is proved only, as are `RetriesRunOut`, `OneWinner` of the memory and Azure stores, which
follows from what their runs check, `WalkAdvances`, `RetriesAgree`, the measures
`CallsRunOut`, `ReadsRunOut` and `JobRunsOut`, and `PromiseKept`. (TLC found no
violation of these on the instances of `azure_port`, `byte_ownership`, `release`
and `conformance` either.) What `Conformance` assumes of a suite
(`SuiteAssumption`: a case has a step or more, concurrent puts are create-only)
TLC evaluates on the suite there is.

Each follows from an inductive invariant, with one step per action: `Init`
implies it, `[Next]_vars` keeps it, it implies the property.

* **The port.** `Inv` of `BlobStoreProofs`: two objects share an etag only if it
  came back (`OneHolder`), and the version a call was let replace or remove is
  gone, or came back (`SpentIsGone`). `OneWinner` alone is not inductive: it says
  nothing of the object a second winner would have to find. Each store's proof of
  `OneWinner` is its refinement, step by step, and `Inv` carried along it: nothing
  is proved of conditions, HEADs and retries again.
* **Memory store.** The properties are about `versions` and do not survive a
  step by themselves: a new put could replace what an older version replaced.
  `IInv` ties the history to the store. `Numbered`: version n has etag n, and
  there are `etagGeneration` of them. `ObjectsAreLive`, `LiveAreObjects`:
  the live versions are the objects in the Map. `ReplacedOnce`: what a version
  replaced was an earlier one, marked replaced. `FreeWereDeleted`: at a free key
  every version is or is followed by one that was deleted. `CreatedWhenFree`: a create-only
  version follows a deleted one. `PendingPutsAreLegal` is what a put learned
  before its await, and all it may still rely on after it: that its options
  are legal. What it learned of the *key* is in no invariant, which is why the
  second check is there.
* **S3.** `Typed`: the request a call waits for fits what it asked.
  `BucketHistory`: what was seen of the bucket was true once, and while there
  never was one nothing is stored. `EtagsGivenOut` and `Spent`: once an if-match
  put or delete was applied, no object has the etag it named. `RetriesEnd` needs `Typed` only: a
  call in flight waits for something, and each of the things a reply makes it
  wait for next has fewer requests to follow. For the refinement, `Asked`
  bounds what a HEAD can find: after a 412 an object of the named etag is gone or
  has come back, so each conclusion the adapter draws is true of the
  moment of the HEAD, or of the moment of the refusal. That is where a call takes
  effect; a resend is one more such moment, with the answer still open.
* **Azure.** `Promise`: a creation is under way exactly when somebody waits for
  it, and no request is sent before one succeeded. `Outdated`: a call that asks
  why it was refused finds no object of the etag it named, because a new
  object has a new etag (`EtagsKnown`). `ContainerKept`: nothing is stored in a
  container that is being deleted or is gone, so its deletion is `Perish` of the port,
  and a 409 that comes of it is an `exists` the port allows while it is Perishable.
  `ResendSays`: a resend is one more moment of effect, with the answer still open, so
  the refusal by a call's own first attempt is true of the moment it comes at.
  `CallsEnd` needs `Typed` only: a creation that succeeds or fails wakes all who
  wait, each for its own request or for its error, and never to wait again.
* **Listing.** `Home`: the walk's cursor names its own store. `Shown`: no key
  beyond the cursor's position was shown yet, and over the memory store none twice. `Found`: every steady key up to it
  was. The lemmas before them are about what a page may contain, wherever a service cuts
  it; with them `PagesAdvance` gives a walk at most one page more than there are keys.
* **Body reader.** `Counts`: `empties` is the stream's current run of empty
  chunks. `InOrder`: the filled part of the buffer is bytes 1 to `total`, and
  `total` is what was sent. `Lulls`: a run that was rejected is one beyond the budget.
  `ReadsEnd` trades a chunk's bytes against the empty chunks that may follow it:
  a chunk resets the budget of `MaxEmpty`, but has at least one byte less to go.
* **Byte ownership.** For any source, `AnySourceInv`: how much was stored and how
  far each stream is within it (`Sized`, `Shapes`), which is what keeps every read
  inside its buffer and the limit exact, whatever the bytes are. Without scratch buffers that
  are filled ahead, also which bytes: `QueueOk`, `StreamsOk`: what a stream has yet to deliver of
  its snapshot are the bytes that were put. The step of an owner leaves the body
  reader's variables alone, so its invariant carries over.
* **Conformance.** `Placed`: the runner is at a step there is. `AtRace`: while
  writers are in flight it stays at the step that started them, so that they and the
  key they race for belong together; then `OneWriterStores`, which says who may have
  stored so far, is inductive for any number of writers and any answers they got.
  `StoreKeepsPromise` is of one call on any backend: with no deviation there is a
  reason to refuse exactly where `BlobStore` admits the request not, so a suite that
  raises no false alarm asserts no more than the interface of its puts and deletes.
* **Release.** `RecordsBefore`: every record before the current one is in the
  registry with the integrity of the artifact and can be found; `VisibleExist`:
  queries find only what was published. With the immutability of a published
  version these carry `NoMixedRelease` over re-runs and re-packings.
  `SealedReviewed`: what is sealed came from a commit that was vouched for,
  merged and installable, whatever the tag names by now.
  `Implements` follows `Publication` from the same invariant: at `Publish`,
  `RecordsBefore` is its condition that all before are out and found, `SealedReviewed`
  that the commit was vouched for. `RetriesFindTheirOwn`: until something is packed a
  second time what is published is what is sealed; that nothing is published before
  the first sealing (`NothingBeforeSealing`) is what makes it inductive.
  `JobEnds`: a record costs a look-up, a publish and its queries, and none comes back.
  `RangesAreIntervals` compares the script's case analysis of version ranges with
  npm's definition of them as intervals.

Model-checked only:

* Liveness, since the prover handles neither fairness nor ENABLED here: `WalkEnds`,
  `BodyIsDecided`, `CallsAreAnswered`, `RetriesComplete` and the fairness part of
  `ReadsAsBodyReader`. What each rests on beside fairness is proved for every
  instance, a measure that falls with every step: `PagesAdvance` for walks, `ReadsEnd`
  and `OwnersReadsEnd` for bodies, `RetriesEnd` and `CallsEnd` for calls, `JobEnds` and
  `RetriesFindTheirOwn` for the re-runs of a release.
* `NoFalseAlarm` and `DeviationsAreCaught`. Both are about the suite as it is: what
  each of its cases asserts is computed from that case's data by folds and sorting, so a
  proof would be the run itself, case by case, and induction over data is not
  available to the prover. What does not depend on the cases, `OneWriterStores`, is proved.

## 5. Not modelled

* The protocol of `APPLICATION_PATTERNS.md`: a document with no code behind it.
  What it relies on of the store is proved, with one exception: a put is applied
  whole, and a conditional delete removes no object but one of the etag it names. That is
  the object its caller listed, unless, on S3 and R2, somebody put the same bytes again:
  then the etag is back, and the newer object goes, though `APPLICATION_PATTERNS.md:96`
  says that "a newer object at the same key is not removed". The adapter cannot tell
  the two apart. `DeleteKeepsOthersObjects` speaks of the etag, not of the version.
* The unit tests, the emulators of the test harness, and the CI workflows other
  than publication: no state of the product.
* The files of a tarball (`validatePackResult`) and a package's metadata
  (`validatePackageMetadata`): comparisons of one attribute each, present as a
  preparation that may fail and as one Boolean.
* The characters of keys, cursors, etags and versions, and the wording of errors.
* S3-compatible servers that ignore `If-Match` on a DeleteObject, which a comment
  in the adapter mentions: there its HEAD alone stands between a conditional
  delete and a newer object, and `DeleteKeepsOthersObjects` cannot hold.
* Streams returned by `get` from remote stores, once handed to the caller: they
  are the service's.
* A chunk that is no `Uint8Array` rejects the put without cancelling the stream;
  no document promises a cancel there, and the model leaves it alone.

## 6. Plan

Done: the port and all stores with their refinements proved, listing, body reader
and byte ownership, the conformance suite and its store, the publish workflow with
its rules and its promise.
What would come next, as the code grows:

1. The suite run on the S3 and Azure models, so that what it asserts is also
   asserted of their retries.
2. `lateIfMatchUnchecked` and `cursorByIndex` as cases, once the suite has them:
   move them from `Unasserted` to `Deviations`.
3. The upload and cleanup protocol over `BlobStore`, once code implements it.

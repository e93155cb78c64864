# Verification of SFree

TLA+ models of SFree, an S3-compatible object store that keeps the bytes of its
objects as chunks on Google Drive, Telegram or other S3 services and keeps their
metadata in MongoDB. The models follow the Go server under `src/api-go`; TLC
checks them on small instances, TLAPS proves the theorems for all instances.
`PROJECT.json` lists the runs, the source lines of every definition, the
findings, the hazards and the theorems.

## 1. The system

The server (`api-go`) is a stateless HTTP process. All durable state is in
MongoDB collections and at the sources; no two writes share a transaction, no
lock is held across calls, and every request may interleave with every other
one, in the same process or in another replica.

| Component | State | Operations | Behaves hard because |
| --- | --- | --- | --- |
| object service (`manager/s3_object_*.go`, `handlers/s3_object.go`) | documents of objects, one per (bucket, key), with a chunk list | PutObject, CopyObject, DeleteObject, GetObject, DeleteFile | two stores without a transaction; copies share chunks; cleanup by reference count after the fact |
| multipart uploads (`manager/s3_object_multipart.go`, `handlers/s3_multipart_*.go`) | one record per upload with its parts | Create, UploadPart, Complete, Abort, list | every handler works from a copy of the record; parts are deleted without a reference check |
| documents (`repository/file.go`, `repository/multipart.go`) | MongoDB | GetByName, ReplaceByName, Delete, CountByChunk, SetPart | upsert under a unique index, one retry; update pipelines |
| chunk upload (`manager/chunk_upload.go`, `source_selector.go`, `source_client.go`) | chunks sent so far, a client per source, the selector | upload chunk by chunk, fail over, clean up | partial failure, calls that time out and take effect |
| chunk download (`manager/chunk_stream.go`, `handlers/download_stream.go`) | position in the chunk list | full and ranged reads, checksums, headers with the first byte | the document may change under the reader; range arithmetic |
| chunk deletion (`manager/chunk_delete.go`) | none | delete in order, stop at the first error | a chunk that is gone is an error on Drive and Telegram |
| resilience (`resilience/`) | breaker state, failure counter, opening time | withRetry around Upload, DownloadStream, Delete; Download | concurrent callers, probes, retries, timeouts |
| rate limiters (`ratelimit/`) | a token bucket per address and per identity | reserve, cancel, Cleanup, three middlewares | a reservation is taken before a request is identified and given back when it ends, perhaps after Cleanup dropped its bucket |
| buckets, sources, grants, share links (`handlers/bucket*.go`, `source.go`, `sharelink.go`, `permission.go`) | four collections that refer to each other | create, delete, update, grant, share | check-then-act over several collections; deletion in several steps |
| listings and DeleteObjects (`handlers/s3_list.go`, `s3_multipart_list.go`, `s3_delete_objects.go`) | continuation token held by the client | pages of keys, uploads, parts and common prefixes; deletion of a list of keys | the collection changes between pages and between the queries of one page; clients delete what they list |
| accounts and tokens (`handlers/auth.go`, `oauth.go`, `user.go`) | the users collection, tokens held by clients | register, GitHub callback, log in, current user | find-then-create under a unique index on the username only; tokens outlive what they name |
| request signatures (`s3sigv4/`, `handlers/aws4.go`) | none | validate the signature of a header or presigned request | the canonical form must forget what proxies rewrite, and nothing else; time windows |
| provider clients (`gdrive/`, `telegram/`, `s3compat/`) | external | Upload, Download, Delete | may fail, be slow, or fail after taking effect |
| assembly, config, crypto, telemetry (`app/`, `config/`, `cryptoutil/`, `cmd/server`) | none | wiring | - |
| CLI, migration tool, web UI, archived Python service | none of their own | clients of the API | - |

A request first passes the limiter by address, then authentication, then the
limiter by identity, and only then its handler. From there calls go downwards: a
handler looks up the bucket and calls the object service; the service calls the
repositories (MongoDB) and the chunk functions; those call source clients, each
wrapped in the resilience wrapper. Nothing calls back. The shared state through
which requests affect each other is the collections and the chunks at the
sources. A transfer builds its own client cache
(`newSourceClientCache`), so a breaker is shared by the calls of one transfer,
which come one after the other, not by all requests of the server.

What makes each correct: an object that was acknowledged can be read; a put or
a delete takes effect once or not at all; space is given back when nobody lists
it, and never before; an upload loses no acknowledged part; a source that
recovered is used again; a range is answered with its bytes and no others; a
bucket keeps its sources, and a deleted bucket leaves nothing; a listing misses
nothing that stays; a request is let in exactly when it ought to be, and no
client gets more than its rate.

## 2. Modules

| Module | Models | Sources |
| --- | --- | --- |
| `ObjectStore` | put, copy, delete and get of one bucket, call by call | `manager/s3_object_write.go`, `s3_object_delete.go`, `chunk_*.go`, `repository/file.go`, `handlers/s3_object.go` |
| `ObjectStoreSpec` | what the object API promises: an atomic map from keys to bodies | abstract |
| `ObjectStoreRefinement` | `ObjectStore` implements `ObjectStoreSpec` | mapping |
| `ObjectStoreProofs` | TLAPS proofs about `ObjectStore`, and of that refinement | - |
| `MultipartStore` | UploadPart, Complete and Abort of multipart uploads | `manager/s3_object_multipart.go`, `s3_object_write.go`, `repository/multipart.go` |
| `MultipartStoreProofs` | TLAPS proofs about `MultipartStore` | - |
| `CircuitBreaker` | breaker and retry loop of a source client | `resilience/*.go` |
| `CircuitBreakerProofs` | TLAPS proofs about `CircuitBreaker` | - |
| `BucketLifecycle` | buckets, sources, grants, share links and object documents, and the order in which handlers look at and write them | `handlers/bucket*.go`, `source.go`, `sharelink.go`, `permission.go`, `manager/s3_object_bucket_cleanup.go`, `repository/*.go` |
| `BucketLifecycleProofs` | TLAPS proofs about `BucketLifecycle` | - |
| `ChunkUpload` | one upload: pieces of the body, selectors, failover, cleanup, commit | `manager/chunk_upload.go`, `source_selector.go`, `source_client.go`, `s3_object_write.go` |
| `ChunkTransfer` | extends `ChunkUpload`: the object is read back, whole or a range of it | `manager/chunk_stream.go`, `handlers/download_stream.go`, `s3_object.go` |
| `ChunkTransferProofs` | TLAPS proofs about `ChunkUpload` and `ChunkTransfer` | - |
| `ObjectListing` | paged listings over a changing collection, and DeleteObjects | `handlers/s3_list.go`, `s3_multipart_list.go`, `s3_delete_objects.go`, `repository/file.go` |
| `ObjectListingProofs` | TLAPS proofs about `ObjectListing` | - |
| `OrderLemmas` | induction over the naturals, for the two modules of proofs about running sums and ranks | - |
| `RateLimiter` | the token buckets | `ratelimit/ratelimit.go` |
| `SignatureV4` | what a signature covers and when it is accepted: pure operators | `s3sigv4/validator.go` |
| `RequestGate` | composes `RateLimiter` and `SignatureV4` with the middlewares, accounts and tokens | `ratelimit/middleware.go`, `handlers/auth.go`, `oauth.go`, `user.go`, `aws4.go`, `s3_bucket_discovery.go` |
| `RequestGateProofs` | TLAPS proofs about `RateLimiter`, `SignatureV4` and `RequestGate` | - |
| `MC*` | symmetry and parameters for TLC | - |

Operators under a comment `Mutant:` are not part of a model. Each is a version
of the definition after it with a plausible bug, used to see that a property
notices that bug; `PROJECT.json` pairs them.

### ObjectStore

`files` is the collection of object documents, `store` the chunks that exist at
the sources. Each request has a control point `pc`, and the local variables of
the Go functions that serve it: `req` (what was asked), `sent` (chunks
uploaded), `snap` (the document GetByName returned), `work` (chunks still to
check or to read), `doomed` (chunks being deleted), `res` (its answer). A chunk
is named by the request that uploads it and its index; the object ids the code
draws are unique in the same way. A document's `body` stands for content, ETag,
content type and metadata, named by the put that wrote them.

Each call to MongoDB or to a source is one step; the code between two calls is
local and belongs to the step before it.

| Action | Code |
| --- | --- |
| `UploadChunk`, `EndOfBody`, `UploadFails`, `CleanupUploaded` | `UploadFileChunksWithStrategy`, `cleanupUploadedChunks` |
| `Lookup` | `GetByName` in CopyObject, DeleteObject and GetObject |
| `Replace`, `Insert`, `Retry`, `ReplaceFails` | `ReplaceByName`: find-and-update with upsert, the insert the server makes of it, the retry after a duplicate key |
| `ReplaceError` | the callers' error path: PutObject deletes its chunks, CopyObject owns none |
| `CountReferences`, `DeleteChunk`, `CountFails` | `deleteFileChunksIfUnreferenced`, `deleteFileChunksWithFactory` |
| `DeleteDocument` | `files.Delete` by the `_id` that was looked up |
| `StreamChunk`, `StreamFails` | `streamFileWithFactory` |
| `Crash` | the process dies; the request never resumes |

`Faults` says what may go wrong: a source call or the client's body fails, a
MongoDB call fails without effect, a MongoDB write is applied and its reply is
lost, the process dies. An upload that times out may have stored its chunk; the
resilience wrapper or the failover then stores it again, which makes another
copy at another source and on Drive and Telegram, whose chunks are named by an id
that only an answer brings. The request may succeed or fail. Nobody knows the
first copy and nothing tells of it: what is logged is that an upload is retried
or fails over, not that something is left. All such copies together are `Stray`,
since nothing ever reads or deletes one.
`overlapped` is a history variable for the properties; no action reads it.

### MultipartStore

`record`, `target` and `parts` are the collection of upload records. A part is
one chunk, because the races are between parts; lists of several chunks are
`ObjectStore`'s subject, and so are the steps inside ReplaceByName, which is one
step here. Each of the three writes, SetPart, the commit and the deletion of the
record, may also be applied and reported as failed (`SetPartReplyLost`,
`CommitReplyLost`, `CloseReplyLost`): UploadPart then deletes the chunk that the
record has just come to list. Copies of timed-out uploads are `Stray` here too.
A part's ETag is a hash of its chunk names, so a client that names a part by
ETag names the request that uploaded it: `req.list` of a completion. `Old` is
the chunk of an object that was put before the uploads and may have copies under
other keys.

### CircuitBreaker

Each critical section of the breaker is one step. `failures` is capped at
`Threshold` and `sinceOpened` at `Recovery`: the code only compares them to
these. `healthy` is the source; an attempt succeeds when it is healthy. A source
answer that is an error for any other reason (a chunk that is gone, a timeout)
is an attempt made while `healthy` is false. Upload, Download, DownloadStream
and Delete run the same loop, so one loop is modelled. The server gives a
transfer a wrapper of its own and calls it from one goroutine: that is one
caller. The wrapper's own contract has any number, which the passing run and the
proofs cover.

### BucketLifecycle

The six collections that refer to each other are `sources`, `buckets`, `files`,
`uploads`, `links` and `grants`; `store` is what lies at the sources. Nothing in
MongoDB keeps them consistent, only the order of each handler's calls does, so
every call is a step. A request is one of fourteen operations; its control point
`pc` names the call it makes next, `doc`, `work` and `todo` are what it holds.

| Actions | Code |
| --- | --- |
| `ReadBucket`, `ReadGrant` | `requireBucketAccess` |
| `LoadSource`, `Probe`, `InsertBucket` | CreateBucket with its preflight |
| `CheckReferences`, `DropSource` | DeleteSource |
| `Resolve`, `Upload`, `InsertFile`, `UndoUpload` | PutObject; `ReadOrigin`, `FindByName`: CopyObject |
| `GetFile`, `Stream`, `InsertLink`, `Unlink`, `ReadLink`, `ReadLinkedFile` | download, share, unshare, shared download |
| `DropFileLinks`, `GetFileAgain`, `DropFile`, `CountReferences`, `ReclaimFile` | deletion of objects, by id (several at a time) or by S3 name |
| `DropLinks` ... `DropBucket` | DeleteBucket and DeleteBucketContents |
| `InsertGrant`, `UpdateGrant`, `DropGrant` | grants |

A call to MongoDB may fail before it takes effect (`MetaFails`) or after
(`ReplyLost`); what the handler does is the same (`CallFailed`). The writes are
therefore written apart from the handlers that make them (`Write`): each handler
is its write and what follows it, and `ReplyLost` is the write and the error
path. So a put deletes the chunk of a document that is there, and a DeleteBucket
that stops after its grants are gone leaves an owner by grant without a right.

One account owns every source and bucket; a second one has at most a grant. An
object has one chunk and is not overwritten: that is `ObjectStore`'s subject.
`met`, `may` and `torn` are history variables, which no action reads: who was
served beside whom, who was entitled (`Entitled`) to what it asked at some moment
while it was served, and the chunks of copies that ran beside a deletion.
`NamesAssumption` says that the names of things are apart: of old things and of
those a request makes, and of `None` from all of them.

### ChunkUpload and ChunkTransfer

Byte i of a body is the number i, so that pieces, ranges and corruption can be
told apart. `ChunkUpload` follows the loop of `UploadFileChunksWithStrategy`:
`ReadPiece`, `SelectSource` (round robin, or cumulative weights), `Placed` or
`Refused`, `Failover`, `Cleanup`, `Commit`, `Undo`. `ClientLeaves` is what
net/http makes of a client that goes away: the read ends early, as if the body
did, and the request's context is cancelled, so that every later call fails.
`stray` says that an upload timed out after it took effect; nobody knows of that
copy, which is set aside as in the other modules. `ChunkTransfer` adds `Get`,
with every form of Range and an If-Range that may be stale, and the chunk loop
`SkipChunk`, `SendChunk`, `SendFails`, `EndOfChunks`. The header is committed by
the first byte (`CommitHeader`), after which an error can only cut the answer
short. `legacy` objects are those written before chunks had checksums.

### ObjectListing

A name is its position in name order, and a view is what a prefix and delimiter
select, with its common prefixes as groups. Each MongoDB query is a step
(`BuildPage`); between two of them others put and remove names (`PutName`,
`RemoveName`). `AskMultipart` serves the listings of uploads and of parts, which
take one query. A purging client passes every page to DeleteObjects
(`DeleteKey`, key by key) before it asks for the next.

### RateLimiter, SignatureV4, RequestGate

`RateLimiter` has the two limiters as one family of token buckets; reserve,
cancel and Cleanup run under the limiter's mutex and are one step each. A token
is counted in parts of 1/Minute, so that refilling is exact. `mark`, `used` and
`promised` belong to an observer that counts grants and remembers Retry-After.

`SignatureV4` has no variables. A message is a record of what a signature may
depend on; a signature is the record of what goes into the HMAC. A query is a
list of pairs, each in a spelling, because it is read twice. The validator
decodes a pair by itself and keeps one that does not decode as it is written
(`queryPartUnescape`); the handlers read `c.Query`, behind which `url.ParseQuery`
drops a pair with a bare `;` or a broken escape, and takes the first value of a
name. `CanonicalQuery` is what the first reading makes of a query, `Asks` what
the second does. `CanonicalRequest`, `WellFormed` and `Timely` follow the
validator, the multiplication of X-Amz-Expires in a signed word included
(`Lifetime`); `SameRequest` and `InTime` say, without any canonical form and
without words, when a message that arrives asks for what the sender meant.

`RequestGate` extends both. A slot is a request under way; `due` is a history
variable: whether the request ought to be let in ("yes", "no"), or either may
happen. `Arrive*` is the
limiter by address, `ReadSecret` and `Validate` are AWS4Auth, `AuthBearer` and
`AuthBasic` the middleware of the REST routes, `LimitIdentity` the second
limiter, `LookupBucket`, `ListBuckets`, `GetCurrentUser` and `TokenLogin` the
handlers behind it, `Register`, `FindByGitHubID`, `CreateLogin`,
`CreateSuffixed` and `FinishCallback` the public ones. `Finish` gives the
reservation of an identified request back. Each behaviour has requests to S3
routes or to REST routes; they share nothing but the limiters.

## 3. What is checked

Bounds are in the `.cfg` files. Requests are served once, so their number bounds
the length of a behaviour; three requests are enough for every race between two
writers and a victim, or a reader and two writers.

| Run | Bounds | Shows |
| --- | --- | --- |
| `object_store` | 3 requests, 2 keys, bodies of 0 to 2 chunks, all operations, all faults but crashes; about 2 million states | `StoredObjectsReadable`, `NoSilentLeak`, `BrokenReadsAreOvertaken`, `TypeOK` |
| `object_store_promise` | the same bounds, no copies, no lost replies, but crashes; about 1 million states | `ImplementsPromise` (refinement), `NoDangling` |
| `object_store_copy` | 3 requests, no faults | violates `CopyPreservesBytes` |
| `multipart_store` | 3 requests, 1 upload, 2 part numbers, 1 key with or without an object, all faults; about 270,000 states | `CompletedObjectsReadable`, `NoPartLost`, `RecordedPartsKept`, `NoSilentLeak`, `TypeOK` |
| `multipart_complete` | 3 requests, no faults | violates `CompletedPartsExist` |
| `circuit_breaker` | 3 callers, threshold 3, recovery 2 ticks, 0 to 2 retries | `ClosedBelowThreshold`, `ProbeDecidedWithoutRetries`, `RecoveredSourceReadmitted`, `TypeOK` |
| `circuit_breaker_probe` | 1 caller, the deployed threshold 5 and 3 retries | violates `HalfOpenIsProbed` |
| `bucket_lifecycle` | 2 requests of 14 operations, 2 buckets, 2 sources, failing MongoDB and source calls, lost replies; about 1.6 million states | `BucketSourcesExist`, `DeletionIsComplete`, `NoStrayChunks`, `LinksResolve`, `FilesReadable`, `RetryableDeletion`, `OnlyAuthorizedEffects`, `TypeOK` |
| `source_in_use` | 2 requests, no faults | violates `SourcesInUseStay` |
| `chunk_transfer` | 3 sources of weight 1 or 2, bodies of up to 4 bytes in chunks of 1 or 2, every fault, every range; about 1 million states | `CommittedWhole`, `ProportionalPicks`, `FailoverExhausts`, `FailedUploadsClean`, `ExactAnswer`, `NoWrongByte`, `EveryRequestEnds`, `TypeOK` |
| `object_listing` | 5 names, 3 views, pages of at most 2, page sizes 0, 1 and 3 asked for, 2 keys per DeleteObjects, 2 changes by others | `EachListedOnce`, `NothingMissed`, `PurgeLeavesNothing`, `ListingEnds`, `TypeOK` |
| `request_gate` | 2 slots, 3 requests, 2 buckets, 2 people, 4 moments, a minute of 2 seconds, a word that overflows at 8; about 2.3 million states | `GrantsBounded`, `RetryAfterHonest`, `VerdictIsRight`, `TypeOK` |

Why these bounds. Two keys let a copy share chunks with its source; two chunks
let a cleanup or a download be half done. A body may be empty, as the code
allows. Three requests in `MultipartStore` are a part, another upload of it or of
a second part, and a completion or an abort; or a part and two that close its
upload. Three callers let a late success or failure meet a
probe. Two requests meet every pair of operations of
`BucketLifecycle`, on contents that existed before; each property of that module
relates two requests. Three sources make failover wrap round and leave one out,
four bytes in chunks of two or one give ranges that begin and end inside, at and
across chunks, and weights of one and two give a period with a repeated source.
Five names hold a common prefix of three, one of them beyond the marker that
skips it, with a name on either side, and two changes can remove a name and put
another between two queries. In the gate an address may come twice a minute and
an identity once, so that three requests meet a refusal, a reservation that is
given back, and a bucket that Cleanup dropped meanwhile; the two people had the
same name at GitHub, so that they compete for one username. Requests, keys,
uploads, part numbers, sources, slots and buckets are interchangeable in the
definitions of the runs that declare them symmetric; the runs with liveness
properties use no symmetry.

The safety properties name their exceptions, and each exception is something
the code does. What a property says is that, of what its module models, there is
no other way it can be broken.

* `StoredObjectsReadable` (`Excused`): a copy that ran beside another request,
  and a put whose document write was applied but reported as failed, after which
  the put deletes its chunks.
* `NoSilentLeak`, in both stores: a request that died, failed or logged an
  error. Two ways have no such sign: a delete that removed a version it had not
  read (in `MultipartStore`, requests of one upload side by side), and the copy
  left by an upload that timed out after storing its chunk and then succeeded at
  the second try. The latter is never a chunk that an upload returned.
* `NoPartLost`, `RecordedPartsKept`, `CompletedObjectsReadable`: a part whose
  SetPart was applied and reported as failed (`ReplyLost`). Its upload answers
  500 and deletes the chunk; if it took the place of an acknowledged part, that
  part is lost, and a client that finds the new one with ListParts can complete
  an object with it. The last property also names the overlaps with a completion
  or an abort (`Disturbed`).
* `BucketSourcesExist`: a source deleted while the bucket's creation had checked
  it and not yet inserted the bucket.
* `DeletionIsComplete`, `NoStrayChunks`: what a request wrote beside the
  deletion of its bucket; for `NoStrayChunks` also answers that were an error or
  a warning, and copies of timed-out uploads.
* `LinksResolve`: an S3 DeleteObject, which leaves the links of its object, and
  a link created while its object was deleted.
* `FilesReadable`: a copy made while its origin was deleted, a put whose document
  write was applied but reported as failed, and a chunk that a copy brought to a
  bucket which does not list the chunk's source (`SourcesInUseStay` is the claim
  this contradicts).
* `RetryableDeletion`: the deletion of the grants that was applied and reported
  as failed. A failure of the last call, `DropBucket`, leaves an owner by grant
  without a right as well and is not part of the claim.
* `FailedUploadsClean`: copies of uploads that timed out after taking effect.
* `VerdictIsRight`: a token whose account could not be looked up (any error of
  GetByID is a 401); a query that its two readers read differently, because a
  pair does not decode or a name comes twice; and an X-Amz-Expires so large that
  the product overflows, which may pass the check of the maximum.
* `ExactAnswer`, `NoWrongByte`: objects from before checksums.
* `NothingMissed`: a page of max-keys 0, which sends the client past the name it
  found (`blind`), and a common prefix that sorts before the start.

A crashed request takes no further step, like one that is never scheduled
again, so the states crashes lead to are reachable without them as far as the
safety of stored objects goes; `object_store` leaves them out for that reason,
the two other store runs and the proofs have them.

Deadlock is checked in every run but `request_gate`: its clock and its requests
are bounded, so it comes to a stop. In the others the step that stutters when
everything was served is the proper end of a behaviour.

Fairness. In `CircuitBreaker` time passes, callers keep calling, attempts end
(each has a timeout) and backoffs end (a timer). Nothing is assumed about the
source, which may stay down for ever; the liveness property is conditional on
its staying up. In `ChunkTransfer` the steps of an upload, a failover and a
cleanup go on: the resilience wrapper bounds each Upload and Delete, with a
failure at worst, a call to MongoDB is assumed to end, and which outcome a call
has is not constrained. Nothing is assumed about bytes that are awaited. The
server has no timeouts for a client's body, and Download's timer is stopped when
the source's headers arrive (`wrapper.go:254`, `chunk_stream.go:74`, `:218`), so
that reading or sending a body may stall for ever. `EveryRequestEnds` says that
this is the only place where a request can hang, and that it ends if the bytes
keep coming (`BytesKeepComing`). In `ObjectListing` a request that
arrived is served, and the client goes on to ask for pages of at least one item;
pages of none do not bring it further, and nothing keeps others from changing
the collection (as often as the bound allows). The other modules state no
fairness.

What the models take for granted. SHA-256 and HMAC are injective, which is why
checksums compare bytes and signatures are records. A pair of a query that is
spelled raw is nothing to the handlers; a prefix with a `;` stands for the texts
that have a raw spelling. At most one thing is rewritten in a message on its way
in the run; the theorems about validation have no such bound. All requests come
from one address. MongoDB answers every call in the end.

### Disagreements found

* `HalfOpenIsProbed`: with retries on, a failed probe goes into its backoff and
  is then refused by the breaker it half-opened, without recording an outcome
  (`wrapper.go:126`, `:249`). The breaker stays half-open and refuses every call
  from then on. Configuration cannot turn retries off:
  `router_dependencies.go:157` takes `MaxRetries` over only when positive, and
  the default is 3. A breaker lives as long as one transfer, so a long transfer
  loses that source for its rest. `ProbeDecidedWithoutRetries` and
  `RecoveredSourceReadmitted` say exactly when it cannot happen.
* `CopyPreservesBytes`: CopyObject reads the source document, and stores the
  chunk list in a second call. An overwrite or a delete of the source between
  the two finds no reference and deletes the chunks; the copy succeeds and
  cannot be read.
* `CompletedPartsExist`: CompleteMultipartUpload validates and stores a copy of
  the record. An UploadPart that replaces a part, or an abort, deletes chunks
  without looking at objects; the completed object cannot be read.
* `SourcesInUseStay`: `docs/api-go-testing-plan.md` says that deleting a source
  in use is refused with a conflict. HasSourceReference looks at the source lists
  of buckets only (`repository/bucket.go:145`), and CopyObject takes chunks
  to a bucket that does not list their source. When the bucket that does is
  deleted, the source can be, and the copy cannot be read.

## 4. What is proved

`ObjectStoreProofs`, from `ConstantsAssumption` alone (any requests, keys, chunk
bound, operations and faults):

* `TypeCorrect`. `TypeOK` is not inductive by itself: `FlowOf` adds what is known
  at each control point (who uploads, who has a snapshot, when the answer is
  still open). `TypeInv` is their conjunction.
* `StoredObjectsStayReadable`. `SafeInv` adds to `TypeInv`: chunks of a request
  that has not committed are listed by nobody; an uploading request's chunks are
  at their sources; a doomed chunk is not listed by any document, nor will be,
  unless excused; chunks a copy has read are at their sources or excused. The
  argument: a chunk is doomed only after a count found no document, and a chunk
  no document lists can only come back through a copy that read it earlier,
  which was active at the same time as the request that dooms it. Each action is
  first reduced to its `Effect` on files, store and the two chunk sets
  (`EffectStep`), and `SafeInv` is proved from the effects.
* `OnlyOvertakenReadsBreak`: from the same invariant, a read breaks off only in
  `StreamChunk`, at a chunk of its snapshot that is not stored; if the snapshot
  is still the document, that chunk is listed, so excused.
* `NothingDanglesWithoutCopies`: with `"copy"` not in `Ops` and `"reply"` not in
  `Faults` neither excuse can arise.
* `NoLeakIsSilent`: `LeakInv` adds to `SafeInv` that every chunk at a source is
  listed by a document, held by a request that will list, check or delete it
  (`HeldBy`), or `Told` of: some request died, failed or logged an error, or a
  delete removed a version it had not read. When every request was served
  nothing is held. What a step takes from one of the three it gives to another
  (`LeakEffectStep`), and a chunk that was told of stays so (`ToldLasts`).

In the same module, from `ConstantsAssumption` and `NoneAssumption`:
`ObjectStoreKeepsPromise`, the refinement, where no copy runs and no reply is
lost. `KeepInv` adds to the invariant of `NothingDanglesWithoutCopies` that a
body belongs to one document, in the collection and among those read from it
(`Bodies`). So a document with another id is another body, and a delete that
misses its document is a `Miss` of the promise; and a read whose document is
still under its key finds all its chunks, so one that breaks off is a
`BreakOff`. `PromiseStep` maps each action: the write of ReplaceByName is `Put`,
the delete by id is `Delete`, uploads and cleanups stutter.

`MultipartStoreProofs`, from `MultipartAssumption` and `NoneAssumption`, proves
the five invariants of `MultipartStore` in four layers:

* `FlowInv`: control flow, what a request's names stand for, that the record
  holds only parts that were acknowledged or whose reply was lost, and loses none
  while it is open but to another upload of the same part. It gives
  `MultipartTypeCorrect` and `NoPartIsLost`.
* `DoomedInv`: where the chunks that a request deletes come from: a part it
  replaced, the copy of the record it closes, its own failed upload. It gives
  `RecordedPartsStay`.
* `RaceInv`: which requests of one upload ran beside each other, who closed the
  record, and that a recorded part is missing only while a close deletes parts.
  The delicate case is a request that read the record before a completion of
  the same upload committed (lemma `SecondLook`): the two overlapped, or the
  completion left the record behind. It gives `CompletedObjectsStayReadable`.
* `LeakInv`: the accounting of `ObjectStore`, with the record as one more place
  that lists a chunk. It gives `NoLeakIsSilent`.

`CircuitBreakerProofs`, from `ParametersAssumption`: `BreakerTypeCorrect`,
`ClosedExactlyBelowThreshold` and `ProbesAreDecided`, by the invariant
`BreakerInv`, which adds that a caller in its backoff has used up an attempt
(there is none with `maxRetries = 0`).

`RequestGateProofs` begins with the two modules the gate is composed of. The
limiter, from `LimiterAssumption`: `LimiterInv` adds to the type
invariant a ledger and the promises. The ledger (`LedgerOk`) says of each key
that what is in its bucket now and what was granted since the observer began are
together at most the capacity and what refilled since:
`Refilled(k) + used[k] * Minute <= Full(k) + Burst[k] * (now - mark)`.
`GrantsBounded` alone is not inductive: it does not know that an emptied bucket
is what pays for the grants. The assumption that Cleanup keeps a bucket for at
least the time it takes to fill is what makes dropping it harmless. The promise
(`PromiseOk`) says that a bucket has, at the time Retry-After named, refilled to
a token.

Signatures, from `SignatureAssumption`, for messages of any texts, times and
parameters. `ValidatesExactly` is about messages that can be read in one way
(`Plain`: no name twice, no raw pair, no overflow): of these, a signature is
accepted exactly when it was made with the secret, in time, for what the handlers
are going to read. It relates two readings of a query with different definitions:
bags of decoded pairs on the validator's side, first values of the pairs that
decode on the handlers'. `PassesAtMost` is about any message that passes: the
handlers read no value that was not signed, what was meant and they do not read
is a raw pair or a name given twice, all but the query is as it was sent, and the
time is within the limits even when the product overflowed.

The gate, from those two assumptions and `GateAssumption`: every step
of the gate is a step of `RateLimiter` or leaves it alone (`GateIsLimiter`),
which carries `GateGrantsBounded` and `GateRetryAfterHonest` over from the
limiter's invariant. `GateTypeCorrect` and `GateVerdictIsRight` come from
`GateInv`, which adds to `TypeOK` who owns what is named: a request that was
identified names a key of its sender, an account that is about to get a token
belongs to the one who asked, and so does the account a token names
(`RequestOk`, `TokenOk`). Without that, the verdict says nothing of the handler
that runs later, after others registered or deleted. `Validate` is covered by
`ValidatesExactly` (lemma `VerdictsAgree`), and an account that a token names is
there, since accounts are never deleted, so that only a failing lookup refuses
a token that has not expired.

`BucketLifecycleProofs`, from `ConstantsAssumption` and `NamesAssumption`, proves
all eight safety properties of `BucketLifecycle`. Two invariants carry the rest.
`TypeInv` adds to `TypeOK` which steps belong to which operation and what a
request has in hand at each (`Flow`); `Beside` says that two requests that are
being served have met, and that meeting is mutual and lasts. For the step of a
request three lemmas say which action can have written what (`HandleWriters`),
which action brought it where it is (`HandleArrivals`) and that the others were
left alone (`Others`), so that a proof about one collection looks at the two or
three actions that write it. Then, each with its own inductive invariant:

* `SourcesExist` (`CreationInv`): a creation has read each of its sources unless
  it met their deletion, and a deletion that found no bucket with its source can
  be overtaken only by a creation it met.
* `CompleteDeletion` (`DeletionInv`): what DeleteBucket has removed by each of
  its steps, but for what came from a request it met. Anything that comes later
  comes from a request that found the bucket, hence before it was deleted.
* `LinksLeadToObjects` (`LinkInv`): a link is created for a file that is there or
  whose deletion was met, and the links of a file go before the file.
* `ObjectsReadable` (`ReadInv`, `UnwrittenInv`): a chunk about to be deleted was
  counted, found in no document, and can come back only in a copy that read its
  origin before and so ran beside the deletion, or is the chunk of a put that
  answers an error; what an upload has not sent yet nobody names.
* `NothingStrays` (`StrayInv`): every stored chunk is in a document or in the
  hands of a request, or some answer told of a failure, or a write met a
  DeleteBucket, or it is the copy of a timed-out upload.
* `EffectsAuthorized` (`AuthInv`, `NamesInv`): no step before the look at the
  grant writes anything; the look finds a right that the account has at that
  moment; and ids of documents do not move between buckets, so that what is
  changed lies in the bucket the right was checked on.
* `DeletionRetryable` (`RetryInv`): a bucket has one grant at most, and the
  owner's goes only by the steps of requests that DeleteBucket met, or by its own
  deletion of the grants.

`ChunkTransferProofs`, from `ConstantsAssumption`, proves the six properties of
`ChunkUpload` and `ChunkTransfer` other than liveness, and their types, for any
number of sources, weights, chunk size, body and order of failures. First what
the recursive functions compute: `Cumulative` and `FileSize` are running sums
(`Totals`), which exist once and do not fall, so that a weighted pick finds the
source whose span an index falls into, each in proportion to its weight, and the
sizes of the chunks of a stored object add up to its body. `UploadInv` adds to
the types: the selector's position and the picks so far (`SelectorInv`), that a
failover has asked the sources in a row (`TryInv`), where the body has been read
to and that the chunks cover it without gap or overlap (`PieceInv`), and that
every listed copy is stored until a cleanup begins (`CopyInv`). `ReadInv` says
that what was sent is exactly the part of the range that lies in the chunks
passed so far; a range is first shown to be sound (`RangeSound`).

`ObjectListingProofs`, from `ListingAssumption`. `FirstOf` and `Items` take the
first elements by their rank, so the lemmas come down to: in a finite set
(`FirstElement`, `RankTaken`) there is exactly one element of each rank, and rank
follows the order. The assumption says what a prefix and delimiter can select:
common prefixes are disjoint intervals of names, each with the marker that skips
it inside, and a page fits into one DeleteObjects. `ListingInv` adds to the types
that a page is in order, after the token and up to the cursor, with every common
prefix that was entered (`PageInv`), that what was listed is in order and up to
the token (`ListedInv`), that every name that stayed and was passed is listed
(`CoverInv`), and that a name that was listed and is still there was put again,
reported, or is waiting in the batch (`PurgeInv`). `EachListedOnce` and
`NothingMissed` hold only together with where the token stands; and a page
whose cursor skips a common prefix misses nothing only because the prefix
was put on it first.

`OrderLemmas` proves that a set of naturals has a least element and with it
induction, from the well-foundedness of strict inclusion of finite sets, which
the library states without an operator parameter.

Model-checked only: liveness under fairness (`RecoveredSourceReadmitted`,
`EveryRequestEnds`, `ListingEnds`), which the prover does not handle. Every
invariant and every action property of a passing run is a theorem. The four
violations are counterexamples, which TLC finds.

## 5. Plan

What is left, in this order:

1. Repeated aborts in `MultipartStore`: an abort that failed half-way keeps the
   record, and Drive reports the parts it did delete as errors from then on.
2. The conditions of `s3_object_conditions.go` other than If-Range, as a decision
   table.
3. Registering sources and UpdateBucketDistribution in `BucketLifecycle`.

## 6. Not modelled

* Request conditions other than If-Range: decided once per request, from one
  document, without state.
* Registering sources and changing a bucket's distribution: single inserts and
  updates; sources exist at the start.
* The exchange with GitHub and its state cookie, password hashing: between one
  browser, GitHub and one request.
* Source health and inspection: read-only reports. What CreateBucket does with
  the verdict of a probe is in `BucketLifecycle`.
* Configuration, encryption of source keys, XML and header formats, telemetry,
  the CLI, the web UI and the archived Python service: strings, rendering or
  wiring, without state that interleavings reach.
* Provider clients are external: what the modules assume of them is that a call
  succeeds, fails, or fails after taking effect. MongoDB is assumed to apply each
  single-document operation atomically and to enforce its unique indexes, which
  is what the repositories rely on.

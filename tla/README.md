# Verification of the EDExchange network and directory servers

TLA+ specifications of the document exchange in this repository, the TLC runs
that check them on small instances, and proofs that TLAPS checks for every
value of the constants.

## 1. The system

Schools exchange transcripts, transcript requests and other documents through
*network servers*. A *directory server* knows the organizations: who they are,
where their endpoints are, which keys they sign with and which of them are
enabled.

| component | state it keeps | operations | talks to |
| --- | --- | --- | --- |
| Document exchange (network server): `DocumentController`, `FileProcessorService`, `TranscriptRequestController` | outbox and inbox directories; the stack of each request thread and `@Async` thread | `sendFile`, `sendDocument` (resend), `transcriptRequest`; `receiveFile`; `deliverFile`, `sendTranscriptAcknowledgment`, `sendAck` | other network servers by HTTP POST; the directory; the transactions table |
| Transactions and acknowledgements (network server): `TransactionsController`, `TransactionService`, `Transaction` | one table of transactions | `create`, `update`, `findById`, searches; `acknowledgement` | called by every thread of the exchange |
| Transcript acknowledgement: `TranscriptAcknowledgementService` | none | build an acknowledgement of a transcript, verify one | called from `deliverFile` |
| Cache of the directory: network `OrganizationService`, `CacheConfig`, `AppController` | cache of organizations, the server's own organization | `getOrganization`, `getTransfersPage` | the directory |
| Signing: `PKIService` | key store | sign, verify | the directory, for keys |
| Access of organizations: directory `OrganizationService`, `OrganizationsResource`, `RegistrationService`, `EdExClientDetailsService` | organizations, certificates, secrets, tokens | register, enable, set certificates and secrets, save; load a client | token store, messages, e-mail |
| Institution upload: `InstitutionUploadService`, `SchoolCodesService` | uploads, results, school codes | `processCSVFile` (`@Async`), maintenance of codes | organizations |
| Upload dialog (page): `InstitutionUploadsController` in `app.js` | rows of uploads, timers | upload, follow, history, results | institution upload, by requests |
| Record lists (pages and resources): users, contacts, endpoints, settings, organizations in `app.js`; `UserService` | rows that are forms; one table each | list, create, edit, save, delete, change a password | one another, through the table |
| Service providers of an institution: `OrganizationController` in `app.js`, `ServiceProviderResource` | the page's set of copies; the links | open, tick, close the form, save | uploads and other pages, through the links |
| Messages and e-mail (directory) | messages | create, send, dismiss | called by the resources |
| Lookup tables, API samples, usage data, serialization, PESC library | little or none | reading, converting | |

The path of a document: the sender creates a SEND row in its table, signs the
file and POSTs it to the recipient's inbox. The recipient verifies the
signature with the key that the directory publishes, stores the file, inserts a
RECEIVE row, answers 200 and starts `deliverFile` on another thread.
`deliverFile` decides what acknowledgement the document gets. For a transcript it first sends
a *transcript acknowledgement*, which is itself a document that travels the same
path in the other direction; then it POSTs a *functional acknowledgement* to the sender, whose
handler looks a row up by the id in it and records the verdict.

What is hard here:

* **Copies of rows.** A thread reads or creates a row, goes to the network and
  later saves *all* columns (`repository.save`; the entity has no `@Version` and
  no `@DynamicUpdate`). In between, the acknowledgement handler or another
  resend may have saved the same row.
* **Order.** The acknowledgement of a document may arrive before the response to
  the POST that sent it, and before the sender has saved its row.
* **Loss.** A POST whose response is lost was received, stored and may be
  accepted, while its sender reports a failure. Failures of `sendAck` are
  swallowed, and nothing retries.
* **Races for a name.** A document and its resend have the same file name; the
  inbox is one directory, guarded by `createNewFile` alone.
* **Crashes** between storing a file and inserting its row, or between the row
  and the acknowledgement: nothing recovers threads.
* **Identity.** The acknowledgement names a number found in the document. For a
  transcript that number is not the sender's transaction id.
* **Waiting.** A delivery thread waits for a POST to another server, whose
  threads may be waiting likewise.
* In the directory: asynchronous uploads that look a code up and create its
  institution in two transactions; results that are made from objects of a transaction that
  was rolled back; tokens that are stored in a later transaction than the check they rest on;
  deletes that only some foreign keys stop.
* **Pages.** A page holds copies that nothing refreshes and sends them back whole. The server
  handles the requests of one page, and of several, in any order; a form stays usable while its
  request is under way; an answer may be lost after the request was served.
* **The cache.** Nothing locks: threads that miss an entry all ask, slow answers are stored after
  newer ones, a failed lookup is cached as null, and all requests share one field.

What makes the parts correct: a file is received once (exchange); what a
transaction says of a document agrees with what became of the document
(transactions); an acceptance is never given for something that was not stored
(delivery); no save moves a row to another document (table); everything that is
posted is eventually acknowledged unless something broke (threads). For the
directory: one organization per school code and no dangling references (upload); nothing is
reachable before an administrator approved it, and no token survives a disabling (access). For
the pages: what a closed form shows is what is stored, one row is one record (lists), the end of an
upload is shown and its results are complete (dialog). For the cache: what is served is recent.

`PROJECT.json` lists the hazards by line, each with the properties that cover
it or the reason why none does yet.

## 2. The modules

| module | what it is |
| --- | --- |
| `Exchange` | the exchange and the transactions tables of all network servers, in the detail of the code |
| `Delivery` | the abstract specification: what the exchange promises about one document |
| `ExchangeDelivery` | the refinement mapping from `Exchange` to `Delivery` |
| `ExchangeInvariant` | the inductive invariants `IInv` and, without transcripts, `VerdictInv`, by named parts |
| `ExchangeProofs` | the theorems about `Exchange` and the refinement of `Delivery`, and their proofs |
| `InstitutionUpload` | the uploads of institutions to the directory and the tables they share with administrators; its inductive invariants `UploadInv` and `LinesInv` |
| `InstitutionUploadProofs` | the theorems about it and the refinement of `UploadProgress`, and their proofs |
| `UploadProgress` | the abstract specification of an upload: how many results it has, and whether it has ended |
| `InstitutionUploadProgress` | the refinement mapping from `InstitutionUpload` to `UploadProgress` |
| `UploadPage` | the dialog that uploads a file and follows it, composed with `UploadProgress` as the server; its inductive invariant `DialogInv` |
| `UploadPageProofs` | the theorems about it and their proofs |
| `OrganizationAccess` | one organization of the directory: registration, approval, certificates, secret, tokens, and the reports about them |
| `OrganizationAccessProofs` | the theorems about it and their proofs |
| `RecordPage` | lists of records on pages, with the resources that serve them; its inductive invariant `RecordInv` |
| `RecordPageProofs` | the theorems about it and their proofs |
| `ServiceProviders` | the form of an institution's service providers, with the resource and the uploads that change the same links; its inductive invariant `ProvidersInv` |
| `ServiceProvidersProofs` | the theorems about it and their proofs |
| `OrganizationCache` | the organizations of the directory as a network server knows them; its inductive invariant `CacheInv` |
| `OrganizationCacheProofs` | the theorems about it and their proofs |
| `TranscriptVerify` | building and verifying a transcript acknowledgement; its inductive invariant `VerifyInv` |
| `TranscriptVerifyProofs` | the theorems about it and their proofs |
| `MC...` | definitions that only TLC needs (symmetry, files, transcripts) |

`UploadPage` meets `InstitutionUpload` in `UploadProgress`: the page is checked against it, and the
uploads are shown to implement it, so neither is checked with the whole of the other.

### State of `Exchange`

A transaction is identified by `<<server, id>>`, a `Key`. Everything is indexed
by the key of the SEND row that it serves, because a SEND row is POSTed at most
once.

| variable | in the code |
| --- | --- |
| `rows`, `nextId` | the `transactions` table of each server and its identity column |
| `files` | names in the inbox directory of each server |
| `sender[t]` | the thread that POSTs row `t`; `mem` is its `Transaction` object, `saveTo` the row that this object was read from (for a resend: the original row) |
| `post[t]` | the multipart POST to `/inbox` and its response |
| `recv[t]` | the thread in `receiveFile` for that POST, then the `@Async` thread in `deliverFile`; `mem` its `Transaction`, `row` the id it got, `child` the row of the transcript acknowledgement it sends |
| `ack[t]` | the POST to `/acknowledgement` |
| `handler[t]` | the thread in `acknowledgement`; `mem` the row it found |
| `sends`, `crashes` | counters of the bounds |

### Actions of `Exchange`

| action | code |
| --- | --- |
| `SendFile`, `RequestTranscript`, `Resend` | `sendFile`, `transcriptRequest`, `sendDocument`: up to the creation of the SEND row |
| `RequestNotWritten` | the request file cannot be created: its name is taken (an error), or an exception (FAILURE as well) |
| `ResendNoEndpoint`, `Abandon` | the early returns and exceptions before the POST |
| `PostDocument` | signing and sending the POST |
| `SendOk`, `SendFails`, `SendFailsAgain` | the response, or the catch blocks, which save the thread's copy |
| `ReceiveStored`, `ReceiveDuplicate`, `ReceiveUnverified`, `ReceiveDamaged` | `receiveFile` up to its `finally`: each way it can end |
| `RecordReceipt` | the `finally` block, the start of `deliverFile` and the answer 200 |
| `ReceiptNotSaved` | the insert of the `finally` block fails: the request is answered 500, the file stays |
| `DeliverTranscript` | `deliverFile` of a transcript: the start of `sendTranscriptAcknowledgment` |
| `AckTranscript`, `AckRequest`, `AckRow` | the three ways `deliverFile` builds an acknowledgement |
| `FinishDelivery`, `DeliverFails` | the end of `deliverFile`, and its catch block |
| `FindAcknowledged`, `Acknowledge`, `AcknowledgeUnknown` | `acknowledgement`: the lookup, the save, and the row for an id nobody has |
| `LosePost`, `LoseAck`, `Crash` | the network and the machines |

Where an action ends is where another thread can see or change shared state
between two accesses of the code: table reads and saves, `createNewFile`, the sending and
answering of a request. Everything between two such points is one action.

### What is abstracted

* A document is its kind, its file name and, for a transcript, its `DocumentID`.
  `DocumentID` 0 stands for one that is not a number.
* The code gives a sent file a fresh name; the model names it by the row that first sent it. A name
  that two senders choose by chance, or a user's upload that overwrites an outbox file, is not modelled.
* The outcome of building, signing, verifying and validating a document is a
  nondeterministic choice: the model lets each of them fail at any time.
* `TranscriptKnown` keeps the lookup of the transcript that a transcript
  acknowledgement names; whether the two agree is left open.
* Only a SEND row is resent: the page offers "Resend" there and nowhere else
  (`networkServer/.../fragments.html:188`).
* `RequestTranscript` that fails to sign saves its row once in the code and
  twice in the model (`SendFails`, `SendFailsAgain`); the second save writes the same
  copy, so the model only has more behaviours.
* The id of `AcknowledgeUnknown`'s row carries the path of the acknowledgement,
  not of a document: its `file` is `NoKey`.
* An `IOException` of `createNewFile` has the effect of `ReceiveUnverified`. The handler stores its message as the error
  (`DocumentController:751`); a message that is null would leave the row without one. The JDK's `createNewFile` always
  gives a message, and once it succeeded the file is there, so the model always sets the error.
* An acknowledgement without a DocumentID is answered 400 (`TransactionsController:143`) and touches no row. The exchange always sets one.
* Of the saves, only the insert of a receipt fails by itself (`ReceiptNotSaved`): there a file is left behind. The failure of another
  save is modelled only as part of a crash.
* Time stamps, names, paths, messages, searches and pages are left out.

### State of `InstitutionUpload`

| variable | in the code |
| --- | --- |
| `orgs`, `nextOrg` | the `organization` table and its identity column |
| `schoolCodes` | the `school_codes` table, as pairs of a code (with its type) and an organization |
| `links` | the `institutions_service_providers` table, as pairs |
| `upload[u]` | the row of an upload and the thread in `processCSVFile`: `line`, `found` (what `findBySchoolCodes` returned) and `result` are its local variables |
| `results[u]` | the rows of `institution_upload_results` of the upload, in order |
| `deleted`, `dropped` | history, for the properties: organizations that were deleted, links that administrators took away |
| `edits`, `crashes` | counters of the bounds |

### Actions of `InstitutionUpload`

| action | code |
| --- | --- |
| `Submit` | `associateInstitutions` up to the start of the thread |
| `BadHeader` | the result for a file without the columns, and the return |
| `RejectLine` | codes of a line are malformed or missing |
| `Search` | `findBySchoolCodes` |
| `LinkFound`, `CreateInstitution`, `CreateFails`, `CreateRefused`, `Ambiguous` | the three branches on what was found, and the catch block of the second: one transaction each |
| `StoreResult` | `create(result)` at the end of a line |
| `Raise`, `Abort`, `ResultLost` | the catch blocks around the loop, with and without the result that the first of them stores |
| `EndOfFile`, `End` | the end of the loop; the outer `finally` |
| `AddCode`, `RemoveCode`, `CreateByHand`, `LinkByHand`, `SetProviders`, `DeleteOrganization` | what administrators change through other resources |
| `Crash` | the server ends |

`processCSVFile` runs outside of any transaction, and its calls of `this.create`
bypass Spring's proxies, so each repository call commits by itself: the steps of
`upload[u]` are these calls. What happens inside one transaction is one step, and the unique
indexes and foreign keys of the changelogs (`CodeFree`, `TypeFree`, `CanCreate`, `Store`,
`Referenced`) decide whether it may commit.

What is abstracted:

* A code stands for its type and value; codes that `validateSchoolCode` refuses
  are one value, `BadCode`. Types are compared as the columns of the file name them.
* `line` counts records. The code stores the parser's line number, which
  also counts the header and line breaks inside of fields.
* The id that `CreateFails` stores is the one that the insert had returned
  before the rollback. If the insert of the organization row was itself refused, the object has no id (`CreateRefused`).
* The insert of a result fails when its provider does not exist, or for the data
  of the line (`Raise` at `"report"`: a message that is too long). The result of an exception
  (`Abort`) only fails for the provider; a database that goes away is not modelled.
* The organizations that exist at the start have no codes and get none.
* `SetProviders` takes its providers from a page, so they may have been deleted; what its merge
  writes into the providers themselves is in `ServiceProviders`.
* An exhausted `MaxOrg` disables the actions that need a new organization,
  `CreateRefused` excepted, so that no upload is blocked by the bound.

### `OrganizationAccess`

The module follows one organization: nothing it models relates two.

| variable | in the code |
| --- | --- |
| `org` | its row: whether it exists, `enabled`, which of the stored certificates it has, whether it has a secret |
| `token` | `oauth_access_token`: 0, or one more than the number of revocations before it was stored |
| `messages`, `mails` | messages and e-mails, as recipient, operation and certificate |
| `page[p]` | `self.org` and `self.certificateInfo` of a page that was opened; `AdminPage` are an administrator's |
| `call[c]` | a request, then its thread in the handler, then its answer |
| `grant[g]` | a thread of the token endpoint |
| `revocations`, `approved`, `explicit`, `resaved`, `reviewed` | history, for the properties |

| action | code |
| --- | --- |
| `Open`, `SubmitRegistration`, `ClickEnabled`, `ClickCertificate`, `ClickSecret`, `ClickSave` | the pages: a copy is read, a request is sent |
| `Register`, `SetEnabled`, `SetCertificate`, `SetSecret`, `Update` | the transaction of each handler |
| `TellRegistrant`, `RecordMail`, `StoreMessage`, `MailAdministrators` | the steps that follow it, each on its own, in the order of the handler |
| `Answer`, `Fail` | the answer; or a request, thread or answer that is lost |
| `LoadClient`, `CreateAccessToken`, `FailGrant` | `loadClientByClientId`; the OAuth library, outside of the repository |

Abstracted: a certificate is its number; both kinds share the numbers because both disable the organization.
An organization that exists refuses a second registration. Delivery by the mail
server, users' tokens and the expiry of tokens are left out. The pages of `ClickSave` send `enabled`; the
other columns of the organization are left out. Requests are those of the pages: a client of the API that makes up its own
`PUT /organizations/{id}` may send any `enabled` (`OrganizationsResource:186`), which no property here could survive. The form of service
providers merges a page's old copy of an organization as well (`Institution.java:50`); for the row that is one more save of a page (`ClickSave`, `Update`).

### `UploadPage` and `UploadProgress`

`row` holds the row objects (`line`, `ended`, `results` as the page shows them; `timer` and `lost` for the
polling), `query` the requests under way, `showHistory` the dialog's flag; `stored` and `progress` are the server's.
`UploadFile`, `ToggleHistory` and `ShowResults` are what a user does, `Poll` the timer of `showStatus`;
`ServeUpload`, `ServeStatus`, `ServeHistory` and `ServeResults` the resource; `PushUpload`, `ShowStatus`,
`ShowHistory` and `TakeResults` the callbacks; `Fail` a lost request or answer; `Process` the rest of the upload.
A result is only counted, and the number of results stands for the line that the page shows. Filters and paging are left out.
The uploads are those of one organization, so `ServeHistory` lists them all. `uploadFile` makes its row from the answer of the POST, which the server may
write at any time after it started the upload: `PushUpload` follows the row unless the answer already has the end time.

### `RecordPage`

`table`, `lastId` are the table and its identity column; `rows` the row objects of all pages, with the
record that the form holds; `request` the requests. `Create`, `Edit`, `Save`, `Forget`, `Delete`,
`UpdatePassword` and `Fetch` are the buttons; `Get`, `Post`, `Put`, `Remove` and `ChangePassword` the
resource, each one transaction; `Answer` and `Fail` the callbacks. The form of users is the one that the map
names; contacts, endpoints, settings and organizations have the same shape and differ in which failures open the form again
(`Reopens`). Record contents are one value and, for users, a password. A list that needs more row objects than `MaxRows` leaves is not shown.

### `ServiceProviders`

`links` is the table, `version` stands for the data of each provider organization, `page` holds the page's sets of
copies, `request` the requests. `Open`, `ShowForm`, `Toggle` and `CloseForm` are the page, `ServeLinks`, `ServeProviders` and
`SetServiceProviders` the directory, `ShowLinks`, `ShowProviders`, `Saved` and `Fail` the callbacks; `Link` is an upload or
`createRelation`, `Change` an edit of a provider. Deleted providers are in `InstitutionUpload`.

### `OrganizationCache`

`directory` and `cache` are the organizations and the cache (entries with an age that `Tick` advances and use resets),
`field` is `AppController.organization`, `thread` the request threads. `OpenPage`, `Assign`, `Check` and `ShowPage` are
`getTransfersPage` and `getOrganization` of `AppController`; `Request` and `Done` other callers; `Hit`, `Miss`, `Answer`, `Put` the
lookup, of which the cache's part is Spring's and Guava's: an eviction may take any entry, also before the cache is full, since Guava divides its size among segments. `idle` and `since` are history.
The constructor's lookup is in `Init`: it fails or not, and is made before the cache is in place.

### `TranscriptVerify`

One verification of an acknowledgement against the transcript `sent`: `Build` makes the acknowledgement from the transcript
`received` (the same one, or any other), and the actions are the stages of `verifyTranscript` in their order: `VerifyName`,
`SkipGPA`, `VerifyGPA` or `GPAFails` (an exception), `VerifyAwards`, `VerifyCourses`. Fields, lists and summaries may be absent.
Texts and GPAs are values that are equal or not; courses and awards are counted, not described.

## 3. What TLC checks

All runs use `CHECK_DEADLOCK FALSE`: when the bounded number of documents or requests has
been used and every thread has ended, the system stops, and rightly so. That
threads do not wait for each other forever is checked as liveness (`ThreadsEnd`).

| run | instance | shows |
| --- | --- | --- |
| `exchange_documents` | 1 server exchanging requests with itself, 4 rows, 2 sends or resends, 1 crash | `TypeOK`, `StoredOnce`, `AnsweredIsRecorded`, `SuccessMeansStored`, `VerdictKept`, `Delivers` |
| `exchange_transcripts` | 2 servers, 4 rows each, 1 send, 1 crash, documents, requests and transcripts with DocumentID 0, 1 or 2 | `IInv`, `AcceptedMeansStored`, `RowsKeepTheirDocument` |
| `exchange_liveness` | 1 server sending to itself, 5 rows, transcripts and requests | `PostedIsAcknowledged`, `ThreadsEnd` |
| `exchange_ack_id` | violated | the acknowledgement of a transcript does not name the sender's transaction |
| `upload_edits` | 2 uploads of one line with two codes, 2 providers, 4 organization ids, 2 changes by administrators | `CodesAreUnique`, `SuccessMeansServed`, `ErrorLeavesNothing`, `ReferencesExist`, `UploadInv` |
| `upload_files` | 2 uploads of any of three files of two lines (malformed, empty, overlapping, ambiguous), 1 crash | `LinesAreAnswered`, `UploadsEnd`, `UploadsProgress` |
| `uploadpage` | 1 upload of up to 2 results, 2 rows, 2 requests under way at a time | `PageInv`, `LateResultsAreComplete`, `StatusNeverGoesBack`, `EndIsShown` |
| `access` | 2 pages, one of an administrator, 4 requests of any kind, 1 certificate, 1 token request | `TypeOK`, `DisabledUntilApproved`, `NothingApproved`, `RevokedTokensAreGone`, `EnabledByAdministrator`, `AnsweredIsReported` |
| `records` | 2 pages, 2 values, 2 rows, 3 requests of any kind, 2 ids | `TypeOK`, `ClosedRowIsStored`, `OneRecordPerRow` |
| `providers_form` | 2 pages, 1 provider with 2 versions, 2 requests under way at a time | `FormInv` |
| `cache_pages` | 2 organizations of 3 versions, a cache for one, 2 threads, expiry after 2 ticks | `TypeOK`, `ServesRecent`, `KnownStaysKnown` |
| `verify_all` | every pair of 123 transcripts | `VerifiedAgrees`, `OwnIsVerified` |

The properties in words:

* `StoredOnce`: two RECEIVE rows of a server never name one file. This rests on
  `createNewFile` being tested and set in one step (`StoreFile`); a blind write
  breaks it with two racing receipts, or a resend.
* `AnsweredIsRecorded`: a sender whose POST was answered has a RECEIVE row at
  the recipient. This rests on the answer being given after the `finally` block.
* `AcceptedMeansStored`: an acceptance is built from a thread's copy of the row,
  but is only sent for a document that is in the inbox and on record, also when inserts of receipts fail and leave files behind.
* `SuccessMeansStored`: a SEND row whose status is SUCCESS is of a document
  that the recipient stored and acknowledged. It excludes rows of transcript acknowledgements, which
  `sendTranscriptAcknowledgment` sets to SUCCESS on any answer 200, and it is checked
  where acknowledgements name the sender's row (no transcripts); with transcripts
  an acknowledgement can reach another row, as the finding of `exchange_ack_id` says.
* `VerdictKept`: once the acknowledgement of a row was handled, the row keeps the
  verdict, unless a send of the row, or a resend of it, failed or crashed: the condition
  under which `AckStaysOnRow` fails. Checked without transcripts for the same reason.
* `RowsKeepTheirDocument`: no save of a stale copy changes what a row is about.
* `PostedIsAcknowledged`, `ThreadsEnd`: below.
* `Delivers`: `Delivery` says of one document that it is sent, stored at most
  once or refused, and then accepted only if stored, or rejected. A resend is a
  document of its own with the same name.

* `CodesAreUnique`: two uploads, or an upload and an administrator, never both
  give a code to an institution. The lookup does not ensure this (it is old when the
  creation runs); the index does.
* `SuccessMeansServed`: a line reported as a success is of an institution that the
  provider serves, until an administrator takes the link away. The report is stored
  after the link was committed, and links may be deleted and overwritten in between.
* `ErrorLeavesNothing`: a line reported as an error names no organization that exists, although
  the id in it was once that of an inserted row.
* `ReferencesExist`: nothing refers to an organization that was deleted, whenever the
  deletion runs. The results of an upload by a system administrator refer to a
  provider that the upload itself does not.
* `LinesAreAnswered`: results come in the order of the lines, one each; an upload that
  ended without answering every line has, as its last result, the error that ended it. An upload without any result
  (its file could not be opened, or its provider does not exist) says nothing.
* `UploadsEnd`: below.
* `UploadsProgress`: every behaviour of the uploads is one of `UploadProgress`: results are only added,
  never after the end time, and an upload that ended, or that a crash left running, stays so.

* `PageInv`: besides the types, a row that is followed has one timer or one request, never two, and never
  neither before its end unless its polling was lost.
* `StatusNeverGoesBack`: the line that a row shows never decreases and an end stays, although answers arrive in
  any order: a row is asked about only after its last answer.
* `LateResultsAreComplete`: results that are asked for when the row shows the end are all there are. This joins the page
  with what `UploadProgress` promises.
* `EndIsShown`: below.

* `DisabledUntilApproved`: until an administrator's Enable button was served, the organization is disabled and
  holds no token, whatever stale pages save and in whatever order requests are served. `NothingApproved` is what makes
  it inductive: until then no page shows it enabled, no save carries that, no token request passed the check.
* `RevokedTokensAreGone`: no token that was stored before the last disabling is left. A token stored after it is the subject
  of section 5.
* `EnabledByAdministrator`: an organization that is enabled was enabled since it was last disabled, by whichever request, and
  by an administrator or by the save of a page that still showed it enabled: the one way around an administrator (section 5).
* `AnsweredIsReported`: a registration or certificate whose request was answered is in a message and in an e-mail to the
  administrators, each certificate in its own, although later transactions make them. Nothing reports a change whose
  thread failed between its transactions; its request is not answered, and the property does not speak of it.

* `ClosedRowIsStored`: a closed row shows what the database has, after any failures, deletions on other pages, and fetched lists;
  a new row that is closed is being saved. Left out are rows with overlapping requests and rows that another
  row's request changed, where the code orders nothing and pages are not refreshed, and rows that lost the answer of a POST or a DELETE.
* `OneRecordPerRow`: with the same exceptions, a row never becomes two records, however often it is saved.

* `FormInv`: besides the types, a page whose form is closed shows the institution's providers, from the
  time it was loaded or saved until somebody else changes them.

* `ServesRecent`: what the cache serves is never older than the version that the directory had when the organization was
  last unused for the time of expiry, although slow answers are put after newer ones.
* `KnownStaysKnown`: once the server's own organization is known and no thread is about to assign it, it stays known.

* `VerifiedAgrees`: an acknowledgement that is accepted agrees with the transcript in every compared field that the
  transcript has, in the totals, and in the GPA unless the acknowledgement has no summary.
* `OwnIsVerified`: the acknowledgement of the very transcript is accepted, unless its first summary has no GPA.

**Bounds.** `MaxRow` bounds every table, `MaxSends` what users start and
`MaxCrashes` the crashes. Two sends suffice for a document and its resend (the
races for a name and for a row), and their four rows are all that they need. Two servers are enough because a document
involves its sender and its recipient; a third adds independent copies. One server that sends to itself has both parts in
one table, where ids can be confused at least as well. One
transcript makes up to four rows (its SEND and RECEIVE rows, and those of its
transcript acknowledgement) and, when an acknowledgement names no row, a
fifth, in one table if the server sends to itself. An action that needs a row of a full table does not
happen, which cuts behaviours off and never adds any; in `exchange_liveness`
five rows are enough for all that one send can create, so that no thread is ever blocked by the bound.
For uploads, two of them make every race for a code, two codes make lines that meet
two institutions, and two changes suffice to delete and recreate what a lookup found.
Two of the four organization ids are taken at the start and two are left for one creation by
each upload, or by administrators. Symmetry in the uploads is used in `upload_edits`, symmetry in the
servers in `exchange_transcripts`; the other safety runs use it in pages, requests or threads, and no run with fairness does.

For the access of an organization, four requests and a token request make the long stories (register, enable, open a page, disable, save the page;
register, set a secret, enable, ask for a token, disable), and one certificate is the change that disables. For record lists, three
requests overlap with one another on one row, or with a list and another page. For the dialog, the second row is the one that the
history puts in place of the first, and two requests overlap. The cache has room for one of two organizations, so that it evicts, and its
expiry of two ticks tells entries that are used from those that are not.

**Fairness** (`FairSpec`). Weak fairness for each thread, sender, receiver, deliverer
and handler: the JVM schedules a runnable thread, and `RestTemplate` and the
servlet container either deliver a request or report a broken connection.
The fairness of receiving and of handling includes losing the message, and the fairness of a
sender includes failing, so that no property rests on a message being delivered or an attempt
succeeding. There is no fairness for users or crashes. `RestTemplate` has no
read timeout, so a sender waits until its POST is answered or the connection
breaks; `SendFails` is enabled while it waits, for a connection that breaks is
always possible. `ThreadsEnd` is therefore a statement about the waiting of a delivery for
its transcript acknowledgement (`ChildDone`), which must count failed sends as
ended.

For uploads, `FairSpec` has weak fairness for the thread of each upload: the
executor of `@Async` starts and schedules it, and every repository call returns or throws. There is none for
administrators, submissions and crashes. `UploadsEnd` then says that no branch of
`processCSVFile`, whatever the tables hold, ends without its `finally` block setting the end time; only a
crash does.

For the dialog, `FairSpec` has weak fairness for every request (it is served, answered or lost: a browser reports one or
the other) and strong fairness for the timer of every row: a timer fires whatever else happens, while in the model it needs one of the
few requests that may be under way, which others take in turns. `EndIsShown` then says that the row that is followed shows the end of its upload,
unless its polling was lost to a failed request, or to a status without any result, whose answer the page cannot read. There is no fairness for users
and none for the upload itself.

## 4. What is proved

`ExchangeProofs` proves, for any set of servers, any bounds, any kinds and
DocumentIDs, from `ExchangeAssumption` alone (`NoServer` is no server, the bounds are
naturals, the kinds are document kinds, DocumentIDs are ids or 0):

| theorem | statement |
| --- | --- |
| `Invariance` | `Spec => []IInv` |
| `TypeCorrect` | `Spec => []TypeOK` |
| `NeverStoredTwice` | `Spec => []StoredOnce` |
| `AnswersAreRecorded` | `Spec => []AnsweredIsRecorded` |
| `AcceptancesAreStored` | `Spec => []AcceptedMeansStored` |
| `RowsKeepDocument` | `Spec => RowsKeepTheirDocument` |
| `ExchangeDelivers` | `Spec => Delivers` |
| `VerdictInvariance` | `"transcript" \notin Kinds => (Spec => []VerdictInv)` |
| `VerdictsAreKept` | `"transcript" \notin Kinds => (Spec => []VerdictKept)` |
| `SuccessesAreStored` | `"transcript" \notin Kinds => (Spec => []SuccessMeansStored)` |

**The argument.** None of the properties is inductive by itself, because each
speaks of rows while the code writes rows from threads' copies. `IInv` ties
every copy to its row:

* `FreshRows`: rows at or above `nextId` are empty and untouched by any thread,
  so `create` never overwrites a row.
* `SameDocument` relates a copy to the row it will be saved to (operation,
  kind, peer, DocumentID, sender's id and file agree). `Senders`, `Receivers` and `Handlers` say that every
  live copy has this relation to its row. A save of a related copy keeps the row's
  document, which gives `RowsKeepDocument`, and it keeps every *other* copy of
  that row related too.
* `SentRows`, `Posts`: what a SEND row, its sender and its POST say of the same document agrees.
* `Receipts`: a RECEIVE row that names a file names one that is in the inbox; `Unrecorded`:
  a thread between `createNewFile` and its insert owns a file that no row names; `StoredByOne`:
  no two such threads, or rows, own one file. These three make `NeverStoredTwice` inductive.
* `RecordedInInbox`, `AckAfterReceipt`: an acknowledgement exists only when
  its receipt was recorded, and an acceptance only when the recorded row names the posted file.

The proof of the step has one lemma per action and below it one step per
conjunct that the action can disturb. TLC checks `IInv` in `exchange_transcripts`.

*Delivery.* `ExchangeDelivers` shows that initial states map to initial states and that every step is a step of one transfer
or changes nothing of the abstract state: `PostDocument` sends it, `RecordReceipt` stores or refuses it, `AckTranscript`, `AckRequest`
and `AckRow` accept or reject it, everything else stutters. What is stored is read from the receipt on record (`Fate`), so that the proof needs `Receipts` in full: a recorded
receipt keeps its file whatever stale copy is saved over it, and the thread that delivers it has a copy of it.

*Verdicts.* Where no transcripts are sent, an acknowledgement carries the number of the sender's own row; with transcripts it carries
the `DocumentID` of the transcript, and the run `exchange_ack_id` shows it reaching another row. The hypothesis `"transcript" \notin Kinds` is this
condition, and the run `exchange_documents` has it. `VerdictInv` adds to `IInv` that documents of transcripts do not occur
(`NoTranscripts`), that acknowledgements and handlers name their row (`AcksNameTheirRow`), that the POST is what the row says
(`PostedIsTheRow`), and the part that makes it inductive: a row *or a live copy of it* reads SUCCESS only when its acceptance was
handled (`SuccessIsAccepted`), since a resend may save such a copy much later.

`InstitutionUploadProofs` proves, for any set of uploads, codes and files and
any bounds, from `UploadAssumption` (the bounds are naturals, the initial organizations fit
into the table, every code has a type, a file is a sequence of lines):

| theorem | statement |
| --- | --- |
| `UploadInvariance` | `Spec => []UploadInv` |
| `UniqueCodes` | `Spec => []CodesAreUnique` |
| `NoDanglingReferences` | `Spec => []ReferencesExist` |
| `SuccessesAreServed` | `Spec => []SuccessMeansServed` |
| `ErrorsLeaveNothing` | `Spec => []ErrorLeavesNothing` |
| `LinesInOrder` | `Spec => []LinesAreAnswered` |
| `UploadImplementsProgress` | `Spec => UploadsProgress` |

`UploadInv` strengthens them by what holds of a result *before* it is stored
(`PendingIsTruthful`) and by `Truthful`, which adds to a result that its id was given out by the identity column:
without it, an id that a failed creation stored could be given to a new
organization later, and `ErrorLeavesNothing` would not be inductive. `IdsAreUsed` says
that every organization has such an id; `FoundIsGood` that the line being created consists of codes. The lemmas
`QuietStep`, `ReportStep`, `StoreStep` and `EditStep` are the four shapes of a step (only a thread moves; a
line's work ends; a result is stored; an administrator changes tables), and each action is
shown to have one of them.

`LinesInv` says for each place in `processCSVFile` how many lines have their result (`UpToDate`: all before the one being
read), and of the places at the end that all lines have it, or none, or the last result is the error (`Concluded`). `UploadImplementsProgress` maps
`Submit` to the beginning of an upload, `BadHeader`, `StoreResult` and `Abort` to a further result, and `End` to its
end; all other steps, administrators' and crashes among them, leave results and end time alone.

`OrganizationAccessProofs` proves, for any pages, requests, token requests, operations and number of certificates, from
`AccessAssumption` (an administrator's pages are pages, the operations are operations, the bound is a natural):

| theorem | statement |
| --- | --- |
| `TypeCorrect` | `Spec => []TypeOK` |
| `NothingBeforeApproval` | `Spec => []DisabledUntilApproved` |
| `NothingIsApproved` | `Spec => []NothingApproved` |
| `RevocationIsComplete` | `Spec => []RevokedTokensAreGone` |
| `OnlyAdministratorsEnable` | `Spec => []EnabledByAdministrator` |
| `ChangesAreReported` | `Spec => []AnsweredIsReported` |

`AccessInv` joins `TypeOK`, `DisabledUntilApproved`, `NothingApproved` and `RevokedTokensAreGone`. `DisabledUntilApproved` alone is not
inductive: a page could hold `enabled`, a save could carry it, or a token request could be past the check; `NothingApproved` excludes these three.
`EnabledByAdministrator` needs the types only: of all steps, `SetEnabled` and `Update` alone can
enable, and no step but one that disables forgets that they did. `ChangesAreReported` follows from `Reported`, which says of every request which of its reports its thread has made by now.

`UploadPageProofs` proves, for any uploads, requests, rows and results, from the assumption of `UploadPage` alone:

| theorem | statement |
| --- | --- |
| `DialogInvariance` | `Spec => []DialogInv` |
| `RowsAreFollowedOnce` | `Spec => []PageInv` |
| `LateResults` | `Spec => []LateResultsAreComplete` |
| `RowsNeverGoBack` | `Spec => StatusNeverGoesBack` |

A row is right because what answers carry was true when they were served and stays true: results are only added, an end stays.
`RowsAreTrue` says it of rows, `QueriesAreTrue` of answers on their way, with the part that orders them: the status that is on its way is no older than
the line that its row shows, because `PageInv` lets a row have one request for it at a time. `AskedAreComplete` follows
the results that were asked for after the end from the request over the answer to the row.

`RecordPageProofs` proves, for any pages, data, requests, rows and ids, from `RecordAssumption`:

| theorem | statement |
| --- | --- |
| `RecordTypes` | `Spec => []TypeOK` |
| `RecordInvariance` | `Spec => []RecordInv` if `{"post", "put"} \subseteq Reopens` |
| `ClosedRowsAreStored` | `Spec => []ClosedRowIsStored` if `{"post", "put"} \subseteq Reopens` |
| `RowsAreOneRecord` | `Spec => []OneRecordPerRow` if `{"post", "put"} \subseteq Reopens` |

The hypothesis is what the form of users does, and what the run has: the failure of a POST or a PUT opens the form again. A form that stays
closed after a failed save shows what was never stored. `RecordInv` says of a row that no other request or row disturbed (`CleanRow`)
that it has one request at most and that row, request and record agree as far as the request has come: before a
POST is served the row has no record, between its service and its answer the record is the one of the request (`PostFits`), a PUT carries what the closed row shows
(`PutFits`), and what a row inserted is its own record or the one of its POST (`RowInserts`). `RequestsFit` ties a list that is not stale to the
table, which makes a row that is filled from it clean; `IdsFit` says that no record has an id, or a row that made it, from the future.

`ServiceProvidersProofs` proves `Spec => []ProvidersInv` (`ProvidersInvariance`) and `Spec => []FormInv` (`PagesShowTheProviders`), for any pages, providers and
requests. What a page shows follows from what its requests carry: of requests that overlap each knows it (`OverlapsAreKnown`), a list
that overlaps with nothing is what is stored (`AnswersAreStored`), and a save that overlaps with nothing is what the page shows while
its form stays closed (`SavesAreShown`).

`OrganizationCacheProofs` proves, for any organizations, threads, size and expiry, `Spec => []CacheInv` (`CacheInvariance`), `Spec => []TypeOK` (`CacheKeepsItsSize`: the
bound on the number of entries is part of it), `Spec => []ServesRecent` (`CacheServesRecent`) and `Spec => KnownStaysKnown` (`OrganizationStaysKnown`). `ServesRecent`
is not inductive, since a slow answer is put after newer ones. `CacheInv` adds that an entry is never younger than the
last use of its organization (`EntriesAreUsed`), so that nothing is served when the organization counts as unused, and that an answer on its way is
as recent as it has to be (`AnswersAreRecent`), since a thread that waits for it is a use.

`TranscriptVerifyProofs` proves `Spec => []VerifyInv` (`VerifyInvariance`), `Spec => []VerifiedAgrees` (`VerifiedTranscriptsAgree`) and `Spec => []OwnIsVerified`
(`OwnTranscriptIsVerified`), for any fields, texts and set of transcripts. `VerifyInv` says that what still matches agrees in everything that
is behind the stage of the verification, and that the own transcript never stops matching. That
the first record with a summary exists rests on the natural numbers being well-ordered (`MinIsLeast`). The totals are folds over a transcript; the
proofs only use that equal transcripts have equal totals, and what the totals are is left to TLC.

The parts that were added for the proofs (`VerdictInv`, `LinesInv`, `DialogInv`, `RecordInv`, `ProvidersInv`, `CacheInv`, `VerifyInv`) hold in the instances of
the runs as well: `INVARIANT` with their name in the configuration has TLC check them.

**Only model-checked:** the liveness properties `PostedIsAcknowledged`, `ThreadsEnd`, `UploadsEnd` and `EndIsShown`, as TLAPS does not prove
liveness under fairness. Where transcripts are exchanged, `SuccessMeansStored` and `VerdictKept` are neither proved nor checked: they do not hold there.

## 5. Findings

One disagreement is kept as a run that must be violated:

1. `exchange_ack_id`: `buildAcceptedAcknowledgement(CollegeTranscript)` answers
   with the DocumentID of the transcript, although the sender's transaction id
   came with the POST and a comment says that it is sent back. The sender looks
   the number up as a transaction id.

The others met while modelling are stated as properties of the modules and have configurations of their own, which TLC finds violated
(`tlc -config X.cfg MC...`); they belong to no regular run:

| configuration | property | what the code does, and what says otherwise |
| --- | --- | --- |
| `Exchange_ack_lost.cfg` | `AckStaysOnRow` | if the response to a POST is lost, the catch block of `sendFile` saves the row as it was before the POST, over the acknowledgement that arrived meanwhile (`documentation.html:1756`) |
| `Exchange_unstored.cfg` | `DeliveredIsStored` | `receiveFile` starts `deliverFile` for refused documents too (`FileProcessorService.java:273`) |
| `InstitutionUpload_result.cfg` | `ResultsNameInstitutions` | the object of a creation that was rolled back keeps its id, and the catch block stores it as the institution of the result (`changelog-0.0.3/changelog.xml:216`) |
| `InstitutionUpload_grant.cfg` | `ExistingIsGranted` | the provider whose creation lost the race is not linked to the institution that exists by then (`InstitutionResource.java:131`); uploading again would |
| `OrganizationAccess_stale_save.cfg` | `EnabledExplicitly` | saving a page that was loaded while the organization was enabled enables it again after a certificate disabled it (`documentation.html:1995`) |
| `OrganizationAccess_review.cfg` | `EnabledWasReviewed` | an administrator enables the certificate that is stored when the request is served, not the one on the page (`documentation.html:1995`) |
| `OrganizationAccess_disabled_token.cfg` | `DisabledHoldsNoToken` | a token request that passed the check stores its token after the organization was disabled and its tokens deleted (`OAuthServerConfig.java:93`) |
| `OrganizationAccess_status_mail.cfg` | `StatusChangeIsMailed` | enabling an organization sends no e-mail to anybody (`mail/registration.html:36`) |
| `RecordPage_update_adds.cfg` | `UpdatesAddNothing` | a PUT of a record that was deleted elsewhere inserts it under a new id (`UserResource.java:107`) |
| `RecordPage_password.cfg` | `ChangedPasswordStays` | saving a row brings back the password hash that it was loaded with (`app.js:848`) |
| `UploadPage_errors.cfg` | `ErrorsAreDisplayed` | results fetched while the upload ran are never fetched again on that row (`documentation.html:761`) |
| `OrganizationCache_null.cfg` | `PageHasOrganization` | a failed lookup of another thread assigns null to the shared field between the check of a page and its use (`AppController.java:243`) |
| `TranscriptVerify_no_gpa.cfg` | `BuiltIsVerified` | a transcript whose first summary has no GPA makes the verification of its own acknowledgement end in an exception (`TranscriptAcknowledgementTests.java:74`) |
| `ServiceProviders_early_save.cfg` | `LinkedStays` | closing the form sends the whole set, loaded or not, and removes links made by uploads since (`documentation.html:772`) |
| `ServiceProviders_stale_copy.cfg` | `ProvidersKeepTheirData` | the same PUT merges old copies of the providers over the providers (`ServiceProviderResource.java:118`) |

## 6. Not modelled, and the plan

Not modelled: builders and serialization (pure conversion), API samples and usage data (nothing reads them), the PESC library
(generated bindings), authentication of calls between servers (a rejected call is a failed POST), the searches of the pages
(nothing is stored from their answers), the pages of the network server (they show what was fetched and send one form).

What the map leaves out is mostly not this project's code: of the JavaScript under `static/`, AngularJS, its
animations, Bootstrap's widgets and Swagger UI are vendored and make up all but some four thousand lines, the two `app.js`. Of these, the
forms that are not named in the map repeat the ones that are.

In this order:

1. Proofs about what sections 2 to 4 leave apart: that `UploadPage` and `InstitutionUpload` meet in the same `UploadProgress` is an
   argument of this text; a module that composes the two would state it.
2. Endpoints: one endpoint is shared by organizations, which select and unselect it on pages of their own; the deletion of an
   organization with its users, contacts, messages and endpoints.
3. The form of school codes, which takes a code off its list before the server has deleted it.
4. `Exchange` over `OrganizationAccess` and `OrganizationCache`, so that a verification fails for a cause.
5. Messages: dismissal by several readers.

# A formal model of the OCDM CDMi service

TLA+ models of `open-content-decryption-module-cdmi`: the service that connects a browser,
over Sun RPC and System V shared memory, with a content decryption module (CDM), and the stub
CDM (`cdmi-stub/`) delivered with it. Paths below are relative to the repository's root; line
numbers are those of the modelled commit.

## 1. The system

### Components

| Component | Code | State | Operations |
|---|---|---|---|
| Session service | `service.cpp`, `cdmi-stub/mediakeys.cpp`, `imp.h` | `g_pMediaKeys`, the registry `g_mediaKeySessions` (a `std::map` keyed by borrowed `const char *`), `CMediaKeys::s_sessionCnt`, the heap objects `CMediaKeySession`, `g_mediaEngineSessions`, `g_pnum` | seven RPC handlers: `is_type_supported`, `mediakeys`, `create_session`, `load_session`, `update`, `release`, `mediaengine` |
| Callback path | `mediakeysession.cpp:75-138`, `CCallback` and `doCallback` in `service.cpp`, `rpc/gen/opencdm_callback_clnt.c` | detached threads holding a raw session pointer; one `CLIENT` handle per callback | `OnKeyMessage`, `OnKeyReady` on detached threads, `OnKeyStatusUpdate` on the service thread; each does `clnt_create` and a `clnt_call` of at most 25 s |
| Sample path | `decryptShmem` in `service.cpp`, `mediaenginesession.cpp`, `mediakeysession.cpp:159-225` | one worker thread per media engine session; `static clear_content`; `g_keys`; the heap | lock, read the area, release the old clear content, decrypt, copy back, unlock |
| Shared memory and semaphores | `libs/shmemsem/` | semaphore values and undo adjustments, segments | `LockSemaphore`, `UnlockSemaphore`, `MapSharedMemory`, `DetachExistingSharedMemory`; allocation and deletion are used by the client only |
| Key extraction | `json_web_key.cpp`, `keypairs.h` | `g_keys` | `ExtractKeysFromJWKSet`, `base64_decode` |
| JSON tokenizer | `cdmi-stub/jsmn/` (vendored) | `pos`, `toknext`, `toksuper`, the caller's token array | `jsmn_init`, `jsmn_parse`, called again after `NOMEM` with more tokens and after `PART` with more text; its callers `jsondump`, the tests, the key extraction |
| RPC runtime | `rpc/*.x`, `rpc/gen/` (rpcgen output) | the request being served | `open_cdm_1`: decode, call the handler, reply, free the arguments |

### How they interact

* A browser sends RPC requests. `svc_run` serves them one at a time on one thread; `open_cdm_1`
  replies after the handler returned (never, if it returned `NULL`) and then frees the decoded
  arguments - the session id buffer that `operator[]` may just have made a key of the registry.
* `create_session` and `update` start detached threads that call back into the browser through
  the session pointer. `update` also calls back on the service thread itself, so that thread
  blocks until the browser answered or the call timed out.
* All callbacks use the global program number `g_pnum`, which every `create_session` overwrites.
* `mediaengine` starts a worker. Client and worker hand a shared memory area over with two
  semaphores: the client fills it, unlocks `DECRYPT` and locks `PULL`; the worker locks `DECRYPT`,
  decrypts and unlocks `PULL`. An area of zeros ends the worker.
* All workers share, without a lock, `clear_content`, `g_keys` and the sessions that `release` frees.

### What is hard, and what makes a component correct

* *Sessions.* Lifetimes: raw session pointers in the registry, in detached threads, in engine
  sessions and in workers, while `release` frees at once. Correct: what a handler finds is alive
  and filed once; ids are unique and never reused; live sessions can be found.
* *Callbacks.* Order and identity: an event goes out under the id of the session that asked for
  it, to the browser that created it, and never tells of a key before an update. Failures: no
  thread, no descriptor, no browser; a timeout must release the service thread.
* *Samples.* Exclusive use of the area; each sample answered once, in order, in its own buffer; no
  block leaked or freed twice; a killed client must not let the worker into the area.
* *Keys and tokens.* A call of the tokenizer may be interrupted anywhere and go on later; the array must not
  be overrun, and the tokens must be the same however the text was cut. The extraction reads that flat
  array by position: it must not read behind it, must install the octets that were encoded, and refuse
  what it does not support without touching the keys in use.
* *RPC.* One reply per request that has one.

The list of hazards, each at its line, is `hazards` in `PROJECT.json`.

## 2. Modules

| Module | Role |
|---|---|
| `SessionDirectory` | abstract: sessions are opened in order, licensed and closed; events only of open, key events only of licensed ones |
| `MediaKeySessions` | session service, callback path and request dispatch |
| `MCMediaKeySessions` | symmetry sets for its instances |
| `MediaKeySessions_proofs` | theorems about it |
| `SessionDirectory_proofs` | the proof that it implements `SessionDirectory` |
| `SampleChannel` | abstract: a sample is submitted, answered once and taken; one last answer after the end marker |
| `DecryptShmem` | sample path with semaphores, undo adjustments, the shared heap pointer and keys |
| `MCDecryptShmem` | symmetry sets for its instances |
| `DecryptShmem_proofs` | theorems about it, for any clients |
| `DecryptChannel_proofs` | theorems about it for orderly streams, and the proof that it implements `SampleChannel` |
| `Jsmn` | the tokenizer as a state machine, with a free caller (`Caller`, `Parser`) |
| `JsonText` | what a JSON text and its tokens are, without a parser (`Tokenized`): the reference for the callers |
| `JsmnCallers` | `jsondump` and `test_count`, two programs around `Jsmn` |
| `JsmnDump` | the walk `dump` over the tokens, as a state machine next to the program that calls it |
| `Base64` | `base64_decode` and the encoder it inverts |
| `JsonWebKey` | `ExtractKeysFromJWKSet`, the service's program around `Jsmn` |
| `MCJson` | JSON texts built together with their tokens, licences, and the three programs as one instance |
| `Jsmn_proofs` | theorems about the tokenizer with any caller |
| `JsonText_proofs` | lemmas: what the tokenizer does with a JSON text |
| `JsmnCallers_proofs`, `JsonWebKey_proofs` | theorems about its callers; the latter also about `Base64` |

Operators whose name says what is wrong with them (`ErasedNothing`, `NextIdStuck`, `UnlockOther`, ...)
stand directly before the definition they are a variant of. They are no part of the specification:
each is a mistake one could make in that piece of code, kept to confirm that the property listed with
it in `PROJECT.json` (`mutants`) notices.

### MediaKeySessions and the code

* One handler is one action, from the dispatch to the state it leaves before the reply (`svc.pc =
  "reply"`); `SendReply` is the return to `svc_run`. `create_session`, `update` and `release` are split
  by their outcome (`CreateSession`/`RefuseSession`, `UpdateFound`/`UpdateUnknown`,
  `ReleaseFound`/`ReleaseUnknown`). The handlers run on one thread, so no other handler can interleave;
  callback threads see only the registry-independent memory of the session, and do so in steps of
  their own.
* `doCallback` is three steps of an *actor* (a detached thread or the service thread): `CbSession` reads
  the session object, `CbConnect` is `gethostname` and `clnt_create`, `CbFinish` is `clnt_call`.
  `update` leaves the service thread in `svc.pc = "status"` until its own callback is over.
* The registry is a function from keys. A key is a session id or one of `Stray`, the nodes that
  `operator[]` inserted for an unknown id: their key points into a freed request buffer. While there is
  such a node a lookup may land on it, or miss the node it looks for (`LandsOn`, `Missable`), and an
  insertion may hit it (`Filed`). With `Stray = {}` clients never name an unknown session.
  An erase takes the whole range of equal keys, which in a tree disordered by such nodes may be any others as
  well (`Erased`).
* A session object is an address with its last contents. Freed memory keeps them until the address is
  reused; a virtual call on it crashes or proceeds. The id string itself is never freed in the code.
* The licence is abstracted to the outcome of the extraction (`ExtractKeys`): refused, one pair swapped in, or the
  process ended by a read of tokens that are not there. `JsonWebKey` is that extraction.
* `CbConnect` needs a descriptor and the browser's server to succeed, and may fail without a lack of either (host
  name, portmapper, timeout): every failure of `clnt_create` is `exit(2)`.
* A call exists from the dispatch of its handler on (`Dispatch`). A request that another browser sends while `update`
  blocks the service thread waits in the transport, outside of the state; it is dispatched later or not at all.
* `GiveUp` is the browser's 25 s timeout, `Leave` the end of its callback server.

### DecryptShmem and the code

* The worker's loop is cut where another thread could tell: `Lock`, `Map` (or `Finish`),
  `ReleaseClearContent`, `Decrypt` up to the key's use, `Cipher` up to its return, `Copy`, `Unlock`.
* `SemOp` is `semop` with `SEM_UNDO`: it sleeps rather than let the value get negative, and fails
  without any effect when the undo adjustment would leave `-SEMAEM-1 .. SEMAEM`. The helpers ignore
  the result, so a failing lock is a lock that did not happen. The client uses the same helpers.
* A heap block keeps its bytes after `free`; freeing it again ends in `down = "heap"`, after which
  nothing is promised. `clear_content` is one pointer for all workers and is never reset.
* A sample is `[of, n, form]`: whose, which, and encrypted, clear or garbled. Keys are told apart by what
  `Decrypt` does with them: 16 bytes; 16 bytes with a zero byte (`strlen`); another length. If
  `AES_set_encrypt_key` rejects the length it is told, `aes_key` stays uninitialised: the sample comes back garbled
  (`Deciphered`) or the process ends (`Unkeyed`).
* A killed client (`Die`) has its semaphore operations undone by the kernel, and segments that nobody has
  mapped any more go with it (`Gone`).
* The client is external and is modelled from what the service expects of it.

### Jsmn, its callers and the code

* One action is one turn of a loop of `jsmn_parse` or `jsmn_parse_string`; the short scans of a primitive and
  of four hexadecimal digits are one step. The code is modelled in the two builds its Makefile makes: the
  library, which the service and `jsondump` use, and the one within `jsmn_test.c`, which defines `JSMN_STRICT` at line
  41. `strict` says which. The strict build takes only numbers, booleans and `null` for primitives, none of
  them as a name of an object, and does not let the end of the text end one. Neither build defines
  `JSMN_PARENT_LINKS`. A text is a sequence of characters of a small set that holds one or
  more of each kind the code tells apart; `NUL` ends it.
* `pc = "idle"` is between calls. An error in a string gives it back (`GiveBack`: `pos` returns to its quote);
  an error elsewhere leaves `pos` where it is. What a call has stored stays.
* Counting (`storing = FALSE`, `tokens == NULL`) takes the branches the code takes: brackets are not matched.
* A comma with `toksuper = -1` reads `tokens[-1]`. Whatever is there, the branch it may lead to looks for an open
  container, and `SuperOfOpen` says there is none: `Comma` does the same in both cases. A primitive at top level of
  the strict build reads it too, and there it decides (`ReadBefore`): a choice.
* `Caller` is any program that starts a text or continues it with no fewer tokens and the same beginning. Both
  modules of callers are checked against it (`Parser`), and the theorems about `Jsmn` assume nothing else.
* `JsmnCallers` reads in chunks of `bufsiz`, doubles the tokens, takes every other error for missing input, and
  may run out of memory, exactly as `jsondump.c`. Its other program is `test_count`, one counting call of the strict build.
* `JsmnDump` is its recursive walk. A call in progress is a frame on `stack` - its token, the values it has still to
  dump, its `count` - and `main` is a call for one value at the bottom; `at` is the sum `t + 1 + j` of the innermost
  call. The count passed on (`Remaining`) is one too large, because a container does not take off its own token, and the
  tokenizer does not ask a name for its value. So a text such as `{1}` leads behind the tokens in use
  (`DumpUnwritten`), where anything may stand: the process ends there, or the walk does.
* `JsonWebKey` scans the tokens by position. Token 1 and the token behind a tag are read without a look at the
  number of tokens: a choice between any text - any part of the licence, or one of `Elsewhere`, texts that lie
  in other memory - and a crash. `oldKeys` is a history variable: what `g_keys` was when the call was made. A word that is only compared
  as a whole (`keys`, `kty`, ...) is one character; `k`, `kid`, `alg`, ids and keys are spelled out, because a
  value may be spelled like a tag.
* `Base64`: `Octets` computes each octet from the two sextets it lies in, modulo 256, like the shifts of the code.

## 3. What the runs check

Assumptions on clients are constants (`Stray`, `EarlyRelease`, `MayLeave`, `Overlap`, `Fit`, `Form`,
`Unknown`, `MayRelease`, `MayDie`), so every run says which clients it is about. The type invariant `TypeOK` of a module is checked in one run
(`sessions_known`, `decrypt_quiet`); the theorems `TypeCorrect` cover the clients of the others.

Runs that hold:

* `sessions_known` - two browsers, two addresses, two threads, two sessions; clients name only sessions
  they hold and release a session when its callbacks are over. The model implements `SessionDirectory`
  (`ImplementsDirectory`): ids in order and never reused, no event of a closed session, no key event
  of a session that was not updated. Also `RegistrySound`, `RegistryExact`, `IdsUnique`,
  `CallbackIdentity`, `CallbackOnLiveSession` (which `sessions_freed` shows to need such clients),
  `ReadyFollowsUpdate`.
* `sessions_stray` - two clients that name anything and release at any time; one of them may disappear.
  `RegistrySound` still holds - even through stray nodes no handler reaches a freed session and
  none is freed twice - and `StatusOnLiveSession`: the callback on the service thread, unlike the others,
  always has a live session. `CallsAnswered` and `CallbacksEnd`: every request that was dispatched and has a reply is
  answered and every callback thread ends, an early release and a browser that has gone notwithstanding, unless
  the process is gone.
* `decrypt_quiet` - two streams whose samples do not overlap, 16-byte keys installed at any time, and
  samples that an assertion rejects (an IV of 16 bytes, a segment with the id 0), which ends the process. The
  model implements `SampleChannel` (`ImplementsChannel`); also `HeapSound`, `NothingLeaked`, `ExclusiveArea`, and
  `ContentConsumed`: a worker copies what it decrypted itself (`decrypt_shared` shows that overlapping streams do not).
* `decrypt_any` - overlapping streams, any key, an unknown and a released session, a killed client.
  `ExclusiveArea` still holds, and `NeverBothAsleep`: a client that waits has its answer posted, or its worker is
  at it or before an open lock. `SamplesAnswered` and `WorkersEnd`: a client that waits gets its answer and a
  worker leaves its loop after the end marker, unless the process is gone or the client killed.
* `licence` - three programs around the tokenizer.
  * `jsondump` on every text of at most three symbols, every text of at most four brackets and separators, escape
    sequences, and 236 JSON values, read in chunks of 1, 3 and 64 characters with two tokens at first.
    `UncutAgrees`: the tokens are those of the value, however it was cut and however often the array grew,
    except when a cut falls into a primitive. `JsonAccepted`: no JSON is taken for broken. `DumpWalksAll`: the
    walk by sizes reads only tokens in use and ends behind the last one, in texts whose names have values (`Paired`).
  * `test_count`, in its strict build, on the same texts. `CountAgrees`: counting gives the number of tokens of every JSON
    text, unless it ends in a primitive, for which that build answers `JSMN_ERROR_PART` (`jsmn.c:60`).
  * the key extraction on sets with one key (orders of members, other members, white space, key lengths 0 to
    16), two keys, ids spelled like a tag, names `k` and `kid` outside of the keys, no key, with 13 tokens so that sets
    lie on both sides of the limit. `PairExtracted`: a set with one key installs exactly the octets that were
    encoded. `OneKeyOrNone`: several keys of which one before the last is not empty and no value of which is spelled like
    a tag, or too many tokens, are refused and leave the keys exactly as they were. `JwkTypeOK`: never more than one pair, and of octets.
  * all: `JsmnTypeOK` (the array is not overrun), `TokensNest`, `SuperOfOpen`, `Parser`, `ProgramsEnd`.

Runs in which a sentence of the repository fails; the trace TLC prints is the history:

* `sessions_notfound` - "no session found for session id" (`service.cpp:210`) for a live session: an earlier
  request for an unknown id left a node whose key is freed memory.
* `sessions_creator` - the "info on how to rpc callback into browser" (`service.cpp:149`) is one global: a
  session's event goes to the browser that created the latest session.
* `sessions_freed` - `Close` should "release all resources associated with the MediaKeySession"
  (`cdmi.h:107`); the detached thread remains and uses the freed session.
* `decrypt_shared` - "we assume that the previous decrypted clear data is consumed" (`service.cpp:309`): a
  second worker overwrites or frees the static `clear_content` before the first one copied it.
* `decrypt_failed` - clear content "has to be released" (`cdmi.h:167`), once: after a `Decrypt` that failed it
  is released again.
* `decrypt_semaem` - "lock own semaphore to get data" (`service.cpp:289`): beyond `SEMAEM` samples the lock
  fails silently and worker and client use the area together. The limit is 2 instead of 32767.
* `licence_refused` - "If |input| looks like a valid JWK Set, then true is returned" (`json_web_key.h:42`): a set whose
  first member is not `keys` is refused, and one with a value spelled `k`, `kid` or `alg` is mistaken.

### Bounds

* Two sessions and two addresses: enough for one session to be confused with another, for an address to be
  reused under a waiting thread, and for `g_pnum` to change. Two threads and the service thread give the
  three callbacks of a session their orders; three descriptors let all of them happen, a fourth callback
  meets the limit. `FirstId` is 10 as in the code.
* `sessions_stray` has one address and one session in the whole behaviour, to keep its liveness properties within reach;
  more sessions, and addresses reused among stray nodes, are covered by theorems `RegistryAlwaysSound` and
  `StatusAlwaysOnLiveSession`.
* Two streams and two blocks: a block to release and one to allocate, and a second worker to disturb. Two
  samples and the end marker: the second sample is the first to find `clear_content` set. In `decrypt_any` one
  sample of each stream: the other stream is the one that finds it set.
* Texts of three and four symbols reach every branch of the tokenizer and every pair of consecutive branches; the
  JSON values go to depth four, so that closing a container restores a superior token that is not the root.
  The array of `jsondump` starts with two tokens and has to grow in the middle of most values. The licence
  array has 13 tokens instead of 2048 (`json_web_key.cpp:27`): sets with a key need 8 to 15, and some need exactly 13.
* `MaxSessions`, `MaxEngines`, `MaxSamples` bound what would be unbounded counters and appear as guards
  (`sessionCnt \in Sid`, `Len(engines) < MaxEngines`, `sent[w] < MaxSamples`). `MaxHandles` is the descriptor
  limit of the process and is part of the behaviour. At the end of a bounded history, and after a crash or
  exit, nothing more happens, so deadlock is not checked. That nobody waits for ever is
  `CallsAnswered`, `SamplesAnswered` and `WorkersEnd`.
* Symmetry is used in runs without liveness properties, over values no constant singles out.

### Fairness

`MediaKeySessions`: weak fairness of the reply and of each step of each callback. The kernel schedules every
thread and both `clnt_create` and `clnt_call` are bounded by a timeout. No fairness for requests, `GiveUp`,
`Leave`. `DecryptShmem`: weak fairness of each worker, which the kernel schedules and wakes, and of a
client's `Post` and `Take`: a client that has filled its area goes on unless it is killed. None for filling
it. `MCJson`: weak fairness of the next step, since each behaviour is one sequential program that the kernel
goes on running; its input is finite.

## 4. What is proved

The proofs hold for all values of the constants: any number of browsers, sessions, threads, stray nodes,
streams, blocks and samples, any text and any licence. They assume the assumptions named in the modules
(`SessionAssumption`, `DecryptAssumption`, `CharAssumption`, `MaxTokensAssumption`, `DocumentsAssumption`,
`BufSizesAssumption`, `LicencesAssumption`, `OldKeysAssumption`, `ElsewhereAssumption`) only.

`MediaKeySessions_proofs`:

* `TypeCorrect` - `TypeOK` is inductive as it stands; it records that a callback in progress has an object.
* `RegistryAlwaysSound` - `RegistrySound` is inductive together with `TypeOK`: a new object takes an address that is
  not live, hence one the registry does not hold; `release` frees what it takes out.
* `IdsAlwaysUnique` - ids of live sessions lie below the counter, and the counter only grows.
* `StatusAlwaysOnLiveSession` - needs the strengthening that a status callback runs exactly while the service
  thread is inside `update`, so no `release` can be dispatched, and `RegistrySound` for the session it found.

* `RegistryAlwaysExact` - if `Stray = {}`: every live session is filed under its id. Inductive together with
  `FiledUnderId` (a node's key is the id of the object it holds) and `IdsUnique`: an erased key is then the
  id of the session that is freed and of no other. `sessions_notfound` shows that the premise is needed.
* `CallbacksKeepIdentity`, `ReadyAlwaysFollowsUpdate` - if clients are `Careful`, that is `Stray = {}` and
  `~EarlyRelease`. `PendingSound` is the strengthening: the object of every callback in progress is live and
  has the id under which the callback was started, and a key event is in progress for updated sessions only.
  A `release` keeps it because the session it frees is the one whose callbacks it waited for
  (`FiledUnderId`) and because the service thread is not in a callback while it serves it (`StatusServed`).
  `SessionInv` collects all of it.
* `CallbacksOnLiveSessions` - under the same premise no thread touches a freed session: the part of `PendingSound` that
  says its object is live. `sessions_freed` shows that the premise is needed.

`SessionDirectory_proofs`:

* `SessionsImplementDirectory` - for `Careful` clients, `Spec => ImplementsDirectory`. `SessionInv` carries it: four
  kinds of steps are visible (`VisibleSteps`), and each is one of the directory's. A new session takes the first
  new id; an update or a release that finds a node finds a live object (`RegistrySound`), the only one with its id
  (`IdsUnique`); a delivered event comes from a live session that was updated if it is about a key (`PendingSound`).

`DecryptShmem_proofs`:

* `TypeCorrect` - `TypeOK` with `Budget`: a client sends nothing after its end marker, which is what bounds `sent`.
* `AreaAlwaysExclusive` - if `MaxSamples + 1 <= SEMAEM`, `ExclusiveArea` always holds, whatever the other
  channels, the keys, released sessions and killed clients do. The inductive invariant says, for a living
  client, that there is one token (`Token`: with the client, in one of the two semaphores, or with the
  worker) and that the four undo adjustments count the operations done (`Adjusted`). The second part is
  needed to show that `semop` never fails below the limit; `decrypt_semaem` shows that the premise is
  needed. The invariant as a whole is `HandoverInv`.
* `NobodyWaitsInVain` - under the same premise `NeverBothAsleep`: while a client waits, the one token is with its worker
  or in a semaphore, never lost. It is the safety half of `SamplesAnswered`; that the worker then moves is fairness.

`DecryptChannel_proofs`, for `Orderly` streams: samples do not overlap, keys have 16 bytes, no client is killed,
`MaxSamples + 1 <= SEMAEM`. `decrypt_shared`, `decrypt_failed` and `decrypt_semaem` show what happens without the
first, the second and the last part; sessions may be released or unknown, and keys replaced at any time.

* `HeapAlwaysSound`, `NothingEverLeaked` - on top of `HandoverInv`, at most one client waits (`Alone`), so at most one
  worker is between its lock and its unlock (`BusyAlone`), and Decrypt does not fail (`KeyUsable`). Then
  `MemoryInv`: between `ReleaseClearContent` and the return of `Decrypt`, where `clear_content` dangles, nothing is
  allocated but the block being filled (`Clean`); otherwise `clear_content` is the only block (`Settled`).
* `ContentAlwaysConsumed` - the assumption of `service.cpp:309`. `Content` says what is in the block before the copy: the
  answer to the sample that was submitted last.
* `SamplePathImplementsChannel` - `Spec => ImplementsChannel`. `Content` also says what is in the buffers: the sample
  that was submitted until the worker copies, then the answer to it.
  The copy itself is invisible, because the client may not look before `PULL`; `Unlock` is the abstract `Answer`.

`Jsmn_proofs`:

* `TokensFit`, `TokensAlwaysNest`, `OpenHasSuper` - `Parser => []JsmnTypeOK`, `[]TokensNest`, `[]SuperOfOpen`, for every
  text, every size of the array and every sequence of resumed calls. They come from one inductive invariant,
  `ParserInv`: besides the three it says that every stored token lies before what is being scanned (`Behind`), which
  is `pos` or, within a string, the start of that string (`Scanned`), because an error gives the string back; and that
  within a string `pos` is behind its quote (`InsideString`). Without `Behind` a new token need not come after the others.

`JsonText_proofs` holds the lemmas that the next two modules share: what `jsmn_parse` does with a text that is JSON.

* *Reference.* `Tokenized(text, toks)` says which tokens a JSON text has without parsing it: the tokens are spelled in
  the text (`Spelled`), stand in its order and within each other (`Ordered`), leave out nothing but spaces, colons and
  commas (`Covered`), and these separate them (`Separated`); the size of a token is the number of tokens that belong
  to it (`Parent`, `Sized`). The constants `Documents` and `Licences` are texts of any kind, each with its tokens if it
  is JSON; that is all `DocumentsAssumption` and `LicencesAssumption` say of tokens. TLC evaluates them on the values of
  `MCJson`, whose tokens are built along with the texts and not by `Tokenized`.
* *Argument.* `Follows` says where the tokenizer stands in a text - between tokens, in a string, or at an end that
  cuts one - so that it never meets what it would call broken (`StepFollows`). `Agrees` says that the tokens stored are
  those that begin before the place reached (`Begun`), with their kinds and bounds; that the ones not yet closed
  are those the place is inside of; that each size is the number of children stored so far; and that the superior
  token is the one the next value belongs to (`StepAgrees`). The last part is the reason for the rest: a
  size is only right if `toksuper` was right each time it was counted, across all interruptions. `Agrees` needs
  that no primitive is cut by the text so far (`Uncut`), `Follows` does not. For the strict build both need a counting
  call on a whole text that does not end in a primitive (`Countable`). At the end of the text `Agrees` leaves
  no other tokens than `toks` (`TextStored`, `TextCounted`), and `NOMEM` is not returned while there is room (`RoomForAll`).
  The induction over the text is the one over the steps of `jsmn_parse`, so it is not out of the prover's reach.

`JsmnCallers_proofs`:

* `CallersRefineParser` - `Callers => Parser`: both programs call the tokenizer as `Caller` allows. It needs that the
  buffer of `jsondump` holds what it held before and the chunk (`ReadSoFar`).
* `UncutTextAgrees`, `JsonTextAccepted`, `CountOfText` - `UncutAgrees`, `JsonAccepted` and `CountAgrees` for every text and
  every size of the buffer. `CallersInv` adds to `Follows` and `Agrees` what is read and what is left: unless all of it
  is read, the buffer was full every time, so cuts fall only on multiples of `bufsiz` (`CutsPrimitive`). `CountOfText`
  is about the strict build; its premise `~EndsInPrimitive` is what makes a text `Countable`.
* `DumpAlwaysWalksAll` - `DumpWalksAll` for values of any depth and size. The invariant `WalkedTo` says that each call in
  progress has still to dump as many values as its container holds from the place reached on (`Held`), that a call
  further in is about a later container, and that the container of every token not yet dumped is in progress or itself
  still to come. Then the next token is one of the innermost call, and when no call is left no token is. The count of a
  call is never below the number of tokens behind its container, so it does not end the walk early, although nobody
  takes off the containers. `MembersHeld` ties this to the sizes the tokenizer stores, which count a value as a child of
  its name: in an object the names are half of what it holds. That needs `Paired`, which `Tokenized` does not say and
  the tokenizer does not check.

`JsonWebKey_proofs`:

* `ExtractionIsCaller` - `Extraction => Parser`: the extraction uses the tokenizer as a `Caller`. So `LicenceFits`: a
  licence never overruns the array on the stack, whatever it holds.
* `JwkTypeCorrect` - `JwkTypeOK` for every licence, JSON or not. `Decodable` chooses a place to stop; that there is one
  in every text (`SextetsBefore`), and that the last octet of an incomplete group needs no sextet behind it
  (`OctetsType`), is what the type of the installed keys comes down to.
* `ScanReadsWritten` - the scan compares only tokens that `jsmn_parse` has written. It needs that one storing call counts
  exactly the tokens it stores (`KeepsCount`).
* `DecodeInvertsEncode` - `Octets(Sextets(b)) = b` for every sequence of octets: the shifts, and the number of
  octets of an incomplete last group. With the alphabets and the padding it becomes lemma `DecodedText`:
  `Decoded(Base64UrlEncode(b)) = b`, what `convertStringsToKeyPair` makes of an encoded text.
* `KeyPairExtracted`, `OneKeyOrNoneInstalled` - `PairExtracted` and `OneKeyOrNone` for every licence and every
  `MAX_JSON_TOKENS`. What a licence means is again said without the program: `IsKeySet` finds the key objects in the
  array behind the name `keys` of the outermost object, and in each of them its `k` and its `kid`. `LicenceInv` is
  inductive with `ParserInv` and `CallInv`: `ParsesText` ties the tokens to the licence; `ScanInv` says that the scan cannot
  pass the second of two equal tags while the first text is not empty; `ManyInv` and `OneInv` carry the two results.
  The structure comes in through two lemmas: the members of one key object all come before those of the next
  (`MembersInOrder`, from the nesting of tokens), and a tag outside of the key objects is the only other one the scan can
  meet.
* The premises are those the code needs. `KeysFirst` and `~TagLike` are the two of `licence_refused`; `~Stray`: a name
  `k` or `kid` elsewhere in the set is a tag to the scan as well. `Several` asks for a key before the last that is not empty,
  because an empty text counts as "not seen" (`json_web_key.cpp:186`): after a key and an id of no octets the next key is
  taken. `MCJson` has such sets.

Every safety property that holds in a run - invariant, action property or refinement - is also a theorem, some of them
under premises on the clients (for each, `PROJECT.json` names the theorem). Only model-checked: what the seven failing
runs refute, which holds only under the premises above; and, out of the prover's reach, the liveness properties under
fairness (`CallsAnswered`, `CallbacksEnd`, `SamplesAnswered`, `WorkersEnd`, `ProgramsEnd`). That the JSON values of `MCJson` are `Tokenized` is checked by TLC as an assumption.

## 5. What is not modelled

* XDR marshalling and the callback server skeleton: generated field by field, and the latter runs in the browser.
* Decoding errors, duplicated requests and the descriptors of the transport: they are decided in the RPC library,
  which is not in the repository; the callbacks go over TCP.
* The growth of `g_mediaEngineSessions` while workers read it (`service.cpp:364`), and a failing `std::thread`
  constructor: the workers of `DecryptShmem` have their engine session from the start. No line of the
  repository says what holds while the vector moves.
* A composition of `MediaKeySessions` and `DecryptShmem` in one state space. They meet in three places, each with
  its own action on both sides: `update` (`InstallKeys`), `release` (`ReleaseSession`) and `mediaengine` (a worker
  starts, `Unknown` if the session was not found).
* The JSON tests other than the counting one: fixed inputs of the call `jsondump` makes with the same parser.
* Logging, benchmarks, texts of messages; `OnKeyError`, `DestroyMediaKeySession`, `DestroyMediaKeys` and
  `DestroyMediaEngineSession`, which nothing calls.
* A 32-bit wrap of the session counter, which takes 2^32 requests, and offsets of texts beyond 2^31.
* A signal that interrupts `semop`, and a client that deletes a semaphore set in use: the service installs no
  handler and the repository's client does not exist here.

## 6. Plan

Done: the session side, the sample path, the tokenizer, the key extraction, their runs, both refinements and the
theorems above.

Next, in this order:

1. The vector of engine sessions as a step of its own in `DecryptShmem`, with the lookup at the head of the loop.
2. What is left of `HeapSound` when a client is killed: its worker may run next to the others, so the premise has
   to be found first, by model checking.

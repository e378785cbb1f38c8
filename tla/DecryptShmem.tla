---------------------------- MODULE DecryptShmem ----------------------------
(***************************************************************************)
(* The sample path: the decryptShmem threads of service.cpp, the semaphore *)
(* helpers of shmemsem_helper.cpp, and Decrypt / ReleaseClearContent of    *)
(* the stub.                                                               *)
(*                                                                         *)
(* Each media engine session has one worker thread and one client, joined  *)
(* by a shared memory area and a semaphore set of their own.  All workers  *)
(* share, without a lock, the static pointer clear_content, the heap and   *)
(* g_keys.  The client is external: it is modelled from the use the        *)
(* service makes of the area (fill, unlock DECRYPT, lock PULL), with the   *)
(* same semaphore helpers.                                                 *)
(*                                                                         *)
(* Undefined behaviour is an explicit choice: reading a freed block gives  *)
(* its old bytes or junk, an uninitialised size copies something or        *)
(* nothing, a second free ends in down = "heap", after which nothing is    *)
(* promised.  A behaviour stops when the service process does.             *)
(***************************************************************************)
EXTENDS Integers, FiniteSets

CONSTANTS
  Worker,      \* media engine sessions, each with its thread and its client
  Block,       \* addresses malloc may hand out for clear content
  MaxSamples,  \* bound: samples a client submits before the end marker
  SEMAEM,      \* kernel limit of an undo adjustment (32767)
  Fit,         \* the kinds of keys sessions install: subset of KeyFit
  Form,        \* the kinds of samples clients submit: subset of SampleForm
  Unknown,     \* workers whose engine session was created for no session (NULL)
  MayRelease,  \* workers whose session may be released while they run
  MayDie,      \* workers whose client process may be killed
  Overlap,     \* may a client submit a sample while another's is being decrypted?
  NULL

\* What Decrypt does with a key: 16 bytes; 16 bytes with a zero byte, for which
\* strlen(key) * 8 is no AES key length; another length.
KeyFit == {"ok", "zero", "size"}

\* "plain", or what an assertion rejects: an IV of AES_BLOCK_SIZE, a segment id of 0.
SampleForm == {"plain", "iv16", "id0"}

ASSUME DecryptAssumption ==
  /\ MaxSamples \in Nat /\ SEMAEM \in Nat
  /\ Fit \subseteq KeyFit /\ Form \subseteq SampleForm
  /\ Unknown \subseteq Worker /\ MayRelease \subseteq Worker /\ MayDie \subseteq Worker
  /\ Overlap \in BOOLEAN
  /\ NULL \notin Block \cup Worker

VARIABLES
  cpc,      \* where each client is
  wpc,      \* where each worker is in the loop of decryptShmem
  sem,      \* values of the semaphores SEM_XCHNG_DECRYPT and SEM_XCHNG_PULL of each set
  undo,     \* semadj of the client process and of the service for each of them
  info,     \* shmem_info: an end marker (all zero) or a sample of some form
  sent,     \* samples and end markers submitted so far
  buf,      \* the sample buffer of each client
  heap,     \* the blocks of clear content: allocated or not, and their bytes
  clear,    \* the static pointer clear_content
  out,      \* the block a worker has allocated in Decrypt
  held,     \* the key a worker points at in Decrypt, "freed" once g_keys was swapped
  res,      \* what Decrypt returned to the worker
  session,  \* the CMediaKeySession behind each engine session
  keys,     \* g_keys
  down      \* "up", or how the process ended

area == <<sem, undo, info, sent, buf>>
memory == <<heap, clear, out, held, res>>
vars == <<cpc, wpc, area, memory, session, keys, down>>

Sem == {"DECRYPT", "PULL"}
Process == {"client", "service"}

\* Bytes of a buffer: sample n of a client, encrypted, clear or garbled; or junk.
Bytes == [of : Worker \cup {NULL}, n : 0 .. (MaxSamples + 1),
          form : {"cipher", "clear", "garbled", "junk", "gone"}]
Junk == [of |-> NULL, n |-> 0, form |-> "junk"]

\* A segment that no longer exists: shmat fails and the address it returns faults.
Gone == [of |-> NULL, n |-> 0, form |-> "gone"]
Key == [of : Worker, fit : KeyFit]
HeldKey == [of : Worker, fit : KeyFit \cup {"freed"}]

Live == {b \in Block : heap[b].live}

Init ==
  /\ cpc = [w \in Worker |-> "fill"]
  /\ wpc = [w \in Worker |-> "lock"]
  /\ sem = [w \in Worker |-> [s \in Sem |-> 0]]
  /\ undo = [p \in Process |-> [w \in Worker |-> [s \in Sem |-> 0]]]
  /\ info = [w \in Worker |-> "plain"]
  /\ sent = [w \in Worker |-> 0]
  /\ buf = [w \in Worker |-> Junk]
  /\ heap = [b \in Block |-> [live |-> FALSE, bytes |-> Junk]]
  /\ clear = NULL
  /\ out = [w \in Worker |-> NULL]
  /\ held = [w \in Worker |-> NULL]
  /\ res = [w \in Worker |-> "none"]
  /\ session = [w \in Worker |-> IF w \in Unknown THEN "null" ELSE "live"]
  /\ keys = NULL
  /\ down = "up"

-----------------------------------------------------------------------------
(* LockSemaphore (d = -1) and UnlockSemaphore (d = 1): semop with SEM_UNDO. *)
(* It sleeps while the value would get negative.  When the adjustment would *)
(* leave its range it returns ERANGE and changes nothing; the helpers       *)
(* ignore what it returns.                                                  *)

SemOpNoSleep(p, w, s, d) ==
  /\ sem' = [sem EXCEPT ![w][s] = @ + d]
  /\ undo' = [undo EXCEPT ![p][w][s] = @ - d]
SemOp(p, w, s, d) ==
  /\ sem[w][s] + d >= 0
  /\ IF undo[p][w][s] - d \in (-SEMAEM - 1) .. SEMAEM
     THEN /\ sem' = [sem EXCEPT ![w][s] = @ + d]
          /\ undo' = [undo EXCEPT ![p][w][s] = @ - d]
     ELSE UNCHANGED <<sem, undo>>

LockSemaphore(p, w, s) == SemOp(p, w, s, -1)
UnlockOther(p, w, s) ==
  IF p = "service" THEN SemOp(p, w, "DECRYPT", 1) ELSE SemOp(p, w, s, 1)
UnlockSemaphore(p, w, s) == SemOp(p, w, s, 1)

-----------------------------------------------------------------------------
(* The client of w (external).                                             *)

Mapped(w) == wpc[w] \in {"release", "decrypt", "cipher", "copy"}

Quiet(w) == Overlap \/ \A v \in Worker \ {w} : cpc[v] \notin {"post", "wait"}

FillSample(w, f) ==
  /\ down = "up" /\ cpc[w] = "fill" /\ Quiet(w)
  /\ sent[w] < MaxSamples
  /\ cpc' = [cpc EXCEPT ![w] = "post"]
  /\ info' = [info EXCEPT ![w] = f]
  /\ sent' = [sent EXCEPT ![w] = @ + 1]
  /\ buf' = [buf EXCEPT ![w] = [of |-> w, n |-> sent[w] + 1, form |-> "cipher"]]
  /\ UNCHANGED <<wpc, sem, undo, memory, session, keys, down>>

FillEnd(w) ==
  /\ down = "up" /\ cpc[w] = "fill" /\ Quiet(w)
  /\ cpc' = [cpc EXCEPT ![w] = "post"]
  /\ info' = [info EXCEPT ![w] = "end"]
  /\ sent' = [sent EXCEPT ![w] = @ + 1]
  /\ UNCHANGED <<wpc, sem, undo, buf, memory, session, keys, down>>

Post(w) ==
  /\ down = "up" /\ cpc[w] = "post"
  /\ UnlockSemaphore("client", w, "DECRYPT")
  /\ cpc' = [cpc EXCEPT ![w] = "wait"]
  /\ UNCHANGED <<wpc, info, sent, buf, memory, session, keys, down>>

Take(w) ==
  /\ down = "up" /\ cpc[w] = "wait"
  /\ LockSemaphore("client", w, "PULL")
  /\ cpc' = [cpc EXCEPT ![w] = IF info[w] = "end" THEN "gone" ELSE "fill"]
  /\ UNCHANGED <<wpc, info, sent, buf, memory, session, keys, down>>

\* The kernel applies the undo adjustments of a killed client; no value gets negative.
\* MapSharedMemory marks a segment for removal, so a sample that is not mapped by the worker
\* may go with its client.
Die(w) ==
  /\ down = "up" /\ w \in MayDie /\ cpc[w] \notin {"gone", "dead"}
  /\ cpc' = [cpc EXCEPT ![w] = "dead"]
  /\ sem' = [sem EXCEPT ![w] = [s \in Sem |->
       IF @[s] + undo["client"][w][s] < 0 THEN 0 ELSE @[s] + undo["client"][w][s]]]
  /\ \E left \in {buf[w]} \cup (IF Mapped(w) THEN {} ELSE {Gone}) :
       buf' = [buf EXCEPT ![w] = left]
  /\ UNCHANGED <<wpc, undo, info, sent, memory, session, keys, down>>

-----------------------------------------------------------------------------
(* The loop of decryptShmem, up to the steps other threads can tell apart.  *)

Lock(w) ==
  /\ down = "up" /\ wpc[w] = "lock"
  /\ LockSemaphore("service", w, "DECRYPT")
  /\ wpc' = [wpc EXCEPT ![w] = "read"]
  /\ UNCHANGED <<cpc, info, sent, buf, memory, session, keys, down>>

\* The end marker: detach, wake the client, leave the loop.
FinishNoBreak(w) ==
  /\ down = "up" /\ wpc[w] = "read" /\ info[w] = "end"
  /\ UnlockSemaphore("service", w, "PULL")
  /\ wpc' = [wpc EXCEPT ![w] = "lock"]
  /\ UNCHANGED <<cpc, info, sent, buf, memory, session, keys, down>>
Finish(w) ==
  /\ down = "up" /\ wpc[w] = "read" /\ info[w] = "end"
  /\ UnlockSemaphore("service", w, "PULL")
  /\ wpc' = [wpc EXCEPT ![w] = "ended"]
  /\ UNCHANGED <<cpc, info, sent, buf, memory, session, keys, down>>

\* MapSharedMemory of the IV and of the sample, which asserts id # 0.
Map(w) ==
  /\ down = "up" /\ wpc[w] = "read" /\ info[w] # "end"
  /\ \/ /\ info[w] # "id0"
        /\ wpc' = [wpc EXCEPT ![w] = "release"]
        /\ UNCHANGED down
     \/ /\ info[w] = "id0"
        /\ down' = "abort"
        /\ UNCHANGED wpc
  /\ UNCHANGED <<cpc, area, memory, session, keys>>

FreeNothing(b) == heap
\* free(b): the bytes stay until the block is reused.
Free(b) == [heap EXCEPT ![b].live = FALSE]

\* if (clear_content) ReleaseClearContent, a virtual call through the session pointer.
\* clear_content is not reset.
ReleaseClearContent(w) ==
  /\ down = "up" /\ wpc[w] = "release"
  /\ \/ /\ clear = NULL \/ session[w] # "null"
        /\ wpc' = [wpc EXCEPT ![w] = "decrypt"]
        /\ heap' = IF clear = NULL THEN heap ELSE Free(clear)
        /\ down' = IF clear \in Block \ Live THEN "heap" ELSE "up"
     \/ /\ clear # NULL /\ session[w] # "live"
        /\ down' = "crash"
        /\ UNCHANGED <<wpc, heap>>
  /\ UNCHANGED <<cpc, area, clear, out, held, res, session, keys>>

\* Decrypt up to its use of the key: the assertion on the IV, malloc, the key's size.
\* An empty g_keys is read out of bounds, and malloc's result is not tested.
Decrypt(w) ==
  /\ down = "up" /\ wpc[w] = "decrypt"
  /\ \/ /\ info[w] = "iv16"
        /\ down' = "abort"
        /\ UNCHANGED <<wpc, heap, out, held, res>>
     \/ /\ info[w] # "iv16" /\ (keys = NULL \/ Block = Live)
        /\ down' = "crash"
        /\ UNCHANGED <<wpc, heap, out, held, res>>
     \/ /\ info[w] # "iv16" /\ keys # NULL /\ keys.fit = "size"
        /\ res' = [res EXCEPT ![w] = "failed"]
        /\ wpc' = [wpc EXCEPT ![w] = "copy"]
        /\ UNCHANGED <<heap, out, held, down>>
     \/ /\ info[w] # "iv16" /\ keys # NULL /\ keys.fit # "size"
        /\ \E b \in Block \ Live :
             /\ heap' = [heap EXCEPT ![b].live = TRUE]
             /\ out' = [out EXCEPT ![w] = b]
        /\ held' = [held EXCEPT ![w] = keys]
        /\ wpc' = [wpc EXCEPT ![w] = "cipher"]
        /\ UNCHANGED <<res, down>>
  /\ UNCHANGED <<cpc, area, clear, session, keys>>

\* What AES makes of the sample if it comes back (Unkeyed): clear with the key of the session
\* it belongs to, garbled with another one, with a zero byte in it, or with a freed string.
Deciphered(w) ==
  {f \in {"clear", "garbled"} :
     \/ f = "garbled" /\ held[w] # [of |-> w, fit |-> "ok"]
     \/ f = "clear" /\ held[w].of = w /\ held[w].fit \in {"ok", "freed"}}

CipherUnpublished(w) ==
  /\ down = "up" /\ wpc[w] = "cipher" /\ buf[w] # Gone
  /\ \E f \in Deciphered(w) : heap' = [heap EXCEPT ![out[w]].bytes = [buf[w] EXCEPT !.form = f]]
  /\ clear' = IF clear = NULL THEN out[w] ELSE clear
  /\ out' = [out EXCEPT ![w] = NULL]
  /\ held' = [held EXCEPT ![w] = NULL]
  /\ res' = [res EXCEPT ![w] = "success"]
  /\ wpc' = [wpc EXCEPT ![w] = "copy"]
  /\ UNCHANGED <<cpc, area, session, keys, down>>
\* AES_set_encrypt_key to the return CDMi_SUCCESS of Decrypt.
Cipher(w) ==
  /\ down = "up" /\ wpc[w] = "cipher" /\ buf[w] # Gone
  /\ \E f \in Deciphered(w) : heap' = [heap EXCEPT ![out[w]].bytes = [buf[w] EXCEPT !.form = f]]
  /\ clear' = out[w]
  /\ out' = [out EXCEPT ![w] = NULL]
  /\ held' = [held EXCEPT ![w] = NULL]
  /\ res' = [res EXCEPT ![w] = "success"]
  /\ wpc' = [wpc EXCEPT ![w] = "copy"]
  /\ UNCHANGED <<cpc, area, session, keys, down>>

\* AES_set_encrypt_key rejects a key whose strlen is no key length; the rounds of aes_key are
\* then what the stack held, and AES may run off it.
Unkeyed(w) ==
  /\ down = "up" /\ wpc[w] = "cipher" /\ held[w].fit # "ok"
  /\ down' = "crash"
  /\ UNCHANGED <<cpc, wpc, area, memory, session, keys>>

\* The IV, the sample or the copy back touches a segment that is gone.
Fault(w) ==
  /\ down = "up" /\ wpc[w] \in {"cipher", "copy"} /\ buf[w] = Gone
  /\ down' = "crash"
  /\ UNCHANGED <<cpc, wpc, area, memory, session, keys>>

\* memcpy(mem_sample, clear_content, MIN(sampleSize, clear_content_size)).  Nobody looks
\* at what Decrypt returned; after a failure the size is uninitialised.
Copy(w) ==
  /\ down = "up" /\ wpc[w] = "copy"
  /\ \/ /\ clear # NULL /\ buf[w] # Gone
        /\ \E x \in {heap[clear].bytes} \cup (IF clear \in Live THEN {} ELSE {Junk}) :
             buf' = [buf EXCEPT ![w] = x]
        /\ wpc' = [wpc EXCEPT ![w] = "unlock"]
        /\ UNCHANGED down
     \/ /\ res[w] = "failed"
        /\ wpc' = [wpc EXCEPT ![w] = "unlock"]
        /\ UNCHANGED <<buf, down>>
     \/ /\ res[w] = "failed" /\ clear = NULL
        /\ down' = "crash"
        /\ UNCHANGED <<buf, wpc>>
  /\ UNCHANGED <<cpc, sem, undo, info, sent, memory, session, keys>>

Unlock(w) ==
  /\ down = "up" /\ wpc[w] = "unlock"
  /\ UnlockSemaphore("service", w, "PULL")
  /\ wpc' = [wpc EXCEPT ![w] = "lock"]
  /\ UNCHANGED <<cpc, info, sent, buf, memory, session, keys, down>>

-----------------------------------------------------------------------------
(* What the session side does meanwhile (MediaKeySessions).                 *)

\* Update swaps in the key of one session; the strings of the old one are freed under
\* a Decrypt that points at them.
InstallKeys(w, fit) ==
  /\ down = "up"
  /\ keys' = [of |-> w, fit |-> fit]
  /\ held' = [v \in Worker |-> IF held[v] = NULL THEN NULL ELSE [held[v] EXCEPT !.fit = "freed"]]
  /\ UNCHANGED <<cpc, wpc, area, heap, clear, out, res, session, down>>

ReleaseSession(w) ==
  /\ down = "up"
  /\ w \in MayRelease /\ session[w] = "live"
  /\ session' = [session EXCEPT ![w] = "freed"]
  /\ UNCHANGED <<cpc, wpc, area, memory, keys, down>>

-----------------------------------------------------------------------------

WorkerStep(w) ==
  \/ Lock(w) \/ Finish(w) \/ Map(w) \/ ReleaseClearContent(w)
  \/ Decrypt(w) \/ Cipher(w) \/ Unkeyed(w) \/ Fault(w) \/ Copy(w) \/ Unlock(w)

ClientStep(w) ==
  \/ \E f \in Form : FillSample(w, f)
  \/ FillEnd(w) \/ Post(w) \/ Take(w) \/ Die(w)

Next == \E w \in Worker :
  \/ WorkerStep(w) \/ ClientStep(w) \/ ReleaseSession(w)
  \/ \E fit \in Fit : InstallKeys(w, fit)

\* The kernel schedules every thread and wakes a sleeper whose semaphore allows it; a client
\* that has filled its area goes on, nothing makes it fill it.
Fairness == \A w \in Worker : WF_vars(WorkerStep(w)) /\ WF_vars(Post(w)) /\ WF_vars(Take(w))

Spec == Init /\ [][Next]_vars /\ Fairness
-----------------------------------------------------------------------------
(* The abstract channel this path implements.                               *)

Channel == INSTANCE SampleChannel WITH
  count <- sent,
  buffer <- [w \in Worker |->
    IF wpc[w] = "unlock" THEN [of |-> w, n |-> sent[w], form |-> "cipher"] ELSE buf[w]],
  phase <- [w \in Worker |->
    CASE cpc[w] = "fill" -> "owned"
      [] cpc[w] = "gone" -> "gone"
      [] cpc[w] \in {"post", "wait"} /\ sem[w]["PULL"] = 0 ->
           (IF info[w] = "end" THEN "ending" ELSE "submitted")
      [] OTHER -> (IF info[w] = "end" THEN "over" ELSE "answered")]

-----------------------------------------------------------------------------
(* Properties.                                                              *)

\* Type invariant of the sample path.
TypeOK ==
  /\ cpc \in [Worker -> {"fill", "post", "wait", "gone", "dead"}]
  /\ wpc \in [Worker -> {"lock", "read", "release", "decrypt", "cipher", "copy", "unlock", "ended"}]
  /\ sem \in [Worker -> [Sem -> Nat]]
  /\ undo \in [Process -> [Worker -> [Sem -> Int]]]
  /\ info \in [Worker -> SampleForm \cup {"end"}]
  /\ sent \in [Worker -> 0 .. (MaxSamples + 1)]
  /\ buf \in [Worker -> Bytes]
  /\ heap \in [Block -> [live : BOOLEAN, bytes : Bytes]]
  /\ clear \in Block \cup {NULL}
  /\ out \in [Worker -> Block \cup {NULL}]
  /\ held \in [Worker -> HeldKey \cup {NULL}]
  /\ res \in [Worker -> {"none", "failed", "success"}]
  /\ session \in [Worker -> {"null", "live", "freed"}]
  /\ keys \in Key \cup {NULL}
  /\ down \in {"up", "abort", "crash", "heap"}

\* The two semaphores hand the area over: the client and the worker of a channel are never
\* both between their lock and their unlock, whatever the other channels, the keys, released
\* sessions or a killed client do.
Busy(w) == wpc[w] \in {"read", "release", "decrypt", "cipher", "copy", "unlock"}
ExclusiveArea == \A w \in Worker : cpc[w] \in {"fill", "post"} => ~Busy(w)

\* Client and worker never sleep on each other: while a client waits for its sample (or for
\* the answer to its end marker) either the answer is posted, or its worker is at it, or its
\* worker is before a lock that is open.
NeverBothAsleep == \A w \in Worker : cpc[w] = "wait" =>
  sem[w]["PULL"] > 0 \/ Busy(w) \/ (wpc[w] = "lock" /\ sem[w]["DECRYPT"] > 0)

\* No block of clear content is freed twice.
HeapSound == down # "heap"

\* Every allocated block of clear content is still reachable: through clear_content, or by the worker that
\* is filling it, so nothing accumulates over the samples of a stream.
NothingLeaked == Live \subseteq {clear} \cup {out[w] : w \in Worker}

\* While channels do not overlap and keys have 16 bytes, the threads, semaphores and shared
\* heap implement the abstract channel: each sample is answered once, in order, in its own
\* buffer, by an outcome of that very sample.
ImplementsChannel == Channel!Spec

\* service.cpp:308-311: "we assume that the previous decrypted clear data is consumed when
\* the Decrypt() called again": what a worker is about to copy is what it decrypted.
ContentConsumed ==
  \A w \in Worker : wpc[w] = "copy" /\ res[w] = "success" =>
    clear \in Live /\ heap[clear].bytes.of = w /\ heap[clear].bytes.n = sent[w]

\* A client that waits for its sample gets an answer unless the process is gone.
SamplesAnswered ==
  \A w \in Worker : cpc[w] = "wait" ~> (cpc[w] # "wait" \/ down # "up")

\* The worker of a client that submits the end marker leaves its loop; if the client is
\* killed first, the kernel may take the marker back.
WorkersEnd ==
  \A w \in Worker : info[w] = "end" /\ cpc[w] = "post" ~> (wpc[w] = "ended" \/ cpc[w] = "dead" \/ down # "up")

=============================================================================

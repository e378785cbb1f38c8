----------------------- MODULE DecryptChannel_proofs -----------------------
(***************************************************************************)
(* Orderly streams: samples of different streams do not overlap, keys have *)
(* 16 bytes, clients are not killed.  Then clear content is never freed    *)
(* twice and never lost, and the sample path implements SampleChannel.     *)
(***************************************************************************)
EXTENDS DecryptShmem_proofs

\* The premise; runs decrypt_shared, decrypt_failed and decrypt_semaem show what happens
\* without the first, the third and the last part.
Orderly ==
  /\ Overlap = FALSE
  /\ MayDie = {}
  /\ "size" \notin Fit
  /\ MaxSamples + 1 <= SEMAEM

-----------------------------------------------------------------------------
(* The inductive invariant, on top of HandoverInv.                         *)

\* At most one client waits for its sample.
Alone ==
  /\ \A w \in Worker : cpc[w] # "dead"
  /\ \A v, w \in Worker : cpc[v] \in {"post", "wait"} /\ cpc[w] \in {"post", "wait"} => v = w

KeyUsable == keys # NULL => keys.fit # "size"

\* Between ReleaseClearContent and the return of Decrypt clear_content is not to be trusted:
\* then nothing is allocated but the block being filled.  Otherwise it is the only block.
Clean == \A w \in Worker :
  /\ wpc[w] = "cipher" => out[w] \in Block /\ Live = {out[w]}
  /\ wpc[w] # "cipher" => out[w] = NULL
  /\ wpc[w] = "decrypt" => Live = {}

Settled == (\A w \in Worker : wpc[w] \notin {"decrypt", "cipher"}) => Live = {clear} \ {NULL}

MemoryInv == Clean /\ Settled /\ down # "heap"

Submitted(w) == [of |-> w, n |-> sent[w], form |-> "cipher"]
Answers(w) == {[of |-> w, n |-> sent[w], form |-> f] : f \in {"clear", "garbled"}}

\* What is in the buffer of a client that waits, and in the block that is about to be copied.
Content(w) ==
  /\ cpc[w] \in {"post", "wait"} /\ info[w] # "end" /\ sem[w]["PULL"] = 0 /\ wpc[w] # "unlock"
       => buf[w] = Submitted(w)
  /\ wpc[w] = "copy" => res[w] = "success" /\ clear \in Live /\ heap[clear].bytes \in Answers(w)
  /\ wpc[w] = "unlock" => buf[w] \in Answers(w)

HeapInv == HandoverInv /\ Alone /\ KeyUsable /\ MemoryInv
OrderlyInv == HeapInv /\ \A w \in Worker : Content(w)

\* The facts about one channel that the handover gives: a worker is busy only while its
\* client waits, and sleeps or has ended while its client fills the area.
LEMMA HandoverFacts ==
  ASSUME HandoverInv, Alone, NEW w \in Worker
  PROVE  /\ cpc[w] \in {"fill", "post", "wait", "gone"}
         /\ wpc[w] \in {"lock", "read", "release", "decrypt", "cipher", "copy", "unlock", "ended"}
         /\ Busy(w) => cpc[w] = "wait" /\ sem[w]["PULL"] = 0
         /\ wpc[w] \in {"release", "decrypt", "cipher", "copy", "unlock"} => info[w] # "end"
         /\ cpc[w] \in {"fill", "post"} => wpc[w] = "lock" /\ sem[w]["PULL"] = 0
         /\ cpc[w] = "gone" => wpc[w] = "ended" /\ sem[w]["PULL"] = 0
         /\ sem[w]["PULL"] \in Nat
  <1>1. TypeOK /\ Handover(w)
    BY DEF HandoverInv
  <1>2. cpc[w] # "dead"
    BY DEF Alone
  <1> QED BY <1>1, <1>2, ChannelTyped DEF Handover, Token, Busy

\* At most one worker is between its lock and its unlock.
LEMMA BusyAlone ==
  ASSUME HandoverInv, Alone, NEW v \in Worker, NEW w \in Worker, Busy(v), Busy(w)
  PROVE  v = w
  <1>1. cpc[v] = "wait" /\ cpc[w] = "wait"
    BY HandoverFacts
  <1> QED BY <1>1 DEF Alone

-----------------------------------------------------------------------------
(* Clients and keys.                                                       *)

\* A client fills its area only while no other one waits.
LEMMA NextAlone ==
  ASSUME Orderly, HandoverInv, Alone, [Next]_vars
  PROVE  Alone'
  <1>0. cpc \in [Worker -> {"fill", "post", "wait", "gone", "dead"}]
    BY DEF HandoverInv, TypeOK
  <1>1. ASSUME NEW w \in Worker, (\E f \in Form : FillSample(w, f)) \/ FillEnd(w) PROVE Alone'
    <2>1. /\ \A v \in Worker \ {w} : cpc[v] \notin {"post", "wait"}
          /\ cpc' = [cpc EXCEPT ![w] = "post"]
      BY <1>1 DEF FillSample, FillEnd, Quiet, Orderly
    <2> QED BY <1>0, <2>1 DEF Alone
  <1>2. ASSUME NEW w \in Worker, Post(w) PROVE Alone'
    BY <1>0, <1>2 DEF Post, Alone
  <1>3. ASSUME NEW w \in Worker, Take(w) PROVE Alone'
    BY <1>0, <1>3 DEF Take, Alone
  <1>4. ASSUME NEW w \in Worker PROVE ~Die(w)
    BY DEF Die, Orderly
  <1>5. ASSUME NEW w \in Worker, WorkerStep(w) PROVE UNCHANGED cpc
    BY <1>5 DEF WorkerStep, Lock, Finish, Map, ReleaseClearContent, Decrypt, Cipher, Unkeyed, Fault, Copy, Unlock
  <1>6. ASSUME NEW w \in Worker, ReleaseSession(w) \/ \E fit \in Fit : InstallKeys(w, fit)
        PROVE  UNCHANGED cpc
    BY <1>6 DEF ReleaseSession, InstallKeys
  <1>7. CASE UNCHANGED cpc
    BY <1>7 DEF Alone
  <1> QED BY <1>1, <1>2, <1>3, <1>4, <1>5, <1>6, <1>7 DEF Next, ClientStep, vars

\* Only keys of 16 bytes are installed.
LEMMA NextKeyUsable ==
  ASSUME Orderly, KeyUsable, [Next]_vars
  PROVE  KeyUsable'
  <1>1. ASSUME NEW w \in Worker, NEW fit \in Fit, InstallKeys(w, fit) PROVE KeyUsable'
    BY <1>1 DEF InstallKeys, KeyUsable, Orderly
  <1>2. ASSUME NEW w \in Worker, WorkerStep(w) PROVE UNCHANGED keys
    BY <1>2 DEF WorkerStep, Lock, Finish, Map, ReleaseClearContent, Decrypt, Cipher, Unkeyed, Fault, Copy, Unlock
  <1>3. ASSUME NEW w \in Worker, ClientStep(w) \/ ReleaseSession(w) PROVE UNCHANGED keys
    BY <1>3 DEF ClientStep, FillSample, FillEnd, Post, Take, Die, ReleaseSession
  <1>4. CASE UNCHANGED keys
    BY <1>4 DEF KeyUsable
  <1> QED BY <1>1, <1>2, <1>3, <1>4 DEF Next, vars

-----------------------------------------------------------------------------
(* The heap.                                                               *)

\* A step that neither enters nor leaves Decrypt and leaves the heap alone.
LEMMA MemoryKept ==
  ASSUME MemoryInv, UNCHANGED <<heap, clear, out>>, down' # "heap",
         \A v \in Worker : wpc'[v] = wpc[v] \/ {wpc[v], wpc'[v]} \cap {"decrypt", "cipher"} = {}
  PROVE  MemoryInv'
  <1>1. Live' = Live
    BY DEF Live
  <1>2. Clean'
    BY <1>1 DEF MemoryInv, Clean
  <1>3. Settled'
    BY <1>1 DEF MemoryInv, Settled
  <1> QED BY <1>2, <1>3 DEF MemoryInv

\* When a worker is busy the others are not in Decrypt.
LEMMA OthersOutside ==
  ASSUME HandoverInv, Alone, NEW w \in Worker, Busy(w), NEW v \in Worker \ {w}
  PROVE  wpc[v] \in {"lock", "ended"}
  <1>1. ~Busy(v)
    BY BusyAlone
  <1>2. wpc[v] \in {"lock", "read", "release", "decrypt", "cipher", "copy", "unlock", "ended"}
    BY HandoverFacts
  <1> QED BY <1>1, <1>2 DEF Busy

\* The one block there may be is freed: Decrypt starts with an empty heap.
LEMMA ReleaseMemory ==
  ASSUME HandoverInv, Alone, MemoryInv, NEW w \in Worker, ReleaseClearContent(w)
  PROVE  MemoryInv' /\ UNCHANGED <<clear, out>>
  <1>0. /\ heap \in [Block -> [live : BOOLEAN, bytes : Bytes]]
        /\ wpc \in [Worker -> {"lock", "read", "release", "decrypt", "cipher", "copy", "unlock", "ended"}]
    BY DEF HandoverInv, TypeOK
  <1>1. wpc[w] = "release" /\ UNCHANGED <<clear, out>>
    BY DEF ReleaseClearContent
  <1>2. \A v \in Worker \ {w} : wpc[v] \in {"lock", "ended"}
    BY <1>1, OthersOutside DEF Busy
  <1>3. Live = {clear} \ {NULL} /\ \A v \in Worker : out[v] = NULL
    BY <1>1, <1>2 DEF MemoryInv, Settled, Clean
  <1>4. CASE wpc' = [wpc EXCEPT ![w] = "decrypt"]
             /\ heap' = (IF clear = NULL THEN heap ELSE Free(clear))
             /\ down' = (IF clear \in Block \ Live THEN "heap" ELSE "up")
    <2>1. down' # "heap"
      BY <1>3, <1>4, ConstantsTyped DEF HandoverInv, TypeOK
    <2>2. Live' = {}
      <3>1. CASE clear = NULL
        BY <1>3, <1>4, <3>1 DEF Live
      <3>2. CASE clear # NULL
        <4>1. clear \in Block /\ heap' = [heap EXCEPT ![clear].live = FALSE]
          BY <1>4, <3>2 DEF HandoverInv, TypeOK, Free
        <4>2. \A b \in Block : ~heap'[b].live
          BY <1>0, <1>3, <4>1 DEF Live
        <4> QED BY <4>2 DEF Live
      <3> QED BY <3>1, <3>2
    <2>3. wpc'[w] = "decrypt" /\ \A v \in Worker \ {w} : wpc'[v] \in {"lock", "ended"}
      BY <1>0, <1>2, <1>4
    <2>4. Clean' /\ Settled'
      BY <1>1, <1>3, <2>2, <2>3 DEF Clean, Settled
    <2> QED BY <1>1, <2>1, <2>4 DEF MemoryInv
  <1>5. CASE down' = "crash" /\ UNCHANGED <<wpc, heap>>
    BY <1>1, <1>5, MemoryKept
  <1> QED BY <1>1, <1>4, <1>5 DEF ReleaseClearContent

\* Decrypt allocates the one block, or the process ends.
LEMMA DecryptMemory ==
  ASSUME HandoverInv, Alone, KeyUsable, MemoryInv, NEW w \in Worker, Decrypt(w)
  PROVE  /\ MemoryInv' /\ UNCHANGED <<clear, res>>
         /\ UNCHANGED wpc \/ wpc' = [wpc EXCEPT ![w] = "cipher"]
  <1>0. /\ heap \in [Block -> [live : BOOLEAN, bytes : Bytes]]
        /\ wpc \in [Worker -> {"lock", "read", "release", "decrypt", "cipher", "copy", "unlock", "ended"}]
        /\ out \in [Worker -> Block \cup {NULL}]
    BY DEF HandoverInv, TypeOK
  <1>1. wpc[w] = "decrypt" /\ UNCHANGED clear
    BY DEF Decrypt
  <1>2. \A v \in Worker \ {w} : wpc[v] \in {"lock", "ended"} /\ out[v] = NULL
    BY <1>1, OthersOutside DEF Busy, MemoryInv, Clean
  <1>3. Live = {}
    BY <1>1 DEF MemoryInv, Clean
  <1>4. CASE down' \in {"abort", "crash"} /\ UNCHANGED <<wpc, heap, out, res>>
    BY <1>1, <1>4, MemoryKept
  <1>5. ASSUME NEW b \in Block, heap' = [heap EXCEPT ![b].live = TRUE],
               out' = [out EXCEPT ![w] = b], wpc' = [wpc EXCEPT ![w] = "cipher"],
               UNCHANGED <<res, down>>
        PROVE  MemoryInv'
    <2>1. Live' = {b}
      <3>1. \A c \in Block : heap'[c].live <=> c = b
        BY <1>0, <1>3, <1>5 DEF Live
      <3> QED BY <3>1 DEF Live
    <2>2. /\ wpc'[w] = "cipher" /\ out'[w] = b
          /\ \A v \in Worker \ {w} : wpc'[v] \in {"lock", "ended"} /\ out'[v] = NULL
      BY <1>0, <1>2, <1>5
    <2>3. Clean' /\ Settled'
      BY <1>5, <2>1, <2>2 DEF Clean, Settled
    <2> QED BY <1>5, <2>3 DEF MemoryInv
  <1>6. ~(keys # NULL /\ keys.fit = "size")
    BY DEF KeyUsable
  <1>7. \/ down' \in {"abort", "crash"} /\ UNCHANGED <<wpc, heap, out, res>>
        \/ \E b \in Block : /\ heap' = [heap EXCEPT ![b].live = TRUE]
                            /\ out' = [out EXCEPT ![w] = b]
                            /\ wpc' = [wpc EXCEPT ![w] = "cipher"]
                            /\ UNCHANGED <<res, down>>
    BY <1>6 DEF Decrypt
  <1> QED BY <1>1, <1>4, <1>5, <1>7

\* Decrypt publishes the block it has filled before it returns.
LEMMA CipherMemory ==
  ASSUME HandoverInv, Alone, MemoryInv, NEW w \in Worker, Cipher(w)
  PROVE  /\ MemoryInv' /\ clear' \in Live'
         /\ \E f \in {"clear", "garbled"} : heap'[clear'].bytes = [buf[w] EXCEPT !.form = f]
  <1>0. /\ heap \in [Block -> [live : BOOLEAN, bytes : Bytes]]
        /\ wpc \in [Worker -> {"lock", "read", "release", "decrypt", "cipher", "copy", "unlock", "ended"}]
        /\ out \in [Worker -> Block \cup {NULL}]
    BY DEF HandoverInv, TypeOK
  <1>1. /\ wpc[w] = "cipher" /\ wpc' = [wpc EXCEPT ![w] = "copy"]
        /\ clear' = out[w] /\ out' = [out EXCEPT ![w] = NULL] /\ UNCHANGED down
    BY DEF Cipher
  <1>2. \A v \in Worker \ {w} : wpc[v] \in {"lock", "ended"} /\ out[v] = NULL
    BY <1>1, OthersOutside DEF Busy, MemoryInv, Clean
  <1>3. out[w] \in Block /\ Live = {out[w]}
    BY <1>1 DEF MemoryInv, Clean
  <1>4. PICK f \in {"clear", "garbled"} :
          heap' = [heap EXCEPT ![out[w]].bytes = [buf[w] EXCEPT !.form = f]]
    BY DEF Cipher, Deciphered
  <1>5. ASSUME NEW c, c = [buf[w] EXCEPT !.form = f], NEW b \in Block, b = out[w]
        PROVE  Live' = Live /\ heap'[b].bytes = c
    <2>1. heap' = [heap EXCEPT ![b].bytes = c]
      BY <1>4, <1>5
    <2>2. heap'[b].bytes = c /\ \A d \in Block : heap'[d].live = heap[d].live
      BY <1>0, <2>1
    <2> QED BY <2>2 DEF Live
  <1>6. Live' = Live /\ heap'[clear'].bytes = [buf[w] EXCEPT !.form = f]
    BY <1>1, <1>3, <1>5
  <1>7. /\ wpc'[w] = "copy" /\ out'[w] = NULL
        /\ \A v \in Worker \ {w} : wpc'[v] \in {"lock", "ended"} /\ out'[v] = NULL
    BY <1>0, <1>1, <1>2
  <1>8. Clean' /\ Settled'
    BY <1>1, <1>3, <1>6, <1>7, ConstantsTyped DEF Clean, Settled
  <1> QED BY <1>1, <1>3, <1>6, <1>8 DEF MemoryInv

\* Every step keeps the heap in order: Decrypt is entered and left by one worker at a time.
LEMMA NextMemory ==
  ASSUME HandoverInv, Alone, KeyUsable, MemoryInv, [Next]_vars
  PROVE  MemoryInv'
  <1>0. wpc \in [Worker -> {"lock", "read", "release", "decrypt", "cipher", "copy", "unlock", "ended"}]
    BY DEF HandoverInv, TypeOK
  <1>1. down # "heap"
    BY DEF MemoryInv
  <1>2. ASSUME NEW w \in Worker, ReleaseClearContent(w) \/ Decrypt(w) \/ Cipher(w) PROVE MemoryInv'
    BY <1>2, ReleaseMemory, DecryptMemory, CipherMemory
  <1>3. ASSUME NEW w \in Worker, Lock(w) \/ Finish(w) \/ Map(w) \/ Unkeyed(w) \/ Fault(w) \/ Copy(w) \/ Unlock(w)
        PROVE  MemoryInv'
    <2>1. UNCHANGED <<heap, clear, out>> /\ down' # "heap"
      BY <1>1, <1>3 DEF Lock, Finish, Map, Unkeyed, Fault, Copy, Unlock, memory
    <2>2. \/ UNCHANGED wpc
          \/ /\ wpc[w] \in {"lock", "read", "copy", "unlock"}
             /\ \E x \in {"lock", "read", "release", "unlock", "ended"} : wpc' = [wpc EXCEPT ![w] = x]
      BY <1>3 DEF Lock, Finish, Map, Unkeyed, Fault, Copy, Unlock
    <2>3. \A v \in Worker : wpc'[v] = wpc[v] \/ {wpc[v], wpc'[v]} \cap {"decrypt", "cipher"} = {}
      BY <1>0, <2>2
    <2> QED BY <2>1, <2>3, MemoryKept
  <1>4. ASSUME NEW w \in Worker, ClientStep(w) \/ ReleaseSession(w) \/ \E fit \in Fit : InstallKeys(w, fit)
        PROVE  MemoryInv'
    <2>1. UNCHANGED <<wpc, heap, clear, out, down>>
      BY <1>4 DEF ClientStep, FillSample, FillEnd, Post, Take, Die, ReleaseSession, InstallKeys, memory
    <2> QED BY <1>1, <2>1, MemoryKept
  <1>5. CASE UNCHANGED vars
    BY <1>1, <1>5, MemoryKept DEF vars, memory
  <1> QED BY <1>2, <1>3, <1>4, <1>5 DEF Next, WorkerStep

\* HeapInv holds in every state of orderly streams.
LEMMA HeapInvariant == Orderly => (Spec => []HeapInv)
  <1> SUFFICES ASSUME Orderly PROVE Spec => []HeapInv
    OBVIOUS
  <1>1. Spec => []HandoverInv
    BY HandoverInvariant DEF Orderly
  <1>2. Init => Alone /\ KeyUsable /\ MemoryInv
    <2> SUFFICES ASSUME Init PROVE Alone /\ KeyUsable /\ MemoryInv
      OBVIOUS
    <2>1. /\ \A w \in Worker : cpc[w] = "fill" /\ wpc[w] = "lock" /\ out[w] = NULL
          /\ keys = NULL /\ clear = NULL /\ down = "up"
          /\ \A b \in Block : ~heap[b].live
      BY DEF Init
    <2>2. Live = {}
      BY <2>1 DEF Live
    <2> QED BY <2>1, <2>2 DEF Alone, KeyUsable, MemoryInv, Clean, Settled
  <1>3. HandoverInv /\ (Alone /\ KeyUsable /\ MemoryInv) /\ [Next]_vars
          => (Alone /\ KeyUsable /\ MemoryInv)'
    BY NextAlone, NextKeyUsable, NextMemory
  <1> QED BY <1>1, <1>2, <1>3, PTL DEF Spec, HeapInv

\* In orderly streams no block of clear content is freed twice, although clear_content is
\* never reset after ReleaseClearContent frees it: its worker allocates and publishes a new
\* block before another worker gets to its own ReleaseClearContent.  Run
\* decrypt_failed shows that a key of another length breaks this.
THEOREM HeapAlwaysSound == Orderly => (Spec => []HeapSound)
  <1>1. HeapInv => HeapSound
    BY DEF HeapInv, MemoryInv, HeapSound
  <1> QED BY <1>1, HeapInvariant, PTL

\* In orderly streams the service holds a pointer to every block of clear content that is
\* allocated, however many samples the streams have.
THEOREM NothingEverLeaked == Orderly => (Spec => []NothingLeaked)
  <1>1. HeapInv => NothingLeaked
    <2> SUFFICES ASSUME HeapInv PROVE NothingLeaked
      OBVIOUS
    <2>1. CASE \E w \in Worker : wpc[w] \in {"decrypt", "cipher"}
      BY <2>1 DEF HeapInv, MemoryInv, Clean, NothingLeaked
    <2>2. CASE \A w \in Worker : wpc[w] \notin {"decrypt", "cipher"}
      BY <2>2 DEF HeapInv, MemoryInv, Settled, NothingLeaked
    <2> QED BY <2>1, <2>2
  <1> QED BY <1>1, HeapInvariant, PTL

-----------------------------------------------------------------------------
(* The contents of the buffers.                                            *)

\* A step that leaves a channel, its buffer and what its worker copies from alone.
LEMMA ContentKept ==
  ASSUME NEW v \in Worker, Content(v), Untouched(v), buf'[v] = buf[v], res'[v] = res[v],
         UNCHANGED <<heap, clear>> \/ wpc[v] # "copy"
  PROVE  Content(v)'
  <1>1. Submitted(v)' = Submitted(v) /\ Answers(v)' = Answers(v)
    BY DEF Untouched, Submitted, Answers
  <1>2. wpc[v] = "copy" => Live' = Live /\ heap' = heap /\ clear' = clear
    BY DEF Live
  <1> QED BY <1>1, <1>2 DEF Content, Untouched

\* A step of one channel leaves the buffers of the others alone, and the heap while
\* another worker is about to copy from it.
LEMMA OthersContent ==
  ASSUME HandoverInv, Alone, NEW w \in Worker, WorkerStep(w) \/ ClientStep(w),
         NEW v \in Worker \ {w}, Content(v)
  PROVE  Content(v)' /\ Untouched(v) /\ buf'[v] = buf[v]
  <1>0. buf \in [Worker -> Bytes] /\ res \in [Worker -> {"none", "failed", "success"}]
    BY DEF HandoverInv, TypeOK
  <1>1. Untouched(v)
    BY OthersUntouched DEF HandoverInv
  <1>2. CASE ReleaseClearContent(w) \/ Decrypt(w) \/ Cipher(w)
    <2>1. Busy(w) /\ UNCHANGED buf /\ (UNCHANGED res \/ \E r : res' = [res EXCEPT ![w] = r])
      BY <1>2 DEF ReleaseClearContent, Decrypt, Cipher, Busy, area
    <2>2. wpc[v] # "copy"
      BY <2>1, OthersOutside
    <2>3. buf'[v] = buf[v] /\ res'[v] = res[v]
      BY <1>0, <2>1
    <2> QED BY <1>1, <2>2, <2>3, ContentKept
  <1>3. CASE ~(ReleaseClearContent(w) \/ Decrypt(w) \/ Cipher(w))
    <2>1. UNCHANGED <<heap, clear, res>>
      BY <1>3 DEF WorkerStep, ClientStep, Lock, Finish, Map, Unkeyed, Fault, Copy, Unlock,
                  FillSample, FillEnd, Post, Take, Die, memory
    <2>2. UNCHANGED buf \/ \E x : buf' = [buf EXCEPT ![w] = x]
      BY <1>3 DEF WorkerStep, ClientStep, Lock, Finish, Map, Unkeyed, Fault, Copy, Unlock,
                  FillSample, FillEnd, Post, Take, Die, area
    <2>3. buf'[v] = buf[v] /\ res'[v] = res[v]
      BY <1>0, <2>1, <2>2
    <2> QED BY <1>1, <2>1, <2>3, ContentKept
  <1> QED BY <1>2, <1>3

\* What an operation on one of the semaphores of w leaves alone.
LEMMA OtherSemaphore ==
  ASSUME TypeOK, NEW p \in Process, NEW w \in Worker, NEW s \in Sem, NEW d \in {-1, 1},
         SemOp(p, w, s, d), NEW r \in Sem \ {s}
  PROVE  sem'[w][r] = sem[w][r]
  <1>1. sem \in [Worker -> [Sem -> Nat]]
    BY DEF TypeOK
  <1> QED BY <1>1 DEF SemOp

\* When a worker gives the area back there is an answer in PULL.
LEMMA AnswerPosted ==
  ASSUME HandoverInv, HandoverInv', Alone, NEW w \in Worker, Finish(w) \/ Unlock(w)
  PROVE  /\ cpc[w] = "wait" /\ sem[w]["PULL"] = 0 /\ sem'[w]["PULL"] # 0
         /\ UNCHANGED <<cpc, info, sent, buf>>
         /\ wpc' = [wpc EXCEPT ![w] = IF info[w] = "end" THEN "ended" ELSE "lock"]
  <1> USE ConstantsTyped
  <1>1. /\ Busy(w) /\ SemOp("service", w, "PULL", 1) /\ UNCHANGED <<cpc, info, sent, buf>>
        /\ \/ wpc[w] = "read" /\ info[w] = "end" /\ wpc' = [wpc EXCEPT ![w] = "ended"]
           \/ wpc[w] = "unlock" /\ wpc' = [wpc EXCEPT ![w] = "lock"]
    BY DEF Finish, Unlock, UnlockSemaphore, Busy
  <1>2. cpc[w] = "wait" /\ sem[w]["PULL"] = 0 /\ (wpc[w] = "unlock" => info[w] # "end")
    BY <1>1, HandoverFacts
  <1>3. sem[w]["DECRYPT"] = 0
    BY <1>1, <1>2, ChannelTyped DEF HandoverInv, Handover, Token, Busy
  <1>4. sem'[w]["DECRYPT"] = 0
    BY <1>1, <1>3, OtherSemaphore DEF HandoverInv
  <1>5. wpc'[w] \in {"lock", "ended"} /\ cpc'[w] = "wait"
    BY <1>1, <1>2 DEF HandoverInv, TypeOK
  <1>6. Token(w)'
    BY <1>5 DEF HandoverInv, Handover
  <1>7. sem'[w]["PULL"] # 0
    BY <1>4, <1>5, <1>6 DEF Token, Busy
  <1> QED BY <1>1, <1>2, <1>7

\* The step that copies the block back finds the answer to the sample of w in it.
LEMMA CopyContent ==
  ASSUME HandoverInv, NEW w \in Worker, Content(w), Copy(w)
  PROVE  /\ buf'[w] \in Answers(w) /\ wpc' = [wpc EXCEPT ![w] = "unlock"]
         /\ UNCHANGED <<cpc, sem, undo, info, sent, memory>>
  <1>0. buf \in [Worker -> Bytes]
    BY DEF HandoverInv, TypeOK
  <1>1. wpc[w] = "copy" /\ UNCHANGED <<cpc, sem, undo, info, sent, memory>>
    BY DEF Copy
  <1>2. res[w] = "success" /\ clear \in Live /\ heap[clear].bytes \in Answers(w)
    BY <1>1 DEF Content
  <1>3. buf' = [buf EXCEPT ![w] = heap[clear].bytes] /\ wpc' = [wpc EXCEPT ![w] = "unlock"]
    BY <1>2 DEF Copy
  <1> QED BY <1>0, <1>1, <1>2, <1>3

\* Decrypt leaves the answer in the block clear_content points at.
LEMMA CipherContent ==
  ASSUME HandoverInv, Alone, MemoryInv, NEW w \in Worker, Content(w), Cipher(w)
  PROVE  Content(w)'
  <1>0. /\ wpc \in [Worker -> {"lock", "read", "release", "decrypt", "cipher", "copy", "unlock", "ended"}]
        /\ res \in [Worker -> {"none", "failed", "success"}]
    BY DEF HandoverInv, TypeOK
  <1>1. /\ wpc[w] = "cipher" /\ wpc'[w] = "copy" /\ res'[w] = "success"
        /\ UNCHANGED <<cpc, sem, info, sent, buf>>
    BY <1>0 DEF Cipher, area
  <1>2. cpc[w] = "wait" /\ sem[w]["PULL"] = 0 /\ info[w] # "end"
    BY <1>1, HandoverFacts DEF Busy
  <1>3. buf[w] = Submitted(w)
    BY <1>1, <1>2 DEF Content
  <1>4. clear' \in Live' /\ \E f \in {"clear", "garbled"} : heap'[clear'].bytes = [buf[w] EXCEPT !.form = f]
    BY CipherMemory
  <1>5. \A f : [buf[w] EXCEPT !.form = f] = [of |-> w, n |-> sent[w], form |-> f]
    BY <1>3 DEF Submitted
  <1>6. heap'[clear'].bytes \in Answers(w)'
    BY <1>1, <1>4, <1>5 DEF Answers
  <1> QED BY <1>1, <1>3, <1>4, <1>6 DEF Content, Submitted

\* A client puts its sample there before it wakes the worker, and does not look until it is woken.
LEMMA ClientContent ==
  ASSUME Orderly, HandoverInv, Alone, NEW w \in Worker, Content(w), ClientStep(w)
  PROVE  Content(w)'
  <1>0. /\ cpc \in [Worker -> {"fill", "post", "wait", "gone", "dead"}]
        /\ sent \in [Worker -> 0 .. (MaxSamples + 1)]
        /\ info \in [Worker -> SampleForm \cup {"end"}] /\ buf \in [Worker -> Bytes]
    BY DEF HandoverInv, TypeOK
  <1>1. ASSUME NEW f \in Form, FillSample(w, f) PROVE Content(w)'
    <2>1. wpc'[w] = "lock" /\ sent'[w] = sent[w] + 1
          /\ buf'[w] = [of |-> w, n |-> sent[w] + 1, form |-> "cipher"]
      BY <1>0, <1>1, HandoverFacts DEF FillSample
    <2> QED BY <2>1 DEF Content, Submitted
  <1>2. CASE FillEnd(w)
    <2>1. wpc'[w] = "lock" /\ info'[w] = "end"
      BY <1>0, <1>2, HandoverFacts DEF FillEnd
    <2> QED BY <2>1 DEF Content
  <1>3. CASE Post(w)
    <2>1. /\ cpc[w] = "post" /\ wpc'[w] = "lock" /\ sem[w]["PULL"] = 0 /\ wpc[w] = "lock"
          /\ UNCHANGED <<info, sent, buf>>
      BY <1>3, HandoverFacts DEF Post
    <2> QED BY <2>1 DEF Content, Submitted
  <1>4. CASE Take(w)
    <2>1. cpc'[w] \in {"fill", "gone"} /\ UNCHANGED wpc /\ SemOp("client", w, "PULL", -1)
      BY <1>0, <1>4 DEF Take, LockSemaphore
    <2>2. ~Busy(w)
      BY <2>1, HandoverFacts DEF SemOp
    <2> QED BY <2>1, <2>2 DEF Content, Busy
  <1>5. ~Die(w)
    BY DEF Die, Orderly
  <1> QED BY <1>1, <1>2, <1>3, <1>4, <1>5 DEF ClientStep

\* A worker decrypts what its client has put there.
LEMMA WorkerContent ==
  ASSUME HandoverInv, HandoverInv', Alone, KeyUsable, MemoryInv,
         NEW w \in Worker, Content(w), WorkerStep(w)
  PROVE  Content(w)'
  <1>0. /\ wpc \in [Worker -> {"lock", "read", "release", "decrypt", "cipher", "copy", "unlock", "ended"}]
        /\ sem[w]["PULL"] \in Nat
    BY HandoverFacts DEF HandoverInv, TypeOK
  <1>1. CASE Lock(w)
    <2>1. /\ wpc[w] = "lock" /\ wpc'[w] = "read" /\ UNCHANGED <<cpc, info, sent, buf>>
          /\ SemOp("service", w, "DECRYPT", -1)
      BY <1>0, <1>1 DEF Lock, LockSemaphore
    <2>2. sem'[w]["PULL"] = sem[w]["PULL"]
      BY <2>1, OtherSemaphore, ConstantsTyped DEF HandoverInv
    <2> QED BY <2>1, <2>2 DEF Content, Submitted
  <1>2. CASE Finish(w) \/ Unlock(w)
    <2>1. sem'[w]["PULL"] # 0 /\ wpc'[w] \in {"lock", "ended"}
      BY <1>0, <1>2, AnswerPosted
    <2> QED BY <2>1 DEF Content
  <1>3. CASE Map(w) \/ ReleaseClearContent(w) \/ Decrypt(w)
    <2>1. /\ UNCHANGED <<cpc, sem, info, sent, buf>>
          /\ wpc[w] \in {"read", "release", "decrypt"} /\ wpc'[w] \in {"read", "release", "decrypt", "cipher"}
      <3>1. CASE Map(w)
        BY <1>0, <3>1 DEF Map, area
      <3>2. CASE ReleaseClearContent(w)
        BY <1>0, <3>2 DEF ReleaseClearContent, area
      <3>3. CASE Decrypt(w)
        BY <1>0, <3>3, DecryptMemory DEF Decrypt, area
      <3> QED BY <1>3, <3>1, <3>2, <3>3
    <2> QED BY <2>1 DEF Content, Submitted
  <1>4. CASE Cipher(w)
    BY <1>4, CipherContent
  <1>5. CASE Unkeyed(w) \/ Fault(w)
    BY <1>5 DEF Unkeyed, Fault, Content, Submitted, Answers, area, memory, Live
  <1>6. CASE Copy(w)
    <2>1. wpc'[w] = "unlock" /\ buf'[w] \in Answers(w) /\ UNCHANGED sent
      BY <1>0, <1>6, CopyContent
    <2> QED BY <2>1 DEF Content, Answers
  <1> QED BY <1>1, <1>2, <1>3, <1>4, <1>5, <1>6 DEF WorkerStep

\* Every step keeps what the buffers are to hold.
LEMMA NextContent ==
  ASSUME Orderly, HeapInv, HandoverInv', \A w \in Worker : Content(w), [Next]_vars, NEW v \in Worker
  PROVE  Content(v)'
  <1>1. ASSUME NEW w \in Worker, WorkerStep(w) \/ ClientStep(w) PROVE Content(v)'
    BY <1>1, WorkerContent, ClientContent, OthersContent DEF HeapInv
  <1>2. ASSUME UNCHANGED <<cpc, wpc, area, heap, clear, res>> PROVE Content(v)'
    BY <1>2, ContentKept DEF Untouched, area
  <1>3. ASSUME NEW w \in Worker, ReleaseSession(w) \/ \E fit \in Fit : InstallKeys(w, fit)
        PROVE  Content(v)'
    BY <1>2, <1>3 DEF ReleaseSession, InstallKeys, memory
  <1>4. CASE UNCHANGED vars
    BY <1>2, <1>4 DEF vars, memory
  <1> QED BY <1>1, <1>3, <1>4 DEF Next

\* OrderlyInv holds in every state of orderly streams.
LEMMA OrderlyInvariant == Orderly => (Spec => []OrderlyInv)
  <1> SUFFICES ASSUME Orderly PROVE Spec => []OrderlyInv
    OBVIOUS
  <1>1. Spec => []HeapInv
    BY HeapInvariant
  <1>2. Init => \A w \in Worker : Content(w)
    BY DEF Init, Content
  <1>3. HeapInv /\ HeapInv' /\ (\A w \in Worker : Content(w)) /\ [Next]_vars
          => (\A w \in Worker : Content(w))'
    BY NextContent DEF HeapInv
  <1> QED BY <1>1, <1>2, <1>3, PTL DEF Spec, OrderlyInv

\* In orderly streams a worker copies what it has decrypted itself, from a block that is still
\* allocated, as service.cpp:308-311 assumes.
THEOREM ContentAlwaysConsumed == Orderly => (Spec => []ContentConsumed)
  <1>1. OrderlyInv => ContentConsumed
    BY DEF OrderlyInv, Content, Answers, ContentConsumed
  <1> QED BY <1>1, OrderlyInvariant, PTL

-----------------------------------------------------------------------------
(* The refinement.                                                         *)

\* What SampleChannel sees of a channel.
Phase(w) ==
  CASE cpc[w] = "fill" -> "owned"
    [] cpc[w] = "gone" -> "gone"
    [] cpc[w] \in {"post", "wait"} /\ sem[w]["PULL"] = 0 ->
         (IF info[w] = "end" THEN "ending" ELSE "submitted")
    [] OTHER -> (IF info[w] = "end" THEN "over" ELSE "answered")
Buffer(w) == IF wpc[w] = "unlock" THEN Submitted(w) ELSE buf[w]

PhaseMap == [w \in Worker |-> Phase(w)]
BufferMap == [w \in Worker |-> Buffer(w)]

\* The abstract step of one channel.
Abstract(w) ==
  \/ Channel!Submit(w) \/ Channel!Answer(w) \/ Channel!Take(w)
  \/ Channel!SubmitEnd(w) \/ Channel!AnswerEnd(w) \/ Channel!TakeEnd(w)

\* Initial states map to initial states.
LEMMA InitChannel == Init => Channel!Init
  <1> SUFFICES ASSUME Init PROVE Channel!Init
    OBVIOUS
  <1>1. \A w \in Worker : Phase(w) = "owned" /\ Buffer(w) = Junk
    BY DEF Init, Phase, Buffer
  <1>2. PhaseMap = [w \in Worker |-> "owned"] /\ BufferMap = [w \in Worker |-> Junk]
    BY <1>1 DEF PhaseMap, BufferMap
  <1> QED BY <1>2 DEF Init, Channel!Init, PhaseMap, Phase, BufferMap, Buffer, Submitted, Junk

\* What a step of a client or a worker does to its own channel as SampleChannel sees it.
Becomes(w, p, n, b) ==
  /\ PhaseMap' = [PhaseMap EXCEPT ![w] = p]
  /\ sent' = [sent EXCEPT ![w] = n]
  /\ BufferMap' = [BufferMap EXCEPT ![w] = b]

\* The other channels look the same, so what it does is known from its own channel.
LEMMA OwnStep ==
  ASSUME HandoverInv, HandoverInv', Alone, \A v \in Worker : Content(v),
         NEW w \in Worker, WorkerStep(w) \/ ClientStep(w)
  PROVE  Becomes(w, Phase(w)', sent'[w], Buffer(w)')
  <1>1. sent \in [Worker -> 0 .. (MaxSamples + 1)] /\ sent' \in [Worker -> 0 .. (MaxSamples + 1)]
    BY DEF HandoverInv, TypeOK
  <1>2. \A v \in Worker \ {w} : Untouched(v) /\ buf'[v] = buf[v]
    BY OthersContent
  <1>3. \A v \in Worker \ {w} : Phase(v)' = Phase(v) /\ Buffer(v)' = Buffer(v) /\ sent'[v] = sent[v]
    BY <1>2 DEF Untouched, Phase, Buffer, Submitted
  <1>4. sent' = [sent EXCEPT ![w] = sent'[w]]
    BY <1>1, <1>3
  <1>5. PhaseMap' = [PhaseMap EXCEPT ![w] = Phase(w)']
    BY <1>3 DEF PhaseMap
  <1>6. BufferMap' = [BufferMap EXCEPT ![w] = Buffer(w)']
    BY <1>3 DEF BufferMap
  <1> QED BY <1>4, <1>5, <1>6 DEF Becomes

\* The entries of the two maps.
LEMMA OwnEntries ==
  ASSUME NEW w \in Worker
  PROVE  PhaseMap[w] = Phase(w) /\ BufferMap[w] = Buffer(w)
  BY DEF PhaseMap, BufferMap

\* SampleChannel's view is the pair of maps above.
LEMMA ChannelStutters ==
  ASSUME UNCHANGED <<PhaseMap, sent, BufferMap>>
  PROVE  UNCHANGED Channel!vars
  BY DEF Channel!vars, PhaseMap, Phase, BufferMap, Buffer, Submitted

\* A step that does not change what SampleChannel sees of its own channel is a stutter.
LEMMA SameEntries ==
  ASSUME HandoverInv, NEW w \in Worker, Becomes(w, Phase(w), sent[w], Buffer(w))
  PROVE  UNCHANGED Channel!vars
  <1>1. sent \in [Worker -> 0 .. (MaxSamples + 1)]
    BY DEF HandoverInv, TypeOK
  <1>2. UNCHANGED sent
    BY <1>1 DEF Becomes
  <1>3. UNCHANGED <<PhaseMap, BufferMap>>
    BY OwnEntries DEF Becomes, PhaseMap, BufferMap
  <1> QED BY <1>2, <1>3, ChannelStutters

\* A client fills its area, waits, or takes what it gets.
LEMMA ClientChannel ==
  ASSUME Orderly, OrderlyInv, HandoverInv', NEW w \in Worker, ClientStep(w)
  PROVE  Abstract(w) \/ UNCHANGED Channel!vars
  <1>0. /\ cpc \in [Worker -> {"fill", "post", "wait", "gone", "dead"}]
        /\ sent \in [Worker -> 0 .. (MaxSamples + 1)]
        /\ info \in [Worker -> SampleForm \cup {"end"}] /\ buf \in [Worker -> Bytes]
        /\ "end" \notin SampleForm /\ Form \subseteq SampleForm
    BY DecryptAssumption DEF OrderlyInv, HeapInv, HandoverInv, TypeOK, SampleForm, DecryptAssumption
  <1>1. HandoverInv /\ Alone
    BY DEF OrderlyInv, HeapInv
  <1>2. Becomes(w, Phase(w)', sent'[w], Buffer(w)')
    BY <1>1, OwnStep DEF OrderlyInv
  <1>3. ASSUME NEW f \in Form, FillSample(w, f) PROVE Channel!Submit(w)
    <2>1. /\ cpc[w] = "fill" /\ wpc[w] = "lock" /\ sem[w]["PULL"] = 0
          /\ cpc'[w] = "post" /\ info'[w] # "end" /\ sent'[w] = sent[w] + 1 /\ UNCHANGED <<wpc, sem>>
          /\ buf'[w] = [of |-> w, n |-> sent[w] + 1, form |-> "cipher"]
      BY <1>0, <1>1, <1>3, HandoverFacts DEF FillSample
    <2>2. /\ PhaseMap[w] = "owned" /\ Phase(w)' = "submitted"
          /\ Buffer(w)' = [of |-> w, n |-> sent[w] + 1, form |-> "cipher"]
      BY <2>1, OwnEntries DEF Phase, Buffer
    <2> QED BY <1>2, <2>1, <2>2 DEF Becomes, Channel!Submit, PhaseMap, Phase, BufferMap, Buffer, Submitted
  <1>4. CASE FillEnd(w)
    <2>1. /\ cpc[w] = "fill" /\ wpc[w] = "lock" /\ sem[w]["PULL"] = 0
          /\ cpc'[w] = "post" /\ info'[w] = "end" /\ sent'[w] = sent[w] + 1 /\ UNCHANGED <<wpc, sem, buf>>
      BY <1>0, <1>1, <1>4, HandoverFacts DEF FillEnd
    <2>2. PhaseMap[w] = "owned" /\ Phase(w)' = "ending" /\ Buffer(w)' = BufferMap[w]
      BY <2>1, OwnEntries DEF Phase, Buffer
    <2>3. UNCHANGED BufferMap
      BY <1>2, <2>2 DEF Becomes, BufferMap
    <2>4. Channel!SubmitEnd(w)
      BY <1>2, <2>1, <2>2, <2>3 DEF Becomes, Channel!SubmitEnd, PhaseMap, Phase, BufferMap, Buffer, Submitted
    <2> QED BY <2>4 DEF Abstract
  <1>5. CASE Post(w)
    <2>1. /\ cpc[w] = "post" /\ wpc[w] = "lock" /\ sem[w]["PULL"] = 0
          /\ cpc'[w] = "wait" /\ UNCHANGED <<wpc, info, sent, buf>>
          /\ SemOp("client", w, "DECRYPT", 1)
      BY <1>0, <1>1, <1>5, HandoverFacts DEF Post, UnlockSemaphore
    <2>2. sem'[w]["PULL"] = sem[w]["PULL"]
      BY <1>1, <2>1, OtherSemaphore, ConstantsTyped DEF HandoverInv
    <2>3. Phase(w)' = Phase(w) /\ Buffer(w)' = Buffer(w) /\ sent'[w] = sent[w]
      BY <2>1, <2>2 DEF Phase, Buffer, Submitted
    <2> QED BY <1>1, <1>2, <2>3, SameEntries
  <1>6. CASE Take(w)
    <2>1. /\ cpc[w] = "wait" /\ sem[w]["PULL"] # 0 /\ UNCHANGED <<wpc, info, sent, buf>>
          /\ cpc'[w] = (IF info[w] = "end" THEN "gone" ELSE "fill")
      BY <1>0, <1>6 DEF Take, LockSemaphore, SemOp
    <2>2. /\ Phase(w) = (IF info[w] = "end" THEN "over" ELSE "answered")
          /\ Phase(w)' = (IF info[w] = "end" THEN "gone" ELSE "owned")
          /\ Buffer(w)' = Buffer(w) /\ sent'[w] = sent[w]
      BY <2>1 DEF Phase, Buffer, Submitted
    <2>3. UNCHANGED BufferMap
      BY <1>2, <2>2, OwnEntries DEF Becomes, BufferMap
    <2>4. Channel!Take(w) \/ Channel!TakeEnd(w)
      BY <1>2, <2>1, <2>2, <2>3, OwnEntries DEF Becomes, Channel!Take, Channel!TakeEnd, PhaseMap, Phase, BufferMap, Buffer, Submitted
    <2> QED BY <2>4 DEF Abstract
  <1>7. ~Die(w)
    BY DEF Die, Orderly
  <1> QED BY <1>3, <1>4, <1>5, <1>6, <1>7 DEF ClientStep, Abstract

\* The worker's steps up to the copy are invisible; the copy is, too, because the client may
\* not look yet; giving the area back is the answer.
LEMMA WorkerChannel ==
  ASSUME OrderlyInv, HandoverInv', NEW w \in Worker, WorkerStep(w)
  PROVE  Abstract(w) \/ UNCHANGED Channel!vars
  <1>0. /\ wpc \in [Worker -> {"lock", "read", "release", "decrypt", "cipher", "copy", "unlock", "ended"}]
        /\ sent \in [Worker -> 0 .. (MaxSamples + 1)]
    BY DEF OrderlyInv, HeapInv, HandoverInv, TypeOK
  <1>1. HandoverInv /\ Alone /\ KeyUsable /\ MemoryInv /\ Content(w)
    BY DEF OrderlyInv, HeapInv
  <1>2. Becomes(w, Phase(w)', sent'[w], Buffer(w)')
    BY <1>1, OwnStep DEF OrderlyInv
  <1>3. CASE Lock(w)
    <2>1. /\ wpc[w] = "lock" /\ wpc'[w] = "read" /\ UNCHANGED <<cpc, info, sent, buf>>
          /\ SemOp("service", w, "DECRYPT", -1)
      BY <1>0, <1>3 DEF Lock, LockSemaphore
    <2>2. sem'[w]["PULL"] = sem[w]["PULL"]
      BY <1>1, <2>1, OtherSemaphore, ConstantsTyped DEF HandoverInv
    <2>3. Phase(w)' = Phase(w) /\ Buffer(w)' = Buffer(w) /\ sent'[w] = sent[w]
      BY <2>1, <2>2 DEF Phase, Buffer
    <2> QED BY <1>1, <1>2, <2>3, SameEntries
  <1>4. CASE Map(w) \/ ReleaseClearContent(w) \/ Decrypt(w) \/ Cipher(w) \/ Unkeyed(w) \/ Fault(w)
    <2>1. UNCHANGED <<cpc, sem, info, sent, buf>>
      BY <1>4 DEF Map, ReleaseClearContent, Decrypt, Cipher, Unkeyed, Fault, area
    <2>2. wpc[w] # "unlock" /\ wpc'[w] # "unlock"
      <3>1. CASE Map(w)
        BY <1>0, <3>1 DEF Map
      <3>2. CASE ReleaseClearContent(w)
        BY <1>0, <3>2 DEF ReleaseClearContent
      <3>3. CASE Decrypt(w)
        BY <1>0, <3>3 DEF Decrypt
      <3>4. CASE Cipher(w) \/ Unkeyed(w) \/ Fault(w)
        BY <1>0, <3>4 DEF Cipher, Unkeyed, Fault
      <3> QED BY <1>4, <3>1, <3>2, <3>3, <3>4
    <2>3. Phase(w)' = Phase(w) /\ Buffer(w)' = Buffer(w) /\ sent'[w] = sent[w]
      BY <2>1, <2>2 DEF Phase, Buffer
    <2> QED BY <1>1, <1>2, <2>3, SameEntries
  <1>5. CASE Copy(w)
    <2>1. wpc[w] = "copy" /\ wpc'[w] = "unlock" /\ UNCHANGED <<cpc, sem, info, sent>>
      BY <1>0, <1>1, <1>5, CopyContent DEF Copy
    <2>2. cpc[w] = "wait" /\ sem[w]["PULL"] = 0 /\ info[w] # "end"
      BY <1>1, <2>1, HandoverFacts DEF Busy
    <2>3. buf[w] = Submitted(w)
      BY <1>1, <2>1, <2>2 DEF Content
    <2>4. Phase(w)' = Phase(w) /\ Buffer(w)' = Buffer(w) /\ sent'[w] = sent[w]
      BY <2>1, <2>3 DEF Phase, Buffer, Submitted
    <2> QED BY <1>1, <1>2, <2>4, SameEntries
  <1>6. CASE Finish(w)
    <2>1. /\ cpc[w] = "wait" /\ sem[w]["PULL"] = 0 /\ sem'[w]["PULL"] # 0 /\ info[w] = "end"
          /\ UNCHANGED <<cpc, info, sent, buf>>
          /\ wpc[w] = "read" /\ wpc'[w] = "ended"
      BY <1>0, <1>1, <1>6, AnswerPosted DEF Finish
    <2>2. Phase(w) = "ending" /\ Phase(w)' = "over" /\ Buffer(w)' = Buffer(w) /\ sent'[w] = sent[w]
      BY <2>1 DEF Phase, Buffer
    <2>3. UNCHANGED BufferMap
      BY <1>2, <2>2, OwnEntries DEF Becomes, BufferMap
    <2>4. Channel!AnswerEnd(w)
      BY <1>2, <2>1, <2>2, <2>3, OwnEntries DEF Becomes, Channel!AnswerEnd, PhaseMap, Phase, BufferMap, Buffer, Submitted
    <2> QED BY <2>4 DEF Abstract
  <1>7. CASE Unlock(w)
    <2>1. wpc[w] = "unlock"
      BY <1>7 DEF Unlock
    <2>2. info[w] # "end" /\ buf[w] \in Answers(w)
      BY <1>1, <2>1, HandoverFacts DEF Content
    <2>3. /\ cpc[w] = "wait" /\ sem[w]["PULL"] = 0 /\ sem'[w]["PULL"] # 0
          /\ UNCHANGED <<cpc, info, sent, buf>> /\ wpc'[w] = "lock"
      BY <1>0, <1>1, <1>7, <2>2, AnswerPosted
    <2>4. Phase(w) = "submitted" /\ Phase(w)' = "answered" /\ Buffer(w)' = buf[w] /\ sent'[w] = sent[w]
      BY <2>2, <2>3 DEF Phase, Buffer
    <2>5. PICK f \in {"clear", "garbled"} : buf[w] = [of |-> w, n |-> sent[w], form |-> f]
      BY <2>2 DEF Answers
    <2>6. /\ PhaseMap[w] = "submitted" /\ PhaseMap' = [PhaseMap EXCEPT ![w] = "answered"]
          /\ BufferMap' = [BufferMap EXCEPT ![w] = [of |-> w, n |-> sent[w], form |-> f]]
          /\ UNCHANGED sent
      BY <1>2, <2>3, <2>4, <2>5, OwnEntries DEF Becomes
    <2>7. Channel!Answer(w)
      BY <2>6 DEF Channel!Answer, PhaseMap, Phase, BufferMap, Buffer, Submitted
    <2> QED BY <2>7 DEF Abstract
  <1> QED BY <1>3, <1>4, <1>5, <1>6, <1>7 DEF WorkerStep

\* In orderly streams the threads, the semaphores and the shared heap implement
\* SampleChannel: each sample is answered once, in order, in its own buffer, by an outcome of
\* that very sample, for any number of streams and samples.
THEOREM SamplePathImplementsChannel == Orderly => (Spec => ImplementsChannel)
  <1> SUFFICES ASSUME Orderly PROVE Spec => ImplementsChannel
    OBVIOUS
  <1>1. OrderlyInv /\ OrderlyInv' /\ [Next]_vars => [Channel!Next]_(Channel!vars)
    <2> SUFFICES ASSUME OrderlyInv, OrderlyInv', [Next]_vars
                 PROVE  (\E w \in Worker : Abstract(w)) \/ UNCHANGED Channel!vars
      BY DEF Channel!Next, Abstract
    <2>1. HandoverInv'
      BY DEF OrderlyInv, HeapInv
    <2>2. ASSUME NEW w \in Worker, WorkerStep(w) \/ ClientStep(w)
          PROVE  Abstract(w) \/ UNCHANGED Channel!vars
      BY <2>1, <2>2, WorkerChannel, ClientChannel
    <2>3. ASSUME UNCHANGED <<cpc, wpc, area>> PROVE UNCHANGED Channel!vars
      BY <2>3 DEF Channel!vars, area
    <2>4. ASSUME NEW w \in Worker, ReleaseSession(w) \/ \E fit \in Fit : InstallKeys(w, fit)
          PROVE  UNCHANGED Channel!vars
      BY <2>3, <2>4 DEF ReleaseSession, InstallKeys
    <2>5. CASE UNCHANGED vars
      BY <2>3, <2>5 DEF vars
    <2> QED BY <2>2, <2>4, <2>5 DEF Next
  <1> QED BY <1>1, InitChannel, OrderlyInvariant, PTL DEF Spec, ImplementsChannel, Channel!Spec

=============================================================================

------------------------ MODULE DecryptShmem_proofs ------------------------
(***************************************************************************)
(* Proofs about DecryptShmem for every number of channels, samples and     *)
(* blocks.                                                                 *)
(***************************************************************************)
EXTENDS DecryptShmem, TLAPS

-----------------------------------------------------------------------------
(* Type correctness.                                                       *)

\* A client sends no sample after its end marker, so the counter stays in its bound.
Budget == \A w \in Worker :
  cpc[w] = "fill" \/ (cpc[w] \in {"post", "wait"} /\ info[w] # "end") => sent[w] <= MaxSamples

\* semop leaves values that are natural numbers and adjustments that are integers.
LEMMA SemOpType ==
  ASSUME NEW p \in Process, NEW w \in Worker, NEW s \in Sem, NEW d \in {-1, 1},
         sem \in [Worker -> [Sem -> Nat]],
         undo \in [Process -> [Worker -> [Sem -> Int]]],
         SemOp(p, w, s, d)
  PROVE  /\ sem' \in [Worker -> [Sem -> Nat]]
         /\ undo' \in [Process -> [Worker -> [Sem -> Int]]]
  <1>1. sem[w][s] + d \in Nat /\ undo[p][w][s] - d \in Int
    BY DEF SemOp
  <1>2. CASE UNCHANGED <<sem, undo>>
    BY <1>2
  <1>3. CASE /\ sem' = [sem EXCEPT ![w][s] = @ + d]
             /\ undo' = [undo EXCEPT ![p][w][s] = @ - d]
    BY <1>1, <1>3
  <1> QED BY <1>2, <1>3 DEF SemOp

\* The constants of the model as the provers need them.
LEMMA ConstantsTyped ==
  /\ MaxSamples \in Nat /\ SEMAEM \in Nat
  /\ NULL \notin Block /\ NULL \notin Worker
  /\ Junk \in Bytes /\ Gone \in Bytes
  /\ "DECRYPT" \in Sem /\ "PULL" \in Sem
  /\ "client" \in Process /\ "service" \in Process
  /\ "DECRYPT" # "PULL" /\ "client" # "service"
BY DecryptAssumption DEF DecryptAssumption, Junk, Gone, Bytes, Sem, Process

\* The initial state has the types.
LEMMA InitType == Init => TypeOK /\ Budget
  <1> SUFFICES ASSUME Init PROVE TypeOK /\ Budget
    OBVIOUS
  <1> USE ConstantsTyped
  <1>1. /\ cpc \in [Worker -> {"fill", "post", "wait", "gone", "dead"}]
        /\ wpc \in [Worker -> {"lock", "read", "release", "decrypt", "cipher", "copy", "unlock", "ended"}]
        /\ res \in [Worker -> {"none", "failed", "success"}]
        /\ session \in [Worker -> {"null", "live", "freed"}]
        /\ info \in [Worker -> SampleForm \cup {"end"}]
    BY DEF Init, SampleForm
  <1>2. /\ sem \in [Worker -> [Sem -> Nat]]
        /\ undo \in [Process -> [Worker -> [Sem -> Int]]]
        /\ sent \in [Worker -> 0 .. (MaxSamples + 1)]
    BY DEF Init
  <1>3. /\ buf \in [Worker -> Bytes]
        /\ heap \in [Block -> [live : BOOLEAN, bytes : Bytes]]
        /\ out \in [Worker -> Block \cup {NULL}]
        /\ held \in [Worker -> HeldKey \cup {NULL}]
        /\ clear \in Block \cup {NULL} /\ keys \in Key \cup {NULL}
    BY DEF Init
  <1>4. Budget
    BY DEF Init, Budget
  <1> QED BY <1>1, <1>2, <1>3, <1>4 DEF TypeOK, Init

\* Every step keeps the types and the budget.
LEMMA NextType == TypeOK /\ Budget /\ [Next]_vars => TypeOK' /\ Budget'
  <1> SUFFICES ASSUME TypeOK, Budget, [Next]_vars PROVE TypeOK' /\ Budget'
    OBVIOUS
  <1> USE ConstantsTyped
  <1>0. /\ sem \in [Worker -> [Sem -> Nat]]
        /\ undo \in [Process -> [Worker -> [Sem -> Int]]]
        /\ heap \in [Block -> [live : BOOLEAN, bytes : Bytes]]
        /\ clear \in Block \cup {NULL}
        /\ wpc \in [Worker -> {"lock", "read", "release", "decrypt", "cipher", "copy", "unlock", "ended"}]
    BY DEF TypeOK
  <1>1. ASSUME NEW w \in Worker, NEW f \in Form, FillSample(w, f) PROVE TypeOK' /\ Budget'
    <2>1. sent[w] \in Nat /\ sent[w] + 1 \in 0 .. MaxSamples /\ f \in SampleForm
      BY <1>1, DecryptAssumption DEF FillSample, TypeOK, DecryptAssumption
    <2>2. [of |-> w, n |-> sent[w] + 1, form |-> "cipher"] \in Bytes
      BY <2>1 DEF Bytes
    <2>3. TypeOK'
      BY <1>1, <2>1, <2>2 DEF FillSample, TypeOK, memory
    <2>4. Budget'
      BY <1>1, <2>1 DEF FillSample, TypeOK, Budget
    <2> QED BY <2>3, <2>4
  <1>2. ASSUME NEW w \in Worker, FillEnd(w) PROVE TypeOK' /\ Budget'
    <2>1. sent[w] \in Nat /\ sent[w] + 1 \in 0 .. (MaxSamples + 1)
      BY <1>2 DEF FillEnd, TypeOK, Budget
    <2>2. TypeOK'
      BY <1>2, <2>1 DEF FillEnd, TypeOK, memory
    <2>3. Budget'
      BY <1>2, <2>1 DEF FillEnd, TypeOK, Budget
    <2> QED BY <2>2, <2>3
  <1>3. ASSUME NEW w \in Worker, Post(w) PROVE TypeOK' /\ Budget'
    <2>1. sem' \in [Worker -> [Sem -> Nat]] /\ undo' \in [Process -> [Worker -> [Sem -> Int]]]
      BY <1>0, <1>3, SemOpType DEF Post, UnlockSemaphore
    <2>2. TypeOK'
      BY <1>3, <2>1 DEF Post, TypeOK, memory
    <2>3. Budget'
      BY <1>3 DEF Post, TypeOK, Budget
    <2> QED BY <2>2, <2>3
  <1>4. ASSUME NEW w \in Worker, Take(w) PROVE TypeOK' /\ Budget'
    <2>1. sem' \in [Worker -> [Sem -> Nat]] /\ undo' \in [Process -> [Worker -> [Sem -> Int]]]
      BY <1>0, <1>4, SemOpType DEF Take, LockSemaphore
    <2>2. TypeOK'
      BY <1>4, <2>1 DEF Take, TypeOK, memory
    <2>3. Budget'
      BY <1>4 DEF Take, TypeOK, Budget
    <2> QED BY <2>2, <2>3
  <1>5. ASSUME NEW w \in Worker, Die(w) PROVE TypeOK' /\ Budget'
    <2>1. \A s \in Sem : sem[w][s] \in Int /\ undo["client"][w][s] \in Int
      BY <1>0
    <2>2. [s \in Sem |-> IF sem[w][s] + undo["client"][w][s] < 0 THEN 0
                         ELSE sem[w][s] + undo["client"][w][s]] \in [Sem -> Nat]
      BY <2>1
    <2>3. sem' \in [Worker -> [Sem -> Nat]]
      BY <1>0, <1>5, <2>2 DEF Die
    <2>4. buf' \in [Worker -> Bytes]
      BY <1>5 DEF Die, TypeOK
    <2>5. TypeOK'
      BY <1>5, <2>3, <2>4 DEF Die, TypeOK, memory
    <2>6. Budget'
      BY <1>5 DEF Die, TypeOK, Budget
    <2> QED BY <2>5, <2>6
  <1>6. ASSUME NEW w \in Worker, Lock(w) PROVE TypeOK' /\ Budget'
    <2>1. sem' \in [Worker -> [Sem -> Nat]] /\ undo' \in [Process -> [Worker -> [Sem -> Int]]]
      BY <1>0, <1>6, SemOpType DEF Lock, LockSemaphore
    <2> QED BY <1>6, <2>1 DEF Lock, TypeOK, Budget, memory
  <1>7. ASSUME NEW w \in Worker, Finish(w) PROVE TypeOK' /\ Budget'
    <2>1. sem' \in [Worker -> [Sem -> Nat]] /\ undo' \in [Process -> [Worker -> [Sem -> Int]]]
      BY <1>0, <1>7, SemOpType DEF Finish, UnlockSemaphore
    <2> QED BY <1>7, <2>1 DEF Finish, TypeOK, Budget, memory
  <1>8. ASSUME NEW w \in Worker, Map(w) PROVE TypeOK' /\ Budget'
    BY <1>8 DEF Map, TypeOK, Budget, area, memory
  <1>9. ASSUME NEW w \in Worker, ReleaseClearContent(w) PROVE TypeOK' /\ Budget'
    <2>1. heap' \in [Block -> [live : BOOLEAN, bytes : Bytes]]
      <3>1. clear # NULL => Free(clear) \in [Block -> [live : BOOLEAN, bytes : Bytes]]
        BY <1>0 DEF Free
      <3> QED BY <1>0, <1>9, <3>1 DEF ReleaseClearContent
    <2>2. wpc' \in [Worker -> {"lock", "read", "release", "decrypt", "cipher", "copy", "unlock", "ended"}]
      <3>1. CASE wpc' = [wpc EXCEPT ![w] = "decrypt"]
        BY <1>0, <3>1
      <3>2. CASE UNCHANGED wpc
        BY <1>0, <3>2
      <3> QED BY <1>9, <3>1, <3>2 DEF ReleaseClearContent
    <2>3. down' \in {"up", "abort", "crash", "heap"}
      BY <1>9 DEF ReleaseClearContent
    <2> QED BY <1>9, <2>1, <2>2, <2>3 DEF ReleaseClearContent, TypeOK, Budget, area
  <1>10. ASSUME NEW w \in Worker, Decrypt(w) PROVE TypeOK' /\ Budget'
    <2>1. CASE \E b \in Block \ Live :
                 /\ heap' = [heap EXCEPT ![b].live = TRUE]
                 /\ out' = [out EXCEPT ![w] = b]
                 /\ keys # NULL
                 /\ held' = [held EXCEPT ![w] = keys]
                 /\ wpc' = [wpc EXCEPT ![w] = "cipher"]
                 /\ UNCHANGED <<res, down>>
      <3>0. PICK b \in Block : heap' = [heap EXCEPT ![b].live = TRUE]
        BY <2>1
      <3>1. heap' \in [Block -> [live : BOOLEAN, bytes : Bytes]]
        BY <1>0, <3>0
      <3>2. out' \in [Worker -> Block \cup {NULL}]
        BY <2>1 DEF TypeOK
      <3>3. held' \in [Worker -> HeldKey \cup {NULL}]
        <4>1. keys \in HeldKey
          BY <2>1 DEF TypeOK, Key, HeldKey
        <4> QED BY <2>1, <4>1 DEF TypeOK
      <3> QED BY <1>10, <2>1, <3>1, <3>2, <3>3 DEF Decrypt, TypeOK, Budget, area
    <2>2. CASE UNCHANGED <<heap, out, held>>
      <3>1. /\ wpc' \in [Worker -> {"lock", "read", "release", "decrypt", "cipher", "copy", "unlock", "ended"}]
            /\ res' \in [Worker -> {"none", "failed", "success"}]
            /\ down' \in {"up", "abort", "crash", "heap"}
        BY <1>10 DEF Decrypt, TypeOK
      <3> QED BY <1>10, <2>2, <3>1 DEF Decrypt, TypeOK, Budget, area
    <2> QED BY <1>10, <2>1, <2>2 DEF Decrypt
  <1>11. ASSUME NEW w \in Worker, Cipher(w) PROVE TypeOK' /\ Budget'
    <2>1. ASSUME NEW f \in {"clear", "garbled"} PROVE [buf[w] EXCEPT !.form = f] \in Bytes
      <3>1. buf[w] \in Bytes
        BY DEF TypeOK
      <3> QED BY <3>1 DEF Bytes
    <2>2. heap' \in [Block -> [live : BOOLEAN, bytes : Bytes]]
      <3>1. PICK f \in {"clear", "garbled"} :
              heap' = [heap EXCEPT ![out[w]].bytes = [buf[w] EXCEPT !.form = f]]
        BY <1>11 DEF Cipher, Deciphered
      <3> QED BY <1>0, <2>1, <3>1
    <2>3. clear' \in Block \cup {NULL} /\ out' \in [Worker -> Block \cup {NULL}]
      BY <1>11 DEF Cipher, TypeOK
    <2> QED BY <1>11, <2>2, <2>3 DEF Cipher, TypeOK, Budget, area
  <1>12. ASSUME NEW w \in Worker, Copy(w) PROVE TypeOK' /\ Budget'
    <2>1. buf' \in [Worker -> Bytes]
      BY <1>0, <1>12 DEF Copy, TypeOK
    <2>2. /\ wpc' \in [Worker -> {"lock", "read", "release", "decrypt", "cipher", "copy", "unlock", "ended"}]
          /\ down' \in {"up", "abort", "crash", "heap"}
      BY <1>12 DEF Copy, TypeOK
    <2> QED BY <1>12, <2>1, <2>2 DEF Copy, TypeOK, Budget, memory
  <1>13. ASSUME NEW w \in Worker, Unlock(w) PROVE TypeOK' /\ Budget'
    <2>1. sem' \in [Worker -> [Sem -> Nat]] /\ undo' \in [Process -> [Worker -> [Sem -> Int]]]
      BY <1>0, <1>13, SemOpType DEF Unlock, UnlockSemaphore
    <2> QED BY <1>13, <2>1 DEF Unlock, TypeOK, Budget, memory
  <1>14. ASSUME NEW w \in Worker, NEW fit \in Fit, InstallKeys(w, fit) PROVE TypeOK' /\ Budget'
    <2>1. keys' \in Key
      BY <1>14, DecryptAssumption DEF InstallKeys, Key, DecryptAssumption
    <2>2. \A v \in Worker : held[v] # NULL => [held[v] EXCEPT !.fit = "freed"] \in HeldKey
      BY ZenonT(60) DEF TypeOK, HeldKey
    <2>3. held' \in [Worker -> HeldKey \cup {NULL}]
      BY <1>14, <2>2 DEF InstallKeys
    <2> QED BY <1>14, <2>1, <2>3 DEF InstallKeys, TypeOK, Budget, area
  <1>15. ASSUME NEW w \in Worker, ReleaseSession(w) PROVE TypeOK' /\ Budget'
    BY <1>15 DEF ReleaseSession, TypeOK, Budget, area, memory
  <1>16. ASSUME NEW w \in Worker, Unkeyed(w) \/ Fault(w) PROVE TypeOK' /\ Budget'
    BY <1>16 DEF Unkeyed, Fault, TypeOK, Budget, area, memory
  <1>17. CASE UNCHANGED vars
    BY <1>17 DEF vars, TypeOK, Budget, area, memory
  <1> QED
    BY <1>1, <1>2, <1>3, <1>4, <1>5, <1>6, <1>7, <1>8, <1>9, <1>10, <1>11, <1>12, <1>13,
       <1>14, <1>15, <1>16, <1>17 DEF Next, WorkerStep, ClientStep

\* The state of the sample path always has its types; in particular a client never counts
\* beyond its end marker.
THEOREM TypeCorrect == Spec => []TypeOK
  <1>1. Init => TypeOK /\ Budget
    BY InitType
  <1>2. (TypeOK /\ Budget) /\ [Next]_vars => (TypeOK /\ Budget)'
    BY NextType
  <1> QED BY <1>1, <1>2, PTL DEF Spec

-----------------------------------------------------------------------------
(* The area is handed over by the semaphores.                              *)

Posts(w) == IF cpc[w] = "post" THEN sent[w] - 1 ELSE sent[w]
Working(w) == IF Busy(w) THEN 1 ELSE 0

\* While the client lives there is one token: with the client, in one of the two
\* semaphores, or with the worker; and each adjustment counts the operations done.
Adjusted(w) ==
  /\ undo["client"][w]["DECRYPT"] = -Posts(w)
  /\ undo["service"][w]["DECRYPT"] = Posts(w) - sem[w]["DECRYPT"]
  /\ undo["service"][w]["PULL"] = -(Posts(w) - sem[w]["DECRYPT"] - Working(w))
  /\ undo["client"][w]["PULL"] = Posts(w) - sem[w]["DECRYPT"] - Working(w) - sem[w]["PULL"]

Token(w) ==
  \/ /\ cpc[w] \in {"fill", "post"} /\ wpc[w] = "lock"
     /\ sem[w]["DECRYPT"] = 0 /\ sem[w]["PULL"] = 0
  \/ /\ cpc[w] = "wait" /\ wpc[w] = "lock"
     /\ sem[w]["DECRYPT"] = 1 /\ sem[w]["PULL"] = 0
  \/ /\ cpc[w] = "wait" /\ Busy(w) /\ (info[w] = "end" => wpc[w] = "read")
     /\ sem[w]["DECRYPT"] = 0 /\ sem[w]["PULL"] = 0
  \/ /\ cpc[w] = "wait" /\ wpc[w] = (IF info[w] = "end" THEN "ended" ELSE "lock")
     /\ sem[w]["DECRYPT"] = 0 /\ sem[w]["PULL"] = 1
  \/ /\ cpc[w] = "gone" /\ wpc[w] = "ended"
     /\ sem[w]["DECRYPT"] = 0 /\ sem[w]["PULL"] = 0

Handover(w) == cpc[w] # "dead" => Adjusted(w) /\ Token(w)

\* Within the range of the adjustment semop does what the helpers expect of it.
LEMMA SemOpDone ==
  ASSUME TypeOK, NEW p \in Process, NEW w \in Worker, NEW s \in Sem, NEW d \in {-1, 1},
         SemOp(p, w, s, d),
         undo[p][w][s] - d \in (-SEMAEM - 1) .. SEMAEM
  PROVE  /\ sem[w][s] + d >= 0
         /\ sem'[w][s] = sem[w][s] + d
         /\ undo'[p][w][s] = undo[p][w][s] - d
         /\ \A r \in Sem \ {s} : sem'[w][r] = sem[w][r] /\ \A q \in Process : undo'[q][w][r] = undo[q][w][r]
         /\ \A q \in Process \ {p} : undo'[q][w][s] = undo[q][w][s]
         /\ \A v \in Worker \ {w} : sem'[v] = sem[v] /\ \A q \in Process : undo'[q][v] = undo[q][v]
  <1>1. /\ sem \in [Worker -> [Sem -> Nat]]
        /\ undo \in [Process -> [Worker -> [Sem -> Int]]]
    BY DEF TypeOK
  <1>2. /\ sem' = [sem EXCEPT ![w][s] = @ + d]
        /\ undo' = [undo EXCEPT ![p][w][s] = @ - d]
        /\ sem[w][s] + d >= 0
    BY DEF SemOp
  <1> QED BY <1>1, <1>2

\* Initially every client owns its area.
LEMMA InitHandover == Init => \A w \in Worker : Handover(w)
  <1> SUFFICES ASSUME Init, NEW w \in Worker PROVE Handover(w)
    OBVIOUS
  <1>1. /\ cpc[w] = "fill" /\ wpc[w] = "lock" /\ sent[w] = 0
        /\ sem[w]["DECRYPT"] = 0 /\ sem[w]["PULL"] = 0
        /\ \A p \in Process, s \in Sem : undo[p][w][s] = 0
    BY ConstantsTyped DEF Init
  <1> QED BY <1>1, ConstantsTyped DEF Handover, Adjusted, Token, Posts, Working, Busy

\* The facts about one channel that its typing gives.
LEMMA ChannelTyped ==
  ASSUME TypeOK, NEW w \in Worker
  PROVE  /\ cpc[w] \in {"fill", "post", "wait", "gone", "dead"}
         /\ wpc[w] \in {"lock", "read", "release", "decrypt", "cipher", "copy", "unlock", "ended"}
         /\ sent[w] \in 0 .. (MaxSamples + 1)
         /\ sem[w]["DECRYPT"] \in Nat /\ sem[w]["PULL"] \in Nat
         /\ \A p \in Process, s \in Sem : undo[p][w][s] \in Int
  BY ConstantsTyped DEF TypeOK

\* A channel is affected by the steps of its own client and worker only.
Untouched(w) ==
  /\ cpc'[w] = cpc[w] /\ wpc'[w] = wpc[w] /\ sem'[w] = sem[w]
  /\ \A p \in Process : undo'[p][w] = undo[p][w]
  /\ sent'[w] = sent[w] /\ info'[w] = info[w]

LEMMA UntouchedHandover ==
  ASSUME NEW w \in Worker, Handover(w), Untouched(w)
  PROVE  Handover(w)'
  BY ConstantsTyped DEF Untouched, Handover, Adjusted, Token, Posts, Working, Busy

LEMMA OthersUntouched ==
  ASSUME TypeOK, NEW w \in Worker, WorkerStep(w) \/ ClientStep(w), NEW v \in Worker \ {w}
  PROVE  Untouched(v)
  <1> USE ConstantsTyped
  <1>0. /\ cpc \in [Worker -> {"fill", "post", "wait", "gone", "dead"}]
        /\ wpc \in [Worker -> {"lock", "read", "release", "decrypt", "cipher", "copy", "unlock", "ended"}]
        /\ sem \in [Worker -> [Sem -> Nat]]
        /\ undo \in [Process -> [Worker -> [Sem -> Int]]]
        /\ sent \in [Worker -> 0 .. (MaxSamples + 1)]
        /\ info \in [Worker -> SampleForm \cup {"end"}]
    BY DEF TypeOK
  <1>1. ASSUME NEW p \in Process, NEW s \in Sem, NEW d \in {-1, 1}, SemOp(p, w, s, d)
        PROVE  sem'[v] = sem[v] /\ \A q \in Process : undo'[q][v] = undo[q][v]
    <2>1. CASE UNCHANGED <<sem, undo>>
      BY <2>1
    <2>2. CASE /\ sem' = [sem EXCEPT ![w][s] = @ + d]
               /\ undo' = [undo EXCEPT ![p][w][s] = @ - d]
      BY <1>0, <2>2
    <2> QED BY <1>1, <2>1, <2>2 DEF SemOp
  <1>2. CASE (\E f \in Form : FillSample(w, f)) \/ FillEnd(w)
    BY <1>0, <1>2 DEF FillSample, FillEnd, Untouched
  <1>3. CASE Post(w)
    BY <1>0, <1>1, <1>3 DEF Post, UnlockSemaphore, Untouched
  <1>4. CASE Take(w)
    BY <1>0, <1>1, <1>4 DEF Take, LockSemaphore, Untouched
  <1>5. CASE Die(w)
    BY <1>0, <1>5 DEF Die, Untouched
  <1>6. CASE Lock(w)
    BY <1>0, <1>1, <1>6 DEF Lock, LockSemaphore, Untouched
  <1>7. CASE Finish(w)
    BY <1>0, <1>1, <1>7 DEF Finish, UnlockSemaphore, Untouched
  <1>8. CASE Unlock(w)
    BY <1>0, <1>1, <1>8 DEF Unlock, UnlockSemaphore, Untouched
  <1>9. CASE Map(w) \/ ReleaseClearContent(w) \/ Decrypt(w) \/ Cipher(w) \/ Unkeyed(w) \/ Fault(w) \/ Copy(w)
    <2>1. UNCHANGED <<cpc, sem, undo, info, sent>>
      BY <1>9 DEF Map, ReleaseClearContent, Decrypt, Cipher, Unkeyed, Fault, Copy, area
    <2>2. UNCHANGED wpc \/ \E x : wpc' = [wpc EXCEPT ![w] = x]
      BY <1>9 DEF Map, ReleaseClearContent, Decrypt, Cipher, Unkeyed, Fault, Copy
    <2> QED BY <1>0, <2>1, <2>2 DEF Untouched
  <1> QED BY <1>2, <1>3, <1>4, <1>5, <1>6, <1>7, <1>8, <1>9 DEF WorkerStep, ClientStep

\* Each step of a client or a worker hands the token on, as long as the samples of a
\* stream stay below the range of the adjustment.
LEMMA NextHandover ==
  ASSUME MaxSamples + 1 <= SEMAEM, TypeOK, Budget, NEW w \in Worker, Handover(w),
         WorkerStep(w) \/ ClientStep(w)
  PROVE  Handover(w)'
  <1> USE ConstantsTyped
  <1>0. /\ cpc \in [Worker -> {"fill", "post", "wait", "gone", "dead"}]
        /\ wpc \in [Worker -> {"lock", "read", "release", "decrypt", "cipher", "copy", "unlock", "ended"}]
        /\ sent \in [Worker -> 0 .. (MaxSamples + 1)]
        /\ info \in [Worker -> SampleForm \cup {"end"}]
        /\ sem[w]["DECRYPT"] \in Nat /\ sem[w]["PULL"] \in Nat
        /\ \A p \in Process, s \in Sem : undo[p][w][s] \in Int
        /\ "end" \notin SampleForm
    BY ChannelTyped DEF TypeOK, SampleForm
  <1>1. CASE cpc'[w] = "dead"
    BY <1>1 DEF Handover
  <1>2. CASE (\E f \in Form : FillSample(w, f)) \/ FillEnd(w)
    <2>1. /\ cpc[w] = "fill" /\ cpc'[w] = "post" /\ sent'[w] = sent[w] + 1
          /\ UNCHANGED <<wpc, sem, undo>>
      BY <1>0, <1>2 DEF FillSample, FillEnd
    <2> QED BY <1>0, <2>1 DEF Handover, Adjusted, Token, Posts, Working, Busy
  <1>3. CASE Post(w)
    <2>1. /\ cpc[w] = "post" /\ cpc'[w] = "wait" /\ SemOp("client", w, "DECRYPT", 1)
          /\ UNCHANGED <<wpc, sent, info>>
      BY <1>0, <1>3 DEF Post, UnlockSemaphore
    <2>2. undo["client"][w]["DECRYPT"] - 1 \in (-SEMAEM - 1) .. SEMAEM
      BY <1>0, <2>1 DEF Handover, Adjusted, Posts
    <2>3. /\ sem'[w]["DECRYPT"] = sem[w]["DECRYPT"] + 1
          /\ sem'[w]["PULL"] = sem[w]["PULL"]
          /\ undo'["client"][w]["DECRYPT"] = undo["client"][w]["DECRYPT"] - 1
          /\ undo'["client"][w]["PULL"] = undo["client"][w]["PULL"]
          /\ undo'["service"][w]["DECRYPT"] = undo["service"][w]["DECRYPT"]
          /\ undo'["service"][w]["PULL"] = undo["service"][w]["PULL"]
      BY <2>1, <2>2, SemOpDone
    <2> QED BY <1>0, <2>1, <2>3 DEF Handover, Adjusted, Token, Posts, Working, Busy
  <1>4. CASE Take(w)
    <2>1. /\ cpc[w] = "wait" /\ cpc'[w] = (IF info[w] = "end" THEN "gone" ELSE "fill")
          /\ SemOp("client", w, "PULL", -1)
          /\ UNCHANGED <<wpc, sent, info>>
      BY <1>0, <1>4 DEF Take, LockSemaphore
    <2>2. sem[w]["PULL"] + (-1) >= 0
      BY <2>1 DEF SemOp
    <2>3. undo["client"][w]["PULL"] - (-1) \in (-SEMAEM - 1) .. SEMAEM
      BY <1>0, <2>1, <2>2 DEF Handover, Adjusted, Token, Posts, Working, Busy
    <2>4. /\ sem'[w]["PULL"] = sem[w]["PULL"] + (-1)
          /\ sem'[w]["DECRYPT"] = sem[w]["DECRYPT"]
          /\ undo'["client"][w]["PULL"] = undo["client"][w]["PULL"] - (-1)
          /\ undo'["client"][w]["DECRYPT"] = undo["client"][w]["DECRYPT"]
          /\ undo'["service"][w]["DECRYPT"] = undo["service"][w]["DECRYPT"]
          /\ undo'["service"][w]["PULL"] = undo["service"][w]["PULL"]
      BY <2>1, <2>3, SemOpDone
    <2> QED BY <1>0, <2>1, <2>2, <2>4 DEF Handover, Adjusted, Token, Posts, Working, Busy
  <1>5. CASE Lock(w)
    <2>1. /\ wpc[w] = "lock" /\ wpc'[w] = "read" /\ SemOp("service", w, "DECRYPT", -1)
          /\ UNCHANGED <<cpc, sent, info>>
      BY <1>0, <1>5 DEF Lock, LockSemaphore
    <2>2. sem[w]["DECRYPT"] + (-1) >= 0
      BY <2>1 DEF SemOp
    <2>3. CASE cpc[w] # "dead"
      <3>1. undo["service"][w]["DECRYPT"] - (-1) \in (-SEMAEM - 1) .. SEMAEM
        BY <1>0, <2>1, <2>2, <2>3 DEF Handover, Adjusted, Token, Posts, Working, Busy
      <3>2. /\ sem'[w]["DECRYPT"] = sem[w]["DECRYPT"] + (-1)
            /\ sem'[w]["PULL"] = sem[w]["PULL"]
            /\ undo'["service"][w]["DECRYPT"] = undo["service"][w]["DECRYPT"] - (-1)
            /\ undo'["service"][w]["PULL"] = undo["service"][w]["PULL"]
            /\ undo'["client"][w]["DECRYPT"] = undo["client"][w]["DECRYPT"]
            /\ undo'["client"][w]["PULL"] = undo["client"][w]["PULL"]
        BY <2>1, <3>1, SemOpDone
      <3> QED BY <1>0, <2>1, <2>2, <2>3, <3>2 DEF Handover, Adjusted, Token, Posts, Working, Busy
    <2> QED BY <1>1, <2>1, <2>3
  <1>6. CASE Finish(w) \/ Unlock(w)
    <2>1. /\ \/ wpc[w] = "read" /\ info[w] = "end" /\ wpc'[w] = "ended"
             \/ wpc[w] = "unlock" /\ wpc'[w] = "lock"
          /\ SemOp("service", w, "PULL", 1)
          /\ UNCHANGED <<cpc, sent, info>>
      BY <1>0, <1>6 DEF Finish, Unlock, UnlockSemaphore
    <2>2. CASE cpc[w] # "dead"
      <3>1. undo["service"][w]["PULL"] - 1 \in (-SEMAEM - 1) .. SEMAEM
        BY <1>0, <2>1, <2>2 DEF Handover, Adjusted, Token, Posts, Working, Busy
      <3>2. /\ sem'[w]["PULL"] = sem[w]["PULL"] + 1
            /\ sem'[w]["DECRYPT"] = sem[w]["DECRYPT"]
            /\ undo'["service"][w]["PULL"] = undo["service"][w]["PULL"] - 1
            /\ undo'["service"][w]["DECRYPT"] = undo["service"][w]["DECRYPT"]
            /\ undo'["client"][w]["DECRYPT"] = undo["client"][w]["DECRYPT"]
            /\ undo'["client"][w]["PULL"] = undo["client"][w]["PULL"]
        BY <2>1, <3>1, SemOpDone
      <3> QED BY <1>0, <2>1, <2>2, <3>2 DEF Handover, Adjusted, Token, Posts, Working, Busy
    <2> QED BY <1>1, <2>1, <2>2
  <1>7. CASE Map(w) \/ ReleaseClearContent(w) \/ Decrypt(w) \/ Cipher(w) \/ Unkeyed(w) \/ Fault(w) \/ Copy(w)
    <2>1. UNCHANGED <<cpc, sem, undo, info, sent>>
      BY <1>7 DEF Map, ReleaseClearContent, Decrypt, Cipher, Unkeyed, Fault, Copy, area
    <2>2. /\ wpc[w] \in {"read", "release", "decrypt", "cipher", "copy"}
          /\ wpc[w] = "read" => info[w] # "end"
      BY <1>7 DEF Map, ReleaseClearContent, Decrypt, Cipher, Unkeyed, Fault, Copy
    <2>3. \/ UNCHANGED wpc
          \/ wpc'[w] \in {"release", "decrypt", "cipher", "copy", "unlock"}
      BY <1>0, <1>7 DEF Map, ReleaseClearContent, Decrypt, Cipher, Unkeyed, Fault, Copy
    <2> QED BY <1>0, <2>1, <2>2, <2>3 DEF Handover, Adjusted, Token, Posts, Working, Busy
  <1>8. CASE Die(w)
    BY <1>0, <1>1, <1>8 DEF Die
  <1> QED BY <1>2, <1>3, <1>4, <1>5, <1>6, <1>7, <1>8 DEF WorkerStep, ClientStep

HandoverInv == TypeOK /\ Budget /\ \A w \in Worker : Handover(w)

\* The steps of one channel keep its token and leave the other channels alone.
LEMMA HandoverInvariant == MaxSamples + 1 <= SEMAEM => (Spec => []HandoverInv)
  <1> SUFFICES ASSUME MaxSamples + 1 <= SEMAEM PROVE Spec => []HandoverInv
    OBVIOUS
  <1>1. Init => HandoverInv
    BY InitType, InitHandover DEF HandoverInv
  <1>2. HandoverInv /\ [Next]_vars => HandoverInv'
    <2> SUFFICES ASSUME HandoverInv, [Next]_vars PROVE HandoverInv'
      OBVIOUS
    <2>0. TypeOK /\ Budget /\ \A w \in Worker : Handover(w)
      BY DEF HandoverInv
    <2>1. TypeOK' /\ Budget'
      BY <2>0, NextType
    <2>2. ASSUME NEW v \in Worker PROVE Handover(v)'
      <3>1. CASE \E w \in Worker : WorkerStep(w) \/ ClientStep(w)
        <4>1. PICK w \in Worker : WorkerStep(w) \/ ClientStep(w)
          BY <3>1
        <4>2. CASE w = v
          BY <2>0, <4>1, <4>2, NextHandover
        <4>3. CASE w # v
          BY <2>0, <4>1, <4>3, OthersUntouched, UntouchedHandover
        <4> QED BY <4>2, <4>3
      <3>2. CASE UNCHANGED <<cpc, wpc, area>>
        <4>1. Untouched(v)
          BY <3>2 DEF Untouched, area
        <4> QED BY <2>0, <4>1, UntouchedHandover
      <3>3. CASE \E w \in Worker : ReleaseSession(w) \/ \E fit \in Fit : InstallKeys(w, fit)
        <4>1. UNCHANGED <<cpc, wpc, area>>
          BY <3>3 DEF ReleaseSession, InstallKeys
        <4> QED BY <4>1, <3>2
      <3>4. CASE UNCHANGED vars
        BY <3>4, <3>2 DEF vars
      <3> QED BY <3>1, <3>3, <3>4 DEF Next
    <2> QED BY <2>1, <2>2 DEF HandoverInv
  <1> QED BY <1>1, <1>2, PTL DEF Spec

\* The client and the worker of a channel never use its area at the same time, for any
\* number of channels and any behaviour of the others, while the samples of a stream stay
\* below SEMAEM: beyond it semop fails and the run decrypt_semaem shows both inside.
THEOREM AreaAlwaysExclusive == MaxSamples + 1 <= SEMAEM => (Spec => []ExclusiveArea)
  <1>1. HandoverInv => ExclusiveArea
    BY ChannelTyped DEF HandoverInv, ExclusiveArea, Handover, Token, Busy
  <1> QED BY <1>1, HandoverInvariant, PTL

\* No client waits for a worker that sleeps, or that has left its loop, without its answer: the
\* safety half of SamplesAnswered, for any clients that stay below SEMAEM.
THEOREM NobodyWaitsInVain == MaxSamples + 1 <= SEMAEM => (Spec => []NeverBothAsleep)
  <1>1. HandoverInv => NeverBothAsleep
    BY ChannelTyped DEF HandoverInv, NeverBothAsleep, Handover, Token
  <1> QED BY <1>1, HandoverInvariant, PTL

=============================================================================

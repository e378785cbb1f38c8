----------------------- MODULE MediaKeySessions_proofs -----------------------
(***************************************************************************)
(* Proofs about MediaKeySessions for every number of browsers, sessions,   *)
(* callback threads, addresses and unknown-id requests.                    *)
(***************************************************************************)
EXTENDS MediaKeySessions, TLAPS

-----------------------------------------------------------------------------
(* The constants.                                                          *)

\* The ids are natural numbers; the bounds are never negative.
LEMMA ConstantsTyped ==
  /\ FirstId \in Nat /\ MaxSessions \in Nat /\ MaxHandles \in Nat
  /\ Sid \subseteq Nat
  /\ Svc \in Actor /\ Slot \subseteq Actor
BY SessionAssumption DEF SessionAssumption, Sid, Actor

-----------------------------------------------------------------------------
(* Type correctness.                                                       *)

\* Every helper that computes a new registry returns one of its type.
LEMMA RegistryTypes ==
  ASSUME registry \in [Key -> Addr \cup {NULL, Absent}]
  PROVE  /\ \A k \in Key : Looked(k) \in [Key -> Addr \cup {NULL, Absent}]
         /\ \A k \in Key : Erased(k) \subseteq [Key -> Addr \cup {NULL, Absent}]
         /\ \A s \in Sid, a \in Addr : Filed(s, a) \subseteq [Key -> Addr \cup {NULL, Absent}]
  <1>1. \A k \in Key : Looked(k) \in [Key -> Addr \cup {NULL, Absent}]
    BY DEF Looked
  <1>2. \A k \in Key : Erased(k) \subseteq [Key -> Addr \cup {NULL, Absent}]
    BY DEF Erased
  <1>3. ASSUME NEW s \in Sid, NEW a \in Addr, NEW r \in Filed(s, a)
        PROVE  r \in [Key -> Addr \cup {NULL, Absent}]
    <2>1. \A f \in [Key -> Addr \cup {NULL, Absent}], k \in Key :
            /\ [f EXCEPT ![k] = a] \in [Key -> Addr \cup {NULL, Absent}]
            /\ [f EXCEPT ![k] = Absent] \in [Key -> Addr \cup {NULL, Absent}]
      OBVIOUS
    <2>2. \/ r = [registry EXCEPT ![s] = a]
          \/ \E k \in Stray : r = [registry EXCEPT ![k] = a]
          \/ \E k \in Stray : r = [registry EXCEPT ![k] = Absent, ![s] = a]
      BY DEF Filed, Strays
    <2> QED BY <2>1, <2>2 DEF Key
  <1> QED BY <1>1, <1>2, <1>3

\* Updates of the callback table by the steps of doCallback and by starting it.
LEMMA CallbackTableUpdates ==
  ASSUME cb \in CallbackTable, NEW t \in Actor
  PROVE  /\ [cb EXCEPT ![t] = IdleCb] \in CallbackTable
         /\ \A kind \in Kind, a \in Addr, s \in Sid \cup {NULL} :
              [cb EXCEPT ![t] = StartCb(kind, a, s)] \in CallbackTable
         /\ \A id \in Sid \cup {NULL} :
              cb[t].pc # "none" =>
                [cb EXCEPT ![t].pc = "connect", ![t].id = id] \in CallbackTable
         /\ \A c \in Client :
              cb[t].pc # "none" =>
                [cb EXCEPT ![t].pc = "call", ![t].to = c] \in CallbackTable
  <1>1. cb \in [Actor -> Record] /\ \A u \in Actor : cb[u].pc # "none" => cb[u].obj \in Addr
    BY DEF CallbackTable
  <1>2. ASSUME NEW r \in Record, r.pc # "none" => r.obj \in Addr
        PROVE  [cb EXCEPT ![t] = r] \in CallbackTable
    BY <1>1, <1>2 DEF CallbackTable
  <1>3. [cb EXCEPT ![t] = IdleCb] \in CallbackTable
    <2>1. IdleCb \in Record /\ IdleCb.pc = "none"
      BY DEF IdleCb, Record, Kind
    <2> QED BY <2>1, <1>2
  <1>4. ASSUME NEW kind \in Kind, NEW a \in Addr, NEW s \in Sid \cup {NULL}
        PROVE  [cb EXCEPT ![t] = StartCb(kind, a, s)] \in CallbackTable
    <2>1. StartCb(kind, a, s) \in Record /\ StartCb(kind, a, s).obj \in Addr
      BY DEF StartCb, Record
    <2> QED BY <2>1, <1>2
  <1>5. ASSUME NEW id \in Sid \cup {NULL}, cb[t].pc # "none"
        PROVE  [cb EXCEPT ![t].pc = "connect", ![t].id = id] \in CallbackTable
    <2> DEFINE r == [cb[t] EXCEPT !.pc = "connect", !.id = id]
    <2>1. r \in Record /\ r.obj \in Addr
      BY <1>1, <1>5 DEF Record
    <2>2. [cb EXCEPT ![t].pc = "connect", ![t].id = id] = [cb EXCEPT ![t] = r]
      BY <1>1 DEF Record
    <2> QED BY <2>1, <2>2, <1>2
  <1>6. ASSUME NEW c \in Client, cb[t].pc # "none"
        PROVE  [cb EXCEPT ![t].pc = "call", ![t].to = c] \in CallbackTable
    <2> DEFINE r == [cb[t] EXCEPT !.pc = "call", !.to = c]
    <2>1. r \in Record /\ r.obj \in Addr
      BY <1>1, <1>6 DEF Record
    <2>2. [cb EXCEPT ![t].pc = "call", ![t].to = c] = [cb EXCEPT ![t] = r]
      BY <1>1 DEF Record
    <2> QED BY <2>1, <2>2, <1>2
  <1> QED BY <1>3, <1>4, <1>5, <1>6

\* pthread_create either fails or takes one free slot.
LEMMA SpawnedCases ==
  ASSUME NEW kind, NEW a, NEW s, NEW r \in Spawned(kind, a, s)
  PROVE  \/ r = cb
         \/ \E t \in Slot : cb[t].pc = "none" /\ r = [cb EXCEPT ![t] = StartCb(kind, a, s)]
  BY DEF Spawned, FreeSlots

\* Update starts the status callback on the service thread and the ready callback on a
\* slot, or neither.
LEMMA UpdateCases ==
  ASSUME NEW c, NEW sid, NEW k, UpdateFound(c, sid, k)
  PROVE  \/ UNCHANGED cb /\ svc' = Reply(c, "update", sid, "SUCCESS")
         \/ \E t \in Slot :
              /\ cb[t].pc = "none"
              /\ cb' = [cb EXCEPT
                          ![t] = StartCb("ready", registry[k], object[registry[k]].sid),
                          ![Svc] = StartCb("status", registry[k], object[registry[k]].sid)]
              /\ svc' = [Reply(c, "update", sid, "SUCCESS") EXCEPT !.pc = "status"]
  BY DEF UpdateFound, UpdateSession, FreeSlots

\* A request record built by a handler is a Request.
LEMMA ReplyType ==
  ASSUME NEW c \in Client, NEW proc \in Proc, NEW sid \in Sid \cup {NULL},
         NEW cr \in {"SUCCESS", "S_FALSE", "garbage"}
  PROVE  /\ Reply(c, proc, sid, cr) \in Request
         /\ [Reply(c, proc, sid, cr) EXCEPT !.pc = "status"] \in Request
  BY DEF Reply, Request

-----------------------------------------------------------------------------
\* The initial state has the types.
LEMMA InitType == Init => TypeOK
  <1> SUFFICES ASSUME Init PROVE TypeOK
    OBVIOUS
  <1>1. engines \in Seq(Addr \cup {NULL}) /\ up \subseteq Client /\ handles \in 0 .. MaxHandles
    BY ConstantsTyped DEF Init
  <1>2. cb \in CallbackTable
    BY DEF Init, IdleCb, CallbackTable, Record, Kind
  <1>3. svc \in Request
    BY DEF Init, IdleSvc, Request, Proc
  <1>4. /\ object \in [Addr -> [live : BOOLEAN, sid : Sid \cup {NULL}]]
        /\ sessionCnt \in FirstId .. (FirstId + MaxSessions)
        /\ registry \in [Key -> Addr \cup {NULL, Absent}]
        /\ creator \in [Sid -> Client \cup {NULL}]
        /\ updated \subseteq Sid \cup {NULL}
        /\ call \in [Client -> Proc \cup {"none"}]
    BY ConstantsTyped DEF Init
  <1> QED BY <1>1, <1>2, <1>3, <1>4 DEF Init, TypeOK

\* Every step keeps the types.
LEMMA NextType == TypeOK /\ [Next]_vars => TypeOK'
  <1> SUFFICES ASSUME TypeOK, [Next]_vars PROVE TypeOK'
    OBVIOUS
  <1> USE ConstantsTyped DEF Proc
  <1>0. /\ cb \in CallbackTable
        /\ registry \in [Key -> Addr \cup {NULL, Absent}]
    BY DEF TypeOK
  <1>1. ASSUME NEW c \in Client, IsTypeSupported(c) PROVE TypeOK'
    <2>1. svc' \in Request
      BY ZenonT(30), <1>1, ReplyType DEF IsTypeSupported
    <2> QED BY <1>1, <2>1 DEF IsTypeSupported, Dispatch, TypeOK, sessionVars, cdmVars, netVars
  <1>2. ASSUME NEW c \in Client, MediaKeys(c) PROVE TypeOK'
    BY <1>2, ReplyType DEF MediaKeys, Dispatch, TypeOK, sessionVars, cdmVars, netVars
  <1>3. ASSUME NEW c \in Client, CreateSession(c) PROVE TypeOK'
    <2>1. PICK a \in Addr : /\ object' = [object EXCEPT ![a] = [live |-> TRUE, sid |-> sessionCnt]]
                            /\ registry' \in Filed(sessionCnt, a)
                            /\ cb' \in Spawned("message", a, sessionCnt)
      BY <1>3 DEF CreateSession, NewSession
    <2>2. sessionCnt \in Sid /\ sessionCnt' \in FirstId .. (FirstId + MaxSessions)
      BY <1>3 DEF CreateSession, NewSession, NextId, Sid
    <2>3. cb' \in CallbackTable
      <3>1. "message" \in Kind /\ sessionCnt \in Sid \cup {NULL}
        BY <2>2 DEF Kind
      <3>2. ASSUME NEW t \in Slot
            PROVE  [cb EXCEPT ![t] = StartCb("message", a, sessionCnt)] \in CallbackTable
        BY <1>0, <3>1, CallbackTableUpdates
      <3> QED BY <1>0, <2>1, <3>2, SpawnedCases
    <2>4. registry' \in [Key -> Addr \cup {NULL, Absent}]
      BY <1>0, <2>1, <2>2, RegistryTypes
    <2> QED
      BY <1>3, <2>1, <2>2, <2>3, <2>4, ReplyType
      DEF CreateSession, NewSession, Dispatch, TypeOK, sessionVars, cdmVars, netVars
  <1>4. ASSUME NEW c \in Client, RefuseSession(c) PROVE TypeOK'
    BY <1>4, ReplyType DEF RefuseSession, Dispatch, TypeOK, sessionVars, cdmVars, netVars
  <1>5. ASSUME NEW c \in Client, LoadSession(c) PROVE TypeOK'
    BY <1>5 DEF LoadSession, Dispatch, TypeOK, sessionVars, cdmVars, netVars
  <1>6. ASSUME NEW c \in Client, NEW sid \in Sid, NEW k \in Key, UpdateFound(c, sid, k)
        PROVE  TypeOK'
    <2> DEFINE a == registry[k]
               s == object[a].sid
    <2>1. a \in Addr /\ s \in Sid \cup {NULL}
      BY <1>6 DEF UpdateFound, UpdateSession, TypeOK
    <2>0. ExtractKeys(s)
      BY <1>6 DEF UpdateFound, UpdateSession
    <2>2. updated' \subseteq Sid \cup {NULL} /\ keys' \in Sid \cup {NULL} /\ down' \in {"up", "crash"}
      BY <2>0, <2>1 DEF ExtractKeys, TypeOK
    <2>3. cb' \in CallbackTable
      <3>1. CASE UNCHANGED cb
        BY <1>0, <3>1
      <3>2. ASSUME NEW t \in Slot,
                   cb' = [cb EXCEPT ![t] = StartCb("ready", a, s),
                                    ![Svc] = StartCb("status", a, s)]
            PROVE  cb' \in CallbackTable
        <4>1. StartCb("ready", a, s) \in Record /\ StartCb("ready", a, s).obj \in Addr
          BY <2>1 DEF StartCb, Record, Kind
        <4>2. StartCb("status", a, s) \in Record /\ StartCb("status", a, s).obj \in Addr
          BY <2>1 DEF StartCb, Record, Kind
        <4> QED BY <1>0, <3>2, <4>1, <4>2 DEF CallbackTable
      <3> QED BY <1>6, <3>1, <3>2, UpdateCases
    <2>4. svc' \in Request
      <3>1. /\ Reply(c, "update", sid, "SUCCESS") \in Request
            /\ [Reply(c, "update", sid, "SUCCESS") EXCEPT !.pc = "status"] \in Request
        BY ReplyType
      <3> QED BY <1>6, <3>1, UpdateCases
    <2> QED
      BY <1>6, <2>2, <2>3, <2>4 DEF UpdateFound, UpdateSession, Dispatch, TypeOK, sessionVars, netVars
  <1>7. ASSUME NEW c \in Client, NEW sid \in Sid, NEW k \in Key, UpdateUnknown(c, sid, k)
        PROVE  TypeOK'
    BY <1>0, <1>7, ReplyType, RegistryTypes
    DEF UpdateUnknown, Dispatch, TypeOK, sessionVars, cdmVars, netVars
  <1>8. ASSUME NEW c \in Client, NEW sid \in Sid, NEW k \in Key, ReleaseFound(c, sid, k)
        PROVE  TypeOK'
    <2>1. registry' \in [Key -> Addr \cup {NULL, Absent}]
      BY <1>0, <1>8, RegistryTypes DEF ReleaseFound
    <2>2. object' \in [Addr -> [live : BOOLEAN, sid : Sid \cup {NULL}]]
      BY <1>8 DEF ReleaseFound, TypeOK
    <2> QED
      BY <1>8, <2>1, <2>2, ReplyType
      DEF ReleaseFound, Dispatch, TypeOK, sessionVars, cdmVars, netVars
  <1>9. ASSUME NEW c \in Client, NEW sid \in Sid, NEW k \in Key, ReleaseUnknown(c, sid, k)
        PROVE  TypeOK'
    BY <1>0, <1>9, ReplyType, RegistryTypes
    DEF ReleaseUnknown, Dispatch, TypeOK, sessionVars, cdmVars, netVars
  <1>10. ASSUME NEW c \in Client, NEW sid \in Sid, NEW k \in Key, MediaEngine(c, sid, k)
         PROVE  TypeOK'
    <2>1. Looked(k)[k] \in Addr \cup {NULL}
      BY <1>0 DEF Looked
    <2>2. engines' \in Seq(Addr \cup {NULL})
      BY <1>10, <2>1 DEF MediaEngine, TypeOK
    <2>3. registry' \in [Key -> Addr \cup {NULL, Absent}]
      BY <1>0, <1>10, RegistryTypes DEF MediaEngine
    <2> QED
      BY <1>10, <2>2, <2>3, ReplyType
      DEF MediaEngine, Dispatch, TypeOK, sessionVars, cdmVars, netVars
  <1>11. CASE SendReply
    <2>1. IdleSvc \in Request
      BY DEF IdleSvc, Request
    <2>2. call' \in [Client -> Proc \cup {"none"}]
      BY <1>11 DEF SendReply, TypeOK
    <2> QED BY <1>11, <2>1, <2>2 DEF SendReply, TypeOK, sessionVars, cdmVars, netVars
  <1>12. ASSUME NEW t \in Actor, CbSession(t) PROVE TypeOK'
    <2>1. cb[t].pc # "none" /\ SessionIdAt(cb[t].obj) \in Sid \cup {NULL}
      BY <1>0, <1>12 DEF CbSession, SessionIdAt, CallbackTable, TypeOK
    <2>2. cb' \in CallbackTable
      BY ZenonT(60), <1>0, <1>12, <2>1, CallbackTableUpdates DEF CbSession
    <2> QED BY <1>12, <2>2 DEF CbSession, TypeOK, sessionVars, cdmVars, rpcVars, netVars
  <1>13. ASSUME NEW t \in Actor, CbConnect(t) PROVE TypeOK'
    <2>1. cb' \in CallbackTable
      <3>1. CASE pnum \in up /\ cb' = [cb EXCEPT ![t].pc = "call", ![t].to = pnum]
        <4>1. pnum \in Client /\ cb[t].pc # "none"
          BY <1>13, <3>1 DEF CbConnect, TypeOK
        <4> QED BY <1>0, <3>1, <4>1, CallbackTableUpdates
      <3>2. CASE UNCHANGED cb
        BY <1>0, <3>2
      <3> QED BY <1>13, <3>1, <3>2 DEF CbConnect
    <2> QED BY <1>13, <2>1 DEF CbConnect, TypeOK, sessionVars, cdmVars, rpcVars
  <1>14. ASSUME NEW t \in Actor, CbFinish(t) PROVE TypeOK'
    <2>1. cb' \in CallbackTable
      BY <1>0, <1>14, CallbackTableUpdates DEF CbFinish
    <2>2. svc' \in Request
      BY <1>14 DEF CbFinish, TypeOK, Request
    <2>3. events' \subseteq [kind : Kind, sid : Sid \cup {NULL}, to : Client \cup {NULL}]
      BY <1>0, <1>14 DEF CbFinish, TypeOK, CallbackTable, Record
    <2> QED BY <1>14, <2>1, <2>2, <2>3 DEF CbFinish, TypeOK, sessionVars, cdmVars
  <1>15. ASSUME NEW c \in Client, GiveUp(c) PROVE TypeOK'
    BY <1>15 DEF GiveUp, TypeOK, sessionVars, cdmVars, netVars
  <1>16. ASSUME NEW c \in Client, Leave(c) PROVE TypeOK'
    BY <1>16 DEF Leave, TypeOK, sessionVars, cdmVars, rpcVars
  <1>17. CASE UNCHANGED vars
    BY <1>17 DEF vars, TypeOK, sessionVars, cdmVars, rpcVars, netVars
  <1> QED
    BY <1>1, <1>2, <1>3, <1>4, <1>5, <1>6, <1>7, <1>8, <1>9, <1>10, <1>11, <1>12, <1>13,
       <1>14, <1>15, <1>16, <1>17 DEF Next, Handler, CbStep

\* The state of the session side always has its types: in particular the counter stays
\* within the ids it may issue and every callback in progress points at an object.
THEOREM TypeCorrect == Spec => []TypeOK
  BY InitType, NextType, PTL DEF Spec

-----------------------------------------------------------------------------
(* Which steps touch the registry, the objects and the id counter.          *)

SessionStep ==
  \/ UNCHANGED <<registry, object, sessionCnt>>
  \/ \E c \in Client : CreateSession(c)
  \/ \E c \in Client, sid \in Sid, k \in Key : ReleaseFound(c, sid, k)
  \/ \E k \in Key : registry' = Looked(k) /\ UNCHANGED <<object, sessionCnt>>

\* Only creating, releasing and looking up a session touch them.
LEMMA SessionSteps == [Next]_vars => SessionStep
  <1>1. ASSUME NEW c \in Client, Handler(c) PROVE SessionStep
    <2>1. CASE IsTypeSupported(c)
      BY <2>1 DEF SessionStep, IsTypeSupported, sessionVars
    <2>2. CASE MediaKeys(c)
      BY <2>2 DEF SessionStep, MediaKeys
    <2>3. CASE CreateSession(c)
      BY <2>3 DEF SessionStep
    <2>4. CASE RefuseSession(c)
      BY <2>4 DEF SessionStep, RefuseSession, sessionVars
    <2>5. CASE LoadSession(c)
      BY <2>5 DEF SessionStep, LoadSession, sessionVars
    <2>6. ASSUME NEW sid \in Sid, NEW k \in Key,
                 \/ UpdateFound(c, sid, k) \/ UpdateUnknown(c, sid, k)
                 \/ ReleaseFound(c, sid, k) \/ ReleaseUnknown(c, sid, k)
                 \/ MediaEngine(c, sid, k)
          PROVE  SessionStep
      BY <2>6 DEF SessionStep, UpdateFound, UpdateUnknown, ReleaseUnknown, MediaEngine, sessionVars
    <2> QED BY <1>1, <2>1, <2>2, <2>3, <2>4, <2>5, <2>6 DEF Handler
  <1>2. ASSUME NEW c \in Client, GiveUp(c) \/ Leave(c) PROVE SessionStep
    BY <1>2 DEF SessionStep, GiveUp, Leave, sessionVars
  <1>3. CASE SendReply
    BY <1>3 DEF SessionStep, SendReply, sessionVars
  <1>4. ASSUME NEW t \in Actor, CbStep(t) PROVE SessionStep
    <2>1. UNCHANGED sessionVars
      BY <1>4 DEF CbStep, CbSession, CbConnect, CbFinish
    <2> QED BY <2>1 DEF SessionStep, sessionVars
  <1>5. CASE UNCHANGED vars
    BY <1>5 DEF SessionStep, vars, sessionVars
  <1> QED BY <1>1, <1>2, <1>3, <1>4, <1>5 DEF Next

-----------------------------------------------------------------------------
(* The registry against the memory of the sessions.                        *)

\* The initial registry is empty.
LEMMA InitRegistry == Init => RegistrySound
  BY SessionAssumption DEF Init, RegistrySound, SessionAssumption

\* A fresh session is filed under one key only and disturbs no other session's key.
LEMMA FiledOnce ==
  ASSUME TypeOK, NEW s \in Sid, NEW a \in Addr, NEW r \in Filed(s, a)
  PROVE  \E k \in Key : /\ r[k] = a
                        /\ \A l \in Key \ {k} : r[l] = registry[l] \/ r[l] = Absent
  <1>1. \/ r = [registry EXCEPT ![s] = a]
        \/ \E k \in Stray : r = [registry EXCEPT ![k] = a]
        \/ \E k \in Stray : r = [registry EXCEPT ![k] = Absent, ![s] = a]
    BY DEF Filed, Strays
  <1>2. registry \in [Key -> Addr \cup {NULL, Absent}] /\ s \in Key /\ Stray \subseteq Key
    BY DEF TypeOK, Key
  <1>3. CASE r = [registry EXCEPT ![s] = a]
    BY <1>2, <1>3
  <1>4. ASSUME NEW k \in Stray, r = [registry EXCEPT ![k] = a]
        PROVE  r[k] = a /\ \A l \in Key \ {k} : r[l] = registry[l]
    BY <1>2, <1>4
  <1>5. ASSUME NEW k \in Stray, r = [registry EXCEPT ![k] = Absent, ![s] = a]
        PROVE  r[s] = a /\ \A l \in Key \ {s} : r[l] = registry[l] \/ r[l] = Absent
    BY <1>2, <1>5
  <1> QED BY <1>1, <1>2, <1>3, <1>4, <1>5

\* Every step keeps the registry sound: a new object was dead before it was filed, and
\* the one key of a freed object is erased with it.
LEMMA NextRegistry == TypeOK /\ RegistrySound /\ [Next]_vars => RegistrySound'
  <1> SUFFICES ASSUME TypeOK, RegistrySound, [Next]_vars PROVE RegistrySound'
    OBVIOUS
  <1>0. /\ registry \in [Key -> Addr \cup {NULL, Absent}]
        /\ object \in [Addr -> [live : BOOLEAN, sid : Sid \cup {NULL}]]
        /\ NULL \notin Addr /\ Absent \notin Addr
    BY SessionAssumption DEF TypeOK, SessionAssumption
  <1>1. CASE UNCHANGED <<registry, object, sessionCnt>>
    BY <1>1 DEF RegistrySound
  <1>2. ASSUME NEW c \in Client, CreateSession(c) PROVE RegistrySound'
    <2>1. PICK a \in Addr \ LiveObjects :
            /\ object' = [object EXCEPT ![a] = [live |-> TRUE, sid |-> sessionCnt]]
            /\ registry' \in Filed(sessionCnt, a)
      BY <1>2 DEF CreateSession, NewSession
    <2>2. sessionCnt \in Sid
      BY <1>2 DEF CreateSession, NewSession
    <2>3. PICK k \in Key : /\ registry'[k] = a
                           /\ \A l \in Key \ {k} : registry'[l] = registry[l] \/ registry'[l] = Absent
      BY <2>1, <2>2, FiledOnce
    <2>4. \A l \in Key : registry[l] # a
      BY <1>0, <2>1 DEF RegistrySound, LiveObjects
    <2>5. object'[a].live /\ \A b \in Addr \ {a} : object'[b] = object[b]
      BY <1>0, <2>1
    <2> QED BY SMTT(30), <1>0, <2>3, <2>4, <2>5 DEF RegistrySound
  <1>3. ASSUME NEW c \in Client, NEW sid \in Sid, NEW k \in Key, ReleaseFound(c, sid, k)
        PROVE  RegistrySound'
    <2>1. /\ registry[k] \in Addr
          /\ object' = [object EXCEPT ![registry[k]].live = FALSE]
          /\ registry' \in Erased(k)
      BY <1>3 DEF ReleaseFound
    <2>2. PICK E \in SUBSET Key :
            registry' = [j \in Key |-> IF j \in E \cup {k} THEN Absent ELSE registry[j]]
      BY <2>1 DEF Erased
    <2>3. \A j \in Key : registry'[j] \in Addr => j # k /\ registry'[j] = registry[j]
      BY <1>0, <2>2
    <2>4. \A b \in Addr \ {registry[k]} : object'[b] = object[b]
      BY <1>0, <2>1
    <2> QED BY <2>1, <2>3, <2>4 DEF RegistrySound
  <1>4. ASSUME NEW k \in Key, registry' = Looked(k), UNCHANGED <<object, sessionCnt>>
        PROVE  RegistrySound'
    <2>1. \A j \in Key : registry'[j] \in Addr => registry'[j] = registry[j]
      BY <1>0, <1>4 DEF Looked
    <2> QED BY <1>4, <2>1 DEF RegistrySound
  <1> QED BY <1>1, <1>2, <1>3, <1>4, SessionSteps DEF SessionStep

\* However requests for unknown sessions corrupt the map, the handlers never find a freed
\* session and Release never frees one twice.
THEOREM RegistryAlwaysSound == Spec => []RegistrySound
  <1>1. Init => TypeOK /\ RegistrySound
    BY InitType, InitRegistry
  <1>2. (TypeOK /\ RegistrySound) /\ [Next]_vars => (TypeOK /\ RegistrySound)'
    BY NextType, NextRegistry
  <1> QED BY <1>1, <1>2, PTL DEF Spec

-----------------------------------------------------------------------------
(* Session ids.                                                            *)

\* No object is alive initially.
LEMMA InitIds == Init => IdsUnique
  BY DEF Init, IdsUnique, LiveObjects

\* The only new live object gets the counter's value, above all ids in use.
LEMMA NextIds == TypeOK /\ IdsUnique /\ [Next]_vars => IdsUnique'
  <1> SUFFICES ASSUME TypeOK, IdsUnique, [Next]_vars PROVE IdsUnique'
    OBVIOUS
  <1> USE ConstantsTyped
  <1>0. /\ object \in [Addr -> [live : BOOLEAN, sid : Sid \cup {NULL}]]
        /\ sessionCnt \in Nat
    BY DEF TypeOK
  <1>1. CASE UNCHANGED <<object, sessionCnt>>
    BY <1>1 DEF IdsUnique, LiveObjects
  <1>2. ASSUME NEW c \in Client, CreateSession(c) PROVE IdsUnique'
    <2>1. PICK a \in Addr \ LiveObjects :
            object' = [object EXCEPT ![a] = [live |-> TRUE, sid |-> sessionCnt]]
      BY <1>2 DEF CreateSession, NewSession
    <2>2. sessionCnt' = sessionCnt + 1 /\ sessionCnt >= FirstId
      BY <1>2 DEF CreateSession, NewSession, NextId, Sid
    <2>3. object'[a].sid = sessionCnt /\ \A b \in Addr \ {a} : object'[b] = object[b]
      BY <1>0, <2>1
    <2>4. \A b \in Addr : object[b].live => object[b].sid \in FirstId .. (sessionCnt - 1)
      BY DEF IdsUnique, LiveObjects
    <2>5. \A b \in Addr : object'[b].live => object'[b].sid \in FirstId .. sessionCnt
      BY <1>0, <2>2, <2>3, <2>4
    <2>6. \A b \in Addr \ {a} : object'[b].live => object'[b].sid # object'[a].sid
      BY <1>0, <2>3, <2>4
    <2>7. \A b, d \in Addr \ {a} :
            object'[b].live /\ object'[d].live /\ object'[b].sid = object'[d].sid => b = d
      BY <2>3 DEF IdsUnique, LiveObjects
    <2>8. sessionCnt' - 1 = sessionCnt
      BY <1>0, <2>2
    <2> QED BY <2>5, <2>6, <2>7, <2>8 DEF IdsUnique, LiveObjects
  <1>3. ASSUME NEW c \in Client, NEW sid \in Sid, NEW k \in Key, ReleaseFound(c, sid, k)
        PROVE  IdsUnique'
    <2>1. \A b \in Addr : object'[b].sid = object[b].sid /\ (object'[b].live => object[b].live)
      BY <1>0, <1>3 DEF ReleaseFound
    <2>2. UNCHANGED sessionCnt
      BY <1>3 DEF ReleaseFound
    <2> QED BY <2>1, <2>2 DEF IdsUnique, LiveObjects
  <1> QED BY <1>1, <1>2, <1>3, SessionSteps DEF SessionStep

\* Two live sessions never share an id, and the id of a live session is never issued
\* again, for every number of sessions.
THEOREM IdsAlwaysUnique == Spec => []IdsUnique
  <1>1. Init => TypeOK /\ IdsUnique
    BY InitType, InitIds
  <1>2. (TypeOK /\ IdsUnique) /\ [Next]_vars => (TypeOK /\ IdsUnique)'
    BY NextType, NextIds
  <1> QED BY <1>1, <1>2, PTL DEF Spec

-----------------------------------------------------------------------------
(* Live sessions can be found while clients name only sessions they hold.   *)

\* A registry node is filed under the id of its object; without this a release could take
\* out the node of another session.
FiledUnderId == \A k \in Key : registry[k] \in Addr => object[registry[k]].sid = k

\* Without stray nodes the registry helpers do what a map with sound keys does.
LEMMA CleanRegistry ==
  ASSUME Stray = {}, registry \in [Key -> Addr \cup {NULL, Absent}]
  PROVE  /\ Key = Sid
         /\ \A s \in Sid, a \in Addr : \A r \in Filed(s, a) : r = [registry EXCEPT ![s] = a]
         /\ \A k \in Key : \A r \in Erased(k) : r = [registry EXCEPT ![k] = Absent]
  <1>1. Key = Sid /\ Strays = {}
    BY DEF Key, Strays
  <1>2. ASSUME NEW k \in Key, NEW r \in Erased(k) PROVE r = [registry EXCEPT ![k] = Absent]
    BY <1>1 DEF Erased
  <1> QED BY <1>1, <1>2 DEF Filed

\* Every step keeps live sessions findable: the fresh id is no live session's, and the node
\* erased is the one of the object freed.
LEMMA NextExact ==
  ASSUME Stray = {}, TypeOK, RegistrySound, IdsUnique, FiledUnderId, RegistryExact, [Next]_vars
  PROVE  FiledUnderId' /\ RegistryExact'
  <1> USE ConstantsTyped
  <1>0. /\ registry \in [Key -> Addr \cup {NULL, Absent}]
        /\ object \in [Addr -> [live : BOOLEAN, sid : Sid \cup {NULL}]]
        /\ NULL \notin Addr /\ Absent \notin Addr
        /\ \A a \in LiveObjects : object[a].sid \in Key /\ object[a].sid # sessionCnt
    <2>1. sessionCnt \in Nat
      BY DEF TypeOK
    <2>2. \A a \in LiveObjects : object[a].sid \in FirstId .. (sessionCnt - 1)
      BY DEF IdsUnique
    <2>3. \A a \in LiveObjects : object[a].sid \in FirstId .. (FirstId + MaxSessions - 1)
      BY <2>2 DEF TypeOK
    <2> QED BY <2>1, <2>2, <2>3, SessionAssumption DEF TypeOK, SessionAssumption, Key, Sid
  <1>1. CASE UNCHANGED <<registry, object, sessionCnt>>
    BY <1>1 DEF FiledUnderId, RegistryExact, LiveObjects
  <1>2. ASSUME NEW c \in Client, CreateSession(c) PROVE FiledUnderId' /\ RegistryExact'
    <2>1. PICK a \in Addr \ LiveObjects :
            /\ object' = [object EXCEPT ![a] = [live |-> TRUE, sid |-> sessionCnt]]
            /\ registry' \in Filed(sessionCnt, a)
      BY <1>2 DEF CreateSession, NewSession
    <2>2. sessionCnt \in Sid
      BY <1>2 DEF CreateSession
    <2>3. registry' = [registry EXCEPT ![sessionCnt] = a] /\ sessionCnt \in Key
      BY <1>0, <2>1, <2>2, CleanRegistry DEF Key
    <2>4. \A l \in Key : registry[l] # a
      BY <1>0, <2>1 DEF RegistrySound, LiveObjects
    <2>5. object'[a] = [live |-> TRUE, sid |-> sessionCnt] /\ \A b \in Addr \ {a} : object'[b] = object[b]
      BY <1>0, <2>1
    <2>6. registry'[sessionCnt] = a /\ \A l \in Key \ {sessionCnt} : registry'[l] = registry[l]
      BY <1>0, <2>3
    <2>7. FiledUnderId'
      BY <1>0, <2>4, <2>5, <2>6 DEF FiledUnderId
    <2>8. RegistryExact'
      BY <1>0, <2>5, <2>6 DEF RegistryExact, LiveObjects
    <2> QED BY <2>7, <2>8
  <1>3. ASSUME NEW c \in Client, NEW sid \in Sid, NEW k \in Key, ReleaseFound(c, sid, k)
        PROVE  FiledUnderId' /\ RegistryExact'
    <2>1. /\ registry[k] \in Addr
          /\ object' = [object EXCEPT ![registry[k]].live = FALSE]
          /\ registry' = [registry EXCEPT ![k] = Absent]
      BY <1>0, <1>3, CleanRegistry DEF ReleaseFound
    <2>2. registry'[k] = Absent /\ \A l \in Key \ {k} : registry'[l] = registry[l]
      BY <1>0, <2>1
    <2>3. /\ \A b \in Addr : object'[b].sid = object[b].sid
          /\ ~object'[registry[k]].live
          /\ \A b \in Addr \ {registry[k]} : object'[b].live = object[b].live
      BY <1>0, <2>1
    <2>4. FiledUnderId'
      BY <1>0, <2>2, <2>3 DEF FiledUnderId
    <2>5. ASSUME NEW b \in Addr, object'[b].live PROVE registry'[object'[b].sid] = b
      <3>1. b # registry[k] /\ b \in LiveObjects
        BY <2>3, <2>5 DEF LiveObjects
      <3>2. registry[object[b].sid] = b /\ object[b].sid \in Key
        BY <1>0, <3>1 DEF RegistryExact
      <3> QED BY <2>2, <2>3, <3>1, <3>2
    <2> QED BY <2>4, <2>5 DEF RegistryExact, LiveObjects
  <1>4. ASSUME NEW k \in Key, registry' = Looked(k), UNCHANGED <<object, sessionCnt>>
        PROVE  FiledUnderId' /\ RegistryExact'
    <2>1. \A j \in Key : registry[j] \in Addr \/ registry'[j] \in Addr => registry'[j] = registry[j]
      BY <1>0, <1>4 DEF Looked
    <2>2. FiledUnderId'
      BY <1>4, <2>1 DEF FiledUnderId
    <2>3. RegistryExact'
      BY <1>0, <1>4, <2>1 DEF RegistryExact, LiveObjects
    <2> QED BY <2>2, <2>3
  <1> QED BY <1>1, <1>2, <1>3, <1>4, SessionSteps DEF SessionStep

\* While clients name only sessions they hold, every live session can be found under its
\* own id; one request for an unknown session ends that (run sessions_notfound).
THEOREM RegistryAlwaysExact == Stray = {} => (Spec => []RegistryExact)
  <1> SUFFICES ASSUME Stray = {} PROVE Spec => []RegistryExact
    OBVIOUS
  <1> DEFINE Inv == TypeOK /\ RegistrySound /\ IdsUnique /\ FiledUnderId /\ RegistryExact
  <1>1. Init => Inv
    <2>1. Init => FiledUnderId /\ RegistryExact
      BY SessionAssumption DEF Init, FiledUnderId, RegistryExact, LiveObjects, SessionAssumption
    <2> QED BY <2>1, InitType, InitRegistry, InitIds
  <1>2. Inv /\ [Next]_vars => Inv'
    BY NextType, NextRegistry, NextIds, NextExact
  <1>3. Inv => RegistryExact
    OBVIOUS
  <1> QED BY <1>1, <1>2, <1>3, PTL DEF Spec

-----------------------------------------------------------------------------
(* The callback Update makes on the service thread.                        *)

\* Svc is in a callback only while the dispatcher waits inside Update, and then the
\* session is alive: no Release can be dispatched meanwhile.
StatusServed ==
  cb[Svc].pc # "none" => svc.pc = "status" /\ object[cb[Svc].obj].live

\* Which steps touch what StatusServed speaks about.
LEMMA StatusSteps ==
  ASSUME TypeOK, RegistrySound, StatusServed, [Next]_vars
  PROVE  StatusServed'
  <1> USE ConstantsTyped, SessionAssumption DEF SessionAssumption
  <1>0. /\ cb \in [Actor -> Record]
        /\ \A t \in Actor : cb[t].pc # "none" => cb[t].obj \in Addr
        /\ object \in [Addr -> [live : BOOLEAN, sid : Sid \cup {NULL}]]
        /\ Svc \in Actor
    BY DEF TypeOK, CallbackTable
  <1>1. ASSUME NEW c \in Client, NEW proc, Dispatch(c, proc) PROVE cb[Svc].pc = "none"
    BY <1>1 DEF Dispatch, StatusServed
  <1>2. ASSUME cb'[Svc].pc = "none" PROVE StatusServed'
    BY <1>2 DEF StatusServed
  <1>3. ASSUME NEW c \in Client, Handler(c) PROVE StatusServed'
    <2>1. CASE IsTypeSupported(c)
      BY <1>1, <1>2, <2>1 DEF IsTypeSupported
    <2>2. CASE MediaKeys(c)
      BY <1>1, <1>2, <2>2 DEF MediaKeys
    <2>3. CASE CreateSession(c)
      <3>1. cb[Svc].pc = "none"
        BY <1>1, <2>3 DEF CreateSession, NewSession
      <3>2. PICK a \in Addr : cb' \in Spawned("message", a, sessionCnt)
        BY <2>3 DEF CreateSession, NewSession
      <3>3. cb'[Svc] = cb[Svc]
        BY <1>0, <3>2, SpawnedCases
      <3> QED BY <1>2, <3>1, <3>3
    <2>4. CASE RefuseSession(c)
      BY <1>1, <1>2, <2>4 DEF RefuseSession
    <2>5. CASE LoadSession(c)
      BY <1>1, <1>2, <2>5 DEF LoadSession
    <2>6. ASSUME NEW sid \in Sid, NEW k \in Key, UpdateFound(c, sid, k) PROVE StatusServed'
      <3>1. cb[Svc].pc = "none"
        BY <1>1, <2>6 DEF UpdateFound, UpdateSession
      <3>2. registry[k] \in Addr /\ object[registry[k]].live /\ UNCHANGED object
        BY <2>6 DEF UpdateFound, UpdateSession, RegistrySound, sessionVars
      <3>3. CASE UNCHANGED cb
        BY <1>2, <3>1, <3>3
      <3>4. ASSUME NEW t \in Slot,
                   cb' = [cb EXCEPT
                           ![t] = StartCb("ready", registry[k], object[registry[k]].sid),
                           ![Svc] = StartCb("status", registry[k], object[registry[k]].sid)],
                   svc' = [Reply(c, "update", sid, "SUCCESS") EXCEPT !.pc = "status"]
            PROVE  StatusServed'
        <4>1. cb'[Svc] = StartCb("status", registry[k], object[registry[k]].sid)
          BY <1>0, <3>4
        <4>2. cb'[Svc].obj = registry[k] /\ svc'.pc = "status"
          BY <3>4, <4>1 DEF StartCb, Reply
        <4> QED BY <3>2, <4>2 DEF StatusServed
      <3> QED BY <2>6, <3>3, <3>4, UpdateCases
    <2>7. ASSUME NEW sid \in Sid, NEW k \in Key,
                 \/ UpdateUnknown(c, sid, k) \/ ReleaseFound(c, sid, k)
                 \/ ReleaseUnknown(c, sid, k) \/ MediaEngine(c, sid, k)
          PROVE  StatusServed'
      BY <1>1, <1>2, <2>7 DEF UpdateUnknown, ReleaseFound, ReleaseUnknown, MediaEngine
    <2> QED BY <1>3, <2>1, <2>2, <2>3, <2>4, <2>5, <2>6, <2>7 DEF Handler
  <1>4. CASE SendReply
    BY <1>2, <1>4 DEF SendReply, StatusServed
  <1>5. ASSUME NEW t \in Actor, CbSession(t) PROVE StatusServed'
    <2>1. /\ cb'[Svc].obj = cb[Svc].obj
          /\ cb'[Svc].pc # "none" => cb[Svc].pc # "none"
      BY <1>0, <1>5 DEF CbSession, Record
    <2> QED BY <1>5, <2>1 DEF CbSession, StatusServed, sessionVars, rpcVars
  <1>6. ASSUME NEW t \in Actor, CbConnect(t) PROVE StatusServed'
    <2>1. /\ cb'[Svc].obj = cb[Svc].obj
          /\ cb'[Svc].pc # "none" => cb[Svc].pc # "none"
      BY <1>0, <1>6 DEF CbConnect, Record
    <2> QED BY <1>6, <2>1 DEF CbConnect, StatusServed, sessionVars, rpcVars
  <1>7. ASSUME NEW t \in Actor, CbFinish(t) PROVE StatusServed'
    <2>1. CASE t = Svc
      BY <1>0, <1>2, <1>7, <2>1 DEF CbFinish, IdleCb
    <2>2. CASE t # Svc
      BY <1>0, <1>7, <2>2 DEF CbFinish, StatusServed, sessionVars
    <2> QED BY <2>1, <2>2
  <1>8. ASSUME NEW c \in Client, GiveUp(c) \/ Leave(c) PROVE StatusServed'
    BY <1>8 DEF GiveUp, Leave, StatusServed, sessionVars, rpcVars
  <1>9. CASE UNCHANGED vars
    BY <1>9 DEF vars, StatusServed, sessionVars, rpcVars
  <1> QED
    BY <1>3, <1>4, <1>5, <1>6, <1>7, <1>8, <1>9 DEF Next, CbStep

\* The status callback never reads a freed session, even with clients that release early
\* and name unknown sessions: it is protected by the single service thread.
THEOREM StatusAlwaysOnLiveSession == Spec => []StatusOnLiveSession
  <1> DEFINE Inv == TypeOK /\ RegistrySound /\ StatusServed
  <1>1. Init => Inv
    <2>1. Init => StatusServed
      BY ConstantsTyped DEF Init, StatusServed, IdleCb
    <2> QED BY <2>1, InitType, InitRegistry
  <1>2. Inv /\ [Next]_vars => Inv'
    BY NextType, NextRegistry, StatusSteps
  <1>3. Inv => StatusOnLiveSession
    BY DEF StatusServed, StatusOnLiveSession
  <1> QED BY <1>1, <1>2, <1>3, PTL DEF Spec

-----------------------------------------------------------------------------
(* Callbacks of clients that release a session when its callbacks are over. *)

\* The premise: no unknown sessions are named and none is released early.
Careful == Stray = {} /\ ~EarlyRelease

\* Every callback in progress belongs to a live session and is filed under its id, and a key
\* event is in progress for updated sessions only.
Pending(r) ==
  r.pc # "none" =>
    /\ object[r.obj].live
    /\ object[r.obj].sid = r.starter
    /\ r.starter \in Sid
    /\ r.pc # "deref" => r.id = r.starter
    /\ r.kind # "message" => r.starter \in updated

PendingSound == \A t \in Actor : Pending(cb[t])

\* Which steps touch what PendingSound speaks about.
CallbackStep ==
  \/ UNCHANGED <<cb, object, updated, events>>
  \/ \E c \in Client : CreateSession(c)
  \/ \E c \in Client, sid \in Sid, k \in Key : UpdateFound(c, sid, k) \/ ReleaseFound(c, sid, k)
  \/ \E t \in Actor : CbStep(t)

LEMMA CallbackSteps == [Next]_vars => CallbackStep
  <1>1. ASSUME NEW c \in Client, Handler(c) PROVE CallbackStep
    <2>1. CASE IsTypeSupported(c) \/ MediaKeys(c) \/ RefuseSession(c) \/ LoadSession(c)
      BY <2>1 DEF CallbackStep, IsTypeSupported, MediaKeys, RefuseSession, LoadSession,
                  sessionVars, cdmVars, netVars
    <2>2. ASSUME NEW sid \in Sid, NEW k \in Key,
                 UpdateUnknown(c, sid, k) \/ ReleaseUnknown(c, sid, k) \/ MediaEngine(c, sid, k)
          PROVE  CallbackStep
      BY <2>2 DEF CallbackStep, UpdateUnknown, ReleaseUnknown, MediaEngine, cdmVars, netVars
    <2> QED BY <1>1, <2>1, <2>2 DEF Handler, CallbackStep
  <1>2. ASSUME NEW c \in Client, GiveUp(c) \/ Leave(c) PROVE CallbackStep
    BY <1>2 DEF CallbackStep, GiveUp, Leave, sessionVars, cdmVars, netVars
  <1>3. CASE SendReply
    BY <1>3 DEF CallbackStep, SendReply, sessionVars, cdmVars, netVars
  <1>4. CASE UNCHANGED vars
    BY <1>4 DEF CallbackStep, vars, sessionVars, cdmVars, netVars
  <1> QED BY <1>1, <1>2, <1>3, <1>4 DEF Next, CallbackStep

\* Starting, looking and ending keep every callback sound: a release waits for the threads
\* of its session, and the service thread is not in a callback when it serves one.
LEMMA NextPending ==
  ASSUME Careful, TypeOK, RegistrySound, IdsUnique, FiledUnderId, StatusServed, PendingSound, CallbackStep
  PROVE  PendingSound'
  <1> USE ConstantsTyped
  <1>0. /\ cb \in [Actor -> Record]
        /\ \A t \in Actor : cb[t].pc # "none" => cb[t].obj \in Addr
        /\ object \in [Addr -> [live : BOOLEAN, sid : Sid \cup {NULL}]]
    BY DEF TypeOK, CallbackTable
  <1>1. CASE UNCHANGED <<cb, object, updated, events>>
    BY <1>1 DEF PendingSound, Pending
  <1>2. ASSUME NEW c \in Client, CreateSession(c) PROVE PendingSound'
    <2>1. PICK a \in Addr \ LiveObjects :
            /\ object' = [object EXCEPT ![a] = [live |-> TRUE, sid |-> sessionCnt]]
            /\ cb' \in Spawned("message", a, sessionCnt)
      BY <1>2 DEF CreateSession, NewSession
    <2>2. UNCHANGED updated /\ sessionCnt \in Sid
      BY <1>2 DEF CreateSession, cdmVars
    <2>s. PICK s \in Sid : s = sessionCnt
      BY <2>2
    <2>3. object'[a] = [live |-> TRUE, sid |-> s] /\ \A b \in Addr \ {a} : object'[b] = object[b]
      BY <1>0, <2>1, <2>s
    <2>4. ASSUME NEW t \in Actor PROVE Pending(cb[t])'
                                      \/ cb'[t] # cb[t]
      <3>1. CASE cb[t].pc = "none"
        BY <3>1 DEF Pending
      <3>2. CASE cb[t].pc # "none"
        <4>1. cb[t].obj \in Addr /\ cb[t].obj # a
          BY <1>0, <2>1, <3>2 DEF PendingSound, Pending, LiveObjects
        <4> QED BY <2>2, <2>3, <4>1 DEF PendingSound, Pending
      <3> QED BY <3>1, <3>2
    <2>5. Pending(StartCb("message", a, s))'
      BY <2>2, <2>3 DEF Pending, StartCb
    <2>6. \A t \in Actor : cb'[t] = cb[t] \/ cb'[t] = StartCb("message", a, s)
      BY <1>0, <2>1, <2>s, SpawnedCases
    <2> QED BY <2>4, <2>5, <2>6 DEF PendingSound, Pending
  <1>3. ASSUME NEW c \in Client, NEW sid \in Sid, NEW k \in Key, UpdateFound(c, sid, k)
        PROVE  PendingSound'
    <2>0. PICK a, s : a = registry[k] /\ s = object[a].sid
      OBVIOUS
    <2>1. a \in Addr /\ object[a].live /\ UNCHANGED object
      BY <1>3, <2>0 DEF UpdateFound, RegistrySound, sessionVars
    <2>2. s \in Sid
      BY <2>0, <2>1 DEF Careful, FiledUnderId, Key
    <2>3. updated' = updated \cup {s}
      BY <1>3, <2>0 DEF UpdateFound, UpdateSession, ExtractKeys
    <2>4. \A t \in Actor : Pending(cb[t])'
                           \/ cb'[t] # cb[t]
      BY <2>1, <2>3 DEF PendingSound, Pending
    <2>5. \A kind : Pending(StartCb(kind, a, s))'
      BY <2>0, <2>1, <2>2, <2>3 DEF Pending, StartCb
    <2>6. \A t \in Actor : cb'[t] = cb[t] \/ \E kind : cb'[t] = StartCb(kind, a, s)
      <3>1. CASE UNCHANGED cb
        BY <3>1
      <3>2. ASSUME NEW u \in Slot,
                   cb' = [cb EXCEPT ![u] = StartCb("ready", a, s), ![Svc] = StartCb("status", a, s)]
            PROVE  \A t \in Actor : cb'[t] = cb[t] \/ \E kind : cb'[t] = StartCb(kind, a, s)
        BY <1>0, <3>2 DEF Actor
      <3>3. \/ UNCHANGED cb
            \/ \E u \in Slot :
                 cb' = [cb EXCEPT ![u] = StartCb("ready", registry[k], object[registry[k]].sid),
                                  ![Svc] = StartCb("status", registry[k], object[registry[k]].sid)]
        BY <1>3, UpdateCases
      <3> QED BY <2>0, <3>1, <3>2, <3>3
    <2> QED BY <2>4, <2>5, <2>6 DEF PendingSound, Pending
  <1>4. ASSUME NEW c \in Client, NEW sid \in Sid, NEW k \in Key, ReleaseFound(c, sid, k)
        PROVE  PendingSound'
    <2>1. registry[k] \in Addr /\ PendingFor(sid) = {} /\ k = sid /\ svc.pc = "idle"
      BY <1>4 DEF ReleaseFound, Careful, LandsOn, Strays, Dispatch
    <2>2. UNCHANGED <<cb, updated>> /\ object' = [object EXCEPT ![registry[k]].live = FALSE]
      BY <1>4 DEF ReleaseFound, cdmVars
    <2>3. object[registry[k]].sid = sid
      BY <2>1 DEF FiledUnderId
    <2>4. ASSUME NEW t \in Actor, cb[t].pc # "none" PROVE cb[t].obj # registry[k]
      <3>1. t \in Slot
        BY <2>1, <2>4 DEF StatusServed, Actor
      <3> QED BY <2>1, <2>3, <2>4, <3>1 DEF PendingSound, Pending, PendingFor
    <2>5. \A b \in Addr \ {registry[k]} : object'[b] = object[b]
      BY <1>0, <2>1, <2>2
    <2> QED BY <1>0, <2>2, <2>4, <2>5 DEF PendingSound, Pending
  <1>5. ASSUME NEW t \in Actor, CbStep(t) PROVE PendingSound'
    <2>1. UNCHANGED <<object, updated>>
      BY <1>5 DEF CbStep, CbSession, CbConnect, CbFinish, sessionVars, cdmVars
    <2>2. \A u \in Actor \ {t} : cb'[u] = cb[u]
      BY <1>0, <1>5 DEF CbStep, CbSession, CbConnect, CbFinish
    <2>3. Pending(cb'[t])
      <3>1. CASE cb' = cb
        BY <3>1 DEF PendingSound
      <3>2. CASE cb' = [cb EXCEPT ![t].pc = "connect", ![t].id = SessionIdAt(cb[t].obj)]
                 /\ cb[t].pc = "deref"
        BY <1>0, <3>2 DEF PendingSound, Pending, SessionIdAt, Record
      <3>3. ASSUME NEW c, cb' = [cb EXCEPT ![t].pc = "call", ![t].to = c], cb[t].pc = "connect"
            PROVE  Pending(cb'[t])
        BY <1>0, <3>3 DEF PendingSound, Pending, Record
      <3>4. CASE cb' = [cb EXCEPT ![t] = IdleCb]
        BY <1>0, <3>4 DEF Pending, IdleCb
      <3> QED BY <1>5, <3>1, <3>2, <3>3, <3>4 DEF CbStep, CbSession, CbConnect, CbFinish
    <2> QED BY <2>1, <2>2, <2>3 DEF PendingSound, Pending
  <1> QED BY <1>1, <1>2, <1>3, <1>4, <1>5 DEF CallbackStep

\* A key event is delivered under the id of a session that was updated.
LEMMA NextReady ==
  ASSUME TypeOK, PendingSound, ReadyFollowsUpdate, CallbackStep
  PROVE  ReadyFollowsUpdate'
  <1>1. updated \subseteq updated'
    BY ZenonT(30) DEF CallbackStep, CreateSession, UpdateFound, UpdateSession, ExtractKeys, ReleaseFound,
           CbStep, CbSession, CbConnect, CbFinish, cdmVars
  <1>2. CASE UNCHANGED events
    BY <1>1, <1>2 DEF ReadyFollowsUpdate
  <1>3. ASSUME NEW t \in Actor, CbFinish(t) PROVE ReadyFollowsUpdate'
    <2>1. events' \subseteq events \cup {[kind |-> cb[t].kind, sid |-> cb[t].id, to |-> cb[t].to]}
      BY <1>3 DEF CbFinish
    <2>2. cb[t].kind # "message" => cb[t].id \in updated
      BY <1>3 DEF CbFinish, PendingSound, Pending
    <2> QED BY <1>1, <2>1, <2>2 DEF ReadyFollowsUpdate
  <1>4. CASE \E c \in Client : CreateSession(c)
    BY <1>2, <1>4 DEF CreateSession, netVars
  <1>5. CASE \E c \in Client, sid \in Sid, k \in Key : UpdateFound(c, sid, k) \/ ReleaseFound(c, sid, k)
    BY <1>2, <1>5 DEF UpdateFound, ReleaseFound, netVars
  <1>6. ASSUME NEW t \in Actor, CbSession(t) \/ CbConnect(t) PROVE ReadyFollowsUpdate'
    BY <1>2, <1>6 DEF CbSession, CbConnect, netVars
  <1> QED BY <1>2, <1>3, <1>4, <1>5, <1>6 DEF CallbackStep, CbStep

\* The inductive invariant of the session side with careful clients.
SessionInv ==
  /\ TypeOK /\ RegistrySound /\ IdsUnique
  /\ FiledUnderId /\ RegistryExact /\ StatusServed
  /\ PendingSound /\ ReadyFollowsUpdate

LEMMA SessionInvariant == Careful => (Spec => []SessionInv)
  <1> SUFFICES ASSUME Careful PROVE Spec => []SessionInv
    OBVIOUS
  <1>1. Init => SessionInv
    <2>1. Init => FiledUnderId /\ RegistryExact /\ ReadyFollowsUpdate
      BY SessionAssumption
      DEF Init, FiledUnderId, RegistryExact, LiveObjects, ReadyFollowsUpdate, SessionAssumption
    <2>2. Init => StatusServed /\ PendingSound
      BY ConstantsTyped DEF Init, StatusServed, PendingSound, Pending, IdleCb
    <2> QED BY <2>1, <2>2, InitType, InitRegistry, InitIds DEF SessionInv
  <1>2. SessionInv /\ [Next]_vars => SessionInv'
    <2> SUFFICES ASSUME SessionInv, [Next]_vars PROVE SessionInv'
      OBVIOUS
    <2>1. CallbackStep
      BY CallbackSteps
    <2>2. TypeOK' /\ RegistrySound' /\ IdsUnique' /\ StatusServed'
      BY NextType, NextRegistry, NextIds, StatusSteps DEF SessionInv
    <2>3. FiledUnderId' /\ RegistryExact'
      BY NextExact DEF SessionInv, Careful
    <2>4. PendingSound' /\ ReadyFollowsUpdate'
      BY <2>1, NextPending, NextReady DEF SessionInv
    <2> QED BY <2>2, <2>3, <2>4 DEF SessionInv
  <1> QED BY <1>1, <1>2, PTL DEF Spec

\* A callback goes out under the id of the session that asked for it, for any number of
\* sessions, threads and reused addresses.
THEOREM CallbacksKeepIdentity == Careful => (Spec => []CallbackIdentity)
  <1>1. SessionInv => CallbackIdentity
    BY DEF SessionInv, PendingSound, Pending, CallbackIdentity
  <1> QED BY <1>1, SessionInvariant, PTL

\* Browsers are told of keys of updated sessions only.
THEOREM ReadyAlwaysFollowsUpdate == Careful => (Spec => []ReadyFollowsUpdate)
  <1>1. SessionInv => ReadyFollowsUpdate
    BY DEF SessionInv
  <1> QED BY <1>1, SessionInvariant, PTL

\* No thread of a session is left when it is released: the callback a session still has to
\* make never runs on freed memory.
THEOREM CallbacksOnLiveSessions == Careful => (Spec => []CallbackOnLiveSession)
  <1>1. SessionInv => CallbackOnLiveSession
    BY ConstantsTyped DEF SessionInv, PendingSound, Pending, CallbackOnLiveSession
  <1> QED BY <1>1, SessionInvariant, PTL

=============================================================================

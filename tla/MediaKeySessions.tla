-------------------------- MODULE MediaKeySessions --------------------------
(***************************************************************************)
(* The session side of the service: the RPC handlers of service.cpp, the   *)
(* session registry g_mediaKeySessions, the CMediaKeys / CMediaKeySession  *)
(* objects of the stub, and the callbacks into the browser.                *)
(*                                                                         *)
(* Threads.  svc_run() serves one request at a time on the service thread  *)
(* Svc.  CMediaKeySession::Run and ::Update start detached threads, here   *)
(* the members of Slot.  Svc and the slots all run the same doCallback, so *)
(* each is an actor with a record in cb.                                   *)
(*                                                                         *)
(* Undefined behaviour is an explicit choice.  A virtual call on a freed   *)
(* session crashes or still sees the stale object; an uninitialised reply  *)
(* is encoded or crashes; a registry node whose key points into freed      *)
(* request memory compares as any id at each lookup.                       *)
(***************************************************************************)
EXTENDS Naturals, Sequences, FiniteSets

CONSTANTS
  Client,        \* browsers, each with the program number of its callback server
  Addr,          \* addresses the allocator hands out for CMediaKeySession objects
  Slot,          \* detached callback threads that can exist at the same time
  Svc,           \* the service thread
  Stray,         \* registry nodes that requests for unknown sessions may insert
  FirstId,       \* initial value of CMediaKeys::s_sessionCnt (10 in the code)
  MaxSessions,   \* bound: sessions created in one behaviour
  MaxHandles,    \* descriptors available to clnt_create (RLIMIT_NOFILE)
  MaxEngines,    \* bound: media engine sessions created in one behaviour
  MayLeave,      \* clients whose callback server may disappear
  EarlyRelease,  \* may a client release a session that still has callbacks to come?
  NULL,          \* null pointer
  Absent         \* no registry node under this key

\* The ids CreateSessionId can produce: decimal strings of a counter, represented
\* by the counter because the conversion is injective and only equality is used.
Sid == FirstId .. (FirstId + MaxSessions - 1)

\* A registry key is the id buffer of a session or the freed buffer of a request.
Key == Sid \cup Stray
Actor == Slot \cup {Svc}

ASSUME SessionAssumption ==
  /\ FirstId \in Nat /\ MaxSessions \in Nat /\ MaxHandles \in Nat /\ MaxEngines \in Nat
  /\ Sid \cap Stray = {}
  /\ Svc \notin Slot
  /\ NULL \notin Addr \cup Sid \cup Client
  /\ Absent \notin Addr \cup {NULL}
  /\ MayLeave \subseteq Client
  /\ EarlyRelease \in BOOLEAN

VARIABLES
  mediaKeys,   \* g_pMediaKeys # NULL
  sessionCnt,  \* CMediaKeys::s_sessionCnt
  registry,    \* g_mediaKeySessions: key -> session pointer, NULL or Absent
  object,      \* the memory of the CMediaKeySession objects
  keys,        \* g_keys: NULL while empty, else the session that set it
  engines,     \* session pointers held by g_mediaEngineSessions
  pnum,        \* g_pnum, the callback program number
  cb,          \* doCallback in progress, per actor
  svc,         \* the service thread inside open_cdm_1
  call,        \* the clnt_call each client is blocked in
  handles,     \* CLIENT handles created by doCallback and never destroyed
  up,          \* clients whose callback server is registered
  down,        \* "up", or how the process ended
  creator,     \* history: which client created a session
  updated,     \* history: sessions that were updated
  events       \* history: callbacks delivered to browsers

sessionVars == <<mediaKeys, sessionCnt, registry, object, creator>>
cdmVars == <<keys, updated, engines>>
rpcVars == <<svc, call, pnum>>
netVars == <<handles, up, events>>
vars == <<sessionVars, cdmVars, rpcVars, netVars, cb, down>>

Proc == {"mediakeys", "is_type_supported", "create_session", "load_session",
         "update", "release", "mediaengine"}
Kind == {"message", "ready", "status"}
Record == [pc : {"none", "deref", "connect", "call"}, kind : Kind,
           obj : Addr \cup {NULL}, starter : Sid \cup {NULL},
           id : Sid \cup {NULL}, to : Client \cup {NULL}]
CallbackTable ==
  {f \in [Actor -> Record] : \A t \in Actor : f[t].pc # "none" => f[t].obj \in Addr}
Request == [pc : {"idle", "status", "reply"}, c : Client \cup {NULL}, proc : Proc,
            sid : Sid \cup {NULL}, cr : {"SUCCESS", "S_FALSE", "garbage"}]

IdleCb == [pc |-> "none", kind |-> "message", obj |-> NULL, starter |-> NULL,
           id |-> NULL, to |-> NULL]
IdleSvc == [pc |-> "idle", c |-> NULL, proc |-> "mediakeys", sid |-> NULL, cr |-> "S_FALSE"]

StartCb(kind, a, s) ==
  [pc |-> "deref", kind |-> kind, obj |-> a, starter |-> s, id |-> NULL, to |-> NULL]
Reply(c, proc, sid, cr) == [pc |-> "reply", c |-> c, proc |-> proc, sid |-> sid, cr |-> cr]

Strays == {k \in Stray : registry[k] # Absent}
LiveObjects == {a \in Addr : object[a].live}
FreeSlots == {t \in Slot : cb[t].pc = "none"}
PendingFor(sid) == {t \in Slot : cb[t].pc # "none" /\ cb[t].starter = sid}

Init ==
  /\ mediaKeys = FALSE
  /\ sessionCnt = FirstId
  /\ registry = [k \in Key |-> Absent]
  /\ object = [a \in Addr |-> [live |-> FALSE, sid |-> NULL]]
  /\ keys = NULL
  /\ engines = <<>>
  /\ pnum = NULL
  /\ cb = [t \in Actor |-> IdleCb]
  /\ svc = IdleSvc
  /\ call = [c \in Client |-> "none"]
  /\ handles = 0
  /\ up = Client
  /\ down = "up"
  /\ creator = [s \in Sid |-> NULL]
  /\ updated = {}
  /\ events = {}

\* s_sessionCnt += 1 in CreateSessionId.
NextIdStuck == sessionCnt
NextId == sessionCnt + 1

\* CreateMediaKeySession at the address a; Init cannot fail.
NewSession(a) == [object EXCEPT ![a] = [live |-> TRUE, sid |-> sessionCnt]]

\* GetSessionId of the object at a: freed memory keeps its bytes until reused.
SessionIdLatest(a) == sessionCnt - 1
SessionIdAt(a) == object[a].sid

-----------------------------------------------------------------------------
(* std::map lookups.  While the registry holds a node whose key points into *)
(* a freed request, that key's bytes are arbitrary: they may spell any id,  *)
(* and the tree search may turn the wrong way and miss a node it holds.     *)

Missable(sid) == registry[sid] = Absent \/ Strays # {}

\* The node operator[] returns for a request naming sid; a miss inserts a node
\* whose key is the request's own buffer, which svc_freeargs frees after the reply.
LandsOn(sid, k) ==
  \/ k = sid /\ registry[sid] # Absent
  \/ k \in Strays
  \/ k \in Stray \ Strays /\ Missable(sid)

Looked(k) == [registry EXCEPT ![k] = IF @ = Absent THEN NULL ELSE @]

\* g_mediaKeySessions[sid] = p for a fresh id: a new node, or a stray node whose
\* bytes spell sid (its buffer may even be the block just allocated for the id).
FiledNowhere(sid, a) == {registry}
Filed(sid, a) ==
  {[registry EXCEPT ![sid] = a]}
    \cup {[registry EXCEPT ![k] = a] : k \in Strays}
    \cup {[registry EXCEPT ![k] = Absent, ![sid] = a] : k \in Strays}

\* erase(sid): every node of the range of keys equal to sid.  In a tree that stray keys have
\* disordered the range may take in any other node.  The node found by the lookup is in it:
\* lookup and erase of one handler compare the same bytes.
ErasedNothing(k) == {registry}
Erased(k) ==
  {[j \in Key |-> IF j \in E \cup {k} THEN Absent ELSE registry[j]] :
     E \in SUBSET (IF Strays = {} THEN {} ELSE Key)}

\* pthread_create and pthread_detach; fails when no thread can be created.
SpawnedSwapped(kind, a, s) ==
  IF FreeSlots = {} THEN {cb}
  ELSE {[cb EXCEPT ![t] = StartCb("ready", a, s)] : t \in FreeSlots}
Spawned(kind, a, s) ==
  IF FreeSlots = {} THEN {cb}
  ELSE {[cb EXCEPT ![t] = StartCb(kind, a, s)] : t \in FreeSlots}

-----------------------------------------------------------------------------
(* RPC handlers.  A handler runs on Svc from the dispatch of the request up *)
(* to its reply; only Update blocks in between.                             *)

DispatchUnserialised(c, proc) ==
  /\ down = "up"
  /\ c \in up /\ call[c] = "none"
  /\ call' = [call EXCEPT ![c] = proc]
Dispatch(c, proc) ==
  /\ down = "up" /\ svc.pc = "idle"
  /\ c \in up /\ call[c] = "none"
  /\ call' = [call EXCEPT ![c] = proc]

\* IsTypeSupported has no return statement: any value comes back.
IsTypeSupported(c) ==
  /\ Dispatch(c, "is_type_supported")
  /\ \E cr \in IF mediaKeys THEN {"SUCCESS", "S_FALSE", "garbage"} ELSE {"S_FALSE"} :
       svc' = Reply(c, "is_type_supported", NULL, cr)
  /\ UNCHANGED <<sessionVars, cdmVars, pnum, netVars, cb, down>>

MediaKeys(c) ==
  /\ Dispatch(c, "mediakeys")
  /\ mediaKeys' = TRUE
  /\ svc' = Reply(c, "mediakeys", NULL, "SUCCESS")
  /\ UNCHANGED <<sessionCnt, registry, object, creator, cdmVars, pnum, netVars, cb, down>>

\* The handler takes over the callback program number of every request, even of
\* one it then refuses.
CreateSession(c) ==
  /\ Dispatch(c, "create_session")
  /\ mediaKeys
  /\ sessionCnt \in Sid
  /\ pnum' = c
  /\ \E a \in Addr \ LiveObjects :
       /\ object' = NewSession(a)
       /\ registry' \in Filed(sessionCnt, a)
       /\ cb' \in Spawned("message", a, sessionCnt)
  /\ sessionCnt' = NextId
  /\ creator' = [creator EXCEPT ![sessionCnt] = c]
  /\ svc' = Reply(c, "create_session", sessionCnt, "SUCCESS")
  /\ UNCHANGED <<mediaKeys, cdmVars, netVars, down>>

\* Without media keys only platform_val is written; the session id of the reply
\* is whatever malloc returned, and encoding it may run off the heap.
RefuseSession(c) ==
  /\ Dispatch(c, "create_session")
  /\ ~mediaKeys
  /\ pnum' = c
  /\ svc' = Reply(c, "create_session", NULL, "S_FALSE")
  /\ down' \in {"up", "crash"}
  /\ UNCHANGED <<sessionVars, cdmVars, netVars, cb>>

\* Returns NULL: open_cdm_1 sends no reply and svc_run goes on.
LoadSession(c) ==
  /\ Dispatch(c, "load_session")
  /\ UNCHANGED <<sessionVars, cdmVars, svc, pnum, netVars, cb, down>>

\* ExtractKeysFromJWKSet either refuses the message and leaves g_keys, or swaps in one
\* pair, or ends the process when it reads tokens that are not there.  Update ignores
\* which of the first two it was.
ExtractKeys(s) ==
  /\ keys' \in {keys, s}
  /\ updated' = updated \cup {s}
  /\ down' \in {"up", "crash"}

\* CMediaKeySession::Update on the object at a: keys, then the OnKeyReady thread, then the
\* OnKeyStatusUpdate callback on Svc itself.  No thread, no status update.
UpdateSession(c, sid, a, s) ==
  /\ ExtractKeys(s)
  /\ \/ /\ FreeSlots # {}
        /\ \E t \in FreeSlots :
             cb' = [cb EXCEPT ![t] = StartCb("ready", a, s), ![Svc] = StartCb("status", a, s)]
        /\ svc' = [Reply(c, "update", sid, "SUCCESS") EXCEPT !.pc = "status"]
     \/ /\ FreeSlots = {}
        /\ svc' = Reply(c, "update", sid, "SUCCESS")
        /\ UNCHANGED cb

UpdateFound(c, sid, k) ==
  /\ Dispatch(c, "update")
  /\ LandsOn(sid, k) /\ registry[k] \in Addr
  /\ UpdateSession(c, sid, registry[k], object[registry[k]].sid)
  /\ UNCHANGED <<sessionVars, engines, pnum, netVars>>

UpdateUnknown(c, sid, k) ==
  /\ Dispatch(c, "update")
  /\ LandsOn(sid, k) /\ registry[k] \notin Addr
  /\ registry' = Looked(k)
  /\ svc' = Reply(c, "update", sid, "S_FALSE")
  /\ UNCHANGED <<mediaKeys, sessionCnt, object, creator, cdmVars, pnum, netVars, cb, down>>

\* Close() is empty: the object is freed whatever threads still hold it.
ReleaseFound(c, sid, k) ==
  /\ Dispatch(c, "release")
  /\ EarlyRelease \/ PendingFor(sid) = {}
  /\ LandsOn(sid, k) /\ registry[k] \in Addr
  /\ object' = [object EXCEPT ![registry[k]].live = FALSE]
  /\ registry' \in Erased(k)
  /\ svc' = Reply(c, "release", sid, "SUCCESS")
  /\ UNCHANGED <<mediaKeys, sessionCnt, creator, cdmVars, pnum, netVars, cb, down>>

ReleaseUnknown(c, sid, k) ==
  /\ Dispatch(c, "release")
  /\ LandsOn(sid, k) /\ registry[k] \notin Addr
  /\ registry' = Looked(k)
  /\ svc' = Reply(c, "release", sid, "S_FALSE")
  /\ UNCHANGED <<mediaKeys, sessionCnt, object, creator, cdmVars, pnum, netVars, cb, down>>

\* CreateMediaEngineSession cannot fail, so an unknown session gets an engine
\* session with a null session pointer, and SUCCESS.
MediaEngine(c, sid, k) ==
  /\ Dispatch(c, "mediaengine")
  /\ Len(engines) < MaxEngines
  /\ LandsOn(sid, k)
  /\ registry' = Looked(k)
  /\ engines' = Append(engines, Looked(k)[k])
  /\ svc' = Reply(c, "mediaengine", sid, "SUCCESS")
  /\ UNCHANGED <<mediaKeys, sessionCnt, object, creator, keys, updated, pnum, netVars, cb, down>>

SendReply ==
  /\ down = "up" /\ svc.pc = "reply"
  /\ call' = [call EXCEPT ![svc.c] = "none"]
  /\ svc' = IdleSvc
  /\ UNCHANGED <<sessionVars, cdmVars, pnum, netVars, cb, down>>

-----------------------------------------------------------------------------
(* doCallback, run by a detached thread or by Svc.                          *)

\* m_piCallback->On...() and m_mediaKeySession->GetSessionId(), a virtual call.
\* Freed memory keeps its bytes until reused, so the call crashes or sees them.
CbSession(t) ==
  /\ down = "up" /\ cb[t].pc = "deref"
  /\ LET a == cb[t].obj
     IN \/ /\ cb' = [cb EXCEPT ![t].pc = "connect", ![t].id = SessionIdAt(a)]
           /\ UNCHANGED down
        \/ /\ ~object[a].live
           /\ down' = "crash"
           /\ UNCHANGED cb
  /\ UNCHANGED <<sessionVars, cdmVars, rpcVars, netVars>>

\* clnt_create to the latest program number.  It needs a descriptor and the server, and may
\* fail for reasons of its own (host name, portmapper, timeout); any failure ends the
\* whole process.
CbConnectUnlimited(t) ==
  /\ down = "up" /\ cb[t].pc = "connect"
  /\ \/ /\ pnum \in up
        /\ handles' = handles + 1
        /\ cb' = [cb EXCEPT ![t].pc = "call", ![t].to = pnum]
        /\ UNCHANGED down
     \/ /\ down' = "exit"
        /\ UNCHANGED <<handles, cb>>
  /\ UNCHANGED <<sessionVars, cdmVars, rpcVars, up, events>>
CbConnect(t) ==
  /\ down = "up" /\ cb[t].pc = "connect"
  /\ \/ /\ handles < MaxHandles /\ pnum \in up
        /\ handles' = handles + 1
        /\ cb' = [cb EXCEPT ![t].pc = "call", ![t].to = pnum]
        /\ UNCHANGED down
     \/ /\ down' = "exit"
        /\ UNCHANGED <<handles, cb>>
  /\ UNCHANGED <<sessionVars, cdmVars, rpcVars, up, events>>

\* clnt_call returns: delivered, or given up after TIMEOUT.  Its result is
\* ignored and the handle is not destroyed.
CbFinishForgetsReply(t) ==
  /\ down = "up" /\ cb[t].pc = "call"
  /\ cb' = [cb EXCEPT ![t] = IdleCb]
  /\ UNCHANGED <<sessionVars, cdmVars, rpcVars, netVars, down>>
CbFinishNoTimeout(t) ==
  /\ down = "up" /\ cb[t].pc = "call" /\ cb[t].to \in up
  /\ events' = events \cup {[kind |-> cb[t].kind, sid |-> cb[t].id, to |-> cb[t].to]}
  /\ cb' = [cb EXCEPT ![t] = IdleCb]
  /\ svc' = IF t = Svc THEN [svc EXCEPT !.pc = "reply"] ELSE svc
  /\ UNCHANGED <<sessionVars, cdmVars, call, pnum, handles, up, down>>
CbFinish(t) ==
  /\ down = "up" /\ cb[t].pc = "call"
  /\ \/ /\ cb[t].to \in up
        /\ events' = events \cup {[kind |-> cb[t].kind, sid |-> cb[t].id, to |-> cb[t].to]}
     \/ UNCHANGED events
  /\ cb' = [cb EXCEPT ![t] = IdleCb]
  /\ svc' = IF t = Svc THEN [svc EXCEPT !.pc = "reply"] ELSE svc
  /\ UNCHANGED <<sessionVars, cdmVars, call, pnum, handles, up, down>>

CbStep(t) == CbSession(t) \/ CbConnect(t) \/ CbFinish(t)

\* The client stub gives a call up after TIMEOUT; the service is not told.
GiveUp(c) ==
  /\ down = "up" /\ call[c] # "none"
  /\ call' = [call EXCEPT ![c] = "none"]
  /\ UNCHANGED <<sessionVars, cdmVars, svc, pnum, netVars, cb, down>>

\* A browser ends; the service is not told.
Leave(c) ==
  /\ down = "up" /\ c \in MayLeave \cap up
  /\ up' = up \ {c}
  /\ UNCHANGED <<sessionVars, cdmVars, rpcVars, handles, events, cb, down>>

-----------------------------------------------------------------------------

Handler(c) ==
  \/ IsTypeSupported(c) \/ MediaKeys(c)
  \/ CreateSession(c) \/ RefuseSession(c) \/ LoadSession(c)
  \/ \E sid \in Sid, k \in Key :
       \/ UpdateFound(c, sid, k) \/ UpdateUnknown(c, sid, k)
       \/ ReleaseFound(c, sid, k) \/ ReleaseUnknown(c, sid, k)
       \/ MediaEngine(c, sid, k)

Next ==
  \/ \E c \in Client : Handler(c) \/ GiveUp(c) \/ Leave(c)
  \/ SendReply
  \/ \E t \in Actor : CbStep(t)

\* The kernel schedules every thread, and both clnt_create and clnt_call return
\* within a timeout; nothing makes a client send a
\* request, give one up or leave.
Fairness == WF_vars(SendReply) /\ \A t \in Actor : WF_vars(CbStep(t))

Spec == Init /\ [][Next]_vars /\ Fairness

-----------------------------------------------------------------------------
(* The abstract directory this service implements.                          *)

Open == {object[a].sid : a \in LiveObjects}

Directory == INSTANCE SessionDirectory WITH
  FirstSession <- FirstId,
  LastSession <- FirstId + MaxSessions - 1,
  phase <- [s \in Sid |-> IF s >= sessionCnt THEN "new"
                         ELSE IF s \in Open THEN "open" ELSE "closed"],
  licensed <- updated,
  told <- {[kind |-> e.kind, sid |-> e.sid] : e \in events}

-----------------------------------------------------------------------------
(* Properties.                                                              *)

\* Type invariant of the session side.
TypeOK ==
  /\ mediaKeys \in BOOLEAN
  /\ sessionCnt \in FirstId .. (FirstId + MaxSessions)
  /\ registry \in [Key -> Addr \cup {NULL, Absent}]
  /\ object \in [Addr -> [live : BOOLEAN, sid : Sid \cup {NULL}]]
  /\ keys \in Sid \cup {NULL}
  /\ engines \in Seq(Addr \cup {NULL})
  /\ pnum \in Client \cup {NULL}
  /\ cb \in CallbackTable
  /\ svc \in Request
  /\ call \in [Client -> Proc \cup {"none"}]
  /\ handles \in 0 .. MaxHandles
  /\ up \subseteq Client
  /\ down \in {"up", "exit", "crash"}
  /\ creator \in [Sid -> Client \cup {NULL}]
  /\ updated \subseteq Sid \cup {NULL}
  /\ events \subseteq [kind : Kind, sid : Sid \cup {NULL}, to : Client \cup {NULL}]

\* What the handlers find in the registry is alive and filed once, so Release frees
\* each session at most once and no handler calls into a freed one - whatever
\* requests for unknown sessions have done to the map.
RegistrySound ==
  /\ \A k \in Key : registry[k] \in Addr => object[registry[k]].live
  /\ \A k, l \in Key : registry[k] \in Addr /\ registry[k] = registry[l] => k = l

\* No two live sessions share an id and no id of a live session is issued again.
IdsUnique ==
  /\ \A a \in LiveObjects : object[a].sid \in FirstId .. (sessionCnt - 1)
  /\ \A a, b \in LiveObjects : object[a].sid = object[b].sid => a = b

\* The status callback that Update makes on the service thread itself always runs
\* on a live session, although detached threads of the same session need not.
StatusOnLiveSession == cb[Svc].pc # "none" => object[cb[Svc].obj].live

\* While clients name only sessions they hold (Stray = {}), every live session can be
\* found under its own id.
RegistryExact == \A a \in LiveObjects : registry[object[a].sid] = a

\* A callback thread never looks at a freed session.
CallbackOnLiveSession ==
  \A t \in Slot : cb[t].pc = "deref" => object[cb[t].obj].live

\* A callback is sent under the id of the session that asked for it.
CallbackIdentity ==
  \A t \in Actor : cb[t].pc \in {"connect", "call"} => cb[t].id = cb[t].starter

\* on_ready and on_key_status_update reach a browser only for sessions it updated.
ReadyFollowsUpdate ==
  \A e \in events : e.kind # "message" => e.sid \in updated

\* While clients name only sessions they hold and release a session only when its
\* callbacks are over, threads, registry and memory implement the abstract directory:
\* ids in order and never reused, no event of a closed or never updated session.
ImplementsDirectory == Directory!Spec

\* service.cpp:149: callback_info tells "how to rpc callback into browser": the callbacks
\* of a session go to the browser that created it.
CallbackToCreator ==
  \A e \in events : e.sid \in Sid /\ e.to = creator[e.sid]

\* service.cpp:210 logs "no session found for session id" when Update and Release
\* refuse a request: there is no such session.
NotFoundMeansUnknown ==
  svc.pc = "reply" /\ svc.proc \in {"update", "release"} /\ svc.cr = "S_FALSE"
    => \A a \in LiveObjects : object[a].sid # svc.sid

\* Every request but load_session is answered, or the process is gone: the one handler
\* that blocks, Update, waits for a callback that ends in delivery or timeout.
CallsAnswered ==
  \A c \in Client :
    call[c] \in Proc \ {"load_session"} ~> (call[c] = "none" \/ down # "up")

\* Every callback thread ends.
CallbacksEnd == \A t \in Slot : cb[t].pc # "none" ~> (cb[t].pc = "none" \/ down # "up")

=============================================================================

---------------------- MODULE SessionDirectory_proofs ----------------------
(***************************************************************************)
(* With careful clients the session side implements SessionDirectory.      *)
(***************************************************************************)
EXTENDS MediaKeySessions_proofs

\* What SessionDirectory sees of the state.
Phase(s) == IF s >= sessionCnt THEN "new" ELSE IF s \in Open THEN "open" ELSE "closed"
PhaseMap == [s \in Sid |-> Phase(s)]
Told == {[kind |-> e.kind, sid |-> e.sid] : e \in events}

\* The abstract step of one session.
Abstract(s) ==
  \/ Directory!Open(s) \/ Directory!License(s) \/ Directory!Close(s)
  \/ \E kind \in {"message", "ready", "status"} : Directory!Notify(kind, s)

\* The steps SessionDirectory can see.
VisibleStep ==
  \/ \E c \in Client : CreateSession(c)
  \/ \E c \in Client, sid \in Sid, k \in Key : UpdateFound(c, sid, k) \/ ReleaseFound(c, sid, k)
  \/ \E t \in Actor : CbFinish(t)

\* All others leave the counter, the objects, the updates and the events alone.
LEMMA VisibleSteps ==
  ASSUME [Next]_vars
  PROVE  VisibleStep \/ UNCHANGED <<sessionCnt, object, updated, events>>
  <1> DEFINE Invisible == UNCHANGED <<sessionCnt, object, updated, events>>
  <1>1. ASSUME NEW c \in Client, Handler(c) PROVE VisibleStep \/ Invisible
    <2>1. CASE IsTypeSupported(c) \/ MediaKeys(c) \/ RefuseSession(c) \/ LoadSession(c)
      BY <2>1 DEF IsTypeSupported, MediaKeys, RefuseSession, LoadSession, sessionVars, cdmVars, netVars
    <2>2. ASSUME NEW sid \in Sid, NEW k \in Key,
                 UpdateUnknown(c, sid, k) \/ ReleaseUnknown(c, sid, k) \/ MediaEngine(c, sid, k)
          PROVE  Invisible
      BY <2>2 DEF UpdateUnknown, ReleaseUnknown, MediaEngine, cdmVars, netVars
    <2> QED BY <1>1, <2>1, <2>2 DEF Handler, VisibleStep
  <1>2. ASSUME NEW c \in Client, GiveUp(c) \/ Leave(c) PROVE Invisible
    BY <1>2 DEF GiveUp, Leave, sessionVars, cdmVars, netVars
  <1>3. CASE SendReply
    BY <1>3 DEF SendReply, sessionVars, cdmVars, netVars
  <1>4. ASSUME NEW t \in Actor, CbSession(t) \/ CbConnect(t) PROVE Invisible
    BY <1>4 DEF CbSession, CbConnect, sessionVars, cdmVars, netVars
  <1>5. CASE UNCHANGED vars
    BY <1>5 DEF vars, sessionVars, cdmVars, netVars
  <1> QED BY <1>1, <1>2, <1>3, <1>4, <1>5 DEF Next, CbStep, VisibleStep

\* A session is open while one of the live objects has its id.
LEMMA OpenSession ==
  ASSUME SessionInv, NEW a \in Addr, object[a].live
  PROVE  /\ object[a].sid \in Sid /\ object[a].sid < sessionCnt /\ object[a].sid \in Open
         /\ PhaseMap[object[a].sid] = "open"
  <1>1. /\ sessionCnt \in FirstId .. (FirstId + MaxSessions)
        /\ object[a].sid \in FirstId .. (sessionCnt - 1)
    BY DEF SessionInv, TypeOK, IdsUnique, LiveObjects
  <1>2. object[a].sid \in Sid /\ object[a].sid < sessionCnt /\ ~(object[a].sid >= sessionCnt)
    BY <1>1, ConstantsTyped DEF Sid
  <1>3. object[a].sid \in Open
    BY DEF Open, LiveObjects
  <1> QED BY <1>2, <1>3 DEF PhaseMap, Phase

\* A new session takes the id after the last one.
LEMMA CreateOpens ==
  ASSUME SessionInv, NEW c \in Client, CreateSession(c)
  PROVE  \E s \in Sid : Directory!Open(s)
  <1>0. object \in [Addr -> [live : BOOLEAN, sid : Sid \cup {NULL}]]
    BY DEF SessionInv, TypeOK
  <1>1. PICK a \in Addr \ LiveObjects : object' = [object EXCEPT ![a] = [live |-> TRUE, sid |-> sessionCnt]]
    BY DEF CreateSession, NewSession
  <1>2. sessionCnt \in Sid /\ sessionCnt' = sessionCnt + 1 /\ UNCHANGED <<updated, events>>
    BY DEF CreateSession, NextId, cdmVars, netVars
  <1>3. Open' = Open \cup {sessionCnt}
    <2>1. object'[a] = [live |-> TRUE, sid |-> sessionCnt] /\ \A b \in Addr \ {a} : object'[b] = object[b]
      BY <1>0, <1>1, <1>2
    <2>2. LiveObjects' = LiveObjects \cup {a}
      BY <1>1, <2>1 DEF LiveObjects
    <2> QED BY <2>1, <2>2, <1>1 DEF Open
  <1>4. PICK s \in Sid : s = sessionCnt
    BY <1>2
  <1>5. PhaseMap[s] = "new" /\ \A r \in Sid : r < s => PhaseMap[r] # "new"
    BY <1>4, ConstantsTyped DEF PhaseMap, Phase
  <1>6. PhaseMap' = [PhaseMap EXCEPT ![s] = "open"]
    <2>1. \A r \in Sid \ {s} : Phase(r)' = Phase(r)
      BY <1>2, <1>3, <1>4, ConstantsTyped DEF Phase
    <2>2. PhaseMap'[s] = "open"
      BY <1>2, <1>3, <1>4, ConstantsTyped DEF PhaseMap, Phase
    <2> QED BY <2>1, <2>2 DEF PhaseMap
  <1>7. Directory!Open(s)
    BY <1>2, <1>5, <1>6 DEF Directory!Open, Directory!Session, PhaseMap, Phase, Sid
  <1> QED BY <1>7

\* An update that finds a session licenses it.
LEMMA UpdateLicenses ==
  ASSUME SessionInv, NEW c \in Client, NEW sid \in Sid, NEW k \in Key, UpdateFound(c, sid, k)
  PROVE  \E s \in Sid : Directory!License(s)
  <1>1. /\ registry[k] \in Addr /\ object[registry[k]].live
        /\ UNCHANGED <<sessionCnt, object, events>>
        /\ updated' = updated \cup {object[registry[k]].sid}
    BY DEF UpdateFound, UpdateSession, ExtractKeys, SessionInv, RegistrySound, sessionVars, netVars
  <1>2. object[registry[k]].sid \in Sid /\ PhaseMap[object[registry[k]].sid] = "open"
    BY <1>1, OpenSession
  <1>3. PICK s \in Sid : s = object[registry[k]].sid
    BY <1>2
  <1>4. Directory!License(s)
    BY <1>1, <1>2, <1>3 DEF Directory!License, PhaseMap, Phase, Open, LiveObjects
  <1> QED BY <1>4

\* A release that finds a session closes it and no other.
LEMMA ReleaseCloses ==
  ASSUME SessionInv, NEW c \in Client, NEW sid \in Sid, NEW k \in Key, ReleaseFound(c, sid, k)
  PROVE  \E s \in Sid : Directory!Close(s)
  <1>0. object \in [Addr -> [live : BOOLEAN, sid : Sid \cup {NULL}]]
    BY DEF SessionInv, TypeOK
  <1>1. /\ registry[k] \in Addr /\ object[registry[k]].live
        /\ object' = [object EXCEPT ![registry[k]].live = FALSE]
        /\ UNCHANGED <<sessionCnt, updated, events>>
    BY DEF ReleaseFound, SessionInv, RegistrySound, cdmVars, netVars
  <1>2. PICK a, s : a = registry[k] /\ s = object[a].sid
    OBVIOUS
  <1>3. a \in Addr /\ s \in Sid /\ s < sessionCnt /\ PhaseMap[s] = "open"
    BY <1>1, <1>2, OpenSession
  <1>4. /\ \A b \in Addr : object'[b].sid = object[b].sid
        /\ ~object'[a].live /\ \A b \in Addr \ {a} : object'[b].live = object[b].live
    BY <1>0, <1>1, <1>2
  <1>5. Open' = Open \ {s}
    <2>1. LiveObjects' = LiveObjects \ {a}
      BY <1>4 DEF LiveObjects
    <2>2. \A b \in LiveObjects \ {a} : object[b].sid # s
      BY <1>1, <1>2 DEF SessionInv, IdsUnique, LiveObjects
    <2>3. \A r : r \in Open' <=> \E b \in LiveObjects \ {a} : object[b].sid = r
      BY <1>4, <2>1 DEF Open, LiveObjects
    <2>4. \A r : r \in Open <=> r = s \/ \E b \in LiveObjects \ {a} : object[b].sid = r
      BY <1>1, <1>2 DEF Open, LiveObjects
    <2> QED BY <2>2, <2>3, <2>4
  <1>6. PhaseMap' = [PhaseMap EXCEPT ![s] = "closed"]
    <2>1. \A r \in Sid \ {s} : Phase(r)' = Phase(r)
      BY <1>1, <1>5 DEF Phase
    <2>2. sessionCnt \in Nat
      BY ConstantsTyped DEF SessionInv, TypeOK
    <2>3. PhaseMap'[s] = "closed"
      BY <1>1, <1>3, <1>5, <2>2, ConstantsTyped DEF PhaseMap, Phase
    <2> QED BY <1>3, <2>1, <2>3 DEF PhaseMap
  <1>7. Directory!Close(s)
    BY <1>1, <1>3, <1>6 DEF Directory!Close, PhaseMap, Phase
  <1> QED BY <1>3, <1>7

\* What a browser is told comes from an open session, and of keys from a licensed one.
LEMMA FinishNotifies ==
  ASSUME SessionInv, NEW t \in Actor, CbFinish(t)
  PROVE  (\E s \in Sid, kind \in {"message", "ready", "status"} : Directory!Notify(kind, s))
           \/ UNCHANGED <<sessionCnt, object, updated, events>>
  <1>1. cb[t].pc = "call" /\ UNCHANGED <<sessionCnt, object, updated>>
    BY DEF CbFinish, sessionVars, cdmVars
  <1>2. /\ cb[t].obj \in Addr /\ object[cb[t].obj].live
        /\ cb[t].id = object[cb[t].obj].sid /\ cb[t].kind \in Kind
        /\ cb[t].kind # "message" => cb[t].id \in updated
    BY <1>1 DEF SessionInv, TypeOK, CallbackTable, Record, PendingSound, Pending
  <1>3. cb[t].id \in Sid /\ PhaseMap[cb[t].id] = "open"
    BY <1>2, OpenSession
  <1>4. CASE events' = events \cup {[kind |-> cb[t].kind, sid |-> cb[t].id, to |-> cb[t].to]}
    <2>1. PICK s \in Sid, kind \in {"message", "ready", "status"} : s = cb[t].id /\ kind = cb[t].kind
      BY <1>2, <1>3 DEF Kind
    <2>e. PICK e : e = [kind |-> cb[t].kind, sid |-> cb[t].id, to |-> cb[t].to]
      OBVIOUS
    <2>2. events' = events \cup {e} /\ e.kind = kind /\ e.sid = s
      BY <1>4, <2>1, <2>e
    <2>3. Told' = Told \cup {[kind |-> kind, sid |-> s]}
      <3>1. \A x : x \in Told' <=> \E d \in events \cup {e} : x = [kind |-> d.kind, sid |-> d.sid]
        BY <2>2 DEF Told
      <3>2. \A x : x \in Told <=> \E d \in events : x = [kind |-> d.kind, sid |-> d.sid]
        BY DEF Told
      <3> QED BY <2>2, <3>1, <3>2
    <2>4. UNCHANGED PhaseMap
      BY <1>1 DEF PhaseMap, Phase, Open, LiveObjects
    <2>5. Directory!Notify(kind, s)
      BY <1>1, <1>2, <1>3, <2>1, <2>3, <2>4 DEF Directory!Notify, PhaseMap, Phase, Told
    <2> QED BY <2>5
  <1>5. CASE UNCHANGED events
    BY <1>1, <1>5
  <1> QED BY <1>4, <1>5 DEF CbFinish

\* Initially all sessions are new.
LEMMA InitDirectory == Init => Directory!Init
  <1> SUFFICES ASSUME Init PROVE Directory!Init
    OBVIOUS
  <1>1. \A s \in Sid : s >= sessionCnt
    BY ConstantsTyped DEF Init, Sid
  <1> QED BY <1>1 DEF Init, Directory!Init, Directory!Session, Sid

\* While clients name only sessions they hold and release a session only when its callbacks
\* are over, registry, threads and memory implement the directory, for any number of
\* browsers, sessions, threads and addresses.
THEOREM SessionsImplementDirectory == Careful => (Spec => ImplementsDirectory)
  <1> SUFFICES ASSUME Careful PROVE Spec => ImplementsDirectory
    OBVIOUS
  <1>1. SessionInv /\ [Next]_vars => [Directory!Next]_(Directory!vars)
    <2> SUFFICES ASSUME SessionInv, [Next]_vars
                 PROVE  (\E s \in Sid : Abstract(s)) \/ UNCHANGED Directory!vars
      BY DEF Directory!Next, Directory!Session, Abstract, Sid
    <2>1. CASE UNCHANGED <<sessionCnt, object, updated, events>>
      BY <2>1 DEF Directory!vars, Open, LiveObjects
    <2>2. ASSUME NEW c \in Client, CreateSession(c) PROVE \E s \in Sid : Abstract(s)
      BY <2>2, CreateOpens DEF Abstract
    <2>3. ASSUME NEW c \in Client, NEW sid \in Sid, NEW k \in Key, UpdateFound(c, sid, k) \/ ReleaseFound(c, sid, k)
          PROVE  \E s \in Sid : Abstract(s)
      BY <2>3, UpdateLicenses, ReleaseCloses DEF Abstract
    <2>4. ASSUME NEW t \in Actor, CbFinish(t)
          PROVE  (\E s \in Sid : Abstract(s)) \/ UNCHANGED Directory!vars
      BY <2>1, <2>4, FinishNotifies DEF Abstract
    <2> QED BY <2>1, <2>2, <2>3, <2>4, VisibleSteps DEF VisibleStep
  <1> QED BY <1>1, InitDirectory, SessionInvariant, PTL DEF Spec, ImplementsDirectory, Directory!Spec

=============================================================================

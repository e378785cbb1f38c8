-------------------------- MODULE SessionDirectory --------------------------
(***************************************************************************)
(* What the session service promises its browsers: a directory of sessions *)
(* that are opened once, may be licensed while open, and report to their   *)
(* browser only while open - key events only once licensed.  No registry,  *)
(* no threads, no memory.  MediaKeySessions is shown to implement it.      *)
(***************************************************************************)
EXTENDS Naturals

CONSTANTS FirstSession, LastSession

Session == FirstSession .. LastSession

VARIABLES
  phase,     \* "new", "open" or "closed" for each session
  licensed,  \* sessions that were updated
  told       \* what browsers have been told: kind of event and session

vars == <<phase, licensed, told>>

Init ==
  /\ phase = [s \in Session |-> "new"]
  /\ licensed = {}
  /\ told = {}

\* Session ids are handed out in order and never again.
Open(s) ==
  /\ phase[s] = "new"
  /\ \A r \in Session : r < s => phase[r] # "new"
  /\ phase' = [phase EXCEPT ![s] = "open"]
  /\ UNCHANGED <<licensed, told>>

License(s) ==
  /\ phase[s] = "open"
  /\ licensed' = licensed \cup {s}
  /\ UNCHANGED <<phase, told>>

Notify(kind, s) ==
  /\ phase[s] = "open"
  /\ kind \in {"ready", "status"} => s \in licensed
  /\ told' = told \cup {[kind |-> kind, sid |-> s]}
  /\ UNCHANGED <<phase, licensed>>

Close(s) ==
  /\ phase[s] = "open"
  /\ phase' = [phase EXCEPT ![s] = "closed"]
  /\ UNCHANGED <<licensed, told>>

Next == \E s \in Session :
  \/ Open(s) \/ License(s) \/ Close(s)
  \/ \E kind \in {"message", "ready", "status"} : Notify(kind, s)

Spec == Init /\ [][Next]_vars

=============================================================================

---------------------------- MODULE SampleChannel ----------------------------
(***************************************************************************)
(* What a media engine session promises its client: each sample submitted  *)
(* is answered once, in order, in the client's own buffer, with an outcome *)
(* of that very sample; after the end marker there is one last answer.     *)
(* No semaphores, no threads, no heap.  DecryptShmem is shown to implement *)
(* it.                                                                     *)
(***************************************************************************)
EXTENDS Naturals

CONSTANTS Worker, NULL

VARIABLES
  phase,  \* "owned" by the client, "submitted", "answered", "ending", "over" or "gone"
  count,  \* samples and end markers submitted so far
  buffer  \* what the sample buffer holds: which sample, in which form

vars == <<phase, count, buffer>>

Init ==
  /\ phase = [w \in Worker |-> "owned"]
  /\ count = [w \in Worker |-> 0]
  /\ buffer = [w \in Worker |-> [of |-> NULL, n |-> 0, form |-> "junk"]]

Submit(w) ==
  /\ phase[w] = "owned"
  /\ phase' = [phase EXCEPT ![w] = "submitted"]
  /\ count' = [count EXCEPT ![w] = @ + 1]
  /\ buffer' = [buffer EXCEPT ![w] = [of |-> w, n |-> count[w] + 1, form |-> "cipher"]]

Answer(w) ==
  /\ phase[w] = "submitted"
  /\ phase' = [phase EXCEPT ![w] = "answered"]
  /\ \E f \in {"clear", "garbled"} :
       buffer' = [buffer EXCEPT ![w] = [of |-> w, n |-> count[w], form |-> f]]
  /\ UNCHANGED count

Take(w) ==
  /\ phase[w] = "answered"
  /\ phase' = [phase EXCEPT ![w] = "owned"]
  /\ UNCHANGED <<count, buffer>>

SubmitEnd(w) ==
  /\ phase[w] = "owned"
  /\ phase' = [phase EXCEPT ![w] = "ending"]
  /\ count' = [count EXCEPT ![w] = @ + 1]
  /\ UNCHANGED buffer

AnswerEnd(w) ==
  /\ phase[w] = "ending"
  /\ phase' = [phase EXCEPT ![w] = "over"]
  /\ UNCHANGED <<count, buffer>>

TakeEnd(w) ==
  /\ phase[w] = "over"
  /\ phase' = [phase EXCEPT ![w] = "gone"]
  /\ UNCHANGED <<count, buffer>>

Next == \E w \in Worker :
  \/ Submit(w) \/ Answer(w) \/ Take(w)
  \/ SubmitEnd(w) \/ AnswerEnd(w) \/ TakeEnd(w)

Spec == Init /\ [][Next]_vars

=============================================================================

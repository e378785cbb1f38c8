------------------------------ MODULE JsmnDump ------------------------------
(***************************************************************************)
(* dump of example/jsondump.c: the walk over the flat token array that      *)
(* follows the sizes.  What is printed on the way is left out.              *)
(***************************************************************************)
EXTENDS JsmnCallers

VARIABLES
  at,      \* the next token to dump, t + 1 + j in the innermost call; 0: behind those in use
  stack    \* the calls that dump the values of a container, and main at the bottom

walkVars == <<at, stack>>

\* tok: the token the call is about; left: the values still to dump; count: its parameter
Frame(tok, left, n) == [tok |-> tok, left |-> left, count |-> n]

Walking == stack # <<>>
Top == stack[Len(stack)]

ValuesInHalf(t) == t.size
\* A member of an object is two values.
ValuesIn(t) == IF t.type = "object" THEN 2 * t.size ELSE t.size

\* count - j: what dump passes on; the container itself is not taken off.
Remaining == Top.count - (at - Top.tok - 1)

\* The next call of dump in a container, with a token to look at or without.
Calls == Walking /\ at # 0 /\ Top.left > 0
Ticked == [stack EXCEPT ![Len(stack)].left = @ - 1]

DumpNothing ==
  /\ Calls /\ Remaining = 0
  /\ stack' = Ticked /\ UNCHANGED at

DumpLeaf ==
  /\ Calls /\ Remaining # 0 /\ at \in DOMAIN tokens /\ Leaf(tokens[at])
  /\ at' = at + 1 /\ stack' = Ticked

DumpContainer ==
  /\ Calls /\ Remaining # 0 /\ at \in DOMAIN tokens /\ ~Leaf(tokens[at])
  /\ at' = at + 1
  /\ stack' = Append(Ticked, Frame(at, ValuesIn(tokens[at]), Remaining))

\* A token behind the ones in use holds anything, if it is there at all: the process ends, or
\* the walk does.
DumpUnwritten ==
  /\ Calls /\ Remaining # 0 /\ at \notin DOMAIN tokens
  /\ at' = 0 /\ stack' \in {stack, <<>>}

DumpReturn ==
  /\ Walking /\ at # 0 /\ Top.left = 0
  /\ stack' = SubSeq(stack, 1, Len(stack) - 1) /\ UNCHANGED at

\* The process ended in DumpUnwritten.
Crashed == Walking /\ at = 0

WalkStep == DumpNothing \/ DumpLeaf \/ DumpContainer \/ DumpUnwritten \/ DumpReturn

WalkInit == at = 1 /\ stack = <<>>

\* main calls dump(js, tok, p.toknext, 0).
WalkStart == Dumped /\ at' = 1 /\ stack' = <<Frame(0, 1, Len(tokens))>>

DumpInit == CallersInit /\ WalkInit

DumpNext ==
  \/ ~Walking /\ WalkStart
  \/ ~Walking /\ NoDump /\ UNCHANGED walkVars
  \/ WalkStep /\ UNCHANGED <<jsmnVars, callerVars>>

Dumping == DumpInit /\ [][DumpNext]_<<jsmnVars, callerVars, walkVars>>

-----------------------------------------------------------------------------
(* Property.                                                                *)

BehindColon(text, toks, k) == Preceded(text, Begin(toks[k]), {":"})
Holder(toks, k) == LastOf(Around(toks, Begin(toks[k])))
IsName(text, toks, k) ==
  /\ k \in DOMAIN toks /\ Holder(toks, k) \in DOMAIN toks
  /\ toks[Holder(toks, k)].type = "object" /\ ~BehindColon(text, toks, k)

\* In objects, and nowhere else, strings have a value behind a colon.  The tokenizer does not
\* ask for it.
Paired(text, toks) ==
  \A k \in DOMAIN toks :
    /\ IsName(text, toks, k) =>
         /\ toks[k].type = "string" /\ k + 1 \in DOMAIN toks
         /\ BehindColon(text, toks, k + 1) /\ Holder(toks, k + 1) = Holder(toks, k)
    /\ BehindColon(text, toks, k) => IsName(text, toks, k - 1)

\* The walk of dump reads only tokens that are in use and comes to the last one, though it
\* passes on a count that is one too large (jsondump.c:28).
DumpWalksAll ==
  program = "jsondump" /\ Succeeded /\ IsJson(doc) /\ ~CutsPrimitive /\ Paired(doc.text, doc.toks) =>
    IF Walking THEN Top.left > 0 => at \in DOMAIN tokens ELSE at = Len(tokens) + 1

=============================================================================

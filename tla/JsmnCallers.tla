---------------------------- MODULE JsmnCallers ----------------------------
(***************************************************************************)
(* Two programs that call the tokenizer on a document:                     *)
(*                                                                         *)
(*   "jsondump"  example/jsondump.c: reads its input in chunks, calls      *)
(*               jsmn_parse after each of them, doubles the token array    *)
(*               whenever it is too small and calls again, and walks the   *)
(*               tokens once a call succeeds (the walk is module JsmnDump); *)
(*   "count"     test_count of jsmn_test.c: one call without tokens, of    *)
(*               the strict build.                                         *)
(*                                                                         *)
(* The service's own caller is module JsonWebKey.                          *)
(***************************************************************************)
EXTENDS JsonText

CONSTANTS
  Documents,   \* records [text, toks]: a text and its tokens, none if it is not JSON
  BufSizes     \* values of BUFSIZ

ASSUME DocumentsAssumption ==
  \A d \in Documents : d.text \in Seq(Char) /\ (d.toks # <<>> => Tokenized(d.text, d.toks))
ASSUME BufSizesAssumption == BufSizes \subseteq Nat \ {0}

VARIABLES
  program,
  doc,
  bufsiz,
  rest,        \* what is still to be read from stdin
  step,        \* "read", "call" while jsmn_parse runs, "exit"
  eofExpected,
  exit         \* exit status

callerVars == <<program, doc, bufsiz, rest, step, eofExpected, exit>>

IsJson(d) == d.toks # <<>>

CallersInit ==
  /\ Init
  /\ program \in {"jsondump", "count"} /\ strict = (program = "count")
  /\ doc \in Documents
  /\ bufsiz \in IF program = "jsondump" THEN BufSizes ELSE {1}
  /\ rest = doc.text
  /\ step = "read" /\ eofExpected = FALSE /\ exit = 0

-----------------------------------------------------------------------------
(* jsondump                                                                 *)

Tokcount == IF capacity = 0 THEN 2 ELSE capacity   \* tokcount: two at first

Exit(status) ==
  /\ step' = "exit" /\ exit' = status
  /\ UNCHANGED <<program, doc, bufsiz, rest, eofExpected, jsmnVars>>

KeptNot(text, chunk) == chunk
\* The text so far stays in the buffer.
Kept(text, chunk) == text \o chunk

\* fread fills the buffer unless the input ends; the chunk is appended to js.
ReadChunk ==
  /\ program = "jsondump" /\ step = "read" /\ rest # <<>>
  /\ LET n == IF Len(rest) < bufsiz THEN Len(rest) ELSE bufsiz
     IN /\ js' = Kept(js, SubSeq(rest, 1, n))
        /\ rest' = SubSeq(rest, n + 1, Len(rest))
  /\ Call(Tokcount, TRUE)
  /\ step' = "call"
  /\ UNCHANGED <<pos, toksuper, tokens, program, doc, bufsiz, eofExpected, exit>>

EndOfInput ==
  /\ program = "jsondump" /\ step = "read" /\ rest = <<>>
  /\ Exit(IF eofExpected THEN 0 ELSE 2)

\* realloc for a chunk or for tokens fails.
OutOfMemory ==
  /\ program = "jsondump" /\ pc = "idle"
  /\ \/ step = "read" /\ rest # <<>>
     \/ step = "call" /\ result = NOMEM
  /\ Exit(3)

Returned == program = "jsondump" /\ step = "call" /\ pc = "idle"

GrownNot(n) == n
\* again: twice the tokens for the same parser.
Grown(n) == n * 2
Again ==
  /\ Returned /\ result = NOMEM
  /\ Call(Grown(capacity), TRUE)
  /\ UNCHANGED <<js, pos, toksuper, tokens, callerVars>>

\* Any other error is taken for "more input needed".
ParseFailed ==
  /\ Returned /\ result \in {INVAL, PART}
  /\ step' = "read"
  /\ UNCHANGED <<program, doc, bufsiz, rest, eofExpected, exit, jsmnVars>>

Dumped ==
  /\ Returned /\ result >= 0
  /\ step' = "read" /\ eofExpected' = TRUE
  /\ UNCHANGED <<program, doc, bufsiz, rest, exit, jsmnVars>>

-----------------------------------------------------------------------------
(* test_count                                                               *)

CountTokens ==
  /\ program = "count" /\ step = "read"
  /\ js' = doc.text /\ rest' = <<>>
  /\ InitParser /\ Call(0, FALSE)
  /\ step' = "call"
  /\ UNCHANGED <<program, doc, bufsiz, eofExpected, exit>>

Counts ==
  /\ program = "count" /\ step = "call" /\ pc = "idle"
  /\ Exit(0)

NoDump ==
  \/ ReadChunk \/ EndOfInput \/ OutOfMemory \/ Again \/ ParseFailed
  \/ CountTokens \/ Counts
  \/ step = "call" /\ ParseStep /\ UNCHANGED callerVars

CallersNext == Dumped \/ NoDump

Callers == CallersInit /\ [][CallersNext]_<<jsmnVars, callerVars>>

-----------------------------------------------------------------------------
(* Properties.                                                              *)

\* A chunk of the input ends inside a number, a boolean or null.
CutsPrimitive ==
  \E t \in DOMAIN doc.toks, n \in 1 .. Len(doc.text) :
    /\ doc.toks[t].type = "primitive"
    /\ doc.toks[t].start < n * bufsiz /\ n * bufsiz < doc.toks[t].end

\* jsmn_parse has seen more than white space and reports success.
Succeeded == step = "read" /\ eofExpected /\ result >= 0 /\ tokens # <<>>

\* However the input is cut and however often the token array had to grow, a JSON text is
\* reported complete with exactly its tokens: kinds, bounds and sizes; unless a cut falls
\* into a primitive (jsmn.c:65 takes the end of the text so far for the end of it).
UncutAgrees ==
  program = "jsondump" /\ Succeeded /\ IsJson(doc) /\ ~CutsPrimitive => tokens = doc.toks

\* A JSON text is not taken for a broken or an incomplete one, however it is cut: jsondump
\* reaches the end of its input with status 0, or runs out of memory.
JsonAccepted == step = "exit" /\ IsJson(doc) => exit \in {0, 3}

\* The text ends with a number, a boolean or null.
EndsInPrimitive ==
  \E t \in DOMAIN doc.toks : doc.toks[t].type = "primitive" /\ doc.toks[t].end = Len(doc.text)

\* "the function will return the value of tokens needed" (README.md:145 of jsmn): the count of a
\* call without an array is the number of tokens of a JSON text; unless it ends in a primitive,
\* which the strict build takes for the beginning of one (jsmn.c:60).
CountAgrees ==
  program = "count" /\ step = "exit" /\ IsJson(doc) /\ ~EndsInPrimitive
    => result = Len(doc.toks)

=============================================================================

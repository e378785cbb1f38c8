------------------------- MODULE JsmnCallers_proofs -------------------------
(***************************************************************************)
(* jsondump and the counting test of jsmn: they use the tokenizer as it     *)
(* asks its callers to, and get from it the tokens of every JSON text,      *)
(* however the text is cut and however often the token array has to grow.   *)
(***************************************************************************)
EXTENDS JsmnDump, JsonText_proofs

-----------------------------------------------------------------------------
(* The inductive invariant.                                                 *)

\* What jsondump has read and what is left make up the document.  Unless all of it is read,
\* the buffer was full every time.
ReadSoFar ==
  /\ rest \in Seq(Char) /\ Len(js) + Len(rest) = Len(doc.text)
  /\ \A p \in DOMAIN js : js[p] = doc.text[p]
  /\ \A p \in DOMAIN rest : rest[p] = doc.text[Len(js) + p]
  /\ rest # <<>> => \E n \in Nat : Len(js) = n * bufsiz

Driving ==
  /\ program \in {"jsondump", "count"} /\ doc \in Documents /\ bufsiz \in Nat \ {0}
  /\ strict = (program = "count") /\ step \in {"read", "call", "exit"}
  /\ step # "call" => pc = "idle"
  /\ program = "jsondump" => storing /\ ReadSoFar
  /\ program = "count" =>
       /\ result # NOMEM /\ exit = 0
       /\ step # "read" => ~storing /\ js = doc.text

Called == program = "jsondump" \/ step # "read"

\* How far a program has come with a JSON text.
Reads(d) ==
  /\ Called => Follows(d.text, d.toks)
  /\ Called /\ (program = "jsondump" => ~CutsPrimitive) => Agrees(d.text, d.toks)
  /\ program = "jsondump" /\ step = "read" /\ rest = <<>> => eofExpected
  /\ program = "count" /\ step = "exit" => result = Len(d.toks)
  /\ step = "exit" => exit \in {0, 3}

\* The program gets the tokens of the document, if it is JSON.
Readable == program = "count" => ~EndsInPrimitive

CallersInv == Driving /\ \A d \in Documents : d = doc /\ IsJson(d) /\ Readable => Reads(d)

-----------------------------------------------------------------------------
(* The programs as callers of the tokenizer.                                *)

LEMMA DocumentType ==
  ASSUME NEW d \in Documents
  PROVE  /\ d.text \in Seq(Char) /\ Len(d.text) \in Nat
         /\ IsJson(d) => Tokenized(d.text, d.toks) /\ Len(d.text) >= 1
  <1>1. d.text \in Seq(Char) /\ Len(d.text) \in Nat
    BY DocumentsAssumption
  <1>2. ASSUME IsJson(d) PROVE Tokenized(d.text, d.toks) /\ Len(d.text) >= 1
    <2>1. Tokenized(d.text, d.toks)
      BY <1>2, DocumentsAssumption DEF IsJson
    <2>2. 1 \in DOMAIN d.toks
      BY <2>1, TextTypes
    <2>3. /\ Begin(d.toks[1]) \in Nat /\ Past(d.toks[1]) \in Nat
          /\ Begin(d.toks[1]) < Past(d.toks[1]) /\ Past(d.toks[1]) <= Len(d.text)
      BY <2>1, <2>2, TokenBounds
    <2> QED BY <1>1, <2>1, <2>3
  <1> QED BY <1>1, <1>2

\* A call that only counts never asks for more tokens.
LEMMA CountingFits ==
  ASSUME ParserInv, ParseStep, ~storing, result # NOMEM
  PROVE  result' # NOMEM
  <1>1. ~Full /\ INVAL # NOMEM /\ PART # NOMEM /\ count # NOMEM
    BY InvFacts DEF Full, INVAL, NOMEM, PART
  <1>2. CASE OpenContainer \/ CloseContainer \/ SkipSpace \/ Colon \/ Comma \/ Primitive
    BY <1>1, <1>2 DEF OpenContainer, CloseContainer, SkipSpace, Colon, Comma, Primitive, Return
  <1>3. CASE Finish
    BY <1>1, <1>3 DEF Finish, Return
  <1>4. CASE StartString \/ EndString \/ StringChar \/ StringEscape \/ StringPart
    BY <1>1, <1>4 DEF StartString, EndString, StringChar, StringEscape, StringPart, GiveBack
  <1> QED BY <1>2, <1>3, <1>4 DEF ParseStep

\* The first n elements of sequence b go behind those of a.
Moves(S, a, b, n) ==
  /\ a \o SubSeq(b, 1, n) \in Seq(S)
  /\ Len(a \o SubSeq(b, 1, n)) = Len(a) + n
  /\ \A p \in 1 .. Len(a) : (a \o SubSeq(b, 1, n))[p] = a[p]
  /\ \A p \in 1 .. n : (a \o SubSeq(b, 1, n))[Len(a) + p] = b[p]
  /\ SubSeq(b, n + 1, Len(b)) \in Seq(S) /\ Len(SubSeq(b, n + 1, Len(b))) = Len(b) - n
  /\ \A p \in 1 .. (Len(b) - n) : SubSeq(b, n + 1, Len(b))[p] = b[n + p]

LEMMA ElementsMoved ==
  ASSUME NEW S, NEW a \in Seq(S), NEW b \in Seq(S), NEW n \in 1 .. Len(b)
  PROVE  Moves(S, a, b, n)
  <1>1. Len(a) \in Nat /\ Len(b) \in Nat /\ n \in Nat /\ n <= Len(b)
    OBVIOUS
  <1>2. /\ SubSeq(b, 1, n) \in Seq(S) /\ Len(SubSeq(b, 1, n)) = n
        /\ \A p \in 1 .. n : SubSeq(b, 1, n)[p] = b[p]
    <2>1. \A p \in 1 .. n : b[p] \in S
      BY <1>1
    <2> QED BY <1>1, <2>1
  <1>3. PICK c \in Seq(S) : c = SubSeq(b, 1, n)
    BY <1>2
  <1>4. /\ a \o c \in Seq(S) /\ Len(a \o c) = Len(a) + n
        /\ \A p \in 1 .. Len(a) : (a \o c)[p] = a[p]
        /\ \A p \in 1 .. n : (a \o c)[Len(a) + p] = c[p]
    <2>1. Len(c) = n
      BY <1>2, <1>3
    <2> QED BY <1>1, <2>1
  <1>5. /\ SubSeq(b, n + 1, Len(b)) \in Seq(S) /\ Len(SubSeq(b, n + 1, Len(b))) = Len(b) - n
        /\ \A p \in 1 .. (Len(b) - n) : SubSeq(b, n + 1, Len(b))[p] = b[n + p]
    <2>1. \A p \in (n + 1) .. Len(b) : b[p] \in S
      BY <1>1
    <2> QED BY <1>1, <2>1
  <1> QED BY <1>2, <1>3, <1>4, <1>5 DEF Moves

\* One chunk moves from what is left to what is read.
LEMMA ChunkRead ==
  ASSUME ParserInv, Driving, ReadChunk
  PROVE  /\ js' \in Seq(Char) /\ Len(js) <= Len(js') /\ SubSeq(js', 1, Len(js)) = js
         /\ ReadSoFar'
  <1>1. /\ rest # <<>> /\ js \in Seq(Char) /\ rest \in Seq(Char) /\ Len(js) \in Nat /\ Len(rest) \in Nat
        /\ Len(js) + Len(rest) = Len(doc.text) /\ bufsiz \in Nat \ {0}
        /\ \A p \in DOMAIN js : js[p] = doc.text[p]
        /\ \A p \in DOMAIN rest : rest[p] = doc.text[Len(js) + p]
        /\ UNCHANGED <<doc, bufsiz>> /\ Len(rest) # 0
    BY InvFacts DEF ReadChunk, Driving, ReadSoFar
  <1>2. PICK n : n = IF Len(rest) < bufsiz THEN Len(rest) ELSE bufsiz
    OBVIOUS
  <1>3. n \in 1 .. Len(rest) /\ (n = Len(rest) \/ n = bufsiz)
    BY <1>1, <1>2
  <1>4. js' = js \o SubSeq(rest, 1, n) /\ rest' = SubSeq(rest, n + 1, Len(rest))
    BY <1>2 DEF ReadChunk, Kept
  <1>5. /\ js' \in Seq(Char) /\ Len(js') = Len(js) + n
        /\ \A p \in 1 .. Len(js) : js'[p] = js[p]
        /\ \A p \in 1 .. n : js'[Len(js) + p] = rest[p]
        /\ rest' \in Seq(Char) /\ Len(rest') = Len(rest) - n
        /\ \A p \in 1 .. (Len(rest) - n) : rest'[p] = rest[n + p]
    <2>1. Moves(Char, js, rest, n)
      BY <1>1, <1>3, ElementsMoved
    <2> QED BY <1>4, <2>1 DEF Moves
  <1>8. /\ js' \in Seq(Char) /\ Len(js') = Len(js) + n
        /\ \A p \in 1 .. Len(js) : js'[p] = js[p]
        /\ \A p \in 1 .. n : js'[Len(js) + p] = rest[p]
    BY <1>5
  <1>9. /\ rest' \in Seq(Char) /\ Len(rest') = Len(rest) - n
        /\ \A p \in 1 .. Len(rest') : rest'[p] = rest[n + p]
    BY <1>5
  <1>10. Len(js) <= Len(js') /\ SubSeq(js', 1, Len(js)) = js
    BY <1>1, <1>3, <1>8
  <1>11. \A p \in DOMAIN js' : js'[p] = doc.text[p]
    <2> TAKE p \in DOMAIN js'
    <2>0. p \in 1 .. (Len(js) + n)
      BY <1>8
    <2>1. CASE p <= Len(js)
      BY <1>1, <1>8, <2>0, <2>1
    <2>2. CASE ~(p <= Len(js))
      <3>1. p - Len(js) \in 1 .. n /\ Len(js) + (p - Len(js)) = p /\ p - Len(js) \in DOMAIN rest
        BY <1>1, <1>3, <2>0, <2>2
      <3>2. /\ js'[Len(js) + (p - Len(js))] = rest[p - Len(js)]
            /\ rest[p - Len(js)] = doc.text[Len(js) + (p - Len(js))]
        BY <1>1, <1>8, <3>1
      <3> QED BY <3>1, <3>2
    <2> QED BY <2>1, <2>2
  <1>12. \A p \in DOMAIN rest' : rest'[p] = doc.text[Len(js') + p]
    <2> TAKE p \in DOMAIN rest'
    <2>1. p \in 1 .. Len(rest') /\ n + p \in DOMAIN rest
      BY <1>1, <1>3, <1>9
    <2>2. rest'[p] = rest[n + p] /\ rest[n + p] = doc.text[Len(js) + (n + p)]
      BY <1>1, <1>9, <2>1
    <2>3. Len(js) + (n + p) = Len(js') + p
      BY <1>1, <1>3, <1>8, <2>1
    <2> QED BY <2>2, <2>3
  <1>13. rest' # <<>> => \E m \in Nat : Len(js') = m * bufsiz
    <2> SUFFICES ASSUME rest' # <<>> PROVE \E m \in Nat : Len(js') = m * bufsiz
      OBVIOUS
    <2>1. Len(rest') # 0
      BY <1>9
    <2>2. n = bufsiz
      BY <1>1, <1>3, <1>9, <2>1
    <2>3. PICK m \in Nat : Len(js) = m * bufsiz
      BY <1>1 DEF Driving, ReadSoFar, ReadChunk
    <2>4. Len(js') = (m + 1) * bufsiz /\ m + 1 \in Nat
      BY <1>1, <1>8, <2>2, <2>3
    <2> QED BY <2>4
  <1>14. Len(js') + Len(rest') = Len(doc.text)
    <2>1. Len(js') + Len(rest') = (Len(js) + n) + (Len(rest) - n)
      BY <1>8, <1>9
    <2>2. n \in Int
      BY <1>3
    <2> QED BY <1>1, <2>1, <2>2
  <1>15. doc' = doc /\ bufsiz' = bufsiz
    BY <1>1
  <1> QED BY <1>8, <1>9, <1>10, <1>11, <1>12, <1>13, <1>14, <1>15 DEF ReadSoFar

LEMMA CallersStep ==
  ASSUME ParserInv, Driving, [CallersNext]_<<jsmnVars, callerVars>>
  PROVE  [ParserNext]_jsmnVars
  <1>1. CASE ReadChunk
    <2>1. /\ js' \in Seq(Char) /\ Len(js) <= Len(js') /\ SubSeq(js', 1, Len(js)) = js
      BY <1>1, ChunkRead
    <2>2. /\ pc = "idle" /\ storing \in BOOLEAN /\ storing = TRUE /\ capacity \in Nat
      BY <1>1, InvFacts DEF ReadChunk, Driving, ParserInv, JsmnTypeOK
    <2>3. Tokcount \in Nat /\ Tokcount >= capacity
      BY <2>2 DEF Tokcount
    <2>4. Call(Tokcount, TRUE) /\ UNCHANGED <<pos, toksuper, tokens>>
      BY <1>1 DEF ReadChunk
    <2>5. capacity' = Tokcount /\ storing' = TRUE
      BY <2>4 DEF Call
    <2>6. Call(capacity', storing')
      BY <2>4, <2>5
    <2>7. Len(js') >= Len(js)
      BY <2>1
    <2>8. Caller
      BY <2>1, <2>2, <2>3, <2>4, <2>5, <2>6, <2>7 DEF Caller
    <2> QED BY <2>8 DEF ParserNext
  <1>2. CASE Again
    <2>1. /\ pc = "idle" /\ storing \in BOOLEAN /\ storing = TRUE /\ capacity \in Nat
          /\ js \in Seq(Char) /\ Len(js) \in Nat
      BY <1>2, InvFacts DEF Again, Returned, Driving, ParserInv, JsmnTypeOK
    <2>2. Call(Grown(capacity), TRUE) /\ UNCHANGED <<js, pos, toksuper, tokens>>
      BY <1>2 DEF Again
    <2>3. capacity' = capacity * 2 /\ storing' = TRUE
      BY <2>2 DEF Call, Grown
    <2>4. Call(capacity', storing')
      BY <2>2, <2>3 DEF Grown
    <2>5. capacity' \in Nat /\ capacity' >= capacity
      BY <2>1, <2>3
    <2>6. js' \in Seq(Char) /\ Len(js') >= Len(js) /\ SubSeq(js', 1, Len(js)) = js
      BY <2>1, <2>2
    <2>7. Caller
      BY <2>1, <2>2, <2>3, <2>4, <2>5, <2>6 DEF Caller
    <2> QED BY <2>7 DEF ParserNext
  <1>3. CASE CountTokens
    <2>1. pc = "idle" /\ js' = doc.text /\ js' \in Seq(Char) /\ InitParser /\ Call(0, FALSE)
      BY <1>3, DocumentType DEF CountTokens, Driving
    <2>2. capacity' = 0 /\ storing' = FALSE
      BY <2>1 DEF Call
    <2>3. Call(capacity', storing') /\ capacity' \in Nat /\ storing' \in BOOLEAN
      BY <2>1, <2>2
    <2>4. Caller
      BY <2>1, <2>3 DEF Caller
    <2> QED BY <2>4 DEF ParserNext
  <1>4. CASE EndOfInput \/ OutOfMemory \/ ParseFailed \/ Dumped \/ Counts
    BY <1>4 DEF EndOfInput, OutOfMemory, ParseFailed, Dumped, Counts, Exit
  <1>5. CASE ParseStep
    BY <1>5 DEF ParserNext
  <1>6. CASE UNCHANGED <<jsmnVars, callerVars>>
    BY <1>6
  <1> QED BY <1>1, <1>2, <1>3, <1>4, <1>5, <1>6 DEF CallersNext, NoDump

\* What is read and what is left do not change between two chunks.
LEMMA SameReadSoFar ==
  ASSUME UNCHANGED <<js, rest, doc, bufsiz>>
  PROVE  ReadSoFar' <=> ReadSoFar
  BY DEF ReadSoFar

LEMMA KeepsDriving ==
  ASSUME ParserInv, Driving, [CallersNext]_<<jsmnVars, callerVars>>
  PROVE  Driving'
  <1>1. CASE ReadChunk
    <2>1. ReadSoFar'
      BY <1>1, ChunkRead
    <2>2. /\ program' = program /\ program = "jsondump" /\ doc' = doc /\ bufsiz' = bufsiz
          /\ step' = "call" /\ storing' = TRUE /\ strict' = strict
      BY <1>1 DEF ReadChunk, Call
    <2> QED BY <2>1, <2>2 DEF Driving
  <1>2. CASE Again
    <2>1. /\ UNCHANGED <<strict, js, rest, doc, bufsiz, program, step>> /\ storing' = TRUE
          /\ step = "call" /\ program = "jsondump"
      BY <1>2 DEF Again, Returned, Call, callerVars
    <2>2. ReadSoFar'
      BY <2>1, SameReadSoFar DEF Driving
    <2> QED BY <2>1, <2>2 DEF Driving
  <1>3. CASE EndOfInput \/ OutOfMemory \/ ParseFailed \/ Dumped
    <2>1. /\ UNCHANGED <<strict, js, rest, doc, bufsiz, program, storing, pc>>
          /\ pc = "idle" /\ program = "jsondump" /\ step' \in {"read", "exit"}
      BY <1>3 DEF EndOfInput, OutOfMemory, ParseFailed, Dumped, Exit, Returned, Driving,
                  jsmnVars, parserVars
    <2>2. ReadSoFar'
      BY <2>1, SameReadSoFar DEF Driving
    <2> QED BY <2>1, <2>2 DEF Driving
  <1>4. CASE CountTokens
    <2>1. /\ program = "count" /\ UNCHANGED <<program, doc, bufsiz, result, exit, strict>> /\ step' = "call"
          /\ storing' = FALSE /\ js' = doc.text
      BY <1>4 DEF CountTokens, Call
    <2> QED BY <2>1 DEF Driving
  <1>5. CASE Counts
    <2>1. /\ program = "count" /\ UNCHANGED <<program, doc, bufsiz, result, strict, js, storing, pc>> /\ exit' = 0
          /\ step' = "exit" /\ step = "call" /\ pc = "idle"
      BY <1>5 DEF Counts, Exit, jsmnVars, parserVars
    <2> QED BY <2>1 DEF Driving
  <1>6. CASE step = "call" /\ ParseStep /\ UNCHANGED callerVars
    <2>1. UNCHANGED <<strict, js, storing>> /\ UNCHANGED <<rest, doc, bufsiz, program, step, exit>> /\ step = "call"
      BY <1>6, StepKeeps DEF callerVars
    <2>2. ReadSoFar' <=> ReadSoFar
      BY <2>1, SameReadSoFar
    <2>3. program = "count" => result' # NOMEM
      BY <1>6, CountingFits DEF Driving
    <2> QED BY <2>1, <2>2, <2>3 DEF Driving
  <1>7. CASE UNCHANGED <<jsmnVars, callerVars>>
    <2>1. UNCHANGED <<strict, js, rest, doc, bufsiz, program, step, pc, storing, result, exit>>
      BY <1>7 DEF jsmnVars, parserVars, callerVars
    <2>2. ReadSoFar' <=> ReadSoFar
      BY <2>1, SameReadSoFar
    <2> QED BY <2>1, <2>2 DEF Driving
  <1> QED BY <1>1, <1>2, <1>3, <1>4, <1>5, <1>6, <1>7 DEF CallersNext, NoDump

-----------------------------------------------------------------------------
(* JSON texts.                                                              *)

\* Less than the number of characters that fill n buffers is less than any of them.
LEMMA NotMoreChunks == ASSUME NEW n \in Nat, NEW b \in Nat \ {0} PROVE n <= n * b
  <1>1. b - 1 \in Nat /\ n * b = n + n * (b - 1)
    OBVIOUS
  <1>2. n * (b - 1) \in Nat
    BY <1>1
  <1> QED BY <1>1, <1>2

\* A chunk that cuts no primitive ends outside of all primitives.
LEMMA CutsNone ==
  ASSUME ParserInv, Driving, program = "jsondump", NEW d \in Documents, d = doc, IsJson(d),
         ~CutsPrimitive
  PROVE  Uncut(d.toks)
  <1>1. SUFFICES ASSUME NEW k \in DOMAIN d.toks, d.toks[k].type = "primitive",
                        Begin(d.toks[k]) < Len(js), Len(js) < Past(d.toks[k])
                 PROVE  FALSE
    BY DEF Uncut
  <1>2. Tokenized(d.text, d.toks) /\ Len(d.text) \in Nat
    BY DocumentType
  <1>3. /\ d.toks[k].start \in Nat /\ d.toks[k].start < Len(js) /\ Len(js) < d.toks[k].end
        /\ d.toks[k].end \in Nat /\ d.toks[k].end <= Len(d.text)
    BY <1>1, <1>2, TokenBounds
  <1>4. /\ rest \in Seq(Char) /\ Len(js) + Len(rest) = Len(d.text) /\ Len(js) \in Nat
        /\ bufsiz \in Nat \ {0}
    BY InvFacts DEF Driving, ReadSoFar
  <1>5. rest # <<>>
    BY <1>2, <1>3, <1>4
  <1>6. PICK n \in Nat : Len(js) = n * bufsiz
    BY <1>5 DEF Driving, ReadSoFar
  <1>7. n <= Len(js) /\ n # 0
    <2>1. n <= n * bufsiz
      BY <1>4, NotMoreChunks
    <2>2. n = 0 => n * bufsiz = 0
      BY <1>4
    <2> QED BY <1>3, <1>4, <1>6, <2>1, <2>2
  <1>8. n \in 1 .. Len(d.text)
    BY <1>2, <1>3, <1>4, <1>7
  <1>9. d.toks[k].start < n * bufsiz /\ n * bufsiz < d.toks[k].end
    BY <1>3, <1>6
  <1> QED BY <1>1, <1>8, <1>9 DEF CutsPrimitive

LEMMA SameCuts == ASSUME UNCHANGED <<doc, bufsiz>> PROVE CutsPrimitive' <=> CutsPrimitive
  BY DEF CutsPrimitive

LEMMA ReadOnText ==
  ASSUME NEW d \in Documents
  PROVE  d = doc /\ Driving /\ js \in Seq(Char) /\ Called => OnText(d.text)
  <1> SUFFICES ASSUME d = doc, Driving, js \in Seq(Char), Called
               PROVE  OnText(d.text)
    OBVIOUS
  <1>1. Len(js) \in Nat /\ DOMAIN js = 1 .. Len(js) /\ d.text \in Seq(Char) /\ Len(d.text) \in Nat
    BY DocumentType
  <1>2. Len(js) <= Len(d.text) /\ \A p \in 1 .. Len(js) : js[p] = d.text[p]
    <2>1. CASE program = "jsondump"
      <3>1. /\ rest \in Seq(Char) /\ Len(js) + Len(rest) = Len(d.text)
            /\ \A p \in DOMAIN js : js[p] = d.text[p]
        BY <2>1 DEF Driving, ReadSoFar
      <3>2. Len(rest) \in Nat /\ Len(js) <= Len(d.text)
        BY <1>1, <3>1
      <3> QED BY <1>1, <3>1, <3>2
    <2>2. CASE program = "count"
      BY <1>1, <2>2 DEF Driving, Called
    <2> QED BY <2>1, <2>2 DEF Driving
  <1>3. ASSUME NEW p \in 0 .. (Len(js) - 1) PROVE js[p + 1] = d.text[p + 1]
    <2>1. p + 1 \in 1 .. Len(js)
      BY <1>1
    <2> QED BY <1>2, <2>1
  <1> QED BY <1>2, <1>3 DEF OnText

LEMMA ReadOnTextNext ==
  ASSUME NEW d \in Documents
  PROVE  d = doc' /\ Driving' /\ js' \in Seq(Char) /\ Called' => OnText(d.text)'
  <1>1. d = doc /\ Driving /\ js \in Seq(Char) /\ Called => OnText(d.text)
    BY ReadOnText
  <1>2. (d = doc /\ Driving /\ js \in Seq(Char) /\ Called => OnText(d.text))'
    BY <1>1, PTL
  <1> QED BY <1>2

LEMMA InitReads ==
  ASSUME CallersInit, NEW d \in Documents, d = doc, IsJson(d)
  PROVE  Reads(d)
  <1>1. Tokenized(d.text, d.toks) /\ d.text \in Seq(Char) /\ Len(d.text) \in Nat /\ Len(d.text) >= 1
    BY DocumentType
  <1>2. rest = d.text /\ step = "read" /\ rest # <<>>
    BY <1>1 DEF CallersInit
  <1>3. /\ js = <<>> /\ pos = 0 /\ toksuper = 0 /\ tokens = <<>> /\ storing = TRUE /\ count = 0
        /\ pc = "idle" /\ result = 0
    BY DEF CallersInit, Init
  <1>4. Len(js) = 0 /\ OnText(d.text)
    BY <1>1, <1>3 DEF OnText
  <1>5. AtStart(d.text)
    BY <1>3, <1>4 DEF AtStart
  <1>6. Follows(d.text, d.toks) /\ Agrees(d.text, d.toks)
    BY <1>1, <1>5, StartFollows
  <1> QED BY <1>2, <1>6 DEF Reads

\* The call goes on with more text or more tokens.
LEMMA ReadsOn ==
  ASSUME ParserInv, ParserInv', Driving, Driving', ReadChunk \/ Again,
         NEW d \in Documents, d = doc, IsJson(d), Reads(d)
  PROVE  Reads(d)'
  <1>1. /\ program = "jsondump" /\ program' = program /\ pc = "idle" /\ pc' = "parse"
        /\ storing /\ storing' /\ UNCHANGED <<pos, toksuper, tokens>> /\ step' = "call"
        /\ UNCHANGED <<doc, bufsiz>>
    BY DEF ReadChunk, Again, Returned, Call, Driving, callerVars
  <1>2. Called /\ Called'
    BY <1>1 DEF Called
  <1>3. js' \in Seq(Char)
    BY DEF ParserInv, JsmnTypeOK
  <1>4. OnText(d.text)'
    BY <1>1, <1>2, <1>3, ReadOnTextNext
  <1>5. Follows(d.text, d.toks) /\ (~CutsPrimitive => Agrees(d.text, d.toks))
    BY <1>1, <1>2 DEF Reads
  <1>6. Follows(d.text, d.toks)' /\ (Agrees(d.text, d.toks) => Agrees(d.text, d.toks)')
    BY <1>1, <1>4, <1>5, GoesOnText
  <1>7. CutsPrimitive' <=> CutsPrimitive
    BY <1>1, SameCuts
  <1> QED BY <1>1, <1>5, <1>6, <1>7 DEF Reads

\* A counting call begins.
LEMMA ReadsCount ==
  ASSUME ParserInv', Driving', CountTokens, Driving,
         NEW d \in Documents, d = doc, IsJson(d)
  PROVE  Reads(d)'
  <1>1. /\ program' = "count" /\ step' = "call" /\ js' = d.text /\ doc' = doc /\ InitParser
        /\ Call(0, FALSE)
    BY DEF CountTokens
  <1>2. /\ pos' = 0 /\ toksuper' = 0 /\ tokens' = <<>> /\ count' = 0 /\ pc' = "parse"
        /\ storing' = FALSE
    BY <1>1 DEF InitParser, Call
  <1>3. js' \in Seq(Char)
    BY DEF ParserInv, JsmnTypeOK
  <1>4. OnText(d.text)'
    BY <1>1, <1>3, ReadOnTextNext DEF Called
  <1>5. AtStart(d.text)'
    BY <1>2, <1>4 DEF AtStart
  <1>6. Follows(d.text, d.toks)' /\ Agrees(d.text, d.toks)'
    BY <1>5, BeginsText, DocumentType
  <1> QED BY <1>1, <1>6 DEF Reads

\* A step of the tokenizer.
LEMMA ReadsStep ==
  ASSUME ParserInv, Driving, step = "call", ParseStep, UNCHANGED callerVars,
         NEW d \in Documents, d = doc, IsJson(d), Readable, Reads(d)
  PROVE  Reads(d)'
  <1>1. UNCHANGED <<doc, bufsiz, program, step>> /\ UNCHANGED <<js, storing>>
    BY StepKeeps DEF callerVars
  <1>2. Tokenized(d.text, d.toks) /\ Called
    BY DocumentType DEF Called
  <1>3. Follows(d.text, d.toks)
    BY <1>2 DEF Reads
  <1>4. Countable(d.text, d.toks)
    <2>1. CASE program # "count"
      BY <2>1 DEF Driving, Countable
    <2>2. CASE program = "count"
      <3>1. ~storing /\ js = d.text
        BY <2>2 DEF Driving
      <3>2. Whole(d.toks)
        BY <1>2, <2>2 DEF Reads, Agrees
      <3>3. ASSUME NEW k \in DOMAIN d.toks, d.toks[k].type = "primitive"
            PROVE  Past(d.toks[k]) # Len(d.text)
        <4>1. d.toks[k].end # Len(d.text)
          BY <2>2, <3>3 DEF Readable, EndsInPrimitive
        <4> QED BY <3>3, <4>1 DEF Past
      <3> QED BY <3>1, <3>2, <3>3 DEF Countable
    <2> QED BY <2>1, <2>2
  <1>5. Follows(d.text, d.toks)'
    BY <1>2, <1>3, <1>4, StepFollows
  <1>6. ASSUME program = "jsondump" => ~CutsPrimitive
        PROVE  Agrees(d.text, d.toks)'
    <2>1. Agrees(d.text, d.toks)
      BY <1>2, <1>6 DEF Reads
    <2>2. Uncut(d.toks)
      <3>1. CASE program = "jsondump"
        BY <1>6, <3>1, CutsNone
      <3>2. CASE program = "count"
        <4>1. Len(js) = Len(d.text) /\ Len(d.text) \in Nat
          BY <3>2, DocumentType DEF Driving
        <4>2. SUFFICES ASSUME NEW k \in DOMAIN d.toks PROVE ~(Len(js) < Past(d.toks[k]))
          BY DEF Uncut
        <4>3. Past(d.toks[k]) \in Nat /\ Past(d.toks[k]) <= Len(d.text)
          BY <1>2, TokenBounds
        <4> QED BY <4>1, <4>3
      <3> QED BY <3>1, <3>2 DEF Driving
    <2> QED BY <1>2, <1>3, <1>4, <2>1, <2>2, StepAgrees
  <1>7. CutsPrimitive' <=> CutsPrimitive
    BY <1>1, SameCuts
  <1>8. step' = "call" /\ program' = program
    BY <1>1
  <1> QED BY <1>5, <1>6, <1>7, <1>8 DEF Reads

\* A call has returned, or the program gives up.
LEMMA ReadsReturn ==
  ASSUME ParserInv, Driving, EndOfInput \/ OutOfMemory \/ ParseFailed \/ Dumped \/ Counts,
         NEW d \in Documents, d = doc, IsJson(d), Reads(d)
  PROVE  Reads(d)'
  <1>1. UNCHANGED <<doc, bufsiz, program, rest, jsmnVars>> /\ pc = "idle"
    BY DEF EndOfInput, OutOfMemory, ParseFailed, Dumped, Counts, Exit, Returned, Driving
  <1>2. Called
    BY DEF Called, EndOfInput, OutOfMemory, ParseFailed, Dumped, Counts, Returned
  <1>3. Follows(d.text, d.toks) /\ Tokenized(d.text, d.toks)
    BY <1>2, DocumentType DEF Reads
  <1>4. /\ CutsPrimitive' <=> CutsPrimitive
        /\ Follows(d.text, d.toks)' <=> Follows(d.text, d.toks)
        /\ Agrees(d.text, d.toks)' <=> Agrees(d.text, d.toks)
    BY <1>1, SameCuts, SameFollows
  <1>5. result # INVAL /\ (result = PART => Len(js) < Len(d.text))
    BY <1>1, <1>3 DEF Follows, Answers
  <1>6. js \in Seq(Char) /\ Len(js) \in Nat /\ Len(d.text) \in Nat
    BY InvFacts, DocumentType
  <1>7. program = "jsondump" /\ step' = "read" /\ rest' = <<>> => eofExpected'
    <2>1. CASE Dumped
      BY <2>1 DEF Dumped
    <2>2. CASE ParseFailed
      <3>1. /\ result \in {INVAL, PART} /\ program = "jsondump" /\ rest' = rest
        BY <2>2 DEF ParseFailed, Returned
      <3>2. Len(js) < Len(d.text)
        BY <1>5, <3>1
      <3>3. rest \in Seq(Char) /\ Len(js) + Len(rest) = Len(d.text)
        BY <3>1 DEF Driving, ReadSoFar
      <3>4. rest # <<>>
        BY <1>6, <3>2, <3>3
      <3> QED BY <3>1, <3>4
    <2>3. CASE EndOfInput \/ OutOfMemory \/ Counts
      BY <2>3 DEF EndOfInput, OutOfMemory, Counts, Exit
    <2> QED BY <2>1, <2>2, <2>3
  <1>8. step' = "exit" => exit' \in {0, 3}
    <2>1. CASE EndOfInput
      <3>1. eofExpected
        BY <2>1 DEF EndOfInput, Reads
      <3> QED BY <2>1, <3>1 DEF EndOfInput, Exit
    <2>2. CASE ~EndOfInput
      BY <2>2 DEF OutOfMemory, ParseFailed, Dumped, Counts, Exit
    <2> QED BY <2>1, <2>2
  <1>9. program = "count" /\ step' = "exit" => result' = Len(d.toks)
    <2> SUFFICES ASSUME program = "count" PROVE result = Len(d.toks)
      BY <1>1 DEF jsmnVars, parserVars
    <2>1. step = "call" /\ ~storing /\ js = d.text /\ result # NOMEM
      BY DEF EndOfInput, OutOfMemory, ParseFailed, Dumped, Counts, Returned, Driving
    <2>2. result \in Nat
      <3>1. ~(Len(js) < Len(d.text))
        BY <1>6, <2>1
      <3>2. result \in Nat \cup {NOMEM, INVAL, PART}
        BY DEF ParserInv, JsmnTypeOK
      <3> QED BY <1>5, <2>1, <3>1, <3>2
    <2>3. Agrees(d.text, d.toks)
      BY <1>2 DEF Reads
    <2>4. result >= 0 /\ Len(js) = Len(d.text)
      BY <2>1, <2>2
    <2> QED BY <1>1, <1>3, <2>1, <2>3, <2>4, TextCounted
  <1> QED BY <1>1, <1>2, <1>4, <1>7, <1>8, <1>9 DEF Reads, Called

LEMMA KeepsReads ==
  ASSUME ParserInv, ParserInv', Driving, Driving', [CallersNext]_<<jsmnVars, callerVars>>,
         NEW d \in Documents, d = doc, IsJson(d), Readable, Reads(d)
  PROVE  Reads(d)'
  <1>1. CASE UNCHANGED <<jsmnVars, callerVars>>
    <2>1. UNCHANGED <<jsmnVars, program, doc, bufsiz, rest, step, eofExpected, exit, result>>
      BY <1>1 DEF jsmnVars, parserVars, callerVars
    <2>2. /\ CutsPrimitive' <=> CutsPrimitive
          /\ Follows(d.text, d.toks)' <=> Follows(d.text, d.toks)
          /\ Agrees(d.text, d.toks)' <=> Agrees(d.text, d.toks)
      BY <2>1, SameCuts, SameFollows
    <2> QED BY <2>1, <2>2 DEF Reads, Called
  <1> QED BY <1>1, ReadsOn, ReadsCount, ReadsStep, ReadsReturn DEF CallersNext, NoDump

LEMMA InitCallers == CallersInit => ParserInv /\ CallersInv
  <1> SUFFICES ASSUME CallersInit PROVE ParserInv /\ CallersInv
    OBVIOUS
  <1>1. ParserInv
    BY InitParserInv DEF CallersInit
  <1>2. Driving
    <2>1. /\ js = <<>> /\ pc = "idle" /\ storing = TRUE /\ result = 0 /\ rest = doc.text
          /\ program \in {"jsondump", "count"} /\ doc \in Documents /\ step = "read"
      BY DEF CallersInit, Init
    <2>2. bufsiz \in Nat \ {0}
      BY BufSizesAssumption DEF CallersInit
    <2>3. Len(js) = 0 /\ DOMAIN js = {} /\ rest \in Seq(Char) /\ Len(rest) \in Nat
      BY <2>1, DocumentType
    <2>4. 0 = 0 * bufsiz /\ 0 \in Nat
      BY <2>2
    <2>5. ReadSoFar
      <3>1. \A p \in DOMAIN rest : Len(js) + p = p
        BY <2>3
      <3>2. \A p \in DOMAIN rest : rest[p] = doc.text[Len(js) + p]
        BY <2>1, <3>1
      <3> QED BY <2>1, <2>3, <2>4, <3>2 DEF ReadSoFar
    <2>6. result # NOMEM
      BY <2>1 DEF NOMEM
    <2>7. strict = (program = "count") /\ exit = 0
      BY DEF CallersInit
    <2> QED BY <2>1, <2>2, <2>5, <2>6, <2>7 DEF Driving
  <1>3. \A d \in Documents : d = doc /\ IsJson(d) => Reads(d)
    BY InitReads
  <1> QED BY <1>1, <1>2, <1>3 DEF CallersInv

LEMMA CallersInvariant == Callers => [](ParserInv /\ CallersInv)
  <1>1. ParserInv /\ CallersInv /\ [CallersNext]_<<jsmnVars, callerVars>> => (ParserInv /\ CallersInv)'
    <2> SUFFICES ASSUME ParserInv, CallersInv, [CallersNext]_<<jsmnVars, callerVars>>
                 PROVE  ParserInv' /\ CallersInv'
      OBVIOUS
    <2>1. Driving
      BY DEF CallersInv
    <2>2. ParserInv'
      BY <2>1, CallersStep, NextParserInv
    <2>3. Driving'
      BY <2>1, KeepsDriving
    <2>4. doc' = doc /\ program' = program
      BY DEF CallersNext, NoDump, ReadChunk, EndOfInput, OutOfMemory, Again, ParseFailed, Dumped,
             CountTokens, Counts, Exit, callerVars
    <2>5. ASSUME NEW d \in Documents, d = doc', IsJson(d), Readable' PROVE Reads(d)'
      <3>1. d = doc /\ Readable /\ Reads(d)
        BY <2>4, <2>5 DEF CallersInv, Readable, EndsInPrimitive
      <3> QED BY <2>1, <2>2, <2>3, <2>5, <3>1, KeepsReads
    <2> QED BY <2>2, <2>3, <2>5 DEF CallersInv
  <1> QED BY <1>1, InitCallers, PTL DEF Callers

-----------------------------------------------------------------------------
(* The walk of dump.                                                        *)

\* The tokens a container holds, from token p on; those of container 0 are in none.
Held(toks, f, p) == {c \in p .. Len(toks) : Holder(toks, c) = f}

Frames == [tok : Nat, left : Nat, count : Nat]

\* Each call in progress still has to dump what its container holds from here on, a call
\* further in is about a later container, and no token is held by a container that is begun
\* and no longer in progress.
WalkedTo(toks, p, s) ==
  /\ p \in 1 .. (Len(toks) + 1) /\ s \in Seq(Frames)
  /\ \A k \in DOMAIN s :
       /\ s[k].tok < p
       /\ s[k].left = Cardinality(Held(toks, s[k].tok, p))
       /\ s[k].count >= Len(toks) - s[k].tok
  /\ \A j, k \in DOMAIN s : j < k => s[j].tok < s[k].tok
  /\ \A c \in p .. Len(toks) : Holder(toks, c) < p => \E k \in DOMAIN s : s[k].tok = Holder(toks, c)

WalkSound(toks) == WalkedTo(toks, at, stack)

LEMMA HolderPlace ==
  ASSUME NEW text, NEW toks, Tokenized(text, toks), NEW k \in DOMAIN toks
  PROVE  /\ Holder(toks, k) \in 0 .. (k - 1)
         /\ Holder(toks, k) = 0 <=> k = 1
         /\ Holder(toks, k) # 0 =>
              /\ Holder(toks, k) \in DOMAIN toks /\ ~Leaf(toks[Holder(toks, k)])
              /\ Begin(toks[Holder(toks, k)]) < Begin(toks[k])
              /\ Begin(toks[k]) < Past(toks[Holder(toks, k)])
         /\ \A j \in DOMAIN toks : Begin(toks[j]) < Begin(toks[k]) /\ Begin(toks[k]) < Past(toks[j])
              => j <= Holder(toks, k)
  <1>1. /\ k \in 1 .. Len(toks) /\ Len(toks) \in Nat /\ DOMAIN toks = 1 .. Len(toks) /\ 1 \in DOMAIN toks
        /\ Begin(toks[k]) \in Nat
    BY TextTypes, TokenBounds
  <1>2. PICK h : h = Holder(toks, k)
    OBVIOUS
  <1>3. PICK A : A = Around(toks, Begin(toks[k]))
    OBVIOUS
  <1>4. /\ A \in SUBSET (1 .. Len(toks)) /\ h \in 0 .. Len(toks) /\ (A = {} => h = 0)
        /\ A # {} => h \in A /\ \A j \in A : j <= h
    BY <1>1, <1>2, <1>3, AroundType DEF Holder
  <1>5. \A j : j \in A <=> j \in DOMAIN toks /\ Begin(toks[j]) < Begin(toks[k]) /\ Begin(toks[k]) < Past(toks[j])
    BY <1>3 DEF Around
  <1>6. ASSUME NEW j \in A PROVE j < k /\ ~Leaf(toks[j])
    <2>1. /\ j \in DOMAIN toks /\ Begin(toks[j]) < Begin(toks[k]) /\ Begin(toks[k]) < Past(toks[j])
          /\ j \in 1 .. Len(toks) /\ Begin(toks[j]) \in Nat /\ Past(toks[j]) \in Nat
      BY <1>1, <1>5, TokenBounds
    <2>2. j < k
      <3>1. ~(k < j)
        BY <1>1, <2>1, TokenOrder
      <3> QED BY <1>1, <2>1, <3>1
    <2>3. Past(toks[j]) <= Begin(toks[k]) \/ ~Leaf(toks[j])
      BY <2>1, <2>2, TokenOrder
    <2> QED BY <1>1, <2>1, <2>2, <2>3
  <1>7. k # 1 => 1 \in A
    <2> SUFFICES ASSUME k # 1 PROVE 1 \in A
      OBVIOUS
    <2>1. 1 < k
      BY <1>1
    <2>2. Begin(toks[1]) < Begin(toks[k])
      BY <1>1, <2>1, TokenOrder
    <2>3. Begin(toks[k]) < Past(toks[1])
      BY <1>1, <2>1 DEF Tokenized, Separated
    <2> QED BY <1>1, <1>5, <2>2, <2>3
  <1>8. h \in 0 .. (k - 1) /\ (h = 0 <=> k = 1)
    <2>1. CASE A = {}
      BY <1>1, <1>4, <1>7, <2>1
    <2>2. CASE A # {}
      <3>1. h \in 1 .. Len(toks) /\ h < k
        BY <1>4, <1>6, <2>2
      <3> QED BY <1>1, <3>1
    <2> QED BY <2>1, <2>2
  <1>9. h # 0 => h \in A
    BY <1>4
  <1>10. h # 0 => /\ h \in DOMAIN toks /\ ~Leaf(toks[h])
                  /\ Begin(toks[h]) < Begin(toks[k]) /\ Begin(toks[k]) < Past(toks[h])
    BY <1>5, <1>6, <1>9
  <1>11. \A j \in DOMAIN toks : Begin(toks[j]) < Begin(toks[k]) /\ Begin(toks[k]) < Past(toks[j]) => j <= h
    BY <1>4, <1>5
  <1> QED BY <1>2, <1>8, <1>10, <1>11

\* What lies between a container and a token it holds is held by it or by a later one.
LEMMA HolderLater ==
  ASSUME NEW text, NEW toks, Tokenized(text, toks), NEW c \in DOMAIN toks, NEW p \in DOMAIN toks,
         Holder(toks, c) < p, p <= c
  PROVE  Holder(toks, c) <= Holder(toks, p)
  <1>1. PICK f : f = Holder(toks, c)
    OBVIOUS
  <1>2. /\ f \in 0 .. (c - 1)
        /\ f # 0 => /\ f \in DOMAIN toks /\ Begin(toks[f]) < Begin(toks[c]) /\ Begin(toks[c]) < Past(toks[f])
    BY <1>1, HolderPlace
  <1>3. /\ Holder(toks, p) \in 0 .. (p - 1)
        /\ \A j \in DOMAIN toks : Begin(toks[j]) < Begin(toks[p]) /\ Begin(toks[p]) < Past(toks[j])
             => j <= Holder(toks, p)
    BY HolderPlace
  <1>4. c \in Nat /\ p \in Nat /\ Begin(toks[c]) \in Nat /\ Begin(toks[p]) \in Nat
    BY TextTypes, TokenBounds
  <1>5. CASE f = 0
    BY <1>1, <1>3, <1>5
  <1>6. CASE f # 0
    <2>1. f \in DOMAIN toks /\ Begin(toks[f]) \in Nat /\ Past(toks[f]) \in Nat
      BY <1>2, <1>6, TokenBounds
    <2>2. Begin(toks[f]) < Begin(toks[p])
      BY <1>1, <2>1, TokenOrder
    <2>3. Begin(toks[p]) <= Begin(toks[c])
      <3>1. CASE p = c
        BY <1>4, <3>1
      <3>2. CASE p < c
        BY <1>4, <3>2, TokenOrder
      <3> QED BY <1>4, <3>1, <3>2
    <2>4. Begin(toks[p]) < Past(toks[f])
      BY <1>2, <1>4, <1>6, <2>1, <2>3
    <2> QED BY <1>1, <1>3, <2>1, <2>2, <2>4
  <1> QED BY <1>5, <1>6

LEMMA HeldCount ==
  ASSUME NEW toks, Len(toks) \in Nat, NEW f, NEW p \in Nat
  PROVE  /\ IsFiniteSet(Held(toks, f, p)) /\ Cardinality(Held(toks, f, p)) \in Nat
         /\ Cardinality(Held(toks, f, p)) = 0 <=> Held(toks, f, p) = {}
         /\ p <= Len(toks) =>
              Cardinality(Held(toks, f, p + 1)) =
                Cardinality(Held(toks, f, p)) - (IF Holder(toks, p) = f THEN 1 ELSE 0)
  <1> DEFINE S == Held(toks, f, p)
             T == Held(toks, f, p + 1)
  <1>1. S \in SUBSET (p .. Len(toks))
    BY DEF Held
  <1>2. IsFiniteSet(S) /\ Cardinality(S) \in Nat
    <2>1. IsFiniteSet(p .. Len(toks))
      BY FS_Interval
    <2> QED BY <1>1, <2>1, FS_Subset, FS_CardinalityType
  <1>3. Cardinality(S) = 0 <=> S = {}
    BY <1>2, FS_EmptySet
  <1>4. ASSUME p <= Len(toks)
        PROVE  Cardinality(T) = Cardinality(S) - (IF Holder(toks, p) = f THEN 1 ELSE 0)
    <2>1. \A c : c \in p .. Len(toks) <=> c = p \/ c \in (p + 1) .. Len(toks)
      BY <1>4
    <2>2. p \notin (p + 1) .. Len(toks)
      OBVIOUS
    <2>3. \A c : c \in S <=> c \in p .. Len(toks) /\ Holder(toks, c) = f
      BY DEF Held
    <2>4. \A c : c \in T <=> c \in (p + 1) .. Len(toks) /\ Holder(toks, c) = f
      BY DEF Held
    <2> HIDE DEF S, T
    <2>5. CASE Holder(toks, p) = f
      <3>1. T = S \ {p} /\ p \in S
        BY <2>1, <2>2, <2>3, <2>4, <2>5
      <3>2. Cardinality(S \ {p}) = Cardinality(S) - 1
        BY <1>2, <3>1, FS_RemoveElement
      <3> QED BY <2>5, <3>1, <3>2
    <2>6. CASE Holder(toks, p) # f
      <3>1. T = S
        BY <2>1, <2>2, <2>3, <2>4, <2>6
      <3> QED BY <1>2, <2>6, <3>1
    <2> QED BY <2>5, <2>6
  <1> QED BY <1>2, <1>3, <1>4

\* Everything a container holds stands behind it.
LEMMA HeldBehind ==
  ASSUME NEW text, NEW toks, Tokenized(text, toks), NEW a \in DOMAIN toks
  PROVE  Held(toks, a, a + 1) = {c \in DOMAIN toks : Holder(toks, c) = a}
  <1>1. a \in 1 .. Len(toks) /\ Len(toks) \in Nat /\ DOMAIN toks = 1 .. Len(toks)
    BY TextTypes
  <1>2. ASSUME NEW c \in DOMAIN toks, Holder(toks, c) = a PROVE c \in (a + 1) .. Len(toks)
    <2>1. a \in 0 .. (c - 1)
      BY <1>2, HolderPlace
    <2> QED BY <1>1, <2>1
  <1> QED BY <1>1, <1>2 DEF Held

\* The name of a value is the token before it, in the same object.
LEMMA NameOfValue ==
  ASSUME NEW text, NEW toks, Tokenized(text, toks), Paired(text, toks),
         NEW v \in DOMAIN toks, BehindColon(text, toks, v)
  PROVE  /\ v - 1 \in DOMAIN toks /\ toks[v - 1].type = "string" /\ IsName(text, toks, v - 1)
         /\ Holder(toks, v - 1) = Holder(toks, v)
         /\ Holder(toks, v) \in DOMAIN toks /\ toks[Holder(toks, v)].type = "object"
  <1>1. IsName(text, toks, v - 1) /\ v \in Int
    BY TextTypes DEF Paired
  <1>2. v - 1 \in DOMAIN toks /\ (v - 1) + 1 = v
    BY <1>1 DEF IsName
  <1>3. toks[v - 1].type = "string" /\ Holder(toks, (v - 1) + 1) = Holder(toks, v - 1)
    BY <1>1, <1>2 DEF Paired
  <1> QED BY <1>1, <1>2, <1>3 DEF IsName

\* The size of a container counts what it holds: the values of an array, the names of an object.
LEMMA SizeOfContainer ==
  ASSUME NEW text, NEW toks, Tokenized(text, toks), Paired(text, toks),
         NEW a \in DOMAIN toks, ~Leaf(toks[a])
  PROVE  toks[a].size = Cardinality({c \in DOMAIN toks : Holder(toks, c) = a /\ ~BehindColon(text, toks, c)})
  <1>1. toks[a].size = Cardinality({j \in DOMAIN toks : Parent(text, toks, j) = a})
    BY DEF Tokenized, Sized
  <1>2. ASSUME NEW j \in DOMAIN toks
        PROVE  Parent(text, toks, j) = a <=> Holder(toks, j) = a /\ ~BehindColon(text, toks, j)
    <2>1. CASE BehindColon(text, toks, j)
      <3>1. Parent(text, toks, j) = j - 1
        BY <2>1 DEF Parent, BehindColon
      <3>2. j - 1 \in DOMAIN toks /\ toks[j - 1].type = "string"
        BY <2>1, NameOfValue
      <3>3. j - 1 # a
        BY <3>2 DEF Leaf
      <3> QED BY <2>1, <3>1, <3>3
    <2>2. CASE ~BehindColon(text, toks, j)
      BY <2>2 DEF Parent, BehindColon, Holder
    <2> QED BY <2>1, <2>2
  <1>3. {j \in DOMAIN toks : Parent(text, toks, j) = a}
          = {c \in DOMAIN toks : Holder(toks, c) = a /\ ~BehindColon(text, toks, c)}
    BY <1>2
  <1> QED BY <1>1, <1>3

LEMMA MembersHeld ==
  ASSUME NEW text, NEW toks, Tokenized(text, toks), Paired(text, toks),
         NEW a \in DOMAIN toks, ~Leaf(toks[a])
  PROVE  ValuesIn(toks[a]) = Cardinality(Held(toks, a, a + 1))
  <1> DEFINE C == {c \in DOMAIN toks : Holder(toks, c) = a}
             N == {c \in DOMAIN toks : Holder(toks, c) = a /\ ~BehindColon(text, toks, c)}
             V == {c \in DOMAIN toks : Holder(toks, c) = a /\ BehindColon(text, toks, c)}
  <1>1. Held(toks, a, a + 1) = C /\ toks[a].size = Cardinality(N)
    BY HeldBehind, SizeOfContainer
  <1>2. toks[a].type \in {"object", "array"} /\ "object" # "array"
    BY TokenBounds
  <1>3. CASE toks[a].type = "array"
    <2>1. \A c \in DOMAIN toks : Holder(toks, c) = a => ~BehindColon(text, toks, c)
      BY <1>2, <1>3, NameOfValue
    <2>2. N = C
      BY <2>1
    <2>3. ValuesIn(toks[a]) = toks[a].size
      BY <1>2, <1>3 DEF ValuesIn
    <2> QED BY <1>1, <2>2, <2>3
  <1>4. CASE toks[a].type = "object"
    <2>1. ASSUME NEW c \in N PROVE c + 1 \in V
      <3>1. IsName(text, toks, c)
        BY <1>4 DEF IsName
      <3> QED BY <3>1 DEF Paired
    <2>2. ASSUME NEW v \in V PROVE v - 1 \in N /\ (v - 1) + 1 = v
      <3>1. v - 1 \in DOMAIN toks /\ Holder(toks, v - 1) = a /\ IsName(text, toks, v - 1)
        BY NameOfValue
      <3>2. v \in Int
        BY TextTypes
      <3> QED BY <3>1, <3>2 DEF IsName
    <2>3. IsFiniteSet(N) /\ IsFiniteSet(V) /\ C = N \cup V /\ N \cap V = {}
      <3>1. IsFiniteSet(DOMAIN toks)
        BY TextTypes, FS_Interval
      <3>2. N \in SUBSET DOMAIN toks /\ V \in SUBSET DOMAIN toks
        OBVIOUS
      <3>3. IsFiniteSet(N) /\ IsFiniteSet(V)
        BY <3>1, <3>2, FS_Subset
      <3> QED BY <3>3
    <2>4. \A c \in N : c \in Int
      BY TextTypes
    <2> HIDE DEF N, V, C
    <2>5. Cardinality(V) = Cardinality(N)
      <3> DEFINE next == [c \in N |-> c + 1]
      <3>1. next \in [N -> V]
        BY <2>1
      <3>2. \A b, c \in N : next[b] = next[c] => b = c
        BY <2>4
      <3>3. \A v \in V : \E c \in N : next[c] = v
        BY <2>2
      <3> HIDE DEF next
      <3>4. next \in Bijection(N, V)
        BY <3>1, <3>2, <3>3 DEF Bijection, Injection, Surjection, IsInjective
      <3>5. ExistsBijection(N, V)
        BY <3>4 DEF ExistsBijection
      <3> QED BY <2>3, <3>5, FS_Bijection
    <2>6. Cardinality(N \cup V) = Cardinality(N) + Cardinality(V) - Cardinality(N \cap V)
      BY <2>3, FS_Union
    <2>7. Cardinality(N) \in Nat /\ Cardinality({}) = 0
      BY <2>3, FS_CardinalityType, FS_EmptySet
    <2>8. Cardinality(C) = 2 * Cardinality(N)
      <3>1. Cardinality(C) = Cardinality(N \cup V) /\ Cardinality(N \cap V) = 0
        BY <2>3, <2>7
      <3> QED BY <2>5, <2>6, <2>7, <3>1
    <2>9. ValuesIn(toks[a]) = 2 * toks[a].size
      BY <1>4 DEF ValuesIn
    <2> QED BY <1>1, <2>8, <2>9
  <1> QED BY <1>2, <1>3, <1>4

LEMMA FrameTicks ==
  ASSUME NEW f \in Frames, f.left > 0
  PROVE  LET x == [f EXCEPT !.left = @ - 1]
         IN x \in Frames /\ x.tok = f.tok /\ x.count = f.count /\ x.left = f.left - 1
  <1>1. f.left \in Nat /\ f.tok \in Nat /\ f.count \in Nat
    BY DEF Frames
  <1>2. f.left - 1 \in Nat
    BY <1>1
  <1> QED BY <1>1, <1>2 DEF Frames

\* One value less to dump in the innermost call.
LEMMA TickedStack ==
  ASSUME NEW s \in Seq(Frames), s # <<>>, s[Len(s)].left > 0
  PROVE  LET r == [s EXCEPT ![Len(s)].left = @ - 1]
         IN /\ r \in Seq(Frames) /\ Len(r) = Len(s)
            /\ \A k \in 1 .. Len(s) :
                 /\ r[k].tok = s[k].tok /\ r[k].count = s[k].count
                 /\ r[k].left = s[k].left - (IF k = Len(s) THEN 1 ELSE 0)
  <1> DEFINE n == Len(s)
             x == [s[n] EXCEPT !.left = @ - 1]
  <1>1. n \in 1 .. Len(s) /\ s[n] \in Frames
    OBVIOUS
  <1>2. x \in Frames /\ x.tok = s[n].tok /\ x.count = s[n].count /\ x.left = s[n].left - 1
    BY <1>1, FrameTicks
  <1>3. [s EXCEPT ![n].left = @ - 1] = [s EXCEPT ![n] = x]
    OBVIOUS
  <1>4. \A k \in 1 .. Len(s) : s[k] \in Frames
    OBVIOUS
  <1>5. \A k \in 1 .. Len(s) : s[k].left \in Nat
    BY <1>4 DEF Frames
  <1> HIDE DEF x
  <1>6. PICK r : r = [s EXCEPT ![n] = x]
    OBVIOUS
  <1>7. /\ r \in Seq(Frames) /\ Len(r) = Len(s)
        /\ \A k \in 1 .. Len(s) : r[k] = IF k = n THEN x ELSE s[k]
    BY <1>1, <1>2, <1>6, Replaced
  <1>8. \A k \in 1 .. Len(s) :
          /\ r[k].tok = s[k].tok /\ r[k].count = s[k].count
          /\ r[k].left = s[k].left - (IF k = n THEN 1 ELSE 0)
    <2> TAKE k \in 1 .. Len(s)
    <2>1. CASE k = n
      BY <1>2, <1>7, <2>1
    <2>2. CASE k # n
      BY <1>5, <1>7, <2>2
    <2> QED BY <2>1, <2>2
  <1> QED BY <1>3, <1>6, <1>7, <1>8

LEMMA Appended ==
  ASSUME NEW S, NEW s \in Seq(S), NEW x \in S
  PROVE  /\ Append(s, x) \in Seq(S) /\ Len(Append(s, x)) = Len(s) + 1
         /\ \A k \in 1 .. Len(s) : Append(s, x)[k] = s[k]
         /\ Append(s, x)[Len(s) + 1] = x
  OBVIOUS

LEMMA Popped ==
  ASSUME NEW S, NEW s \in Seq(S), s # <<>>
  PROVE  /\ SubSeq(s, 1, Len(s) - 1) \in Seq(S) /\ Len(SubSeq(s, 1, Len(s) - 1)) = Len(s) - 1
         /\ \A k \in 1 .. (Len(s) - 1) : SubSeq(s, 1, Len(s) - 1)[k] = s[k]
         /\ Len(s) \in Nat /\ Len(s) >= 1
  <1>1. Len(s) \in Nat /\ Len(s) >= 1 /\ \A k \in 1 .. Len(s) : s[k] \in S
    OBVIOUS
  <1>2. PICK n \in Nat : n = Len(s) - 1
    BY <1>1
  <1>3. \A k \in 1 .. n : s[k] \in S
    BY <1>1, <1>2
  <1>4. /\ SubSeq(s, 1, n) \in Seq(S) /\ Len(SubSeq(s, 1, n)) = n
        /\ \A k \in 1 .. n : SubSeq(s, 1, n)[k] = s[k]
    BY <1>1, <1>2, <1>3
  <1> QED BY <1>1, <1>2, <1>4

\* While a call has a value to dump, the next token is one that its container holds.
LEMMA NextHeld ==
  ASSUME NEW text, NEW toks, Tokenized(text, toks), WalkSound(toks), Walking, Top.left > 0
  PROVE  /\ at \in DOMAIN toks /\ Holder(toks, at) = Top.tok
         /\ Remaining >= 1 /\ Remaining >= Len(toks) - at /\ Remaining \in Nat
  <1>1. /\ Len(toks) \in Nat /\ DOMAIN toks = 1 .. Len(toks) /\ at \in 1 .. (Len(toks) + 1)
    BY TextTypes DEF WalkSound, WalkedTo
  <1>2. /\ Len(stack) \in DOMAIN stack /\ stack[Len(stack)] \in Frames /\ DOMAIN stack = 1 .. Len(stack)
        /\ Len(stack) \in Nat /\ Len(stack) >= 1
    BY DEF WalkSound, WalkedTo, Walking
  <1>3. PICK f : f = Top.tok
    OBVIOUS
  <1>4. /\ f \in Nat /\ f < at /\ Top.left = Cardinality(Held(toks, f, at))
        /\ Top.count \in Nat /\ Top.count >= Len(toks) - f
    BY <1>2, <1>3 DEF WalkSound, WalkedTo, Top, Frames
  <1>5. PICK c \in Held(toks, f, at) : TRUE
    <2>1. Held(toks, f, at) # {}
      BY <1>1, <1>4, HeldCount
    <2> QED BY <2>1
  <1>6. c \in at .. Len(toks) /\ Holder(toks, c) = f
    BY <1>5 DEF Held
  <1>7. at \in DOMAIN toks /\ c \in DOMAIN toks /\ at <= c
    BY <1>1, <1>6
  <1>8. f <= Holder(toks, at) /\ Holder(toks, at) \in 0 .. (at - 1)
    BY <1>4, <1>6, <1>7, HolderLater, HolderPlace
  <1>9. Holder(toks, at) = f
    <2>1. PICK k \in DOMAIN stack : stack[k].tok = Holder(toks, at)
      <3>1. at \in at .. Len(toks) /\ Holder(toks, at) < at
        BY <1>1, <1>7, <1>8
      <3> QED BY <3>1 DEF WalkSound, WalkedTo
    <2>2. CASE k = Len(stack)
      BY <1>3, <2>1, <2>2 DEF Top
    <2>3. CASE k # Len(stack)
      <3>1. k < Len(stack)
        BY <1>2, <2>3
      <3>2. stack[k].tok < f
        BY <1>2, <1>3, <3>1 DEF WalkSound, WalkedTo, Top
      <3> QED BY <1>4, <1>8, <2>1, <3>2
    <2> QED BY <2>2, <2>3
  <1>10. Remaining = Top.count - (at - f - 1)
    BY <1>3 DEF Remaining
  <1> QED BY SMTT(30), <1>1, <1>3, <1>4, <1>7, <1>9, <1>10

\* What stack r of s has become once token p is dumped, but for what p itself holds.
OneDumped(toks, p, s, r) ==
  /\ r \in Seq(Frames) /\ Len(r) = Len(s) /\ Len(s) \in Nat
  /\ \A k \in 1 .. Len(s) :
       /\ r[k].tok < p
       /\ r[k].left = Cardinality(Held(toks, r[k].tok, p + 1))
       /\ r[k].count >= Len(toks) - r[k].tok
  /\ \A j, k \in 1 .. Len(s) : j < k => r[j].tok < r[k].tok
  /\ \A c \in (p + 1) .. Len(toks) : Holder(toks, c) < p =>
       \E k \in 1 .. Len(s) : r[k].tok = Holder(toks, c)

\* Token p is dumped for the innermost call.
LEMMA DumpedOne ==
  ASSUME NEW text, NEW toks, Tokenized(text, toks), NEW p, NEW s, WalkedTo(toks, p, s),
         s # <<>>, p \in DOMAIN toks, Holder(toks, p) = s[Len(s)].tok, s[Len(s)].left > 0,
         NEW r, r = [s EXCEPT ![Len(s)].left = @ - 1]
  PROVE  OneDumped(toks, p, s, r)
  <1>1. /\ Len(toks) \in Nat /\ DOMAIN toks = 1 .. Len(toks) /\ p \in 1 .. Len(toks) /\ p \in Nat
        /\ s \in Seq(Frames) /\ Len(s) \in Nat /\ DOMAIN s = 1 .. Len(s) /\ Len(s) \in 1 .. Len(s)
    BY TextTypes DEF WalkedTo
  <1>3. /\ r \in Seq(Frames) /\ Len(r) = Len(s)
        /\ \A k \in 1 .. Len(s) :
             /\ r[k].tok = s[k].tok /\ r[k].count = s[k].count
             /\ r[k].left = s[k].left - (IF k = Len(s) THEN 1 ELSE 0)
    BY <1>1, TickedStack
  <1>4. \A k \in 1 .. Len(s) :
          /\ s[k].tok < p /\ s[k].left = Cardinality(Held(toks, s[k].tok, p))
          /\ s[k].count >= Len(toks) - s[k].tok
    BY <1>1 DEF WalkedTo
  <1>5. \A j, k \in 1 .. Len(s) : j < k => s[j].tok < s[k].tok
    BY <1>1 DEF WalkedTo
  <1>6. \A c \in p .. Len(toks) : Holder(toks, c) < p => \E k \in 1 .. Len(s) : s[k].tok = Holder(toks, c)
    BY <1>1 DEF WalkedTo
  <1>7. \A k \in 1 .. Len(s) : s[k].tok \in Nat
    <2>1. \A k \in 1 .. Len(s) : s[k] \in Frames
      BY <1>1
    <2> QED BY <2>1 DEF Frames
  <1>8. ASSUME NEW k \in 1 .. Len(s)
        PROVE  r[k].left = Cardinality(Held(toks, r[k].tok, p + 1))
    <2>1. k # Len(s) => Holder(toks, p) # s[k].tok
      <3> SUFFICES ASSUME k # Len(s) PROVE Holder(toks, p) # s[k].tok
        OBVIOUS
      <3>0. k \in 1 .. Len(s) /\ Len(s) \in Nat /\ Len(s) \in 1 .. Len(s)
        BY <1>1
      <3>1. k < Len(s)
        BY <3>0
      <3>2. s[k].tok < s[Len(s)].tok
        BY <1>1, <1>5, <3>1
      <3>3. s[k].tok \in Nat /\ s[Len(s)].tok \in Nat
        BY <1>7, <3>0
      <3> QED BY <3>2, <3>3
    <2>2. Cardinality(Held(toks, s[k].tok, p + 1)) =
            Cardinality(Held(toks, s[k].tok, p)) - (IF Holder(toks, p) = s[k].tok THEN 1 ELSE 0)
      BY <1>1, HeldCount
    <2>3. Holder(toks, p) = s[k].tok <=> k = Len(s)
      BY <2>1
    <2> QED BY <1>3, <1>4, <2>2, <2>3
  <1>9. \A c \in (p + 1) .. Len(toks) : Holder(toks, c) < p =>
          \E k \in 1 .. Len(s) : r[k].tok = Holder(toks, c)
    <2>1. \A c \in (p + 1) .. Len(toks) : c \in p .. Len(toks)
      BY <1>1
    <2> QED BY <1>3, <1>6, <2>1
  <1>10. \A k \in 1 .. Len(s) : r[k].tok < p /\ r[k].count >= Len(toks) - r[k].tok
    BY <1>3, <1>4
  <1>11. \A j, k \in 1 .. Len(s) : j < k => r[j].tok < r[k].tok
    BY <1>3, <1>5
  <1> QED BY <1>1, <1>3, <1>8, <1>9, <1>10, <1>11 DEF OneDumped

\* A leaf holds nothing.
LEMMA DumpedLeaf ==
  ASSUME NEW text, NEW toks, Tokenized(text, toks), NEW p, NEW s, WalkedTo(toks, p, s),
         s # <<>>, p \in DOMAIN toks, Holder(toks, p) = s[Len(s)].tok, s[Len(s)].left > 0,
         Leaf(toks[p])
  PROVE  WalkedTo(toks, p + 1, [s EXCEPT ![Len(s)].left = @ - 1])
  <1>1. Len(toks) \in Nat /\ DOMAIN toks = 1 .. Len(toks) /\ p \in 1 .. Len(toks)
    BY TextTypes
  <1>2. PICK r : r = [s EXCEPT ![Len(s)].left = @ - 1]
    OBVIOUS
  <1>0. OneDumped(toks, p, s, r)
    BY <1>2, DumpedOne
  <1>3. /\ r \in Seq(Frames) /\ Len(r) = Len(s) /\ Len(s) \in Nat
        /\ \A k \in 1 .. Len(s) :
             /\ r[k].tok < p
             /\ r[k].left = Cardinality(Held(toks, r[k].tok, p + 1))
             /\ r[k].count >= Len(toks) - r[k].tok
        /\ \A j, k \in 1 .. Len(s) : j < k => r[j].tok < r[k].tok
        /\ \A c \in (p + 1) .. Len(toks) : Holder(toks, c) < p =>
             \E k \in 1 .. Len(s) : r[k].tok = Holder(toks, c)
    BY <1>0 DEF OneDumped
  <1>4. ASSUME NEW c \in (p + 1) .. Len(toks), Holder(toks, c) < p + 1 PROVE Holder(toks, c) < p
    <2>1. c \in DOMAIN toks
      BY <1>1
    <2>2. /\ Holder(toks, c) \in 0 .. (c - 1)
          /\ Holder(toks, c) # 0 => ~Leaf(toks[Holder(toks, c)])
      BY <2>1, HolderPlace
    <2>3. Holder(toks, c) # p
      BY <1>1, <2>2
    <2> QED BY <1>1, <1>4, <2>2, <2>3
  <1>5. DOMAIN r = 1 .. Len(s)
    BY <1>3
  <1>6. \A k \in 1 .. Len(s) : r[k].tok < p + 1
    <2>1. \A k \in 1 .. Len(s) : r[k] \in Frames
      BY <1>3
    <2>2. \A k \in 1 .. Len(s) : r[k].tok \in Nat
      BY <2>1 DEF Frames
    <2> QED BY <1>1, <1>3, <2>2
  <1>7. p + 1 \in 1 .. (Len(toks) + 1)
    BY <1>1
  <1>8. WalkedTo(toks, p + 1, r)
    BY <1>3, <1>4, <1>5, <1>6, <1>7 DEF WalkedTo
  <1> QED BY <1>2, <1>8

\* A container becomes the innermost call.
LEMMA DumpedContainer ==
  ASSUME NEW text, NEW toks, Tokenized(text, toks), Paired(text, toks),
         NEW p, NEW s, WalkedTo(toks, p, s),
         s # <<>>, p \in DOMAIN toks, Holder(toks, p) = s[Len(s)].tok, s[Len(s)].left > 0,
         ~Leaf(toks[p]), NEW n \in Nat, n >= Len(toks) - p
  PROVE  WalkedTo(toks, p + 1,
           Append([s EXCEPT ![Len(s)].left = @ - 1], Frame(p, ValuesIn(toks[p]), n)))
  <1>1. Len(toks) \in Nat /\ DOMAIN toks = 1 .. Len(toks) /\ p \in 1 .. Len(toks)
    BY TextTypes
  <1>2. PICK r : r = [s EXCEPT ![Len(s)].left = @ - 1]
    OBVIOUS
  <1>0. OneDumped(toks, p, s, r)
    BY <1>2, DumpedOne
  <1>3. /\ r \in Seq(Frames) /\ Len(r) = Len(s) /\ Len(s) \in Nat
        /\ \A k \in 1 .. Len(s) :
             /\ r[k].tok < p
             /\ r[k].left = Cardinality(Held(toks, r[k].tok, p + 1))
             /\ r[k].count >= Len(toks) - r[k].tok
        /\ \A j, k \in 1 .. Len(s) : j < k => r[j].tok < r[k].tok
        /\ \A c \in (p + 1) .. Len(toks) : Holder(toks, c) < p =>
             \E k \in 1 .. Len(s) : r[k].tok = Holder(toks, c)
    BY <1>0 DEF OneDumped
  <1>4. PICK x : x = Frame(p, ValuesIn(toks[p]), n)
    OBVIOUS
  <1>5. x \in Frames /\ x.tok = p /\ x.count = n /\ x.left = Cardinality(Held(toks, p, p + 1))
    <2>1. ValuesIn(toks[p]) = Cardinality(Held(toks, p, p + 1))
      BY MembersHeld
    <2>2. Cardinality(Held(toks, p, p + 1)) \in Nat
      BY <1>1, HeldCount
    <2> QED BY <1>1, <1>4, <2>1, <2>2 DEF Frame, Frames
  <1>6. PICK q : q = Append(r, x)
    OBVIOUS
  <1>7. /\ q \in Seq(Frames) /\ Len(q) = Len(s) + 1 /\ DOMAIN q = 1 .. (Len(s) + 1)
        /\ \A k \in 1 .. Len(s) : q[k] = r[k]
        /\ q[Len(s) + 1] = x
    BY <1>3, <1>5, <1>6, Appended
  <1>8. \A k \in 1 .. (Len(s) + 1) : k \in 1 .. Len(s) \/ k = Len(s) + 1
    BY <1>3
  <1>9. \A k \in 1 .. Len(s) : r[k].tok \in Nat
    <2>1. \A k \in 1 .. Len(s) : r[k] \in Frames
      BY <1>3
    <2> QED BY <2>1 DEF Frames
  <1>10. ASSUME NEW k \in DOMAIN q
         PROVE  /\ q[k].tok < p + 1
                /\ q[k].left = Cardinality(Held(toks, q[k].tok, p + 1))
                /\ q[k].count >= Len(toks) - q[k].tok
    <2>1. CASE k \in 1 .. Len(s)
      <3>1. q[k] = r[k] /\ r[k].tok \in Nat /\ p \in Nat
        BY <1>1, <1>7, <1>9, <2>1
      <3>2. /\ r[k].tok < p /\ r[k].left = Cardinality(Held(toks, r[k].tok, p + 1))
            /\ r[k].count >= Len(toks) - r[k].tok
        BY <1>3, <2>1
      <3> QED BY <3>1, <3>2
    <2>2. CASE k = Len(s) + 1
      BY <1>1, <1>5, <1>7, <2>2
    <2> QED BY <1>7, <1>8, <2>1, <2>2
  <1>11. ASSUME NEW j \in DOMAIN q, NEW k \in DOMAIN q, j < k PROVE q[j].tok < q[k].tok
    <2>1. j \in 1 .. Len(s)
      BY <1>3, <1>7, <1>11
    <2>2. CASE k \in 1 .. Len(s)
      BY <1>3, <1>7, <1>11, <2>1, <2>2
    <2>3. CASE k = Len(s) + 1
      BY <1>3, <1>5, <1>7, <2>1, <2>3
    <2> QED BY <1>7, <1>8, <2>2, <2>3
  <1>12. ASSUME NEW c \in (p + 1) .. Len(toks), Holder(toks, c) < p + 1
         PROVE  \E k \in DOMAIN q : q[k].tok = Holder(toks, c)
    <2>1. c \in DOMAIN toks
      BY <1>1
    <2>2. Holder(toks, c) \in 0 .. (c - 1)
      BY <2>1, HolderPlace
    <2>3. CASE Holder(toks, c) = p
      <3>1. Len(s) + 1 \in DOMAIN q
        BY <1>3, <1>7
      <3> QED BY <1>5, <1>7, <2>3, <3>1
    <2>4. CASE Holder(toks, c) # p
      <3>1. Holder(toks, c) < p
        BY <1>1, <1>12, <2>2, <2>4
      <3>2. PICK k \in 1 .. Len(s) : r[k].tok = Holder(toks, c)
        BY <1>3, <3>1
      <3>3. k \in DOMAIN q
        BY <1>3, <1>7
      <3> QED BY <1>7, <3>2, <3>3
    <2> QED BY <2>3, <2>4
  <1>13. p + 1 \in 1 .. (Len(toks) + 1)
    BY <1>1
  <1>14. WalkedTo(toks, p + 1, q)
    BY <1>7, <1>10, <1>11, <1>12, <1>13 DEF WalkedTo
  <1> QED BY <1>2, <1>4, <1>6, <1>14

\* A call that has dumped all values holds nothing any more.
LEMMA DumpedAll ==
  ASSUME NEW text, NEW toks, Tokenized(text, toks), NEW p, NEW s, WalkedTo(toks, p, s),
         s # <<>>, s[Len(s)].left = 0
  PROVE  WalkedTo(toks, p, SubSeq(s, 1, Len(s) - 1))
  <1>1. /\ Len(toks) \in Nat /\ p \in 1 .. (Len(toks) + 1) /\ s \in Seq(Frames)
        /\ DOMAIN s = 1 .. Len(s)
    BY TextTypes DEF WalkedTo
  <1>2. PICK r : r = SubSeq(s, 1, Len(s) - 1)
    OBVIOUS
  <1>3. /\ r \in Seq(Frames) /\ Len(r) = Len(s) - 1 /\ \A k \in 1 .. (Len(s) - 1) : r[k] = s[k]
        /\ Len(s) \in Nat /\ Len(s) >= 1 /\ DOMAIN r = 1 .. (Len(s) - 1)
    BY <1>1, <1>2, Popped
  <1>4. /\ DOMAIN r \subseteq DOMAIN s /\ Len(s) \in DOMAIN s
        /\ \A k \in DOMAIN s : k \in DOMAIN r \/ k = Len(s)
    BY <1>1, <1>3
  <1>5. \A k \in DOMAIN r : r[k] = s[k]
    BY <1>3
  <1>6. ASSUME NEW c \in p .. Len(toks), Holder(toks, c) < p
        PROVE  \E k \in DOMAIN r : r[k].tok = Holder(toks, c)
    <2>1. PICK k \in DOMAIN s : s[k].tok = Holder(toks, c)
      BY <1>6 DEF WalkedTo
    <2>2. k # Len(s)
      <3>1. Cardinality(Held(toks, s[Len(s)].tok, p)) = 0
        BY <1>4 DEF WalkedTo
      <3>2. Held(toks, s[Len(s)].tok, p) = {}
        BY <1>1, <3>1, HeldCount
      <3>3. c \notin Held(toks, s[Len(s)].tok, p)
        BY <3>2
      <3> QED BY <1>6, <2>1, <3>3 DEF Held
    <2> QED BY <1>4, <1>5, <2>1, <2>2
  <1>7. WalkedTo(toks, p, r)
    <2>1. ASSUME NEW k \in DOMAIN r
          PROVE  /\ r[k].tok < p /\ r[k].left = Cardinality(Held(toks, r[k].tok, p))
                 /\ r[k].count >= Len(toks) - r[k].tok
      BY <1>4, <1>5 DEF WalkedTo
    <2>2. ASSUME NEW j \in DOMAIN r, NEW k \in DOMAIN r, j < k PROVE r[j].tok < r[k].tok
      BY <1>4, <1>5, <2>2 DEF WalkedTo
    <2> QED BY <1>1, <1>3, <1>6, <2>1, <2>2 DEF WalkedTo
  <1> QED BY <1>2, <1>7

\* At first main has one value to dump, the outermost one.
LEMMA FirstCall ==
  ASSUME NEW text, NEW toks, Tokenized(text, toks)
  PROVE  WalkedTo(toks, 1, <<Frame(0, 1, Len(toks))>>)
  <1>1. Len(toks) \in Nat /\ Len(toks) >= 1 /\ DOMAIN toks = 1 .. Len(toks)
    BY TextTypes
  <1>2. PICK x : x = Frame(0, 1, Len(toks))
    OBVIOUS
  <1>3. x \in Frames /\ x.tok = 0 /\ x.left = 1 /\ x.count = Len(toks)
    BY <1>1, <1>2 DEF Frame, Frames
  <1>4. PICK s : s = <<x>>
    OBVIOUS
  <1>5. s \in Seq(Frames) /\ DOMAIN s = 1 .. 1 /\ s[1] = x
    BY <1>3, <1>4
  <1>6. Cardinality(Held(toks, 0, 1)) = 1
    <2>1. \A c \in 1 .. Len(toks) : Holder(toks, c) = 0 <=> c = 1
      BY <1>1, HolderPlace
    <2>2. Held(toks, 0, 1) = {1}
      BY <1>1, <2>1 DEF Held
    <2> QED BY <2>2, FS_Singleton
  <1>7. \A c \in 1 .. Len(toks) : Holder(toks, c) < 1 => Holder(toks, c) = 0
    <2> TAKE c \in 1 .. Len(toks)
    <2>1. Holder(toks, c) \in 0 .. (c - 1)
      BY <1>1, HolderPlace
    <2> QED BY <2>1
  <1>8. \A k \in DOMAIN s : k = 1
    BY <1>5
  <1>9. WalkedTo(toks, 1, s)
    <2>1. ASSUME NEW k \in DOMAIN s
          PROVE  /\ s[k].tok < 1 /\ s[k].left = Cardinality(Held(toks, s[k].tok, 1))
                 /\ s[k].count >= Len(toks) - s[k].tok
      <3>1. s[k] = x
        BY <1>5, <1>8
      <3> QED BY <1>1, <1>3, <1>6, <3>1
    <2>2. ASSUME NEW j \in DOMAIN s, NEW k \in DOMAIN s PROVE ~(j < k)
      BY <1>8
    <2>3. ASSUME NEW c \in 1 .. Len(toks), Holder(toks, c) < 1
          PROVE  \E k \in DOMAIN s : s[k].tok = Holder(toks, c)
      <3>1. 1 \in DOMAIN s /\ Holder(toks, c) = 0
        BY <1>5, <1>7, <2>3
      <3> QED BY <1>3, <1>5, <3>1
    <2> QED BY <1>1, <1>5, <2>1, <2>2, <2>3 DEF WalkedTo
  <1> QED BY <1>2, <1>4, <1>9

LEMMA KeepsWalk ==
  ASSUME NEW text, NEW toks, Tokenized(text, toks), Paired(text, toks), WalkSound(toks),
         tokens = toks, WalkStep
  PROVE  WalkSound(toks)'
  <1>1. WalkedTo(toks, at, stack)
    BY DEF WalkSound
  <1>2. CASE Calls
    <2>1. Walking /\ Top.left > 0
      BY <1>2 DEF Calls
    <2>2. /\ at \in DOMAIN toks /\ Holder(toks, at) = Top.tok
          /\ Remaining >= 1 /\ Remaining >= Len(toks) - at /\ Remaining \in Nat
      BY <2>1, NextHeld
    <2>3. stack # <<>> /\ Holder(toks, at) = stack[Len(stack)].tok /\ stack[Len(stack)].left > 0
      BY <2>1, <2>2 DEF Walking, Top
    <2>4. ~DumpNothing /\ ~DumpUnwritten /\ ~DumpReturn
      <3>1. Remaining # 0 /\ Top.left # 0
        BY <2>1, <2>2
      <3> QED BY <2>2, <3>1 DEF DumpNothing, DumpUnwritten, DumpReturn
    <2>5. CASE DumpLeaf
      <3>1. Leaf(toks[at]) /\ at' = at + 1 /\ stack' = [stack EXCEPT ![Len(stack)].left = @ - 1]
        BY <2>5 DEF DumpLeaf, Ticked
      <3>2. WalkedTo(toks, at + 1, [stack EXCEPT ![Len(stack)].left = @ - 1])
        BY <1>1, <2>2, <2>3, <3>1, DumpedLeaf
      <3> QED BY <3>1, <3>2 DEF WalkSound
    <2>6. CASE DumpContainer
      <3>1. /\ ~Leaf(toks[at]) /\ at' = at + 1
            /\ stack' = Append([stack EXCEPT ![Len(stack)].left = @ - 1],
                               Frame(at, ValuesIn(toks[at]), Remaining))
        BY <2>6 DEF DumpContainer, Ticked
      <3>2. WalkedTo(toks, at + 1, Append([stack EXCEPT ![Len(stack)].left = @ - 1],
                                          Frame(at, ValuesIn(toks[at]), Remaining)))
        BY <1>1, <2>2, <2>3, <3>1, DumpedContainer
      <3> QED BY <3>1, <3>2 DEF WalkSound
    <2> QED BY <2>4, <2>5, <2>6 DEF WalkStep
  <1>3. CASE ~Calls
    <2>1. DumpReturn
      BY <1>3 DEF WalkStep, DumpNothing, DumpLeaf, DumpContainer, DumpUnwritten
    <2>2. /\ stack # <<>> /\ stack[Len(stack)].left = 0 /\ at' = at
          /\ stack' = SubSeq(stack, 1, Len(stack) - 1)
      BY <2>1 DEF DumpReturn, Walking, Top
    <2>3. WalkedTo(toks, at, SubSeq(stack, 1, Len(stack) - 1))
      BY <1>1, <2>2, DumpedAll
    <2> QED BY <2>2, <2>3 DEF WalkSound
  <1> QED BY <1>2, <1>3

\* What is held by nothing in progress is nothing.
LEMMA WalkEnds ==
  ASSUME NEW text, NEW toks, Tokenized(text, toks), WalkSound(toks)
  PROVE  IF Walking THEN Top.left > 0 => at \in DOMAIN toks ELSE at = Len(toks) + 1
  <1>1. CASE Walking
    BY <1>1, NextHeld
  <1>2. CASE ~Walking
    <2>1. /\ Len(toks) \in Nat /\ at \in 1 .. (Len(toks) + 1) /\ DOMAIN toks = 1 .. Len(toks)
          /\ DOMAIN stack = {}
      BY <1>2, TextTypes DEF WalkSound, WalkedTo, Walking
    <2>2. SUFFICES ASSUME at \in 1 .. Len(toks) PROVE FALSE
      BY <1>2, <2>1
    <2>3. Holder(toks, at) \in 0 .. (at - 1)
      BY <2>1, <2>2, HolderPlace
    <2>4. Holder(toks, at) < at /\ at \in at .. Len(toks)
      BY <2>2, <2>3
    <2> QED BY <2>1, <2>4 DEF WalkSound, WalkedTo
  <1> QED BY <1>1, <1>2

\* The walk goes on over the tokens of the document.
Walks(d) ==
  program = "jsondump" /\ Succeeded /\ ~CutsPrimitive /\ Paired(d.text, d.toks) => WalkSound(d.toks)

WalkInv ==
  /\ Walking => program = "jsondump" /\ step = "read" /\ eofExpected /\ result >= 0
  /\ \A d \in Documents : d = doc /\ IsJson(d) => Walks(d)

\* The walk changes nothing that the callers of the tokenizer look at.
LEMMA DumpIsCallers ==
  [DumpNext]_<<jsmnVars, callerVars, walkVars>> => [CallersNext]_<<jsmnVars, callerVars>>
  BY DEF DumpNext, WalkStart, CallersNext

\* When a call succeeds, what it has stored are the tokens of the text.
LEMMA StoredText ==
  ASSUME ParserInv, CallersInv, program = "jsondump", pc = "idle", result >= 0, tokens # <<>>,
         ~CutsPrimitive, NEW d \in Documents, d = doc, IsJson(d)
  PROVE  tokens = d.toks
  <1>1. Reads(d) /\ Tokenized(d.text, d.toks)
    BY DocumentType DEF CallersInv, Readable
  <1>2. storing
    BY DEF CallersInv, Driving
  <1>3. Follows(d.text, d.toks) /\ Agrees(d.text, d.toks)
    BY <1>1 DEF Reads, Called
  <1> QED BY <1>1, <1>2, <1>3, TextStored

LEMMA SameWalk ==
  ASSUME UNCHANGED <<jsmnVars, callerVars>>, NEW d
  PROVE  /\ (program = "jsondump" /\ Succeeded /\ ~CutsPrimitive)' <=>
              program = "jsondump" /\ Succeeded /\ ~CutsPrimitive
         /\ UNCHANGED <<doc, program, step, eofExpected, result, tokens>>
  <1>1. UNCHANGED <<doc, bufsiz, program, step, eofExpected, result, tokens>>
    BY DEF jsmnVars, parserVars, callerVars
  <1>2. CutsPrimitive' <=> CutsPrimitive
    BY <1>1, SameCuts
  <1> QED BY <1>1, <1>2 DEF Succeeded

LEMMA KeepsWalkInv ==
  ASSUME ParserInv, CallersInv, WalkInv, [DumpNext]_<<jsmnVars, callerVars, walkVars>>
  PROVE  WalkInv'
  <1>1. CASE WalkStart
    <2>1. /\ program = "jsondump" /\ step = "call" /\ pc = "idle" /\ result >= 0
          /\ step' = "read" /\ eofExpected' = TRUE
          /\ UNCHANGED <<program, doc, bufsiz, jsmnVars>>
          /\ at' = 1 /\ stack' = <<Frame(0, 1, Len(tokens))>>
      BY <1>1 DEF WalkStart, Dumped, Returned
    <2>2. UNCHANGED <<result, tokens>>
      BY <2>1 DEF jsmnVars, parserVars
    <2>3. ASSUME NEW d \in Documents, d = doc', IsJson(d), Succeeded', ~CutsPrimitive'
          PROVE  WalkSound(d.toks)'
      <3>1. d = doc /\ ~CutsPrimitive /\ tokens # <<>>
        BY <2>1, <2>2, <2>3, SameCuts DEF Succeeded
      <3>2. tokens = d.toks
        BY <2>1, <2>3, <3>1, StoredText
      <3>3. Tokenized(d.text, d.toks)
        BY <2>3, DocumentType
      <3>4. WalkedTo(d.toks, 1, <<Frame(0, 1, Len(d.toks))>>)
        BY <3>3, FirstCall
      <3> QED BY <2>1, <3>2, <3>4 DEF WalkSound
    <2> QED BY <2>1, <2>2, <2>3 DEF WalkInv, Walks
  <1>2. CASE ~Walking /\ NoDump /\ UNCHANGED walkVars
    <2>1. ~Walking'
      BY <1>2 DEF walkVars, Walking
    <2>2. ~Succeeded'
      <3>1. CASE ParseFailed
        <4>1. result \in {INVAL, PART} /\ result' = result
          BY <3>1 DEF ParseFailed, jsmnVars, parserVars
        <4>2. ~(result' >= 0)
          BY <4>1 DEF INVAL, PART
        <4> QED BY <4>2 DEF Succeeded
      <3>2. CASE ReadChunk \/ EndOfInput \/ OutOfMemory \/ Again \/ CountTokens \/ Counts
        <4>1. step' \in {"call", "exit"}
          BY <3>2 DEF ReadChunk, EndOfInput, OutOfMemory, Again, CountTokens, Counts, Exit,
                      Returned, callerVars
        <4> QED BY <4>1 DEF Succeeded
      <3>3. CASE step = "call" /\ ParseStep /\ UNCHANGED callerVars
        BY <3>3 DEF callerVars, Succeeded
      <3> QED BY <1>2, <3>1, <3>2, <3>3 DEF NoDump
    <2> QED BY <2>1, <2>2 DEF WalkInv, Walks
  <1>3. CASE WalkStep /\ UNCHANGED <<jsmnVars, callerVars>>
    <2>1. Walking
      BY <1>3 DEF WalkStep, DumpNothing, DumpLeaf, DumpContainer, DumpUnwritten, DumpReturn, Calls
    <2>2. program = "jsondump" /\ step = "read" /\ eofExpected /\ result >= 0
      BY <2>1 DEF WalkInv
    <2>3. UNCHANGED <<doc, program, step, eofExpected, result, tokens>>
      BY <1>3, SameWalk
    <2>4. ASSUME NEW d \in Documents, d = doc', IsJson(d), Succeeded', ~CutsPrimitive',
                 Paired(d.text, d.toks)
          PROVE  WalkSound(d.toks)'
      <3>1. d = doc /\ Succeeded /\ ~CutsPrimitive
        BY <1>3, <2>2, <2>3, <2>4, SameWalk
      <3>2. WalkSound(d.toks) /\ Tokenized(d.text, d.toks)
        BY <2>2, <2>4, <3>1, DocumentType DEF WalkInv, Walks
      <3>3. pc = "idle" /\ tokens # <<>>
        BY <2>2, <3>1 DEF CallersInv, Driving, Succeeded
      <3>4. tokens = d.toks
        BY <2>2, <2>4, <3>1, <3>3, StoredText
      <3> QED BY <1>3, <2>4, <3>2, <3>4, KeepsWalk
    <2> QED BY <2>2, <2>3, <2>4 DEF WalkInv, Walks
  <1>4. CASE UNCHANGED <<jsmnVars, callerVars, walkVars>>
    <2>1. UNCHANGED <<jsmnVars, callerVars>> /\ UNCHANGED <<at, stack>>
      BY <1>4 DEF walkVars
    <2>2. ASSUME NEW d \in Documents, d = doc', IsJson(d), Walks(d) PROVE Walks(d)'
      <3>1. WalkSound(d.toks)' <=> WalkSound(d.toks)
        BY <2>1 DEF WalkSound
      <3> QED BY <2>1, <2>2, <3>1, SameWalk DEF Walks
    <2>3. UNCHANGED <<doc, program, step, eofExpected, result>>
      BY <2>1, SameWalk
    <2> QED BY <2>1, <2>2, <2>3 DEF WalkInv, Walking
  <1> QED BY <1>1, <1>2, <1>3, <1>4 DEF DumpNext

LEMMA DumpInvariant == Dumping => [](ParserInv /\ CallersInv /\ WalkInv)
  <1>1. DumpInit => CallersInit /\ WalkInv
    BY DEF DumpInit, WalkInit, WalkInv, Walking, Walks, CallersInit, Succeeded
  <1>2. Dumping => Callers
    BY <1>1, DumpIsCallers, PTL DEF Dumping, Callers
  <1>3. ParserInv /\ CallersInv /\ WalkInv /\ [DumpNext]_<<jsmnVars, callerVars, walkVars>> => WalkInv'
    BY KeepsWalkInv
  <1> QED BY <1>1, <1>2, <1>3, CallersInvariant, PTL DEF Dumping

-----------------------------------------------------------------------------
(* The theorems.                                                            *)

\* jsondump and the counting test keep to what jsmn asks of its callers: jsondump goes on with
\* more text or more tokens and the parser as the last call left it (jsondump.c:90-103).
THEOREM CallersRefineParser == Callers => Parser
  <1>1. CallersInit => Init
    BY DEF CallersInit
  <1>2. ParserInv /\ CallersInv /\ [CallersNext]_<<jsmnVars, callerVars>> => [ParserNext]_jsmnVars
    BY CallersStep DEF CallersInv
  <1> QED BY <1>1, <1>2, CallersInvariant, PTL DEF Callers, Parser

\* jsondump gets exactly the tokens of a JSON text (kinds, bounds and numbers of children),
\* for every size of the buffer that cuts no primitive and however often the array grew.
THEOREM UncutTextAgrees == Callers => []UncutAgrees
  <1>1. ParserInv /\ CallersInv => UncutAgrees
    BY StoredText DEF UncutAgrees, CallersInv, Driving, Succeeded
  <1> QED BY <1>1, CallersInvariant, PTL

\* jsondump never takes a JSON text for a broken or an incomplete one, for every size of the
\* buffer, the ones that cut a primitive included.
THEOREM JsonTextAccepted == Callers => []JsonAccepted
  <1>1. ParserInv /\ CallersInv => JsonAccepted
    BY DEF JsonAccepted, CallersInv, Driving, Reads, Readable
  <1> QED BY <1>1, CallersInvariant, PTL

\* The counting call of the strict build returns the number of tokens of every JSON text that
\* does not end in a primitive (README.md:145 of jsmn, jsmn.c:60).
THEOREM CountOfText == Callers => []CountAgrees
  <1>1. ParserInv /\ CallersInv => CountAgrees
    BY DEF CountAgrees, CallersInv, Driving, Reads, Readable
  <1> QED BY <1>1, CallersInvariant, PTL

\* dump reads only tokens that are in use and comes to the last one: with main as a call for
\* one value, every call in progress has still to dump what its container holds from here on.
THEOREM DumpAlwaysWalksAll == Dumping => []DumpWalksAll
  <1>1. ParserInv /\ CallersInv /\ WalkInv => DumpWalksAll
    <2> SUFFICES ASSUME ParserInv, CallersInv, WalkInv, program = "jsondump", Succeeded, IsJson(doc),
                        ~CutsPrimitive, Paired(doc.text, doc.toks)
                 PROVE  IF Walking THEN Top.left > 0 => at \in DOMAIN tokens ELSE at = Len(tokens) + 1
      BY DEF DumpWalksAll
    <2>1. PICK d \in Documents : d = doc
      BY DEF CallersInv, Driving
    <2>2. pc = "idle" /\ result >= 0 /\ tokens # <<>>
      BY DEF CallersInv, Driving, Succeeded
    <2>3. tokens = d.toks
      BY <2>1, <2>2, StoredText
    <2>4. Tokenized(d.text, d.toks) /\ WalkSound(d.toks)
      BY <2>1, DocumentType DEF WalkInv, Walks
    <2> QED BY <2>3, <2>4, WalkEnds
  <1> QED BY <1>1, DumpInvariant, PTL

=============================================================================

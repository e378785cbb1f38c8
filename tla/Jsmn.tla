-------------------------------- MODULE Jsmn --------------------------------
(***************************************************************************)
(* The JSON tokenizer of the stub CDM, jsmn.c, in its two builds: the      *)
(* library that the service and jsondump use, and the one of jsmn_test.c,  *)
(* which defines JSMN_STRICT.  Neither defines JSMN_PARENT_LINKS.          *)
(*                                                                         *)
(* One action is one turn of a loop of jsmn_parse or jsmn_parse_string.    *)
(* The parser may be called again with the same state: after NOMEM with    *)
(* more tokens, after PART with more text.  Who calls it, and how, is left *)
(* to the modules that use this one; here a caller is free (Caller).       *)
(*                                                                         *)
(* Offsets into the text count from 0 as in the code: the character at     *)
(* offset p is js[p + 1].  Tokens count from 1: token i of the code is     *)
(* tokens[i + 1], and 0 stands for the index -1.                           *)
(***************************************************************************)
EXTENDS Integers, Sequences

CONSTANT Char   \* the characters of texts

VARIABLES
  strict,    \* the build defines JSMN_STRICT
  js,        \* the text, of the length that is passed to jsmn_parse
  pos,       \* parser->pos
  toksuper,  \* parser->toksuper
  tokens,    \* the tokens in use: parser->toknext is their number
  capacity,  \* num_tokens
  storing,   \* tokens # NULL: the call stores tokens and does not only count
  start,     \* where the string being scanned starts
  count,     \* tokens found by this call
  pc,        \* "idle" between calls, else the loop that is running
  result     \* what the last call returned

parserVars == <<pos, toksuper, tokens, capacity, storing, start, count, pc, result>>
jsmnVars == <<strict, js, parserVars>>

NOMEM == -1
INVAL == -2
PART == -3

Space == {" "}
Delimiter == {":", ",", "]", "}"} \cup Space
Escaped == {"\"", "/", "\\", "b", "f", "r", "n", "t"}
HexDigit == {"0", "1", "2", "3", "4", "5", "6", "7", "8", "9",
             "A", "B", "C", "D", "E", "F", "a", "b", "c", "d", "e", "f"}
\* What a number, true, false or null begins with.
Beginning == {"-", "0", "1", "2", "3", "4", "5", "6", "7", "8", "9", "t", "f", "n"}

\* Characters no primitive may hold, and the terminator, at which every loop stops.
Control == {"ctl"}
NUL == "nul"

ASSUME CharAssumption == Delimiter \cup Escaped \cup Control \cup {"{", "[", NUL} \subseteq Char

Type == {"primitive", "object", "array", "string"}
Token == [type : Type, start : Nat, end : Nat \cup {-1}, size : Nat]

At(p) == js[p + 1]
Stopped(p) == p < Len(js) => At(p) = NUL

\* Containers that have been opened and not yet closed.
IsContainer(i) == tokens[i].type \in {"object", "array"}
IsOpen(i) == tokens[i].end = -1
OpenTokens == {i \in DOMAIN tokens : IsOpen(i)}

\* The last index of a set of indices, 0 for "no such index".
LastOf(S) == IF S = {} THEN 0 ELSE CHOOSE i \in S : \A j \in S : j <= i

OutermostOpen ==
  IF OpenTokens = {} THEN 0 ELSE CHOOSE i \in OpenTokens : \A j \in OpenTokens : i <= j
\* The container that a closing bracket closes.
InnermostOpen == LastOf(OpenTokens)

EnclosingNone(i) == 0
\* The container that holds open container i.
Enclosing(i) == LastOf(OpenTokens \ {i})

Init ==
  /\ strict \in BOOLEAN
  /\ js = <<>>
  /\ pos = 0 /\ toksuper = 0 /\ tokens = <<>>
  /\ capacity = 0 /\ storing = TRUE
  /\ start = 0 /\ count = 0
  /\ pc = "idle" /\ result = 0

-----------------------------------------------------------------------------
(* Helpers: allocation, errors, and the child count of the superior token.  *)

\* jsmn_alloc_token and jsmn_fill_token.
Fresh(type, s, e) == Append(tokens, [type |-> type, start |-> s, end |-> e, size |-> 0])
FullLate == storing /\ Len(tokens) > capacity
Full == storing /\ Len(tokens) >= capacity

\* tokens[parser->toksuper].size++ if there is a superior token.
Counted(toks) ==
  IF toksuper = 0 THEN toks ELSE [toks EXCEPT ![toksuper].size = @ + 1]

Return(r) ==
  /\ pc' = "idle" /\ result' = r
  /\ UNCHANGED <<pos, toksuper, tokens, capacity, storing, start, count>>

AddLeafStored(type, s, e) ==
  /\ tokens' = IF storing THEN Counted(Fresh(type, s, e)) ELSE tokens
  /\ count' = IF storing THEN count + 1 ELSE count

\* A new child of the superior token, or in a counting call just one more.
AddLeaf(type, s, e) ==
  /\ tokens' = IF storing THEN Counted(Fresh(type, s, e)) ELSE tokens
  /\ count' = count + 1

Scanning == pc = "parse" /\ ~Stopped(pos)

-----------------------------------------------------------------------------
(* jsmn_parse, one turn of its loop.                                        *)

OpenContainer ==
  /\ Scanning /\ At(pos) \in {"{", "["}
  /\ \/ /\ Full
        /\ Return(NOMEM)
     \/ /\ ~Full
        /\ LET type == IF At(pos) = "{" THEN "object" ELSE "array"
           IN tokens' = IF storing THEN Counted(Fresh(type, pos, -1)) ELSE tokens
        /\ toksuper' = IF storing THEN Len(tokens) + 1 ELSE toksuper
        /\ count' = count + 1
        /\ pos' = pos + 1
        /\ UNCHANGED <<capacity, storing, start, pc, result>>
  /\ UNCHANGED <<strict, js>>

\* A counting call does not look for the opening bracket.
CloseContainer ==
  /\ Scanning /\ At(pos) \in {"}", "]"}
  /\ LET i == InnermostOpen
         type == IF At(pos) = "}" THEN "object" ELSE "array"
         matches == i # 0 /\ tokens[i].type = type
     IN \/ /\ storing /\ ~matches
           /\ Return(INVAL)
        \/ /\ storing /\ matches
           /\ tokens' = [tokens EXCEPT ![i].end = pos + 1]
           /\ toksuper' = Enclosing(i)
           /\ pos' = pos + 1
           /\ UNCHANGED <<capacity, storing, start, count, pc, result>>
        \/ /\ ~storing
           /\ pos' = pos + 1
           /\ UNCHANGED <<toksuper, tokens, capacity, storing, start, count, pc, result>>
  /\ UNCHANGED <<strict, js>>

SkipSpace ==
  /\ Scanning /\ At(pos) \in Space
  /\ pos' = pos + 1
  /\ UNCHANGED <<strict, js, toksuper, tokens, capacity, storing, start, count, pc, result>>

Colon ==
  /\ Scanning /\ At(pos) = ":"
  /\ toksuper' = Len(tokens)
  /\ pos' = pos + 1
  /\ UNCHANGED <<strict, js, tokens, capacity, storing, start, count, pc, result>>

\* With toksuper = -1 the type is read before the array; whatever is read there, no
\* container is open then (SuperOfOpen) and the search finds nothing.
Comma ==
  /\ Scanning /\ At(pos) = ","
  /\ toksuper' =
       IF storing /\ OpenTokens # {} /\ ~IsContainer(toksuper)
       THEN LastOf(OpenTokens) ELSE toksuper
  /\ pos' = pos + 1
  /\ UNCHANGED <<strict, js, tokens, capacity, storing, start, count, pc, result>>

\* jsmn_parse_primitive: up to the first delimiter or the end of the text so far.  A colon
\* is no delimiter in the strict build.
Ending == IF strict THEN Delimiter \ {":"} ELSE Delimiter
PrimitiveEnds(q) == Stopped(q) \/ At(q) \in Ending \cup Control
PrimitiveEnd(p) ==
  CHOOSE q \in p .. Len(js) : PrimitiveEnds(q) /\ \A r \in p .. (q - 1) : ~PrimitiveEnds(r)

\* The strict build takes numbers, booleans and null, none of them for a name.
Unexpected ==
  \/ At(pos) \notin Beginning
  \/ /\ storing /\ toksuper # 0
     /\ \/ tokens[toksuper].type = "object"
        \/ tokens[toksuper].type = "string" /\ tokens[toksuper].size # 0
\* With toksuper = -1 what it reads before the array decides.
ReadBefore == storing /\ toksuper = 0

Primitive ==
  /\ Scanning /\ At(pos) \notin Delimiter \cup {"{", "[", "\""}
  /\ LET q == PrimitiveEnd(pos)
         bad == ~Stopped(q) /\ At(q) \in Control
         cut == strict /\ Stopped(q)
     IN \/ /\ strict /\ (Unexpected \/ ReadBefore)
           /\ Return(INVAL)
        \/ /\ strict => ~Unexpected
           /\ \/ /\ bad
                 /\ Return(INVAL)
              \/ /\ ~bad /\ cut
                 /\ Return(PART)
              \/ /\ ~bad /\ ~cut /\ Full
                 /\ Return(NOMEM)
              \/ /\ ~bad /\ ~cut /\ ~Full
                 /\ AddLeaf("primitive", pos, q)
                 /\ pos' = q
                 /\ UNCHANGED <<toksuper, capacity, storing, start, pc, result>>
  /\ UNCHANGED <<strict, js>>

\* The check after the loop: an open container makes the text incomplete.
Finish ==
  /\ pc = "parse" /\ Stopped(pos)
  /\ Return(IF OpenTokens # {} THEN PART ELSE count)
  /\ UNCHANGED <<strict, js>>

-----------------------------------------------------------------------------
(* jsmn_parse_string.  An error gives the string back: pos returns to start. *)

StartString ==
  /\ Scanning /\ At(pos) = "\""
  /\ pc' = "string" /\ start' = pos /\ pos' = pos + 1
  /\ UNCHANGED <<strict, js, toksuper, tokens, capacity, storing, count, result>>

GiveBackHalf(r) ==
  /\ pc' = "idle" /\ result' = r
  /\ UNCHANGED <<pos, toksuper, tokens, capacity, storing, start, count>>
GiveBack(r) ==
  /\ pc' = "idle" /\ result' = r /\ pos' = start
  /\ UNCHANGED <<toksuper, tokens, capacity, storing, start, count>>

InString == pc = "string" /\ ~Stopped(pos)

EndString ==
  /\ InString /\ At(pos) = "\""
  /\ \/ /\ Full
        /\ GiveBack(NOMEM)
     \/ /\ ~Full
        /\ AddLeaf("string", start + 1, pos)
        /\ pos' = pos + 1 /\ pc' = "parse"
        /\ UNCHANGED <<toksuper, capacity, storing, start, result>>
  /\ UNCHANGED <<strict, js>>

\* A backslash that is the last character of the text so far is an ordinary one.
IsEscape == At(pos) = "\\" /\ pos + 1 < Len(js)

StringChar ==
  /\ InString /\ At(pos) # "\"" /\ ~IsEscape
  /\ pos' = pos + 1
  /\ UNCHANGED <<strict, js, toksuper, tokens, capacity, storing, start, count, pc, result>>

\* Up to four hexadecimal digits after a backslash and u.
UnicodeEnd(p) ==
  CHOOSE q \in p .. (p + 4) :
    /\ q = p + 4 \/ Stopped(q)
    /\ \A r \in p .. (q - 1) : ~Stopped(r)

StringEscape ==
  /\ InString /\ IsEscape
  /\ LET c == At(pos + 1)
         q == UnicodeEnd(pos + 2)
         legal == \/ c \in Escaped
                  \/ c = "u" /\ \A r \in (pos + 2) .. (q - 1) : At(r) \in HexDigit
     IN \/ /\ ~legal
           /\ GiveBack(INVAL)
        \/ /\ legal
           /\ pos' = IF c = "u" THEN q ELSE pos + 2
           /\ UNCHANGED <<toksuper, tokens, capacity, storing, start, count, pc, result>>
  /\ UNCHANGED <<strict, js>>

StringPart ==
  /\ pc = "string" /\ Stopped(pos)
  /\ GiveBack(PART)
  /\ UNCHANGED <<strict, js>>

-----------------------------------------------------------------------------
(* Calls.                                                                   *)

\* jsmn_init.
InitParser == pos' = 0 /\ toksuper' = 0 /\ tokens' = <<>>

\* jsmn_parse is called with room for n tokens, or with NULL to count only.
Call(n, store) ==
  /\ capacity' = n /\ storing' = store
  /\ pc' = "parse" /\ count' = 0
  /\ UNCHANGED <<strict, start, result>>

ParseStep ==
  \/ OpenContainer \/ CloseContainer \/ SkipSpace \/ Colon \/ Comma \/ Primitive \/ Finish
  \/ StartString \/ EndString \/ StringChar \/ StringEscape \/ StringPart

\* A caller begins a text, or goes on with the one it has, of which it may have more by
\* now; it never takes tokens away and never changes from counting to storing.
Caller ==
  /\ pc = "idle"
  /\ js' \in Seq(Char)
  /\ capacity' \in Nat /\ storing' \in BOOLEAN
  /\ Call(capacity', storing')
  /\ \/ InitParser
     \/ /\ storing' = storing /\ capacity' >= capacity
        /\ Len(js') >= Len(js) /\ SubSeq(js', 1, Len(js)) = js
        /\ UNCHANGED <<pos, toksuper, tokens>>

ParserNext == Caller \/ ParseStep

\* What jsmn promises its callers is promised to a caller that does only this: starts a text
\* or continues it, with no fewer tokens than before.  Every caller is checked against it.
Parser == Init /\ [][ParserNext]_jsmnVars

-----------------------------------------------------------------------------
(* Properties.                                                              *)

\* Type invariant of the tokenizer; the caller's array is never overrun.
JsmnTypeOK ==
  /\ strict \in BOOLEAN /\ js \in Seq(Char)
  /\ pos \in 0 .. Len(js)
  /\ tokens \in Seq(Token)
  /\ toksuper \in 0 .. Len(tokens)
  /\ capacity \in Nat /\ storing \in BOOLEAN
  /\ start \in Nat /\ count \in Nat
  /\ pc \in {"idle", "parse", "string"}
  /\ result \in Nat \cup {NOMEM, INVAL, PART}
  /\ Len(tokens) <= capacity

\* Tokens lie in the order of the text, what is scanned is behind pos, and two tokens are
\* disjoint or one holds the other: the flat array is a forest, whatever the text and
\* wherever a call was interrupted.
TokensNest ==
  \A i, j \in DOMAIN tokens : i < j =>
    /\ tokens[i].start < tokens[j].start
    /\ tokens[i].end # -1 =>
         \/ tokens[i].end <= tokens[j].start
         \/ tokens[j].end # -1 /\ tokens[j].end <= tokens[i].end

\* Inside a container there is a superior token, so a comma there reads a token that exists.
SuperOfOpen == OpenTokens # {} => toksuper # 0

=============================================================================

------------------------------ MODULE JsonText ------------------------------
(***************************************************************************)
(* What a JSON text is to its readers, without a parser: which tokens are   *)
(* the tokens of a text (README.md of jsmn, "Design": the kinds of tokens,  *)
(* their boundaries and the number of their children).  The callers of      *)
(* module Jsmn are compared with it.                                        *)
(*                                                                         *)
(* As in module Jsmn, offsets count from 0 and tokens from 1.               *)
(***************************************************************************)
EXTENDS Jsmn, FiniteSets

Leaf(t) == t.type \in {"primitive", "string"}

\* Where a token begins and where it is over; the bounds of a string leave out its quotes.
Begin(t) == IF t.type = "string" THEN t.start - 1 ELSE t.start
Past(t) == IF t.type = "string" THEN t.end + 1 ELSE t.end

\* The tokens that offset p is inside of.
Around(toks, p) == {k \in DOMAIN toks : Begin(toks[k]) < p /\ p < Past(toks[k])}

\* Only spaces from offset p to offset q.
Blank(text, p, q) == \A r \in p .. (q - 1) : text[r + 1] \in Space

\* The last character before offset p that is no space is one of chars.
Preceded(text, p, chars) ==
  \E q \in 0 .. (p - 1) : text[q + 1] \in chars /\ Blank(text, q + 1, p)

\* The brackets of objects and of arrays, and what separates values.
OpeningOf(type) == IF type = "object" THEN "{" ELSE "["
ClosingOf(type) == IF type = "object" THEN "}" ELSE "]"
Opening == {"{", "["}
Closing == {"}", "]"}
Quote == "\""
Separator == Space \cup {":", ","}

\* E is the set of the backslashes that begin an escape in the string from s to e.
EscapesAt(text, s, e, E) ==
  /\ \A p \in E :
       /\ p \in s .. (e - 1) /\ text[p + 1] = "\\" /\ p + 1 \notin E
       /\ \/ p + 2 <= e /\ text[p + 2] \in Escaped
          \/ /\ p + 6 <= e /\ text[p + 2] = "u"
             /\ \A r \in (p + 2) .. (p + 5) : text[r + 1] \in HexDigit
  /\ \A p \in s .. (e - 1) : text[p + 1] \in {Quote, "\\"} => p \in E \/ p - 1 \in E

IsString(text, s, e) ==
  /\ text[s] = Quote /\ text[e + 1] = Quote
  /\ \E E \in SUBSET {p \in s .. (e - 1) : text[p + 1] = "\\"} : EscapesAt(text, s, e, E)

IsPrimitive(text, s, e) ==
  /\ \A p \in s .. (e - 1) : text[p + 1] \notin Delimiter \cup Control \cup Opening \cup {Quote}
  /\ text[s + 1] \in Beginning
  /\ e < Len(text) => text[e + 1] \in Delimiter \ {":"}

Spelled(text, t) ==
  /\ ~Leaf(t) => text[t.start + 1] = OpeningOf(t.type) /\ text[t.end] = ClosingOf(t.type)
  /\ t.type = "string" => IsString(text, t.start, t.end)
  /\ t.type = "primitive" => IsPrimitive(text, t.start, t.end)

Bounds(text, toks) ==
  \A k \in DOMAIN toks :
    /\ 0 <= Begin(toks[k]) /\ Past(toks[k]) <= Len(text)
    /\ toks[k].start <= toks[k].end
    /\ toks[k].type # "string" => toks[k].start < toks[k].end
    /\ ~Leaf(toks[k]) => toks[k].start + 1 < toks[k].end

\* Tokens stand in the order of the text, and what is in a token is in a container.
Ordered(toks) ==
  \A j, k \in DOMAIN toks : j < k =>
    /\ Begin(toks[j]) < Begin(toks[k])
    /\ \/ Past(toks[j]) <= Begin(toks[k])
       \/ ~Leaf(toks[j]) /\ Past(toks[k]) < Past(toks[j])

\* Nothing but spaces, colons and commas is outside of leaves and brackets.
Covered(text, toks) ==
  \A p \in 0 .. (Len(text) - 1) :
    \/ text[p + 1] \in Separator
    \/ \E k \in DOMAIN toks :
         \/ Leaf(toks[k]) /\ Begin(toks[k]) <= p /\ p < Past(toks[k])
         \/ ~Leaf(toks[k]) /\ p \in {Begin(toks[k]), Past(toks[k]) - 1}

\* Offset p is not inside of a leaf: what stands there separates tokens.
Between(toks, p) == \A k \in DOMAIN toks : Leaf(toks[k]) => p < Begin(toks[k]) \/ Past(toks[k]) <= p

\* A text is one value.  Colons and commas stand in it, a colon behind a name; a value has a
\* bracket, a colon or a comma before it unless it is the first.
Separated(text, toks) ==
  /\ \A k \in DOMAIN toks : k > 1 =>
       /\ Begin(toks[k]) < Past(toks[1])
       /\ Preceded(text, Begin(toks[k]), Opening \cup (Separator \ Space))
  /\ \A p \in 0 .. (Len(text) - 1) : text[p + 1] \in Separator \ Space /\ Between(toks, p) =>
       /\ Around(toks, p) # {}
       /\ text[p + 1] = ":" =>
            \E k \in DOMAIN toks :
              toks[k].type = "string" /\ Past(toks[k]) <= p /\ Blank(text, Past(toks[k]), p)

\* A value behind a colon belongs to its name, any other to the container it is in.
Parent(text, toks, k) ==
  IF Preceded(text, Begin(toks[k]), {":"}) THEN k - 1
  ELSE LastOf(Around(toks, Begin(toks[k])))

Sized(text, toks) ==
  \A k \in DOMAIN toks :
    toks[k].size = Cardinality({j \in DOMAIN toks : Parent(text, toks, j) = k})

\* toks are the tokens of the JSON text.
Tokenized(text, toks) ==
  /\ text \in Seq(Char) /\ \A p \in DOMAIN text : text[p] # NUL
  /\ toks \in Seq(Token) /\ toks # <<>>
  /\ Bounds(text, toks) /\ Ordered(toks) /\ \A k \in DOMAIN toks : Spelled(text, toks[k])
  /\ Covered(text, toks) /\ Separated(text, toks) /\ Sized(text, toks)

=============================================================================

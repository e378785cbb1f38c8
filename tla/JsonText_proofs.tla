--------------------------- MODULE JsonText_proofs ---------------------------
(***************************************************************************)
(* What the tokenizer makes of a JSON text: the tokens of that text.        *)
(*                                                                         *)
(* The parser passes over the text once.  The invariant relates the tokens  *)
(* it has stored to the part of the text it has scanned.                    *)
(***************************************************************************)
EXTENDS JsonText, Jsmn_proofs, FiniteSetTheorems

-----------------------------------------------------------------------------
(* Facts about a text and its tokens.                                       *)

LEMMA TextTypes ==
  ASSUME NEW text, NEW toks, Tokenized(text, toks)
  PROVE  /\ text \in Seq(Char) /\ Len(text) \in Nat
         /\ \A p \in 0 .. (Len(text) - 1) : text[p + 1] # NUL
         /\ toks \in Seq(Token) /\ Len(toks) \in Nat /\ Len(toks) >= 1
         /\ DOMAIN toks = 1 .. Len(toks)
  <1>1. /\ text \in Seq(Char) /\ Len(text) \in Nat /\ DOMAIN text = 1 .. Len(text)
        /\ \A p \in DOMAIN text : text[p] # NUL
    BY DEF Tokenized
  <1>2. \A p \in 0 .. (Len(text) - 1) : p + 1 \in 1 .. Len(text)
    BY <1>1
  <1>3. toks \in Seq(Token) /\ toks # <<>>
    BY DEF Tokenized
  <1>4. Len(toks) \in Nat /\ Len(toks) # 0 /\ DOMAIN toks = 1 .. Len(toks)
    BY <1>3
  <1> QED BY <1>1, <1>2, <1>3, <1>4

LEMMA TokenBounds ==
  ASSUME NEW text, NEW toks, Tokenized(text, toks), NEW k \in DOMAIN toks
  PROVE  /\ toks[k].type \in Type /\ toks[k].start \in Nat /\ toks[k].end \in Nat
         /\ Begin(toks[k]) \in Nat /\ Past(toks[k]) \in Nat
         /\ Begin(toks[k]) < Past(toks[k]) /\ Past(toks[k]) <= Len(text)
         /\ Leaf(toks[k]) <=> toks[k].type \in {"primitive", "string"}
         /\ ~Leaf(toks[k]) <=> toks[k].type \in {"object", "array"}
         /\ ~Leaf(toks[k]) => Begin(toks[k]) + 1 < Past(toks[k])
         /\ toks[k].type # "string" => Begin(toks[k]) = toks[k].start /\ Past(toks[k]) = toks[k].end
         /\ toks[k].type = "string" =>
              Begin(toks[k]) = toks[k].start - 1 /\ Past(toks[k]) = toks[k].end + 1
  <1> DEFINE t == toks[k]
  <1>1. t \in Token
    BY TextTypes
  <1>2. /\ 0 <= Begin(t) /\ Past(t) <= Len(text) /\ t.start <= t.end
        /\ t.type # "string" => t.start < t.end
        /\ ~Leaf(t) => t.start + 1 < t.end
    BY DEF Tokenized, Bounds
  <1>3. t.type \in Type /\ t.start \in Nat /\ t.end \in Nat \cup {-1}
    BY <1>1, TokenFields
  <1> HIDE DEF t
  <1>4. t.end \in Nat
    BY <1>2, <1>3
  <1>5. Leaf(t) <=> t.type \in {"primitive", "string"}
    BY DEF Leaf
  <1>6. ~Leaf(t) <=> t.type \in {"object", "array"}
    BY <1>3, <1>5 DEF Type
  <1>7. t.type # "string" => Begin(t) = t.start /\ Past(t) = t.end
    BY DEF Begin, Past
  <1>8. t.type = "string" => Begin(t) = t.start - 1 /\ Past(t) = t.end + 1
    BY DEF Begin, Past
  <1>9. CASE t.type = "string"
    BY <1>2, <1>3, <1>4, <1>5, <1>6, <1>7, <1>8, <1>9 DEF t
  <1>10. CASE t.type # "string"
    BY <1>2, <1>3, <1>4, <1>5, <1>6, <1>7, <1>8, <1>10 DEF t
  <1> QED BY <1>9, <1>10

\* Two tokens are disjoint, or the later one is inside of the earlier one.
LEMMA TokenOrder ==
  ASSUME NEW text, NEW toks, Tokenized(text, toks),
         NEW j \in DOMAIN toks, NEW k \in DOMAIN toks, j < k
  PROVE  /\ Begin(toks[j]) < Begin(toks[k])
         /\ Past(toks[j]) <= Begin(toks[k]) \/ (~Leaf(toks[j]) /\ Past(toks[k]) < Past(toks[j]))
  BY DEF Tokenized, Ordered

\* The kinds of characters.
LEMMA CharKinds ==
  ASSUME NEW c
  PROVE  /\ c \in Opening => c \notin Closing /\ c \notin Delimiter /\ c \notin Separator /\ c # Quote
         /\ c \in Closing => c \in Delimiter /\ c \notin Separator /\ c # Quote
         /\ c \in Separator => c \in Delimiter /\ c # Quote
         /\ c \in Delimiter => c \in Separator \/ c \in Closing
         /\ c = Quote => c \notin Delimiter
         /\ c \in Control => c \notin Delimiter /\ c \notin Opening /\ c # Quote
         /\ c \in Space => c \in Separator
  BY Zenon DEF Opening, Closing, Delimiter, Space, Separator, Quote, Control

LEMMA BracketKinds ==
  ASSUME NEW type \in Type
  PROVE  OpeningOf(type) \in Opening /\ ClosingOf(type) \in Closing
  BY Zenon DEF OpeningOf, ClosingOf, Opening, Closing

\* The characters at the ends of a token.
LEMMA Ends ==
  ASSUME NEW text, NEW toks, Tokenized(text, toks), NEW k \in DOMAIN toks
  PROVE  /\ ~Leaf(toks[k]) =>
              /\ text[Begin(toks[k]) + 1] = OpeningOf(toks[k].type)
              /\ text[Begin(toks[k]) + 1] \in Opening
              /\ text[Past(toks[k])] = ClosingOf(toks[k].type)
              /\ text[Past(toks[k])] \in Closing
         /\ toks[k].type = "string" =>
              text[Begin(toks[k]) + 1] = Quote /\ text[Past(toks[k])] = Quote
         /\ toks[k].type = "primitive" =>
              /\ \A p \in Begin(toks[k]) .. (Past(toks[k]) - 1) :
                   text[p + 1] \notin Delimiter \cup Control \cup Opening \cup {Quote}
              /\ text[Begin(toks[k]) + 1] \in Beginning
              /\ Past(toks[k]) < Len(text) => text[Past(toks[k]) + 1] \in Delimiter \ {":"}
  <1> DEFINE t == toks[k]
  <1>1. Spelled(text, t)
    BY DEF Tokenized
  <1>2. /\ t.type \in Type /\ t.start \in Nat /\ t.end \in Nat
        /\ t.type # "string" => Begin(t) = t.start /\ Past(t) = t.end
        /\ t.type = "string" => Begin(t) = t.start - 1 /\ Past(t) = t.end + 1
        /\ ~Leaf(t) <=> t.type \in {"object", "array"}
    BY TokenBounds
  <1> HIDE DEF t
  <1>3. CASE ~Leaf(t)
    <2>1. text[t.start + 1] = OpeningOf(t.type) /\ text[t.end] = ClosingOf(t.type)
      BY <1>1, <1>3 DEF Spelled
    <2>2. t.type # "string" /\ t.type # "primitive"
      BY <1>2, <1>3
    <2>3. text[Begin(t) + 1] = OpeningOf(t.type) /\ text[Past(t)] = ClosingOf(t.type)
      BY <1>2, <2>1, <2>2
    <2> QED BY <1>2, <2>2, <2>3, BracketKinds DEF t
  <1>4. CASE t.type = "string"
    <2>1. text[t.start] = Quote /\ text[t.end + 1] = Quote
      BY <1>1, <1>4 DEF Spelled, IsString
    <2>2. Begin(t) + 1 = t.start /\ Past(t) = t.end + 1
      BY <1>2, <1>4
    <2>3. text[Begin(t) + 1] = Quote /\ text[Past(t)] = Quote
      BY <2>1, <2>2
    <2> QED BY <1>2, <1>4, <2>3 DEF t
  <1>5. CASE t.type = "primitive"
    <2>1. IsPrimitive(text, Begin(t), Past(t))
      BY <1>1, <1>2, <1>5 DEF Spelled
    <2> QED BY <1>2, <1>5, <2>1 DEF t, IsPrimitive
  <1> QED BY <1>2, <1>3, <1>4, <1>5 DEF t

-----------------------------------------------------------------------------
(* What stands at an offset, and what a scan passes that moves on from it.  *)

\* Offset p is not inside of a string.
Seam(toks, p) ==
  \A k \in DOMAIN toks : toks[k].type = "string" => p <= Begin(toks[k]) \/ Past(toks[k]) <= p

LEMMA AtSeam ==
  ASSUME NEW text, NEW toks, Tokenized(text, toks), NEW p \in 0 .. (Len(text) - 1), Seam(toks, p)
  PROVE  /\ text[p + 1] \in Opening => \E k \in DOMAIN toks :
              ~Leaf(toks[k]) /\ Begin(toks[k]) = p /\ text[p + 1] = OpeningOf(toks[k].type)
         /\ text[p + 1] \in Closing => \E k \in DOMAIN toks :
              ~Leaf(toks[k]) /\ Past(toks[k]) = p + 1 /\ text[p + 1] = ClosingOf(toks[k].type)
         /\ text[p + 1] = Quote => \E k \in DOMAIN toks :
              toks[k].type = "string" /\ Begin(toks[k]) = p
         /\ text[p + 1] \notin Delimiter \cup Opening \cup {Quote} => \E k \in DOMAIN toks :
              toks[k].type = "primitive" /\ Begin(toks[k]) <= p /\ p < Past(toks[k])
  <1> DEFINE c == text[p + 1]
  <1>0. p \in Int
    BY TextTypes
  <1>1. CASE c \in Separator
    BY <1>1, CharKinds
  <1>2. CASE \E k \in DOMAIN toks : Leaf(toks[k]) /\ Begin(toks[k]) <= p /\ p < Past(toks[k])
    <2>1. PICK k \in DOMAIN toks : Leaf(toks[k]) /\ Begin(toks[k]) <= p /\ p < Past(toks[k])
      BY <1>2
    <2>2. CASE toks[k].type = "string"
      <3>1. p <= Begin(toks[k])
        BY <2>1, <2>2, TokenBounds DEF Seam
      <3>2. Begin(toks[k]) = p
        BY <1>0, <2>1, <3>1, TokenBounds
      <3>3. c = Quote
        BY <2>2, <3>2, Ends
      <3> QED BY <2>2, <3>2, <3>3, CharKinds
    <2>3. CASE toks[k].type = "primitive"
      <3>1. p \in Begin(toks[k]) .. (Past(toks[k]) - 1)
        BY <1>0, <2>1, TokenBounds
      <3>2. c \notin Delimiter \cup Control \cup Opening \cup {Quote}
        BY <2>3, <3>1, Ends
      <3> QED BY <2>1, <2>3, <3>2, CharKinds
    <2> QED BY <2>1, <2>2, <2>3 DEF Leaf
  <1>3. CASE \E k \in DOMAIN toks : ~Leaf(toks[k]) /\ p \in {Begin(toks[k]), Past(toks[k]) - 1}
    <2>1. PICK k \in DOMAIN toks : ~Leaf(toks[k]) /\ p \in {Begin(toks[k]), Past(toks[k]) - 1}
      BY <1>3
    <2>2. p = Begin(toks[k]) \/ p + 1 = Past(toks[k])
      BY <1>0, <2>1, TokenBounds
    <2>3. CASE p = Begin(toks[k])
      <3>1. c = OpeningOf(toks[k].type) /\ c \in Opening
        BY <2>1, <2>3, Ends
      <3> QED BY <2>1, <2>3, <3>1, CharKinds
    <2>4. CASE p + 1 = Past(toks[k])
      <3>1. c = ClosingOf(toks[k].type) /\ c \in Closing
        BY <2>1, <2>4, Ends
      <3> QED BY <2>1, <2>4, <3>1, CharKinds
    <2> QED BY <2>2, <2>3, <2>4
  <1> QED BY <1>1, <1>2, <1>3 DEF Tokenized, Covered

\* A scan that moves from offset p to offset q neither enters nor leaves token t.
Keeps(t, p, q) == (Begin(t) < p <=> Begin(t) < q) /\ (Past(t) <= p <=> Past(t) <= q)

LEMMA SeparatorPassed ==
  ASSUME NEW text, NEW toks, Tokenized(text, toks), NEW p \in 0 .. (Len(text) - 1),
         text[p + 1] \in Separator, NEW j \in DOMAIN toks
  PROVE  Begin(toks[j]) # p /\ Keeps(toks[j], p, p + 1)
  <1> DEFINE b == Begin(toks[j])
             e == Past(toks[j])
  <1>0. p \in Int
    BY TextTypes
  <1>1. b \in Nat /\ e \in Nat /\ b < e
    BY TokenBounds
  <1>2. toks[j].type = "primitive" \/ toks[j].type = "string" \/ ~Leaf(toks[j])
    BY DEF Leaf
  <1>3. b # p /\ e # p + 1
    <2>1. CASE toks[j].type = "primitive"
      <3>1. \A r \in b .. (e - 1) : text[r + 1] \notin Delimiter
        BY <2>1, Ends
      <3>2. p \notin b .. (e - 1)
        BY <3>1, CharKinds
      <3> HIDE DEF b, e
      <3> QED BY <1>0, <1>1, <3>2
    <2>2. CASE toks[j].type = "string"
      <3>1. text[b + 1] = Quote /\ text[e] = Quote
        BY <2>2, Ends
      <3> QED BY <3>1, CharKinds
    <2>3. CASE ~Leaf(toks[j])
      <3>1. text[b + 1] \in Opening /\ text[e] \in Closing
        BY <2>3, Ends
      <3> QED BY <3>1, CharKinds
    <2> QED BY <1>2, <2>1, <2>2, <2>3
  <1> HIDE DEF b, e
  <1>4. (b < p <=> b < p + 1) /\ (e <= p <=> e <= p + 1)
    BY <1>0, <1>1, <1>3
  <1> QED BY <1>3, <1>4 DEF Keeps, b, e

LEMMA LeafPassed ==
  ASSUME NEW text, NEW toks, Tokenized(text, toks), NEW k \in DOMAIN toks, Leaf(toks[k]),
         NEW p \in Nat, NEW q \in Nat, Begin(toks[k]) <= p, p <= q, q <= Past(toks[k]),
         NEW j \in DOMAIN toks, j # k
  PROVE  Keeps(toks[j], p, q)
  <1>1. /\ Begin(toks[j]) \in Nat /\ Past(toks[j]) \in Nat /\ Begin(toks[j]) < Past(toks[j])
        /\ Begin(toks[k]) \in Nat /\ Past(toks[k]) \in Nat
    BY TokenBounds
  <1>2. j \in Int /\ k \in Int
    BY TextTypes
  <1>3. CASE j < k
    <2>1. /\ Begin(toks[j]) < Begin(toks[k])
          /\ Past(toks[j]) <= Begin(toks[k]) \/ Past(toks[k]) < Past(toks[j])
      BY <1>3, TokenOrder
    <2> QED BY <1>1, <2>1 DEF Keeps
  <1>4. CASE k < j
    <2>1. Past(toks[k]) <= Begin(toks[j])
      BY <1>4, TokenOrder
    <2> QED BY <1>1, <2>1 DEF Keeps
  <1> QED BY <1>2, <1>3, <1>4

LEMMA OpenPassed ==
  ASSUME NEW text, NEW toks, Tokenized(text, toks), NEW k \in DOMAIN toks, ~Leaf(toks[k]),
         NEW j \in DOMAIN toks, j # k
  PROVE  Keeps(toks[j], Begin(toks[k]), Begin(toks[k]) + 1)
  <1>1. /\ Begin(toks[j]) \in Nat /\ Past(toks[j]) \in Nat /\ Begin(toks[j]) < Past(toks[j])
        /\ Begin(toks[k]) \in Nat /\ Past(toks[k]) \in Nat /\ Begin(toks[k]) + 1 < Past(toks[k])
    BY TokenBounds
  <1>2. j \in Int /\ k \in Int
    BY TextTypes
  <1>3. CASE j < k
    <2>1. /\ Begin(toks[j]) < Begin(toks[k])
          /\ Past(toks[j]) <= Begin(toks[k]) \/ Past(toks[k]) < Past(toks[j])
      BY <1>3, TokenOrder
    <2> QED BY <1>1, <2>1 DEF Keeps
  <1>4. CASE k < j
    <2>1. Begin(toks[k]) < Begin(toks[j])
      BY <1>4, TokenOrder
    <2> QED BY <1>1, <2>1 DEF Keeps
  <1> QED BY <1>2, <1>3, <1>4

\* The last character of a container is the first or the last one of no other token.
LEMMA ClosePassed ==
  ASSUME NEW text, NEW toks, Tokenized(text, toks), NEW k \in DOMAIN toks, ~Leaf(toks[k]),
         NEW p \in Nat, Past(toks[k]) = p + 1, NEW j \in DOMAIN toks, j # k
  PROVE  Keeps(toks[j], p, p + 1)
  <1> DEFINE b == Begin(toks[j])
             e == Past(toks[j])
  <1>1. /\ b \in Nat /\ e \in Nat /\ b < e
        /\ Begin(toks[k]) \in Nat /\ Begin(toks[k]) < p /\ p + 1 <= Len(text)
    BY TokenBounds
  <1>2. j \in Int /\ k \in Int
    BY TextTypes
  <1>3. text[p + 1] \in Closing
    BY Ends
  <1>4. b # p
    <2>1. CASE toks[j].type = "primitive"
      <3>1. \A r \in b .. (e - 1) : text[r + 1] \notin Delimiter
        BY <2>1, Ends
      <3>2. p \notin b .. (e - 1)
        BY <1>3, <3>1, CharKinds
      <3> HIDE DEF b, e
      <3> QED BY <1>1, <3>2
    <2>2. CASE toks[j].type = "string"
      <3>1. text[b + 1] = Quote
        BY <2>2, Ends
      <3> QED BY <1>3, <3>1, CharKinds
    <2>3. CASE ~Leaf(toks[j])
      <3>1. text[b + 1] \in Opening
        BY <2>3, Ends
      <3> QED BY <1>3, <3>1, CharKinds
    <2> QED BY <2>1, <2>2, <2>3 DEF Leaf
  <1>5. e # p + 1
    <2>1. CASE j < k
      <3>1. e <= Begin(toks[k]) \/ Past(toks[k]) < e
        BY <2>1, TokenOrder
      <3> HIDE DEF b, e
      <3> QED BY <1>1, <3>1
    <2>2. CASE k < j
      <3>1. Past(toks[k]) <= b \/ e < Past(toks[k])
        BY <2>2, TokenOrder
      <3> HIDE DEF b, e
      <3> QED BY <1>1, <3>1
    <2> QED BY <1>2, <2>1, <2>2
  <1> HIDE DEF b, e
  <1>6. (b < p <=> b < p + 1) /\ (e <= p <=> e <= p + 1)
    BY <1>1, <1>4, <1>5
  <1> QED BY <1>6 DEF Keeps, b, e

\* Which tokens an offset is inside of changes only with the tokens that are passed.
LEMMA AroundKept ==
  ASSUME NEW text, NEW toks, Tokenized(text, toks), NEW k \in DOMAIN toks,
         NEW p \in Nat, NEW q \in Nat, Keeps(toks[k], p, q)
  PROVE  k \in Around(toks, p) <=> k \in Around(toks, q)
  <1>1. Begin(toks[k]) \in Nat /\ Past(toks[k]) \in Nat
    BY TokenBounds
  <1>2. /\ p < Past(toks[k]) <=> ~(Past(toks[k]) <= p)
        /\ q < Past(toks[k]) <=> ~(Past(toks[k]) <= q)
    BY <1>1
  <1> QED BY <1>2 DEF Around, Keeps

-----------------------------------------------------------------------------
(* The container or the name a token belongs to.                            *)

LEMMA ColonKind == ":" \in Separator /\ ":" \notin Space /\ ":" \notin Opening /\ ":" \notin Closing
  BY Zenon DEF Separator, Space, Opening, Closing

\* There is one last character that is no space.
LEMMA LastCharacter ==
  ASSUME NEW text, NEW p \in Nat, NEW q \in 0 .. (p - 1), NEW r \in 0 .. (p - 1),
         Blank(text, q + 1, p), Blank(text, r + 1, p),
         text[q + 1] \notin Space, text[r + 1] \notin Space
  PROVE  q = r
  <1>1. q \in Int /\ r \in Int
    OBVIOUS
  <1>2. ~(q < r)
    <2> SUFFICES ASSUME q < r PROVE FALSE
      OBVIOUS
    <2>1. r \in (q + 1) .. (p - 1)
      BY <1>1
    <2> QED BY <2>1 DEF Blank
  <1>3. ~(r < q)
    <2> SUFFICES ASSUME r < q PROVE FALSE
      OBVIOUS
    <2>1. q \in (r + 1) .. (p - 1)
      BY <1>1
    <2> QED BY <2>1 DEF Blank
  <1> QED BY <1>1, <1>2, <1>3

LEMMA AroundType ==
  ASSUME NEW text, NEW toks, Tokenized(text, toks), NEW p \in Nat
  PROVE  /\ Around(toks, p) \in SUBSET (1 .. Len(toks))
         /\ LastOf(Around(toks, p)) \in 0 .. Len(toks)
         /\ Around(toks, p) = {} => LastOf(Around(toks, p)) = 0
         /\ Around(toks, p) # {} =>
              /\ LastOf(Around(toks, p)) \in Around(toks, p)
              /\ \A k \in Around(toks, p) : k <= LastOf(Around(toks, p))
  <1>1. Len(toks) \in Nat /\ DOMAIN toks = 1 .. Len(toks)
    BY TextTypes
  <1>2. Around(toks, p) \in SUBSET (1 .. Len(toks))
    BY <1>1 DEF Around
  <1>3. CASE Around(toks, p) = {}
    BY <1>1, <1>2, <1>3 DEF LastOf
  <1>4. CASE Around(toks, p) # {}
    <2>1. /\ LastOf(Around(toks, p)) \in Around(toks, p)
          /\ \A k \in Around(toks, p) : k <= LastOf(Around(toks, p))
      BY <1>1, <1>2, <1>4, LastOfIsLast
    <2> QED BY <1>1, <1>2, <1>4, <2>1
  <1> QED BY <1>3, <1>4

LEMMA ParentBefore ==
  ASSUME NEW text, NEW toks, Tokenized(text, toks), NEW j \in DOMAIN toks
  PROVE  Parent(text, toks, j) \in 0 .. (j - 1)
  <1>1. j \in 1 .. Len(toks) /\ Len(toks) \in Nat /\ Begin(toks[j]) \in Nat
    BY TextTypes, TokenBounds
  <1>2. CASE Preceded(text, Begin(toks[j]), {":"})
    BY <1>1, <1>2 DEF Parent
  <1>3. CASE ~Preceded(text, Begin(toks[j]), {":"})
    <2> DEFINE i == LastOf(Around(toks, Begin(toks[j])))
    <2>1. Parent(text, toks, j) = i
      BY <1>3 DEF Parent
    <2>2. CASE Around(toks, Begin(toks[j])) = {}
      <3>1. i = 0
        BY <1>1, <2>2, AroundType
      <3> QED BY <1>1, <2>1, <3>1
    <2>3. CASE Around(toks, Begin(toks[j])) # {}
      <3>1. i \in Around(toks, Begin(toks[j])) /\ i \in 0 .. Len(toks)
        BY <1>1, <2>3, AroundType
      <3>2. i \in DOMAIN toks /\ Begin(toks[i]) < Begin(toks[j])
        BY <3>1 DEF Around
      <3> HIDE DEF i
      <3>3. i \in 1 .. Len(toks) /\ Begin(toks[i]) \in Nat
        BY <3>2, TextTypes, TokenBounds
      <3>4. ~(j < i)
        BY <1>1, <3>2, <3>3, TokenOrder
      <3>5. i # j
        BY <1>1, <3>2
      <3> QED BY <1>1, <2>1, <3>3, <3>4, <3>5
    <2> QED BY <2>2, <2>3
  <1> QED BY <1>2, <1>3

LEMMA ParentOf ==
  ASSUME NEW text, NEW toks, Tokenized(text, toks), NEW j \in DOMAIN toks
  PROVE  \A q \in 0 .. (Begin(toks[j]) - 1) : Blank(text, q + 1, Begin(toks[j])) =>
           /\ text[q + 1] = ":" => Parent(text, toks, j) = j - 1
           /\ text[q + 1] \notin Space /\ text[q + 1] # ":" =>
                Parent(text, toks, j) = LastOf(Around(toks, Begin(toks[j])))
  <1> DEFINE b == Begin(toks[j])
  <1>1. b \in Nat
    BY TokenBounds
  <1>2. ASSUME NEW q \in 0 .. (b - 1), Blank(text, q + 1, b), text[q + 1] = ":"
        PROVE  Parent(text, toks, j) = j - 1
    <2>1. Preceded(text, b, {":"})
      BY <1>2 DEF Preceded
    <2> QED BY <2>1 DEF Parent
  <1>3. ASSUME NEW q \in 0 .. (b - 1), Blank(text, q + 1, b), text[q + 1] \notin Space, text[q + 1] # ":"
        PROVE  ~Preceded(text, b, {":"})
    <2> SUFFICES ASSUME NEW r \in 0 .. (b - 1), text[r + 1] = ":", Blank(text, r + 1, b) PROVE FALSE
      BY DEF Preceded
    <2>1. text[r + 1] \notin Space
      BY ColonKind
    <2> HIDE DEF b
    <2>2. q = r
      BY <1>1, <1>3, <2>1, LastCharacter
    <2> QED BY <1>3, <2>2
  <1> QED BY <1>2, <1>3 DEF Parent

-----------------------------------------------------------------------------
(* The invariant, first part: where the parser is in the text, and which    *)
(* containers it holds open.  It holds however the text is cut.             *)

\* js is the part of the text that has been read.
OnText(text) == Len(js) <= Len(text) /\ \A p \in 0 .. (Len(js) - 1) : js[p + 1] = text[p + 1]

\* A string is scanned from its quote on, and no escaped character is taken for a quote; only
\* at the end of js may the scan be in the middle of an escape.
InLiteral(text, toks) ==
  pc = "string" => \E k \in DOMAIN toks : \E E :
    /\ toks[k].type = "string" /\ start = Begin(toks[k])
    /\ toks[k].start <= pos /\ pos <= toks[k].end
    /\ EscapesAt(text, toks[k].start, toks[k].end, E)
    /\ pos - 1 \notin E \/ pos = Len(js)

\* The open containers are those the scan is inside of.
OpenMatch(toks) ==
  /\ \A o \in OpenTokens : \E k \in Around(toks, Scanned) :
       /\ ~Leaf(toks[k])
       /\ tokens[o].start = Begin(toks[k]) /\ tokens[o].type = toks[k].type
  /\ storing => \A k \in Around(toks, Scanned) : ~Leaf(toks[k]) =>
       \E o \in OpenTokens : tokens[o].start = Begin(toks[k])

\* A JSON text is never called invalid, and incomplete only if there is more of it.
Answers(text) ==
  pc = "idle" =>
    /\ result # INVAL
    /\ result = PART => Len(js) < Len(text)
    /\ result >= 0 => OpenTokens = {} /\ pos = Len(js) /\ result = count

Follows(text, toks) ==
  /\ OnText(text) /\ Seam(toks, Scanned) /\ InLiteral(text, toks)
  /\ OpenMatch(toks) /\ Answers(text)
  /\ storing \/ tokens = <<>>

-----------------------------------------------------------------------------
(* Second part, for a text that is not cut inside of a primitive: what has  *)
(* been stored is what the text holds so far.                               *)

Uncut(toks) ==
  \A k \in DOMAIN toks : toks[k].type = "primitive" =>
    ~(Begin(toks[k]) < Len(js) /\ Len(js) < Past(toks[k]))

Whole(toks) ==
  \A k \in DOMAIN toks : toks[k].type = "primitive" =>
    Scanned <= Begin(toks[k]) \/ Past(toks[k]) <= Scanned

\* The strict build only counts here, on the whole of a text that does not end in a primitive.
Countable(text, toks) ==
  strict =>
    /\ ~storing /\ js = text /\ Whole(toks)
    /\ \A k \in DOMAIN toks : toks[k].type = "primitive" => Past(toks[k]) # Len(text)

\* The number of tokens found so far, and that they are the first ones of the text.
Found == IF storing THEN Len(tokens) ELSE count
Begun(toks) ==
  Found <= Len(toks) /\ \A k \in DOMAIN toks : k <= Found <=> Begin(toks[k]) < Scanned

\* The children of token k among the first n tokens.
Children(text, toks, n, k) == {j \in 1 .. n : Parent(text, toks, j) = k}

StoredSoFar(text, toks) ==
  \A k \in DOMAIN tokens :
    /\ tokens[k].type = toks[k].type /\ tokens[k].start = toks[k].start
    /\ tokens[k].end = IF Past(toks[k]) <= Scanned THEN toks[k].end ELSE -1
    /\ tokens[k].size = Cardinality(Children(text, toks, Len(tokens), k))

\* The superior token is the name before a colon or the container around.
Turn == Opening \cup (Separator \ (Space \cup {":"}))
Superior(text) ==
  /\ \A q \in 0 .. (Scanned - 1) : Blank(text, q + 1, Scanned) =>
       /\ text[q + 1] = ":" => toksuper = Len(tokens)
       /\ text[q + 1] \in Turn => toksuper = LastOf(OpenTokens)
  /\ toksuper = LastOf(OpenTokens) \/ (toksuper # 0 /\ ~IsContainer(toksuper))

Agrees(text, toks) ==
  /\ Whole(toks) /\ Begun(toks)
  /\ storing => StoredSoFar(text, toks) /\ Superior(text)

-----------------------------------------------------------------------------
(* Steps on a text.                                                         *)

LEMMA Reading ==
  ASSUME NEW text, NEW toks, Tokenized(text, toks), ParserInv, OnText(text),
         NEW p \in Nat, p <= Len(js)
  PROVE  /\ Stopped(p) <=> p = Len(js)
         /\ p < Len(js) => At(p) = text[p + 1] /\ p \in 0 .. (Len(text) - 1)
  <1>1. Len(js) \in Nat /\ Len(text) \in Nat /\ Len(js) <= Len(text)
    BY InvFacts, TextTypes DEF OnText
  <1>2. ASSUME p < Len(js) PROVE At(p) = text[p + 1] /\ p \in 0 .. (Len(text) - 1) /\ ~Stopped(p)
    <2>1. p \in 0 .. (Len(js) - 1) /\ p \in 0 .. (Len(text) - 1)
      BY <1>1, <1>2
    <2>2. At(p) = text[p + 1] /\ text[p + 1] # NUL
      BY <2>1, TextTypes DEF At, OnText
    <2> QED BY <1>2, <2>1, <2>2 DEF Stopped
  <1>3. p = Len(js) => Stopped(p)
    BY <1>1 DEF Stopped
  <1> QED BY <1>1, <1>2, <1>3

\* A step that moves neither on nor back between the tokens.
LEMMA Still ==
  ASSUME NEW text, NEW toks, Follows(text, toks), UNCHANGED <<js, tokens, storing, toksuper, count>>,
         Scanned' = Scanned, InLiteral(text, toks)', Answers(text)'
  PROVE  Follows(text, toks)' /\ (Agrees(text, toks) => Agrees(text, toks)')
  <1>1. OpenTokens' = OpenTokens
    BY DEF OpenTokens, IsOpen
  <1>2. OnText(text)' /\ Seam(toks, Scanned)' /\ OpenMatch(toks)' /\ (storing \/ tokens = <<>>)'
    BY <1>1 DEF Follows, OnText, Seam, OpenMatch
  <1>3. Follows(text, toks)'
    BY <1>2 DEF Follows
  <1>4. ASSUME Agrees(text, toks) PROVE Agrees(text, toks)'
    <2>1. Whole(toks)' /\ Begun(toks)'
      BY <1>4 DEF Agrees, Whole, Begun, Found
    <2>2. storing => StoredSoFar(text, toks)' /\ Superior(text)'
      BY <1>1, <1>4 DEF Agrees, StoredSoFar, Superior, IsContainer
    <2> QED BY <2>1, <2>2 DEF Agrees
  <1> QED BY <1>3, <1>4

\* The call ends for want of tokens.
LEMMA StopsFull ==
  ASSUME NEW text, NEW toks, Follows(text, toks), UNCHANGED js,
         (Return(NOMEM) /\ pc = "parse") \/ (GiveBack(NOMEM) /\ pc = "string")
  PROVE  Follows(text, toks)' /\ (Agrees(text, toks) => Agrees(text, toks)')
  <1>1. UNCHANGED <<js, tokens, storing, toksuper, count>> /\ pc' = "idle" /\ result' = NOMEM
    BY DEF Return, GiveBack
  <1>2. Scanned' = Scanned
    BY <1>1 DEF Return, GiveBack, Scanned
  <1>3. InLiteral(text, toks)' /\ Answers(text)'
    BY <1>1 DEF InLiteral, Answers, NOMEM, INVAL, PART
  <1> QED BY <1>1, <1>2, <1>3, Still


\* The type of a container is that of its brackets.
LEMMA Brackets ==
  ASSUME NEW t \in {"object", "array"}, NEW c
  PROVE  /\ c = OpeningOf(t) => (IF c = "{" THEN "object" ELSE "array") = t
         /\ c = ClosingOf(t) => (IF c = "}" THEN "object" ELSE "array") = t
  BY Zenon DEF OpeningOf, ClosingOf

LEMMA SameBegin ==
  ASSUME NEW text, NEW toks, Tokenized(text, toks),
         NEW j \in DOMAIN toks, NEW k \in DOMAIN toks, Begin(toks[j]) = Begin(toks[k])
  PROVE  j = k
  <1>1. /\ j \in Int /\ k \in Int /\ Begin(toks[j]) \in Nat /\ Begin(toks[k]) \in Nat
    BY TextTypes, TokenBounds
  <1>2. ~(j < k) /\ ~(k < j)
    BY <1>1, TokenOrder
  <1> QED BY <1>1, <1>2

\* A token is added: it is open if it has no end yet.
LEMMA OpenAfterAdded ==
  ASSUME ParserInv, NEW type \in Type, NEW s \in Nat, NEW e \in Nat \cup {-1},
         tokens' = Counted(Fresh(type, s, e))
  PROVE  OpenTokens' = IF e = -1 THEN OpenTokens \cup {Len(tokens) + 1} ELSE OpenTokens
  <1>1. /\ tokens' \in Seq(Token) /\ Len(tokens') = Len(tokens) + 1
        /\ \A k \in DOMAIN tokens : tokens'[k].end = tokens[k].end
        /\ tokens'[Len(tokens) + 1].end = e
    BY Added
  <1>2. Len(tokens) \in Nat /\ DOMAIN tokens = 1 .. Len(tokens)
    BY InvFacts
  <1>3. DOMAIN tokens' = DOMAIN tokens \cup {Len(tokens) + 1}
    BY <1>1, <1>2
  <1>4. \A o : o \in OpenTokens' <=> o \in DOMAIN tokens' /\ tokens'[o].end = -1
    BY DEF OpenTokens, IsOpen
  <1>5. \A o : o \in OpenTokens <=> o \in DOMAIN tokens /\ tokens[o].end = -1
    BY DEF OpenTokens, IsOpen
  <1> QED BY ZenonT(30), <1>1, <1>3, <1>4, <1>5

LEMMA OpenAfterClosed ==
  ASSUME ParserInv, OpenTokens # {}, pc = "parse", pos < Len(js),
         NEW c, c = LastOf(OpenTokens), tokens' = [tokens EXCEPT ![c].end = pos + 1]
  PROVE  OpenTokens' = OpenTokens \ {c}
  <1>1. /\ tokens' \in Seq(Token) /\ Len(tokens') = Len(tokens)
        /\ \A k \in DOMAIN tokens : tokens'[k].end = IF k = c THEN pos + 1 ELSE tokens[k].end
    BY ClosedNests
  <1>2. DOMAIN tokens' = DOMAIN tokens /\ pos \in Nat
    BY <1>1, InvFacts
  <1>3. pos + 1 # -1
    BY <1>2
  <1>4. \A o : o \in OpenTokens' <=> o \in DOMAIN tokens' /\ tokens'[o].end = -1
    BY DEF OpenTokens, IsOpen
  <1>5. \A o : o \in OpenTokens <=> o \in DOMAIN tokens /\ tokens[o].end = -1
    BY DEF OpenTokens, IsOpen
  <1> QED BY <1>1, <1>2, <1>3, <1>4, <1>5

\* The scan passes separators and leaves: the same containers are open.
LEMMA Passed ==
  ASSUME NEW text, NEW toks, Tokenized(text, toks), ParserInv, Follows(text, toks),
         UNCHANGED <<js, storing>>, Scanned' \in Nat, pc' = "parse",
         \A k \in DOMAIN toks : Keeps(toks[k], Scanned, Scanned') \/
           (Leaf(toks[k]) /\ (toks[k].type = "string" => Past(toks[k]) <= Scanned')),
         \A k \in DOMAIN toks : ~Leaf(toks[k]) => Keeps(toks[k], Scanned, Scanned'),
         OpenTokens' = OpenTokens, storing \/ tokens' = <<>>,
         \A o \in OpenTokens : tokens'[o].start = tokens[o].start /\ tokens'[o].type = tokens[o].type
  PROVE  Follows(text, toks)'
  <1>1. Scanned \in Nat
    BY InvFacts
  <1>2. OnText(text)' /\ InLiteral(text, toks)' /\ Answers(text)' /\ (storing \/ tokens = <<>>)'
    BY DEF Follows, OnText, InLiteral, Answers
  <1>3. Seam(toks, Scanned)'
    <2> SUFFICES ASSUME NEW k \in DOMAIN toks, toks[k].type = "string"
                 PROVE  Scanned' <= Begin(toks[k]) \/ Past(toks[k]) <= Scanned'
      BY DEF Seam
    <2>1. Begin(toks[k]) \in Nat /\ Past(toks[k]) \in Nat
      BY TokenBounds
    <2>2. Scanned <= Begin(toks[k]) \/ Past(toks[k]) <= Scanned
      BY DEF Follows, Seam
    <2>3. Keeps(toks[k], Scanned, Scanned') \/ Past(toks[k]) <= Scanned'
      OBVIOUS
    <2> QED BY <1>1, <2>1, <2>2, <2>3 DEF Keeps
  <1>4. \A k \in DOMAIN toks : ~Leaf(toks[k]) =>
          (k \in Around(toks, Scanned) <=> k \in Around(toks, Scanned'))
    BY <1>1, AroundKept
  <1>5. \A p : \A k \in Around(toks, p) : k \in DOMAIN toks
    BY DEF Around
  <1>6. OpenMatch(toks)'
    <2>1. ASSUME NEW o \in OpenTokens'
          PROVE  \E k \in Around(toks, Scanned') :
                   /\ ~Leaf(toks[k])
                   /\ tokens'[o].start = Begin(toks[k]) /\ tokens'[o].type = toks[k].type
      <3>1. o \in OpenTokens /\ tokens'[o].start = tokens[o].start /\ tokens'[o].type = tokens[o].type
        BY <2>1
      <3>2. PICK k \in Around(toks, Scanned) :
              /\ ~Leaf(toks[k])
              /\ tokens[o].start = Begin(toks[k]) /\ tokens[o].type = toks[k].type
        BY <3>1 DEF Follows, OpenMatch
      <3>3. k \in Around(toks, Scanned')
        BY <1>4, <1>5, <3>2
      <3> QED BY <3>1, <3>2, <3>3
    <2>2. ASSUME storing', NEW k \in Around(toks, Scanned'), ~Leaf(toks[k])
          PROVE  \E o \in OpenTokens' : tokens'[o].start = Begin(toks[k])
      <3>1. k \in Around(toks, Scanned)
        BY <1>4, <1>5, <2>2
      <3>2. \E o \in OpenTokens : tokens[o].start = Begin(toks[k])
        BY <2>2, <3>1 DEF Follows, OpenMatch
      <3> QED BY <3>2
    <2> QED BY <2>1, <2>2 DEF OpenMatch
  <1> QED BY <1>2, <1>3, <1>6 DEF Follows

LEMMA FollowsSeparator ==
  ASSUME NEW text, NEW toks, Tokenized(text, toks), ParserInv, Follows(text, toks),
         SkipSpace \/ Colon \/ Comma
  PROVE  /\ Follows(text, toks)'
         /\ pc = "parse" /\ pc' = "parse" /\ pos' = pos + 1 /\ pos \in 0 .. (Len(text) - 1)
         /\ At(pos) = text[pos + 1] /\ text[pos + 1] \in Separator
         /\ \A k \in DOMAIN toks :
              Begin(toks[k]) # Scanned /\ Keeps(toks[k], Scanned, Scanned')
  <1>1. /\ pc = "parse" /\ ~Stopped(pos) /\ pos' = pos + 1
        /\ UNCHANGED <<js, tokens, storing, pc>>
    BY DEF SkipSpace, Colon, Comma, Scanning
  <1>2. At(pos) \in Separator
    BY Zenon DEF SkipSpace, Colon, Comma, Separator
  <1>3. pos \in Nat /\ pos <= Len(js) /\ pos \in 0 .. Len(js) /\ Len(js) \in Nat
    BY InvFacts
  <1>4. OnText(text)
    BY DEF Follows
  <1>5. pos < Len(js) /\ At(pos) = text[pos + 1] /\ pos \in 0 .. (Len(text) - 1)
    BY <1>1, <1>3, <1>4, Reading
  <1>6. Scanned = pos /\ Scanned' = pos + 1
    BY <1>1 DEF Scanned
  <1>7. text[pos + 1] \in Separator
    BY <1>2, <1>5
  <1>8. \A k \in DOMAIN toks : Begin(toks[k]) # Scanned /\ Keeps(toks[k], Scanned, Scanned')
    BY <1>5, <1>6, <1>7, SeparatorPassed
  <1>9. OpenTokens' = OpenTokens
    BY <1>1 DEF OpenTokens, IsOpen
  <1>10. Scanned' \in Nat
    BY <1>3, <1>6
  <1>11. storing \/ tokens' = <<>>
    BY <1>1 DEF Follows
  <1>12. Follows(text, toks)'
    BY <1>1, <1>8, <1>9, <1>10, <1>11, Passed
  <1> QED BY <1>1, <1>2, <1>5, <1>7, <1>8, <1>12


\* What the parser does at an opening bracket.
LEMMA AtOpening ==
  ASSUME NEW text, NEW toks, Tokenized(text, toks), ParserInv, Follows(text, toks),
         OpenContainer, ~Return(NOMEM)
  PROVE  \E k \in DOMAIN toks :
           /\ ~Leaf(toks[k]) /\ Begin(toks[k]) = pos /\ text[pos + 1] \in Opening
           /\ pos \in 0 .. (Len(text) - 1) /\ pc = "parse" /\ pc' = "parse"
           /\ UNCHANGED <<js, storing>> /\ pos' = pos + 1 /\ count' = count + 1
           /\ tokens' = IF storing THEN Counted(Fresh(toks[k].type, pos, -1)) ELSE tokens
           /\ toksuper' = IF storing THEN Len(tokens) + 1 ELSE toksuper
  <1>0. tokens' = IF storing
          THEN Counted(Fresh(IF At(pos) = "{" THEN "object" ELSE "array", pos, -1)) ELSE tokens
    BY Zenon DEF OpenContainer
  <1>1. /\ pc = "parse" /\ ~Stopped(pos) /\ UNCHANGED <<js, storing, pc>>
        /\ toksuper' = (IF storing THEN Len(tokens) + 1 ELSE toksuper)
        /\ pos' = pos + 1 /\ count' = count + 1
    BY Zenon DEF OpenContainer, Scanning
  <1>2. At(pos) \in Opening
    BY Zenon DEF OpenContainer, Opening
  <1>3. pos \in Nat /\ pos <= Len(js) /\ Len(js) \in Nat
    BY InvFacts
  <1>4. pos < Len(js) /\ At(pos) = text[pos + 1] /\ pos \in 0 .. (Len(text) - 1)
    BY <1>1, <1>3, Reading DEF Follows
  <1>5. Scanned = pos
    BY <1>1 DEF Scanned
  <1>6. PICK k \in DOMAIN toks :
          ~Leaf(toks[k]) /\ Begin(toks[k]) = pos /\ text[pos + 1] = OpeningOf(toks[k].type)
    BY <1>2, <1>4, <1>5, AtSeam DEF Follows
  <1>7. toks[k].type \in {"object", "array"}
    BY <1>6, TokenBounds
  <1>8. (IF At(pos) = "{" THEN "object" ELSE "array") = toks[k].type
    BY <1>4, <1>6, <1>7, Brackets
  <1>9. tokens' = IF storing THEN Counted(Fresh(toks[k].type, pos, -1)) ELSE tokens
    BY Zenon, <1>0, <1>8
  <1>10. text[pos + 1] \in Opening
    BY <1>2, <1>4
  <1>11. /\ UNCHANGED <<js, storing>> /\ pos' = pos + 1 /\ count' = count + 1
         /\ toksuper' = (IF storing THEN Len(tokens) + 1 ELSE toksuper)
         /\ pc = "parse" /\ pc' = "parse"
    BY Zenon, <1>1
  <1> QED BY Zenon, <1>4, <1>6, <1>9, <1>10, <1>11

LEMMA FollowsOpen ==
  ASSUME NEW text, NEW toks, Tokenized(text, toks), ParserInv, Follows(text, toks),
         OpenContainer, ~Return(NOMEM)
  PROVE  Follows(text, toks)'
  <1>1. PICK k \in DOMAIN toks :
           /\ ~Leaf(toks[k]) /\ Begin(toks[k]) = pos /\ text[pos + 1] \in Opening
           /\ pos \in 0 .. (Len(text) - 1) /\ pc = "parse" /\ pc' = "parse"
           /\ UNCHANGED <<js, storing>> /\ pos' = pos + 1 /\ count' = count + 1
           /\ tokens' = IF storing THEN Counted(Fresh(toks[k].type, pos, -1)) ELSE tokens
           /\ toksuper' = IF storing THEN Len(tokens) + 1 ELSE toksuper
    BY AtOpening
  <1>2. pos \in Nat /\ Scanned = pos /\ Scanned' = pos + 1 /\ pos + 1 \in Nat
        /\ Len(tokens) \in Nat /\ DOMAIN tokens = 1 .. Len(tokens)
    BY <1>1, InvFacts DEF Scanned
  <1>3. \A j \in DOMAIN toks : j # k => Keeps(toks[j], Scanned, Scanned')
    BY <1>1, <1>2, OpenPassed
  <1>4. \A j \in DOMAIN toks : j # k =>
          (j \in Around(toks, Scanned) <=> j \in Around(toks, Scanned'))
    BY <1>2, <1>3, AroundKept
  <1>5. k \in Around(toks, Scanned') /\ k \notin Around(toks, Scanned)
    BY <1>1, <1>2, TokenBounds DEF Around
  <1>6. \A p : \A j \in Around(toks, p) : j \in DOMAIN toks
    BY DEF Around
  <1>7. OnText(text)' /\ InLiteral(text, toks)' /\ Answers(text)'
    BY <1>1 DEF Follows, OnText, InLiteral, Answers
  <1>8. Seam(toks, Scanned)'
    <2> SUFFICES ASSUME NEW j \in DOMAIN toks, toks[j].type = "string"
                 PROVE  Scanned' <= Begin(toks[j]) \/ Past(toks[j]) <= Scanned'
      BY DEF Seam
    <2>1. Begin(toks[j]) \in Nat /\ Past(toks[j]) \in Nat
      BY TokenBounds
    <2>2. Scanned <= Begin(toks[j]) \/ Past(toks[j]) <= Scanned
      BY DEF Follows, Seam
    <2>3. j # k
      BY <1>1 DEF Leaf
    <2> QED BY <1>2, <1>3, <2>1, <2>2, <2>3 DEF Keeps
  <1>9. CASE storing
    <2> DEFINE n == Len(tokens) + 1
    <2>1. toks[k].type \in Type /\ -1 \in Nat \cup {-1}
      BY TokenBounds
    <2>2. /\ \A o \in DOMAIN tokens :
               tokens'[o].type = tokens[o].type /\ tokens'[o].start = tokens[o].start
          /\ tokens'[n].type = toks[k].type /\ tokens'[n].start = pos
      BY <1>1, <1>2, <1>9, <2>1, Added
    <2>3. OpenTokens' = OpenTokens \cup {n}
      BY <1>1, <1>2, <1>9, <2>1, OpenAfterAdded
    <2>4. \A o \in OpenTokens : o \in DOMAIN tokens
      BY DEF OpenTokens
    <2> HIDE DEF n
    <2>5. ASSUME NEW o \in OpenTokens'
          PROVE  \E j \in Around(toks, Scanned') :
                   /\ ~Leaf(toks[j])
                   /\ tokens'[o].start = Begin(toks[j]) /\ tokens'[o].type = toks[j].type
      <3>1. CASE o = n
        BY <1>1, <1>5, <2>2, <3>1
      <3>2. CASE o \in OpenTokens
        <4>1. PICK j \in Around(toks, Scanned) :
                /\ ~Leaf(toks[j])
                /\ tokens[o].start = Begin(toks[j]) /\ tokens[o].type = toks[j].type
          BY <3>2 DEF Follows, OpenMatch
        <4>2. j \in Around(toks, Scanned')
          BY <1>4, <1>5, <1>6, <4>1
        <4> QED BY <2>2, <2>4, <3>2, <4>1, <4>2
      <3> QED BY <2>3, <2>5, <3>1, <3>2
    <2>6. ASSUME NEW j \in Around(toks, Scanned'), ~Leaf(toks[j])
          PROVE  \E o \in OpenTokens' : tokens'[o].start = Begin(toks[j])
      <3>1. CASE j = k
        BY <1>1, <2>2, <2>3, <3>1
      <3>2. CASE j # k
        <4>1. j \in Around(toks, Scanned)
          BY <1>4, <1>6, <2>6, <3>2
        <4>2. PICK o \in OpenTokens : tokens[o].start = Begin(toks[j])
          BY <1>9, <2>6, <4>1 DEF Follows, OpenMatch
        <4> QED BY <2>2, <2>3, <2>4, <4>2
      <3> QED BY <3>1, <3>2
    <2>7. OpenMatch(toks)'
      BY <2>5, <2>6 DEF OpenMatch
    <2>8. (storing \/ tokens = <<>>)'
      BY <1>1, <1>9
    <2> QED BY <1>7, <1>8, <2>7, <2>8 DEF Follows
  <1>10. CASE ~storing
    <2>1. tokens' = <<>> /\ ~storing'
      BY <1>1, <1>10 DEF Follows
    <2>2. OpenTokens' = {}
      BY <2>1 DEF OpenTokens
    <2>3. OpenMatch(toks)'
      BY <2>1, <2>2 DEF OpenMatch
    <2> QED BY <1>7, <1>8, <2>1, <2>3 DEF Follows
  <1> QED BY <1>9, <1>10

\* What the parser finds at a closing bracket: the container it has opened last.
LEMMA AtClosing ==
  ASSUME NEW text, NEW toks, Tokenized(text, toks), ParserInv, Follows(text, toks), CloseContainer
  PROVE  \E k \in DOMAIN toks :
           /\ ~Leaf(toks[k]) /\ Past(toks[k]) = pos + 1 /\ text[pos + 1] \in Closing
           /\ pos \in 0 .. (Len(text) - 1) /\ pc = "parse" /\ pc' = "parse"
           /\ UNCHANGED <<js, storing, count>> /\ pos' = pos + 1
           /\ ~storing => UNCHANGED tokens
           /\ storing =>
                /\ OpenTokens # {} /\ pos < Len(js)
                /\ tokens[LastOf(OpenTokens)].start = Begin(toks[k])
                /\ tokens' = [tokens EXCEPT ![LastOf(OpenTokens)].end = pos + 1]
                /\ toksuper' = Enclosing(LastOf(OpenTokens))
  <1> DEFINE c == LastOf(OpenTokens)
             type == IF At(pos) = "}" THEN "object" ELSE "array"
  <1>1. pc = "parse" /\ ~Stopped(pos) /\ UNCHANGED js
    BY DEF CloseContainer, Scanning
  <1>2. At(pos) \in Closing
    BY Zenon DEF CloseContainer, Closing
  <1>3. \/ storing /\ ~(c # 0 /\ tokens[c].type = type)
        \/ /\ storing /\ tokens' = [tokens EXCEPT ![c].end = pos + 1]
           /\ toksuper' = Enclosing(c) /\ pos' = pos + 1
           /\ UNCHANGED <<storing, count, pc>>
        \/ ~storing /\ pos' = pos + 1 /\ UNCHANGED <<tokens, storing, count, pc>>
    BY Zenon DEF CloseContainer, InnermostOpen
  <1>4. pos \in Nat /\ pos <= Len(js) /\ Len(js) \in Nat
    BY InvFacts
  <1>5. pos < Len(js) /\ At(pos) = text[pos + 1] /\ pos \in 0 .. (Len(text) - 1)
    BY <1>1, <1>4, Reading DEF Follows
  <1>6. Scanned = pos
    BY <1>1 DEF Scanned
  <1>7. PICK k \in DOMAIN toks :
          ~Leaf(toks[k]) /\ Past(toks[k]) = pos + 1 /\ text[pos + 1] = ClosingOf(toks[k].type)
    BY <1>2, <1>5, <1>6, AtSeam DEF Follows
  <1>8. toks[k].type \in {"object", "array"} /\ k \in Around(toks, pos)
    BY <1>4, <1>7, TokenBounds DEF Around
  <1>9. type = toks[k].type
    BY <1>5, <1>7, <1>8, Brackets
  <1>10. text[pos + 1] \in Closing
    BY <1>2, <1>5
  <1> HIDE DEF type
  <1>11. CASE storing
    <2>1. PICK o \in OpenTokens : tokens[o].start = Begin(toks[k])
      BY <1>6, <1>7, <1>8, <1>11 DEF Follows, OpenMatch
    <2>2. /\ OpenTokens \in SUBSET (1 .. Len(tokens)) /\ Len(tokens) \in Nat
          /\ DOMAIN tokens = 1 .. Len(tokens)
      BY InvFacts DEF OpenTokens
    <2>3. c \in OpenTokens /\ o <= c
      BY <2>1, <2>2, LastOfIsLast
    <2> HIDE DEF c
    <2>4. PICK m \in Around(toks, pos) :
            ~Leaf(toks[m]) /\ tokens[c].start = Begin(toks[m]) /\ tokens[c].type = toks[m].type
      BY <1>6, <2>3 DEF Follows, OpenMatch
    <2>5. m \in DOMAIN toks /\ Begin(toks[m]) < pos /\ pos < Past(toks[m])
      BY <2>4 DEF Around
    <2>6. /\ Begin(toks[k]) \in Nat /\ Begin(toks[m]) \in Nat /\ Past(toks[m]) \in Nat
          /\ m \in Int /\ k \in Int
      BY <2>5, TokenBounds, TextTypes
    <2>7. Begin(toks[k]) <= Begin(toks[m])
      <3>1. c = o \/ o < c
        BY <2>2, <2>3
      <3>2. o < c => tokens[o].start < tokens[c].start
        BY <2>2, <2>3 DEF ParserInv, TokensNest
      <3> QED BY <2>1, <2>4, <2>6, <3>1, <3>2
    <2>8. ~(k < m)
      <3> SUFFICES ASSUME k < m PROVE FALSE
        OBVIOUS
      <3>1. Past(toks[k]) <= Begin(toks[m]) \/ Past(toks[m]) < Past(toks[k])
        BY <2>5, TokenOrder
      <3> QED BY <1>4, <1>7, <2>5, <2>6, <3>1
    <2>9. ~(m < k)
      <3> SUFFICES ASSUME m < k PROVE FALSE
        OBVIOUS
      <3>1. Begin(toks[m]) < Begin(toks[k])
        BY <2>5, TokenOrder
      <3> QED BY <2>6, <2>7, <3>1
    <2>10. m = k
      BY <2>6, <2>8, <2>9
    <2>11. c # 0 /\ tokens[c].type = type /\ tokens[c].start = Begin(toks[k])
      BY <1>9, <2>2, <2>3, <2>4, <2>10
    <2> QED BY <1>1, <1>3, <1>5, <1>7, <1>10, <1>11, <2>3, <2>11 DEF c
  <1>12. CASE ~storing
    BY <1>1, <1>3, <1>5, <1>7, <1>10, <1>12
  <1> QED BY <1>11, <1>12

LEMMA FollowsClose ==
  ASSUME NEW text, NEW toks, Tokenized(text, toks), ParserInv, Follows(text, toks), CloseContainer
  PROVE  Follows(text, toks)'
  <1> DEFINE c == LastOf(OpenTokens)
  <1>1. PICK k \in DOMAIN toks :
           /\ ~Leaf(toks[k]) /\ Past(toks[k]) = pos + 1 /\ text[pos + 1] \in Closing
           /\ pos \in 0 .. (Len(text) - 1) /\ pc = "parse" /\ pc' = "parse"
           /\ UNCHANGED <<js, storing, count>> /\ pos' = pos + 1
           /\ ~storing => UNCHANGED tokens
           /\ storing =>
                /\ OpenTokens # {} /\ pos < Len(js)
                /\ tokens[c].start = Begin(toks[k])
                /\ tokens' = [tokens EXCEPT ![c].end = pos + 1]
    BY AtClosing
  <1>2. pos \in Nat /\ Scanned = pos /\ Scanned' = pos + 1 /\ pos + 1 \in Nat
        /\ Len(tokens) \in Nat /\ DOMAIN tokens = 1 .. Len(tokens)
    BY <1>1, InvFacts DEF Scanned
  <1>3. \A j \in DOMAIN toks : j # k => Keeps(toks[j], Scanned, Scanned')
    BY <1>1, <1>2, ClosePassed
  <1>4. \A j \in DOMAIN toks : j # k =>
          (j \in Around(toks, Scanned) <=> j \in Around(toks, Scanned'))
    BY <1>2, <1>3, AroundKept
  <1>5. k \notin Around(toks, Scanned')
    BY <1>1, <1>2 DEF Around
  <1>6. \A p : \A j \in Around(toks, p) : j \in DOMAIN toks
    BY DEF Around
  <1>7. OnText(text)' /\ InLiteral(text, toks)' /\ Answers(text)'
    BY <1>1 DEF Follows, OnText, InLiteral, Answers
  <1>8. Seam(toks, Scanned)'
    <2> SUFFICES ASSUME NEW j \in DOMAIN toks, toks[j].type = "string"
                 PROVE  Scanned' <= Begin(toks[j]) \/ Past(toks[j]) <= Scanned'
      BY DEF Seam
    <2>1. Begin(toks[j]) \in Nat /\ Past(toks[j]) \in Nat
      BY TokenBounds
    <2>2. Scanned <= Begin(toks[j]) \/ Past(toks[j]) <= Scanned
      BY DEF Follows, Seam
    <2>3. j # k
      BY <1>1 DEF Leaf
    <2> QED BY <1>2, <1>3, <2>1, <2>2, <2>3 DEF Keeps
  <1>9. CASE storing
    <2>1. /\ OpenTokens \in SUBSET (1 .. Len(tokens)) /\ c \in OpenTokens
      BY <1>1, <1>2, <1>9, LastOfIsLast DEF OpenTokens
    <2>2. \A o \in DOMAIN tokens :
            tokens'[o].type = tokens[o].type /\ tokens'[o].start = tokens[o].start
      BY <1>1, <1>9, ClosedNests
    <2>3. OpenTokens' = OpenTokens \ {c}
      BY <1>1, <1>9, OpenAfterClosed
    <2> HIDE DEF c
    <2>4. \A o \in OpenTokens : o # c => tokens[o].start # Begin(toks[k])
      <3> SUFFICES ASSUME NEW o \in OpenTokens, o # c PROVE tokens[o].start # tokens[c].start
        BY <1>1, <1>9
      <3>1. o \in 1 .. Len(tokens) /\ c \in 1 .. Len(tokens)
        BY <2>1
      <3>2. tokens[o].start \in Nat /\ tokens[c].start \in Nat
        BY <3>1, InvFacts
      <3>3. o < c \/ c < o
        BY <3>1
      <3>4. tokens[o].start < tokens[c].start \/ tokens[c].start < tokens[o].start
        BY <1>2, <3>1, <3>3 DEF ParserInv, TokensNest
      <3> QED BY <3>2, <3>4
    <2>5. ASSUME NEW o \in OpenTokens'
          PROVE  \E j \in Around(toks, Scanned') :
                   /\ ~Leaf(toks[j])
                   /\ tokens'[o].start = Begin(toks[j]) /\ tokens'[o].type = toks[j].type
      <3>1. o \in OpenTokens /\ o # c
        BY <2>3
      <3>2. PICK j \in Around(toks, Scanned) :
              /\ ~Leaf(toks[j])
              /\ tokens[o].start = Begin(toks[j]) /\ tokens[o].type = toks[j].type
        BY <3>1 DEF Follows, OpenMatch
      <3>3. j # k
        BY <2>4, <3>1, <3>2
      <3>4. j \in Around(toks, Scanned')
        BY <1>4, <1>6, <3>2, <3>3
      <3> QED BY <1>2, <2>1, <2>2, <3>1, <3>2, <3>4
    <2>6. ASSUME NEW j \in Around(toks, Scanned'), ~Leaf(toks[j])
          PROVE  \E o \in OpenTokens' : tokens'[o].start = Begin(toks[j])
      <3>1. j # k /\ j \in DOMAIN toks
        BY <1>5, <1>6, <2>6
      <3>2. j \in Around(toks, Scanned)
        BY <1>4, <2>6, <3>1
      <3>3. PICK o \in OpenTokens : tokens[o].start = Begin(toks[j])
        BY <1>9, <2>6, <3>2 DEF Follows, OpenMatch
      <3>4. Begin(toks[j]) # Begin(toks[k])
        BY <3>1, SameBegin
      <3>5. o # c
        BY <1>1, <1>9, <3>3, <3>4
      <3> QED BY <1>2, <2>1, <2>2, <2>3, <3>3, <3>5
    <2>7. OpenMatch(toks)'
      BY <2>5, <2>6 DEF OpenMatch
    <2>8. (storing \/ tokens = <<>>)'
      BY <1>1, <1>9
    <2> QED BY <1>7, <1>8, <2>7, <2>8 DEF Follows
  <1>10. CASE ~storing
    <2>1. tokens' = <<>> /\ ~storing'
      BY <1>1, <1>10 DEF Follows
    <2>2. OpenTokens' = {}
      BY <2>1 DEF OpenTokens
    <2>3. OpenMatch(toks)'
      BY <2>1, <2>2 DEF OpenMatch
    <2> QED BY <1>7, <1>8, <2>1, <2>3 DEF Follows
  <1> QED BY <1>9, <1>10


\* What the parser does at the beginning of a primitive, or in one that a cut has split.
LEMMA AtPrimitive ==
  ASSUME NEW text, NEW toks, Tokenized(text, toks), ParserInv, Follows(text, toks),
         Countable(text, toks), Primitive, ~Return(NOMEM)
  PROVE  \E k \in DOMAIN toks, q \in Nat :
           /\ toks[k].type = "primitive" /\ Begin(toks[k]) <= pos /\ pos < Past(toks[k])
           /\ pos <= q /\ q <= Past(toks[k]) /\ (q = Len(js) \/ q = Past(toks[k]))
           /\ pc = "parse" /\ pc' = "parse" /\ pos' = q /\ count' = count + 1
           /\ UNCHANGED <<js, storing, toksuper>>
           /\ tokens' = IF storing THEN Counted(Fresh("primitive", pos, q)) ELSE tokens
  <1> DEFINE q == PrimitiveEnd(pos)
  <1>1. pc = "parse" /\ ~Stopped(pos) /\ UNCHANGED js
    BY DEF Primitive, Scanning
  <1>2. At(pos) \notin Delimiter \cup Opening \cup {Quote}
    BY Zenon DEF Primitive, Opening, Quote
  <1>3. \/ strict /\ (Unexpected \/ ReadBefore)
        \/ ~Stopped(q) /\ At(q) \in Control
        \/ strict /\ Stopped(q)
        \/ /\ AddLeaf("primitive", pos, q) /\ pos' = q
           /\ UNCHANGED <<toksuper, storing, pc>>
    BY Zenon DEF Primitive
  <1>4. pos \in Nat /\ pos <= Len(js) /\ Len(js) \in Nat /\ pos \in 0 .. Len(js)
    BY InvFacts
  <1>5. OnText(text) /\ Seam(toks, Scanned) /\ Len(js) <= Len(text)
    BY DEF Follows, OnText
  <1>6. pos < Len(js) /\ At(pos) = text[pos + 1] /\ pos \in 0 .. (Len(text) - 1)
    BY <1>1, <1>4, <1>5, Reading
  <1>7. Scanned = pos
    BY <1>1 DEF Scanned
  <1>8. PICK k \in DOMAIN toks :
          toks[k].type = "primitive" /\ Begin(toks[k]) <= pos /\ pos < Past(toks[k])
    BY <1>2, <1>5, <1>6, <1>7, AtSeam
  <1>9. Begin(toks[k]) \in Nat /\ Past(toks[k]) \in Nat /\ Past(toks[k]) <= Len(text)
    BY TokenBounds
  <1>10. /\ q \in pos .. Len(js) /\ PrimitiveEnds(q)
         /\ \A r \in pos .. (q - 1) : ~PrimitiveEnds(r)
    BY <1>4, InvFacts, PrimitiveEndType
  <1> HIDE DEF q
  <1>11. q \in Nat /\ pos <= q /\ q <= Len(js)
    BY <1>4, <1>10
  <1>12. q <= Past(toks[k])
    <2> SUFFICES ASSUME Past(toks[k]) < q PROVE FALSE
      BY <1>9, <1>11
    <2> DEFINE p == Past(toks[k])
    <2>1. p \in pos .. (q - 1) /\ p < Len(js) /\ p < Len(text) /\ p <= Len(js)
      BY <1>4, <1>5, <1>8, <1>9, <1>11
    <2>2. text[p + 1] \in Delimiter \ {":"}
      BY <1>8, <2>1, Ends
    <2>3. At(p) = text[p + 1]
      BY <1>5, <1>9, <2>1, Reading
    <2> HIDE DEF p
    <2>4. PrimitiveEnds(p)
      BY <2>2, <2>3 DEF PrimitiveEnds, Ending
    <2> QED BY <1>10, <2>1, <2>4
  <1>13. ASSUME q < Len(js) PROVE q = Past(toks[k]) /\ At(q) \notin Control
    <2>1. At(q) = text[q + 1] /\ ~Stopped(q)
      BY <1>4, <1>5, <1>11, <1>13, Reading
    <2>2. CASE q < Past(toks[k])
      <3>1. q \in Begin(toks[k]) .. (Past(toks[k]) - 1)
        BY <1>4, <1>8, <1>9, <1>11, <2>2
      <3>2. text[q + 1] \notin Delimiter \cup Control
        BY <1>8, <3>1, Ends
      <3> QED BY <1>10, <2>1, <3>2 DEF PrimitiveEnds, Ending
    <2>3. CASE q = Past(toks[k])
      <3>1. q < Len(text)
        BY <1>4, <1>5, <1>9, <1>13, <2>3
      <3>2. text[q + 1] \in Delimiter
        BY <1>8, <2>3, <3>1, Ends
      <3> QED BY <2>1, <2>3, <3>2, CharKinds
    <2> QED BY <1>9, <1>11, <1>12, <2>2, <2>3
  <1>14. ~(~Stopped(q) /\ At(q) \in Control)
    BY <1>4, <1>5, <1>11, <1>13, Reading
  <1>15. strict => Begin(toks[k]) = pos
    <2>1. strict => pos <= Begin(toks[k]) \/ Past(toks[k]) <= pos
      BY <1>7, <1>8 DEF Countable, Whole
    <2> QED BY <1>4, <1>8, <1>9, <2>1
  <1>16. ~(strict /\ (Unexpected \/ ReadBefore))
    <2> SUFFICES ASSUME strict PROVE ~Unexpected /\ ~ReadBefore
      OBVIOUS
    <2>1. ~storing
      BY DEF Countable
    <2>2. text[Begin(toks[k]) + 1] \in Beginning
      BY <1>8, Ends
    <2>3. At(pos) \in Beginning
      BY <1>6, <1>15, <2>2
    <2> QED BY <2>1, <2>3 DEF Unexpected, ReadBefore
  <1>17. ~(strict /\ Stopped(q))
    <2> SUFFICES ASSUME strict, Stopped(q) PROVE FALSE
      OBVIOUS
    <2>1. q = Len(text)
      BY <1>4, <1>5, <1>11, Reading DEF Countable
    <2>2. Past(toks[k]) = Len(text)
      BY <1>9, <1>11, <1>12, <2>1
    <2> QED BY <1>8, <2>2 DEF Countable
  <1>18. /\ AddLeaf("primitive", pos, q) /\ pos' = q
         /\ UNCHANGED <<toksuper, storing, pc>>
    BY <1>3, <1>14, <1>16, <1>17
  <1>19. q = Len(js) \/ q = Past(toks[k])
    BY <1>4, <1>11, <1>13
  <1>20. /\ tokens' = IF storing THEN Counted(Fresh("primitive", pos, q)) ELSE tokens
         /\ count' = count + 1
    BY <1>18 DEF AddLeaf
  <1> QED BY <1>1, <1>8, <1>11, <1>12, <1>18, <1>19, <1>20

\* An unescaped quote inside of a string is the one that ends it.
LEMMA AtQuote ==
  ASSUME NEW text, NEW toks, Tokenized(text, toks), ParserInv, Follows(text, toks),
         EndString, ~GiveBack(NOMEM)
  PROVE  \E k \in DOMAIN toks :
           /\ toks[k].type = "string" /\ start = Begin(toks[k])
           /\ toks[k].start = start + 1 /\ pos = toks[k].end /\ Past(toks[k]) = pos + 1
           /\ pc = "string" /\ pc' = "parse" /\ pos' = pos + 1 /\ count' = count + 1
           /\ UNCHANGED <<js, storing, toksuper>>
           /\ tokens' = IF storing THEN Counted(Fresh("string", start + 1, pos)) ELSE tokens
  <1>1. pc = "string" /\ ~Stopped(pos) /\ UNCHANGED js
    BY DEF EndString, InString
  <1>2. At(pos) = Quote
    BY Zenon DEF EndString, Quote
  <1>3. AddLeaf("string", start + 1, pos) /\ pos' = pos + 1 /\ pc' = "parse"
        /\ UNCHANGED <<toksuper, storing>>
    BY Zenon DEF EndString
  <1>4. pos \in Nat /\ pos <= Len(js) /\ Len(js) \in Nat
    BY InvFacts
  <1>5. pos < Len(js) /\ At(pos) = text[pos + 1] /\ pos \in 0 .. (Len(text) - 1)
    BY <1>1, <1>4, Reading DEF Follows
  <1>6. PICK k \in DOMAIN toks : \E E :
          /\ toks[k].type = "string" /\ start = Begin(toks[k])
          /\ toks[k].start <= pos /\ pos <= toks[k].end
          /\ EscapesAt(text, toks[k].start, toks[k].end, E)
          /\ pos - 1 \notin E \/ pos = Len(js)
    BY <1>1 DEF Follows, InLiteral
  <1>7. PICK E :
          /\ toks[k].start <= pos /\ pos <= toks[k].end
          /\ EscapesAt(text, toks[k].start, toks[k].end, E)
          /\ pos - 1 \notin E \/ pos = Len(js)
    BY <1>6
  <1>8. /\ toks[k].start \in Nat /\ toks[k].end \in Nat
        /\ Begin(toks[k]) = toks[k].start - 1 /\ Past(toks[k]) = toks[k].end + 1
    BY <1>6, TokenBounds
  <1>9. ~(pos < toks[k].end)
    <2> SUFFICES ASSUME pos < toks[k].end PROVE FALSE
      OBVIOUS
    <2>1. pos \in toks[k].start .. (toks[k].end - 1)
      BY <1>4, <1>7, <1>8
    <2>2. pos \in E \/ pos - 1 \in E
      BY <1>2, <1>5, <1>7, <2>1 DEF EscapesAt
    <2>3. pos - 1 \notin E
      BY <1>4, <1>5, <1>7
    <2>4. text[pos + 1] = "\\"
      BY <1>7, <2>2, <2>3 DEF EscapesAt
    <2>5. Quote # "\\"
      BY Zenon DEF Quote
    <2> QED BY <1>2, <1>5, <2>4, <2>5
  <1>10. pos = toks[k].end
    BY <1>4, <1>7, <1>8, <1>9
  <1>11. toks[k].start = start + 1 /\ Past(toks[k]) = pos + 1
    BY <1>6, <1>8, <1>10
  <1>12. /\ tokens' = IF storing THEN Counted(Fresh("string", start + 1, pos)) ELSE tokens
         /\ count' = count + 1
    BY <1>3 DEF AddLeaf
  <1> QED BY <1>1, <1>3, <1>6, <1>10, <1>11, <1>12

\* A leaf is stored or counted.
LEMMA FollowsLeaf ==
  ASSUME NEW text, NEW toks, Tokenized(text, toks), ParserInv, Follows(text, toks),
         NEW k \in DOMAIN toks, Leaf(toks[k]), NEW s \in Nat, NEW e \in Nat, NEW q \in Nat,
         tokens' = IF storing THEN Counted(Fresh(toks[k].type, s, e)) ELSE tokens,
         UNCHANGED <<js, storing>>, pc' = "parse", Scanned' = q,
         Begin(toks[k]) <= Scanned, Scanned <= q, q <= Past(toks[k]),
         toks[k].type = "string" => q = Past(toks[k])
  PROVE  /\ Follows(text, toks)'
         /\ \A j \in DOMAIN toks : j # k => Keeps(toks[j], Scanned, Scanned')
  <1>1. Scanned \in Nat /\ toks[k].type \in Type
    BY InvFacts, TokenBounds
  <1>2. \A j \in DOMAIN toks : j # k => Keeps(toks[j], Scanned, Scanned')
    BY <1>1, LeafPassed
  <1>3. CASE storing
    <2>1. e \in Nat \cup {-1} /\ e # -1
      OBVIOUS
    <2>2. tokens' = Counted(Fresh(toks[k].type, s, e))
      BY <1>3
    <2>3. OpenTokens' = OpenTokens
      BY <1>1, <2>1, <2>2, OpenAfterAdded
    <2>4. \A o \in DOMAIN tokens :
            tokens'[o].type = tokens[o].type /\ tokens'[o].start = tokens[o].start
      BY <1>1, <2>1, <2>2, Added
    <2>5. \A o \in OpenTokens : o \in DOMAIN tokens
      BY DEF OpenTokens
    <2>6. \A o \in OpenTokens : tokens'[o].start = tokens[o].start /\ tokens'[o].type = tokens[o].type
      BY <2>4, <2>5
    <2>7. q <= q
      OBVIOUS
    <2> QED BY <1>2, <1>3, <2>3, <2>6, <2>7, Passed
  <1>4. CASE ~storing
    <2>1. tokens' = tokens /\ tokens = <<>>
      BY <1>4 DEF Follows
    <2>2. OpenTokens' = OpenTokens
      BY <2>1 DEF OpenTokens, IsOpen
    <2>3. q <= q
      OBVIOUS
    <2> QED BY <1>2, <2>1, <2>2, <2>3, Passed
  <1> QED BY <1>2, <1>3, <1>4

LEMMA FollowsPrimitive ==
  ASSUME NEW text, NEW toks, Tokenized(text, toks), ParserInv, Follows(text, toks),
         Countable(text, toks), Primitive, ~Return(NOMEM)
  PROVE  Follows(text, toks)'
  <1>1. PICK k \in DOMAIN toks, q \in Nat :
           /\ toks[k].type = "primitive" /\ Begin(toks[k]) <= pos /\ pos < Past(toks[k])
           /\ pos <= q /\ q <= Past(toks[k]) /\ (q = Len(js) \/ q = Past(toks[k]))
           /\ pc = "parse" /\ pc' = "parse" /\ pos' = q /\ count' = count + 1
           /\ UNCHANGED <<js, storing, toksuper>>
           /\ tokens' = IF storing THEN Counted(Fresh("primitive", pos, q)) ELSE tokens
    BY AtPrimitive
  <1>2. pos \in Nat /\ Scanned = pos /\ Scanned' = q /\ Leaf(toks[k])
    BY <1>1, InvFacts DEF Scanned, Leaf
  <1>3. tokens' = IF storing THEN Counted(Fresh(toks[k].type, pos, q)) ELSE tokens
    BY <1>1
  <1> QED BY <1>1, <1>2, <1>3, FollowsLeaf

LEMMA FollowsEndString ==
  ASSUME NEW text, NEW toks, Tokenized(text, toks), ParserInv, Follows(text, toks),
         EndString, ~GiveBack(NOMEM)
  PROVE  Follows(text, toks)'
  <1>1. PICK k \in DOMAIN toks :
           /\ toks[k].type = "string" /\ start = Begin(toks[k])
           /\ toks[k].start = start + 1 /\ pos = toks[k].end /\ Past(toks[k]) = pos + 1
           /\ pc = "string" /\ pc' = "parse" /\ pos' = pos + 1
           /\ UNCHANGED <<js, storing>>
           /\ tokens' = IF storing THEN Counted(Fresh("string", start + 1, pos)) ELSE tokens
    BY AtQuote
  <1>2. /\ pos \in Nat /\ pos + 1 \in Nat /\ start + 1 \in Nat /\ start < pos
        /\ Scanned = start /\ Scanned' = pos + 1 /\ Leaf(toks[k])
    BY <1>1, InvFacts DEF Scanned, Leaf, ParserInv, InsideString
  <1>3. tokens' = IF storing THEN Counted(Fresh(toks[k].type, start + 1, pos)) ELSE tokens
    BY <1>1
  <1>4. start <= pos + 1 /\ start <= start /\ pos + 1 <= pos + 1
    BY <1>2, InvFacts
  <1> QED BY <1>1, <1>2, <1>3, <1>4, FollowsLeaf


\* The parser enters a string, or goes on in it.
LEMMA FollowsString ==
  ASSUME NEW text, NEW toks, Tokenized(text, toks), ParserInv, Follows(text, toks),
         StartString \/ StringChar \/ StringEscape
  PROVE  Follows(text, toks)' /\ (Agrees(text, toks) => Agrees(text, toks)')
  <1>1. /\ pos \in Nat /\ pos <= Len(js) /\ Len(js) \in Nat
        /\ OnText(text) /\ Seam(toks, Scanned)
    BY InvFacts DEF Follows
  <1>2. CASE StartString
    <2>1. /\ pc = "parse" /\ ~Stopped(pos) /\ pc' = "string" /\ start' = pos /\ pos' = pos + 1
          /\ UNCHANGED <<js, tokens, storing, toksuper, count>>
      BY <1>2 DEF StartString, Scanning
    <2>2. At(pos) = Quote
      BY Zenon, <1>2 DEF StartString, Quote
    <2>3. Scanned' = pos /\ Scanned = pos
      BY <2>1 DEF Scanned
    <2>4. At(pos) = text[pos + 1] /\ pos \in 0 .. (Len(text) - 1)
      BY <1>1, <2>1, Reading
    <2>5. PICK k \in DOMAIN toks : toks[k].type = "string" /\ Begin(toks[k]) = pos
      BY <1>1, <2>2, <2>3, <2>4, AtSeam
    <2>6. /\ toks[k].start \in Nat /\ toks[k].end \in Nat /\ Begin(toks[k]) = toks[k].start - 1
          /\ Bounds(text, toks) /\ Spelled(text, toks[k])
      BY <2>5, TokenBounds DEF Tokenized
    <2>7. toks[k].start = pos + 1 /\ toks[k].start <= toks[k].end
      BY <1>1, <2>5, <2>6 DEF Bounds
    <2>8. PICK E : EscapesAt(text, toks[k].start, toks[k].end, E)
      BY <2>5, <2>6 DEF Spelled, IsString
    <2>9. pos \notin E
      <3> SUFFICES ASSUME pos \in E PROVE FALSE
        OBVIOUS
      <3>1. pos \in toks[k].start .. (toks[k].end - 1)
        BY <2>8 DEF EscapesAt
      <3> QED BY <1>1, <2>6, <2>7, <3>1
    <2>10. pos' - 1 = pos
      BY <1>1, <2>1
    <2>11. pos' - 1 \notin E
      BY <2>9, <2>10
    <2>12. toks[k].start <= pos' /\ pos' <= toks[k].end
      BY <1>1, <2>1, <2>6, <2>7
    <2>13. InLiteral(text, toks)'
      BY <2>1, <2>5, <2>8, <2>11, <2>12 DEF InLiteral
    <2>14. Answers(text)'
      BY <2>1 DEF Answers
    <2> QED BY <2>1, <2>3, <2>13, <2>14, Still
  <1>3. CASE StringChar \/ StringEscape
    <2>2. pc = "string" /\ ~Stopped(pos) /\ UNCHANGED js
      BY <1>3 DEF StringChar, StringEscape, InString
    <2>3. pos < Len(js) /\ At(pos) = text[pos + 1] /\ pos \in 0 .. (Len(text) - 1)
      BY <1>1, <2>2, Reading
    <2>4. PICK k \in DOMAIN toks : \E E :
            /\ toks[k].type = "string" /\ start = Begin(toks[k])
            /\ toks[k].start <= pos /\ pos <= toks[k].end
            /\ EscapesAt(text, toks[k].start, toks[k].end, E)
            /\ pos - 1 \notin E \/ pos = Len(js)
      BY <2>2 DEF Follows, InLiteral
    <2>5. PICK E :
            /\ toks[k].start <= pos /\ pos <= toks[k].end
            /\ EscapesAt(text, toks[k].start, toks[k].end, E)
            /\ pos - 1 \notin E \/ pos = Len(js)
      BY <2>4
    <2>6. /\ toks[k].start \in Nat /\ toks[k].end \in Nat /\ Past(toks[k]) = toks[k].end + 1
          /\ text[Past(toks[k])] = Quote
      BY <2>4, TokenBounds, Ends
    <2>7. text[toks[k].end + 1] = Quote /\ pos - 1 \notin E
      BY <1>1, <2>3, <2>5, <2>6
    <2>8. At(pos) # Quote
      <3>1. CASE StringChar
        BY Zenon, <3>1 DEF StringChar, Quote
      <3>2. CASE StringEscape
        BY Zenon, <3>2 DEF StringEscape, IsEscape, Quote
      <3> QED BY <1>3, <3>1, <3>2
    <2>9. pos < toks[k].end /\ pos \in toks[k].start .. (toks[k].end - 1)
      <3>1. pos # toks[k].end
        BY <2>3, <2>7, <2>8
      <3> QED BY <1>1, <2>5, <2>6, <3>1
    <2>10. /\ \A p \in E :
                /\ p \in toks[k].start .. (toks[k].end - 1) /\ text[p + 1] = "\\" /\ p + 1 \notin E
                /\ \/ p + 2 <= toks[k].end /\ text[p + 2] \in Escaped
                   \/ /\ p + 6 <= toks[k].end /\ text[p + 2] = "u"
                      /\ \A r \in (p + 2) .. (p + 5) : text[r + 1] \in HexDigit
           /\ At(pos) = "\\" => pos \in E
      BY <2>3, <2>5, <2>7, <2>9 DEF EscapesAt
    <2>11. /\ UNCHANGED <<js, tokens, storing, toksuper, count, pc, start>>
           /\ pos' \in Nat /\ pos <= pos' /\ pos' <= toks[k].end
           /\ pos' - 1 \notin E \/ pos' = Len(js)
      <3>1. CASE StringChar
        <4>1. UNCHANGED <<js, tokens, storing, toksuper, count, pc, start>> /\ pos' = pos + 1
          BY <3>1 DEF StringChar
        <4>2. ~(At(pos) = "\\" /\ pos + 1 < Len(js))
          BY <3>1 DEF StringChar, IsEscape
        <4>3. ASSUME pos \in E PROVE pos + 1 = Len(js)
          <5>1. At(pos) = "\\"
            BY <2>3, <2>10, <4>3
          <5> QED BY <1>1, <2>3, <4>2, <5>1
        <4>4. pos' - 1 = pos /\ pos' \in Nat /\ pos <= pos' /\ pos' <= toks[k].end
          BY <1>1, <2>6, <2>9, <4>1
        <4>5. pos' - 1 \notin E \/ pos' = Len(js)
          <5>1. CASE pos \in E
            BY <4>1, <4>3, <5>1
          <5>2. CASE pos \notin E
            BY <4>4, <5>2
          <5> QED BY <5>1, <5>2
        <4> QED BY <4>1, <4>4, <4>5
      <3>2. CASE StringEscape
        <4> DEFINE c == At(pos + 1)
                   q == UnicodeEnd(pos + 2)
        <4>1. At(pos) = "\\" /\ pos + 1 < Len(js)
          BY <3>2 DEF StringEscape, IsEscape
        <4>2. pos \in E
          BY <2>10, <4>1
        <4>3. pos + 1 \in Nat /\ pos + 1 <= Len(js) /\ pos + 1 + 1 = pos + 2 /\ pos + 2 \in 0 .. Len(js)
          BY <1>1, <4>1
        <4>4. c = text[pos + 2]
          BY <1>1, <4>1, <4>3, Reading
        <4>5. /\ q \in (pos + 2) .. Len(js) /\ q <= (pos + 2) + 4
              /\ q = (pos + 2) + 4 \/ Stopped(q)
          BY <4>3, InvFacts, UnicodeEndType
        <4>6. \/ /\ ~(c \in Escaped \/ (c = "u" /\ \A r \in (pos + 2) .. (q - 1) : At(r) \in HexDigit))
                 /\ GiveBack(INVAL)
              \/ /\ pos' = IF c = "u" THEN q ELSE pos + 2
                 /\ UNCHANGED <<toksuper, tokens, storing, start, count, pc>>
          BY Zenon, <3>2 DEF StringEscape
        <4>7. "u" \notin Escaped /\ "\\" \notin HexDigit
          BY Zenon DEF Escaped, HexDigit
        <4> HIDE DEF c, q
        <4>8. q \in Nat /\ pos + 2 <= q /\ q <= Len(js) /\ q <= pos + 6
          BY <1>1, <4>5
        <4>9. CASE text[pos + 2] \in Escaped /\ pos + 2 <= toks[k].end
          <5>1. c \in Escaped /\ c # "u"
            BY <4>4, <4>7, <4>9
          <5>2. pos' = pos + 2 /\ UNCHANGED <<toksuper, tokens, storing, start, count, pc>>
            BY <4>6, <5>1
          <5>3. pos' - 1 = pos + 1 /\ pos' \in Nat /\ pos <= pos' /\ pos' <= toks[k].end
            BY <1>1, <2>6, <4>9, <5>2
          <5>4. pos' - 1 \notin E
            BY <2>10, <4>2, <5>3
          <5> QED BY <2>2, <5>2, <5>3, <5>4
        <4>10. CASE /\ pos + 6 <= toks[k].end /\ text[pos + 2] = "u"
                    /\ \A r \in (pos + 2) .. (pos + 5) : text[r + 1] \in HexDigit
          <5>1. ASSUME NEW r \in (pos + 2) .. (q - 1) PROVE At(r) \in HexDigit
            <6>1. r \in Nat /\ r < Len(js) /\ r <= Len(js) /\ r \in (pos + 2) .. (pos + 5)
              BY <1>1, <4>8
            <6>2. At(r) = text[r + 1]
              BY <1>1, <6>1, Reading
            <6> QED BY <4>10, <6>1, <6>2
          <5>2. pos' = q /\ UNCHANGED <<toksuper, tokens, storing, start, count, pc>>
            BY <4>4, <4>6, <4>10, <5>1
          <5>3. q <= toks[k].end /\ pos <= q
            BY <1>1, <2>6, <4>8, <4>10
          <5>4. q - 1 \notin E \/ q = Len(js)
            <6>1. CASE q = (pos + 2) + 4
              <7>1. q - 1 = pos + 5 /\ q - 1 \in (pos + 2) .. (pos + 5)
                BY <1>1, <6>1
              <7>2. text[(q - 1) + 1] \in HexDigit
                BY <4>10, <7>1
              <7> QED BY <2>10, <4>7, <7>2
            <6>2. CASE Stopped(q)
              BY <1>1, <4>8, <6>2, Reading
            <6> QED BY <4>5, <6>1, <6>2
          <5> QED BY <2>2, <4>8, <5>2, <5>3, <5>4
        <4>11. \/ pos + 2 <= toks[k].end /\ text[pos + 2] \in Escaped
               \/ /\ pos + 6 <= toks[k].end /\ text[pos + 2] = "u"
                  /\ \A r \in (pos + 2) .. (pos + 5) : text[r + 1] \in HexDigit
          BY <2>10, <4>2
        <4> QED BY <4>9, <4>10, <4>11
      <3> QED BY <1>3, <3>1, <3>2
    <2>12. Scanned' = Scanned
      BY <2>2, <2>11 DEF Scanned
    <2>13. toks[k].start <= pos'
      BY <1>1, <2>5, <2>6, <2>11
    <2>14. InLiteral(text, toks)'
      BY <2>2, <2>4, <2>5, <2>11, <2>13 DEF InLiteral
    <2>15. Answers(text)'
      BY <2>2, <2>11 DEF Answers
    <2> QED BY <2>11, <2>12, <2>14, <2>15, Still
  <1> QED BY <1>2, <1>3

\* A call ends at the end of what has been read.
LEMMA FollowsReturn ==
  ASSUME NEW text, NEW toks, Tokenized(text, toks), ParserInv, Follows(text, toks),
         Finish \/ StringPart
  PROVE  Follows(text, toks)' /\ (Agrees(text, toks) => Agrees(text, toks)')
  <1>1. /\ pos \in Nat /\ pos <= Len(js) /\ Len(js) \in Nat /\ count \in Nat /\ Len(text) \in Nat
        /\ OnText(text) /\ Len(js) <= Len(text)
    BY InvFacts, TextTypes DEF Follows, OnText
  <1>2. CASE Finish
    <2>1. /\ pc = "parse" /\ Stopped(pos) /\ UNCHANGED <<js, tokens, storing, toksuper, count, pos>>
          /\ pc' = "idle" /\ result' = IF OpenTokens # {} THEN PART ELSE count
      BY <1>2 DEF Finish, Return
    <2>2. pos = Len(js) /\ Scanned = pos /\ Scanned' = pos
      BY <1>1, <2>1, Reading DEF Scanned
    <2>3. InLiteral(text, toks)'
      BY <2>1 DEF InLiteral
    <2>4. OpenTokens' = OpenTokens
      BY <2>1 DEF OpenTokens, IsOpen
    <2>5. CASE OpenTokens # {}
      <3>1. PICK k \in Around(toks, Scanned) : TRUE
        BY <2>5 DEF Follows, OpenMatch
      <3>2. k \in DOMAIN toks /\ pos < Past(toks[k])
        BY <2>2, <3>1 DEF Around
      <3>3. Len(js) < Len(text)
        BY <1>1, <2>2, <3>2, TokenBounds
      <3>4. result' = PART
        BY <2>1, <2>5
      <3>5. Answers(text)'
        BY <2>1, <3>3, <3>4 DEF Answers, PART, INVAL
      <3> QED BY <2>1, <2>2, <2>3, <3>5, Still
    <2>6. CASE OpenTokens = {}
      <3>1. result' = count
        BY <2>1, <2>6
      <3>2. Answers(text)'
        BY <1>1, <2>1, <2>2, <2>4, <2>6, <3>1 DEF Answers, PART, INVAL
      <3> QED BY <2>1, <2>2, <2>3, <3>2, Still
    <2> QED BY <2>5, <2>6
  <1>3. CASE StringPart
    <2>1. /\ pc = "string" /\ Stopped(pos) /\ UNCHANGED <<js, tokens, storing, toksuper, count>>
          /\ pc' = "idle" /\ result' = PART /\ pos' = start
      BY <1>3 DEF StringPart, GiveBack
    <2>2. pos = Len(js) /\ Scanned = start /\ Scanned' = start
      BY <1>1, <2>1, Reading DEF Scanned
    <2>3. InLiteral(text, toks)'
      BY <2>1 DEF InLiteral
    <2>4. PICK k \in DOMAIN toks : toks[k].type = "string" /\ pos <= toks[k].end
      BY <2>1 DEF Follows, InLiteral
    <2>5. toks[k].end \in Nat /\ Past(toks[k]) = toks[k].end + 1 /\ Past(toks[k]) <= Len(text)
      BY <2>4, TokenBounds
    <2>6. Len(js) < Len(text)
      BY <1>1, <2>2, <2>4, <2>5
    <2>7. Answers(text)'
      BY <2>1, <2>6 DEF Answers, PART, INVAL
    <2> QED BY <2>1, <2>2, <2>3, <2>7, Still
  <1> QED BY <1>2, <1>3

\* Whatever the parser does on a JSON text, it follows the text.
LEMMA StepFollows ==
  ASSUME NEW text, NEW toks, Tokenized(text, toks), ParserInv, Follows(text, toks),
         Countable(text, toks), ParseStep
  PROVE  Follows(text, toks)'
  <1>1. CASE OpenContainer
    <2>1. CASE Return(NOMEM)
      BY <1>1, <2>1, StopsFull DEF OpenContainer, Scanning
    <2> QED BY <1>1, <2>1, FollowsOpen
  <1>2. CASE CloseContainer
    BY <1>2, FollowsClose
  <1>3. CASE SkipSpace \/ Colon \/ Comma
    BY <1>3, FollowsSeparator
  <1>4. CASE Primitive
    <2>1. CASE Return(NOMEM)
      BY <1>4, <2>1, StopsFull DEF Primitive, Scanning
    <2> QED BY <1>4, <2>1, FollowsPrimitive
  <1>5. CASE Finish \/ StringPart
    BY <1>5, FollowsReturn
  <1>6. CASE StartString \/ StringChar \/ StringEscape
    BY <1>6, FollowsString
  <1>7. CASE EndString
    <2>1. CASE GiveBack(NOMEM)
      BY <1>7, <2>1, StopsFull DEF EndString, InString
    <2> QED BY <1>7, <2>1, FollowsEndString
  <1> QED BY <1>1, <1>2, <1>3, <1>4, <1>5, <1>6, <1>7 DEF ParseStep


-----------------------------------------------------------------------------
(* The tokens that have been stored are the first ones of the text.         *)

LEMMA ChildrenGrow ==
  ASSUME NEW text, NEW toks, NEW n \in Nat, NEW k
  PROVE  /\ Cardinality(Children(text, toks, n, k)) \in Nat
         /\ Parent(text, toks, n + 1) # k =>
              Children(text, toks, n + 1, k) = Children(text, toks, n, k)
         /\ Parent(text, toks, n + 1) = k =>
              Cardinality(Children(text, toks, n + 1, k)) = Cardinality(Children(text, toks, n, k)) + 1
  <1> DEFINE S == Children(text, toks, n, k)
             T == Children(text, toks, n + 1, k)
  <1>1. \A j : (j \in 1 .. (n + 1)) <=> (j \in 1 .. n \/ j = n + 1)
    OBVIOUS
  <1>2. S \in SUBSET (1 .. n) /\ n + 1 \notin 1 .. n
    BY DEF Children
  <1>3. IsFiniteSet(S)
    <2>1. IsFiniteSet(1 .. n)
      BY FS_Interval
    <2> QED BY <1>2, <2>1, FS_Subset
  <1>4. Cardinality(S) \in Nat
    BY <1>3, FS_CardinalityType
  <1>5. \A j : j \in S <=> j \in 1 .. n /\ Parent(text, toks, j) = k
    BY DEF Children
  <1>6. \A j : j \in T <=> j \in 1 .. (n + 1) /\ Parent(text, toks, j) = k
    BY DEF Children
  <1>7. ASSUME Parent(text, toks, n + 1) # k PROVE T = S
    BY <1>1, <1>5, <1>6, <1>7
  <1>8. ASSUME Parent(text, toks, n + 1) = k PROVE Cardinality(T) = Cardinality(S) + 1
    <2>1. T = S \cup {n + 1}
      BY <1>1, <1>5, <1>6, <1>8
    <2>2. n + 1 \notin S
      BY <1>2
    <2> HIDE DEF S, T
    <2>3. Cardinality(S \cup {n + 1}) = Cardinality(S) + 1
      BY <1>3, <2>2, FS_AddElement
    <2> QED BY <2>1, <2>3
  <1> QED BY <1>4, <1>7, <1>8

\* What a token begins and a leaf ends with separates nothing.
LEMMA Solid ==
  ASSUME NEW text, NEW toks, Tokenized(text, toks), NEW k \in DOMAIN toks
  PROVE  /\ text[Begin(toks[k]) + 1] \notin Space
         /\ Leaf(toks[k]) => text[Past(toks[k])] \notin Space \cup Turn \cup {":"}
  <1>0. \A c : c \in Turn => c \in Opening \/ c \in Separator
    BY DEF Turn
  <1>1. CASE toks[k].type = "string"
    <2>1. text[Begin(toks[k]) + 1] = Quote /\ text[Past(toks[k])] = Quote
      BY <1>1, Ends
    <2>2. Quote \notin Space /\ Quote # ":" /\ Quote \notin Turn
      BY <1>0, CharKinds, ColonKind
    <2> QED BY <2>1, <2>2
  <1>2. CASE toks[k].type = "primitive"
    <2> DEFINE b == Begin(toks[k])
               e == Past(toks[k])
    <2>1. \A p \in b .. (e - 1) : text[p + 1] \notin Delimiter \cup Control \cup Opening \cup {Quote}
      BY <1>2, Ends
    <2>2. b \in Nat /\ e \in Nat /\ b < e
      BY TokenBounds
    <2> HIDE DEF b, e
    <2>3. b \in b .. (e - 1) /\ e - 1 \in b .. (e - 1) /\ (e - 1) + 1 = e
      BY <2>2
    <2>4. text[b + 1] \notin Delimiter /\ text[e] \notin Delimiter /\ text[e] \notin Opening
      BY <2>1, <2>3
    <2>5. text[b + 1] \notin Separator /\ text[e] \notin Separator
      BY <2>4, CharKinds
    <2>6. text[b + 1] \notin Space /\ text[e] \notin Space /\ text[e] # ":"
      BY <2>5, CharKinds, ColonKind
    <2>7. text[e] \notin Turn
      BY <1>0, <2>4, <2>5
    <2> QED BY <2>6, <2>7 DEF b, e
  <1>3. CASE ~Leaf(toks[k])
    <2>1. text[Begin(toks[k]) + 1] \in Opening
      BY <1>3, Ends
    <2> QED BY <1>3, <2>1, CharKinds
  <1> QED BY <1>1, <1>2, <1>3 DEF Leaf

\* The open tokens are the ones the scan is inside of.
LEMMA OpenAround ==
  ASSUME NEW text, NEW toks, Tokenized(text, toks), ParserInv, Agrees(text, toks), storing
  PROVE  OpenTokens = Around(toks, Scanned)
  <1>1. /\ Len(tokens) \in Nat /\ DOMAIN tokens = 1 .. Len(tokens) /\ Scanned \in Nat
        /\ Len(toks) \in Nat /\ DOMAIN toks = 1 .. Len(toks)
    BY InvFacts, TextTypes
  <1>2. /\ Len(tokens) <= Len(toks)
        /\ \A k \in DOMAIN toks : k <= Len(tokens) <=> Begin(toks[k]) < Scanned
        /\ \A k \in DOMAIN tokens :
             tokens[k].end = IF Past(toks[k]) <= Scanned THEN toks[k].end ELSE -1
    BY DEF Agrees, Begun, Found, StoredSoFar
  <1>3. \A k \in DOMAIN toks : /\ toks[k].end \in Nat /\ toks[k].end # -1
                               /\ (Past(toks[k]) <= Scanned <=> ~(Scanned < Past(toks[k])))
    <2> TAKE k \in DOMAIN toks
    <2>1. toks[k].end \in Nat /\ Past(toks[k]) \in Nat
      BY TokenBounds
    <2> QED BY <1>1, <2>1
  <1>4. \A o : o \in OpenTokens <=> o \in DOMAIN tokens /\ tokens[o].end = -1
    BY DEF OpenTokens, IsOpen
  <1>5. \A o : o \in Around(toks, Scanned) <=>
          o \in DOMAIN toks /\ Begin(toks[o]) < Scanned /\ Scanned < Past(toks[o])
    BY DEF Around
  <1>6. \A o : o \in DOMAIN tokens <=> o \in DOMAIN toks /\ o <= Len(tokens)
    BY <1>1, <1>2
  <1> QED BY <1>2, <1>3, <1>4, <1>5, <1>6

\* The token that begins where the scan is, is the next one.
LEMMA NextToken ==
  ASSUME NEW text, NEW toks, Tokenized(text, toks), ParserInv, Begun(toks),
         NEW k \in DOMAIN toks, Begin(toks[k]) = Scanned
  PROVE  k = Found + 1 /\ Found \in Nat
  <1>1. /\ Found \in Nat /\ Scanned \in Nat /\ Len(toks) \in Nat /\ k \in 1 .. Len(toks)
        /\ DOMAIN toks = 1 .. Len(toks)
    BY InvFacts, TextTypes DEF Found
  <1>2. ~(k <= Found)
    BY <1>1 DEF Begun
  <1>3. ASSUME k # 1 PROVE k - 1 <= Found
    <2>1. k - 1 \in DOMAIN toks /\ k - 1 < k
      BY <1>1, <1>3
    <2>2. Begin(toks[k - 1]) < Scanned
      BY <2>1, TokenOrder
    <2> QED BY <2>1, <2>2 DEF Begun
  <1> HIDE DEF Found
  <1> QED BY <1>1, <1>2, <1>3

\* The superior token is the parent of the token that begins where the scan is.
LEMMA ParentNext ==
  ASSUME NEW text, NEW toks, Tokenized(text, toks), ParserInv, Agrees(text, toks), storing,
         NEW k \in DOMAIN toks, Begin(toks[k]) = Scanned
  PROVE  Parent(text, toks, k) = toksuper
  <1>1. /\ Scanned \in Nat /\ Len(tokens) \in Nat /\ toksuper \in Nat /\ toksuper <= Len(tokens)
        /\ k \in 1 .. Len(toks) /\ Len(toks) \in Nat
    BY InvFacts, TextTypes
  <1>2. k = Len(tokens) + 1
    BY NextToken DEF Agrees, Found
  <1>3. CASE k = 1
    <2>1. Parent(text, toks, k) \in 0 .. (k - 1)
      BY ParentBefore
    <2> QED BY <1>1, <1>2, <1>3, <2>1
  <1>4. CASE k # 1
    <2>1. Preceded(text, Scanned, Opening \cup (Separator \ Space))
      <3>1. k > 1
        BY <1>1, <1>4
      <3> QED BY <3>1 DEF Tokenized, Separated
    <2>2. PICK q \in 0 .. (Scanned - 1) :
            text[q + 1] \in Opening \cup (Separator \ Space) /\ Blank(text, q + 1, Scanned)
      BY <2>1 DEF Preceded
    <2>3. /\ text[q + 1] = ":" => toksuper = Len(tokens)
          /\ text[q + 1] \in Turn => toksuper = LastOf(OpenTokens)
      BY <2>2 DEF Agrees, Superior
    <2>4. /\ text[q + 1] = ":" => Parent(text, toks, k) = k - 1
          /\ text[q + 1] \notin Space /\ text[q + 1] # ":" =>
               Parent(text, toks, k) = LastOf(Around(toks, Scanned))
      BY <2>2, ParentOf
    <2>5. text[q + 1] \notin Space
      BY <2>2, CharKinds
    <2>6. text[q + 1] # ":" => text[q + 1] \in Turn
      BY <2>2, <2>5 DEF Turn
    <2>7. OpenTokens = Around(toks, Scanned)
      BY OpenAround
    <2>8. k - 1 = Len(tokens)
      BY <1>1, <1>2
    <2> QED BY <2>3, <2>4, <2>5, <2>6, <2>7, <2>8
  <1> QED BY <1>3, <1>4

\* The scan goes on and begins at most token k.
LEMMA GoesOn ==
  ASSUME NEW text, NEW toks, Tokenized(text, toks), Agrees(text, toks), ParserInv,
         NEW k \in DOMAIN toks, Begin(toks[k]) = Scanned, Scanned' \in Nat, Begin(toks[k]) < Scanned',
         toks[k].type = "primitive" => Past(toks[k]) <= Scanned', Found' = Found + 1,
         \A j \in DOMAIN toks : j # k => Keeps(toks[j], Scanned, Scanned')
  PROVE  Whole(toks)' /\ Begun(toks)'
  <1>1. /\ k = Found + 1 /\ Found \in Nat /\ Len(toks) \in Nat /\ DOMAIN toks = 1 .. Len(toks)
        /\ Scanned \in Nat
    BY NextToken, TextTypes, InvFacts DEF Agrees
  <1>2. Found' = k /\ k <= Len(toks)
    BY <1>1
  <1>3. \A j \in DOMAIN toks : j # k => (j <= k <=> j <= Found)
    BY <1>1
  <1>4. \A j \in DOMAIN toks : j <= Found <=> Begin(toks[j]) < Scanned
    BY DEF Agrees, Begun
  <1>5. ASSUME NEW j \in DOMAIN toks PROVE j <= k <=> Begin(toks[j]) < Scanned'
    <2>1. CASE j = k
      BY <1>1, <2>1
    <2>2. CASE j # k
      BY <1>3, <1>4, <2>2 DEF Keeps
    <2> QED BY <2>1, <2>2
  <1>6. Begun(toks)'
    BY <1>2, <1>5 DEF Begun
  <1>7. ASSUME NEW j \in DOMAIN toks, toks[j].type = "primitive"
        PROVE  Scanned' <= Begin(toks[j]) \/ Past(toks[j]) <= Scanned'
    <2>1. CASE j = k
      BY <1>7, <2>1
    <2>2. CASE j # k
      <3>1. Scanned <= Begin(toks[j]) \/ Past(toks[j]) <= Scanned
        BY <1>7 DEF Agrees, Whole
      <3>2. Begin(toks[j]) \in Nat /\ Keeps(toks[j], Scanned, Scanned')
        BY <2>2, TokenBounds
      <3>3. CASE Past(toks[j]) <= Scanned
        BY <3>2, <3>3 DEF Keeps
      <3>4. CASE Scanned <= Begin(toks[j])
        <4>1. ~(Begin(toks[j]) < Scanned')
          BY <1>1, <3>2, <3>4 DEF Keeps
        <4> QED BY <3>2, <4>1
      <3> QED BY <3>1, <3>3, <3>4
    <2> QED BY <2>1, <2>2
  <1>8. Whole(toks)'
    BY <1>7 DEF Whole
  <1> QED BY <1>6, <1>8


\* A token of the text is added, and counted with its parent.
LEMMA StoredGrows ==
  ASSUME NEW text, NEW toks, Tokenized(text, toks), Agrees(text, toks), ParserInv, storing,
         NEW k \in DOMAIN toks, Begin(toks[k]) = Scanned,
         NEW e \in Nat \cup {-1}, Scanned' \in Nat,
         tokens' = Counted(Fresh(toks[k].type, toks[k].start, e)),
         e = IF Past(toks[k]) <= Scanned' THEN toks[k].end ELSE -1,
         \A j \in DOMAIN toks : j # k => Keeps(toks[j], Scanned, Scanned')
  PROVE  StoredSoFar(text, toks)' /\ Len(tokens') = Len(tokens) + 1
  <1> DEFINE n == Len(tokens)
  <1>1. /\ k = n + 1 /\ n \in Nat /\ DOMAIN tokens = 1 .. n /\ toksuper \in Nat /\ toksuper <= n
        /\ Len(toks) \in Nat /\ DOMAIN toks = 1 .. Len(toks)
    BY NextToken, TextTypes, InvFacts DEF Agrees, Found
  <1>2. Parent(text, toks, n + 1) = toksuper
    BY <1>1, ParentNext
  <1>3. toks[k].type \in Type /\ toks[k].start \in Nat
    BY TokenBounds
  <1>4. /\ tokens' \in Seq(Token) /\ Len(tokens') = n + 1
        /\ \A j \in DOMAIN tokens :
             /\ tokens'[j].type = tokens[j].type
             /\ tokens'[j].start = tokens[j].start /\ tokens'[j].end = tokens[j].end
             /\ tokens'[j].size = IF j = toksuper THEN tokens[j].size + 1 ELSE tokens[j].size
        /\ tokens'[n + 1].type = toks[k].type /\ tokens'[n + 1].start = toks[k].start
        /\ tokens'[n + 1].end = e /\ tokens'[n + 1].size = 0
    BY <1>3, Added
  <1>5. DOMAIN tokens' = 1 .. (n + 1)
    <2>1. tokens' \in Seq(Token) /\ Len(tokens') = n + 1
      BY <1>4
    <2> HIDE DEF n
    <2> QED BY <2>1
  <1> DEFINE Right(j) ==
               /\ tokens'[j].type = toks[j].type /\ tokens'[j].start = toks[j].start
               /\ tokens'[j].end = IF Past(toks[j]) <= Scanned' THEN toks[j].end ELSE -1
               /\ tokens'[j].size = Cardinality(Children(text, toks, n + 1, j))
  <1>6. ASSUME NEW j \in 1 .. n PROVE Right(j)
    <2>1. j \in DOMAIN tokens /\ j \in DOMAIN toks /\ j # k
      BY <1>1
    <2>2. /\ tokens[j].type = toks[j].type /\ tokens[j].start = toks[j].start
          /\ tokens[j].end = IF Past(toks[j]) <= Scanned THEN toks[j].end ELSE -1
          /\ tokens[j].size = Cardinality(Children(text, toks, n, j))
      BY <2>1 DEF Agrees, StoredSoFar
    <2>3. Past(toks[j]) <= Scanned <=> Past(toks[j]) <= Scanned'
      BY <2>1 DEF Keeps
    <2>4. tokens'[j].end = IF Past(toks[j]) <= Scanned' THEN toks[j].end ELSE -1
      BY <1>4, <2>1, <2>2, <2>3
    <2>5. tokens'[j].size = IF j = toksuper THEN tokens[j].size + 1 ELSE tokens[j].size
      BY <1>4, <2>1
    <2>6. tokens'[j].size = Cardinality(Children(text, toks, n + 1, j))
      <3> HIDE DEF n
      <3>1. CASE j = toksuper
        BY <1>1, <1>2, <2>2, <2>5, <3>1, ChildrenGrow
      <3>2. CASE j # toksuper
        BY SMTT(30), <1>1, <1>2, <2>2, <2>5, <3>2, ChildrenGrow
      <3> QED BY <3>1, <3>2
    <2> QED BY <1>4, <2>1, <2>2, <2>4, <2>6
  <1>7. Right(n + 1)
    <2>1. Children(text, toks, n + 1, n + 1) = {}
      <3> SUFFICES ASSUME NEW j \in 1 .. (n + 1), Parent(text, toks, j) = n + 1 PROVE FALSE
        BY DEF Children
      <3>1. j \in DOMAIN toks /\ j - 1 < n + 1
        BY <1>1
      <3>2. Parent(text, toks, j) \in 0 .. (j - 1)
        BY <3>1, ParentBefore
      <3> HIDE DEF n
      <3> QED BY <1>1, <3>1, <3>2
    <2>2. Cardinality({}) = 0
      BY FS_EmptySet
    <2> QED BY <1>1, <1>4, <2>1, <2>2
  <1>8. \A j \in 1 .. (n + 1) : j \in 1 .. n \/ j = n + 1
    BY <1>1
  <1>9. \A j \in DOMAIN tokens' : Right(j)
    BY <1>5, <1>6, <1>7, <1>8
  <1> HIDE DEF n
  <1> QED BY <1>4, <1>9 DEF StoredSoFar, n

\* What stands just before the scan decides about the superior token, unless it is a space.
LEMMA SuperiorAfter ==
  ASSUME NEW text, NEW p \in Nat, text[p + 1] \notin Space, Scanned' = p + 1,
         text[p + 1] = ":" => toksuper' = Len(tokens'),
         text[p + 1] \in Turn => toksuper' = LastOf(OpenTokens'),
         toksuper' = LastOf(OpenTokens') \/ (toksuper' # 0 /\ ~IsContainer(toksuper)')
  PROVE  Superior(text)'
  <1>1. ASSUME NEW q \in 0 .. ((p + 1) - 1), Blank(text, q + 1, p + 1) PROVE q = p
    <2>1. CASE q < p
      <3>1. p \in (q + 1) .. ((p + 1) - 1)
        BY <2>1
      <3> QED BY <1>1, <3>1 DEF Blank
    <2> QED BY <2>1
  <1>2. ASSUME NEW q \in 0 .. (Scanned' - 1), Blank(text, q + 1, Scanned')
        PROVE  /\ text[q + 1] = ":" => toksuper' = Len(tokens')
               /\ text[q + 1] \in Turn => toksuper' = LastOf(OpenTokens')
    <2>1. q \in 0 .. ((p + 1) - 1) /\ Blank(text, q + 1, p + 1)
      BY <1>2
    <2>2. q = p
      BY <1>1, <2>1
    <2> QED BY <2>2
  <1> QED BY <1>2 DEF Superior

LEMMA LastAdded ==
  ASSUME NEW n \in Nat, NEW S \in SUBSET (1 .. n)
  PROVE  LastOf(S \cup {n + 1}) = n + 1
  <1> DEFINE T == S \cup {n + 1}
  <1>1. T \in SUBSET (1 .. (n + 1)) /\ T # {} /\ n + 1 \in Nat /\ n + 1 \in T
    OBVIOUS
  <1> HIDE DEF T
  <1>2. LastOf(T) \in T /\ \A j \in T : j <= LastOf(T)
    BY <1>1, LastOfIsLast
  <1>3. LastOf(T) \in 1 .. (n + 1) /\ n + 1 <= LastOf(T)
    BY <1>1, <1>2
  <1>4. LastOf(T) = n + 1
    BY <1>3
  <1> QED BY <1>4 DEF T

LEMMA AgreesOpen ==
  ASSUME NEW text, NEW toks, Tokenized(text, toks), ParserInv, Follows(text, toks),
         Agrees(text, toks), OpenContainer, ~Return(NOMEM)
  PROVE  Agrees(text, toks)'
  <1>1. PICK k \in DOMAIN toks :
           /\ ~Leaf(toks[k]) /\ Begin(toks[k]) = pos /\ text[pos + 1] \in Opening
           /\ pos \in 0 .. (Len(text) - 1) /\ pc = "parse" /\ pc' = "parse"
           /\ UNCHANGED <<js, storing>> /\ pos' = pos + 1 /\ count' = count + 1
           /\ tokens' = IF storing THEN Counted(Fresh(toks[k].type, pos, -1)) ELSE tokens
           /\ toksuper' = IF storing THEN Len(tokens) + 1 ELSE toksuper
    BY AtOpening
  <1>2. /\ pos \in Nat /\ Scanned = pos /\ Scanned' = pos + 1 /\ pos + 1 \in Nat
        /\ Len(tokens) \in Nat /\ DOMAIN tokens = 1 .. Len(tokens)
    BY <1>1, InvFacts DEF Scanned
  <1>3. \A j \in DOMAIN toks : j # k => Keeps(toks[j], Scanned, Scanned')
    BY <1>1, <1>2, OpenPassed
  <1>4. /\ toks[k].type \in Type /\ toks[k].start = Begin(toks[k]) /\ Past(toks[k]) \in Nat
        /\ Begin(toks[k]) + 1 < Past(toks[k]) /\ toks[k].type # "primitive"
    BY <1>1, TokenBounds DEF Leaf
  <1>5. Begin(toks[k]) < Scanned' /\ ~(Past(toks[k]) <= Scanned') /\ Scanned' \in Nat
    BY <1>1, <1>2, <1>4
  <1>6. CASE storing
    <2>1. /\ -1 \in Nat \cup {-1} /\ tokens' = Counted(Fresh(toks[k].type, toks[k].start, -1))
          /\ -1 = IF Past(toks[k]) <= Scanned' THEN toks[k].end ELSE -1
      BY <1>1, <1>4, <1>5, <1>6
    <2>2. StoredSoFar(text, toks)' /\ Len(tokens') = Len(tokens) + 1
      BY <1>1, <1>2, <1>3, <1>5, <1>6, <2>1, StoredGrows
    <2>3. Found' = Found + 1
      BY <1>1, <1>6, <2>2 DEF Found
    <2>4. Whole(toks)' /\ Begun(toks)'
      BY <1>1, <1>2, <1>3, <1>4, <1>5, <2>3, GoesOn
    <2>5. OpenTokens' = OpenTokens \cup {Len(tokens) + 1}
      BY <1>2, <1>4, <2>1, OpenAfterAdded, TokenBounds
    <2>6. LastOf(OpenTokens') = Len(tokens) + 1
      <3>1. OpenTokens \in SUBSET (1 .. Len(tokens))
        BY <1>2 DEF OpenTokens
      <3>2. LastOf(OpenTokens \cup {Len(tokens) + 1}) = Len(tokens) + 1
        BY <1>2, <3>1, LastAdded
      <3> QED BY <2>5, <3>2
    <2>7. text[pos + 1] \notin Space /\ text[pos + 1] # ":"
      BY <1>1, CharKinds, ColonKind
    <2>8. toksuper' = LastOf(OpenTokens')
      BY <1>1, <1>6, <2>6
    <2>9. Superior(text)'
      BY <1>2, <2>7, <2>8, SuperiorAfter
    <2> QED BY <2>2, <2>4, <2>9 DEF Agrees
  <1>7. CASE ~storing
    <2>1. Found' = Found + 1
      BY <1>1, <1>7 DEF Found
    <2>2. Whole(toks)' /\ Begun(toks)'
      BY <1>1, <1>2, <1>3, <1>4, <1>5, <2>1, GoesOn
    <2> QED BY <1>1, <1>7, <2>2 DEF Agrees
  <1> QED BY <1>6, <1>7

\* A leaf that is passed as a whole is stored as it is, or counted.
LEMMA AgreesLeaf ==
  ASSUME NEW text, NEW toks, Tokenized(text, toks), ParserInv, Follows(text, toks),
         Agrees(text, toks), NEW k \in DOMAIN toks, Leaf(toks[k]), Begin(toks[k]) = Scanned,
         tokens' = IF storing THEN Counted(Fresh(toks[k].type, toks[k].start, toks[k].end)) ELSE tokens,
         UNCHANGED <<js, storing, toksuper>>, count' = count + 1, Scanned' = Past(toks[k]),
         \A j \in DOMAIN toks : j # k => Keeps(toks[j], Scanned, Scanned')
  PROVE  Agrees(text, toks)'
  <1>1. /\ toks[k].type \in Type /\ toks[k].start \in Nat /\ toks[k].end \in Nat
        /\ Begin(toks[k]) < Past(toks[k]) /\ Past(toks[k]) \in Nat /\ Begin(toks[k]) \in Nat
    BY TokenBounds
  <1>2. Scanned' \in Nat /\ Begin(toks[k]) < Scanned' /\ Past(toks[k]) <= Scanned'
    BY <1>1
  <1>3. CASE storing
    <2>1. /\ toks[k].end \in Nat \cup {-1} /\ toks[k].end # -1
          /\ tokens' = Counted(Fresh(toks[k].type, toks[k].start, toks[k].end))
          /\ toks[k].end = IF Past(toks[k]) <= Scanned' THEN toks[k].end ELSE -1
      BY <1>1, <1>2, <1>3
    <2>2. StoredSoFar(text, toks)' /\ Len(tokens') = Len(tokens) + 1
      <3>1. PICK e \in Nat \cup {-1} : e = toks[k].end
        BY <2>1
      <3> QED BY <1>2, <1>3, <2>1, <3>1, StoredGrows
    <2>3. Found' = Found + 1
      BY <1>3, <2>2 DEF Found
    <2>4. Whole(toks)' /\ Begun(toks)'
      BY <1>2, <2>3, GoesOn
    <2>5. OpenTokens' = OpenTokens
      BY <1>1, <2>1, OpenAfterAdded
    <2> DEFINE p == Past(toks[k]) - 1
    <2>6. p \in Nat /\ p + 1 = Past(toks[k])
      BY <1>1
    <2>7. text[p + 1] \notin Space \cup Turn \cup {":"}
      BY <2>6, Solid
    <2>8. toksuper' = LastOf(OpenTokens') \/ (toksuper' # 0 /\ ~IsContainer(toksuper)')
      <3>1. CASE toksuper = LastOf(OpenTokens)
        BY <2>5, <3>1
      <3>2. CASE toksuper # 0 /\ ~IsContainer(toksuper)
        <4>1. toksuper \in DOMAIN tokens
          BY <3>2, InvFacts
        <4>2. tokens'[toksuper].type = tokens[toksuper].type
          BY <1>1, <2>1, <4>1, Added
        <4> QED BY <3>2, <4>2 DEF IsContainer
      <3> QED BY <1>3, <3>1, <3>2 DEF Agrees, Superior
    <2> HIDE DEF p
    <2>9. Scanned' = p + 1
      BY <2>6
    <2>10. Superior(text)'
      BY <2>6, <2>7, <2>8, <2>9, SuperiorAfter
    <2> QED BY <2>2, <2>4, <2>10 DEF Agrees
  <1>4. CASE ~storing
    <2>1. Found' = Found + 1
      BY <1>4 DEF Found
    <2>2. Whole(toks)' /\ Begun(toks)'
      BY <1>2, <2>1, GoesOn
    <2> QED BY <1>4, <2>2 DEF Agrees
  <1> QED BY <1>3, <1>4


\* The scan moves on and begins no token.
LEMMA BeginsNone ==
  ASSUME NEW text, NEW toks, Tokenized(text, toks), ParserInv, Agrees(text, toks),
         Scanned' \in Nat, Found' = Found,
         \A j \in DOMAIN toks : Begin(toks[j]) < Scanned <=> Begin(toks[j]) < Scanned',
         \A j \in DOMAIN toks : Leaf(toks[j]) => Keeps(toks[j], Scanned, Scanned')
  PROVE  Whole(toks)' /\ Begun(toks)'
  <1>1. Begun(toks)'
    BY DEF Agrees, Begun
  <1>2. ASSUME NEW j \in DOMAIN toks, toks[j].type = "primitive"
        PROVE  Scanned' <= Begin(toks[j]) \/ Past(toks[j]) <= Scanned'
    <2>1. Scanned <= Begin(toks[j]) \/ Past(toks[j]) <= Scanned
      BY <1>2 DEF Agrees, Whole
    <2>2. Begin(toks[j]) \in Nat /\ Keeps(toks[j], Scanned, Scanned') /\ Scanned \in Nat
      BY <1>2, TokenBounds, InvFacts DEF Leaf
    <2>3. CASE Past(toks[j]) <= Scanned
      BY <2>2, <2>3 DEF Keeps
    <2>4. CASE Scanned <= Begin(toks[j])
      <3>1. ~(Begin(toks[j]) < Scanned')
        BY <2>2, <2>4 DEF Keeps
      <3> QED BY <2>2, <3>1
    <2> QED BY <2>1, <2>3, <2>4
  <1> QED BY <1>1, <1>2 DEF Whole

\* Behind a name, the name is the last token that has been stored.
LEMMA NameBefore ==
  ASSUME NEW text, NEW toks, Tokenized(text, toks), ParserInv, Agrees(text, toks), storing,
         NEW j \in DOMAIN toks, toks[j].type = "string",
         Past(toks[j]) <= Scanned, Blank(text, Past(toks[j]), Scanned)
  PROVE  Len(tokens) = j /\ tokens[j].type = "string"
  <1>1. /\ Len(tokens) \in Nat /\ DOMAIN tokens = 1 .. Len(tokens) /\ Scanned \in Nat
        /\ Len(toks) \in Nat /\ DOMAIN toks = 1 .. Len(toks)
        /\ Begin(toks[j]) \in Nat /\ Past(toks[j]) \in Nat /\ Begin(toks[j]) < Past(toks[j])
    BY InvFacts, TextTypes, TokenBounds
  <1>2. /\ Len(tokens) <= Len(toks)
        /\ \A k \in DOMAIN toks : k <= Len(tokens) <=> Begin(toks[k]) < Scanned
    BY DEF Agrees, Begun, Found
  <1>3. j <= Len(tokens)
    BY <1>1, <1>2
  <1>4. ~(j < Len(tokens))
    <2> SUFFICES ASSUME j < Len(tokens) PROVE FALSE
      OBVIOUS
    <2> DEFINE m == Len(tokens)
    <2>1. m \in DOMAIN toks /\ m <= Len(tokens)
      BY <1>1, <1>2
    <2>2. Begin(toks[m]) < Scanned
      BY <1>2, <2>1
    <2> HIDE DEF m
    <2>3. Past(toks[j]) <= Begin(toks[m])
      BY <2>1, TokenOrder DEF Leaf, m
    <2>4. Begin(toks[m]) \in Nat
      BY <2>1, TokenBounds
    <2>5. Begin(toks[m]) \in Past(toks[j]) .. (Scanned - 1)
      BY <1>1, <2>2, <2>3, <2>4
    <2>6. text[Begin(toks[m]) + 1] \in Space
      BY <2>5 DEF Blank
    <2> QED BY <2>1, <2>6, Solid
  <1>5. Len(tokens) = j /\ j \in DOMAIN tokens
    BY <1>1, <1>3, <1>4
  <1> QED BY <1>5 DEF Agrees, StoredSoFar

LEMMA AgreesSeparator ==
  ASSUME NEW text, NEW toks, Tokenized(text, toks), ParserInv, Follows(text, toks),
         Agrees(text, toks), SkipSpace \/ Colon \/ Comma
  PROVE  Agrees(text, toks)'
  <1>1. /\ pc = "parse" /\ pc' = "parse" /\ pos' = pos + 1 /\ pos \in 0 .. (Len(text) - 1)
        /\ At(pos) = text[pos + 1] /\ text[pos + 1] \in Separator
        /\ \A k \in DOMAIN toks :
             Begin(toks[k]) # Scanned /\ Keeps(toks[k], Scanned, Scanned')
    BY FollowsSeparator
  <1>2. UNCHANGED <<js, tokens, storing, count>>
    BY DEF SkipSpace, Colon, Comma
  <1>3. OpenTokens' = OpenTokens /\ Found' = Found
    BY <1>2 DEF OpenTokens, IsOpen, Found
  <1>4. pos \in Nat /\ Scanned = pos /\ Scanned' = pos + 1 /\ pos + 1 \in Nat
    BY <1>1, InvFacts DEF Scanned
  <1>5. Whole(toks)' /\ Begun(toks)'
    BY <1>1, <1>3, <1>4, BeginsNone DEF Keeps
  <1>6. CASE storing
    <2>1. Len(tokens) <= Len(toks) /\ Len(tokens) \in Nat /\ Len(toks) \in Nat
          /\ DOMAIN tokens = 1 .. Len(tokens) /\ DOMAIN toks = 1 .. Len(toks)
      BY <1>6, InvFacts, TextTypes DEF Agrees, Begun, Found
    <2>2. \A k \in DOMAIN tokens : k \in DOMAIN toks
      BY <2>1
    <2>3. StoredSoFar(text, toks)'
      BY <1>1, <1>2, <1>6, <2>2 DEF Agrees, StoredSoFar, Keeps
    <2>4. OpenTokens = Around(toks, pos)
      BY <1>4, <1>6, OpenAround
    <2>5. \/ toksuper = LastOf(OpenTokens)
          \/ toksuper # 0 /\ ~IsContainer(toksuper)
      BY <1>6 DEF Agrees, Superior
    <2>6. Between(toks, pos)
      <3> SUFFICES ASSUME NEW k \in DOMAIN toks, Leaf(toks[k])
                   PROVE  pos < Begin(toks[k]) \/ Past(toks[k]) <= pos
        BY DEF Between
      <3>1. pos <= Begin(toks[k]) \/ Past(toks[k]) <= pos
        BY <1>4 DEF Leaf, Follows, Seam, Agrees, Whole
      <3>2. Begin(toks[k]) # pos /\ Begin(toks[k]) \in Nat
        BY <1>1, <1>4, TokenBounds
      <3> QED BY <1>4, <3>1, <3>2
    <2>7. text[pos + 1] \notin Space =>
            /\ Around(toks, pos) # {}
            /\ text[pos + 1] = ":" =>
                 \E k \in DOMAIN toks :
                   toks[k].type = "string" /\ Past(toks[k]) <= pos /\ Blank(text, Past(toks[k]), pos)
      BY <1>1, <2>6 DEF Tokenized, Separated
    <2>8. CASE SkipSpace
      <3>1. text[pos + 1] \in Space /\ toksuper' = toksuper
        BY <1>1, <2>8 DEF SkipSpace
      <3>2. text[pos + 1] # ":" /\ text[pos + 1] \notin Turn
        BY <3>1, ColonKind, CharKinds DEF Turn
      <3>3. ASSUME NEW q \in 0 .. (Scanned' - 1), Blank(text, q + 1, Scanned')
            PROVE  /\ text[q + 1] = ":" => toksuper' = Len(tokens')
                   /\ text[q + 1] \in Turn => toksuper' = LastOf(OpenTokens')
        <4>1. CASE q = pos
          BY <3>2, <4>1
        <4>2. CASE q # pos
          <5>1. q \in 0 .. (Scanned - 1)
            BY <1>4, <3>3, <4>2
          <5>2. \A r \in (q + 1) .. (Scanned - 1) : r \in (q + 1) .. (Scanned' - 1)
            BY <1>4, <5>1
          <5>3. Blank(text, q + 1, Scanned)
            BY <3>3, <5>2 DEF Blank
          <5> QED BY <1>2, <1>3, <1>6, <3>1, <5>1, <5>3 DEF Agrees, Superior
        <4> QED BY <4>1, <4>2
      <3>4. toksuper' = LastOf(OpenTokens') \/ (toksuper' # 0 /\ ~IsContainer(toksuper)')
        BY <1>2, <1>3, <2>5, <3>1 DEF IsContainer
      <3>5. Superior(text)'
        BY <3>3, <3>4 DEF Superior
      <3> QED BY <1>5, <2>3, <3>5 DEF Agrees
    <2>9. CASE Colon
      <3>1. text[pos + 1] = ":" /\ toksuper' = Len(tokens)
        BY <1>1, <2>9 DEF Colon
      <3>2. text[pos + 1] \notin Space /\ text[pos + 1] \notin Opening
        BY <3>1, ColonKind
      <3>3. PICK k \in DOMAIN toks :
              toks[k].type = "string" /\ Past(toks[k]) <= pos /\ Blank(text, Past(toks[k]), pos)
        BY <2>7, <3>1, <3>2
      <3>4. Len(tokens) = k /\ tokens[k].type = "string"
        BY <1>4, <1>6, <3>3, NameBefore
      <3>5. toksuper' # 0 /\ ~IsContainer(toksuper)'
        BY <1>2, <2>1, <3>1, <3>3, <3>4 DEF IsContainer
      <3>6. text[pos + 1] \notin Turn
        BY <3>1, <3>2 DEF Turn
      <3>7. toksuper' = Len(tokens')
        BY <1>2, <3>1
      <3>8. Superior(text)'
        BY <1>4, <3>2, <3>5, <3>6, <3>7, SuperiorAfter
      <3> QED BY <1>5, <2>3, <3>8 DEF Agrees
    <2>10. CASE Comma
      <3>1. At(pos) \notin Space /\ At(pos) # ":" /\ At(pos) \in Separator
        BY Zenon, <2>10 DEF Comma, Space, Separator
      <3>2. text[pos + 1] \notin Space /\ text[pos + 1] # ":" /\ text[pos + 1] \in Separator
        BY <1>1, <3>1
      <3>3. Around(toks, pos) # {}
        BY <2>7, <3>2
      <3>4. OpenTokens # {}
        BY <2>4, <3>3
      <3>5. toksuper' = IF storing /\ OpenTokens # {} /\ ~IsContainer(toksuper)
                        THEN LastOf(OpenTokens) ELSE toksuper
        BY <2>10 DEF Comma
      <3>6. toksuper' = LastOf(OpenTokens')
        BY <1>3, <1>6, <2>5, <3>4, <3>5
      <3>7. Superior(text)'
        BY <1>4, <3>2, <3>6, SuperiorAfter
      <3> QED BY <1>5, <2>3, <3>7 DEF Agrees
    <2> QED BY <2>8, <2>9, <2>10
  <1>7. CASE ~storing
    BY <1>2, <1>5, <1>7 DEF Agrees
  <1> QED BY <1>6, <1>7

LEMMA AgreesClose ==
  ASSUME NEW text, NEW toks, Tokenized(text, toks), ParserInv, Follows(text, toks),
         Agrees(text, toks), CloseContainer
  PROVE  Agrees(text, toks)'
  <1> DEFINE c == LastOf(OpenTokens)
  <1>1. PICK k \in DOMAIN toks :
           /\ ~Leaf(toks[k]) /\ Past(toks[k]) = pos + 1 /\ text[pos + 1] \in Closing
           /\ pos \in 0 .. (Len(text) - 1) /\ pc = "parse" /\ pc' = "parse"
           /\ UNCHANGED <<js, storing, count>> /\ pos' = pos + 1
           /\ ~storing => UNCHANGED tokens
           /\ storing =>
                /\ OpenTokens # {} /\ pos < Len(js)
                /\ tokens[c].start = Begin(toks[k])
                /\ tokens' = [tokens EXCEPT ![c].end = pos + 1]
                /\ toksuper' = Enclosing(c)
    BY AtClosing
  <1>2. /\ pos \in Nat /\ Scanned = pos /\ Scanned' = pos + 1 /\ pos + 1 \in Nat
        /\ Len(tokens) \in Nat /\ DOMAIN tokens = 1 .. Len(tokens)
        /\ Len(toks) \in Nat /\ DOMAIN toks = 1 .. Len(toks)
    BY <1>1, InvFacts, TextTypes DEF Scanned
  <1>3. \A j \in DOMAIN toks : j # k => Keeps(toks[j], Scanned, Scanned')
    BY <1>1, <1>2, ClosePassed
  <1>4. /\ Begin(toks[k]) \in Nat /\ Begin(toks[k]) < Scanned /\ Begin(toks[k]) < Scanned'
        /\ Begin(toks[k]) = toks[k].start /\ Past(toks[k]) = toks[k].end
    BY <1>1, <1>2, TokenBounds DEF Leaf
  <1>5. \A j \in DOMAIN toks : Leaf(toks[j]) => j # k
    BY <1>1
  <1>6. \A j \in DOMAIN toks : Begin(toks[j]) < Scanned <=> Begin(toks[j]) < Scanned'
    BY <1>3, <1>4 DEF Keeps
  <1>7. CASE storing
    <2>1. OpenTokens \in SUBSET (1 .. Len(tokens)) /\ c \in OpenTokens
      BY <1>1, <1>2, <1>7, LastOfIsLast DEF OpenTokens
    <2>2. /\ Len(tokens') = Len(tokens) /\ tokens' \in Seq(Token)
          /\ \A j \in DOMAIN tokens :
               /\ tokens'[j].type = tokens[j].type /\ tokens'[j].size = tokens[j].size
               /\ tokens'[j].start = tokens[j].start
               /\ tokens'[j].end = IF j = c THEN pos + 1 ELSE tokens[j].end
      BY <1>1, <1>7, ClosedNests
    <2>3. OpenTokens' = OpenTokens \ {c}
      BY <1>1, <1>7, OpenAfterClosed
    <2>4. Found' = Found
      BY <1>1, <1>7, <2>2 DEF Found
    <2>5. Whole(toks)' /\ Begun(toks)'
      BY <1>2, <1>3, <1>5, <1>6, <2>4, BeginsNone
    <2>6. Len(tokens) <= Len(toks) /\ OpenTokens = Around(toks, Scanned)
      BY <1>7, OpenAround DEF Agrees, Begun, Found
    <2>7. \A j \in DOMAIN tokens :
            /\ j \in DOMAIN toks
            /\ tokens[j].type = toks[j].type /\ tokens[j].start = toks[j].start
            /\ tokens[j].end = IF Past(toks[j]) <= Scanned THEN toks[j].end ELSE -1
            /\ tokens[j].size = Cardinality(Children(text, toks, Len(tokens), j))
      BY <1>2, <1>7, <2>6 DEF Agrees, StoredSoFar
    <2>8. toksuper' = LastOf(OpenTokens')
      BY <1>1, <1>7, <2>3 DEF Enclosing
    <2> HIDE DEF c
    <2>9. c = k
      <3>1. c \in DOMAIN tokens /\ c \in DOMAIN toks
        BY <1>2, <2>1, <2>7
      <3>2. Begin(toks[c]) = toks[c].start
        <4>1. CASE toks[c].type = "string"
          <5>1. Scanned <= Begin(toks[c]) \/ Past(toks[c]) <= Scanned
            BY <3>1, <4>1 DEF Follows, Seam
          <5>2. Begin(toks[c]) < Scanned /\ Scanned < Past(toks[c])
            BY <2>1, <2>6 DEF Around
          <5> QED BY <1>2, <3>1, <5>1, <5>2, TokenBounds
        <4>2. CASE toks[c].type # "string"
          BY <3>1, <4>2, TokenBounds
        <4> QED BY <4>1, <4>2
      <3>3. Begin(toks[c]) = Begin(toks[k])
        BY <1>1, <1>7, <2>7, <3>1, <3>2
      <3> QED BY <3>1, <3>3, SameBegin
    <2>10. StoredSoFar(text, toks)'
      <3>1. DOMAIN tokens' = DOMAIN tokens
        BY <1>2, <2>2
      <3>2. ASSUME NEW j \in DOMAIN tokens
            PROVE  tokens'[j].end = IF Past(toks[j]) <= Scanned' THEN toks[j].end ELSE -1
        <4>1. CASE j = k
          BY <1>1, <1>2, <1>4, <2>2, <2>9, <4>1
        <4>2. CASE j # k
          BY <1>3, <2>2, <2>7, <2>9, <4>2 DEF Keeps
        <4> QED BY <4>1, <4>2
      <3> QED BY <2>2, <2>7, <3>1, <3>2 DEF StoredSoFar
    <2>11. text[pos + 1] \notin Space /\ text[pos + 1] # ":" /\ text[pos + 1] \notin Turn
      <3>1. text[pos + 1] \notin Opening /\ text[pos + 1] \notin Separator /\ text[pos + 1] # ":"
        BY <1>1, CharKinds, ColonKind
      <3> QED BY <3>1, CharKinds DEF Turn
    <2>12. Superior(text)'
      BY <1>2, <2>8, <2>11, SuperiorAfter
    <2> QED BY <2>5, <2>10, <2>12 DEF Agrees
  <1>8. CASE ~storing
    <2>1. Found' = Found
      BY <1>1, <1>8 DEF Found
    <2>2. Whole(toks)' /\ Begun(toks)'
      BY <1>2, <1>3, <1>5, <1>6, <2>1, BeginsNone
    <2> QED BY <1>1, <1>8, <2>2 DEF Agrees
  <1> QED BY <1>7, <1>8


LEMMA AgreesPrimitive ==
  ASSUME NEW text, NEW toks, Tokenized(text, toks), ParserInv, Follows(text, toks),
         Agrees(text, toks), Countable(text, toks), Uncut(toks), Primitive, ~Return(NOMEM)
  PROVE  Agrees(text, toks)'
  <1>1. PICK k \in DOMAIN toks, q \in Nat :
           /\ toks[k].type = "primitive" /\ Begin(toks[k]) <= pos /\ pos < Past(toks[k])
           /\ pos <= q /\ q <= Past(toks[k]) /\ (q = Len(js) \/ q = Past(toks[k]))
           /\ pc = "parse" /\ pc' = "parse" /\ pos' = q /\ count' = count + 1
           /\ UNCHANGED <<js, storing, toksuper>>
           /\ tokens' = IF storing THEN Counted(Fresh("primitive", pos, q)) ELSE tokens
    BY AtPrimitive
  <1>2. /\ pos \in Nat /\ Scanned = pos /\ Scanned' = q /\ Leaf(toks[k])
        /\ Begin(toks[k]) \in Nat /\ Past(toks[k]) \in Nat
        /\ Begin(toks[k]) = toks[k].start /\ Past(toks[k]) = toks[k].end
    BY <1>1, InvFacts, TokenBounds DEF Scanned, Leaf
  <1>3. Begin(toks[k]) = pos
    BY <1>1, <1>2 DEF Agrees, Whole
  <1>4. \A j \in DOMAIN toks : j # k => Keeps(toks[j], Scanned, Scanned')
    BY <1>1, <1>2, LeafPassed
  <1>5. q = Past(toks[k])
    <2>1. CASE q < Past(toks[k])
      <3>1. q = Len(js)
        BY <1>1, <2>1
      <3>2. q # Begin(toks[k])
        <4> SUFFICES ASSUME q = pos PROVE FALSE
          BY <1>3
        <4>1. pos < Len(js)
          BY <1>1, InvFacts DEF Primitive, Scanning, Stopped
        <4> QED BY <1>2, <3>1, <4>1
      <3>3. Begin(toks[k]) < Len(js)
        BY <1>1, <1>2, <1>3, <3>1, <3>2
      <3> QED BY <1>1, <2>1, <3>1, <3>3 DEF Uncut
    <2> QED BY <1>1, <1>2, <2>1
  <1>6. tokens' = IF storing THEN Counted(Fresh(toks[k].type, toks[k].start, toks[k].end)) ELSE tokens
    BY <1>1, <1>2, <1>3, <1>5
  <1>7. Begin(toks[k]) = Scanned /\ Scanned' = Past(toks[k])
    BY <1>2, <1>3, <1>5
  <1> QED BY <1>1, <1>2, <1>4, <1>6, <1>7, AgreesLeaf

LEMMA AgreesEndString ==
  ASSUME NEW text, NEW toks, Tokenized(text, toks), ParserInv, Follows(text, toks),
         Agrees(text, toks), EndString, ~GiveBack(NOMEM)
  PROVE  Agrees(text, toks)'
  <1>1. PICK k \in DOMAIN toks :
           /\ toks[k].type = "string" /\ start = Begin(toks[k])
           /\ toks[k].start = start + 1 /\ pos = toks[k].end /\ Past(toks[k]) = pos + 1
           /\ pc = "string" /\ pc' = "parse" /\ pos' = pos + 1 /\ count' = count + 1
           /\ UNCHANGED <<js, storing, toksuper>>
           /\ tokens' = IF storing THEN Counted(Fresh("string", start + 1, pos)) ELSE tokens
    BY AtQuote
  <1>2. /\ pos \in Nat /\ pos + 1 \in Nat /\ start \in Nat /\ start < pos /\ Leaf(toks[k])
        /\ Scanned = start /\ Scanned' = pos + 1
    BY <1>1, InvFacts DEF Scanned, Leaf, ParserInv, InsideString
  <1>3. start <= pos + 1 /\ start <= start /\ pos + 1 <= pos + 1
    BY <1>2
  <1>4. \A j \in DOMAIN toks : j # k => Keeps(toks[j], Scanned, Scanned')
    BY <1>1, <1>2, <1>3, LeafPassed
  <1>5. tokens' = IF storing THEN Counted(Fresh(toks[k].type, toks[k].start, toks[k].end)) ELSE tokens
    BY <1>1
  <1>6. Begin(toks[k]) = Scanned /\ Scanned' = Past(toks[k])
    BY <1>1, <1>2
  <1> QED BY <1>1, <1>2, <1>4, <1>5, <1>6, AgreesLeaf

LEMMA StepAgrees ==
  ASSUME NEW text, NEW toks, Tokenized(text, toks), ParserInv, Follows(text, toks),
         Agrees(text, toks), Countable(text, toks), Uncut(toks), ParseStep
  PROVE  Agrees(text, toks)'
  <1>1. CASE OpenContainer
    <2>1. CASE Return(NOMEM)
      BY <1>1, <2>1, StopsFull DEF OpenContainer, Scanning
    <2> QED BY <1>1, <2>1, AgreesOpen
  <1>2. CASE CloseContainer
    BY <1>2, AgreesClose
  <1>3. CASE SkipSpace \/ Colon \/ Comma
    BY <1>3, AgreesSeparator
  <1>4. CASE Primitive
    <2>1. CASE Return(NOMEM)
      BY <1>4, <2>1, StopsFull DEF Primitive, Scanning
    <2> QED BY <1>4, <2>1, AgreesPrimitive
  <1>5. CASE Finish \/ StringPart
    BY <1>5, FollowsReturn
  <1>6. CASE StartString \/ StringChar \/ StringEscape
    BY <1>6, FollowsString
  <1>7. CASE EndString
    <2>1. CASE GiveBack(NOMEM)
      BY <1>7, <2>1, StopsFull DEF EndString, InString
    <2> QED BY <1>7, <2>1, AgreesEndString
  <1> QED BY <1>1, <1>2, <1>3, <1>4, <1>5, <1>6, <1>7 DEF ParseStep

-----------------------------------------------------------------------------
(* Calls, and what they have found in the end.                              *)

\* Nothing has been scanned.
AtStart(text) ==
  /\ OnText(text) /\ pos = 0 /\ toksuper = 0 /\ tokens = <<>> /\ count = 0
  /\ pc = "parse" \/ (pc = "idle" /\ result = 0 /\ js = <<>>)
  /\ storing \in BOOLEAN

LEMMA StartFollows ==
  ASSUME NEW text, NEW toks, Tokenized(text, toks), AtStart(text)
  PROVE  Follows(text, toks) /\ Agrees(text, toks)
  <1>1. Scanned = 0 /\ tokens = <<>> /\ toksuper = 0 /\ OpenTokens = {} /\ Found = 0
        /\ pc # "string" /\ OnText(text) /\ storing \in BOOLEAN
    BY DEF AtStart, Scanned, OpenTokens, Found
  <1>2. \A k \in DOMAIN toks : Begin(toks[k]) \in Nat /\ 0 <= Begin(toks[k]) /\ ~(Begin(toks[k]) < 0)
    BY TokenBounds
  <1>3. Around(toks, 0) = {}
    BY <1>2 DEF Around
  <1>4. Seam(toks, Scanned) /\ Whole(toks)
    BY <1>1, <1>2 DEF Seam, Whole
  <1>5. Answers(text)
    BY <1>1 DEF AtStart, Answers, PART, INVAL
  <1>6. OpenMatch(toks) /\ InLiteral(text, toks)
    BY <1>1, <1>3 DEF OpenMatch, InLiteral
  <1>7. Begun(toks)
    <2>1. \A k \in DOMAIN toks : ~(k <= 0)
      BY TextTypes
    <2> QED BY <1>1, <1>2, <2>1, TextTypes DEF Begun
  <1>8. StoredSoFar(text, toks)
    BY <1>1 DEF StoredSoFar
  <1>9. Superior(text)
    <2>1. LastOf({}) = 0
      BY DEF LastOf
    <2> QED BY <1>1, <2>1 DEF Superior
  <1> QED BY <1>1, <1>4, <1>5, <1>6, <1>7, <1>8, <1>9 DEF Follows, Agrees

\* A call for a new text.
LEMMA BeginsText ==
  ASSUME NEW text, NEW toks, Tokenized(text, toks)
  PROVE  AtStart(text)' => Follows(text, toks)' /\ Agrees(text, toks)'
  <1>1. AtStart(text) => Follows(text, toks) /\ Agrees(text, toks)
    BY StartFollows
  <1> QED BY <1>1, PTL

\* A call that goes on, with more of the text or with more tokens.
LEMMA GoesOnText ==
  ASSUME NEW text, NEW toks, ParserInv, Follows(text, toks), OnText(text)',
         UNCHANGED <<pos, toksuper, tokens>>, storing, storing', pc = "idle", pc' = "parse"
  PROVE  Follows(text, toks)' /\ (Agrees(text, toks) => Agrees(text, toks)')
  <1>1. Scanned' = Scanned /\ OpenTokens' = OpenTokens /\ Found' = Found
    BY DEF Scanned, OpenTokens, IsOpen, Found
  <1>2. Seam(toks, Scanned)' /\ OpenMatch(toks)' /\ InLiteral(text, toks)' /\ Answers(text)'
    BY <1>1 DEF Follows, Seam, OpenMatch, InLiteral, Answers
  <1>3. Follows(text, toks)'
    BY <1>2 DEF Follows
  <1>4. ASSUME Agrees(text, toks) PROVE Agrees(text, toks)'
    <2>1. Whole(toks)' /\ Begun(toks)'
      BY <1>1, <1>4 DEF Agrees, Whole, Begun
    <2>2. StoredSoFar(text, toks)' /\ Superior(text)'
      BY <1>1, <1>4 DEF Agrees, StoredSoFar, Superior, IsContainer
    <2> QED BY <2>1, <2>2 DEF Agrees
  <1> QED BY <1>3, <1>4

LEMMA SameToken ==
  ASSUME NEW s \in Token, NEW t \in Token,
         s.type = t.type, s.start = t.start, s.end = t.end, s.size = t.size
  PROVE  s = t
  <1>1. s = [type |-> s.type, start |-> s.start, end |-> s.end, size |-> s.size]
    BY DEF Token
  <1>2. t = [type |-> t.type, start |-> t.start, end |-> t.end, size |-> t.size]
    BY DEF Token
  <1> QED BY <1>1, <1>2

\* A call that succeeds after something was found has stored the tokens of the text.
LEMMA TextStored ==
  ASSUME NEW text, NEW toks, Tokenized(text, toks), ParserInv, Follows(text, toks),
         Agrees(text, toks), storing, pc = "idle", result >= 0, tokens # <<>>
  PROVE  tokens = toks
  <1>1. /\ tokens \in Seq(Token) /\ Len(tokens) \in Nat /\ DOMAIN tokens = 1 .. Len(tokens)
        /\ toks \in Seq(Token) /\ Len(toks) \in Nat /\ DOMAIN toks = 1 .. Len(toks)
        /\ Len(toks) >= 1 /\ Scanned \in Nat
    BY InvFacts, TextTypes
  <1>2. /\ Len(tokens) <= Len(toks)
        /\ \A k \in DOMAIN toks : k <= Len(tokens) <=> Begin(toks[k]) < Scanned
        /\ StoredSoFar(text, toks)
    BY DEF Agrees, Begun, Found
  <1>3. Around(toks, Scanned) = {}
    BY OpenAround DEF Follows, Answers
  <1>4. \A k \in DOMAIN toks : k <= Len(tokens) => Past(toks[k]) <= Scanned
    <2> SUFFICES ASSUME NEW k \in DOMAIN toks, Begin(toks[k]) < Scanned
                 PROVE  Past(toks[k]) <= Scanned
      BY <1>2
    <2>1. k \notin Around(toks, Scanned) /\ Past(toks[k]) \in Nat
      BY <1>3, TokenBounds
    <2> QED BY <1>1, <2>1 DEF Around
  <1>5. Len(tokens) >= 1 /\ 1 \in DOMAIN toks
    <2>1. Len(tokens) # 0
      BY <1>1
    <2> QED BY <1>1, <2>1
  <1>6. Past(toks[1]) <= Scanned
    BY <1>4, <1>5
  <1>7. \A k \in DOMAIN toks : k <= Len(tokens)
    <2> TAKE k \in DOMAIN toks
    <2>1. CASE k = 1
      BY <1>5, <2>1
    <2>2. CASE k # 1
      <3>1. k > 1
        BY <1>1, <2>2
      <3>2. Begin(toks[k]) < Past(toks[1])
        BY <3>1 DEF Tokenized, Separated
      <3>3. Begin(toks[k]) < Scanned
        BY <1>1, <1>5, <1>6, <3>2, TokenBounds
      <3> QED BY <1>2, <3>3
    <2> QED BY <2>1, <2>2
  <1>8. Len(tokens) = Len(toks)
    <2>1. Len(toks) \in DOMAIN toks
      BY <1>1
    <2>2. Len(toks) <= Len(tokens) /\ Len(tokens) <= Len(toks)
      BY <1>2, <1>7, <2>1
    <2>3. Len(toks) \in Nat /\ Len(tokens) \in Nat
      BY <1>1
    <2> QED BY <2>2, <2>3
  <1>9. ASSUME NEW k \in 1 .. Len(toks) PROVE tokens[k] = toks[k]
    <2>1. k \in DOMAIN tokens /\ k \in DOMAIN toks /\ k <= Len(tokens)
      BY <1>1, <1>8
    <2>2. /\ tokens[k].type = toks[k].type /\ tokens[k].start = toks[k].start
          /\ tokens[k].end = toks[k].end
          /\ tokens[k].size = Cardinality(Children(text, toks, Len(toks), k))
      BY <1>2, <1>4, <1>8, <2>1 DEF StoredSoFar
    <2>3. Children(text, toks, Len(toks), k) = {j \in DOMAIN toks : Parent(text, toks, j) = k}
      BY <1>1 DEF Children
    <2>4. toks[k].size = Cardinality({j \in DOMAIN toks : Parent(text, toks, j) = k})
      BY <2>1 DEF Tokenized, Sized
    <2>5. tokens[k].size = toks[k].size
      BY <2>2, <2>3, <2>4
    <2>6. tokens[k] \in Token /\ toks[k] \in Token
      BY <1>1, <2>1
    <2> QED BY <2>2, <2>5, <2>6, SameToken
  <1> QED BY <1>1, <1>8, <1>9

\* A call that counts has found as many tokens as the text has.
LEMMA TextCounted ==
  ASSUME NEW text, NEW toks, Tokenized(text, toks), ParserInv, Follows(text, toks),
         Agrees(text, toks), ~storing, pc = "idle", result >= 0, Len(js) = Len(text)
  PROVE  result = Len(toks)
  <1>1. result = count /\ pos = Len(text)
    BY DEF Follows, Answers
  <1>2. Scanned = Len(text) /\ Found = count /\ count \in Nat
    BY <1>1, InvFacts DEF Scanned, Found
  <1>3. Len(toks) \in Nat /\ DOMAIN toks = 1 .. Len(toks) /\ Len(toks) >= 1 /\ Len(text) \in Nat
    BY TextTypes
  <1>4. Len(toks) \in DOMAIN toks
    BY <1>3
  <1>5. Begin(toks[Len(toks)]) < Scanned
    BY <1>2, <1>3, <1>4, TokenBounds
  <1>6. Len(toks) <= count /\ count <= Len(toks)
    BY <1>2, <1>4, <1>5 DEF Agrees, Begun
  <1>7. Len(toks) \in Nat /\ count \in Nat
    BY <1>2, <1>3
  <1>8. count = Len(toks)
    BY <1>6, <1>7
  <1> QED BY <1>1, <1>8

\* A call with as many tokens as the text has never asks for more.
LEMMA RoomForAll ==
  ASSUME NEW text, NEW toks, Tokenized(text, toks), ParserInv, Follows(text, toks),
         Agrees(text, toks), Len(toks) <= capacity, ParseStep, result # NOMEM
  PROVE  result' # NOMEM
  <1>0. INVAL # NOMEM /\ PART # NOMEM /\ count # NOMEM
    BY InvFacts DEF INVAL, NOMEM, PART
  <1>1. ASSUME Full, NEW k \in DOMAIN toks PROVE Begin(toks[k]) < Scanned
    <2>1. /\ Len(tokens) >= capacity /\ Found = Len(tokens) /\ Found <= Len(toks)
          /\ (k <= Found <=> Begin(toks[k]) < Scanned)
      BY <1>1 DEF Full, Found, Agrees, Begun
    <2>2. k \in 1 .. Len(toks) /\ Len(toks) \in Nat /\ Len(tokens) \in Nat /\ capacity \in Nat
      BY TextTypes, InvFacts DEF ParserInv, JsmnTypeOK
    <2> QED BY <2>1, <2>2
  <1>2. pos \in Nat /\ pos <= Len(js) /\ Len(js) \in Nat /\ OnText(text) /\ Seam(toks, Scanned)
    BY InvFacts DEF Follows
  <1>3. CASE OpenContainer
    <2>1. Full \/ result' = result
      BY <1>3 DEF OpenContainer
    <2>2. pc = "parse" /\ ~Stopped(pos) /\ At(pos) \in Opening
      BY <1>3, Zenon DEF OpenContainer, Scanning, Opening
    <2>3. ~Full
      <3> SUFFICES ASSUME Full PROVE FALSE
        OBVIOUS
      <3>1. Scanned = pos /\ pos < Len(js) /\ At(pos) = text[pos + 1] /\ pos \in 0 .. (Len(text) - 1)
        BY <1>2, <2>2, Reading DEF Scanned
      <3>2. PICK k \in DOMAIN toks : Begin(toks[k]) = pos
        BY <1>2, <2>2, <3>1, AtSeam
      <3> QED BY <1>1, <1>2, <3>1, <3>2
    <2> QED BY <2>1, <2>3
  <1>4. CASE Primitive
    <2>1. Full \/ result' = result \/ result' = INVAL \/ result' = PART
      BY <1>4, Zenon DEF Primitive, Return
    <2>2. pc = "parse" /\ ~Stopped(pos) /\ At(pos) \notin Delimiter \cup Opening \cup {Quote}
      BY <1>4, Zenon DEF Primitive, Scanning, Opening, Quote
    <2>3. ~Full
      <3> SUFFICES ASSUME Full PROVE FALSE
        OBVIOUS
      <3>1. Scanned = pos /\ pos < Len(js) /\ At(pos) = text[pos + 1] /\ pos \in 0 .. (Len(text) - 1)
        BY <1>2, <2>2, Reading DEF Scanned
      <3>2. PICK k \in DOMAIN toks :
              toks[k].type = "primitive" /\ Begin(toks[k]) <= pos /\ pos < Past(toks[k])
        BY <1>2, <2>2, <3>1, AtSeam
      <3>3. pos <= Begin(toks[k]) \/ Past(toks[k]) <= pos
        BY <3>1, <3>2 DEF Agrees, Whole
      <3>4. Begin(toks[k]) \in Nat /\ Past(toks[k]) \in Nat /\ Begin(toks[k]) < pos
        BY <1>1, <3>1, TokenBounds
      <3> QED BY <1>2, <3>2, <3>3, <3>4
    <2> QED BY <1>0, <2>1, <2>3
  <1>5. CASE EndString
    <2>1. pc = "string" /\ (Full \/ result' = result)
      BY <1>5, Zenon DEF EndString, InString
    <2>2. PICK k \in DOMAIN toks : start = Begin(toks[k])
      BY <2>1 DEF Follows, InLiteral
    <2>3. ~Full
      BY <1>1, <2>1, <2>2, InvFacts DEF Scanned
    <2> QED BY <2>1, <2>3
  <1>6. CASE SkipSpace \/ Colon \/ Comma \/ StartString \/ StringChar
    BY <1>6, Zenon DEF SkipSpace, Colon, Comma, StartString, StringChar
  <1>7. CASE CloseContainer
    <2>1. result' = result \/ result' = INVAL
      BY <1>7, Zenon DEF CloseContainer, Return
    <2> QED BY <1>0, <2>1
  <1>8. CASE Finish
    BY <1>0, <1>8 DEF Finish, Return
  <1>9. CASE StringEscape \/ StringPart
    <2>1. result' \in {result, INVAL, PART}
      BY <1>9 DEF StringEscape, StringPart, GiveBack
    <2> QED BY <1>0, <2>1
  <1> QED BY <1>3, <1>4, <1>5, <1>6, <1>7, <1>8, <1>9 DEF ParseStep


\* A step of the parser changes neither the text nor the size of the array.
LEMMA StepKeeps ==
  ASSUME ParseStep
  PROVE  pc # "idle" /\ UNCHANGED <<strict, js, storing, capacity>>
  <1>1. pc # "idle"
    BY DEF ParseStep, OpenContainer, CloseContainer, SkipSpace, Colon, Comma, Primitive,
           Finish, StartString, EndString, StringChar, StringEscape, StringPart, Scanning, InString
  <1>2. UNCHANGED <<strict, js>>
    BY DEF ParseStep, OpenContainer, CloseContainer, SkipSpace, Colon, Comma, Primitive,
           Finish, StartString, EndString, StringChar, StringEscape, StringPart
  <1>3. UNCHANGED <<storing, capacity>>
    BY DEF ParseStep, OpenContainer, CloseContainer, SkipSpace, Colon, Comma, Primitive,
           Finish, StartString, EndString, StringChar, StringEscape, StringPart, Return, GiveBack
  <1> QED BY <1>1, <1>2, <1>3

\* What a step that leaves the parser alone does not change.
LEMMA SameFollows ==
  ASSUME NEW text, NEW toks, UNCHANGED jsmnVars
  PROVE  /\ Follows(text, toks)' <=> Follows(text, toks)
         /\ Agrees(text, toks)' <=> Agrees(text, toks)
  <1>1. UNCHANGED <<js, pos, toksuper, tokens, capacity, storing, start, count, pc, result>>
    BY DEF jsmnVars, parserVars
  <1>2. UNCHANGED <<Scanned, OpenTokens, Found>>
    BY <1>1 DEF Scanned, OpenTokens, IsOpen, Found
  <1>3. Follows(text, toks)' <=> Follows(text, toks)
    BY <1>1, <1>2, Zenon DEF Follows, OnText, Seam, InLiteral, OpenMatch, Answers
  <1>4. Agrees(text, toks)' <=> Agrees(text, toks)
    BY <1>1, <1>2, Zenon DEF Agrees, Whole, Begun, StoredSoFar, Superior, IsContainer
  <1> QED BY <1>3, <1>4


=============================================================================

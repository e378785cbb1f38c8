----------------------------- MODULE Jsmn_proofs -----------------------------
(***************************************************************************)
(* What jsmn keeps true for any caller that starts texts or continues them: *)
(* the type invariant with the bound of the caller's array, the nesting of  *)
(* the tokens, and the superior token of an open container.                 *)
(***************************************************************************)
EXTENDS Jsmn, WellFoundedInduction, TLAPS

-----------------------------------------------------------------------------
(* First and last elements of sets of indices.                              *)

\* A set of natural numbers that is not empty has a least element.
LEMMA LeastOf ==
  ASSUME NEW S \in SUBSET Nat, S # {}
  PROVE  \E i \in S : \A j \in S : i <= j
  <1> DEFINE R == {ss \in Nat \X Nat : ss[1] < ss[2]}
  <1>1. IsWellFoundedOn(R, Nat)
    BY NatLessThanWellFounded, Zenon DEF OpToRel
  <1>2. PICK i \in S : \A j \in S : ~(<<j, i>> \in R)
    BY <1>1, WFMin
  <1>3. ASSUME NEW j \in S PROVE i <= j
    <2>1. ~(<<j, i>> \in Nat \X Nat /\ j < i)
      BY <1>2
    <2> QED BY <2>1
  <1> QED BY <1>3

\* LastOf finds the last element of a set of indices.
LEMMA LastOfIsLast ==
  ASSUME NEW n \in Nat, NEW S \in SUBSET (1 .. n), S # {}
  PROVE  LastOf(S) \in S /\ \A j \in S : j <= LastOf(S)
  <1> DEFINE T == {m \in Nat : n - m \in S}
  <1>1. PICK s \in S : TRUE
    OBVIOUS
  <1>2. n - s \in T
    BY <1>1
  <1>3. PICK m \in T : \A k \in T : m <= k
    BY <1>2, LeastOf
  <1>4. ASSUME NEW j \in S PROVE j <= n - m
    <2>1. n - j \in T
      BY <1>4
    <2>2. j \in 1 .. n /\ m \in Nat
      OBVIOUS
    <2>3. m <= n - j
      BY <1>3, <2>1
    <2> QED BY <2>2, <2>3
  <1>5. n - m \in S
    BY <1>3
  <1>6. \E i \in S : \A j \in S : j <= i
    BY <1>4, <1>5
  <1> QED BY <1>6 DEF LastOf

-----------------------------------------------------------------------------
(* The inductive invariant.                                                 *)

\* All tokens lie before what is scanned now: the string that is not complete, or pos.
Scanned == IF pc = "string" THEN start ELSE pos

Behind == \A i \in DOMAIN tokens : tokens[i].start < Scanned /\ tokens[i].end <= Scanned

InsideString == pc = "string" => start < pos

ParserInv == JsmnTypeOK /\ TokensNest /\ SuperOfOpen /\ Behind /\ InsideString

-----------------------------------------------------------------------------
(* Where the loops over primitives and escapes end.                         *)

LEMMA PrimitiveEndType ==
  ASSUME js \in Seq(Char), NEW p \in 0 .. Len(js)
  PROVE  /\ PrimitiveEnd(p) \in p .. Len(js) /\ PrimitiveEnds(PrimitiveEnd(p))
         /\ \A r \in p .. (PrimitiveEnd(p) - 1) : ~PrimitiveEnds(r)
  <1> DEFINE S == {q \in p .. Len(js) : PrimitiveEnds(q)}
  <1>1. Len(js) \in Nat
    OBVIOUS
  <1>2. Len(js) \in S
    BY <1>1 DEF PrimitiveEnds, Stopped
  <1>3. S \in SUBSET Nat
    BY <1>1
  <1>4. PICK q \in S : \A r \in S : q <= r
    BY <1>2, <1>3, LeastOf
  <1>5. \A r \in p .. (q - 1) : ~PrimitiveEnds(r)
    <2> TAKE r \in p .. (q - 1)
    <2>1. r \in p .. Len(js) /\ ~(q <= r)
      BY <1>1, <1>4
    <2> QED BY <1>4, <2>1
  <1>6. q \in p .. Len(js) /\ PrimitiveEnds(q)
    BY <1>4
  <1> HIDE DEF S
  <1> QED BY <1>5, <1>6 DEF PrimitiveEnd

LEMMA UnicodeEndType ==
  ASSUME js \in Seq(Char), NEW p \in 0 .. Len(js)
  PROVE  /\ UnicodeEnd(p) \in p .. Len(js) /\ UnicodeEnd(p) <= p + 4
         /\ UnicodeEnd(p) = p + 4 \/ Stopped(UnicodeEnd(p))
  <1> DEFINE S == {q \in p .. (p + 4) : q = p + 4 \/ Stopped(q)}
  <1>1. Len(js) \in Nat /\ p \in Nat
    OBVIOUS
  <1>2. p + 4 \in S /\ S \in SUBSET Nat
    BY <1>1
  <1>3. PICK q \in S : \A r \in S : q <= r
    BY <1>2, LeastOf
  <1>4. \A r \in p .. (q - 1) : ~Stopped(r)
    <2> TAKE r \in p .. (q - 1)
    <2>1. q \in p .. (p + 4)
      BY <1>3
    <2>2. r \in p .. (p + 4) /\ ~(q <= r)
      BY <1>1, <2>1
    <2> QED BY <1>3, <2>2
  <1>5. q \in p .. (p + 4) /\ (q = p + 4 \/ Stopped(q))
    BY <1>3
  <1> DEFINE u == UnicodeEnd(p)
  <1>6. /\ u \in p .. (p + 4) /\ \A r \in p .. (u - 1) : ~Stopped(r)
        /\ u = p + 4 \/ Stopped(u)
    <2> HIDE DEF S
    <2> QED BY <1>4, <1>5 DEF UnicodeEnd
  <1> HIDE DEF u
  <1>7. u <= Len(js)
    <2>1. CASE u = p
      BY <2>1, <1>1
    <2>2. CASE u # p
      <3>1. u - 1 \in p .. (u - 1)
        BY <1>1, <1>6, <2>2
      <3>2. ~Stopped(u - 1)
        BY <1>6, <3>1
      <3> QED BY <1>1, <1>6, <3>2 DEF Stopped
    <2> QED BY <2>1, <2>2
  <1>8. u \in p .. Len(js)
    BY <1>1, <1>6, <1>7
  <1> QED BY <1>6, <1>8 DEF u

-----------------------------------------------------------------------------
(* What the steps do to the tokens.                                         *)

LEMMA TokenFields ==
  ASSUME NEW t \in Token
  PROVE  t.type \in Type /\ t.start \in Nat /\ t.end \in Nat \cup {-1} /\ t.size \in Nat
  BY DEF Token

LEMMA TokenGrows ==
  ASSUME NEW t \in Token, NEW m \in Nat
  PROVE  LET u == [t EXCEPT !.size = m]
         IN u \in Token /\ u.type = t.type /\ u.start = t.start /\ u.end = t.end /\ u.size = m
  BY DEF Token

LEMMA TokenCloses ==
  ASSUME NEW t \in Token, NEW m \in Nat
  PROVE  LET u == [t EXCEPT !.end = m]
         IN u \in Token /\ u.type = t.type /\ u.start = t.start /\ u.end = m /\ u.size = t.size
  BY DEF Token

LEMMA Replaced ==
  ASSUME NEW S, NEW q \in Seq(S), NEW k \in 1 .. Len(q), NEW x \in S,
         NEW r, r = [q EXCEPT ![k] = x]
  PROVE  /\ r \in Seq(S) /\ Len(r) = Len(q)
         /\ \A j \in 1 .. Len(q) : r[j] = IF j = k THEN x ELSE q[j]
  OBVIOUS

\* A token is appended and its superior token counts it; all others keep their bounds.
LEMMA Added ==
  ASSUME ParserInv, NEW type \in Type, NEW s \in Nat, NEW e \in Nat \cup {-1},
         tokens' = Counted(Fresh(type, s, e))
  PROVE  /\ tokens' \in Seq(Token)
         /\ Len(tokens') = Len(tokens) + 1
         /\ \A k \in DOMAIN tokens :
              /\ tokens'[k].type = tokens[k].type
              /\ tokens'[k].start = tokens[k].start /\ tokens'[k].end = tokens[k].end
              /\ tokens'[k].size = IF k = toksuper THEN tokens[k].size + 1 ELSE tokens[k].size
         /\ tokens'[Len(tokens) + 1].type = type
         /\ tokens'[Len(tokens) + 1].start = s
         /\ tokens'[Len(tokens) + 1].end = e
         /\ tokens'[Len(tokens) + 1].size = 0
  <1>0. tokens \in Seq(Token) /\ toksuper \in 0 .. Len(tokens) /\ Len(tokens) \in Nat
    BY DEF ParserInv, JsmnTypeOK
  <1> DEFINE tok == [type |-> type, start |-> s, end |-> e, size |-> 0]
             toks == Append(tokens, tok)
             n == Len(tokens) + 1
  <1>1. tok \in Token /\ tok.type = type /\ tok.start = s /\ tok.end = e /\ tok.size = 0
    BY DEF Token
  <1>2. /\ toks \in Seq(Token) /\ Len(toks) = n /\ toks[n] = tok
        /\ \A k \in 1 .. Len(tokens) : toks[k] = tokens[k]
    BY <1>0, <1>1
  <1> HIDE DEF tok
  <1>3. CASE toksuper = 0
    BY <1>0, <1>1, <1>2, <1>3 DEF Counted, Fresh, tok
  <1>4. CASE toksuper # 0
    <2>1. toksuper \in 1 .. Len(toks)
      BY <1>0, <1>2, <1>4
    <2>2. tokens' = [toks EXCEPT ![toksuper].size = @ + 1]
      BY <1>4 DEF Counted, Fresh, tok
    <2> DEFINE old == toks[toksuper]
               new == [old EXCEPT !.size = old.size + 1]
    <2>3. tokens' = [toks EXCEPT ![toksuper] = new]
      BY <2>2
    <2> HIDE DEF toks
    <2>4. old \in Token
      BY <1>2, <2>1
    <2> HIDE DEF old
    <2>5. old.size + 1 \in Nat
      BY <2>4, TokenFields
    <2>6. /\ new \in Token /\ new.type = old.type /\ new.start = old.start /\ new.end = old.end
          /\ new.size = old.size + 1
      BY <2>4, <2>5, TokenGrows
    <2> HIDE DEF new
    <2>7. /\ tokens' \in Seq(Token) /\ Len(tokens') = n
          /\ \A k \in 1 .. n : tokens'[k] = IF k = toksuper THEN new ELSE toks[k]
      BY <1>2, <2>1, <2>3, <2>6, Replaced
    <2>8. \A k \in 1 .. n :
            /\ tokens'[k].type = toks[k].type
            /\ tokens'[k].start = toks[k].start /\ tokens'[k].end = toks[k].end
            /\ tokens'[k].size = IF k = toksuper THEN toks[k].size + 1 ELSE toks[k].size
      BY <2>6, <2>7 DEF old
    <2>9. /\ n \in 1 .. n /\ n # toksuper
          /\ \A k \in DOMAIN tokens : k \in 1 .. n /\ k \in 1 .. Len(tokens)
      BY <1>0
    <2> QED BY <1>1, <1>2, <2>7, <2>8, <2>9
  <1> QED BY <1>3, <1>4

\* A token behind all others keeps the tokens nested.
LEMMA AddedNests ==
  ASSUME ParserInv, NEW type \in Type, NEW s \in Nat, NEW e \in Nat \cup {-1},
         Scanned <= s, tokens' = Counted(Fresh(type, s, e))
  PROVE  TokensNest'
  <1> DEFINE n == Len(tokens) + 1
  <1>0. Len(tokens) \in Nat /\ DOMAIN tokens = 1 .. Len(tokens) /\ tokens \in Seq(Token)
        /\ pos \in Nat /\ start \in Nat
    BY DEF ParserInv, JsmnTypeOK
  <1>a. Scanned \in Nat
    BY <1>0 DEF Scanned
  <1>1. DOMAIN tokens' = 1 .. n
    BY <1>0, Added
  <1>2. \A k \in 1 .. Len(tokens) :
          tokens'[k].start = tokens[k].start /\ tokens'[k].end = tokens[k].end
    BY <1>0, Added
  <1>3. tokens'[n].start = s
    BY Added
  <1>4. \A k \in 1 .. Len(tokens) : tokens[k].start < Scanned /\ tokens[k].end <= Scanned
    BY <1>0 DEF ParserInv, Behind
  <1>5. \A k \in 1 .. Len(tokens) : tokens[k].start \in Nat /\ tokens[k].end \in Nat \cup {-1}
    BY <1>0, TokenFields
  <1>6. \A i, j \in 1 .. Len(tokens) : i < j =>
          /\ tokens[i].start < tokens[j].start
          /\ tokens[i].end # -1 =>
               \/ tokens[i].end <= tokens[j].start
               \/ tokens[j].end # -1 /\ tokens[j].end <= tokens[i].end
    BY <1>0 DEF ParserInv, TokensNest
  <1> DEFINE Ordered(i, j) ==
               /\ tokens'[i].start < tokens'[j].start
               /\ tokens'[i].end # -1 =>
                    \/ tokens'[i].end <= tokens'[j].start
                    \/ tokens'[j].end # -1 /\ tokens'[j].end <= tokens'[i].end
  <1>7. ASSUME NEW i \in 1 .. n, NEW j \in 1 .. n, i < j PROVE Ordered(i, j)
    <2>1. i \in 1 .. Len(tokens)
      BY <1>0, <1>7
    <2>2. CASE j = n
      BY SMTT(30), <1>a, <1>2, <1>3, <1>4, <1>5, <2>1, <2>2
    <2>3. CASE j # n
      <3>1. j \in 1 .. Len(tokens)
        BY <1>0, <2>3
      <3> QED BY <1>2, <1>6, <1>7, <2>1, <3>1
    <2> QED BY <2>2, <2>3
  <1> QED BY <1>1, <1>7 DEF TokensNest

\* Closing the last open container: what stands behind it is closed and lies inside.
LEMMA ClosedNests ==
  ASSUME ParserInv, OpenTokens # {}, pc # "string", pos < Len(js),
         NEW c, c = LastOf(OpenTokens), tokens' = [tokens EXCEPT ![c].end = pos + 1]
  PROVE  /\ tokens' \in Seq(Token)
         /\ Len(tokens') = Len(tokens)
         /\ \A k \in DOMAIN tokens :
              /\ tokens'[k].type = tokens[k].type /\ tokens'[k].size = tokens[k].size
              /\ tokens'[k].start = tokens[k].start
              /\ tokens'[k].end = IF k = c THEN pos + 1 ELSE tokens[k].end
         /\ TokensNest'
  <1>0. Len(tokens) \in Nat /\ DOMAIN tokens = 1 .. Len(tokens) /\ tokens \in Seq(Token)
        /\ pos \in Nat
    BY DEF ParserInv, JsmnTypeOK
  <1>1. OpenTokens \in SUBSET (1 .. Len(tokens))
    BY <1>0 DEF OpenTokens
  <1>2. c \in OpenTokens /\ \A k \in OpenTokens : k <= c
    BY <1>0, <1>1, LastOfIsLast
  <1>3. c \in 1 .. Len(tokens) /\ tokens[c].end = -1
    BY <1>1, <1>2 DEF OpenTokens, IsOpen
  <1> DEFINE closed == [tokens[c] EXCEPT !.end = pos + 1]
  <1>4. tokens' = [tokens EXCEPT ![c] = closed]
    BY <1>0, <1>3
  <1>5. tokens[c] \in Token /\ pos + 1 \in Nat
    BY <1>0, <1>3
  <1>6. /\ closed \in Token /\ closed.type = tokens[c].type /\ closed.size = tokens[c].size
        /\ closed.start = tokens[c].start /\ closed.end = pos + 1
    BY <1>5, TokenCloses
  <1> HIDE DEF closed
  <1>7. /\ tokens' \in Seq(Token) /\ Len(tokens') = Len(tokens)
        /\ \A k \in 1 .. Len(tokens) : tokens'[k] = IF k = c THEN closed ELSE tokens[k]
    <2>1. ASSUME NEW q \in Seq(Token), NEW k \in 1 .. Len(q), NEW x \in Token
          PROVE  /\ [q EXCEPT ![k] = x] \in Seq(Token) /\ Len([q EXCEPT ![k] = x]) = Len(q)
                 /\ \A j \in 1 .. Len(q) : [q EXCEPT ![k] = x][j] = IF j = k THEN x ELSE q[j]
      BY Replaced
    <2>2. tokens \in Seq(Token) /\ c \in 1 .. Len(tokens) /\ closed \in Token
      BY <1>0, <1>3, <1>6
    <2> QED BY <1>4, <2>1, <2>2
  <1>8. \A k \in 1 .. Len(tokens) :
          /\ tokens'[k].type = tokens[k].type /\ tokens'[k].size = tokens[k].size
          /\ tokens'[k].start = tokens[k].start
          /\ tokens'[k].end = IF k = c THEN pos + 1 ELSE tokens[k].end
    <2> TAKE k \in 1 .. Len(tokens)
    <2>1. CASE k = c
      BY <1>6, <1>7, <2>1
    <2>2. CASE k # c
      BY <1>7, <2>2
    <2> QED BY <2>1, <2>2
  <1>9. \A k \in 1 .. Len(tokens) : tokens[k].start \in Nat /\ tokens[k].end \in Nat \cup {-1}
    BY <1>0, TokenFields
  <1>10. \A k \in 1 .. Len(tokens) : tokens[k].end <= pos /\ tokens[k].start < pos
    BY <1>0 DEF ParserInv, Behind, Scanned
  <1>11. \A k \in 1 .. Len(tokens) : c < k => tokens[k].end # -1
    <2> SUFFICES ASSUME NEW k \in 1 .. Len(tokens), c < k PROVE tokens[k].end # -1
      OBVIOUS
    <2>1. k \notin OpenTokens
      BY <1>2, <1>3
    <2> QED BY <1>0, <2>1 DEF OpenTokens, IsOpen
  <1>12. \A i, j \in 1 .. Len(tokens) : i < j =>
          /\ tokens[i].start < tokens[j].start
          /\ tokens[i].end # -1 =>
               \/ tokens[i].end <= tokens[j].start
               \/ tokens[j].end # -1 /\ tokens[j].end <= tokens[i].end
    BY <1>0 DEF ParserInv, TokensNest
  <1> DEFINE Ordered(i, j) ==
               /\ tokens'[i].start < tokens'[j].start
               /\ tokens'[i].end # -1 =>
                    \/ tokens'[i].end <= tokens'[j].start
                    \/ tokens'[j].end # -1 /\ tokens'[j].end <= tokens'[i].end
  <1>13. ASSUME NEW i \in 1 .. Len(tokens), NEW j \in 1 .. Len(tokens), i < j
         PROVE  Ordered(i, j)
    <2>1. CASE i = c
      BY <1>0, <1>8, <1>9, <1>10, <1>11, <1>12, <1>13, <2>1
    <2>2. CASE j = c
      BY <1>0, <1>3, <1>8, <1>9, <1>12, <1>13, <2>2
    <2>3. CASE i # c /\ j # c
      BY <1>8, <1>12, <1>13, <2>3
    <2> QED BY <2>1, <2>2, <2>3
  <1>14. TokensNest'
    BY <1>7, <1>13 DEF TokensNest
  <1> QED BY <1>0, <1>7, <1>8, <1>14

-----------------------------------------------------------------------------
(* Each step keeps the invariant.                                           *)

LEMMA InvFacts ==
  ASSUME ParserInv
  PROVE  /\ js \in Seq(Char) /\ Len(js) \in Nat
         /\ pos \in Nat /\ pos <= Len(js) /\ start \in Nat /\ Scanned \in Nat
         /\ tokens \in Seq(Token) /\ Len(tokens) \in Nat /\ DOMAIN tokens = 1 .. Len(tokens)
         /\ \A k \in 1 .. Len(tokens) :
              /\ tokens[k].start \in Nat /\ tokens[k].end \in Nat \cup {-1}
              /\ tokens[k].start < Scanned /\ tokens[k].end <= Scanned
         /\ toksuper \in Nat /\ toksuper <= Len(tokens)
         /\ capacity \in Nat /\ Len(tokens) <= capacity
         /\ strict \in BOOLEAN /\ storing \in BOOLEAN /\ count \in Nat
         /\ pc \in {"idle", "parse", "string"} /\ result \in Nat \cup {NOMEM, INVAL, PART}
  <1>1. /\ js \in Seq(Char) /\ Len(js) \in Nat
        /\ pos \in Nat /\ pos <= Len(js) /\ start \in Nat
        /\ tokens \in Seq(Token) /\ Len(tokens) \in Nat /\ DOMAIN tokens = 1 .. Len(tokens)
        /\ toksuper \in Nat /\ toksuper <= Len(tokens)
        /\ capacity \in Nat /\ Len(tokens) <= capacity
        /\ strict \in BOOLEAN /\ storing \in BOOLEAN /\ count \in Nat
        /\ pc \in {"idle", "parse", "string"} /\ result \in Nat \cup {NOMEM, INVAL, PART}
    BY DEF ParserInv, JsmnTypeOK
  <1>2. Scanned \in Nat
    BY <1>1 DEF Scanned
  <1>3. \A k \in 1 .. Len(tokens) :
          tokens[k].start \in Nat /\ tokens[k].end \in Nat \cup {-1}
    BY <1>1, TokenFields
  <1>4. \A k \in 1 .. Len(tokens) : tokens[k].start < Scanned /\ tokens[k].end <= Scanned
    BY <1>1 DEF ParserInv, Behind
  <1> QED BY <1>1, <1>2, <1>3, <1>4

\* A step that leaves the tokens alone and does not go back.
LEMMA Further ==
  ASSUME NEW b \in Nat, NEW e \in Nat \cup {-1}, NEW m \in Nat, NEW n \in Nat,
         b < m, e <= m, m <= n
  PROVE  b < n /\ e <= n
  OBVIOUS

LEMMA Moved ==
  ASSUME ParserInv, UNCHANGED <<strict, js, tokens>>, capacity' = capacity, storing' = storing,
         toksuper' = toksuper \/ toksuper' = Len(tokens) \/ toksuper' \in 1 .. Len(tokens),
         pos' \in 0 .. Len(js), start' \in Nat, count' \in Nat,
         pc' \in {"idle", "parse", "string"}, result' \in Nat \cup {NOMEM, INVAL, PART},
         Scanned <= Scanned', pc' = "string" => start' < pos'
  PROVE  ParserInv'
  <1>1. JsmnTypeOK'
    BY SMTT(30), InvFacts DEF JsmnTypeOK
  <1>2. TokensNest'
    BY DEF ParserInv, TokensNest
  <1>3. SuperOfOpen'
    BY DEF ParserInv, SuperOfOpen, OpenTokens, IsOpen
  <1>4. Behind'
    <2>1. Scanned' \in Nat /\ DOMAIN tokens' = 1 .. Len(tokens)
      BY InvFacts DEF Scanned
    <2> SUFFICES ASSUME NEW k \in 1 .. Len(tokens)
                 PROVE  tokens[k].start < Scanned' /\ tokens[k].end <= Scanned'
      BY <2>1 DEF Behind
    <2> QED BY <2>1, InvFacts, Further
  <1>5. InsideString'
    BY DEF InsideString
  <1> QED BY <1>1, <1>2, <1>3, <1>4, <1>5 DEF ParserInv

\* An error or the end of a call: only pc and result change, and a string is given back.
LEMMA Returns ==
  ASSUME ParserInv, NEW r \in Nat \cup {NOMEM, INVAL, PART}, UNCHANGED <<strict, js>>,
         (Return(r) /\ pc = "parse") \/ (GiveBack(r) /\ pc = "string")
  PROVE  ParserInv'
  <1> USE InvFacts
  <1>1. CASE Return(r) /\ pc = "parse"
    <2>1. /\ UNCHANGED <<strict, js, tokens>> /\ capacity' = capacity /\ storing' = storing
          /\ toksuper' = toksuper /\ pos' = pos /\ start' = start /\ count' = count
          /\ pc' = "idle" /\ result' = r
      BY <1>1 DEF Return
    <2>2. Scanned' = Scanned
      BY <1>1, <2>1 DEF Scanned
    <2> QED BY <2>1, <2>2, Moved
  <1>2. CASE GiveBack(r) /\ pc = "string"
    <2>1. /\ UNCHANGED <<strict, js, tokens>> /\ capacity' = capacity /\ storing' = storing
          /\ toksuper' = toksuper /\ pos' = start /\ start' = start /\ count' = count
          /\ pc' = "idle" /\ result' = r
      BY <1>2 DEF GiveBack
    <2>2. Scanned' = Scanned /\ start < pos
      BY <1>2, <2>1 DEF Scanned, ParserInv, InsideString
    <2> QED BY <2>1, <2>2, Moved
  <1> QED BY <1>1, <1>2

\* A token is stored by a step that leaves it behind.
LEMMA Stored ==
  ASSUME ParserInv, NEW type \in Type, NEW s \in Nat, NEW e \in Nat \cup {-1},
         Scanned <= s, tokens' = Counted(Fresh(type, s, e)), Len(tokens) < capacity,
         UNCHANGED <<strict, js, capacity, storing, start, result>>, count' \in Nat,
         pos' \in 0 .. Len(js), pc' = "parse", s < pos', e <= pos',
         toksuper' = Len(tokens) + 1 \/ (e # -1 /\ toksuper' = toksuper)
  PROVE  ParserInv'
  <1> DEFINE n == Len(tokens) + 1
  <1>0. DOMAIN tokens = 1 .. Len(tokens)
    BY InvFacts
  <1>1. /\ tokens' \in Seq(Token) /\ Len(tokens') = n
        /\ \A k \in 1 .. Len(tokens) :
              tokens'[k].start = tokens[k].start /\ tokens'[k].end = tokens[k].end
        /\ tokens'[n].start = s /\ tokens'[n].end = e
    BY <1>0, Added
  <1>2. DOMAIN tokens' = 1 .. n /\ n \in Nat /\ Len(tokens) \in Nat
    BY <1>1, InvFacts
  <1>3. JsmnTypeOK'
    BY SMTT(30), <1>1, <1>2, InvFacts DEF JsmnTypeOK
  <1>4. TokensNest'
    BY AddedNests
  <1>5. SuperOfOpen'
    <2> SUFFICES ASSUME NEW k \in 1 .. n, tokens'[k].end = -1, toksuper' # n
                 PROVE  toksuper' # 0
      BY <1>2 DEF SuperOfOpen, OpenTokens, IsOpen
    <2>1. k # n /\ toksuper' = toksuper
      BY <1>1
    <2>2. k \in 1 .. Len(tokens) /\ tokens[k].end = -1
      BY <1>1, <1>2, <2>1
    <2> QED BY <1>0, <2>1, <2>2 DEF ParserInv, SuperOfOpen, OpenTokens, IsOpen
  <1>6. Behind'
    <2>1. Scanned' = pos' /\ pos' \in Nat /\ Scanned \in Nat /\ Scanned <= pos'
      BY InvFacts DEF Scanned
    <2> SUFFICES ASSUME NEW k \in 1 .. n
                 PROVE  tokens'[k].start < pos' /\ tokens'[k].end <= pos'
      BY <1>2, <2>1 DEF Behind
    <2>2. CASE k = n
      BY <1>1, <2>2
    <2>3. CASE k # n
      <3>1. k \in 1 .. Len(tokens)
        BY <1>2, <2>3
      <3>2. tokens[k].start < pos' /\ tokens[k].end <= pos'
        BY <2>1, <3>1, InvFacts, Further
      <3> QED BY <1>1, <3>1, <3>2
    <2> QED BY <2>2, <2>3
  <1>7. InsideString'
    BY DEF InsideString
  <1> QED BY <1>3, <1>4, <1>5, <1>6, <1>7 DEF ParserInv

LEMMA KeepsOpenContainer == ASSUME ParserInv, OpenContainer PROVE ParserInv'
  <1>1. pc = "parse" /\ pos < Len(js) /\ Scanned = pos /\ UNCHANGED <<strict, js>>
    BY InvFacts DEF OpenContainer, Scanning, Stopped, Scanned
  <1>2. CASE Return(NOMEM)
    BY <1>1, <1>2, Returns
  <1>3. CASE ~Return(NOMEM)
    <2> DEFINE type == IF At(pos) = "{" THEN "object" ELSE "array"
    <2>1. /\ ~Full
          /\ tokens' = IF storing THEN Counted(Fresh(type, pos, -1)) ELSE tokens
          /\ toksuper' = IF storing THEN Len(tokens) + 1 ELSE toksuper
          /\ count' = count + 1 /\ pos' = pos + 1
          /\ UNCHANGED <<capacity, storing, start, pc, result>>
      BY <1>3 DEF OpenContainer
    <2>2. type \in Type
      BY DEF Type
    <2> HIDE DEF type
    <2>3. pos' \in 0 .. Len(js) /\ count' \in Nat
      BY SMTT(30), <1>1, <2>1, InvFacts
    <2>4. CASE storing
      <3>1. Len(tokens) < capacity
        BY SMTT(30), <2>1, <2>4, InvFacts DEF Full
      <3>2. pos < pos' /\ -1 <= pos' /\ Scanned <= pos /\ pos \in Nat
        BY SMTT(30), <1>1, <2>1, InvFacts
      <3> QED BY <1>1, <2>1, <2>2, <2>3, <2>4, <3>1, <3>2, Stored
    <2>5. CASE ~storing
      <3>1. Scanned <= Scanned'
        BY <1>1, <2>1, InvFacts DEF Scanned
      <3> QED BY <1>1, <2>1, <2>3, <2>5, <3>1, InvFacts, Moved
    <2> QED BY <2>4, <2>5, InvFacts
  <1> QED BY <1>2, <1>3

LEMMA KeepsCloseContainer == ASSUME ParserInv, CloseContainer PROVE ParserInv'
  <1>1. pc = "parse" /\ pos < Len(js) /\ Scanned = pos /\ UNCHANGED <<strict, js>>
    BY InvFacts DEF CloseContainer, Scanning, Stopped, Scanned
  <1>2. CASE Return(INVAL)
    BY <1>1, <1>2, Returns
  <1>3. CASE /\ pos' = pos + 1
             /\ UNCHANGED <<toksuper, tokens, capacity, storing, start, count, pc, result>>
    <2>1. pos' \in 0 .. Len(js) /\ Scanned <= Scanned'
      BY <1>1, <1>3, InvFacts DEF Scanned
    <2> QED BY <1>1, <1>3, <2>1, InvFacts, Moved
  <1>4. CASE /\ storing /\ LastOf(OpenTokens) # 0
             /\ tokens' = [tokens EXCEPT ![LastOf(OpenTokens)].end = pos + 1]
             /\ toksuper' = Enclosing(LastOf(OpenTokens))
             /\ pos' = pos + 1
             /\ UNCHANGED <<capacity, storing, start, count, pc, result>>
    <2>1. PICK c : c = LastOf(OpenTokens)
      OBVIOUS
    <2>2. OpenTokens # {}
      BY <1>4 DEF LastOf
    <2>3. /\ tokens' \in Seq(Token) /\ Len(tokens') = Len(tokens)
          /\ \A k \in 1 .. Len(tokens) :
                /\ tokens'[k].start = tokens[k].start
                /\ tokens'[k].end = IF k = c THEN pos + 1 ELSE tokens[k].end
          /\ TokensNest'
      <3>1. tokens' = [tokens EXCEPT ![c].end = pos + 1] /\ pc # "string"
        BY <1>1, <1>4, <2>1
      <3> QED BY <1>1, <2>1, <2>2, <3>1, InvFacts, ClosedNests
    <2>4. DOMAIN tokens' = 1 .. Len(tokens)
      BY <2>3
    <2>5. OpenTokens' = OpenTokens \ {c}
      <3>1. \A k \in 1 .. Len(tokens) :
              tokens'[k].end = -1 <=> (tokens[k].end = -1 /\ k # c)
        BY SMTT(30), <2>3, InvFacts
      <3> QED BY <2>4, <3>1, InvFacts DEF OpenTokens, IsOpen
    <2>6. toksuper' = LastOf(OpenTokens')
      BY <1>4, <2>1, <2>5 DEF Enclosing
    <2>7. OpenTokens' \in SUBSET (1 .. Len(tokens))
      BY <2>4 DEF OpenTokens
    <2>8. toksuper' \in 0 .. Len(tokens) /\ (OpenTokens' # {} => toksuper' # 0)
      <3>1. CASE OpenTokens' = {}
        BY <2>6, <3>1, InvFacts DEF LastOf
      <3>2. CASE OpenTokens' # {}
        <4>1. PICK S : S = OpenTokens'
          OBVIOUS
        <4>2. LastOf(S) \in 1 .. Len(tokens)
          BY <2>7, <3>2, <4>1, InvFacts, LastOfIsLast
        <4> QED BY <2>6, <4>1, <4>2, InvFacts
      <3> QED BY <3>1, <3>2
    <2>9. JsmnTypeOK'
      BY <1>1, <1>4, <2>3, <2>8, InvFacts DEF JsmnTypeOK
    <2>10. SuperOfOpen'
      BY <2>8 DEF SuperOfOpen
    <2>11. Behind'
      <3>1. Scanned' = pos + 1 /\ pos \in Nat
        BY <1>1, <1>4, InvFacts DEF Scanned
      <3> SUFFICES ASSUME NEW k \in 1 .. Len(tokens)
                   PROVE  tokens'[k].start < pos + 1 /\ tokens'[k].end <= pos + 1
        BY <2>4, <3>1 DEF Behind
      <3>2. tokens[k].start < pos + 1 /\ tokens[k].end <= pos + 1
        BY SMTT(30), <1>1, <3>1, InvFacts, Further
      <3>3. CASE k = c
        BY <2>3, <3>1, <3>2, <3>3
      <3>4. CASE k # c
        BY <2>3, <3>2, <3>4
      <3> QED BY <3>3, <3>4
    <2>12. InsideString'
      BY <1>1, <1>4 DEF InsideString
    <2> QED BY <2>3, <2>9, <2>10, <2>11, <2>12 DEF ParserInv
  <1> QED BY <1>2, <1>3, <1>4 DEF CloseContainer, InnermostOpen

\* Everything between tokens, and the characters of a string that has not ended.
LEMMA KeepsSkipped ==
  ASSUME ParserInv, SkipSpace \/ Colon \/ StartString \/ StringChar PROVE ParserInv'
  <1>1. pos < Len(js)
    BY InvFacts DEF SkipSpace, Colon, StartString, StringChar, Scanning, InString, Stopped
  <1>2. pos' = pos + 1 /\ UNCHANGED <<strict, js, tokens, capacity, storing, count, result>>
    BY DEF SkipSpace, Colon, StartString, StringChar
  <1>3. pos' \in 0 .. Len(js)
    BY <1>1, <1>2, InvFacts
  <1>4. toksuper' = toksuper \/ toksuper' = Len(tokens)
    BY DEF SkipSpace, Colon, StartString, StringChar
  <1>5. CASE StartString
    <2>1. pc = "parse" /\ pc' = "string" /\ start' = pos
      BY <1>5 DEF StartString, Scanning
    <2>2. Scanned' = Scanned /\ start' < pos'
      BY <1>2, <2>1, InvFacts DEF Scanned
    <2> QED BY <1>2, <1>3, <1>4, <2>1, <2>2, InvFacts, Moved
  <1>6. CASE ~StartString
    <2>1. pc' = pc /\ start' = start
      BY <1>6 DEF SkipSpace, Colon, StringChar
    <2>2. pc' = "string" => start' < pos'
      BY <1>2, <2>1, InvFacts DEF ParserInv, InsideString
    <2>3. Scanned <= Scanned'
      BY <1>2, <2>1, InvFacts DEF Scanned
    <2> QED BY <1>2, <1>3, <1>4, <2>1, <2>2, <2>3, InvFacts, Moved
  <1> QED BY <1>5, <1>6

LEMMA KeepsComma == ASSUME ParserInv, Comma PROVE ParserInv'
  <1>1. /\ pc = "parse" /\ pos < Len(js) /\ pos' = pos + 1
        /\ UNCHANGED <<strict, js, tokens, capacity, storing, start, count, pc, result>>
    BY InvFacts DEF Comma, Scanning, Stopped
  <1>2. pos' \in 0 .. Len(js) /\ Scanned <= Scanned'
    BY <1>1, InvFacts DEF Scanned
  <1>3. toksuper' = toksuper \/ toksuper' \in 1 .. Len(tokens)
    <2>1. CASE OpenTokens = {}
      BY <2>1 DEF Comma
    <2>2. CASE OpenTokens # {}
      <3>1. OpenTokens \in SUBSET (1 .. Len(tokens))
        BY InvFacts DEF OpenTokens
      <3>2. LastOf(OpenTokens) \in 1 .. Len(tokens)
        BY <2>2, <3>1, InvFacts, LastOfIsLast
      <3> QED BY <3>2 DEF Comma
    <2> QED BY <2>1, <2>2
  <1> QED BY <1>1, <1>2, <1>3, InvFacts, Moved

LEMMA KeepsPrimitive == ASSUME ParserInv, Primitive PROVE ParserInv'
  <1>1. pc = "parse" /\ pos < Len(js) /\ Scanned = pos /\ UNCHANGED <<strict, js>> /\ ~Stopped(pos)
        /\ pos \in 0 .. Len(js)
    <2>1. pc = "parse" /\ ~Stopped(pos) /\ UNCHANGED <<strict, js>>
      BY DEF Primitive, Scanning
    <2>2. pos < Len(js)
      BY <2>1 DEF Stopped
    <2>3. pos \in 0 .. Len(js)
      BY InvFacts
    <2> QED BY <2>1, <2>2, <2>3 DEF Scanned
  <1> DEFINE q == PrimitiveEnd(pos)
  <1>2. CASE Return(INVAL) \/ Return(PART) \/ Return(NOMEM)
    BY <1>1, <1>2, Returns
  <1>3. CASE /\ Stopped(q) \/ At(q) \notin Control
             /\ ~Full /\ AddLeaf("primitive", pos, q) /\ pos' = q
             /\ UNCHANGED <<toksuper, capacity, storing, start, pc, result>>
    <2>1. q \in pos .. Len(js) /\ PrimitiveEnds(q)
      BY <1>1, InvFacts, PrimitiveEndType
    <2>2. q # pos
      BY <1>1, <1>3, <2>1 DEF Primitive, PrimitiveEnds, Ending
    <2> HIDE DEF q
    <2>3. pos < q /\ q <= Len(js) /\ q \in Nat
      BY <2>1, <2>2, InvFacts
    <2>4. count' \in Nat
      BY <1>3, InvFacts DEF AddLeaf
    <2>5. CASE storing
      <3>1. Len(tokens) < capacity
        BY <1>3, <2>5, InvFacts DEF Full
      <3>2. tokens' = Counted(Fresh("primitive", pos, q)) /\ "primitive" \in Type
        BY <1>3, <2>5 DEF AddLeaf, Type
      <3>3. /\ pos \in Nat /\ Scanned <= pos /\ q \in Nat \cup {-1} /\ q # -1
            /\ pos' \in 0 .. Len(js) /\ pos < pos' /\ q <= pos' /\ toksuper' = toksuper
        BY <1>1, <1>3, <2>3, InvFacts
      <3> QED BY <1>1, <1>3, <2>4, <3>1, <3>2, <3>3, Stored
    <2>6. CASE ~storing
      <3>1. UNCHANGED tokens /\ Scanned <= Scanned' /\ pos' \in 0 .. Len(js)
        BY <1>1, <1>3, <2>3, <2>6 DEF AddLeaf, Scanned
      <3> QED BY <1>1, <1>3, <2>4, <3>1, InvFacts, Moved
    <2> QED BY <2>5, <2>6, InvFacts
  <1> QED BY <1>2, <1>3 DEF Primitive

LEMMA KeepsFinish == ASSUME ParserInv, Finish PROVE ParserInv'
  <1>1. PICK r \in Nat \cup {NOMEM, INVAL, PART} : Return(r)
    BY InvFacts DEF Finish
  <1> QED BY <1>1, Returns DEF Finish

LEMMA KeepsEndString == ASSUME ParserInv, EndString PROVE ParserInv'
  <1>1. /\ pc = "string" /\ pos < Len(js) /\ Scanned = start /\ start < pos /\ UNCHANGED <<strict, js>>
    BY InvFacts DEF EndString, InString, Stopped, Scanned, ParserInv, InsideString
  <1>2. CASE GiveBack(NOMEM)
    BY <1>1, <1>2, Returns
  <1>3. CASE /\ ~Full /\ AddLeaf("string", start + 1, pos)
             /\ pos' = pos + 1 /\ pc' = "parse"
             /\ UNCHANGED <<toksuper, capacity, storing, start, result>>
    <2>1. /\ count' \in Nat /\ pos' \in 0 .. Len(js) /\ start + 1 \in Nat
          /\ Scanned <= start + 1 /\ start + 1 < pos' /\ pos <= pos'
          /\ pos \in Nat \cup {-1} /\ pos # -1
      BY SMTT(30), <1>1, <1>3, InvFacts DEF AddLeaf
    <2>2. CASE storing
      <3>1. Len(tokens) < capacity
        BY <1>3, <2>2, InvFacts DEF Full
      <3>2. tokens' = Counted(Fresh("string", start + 1, pos)) /\ "string" \in Type
        BY <1>3, <2>2 DEF AddLeaf, Type
      <3> QED BY <1>1, <1>3, <2>1, <3>1, <3>2, Stored
    <2>3. CASE ~storing
      <3>1. UNCHANGED tokens /\ Scanned <= Scanned'
        BY <1>1, <1>3, <2>3, InvFacts DEF AddLeaf, Scanned
      <3> QED BY <1>1, <1>3, <2>1, <3>1, InvFacts, Moved
    <2> QED BY <2>2, <2>3, InvFacts
  <1> QED BY <1>2, <1>3 DEF EndString

LEMMA KeepsStringEscape == ASSUME ParserInv, StringEscape PROVE ParserInv'
  <1>1. /\ pc = "string" /\ pos + 1 < Len(js) /\ Scanned = start /\ start < pos /\ UNCHANGED <<strict, js>>
    BY InvFacts DEF StringEscape, InString, IsEscape, Scanned, ParserInv, InsideString
  <1>2. CASE GiveBack(INVAL)
    BY <1>1, <1>2, Returns
  <1>3. CASE /\ pos' = IF At(pos + 1) = "u" THEN UnicodeEnd(pos + 2) ELSE pos + 2
             /\ UNCHANGED <<toksuper, tokens, capacity, storing, start, count, pc, result>>
    <2>1. pos + 2 \in 0 .. Len(js)
      BY <1>1, InvFacts
    <2>2. UnicodeEnd(pos + 2) \in (pos + 2) .. Len(js)
      BY <2>1, InvFacts, UnicodeEndType
    <2>3. pos' \in 0 .. Len(js) /\ start < pos'
      BY <1>1, <1>3, <2>1, <2>2, InvFacts
    <2>4. Scanned' = Scanned
      BY <1>1, <1>3 DEF Scanned
    <2> QED BY <1>1, <1>3, <2>3, <2>4, InvFacts, Moved
  <1> QED BY <1>2, <1>3 DEF StringEscape

LEMMA KeepsStringPart == ASSUME ParserInv, StringPart PROVE ParserInv'
  BY Returns DEF StringPart

LEMMA KeepsCaller == ASSUME ParserInv, Caller PROVE ParserInv'
  <1>1. /\ pc = "idle" /\ pc' = "parse" /\ count' = 0 /\ UNCHANGED <<strict, start, result>>
        /\ js' \in Seq(Char) /\ capacity' \in Nat /\ storing' \in BOOLEAN
    BY DEF Caller, Call
  <1>2. InsideString'
    BY <1>1 DEF InsideString
  <1>3. CASE InitParser
    <2>1. pos' = 0 /\ toksuper' = 0 /\ tokens' = <<>> /\ DOMAIN tokens' = {} /\ Len(tokens') = 0
      BY <1>3 DEF InitParser
    <2>2. JsmnTypeOK'
      BY <1>1, <2>1, InvFacts DEF JsmnTypeOK
    <2>3. TokensNest' /\ SuperOfOpen' /\ Behind'
      BY <2>1 DEF TokensNest, SuperOfOpen, OpenTokens, Behind
    <2> QED BY <1>2, <2>2, <2>3 DEF ParserInv
  <1>4. CASE /\ storing' = storing /\ capacity' >= capacity
             /\ Len(js') >= Len(js) /\ UNCHANGED <<pos, toksuper, tokens>>
    <2>1. pos' \in 0 .. Len(js') /\ Len(tokens') <= capacity'
      BY <1>1, <1>4, InvFacts
    <2>2. JsmnTypeOK'
      BY <1>1, <1>4, <2>1, InvFacts DEF JsmnTypeOK
    <2>3. Scanned' = Scanned
      BY <1>1, <1>4 DEF Scanned
    <2>4. TokensNest' /\ SuperOfOpen' /\ Behind'
      BY <1>4, <2>3 DEF ParserInv, TokensNest, SuperOfOpen, OpenTokens, IsOpen, Behind
    <2> QED BY <1>2, <2>2, <2>4 DEF ParserInv
  <1> QED BY <1>3, <1>4 DEF Caller

-----------------------------------------------------------------------------
(* The theorems.                                                            *)

LEMMA InitParserInv == Init => ParserInv
  BY DEF Init, ParserInv, JsmnTypeOK, TokensNest, SuperOfOpen, OpenTokens, Behind, InsideString,
         NOMEM, INVAL, PART

LEMMA NextParserInv == ParserInv /\ [ParserNext]_jsmnVars => ParserInv'
  <1> SUFFICES ASSUME ParserInv, [ParserNext]_jsmnVars PROVE ParserInv'
    OBVIOUS
  <1>1. CASE ParseStep
    BY <1>1, KeepsOpenContainer, KeepsCloseContainer, KeepsSkipped, KeepsComma, KeepsPrimitive,
       KeepsFinish, KeepsEndString, KeepsStringEscape, KeepsStringPart DEF ParseStep
  <1>2. CASE Caller
    BY <1>2, KeepsCaller
  <1>3. CASE UNCHANGED jsmnVars
    <2>1. UNCHANGED <<strict, js, pos, toksuper, tokens, capacity, storing, start, count, pc, result>>
      BY <1>3 DEF jsmnVars, parserVars
    <2> QED BY <2>1 DEF ParserInv, JsmnTypeOK, TokensNest, SuperOfOpen, OpenTokens, IsOpen,
                        Behind, Scanned, InsideString
  <1> QED BY <1>1, <1>2, <1>3 DEF ParserNext

LEMMA ParserInvariant == Parser => []ParserInv
  BY InitParserInv, NextParserInv, PTL DEF Parser

\* Whatever the text, and however often and wherever a call was interrupted and resumed, the
\* tokenizer stays inside the caller's array (jsmn_alloc_token) and inside the text.
THEOREM TokensFit == Parser => []JsmnTypeOK
  <1>1. ParserInv => JsmnTypeOK
    BY DEF ParserInv
  <1> QED BY <1>1, ParserInvariant, PTL

\* The flat token array is always a forest in the order of the text.
THEOREM TokensAlwaysNest == Parser => []TokensNest
  <1>1. ParserInv => TokensNest
    BY DEF ParserInv
  <1> QED BY <1>1, ParserInvariant, PTL

\* A comma inside a container never reads the token before the array (jsmn.c:244).
THEOREM OpenHasSuper == Parser => []SuperOfOpen
  <1>1. ParserInv => SuperOfOpen
    BY DEF ParserInv
  <1> QED BY <1>1, ParserInvariant, PTL

=============================================================================

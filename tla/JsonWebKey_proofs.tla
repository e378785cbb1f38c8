--------------------------- MODULE JsonWebKey_proofs ---------------------------
(***************************************************************************)
(* The key extraction.  It uses the tokenizer as the tokenizer asks its     *)
(* callers to, and compares only tokens that the tokenizer has written; the *)
(* decoder inverts the encoder; and a licence that is a JSON web key set    *)
(* has its one key installed, or no key at all.                             *)
(***************************************************************************)
EXTENDS JsonWebKey, JsonText_proofs

\* What the parser is doing for the extraction.  A single call with an array counts exactly
\* the tokens it has stored.
CallInv ==
  /\ licence \in Licences /\ ~strict
  /\ kpc = "called" => pc = "idle"
  /\ kpc = "parse" => /\ storing /\ count = Len(tokens)
                      /\ pc = "idle" => result < 0 \/ result = Len(tokens)
  /\ kpc = "scan" => (i < result => result = Len(tokens))
  /\ i \in Nat

-----------------------------------------------------------------------------
(* One call of jsmn_parse.                                                  *)

LEMMA KeepsCount ==
  ASSUME ParserInv, ParseStep, storing, pc # "idle", count = Len(tokens)
  PROVE  /\ storing' /\ count' = Len(tokens')
         /\ pc' = "idle" => result' < 0 \/ result' = Len(tokens')
  <1>1. ASSUME NEW r \in {NOMEM, INVAL, PART}, Return(r) \/ GiveBack(r)
        PROVE  /\ storing' /\ count' = Len(tokens') /\ result' < 0
    <2>1. r < 0
      BY DEF NOMEM, INVAL, PART
    <2>2. result' = r /\ UNCHANGED <<storing, tokens, count>>
      BY <1>1 DEF Return, GiveBack
    <2> QED BY <2>1, <2>2
  <1>2. ASSUME NEW type \in Type, NEW s \in Nat, NEW e \in Nat \cup {-1},
               tokens' = Counted(Fresh(type, s, e)), count' = count + 1, UNCHANGED storing
        PROVE  storing' /\ count' = Len(tokens')
    BY <1>2, Added
  <1>3. CASE OpenContainer
    <2>1. CASE Return(NOMEM)
      BY <1>1, <2>1
    <2>2. CASE ~Return(NOMEM)
      <3> DEFINE type == IF At(pos) = "{" THEN "object" ELSE "array"
      <3>1. /\ tokens' = Counted(Fresh(type, pos, -1)) /\ count' = count + 1
            /\ UNCHANGED <<storing, pc>>
        BY <1>3, <2>2 DEF OpenContainer
      <3>2. type \in Type /\ pos \in Nat /\ -1 \in Nat \cup {-1}
        BY InvFacts DEF Type
      <3> HIDE DEF type
      <3> QED BY <1>2, <3>1, <3>2
    <2> QED BY <2>1, <2>2
  <1>4. CASE CloseContainer
    <2>1. CASE Return(INVAL)
      BY <1>1, <2>1
    <2>2. CASE ~Return(INVAL)
      <3>1. /\ tokens' = [tokens EXCEPT ![LastOf(OpenTokens)].end = pos + 1]
            /\ UNCHANGED <<storing, count, pc>> /\ pc # "string" /\ ~Stopped(pos)
            /\ LastOf(OpenTokens) # 0
        BY <1>4, <2>2 DEF CloseContainer, InnermostOpen, Scanning
      <3>2. PICK c : c = LastOf(OpenTokens)
        OBVIOUS
      <3>3. OpenTokens # {} /\ pos < Len(js)
        BY <3>1 DEF LastOf, Stopped
      <3>4. tokens' = [tokens EXCEPT ![c].end = pos + 1]
        BY <3>1, <3>2
      <3>5. Len(tokens') = Len(tokens)
        BY <3>1, <3>2, <3>3, <3>4, ClosedNests
      <3> QED BY <3>1, <3>5
    <2> QED BY <2>1, <2>2
  <1>5. CASE SkipSpace \/ Colon \/ Comma \/ StartString \/ StringChar
    BY <1>5 DEF SkipSpace, Colon, Comma, StartString, StringChar
  <1>6. CASE Primitive
    <2>1. CASE Return(INVAL) \/ Return(PART) \/ Return(NOMEM)
      BY <1>1, <2>1
    <2>2. CASE ~(Return(INVAL) \/ Return(PART) \/ Return(NOMEM))
      <3>1. PICK q : q = PrimitiveEnd(pos)
        OBVIOUS
      <3>2. /\ tokens' = Counted(Fresh("primitive", pos, q)) /\ count' = count + 1
            /\ UNCHANGED <<storing, pc>> /\ ~Stopped(pos)
        BY <1>6, <2>2, <3>1 DEF Primitive, AddLeaf, Scanning
      <3>3. pos \in 0 .. Len(js) /\ js \in Seq(Char)
        BY InvFacts
      <3>4. q \in pos .. Len(js)
        BY <3>1, <3>3, PrimitiveEndType
      <3>5. pos \in Nat /\ q \in Nat \cup {-1} /\ "primitive" \in Type
        BY <3>3, <3>4 DEF Type
      <3> QED BY <1>2, <3>2, <3>5
    <2> QED BY <2>1, <2>2
  <1>7. CASE EndString
    <2>1. CASE GiveBack(NOMEM)
      BY <1>1, <2>1
    <2>2. CASE ~GiveBack(NOMEM)
      <3>1. /\ tokens' = Counted(Fresh("string", start + 1, pos)) /\ count' = count + 1
            /\ storing' = storing /\ pc' = "parse"
        BY <1>7, <2>2 DEF EndString, AddLeaf
      <3>2. start + 1 \in Nat /\ pos \in Nat \cup {-1} /\ "string" \in Type
        BY InvFacts DEF Type
      <3> QED BY <1>2, <3>1, <3>2
    <2> QED BY <2>1, <2>2
  <1>8. CASE StringEscape
    <2>1. CASE GiveBack(INVAL)
      BY <1>1, <2>1
    <2>2. CASE ~GiveBack(INVAL)
      BY <1>8, <2>2 DEF StringEscape
    <2> QED BY <2>1, <2>2
  <1>9. CASE StringPart
    BY <1>1, <1>9 DEF StringPart
  <1>10. CASE Finish
    <2>1. PICK r : r = (IF OpenTokens # {} THEN PART ELSE count) /\ Return(r)
      BY <1>10 DEF Finish
    <2>2. r < 0 \/ r = Len(tokens)
      BY <2>1 DEF PART
    <2> QED BY <2>1, <2>2 DEF Return
  <1> QED BY <1>3, <1>4, <1>5, <1>6, <1>7, <1>8, <1>9, <1>10 DEF ParseStep

-----------------------------------------------------------------------------
(* The extraction as a caller.                                              *)

LEMMA InitExtraction == JwkInit => Init /\ CallInv
  BY DEF JwkInit, Init, CallInv

\* Every step of the extraction is one of the parser, of a caller that starts a text, or
\* leaves the parser alone.
LEMMA StepIsParser ==
  ASSUME CallInv, [JwkNext]_<<jsmnVars, jwkVars>>
  PROVE  [ParserNext]_jsmnVars
  <1>1. CASE ParseLicence
    <2>1. /\ pc = "idle" /\ js' = licence.text /\ InitParser /\ Call(MaxTokens, TRUE)
      BY <1>1 DEF ParseLicence, CallInv
    <2>2. js' \in Seq(Char) /\ capacity' = MaxTokens /\ storing' = TRUE /\ MaxTokens \in Nat
      BY <2>1, LicencesAssumption, MaxTokensAssumption DEF CallInv, Call
    <2>3. Caller
      BY <2>1, <2>2 DEF Caller
    <2> QED BY <2>3 DEF ParserNext
  <1>2. CASE ParseStep
    BY <1>2 DEF ParserNext
  <1>3. CASE NotJson \/ CheckKeysTag \/ ScanUnwritten \/ ScanKey \/ ScanKeyId \/ ScanOther \/ Install
    BY <1>3 DEF NotJson, CheckKeysTag, StartScan, ReturnFalse, Crash, ScanUnwritten, ScanKey,
                ScanKeyId, ScanOther, Install
  <1> QED BY <1>1, <1>2, <1>3 DEF JwkNext

LEMMA KeepsCallInv ==
  ASSUME ParserInv, CallInv, [JwkNext]_<<jsmnVars, jwkVars>>
  PROVE  CallInv'
  <1>1. CASE ParseLicence
    BY <1>1, InvFacts DEF ParseLicence, CallInv, InitParser, Call
  <1>2. CASE kpc = "parse" /\ ParseStep /\ UNCHANGED jwkVars
    <2>1. UNCHANGED <<licence, i, kpc>>
      BY <1>2 DEF jwkVars
    <2>2. pc # "idle" /\ UNCHANGED strict
      BY <1>2, StepKeeps
    <2>3. storing /\ count = Len(tokens)
      BY <1>2 DEF CallInv
    <2> QED BY <1>2, <2>1, <2>2, <2>3, KeepsCount DEF CallInv
  <1>3. CASE NotJson \/ ScanUnwritten \/ Install
    BY <1>3 DEF NotJson, ReturnFalse, ScanUnwritten, Crash, Install, CallInv,
                jsmnVars, parserVars
  <1>4. CASE CheckKeysTag
    <2>1. /\ kpc' \in {"scan", "returned", "crashed"} /\ UNCHANGED <<strict, licence, i, tokens, result, pc>>
          /\ kpc = "parse" /\ pc = "idle" /\ ~(result < 0)
      BY <1>4, InvFacts DEF CheckKeysTag, StartScan, ReturnFalse, Crash, Parsed, jsmnVars, parserVars,
                  NOMEM, INVAL, PART
    <2> QED BY <2>1 DEF CallInv
  <1>5. CASE ScanKey \/ ScanKeyId \/ ScanOther
    <2>1. kpc = "scan" /\ i \in Nat /\ result = Len(tokens) /\ UNCHANGED <<strict, licence, tokens, result>>
      BY <1>5 DEF ScanKey, ScanKeyId, ScanOther, Scan, ReturnFalse, CallInv, jsmnVars, parserVars
    <2>2. i' \in Nat /\ kpc' \in {"scan", "returned"}
      BY <1>5, <2>1 DEF ScanKey, ScanKeyId, ScanOther, Scan, ReturnFalse
    <2> QED BY <2>1, <2>2 DEF CallInv
  <1>6. CASE UNCHANGED <<jsmnVars, jwkVars>>
    BY <1>6 DEF CallInv, jsmnVars, parserVars, jwkVars
  <1> QED BY <1>1, <1>2, <1>3, <1>4, <1>5, <1>6 DEF JwkNext

LEMMA ExtractionInvariant == Extraction => [](ParserInv /\ CallInv)
  <1>1. JwkInit => ParserInv /\ CallInv
    BY InitExtraction, InitParserInv
  <1>2. ParserInv /\ CallInv /\ [JwkNext]_<<jsmnVars, jwkVars>> => (ParserInv /\ CallInv)'
    BY StepIsParser, KeepsCallInv, NextParserInv
  <1> QED BY <1>1, <1>2, PTL DEF Extraction

-----------------------------------------------------------------------------
(* Base64: what an unpadded encoder writes, base64_decode reads.            *)

\* The number of sextets tells how many octets they hold.
LEMMA CountsInverse ==
  ASSUME NEW m \in Nat
  PROVE  /\ SextetCount(m) \in Nat
         /\ OctetCount(SextetCount(m)) = m
<1>1. PICK q \in Nat, r \in 0 .. 2 : m = 3 * q + r
  <2>1. m \div 3 \in Nat /\ m % 3 \in 0 .. 2 /\ m = 3 * (m \div 3) + (m % 3)
    OBVIOUS
  <2> QED BY <2>1
<1>2. m \div 3 = q /\ m % 3 = r
  BY <1>1
<1>3. CASE r = 0
  BY <1>2, <1>3, <1>1 DEF SextetCount, OctetCount
<1>4. CASE r # 0
  <2>1. SextetCount(m) = 4 * q + (r + 1)
    BY <1>2, <1>4 DEF SextetCount
  <2>2. (4 * q + (r + 1)) \div 4 = q /\ (4 * q + (r + 1)) % 4 = r + 1
    BY <1>4
  <2> QED BY <1>1, <1>4, <2>1, <2>2 DEF OctetCount
<1> QED BY <1>3, <1>4

LEMMA OctetOrZeroType ==
  ASSUME NEW b \in Seq(Octet), NEW j \in Int
  PROVE  OctetOrZero(b, j) \in Octet
<1>1. CASE j \in DOMAIN b
  BY <1>1 DEF OctetOrZero
<1>2. CASE j \notin DOMAIN b
  BY <1>2 DEF OctetOrZero, Octet
<1> QED BY <1>1, <1>2

LEMMA SextetFromType ==
  ASSUME NEW r \in 0 .. 3, NEW x \in Octet, NEW y \in Octet
  PROVE  SextetFrom(r, x, y) \in Sextet
<1>1. CASE r = 0
  BY <1>1 DEF SextetFrom, Octet, Sextet
<1>2. CASE r = 1
  BY <1>2 DEF SextetFrom, Octet, Sextet
<1>3. CASE r = 2
  BY <1>3 DEF SextetFrom, Octet, Sextet
<1>4. CASE r = 3
  BY <1>4 DEF SextetFrom, Octet, Sextet
<1> QED BY <1>1, <1>2, <1>3, <1>4

LEMMA SextetsType ==
  ASSUME NEW b \in Seq(Octet)
  PROVE  /\ Sextets(b) \in Seq(Sextet)
         /\ Len(Sextets(b)) = SextetCount(Len(b))
<1>1. Len(b) \in Nat /\ SextetCount(Len(b)) \in Nat
  BY CountsInverse
<1>2. ASSUME NEW p \in 1 .. SextetCount(Len(b)) PROVE Sextets(b)[p] \in Sextet
  <2>1. /\ (p - 1) % 4 \in 0 .. 3
        /\ 3 * ((p - 1) \div 4) + ((p - 1) % 4) \in Int
    OBVIOUS
  <2> QED BY <2>1, OctetOrZeroType, SextetFromType DEF Sextets
<1> QED BY <1>1, <1>2 DEF Sextets

\* Where the two sextets of an octet are: of octet r + 1 of group q + 1.
LEMMA Places ==
  ASSUME NEW m \in Nat, NEW q \in Nat, NEW r \in 0 .. 2, 3 * q + r + 1 <= m
  PROVE  LET p == 4 * q + r + 1
         IN /\ p \in 1 .. SextetCount(m) /\ p + 1 \in 1 .. SextetCount(m)
            /\ (p - 1) \div 4 = q /\ (p - 1) % 4 = r
            /\ p \div 4 = q /\ p % 4 = r + 1
  BY DEF SextetCount

\* One octet is split over two sextets and put together again.
LEMMA Rejoined ==
  ASSUME NEW r \in 0 .. 2, NEW x \in Octet, NEW y \in Octet, NEW z \in Octet
  PROVE  OctetOf(r, SextetFrom(r, x, y), SextetFrom(r + 1, y, z)) = y
<1>1. CASE r = 0
  BY <1>1 DEF SextetFrom, OctetOf, Octet
<1>2. CASE r = 1
  BY SMTT(30), <1>2 DEF SextetFrom, OctetOf, Octet
<1>3. CASE r = 2
  BY <1>3 DEF SextetFrom, OctetOf, Octet
<1> QED BY <1>1, <1>2, <1>3

\* A key survives: decoding what was encoded gives the same octets, the last ones of an
\* incomplete group included (base64_decode, json_web_key.cpp:91-103).
THEOREM DecodeInvertsEncode == \A b \in Seq(Octet) : Octets(Sextets(b)) = b
<1> SUFFICES ASSUME NEW b \in Seq(Octet) PROVE Octets(Sextets(b)) = b
  OBVIOUS
<1>1. /\ Len(b) \in Nat /\ Len(Sextets(b)) = SextetCount(Len(b))
      /\ OctetCount(Len(Sextets(b))) = Len(b)
  BY SMTT(30), SextetsType, CountsInverse
<1>2. ASSUME NEW k \in 1 .. Len(b) PROVE Octets(Sextets(b))[k] = b[k]
  <2>1. PICK q \in Nat, r \in 0 .. 2 : k = 3 * q + r + 1
    <3>1. /\ (k - 1) \div 3 \in Nat /\ (k - 1) % 3 \in 0 .. 2
          /\ k = 3 * ((k - 1) \div 3) + ((k - 1) % 3) + 1
      OBVIOUS
    <3> QED BY <3>1
  <2> DEFINE p == 4 * q + r + 1
  <2>2. /\ p \in 1 .. SextetCount(Len(b)) /\ p + 1 \in 1 .. SextetCount(Len(b))
        /\ (p - 1) \div 4 = q /\ (p - 1) % 4 = r
        /\ p \div 4 = q /\ p % 4 = r + 1
    <3>1. PICK m \in Nat : m = Len(b) /\ 3 * q + r + 1 <= m
      BY <1>1, <2>1
    <3>2. /\ p \in 1 .. SextetCount(m) /\ p + 1 \in 1 .. SextetCount(m)
          /\ (p - 1) \div 4 = q /\ (p - 1) % 4 = r
          /\ p \div 4 = q /\ p % 4 = r + 1
      BY <3>1, Places
    <3> QED BY <3>1, <3>2
  <2>3. Octets(Sextets(b))[k] = OctetOf(r, Sextets(b)[p], Sextets(b)[p + 1])
    <3>1. (k - 1) \div 3 = q /\ (k - 1) % 3 = r
      BY <2>1
    <3> QED BY <1>1, <3>1 DEF Octets
  <2>4. Sextets(b)[p] = SextetFrom(r, OctetOrZero(b, k - 1), OctetOrZero(b, k))
    <3>1. 3 * q + r = k - 1 /\ (3 * q + r) + 1 = k
      BY <2>1
    <3> QED BY <2>2, <3>1 DEF Sextets
  <2>5. Sextets(b)[p + 1] = SextetFrom(r + 1, OctetOrZero(b, k), OctetOrZero(b, k + 1))
    <3>1. (p + 1) - 1 = p /\ 3 * q + (r + 1) = k
      BY <2>1
    <3> QED BY <2>2, <3>1 DEF Sextets
  <2>6. OctetOrZero(b, k) = b[k] /\ b[k] \in Octet
    BY DEF OctetOrZero
  <2> QED BY <2>3, <2>4, <2>5, <2>6, Rejoined, OctetOrZeroType
<1> QED BY <1>1, <1>2 DEF Octets

\* The alphabet has no character twice, and none of those that URL safe texts have instead of
\* its last two, or of the padding.
LEMMA AlphabetIsOneToOne ==
  /\ DOMAIN Base64Chars = 1 .. 64
  /\ \A p, q \in 1 .. 64 : Base64Chars[p] = Base64Chars[q] => p = q
  /\ \A p \in 1 .. 64 : Base64Chars[p] # "-" /\ Base64Chars[p] # "="
  /\ Base64Chars[63] = "+" /\ Base64Chars[64] = "/"
  BY SMTT(60) DEF Base64Chars

Underscore == "_"
LEMMA NoUnderscore ==
  /\ \A p \in 1 .. 64 : Base64Chars[p] # Underscore
  /\ Underscore # "-" /\ Underscore # "="
  <1> DEFINE S ==
        {"A", "B", "C", "D", "E", "F", "G", "H", "I", "J", "K", "L", "M",
         "N", "O", "P", "Q", "R", "S", "T", "U", "V", "W", "X", "Y", "Z",
         "a", "b", "c", "d", "e", "f", "g", "h", "i", "j", "k", "l", "m",
         "n", "o", "p", "q", "r", "s", "t", "u", "v", "w", "x", "y", "z",
         "0", "1", "2", "3", "4", "5", "6", "7", "8", "9", "+", "/"}
  <1>1. \A p \in 1 .. 64 : Base64Chars[p] \in S
    BY SMTT(60) DEF Base64Chars
  <1>2. Underscore \notin S
    BY Zenon DEF Underscore
  <1> HIDE DEF S
  <1>3. \A p \in 1 .. 64 : Base64Chars[p] # Underscore
    BY <1>1, <1>2, Zenon
  <1>4. Underscore # "-" /\ Underscore # "="
    BY Zenon DEF Underscore
  <1> QED BY <1>3, <1>4

UrlChar(v) == CASE v = 62 -> "-" [] v = 63 -> Underscore [] OTHER -> Base64Chars[v + 1]
UrlChars == {UrlChar(v) : v \in Sextet} \cup {"="}
FixedChar(c) == IF c = Underscore THEN "/" ELSE IF c = "-" THEN "+" ELSE c

LEMMA SextetOfType ==
  ASSUME NEW c \in Base64Set
  PROVE  SextetOf(c) \in Sextet
  <1>1. \E k \in DOMAIN Base64Chars : Base64Chars[k] = c
    BY Zenon DEF Base64Set
  <1>2. (CHOOSE k \in DOMAIN Base64Chars : Base64Chars[k] = c) \in DOMAIN Base64Chars
    BY <1>1, Zenon
  <1>3. PICK k \in DOMAIN Base64Chars : SextetOf(c) = k - 1
    BY <1>2, Zenon DEF SextetOf
  <1>4. k \in 1 .. 64
    BY AlphabetIsOneToOne, Zenon
  <1> QED BY <1>3, <1>4 DEF Sextet

LEMMA CharOfSextet ==
  ASSUME NEW v \in Sextet
  PROVE  /\ FixedChar(UrlChar(v)) = Base64Chars[v + 1]
         /\ Base64Chars[v + 1] \in Base64Set
         /\ SextetOf(Base64Chars[v + 1]) = v
  <1>1. v \in 0 .. 63 /\ v + 1 \in 1 .. 64
    BY DEF Sextet
  <1>2. FixedChar(UrlChar(v)) = Base64Chars[v + 1]
    <2>1. CASE v = 62
      <3>1. UrlChar(v) = "-" /\ v + 1 = 63
        BY <2>1 DEF UrlChar
      <3>2. FixedChar("-") = "+"
        BY NoUnderscore, Zenon DEF FixedChar
      <3>3. Base64Chars[63] = "+"
        BY AlphabetIsOneToOne, Zenon
      <3> QED BY <3>1, <3>2, <3>3, Zenon
    <2>2. CASE v = 63
      <3>1. UrlChar(v) = Underscore /\ v + 1 = 64
        BY <2>2 DEF UrlChar
      <3>2. FixedChar(Underscore) = "/"
        BY Zenon DEF FixedChar
      <3>3. Base64Chars[64] = "/"
        BY AlphabetIsOneToOne, Zenon
      <3> QED BY <3>1, <3>2, <3>3, Zenon
    <2>3. CASE v # 62 /\ v # 63
      <3>1. UrlChar(v) = Base64Chars[v + 1]
        BY SMTT(30), <1>1, <2>3 DEF UrlChar
      <3> QED BY <1>1, <3>1, AlphabetIsOneToOne, NoUnderscore DEF FixedChar
    <2> QED BY <2>1, <2>2, <2>3
  <1>3. Base64Chars[v + 1] \in Base64Set
    <2>1. v + 1 \in DOMAIN Base64Chars
      BY <1>1, AlphabetIsOneToOne, Zenon
    <2> QED BY <2>1, Zenon DEF Base64Set
  <1>4. \A p \in DOMAIN Base64Chars : Base64Chars[p] = Base64Chars[v + 1] <=> p = v + 1
    BY <1>1, AlphabetIsOneToOne
  <1>5. SextetOf(Base64Chars[v + 1]) = (v + 1) - 1
    <2>1. v + 1 \in DOMAIN Base64Chars
      BY <1>1, AlphabetIsOneToOne
    <2>2. (CHOOSE p \in DOMAIN Base64Chars : Base64Chars[p] = Base64Chars[v + 1]) = v + 1
      BY <1>4, <2>1
    <2> QED BY <2>2 DEF SextetOf
  <1> QED BY <1>1, <1>2, <1>3, <1>5

\* A text has as many characters as there are sextets: none if there are no octets.
LEMMA EncodedLength ==
  ASSUME NEW b \in Seq(Octet)
  PROVE  /\ DOMAIN Base64UrlEncode(b) = 1 .. SextetCount(Len(b))
         /\ \A p \in 1 .. SextetCount(Len(b)) : Base64UrlEncode(b)[p] = UrlChar(Sextets(b)[p])
         /\ SextetCount(Len(b)) \in Nat
         /\ Base64UrlEncode(b) \in Seq(UrlChars)
         /\ Len(Base64UrlEncode(b)) = SextetCount(Len(b))
         /\ b # <<>> => Base64UrlEncode(b) # <<>>
  <1>1. /\ Sextets(b) \in Seq(Sextet) /\ Len(Sextets(b)) = SextetCount(Len(b))
        /\ SextetCount(Len(b)) \in Nat /\ Len(b) \in Nat
    BY SMTT(30), SextetsType, CountsInverse
  <1>2. Base64UrlEncode(b) = [p \in DOMAIN Sextets(b) |-> UrlChar(Sextets(b)[p])]
    BY Zenon DEF Base64UrlEncode, UrlChar, Underscore
  <1>3. DOMAIN Sextets(b) = 1 .. SextetCount(Len(b))
    BY <1>1
  <1>4. /\ DOMAIN Base64UrlEncode(b) = 1 .. SextetCount(Len(b))
        /\ \A p \in 1 .. SextetCount(Len(b)) : Base64UrlEncode(b)[p] = UrlChar(Sextets(b)[p])
    BY <1>2, <1>3
  <1>5. /\ Base64UrlEncode(b) \in Seq(UrlChars)
        /\ Len(Base64UrlEncode(b)) = SextetCount(Len(b))
    <2>1. \A p \in 1 .. SextetCount(Len(b)) : Sextets(b)[p] \in Sextet
      BY <1>1, <1>3
    <2>2. Base64UrlEncode(b) = [p \in 1 .. SextetCount(Len(b)) |-> UrlChar(Sextets(b)[p])]
      BY <1>2, <1>3
    <2>3. \A p \in 1 .. SextetCount(Len(b)) : UrlChar(Sextets(b)[p]) \in UrlChars
      BY <2>1 DEF UrlChars
    <2> QED BY <1>1, <2>2, <2>3
  <1>6. b # <<>> => Base64UrlEncode(b) # <<>>
    <2> SUFFICES ASSUME b # <<>> PROVE SextetCount(Len(b)) # 0
      BY <1>5
    <2>1. Len(b) # 0
      BY <1>1
    <2>2. \A m \in Nat : m # 0 => SextetCount(m) # 0
      BY DEF SextetCount
    <2> QED BY <1>1, <2>1, <2>2
  <1> QED BY <1>1, <1>4, <1>5, <1>6

\* base64_decode gets back what was encoded, through the padding that is put behind the text
\* and the two characters that are replaced.
LEMMA DecodedText ==
  ASSUME NEW b \in Seq(Octet)
  PROVE  Decoded(Base64UrlEncode(b)) = b
  <1> DEFINE s == Base64UrlEncode(b)
             n == SextetCount(Len(b))
             r == n % 4
             padding == [j \in 1 .. r |-> "="]
  <1>1. /\ n \in Nat /\ r \in Nat /\ Len(s) = n /\ s \in Seq(UrlChars) /\ DOMAIN s = 1 .. n
        /\ \A p \in 1 .. n : s[p] = UrlChar(Sextets(b)[p])
    BY EncodedLength
  <1>2. Padded(s) = s \o padding
    BY <1>1 DEF Padded
  <1>3. padding \in Seq(UrlChars) /\ Len(padding) = r /\ \A p \in 1 .. r : padding[p] = "="
    BY <1>1 DEF UrlChars
  <1>4. PICK q : q = Padded(s)
    OBVIOUS
  <1>5. /\ q \in Seq(UrlChars) /\ Len(q) = n + r /\ DOMAIN q = 1 .. (n + r)
        /\ \A p \in 1 .. n : q[p] = s[p]
        /\ r > 0 => q[n + 1] = "="
    <2> HIDE DEF s, n, r, padding
    <2>1. /\ s \o padding \in Seq(UrlChars) /\ Len(s \o padding) = n + r
          /\ \A p \in 1 .. n : (s \o padding)[p] = s[p]
          /\ \A p \in 1 .. r : (s \o padding)[n + p] = padding[p]
      BY SMTT(30), <1>1, <1>3
    <2>2. r > 0 => (s \o padding)[n + 1] = "="
      BY <1>1, <1>3, <2>1
    <2> QED BY <1>1, <1>2, <1>4, <2>1, <2>2
  <1>6. PICK g : g = FixUpURLSafe(q)
    OBVIOUS
  <1>7. g = [p \in DOMAIN q |-> FixedChar(q[p])]
    BY <1>6, Zenon DEF FixUpURLSafe, FixedChar, Underscore
  <1>8. ASSUME NEW p \in 1 .. n
        PROVE  g[p] \in Base64Set /\ SextetOf(g[p]) = Sextets(b)[p]
    <2>1. PICK v \in Sextet : v = Sextets(b)[p]
      BY SextetsType
    <2>2. p \in DOMAIN q /\ q[p] = UrlChar(v)
      BY <1>1, <1>5, <2>1
    <2>3. g[p] = FixedChar(UrlChar(v))
      BY <1>7, <2>2
    <2> QED BY <2>1, <2>3, CharOfSextet
  <1>9. /\ Len(g) = n + r /\ DOMAIN g = 1 .. (n + r)
        /\ r > 0 => g[n + 1] \notin Base64Set
    <2>1. n + r \in Nat
      BY <1>1
    <2>2. g = [p \in 1 .. (n + r) |-> FixedChar(q[p])]
      BY <1>5, <1>7
    <2>3. Len(g) = n + r /\ DOMAIN g = 1 .. (n + r)
      <3> HIDE DEF n, r
      <3> QED BY <2>1, <2>2
    <2>4. ASSUME r > 0 PROVE g[n + 1] \notin Base64Set
      <3>1. n + 1 \in 1 .. (n + r)
        BY <1>1, <2>4
      <3>2. g[n + 1] = FixedChar("=")
        BY <1>5, <2>2, <2>4, <3>1
      <3>3. FixedChar("=") = "="
        BY NoUnderscore DEF FixedChar
      <3>4. "=" \notin Base64Set
        BY AlphabetIsOneToOne DEF Base64Set
      <3> QED BY <3>2, <3>3, <3>4
    <2> QED BY <2>3, <2>4
  <1>10. Decodable(g) = n
    <2> HIDE DEF n, r, s, padding
    <2>1. n \in 0 .. Len(g) /\ (\A p \in 1 .. n : g[p] \in Base64Set)
          /\ (n < Len(g) => g[n + 1] \notin Base64Set)
      BY <1>1, <1>8, <1>9
    <2>2. ASSUME NEW m \in 0 .. Len(g), \A p \in 1 .. m : g[p] \in Base64Set,
                 m < Len(g) => g[m + 1] \notin Base64Set
          PROVE  m = n
      <3>1. ~(m < n)
        <4> SUFFICES ASSUME m < n PROVE FALSE
          OBVIOUS
        <4>1. m + 1 \in 1 .. n /\ m < Len(g)
          BY <1>1, <1>9
        <4> QED BY <1>8, <2>2, <4>1
      <3>2. ~(n < m)
        <4> SUFFICES ASSUME n < m PROVE FALSE
          OBVIOUS
        <4>1. n + 1 \in 1 .. m /\ r > 0
          BY <1>1, <1>9
        <4> QED BY <1>9, <2>2, <4>1
      <3> QED BY <1>1, <1>9, <3>1, <3>2
    <2> QED BY <2>1, <2>2 DEF Decodable
  <1>11. [p \in 1 .. Decodable(g) |-> SextetOf(g[p])] = Sextets(b)
    <2>1. Sextets(b) \in Seq(Sextet) /\ Len(Sextets(b)) = n
      BY SextetsType
    <2>2. DOMAIN Sextets(b) = 1 .. n /\ Sextets(b) = [p \in 1 .. n |-> Sextets(b)[p]]
      BY <2>1
    <2>3. [p \in 1 .. n |-> SextetOf(g[p])] = [p \in 1 .. n |-> Sextets(b)[p]]
      BY <1>8
    <2> QED BY <1>10, <2>2, <2>3
  <1>12. Base64Decode(g) = b
    BY <1>11, DecodeInvertsEncode DEF Base64Decode
  <1> QED BY <1>4, <1>6, <1>12 DEF Decoded

-----------------------------------------------------------------------------
(* What the call finds in a licence that is a JSON text.                    *)

\* How far the tokenizer has come with licence l.
ParsesText(l) ==
  /\ kpc # "called" =>
       /\ js = l.text /\ storing /\ capacity = MaxTokens
       /\ Follows(l.text, l.toks) /\ Agrees(l.text, l.toks)
  /\ kpc \notin {"called", "parse"} => pc = "idle"
  /\ Len(l.toks) <= MaxTokens => result # NOMEM
  /\ kpc = "scan" => result = Len(l.toks) /\ Len(l.toks) <= MaxTokens

LEMMA LicenceText ==
  ASSUME NEW l \in Licences, l.toks # <<>>
  PROVE  /\ Tokenized(l.text, l.toks) /\ l.text \in Seq(Char) /\ Len(l.text) \in Nat
         /\ l.toks \in Seq(Token) /\ Len(l.toks) \in Nat /\ Len(l.toks) >= 1
         /\ DOMAIN l.toks = 1 .. Len(l.toks)
  <1>1. Tokenized(l.text, l.toks)
    BY LicencesAssumption
  <1> QED BY <1>1, TextTypes

\* What jsmn_parse does not refuse it has split into the tokens of the text, all of them.
LEMMA LicenceTokens ==
  ASSUME ParserInv, NEW l \in Licences, l.toks # <<>>, ParsesText(l), kpc # "called",
         pc = "idle", result >= 0
  PROVE  tokens = l.toks /\ Len(l.toks) <= MaxTokens
  <1>1. /\ js = l.text /\ storing /\ capacity = MaxTokens
        /\ Follows(l.text, l.toks) /\ Agrees(l.text, l.toks)
    BY DEF ParsesText
  <1>2. Tokenized(l.text, l.toks) /\ 1 \in DOMAIN l.toks /\ Len(l.text) \in Nat
    BY LicenceText
  <1>3. pos = Len(l.text) /\ Scanned = pos
    BY <1>1 DEF Follows, Answers, Scanned
  <1>4. /\ Begin(l.toks[1]) \in Nat /\ Past(l.toks[1]) \in Nat
        /\ Begin(l.toks[1]) < Past(l.toks[1]) /\ Past(l.toks[1]) <= Len(l.text)
    BY <1>2, TokenBounds
  <1>5. Begin(l.toks[1]) < Scanned
    BY <1>2, <1>3, <1>4
  <1>6. 1 <= Len(tokens)
    BY <1>1, <1>2, <1>5 DEF Agrees, Begun, Found
  <1>7. tokens # <<>>
    BY <1>6
  <1>8. tokens = l.toks
    BY <1>1, <1>2, <1>7, TextStored
  <1> QED BY <1>1, <1>8 DEF ParserInv, JsmnTypeOK

\* The whole licence is passed to jsmn_parse: nothing is cut.
LEMMA WholeUncut ==
  ASSUME NEW l \in Licences, l.toks # <<>>, js = l.text
  PROVE  Uncut(l.toks)
  <1> SUFFICES ASSUME NEW k \in DOMAIN l.toks PROVE ~(Len(js) < Past(l.toks[k]))
    BY DEF Uncut
  <1>1. Past(l.toks[k]) \in Nat /\ Past(l.toks[k]) <= Len(l.text) /\ Len(l.text) \in Nat
    BY LicenceText, TokenBounds
  <1> QED BY <1>1

LEMMA InitParses ==
  ASSUME JwkInit, NEW l \in Licences
  PROVE  ParsesText(l)
  BY DEF JwkInit, Init, ParsesText, NOMEM

LEMMA ParsesBegin ==
  ASSUME ParseLicence, NEW l \in Licences, l = licence, l.toks # <<>>, ParsesText(l)
  PROVE  ParsesText(l)'
  <1>1. /\ js' = l.text /\ InitParser /\ Call(MaxTokens, TRUE) /\ kpc' = "parse"
    BY DEF ParseLicence
  <1>2. /\ pos' = 0 /\ toksuper' = 0 /\ tokens' = <<>> /\ count' = 0 /\ pc' = "parse"
        /\ storing' = TRUE /\ capacity' = MaxTokens /\ result' = result
    BY <1>1 DEF InitParser, Call
  <1>3. Len(l.text) \in Nat
    BY LicenceText
  <1>4. OnText(l.text)'
    BY <1>1, <1>3 DEF OnText
  <1>5. AtStart(l.text)'
    BY <1>2, <1>4 DEF AtStart
  <1>6. Follows(l.text, l.toks)' /\ Agrees(l.text, l.toks)'
    BY <1>5, BeginsText, LicenceText
  <1> QED BY <1>1, <1>2, <1>6 DEF ParsesText

LEMMA ParsesStep ==
  ASSUME ParserInv, CallInv, kpc = "parse", ParseStep, UNCHANGED jwkVars,
         NEW l \in Licences, l = licence, l.toks # <<>>, ParsesText(l)
  PROVE  ParsesText(l)'
  <1>1. UNCHANGED <<js, storing, capacity, kpc>>
    BY StepKeeps DEF jwkVars
  <1>2. /\ js = l.text /\ storing /\ capacity = MaxTokens
        /\ Follows(l.text, l.toks) /\ Agrees(l.text, l.toks)
    BY DEF ParsesText
  <1>3. Tokenized(l.text, l.toks) /\ Uncut(l.toks)
    BY <1>2, LicenceText, WholeUncut
  <1>4. Follows(l.text, l.toks)' /\ Agrees(l.text, l.toks)'
    <2>1. Countable(l.text, l.toks)
      BY DEF CallInv, Countable
    <2> QED BY <1>2, <1>3, <2>1, StepFollows, StepAgrees
  <1>5. Len(l.toks) <= MaxTokens => result' # NOMEM
    BY <1>2, <1>3, RoomForAll DEF ParsesText
  <1> QED BY <1>1, <1>2, <1>4, <1>5 DEF ParsesText

LEMMA KeepsParses ==
  ASSUME ParserInv, CallInv, [JwkNext]_<<jsmnVars, jwkVars>>,
         NEW l \in Licences, l = licence, l.toks # <<>>, ParsesText(l)
  PROVE  ParsesText(l)'
  <1>1. CASE UNCHANGED jsmnVars /\ kpc' # "parse" /\ kpc # "called"
             /\ (kpc' = "scan" => kpc = "scan" \/ (result >= 0 /\ kpc = "parse"))
             /\ (kpc = "parse" => pc = "idle")
    <2>1. UNCHANGED <<js, storing, capacity, pc, result>>
      BY <1>1 DEF jsmnVars, parserVars
    <2>2. /\ Follows(l.text, l.toks)' <=> Follows(l.text, l.toks)
          /\ Agrees(l.text, l.toks)' <=> Agrees(l.text, l.toks)
      BY <1>1, SameFollows
    <2>3. kpc' = "scan" => result = Len(l.toks) /\ Len(l.toks) <= MaxTokens
      <3>1. CASE kpc = "scan"
        BY <3>1 DEF ParsesText
      <3>2. CASE result >= 0 /\ kpc = "parse"
        <4>1. tokens = l.toks /\ Len(l.toks) <= MaxTokens
          BY <1>1, <3>2, LicenceTokens
        <4>2. result \in Int /\ (result < 0 \/ result = Len(tokens))
          BY <1>1, <3>2, InvFacts DEF CallInv, NOMEM, INVAL, PART
        <4> QED BY <3>2, <4>1, <4>2
      <3> QED BY <1>1, <3>1, <3>2
    <2> QED BY <1>1, <2>1, <2>2, <2>3 DEF ParsesText
  <1>2. CASE UNCHANGED <<jsmnVars, jwkVars>>
    <2>1. UNCHANGED <<js, storing, capacity, pc, result, kpc>> /\ UNCHANGED jsmnVars
      BY <1>2 DEF jsmnVars, parserVars, jwkVars
    <2>2. /\ Follows(l.text, l.toks)' <=> Follows(l.text, l.toks)
          /\ Agrees(l.text, l.toks)' <=> Agrees(l.text, l.toks)
      BY <2>1, SameFollows
    <2> QED BY <2>1, <2>2 DEF ParsesText
  <1>3. CASE NotJson \/ CheckKeysTag
    BY <1>1, <1>3 DEF NotJson, CheckKeysTag, Parsed, ReturnFalse, StartScan, Crash
  <1>4. CASE ScanUnwritten \/ ScanKey \/ ScanKeyId \/ ScanOther \/ Install
    BY <1>1, <1>4 DEF ScanUnwritten, ScanKey, ScanKeyId, ScanOther, Install, Scan, ReturnFalse, Crash
  <1>5. CASE ParseLicence
    BY <1>5, ParsesBegin
  <1>6. CASE kpc = "parse" /\ ParseStep /\ UNCHANGED jwkVars
    BY <1>6, ParsesStep
  <1> QED BY <1>2, <1>3, <1>4, <1>5, <1>6 DEF JwkNext

-----------------------------------------------------------------------------
(* The scan of the tokens.                                                  *)

LEMMA TagsDiffer == kKeyTag # kKeyIdTag /\ kKeyTag # kAlgTag /\ kKeyIdTag # kAlgTag
  BY DEF kKeyTag, kKeyIdTag, kAlgTag

\* The scan reads the tokens of the licence.
LEMMA ScanReads ==
  ASSUME ParserInv, CallInv, NEW l \in Licences, l.toks # <<>>, ParsesText(l), kpc = "scan"
  PROVE  /\ tokens = l.toks /\ result = Len(l.toks) /\ Len(l.toks) <= MaxTokens /\ i \in Nat
         /\ \A t \in DOMAIN l.toks :
              /\ Text(tokens[t]) = Spelling(l, t)
              /\ \A tag : IsTag(tokens[t], tag) <=> Spells(l, t, tag)
  <1>1. /\ js = l.text /\ pc = "idle" /\ result = Len(l.toks) /\ Len(l.toks) <= MaxTokens
        /\ Len(l.toks) \in Nat
    BY LicenceText DEF ParsesText
  <1>2. tokens = l.toks
    BY <1>1, LicenceTokens
  <1>3. \A t \in DOMAIN l.toks : Text(tokens[t]) = Spelling(l, t)
    BY <1>1, <1>2 DEF Text, Spelling
  <1>4. \A t \in DOMAIN l.toks : \A tag : IsTag(tokens[t], tag) <=> Spells(l, t, tag)
    BY <1>2, <1>3 DEF IsTag, Spells
  <1> QED BY <1>1, <1>2, <1>3, <1>4 DEF CallInv

\* The ways on from token i of the scan, in terms of the licence.
Installs(l) == Install /\ i >= Len(l.toks)
Crashes(l) ==
  /\ Crash /\ i + 1 = Len(l.toks)
  /\ Spells(l, i + 1, kAlgTag) \/ Spells(l, i + 1, kKeyTag) \/ Spells(l, i + 1, kKeyIdTag)
Refuses(l) ==
  /\ ReturnFalse /\ i + 1 <= Len(l.toks)
  /\ (Spells(l, i + 1, kKeyTag) /\ key # <<>>) \/ (Spells(l, i + 1, kKeyIdTag) /\ keyId # <<>>)
Passes(l) ==
  /\ i + 1 <= Len(l.toks) /\ i' = i + 1 /\ UNCHANGED <<kpc, keys, oldKeys, answer>>
  /\ \/ /\ Spells(l, i + 1, kKeyTag) /\ key = <<>> /\ keyId' = keyId
        /\ i + 1 < Len(l.toks) => key' = Spelling(l, i + 2)
     \/ /\ Spells(l, i + 1, kKeyIdTag) /\ keyId = <<>> /\ key' = key
        /\ i + 1 < Len(l.toks) => keyId' = Spelling(l, i + 2)
     \/ /\ i + 1 < MaxTokens => ~Spells(l, i + 1, kKeyTag) /\ ~Spells(l, i + 1, kKeyIdTag)
        /\ UNCHANGED <<key, keyId>>

LEMMA ScanStep ==
  ASSUME ParserInv, CallInv, NEW l \in Licences, l.toks # <<>>, ParsesText(l), kpc = "scan",
         [JwkNext]_<<jsmnVars, jwkVars>>
  PROVE  Installs(l) \/ Crashes(l) \/ Refuses(l) \/ Passes(l) \/ UNCHANGED jwkVars
  <1>1. /\ tokens = l.toks /\ result = Len(l.toks) /\ Len(l.toks) <= MaxTokens /\ i \in Nat
        /\ \A t \in DOMAIN l.toks :
             /\ Text(tokens[t]) = Spelling(l, t)
             /\ \A tag : IsTag(tokens[t], tag) <=> Spells(l, t, tag)
    BY ScanReads
  <1>2. Len(l.toks) \in Nat /\ DOMAIN l.toks = 1 .. Len(l.toks)
    BY LicenceText
  <1>3. ASSUME i < result
        PROVE  /\ i + 1 \in DOMAIN l.toks /\ i + 1 <= Len(l.toks)
               /\ \A tag : Tagged(tag) <=> Spells(l, i + 1, tag) /\ i + 1 < MaxTokens
               /\ i + 1 < Len(l.toks) => Value = {Spelling(l, i + 2)}
    <2>1. i + 1 \in DOMAIN l.toks /\ i + 1 <= Len(l.toks)
      BY <1>1, <1>2, <1>3
    <2>2. \A tag : Tagged(tag) <=> Spells(l, i + 1, tag) /\ i + 1 < MaxTokens
      BY <1>1, <2>1 DEF Tagged
    <2>3. ASSUME i + 1 < Len(l.toks) PROVE Value = {Spelling(l, i + 2)}
      <3>1. i + 2 \in DOMAIN l.toks
        BY <1>1, <1>2, <2>3
      <3>2. Text(tokens[i + 2]) = Spelling(l, i + 2)
        BY <1>1, <3>1
      <3> QED BY <1>1, <2>3, <3>2 DEF Value
    <2> QED BY <2>1, <2>2, <2>3
  <1>4. CASE Install
    BY <1>1, <1>4 DEF Installs, Install
  <1>5. CASE ScanUnwritten
    <2>1. i < result /\ i + 1 >= result /\ Crash
      BY <1>5 DEF ScanUnwritten, Scan
    <2>2. i + 1 = Len(l.toks)
      BY <1>1, <1>2, <2>1
    <2>3. Spells(l, i + 1, kAlgTag) \/ Spells(l, i + 1, kKeyTag) \/ Spells(l, i + 1, kKeyIdTag)
      BY <1>3, <1>5, <2>1 DEF ScanUnwritten
    <2> QED BY <2>1, <2>2, <2>3 DEF Crashes
  <1>6. CASE ScanKey
    <2>1. i < result /\ Spells(l, i + 1, kKeyTag) /\ i + 1 <= Len(l.toks)
      BY <1>3, <1>6 DEF ScanKey, Scan
    <2>2. CASE Seen(key) /\ ReturnFalse
      BY <2>1, <2>2 DEF Refuses, Seen
    <2>3. CASE ~(Seen(key) /\ ReturnFalse)
      <3>1. /\ key = <<>> /\ key' \in Value /\ i' = i + 1
            /\ UNCHANGED <<keys, oldKeys, keyId, kpc, answer>>
        BY <1>6, <2>3 DEF ScanKey, Seen
      <3>2. i + 1 < Len(l.toks) => key' = Spelling(l, i + 2)
        BY <1>3, <2>1, <3>1
      <3> QED BY <2>1, <3>1, <3>2 DEF Passes
    <2> QED BY <2>2, <2>3
  <1>7. CASE ScanKeyId
    <2>1. i < result /\ Spells(l, i + 1, kKeyIdTag) /\ i + 1 <= Len(l.toks)
      BY <1>3, <1>7 DEF ScanKeyId, Scan
    <2>2. CASE Seen(keyId) /\ ReturnFalse
      BY <2>1, <2>2 DEF Refuses, Seen
    <2>3. CASE ~(Seen(keyId) /\ ReturnFalse)
      <3>1. /\ keyId = <<>> /\ keyId' \in Value /\ i' = i + 1
            /\ UNCHANGED <<keys, oldKeys, key, kpc, answer>>
        BY <1>7, <2>3 DEF ScanKeyId, Seen
      <3>2. i + 1 < Len(l.toks) => keyId' = Spelling(l, i + 2)
        BY <1>3, <2>1, <3>1
      <3> QED BY <2>1, <3>1, <3>2 DEF Passes
    <2> QED BY <2>2, <2>3
  <1>8. CASE ScanOther
    <2>1. /\ i < result /\ i' = i + 1 /\ UNCHANGED <<keys, oldKeys, key, keyId, kpc, answer>>
          /\ ~Tagged(kKeyTag) /\ ~Tagged(kKeyIdTag)
      BY <1>8 DEF ScanOther, Scan
    <2> QED BY <1>3, <2>1 DEF Passes
  <1>9. CASE ParseLicence \/ NotJson \/ CheckKeysTag \/ kpc = "parse"
    BY <1>9 DEF ParseLicence, NotJson, CheckKeysTag, Parsed
  <1>10. CASE UNCHANGED <<jsmnVars, jwkVars>>
    BY <1>10
  <1> QED BY <1>4, <1>5, <1>6, <1>7, <1>8, <1>9, <1>10 DEF JwkNext

\* Tokens t and u are names spelled like the tag, and there is a text behind the first of them.
Twice(l, t, u, tag) ==
  /\ 2 < t /\ t < u /\ u < Len(l.toks)
  /\ Spells(l, t, tag) /\ Spells(l, u, tag) /\ Spelling(l, t + 1) # <<>>

\* The scan does not pass the second of two tags; and only a scan to the end writes g_keys.
ScanInv(l) ==
  /\ i \in Nat /\ i >= 2
  /\ kpc \in {"called", "parse", "scan", "returned", "crashed"}
  /\ kpc \in {"called", "parse"} => i = 2 /\ key = <<>> /\ keyId = <<>>
  /\ keys = oldKeys \/ (kpc = "returned" /\ answer)
  /\ kpc = "scan" => \A t, u \in DOMAIN l.toks :
       /\ Twice(l, t, u, kKeyTag) => i < u /\ (t <= i => key # <<>>)
       /\ Twice(l, t, u, kKeyIdTag) => i < u /\ (t <= i => keyId # <<>>)

LEMMA ScanPasses ==
  ASSUME NEW l \in Licences, l.toks # <<>>, ScanInv(l), kpc = "scan", Passes(l),
         Len(l.toks) <= MaxTokens
  PROVE  ScanInv(l)'
  <1>1. /\ i \in Nat /\ i >= 2 /\ i' = i + 1 /\ UNCHANGED <<kpc, keys, oldKeys, answer>>
        /\ Len(l.toks) \in Nat /\ DOMAIN l.toks = 1 .. Len(l.toks) /\ MaxTokens \in Nat
    BY LicenceText, MaxTokensAssumption DEF ScanInv, Passes
  <1>2. ASSUME NEW t \in DOMAIN l.toks, NEW u \in DOMAIN l.toks
        PROVE  /\ Twice(l, t, u, kKeyTag) => i + 1 < u /\ (t <= i + 1 => key' # <<>>)
               /\ Twice(l, t, u, kKeyIdTag) => i + 1 < u /\ (t <= i + 1 => keyId' # <<>>)
    <2>0. t \in Nat /\ u \in Nat
      BY <1>1
    <2>1. ASSUME Spells(l, i + 1, kKeyTag), Spells(l, i + 1, kKeyIdTag) PROVE FALSE
      BY <2>1, TagsDiffer DEF Spells
    <2>2. ASSUME Twice(l, t, u, kKeyTag) PROVE i + 1 < u /\ (t <= i + 1 => key' # <<>>)
      <3>1. /\ i < u /\ (t <= i => key # <<>>) /\ t < u /\ u < Len(l.toks)
            /\ Spells(l, t, kKeyTag) /\ Spells(l, u, kKeyTag) /\ Spelling(l, t + 1) # <<>>
        BY <2>2 DEF ScanInv, Twice
      <3>2. i + 1 < MaxTokens /\ i + 1 < Len(l.toks)
        BY <1>1, <2>0, <3>1
      <3>3. i + 1 # u
        <4> SUFFICES ASSUME i + 1 = u PROVE FALSE
          OBVIOUS
        <4>1. t <= i
          BY <1>1, <2>0, <3>1
        <4> QED BY <2>1, <3>1, <3>2, <4>1 DEF Passes
      <3>4. ASSUME t <= i + 1 PROVE key' # <<>>
        <4>1. CASE t <= i
          BY <3>1, <3>2, <4>1 DEF Passes
        <4>2. CASE t = i + 1
          <5>1. i + 2 = t + 1 /\ Spells(l, i + 1, kKeyTag)
            BY <1>1, <3>1, <4>2
          <5> QED BY <2>1, <3>1, <3>2, <5>1 DEF Passes
        <4> QED BY <1>1, <2>0, <3>4, <4>1, <4>2
      <3> QED BY <1>1, <2>0, <3>1, <3>3, <3>4
    <2>3. ASSUME Twice(l, t, u, kKeyIdTag) PROVE i + 1 < u /\ (t <= i + 1 => keyId' # <<>>)
      <3>1. /\ i < u /\ (t <= i => keyId # <<>>) /\ t < u /\ u < Len(l.toks)
            /\ Spells(l, t, kKeyIdTag) /\ Spells(l, u, kKeyIdTag) /\ Spelling(l, t + 1) # <<>>
        BY <2>3 DEF ScanInv, Twice
      <3>2. i + 1 < MaxTokens /\ i + 1 < Len(l.toks)
        BY <1>1, <2>0, <3>1
      <3>3. i + 1 # u
        <4> SUFFICES ASSUME i + 1 = u PROVE FALSE
          OBVIOUS
        <4>1. t <= i
          BY <1>1, <2>0, <3>1
        <4> QED BY <2>1, <3>1, <3>2, <4>1 DEF Passes
      <3>4. ASSUME t <= i + 1 PROVE keyId' # <<>>
        <4>1. CASE t <= i
          BY <3>1, <3>2, <4>1 DEF Passes
        <4>2. CASE t = i + 1
          <5>1. i + 2 = t + 1 /\ Spells(l, i + 1, kKeyIdTag)
            BY <1>1, <3>1, <4>2
          <5> QED BY <2>1, <3>1, <3>2, <5>1 DEF Passes
        <4> QED BY <1>1, <2>0, <3>4, <4>1, <4>2
      <3> QED BY <1>1, <2>0, <3>1, <3>3, <3>4
    <2> QED BY <2>2, <2>3
  <1>3. i + 1 \in Nat /\ i + 1 >= 2
    BY <1>1
  <1> QED BY <1>1, <1>2, <1>3 DEF ScanInv

\* A call that has ended is over.
LEMMA Ended ==
  ASSUME [JwkNext]_<<jsmnVars, jwkVars>>, kpc \in {"returned", "crashed"}
  PROVE  UNCHANGED jwkVars
  BY DEF JwkNext, ParseLicence, NotJson, CheckKeysTag, Parsed, ScanUnwritten, ScanKey, ScanKeyId,
         ScanOther, Scan, Install

\* The ways on until the scan begins.
LEMMA BeforeScan ==
  ASSUME ParserInv, CallInv, NEW l \in Licences, l.toks # <<>>, ParsesText(l), l = licence,
         kpc \in {"called", "parse"}, [JwkNext]_<<jsmnVars, jwkVars>>
  PROVE  /\ UNCHANGED <<i, key, keyId, keys, oldKeys, licence>>
         /\ \/ UNCHANGED answer /\ kpc' \in {"called", "parse"}
            \/ NotJson
            \/ /\ Len(l.toks) <= MaxTokens
               /\ \/ kpc' = "scan" /\ UNCHANGED answer
                  \/ ReturnFalse /\ ~(2 \in DOMAIN l.toks /\ KeysFirst(l))
                  \/ Crash /\ 2 \notin DOMAIN l.toks
  <1>1. CASE CheckKeysTag
    <2>1. kpc = "parse" /\ pc = "idle" /\ result >= 0
      BY <1>1 DEF CheckKeysTag, Parsed
    <2>2. tokens = l.toks /\ Len(l.toks) <= MaxTokens
      BY <2>1, LicenceTokens
    <2>3. result = Len(l.toks) /\ result \in Nat
      <3>1. result \in Int /\ (result < 0 \/ result = Len(tokens))
        BY <2>1, InvFacts DEF CallInv, NOMEM, INVAL, PART
      <3> QED BY <2>1, <2>2, <3>1
    <2>4. 2 \in DOMAIN l.toks <=> result >= 2
      BY <2>3, LicenceText
    <2>5. IsTag(tokens[2], kKeysTag) <=> KeysFirst(l)
      <3>1. js = l.text
        BY <2>1 DEF ParsesText
      <3> QED BY <2>2, <3>1 DEF IsTag, Text, KeysFirst, Spells, Spelling
    <2>6. \/ StartScan
          \/ ReturnFalse /\ ~(2 \in DOMAIN l.toks /\ KeysFirst(l))
          \/ Crash /\ 2 \notin DOMAIN l.toks
      BY <1>1, <2>4, <2>5 DEF CheckKeysTag
    <2> QED BY <2>2, <2>6 DEF StartScan, ReturnFalse, Crash
  <1>2. CASE ParseLicence
    BY <1>2 DEF ParseLicence
  <1>3. CASE NotJson
    BY <1>3 DEF NotJson, ReturnFalse
  <1>4. CASE ParseStep /\ UNCHANGED jwkVars
    BY <1>4 DEF jwkVars
  <1>5. CASE UNCHANGED <<jsmnVars, jwkVars>>
    BY <1>5 DEF jwkVars
  <1>6. CASE ScanUnwritten \/ ScanKey \/ ScanKeyId \/ ScanOther \/ Install
    BY <1>6 DEF ScanUnwritten, ScanKey, ScanKeyId, ScanOther, Scan, Install
  <1> QED BY <1>1, <1>2, <1>3, <1>4, <1>5, <1>6 DEF JwkNext

LEMMA KeepsScan ==
  ASSUME ParserInv, CallInv, NEW l \in Licences, l.toks # <<>>, ParsesText(l), l = licence,
         ScanInv(l), [JwkNext]_<<jsmnVars, jwkVars>>
  PROVE  ScanInv(l)'
  <1>1. CASE UNCHANGED jwkVars
    <2>1. UNCHANGED <<i, kpc, key, keyId, keys, oldKeys, answer>>
      BY <1>1 DEF jwkVars
    <2> QED BY <2>1 DEF ScanInv
  <1>2. CASE kpc \in {"called", "parse"}
    <2>1. /\ UNCHANGED <<i, key, keyId, keys, oldKeys>> /\ i = 2 /\ key = <<>> /\ keyId = <<>>
          /\ kpc' \in {"called", "parse", "scan", "returned", "crashed"} /\ keys = oldKeys
      BY <1>2, BeforeScan DEF ScanInv, NotJson, ReturnFalse, Crash
    <2>2. \A t, u \in DOMAIN l.toks : 2 < t /\ t < u => 2 < u /\ ~(t <= 2)
      BY LicenceText
    <2>3. 2 \in Nat /\ 2 >= 2
      OBVIOUS
    <2> QED BY <2>1, <2>2, <2>3 DEF ScanInv, Twice
  <1>3. CASE kpc = "scan"
    <2>1. CASE Passes(l)
      BY <1>3, <2>1, ScanPasses DEF ParsesText
    <2>2. CASE Installs(l)
      BY <1>3, <2>2 DEF Installs, Install, ScanInv
    <2>3. CASE Crashes(l) \/ Refuses(l)
      BY <1>3, <2>3 DEF Crashes, Crash, Refuses, ReturnFalse, ScanInv
    <2> QED BY <1>1, <1>3, <2>1, <2>2, <2>3, ScanStep
  <1>4. CASE kpc \in {"returned", "crashed"}
    BY <1>1, <1>4, Ended
  <1> QED BY <1>2, <1>3, <1>4 DEF ScanInv

\* The last token of a text has nothing in it and nothing behind it.
LEMMA LastIsEmpty ==
  ASSUME NEW text, NEW toks, Tokenized(text, toks)
  PROVE  toks[Len(toks)].size = 0
  <1>1. Len(toks) \in DOMAIN toks /\ DOMAIN toks = 1 .. Len(toks) /\ Len(toks) \in Nat
    BY TextTypes
  <1>2. {j \in DOMAIN toks : Parent(text, toks, j) = Len(toks)} = {}
    <2> SUFFICES ASSUME NEW j \in DOMAIN toks PROVE Parent(text, toks, j) # Len(toks)
      OBVIOUS
    <2>1. Parent(text, toks, j) \in 0 .. (j - 1)
      BY ParentBefore
    <2> QED BY <1>1, <2>1
  <1>3. toks[Len(toks)].size = Cardinality({})
    BY <1>1, <1>2 DEF Tokenized, Sized
  <1> QED BY <1>3, FS_EmptySet

\* The scan reads behind the tokens only if a value is spelled like a tag.
LEMMA NoCrash ==
  ASSUME NEW l \in Licences, l.toks # <<>>, i \in Nat, i >= 2, Crashes(l)
  PROVE  TagLike(l)
  <1>1. Tokenized(l.text, l.toks) /\ DOMAIN l.toks = 1 .. Len(l.toks) /\ Len(l.toks) \in Nat
    BY LicenceText
  <1>2. PICK t \in DOMAIN l.toks : t = i + 1 /\ t = Len(l.toks) /\ t > 2
    BY <1>1 DEF Crashes
  <1>3. l.toks[t].size = 0
    BY <1>1, <1>2, LastIsEmpty
  <1>4. l.toks[t].type = "string" /\ Spelling(l, t) \in {kKeyTag, kKeyIdTag, kAlgTag}
    BY <1>2 DEF Crashes, Spells
  <1> QED BY <1>2, <1>3, <1>4 DEF TagLike

\* Several keys, or too many tokens.
ManyInv(l) ==
  /\ Len(l.toks) > MaxTokens => kpc \in {"called", "parse"} \/ Refused
  /\ ~TagLike(l) => \A t, u \in DOMAIN l.toks :
       Twice(l, t, u, kKeyTag) \/ Twice(l, t, u, kKeyIdTag)
         => kpc \in {"called", "parse", "scan"} \/ Refused

LEMMA KeepsMany ==
  ASSUME ParserInv, CallInv, NEW l \in Licences, l.toks # <<>>, ParsesText(l), l = licence,
         ScanInv(l), ManyInv(l), [JwkNext]_<<jsmnVars, jwkVars>>
  PROVE  ManyInv(l)'
  <1>0. Len(l.toks) \in Nat /\ DOMAIN l.toks = 1 .. Len(l.toks) /\ MaxTokens \in Nat
    BY LicenceText, MaxTokensAssumption
  <1>1. CASE UNCHANGED jwkVars
    <2>1. UNCHANGED <<kpc, keys, oldKeys, answer>>
      BY <1>1 DEF jwkVars
    <2> QED BY <2>1 DEF ManyInv, Refused
  <1>2. CASE kpc \in {"called", "parse"}
    <2>1. keys = oldKeys /\ UNCHANGED <<keys, oldKeys>>
      BY <1>2, BeforeScan DEF ScanInv
    <2>2. \/ kpc' \in {"called", "parse"}
          \/ kpc' = "returned" /\ ~answer'
          \/ Len(l.toks) <= MaxTokens /\ (kpc' = "scan" \/ 2 \notin DOMAIN l.toks)
      BY <1>2, BeforeScan DEF NotJson, ReturnFalse
    <2>3. \A t, u \in DOMAIN l.toks : 2 < t => 2 \in DOMAIN l.toks
      BY <1>0
    <2> QED BY <1>0, <2>1, <2>2, <2>3 DEF ManyInv, Refused, Twice
  <1>3. CASE kpc = "scan"
    <2>0. i \in Nat /\ i >= 2 /\ keys = oldKeys /\ Len(l.toks) <= MaxTokens
      BY <1>3 DEF ScanInv, ParsesText
    <2>1. CASE Passes(l)
      BY <1>0, <1>3, <2>0, <2>1 DEF Passes, ManyInv
    <2>2. CASE Installs(l)
      <3>1. \A t, u \in DOMAIN l.toks : ~Twice(l, t, u, kKeyTag) /\ ~Twice(l, t, u, kKeyIdTag)
        BY <1>0, <1>3, <2>0, <2>2 DEF ScanInv, Installs, Twice
      <3> QED BY <1>0, <2>0, <3>1 DEF ManyInv
    <2>3. CASE Crashes(l)
      <3>1. TagLike(l)
        BY <2>0, <2>3, NoCrash
      <3> QED BY <1>0, <2>0, <3>1 DEF ManyInv
    <2>4. CASE Refuses(l)
      BY <2>0, <2>4 DEF Refuses, ReturnFalse, ManyInv, Refused
    <2> QED BY <1>1, <1>3, <2>1, <2>2, <2>3, <2>4, ScanStep
  <1>4. CASE kpc \in {"returned", "crashed"}
    BY <1>1, <1>4, Ended
  <1> QED BY <1>2, <1>3, <1>4 DEF ScanInv

\* Tokens n and m are the only tags of a key and of an id, with the pair behind them.
Single(l, n, m) ==
  /\ n > 2 /\ m > 2 /\ n < Len(l.toks) /\ m < Len(l.toks)
  /\ \A t \in DOMAIN l.toks : t > 2 =>
       (Spells(l, t, kKeyTag) <=> t = n) /\ (Spells(l, t, kKeyIdTag) <=> t = m)
  /\ l.pairs[1] = KeyPair(Spelling(l, m + 1), Spelling(l, n + 1))

SoFar(l, n) == IF n <= i THEN Spelling(l, n + 1) ELSE <<>>

\* One key.
OneInv(l) ==
  KeysFirst(l) /\ ~TagLike(l) /\ Len(l.toks) <= MaxTokens =>
    \A n, m \in DOMAIN l.toks : Single(l, n, m) =>
      \/ kpc \in {"called", "parse"}
      \/ kpc = "scan" /\ key = SoFar(l, n) /\ keyId = SoFar(l, m)
      \/ Accepted(l.pairs[1])

\* A JSON text that fits is not refused by the tokenizer.
LEMMA TextParsed ==
  ASSUME ParserInv, NEW l \in Licences, l.toks # <<>>, ParsesText(l), Len(l.toks) <= MaxTokens
  PROVE  ~NotJson
  <1> SUFFICES ASSUME NotJson PROVE FALSE
    OBVIOUS
  <1>1. kpc = "parse" /\ pc = "idle" /\ result < 0
    BY DEF NotJson, Parsed
  <1>2. js = l.text /\ Follows(l.text, l.toks) /\ result # NOMEM /\ Len(l.text) \in Nat
    BY <1>1, LicenceText DEF ParsesText
  <1>3. result # INVAL /\ (result = PART => Len(js) < Len(l.text))
    BY <1>1, <1>2 DEF Follows, Answers
  <1>4. result \in Nat
    BY <1>2, <1>3 DEF ParserInv, JsmnTypeOK
  <1> QED BY <1>1, <1>4

LEMMA KeepsOne ==
  ASSUME ParserInv, CallInv, NEW l \in Licences, l.toks # <<>>, ParsesText(l), l = licence,
         ScanInv(l), OneInv(l), [JwkNext]_<<jsmnVars, jwkVars>>
  PROVE  OneInv(l)'
  <1>0. /\ Len(l.toks) \in Nat /\ DOMAIN l.toks = 1 .. Len(l.toks) /\ MaxTokens \in Nat
        /\ i \in Nat /\ i >= 2
    BY LicenceText, MaxTokensAssumption DEF ScanInv
  <1>1. SUFFICES ASSUME KeysFirst(l), ~TagLike(l), Len(l.toks) <= MaxTokens,
                        NEW n \in DOMAIN l.toks, NEW m \in DOMAIN l.toks, Single(l, n, m)
                 PROVE  \/ kpc' \in {"called", "parse"}
                        \/ kpc' = "scan" /\ key' = SoFar(l, n)' /\ keyId' = SoFar(l, m)'
                        \/ Accepted(l.pairs[1])'
    BY DEF OneInv
  <1>2. \/ kpc \in {"called", "parse"}
        \/ kpc = "scan" /\ key = SoFar(l, n) /\ keyId = SoFar(l, m)
        \/ Accepted(l.pairs[1])
    BY <1>1 DEF OneInv
  <1>3. /\ n \in Nat /\ m \in Nat /\ n > 2 /\ m > 2 /\ n < Len(l.toks) /\ m < Len(l.toks)
        /\ 2 \in DOMAIN l.toks
        /\ \A t \in DOMAIN l.toks : t > 2 =>
             (Spells(l, t, kKeyTag) <=> t = n) /\ (Spells(l, t, kKeyIdTag) <=> t = m)
        /\ l.pairs[1] = KeyPair(Spelling(l, m + 1), Spelling(l, n + 1))
    BY <1>0, <1>1 DEF Single
  <1>4. CASE UNCHANGED jwkVars
    <2>1. UNCHANGED <<i, kpc, key, keyId, keys, answer>>
      BY <1>4 DEF jwkVars
    <2> QED BY <1>2, <2>1 DEF Accepted, SoFar
  <1>5. CASE kpc \in {"called", "parse"}
    <2>1. i = 2 /\ key = <<>> /\ keyId = <<>> /\ UNCHANGED <<i, key, keyId>>
      BY <1>5, BeforeScan DEF ScanInv
    <2>2. kpc' \in {"called", "parse", "scan"}
      BY <1>1, <1>3, <1>5, BeforeScan, TextParsed
    <2>3. ~(n <= 2) /\ ~(m <= 2)
      BY <1>3
    <2> QED BY <2>1, <2>2, <2>3 DEF SoFar
  <1>6. CASE kpc = "scan" /\ key = SoFar(l, n) /\ keyId = SoFar(l, m)
    <2>1. CASE Passes(l)
      <3>1. /\ i + 1 \in DOMAIN l.toks /\ i + 1 > 2 /\ i' = i + 1 /\ kpc' = "scan"
        BY <1>0, <1>6, <2>1 DEF Passes
      <3>2. (Spells(l, i + 1, kKeyTag) <=> i + 1 = n) /\ (Spells(l, i + 1, kKeyIdTag) <=> i + 1 = m)
        BY <1>3, <3>1
      <3>3. ~(Spells(l, i + 1, kKeyTag) /\ Spells(l, i + 1, kKeyIdTag))
        BY TagsDiffer DEF Spells
      <3>4. key' = IF n <= i + 1 THEN Spelling(l, n + 1) ELSE <<>>
        <4>1. CASE n = i + 1
          <5>1. i + 1 < MaxTokens /\ i + 1 < Len(l.toks) /\ i + 2 = n + 1 /\ n <= i + 1
            BY <1>0, <1>1, <1>3, <4>1
          <5> QED BY <2>1, <3>2, <3>3, <4>1, <5>1 DEF Passes
        <4>2. CASE n # i + 1
          <5>1. key' = key
            BY <2>1, <3>2, <4>2 DEF Passes
          <5>2. n <= i + 1 <=> n <= i
            BY <1>0, <1>3, <4>2
          <5> QED BY <1>6, <5>1, <5>2 DEF SoFar
        <4> QED BY <4>1, <4>2
      <3>5. keyId' = IF m <= i + 1 THEN Spelling(l, m + 1) ELSE <<>>
        <4>1. CASE m = i + 1
          <5>1. i + 1 < MaxTokens /\ i + 1 < Len(l.toks) /\ i + 2 = m + 1 /\ m <= i + 1
            BY <1>0, <1>1, <1>3, <4>1
          <5> QED BY <2>1, <3>2, <3>3, <4>1, <5>1 DEF Passes
        <4>2. CASE m # i + 1
          <5>1. keyId' = keyId
            BY <2>1, <3>2, <4>2 DEF Passes
          <5>2. m <= i + 1 <=> m <= i
            BY <1>0, <1>3, <4>2
          <5> QED BY <1>6, <5>1, <5>2 DEF SoFar
        <4> QED BY <4>1, <4>2
      <3> QED BY <3>1, <3>4, <3>5 DEF SoFar
    <2>2. CASE Installs(l)
      <3>1. n <= i /\ m <= i
        BY <1>0, <1>3, <2>2 DEF Installs
      <3>2. keys' = <<KeyPair(keyId, key)>> /\ kpc' = "returned" /\ answer' = TRUE
        BY <2>2 DEF Installs, Install
      <3>3. KeyPair(keyId, key) = l.pairs[1]
        BY <1>3, <1>6, <3>1 DEF SoFar
      <3> QED BY <3>2, <3>3 DEF Accepted
    <2>3. CASE Crashes(l)
      BY <1>0, <1>1, <2>3, NoCrash
    <2>4. CASE Refuses(l)
      <3>1. i + 1 \in DOMAIN l.toks /\ i + 1 > 2
        BY <1>0, <2>4 DEF Refuses
      <3>2. (Spells(l, i + 1, kKeyTag) <=> i + 1 = n) /\ (Spells(l, i + 1, kKeyIdTag) <=> i + 1 = m)
        BY <1>3, <3>1
      <3>3. (i + 1 = n => key = <<>>) /\ (i + 1 = m => keyId = <<>>)
        BY <1>0, <1>6 DEF SoFar
      <3> QED BY <2>4, <3>2, <3>3 DEF Refuses
    <2> QED BY <1>4, <1>6, <2>1, <2>2, <2>3, <2>4, ScanStep
  <1>7. CASE Accepted(l.pairs[1])
    BY <1>4, <1>7, Ended DEF Accepted
  <1> QED BY <1>2, <1>5, <1>6, <1>7

-----------------------------------------------------------------------------
(* Where the keys of a set stand in the licence.                            *)

\* What is in a token does not belong to one before it.
LEMMA InsideBelongs ==
  ASSUME NEW text, NEW toks, Tokenized(text, toks), NEW j \in DOMAIN toks, NEW k \in DOMAIN toks,
         j < k, Begin(toks[k]) < Past(toks[j])
  PROVE  j <= Parent(text, toks, k)
  <1>1. /\ j \in Nat /\ k \in Nat /\ Begin(toks[k]) \in Nat
        /\ Begin(toks[j]) < Begin(toks[k])
    BY TextTypes, TokenBounds, TokenOrder
  <1>2. CASE Preceded(text, Begin(toks[k]), {":"})
    BY <1>1, <1>2 DEF Parent
  <1>3. CASE ~Preceded(text, Begin(toks[k]), {":"})
    <2>1. j \in Around(toks, Begin(toks[k]))
      BY <1>1 DEF Around
    <2>2. j <= LastOf(Around(toks, Begin(toks[k])))
      BY <1>1, <2>1, AroundType
    <2> QED BY <1>3, <2>2 DEF Parent
  <1> QED BY <1>2, <1>3

\* What belongs to a token is in it, or comes next.
LEMMA BelongsInside ==
  ASSUME NEW text, NEW toks, Tokenized(text, toks), NEW j \in DOMAIN toks, NEW k \in DOMAIN toks,
         Parent(text, toks, k) = j
  PROVE  j = k - 1 \/ Begin(toks[k]) < Past(toks[j])
  <1> SUFFICES ASSUME j # k - 1 PROVE Begin(toks[k]) < Past(toks[j])
    OBVIOUS
  <1>1. Begin(toks[k]) \in Nat /\ j > 0
    BY TextTypes, TokenBounds
  <1>2. j = LastOf(Around(toks, Begin(toks[k])))
    BY DEF Parent
  <1> DEFINE A == Around(toks, Begin(toks[k]))
  <1>3. (A = {} => LastOf(A) = 0) /\ (A # {} => LastOf(A) \in A)
    BY <1>1, AroundType
  <1>4. j \in A
    <2> HIDE DEF A
    <2>1. j = LastOf(A)
      BY <1>2 DEF A
    <2> QED BY <1>1, <1>3, <2>1
  <1> QED BY <1>4 DEF Around

\* A key object stands behind the name of its array, which is a member of the whole text.
LEMMA KeyObjectPlace ==
  ASSUME NEW l \in Licences, l.toks # <<>>, NEW o \in DOMAIN l.toks, IsKeyObject(l, o)
  PROVE  /\ o \in Nat /\ o >= 4 /\ l.toks[o].type = "object"
         /\ \E a \in 3 .. (o - 1) :
              /\ a - 1 \in DOMAIN l.toks /\ a \in DOMAIN l.toks
              /\ Over(l, a - 1) = 1 /\ Over(l, o) = a
              /\ l.toks[a - 1].type = "string" /\ l.toks[a].type = "array"
  <1>1. /\ Tokenized(l.text, l.toks) /\ DOMAIN l.toks = 1 .. Len(l.toks) /\ Len(l.toks) \in Nat
        /\ o \in Nat
    BY LicenceText
  <1>2. PICK a \in 2 .. Len(l.toks) :
          /\ Over(l, a - 1) = 1 /\ l.toks[a - 1].type = "string" /\ l.toks[a].type = "array"
          /\ Over(l, o) = a /\ l.toks[o].type = "object"
    BY DEF IsKeyObject, Spells
  <1>3. a - 1 \in DOMAIN l.toks /\ a \in DOMAIN l.toks /\ a \in Nat
    BY <1>1, <1>2
  <1>4. 1 \in 0 .. (a - 1 - 1)
    BY <1>1, <1>2, <1>3, ParentBefore DEF Over
  <1>5. a \in 0 .. (o - 1)
    BY <1>1, <1>2, ParentBefore DEF Over
  <1>6. a \in 3 .. (o - 1) /\ o >= 4
    BY <1>1, <1>3, <1>4, <1>5
  <1> QED BY <1>1, <1>2, <1>3, <1>6

\* No key object is in another.
LEMMA KeyObjectsApart ==
  ASSUME NEW l \in Licences, l.toks # <<>>,
         NEW o \in DOMAIN l.toks, NEW p \in DOMAIN l.toks, o < p,
         IsKeyObject(l, o), IsKeyObject(l, p)
  PROVE  ~(Begin(l.toks[p]) < Past(l.toks[o]))
  <1> SUFFICES ASSUME Begin(l.toks[p]) < Past(l.toks[o]) PROVE FALSE
    OBVIOUS
  <1>1. Tokenized(l.text, l.toks) /\ o \in Nat /\ o >= 4 /\ l.toks[o].type = "object" /\ p \in Nat
    BY LicenceText, KeyObjectPlace
  <1>2. PICK a \in 3 .. (p - 1) :
          /\ a - 1 \in DOMAIN l.toks /\ a \in DOMAIN l.toks
          /\ Over(l, a - 1) = 1 /\ Over(l, p) = a
          /\ l.toks[a - 1].type = "string" /\ l.toks[a].type = "array"
    BY KeyObjectPlace
  <1>3. a \in Nat
    BY <1>1, <1>2
  <1>4. o <= a
    BY <1>1, <1>2, InsideBelongs DEF Over
  <1>5. o # a /\ o # a - 1
    BY <1>1, <1>2
  <1>6. o < a - 1 /\ a - 1 < a /\ a < p
    BY <1>1, <1>2, <1>3, <1>4, <1>5
  <1>7. PICK b \in DOMAIN l.toks : b = a - 1
    BY <1>2
  <1>8. Begin(l.toks[b]) < Begin(l.toks[a]) /\ Begin(l.toks[a]) < Begin(l.toks[p])
    BY <1>1, <1>2, <1>6, <1>7, TokenOrder
  <1>9. /\ Begin(l.toks[b]) \in Nat /\ Begin(l.toks[a]) \in Nat /\ Begin(l.toks[p]) \in Nat
        /\ Past(l.toks[o]) \in Nat
    BY <1>1, <1>2, TokenBounds
  <1>10. Begin(l.toks[b]) < Past(l.toks[o])
    BY <1>8, <1>9
  <1>11. o <= Over(l, b)
    BY <1>1, <1>6, <1>7, <1>10, InsideBelongs DEF Over
  <1> QED BY <1>1, <1>2, <1>7, <1>11

\* The members of a key come before the members of the next.
LEMMA MembersInOrder ==
  ASSUME NEW l \in Licences, l.toks # <<>>,
         NEW o \in DOMAIN l.toks, NEW p \in DOMAIN l.toks, o < p,
         IsKeyObject(l, o), IsKeyObject(l, p),
         NEW n \in DOMAIN l.toks, NEW m \in DOMAIN l.toks, Over(l, n) = o, Over(l, m) = p
  PROVE  n < m
  <1>1. /\ Tokenized(l.text, l.toks) /\ o \in Nat /\ p \in Nat /\ n \in Nat /\ m \in Nat
    BY LicenceText
  <1>2. p < m
    <2>1. p \in 0 .. (m - 1)
      BY <1>1, ParentBefore DEF Over
    <2> QED BY <1>1, <2>1
  <1>3. CASE o = n - 1
    BY <1>1, <1>2, <1>3
  <1>4. CASE o # n - 1
    <2> SUFFICES ASSUME m <= n PROVE FALSE
      BY <1>1
    <2>1. Begin(l.toks[n]) < Past(l.toks[o])
      BY <1>1, <1>4, BelongsInside DEF Over
    <2>2. p < n
      BY <1>1, <1>2
    <2>3. Begin(l.toks[p]) < Begin(l.toks[n])
      BY <1>1, <2>2, TokenOrder
    <2>4. Begin(l.toks[p]) \in Nat /\ Begin(l.toks[n]) \in Nat /\ Past(l.toks[o]) \in Nat
      BY <1>1, TokenBounds
    <2>5. Begin(l.toks[p]) < Past(l.toks[o])
      BY <2>1, <2>3, <2>4
    <2> QED BY <2>5, KeyObjectsApart
  <1> QED BY <1>3, <1>4

\* A name in a key object, and the text behind it.
LEMMA MemberPlace ==
  ASSUME NEW l \in Licences, l.toks # <<>>, NEW o \in DOMAIN l.toks, IsKeyObject(l, o),
         NEW name, NEW s, HasMember(l, o, name, s)
  PROVE  \E n \in DOMAIN l.toks :
           /\ n \in Nat /\ n > 2 /\ n < Len(l.toks) /\ Over(l, n) = o /\ Spells(l, n, name)
           /\ n + 1 \in DOMAIN l.toks /\ Spelling(l, n + 1) = s
           /\ \A t \in DOMAIN l.toks : Over(l, t) = o /\ Spells(l, t, name) => t = n
  <1>1. PICK n \in DOMAIN l.toks :
          /\ {t \in DOMAIN l.toks : Over(l, t) = o /\ Spells(l, t, name)} = {n}
          /\ n + 1 \in DOMAIN l.toks /\ Spells(l, n + 1, s)
    BY DEF HasMember
  <1>2. /\ n \in {t \in DOMAIN l.toks : Over(l, t) = o /\ Spells(l, t, name)}
        /\ \A t \in DOMAIN l.toks : Over(l, t) = o /\ Spells(l, t, name) => t = n
    BY <1>1
  <1>3. Over(l, n) = o /\ Spells(l, n, name) /\ Spelling(l, n + 1) = s
    BY <1>1, <1>2 DEF Spells
  <1>4. /\ Tokenized(l.text, l.toks) /\ DOMAIN l.toks = 1 .. Len(l.toks) /\ Len(l.toks) \in Nat
        /\ o \in Nat /\ o >= 4
    BY LicenceText, KeyObjectPlace
  <1>5. o \in 0 .. (n - 1)
    BY <1>3, <1>4, ParentBefore DEF Over
  <1>6. n \in Nat /\ n > 2 /\ n < Len(l.toks)
    BY <1>1, <1>4, <1>5
  <1> QED BY <1>1, <1>2, <1>3, <1>6

\* The two names of each key of the set.
LEMMA KeysOfSet ==
  ASSUME NEW l \in Licences, l.pairs # <<>>
  PROVE  /\ l.toks # <<>> /\ DOMAIN l.pairs = 1 .. Len(l.pairs) /\ Len(l.pairs) \in Nat
         /\ \E o \in [DOMAIN l.pairs -> DOMAIN l.toks] :
              /\ {t \in DOMAIN l.toks : IsKeyObject(l, t)} = {o[m] : m \in DOMAIN l.pairs}
              /\ \A m, n \in DOMAIN l.pairs : m < n => o[m] < o[n]
              /\ \A m \in DOMAIN l.pairs :
                   /\ o[m] \in DOMAIN l.toks /\ IsKeyObject(l, o[m])
                   /\ HasMember(l, o[m], kKeyTag, Base64UrlEncode(l.pairs[m].key))
                   /\ HasMember(l, o[m], kKeyIdTag, Base64UrlEncode(l.pairs[m].id))
                   /\ l.pairs[m].key \in Seq(Octet) /\ l.pairs[m].id \in Seq(Octet)
                   /\ l.pairs[m] = [id |-> l.pairs[m].id, key |-> l.pairs[m].key]
  <1>1. l.toks # <<>> /\ IsKeySet(l) /\ l.pairs \in Seq(OctetPair)
    BY LicencesAssumption
  <1>2. DOMAIN l.pairs = 1 .. Len(l.pairs) /\ Len(l.pairs) \in Nat
    BY <1>1
  <1>3. ASSUME NEW m \in DOMAIN l.pairs
        PROVE  /\ l.pairs[m].key \in Seq(Octet) /\ l.pairs[m].id \in Seq(Octet)
               /\ l.pairs[m] = [id |-> l.pairs[m].id, key |-> l.pairs[m].key]
    <2> DEFINE S == Seq(Octet)
    <2> HIDE DEF S
    <2>1. l.pairs \in Seq([id : S, key : S])
      BY <1>1 DEF S, OctetPair
    <2>2. l.pairs[m] \in [id : S, key : S]
      <3> DEFINE R == [id : S, key : S]
      <3> HIDE DEF R
      <3>1. l.pairs \in Seq(R) /\ m \in 1 .. Len(l.pairs)
        BY <1>2, <2>1 DEF R
      <3>2. l.pairs[m] \in R
        BY <3>1
      <3> QED BY <3>2 DEF R
    <2>3. l.pairs[m].key \in S /\ l.pairs[m].id \in S
      BY <2>2
    <2>4. l.pairs[m] = [id |-> l.pairs[m].id, key |-> l.pairs[m].key]
      BY <2>2
    <2> QED BY <2>3, <2>4 DEF S
  <1>4. PICK o \in [DOMAIN l.pairs -> DOMAIN l.toks] :
          /\ {t \in DOMAIN l.toks : IsKeyObject(l, t)} = {o[m] : m \in DOMAIN l.pairs}
          /\ \A m, n \in DOMAIN l.pairs : m < n => o[m] < o[n]
          /\ \A m \in DOMAIN l.pairs :
               /\ HasMember(l, o[m], kKeyTag, Base64UrlEncode(l.pairs[m].key))
               /\ HasMember(l, o[m], kKeyIdTag, Base64UrlEncode(l.pairs[m].id))
    BY <1>1 DEF IsKeySet
  <1>5. ASSUME NEW m \in DOMAIN l.pairs PROVE o[m] \in DOMAIN l.toks /\ IsKeyObject(l, o[m])
    <2>1. o[m] \in {t \in DOMAIN l.toks : IsKeyObject(l, t)}
      BY <1>4
    <2> QED BY <2>1
  <1> QED BY <1>1, <1>2, <1>3, <1>4, <1>5

\* In a set of several keys the scan meets a tag twice.
LEMMA SeveralTwice ==
  ASSUME NEW l \in Licences, Several(l)
  PROVE  /\ l.toks # <<>>
         /\ \E t, u \in DOMAIN l.toks : Twice(l, t, u, kKeyTag) \/ Twice(l, t, u, kKeyIdTag)
  <1>1. PICK m \in 1 .. (Len(l.pairs) - 1) : l.pairs[m].key # <<>> \/ l.pairs[m].id # <<>>
    BY DEF Several
  <1>2. l.pairs # <<>>
    <2> SUFFICES ASSUME l.pairs = <<>> PROVE FALSE
      OBVIOUS
    <2>1. Len(l.pairs) = 0
      OBVIOUS
    <2> QED BY <1>1, <2>1
  <1>3. l.toks # <<>> /\ DOMAIN l.pairs = 1 .. Len(l.pairs) /\ Len(l.pairs) \in Nat
    BY <1>2, KeysOfSet
  <1>4. PICK o \in [DOMAIN l.pairs -> DOMAIN l.toks] :
          /\ \A j, k \in DOMAIN l.pairs : j < k => o[j] < o[k]
          /\ \A j \in DOMAIN l.pairs :
               /\ o[j] \in DOMAIN l.toks /\ IsKeyObject(l, o[j])
               /\ HasMember(l, o[j], kKeyTag, Base64UrlEncode(l.pairs[j].key))
               /\ HasMember(l, o[j], kKeyIdTag, Base64UrlEncode(l.pairs[j].id))
               /\ l.pairs[j].key \in Seq(Octet) /\ l.pairs[j].id \in Seq(Octet)
    BY <1>2, KeysOfSet
  <1>5. m \in DOMAIN l.pairs /\ m + 1 \in DOMAIN l.pairs /\ m < m + 1
    BY <1>1, <1>3
  <1>6. PICK p \in DOMAIN l.toks, q \in DOMAIN l.toks : p = o[m] /\ q = o[m + 1] /\ p < q
    BY <1>4, <1>5
  <1>7. ASSUME NEW tag, NEW b \in Seq(Octet), NEW c, b # <<>>,
               HasMember(l, p, tag, Base64UrlEncode(b)), HasMember(l, q, tag, c)
        PROVE  \E t, u \in DOMAIN l.toks : Twice(l, t, u, tag)
    <2>1. IsKeyObject(l, p) /\ IsKeyObject(l, q)
      BY <1>4, <1>5, <1>6
    <2>2. PICK t \in DOMAIN l.toks :
            /\ t > 2 /\ Over(l, t) = p /\ Spells(l, t, tag)
            /\ Spelling(l, t + 1) = Base64UrlEncode(b)
      BY <1>3, <1>7, <2>1, MemberPlace
    <2>3. PICK u \in DOMAIN l.toks : u < Len(l.toks) /\ Over(l, u) = q /\ Spells(l, u, tag)
      BY <1>3, <1>7, <2>1, MemberPlace
    <2>4. t < u
      BY <1>3, <1>6, <2>1, <2>2, <2>3, MembersInOrder
    <2>5. Base64UrlEncode(b) # <<>>
      BY <1>7, EncodedLength
    <2>6. 2 < t
      BY <1>3, <2>2, LicenceText
    <2> QED BY <2>2, <2>3, <2>4, <2>5, <2>6 DEF Twice
  <1>8. CASE l.pairs[m].key # <<>>
    BY <1>3, <1>4, <1>5, <1>6, <1>7, <1>8
  <1>9. CASE l.pairs[m].id # <<>>
    BY <1>3, <1>4, <1>5, <1>6, <1>7, <1>9
  <1> QED BY <1>1, <1>8, <1>9

\* In a set of one key each tag stands once, before the text that decodes to the octets.
LEMMA OneSingle ==
  ASSUME NEW l \in Licences, Len(l.pairs) = 1, ~Stray(l)
  PROVE  l.toks # <<>> /\ \E n, m \in DOMAIN l.toks : Single(l, n, m)
  <1>1. l.pairs # <<>>
    <2> SUFFICES ASSUME l.pairs = <<>> PROVE FALSE
      OBVIOUS
    <2>1. Len(l.pairs) = 0
      OBVIOUS
    <2> QED BY <2>1
  <1>2. l.toks # <<>> /\ DOMAIN l.pairs = {1}
    <2>1. l.toks # <<>> /\ DOMAIN l.pairs = 1 .. 1
      BY <1>1, KeysOfSet
    <2> QED BY <2>1
  <1>3. PICK o \in [DOMAIN l.pairs -> DOMAIN l.toks] :
          /\ {t \in DOMAIN l.toks : IsKeyObject(l, t)} = {o[m] : m \in DOMAIN l.pairs}
          /\ \A m \in DOMAIN l.pairs :
               /\ o[m] \in DOMAIN l.toks /\ IsKeyObject(l, o[m])
               /\ HasMember(l, o[m], kKeyTag, Base64UrlEncode(l.pairs[m].key))
               /\ HasMember(l, o[m], kKeyIdTag, Base64UrlEncode(l.pairs[m].id))
               /\ l.pairs[m].key \in Seq(Octet) /\ l.pairs[m].id \in Seq(Octet)
               /\ l.pairs[m] = [id |-> l.pairs[m].id, key |-> l.pairs[m].key]
    BY <1>1, KeysOfSet
  <1>4. PICK p \in DOMAIN l.toks : p = o[1]
    BY <1>2, <1>3
  <1>5. PICK id \in Seq(Octet), k \in Seq(Octet) :
          /\ l.pairs[1] = [id |-> id, key |-> k] /\ IsKeyObject(l, p)
          /\ HasMember(l, p, kKeyTag, Base64UrlEncode(k))
          /\ HasMember(l, p, kKeyIdTag, Base64UrlEncode(id))
    BY <1>2, <1>3, <1>4
  <1>6. \A t \in DOMAIN l.toks : IsKeyObject(l, t) => t = p
    <2> SUFFICES ASSUME NEW t \in DOMAIN l.toks, IsKeyObject(l, t) PROVE t = p
      OBVIOUS
    <2>1. t \in {o[m] : m \in DOMAIN l.pairs}
      BY <1>3
    <2> QED BY <1>2, <1>4, <2>1
  <1>7. PICK n \in DOMAIN l.toks :
          /\ n > 2 /\ n < Len(l.toks) /\ Spells(l, n, kKeyTag)
          /\ Spelling(l, n + 1) = Base64UrlEncode(k)
          /\ \A t \in DOMAIN l.toks : Over(l, t) = p /\ Spells(l, t, kKeyTag) => t = n
    BY <1>2, <1>5, MemberPlace
  <1>8. PICK m \in DOMAIN l.toks :
          /\ m > 2 /\ m < Len(l.toks) /\ Spells(l, m, kKeyIdTag)
          /\ Spelling(l, m + 1) = Base64UrlEncode(id)
          /\ \A t \in DOMAIN l.toks : Over(l, t) = p /\ Spells(l, t, kKeyIdTag) => t = m
    BY <1>2, <1>5, MemberPlace
  <1>9. ASSUME NEW t \in DOMAIN l.toks, t > 2, Spells(l, t, kKeyTag) \/ Spells(l, t, kKeyIdTag)
        PROVE  Over(l, t) = p
    <2>1. IsKeyObject(l, Over(l, t))
      BY <1>9 DEF Stray
    <2>2. Over(l, t) \in DOMAIN l.toks
      <3>1. Over(l, t) \in 0 .. (t - 1) /\ Tokenized(l.text, l.toks)
        BY <1>2, LicenceText, ParentBefore DEF Over
      <3>2. 1 <= Over(l, t)
        <4>1. 1 \in DOMAIN l.toks /\ Begin(l.toks[t]) < Past(l.toks[1])
          BY <1>2, <1>9, <3>1, LicenceText DEF Tokenized, Separated
        <4> QED BY <1>9, <3>1, <4>1, InsideBelongs DEF Over
      <3> QED BY <1>2, <3>1, <3>2, LicenceText
    <2> QED BY <1>6, <2>1, <2>2
  <1>10. KeyPair(Spelling(l, m + 1), Spelling(l, n + 1)) = l.pairs[1]
    BY <1>5, <1>7, <1>8, DecodedText DEF KeyPair
  <1> QED BY <1>2, <1>7, <1>8, <1>9, <1>10 DEF Single

-----------------------------------------------------------------------------
(* The inductive invariant of the extraction from a JSON text.              *)

LicenceInv ==
  \A l \in Licences : l = licence /\ l.toks # <<>> =>
    ParsesText(l) /\ ScanInv(l) /\ ManyInv(l) /\ OneInv(l)

LEMMA LicenceKept == [JwkNext]_<<jsmnVars, jwkVars>> => licence' = licence
  BY DEF JwkNext, ParseLicence, NotJson, CheckKeysTag, StartScan, ScanUnwritten, ScanKey,
         ScanKeyId, ScanOther, Install, ReturnFalse, Crash, jwkVars

LEMMA InitLicenceInv == JwkInit => LicenceInv
  <1> SUFFICES ASSUME JwkInit, NEW l \in Licences, l = licence, l.toks # <<>>
               PROVE  ParsesText(l) /\ ScanInv(l) /\ ManyInv(l) /\ OneInv(l)
    BY DEF LicenceInv
  <1>1. /\ kpc = "called" /\ i = 2 /\ i \in Nat /\ i >= 2 /\ key = <<>> /\ keyId = <<>>
        /\ keys = oldKeys
    BY DEF JwkInit
  <1> QED BY <1>1, InitParses DEF ScanInv, ManyInv, OneInv

LEMMA NextLicenceInv ==
  ParserInv /\ CallInv /\ LicenceInv /\ [JwkNext]_<<jsmnVars, jwkVars>> => LicenceInv'
  <1> SUFFICES ASSUME ParserInv, CallInv, LicenceInv, [JwkNext]_<<jsmnVars, jwkVars>>,
                      NEW l \in Licences, l = licence', l.toks # <<>>
               PROVE  ParsesText(l)' /\ ScanInv(l)' /\ ManyInv(l)' /\ OneInv(l)'
    BY DEF LicenceInv
  <1>1. l = licence
    BY LicenceKept
  <1>2. ParsesText(l) /\ ScanInv(l) /\ ManyInv(l) /\ OneInv(l)
    BY <1>1 DEF LicenceInv
  <1>3. ParsesText(l)'
    BY <1>1, <1>2, KeepsParses
  <1>4. ScanInv(l)'
    BY <1>1, <1>2, KeepsScan
  <1>5. ManyInv(l)'
    BY <1>1, <1>2, KeepsMany
  <1>6. OneInv(l)'
    BY <1>1, <1>2, KeepsOne
  <1> QED BY <1>3, <1>4, <1>5, <1>6

LEMMA LicenceInvariant == Extraction => [](CallInv /\ LicenceInv)
  <1>1. JwkInit => LicenceInv
    BY InitLicenceInv
  <1>2. ParserInv /\ CallInv /\ LicenceInv /\ [JwkNext]_<<jsmnVars, jwkVars>> => LicenceInv'
    BY NextLicenceInv
  <1> QED BY <1>1, <1>2, ExtractionInvariant, PTL DEF Extraction

-----------------------------------------------------------------------------
(* Types: what the decoder makes of any text at all.                        *)

\* An octet is put together of six and two, four and four, or two and six bits.
LEMMA OctetOfType ==
  ASSUME NEW r \in 0 .. 2, NEW x \in Sextet, NEW y \in Sextet
  PROVE  OctetOf(r, x, y) \in Octet
  <1>1. x \in 0 .. 63 /\ y \in 0 .. 63
    BY DEF Sextet
  <1>2. CASE r = 0
    <2>1. x \in 0 .. 63 /\ y \in 0 .. 63 => ((x * 4) % 256) + (y \div 16) \in 0 .. 255
      <3>1. ASSUME NEW a \in 0 .. 63, NEW c \in 0 .. 63 PROVE ((a * 4) % 256) + (c \div 16) \in 0 .. 255
        <4>1. (a * 4) % 256 = a * 4
          OBVIOUS
        <4>2. c \div 16 \in 0 .. 3
          OBVIOUS
        <4> QED BY <4>1, <4>2
      <3> QED BY <3>1
    <2>2. OctetOf(r, x, y) = ((x * 4) % 256) + (y \div 16)
      BY <1>2 DEF OctetOf
    <2> QED BY <1>1, <2>1, <2>2 DEF Octet
  <1>3. CASE r = 1
    <2>1. x % 16 \in 0 .. 15 /\ y \div 4 \in 0 .. 15
      BY <1>1
    <2>2. OctetOf(r, x, y) = (x % 16) * 16 + (y \div 4)
      BY <1>3 DEF OctetOf
    <2> QED BY <2>1, <2>2 DEF Octet
  <1>4. CASE r = 2
    <2>1. x % 4 \in 0 .. 3
      BY <1>1
    <2>2. OctetOf(r, x, y) = (x % 4) * 64 + y
      BY <1>4 DEF OctetOf
    <2> QED BY <1>1, <2>1, <2>2 DEF Octet
  <1> QED BY <1>2, <1>3, <1>4

\* The decoder reads sextets of the text only: the second one of its last octet is still there.
LEMMA OctetsType ==
  ASSUME NEW n \in Nat, NEW v \in [1 .. n -> Sextet]
  PROVE  Octets(v) \in Seq(Octet)
  <1>1. Len(v) = n /\ OctetCount(n) \in Nat
    BY DEF OctetCount
  <1>2. ASSUME NEW j \in 1 .. OctetCount(n)
        PROVE  /\ (j - 1) % 3 \in 0 .. 2
               /\ (4 * ((j - 1) \div 3)) + ((j - 1) % 3) + 1 \in 1 .. n
               /\ (4 * ((j - 1) \div 3)) + ((j - 1) % 3) + 1 + 1 \in 1 .. n
    <2>1. PICK q \in Nat, r \in 0 .. 2 : j - 1 = 3 * q + r
      <3>1. /\ (j - 1) \div 3 \in Nat /\ (j - 1) % 3 \in 0 .. 2
            /\ j - 1 = 3 * ((j - 1) \div 3) + ((j - 1) % 3)
        OBVIOUS
      <3> QED BY <3>1
    <2>2. (j - 1) \div 3 = q /\ (j - 1) % 3 = r
      BY <2>1
    <2>3. PICK p \in Nat, s \in 0 .. 3 : n = 4 * p + s
      <3>1. n \div 4 \in Nat /\ n % 4 \in 0 .. 3 /\ n = 4 * (n \div 4) + (n % 4)
        OBVIOUS
      <3> QED BY <3>1
    <2>4. n \div 4 = p /\ n % 4 = s
      BY <2>3
    <2>5. 3 * q + r + 1 <= 3 * p + (IF s = 0 THEN 0 ELSE s - 1)
      BY <1>1, <2>1, <2>4 DEF OctetCount
    <2>6. 4 * q + r + 2 <= 4 * p + s
      BY <2>1, <2>3, <2>5
    <2> QED BY <2>1, <2>2, <2>3, <2>6
  <1>3. \A j \in 1 .. OctetCount(n) :
          OctetOf((j - 1) % 3, v[(4 * ((j - 1) \div 3)) + ((j - 1) % 3) + 1],
                               v[(4 * ((j - 1) \div 3)) + ((j - 1) % 3) + 1 + 1]) \in Octet
    BY <1>2, OctetOfType
  <1>4. Octets(v) = [j \in 1 .. OctetCount(n) |->
          OctetOf((j - 1) % 3, v[(4 * ((j - 1) \div 3)) + ((j - 1) % 3) + 1],
                               v[(4 * ((j - 1) \div 3)) + ((j - 1) % 3) + 1 + 1])]
    BY <1>1 DEF Octets
  <1> QED BY <1>1, <1>3, <1>4

\* The decoder has a place to stop in every text, and every character before it is a sextet.
LEMMA SextetsBefore ==
  ASSUME NEW R, NEW g \in Seq(R)
  PROVE  /\ Decodable(g) \in Nat
         /\ [p \in 1 .. Decodable(g) |-> SextetOf(g[p])] \in [1 .. Decodable(g) -> Sextet]
  <1> DEFINE S == {n \in 0 .. Len(g) : n < Len(g) => g[n + 1] \notin Base64Set}
             d == Decodable(g)
  <1>1. Len(g) \in Nat
    OBVIOUS
  <1>2. Len(g) \in S /\ S \in SUBSET Nat
    BY <1>1
  <1>3. PICK n \in S : \A m \in S : n <= m
    BY <1>2, LeastOf
  <1>4. n \in 0 .. Len(g) /\ (n < Len(g) => g[n + 1] \notin Base64Set)
    BY <1>3
  <1>5. \A p \in 1 .. n : g[p] \in Base64Set
    <2> TAKE p \in 1 .. n
    <2>1. PICK k \in 0 .. Len(g) : k = p - 1 /\ k < Len(g) /\ p = k + 1 /\ ~(n <= k)
      BY <1>1, <1>4
    <2>2. k \notin S
      BY <1>3, <2>1
    <2> QED BY <2>1, <2>2
  <1> HIDE DEF S
  <1>6. d \in 0 .. Len(g) /\ \A p \in 1 .. d : g[p] \in Base64Set
    BY <1>4, <1>5 DEF Decodable
  <1>7. \A c \in Base64Set : SextetOf(c) \in Sextet
    BY SextetOfType
  <1> HIDE DEF d
  <1>8. \A p \in 1 .. d : SextetOf(g[p]) \in Sextet
    BY <1>6, <1>7
  <1> QED BY <1>1, <1>6, <1>8 DEF d

LEMMA DecodedType ==
  ASSUME NEW s \in Seq(Char)
  PROVE  Decoded(s) \in Seq(Octet)
  <1> DEFINE R == Char \cup {"="}
             padding == [j \in 1 .. Len(s) % 4 |-> "="]
  <1>1. Len(s) % 4 \in Nat /\ s \in Seq(R)
    OBVIOUS
  <1>2. padding \in Seq(R)
    BY <1>1
  <1>3. PICK q : q = Padded(s)
    OBVIOUS
  <1>4. q \in Seq(R)
    BY <1>1, <1>2, <1>3 DEF Padded
  <1> DEFINE T == {FixedChar(q[p]) : p \in DOMAIN q}
  <1>5. PICK g : g = FixUpURLSafe(q)
    OBVIOUS
  <1>6. g = [p \in DOMAIN q |-> FixedChar(q[p])]
    BY <1>5, Zenon DEF FixUpURLSafe, FixedChar, Underscore
  <1>7. g \in Seq(T)
    <2> HIDE DEF R
    <2>1. Len(q) \in Nat /\ DOMAIN q = 1 .. Len(q)
      BY <1>4
    <2>2. g = [p \in 1 .. Len(q) |-> FixedChar(q[p])] /\ \A p \in 1 .. Len(q) : FixedChar(q[p]) \in T
      BY <1>6, <2>1
    <2> HIDE DEF T
    <2> QED BY <2>1, <2>2
  <1> HIDE DEF T
  <1>8. Base64Decode(g) \in Seq(Octet)
    BY <1>7, SextetsBefore, OctetsType DEF Base64Decode
  <1> QED BY <1>3, <1>5, <1>8 DEF Decoded

LEMMA PartOf ==
  ASSUME NEW S, NEW q \in Seq(S), NEW a \in Nat, NEW b \in Int, a >= 1, b <= Len(q)
  PROVE  SubSeq(q, a, b) \in Seq(S)
  <1>1. Len(q) \in Nat /\ DOMAIN q = 1 .. Len(q)
    OBVIOUS
  <1>2. CASE a <= b
    <2>1. b - a + 1 \in Nat
      BY <1>2
    <2>2. \A p \in 1 .. (b - a + 1) : a + p - 1 \in 1 .. Len(q)
      BY <1>1
    <2> QED BY <1>1, <1>2, <2>1, <2>2
  <1>3. CASE ~(a <= b)
    BY <1>3
  <1> QED BY <1>2, <1>3

\* The bounds of every token that has been closed lie in the text.
LEMMA TextType ==
  ASSUME ParserInv, NEW j \in DOMAIN tokens
  PROVE  Text(tokens[j]) \in Seq(Char)
  <1>1. /\ js \in Seq(Char) /\ Len(js) \in Nat /\ pos <= Len(js) /\ pos \in Nat /\ start \in Nat
        /\ tokens[j].start \in Nat /\ tokens[j].end \in Nat \cup {-1} /\ tokens[j].end <= Scanned
        /\ Scanned \in Nat
    BY InvFacts
  <1>2. Scanned <= Len(js)
    BY <1>1 DEF Scanned, ParserInv, InsideString
  <1>3. tokens[j].start + 1 \in Nat /\ tokens[j].start + 1 >= 1 /\ tokens[j].end <= Len(js)
    BY <1>1, <1>2
  <1>4. PICK a \in Nat, b \in Int : a = tokens[j].start + 1 /\ b = tokens[j].end /\ a >= 1 /\ b <= Len(js)
    BY <1>1, <1>3
  <1>5. SubSeq(js, a, b) \in Seq(Char)
    BY <1>1, <1>4, PartOf
  <1> QED BY <1>4, <1>5 DEF Text

LEMMA ValueType ==
  ASSUME ParserInv, CallInv, kpc = "scan", i < result, NEW s \in Value
  PROVE  s \in Seq(Char)
  <1>1. js \in Seq(Char) /\ Len(js) \in Nat /\ Len(tokens) \in Nat /\ DOMAIN tokens = 1 .. Len(tokens)
    BY InvFacts
  <1>2. i \in Nat /\ result = Len(tokens)
    BY DEF CallInv
  <1>3. CASE i + 1 < result
    <2>1. i + 2 \in DOMAIN tokens
      BY <1>1, <1>2, <1>3
    <2> QED BY <1>3, <2>1, TextType DEF Value
  <1>4. CASE ~(i + 1 < result)
    <2>1. CASE s \in Elsewhere
      BY <2>1, ElsewhereAssumption
    <2>2. CASE s \notin Elsewhere
      <3>1. PICK a \in 1 .. Len(js), b \in 1 .. Len(js) : s = SubSeq(js, a, b)
        BY <1>4, <2>2 DEF Value
      <3> QED BY <1>1, <3>1, PartOf
    <2> QED BY <2>1, <2>2
  <1> QED BY <1>3, <1>4

LEMMA NextJwkType ==
  ParserInv /\ CallInv /\ JwkTypeOK /\ [JwkNext]_<<jsmnVars, jwkVars>> => JwkTypeOK'
  <1> SUFFICES ASSUME ParserInv, CallInv, JwkTypeOK, [JwkNext]_<<jsmnVars, jwkVars>>
               PROVE  JwkTypeOK'
    OBVIOUS
  <1>0. /\ keys \in Seq(OctetPair) /\ Len(keys) <= 1 /\ i \in Nat /\ i + 1 \in Nat
        /\ key \in Seq(Char) /\ keyId \in Seq(Char) /\ answer \in BOOLEAN
        /\ kpc \in {"called", "parse", "scan", "returned", "crashed"}
    BY DEF JwkTypeOK
  <1>1. CASE ScanKey
    <2>1. CASE Seen(key) /\ ReturnFalse
      BY <1>0, <2>1 DEF ReturnFalse, JwkTypeOK
    <2>2. CASE ~(Seen(key) /\ ReturnFalse)
      <3>1. key' \in Value /\ i' = i + 1 /\ UNCHANGED <<keys, keyId, kpc, answer>>
            /\ kpc = "scan" /\ i < result
        BY <1>1, <2>2 DEF ScanKey, Scan
      <3> QED BY <1>0, <3>1, ValueType DEF JwkTypeOK
    <2> QED BY <2>1, <2>2
  <1>2. CASE ScanKeyId
    <2>1. CASE Seen(keyId) /\ ReturnFalse
      BY <1>0, <2>1 DEF ReturnFalse, JwkTypeOK
    <2>2. CASE ~(Seen(keyId) /\ ReturnFalse)
      <3>1. keyId' \in Value /\ i' = i + 1 /\ UNCHANGED <<keys, key, kpc, answer>>
            /\ kpc = "scan" /\ i < result
        BY <1>2, <2>2 DEF ScanKeyId, Scan
      <3> QED BY <1>0, <3>1, ValueType DEF JwkTypeOK
    <2> QED BY <2>1, <2>2
  <1>3. CASE Install
    <2>1. /\ keys' = <<KeyPair(keyId, key)>> /\ kpc' = "returned" /\ answer' = TRUE
          /\ UNCHANGED <<i, key, keyId>>
      BY <1>3 DEF Install
    <2>2. Decoded(keyId) \in Seq(Octet) /\ Decoded(key) \in Seq(Octet)
      BY <1>0, DecodedType
    <2>3. KeyPair(keyId, key) \in OctetPair
      BY <2>2 DEF KeyPair, OctetPair
    <2>4. keys' \in Seq(OctetPair) /\ Len(keys') <= 1
      BY <2>1, <2>3
    <2> QED BY <1>0, <2>1, <2>4 DEF JwkTypeOK
  <1>4. CASE NotJson \/ CheckKeysTag \/ ScanUnwritten
    BY <1>0, <1>4 DEF NotJson, CheckKeysTag, ScanUnwritten, StartScan, ReturnFalse, Crash, JwkTypeOK
  <1>5. CASE ParseLicence \/ ScanOther
    BY <1>0, <1>5 DEF ParseLicence, ScanOther, JwkTypeOK
  <1>6. CASE UNCHANGED jwkVars
    BY <1>0, <1>6 DEF jwkVars, JwkTypeOK
  <1> QED BY <1>1, <1>2, <1>3, <1>4, <1>5, <1>6 DEF JwkNext

-----------------------------------------------------------------------------
(* The theorems.                                                            *)

\* Whatever stands behind the tags of a licence, or behind the last token, what is installed
\* is one pair of sequences of octets: the decoder stops in every text and reads nothing of
\* it that is no sextet.
THEOREM JwkTypeCorrect == Extraction => []JwkTypeOK
  <1>1. JwkInit => JwkTypeOK
    <2>1. JwkInit => /\ keys \in OldKeys /\ i = 2 /\ key = <<>> /\ keyId = <<>>
                     /\ kpc = "called" /\ answer = FALSE
      BY DEF JwkInit
    <2>2. <<>> \in Seq(Char) /\ 2 \in Nat
      OBVIOUS
    <2> QED BY <2>1, <2>2, OldKeysAssumption DEF JwkTypeOK
  <1>2. ParserInv /\ CallInv /\ JwkTypeOK /\ [JwkNext]_<<jsmnVars, jwkVars>> => JwkTypeOK'
    BY NextJwkType
  <1> QED BY <1>1, <1>2, ExtractionInvariant, PTL DEF Extraction

\* ExtractKeysFromJWKSet keeps to what jsmn asks of its callers: every behaviour of it is a
\* behaviour of the parser with a free caller.
THEOREM ExtractionIsCaller == Extraction => Parser
  <1>1. JwkInit => Init
    BY InitExtraction
  <1>2. CallInv /\ [JwkNext]_<<jsmnVars, jwkVars>> => [ParserNext]_jsmnVars
    BY StepIsParser
  <1> QED BY <1>1, <1>2, ExtractionInvariant, PTL DEF Extraction, Parser

\* No licence makes jsmn_parse write behind t[MAX_JSON_TOKENS - 1] or read behind the licence.
THEOREM LicenceFits == Extraction => []JsmnTypeOK
  <1>1. ParserInv => JsmnTypeOK
    BY DEF ParserInv
  <1> QED BY <1>1, ExtractionInvariant, PTL

\* Every token the scan compares with its tags has been written: what jsmn_parse returns is
\* the number of tokens it has stored.  (The value behind the last one need not be.)
ReadsWritten == kpc = "scan" => \A j \in i .. (result - 1) : j + 1 \in DOMAIN tokens

THEOREM ScanReadsWritten == Extraction => []ReadsWritten
  <1>1. ParserInv /\ CallInv => ReadsWritten
    <2> SUFFICES ASSUME ParserInv, CallInv, kpc = "scan", NEW j \in i .. (result - 1)
                 PROVE  j + 1 \in 1 .. Len(tokens)
      BY InvFacts DEF ReadsWritten
    <2>1. i \in Nat /\ (i < result => result = Len(tokens)) /\ result \in Int /\ Len(tokens) \in Nat
      BY InvFacts DEF CallInv, NOMEM, INVAL, PART
    <2> QED BY <2>1
  <1> QED BY <1>1, ExtractionInvariant, PTL

\* From the text to the octets: whatever else a JSON web key set with one key holds, that key
\* and its id are in g_keys after the call.
THEOREM KeyPairExtracted == Extraction => []PairExtracted
  <1>1. CallInv /\ LicenceInv => PairExtracted
    <2> SUFFICES ASSUME CallInv, LicenceInv, Done, Len(licence.pairs) = 1, Fits,
                        KeysFirst(licence), ~TagLike(licence), ~Stray(licence)
                 PROVE  Accepted(licence.pairs[1])
      BY DEF PairExtracted
    <2>1. PICK l \in Licences : l = licence
      BY DEF CallInv
    <2>2. l.toks # <<>> /\ \E n, m \in DOMAIN l.toks : Single(l, n, m)
      BY <2>1, OneSingle
    <2>3. OneInv(l)
      BY <2>1, <2>2 DEF LicenceInv
    <2>4. kpc \notin {"called", "parse", "scan"}
      BY DEF Done
    <2> QED BY <2>1, <2>2, <2>3, <2>4 DEF OneInv, Fits
  <1> QED BY <1>1, LicenceInvariant, PTL

\* A set of several keys without values spelled like tags, and one of too many tokens, never
\* gets as far as g_keys.
THEOREM OneKeyOrNoneInstalled == Extraction => []OneKeyOrNone
  <1>1. CallInv /\ LicenceInv => OneKeyOrNone
    <2> SUFFICES ASSUME CallInv, LicenceInv, Done,
                        (Several(licence) /\ ~TagLike(licence)) \/ ~Fits
                 PROVE  Refused
      BY DEF OneKeyOrNone
    <2>1. PICK l \in Licences : l = licence
      BY DEF CallInv
    <2>2. kpc \notin {"called", "parse", "scan"}
      BY DEF Done
    <2>3. CASE Several(l) /\ ~TagLike(l)
      <3>1. /\ l.toks # <<>>
            /\ \E t, u \in DOMAIN l.toks : Twice(l, t, u, kKeyTag) \/ Twice(l, t, u, kKeyIdTag)
        BY <2>3, SeveralTwice
      <3>2. ManyInv(l)
        BY <2>1, <3>1 DEF LicenceInv
      <3> QED BY <2>2, <2>3, <3>1, <3>2 DEF ManyInv
    <2>4. CASE ~(Len(l.toks) <= MaxTokens)
      <3>1. l.toks # <<>>
        <4> SUFFICES ASSUME l.toks = <<>> PROVE FALSE
          OBVIOUS
        <4>1. Len(l.toks) = 0
          OBVIOUS
        <4> QED BY <2>4, <4>1, MaxTokensAssumption
      <3>2. Len(l.toks) > MaxTokens
        BY <2>4, <3>1, LicenceText, MaxTokensAssumption
      <3>3. ManyInv(l)
        BY <2>1, <3>1 DEF LicenceInv
      <3> QED BY <2>2, <3>2, <3>3 DEF ManyInv
    <2> QED BY <2>1, <2>3, <2>4 DEF Fits
  <1> QED BY <1>1, LicenceInvariant, PTL

=============================================================================

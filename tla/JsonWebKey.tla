----------------------------- MODULE JsonWebKey -----------------------------
(***************************************************************************)
(* ExtractKeysFromJWKSet of json_web_key.cpp: the service's caller of the   *)
(* tokenizer.  A licence is parsed once, its tokens are scanned for the     *)
(* tags "k" and "kid" wherever they stand, and the two texts behind them    *)
(* replace the keys of the CDM (g_keys of mediakeysession.cpp).             *)
(*                                                                         *)
(* A word of a licence that is only compared as a whole is one character.   *)
(***************************************************************************)
EXTENDS JsonText, Base64

CONSTANTS
  MaxTokens,   \* MAX_JSON_TOKENS
  Licences,    \* records [text, toks, pairs]: a licence, its tokens and the key pairs in it
  OldKeys,     \* what an earlier licence may have left in g_keys
  Elsewhere    \* texts in the memory of the process outside of the licence

kKeysTag == <<"keys">>
kAlgTag == <<"a", "l", "g">>
kKeyTag == <<"k">>
kKeyIdTag == <<"k", "i", "d">>

-----------------------------------------------------------------------------
(* What a licence means, without a scan of its tokens.                      *)

OctetPair == [id : Seq(Octet), key : Seq(Octet)]

Spelling(l, t) == SubSeq(l.text, l.toks[t].start + 1, l.toks[t].end)
Spells(l, t, s) == l.toks[t].type = "string" /\ Spelling(l, t) = s
Over(l, t) == Parent(l.text, l.toks, t)

\* Token t is a member of the set: a key object in the array behind the name "keys".
IsKeyObject(l, t) ==
  \E a \in 2 .. Len(l.toks) :
    /\ l.toks[1].type = "object" /\ Over(l, a - 1) = 1 /\ Spells(l, a - 1, kKeysTag)
    /\ Over(l, a) = a - 1 /\ l.toks[a].type = "array"
    /\ Over(l, t) = a /\ l.toks[t].type = "object"

\* Object o has one member of that name, and its value is string s.
HasMember(l, o, name, s) ==
  \E t \in DOMAIN l.toks :
    /\ {n \in DOMAIN l.toks : Over(l, n) = o /\ Spells(l, n, name)} = {t}
    /\ t + 1 \in DOMAIN l.toks /\ Over(l, t + 1) = t /\ Spells(l, t + 1, s)

\* The text is a set of the keys pairs, in their order.
IsKeySet(l) ==
  \E o \in [DOMAIN l.pairs -> DOMAIN l.toks] :
    /\ {t \in DOMAIN l.toks : IsKeyObject(l, t)} = {o[m] : m \in DOMAIN l.pairs}
    /\ \A m, n \in DOMAIN l.pairs : m < n => o[m] < o[n]
    /\ \A m \in DOMAIN l.pairs :
         /\ HasMember(l, o[m], kKeyTag, Base64UrlEncode(l.pairs[m].key))
         /\ HasMember(l, o[m], kKeyIdTag, Base64UrlEncode(l.pairs[m].id))

ASSUME MaxTokensAssumption == MaxTokens \in Nat \ {0}
ASSUME LicencesAssumption ==
  \A l \in Licences :
    /\ l.text \in Seq(Char) /\ l.pairs \in Seq(OctetPair)
    /\ l.toks # <<>> => Tokenized(l.text, l.toks)
    /\ l.pairs # <<>> => l.toks # <<>> /\ IsKeySet(l)
ASSUME OldKeysAssumption == \A k \in OldKeys : k \in Seq(OctetPair) /\ Len(k) <= 1
ASSUME ElsewhereAssumption == Elsewhere \subseteq Seq(Char)

VARIABLES
  licence,   \* the argument of the call
  oldKeys,   \* history: g_keys when the call was made
  keys,      \* g_keys: at most one pair of octet sequences
  i,         \* the token the scan has come to, counted from 0 as in the code
  key, keyId,
  kpc,       \* "called", "parse", "scan", then "returned" or "crashed"
  answer     \* what the call returned

jwkVars == <<licence, oldKeys, keys, i, key, keyId, kpc, answer>>

JwkInit ==
  /\ Init /\ ~strict
  /\ licence \in Licences
  /\ keys \in OldKeys /\ oldKeys = keys
  /\ i = 2 /\ key = <<>> /\ keyId = <<>>
  /\ kpc = "called" /\ answer = FALSE

Text(t) == SubSeq(js, t.start + 1, t.end)

\* jsoneq
IsTag(t, tag) == t.type = "string" /\ Text(t) = tag

ReturnFalseCleared ==
  /\ kpc' = "returned" /\ answer' = FALSE
  /\ keys' = <<>>
  /\ UNCHANGED <<licence, oldKeys, i, key, keyId, jsmnVars>>
\* What was extracted so far is dropped with the locals.
ReturnFalse ==
  /\ kpc' = "returned" /\ answer' = FALSE
  /\ UNCHANGED <<licence, oldKeys, keys, i, key, keyId, jsmnVars>>

\* An access through a token that jsmn_parse has not written may end the process.
Crash ==
  /\ kpc' = "crashed"
  /\ UNCHANGED <<licence, oldKeys, keys, i, key, keyId, answer, jsmnVars>>

-----------------------------------------------------------------------------
ParseLicence ==
  /\ kpc = "called"
  /\ js' = licence.text
  /\ InitParser /\ Call(MaxTokens, TRUE)
  /\ kpc' = "parse"
  /\ UNCHANGED <<licence, oldKeys, keys, i, key, keyId, answer>>

Parsed == kpc = "parse" /\ pc = "idle"

NotJson == Parsed /\ result < 0 /\ ReturnFalse

StartScan ==
  /\ kpc' = "scan"
  /\ UNCHANGED <<licence, oldKeys, keys, i, key, keyId, answer, jsmnVars>>

\* t[1] is read whether or not there is a second token.
CheckKeysTag ==
  /\ Parsed /\ result >= 0
  /\ IF result >= 2
     THEN IF IsTag(tokens[2], kKeysTag) THEN StartScan ELSE ReturnFalse
     ELSE StartScan \/ ReturnFalse \/ Crash

Scan == kpc = "scan" /\ i < result

TaggedEarly(tag) == IsTag(tokens[i + 1], tag) /\ i + 2 < MaxTokens
\* Tag i of the licence, unless the value behind it would be out of the array.
Tagged(tag) == IsTag(tokens[i + 1], tag) /\ i + 1 < MaxTokens

\* The text of token i + 1; behind the last token that of any token left on the stack, whose
\* offsets may lie outside of the licence.
Value == IF i + 1 < result THEN {Text(tokens[i + 2])}
         ELSE {SubSeq(js, a, b) : a, b \in 1 .. Len(js)} \cup Elsewhere

\* Building the string of a token left on the stack may fail.
ScanUnwritten ==
  /\ Scan /\ i + 1 >= result
  /\ Tagged(kAlgTag) \/ Tagged(kKeyTag) \/ Tagged(kKeyIdTag)
  /\ Crash

SeenNot(s) == FALSE
\* A tag has been met before.  An empty text does not count.
Seen(s) == s # <<>>

ScanKey ==
  /\ Scan /\ Tagged(kKeyTag)
  /\ \/ Seen(key) /\ ReturnFalse
     \/ /\ ~Seen(key)
        /\ key' \in Value
        /\ i' = i + 1
        /\ UNCHANGED <<licence, oldKeys, keys, keyId, kpc, answer, jsmnVars>>

ScanKeyId ==
  /\ Scan /\ Tagged(kKeyIdTag)
  /\ \/ Seen(keyId) /\ ReturnFalse
     \/ /\ ~Seen(keyId)
        /\ keyId' \in Value
        /\ i' = i + 1
        /\ UNCHANGED <<licence, oldKeys, keys, key, kpc, answer, jsmnVars>>

\* The algorithm is stored and not used.
ScanOther ==
  /\ Scan /\ ~Tagged(kKeyTag) /\ ~Tagged(kKeyIdTag)
  /\ i' = i + 1
  /\ UNCHANGED <<licence, oldKeys, keys, key, keyId, kpc, answer, jsmnVars>>

\* convertStringsToKeyPair; base64_decode does not come to the padding.
Padded(s) == s \o [j \in 1 .. Len(s) % 4 |-> "="]
Decoded(s) == Base64Decode(FixUpURLSafe(Padded(s)))
KeyPair(id, k) == [id |-> Decoded(id), key |-> Decoded(k)]

InstallAppended ==
  /\ kpc = "scan" /\ i >= result
  /\ keys' = Append(keys, KeyPair(keyId, key))
  /\ kpc' = "returned" /\ answer' = TRUE
  /\ UNCHANGED <<licence, oldKeys, i, key, keyId, jsmnVars>>
\* What was in keys goes with local_keys.
Install ==
  /\ kpc = "scan" /\ i >= result
  /\ keys' = <<KeyPair(keyId, key)>>
  /\ kpc' = "returned" /\ answer' = TRUE
  /\ UNCHANGED <<licence, oldKeys, i, key, keyId, jsmnVars>>

JwkNext ==
  \/ ParseLicence \/ NotJson \/ CheckKeysTag
  \/ ScanUnwritten \/ ScanKey \/ ScanKeyId \/ ScanOther \/ Install
  \/ kpc = "parse" /\ ParseStep /\ UNCHANGED jwkVars

\* One call of ExtractKeysFromJWKSet.
Extraction == JwkInit /\ [][JwkNext]_<<jsmnVars, jwkVars>>

-----------------------------------------------------------------------------
(* Properties.                                                              *)

\* Type invariant of the extraction: whatever text stands behind the tags, what is decoded and
\* installed is one pair of sequences of octets.
JwkTypeOK ==
  /\ keys \in Seq(OctetPair) /\ Len(keys) <= 1
  /\ i \in Nat /\ key \in Seq(Char) /\ keyId \in Seq(Char)
  /\ kpc \in {"called", "parse", "scan", "returned", "crashed"}
  /\ answer \in BOOLEAN

Done == kpc \in {"returned", "crashed"}
Fits == Len(licence.toks) <= MaxTokens
Accepted(pair) == kpc = "returned" /\ answer /\ keys = <<pair>>
Refused == kpc = "returned" /\ ~answer /\ keys = oldKeys

\* The first member of the set is the one called keys.
KeysFirst(l) == Spells(l, 2, kKeysTag)

\* A value is spelled like a tag, and is taken for one by the scan.
TagLike(l) ==
  \E t \in DOMAIN l.toks :
    /\ t > 2 /\ l.toks[t].type = "string" /\ l.toks[t].size = 0
    /\ Spelling(l, t) \in {kKeyTag, kKeyIdTag, kAlgTag}

\* What has the name of a key or an id is no member of a key object.
Stray(l) ==
  \E t \in DOMAIN l.toks :
    /\ t > 2 /\ ~IsKeyObject(l, Over(l, t))
    /\ Spells(l, t, kKeyTag) \/ Spells(l, t, kKeyIdTag)

\* There are several keys, not all but the last of them empty.
Several(l) == \E m \in 1 .. (Len(l.pairs) - 1) : l.pairs[m].key # <<>> \/ l.pairs[m].id # <<>>

\* From the text to the octets: a JSON web key set with one key is accepted and installs
\* exactly the id and key that were encoded in it, whatever the order of its members, the
\* other members, the white space, the length of the key and the keys that were there, up to
\* the last token of the array; unless another member comes before the keys, or a text
\* elsewhere is spelled like a tag.
PairExtracted ==
  Done /\ Len(licence.pairs) = 1 /\ Fits
    /\ KeysFirst(licence) /\ ~TagLike(licence) /\ ~Stray(licence)
    => Accepted(licence.pairs[1])

\* A set with several keys, not all but the last of them empty, in which no value is spelled
\* like a tag, or a text that needs more tokens than there are, is refused without reading
\* behind the tokens and leaves the keys exactly as they were before the call ("CDMI supports
\* only one key in JSON message", json_web_key.cpp:187): no pair mixes two keys of a set.
OneKeyOrNone ==
  Done /\ ((Several(licence) /\ ~TagLike(licence)) \/ ~Fits) => Refused

\* The comment on ExtractKeysFromJWKSet (json_web_key.h:42-44): "If |input| looks like a valid
\* JWK Set, then true is returned and |keys| and |session_type| are updated to contain the
\* values found."
ValidSetAccepted ==
  Done /\ Len(licence.pairs) = 1 /\ Fits => Accepted(licence.pairs[1])

=============================================================================

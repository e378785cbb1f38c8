------------------------------- MODULE MCJson -------------------------------
(***************************************************************************)
(* The three callers of the tokenizer for TLC: each behaviour is a run of   *)
(* one of them.  JSON texts are built as values, so that their tokens are   *)
(* known without the tokenizer.                                             *)
(***************************************************************************)
EXTENDS JsmnDump, JsonWebKey, SequencesExt

Words == {"keys", "kty", "oct", "ext", "type", "temporary"}
Alphabet ==
  Delimiter \cup Escaped \cup {"{", "[", "1", "=", "-", "_", "ctl", NUL}
    \cup ToSet(Base64Chars) \cup Words

-----------------------------------------------------------------------------
(* JSON values: a text, and its tokens with offsets from its own start.     *)

Tok(type, s, e, size) == [type |-> type, start |-> s, end |-> e, size |-> size]
Moved(toks, d) == [t \in DOMAIN toks |-> [toks[t] EXCEPT !.start = @ + d, !.end = @ + d]]
Prim(s) == [text |-> s, toks |-> <<Tok("primitive", 0, Len(s), 0)>>]
Str(s) == [text |-> <<"\"">> \o s \o <<"\"">>, toks |-> <<Tok("string", 1, Len(s) + 1, 0)>>]
None == [text |-> <<>>, toks |-> <<>>]
Joined(a, sep, b) ==
  [text |-> a.text \o sep \o b.text, toks |-> a.toks \o Moved(b.toks, Len(a.text) + Len(sep))]
Listed(vals) ==
  IF vals = <<>> THEN None
  ELSE FoldLeft(LAMBDA a, b : Joined(a, <<",">>, b), Head(vals), Tail(vals))
Bracketed(type, open, inner, close, size) ==
  [text |-> <<open>> \o inner.text \o <<close>>,
   toks |-> <<Tok(type, 0, Len(inner.text) + 2, size)>> \o Moved(inner.toks, 1)]
Arr(vals) == Bracketed("array", "[", Listed(vals), "]", Len(vals))
\* The value of a member counts as a child of its name, the name as one of the object.
Member(name, val) ==
  Joined([text |-> Str(name).text, toks |-> <<Tok("string", 1, Len(name) + 1, 1)>>], <<":">>, val)
Obj(members) == Bracketed("object", "{", Listed(members), "}", Len(members))
Spaced(v) == Joined(Joined(None, <<" ">>, v), <<" ">>, None)

-----------------------------------------------------------------------------
(* Documents for jsondump and the counting test.                            *)

Leaves == {Prim(<<"1">>), Prim(<<"1", "1">>), Str(<<>>), Str(<<"b">>)}
Level1 ==
  {Arr(<<>>), Obj(<<>>)} \cup {Arr(<<v>>) : v \in Leaves} \cup {Obj(<<Member(<<"b">>, v)>>) : v \in Leaves}
Small == {Prim(<<"1", "1">>), Str(<<"b">>), Arr(<<>>)}
Level2 ==
  {Arr(<<v, w>>) : v \in Level1, w \in Small} \cup {Arr(<<w, v>>) : v \in Level1, w \in Small}
  \cup {Obj(<<Member(<<"b">>, v), Member(<<"f">>, w)>>) : v \in Level1, w \in Small}
  \cup {Obj(<<Member(<<>>, Arr(<<v>>))>>) : v \in Level1}
Escapes ==
  {Str(<<"\\", "\"">>), Str(<<"\\", "\\", "b">>), Str(<<"\\", "u", "1", "b", "1", "b">>),
   Arr(<<Str(<<"\\", "/">>), Str(<<"\\", "u", "1", "1", "1", "1", "1">>)>>)}
Deep ==
  {Arr(<<Obj(<<Member(<<"b">>, Arr(<<Obj(<<>>), Prim(<<"1">>)>>)), Member(<<>>, Prim(<<"1", "1">>))>>),
         Str(<<"b">>)>>)}
Json ==
  LET all == Leaves \cup Level1 \cup Level2 \cup Escapes \cup Deep
  IN all \cup {Spaced(v) : v \in all}

\* Texts of any kind: all short ones, longer ones of brackets and separators, escapes.
Raw(s) == [text |-> s, toks |-> <<>>]
Symbols == Delimiter \cup {"{", "[", "\"", "\\", "u", "1", "ctl", NUL}
Brackets == {"{", "}", "[", "]", ",", ":", "\"", "1"}
AnyText ==
  {Raw(s) : s \in BoundedSeq(Symbols, 3) \cup BoundedSeq(Brackets, 4)}
  \cup {Raw(<<"\"", "\\">> \o s) : s \in BoundedSeq({"u", "1", " ", "\"", NUL, "\\"}, 3)}

AllDocuments == Json \cup AnyText

-----------------------------------------------------------------------------
(* Licences.                                                                *)

Lic(v, pairs) == [text |-> v.text, toks |-> v.toks, pairs |-> pairs]
KeyName(p) == Member(kKeyTag, Str(Base64UrlEncode(p.key)))
IdName(p) == Member(kKeyIdTag, Str(Base64UrlEncode(p.id)))
Alg == Member(kAlgTag, Str(<<"oct">>))
Kty == Member(<<"kty">>, Str(<<"oct">>))
Ext == Member(<<"ext">>, Arr(<<Str(<<"oct">>)>>))
SessionType == Member(<<"type">>, Str(<<"temporary">>))
Set(objects) == Member(<<"keys">>, Arr(objects))

Pair(n, k) == [id |-> n, key |-> k]
Octets16 == [j \in 1 .. 16 |-> (17 * j) % 256]
Pairs ==
  {Pair(<<7>>, k) : k \in {<<>>, <<255>>, <<251, 255>>, <<251, 255, 191>>, Octets16}}
    \cup {Pair(<<1, 2>>, <<0, 16, 131, 16>>)}

Orders(p) ==
  {<<KeyName(p), IdName(p)>>, <<IdName(p), KeyName(p)>>,
   <<Kty, IdName(p), Alg, KeyName(p)>>, <<KeyName(p), Ext, Alg, IdName(p)>>}
OneKey ==
  UNION {{Lic(v, <<p>>) : v \in UNION {{Obj(<<Set(<<Obj(o)>>)>>), Spaced(Obj(<<Set(<<Obj(o)>>)>>)),
                                       Obj(<<Set(<<Obj(o)>>), SessionType>>), Obj(<<SessionType, Set(<<Obj(o)>>)>>)}
                                      : o \in Orders(p)}} : p \in Pairs}
\* An id that reads "alg" in base64, and members of another meaning with a tag for their
\* value or their name.
AlgPair == Pair(Base64Decode(kAlgTag), <<1>>)
TagValues ==
  {Lic(Obj(<<Set(<<Obj(o)>>)>>), <<AlgPair>>) :
     o \in {<<IdName(AlgPair), KeyName(AlgPair)>>, <<KeyName(AlgPair), IdName(AlgPair)>>,
            <<Member(<<"ext">>, Str(<<"k">>)), IdName(AlgPair), KeyName(AlgPair)>>}}
    \cup {Lic(Obj(<<Set(<<Obj(<<IdName(AlgPair), KeyName(AlgPair)>>)>>), Member(name, Str(<<"oct">>))>>),
               <<AlgPair>>) : name \in {kKeyTag, kAlgTag}}
TwoKeys ==
  LET p == Pair(<<7>>, <<251, 255>>)
      q == Pair(<<1, 2>>, <<9>>)
      first == {<<KeyName(p), IdName(p)>>, <<IdName(p), KeyName(p)>>}
      second == {<<KeyName(q), IdName(q)>>, <<IdName(q), KeyName(q)>>}
      none == Pair(<<>>, <<>>)
  IN {Lic(Obj(<<Set(<<Obj(a), Obj(b)>>)>>), <<p, q>>) : a \in first, b \in second}
       \cup {Lic(Obj(<<Set(<<Obj(<<KeyName(r), IdName(r)>>), Obj(<<KeyName(q), IdName(q)>>)>>)>>), <<r, q>>) :
              r \in {none, Pair(<<7>>, <<>>), Pair(<<>>, <<7>>)}}
\* Texts that are no key set, some of which end with a tag.
NoKey ==
  {Lic(v, <<>>) :
     v \in {None, Obj(<<>>), Arr(<<>>), Obj(<<Set(<<>>)>>), Arr(<<Str(<<"keys">>)>>), Str(<<"keys">>),
            Obj(<<Set(<<Str(kKeyTag)>>)>>), Obj(<<Set(<<Str(kAlgTag)>>)>>),
            Obj(<<Set(<<Obj(<<Member(kKeyTag, Arr(<<Str(kKeyIdTag)>>))>>)>>)>>),
            Raw(<<"{", "\"", "keys">>), Raw(<<"]">>)}}

AllLicences == OneKey \cup TwoKeys \cup TagValues \cup NoKey
SomeOldKeys == {<<>>, <<Pair(<<5>>, <<6>>)>>}
OtherTexts == {<<>>, <<"ctl", "1">>}

-----------------------------------------------------------------------------
CallersUnused ==
  /\ program = "none" /\ doc = Raw(<<>>) /\ bufsiz = 1 /\ rest = <<>>
  /\ step = "exit" /\ eofExpected = FALSE /\ exit = 0 /\ WalkInit

JwkUnused ==
  /\ licence = Lic(None, <<>>) /\ keys = <<>> /\ oldKeys = <<>> /\ i = 0
  /\ key = <<>> /\ keyId = <<>> /\ kpc = "returned" /\ answer = FALSE

MCInit ==
  \/ DumpInit /\ JwkUnused
  \/ JwkInit /\ CallersUnused

MCNext ==
  \/ DumpNext /\ UNCHANGED jwkVars
  \/ JwkNext /\ UNCHANGED <<callerVars, walkVars>>

vars == <<jsmnVars, callerVars, walkVars, jwkVars>>

Spec == MCInit /\ [][MCNext]_vars /\ WF_vars(MCNext)

\* Every program ends, whatever it is given: each call of jsmn_parse returns, doubling the
\* tokens comes to an end, and so do the walk over them and the scan of a licence.
ProgramsEnd == <>((step = "exit" \/ Crashed) /\ kpc \in {"returned", "crashed"})
=============================================================================

------------------------------- MODULE Base64 -------------------------------
(***************************************************************************)
(* base64_decode of json_web_key.cpp, and the encoding of RFC 4648 that     *)
(* licence servers use, without padding.  Characters stand for sextets      *)
(* (six bits), sextets for octets.                                          *)
(***************************************************************************)
EXTENDS Integers, Sequences

Octet == 0 .. 255
Sextet == 0 .. 63

\* base64_chars
Base64Chars ==
  <<"A", "B", "C", "D", "E", "F", "G", "H", "I", "J", "K", "L", "M",
    "N", "O", "P", "Q", "R", "S", "T", "U", "V", "W", "X", "Y", "Z",
    "a", "b", "c", "d", "e", "f", "g", "h", "i", "j", "k", "l", "m",
    "n", "o", "p", "q", "r", "s", "t", "u", "v", "w", "x", "y", "z",
    "0", "1", "2", "3", "4", "5", "6", "7", "8", "9", "+", "/">>

Base64Set == {Base64Chars[i] : i \in DOMAIN Base64Chars}
SextetOf(c) == (CHOOSE i \in DOMAIN Base64Chars : Base64Chars[i] = c) - 1

\* fixUpURLSafeBase64
FixUpURLSafe(s) ==
  [i \in DOMAIN s |-> IF s[i] = "_" THEN "/" ELSE IF s[i] = "-" THEN "+" ELSE s[i]]

\* The decoder stops at the first character that is none of the 64.
Decodable(s) ==
  CHOOSE n \in 0 .. Len(s) :
    /\ \A i \in 1 .. n : s[i] \in Base64Set
    /\ n < Len(s) => s[n + 1] \notin Base64Set

\* Four sextets make three octets, a rest of n sextets makes n - 1.
OctetCount(n) == 3 * (n \div 4) + (IF n % 4 = 0 THEN 0 ELSE (n % 4) - 1)

\* char_array_3[r] of one group, from the two sextets it lies in.
OctetOf(r, high, low) ==
  CASE r = 0 -> ((high * 4) % 256) + (low \div 16)
    [] r = 1 -> (high % 16) * 16 + (low \div 4)
    [] r = 2 -> (high % 4) * 64 + low

Octets(v) ==
  [j \in 1 .. OctetCount(Len(v)) |->
     LET r == (j - 1) % 3
         i == 4 * ((j - 1) \div 3) + r + 1
     IN OctetOf(r, v[i], v[i + 1])]

Base64Decode(s) == Octets([i \in 1 .. Decodable(s) |-> SextetOf(s[i])])

-----------------------------------------------------------------------------
(* The encoder at the other end.                                            *)

SextetCount(m) == 4 * (m \div 3) + (IF m % 3 = 0 THEN 0 ELSE (m % 3) + 1)

OctetOrZero(b, j) == IF j \in DOMAIN b THEN b[j] ELSE 0

\* Sextet r of one group: the low bits of one octet and the high bits of the next.
SextetFrom(r, before, after) ==
  CASE r = 0 -> after \div 4
    [] r = 1 -> (before % 4) * 16 + (after \div 16)
    [] r = 2 -> (before % 16) * 4 + (after \div 64)
    [] r = 3 -> before % 64

Sextets(b) ==
  [i \in 1 .. SextetCount(Len(b)) |->
     LET r == (i - 1) % 4
         j == 3 * ((i - 1) \div 4) + r
     IN SextetFrom(r, OctetOrZero(b, j), OctetOrZero(b, j + 1))]

\* With the URL safe alphabet.
Base64UrlEncode(b) ==
  LET s == Sextets(b)
  IN [i \in DOMAIN s |-> CASE s[i] = 62 -> "-" [] s[i] = 63 -> "_" [] OTHER -> Base64Chars[s[i] + 1]]

=============================================================================

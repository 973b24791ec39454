---------------------------- MODULE Placeholders ----------------------------
(***************************************************************************)
(* Placeholders inside text (sanitizer/placeholder.go, restoreInText of    *)
(* restore.go).  A text is a sequence of characters; a placeholder is      *)
(* Prefix, Width characters of Hex (the token), Suffix.  The code's are    *)
(* "<<__EVERYAPI_SECRET_", 32 digits and "__>>"; what matters of them is   *)
(* that Prefix begins with a repeated character but ends with nothing it   *)
(* begins with, and that no character of Prefix or Suffix is a digit nor   *)
(* one of Suffix what Prefix begins with.                                  *)
(***************************************************************************)
EXTENDS Texts

CONSTANTS
  Char,     \* the characters of a text
  Hex,      \* those of a token
  Prefix,   \* PlaceholderPrefix
  Suffix,   \* PlaceholderSuffix
  Width,    \* placeholderTokenLen
  SecretOf  \* the secret of each token the table knows, a text

Text == Seq(Char)

ASSUME PlaceholderAssumption ==
  /\ Hex \subseteq Char
  /\ Width \in Nat \ {0}
  /\ Prefix \in Seq(Char \ Hex) /\ Len(Prefix) > 0
  /\ \A d \in 1..Len(Prefix) - 1 : \E k \in 1..Len(Prefix) - d : Prefix[d + k] # Prefix[k]
  /\ Suffix \in Seq(Char \ (Hex \cup {Prefix[1]})) /\ Len(Suffix) > 0
  /\ \A t \in DOMAIN SecretOf : t \in Seq(Hex) /\ Len(t) = Width /\ SecretOf[t] \in Text

Full == Len(Prefix) + Width + Len(Suffix)

\* Do the characters of s after position i begin with p, as far as they go or in full?
At(s, i, p) == i + Len(p) <= Len(s) /\ \A k \in 1..Len(p) : s[i + k] = p[k]

AllHex(s, i, j) == \A k \in i..j : s[k] \in Hex

\* A complete placeholder stands after position i.
PlaceholderAt(s, i) ==
  /\ At(s, i, Prefix)
  /\ i + Full <= Len(s)
  /\ AllHex(s, i + Len(Prefix) + 1, i + Len(Prefix) + Width)
  /\ At(s, i + Len(Prefix) + Width, Suffix)

TokenAt(s, i) == SubSeq(s, i + Len(Prefix) + 1, i + Len(Prefix) + Width)

\* The secret if the table knows the token, else the placeholder as it is.
Resolved(s, i) ==
  IF TokenAt(s, i) \in DOMAIN SecretOf THEN SecretOf[TokenAt(s, i)]
                                       ELSE SubSeq(s, i + 1, i + Full)

\* The part of s after each position with every complete placeholder resolved, left
\* to right.
RestoredFrom(s) ==
  LET from[i \in 0..Len(s)] ==
        IF i = Len(s) THEN << >>
        ELSE IF PlaceholderAt(s, i) THEN Resolved(s, i) \o from[i + Full]
        ELSE <<s[i + 1]>> \o from[i + 1]
  IN  from

RestoreInText(s) == RestoredFrom(s)[0]

-----------------------------------------------------------------------------
(* What a restored text may be cut into and still be read as it is: the     *)
(* default-on detectors find no other secrets (each has a character, or a   *)
(* run of them, that no placeholder has, and ends with none of its own).    *)

\* What may stand at the k-th place of a placeholder.
Allowed(k) ==
  IF k <= Len(Prefix) THEN {Prefix[k]}
  ELSE IF k <= Len(Prefix) + Width THEN Hex
  ELSE {Suffix[k - Len(Prefix) - Width]}

\* Are the n characters of s after position i those of a placeholder after its d-th?
Fits(s, i, d, n) == \A k \in 1..n : s[i + k] \in Allowed(d + k)

\* No secret ends with the beginning of a placeholder, and none can be a piece of one.
SecretsApart ==
  \A t \in DOMAIN SecretOf :
    LET length == Len(SecretOf[t])
    IN  /\ \A n \in 1..length : n < Full => ~Fits(SecretOf[t], length - n, 0, n)
        /\ \A d \in 0..Full : d + length <= Full => ~Fits(SecretOf[t], 0, d, length)

-----------------------------------------------------------------------------
(* PartialAtTail: how much of the end of a text may still become a         *)
(* placeholder.  Nowhere stands for the code's -1.                         *)

Nowhere(s) == Len(s)

\* Case 1: the tails that are a proper prefix of Prefix.
OpeningTails(s) ==
  {i \in 0..Len(s) - 1 : /\ Len(s) - i < Len(Prefix)
                         /\ At(Prefix, 0, SubSeq(s, i + 1, Len(s)))}

\* Case 2: the last Prefix, and whether what follows it is a token on its way,
\* or a token and a suffix on its way.
Openings(s) == {i \in 0..Len(s) : At(s, i, Prefix)}

Unfinished(s, i) ==
  LET body == i + Len(Prefix)
      rest == body + Width
  IN  \/ Len(s) < rest /\ AllHex(s, body + 1, Len(s))
      \/ /\ Len(s) >= rest /\ Len(s) < rest + Len(Suffix)
         /\ AllHex(s, body + 1, rest)
         /\ At(Suffix, 0, SubSeq(s, rest + 1, Len(s)))

\* Faulty: the shortest opening tail is held, not the longest.
FaultyPartialAtTail(s) ==
  IF OpeningTails(s) # {} THEN Greatest(OpeningTails(s))
  ELSE IF Openings(s) # {} /\ Unfinished(s, Greatest(Openings(s))) THEN Greatest(Openings(s))
  ELSE Nowhere(s)

\* The position after which s is to be held back.
PartialAtTail(s) ==
  IF OpeningTails(s) # {} THEN Least(OpeningTails(s))
  ELSE IF Openings(s) # {} /\ Unfinished(s, Greatest(Openings(s))) THEN Greatest(Openings(s))
  ELSE Nowhere(s)

=============================================================================

---------------------------- MODULE FormatNames ----------------------------
(***************************************************************************)
(* Format names and the keys a decoder claims.                             *)
(*                                                                         *)
(* A format name or file extension as a caller writes it is abstracted to  *)
(* what normalizeFormat tells apart: its letters, how many dots it starts  *)
(* with, whether some letter is upper case, and whether white space        *)
(* surrounds it.  ("  .YAML " is one dot, upper, padded, word yaml.)       *)
(***************************************************************************)
EXTENDS Naturals

CONSTANTS
    Decoder,       \* the decoders an application may register
    NoDecoder,     \* a nil Decoder
    Word,          \* the words a format name is made of
    NoWord,        \* the empty word, as in "" or "."
    FormatOf,      \* Decoder.Format()
    ExtensionsOf   \* Decoder.Extensions()

Name == [word : Word \cup {NoWord}, dots : Nat, upper : BOOLEAN, padded : BOOLEAN]

\* The empty string: what an empty Format() returns.
EmptyName == [word |-> NoWord, dots |-> 0, upper |-> FALSE, padded |-> FALSE]

ASSUME DecoderAssumption ==
    /\ NoDecoder \notin Decoder
    /\ FormatOf \in [Decoder -> Name]
    /\ ExtensionsOf \in [Decoder -> SUBSET Name]

\* Trim the white space, lower the case, drop ONE leading dot.
normalizeFormat(n) ==
    [n EXCEPT !.padded = FALSE,
              !.upper = FALSE,
              !.dots = IF @ = 0 THEN 0 ELSE @ - 1]

\* The canonical name of a decoder, which Formats() lists.
Canonical(d) == normalizeFormat(FormatOf[d])

\* Every key a decoder claims: its format and each of its extensions.
Keys(d) == {Canonical(d)} \cup {normalizeFormat(e) : e \in ExtensionsOf[d]}

\* The first check of Register: neither nil nor without a format.
Usable(d) == d # NoDecoder /\ d \in Decoder /\ FormatOf[d] # EmptyName

\* decoderMatchesKey compares each raw name before it normalises it.
decoderMatchesKey(d, key) ==
    \E n \in {FormatOf[d]} \cup ExtensionsOf[d] : n = key \/ normalizeFormat(n) = key
=============================================================================

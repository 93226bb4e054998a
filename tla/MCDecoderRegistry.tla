------------------------- MODULE MCDecoderRegistry -------------------------
(***************************************************************************)
(* A small registry: two decoders that claim a key in common ("yml"), one  *)
(* of them written with dots and capitals, one decoder of its own, and one *)
(* without a format.                                                       *)
(***************************************************************************)
EXTENDS DecoderRegistry

CONSTANTS yaml, other, json, blank, p1, p2, yml, js

MCDecoder == {yaml, other, json, blank}
MCWord == {yml, js, yaml, other}

plain(w) == [word |-> w, dots |-> 0, upper |-> FALSE, padded |-> FALSE]

MCFormatOf ==
    [d \in MCDecoder |->
       CASE d = yaml -> [plain(yaml) EXCEPT !.upper = TRUE]
         [] d = other -> [plain(yml) EXCEPT !.dots = 1]
         [] d = json -> plain(js)
         [] d = blank -> EmptyName]

MCExtensionsOf ==
    [d \in MCDecoder |->
       CASE d = yaml -> {[plain(yml) EXCEPT !.dots = 1, !.padded = TRUE]}
         [] d = other -> {plain(other)}
         [] d = json -> {[plain(js) EXCEPT !.dots = 1]}
         [] d = blank -> {plain(js)}]

MCConstructions == {<<>>, <<json>>, <<NoDecoder, yaml, other>>}
MCLookupNames == {[plain(yml) EXCEPT !.upper = TRUE, !.dots = 1], plain(other)}

Two == {p1, p2}
=============================================================================

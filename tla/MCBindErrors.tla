---------------------------- MODULE MCBindErrors ----------------------------
(***************************************************************************)
(* Three structs: one without a malformed tag, and two in which the same   *)
(* malformed tag is written on a field of another path.                    *)
(***************************************************************************)
EXTENDS BindErrors

CONSTANTS good, bad, host, port, name

MCStruct == {"clean", "server", "client"}
MCFields ==
    [s \in MCStruct |->
       CASE s = "clean" -> <<[path |-> name, key |-> good]>>
         [] s = "server" -> <<[path |-> name, key |-> good], [path |-> host, key |-> bad]>>
         [] s = "client" -> <<[path |-> port, key |-> bad], [path |-> name, key |-> good]>>]
=============================================================================

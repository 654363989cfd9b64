----------------------------- MODULE MCUserland ----------------------------
(* The instance of Userland. *)
EXTENDS Userland

MCSleepArgs == {1, 2, -1}

(* Every line of up to three tokens, and longer ones with redirections in  *)
(* pipelines, blocks in pipelines and in the background, and more          *)
(* processes than slots.                                                   *)
MCLines ==
  UNION {[1 .. n -> {"a", "<", ">", "|", "&", ";", "(", ")"}] : n \in 0 .. 3} \cup
  { <<"cd", "a">>,
    <<"a", "+", "a">>,
    <<"a", "|", "a", "|", "a">>,
    <<"a", "<", "a", "<", "a", "|", "a", ">", "a">>,
    <<"(", "a", "|", "a", ")", ">", "a", "<", "a">>,
    <<"(", "a", ";", "a", ")", "|", "a", "&">>,
    <<"a", "|", "(", "a", "&", ";", "a", ")">>,
    <<"a", "&", "&", ";", "a">>,
    <<"a", "|", "(", "a", "|", "a", ")">> }
============================================================================

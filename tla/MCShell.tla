------------------------------- MODULE MCShell -------------------------------
(* An instance of Shell for TLC.                                           *)
EXTENDS Shell

\* One of each construct, and the ways they meet.
MCRunnable ==
  {<<"a">>, <<"a", "<", "a">>, <<"a", ">", "a", "+", "a">>, <<"a", "|", "a">>,
   <<"a", ";", "a">>, <<"a", "&">>, <<"a", "|", "a", "&">>,
   <<"(", "a", ";", "a", ")", "|", "a">>, <<"a", "|", "a", "|", "a">>,
   <<"a", "(">>, <<>>}

\* Every line of up to 4 tokens is parsed.
MCLines == UNION {[1 .. n -> Tokens] : n \in 0 .. 4} \union MCRunnable
=============================================================================

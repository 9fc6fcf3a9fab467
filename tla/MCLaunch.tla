------------------------------ MODULE MCLaunch ------------------------------
(***************************************************************************)
(* Command lines of up to MaxTokens tokens, behind each of the container's *)
(* modes and on the host.                                                  *)
(***************************************************************************)
EXTENDS Launch, SequencesExt

CONSTANT MaxTokens

Tokens ==
    {Opt(2, "http"), OptWith(2, "http", "false"), OptWith(2, "http", "maybe"),
     Opt(3, "http"),
     Opt(2, "http-addr"), OptWith(2, "http-addr", "addr"),
     Opt(1, "unix"), Opt(2, "log-level"),
     Opt(2, "nonce"), OptWith(2, "nonce", "7"),
     Opt(1, ""), Opt(2, ""), Plain("word")}

FlagNames == Defined \union {NoText, "nonce"}
Lines == SeqOf(Tokens, MaxTokens)
=============================================================================

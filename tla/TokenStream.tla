---------------------------- MODULE TokenStream ----------------------------
(***************************************************************************)
(* What get_next_token promises the parser: a stream of tokens with one    *)
(* token of lookahead.  With the option NOP the next token is looked at,   *)
(* without it it is taken; the last token, TOKEN_EOF, is never used up.    *)
(***************************************************************************)
EXTENDS Integers, Sequences

CONSTANT NoToken

VARIABLES
  stream,   \* the tokens of the source
  next,     \* the index of the next token
  ret,      \* the token that the last call returned
  took      \* whether that call was to take it

streamVars == <<stream, next, ret, took>>

StreamInit == stream # <<>> /\ next = 1 /\ ret = NoToken /\ took = FALSE

Peek == ret' = stream[next] /\ took' = FALSE /\ UNCHANGED <<stream, next>>

Take ==
  /\ ret' = stream[next] /\ took' = TRUE
  /\ next' = IF next < Len(stream) THEN next + 1 ELSE next
  /\ UNCHANGED stream

StreamSpec == StreamInit /\ [][Peek \/ Take]_streamVars
=============================================================================

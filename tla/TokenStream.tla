---------------------------- MODULE TokenStream ----------------------------
(***************************************************************************)
(* What the lexer promises its callers: a cursor over the text.  Reading   *)
(* moves the cursor by one token; looking ahead is invisible, except that  *)
(* one that runs into the end of the text gives the rest of the text up.   *)
(***************************************************************************)
EXTENDS LexerOps

CONSTANT Inputs          \* the texts the lexer can be given

VARIABLES text,          \* the text being read, and whether there is one
          loaded,
          token,         \* the current token
          aborted        \* an exception left the lexer

vars == <<text, loaded, token, aborted>>

Init == /\ text = NewLexer.data
        /\ token = NewLexer.cur
        /\ loaded = FALSE
        /\ aborted = FALSE

NextToken == Scan(text, token, token.after)

(* A new text: the current token stays until the first read. *)
Load == /\ text' \in Inputs
        /\ loaded' = TRUE
        /\ token' = [token EXCEPT !.after = 1]
        /\ UNCHANGED aborted

Read == /\ token' = NextToken
        /\ aborted' = Throws(text, token.after)
        /\ UNCHANGED <<text, loaded>>

(* A failed look-ahead: the cursor is at an end token and stays there. *)
GiveUp == /\ loaded
          /\ token'.tok \in EndTokens
          /\ Scan(text, token', token'.after) = token'
          /\ UNCHANGED <<text, loaded, aborted>>

(* Looking ahead over a literal that overflows ends the program. *)
Abort == /\ loaded
         /\ aborted' = TRUE
         /\ UNCHANGED <<text, loaded>>

Next == ~aborted /\ (Load \/ Read \/ GiveUp \/ Abort)

Spec == Init /\ [][Next]_vars
=============================================================================

------------------------------ MODULE MCQuery ------------------------------
(***************************************************************************)
(* The text and the tokens of a query for TLC: either one of the clients   *)
(* of MCSqlq writes tokens, or a typist writes characters.                 *)
(***************************************************************************)
EXTENDS MCSqlq, Lexer

Nobody == "nobody"

QueryClients ==
  [c \in DOMAIN MCClients \cup {Nobody} |->
    IF c = Nobody THEN [start |-> <<>>, phrases |-> {}, max |-> 0] ELSE MCClients[c]]

\* Numbers and what they run into; strings and what is illegal outside of them;
\* operators and signs; words, one of which is reserved.
MCTypists ==
  [numbers |-> [chars |-> {"1", ".", "e", "-", "a"}, max |-> 6],
   strings |-> [chars |-> {Quote, "a", " ", ";"}, max |-> 7],
   symbols |-> [chars |-> {"<", ">", "=", "!", "-", "1", " "}, max |-> 5],
   words |-> [chars |-> {"o", "O", "r", "0", " ", ",", "*"}, max |-> 5],
   nobody |-> [chars |-> {}, max |-> 0]]

MCLetters == {"_", "a", "e", "E", "o", "O", "r"}

MCUpper == [c \in MCLetters \cup Digits |->
  CASE c = "a" -> "A"
    [] c = "e" -> "E"
    [] c = "o" -> "O"
    [] c = "r" -> "R"
    [] OTHER -> c]

MCKeywords == {<<"O", "R">>}

MCInit ==
  /\ Init
  /\ LexInit
  /\ (client = Nobody) # (typist = Nobody)

MCNext ==
  \/ typist = Nobody /\ Next /\ UNCHANGED lexVars
  \/ client = Nobody /\ Type /\ UNCHANGED vars

MCSpec == MCInit /\ [][MCNext]_<<vars, lexVars>>
=============================================================================

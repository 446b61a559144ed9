------------------------------- MODULE Lexer -------------------------------
(***************************************************************************)
(* The lexer of the query language (internal/sqlq/lexer.go), the first     *)
(* thing that happens to the text of a query.  The text is a sequence of   *)
(* characters, which a client types one after the other; the lexer is a    *)
(* function of the text.  A bound on the text's length keeps it small.     *)
(***************************************************************************)
EXTENDS Integers, Sequences, FiniteSetsExt

CONSTANTS
  Typists,   \* by name, [chars, max]: the characters of a text, and the bound on its length
  Letters,   \* the letters that may be typed, "_" included
  Upper,     \* strings.ToUpper, on the letters and digits
  Keywords   \* the reserved words, sequences of characters in upper case

VARIABLES
  typist,  \* who types
  src      \* the text of the query

lexVars == <<typist, src>>

Blanks == {" ", "\t", "\n", "\r"}
Digits == {"0", "1"}
IdentChars == Letters \cup Digits
Signs == {"+", "-"}
Exponents == {"e", "E"}
Quote == "'"
End == "end"
Punctuation == {",", "(", ")", ".", "*"}
OperatorChars == {"=", "!", "<", ">"}

\* A letter is nothing else, and no character is the mark of the end of the text.
ASSUME LexerAssumption ==
  /\ \A t \in DOMAIN Typists : Typists[t].max \in Nat /\ End \notin Typists[t].chars
  /\ Letters \subseteq DOMAIN Upper
  /\ Exponents \subseteq Letters
  /\ Letters \cap (Blanks \cup Digits \cup Signs \cup {Quote, End} \cup Punctuation \cup OperatorChars) = {}

\* src[i], or no character behind the end of the text.
At(i) == IF i \in DOMAIN src THEN src[i] ELSE End

\* The first position from i on that holds none of the characters.
Skip(i, chars) == Min({j \in i..(Len(src) + 1) : At(j) \notin chars})

Token(kind, text, pos) == [kind |-> kind, text |-> text, pos |-> pos]

\* A token and the position behind it, or an error.
Lexed(kind, text, pos, next) == [ok |-> TRUE, tok |-> Token(kind, text, pos), next |-> next]
LexError == [ok |-> FALSE]

UpperWord(w) == [k \in DOMAIN w |-> Upper[w[k]]]

lexWord(i) ==
  LET end == Skip(i, IdentChars)
      word == SubSeq(src, i, end - 1)
  IN  IF UpperWord(word) \in Keywords THEN Lexed("kw", UpperWord(word), i, end)
      ELSE Lexed("ident", word, i, end)

\* An optional sign, digits with at most one point among or behind them, and an
\* optional exponent, not run into an identifier.
lexNumber(i) ==
  LET int == Skip(IF At(i) \in Signs THEN i + 1 ELSE i, Digits)
      frac == IF At(int) = "." THEN Skip(int + 1, Digits) ELSE int
      digits == \E k \in i..(frac - 1) : src[k] \in Digits
      exponent == At(frac) \in Exponents
      power == IF At(frac + 1) \in Signs THEN frac + 2 ELSE frac + 1
      end == IF exponent THEN Skip(power, Digits) ELSE frac
  IN  IF ~digits \/ (exponent /\ end = power) \/ At(end) \in IdentChars THEN LexError
      ELSE Lexed("number", SubSeq(src, i, end - 1), i, end)

MutantStringStep(s) ==
  IF s.closed \/ s.pos > Len(src) THEN s
  ELSE [pos |-> s.pos + 1, closed |-> At(s.pos) = Quote,
        text |-> IF At(s.pos) = Quote THEN s.text ELSE Append(s.text, At(s.pos))]

\* A round of the loop of lexString, which is at s.pos and has decoded s.text.
StringStep(s) ==
  LET more(n, c) == [pos |-> s.pos + n, text |-> Append(s.text, c), closed |-> FALSE]
  IN  IF s.closed \/ s.pos > Len(src) THEN s
      ELSE CASE At(s.pos) # Quote -> more(1, At(s.pos))
             [] At(s.pos) = Quote /\ At(s.pos + 1) = Quote -> more(2, Quote)
             [] At(s.pos) = Quote /\ At(s.pos + 1) # Quote ->
                  [pos |-> s.pos + 1, text |-> s.text, closed |-> TRUE]

lexString(i) ==
  LET loop[k \in 0..Len(src)] ==
        IF k = 0 THEN [pos |-> i + 1, text |-> <<>>, closed |-> FALSE] ELSE StringStep(loop[k - 1])
      s == loop[Len(src)]
  IN  IF s.closed THEN Lexed("string", s.text, i, s.pos) ELSE LexError

Operators == {<<"=">>, <<"!", "=">>, <<"<">>, <<"<", "=">>, <<"<", ">">>, <<">">>, <<">", "=">>}

\* An operator of two characters before one of one.
lexOp(i) ==
  IF <<At(i), At(i + 1)>> \in Operators THEN Lexed("op", <<At(i), At(i + 1)>>, i, i + 2)
  ELSE IF <<At(i)>> \in Operators THEN Lexed("op", <<At(i)>>, i, i + 1)
  ELSE LexError

\* The token at i, which is not blank.  A sign begins a number only in front of a
\* digit or a point.
lexToken(i) ==
  CASE At(i) \in Letters -> lexWord(i)
    [] At(i) \in Digits -> lexNumber(i)
    [] At(i) \in Signs -> IF At(i + 1) \in Digits \cup {"."} THEN lexNumber(i) ELSE LexError
    [] At(i) = Quote -> lexString(i)
    [] At(i) \in Punctuation -> Lexed(At(i), <<At(i)>>, i, i + 1)
    [] OTHER -> lexOp(i)

\* The loop of lex: the tokens from i on.
lex ==
  LET from[i \in 1..(Len(src) + 1)] ==
        LET t == lexToken(i)
        IN  IF i > Len(src) THEN [ok |-> TRUE, toks |-> <<Token("EOF", <<>>, i)>>]
            ELSE IF src[i] \in Blanks THEN from[i + 1]
            ELSE IF t.ok /\ from[t.next].ok
              THEN [ok |-> TRUE, toks |-> <<t.tok>> \o from[t.next].toks]
            ELSE LexError
  IN  from[1]

LexInit ==
  /\ typist \in DOMAIN Typists
  /\ src = <<>>

\* The client types one more character.
Type ==
  /\ Len(src) < Typists[typist].max
  /\ \E c \in Typists[typist].chars : src' = Append(src, c)
  /\ UNCHANGED typist

LexSpec == LexInit /\ [][Type]_lexVars

-----------------------------------------------------------------------------
(***************************************************************************)
(* The reference: which stretches lo..hi of the text are lexemes, and the  *)
(* cutting of the text into the longest ones.                              *)
(***************************************************************************)

All(lo, hi, chars) == \A k \in lo..hi : src[k] \in chars

IsDigits(lo, hi) == lo <= hi /\ All(lo, hi, Digits)

\* Digits, perhaps with a point, and at least one digit.
IsMantissa(lo, hi) ==
  /\ All(lo, hi, Digits \cup {"."})
  /\ \A k, m \in lo..hi : src[k] = "." /\ src[m] = "." => k = m
  /\ \E k \in lo..hi : src[k] \in Digits

IsUnsigned(lo, hi) ==
  \/ IsMantissa(lo, hi)
  \/ \E k \in lo..hi :
       /\ src[k] \in Exponents
       /\ IsMantissa(lo, k - 1)
       /\ IsDigits(k + 1, hi) \/ (k < hi /\ src[k + 1] \in Signs /\ IsDigits(k + 2, hi))

IsNumber(lo, hi) ==
  \/ src[lo] # "." /\ IsUnsigned(lo, hi)
  \/ src[lo] \in Signs /\ IsUnsigned(lo + 1, hi)

\* The quotes in front of k, without a gap, back to lo at most.
QuotesBefore(lo, k) ==
  k - 1 - Max({j \in lo..(k - 1) : src[j] # Quote} \cup {lo - 1})

\* Quotes inside come in runs of even length, and no quote follows the last.
IsString(lo, hi) ==
  /\ lo < hi /\ src[lo] = Quote /\ src[hi] = Quote /\ At(hi + 1) # Quote
  /\ \A k \in (lo + 1)..hi :
       (k = hi \/ src[k] # Quote) => QuotesBefore(lo + 1, k) % 2 = 0

IsLexeme(lo, hi) ==
  \/ src[lo] \in Letters /\ All(lo, hi, IdentChars)
  \/ IsNumber(lo, hi)
  \/ IsString(lo, hi)
  \/ lo = hi /\ src[lo] \in Punctuation
  \/ SubSeq(src, lo, hi) \in Operators

\* What a lexeme says: a string without its quotes, and one quote for two.
Kind(lo, hi) ==
  LET word == SubSeq(src, lo, hi)
  IN  CASE src[lo] \in Letters -> IF UpperWord(word) \in Keywords THEN "kw" ELSE "ident"
        [] src[lo] = Quote -> "string"
        [] src[lo] \in Punctuation -> src[lo]
        [] word \in Operators -> "op"
        [] OTHER -> "number"

Kept(lo, hi) ==
  {k \in (lo + 1)..(hi - 1) : src[k] # Quote \/ QuotesBefore(lo + 1, k) % 2 = 0}

Says(lo, hi) ==
  LET word == SubSeq(src, lo, hi)
      at(n) == CHOOSE k \in Kept(lo, hi) : Cardinality({j \in Kept(lo, hi) : j <= k}) = n
  IN  CASE Kind(lo, hi) = "kw" -> UpperWord(word)
        [] Kind(lo, hi) = "string" -> [n \in 1..Cardinality(Kept(lo, hi)) |-> src[at(n)]]
        [] OTHER -> word

\* The ends of the lexemes that begin at i.
Ends(i) == {j \in i..Len(src) : IsLexeme(i, j)}

\* The longest lexeme at i; a number is followed by no letter.
Longest(i) ==
  LET end == Max(Ends(i))
  IN  IF Ends(i) = {} \/ (Kind(i, end) = "number" /\ At(end + 1) \in IdentChars) THEN LexError
      ELSE Lexed(Kind(i, end), Says(i, end), i, end + 1)

\* The text cut into its longest lexemes.
Cut ==
  LET cut[i \in 1..(Len(src) + 1)] ==
        LET t == Longest(i)
        IN  IF i > Len(src) THEN [ok |-> TRUE, toks |-> <<Token("EOF", <<>>, i)>>]
            ELSE IF At(i) \in Blanks THEN cut[i + 1]
            ELSE IF t.ok /\ cut[t.next].ok
              THEN [ok |-> TRUE, toks |-> <<t.tok>> \o cut[t.next].toks]
            ELSE LexError
  IN  cut[1]

\* The lexer takes exactly the texts that the longest lexemes cut up, and returns
\* those lexemes at their places, doubled quotes decoded and keywords in capitals:
\* no character outside a string is lost, and ";", a comment or an operator of
\* another language is an error wherever it stands (lexer.go:62-64, 168-170,
\* 212-216).
LexesExactly == lex = Cut
=============================================================================

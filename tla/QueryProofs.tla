---------------------------- MODULE QueryProofs ----------------------------
(***************************************************************************)
(* Proofs about the query language.  The lexer, for texts of any length    *)
(* over any characters: at every place it takes the longest lexeme, or     *)
(* refuses what is none.  The translation, for any predicate on any row:   *)
(* what stands for NOT of a predicate is its negation.                     *)
(***************************************************************************)
EXTENDS Lexer, Conditions, ToolUtilProofs

\* Everything that may be typed.
Chars == UNION {Typists[t].chars : t \in DOMAIN Typists}

\* The text is one that was typed.
LexInv == typist \in DOMAIN Typists /\ src \in Seq(Chars)

-----------------------------------------------------------------------------
(***************************************************************************)
(* Characters.                                                             *)
(***************************************************************************)

\* A character is of one kind only.
LEMMA CharKinds ==
  ASSUME NEW c
  PROVE  /\ c \in Letters =>
              /\ c \notin Digits /\ c \notin Signs /\ c # Quote /\ c \notin Punctuation
              /\ c \notin OperatorChars /\ c # End /\ c # "."
         /\ c \in Digits =>
              /\ c \notin Letters /\ c \notin Signs /\ c # Quote /\ c \notin Punctuation
              /\ c \notin OperatorChars /\ c # End /\ c # "."
         /\ c \in Signs =>
              /\ c \notin Letters /\ c \notin Digits /\ c # Quote /\ c \notin Punctuation
              /\ c \notin OperatorChars /\ c # End /\ c # "."
         /\ c = Quote =>
              /\ c \notin Letters /\ c \notin Digits /\ c \notin Signs /\ c \notin Punctuation
              /\ c \notin OperatorChars /\ c # End /\ c # "."
         /\ c \in Punctuation =>
              /\ c \notin Letters /\ c \notin Digits /\ c \notin Signs /\ c # Quote
              /\ c \notin OperatorChars /\ c # End
         /\ c \in OperatorChars =>
              /\ c \notin Letters /\ c \notin Digits /\ c \notin Signs /\ c # Quote
              /\ c \notin Punctuation /\ c # End /\ c # "."
         /\ c \in Exponents => c \in Letters
         /\ c = "." => c \in Punctuation
<1>1. /\ Exponents \subseteq Letters
      /\ Letters \cap (Blanks \cup Digits \cup Signs \cup {Quote, End} \cup Punctuation \cup OperatorChars) = {}
  BY LexerAssumption
<1>2. \A x \in Letters : /\ x \notin Digits /\ x \notin Signs /\ x # Quote /\ x # End
                         /\ x \notin Punctuation /\ x \notin OperatorChars
  BY <1>1
<1>3. "." \notin Letters /\ End \notin Letters
  BY <1>2 DEF Punctuation
<1> QED
  BY <1>1, <1>2, <1>3 DEF Digits, Signs, Quote, End, Punctuation, OperatorChars, Exponents

\* The end of the text is of none.
LEMMA EndKinds ==
  /\ End \notin Chars /\ End \notin Letters /\ End \notin Digits /\ End \notin Signs
  /\ End \notin IdentChars /\ End # Quote /\ End # "."
<1>1. End \notin Chars
  BY LexerAssumption DEF Chars
<1> QED
  BY <1>1, CharKinds DEF IdentChars, End, Digits, Signs, Quote

\* What At finds.
LEMMA AtIs ==
  ASSUME src \in Seq(Chars), NEW i \in Int
  PROVE  /\ Len(src) \in Nat
         /\ i \in 1..Len(src) => At(i) = src[i] /\ At(i) # End
         /\ i \notin 1..Len(src) => At(i) = End
<1>1. Len(src) \in Nat /\ DOMAIN src = 1..Len(src) /\ \A k \in 1..Len(src) : src[k] \in Chars
  OBVIOUS
<1>2. End \notin Chars
  BY EndKinds
<1> QED
  BY <1>1, <1>2 DEF At

\* Where Skip ends.
LEMMA SkipIs ==
  ASSUME src \in Seq(Chars), NEW i \in 1..(Len(src) + 1), NEW chars, End \notin chars
  PROVE  /\ Skip(i, chars) \in i..(Len(src) + 1) /\ At(Skip(i, chars)) \notin chars
         /\ \A k \in i..(Skip(i, chars) - 1) : k \in 1..Len(src) /\ src[k] \in chars
<1> DEFINE S == {j \in i..(Len(src) + 1) : At(j) \notin chars}
<1>1. Len(src) \in Nat
  BY AtIs
<1>2. At(Len(src) + 1) = End
  BY <1>1, AtIs
<1>3. Len(src) + 1 \in S /\ S \in SUBSET Nat
  BY <1>1, <1>2
<1> DEFINE m == Skip(i, chars)
<1>4. m \in S /\ \A x \in S : m <= x
  <2>1. S # {}
    BY <1>3
  <2> HIDE DEF S
  <2>2. Min(S) \in S /\ \A x \in S : Min(S) <= x
    BY <1>3, <2>1, MinOf
  <2>3. m = Min(S)
    BY DEF Skip, S
  <2> QED
    BY <2>2, <2>3
<1> HIDE DEF m
<1>5. m \in i..(Len(src) + 1) /\ At(m) \notin chars
  BY <1>4
<1>6. ASSUME NEW k \in i..(m - 1) PROVE k \in 1..Len(src) /\ src[k] \in chars
  <2>1. k \in i..(Len(src) + 1) /\ k < m /\ k \in 1..Len(src) /\ k \in Int
    BY <1>1, <1>5
  <2>2. k \notin S
    BY <1>4, <2>1
  <2>3. At(k) \in chars
    BY <2>1, <2>2
  <2>4. At(k) = src[k]
    BY <2>1, AtIs
  <2> QED
    BY <2>1, <2>3, <2>4
<1> QED
  BY <1>5, <1>6 DEF m

-----------------------------------------------------------------------------
(***************************************************************************)
(* Numbers.  The parts that lexNumber finds from s on, behind the sign.    *)
(***************************************************************************)

IntEnd(s) == Skip(s, Digits)
FracEnd(s) == IF At(IntEnd(s)) = "." THEN Skip(IntEnd(s) + 1, Digits) ELSE IntEnd(s)
HasDigits(s) == \E k \in s..(FracEnd(s) - 1) : src[k] \in Digits
HasExponent(s) == At(FracEnd(s)) \in Exponents
Power(s) == IF At(FracEnd(s) + 1) \in Signs THEN FracEnd(s) + 2 ELSE FracEnd(s) + 1
NumberEnd(s) == IF HasExponent(s) THEN Skip(Power(s), Digits) ELSE FracEnd(s)

\* In front of FracEnd there are digits and at most one point, and neither a digit nor
\* a further point is there.
LEMMA FracEndIs ==
  ASSUME src \in Seq(Chars), NEW s \in 1..(Len(src) + 1)
  PROVE  /\ FracEnd(s) \in s..(Len(src) + 1)
         /\ \A k \in s..(FracEnd(s) - 1) : k \in 1..Len(src) /\ src[k] \in Digits \cup {"."}
         /\ \A k, m \in s..(FracEnd(s) - 1) : src[k] = "." /\ src[m] = "." => k = m
         /\ At(FracEnd(s)) \notin Digits
         /\ At(FracEnd(s)) = "." => \E k \in s..(FracEnd(s) - 1) : src[k] = "."
<1> DEFINE int == IntEnd(s)
<1>1. /\ int \in s..(Len(src) + 1) /\ At(int) \notin Digits
      /\ \A k \in s..(int - 1) : k \in 1..Len(src) /\ src[k] \in Digits
  BY EndKinds, SkipIs DEF IntEnd
<1>2. \A c \in Digits : c # "."
  BY CharKinds
<1> HIDE DEF int
<1>3. Len(src) \in Nat
  OBVIOUS
<1>4. CASE At(int) # "."
  <2>1. FracEnd(s) = int
    BY <1>4 DEF FracEnd, int
  <2> QED
    BY <1>1, <1>2, <1>4, <2>1
<1>5. CASE At(int) = "."
  <2> DEFINE frac == Skip(int + 1, Digits)
  <2>1. FracEnd(s) = frac
    BY <1>5 DEF FracEnd, int
  <2>2. int \in 1..Len(src) /\ src[int] = "."
    <3>1. int \in Int /\ int >= 1
      BY <1>1
    <3>2. End # "."
      BY EndKinds
    <3> QED
      BY <1>5, <3>1, <3>2, AtIs
  <2>3. int + 1 \in 1..(Len(src) + 1)
    BY <2>2
  <2>4. /\ frac \in (int + 1)..(Len(src) + 1) /\ At(frac) \notin Digits
        /\ \A k \in (int + 1)..(frac - 1) : k \in 1..Len(src) /\ src[k] \in Digits
    BY <2>3, EndKinds, SkipIs
  <2> HIDE DEF frac
  <2>5. ASSUME NEW k \in s..(frac - 1)
        PROVE  k \in 1..Len(src) /\ src[k] \in Digits \cup {"."} /\ (src[k] = "." => k = int)
    <3>1. k \in s..(int - 1) \/ k = int \/ k \in (int + 1)..(frac - 1)
      BY <1>1, <2>4
    <3> QED
      BY <1>1, <1>2, <2>2, <2>4, <3>1
  <2>6. int \in s..(frac - 1) /\ frac \in s..(Len(src) + 1)
    BY <1>1, <2>4
  <2> QED
    BY <2>1, <2>2, <2>4, <2>5, <2>6
<1> QED
  BY <1>4, <1>5

\* A mantissa ends in front of FracEnd, and the longest one does at it.
LEMMA MantissaIs ==
  ASSUME src \in Seq(Chars), NEW s \in 1..(Len(src) + 1)
  PROVE  /\ \A j \in Int : j <= Len(src) /\ IsMantissa(s, j) => s <= j /\ j < FracEnd(s) /\ HasDigits(s)
         /\ HasDigits(s) => IsMantissa(s, FracEnd(s) - 1)
<1> DEFINE frac == FracEnd(s)
<1>1. /\ frac \in s..(Len(src) + 1)
      /\ \A k \in s..(frac - 1) : k \in 1..Len(src) /\ src[k] \in Digits \cup {"."}
      /\ \A k, m \in s..(frac - 1) : src[k] = "." /\ src[m] = "." => k = m
      /\ At(frac) \notin Digits
      /\ At(frac) = "." => \E k \in s..(frac - 1) : src[k] = "."
  BY FracEndIs
<1> HIDE DEF frac
<1>2. ASSUME NEW j \in Int, j <= Len(src), IsMantissa(s, j) PROVE s <= j /\ j < frac /\ HasDigits(s)
  <2>1. /\ \A k \in s..j : src[k] \in Digits \cup {"."}
        /\ \A k, m \in s..j : src[k] = "." /\ src[m] = "." => k = m
        /\ \E k \in s..j : src[k] \in Digits
    BY <1>2 DEF IsMantissa, All
  <2>2. j < frac
    <3> SUFFICES ASSUME j >= frac PROVE FALSE
      BY <1>1, <1>2
    <3>1. frac \in s..j /\ frac \in 1..Len(src) /\ frac \in Int
      BY <1>1, <1>2
    <3>2. At(frac) = src[frac]
      BY <3>1, AtIs
    <3>3. src[frac] = "."
      BY <1>1, <2>1, <3>1, <3>2
    <3>4. PICK k \in s..(frac - 1) : src[k] = "."
      BY <1>1, <3>2, <3>3
    <3>5. k \in s..j /\ k # frac
      BY <1>1, <3>1, <3>4
    <3> QED
      BY <2>1, <3>1, <3>3, <3>4, <3>5
  <2>3. PICK k \in s..j : src[k] \in Digits
    BY <2>1
  <2>4. k \in s..(frac - 1) /\ s <= j
    BY <1>1, <1>2, <2>2, <2>3
  <2> QED
    BY <2>2, <2>3, <2>4 DEF HasDigits, frac
<1>3. HasDigits(s) => IsMantissa(s, frac - 1)
  BY <1>1 DEF HasDigits, frac, IsMantissa, All
<1> QED
  BY <1>2, <1>3 DEF frac

\* Behind an exponent there may be a sign, and then digits up to NumberEnd.
LEMMA ExponentIs ==
  ASSUME src \in Seq(Chars), NEW s \in 1..(Len(src) + 1), HasExponent(s)
  PROVE  /\ FracEnd(s) \in 1..Len(src) /\ src[FracEnd(s)] \in Exponents
         /\ Power(s) \in (FracEnd(s) + 1)..(Len(src) + 1)
         /\ NumberEnd(s) \in Power(s)..(Len(src) + 1) /\ At(NumberEnd(s)) \notin Digits
         /\ \A k \in Power(s)..(NumberEnd(s) - 1) : k \in 1..Len(src) /\ src[k] \in Digits
<1> DEFINE frac == FracEnd(s)
           power == Power(s)
<1>1. frac \in s..(Len(src) + 1) /\ Len(src) \in Nat
  BY FracEndIs
<1>2. At(frac) \in Exponents
  BY DEF HasExponent
<1>3. End \notin Exponents
  BY EndKinds, CharKinds
<1>4. power = IF At(frac + 1) \in Signs THEN frac + 2 ELSE frac + 1
  BY DEF Power
<1>5. NumberEnd(s) = Skip(power, Digits)
  BY DEF NumberEnd
<1> HIDE DEF frac, power
<1>6. frac \in 1..Len(src) /\ src[frac] \in Exponents
  <2>1. frac \in Int /\ frac >= 1
    BY <1>1
  <2> QED
    BY <1>2, <1>3, <2>1, AtIs
<1>7. power \in (frac + 1)..(Len(src) + 1)
  <2>1. CASE At(frac + 1) \in Signs
    <3>1. frac + 1 \in Int /\ End \notin Signs
      BY <1>6, EndKinds
    <3>2. frac + 1 \in 1..Len(src)
      <4> DEFINE m == frac + 1
      <4>1. m \in Int /\ At(m) \in Signs
        BY <2>1, <3>1
      <4> HIDE DEF m
      <4>2. m \in 1..Len(src)
        BY <3>1, <4>1, AtIs
      <4> QED
        BY <4>2 DEF m
    <3> QED
      BY <1>4, <1>6, <2>1, <3>2
  <2>2. CASE At(frac + 1) \notin Signs
    BY <1>4, <1>6, <2>2
  <2> QED
    BY <2>1, <2>2
<1>8. power \in 1..(Len(src) + 1)
  BY <1>6, <1>7
<1>9. /\ NumberEnd(s) \in power..(Len(src) + 1) /\ At(NumberEnd(s)) \notin Digits
      /\ \A k \in power..(NumberEnd(s) - 1) : k \in 1..Len(src) /\ src[k] \in Digits
  BY <1>5, <1>8, EndKinds, SkipIs
<1> QED
  BY <1>6, <1>7, <1>9 DEF frac, power

\* Where the longest number ends, the sign aside.
Stop(s) == IF HasExponent(s) /\ NumberEnd(s) # Power(s) THEN NumberEnd(s) ELSE FracEnd(s)

\* A number with an exponent has it at FracEnd, and digits up to NumberEnd at most.
LEMMA ExponentEnds ==
  ASSUME src \in Seq(Chars), NEW s \in 1..(Len(src) + 1), NEW j \in Int, j <= Len(src),
         NEW k \in s..j, src[k] \in Exponents, IsMantissa(s, k - 1),
         IsDigits(k + 1, j) \/ (k < j /\ src[k + 1] \in Signs /\ IsDigits(k + 2, j))
  PROVE  HasDigits(s) /\ s <= j /\ HasExponent(s) /\ NumberEnd(s) # Power(s) /\ j < NumberEnd(s)
<1> DEFINE frac == FracEnd(s)
<1>1. /\ frac \in s..(Len(src) + 1) /\ Len(src) \in Nat
      /\ \A m \in s..(frac - 1) : m \in 1..Len(src) /\ src[m] \in Digits \cup {"."}
  BY FracEndIs
<1>2. k - 1 \in Int /\ k - 1 <= Len(src) /\ k \in Int /\ s <= k /\ k <= j /\ k >= 1
  OBVIOUS
<1>3. k - 1 < frac /\ HasDigits(s)
  BY <1>2, MantissaIs
<1>4. k = frac
  <2>1. src[k] \notin Digits \cup {"."}
    <3>1. src[k] \in Letters
      BY CharKinds
    <3> QED
      BY <3>1, CharKinds
  <2>2. k \notin s..(frac - 1)
    BY <1>1, <2>1
  <2> HIDE DEF frac
  <2> QED
    BY <1>1, <1>2, <1>3, <2>2
<1> HIDE DEF frac
<1>5. k \in 1..Len(src) /\ At(k) = src[k]
  BY <1>2, AtIs
<1>6. HasExponent(s)
  BY <1>4, <1>5 DEF HasExponent, frac
<1>7. /\ Power(s) \in (k + 1)..(Len(src) + 1)
      /\ NumberEnd(s) \in Power(s)..(Len(src) + 1) /\ At(NumberEnd(s)) \notin Digits
  BY <1>4, <1>6, ExponentIs DEF frac
<1>8. Power(s) = IF At(k + 1) \in Signs THEN k + 2 ELSE k + 1
  BY <1>4 DEF Power, frac
<1>9. Power(s) <= j /\ \A m \in Power(s)..j : src[m] \in Digits
  <2>1. CASE IsDigits(k + 1, j)
    <3>1. k + 1 <= j /\ \A m \in (k + 1)..j : src[m] \in Digits
      BY <2>1 DEF IsDigits, All
    <3>2. k + 1 \in 1..Len(src) /\ k + 1 \in (k + 1)..j
      BY <1>2, <3>1
    <3>3. At(k + 1) \in Digits
      BY <3>1, <3>2, AtIs
    <3>4. Power(s) = k + 1
      BY <1>8, <3>3, CharKinds
    <3> QED
      BY <3>1, <3>4
  <2>2. CASE k < j /\ src[k + 1] \in Signs /\ IsDigits(k + 2, j)
    <3>1. k + 2 <= j /\ \A m \in (k + 2)..j : src[m] \in Digits
      BY <2>2 DEF IsDigits, All
    <3>2. k + 1 \in 1..Len(src)
      BY <1>2, <2>2
    <3>3. At(k + 1) \in Signs
      BY <2>2, <3>2, AtIs
    <3> QED
      BY <1>8, <3>1, <3>3
  <2> QED
    BY <2>1, <2>2
<1>10. j < NumberEnd(s)
  <2> SUFFICES ASSUME j >= NumberEnd(s) PROVE FALSE
    BY <1>7
  <2>1. NumberEnd(s) \in Power(s)..j /\ NumberEnd(s) \in 1..Len(src)
    BY <1>2, <1>7
  <2>2. src[NumberEnd(s)] \in Digits /\ At(NumberEnd(s)) = src[NumberEnd(s)]
    BY <1>9, <2>1, AtIs
  <2> QED
    BY <1>7, <2>2
<1> QED
  BY <1>2, <1>3, <1>6, <1>7, <1>9, <1>10

\* The numbers without sign that begin at s end in front of Stop, the longest of them
\* at it.
LEMMA UnsignedIs ==
  ASSUME src \in Seq(Chars), NEW s \in 1..(Len(src) + 1)
  PROVE  /\ \A j \in Int : j <= Len(src) /\ IsUnsigned(s, j) => s <= j /\ j < Stop(s) /\ HasDigits(s)
         /\ Stop(s) \in s..(Len(src) + 1)
         /\ HasDigits(s) => s < Stop(s) /\ IsUnsigned(s, Stop(s) - 1)
<1> DEFINE frac == FracEnd(s)
<1>1. frac \in s..(Len(src) + 1) /\ Len(src) \in Nat
  BY FracEndIs
<1>2. HasExponent(s) => frac < NumberEnd(s) /\ NumberEnd(s) \in s..(Len(src) + 1)
  <2> SUFFICES ASSUME HasExponent(s) PROVE frac < NumberEnd(s) /\ NumberEnd(s) \in s..(Len(src) + 1)
    OBVIOUS
  <2>1. Power(s) \in (frac + 1)..(Len(src) + 1) /\ NumberEnd(s) \in Power(s)..(Len(src) + 1)
    BY ExponentIs
  <2> HIDE DEF frac
  <2> QED
    BY <1>1, <2>1
<1> HIDE DEF frac
<1>3. Stop(s) \in s..(Len(src) + 1) /\ frac <= Stop(s)
  BY <1>1, <1>2 DEF Stop, frac
<1>4. ASSUME NEW j \in Int, j <= Len(src), IsUnsigned(s, j) PROVE s <= j /\ j < Stop(s) /\ HasDigits(s)
  <2>1. CASE IsMantissa(s, j)
    <3>1. s <= j /\ j < frac /\ HasDigits(s)
      BY <1>4, <2>1, MantissaIs DEF frac
    <3> QED
      BY <1>1, <1>3, <1>4, <3>1
  <2>2. CASE ~IsMantissa(s, j)
    <3>1. PICK k \in s..j :
            /\ src[k] \in Exponents /\ IsMantissa(s, k - 1)
            /\ IsDigits(k + 1, j) \/ (k < j /\ src[k + 1] \in Signs /\ IsDigits(k + 2, j))
      BY <1>4, <2>2 DEF IsUnsigned
    <3>2. HasDigits(s) /\ s <= j /\ HasExponent(s) /\ NumberEnd(s) # Power(s) /\ j < NumberEnd(s)
      BY <1>4, <3>1, ExponentEnds
    <3> QED
      BY <3>2 DEF Stop
  <2> QED
    BY <2>1, <2>2
<1>5. ASSUME HasDigits(s) PROVE s < Stop(s) /\ IsUnsigned(s, Stop(s) - 1)
  <2>1. IsMantissa(s, frac - 1)
    BY <1>5, MantissaIs DEF frac
  <2>2. s < frac
    <3>1. frac - 1 \in Int /\ frac - 1 <= Len(src)
      BY <1>1
    <3>2. s <= frac - 1
      BY <2>1, <3>1, MantissaIs
    <3> QED
      BY <1>1, <3>2
  <2>3. CASE ~(HasExponent(s) /\ NumberEnd(s) # Power(s))
    <3>1. Stop(s) = frac
      BY <2>3 DEF Stop, frac
    <3> QED
      BY <2>1, <2>2, <3>1 DEF IsUnsigned
  <2>4. CASE HasExponent(s) /\ NumberEnd(s) # Power(s)
    <3> DEFINE e == NumberEnd(s) - 1
    <3>1. Stop(s) = NumberEnd(s)
      BY <2>4 DEF Stop
    <3>2. /\ frac \in 1..Len(src) /\ src[frac] \in Exponents
          /\ Power(s) \in (frac + 1)..(Len(src) + 1)
          /\ NumberEnd(s) \in Power(s)..(Len(src) + 1)
          /\ \A k \in Power(s)..e : src[k] \in Digits
      BY <2>4, ExponentIs DEF frac
    <3>3. Power(s) = IF At(frac + 1) \in Signs THEN frac + 2 ELSE frac + 1
      BY DEF Power, frac
    <3>4. Power(s) <= e /\ e \in Int /\ e <= Len(src) /\ frac \in s..e
      BY <1>1, <2>4, <3>2
    <3>5. IsDigits(Power(s), e)
      BY <3>2, <3>4 DEF IsDigits, All
    <3> HIDE DEF e
    <3>6. IsDigits(frac + 1, e) \/ (frac < e /\ src[frac + 1] \in Signs /\ IsDigits(frac + 2, e))
      <4>1. CASE At(frac + 1) \in Signs
        <5>1. Power(s) = frac + 2 /\ frac < e
          BY <3>2, <3>3, <3>4, <4>1
        <5>2. frac + 1 \in 1..Len(src)
          BY <3>2, <3>4, <5>1
        <5>3. src[frac + 1] \in Signs
          BY <4>1, <5>2, AtIs
        <5> QED
          BY <3>5, <5>1, <5>3
      <4>2. CASE At(frac + 1) \notin Signs
        BY <3>3, <3>5, <4>2
      <4> QED
        BY <4>1, <4>2
    <3>7. IsUnsigned(s, e)
      BY <2>1, <3>2, <3>4, <3>6 DEF IsUnsigned
    <3>8. s < Stop(s) /\ Stop(s) - 1 = e
      BY <1>1, <1>2, <2>2, <2>4, <3>1 DEF e
    <3> QED
      BY <3>7, <3>8
  <2> QED
    BY <2>3, <2>4
<1> QED
  BY <1>3, <1>4, <1>5

-----------------------------------------------------------------------------
(***************************************************************************)
(* What a lexeme begins with tells what it is.                             *)
(***************************************************************************)

\* A number without sign begins with a digit or a point.
LEMMA UnsignedFirst ==
  ASSUME src \in Seq(Chars), NEW s \in 1..(Len(src) + 1), NEW j \in Int, j <= Len(src),
         IsUnsigned(s, j)
  PROVE  s <= j /\ src[s] \in Digits \cup {"."}
<1>1. CASE IsMantissa(s, j)
  <2>1. s <= j
    BY <1>1, MantissaIs
  <2>2. s \in s..j
    BY <2>1
  <2> QED
    BY <1>1, <2>1, <2>2 DEF IsMantissa, All
<1>2. CASE ~IsMantissa(s, j)
  <2>1. PICK k \in s..j : IsMantissa(s, k - 1)
    BY <1>2 DEF IsUnsigned
  <2>2. k - 1 \in Int /\ k - 1 <= Len(src) /\ s <= j
    BY <2>1
  <2>3. s <= k - 1
    BY <2>1, <2>2, MantissaIs
  <2>4. s \in s..(k - 1)
    BY <2>2, <2>3
  <2> QED
    BY <2>1, <2>2, <2>4 DEF IsMantissa, All
<1> QED
  BY <1>1, <1>2

\* An operator has one or two characters.
LEMMA OperatorIs ==
  ASSUME NEW w \in Operators
  PROVE  w[1] \in OperatorChars /\ (Len(w) = 1 \/ Len(w) = 2)
BY DEF Operators, OperatorChars

\* A stretch of the text.
LEMMA WordIs ==
  ASSUME src \in Seq(Chars), NEW i \in 1..Len(src), NEW j \in i..Len(src)
  PROVE  /\ SubSeq(src, i, j) \in Seq(Chars) /\ Len(SubSeq(src, i, j)) = j - i + 1
         /\ \A k \in 1..(j - i + 1) : SubSeq(src, i, j)[k] = src[i + k - 1]
<1>1. i \in Nat \ {0} /\ j \in Int /\ j <= Len(src) /\ i <= j
  OBVIOUS
<1> QED
  BY <1>1, PartOf

\* A stretch of one character or two.
LEMMA ShortWords ==
  ASSUME src \in Seq(Chars), NEW i \in 1..Len(src)
  PROVE  /\ SubSeq(src, i, i) = <<src[i]>>
         /\ i + 1 \in 1..Len(src) => SubSeq(src, i, i + 1) = <<src[i], src[i + 1]>>
<1>1. \A k \in 1..Len(src) : src[k] \in Chars
  OBVIOUS
<1>2. SubSeq(src, i, i) = <<src[i]>>
  <2> DEFINE w == SubSeq(src, i, i)
             v == <<src[i]>>
  <2>1. i \in i..Len(src) /\ i - i + 1 = 1
    OBVIOUS
  <2>2. w \in Seq(Chars) /\ Len(w) = 1 /\ \A k \in 1..1 : w[k] = src[i + k - 1]
    BY <2>1, WordIs
  <2>3. v \in Seq(Chars) /\ Len(v) = 1 /\ v[1] = src[i]
    BY <1>1
  <2>4. w[1] = src[i]
    BY <2>2
  <2> HIDE DEF w, v
  <2>5. Len(w) = Len(v) /\ \A k \in 1..Len(w) : w[k] = v[k]
    BY <2>2, <2>3, <2>4
  <2>6. w = v
    BY <2>2, <2>3, <2>5, SeqEqual
  <2> QED
    BY <2>6 DEF w, v
<1>3. ASSUME i + 1 \in 1..Len(src) PROVE SubSeq(src, i, i + 1) = <<src[i], src[i + 1]>>
  <2> DEFINE w == SubSeq(src, i, i + 1)
             v == <<src[i], src[i + 1]>>
  <2>1. i + 1 \in i..Len(src) /\ i + 1 - i + 1 = 2
    BY <1>3
  <2>2. w \in Seq(Chars) /\ Len(w) = 2 /\ \A k \in 1..2 : w[k] = src[i + k - 1]
    BY <2>1, WordIs
  <2>3. v \in Seq(Chars) /\ Len(v) = 2 /\ v[1] = src[i] /\ v[2] = src[i + 1]
    BY <1>1, <1>3
  <2>4. w[1] = src[i] /\ w[2] = src[i + 1]
    BY <2>2
  <2> HIDE DEF w, v
  <2>5. Len(w) = Len(v) /\ \A k \in 1..Len(w) : w[k] = v[k]
    BY <2>2, <2>3, <2>4
  <2>6. w = v
    BY <2>2, <2>3, <2>5, SeqEqual
  <2> QED
    BY <2>6 DEF w, v
<1> QED
  BY <1>2, <1>3

\* The beginnings of numbers, strings and operators.
LEMMA FirstIs ==
  ASSUME src \in Seq(Chars), NEW i \in 1..Len(src), NEW j \in i..Len(src)
  PROVE  /\ IsNumber(i, j) => src[i] \in Digits \/ src[i] \in Signs
         /\ IsString(i, j) => src[i] = Quote
         /\ SubSeq(src, i, j) \in Operators => src[i] \in OperatorChars
<1>1. i \in 1..(Len(src) + 1) /\ j \in Int /\ j <= Len(src)
  OBVIOUS
<1>2. ASSUME IsNumber(i, j) PROVE src[i] \in Digits \/ src[i] \in Signs
  <2>1. CASE src[i] # "." /\ IsUnsigned(i, j)
    <3>1. src[i] \in Digits \cup {"."}
      BY <1>1, <2>1, UnsignedFirst
    <3> QED
      BY <2>1, <3>1
  <2> QED
    BY <1>2, <2>1 DEF IsNumber
<1>3. ASSUME SubSeq(src, i, j) \in Operators PROVE src[i] \in OperatorChars
  <2> DEFINE w == SubSeq(src, i, j)
  <2>1. 1 \in 1..(j - i + 1) /\ i + 1 - 1 = i
    OBVIOUS
  <2>2. w[1] = src[i]
    BY <2>1, WordIs
  <2>3. w[1] \in OperatorChars
    BY <1>3, OperatorIs
  <2> QED
    BY <2>2, <2>3
<1> QED
  BY <1>2, <1>3 DEF IsString

\* The kind of a lexeme by its first character.
LEMMA KindIs ==
  ASSUME src \in Seq(Chars), NEW i \in 1..Len(src), NEW j \in i..Len(src)
  PROVE  LET word == SubSeq(src, i, j) IN
         /\ src[i] \in Letters =>
              Kind(i, j) = IF UpperWord(word) \in Keywords THEN "kw" ELSE "ident"
         /\ src[i] = Quote => Kind(i, j) = "string"
         /\ src[i] \in Punctuation => Kind(i, j) = src[i]
         /\ src[i] \in OperatorChars /\ word \in Operators => Kind(i, j) = "op"
         /\ src[i] \in Digits \/ src[i] \in Signs => Kind(i, j) = "number"
<1> DEFINE word == SubSeq(src, i, j)
           c == src[i]
           reserved == UpperWord(word) \in Keywords
<1>1. Kind(i, j) = CASE c \in Letters -> IF reserved THEN "kw" ELSE "ident"
                     [] c = Quote -> "string"
                     [] c \in Punctuation -> c
                     [] word \in Operators -> "op"
                     [] OTHER -> "number"
  BY DEF Kind
<1>2. word \in Operators => c \in OperatorChars
  BY FirstIs
<1> HIDE DEF word, c, reserved
<1>3. /\ c \in Letters => c \notin Punctuation /\ c # Quote /\ c \notin OperatorChars
      /\ c \in Punctuation => c \notin Letters /\ c # Quote /\ c \notin OperatorChars
      /\ c = Quote => c \notin Punctuation /\ c \notin Letters /\ c \notin OperatorChars
      /\ c \in OperatorChars => c \notin Punctuation /\ c # Quote /\ c \notin Letters
      /\ c \in Digits \/ c \in Signs =>
           c \notin Punctuation /\ c # Quote /\ c \notin Letters /\ c \notin OperatorChars
  BY CharKinds
<1>4. /\ c \in Letters => Kind(i, j) = IF reserved THEN "kw" ELSE "ident"
      /\ c = Quote => Kind(i, j) = "string"
      /\ c \in Punctuation => Kind(i, j) = c
      /\ c \in OperatorChars /\ word \in Operators => Kind(i, j) = "op"
      /\ c \in Digits \/ c \in Signs => Kind(i, j) = "number"
  BY <1>1, <1>2, <1>3
<1> QED
  BY <1>4 DEF word, c, reserved

-----------------------------------------------------------------------------
(***************************************************************************)
(* The longest lexeme.                                                     *)
(***************************************************************************)

\* If e ends a lexeme at i and none ends behind it, the lexeme up to e is taken.
LEMMA LongestIs ==
  ASSUME src \in Seq(Chars), NEW i \in 1..Len(src), NEW e \in Ends(i), \A j \in Ends(i) : j <= e
  PROVE  Longest(i) = IF Kind(i, e) = "number" /\ At(e + 1) \in IdentChars THEN LexError
                      ELSE Lexed(Kind(i, e), Says(i, e), i, e + 1)
<1>1. Ends(i) \in SUBSET Nat /\ Ends(i) # {} /\ Len(src) \in Nat /\ \A j \in Ends(i) : j <= Len(src)
  BY DEF Ends
<1>2. Max(Ends(i)) \in Ends(i) /\ \A j \in Ends(i) : j <= Max(Ends(i))
  BY <1>1, MaxOf
<1>3. Max(Ends(i)) = e
  BY <1>1, <1>2
<1> QED
  BY <1>1, <1>3 DEF Longest

\* If none begins at i, the text is refused.
LEMMA LongestNone ==
  ASSUME NEW i, Ends(i) = {}
  PROVE  Longest(i) = LexError
BY DEF Longest

\* Words.
LEMMA WordToken ==
  ASSUME src \in Seq(Chars), NEW i \in 1..Len(src), src[i] \in Letters
  PROVE  lexWord(i) = Longest(i)
<1> DEFINE end == Skip(i, IdentChars)
           e == end - 1
           word == SubSeq(src, i, e)
<1>1. /\ end \in i..(Len(src) + 1) /\ At(end) \notin IdentChars
      /\ \A k \in i..(end - 1) : src[k] \in IdentChars
  <2>1. i \in 1..(Len(src) + 1)
    OBVIOUS
  <2> QED
    BY <2>1, EndKinds, SkipIs
<1>2. lexWord(i) = IF UpperWord(word) \in Keywords THEN Lexed("kw", UpperWord(word), i, end)
                   ELSE Lexed("ident", word, i, end)
  BY DEF lexWord
<1> HIDE DEF end
<1>3. end # i
  <2>1. At(i) = src[i]
    BY AtIs
  <2>2. src[i] \in IdentChars
    BY DEF IdentChars
  <2> QED
    BY <1>1, <2>1, <2>2
<1>4. e \in i..Len(src) /\ e + 1 = end
  BY <1>1, <1>3
<1>5. e \in Ends(i)
  BY <1>1, <1>4 DEF Ends, IsLexeme, All
<1>6. ASSUME NEW j \in Ends(i) PROVE j <= e
  <2>1. j \in i..Len(src) /\ IsLexeme(i, j)
    BY DEF Ends
  <2>2. ~IsNumber(i, j) /\ ~IsString(i, j) /\ src[i] \notin Punctuation /\ SubSeq(src, i, j) \notin Operators
    BY <2>1, FirstIs, CharKinds
  <2>3. \A k \in i..j : src[k] \in IdentChars
    BY <2>1, <2>2 DEF IsLexeme, All
  <2> SUFFICES ASSUME j >= end PROVE FALSE
    BY <1>1, <2>1
  <2>4. end \in i..j /\ end \in 1..Len(src)
    BY <1>1, <2>1
  <2>5. At(end) = src[end]
    BY <2>4, AtIs
  <2> QED
    BY <1>1, <2>3, <2>4, <2>5
<1> HIDE DEF e
<1>7. Kind(i, e) = IF UpperWord(word) \in Keywords THEN "kw" ELSE "ident"
  BY <1>4, KindIs
<1>8. Longest(i) = Lexed(Kind(i, e), Says(i, e), i, end)
  <2>1. Longest(i) = IF Kind(i, e) = "number" /\ At(e + 1) \in IdentChars THEN LexError
                     ELSE Lexed(Kind(i, e), Says(i, e), i, e + 1)
    BY <1>5, <1>6, LongestIs
  <2> QED
    BY <1>4, <1>7, <2>1
<1>9. Says(i, e) = IF UpperWord(word) \in Keywords THEN UpperWord(word) ELSE word
  BY <1>7 DEF Says
<1> HIDE DEF word
<1> QED
  BY <1>2, <1>7, <1>8, <1>9 DEF e

\* Punctuation.
LEMMA PunctuationToken ==
  ASSUME src \in Seq(Chars), NEW i \in 1..Len(src), src[i] \in Punctuation
  PROVE  Lexed(At(i), <<At(i)>>, i, i + 1) = Longest(i)
<1>1. At(i) = src[i] /\ i \in i..Len(src)
  BY AtIs
<1>2. i \in Ends(i)
  BY <1>1 DEF Ends, IsLexeme
<1>3. ASSUME NEW j \in Ends(i) PROVE j <= i
  <2>1. j \in i..Len(src) /\ IsLexeme(i, j)
    BY DEF Ends
  <2>2. ~IsNumber(i, j) /\ ~IsString(i, j) /\ src[i] \notin Letters /\ SubSeq(src, i, j) \notin Operators
    BY <2>1, FirstIs, CharKinds
  <2> QED
    BY <2>1, <2>2 DEF IsLexeme
<1>4. Kind(i, i) = src[i]
  BY <1>1, KindIs
<1>5. src[i] # "number" /\ src[i] # "kw" /\ src[i] # "string"
  BY DEF Punctuation
<1>6. Says(i, i) = <<src[i]>>
  <2>1. Says(i, i) = SubSeq(src, i, i)
    BY <1>4, <1>5 DEF Says
  <2>2. SubSeq(src, i, i) = <<src[i]>>
    BY ShortWords
  <2> QED
    BY <2>1, <2>2
<1>7. Longest(i) = Lexed(src[i], <<src[i]>>, i, i + 1)
  BY <1>2, <1>3, <1>4, <1>5, <1>6, LongestIs
<1> QED
  BY <1>1, <1>7

\* Operators, and characters that begin nothing.
LEMMA OperatorToken ==
  ASSUME src \in Seq(Chars), NEW i \in 1..Len(src),
         src[i] \notin Letters, src[i] \notin Digits, src[i] \notin Signs, src[i] # Quote,
         src[i] \notin Punctuation
  PROVE  lexOp(i) = Longest(i)
<1> DEFINE two == <<At(i), At(i + 1)>>
           one == <<At(i)>>
<1>1. At(i) = src[i] /\ i \in i..Len(src) /\ i + 1 \in Int /\ Len(src) \in Nat
  BY AtIs
<1>2. \A j \in Int : j \in Ends(i) <=> j \in i..Len(src) /\ SubSeq(src, i, j) \in Operators
  <2>1. ASSUME NEW j \in i..Len(src) PROVE IsLexeme(i, j) <=> SubSeq(src, i, j) \in Operators
    <3>1. ~IsNumber(i, j) /\ ~IsString(i, j)
      BY <2>1, FirstIs
    <3> QED
      BY <3>1 DEF IsLexeme
  <2> QED
    BY <2>1 DEF Ends
<1>3. Ends(i) \subseteq i..Len(src)
  BY DEF Ends
<1>4. SubSeq(src, i, i) = one
  <2>1. SubSeq(src, i, i) = <<src[i]>>
    BY ShortWords
  <2> QED
    BY <1>1, <2>1
<1>5. i + 1 \in 1..Len(src) => SubSeq(src, i, i + 1) = two
  <2> SUFFICES ASSUME i + 1 \in 1..Len(src) PROVE SubSeq(src, i, i + 1) = <<At(i), At(i + 1)>>
    OBVIOUS
  <2>1. At(i + 1) = src[i + 1]
    BY AtIs
  <2>2. SubSeq(src, i, i + 1) = <<src[i], src[i + 1]>>
    BY ShortWords
  <2> QED
    BY <1>1, <2>1, <2>2
<1>6. i + 1 \notin 1..Len(src) => two \notin Operators
  <2>1. i + 1 \notin 1..Len(src) => At(i + 1) = End
    BY <1>1, AtIs
  <2>2. <<At(i), End>> \notin Operators
    BY DEF Operators, End
  <2> QED
    BY <2>1, <2>2
<1>7. ASSUME NEW j \in Ends(i) PROVE j = i \/ (j = i + 1 /\ j \in 1..Len(src))
  <2>1. j \in i..Len(src) /\ SubSeq(src, i, j) \in Operators
    BY <1>2, <1>3
  <2>2. Len(SubSeq(src, i, j)) = j - i + 1
    BY <2>1, WordIs
  <2>3. j - i + 1 = 1 \/ j - i + 1 = 2
    BY <2>1, <2>2, OperatorIs
  <2> QED
    BY <2>1, <2>3
<1>8. \A e \in Ends(i) : Kind(i, e) = "op" /\ Says(i, e) = SubSeq(src, i, e)
  <2> TAKE e \in Ends(i)
  <2>1. e \in i..Len(src) /\ SubSeq(src, i, e) \in Operators
    BY <1>2, <1>3
  <2>2. Kind(i, e) = "op"
    BY <2>1, FirstIs, KindIs
  <2> QED
    BY <2>2 DEF Says
<1>9. lexOp(i) = IF two \in Operators THEN Lexed("op", two, i, i + 2)
                 ELSE IF one \in Operators THEN Lexed("op", one, i, i + 1) ELSE LexError
  BY DEF lexOp
<1> HIDE DEF two, one
<1>10. /\ i \in Ends(i) <=> one \in Operators
       /\ i + 1 \in Ends(i) <=> i + 1 \in 1..Len(src) /\ two \in Operators
  <2>1. i \in Int /\ i + 1 \in Int /\ (i + 1 \in i..Len(src) <=> i + 1 \in 1..Len(src))
    BY <1>1
  <2>2. i \in Ends(i) <=> SubSeq(src, i, i) \in Operators
    BY <1>1, <1>2, <2>1
  <2>3. i + 1 \in Ends(i) <=> i + 1 \in 1..Len(src) /\ SubSeq(src, i, i + 1) \in Operators
    BY <1>2, <2>1
  <2> QED
    BY <1>4, <1>5, <2>2, <2>3
<1>11. CASE two \in Operators
  <2>1. i + 1 \in 1..Len(src) /\ SubSeq(src, i, i + 1) = two
    BY <1>5, <1>6, <1>11
  <2>2. i + 1 \in Ends(i) /\ \A j \in Ends(i) : j <= i + 1
    BY <1>7, <1>10, <1>11, <2>1
  <2>3. Longest(i) = Lexed("op", two, i, i + 1 + 1)
    BY <1>8, <2>1, <2>2, LongestIs
  <2> QED
    BY <1>9, <1>11, <2>3
<1>12. CASE two \notin Operators /\ one \in Operators
  <2>1. i \in Ends(i)
    BY <1>10, <1>12
  <2>2. \A j \in Ends(i) : j <= i
    BY <1>7, <1>10, <1>12
  <2>3. Longest(i) = Lexed("op", one, i, i + 1)
    BY <1>4, <1>8, <2>1, <2>2, LongestIs
  <2> QED
    BY <1>9, <1>12, <2>3
<1>13. CASE two \notin Operators /\ one \notin Operators
  <2>1. Ends(i) = {}
    BY <1>7, <1>10, <1>13
  <2> QED
    BY <1>9, <1>13, <2>1, LongestNone
<1> QED
  BY <1>11, <1>12, <1>13

\* Where the digits of a number begin.
Unsigned(i) == IF At(i) \in Signs THEN i + 1 ELSE i

\* The lexemes that begin with a digit or a sign are numbers.
LEMMA NumberEnds ==
  ASSUME src \in Seq(Chars), NEW i \in 1..Len(src), src[i] \in Digits \/ src[i] \in Signs
  PROVE  /\ Unsigned(i) \in i..(Len(src) + 1) /\ Unsigned(i) \in 1..(Len(src) + 1)
         /\ \A k \in i..(Unsigned(i) - 1) : src[k] \in Signs
         /\ \A j \in i..Len(src) : j \in Ends(i) <=> IsUnsigned(Unsigned(i), j)
<1>1. At(i) = src[i] /\ i \in 1..(Len(src) + 1)
  BY AtIs
<1>2. ASSUME NEW j \in i..Len(src) PROVE j \in Ends(i) <=> IsNumber(i, j)
  <2>1. ~IsString(i, j) /\ src[i] \notin Letters /\ src[i] \notin Punctuation
        /\ SubSeq(src, i, j) \notin Operators
    BY FirstIs, CharKinds
  <2> QED
    BY <2>1 DEF Ends, IsLexeme
<1>3. CASE src[i] \in Digits
  <2>1. src[i] \notin Signs /\ src[i] # "."
    BY <1>3, CharKinds
  <2>2. Unsigned(i) = i
    BY <1>1, <2>1 DEF Unsigned
  <2>3. \A j \in i..Len(src) : IsNumber(i, j) <=> IsUnsigned(i, j)
    BY <2>1 DEF IsNumber
  <2> QED
    BY <1>1, <1>2, <2>2, <2>3
<1>4. CASE src[i] \in Signs
  <2>1. src[i] \notin Digits /\ src[i] # "."
    BY <1>4, CharKinds
  <2>2. Unsigned(i) = i + 1
    BY <1>1, <1>4 DEF Unsigned
  <2>3. \A j \in i..Len(src) : IsNumber(i, j) <=> IsUnsigned(i + 1, j)
    <3> TAKE j \in i..Len(src)
    <3>1. j \in Int /\ j <= Len(src)
      OBVIOUS
    <3>2. ~IsUnsigned(i, j)
      BY <1>1, <2>1, <3>1, UnsignedFirst
    <3> QED
      BY <1>4, <3>2 DEF IsNumber
  <2> QED
    BY <1>1, <1>2, <1>4, <2>2, <2>3
<1> QED
  BY <1>3, <1>4

\* What lexNumber finds.
LEMMA LexNumberIs ==
  ASSUME src \in Seq(Chars), NEW i \in 1..Len(src), src[i] \in Digits \/ src[i] \in Signs
  PROVE  LET s == Unsigned(i) IN
         lexNumber(i) =
           IF ~HasDigits(s) \/ (HasExponent(s) /\ NumberEnd(s) = Power(s)) \/ At(NumberEnd(s)) \in IdentChars
             THEN LexError
             ELSE Lexed("number", SubSeq(src, i, NumberEnd(s) - 1), i, NumberEnd(s))
<1> DEFINE s == Unsigned(i)
           digits == \E k \in i..(FracEnd(s) - 1) : src[k] \in Digits
<1>1. lexNumber(i) =
        IF ~digits \/ (HasExponent(s) /\ NumberEnd(s) = Power(s)) \/ At(NumberEnd(s)) \in IdentChars
          THEN LexError
          ELSE Lexed("number", SubSeq(src, i, NumberEnd(s) - 1), i, NumberEnd(s))
  BY DEF lexNumber, Unsigned, IntEnd, FracEnd, HasExponent, Power, NumberEnd
<1>2. s \in i..(Len(src) + 1) /\ s \in 1..(Len(src) + 1) /\ \A k \in i..(s - 1) : src[k] \in Signs
  BY NumberEnds
<1> HIDE DEF s
<1>3. FracEnd(s) \in s..(Len(src) + 1)
  BY <1>2, FracEndIs
<1>4. digits <=> HasDigits(s)
  <2>1. ASSUME NEW k \in i..(FracEnd(s) - 1), src[k] \in Digits PROVE k \in s..(FracEnd(s) - 1)
    <3>1. src[k] \notin Signs
      BY <2>1, CharKinds
    <3> QED
      BY <1>2, <1>3, <3>1
  <2>2. \A k \in s..(FracEnd(s) - 1) : k \in i..(FracEnd(s) - 1)
    BY <1>2, <1>3
  <2> QED
    BY <2>1, <2>2 DEF HasDigits
<1> HIDE DEF digits
<1>5. lexNumber(i) =
        IF ~HasDigits(s) \/ (HasExponent(s) /\ NumberEnd(s) = Power(s)) \/ At(NumberEnd(s)) \in IdentChars
          THEN LexError
          ELSE Lexed("number", SubSeq(src, i, NumberEnd(s) - 1), i, NumberEnd(s))
  BY <1>1, <1>4, Zenon
<1> QED
  BY <1>5 DEF s

\* Numbers.
LEMMA NumberToken ==
  ASSUME src \in Seq(Chars), NEW i \in 1..Len(src), src[i] \in Digits \/ src[i] \in Signs
  PROVE  lexNumber(i) = Longest(i)
<1> DEFINE s == Unsigned(i)
           stop == Stop(s)
<1>1. /\ s \in i..(Len(src) + 1) /\ s \in 1..(Len(src) + 1)
      /\ \A j \in i..Len(src) : j \in Ends(i) <=> IsUnsigned(s, j)
  BY NumberEnds
<1>2. lexNumber(i) =
        IF ~HasDigits(s) \/ (HasExponent(s) /\ NumberEnd(s) = Power(s)) \/ At(NumberEnd(s)) \in IdentChars
          THEN LexError
          ELSE Lexed("number", SubSeq(src, i, NumberEnd(s) - 1), i, NumberEnd(s))
  BY LexNumberIs
<1> HIDE DEF s
<1>3. /\ \A j \in Int : j <= Len(src) /\ IsUnsigned(s, j) => s <= j /\ j < stop /\ HasDigits(s)
      /\ stop \in s..(Len(src) + 1)
      /\ HasDigits(s) => s < stop /\ IsUnsigned(s, stop - 1)
  BY <1>1, UnsignedIs
<1>4. stop = IF HasExponent(s) /\ NumberEnd(s) # Power(s) THEN NumberEnd(s) ELSE FracEnd(s)
  BY DEF Stop
<1>5. Ends(i) \subseteq i..Len(src)
  BY DEF Ends
<1> HIDE DEF stop
<1>6. CASE ~HasDigits(s)
  <2>1. Ends(i) = {}
    BY <1>1, <1>3, <1>5, <1>6
  <2> QED
    BY <1>2, <1>6, <2>1, LongestNone
<1>7. CASE HasDigits(s)
  <2> DEFINE e == stop - 1
  <2>1. e \in i..Len(src) /\ e + 1 = stop
    BY <1>1, <1>3, <1>7
  <2>2. e \in Ends(i) /\ \A j \in Ends(i) : j <= e
    BY <1>1, <1>3, <1>5, <1>7, <2>1
  <2> HIDE DEF e
  <2>3. Kind(i, e) = "number"
    BY <2>1, KindIs
  <2>4. Says(i, e) = SubSeq(src, i, e)
    BY <2>3 DEF Says
  <2>5. Longest(i) = IF At(stop) \in IdentChars THEN LexError ELSE Lexed("number", SubSeq(src, i, e), i, stop)
    <3>1. Longest(i) = IF Kind(i, e) = "number" /\ At(e + 1) \in IdentChars THEN LexError
                       ELSE Lexed(Kind(i, e), Says(i, e), i, e + 1)
      BY <2>2, LongestIs
    <3> QED
      BY <2>1, <2>3, <2>4, <3>1
  <2>6. CASE HasExponent(s) /\ NumberEnd(s) = Power(s)
    <3>1. At(stop) \in Exponents
      BY <1>4, <2>6 DEF HasExponent
    <3>2. At(stop) \in IdentChars
      BY <3>1, CharKinds DEF IdentChars
    <3> QED
      BY <1>2, <2>5, <2>6, <3>2
  <2>7. CASE ~(HasExponent(s) /\ NumberEnd(s) = Power(s))
    <3>1. stop = NumberEnd(s)
      BY <1>4, <2>7 DEF NumberEnd
    <3> QED
      BY <1>2, <1>7, <2>5, <2>7, <3>1 DEF e
  <2> QED
    BY <2>6, <2>7
<1> QED
  BY <1>6, <1>7

\* A sign in front of neither digit nor point begins nothing.
LEMMA LoneSign ==
  ASSUME src \in Seq(Chars), NEW i \in 1..Len(src), src[i] \in Signs, At(i + 1) \notin Digits \cup {"."}
  PROVE  Longest(i) = LexError
<1>1. Unsigned(i) = i + 1
  BY AtIs DEF Unsigned
<1>2. ASSUME NEW j \in Ends(i) PROVE FALSE
  <2>1. j \in i..Len(src)
    BY DEF Ends
  <2>2. IsUnsigned(i + 1, j)
    BY <1>1, <2>1, NumberEnds
  <2>3. i + 1 \in 1..(Len(src) + 1) /\ j \in Int /\ j <= Len(src)
    BY <2>1
  <2>4. i + 1 <= j /\ src[i + 1] \in Digits \cup {"."}
    BY <2>2, <2>3, UnsignedFirst
  <2>5. i + 1 \in 1..Len(src)
    BY <2>3, <2>4
  <2>6. At(i + 1) = src[i + 1]
    BY <2>5, AtIs
  <2> QED
    BY <2>4, <2>6
<1>3. Ends(i) = {}
  BY <1>2
<1> QED
  BY <1>3, LongestNone

-----------------------------------------------------------------------------
(***************************************************************************)
(* Strings.                                                                *)
(***************************************************************************)

\* The quotes in front of k are pairs.
Paired(lo, k) == QuotesBefore(lo, k) % 2 = 0

\* Every quote changes that, every other character restores it.
LEMMA PairedIs ==
  ASSUME src \in Seq(Chars), NEW lo \in 1..(Len(src) + 1)
  PROVE  /\ Paired(lo, lo)
         /\ \A k \in lo..Len(src) : Paired(lo, k + 1) <=> (src[k] # Quote \/ ~Paired(lo, k))
<1> DEFINE M(k) == {j \in lo..(k - 1) : src[j] # Quote} \cup {lo - 1}
<1>1. Len(src) \in Nat /\ lo - 1 \in Nat
  OBVIOUS
<1>2. ASSUME NEW k \in lo..(Len(src) + 1)
      PROVE  /\ Max(M(k)) \in M(k) /\ \A x \in M(k) : x <= Max(M(k))
             /\ Max(M(k)) \in Nat /\ Max(M(k)) <= k - 1
             /\ QuotesBefore(lo, k) = k - 1 - Max(M(k)) /\ QuotesBefore(lo, k) \in Nat
  <2>1. M(k) \in SUBSET Nat /\ M(k) # {} /\ k - 1 \in Nat /\ \A x \in M(k) : x <= k - 1
    BY <1>1
  <2>2. QuotesBefore(lo, k) = k - 1 - Max(M(k))
    BY DEF QuotesBefore
  <2> HIDE DEF M
  <2>3. Max(M(k)) \in M(k) /\ \A x \in M(k) : x <= Max(M(k))
    BY <2>1, MaxOf
  <2> QED
    BY <2>1, <2>2, <2>3
<1>3. Paired(lo, lo)
  <2>1. lo \in lo..(Len(src) + 1) /\ M(lo) = {lo - 1}
    OBVIOUS
  <2>2. QuotesBefore(lo, lo) = lo - 1 - Max(M(lo)) /\ Max(M(lo)) = lo - 1
    BY <1>2, <2>1
  <2> QED
    BY <1>1, <2>2 DEF Paired
<1>4. ASSUME NEW k \in lo..Len(src) PROVE Paired(lo, k + 1) <=> (src[k] # Quote \/ ~Paired(lo, k))
  <2>1. k \in lo..(Len(src) + 1) /\ k + 1 \in lo..(Len(src) + 1) /\ k \in Nat
    OBVIOUS
  <2>2. \A x \in Int : x \in M(k + 1) <=> x \in M(k) \/ (x = k /\ src[k] # Quote)
    BY <1>1, <2>1
  <2>3. M(k) \subseteq Int /\ M(k + 1) \subseteq Int
    BY <1>1
  <2> DEFINE a == Max(M(k))
             b == Max(M(k + 1))
  <2>4. /\ a \in M(k) /\ (\A x \in M(k) : x <= a) /\ a \in Nat /\ a <= k - 1
        /\ QuotesBefore(lo, k) = k - 1 - a
    BY <1>2, <2>1
  <2>5. /\ b \in M(k + 1) /\ (\A x \in M(k + 1) : x <= b) /\ b \in Nat
        /\ QuotesBefore(lo, k + 1) = k + 1 - 1 - b
    <3> DEFINE n == k + 1
    <3>1. n \in lo..(Len(src) + 1)
      BY <2>1
    <3> HIDE DEF n
    <3>2. /\ Max(M(n)) \in M(n) /\ (\A x \in M(n) : x <= Max(M(n))) /\ Max(M(n)) \in Nat
          /\ QuotesBefore(lo, n) = n - 1 - Max(M(n))
      <4> HIDE DEF M
      <4> QED
        BY <1>2, <3>1
    <3> QED
      BY <3>2 DEF n
  <2> HIDE DEF M, a, b
  <2>6. CASE src[k] # Quote
    <3>1. b = k
      BY <2>1, <2>2, <2>3, <2>4, <2>5, <2>6
    <3>2. QuotesBefore(lo, k + 1) = 0
      BY <2>1, <2>5, <3>1
    <3> QED
      BY <2>6, <3>2 DEF Paired
  <2>7. CASE src[k] = Quote
    <3>1. b = a
      BY <2>1, <2>2, <2>3, <2>4, <2>5, <2>7
    <3> DEFINE q == QuotesBefore(lo, k)
               r == QuotesBefore(lo, k + 1)
    <3>2. q \in Nat /\ r = q + 1
      BY <2>1, <2>4, <2>5, <3>1
    <3>3. r % 2 = 0 <=> ~(q % 2 = 0)
      <4> HIDE DEF q, r
      <4> QED
        BY <3>2
    <3> QED
      BY <2>7, <3>3 DEF Paired
  <2> QED
    BY <2>6, <2>7
<1> QED
  BY <1>3, <1>4

\* The characters kept up to p, in their order.
Decoded(i, p) == [m \in 1..Cardinality(Kept(i, p)) |-> src[Nth(Kept(i, p), m)]]

\* A character that is kept comes behind those that were.
LEMMA DecodedGrows ==
  ASSUME src \in Seq(Chars), NEW i \in 1..Len(src), NEW p \in (i + 1)..(Len(src) + 1)
  PROVE  /\ Decoded(i, p) \in Seq(Chars) /\ Decoded(i, i + 1) = <<>>
         /\ p <= Len(src) =>
              /\ src[p] # Quote \/ Paired(i + 1, p) => Decoded(i, p + 1) = Append(Decoded(i, p), src[p])
              /\ ~(src[p] # Quote \/ Paired(i + 1, p)) => Decoded(i, p + 1) = Decoded(i, p)
<1> DEFINE K == Kept(i, p)
           c == Cardinality(K)
<1>1. Len(src) \in Nat /\ \A k \in 1..Len(src) : src[k] \in Chars
  OBVIOUS
<1>2. K \in SUBSET Int /\ K \subseteq (i + 1)..(p - 1)
  BY DEF Kept
<1>3. IsFiniteSet(K)
  <2>1. IsFiniteSet((i + 1)..(p - 1))
    BY FS_Interval
  <2> QED
    BY <1>2, <2>1, FS_Subset
<1>4. c \in Nat /\ \A k \in 1..c : Nth(K, k) \in K
  BY <1>2, <1>3, NthOf
<1>5. Decoded(i, p) = [m \in 1..c |-> src[Nth(K, m)]]
  BY DEF Decoded
<1> HIDE DEF K, c
<1>6. \A m \in 1..c : src[Nth(K, m)] \in Chars
  <2> TAKE m \in 1..c
  <2>1. Nth(K, m) \in (i + 1)..(p - 1)
    BY <1>2, <1>4
  <2>2. (i + 1)..(p - 1) \subseteq 1..Len(src)
    BY <1>1
  <2> QED
    BY <1>1, <2>1, <2>2
<1>7. Decoded(i, p) \in Seq(Chars) /\ Len(Decoded(i, p)) = c
  BY <1>4, <1>5, <1>6
<1>8. Decoded(i, i + 1) = <<>>
  <2>1. Kept(i, i + 1) = {}
    BY DEF Kept
  <2>2. Cardinality(Kept(i, i + 1)) = 0
    BY <2>1, FS_EmptySet
  <2>3. Decoded(i, i + 1) = [m \in 1..0 |-> src[Nth(Kept(i, i + 1), m)]]
    BY <2>2 DEF Decoded
  <2> QED
    BY <2>3
<1>9. ASSUME p <= Len(src), src[p] # Quote \/ Paired(i + 1, p)
      PROVE  Decoded(i, p + 1) = Append(Decoded(i, p), src[p])
  <2>1. Kept(i, p + 1) = K \cup {p}
    BY <1>9 DEF Kept, Paired, K
  <2>2. p \in Int /\ \A m \in K : m < p
    BY <1>2
  <2> DEFINE T == K \cup {p}
  <2>3. /\ Cardinality(T) = c + 1 /\ Nth(T, c + 1) = p
        /\ \A k \in 1..c : Nth(T, k) = Nth(K, k)
    BY <1>2, <1>3, <2>2, NthExtended DEF c
  <2>4. Decoded(i, p + 1) = [m \in 1..(c + 1) |-> src[Nth(T, m)]]
    BY <2>1, <2>3 DEF Decoded
  <2> HIDE DEF T
  <2> DEFINE d == Decoded(i, p)
             g == Append(d, src[p])
             h == [m \in 1..(c + 1) |-> src[Nth(T, m)]]
  <2>5. src[p] \in Chars /\ \A m \in 1..c : d[m] = src[Nth(K, m)]
    BY <1>1, <1>5, <1>9
  <2> HIDE DEF d
  <2>6. g \in Seq(Chars) /\ Len(g) = c + 1 /\ g[c + 1] = src[p] /\ \A m \in 1..c : g[m] = d[m]
    BY <1>4, <1>7, <2>5 DEF d
  <2>7. \A m \in 1..(c + 1) : h[m] = g[m] /\ h[m] \in Chars
    <3> TAKE m \in 1..(c + 1)
    <3>1. CASE m = c + 1
      BY <2>3, <2>5, <2>6, <3>1
    <3>2. CASE m # c + 1
      <4>1. m \in 1..c
        BY <1>4, <3>2
      <4> QED
        BY <1>6, <2>3, <2>5, <2>6, <4>1
    <3> QED
      BY <3>1, <3>2
  <2>8. h \in Seq(Chars) /\ Len(h) = c + 1
    <3>1. \A m \in 1..(c + 1) : src[Nth(T, m)] \in Chars
      BY <2>7
    <3> DEFINE n == c + 1
    <3>2. n \in Nat
      BY <1>4
    <3> HIDE DEF n
    <3>3. h = [m \in 1..n |-> src[Nth(T, m)]] /\ \A m \in 1..n : src[Nth(T, m)] \in Chars
      BY <3>1 DEF n
    <3> HIDE DEF h
    <3>4. h \in Seq(Chars) /\ Len(h) = n
      BY <3>2, <3>3
    <3> QED
      BY <3>4 DEF n
  <2> HIDE DEF g, h
  <2>9. h = g
    BY <2>6, <2>7, <2>8, SeqEqual
  <2> QED
    BY <2>4, <2>9 DEF d, g, h
<1>10. ASSUME p <= Len(src), ~(src[p] # Quote \/ Paired(i + 1, p))
       PROVE  Decoded(i, p + 1) = Decoded(i, p)
  <2>1. Kept(i, p + 1) = Kept(i, p)
    BY <1>10 DEF Kept, Paired
  <2> QED
    BY <2>1 DEF Decoded
<1> QED
  BY <1>7, <1>8, <1>9, <1>10

\* The loop has read the characters behind the quote at i, up to p.
Reading(i, p) ==
  /\ p \in (i + 1)..(Len(src) + 1) /\ Paired(i + 1, p)
  /\ \A k \in (i + 1)..(p - 1) :
       /\ src[k] # Quote => Paired(i + 1, k)
       /\ src[k] = Quote /\ Paired(i + 1, k) => At(k + 1) = Quote

\* It reads a character that is no quote, or two quotes.
LEMMA ReadsOn ==
  ASSUME src \in Seq(Chars), NEW i \in 1..Len(src), NEW p \in 1..Len(src), Reading(i, p)
  PROVE  /\ src[p] # Quote =>
              Reading(i, p + 1) /\ Decoded(i, p + 1) = Append(Decoded(i, p), src[p])
         /\ src[p] = Quote /\ At(p + 1) = Quote =>
              /\ p + 1 \in 1..Len(src) /\ Reading(i, p + 2)
              /\ Decoded(i, p + 2) = Append(Decoded(i, p), Quote)
<1> DEFINE P(k) == Paired(i + 1, k)
<1>1. /\ Len(src) \in Nat /\ i + 1 \in 1..(Len(src) + 1) /\ p \in (i + 1)..Len(src)
      /\ p \in (i + 1)..(Len(src) + 1) /\ P(p)
  BY DEF Reading
<1>2. \A k \in (i + 1)..Len(src) : P(k + 1) <=> (src[k] # Quote \/ ~P(k))
  BY <1>1, PairedIs
<1>3. \A k \in (i + 1)..(p - 1) : (src[k] # Quote => P(k)) /\ (src[k] = Quote /\ P(k) => At(k + 1) = Quote)
  BY DEF Reading
<1>4. ASSUME src[p] # Quote
      PROVE  Reading(i, p + 1) /\ Decoded(i, p + 1) = Append(Decoded(i, p), src[p])
  <2>1. P(p + 1) /\ p + 1 \in (i + 1)..(Len(src) + 1)
    BY <1>1, <1>2, <1>4
  <2>2. ASSUME NEW k \in (i + 1)..(p + 1 - 1)
        PROVE  (src[k] # Quote => P(k)) /\ (src[k] = Quote /\ P(k) => At(k + 1) = Quote)
    <3>1. k = p \/ k \in (i + 1)..(p - 1)
      BY <1>1
    <3> QED
      BY <1>1, <1>3, <1>4, <3>1
  <2>3. Decoded(i, p + 1) = Append(Decoded(i, p), src[p])
    <3>1. p \in (i + 1)..(Len(src) + 1) /\ p <= Len(src)
      BY <1>1
    <3> QED
      BY <1>4, <3>1, DecodedGrows
  <2> QED
    BY <2>1, <2>2, <2>3 DEF Reading
<1>5. ASSUME src[p] = Quote, At(p + 1) = Quote
      PROVE  /\ p + 1 \in 1..Len(src) /\ Reading(i, p + 2)
             /\ Decoded(i, p + 2) = Append(Decoded(i, p), Quote)
  <2> DEFINE q == p + 1
  <2>1. q \in Int /\ q + 1 = p + 2
    OBVIOUS
  <2>2. q \in 1..Len(src)
    BY <1>5, <2>1, AtIs, EndKinds
  <2>3. src[q] = Quote
    BY <1>5, <2>2, AtIs
  <2>4. q \in (i + 1)..Len(src) /\ q \in (i + 1)..(Len(src) + 1) /\ q + 1 \in (i + 1)..(Len(src) + 1)
    BY <1>1, <2>2
  <2>5. ~P(q)
    BY <1>1, <1>2, <1>5
  <2>6. P(q + 1)
    <3> HIDE DEF q, P
    <3> QED
      BY <1>2, <2>4, <2>5
  <2>7. ASSUME NEW k \in (i + 1)..(q + 1 - 1)
        PROVE  (src[k] # Quote => P(k)) /\ (src[k] = Quote /\ P(k) => At(k + 1) = Quote)
    <3>1. k = p \/ k = q \/ k \in (i + 1)..(p - 1)
      BY <1>1
    <3> QED
      BY <1>1, <1>3, <1>5, <2>3, <2>5, <3>1
  <2>8. Reading(i, q + 1)
    BY <2>4, <2>6, <2>7 DEF Reading
  <2>9. Decoded(i, q) = Append(Decoded(i, p), Quote)
    <3>1. p \in (i + 1)..(Len(src) + 1) /\ p <= Len(src) /\ (src[p] # Quote \/ Paired(i + 1, p))
      BY <1>1
    <3>2. Decoded(i, p + 1) = Append(Decoded(i, p), src[p])
      BY <3>1, DecodedGrows
    <3> QED
      BY <1>5, <3>2
  <2>10. Decoded(i, q + 1) = Decoded(i, q)
    <3>1. q \in (i + 1)..(Len(src) + 1) /\ q <= Len(src) /\ ~(src[q] # Quote \/ Paired(i + 1, q))
      BY <2>3, <2>4, <2>5
    <3> HIDE DEF q
    <3> QED
      BY <3>1, DecodedGrows
  <2> QED
    BY <2>1, <2>2, <2>8, <2>9, <2>10
<1> QED
  BY <1>4, <1>5

\* The states of the loop, in a string and behind it.
Inside(i, p) == [pos |-> p, text |-> Decoded(i, p), closed |-> FALSE]
Behind(i, p) == [pos |-> p + 1, text |-> Decoded(i, p), closed |-> TRUE]

\* The string that begins at i ends at p.
Closes(i, p) == Reading(i, p) /\ p \in 1..Len(src) /\ src[p] = Quote /\ At(p + 1) # Quote

\* What the loop knows after r rounds, in state s.
Round(i, r, s) ==
  \/ \E p \in 1..(Len(src) + 1) :
       s = Inside(i, p) /\ Reading(i, p) /\ (p > Len(src) \/ p >= i + 1 + r)
  \/ \E p \in 1..Len(src) : s = Behind(i, p) /\ Closes(i, p)

\* A round keeps it.
LEMMA StringRound ==
  ASSUME src \in Seq(Chars), NEW i \in 1..Len(src), NEW r \in Nat, NEW s, Round(i, r, s)
  PROVE  Round(i, r + 1, StringStep(s))
<1>1. Len(src) \in Nat
  OBVIOUS
<1>2. ASSUME NEW p \in 1..Len(src), s = Behind(i, p), Closes(i, p) PROVE Round(i, r + 1, StringStep(s))
  <2>1. s.closed
    BY <1>2 DEF Behind
  <2>2. StringStep(s) = s
    BY <2>1 DEF StringStep
  <2> QED
    BY <1>2, <2>2 DEF Round
<1>3. ASSUME NEW p \in 1..(Len(src) + 1), s = Inside(i, p), Reading(i, p), p > Len(src)
      PROVE  Round(i, r + 1, StringStep(s))
  <2>1. s.pos = p
    BY <1>3 DEF Inside
  <2>2. StringStep(s) = s
    BY <1>3, <2>1 DEF StringStep
  <2> QED
    BY <1>3, <2>2 DEF Round
<1>4. ASSUME NEW p \in 1..Len(src), s = Inside(i, p), Reading(i, p), p >= i + 1 + r
      PROVE  Round(i, r + 1, StringStep(s))
  <2>1. s.pos = p /\ s.closed = FALSE /\ s.text = Decoded(i, p) /\ At(p) = src[p] /\ ~(p > Len(src))
    BY <1>4, AtIs DEF Inside
  <2>2. CASE src[p] # Quote
    <3>1. StringStep(s) = [pos |-> p + 1, text |-> Append(Decoded(i, p), src[p]), closed |-> FALSE]
      BY <2>1, <2>2 DEF StringStep
    <3>2. Reading(i, p + 1) /\ Decoded(i, p + 1) = Append(Decoded(i, p), src[p])
      BY <1>4, <2>2, ReadsOn
    <3>3. StringStep(s) = Inside(i, p + 1)
      BY <3>1, <3>2 DEF Inside
    <3>4. p + 1 \in 1..(Len(src) + 1) /\ p + 1 >= i + 1 + (r + 1)
      BY <1>4
    <3> QED
      BY <3>2, <3>3, <3>4 DEF Round
  <2>3. CASE src[p] = Quote /\ At(p + 1) = Quote
    <3>1. StringStep(s) = [pos |-> p + 2, text |-> Append(Decoded(i, p), Quote), closed |-> FALSE]
      BY <2>1, <2>3 DEF StringStep
    <3>2. /\ p + 1 \in 1..Len(src) /\ Reading(i, p + 2)
          /\ Decoded(i, p + 2) = Append(Decoded(i, p), Quote)
      BY <1>4, <2>3, ReadsOn
    <3>3. StringStep(s) = Inside(i, p + 2)
      BY <3>1, <3>2 DEF Inside
    <3>4. p + 2 \in 1..(Len(src) + 1) /\ p + 2 >= i + 1 + (r + 1)
      BY <1>4, <3>2
    <3> QED
      BY <3>2, <3>3, <3>4 DEF Round
  <2>4. CASE src[p] = Quote /\ At(p + 1) # Quote
    <3>1. StringStep(s) = Behind(i, p)
      BY <2>1, <2>4 DEF StringStep, Behind
    <3>2. Closes(i, p)
      BY <1>4, <2>4 DEF Closes
    <3> QED
      BY <3>1, <3>2 DEF Round
  <2> QED
    BY <2>2, <2>3, <2>4
<1>5. ASSUME NEW p \in 1..(Len(src) + 1), p <= Len(src) PROVE p \in 1..Len(src)
  BY <1>1, <1>5
<1> QED
  <2>1. CASE \E p \in 1..Len(src) : s = Behind(i, p) /\ Closes(i, p)
    BY <1>2, <2>1
  <2>2. ASSUME NEW p \in 1..(Len(src) + 1), s = Inside(i, p), Reading(i, p),
               p > Len(src) \/ p >= i + 1 + r
        PROVE  Round(i, r + 1, StringStep(s))
    <3>1. CASE p > Len(src)
      BY <1>3, <2>2, <3>1
    <3>2. CASE p <= Len(src)
      <4>1. p \in 1..Len(src) /\ p >= i + 1 + r
        BY <1>1, <2>2, <3>2
      <4> QED
        BY <1>4, <2>2, <4>1
    <3> QED
      BY <1>1, <3>1, <3>2
  <2> QED
    BY <2>1, <2>2 DEF Round

\* Before its first round the loop is behind the quote at i.
Opened(i) == [pos |-> i + 1, text |-> <<>>, closed |-> FALSE]

\* Its states after up to n rounds.
Rounds(f, i, n) == f = [k \in 0..n |-> IF k = 0 THEN Opened(i) ELSE StringStep(f[k - 1])]

\* There are such states, for every number of rounds.
LEMMA RoundsExist ==
  ASSUME NEW i, NEW n \in Nat
  PROVE  \E f : Rounds(f, i, n)
<1> DEFINE S == {m \in 0..n : \E f : Rounds(f, i, m)}
<1>1. 0 \in S
  <2>1. Rounds([k \in 0..0 |-> Opened(i)], i, 0)
    BY DEF Rounds
  <2> QED
    BY <2>1
<1>2. ASSUME NEW m \in 1..n, m - 1 \in S PROVE m \in S
  <2>1. PICK f : Rounds(f, i, m - 1)
    BY <1>2
  <2> DEFINE h == [k \in 0..m |-> IF k = m THEN StringStep(f[k - 1]) ELSE f[k]]
  <2>2. ASSUME NEW k \in 0..m
        PROVE  h[k] = IF k = 0 THEN Opened(i) ELSE StringStep(h[k - 1])
    <3>1. k # 0 => k - 1 \in 0..m /\ k - 1 # m /\ h[k - 1] = f[k - 1]
      OBVIOUS
    <3>2. CASE k = m
      BY <3>1, <3>2
    <3>3. CASE k # m
      <4>1. k \in 0..(m - 1)
        BY <3>3
      <4>2. f[k] = IF k = 0 THEN Opened(i) ELSE StringStep(f[k - 1])
        BY <2>1, <4>1 DEF Rounds
      <4> QED
        BY <3>1, <3>3, <4>2
    <3> QED
      BY <3>2, <3>3
  <2>3. Rounds(h, i, m)
    <3>1. h = [k \in 0..m |-> h[k]]
      OBVIOUS
    <3> HIDE DEF h
    <3> QED
      BY <2>2, <3>1 DEF Rounds
  <2> QED
    BY <2>3
<1> HIDE DEF S
<1>3. 0..n \subseteq S
  BY <1>1, <1>2, FromNought
<1>4. n \in S
  BY <1>3
<1> QED
  BY <1>4 DEF S

\* So lexString ends in a string that closes, or behind the text.
LEMMA StringEnds ==
  ASSUME src \in Seq(Chars), NEW i \in 1..Len(src), src[i] = Quote
  PROVE  \/ \E p \in 1..Len(src) :
              Closes(i, p) /\ lexString(i) = Lexed("string", Decoded(i, p), i, p + 1)
         \/ Reading(i, Len(src) + 1) /\ lexString(i) = LexError
<1> DEFINE n == Len(src)
           f == CHOOSE f : f = [k \in 0..n |->
                  IF k = 0 THEN [pos |-> i + 1, text |-> <<>>, closed |-> FALSE] ELSE StringStep(f[k - 1])]
<1>1. n \in Nat
  OBVIOUS
<1>2. lexString(i) = IF f[n].closed THEN Lexed("string", f[n].text, i, f[n].pos) ELSE LexError
  BY DEF lexString
<1>3. Rounds(f, i, n)
  BY <1>1, RoundsExist DEF Rounds, Opened
<1> HIDE DEF f
<1>4. \A k \in 0..n : f[k] = IF k = 0 THEN Opened(i) ELSE StringStep(f[k - 1])
  BY <1>3 DEF Rounds
<1> DEFINE S == {k \in 0..n : Round(i, k, f[k])}
<1>5. 0 \in S
  <2>1. i + 1 \in (i + 1)..(n + 1) /\ i + 1 \in 1..(n + 1)
    BY <1>1
  <2>2. Reading(i, i + 1)
    BY <2>1, PairedIs DEF Reading
  <2>3. f[0] = Inside(i, i + 1)
    <3>1. Decoded(i, i + 1) = <<>>
      BY <2>1, DecodedGrows
    <3>2. f[0] = Opened(i)
      BY <1>1, <1>4
    <3> QED
      BY <3>1, <3>2 DEF Opened, Inside
  <2>4. i + 1 >= i + 1 + 0
    OBVIOUS
  <2> QED
    BY <1>1, <2>1, <2>2, <2>3, <2>4 DEF Round
<1>6. ASSUME NEW k \in 1..n, k - 1 \in S PROVE k \in S
  <2>1. k - 1 \in Nat /\ k \in 0..n /\ k - 1 + 1 = k /\ Round(i, k - 1, f[k - 1])
    BY <1>6
  <2>2. f[k] = StringStep(f[k - 1])
    BY <1>4, <2>1
  <2>3. Round(i, k - 1 + 1, StringStep(f[k - 1]))
    BY <2>1, StringRound
  <2> QED
    BY <2>1, <2>2, <2>3
<1>7. Round(i, n, f[n])
  <2> HIDE DEF S
  <2>1. 0..n \subseteq S
    BY <1>1, <1>5, <1>6, FromNought
  <2>2. n \in S
    BY <1>1, <2>1
  <2> QED
    BY <2>2 DEF S
<1>8. ASSUME NEW p \in 1..n, f[n] = Behind(i, p), Closes(i, p)
      PROVE  lexString(i) = Lexed("string", Decoded(i, p), i, p + 1)
  BY <1>2, <1>8 DEF Behind
<1>9. ASSUME NEW p \in 1..(n + 1), f[n] = Inside(i, p), Reading(i, p), p > n \/ p >= i + 1 + n
      PROVE  Reading(i, n + 1) /\ lexString(i) = LexError
  <2>1. p = n + 1
    BY <1>1, <1>9
  <2> QED
    BY <1>2, <1>9, <2>1 DEF Inside
<1> QED
  BY <1>7, <1>8, <1>9 DEF Round

\* What a string says.
LEMMA StringSays ==
  ASSUME src \in Seq(Chars), NEW i \in 1..Len(src), NEW j \in i..Len(src), src[i] = Quote
  PROVE  Says(i, j) = Decoded(i, j)
<1>1. Kind(i, j) = "string"
  BY KindIs
<1> QED
  BY <1>1 DEF Says, Decoded, Nth

\* Strings.
LEMMA StringToken ==
  ASSUME src \in Seq(Chars), NEW i \in 1..Len(src), src[i] = Quote
  PROVE  lexString(i) = Longest(i)
<1>1. Len(src) \in Nat /\ i + 1 \in 1..(Len(src) + 1)
  OBVIOUS
<1>2. ASSUME NEW j \in i..Len(src)
      PROVE  j \in Ends(i) <=> IsString(i, j)
  <2>1. /\ ~IsNumber(i, j) /\ src[i] \notin Letters /\ src[i] \notin Punctuation
        /\ SubSeq(src, i, j) \notin Operators
    BY <1>2, FirstIs, CharKinds
  <2> QED
    BY <2>1 DEF Ends, IsLexeme
<1>3. ASSUME NEW j \in i..Len(src), IsString(i, j)
      PROVE  /\ j \in (i + 1)..Len(src) /\ src[j] = Quote /\ At(j + 1) # Quote /\ Paired(i + 1, j)
             /\ \A k \in (i + 1)..j : src[k] # Quote => Paired(i + 1, k)
  BY <1>3 DEF IsString, Paired
<1>4. ASSUME NEW p \in 1..Len(src), Closes(i, p)
      PROVE  Longest(i) = Lexed("string", Decoded(i, p), i, p + 1)
  <2>1. /\ p \in (i + 1)..Len(src) /\ p \in i..Len(src) /\ src[p] = Quote /\ At(p + 1) # Quote
        /\ Paired(i + 1, p)
        /\ \A k \in (i + 1)..(p - 1) : src[k] # Quote => Paired(i + 1, k)
    BY <1>1, <1>4 DEF Closes, Reading
  <2>2. IsString(i, p)
    BY <2>1 DEF IsString, Paired
  <2>3. ASSUME NEW j \in Ends(i) PROVE j <= p
    <3> SUFFICES ASSUME j > p PROVE FALSE
      BY <2>1 DEF Ends
    <3>1. j \in i..Len(src)
      BY DEF Ends
    <3>2. IsString(i, j)
      BY <1>2, <3>1
    <3> DEFINE q == p + 1
    <3>3. q \in (i + 1)..j /\ q \in 1..Len(src)
      BY <2>1, <3>1
    <3>4. src[q] # Quote
      BY <2>1, <3>3, AtIs
    <3>5. ~Paired(i + 1, q)
      BY <1>1, <2>1, PairedIs
    <3> HIDE DEF q
    <3> QED
      BY <1>3, <3>1, <3>2, <3>3, <3>4, <3>5
  <2>4. p \in Ends(i)
    BY <1>2, <2>1, <2>2
  <2>5. Kind(i, p) = "string" /\ Says(i, p) = Decoded(i, p)
    BY <2>1, KindIs, StringSays
  <2>6. Longest(i) = IF Kind(i, p) = "number" /\ At(p + 1) \in IdentChars THEN LexError
                     ELSE Lexed(Kind(i, p), Says(i, p), i, p + 1)
    BY <2>3, <2>4, LongestIs
  <2> QED
    BY <2>5, <2>6
<1>5. ASSUME Reading(i, Len(src) + 1) PROVE Longest(i) = LexError
  <2>1. ASSUME NEW j \in Ends(i) PROVE FALSE
    <3>1. j \in i..Len(src)
      BY DEF Ends
    <3>2. IsString(i, j)
      BY <1>2, <3>1
    <3>3. j \in (i + 1)..Len(src) /\ src[j] = Quote /\ At(j + 1) # Quote /\ Paired(i + 1, j)
      BY <1>3, <3>1, <3>2
    <3>4. j \in (i + 1)..(Len(src) + 1 - 1)
      BY <1>1, <3>3
    <3> QED
      BY <1>5, <3>3, <3>4 DEF Reading
  <2>2. Ends(i) = {}
    BY <2>1
  <2> QED
    BY <2>2, LongestNone
<1> QED
  BY <1>4, <1>5, StringEnds

-----------------------------------------------------------------------------
(***************************************************************************)
(* The loop of lex, and the specification.                                 *)
(***************************************************************************)

\* At a character that is not blank the lexer takes the longest lexeme.
LEMMA TokenIs ==
  ASSUME src \in Seq(Chars), NEW i \in 1..Len(src)
  PROVE  lexToken(i) = Longest(i)
<1>1. At(i) = src[i]
  BY AtIs
<1> DEFINE c == src[i]
<1>2. lexToken(i) =
        CASE c \in Letters -> lexWord(i)
          [] c \in Digits -> lexNumber(i)
          [] c \in Signs -> IF At(i + 1) \in Digits \cup {"."} THEN lexNumber(i) ELSE LexError
          [] c = Quote -> lexString(i)
          [] c \in Punctuation -> Lexed(At(i), <<At(i)>>, i, i + 1)
          [] OTHER -> lexOp(i)
  BY <1>1 DEF lexToken
<1>3. CASE c \in Letters
  <2>1. lexToken(i) = lexWord(i)
    BY <1>2, <1>3, CharKinds
  <2> QED
    BY <1>3, <2>1, WordToken
<1>4. CASE c \in Digits
  <2>1. lexToken(i) = lexNumber(i)
    BY <1>2, <1>4, CharKinds
  <2> QED
    BY <1>4, <2>1, NumberToken
<1>5. CASE c \in Signs
  <2>1. lexToken(i) = IF At(i + 1) \in Digits \cup {"."} THEN lexNumber(i) ELSE LexError
    BY <1>2, <1>5, CharKinds
  <2> QED
    BY <1>5, <2>1, NumberToken, LoneSign
<1>6. CASE c = Quote
  <2>1. lexToken(i) = lexString(i)
    BY <1>2, <1>6, CharKinds
  <2> QED
    BY <1>6, <2>1, StringToken
<1>7. CASE c \in Punctuation
  <2>1. lexToken(i) = Lexed(At(i), <<At(i)>>, i, i + 1)
    BY <1>2, <1>7, CharKinds
  <2> QED
    BY <1>7, <2>1, PunctuationToken
<1>8. CASE c \notin Letters /\ c \notin Digits /\ c \notin Signs /\ c # Quote /\ c \notin Punctuation
  <2>1. lexToken(i) = lexOp(i)
    BY <1>2, <1>8
  <2> QED
    BY <1>8, <2>1, OperatorToken
<1> QED
  BY <1>3, <1>4, <1>5, <1>6, <1>7, <1>8

\* A round of lex at i, and one of the reference, when f is known behind i.
LexRound(f, i) ==
  LET t == lexToken(i)
  IN  IF i > Len(src) THEN [ok |-> TRUE, toks |-> <<Token("EOF", <<>>, i)>>]
      ELSE IF src[i] \in Blanks THEN f[i + 1]
      ELSE IF t.ok /\ f[t.next].ok THEN [ok |-> TRUE, toks |-> <<t.tok>> \o f[t.next].toks]
      ELSE LexError
CutRound(f, i) ==
  LET t == Longest(i)
  IN  IF i > Len(src) THEN [ok |-> TRUE, toks |-> <<Token("EOF", <<>>, i)>>]
      ELSE IF At(i) \in Blanks THEN f[i + 1]
      ELSE IF t.ok /\ f[t.next].ok THEN [ok |-> TRUE, toks |-> <<t.tok>> \o f[t.next].toks]
      ELSE LexError

\* They do the same.
LEMMA SameRound ==
  ASSUME src \in Seq(Chars), NEW f, NEW i \in 1..(Len(src) + 1)
  PROVE  LexRound(f, i) = CutRound(f, i)
<1>1. Len(src) \in Nat
  OBVIOUS
<1>2. CASE i > Len(src)
  BY <1>1, <1>2 DEF LexRound, CutRound
<1>3. CASE i <= Len(src)
  <2>1. i \in 1..Len(src) /\ ~(i > Len(src))
    BY <1>1, <1>3
  <2>2. At(i) = src[i] /\ lexToken(i) = Longest(i)
    BY <2>1, AtIs, TokenIs
  <2>3. CASE src[i] \in Blanks
    BY <1>3, <2>1, <2>2, <2>3 DEF LexRound, CutRound
  <2>4. CASE src[i] \notin Blanks
    BY <1>3, <2>1, <2>2, <2>4 DEF LexRound, CutRound
  <2> QED
    BY <2>3, <2>4
<1> QED
  BY <1>1, <1>2, <1>3

\* So the loop cuts the text into its longest lexemes.
LEMMA LexIsCut ==
  ASSUME src \in Seq(Chars)
  PROVE  lex = Cut
<1> DEFINE D == 1..(Len(src) + 1)
           L(f) == f = [i \in D |-> LexRound(f, i)]
           C(f) == f = [i \in D |-> CutRound(f, i)]
<1>1. lex = (CHOOSE f : L(f))[1]
  BY DEF lex, LexRound
<1>2. Cut = (CHOOSE f : C(f))[1]
  BY DEF Cut, CutRound
<1>3. ASSUME NEW f PROVE L(f) <=> C(f)
  <2>1. [i \in D |-> LexRound(f, i)] = [i \in D |-> CutRound(f, i)]
    BY SameRound
  <2> QED
    BY <2>1
<1> HIDE DEF L, C
<1>4. (CHOOSE f : L(f)) = (CHOOSE f : C(f))
  BY <1>3
<1> QED
  BY <1>1, <1>2, <1>4

\* Every text that is reached was typed.
LEMMA LexType == LexSpec => []LexInv
<1>1. LexInit => LexInv
  BY DEF LexInit, LexInv
<1>2. LexInv /\ [Type]_lexVars => LexInv'
  <2> SUFFICES ASSUME LexInv, [Type]_lexVars PROVE LexInv'
    OBVIOUS
  <2>1. CASE Type
    <3>1. PICK c \in Typists[typist].chars : src' = Append(src, c)
      BY <2>1 DEF Type
    <3>2. c \in Chars
      BY <3>1 DEF LexInv, Chars
    <3>3. src' \in Seq(Chars)
      BY <3>1, <3>2 DEF LexInv
    <3> QED
      BY <2>1, <3>3 DEF LexInv, Type
  <2>2. CASE UNCHANGED lexVars
    BY <2>2 DEF LexInv, lexVars
  <2> QED
    BY <2>1, <2>2
<1> QED
  BY <1>1, <1>2, PTL DEF LexSpec

\* For every text over every alphabet the lexer returns the longest lexemes of the
\* text, one behind the other, or an error exactly where no lexeme begins or a number
\* runs into a word: the loops of lexer.go with their look-ahead at signs, points,
\* exponents and doubled quotes (lexer.go:62-240) against what the lexemes are.
THEOREM LexerExact == LexSpec => []LexesExactly
<1>1. LexInv => LexesExactly
  BY LexIsCut DEF LexInv, LexesExactly
<1> QED
  BY <1>1, LexType, PTL

-----------------------------------------------------------------------------
(***************************************************************************)
(* Negation is pushed down.                                                *)
(***************************************************************************)

Cells == Int \cup {Null}
Truths == {0, 1, 2}

\* An opposite operator has the opposite truth value, and an unknown one stays unknown.
LEMMA RelNegated ==
  ASSUME NEW op \in ComparisonOps, NEW x \in Cells, NEW y \in Cells
  PROVE  /\ negateOp(op) \in ComparisonOps /\ Rel3(op, x, y) \in Truths
         /\ Rel3(negateOp(op), x, y) = Not3(Rel3(op, x, y))
<1>1. CASE x = Null \/ y = Null
  BY <1>1 DEF Rel3, Not3, Truths, negateOp, ComparisonOps
<1>2. CASE x # Null /\ y # Null
  <2>1. x \in Int /\ y \in Int
    BY <1>2 DEF Cells
  <2>2. CASE op \in {"=", "!=", "<>"}
    <3>1. negateOp(op) = IF op = "=" THEN "!=" ELSE "="
      BY <2>2 DEF negateOp
    <3>2. Rel3("=", x, y) = Truth(x = y) /\ Rel3("!=", x, y) = Truth(x # y) /\ Rel3("<>", x, y) = Truth(x # y)
      BY <1>2 DEF Rel3
    <3>3. /\ Truth(x = y) \in Truths /\ Truth(x # y) \in Truths
          /\ Truth(x = y) = Not3(Truth(x # y)) /\ Truth(x # y) = Not3(Truth(x = y))
      BY DEF Truth, Truths, Not3
    <3> QED
      BY <2>2, <3>1, <3>2, <3>3 DEF ComparisonOps
  <2>3. CASE op = "<"
    BY <1>2, <2>1, <2>3 DEF Rel3, Not3, Truths, Truth, negateOp, ComparisonOps
  <2>4. CASE op = "<="
    BY <1>2, <2>1, <2>4 DEF Rel3, Not3, Truths, Truth, negateOp, ComparisonOps
  <2>5. CASE op = ">"
    BY <1>2, <2>1, <2>5 DEF Rel3, Not3, Truths, Truth, negateOp, ComparisonOps
  <2>6. CASE op = ">="
    BY <1>2, <2>1, <2>6 DEF Rel3, Not3, Truths, Truth, negateOp, ComparisonOps
  <2> QED
    BY <2>2, <2>3, <2>4, <2>5, <2>6 DEF ComparisonOps
<1> QED
  BY <1>1, <1>2

\* The least of the negations is the negation of the greatest, and the other way round.
LEMMA ExtremesNegated ==
  ASSUME NEW F \in SUBSET Truths, F # {}, NEW G \in SUBSET Truths,
         \A x \in Truths : x \in G <=> Not3(x) \in F
  PROVE  /\ Min(F) \in Truths /\ Max(F) \in Truths /\ Min(G) \in Truths /\ Max(G) \in Truths
         /\ Min(G) = Not3(Max(F)) /\ Max(G) = Not3(Min(F))
<1>1. PICK x \in F : TRUE
  OBVIOUS
<1>2. x \in Truths /\ Not3(x) \in Truths /\ Not3(Not3(x)) = x
  BY DEF Truths, Not3
<1>3. Not3(x) \in G
  BY <1>1, <1>2
<1>4. /\ F \in SUBSET Nat /\ F # {} /\ (\A y \in F : y <= 2)
      /\ G \in SUBSET Nat /\ G # {} /\ (\A y \in G : y <= 2) /\ 2 \in Nat
  BY <1>3 DEF Truths
<1>5. /\ Max(F) \in F /\ (\A y \in F : y <= Max(F)) /\ Min(F) \in F /\ (\A y \in F : Min(F) <= y)
      /\ Max(G) \in G /\ (\A y \in G : y <= Max(G)) /\ Min(G) \in G /\ (\A y \in G : Min(G) <= y)
  BY <1>4, MaxOf, MinOf
<1> DEFINE a == Min(F)
           b == Max(F)
           c == Min(G)
           d == Max(G)
<1>6. /\ a \in F /\ a \in Truths /\ b \in F /\ b \in Truths /\ \A y \in F : a <= y /\ y <= b
      /\ c \in G /\ c \in Truths /\ d \in G /\ d \in Truths /\ \A y \in G : c <= y /\ y <= d
  BY <1>5
<1> HIDE DEF a, b, c, d
<1>7. Not3(c) \in F /\ Not3(d) \in F
  BY <1>6
<1>8. Not3(a) \in G /\ Not3(b) \in G
  <2>1. Not3(a) \in Truths /\ Not3(b) \in Truths /\ Not3(Not3(a)) = a /\ Not3(Not3(b)) = b
    BY <1>6 DEF Truths, Not3
  <2> QED
    BY <1>6, <2>1
<1>9. c <= Not3(b) /\ Not3(a) <= d /\ Not3(c) <= b /\ a <= Not3(d)
  BY <1>6, <1>7, <1>8
<1>10. c = Not3(b) /\ d = Not3(a)
  BY <1>6, <1>9 DEF Truths, Not3
<1> QED
  BY <1>6, <1>10 DEF a, b, c, d

\* De Morgan's laws, in three-valued logic.
LEMMA ConnectivesNegated ==
  ASSUME NEW x \in Truths, NEW y \in Truths
  PROVE  /\ And3(x, y) \in Truths /\ Or3(x, y) \in Truths
         /\ And3(Not3(x), Not3(y)) = Not3(Or3(x, y))
         /\ Or3(Not3(x), Not3(y)) = Not3(And3(x, y))
<1> DEFINE F == {x, y}
           G == {Not3(x), Not3(y)}
<1>1. F \in SUBSET Truths /\ F # {} /\ G \in SUBSET Truths
  BY DEF Truths, Not3
<1>2. \A z \in Truths : z \in G <=> Not3(z) \in F
  BY DEF Truths, Not3
<1> HIDE DEF F, G
<1>3. /\ Min(F) \in Truths /\ Max(F) \in Truths
      /\ Min(G) = Not3(Max(F)) /\ Max(G) = Not3(Min(F))
  BY <1>1, <1>2, ExtremesNegated
<1> QED
  BY <1>3 DEF F, G, And3, Or3

\* A comparison with NULL, TRUE or FALSE is sent as a test with IS.
IsTest(op, a) == a.kind \in {"null", "bool"} /\ op \in {"=", "!=", "<>"}

\* What a comparison means when it is sent.
LEMMA ComparisonValue ==
  ASSUME NEW op \in ComparisonOps, NEW col, NEW args, NEW row
  PROVE  LET x == row[col]
             y == Operand(args[1], row)
             e == [cond |-> BuilderOp(op, args[1]), col |-> col, args |-> args]
         IN  /\ IsTest(op, args[1]) =>
                  PredicateValue(e, row) = IF op = "=" THEN Truth(x = y) ELSE Truth(x # y)
             /\ ~IsTest(op, args[1]) => PredicateValue(e, row) = Rel3(op, x, y)
<1> DEFINE a == args[1]
           x == row[col]
           y == Operand(a, row)
           cond == BuilderOp(op, a)
           e == [cond |-> cond, col |-> col, args |-> args]
<1>1. e.cond = cond /\ e.col = col /\ e.args = args
  OBVIOUS
<1>2. ASSUME IsTest(op, a)
      PROVE  PredicateValue(e, row) = IF op = "=" THEN Truth(x = y) ELSE Truth(x # y)
  <2>1. cond = IF op = "=" THEN "IS" ELSE "IS NOT"
    BY <1>2 DEF BuilderOp, IsTest
  <2> HIDE DEF cond, e
  <2> QED
    BY <1>1, <2>1 DEF PredicateValue, ComparisonOps
<1>3. ASSUME ~IsTest(op, a)
      PROVE  PredicateValue(e, row) = Rel3(op, x, y)
  <2>1. cond = (IF op = "<>" THEN "!=" ELSE op) /\ cond \in ComparisonOps
    BY <1>3 DEF BuilderOp, IsTest, ComparisonOps
  <2> HIDE DEF cond, e
  <2>2. PredicateValue(e, row) = Rel3(cond, x, y)
    BY <1>1, <2>1 DEF PredicateValue, ComparisonOps
  <2>3. Rel3(cond, x, y) = Rel3(op, x, y)
    BY <2>1 DEF Rel3, ComparisonOps
  <2> QED
    BY <2>2, <2>3
<1> QED
  BY <1>2, <1>3

\* What the grammar lets a predicate be: a comparison and LIKE have one operand, BETWEEN
\* two, IN at least one.
Grammatical(cond, args) ==
  \/ cond \in ComparisonOps \cup {"LIKE"} /\ DOMAIN args = {1}
  \/ cond = "IN" /\ 1 \in DOMAIN args
  \/ cond = "BETWEEN" /\ DOMAIN args = {1, 2}
  \/ cond \in {"IS NULL", "IS NOT NULL"}

\* On every row, whatever its values, any predicate translated under a negation has the
\* opposite of the truth value it has without, and is unknown where that is unknown: for
\* every comparison, with a column, a value, NULL, TRUE or FALSE, for IN with NULL among
\* its values, LIKE, BETWEEN and IS NULL; and AND and OR change places as De Morgan's
\* laws demand. So pushing a NOT down to the predicates changes no row's truth value
\* (translate.go:157-263).
THEOREM NegationIsPushedDown ==
  ASSUME NEW row, NEW col, NEW args, NEW cond, Grammatical(cond, args),
         row[col] \in Cells, \A i \in DOMAIN args : Operand(args[i], row) \in Cells
  PROVE  LET c == Predicate(cond, col, args)
         IN  /\ PredicateValue(buildPredicate(c, FALSE), row) \in Truths
             /\ PredicateValue(buildPredicate(c, TRUE), row)
                  = Not3(PredicateValue(buildPredicate(c, FALSE), row))
             /\ \A op \in {"AND", "OR"}, x, y \in Truths :
                  Connect(buildOp(op, TRUE), Not3(x), Not3(y)) = Not3(Connect(buildOp(op, FALSE), x, y))
<1> DEFINE x == row[col]
           y(i) == Operand(args[i], row)
           c == Predicate(cond, col, args)
           as(k) == [cond |-> k, col |-> col, args |-> args]
           with(k) == PredicateValue(as(k), row)
           plain == PredicateValue(buildPredicate(c, FALSE), row)
           negated == PredicateValue(buildPredicate(c, TRUE), row)
<1>1. c = as(cond) /\ c.cond = cond /\ c.args = args
  BY DEF Predicate
<1>2. ASSUME NEW k PROVE as(k).cond = k /\ as(k).col = col /\ as(k).args = args
  OBVIOUS
<1>3. ASSUME cond \in ComparisonOps PROVE plain \in Truths /\ negated = Not3(plain)
  <2> DEFINE neg == negateOp(cond)
             y1 == y(1)
             a == args[1]
             sent(op) == with(BuilderOp(op, a))
  <2>0. \A op \in ComparisonOps :
          /\ IsTest(op, a) => sent(op) = IF op = "=" THEN Truth(x = y1) ELSE Truth(x # y1)
          /\ ~IsTest(op, a) => sent(op) = Rel3(op, x, y1)
    BY ComparisonValue
  <2>1. y1 \in Cells /\ x \in Cells
    BY <1>3 DEF Grammatical, ComparisonOps
  <2>2. neg \in ComparisonOps /\ Rel3(cond, x, y1) \in Truths /\ Rel3(neg, x, y1) = Not3(Rel3(cond, x, y1))
    BY <1>3, <2>1, RelNegated
  <2>3. /\ IsTest(neg, a) <=> IsTest(cond, a)
        /\ IsTest(cond, a) => (neg = "=" <=> cond # "=")
    BY <1>3 DEF negateOp, ComparisonOps, IsTest
  <2>4. plain = sent(cond) /\ negated = sent(neg)
    BY <1>1, <1>3 DEF buildPredicate, compareExpr
  <2> HIDE DEF plain, negated, x, y1, neg, a, sent
  <2>5. /\ IsTest(cond, a) => plain = IF cond = "=" THEN Truth(x = y1) ELSE Truth(x # y1)
        /\ ~IsTest(cond, a) => plain = Rel3(cond, x, y1)
    BY <1>3, <2>0, <2>4
  <2>6. /\ IsTest(neg, a) => negated = IF neg = "=" THEN Truth(x = y1) ELSE Truth(x # y1)
        /\ ~IsTest(neg, a) => negated = Rel3(neg, x, y1)
    BY <2>0, <2>2, <2>4
  <2>7. CASE IsTest(cond, a)
    BY <2>3, <2>5, <2>6, <2>7 DEF Truth, Truths, Not3
  <2>8. CASE ~IsTest(cond, a)
    BY <2>2, <2>3, <2>5, <2>6, <2>8
  <2> QED
    BY <2>7, <2>8
<1>4. ASSUME cond \notin ComparisonOps
      PROVE  plain = with(cond) /\ negated = with(Opposite(cond))
  BY <1>1, <1>4 DEF buildPredicate
<1>5. ASSUME cond \in {"IN", "LIKE"} PROVE plain \in Truths /\ negated = Not3(plain)
  <2> DEFINE F == {Rel3("=", x, y(i)) : i \in DOMAIN args}
             G == {Rel3("!=", x, y(i)) : i \in DOMAIN args}
  <2>1. cond \notin ComparisonOps /\ 1 \in DOMAIN args
    BY <1>5 DEF Grammatical, ComparisonOps
  <2>2. with(cond) = Max(F) /\ with(Opposite(cond)) = Min(G)
    BY <1>5 DEF PredicateValue, Opposite, ComparisonOps
  <2>3. \A i \in DOMAIN args : Rel3("=", x, y(i)) \in Truths /\ Rel3("!=", x, y(i)) = Not3(Rel3("=", x, y(i)))
    BY RelNegated DEF negateOp, ComparisonOps
  <2>4. F \in SUBSET Truths /\ F # {} /\ G \in SUBSET Truths
    BY <2>1, <2>3 DEF Truths, Not3
  <2>5. \A z \in Truths : z \in G <=> Not3(z) \in F
    BY <2>3 DEF Truths, Not3
  <2>6. plain = Max(F) /\ negated = Min(G)
    BY <1>4, <2>1, <2>2
  <2> HIDE DEF F, G, plain, negated
  <2>7. Min(G) = Not3(Max(F)) /\ Max(F) \in Truths
    BY <2>4, <2>5, ExtremesNegated
  <2> QED
    BY <2>6, <2>7
<1>6. ASSUME cond = "BETWEEN" PROVE plain \in Truths /\ negated = Not3(plain)
  <2> DEFINE low == Rel3(">=", x, y(1))
             high == Rel3("<=", x, y(2))
             below == Rel3("<", x, y(1))
             above == Rel3(">", x, y(2))
  <2>1. cond \notin ComparisonOps /\ y(1) \in Cells /\ y(2) \in Cells /\ x \in Cells
    BY <1>6 DEF Grammatical, ComparisonOps
  <2>2. with(cond) = And3(low, high) /\ with(Opposite(cond)) = Or3(below, above)
    BY <1>6 DEF PredicateValue, Opposite, ComparisonOps
  <2>3. low \in Truths /\ below = Not3(low) /\ high \in Truths /\ above = Not3(high)
    BY <2>1, RelNegated DEF negateOp, ComparisonOps
  <2>4. plain = And3(low, high) /\ negated = Or3(below, above)
    BY <1>4, <2>1, <2>2
  <2> HIDE DEF low, high, below, above, plain, negated
  <2> QED
    BY <2>3, <2>4, ConnectivesNegated
<1>7. ASSUME cond \in {"IS NULL", "IS NOT NULL"} PROVE plain \in Truths /\ negated = Not3(plain)
  <2>1. cond \notin ComparisonOps
    BY <1>7 DEF ComparisonOps
  <2>2. with("IS NULL") = Truth(x = Null) /\ with("IS NOT NULL") = Truth(x # Null)
    BY DEF PredicateValue, ComparisonOps
  <2>3. \/ cond = "IS NULL" /\ Opposite(cond) = "IS NOT NULL"
        \/ cond = "IS NOT NULL" /\ Opposite(cond) = "IS NULL"
    BY <1>7 DEF Opposite
  <2>4. \/ plain = Truth(x = Null) /\ negated = Truth(x # Null)
        \/ plain = Truth(x # Null) /\ negated = Truth(x = Null)
    BY <1>4, <2>1, <2>2, <2>3
  <2> HIDE DEF plain, negated
  <2> QED
    BY <2>4 DEF Truth, Truths, Not3
<1>8. ASSUME NEW op \in {"AND", "OR"}, NEW u \in Truths, NEW v \in Truths
      PROVE  Connect(buildOp(op, TRUE), Not3(u), Not3(v)) = Not3(Connect(buildOp(op, FALSE), u, v))
  BY ConnectivesNegated DEF Connect, buildOp
<1>9. plain \in Truths /\ negated = Not3(plain)
  BY <1>3, <1>5, <1>6, <1>7 DEF Grammatical
<1> QED
  BY <1>8, <1>9
=============================================================================

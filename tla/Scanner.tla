------------------------------- MODULE Scanner -------------------------------
(***************************************************************************)
(* The scanner that text is read with: one character in mChar, a buffer of *)
(* what follows it, and a file behind that.  Matching a word needs as many *)
(* characters in the buffer as it has, so the buffer is moved and filled   *)
(* up between any two steps.                                               *)
(*                                                                         *)
(* Operations act on a scanner [file, buffer, capacity, char, lines], the  *)
(* buffer beginning at mBufferPos, and give another.  An operation that    *)
(* throws leaves a scanner that is not used again.                         *)
(***************************************************************************)
EXTENDS Integers, Sequences, SequencesExt, FiniteSetsExt

CONSTANTS
  Texts,      \* what is read
  BufferSize, \* 1 in debug builds
  Words,      \* what is matched or expected, as sequences of characters
  Widths      \* in bits, of the integers read

VARIABLES
  text,    \* history variable: all of the input
  scanner,
  taken,   \* history variable: the characters taken off so far
  before,  \* history variable: what was left of the text before the last call
  said     \* history variable: the last call [call, word, width, signed, hit, value]

vars == <<text, scanner, taken, before, said>>

EOF == "EOF"

DigitValue == [c \in {"0", "1", "5", "7", "8", "9"} |->
                 IF c = "0" THEN 0 ELSE IF c = "1" THEN 1 ELSE IF c = "5" THEN 5
                 ELSE IF c = "7" THEN 7 ELSE IF c = "8" THEN 8 ELSE 9]
IsDigit(c) == c \in DOMAIN DigitValue
IsWhite(c) == c \in {" ", "\n"}

----------------------------------------------------------------------------
(* Mutated form: what is left in the buffer is overwritten. *)
ReadOver(s, minRead) ==
  LET room == Max({Len(s.buffer) + minRead, s.capacity})
      got == Min({room - Len(s.buffer), Len(s.file)})
  IN  [s EXCEPT !.buffer = IF got = 0 THEN @ ELSE SubSeq(s.file, 1, got),
                !.file = SubSeq(@, got + 1, Len(@)), !.capacity = room]

(* readBuffer; the capacity grows to what is needed *)
ReadBuffer(s, minRead) ==
  LET room == Max({Len(s.buffer) + minRead, s.capacity})
      got == Min({room - Len(s.buffer), Len(s.file)})
  IN  [s EXCEPT !.buffer = @ \o SubSeq(s.file, 1, got),
                !.file = SubSeq(@, got + 1, Len(@)), !.capacity = room]

Get(s) ==
  LET filled == IF s.buffer = <<>> THEN ReadBuffer(s, 1) ELSE s
      counted == [filled EXCEPT !.lines = IF s.char = "\n" THEN @ + 1 ELSE @]
  IN  IF filled.buffer = <<>> THEN [counted EXCEPT !.char = EOF]
      ELSE [counted EXCEPT !.char = Head(filled.buffer), !.buffer = Tail(@)]

RECURSIVE Ignore(_, _)
Ignore(s, count) == IF count = 0 THEN s ELSE Ignore(Get(s), count - 1)

RECURSIVE EatWhite(_)
EatWhite(s) == IF IsWhite(s.char) THEN EatWhite(Get(s)) ELSE s

(* As many characters as there are up to min, mChar among them *)
EnsureBuffer(s, min) ==
  IF Len(s.buffer) + 1 >= min THEN s ELSE ReadBuffer(s, min - (Len(s.buffer) + 1))

(* match of one character, and of a word: [s, hit] *)
MatchChar(s, c) ==
  LET at == EatWhite(s)
  IN  IF at.char = c THEN [s |-> Get(at), hit |-> TRUE] ELSE [s |-> at, hit |-> FALSE]

MatchWord(s, word) ==
  LET at == EnsureBuffer(EatWhite(s), Len(word))
      hit == /\ Len(at.buffer) + 1 >= Len(word)
             /\ at.char = word[1]
             /\ SubSeq(at.buffer, 1, Len(word) - 1) = Tail(word)
  IN  [s |-> IF hit THEN Ignore(at, Len(word)) ELSE at, hit |-> hit]

(* expect: character by character; takes more after a mistake *)
RECURSIVE Expect(_, _)
Expect(s, word) ==
  IF word = <<>> THEN [s |-> s, hit |-> TRUE]
  ELSE IF s.char = Head(word) THEN Expect(Get(s), Tail(word))
  ELSE [s |-> Get(s), hit |-> FALSE]

----------------------------------------------------------------------------
(* C++ division *)
Truncated(x, y) == IF x >= 0 THEN x \div y ELSE -((-x) \div y)

Lowest(width, signed) == IF signed THEN -(2^(width - 1)) ELSE 0
Highest(width, signed) == IF signed THEN 2^(width - 1) - 1 ELSE 2^width - 1

(* t * 10 + d can be represented. *)
Fits(t, d, positive, width, signed) ==
  IF positive THEN t <= (Highest(width, signed) - d) \div 10
  ELSE t >= Truncated(Lowest(width, signed) - d, 10)

(* The digits from here on *)
RECURSIVE ReadDigits(_, _, _, _, _)
ReadDigits(s, t, positive, width, signed) ==
  IF ~IsDigit(s.char) THEN [s |-> s, hit |-> TRUE, value |-> t]
  ELSE LET d == IF positive THEN DigitValue[s.char] ELSE -DigitValue[s.char]
       IN  IF Fits(t, d, positive, width, signed)
             THEN ReadDigits(Get(s), t * 10 + d, positive, width, signed)
             ELSE [s |-> Get(s), hit |-> FALSE, value |-> 0]

RECURSIVE SkipZeros(_)
SkipZeros(s) == IF s.char = "0" THEN SkipZeros(Get(s)) ELSE s

(* readInteger *)
ReadInteger(s0, width, signed) ==
  LET plus == MatchChar(EatWhite(s0), "+")
      minus == IF plus.hit THEN [s |-> plus.s, hit |-> FALSE] ELSE MatchChar(plus.s, "-")
      s == SkipZeros(minus.s)
      positive == ~minus.hit
  IN  IF ~IsDigit(minus.s.char) THEN [s |-> minus.s, hit |-> FALSE, value |-> 0]
      ELSE IF ~IsDigit(s.char) THEN [s |-> s, hit |-> TRUE, value |-> 0]
      ELSE IF ~positive /\ ~signed THEN [s |-> s, hit |-> FALSE, value |-> 0]
      ELSE ReadDigits(s, 0, positive, width, signed)

----------------------------------------------------------------------------
Remaining(s) ==
  (IF s.char = EOF THEN <<>> ELSE <<s.char>>) \o s.buffer \o s.file

NotCalled == [call |-> "none", word |-> <<>>, width |-> 0, signed |-> FALSE,
              hit |-> TRUE, value |-> 0]

(* Of a file or a stream, or of a string, which is all in the buffer; both *)
(* begin with a get of the first character.                                *)
Init ==
  /\ text \in Texts
  /\ \E file \in BOOLEAN :
       scanner = Get([file |-> IF file THEN text ELSE <<>>,
                      buffer |-> IF file THEN <<>> ELSE text,
                      capacity |-> IF file THEN BufferSize ELSE Max({Len(text), 1}),
                      char |-> " ", lines |-> 1])
  /\ taken = <<>>
  /\ before = <<>>
  /\ said = NotCalled

(* The scanner is s after a call, unless that has thrown. *)
Called(s, about) ==
  /\ said.hit \/ said.call \in {"none", "match"}
  /\ scanner' = s
  /\ before' = Remaining(scanner)
  /\ taken' = taken \o SubSeq(Remaining(scanner), 1,
                              Len(Remaining(scanner)) - Len(Remaining(s)))
  /\ said' = about
  /\ UNCHANGED text

CallGet == scanner.char # EOF /\ Called(Get(scanner), NotCalled)

CallMatch(word) ==
  LET r == IF Len(word) = 1 THEN MatchChar(scanner, word[1]) ELSE MatchWord(scanner, word)
  IN  Called(r.s, [NotCalled EXCEPT !.call = "match", !.word = word, !.hit = r.hit])

CallExpect(word) ==
  LET r == Expect(EatWhite(scanner), word)
  IN  Called(r.s, [NotCalled EXCEPT !.call = "expect", !.word = word, !.hit = r.hit])

CallReadInteger(width, signed) ==
  LET r == ReadInteger(scanner, width, signed)
  IN  Called(r.s, [NotCalled EXCEPT !.call = "readInteger", !.width = width,
                                    !.signed = signed, !.hit = r.hit, !.value = r.value])

CallMatchEOF ==
  LET at == EatWhite(scanner)
  IN  Called(at, [NotCalled EXCEPT !.call = "match", !.word = <<EOF>>,
                                   !.hit = at.char = EOF])

Next ==
  \/ CallGet
  \/ \E word \in Words : CallMatch(word) \/ CallExpect(word)
  \/ \E width \in Widths, signed \in BOOLEAN : CallReadInteger(width, signed)
  \/ CallMatchEOF

Spec == Init /\ [][Next]_vars

----------------------------------------------------------------------------
(* Each character is read once and in its place, however the buffer was    *)
(* moved and filled, and every newline taken is counted.                   *)
NothingLost ==
  /\ taken \o Remaining(scanner) = text
  /\ scanner.lines = 1 + Len(SelectSeq(taken, LAMBDA c : c = "\n"))

(* The text from its first character that is no white space on *)
Trimmed(s) ==
  LET at == {i \in DOMAIN s : ~IsWhite(s[i])}
  IN  IF at = {} THEN <<>> ELSE SubSeq(s, Min(at), Len(s))

(* What a text that begins with digits stands for *)
Digits(s) ==
  SubSeq(s, 1, Min({i \in 0 .. Len(s) : i = Len(s) \/ ~IsDigit(s[i + 1])}))
Number(digits) == FoldLeft(LAMBDA n, c : 10 * n + DigitValue[c], 0, digits)

(* What the last call said of the text is true: a word is found where it   *)
(* stands and nowhere else, though it may reach beyond the buffer, and an  *)
(* integer is what its digits say, or is refused if the type cannot hold   *)
(* it.                                                                     *)
AnswersFitText ==
  LET s == Trimmed(before)
      hasSign == s # <<>> /\ s[1] \in {"+", "-"}
      digits == Digits(IF hasSign THEN Tail(s) ELSE s)
      n == IF hasSign /\ s[1] = "-" THEN -Number(digits) ELSE Number(digits)
  IN  CASE said.call = "none" -> TRUE
        [] said.call = "match" /\ said.word = <<EOF>> -> said.hit <=> s = <<>>
        [] said.call \in {"match", "expect"} /\ said.word # <<EOF>> ->
             said.hit <=> IsPrefix(said.word, s)
        [] said.call = "readInteger" ->
             /\ said.hit <=> /\ digits # <<>>
                             /\ Lowest(said.width, said.signed) <= n
                             /\ n <= Highest(said.width, said.signed)
             /\ said.hit => said.value = n
=============================================================================

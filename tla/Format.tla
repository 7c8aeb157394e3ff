------------------------------- MODULE Format --------------------------------
(***************************************************************************)
(* printk()'s formatting: vsprintf() of kernel/stdio.c and the buffer that *)
(* vprintk() of kernel/printk.c gives it.                                  *)
(*                                                                         *)
(* A format is a sequence of directives, each after some literal text; the *)
(* code sees its characters.  An argument is a word of a register or of    *)
(* the stack, whatever was passed in it: reading one too many finds some   *)
(* word, and how much of a word counts is up to the directive.  The widths *)
(* of the integer types are parameters.                                    *)
(*                                                                         *)
(* A step of vsprintf()'s loop is a character, what stands between a % and *)
(* its conversion, or a conversion.  KERN_LOG_LEVEL is the highest level,  *)
(* so that nothing is held back.                                           *)
(***************************************************************************)
EXTENDS Integers, Sequences, SequencesExt

CONSTANTS
  ShortBits, IntBits, LongBits,  \* 16, 32, 64
  BufSize,                       \* 1024
  Strings,                       \* what is in memory: a function from addresses to texts
  Inputs                         \* calls: format, a sequence of directives, and args

ASSUME FormatAssumption ==
  /\ ShortBits \in Nat \ {0} /\ IntBits \in Nat /\ LongBits \in Nat
  /\ ShortBits < IntBits /\ IntBits < LongBits
  /\ BufSize \in Nat \ {0}

VARIABLES
  call,    \* the arguments of vprintk()
  fmt,     \* the characters of the format
  pos,     \* where fmt points, from 1
  arg,     \* the next of the arguments
  buf,     \* what vsprintf() has stored
  dir,     \* the directive under way: flags, width, precision, ext; at is its conversion
  stored,  \* what %n has stored, and in how many bits
  status,  \* "run", "returned", or what it does instead
  shown    \* what goes to the console

vars == <<call, fmt, pos, arg, dir, buf, stored, status, shown>>

\* Variant: the loop counts down to zero and not to one.
Pad_OneMore(c, n) == [k \in 1 .. n + 1 |-> c]

\* A character n times: while (n-- > 0).
Pad(c, n) == [k \in 1 .. n |-> c]

UInt(w, bits) == w % 2^bits
SInt(w, bits) == IF UInt(w, bits) < 2^(bits - 1) THEN UInt(w, bits) ELSE UInt(w, bits) - 2^bits

\* The characters of a directive, as they are written.
Written(d) == d.text \o <<"%">> \o d.flags \o d.size \o d.ext \o d.conv

At(p) == IF p \in DOMAIN fmt THEN fmt[p] ELSE "NUL"

printf_digits == <<"0", "1", "2", "3", "4", "5", "6", "7", "8", "9", "A", "B", "C", "D", "E", "F">>

\* The bit that makes a letter small; it is set in every digit.
Lower(c) ==
  LET capital == <<"A", "B", "C", "D", "E", "F", "X">>
      small   == <<"a", "b", "c", "d", "e", "f", "x">>
  IN  IF Contains(capital, c) THEN small[CHOOSE k \in DOMAIN capital : capital[k] = c] ELSE c

isdigit(c) == c \in ToSet(SubSeq(printf_digits, 1, 10))

None == [at |-> 0]

Init ==
  /\ call \in Inputs
  /\ fmt = FlattenSeq([k \in DOMAIN call.format |-> Written(call.format[k])])
  /\ pos = 1 /\ arg = 1
  /\ dir = None
  /\ buf = <<>> /\ shown = <<>> /\ stored = <<>>
  /\ status = "run"

-----------------------------------------------------------------------------
(***************************************************************************)
(* Numbers.                                                                *)
(***************************************************************************)

\* The digits of n, by repeated division, the last of them first in the code.
reta[n \in Nat, base \in Nat] ==
  LET digit == printf_digits[(n % base) + 1]
  IN  IF n < base THEN <<digit>> ELSE Append(reta[n \div base, base], digit)

str_num(magnitude, negative, base, width, precision, flags) ==
  LET sign   == CASE "SIGN" \notin flags -> <<>>
                  [] "SIGN" \in flags /\ negative -> <<"-">>
                  [] "SIGN" \in flags /\ ~negative /\ "+" \in flags -> <<"+">>
                  [] "SIGN" \in flags /\ ~negative /\ "+" \notin flags /\ " " \in flags -> <<" ">>
                  [] OTHER -> <<>>
      value  == IF sign = <<"-">> THEN UInt(-magnitude, LongBits) ELSE magnitude
      Case(c) == IF "LOWER" \in flags THEN Lower(c) ELSE c
      spec   == CASE "#" \in flags /\ base = 16 -> <<"0", Case("X")>>
                  [] "#" \in flags /\ base = 8 -> <<"0">>
                  [] OTHER -> <<>>
      digits == IF value = 0 /\ precision = 0 THEN <<>>
                ELSE [k \in DOMAIN reta[value, base] |-> Case(reta[value, base][k])]
      least  == Pad("0", precision - Len(digits))
      room   == width - Len(sign) - Len(spec) - Len(least) - Len(digits)
      number == least \o digits
  IN  CASE "-" \in flags -> sign \o spec \o number \o Pad(" ", room)
        [] "-" \notin flags /\ "0" \in flags -> sign \o spec \o Pad("0", room) \o number
        [] OTHER -> Pad(" ", room) \o sign \o spec \o number

\* The argument as u64, and whether it is negative.
fmt_setnum(word, ext, flags) ==
  LET signed == "SIGN" \in flags
      n == CASE ext = "l" -> SInt(word, LongBits)
             [] ext = "h" -> IF signed THEN SInt(word, ShortBits) ELSE UInt(word, ShortBits)
             [] OTHER -> IF signed THEN SInt(word, IntBits) ELSE UInt(word, IntBits)
  IN  [n |-> UInt(n, LongBits), negative |-> signed /\ ext # "h" /\ n < 0]

-----------------------------------------------------------------------------
(***************************************************************************)
(* What stands between the % and the conversion.  d.at is where fmt points *)
(* and d.arg the next argument.                                            *)
(***************************************************************************)
FlagChars == {"+", "-", " ", "#", "0"}

fmt_setflags(p) ==
  LET n == CHOOSE n \in 0 .. Len(fmt) :
             At(p + n) \notin FlagChars /\ \A k \in 0 .. n - 1 : At(p + k) \in FlagChars
  IN  [flags |-> {fmt[k] : k \in p .. p + n - 1}, at |-> p + n]

\* The value of the digits at p.
atoi_bit(p) ==
  LET n == CHOOSE n \in 1 .. Len(fmt) : ~isdigit(At(p + n)) /\ \A k \in 0 .. n - 1 : isdigit(At(p + k))
  IN  FoldLeft(LAMBDA v, c : 10 * v + (CHOOSE d \in 0 .. 9 : printf_digits[d + 1] = c), 0,
               SubSeq(fmt, p, p + n - 1))

va_arg(a, bits) == SInt(call.args[a], bits)

\* Variant: a negative width does not turn to the left.
fmt_setwidth_NoLeft(d, a) ==
  IF At(d.at) = "*" THEN [flags |-> d.flags, at |-> d.at + 1, arg |-> a + 1,
                          width |-> LET w == va_arg(a, IntBits) IN IF w < 0 THEN -w ELSE w]
  ELSE [flags |-> d.flags, at |-> d.at, arg |-> a, width |-> 0]

\* Digits are read through a copy of the pointer: fmt stays in front of them.
fmt_setwidth(d, a) ==
  CASE isdigit(At(d.at)) -> [flags |-> d.flags, at |-> d.at, arg |-> a, width |-> atoi_bit(d.at)]
    [] At(d.at) = "*" ->
         LET w == va_arg(a, IntBits)
         IN  [flags |-> IF w < 0 THEN d.flags \cup {"-"} ELSE d.flags, at |-> d.at + 1,
              arg |-> a + 1, width |-> IF w < 0 THEN -w ELSE w]
    [] OTHER -> [flags |-> d.flags, at |-> d.at, arg |-> a, width |-> 0]

\* All of a precision is read through a copy.
fmt_setprec(d) ==
  LET asked == CASE isdigit(At(d.at + 1)) -> [p |-> atoi_bit(d.at + 1), n |-> 0]
                 [] At(d.at + 1) = "*" -> [p |-> va_arg(d.arg, IntBits), n |-> 1]
                 [] OTHER -> [p |-> -1, n |-> 0]
  IN  IF At(d.at) # "." THEN [arg |-> d.arg, precision |-> -1]
      ELSE [arg |-> d.arg + asked.n, precision |-> IF asked.p < 0 THEN 0 ELSE asked.p]

fmt_setext(p) == IF At(p) \in {"h", "l"} THEN [ext |-> At(p), at |-> p + 1] ELSE [ext |-> "", at |-> p]

ParseDirective ==
  /\ status = "run" /\ dir = None /\ At(pos) = "%"
  /\ LET d == fmt_setwidth(fmt_setflags(pos + 1), arg)
         p == fmt_setprec(d)
         e == fmt_setext(d.at)
     IN  /\ dir' = [flags |-> d.flags, width |-> d.width, precision |-> p.precision, ext |-> e.ext,
                    at |-> e.at]
         /\ arg' = p.arg
  /\ UNCHANGED <<call, fmt, pos, buf, stored, status, shown>>

-----------------------------------------------------------------------------
(***************************************************************************)
(* Characters and conversions.                                             *)
(***************************************************************************)
Converts(chars) == status = "run" /\ dir # None /\ At(dir.at) \in chars

\* Text is stored, the next argument is a, and the loop goes on behind p.  The
\* buffer has an end.
Put(text, p, a) ==
  /\ buf' = buf \o text
  /\ pos' = p + 1 /\ arg' = a /\ dir' = None
  /\ status' = IF Len(buf') > BufSize THEN "overrun" ELSE "run"
  /\ UNCHANGED <<call, fmt, shown>>

StopAs(how) == status' = how /\ UNCHANGED <<call, fmt, pos, arg, dir, buf, stored, shown>>

Literal ==
  /\ status = "run" /\ dir = None /\ At(pos) \notin {"%", "NUL"}
  /\ Put(<<At(pos)>>, pos, arg)
  /\ stored' = stored

\* What fmt_setnum() and str_num() make of an argument.
NumberText(word, width) ==
  LET conv  == At(dir.at)
      base  == CASE conv \in {"x", "X"} -> 16 [] conv = "o" -> 8 [] OTHER -> 10
      flags == dir.flags \cup (IF conv \in {"d", "i"} THEN {"SIGN"} ELSE {})
                         \cup (IF conv = "x" THEN {"LOWER"} ELSE {})
      num   == fmt_setnum(word, dir.ext, flags)
  IN  str_num(num.n, num.negative, base, width, dir.precision, flags)

Number ==
  /\ Converts({"d", "i", "u", "o", "x", "X"})
  /\ Put(NumberText(call.args[arg], dir.width), dir.at, arg + 1)
  /\ stored' = stored

\* The character of an int.
Char(w) == printf_digits[(UInt(w, ShortBits) % 16) + 1]

\* Without '-' the width is counted down past zero, and blanks are stored for ever.
Character ==
  /\ Converts({"c"})
  /\ \/ /\ "-" \in dir.flags
        /\ Put(<<Char(call.args[arg])>>, dir.at, arg + 1)
        /\ stored' = stored
     \/ "-" \notin dir.flags /\ StopAs("runaway")

\* The string, and then a number: the case breaks out of the switch.  The loops
\* that pad it leave the width below the string's length.
String ==
  /\ Converts({"s"})
  /\ call.args[arg] \in DOMAIN Strings
  /\ LET s    == Strings[call.args[arg]]
         len  == IF dir.precision < 0 \/ Len(s) < dir.precision THEN Len(s) ELSE dir.precision
         left == "-" \in dir.flags
         rest == IF left THEN dir.width ELSE (IF len < dir.width THEN len ELSE dir.width) - 2
     IN  Put((IF left THEN <<>> ELSE Pad(" ", dir.width - len)) \o SubSeq(s, 1, len)
               \o NumberText(call.args[arg + 1], rest), dir.at, arg + 2)
  /\ stored' = stored

\* The argument is no string.
WildString == Converts({"s"}) /\ call.args[arg] \notin DOMAIN Strings /\ StopAs("stray")

Count ==
  /\ Converts({"n"})
  /\ Put(<<>>, dir.at, arg + 1)
  /\ LET bits == IF dir.ext = "l" THEN LongBits ELSE IntBits
     IN  stored' = <<bits, SInt(Len(buf), bits)>>

\* The width is never -1.
Pointer ==
  /\ Converts({"p"})
  /\ Put(str_num(UInt(call.args[arg], LongBits), FALSE, 16, dir.width, dir.precision, dir.flags),
         dir.at, arg + 1)
  /\ stored' = stored

Percent ==
  /\ Converts({"%"})
  /\ Put(<<"%">>, dir.at, arg)
  /\ stored' = stored

Conversions == {"c", "s", "d", "i", "u", "o", "n", "x", "X", "p", "%"}

Unknown ==
  /\ status = "run" /\ dir # None /\ At(dir.at) \notin Conversions \cup {"NUL"}
  /\ Put(<<"%", At(dir.at)>>, dir.at, arg)
  /\ stored' = stored

\* fmt passes the end of the format and the loop goes on behind it.
Trailing == Converts({"NUL"}) /\ StopAs("stray")

vprintk ==
  /\ status = "run" /\ dir = None /\ At(pos) = "NUL"
  /\ status' = IF Len(buf) + 1 > BufSize THEN "overrun" ELSE "returned"
  /\ shown' = IF Len(buf) < BufSize - 1 THEN buf ELSE SubSeq(buf, 1, BufSize - 1)
  /\ UNCHANGED <<call, fmt, pos, arg, dir, buf, stored>>

Next ==
  \/ Literal \/ ParseDirective \/ Number \/ Character \/ String \/ WildString \/ Count \/ Pointer
  \/ Percent \/ Unknown \/ Trailing \/ vprintk

\* The caller runs on until printk() returns.
Spec == Init /\ [][Next]_vars /\ WF_vars(Next)

-----------------------------------------------------------------------------
(***************************************************************************)
(* What the C standard says of a call, directive by directive, for the     *)
(* conversions of integers, `%%', `%n' and `%-c'.  Left out, because the   *)
(* code does something else: a width or a precision in digits, `%s', `%c'  *)
(* to the right, `#' of zero and `h' of a negative number; and where the   *)
(* standard leaves it open, `%p' and `#' of a decimal number.              *)
(***************************************************************************)

\* The digits of n without leading zeros, by their weights.
Digits(n, base, small) ==
  LET count == CHOOSE k \in 1 .. LongBits : n < base^k /\ (k = 1 \/ base^(k - 1) <= n)
  IN  [k \in 1 .. count |->
         LET digit == printf_digits[((n \div base^(count - k)) % base) + 1]
         IN  IF small THEN Lower(digit) ELSE digit]

Times(c, n) == [k \in 1 .. n |-> c]

\* What goes in front of them, and a field of `width' for the whole.
Numeral(flags, width, conv, n) ==
  LET small  == conv = "x"
      base   == CASE conv \in {"x", "X"} -> 16 [] conv = "o" -> 8 [] OTHER -> 10
      digits == Digits(IF n < 0 THEN -n ELSE n, base, small)
      signs  == IF conv \in {"d", "i"}
                THEN (IF n < 0 THEN <<"-">> ELSE SelectSeq(<<"+", " ">>, LAMBDA s : s \in flags))
                ELSE <<>>
      front  == (IF signs = <<>> THEN <<>> ELSE <<Head(signs)>>)
                \o (IF "#" \notin flags THEN <<>>
                    ELSE CASE conv = "o" -> <<"0">> [] conv \in {"x", "X"} -> <<"0", conv>>
                           [] OTHER -> <<>>)
      field  == IF width < 0 THEN -width ELSE width
      blank  == field - Len(front) - Len(digits)
  IN  IF width < 0 \/ "-" \in flags THEN front \o digits \o Times(" ", blank)
      ELSE IF "0" \in flags THEN front \o Times("0", blank) \o digits
      ELSE Times(" ", blank) \o front \o digits

\* One more directive: whether it is one of those above, the next argument, the text.
Meant(sofar, d) ==
  LET conv  == IF d.conv = <<>> THEN "NUL" ELSE d.conv[1]
      flags == ToSet(d.flags)
      star  == d.size = <<"*">>
      a     == sofar.arg + (IF star THEN 1 ELSE 0)
      width == IF star THEN SInt(call.args[sofar.arg], IntBits) ELSE 0
      bits  == CASE d.ext = <<"l">> -> LongBits [] d.ext = <<"h">> -> ShortBits [] OTHER -> IntBits
      n     == IF conv \in {"d", "i"} THEN SInt(call.args[a], bits) ELSE UInt(call.args[a], bits)
      integer == conv \in {"d", "i", "u", "o", "x", "X"}
  IN  [known |-> /\ sofar.known
                 /\ d.size \in {<<>>, <<"*">>}
                 /\ \/ integer /\ ("#" \in flags => n # 0 /\ conv \in {"o", "x", "X"})
                              /\ (d.ext = <<"h">> => n >= 0)
                    \/ conv = "%" /\ d.size = <<>> /\ d.ext = <<>>
                    \/ conv = "n" /\ d.ext # <<"h">>
                    \/ conv = "c" /\ d.size = <<>> /\ d.ext = <<>> /\ "-" \in flags,
       arg   |-> IF conv = "%" THEN a ELSE a + 1,
       text  |-> sofar.text \o d.text
                 \o CASE integer -> Numeral(flags, width, conv, n)
                      [] conv = "%" -> <<"%">>
                      [] conv = "c" -> <<Char(call.args[a])>>
                      [] OTHER -> <<>>]

Meaning == FoldLeft(Meant, [known |-> TRUE, arg |-> 1, text |-> <<>>], call.format)

\* What is printed is what the format and the arguments mean: the right digits
\* of the right argument at the right width, for every mixture of flags, sizes
\* and signs, and no directive throws the next one out of step.
PrintsRight == status = "returned" /\ Meaning.known => shown = Meaning.text /\ arg = Meaning.arg

\* printk() returns, and within its buffer, if what it should print fits with
\* the NUL behind it.
Returns == status = "run" /\ pos = 1 /\ Meaning.known /\ Len(Meaning.text) < BufSize ~> status = "returned"

=============================================================================

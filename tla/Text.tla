--------------------------------- MODULE Text ---------------------------------
(***************************************************************************)
(* The kernel's two ways to put numbers and strings into a buffer:         *)
(* get_vsf of DirectFrameWriter.cpp with itoa, utoa and uhextoa, and       *)
(* debug::print of Log.cpp.  A character is a string of length one.        *)
(***************************************************************************)
EXTENDS Integers, SequencesExt

CONSTANTS
  U32,          \* 2^32, the range of the numbers get_vsf prints
  TMP,          \* sizeof(tmp), what a number is formatted in
  BUFFER,       \* sizeof(buffer) of draw_string_f
  DEC_BUF,      \* sizeof(buf) of debug::print, in decimal ...
  HEX_DIGITS    \* ... and the digits it writes in hexadecimal

Numeral == <<"0", "1", "2", "3", "4", "5", "6", "7", "8", "9", "A", "B", "C", "D", "E", "F">>

\* v, and what is left of it after each of n divisions.
Quotients(v, base, n) ==
  LET q[k \in 0..n] == IF k = 0 THEN v ELSE q[k - 1] \div base IN q

\* A numeral in tmp leaves room for its sign.
ASSUME NumberAssumption ==
  /\ {U32, TMP, BUFFER, DEC_BUF, HEX_DIGITS} \subseteq Nat \ {0} /\ TMP > 2 /\ DEC_BUF > 2
  /\ Quotients(U32 - 1, 10, TMP - 2)[TMP - 2] = 0

\* The last n digits of v.
Digits(v, base, n) ==
  LET q == Quotients(v, base, n) IN [i \in 1..n |-> Numeral[(q[n - i] % base) + 1]]

\* Faulty: 0 has no digits.
digits_of_nothing(v, base, room) ==
  LET q == Quotients(v, base, room) IN
  Digits(v, base, Min({k \in 0..room : k = room \/ q[k] = 0}))

\* The loop all of them have: digits from the right while there is room.
digits(v, base, room) ==
  IF v = 0 THEN <<"0">> ELSE digits_of_nothing(v, base, room)

utoa(v) == digits(v, 10, TMP - 1)
uhextoa(v) == digits(v, 16, TMP - 1)

\* The magnitude is negated at its width; the sign needs room, too.
itoa(v) ==
  LET s == digits((IF v < 0 THEN -v ELSE v) % U32, 10, TMP - 1) IN
  IF v < 0 /\ Len(s) < TMP - 1 THEN <<"-">> \o s ELSE s

null == <<"[", "n", "u", "l", "l", "]">>

\* What a directive puts into the buffer; the arguments it takes.
Directives == {"c", "s", "d", "u", "x"}
directive(c, arg) ==
  CASE c = "c" -> arg.str
    [] c = "s" -> IF arg.nullptr THEN null ELSE arg.str
    [] c = "d" -> itoa(IF arg.int < U32 \div 2 THEN arg.int ELSE arg.int - U32)
    [] c = "u" -> utoa(arg.int)
    [] c = "x" -> uhextoa(arg.int)

Cut(s, n) == SubSeq(s, 1, Min({n, Len(s)}))

\* Faulty: no byte is kept for the end of the string.
put_to_the_end(buffer, s) == Cut(buffer \o s, BUFFER)

\* Characters go in as long as one byte is left for the end of the string.
put(buffer, s) == Cut(buffer \o s, BUFFER - 1)

\* One character of the format: a text character, a '%', or what follows one.
step(st, c) ==
  IF ~st.percent
  THEN IF c = "%" THEN [st EXCEPT !.percent = TRUE] ELSE [st EXCEPT !.buffer = put(@, <<c>>)]
  ELSE IF c \in Directives
       THEN [percent |-> FALSE, args |-> Tail(st.args),
             buffer |-> put(st.buffer, directive(c, Head(st.args)))]
       ELSE [st EXCEPT !.percent = FALSE, !.buffer = put(@, <<c>>)]

\* After each character of the format.
Steps(fmt, args) ==
  LET st[i \in 0..Len(fmt)] ==
        IF i = 0 THEN [percent |-> FALSE, args |-> args, buffer |-> <<>>]
        ELSE step(st[i - 1], fmt[i])
  IN st

get_vsf(fmt, args) == Steps(fmt, args)[Len(fmt)].buffer

\* Leading zeroes are skipped, except the last.
SkipZeroes(s) ==
  LET from == CHOOSE i \in 1..Len(s) :
                /\ i = Len(s) \/ s[i] # "0"
                /\ \A j \in 1..(i - 1) : s[j] = "0"
  IN SubSeq(s, from, Len(s))

print(value, hex) ==
  IF hex
  THEN <<"0", "x">>
       \o SkipZeroes(Digits(value, 16, HEX_DIGITS)) \o <<"\n">>
  ELSE digits(value, 10, DEC_BUF - 2) \o <<"\n">>

------------------------------------------------------------------------------
(* What the two are for.                                                   *)

\* The numeral of v: as long as it must be, and its digits add up to v.
IsNumeral(s, v, base) ==
  LET at(i) == (CHOOSE n \in 1..16 : Numeral[n] = s[i]) - 1
      sum[i \in 0..Len(s)] == IF i = 0 THEN 0 ELSE sum[i - 1] * base + at(i)
  IN /\ Len(s) > 0 /\ (Len(s) > 1 => s[1] # "0")
     /\ v = sum[Len(s)]

\* Position i of a format is what follows a '%': an odd number of them ends before it.
DirectiveAt(fmt, i) ==
  \E j \in 1..(i - 1) :
    /\ (i - j) % 2 = 1 /\ \A k \in j..(i - 1) : fmt[k] = "%"
    /\ j = 1 \/ fmt[j - 1] # "%"

\* The arguments taken up to position i.
Taken(fmt, i) == Cardinality({j \in 1..i : DirectiveAt(fmt, j) /\ fmt[j] \in Directives})

\* A format with each directive replaced by its argument, however long.
Expanded(s) ==
  LET piece(i) == IF DirectiveAt(s.fmt, i)
                  THEN IF s.fmt[i] \in Directives
                       THEN directive(s.fmt[i], s.args[Taken(s.fmt, i)]) ELSE <<s.fmt[i]>>
                  ELSE IF s.fmt[i] = "%" THEN <<>> ELSE <<s.fmt[i]>>
  IN FlattenSeq([i \in DOMAIN s.fmt |-> piece(i)])
==============================================================================

-------------------------------- MODULE Texts --------------------------------
(***************************************************************************)
(* Texts are sequences of bytes.                                           *)
(***************************************************************************)
EXTENDS Integers, Sequences

Text == Seq(Int)

\* A text, spelled out for the proofs, which have no induction to derive it.
AsText(t) == IF t \in Text THEN t ELSE <<>>

\* fmt.Sprint of a number, in decimal: an int64 has at most 19 digits.
Digits(n) == LET w == CHOOSE w \in 1..19 : n < 10^w /\ \A v \in 1..w - 1 : n >= 10^v
             IN [k \in 1..w |-> 48 + ((n \div 10^(w - k)) % 10)]
Sprint(n) == AsText(IF n >= 0 THEN Digits(n) ELSE <<45>> \o Digits(-n))
SprintBool(b) == IF b = 0 THEN <<102, 97, 108, 115, 101>> ELSE <<116, 114, 117, 101>>

\* strconv.ParseInt with base r: a sign and digits.
Unsigned(t)   == IF t # <<>> /\ t[1] \in {43, 45} THEN Tail(t) ELSE t
IsWhole(t, r) == LET d == Unsigned(t) IN d # <<>> /\ \A k \in 1..Len(d) : d[k] \in 48..47 + r
Whole(t, r) ==
  LET d == Unsigned(t)
      upto[n \in 0..Len(d)] == IF n = 0 THEN 0 ELSE r * upto[n - 1] + d[n] - 48
  IN IF t[1] = 45 THEN -upto[Len(d)] ELSE upto[Len(d)]

\* With base 0: decimal digits, or octal ones after a zero.  The prefixes 0x, 0o and
\* 0b and digits with underscores are not modelled.
Radix(t)    == IF Len(Unsigned(t)) > 1 /\ Unsigned(t)[1] = 48 THEN 8 ELSE 10
IsNumber(t) == IsWhole(t, Radix(t))
Number(t)   == Whole(t, Radix(t))

\* Concatenation of a sequence of texts.
Concat(ts) ==
  LET upto[n \in 0..Len(ts)] == IF n = 0 THEN <<>> ELSE upto[n - 1] \o ts[n]
  IN AsText(upto[Len(ts)])

Separated(ts, sep) == Concat([k \in 1..Len(ts) |-> IF k = 1 THEN ts[k] ELSE sep \o ts[k]])

\* strings.HasPrefix, strings.Contains, strings.Split and strings.Replace.
HasPrefixAt(s, t, n) == n + Len(t) - 1 <= Len(s) /\ SubSeq(s, n, n + Len(t) - 1) = t
HasText(s, t) == \E n \in 1..Len(s) + 1 : HasPrefixAt(s, t, n)
AsTexts(ts)   == IF ts \in Seq(Text) THEN ts ELSE <<>>
SplitBy(s, sep) ==
  LET scan[n \in 0..Len(s)] ==
        IF n = 0 THEN [parts |-> << <<>> >>, skip |-> 0]
        ELSE LET b == scan[n - 1] IN
             IF b.skip > 0 THEN [b EXCEPT !.skip = @ - 1]
             ELSE IF HasPrefixAt(s, sep, n)
             THEN [parts |-> Append(b.parts, <<>>), skip |-> Len(sep) - 1]
             ELSE [b EXCEPT !.parts[Len(b.parts)] = Append(@, s[n])]
  IN AsTexts(IF sep = <<>> THEN [n \in 1..Len(s) |-> <<s[n]>>] ELSE scan[Len(s)].parts)
\* An empty text is found before every byte and at the end.
Replaced(s, old, new) ==
  AsText(IF old = <<>> /\ s # <<>> THEN new \o Separated(SplitBy(s, old), new) \o new
         ELSE IF old = <<>> THEN new ELSE Separated(SplitBy(s, old), new))

\* The order of sort.Strings.
Less(s, t) == \E n \in 0..Len(s) :
  /\ n <= Len(t) /\ SubSeq(s, 1, n) = SubSeq(t, 1, n)
  /\ \/ n = Len(s) /\ n < Len(t)
     \/ n < Len(s) /\ n < Len(t) /\ s[n + 1] < t[n + 1]
=============================================================================

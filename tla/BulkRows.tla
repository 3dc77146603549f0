------------------------------ MODULE BulkRows ------------------------------
(***************************************************************************)
(* What load_data does to values (_bulk.py): rows become delimited text    *)
(* that the backend reads back, and a NUMERIC column is sized from the     *)
(* values it is to hold.                                                   *)
(*                                                                         *)
(* A text is a sequence of characters.  A number is written as the digits  *)
(* before and after the point and an exponent.                             *)
(***************************************************************************)
EXTENDS Integers, Sequences, SequencesExt, FiniteSetsExt

LF == "\n"
CR == "\r"
None == "none"
Null == <<None>>       \* the value that is no text

-----------------------------------------------------------------------------
(* Rows as delimited text *)

NULL_MARKER == <<"\\", "N">>

\* What build_options() lets pass, of these characters
LoadOptions(chars) ==
  {o \in [delimiter : chars \ {LF, CR}, escape_char : (chars \ {LF, CR}) \cup {None}] :
     o.delimiter # o.escape_char}

\* _conv_text(): the NULL marker is not a text unless the escape character changes it.
Storable(o, text) == text # NULL_MARKER \/ o.escape_char = "\\"

\* _escaper(): without an escape character nothing special may occur.
Special(o) == {o.delimiter, LF, CR} \cup ({o.escape_char} \ {None})
Escapable(o, text) == o.escape_char # None \/ ToSet(text) \cap Special(o) = {}

\* Mutant: a line break is left as it is.
EscapedButLineBreaks(o, text) ==
  FlattenSeq([i \in DOMAIN text |->
    IF text[i] \in Special(o) \ {LF} THEN <<o.escape_char, text[i]>> ELSE <<text[i]>>])
Escaped(o, text) ==
  FlattenSeq([i \in DOMAIN text |->
    IF text[i] \in Special(o) THEN <<o.escape_char, text[i]>> ELSE <<text[i]>>])

\* RowRenderer: a row that has a value that cannot be represented is refused.
Accepts(o, row) ==
  \A i \in DOMAIN row : row[i] # Null => Storable(o, row[i]) /\ Escapable(o, row[i])

Line(o, row) ==
  LET field(i) == IF row[i] = Null THEN NULL_MARKER ELSE Escaped(o, row[i])
  IN  FoldLeft(LAMBDA line, i : line \o <<o.delimiter>> \o field(i),
               field(1), [i \in 1 .. Len(row) - 1 |-> i + 1])

Render(o, rows) == FlattenSeq([i \in DOMAIN rows |-> Line(o, rows[i]) \o <<LF>>])

\* The backend, with the options of insert_sql(): DELIMITER, ESCAPECHAR, NULLVALUE '\N'.
\* A field is NULL when its characters, as they come, are the marker.
Parsed(o, text) ==
  LET start == [rows |-> <<>>, row |-> <<>>, field |-> <<>>, raw |-> <<>>, escaped |-> FALSE]
      value(s) == IF s.raw = NULL_MARKER THEN Null ELSE s.field
      fieldEnds(s) == [s EXCEPT !.row = Append(@, value(s)), !.field = <<>>, !.raw = <<>>]
      rowEnds(s) == [start EXCEPT !.rows = Append(s.rows, fieldEnds(s).row)]
      takes(s, c) == [s EXCEPT !.field = Append(@, c), !.raw = Append(@, c), !.escaped = FALSE]
      step(s, c) == CASE s.escaped -> takes(s, c)
                      [] c = o.escape_char ->
                           [s EXCEPT !.escaped = TRUE, !.raw = Append(@, c)]
                      [] c = o.delimiter -> fieldEnds(s)
                      [] c = LF -> rowEnds(s)
                      [] OTHER -> takes(s, c)
  IN  FoldLeft(step, start, text).rows

-----------------------------------------------------------------------------
(* Sizing a NUMERIC column *)

\* A Decimal: the integer its digits make, and the exponent of its last digit
Digits(n) == IF n = 0 THEN 1 ELSE CHOOSE d \in 1 .. 9 : 10^(d-1) <= n /\ n < 10^d

\* Decimal.normalize() drops zeros at the end.
Normalised(d) ==
  IF d.digits = 0 THEN [digits |-> 0, exponent |-> 0]
  ELSE LET zeros == Max({z \in 0 .. Digits(d.digits) - 1 : d.digits % 10^z = 0})
       IN  [digits |-> d.digits \div 10^zeros, exponent |-> d.exponent + zeros]

\* Digits before the point and places after it
_decimal_shape(d) ==
  LET count == Digits(d.digits) IN
  IF d.exponent >= 0 THEN [digits |-> count + d.exponent, places |-> 0]
  ELSE [digits |-> Max({count + d.exponent, 0}), places |-> -d.exponent]

\* Mutant: the column is as wide as its widest value.
WideAsWidest(shapes) ==
  [precision |-> Max({s.digits + s.places : s \in shapes} \cup {1}),
   scale |-> Max({s.places : s \in shapes})]
Holding(shapes) ==
  LET digits == Max({s.digits : s \in shapes})
      scale == Max({s.places : s \in shapes})
  IN  [precision |-> Max({digits + scale, 1}), scale |-> scale]

\* _infer_column_type(), for values that are Decimals or integers
InferredFromDecimals(values) == Holding({_decimal_shape(Normalised(d)) : d \in values})

\* _conv_numeric()
Fits(type, d) ==
  LET shape == _decimal_shape(Normalised(d))
  IN  shape.places <= type.scale /\ shape.digits <= type.precision - type.scale

\* A number as text: digits, then perhaps a point and digits, then perhaps an exponent
NumberText(whole, point, frac, exp) == [whole |-> whole, point |-> point, frac |-> frac, exp |-> exp]
Number(digits) == FoldLeft(LAMBDA n, d : 10 * n + d, 0, digits)
DecimalOf(t) == [digits |-> Number(t.whole \o t.frac),
                 exponent |-> t.exp - Len(t.frac)]

\* _infer_string_column() looks at the text: leading zeros do not count, and an exponent,
\* "e" and one digit, counts like digits on the side it is written on.
ShapeOfText(t) ==
  LET zeros == Max({z \in 0 .. Len(t.whole) : \A i \in 1 .. z : t.whole[i] = 0})
      letters == IF t.exp = 0 THEN 0 ELSE 2
  IN  [digits |-> Len(t.whole) - zeros + (IF t.point THEN 0 ELSE letters),
       places |-> Len(t.frac) + (IF t.point THEN letters ELSE 0)]

\* Integers alone, and numbers with an exponent but no point among them, are no NUMERIC.
InferredFromTexts(texts) == Holding({ShapeOfText(t) : t \in texts})

-----------------------------------------------------------------------------
(* What load_data() is given; nothing changes it. *)

Chars == {"a", "N", "\\", "|", "^", LF}
Texts == BoundedSeq(Chars, 2)                    \* bound: texts of two characters

\* build_options() also lets pass a delimiter or an escape character that is part of the
\* NULL marker; those make "\N" mean something else and are left out.
Sound(o) == o.delimiter \notin {"\\", "N"} /\ o.escape_char # "N"

Rows(o, rows) == [what |-> "rows", options |-> o, rows |-> rows]
GivenRows ==
  UNION {{Rows(o, <<<<v, w>>>>), Rows(o, <<<<v>>, <<w>>>>)} :
           o \in {p \in LoadOptions({"\\", "|", "^", "N"}) : Sound(p) /\ p.delimiter = "|"},
           v \in Texts \cup {Null}, w \in Texts \cup {Null}}

\* bound: numbers with two digits on either side and an exponent of one digit
DigitStrings == BoundedSeq({0, 5}, 2)
NumberTexts ==
  {t \in {NumberText(w, p, f, e) : w \in DigitStrings, p \in BOOLEAN, f \in DigitStrings,
                                  e \in {0, 1}} :
     t.whole \o t.frac # <<>> /\ (t.point \/ t.frac = <<>>)}

GivenNumbers == {[what |-> "numbers", texts |-> {a, b}] : a, b \in NumberTexts}
GivenNothing == [what |-> "nothing"]

VARIABLE given

\* Whatever load_data() accepts, the backend reads back the rows it was given: the same
\* texts, NULL where None was and nowhere else, the same number of rows and of fields.
RowsSurvive ==
  given.what = "rows" /\ (\A i \in DOMAIN given.rows : Accepts(given.options, given.rows[i])) =>
    Parsed(given.options, Render(given.options, given.rows)) = given.rows

\* A column sized for Decimals takes every value it was sized for.  One that is sized for
\* texts without an exponent does, too, when it has a digit before the point or no value
\* is zero: a zero has a digit before its point, but none that was counted.
InferredTypeFits ==
  given.what = "numbers" =>
    LET decimals == {DecimalOf(t) : t \in given.texts}
        type == InferredFromTexts(given.texts)
    IN  /\ \A d \in decimals : Fits(InferredFromDecimals(decimals), d)
        /\ (\E t \in given.texts : t.point) /\ (\A t \in given.texts : t.exp = 0) =>
             \A d \in decimals : type.precision > type.scale \/ d.digits # 0 => Fits(type, d)

=============================================================================

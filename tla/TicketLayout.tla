---------------------------- MODULE TicketLayout ----------------------------
(***************************************************************************)
(* How a message and an OFP ticket are laid out in columns                 *)
(* (printing/base.py, printing/formatter.py, simbrief/tickets.py).  A text *)
(* is a sequence of marks: 0 is a blank, every other number is a letter of *)
(* its own, so that a lost or a moved letter shows.                        *)
(***************************************************************************)
EXTENDS Integers, Sequences, SequencesExt

CONSTANTS
  Advance,       \* widths in dots of a rendered glyph
  Scale,         \* widths of a printer's own glyph, in units of its font
  Override,      \* columns the user sets, 0 for none
  Gap,           \* blanks before a word
  WordLength(_), \* lengths of a word, given the columns
  MaxWords       \* bound on the words of a line

ASSUME LayoutAssumption ==
  /\ Advance \subseteq Nat \ {0} /\ Scale \subseteq 1..8
  /\ Override \subseteq {0} \cup 16..80 /\ Gap \subseteq Nat
  /\ \A width \in 16..576 : WordLength(width) \subseteq Nat \ {0}
  /\ MaxWords \in Nat

VARIABLES
  paper,    \* the PrinterSettings
  words,    \* a line of text: its words, and the blanks before each
  known,    \* the fields the flight plan has, of those a ticket may leave out
  laid      \* what was made of them: rows, a label and value, and tickets

layoutVars == <<paper, words, known, laid>>

Paper == [width : {58, 80}, font : {"a", "b"}, mode : {"bitmap", "native"},
          scale : Scale, override : Override, advance : Advance]

-----------------------------------------------------------------------------
(* Columns.                                                                *)

Dots == IF paper.width = 58 THEN 384 ELSE 576
LeftInset == 4

AtLeast16(n) == IF n < 16 THEN 16 ELSE n

\* Glyphs are monospaced: the longest row that fits.
ColumnsForBitmap == AtLeast16((Dots - LeftInset) \div paper.advance)

FontColumns ==
  IF paper.font = "b" THEN IF paper.width = 58 THEN 42 ELSE 64
                      ELSE IF paper.width = 58 THEN 32 ELSE 48

CharactersPerLine ==
  LET cols == IF paper.override # 0 THEN paper.override
              ELSE IF paper.mode = "bitmap" THEN ColumnsForBitmap ELSE FontColumns
  IN IF paper.mode = "native" /\ paper.scale > 1 THEN AtLeast16(cols \div paper.scale)
                                                 ELSE cols

\* The dots a column takes on the paper.
Cell ==
  IF paper.mode = "bitmap" THEN paper.advance
  ELSE paper.scale * (IF paper.font = "b" THEN 9 ELSE 12)

-----------------------------------------------------------------------------
(* _wrap_lines.                                                            *)

Blanks(n) == [i \in 1..n |-> 0]
Word(i, n) == [j \in 1..n |-> 1000 * i + j]

\* The blanks and the words of a line, in turn, and the line they make up.
Tokens(line) ==
  FlattenSeq([i \in DOMAIN line |-> <<Blanks(line[i].gap), Word(i, line[i].length)>>])
TextOf(line) == FlattenSeq(Tokens(line))

Letters(text) ==
  FlattenSeq([i \in DOMAIN text |-> IF text[i] = 0 THEN <<>> ELSE <<text[i]>>])

\* Blanks at the end of a row are dropped.
Stripped(row) == SubSeq(row, 1, SelectLastInSeq(row, LAMBDA mark : mark # 0))

RowOf(current) == IF current = <<>> THEN <<>> ELSE <<Stripped(current)>>

Chunks(token, width) ==
  [i \in 1..((Len(token) + width - 1) \div width) |->
     SubSeq(token, (i - 1) * width + 1, IF i * width < Len(token) THEN i * width
                                                                  ELSE Len(token))]

\* Blanks before the first word of a row are dropped.
PlaceBlanks(done, token) ==
  IF done.current = <<>> THEN done ELSE [done EXCEPT !.current = @ \o token]

\* Bug: a word that is too long for a row is cut off at its end.
PlaceCut(done, token, width) ==
  IF Len(done.current \o token) <= width THEN [done EXCEPT !.current = @ \o token]
  ELSE [rows |-> done.rows \o RowOf(done.current),
        current |-> SubSeq(token, 1, IF Len(token) < width THEN Len(token) ELSE width)]

PlaceWord(done, token, width) ==
  IF Len(token) > width
    THEN [rows |-> done.rows \o RowOf(done.current) \o Chunks(token, width),
          current |-> <<>>]
  ELSE IF Len(done.current \o token) <= width
    THEN [done EXCEPT !.current = @ \o token]
  ELSE [rows |-> done.rows \o RowOf(done.current), current |-> token]

Place(done, token, width) ==
  IF Letters(token) = <<>> THEN PlaceBlanks(done, token)
                           ELSE PlaceWord(done, token, width)

\* The rows complete so far and the one being filled, after all tokens.
Filled(tokens, width) ==
  LET done[i \in 0..Len(tokens)] ==
        IF i = 0 THEN [rows |-> <<>>, current |-> <<>>]
                 ELSE Place(done[i - 1], tokens[i], width)
  IN done[Len(tokens)]

WrapLines(line, width) ==
  IF Len(TextOf(line)) <= width THEN <<TextOf(line)>>
  ELSE LET done == Filled(Tokens(line), width)
       IN done.rows \o RowOf(done.current)

-----------------------------------------------------------------------------
(* _key_value: the first word is the label, the last one the value.        *)

RightJustified(value, width) ==
  SubSeq(Blanks(IF Len(value) < width THEN width - Len(value) ELSE 0) \o value, 1, width)

KeyValue(label, value, width) ==
  IF Len(label) + Len(value) >= width
    THEN <<label, RightJustified(value, width)>>
    ELSE <<label \o Blanks(width - Len(label) - Len(value)) \o value>>

Label(line) == Word(1, line[1].length)
Value(line) == Word(Len(line), line[Len(line)].length)

-----------------------------------------------------------------------------
(* The tickets: the rows of each, "-" and "=" are dividers.                *)

Schedule == {"DATE", "STD", "STA"}
Optional == Schedule \cup {"DEP RWY", "LDW", "TRIP FUEL", "AVG WIND", "AVG ISA"}

IfKnown(row, plan) == IF row \in plan THEN <<row>> ELSE <<>>
Dated(plan) == IfKnown("DATE", plan) \o IfKnown("STD", plan) \o IfKnown("STA", plan)
Winds(plan) == IfKnown("AVG WIND", plan) \o IfKnown("AVG ISA", plan)
\* The code asks for a schedule's texts or its departure; a plan with an
\* arrival time has its text too (models.py).
BeforeDivider(rows) == IF rows = <<>> THEN <<>> ELSE rows \o <<"-">>
AfterDivider(rows) == IF rows = <<>> THEN <<>> ELSE <<"-">> \o rows

FlightPlanTicket(plan) ==
  <<"=", "CALLSIGN", "-", "ALTN", "-">> \o Dated(plan) \o
  <<"-", "ROUTE", "-", "CRUISE", "-", "FUEL", "-", "EZFW", "ETOW", "-", "PAX", "=">>

LoadsheetTicket(plan) ==
  <<"=", "CALLSIGN", "-">> \o BeforeDivider(Dated(plan)) \o
  <<"PAX", "CARGO", "-", "ZFW", "TOW", "-", "TAKEOFF FUEL", "=">>

TakeoffDataTicket(plan) ==
  <<"=", "CALLSIGN", "-">> \o BeforeDivider(Dated(plan)) \o IfKnown("DEP RWY", plan) \o
  <<"CRZ", "-", "ZFW", "TOW">> \o IfKnown("LDW", plan) \o
  <<"-", "BLOCK FUEL">> \o IfKnown("TRIP FUEL", plan) \o <<"-", "PAX", "CARGO">> \o
  AfterDivider(Winds(plan)) \o <<"=">>

-----------------------------------------------------------------------------
Blank == [rows |-> <<>>, pair |-> <<>>, tickets |-> {}]

LayoutInit ==
  /\ paper \in Paper
  /\ words = <<>> /\ known = {} /\ laid = Blank

\* A strip is one of a message or one of a flight plan.
FormatMessage ==
  /\ laid = Blank
  /\ words' \in BoundedSeq([gap : Gap, length : WordLength(CharactersPerLine)], MaxWords)
  /\ words' # <<>> /\ \A i \in DOMAIN words' : words'[i].gap = 0 => i = 1
  /\ laid' = [Blank EXCEPT !.rows = WrapLines(words', CharactersPerLine),
                           !.pair = KeyValue(Label(words'), Value(words'),
                                             CharactersPerLine)]
  /\ UNCHANGED <<paper, known>>

RenderTickets ==
  /\ laid = Blank
  /\ known' \in SUBSET Optional
  /\ laid' = [Blank EXCEPT !.tickets = {LoadsheetTicket(known'), TakeoffDataTicket(known'),
                                        FlightPlanTicket(known')}]
  /\ UNCHANGED <<paper, words>>

LayoutNext == FormatMessage \/ RenderTickets

LayoutSpec == LayoutInit /\ [][LayoutNext]_layoutVars

-----------------------------------------------------------------------------
Divider == {"-", "="}

\* The columns fit on the paper (unless the user or the floor of 16 sets them).
\* No row is wider than the columns, every letter of the line is on the strip
\* once and in its place; a label and its value never touch, and lose nothing
\* if each fits in a row.  A ticket has each row the plan has data for, and
\* only the flight plan, printed without a schedule, has an empty section.
LayoutFits ==
  LET width == CharactersPerLine IN
  /\ \/ paper.override # 0 \/ width = 16
     \/ width * Cell + (IF paper.mode = "bitmap" THEN LeftInset ELSE 0) <= Dots
  /\ \A i \in DOMAIN laid.rows : Len(laid.rows[i]) <= width
  /\ Letters(FlattenSeq(laid.rows)) = Letters(TextOf(words))
  /\ Len(laid.pair) = 1 => Len(laid.pair[1]) = width /\ 0 \in Range(laid.pair[1])
  /\ words # <<>> /\ Len(Value(words)) <= width
       => Letters(FlattenSeq(laid.pair)) = Label(words) \o Value(words)
  /\ \A ticket \in laid.tickets :
       /\ known \cap Schedule \subseteq Range(ticket)
       /\ \A i \in 2..Len(ticket) : {ticket[i - 1], ticket[i]} \subseteq Divider
            => ticket = FlightPlanTicket(known) /\ Schedule \cap known = {}
=============================================================================

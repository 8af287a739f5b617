------------------------------- MODULE Lexer --------------------------------
(***************************************************************************)
(* The lexer: each call of next() skips blanks and comments and scans one  *)
(* token.  The source is a sequence of bytes, reduced to what the lexer    *)
(* tells apart; a keyword is one letter of its own, since only its being a *)
(* word of letters matters.  In UTF-8 a Tibetan digit is "E0" "BC" "A0"    *)
(* and the tsheg, the point between syllables, "E0" "BC" "8B".             *)
(***************************************************************************)
EXTENDS Integers, Sequences, SequencesExt, FiniteSetsExt

CONSTANTS
    Sources,     \* the sources: [bytes |-> .., means |-> ..]
    Keywords     \* the letters that stand for keywords

\* The end of the source is no byte of it, and no letter is a line break.
ASSUME SourcesAssumption ==
    /\ {"EOF", "\n"} \intersect Keywords = {}
    /\ \A s \in Sources : s.bytes \in Seq(ToSet(s.bytes)) /\ "EOF" \notin ToSet(s.bytes)

VARIABLES
    source,
    cursor,      \* currentOffset_, line_ and column_
    token,       \* what next() returned last
    behind,      \* history: where the cursor was before that
    depth,       \* interpolationDepth_
    unterminated,  \* "Unterminated string." was reported
    open,        \* history: the braces that are open; "text" for one inside a string
    nested       \* history: a string with braces began inside such a brace

lexVars == <<source, cursor, token, behind, depth, unterminated, open, nested>>

Byte(i) == IF i < Len(source.bytes) THEN source.bytes[i + 1] ELSE "EOF"
\* Mutant of TibetanDigit: the last byte of the character is not looked at.
TibetanDigitTwoBytes(i) == Byte(i) = "E0" /\ Byte(i + 1) = "BC"
TibetanDigit(i) == Byte(i) = "E0" /\ Byte(i + 1) = "BC" /\ Byte(i + 2) = "A0"
Tsheg(i) == Byte(i) = "E0" /\ Byte(i + 1) = "BC" /\ Byte(i + 2) = "8B"
IsDigit(c) == c = "0"
IsAlpha(c) == c \in Keywords \union {"a", "_", "E0", "BC", "A0", "8B"}

Bytes(n, at) == [offset |-> at.offset + n, line |-> at.line, column |-> at.column + n]
NewLine(at) == [offset |-> at.offset + 1, line |-> at.line + 1, column |-> 2]

\* Ahead to the first of these offsets.
Ahead(at) == at.offset..Len(source.bytes)
To(offsets, at) == Bytes(Min(offsets) - at.offset, at)

SkipComment(at) == To({i \in Ahead(at) : Byte(i) \in {"\n", "EOF"}}, at)

Position == [offset : Nat, line : Nat, column : Nat]

\* Blanks and comments, one at a time until there is none.
PastBlank(at) ==
    CASE Byte(at.offset) = " " -> Bytes(1, at)
      [] Byte(at.offset) = "\n" -> NewLine(at)
      [] Byte(at.offset) = "/" /\ Byte(at.offset + 1) = "/" -> SkipComment(at)
      [] Tsheg(at.offset) -> Bytes(3, at)
      [] OTHER -> at
SkipWhitespace[at \in Position] ==
    IF PastBlank(at) = at THEN at ELSE SkipWhitespace[PastBlank(at)]

ScanIdentifier(at) == To({i \in Ahead(at) : ~IsAlpha(Byte(i)) /\ ~IsDigit(Byte(i))}, at)

PastDigit(at) ==
    CASE IsDigit(Byte(at.offset)) -> Bytes(1, at)
      [] TibetanDigit(at.offset) -> Bytes(3, at)
      [] OTHER -> at
ScanNumber[at \in Position] == IF PastDigit(at) = at THEN at ELSE ScanNumber[PastDigit(at)]

LineBreaks(from, to) == Cardinality({i \in (from + 1)..to : source.bytes[i] = "\n"})

EndOfText(at) == To({i \in Ahead(at) : Byte(i) \in {"\"", "{", "EOF"}}, at)
\* Mutant of ScanString: lines are not counted in strings.
ScanStringOnOneLine(at) == EndOfText(at)
\* A line break in a string counts as a line, and as a column like any byte.
ScanString(at) ==
    LET end == EndOfText(at)
    IN [end EXCEPT !.line = @ + LineBreaks(at.offset, end.offset)]

CheckKeyword(word) ==
    IF Len(word) = 1 /\ word[1] \in Keywords \union {"_"} THEN word[1] ELSE "id"

\* The operators of two bytes; match() moves the offset, not the column.
Second ==
    [c \in {"-", "!", "&", "|", "=", "<", ">"} |->
        CASE c = "-" -> ">" [] c \in {"&", "|"} -> c [] OTHER -> "="]
Joined == [c \in DOMAIN Second |->
    CASE c = "-" -> "->" [] c = "&" -> "and" [] c = "|" -> "or" [] c = "!" -> "!="
      [] c = "=" -> "==" [] c = "<" -> "<=" [] c = ">" -> ">="]
Single == {"(", ")", "{", "}", "[", "]", ",", ":", ".", "+", ";", "*", "/", "?"} \union (DOMAIN Second \ {"&"})

\* makeToken, with the start of the token and the cursor behind it.
Token(type, start, end) ==
    [type |-> type, offset |-> start.offset, length |-> end.offset - start.offset, line |-> end.line,
     column |-> IF type = "invalid" THEN 0 ELSE end.column - (end.offset - start.offset)]
-----------------------------------------------------------------------------
LexInit ==
    /\ source \in Sources
    /\ cursor = [offset |-> IF IsPrefix(<<"EF", "BB", "BF">>, source.bytes) THEN 3 ELSE 0,
                 line |-> 1, column |-> 1]
    /\ token = Token("none", cursor, cursor) /\ behind = cursor.offset
    /\ depth = 0 /\ unterminated = FALSE
    /\ open = <<>> /\ nested = FALSE

Lexed == token.type = "EOF"
Start == SkipWhitespace[cursor]
First == Byte(Start.offset)
Return(type, end) ==
    /\ token' = Token(type, Start, end) /\ behind' = cursor.offset
    /\ cursor' = end
    /\ UNCHANGED source
Plain(type, end) == Return(type, end) /\ UNCHANGED <<depth, unterminated, open, nested>>

NextEnd == First = "EOF" /\ Plain("EOF", Start)

NextWord ==
    \/ /\ IsAlpha(First) /\ ~TibetanDigit(Start.offset)
       /\ LET end == ScanIdentifier(Bytes(1, Start))
          IN Plain(CheckKeyword(SubSeq(source.bytes, Start.offset + 1, end.offset)), end)
    \/ /\ TibetanDigit(Start.offset)
       /\ Plain("number literal", ScanNumber[Bytes(3, Start)])
    \/ /\ IsDigit(First)
       /\ Plain("number literal", ScanNumber[Bytes(1, Start)])

\* Mutant of CloseBrace: every brace closes the interpolation.
CloseBraceAlways == [depth |-> 0, resumes |-> depth > 0]
CloseBrace ==
    [depth |-> IF depth > 0 THEN depth - 1 ELSE 0, resumes |-> depth = 1]

NextSign ==
    /\ First \in Single \union {"&"} /\ ~(First = "}" /\ CloseBrace.resumes)
    /\ LET two == First \in DOMAIN Second /\ Byte(Start.offset + 1) = Second[First]
           one == Bytes(1, Start)
       IN CASE two -> Return(Joined[First], [one EXCEPT !.offset = @ + 1])
            [] ~two /\ First = "&" -> Return("invalid", one)
            [] OTHER -> Return(First, one)
    /\ depth' = CASE First = "{" /\ depth > 0 -> depth + 1
                  [] First = "}" -> CloseBrace.depth
                  [] OTHER -> depth
    /\ open' = CASE First = "{" -> <<"brace">> \o open
                 [] First = "}" /\ open # <<>> -> Tail(open)
                 [] OTHER -> open
    /\ UNCHANGED <<unterminated, nested>>

NextUnknown ==
    /\ First \notin Single \union {"&", "EOF", "\""}
    /\ ~IsAlpha(First) /\ ~IsDigit(First)
    /\ Plain("invalid", Bytes(1, Start))

\* A string, or the rest of one behind an expression in braces.  `d` is the
\* depth and `o` the braces still open where it starts.
String(resumed, d, o) ==
    LET stop == ScanString(Bytes(1, Start))
        by == Byte(stop.offset)
    IN /\ Return(CASE by = "EOF" -> "invalid"
                   [] by = "{" -> "part"
                   [] OTHER -> IF resumed THEN "end" ELSE "string literal",
                 IF by = "EOF" THEN stop ELSE Bytes(1, stop))
       /\ unterminated' = (unterminated \/ by = "EOF")
       /\ depth' = IF by = "{" THEN d + 1 ELSE d
       /\ open' = IF by = "{" THEN <<"text">> \o o ELSE o
       /\ nested' = (nested \/ (by = "{" /\ Contains(o, "text")))

NextString == First = "\"" /\ String(FALSE, depth, open)
NextResumed ==
    First = "}" /\ CloseBrace.resumes /\ String(TRUE, CloseBrace.depth, IF open = <<>> THEN open ELSE Tail(open))

\* Lexer::next.
Next_token == NextEnd \/ NextWord \/ NextSign \/ NextUnknown \/ NextString \/ NextResumed
-----------------------------------------------------------------------------
\* The tokens lie one behind the other and leave nothing out but blanks,
\* comments and tshegs, whatever the bytes: truncated characters, a lone "E0",
\* a string that does not end.
Skipped(from, to) ==       \* nothing but blanks lies between these offsets
    SkipWhitespace[[offset |-> from, line |-> 0, column |-> 0]].offset = to
TokensTileSource ==
    token.type # "none" =>
      /\ Skipped(behind, token.offset)
      /\ cursor.offset = token.offset + token.length /\ cursor.offset <= Len(source.bytes)
      /\ token.length = 0 <=> Lexed
      /\ Lexed => cursor.offset = Len(source.bytes)

\* line_ is true behind every token, and no column, computed by subtracting a
\* length from a count that match() leaves behind, wraps around below zero.
PositionsAreTrue == cursor.line = 1 + LineBreaks(0, cursor.offset) /\ token.column >= 0

\* What both rest on.
CursorInv ==
    /\ source \in Sources
    /\ cursor \in Position /\ cursor.offset <= Len(source.bytes) /\ cursor.column > 0

\* The one counter tells which brace ends the expression in a string, as long as
\* no string with braces begins inside another one's: it counts the braces opened
\* since the string was left, that of the string included.
DepthIsTrue == ~nested => depth = SelectInSeq(open, LAMBDA x : x = "text")

\* The inductive form of DepthIsTrue: the counter is the place of the only "text".
OnlyText ==
    /\ open \in Seq({"brace", "text"}) /\ depth \in Nat
    /\ ~nested => \A i \in Nat \ {0} : (i \in 1..Len(open) /\ open[i] = "text") <=> i = depth
=============================================================================

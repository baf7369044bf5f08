----------------------------- MODULE LogFormatter -----------------------------
(***************************************************************************)
(* LogFormatter (log.cc): init, the parser of format patterns, and format, *)
(* which writes an event as the items of the pattern say.                  *)
(*                                                                         *)
(* A pattern is a sequence of characters, of which only the kinds the      *)
(* parser tells apart occur.  The pattern is the text of a sequence of     *)
(* tokens, "written": literals, items %name and %name{fmt}, and raw        *)
(* characters for patterns nobody would write.  The variables are those of *)
(* the loops, with indices from 1.  A line is a sequence of characters and *)
(* of fields of the event, each standing for the field's text.             *)
(***************************************************************************)
EXTENDS Naturals, Sequences, SequencesExt

CONSTANTS
    Letters,     \* what isalpha accepts
    Others,      \* characters that are neither letters nor special
    Long,        \* formats of %d whose text does not fit its buffer
    Literals,    \* characters written as literals
    Names, Fmts, \* items are written with these names and formats
    Raw,         \* characters written raw
    MaxTokens    \* bound on the length of "written"

Chars == Letters \cup Others \cup {"%", "{", "}"}

ASSUME FormatterAssumption ==
    /\ MaxTokens \in Nat
    /\ {"%", "{", "}"} \cap (Letters \cup Others) = {}
    /\ Literals \cup Raw \subseteq Chars /\ Names \cup Fmts \subseteq Seq(Chars)
    /\ "undefined" \notin Chars

Alpha(c) == c \in Letters
Brace(c) == c \in {"{", "}"}

\* The tuples of vec: name or text, format, and whether it is an item.
Item(name, f) == [str |-> name, fmt |-> f, item |-> TRUE]
Str(s) == [str |-> s, fmt |-> <<>>, item |-> FALSE]

Tokens == {Str(<<c>>) : c \in Literals} \cup {Item(n, f) : n \in Names, f \in Fmts}
RawTokens == {[raw |-> c] : c \in Raw}

\* How a token is written; the comment on init gives %% for a percent sign.
Written(k) ==
    IF "raw" \in DOMAIN k THEN <<k.raw>>
    ELSE IF ~k.item THEN IF k.str = <<"%">> THEN <<"%", "%">> ELSE k.str
    ELSE <<"%">> \o k.str \o (IF k.fmt = <<>> THEN <<>> ELSE <<"{">> \o k.fmt \o <<"}">>)

\* A literal that would be read as a part of the name before it cannot be
\* written there.
WellFormed(w) ==
    /\ \A k \in ToSet(w) : "raw" \notin DOMAIN k
    /\ \A p \in 1..Len(w) - 1 :
          w[p].item /\ w[p].fmt = <<>> /\ ~w[p + 1].item
            => ~Alpha(w[p + 1].str[1]) /\ ~Brace(w[p + 1].str[1])

\* The fields the items print, by the letters that name them.
s_format_items ==
    [m |-> "content", p |-> "level", r |-> "elapse", c |-> "name", t |-> "threadId",
     n |-> "newline", d |-> "time", f |-> "file", l |-> "line", T |-> "tab",
     F |-> "fiberId", N |-> "threadName"]
Known(name) == Len(name) = 1 /\ name[1] \in DOMAIN s_format_items

DateFormat == <<"%Y-%m-%d %H:%M:%S">>

\* What FormatItem::format writes for an item; %d writes what strftime leaves
\* in its buffer, which is nothing defined when the text does not fit.
Text(k) ==
    IF ~k.item THEN k.str
    ELSE IF ~Known(k.str) THEN <<"error_format">>
    ELSE LET field == s_format_items[k.str[1]] IN
         IF field # "time" THEN <<field>>
         ELSE IF k.fmt \in Long THEN <<"undefined">>
         ELSE <<field>> \o (IF k.fmt = <<>> THEN DateFormat ELSE k.fmt)

\* LogFormatter::format
format(items) == FlattenSeq([p \in 1..Len(items) |-> Text(items[p])])

VARIABLES written, m_pattern, pc, i, n, nstr, str, fmt, fmt_status, fmt_begin, vec, m_error

item == <<n, str, fmt, fmt_status, fmt_begin>>
input == <<written, m_pattern>>
vars == <<input, pc, i, item, nstr, vec, m_error>>

size == Len(m_pattern)
Char(p) == m_pattern[p]
Flushed == IF nstr = <<>> THEN vec ELSE Append(vec, Str(nstr))

-----------------------------------------------------------------------------
Init ==
    /\ written \in SeqOf(Tokens \cup RawTokens, MaxTokens)
    /\ m_pattern = FlattenSeq([p \in 1..Len(written) |-> Written(written[p])])
    /\ pc = "outer" /\ i = 1 /\ n = 1 /\ nstr = <<>>
    /\ str = <<>> /\ fmt = <<>> /\ fmt_status = 0 /\ fmt_begin = 0
    /\ vec = <<>> /\ m_error = FALSE

\* A character of a string, or the first of two percent signs: the second
\* one is not skipped.
Literal ==
    /\ pc = "outer" /\ i <= size
    /\ Char(i) # "%" \/ (i < size /\ Char(i + 1) = "%")
    /\ nstr' = Append(nstr, Char(i))
    /\ i' = i + 1
    /\ UNCHANGED <<input, pc, item, vec, m_error>>

\* A percent sign begins an item.
ItemBegin ==
    /\ pc = "outer" /\ i <= size /\ Char(i) = "%"
    /\ ~(i < size /\ Char(i + 1) = "%")
    /\ n' = i + 1 /\ str' = <<>> /\ fmt' = <<>> /\ fmt_status' = 0 /\ fmt_begin' = 0
    /\ pc' = "inner"
    /\ UNCHANGED <<input, i, nstr, vec, m_error>>

InName == pc = "inner" /\ n <= size /\ fmt_status = 0
InFormat == pc = "inner" /\ n <= size /\ fmt_status = 1
NameEnds == ~Alpha(Char(n)) /\ ~Brace(Char(n))

\* Neither a letter nor a brace: the name ends before it.
NameEnd ==
    /\ InName /\ NameEnds
    /\ str' = SubSeq(m_pattern, i + 1, n - 1)
    /\ pc' = "emit"
    /\ UNCHANGED <<input, i, n, fmt, fmt_status, fmt_begin, nstr, vec, m_error>>

\* An opening brace: the format begins after it.
Open ==
    /\ InName /\ Char(n) = "{"
    /\ str' = SubSeq(m_pattern, i + 1, n - 1)
    /\ fmt_status' = 1 /\ fmt_begin' = n /\ n' = n + 1
    /\ UNCHANGED <<input, pc, i, fmt, nstr, vec, m_error>>

\* Mutant of Close: the brace is taken into the format.
CloseLate ==
    /\ InFormat /\ Char(n) = "}"
    /\ fmt' = SubSeq(m_pattern, fmt_begin + 1, n)
    /\ fmt_status' = 0 /\ n' = n + 1
    /\ pc' = "emit"
    /\ UNCHANGED <<input, i, str, fmt_begin, nstr, vec, m_error>>

\* The closing brace of the format.
Close ==
    /\ InFormat /\ Char(n) = "}"
    /\ fmt' = SubSeq(m_pattern, fmt_begin + 1, n - 1)
    /\ fmt_status' = 0 /\ n' = n + 1
    /\ pc' = "emit"
    /\ UNCHANGED <<input, i, str, fmt_begin, nstr, vec, m_error>>

Ordinary ==
    \/ InName /\ ~NameEnds /\ Char(n) # "{"
    \/ InFormat /\ Char(n) # "}"

\* Mutant of Advance: n is not moved.
AdvanceStuck == Ordinary /\ UNCHANGED vars

\* Any other character; at the end of the pattern the rest is the name.
Advance ==
    /\ Ordinary
    /\ n' = n + 1
    /\ str' = IF n = size /\ str = <<>> THEN SubSeq(m_pattern, i + 1, size) ELSE str
    /\ UNCHANGED <<input, pc, i, fmt, fmt_status, fmt_begin, nstr, vec, m_error>>

InnerEnd ==
    /\ pc = "inner" /\ n > size
    /\ pc' = "emit"
    /\ UNCHANGED <<input, i, item, nstr, vec, m_error>>

\* Mutant of Emit: the string before the item stays behind it.
EmitOnly ==
    /\ pc = "emit" /\ fmt_status = 0
    /\ vec' = Append(vec, Item(str, fmt))
    /\ i' = n /\ pc' = "outer"
    /\ UNCHANGED <<input, item, nstr, m_error>>

\* The string before the item, and the item.
Emit ==
    /\ pc = "emit" /\ fmt_status = 0
    /\ vec' = Append(Flushed, Item(str, fmt))
    /\ nstr' = <<>> /\ i' = n /\ pc' = "outer"
    /\ UNCHANGED <<input, item, m_error>>

\* A format without an end: what follows the percent sign is read again.
EmitError ==
    /\ pc = "emit" /\ fmt_status = 1
    /\ vec' = Append(vec, Str(<<"pattern_error">>))
    /\ m_error' = TRUE /\ i' = i + 1 /\ pc' = "outer"
    /\ UNCHANGED <<input, item, nstr>>

\* The last string; then every item is looked up in s_format_items.
Finish ==
    /\ pc = "outer" /\ i > size
    /\ vec' = Flushed /\ nstr' = <<>>
    /\ m_error' = (m_error \/ \E k \in ToSet(vec) : k.item /\ ~Known(k.str))
    /\ pc' = "done"
    /\ UNCHANGED <<input, i, item>>

Next ==
    \/ Literal \/ ItemBegin \/ NameEnd \/ Open \/ Close \/ Advance
    \/ InnerEnd \/ Emit \/ EmitError \/ Finish

\* init is one sequential call.
Spec == Init /\ [][Next]_vars /\ WF_vars(Next)

-----------------------------------------------------------------------------
\* A pattern made of literals and items is accepted if every name is known,
\* and then a line has what was written, in its order: the literals, and the
\* fields of the event, with the time in the format given or the default one.
Rendered ==
    pc = "done" /\ WellFormed(written) =>
        /\ m_error <=> \E k \in ToSet(written) : k.item /\ ~Known(k.str)
        /\ ~m_error => /\ format(vec) = format(written)
                       /\ "undefined" \notin ToSet(format(vec))

\* What is left of a text without its braces.
Bare(s) == FlattenSeq([p \in 1..Len(s) |-> IF Brace(s[p]) THEN <<>> ELSE <<s[p]>>])

\* Whatever the pattern, if it is accepted every character but the braces of
\* formats is in the items, in its order.
Printed(k) == IF k.item THEN <<"%">> \o k.str \o k.fmt ELSE k.str
NothingLost ==
    pc = "done" /\ ~m_error =>
        Bare(FlattenSeq([p \in 1..Len(vec) |-> Printed(vec[p])])) = Bare(m_pattern)

\* The parser comes to an end on every pattern.
Terminates == <>(pc = "done")
=============================================================================

----------------------------- MODULE Formatter -----------------------------
(***************************************************************************)
(* The formatter of proto sources (tpt-proto-fmt).  A source is a sequence *)
(* of items, tokens and comments, each with the number nl of line breaks   *)
(* before it (two stand for a blank line) and, for a block comment of      *)
(* several lines, the indentation `inner' of the lines after the first.    *)
(*                                                                         *)
(* The formatter writes items again; Relex is how the lexer reads what was *)
(* written, which is where a line comment swallows what follows it on its  *)
(* line.                                                                   *)
(***************************************************************************)
EXTENDS Integers, Sequences, SequencesExt

LineComments  == {"// c"}
BlockComments == {"/* c */", "/* c \n d */"}
Comments      == LineComments \cup BlockComments
MultiLine     == {"/* c \n d */"}
Unlexable     == {"-"}

item(t, nl, inner) == [t |-> t, nl |-> nl, inner |-> inner]
Tokens(source) == LET it == SelectSeq(source, LAMBDA i : i.t \notin Comments)
                  IN  [i \in DOMAIN it |-> it[i].t]
Lexes(source)  == \A i \in DOMAIN source : source[i].t \notin Unlexable

(* What the formatter holds: the output, the line breaks written since the last item, the       *)
(* indentation, whether the output is at the beginning of a line, whether a `{' was just written *)
(* the previous item and the next.                                                                     *)
Layout == [out |-> <<>>, nl |-> 0, indent |-> 0, at_bol |-> TRUE, brace_open_inline |-> FALSE, prev |-> "", at |-> 1]

newline(w)   == [w EXCEPT !.nl = @ + 1, !.at_bol = TRUE]
BlankLine(w, gap) == IF gap THEN [w EXCEPT !.nl = @ + 1] ELSE w
push(w, t, inner) == [w EXCEPT !.out = Append(@, item(t, w.nl, inner)), !.nl = 0, !.at_bol = FALSE]
OpenBody(w)  == IF w.brace_open_inline
                THEN newline([w EXCEPT !.indent = @ + 1, !.brace_open_inline = FALSE]) ELSE w

(* A comment on the line of the item before it becomes a line comment there, unless that item    *)
(* ended its line; other comments get lines of their own.  The indentation of a block comment is *)
(* written first and ends the beginning of its line, so that its first line starts a new one.    *)
FormatCommentBug(w, c) ==   \* Mutant: a comment does not open the body it stands in
  LET trailing == w.prev # "" /\ c.nl = 0
      line     == IF w.at_bol THEN w ELSE newline(w)
      above    == BlankLine(BlankLine(line, w.prev # "" /\ c.nl > 1), c.t \in BlockComments)
  IN  IF trailing /\ ~w.at_bol THEN push(w, c.t, 0) ELSE newline(push(above, c.t, c.inner))

FormatComment(w, c) ==
  LET trailing == w.prev # "" /\ c.nl = 0
      opened   == IF w.brace_open_inline THEN OpenBody(w) ELSE IF w.at_bol THEN w ELSE newline(w)
      above    == BlankLine(BlankLine(opened, w.prev # "" /\ c.nl > 1), c.t \in BlockComments)
      inner    == IF c.t \in MultiLine THEN c.inner + opened.indent ELSE c.inner
  IN  IF trailing /\ ~w.at_bol
      THEN push(w, IF c.t \in MultiLine THEN "//* c \n d */" ELSE IF c.t \in BlockComments THEN "//* c */"
                   ELSE c.t, 0)
      ELSE newline(push(above, c.t, inner))

FormatToken(w, k) ==
  LET gap    == w.prev # "" /\ k.nl > 1
      opened == OpenBody(w)
      closed == BlankLine(IF w.at_bol THEN w ELSE newline(w), gap)
  IN  CASE k.t = "}" /\ w.brace_open_inline ->
             newline(push([w EXCEPT !.brace_open_inline = FALSE], "}", 0))
        [] k.t = "}" /\ ~w.brace_open_inline ->
             newline(push([closed EXCEPT !.indent = IF @ > 0 THEN @ - 1 ELSE 0], "}", 0))
        [] k.t = ";" -> newline(push(BlankLine(opened, gap /\ opened.at_bol), ";", 0))
        [] k.t = "{" -> [push(BlankLine(opened, gap /\ opened.at_bol), "{", 0) EXCEPT !.brace_open_inline = TRUE]
        [] OTHER     -> push(BlankLine(opened, gap /\ opened.at_bol), k.t, 0)

(* The items from number `at' on, n of them; a long run in halves, the first before the second. *)
RECURSIVE FormatItems(_, _, _)
FormatItems(w, source, n) ==
  CASE w.at > Len(source) -> w
    [] n = 1 -> LET i == source[w.at]
                IN  [(IF i.t \in Comments THEN FormatComment(w, i) ELSE FormatToken(w, i))
                     EXCEPT !.prev = i.t, !.at = @ + 1]
    [] OTHER -> FormatItems(FormatItems(w, source, n \div 2), source, n - n \div 2)
format_source(source) == FormatItems(Layout, source, Len(source) + 1).out

(* A line comment runs to the end of its line; the second line of a block comment that was turned *)
(* into a line comment is no comment any more.                                                    *)
Relex(out) ==
  LET Swallowed(i) == \E j \in 1 .. i - 1 :
                        /\ out[j].t \in LineComments \cup {"//* c */"}
                        /\ \A m \in j + 1 .. i : out[m].nl = 0
      kept == SelectSeq([i \in DOMAIN out |-> IF Swallowed(i) THEN item("", 0, 0) ELSE out[i]],
                        LAMBDA i : i.t # "")
  IN  [i \in DOMAIN kept |-> [kept[i] EXCEPT !.t = IF @ = "//* c */" THEN "// c"
                                                   ELSE IF @ = "//* c \n d */" THEN "-" ELSE @]]
=============================================================================

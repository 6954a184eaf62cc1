------------------------------ MODULE SqlPlan ------------------------------
(***************************************************************************)
(* How a migration is read before it is approved (sqlplan/split.go,         *)
(* plan.go): the splitter's single walk over a script, one action for each   *)
(* case of its loop, and what the classifier leaves of each fragment before  *)
(* it looks at the leading verb.  A script is a sequence of the pieces a     *)
(* lexer tells apart: "word" is a run of the keywords and names of a         *)
(* statement, "E" the prefix of an escape string, "delimiter" the directive  *)
(* with the blank after it, the others are themselves.                       *)
(***************************************************************************)
EXTENDS Naturals, Sequences, FiniteSets

CONSTANTS MaxPieces \* bound: pieces in a script

VARIABLES script, engine, delimiter, at, start, hasCode, frags

sqlvars == <<script, engine, delimiter, at, start, hasCode, frags>>

Newline == "newline"
Backslash == "backslash"
Single == "'"
Double == "doublequote"
Backtick == "backquote"
Common == {Single, Double, Backslash, ";", "$$", "--", Newline, "/*", "*/", "word"}
Pieces(e) == Common \cup (IF e = "mysql" THEN {Backtick, "#", "/*!", "delimiter"} ELSE {"E"})

MySQL == engine = "mysql"
Size == Len(script)
Piece(i) == IF i \in 1..Size THEN script[i] ELSE "end" \* either end of the script
Earliest(places, none) ==
    IF places = {} THEN none ELSE CHOOSE j \in places : \A k \in places : j <= k

SqlInit ==
    /\ engine \in {"mysql", "postgres"}
    /\ script \in UNION {[1..n -> Pieces(engine)] : n \in 0..MaxPieces}
    /\ delimiter = <<";">>
    /\ at = 1 /\ start = 1 /\ hasCode = "no" /\ frags = <<>>

Scanning == at <= Size

-----------------------------------------------------------------------------
(* What separates *)

\* The newline itself is left to the next step.
EndOfLine(i) == Earliest({j \in i..Size : script[j] = Newline}, Size + 1)

\* What a DELIMITER at i makes the delimiter: the rest of its line.
Argument(i) == SubSeq(script, i + 1, EndOfLine(i) - 1)

\* The directive: first on its line, and with an argument.
IsDirective(i) ==
    /\ MySQL /\ Piece(i) = "delimiter" /\ Piece(i - 1) \in {Newline, "end"}
    /\ EndOfLine(i) > i + 1

\* Delimiter d is what comes at i.
Delimits(d, i) == \A k \in 1..Len(d) : Piece(i + k - 1) = d[k]

\* It is looked for only before a statement's SQL, and before anything else is.
ReadsDirective == hasCode = "no" /\ IsDirective(at)
AtDelimiter == ~ReadsDirective /\ Delimits(delimiter, at)

\* The fragment that ends before i, dropped when it has no SQL in it.
Flushed(i) == IF hasCode = "yes" THEN Append(frags, <<start, i - 1>>) ELSE frags

Directive ==
    /\ Scanning /\ ReadsDirective
    /\ delimiter' = Argument(at)
    /\ at' = EndOfLine(at) /\ start' = EndOfLine(at)
    /\ UNCHANGED <<script, engine, hasCode, frags>>

Separator ==
    /\ Scanning /\ AtDelimiter
    /\ frags' = Flushed(at) /\ hasCode' = "no"
    /\ at' = at + Len(delimiter) /\ start' = at + Len(delimiter)
    /\ UNCHANGED <<script, engine, delimiter>>

-----------------------------------------------------------------------------
(* What a delimiter cannot separate *)

Skipping == Scanning /\ ~ReadsDirective /\ ~AtDelimiter
Walk(next, code) ==
    /\ at' = next /\ hasCode' = IF code THEN "yes" ELSE hasCode
    /\ UNCHANGED <<script, engine, delimiter, start, frags>>

Quotes == {Single, Double} \cup (IF MySQL THEN {Backtick} ELSE {})

\* Mutant of BackslashEscapes: a Postgres literal escapes as a MySQL one does.
EscapesAlways(i) == Piece(i) # Backtick

\* In MySQL a literal escapes and a backquoted name does not; in Postgres only
\* E'...' does, and the E must be a token of its own.
BackslashEscapes(i) ==
    \/ MySQL /\ Piece(i) # Backtick
    \/ Piece(i) = Single /\ Piece(i - 1) = "E" /\ Piece(i - 2) \notin {"E", "word"}

\* The scan for the quote that closes the one at i, from each place on; 0 is none.
Closes(i) ==
    LET closes[j \in i + 1..Size + 2] ==
            IF j > Size THEN 0
            ELSE IF script[j] = Backslash /\ BackslashEscapes(i) THEN closes[j + 2]
            ELSE IF script[j] # script[i] THEN closes[j + 1]
            ELSE IF Piece(j + 1) = script[i] THEN closes[j + 2]
            ELSE j
    IN  closes
ScanQuoted(i) == Closes(i)[i + 1]

Quoted ==
    /\ Skipping /\ Piece(at) \in Quotes
    /\ Walk(IF ScanQuoted(at) = 0 THEN Size + 1 ELSE ScanQuoted(at) + 1, TRUE)

\* Postgres takes "--" anywhere; MySQL wants whitespace or the end after it.
LineCommentStartsAt(i) ==
    \/ Piece(i) = "--" /\ (~MySQL \/ Piece(i + 1) \in {Newline, "end"})
    \/ Piece(i) = "#" /\ MySQL

LineComment == Skipping /\ LineCommentStartsAt(at) /\ Walk(EndOfLine(at), FALSE)

\* How many comments the scan of the one that opens at i is in.  Postgres nests.
Depths(i) ==
    LET depth[j \in i..Size] ==
            IF j = i THEN 1
            ELSE IF script[j] = "*/" THEN depth[j - 1] - 1
            ELSE IF script[j] = "/*" /\ ~MySQL THEN depth[j - 1] + 1
            ELSE depth[j - 1]
    IN  depth

\* Past the end of that comment, or of the script.
CommentEnds(i) == {j \in i..Size : Depths(i)[j] = 0}
ScanBlockComment(i) == Earliest(CommentEnds(i), Size) + 1

\* A comment that MySQL executes is SQL, if it ends.
BlockComment ==
    /\ Skipping /\ Piece(at) \in {"/*", "/*!"}
    /\ Walk(ScanBlockComment(at), Piece(at) = "/*!" /\ CommentEnds(at) # {})

\* A body that never closes is not one: its "$$" is an ordinary piece.
ScanDollarQuoted(i) == Earliest({j \in i + 1..Size : script[j] = "$$"}, i) + 1

DollarQuoted == Skipping /\ Piece(at) = "$$" /\ ~MySQL /\ Walk(ScanDollarQuoted(at), TRUE)

Ordinary ==
    /\ Skipping /\ Piece(at) \notin Quotes \cup {"/*", "/*!"} /\ ~LineCommentStartsAt(at)
    /\ Piece(at) = "$$" => MySQL
    /\ Walk(at + 1, Piece(at) # Newline)

Finish ==
    /\ at = Size + 1
    /\ frags' = Flushed(Size + 1) /\ hasCode' = "no" /\ at' = Size + 2
    /\ UNCHANGED <<script, engine, delimiter, start>>

SqlNext ==
    \/ Directive \/ Separator \/ Quoted \/ LineComment \/ BlockComment \/ DollarQuoted
    \/ Ordinary \/ Finish

SqlSpec == SqlInit /\ [][SqlNext]_sqlvars

-----------------------------------------------------------------------------
(* What the classifier looks at *)

\* Mutant of StripMode: a line comment is left in.
StripBlocksOnly(mode, piece) ==
    IF mode = "block" THEN IF piece = "*/" THEN "text" ELSE "block"
    ELSE IF piece \in {"/*", "/*!"} THEN "block" ELSE "text"

\* Neither quotes nor nesting nor the engine are asked.
StripMode(mode, piece) ==
    IF mode = "block" THEN IF piece = "*/" THEN "text" ELSE "block"
    ELSE IF piece = "--" \/ (mode = "line" /\ piece # Newline) THEN "line"
    ELSE IF piece \in {"/*", "/*!"} THEN "block" ELSE "text"

Stripping(f) ==
    LET mode[i \in f[1] - 1..f[2]] ==
            IF i = f[1] - 1 THEN "text" ELSE StripMode(mode[i - 1], script[i])
    IN  mode

\* The pieces of fragment f that are left.
StripComments(f) ==
    {i \in f[1]..f[2] : Stripping(f)[i] = "text" /\ Stripping(f)[i - 1] # "block"}

\* What classify dispatches on: the first that is left, once blanks are collapsed.
LeadingVerb(f) ==
    {i \in StripComments(f) :
        /\ script[i] # Newline
        /\ \A j \in StripComments(f) : j < i => script[j] = Newline}

Analyzed == at = Size + 2

-----------------------------------------------------------------------------
(* The reference: a lexer that reads piece by piece *)

\* It is in a mode, with a number (how many comments it is in, how many pieces of a
\* delimiter are to come, whether the literal's backslashes escape) and the mark
\* that opened it; it knows the delimiter, and whether it has read SQL since the
\* last one.  "maybe" is a literal whose last quote closes it unless another
\* follows; "skip" is after a backslash that escapes.
Text == <<"text", 0, "none">>
LiteralEscapes(i) ==
    CASE script[i] = Backtick -> FALSE
      [] script[i] = Double -> MySQL
      [] OTHER -> MySQL \/ (Piece(i - 1) = "E" /\ Piece(i - 2) \notin {"E", "word"})

\* The mode after piece i when it separates nothing and is not inside anything.
Opened(i) ==
    LET p == script[i]
        Later(mark) == \E j \in i + 1..Size : script[j] = mark
    IN  CASE p \in {Single, Double, Backtick} -> <<"quote", IF LiteralEscapes(i) THEN 1 ELSE 0, p>>
          [] p = "#" -> <<"line", 0, p>>
          [] p = "--" /\ (~MySQL \/ Piece(i + 1) \in {Newline, "end"}) -> <<"line", 0, p>>
          [] p = "/*" -> <<"block", 1, p>>
          [] p = "/*!" -> IF Later("*/") THEN <<"executed", 0, p>> ELSE <<"block", 1, p>>
          [] p = "$$" /\ ~MySQL /\ Later("$$") -> <<"dollar", 0, p>>
          [] OTHER -> Text

\* The same when it may separate.
Outside(s, i) ==
    IF s.fresh = "yes" /\ IsDirective(i) THEN <<"directive", 0, script[i]>>
    ELSE IF Delimits(s.delim, i) THEN <<"cut", Len(s.delim) - 1, script[i]>>
    ELSE Opened(i)

\* The mode after piece i when the lexer was in s before it.
ModeAfter(s, i) ==
    LET p == script[i]
        m == s.mode
    IN  CASE m[1] = "text" -> Outside(s, i)
          [] m[1] = "maybe" -> IF p = m[3] THEN <<"quote", m[2], m[3]>> ELSE Outside(s, i)
          [] m[1] = "cut" -> IF m[2] = 0 THEN Outside(s, i) ELSE <<"cut", m[2] - 1, m[3]>>
          [] m[1] = "quote" -> <<CASE p = m[3] -> "maybe"
                                   [] p = Backslash /\ m[2] = 1 -> "skip"
                                   [] OTHER -> "quote", m[2], m[3]>>
          [] m[1] = "skip" -> <<"quote", m[2], m[3]>>
          [] m[1] \in {"line", "directive"} -> IF p = Newline THEN Text ELSE m
          [] m[1] = "dollar" -> IF p = "$$" THEN Text ELSE m
          [] m[1] = "executed" -> IF p = "*/" THEN Text ELSE m
          [] OTHER -> CASE p = "*/" -> IF m[2] = 1 THEN Text ELSE <<"block", m[2] - 1, m[3]>>
                        [] p = "/*" /\ ~MySQL -> <<"block", m[2] + 1, m[3]>>
                        [] OTHER -> m

\* Piece p, which took the lexer from one mode to another, is SQL to the engine.
SqlBetween(before, p, after) ==
    /\ p # Newline
    /\ after[1] \notin {"cut", "directive", "line", "block"} /\ before[1] # "block"

ReadPiece(s, i) ==
    LET m == ModeAfter(s, i)
    IN  [mode |-> m,
         delim |-> IF m[1] = "directive" /\ s.mode[1] # "directive" THEN Argument(i) ELSE s.delim,
         fresh |-> IF m[1] \in {"cut", "directive"} THEN "yes"
                   ELSE IF SqlBetween(s.mode, script[i], m) THEN "no" ELSE s.fresh]

Unread == [mode |-> Text, delim |-> <<";">>, fresh |-> "yes"]
Reading[k \in 0..Size] == IF k = 0 THEN Unread ELSE ReadPiece(Reading[k - 1], k)
Mode(k) == Reading[k].mode[1]

\* The pieces that separate, and those that are SQL to the engine.
Separators == {i \in 1..Size : Mode(i) \in {"cut", "directive"}}
IsSQL(i) == SqlBetween(Reading[i - 1].mode, script[i], Reading[i].mode)

\* The stretches between separators that have SQL in them.
SqlStatements ==
    LET cuts == Separators \cup {0, Size + 1}
    IN  {<<c[1] + 1, c[2] - 1>> : c \in
            {c \in cuts \X cuts : /\ c[1] < c[2] /\ ~\E k \in cuts : c[1] < k /\ k < c[2]
                                  /\ \E i \in c[1] + 1..c[2] - 1 : IsSQL(i)}}

\* The first SQL of statement f, when that is the text of one.
FirstWord(f) ==
    {i \in f[1]..f[2] : IsSQL(i) /\ script[i] = "word" /\ ~\E j \in f[1]..i - 1 : IsSQL(j)}

\* What the two generators write: no "#" comments, no comment in a comment, none
\* that MySQL executes.
AsGenerated ==
    ~\E i \in 1..Size : \/ script[i] \in {"#", "/*!"}
                        \/ script[i] = "/*" /\ Mode(i - 1) = "block"

-----------------------------------------------------------------------------
(* Properties *)

\* sqlplan/split.go:11-27: what is shown, classified and approved is what the
\* executor will run: the walk, with its jumps over literals and comments and its
\* DELIMITER lines, cuts every script where reading it piece by piece cuts it.
SplitsAsRead ==
    Analyzed => /\ {frags[n] : n \in 1..Len(frags)} = SqlStatements
                /\ Len(frags) = Cardinality(SqlStatements)

\* sqlplan/plan.go:292-299, 478-510: of a script such as the generators write, the
\* verb that a statement is classified by is the one it begins with, whatever
\* comments are above it: none hides a DROP, and none of their text is taken for it.
VerbIsSeen ==
    Analyzed /\ AsGenerated => \A f \in SqlStatements : FirstWord(f) \subseteq LeadingVerb(f)

-----------------------------------------------------------------------------
(* What holds of no script with "#", nested or executable comments *)

VerbIsAlwaysSeen == Analyzed => \A f \in SqlStatements : FirstWord(f) \subseteq LeadingVerb(f)
=============================================================================

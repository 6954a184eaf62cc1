---------------------------- MODULE SqlPlan_proof ----------------------------
(***************************************************************************)
(* The splitter cuts a script of any length where a lexer that reads it     *)
(* piece by piece does, and the classifier looks at the verb that a          *)
(* statement begins with (SqlPlan).                                          *)
(***************************************************************************)
EXTENDS SqlPlan, Numbers

-----------------------------------------------------------------------------
(* The functions of the walk and of the lexer, unfolded *)

Script == Size \in Nat /\ script \in Seq(Pieces(engine))
Marks == Pieces("mysql") \cup Pieces("postgres")
ModeNames == {"text", "quote", "maybe", "skip", "line", "block", "dollar", "executed", "cut",
              "directive"}
Modes == ModeNames \X Int \X (Marks \cup {"none"})

\* A delimiter is never empty and never begins with a newline.
Delims == {d \in Seq(Marks) : Len(d) > 0 /\ d[1] # Newline}
States == [mode : Modes, delim : Delims, fresh : {"yes", "no"}]

\* The least of some places.
LEMMA EarliestIs ==
  ASSUME NEW T \in SUBSET Nat, NEW none
  PROVE  IF T = {} THEN Earliest(T, none) = none
         ELSE Earliest(T, none) \in T /\ \A k \in T : Earliest(T, none) <= k
  <1>1. CASE T = {}
    BY <1>1 DEF Earliest
  <1>2. CASE T # {}
    <2>1. \E j \in T : \A k \in T : j <= k
      BY <1>2, LeastOf
    <2> DEFINE Least(j) == j \in T /\ \A k \in T : j <= k
    <2>2. \E j : Least(j)
      BY <2>1
    <2> HIDE DEF Least
    <2>3. Least(CHOOSE j : Least(j))
      BY <2>2
    <2>4. Earliest(T, none) = CHOOSE j \in T : \A k \in T : j <= k
      BY <1>2 DEF Earliest
    <2>5. Earliest(T, none) = CHOOSE j : Least(j)
      BY <2>4 DEF Least
    <2> QED  BY <1>2, <2>3, <2>5 DEF Least
  <1> QED  BY <1>1, <1>2

\* The places of a script are numbers, and what is there is a piece.
LEMMA PlacesAre ==
  ASSUME Script, NEW i \in 1..Size
  PROVE  /\ Size \in Nat /\ i \in Nat /\ i # Size + 1
         /\ i + 1 \in i + 1..Size + 1 /\ (i + 1) - 1 = i /\ \A k \in i..i : k = i
         /\ i - 1 \in 0..Size /\ i \in 0..Size
  BY DEF Script

LEMMA PieceIs ==
  ASSUME Script, NEW i \in 1..Size
  PROVE  Piece(i) = script[i] /\ script[i] \in Pieces(engine) /\ script[i] \in Marks
  <1>1. Size = Len(script) /\ script \in Seq(Pieces(engine))
    BY DEF Script, Size
  <1>2. script[i] \in Pieces(engine)
    BY <1>1
  <1>3. Pieces(engine) \subseteq Marks
    BY DEF Pieces, Marks
  <1> QED  BY <1>2, <1>3 DEF Piece

\* A line goes on to its newline, or to the end of the script.
LEMMA EndOfLineIs ==
  ASSUME Script, NEW i \in 1..Size
  PROVE  LET e == EndOfLine(i)
         IN  /\ e \in i..Size + 1 /\ e \in Nat
             /\ \A k \in i..e - 1 : script[k] # Newline
             /\ e = Size + 1 \/ (e \in 1..Size /\ script[e] = Newline)
             /\ script[i] # Newline => e \in i + 1..Size + 1
  <1> DEFINE E == {j \in i..Size : script[j] = Newline}
             e == EndOfLine(i)
  <1>0. Size \in Nat /\ i \in Nat
    BY PlacesAre
  <1>1. IF E = {} THEN e = Size + 1 ELSE e \in E /\ \A k \in E : e <= k
    <2>1. E \in SUBSET Nat
      BY <1>0
    <2> HIDE DEF E
    <2>2. e = Earliest(E, Size + 1)
      BY DEF E, EndOfLine
    <2> QED  BY <2>1, <2>2, EarliestIs
  <1> HIDE DEF e
  <1>2. CASE E = {}
    <2>1. e = Size + 1
      BY <1>1, <1>2
    <2>2. \A k \in i..(Size + 1) - 1 : k \in i..Size
      BY <1>0
    <2>3. Size + 1 \in i..Size + 1 /\ Size + 1 \in Nat /\ Size + 1 \in i + 1..Size + 1
      BY <1>0
    <2> QED  BY <1>2, <2>1, <2>2, <2>3 DEF e
  <1>3. CASE E # {}
    <2>1. e \in i..Size /\ script[e] = Newline /\ \A k \in E : e <= k
      BY <1>1, <1>3
    <2>2. \A k \in i..e - 1 : k \in i..Size /\ ~(e <= k)
      BY <1>0, <2>1
    <2>3. e \in i..Size + 1 /\ e \in Nat /\ e \in 1..Size /\ (e # i => e \in i + 1..Size + 1)
      BY <1>0, <2>1
    <2> QED  BY <2>1, <2>2, <2>3 DEF e
  <1> QED  BY <1>2, <1>3

\* What a directive makes the delimiter is one.
LEMMA ArgumentIs ==
  ASSUME Script, NEW i \in 1..Size, IsDirective(i)
  PROVE  Argument(i) \in Delims
  <1> DEFINE e == EndOfLine(i)
             d == SubSeq(script, i + 1, e - 1)
  <1>0. Size \in Nat /\ i \in Nat /\ Size = Len(script) /\ script \in Seq(Pieces(engine))
    BY PlacesAre DEF Script, Size
  <1>1. e \in i..Size + 1 /\ e \in Nat /\ e > i + 1 /\ \A k \in i..e - 1 : script[k] # Newline
    BY EndOfLineIs DEF IsDirective
  <1> HIDE DEF e
  <1>2. script \in Seq(Marks)
    <2>1. Pieces(engine) \subseteq Marks
      BY DEF Pieces, Marks
    <2> QED  BY <1>0, <2>1
  <1>3. i + 1 \in 1..Len(script) /\ e - 1 \in 1..Len(script) /\ i + 1 <= e - 1 /\ i + 1 \in i..e - 1
    BY <1>0, <1>1
  <1>4. d \in Seq(Marks) /\ Len(d) = (e - 1) - (i + 1) + 1 /\ d[1] = script[i + 1]
    BY <1>2, <1>3
  <1>5. Len(d) > 0 /\ d[1] # Newline
    BY <1>0, <1>1, <1>3, <1>4
  <1> QED  BY <1>4, <1>5 DEF Delims, Argument, e

\* Where a delimiter is, it is whole.
LEMMA DelimitsIs ==
  ASSUME Script, NEW i \in 1..Size, NEW d \in Delims, Delimits(d, i)
  PROVE  /\ Len(d) \in Nat /\ Len(d) > 0 /\ i + Len(d) \in i + 1..Size + 1
         /\ script[i] # Newline
  <1>1. d \in Seq(Marks) /\ Len(d) > 0 /\ Len(d) \in Nat /\ i \in Nat /\ Size \in Nat
    BY PlacesAre DEF Delims
  <1>2. "end" \notin Marks
    BY DEF Marks, Pieces, Common, Single, Double, Backtick, Backslash, Newline
  <1>3. Len(d) \in 1..Len(d) /\ 1 \in 1..Len(d) /\ d[Len(d)] \in Marks
    BY <1>1
  <1>4. Piece(i + Len(d) - 1) = d[Len(d)] /\ Piece(i + 1 - 1) = d[1]
    BY <1>3 DEF Delimits
  <1>5. i + Len(d) - 1 \in 1..Size
    BY <1>2, <1>3, <1>4 DEF Piece
  <1>6. i + Len(d) \in i + 1..Size + 1 /\ i + 1 - 1 = i
    BY <1>1, <1>5
  <1>7. script[i] = d[1] /\ d[1] # Newline
    BY <1>4, <1>6, PieceIs DEF Delims
  <1> QED  BY <1>1, <1>6, <1>7

LEMMA OpenedType == ASSUME Script, NEW i \in 1..Size PROVE Opened(i) \in Modes
  <1>1. script[i] \in Marks
    BY PieceIs
  <1> QED  BY <1>1 DEF Opened, Modes, ModeNames, Text

LEMMA ModeAfterType ==
  ASSUME Script, NEW s \in States, NEW i \in 1..Size
  PROVE  ModeAfter(s, i) \in Modes
  <1> DEFINE m == s.mode
  <1>1. /\ m[1] \in ModeNames /\ m[2] \in Int /\ m[2] + 1 \in Int /\ m[2] - 1 \in Int
        /\ m[3] \in Marks \cup {"none"} /\ m \in Modes
    BY DEF Modes, States
  <1>2. Opened(i) \in Modes /\ Text \in Modes /\ script[i] \in Marks
    BY OpenedType, PieceIs DEF Modes, ModeNames, Text
  <1>3. \A name \in ModeNames, n \in Int, q \in Marks \cup {"none"} : <<name, n, q>> \in Modes
    BY DEF Modes
  <1>4. Len(s.delim) - 1 \in Int
    BY DEF States, Delims
  <1>5. Outside(s, i) \in Modes
    BY <1>2, <1>3, <1>4 DEF Outside, ModeNames
  <1> HIDE DEF m
  <1> QED  BY <1>1, <1>2, <1>3, <1>5 DEF ModeAfter, ModeNames, m

LEMMA ReadPieceType ==
  ASSUME Script, NEW s \in States, NEW i \in 1..Size
  PROVE  ReadPiece(s, i) \in States
  <1> DEFINE m == ModeAfter(s, i)
  <1>1. m \in Modes
    BY ModeAfterType
  <1>2. s.delim \in Delims /\ s.fresh \in {"yes", "no"}
    BY DEF States
  <1>3. m[1] = "directive" /\ s.mode[1] # "directive" => IsDirective(i)
    <2>1. Opened(i)[1] # "directive"
      BY DEF Opened, Text
    <2>2. Outside(s, i)[1] = "directive" => IsDirective(i)
      BY <2>1 DEF Outside
    <2>3. s.mode[1] \in ModeNames
      BY DEF States, Modes
    <2> QED  BY <2>2, <2>3 DEF ModeAfter, Text, ModeNames
  <1> HIDE DEF m
  <1>4. ReadPiece(s, i) =
          [mode |-> m,
           delim |-> IF m[1] = "directive" /\ s.mode[1] # "directive" THEN Argument(i) ELSE s.delim,
           fresh |-> IF m[1] \in {"cut", "directive"} THEN "yes"
                     ELSE IF SqlBetween(s.mode, script[i], m) THEN "no" ELSE s.fresh]
    BY DEF ReadPiece, m
  <1>5. m[1] = "directive" /\ s.mode[1] # "directive" => Argument(i) \in Delims
    BY <1>3, ArgumentIs
  <1> QED  BY <1>1, <1>2, <1>4, <1>5 DEF States

LEMMA UnreadType == Unread \in States
  <1>1. Text \in Modes
    BY DEF Text, Modes, ModeNames
  <1>2. ";" \in Marks /\ ";" # Newline
    BY DEF Marks, Pieces, Common, Newline
  <1>3. \A p \in Marks : p # Newline => <<p>> \in Delims
    BY DEF Delims
  <1>4. <<";">> \in Delims
    BY <1>2, <1>3
  <1> QED  BY <1>1, <1>4 DEF Unread, States

\* The lexer reads one piece after the other.
LEMMA ReadingIs ==
  ASSUME Script
  PROVE  /\ Reading \in [0..Size -> States] /\ Reading[0] = Unread
         /\ \A k \in 1..Size : Reading[k] = ReadPiece(Reading[k - 1], k)
  <1> DEFINE read(k, s) == IF k \in 1..Size THEN ReadPiece(s, k) ELSE s
             g == [x \in Nat \X States |-> read(x[1], x[2])]
             Reads(f) == f = [k \in 0..Size |-> IF k = 0 THEN Unread ELSE ReadPiece(f[k - 1], k)]
  <1>1. g \in [Nat \X States -> States] /\ Unread \in States /\ 0 \in Nat /\ Size \in Int
    <2>1. \A x \in Nat \X States : read(x[1], x[2]) \in States
      BY ReadPieceType
    <2>2. Size \in Int
      BY DEF Script
    <2> QED  BY <2>1, <2>2, UnreadType
  <1>2. PICK f \in [0..Size -> States] :
          \A k \in 0..Size : f[k] = IF k = 0 THEN Unread ELSE g[<<k, f[k - 1]>>]
    <2> HIDE DEF g
    <2>1. \E f \in [0..Size -> States] : Unrolls(f, 0, Size, Unread, g)
      BY <1>1, Recursion
    <2> QED  BY <2>1 DEF Unrolls
  <1>3. ASSUME NEW k \in 0..Size, k # 0 PROVE g[<<k, f[k - 1]>>] = ReadPiece(f[k - 1], k)
    <2>1. k - 1 \in 0..Size /\ k \in Nat /\ k \in 1..Size
      BY <1>1, <1>3
    <2>2. <<k, f[k - 1]>> \in Nat \X States
      BY <2>1
    <2> QED  BY <2>1, <2>2
  <1>4. Reads(f)
    <2> HIDE DEF g
    <2> QED  BY <1>2, <1>3
  <1>5. Reading = CHOOSE f_1 : Reads(f_1)
    BY DEF Reading
  <1> HIDE DEF Reads
  <1>6. Reads(Reading)
    BY <1>4, <1>5
  <1>7. Reading = [k \in 0..Size |-> IF k = 0 THEN Unread ELSE ReadPiece(Reading[k - 1], k)]
    BY <1>6 DEF Reads
  <1>8. /\ DOMAIN Reading = 0..Size /\ Reading[0] = Unread
        /\ \A k \in 1..Size : Reading[k] = ReadPiece(Reading[k - 1], k)
    <2>1. Size \in Nat
      BY DEF Script
    <2> QED  BY <1>7, <2>1
  <1> DEFINE Typed == {k \in Nat : k <= Size => Reading[k] \in States}
  <1>9. Typed = Nat
    <2>1. 0 \in Typed
      BY <1>1, <1>8
    <2>2. ASSUME NEW k \in Typed PROVE k + 1 \in Typed
      <3> SUFFICES ASSUME k + 1 <= Size PROVE Reading[k + 1] \in States
        OBVIOUS
      <3>1. k \in Nat /\ k + 1 \in 1..Size /\ (k + 1) - 1 = k /\ Reading[k] \in States
        BY <1>1
      <3>2. Reading[k + 1] = ReadPiece(Reading[k], k + 1)
        BY <1>8, <3>1
      <3> QED  BY <3>1, <3>2, ReadPieceType
    <2>3. Typed \in SUBSET Nat
      OBVIOUS
    <2> HIDE DEF Typed
    <2> QED  BY <2>1, <2>2, <2>3, SetInduction
  <1>10. Reading \in [0..Size -> States]
    <2>1. \A k \in 0..Size : Reading[k] \in States
      BY <1>1, <1>9
    <2> QED  BY <1>7, <2>1
  <1> QED  BY <1>8, <1>10

LEMMA ReadsOn ==
  ASSUME Script, NEW k \in 1..Size
  PROVE  /\ Reading[k].mode = ModeAfter(Reading[k - 1], k)
         /\ Reading[k].delim = IF Mode(k) = "directive" /\ Mode(k - 1) # "directive" THEN Argument(k)
                               ELSE Reading[k - 1].delim
         /\ Reading[k].fresh = IF k \in Separators THEN "yes"
                               ELSE IF IsSQL(k) THEN "no" ELSE Reading[k - 1].fresh
         /\ Reading[k] \in States /\ Reading[k - 1] \in States
  <1>1. Reading[k] = ReadPiece(Reading[k - 1], k)
    BY ReadingIs
  <1>2. k \in 0..Size /\ k - 1 \in 0..Size
    BY PlacesAre
  <1>3. Reading[k] \in States /\ Reading[k - 1] \in States
    BY <1>2, ReadingIs
  <1>4. k \in Separators <=> Reading[k].mode[1] \in {"cut", "directive"}
    BY DEF Separators, Mode
  <1> QED  BY <1>1, <1>3, <1>4 DEF ReadPiece, Mode, IsSQL

\* How deep the scan of a block comment is.
LEMMA DepthsIs ==
  ASSUME Size \in Nat, NEW i \in 1..Size
  PROVE  /\ Depths(i)[i] = 1
         /\ \A j \in i + 1..Size :
               Depths(i)[j] = IF script[j] = "*/" THEN Depths(i)[j - 1] - 1
                              ELSE IF script[j] = "/*" /\ ~MySQL THEN Depths(i)[j - 1] + 1
                              ELSE Depths(i)[j - 1]
  <1> DEFINE next(j, d) == IF script[j] = "*/" THEN d - 1
                           ELSE IF script[j] = "/*" /\ ~MySQL THEN d + 1
                           ELSE d
             g == [x \in Nat \X Int |-> next(x[1], x[2])]
             Deepens(f) == f = [j \in i..Size |-> IF j = i THEN 1
                                                  ELSE IF script[j] = "*/" THEN f[j - 1] - 1
                                                  ELSE IF script[j] = "/*" /\ ~MySQL THEN f[j - 1] + 1
                                                  ELSE f[j - 1]]
  <1>1. g \in [Nat \X Int -> Int] /\ 1 \in Int /\ i \in Nat /\ Size \in Int
    OBVIOUS
  <1>2. PICK f \in [i..Size -> Int] :
          \A j \in i..Size : f[j] = IF j = i THEN 1 ELSE g[<<j, f[j - 1]>>]
    <2> HIDE DEF g
    <2>1. \E f \in [i..Size -> Int] : Unrolls(f, i, Size, 1, g)
      BY <1>1, Recursion
    <2> QED  BY <2>1 DEF Unrolls
  <1>3. ASSUME NEW j \in i..Size, j # i PROVE g[<<j, f[j - 1]>>] = next(j, f[j - 1])
    <2>1. j - 1 \in i..Size /\ j \in Nat
      BY <1>3
    <2>2. <<j, f[j - 1]>> \in Nat \X Int
      BY <2>1
    <2> HIDE DEF next
    <2> QED  BY <2>2
  <1>4. Deepens(f)
    <2>1. \A j \in i..Size : f[j] = IF j = i THEN 1 ELSE next(j, f[j - 1])
      <3> HIDE DEF g, next
      <3> QED  BY <1>2, <1>3
    <2> QED  BY <1>2, <2>1
  <1>5. Depths(i) = CHOOSE f_1 : Deepens(f_1)
    BY DEF Depths
  <1> HIDE DEF Deepens
  <1>6. Deepens(Depths(i))
    BY <1>4, <1>5
  <1> QED  BY <1>6 DEF Deepens

\* Where the stripping of a fragment is.
LEMMA StrippingIs ==
  ASSUME NEW f, f[1] - 1 \in Nat, f[1] \in Int, f[2] \in Int
  PROVE  /\ f[1] - 1 <= f[2] => Stripping(f)[f[1] - 1] = "text"
         /\ \A j \in f[1]..f[2] : Stripping(f)[j] = StripMode(Stripping(f)[j - 1], script[j])
  <1> DEFINE lo == f[1] - 1
             hi == f[2]
             Names == {"text", "line", "block"}
             g == [x \in Nat \X Names |-> StripMode(x[2], script[x[1]])]
             Strips(s) == s = [j \in lo..hi |-> IF j = lo THEN "text" ELSE StripMode(s[j - 1], script[j])]
  <1>1. g \in [Nat \X Names -> Names] /\ "text" \in Names /\ lo \in Nat /\ hi \in Int
    BY DEF StripMode
  <1>2. PICK s \in [lo..hi -> Names] :
          \A j \in lo..hi : s[j] = IF j = lo THEN "text" ELSE g[<<j, s[j - 1]>>]
    <2> HIDE DEF g, lo, hi, Names
    <2>1. \E s \in [lo..hi -> Names] : Unrolls(s, lo, hi, "text", g)
      BY <1>1, Recursion
    <2> QED  BY <2>1 DEF Unrolls
  <1>3. ASSUME NEW j \in lo..hi, j # lo PROVE g[<<j, s[j - 1]>>] = StripMode(s[j - 1], script[j])
    <2> HIDE DEF Names, lo, hi
    <2>1. j - 1 \in lo..hi /\ j \in Nat
      BY <1>1, <1>3
    <2>2. <<j, s[j - 1]>> \in Nat \X Names
      BY <2>1
    <2> QED  BY <2>2
  <1>4. Strips(s)
    <2> HIDE DEF g, lo, hi, Names
    <2> QED  BY <1>2, <1>3
  <1>5. Stripping(f) = CHOOSE s_1 : Strips(s_1)
    BY DEF Stripping
  <1> HIDE DEF Strips
  <1>6. Strips(Stripping(f))
    BY <1>4, <1>5
  <1>7. Stripping(f) = [j \in f[1] - 1..f[2] |->
                          IF j = f[1] - 1 THEN "text" ELSE StripMode(Stripping(f)[j - 1], script[j])]
    BY <1>6 DEF Strips
  <1>8. \A j \in f[1] - 1..f[2] :
          Stripping(f)[j] = IF j = f[1] - 1 THEN "text" ELSE StripMode(Stripping(f)[j - 1], script[j])
    BY <1>7
  <1>9. ASSUME NEW j \in f[1]..f[2] PROVE j \in f[1] - 1..f[2] /\ j # f[1] - 1
    OBVIOUS
  <1>10. f[1] - 1 <= f[2] => f[1] - 1 \in f[1] - 1..f[2]
    OBVIOUS
  <1> QED  BY <1>8, <1>9, <1>10

\* Where the scan of a literal ends, from each of its places on: the recursion goes
\* two places ahead, so it is followed from the end in pairs.
LEMMA ClosesIs ==
  ASSUME Size \in Nat, NEW i \in 1..Size
  PROVE  \A j \in i + 1..Size + 2 :
           Closes(i)[j] = IF j > Size THEN 0
                          ELSE IF script[j] = Backslash /\ BackslashEscapes(i) THEN Closes(i)[j + 2]
                          ELSE IF script[j] # script[i] THEN Closes(i)[j + 1]
                          ELSE IF Piece(j + 1) = script[i] THEN Closes(i)[j + 2]
                          ELSE j
  <1> DEFINE scan(j, one, two) ==
               IF script[j] = Backslash /\ BackslashEscapes(i) THEN two
               ELSE IF script[j] # script[i] THEN one
               ELSE IF Piece(j + 1) = script[i] THEN two
               ELSE j
             Pairs == Int \X Int
             g == [x \in Nat \X Pairs |-> <<scan(Size + 1 - x[1], x[2][1], x[2][2]), x[2][1]>>]
             Scans(c) == c = [j \in i + 1..Size + 2 |->
                                IF j > Size THEN 0
                                ELSE IF script[j] = Backslash /\ BackslashEscapes(i) THEN c[j + 2]
                                ELSE IF script[j] # script[i] THEN c[j + 1]
                                ELSE IF Piece(j + 1) = script[i] THEN c[j + 2]
                                ELSE j]
  <1>0. \A j, one, two \in Int : scan(j, one, two) \in Int
    OBVIOUS
  <1> HIDE DEF scan
  <1>1. g \in [Nat \X Pairs -> Pairs] /\ <<0, 0>> \in Pairs /\ 0 \in Nat /\ Size \in Int
    <2>1. ASSUME NEW x \in Nat \X Pairs
          PROVE  <<scan(Size + 1 - x[1], x[2][1], x[2][2]), x[2][1]>> \in Pairs
      <3>1. x[1] \in Nat /\ x[2][1] \in Int /\ x[2][2] \in Int /\ Size + 1 - x[1] \in Int
        OBVIOUS
      <3> QED  BY <1>0, <3>1
    <2> QED  BY <2>1
  <1>2. PICK h \in [0..Size -> Pairs] :
          \A n \in 0..Size : h[n] = IF n = 0 THEN <<0, 0>> ELSE g[<<n, h[n - 1]>>]
    <2> HIDE DEF g, Pairs
    <2>1. \E h \in [0..Size -> Pairs] : Unrolls(h, 0, Size, <<0, 0>>, g)
      BY <1>1, Recursion
    <2> QED  BY <2>1 DEF Unrolls
  <1>3. ASSUME NEW n \in 0..Size, n # 0
        PROVE  /\ h[n][1] = scan(Size + 1 - n, h[n - 1][1], h[n - 1][2])
               /\ h[n][2] = h[n - 1][1]
    <2>1. n - 1 \in 0..Size /\ n \in Nat /\ h[n] = g[<<n, h[n - 1]>>]
      <3> HIDE DEF g
      <3>1. n - 1 \in 0..Size /\ n \in Nat
        BY <1>3
      <3> QED  BY <1>2, <1>3, <3>1
    <2>2. h[n - 1] \in Pairs
      BY <2>1
    <2>3. h[n] = <<scan(Size + 1 - n, h[n - 1][1], h[n - 1][2]), h[n - 1][1]>>
      <3> HIDE DEF Pairs
      <3> QED  BY <2>1, <2>2
    <2> QED  BY <2>3
  <1>h. h[0] = <<0, 0>> /\ h[0][1] = 0 /\ h[0][2] = 0
    <2> HIDE DEF g
    <2>1. 0 \in 0..Size
      OBVIOUS
    <2>2. h[0] = <<0, 0>>
      BY <1>2, <2>1
    <2> QED  BY <2>2
  <1> HIDE DEF g
  <1> DEFINE c == [j \in i + 1..Size + 2 |-> IF j = Size + 2 THEN 0 ELSE h[Size + 1 - j][1]]
  <1>4. ASSUME NEW j \in i + 1..Size PROVE c[j] = scan(j, c[j + 1], c[j + 2])
    <2> DEFINE n == Size + 1 - j
    <2>1. /\ n \in 0..Size /\ n # 0 /\ Size + 1 - n = j /\ n - 1 \in 0..Size
          /\ j \in i + 1..Size + 2 /\ j + 1 \in i + 1..Size + 2 /\ j + 2 \in i + 1..Size + 2
          /\ Size + 1 - (j + 1) = n - 1 /\ j # Size + 2 /\ j + 1 # Size + 2
      OBVIOUS
    <2>2. c[j] = h[n][1] /\ c[j + 1] = h[n - 1][1]
      BY <2>1
    <2>3. c[j + 2] = h[n - 1][2]
      <3>1. CASE n - 1 = 0
        <4>1. j + 2 = Size + 2 /\ h[n - 1][2] = 0
          BY <1>h, <3>1
        <4> QED  BY <2>1, <4>1
      <3>2. CASE n - 1 # 0
        <4>1. h[n - 1][2] = h[(n - 1) - 1][1]
          BY <1>3, <2>1, <3>2
        <4>2. Size + 1 - (j + 2) = (n - 1) - 1 /\ j + 2 # Size + 2
          BY <3>2
        <4> QED  BY <2>1, <4>1, <4>2
      <3> QED  BY <3>1, <3>2
    <2>4. h[n][1] = scan(j, h[n - 1][1], h[n - 1][2])
      BY <1>3, <2>1
    <2> HIDE DEF c, n
    <2> QED  BY <2>2, <2>3, <2>4
  <1>5. ASSUME NEW j \in i + 1..Size + 2, j > Size PROVE c[j] = 0
    <2>1. CASE j = Size + 2
      BY <2>1
    <2>2. CASE j # Size + 2
      <3>1. j = Size + 1 /\ Size + 1 - j = 0 /\ h[0][1] = 0
        BY <1>h, <1>5, <2>2
      <3> QED  BY <2>2, <3>1
    <2> QED  BY <2>1, <2>2
  <1>6. Scans(c)
    <2>1. DOMAIN c = i + 1..Size + 2 /\ c = [j \in i + 1..Size + 2 |-> c[j]]
      OBVIOUS
    <2>2. ASSUME NEW j \in i + 1..Size + 2
          PROVE  c[j] = IF j > Size THEN 0 ELSE scan(j, c[j + 1], c[j + 2])
      <3>1. j > Size \/ j \in i + 1..Size
        OBVIOUS
      <3>2. j \in i + 1..Size => ~(j > Size)
        OBVIOUS
      <3> HIDE DEF c
      <3> QED  BY <1>4, <1>5, <3>1, <3>2
    <2> HIDE DEF c
    <2> QED  BY <2>1, <2>2 DEF scan
  <1>7. Closes(i) = CHOOSE c_1 : Scans(c_1)
    BY DEF Closes
  <1> HIDE DEF Scans
  <1>8. Scans(Closes(i))
    BY <1>6, <1>7
  <1> QED  BY <1>8 DEF Scans

-----------------------------------------------------------------------------
(* What the lexer makes of a stretch *)

\* Before piece k the lexer is outside of everything, or about to be.
AtTop(k) ==
    \/ Mode(k - 1) = "text"
    \/ Mode(k - 1) = "maybe" /\ Piece(k) # Reading[k - 1].mode[3]
    \/ Mode(k - 1) = "cut" /\ Reading[k - 1].mode[2] = 0
    \/ Mode(k - 1) \in {"line", "directive"} /\ Piece(k) = Newline
    \/ k = Size + 1

\* It is, and piece i separates nothing.
Opens(i) == AtTop(i) /\ Reading[i].mode = Opened(i)

\* From i, which is at the top, to n, which is again, nothing separates.
Jump(i, n) == n \in i + 1..Size + 1 /\ AtTop(n) /\ \A k \in i..n - 1 : k \notin Separators

\* At the top the lexer goes on as from outside.
LEMMA TopReads ==
  ASSUME Script, NEW i \in 1..Size, AtTop(i)
  PROVE  Reading[i].mode = Outside(Reading[i - 1], i) /\ Mode(i - 1) # "block"
  <1> DEFINE s == Reading[i - 1]
  <1>1. Reading[i].mode = ModeAfter(s, i) /\ i # Size + 1 /\ s \in States /\ Piece(i) = script[i]
    BY ReadsOn, PlacesAre, PieceIs
  <1>2. Piece(i) = Newline => Outside(s, i) = Text
    <2> SUFFICES ASSUME script[i] = Newline PROVE Outside(s, i) = Text
      BY <1>1
    <2>1. ~IsDirective(i)
      BY <1>1 DEF IsDirective, Newline
    <2>2. ~Delimits(s.delim, i)
      BY <1>1, DelimitsIs DEF States
    <2>3. Opened(i) = Text
      BY DEF Opened, Newline, Single, Double, Backtick
    <2> QED  BY <2>1, <2>2, <2>3 DEF Outside
  <1>3. CASE Mode(i - 1) = "text"
    BY <1>1, <1>3 DEF ModeAfter, Mode
  <1>4. CASE Mode(i - 1) = "maybe" /\ Piece(i) # s.mode[3]
    BY <1>1, <1>4 DEF ModeAfter, Mode
  <1>5. CASE Mode(i - 1) \in {"line", "directive"} /\ Piece(i) = Newline
    BY <1>1, <1>2, <1>5 DEF ModeAfter, Mode
  <1>6. CASE Mode(i - 1) = "cut" /\ s.mode[2] = 0
    BY <1>1, <1>6 DEF ModeAfter, Mode
  <1> QED  BY <1>1, <1>3, <1>4, <1>5, <1>6 DEF AtTop

LEMMA SeparatorsAre ==
  /\ Separators \subseteq 1..Size
  /\ \A k \in 1..Size : k \in Separators <=> Mode(k) \in {"cut", "directive"}
  BY DEF Separators

\* Over a stretch that nothing cuts the delimiter stays, and there is SQL after it
\* if there was before or there is in it.
LEMMA CarriesOn ==
  ASSUME Script, NEW i \in 1..Size + 1, NEW n \in i..Size + 1,
         \A k \in i..n - 1 : k \notin Separators
  PROVE  /\ Reading[n - 1].delim = Reading[i - 1].delim
         /\ Reading[n - 1].fresh = IF \E k \in i..n - 1 : IsSQL(k) THEN "no"
                                   ELSE Reading[i - 1].fresh
  <1>0. Size \in Nat /\ i \in Nat /\ n \in Nat
    BY DEF Script
  <1> DEFINE Carried(j) ==
               /\ Reading[j - 1].delim = Reading[i - 1].delim
               /\ Reading[j - 1].fresh = IF \E k \in i..j - 1 : IsSQL(k) THEN "no"
                                         ELSE Reading[i - 1].fresh
             T == {j \in Nat : i <= j /\ j <= n => Carried(j)}
  <1>1. 0 \in T
    BY <1>0
  <1>2. ASSUME NEW j \in T PROVE j + 1 \in T
    <2> SUFFICES ASSUME i <= j + 1, j + 1 <= n PROVE Carried(j + 1)
      OBVIOUS
    <2>1. j \in Nat
      OBVIOUS
    <2>2. CASE j + 1 = i
      <3>1. \A k \in i..(j + 1) - 1 : FALSE
        BY <1>0, <2>1, <2>2
      <3>2. Reading[(j + 1) - 1] = Reading[i - 1]
        BY <1>0, <2>1, <2>2
      <3> QED  BY <3>1, <3>2
    <2>3. CASE j + 1 # i
      <3>1. /\ i <= j /\ j <= n /\ j \in 1..Size /\ (j + 1) - 1 = j /\ j \in i..n - 1 /\ j \in i..j
            /\ \A k \in i..j : k = j \/ k \in i..j - 1
            /\ \A k \in i..j - 1 : k \in i..j
        BY <1>0, <2>1, <2>3
      <3>2. Carried(j) /\ j \notin Separators
        BY <3>1
      <3>3. Reading[j].delim = Reading[j - 1].delim
        BY <3>1, <3>2, ReadsOn, SeparatorsAre
      <3>4. Reading[j].fresh = IF IsSQL(j) THEN "no" ELSE Reading[j - 1].fresh
        BY <3>1, <3>2, ReadsOn
      <3>5. (\E k \in i..j : IsSQL(k)) <=> IsSQL(j) \/ \E k \in i..j - 1 : IsSQL(k)
        BY <3>1
      <3> QED  BY <3>1, <3>2, <3>3, <3>4, <3>5
    <2> QED  BY <2>2, <2>3
  <1>3. T = Nat
    <2>1. T \in SUBSET Nat
      OBVIOUS
    <2> HIDE DEF T
    <2> QED  BY <1>1, <1>2, <2>1, SetInduction
  <1>4. i <= n /\ n <= n /\ n \in T
    BY <1>0, <1>3
  <1> HIDE DEF Carried
  <1>5. Carried(n)
    BY <1>4
  <1> QED  BY <1>5 DEF Carried

\* Nothing is read yet: the lexer is outside of everything and knows ";".
LEMMA StartsOutside ==
  ASSUME Script
  PROVE  Reading[0].mode[1] = "text" /\ Reading[0].fresh = "yes" /\ Reading[0].delim = <<";">>
  <1>1. Reading[0] = Unread
    BY ReadingIs
  <1>2. \A m, d, f : LET r == [mode |-> m, delim |-> d, fresh |-> f]
                    IN  r.mode = m /\ r.delim = d /\ r.fresh = f
    OBVIOUS
  <1>3. Unread.mode = Text /\ Unread.delim = <<";">> /\ Unread.fresh = "yes"
    BY <1>2 DEF Unread
  <1>4. Text[1] = "text"
    BY DEF Text
  <1> QED  BY <1>1, <1>3, <1>4

\* While nothing ends it, the lexer's mode stays.
LEMMA Stays ==
  ASSUME Script, NEW i \in 1..Size, NEW e \in Nat, e <= Size + 1, NEW m, Reading[i].mode = m,
         \A k \in i + 1..e - 1 : \A s \in States : s.mode = m => ModeAfter(s, k) = m
  PROVE  \A k \in i..e - 1 : Reading[k].mode = m
  <1>0. Size \in Nat /\ i \in Nat
    BY DEF Script
  <1> DEFINE T == {n \in Nat : \A k \in i..e - 1 : k <= n => Reading[k].mode = m}
  <1>1. 0 \in T
    <2>1. \A k \in i..e - 1 : ~(k <= 0)
      BY <1>0
    <2> QED  BY <2>1
  <1>2. ASSUME NEW n \in T PROVE n + 1 \in T
    <2> SUFFICES ASSUME NEW k \in i..e - 1, k = n + 1, k # i PROVE Reading[k].mode = m
      <3>1. n \in Nat
        OBVIOUS
      <3>2. \A k \in i..e - 1 : k <= n + 1 => k <= n \/ k = n + 1
        BY <1>0, <3>1
      <3> QED  BY <3>1, <3>2
    <2>1. k - 1 \in i..e - 1 /\ k - 1 <= n /\ k \in i + 1..e - 1 /\ k \in 1..Size
      BY <1>0
    <2>2. /\ Reading[k - 1].mode = m /\ Reading[k].mode = ModeAfter(Reading[k - 1], k)
          /\ Reading[k - 1] \in States
      BY <1>2, <2>1, ReadsOn
    <2> QED  BY <2>1, <2>2
  <1>3. T = Nat
    <2>1. T \in SUBSET Nat
      OBVIOUS
    <2> HIDE DEF T
    <2> QED  BY <1>1, <1>2, <2>1, SetInduction
  <1>4. e \in T /\ \A k \in i..e - 1 : k <= e
    BY <1>3
  <1> QED  BY <1>4

-----------------------------------------------------------------------------
(* Where the walk jumps, the lexer is inside something that nothing cuts *)

InLiteral(k) == Mode(k) \in {"quote", "skip", "maybe"}

\* From its quote the lexer is inside until the quote that the scan finds.
LEMMA LiteralEnds ==
  ASSUME Script, NEW i \in 1..Size, script[i] # Backslash, NEW esc,
         esc = IF BackslashEscapes(i) THEN 1 ELSE 0,
         Reading[i].mode = <<"quote", esc, script[i]>>
  PROVE  LET c == ScanQuoted(i)
         IN  \/ c = 0 /\ \A k \in i + 1..Size : InLiteral(k)
             \/ /\ c \in i + 1..Size /\ Reading[c].mode = <<"maybe", esc, script[i]>>
                /\ Piece(c + 1) # script[i]
                /\ \A k \in i + 1..c : InLiteral(k)
  <1> DEFINE in == <<"quote", esc, script[i]>>
             Shut(j) ==
               Reading[j - 1].mode = in =>
                 \/ Closes(i)[j] = 0 /\ \A k \in j..Size : InLiteral(k)
                 \/ /\ Closes(i)[j] \in j..Size
                    /\ Reading[Closes(i)[j]].mode = <<"maybe", esc, script[i]>>
                    /\ Piece(Closes(i)[j] + 1) # script[i]
                    /\ \A k \in j..Closes(i)[j] : InLiteral(k)
             T == {n \in Nat : \A j \in i + 1..Size + 1 : Size + 1 - j <= n => Shut(j)}
  <1>0. Size \in Nat /\ i \in Nat
    BY DEF Script
  <1>1. 0 \in T
    <2> SUFFICES ASSUME NEW j \in i + 1..Size + 1, Size + 1 - j <= 0 PROVE Shut(j)
      OBVIOUS
    <2>1. j = Size + 1 /\ j \in i + 1..Size + 2 /\ j > Size
      BY <1>0
    <2>2. Closes(i)[j] = 0
      BY <1>0, <2>1, ClosesIs
    <2>3. \A k \in j..Size : FALSE
      BY <1>0, <2>1
    <2> QED  BY <2>2, <2>3
  <1>2. ASSUME NEW n \in T PROVE n + 1 \in T
    <2>0. n \in Nat /\ \A j \in i + 1..Size + 1 : Size + 1 - j <= n => Shut(j)
      BY <1>2
    <2> SUFFICES ASSUME NEW j \in i + 1..Size + 1, Size + 1 - j <= n + 1, j <= Size,
                        Reading[j - 1].mode = in
                 PROVE  Shut(j)
      <3>1. ASSUME NEW j \in i + 1..Size + 1, j > Size PROVE Size + 1 - j <= n
        BY <1>0, <2>0, <3>1
      <3> HIDE DEF Shut
      <3>2. ASSUME NEW j \in i + 1..Size + 1, Reading[j - 1].mode # in PROVE Shut(j)
        BY <3>2 DEF Shut
      <3> QED  BY <1>0, <2>0, <3>1, <3>2
    <2>1. /\ j \in 1..Size /\ j \in i + 1..Size + 2 /\ j + 1 \in i + 1..Size + 1
          /\ Size + 1 - (j + 1) <= n /\ Size + 1 - (j + 2) <= n /\ ~(j > Size)
          /\ (j + 1) - 1 = j /\ (j + 2) - 1 = j + 1
      BY <1>0, <2>0
    <2>2. /\ Closes(i)[j] = IF script[j] = Backslash /\ BackslashEscapes(i) THEN Closes(i)[j + 2]
                            ELSE IF script[j] # script[i] THEN Closes(i)[j + 1]
                            ELSE IF Piece(j + 1) = script[i] THEN Closes(i)[j + 2]
                            ELSE j
          /\ Reading[j].mode = ModeAfter(Reading[j - 1], j)
      BY <1>0, <2>1, ClosesIs, ReadsOn
    <2>r. Reading[j].mode = <<CASE script[j] = script[i] -> "maybe"
                                [] script[j] = Backslash /\ esc = 1 -> "skip"
                                [] OTHER -> "quote", esc, script[i]>>
      BY <2>2 DEF ModeAfter
    <2>3. InLiteral(j) /\ (BackslashEscapes(i) <=> esc = 1)
      <3>1. Mode(j) \in {"maybe", "skip", "quote"}
        BY <2>r DEF Mode
      <3> QED  BY <3>1 DEF InLiteral
    <2>4. ASSUME Closes(i)[j] = Closes(i)[j + 2], InLiteral(j + 1) \/ j = Size,
                 j < Size => Reading[j + 1].mode = in
          PROVE  Shut(j)
      <3>1. CASE j = Size
        <4>1. j + 2 \in i + 1..Size + 2 /\ j + 2 > Size
          <5> HIDE DEF Shut
          <5>1. j \in Nat /\ i + 1 <= j /\ j = Size
            BY <1>0, <2>1, <3>1
          <5> QED  BY <1>0, <5>1
        <4>2. Closes(i)[j + 2] = 0
          BY <1>0, <4>1, ClosesIs
        <4>3. \A k \in j..Size : k = j
          BY <1>0, <2>1, <3>1
        <4> QED  BY <2>3, <2>4, <4>2, <4>3
      <3>2. CASE j < Size
        <4>1. j + 2 \in i + 1..Size + 1
          BY <1>0, <2>1, <3>2
        <4> HIDE DEF Shut
        <4>2. Shut(j + 2)
          BY <2>0, <2>1, <4>1
        <4>3. ASSUME NEW c, c \in j + 2..Size \/ c = 0
              PROVE  /\ \A k \in j..c : k = j \/ k = j + 1 \/ k \in j + 2..c
                     /\ \A k \in j..Size : k = j \/ k = j + 1 \/ k \in j + 2..Size
                     /\ c \in j + 2..Size => c \in j..Size
          BY <1>0, <2>1, <4>3
        <4> QED  BY <2>1, <2>3, <2>4, <3>2, <4>2, <4>3 DEF Shut
      <3> QED  BY <1>0, <2>1, <3>1, <3>2
    <2>5. CASE script[j] = Backslash /\ esc = 1
      <3>1. Reading[j].mode = <<"skip", esc, script[i]>> /\ Closes(i)[j] = Closes(i)[j + 2]
        BY <2>2, <2>r, <2>3, <2>5
      <3>2. j < Size => Reading[j + 1].mode = ModeAfter(Reading[j], j + 1)
        <4>1. j < Size => j + 1 \in 1..Size
          BY <1>0, <2>1
        <4> QED  BY <1>0, <2>1, <3>1, <4>1, ReadsOn
      <3>3. j < Size => Reading[j + 1].mode = in
        BY <3>1, <3>2 DEF ModeAfter
      <3>4. InLiteral(j + 1) \/ j = Size
        <4>1. j < Size \/ j = Size
          BY <1>0, <2>1
        <4> QED  BY <3>3, <4>1 DEF InLiteral, Mode
      <3> QED  BY <2>4, <3>1, <3>3, <3>4
    <2>6. CASE script[j] = script[i] /\ Piece(j + 1) = script[i]
      <3>1. Reading[j].mode = <<"maybe", esc, script[i]>> /\ Closes(i)[j] = Closes(i)[j + 2]
        BY <2>2, <2>r, <2>6
      <3>e. script[i] # "end"
        <4>1. script[i] \in Marks
          BY PieceIs
        <4> QED  BY <4>1 DEF Marks, Pieces, Common, Single, Double, Backtick, Backslash, Newline
      <3>2. j + 1 \in 1..Size /\ script[j + 1] = script[i]
        BY <2>6, <3>e DEF Piece
      <3>3. Reading[j + 1].mode = ModeAfter(Reading[j], j + 1)
        BY <1>0, <2>1, <3>1, <3>2, ReadsOn
      <3>4. Reading[j + 1].mode = in
        BY <3>1, <3>2, <3>3 DEF ModeAfter
      <3>5. InLiteral(j + 1)
        BY <3>4 DEF InLiteral, Mode
      <3> QED  BY <2>4, <3>1, <3>4, <3>5
    <2>7. CASE script[j] = script[i] /\ Piece(j + 1) # script[i]
      <3>1. Reading[j].mode = <<"maybe", esc, script[i]>> /\ Closes(i)[j] = j
        BY <2>2, <2>r, <2>7
      <3>2. \A k \in j..j : k = j
        BY <2>1
      <3>3. j \in j..Size
        BY <1>0, <2>1
      <3> QED  BY <2>3, <2>7, <3>1, <3>2, <3>3
    <2>8. CASE script[j] # script[i] /\ ~(script[j] = Backslash /\ esc = 1)
      <3>1. Reading[j].mode = in /\ Closes(i)[j] = Closes(i)[j + 1]
        BY <2>2, <2>r, <2>3, <2>8
      <3> HIDE DEF Shut
      <3>2. Shut(j + 1)
        BY <2>0, <2>1
      <3>3. ASSUME NEW c, c \in j + 1..Size \/ c = 0
            PROVE  /\ \A k \in j..c : k = j \/ k \in j + 1..c
                   /\ \A k \in j..Size : k = j \/ k \in j + 1..Size
                   /\ c \in j + 1..Size => c \in j..Size
        BY <1>0, <2>1, <3>3
      <3> QED  BY <2>1, <2>3, <3>1, <3>2, <3>3 DEF Shut
    <2> QED  BY <2>5, <2>6, <2>7, <2>8
  <1>3. T = Nat
    <2>1. T \in SUBSET Nat
      OBVIOUS
    <2> HIDE DEF T
    <2> QED  BY <1>1, <1>2, <2>1, SetInduction
  <1>4. Shut(i + 1)
    <2> HIDE DEF Shut
    <2>1. i + 1 \in i + 1..Size + 1 /\ Size + 1 - (i + 1) \in Nat
      BY <1>0
    <2>2. Size + 1 - (i + 1) \in T
      BY <1>3, <2>1
    <2> QED  BY <1>0, <2>1, <2>2
  <1>5. (i + 1) - 1 = i
    BY <1>0
  <1> QED  BY <1>4, <1>5 DEF ScanQuoted

\* A literal is jumped over whole, and is SQL.
LEMMA QuotedJumps ==
  ASSUME Script, NEW i \in 1..Size, Opens(i), Piece(i) \in Quotes
  PROVE  /\ Jump(i, IF ScanQuoted(i) = 0 THEN Size + 1 ELSE ScanQuoted(i) + 1)
         /\ IsSQL(i)
  <1>0. /\ Size \in Nat /\ i \in Nat /\ Piece(i) = script[i]
        /\ script[i] \in {Single, Double, Backtick} /\ script[i] # Backslash
        /\ script[i] = Backtick => MySQL
    BY PieceIs, PlacesAre DEF Quotes, Single, Double, Backtick, Backslash
  <1> DEFINE esc == IF BackslashEscapes(i) THEN 1 ELSE 0
             c == ScanQuoted(i)
  <1>1. Reading[i].mode = <<"quote", esc, script[i]>> /\ Mode(i - 1) # "block"
    <2>1. LiteralEscapes(i) <=> BackslashEscapes(i)
      BY <1>0 DEF LiteralEscapes, BackslashEscapes, Single, Double, Backtick
    <2>2. Opened(i) = <<"quote", IF LiteralEscapes(i) THEN 1 ELSE 0, script[i]>>
      BY <1>0 DEF Opened, Single, Double, Backtick
    <2> QED  BY <2>1, <2>2, TopReads DEF Opens
  <1>2. InLiteral(i)
    BY <1>1 DEF InLiteral, Mode
  <1>3. IsSQL(i)
    BY <1>0, <1>1 DEF IsSQL, SqlBetween, Mode, Newline, Single, Double, Backtick
  <1>4. \/ c = 0 /\ \A k \in i + 1..Size : InLiteral(k)
        \/ /\ c \in i + 1..Size /\ Reading[c].mode = <<"maybe", esc, script[i]>>
           /\ Piece(c + 1) # script[i]
           /\ \A k \in i + 1..c : InLiteral(k)
    <2> HIDE DEF esc
    <2>1. esc = IF BackslashEscapes(i) THEN 1 ELSE 0
      BY DEF esc
    <2> QED  BY <1>0, <1>1, <2>1, LiteralEnds
  <1> HIDE DEF c
  <1>5. ASSUME NEW k \in 1..Size, InLiteral(k) PROVE k \notin Separators
    BY <1>5, SeparatorsAre DEF InLiteral
  <1>6. CASE c = 0 /\ \A k \in i + 1..Size : InLiteral(k)
    <2>1. \A k \in i..(Size + 1) - 1 : k = i \/ (k \in i + 1..Size /\ k \in 1..Size)
      BY <1>0
    <2>2. AtTop(Size + 1) /\ Size + 1 \in i + 1..Size + 1
      BY <1>0 DEF AtTop
    <2>3. Jump(i, Size + 1)
      BY <1>2, <1>5, <1>6, <2>1, <2>2 DEF Jump
    <2> QED  BY <1>3, <1>6, <2>3 DEF c
  <1>7. CASE /\ c \in i + 1..Size /\ Reading[c].mode = <<"maybe", esc, script[i]>>
             /\ Piece(c + 1) # script[i]
             /\ \A k \in i + 1..c : InLiteral(k)
    <2>1. \A k \in i..(c + 1) - 1 : k = i \/ (k \in i + 1..c /\ k \in 1..Size)
      BY <1>0, <1>7
    <2>2. (c + 1) - 1 = c /\ c + 1 \in i + 1..Size + 1 /\ c # 0
      BY <1>0, <1>7
    <2>3. AtTop(c + 1)
      BY <1>7, <2>2 DEF AtTop, Mode
    <2>4. Jump(i, c + 1)
      BY <1>2, <1>5, <1>7, <2>1, <2>2, <2>3 DEF Jump
    <2> QED  BY <1>3, <2>2, <2>4 DEF c
  <1> QED  BY <1>4, <1>6, <1>7

\* A line comment is jumped over up to its newline, and is not SQL.
LEMMA LineCommentJumps ==
  ASSUME Script, NEW i \in 1..Size, Opens(i), LineCommentStartsAt(i)
  PROVE  Jump(i, EndOfLine(i)) /\ \A k \in i..EndOfLine(i) - 1 : ~IsSQL(k)
  <1> DEFINE line == <<"line", 0, script[i]>>
             e == EndOfLine(i)
  <1>0. Size \in Nat /\ i \in Nat /\ script[i] \in {"--", "#"} /\ Piece(i) = script[i]
    <2>1. Piece(i) \in {"--", "#"}
      BY DEF LineCommentStartsAt
    <2> QED  BY <2>1, PieceIs, PlacesAre
  <1>1. Reading[i].mode = line
    <2>1. Opened(i) = line
      BY <1>0 DEF Opened, LineCommentStartsAt, Single, Double, Backtick
    <2> QED  BY <2>1 DEF Opens
  <1>2. /\ e \in i..Size + 1 /\ e \in Nat /\ \A k \in i..e - 1 : script[k] # Newline
        /\ e = Size + 1 \/ (e \in 1..Size /\ script[e] = Newline)
        /\ e \in i + 1..Size + 1
    <2>1. script[i] # Newline
      BY <1>0 DEF Newline
    <2> QED  BY <2>1, EndOfLineIs
  <1> HIDE DEF e
  <1>3. \A k \in i..e - 1 : Reading[k].mode = line
    <2>1. e <= Size + 1 /\ \A k \in i + 1..e - 1 : k \in i..e - 1
      BY <1>0, <1>2
    <2>2. \A k \in i + 1..e - 1 : \A s \in States : s.mode = line => ModeAfter(s, k) = line
      BY <1>2, <2>1 DEF ModeAfter
    <2> HIDE DEF line
    <2> QED  BY <1>1, <1>2, <2>1, <2>2, Stays
  <1>4. \A k \in i..e - 1 : ~IsSQL(k)
    BY <1>3 DEF IsSQL, SqlBetween
  <1>5. \A k \in i..e - 1 : k \notin Separators
    <2>1. \A k \in i..e - 1 : k \in 1..Size /\ Mode(k) = "line"
      BY <1>0, <1>2, <1>3 DEF Mode
    <2> QED  BY <2>1, SeparatorsAre
  <1>6. AtTop(e)
    <2>1. CASE e = Size + 1
      BY <2>1 DEF AtTop
    <2>2. CASE e \in 1..Size /\ script[e] = Newline
      <3>1. e - 1 \in i..e - 1
        BY <1>0, <1>2
      <3>2. Mode(e - 1) = "line" /\ Piece(e) = Newline
        BY <1>3, <2>2, <3>1, PieceIs DEF Mode
      <3> QED  BY <3>2 DEF AtTop
    <2> QED  BY <1>2, <2>1, <2>2
  <1> QED  BY <1>2, <1>4, <1>5, <1>6 DEF Jump, e

\* A comment that is only one is jumped over whole, and is not SQL.
LEMMA CommentJumps ==
  ASSUME Script, NEW i \in 1..Size, Reading[i].mode = <<"block", 1, script[i]>>
  PROVE  /\ Jump(i, ScanBlockComment(i))
         /\ \A k \in i + 1..ScanBlockComment(i) - 1 : ~IsSQL(k)
         /\ ~IsSQL(i)
  <1> DEFINE d == Depths(i)
             E == CommentEnds(i)
             e == Earliest(E, Size)
             T == {n \in Nat : \A k \in i..Size : k <= n /\ (\A j \in i..k : j \notin E) =>
                                 /\ Reading[k].mode = <<"block", d[k], script[i]>>
                                 /\ d[k] \in Nat /\ d[k] # 0}
  <1>0. Size \in Nat /\ i \in Nat
    BY PlacesAre
  <1>1. Reading[i].mode = <<"block", 1, script[i]>> /\ d[i] = 1
    BY <1>0, DepthsIs
  <1>e. E = {j \in i..Size : d[j] = 0}
    BY DEF CommentEnds
  <1>2. IF E = {} THEN e = Size ELSE e \in E /\ \A k \in E : e <= k
    <2>1. E \in SUBSET Nat
      BY <1>0, <1>e
    <2> HIDE DEF E
    <2> QED  BY <2>1, EarliestIs
  <1> HIDE DEF E
  <1>3. ASSUME NEW k \in i + 1..Size, Reading[k - 1].mode = <<"block", d[k - 1], script[i]>>,
               d[k - 1] \in Nat, d[k - 1] # 0
        PROVE  /\ d[k] \in Nat
               /\ d[k] # 0 => Reading[k].mode = <<"block", d[k], script[i]>>
               /\ d[k] = 0 => Reading[k].mode = Text
    <2>1. k \in 1..Size
      BY <1>0
    <2>2. Reading[k].mode = ModeAfter(Reading[k - 1], k)
      BY <2>1, ReadsOn
    <2>3. d[k] = IF script[k] = "*/" THEN d[k - 1] - 1
                 ELSE IF script[k] = "/*" /\ ~MySQL THEN d[k - 1] + 1
                 ELSE d[k - 1]
      BY <1>0, DepthsIs
    <2> HIDE DEF d
    <2>4. d[k - 1] = 1 => d[k - 1] - 1 = 0
      BY <1>3
    <2>5. d[k - 1] # 1 => d[k - 1] - 1 # 0 /\ d[k - 1] - 1 \in Nat
      BY <1>3
    <2>6. d[k - 1] + 1 \in Nat /\ d[k - 1] + 1 # 0
      BY <1>3
    <2> QED  BY <1>3, <2>2, <2>3, <2>4, <2>5, <2>6 DEF ModeAfter
  <1> HIDE DEF e
  <1>4. T = Nat
    <2>1. 0 \in T
      <3>1. \A k \in i..Size : ~(k <= 0)
        BY <1>0
      <3> QED  BY <3>1
    <2>2. ASSUME NEW n \in T PROVE n + 1 \in T
      <3> SUFFICES ASSUME NEW k \in i..Size, k <= n + 1, \A j \in i..k : j \notin E
                   PROVE  /\ Reading[k].mode = <<"block", d[k], script[i]>>
                          /\ d[k] \in Nat /\ d[k] # 0
        OBVIOUS
      <3>1. n \in Nat /\ k \in i..k
        BY <1>0
      <3>2. d[k] # 0
        BY <1>e, <3>1
      <3>3. CASE k = i
        BY <1>1, <3>3
      <3>4. CASE k # i
        <4>1. k - 1 \in i..Size /\ k - 1 <= n /\ k \in i + 1..Size /\ \A j \in i..k - 1 : j \in i..k
          BY <1>0, <3>1, <3>4
        <4>2. /\ Reading[k - 1].mode = <<"block", d[k - 1], script[i]>>
              /\ d[k - 1] \in Nat /\ d[k - 1] # 0
          BY <4>1
        <4> QED  BY <1>3, <3>2, <4>1, <4>2
      <3> QED  BY <3>3, <3>4
    <2>3. T \in SUBSET Nat
      OBVIOUS
    <2> HIDE DEF T
    <2> QED  BY <2>1, <2>2, <2>3, SetInduction
  <1>5. ASSUME NEW k \in i..Size, \A j \in i..k : j \notin E
        PROVE  Reading[k].mode = <<"block", d[k], script[i]>> /\ d[k] \in Nat /\ d[k] # 0
    <2>1. k \in Nat /\ k <= k
      BY <1>0
    <2>2. k \in T
      BY <1>4, <2>1
    <2> QED  BY <1>5, <2>1, <2>2
  <1> HIDE DEF T
  <1>6. /\ e \in i..Size
        /\ \A k \in i..e : Mode(k) = "block" \/ (Reading[k].mode = Text /\ Mode(k - 1) = "block")
        /\ e + 1 <= Size => Reading[e].mode = Text
    <2>1. CASE E = {}
      <3>1. \A k \in i..Size : Mode(k) = "block"
        BY <1>5, <2>1 DEF Mode
      <3>2. e = Size /\ Size \in i..Size /\ ~(Size + 1 <= Size)
        BY <1>0, <1>2, <2>1
      <3> QED  BY <3>1, <3>2
    <2>2. CASE E # {}
      <3>1. e \in i..Size /\ d[e] = 0 /\ \A k \in E : e <= k
        BY <1>2, <1>e, <2>2
      <3>2. e # i
        BY <1>1, <3>1
      <3>3. ASSUME NEW k \in i..e - 1
            PROVE  Reading[k].mode = <<"block", d[k], script[i]>> /\ d[k] \in Nat /\ d[k] # 0
        <4>1. k \in i..Size /\ \A j \in i..k : ~(e <= j)
          BY <1>0, <3>1
        <4>2. \A j \in i..k : j \notin E
          BY <3>1, <4>1
        <4> HIDE DEF d
        <4> QED  BY <1>5, <4>1, <4>2
      <3>4. e - 1 \in i..e - 1 /\ e \in i + 1..Size
        BY <1>0, <3>1, <3>2
      <3>5. Reading[e].mode = Text /\ Mode(e - 1) = "block"
        BY <1>3, <3>1, <3>3, <3>4 DEF Mode
      <3>6. \A k \in i..e : k = e \/ k \in i..e - 1
        BY <1>0, <3>1, <3>2
      <3>7. \A k \in i..e - 1 : Mode(k) = "block"
        BY <3>3 DEF Mode
      <3> QED  BY <3>1, <3>5, <3>6, <3>7
    <2> QED  BY <2>1, <2>2
  <1> HIDE DEF d
  <1>7. ScanBlockComment(i) = e + 1 /\ (e + 1) - 1 = e
    BY <1>0, <1>6 DEF ScanBlockComment, e, E
  <1>8. \A k \in i..e : ~IsSQL(k)
    BY <1>6 DEF IsSQL, SqlBetween, Mode
  <1>9. \A k \in i..e : k \notin Separators
    <2>1. \A k \in i..e : k \in 1..Size /\ Mode(k) \in {"block", "text"}
      BY <1>0, <1>6 DEF Mode, Text
    <2> QED  BY <2>1, SeparatorsAre
  <1>10. AtTop(e + 1)
    <2>1. e + 1 <= Size \/ e + 1 = Size + 1
      BY <1>0, <1>6
    <2> QED  BY <1>6, <1>7, <2>1 DEF AtTop, Text, Mode
  <1>11. e + 1 \in i + 1..Size + 1 /\ i \in i..e /\ \A k \in i + 1..e : k \in i..e
    BY <1>0, <1>6
  <1> QED  BY <1>7, <1>8, <1>9, <1>10, <1>11 DEF Jump

\* In MySQL, where they do not nest, a comment ends at the first "*/" after it.
LEMMA EndsAtFirst ==
  ASSUME Script, MySQL, NEW i \in 1..Size, NEW e \in i + 1..Size + 1,
         \A k \in i + 1..e - 1 : script[k] # "*/",
         e = Size + 1 \/ script[e] = "*/"
  PROVE  IF e = Size + 1 THEN CommentEnds(i) = {}
         ELSE CommentEnds(i) # {} /\ ScanBlockComment(i) = e + 1
  <1> DEFINE d == Depths(i)
             T == {n \in Nat : \A k \in i..e - 1 : k <= n => d[k] = 1}
  <1>0. Size \in Nat /\ i \in Nat /\ e \in Nat
    BY PlacesAre
  <1>1. d[i] = 1 /\ \A j \in i + 1..Size : d[j] = IF script[j] = "*/" THEN d[j - 1] - 1 ELSE d[j - 1]
    BY <1>0, DepthsIs
  <1> HIDE DEF d
  <1>2. 0 \in T
    <2>1. \A k \in i..e - 1 : ~(k <= 0)
      BY <1>0
    <2> QED  BY <2>1
  <1>3. ASSUME NEW n \in T PROVE n + 1 \in T
    <2> SUFFICES ASSUME NEW k \in i..e - 1, k <= n + 1 PROVE d[k] = 1
      OBVIOUS
    <2>1. CASE k = i
      BY <1>1, <2>1
    <2>2. CASE k # i
      <3>1. k \in i + 1..Size /\ k \in i + 1..e - 1 /\ k - 1 \in i..e - 1 /\ k - 1 <= n
        BY <1>0, <2>2
      <3> QED  BY <1>1, <3>1
    <2> QED  BY <2>1, <2>2
  <1>4. T = Nat
    <2>1. T \in SUBSET Nat
      OBVIOUS
    <2> HIDE DEF T
    <2> QED  BY <1>2, <1>3, <2>1, SetInduction
  <1>5. ASSUME NEW k \in i..e - 1 PROVE d[k] = 1
    <2>1. k \in Nat /\ k <= k
      BY <1>0
    <2>2. k \in T
      BY <1>4, <2>1
    <2> QED  BY <2>1, <2>2
  <1> HIDE DEF T
  <1>6. CommentEnds(i) = {j \in i..Size : d[j] = 0}
    BY DEF CommentEnds, d
  <1>7. CASE e = Size + 1
    <2>1. \A k \in i..Size : k \in i..e - 1
      BY <1>0, <1>7
    <2> QED  BY <1>5, <1>6, <1>7, <2>1
  <1>8. CASE e # Size + 1
    <2>1. e \in i..Size /\ e \in i + 1..Size /\ e - 1 \in i..e - 1
      BY <1>0, <1>8
    <2>2. d[e] = 0
      BY <1>1, <1>5, <1>8, <2>1
    <2>3. e \in CommentEnds(i)
      BY <1>6, <2>1, <2>2
    <2>4. \A j \in CommentEnds(i) : e <= j
      <3>1. \A j \in i..Size : ~(e <= j) => j \in i..e - 1
        BY <1>0
      <3> QED  BY <1>5, <1>6, <3>1
    <2>5. CommentEnds(i) \in SUBSET Nat
      BY <1>0, <1>6
    <2> DEFINE f == Earliest(CommentEnds(i), Size)
    <2>6. f \in CommentEnds(i) /\ \A j \in CommentEnds(i) : f <= j
      BY <2>3, <2>5, EarliestIs
    <2> HIDE DEF f
    <2>7. f = e
      <3>1. f \in Nat /\ f <= e /\ e <= f
        BY <2>3, <2>4, <2>5, <2>6
      <3> QED  BY <1>0, <3>1
    <2> QED  BY <1>8, <2>3, <2>7 DEF ScanBlockComment, f
  <1> QED  BY <1>7, <1>8

Laters(i, mark) == {j \in i + 1..Size : script[j] = mark}

\* A mark that comes later has a first place, and one that does not has none.
LEMMA FirstLater ==
  ASSUME Script, NEW i \in 1..Size, NEW mark
  PROVE  \E e \in i + 1..Size + 1 :
           /\ \A k \in i + 1..e - 1 : script[k] # mark
           /\ e = Size + 1 \/ script[e] = mark
           /\ e # Size + 1 <=> Laters(i, mark) # {}
           /\ e # Size + 1 => Earliest(Laters(i, mark), i) = e
           /\ e = Size + 1 => Earliest(Laters(i, mark), i) = i
  <1> DEFINE E == Laters(i, mark)
             f == IF E = {} THEN Size + 1 ELSE Earliest(E, i)
             First(e) == /\ \A k \in i + 1..e - 1 : script[k] # mark
                         /\ e = Size + 1 \/ script[e] = mark
                         /\ e # Size + 1 <=> E # {}
                         /\ e # Size + 1 => Earliest(E, i) = e
                         /\ e = Size + 1 => Earliest(E, i) = i
  <1>0. Size \in Nat /\ i \in Nat
    BY PlacesAre
  <1>e. E = {j \in i + 1..Size : script[j] = mark}
    BY DEF Laters
  <1> HIDE DEF E
  <1>1. IF E = {} THEN Earliest(E, i) = i ELSE Earliest(E, i) \in E /\ \A k \in E : Earliest(E, i) <= k
    <2>1. E \in SUBSET Nat
      BY <1>0, <1>e
    <2> QED  BY <2>1, EarliestIs
  <1>2. ASSUME E = {} PROVE \E e \in i + 1..Size + 1 : First(e)
    <2>1. \A k \in i + 1..(Size + 1) - 1 : k \in i + 1..Size
      BY <1>0
    <2>2. First(Size + 1)
      BY <1>1, <1>2, <1>e, <2>1
    <2>3. Size + 1 \in i + 1..Size + 1
      BY <1>0
    <2> HIDE DEF First
    <2> QED  BY <2>2, <2>3
  <1>3. ASSUME E # {} PROVE \E e \in i + 1..Size + 1 : First(e)
    <2>1. f \in E /\ (\A k \in E : f <= k) /\ Earliest(E, i) = f
      BY <1>1, <1>3
    <2> HIDE DEF f
    <2>2. f \in i + 1..Size /\ script[f] = mark
      BY <1>e, <2>1
    <2>3. f \in i + 1..Size + 1 /\ f # Size + 1
      BY <1>0, <2>2
    <2>4. \A k \in i + 1..f - 1 : k \in i + 1..Size /\ ~(f <= k)
      BY <1>0, <2>2
    <2>5. \A k \in i + 1..f - 1 : script[k] # mark
      BY <1>e, <2>1, <2>4
    <2>6. First(f)
      BY <1>3, <2>1, <2>2, <2>3, <2>5
    <2> HIDE DEF First
    <2> QED  BY <2>3, <2>6
  <1>4. PICK e \in i + 1..Size + 1 : First(e)
    <2> HIDE DEF First
    <2> QED  BY <1>2, <1>3
  <1> QED  BY <1>4 DEF E

\* From i the lexer is in mode m until the first of a mark, which leaves it outside.
LEMMA ModeJumps ==
  ASSUME Script, NEW i \in 1..Size, NEW e \in i + 1..Size, NEW m, Reading[i].mode = m,
         m[1] \notin {"cut", "directive"},
         \A k \in i + 1..e - 1 : \A s \in States : s.mode = m => ModeAfter(s, k) = m,
         \A s \in States : s.mode = m => ModeAfter(s, e) = Text
  PROVE  Jump(i, e + 1)
  <1>0. Size \in Nat /\ i \in Nat /\ e \in Nat /\ e <= Size + 1 /\ e \in 1..Size
    BY PlacesAre
  <1>1. \A k \in i..e - 1 : Reading[k].mode = m
    BY <1>0, Stays
  <1>2. e - 1 \in i..e - 1 /\ (e + 1) - 1 = e /\ e + 1 \in i + 1..Size + 1
        /\ \A k \in i..e : k \in 1..Size /\ (k = e \/ k \in i..e - 1)
    BY <1>0
  <1>3. Reading[e].mode = Text
    BY <1>0, <1>1, <1>2, ReadsOn
  <1>4. \A k \in i..e : Mode(k) \notin {"cut", "directive"}
    BY <1>1, <1>2, <1>3 DEF Mode, Text
  <1>5. AtTop(e + 1)
    BY <1>2, <1>3 DEF AtTop, Mode, Text
  <1> QED  BY <1>2, <1>4, <1>5, SeparatorsAre DEF Jump

\* A block comment is jumped over whole, and is SQL if MySQL executes it and it ends.
LEMMA BlockCommentJumps ==
  ASSUME Script, NEW i \in 1..Size, Opens(i), Piece(i) \in {"/*", "/*!"}
  PROVE  /\ Jump(i, ScanBlockComment(i))
         /\ (Piece(i) = "/*!" /\ CommentEnds(i) # {})
              <=> \E k \in i..ScanBlockComment(i) - 1 : IsSQL(k)
  <1>0. Size \in Nat /\ i \in Nat /\ Piece(i) = script[i] /\ script[i] \in Pieces(engine)
    BY PieceIs, PlacesAre
  <1> DEFINE p == script[i]
             Later == Laters(i, "*/") # {}
  <1>1. Reading[i].mode = IF p = "/*!" /\ Later THEN <<"executed", 0, p>> ELSE <<"block", 1, p>>
    BY <1>0 DEF Opens, Opened, Laters, Single, Double, Backtick
  <1>2. p = "/*!" => MySQL
    BY <1>0 DEF Pieces, Common, MySQL, Single, Double, Backtick, Backslash, Newline
  <1>3. PICK e \in i + 1..Size + 1 :
          /\ \A k \in i + 1..e - 1 : script[k] # "*/"
          /\ e = Size + 1 \/ script[e] = "*/"
          /\ e # Size + 1 <=> Later
    BY FirstLater
  <1> HIDE DEF Later
  <1>4. CASE p = "/*!" /\ Later
    <2>1. e # Size + 1 /\ e \in i + 1..Size /\ script[e] = "*/"
      BY <1>0, <1>3, <1>4
    <2>2. CommentEnds(i) # {} /\ ScanBlockComment(i) = e + 1
      BY <1>2, <1>3, <1>4, <2>1, EndsAtFirst
    <2> DEFINE m == <<"executed", 0, p>>
    <2>3. Reading[i].mode = m
      BY <1>1, <1>4
    <2>4. /\ \A k \in i + 1..e - 1 : \A s \in States : s.mode = m => ModeAfter(s, k) = m
          /\ \A s \in States : s.mode = m => ModeAfter(s, e) = Text
          /\ m[1] \notin {"cut", "directive"}
      BY <1>3, <2>1 DEF ModeAfter
    <2>5. Jump(i, e + 1)
      <3> HIDE DEF m
      <3> QED  BY <2>1, <2>3, <2>4, ModeJumps
    <2>6. IsSQL(i)
      <3>1. Mode(i - 1) # "block"
        BY TopReads DEF Opens
      <3> QED  BY <1>4, <2>3, <3>1 DEF IsSQL, SqlBetween, Mode, Newline
    <2>7. i \in i..(e + 1) - 1
      BY <1>0, <2>1
    <2> QED  BY <1>0, <1>4, <2>2, <2>5, <2>6, <2>7
  <1>5. CASE ~(p = "/*!" /\ Later)
    <2>1. Reading[i].mode = <<"block", 1, p>>
      BY <1>1, <1>5
    <2>2. /\ Jump(i, ScanBlockComment(i)) /\ ~IsSQL(i)
          /\ \A k \in i + 1..ScanBlockComment(i) - 1 : ~IsSQL(k)
      BY <2>1, CommentJumps
    <2>3. p = "/*!" => CommentEnds(i) = {}
      BY <1>2, <1>3, <1>5, EndsAtFirst
    <2>4. \A k \in i..ScanBlockComment(i) - 1 : k = i \/ k \in i + 1..ScanBlockComment(i) - 1
      <3>1. ScanBlockComment(i) \in i + 1..Size + 1
        BY <2>2 DEF Jump
      <3> QED  BY <1>0, <3>1
    <2> QED  BY <1>0, <2>2, <2>3, <2>4
  <1> QED  BY <1>4, <1>5

\* A piece that leaves the lexer outside of everything is taken by itself.
LEMMA TextJumps ==
  ASSUME Script, NEW i \in 1..Size, Opens(i), Reading[i].mode = Text
  PROVE  Jump(i, i + 1) /\ (IsSQL(i) <=> script[i] # Newline)
  <1>1. Mode(i) = "text" /\ Mode(i - 1) # "block"
    BY TopReads DEF Mode, Text, Opens
  <1>2. AtTop(i + 1) /\ i \notin Separators
    BY <1>1, PlacesAre, SeparatorsAre DEF AtTop
  <1>3. Jump(i, i + 1)
    BY <1>2, PlacesAre DEF Jump
  <1> QED  BY <1>1, <1>3 DEF IsSQL, SqlBetween, Mode

\* A dollar-quoted body is jumped over whole, and is SQL; so is a lone "$$".
LEMMA DollarQuotedJumps ==
  ASSUME Script, NEW i \in 1..Size, Opens(i), Piece(i) = "$$", ~MySQL
  PROVE  Jump(i, ScanDollarQuoted(i)) /\ IsSQL(i)
  <1> DEFINE E == Laters(i, "$$")
             Later == E # {}
             m == <<"dollar", 0, "$$">>
  <1>0. Size \in Nat /\ i \in Nat /\ script[i] = "$$"
    BY PieceIs, PlacesAre
  <1>1. Reading[i].mode = IF Later THEN m ELSE Text
    BY <1>0 DEF Opens, Opened, Laters, Single, Double, Backtick
  <1>2. PICK e \in i + 1..Size + 1 :
          /\ \A k \in i + 1..e - 1 : script[k] # "$$"
          /\ e = Size + 1 \/ script[e] = "$$"
          /\ e # Size + 1 <=> Later
          /\ e # Size + 1 => Earliest(E, i) = e
          /\ e = Size + 1 => Earliest(E, i) = i
    BY FirstLater
  <1>3. ScanDollarQuoted(i) = (IF e # Size + 1 THEN e ELSE i) + 1
    BY <1>2 DEF ScanDollarQuoted, Laters
  <1> HIDE DEF Later
  <1>4. CASE Later
    <2>1. e # Size + 1 /\ e \in i + 1..Size /\ script[e] = "$$" /\ Reading[i].mode = m
      BY <1>0, <1>1, <1>2, <1>4
    <2>2. /\ \A k \in i + 1..e - 1 : \A s \in States : s.mode = m => ModeAfter(s, k) = m
          /\ \A s \in States : s.mode = m => ModeAfter(s, e) = Text
          /\ m[1] \notin {"cut", "directive"}
      BY <1>2, <2>1 DEF ModeAfter
    <2>3. Jump(i, e + 1)
      <3> HIDE DEF m
      <3> QED  BY <2>1, <2>2, ModeJumps
    <2>4. Mode(i - 1) # "block"
      BY TopReads DEF Opens
    <2>5. IsSQL(i)
      BY <1>0, <2>1, <2>4 DEF IsSQL, SqlBetween, Mode, Newline
    <2> QED  BY <1>3, <2>1, <2>3, <2>5
  <1>5. CASE ~Later
    <2>1. Jump(i, i + 1) /\ IsSQL(i)
      BY <1>0, <1>1, <1>5, TextJumps DEF Newline
    <2> QED  BY <1>2, <1>3, <1>5, <2>1
  <1> QED  BY <1>4, <1>5

\* Any other piece is taken by itself, and is SQL unless it is a newline.
LEMMA OrdinaryJumps ==
  ASSUME Script, NEW i \in 1..Size, Opens(i), ~LineCommentStartsAt(i),
         Piece(i) \notin Quotes \cup {"/*", "/*!"}, Piece(i) = "$$" => MySQL
  PROVE  Jump(i, i + 1) /\ (IsSQL(i) <=> Piece(i) # Newline)
  <1>1. script[i] = Piece(i) /\ script[i] \in Pieces(engine)
    BY PieceIs
  <1>2. Piece(i) \notin {Single, Double, Backtick, "#"}
    BY <1>1 DEF LineCommentStartsAt, Quotes, Pieces, Common, MySQL, Newline, Backslash, Single,
                Double, Backtick
  <1>3. Reading[i].mode = Text
    BY <1>1, <1>2 DEF Opens, Opened, LineCommentStartsAt
  <1> QED  BY <1>1, <1>3, TextJumps

\* A cut is a stretch in which every piece separates, and after it the lexer is at
\* the top with no SQL read.
Cut(i, n) ==
    /\ n \in i + 1..Size + 1 /\ AtTop(n) /\ \A k \in i..n - 1 : k \in Separators
    /\ Reading[n - 1].fresh = "yes"

\* A delimiter at the top separates, and stays the delimiter.
LEMMA DelimiterCuts ==
  ASSUME Script, NEW i \in 1..Size, AtTop(i), NEW d, d = Reading[i - 1].delim, Delimits(d, i),
         ~(Reading[i - 1].fresh = "yes" /\ IsDirective(i))
  PROVE  Cut(i, i + Len(d)) /\ Reading[(i + Len(d)) - 1].delim = d
  <1>1. Reading[i - 1] \in States /\ d \in Delims
    <2>1. Reading[i - 1] \in States
      BY ReadsOn
    <2> QED  BY <2>1 DEF States
  <1>2. Len(d) \in Nat /\ Len(d) > 0 /\ i + Len(d) \in i + 1..Size + 1 /\ i \in Nat /\ Size \in Nat
    BY <1>1, DelimitsIs, PlacesAre
  <1> DEFINE L == Len(d)
             In(k) == Reading[k].mode = <<"cut", L - 1 - (k - i), script[i]>> /\ Reading[k].delim = d
             T == {n \in Nat : \A k \in i..i + L - 1 : k <= n => In(k)}
  <1> HIDE DEF L
  <1>3. In(i)
    <2>1. Reading[i].mode = <<"cut", L - 1, script[i]>>
      BY TopReads DEF Outside, L
    <2>2. L - 1 = L - 1 - (i - i)
      BY <1>2 DEF L
    <2>3. Reading[i].delim = d
      BY <2>1, ReadsOn DEF Mode
    <2> QED  BY <2>1, <2>2, <2>3
  <1>4. 0 \in T
    <2>1. \A k \in i..i + L - 1 : ~(k <= 0)
      BY <1>2 DEF L
    <2> QED  BY <2>1
  <1>5. ASSUME NEW n \in T PROVE n + 1 \in T
    <2> SUFFICES ASSUME NEW k \in i..i + L - 1, k <= n + 1, k # i PROVE In(k)
      BY <1>3
    <2>1. /\ n \in Nat /\ k - 1 \in i..i + L - 1 /\ k - 1 <= n /\ k \in 1..Size
          /\ L - 1 - ((k - 1) - i) # 0 /\ (L - 1 - ((k - 1) - i)) - 1 = L - 1 - (k - i)
      <3>1. n \in Nat /\ L \in Nat /\ i + L <= Size + 1
        BY <1>2 DEF L
      <3> HIDE DEF T, In
      <3> QED  BY <1>2, <3>1
    <2>2. In(k - 1)
      BY <2>1
    <2>3. Reading[k].mode = ModeAfter(Reading[k - 1], k)
      BY <2>1, ReadsOn
    <2>4. Reading[k].mode = <<"cut", L - 1 - (k - i), script[i]>>
      BY <2>1, <2>2, <2>3 DEF ModeAfter
    <2>5. Reading[k].delim = d
      BY <2>1, <2>2, <2>4, ReadsOn DEF Mode
    <2> QED  BY <2>4, <2>5
  <1>6. T = Nat
    <2>1. T \in SUBSET Nat
      OBVIOUS
    <2> HIDE DEF T
    <2> QED  BY <1>4, <1>5, <2>1, SetInduction
  <1> HIDE DEF In
  <1>7. ASSUME NEW k \in i..i + L - 1 PROVE In(k)
    <2>1. k \in Nat /\ k <= k
      BY <1>2 DEF L
    <2>2. k \in T
      BY <1>6, <2>1
    <2> QED  BY <2>1, <2>2
  <1> HIDE DEF T
  <1>8. \A k \in i..i + L - 1 : k \in 1..Size /\ Mode(k) = "cut" /\ k \in Separators
    <2>1. \A k \in i..i + L - 1 : k \in 1..Size
      BY <1>2 DEF L
    <2>2. \A k \in i..i + L - 1 : Mode(k) = "cut"
      BY <1>7 DEF In, Mode
    <2> QED  BY <2>1, <2>2, SeparatorsAre
  <1>9. i + L - 1 \in i..i + L - 1 /\ L - 1 - ((i + L - 1) - i) = 0 /\ (i + L) - 1 = i + L - 1
    BY <1>2 DEF L
  <1>10. Reading[(i + L) - 1].mode = <<"cut", 0, script[i]>> /\ Reading[(i + L) - 1].delim = d
    BY <1>7, <1>9 DEF In
  <1>11. Reading[(i + L) - 1].fresh = "yes"
    BY <1>8, <1>9, ReadsOn
  <1>12. AtTop(i + L)
    BY <1>10 DEF AtTop, Mode
  <1> QED  BY <1>2, <1>8, <1>9, <1>10, <1>11, <1>12 DEF Cut, L

\* A directive at the top separates up to the end of its line, and names what does
\* from there on.
LEMMA DirectiveCuts ==
  ASSUME Script, NEW i \in 1..Size, AtTop(i), Reading[i - 1].fresh = "yes", IsDirective(i)
  PROVE  Cut(i, EndOfLine(i)) /\ Reading[EndOfLine(i) - 1].delim = Argument(i)
  <1> DEFINE e == EndOfLine(i)
             m == <<"directive", 0, script[i]>>
             T == {n \in Nat : \A k \in i..e - 1 : k <= n => Reading[k].delim = Argument(i)}
  <1>0. Size \in Nat /\ i \in Nat /\ Piece(i) = script[i] /\ script[i] = "delimiter"
    BY PieceIs, PlacesAre DEF IsDirective
  <1>1. Reading[i].mode = m /\ Mode(i) = "directive"
    <2>1. Reading[i].mode = m
      BY TopReads DEF Outside
    <2> QED  BY <2>1 DEF Mode
  <1>2. /\ e \in i..Size + 1 /\ e \in Nat /\ \A k \in i..e - 1 : script[k] # Newline
        /\ e = Size + 1 \/ (e \in 1..Size /\ script[e] = Newline)
        /\ e \in i + 1..Size + 1
    <2>1. script[i] # Newline
      BY <1>0 DEF Newline
    <2> QED  BY <2>1, EndOfLineIs
  <1>3. Mode(i - 1) # "directive"
    <2>1. Piece(i) # Newline /\ i # Size + 1
      BY <1>0, PlacesAre DEF Newline
    <2> QED  BY <2>1 DEF AtTop
  <1> HIDE DEF e
  <1>4. \A k \in i..e - 1 : Reading[k].mode = m
    <2>1. e <= Size + 1 /\ \A k \in i + 1..e - 1 : k \in i..e - 1
      BY <1>0, <1>2
    <2>2. \A k \in i + 1..e - 1 : \A s \in States : s.mode = m => ModeAfter(s, k) = m
      BY <1>2, <2>1 DEF ModeAfter
    <2> HIDE DEF m
    <2> QED  BY <1>1, <1>2, <2>1, <2>2, Stays
  <1>5. \A k \in i..e - 1 : k \in 1..Size /\ Mode(k) = "directive" /\ k \in Separators
    <2>1. \A k \in i..e - 1 : k \in 1..Size /\ Mode(k) = "directive"
      BY <1>0, <1>2, <1>4 DEF Mode
    <2> QED  BY <2>1, SeparatorsAre
  <1>6. 0 \in T
    <2>1. \A k \in i..e - 1 : ~(k <= 0)
      BY <1>0, <1>2
    <2> QED  BY <2>1
  <1>7. ASSUME NEW n \in T PROVE n + 1 \in T
    <2> SUFFICES ASSUME NEW k \in i..e - 1, k <= n + 1 PROVE Reading[k].delim = Argument(i)
      OBVIOUS
    <2>1. CASE k = i
      BY <1>1, <1>3, <2>1, ReadsOn
    <2>2. CASE k # i
      <3>1. n \in Nat /\ k - 1 \in i..e - 1 /\ k - 1 <= n
        BY <1>0, <1>2, <2>2
      <3>2. Reading[k - 1].delim = Argument(i) /\ Mode(k - 1) = "directive" /\ k \in 1..Size
        BY <1>5, <3>1
      <3> QED  BY <3>2, ReadsOn
    <2> QED  BY <2>1, <2>2
  <1>8. T = Nat
    <2>1. T \in SUBSET Nat
      OBVIOUS
    <2> HIDE DEF T
    <2> QED  BY <1>6, <1>7, <2>1, SetInduction
  <1>9. e - 1 \in i..e - 1 /\ e \in T /\ e - 1 <= e
    <2> HIDE DEF T
    <2> QED  BY <1>0, <1>2, <1>8
  <1>10. Reading[e - 1].delim = Argument(i) /\ Reading[e - 1].fresh = "yes"
    BY <1>5, <1>9, ReadsOn
  <1>11. AtTop(e)
    <2>1. CASE e = Size + 1
      BY <2>1 DEF AtTop
    <2>2. CASE e \in 1..Size /\ script[e] = Newline
      BY <1>5, <1>9, <2>2, PieceIs DEF AtTop
    <2> QED  BY <1>2, <2>1, <2>2
  <1> QED  BY <1>2, <1>5, <1>10, <1>11 DEF Cut, e

-----------------------------------------------------------------------------
(* The walk cuts where the lexer separates *)

Shown == {frags[n] : n \in 1..Len(frags)}
CountedOnce == IsFiniteSet(Shown) /\ Cardinality(Shown) = Len(frags)
WalkTypes ==
    /\ at \in 1..Size + 2 /\ start \in 1..Size + 1 /\ hasCode \in {"yes", "no"}
    /\ frags \in Seq(Int \X Int)

\* The statements that begin before k.
Before(k) == {f \in SqlStatements : f[1] < k}

\* What the walk knows is what the lexer does.
Agrees ==
    /\ delimiter = Reading[at - 1].delim
    /\ hasCode = IF Reading[at - 1].fresh = "yes" THEN "no" ELSE "yes"

\* At each step the walk is at the top of a stretch that nothing has cut yet, it
\* knows whether the stretch has SQL in it, and it has shown what came before.
Midway ==
    /\ AtTop(at) /\ start <= at /\ start - 1 \in Separators \cup {0}
    /\ \A k \in start..at - 1 : k \notin Separators
    /\ hasCode = "yes" <=> \E k \in start..at - 1 : IsSQL(k)
    /\ Shown = Before(start)
    /\ Agrees

WalkInv ==
    /\ Script /\ WalkTypes /\ CountedOnce
    /\ at \in 1..Size + 1 => Midway
    /\ at = Size + 2 => Shown = SqlStatements

\* Of the statements, the one that begins at s and has no separator before i is the
\* stretch up to i, if there is SQL in it.
LEMMA NextStatement ==
  ASSUME Script, NEW s \in 1..Size + 1, NEW i \in s..Size + 1,
         s - 1 \in Separators \cup {0}, \A k \in s..i - 1 : k \notin Separators,
         i \in Separators \cup {Size + 1}
  PROVE  Before(i + 1) = Before(s) \cup (IF \E k \in s..i - 1 : IsSQL(k) THEN {<<s, i - 1>>} ELSE {})
  <1> DEFINE cuts == Separators \cup {0, Size + 1}
             Stretch(c) == /\ c[1] < c[2] /\ ~\E k \in cuts : c[1] < k /\ k < c[2]
                           /\ \E k \in c[1] + 1..c[2] - 1 : IsSQL(k)
  <1>0. Size \in Nat /\ s \in Nat /\ i \in Nat
    BY DEF Script
  <1>1. cuts \subseteq 0..Size + 1 /\ s - 1 \in cuts /\ i \in cuts
    BY <1>0, SeparatorsAre
  <1>n. \A k \in cuts : k \in Nat
    BY <1>0, <1>1
  <1>2. \A k \in cuts : ~(s - 1 < k /\ k < i)
    <2> SUFFICES ASSUME NEW k \in cuts, s - 1 < k, k < i PROVE FALSE
      OBVIOUS
    <2>1. k \in s..i - 1 /\ k # 0 /\ k # Size + 1
      BY <1>0, <1>1
    <2> QED  BY <2>1
  <1>3. SqlStatements = {<<c[1] + 1, c[2] - 1>> : c \in {c \in cuts \X cuts : Stretch(c)}}
    BY DEF SqlStatements
  <1> HIDE DEF cuts
  <1>4. ASSUME NEW f \in SqlStatements, ~(f[1] < s), f[1] < i + 1
        PROVE  f = <<s, i - 1>> /\ \E k \in s..i - 1 : IsSQL(k)
    <2>1. PICK c \in cuts \X cuts : Stretch(c) /\ f = <<c[1] + 1, c[2] - 1>>
      BY <1>3
    <2>c. c[1] \in cuts /\ c[2] \in cuts /\ f[1] = c[1] + 1
      BY <2>1
    <2>2. c[1] \in Nat /\ c[2] \in Nat
      BY <1>n, <2>c
    <2>3. s - 1 <= c[1] /\ c[1] < i
      BY <1>0, <1>4, <2>c, <2>2
    <2>4. c[1] = s - 1
      BY <1>0, <1>2, <2>c, <2>2, <2>3
    <2>5. c[2] = i
      BY <1>0, <1>1, <1>2, <2>1, <2>c, <2>2, <2>3, <2>4
    <2>6. c[1] + 1 = s
      BY <1>0, <2>4
    <2> QED  BY <2>1, <2>5, <2>6
  <1>5. ASSUME NEW k \in s..i - 1, IsSQL(k)
        PROVE  <<s, i - 1>> \in SqlStatements
    <2> DEFINE c == <<s - 1, i>>
    <2>1. c \in cuts \X cuts /\ c[1] = s - 1 /\ c[2] = i /\ c[1] + 1 = s /\ s - 1 < i
      BY <1>0, <1>1
    <2>2. Stretch(c)
      BY <1>2, <1>5, <2>1
    <2> HIDE DEF c, Stretch
    <2> QED  BY <1>3, <2>1, <2>2
  <1>6. ASSUME NEW f \in SqlStatements, f[1] < s PROVE f[1] < i + 1
    <2>1. PICK c \in cuts \X cuts : f = <<c[1] + 1, c[2] - 1>>
      BY <1>3
    <2>2. c[1] \in cuts /\ f[1] = c[1] + 1
      BY <2>1
    <2>3. c[1] \in Nat
      BY <1>n, <2>2
    <2> QED  BY <1>0, <1>6, <2>2, <2>3
  <1>7. <<s, i - 1>>[1] = s /\ s < i + 1
    BY <1>0
  <1> HIDE DEF Stretch
  <1> QED  BY <1>4, <1>5, <1>6, <1>7 DEF Before

\* Flushing at i shows what is new, once.
LEMMA Flushing ==
  ASSUME Script, WalkTypes, CountedOnce, Midway, NEW i \in {at}, i \in 1..Size + 1,
         i \in Separators \cup {Size + 1}
  PROVE  LET fs == Flushed(i)
         IN  /\ fs \in Seq(Int \X Int) /\ {fs[n] : n \in 1..Len(fs)} = Before(i + 1)
             /\ IsFiniteSet(Before(i + 1)) /\ Cardinality(Before(i + 1)) = Len(fs)
  <1> DEFINE new == <<start, i - 1>>
             fs == Flushed(i)
  <1>0. /\ Size \in Nat /\ start \in 1..Size + 1 /\ i \in start..Size + 1 /\ new \in Int \X Int
        /\ new[1] = start /\ frags \in Seq(Int \X Int) /\ Len(frags) \in Nat
    BY DEF Script, WalkTypes, Midway
  <1>1. Before(i + 1) = Before(start) \cup (IF hasCode = "yes" THEN {new} ELSE {})
    <2>1. Before(i + 1) = Before(start) \cup
                          (IF \E k \in start..i - 1 : IsSQL(k) THEN {new} ELSE {})
      BY <1>0, NextStatement DEF Midway
    <2> QED  BY <2>1 DEF Midway
  <1>2. Shown = Before(start) /\ IsFiniteSet(Shown) /\ Cardinality(Shown) = Len(frags)
    BY DEF Midway, CountedOnce
  <1>3. new \notin Before(start)
    <2>1. ~(start < start)
      BY <1>0
    <2> HIDE DEF new
    <2> QED  BY <1>0, <2>1 DEF Before
  <1> HIDE DEF new
  <1>4. CASE hasCode = "yes"
    <2>1. fs = Append(frags, new) /\ Before(i + 1) = Shown \cup {new}
      BY <1>1, <1>2, <1>4 DEF Flushed, new
    <2>2. /\ fs \in Seq(Int \X Int) /\ Len(fs) = Len(frags) + 1
          /\ \A n \in 1..Len(frags) + 1 : fs[n] = IF n = Len(frags) + 1 THEN new ELSE frags[n]
      <3> HIDE DEF fs
      <3> QED  BY <1>0, <2>1
    <2>3. /\ \A n \in 1..Len(frags) + 1 : n = Len(frags) + 1 \/ n \in 1..Len(frags)
          /\ \A n \in 1..Len(frags) : n # Len(frags) + 1 /\ n \in 1..Len(frags) + 1
          /\ Len(frags) + 1 \in 1..Len(frags) + 1
      BY <1>0
    <2> HIDE DEF fs
    <2>4. {fs[n] : n \in 1..Len(frags) + 1} = Shown \cup {new}
      BY <2>2, <2>3 DEF Shown
    <2>5. IsFiniteSet(Shown \cup {new}) /\ Cardinality(Shown \cup {new}) = Cardinality(Shown) + 1
      BY <1>2, <1>3, FS_AddElement
    <2> QED  BY <1>2, <2>1, <2>2, <2>4, <2>5 DEF fs
  <1>5. CASE hasCode # "yes"
    <2>1. fs = frags /\ Before(i + 1) = Shown
      BY <1>1, <1>2, <1>5 DEF Flushed
    <2> HIDE DEF fs
    <2> QED  BY <1>0, <1>2, <2>1 DEF fs, Shown
  <1> QED  BY <1>4, <1>5

\* No statement begins inside of a cut.
LEMMA NoneBegins ==
  ASSUME Script, NEW i \in 1..Size, NEW n, Cut(i, n)
  PROVE  Before(n) = Before(i + 1)
  <1> DEFINE cuts == Separators \cup {0, Size + 1}
  <1>0. /\ Size \in Nat /\ i \in Nat /\ n \in i + 1..Size + 1
        /\ \A k \in i..n - 1 : k \in Separators
    BY PlacesAre DEF Cut
  <1>1. \A k \in cuts : k \in Nat
    BY <1>0, SeparatorsAre
  <1>2. ASSUME NEW f \in SqlStatements, f[1] < n PROVE f[1] < i + 1
    <2>1. PICK c \in cuts \X cuts :
            /\ f = <<c[1] + 1, c[2] - 1>> /\ ~\E k \in cuts : c[1] < k /\ k < c[2]
            /\ \E k \in c[1] + 1..c[2] - 1 : IsSQL(k)
      BY DEF SqlStatements
    <2>c. c[1] \in cuts /\ c[2] \in cuts /\ f[1] = c[1] + 1
      BY <2>1
    <2>2. c[1] \in Nat /\ c[2] \in Nat
      BY <1>1, <2>c
    <2>3. c[1] + 1 < c[2] \/ c[1] + 1 = c[2] - 1
      <3>1. PICK k \in c[1] + 1..c[2] - 1 : IsSQL(k)
        BY <2>1
      <3> QED  BY <2>2, <3>1
    <2> SUFFICES ASSUME ~(f[1] < i + 1) PROVE FALSE
      OBVIOUS
    <2>4. c[1] + 1 \in i..n - 1
      BY <1>0, <1>2, <2>c, <2>2
    <2>5. c[1] + 1 \in cuts /\ c[1] < c[1] + 1 /\ c[1] + 1 < c[2]
      BY <1>0, <2>2, <2>3, <2>4
    <2> QED  BY <2>1, <2>5
  <1>3. ASSUME NEW f \in SqlStatements, f[1] < i + 1 PROVE f[1] < n
    <2>1. PICK c \in cuts \X cuts : f = <<c[1] + 1, c[2] - 1>>
      BY DEF SqlStatements
    <2>2. c[1] \in cuts /\ f[1] = c[1] + 1
      BY <2>1
    <2>3. c[1] \in Nat
      BY <1>1, <2>2
    <2> QED  BY <1>0, <1>3, <2>2, <2>3
  <1> HIDE DEF cuts
  <1> QED  BY <1>2, <1>3 DEF Before

\* The script never changes, so neither does what the lexer makes of it.
LEMMA SameReading ==
  ASSUME script' = script, engine' = engine
  PROVE  /\ Size' = Size /\ Script' = Script /\ Reading' = Reading
         /\ Separators' = Separators /\ SqlStatements' = SqlStatements
         /\ \A i : Piece(i)' = Piece(i) /\ IsSQL(i)' = IsSQL(i) /\ AtTop(i)' = AtTop(i)
  <1>1. Size' = Size /\ MySQL' = MySQL /\ Pieces(engine)' = Pieces(engine)
    BY DEF Size, MySQL, Pieces
  <1>2. \A i : Piece(i)' = Piece(i)
    BY <1>1 DEF Piece
  <1>3. \A i : LiteralEscapes(i)' = LiteralEscapes(i)
    BY <1>1, <1>2 DEF LiteralEscapes
  <1>4. \A i : Opened(i)' = Opened(i)
    BY <1>1, <1>2, <1>3 DEF Opened
  <1>e. \A i : EndOfLine(i)' = EndOfLine(i)
    BY <1>1 DEF EndOfLine, Earliest
  <1>d. \A i : IsDirective(i)' = IsDirective(i) /\ Argument(i)' = Argument(i)
    BY <1>1, <1>2, <1>e DEF IsDirective, Argument
  <1>l. \A d, i : Delimits(d, i)' = Delimits(d, i)
    BY <1>2 DEF Delimits
  <1>o. \A s, i : Outside(s, i)' = Outside(s, i)
    BY <1>4, <1>d, <1>l DEF Outside
  <1>m. \A s, i : ModeAfter(s, i)' = ModeAfter(s, i)
    BY <1>1, <1>o DEF ModeAfter
  <1>5. \A s, i : ReadPiece(s, i)' = ReadPiece(s, i)
    BY <1>d, <1>m DEF ReadPiece
  <1>6. Reading' = Reading
    BY <1>1, <1>5 DEF Reading
  <1>7. Separators' = Separators
    BY <1>1, <1>6 DEF Separators, Mode
  <1>8. \A i : IsSQL(i)' = IsSQL(i)
    BY <1>6 DEF IsSQL
  <1>9. SqlStatements' = SqlStatements
    BY <1>1, <1>7, <1>8 DEF SqlStatements
  <1>10. \A i : AtTop(i)' = AtTop(i)
    BY <1>1, <1>2, <1>6 DEF AtTop, Mode
  <1>11. Script' = Script
    BY <1>1 DEF Script
  <1> QED  BY <1>1, <1>2, <1>6, <1>7, <1>8, <1>9, <1>10, <1>11

LEMMA WalkStarts == SqlInit => WalkInv
  <1> SUFFICES ASSUME SqlInit PROVE WalkInv
    OBVIOUS
  <1>1. PICK n \in 0..MaxPieces : script \in [1..n -> Pieces(engine)]
    BY DEF SqlInit
  <1>2. n \in Nat /\ Size = n /\ script \in Seq(Pieces(engine))
    BY <1>1 DEF Size
  <1>3. Script
    BY <1>2 DEF Script
  <1>4. at = 1 /\ start = 1 /\ hasCode = "no" /\ frags = <<>>
    BY DEF SqlInit
  <1>d. delimiter = <<";">>
    BY DEF SqlInit
  <1>5. Shown = {} /\ Len(frags) = 0
    BY <1>4 DEF Shown
  <1>6. CountedOnce
    BY <1>5, FS_EmptySet DEF CountedOnce
  <1>7. WalkTypes /\ at # Size + 2
    BY <1>2, <1>4 DEF WalkTypes
  <1>8. AtTop(at) /\ Agrees
    <2>2. at - 1 = 0
      BY <1>4
    <2>3. Reading[0].mode[1] = "text" /\ Reading[0].fresh = "yes" /\ Reading[0].delim = <<";">>
      BY <1>3, StartsOutside
    <2>4. AtTop(at)
      BY <2>2, <2>3 DEF AtTop, Mode
    <2> QED  BY <1>4, <1>d, <2>2, <2>3, <2>4 DEF Agrees
  <1>9. Before(1) = {}
    <2> SUFFICES ASSUME NEW f \in SqlStatements, f[1] < 1 PROVE FALSE
      BY DEF Before
    <2> DEFINE cuts == Separators \cup {0, Size + 1}
    <2>1. \A k \in cuts : k \in Nat
      BY <1>2, SeparatorsAre
    <2>2. PICK c \in cuts \X cuts : f = <<c[1] + 1, c[2] - 1>>
      BY DEF SqlStatements
    <2> HIDE DEF cuts
    <2>3. c[1] \in cuts /\ f[1] = c[1] + 1
      BY <2>2
    <2>4. c[1] \in Nat
      BY <2>1, <2>3
    <2> QED  BY <2>3, <2>4
  <1>10. \A k \in start..at - 1 : FALSE
    BY <1>4
  <1>11. Midway
    BY <1>4, <1>5, <1>8, <1>9, <1>10 DEF Midway
  <1> QED  BY <1>3, <1>6, <1>7, <1>11 DEF WalkInv

\* A jump that nothing cuts, and that has SQL in it exactly when the walk says so.
LEMMA WalksOn ==
  ASSUME WalkInv, at \in 1..Size, NEW n, Jump(at, n), NEW code \in BOOLEAN,
         code <=> \E k \in at..n - 1 : IsSQL(k),
         Walk(n, code)
  PROVE  WalkInv'
  <1>1. /\ script' = script /\ engine' = engine /\ start' = start /\ frags' = frags /\ at' = n
        /\ delimiter' = delimiter /\ hasCode' = IF code THEN "yes" ELSE hasCode
    BY DEF Walk
  <1>0. at \in 1..Size + 1 /\ at # Size + 2
    BY DEF WalkInv, Script
  <1>2. /\ Size \in Nat /\ at \in Nat /\ start \in Nat /\ start <= at
        /\ n \in at + 1..Size + 1 /\ hasCode \in {"yes", "no"}
    BY <1>0 DEF WalkInv, Script, WalkTypes, Midway, Jump
  <1>3. /\ n \in 1..Size + 2 /\ n \in 1..Size + 1 /\ n # Size + 2 /\ start <= n
        /\ n \in at..Size + 1
        /\ \A k \in start..n - 1 : k \in start..at - 1 \/ k \in at..n - 1
        /\ \A k \in start..at - 1 : k \in start..n - 1
        /\ \A k \in at..n - 1 : k \in start..n - 1
    BY <1>2
  <1>4. Midway /\ WalkTypes /\ CountedOnce /\ Script
    BY <1>0 DEF WalkInv
  <1>5. /\ Size' = Size /\ Script' /\ Separators' = Separators /\ Reading' = Reading
        /\ SqlStatements' = SqlStatements /\ AtTop(n)'
        /\ \A i : IsSQL(i)' = IsSQL(i)
    BY <1>1, <1>4, SameReading DEF Jump
  <1>6. Shown' = Shown /\ CountedOnce' /\ Before(start)' = Before(start)
    BY <1>1, <1>4, <1>5 DEF Shown, CountedOnce, Before
  <1>7. WalkTypes'
    BY <1>1, <1>2, <1>3, <1>4, <1>5 DEF WalkTypes
  <1>a. Agrees'
    <2>1. /\ Reading[n - 1].delim = Reading[at - 1].delim
          /\ Reading[n - 1].fresh = IF code THEN "no" ELSE Reading[at - 1].fresh
      <3>1. \A k \in at..n - 1 : k \notin Separators
        BY DEF Jump
      <3>2. /\ Reading[n - 1].delim = Reading[at - 1].delim
            /\ Reading[n - 1].fresh = IF \E k \in at..n - 1 : IsSQL(k) THEN "no"
                                      ELSE Reading[at - 1].fresh
        BY <1>0, <1>3, <1>4, <3>1, CarriesOn
      <3> QED  BY <3>2
    <2>2. /\ delimiter = Reading[at - 1].delim
          /\ hasCode = IF Reading[at - 1].fresh = "yes" THEN "no" ELSE "yes"
      BY <1>4 DEF Midway, Agrees
    <2>3. /\ delimiter' = Reading[n - 1].delim
          /\ hasCode' = IF Reading[n - 1].fresh = "yes" THEN "no" ELSE "yes"
      BY <1>1, <2>1, <2>2
    <2> QED  BY <1>1, <1>5, <2>3 DEF Agrees
  <1>8. Midway'
    <2>1. \A k \in start..n - 1 : k \notin Separators
      BY <1>3, <1>4 DEF Midway, Jump
    <2>2. hasCode' = "yes" <=> \E k \in start..n - 1 : IsSQL(k)
      BY <1>1, <1>2, <1>3, <1>4 DEF Midway
    <2>3. AtTop(at)' /\ start' - 1 \in Separators' \cup {0} /\ start' <= at'
      BY <1>1, <1>3, <1>4, <1>5 DEF Midway
    <2> QED  BY <1>1, <1>4, <1>5, <1>6, <1>a, <2>1, <2>2, <2>3 DEF Midway
  <1>9. at' # Size' + 2
    BY <1>1, <1>3, <1>5
  <1> QED  BY <1>5, <1>6, <1>7, <1>8, <1>9 DEF WalkInv

\* A cut, at which the walk shows what it has.
LEMMA CutsOff ==
  ASSUME WalkInv, at \in 1..Size, NEW n, Cut(at, n), NEW d, Reading[n - 1].delim = d,
         script' = script, engine' = engine, delimiter' = d,
         frags' = Flushed(at), hasCode' = "no", at' = n, start' = n
  PROVE  WalkInv'
  <1>0. at \in 1..Size + 1 /\ Size \in Nat
    BY DEF WalkInv, Script
  <1>1. Script /\ WalkTypes /\ CountedOnce /\ Midway
    BY <1>0 DEF WalkInv
  <1>2. /\ n \in 1..Size + 1 /\ n \in 1..Size + 2 /\ n # Size + 2 /\ n - 1 \in at..n - 1
        /\ at \in at..n - 1 /\ n <= n /\ \A k \in n..n - 1 : FALSE
    BY <1>0 DEF Cut
  <1>3. at \in Separators /\ n - 1 \in Separators /\ AtTop(n) /\ Reading[n - 1].fresh = "yes"
    BY <1>2 DEF Cut
  <1>4. LET fs == Flushed(at)
        IN  /\ fs \in Seq(Int \X Int) /\ {fs[k] : k \in 1..Len(fs)} = Before(n)
            /\ IsFiniteSet(Before(n)) /\ Cardinality(Before(n)) = Len(fs)
    <2>1. Before(n) = Before(at + 1)
      BY <1>1, NoneBegins
    <2>2. LET fs == Flushed(at)
          IN  /\ fs \in Seq(Int \X Int) /\ {fs[k] : k \in 1..Len(fs)} = Before(at + 1)
              /\ IsFiniteSet(Before(at + 1)) /\ Cardinality(Before(at + 1)) = Len(fs)
      BY <1>0, <1>1, <1>3, Flushing
    <2> QED  BY <2>1, <2>2
  <1>5. /\ Size' = Size /\ Script' /\ Separators' = Separators /\ Reading' = Reading
        /\ SqlStatements' = SqlStatements /\ \A i : AtTop(i)' = AtTop(i)
    BY <1>1, SameReading
  <1>6. Shown' = Before(n) /\ CountedOnce' /\ Before(start)' = Before(n)
    BY <1>4, <1>5 DEF Shown, CountedOnce, Before
  <1>7. WalkTypes'
    BY <1>2, <1>4, <1>5 DEF WalkTypes
  <1>8. Agrees'
    BY <1>3, <1>5 DEF Agrees
  <1>9. Midway'
    <2>1. AtTop(at)' /\ start' <= at' /\ start' - 1 \in Separators' \cup {0}
      BY <1>2, <1>3, <1>5
    <2>2. \A k \in start'..at' - 1 : FALSE
      BY <1>2
    <2> QED  BY <1>6, <1>8, <2>1, <2>2 DEF Midway
  <1> QED  BY <1>2, <1>5, <1>6, <1>7, <1>9 DEF WalkInv

LEMMA WalkSteps == WalkInv /\ [SqlNext]_sqlvars => WalkInv'
  <1> SUFFICES ASSUME WalkInv, [SqlNext]_sqlvars PROVE WalkInv'
    OBVIOUS
  <1>1. Size \in Nat /\ Script /\ WalkTypes /\ CountedOnce
    BY DEF WalkInv, Script
  <1>2. ASSUME Scanning PROVE at \in 1..Size /\ AtTop(at) /\ Midway /\ Agrees
    <2>1. at \in 1..Size /\ at \in 1..Size + 1
      BY <1>1, <1>2 DEF Scanning, WalkTypes
    <2> QED  BY <2>1 DEF WalkInv, Midway
  <1>3. ASSUME NEW n, Jump(at, n), at \in 1..Size PROVE at \in at..n - 1
    BY <1>1, <1>3 DEF Jump
  <1>s. ASSUME Skipping PROVE at \in 1..Size /\ Opens(at)
    <2>1. at \in 1..Size /\ AtTop(at) /\ Agrees /\ ~ReadsDirective /\ ~AtDelimiter
      BY <1>2, <1>s DEF Skipping
    <2>2. Reading[at].mode = Outside(Reading[at - 1], at)
      BY <1>1, <2>1, TopReads
    <2>3. /\ ~(Reading[at - 1].fresh = "yes" /\ IsDirective(at))
          /\ ~Delimits(Reading[at - 1].delim, at)
      BY <2>1 DEF Agrees, ReadsDirective, AtDelimiter
    <2> QED  BY <2>1, <2>2, <2>3 DEF Opens, Outside
  <1>4. CASE Separator
    <2>1. /\ Scanning /\ AtDelimiter /\ frags' = Flushed(at) /\ hasCode' = "no"
          /\ at' = at + Len(delimiter) /\ start' = at + Len(delimiter)
          /\ script' = script /\ engine' = engine /\ delimiter' = delimiter
      BY <1>4 DEF Separator
    <2>2. at \in 1..Size /\ AtTop(at) /\ Agrees
      BY <1>2, <2>1
    <2>3. /\ delimiter = Reading[at - 1].delim /\ Delimits(delimiter, at)
          /\ ~(Reading[at - 1].fresh = "yes" /\ IsDirective(at))
      BY <2>1, <2>2 DEF Agrees, ReadsDirective, AtDelimiter
    <2>4. /\ Cut(at, at + Len(delimiter))
          /\ Reading[(at + Len(delimiter)) - 1].delim = delimiter
      BY <1>1, <2>2, <2>3, DelimiterCuts
    <2> QED  BY <2>1, <2>2, <2>4, CutsOff
  <1>d. CASE Directive
    <2>1. /\ Scanning /\ ReadsDirective /\ delimiter' = Argument(at)
          /\ at' = EndOfLine(at) /\ start' = EndOfLine(at)
          /\ script' = script /\ engine' = engine /\ hasCode' = hasCode /\ frags' = frags
      BY <1>d DEF Directive
    <2>2. at \in 1..Size /\ AtTop(at) /\ Agrees
      BY <1>2, <2>1
    <2>3. Reading[at - 1].fresh = "yes" /\ IsDirective(at) /\ hasCode' = "no" /\ frags' = Flushed(at)
      BY <2>1, <2>2 DEF Agrees, ReadsDirective, Flushed
    <2>4. Cut(at, EndOfLine(at)) /\ Reading[EndOfLine(at) - 1].delim = Argument(at)
      BY <1>1, <2>2, <2>3, DirectiveCuts
    <2> QED  BY <2>1, <2>2, <2>3, <2>4, CutsOff
  <1>5. CASE Quoted
    <2> DEFINE n == IF ScanQuoted(at) = 0 THEN Size + 1 ELSE ScanQuoted(at) + 1
    <2>1. Skipping /\ Piece(at) \in Quotes /\ Walk(n, TRUE)
      BY <1>5 DEF Quoted
    <2>2. Jump(at, n) /\ IsSQL(at)
      BY <1>1, <1>s, <2>1, QuotedJumps
    <2> HIDE DEF n
    <2> QED  BY <1>s, <1>3, <2>1, <2>2, WalksOn
  <1>6. CASE LineComment
    <2>1. Skipping /\ LineCommentStartsAt(at) /\ Walk(EndOfLine(at), FALSE)
      BY <1>6 DEF LineComment
    <2>2. Jump(at, EndOfLine(at)) /\ \A k \in at..EndOfLine(at) - 1 : ~IsSQL(k)
      BY <1>1, <1>s, <2>1, LineCommentJumps
    <2> QED  BY <1>s, <2>1, <2>2, WalksOn
  <1>7. CASE BlockComment
    <2> DEFINE code == Piece(at) = "/*!" /\ CommentEnds(at) # {}
    <2>1. Skipping /\ Piece(at) \in {"/*", "/*!"} /\ Walk(ScanBlockComment(at), code)
      BY <1>7 DEF BlockComment
    <2>2. /\ Jump(at, ScanBlockComment(at))
          /\ code <=> \E k \in at..ScanBlockComment(at) - 1 : IsSQL(k)
      BY <1>1, <1>s, <2>1, BlockCommentJumps
    <2>3. code \in BOOLEAN
      OBVIOUS
    <2> HIDE DEF code
    <2> QED  BY <1>s, <2>1, <2>2, <2>3, WalksOn
  <1>8. CASE DollarQuoted
    <2>1. Skipping /\ Piece(at) = "$$" /\ ~MySQL /\ Walk(ScanDollarQuoted(at), TRUE)
      BY <1>8 DEF DollarQuoted
    <2>2. Jump(at, ScanDollarQuoted(at)) /\ IsSQL(at)
      BY <1>1, <1>s, <2>1, DollarQuotedJumps
    <2> QED  BY <1>s, <1>3, <2>1, <2>2, WalksOn
  <1>9. CASE Ordinary
    <2> DEFINE code == Piece(at) # Newline
    <2>1. /\ Skipping /\ Piece(at) \notin Quotes \cup {"/*", "/*!"} /\ ~LineCommentStartsAt(at)
          /\ (Piece(at) = "$$" => MySQL) /\ Walk(at + 1, code)
      BY <1>9 DEF Ordinary
    <2>2. Jump(at, at + 1) /\ (IsSQL(at) <=> code)
      BY <1>1, <1>s, <2>1, OrdinaryJumps
    <2>3. code <=> \E k \in at..(at + 1) - 1 : IsSQL(k)
      <3>1. \A k \in at..(at + 1) - 1 : k = at
        BY <1>1, <1>s, <2>1, PlacesAre
      <3> QED  BY <1>s, <1>3, <2>1, <2>2, <3>1
    <2> HIDE DEF code
    <2>4. code \in BOOLEAN
      BY DEF code
    <2> QED  BY <1>s, <2>1, <2>2, <2>3, <2>4, WalksOn
  <1>10. CASE Finish
    <2>1. /\ at = Size + 1 /\ frags' = Flushed(Size + 1) /\ hasCode' = "no"
          /\ at' = Size + 2 /\ start' = start /\ script' = script /\ engine' = engine
      BY <1>10 DEF Finish
    <2>2. at \in 1..Size + 1 /\ Midway /\ at' \in 1..Size + 2 /\ ~(Size + 2 \in 1..Size + 1)
      BY <1>1, <2>1 DEF WalkInv
    <2>3. LET fs == Flushed(at)
          IN  /\ fs \in Seq(Int \X Int) /\ {fs[n] : n \in 1..Len(fs)} = Before(at + 1)
              /\ IsFiniteSet(Before(at + 1)) /\ Cardinality(Before(at + 1)) = Len(fs)
      BY <1>1, <2>1, <2>2, Flushing
    <2>4. Before(at + 1) = SqlStatements
      <3> SUFFICES ASSUME NEW f \in SqlStatements PROVE f[1] < at + 1
        BY DEF Before
      <3> DEFINE cuts == Separators \cup {0, Size + 1}
      <3>1. \A k \in cuts : k \in 0..Size + 1
        BY <1>1, SeparatorsAre
      <3>2. PICK c \in cuts \X cuts : f = <<c[1] + 1, c[2] - 1>> /\ c[1] < c[2]
        BY DEF SqlStatements
      <3> HIDE DEF cuts
      <3>3. c[1] \in cuts /\ c[2] \in cuts /\ f[1] = c[1] + 1
        BY <3>2
      <3>4. c[1] \in 0..Size + 1 /\ c[2] \in 0..Size + 1
        BY <3>1, <3>3
      <3> QED  BY <1>1, <2>1, <3>2, <3>3, <3>4
    <2>5. Size' = Size /\ Script' /\ SqlStatements' = SqlStatements
      BY <1>1, <2>1, SameReading
    <2>6. Shown' = SqlStatements' /\ CountedOnce'
      BY <2>1, <2>3, <2>4, <2>5 DEF Shown, CountedOnce
    <2>7. WalkTypes'
      BY <1>1, <2>1, <2>2, <2>3, <2>5 DEF WalkTypes
    <2> QED  BY <2>1, <2>2, <2>5, <2>6, <2>7 DEF WalkInv
  <1>11. CASE UNCHANGED sqlvars
    <2>1. /\ script' = script /\ engine' = engine /\ at' = at /\ start' = start
          /\ hasCode' = hasCode /\ frags' = frags /\ delimiter' = delimiter
      BY <1>11 DEF sqlvars
    <2>2. /\ Size' = Size /\ Script' = Script /\ Separators' = Separators /\ Reading' = Reading
          /\ SqlStatements' = SqlStatements
          /\ \A i : IsSQL(i)' = IsSQL(i) /\ AtTop(i)' = AtTop(i)
      BY <2>1, SameReading
    <2>3. Shown' = Shown /\ CountedOnce' = CountedOnce /\ WalkTypes' = WalkTypes
          /\ Before(start)' = Before(start) /\ Agrees' = Agrees
      BY <2>1, <2>2 DEF Shown, CountedOnce, WalkTypes, Before, Agrees
    <2>4. Midway' = Midway
      BY <2>1, <2>2, <2>3 DEF Midway
    <2> QED  BY <2>1, <2>2, <2>3, <2>4 DEF WalkInv
  <1> QED  BY <1>d, <1>4, <1>5, <1>6, <1>7, <1>8, <1>9, <1>10, <1>11 DEF SqlNext

\* sqlplan/split.go:11-27: what is shown, classified and approved is what the
\* executor will run, for scripts of every length: the walk, with its jumps over
\* literals and comments and its DELIMITER lines, cuts where reading piece by piece
\* cuts, once.
THEOREM AlwaysSplitsAsRead == SqlSpec => []SplitsAsRead
  <1>1. WalkInv => SplitsAsRead
    BY DEF WalkInv, SplitsAsRead, Analyzed, CountedOnce, Shown
  <1> QED  BY <1>1, WalkStarts, WalkSteps, PTL DEF SqlSpec


-----------------------------------------------------------------------------
(* The classifier strips what the lexer reads as a comment *)

\* What a piece makes of the mode when no cut is under way and it makes none.
LEMMA OpensHere ==
  ASSUME Script, NEW k \in 1..Size, k \notin Separators, Mode(k - 1) \in {"text", "cut", "directive"}
  PROVE  Reading[k].mode = Opened(k) \/ (Reading[k].mode = Text /\ script[k] = Newline)
  <1> DEFINE r == Reading[k - 1]
             m == r.mode
  <1>1. /\ Reading[k].mode = ModeAfter(r, k) /\ Reading[k].mode[1] \notin {"cut", "directive"}
        /\ m[1] \in {"text", "cut", "directive"}
    BY ReadsOn, SeparatorsAre DEF Mode
  <1>2. \/ Outside(r, k) = Opened(k)
        \/ Outside(r, k)[1] \in {"cut", "directive"}
    BY DEF Outside
  <1> HIDE DEF r
  <1>3. CASE m[1] = "text"
    BY <1>1, <1>2, <1>3 DEF ModeAfter
  <1>4. CASE m[1] = "cut"
    BY <1>1, <1>2, <1>4 DEF ModeAfter
  <1>5. CASE m[1] = "directive"
    <2>1. ModeAfter(r, k) = IF script[k] = Newline THEN Text ELSE m
      BY <1>5 DEF ModeAfter
    <2> QED  BY <1>1, <1>5, <2>1
  <1> QED  BY <1>1, <1>3, <1>4, <1>5

\* Above the first SQL of a statement there are only comments and newlines, so in a
\* script such as the generators write, where the lexer is the stripping is.
Strips(mode, k) ==
    \/ mode = "text" /\ Mode(k) \in {"text", "cut", "directive"}
    \/ mode = "line" /\ Mode(k) = "line"
    \/ mode = "block" /\ Mode(k) = "block" /\ Reading[k].mode[2] = 1

LEMMA StripsOn ==
  ASSUME Script, AsGenerated, NEW k \in 1..Size, k \notin Separators, ~IsSQL(k),
         NEW mode, Strips(mode, k - 1)
  PROVE  Strips(StripMode(mode, script[k]), k)
  <1> DEFINE m == Reading[k - 1].mode
             after == StripMode(mode, script[k])
  <1>1. /\ Reading[k].mode = ModeAfter(Reading[k - 1], k)
        /\ Mode(k) \notin {"cut", "directive"} /\ m[1] = Mode(k - 1) /\ Mode(k) = Reading[k].mode[1]
    BY ReadsOn, SeparatorsAre DEF Mode
  <1>2. script[k] = Newline \/ Mode(k) \in {"line", "block"} \/ Mode(k - 1) = "block"
    BY <1>1 DEF IsSQL, SqlBetween, Mode
  <1>3. script[k] \notin {"#", "/*!"} /\ ~(script[k] = "/*" /\ Mode(k - 1) = "block")
    BY DEF AsGenerated
  <1>4. CASE mode = "text" /\ Mode(k - 1) \in {"text", "cut", "directive"}
    <2>1. Reading[k].mode = Opened(k) \/ (Reading[k].mode = Text /\ script[k] = Newline)
      BY <1>4, OpensHere
    <2>2. CASE script[k] = Newline
      <3>1. Reading[k].mode = Text
        BY <2>1, <2>2 DEF Opened, Newline, Single, Double, Backtick
      <3>2. after = "text"
        BY <1>4, <2>2 DEF StripMode, Newline
      <3>3. Mode(k) = "text"
        BY <1>1, <3>1 DEF Text
      <3> QED  BY <3>2, <3>3 DEF Strips
    <2>3. CASE script[k] # Newline
      <3>1. Reading[k].mode = Opened(k) /\ Opened(k)[1] \in {"line", "block"}
        BY <1>1, <1>2, <1>4, <2>1, <2>3
      <3>2. \/ script[k] = "--" /\ Opened(k) = <<"line", 0, script[k]>>
            \/ script[k] = "/*" /\ Opened(k) = <<"block", 1, script[k]>>
        BY <1>3, <3>1 DEF Opened, Text
      <3>3. CASE script[k] = "--" /\ Opened(k) = <<"line", 0, script[k]>>
        <4>1. after = "line"
          BY <1>4, <3>3 DEF StripMode
        <4> QED  BY <1>1, <3>1, <3>3, <4>1 DEF Strips
      <3>4. CASE script[k] = "/*" /\ Opened(k) = <<"block", 1, script[k]>>
        <4>1. after = "block"
          BY <1>4, <3>4 DEF StripMode
        <4> QED  BY <1>1, <3>1, <3>4, <4>1 DEF Strips
      <3> QED  BY <3>2, <3>3, <3>4
    <2> QED  BY <2>2, <2>3
  <1>5. CASE mode = "line" /\ Mode(k - 1) = "line"
    <2>1. Reading[k].mode = IF script[k] = Newline THEN Text ELSE m
      BY <1>1, <1>5 DEF ModeAfter
    <2>2. after = IF script[k] = Newline THEN "text" ELSE "line"
      BY <1>5 DEF StripMode, Newline
    <2>3. Text[1] = "text"
      BY DEF Text
    <2> QED  BY <1>1, <1>5, <2>1, <2>2, <2>3 DEF Strips
  <1>6. CASE mode = "block" /\ Mode(k - 1) = "block" /\ m[2] = 1
    <2>1. Reading[k].mode = IF script[k] = "*/" THEN Text ELSE m
      BY <1>1, <1>3, <1>6 DEF ModeAfter
    <2>2. after = IF script[k] = "*/" THEN "text" ELSE "block"
      BY <1>6 DEF StripMode
    <2>3. Text[1] = "text"
      BY DEF Text
    <2> QED  BY <1>1, <1>6, <2>1, <2>2, <2>3 DEF Strips
  <1> QED  BY <1>4, <1>5, <1>6 DEF Strips

LEMMA StripsAsRead ==
  ASSUME Script, AsGenerated, NEW a \in 1..Size, NEW b \in a..Size, NEW i \in a..b,
         a - 1 \in Separators \cup {0},
         \A k \in a..b : k \notin Separators, \A k \in a..i - 1 : ~IsSQL(k)
  PROVE  \A k \in a - 1..i - 1 : Strips(Stripping(<<a, b>>)[k], k)
  <1> DEFINE s == Stripping(<<a, b>>)
             T == {n \in Nat : \A k \in a - 1..i - 1 : k <= n => Strips(s[k], k)}
  <1>0. Size \in Nat /\ a \in Nat /\ b \in Int /\ i \in Nat /\ a - 1 \in Nat /\ a - 1 <= b
    BY DEF Script
  <1>1. s[a - 1] = "text" /\ \A k \in a..b : s[k] = StripMode(s[k - 1], script[k])
    BY <1>0, StrippingIs
  <1> HIDE DEF s
  <1>2. Strips(s[a - 1], a - 1)
    <2>1. CASE a - 1 = 0
      <3>1. Mode(0) = "text"
        BY StartsOutside DEF Mode
      <3> QED  BY <1>1, <2>1, <3>1 DEF Strips
    <2>2. CASE a - 1 \in Separators
      <3>1. Mode(a - 1) \in {"cut", "directive"}
        BY <2>2, SeparatorsAre
      <3> QED  BY <1>1, <3>1 DEF Strips
    <2> QED  BY <2>1, <2>2
  <1>3. ASSUME NEW k \in a..i - 1, Strips(s[k - 1], k - 1) PROVE Strips(s[k], k)
    <2>1. k \in 1..Size /\ k \in a..b
      BY <1>0
    <2>2. s[k] = StripMode(s[k - 1], script[k]) /\ k \notin Separators /\ ~IsSQL(k)
      BY <1>1, <2>1
    <2> QED  BY <1>3, <2>1, <2>2, StripsOn
  <1>4. 0 \in T
    <2>1. \A k \in a - 1..i - 1 : k <= 0 => k = a - 1
      BY <1>0
    <2> QED  BY <1>2, <2>1
  <1>5. ASSUME NEW n \in T PROVE n + 1 \in T
    <2> SUFFICES ASSUME NEW k \in a - 1..i - 1, k <= n + 1, k # a - 1 PROVE Strips(s[k], k)
      BY <1>2
    <2>1. n \in Nat /\ k - 1 \in a - 1..i - 1 /\ k - 1 <= n /\ k \in a..i - 1
      BY <1>0
    <2> QED  BY <1>3, <2>1
  <1>6. T = Nat
    <2>1. T \in SUBSET Nat
      OBVIOUS
    <2> HIDE DEF T
    <2> QED  BY <1>4, <1>5, <2>1, SetInduction
  <1>7. ASSUME NEW k \in a - 1..i - 1 PROVE Strips(s[k], k)
    <2>1. k \in Nat /\ k <= k
      BY <1>0
    <2>2. k \in T
      BY <1>6, <2>1
    <2> QED  BY <2>1, <2>2
  <1> QED  BY <1>7 DEF s

LEMMA VerbShows ==
  Script /\ AsGenerated => \A f \in SqlStatements : FirstWord(f) \subseteq LeadingVerb(f)
  <1> SUFFICES ASSUME Script, AsGenerated, NEW f \in SqlStatements, NEW i \in FirstWord(f)
               PROVE  i \in LeadingVerb(f)
    OBVIOUS
  <1> DEFINE cuts == Separators \cup {0, Size + 1}
             Between(c) == c[1] < c[2] /\ \A k \in cuts : ~(c[1] < k /\ k < c[2])
  <1>0. Size \in Nat /\ \A k \in cuts : k \in 0..Size + 1
    BY SeparatorsAre DEF Script
  <1>1. PICK c \in cuts \X cuts : f = <<c[1] + 1, c[2] - 1>> /\ Between(c)
    BY DEF SqlStatements
  <1>2. c[1] \in cuts /\ c[2] \in cuts
    BY <1>1
  <1> DEFINE a == c[1] + 1
             b == c[2] - 1
  <1>3. f = <<a, b>> /\ f[1] = a /\ f[2] = b
    BY <1>1
  <1>4. /\ i \in a..b /\ script[i] = "word" /\ IsSQL(i)
        /\ ~\E j \in a..i - 1 : IsSQL(j)
    BY <1>3 DEF FirstWord
  <1>5. c[1] \in 0..Size + 1 /\ c[2] \in 0..Size + 1 /\ c[1] < c[2]
    BY <1>0, <1>1, <1>2
  <1>6. /\ a \in 1..Size /\ b \in a..Size /\ a \in Nat /\ b \in Int /\ a - 1 = c[1] /\ i \in Nat
        /\ i - 1 \in a - 1..i - 1 /\ a - 1 \in Nat /\ a - 1 <= b /\ i \in 1..Size
        /\ \A j \in a..b : c[1] < j /\ j < c[2]
        /\ \A j \in a..b : j < i => j \in a..i - 1 /\ j \in a - 1..i - 1 /\ j - 1 \in a - 1..i - 1
    BY <1>0, <1>4, <1>5
  <1>7. a - 1 \in Separators \cup {0}
    BY <1>0, <1>2, <1>5, <1>6
  <1>8. \A k \in a..b : k \notin Separators
    BY <1>1, <1>6
  <1> DEFINE s == Stripping(f)
  <1> HIDE DEF a, b
  <1>9. \A k \in a - 1..i - 1 : Strips(s[k], k)
    BY <1>3, <1>4, <1>6, <1>7, <1>8, StripsAsRead
  <1>10. \A k \in a..b : s[k] = StripMode(s[k - 1], script[k])
    BY <1>3, <1>6, StrippingIs
  <1>11. StripComments(f) = {k \in a..b : s[k] = "text" /\ s[k - 1] # "block"}
    BY <1>3 DEF StripComments
  <1> HIDE DEF s
  <1>12. i \in StripComments(f)
    <2>1. /\ Mode(i - 1) # "block" /\ Mode(i) # "line"
          /\ Reading[i].mode = ModeAfter(Reading[i - 1], i)
      BY <1>4, <1>6, ReadsOn DEF IsSQL, SqlBetween, Mode
    <2>2. Mode(i - 1) # "line"
      BY <1>4, <2>1 DEF ModeAfter, Mode, Newline
    <2>3. s[i - 1] = "text"
      BY <1>6, <1>9, <2>1, <2>2 DEF Strips
    <2>4. s[i] = "text"
      BY <1>4, <1>10, <2>3 DEF StripMode, Newline
    <2> QED  BY <1>4, <1>11, <2>3, <2>4
  <1>13. ASSUME NEW j \in StripComments(f), j < i PROVE script[j] = Newline
    <2>1. j \in a..b /\ s[j] = "text" /\ s[j - 1] # "block"
      BY <1>11
    <2>2. Strips(s[j], j) /\ Strips(s[j - 1], j - 1) /\ ~IsSQL(j) /\ j \notin Separators
      BY <1>4, <1>6, <1>8, <1>9, <1>13, <2>1
    <2>3. Mode(j) = "text" /\ Mode(j - 1) # "block"
      <3>1. j \in 1..Size
        BY <1>0, <1>6, <2>1
      <3>2. Mode(j) \notin {"cut", "directive"}
        BY <2>2, <3>1, SeparatorsAre
      <3> QED  BY <2>1, <2>2, <3>2 DEF Strips
    <2> QED  BY <2>2, <2>3 DEF IsSQL, SqlBetween, Mode
  <1> QED  BY <1>4, <1>12, <1>13 DEF LeadingVerb, Newline

\* sqlplan/plan.go:292-299, 478-510: of scripts of every length such as the
\* generators write, a statement is classified by the verb it begins with, whatever
\* comments are above it.
THEOREM VerbAlwaysSeen == SqlSpec => []VerbIsSeen
  <1>1. WalkInv => VerbIsSeen
    BY VerbShows DEF WalkInv, VerbIsSeen
  <1> QED  BY <1>1, WalkStarts, WalkSteps, PTL DEF SqlSpec
=============================================================================

-------------------------- MODULE ParameterList_proof --------------------------
(* The parameters of a query: what the parser makes of the text of a window,  *)
(* and that a request is made for every part of the number that was answered.  *)
EXTENDS ComTest_proof, Recursion_proof

-----------------------------------------------------------------------------
(* The parser goes from line to line.                                         *)

TextLines == [key : {"Name", "Field", ""}, value : Nat]
Parameters == [name : Nat, field : Nat]
ParserStates == [open : Parameters, list : Seq(Parameters)]
Parse(lines, b) == FoldLeft(ParseLine, b, lines)

LEMMA ParseLineType ==
  ASSUME NEW a \in ParserStates, NEW x \in TextLines
  PROVE  ParseLine(a, x) \in ParserStates
<1>1. a.open \in Parameters /\ a.list \in Seq(Parameters) /\ x.value \in Nat
  BY DEF ParserStates, TextLines
<1>2. [name |-> x.value, field |-> 0] \in Parameters
      /\ [name |-> a.open.name, field |-> x.value] \in Parameters
  BY <1>1 DEF Parameters
<1>3. Append(a.list, a.open) \in Seq(Parameters)
  BY <1>1, AppendProperties
<1>4. CASE x.key = "Name"
  BY <1>1, <1>2, <1>3, <1>4 DEF ParseLine, ParserStates
<1>5. CASE x.key # "Name" /\ x.key = "Field" /\ a.open # NoParameter
  BY <1>1, <1>2, <1>5 DEF ParseLine, ParserStates
<1>6. CASE x.key # "Name" /\ ~(x.key = "Field" /\ a.open # NoParameter)
  BY <1>6 DEF ParseLine
<1> QED BY <1>4, <1>5, <1>6

\* The fold of the parser is a function of the number of lines read.
LEMMA ParserRuns ==
  ASSUME NEW lines \in Seq(TextLines), NEW b \in ParserStates
  PROVE  \E f \in [0..Len(lines) -> ParserStates] :
           /\ f[0] = b /\ \A n \in 1..Len(lines) : f[n] = ParseLine(f[n - 1], lines[n])
           /\ Parse(lines, b) = f[Len(lines)]
<1> DEFINE N == Len(lines)
           h == [p \in (1..N) \X ParserStates |-> ParseLine(p[2], lines[p[1]])]
           Folding(c) == c = [s \in SUBSET DOMAIN lines |->
                                IF s = {} THEN b ELSE ParseLine(c[s \ {Max(s)}], lines[Max(s)])]
           c == CHOOSE c : Folding(c)
           f == [n \in 0..N |-> c[1..n]]
<1>1. N \in Nat /\ DOMAIN lines = 1..N /\ \A n \in 1..N : lines[n] \in TextLines
  BY LenProperties, ElementOfSeq
<1>2. h \in [(1..N) \X ParserStates -> ParserStates]
  <2>1. ASSUME NEW p \in (1..N) \X ParserStates
        PROVE  ParseLine(p[2], lines[p[1]]) \in ParserStates
    BY <1>1, ParseLineType
  <2> QED BY <2>1
<1>3. PICK g \in [SUBSET (1..N) -> ParserStates] : Folds(g, N, b, h)
  <2> HIDE DEF h, N
  <2> QED BY <1>1, <1>2, LeftFold
<1>4. Folding(g)
  <2>1. ASSUME NEW s \in SUBSET (1..N)
        PROVE  g[s] = IF s = {} THEN b ELSE ParseLine(g[s \ {Max(s)}], lines[Max(s)])
    <3>1. g[s] = IF s = {} THEN b ELSE h[<<Max(s), g[s \ {Max(s)}]>>]
      BY <1>3 DEF Folds
    <3>2. CASE s # {}
      <4>1. Max(s) \in 1..N /\ g[s \ {Max(s)}] \in ParserStates
        <5> HIDE DEF N
        <5> QED BY <1>1, <3>2, MaxOfNumbers
      <4> QED BY <3>1, <3>2, <4>1
    <3> QED BY <3>1, <3>2
  <2>2. g = [s \in SUBSET (1..N) |-> g[s]]
    OBVIOUS
  <2> QED BY <1>1, <2>1, <2>2
<1>5. Folding(c)
  <2> HIDE DEF Folding
  <2> QED BY <1>4, Zenon
<1>6. Parse(lines, b) = c[1..N]
  <2>1. Parse(lines, b) = c[DOMAIN lines]
    BY Zenon DEF Parse, FoldLeft, MapThenFoldSet
  <2> QED BY <1>1, <2>1
<1>7. ASSUME NEW s \in SUBSET (1..N)
      PROVE  c[s] = IF s = {} THEN b ELSE ParseLine(c[s \ {Max(s)}], lines[Max(s)])
  <2> HIDE DEF c
  <2> QED BY <1>1, <1>5
<1> HIDE DEF c
<1>8. f[0] = b
  <2>1. 1..0 = {} /\ {} \in SUBSET (1..N)
    OBVIOUS
  <2>2. c[{}] = b
    BY <1>7, <2>1
  <2> QED BY <1>1, <2>1, <2>2
<1>9. ASSUME NEW n \in 1..N PROVE f[n] = ParseLine(f[n - 1], lines[n])
  <2>1. /\ n - 1 \in 0..N /\ n \in 0..N /\ 1..n \in SUBSET (1..N) /\ 1..n # {}
        /\ (1..n) \ {n} = 1..(n - 1)
    <3>1. n - 1 \in 0..N /\ n \in 0..N /\ n \in 1..n
      BY <1>1
    <3>2. ASSUME NEW i PROVE i \in (1..n) \ {n} <=> i \in 1..(n - 1)
      BY <1>1
    <3>3. 1..n \in SUBSET (1..N)
      BY <1>1
    <3> QED BY <3>1, <3>2, <3>3
  <2>2. Max(1..n) = n
    <3>1. n - 1 \in Nat /\ (n - 1) + 1 = n /\ n \in 1..n
      BY <1>1
    <3>2. 1..n \in SUBSET (1..((n - 1) + 1)) /\ (n - 1) + 1 \in 1..n
      BY <3>1
    <3> QED BY <3>1, <3>2, MaxOfInterval
  <2>3. c[1..n] = ParseLine(c[1..(n - 1)], lines[n])
    BY <1>7, <2>1, <2>2
  <2> QED BY <2>1, <2>3
<1> DEFINE S == {n \in Nat : n <= N => f[n] \in ParserStates}
<1> HIDE DEF f
<1>10. 0 \in S
  BY <1>8
<1>11. ASSUME NEW n \in S PROVE n + 1 \in S
  <2>1. SUFFICES ASSUME n + 1 <= N PROVE f[n + 1] \in ParserStates
    OBVIOUS
  <2>2. n + 1 \in 1..N /\ (n + 1) - 1 = n /\ f[n] \in ParserStates
    BY <1>1, <2>1
  <2>3. f[n + 1] = ParseLine(f[n], lines[n + 1])
    BY <1>9, <2>2
  <2> QED BY <1>1, <2>2, <2>3, ParseLineType
<1>12. \A n \in Nat : n \in S
  <2> HIDE DEF S
  <2>1. S \in SUBSET Nat
    BY DEF S
  <2> QED BY <1>10, <1>11, <2>1, NumbersInduction
<1>13. f \in [0..N -> ParserStates] /\ f[N] = c[1..N]
  <2>1. \A n \in 0..N : f[n] \in ParserStates
    BY <1>1, <1>12
  <2> QED BY <1>1, <2>1 DEF f
<1> QED BY <1>6, <1>8, <1>9, <1>13

LEMMA ParseAppend ==
  ASSUME NEW lines \in Seq(TextLines), NEW b \in ParserStates
  PROVE  /\ Parse(<<>>, b) = b /\ Parse(lines, b) \in ParserStates
         /\ \A x \in TextLines : Parse(Append(lines, x), b) = ParseLine(Parse(lines, b), x)
<1> DEFINE N == Len(lines)
<1>1. PICK f \in [0..N -> ParserStates] :
             /\ f[0] = b /\ \A n \in 1..N : f[n] = ParseLine(f[n - 1], lines[n])
             /\ Parse(lines, b) = f[N]
  BY ParserRuns, Zenon
<1>2. N \in Nat
  BY LenProperties
<1>3. Parse(<<>>, b) = b
  <2>1. <<>> \in Seq(TextLines) /\ Len(<<>>) = 0
    BY EmptySeq
  <2> DEFINE none == <<>>
  <2> HIDE DEF none
  <2>2. \E g \in [0..Len(none) -> ParserStates] :
          /\ g[0] = b /\ \A n \in 1..Len(none) : g[n] = ParseLine(g[n - 1], none[n])
          /\ Parse(none, b) = g[Len(none)]
    BY <2>1, ParserRuns, Zenon DEF none
  <2> QED BY <2>1, <2>2 DEF none
<1>4. Parse(lines, b) \in ParserStates
  BY <1>1, <1>2
<1>5. ASSUME NEW x \in TextLines
      PROVE  Parse(Append(lines, x), b) = ParseLine(Parse(lines, b), x)
  <2> DEFINE more == Append(lines, x)
  <2>1. /\ more \in Seq(TextLines) /\ Len(more) = N + 1
        /\ more[N + 1] = x /\ \A i \in 1..N : more[i] = lines[i]
    BY AppendProperties
  <2> HIDE DEF more
  <2>2. PICK g \in [0..Len(more) -> ParserStates] :
               /\ g[0] = b /\ \A n \in 1..Len(more) : g[n] = ParseLine(g[n - 1], more[n])
               /\ Parse(more, b) = g[Len(more)]
    BY <2>1, ParserRuns, Zenon
  <2> DEFINE S == {n \in Nat : n <= N => g[n] = f[n]}
  <2>3. 0 \in S
    BY <1>1, <2>2
  <2>4. ASSUME NEW n \in S PROVE n + 1 \in S
    <3>1. SUFFICES ASSUME n + 1 <= N PROVE g[n + 1] = f[n + 1]
      OBVIOUS
    <3>2. n + 1 \in 1..N /\ n + 1 \in 1..Len(more) /\ (n + 1) - 1 = n
      BY <1>2, <2>1, <3>1
    <3>3. g[n] = f[n]
      BY <1>2, <3>1
    <3>4. g[n + 1] = ParseLine(g[n], more[n + 1]) /\ f[n + 1] = ParseLine(f[n], lines[n + 1])
      BY <1>1, <2>2, <3>2
    <3> QED BY <2>1, <3>2, <3>3, <3>4
  <2>5. \A n \in Nat : n \in S
    <3> HIDE DEF S
    <3>1. S \in SUBSET Nat
      BY DEF S
    <3> QED BY <2>3, <2>4, <3>1, NumbersInduction
  <2>6. g[N] = f[N]
    <3>1. N \in S
      BY <1>2, <2>5
    <3>2. N <= N => g[N] = f[N]
      BY <3>1
    <3> QED BY <1>2, <3>2
  <2>7. N + 1 \in 1..Len(more) /\ (N + 1) - 1 = N
    BY <1>2, <2>1
  <2>8. g[N + 1] = ParseLine(g[N], more[N + 1])
    BY <2>2, <2>7
  <2> QED BY <1>1, <2>1, <2>2, <2>6, <2>8 DEF more
<1> QED BY <1>3, <1>4, <1>5

-----------------------------------------------------------------------------
(* The text of a window, parameter by parameter.                              *)

LEMMA ParseThree ==
  ASSUME NEW lines \in Seq(TextLines), NEW b \in ParserStates,
         NEW x \in TextLines, NEW y \in TextLines, NEW z \in TextLines
  PROVE  Parse(lines \o <<x, y, z>>, b)
           = ParseLine(ParseLine(ParseLine(Parse(lines, b), x), y), z)
<1> DEFINE one == Append(lines, x)
           two == Append(one, y)
<1>1. one \in Seq(TextLines) /\ two \in Seq(TextLines)
  BY AppendProperties
<1>2. lines \o <<x, y, z>> = Append(two, z)
  OBVIOUS
<1>3. Parse(one, b) = ParseLine(Parse(lines, b), x)
  BY ParseAppend
<1> HIDE DEF one, two
<1>4. Parse(Append(two, z), b) = ParseLine(Parse(two, b), z)
  BY <1>1, ParseAppend
<1>5. Parse(two, b) = ParseLine(Parse(one, b), y)
  BY <1>1, ParseAppend DEF two
<1> QED BY <1>2, <1>3, <1>4, <1>5

Three(i) == <<Line("Name", i), Line("Field", i), Line("", 0)>>

LEMMA TextGrows ==
  ASSUME NEW from \in Nat, NEW n \in Nat
  PROVE  /\ Text(from, from + n - 1) \in Seq(TextLines)
         /\ Text(from, from + n) = Text(from, from + n - 1) \o Three(from + n)
<1> DEFINE ss == [i \in 1..n |-> Three(from + i - 1)]
<1>1. \A i \in Nat : Three(i) \in Seq(TextLines)
  <2> TAKE i \in Nat
  <2>1. \A k \in {"Name", "Field", ""}, v \in Nat : Line(k, v) \in TextLines
    BY DEF Line, TextLines
  <2>2. 0 \in Nat
    OBVIOUS
  <2>3. Line("Name", i) \in TextLines /\ Line("Field", i) \in TextLines /\ Line("", 0) \in TextLines
    BY <2>1, <2>2, Zenon
  <2>4. \A x, y, z \in TextLines : <<x, y, z>> \in Seq(TextLines)
    OBVIOUS
  <2> QED BY <2>3, <2>4, Zenon DEF Three
<1>2. ss \in Seq(Seq(TextLines)) /\ Len(ss) = n
  <2>1. ss \in [1..n -> Seq(TextLines)]
    BY <1>1
  <2> QED BY <2>1, LenOfList
<1>3. Append(ss, Three(from + n)) = [i \in 1..(n + 1) |-> Three(from + i - 1)]
  OBVIOUS
<1>4. Text(from, from + n) = FlattenSeq([i \in 1..(n + 1) |-> Three(from + i - 1)])
  <2>1. ~(from + n < from) /\ (from + n) + 1 - from = n + 1
    OBVIOUS
  <2> QED BY <2>1 DEF Text, Three
<1>5. Text(from, from + n - 1) = FlattenSeq(ss)
  <2>1. CASE n = 0
    <3>1. from + n - 1 < from /\ ss = <<>>
      BY <2>1
    <3> QED BY <3>1, FlattenEmpty DEF Text
  <2>2. CASE n # 0
    <3>1. ~(from + n - 1 < from) /\ (from + n - 1) + 1 - from = n
      BY <2>2
    <3> QED BY <3>1 DEF Text, Three
  <2> QED BY <2>1, <2>2
<1> HIDE DEF ss
<1>6. Three(from + n) \in Seq(TextLines)
  BY <1>1
<1>7. /\ FlattenSeq(ss) \in Seq(TextLines)
      /\ FlattenSeq(Append(ss, Three(from + n))) = FlattenSeq(ss) \o Three(from + n)
  BY <1>2, <1>6, FlattenAppend
<1> QED BY <1>3, <1>4, <1>5, <1>7

-----------------------------------------------------------------------------
(* What the parser adds to a list.                                            *)

Named(v) == [name |-> v, field |-> v]
First(old) == [open |-> NoParameter, list |-> old]
Tidy(ps) == \A i \in 1..Len(ps) : ps[i].name = ps[i].field

\* The lines of a parameter leave it open, and close the one before it.
Read(a, v) == [open |-> Named(v),
               list |-> IF a.open = NoParameter THEN a.list ELSE Append(a.list, a.open)]

LEMMA ThreeLines ==
  ASSUME NEW a \in ParserStates, NEW v \in Nat
  PROVE  ParseLine(ParseLine(ParseLine(a, Line("Name", v)), Line("Field", v)), Line("", 0))
           = Read(a, v)
<1> DEFINE list1 == IF a.open = NoParameter THEN a.list ELSE Append(a.list, a.open)
           b == [open |-> [name |-> v, field |-> 0], list |-> list1]
<1>1. ParseLine(a, Line("Name", v)) = b
  BY DEF ParseLine, Line
<1>2. ParseLine(b, Line("Field", v)) = [open |-> Named(v), list |-> list1]
  <2> HIDE DEF list1
  <2>1. CASE b.open = NoParameter
    <3>1. v = 0
      BY <2>1 DEF NoParameter
    <3>2. ParseLine(b, Line("Field", v)) = b
      BY <2>1 DEF ParseLine, Line
    <3> QED BY <3>1, <3>2 DEF Named
  <2>2. CASE b.open # NoParameter
    <3>1. ParseLine(b, Line("Field", v)) = [b EXCEPT !.open = [name |-> b.open.name, field |-> v]]
      BY <2>2 DEF ParseLine, Line
    <3> QED BY <3>1 DEF Named
  <2> QED BY <2>1, <2>2
<1>3. \A c : ParseLine(c, Line("", 0)) = c
  BY DEF ParseLine, Line
<1> HIDE DEF list1, b
<1> QED BY <1>1, <1>2, <1>3 DEF list1, Read

\* No parameter that the parser adds has a field of another.
Apart(s) == s \in ParserStates /\ s.open.name = s.open.field /\ Tidy(s.list)

LEMMA ApartStep ==
  ASSUME NEW s, Apart(s), NEW v \in Nat
  PROVE  Apart(Read(s, v))
<1>1. ASSUME NEW a \in ParserStates
      PROVE  /\ Read(a, v) \in ParserStates
             /\ a.open \in Parameters /\ a.list \in Seq(Parameters) /\ Len(a.list) \in Nat
             /\ Append(a.list, a.open) \in Seq(Parameters)
             /\ Len(Append(a.list, a.open)) = Len(a.list) + 1
             /\ \A i \in 1..Len(a.list) : Append(a.list, a.open)[i] = a.list[i]
             /\ Append(a.list, a.open)[Len(a.list) + 1] = a.open
  <2>1. Named(v) \in Parameters
    BY DEF Named, Parameters
  <2>2. a.open \in Parameters /\ a.list \in Seq(Parameters)
    BY DEF ParserStates
  <2>3. /\ Append(a.list, a.open) \in Seq(Parameters)
        /\ Len(Append(a.list, a.open)) = Len(a.list) + 1
        /\ \A i \in 1..Len(a.list) : Append(a.list, a.open)[i] = a.list[i]
        /\ Append(a.list, a.open)[Len(a.list) + 1] = a.open
    BY <2>2, AppendProperties
  <2>4. Read(a, v) \in ParserStates
    BY <2>1, <2>2, <2>3 DEF ParserStates, Read
  <2> QED BY <2>2, <2>3, <2>4, LenProperties
<1>2. Named(v).name = Named(v).field
  BY DEF Named
<1>3. Tidy(Read(s, v).list)
  <2>1. Tidy(s.list) /\ s \in ParserStates /\ s.open.name = s.open.field
    BY DEF Apart
  <2>2. Tidy(Append(s.list, s.open))
    <3> SUFFICES ASSUME NEW i \in 1..(Len(s.list) + 1)
                 PROVE  Append(s.list, s.open)[i].name = Append(s.list, s.open)[i].field
      BY <1>1, <2>1 DEF Tidy
    <3>1. CASE i = Len(s.list) + 1
      BY <1>1, <2>1, <3>1
    <3>2. CASE i # Len(s.list) + 1
      <4>1. i \in 1..Len(s.list)
        BY <1>1, <2>1, <3>2
      <4> QED BY <1>1, <2>1, <4>1 DEF Tidy
    <3> QED BY <3>1, <3>2
  <2> QED BY <2>1, <2>2 DEF Read
<1>4. Read(s, v).open = Named(v)
  BY DEF Read
<1> QED BY <1>1, <1>2, <1>3, <1>4 DEF Apart

LEMMA WindowParsed ==
  ASSUME NEW from \in Nat, NEW to \in Int, NEW old \in Seq(Parameters), Tidy(old)
  PROVE  Apart(Parse(Text(from, to), First(old)))
<1> DEFINE T(n) == Text(from, from + n - 1)
           Good(n) == Apart(Parse(T(n), First(old)))
           S == {n \in Nat : Good(n)}
<1>0. First(old) \in ParserStates
  <2>1. NoParameter \in Parameters
    BY DEF NoParameter, Parameters
  <2> QED BY <2>1 DEF First, ParserStates
<1>1. Apart(First(old))
  BY <1>0 DEF Apart, First, NoParameter
<1>2. \A b \in ParserStates : Parse(<<>>, b) = b
  <2>1. <<>> \in Seq(TextLines)
    BY EmptySeq
  <2> QED BY <2>1, ParseAppend
<1>3. 0 \in S
  <2>1. T(0) = <<>>
    BY DEF Text
  <2> HIDE DEF T
  <2> QED BY <1>0, <1>1, <1>2, <2>1
<1>4. ASSUME NEW n \in S PROVE n + 1 \in S
  <2>1. n \in Nat /\ Good(n)
    OBVIOUS
  <2>2. T(n) \in Seq(TextLines) /\ T(n + 1) = T(n) \o Three(from + n)
    <3>1. from + (n + 1) - 1 = from + n
      BY <2>1
    <3> QED BY <2>1, <3>1, TextGrows
  <2> HIDE DEF T
  <2>3. /\ Line("Name", from + n) \in TextLines /\ Line("Field", from + n) \in TextLines
        /\ Line("", 0) \in TextLines
    BY <2>1 DEF Line, TextLines
  <2>4. ASSUME NEW b \in ParserStates
        PROVE  Parse(T(n + 1), b) = Read(Parse(T(n), b), from + n)
    <3>1. Parse(T(n), b) \in ParserStates
      BY <2>2, ParseAppend
    <3>2. Parse(T(n + 1), b) = ParseLine(ParseLine(ParseLine(Parse(T(n), b),
            Line("Name", from + n)), Line("Field", from + n)), Line("", 0))
      <4>1. T(n + 1) = T(n) \o <<Line("Name", from + n), Line("Field", from + n), Line("", 0)>>
        BY <2>2, Zenon DEF Three
      <4>2. Parse(T(n) \o <<Line("Name", from + n), Line("Field", from + n), Line("", 0)>>, b)
              = ParseLine(ParseLine(ParseLine(Parse(T(n), b),
                  Line("Name", from + n)), Line("Field", from + n)), Line("", 0))
        BY <2>2, <2>3, ParseThree, ZenonT(40)
      <4> QED BY <4>1, <4>2, Zenon
    <3>3. from + n \in Nat
      BY <2>1
    <3> QED BY <3>1, <3>2, <3>3, ThreeLines
  <2>5. from + n \in Nat
    BY <2>1
  <2>6. Good(n + 1)
    BY <1>0, <2>1, <2>4, <2>5, ApartStep
  <2> HIDE DEF Good
  <2> QED BY <2>1, <2>6
<1>5. \A n \in Nat : Good(n)
  <2> HIDE DEF Good
  <2>1. S \in SUBSET Nat
    OBVIOUS
  <2>2. \A n \in Nat : n \in S
    <3> HIDE DEF S
    <3> QED BY <1>3, <1>4, <2>1, NumbersInduction
  <2> QED BY <2>2
<1>6. CASE to < from
  <2>1. Text(from, to) = <<>>
    BY <1>6 DEF Text
  <2> QED BY <1>0, <1>1, <1>2, <2>1
<1>7. CASE ~(to < from)
  <2>1. to + 1 - from \in Nat /\ from + (to + 1 - from) - 1 = to
    BY <1>7
  <2>2. Good(to + 1 - from)
    <3> HIDE DEF Good
    <3> QED BY <1>5, <2>1
  <2> QED BY <2>1, <2>2
<1> QED BY <1>6, <1>7

-----------------------------------------------------------------------------
(* The list, and the telegrams that ask for it.                               *)

WindowOf(t) == t.do = "config" => t.args = <<AskFrom, AskTo>> /\ number \in Nat
ListInv == list \in Seq(Parameters) /\ Tidy(list)
WindowsInv == WindowOf(current) /\ \A i \in 1..Len(queue) : WindowOf(queue[i])

ToOfWindow == Least(AskTo, number - 1)

\* What SetParameters makes of the list.
LEMMA WindowAdded ==
  ASSUME ListInv, number \in Nat
  PROVE  LET new == ParseCtParameterConfigString(Text(AskFrom, ToOfWindow), list)
         IN  new \in Seq(Parameters) /\ Tidy(new)
<1> DEFINE t == Text(AskFrom, ToOfWindow)
<1>1. AskFrom \in Nat /\ ToOfWindow \in Int
  BY NumbersAssumption DEF ToOfWindow, Least
<1>2. Apart(Parse(t, First(list)))
  BY <1>1, WindowParsed DEF ListInv
<1>3. ParseCtParameterConfigString(t, list) = Parse(t, First(list)).list
  BY Zenon DEF ParseCtParameterConfigString, Parse, First
<1> QED BY <1>2, <1>3 DEF Apart, ParserStates

\* But for these steps the list stays as it is.
LEMMA ListTouched ==
  Next => list' = list \/ AskNumber \/ SetNumber \/ SetParameters
<1> USE DEF data, exchange, server, observer, AppOnly, WorkerOnly, MessageOnly, Running, Fail,
            Move
<1>1. CASE Running(App)
  BY <1>1 DEF App, IdleConnected, IdleEmpty, IdleHandled, HasNumber, HasConfig, Found,
         Started, ReadList
<1>2. CASE Running(Worker)
  BY <1>2 DEF Worker, OnStartMessage, Greeted, Close, StopMessageThread, CloseSocket,
         ClearServices, SetServiceList, Complete, BeginParameters, PassOn, Finish
<1>3. CASE Running(Message)
  BY <1>3 DEF Message, Get, GetNothing, Check, Send, WaitDone
<1> QED
  BY <1>1, <1>2, <1>3 DEF Next, Connect, Break, Serve, Refuse

LEMMA ListStep == ASSUME BaseInv, TraceInv, ListInv, WindowsInv, Next PROVE ListInv'
<1>1. CASE list' = list
  BY <1>1 DEF ListInv, Tidy
<1>2. CASE AskNumber \/ SetNumber
  <2>1. list' = <<>> /\ Len(<<>>) = 0
    BY <1>2 DEF AskNumber, SetNumber
  <2> QED BY <2>1, EmptySeq DEF ListInv, Tidy
<1>3. CASE SetParameters
  <2>1. pc["worker"] = "set_parameters"
    BY <1>3 DEF SetParameters, Move
  <2>2. current.do = "config"
    BY <2>1 DEF TraceInv
  <2>3. current.args = <<AskFrom, AskTo>> /\ number \in Nat
    BY <2>2 DEF WindowsInv, WindowOf
  <2>4. list' = ParseCtParameterConfigString(Text(AskFrom, ToOfWindow), list)
    BY <1>3, <2>3 DEF SetParameters, ToOfWindow
  <2> QED BY <2>3, <2>4, WindowAdded DEF ListInv
<1> QED BY <1>1, <1>2, <1>3, ListTouched

LEMMA RequestFacts ==
  ASSUME FlagsOK, NEW n \in Nat
  PROVE  /\ Requests(n) \in Seq(Mine) /\ Windows(n) \in Nat /\ Len(Requests(n)) = Windows(n)
         /\ \A i \in 1..Len(Requests(n)) : Requests(n)[i] = Telegram("config", <<AskFrom, AskTo>>)
<1>1. Chunk \in Nat \ {0} /\ n + Chunk - 1 \in Nat
  BY NumbersAssumption
<1>2. Windows(n) \in Nat
  BY <1>1 DEF Windows
<1>3. Len(Requests(n)) = Windows(n)
  BY <1>2 DEF Requests
<1> QED BY <1>2, <1>3, RequestsType DEF Requests

\* What is put is a window, or not a telegram for one.
LEMMA PutsWindows ==
  ASSUME BaseInv, AskNumber \/ OnStartMessage \/ SetNumber
  PROVE  \E ts \in Seq(Mine) : Put(ts) /\ \A i \in 1..Len(ts) : WindowOf(ts[i])
<1> USE DEF data, exchange, server, observer, WorkerOnly, MessageOnly, Move
<1>0. FlagsOK
  BY DEF BaseInv
<1>1. ASSUME NEW t \in Mine, t.do # "config", Put(<<t>>)
      PROVE  \E ts \in Seq(Mine) : Put(ts) /\ \A i \in 1..Len(ts) : WindowOf(ts[i])
  <2>1. <<t>> \in Seq(Mine) /\ Len(<<t>>) = 1 /\ <<t>>[1] = t
    BY <1>1, SingletonSeq
  <2>2. \A i \in 1..Len(<<t>>) : WindowOf(<<t>>[i])
    BY <1>1, <2>1 DEF WindowOf
  <2> QED BY <1>1, <2>1, <2>2
<1>2. ASSUME Put(<<>>)
      PROVE  \E ts \in Seq(Mine) : Put(ts) /\ \A i \in 1..Len(ts) : WindowOf(ts[i])
  <2>1. <<>> \in Seq(Mine) /\ \A i \in 1..Len(<<>>) : WindowOf(<<>>[i])
    BY EmptySeq
  <2> QED BY <1>2, <2>1
<1>3. CASE AskNumber
  <2>1. Telegram("number", <<>>) \in Mine /\ Telegram("number", <<>>).do = "number"
    BY <1>0, MineHas, EmptySeq DEF Telegram
  <2> QED BY <1>1, <1>3, <2>1 DEF AskNumber
<1>4. CASE OnStartMessage
  <2>1. Telegram("services", <<>>) \in Mine /\ Telegram("services", <<>>).do = "services"
    BY <1>0, MineHas DEF Telegram
  <2> QED BY <1>1, <1>4, <2>1 DEF OnStartMessage
<1>5. CASE SetNumber /\ number = NoNumber
  <2>1. Put(<<>>)
    BY <1>5, ConcatEmptySeq DEF SetNumber, BaseInv, TelegramsOK, Put
  <2> QED BY <1>2, <2>1
<1>6. CASE SetNumber /\ number # NoNumber
  <2>1. number \in Nat
    BY <1>0, <1>6, NumbersAssumption DEF FlagsOK
  <2>2. Put(Requests(number))
    BY <1>6 DEF SetNumber
  <2>3. \A i \in 1..Len(Requests(number)) : WindowOf(Requests(number)[i])
    <3>1. \A i \in 1..Len(Requests(number)) :
            Requests(number)[i] = Telegram("config", <<AskFrom, AskTo>>)
      BY <1>0, <2>1, RequestFacts
    <3>2. WindowOf(Telegram("config", <<AskFrom, AskTo>>))
      BY <2>1 DEF Telegram, WindowOf
    <3> QED BY <3>1, <3>2
  <2> QED BY <1>0, <2>1, <2>2, <2>3, RequestFacts
<1> QED BY <1>3, <1>4, <1>5, <1>6

LEMMA WindowsStep == ASSUME BaseInv, WindowsInv, Next PROVE WindowsInv'
<1>0. number' = number /\ current \in Mine \cup {NoTelegram} /\ Len(queue) \in Nat
  BY ServerFixed, LenProperties DEF BaseInv, TelegramsOK
<1>1. CASE UNCHANGED <<queue, current>>
  BY <1>0, <1>1 DEF WindowsInv, WindowOf
<1>2. CASE AskNumber \/ OnStartMessage \/ SetNumber
  <2>1. current' = current
    BY <1>2, PutsMine
  <2>2. PICK ts \in Seq(Mine) : Put(ts) /\ \A i \in 1..Len(ts) : WindowOf(ts[i])
    BY <1>2, PutsWindows
  <2>3. ASSUME NEW i \in 1..Len(queue') PROVE WindowOf(queue'[i])
    <3>0. Len(ts) \in Nat /\ Len(queue') = Len(queue) + Len(ts)
      BY <2>2, PutFacts
    <3>1. CASE i <= Len(queue)
      <4>1. i \in 1..Len(queue) /\ queue'[i] = queue[i]
        BY <1>0, <2>2, <3>0, <3>1, PutFacts
      <4> QED BY <4>1 DEF WindowsInv
    <3>2. CASE ~(i <= Len(queue))
      <4>1. i - Len(queue) \in 1..Len(ts) /\ queue'[i] = ts[i - Len(queue)]
        BY <1>0, <2>2, <3>0, <3>2, PutFacts
      <4> QED BY <2>2, <4>1
    <3> QED BY <3>1, <3>2
  <2> QED BY <1>0, <2>1, <2>3 DEF WindowsInv, WindowOf
<1>3. CASE Connect
  <2>1. current' = current /\ Len(queue') = 1 /\ queue'[1].do = "init"
    BY <1>3 DEF Connect, Telegram
  <2> QED BY <1>0, <2>1 DEF WindowsInv, WindowOf
<1>4. CASE Get
  <2>1. /\ Len(queue) \in Nat \ {0} /\ current' = queue[1] /\ Len(queue') = Len(queue) - 1
        /\ \A i \in 1..(Len(queue) - 1) : queue'[i] = queue[i + 1]
    BY <1>4, GetFacts
  <2>2. \A i \in 1..(Len(queue) - 1) : i + 1 \in 1..Len(queue)
    BY <2>1
  <2> QED BY <1>0, <2>1, <2>2 DEF WindowsInv, WindowOf
<1>5. CASE WaitDone
  <2>1. current' = NoTelegram /\ queue' = queue
    BY <1>5 DEF WaitDone
  <2> QED BY <1>0, <2>1 DEF WindowsInv, WindowOf, NoTelegram, Telegram
<1> QED BY <1>1, <1>2, <1>3, <1>4, <1>5, TelegramsTouched

-----------------------------------------------------------------------------
(* No parameter has the fields of another one.                                *)

FieldsInv == ListInv /\ WindowsInv

LEMMA FieldsInit == Init => FieldsInv
<1> SUFFICES ASSUME Init PROVE FieldsInv
  OBVIOUS
<1>1. queue = <<>> /\ current = NoTelegram
  BY DEF Init
<1>2. WindowsInv
  <2>1. Len(queue) = 0
    BY <1>1
  <2> QED BY <1>1, <2>1 DEF WindowsInv, WindowOf, NoTelegram, Telegram
<1>3. CASE list = <<>>
  <2>1. Len(list) = 0 /\ list \in Seq(Parameters)
    BY <1>3, EmptySeq
  <2> QED BY <1>2, <2>1 DEF FieldsInv, ListInv, Tidy
<1> QED BY <1>3 DEF Init

LEMMA FieldsInvariant == Spec => [](BaseInv /\ TraceInv /\ FieldsInv)
<1>1. FieldsInv /\ UNCHANGED vars => FieldsInv'
  BY DEF FieldsInv, ListInv, Tidy, WindowsInv, WindowOf, vars, data, exchange, server
<1>2. ClientInv /\ FieldsInv /\ [Next]_vars => FieldsInv'
  BY <1>1, ListStep, WindowsStep DEF FieldsInv, ClientInv
<1>3. ClientInv => BaseInv /\ TraceInv
  BY DEF ClientInv
<1> QED BY <1>2, <1>3, FieldsInit, ClientInvariant, PTL DEF Spec

\* Every parameter that a query puts into its list from the text of a window has its
\* own fields: the parser starts a parameter with its name and adds it to the list
\* when the next name comes. That the last one is never added is no part of this.
THEOREM FieldsAreTheirOwn == Spec => []FieldsStayTogether
<1>1. ASSUME FieldsInv PROVE FieldsStayTogether
  <2> SUFFICES ASSUME NEW p \in ToSet(list)
               PROVE  p \in [name : Nat, field : Nat] /\ p.name = p.field
    BY DEF FieldsStayTogether
  <2>1. PICK i \in DOMAIN list : list[i] = p
    BY DEF ToSet
  <2>2. list \in Seq(Parameters) /\ Tidy(list)
    BY <1>1 DEF FieldsInv, ListInv
  <2>3. DOMAIN list = 1..Len(list)
    BY <2>2, LenProperties
  <2>4. i \in 1..Len(list) /\ list[i] \in Parameters
    BY <2>1, <2>2, <2>3, ElementOfSeq
  <2> QED BY <2>1, <2>2, <2>4 DEF Tidy, Parameters
<1> QED BY <1>1, FieldsInvariant, PTL

-----------------------------------------------------------------------------
(* What has been asked for.                                                   *)

Asking == {"has_number", "has_config", "ask_number"}
Plain(t) == t.do \notin {"number", "config"}
\* The number of parameters is asked for once, and by a client that is online.
AskInv ==
  /\ pc["app"] \in Asking => after = "has_number"
  /\ pc["app"] = "idle_handled" /\ after = "started" => ~Queued("number")
  /\ after = "has_number" =>
       parsed = 0 /\ Plain(current) /\ \A i \in 1..Len(queue) : Plain(queue[i])
  /\ Kept /\ (pc["app"] # "idle_connected" \/ after = "started") => connected /\ link = "open"

LEMMA QueryPuts ==
  ASSUME BaseInv, Running(Worker)
  PROVE  \/ queue' = queue
         \/ OnStartMessage /\ Put(<<Telegram("services", <<>>)>>)
         \/ SetNumber /\ number \in Nat /\ Put(Requests(number))
<1> USE DEF data, WorkerOnly, exchange, server, observer, Move, Running
<1>1. CASE OnStartMessage
  BY <1>1 DEF OnStartMessage
<1>2. CASE SetNumber
  <2>1. number # NoNumber => number \in Nat
    BY NumbersAssumption DEF BaseInv, FlagsOK
  <2> QED BY <1>2, <2>1 DEF SetNumber
<1> QED
  BY <1>1, <1>2 DEF Worker, Complete, Greeted, Close, StopMessageThread, CloseSocket,
     ClearServices, SetServiceList, BeginParameters, SetParameters, PassOn, Finish

\* What the application of a query does to the rest.
LEMMA QueryAsks ==
  ASSUME BaseInv, Running(App)
  PROVE  \/ AskNumber
         \/ UNCHANGED <<queue, current, after>>
<1> USE DEF data, AppOnly, exchange, server, observer, Move, Running, Fail
<1> QED
  BY DEF App, IdleConnected, IdleEmpty, IdleHandled, HasNumber, HasConfig, Found,
     Started, ReadList

LEMMA AskApp ==
  ASSUME BaseInv, OnlineInv, AskInv,
         Running(App)
  PROVE  AskInv'
<1> USE DEF data, AppOnly, exchange, server, observer, Move, Running, Fail
<1>0. after \in {"has_number", "started"} /\ PcOK /\ queue \in Seq(Mine)
  BY DEF BaseInv, FlagsOK, TelegramsOK
<1>1. UNCHANGED <<current, connected, link, number, parsed>> /\ (Kept' <=> Kept)
  BY AppMoves DEF Kept
<1>2. ASSUME NEW l, Goto("app", l) PROVE pc'["app"] = l
  BY <1>0, <1>2, PcMoved DEF Threads
<1>3. pc' = pc \/ \E l : Goto("app", l)
  BY DEF App, IdleConnected, IdleEmpty, IdleHandled, HasNumber, HasConfig, AskNumber,
     Started, ReadList, Found
<1>4. CASE AskNumber
  <2>1. pc'["app"] = "idle_connected" /\ after' = "started" /\ pc["app"] = "ask_number"
    BY <1>2, <1>4 DEF AskNumber
  <2> QED BY <1>1, <2>1 DEF AskInv, Asking
<1>5. CASE ~AskNumber
  <2>1. UNCHANGED <<queue, current, after>>
    BY <1>5, QueryAsks
  <2>2. pc'["app"] \in Asking => pc["app"] \in Asking \/ after = "has_number"
    BY <1>0, <1>2, <1>5, <2>1 DEF App, IdleConnected, IdleEmpty, IdleHandled, HasNumber,
       HasConfig, Found, Started, ReadList, Asking
  <2>3. pc'["app"] = "idle_handled" => pc["app"] = "idle_handled" \/ queue = <<>>
    BY <1>0, <1>2, <1>5, <2>1 DEF App, IdleConnected, IdleEmpty, IdleHandled, HasNumber,
       HasConfig, Found, Started, ReadList
  <2>4. pc'["app"] # "idle_connected" => pc["app"] # "idle_connected" \/ connected
    BY <1>0, <1>2, <1>5, <2>1 DEF App, IdleConnected, IdleEmpty, IdleHandled, HasNumber,
       HasConfig, Found, Started, ReadList
  <2>5. Queued("number")' <=> Queued("number")
    BY <2>1 DEF Queued
  <2>6. queue = <<>> => ~Queued("number")
    BY DEF Queued
  <2>7. Kept /\ connected => link = "open"
    BY DEF OnlineInv, Fresh
  <2> QED
    BY <1>1, <2>1, <2>2, <2>3, <2>4, <2>5, <2>6, <2>7 DEF AskInv, Plain
<1> QED BY <1>4, <1>5

\* Only an answer with parameters is counted.
LEMMA ParsedMoves ==
  ASSUME TraceInv, Running(Worker)
  PROVE  parsed' = parsed \/ current.do = "config"
<1> USE DEF WorkerOnly, observer, Move, Running
<1>1. CASE SetParameters
  BY <1>1 DEF SetParameters, TraceInv
<1> QED
  BY <1>1 DEF Worker, OnStartMessage, Greeted, Close, StopMessageThread, CloseSocket,
     ClearServices, SetServiceList, Complete, SetNumber, BeginParameters, PassOn, Finish

LEMMA AskWorker ==
  ASSUME BaseInv, TraceInv, AskInv, Running(Worker)
  PROVE  AskInv'
<1> USE DEF data, WorkerOnly, exchange, server, observer, Move, Running
<1>1. /\ pc'["app"] = pc["app"] /\ UNCHANGED <<current, number, after, spare>>
      /\ Len(queue) \in Nat /\ FlagsOK
  BY WorkerMoves, LenProperties DEF BaseInv, TelegramsOK
<1>2. Kept /\ link = "open" => link' = link /\ (connected => connected')
  <2> SUFFICES ASSUME Kept, link = "open"
               PROVE  link' = link /\ (connected => connected')
    OBVIOUS
  <2>1. pc["worker"] # "closing"
    BY DEF BaseInv, FlowInv
  <2> QED
    BY <2>1 DEF Worker, OnStartMessage, Greeted, Close, StopMessageThread, CloseSocket,
       ClearServices, SetServiceList, Complete, SetNumber, BeginParameters, SetParameters,
       PassOn, Finish
<1>3. CASE queue' = queue
  <2>1. Plain(current) => parsed' = parsed
    BY ParsedMoves DEF Plain
  <2> QED BY <1>1, <1>2, <1>3, <2>1 DEF AskInv, Queued, Plain, Kept
<1>4. CASE OnStartMessage /\ Put(<<Telegram("services", <<>>)>>)
  <2> DEFINE t == Telegram("services", <<>>)
  <2>1. <<t>> \in Seq(Mine) /\ Len(<<t>>) = 1 /\ <<t>>[1] = t /\ t.do = "services"
    BY <1>1, MineHas, SingletonSeq DEF Telegram
  <2>2. \A i \in 1..Len(queue') : (i \in 1..Len(queue) /\ queue'[i] = queue[i]) \/ queue'[i] = t
    <3> TAKE i \in 1..Len(queue')
    <3>1. Len(queue') = Len(queue) + 1
      BY <1>4, <2>1, PutFacts
    <3>2. IF i <= Len(queue) THEN queue'[i] = queue[i] ELSE queue'[i] = <<t>>[i - Len(queue)]
      BY <1>4, <2>1, PutFacts
    <3>3. CASE i <= Len(queue)
      BY <1>1, <3>1, <3>2, <3>3
    <3>4. CASE ~(i <= Len(queue))
      <4>1. i - Len(queue) = 1
        BY <1>1, <3>1, <3>4
      <4> QED BY <2>1, <3>2, <3>4, <4>1
    <3> QED BY <3>3, <3>4
  <2>3. Queued("number")' => Queued("number")
    BY <2>1, <2>2 DEF Queued
  <2>4. (\A i \in 1..Len(queue) : Plain(queue[i])) => \A i \in 1..Len(queue') : Plain(queue'[i])
    BY <2>1, <2>2 DEF Plain
  <2>5. parsed' = parsed
    BY <1>4 DEF OnStartMessage
  <2> QED
    BY <1>1, <1>2, <2>3, <2>4, <2>5 DEF AskInv, Plain, Kept
<1>5. CASE SetNumber /\ number \in Nat /\ Put(Requests(number))
  <2>1. ~Plain(current)
    BY <1>5 DEF SetNumber, Answered, Plain
  <2> DEFINE ts == Requests(number)
  <2>2. /\ ts \in Seq(Mine)
        /\ \A i \in 1..Len(ts) : ts[i] = Telegram("config", <<AskFrom, AskTo>>)
    BY <1>1, <1>5, RequestFacts
  <2> HIDE DEF ts
  <2>3. \A i \in 1..Len(ts) : ts[i].do = "config"
    BY <2>2 DEF Telegram
  <2>4. Queued("number")' => Queued("number")
    <3> SUFFICES ASSUME NEW i \in 1..Len(queue'), queue'[i].do = "number"
                 PROVE  Queued("number")
      BY DEF Queued
    <3>0. Len(ts) \in Nat /\ Len(queue') = Len(queue) + Len(ts)
      BY <1>5, <2>2, PutFacts DEF ts
    <3>1. IF i <= Len(queue) THEN queue'[i] = queue[i] ELSE queue'[i] = ts[i - Len(queue)]
      BY <1>5, <2>2, PutFacts DEF ts
    <3>2. CASE i <= Len(queue)
      BY <1>1, <3>0, <3>1, <3>2 DEF Queued
    <3>3. CASE ~(i <= Len(queue))
      <4>1. i - Len(queue) \in 1..Len(ts)
        BY <1>1, <3>0, <3>3
      <4> QED BY <2>3, <3>1, <3>3, <4>1
    <3> QED BY <3>2, <3>3
  <2> QED
    BY <1>1, <1>2, <2>1, <2>4 DEF AskInv, Kept
<1> QED BY <1>3, <1>4, <1>5, QueryPuts

LEMMA AskMessage ==
  ASSUME BaseInv, AskInv, Running(Message)
  PROVE  AskInv'
<1>1. pc'["app"] = pc["app"] /\ UNCHANGED <<parsed, connected, link, number, after, spare>>
  BY MessageMoves
<1>2. CASE Get
  <2>1. /\ Len(queue) \in Nat \ {0} /\ current' = queue[1] /\ Len(queue') = Len(queue) - 1
        /\ \A i \in 1..(Len(queue) - 1) : queue'[i] = queue[i + 1]
    BY <1>2, GetFacts
  <2>2. /\ 1 \in 1..Len(queue)
        /\ \A i \in 1..Len(queue') : i + 1 \in 1..Len(queue) /\ queue'[i] = queue[i + 1]
    BY <2>1
  <2>3. Queued("number")' => Queued("number")
    BY <2>2 DEF Queued
  <2>4. (\A i \in 1..Len(queue) : Plain(queue[i])) =>
          Plain(current)' /\ \A i \in 1..Len(queue') : Plain(queue'[i])
    BY <2>1, <2>2 DEF Plain
  <2> QED BY <1>1, <2>3, <2>4 DEF AskInv, Kept, Plain
<1>3. CASE queue' = queue /\ (current' = current \/ current' = NoTelegram)
  <2>1. Plain(NoTelegram)
    BY DEF Plain, NoTelegram, Telegram
  <2> QED BY <1>1, <1>3, <2>1 DEF AskInv, Kept, Plain, Queued
<1> QED BY <1>2, <1>3 DEF Running, Message, GetNothing, Check, Send, WaitDone, Move

LEMMA AskStep == ASSUME BaseInv, TraceInv, OnlineInv, AskInv, Next PROVE AskInv'
<1>1. CASE Running(Connect)
  <2>1. link = "none" /\ Len(queue') = 1 /\ queue'[1].do = "init"
    BY <1>1 DEF Running, Connect, BaseInv, FlowInv, Telegram
  <2>2. UNCHANGED <<current, after, parsed>> /\ pc'["app"] = pc["app"] /\ (Kept' <=> Kept)
    <3>1. spare'["lose"] = spare["lose"]
      BY <1>1 DEF Running, Connect, Spend, Events, BaseInv, FlagsOK
    <3>2. pc'["app"] = pc["app"]
      BY <1>1 DEF Running, Connect, BaseInv, PcOK
    <3> QED BY <1>1, <3>1, <3>2 DEF Running, Connect, Kept, observer
  <2>3. ~Queued("number")' /\ \A i \in 1..Len(queue') : Plain(queue'[i])
    BY <2>1 DEF Queued, Plain
  <2>4. ~(Kept /\ (pc["app"] # "idle_connected" \/ after = "started"))
    BY <2>1 DEF AskInv
  <2> QED BY <2>2, <2>3, <2>4 DEF AskInv, Plain
<1>2. CASE Running(Break)
  <2>1. ~Kept'
    <3>1. spare["lose"] \in Nat /\ spare'["lose"] = spare["lose"] - 1
      BY <1>2, NumbersAssumption DEF Running, Break, BaseInv, FlagsOK, Spend, Events
    <3>2. Budget["lose"] \in Nat /\ spare["lose"] <= Budget["lose"]
      BY NumbersAssumption DEF TraceInv, Events
    <3> QED BY <3>1, <3>2 DEF Kept
  <2>2. UNCHANGED <<queue, current, after, parsed, pc>>
    BY <1>2 DEF Running, Break, observer
  <2> QED BY <2>1, <2>2 DEF AskInv, Plain, Queued
<1>3. CASE Running(Serve) \/ Running(Refuse)
  <2>1. Kept' <=> Kept
    BY <1>3 DEF Running, Serve, Refuse, Spend, Kept, Events, BaseInv, FlagsOK
  <2> QED BY <2>1, <1>3 DEF AskInv, Plain, Queued, Running, Serve, Refuse, observer
<1> QED
  BY <1>1, <1>2, <1>3, AskApp, AskWorker, AskMessage DEF Next

-----------------------------------------------------------------------------
(* The requests, counted.                                                     *)

Answering == {"complete", "finish"}
One(do) == IF Out(do, Answering) THEN 1 ELSE 0
NumberQueued ==
  /\ parsed = 0 /\ Len(queue) # 0 /\ queue[Len(queue)].do = "number" /\ Plain(current)
  /\ \A i \in 1..(Len(queue) - 1) : Plain(queue[i])
NumberOut == parsed = 0 /\ Len(queue) = 0 /\ Out("number", Answering)
\* As many requests are parsed, queued and out as the number calls for.
Counted ==
  /\ ~Out("number", Answering) /\ number \in Nat
  /\ \A i \in 1..Len(queue) : queue[i].do = "config"
  /\ pc["message"] \in {"check", "send"} => current.do = "config"
  /\ parsed + Len(queue) + One("config") = Windows(number)
Counting == NumberQueued \/ NumberOut \/ Counted
CountInv == Smooth /\ after = "started" => Counting

LEMMA CountSame ==
  ASSUME Counting, UNCHANGED <<parsed, queue, number>>, current' = current \/ Plain(current)',
         Out("number", Answering)' <=> Out("number", Answering),
         Out("config", Answering)' <=> Out("config", Answering),
         \/ pc'["message"] \notin {"check", "send"}
         \/ pc["message"] \in {"check", "send"} /\ current' = current
  PROVE  Counting'
<1>1. Windows(number)' = Windows(number)
  OBVIOUS
<1>2. One("config")' = One("config")
  BY DEF One
<1>3. NumberQueued => NumberQueued'
  BY DEF NumberQueued, Plain
<1>4. NumberOut => NumberOut'
  BY DEF NumberOut
<1>5. Counted => Counted'
  BY <1>1, <1>2 DEF Counted
<1> QED BY <1>3, <1>4, <1>5 DEF Counting

\* Before they are asked for, no windows are counted.
LEMMA CountAsked ==
  ASSUME BaseInv, AskInv, AskNumber
  PROVE  Counting'
<1>1. pc["app"] = "ask_number" /\ parsed' = parsed /\ Put(<<Telegram("number", <<>>)>>) /\ current' = current
  BY DEF AskNumber, Move, observer
<1>2. parsed = 0 /\ Plain(current) /\ \A i \in 1..Len(queue) : Plain(queue[i])
  BY <1>1 DEF AskInv, Asking
<1> DEFINE t == Telegram("number", <<>>)
<1>3. <<t>> \in Seq(Mine) /\ Len(<<t>>) = 1 /\ <<t>>[1] = t /\ t.do = "number"
  BY MineHas, SingletonSeq, EmptySeq DEF Telegram, BaseInv
<1>4. /\ Len(queue) \in Nat /\ Len(queue') = Len(queue) + 1
      /\ \A i \in 1..Len(queue) : queue'[i] = queue[i]
  BY <1>1, <1>3, PutFacts
<1>5. queue'[Len(queue')] = t
  <2>1. \A i \in 1..Len(queue') : IF i <= Len(queue) THEN queue'[i] = queue[i]
                                  ELSE queue'[i] = <<t>>[i - Len(queue)]
    BY <1>1, <1>3, PutFacts
  <2>2. /\ Len(queue') \in 1..Len(queue') /\ ~(Len(queue') <= Len(queue))
        /\ Len(queue') - Len(queue) = 1
    BY <1>4
  <2>3. queue'[Len(queue')] = <<t>>[Len(queue') - Len(queue)]
    BY <2>1, <2>2
  <2> QED BY <1>3, <2>2, <2>3
<1>6. Len(queue') # 0 /\ \A i \in 1..(Len(queue') - 1) : i \in 1..Len(queue)
  BY <1>4
<1> QED BY <1>1, <1>2, <1>3, <1>4, <1>5, <1>6 DEF Counting, NumberQueued, Plain

LEMMA CountNumber ==
  ASSUME BaseInv, Counting, SetNumber
  PROVE  Counting'
<1> USE DEF data, WorkerOnly, exchange, server
<1>1. /\ current.do = "number" /\ pc["worker"] = "read" /\ reply = "OK"
      /\ pc["message"] = "wait" /\ ~handled
  BY DEF SetNumber, Answered, BaseInv, FlowInv
<1>2. parsed = 0 /\ Len(queue) = 0
  BY <1>1 DEF Counting, NumberQueued, NumberOut, Counted, Plain, Out, Answering
<1>3. PcOK /\ FlagsOK /\ Len(queue) \in Nat
  BY <1>2 DEF BaseInv
<1>4. UNCHANGED <<parsed, current, handled, number>>
  BY DEF SetNumber, observer
<1>5. CASE number = NoNumber
  <2>1. pc'["message"] = "wait" /\ pc'["worker"] = "over" /\ queue' = queue
    BY <1>1, <1>3, <1>5, PcMoved DEF SetNumber, Threads
  <2> QED BY <1>1, <1>2, <1>4, <2>1 DEF Counting, NumberOut, Out, Answering
<1>6. CASE number # NoNumber
  <2>1. pc'["message"] = "wait" /\ pc'["worker"] = "complete" /\ Put(Requests(number))
    BY <1>1, <1>3, <1>6, PcMoved DEF SetNumber, Threads
  <2>2. number \in Nat
    BY <1>3, <1>6, NumbersAssumption DEF FlagsOK
  <2> DEFINE ts == Requests(number)
  <2>3. /\ ts \in Seq(Mine) /\ Windows(number) \in Nat /\ Len(ts) = Windows(number)
        /\ \A i \in 1..Len(ts) : ts[i] = Telegram("config", <<AskFrom, AskTo>>)
    BY <1>3, <2>2, RequestFacts
  <2> HIDE DEF ts
  <2>4. /\ Len(queue') = Len(ts)
        /\ \A i \in 1..Len(queue') : IF i <= Len(queue) THEN queue'[i] = queue[i]
                                     ELSE queue'[i] = ts[i - Len(queue)]
    BY <1>2, <2>1, <2>3, PutFacts DEF ts
  <2>5. \A i \in 1..Len(queue') : queue'[i].do = "config"
    <3> TAKE i \in 1..Len(queue')
    <3>1. ~(i <= Len(queue)) /\ i - Len(queue) = i
      BY <1>2
    <3>2. queue'[i] = ts[i]
      BY <2>4, <3>1
    <3> QED BY <2>3, <2>4, <3>2 DEF Telegram
  <2>6. ~Out("number", Answering)' /\ ~Out("config", Answering)'
    BY <2>1 DEF Out, Answering
  <2>7. parsed' + Len(queue') + One("config")' = Windows(number)'
    BY <1>2, <1>4, <2>3, <2>4, <2>6 DEF One
  <2> QED BY <1>4, <2>1, <2>2, <2>5, <2>6, <2>7 DEF Counting, Counted
<1> QED BY <1>5, <1>6

\* One request is no longer out, and one answer more is parsed.
LEMMA CountParameters ==
  ASSUME BaseInv, TraceInv, Counting, SetParameters
  PROVE  Counting'
<1> USE DEF exchange, Move
<1>1. /\ current.do = "config" /\ pc["worker"] = "set_parameters"
      /\ pc["message"] = "wait" /\ ~handled
  BY DEF SetParameters, TraceInv, BaseInv, FlowInv, Handling
<1>2. UNCHANGED <<queue, current, handled, number>> /\ parsed' = parsed + 1
  BY DEF SetParameters, server
<1>3. pc'["worker"] = "complete" /\ pc'["message"] = "wait"
  BY <1>1, PcMoved DEF SetParameters, BaseInv, Threads
<1>4. Counted
  BY <1>1 DEF Counting, NumberQueued, NumberOut, Plain, Out
<1>5. One("config") = 1 /\ One("config")' = 0 /\ ~Out("number", Answering)'
  BY <1>1, <1>2, <1>3 DEF One, Out, Answering
<1>6. Len(queue) \in Nat /\ parsed \in Nat
  BY LenProperties DEF BaseInv, TelegramsOK, FlagsOK
<1>7. parsed' + Len(queue') + One("config")' = Windows(number)'
  BY <1>2, <1>4, <1>5, <1>6 DEF Counted
<1> QED BY <1>2, <1>3, <1>4, <1>5, <1>7 DEF Counting, Counted

LEMMA CountWorker ==
  ASSUME BaseInv, TraceInv, OnlineInv, Counting, Smooth,
         connected, link = "open", Running(Worker)
  PROVE  Counting'
<1> USE DEF data, WorkerOnly, exchange, server, observer, Move, Running
<1>1. /\ pc["worker"] \notin {"greet", "closing", "down"} /\ reply # "FAILED" /\ PcOK
      /\ pc'["message"] = pc["message"] /\ UNCHANGED <<current, number>>
  BY WorkerMoves DEF BaseInv, FlowInv, OnlineInv, Smooth, Kept, TraceInv
<1>2. ASSUME NEW l, Goto("worker", l) PROVE pc'["worker"] = l
  BY <1>1, <1>2, PcMoved DEF Threads
<1>3. ~(OnStartMessage \/ Close \/ StopMessageThread \/ CloseSocket)
  BY <1>1 DEF OnStartMessage, Close, StopMessageThread, CloseSocket
<1>4. CASE SetNumber \/ SetParameters
  BY <1>4, CountNumber, CountParameters
<1>5. CASE Finish
  <2>1. pc["message"] = "wait" /\ ~handled /\ handled' /\ pc["worker"] = "finish"
    BY <1>5 DEF Finish, BaseInv, FlowInv, Handling
  <2>2. ~Out("number", Answering) /\ ~Out("config", Answering)
    BY <2>1 DEF Out, Answering
  <2>3. ~Out("number", Answering)' /\ ~Out("config", Answering)'
    BY <1>1, <2>1 DEF Out
  <2>4. UNCHANGED <<parsed, queue>> /\ pc'["message"] \notin {"check", "send"}
    BY <1>1, <1>5, <2>1 DEF Finish
  <2> QED BY <1>1, <2>2, <2>3, <2>4, CountSame
<1>6. CASE ClearServices \/ SetServiceList \/ PassOn
  <2>1. current.do \notin {"number", "config"}
    BY <1>1, <1>6 DEF ClearServices, SetServiceList, PassOn, Answered, TraceInv
  <2>2. /\ ~Out("number", Answering) /\ ~Out("config", Answering)
        /\ ~Out("number", Answering)' /\ ~Out("config", Answering)'
    BY <1>1, <2>1 DEF Out
  <2>3. UNCHANGED <<parsed, queue>>
    BY <1>6 DEF ClearServices, SetServiceList, PassOn
  <2> QED BY <1>1, <2>2, <2>3, CountSame
<1>7. CASE Greeted \/ Complete \/ BeginParameters
  <2>1. pc'["worker"] \in Answering <=> pc["worker"] \in Answering
    BY <1>2, <1>7 DEF Greeted, Complete, BeginParameters, Answered, Answering
  <2>2. handled' = handled /\ parsed' = parsed
    BY <1>7 DEF Greeted, Complete, BeginParameters
  <2>3. queue' = queue
    BY <1>7 DEF Greeted, Complete, BeginParameters
  <2>4. /\ Out("number", Answering)' <=> Out("number", Answering)
        /\ Out("config", Answering)' <=> Out("config", Answering)
    BY <1>1, <2>1, <2>2 DEF Out
  <2> QED BY <1>1, <2>2, <2>3, <2>4, CountSame
<1> QED BY <1>3, <1>4, <1>5, <1>6, <1>7 DEF Worker

LEMMA CountMessage ==
  ASSUME BaseInv, Counting, link = "open", Running(Message)
  PROVE  Counting'
<1> USE DEF exchange, server, observer, Move, Running
<1>1. /\ ~stopping /\ pc'["worker"] = pc["worker"] /\ UNCHANGED <<parsed, number>> /\ PcOK
      /\ handled \in BOOLEAN
  BY MessageMoves DEF BaseInv, FlowInv, FlagsOK
<1>2. ASSUME NEW l, Goto("message", l) PROVE pc'["message"] = l
  BY <1>1, <1>2, PcMoved DEF Threads
<1>3. CASE Get
  <2>1. /\ Len(queue) \in Nat \ {0} /\ current' = queue[1] /\ Len(queue') = Len(queue) - 1
        /\ \A i \in 1..(Len(queue) - 1) : queue'[i] = queue[i + 1]
        /\ pc["message"] = "get" /\ pc'["message"] = "check"
    BY <1>3, GetFacts
  <2>2. \A do : ~Out(do, Answering) /\ (Out(do, Answering)' <=> current'.do = do)
    BY <2>1 DEF Out
  <2>3. 1 \in 1..Len(queue) /\ \A i \in 1..Len(queue') : i + 1 \in 1..Len(queue)
    BY <2>1
  <2>4. CASE NumberQueued /\ Len(queue) = 1
    <3>1. current'.do = "number" /\ Len(queue') = 0 /\ parsed' = 0
      BY <1>1, <2>1, <2>4 DEF NumberQueued
    <3> QED BY <2>2, <3>1 DEF Counting, NumberOut
  <2>5. CASE NumberQueued /\ Len(queue) # 1
    <3>1. /\ 1 \in 1..(Len(queue) - 1) /\ Len(queue') \in 1..(Len(queue) - 1)
          /\ Len(queue') + 1 = Len(queue) /\ Len(queue') # 0
          /\ \A i \in 1..(Len(queue') - 1) :
               i \in 1..(Len(queue) - 1) /\ i + 1 \in 1..(Len(queue) - 1)
      BY <2>1, <2>5
    <3>2. queue'[Len(queue')].do = "number" /\ Plain(current)'
      BY <2>1, <2>5, <3>1 DEF NumberQueued, Plain
    <3>3. \A i \in 1..(Len(queue') - 1) : Plain(queue'[i])
      BY <2>1, <2>5, <3>1 DEF NumberQueued
    <3> QED BY <1>1, <2>5, <3>1, <3>2, <3>3 DEF Counting, NumberQueued, Plain
  <2>6. CASE Counted
    <3>1. current'.do = "config" /\ \A i \in 1..Len(queue') : queue'[i].do = "config"
      BY <2>1, <2>3, <2>6 DEF Counted
    <3>2. ~Out("number", Answering)' /\ One("config") = 0 /\ One("config")' = 1
      BY <2>2, <3>1 DEF One
    <3>3. parsed \in Nat /\ Windows(number)' = Windows(number)
      BY <1>1 DEF BaseInv, FlagsOK
    <3>4. parsed' + Len(queue') + One("config")' = Windows(number)'
      BY <1>1, <2>1, <2>6, <3>2, <3>3 DEF Counted
    <3> QED BY <1>1, <2>6, <3>1, <3>2, <3>4 DEF Counting, Counted
  <2>7. CASE NumberOut
    BY <2>2, <2>7 DEF NumberOut
  <2> QED BY <2>4, <2>5, <2>6, <2>7 DEF Counting
<1>4. CASE Check
  <2>1. /\ pc["message"] = "check" /\ pc'["message"] = "send"
        /\ UNCHANGED <<queue, current>>
    BY <1>1, <1>2, <1>4 DEF Check
  <2>2. /\ Out("number", Answering)' <=> Out("number", Answering)
        /\ Out("config", Answering)' <=> Out("config", Answering)
    BY <2>1 DEF Out
  <2> QED BY <1>1, <2>1, <2>2, CountSame
<1>5. CASE Send
  <2>1. /\ pc["message"] = "send" /\ pc'["message"] = "wait" /\ handled' = handled
        /\ UNCHANGED <<queue, current>>
    BY <1>2, <1>5 DEF Send
  <2>2. ~handled /\ pc["worker"] \notin Answering
    BY <1>1, <2>1 DEF BaseInv, FlowInv, Handling, Answering
  <2>3. /\ Out("number", Answering)' <=> Out("number", Answering)
        /\ Out("config", Answering)' <=> Out("config", Answering)
    BY <1>1, <2>1, <2>2 DEF Out
  <2> QED BY <1>1, <2>1, <2>3, CountSame
<1>6. CASE WaitDone
  <2>1. /\ pc["message"] = "wait" /\ pc'["message"] = "get" /\ handled
        /\ queue' = queue /\ current' = NoTelegram
    BY <1>1, <1>2, <1>6 DEF WaitDone
  <2>2. /\ ~Out("number", Answering) /\ ~Out("config", Answering)
        /\ ~Out("number", Answering)' /\ ~Out("config", Answering)'
    BY <2>1 DEF Out
  <2>3. Plain(current)'
    BY <2>1 DEF Plain, NoTelegram, Telegram
  <2> QED BY <1>1, <2>1, <2>2, <2>3, CountSame
<1> QED BY <1>1, <1>3, <1>4, <1>5, <1>6 DEF Message, GetNothing

LEMMA CountStep ==
  ASSUME BaseInv, TraceInv, OnlineInv, AskInv, CountInv, Next
  PROVE  CountInv'
<1> SUFFICES ASSUME Smooth, Smooth', after' = "started"
             PROVE  Counting'
  BY ServerFixed, TroubleStays DEF CountInv
<1>1. CASE AskNumber
  BY <1>1, CountAsked
<1>2. CASE after = "started" /\ ~AskNumber
  <2>1. Counting /\ connected /\ link = "open"
    BY <1>2 DEF CountInv, AskInv, Smooth, Kept
  <2>2. CASE Running(App)
    <3>1. UNCHANGED <<queue, parsed, current, number, handled>>
          /\ pc'["worker"] = pc["worker"] /\ pc'["message"] = pc["message"]
      BY <1>2, <2>2, QueryAsks, AppMoves
    <3>2. /\ Out("number", Answering)' <=> Out("number", Answering)
          /\ Out("config", Answering)' <=> Out("config", Answering)
      BY <3>1 DEF Out
    <3> QED BY <2>1, <3>1, <3>2, CountSame
  <2>3. CASE Running(Connect)
    BY <2>1, <2>3 DEF Running, Connect, BaseInv, FlowInv
  <2>4. CASE Running(Break)
    <3>1. spare["lose"] \in Nat /\ spare'["lose"] = spare["lose"] - 1
      BY <2>4, NumbersAssumption DEF Running, Break, BaseInv, FlagsOK, Spend, Events
    <3> QED BY <3>1 DEF Smooth
  <2>5. CASE Running(Serve)
    <3>1. UNCHANGED <<queue, parsed, current, number, handled, pc>>
      BY <2>5 DEF Running, Serve, server, observer
    <3>2. /\ Out("number", Answering)' <=> Out("number", Answering)
          /\ Out("config", Answering)' <=> Out("config", Answering)
      BY <3>1 DEF Out
    <3> QED BY <2>1, <3>1, <3>2, CountSame
  <2>6. CASE Running(Refuse)
    BY <2>6 DEF Running, Refuse, Smooth
  <2> QED
    BY <2>1, <2>2, <2>3, <2>4, <2>5, <2>6, CountWorker, CountMessage DEF Next
<1>3. CASE after # "started" /\ ~AskNumber
  <2>1. after' = after
    <3>1. CASE Running(App)
      BY <1>3, <3>1, QueryAsks
    <3>2. CASE Running(Worker) \/ Running(Message)
      BY <3>2, WorkerMoves, MessageMoves
    <3> QED
      BY <3>1, <3>2 DEF Next, Running, Connect, Break, Serve, Refuse
  <2> QED BY <1>3, <2>1
<1> QED BY <1>1, <1>2, <1>3

-----------------------------------------------------------------------------
(* Every part of the number is asked for.                                     *)

\* As many windows are asked for as it takes.
LEMMA WindowsCover ==
  ASSUME NEW n \in Nat
  PROVE  Chunk * Windows(n) >= n
<1>1. Chunk \in Nat \ {0}
  BY NumbersAssumption
<1> DEFINE m == n + Chunk - 1
           w == Windows(n)
<1>2. m \in Nat /\ w = m \div Chunk
  BY <1>1 DEF Windows
<1> HIDE DEF m, w
<1>3. w \in Nat /\ m < Chunk * w + Chunk
  BY <1>1, <1>2
<1> QED BY <1>1, <1>3 DEF m, w

QueryListInv == BaseInv /\ TraceInv /\ AskInv /\ CountInv

LEMMA QueryListInvariant == Spec => []QueryListInv
<1>1. Init => AskInv /\ CountInv
  <2> SUFFICES ASSUME Init PROVE AskInv /\ CountInv
    OBVIOUS
  <2>1. /\ pc["app"] = "idle_connected" /\ after = "has_number" /\ Len(queue) = 0
        /\ Plain(current) /\ parsed = 0
    BY DEF Init, Plain, NoTelegram, Telegram
  <2> QED BY <2>1 DEF AskInv, CountInv, Asking
<1>2. AskInv /\ CountInv /\ UNCHANGED vars => AskInv' /\ CountInv'
  BY DEF AskInv, CountInv, Counting, NumberQueued, NumberOut, Counted, One, Out, Queued, Plain,
     Kept, Smooth, vars, exchange, server, observer
<1>3. ClientInv /\ AskInv /\ CountInv /\ [Next]_vars => AskInv' /\ CountInv'
  BY <1>2, AskStep, CountStep DEF ClientInv
<1>4. ClientInv /\ AskInv /\ CountInv => QueryListInv
  BY DEF ClientInv, QueryListInv
<1> QED
  BY <1>1, <1>3, <1>4, ClientInvariant, PTL DEF Spec

\* When QueryParameters::Start is going to return true, the requests that have been
\* answered and parsed, those that are queued and the one that is just taken are at
\* least one for every Chunk of the number of parameters the server answered, as long
\* as the connection has lasted and no request was refused; but for the return
\* between the taking of the telegram for that number and the check that follows it.
\* What the requests ask for is not part of it: each asks for the same window.
THEOREM RequestsCoverTheNumber == Spec => EveryWindowIsAskedFor
<1>1. ASSUME QueryListInv, Next, WaitReturns("started"), Smooth
      PROVE  LET taken == IF pc["message"] = "check" THEN 1 ELSE 0
             IN  \/ taken = 1 /\ current.do = "number"
                 \/ Chunk * (parsed + Len(queue) + taken) >= number
  <2> DEFINE taken == IF pc["message"] = "check" THEN 1 ELSE 0
  <2> USE DEF QueryListInv
  <2>1. /\ pc["app"] = "idle_handled" /\ pc'["app"] = "started" /\ PcOK
        /\ Len(queue) \in Nat
    BY <1>1, LenProperties DEF WaitReturns, BaseInv, TelegramsOK
  <2>2. IdleHandled
    <3>1. Running(App)
      <4>1. Running(Worker) \/ Running(Message) => pc'["app"] = pc["app"]
        BY <1>1, WorkerMoves, MessageMoves
      <4>2. Running(Connect) \/ Running(Break) \/ Running(Serve) \/ Running(Refuse) =>
              pc'["app"] = pc["app"]
        BY <2>1 DEF Running, Connect, Break, Serve, Refuse, PcOK
      <4> QED BY <1>1, <2>1, <4>1, <4>2 DEF Next
    <3> QED
      BY <2>1, <3>1 DEF Running, App, IdleConnected, IdleEmpty, HasNumber, HasConfig,
         AskNumber, Started, ReadList, Move
  <2>3. handled /\ after = "started"
    <3>1. Goto("app", IF handled THEN after ELSE "idle_connected")
      BY <2>2 DEF IdleHandled
    <3>2. pc'["app"] = IF handled THEN after ELSE "idle_connected"
      BY <2>1, <3>1, PcMoved DEF Threads
    <3> QED BY <2>1, <3>2
  <2>4. Counting /\ ~Queued("number")
    BY <1>1, <2>1, <2>3 DEF CountInv, AskInv
  <2>5. pc["message"] # "send"
    BY <1>1, <2>3 DEF BaseInv, FlowInv
  <2>6. ~NumberQueued
    <3>1. Len(queue) # 0 => Len(queue) \in 1..Len(queue)
      BY <2>1
    <3> QED BY <2>4, <3>1 DEF NumberQueued, Queued
  <2>7. CASE NumberOut
    BY <2>3, <2>5, <2>7 DEF NumberOut, Out
  <2>8. CASE Counted
    <3>1. taken = One("config")
      BY <2>3, <2>5, <2>8 DEF Counted, One, Out
    <3>2. number \in Nat /\ parsed + Len(queue) + taken = Windows(number)
      BY <2>8, <3>1 DEF Counted
    <3> QED BY <3>2, WindowsCover
  <2> QED BY <2>4, <2>6, <2>7, <2>8 DEF Counting
<1>2. QueryListInv /\ [Next]_vars =>
        [WaitReturns("started") /\ Smooth =>
           LET taken == IF pc["message"] = "check" THEN 1 ELSE 0
           IN  \/ taken = 1 /\ current.do = "number"
               \/ Chunk * (parsed + Len(queue) + taken) >= number]_vars
  BY <1>1
<1> QED BY <1>2, QueryListInvariant, PTL DEF Spec, EveryWindowIsAskedFor
================================================================================

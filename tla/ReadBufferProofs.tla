---------------------------- MODULE ReadBufferProofs ----------------------------
(***************************************************************************)
(* What holds of a read buffer for everything that a peer may send: reads   *)
(* cut anywhere give the texts of one read (CutAnywhere), and what was sent *)
(* sealed comes out whole (ArrivesWhole).  Both follow from one equation of *)
(* Extract (Turn), and that an interrupted extraction goes on where it      *)
(* stopped (Resumes).                                                       *)
(***************************************************************************)
EXTENDS ReadBuffer, SequenceTheorems, WellFoundedInduction, TLAPS

-----------------------------------------------------------------------------
(* Numbers and sequences *)

\* A set of positions has a first one.
LEMMA First ==
    ASSUME NEW S \in SUBSET Nat, S # {}
    PROVE  Min(S) \in S /\ \A y \in S : Min(S) <= y
<1> DEFINE R == {ss \in Nat \X Nat : ss[1] < ss[2]}
<1>1. OpToRel(<, Nat) = R
  BY Zenon DEF OpToRel
<1>2. IsWellFoundedOn(R, Nat)
  BY <1>1, NatLessThanWellFounded, Zenon
<1> HIDE DEF R
<1>3. PICK x \in S : \A y \in S : ~(<<y, x>> \in R)
  BY <1>2, WFMin
<1>4. \A y \in S : x <= y
  <2>1. ASSUME NEW y \in S PROVE ~(y < x)
    BY <1>3 DEF R
  <2>2. QED
    BY <2>1
<1>5. QED
  BY <1>4 DEF Min

\* What is left behind the first k units.
Behind(units, k) == SubSeq(units, k + 1, Len(units))

LEMMA BehindUnits ==
    ASSUME NEW S, NEW u \in Seq(S), NEW k \in 0..Len(u)
    PROVE  /\ Behind(u, k) \in Seq(S) /\ Len(Behind(u, k)) = Len(u) - k
           /\ \A i \in 1..Len(u) - k : Behind(u, k)[i] = u[k + i]
<1>1. Len(u) \in Nat /\ \A i \in 1..Len(u) : u[i] \in S
  BY LenProperties, ElementOfSeq
<1>2. \A i \in k + 1..Len(u) : u[i] \in S
  BY <1>1
<1>3. k + 1 \in Int /\ Len(u) \in Int
  BY <1>1
<1>4. /\ Behind(u, k) \in Seq(S)
      /\ Len(Behind(u, k)) = IF k + 1 <= Len(u) THEN Len(u) - (k + 1) + 1 ELSE 0
      /\ \A i \in 1..Len(u) - (k + 1) + 1 : Behind(u, k)[i] = u[k + 1 + i - 1]
  BY <1>2, <1>3, SubSeqProperties DEF Behind
<1>5. QED
  BY <1>1, <1>4

LEMMA BehindBehind ==
    ASSUME NEW S, NEW u \in Seq(S), NEW k \in 0..Len(u), NEW i \in 0..Len(u) - k
    PROVE  Behind(Behind(u, k), i) = Behind(u, k + i)
<1>1. Len(u) \in Nat
  BY LenProperties
<1>2. k + i \in 0..Len(u) /\ Len(u) - k \in Nat
  BY <1>1
<1>3. /\ Behind(u, k) \in Seq(S) /\ Len(Behind(u, k)) = Len(u) - k
      /\ \A j \in 1..Len(u) - k : Behind(u, k)[j] = u[k + j]
  BY BehindUnits
<1>4. /\ Behind(Behind(u, k), i) \in Seq(S) /\ Len(Behind(Behind(u, k), i)) = Len(u) - k - i
      /\ \A j \in 1..Len(u) - k - i : Behind(Behind(u, k), i)[j] = Behind(u, k)[i + j]
  BY <1>2, <1>3, BehindUnits
<1>5. /\ Behind(u, k + i) \in Seq(S) /\ Len(Behind(u, k + i)) = Len(u) - (k + i)
      /\ \A j \in 1..Len(u) - (k + i) : Behind(u, k + i)[j] = u[k + i + j]
  BY <1>2, BehindUnits
<1>6. ASSUME NEW j \in 1..Len(u) - k - i
      PROVE  Behind(Behind(u, k), i)[j] = Behind(u, k + i)[j]
  <2>1. i + j \in 1..Len(u) - k /\ j \in 1..Len(u) - (k + i) /\ k + (i + j) = k + i + j
    BY <1>1
  <2>2. QED
    BY <1>3, <1>4, <1>5, <2>1
<1>7. Len(u) - k - i = Len(u) - (k + i)
  BY <1>1
<1>8. QED
  BY <1>4, <1>5, <1>6, <1>7, SeqEqual

LEMMA BehindNothing ==
    ASSUME NEW S, NEW u \in Seq(S)
    PROVE  Behind(u, 0) = u /\ Behind(u, Len(u)) = <<>>
<1>1. Len(u) \in Nat
  BY LenProperties
<1>2. Behind(u, 0) = u
  BY <1>1, SubSeqFull DEF Behind
<1>3. Behind(u, Len(u)) = <<>>
  BY <1>1, SubSeqEmpty DEF Behind
<1>4. QED
  BY <1>2, <1>3

-----------------------------------------------------------------------------
(* One turn of the loop *)

LEMMA FindsBeginning ==
    ASSUME NEW u \in Seq(Units)
    PROVE  LET i == SelectInSeq(u, Begins)
           IN  \/ i = 0 /\ \A j \in 1..Len(u) : ~Begins(u[j])
               \/ /\ i \in 1..Len(u) /\ Begins(u[i])
                  /\ \A j \in 1..Len(u) : Begins(u[j]) => i <= j
<1> DEFINE I == {i \in 1..Len(u) : Begins(u[i])}
<1>1. SelectInSeq(u, Begins) = IF I # {} THEN Min(I) ELSE 0
  BY DEF SelectInSeq
<1>2. I \in SUBSET Nat /\ Len(u) \in Nat
  BY LenProperties
<1>3. CASE I = {}
  BY <1>1, <1>3
<1>4. CASE I # {}
  <2>1. Min(I) \in I /\ \A y \in I : Min(I) <= y
    <3> HIDE DEF I
    <3>1. QED
      BY <1>2, <1>4, First
  <2>2. QED
    BY <1>1, <1>4, <2>1
<1>5. QED
  BY <1>3, <1>4

LEMMA FindsUnit ==
    ASSUME NEW u \in Seq(Units), NEW after \in Nat, NEW tag
    PROVE  LET i == NextUnit(u, after, tag)
           IN  \/ i = 0 /\ \A j \in after + 1..Len(u) : u[j].tag # tag
               \/ /\ i \in after + 1..Len(u) /\ u[i].tag = tag
                  /\ \A j \in after + 1..Len(u) : u[j].tag = tag => i <= j
<1> DEFINE I == {i \in after + 1..Len(u) : u[i].tag = tag}
<1>1. NextUnit(u, after, tag) = IF I # {} THEN Min(I) ELSE 0
  BY DEF NextUnit, SelectInSubSeq
<1>2. I \in SUBSET Nat /\ Len(u) \in Nat
  BY LenProperties
<1>3. CASE I = {}
  BY <1>1, <1>3
<1>4. CASE I # {}
  <2>1. Min(I) \in I /\ \A y \in I : Min(I) <= y
    <3> HIDE DEF I
    <3>1. QED
      BY <1>2, <1>4, First
  <2>2. QED
    BY <1>1, <1>4, <2>1
<1>5. QED
  BY <1>3, <1>4

Start(units) == SelectInSeq(units, Begins)
Text(units) == From(units, Start(units))
LengthAt(text) == NextUnit(text, 1, BodyLength)
EndAt(text) == NextUnit(text, LengthAt(text) + text[LengthAt(text)].val, CheckSum)

\* A text is taken, or what has a bad length is left out; otherwise it waits.
Complete(text) ==
    /\ LengthAt(text) # 0 /\ text[LengthAt(text)].val \in Nat
    /\ EndAt(text) # 0 /\ text[EndAt(text)].val # NoValue
Skips(text) == LengthAt(text) # 0 /\ text[LengthAt(text)].val = NotANumber

LEMMA TextBegins ==
    ASSUME NEW u \in Seq(Units), Start(u) # 0
    PROVE  /\ Start(u) \in 1..Len(u) /\ Begins(u[Start(u)])
           /\ \A j \in 1..Len(u) : Begins(u[j]) => Start(u) <= j
           /\ Text(u) \in Seq(Units) /\ Len(Text(u)) = Len(u) - Start(u) + 1
           /\ Text(u)[1] = [u[Start(u)] EXCEPT !.tag = BeginString]
           /\ \A i \in 1..Len(Text(u)) : i # 1 => Text(u)[i] = u[Start(u) - 1 + i]
           /\ \A i \in 1..Len(Text(u)) : Behind(Text(u), i) = Behind(u, Start(u) - 1 + i)
<1> DEFINE s == Start(u)
           head == [u[s] EXCEPT !.tag = BeginString]
           rest == Behind(u, s)
<1>1. /\ s \in 1..Len(u) /\ Begins(u[s]) /\ Len(u) \in Nat
      /\ \A j \in 1..Len(u) : Begins(u[j]) => s <= j
  BY FindsBeginning, LenProperties DEF Start
<1>2. u[s] \in Units
  BY <1>1, ElementOfSeq
<1>3. head \in Units
  BY <1>2 DEF Units, BeginString
<1>4. /\ rest \in Seq(Units) /\ Len(rest) = Len(u) - s
      /\ \A i \in 1..Len(u) - s : rest[i] = u[s + i]
  <2>1. s \in 0..Len(u)
    BY <1>1
  <2>2. QED
    BY <2>1, BehindUnits
<1>5. Text(u) = <<head>> \o rest
  BY DEF Text, From, Behind
<1> HIDE DEF head, rest, s
<1>6. <<head>> \in Seq(Units) /\ Len(<<head>>) = 1 /\ <<head>>[1] = head
  BY <1>3
<1>7. /\ Text(u) \in Seq(Units) /\ Len(Text(u)) = 1 + (Len(u) - s)
      /\ \A i \in 1..1 + (Len(u) - s) :
            Text(u)[i] = IF i <= 1 THEN <<head>>[i] ELSE rest[i - 1]
  <2>1. /\ <<head>> \o rest \in Seq(Units)
        /\ Len(<<head>> \o rest) = Len(<<head>>) + Len(rest)
        /\ \A i \in 1..Len(<<head>>) + Len(rest) :
              (<<head>> \o rest)[i] = IF i <= Len(<<head>>) THEN <<head>>[i] ELSE rest[i - Len(<<head>>)]
    BY <1>4, <1>6, ConcatProperties
  <2>2. QED
    BY <1>4, <1>5, <1>6, <2>1
<1>8. Len(Text(u)) = Len(u) - s + 1 /\ Text(u)[1] = head
  BY <1>1, <1>6, <1>7
<1>9. ASSUME NEW i \in 1..Len(Text(u)), i # 1 PROVE Text(u)[i] = u[s - 1 + i]
  <2>1. i - 1 \in 1..Len(u) - s /\ s + (i - 1) = s - 1 + i /\ ~(i <= 1)
    BY <1>1, <1>8, <1>9
  <2>2. QED
    BY <1>1, <1>4, <1>7, <1>8, <2>1
<1>10. ASSUME NEW i \in 1..Len(Text(u)) PROVE Behind(Text(u), i) = Behind(u, s - 1 + i)
  <2>1. i \in 0..Len(Text(u)) /\ s - 1 + i \in 0..Len(u)
    BY <1>1, <1>8
  <2>2. /\ Behind(Text(u), i) \in Seq(Units) /\ Len(Behind(Text(u), i)) = Len(Text(u)) - i
        /\ \A j \in 1..Len(Text(u)) - i : Behind(Text(u), i)[j] = Text(u)[i + j]
    <3>1. PICK t \in Seq(Units) : t = Text(u) /\ i \in 0..Len(t)
      BY <1>7, <2>1
    <3>2. /\ Behind(t, i) \in Seq(Units) /\ Len(Behind(t, i)) = Len(t) - i
          /\ \A j \in 1..Len(t) - i : Behind(t, i)[j] = t[i + j]
      BY <3>1, BehindUnits
    <3>3. QED
      BY <3>1, <3>2
  <2>3. /\ Behind(u, s - 1 + i) \in Seq(Units) /\ Len(Behind(u, s - 1 + i)) = Len(u) - (s - 1 + i)
        /\ \A j \in 1..Len(u) - (s - 1 + i) : Behind(u, s - 1 + i)[j] = u[s - 1 + i + j]
    BY <2>1, BehindUnits
  <2>4. Len(Text(u)) - i = Len(u) - (s - 1 + i)
    BY <1>1, <1>8
  <2>5. ASSUME NEW j \in 1..Len(Text(u)) - i
        PROVE  Behind(Text(u), i)[j] = Behind(u, s - 1 + i)[j]
    <3>1. i + j \in 1..Len(Text(u)) /\ i + j # 1 /\ s - 1 + (i + j) = s - 1 + i + j
      BY <1>1, <1>8
    <3>2. Text(u)[i + j] = u[s - 1 + i + j]
      BY <1>9, <3>1
    <3>3. QED
      BY <2>2, <2>3, <2>4, <3>2
  <2>6. QED
    BY <2>2, <2>3, <2>4, <2>5, SeqEqual
<1>11. QED
  BY <1>1, <1>7, <1>8, <1>9, <1>10 DEF head, s

LEMMA LengthFound ==
    ASSUME NEW t \in Seq(Units), LengthAt(t) # 0
    PROVE  /\ LengthAt(t) \in 2..Len(t) /\ t[LengthAt(t)].tag = BodyLength
           /\ \A j \in 2..Len(t) : t[j].tag = BodyLength => LengthAt(t) <= j
           /\ t[LengthAt(t)].val \in Nat \cup {NotANumber, NoValue}
<1>1. /\ LengthAt(t) \in 1 + 1..Len(t) /\ t[LengthAt(t)].tag = BodyLength
      /\ \A j \in 1 + 1..Len(t) : t[j].tag = BodyLength => LengthAt(t) <= j
  BY FindsUnit DEF LengthAt
<1>2. LengthAt(t) \in 1..Len(t)
  BY <1>1
<1>3. t[LengthAt(t)] \in Units
  BY <1>2, ElementOfSeq
<1>4. QED
  BY <1>1, <1>3 DEF Units

LEMMA EndFound ==
    ASSUME NEW t \in Seq(Units), LengthAt(t) # 0, t[LengthAt(t)].val \in Nat, EndAt(t) # 0
    PROVE  LET after == LengthAt(t) + t[LengthAt(t)].val
           IN  /\ EndAt(t) \in after + 1..Len(t) /\ EndAt(t) \in 3..Len(t)
               /\ t[EndAt(t)].tag = CheckSum
               /\ \A j \in after + 1..Len(t) : t[j].tag = CheckSum => EndAt(t) <= j
<1> DEFINE after == LengthAt(t) + t[LengthAt(t)].val
<1>1. after \in Nat /\ after >= 2 /\ Len(t) \in Nat
  BY LengthFound, LenProperties
<1>2. EndAt(t) = NextUnit(t, after, CheckSum)
  BY DEF EndAt
<1> HIDE DEF after
<1>3. /\ EndAt(t) \in after + 1..Len(t) /\ t[EndAt(t)].tag = CheckSum
      /\ \A j \in after + 1..Len(t) : t[j].tag = CheckSum => EndAt(t) <= j
  BY <1>1, <1>2, FindsUnit
<1>4. EndAt(t) \in 3..Len(t)
  BY <1>1, <1>3
<1>5. QED
  BY <1>3, <1>4 DEF after

LEMMA OneTurn ==
    ASSUME NEW u \in Seq(Units), NEW f, NEW k \in 0..Len(u)
    PROVE  LET left == Behind(u, k)
               t == Text(left)
               more(i) == f[k + Start(left) - 1 + i]
           IN  TakeFrom(u, f, k) =
                   IF Start(left) = 0 THEN Got(<<>>, left)
                   ELSE IF Skips(t) THEN more(LengthAt(t))
                   ELSE IF Complete(t)
                        THEN Got(<<SubSeq(t, 1, EndAt(t))>> \o more(EndAt(t)).texts, more(EndAt(t)).rest)
                   ELSE Got(<<>>, t)
<1> DEFINE left == Behind(u, k)
           t == Text(left)
           length == LengthAt(t)
           end == EndAt(t)
           more(i) == f[k + Start(left) - 1 + i]
<1>1. TakeFrom(u, f, k) =
          IF Start(left) = 0 THEN Got(<<>>, left)
          ELSE IF length = 0 THEN Got(<<>>, t)
          ELSE IF t[length].val = NoValue THEN Got(<<>>, t)
          ELSE IF t[length].val = NotANumber THEN more(length)
          ELSE IF end = 0 THEN Got(<<>>, t)
          ELSE IF t[end].val = NoValue THEN Got(<<>>, t)
          ELSE Got(<<SubSeq(t, 1, end)>> \o more(end).texts, more(end).rest)
  BY DEF TakeFrom, Behind, Start, Text, LengthAt, EndAt
<1>2. CASE Start(left) = 0
  BY <1>1, <1>2
<1>3. CASE Start(left) # 0
  <2>1. left \in Seq(Units)
    BY BehindUnits
  <2>2. t \in Seq(Units)
    BY <1>3, <2>1, TextBegins
  <2>3. length # 0 => t[length].val \in Nat \cup {NotANumber, NoValue}
    BY <2>2, LengthFound
  <2>4. Skips(t) <=> length # 0 /\ t[length].val = NotANumber
    BY DEF Skips
  <2>5. Complete(t) <=> length # 0 /\ t[length].val \in Nat /\ end # 0 /\ t[end].val # NoValue
    BY DEF Complete
  <2>6. NoValue # NotANumber /\ NoValue \notin Nat /\ NotANumber \notin Nat
    BY DEF NoValue, NotANumber
  <2> HIDE DEF t, length, end, more, left
  <2>7. QED
    BY <1>1, <1>3, <2>3, <2>4, <2>5, <2>6 DEF t, length, end, more, left
<1>4. QED
  BY <1>2, <1>3

-----------------------------------------------------------------------------
(* What Extract gives *)

\* What the loop takes behind the first k units.
Taken(units) == CHOOSE taken : taken = [k \in 0..Len(units) |-> TakeFrom(units, taken, k)]

LEMMA ExtractTaken ==
    ASSUME NEW u
    PROVE  Extract(u) = Taken(u)[0]
  BY DEF Extract, Taken

\* Where the turns go on is further behind.
LEMMA GoesOn ==
    ASSUME NEW u \in Seq(Units), NEW k \in 0..Len(u), Start(Behind(u, k)) # 0,
           NEW i \in 1..Len(Text(Behind(u, k)))
    PROVE  /\ k + Start(Behind(u, k)) - 1 + i \in k + 1..Len(u)
           /\ Behind(Text(Behind(u, k)), i) = Behind(u, k + Start(Behind(u, k)) - 1 + i)
<1> DEFINE left == Behind(u, k)
           s == Start(left)
<1>1. left \in Seq(Units) /\ Len(left) = Len(u) - k /\ Len(u) \in Nat
  BY BehindUnits, LenProperties
<1>2. /\ s \in 1..Len(left) /\ Len(Text(left)) = Len(left) - s + 1
      /\ Behind(Text(left), i) = Behind(left, s - 1 + i)
  BY <1>1, TextBegins
<1> HIDE DEF s
<1>3. s - 1 + i \in 0..Len(u) - k /\ k + (s - 1 + i) = k + s - 1 + i /\ i >= 1
  BY <1>1, <1>2
<1>4. Behind(left, s - 1 + i) = Behind(u, k + (s - 1 + i))
  BY <1>3, BehindBehind
<1>5. k + s - 1 + i \in k + 1..Len(u)
  BY <1>1, <1>2, <1>3
<1>6. QED
  BY <1>2, <1>3, <1>4, <1>5 DEF s

LEMMA Goes ==
    ASSUME NEW t \in Seq(Units)
    PROVE  /\ Skips(t) => LengthAt(t) \in 1..Len(t)
           /\ Complete(t) => EndAt(t) \in 1..Len(t)
<1>1. LengthAt(t) # 0 => LengthAt(t) \in 2..Len(t)
  BY LengthFound
<1>2. Complete(t) => EndAt(t) \in 3..Len(t)
  BY EndFound DEF Complete
<1>3. QED
  BY <1>1, <1>2 DEF Skips

\* A turn needs no more than what the turns behind it take.
LEMMA TurnsBehind ==
    ASSUME NEW u \in Seq(Units), NEW f, NEW g, NEW k \in 0..Len(u),
           \A j \in k + 1..Len(u) : f[j] = g[j]
    PROVE  TakeFrom(u, f, k) = TakeFrom(u, g, k)
<1> DEFINE left == Behind(u, k)
           t == Text(left)
           place(i) == k + Start(left) - 1 + i
<1>1. CASE Start(left) = 0
  BY <1>1, OneTurn
<1>2. CASE Start(left) # 0
  <2>1. left \in Seq(Units)
    BY BehindUnits
  <2>2. t \in Seq(Units)
    BY <1>2, <2>1, TextBegins
  <2>3. \A i \in 1..Len(t) : f[place(i)] = g[place(i)]
    BY <1>2, GoesOn
  <2>4. /\ Skips(t) => f[place(LengthAt(t))] = g[place(LengthAt(t))]
        /\ Complete(t) => f[place(EndAt(t))] = g[place(EndAt(t))]
    <3> HIDE DEF t, place
    <3>1. QED
      BY <2>2, <2>3, Goes
  <2>5. TakeFrom(u, f, k) =
            IF Skips(t) THEN f[place(LengthAt(t))]
            ELSE IF Complete(t)
                 THEN Got(<<SubSeq(t, 1, EndAt(t))>> \o f[place(EndAt(t))].texts, f[place(EndAt(t))].rest)
            ELSE Got(<<>>, t)
    BY <1>2, OneTurn
  <2>6. TakeFrom(u, g, k) =
            IF Skips(t) THEN g[place(LengthAt(t))]
            ELSE IF Complete(t)
                 THEN Got(<<SubSeq(t, 1, EndAt(t))>> \o g[place(EndAt(t))].texts, g[place(EndAt(t))].rest)
            ELSE Got(<<>>, t)
    BY <1>2, OneTurn
  <2> HIDE DEF t, place
  <2>7. QED
    BY <2>4, <2>5, <2>6
<1>3. QED
  BY <1>1, <1>2

\* The loop ends: from every place on there is something that it takes.
LEMMA TakenExists ==
    ASSUME NEW u \in Seq(Units)
    PROVE  \E f : f = [k \in 0..Len(u) |-> TakeFrom(u, f, k)]
<1> DEFINE n == Len(u)
           Ending(m) == {n - i : i \in 0..m}
           Good(m) == \E f : f = [k \in Ending(m) |-> TakeFrom(u, f, k)]
           Bad == {m \in 0..n : ~Good(m)}
<1>1. n \in Nat
  BY LenProperties
<1>2. ASSUME Bad # {} PROVE FALSE
  <2>1. Bad \in SUBSET Nat
    BY <1>1
  <2>2. PICK m \in Bad : \A i \in Bad : m <= i
    <3> HIDE DEF Bad
    <3>1. QED
      BY <1>2, <2>1, First
  <2>3. m \in 0..n /\ ~Good(m)
    OBVIOUS
  <2> DEFINE k == n - m
  <2>4. k \in 0..n
    BY <1>1, <2>3
  <2>5. PICK f : \A j \in k + 1..n : f[j] = TakeFrom(u, f, j)
    <3>1. CASE m = 0
      <4>1. k + 1..n = {}
        BY <1>1, <3>1
      <4>2. QED
        BY <4>1
    <3>2. CASE m # 0
      <4>1. m - 1 \in 0..n /\ ~(m <= m - 1)
        BY <1>1, <2>3, <3>2
      <4>2. Good(m - 1)
        <5> HIDE DEF Good
        <5>1. QED
          BY <2>2, <4>1
      <4>3. PICK f : f = [j \in Ending(m - 1) |-> TakeFrom(u, f, j)]
        BY <4>2
      <4>4. \A j \in k + 1..n : j \in Ending(m - 1)
        <5> TAKE j \in k + 1..n
        <5>1. n - j \in 0..m - 1 /\ n - (n - j) = j
          BY <1>1, <2>3
        <5>2. QED
          BY <5>1
      <4>5. QED
        <5> HIDE DEF Ending
        <5>1. QED
          BY <4>3, <4>4
    <3>3. QED
      BY <3>1, <3>2
  <2> DEFINE g == [j \in Ending(m) |-> IF j = k THEN TakeFrom(u, f, k) ELSE f[j]]
  <2>6. \A j \in Ending(m) : j \in k..n
    BY <1>1, <2>3
  <2>7. \A j \in k + 1..n : j \in Ending(m) /\ j # k
    <3> TAKE j \in k + 1..n
    <3>1. n - j \in 0..m /\ n - (n - j) = j /\ j # k
      BY <1>1, <2>3
    <3>2. QED
      BY <3>1
  <2>8. \A j \in k + 1..n : g[j] = f[j]
    <3> HIDE DEF k, Ending
    <3>1. QED
      BY <2>7
  <2>9. k \in Ending(m)
    BY <2>3
  <2>10. ASSUME NEW j \in Ending(m) PROVE g[j] = TakeFrom(u, g, j)
    <3>1. j \in 0..n /\ j \in k..n /\ \A i \in j + 1..n : i \in k + 1..n
      BY <1>1, <2>4, <2>6, <2>10
    <3>2. TakeFrom(u, f, j) = TakeFrom(u, g, j)
      <4>1. \A i \in j + 1..n : f[i] = g[i]
        <5> HIDE DEF k, g, n
        <5>1. QED
          BY <2>8, <3>1
      <4> HIDE DEF g
      <4>2. QED
        BY <3>1, <4>1, TurnsBehind
    <3>3. CASE j = k
      <4>1. g[j] = TakeFrom(u, f, k)
        BY <2>10, <3>3
      <4>2. QED
        BY <3>2, <3>3, <4>1
    <3>4. CASE j # k
      <4>1. j \in k + 1..n
        BY <1>1, <2>3, <3>1, <3>4
      <4>2. QED
        <5> HIDE DEF k, g, n
        <5>1. QED
          BY <2>5, <2>8, <3>2, <4>1
    <3>5. QED
      BY <3>3, <3>4
  <2>11. g = [j \in Ending(m) |-> TakeFrom(u, g, j)]
    <3>1. g = [j \in Ending(m) |-> g[j]]
      OBVIOUS
    <3> HIDE DEF g, Ending
    <3>2. QED
      BY <2>10, <3>1
  <2>12. Good(m)
    <3> HIDE DEF g, Ending
    <3>1. QED
      BY <2>11
  <2>13. QED
    BY <2>3, <2>12
<1>3. Good(n)
  <2> HIDE DEF Good
  <2>1. QED
    BY <1>1, <1>2
<1>4. Ending(n) = 0..n
  <2>1. \A j \in 0..n : n - j \in 0..n /\ n - (n - j) = j
    BY <1>1
  <2>2. \A j \in 0..n : j \in Ending(n)
    <3> TAKE j \in 0..n
    <3>1. QED
      BY <2>1
  <2>3. \A j \in Ending(n) : j \in 0..n
    BY <1>1
  <2>4. QED
    BY <2>2, <2>3
<1>5. QED
  <2> HIDE DEF Ending
  <2>1. QED
    BY <1>3, <1>4

LEMMA TakenUnfolds ==
    ASSUME NEW u \in Seq(Units)
    PROVE  \A k \in 0..Len(u) : Taken(u)[k] = TakeFrom(u, Taken(u), k)
<1>1. Taken(u) = [k \in 0..Len(u) |-> TakeFrom(u, Taken(u), k)]
  BY TakenExists, Zenon DEF Taken
<1>2. QED
  BY <1>1, Zenon

\* What is taken behind a place is what is left there says.
LEMMA TakenBehind ==
    ASSUME NEW u \in Seq(Units), NEW d \in 0..Len(u)
    PROVE  Taken(u)[d] = Extract(Behind(u, d))
<1> DEFINE v == Behind(u, d)
           n == Len(v)
           Bad == {m \in 0..n : Taken(v)[n - m] # Taken(u)[d + (n - m)]}
<1>1. v \in Seq(Units) /\ n = Len(u) - d /\ n \in Nat /\ Len(u) \in Nat /\ d \in Nat
  BY BehindUnits, LenProperties
<1>2. ASSUME Bad # {} PROVE FALSE
  <2>1. Bad \in SUBSET Nat
    BY <1>1
  <2>2. PICK m \in Bad : \A i \in Bad : m <= i
    <3> HIDE DEF Bad
    <3>1. QED
      BY <1>2, <2>1, First
  <2>3. PICK k \in 0..n : k = n - m
    <3>1. m \in 0..n
      OBVIOUS
    <3> HIDE DEF n, Bad
    <3>2. n - m \in 0..n
      BY <1>1, <3>1
    <3>3. QED
      BY <3>2
  <2>4. Taken(v)[k] # Taken(u)[d + k]
    BY <2>2, <2>3
  <2>5. \A j \in k + 1..n : Taken(v)[j] = Taken(u)[d + j]
    <3> TAKE j \in k + 1..n
    <3>1. n - j \in 0..n /\ n - (n - j) = j /\ ~(m <= n - j)
      BY <1>1, <2>2, <2>3
    <3>2. n - j \notin Bad
      <4> HIDE DEF Bad
      <4>1. QED
        BY <2>2, <3>1
    <3>3. QED
      BY <3>1, <3>2
  <2> HIDE DEF Bad, n
  <2>6. Behind(v, k) = Behind(u, d + k) /\ d + k \in 0..Len(u)
    <3>1. k \in 0..Len(u) - d /\ d + k \in 0..Len(u)
      BY <1>1
    <3>2. QED
      BY <3>1, BehindBehind
  <2> DEFINE left == Behind(v, k)
             t == Text(left)
             place(i) == k + Start(left) - 1 + i
  <2>7. k \in 0..Len(v)
    BY DEF n
  <2>8. /\ Taken(v)[k] = TakeFrom(v, Taken(v), k)
        /\ Taken(u)[d + k] = TakeFrom(u, Taken(u), d + k)
    BY <1>1, <2>6, <2>7, TakenUnfolds
  <2>9. CASE Start(left) = 0
    <3>1. TakeFrom(v, Taken(v), k) = Got(<<>>, left)
      BY <1>1, <2>7, <2>9, OneTurn
    <3>2. TakeFrom(u, Taken(u), d + k) = Got(<<>>, left)
      BY <2>6, <2>9, OneTurn
    <3>3. QED
      BY <2>4, <2>8, <3>1, <3>2
  <2>10. CASE Start(left) # 0
    <3>1. left \in Seq(Units) /\ Start(left) \in 1..Len(left) /\ t \in Seq(Units)
      BY <1>1, <2>7, <2>10, BehindUnits, TextBegins
    <3>2. \A i \in 1..Len(t) : Taken(v)[place(i)] = Taken(u)[d + k + Start(left) - 1 + i]
      <4> TAKE i \in 1..Len(t)
      <4>1. place(i) \in k + 1..Len(v)
        BY <1>1, <2>7, <2>10, GoesOn
      <4>2. d + place(i) = d + k + Start(left) - 1 + i
        BY <1>1, <3>1
      <4> HIDE DEF place
      <4>3. QED
        BY <2>5, <4>1, <4>2 DEF n
    <3>3. TakeFrom(v, Taken(v), k) =
              IF Skips(t) THEN Taken(v)[place(LengthAt(t))]
              ELSE IF Complete(t)
                   THEN Got(<<SubSeq(t, 1, EndAt(t))>> \o Taken(v)[place(EndAt(t))].texts,
                            Taken(v)[place(EndAt(t))].rest)
              ELSE Got(<<>>, t)
      BY <1>1, <2>7, <2>10, OneTurn
    <3> DEFINE there(i) == d + k + Start(left) - 1 + i
    <3>4. TakeFrom(u, Taken(u), d + k) =
              IF Skips(t) THEN Taken(u)[there(LengthAt(t))]
              ELSE IF Complete(t)
                   THEN Got(<<SubSeq(t, 1, EndAt(t))>> \o Taken(u)[there(EndAt(t))].texts,
                            Taken(u)[there(EndAt(t))].rest)
              ELSE Got(<<>>, t)
      BY <2>6, <2>10, OneTurn
    <3>5. /\ Skips(t) => Taken(v)[place(LengthAt(t))] = Taken(u)[there(LengthAt(t))]
          /\ Complete(t) => Taken(v)[place(EndAt(t))] = Taken(u)[there(EndAt(t))]
      <4>1. \A i \in 1..Len(t) : Taken(v)[place(i)] = Taken(u)[there(i)]
        BY <3>2
      <4> HIDE DEF t, place, there
      <4>2. QED
        BY <3>1, <4>1, Goes
    <3> HIDE DEF t, place, there
    <3>6. QED
      BY <2>4, <2>8, <3>3, <3>4, <3>5
  <2>11. QED
    BY <2>9, <2>10
<1>3. n \in 0..n /\ n - n = 0 /\ d + 0 = d
  BY <1>1
<1>4. Taken(v)[0] = Taken(u)[d]
  <2>1. n \notin Bad
    <3> HIDE DEF Bad, n
    <3>1. QED
      BY <1>2
  <2>2. Taken(v)[n - n] = Taken(u)[d + (n - n)]
    BY <1>3, <2>1
  <2>3. QED
    BY <1>3, <2>2
<1>5. QED
  BY <1>4, ExtractTaken

\* What a read takes: nothing without a beginning, nothing as long as the text waits, or
\* a text and what is taken behind it.
LEMMA Turn ==
    ASSUME NEW u \in Seq(Units)
    PROVE  LET t == Text(u)
               more(i) == Extract(Behind(t, i))
           IN  Extract(u) =
                   IF Start(u) = 0 THEN Got(<<>>, u)
                   ELSE IF Skips(t) THEN more(LengthAt(t))
                   ELSE IF Complete(t)
                        THEN Got(<<SubSeq(t, 1, EndAt(t))>> \o more(EndAt(t)).texts, more(EndAt(t)).rest)
                   ELSE Got(<<>>, t)
<1> DEFINE t == Text(u)
           more(i) == Extract(Behind(t, i))
           place(i) == 0 + Start(u) - 1 + i
<1>1. 0 \in 0..Len(u) /\ Behind(u, 0) = u /\ Len(u) \in Nat
  BY LenProperties, BehindNothing
<1>2. Extract(u) = TakeFrom(u, Taken(u), 0)
  BY <1>1, ExtractTaken, TakenUnfolds
<1>3. TakeFrom(u, Taken(u), 0) =
          IF Start(u) = 0 THEN Got(<<>>, u)
          ELSE IF Skips(t) THEN Taken(u)[place(LengthAt(t))]
          ELSE IF Complete(t)
               THEN Got(<<SubSeq(t, 1, EndAt(t))>> \o Taken(u)[place(EndAt(t))].texts,
                        Taken(u)[place(EndAt(t))].rest)
          ELSE Got(<<>>, t)
  <2>1. LET left == Behind(u, 0) IN TakeFrom(u, Taken(u), 0) =
          IF Start(left) = 0 THEN Got(<<>>, left)
          ELSE IF Skips(Text(left)) THEN Taken(u)[0 + Start(left) - 1 + LengthAt(Text(left))]
          ELSE IF Complete(Text(left))
               THEN Got(<<SubSeq(Text(left), 1, EndAt(Text(left)))>>
                            \o Taken(u)[0 + Start(left) - 1 + EndAt(Text(left))].texts,
                        Taken(u)[0 + Start(left) - 1 + EndAt(Text(left))].rest)
          ELSE Got(<<>>, Text(left))
    BY <1>1, OneTurn
  <2>2. QED
    BY <1>1, <2>1, Zenon
<1>4. CASE Start(u) = 0
  BY <1>2, <1>3, <1>4
<1>5. CASE Start(u) # 0
  <2>1. t \in Seq(Units)
    BY <1>5, TextBegins
  <2>2. \A i \in 1..Len(t) : Taken(u)[place(i)] = more(i)
    <3> TAKE i \in 1..Len(t)
    <3>1. place(i) \in 0 + 1..Len(u) /\ Behind(t, i) = Behind(u, place(i))
      BY <1>1, <1>5, GoesOn
    <3>2. place(i) \in 0..Len(u)
      BY <1>1, <3>1
    <3> HIDE DEF place
    <3>3. QED
      BY <3>1, <3>2, TakenBehind
  <2>3. /\ Skips(t) => Taken(u)[place(LengthAt(t))] = more(LengthAt(t))
        /\ Complete(t) => Taken(u)[place(EndAt(t))] = more(EndAt(t))
    <3> HIDE DEF t, place, more
    <3>1. QED
      BY <2>1, <2>2, Goes
  <2>4. QED
    <3> HIDE DEF t, place, more
    <3>1. Extract(u) =
              IF Skips(t) THEN more(LengthAt(t))
              ELSE IF Complete(t)
                   THEN Got(<<SubSeq(t, 1, EndAt(t))>> \o more(EndAt(t)).texts, more(EndAt(t)).rest)
              ELSE Got(<<>>, t)
      BY <1>2, <1>3, <1>5, <2>3
    <3>2. QED
      BY <1>5, <3>1 DEF t, more
<1>6. QED
  BY <1>4, <1>5

-----------------------------------------------------------------------------
(* Reads of a stream *)

LEMMA GotFields ==
    ASSUME NEW texts, NEW rest
    PROVE  Got(texts, rest).texts = texts /\ Got(texts, rest).rest = rest
  BY DEF Got

LEMMA NothingTaken == Extract(<<>>) = Got(<<>>, <<>>)
<1>1. <<>> \in Seq(Units) /\ Len(<<>>) = 0
  BY EmptySeq
<1>2. Start(<<>>) = 0
  <2>1. Start(<<>>) = 0 \/ Start(<<>>) \in 1..Len(<<>>)
    BY <1>1, FindsBeginning DEF Start
  <2>2. 1..Len(<<>>) = {}
    BY <1>1
  <2>3. QED
    BY <2>1, <2>2
<1>3. QED
  BY <1>1, <1>2, Turn

\* Every turn leaves less, so what holds of what is left behind a text, and of what waits,
\* holds of everything.
LEMMA Shortest ==
    ASSUME NEW Bad \in SUBSET Seq(Units), Bad # {}
    PROVE  \E u \in Bad : \A v \in Bad : Len(u) <= Len(v)
<1> DEFINE Lens == {Len(u) : u \in Bad}
<1>1. Lens \in SUBSET Nat /\ Lens # {}
  BY LenProperties
<1>2. Min(Lens) \in Lens /\ \A n \in Lens : Min(Lens) <= n
  <2> HIDE DEF Lens
  <2>1. QED
    BY <1>1, First
<1>3. PICK u \in Bad : Len(u) = Min(Lens)
  BY <1>2
<1>4. \A v \in Bad : Len(v) \in Lens
  OBVIOUS
<1>5. QED
  <2> HIDE DEF Lens
  <2>1. QED
    BY <1>2, <1>3, <1>4

\* What is left behind a text or a bad length is shorter than what there was.
LEMMA Shorter ==
    ASSUME NEW u \in Seq(Units), Start(u) # 0, NEW i \in 1..Len(Text(u))
    PROVE  Behind(Text(u), i) \in Seq(Units) /\ Len(Behind(Text(u), i)) < Len(u)
<1>1. /\ Text(u) \in Seq(Units) /\ Len(Text(u)) = Len(u) - Start(u) + 1
      /\ Start(u) \in 1..Len(u) /\ Len(u) \in Nat
  BY TextBegins, LenProperties
<1>2. i \in 0..Len(Text(u))
  BY <1>1
<1>3. Behind(Text(u), i) \in Seq(Units) /\ Len(Behind(Text(u), i)) = Len(Text(u)) - i
  BY <1>1, <1>2, BehindUnits
<1>4. QED
  BY <1>1, <1>3

LEMMA ExtractType ==
    ASSUME NEW u \in Seq(Units)
    PROVE  Extract(u) \in [texts: Seq(Seq(Units)), rest: Seq(Units)]
<1> DEFINE R == [texts: Seq(Seq(Units)), rest: Seq(Units)]
           Bad == {v \in Seq(Units) : Extract(v) \notin R}
<1>1. \A s \in Seq(Units) : Got(<<>>, s) \in R
  BY DEF Got
<1>2. ASSUME NEW v \in Bad, \A w \in Bad : Len(v) <= Len(w) PROVE FALSE
  <2> DEFINE t == Text(v)
  <2>1. v \in Seq(Units) /\ Extract(v) \notin R /\ Len(v) \in Nat
    BY LenProperties
  <2>2. CASE Start(v) = 0
    BY <1>1, <2>1, <2>2, Turn
  <2>3. CASE Start(v) # 0
    <3>1. t \in Seq(Units) /\ Len(t) \in Nat
      BY <2>1, <2>3, TextBegins, LenProperties
    <3>2. ASSUME NEW i \in 1..Len(t) PROVE Extract(Behind(t, i)) \in R
      <4>1. Behind(t, i) \in Seq(Units) /\ Len(Behind(t, i)) < Len(v)
        BY <2>1, <2>3, Shorter
      <4>2. Behind(t, i) \notin Bad
        <5>1. Len(Behind(t, i)) \in Nat
          BY <4>1, LenProperties
        <5> HIDE DEF Bad, t
        <5>2. QED
          BY <1>2, <2>1, <4>1, <5>1
      <4>3. QED
        BY <4>1, <4>2
    <3>3. Extract(v) =
              IF Skips(t) THEN Extract(Behind(t, LengthAt(t)))
              ELSE IF Complete(t)
                   THEN Got(<<SubSeq(t, 1, EndAt(t))>> \o Extract(Behind(t, EndAt(t))).texts,
                            Extract(Behind(t, EndAt(t))).rest)
              ELSE Got(<<>>, t)
      BY <2>1, <2>3, Turn
    <3> HIDE DEF t, R, Bad
    <3>4. CASE Skips(t)
      BY <2>1, <3>1, <3>2, <3>3, <3>4, Goes
    <3>5. CASE ~Skips(t) /\ Complete(t)
      <4>1. EndAt(t) \in 1..Len(t)
        BY <3>1, <3>5, Goes
      <4>2. Extract(Behind(t, EndAt(t))) \in R
        BY <3>2, <4>1
      <4>3. SubSeq(t, 1, EndAt(t)) \in Seq(Units)
        BY <3>1, <4>1
      <4>4. <<SubSeq(t, 1, EndAt(t))>> \o Extract(Behind(t, EndAt(t))).texts \in Seq(Seq(Units))
        <5>1. <<SubSeq(t, 1, EndAt(t))>> \in Seq(Seq(Units))
          BY <4>3
        <5>2. Extract(Behind(t, EndAt(t))).texts \in Seq(Seq(Units))
          BY <4>2 DEF R
        <5>3. QED
          BY <5>1, <5>2, ConcatProperties
      <4>5. QED
        BY <2>1, <3>3, <3>5, <4>2, <4>4 DEF Got, R
    <3>6. CASE ~Skips(t) /\ ~Complete(t)
      BY <1>1, <2>1, <3>1, <3>3, <3>6
    <3>7. QED
      BY <3>4, <3>5, <3>6
  <2>4. QED
    BY <2>2, <2>3
<1>3. Bad = {}
  <2>1. Bad \in SUBSET Seq(Units)
    OBVIOUS
  <2> HIDE DEF Bad
  <2>2. QED
    BY <1>2, <2>1, Shortest
<1>4. QED
  BY <1>3

\* What waits from its beginning on gives what the whole gave: what stands before the
\* beginning is of no use.
LEMMA FromBeginning ==
    ASSUME NEW u \in Seq(Units), Start(u) # 0
    PROVE  Start(Text(u)) = 1 /\ Text(Text(u)) = Text(u) /\ Extract(Text(u)) = Extract(u)
<1> DEFINE t == Text(u)
<1>1. /\ t \in Seq(Units) /\ Len(t) = Len(u) - Start(u) + 1 /\ Start(u) \in 1..Len(u)
      /\ t[1] = [u[Start(u)] EXCEPT !.tag = BeginString] /\ Len(u) \in Nat
  BY TextBegins, LenProperties
<1>2. 1 \in 1..Len(t) /\ Start(u) \in DOMAIN u
  BY <1>1
<1>3. u[Start(u)] \in Units
  BY <1>1, ElementOfSeq
<1>4. t[1].tag = BeginString /\ t[1] \in Units
  BY <1>1, <1>3 DEF Units, BeginString
<1>5. Begins(t[1])
  BY <1>4 DEF Begins, BeginString
<1> HIDE DEF t
<1>6. Start(t) = 1
  <2>1. \/ Start(t) = 0 /\ \A j \in 1..Len(t) : ~Begins(t[j])
        \/ Start(t) \in 1..Len(t) /\ \A j \in 1..Len(t) : Begins(t[j]) => Start(t) <= j
    BY <1>1, FindsBeginning DEF Start
  <2>2. Start(t) \in 1..Len(t) /\ Start(t) <= 1
    BY <1>2, <1>5, <2>1
  <2>3. QED
    BY <2>2
<1>7. Text(t) = t
  <2>0. /\ Text(t) \in Seq(Units) /\ Len(Text(t)) = Len(t) - Start(t) + 1
        /\ Text(t)[1] = [t[Start(t)] EXCEPT !.tag = BeginString]
        /\ \A i \in 1..Len(Text(t)) : i # 1 => Text(t)[i] = t[Start(t) - 1 + i]
    <3>1. Start(t) # 0
      BY <1>6
    <3>2. QED
      BY <1>1, <3>1, TextBegins
  <2>1. /\ Text(t) \in Seq(Units) /\ Len(Text(t)) = Len(t) - 1 + 1
        /\ Text(t)[1] = [t[1] EXCEPT !.tag = BeginString]
        /\ \A i \in 1..Len(Text(t)) : i # 1 => Text(t)[i] = t[1 - 1 + i]
    BY <1>6, <2>0
  <2>2. [t[1] EXCEPT !.tag = BeginString] = t[1]
    BY <1>4 DEF Units
  <2>3. Len(Text(t)) = Len(t) /\ Len(t) \in Nat
    BY <1>1, <2>1
  <2>4. ASSUME NEW i \in 1..Len(Text(t)) PROVE Text(t)[i] = t[i]
    <3>1. CASE i = 1
      BY <2>1, <2>2, <3>1
    <3>2. CASE i # 1
      <4>1. 1 - 1 + i = i
        BY <2>3
      <4>2. QED
        BY <2>1, <3>2, <4>1
    <3>3. QED
      BY <3>1, <3>2
  <2>5. QED
    BY <1>1, <2>1, <2>3, <2>4, SeqEqual
<1>8. Extract(t) = IF Skips(t) THEN Extract(Behind(t, LengthAt(t)))
                   ELSE IF Complete(t)
                        THEN Got(<<SubSeq(t, 1, EndAt(t))>> \o Extract(Behind(t, EndAt(t))).texts,
                                 Extract(Behind(t, EndAt(t))).rest)
                   ELSE Got(<<>>, t)
  BY <1>1, <1>6, <1>7, Turn
<1>9. Extract(u) = IF Skips(t) THEN Extract(Behind(t, LengthAt(t)))
                   ELSE IF Complete(t)
                        THEN Got(<<SubSeq(t, 1, EndAt(t))>> \o Extract(Behind(t, EndAt(t))).texts,
                                 Extract(Behind(t, EndAt(t))).rest)
                   ELSE Got(<<>>, t)
  BY Turn DEF t
<1>10. QED
  BY <1>6, <1>7, <1>8, <1>9 DEF t

LEMMA Joined ==
    ASSUME NEW s \in Seq(Units), NEW t \in Seq(Units)
    PROVE  /\ s \o t \in Seq(Units) /\ Len(s \o t) = Len(s) + Len(t)
           /\ \A i \in 1..Len(s) + Len(t) : (s \o t)[i] = IF i <= Len(s) THEN s[i] ELSE t[i - Len(s)]
  BY ConcatProperties

\* More of the stream does not change what was found.
LEMMA BeginsSame ==
    ASSUME NEW a \in Seq(Units), NEW b \in Seq(Units), Start(a) # 0
    PROVE  Start(a \o b) = Start(a) /\ Text(a \o b) = Text(a) \o b
<1> DEFINE c == a \o b
           s == Start(a)
<1>1. /\ c \in Seq(Units) /\ Len(c) = Len(a) + Len(b)
      /\ \A i \in 1..Len(a) + Len(b) : c[i] = IF i <= Len(a) THEN a[i] ELSE b[i - Len(a)]
  BY ConcatProperties
<1>2. Len(a) \in Nat /\ Len(b) \in Nat
  BY LenProperties
<1>3. s \in 1..Len(a) /\ Begins(a[s]) /\ \A j \in 1..Len(a) : Begins(a[j]) => s <= j
  BY TextBegins
<1>4. /\ Text(a) \in Seq(Units) /\ Len(Text(a)) = Len(a) - s + 1
      /\ Text(a)[1] = [a[s] EXCEPT !.tag = BeginString]
      /\ \A i \in 1..Len(Text(a)) : i # 1 => Text(a)[i] = a[s - 1 + i]
  BY TextBegins
<1> HIDE DEF c, s
<1>5. Start(c) = s
  <2>1. \/ Start(c) = 0 /\ \A j \in 1..Len(c) : ~Begins(c[j])
        \/ /\ Start(c) \in 1..Len(c) /\ Begins(c[Start(c)])
           /\ \A j \in 1..Len(c) : Begins(c[j]) => Start(c) <= j
    BY <1>1, FindsBeginning DEF Start
  <2>2. s \in 1..Len(c) /\ c[s] = a[s]
    BY <1>1, <1>2, <1>3
  <2>3. /\ Start(c) \in 1..Len(c) /\ Begins(c[Start(c)]) /\ Start(c) <= s
    BY <1>3, <2>1, <2>2
  <2>4. Start(c) \in 1..Len(a) /\ c[Start(c)] = a[Start(c)]
    BY <1>1, <1>2, <1>3, <2>3
  <2>5. s <= Start(c)
    BY <1>3, <2>3, <2>4
  <2>6. QED
    BY <1>3, <2>3, <2>5
<1>6. /\ Text(c) \in Seq(Units) /\ Len(Text(c)) = Len(c) - s + 1
      /\ Text(c)[1] = [c[s] EXCEPT !.tag = BeginString]
      /\ \A i \in 1..Len(Text(c)) : i # 1 => Text(c)[i] = c[s - 1 + i]
  <2>1. Start(c) # 0
    BY <1>3, <1>5
  <2>2. /\ Text(c) \in Seq(Units) /\ Len(Text(c)) = Len(c) - Start(c) + 1
        /\ Text(c)[1] = [c[Start(c)] EXCEPT !.tag = BeginString]
        /\ \A i \in 1..Len(Text(c)) : i # 1 => Text(c)[i] = c[Start(c) - 1 + i]
    BY <1>1, <2>1, TextBegins
  <2>3. QED
    BY <1>5, <2>2
<1>7. /\ Text(a) \o b \in Seq(Units) /\ Len(Text(a) \o b) = Len(Text(a)) + Len(b)
      /\ \A i \in 1..Len(Text(a)) + Len(b) :
            (Text(a) \o b)[i] = IF i <= Len(Text(a)) THEN Text(a)[i] ELSE b[i - Len(Text(a))]
  BY <1>4, Joined, Zenon
<1>8. Len(Text(c)) = Len(Text(a) \o b) /\ Len(Text(c)) = Len(a) - s + 1 + Len(b)
  BY <1>1, <1>2, <1>3, <1>4, <1>6, <1>7
<1>9. ASSUME NEW i \in 1..Len(Text(c)) PROVE Text(c)[i] = (Text(a) \o b)[i]
  <2>1. i \in 1..Len(Text(a)) + Len(b) /\ 1 <= Len(Text(a)) /\ i \in Nat
    BY <1>2, <1>3, <1>4, <1>8
  <2>2. CASE i = 1
    <3>1. c[s] = a[s]
      BY <1>1, <1>2, <1>3
    <3>2. /\ Text(c)[1] = [c[s] EXCEPT !.tag = BeginString]
          /\ Text(a)[1] = [a[s] EXCEPT !.tag = BeginString]
      BY <1>4, <1>6
    <3>3. Text(c)[1] = Text(a)[1]
      BY <3>1, <3>2
    <3>4. (Text(a) \o b)[i] = Text(a)[i]
      BY <1>7, <2>1, <2>2
    <3>5. QED
      BY <2>2, <3>3, <3>4
  <2>3. CASE i # 1 /\ i <= Len(Text(a))
    <3>1. s - 1 + i \in 1..Len(a) + Len(b) /\ s - 1 + i <= Len(a) /\ i \in 1..Len(Text(a))
      <4>1. PICK m \in Nat, n \in Nat, t \in Int : m = Len(a) /\ n = Len(b) /\ t = Len(Text(a))
        BY <1>2, <1>3, <1>4
      <4>2. s \in 1..m /\ t = m - s + 1 /\ i \in Nat /\ i >= 1 /\ i <= t
        BY <1>3, <1>4, <2>1, <2>3, <4>1
      <4>3. QED
        BY <4>1, <4>2
    <3>2. Text(c)[i] = c[s - 1 + i] /\ Text(a)[i] = a[s - 1 + i]
      BY <1>4, <1>6, <2>3, <3>1
    <3>3. c[s - 1 + i] = a[s - 1 + i]
      <4>1. PICK k : k = s - 1 + i
        OBVIOUS
      <4>2. c[k] = a[k]
        BY <1>1, <3>1, <4>1
      <4>3. QED
        BY <4>1, <4>2
    <3>4. (Text(a) \o b)[i] = Text(a)[i]
      BY <1>7, <2>1, <2>3
    <3>5. QED
      BY <3>2, <3>3, <3>4
  <2>4. CASE i # 1 /\ ~(i <= Len(Text(a)))
    <3>1. /\ s - 1 + i \in 1..Len(a) + Len(b) /\ ~(s - 1 + i <= Len(a))
          /\ s - 1 + i - Len(a) = i - Len(Text(a))
      <4>1. PICK m \in Nat, n \in Nat, t \in Int : m = Len(a) /\ n = Len(b) /\ t = Len(Text(a))
        BY <1>2, <1>3, <1>4
      <4>2. s \in 1..m /\ t = m - s + 1 /\ i \in Nat /\ i > t /\ i <= t + n
        BY <1>3, <1>4, <2>1, <2>4, <4>1
      <4>3. QED
        BY <4>1, <4>2
    <3>2. PICK k : k = s - 1 + i
      OBVIOUS
    <3>3. /\ k \in 1..Len(a) + Len(b) /\ ~(k <= Len(a))
          /\ k - Len(a) = i - Len(Text(a))
      BY <1>2, <1>3, <2>1, <3>1, <3>2
    <3>4. c[s - 1 + i] = b[i - Len(Text(a))]
      <4>1. c[k] = b[k - Len(a)]
        BY <1>1, <3>3
      <4>2. QED
        BY <3>2, <3>3, <4>1
    <3>5. QED
      BY <1>6, <1>7, <2>1, <2>4, <3>4
  <2>5. QED
    BY <2>2, <2>3, <2>4
<1>10. Text(c) = Text(a) \o b
  BY <1>6, <1>7, <1>8, <1>9, SeqEqual
<1>11. QED
  BY <1>5, <1>10 DEF c, s

LEMMA UnitSame ==
    ASSUME NEW t \in Seq(Units), NEW b \in Seq(Units), NEW after \in Nat, NEW tag,
           NextUnit(t, after, tag) # 0
    PROVE  /\ NextUnit(t \o b, after, tag) = NextUnit(t, after, tag)
           /\ (t \o b)[NextUnit(t, after, tag)] = t[NextUnit(t, after, tag)]
<1> DEFINE c == t \o b
           i == NextUnit(t, after, tag)
           k == NextUnit(c, after, tag)
<1>1. /\ c \in Seq(Units) /\ Len(c) = Len(t) + Len(b)
      /\ \A j \in 1..Len(t) + Len(b) : c[j] = IF j <= Len(t) THEN t[j] ELSE b[j - Len(t)]
  BY ConcatProperties
<1>2. Len(t) \in Nat /\ Len(b) \in Nat
  BY LenProperties
<1>3. /\ i \in after + 1..Len(t) /\ t[i].tag = tag
      /\ \A j \in after + 1..Len(t) : t[j].tag = tag => i <= j
  BY FindsUnit
<1> HIDE DEF c
<1>4. \/ k = 0 /\ \A j \in after + 1..Len(c) : c[j].tag # tag
      \/ /\ k \in after + 1..Len(c) /\ c[k].tag = tag
         /\ \A j \in after + 1..Len(c) : c[j].tag = tag => k <= j
  BY <1>1, FindsUnit
<1> HIDE DEF i, k
<1>5. i \in after + 1..Len(c) /\ c[i] = t[i]
  BY <1>1, <1>2, <1>3
<1>6. k \in after + 1..Len(c) /\ c[k].tag = tag /\ k <= i
  BY <1>3, <1>4, <1>5
<1>7. k \in after + 1..Len(t) /\ c[k] = t[k]
  BY <1>1, <1>2, <1>3, <1>6
<1>8. i <= k
  BY <1>3, <1>6, <1>7
<1>9. i = k
  BY <1>3, <1>6, <1>8
<1>10. QED
  BY <1>5, <1>9 DEF i, k, c

LEMMA PartsSame ==
    ASSUME NEW t \in Seq(Units), NEW b \in Seq(Units), NEW i \in 1..Len(t)
    PROVE  /\ SubSeq(t \o b, 1, i) = SubSeq(t, 1, i)
           /\ Behind(t \o b, i) = Behind(t, i) \o b
<1> DEFINE c == t \o b
<1>1. /\ c \in Seq(Units) /\ Len(c) = Len(t) + Len(b)
      /\ \A j \in 1..Len(t) + Len(b) : c[j] = IF j <= Len(t) THEN t[j] ELSE b[j - Len(t)]
  BY ConcatProperties
<1>2. Len(t) \in Nat /\ Len(b) \in Nat
  BY LenProperties
<1>3. SubSeq(c, 1, i) = SubSeq(t, 1, i)
  <2>1. 1 \in 1..Len(t)
    BY <1>2
  <2>2. QED
    BY <2>1, SubSeqOfConcat1
<1> HIDE DEF c
<1>4. /\ Behind(c, i) \in Seq(Units) /\ Len(Behind(c, i)) = Len(c) - i
      /\ \A j \in 1..Len(c) - i : Behind(c, i)[j] = c[i + j]
  <2>1. i \in 0..Len(c)
    BY <1>1, <1>2
  <2>2. QED
    BY <1>1, <2>1, BehindUnits
<1>5. /\ Behind(t, i) \in Seq(Units) /\ Len(Behind(t, i)) = Len(t) - i
      /\ \A j \in 1..Len(t) - i : Behind(t, i)[j] = t[i + j]
  <2>1. i \in 0..Len(t)
    BY <1>2
  <2>2. QED
    BY <2>1, BehindUnits
<1>6. /\ Behind(t, i) \o b \in Seq(Units) /\ Len(Behind(t, i) \o b) = Len(t) - i + Len(b)
      /\ \A j \in 1..Len(t) - i + Len(b) :
            (Behind(t, i) \o b)[j] = IF j <= Len(t) - i THEN Behind(t, i)[j] ELSE b[j - (Len(t) - i)]
  <2>1. /\ Behind(t, i) \o b \in Seq(Units) /\ Len(Behind(t, i) \o b) = Len(Behind(t, i)) + Len(b)
        /\ \A j \in 1..Len(Behind(t, i)) + Len(b) :
              (Behind(t, i) \o b)[j] = IF j <= Len(Behind(t, i)) THEN Behind(t, i)[j]
                                       ELSE b[j - Len(Behind(t, i))]
    BY <1>5, Joined, Zenon
  <2>2. Len(Behind(t, i)) = Len(t) - i
    BY <1>5
  <2>3. QED
    BY <2>1, <2>2, Zenon
<1>7. Len(Behind(c, i)) = Len(Behind(t, i) \o b)
  BY <1>1, <1>2, <1>4, <1>6
<1>8. ASSUME NEW j \in 1..Len(Behind(c, i)) PROVE Behind(c, i)[j] = (Behind(t, i) \o b)[j]
  <2>1. /\ j \in 1..Len(t) - i + Len(b) /\ i + j \in 1..Len(t) + Len(b)
        /\ j <= Len(t) - i <=> i + j <= Len(t)
        /\ j - (Len(t) - i) = i + j - Len(t) /\ j >= 1 /\ j \in 1..Len(c) - i
    BY <1>1, <1>2, <1>4
  <2>2. CASE j <= Len(t) - i
    BY <1>1, <1>4, <1>5, <1>6, <2>1, <2>2
  <2>3. CASE ~(j <= Len(t) - i)
    <3>1. c[i + j] = b[j - (Len(t) - i)]
      BY <1>1, <2>1, <2>3
    <3>2. QED
      BY <1>4, <1>6, <2>1, <2>3, <3>1
  <2>4. QED
    BY <2>2, <2>3
<1>9. Behind(c, i) = Behind(t, i) \o b
  BY <1>4, <1>6, <1>7, <1>8, SeqEqual
<1>10. QED
  BY <1>3, <1>9 DEF c

LEMMA TextSame ==
    ASSUME NEW t \in Seq(Units), NEW b \in Seq(Units)
    PROVE  /\ Skips(t) => Skips(t \o b) /\ LengthAt(t \o b) = LengthAt(t)
           /\ Complete(t) => /\ Complete(t \o b) /\ ~Skips(t \o b)
                             /\ EndAt(t \o b) = EndAt(t)
<1> DEFINE c == t \o b
<1>1. ASSUME LengthAt(t) # 0
      PROVE  LengthAt(c) = LengthAt(t) /\ c[LengthAt(c)] = t[LengthAt(t)]
  <2>1. NextUnit(t, 1, BodyLength) # 0 /\ 1 \in Nat
    BY <1>1 DEF LengthAt
  <2>2. /\ NextUnit(t \o b, 1, BodyLength) = NextUnit(t, 1, BodyLength)
        /\ (t \o b)[NextUnit(t, 1, BodyLength)] = t[NextUnit(t, 1, BodyLength)]
    BY <2>1, UnitSame, Zenon
  <2>3. QED
    BY <2>2, Zenon DEF LengthAt
<1> HIDE DEF c
<1>2. CASE Skips(t)
  <2>1. Skips(c) /\ LengthAt(c) = LengthAt(t)
    BY <1>1, <1>2 DEF Skips
  <2>2. ~Complete(t)
    BY <1>2 DEF Skips, Complete, NotANumber
  <2>3. QED
    BY <2>1, <2>2 DEF c
<1>3. CASE Complete(t)
  <2>1. LengthAt(t) # 0 /\ t[LengthAt(t)].val \in Nat /\ EndAt(t) # 0 /\ t[EndAt(t)].val # NoValue
    BY <1>3 DEF Complete
  <2> DEFINE after == LengthAt(t) + t[LengthAt(t)].val
  <2>2. after \in Nat
    <3>1. LengthAt(t) \in 2..Len(t) /\ Len(t) \in Nat
      BY <2>1, LengthFound, LenProperties
    <3>2. QED
      BY <2>1, <3>1
  <2>3. LengthAt(c) = LengthAt(t) /\ c[LengthAt(c)] = t[LengthAt(t)]
    BY <1>1, <2>1
  <2>4. EndAt(t) = NextUnit(t, after, CheckSum) /\ EndAt(c) = NextUnit(c, after, CheckSum)
    BY <2>3 DEF EndAt
  <2> HIDE DEF after
  <2>5. EndAt(c) = EndAt(t) /\ c[EndAt(c)] = t[EndAt(t)]
    <3>1. NextUnit(t, after, CheckSum) # 0
      BY <2>1, <2>4
    <3>2. /\ NextUnit(t \o b, after, CheckSum) = NextUnit(t, after, CheckSum)
          /\ (t \o b)[NextUnit(t, after, CheckSum)] = t[NextUnit(t, after, CheckSum)]
      BY <2>2, <3>1, UnitSame, Zenon
    <3>3. QED
      BY <2>4, <3>2, Zenon DEF c
  <2>6. Complete(c) /\ ~Skips(c)
    BY <2>1, <2>3, <2>5 DEF Complete, Skips, NotANumber
  <2>7. ~Skips(t)
    BY <2>1 DEF Skips, NotANumber
  <2>8. QED
    BY <2>5, <2>6, <2>7 DEF c
<1>4. CASE ~Skips(t) /\ ~Complete(t)
  BY <1>4
<1>5. QED
  BY <1>2, <1>3, <1>4

LEMMA Grouped ==
    ASSUME NEW p \in Seq(Seq(Units)), NEW q \in Seq(Seq(Units)), NEW r \in Seq(Seq(Units))
    PROVE  (p \o q) \o r = p \o (q \o r)
<1>1. PICK T : T = Seq(Units)
  OBVIOUS
<1>2. p \in Seq(T) /\ q \in Seq(T) /\ r \in Seq(T)
  BY <1>1
<1>3. QED
  BY <1>2, ConcatAssociative

\* A read that is interrupted goes on where it stopped: what comes out of a stream, and
\* what waits for more of it, does not depend on where the stream is cut.
THEOREM Resumes ==
    ASSUME NEW a \in Seq(Units), NEW b \in Seq(Units)
    PROVE  LET first == Extract(a)
               second == Extract(first.rest \o b)
           IN  Extract(a \o b) = Got(first.texts \o second.texts, second.rest)
<1> DEFINE Both(u) == Got(Extract(u).texts \o Extract(Extract(u).rest \o b).texts,
                          Extract(Extract(u).rest \o b).rest)
           Bad == {u \in Seq(Units) : Extract(u \o b) # Both(u)}
<1>1. ASSUME NEW u \in Seq(Units), Extract(u).texts = <<>>,
             Extract(u \o b) = Extract(Extract(u).rest \o b)
      PROVE  Extract(u \o b) = Both(u)
  <2>1. Extract(u).rest \o b \in Seq(Units)
    BY ExtractType, ConcatProperties
  <2>2. Extract(Extract(u).rest \o b) \in [texts: Seq(Seq(Units)), rest: Seq(Units)]
    BY <2>1, ExtractType
  <2> DEFINE x == Extract(Extract(u).rest \o b)
  <2>3. <<>> \o x.texts = x.texts /\ x = [texts |-> x.texts, rest |-> x.rest]
    <3> HIDE DEF x
    <3>1. x \in [texts: Seq(Seq(Units)), rest: Seq(Units)]
      BY <2>2 DEF x
    <3>2. x.texts \in Seq(Seq(Units))
      BY <3>1
    <3>3. QED
      BY <3>1, <3>2, ConcatEmptySeq
  <2>4. Both(u) = x
    <3>1. Both(u) = Got(<<>> \o x.texts, x.rest)
      BY <1>1
    <3> HIDE DEF x, Both
    <3>2. QED
      BY <2>3, <3>1 DEF Got
  <2>5. QED
    BY <1>1, <2>4
<1>2. ASSUME NEW u \in Bad, \A w \in Bad : Len(u) <= Len(w) PROVE FALSE
  <2> DEFINE t == Text(u)
  <2>1. u \in Seq(Units) /\ Extract(u \o b) # Both(u) /\ Len(u) \in Nat
    BY LenProperties
  <2>2. CASE Start(u) = 0
    <3>1. Extract(u) = Got(<<>>, u)
      BY <2>1, <2>2, Turn
    <3>2. Extract(u).texts = <<>> /\ Extract(u).rest = u
      BY <3>1 DEF Got
    <3> HIDE DEF Both
    <3>3. QED
      BY <1>1, <2>1, <3>2
  <2>3. CASE Start(u) # 0
    <3>1. t \in Seq(Units) /\ Len(t) \in Nat
      BY <2>1, <2>3, TextBegins, LenProperties
    <3>2. Start(u \o b) # 0 /\ Text(u \o b) = t \o b
      BY <2>1, <2>3, BeginsSame
    <3>3. u \o b \in Seq(Units) /\ t \o b \in Seq(Units)
      BY <2>1, <3>1, Joined, Zenon
    <3>4. ASSUME NEW i \in 1..Len(t)
          PROVE  Extract(Behind(t, i) \o b) = Both(Behind(t, i))
      <4>1. Behind(t, i) \in Seq(Units) /\ Len(Behind(t, i)) < Len(u)
        BY <2>1, <2>3, Shorter
      <4>2. Len(Behind(t, i)) \in Nat
        BY <4>1, LenProperties
      <4>3. ~(Len(u) <= Len(Behind(t, i)))
        <5> HIDE DEF t
        <5>1. QED
          BY <2>1, <4>1, <4>2
      <4>4. Behind(t, i) \notin Bad
        <5> HIDE DEF Bad, t
        <5>1. QED
          BY <1>2, <4>3
      <4>5. QED
        <5> HIDE DEF Both, t
        <5>1. QED
          BY <4>1, <4>4
    <3>5. Extract(u) =
              IF Skips(t) THEN Extract(Behind(t, LengthAt(t)))
              ELSE IF Complete(t)
                   THEN Got(<<SubSeq(t, 1, EndAt(t))>> \o Extract(Behind(t, EndAt(t))).texts,
                            Extract(Behind(t, EndAt(t))).rest)
              ELSE Got(<<>>, t)
      BY <2>1, <2>3, Turn
    <3> DEFINE c == t \o b
    <3>6. Extract(u \o b) =
              IF Skips(c) THEN Extract(Behind(c, LengthAt(c)))
              ELSE IF Complete(c)
                   THEN Got(<<SubSeq(c, 1, EndAt(c))>> \o Extract(Behind(c, EndAt(c))).texts,
                            Extract(Behind(c, EndAt(c))).rest)
              ELSE Got(<<>>, c)
      <4>1. LET s == Text(u \o b)
            IN  Extract(u \o b) =
                    IF Skips(s) THEN Extract(Behind(s, LengthAt(s)))
                    ELSE IF Complete(s)
                         THEN Got(<<SubSeq(s, 1, EndAt(s))>> \o Extract(Behind(s, EndAt(s))).texts,
                                  Extract(Behind(s, EndAt(s))).rest)
                    ELSE Got(<<>>, s)
        BY <3>2, <3>3, Turn
      <4>2. QED
        BY <3>2, <4>1, Zenon
    <3>7. CASE Skips(t)
      <4> DEFINE i == LengthAt(t)
      <4>1. i \in 1..Len(t)
        BY <3>1, <3>7, Goes
      <4>2. Skips(c) /\ LengthAt(c) = i
        BY <2>1, <3>1, <3>7, TextSame
      <4>3. Behind(c, i) = Behind(t, i) \o b
        BY <3>1, <4>1, PartsSame
      <4>4. Extract(u) = Extract(Behind(t, i)) /\ Extract(u \o b) = Extract(Behind(t, i) \o b)
        <5> HIDE DEF t, c
        <5>1. QED
          BY <3>5, <3>6, <3>7, <4>2, <4>3
      <4>5. Both(u) = Both(Behind(t, i))
        BY <4>4
      <4> HIDE DEF i, t, c, Both
      <4>6. QED
        BY <2>1, <3>4, <4>1, <4>4, <4>5
    <3>8. CASE ~Skips(t) /\ Complete(t)
      <4> DEFINE i == EndAt(t)
                 v == Behind(t, i)
                 x == Extract(v)
                 y == Extract(x.rest \o b)
                 piece == <<SubSeq(t, 1, i)>>
      <4>1. i \in 1..Len(t)
        BY <3>1, <3>8, Goes
      <4>2. ~Skips(c) /\ Complete(c) /\ EndAt(c) = i
        BY <2>1, <3>1, <3>8, TextSame
      <4>3. Behind(c, i) = v \o b /\ SubSeq(c, 1, i) = SubSeq(t, 1, i)
        BY <3>1, <4>1, PartsSame
      <4>4. Extract(u) = Got(piece \o x.texts, x.rest)
        BY <3>5, <3>8
      <4>5. Extract(u \o b) = Got(piece \o Extract(v \o b).texts, Extract(v \o b).rest)
        <5>1. Extract(u \o b) = Got(<<SubSeq(c, 1, EndAt(c))>> \o Extract(Behind(c, EndAt(c))).texts,
                                    Extract(Behind(c, EndAt(c))).rest)
          <6> HIDE DEF c
          <6>1. QED
            BY <3>6, <4>2
        <5>2. QED
          BY <4>2, <4>3, <5>1, Zenon
      <4>6. Extract(v \o b) = Got(x.texts \o y.texts, y.rest)
        BY <3>4, <4>1
      <4>7. v \in Seq(Units)
        <5>1. i \in 0..Len(t)
          BY <4>1
        <5>2. QED
          BY <3>1, <5>1, BehindUnits
      <4>8. x \in [texts: Seq(Seq(Units)), rest: Seq(Units)]
        BY <4>7, ExtractType
      <4>9. y \in [texts: Seq(Seq(Units)), rest: Seq(Units)]
        <5>1. x.rest \in Seq(Units)
          <6> HIDE DEF x
          <6>1. QED
            BY <4>8
        <5>2. x.rest \o b \in Seq(Units)
          BY <5>1, Joined, Zenon
        <5>3. QED
          BY <5>2, ExtractType
      <4>10. piece \in Seq(Seq(Units))
        <5>1. SubSeq(t, 1, i) \in Seq(Units)
          <6> HIDE DEF t, i
          <6>1. QED
            BY <3>1, <4>1
        <5> HIDE DEF t, i
        <5>2. QED
          BY <5>1
      <4>11. Both(u) = Got((piece \o x.texts) \o y.texts, y.rest)
        <5>1. Extract(u).texts = piece \o x.texts /\ Extract(u).rest = x.rest
          <6> HIDE DEF piece, x
          <6>1. QED
            BY <4>4 DEF Got
        <5> HIDE DEF piece
        <5>2. QED
          BY <5>1, Zenon
      <4> HIDE DEF piece, x, y, v, Both
      <4>12. (piece \o x.texts) \o y.texts = piece \o (x.texts \o y.texts)
        <5>1. PICK xs \in Seq(Seq(Units)), ys \in Seq(Seq(Units)) : xs = x.texts /\ ys = y.texts
          BY <4>8, <4>9
        <5>2. PICK p \in Seq(Seq(Units)) : p = piece
          BY <4>10
        <5>3. (p \o xs) \o ys = p \o (xs \o ys)
          BY Grouped, Zenon
        <5>4. QED
          BY <5>1, <5>2, <5>3
      <4>13. Extract(u \o b) = Got(piece \o (x.texts \o y.texts), y.rest)
        <5>1. Extract(v \o b).texts = x.texts \o y.texts /\ Extract(v \o b).rest = y.rest
          <6>1. PICK texts, rest : texts = x.texts \o y.texts /\ rest = y.rest
            OBVIOUS
          <6>2. Extract(v \o b) = Got(texts, rest)
            BY <4>6, <6>1
          <6>3. Extract(v \o b).texts = texts /\ Extract(v \o b).rest = rest
            BY <6>2 DEF Got
          <6>4. QED
            BY <6>1, <6>3
        <5>2. QED
          BY <4>5, <5>1, Zenon
      <4>14. Extract(u \o b) = Both(u)
        BY <4>11, <4>12, <4>13, Zenon
      <4>15. QED
        BY <2>1, <4>14
    <3>9. CASE ~Skips(t) /\ ~Complete(t)
      <4>1. Extract(u) = Got(<<>>, t)
        BY <3>5, <3>9
      <4>2. Extract(u).texts = <<>> /\ Extract(u).rest = t
        BY <4>1 DEF Got
      <4>3. Extract(u \o b) = Extract(t \o b)
        BY <3>2, <3>3, FromBeginning
      <4> HIDE DEF Both, t
      <4>4. QED
        BY <1>1, <2>1, <4>2, <4>3
    <3>10. QED
      BY <3>7, <3>8, <3>9
  <2>4. QED
    BY <2>2, <2>3
<1>3. Bad = {}
  <2>1. Bad \in SUBSET Seq(Units)
    OBVIOUS
  <2> HIDE DEF Bad
  <2>2. QED
    BY <1>2, <2>1, Shortest
<1>4. Extract(a \o b) = Both(a)
  <2> HIDE DEF Both
  <2>1. QED
    BY <1>3
<1>5. QED
  BY <1>4

\* A text that is framed comes out whole, whatever stands between its length and the
\* checksum behind that: DATA that looks like an end, or like another text.
THEOREM FramedIsTaken ==
    ASSUME NEW x \in Seq(Units), Framed(x)
    PROVE  Extract(x) = Got(<<x>>, <<>>)
<1>1. /\ Len(x) \in Nat /\ Len(x) >= 3 /\ x[1].tag = BeginString
      /\ x[2].tag = BodyLength /\ x[2].val = Len(x) - 3
      /\ x[Len(x)].tag = CheckSum /\ x[Len(x)].val # NoValue
  BY LenProperties DEF Framed
<1>2. 1 \in 1..Len(x) /\ 2 \in 2..Len(x) /\ Len(x) - 3 \in Nat
  BY <1>1
<1>3. Start(x) = 1
  <2>1. \/ Start(x) = 0 /\ \A j \in 1..Len(x) : ~Begins(x[j])
        \/ Start(x) \in 1..Len(x) /\ \A j \in 1..Len(x) : Begins(x[j]) => Start(x) <= j
    BY FindsBeginning DEF Start
  <2>2. Begins(x[1])
    BY <1>1 DEF Begins, BeginString
  <2>3. Start(x) \in 1..Len(x) /\ Start(x) <= 1
    BY <1>2, <2>1, <2>2
  <2>4. QED
    BY <2>3
<1>4. Text(x) = x
  <2>1. [x[1] EXCEPT !.tag = BeginString] = x[1]
    <3>1. x[1] \in Units
      BY <1>2, ElementOfSeq
    <3>2. QED
      BY <1>1, <3>1 DEF Units
  <2>2. /\ Text(x) \in Seq(Units) /\ Len(Text(x)) = Len(x) - Start(x) + 1
        /\ Text(x)[1] = [x[Start(x)] EXCEPT !.tag = BeginString]
        /\ \A i \in 1..Len(Text(x)) : i # 1 => Text(x)[i] = x[Start(x) - 1 + i]
    <3>1. Start(x) # 0
      BY <1>3
    <3>2. QED
      BY <3>1, TextBegins
  <2>3. Len(Text(x)) = Len(x) /\ Text(x)[1] = x[1]
    BY <1>1, <1>3, <2>1, <2>2
  <2>4. ASSUME NEW i \in 1..Len(Text(x)) PROVE Text(x)[i] = x[i]
    <3>1. CASE i = 1
      BY <2>3, <3>1
    <3>2. CASE i # 1
      <4>1. Start(x) - 1 + i = i
        BY <1>3
      <4>2. QED
        BY <2>2, <3>2, <4>1
    <3>3. QED
      BY <3>1, <3>2
  <2>5. QED
    BY <2>2, <2>3, <2>4, SeqEqual
<1>5. LengthAt(x) = 2
  <2>1. \/ LengthAt(x) = 0 /\ \A j \in 1 + 1..Len(x) : x[j].tag # BodyLength
        \/ /\ LengthAt(x) \in 1 + 1..Len(x)
           /\ \A j \in 1 + 1..Len(x) : x[j].tag = BodyLength => LengthAt(x) <= j
    BY FindsUnit DEF LengthAt
  <2>2. 2 \in 1 + 1..Len(x)
    BY <1>1
  <2>3. LengthAt(x) \in 1 + 1..Len(x) /\ LengthAt(x) <= 2
    BY <1>1, <2>1, <2>2
  <2>4. QED
    BY <2>3
<1>6. EndAt(x) = Len(x)
  <2> DEFINE after == Len(x) - 1
  <2>1. EndAt(x) = NextUnit(x, 2 + (Len(x) - 3), CheckSum)
    BY <1>1, <1>5 DEF EndAt
  <2>2. 2 + (Len(x) - 3) = after /\ after \in Nat /\ after + 1 = Len(x)
    BY <1>1
  <2>3. EndAt(x) = NextUnit(x, after, CheckSum)
    BY <2>1, <2>2
  <2> HIDE DEF after
  <2>4. \/ EndAt(x) = 0 /\ \A j \in after + 1..Len(x) : x[j].tag # CheckSum
        \/ EndAt(x) \in after + 1..Len(x)
    BY <2>2, <2>3, FindsUnit
  <2>5. Len(x) \in after + 1..Len(x)
    BY <1>1, <2>2
  <2>6. EndAt(x) \in after + 1..Len(x)
    BY <1>1, <2>4, <2>5
  <2>7. QED
    BY <1>1, <2>2, <2>6
<1>7. Complete(x) /\ ~Skips(x)
  BY <1>1, <1>2, <1>5, <1>6 DEF Complete, Skips, NotANumber
<1>8. SubSeq(x, 1, Len(x)) = x /\ Behind(x, Len(x)) = <<>>
  BY SubSeqFull, BehindNothing
<1>9. Extract(x) = Got(<<x>> \o Extract(<<>>).texts, Extract(<<>>).rest)
  <2>1. Extract(x) = Got(<<SubSeq(x, 1, EndAt(x))>> \o Extract(Behind(x, EndAt(x))).texts,
                         Extract(Behind(x, EndAt(x))).rest)
    <3>1. Start(x) # 0
      BY <1>3
    <3>2. LET t == Text(x)
          IN  Extract(x) = IF Skips(t) THEN Extract(Behind(t, LengthAt(t)))
                           ELSE IF Complete(t)
                                THEN Got(<<SubSeq(t, 1, EndAt(t))>> \o Extract(Behind(t, EndAt(t))).texts,
                                         Extract(Behind(t, EndAt(t))).rest)
                           ELSE Got(<<>>, t)
      BY <3>1, Turn
    <3>3. QED
      BY <1>4, <1>7, <3>2
  <2>2. QED
    BY <1>6, <1>8, <2>1
<1>10. <<x>> \o <<>> = <<x>>
  <2>1. <<x>> \in Seq(Seq(Units))
    OBVIOUS
  <2>2. QED
    BY <2>1, ConcatEmptySeq
<1>11. Extract(<<>>).texts = <<>> /\ Extract(<<>>).rest = <<>>
  BY NothingTaken, GotFields
<1>12. QED
  BY <1>9, <1>10, <1>11

-----------------------------------------------------------------------------
(* A connection *)

\* No buffer is left over from a stranger's connection: it is the first one, or there are
\* no strangers.
Unmixed == conns = 1 \/ ~Env.strangers

\* What the peer's texts are, if it sends nothing else.
AllSealed == \A i \in DOMAIN sent : sent[i].sealed
Texts(s) == [i \in DOMAIN s |-> s[i].text]

\* What was handed on and what waits is what one read would have given; everything that a
\* peer sent sealed comes out as it went in; and nothing waits in a buffer that is given
\* to the next connection.
ReaderInv ==
    /\ ReaderTypeOK
    /\ sent \in Seq(Env.sends)
    /\ AllSealed => Extract(wire) = Got(Texts(sent), <<>>)
    /\ link \in {"none", "new", "known"} /\ Unmixed =>
          Extract(SubSeq(wire, 1, pos)) = Got(got, buffer)
    /\ link = "closed" /\ ~Env.strangers => buffer = <<>>

LEMMA Parts ==
    ASSUME ReaderTypeOK, NEW n \in pos..Len(wire)
    PROVE  /\ SubSeq(wire, 1, pos) \in Seq(Units) /\ SubSeq(wire, pos + 1, n) \in Seq(Units)
           /\ SubSeq(wire, 1, n) \in Seq(Units)
           /\ SubSeq(wire, 1, pos) \o SubSeq(wire, pos + 1, n) = SubSeq(wire, 1, n)
           /\ buffer \o SubSeq(wire, pos + 1, n) \in Seq(Units)
<1>1. /\ wire \in Seq(Units) /\ pos \in 0..Len(wire) /\ Len(wire) \in Nat
      /\ buffer \in Seq(Units)
  BY LenProperties DEF ReaderTypeOK
<1>2. \A i \in 1..Len(wire) : wire[i] \in Units
  BY <1>1, ElementOfSeq
<1>3. SubSeq(wire, 1, pos) \in Seq(Units)
  <2>1. \A i \in 1..pos : wire[i] \in Units
    BY <1>1, <1>2
  <2>2. QED
    BY <1>1, <2>1, SubSeqProperties
<1>4. SubSeq(wire, pos + 1, n) \in Seq(Units)
  <2>1. (\A i \in pos + 1..n : wire[i] \in Units) /\ pos + 1 \in Int /\ n \in Int
    BY <1>1, <1>2
  <2>2. QED
    BY <2>1, SubSeqProperties
<1>5. SubSeq(wire, 1, n) \in Seq(Units)
  <2>1. (\A i \in 1..n : wire[i] \in Units) /\ n \in Int
    BY <1>1, <1>2
  <2>2. QED
    BY <2>1, SubSeqProperties
<1>6. SubSeq(wire, 1, pos) \o SubSeq(wire, pos + 1, n) = SubSeq(wire, 1, n)
  <2>1. 1 \in 1..Len(wire) + 1 /\ pos \in 1 - 1..Len(wire) /\ n \in pos..Len(wire)
    BY <1>1
  <2>2. QED
    BY <1>1, <2>1, ConcatAdjacentSubSeq
<1>7. QED
  BY <1>1, <1>3, <1>4, <1>5, <1>6, Joined

\* One more read gives what a read of everything so far would have given.
LEMMA OneRead ==
    ASSUME ReaderTypeOK, NEW n \in pos..Len(wire)
    PROVE  LET read == Extract(buffer \o SubSeq(wire, pos + 1, n))
           IN  /\ read.rest \in Seq(Units) /\ read.texts \in Seq(Seq(Units))
               /\ Extract(SubSeq(wire, 1, pos)) = Got(got, buffer) =>
                     Extract(SubSeq(wire, 1, n)) = Got(got \o read.texts, read.rest)
<1> DEFINE a == SubSeq(wire, 1, pos)
           b == SubSeq(wire, pos + 1, n)
           read == Extract(buffer \o b)
<1>1. /\ a \in Seq(Units) /\ b \in Seq(Units) /\ a \o b = SubSeq(wire, 1, n)
      /\ buffer \o b \in Seq(Units)
  BY Parts
<1>2. read \in [texts: Seq(Seq(Units)), rest: Seq(Units)]
  BY <1>1, ExtractType
<1> HIDE DEF a, b
<1>3. ASSUME Extract(a) = Got(got, buffer)
      PROVE  Extract(a \o b) = Got(got \o read.texts, read.rest)
  <2>1. Extract(a).texts = got /\ Extract(a).rest = buffer
    BY <1>3, GotFields
  <2>2. Extract(a \o b) = Got(Extract(a).texts \o Extract(Extract(a).rest \o b).texts,
                              Extract(Extract(a).rest \o b).rest)
    BY <1>1, Resumes
  <2>3. QED
    BY <2>1, <2>2
<1> HIDE DEF read
<1>4. read.rest \in Seq(Units) /\ read.texts \in Seq(Seq(Units))
  BY <1>2
<1>5. QED
  BY <1>1, <1>3, <1>4 DEF a, b, read

\* What the invariant says of a state before a step.
LEMMA Known ==
    ASSUME ReaderInv
    PROVE  /\ Env.sends = Scenarios[env].sends
           /\ \A x \in Env.sends : x.text \in Seq(Units) /\ (x.sealed => Framed(x.text))
           /\ wire \in Seq(Units) /\ buffer \in Seq(Units) /\ Len(wire) \in Nat /\ pos \in 0..Len(wire)
           /\ got \in Seq(Seq(Units)) /\ sent \in Seq(Env.sends)
<1>1. env \in DOMAIN Scenarios
  BY DEF ReaderInv, ReaderTypeOK
<1>2. \A x \in Scenarios[env].sends : x.text \in Seq(Units) /\ (x.sealed => Framed(x.text))
  BY <1>1, ReadBufferAssumption
<1>3. QED
  BY <1>2, LenProperties DEF ReaderInv, ReaderTypeOK, Env

LEMMA Starts == ReaderInit => ReaderInv
<1> SUFFICES ASSUME ReaderInit PROVE ReaderInv
  OBVIOUS
<1>1. ReaderTypeOK
  BY DEF ReaderInit, ReaderTypeOK
<1>2. Texts(sent) = <<>> /\ sent \in Seq(Env.sends)
  BY DEF ReaderInit, Texts
<1>3. SubSeq(wire, 1, pos) = <<>>
  BY DEF ReaderInit
<1>4. Extract(wire) = Got(<<>>, <<>>) /\ Extract(SubSeq(wire, 1, pos)) = Got(got, buffer)
  BY <1>3, NothingTaken DEF ReaderInit
<1>5. QED
  BY <1>1, <1>2, <1>4 DEF ReaderInv, ReaderInit

\* Appending a text to what was sent appends it to what is wanted.
LEMMA TextsAppend ==
    ASSUME NEW S, NEW s \in Seq(S), NEW x, \A y \in S : y.text \in Seq(Units), x \in S
    PROVE  /\ Texts(s) \in Seq(Seq(Units)) /\ Texts(Append(s, x)) = Append(Texts(s), x.text)
           /\ Texts(Append(s, x)) = Texts(s) \o <<x.text>>
<1>1. Len(s) \in Nat /\ DOMAIN s = 1..Len(s) /\ \A i \in 1..Len(s) : s[i] \in S
  BY LenProperties, ElementOfSeq
<1>2. Texts(s) = [i \in 1..Len(s) |-> s[i].text]
  BY <1>1 DEF Texts
<1>3. Texts(s) \in Seq(Seq(Units)) /\ Len(Texts(s)) = Len(s)
  <2>1. \A i \in 1..Len(s) : s[i].text \in Seq(Units)
    BY <1>1
  <2>2. QED
    BY <1>1, <1>2, <2>1
<1>4. /\ Append(s, x) \in Seq(S) /\ Len(Append(s, x)) = Len(s) + 1
      /\ \A i \in 1..Len(s) : Append(s, x)[i] = s[i]
      /\ Append(s, x)[Len(s) + 1] = x
  BY <1>1
<1>5. Texts(Append(s, x)) = [i \in 1..Len(s) + 1 |-> Append(s, x)[i].text]
  <2>1. DOMAIN Append(s, x) = 1..Len(s) + 1
    BY <1>1, <1>4
  <2>2. QED
    BY <2>1 DEF Texts
<1>6. x.text \in Seq(Units)
  OBVIOUS
<1>7. PICK t \in Seq(Units) : t = x.text
  BY <1>6
<1>8. Texts(Append(s, x)) = Append(Texts(s), t)
  <2> DEFINE T == Texts(s)
             U == Texts(Append(s, x))
  <2>1. /\ Append(T, t) \in Seq(Seq(Units)) /\ Len(Append(T, t)) = Len(s) + 1
        /\ \A i \in 1..Len(s) : Append(T, t)[i] = T[i]
        /\ Append(T, t)[Len(s) + 1] = t
    <3> HIDE DEF T
    <3>1. T \in Seq(Seq(Units)) /\ Len(T) = Len(s)
      BY <1>3 DEF T
    <3>2. Append(T, t) \in Seq(Seq(Units)) /\ Len(Append(T, t)) = Len(T) + 1
      BY <3>1
    <3>3. (\A i \in 1..Len(T) : Append(T, t)[i] = T[i]) /\ Append(T, t)[Len(T) + 1] = t
      BY <3>1
    <3>4. QED
      BY <3>1, <3>2, <3>3
  <2>2. U \in Seq(Seq(Units)) /\ Len(U) = Len(s) + 1
    <3>1. \A i \in 1..Len(s) + 1 : Append(s, x)[i].text \in Seq(Units)
      <4>1. ASSUME NEW i \in 1..Len(s) + 1 PROVE Append(s, x)[i] \in S
        BY <1>4, ElementOfSeq
      <4>2. QED
        BY <4>1
    <3>2. QED
      BY <1>1, <1>5, <3>1
  <2>3. ASSUME NEW i \in 1..Len(s) + 1 PROVE U[i] = Append(T, t)[i]
    <3>1. U[i] = Append(s, x)[i].text
      BY <1>5
    <3>2. CASE i = Len(s) + 1
      BY <1>4, <1>7, <2>1, <3>1, <3>2
    <3>3. CASE i \in 1..Len(s)
      <4>1. Append(T, t)[i] = T[i] /\ T[i] = s[i].text /\ Append(s, x)[i] = s[i]
        BY <1>2, <1>4, <2>1, <3>3
      <4>2. QED
        BY <3>1, <4>1
    <3>4. i = Len(s) + 1 \/ i \in 1..Len(s)
      BY <1>1
    <3> HIDE DEF T, U
    <3>5. QED
      BY <3>2, <3>3, <3>4
  <2>4. Len(U) = Len(Append(T, t)) /\ \A i \in 1..Len(U) : U[i] = Append(T, t)[i]
    BY <2>1, <2>2, <2>3
  <2> HIDE DEF T, U
  <2>5. U = Append(T, t)
    BY <2>1, <2>2, <2>4, SeqEqual
  <2>6. QED
    BY <2>5 DEF T, U
<1>9. Append(Texts(s), t) = Texts(s) \o <<t>>
  BY <1>3, AppendIsConcat
<1>10. QED
  BY <1>3, <1>7, <1>8, <1>9

LEMMA SendKeeps ==
    ASSUME ReaderInv, Send PROVE ReaderInv'
<1>1. PICK x \in Env.sends : sent' = Append(sent, x) /\ wire' = wire \o x.text
  BY DEF Send
<1>2. /\ Open /\ env' = env /\ pos' = pos /\ buffer' = buffer /\ got' = got
      /\ link' = link /\ conns' = conns
  BY DEF Send
<1>3. PICK t \in Seq(Units) : t = x.text /\ (x.sealed => Framed(t))
  BY <1>1, Known
<1>4. wire' = wire \o t
  BY <1>1, <1>3
<1>5. /\ wire \in Seq(Units) /\ Len(wire) \in Nat /\ pos \in 0..Len(wire) /\ Len(t) \in Nat
      /\ sent \in Seq(Env.sends)
  BY Known, LenProperties
<1>6. wire' \in Seq(Units) /\ Len(wire') = Len(wire) + Len(t)
  BY <1>4, <1>5, ConcatProperties
<1>7. ReaderTypeOK'
  BY <1>2, <1>5, <1>6 DEF ReaderInv, ReaderTypeOK
<1>8. sent' \in Seq(Env.sends)' /\ Env' = Env
  BY <1>1, <1>2, <1>5 DEF Env
<1>9. ASSUME AllSealed' PROVE Extract(wire)' = Got(Texts(sent), <<>>)'
  <2>1. Len(sent) \in Nat /\ DOMAIN sent = 1..Len(sent) /\ DOMAIN sent' = 1..Len(sent) + 1
    BY <1>1, <1>5, LenProperties
  <2>2. sent'[Len(sent) + 1] = x /\ \A i \in 1..Len(sent) : sent'[i] = sent[i]
    BY <1>1, <1>5, <2>1
  <2>3. AllSealed /\ x.sealed
    <3>1. \A i \in 1..Len(sent) + 1 : sent'[i].sealed
      BY <1>9, <2>1 DEF AllSealed
    <3>2. QED
      BY <2>1, <2>2, <3>1 DEF AllSealed
  <2>4. Extract(wire) = Got(Texts(sent), <<>>)
    BY <2>3 DEF ReaderInv
  <2>5. Extract(t) = Got(<<t>>, <<>>)
    BY <1>3, <2>3, FramedIsTaken
  <2>6. Extract(wire \o t) = Got(Texts(sent) \o <<t>>, <<>>)
    <3>1. Extract(wire).texts = Texts(sent) /\ Extract(wire).rest = <<>>
      BY <2>4, GotFields
    <3>2. Extract(wire \o t) = Got(Extract(wire).texts \o Extract(Extract(wire).rest \o t).texts,
                                  Extract(Extract(wire).rest \o t).rest)
      BY <1>5, Resumes
    <3>3. <<>> \o t = t
      BY ConcatEmptySeq
    <3>4. Extract(wire \o t) = Got(Texts(sent) \o Extract(t).texts, Extract(t).rest)
      BY <3>1, <3>2, <3>3
    <3>5. Extract(t).texts = <<t>> /\ Extract(t).rest = <<>>
      BY <2>5, GotFields
    <3>6. QED
      BY <3>4, <3>5
  <2>7. Texts(sent)' = Texts(sent) \o <<t>>
    <3>1. Texts(Append(sent, x)) = Texts(sent) \o <<x.text>>
      BY <1>1, <1>5, TextsAppend, Known
    <3>2. QED
      BY <1>1, <1>3, <3>1 DEF Texts
  <2>8. QED
    <3>1. Extract(wire)' = Extract(wire')
      BY DEF Extract, TakeFrom
    <3>2. QED
      BY <1>4, <2>6, <2>7, <3>1 DEF Got
<1>10. SubSeq(wire', 1, pos) = SubSeq(wire, 1, pos)
  BY <1>4, <1>5
<1>11. QED
  BY <1>2, <1>7, <1>8, <1>9, <1>10 DEF ReaderInv, Unmixed

\* What a read hands on is in the texts; the connection is open only if all of it was
\* handed on.
LEMMA HandOnKeeps ==
    ASSUME ReaderInv, NEW texts \in Seq(Seq(Units)), NEW state, HandOn(texts, state)
    PROVE  /\ got' \in Seq(Seq(Units))
           /\ \/ got' = got \o texts /\ link' = state
              \/ link' = "closed" /\ Env.strangers
<1>1. CASE got' = got \o texts /\ link' = state
  <2>1. got \in Seq(Seq(Units))
    BY Known
  <2>2. QED
    BY <1>1, <2>1, ConcatProperties
<1>2. CASE link' = "closed" /\ Env.strangers /\ got' = got
  BY <1>2, Known
<1>3. QED
  BY <1>1, <1>2 DEF HandOn

\* Nothing that a connection reads or hands on changes what its peer sent.
LEMMA SentKept ==
    ASSUME ReaderInv, UNCHANGED <<env, sent, wire>>
    PROVE  /\ env' \in DOMAIN Scenarios /\ wire' \in Seq(Units) /\ Env' = Env
           /\ (sent \in Seq(Env.sends))'
           /\ (AllSealed => Extract(wire) = Got(Texts(sent), <<>>))'
<1>1. env' \in DOMAIN Scenarios /\ wire' \in Seq(Units) /\ Env' = Env
  BY DEF ReaderInv, ReaderTypeOK, Env
<1>2. (sent \in Seq(Env.sends))'
  BY <1>1 DEF ReaderInv
<1>3. ASSUME AllSealed' PROVE Extract(wire)' = Got(Texts(sent), <<>>)'
  <2>1. AllSealed
    BY <1>3 DEF AllSealed
  <2>2. Extract(wire) = Got(Texts(sent), <<>>)
    BY <2>1 DEF ReaderInv
  <2>3. Extract(wire)' = Extract(wire) /\ Texts(sent)' = Texts(sent)
    BY DEF Extract, TakeFrom, Texts
  <2>4. QED
    BY <2>2, <2>3 DEF Got
<1>4. QED
  BY <1>1, <1>2, <1>3

LEMMA ReadKept ==
    ASSUME UNCHANGED <<wire, pos, got, buffer>>, Extract(SubSeq(wire, 1, pos)) = Got(got, buffer)
    PROVE  (Extract(SubSeq(wire, 1, pos)) = Got(got, buffer))'
<1>1. Extract(SubSeq(wire, 1, pos))' = Extract(SubSeq(wire', 1, pos'))
  BY DEF Extract, TakeFrom
<1>2. Extract(SubSeq(wire', 1, pos')) = Extract(SubSeq(wire, 1, pos))
  BY Zenon
<1>3. Got(got, buffer)' = Got(got, buffer)
  BY DEF Got
<1>4. QED
  BY <1>1, <1>2, <1>3

LEMMA ReadUpToKeeps ==
    ASSUME ReaderInv, NEW n, n \in 1..Len(wire), ReadUpTo(n) PROVE ReaderInv'
<1> DEFINE read == Extract(buffer \o SubSeq(wire, pos + 1, n))
<1>1. /\ Open /\ n > pos /\ UNCHANGED <<env, sent, wire, conns>> /\ pos' = n
      /\ buffer' = read.rest
      /\ HandOn(read.texts, IF read.texts = <<>> THEN link ELSE "known")
  BY DEF ReadUpTo
<1>2. /\ Len(wire) \in Nat /\ pos \in 0..Len(wire) /\ n \in pos..Len(wire)
  <2>1. Len(wire) \in Nat /\ pos \in 0..Len(wire)
    BY Known
  <2>2. QED
    BY <1>1, <2>1
<1>3. /\ read.rest \in Seq(Units) /\ read.texts \in Seq(Seq(Units))
      /\ Extract(SubSeq(wire, 1, pos)) = Got(got, buffer) =>
            Extract(SubSeq(wire, 1, n)) = Got(got \o read.texts, read.rest)
  <2>1. ReaderTypeOK
    BY DEF ReaderInv
  <2>2. QED
    BY <1>2, <2>1, OneRead
<1>4. PICK texts \in Seq(Seq(Units)), rest \in Seq(Units) : texts = read.texts /\ rest = read.rest
  BY <1>3
<1> HIDE DEF read
<1>5. PICK state : /\ state = IF texts = <<>> THEN link ELSE "known"
                   /\ HandOn(texts, state)
  BY <1>1, <1>4
<1>6. /\ got' \in Seq(Seq(Units))
      /\ \/ got' = got \o texts /\ link' = state
         \/ link' = "closed" /\ Env.strangers
  BY <1>5, HandOnKeeps
<1>7. state \in {"new", "known"}
  BY <1>1, <1>5 DEF Open
<1>8. /\ env' \in DOMAIN Scenarios /\ wire' \in Seq(Units) /\ Env' = Env
      /\ (sent \in Seq(Env.sends))'
      /\ (AllSealed => Extract(wire) = Got(Texts(sent), <<>>))'
  BY <1>1, SentKept
<1>9. ReaderTypeOK'
  <2>1. pos' \in 0..Len(wire') /\ buffer' \in Seq(Units) /\ conns' \in Nat \ {0}
    BY <1>1, <1>2, <1>4 DEF ReaderInv, ReaderTypeOK
  <2>2. link' \in {"new", "known", "closed"}
    BY <1>6, <1>7
  <2>3. QED
    BY <1>6, <1>8, <2>1, <2>2 DEF ReaderTypeOK
<1>10. ASSUME link' \in {"none", "new", "known"}, Unmixed'
       PROVE  Extract(SubSeq(wire', 1, pos')) = Got(got', buffer')
  <2>1. got' = got \o texts
    BY <1>6, <1>10
  <2>2. Unmixed /\ link \in {"none", "new", "known"}
    BY <1>1, <1>8, <1>10 DEF Unmixed, Open
  <2>3. Extract(SubSeq(wire, 1, pos)) = Got(got, buffer)
    BY <2>2 DEF ReaderInv
  <2>4. Extract(SubSeq(wire, 1, n)) = Got(got \o texts, rest)
    BY <1>3, <1>4, <2>3
  <2>5. QED
    BY <1>1, <1>4, <2>1, <2>4
<1>11. link' = "closed" => Env'.strangers
  BY <1>6, <1>7, <1>8
<1>12. QED
  BY <1>8, <1>9, <1>10, <1>11 DEF ReaderInv, Got, Extract, TakeFrom

LEMMA ReadEndKeeps ==
    ASSUME ReaderInv, ReadEnd PROVE ReaderInv'
<1>1. /\ UNCHANGED <<env, sent, wire, got, conns>> /\ pos' = Len(wire) /\ link' = "ended"
      /\ buffer' = Extract(buffer \o SubSeq(wire, pos + 1, Len(wire))).rest
  BY DEF ReadEnd
<1>2. ReaderTypeOK /\ Len(wire) \in Nat /\ Len(wire) \in pos..Len(wire)
  BY Known DEF ReaderInv
<1>3. buffer' \in Seq(Units)
  BY <1>1, <1>2, OneRead
<1>4. /\ env' \in DOMAIN Scenarios /\ wire' \in Seq(Units)
      /\ (sent \in Seq(Env.sends))'
      /\ (AllSealed => Extract(wire) = Got(Texts(sent), <<>>))'
  BY <1>1, SentKept
<1>5. ReaderTypeOK'
  BY <1>1, <1>2, <1>3, <1>4 DEF ReaderTypeOK
<1>6. QED
  BY <1>1, <1>4, <1>5 DEF ReaderInv

LEMMA ReadErrorKeeps ==
    ASSUME ReaderInv, ReadError PROVE ReaderInv'
<1> DEFINE read == Extract(buffer \o SubSeq(wire, pos + 1, Len(wire)))
<1>1. /\ UNCHANGED <<env, sent, wire, conns>> /\ pos' = Len(wire) /\ buffer' = <<>>
      /\ HandOn(read.texts, "ended")
  BY DEF ReadError
<1>2. ReaderTypeOK /\ Len(wire) \in Nat /\ Len(wire) \in pos..Len(wire)
  BY Known DEF ReaderInv
<1>3. PICK texts \in Seq(Seq(Units)) : texts = read.texts
  BY <1>2, OneRead
<1>4. got' \in Seq(Seq(Units)) /\ link' \in {"ended", "closed"}
  <2>1. HandOn(texts, "ended")
    BY <1>1, <1>3
  <2>2. QED
    BY <2>1, HandOnKeeps
<1>5. /\ env' \in DOMAIN Scenarios /\ wire' \in Seq(Units)
      /\ (sent \in Seq(Env.sends))'
      /\ (AllSealed => Extract(wire) = Got(Texts(sent), <<>>))'
  BY <1>1, SentKept
<1>6. ReaderTypeOK'
  <2>1. buffer' \in Seq(Units) /\ pos' \in 0..Len(wire')
    BY <1>1, <1>2
  <2>2. QED
    BY <1>1, <1>2, <1>4, <1>5, <2>1 DEF ReaderTypeOK
<1>7. QED
  BY <1>1, <1>4, <1>5, <1>6 DEF ReaderInv

LEMMA DisconnectKeeps ==
    ASSUME ReaderInv, Disconnect PROVE ReaderInv'
<1>1. UNCHANGED <<env, sent, wire, pos, got, conns>> /\ link' = "closed" /\ buffer' = <<>>
  BY DEF Disconnect
<1>2. /\ env' \in DOMAIN Scenarios /\ wire' \in Seq(Units)
      /\ (sent \in Seq(Env.sends))'
      /\ (AllSealed => Extract(wire) = Got(Texts(sent), <<>>))'
  BY <1>1, SentKept
<1>3. ReaderTypeOK'
  BY <1>1, <1>2 DEF ReaderInv, ReaderTypeOK
<1>4. QED
  BY <1>1, <1>2, <1>3 DEF ReaderInv

\* A new connection finds an empty buffer, unless there are strangers.
LEMMA DialKeeps ==
    ASSUME ReaderInv, Dial PROVE ReaderInv'
<1>1. /\ link = "closed" /\ sent' = <<>> /\ wire' = <<>> /\ pos' = 0 /\ got' = <<>>
      /\ link' = "new" /\ conns' = conns + 1 /\ env' = env /\ buffer' = buffer
  BY DEF Dial
<1>2. ReaderTypeOK' /\ conns' # 1
  <2>1. conns \in Nat \ {0}
    BY DEF ReaderInv, ReaderTypeOK
  <2>2. QED
    BY <1>1, <2>1 DEF ReaderInv, ReaderTypeOK
<1>3. Texts(sent)' = <<>> /\ (sent \in Seq(Env.sends))'
  BY <1>1 DEF Texts
<1>4. Extract(wire') = Got(<<>>, <<>>) /\ Extract(SubSeq(wire', 1, pos')) = Got(<<>>, <<>>)
  <2>1. SubSeq(<<>>, 1, 0) = <<>>
    OBVIOUS
  <2>2. QED
    BY <1>1, <2>1, NothingTaken
<1>5. Extract(wire)' = Extract(wire') /\ Extract(SubSeq(wire, 1, pos))' = Extract(SubSeq(wire', 1, pos'))
  BY DEF Extract, TakeFrom
<1>6. ASSUME Unmixed' PROVE buffer' = <<>>
  <2>1. ~Env.strangers
    BY <1>1, <1>2, <1>6 DEF Unmixed, Env
  <2>2. QED
    BY <1>1, <2>1 DEF ReaderInv
<1>7. Got(Texts(sent), <<>>)' = Got(<<>>, <<>>)
  BY <1>3 DEF Got
<1>8. Unmixed' => Got(got, buffer)' = Got(<<>>, <<>>)
  BY <1>1, <1>6 DEF Got
<1>9. QED
  BY <1>1, <1>2, <1>3, <1>4, <1>5, <1>7, <1>8 DEF ReaderInv

LEMMA FirstConnectionKeeps ==
    ASSUME ReaderInv, FirstConnection PROVE ReaderInv'
<1>1. /\ UNCHANGED <<env, sent, wire, pos, buffer, got, conns>> /\ link = "none" /\ link' = "new"
  BY DEF FirstConnection, connectionVars
<1>2. ReaderTypeOK'
  BY <1>1 DEF ReaderInv, ReaderTypeOK
<1>3. /\ (sent \in Seq(Env.sends))'
      /\ (AllSealed => Extract(wire) = Got(Texts(sent), <<>>))'
  BY <1>1, SentKept
<1>4. ASSUME Unmixed' PROVE (Extract(SubSeq(wire, 1, pos)) = Got(got, buffer))'
  <2>1. Unmixed
    BY <1>1, <1>4 DEF Unmixed, Env
  <2>2. Extract(SubSeq(wire, 1, pos)) = Got(got, buffer)
    BY <1>1, <2>1 DEF ReaderInv
  <2>3. QED
    BY <1>1, <2>2, ReadKept
<1>5. QED
  BY <1>1, <1>2, <1>3, <1>4 DEF ReaderInv

LEMMA StutterKeeps ==
    ASSUME ReaderInv, UNCHANGED readerVars PROVE ReaderInv'
<1>1. UNCHANGED <<env, sent, wire, pos, buffer, got, conns, link>>
  BY DEF readerVars, connectionVars
<1>2. ReaderTypeOK'
  BY <1>1 DEF ReaderInv, ReaderTypeOK
<1>3. /\ (sent \in Seq(Env.sends))'
      /\ (AllSealed => Extract(wire) = Got(Texts(sent), <<>>))'
  BY <1>1, SentKept
<1>4. ASSUME Unmixed', link \in {"none", "new", "known"}
      PROVE (Extract(SubSeq(wire, 1, pos)) = Got(got, buffer))'
  <2>1. Unmixed
    BY <1>1, <1>4 DEF Unmixed, Env
  <2>2. Extract(SubSeq(wire, 1, pos)) = Got(got, buffer)
    BY <1>4, <2>1 DEF ReaderInv
  <2>3. QED
    BY <1>1, <2>2, ReadKept
<1>5. (link = "closed" /\ ~Env.strangers => buffer = <<>>)'
  BY <1>1 DEF ReaderInv, Env
<1>6. QED
  BY <1>1, <1>2, <1>3, <1>4, <1>5 DEF ReaderInv

LEMMA ReaderInvStep ==
    ASSUME ReaderInv, [ReaderNext]_readerVars PROVE ReaderInv'
<1>1. CASE Send
  BY <1>1, SendKeeps
<1>2. CASE Dial
  BY <1>2, DialKeeps
<1>3. CASE \E n \in 1..Len(wire) : ReadUpTo(n)
  BY <1>3, ReadUpToKeeps
<1>4. CASE ReadEnd
  BY <1>4, ReadEndKeeps
<1>5. CASE ReadError
  BY <1>5, ReadErrorKeeps
<1>6. CASE Disconnect
  BY <1>6, DisconnectKeeps
<1>7. CASE FirstConnection
  BY <1>7, FirstConnectionKeeps
<1>8. CASE UNCHANGED readerVars
  BY <1>8, StutterKeeps
<1>9. QED
  BY <1>1, <1>2, <1>3, <1>4, <1>5, <1>6, <1>7, <1>8 DEF ReaderNext, Connection

LEMMA AlwaysReaderInv == ReaderSpec => []ReaderInv
<1>1. ReaderInit => ReaderInv
  BY Starts
<1>2. ReaderInv /\ [ReaderNext]_readerVars => ReaderInv'
  BY ReaderInvStep
<1>3. QED
  BY <1>1, <1>2, PTL DEF ReaderSpec

-----------------------------------------------------------------------------
(* What is promised *)

LEMMA ReadsAlikeNow == ReaderInv => (Unmixed => CutAnywhere)
<1> SUFFICES ASSUME ReaderInv, Unmixed, link = "known" PROVE
        LET whole == Extract(SubSeq(wire, 1, pos))
        IN  whole.rest = buffer /\ whole.texts = got
  BY DEF CutAnywhere
<1>1. Extract(SubSeq(wire, 1, pos)) = Got(got, buffer)
  BY DEF ReaderInv
<1>2. QED
  BY <1>1, GotFields

\* What was handed on is the beginning of what was sent, and what is still to come out of
\* the wire is the rest.
LEMMA ArrivesNow == ReaderInv => (Unmixed => ArrivesWhole)
<1> SUFFICES ASSUME ReaderInv, Unmixed, link = "known", AllSealed
             PROVE  /\ \A i \in DOMAIN got : i \in DOMAIN sent /\ got[i] = sent[i].text
                    /\ pos = Len(wire) => Len(got) = Len(sent)
  BY DEF ArrivesWhole, AllSealed
<1>1. /\ Extract(SubSeq(wire, 1, pos)) = Got(got, buffer)
      /\ Extract(wire) = Got(Texts(sent), <<>>)
  BY DEF ReaderInv
<1>2. /\ wire \in Seq(Units) /\ Len(wire) \in Nat /\ pos \in 0..Len(wire)
      /\ got \in Seq(Seq(Units)) /\ sent \in Seq(Env.sends)
  BY Known
<1>3. SubSeq(wire, 1, Len(wire)) = wire
  BY <1>2, SubSeqFull
<1> DEFINE read == Extract(buffer \o SubSeq(wire, pos + 1, Len(wire)))
<1>4. /\ read.texts \in Seq(Seq(Units))
      /\ Extract(wire) = Got(got \o read.texts, read.rest)
  <2>1. ReaderTypeOK /\ Len(wire) \in pos..Len(wire)
    BY <1>2 DEF ReaderInv
  <2>2. QED
    BY <1>1, <1>3, <2>1, OneRead
<1>5. PICK more \in Seq(Seq(Units)) : more = read.texts
  BY <1>4
<1> HIDE DEF read
<1>6. Texts(sent) = got \o more
  <2>1. PICK joined : joined = got \o more
    OBVIOUS
  <2>2. Got(Texts(sent), <<>>) = Got(joined, read.rest)
    BY <1>1, <1>4, <1>5, <2>1
  <2>3. QED
    BY <2>1, <2>2 DEF Got
<1>7. Len(sent) \in Nat /\ DOMAIN sent = 1..Len(sent) /\ Texts(sent) = [i \in 1..Len(sent) |-> sent[i].text]
  BY <1>2, LenProperties DEF Texts
<1>8. /\ got \o more \in Seq(Seq(Units)) /\ Len(got \o more) = Len(got) + Len(more)
      /\ \A i \in 1..Len(got) : (got \o more)[i] = got[i]
      /\ Len(got) \in Nat /\ Len(more) \in Nat /\ DOMAIN got = 1..Len(got)
  BY <1>2, ConcatProperties, LenProperties
<1>9. Len(sent) = Len(got) + Len(more)
  <2>1. DOMAIN (got \o more) = 1..Len(got) + Len(more)
    BY <1>8, LenProperties
  <2>2. DOMAIN (got \o more) = 1..Len(sent)
    BY <1>6, <1>7
  <2>3. Len(got) + Len(more) \in Nat
    BY <1>8
  <2>4. PICK m \in Nat, n \in Nat : m = Len(sent) /\ n = Len(got) + Len(more) /\ 1..m = 1..n
    BY <1>7, <2>1, <2>2, <2>3
  <2>5. m = n
    <3>1. m \in 1..m \/ m = 0
      BY <2>4
    <3>2. n \in 1..n \/ n = 0
      BY <2>4
    <3>3. (m # 0 => m <= n) /\ (n # 0 => n <= m)
      BY <2>4, <3>1, <3>2
    <3>4. QED
      BY <2>4, <3>3
  <2>6. QED
    BY <2>4, <2>5
<1>10. ASSUME NEW i \in DOMAIN got PROVE i \in DOMAIN sent /\ got[i] = sent[i].text
  <2>1. i \in 1..Len(got) /\ i \in 1..Len(sent)
    BY <1>8, <1>9
  <2>2. got[i] = Texts(sent)[i]
    BY <1>6, <1>8, <2>1
  <2>3. QED
    BY <1>7, <2>1, <2>2
<1>11. ASSUME pos = Len(wire) PROVE Len(got) = Len(sent)
  <2>1. Extract(wire) = Got(got, buffer)
    BY <1>1, <1>3, <1>11
  <2>2. Texts(sent) = got
    BY <1>1, <2>1, GotFields
  <2>3. 1..Len(sent) = 1..Len(got)
    BY <1>7, <1>8, <2>2
  <2>4. PICK m \in Nat, n \in Nat : m = Len(sent) /\ n = Len(got) /\ 1..m = 1..n /\ n <= m
    <3>1. Len(sent) \in Nat /\ Len(got) \in Nat /\ Len(got) <= Len(sent)
      BY <1>7, <1>8, <1>9
    <3>2. QED
      BY <2>3, <3>1
  <2>5. m \in 1..m \/ m = 0
    BY <2>4
  <2>6. m <= n
    BY <2>4, <2>5
  <2>7. QED
    BY <2>4, <2>6
<1>12. QED
  BY <1>10, <1>11

\* Whatever is sent and however it is cut, wire, buffer and texts hold units, and a reader
\* has not read more than there is.
THEOREM TypeCorrect == ReaderSpec => []ReaderTypeOK
<1>1. ReaderInv => ReaderTypeOK
  BY DEF ReaderInv
<1>2. QED
  BY <1>1, AlwaysReaderInv, PTL

\* However the bytes of a connection are cut into reads, what ReadBuffer::read hands on
\* and what it keeps are those of one read; a buffer that a stranger's connection left
\* behind is the exception.
THEOREM ReadsAlike == ReaderSpec => [](Unmixed => CutAnywhere)
<1>1. QED
  BY ReadsAlikeNow, AlwaysReaderInv, PTL

\* What a peer sends sealed comes out as it went in, each text once and in order, whatever
\* its DATA fields look like and however it is cut.
THEOREM SealedArrives == ReaderSpec => [](Unmixed => ArrivesWhole)
<1>1. QED
  BY ArrivesNow, AlwaysReaderInv, PTL
=============================================================================

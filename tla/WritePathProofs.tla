---------------------------- MODULE WritePathProofs ----------------------------
(***************************************************************************)
(* What holds of WritePath for any number of senders, messages, units and   *)
(* connections.  The lemmas about sequences come first: Vector and Finished *)
(* of flushWrite, and what a partial write makes of a buffer.               *)
(***************************************************************************)
EXTENDS WritePath, SequenceTheorems, WellFoundedInduction, TLAPS

-----------------------------------------------------------------------------
(* Numbers *)

\* A set of indices has a first one: Vector cuts a buffer at it.
LEMMA HasMin ==
    ASSUME NEW S \in SUBSET Nat, S # {}
    PROVE  Min(S) \in S /\ \A y \in S : Min(S) <= y
<1> DEFINE R == {ss \in Nat \X Nat : ss[1] < ss[2]}
<1>1. OpToRel(<, Nat) = R
  BY Zenon DEF OpToRel
<1>2. IsWellFoundedOn(R, Nat)
  BY <1>1, NatLessThanWellFounded, Zenon
<1> HIDE DEF R
<1>3. PICK x \in S : \A y \in S : ~(<<y, x>> \in R)
  BY <1>2, WFMin
<1>4. \A y \in S : x <= y
  <2>1. ASSUME NEW y \in S PROVE ~(y < x)
    BY <1>3 DEF R
  <2>2. QED
    BY <2>1
<1>5. QED
  BY <1>4 DEF Min

\* Induction over the positions of a buffer, for a set of positions.
LEMMA Upwards ==
    ASSUME NEW n \in Nat, NEW S, 0 \in S, \A i \in 1..n : i - 1 \in S => i \in S
    PROVE  \A i \in 0..n : i \in S
<1> DEFINE T == {i \in 0..n : i \notin S}
<1> SUFFICES ASSUME T # {} PROVE FALSE
  OBVIOUS
<1>1. T \subseteq Nat
  OBVIOUS
<1>2. Min(T) \in T /\ \A y \in T : Min(T) <= y
  <2> HIDE DEF T
  <2>1. QED
    BY <1>1, HasMin
<1>3. PICK x \in T : \A y \in T : x <= y
  BY <1>2
<1>4. x \in 1..n /\ x - 1 \in 0..n /\ x - 1 < x
  OBVIOUS
<1>5. QED
  BY <1>3, <1>4

-----------------------------------------------------------------------------
(* Buffers *)

\* The messages whose last unit is in a buffer.
Lasts(us) == {us[i].msg : i \in {j \in 1..Len(us) : IsLast(us[j])}}

\* No message has its last unit in it twice.
Once(us) ==
    \A i, j \in 1..Len(us) : i # j /\ IsLast(us[i]) /\ IsLast(us[j]) => us[i].msg # us[j].msg

\* A write of n units divides a buffer in two.
LEMMA Divided ==
    ASSUME NEW us \in Seq(Units), NEW n \in 0..Len(us)
    PROVE  /\ SubSeq(us, 1, n) \in Seq(Units) /\ From(us, n + 1) \in Seq(Units)
           /\ Len(SubSeq(us, 1, n)) = n /\ Len(From(us, n + 1)) = Len(us) - n
           /\ SubSeq(us, 1, n) \o From(us, n + 1) = us
<1>1. Len(us) \in Nat /\ \A i \in 1..Len(us) : us[i] \in Units
  BY ElementOfSeq
<1>2. SubSeq(us, 1, n) \in Seq(Units) /\ Len(SubSeq(us, 1, n)) = n
  BY <1>1, SubSeqProperties
<1>3. From(us, n + 1) \in Seq(Units) /\ Len(From(us, n + 1)) = Len(us) - n
  BY <1>1, SubSeqProperties DEF From
<1>4. SubSeq(us, 1, n) \o From(us, n + 1) = us
  <2>1. 1 \in 1..Len(us)+1 /\ n \in 1-1..Len(us) /\ Len(us) \in n..Len(us)
    BY <1>1
  <2>2. SubSeq(us, 1, n) \o From(us, n + 1) = SubSeq(us, 1, Len(us))
    BY <2>1, ConcatAdjacentSubSeq DEF From
  <2>3. QED
    BY <2>2, SubSeqFull
<1>5. QED
  BY <1>2, <1>3, <1>4

\* The elements of a sequence with another behind it.
LEMMA Joined ==
    ASSUME NEW T, NEW a \in Seq(T), NEW b \in Seq(T)
    PROVE  /\ a \o b \in Seq(T) /\ Len(a) \in Nat /\ Len(b) \in Nat
           /\ Len(a \o b) = Len(a) + Len(b)
           /\ \A i \in 1..Len(a) : i \in 1..Len(a \o b) /\ (a \o b)[i] = a[i]
           /\ \A i \in 1..Len(b) : Len(a) + i \in 1..Len(a \o b) /\ (a \o b)[Len(a) + i] = b[i]
           /\ \A i \in 1..Len(a \o b) :
                 i \in 1..Len(a) \/ \E j \in 1..Len(b) : i = Len(a) + j
<1> DEFINE us == a \o b
<1>1. /\ us \in Seq(T) /\ Len(a) \in Nat /\ Len(b) \in Nat /\ Len(us) = Len(a) + Len(b)
      /\ \A i \in 1..Len(a) : us[i] = a[i]
      /\ \A i \in Len(a)+1..Len(us) : us[i] = b[i - Len(a)]
  BY ConcatProperties, LenProperties
<1> HIDE DEF us
<1>2. \A i \in 1..Len(a) : i \in 1..Len(us) /\ us[i] = a[i]
  BY <1>1
<1>3. ASSUME NEW i \in 1..Len(b) PROVE Len(a) + i \in 1..Len(us) /\ us[Len(a) + i] = b[i]
  <2> DEFINE k == Len(a) + i
  <2>1. k \in Len(a)+1..Len(us) /\ k - Len(a) = i
    BY <1>1
  <2> HIDE DEF k
  <2>2. us[k] = b[i] /\ k \in 1..Len(us)
    BY <1>1, <2>1, SMTT(60)
  <2>3. QED
    BY <2>2 DEF k
<1>4. ASSUME NEW i \in 1..Len(us), i \notin 1..Len(a) PROVE \E j \in 1..Len(b) : i = Len(a) + j
  <2>1. i - Len(a) \in 1..Len(b) /\ i = Len(a) + (i - Len(a))
    BY <1>1, <1>4
  <2>2. QED
    BY <2>1
<1>5. QED
  BY <1>1, <1>2, <1>3, <1>4 DEF us

\* What is queued behind a buffer ends the messages of both, none of them twice if
\* the two have none in common.
LEMMA JoinedLasts ==
    ASSUME NEW a \in Seq(Units), NEW b \in Seq(Units)
    PROVE  /\ Lasts(a \o b) = Lasts(a) \cup Lasts(b)
           /\ Once(a \o b) <=> Once(a) /\ Once(b) /\ Lasts(a) \cap Lasts(b) = {}
<1> DEFINE us == a \o b
<1>1. /\ Len(a) \in Nat /\ Len(b) \in Nat
      /\ \A i \in 1..Len(a) : i \in 1..Len(us) /\ us[i] = a[i]
      /\ \A i \in 1..Len(b) : Len(a) + i \in 1..Len(us) /\ us[Len(a) + i] = b[i]
      /\ \A i \in 1..Len(us) : i \in 1..Len(a) \/ \E j \in 1..Len(b) : i = Len(a) + j
  BY Joined
<1> HIDE DEF us
<1>2. Lasts(us) \subseteq Lasts(a) \cup Lasts(b)
  <2> SUFFICES ASSUME NEW i \in 1..Len(us), IsLast(us[i]) PROVE us[i].msg \in Lasts(a) \cup Lasts(b)
    BY DEF Lasts
  <2>1. CASE i \in 1..Len(a)
    BY <1>1, <2>1 DEF Lasts
  <2>2. CASE \E j \in 1..Len(b) : i = Len(a) + j
    <3>1. PICK j \in 1..Len(b) : i = Len(a) + j
      BY <2>2
    <3>2. us[i] = b[j]
      BY <1>1, <3>1
    <3>3. QED
      BY <3>2 DEF Lasts
  <2>3. QED
    BY <1>1, <2>1, <2>2
<1>3. Lasts(a) \subseteq Lasts(us)
  BY <1>1 DEF Lasts
<1>4. Lasts(b) \subseteq Lasts(us)
  <2> SUFFICES ASSUME NEW i \in 1..Len(b), IsLast(b[i]) PROVE b[i].msg \in Lasts(us)
    BY DEF Lasts
  <2>1. Len(a) + i \in 1..Len(us) /\ us[Len(a) + i] = b[i]
    BY <1>1
  <2>2. QED
    BY <2>1 DEF Lasts
<1>5. ASSUME Once(us) PROVE Once(a) /\ Once(b) /\ Lasts(a) \cap Lasts(b) = {}
  <2>1. Once(a)
    BY <1>1, <1>5 DEF Once
  <2>2. Once(b)
    <3> SUFFICES ASSUME NEW i \in 1..Len(b), NEW j \in 1..Len(b), i # j, IsLast(b[i]), IsLast(b[j])
                 PROVE  b[i].msg # b[j].msg
      BY DEF Once
    <3>1. /\ Len(a) + i \in 1..Len(us) /\ Len(a) + j \in 1..Len(us) /\ Len(a) + i # Len(a) + j
          /\ us[Len(a) + i] = b[i] /\ us[Len(a) + j] = b[j]
      BY <1>1
    <3>2. QED
      BY <1>5, <3>1 DEF Once
  <2>3. Lasts(a) \cap Lasts(b) = {}
    <3> SUFFICES ASSUME NEW i \in 1..Len(a), NEW j \in 1..Len(b), IsLast(a[i]), IsLast(b[j])
                 PROVE  a[i].msg # b[j].msg
      BY DEF Lasts
    <3>1. /\ i \in 1..Len(us) /\ Len(a) + j \in 1..Len(us) /\ i # Len(a) + j
          /\ us[i] = a[i] /\ us[Len(a) + j] = b[j]
      BY <1>1
    <3>2. QED
      BY <1>5, <3>1 DEF Once
  <2>4. QED
    BY <2>1, <2>2, <2>3
<1>6. ASSUME Once(a), Once(b), Lasts(a) \cap Lasts(b) = {} PROVE Once(us)
  <2> SUFFICES ASSUME NEW i \in 1..Len(us), NEW j \in 1..Len(us), i # j, IsLast(us[i]), IsLast(us[j])
               PROVE  us[i].msg # us[j].msg
    BY DEF Once
  <2>1. ASSUME NEW k \in 1..Len(a), NEW l \in 1..Len(b), IsLast(a[k]), IsLast(b[l])
        PROVE  a[k].msg # b[l].msg
    BY <1>6, <2>1 DEF Lasts
  <2>2. CASE i \in 1..Len(a) /\ j \in 1..Len(a)
    BY <1>1, <1>6, <2>2 DEF Once
  <2>3. CASE i \in 1..Len(a) /\ j \notin 1..Len(a)
    <3>1. PICK l \in 1..Len(b) : j = Len(a) + l
      BY <1>1, <2>3
    <3>2. us[j] = b[l] /\ us[i] = a[i]
      BY <1>1, <2>3, <3>1
    <3>3. QED
      BY <2>1, <2>3, <3>2
  <2>4. CASE i \notin 1..Len(a) /\ j \in 1..Len(a)
    <3>1. PICK l \in 1..Len(b) : i = Len(a) + l
      BY <1>1, <2>4
    <3>2. us[i] = b[l] /\ us[j] = a[j]
      BY <1>1, <2>4, <3>1
    <3>3. QED
      BY <2>1, <2>4, <3>2
  <2>5. CASE i \notin 1..Len(a) /\ j \notin 1..Len(a)
    <3>1. PICK k \in 1..Len(b) : i = Len(a) + k
      BY <1>1, <2>5
    <3>2. PICK l \in 1..Len(b) : j = Len(a) + l
      BY <1>1, <2>5
    <3>3. us[i] = b[k] /\ us[j] = b[l] /\ k # l
      BY <1>1, <3>1, <3>2
    <3>4. QED
      BY <1>6, <3>3 DEF Once
  <2>6. QED
    BY <2>2, <2>3, <2>4, <2>5
<1>7. QED
  BY <1>2, <1>3, <1>4, <1>5, <1>6 DEF us

\* Concatenation by a name of its own: its laws are all that is needed here.
Cat(a, b) == a \o b

\* It needs no parentheses, and an empty sequence adds nothing.
LEMMA CatLaws ==
    ASSUME NEW a \in Seq(Units), NEW b \in Seq(Units), NEW c \in Seq(Units)
    PROVE  /\ Cat(Cat(a, b), c) = Cat(a, Cat(b, c))
           /\ Cat(a, b) \in Seq(Units) /\ Cat(a, <<>>) = a
BY ConcatAssociative, ConcatProperties, ConcatEmptySeq DEF Cat

\* What is written and what is left of a buffer make the same stream.
LEMMA DividedStream ==
    ASSUME NEW w \in Seq(Units), NEW us \in Seq(Units), NEW n \in 0..Len(us)
    PROVE  (w \o SubSeq(us, 1, n)) \o From(us, n + 1) = w \o us
<1> DEFINE a == SubSeq(us, 1, n)
           b == From(us, n + 1)
<1>1. a \in Seq(Units) /\ b \in Seq(Units) /\ Cat(a, b) = us
  BY Divided DEF Cat
<1> HIDE DEF a, b
<1>2. Cat(Cat(w, a), b) = Cat(w, us)
  BY <1>1, CatLaws
<1>3. QED
  BY <1>2 DEF Cat, a, b

\* The same with more behind the buffer.
LEMMA WrittenStream ==
    ASSUME NEW w \in Seq(Units), NEW us \in Seq(Units), NEW e \in Seq(Units), NEW n \in 0..Len(us)
    PROVE  (w \o SubSeq(us, 1, n)) \o (From(us, n + 1) \o e) = w \o (us \o e)
<1> DEFINE a == SubSeq(us, 1, n)
           b == From(us, n + 1)
<1>1. a \in Seq(Units) /\ b \in Seq(Units) /\ Cat(a, b) = us
  BY Divided DEF Cat
<1> HIDE DEF a, b
<1>2. Cat(Cat(w, a), Cat(b, e)) = Cat(w, Cat(us, e))
  BY <1>1, CatLaws
<1>3. QED
  BY <1>2 DEF Cat, a, b

\* A write of n units ends other messages than what is left of the buffer.
LEMMA DividedLasts ==
    ASSUME NEW us \in Seq(Units), NEW n \in 0..Len(us), Once(us)
    PROVE  /\ Lasts(us) = Lasts(SubSeq(us, 1, n)) \cup Lasts(From(us, n + 1))
           /\ Once(SubSeq(us, 1, n)) /\ Once(From(us, n + 1))
           /\ Lasts(SubSeq(us, 1, n)) \cap Lasts(From(us, n + 1)) = {}
<1> DEFINE a == SubSeq(us, 1, n)
           b == From(us, n + 1)
<1>1. a \in Seq(Units) /\ b \in Seq(Units) /\ a \o b = us
  BY Divided
<1> HIDE DEF a, b
<1>2. Lasts(us) = Lasts(a) \cup Lasts(b) /\ Once(a) /\ Once(b) /\ Lasts(a) \cap Lasts(b) = {}
  BY <1>1, JoinedLasts
<1>3. QED
  BY <1>2 DEF a, b

-----------------------------------------------------------------------------
(* Finished and Vector of flushWrite *)

\* g lists the messages that each prefix of us, up to its n first units, ends.
UpTo(us, n, g) ==
    g = [i \in 0..n |-> IF i = 0 THEN <<>>
                        ELSE IF IsLast(us[i]) THEN Append(g[i - 1], us[i].msg) ELSE g[i - 1]]

\* The list that Finished reads exists for every buffer.
LEMMA UpToExists ==
    ASSUME NEW us \in Seq(Units)
    PROVE  \E g : UpTo(us, Len(us), g) /\ Finished(us) = g[Len(us)]
<1> DEFINE S == {i \in 0..Len(us) : \E g : UpTo(us, i, g)}
<1>1. Len(us) \in Nat
  OBVIOUS
<1>2. 0 \in S
  <2>1. UpTo(us, 0, [i \in 0..0 |-> <<>>])
    BY DEF UpTo
  <2>2. QED
    BY <1>1, <2>1
<1>3. ASSUME NEW n \in 1..Len(us), n - 1 \in S PROVE n \in S
  <2>1. PICK g : UpTo(us, n - 1, g)
    BY <1>3
  <2> DEFINE h == [i \in 0..n |-> IF i < n THEN g[i]
                                  ELSE IF IsLast(us[n]) THEN Append(g[n - 1], us[n].msg) ELSE g[n - 1]]
  <2>2. \A i \in 0..n-1 : g[i] = IF i = 0 THEN <<>>
                                 ELSE IF IsLast(us[i]) THEN Append(g[i - 1], us[i].msg) ELSE g[i - 1]
    BY <2>1 DEF UpTo
  <2>3. \A i \in 0..n : h[i] = IF i = 0 THEN <<>>
                               ELSE IF IsLast(us[i]) THEN Append(h[i - 1], us[i].msg) ELSE h[i - 1]
    BY <2>2
  <2>4. h = [i \in 0..n |-> h[i]]
    OBVIOUS
  <2> HIDE DEF h
  <2>5. UpTo(us, n, h)
    BY <2>3, <2>4 DEF UpTo
  <2>6. QED
    BY <2>5
<1> HIDE DEF S
<1>4. \A i \in 0..Len(us) : i \in S
  BY <1>1, <1>2, <1>3, Upwards
<1>5. PICK g0 : UpTo(us, Len(us), g0)
  BY <1>1, <1>4 DEF S
<1>6. QED
  BY <1>5, Zenon DEF Finished, UpTo

\* The callbacks that a flush runs are those of the messages it ended, each once.
LEMMA FinishedLasts ==
    ASSUME NEW us \in Seq(Units)
    PROVE  LET fs == Finished(us)
           IN  /\ fs \in Seq(1..MaxMsgs)
               /\ \A k \in 1..Len(fs) : fs[k] \in Lasts(us)
               /\ Once(us) => \A k, l \in 1..Len(fs) : k # l => fs[k] # fs[l]
<1>1. PICK g : UpTo(us, Len(us), g) /\ Finished(us) = g[Len(us)]
  BY UpToExists
<1>2. Len(us) \in Nat /\ \A i \in 1..Len(us) : us[i] \in Units
  BY ElementOfSeq
<1>3. \A i \in 0..Len(us) : g[i] = IF i = 0 THEN <<>>
                                   ELSE IF IsLast(us[i]) THEN Append(g[i - 1], us[i].msg) ELSE g[i - 1]
  BY <1>1 DEF UpTo
<1> DEFINE Ends(i) == \A k \in 1..Len(g[i]) : \E j \in 1..i : IsLast(us[j]) /\ g[i][k] = us[j].msg
           Differ(i) == Once(us) => \A k, l \in 1..Len(g[i]) : k # l => g[i][k] # g[i][l]
           S == {i \in 0..Len(us) : g[i] \in Seq(1..MaxMsgs) /\ Ends(i) /\ Differ(i)}
<1>4. 0 \in S
  <2>1. g[0] = <<>> /\ 0 \in 0..Len(us)
    BY <1>2, <1>3
  <2>2. Ends(0) /\ Differ(0)
    BY <2>1
  <2>3. g[0] \in Seq(1..MaxMsgs)
    BY <2>1
  <2>4. QED
    BY <2>1, <2>2, <2>3
<1>5. ASSUME NEW n \in 1..Len(us), n - 1 \in S PROVE n \in S
  <2>1. g[n - 1] \in Seq(1..MaxMsgs) /\ Ends(n - 1) /\ Differ(n - 1)
    BY <1>5
  <2>2. CASE ~IsLast(us[n])
    <3>1. g[n] = g[n - 1]
      BY <1>2, <1>3, <2>2
    <3>2. Ends(n)
      BY <1>2, <2>1, <3>1
    <3>3. n \in 0..Len(us) /\ g[n] \in Seq(1..MaxMsgs) /\ Differ(n)
      BY <1>2, <2>1, <3>1
    <3> HIDE DEF Ends, Differ
    <3>4. QED
      BY <3>2, <3>3
  <2>3. CASE IsLast(us[n])
    <3> DEFINE f == g[n - 1]
               m == us[n].msg
    <3>1. g[n] = Append(f, m)
      <4>1. n \in 0..Len(us) /\ n # 0
        BY <1>2
      <4>2. QED
        BY <1>3, <2>3, <4>1, Zenon
    <3>2. m \in 1..MaxMsgs
      BY <1>2 DEF Units
    <3>3. /\ g[n] \in Seq(1..MaxMsgs) /\ Len(g[n]) = Len(f) + 1 /\ Len(f) \in Nat
          /\ \A k \in 1..Len(f) : g[n][k] = f[k]
          /\ g[n][Len(f) + 1] = m
      <4> HIDE DEF f, m
      <4>1. f \in Seq(1..MaxMsgs)
        BY <2>1 DEF f
      <4>2. QED
        BY <3>1, <3>2, <4>1
    <3>4. \A k \in 1..Len(f) : \E j \in 1..n - 1 : IsLast(us[j]) /\ f[k] = us[j].msg
      BY <2>1
    <3>5. Once(us) => \A k, l \in 1..Len(f) : k # l => f[k] # f[l]
      BY <2>1
    <3>6. Once(us) => \A k \in 1..Len(f) : f[k] # m
      <4> SUFFICES ASSUME Once(us), NEW k \in 1..Len(f) PROVE f[k] # m
        OBVIOUS
      <4>1. PICK j \in 1..n - 1 : IsLast(us[j]) /\ f[k] = us[j].msg
        BY <3>4
      <4>2. j \in 1..Len(us) /\ j # n
        BY <1>2
      <4>3. QED
        BY <2>3, <4>1, <4>2 DEF Once
    <3>7. \A k \in 1..Len(g[n]) : k \in 1..Len(f) \/ k = Len(f) + 1
      <4> HIDE DEF f, m
      <4>1. QED
        BY <3>3
    <3>8. Ends(n)
      <4> SUFFICES ASSUME NEW k \in 1..Len(g[n])
                   PROVE  \E j \in 1..n : IsLast(us[j]) /\ g[n][k] = us[j].msg
        OBVIOUS
      <4>1. CASE k \in 1..Len(f)
        <5>1. PICK j \in 1..n - 1 : IsLast(us[j]) /\ f[k] = us[j].msg
          BY <3>4, <4>1
        <5>2. j \in 1..n /\ g[n][k] = f[k]
          BY <1>2, <3>3, <4>1
        <5>3. QED
          BY <5>1, <5>2
      <4>2. CASE k = Len(f) + 1
        BY <1>2, <2>3, <3>3, <4>2
      <4>3. QED
        BY <3>7, <4>1, <4>2
    <3>9. Differ(n)
      <4> HIDE DEF f, m
      <4> SUFFICES ASSUME Once(us), NEW k \in 1..Len(g[n]), NEW l \in 1..Len(g[n]), k # l
                   PROVE  g[n][k] # g[n][l]
        OBVIOUS
      <4>1. QED
        BY <3>3, <3>5, <3>6, <3>7
    <3>10. n \in 0..Len(us)
      BY <1>2
    <3> HIDE DEF f, m, Ends, Differ
    <3>11. QED
      BY <3>3, <3>8, <3>9, <3>10
  <2>4. QED
    BY <2>2, <2>3
<1>6. Len(us) \in S
  <2> HIDE DEF S
  <2>1. \A i \in 0..Len(us) : i \in S
    BY <1>2, <1>4, <1>5, Upwards
  <2>2. QED
    BY <1>2, <2>1
<1>7. Ends(Len(us)) => \A k \in 1..Len(g[Len(us)]) : g[Len(us)][k] \in Lasts(us)
  BY DEF Lasts
<1>8. QED
  BY <1>1, <1>6, <1>7

\* What is given to the kernel at once is a prefix of what is pending.
LEMMA VectorPrefix ==
    ASSUME NEW us \in Seq(Units)
    PROVE  \E k \in 0..Len(us) : Vector(us) = SubSeq(us, 1, k)
<1> DEFINE past == {i \in DOMAIN us : Cardinality({j \in 1..i - 1 : IsLast(us[j])}) >= MaxIov}
<1>1. Len(us) \in Nat /\ DOMAIN us = 1..Len(us)
  OBVIOUS
<1>2. us = SubSeq(us, 1, Len(us))
  BY SubSeqFull
<1>3. past \subseteq Nat /\ past \subseteq 1..Len(us)
  BY <1>1
<1>4. Vector(us) = IF tls # "none" THEN us ELSE IF past = {} THEN us ELSE SubSeq(us, 1, Min(past) - 1)
  BY DEF Vector
<1> HIDE DEF past
<1>5. past # {} => Min(past) - 1 \in 0..Len(us)
  <2>1. past # {} => Min(past) \in 1..Len(us)
    BY <1>3, HasMin
  <2>2. QED
    BY <1>1, <2>1
<1>6. QED
  BY <1>1, <1>2, <1>4, <1>5

\* A write takes no more than there is room for, and no more than it is given.
LEMMA Written ==
    ASSUME NEW r \in Nat, NEW n \in Nat
    PROVE  Min({r, n}) \in 0..n /\ Min({r, n}) <= r /\ (Min({r, n}) = r \/ Min({r, n}) = n)
<1>1. {r, n} \subseteq Nat /\ {r, n} # {}
  OBVIOUS
<1>2. Min({r, n}) \in {r, n} /\ \A y \in {r, n} : Min({r, n}) <= y
  BY <1>1, HasMin
<1> DEFINE m == Min({r, n})
<1>3. (m = r \/ m = n) /\ m <= r /\ m <= n
  BY <1>2
<1> HIDE DEF m
<1>4. m \in 0..n /\ m <= r /\ (m = r \/ m = n)
  BY <1>3
<1>5. QED
  BY <1>4 DEF m

-----------------------------------------------------------------------------
(* The messages of a state *)

OnWire(m) == \E c \in 1..conns : \E k \in DOMAIN wire[c] : wire[c][k] = [msg |-> m, part |-> Size]

\* The message that a thread sends, is about to queue, or whose callback it is to run.
Holds(t) == IF thread[t] \in {"try", "queue", "callback"} THEN {packet[t].msg} ELSE {}
Buffered == Lasts(drain) \cup Lasts(queue)
Called == {called[i] : i \in DOMAIN called}

Numbered ==
    /\ Buffered \cup Called \subseteq 1..sent
    /\ \A t \in Threads : Holds(t) \subseteq 1..sent

\* A message is in one place: with a thread, to be ended by a buffer, or called.
Apart ==
    /\ Once(drain) /\ Once(queue) /\ Lasts(drain) \cap Lasts(queue) = {}
    /\ \A i, j \in DOMAIN called : i # j => called[i] # called[j]
    /\ Buffered \cap Called = {}
    /\ \A t \in Threads : Holds(t) \cap (Buffered \cup Called) = {}
    /\ \A t, u \in Threads : t # u => Holds(t) \cap Holds(u) = {}

\* What a thread has of its message.
HasPart(t) ==
    /\ thread[t] = "try" => packet[t] = Packet(packet[t].msg)
    /\ thread[t] = "queue" => Once(packet[t].rest) /\ Lasts(packet[t].rest) \subseteq Holds(t)
    /\ thread[t] = "callback" => OnWire(packet[t].msg)
Parts == \A t \in Threads : HasPart(t)

Reached ==
    /\ \A m \in Called : OnWire(m)
    /\ socket # "none" => conns # 0

CallInv == TypeOK /\ Numbered /\ Apart /\ Parts /\ Reached

-----------------------------------------------------------------------------
(* Type correctness *)

\* The constants that bound a state are numbers.
LEMMA Bounds ==
    /\ Size \in Nat \ {0} /\ Capacity \in Nat \ {0} /\ MaxIov \in Nat \ {0}
    /\ MaxMsgs \in Nat \ {0} /\ MaxConns \in Nat \ {0}
    /\ "nobody" \notin Threads /\ "reader" \in Threads
BY WritePathAssumption DEF Threads

\* NetworkHandler::send makes a packet of Size units.
LEMMA PacketType ==
    ASSUME NEW n \in 1..MaxMsgs
    PROVE  /\ Packet(n) \in [msg: 0..MaxMsgs, rest: Seq(Units)]
           /\ Packet(n).msg = n /\ Len(Packet(n).rest) = Size
           /\ \A k \in 1..Size : Packet(n).rest[k] = [msg |-> n, part |-> k]
<1> DEFINE r == [k \in 1..Size |-> [msg |-> n, part |-> k]]
<1>1. Size \in Nat /\ MaxMsgs \in Nat
  BY Bounds
<1>2. \A k \in 1..Size : [msg |-> n, part |-> k] \in Units
  BY <1>1 DEF Units
<1>3. r \in Seq(Units) /\ Len(r) = Size
  BY <1>1, <1>2
<1>4. \A k \in 1..Size : r[k] = [msg |-> n, part |-> k]
  OBVIOUS
<1> HIDE DEF r
<1>5. Packet(n) = [msg |-> n, rest |-> r]
  BY DEF Packet, r
<1>6. QED
  BY <1>1, <1>3, <1>4, <1>5

\* Nothing is sent, buffered or connected at first.
LEMMA TypeInit == Init => TypeOK
<1> SUFFICES ASSUME Init PROVE TypeOK
  OBVIOUS
<1>1. NoPacket \in [msg: 0..MaxMsgs, rest: Seq(Units)]
  BY Bounds DEF NoPacket
<1>2. /\ thread \in [Threads -> Inside \cup {"idle", "callback"}]
      /\ mutex \in Threads \cup {"nobody"}
      /\ \A t \in Threads : mutex = t <=> thread[t] \in Inside
  BY Bounds DEF Init, Inside
<1>3. /\ packet \in [Threads -> [msg: 0..MaxMsgs, rest: Seq(Units)]]
      /\ wire \in [1..MaxConns -> Seq(Units)]
  BY <1>1 DEF Init
<1>4. room \in 0..Capacity /\ conns \in 0..MaxConns /\ sent \in 0..MaxMsgs
  BY Bounds DEF Init
<1>5. <<>> \in Seq(Units) /\ <<>> \in Seq(1..MaxMsgs)
  OBVIOUS
<1>6. QED
  BY <1>2, <1>3, <1>4, <1>5 DEF Init, TypeOK

\* What a write takes leaves types as they are.
LEMMA TakeType ==
    ASSUME TypeOK, NEW us \in Seq(Units), NEW n \in 0..Len(us), n <= room, Take(us, n)
    PROVE  /\ wire' \in [1..MaxConns -> Seq(Units)] /\ room' \in 0..Capacity /\ noSpace' \in BOOLEAN
           /\ socket' = socket /\ conns' = conns
<1>1. SubSeq(us, 1, n) \in Seq(Units)
  BY Divided
<1>2. \A c \in 1..MaxConns : wire[c] \o SubSeq(us, 1, n) \in Seq(Units)
  BY <1>1, ConcatProperties DEF TypeOK
<1>3. wire' \in [1..MaxConns -> Seq(Units)]
  BY <1>2 DEF Take, TypeOK
<1>4. room' \in 0..Capacity
  BY Bounds DEF Take, TypeOK
<1>5. QED
  BY <1>3, <1>4 DEF Take, TypeOK

\* A thread that moves into or out of send takes or leaves the mutex.
LEMMA MutexType ==
    ASSUME TypeOK, NEW t \in Threads, NEW pc \in Inside \cup {"idle", "callback"},
           Goes(t, pc), mutex \in {t, "nobody"},
           mutex' = IF pc \in Inside THEN t ELSE IF mutex = t THEN "nobody" ELSE mutex
    PROVE  /\ thread' \in [Threads -> Inside \cup {"idle", "callback"}]
           /\ mutex' \in Threads \cup {"nobody"}
           /\ \A u \in Threads : mutex' = u <=> thread'[u] \in Inside
<1>1. thread' \in [Threads -> Inside \cup {"idle", "callback"}]
  BY DEF Goes, TypeOK
<1>2. thread'[t] = pc /\ \A u \in Threads : u # t => thread'[u] = thread[u]
  BY DEF Goes, TypeOK
<1>3. "idle" \notin Inside /\ "callback" \notin Inside
  BY DEF Inside
<1>4. QED
  BY <1>1, <1>2, <1>3, Bounds DEF TypeOK

\* The writing, flushing or queueing of trySend and queueWrite keep the types.
LEMMA SenderTypes ==
    ASSUME TypeOK, Numbered, NEW t \in Threads, Begin(t) \/ BeginDisconnect(t) \/ Step(t)
    PROVE  TypeOK'
<1> USE DEF handlerVars, threadVars, bufferVars, readerVars, socketVars, tlsVars
<1>1. NoPacket \in [msg: 0..MaxMsgs, rest: Seq(Units)]
  BY Bounds DEF NoPacket
<1>2. thread[t] \in Inside => mutex = t
  BY DEF TypeOK
<1>3. CASE Begin(t) /\ valid
  <2>1. /\ mutex' = t /\ Goes(t, "try") /\ mutex = "nobody" /\ sent < MaxMsgs
        /\ sent' = sent + 1 /\ packet' = [packet EXCEPT ![t] = Packet(sent + 1)]
        /\ UNCHANGED <<connection, valid, bufferVars, readerVars, socketVars, tlsVars, called>>
    BY <1>3 DEF Begin, Free
  <2>2. sent + 1 \in 1..MaxMsgs
    BY <2>1, Bounds DEF TypeOK
  <2>3. packet' \in [Threads -> [msg: 0..MaxMsgs, rest: Seq(Units)]]
    BY <2>1, <2>2, PacketType DEF TypeOK
  <2>4. /\ thread' \in [Threads -> Inside \cup {"idle", "callback"}]
        /\ mutex' \in Threads \cup {"nobody"}
        /\ \A u \in Threads : mutex' = u <=> thread'[u] \in Inside
    BY <2>1, MutexType, SMTT(60) DEF Inside
  <2>5. QED
    BY <2>1, <2>2, <2>3, <2>4 DEF TypeOK
<1>4. CASE Begin(t) /\ ~valid
  BY <1>4 DEF Begin, TypeOK
<1>5. CASE BeginDisconnect(t) /\ valid
  <2>1. /\ mutex' = t /\ Goes(t, "close") /\ mutex = "nobody"
        /\ UNCHANGED <<connection, valid, packet, sent, bufferVars, readerVars, socketVars, tlsVars, called>>
    BY <1>5 DEF BeginDisconnect, Free
  <2>2. /\ thread' \in [Threads -> Inside \cup {"idle", "callback"}]
        /\ mutex' \in Threads \cup {"nobody"}
        /\ \A u \in Threads : mutex' = u <=> thread'[u] \in Inside
    BY <2>1, MutexType, SMTT(60) DEF Inside
  <2>3. QED
    BY <2>1, <2>2 DEF TypeOK
<1>6. CASE BeginDisconnect(t) /\ ~valid
  BY <1>6 DEF BeginDisconnect, TypeOK
<1>7. CASE TryInline(t)
  <2> DEFINE us == packet[t].rest
             n == Min({room, Len(us)})
  <2>1. us \in Seq(Units) /\ Len(us) \in Nat /\ room \in Nat
    BY Bounds DEF TypeOK
  <2>2. n \in 0..Len(us) /\ n <= room
    BY <2>1, Written
  <2>3. /\ thread[t] = "try" /\ Take(us, n)
        /\ packet' = [packet EXCEPT ![t].rest = From(us, n + 1)]
        /\ Goes(t, IF n = Len(us) THEN "callback" ELSE "queue")
        /\ mutex' = IF n = Len(us) THEN "nobody" ELSE mutex
        /\ UNCHANGED <<connection, valid, sent, bufferVars, readerVars, tlsVars, called>>
    BY <1>7 DEF TryInline, WriteInline
  <2> HIDE DEF us, n
  <2>4. /\ wire' \in [1..MaxConns -> Seq(Units)] /\ room' \in 0..Capacity /\ noSpace' \in BOOLEAN
        /\ socket' = socket /\ conns' = conns
    BY <2>1, <2>2, <2>3, TakeType
  <2>5. From(us, n + 1) \in Seq(Units)
    BY <2>1, <2>2, Divided
  <2>6. packet' \in [Threads -> [msg: 0..MaxMsgs, rest: Seq(Units)]]
    BY <2>3, <2>5 DEF TypeOK
  <2>7. mutex = t
    BY <1>2, <2>3 DEF Inside
  <2>8. /\ thread' \in [Threads -> Inside \cup {"idle", "callback"}]
        /\ mutex' \in Threads \cup {"nobody"}
        /\ \A u \in Threads : mutex' = u <=> thread'[u] \in Inside
    <3>1. CASE n = Len(us)
      BY <2>3, <2>7, <3>1, MutexType DEF Inside
    <3>2. CASE n # Len(us)
      BY <2>3, <2>7, <3>2, MutexType DEF Inside
    <3>3. QED
      BY <3>1, <3>2
  <2>9. QED
    BY <2>3, <2>4, <2>6, <2>8, SMTT(60) DEF TypeOK
<1>8. CASE TryFails(t)
  <2>1. thread[t] = "try" /\ Goes(t, "queue") /\ mutex' = mutex /\ mutex = t
    BY <1>2, <1>8 DEF TryFails, Inside
  <2>2. /\ thread' \in [Threads -> Inside \cup {"idle", "callback"}]
        /\ mutex' \in Threads \cup {"nobody"}
        /\ \A u \in Threads : mutex' = u <=> thread'[u] \in Inside
    BY <2>1, MutexType, SMTT(60) DEF Inside
  <2>3. QED
    BY <1>8, <2>2 DEF TryFails, TypeOK
<1>9. CASE QueueWrite(t)
  <2>1. thread[t] = "queue" /\ Goes(t, "wake") /\ mutex' = mutex /\ mutex = t
    BY <1>2, <1>9 DEF QueueWrite, Inside
  <2>2. /\ thread' \in [Threads -> Inside \cup {"idle", "callback"}]
        /\ mutex' \in Threads \cup {"nobody"}
        /\ \A u \in Threads : mutex' = u <=> thread'[u] \in Inside
    BY <2>1, MutexType, SMTT(60) DEF Inside
  <2>3. queue' \in Seq(Units)
    BY <1>9, Joined DEF QueueWrite, TypeOK
  <2>4. packet' \in [Threads -> [msg: 0..MaxMsgs, rest: Seq(Units)]]
    BY <1>1, <1>9, SMTT(60) DEF QueueWrite, TypeOK
  <2>5. QED
    BY <1>9, <2>2, <2>3, <2>4 DEF QueueWrite, TypeOK
<1>10. CASE Wake(t)
  <2>1. thread[t] = "wake" /\ Goes(t, "idle") /\ mutex' = "nobody" /\ mutex = t
    BY <1>2, <1>10 DEF Wake, Inside
  <2>2. /\ thread' \in [Threads -> Inside \cup {"idle", "callback"}]
        /\ mutex' \in Threads \cup {"nobody"}
        /\ \A u \in Threads : mutex' = u <=> thread'[u] \in Inside
    BY <2>1, MutexType, SMTT(60) DEF Inside
  <2>3. QED
    BY <1>10, <2>2 DEF Wake, TypeOK
<1>11. CASE Callback(t)
  <2>1. thread' \in [Threads -> Inside \cup {"idle", "callback"}]
    BY <1>11 DEF Callback, Goes, TypeOK
  <2>2. thread[t] = "callback" /\ thread'[t] = "idle" /\ mutex' = mutex
        /\ \A u \in Threads : u # t => thread'[u] = thread[u]
    BY <1>11 DEF Callback, Goes, TypeOK
  <2>3. \A u \in Threads : mutex' = u <=> thread'[u] \in Inside
    BY <2>2 DEF TypeOK, Inside
  <2>4. packet[t].msg \in 1..MaxMsgs
    <3>1. packet[t].msg \in 1..sent
      BY <2>2 DEF Numbered, Holds
    <3>2. QED
      BY <3>1, Bounds DEF TypeOK
  <2>5. called' \in Seq(1..MaxMsgs)
    BY <1>11, <2>4 DEF Callback, TypeOK
  <2>6. packet' \in [Threads -> [msg: 0..MaxMsgs, rest: Seq(Units)]]
    BY <1>1, <1>11 DEF Callback, TypeOK
  <2>7. QED
    BY <1>11, <2>1, <2>3, <2>5, <2>6 DEF Callback, TypeOK
<1>12. CASE Close(t)
  <2>1. thread[t] = "close" /\ Goes(t, "erase") /\ mutex' = mutex /\ mutex = t
    BY <1>2, <1>12 DEF Close, Inside
  <2>2. /\ thread' \in [Threads -> Inside \cup {"idle", "callback"}]
        /\ mutex' \in Threads \cup {"nobody"}
        /\ \A u \in Threads : mutex' = u <=> thread'[u] \in Inside
    BY <2>1, MutexType, SMTT(60) DEF Inside
  <2>3. QED
    BY <1>12, <2>2 DEF Close, CloseSocket, RemoveConnection, TypeOK
<1>13. CASE EndDisconnect(t)
  <2>1. thread[t] = "erase" /\ Goes(t, "idle") /\ mutex' = "nobody" /\ mutex = t
    BY <1>2, <1>13 DEF EndDisconnect, Inside
  <2>2. /\ thread' \in [Threads -> Inside \cup {"idle", "callback"}]
        /\ mutex' \in Threads \cup {"nobody"}
        /\ \A u \in Threads : mutex' = u <=> thread'[u] \in Inside
    BY <2>1, MutexType, SMTT(60) DEF Inside
  <2>3. queue' \in Seq(Units) /\ drain' \in Seq(Units)
    BY <1>13, SMTT(60) DEF EndDisconnect, EraseBuffers
  <2>4. QED
    BY <1>13, <2>2, <2>3 DEF EndDisconnect, TypeOK
<1>14. QED
  BY <1>3, <1>4, <1>5, <1>6, <1>7, <1>8, <1>9, <1>10, <1>11, <1>12, <1>13 DEF Step

\* A flush in which the kernel takes n units of what is pending.
Wrote(pending, later, n) ==
    /\ Taking /\ n <= room
    /\ wire' = [wire EXCEPT ![conns] = @ \o SubSeq(pending, 1, n)]
    /\ room' = room - n /\ noSpace' \in BOOLEAN /\ UNCHANGED <<socket, conns>>
    /\ drain' = From(pending, n + 1) /\ queue' = later
    /\ called' = called \o Finished(SubSeq(pending, 1, n))

\* flushWrite takes a prefix of what is pending, or nothing, or drops it.
LEMMA FlushDoes ==
    ASSUME TypeOK, Flush
    PROVE  /\ reader = "flush" /\ reader' = "wait"
           /\ UNCHANGED <<handlerVars, threadVars, event, ready, tlsVars>>
           /\ \E pending, later \in Seq(Units) :
                 /\ \/ pending = drain /\ later = queue
                    \/ drain = <<>> /\ pending = queue /\ later = <<>>
                 /\ \/ UNCHANGED <<bufferVars, socketVars, called>>
                    \/ drain' = pending /\ queue' = later /\ UNCHANGED <<socketVars, called>>
                    \/ ~Taking /\ EraseBuffers /\ UNCHANGED <<socketVars, called>>
                    \/ \E n \in 0..Len(pending) : Wrote(pending, later, n)
<1>1. PICK pending \in Seq(Units), later \in Seq(Units) :
         /\ WriteOut(pending, later)
         /\ \/ pending = drain /\ later = queue
            \/ drain = <<>> /\ pending = queue /\ later = <<>>
  BY SMTT(60) DEF Flush, TypeOK
<1> DEFINE us == Vector(pending)
           n == Min({room, Len(us)})
<1>2. PICK k \in 0..Len(pending) : us = SubSeq(pending, 1, k)
  BY VectorPrefix
<1>3. us \in Seq(Units) /\ Len(us) = k /\ Len(pending) \in Nat /\ room \in Nat
  <2>1. Len(pending) \in Nat /\ room \in Nat
    BY Bounds DEF TypeOK
  <2> HIDE DEF us
  <2>2. us \in Seq(Units) /\ Len(us) = k
    BY <1>2, Divided
  <2>3. QED
    BY <2>1, <2>2
<1>4. n \in 0..k /\ n <= room
  <2> HIDE DEF us
  <2>1. QED
    BY <1>3, Written, SMTT(60)
<1>5. SubSeq(us, 1, n) = SubSeq(pending, 1, n)
  <2> HIDE DEF us, n
  <2>1. \A i \in 1..k : us[i] = pending[i]
    BY <1>2, <1>3, SubSeqProperties
  <2>2. /\ Len(SubSeq(us, 1, n)) = n /\ SubSeq(us, 1, n) \in Seq(Units)
        /\ \A i \in 1..n : SubSeq(us, 1, n)[i] = us[i]
    <3>1. us \in Seq(Units) /\ n \in 0..Len(us) /\ Len(us) \in Nat
      BY <1>3, <1>4
    <3>2. QED
      BY <3>1, SubSeqProperties
  <2>3. /\ Len(SubSeq(pending, 1, n)) = n /\ SubSeq(pending, 1, n) \in Seq(Units)
        /\ \A i \in 1..n : SubSeq(pending, 1, n)[i] = pending[i]
    <3>1. n \in 0..Len(pending) /\ Len(pending) \in Nat
      BY <1>3, <1>4
    <3>2. QED
      BY <3>1, SubSeqProperties
  <2>4. \A i \in 1..n : SubSeq(us, 1, n)[i] = SubSeq(pending, 1, n)[i]
    BY <1>3, <1>4, <2>1, <2>2, <2>3
  <2>5. QED
    BY <2>2, <2>3, <2>4, SeqEqual
<1>6. n \in 0..Len(pending)
  <2> HIDE DEF us, n
  <2>1. QED
    BY <1>3, <1>4
<1>7. /\ \/ UNCHANGED <<bufferVars, socketVars, called>>
         \/ drain' = pending /\ queue' = later /\ UNCHANGED <<socketVars, called>>
         \/ ~Taking /\ EraseBuffers /\ UNCHANGED <<socketVars, called>>
         \/ Taking /\ Take(us, n) /\ drain' = From(pending, n + 1) /\ queue' = later
            /\ called' = called \o Finished(SubSeq(us, 1, n))
      /\ reader' = "wait"
      /\ UNCHANGED <<handlerVars, threadVars, event, ready, tlsVars>>
  BY <1>1 DEF WriteOut, Completed
<1> HIDE DEF us, n
<1>8. ASSUME Taking, Take(us, n), drain' = From(pending, n + 1), queue' = later,
             called' = called \o Finished(SubSeq(us, 1, n))
      PROVE  Wrote(pending, later, n)
  BY <1>4, <1>5, <1>8 DEF Take, Wrote, TypeOK
<1>9. QED
  BY <1>1, <1>6, <1>7, <1>8 DEF Flush

\* The reader thread's loop and the two ends of the socket keep the types.
LEMMA ReaderTypes ==
    ASSUME TypeOK, ReaderLoop \/ PeerReads \/ PeerSends \/ PeerEnds \/ Dial \/ Assign
    PROVE  TypeOK'
<1> USE DEF handlerVars, threadVars, bufferVars, readerVars, socketVars, tlsVars
<1>1. CASE OnEvent
  BY <1>1 DEF OnEvent, TypeOK
<1>2. CASE OnWritable
  BY <1>2 DEF OnWritable, Progressed, TypeOK
<1>3. CASE Flush
  <2>1. /\ reader' = "wait"
        /\ UNCHANGED <<handlerVars, threadVars, event, ready, tlsVars>>
    BY <1>3, FlushDoes
  <2>2. PICK pending \in Seq(Units), later \in Seq(Units) :
                 \/ UNCHANGED <<bufferVars, socketVars, called>>
                 \/ drain' = pending /\ queue' = later /\ UNCHANGED <<socketVars, called>>
                 \/ ~Taking /\ EraseBuffers /\ UNCHANGED <<socketVars, called>>
                 \/ \E n \in 0..Len(pending) : Wrote(pending, later, n)
    BY <1>3, FlushDoes
  <2>3. CASE UNCHANGED <<bufferVars, socketVars, called>>
    BY <2>1, <2>3 DEF TypeOK
  <2>4. CASE drain' = pending /\ queue' = later /\ UNCHANGED <<socketVars, called>>
    BY <2>1, <2>4 DEF TypeOK
  <2>5. CASE ~Taking /\ EraseBuffers /\ UNCHANGED <<socketVars, called>>
    <3>1. queue' \in Seq(Units) /\ drain' \in Seq(Units)
      BY <2>5 DEF EraseBuffers
    <3>2. QED
      BY <2>1, <2>5, <3>1 DEF TypeOK
  <2>6. CASE \E n \in 0..Len(pending) : Wrote(pending, later, n)
    <3>1. PICK n \in 0..Len(pending) : Wrote(pending, later, n)
      BY <2>6
    <3>2. SubSeq(pending, 1, n) \in Seq(Units) /\ From(pending, n + 1) \in Seq(Units)
      BY Divided
    <3>3. \A c \in 1..MaxConns : wire[c] \o SubSeq(pending, 1, n) \in Seq(Units)
      BY <3>2, ConcatProperties DEF TypeOK
    <3>4. wire' \in [1..MaxConns -> Seq(Units)]
      BY <3>1, <3>3 DEF Wrote, TypeOK
    <3>5. Len(pending) \in Nat
      OBVIOUS
    <3>6. room' \in 0..Capacity
      <4>1. n \in Nat /\ n <= room /\ room' = room - n
        BY <3>1, <3>5 DEF Wrote
      <4>2. QED
        BY <4>1, Bounds DEF TypeOK
    <3>7. called' \in Seq(1..MaxMsgs)
      <4>1. Finished(SubSeq(pending, 1, n)) \in Seq(1..MaxMsgs)
        BY <3>2, FinishedLasts
      <4>2. QED
        BY <3>1, <4>1, ConcatProperties DEF Wrote, TypeOK
    <3>8. QED
      BY <2>1, <3>1, <3>2, <3>4, <3>6, <3>7 DEF Wrote, TypeOK
  <2>7. QED
    BY <2>2, <2>3, <2>4, <2>5, <2>6
<1>4. CASE HangUp
  BY <1>4 DEF HangUp, CloseSocket, RemoveConnection, TypeOK
<1>5. CASE Erase
  <2>1. queue' \in Seq(Units) /\ drain' \in Seq(Units)
    BY <1>5 DEF Erase, EraseBuffers
  <2>2. QED
    BY <1>5, <2>1 DEF Erase, TypeOK
<1>6. CASE PeerReads
  <2>1. room' \in 0..Capacity
    BY <1>6, Bounds DEF PeerReads, TypeOK
  <2>2. ready' \in BOOLEAN /\ noSpace' \in BOOLEAN
    BY <1>6 DEF PeerReads
  <2>3. QED
    BY <1>6, <2>1, <2>2 DEF PeerReads, TypeOK
<1>7. CASE PeerSends
  BY <1>7 DEF PeerSends, TypeOK
<1>8. CASE PeerEnds
  BY <1>8 DEF PeerEnds, TypeOK
<1>9. CASE Dial
  <2>1. room' \in 0..Capacity /\ conns' \in 0..MaxConns
    BY <1>9, Bounds DEF Dial, TypeOK
  <2>2. tls' \in {"none", "shaking"} /\ (tls' # "none" => secured')
    BY <1>9 DEF Dial, TLSEntry
  <2>3. QED
    BY <1>9, <2>1, <2>2 DEF Dial, TypeOK
<1>10. CASE Assign
  BY <1>10 DEF Assign, TypeOK
<1>11. QED
  BY <1>1, <1>2, <1>3, <1>4, <1>5, <1>6, <1>7, <1>8, <1>9, <1>10 DEF ReaderLoop

-----------------------------------------------------------------------------
(* Each message is called once, and written by then *)

\* A message that NetworkHandler::send makes ends once, with its last unit.
LEMMA PacketLasts ==
    ASSUME NEW n \in 1..MaxMsgs
    PROVE  Once(Packet(n).rest) /\ Lasts(Packet(n).rest) = {n}
<1> DEFINE r == Packet(n).rest
<1>1. Len(r) = Size /\ \A k \in 1..Size : r[k] = [msg |-> n, part |-> k]
  BY PacketType
<1>2. Size \in 1..Size
  BY Bounds
<1> HIDE DEF r
<1>3. \A k \in 1..Size : r[k].msg = n /\ (IsLast(r[k]) <=> k = Size)
  BY <1>1 DEF IsLast
<1>4. Once(r)
  BY <1>1, <1>3 DEF Once
<1>5. Lasts(r) = {n}
  BY <1>1, <1>2, <1>3 DEF Lasts
<1>6. QED
  BY <1>4, <1>5 DEF r

\* What is written stays on the wire, and what is added to it is there.
LEMMA AddedToWire ==
    ASSUME TypeOK, conns \in 1..MaxConns, NEW us \in Seq(Units),
           wire' = [wire EXCEPT ![conns] = @ \o us], conns' = conns
    PROVE  /\ \A m : OnWire(m) => OnWire(m)'
           /\ \A m \in Lasts(us) : OnWire(m)'
<1>1. wire[conns] \in Seq(Units) /\ wire'[conns] = wire[conns] \o us
  BY DEF TypeOK
<1>2. \A c \in 1..MaxConns : c # conns => wire'[c] = wire[c]
  BY DEF TypeOK
<1> DEFINE w == wire[conns]
<1>3. /\ DOMAIN w = 1..Len(w) /\ DOMAIN (w \o us) = 1..Len(w \o us)
      /\ \A i \in 1..Len(w) : i \in 1..Len(w \o us) /\ (w \o us)[i] = w[i]
      /\ \A i \in 1..Len(us) : Len(w) + i \in 1..Len(w \o us) /\ (w \o us)[Len(w) + i] = us[i]
  <2> HIDE DEF w
  <2>1. w \in Seq(Units)
    BY <1>1 DEF w
  <2>2. w \o us \in Seq(Units)
    BY <2>1, Joined
  <2>3. DOMAIN w = 1..Len(w) /\ DOMAIN (w \o us) = 1..Len(w \o us)
    BY <2>1, <2>2
  <2>4. QED
    BY <2>1, <2>3, Joined
<1>4. ASSUME NEW m, OnWire(m) PROVE OnWire(m)'
  <2>1. PICK c \in 1..conns : \E k \in DOMAIN wire[c] : wire[c][k] = [msg |-> m, part |-> Size]
    BY <1>4 DEF OnWire
  <2>2. PICK k \in DOMAIN wire[c] : wire[c][k] = [msg |-> m, part |-> Size]
    BY <2>1
  <2>3. c \in 1..MaxConns
    BY Bounds
  <2>4. CASE c = conns
    <3> HIDE DEF w
    <3>1. w = wire[conns] /\ wire'[conns] = w \o us
      BY <1>1 DEF w
    <3>2. k \in DOMAIN wire'[c] /\ wire'[c][k] = wire[c][k]
      BY <1>3, <2>2, <2>4, <3>1
    <3>3. QED
      BY <2>2, <3>2 DEF OnWire
  <2>5. CASE c # conns
    <3>1. wire'[c] = wire[c]
      BY <1>2, <2>3, <2>5
    <3>2. QED
      BY <2>2, <3>1 DEF OnWire
  <2>6. QED
    BY <2>4, <2>5
<1>5. ASSUME NEW i \in 1..Len(us), IsLast(us[i]) PROVE OnWire(us[i].msg)'
  <2>1. us[i] \in Units
    BY ElementOfSeq
  <2>2. us[i] = [msg |-> us[i].msg, part |-> Size]
    BY <1>5, <2>1 DEF Units, IsLast
  <2> HIDE DEF w
  <2>3. w = wire[conns] /\ wire'[conns] = w \o us
    BY <1>1 DEF w
  <2>4. Len(w) + i \in DOMAIN wire'[conns] /\ wire'[conns][Len(w) + i] = us[i]
    BY <1>3, <2>3
  <2>5. conns \in 1..conns'
    OBVIOUS
  <2>6. QED
    BY <2>2, <2>4, <2>5 DEF OnWire
<1>6. QED
  BY <1>4, <1>5 DEF Lasts

\* A step that moves no message, but may drop some of the buffers.
LEMMA Unmoved ==
    ASSUME CallInv, sent' = sent, called' = called,
           \A t \in Threads : thread'[t] \in {"try", "queue", "callback"} =>
                                 thread'[t] = thread[t] /\ packet'[t] = packet[t],
           Once(drain'), Once(queue'), Lasts(drain') \cap Lasts(queue') = {},
           Lasts(drain') \cup Lasts(queue') \subseteq Buffered,
           \A m : OnWire(m) => OnWire(m)', socket' # "none" => conns' # 0
    PROVE  Numbered' /\ Apart' /\ Parts' /\ Reached'
<1>1. \A t \in Threads : Holds(t)' \subseteq Holds(t)
  BY DEF Holds
<1>2. Buffered' \subseteq Buffered /\ Called' = Called
  BY DEF Buffered, Called
<1>3. Numbered'
  BY <1>1, <1>2 DEF CallInv, Numbered
<1>4. Apart'
  <2>1. \A i, j \in DOMAIN called' : i # j => called'[i] # called'[j]
    BY DEF CallInv, Apart
  <2>2. Buffered' \cap Called' = {}
    BY <1>2 DEF CallInv, Apart
  <2>3. \A t \in Threads : Holds(t)' \cap (Buffered' \cup Called') = {}
    BY <1>1, <1>2 DEF CallInv, Apart
  <2>4. \A t, u \in Threads : t # u => Holds(t)' \cap Holds(u)' = {}
    BY <1>1 DEF CallInv, Apart
  <2>5. QED
    BY <2>1, <2>2, <2>3, <2>4 DEF Apart
<1>5. Parts'
  BY DEF CallInv, Parts, HasPart, Holds
<1>6. Reached'
  BY <1>2 DEF CallInv, Reached
<1>7. QED
  BY <1>3, <1>4, <1>5, <1>6

\* send gives a message a number that no other has.
LEMMA BeginCalls ==
    ASSUME CallInv, NEW t \in Threads, Begin(t), valid
    PROVE  Numbered' /\ Apart' /\ Parts' /\ Reached'
<1> USE DEF handlerVars, threadVars, bufferVars, readerVars, socketVars, tlsVars
<1>1. /\ thread[t] = "idle" /\ Goes(t, "try") /\ sent < MaxMsgs
      /\ sent' = sent + 1 /\ packet' = [packet EXCEPT ![t] = Packet(sent + 1)]
      /\ UNCHANGED <<bufferVars, socketVars, called>>
  BY DEF Begin, Free
<1>2. sent + 1 \in 1..MaxMsgs /\ sent \in Nat
  BY <1>1, Bounds DEF CallInv, TypeOK
<1>3. Packet(sent + 1).msg = sent + 1
  BY <1>2, PacketType
<1>4. thread'[t] = "try" /\ packet'[t] = Packet(sent + 1)
      /\ \A u \in Threads : u # t => thread'[u] = thread[u] /\ packet'[u] = packet[u]
  BY <1>1 DEF Goes, CallInv, TypeOK
<1>5. Holds(t)' = {sent + 1} /\ \A u \in Threads : u # t => Holds(u)' = Holds(u)
  BY <1>3, <1>4 DEF Holds
<1>6. Buffered' = Buffered /\ Called' = Called /\ \A m : OnWire(m) => OnWire(m)'
  BY <1>1 DEF Buffered, Called, OnWire
<1>7. sent + 1 \notin Buffered \cup Called /\ \A u \in Threads : sent + 1 \notin Holds(u)
  BY <1>2 DEF CallInv, Numbered
<1>8. 1..sent \subseteq 1..sent' /\ sent + 1 \in 1..sent'
  BY <1>1, <1>2
<1>9. Numbered'
  BY <1>5, <1>6, <1>8 DEF CallInv, Numbered
<1>10. Apart'
  <2>1. \A u, v \in Threads : u # v => Holds(u)' \cap Holds(v)' = {}
    BY <1>5, <1>7 DEF CallInv, Apart
  <2>2. \A u \in Threads : Holds(u)' \cap (Buffered' \cup Called') = {}
    BY <1>5, <1>6, <1>7 DEF CallInv, Apart
  <2>3. QED
    BY <1>1, <1>6, <2>1, <2>2 DEF CallInv, Apart
<1>11. Parts'
  BY <1>3, <1>4, <1>5, <1>6 DEF CallInv, Parts, HasPart
<1>12. Reached'
  BY <1>1, <1>6 DEF CallInv, Reached
<1>13. QED
  BY <1>9, <1>10, <1>11, <1>12

\* trySend leaves the message with its thread, on the wire or with its end to queue.
LEMMA TryCalls ==
    ASSUME CallInv, NEW t \in Threads, TryInline(t) \/ TryFails(t)
    PROVE  Numbered' /\ Apart' /\ Parts' /\ Reached'
<1> USE DEF handlerVars, threadVars, bufferVars, readerVars, socketVars, tlsVars
<1> DEFINE m == packet[t].msg
           us == packet[t].rest
<1>1. thread[t] = "try" /\ packet[t] = Packet(m) /\ Holds(t) = {m}
  BY DEF TryInline, TryFails, CallInv, Parts, HasPart, Holds
<1>2. m \in 1..MaxMsgs
  <2>1. m \in 1..sent
    BY <1>1 DEF CallInv, Numbered
  <2>2. QED
    BY <2>1, Bounds DEF CallInv, TypeOK
<1>3. us \in Seq(Units) /\ Once(us) /\ Lasts(us) = {m} /\ Len(us) = Size
  <2> HIDE DEF m
  <2>1. us = Packet(m).rest
    BY <1>1
  <2>2. us \in Seq(Units)
    BY DEF CallInv, TypeOK
  <2>3. QED
    BY <1>2, <2>1, <2>2, PacketLasts, PacketType
<1>4. /\ sent' = sent /\ called' = called /\ UNCHANGED <<queue, drain, socket, conns>>
      /\ thread'[t] \in {"queue", "callback"} /\ packet'[t].msg = m
      /\ thread'[t] = "queue" => Once(packet'[t].rest) /\ Lasts(packet'[t].rest) \subseteq {m}
      /\ thread'[t] = "callback" => \A l : l = m => OnWire(l)'
      /\ \A u \in Threads : u # t => thread'[u] = thread[u] /\ packet'[u] = packet[u]
      /\ \A l : OnWire(l) => OnWire(l)'
  <2>1. CASE TryFails(t)
    <3>1. thread'[t] = "queue" /\ \A u \in Threads : u # t => thread'[u] = thread[u]
      BY <2>1 DEF TryFails, Goes, CallInv, TypeOK
    <3>2. packet' = packet /\ sent' = sent /\ called' = called
          /\ UNCHANGED <<queue, drain, socket, conns, wire>>
      BY <2>1 DEF TryFails
    <3>3. \A l : OnWire(l) => OnWire(l)'
      BY <3>2 DEF OnWire
    <3>4. QED
      BY <1>3, <3>1, <3>2, <3>3
  <2>2. CASE TryInline(t)
    <3> DEFINE n == Min({room, Len(us)})
    <3>1. /\ Taking /\ Take(us, n)
          /\ packet' = [packet EXCEPT ![t].rest = From(us, n + 1)]
          /\ Goes(t, IF n = Len(us) THEN "callback" ELSE "queue")
          /\ UNCHANGED <<sent, called, queue, drain>>
      BY <2>2 DEF TryInline, WriteInline
    <3>2. n \in 0..Len(us)
      <4>1. Len(us) \in Nat /\ room \in Nat
        BY <1>3, Bounds DEF CallInv, TypeOK
      <4> HIDE DEF us
      <4>2. QED
        BY <4>1, Written
    <3> HIDE DEF n, us, m
    <3>3. conns \in 1..MaxConns
      BY <3>1 DEF Taking, CallInv, Reached, TypeOK
    <3>4. SubSeq(us, 1, n) \in Seq(Units)
      BY <1>3, <3>2, Divided
    <3>5. /\ \A l : OnWire(l) => OnWire(l)'
          /\ \A l \in Lasts(SubSeq(us, 1, n)) : OnWire(l)'
      BY <3>1, <3>3, <3>4, AddedToWire DEF Take, CallInv
    <3>6. Once(From(us, n + 1)) /\ Lasts(From(us, n + 1)) \subseteq {m}
      BY <1>3, <3>2, DividedLasts
    <3>7. /\ packet'[t].msg = m /\ packet'[t].rest = From(us, n + 1)
          /\ \A u \in Threads : u # t => thread'[u] = thread[u] /\ packet'[u] = packet[u]
          /\ thread'[t] = IF n = Len(us) THEN "callback" ELSE "queue"
      BY <3>1 DEF Goes, CallInv, TypeOK, m
    <3>8. n = Len(us) => \A l : l = m => OnWire(l)'
      <4>1. n = Len(us) => SubSeq(us, 1, n) = us
        BY <1>3, SubSeqFull
      <4>2. QED
        BY <1>3, <3>5, <4>1
    <3>9. QED
      BY <3>1, <3>5, <3>6, <3>7, <3>8 DEF Take
  <2>3. QED
    BY <2>1, <2>2
<1> HIDE DEF m, us
<1>5. Holds(t)' = Holds(t) /\ \A u \in Threads : u # t => Holds(u)' = Holds(u)
  BY <1>1, <1>4 DEF Holds
<1>6. \A u \in Threads : Holds(u)' = Holds(u)
  BY <1>5
<1>7. Buffered' = Buffered /\ Called' = Called
  BY <1>4 DEF Buffered, Called
<1>8. Numbered' /\ Apart'
  BY <1>4, <1>6, <1>7 DEF CallInv, Numbered, Apart
<1>9. Parts'
  <2> SUFFICES ASSUME NEW u \in Threads PROVE HasPart(u)'
    BY DEF Parts
  <2>1. CASE u = t
    BY <1>1, <1>4, <1>6, <2>1 DEF HasPart
  <2>2. CASE u # t
    BY <1>4, <1>6, <2>2 DEF CallInv, Parts, HasPart
  <2>3. QED
    BY <2>1, <2>2
<1>10. Reached'
  BY <1>4, <1>7 DEF CallInv, Reached
<1>11. QED
  BY <1>8, <1>9, <1>10

\* queueWrite leaves the end of the message to the buffer.
LEMMA QueueCalls ==
    ASSUME CallInv, NEW t \in Threads, QueueWrite(t)
    PROVE  Numbered' /\ Apart' /\ Parts' /\ Reached'
<1> USE DEF handlerVars, threadVars, bufferVars, readerVars, socketVars, tlsVars
<1> DEFINE us == packet[t].rest
<1>1. /\ thread[t] = "queue" /\ queue' = queue \o us /\ drain' = drain
      /\ packet' = [packet EXCEPT ![t] = NoPacket] /\ Goes(t, "wake")
      /\ UNCHANGED <<sent, called, socketVars>>
  BY DEF QueueWrite
<1>2. us \in Seq(Units) /\ queue \in Seq(Units)
  BY DEF CallInv, TypeOK
<1>3. Once(us) /\ Lasts(us) \subseteq Holds(t)
  BY <1>1 DEF CallInv, Parts, HasPart
<1> HIDE DEF us
<1>4. Lasts(queue') = Lasts(queue) \cup Lasts(us)
      /\ (Once(queue') <=> Once(queue) /\ Once(us) /\ Lasts(queue) \cap Lasts(us) = {})
  BY <1>1, <1>2, JoinedLasts
<1>5. thread'[t] = "wake" /\ \A u \in Threads : u # t => thread'[u] = thread[u] /\ packet'[u] = packet[u]
  BY <1>1 DEF Goes, CallInv, TypeOK
<1>6. Holds(t)' = {} /\ \A u \in Threads : u # t => Holds(u)' = Holds(u)
  BY <1>5 DEF Holds
<1>7. Buffered' = Buffered \cup Lasts(us) /\ Called' = Called /\ \A m : OnWire(m) => OnWire(m)'
  BY <1>1, <1>4 DEF Buffered, Called, OnWire
<1>8. Holds(t) \cap (Buffered \cup Called) = {}
  BY DEF CallInv, Apart
<1>9. Numbered'
  BY <1>1, <1>3, <1>6, <1>7 DEF CallInv, Numbered
<1>10. Apart'
  <2>1. Once(drain') /\ Once(queue') /\ Lasts(drain') \cap Lasts(queue') = {}
    BY <1>1, <1>3, <1>4, <1>8 DEF CallInv, Apart, Buffered
  <2>2. Buffered' \cap Called' = {}
    BY <1>3, <1>7, <1>8 DEF CallInv, Apart
  <2>3. ASSUME NEW u \in Threads PROVE Holds(u)' \cap (Buffered' \cup Called') = {}
    <3>1. CASE u = t
      BY <1>6, <3>1
    <3>2. CASE u # t
      BY <1>3, <1>6, <1>7, <3>2 DEF CallInv, Apart
    <3>3. QED
      BY <3>1, <3>2
  <2>4. \A u, v \in Threads : u # v => Holds(u)' \cap Holds(v)' = {}
    BY <1>6 DEF CallInv, Apart
  <2>5. QED
    BY <1>1, <2>1, <2>2, <2>3, <2>4 DEF CallInv, Apart
<1>11. Parts'
  BY <1>5, <1>6, <1>7 DEF CallInv, Parts, HasPart
<1>12. Reached'
  BY <1>1, <1>7 DEF CallInv, Reached
<1>13. QED
  BY <1>9, <1>10, <1>11, <1>12

\* The callback of an inline write.
LEMMA CallbackCalls ==
    ASSUME CallInv, NEW t \in Threads, Callback(t)
    PROVE  Numbered' /\ Apart' /\ Parts' /\ Reached'
<1> USE DEF handlerVars, threadVars, bufferVars, readerVars, socketVars, tlsVars
<1> DEFINE m == packet[t].msg
<1>1. /\ thread[t] = "callback" /\ called' = Append(called, m)
      /\ packet' = [packet EXCEPT ![t] = NoPacket] /\ Goes(t, "idle")
      /\ UNCHANGED <<sent, bufferVars, socketVars>>
  BY DEF Callback
<1>2. Holds(t) = {m} /\ OnWire(m)
  BY <1>1 DEF Holds, CallInv, Parts, HasPart
<1> HIDE DEF m
<1>3. thread'[t] = "idle" /\ \A u \in Threads : u # t => thread'[u] = thread[u] /\ packet'[u] = packet[u]
  BY <1>1 DEF Goes, CallInv, TypeOK
<1>4. Holds(t)' = {} /\ \A u \in Threads : u # t => Holds(u)' = Holds(u)
  BY <1>3 DEF Holds
<1>5. /\ called \in Seq(1..MaxMsgs) /\ Len(called) \in Nat /\ DOMAIN called = 1..Len(called)
      /\ DOMAIN called' = 1..Len(called) + 1 /\ called'[Len(called) + 1] = m
      /\ \A i \in 1..Len(called) : called'[i] = called[i]
  BY <1>1 DEF CallInv, TypeOK
<1>6. m \notin Buffered \cup Called
  BY <1>2 DEF CallInv, Apart
<1>7. Called' = Called \cup {m}
  <2>1. Called' \subseteq Called \cup {m}
    BY <1>5 DEF Called
  <2>2. Called \subseteq Called'
    BY <1>5 DEF Called
  <2>3. m \in Called'
    BY <1>5 DEF Called
  <2>4. QED
    BY <2>1, <2>2, <2>3
<1>8. Buffered' = Buffered /\ \A l : OnWire(l) => OnWire(l)'
  BY <1>1 DEF Buffered, OnWire
<1>9. Numbered'
  BY <1>1, <1>2, <1>4, <1>7, <1>8 DEF CallInv, Numbered
<1>10. Apart'
  <2>1. \A i, j \in DOMAIN called' : i # j => called'[i] # called'[j]
    <3>1. \A i \in 1..Len(called) : called[i] # m
      BY <1>5, <1>6 DEF Called
    <3>2. \A i, j \in 1..Len(called) : i # j => called[i] # called[j]
      BY <1>5 DEF CallInv, Apart
    <3>3. \A i \in DOMAIN called' : i \in 1..Len(called) \/ i = Len(called) + 1
      BY <1>5
    <3>4. QED
      BY <1>5, <3>1, <3>2, <3>3
  <2>2. Buffered' \cap Called' = {}
    BY <1>6, <1>7, <1>8 DEF CallInv, Apart
  <2>3. \A u \in Threads : Holds(u)' \cap (Buffered' \cup Called') = {}
    BY <1>2, <1>4, <1>7, <1>8 DEF CallInv, Apart
  <2>4. \A u, v \in Threads : u # v => Holds(u)' \cap Holds(v)' = {}
    BY <1>4 DEF CallInv, Apart
  <2>5. QED
    BY <1>1, <2>1, <2>2, <2>3, <2>4 DEF CallInv, Apart
<1>11. Parts'
  BY <1>3, <1>4, <1>8 DEF CallInv, Parts, HasPart
<1>12. Reached'
  BY <1>1, <1>2, <1>7, <1>8 DEF CallInv, Reached
<1>13. QED
  BY <1>9, <1>10, <1>11, <1>12

\* The callbacks of a flush are those of messages it ended on the wire.
LEMMA FlushCalls ==
    ASSUME CallInv, Flush
    PROVE  Numbered' /\ Apart' /\ Parts' /\ Reached'
<1> USE DEF handlerVars, threadVars, bufferVars, readerVars, socketVars, tlsVars
<1>1. UNCHANGED <<thread, packet, sent>>
  BY FlushDoes DEF CallInv
<1>2. PICK pending \in Seq(Units), later \in Seq(Units) :
         /\ \/ pending = drain /\ later = queue
            \/ drain = <<>> /\ pending = queue /\ later = <<>>
         /\ \/ UNCHANGED <<bufferVars, socketVars, called>>
            \/ drain' = pending /\ queue' = later /\ UNCHANGED <<socketVars, called>>
            \/ ~Taking /\ EraseBuffers /\ UNCHANGED <<socketVars, called>>
            \/ \E n \in 0..Len(pending) : Wrote(pending, later, n)
  BY FlushDoes DEF CallInv
<1>3. Once(<<>>) /\ Lasts(<<>>) = {}
  BY DEF Once, Lasts
<1>4. /\ Once(pending) /\ Once(later) /\ Lasts(pending) \cap Lasts(later) = {}
      /\ Lasts(pending) \cup Lasts(later) = Buffered
  BY <1>2, <1>3 DEF CallInv, Apart, Buffered
<1>5. socket # "none" => conns # 0
  BY DEF CallInv, Reached
<1>6. CASE UNCHANGED <<bufferVars, socketVars, called>>
  <2>1. \A m : OnWire(m) => OnWire(m)'
    BY <1>6 DEF OnWire
  <2>2. /\ Once(drain') /\ Once(queue') /\ Lasts(drain') \cap Lasts(queue') = {}
        /\ Lasts(drain') \cup Lasts(queue') \subseteq Buffered
    BY <1>6 DEF CallInv, Apart, Buffered
  <2>3. QED
    BY <1>1, <1>5, <1>6, <2>1, <2>2, Unmoved
<1>7. CASE drain' = pending /\ queue' = later /\ UNCHANGED <<socketVars, called>>
  <2>1. \A m : OnWire(m) => OnWire(m)'
    BY <1>7 DEF OnWire
  <2>2. QED
    BY <1>1, <1>4, <1>5, <1>7, <2>1, Unmoved
<1>8. CASE EraseBuffers /\ UNCHANGED <<socketVars, called>>
  <2>1. \A m : OnWire(m) => OnWire(m)'
    BY <1>8 DEF OnWire
  <2>2. /\ Once(drain') /\ Once(queue') /\ Lasts(drain') \cap Lasts(queue') = {}
        /\ Lasts(drain') \cup Lasts(queue') \subseteq Buffered
    BY <1>3, <1>8 DEF EraseBuffers
  <2>3. QED
    BY <1>1, <1>5, <1>8, <2>1, <2>2, Unmoved
<1>9. CASE \E n \in 0..Len(pending) : Wrote(pending, later, n)
  <2>1. PICK n \in 0..Len(pending) : Wrote(pending, later, n)
    BY <1>9
  <2> DEFINE us == SubSeq(pending, 1, n)
             vs == From(pending, n + 1)
             fs == Finished(us)
  <2>2. /\ Lasts(pending) = Lasts(us) \cup Lasts(vs) /\ Once(us) /\ Once(vs)
        /\ Lasts(us) \cap Lasts(vs) = {}
    BY <1>4, DividedLasts
  <2>3. us \in Seq(Units)
    BY Divided
  <2>4. /\ Taking /\ wire' = [wire EXCEPT ![conns] = @ \o us] /\ conns' = conns /\ socket' = socket
        /\ drain' = vs /\ queue' = later /\ called' = called \o fs
    BY <2>1 DEF Wrote
  <2> HIDE DEF us, vs
  <2>5. fs \in Seq(1..MaxMsgs) /\ (\A k \in 1..Len(fs) : fs[k] \in Lasts(us))
        /\ \A k, l \in 1..Len(fs) : k # l => fs[k] # fs[l]
    BY <2>2, <2>3, FinishedLasts
  <2> HIDE DEF fs
  <2>6. conns \in 1..MaxConns
    BY <2>4 DEF Taking, CallInv, Reached, TypeOK
  <2>7. (\A m : OnWire(m) => OnWire(m)') /\ \A m \in Lasts(us) : OnWire(m)'
    BY <2>3, <2>4, <2>6, AddedToWire DEF CallInv
  <2>8. /\ called \in Seq(1..MaxMsgs) /\ DOMAIN called = 1..Len(called)
        /\ called' \in Seq(1..MaxMsgs) /\ DOMAIN called' = 1..Len(called')
        /\ \A i \in 1..Len(called) : i \in 1..Len(called') /\ called'[i] = called[i]
        /\ \A i \in 1..Len(called') : i \in 1..Len(called) \/ \E j \in 1..Len(fs) : i = Len(called) + j
        /\ \A i \in 1..Len(fs) : called'[Len(called) + i] = fs[i]
    <3>1. called \in Seq(1..MaxMsgs)
      BY DEF CallInv, TypeOK
    <3>2. called' \in Seq(1..MaxMsgs)
      BY <2>4, <2>5, <3>1, Joined
    <3>3. QED
      BY <2>4, <2>5, <3>1, <3>2, Joined
  <2>9. Called' \subseteq Called \cup Lasts(us)
    <3> SUFFICES ASSUME NEW i \in 1..Len(called') PROVE called'[i] \in Called \cup Lasts(us)
      BY <2>8 DEF Called
    <3>1. CASE i \in 1..Len(called)
      BY <2>8, <3>1 DEF Called
    <3>2. CASE \E j \in 1..Len(fs) : i = Len(called) + j
      BY <2>5, <2>8, <3>2
    <3>3. QED
      BY <2>8, <3>1, <3>2
  <2>10. Buffered' = Lasts(vs) \cup Lasts(later) /\ Buffered = Lasts(us) \cup Buffered'
         /\ Lasts(us) \cap Buffered' = {}
    BY <1>4, <2>2, <2>4 DEF Buffered
  <2>11. \A t \in Threads : Holds(t)' = Holds(t)
    BY <1>1 DEF Holds
  <2>12. Numbered'
    BY <1>1, <2>9, <2>10, <2>11 DEF CallInv, Numbered
  <2>13. Apart'
    <3>1. ASSUME NEW i \in DOMAIN called', NEW j \in DOMAIN called', i # j PROVE called'[i] # called'[j]
      <4>0. Called \cap Lasts(us) = {}
        BY <2>10 DEF CallInv, Apart
      <4>1. CASE i \in 1..Len(called) /\ j \in 1..Len(called)
        BY <2>8, <3>1, <4>1 DEF CallInv, Apart
      <4>2. CASE i \in 1..Len(called) /\ j \notin 1..Len(called)
        <5>1. called'[i] \in Called
          BY <2>8, <4>2 DEF Called
        <5>2. PICK l \in 1..Len(fs) : j = Len(called) + l
          BY <2>8, <4>2
        <5>3. called'[j] \in Lasts(us)
          BY <2>5, <2>8, <5>2
        <5>4. QED
          BY <4>0, <5>1, <5>3
      <4>3. CASE i \notin 1..Len(called) /\ j \in 1..Len(called)
        <5>1. called'[j] \in Called
          BY <2>8, <4>3 DEF Called
        <5>2. PICK l \in 1..Len(fs) : i = Len(called) + l
          BY <2>8, <4>3
        <5>3. called'[i] \in Lasts(us)
          BY <2>5, <2>8, <5>2
        <5>4. QED
          BY <4>0, <5>1, <5>3
      <4>4. CASE i \notin 1..Len(called) /\ j \notin 1..Len(called)
        <5>1. PICK k \in 1..Len(fs) : i = Len(called) + k
          BY <2>8, <4>4
        <5>2. PICK l \in 1..Len(fs) : j = Len(called) + l
          BY <2>8, <4>4
        <5>3. k # l /\ called'[i] = fs[k] /\ called'[j] = fs[l]
          BY <2>8, <3>1, <5>1, <5>2
        <5>4. QED
          BY <2>5, <5>3
      <4>5. QED
        BY <4>1, <4>2, <4>3, <4>4
    <3>2. Buffered' \cap Called' = {}
      BY <2>9, <2>10 DEF CallInv, Apart
    <3>3. \A t \in Threads : Holds(t)' \cap (Buffered' \cup Called') = {}
      BY <2>9, <2>10, <2>11 DEF CallInv, Apart
    <3>4. \A t, u \in Threads : t # u => Holds(t)' \cap Holds(u)' = {}
      BY <2>11 DEF CallInv, Apart
    <3>5. Once(drain') /\ Once(queue') /\ Lasts(drain') \cap Lasts(queue') = {}
      BY <1>4, <2>2, <2>4
    <3>6. QED
      BY <3>1, <3>2, <3>3, <3>4, <3>5 DEF Apart
  <2>14. Parts'
    BY <1>1, <2>7, <2>11 DEF CallInv, Parts, HasPart
  <2>15. Reached'
    BY <1>5, <2>4, <2>7, <2>9 DEF CallInv, Reached
  <2>16. QED
    BY <2>12, <2>13, <2>14, <2>15
<1>10. QED
  BY <1>2, <1>6, <1>7, <1>8, <1>9

\* Every step keeps the messages apart.
LEMMA MessagesStep ==
    ASSUME CallInv, [Next]_vars
    PROVE  Numbered' /\ Apart' /\ Parts' /\ Reached'
<1> USE DEF handlerVars, threadVars, bufferVars, readerVars, socketVars, tlsVars
<1> DEFINE Rest == Numbered' /\ Apart' /\ Parts' /\ Reached'
<1> SUFFICES Rest
  OBVIOUS
<1>1. ASSUME sent' = sent, called' = called, UNCHANGED bufferVars \/ EraseBuffers,
             \A t \in Threads : thread'[t] \in {"try", "queue", "callback"} =>
                                   thread'[t] = thread[t] /\ packet'[t] = packet[t],
             wire' = wire, conns' = conns \/ conns' = conns + 1, conns' # conns \/ socket' = "none" \/ socket # "none"
      PROVE  Rest
  <2>1. conns \in Nat /\ conns' \in Nat /\ conns <= conns'
    BY <1>1, Bounds DEF CallInv, TypeOK
  <2>2. \A m : OnWire(m) => OnWire(m)'
    BY <1>1, <2>1 DEF OnWire
  <2>3. socket' # "none" => conns' # 0
    BY <1>1, <2>1 DEF CallInv, Reached
  <2>4. Once(<<>>) /\ Lasts(<<>>) = {}
    BY DEF Once, Lasts
  <2>5. /\ Once(drain') /\ Once(queue') /\ Lasts(drain') \cap Lasts(queue') = {}
        /\ Lasts(drain') \cup Lasts(queue') \subseteq Buffered
    BY <1>1, <2>4 DEF EraseBuffers, CallInv, Apart, Buffered
  <2>6. QED
    BY <1>1, <2>2, <2>3, <2>5, Unmoved
<1> HIDE DEF Rest
<1>2. ASSUME NEW t \in Threads, Begin(t) PROVE Rest
  <2>1. CASE valid
    BY <1>2, <2>1, BeginCalls DEF Rest
  <2>2. CASE ~valid
    BY <1>1, <1>2, <2>2 DEF Begin
  <2>3. QED
    BY <2>1, <2>2
<1>3. ASSUME NEW t \in Threads, BeginDisconnect(t) PROVE Rest
  <2>1. \A u \in Threads : thread'[u] = thread[u] \/ thread'[u] = "close"
    BY <1>3 DEF BeginDisconnect, Goes, CallInv, TypeOK
  <2>2. QED
    BY <1>1, <1>3, <2>1 DEF BeginDisconnect
<1>4. ASSUME NEW t \in Threads, Wake(t) PROVE Rest
  <2>1. \A u \in Threads : thread'[u] = thread[u] \/ thread'[u] = "idle"
    BY <1>4 DEF Wake, Goes, CallInv, TypeOK
  <2>2. QED
    BY <1>1, <1>4, <2>1 DEF Wake
<1>5. ASSUME NEW t \in Threads, Close(t) PROVE Rest
  <2>1. \A u \in Threads : thread'[u] = thread[u] \/ thread'[u] = "erase"
    BY <1>5 DEF Close, Goes, CallInv, TypeOK
  <2>2. QED
    BY <1>1, <1>5, <2>1 DEF Close, CloseSocket
<1>6. ASSUME NEW t \in Threads, EndDisconnect(t) PROVE Rest
  <2>1. \A u \in Threads : thread'[u] = thread[u] \/ thread'[u] = "idle"
    BY <1>6 DEF EndDisconnect, Goes, CallInv, TypeOK
  <2>2. QED
    BY <1>1, <1>6, <2>1 DEF EndDisconnect
<1>7. ASSUME NEW t \in Threads, Step(t) PROVE Rest
  BY <1>4, <1>5, <1>6, <1>7, TryCalls, QueueCalls, CallbackCalls DEF Step, Rest
<1>8. CASE OnEvent \/ OnWritable
  BY <1>1, <1>8 DEF OnEvent, OnWritable
<1>9. CASE HangUp
  BY <1>1, <1>9 DEF HangUp, CloseSocket
<1>10. CASE Erase
  BY <1>1, <1>10 DEF Erase
<1>11. CASE PeerReads \/ PeerSends
  BY <1>1, <1>11 DEF PeerReads, PeerSends
<1>12. CASE PeerEnds
  BY <1>1, <1>12 DEF PeerEnds
<1>13. CASE Dial
  <2>1. conns' # conns
    BY <1>13, Bounds DEF Dial, CallInv, TypeOK
  <2>2. QED
    BY <1>1, <1>13, <2>1 DEF Dial
<1>14. CASE Assign
  BY <1>1, <1>14 DEF Assign
<1>15. CASE UNCHANGED vars
  BY <1>1, <1>15 DEF vars
<1>16. CASE Flush
  BY <1>16, FlushCalls DEF Rest
<1>17. QED
  BY <1>2, <1>3, <1>7, <1>8, <1>9, <1>10, <1>11, <1>12, <1>13, <1>14, <1>15, <1>16
     DEF Next, ReaderLoop

\* Every step keeps types and messages as they should be.
LEMMA CallStep == CallInv /\ [Next]_vars => CallInv'
<1> SUFFICES ASSUME CallInv, [Next]_vars PROVE CallInv'
  OBVIOUS
<1>1. TypeOK'
  <2>1. CASE UNCHANGED vars
    BY <2>1 DEF vars, handlerVars, threadVars, bufferVars, readerVars, socketVars, tlsVars, CallInv, TypeOK
  <2>2. QED
    BY <2>1, SenderTypes, ReaderTypes DEF Next, CallInv
<1>2. QED
  BY <1>1, MessagesStep DEF CallInv

\* At first there is no message.
LEMMA CallInit == Init => CallInv
<1> SUFFICES ASSUME Init PROVE CallInv
  OBVIOUS
<1>1. Once(<<>>) /\ Lasts(<<>>) = {}
  BY DEF Once, Lasts
<1>2. /\ drain = <<>> /\ queue = <<>> /\ called = <<>> /\ socket = "none"
      /\ \A t \in Threads : thread[t] = "idle"
  BY DEF Init
<1>3. Buffered = {} /\ Called = {} /\ \A t \in Threads : Holds(t) = {}
  BY <1>1, <1>2 DEF Buffered, Called, Holds
<1>4. Numbered /\ Apart
  BY <1>1, <1>2, <1>3 DEF Numbered, Apart
<1>5. Parts /\ Reached
  BY <1>2, <1>3 DEF Parts, HasPart, Reached
<1>6. QED
  BY <1>4, <1>5, TypeInit DEF CallInv

\* Whoever is inside NetworkHandler::send or disconnect holds its mutex, and the
\* buffers hold units of messages.
THEOREM TypeCorrect == Spec => []TypeOK
<1>1. CallInv => TypeOK
  BY DEF CallInv
<1>2. QED
  BY <1>1, CallInit, CallStep, PTL DEF Spec

\* Whoever writes a message and in whatever parts, its callback runs once and after
\* its last unit is in the socket.
THEOREM CalledOnceWritten == Spec => []CallbackAfterWrite
<1>1. CallInv => CallbackAfterWrite
  BY DEF CallInv, CallbackAfterWrite, Apart, Reached, Called, OnWire
<1>2. QED
  BY <1>1, CallInit, CallStep, PTL DEF Spec

-----------------------------------------------------------------------------
(* Whole messages in order, as long as the descriptor was given out once *)

Whole(us) ==
    /\ us # <<>> => us[1].part = 1
    /\ \A i \in 2..Len(us) : Follows(us[i - 1], us[i])

\* What has been sent so far ends with a message.
Ended(us) == us # <<>> => IsLast(us[Len(us)]) /\ us[Len(us)].msg <= sent

\* What the thread in send has still to write or to queue.
Held == IF mutex # "nobody" /\ thread[mutex] \in {"try", "queue"} THEN packet[mutex].rest ELSE <<>>

\* Everything that is or will be in the socket.
Stream == wire[1] \o (drain \o (queue \o Held))

Erasing == reader = "erase" \/ \E t \in Threads : thread[t] = "erase"
Fresh == conns = 0 \/ (conns = 1 /\ socket = "new")
Unused ==
    /\ ~connection /\ mutex = "nobody" /\ reader # "erase" /\ tls # "answered"
    /\ queue = <<>> /\ drain = <<>> /\ wire[1] = <<>>

Ordered ==
    /\ Whole(wire[1])
    /\ Taking => Whole(Stream) /\ Ended(Stream)
    /\ Erasing => socket = "none"

OrderInv == CallInv /\ (Fresh => Unused) /\ (conns = 1 => Ordered)

\* What has been written of a stream in order is in order.
LEMMA WholePrefix ==
    ASSUME NEW a \in Seq(Units), NEW b \in Seq(Units), Whole(a \o b)
    PROVE  Whole(a)
<1> DEFINE us == a \o b
<1>1. /\ us \in Seq(Units) /\ Len(a) \in Nat
      /\ \A i \in 1..Len(a) : i \in 1..Len(us) /\ us[i] = a[i]
  BY Joined
<1>2. Whole(us)
  OBVIOUS
<1> HIDE DEF us
<1>3. a # <<>> => a[1].part = 1
  <2>1. a # <<>> => 1 \in 1..Len(a)
    BY EmptySeq, <1>1
  <2>2. 1 \in 1..Len(us) => us # <<>>
    OBVIOUS
  <2>3. QED
    BY <1>1, <1>2, <2>1, <2>2 DEF Whole
<1>4. ASSUME NEW i \in 2..Len(a) PROVE Follows(a[i - 1], a[i])
  <2>1. i - 1 \in 1..Len(a) /\ i \in 1..Len(a)
    BY <1>1
  <2>2. i \in 2..Len(us) /\ us[i - 1] = a[i - 1] /\ us[i] = a[i]
    BY <1>1, <2>1
  <2>3. QED
    BY <1>2, <2>2 DEF Whole
<1>5. QED
  BY <1>3, <1>4 DEF Whole

\* A message sent after all that were is in order behind them.
LEMMA WholeExtended ==
    ASSUME NEW a \in Seq(Units), Whole(a), Ended(a), sent \in Nat, NEW n \in 1..MaxMsgs, n = sent + 1
    PROVE  LET us == a \o Packet(n).rest
           IN  Whole(us) /\ us # <<>> /\ IsLast(us[Len(us)]) /\ us[Len(us)].msg = n
<1> DEFINE r == Packet(n).rest
           us == a \o r
<1>1. r \in Seq(Units) /\ Len(r) = Size /\ \A k \in 1..Size : r[k] = [msg |-> n, part |-> k]
  BY PacketType
<1> HIDE DEF r
<1>2. /\ us \in Seq(Units) /\ Len(a) \in Nat /\ Len(us) = Len(a) + Size
      /\ \A i \in 1..Len(a) : i \in 1..Len(us) /\ us[i] = a[i]
      /\ \A i \in 1..Size : Len(a) + i \in 1..Len(us) /\ us[Len(a) + i] = r[i]
      /\ \A i \in 1..Len(us) : i \in 1..Len(a) \/ \E j \in 1..Size : i = Len(a) + j
  <2>1. /\ us \in Seq(Units) /\ Len(a) \in Nat /\ Len(us) = Len(a) + Len(r)
        /\ \A i \in 1..Len(a) : i \in 1..Len(us) /\ us[i] = a[i]
        /\ \A i \in 1..Len(r) : Len(a) + i \in 1..Len(us) /\ us[Len(a) + i] = r[i]
        /\ \A i \in 1..Len(us) : i \in 1..Len(a) \/ \E j \in 1..Len(r) : i = Len(a) + j
    <3>1. r \in Seq(Units)
      BY <1>1
    <3>2. QED
      BY <3>1, Joined
  <2>2. Len(r) = Size
    BY <1>1
  <2> HIDE DEF us
  <2>3. QED
    BY <2>1, <2>2
<1> HIDE DEF us
<1>3. Size \in 1..Size /\ 1 \in 1..Size /\ Size \in Nat
  BY Bounds
<1>4. us[Len(us)] = [msg |-> n, part |-> Size] /\ us # <<>>
  <2>1. us[Len(us)] = r[Size] /\ Len(us) > 0
    BY <1>2, <1>3
  <2>2. QED
    BY <1>1, <1>3, <2>1
<1>5. us[1].part = 1
  <2>1. CASE a = <<>>
    <3>1. Len(a) + 1 = 1
      BY <2>1
    <3>2. us[1] = r[1]
      BY <1>2, <1>3, <3>1
    <3>3. QED
      BY <1>1, <1>3, <3>2
  <2>2. CASE a # <<>>
    <3>1. 1 \in 1..Len(a)
      BY <1>2, <2>2, EmptySeq
    <3>2. QED
      BY <1>2, <2>2, <3>1 DEF Whole
  <2>3. QED
    BY <2>1, <2>2
<1>6. ASSUME NEW i \in 2..Len(us) PROVE Follows(us[i - 1], us[i])
  <2>1. i \in 1..Len(us) /\ i - 1 \in 1..Len(us)
    BY <1>2, <1>3
  <2>2. CASE i \in 1..Len(a)
    <3>1. i - 1 \in 1..Len(a) /\ i \in 2..Len(a)
      BY <1>2, <2>2
    <3>2. us[i] = a[i] /\ us[i - 1] = a[i - 1]
      BY <1>2, <2>2, <3>1
    <3>3. QED
      BY <3>1, <3>2 DEF Whole
  <2>3. CASE i = Len(a) + 1
    <3>1. us[i] = r[1] /\ i - 1 = Len(a) /\ Len(a) \in 1..Len(a)
      BY <1>2, <1>3, <2>3
    <3>2. us[i - 1] = a[Len(a)] /\ a # <<>> /\ a[Len(a)] \in Units
      BY <1>2, <3>1, ElementOfSeq
    <3>3. IsLast(a[Len(a)]) /\ a[Len(a)].msg <= sent
      BY <3>2 DEF Ended
    <3>4. r[1].msg = n /\ r[1].part = 1 /\ a[Len(a)].msg \in Nat
      BY <1>1, <1>3, <3>2, Bounds DEF Units
    <3>5. QED
      BY <3>1, <3>2, <3>3, <3>4 DEF Follows
  <2>4. CASE i \notin 1..Len(a) /\ i # Len(a) + 1
    <3>1. PICK k \in 1..Size : i = Len(a) + k
      BY <1>2, <2>1, <2>4
    <3>2. k - 1 \in 1..Size /\ i - 1 = Len(a) + (k - 1)
      BY <1>2, <1>3, <2>4, <3>1
    <3>3. us[i] = r[k] /\ us[i - 1] = r[k - 1]
      BY <1>2, <3>1, <3>2
    <3>4. r[k] = [msg |-> n, part |-> k] /\ r[k - 1] = [msg |-> n, part |-> k - 1]
      BY <1>1, <3>2
    <3>5. QED
      BY <1>3, <3>3, <3>4 DEF Follows
  <2>5. QED
    BY <2>2, <2>3, <2>4
<1>7. QED
  BY <1>4, <1>5, <1>6 DEF Whole, IsLast, us, r

\* The mutex tells whose message is half written.
LEMMA HeldIs ==
    ASSUME TypeOK
    PROVE  /\ mutex = "nobody" => Held = <<>>
           /\ \A t \in Threads : thread[t] \in {"try", "queue"} => mutex = t /\ Held = packet[t].rest
           /\ \A t \in Threads : mutex = t /\ thread[t] \notin {"try", "queue"} => Held = <<>>
           /\ Held \in Seq(Units)
           /\ Stream \in Seq(Units) /\ Stream = wire[1] \o (drain \o (queue \o Held))
<1>1. \A t \in Threads : thread[t] \in {"try", "queue"} => mutex = t
  BY DEF TypeOK, Inside
<1>2. \A t \in Threads : t # "nobody"
  BY Bounds
<1>3. Held \in Seq(Units)
  <2>1. <<>> \in Seq(Units) /\ \A t \in Threads : packet[t].rest \in Seq(Units)
    BY DEF TypeOK
  <2>2. mutex # "nobody" => mutex \in Threads
    BY DEF TypeOK
  <2>3. QED
    BY <2>1, <2>2 DEF Held
<1>4. wire[1] \in Seq(Units) /\ drain \in Seq(Units) /\ queue \in Seq(Units)
  BY Bounds DEF TypeOK
<1>5. queue \o Held \in Seq(Units)
  BY <1>3, <1>4, ConcatProperties
<1>6. drain \o (queue \o Held) \in Seq(Units)
  BY <1>4, <1>5, ConcatProperties
<1>7. wire[1] \o (drain \o (queue \o Held)) \in Seq(Units)
  BY <1>4, <1>6, ConcatProperties
<1>8. QED
  BY <1>1, <1>2, <1>3, <1>7 DEF Held, Stream

\* A step after which the socket has or will have what it would have had.
LEMMA StreamKept ==
    ASSUME OrderInv, CallInv', conns' = conns, sent' = sent,
           Taking' => Taking /\ Stream' = Stream,
           wire' = wire \/ Taking',
           Erasing' => socket' = "none",
           Fresh' => Fresh, Fresh /\ Unused => Unused'
    PROVE  OrderInv'
<1>1. Fresh' => Unused'
  BY DEF OrderInv
<1>2. ASSUME conns' = 1 PROVE Ordered'
  <2>1. Ordered
    BY <1>2 DEF OrderInv
  <2>2. Taking' => Whole(Stream') /\ Ended(Stream)'
    BY <2>1 DEF Ordered, Ended
  <2>3. Whole(wire'[1])
    <3>1. CASE wire' = wire
      BY <2>1, <3>1 DEF Ordered
    <3>2. CASE Taking'
      <4>1. Whole(Stream')
        BY <2>2, <3>2
      <4> DEFINE b == drain' \o (queue' \o Held')
      <4>2. Stream' = wire'[1] \o b
        BY DEF Stream
      <4>3. wire'[1] \in Seq(Units) /\ b \in Seq(Units)
        <5>1. wire'[1] \in Seq(Units) /\ drain' \in Seq(Units) /\ queue' \in Seq(Units) /\ Held' \in Seq(Units)
          <6>1. TypeOK'
            BY DEF CallInv
          <6>2. mutex' # "nobody" => mutex' \in Threads
            BY <6>1 DEF TypeOK
          <6>3. <<>> \in Seq(Units) /\ \A t \in Threads : packet'[t].rest \in Seq(Units)
            BY <6>1 DEF TypeOK
          <6>4. Held' \in Seq(Units)
            BY <6>2, <6>3 DEF Held
          <6>5. QED
            BY <6>1, <6>4, Bounds DEF TypeOK
        <5>2. queue' \o Held' \in Seq(Units)
          BY <5>1, ConcatProperties
        <5>3. QED
          BY <5>1, <5>2, ConcatProperties
      <4> HIDE DEF b
      <4>4. QED
        BY <4>1, <4>2, <4>3, WholePrefix
    <3>3. QED
      BY <3>1, <3>2
  <2>4. QED
    BY <2>2, <2>3 DEF Ordered
<1>3. QED
  BY <1>1, <1>2 DEF OrderInv

\* A new message goes to the end of the stream.
LEMMA BeginOrder ==
    ASSUME OrderInv, CallInv', NEW t \in Threads, Begin(t), valid
    PROVE  OrderInv'
<1> USE DEF handlerVars, threadVars, bufferVars, readerVars, socketVars, tlsVars
<1>1. /\ mutex = "nobody" /\ mutex' = t /\ Goes(t, "try") /\ sent < MaxMsgs /\ connection
      /\ sent' = sent + 1 /\ packet' = [packet EXCEPT ![t] = Packet(sent + 1)]
      /\ UNCHANGED <<bufferVars, readerVars, socketVars, tlsVars>>
  BY DEF Begin, Free
<1>2. sent + 1 \in 1..MaxMsgs /\ sent \in Nat
  BY <1>1, Bounds DEF OrderInv, CallInv, TypeOK
<1>3. thread'[t] = "try" /\ packet'[t] = Packet(sent + 1)
      /\ \A u \in Threads : u # t => thread'[u] = thread[u]
  BY <1>1 DEF Goes, OrderInv, CallInv, TypeOK
<1> DEFINE r == Packet(sent + 1).rest
<1>4. Held = <<>> /\ Stream \in Seq(Units) /\ Stream = wire[1] \o (drain \o (queue \o Held))
  BY <1>1, HeldIs DEF OrderInv, CallInv
<1>5. Held' = r
  <2>1. t # "nobody"
    BY Bounds
  <2>2. Held' = packet'[t].rest
    BY <1>1, <1>3, <2>1 DEF Held
  <2>3. QED
    BY <1>3, <2>2
<1>6. r \in Seq(Units)
  BY <1>2, PacketType
<1> HIDE DEF r
<1>7. Stream' = Stream \o r
  <2>1. wire[1] \in Seq(Units) /\ drain \in Seq(Units) /\ queue \in Seq(Units)
    BY Bounds DEF OrderInv, CallInv, TypeOK
  <2>2. Stream' = Cat(wire[1], Cat(drain, Cat(queue, r)))
    BY <1>1, <1>5 DEF Stream, Cat
  <2>3. Stream = Cat(wire[1], Cat(drain, Cat(queue, <<>>)))
    BY <1>4 DEF Cat
  <2> DEFINE w == wire[1]
  <2> HIDE DEF w
  <2>4. Cat(Cat(w, Cat(drain, Cat(queue, <<>>))), r) = Cat(w, Cat(drain, Cat(queue, r)))
    <3>1. w \in Seq(Units)
      BY <2>1 DEF w
    <3>2. QED
      BY <1>6, <2>1, <3>1, CatLaws
  <2>5. Stream' = Cat(Stream, r)
    BY <2>2, <2>3, <2>4 DEF w
  <2>6. QED
    BY <2>5 DEF Cat
<1>8. ~Fresh
  BY <1>1 DEF OrderInv, Unused
<1>9. ~Fresh'
  BY <1>1, <1>8 DEF Fresh
<1>10. ASSUME conns' = 1 PROVE Ordered'
  <2>1. Ordered
    BY <1>1, <1>10 DEF OrderInv
  <2>2. Whole(wire'[1])
    BY <1>1, <2>1 DEF Ordered
  <2>3. Taking' => Whole(Stream') /\ Ended(Stream)'
    <3>1. SUFFICES ASSUME Taking' PROVE Whole(Stream') /\ Ended(Stream)'
      OBVIOUS
    <3>2. Whole(Stream) /\ Ended(Stream)
      BY <1>1, <2>1, <3>1 DEF Ordered, Taking
    <3>3. /\ Whole(Stream \o r) /\ IsLast((Stream \o r)[Len(Stream \o r)])
          /\ (Stream \o r)[Len(Stream \o r)].msg = sent + 1
      BY <1>2, <1>4, <3>2, WholeExtended DEF r
    <3>4. sent + 1 <= sent'
      BY <1>1, <1>2
    <3>5. QED
      BY <1>7, <3>3, <3>4 DEF Ended
  <2>4. Erasing' => socket' = "none"
    <3>1. \A u \in Threads : thread'[u] = "erase" => thread[u] = "erase"
      BY <1>3
    <3>2. Erasing' => Erasing
      BY <1>1, <3>1 DEF Erasing
    <3>3. QED
      BY <1>1, <2>1, <3>2 DEF Ordered
  <2>5. QED
    BY <2>2, <2>3, <2>4 DEF Ordered
<1>11. QED
  BY <1>9, <1>10 DEF OrderInv

\* An inline write with nothing buffered continues the stream.
LEMMA TryOrder ==
    ASSUME OrderInv, CallInv', conns = 1, NEW t \in Threads, TryInline(t)
    PROVE  OrderInv'
<1> USE DEF handlerVars, threadVars, bufferVars, readerVars, socketVars, tlsVars
<1> DEFINE us == packet[t].rest
           n == Min({room, Len(us)})
<1>1. /\ thread[t] = "try" /\ queue = <<>> /\ drain = <<>> /\ Taking /\ Take(us, n)
      /\ packet' = [packet EXCEPT ![t].rest = From(us, n + 1)]
      /\ Goes(t, IF n = Len(us) THEN "callback" ELSE "queue")
      /\ mutex' = IF n = Len(us) THEN "nobody" ELSE mutex
      /\ UNCHANGED <<connection, valid, sent, bufferVars, readerVars, tlsVars, called>>
  BY DEF TryInline, WriteInline
<1>2. us \in Seq(Units) /\ n \in 0..Len(us)
  <2>1. us \in Seq(Units)
    BY DEF OrderInv, CallInv, TypeOK
  <2> HIDE DEF us
  <2>2. Len(us) \in Nat /\ room \in Nat
    <3>1. room \in 0..Capacity
      BY DEF OrderInv, CallInv, TypeOK
    <3>2. QED
      BY <2>1, <3>1, Bounds
  <2>3. QED
    BY <2>1, <2>2, Written
<1>3. mutex = t /\ Held = us /\ mutex # "nobody"
  BY <1>1, HeldIs, Bounds DEF OrderInv, CallInv
<1> HIDE DEF us, n
<1>4. /\ SubSeq(us, 1, n) \in Seq(Units) /\ From(us, n + 1) \in Seq(Units)
      /\ Len(From(us, n + 1)) = Len(us) - n
      /\ SubSeq(us, 1, n) \o From(us, n + 1) = us
  BY <1>2, Divided
<1>5. thread'[t] = (IF n = Len(us) THEN "callback" ELSE "queue") /\ packet'[t].rest = From(us, n + 1)
      /\ \A u \in Threads : u # t => thread'[u] = thread[u]
  BY <1>1 DEF Goes, OrderInv, CallInv, TypeOK
<1>6. Held' = From(us, n + 1)
  <2>1. CASE n = Len(us)
    <3>1. Len(From(us, n + 1)) = 0
      BY <1>2, <1>4, <2>1
    <3>2. From(us, n + 1) = <<>>
      BY <1>4, <3>1, EmptySeq
    <3>3. QED
      BY <1>1, <2>1, <3>2 DEF Held
  <2>2. CASE n # Len(us)
    BY <1>1, <1>3, <1>5, <2>2 DEF Held
  <2>3. QED
    BY <2>1, <2>2
<1>7. Stream' = Stream
  <2>1. wire[1] \in Seq(Units) /\ wire'[1] = wire[1] \o SubSeq(us, 1, n)
    <3>1. wire \in [1..MaxConns -> Seq(Units)] /\ 1 \in 1..MaxConns
      BY Bounds DEF OrderInv, CallInv, TypeOK
    <3>2. wire' = [wire EXCEPT ![1] = @ \o SubSeq(us, 1, n)]
      BY <1>1 DEF Take
    <3>3. QED
      BY <3>1, <3>2
  <2>2. Stream = wire[1] \o us /\ Stream' = wire'[1] \o From(us, n + 1)
    BY <1>1, <1>2, <1>3, <1>4, <1>6, ConcatEmptySeq DEF Stream
  <2>3. (wire[1] \o SubSeq(us, 1, n)) \o From(us, n + 1) = wire[1] \o us
    BY <1>2, <2>1, DividedStream
  <2>4. QED
    BY <2>1, <2>2, <2>3
<1>8. Taking' /\ conns' = conns /\ socket' = socket
  BY <1>1 DEF Take, Taking
<1>9. Erasing' => socket' = "none"
  <2>1. \A u \in Threads : thread'[u] = "erase" => thread[u] = "erase"
    BY <1>5
  <2>2. Erasing' => Erasing
    BY <1>1, <2>1 DEF Erasing
  <2>3. QED
    BY <1>8, <2>2 DEF OrderInv, Ordered
<1>10. ~Fresh /\ ~Fresh'
  BY <1>3, <1>8 DEF OrderInv, Unused, Fresh
<1>11. QED
  BY <1>1, <1>7, <1>8, <1>9, <1>10, StreamKept

\* What is queued was the end of the stream already.
LEMMA QueueOrder ==
    ASSUME OrderInv, CallInv', conns = 1, NEW t \in Threads, QueueWrite(t)
    PROVE  OrderInv'
<1> USE DEF handlerVars, threadVars, bufferVars, readerVars, socketVars, tlsVars
<1> DEFINE us == packet[t].rest
<1>1. /\ thread[t] = "queue" /\ queue' = queue \o us /\ drain' = drain
      /\ packet' = [packet EXCEPT ![t] = NoPacket] /\ Goes(t, "wake")
      /\ UNCHANGED <<handlerVars, sent, readerVars, socketVars, tlsVars>>
  BY DEF QueueWrite
<1>2. mutex = t /\ Held = us /\ mutex # "nobody"
  BY <1>1, HeldIs, Bounds DEF OrderInv, CallInv
<1>3. thread'[t] = "wake" /\ \A u \in Threads : u # t => thread'[u] = thread[u]
  BY <1>1 DEF Goes, OrderInv, CallInv, TypeOK
<1>4. Held' = <<>>
  BY <1>1, <1>2, <1>3 DEF Held
<1> HIDE DEF us
<1>5. Stream' = Stream
  <2>1. queue' \in Seq(Units)
    BY DEF CallInv, TypeOK
  <2>2. queue' \o Held' = queue \o Held
    BY <1>1, <1>2, <1>4, <2>1, ConcatEmptySeq
  <2>3. QED
    BY <1>1, <2>2 DEF Stream
<1>6. Taking' => Taking
  BY <1>1 DEF Taking
<1>7. Erasing' => socket' = "none"
  <2>1. \A u \in Threads : thread'[u] = "erase" => thread[u] = "erase"
    BY <1>3
  <2>2. Erasing' => Erasing
    BY <1>1, <2>1 DEF Erasing
  <2>3. QED
    BY <1>1, <2>2 DEF OrderInv, Ordered
<1>8. ~Fresh /\ ~Fresh'
  BY <1>1, <1>2 DEF OrderInv, Unused, Fresh
<1>9. QED
  BY <1>1, <1>5, <1>6, <1>7, <1>8, StreamKept

\* A flush moves the stream from the buffers to the socket, or from one to the other.
LEMMA FlushOrder ==
    ASSUME OrderInv, CallInv', conns \in {0, 1}, Flush
    PROVE  OrderInv'
<1> USE DEF handlerVars, threadVars, bufferVars, readerVars, socketVars, tlsVars
<1>1. /\ reader = "flush" /\ reader' = "wait"
      /\ UNCHANGED <<handlerVars, threadVars, event, ready, tlsVars>>
  BY FlushDoes DEF OrderInv, CallInv
<1>2. PICK pending \in Seq(Units), later \in Seq(Units) :
         /\ \/ pending = drain /\ later = queue
            \/ drain = <<>> /\ pending = queue /\ later = <<>>
         /\ \/ UNCHANGED <<bufferVars, socketVars, called>>
            \/ drain' = pending /\ queue' = later /\ UNCHANGED <<socketVars, called>>
            \/ ~Taking /\ EraseBuffers /\ UNCHANGED <<socketVars, called>>
            \/ \E n \in 0..Len(pending) : Wrote(pending, later, n)
  BY FlushDoes DEF OrderInv, CallInv
<1>3. Held' = Held
  BY <1>1 DEF Held
<1>4. wire[1] \in Seq(Units) /\ drain \in Seq(Units) /\ queue \in Seq(Units) /\ Held \in Seq(Units)
  <2>1. TypeOK
    BY DEF OrderInv, CallInv
  <2>2. wire[1] \in Seq(Units) /\ drain \in Seq(Units) /\ queue \in Seq(Units)
    BY <2>1, Bounds DEF TypeOK
  <2>3. QED
    BY <2>1, <2>2, HeldIs
<1>5. drain \o (queue \o Held) = pending \o (later \o Held)
  <2>1. CASE pending = drain /\ later = queue
    BY <2>1
  <2>2. CASE drain = <<>> /\ pending = queue /\ later = <<>>
    <3>1. queue \o Held \in Seq(Units)
      BY <1>4, ConcatProperties
    <3>2. drain \o (queue \o Held) = queue \o Held
      BY <2>2, <3>1, ConcatEmptySeq
    <3>3. later \o Held = Held
      BY <1>4, <2>2, ConcatEmptySeq
    <3>4. QED
      BY <2>2, <3>2, <3>3
  <2>3. QED
    BY <1>2, <2>1, <2>2
<1>6. Stream = wire[1] \o (pending \o (later \o Held))
  BY <1>5 DEF Stream
<1>7. sent' = sent /\ (Erasing' => Erasing)
  BY <1>1 DEF Erasing
<1>8. CASE UNCHANGED <<bufferVars, socketVars, called>>
  <2>1. Stream' = Stream /\ (Taking' => Taking) /\ (Fresh' => Fresh) /\ (Fresh /\ Unused => Unused')
    BY <1>1, <1>3, <1>8 DEF Stream, Taking, Fresh, Unused
  <2>2. Erasing' => socket' = "none"
    BY <1>1, <1>7, <1>8 DEF OrderInv, Ordered, Fresh, Unused, CallInv, Reached
  <2>3. QED
    BY <1>7, <1>8, <2>1, <2>2, StreamKept
<1>9. CASE drain' = pending /\ queue' = later /\ UNCHANGED <<socketVars, called>>
  <2>1. Stream' = Stream
    BY <1>3, <1>6, <1>9 DEF Stream
  <2>2. Fresh /\ Unused => Unused'
    BY <1>1, <1>2, <1>9 DEF Unused
  <2>3. (Taking' => Taking) /\ (Fresh' => Fresh)
    BY <1>9 DEF Taking, Fresh
  <2>4. Erasing' => socket' = "none"
    BY <1>1, <1>7, <1>9 DEF OrderInv, Ordered, Fresh, Unused, CallInv, Reached
  <2>5. QED
    BY <1>7, <1>9, <2>1, <2>2, <2>3, <2>4, StreamKept
<1>10. CASE ~Taking /\ EraseBuffers /\ UNCHANGED <<socketVars, called>>
  <2>1. Fresh /\ Unused => Unused'
    BY <1>1, <1>10 DEF Unused, EraseBuffers
  <2>2. ~Taking' /\ (Fresh' => Fresh)
    BY <1>10 DEF Taking, Fresh
  <2>3. Erasing' => socket' = "none"
    BY <1>1, <1>7, <1>10 DEF OrderInv, Ordered, Fresh, Unused, CallInv, Reached
  <2>4. QED
    BY <1>7, <1>10, <2>1, <2>2, <2>3, StreamKept
<1>11. CASE \E n \in 0..Len(pending) : Wrote(pending, later, n)
  <2>1. PICK n \in 0..Len(pending) : Wrote(pending, later, n)
    BY <1>11
  <2>2. /\ Taking /\ wire' = [wire EXCEPT ![conns] = @ \o SubSeq(pending, 1, n)]
        /\ drain' = From(pending, n + 1) /\ queue' = later /\ UNCHANGED <<socket, conns>>
    BY <2>1 DEF Wrote
  <2>3. conns = 1
    BY <2>2 DEF Taking, OrderInv, CallInv, Reached
  <2>4. wire'[1] = wire[1] \o SubSeq(pending, 1, n)
    <3>1. wire \in [1..MaxConns -> Seq(Units)] /\ 1 \in 1..MaxConns
      BY Bounds DEF OrderInv, CallInv, TypeOK
    <3>2. QED
      BY <2>2, <2>3, <3>1
  <2>5. Stream' = Stream
    <3> DEFINE w == wire[1]
               e == later \o Held
    <3>1. w \in Seq(Units) /\ e \in Seq(Units)
      BY <1>4, ConcatProperties
    <3>2. Stream' = (w \o SubSeq(pending, 1, n)) \o (From(pending, n + 1) \o e)
      BY <1>3, <2>2, <2>4 DEF Stream
    <3>3. Stream = w \o (pending \o e)
      BY <1>6
    <3> HIDE DEF w, e
    <3>4. QED
      BY <3>1, <3>2, <3>3, WrittenStream
  <2>6. Taking' /\ (Fresh' => Fresh)
    BY <2>2 DEF Taking, Fresh
  <2>7. Erasing' => socket' = "none"
    BY <1>7, <2>2, <2>3 DEF OrderInv, Ordered
  <2>8. Fresh /\ Unused => Unused'
    <3>1. SUFFICES ASSUME Unused PROVE Unused'
      OBVIOUS
    <3>2. pending = <<>> /\ later = <<>>
      BY <1>2, <3>1 DEF Unused
    <3>3. n = 0 /\ From(pending, n + 1) = <<>> /\ SubSeq(pending, 1, n) = <<>>
      <4>1. n = 0
        BY <3>2
      <4>2. Len(From(pending, n + 1)) = 0 /\ From(pending, n + 1) \in Seq(Units)
        <5>1. Len(From(pending, n + 1)) = Len(pending) - n /\ From(pending, n + 1) \in Seq(Units)
          BY Divided
        <5>2. Len(pending) = 0
          BY <3>2
        <5>3. QED
          BY <4>1, <5>1, <5>2
      <4>3. Len(SubSeq(pending, 1, n)) = 0 /\ SubSeq(pending, 1, n) \in Seq(Units)
        BY <4>1, Divided
      <4>4. QED
        BY <4>1, <4>2, <4>3, EmptySeq
    <3>4. wire'[1] = <<>>
      BY <1>4, <2>4, <3>1, <3>3, ConcatEmptySeq DEF Unused
    <3>5. QED
      BY <1>1, <2>2, <3>1, <3>2, <3>3, <3>4 DEF Unused
  <2>9. QED
    BY <1>7, <2>2, <2>5, <2>6, <2>7, <2>8, StreamKept
<1>12. QED
  BY <1>2, <1>8, <1>9, <1>10, <1>11

\* The other steps of a thread leave what is written and to be written, or end the
\* connection.
LEMMA ThreadOrder ==
    ASSUME OrderInv, CallInv', conns \in {0, 1}, NEW t \in Threads,
           (Begin(t) /\ ~valid) \/ BeginDisconnect(t) \/ TryFails(t) \/ Wake(t) \/ Callback(t)
              \/ Close(t) \/ EndDisconnect(t)
    PROVE  OrderInv'
<1> USE DEF handlerVars, threadVars, bufferVars, readerVars, socketVars, tlsVars
<1>1. TypeOK /\ t # "nobody" /\ (thread[t] \in Inside => mutex = t)
  BY Bounds DEF OrderInv, CallInv, TypeOK
<1>2. Erasing => socket = "none"
  BY DEF OrderInv, Ordered, Fresh, Unused, CallInv, Reached
<1>3. Fresh => ~connection /\ mutex = "nobody"
  BY DEF OrderInv, Unused
<1>4. CASE Begin(t) /\ ~valid
  <2>1. /\ connection' = FALSE
        /\ UNCHANGED <<mutex, threadVars, bufferVars, readerVars, socketVars, tlsVars>>
    BY <1>4 DEF Begin
  <2>2. Stream' = Stream
    BY <2>1 DEF Stream, Held
  <2>3. (Erasing' => socket' = "none") /\ (Taking' => Taking) /\ (Fresh' => Fresh) /\ (Fresh /\ Unused => Unused')
    BY <1>2, <2>1 DEF Erasing, Taking, Fresh, Unused
  <2>4. QED
    BY <2>1, <2>2, <2>3, StreamKept
<1>5. CASE BeginDisconnect(t)
  <2>1. /\ connection /\ mutex = "nobody"
        /\ UNCHANGED <<valid, packet, sent, bufferVars, readerVars, socketVars, tlsVars>>
    BY <1>5 DEF BeginDisconnect, Free
  <2>2. (mutex' = t /\ thread'[t] = "close") \/ (mutex' = mutex /\ thread' = thread)
    BY <1>1, <1>5 DEF BeginDisconnect, Goes, TypeOK
  <2>3. \A u \in Threads : thread'[u] = thread[u] \/ thread'[u] = "close"
    BY <1>1, <1>5 DEF BeginDisconnect, Goes, TypeOK
  <2>4. Held = <<>> /\ Held' = <<>>
    BY <2>1, <2>2 DEF Held
  <2>5. Stream' = Stream
    BY <2>1, <2>4 DEF Stream
  <2>6. Erasing' => Erasing
    BY <2>1, <2>3 DEF Erasing
  <2>7. (Erasing' => socket' = "none") /\ (Taking' => Taking) /\ ~Fresh /\ (Fresh' => Fresh)
    BY <1>2, <1>3, <2>1, <2>6 DEF Taking, Fresh
  <2>8. QED
    BY <2>1, <2>5, <2>7, StreamKept
<1>6. CASE TryFails(t)
  <2>1. /\ thread[t] = "try" /\ mutex = t
        /\ UNCHANGED <<handlerVars, packet, sent, bufferVars, readerVars, socketVars, tlsVars>>
    BY <1>1, <1>6 DEF TryFails, Inside
  <2>2. thread'[t] = "queue" /\ \A u \in Threads : u # t => thread'[u] = thread[u]
    BY <1>1, <1>6 DEF TryFails, Goes, TypeOK
  <2>3. Held' = Held
    BY <1>1, <2>1, <2>2 DEF Held
  <2>4. Stream' = Stream
    BY <2>1, <2>3 DEF Stream
  <2>5. Erasing' => Erasing
    BY <2>1, <2>2 DEF Erasing
  <2>6. (Erasing' => socket' = "none") /\ (Taking' => Taking) /\ ~Fresh /\ (Fresh' => Fresh)
    BY <1>1, <1>2, <1>3, <2>1, <2>5 DEF Taking, Fresh
  <2>7. QED
    BY <2>1, <2>4, <2>6, StreamKept
<1>7. CASE Wake(t)
  <2>1. /\ thread[t] = "wake" /\ mutex = t /\ mutex' = "nobody" /\ reader' = reader
        /\ UNCHANGED <<connection, valid, packet, sent, bufferVars, socketVars, tlsVars>>
    BY <1>1, <1>7 DEF Wake, Inside
  <2>2. \A u \in Threads : thread'[u] = thread[u] \/ thread'[u] = "idle"
    BY <1>1, <1>7 DEF Wake, Goes, TypeOK
  <2>3. Held = <<>> /\ Held' = <<>>
    BY <2>1 DEF Held
  <2>4. Stream' = Stream
    BY <2>1, <2>3 DEF Stream
  <2>5. Erasing' => Erasing
    BY <2>1, <2>2 DEF Erasing
  <2>6. (Erasing' => socket' = "none") /\ (Taking' => Taking) /\ ~Fresh /\ (Fresh' => Fresh)
    BY <1>1, <1>2, <1>3, <2>1, <2>5 DEF Taking, Fresh
  <2>7. QED
    BY <2>1, <2>4, <2>6, StreamKept
<1>8. CASE Callback(t)
  <2>1. /\ thread[t] = "callback"
        /\ UNCHANGED <<handlerVars, sent, bufferVars, readerVars, socketVars, tlsVars>>
    BY <1>8 DEF Callback
  <2>2. \A u \in Threads : u # t => thread'[u] = thread[u] /\ packet'[u] = packet[u]
    BY <1>1, <1>8 DEF Callback, Goes, TypeOK
  <2>3. thread'[t] = "idle"
    BY <1>1, <1>8 DEF Callback, Goes, TypeOK
  <2>4. mutex # t /\ (mutex # "nobody" => mutex \in Threads)
    BY <1>1, <2>1 DEF TypeOK, Inside
  <2>5. Held' = Held
    BY <2>1, <2>2, <2>4 DEF Held
  <2>6. Stream' = Stream
    BY <2>1, <2>5 DEF Stream
  <2>7. Erasing' => Erasing
    BY <2>1, <2>2, <2>3 DEF Erasing
  <2>8. (Erasing' => socket' = "none") /\ (Taking' => Taking) /\ (Fresh' => Fresh) /\ (Fresh /\ Unused => Unused')
    BY <1>2, <2>1, <2>7 DEF Taking, Fresh, Unused
  <2>9. QED
    BY <2>1, <2>6, <2>8, StreamKept
<1>9. CASE Close(t)
  <2>1. thread[t] = "close" /\ mutex = t /\ socket' = "none" /\ conns' = conns /\ wire' = wire /\ sent' = sent
    BY <1>1, <1>9 DEF Close, CloseSocket, Inside
  <2>2. ~Taking' /\ ~Fresh /\ (Fresh' => Fresh)
    BY <1>1, <1>3, <2>1 DEF Taking, Fresh
  <2>3. QED
    BY <2>1, <2>2, StreamKept
<1>10. CASE EndDisconnect(t)
  <2>1. thread[t] = "erase" /\ mutex = t /\ UNCHANGED <<socketVars, sent>>
    BY <1>1, <1>10 DEF EndDisconnect, Inside
  <2>2. socket' = "none"
    BY <1>2, <2>1 DEF Erasing
  <2>3. ~Taking' /\ ~Fresh /\ (Fresh' => Fresh)
    BY <1>1, <1>3, <2>1, <2>2 DEF Taking, Fresh
  <2>4. QED
    BY <2>1, <2>2, <2>3, StreamKept
<1>11. QED
  BY <1>4, <1>5, <1>6, <1>7, <1>8, <1>9, <1>10

\* So do the other steps of the reader thread and of the peer.
LEMMA OtherOrder ==
    ASSUME OrderInv, CallInv', conns \in {0, 1},
           OnEvent \/ OnWritable \/ HangUp \/ Erase \/ PeerReads \/ PeerSends \/ PeerEnds \/ Assign
              \/ UNCHANGED vars
    PROVE  OrderInv'
<1> USE DEF handlerVars, threadVars, bufferVars, readerVars, socketVars, tlsVars
<1>1. Erasing => socket = "none"
  BY DEF OrderInv, Ordered, Fresh, Unused, CallInv, Reached
<1>2. Fresh => socket \in {"none", "new"} /\ reader # "erase" /\ tls # "answered"
  BY DEF OrderInv, Unused, Fresh, CallInv, Reached
<1>3. ASSUME UNCHANGED <<mutex, threadVars, bufferVars, wire>> PROVE Stream' = Stream /\ sent' = sent
  BY <1>3 DEF Stream, Held
<1>4. CASE OnEvent
  <2>1. (Erasing' => socket' = "none") /\ (Taking' => Taking) /\ (Fresh' => Fresh) /\ (Fresh /\ Unused => Unused')
    BY <1>1, <1>4 DEF OnEvent, Erasing, Taking, Fresh, Unused
  <2>2. Stream' = Stream /\ sent' = sent /\ conns' = conns /\ wire' = wire
    BY <1>3, <1>4 DEF OnEvent
  <2>3. QED
    BY <2>1, <2>2, StreamKept
<1>5. CASE OnWritable
  <2>1. reader' # "erase" /\ (tls # "answered" => tls' # "answered")
    BY <1>5 DEF OnWritable, Progressed
  <2>2. (Erasing' => socket' = "none") /\ (Taking' => Taking) /\ (Fresh' => Fresh) /\ (Fresh /\ Unused => Unused')
    BY <1>1, <1>5, <2>1 DEF OnWritable, Erasing, Taking, Fresh, Unused
  <2>3. Stream' = Stream /\ sent' = sent /\ conns' = conns /\ wire' = wire
    BY <1>3, <1>5 DEF OnWritable
  <2>4. QED
    BY <2>2, <2>3, StreamKept
<1>6. CASE HangUp
  <2>1. socket' = "none" /\ conns' = conns /\ wire' = wire /\ sent' = sent
    BY <1>6 DEF HangUp, CloseSocket
  <2>2. ~Fresh
    BY <1>2, <1>6 DEF HangUp
  <2>3. ~Taking' /\ (Fresh' => Fresh)
    BY <2>1 DEF Taking, Fresh
  <2>4. QED
    BY <2>1, <2>2, <2>3, StreamKept
<1>7. CASE Erase
  <2>1. socket = "none" /\ UNCHANGED <<socketVars, sent>>
    BY <1>1, <1>7 DEF Erase, Erasing
  <2>2. ~Fresh
    BY <1>2, <1>7 DEF Erase
  <2>3. ~Taking' /\ (Fresh' => Fresh)
    BY <2>1 DEF Taking, Fresh
  <2>4. QED
    BY <2>1, <2>2, <2>3, StreamKept
<1>8. CASE PeerReads
  <2>1. (Erasing' => socket' = "none") /\ (Taking' => Taking) /\ (Fresh' => Fresh) /\ (Fresh /\ Unused => Unused')
    BY <1>1, <1>8 DEF PeerReads, Erasing, Taking, Fresh, Unused
  <2>2. Stream' = Stream /\ sent' = sent /\ conns' = conns /\ wire' = wire
    BY <1>3, <1>8 DEF PeerReads
  <2>3. QED
    BY <2>1, <2>2, StreamKept
<1>9. CASE PeerSends
  <2>1. (Erasing' => socket' = "none") /\ (Taking' => Taking) /\ (Fresh' => Fresh) /\ ~Fresh
    BY <1>1, <1>2, <1>9 DEF PeerSends, Erasing, Taking, Fresh
  <2>2. Stream' = Stream /\ sent' = sent /\ conns' = conns /\ wire' = wire
    BY <1>3, <1>9 DEF PeerSends
  <2>3. QED
    BY <2>1, <2>2, StreamKept
<1>10. CASE PeerEnds \/ Assign
  <2>1. socket \in {"new", "open", "half"} /\ socket' \in {"open", "half", "reset"} /\ ~Erasing
    BY <1>1, <1>10 DEF PeerEnds, Assign
  <2>2. UNCHANGED <<mutex, threadVars, bufferVars, reader, wire, conns>>
    BY <1>10 DEF PeerEnds, Assign
  <2>3. ~Erasing' /\ (Taking' => Taking)
    BY <2>1, <2>2 DEF Erasing, Taking
  <2>4. conns = 1 /\ ~Fresh'
    BY <2>1, <2>2 DEF Fresh, OrderInv, CallInv, Reached
  <2>5. Stream' = Stream /\ sent' = sent
    BY <1>3, <2>2
  <2>6. Ordered'
    <3>1. Ordered
      BY <2>4 DEF OrderInv
    <3>2. Taking' => Whole(Stream') /\ Ended(Stream)'
      BY <2>3, <2>5, <3>1 DEF Ordered, Ended
    <3>3. Whole(wire'[1])
      BY <2>2, <3>1 DEF Ordered
    <3>4. QED
      BY <2>3, <3>2, <3>3 DEF Ordered
  <2>7. QED
    BY <2>2, <2>4, <2>6 DEF OrderInv
<1>11. CASE UNCHANGED vars
  <2>1. (Erasing' => socket' = "none") /\ (Taking' => Taking) /\ (Fresh' => Fresh) /\ (Fresh /\ Unused => Unused')
    BY <1>1, <1>11 DEF vars, Erasing, Taking, Fresh, Unused
  <2>2. Stream' = Stream /\ sent' = sent /\ conns' = conns /\ wire' = wire
    BY <1>3, <1>11 DEF vars
  <2>3. QED
    BY <2>1, <2>2, StreamKept
<1>12. QED
  BY <1>4, <1>5, <1>6, <1>7, <1>8, <1>9, <1>10, <1>11

\* The first connection starts with nothing buffered; a later one may find what the
\* one before it left.
LEMMA DialOrder ==
    ASSUME OrderInv, CallInv', Dial
    PROVE  OrderInv'
<1> USE DEF handlerVars, threadVars, bufferVars, readerVars, socketVars, tlsVars
<1>1. conns \in Nat /\ conns' = conns + 1 /\ socket' = "new"
  BY Bounds DEF Dial, OrderInv, CallInv, TypeOK
<1>2. CASE conns # 0
  <2>1. conns' # 0 /\ conns' # 1
    BY <1>1, <1>2
  <2>2. QED
    BY <2>1 DEF OrderInv, Fresh
<1>3. CASE conns = 0
  <2>1. Unused
    BY <1>3 DEF OrderInv, Fresh
  <2>2. tls' # "answered" /\ UNCHANGED <<handlerVars, threadVars, bufferVars, readerVars, wire>>
    BY DEF Dial, TLSEntry
  <2>3. Unused'
    BY <2>1, <2>2 DEF Unused
  <2>4. Held' = <<>>
    BY <2>3 DEF Held, Unused
  <2>5. Stream' = <<>>
    <3>1. <<>> \in Seq(Units) /\ <<>> \o <<>> = <<>>
      BY ConcatEmptySeq
    <3>2. QED
      BY <2>3, <2>4, <3>1 DEF Stream, Unused
  <2>6. Whole(<<>>)
    BY DEF Whole
  <2>7. ~Erasing'
    <3>1. \A t \in Threads : thread[t] # "erase"
      BY <2>1, Bounds DEF Unused, OrderInv, CallInv, TypeOK, Inside
    <3>2. QED
      BY <2>2, <2>3, <3>1 DEF Erasing, Unused
  <2>8. Ordered'
    BY <2>3, <2>5, <2>6, <2>7 DEF Ordered, Ended, Unused
  <2>9. QED
    BY <2>3, <2>8 DEF OrderInv
<1>4. QED
  BY <1>2, <1>3

\* Every step keeps the stream in order.
LEMMA OrderStep == OrderInv /\ [Next]_vars => OrderInv'
<1> SUFFICES ASSUME OrderInv, [Next]_vars PROVE OrderInv'
  OBVIOUS
<1> USE DEF handlerVars, threadVars, bufferVars, readerVars, socketVars, tlsVars
<1>1. CallInv'
  BY CallStep DEF OrderInv
<1>2. CASE Dial
  BY <1>1, <1>2, DialOrder
<1>3. CASE ~Dial /\ conns \notin {0, 1}
  <2>1. conns' = conns
    <3>1. Flush => conns' = conns
      <4>1. SUFFICES ASSUME Flush PROVE conns' = conns
        OBVIOUS
      <4>2. QED
        BY <4>1, FlushDoes DEF Wrote, OrderInv, CallInv
    <3>2. \A t \in Threads : Begin(t) \/ BeginDisconnect(t) => conns' = conns
      BY DEF Begin, BeginDisconnect
    <3>3. \A t \in Threads : Step(t) => conns' = conns
      BY DEF Step, TryInline, WriteInline, Take, TryFails, QueueWrite, Wake, Callback, Close, CloseSocket,
             EndDisconnect
    <3>4. OnEvent \/ OnWritable \/ HangUp \/ Erase => conns' = conns
      BY DEF OnEvent, OnWritable, HangUp, CloseSocket, Erase
    <3>5. PeerReads \/ PeerSends \/ PeerEnds \/ Assign => conns' = conns
      BY DEF PeerReads, PeerSends, PeerEnds, Assign
    <3>6. UNCHANGED vars => conns' = conns
      BY DEF vars
    <3>7. QED
      BY <1>3, <3>1, <3>2, <3>3, <3>4, <3>5, <3>6 DEF Next, ReaderLoop
  <2>2. QED
    BY <1>1, <1>3, <2>1 DEF OrderInv, Fresh
<1>4. CASE ~Dial /\ conns \in {0, 1}
  <2>1. CASE Flush
    BY <1>1, <1>4, <2>1, FlushOrder
  <2>2. ASSUME NEW t \in Threads, QueueWrite(t) \/ TryInline(t) PROVE OrderInv'
    <3>1. conns = 1
      <4>1. thread[t] \in Inside
        BY <2>2 DEF QueueWrite, TryInline, Inside
      <4>2. mutex = t /\ t # "nobody"
        BY <4>1, Bounds DEF OrderInv, CallInv, TypeOK
      <4>3. QED
        BY <1>4, <4>2 DEF OrderInv, Fresh, Unused
    <3>2. QED
      BY <1>1, <2>2, <3>1, QueueOrder, TryOrder
  <2>3. ASSUME NEW t \in Threads, Begin(t) PROVE OrderInv'
    BY <1>1, <1>4, <2>3, BeginOrder, ThreadOrder
  <2>4. ASSUME NEW t \in Threads, BeginDisconnect(t) \/ Step(t) PROVE OrderInv'
    BY <1>1, <1>4, <2>2, <2>4, ThreadOrder DEF Step
  <2>5. QED
    BY <1>1, <1>4, <2>1, <2>3, <2>4, OtherOrder DEF Next, ReaderLoop
<1>5. QED
  BY <1>2, <1>3, <1>4

\* As long as the descriptor's number was given out once, the socket gets whole
\* messages in the order in which threads had their turn in NetworkHandler::send,
\* whoever writes them and in whatever parts.
THEOREM OrderedUntilReused == Spec => [](conns <= 1 => WholeMessages)
<1>1. Init => OrderInv
  <2> SUFFICES ASSUME Init PROVE OrderInv
    OBVIOUS
  <2>1. CallInv
    BY CallInit
  <2>2. conns = 0 /\ wire[1] = <<>>
    BY Bounds DEF Init
  <2>3. Unused
    BY <2>2 DEF Init, Unused
  <2>4. QED
    BY <2>1, <2>2, <2>3 DEF OrderInv
<1>2. OrderInv => (conns <= 1 => WholeMessages)
  <2> SUFFICES ASSUME OrderInv, conns <= 1, NEW c \in 1..conns
               PROVE  Whole(wire[c])
    BY DEF WholeMessages, Whole
  <2>1. conns = 1 /\ c = 1
    BY Bounds DEF OrderInv, CallInv, TypeOK
  <2>2. QED
    BY <2>1 DEF OrderInv, Ordered
<1>3. QED
  BY <1>1, <1>2, OrderStep, PTL DEF Spec

=============================================================================

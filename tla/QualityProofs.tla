---------------------------- MODULE QualityProofs ---------------------------
(***************************************************************************)
(* What the number guard and the comparison of answers find, for texts of  *)
(* any length, and with CalibrationProofs the properties of Quality.       *)
(***************************************************************************)
EXTENDS Quality, CalibrationProofs

-----------------------------------------------------------------------------
(* Groups of number words are the phrases                                   *)

(* The words at i and i + 1 belong to one number. *)
Joined(text, i) ==
  /\ i \in 1 .. Len(text) /\ i + 1 \in 1 .. Len(text)
  /\ text[i][1] = "spoken" /\ text[i + 1][1] = "spoken"
  /\ Continues(text[i][2], text[i + 1][2])

(* No word has two classes. *)
LEMMA ClassesAreApart ==
  /\ \A n \in Tens : n \in 20 .. 90
  /\ \A n \in Hundreds : n \in 100 .. 900
  /\ \A n \in Units : n \in 0 .. 9
  /\ \A n \in Teens : n \in 10 .. 19
  BY DEF Tens, Hundreds, Units, Teens

LEMMA ClassesAreDisjoint ==
  /\ Tens \cap Units = {}
  /\ Hundreds \cap (Units \cup Teens \cup Tens) = {}
<1>1. ASSUME NEW n \in Tens, n \in Units PROVE FALSE
  <2>1. n \in 20 .. 90 /\ n \in 0 .. 9
    BY <1>1, ClassesAreApart
  <2> QED BY <2>1
<1>2. ASSUME NEW n \in Hundreds, n \in Units \cup Teens \cup Tens PROVE FALSE
  <2>1. n \in Int /\ 100 <= n
    BY ClassesAreApart
  <2>2. n \in 0 .. 9 \/ n \in 10 .. 19 \/ n \in 20 .. 90
    BY <1>2, ClassesAreApart
  <2> QED BY <2>1, <2>2
<1> QED BY <1>1, <1>2

(* What a text of tokens has at a place. *)
LEMMA TokensAreTyped ==
  ASSUME NEW token \in Token
  PROVE  /\ token = <<token[1], token[2], token[3]>>
         /\ token[2] \in Nat /\ token[3] \in Nat
         /\ token[1] \in {"spoken", "word"} \cup Notation
         /\ token[1] = "spoken" => token[2] \in NumberWords
         /\ token[1] \in {"spoken", "word", "plain", "grouped"} => token[3] = 0
<1>1. NumberWords \subseteq Nat
  <2>1. \A n \in Units \cup Teens \cup Tens : n \in Nat
    BY ClassesAreApart
  <2>2. \A n \in Hundreds : n \in Nat
    BY ClassesAreApart
  <2> QED BY <2>1, <2>2 DEF NumberWords
<1>2. CASE token \in {"spoken"} \X NumberWords \X {0}
  <2>1. /\ token = <<token[1], token[2], token[3]>>
        /\ token[1] = "spoken" /\ token[2] \in NumberWords /\ token[3] = 0
    BY <1>2
  <2> QED BY <1>1, <2>1
<1>3. CASE token \in {"word", "plain", "grouped"} \X Nat \X {0}
  BY <1>3 DEF Notation
<1>4. CASE token \in {"comma", "point", "time"} \X Nat \X Fractions
  <2>1. /\ token = <<token[1], token[2], token[3]>>
        /\ token[1] \in {"comma", "point", "time"} /\ token[2] \in Nat /\ token[3] \in Fractions
    BY <1>4
  <2>2. token[3] \in Nat
    BY <2>1 DEF Fractions
  <2> QED BY <2>1, <2>2 DEF Notation
<1> QED BY <1>2, <1>3, <1>4 DEF Token

(* A group without hundreds ends where nothing continues it. *)
LEMMA SmallGroupIsPhrase ==
  ASSUME NEW text \in Seq(Token), NEW p \in 1 .. Len(text),
         text[p][1] = "spoken", text[p][2] \notin Hundreds
  PROVE  LET g == SmallGroup(text, p)
         IN  /\ g \in 1 .. 2 /\ p + g - 1 \in 1 .. Len(text)
             /\ \A i \in p .. p + g - 2 : Joined(text, i)
             /\ ~ Joined(text, p + g - 1)
<1> DEFINE small == Units \cup Teens \cup Tens
<1>1. text[p] \in Token /\ \A q \in 1 .. Len(text) : text[q] \in Token
  OBVIOUS
<1>2. text[p][2] \in small
  BY <1>1, TokensAreTyped DEF NumberWords
<1>3. Says(text, p, small)
  BY <1>2 DEF Says
<1>4. CASE Says(text, p, Tens) /\ Says(text, p + 1, Units)
  <2>1. SmallGroup(text, p) = 2
    BY <1>4 DEF SmallGroup
  <2>2. /\ p + 1 \in 1 .. Len(text) /\ text[p + 1][1] = "spoken"
        /\ text[p][2] \in Tens /\ text[p + 1][2] \in Units
    BY <1>4 DEF Says
  <2>3. Joined(text, p)
    BY <2>2 DEF Joined, Continues
  <2>4. ~ Joined(text, p + 1)
    BY <2>2, ClassesAreDisjoint DEF Joined, Continues
  <2>5. p + 2 - 1 = p + 1 /\ p + 2 - 2 = p /\ p .. p = {p}
    OBVIOUS
  <2> QED BY <2>1, <2>2, <2>3, <2>4, <2>5
<1>5. CASE ~ (Says(text, p, Tens) /\ Says(text, p + 1, Units))
  <2>1. SmallGroup(text, p) = 1
    BY <1>3, <1>5 DEF SmallGroup
  <2>2. ~ Joined(text, p)
    BY <1>5 DEF Joined, Continues, Says
  <2>3. p + 1 - 1 = p /\ p .. p + 1 - 2 = {}
    OBVIOUS
  <2> QED BY <2>1, <2>2, <2>3
<1> QED BY <1>4, <1>5

(* So does a group. *)
LEMMA GroupIsPhrase ==
  ASSUME NEW text \in Seq(Token), NEW p \in 1 .. Len(text)
  PROVE  LET g == Group(text, p)
         IN  /\ text[p][1] # "spoken" => g = 0
             /\ text[p][1] = "spoken" =>
                  /\ g \in 1 .. 3 /\ p + g - 1 \in 1 .. Len(text)
                  /\ \A i \in p .. p + g - 2 : Joined(text, i)
                  /\ ~ Joined(text, p + g - 1)
<1> DEFINE small == Units \cup Teens \cup Tens
<1>1. \A q \in 1 .. Len(text) : text[q] \in Token
  OBVIOUS
<1>2. CASE text[p][1] # "spoken"
  BY <1>2 DEF Group, SmallGroup, Says
<1>3. CASE text[p][1] = "spoken" /\ text[p][2] \notin Hundreds
  <2>1. Group(text, p) = SmallGroup(text, p)
    BY <1>3 DEF Group, Says
  <2> QED BY <2>1, <1>3, SmallGroupIsPhrase
<1>4. CASE text[p][1] = "spoken" /\ text[p][2] \in Hundreds
  <2>1. Group(text, p) = 1 + SmallGroup(text, p + 1)
    BY <1>4 DEF Group, Says
  <2>2. CASE Joined(text, p)
    <3>1. /\ p + 1 \in 1 .. Len(text) /\ text[p + 1][1] = "spoken"
          /\ text[p + 1][2] \notin Hundreds
      BY <1>4, <2>2, ClassesAreDisjoint DEF Joined, Continues
    <3> DEFINE q == p + 1
               h == SmallGroup(text, q)
    <3>2. /\ h \in 1 .. 2 /\ q + h - 1 \in 1 .. Len(text)
          /\ \A i \in q .. q + h - 2 : Joined(text, i)
          /\ ~ Joined(text, q + h - 1)
      BY <3>1, SmallGroupIsPhrase
    <3>3. Group(text, p) = 1 + h
      BY <2>1
    <3> HIDE DEF h
    <3>4. /\ p + (1 + h) - 1 = q + h - 1
          /\ \A i \in p .. p + (1 + h) - 2 : i = p \/ i \in q .. q + h - 2
          /\ 1 + h \in 1 .. 3
      BY <3>2
    <3> HIDE DEF q
    <3>5. \A i \in p .. p + (1 + h) - 2 : Joined(text, i)
      BY <3>2, <3>4, <2>2
    <3> QED BY <3>2, <3>3, <3>4, <3>5, <1>4
  <2>3. CASE ~ Joined(text, p)
    <3>1. ~ Says(text, p + 1, small) /\ ~ Says(text, p + 1, Tens)
      BY <1>4, <2>3 DEF Joined, Continues, Says
    <3>2. SmallGroup(text, p + 1) = 0
      BY <3>1 DEF SmallGroup
    <3>3. p + 1 - 1 = p /\ p .. p + 1 - 2 = {}
      OBVIOUS
    <3> QED BY <2>1, <2>3, <3>2, <3>3, <1>4
  <2> QED BY <2>2, <2>3
<1> QED BY <1>2, <1>3, <1>4

-----------------------------------------------------------------------------
(* Phrases, by where they start                                             *)

LEMMA PhraseIsJoined ==
  ASSUME NEW text \in Seq(Token), NEW p \in 1 .. Len(text), NEW q \in p .. Len(text)
  PROVE  Phrase(text, p, q) <=>
           text[p][1] = "spoken" /\ \A i \in p .. q - 1 : Joined(text, i)
<1>1. ASSUME Phrase(text, p, q)
      PROVE  text[p][1] = "spoken" /\ \A i \in p .. q - 1 : Joined(text, i)
  <2>1. text[p][1] = "spoken"
    BY <1>1 DEF Phrase
  <2>2. ASSUME NEW i \in p .. q - 1
        PROVE  Joined(text, i)
    <3>1. i \in 1 .. Len(text) /\ i + 1 \in 1 .. Len(text) /\ i \in p .. q /\ i + 1 \in p .. q
      OBVIOUS
    <3> QED BY <1>1, <3>1 DEF Phrase, Joined
  <2> QED BY <2>1, <2>2
<1>2. ASSUME text[p][1] = "spoken", \A i \in p .. q - 1 : Joined(text, i)
      PROVE  Phrase(text, p, q)
  <2>1. ASSUME NEW i \in p .. q
        PROVE  text[i][1] = "spoken"
    <3>1. CASE i = p
      BY <3>1, <1>2
    <3>2. CASE i # p
      <4>1. i - 1 \in p .. q - 1 /\ (i - 1) + 1 = i
        BY <3>2
      <4> QED BY <4>1, <1>2 DEF Joined
    <3> QED BY <3>1, <3>2
  <2> QED BY <2>1, <1>2 DEF Phrase, Joined
<1> QED BY <1>1, <1>2

(* The longest phrases are bounded by words that are not joined. *)
LEMMA PhrasesAreBounded ==
  ASSUME NEW text \in Seq(Token), NEW a \in 1 .. Len(text), NEW b \in a .. Len(text)
  PROVE  <<a, b>> \in Phrases(text) <=>
           /\ text[a][1] = "spoken" /\ \A i \in a .. b - 1 : Joined(text, i)
           /\ ~ Joined(text, a - 1) /\ ~ Joined(text, b)
<1>1. Len(text) \in Nat /\ b \in 1 .. Len(text) /\ a <= b
  OBVIOUS
<1>2. <<a, b>> \in Phrases(text) <=>
        /\ Phrase(text, a, b)
        /\ a > 1 => ~ Phrase(text, a - 1, b)
        /\ b < Len(text) => ~ Phrase(text, a, b + 1)
  BY <1>1 DEF Phrases
<1>3. Phrase(text, a, b) <=> text[a][1] = "spoken" /\ \A i \in a .. b - 1 : Joined(text, i)
  BY PhraseIsJoined
<1> SUFFICES ASSUME text[a][1] = "spoken", \A i \in a .. b - 1 : Joined(text, i)
             PROVE  /\ (a > 1 => ~ Phrase(text, a - 1, b)) <=> ~ Joined(text, a - 1)
                    /\ (b < Len(text) => ~ Phrase(text, a, b + 1)) <=> ~ Joined(text, b)
  BY <1>2, <1>3
<1>4. (a > 1 => ~ Phrase(text, a - 1, b)) <=> ~ Joined(text, a - 1)
  <2>1. CASE a = 1
    <3>1. ~ Joined(text, a - 1)
      BY <2>1 DEF Joined
    <3> QED BY <2>1, <3>1
  <2>2. CASE a > 1
    <3>1. a - 1 \in 1 .. Len(text) /\ b \in a - 1 .. Len(text)
      BY <2>2
    <3>2. Phrase(text, a - 1, b) <=>
            text[a - 1][1] = "spoken" /\ \A i \in a - 1 .. b - 1 : Joined(text, i)
      BY <3>1, PhraseIsJoined
    <3>3. \A i \in a - 1 .. b - 1 : i = a - 1 \/ i \in a .. b - 1
      OBVIOUS
    <3>4. a - 1 \in a - 1 .. b - 1 /\ (Joined(text, a - 1) => text[a - 1][1] = "spoken")
      BY DEF Joined
    <3> QED BY <2>2, <3>2, <3>3, <3>4
  <2> QED BY <2>1, <2>2
<1>5. (b < Len(text) => ~ Phrase(text, a, b + 1)) <=> ~ Joined(text, b)
  <2>1. CASE b = Len(text)
    <3>1. ~ Joined(text, b)
      BY <2>1 DEF Joined
    <3> QED BY <2>1, <3>1
  <2>2. CASE b < Len(text)
    <3>1. b + 1 \in a .. Len(text) /\ (b + 1) - 1 = b
      BY <2>2
    <3>2. Phrase(text, a, b + 1) <=>
            text[a][1] = "spoken" /\ \A i \in a .. b : Joined(text, i)
      BY <3>1, PhraseIsJoined
    <3>3. b \in a .. b /\ \A i \in a .. b : i = b \/ i \in a .. b - 1
      OBVIOUS
    <3> QED BY <2>2, <3>2, <3>3
  <2> QED BY <2>1, <2>2
<1> QED BY <1>4, <1>5

PhrasesFrom(text, p) == {r \in Phrases(text) : r[1] >= p}
SpokenSum(text, r) == Digits("plain", SumOf(text, r[1], r[2]), 0)
OthersFrom(text, p) == {i \in p .. Len(text) : text[i][1] # "spoken"}

(* What is said from p on: the numbers in words, and the other tokens. *)
Heard(text, p) ==
  {SpokenSum(text, r) : r \in PhrasesFrom(text, p)} \cup {text[i] : i \in OthersFrom(text, p)}

(* At a word that nothing joins to the one before it: what the scan takes   *)
(* there, and how far it goes on.                                           *)
Taken(text, p) ==
  IF Group(text, p) = 0 THEN text[p]
  ELSE Digits("plain", SumOf(text, p, p + Group(text, p) - 1), 0)
Skipped(text, p) == IF Group(text, p) = 0 THEN 1 ELSE Group(text, p)

LEMMA ScanTakesPhrases ==
  ASSUME NEW text \in Seq(Token), NEW p \in 1 .. Len(text), ~ Joined(text, p - 1)
  PROVE  LET q == p + Skipped(text, p)
         IN  /\ q \in p + 1 .. Len(text) + 1
             /\ ~ Joined(text, q - 1)
             /\ Heard(text, p) = {Taken(text, p)} \cup Heard(text, q)
<1> DEFINE g == Group(text, p)
           n == Len(text)
<1>1. n \in Nat /\ p \in Nat
  OBVIOUS
<1>2. \A r \in Phrases(text) :
        /\ r = <<r[1], r[2]>> /\ r[1] \in 1 .. n /\ r[2] \in r[1] .. n
        /\ text[r[1]][1] = "spoken" /\ \A i \in r[1] .. r[2] - 1 : Joined(text, i)
        /\ ~ Joined(text, r[1] - 1) /\ ~ Joined(text, r[2])
  <2> SUFFICES ASSUME NEW r \in Phrases(text)
               PROVE  /\ r = <<r[1], r[2]>> /\ r[1] \in 1 .. n /\ r[2] \in r[1] .. n
                      /\ text[r[1]][1] = "spoken" /\ \A i \in r[1] .. r[2] - 1 : Joined(text, i)
                      /\ ~ Joined(text, r[1] - 1) /\ ~ Joined(text, r[2])
    OBVIOUS
  <2>1. r = <<r[1], r[2]>> /\ r[1] \in 1 .. n /\ r[2] \in r[1] .. n
    BY DEF Phrases
  <2> QED BY <2>1, PhrasesAreBounded
<1>3. CASE text[p][1] # "spoken"
  <2>1. g = 0
    BY <1>3, GroupIsPhrase
  <2>2. Skipped(text, p) = 1 /\ Taken(text, p) = text[p]
    BY <2>1 DEF Skipped, Taken
  <2>3. ~ Joined(text, (p + 1) - 1)
    BY <1>3 DEF Joined
  <2>4. PhrasesFrom(text, p) = PhrasesFrom(text, p + 1)
    <3>1. \A r \in Phrases(text) : r[1] >= p <=> r[1] >= p + 1
      BY <1>2, <1>3
    <3> QED BY <3>1 DEF PhrasesFrom
  <2>5. OthersFrom(text, p) = {p} \cup OthersFrom(text, p + 1)
    BY <1>3 DEF OthersFrom
  <2>6. Heard(text, p) = {text[p]} \cup Heard(text, p + 1)
    BY <2>4, <2>5 DEF Heard
  <2> QED BY <2>2, <2>3, <2>6
<1>4. CASE text[p][1] = "spoken"
  <2>1. /\ g \in 1 .. 3 /\ p + g - 1 \in 1 .. n
        /\ \A i \in p .. p + g - 2 : Joined(text, i)
        /\ ~ Joined(text, p + g - 1)
    BY <1>4, GroupIsPhrase
  <2> DEFINE b == p + g - 1
  <2>2. Skipped(text, p) = g /\ Taken(text, p) = SpokenSum(text, <<p, b>>)
    BY <2>1 DEF Skipped, Taken, SpokenSum
  <2> HIDE DEF g
  <2>3. b \in p .. n /\ p + g = b + 1 /\ p + g - 2 = b - 1 /\ b + 1 \in p + 1 .. n + 1
    BY <2>1
  <2> HIDE DEF b
  <2>4. \A i \in p .. b - 1 : Joined(text, i)
    BY <2>1, <2>3
  <2>5. ~ Joined(text, b)
    BY <2>1, <2>3 DEF b
  <2>6. <<p, b>> \in Phrases(text)
    BY <1>4, <2>3, <2>4, <2>5, PhrasesAreBounded
  <2>7. ASSUME NEW r \in Phrases(text), r[1] >= p, ~ (r[1] >= b + 1)
        PROVE  r = <<p, b>>
    <3> DEFINE c == r[1]
               d == r[2]
    <3>1. /\ r = <<c, d>> /\ c \in 1 .. n /\ d \in c .. n
          /\ \A i \in c .. d - 1 : Joined(text, i)
          /\ ~ Joined(text, c - 1) /\ ~ Joined(text, d)
      BY <1>2
    <3>2. c >= p /\ c <= b
      BY <2>3, <2>7, <3>1
    <3> HIDE DEF c, d
    <3>3. c = p
      <4> SUFFICES ASSUME c # p PROVE FALSE
        OBVIOUS
      <4>1. c - 1 \in p .. b - 1
        BY <3>1, <3>2, <2>3
      <4> QED BY <4>1, <3>1, <2>4
    <3>4. ~ (d < b)
      <4> SUFFICES ASSUME d < b PROVE FALSE
        OBVIOUS
      <4>1. d \in p .. b - 1
        BY <3>1, <3>3, <2>3
      <4> QED BY <4>1, <3>1, <2>4
    <3>5. ~ (b < d)
      <4> SUFFICES ASSUME b < d PROVE FALSE
        OBVIOUS
      <4>1. b \in c .. d - 1
        BY <3>1, <3>3, <2>3
      <4> QED BY <4>1, <3>1, <2>5
    <3>6. b = d
      BY <3>1, <3>4, <3>5, <2>3
    <3> QED BY <3>1, <3>3, <3>6
  <2>8. PhrasesFrom(text, p) = {<<p, b>>} \cup PhrasesFrom(text, b + 1)
    <3>1. <<p, b>>[1] >= p /\ \A r \in Phrases(text) : r[1] >= b + 1 => r[1] >= p
      BY <1>2, <2>3
    <3> QED BY <2>6, <2>7, <3>1 DEF PhrasesFrom
  <2>9. OthersFrom(text, p) = OthersFrom(text, b + 1)
    <3>1. \A i \in p .. b : text[i][1] = "spoken"
      <4> SUFFICES ASSUME NEW i \in p .. b PROVE text[i][1] = "spoken"
        OBVIOUS
      <4>1. CASE i = p
        BY <4>1, <1>4
      <4>2. CASE i # p
        <5>1. i - 1 \in p .. b - 1 /\ (i - 1) + 1 = i
          BY <4>2, <2>3
        <5> QED BY <5>1, <2>4 DEF Joined
      <4> QED BY <4>1, <4>2
    <3>2. \A i \in p .. n : i \in p .. b \/ i \in b + 1 .. n
      BY <2>3
    <3>3. \A i \in b + 1 .. n : i \in p .. n
      BY <2>3
    <3> QED BY <3>1, <3>2, <3>3 DEF OthersFrom, n
  <2>10. Heard(text, p) = {SpokenSum(text, <<p, b>>)} \cup Heard(text, b + 1)
    BY <2>8, <2>9 DEF Heard
  <2>11. (b + 1) - 1 = b
    BY <2>3
  <2> QED BY <2>2, <2>3, <2>5, <2>10, <2>11
<1> QED BY <1>3, <1>4

-----------------------------------------------------------------------------
(* The scan                                                                 *)

(* from is what the recursion of SpokenToDigits describes, for the places   *)
(* behind the first low.                                                    *)
Following(from, text, p) ==
  IF p > Len(text) THEN <<>> ELSE <<Taken(text, p)>> \o from[p + Skipped(text, p)]

IsScanned(from, text, low) ==
  from = [p \in low + 1 .. Len(text) + 1 |-> Following(from, text, p)]

LEMMA ScanIsDefined ==
  ASSUME NEW text \in Seq(Token)
  PROVE  \E from : IsScanned(from, text, 0) /\ SpokenToDigits(text) = from[1]
<1> DEFINE n == Len(text)
           T == {low \in 0 .. n : \E s : IsScanned(s, text, low)}
<1>1. n \in Nat
  OBVIOUS
<1>2. n \in T
  <2> DEFINE s == [p \in n + 1 .. n + 1 |-> <<>>]
  <2>1. \A p \in n + 1 .. n + 1 : Following(s, text, p) = <<>>
    BY <1>1 DEF Following
  <2>2. s = [p \in n + 1 .. n + 1 |-> Following(s, text, p)]
    <3> HIDE DEF n
    <3> QED BY <2>1
  <2>3. IsScanned(s, text, n)
    BY <2>2 DEF IsScanned
  <2> QED BY <2>3, <1>1
<1>3. \A p \in 1 .. n : Skipped(text, p) \in 1 .. 3 /\ p + Skipped(text, p) \in p + 1 .. n + 1
  <2> SUFFICES ASSUME NEW p \in 1 .. n
               PROVE  Skipped(text, p) \in 1 .. 3 /\ p + Skipped(text, p) \in p + 1 .. n + 1
    OBVIOUS
  <2>1. \/ Group(text, p) = 0
        \/ Group(text, p) \in 1 .. 3 /\ p + Group(text, p) - 1 \in 1 .. n
    BY GroupIsPhrase
  <2> QED BY <2>1, <1>1 DEF Skipped
<1>4. ASSUME NEW k \in 1 .. n, k \in T
      PROVE  k - 1 \in T
  <2>1. PICK s : IsScanned(s, text, k)
    BY <1>4
  <2> DEFINE next == Following(s, text, k)
             r == [p \in k .. n + 1 |-> IF p > k THEN s[p] ELSE next]
  <2>2. \A p \in k + 1 .. n + 1 : s[p] = Following(s, text, p)
    BY <2>1 DEF IsScanned
  <2> HIDE DEF next
  <2>3. \A p \in k + 1 .. n + 1 : r[p] = s[p]
    BY <1>1
  <2>4. r[k] = next /\ r = [p \in k .. n + 1 |-> r[p]]
    BY <1>1
  <2> HIDE DEF r
  <2>5. \A p \in k .. n + 1 : Following(r, text, p) = Following(s, text, p)
    <3> SUFFICES ASSUME NEW p \in k .. n + 1
                 PROVE  Following(r, text, p) = Following(s, text, p)
      OBVIOUS
    <3>1. CASE p > n
      BY <3>1 DEF Following
    <3>2. CASE p <= n
      <4>1. p + Skipped(text, p) \in k + 1 .. n + 1
        BY <3>2, <1>1, <1>3
      <4>2. r[p + Skipped(text, p)] = s[p + Skipped(text, p)]
        BY <4>1, <2>3
      <4> QED BY <4>2 DEF Following
    <3> QED BY <3>1, <3>2, <1>1
  <2>6. \A p \in k .. n + 1 : r[p] = Following(r, text, p)
    <3> SUFFICES ASSUME NEW p \in k .. n + 1
                 PROVE  r[p] = Following(r, text, p)
      OBVIOUS
    <3>1. CASE p = k
      BY <3>1, <2>4, <2>5 DEF next
    <3>2. CASE p # k
      <4>1. p \in k + 1 .. n + 1
        BY <3>2, <1>1
      <4> QED BY <4>1, <2>2, <2>3, <2>5
    <3> QED BY <3>1, <3>2
  <2>7. (k - 1) + 1 = k /\ k - 1 \in 0 .. n
    BY <1>1
  <2>8. IsScanned(r, text, k - 1)
    <3>1. r = [p \in k .. n + 1 |-> Following(r, text, p)]
      <4> HIDE DEF n
      <4> QED BY <2>4, <2>6, Zenon
    <3> QED BY <3>1, <2>7 DEF IsScanned
  <2> QED BY <2>7, <2>8
<1>5. \E s : IsScanned(s, text, 0)
  <2>1. 0 .. n \subseteq T
    <3> HIDE DEF T
    <3> QED BY <1>1, <1>2, <1>4, InductionDownFrom
  <2> QED BY <2>1, <1>1, 0 \in 0 .. n
<1> DEFINE Body(s, p) ==
             IF p > Len(text) THEN <<>>
             ELSE IF Group(text, p) = 0 THEN <<text[p]>> \o s[p + 1]
             ELSE <<Digits("plain", SumOf(text, p, p + Group(text, p) - 1), 0)>>
                  \o s[p + Group(text, p)]
           from == CHOOSE s : s = [p \in 1 .. Len(text) + 1 |-> Body(s, p)]
<1>6. \A s, p : Body(s, p) = Following(s, text, p)
  BY Zenon DEF Following, Taken, Skipped
<1>7. SpokenToDigits(text) = from[1]
  BY Zenon DEF SpokenToDigits
<1>8. \A s : IsScanned(s, text, 0) <=> s = [p \in 1 .. Len(text) + 1 |-> Body(s, p)]
  <2> HIDE DEF Body
  <2> QED BY <1>6, 0 + 1 = 1 DEF IsScanned
<1>9. IsScanned(from, text, 0)
  <2> HIDE DEF Body
  <2> QED BY <1>5, <1>8, Zenon
<1> QED BY <1>7, <1>9

LEMMA PrependToSet ==
  ASSUME NEW S, NEW x \in S, NEW s \in Seq(S)
  PROVE  /\ <<x>> \o s \in Seq(S)
         /\ ToSet(<<x>> \o s) = {x} \cup ToSet(s)
<1> DEFINE t == <<x>> \o s
<1>1. <<x>> \in Seq(S) /\ Len(<<x>>) = 1 /\ <<x>>[1] = x
  OBVIOUS
<1>2. /\ t \in Seq(S) /\ Len(t) = 1 + Len(s)
      /\ \A i \in 1 .. 1 + Len(s) : t[i] = IF i <= 1 THEN <<x>>[i] ELSE s[i - 1]
  BY <1>1, ConcatProperties
<1> HIDE DEF t
<1>3. Len(s) \in Nat /\ DOMAIN s = 1 .. Len(s) /\ DOMAIN t = 1 .. 1 + Len(s)
  BY <1>2
<1>4. t[1] = x /\ \A i \in 1 .. Len(s) : t[i + 1] = s[i]
  BY <1>1, <1>2, <1>3
<1>5. ASSUME NEW i \in DOMAIN t
      PROVE  t[i] = x \/ \E j \in DOMAIN s : t[i] = s[j]
  <2>1. CASE i = 1
    BY <2>1, <1>4
  <2>2. CASE i # 1
    <3>1. i - 1 \in 1 .. Len(s) /\ (i - 1) + 1 = i
      BY <2>2, <1>3
    <3>2. t[i] = s[i - 1]
      BY <3>1, <1>4
    <3> QED BY <3>1, <3>2, <1>3
  <2> QED BY <2>1, <2>2
<1>6. 1 \in DOMAIN t /\ \A j \in DOMAIN s : j + 1 \in DOMAIN t
  BY <1>3
<1>7. ToSet(t) = {x} \cup ToSet(s)
  BY <1>3, <1>4, <1>5, <1>6 DEF ToSet
<1> QED BY <1>2, <1>7 DEF t

(* Replacing groups from left to right finds the numbers that are spoken,   *)
(* however they follow one another, and leaves the other tokens.            *)
LEMMA ScanHearsAll ==
  ASSUME NEW text \in Seq(Token)
  PROVE  ToSet(SpokenToDigits(text)) = Heard(text, 1)
<1> DEFINE n == Len(text)
           U == Heard(text, 1)
<1>1. n \in Nat
  OBVIOUS
<1>2. PICK from : IsScanned(from, text, 0) /\ SpokenToDigits(text) = from[1]
  BY ScanIsDefined
<1>3. \A p \in 1 .. n + 1 : from[p] = Following(from, text, p)
  BY <1>2 DEF IsScanned
<1>4. /\ from[n + 1] = <<>>
      /\ \A p \in 1 .. n : from[p] = <<Taken(text, p)>> \o from[p + Skipped(text, p)]
  <2>1. n + 1 \in 1 .. n + 1 /\ \A p \in 1 .. n : p \in 1 .. n + 1 /\ ~ (p > n)
    BY <1>1
  <2>2. from[n + 1] = <<>>
    BY <2>1, <1>3, n + 1 > n DEF Following
  <2>3. \A p \in 1 .. n : from[p] = <<Taken(text, p)>> \o from[p + Skipped(text, p)]
    BY <2>1, <1>3, Zenon DEF Following
  <2> QED BY <2>2, <2>3
<1>5. \A p \in 1 .. n + 1 : Heard(text, p) \subseteq U
  <2> SUFFICES ASSUME NEW p \in 1 .. n + 1
               PROVE  Heard(text, p) \subseteq Heard(text, 1)
    OBVIOUS
  <2>1. \A r \in Phrases(text) : r[1] \in Nat
    BY DEF Phrases
  <2>2. PhrasesFrom(text, p) \subseteq PhrasesFrom(text, 1)
    BY <2>1 DEF PhrasesFrom, Phrases
  <2>3. OthersFrom(text, p) \subseteq OthersFrom(text, 1)
    BY DEF OthersFrom
  <2> QED BY <2>2, <2>3 DEF Heard
<1> DEFINE IsHeard(p) ==
             ~ Joined(text, p - 1) => from[p] \in Seq(U) /\ ToSet(from[p]) = Heard(text, p)
           R == {low \in 0 .. n : \A p \in low + 1 .. n + 1 : IsHeard(p)}
<1> HIDE DEF U
<1>6. n \in R
  <2>1. Heard(text, n + 1) = {}
    <3>1. \A r \in Phrases(text) : ~ (r[1] >= n + 1)
      BY <1>1 DEF Phrases
    <3>2. n + 1 .. n = {}
      BY <1>1
    <3> QED BY <3>1, <3>2 DEF Heard, PhrasesFrom, OthersFrom
  <2>2. <<>> \in Seq(U) /\ ToSet(<<>>) = {}
    BY DEF ToSet
  <2>3. IsHeard(n + 1)
    BY <2>1, <2>2, <1>4
  <2> HIDE DEF IsHeard
  <2> QED BY <2>3, <1>1
<1>7. ASSUME NEW k \in 1 .. n, k \in R
      PROVE  k - 1 \in R
  <2>1. IsHeard(k)
    <3> SUFFICES ASSUME ~ Joined(text, k - 1)
                 PROVE  from[k] \in Seq(U) /\ ToSet(from[k]) = Heard(text, k)
      OBVIOUS
    <3> DEFINE q == k + Skipped(text, k)
    <3>1. /\ q \in k + 1 .. n + 1 /\ ~ Joined(text, q - 1)
          /\ Heard(text, k) = {Taken(text, k)} \cup Heard(text, q)
      BY ScanTakesPhrases
    <3>2. from[q] \in Seq(U) /\ ToSet(from[q]) = Heard(text, q)
      BY <3>1, <1>7
    <3>3. Taken(text, k) \in U
      BY <3>1, <1>1, <1>5, k \in 1 .. n + 1
    <3>4. from[k] = <<Taken(text, k)>> \o from[q]
      BY <1>4
    <3> HIDE DEF q
    <3> QED BY <3>1, <3>2, <3>3, <3>4, PrependToSet
  <2>2. k - 1 \in 0 .. n /\ \A p \in (k - 1) + 1 .. n + 1 : p = k \/ p \in k + 1 .. n + 1
    BY <1>1
  <2> HIDE DEF IsHeard
  <2> QED BY <2>1, <2>2, <1>7
<1>8. IsHeard(1)
  <2>1. 0 .. n \subseteq R
    <3> HIDE DEF R
    <3> QED BY <1>1, <1>6, <1>7, InductionDownFrom
  <2> HIDE DEF IsHeard
  <2>2. 0 \in R /\ 1 \in 0 + 1 .. n + 1
    BY <2>1, <1>1
  <2> QED BY <2>2
<1>9. ~ Joined(text, 1 - 1)
  BY DEF Joined
<1> QED BY <1>2, <1>8, <1>9

Spoke(v) == Digits("plain", v, 0)

(* So the digits of a text are the numbers spoken in it and its other       *)
(* tokens.                                                                  *)
LEMMA DigitsAreWhatIsSaid ==
  ASSUME NEW text \in Seq(Token)
  PROVE  ToSet(SpokenToDigits(text)) =
           {Spoke(v) : v \in NumbersSpoken(text)}
           \cup {token \in ToSet(text) : token[1] # "spoken"}
<1>1. {SpokenSum(text, r) : r \in PhrasesFrom(text, 1)} = {Spoke(v) : v \in NumbersSpoken(text)}
  <2>1. PhrasesFrom(text, 1) = Phrases(text)
    BY DEF PhrasesFrom, Phrases
  <2>2. \A r \in Phrases(text) : SpokenSum(text, r) = Spoke(SumOf(text, r[1], r[2]))
    BY DEF SpokenSum, Spoke
  <2> QED BY <2>1, <2>2 DEF NumbersSpoken
<1>2. {text[i] : i \in OthersFrom(text, 1)} = {token \in ToSet(text) : token[1] # "spoken"}
  <2>1. DOMAIN text = 1 .. Len(text)
    OBVIOUS
  <2> QED BY <2>1 DEF OthersFrom, ToSet
<1> QED BY <1>1, <1>2, ScanHearsAll DEF Heard

LEMMA TokensOfText ==
  ASSUME NEW S, NEW text \in Seq(S)
  PROVE  ToSet(text) \subseteq S
  BY DEF ToSet

-----------------------------------------------------------------------------
(* The number guard                                                         *)

(* Normalizing a comma leaves the whole number. *)
LEMMA Normalized ==
  ASSUME NEW token \in Token
  PROVE  LET core == NormalizeCommas(token)
         IN  /\ core[2] = token[2] /\ core[3] \in {token[3], 0}
             /\ token[1] \in WholeNotation => core[1] = "plain"
             /\ token[1] \notin WholeNotation => core = token
<1>1. token = <<token[1], token[2], token[3]>>
  BY TokensAreTyped
<1>2. CASE token[1] \in {"grouped", "comma"}
  BY <1>2 DEF NormalizeCommas, Digits, WholeNotation
<1>3. CASE token[1] \notin {"grouped", "comma"}
  BY <1>1, <1>3 DEF NormalizeCommas, WholeNotation
<1> QED BY <1>2, <1>3

(* A figure that was said, in words or in another notation, is not flagged, *)
(* and one that is not flagged was said, or looks like digits of a decimal  *)
(* or a time; in a language whose number words are not known nothing is.    *)
(* That holds of the guard for texts of any length.                         *)
THEOREM GuardFlagsTheUnsaid ==
  ASSUME NEW transcript \in Seq(Token), NEW number \in Token, number[1] \in Notation,
         NEW figure, figure.number = number, NEW language
  PROVE  LET guard == RunInlineGuards({figure}, transcript, language)
             flagged == figure \in guard.flags
         IN  /\ IsSaid(number, transcript) => ~ flagged
             /\ Salient(figure) /\ language = "ru" =>
                  flagged \/ IsSaid(number, transcript) \/ IsPartOfSaid(number, transcript)
             /\ language = "none" => ~ flagged /\ ~ guard.checked
<1> DEFINE heard == ToSet(SpokenToDigits(transcript))
           core == NormalizeCommas(number)
           grounded == \E u \in heard : IsGrounded(core, NormalizeCommas(u))
           guard == RunInlineGuards({figure}, transcript, language)
           flagged == figure \in guard.flags
<1>1. CheckNumbers({figure}, transcript) =
        {f \in {figure} : Salient(f) /\ ~ \E u \in heard :
                            IsGrounded(NormalizeCommas(f.number), NormalizeCommas(u))}
  BY DEF CheckNumbers, DigitCore
<1>2. figure \in CheckNumbers({figure}, transcript) <=> Salient(figure) /\ ~ grounded
  BY <1>1
<1>3. \A u : u \in heard <=>
        \/ \E v \in NumbersSpoken(transcript) : u = Spoke(v)
        \/ u \in ToSet(transcript) /\ u[1] # "spoken"
  BY DigitsAreWhatIsSaid
<1>4. \A u \in ToSet(transcript) : u \in Token
  BY TokensOfText
<1>5. /\ core[2] = number[2]
      /\ number[1] \in WholeNotation => core[1] = "plain"
      /\ number[1] \notin WholeNotation => core = number
  BY Normalized
<1>6. \A v : /\ NormalizeCommas(Spoke(v)) = Spoke(v)
             /\ Spoke(v)[1] = "plain" /\ Spoke(v)[2] = v
  BY DEF Spoke, NormalizeCommas, Digits
<1>7. ASSUME IsSaid(number, transcript)
      PROVE  grounded
  <2>1. CASE number[1] \in WholeNotation /\ number[2] \in NumbersSpoken(transcript)
    <3> DEFINE u == Spoke(number[2])
    <3>1. u \in heard
      BY <1>3, <2>1
    <3>2. IsGrounded(core, NormalizeCommas(u))
      BY <1>5, <1>6, <2>1 DEF IsGrounded, Notation
    <3> QED BY <3>1, <3>2
  <2>2. CASE /\ number[1] \in WholeNotation
             /\ \E u \in ToSet(transcript) : u[1] \in WholeNotation /\ u[2] = number[2]
    <3>1. PICK u \in ToSet(transcript) : u[1] \in WholeNotation /\ u[2] = number[2]
      BY <2>2
    <3>2. u \in heard
      BY <3>1, <1>3 DEF WholeNotation
    <3>3. NormalizeCommas(u)[1] = "plain" /\ NormalizeCommas(u)[2] = number[2]
      BY <3>1, <1>4, Normalized
    <3>4. IsGrounded(core, NormalizeCommas(u))
      BY <3>3, <1>5, <2>2 DEF IsGrounded, Notation
    <3> QED BY <3>2, <3>4
  <2>3. CASE number[1] \notin WholeNotation /\ number \in ToSet(transcript)
    <3>1. number \in heard
      BY <2>3, <1>3 DEF Notation
    <3>2. IsGrounded(core, NormalizeCommas(number))
      BY DEF IsGrounded
    <3> QED BY <3>1, <3>2
  <2> QED BY <1>7, <2>1, <2>2, <2>3 DEF IsSaid
<1>8. ASSUME grounded
      PROVE  IsSaid(number, transcript) \/ IsPartOfSaid(number, transcript)
  <2>1. PICK u \in heard : IsGrounded(core, NormalizeCommas(u))
    BY <1>8
  <2> DEFINE token == NormalizeCommas(u)
  <2>2. CASE \E v \in NumbersSpoken(transcript) : u = Spoke(v)
    <3>1. PICK v \in NumbersSpoken(transcript) : u = Spoke(v)
      BY <2>2
    <3>2. token[1] = "plain" /\ token[2] = v
      BY <3>1, <1>6
    <3>3. core[1] = "plain" /\ core[2] = v
      BY <2>1, <3>2 DEF IsGrounded
    <3>4. number[1] \in WholeNotation
      BY <3>3, <1>5 DEF WholeNotation
    <3> QED BY <3>3, <3>4, <1>5 DEF IsSaid
  <2>3. CASE u \in ToSet(transcript) /\ u[1] # "spoken"
    <3>1. /\ u \in Token /\ token[2] = u[2] /\ token[3] \in {u[3], 0}
          /\ u[1] \in WholeNotation => token[1] = "plain"
          /\ u[1] \notin WholeNotation => token = u
      BY <2>3, <1>4, Normalized
    <3>2. CASE number[1] \notin WholeNotation
      <4>1. core = number /\ core[1] # "plain"
        BY <3>2, <1>5 DEF WholeNotation
      <4>2. token = number
        BY <4>1, <2>1 DEF IsGrounded
      <4>3. u = number
        BY <4>1, <4>2, <3>1
      <4> QED BY <4>3, <2>3, <3>2 DEF IsSaid
    <3>3. CASE number[1] \in WholeNotation
      <4>1. core[1] = "plain" /\ core[2] = number[2]
        BY <3>3, <1>5
      <4>2. CASE u[1] \in WholeNotation
        <5>1. token[1] = "plain" /\ token[2] = u[2]
          BY <3>1, <4>2
        <5>2. u[2] = number[2]
          BY <5>1, <4>1, <2>1 DEF IsGrounded
        <5> QED BY <5>2, <4>2, <3>3, <2>3 DEF IsSaid
      <4>3. CASE u[1] \notin WholeNotation
        <5>1. token = u
          BY <3>1, <4>3
        <5>2. /\ u[1] \in {"point", "time"} /\ number[2] \in {u[2], u[3]}
          <6>1. u[1] # "plain" /\ \A k \in Notation : k \in WholeNotation \/ k \in {"point", "time"}
            BY <4>3 DEF WholeNotation, Notation
          <6> QED BY <6>1, <5>1, <4>1, <4>3, <2>1 DEF IsGrounded
        <5> QED BY <5>2, <3>3, <2>3 DEF IsPartOfSaid
      <4> QED BY <4>2, <4>3
    <3> QED BY <3>2, <3>3
  <2> QED BY <2>2, <2>3, <1>3
<1> HIDE DEF grounded
<1>9. CASE language \in {"en", "ru"}
  <2>1. guard.flags = CheckNumbers({figure}, transcript)
    BY <1>9 DEF RunInlineGuards
  <2>2. flagged <=> Salient(figure) /\ ~ grounded
    BY <2>1, <1>2
  <2> QED BY <2>2, <1>7, <1>8, <1>9
<1>10. CASE language \notin {"en", "ru"}
  <2>1. guard.flags = {} /\ guard.checked = FALSE
    BY <1>10 DEF RunInlineGuards
  <2> QED BY <2>1, <1>10
<1> QED BY <1>9, <1>10

-----------------------------------------------------------------------------
(* The comparison of answers                                                *)

(* The words, whole figures and decimals of an answer, normalized. *)
Said(answer) ==
  {Word(w) : w \in Words(answer)} \cup {Spoke(v) : v \in Figures(answer)}
  \cup {DropComma(token) : token \in Decimals(answer)}

LEMMA NormIsSaid ==
  ASSUME NEW answer \in Seq(Token)
  PROVE  Norm(answer) = Said(answer)
<1> DEFINE heard == ToSet(SpokenToDigits(answer))
<1>1. \A u : u \in heard <=>
        \/ \E v \in NumbersSpoken(answer) : u = Spoke(v)
        \/ u \in ToSet(answer) /\ u[1] # "spoken"
  BY DigitsAreWhatIsSaid
<1>2. \A v : DropComma(Spoke(v)) = Spoke(v)
  BY DEF DropComma, Spoke, Digits
<1>3. ASSUME NEW u \in ToSet(answer)
      PROVE  /\ u[1] = "word" => DropComma(u) = Word(u[2])
             /\ u[1] \in {"plain", "grouped"} => DropComma(u) = Spoke(u[2])
             /\ u[1] \in {"spoken", "word", "plain", "grouped", "comma", "point", "time"}
  <2>1. u \in Token
    BY TokensOfText
  <2>2. /\ u = <<u[1], u[2], u[3]>>
        /\ u[1] \in {"word", "plain", "grouped"} => u[3] = 0
        /\ u[1] \in {"spoken", "word", "plain", "grouped", "comma", "point", "time"}
    BY <2>1, TokensAreTyped DEF Notation
  <2> QED BY <2>2 DEF DropComma, Word, Spoke, Digits
<1>4. Norm(answer) = {DropComma(u) : u \in heard}
  BY DEF Norm
<1> HIDE DEF heard
<1>5. ASSUME NEW u \in heard
      PROVE  DropComma(u) \in Said(answer)
  <2>1. CASE \E v \in NumbersSpoken(answer) : u = Spoke(v)
    BY <2>1, <1>2 DEF Said, Figures
  <2>2. CASE u \in ToSet(answer) /\ u[1] = "word"
    <3>1. DropComma(u) = Word(u[2]) /\ u[2] \in Words(answer)
      BY <2>2, <1>3 DEF Words, OfKinds
    <3> QED BY <3>1 DEF Said
  <2>3. CASE u \in ToSet(answer) /\ u[1] \in {"plain", "grouped"}
    <3>1. DropComma(u) = Spoke(u[2]) /\ u[2] \in Figures(answer)
      BY <2>3, <1>3 DEF Figures, OfKinds
    <3> QED BY <3>1 DEF Said
  <2>4. CASE u \in ToSet(answer) /\ u[1] \in {"comma", "point", "time"}
    BY <2>4 DEF Said, Decimals, OfKinds
  <2> QED BY <1>1, <1>3, <2>1, <2>2, <2>3, <2>4
<1>6. ASSUME NEW v \in Figures(answer)
      PROVE  \E u \in heard : DropComma(u) = Spoke(v)
  <2>1. CASE v \in NumbersSpoken(answer)
    BY <2>1, <1>1, <1>2
  <2>2. CASE \E u \in ToSet(answer) : u[1] \in {"plain", "grouped"} /\ v = u[2]
    <3>1. PICK u \in ToSet(answer) : u[1] \in {"plain", "grouped"} /\ v = u[2]
      BY <2>2
    <3>2. u \in heard
      BY <3>1, <1>1
    <3> QED BY <3>1, <3>2, <1>3
  <2> QED BY <2>1, <2>2 DEF Figures, OfKinds
<1>7. ASSUME NEW w \in Words(answer)
      PROVE  \E u \in heard : DropComma(u) = Word(w)
  <2>1. PICK u \in ToSet(answer) : u[1] = "word" /\ w = u[2]
    BY DEF Words, OfKinds
  <2>2. u \in heard
    BY <2>1, <1>1
  <2> QED BY <2>1, <2>2, <1>3
<1>8. Decimals(answer) \subseteq heard
  BY <1>1 DEF Decimals, OfKinds
<1> QED BY <1>4, <1>5, <1>6, <1>7, <1>8 DEF Said

(* The numbers that are compared: whole figures, what passes for one, and   *)
(* decimals in a form of their own.                                         *)
Compared(answer) ==
  {Spoke(v) : v \in Figures(answer) \cup Blurred(answer)}
  \cup {DropComma(token) : token \in Exact(answer)}

LEMMA DecimalsAreRead ==
  ASSUME NEW answer \in Seq(Token), NEW u \in Decimals(answer)
  PROVE  /\ u = <<u[1], u[2], u[3]>> /\ u[2] \in Nat /\ u[3] \in Nat
         /\ u[1] \in {"comma", "point", "time"}
         /\ u[1] = "point" => DropComma(u) = u
         /\ u[1] = "time" => DropComma(u) = u /\ Sides(u) = {Spoke(u[2]), Spoke(u[3])}
         /\ u[1] = "comma" /\ u[2] # 0 => DropComma(u) = Spoke(WithoutComma(u))
         /\ u[1] = "comma" /\ u[2] = 0 => DropComma(u) = Digits("plain", u[3], 1)
<1>1. u \in Token /\ u[1] \in {"comma", "point", "time"}
  BY TokensOfText DEF Decimals, OfKinds
<1>2. u = <<u[1], u[2], u[3]>> /\ u[2] \in Nat /\ u[3] \in Nat
  BY <1>1, TokensAreTyped
<1>3. u[2] = 0 => WithoutComma(u) = u[3]
  BY <1>2 DEF WithoutComma
<1> QED BY <1>1, <1>2, <1>3 DEF DropComma, Sides, Spoke, Digits

LEMMA NumbersAreCompared ==
  ASSUME NEW answer \in Seq(Token)
  PROVE  NumbersIn(Norm(answer)) = Compared(answer)
<1> DEFINE Read(x) == IF x[1] = "time" THEN Sides(x) ELSE {x}
<1>1. \A n : n \in NumbersIn(Norm(answer)) <=> \E x \in Said(answer) : x[1] # "word" /\ n \in Read(x)
  <2>1. NumbersIn(Norm(answer)) = UNION {Read(x) : x \in {y \in Said(answer) : y[1] # "word"}}
    BY NormIsSaid DEF NumbersIn
  <2> QED BY <2>1
<1>2. \A v : Spoke(v)[1] = "plain" /\ Read(Spoke(v)) = {Spoke(v)}
  BY DEF Spoke, Digits
<1>3. \A w : Word(w)[1] = "word"
  BY DEF Word
<1>4. ASSUME NEW u \in Decimals(answer)
      PROVE  /\ DropComma(u)[1] \in {"plain", "point", "time"}
             /\ u[1] = "time" => Read(DropComma(u)) = {Spoke(u[2]), Spoke(u[3])}
             /\ u[1] # "time" => Read(DropComma(u)) = {DropComma(u)}
  BY DecimalsAreRead DEF Spoke, Digits
<1>5. \A u : u \in Decimals(answer) <=> u \in ToSet(answer) /\ u[1] \in {"comma", "point", "time"}
  BY DEF Decimals, OfKinds
<1>6. /\ \A u \in Decimals(answer) : u[1] = "time" => {u[2], u[3]} \subseteq Blurred(answer)
      /\ \A u \in Decimals(answer) :
           u[1] = "comma" /\ u[2] # 0 => WithoutComma(u) \in Blurred(answer)
      /\ \A u \in Decimals(answer) :
           u[1] = "point" \/ (u[1] = "comma" /\ u[2] = 0) => u \in Exact(answer)
      /\ \A v \in Blurred(answer) : \E u \in Decimals(answer) :
           \/ u[1] = "time" /\ v \in {u[2], u[3]}
           \/ u[1] = "comma" /\ u[2] # 0 /\ v = WithoutComma(u)
      /\ \A u \in Exact(answer) : u \in Decimals(answer) /\ u[1] # "time"
  BY <1>5 DEF Blurred, Exact, OfKinds
<1> HIDE DEF Read
<1>7. ASSUME NEW x \in Said(answer), x[1] # "word", NEW n \in Read(x)
      PROVE  n \in Compared(answer)
  <2>1. CASE \E v \in Figures(answer) : x = Spoke(v)
    BY <1>2, <1>7, <2>1 DEF Compared
  <2>2. ASSUME NEW u \in Decimals(answer), x = DropComma(u)
        PROVE  n \in Compared(answer)
    <3>1. CASE u[1] = "time"
      <4>1. n = Spoke(u[2]) \/ n = Spoke(u[3])
        BY <1>4, <1>7, <2>2, <3>1
      <4> QED BY <1>6, <3>1, <4>1 DEF Compared
    <3>2. CASE u[1] # "time"
      <4>1. n = DropComma(u)
        BY <1>4, <1>7, <2>2, <3>2
      <4>2. CASE u \in Exact(answer)
        BY <4>1, <4>2 DEF Compared
      <4>3. CASE u \notin Exact(answer)
        <5>1. u[1] = "comma" /\ u[2] # 0
          BY <1>5, <1>6, <3>2, <4>3
        <5>2. WithoutComma(u) \in Blurred(answer)
          BY <1>6, <5>1
        <5>3. n = Spoke(WithoutComma(u))
          BY <4>1, <5>1, DecimalsAreRead
        <5> QED BY <5>2, <5>3 DEF Compared
      <4> QED BY <4>2, <4>3
    <3> QED BY <3>1, <3>2
  <2> QED BY <1>3, <1>7, <2>1, <2>2 DEF Said
<1>8. ASSUME NEW n \in Compared(answer)
      PROVE  \E x \in Said(answer) : x[1] # "word" /\ n \in Read(x)
  <2>1. CASE \E v \in Figures(answer) : n = Spoke(v)
    <3>1. PICK v \in Figures(answer) : n = Spoke(v)
      BY <2>1
    <3>2. Spoke(v) \in Said(answer) /\ Spoke(v)[1] # "word" /\ n \in Read(Spoke(v))
      BY <1>2, <3>1 DEF Said
    <3> QED BY <3>2
  <2>2. CASE \E u \in Decimals(answer) : n \in Read(DropComma(u))
    <3>1. PICK u \in Decimals(answer) : n \in Read(DropComma(u))
      BY <2>2
    <3>2. DropComma(u) \in Said(answer) /\ DropComma(u)[1] # "word"
      BY <1>4 DEF Said
    <3> QED BY <3>1, <3>2
  <2>3. CASE \E v \in Blurred(answer) : n = Spoke(v)
    <3>1. PICK v \in Blurred(answer) : n = Spoke(v)
      BY <2>3
    <3>2. PICK u \in Decimals(answer) : \/ u[1] = "time" /\ v \in {u[2], u[3]}
                                        \/ u[1] = "comma" /\ u[2] # 0 /\ v = WithoutComma(u)
      BY <1>6
    <3>3. n \in Read(DropComma(u))
      BY <1>4, <3>1, <3>2, DecimalsAreRead
    <3> QED BY <2>2, <3>3
  <2>4. CASE \E u \in Exact(answer) : n = DropComma(u)
    BY <1>4, <1>6, <2>2, <2>4
  <2> QED BY <2>1, <2>3, <2>4 DEF Compared
<1>9. \A n : n \in NumbersIn(Norm(answer)) <=> n \in Compared(answer)
  BY <1>1, <1>7, <1>8
<1> QED BY <1>9

(* In what is compared, decimals in a form of their own are told apart from *)
(* whole figures and from one another.                                      *)
LEMMA ComparedIsExact ==
  ASSUME NEW s \in Seq(Token), NEW t \in Seq(Token), Compared(s) \subseteq Compared(t)
  PROVE  /\ Figures(s) \cup Blurred(s) \subseteq Figures(t) \cup Blurred(t)
         /\ Exact(s) \subseteq Exact(t)
<1>1. \A v : Spoke(v)[1] = "plain" /\ Spoke(v)[2] = v /\ Spoke(v)[3] = 0
  BY DEF Spoke, Digits
<1>2. ASSUME NEW answer \in {s, t}, NEW u \in Exact(answer)
      PROVE  /\ u = <<u[1], u[2], u[3]>>
             /\ \/ u[1] = "point" /\ DropComma(u) = u
                \/ u[1] = "comma" /\ u[2] = 0 /\ DropComma(u) = <<"plain", u[3], 1>>
  <2>1. answer \in Seq(Token) /\ u \in Decimals(answer)
    BY DEF Exact, Decimals, OfKinds
  <2>2. u[1] = "point" \/ (u[1] = "comma" /\ u[2] = 0)
    BY DEF Exact, OfKinds
  <2> QED BY <2>1, <2>2, DecimalsAreRead DEF Digits
<1>3. ASSUME NEW v \in Figures(s) \cup Blurred(s)
      PROVE  v \in Figures(t) \cup Blurred(t)
  <2>1. Spoke(v) \in Compared(t)
    BY DEF Compared
  <2>2. ASSUME NEW u \in Exact(t) PROVE Spoke(v) # DropComma(u)
    BY <1>1, <1>2
  <2>3. PICK w \in Figures(t) \cup Blurred(t) : Spoke(v) = Spoke(w)
    BY <2>1, <2>2 DEF Compared
  <2>4. v = w
    BY <1>1, <2>3
  <2> QED BY <2>4
<1>4. ASSUME NEW u \in Exact(s)
      PROVE  u \in Exact(t)
  <2>1. DropComma(u) \in Compared(t)
    BY DEF Compared
  <2>2. ASSUME NEW v PROVE DropComma(u) # Spoke(v)
    BY <1>1, <1>2
  <2>3. PICK x \in Exact(t) : DropComma(u) = DropComma(x)
    BY <2>1, <2>2 DEF Compared
  <2>4. u = x
    BY <1>2, <2>3
  <2> QED BY <2>4
<1> QED BY <1>3, <1>4

(* A match has no fabricated figure, but for decimal commas and times that  *)
(* pass for whole figures, and an extract of the transcript's answer is a   *)
(* match in whatever notation: for answers of any length and any tokens.    *)
THEOREM VerdictIsOfMeaning ==
  ASSUME NEW s \in Seq(Token), NEW t \in Seq(Token)
  PROVE  /\ AnswersMatch(s, t) =>
              /\ Figures(s) \cup Blurred(s) \subseteq Figures(t) \cup Blurred(t)
              /\ Exact(s) \subseteq Exact(t)
         /\ /\ Figures(s) \subseteq Figures(t)
            /\ Words(s) \subseteq Words(t)
            /\ Decimals(s) \subseteq Decimals(t)
            /\ Figures(s) # {} \/ Words(s) # {} \/ Decimals(s) # {}
            => AnswersMatch(s, t)
<1>1. AnswersMatch(s, t) <=>
        /\ t # <<>>
        /\ NumbersIn(Norm(s)) \subseteq NumbersIn(Norm(t))
        /\ Overlap(TokensIn(Norm(s)), TokensIn(Norm(t)))
  BY DEF AnswersMatch, NotStated
<1>2. ASSUME AnswersMatch(s, t)
      PROVE  /\ Figures(s) \cup Blurred(s) \subseteq Figures(t) \cup Blurred(t)
             /\ Exact(s) \subseteq Exact(t)
  <2>1. Compared(s) \subseteq Compared(t)
    BY <1>1, <1>2, NumbersAreCompared
  <2> QED BY <2>1, ComparedIsExact
<1>3. ASSUME Figures(s) \subseteq Figures(t), Words(s) \subseteq Words(t),
             Decimals(s) \subseteq Decimals(t),
             Figures(s) # {} \/ Words(s) # {} \/ Decimals(s) # {}
      PROVE  AnswersMatch(s, t)
  <2>1. Norm(s) \subseteq Norm(t) /\ Norm(s) # {}
    <3>1. Said(s) \subseteq Said(t) /\ Said(s) # {}
      BY <1>3 DEF Said
    <3> QED BY <3>1, NormIsSaid
  <2>2. t # <<>>
    <3>1. Figures(t) # {} \/ Words(t) # {} \/ Decimals(t) # {}
      BY <1>3
    <3> QED BY <3>1 DEF Figures, Words, Decimals, OfKinds, NumbersSpoken, Phrases, ToSet
  <2>3. NumbersIn(Norm(s)) \subseteq NumbersIn(Norm(t))
    BY <2>1 DEF NumbersIn
  <2>4. TokensIn(Norm(s)) \subseteq TokensIn(Norm(t))
    BY <2>1 DEF TokensIn
  <2>5. TokensIn(Norm(s)) # {}
    <3>1. PICK u \in Norm(s) : TRUE
      BY <2>1
    <3>2. CASE u[1] \in {"point", "time"}
      <4>1. Digits("plain", u[2], 0) \in Sides(u)
        BY DEF Sides
      <4>2. Sides(u) \subseteq TokensIn(Norm(s))
        BY <3>1, <3>2 DEF TokensIn
      <4> QED BY <4>1, <4>2
    <3>3. CASE u[1] \notin {"point", "time"}
      <4>1. u \in TokensIn(Norm(s))
        BY <3>1, <3>3 DEF TokensIn
      <4> QED BY <4>1
    <3> QED BY <3>2, <3>3
  <2> QED BY <1>1, <2>2, <2>3, <2>4, <2>5 DEF Overlap
<1> QED BY <1>2, <1>3

-----------------------------------------------------------------------------
(* The properties of the specification                                      *)

FitCall == call.function = "fit_calibration" /\ call.labels \in Labels(Nat)
GuardCall ==
  /\ call.function = "run_inline_guards"
  /\ call.figure.number \in Token /\ call.figure.number[1] \in Notation
  /\ call.transcript \in Seq(Token)
AnswerCall ==
  /\ call.function = "_answer_match"
  /\ call.summary \in Seq(Token) /\ call.transcript \in Seq(Token)

(* A result is that of the function that was called. *)
ResultIsOfCall ==
  \/ FitCall /\ (result # Pending => result = FitCalibration(call.labels))
  \/ GuardCall /\ (result # Pending =>
                     result = RunInlineGuards({call.figure}, call.transcript, call.language))
  \/ AnswerCall /\ (result # Pending => result = AnswersMatch(call.summary, call.transcript))

LEMMA BoundedSequences ==
  ASSUME NEW S, NEW T, S \subseteq T, NEW n \in Nat
  PROVE  BoundedSeq(S, n) \subseteq Seq(T)
<1>1. ASSUME NEW s \in BoundedSeq(S, n)
      PROVE  s \in Seq(T)
  <2>1. PICK m \in 0 .. n : s \in [1 .. m -> S]
    BY DEF BoundedSeq, SeqOf
  <2>2. s \in [1 .. m -> T] /\ m \in Nat
    BY <2>1
  <2> QED BY <2>2
<1> QED BY <1>1

LEMMA FewerLabels ==
  ASSUME NEW counts, counts \subseteq Nat
  PROVE  Labels(counts) \subseteq Labels(Nat)
<1>1. ASSUME NEW labels \in Labels(counts)
      PROVE  labels \in Labels(Nat)
  <2>1. PICK scores \in Scores :
          /\ labels \in [score : {scores}, edited : [1 .. Len(scores) -> counts],
                         untouched : [1 .. Len(scores) -> counts]]
          /\ \A k \in DOMAIN labels.score : labels.edited[k] + labels.untouched[k] > 0
    BY DEF Labels
  <2>2. labels \in [score : {scores}, edited : [1 .. Len(scores) -> Nat],
                    untouched : [1 .. Len(scores) -> Nat]]
    BY <2>1
  <2> QED BY <2>1, <2>2 DEF Labels
<1> QED BY <1>1

LEMMA CallsAreTyped ==
  ASSUME call \in Calls
  PROVE  FitCall \/ GuardCall \/ AnswerCall
<1>1. CASE call \in [function : {"fit_calibration"}, labels : Labels(LabelCounts)]
  <2>1. call.function = "fit_calibration" /\ call.labels \in Labels(LabelCounts)
    BY <1>1
  <2> QED BY <2>1, FewerLabels, QualityAssumption DEF FitCall
<1>2. CASE call \in [function : {"run_inline_guards"},
                     figure : [number : FigureNumbers, unit : BOOLEAN],
                     transcript : BoundedSeq(SaidTokens, TranscriptWords),
                     language : {"ru", "none"}]
  <2>1. /\ call.function = "run_inline_guards"
        /\ call.figure \in [number : FigureNumbers, unit : BOOLEAN]
        /\ call.transcript \in BoundedSeq(SaidTokens, TranscriptWords)
    BY <1>2
  <2>2. call.figure.number \in FigureNumbers
    BY <2>1
  <2>3. call.figure.number \in Token /\ call.figure.number[1] \in Notation
    BY <2>2, QualityAssumption
  <2>4. call.transcript \in Seq(Token)
    BY <2>1, BoundedSequences, QualityAssumption
  <2> QED BY <2>1, <2>3, <2>4 DEF GuardCall
<1>3. CASE call \in [function : {"_answer_match"},
                     summary : BoundedSeq(AnswerTokens, AnswerWords),
                     transcript : BoundedSeq(AnswerTokens, AnswerWords)]
  <2>1. /\ call.function = "_answer_match"
        /\ call.summary \in BoundedSeq(AnswerTokens, AnswerWords)
        /\ call.transcript \in BoundedSeq(AnswerTokens, AnswerWords)
    BY <1>3
  <2>2. call.summary \in Seq(Token) /\ call.transcript \in Seq(Token)
    BY <2>1, BoundedSequences, QualityAssumption
  <2> QED BY <2>1, <2>2 DEF AnswerCall
<1> QED BY <1>1, <1>2, <1>3 DEF Calls

(* A call is answered by the result of its function, and not answered twice. *)
LEMMA ResultsAreOfCalls == Spec => []ResultIsOfCall
<1>1. Init => ResultIsOfCall
  <2> SUFFICES ASSUME Init PROVE ResultIsOfCall
    OBVIOUS
  <2>1. call \in Calls /\ ~ (result # Pending)
    BY DEF Init
  <2> QED BY <2>1, CallsAreTyped DEF ResultIsOfCall
<1>2. ResultIsOfCall /\ [Next]_<<call, result>> => ResultIsOfCall'
  <2> SUFFICES ASSUME ResultIsOfCall, [Next]_<<call, result>>
               PROVE  ResultIsOfCall'
    OBVIOUS
  <2>1. CASE UNCHANGED <<call, result>>
    BY <2>1 DEF ResultIsOfCall, FitCall, GuardCall, AnswerCall
  <2>2. CASE Next
    <3>1. call' = call
      BY <2>2 DEF Next, Compute
    <3>2. FitCall' = FitCall /\ GuardCall' = GuardCall /\ AnswerCall' = AnswerCall
      BY <3>1 DEF FitCall, GuardCall, AnswerCall
    <3>3. CASE FitCall
      <4>1. result' = FitCalibration(call.labels)
        BY <2>2, <3>3 DEF Next, Compute, FitCall
      <4> QED BY <4>1, <3>1, <3>2, <3>3 DEF ResultIsOfCall
    <3>4. CASE GuardCall
      <4>1. result' = RunInlineGuards({call.figure}, call.transcript, call.language)
        BY <2>2, <3>4 DEF Next, Compute, GuardCall
      <4> QED BY <4>1, <3>1, <3>2, <3>4 DEF ResultIsOfCall
    <3>5. CASE AnswerCall
      <4>1. result' = AnswersMatch(call.summary, call.transcript)
        BY <2>2, <3>5 DEF Next, Compute, AnswerCall
      <4> QED BY <4>1, <3>1, <3>2, <3>5 DEF ResultIsOfCall
    <3> QED BY <3>3, <3>4, <3>5 DEF ResultIsOfCall
  <2> QED BY <2>1, <2>2
<1> QED BY <1>1, <1>2, PTL DEF Spec

(* "Pool-Adjacent-Violators isotonic regression" (_isotonic): the fit is    *)
(* the isotonic one, for any grid of scores and any number of labels.       *)
THEOREM FitIsIsotonic == Spec => []FitIsBest
<1>1. ResultIsOfCall => FitIsBest
  <2> SUFFICES ASSUME ResultIsOfCall, Computed("fit_calibration"), result.method = "isotonic"
               PROVE  IsIsotonicFit(call.labels, result.fitted)
    BY DEF FitIsBest
  <2>1. call.labels \in Labels(Nat) /\ result = FitCalibration(call.labels)
    BY DEF ResultIsOfCall, Computed, FitCall, GuardCall, AnswerCall
  <2>2. result.fitted = Fitted(call.labels)
    BY <2>1 DEF FitCalibration, BaseRate
  <2> QED BY <2>1, <2>2, PoolingIsIsotonic
<1> QED BY <1>1, ResultsAreOfCalls, PTL

(* "Non-increasing in score" (predict), but for the logistic fits that      *)
(* really rise.                                                             *)
THEOREM PredictionsFallWithScore == Spec => []PredictNonIncreasing
<1>1. ResultIsOfCall => PredictNonIncreasing
  <2> SUFFICES ASSUME ResultIsOfCall, Computed("fit_calibration")
               PROVE  PredictNonIncreasing
    BY DEF PredictNonIncreasing
  <2>1. call.labels \in Labels(Nat) /\ result = FitCalibration(call.labels)
    BY DEF ResultIsOfCall, Computed, FitCall, GuardCall, AnswerCall
  <2> QED BY <2>1, PredictionsDoNotRise DEF PredictNonIncreasing
<1> QED BY <1>1, ResultsAreOfCalls, PTL

(* The guard flags a figure when it was not said, with the two silences     *)
(* that GuardFlagsTheUnsaid names: for transcripts of any length.           *)
THEOREM FlaggedFiguresAreUnsaid == Spec => []FlagsAreOfTheUnsaid
<1>1. ResultIsOfCall => FlagsAreOfTheUnsaid
  <2> SUFFICES ASSUME ResultIsOfCall, Computed("run_inline_guards")
               PROVE  FlagsAreOfTheUnsaid
    BY DEF FlagsAreOfTheUnsaid
  <2>1. GuardCall /\ result = RunInlineGuards({call.figure}, call.transcript, call.language)
    BY DEF ResultIsOfCall, Computed, FitCall, GuardCall, AnswerCall
  <2> QED BY <2>1, GuardFlagsTheUnsaid DEF FlagsAreOfTheUnsaid, GuardCall
<1> QED BY <1>1, ResultsAreOfCalls, PTL

(* A verdict fails what is fabricated and accepts an extract, whatever the  *)
(* notations of the answers, the ones with separators included.             *)
THEOREM VerdictsFollowMeaning == Spec => []VerdictFollowsMeaning
<1>1. ResultIsOfCall => VerdictFollowsMeaning
  <2> SUFFICES ASSUME ResultIsOfCall, Computed("_answer_match")
               PROVE  VerdictFollowsMeaning
    BY DEF VerdictFollowsMeaning
  <2>1. AnswerCall /\ result = AnswersMatch(call.summary, call.transcript)
    BY DEF ResultIsOfCall, Computed, FitCall, GuardCall, AnswerCall
  <2> QED BY <2>1, VerdictIsOfMeaning DEF VerdictFollowsMeaning, AnswerCall
<1> QED BY <1>1, ResultsAreOfCalls, PTL
=============================================================================

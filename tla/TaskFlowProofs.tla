---------------------------- MODULE TaskFlowProofs ----------------------------
(***************************************************************************)
(* What the AP takes for received, completed and in order was so, for any  *)
(* number of requests, restarts and packets under way.  Most invariants    *)
(* hold until a poll first finds two packets; those that outlast it say    *)
(* less, and speak of the first boot of the AP only.                       *)
(***************************************************************************)
EXTENDS TaskFlow, SequenceTheorems, TLAPS

-----------------------------------------------------------------------------
(* The elements of a sequence *)

Elements(s) == {s[i] : i \in 1 .. Len(s)}

LEMMA NoElements == Elements(<<>>) = {} /\ Len(<<>>) = 0
BY EmptySeq DEF Elements

LEMMA SomeElement ==
  ASSUME NEW S, NEW s \in Seq(S)
  PROVE  /\ Elements(s) \subseteq S
         /\ s # <<>> => Head(s) \in Elements(s)
<1>1. Len(s) \in Nat
  BY LenProperties
<1>2. \A i \in 1 .. Len(s) : s[i] \in S
  BY ElementOfSeq
<1>3. s # <<>> => Len(s) # 0 /\ Head(s) = s[1]
  BY <1>1, EmptySeq
<1> QED
  BY <1>1, <1>2, <1>3 DEF Elements

LEMMA Prefix ==
  ASSUME NEW S, NEW s \in Seq(S), NEW n \in 0 .. Len(s)
  PROVE  /\ SubSeq(s, 1, n) \in Seq(S)
         /\ Len(SubSeq(s, 1, n)) = n
         /\ Elements(SubSeq(s, 1, n)) \subseteq Elements(s)
<1> DEFINE t == SubSeq(s, 1, n)
<1>1. Len(s) \in Nat /\ \A i \in 1 .. Len(s) : s[i] \in S
  BY LenProperties, ElementOfSeq
<1>2. \A i \in 1 .. n : s[i] \in S
  BY <1>1
<1>3. /\ t \in Seq(S) /\ Len(t) = IF 1 <= n THEN n - 1 + 1 ELSE 0
      /\ \A i \in 1 .. n - 1 + 1 : t[i] = s[1 + i - 1]
  BY <1>1, <1>2, SubSeqProperties
<1> HIDE DEF t
<1>4. Len(t) = n /\ \A i \in 1 .. n : t[i] = s[i]
  BY <1>1, <1>3
<1>5. Elements(t) \subseteq Elements(s)
  BY <1>1, <1>4 DEF Elements
<1> QED
  BY <1>3, <1>4, <1>5 DEF t

LEMMA Suffix ==
  ASSUME NEW S, NEW s \in Seq(S), NEW n \in 0 .. Len(s)
  PROVE  /\ SubSeq(s, n + 1, Len(s)) \in Seq(S)
         /\ Len(SubSeq(s, n + 1, Len(s))) = Len(s) - n
         /\ Elements(SubSeq(s, n + 1, Len(s))) \subseteq Elements(s)
<1> DEFINE t == SubSeq(s, n + 1, Len(s))
<1>1. Len(s) \in Nat /\ \A i \in 1 .. Len(s) : s[i] \in S
  BY LenProperties, ElementOfSeq
<1>2. \A i \in n + 1 .. Len(s) : s[i] \in S
  BY <1>1
<1>3. /\ t \in Seq(S) /\ Len(t) = IF n + 1 <= Len(s) THEN Len(s) - (n + 1) + 1 ELSE 0
      /\ \A i \in 1 .. Len(s) - (n + 1) + 1 : t[i] = s[(n + 1) + i - 1]
  BY <1>1, <1>2, SubSeqProperties
<1> HIDE DEF t
<1>4. Len(t) = Len(s) - n /\ \A i \in 1 .. Len(t) : t[i] = s[n + i] /\ n + i \in 1 .. Len(s)
  BY <1>1, <1>3
<1>5. Elements(t) \subseteq Elements(s)
  BY <1>4 DEF Elements
<1> QED
  BY <1>3, <1>4, <1>5 DEF t

LEMMA OneMore ==
  ASSUME NEW S, NEW s \in Seq(S), NEW x \in S
  PROVE  /\ s \o <<x>> \in Seq(S)
         /\ Len(s \o <<x>>) = Len(s) + 1
         /\ Elements(s \o <<x>>) = Elements(s) \cup {x}
<1> DEFINE t == s \o <<x>>
<1>1. <<x>> \in Seq(S) /\ Len(<<x>>) = 1 /\ <<x>>[1] = x
  OBVIOUS
<1>2. Len(s) \in Nat
  BY LenProperties
<1>3. /\ t \in Seq(S) /\ Len(t) = Len(s) + 1
      /\ \A i \in 1 .. Len(s) + 1 : t[i] = IF i <= Len(s) THEN s[i] ELSE <<x>>[i - Len(s)]
  BY <1>1, ConcatProperties
<1> HIDE DEF t
<1>4. /\ \A i \in 1 .. Len(s) : t[i] = s[i]
      /\ t[Len(s) + 1] = x
  BY <1>1, <1>2, <1>3
<1>5. \A i \in 1 .. Len(s) + 1 : i \in 1 .. Len(s) \/ i = Len(s) + 1
  BY <1>2
<1>6. 1 .. Len(s) \subseteq 1 .. Len(s) + 1 /\ Len(s) + 1 \in 1 .. Len(s) + 1
  BY <1>2
<1>7. Elements(t) = Elements(s) \cup {x}
  BY <1>3, <1>4, <1>5, <1>6 DEF Elements
<1> QED
  BY <1>3, <1>7 DEF t

LEMMA Backwards ==
  ASSUME NEW S, NEW s \in Seq(S)
  PROVE  /\ Pipe!Reverse(s) \in Seq(S)
         /\ Len(Pipe!Reverse(s)) = Len(s)
         /\ Elements(Pipe!Reverse(s)) \subseteq Elements(s)
         /\ Len(s) = 1 => Pipe!Reverse(s) = s
<1>1. Len(s) \in Nat /\ \A i \in 1 .. Len(s) : s[i] \in S
  BY LenProperties, ElementOfSeq
<1>2. \A i \in 1 .. Len(s) : (Len(s) - i) + 1 \in 1 .. Len(s)
  BY <1>1
<1>3. \A i \in 1 .. Len(s) : s[(Len(s) - i) + 1] \in S
  BY <1>1, <1>2
<1>4. [i \in 1 .. Len(s) |-> s[(Len(s) - i) + 1]] \in Seq(S)
  BY <1>1, <1>3, IsASeq
<1>5. Len([i \in 1 .. Len(s) |-> s[(Len(s) - i) + 1]]) = Len(s)
  BY <1>1
<1>6. Elements([i \in 1 .. Len(s) |-> s[(Len(s) - i) + 1]]) \subseteq Elements(s)
  BY <1>2, <1>5 DEF Elements
<1> DEFINE r == [i \in 1 .. Len(s) |-> s[(Len(s) - i) + 1]]
<1>7. ASSUME Len(s) = 1
      PROVE  r = s
  <2>1. \A i \in 1 .. Len(s) : r[i] = s[i]
    BY <1>7
  <2>2. r \in Seq(S) /\ Len(r) = Len(s)
    BY <1>4, <1>5
  <2> HIDE DEF r
  <2> QED
    BY <2>1, <2>2, SeqEqual
<1> QED
  BY <1>4, <1>5, <1>6, <1>7 DEF Pipe!Reverse

LEMMA Rest ==
  ASSUME NEW S, NEW s \in Seq(S), s # <<>>
  PROVE  /\ Tail(s) \in Seq(S)
         /\ Len(Tail(s)) = Len(s) - 1
         /\ Elements(Tail(s)) \subseteq Elements(s)
<1>1. Len(s) \in Nat /\ Len(s) # 0
  BY LenProperties, EmptySeq
<1>2. /\ Tail(s) \in Seq(S) /\ Len(Tail(s)) = Len(s) - 1
      /\ \A i \in 1 .. Len(Tail(s)) : Tail(s)[i] = s[i + 1]
  BY HeadTailProperties
<1>3. \A i \in 1 .. Len(Tail(s)) : i + 1 \in 1 .. Len(s)
  BY <1>1, <1>2
<1>4. Elements(Tail(s)) \subseteq Elements(s)
  BY <1>2, <1>3 DEF Elements
<1> QED
  BY <1>2, <1>4

-----------------------------------------------------------------------------
(* The places of the elements of a sequence *)

Part(s, m, n) == {s[i] : i \in m .. n}

\* An element, what comes before it, and what comes after it.
Place(s, i) == [p |-> s[i], before |-> Part(s, 1, i - 1), after |-> Part(s, i + 1, Len(s))]
PlacesIn(s) == {Place(s, i) : i \in 1 .. Len(s)}

LEMMA PlaceIs ==
  ASSUME NEW s, NEW i
  PROVE  /\ Place(s, i).p = s[i] /\ Place(s, i).before = Part(s, 1, i - 1)
         /\ Place(s, i).after = Part(s, i + 1, Len(s))
BY DEF Place

LEMMA PlacesEmpty == PlacesIn(<<>>) = {}
BY EmptySeq DEF PlacesIn

LEMMA PlaceFacts ==
  ASSUME NEW S, NEW s \in Seq(S)
  PROVE  /\ \A c \in PlacesIn(s) :
              c.p \in Elements(s) /\ c.before \subseteq Elements(s) /\ c.after \subseteq Elements(s)
         /\ \A p \in Elements(s) : \E c \in PlacesIn(s) : c.p = p
<1>1. Len(s) \in Nat
  BY LenProperties
<1>2. ASSUME NEW i \in 1 .. Len(s)
      PROVE  /\ s[i] \in Elements(s) /\ Part(s, 1, i - 1) \subseteq Elements(s)
             /\ Part(s, i + 1, Len(s)) \subseteq Elements(s)
  <2>1. 1 .. i - 1 \subseteq 1 .. Len(s) /\ i + 1 .. Len(s) \subseteq 1 .. Len(s)
    BY <1>1
  <2> QED
    BY <2>1 DEF Elements, Part
<1>3. \A c \in PlacesIn(s) :
        c.p \in Elements(s) /\ c.before \subseteq Elements(s) /\ c.after \subseteq Elements(s)
  BY <1>2, PlaceIs DEF PlacesIn
<1>4. \A i \in 1 .. Len(s) : Place(s, i) \in PlacesIn(s) /\ Place(s, i).p = s[i]
  BY PlaceIs DEF PlacesIn
<1> QED
  BY <1>3, <1>4 DEF Elements

\* A part that two sequences share, that one has a place later, and one element more.
LEMMA PartSame ==
  ASSUME NEW s, NEW t, NEW m \in Int, NEW n \in Int, \A i \in m .. n : t[i] = s[i]
  PROVE  Part(t, m, n) = Part(s, m, n)
BY DEF Part

LEMMA PartMoves ==
  ASSUME NEW s, NEW t, NEW m \in Int, NEW n \in Int, \A i \in m .. n : t[i] = s[i + 1]
  PROVE  Part(t, m, n) = Part(s, m + 1, n + 1)
<1>1. ASSUME NEW i \in m .. n
      PROVE  t[i] \in Part(s, m + 1, n + 1)
  <2>1. i + 1 \in m + 1 .. n + 1
    OBVIOUS
  <2> QED
    BY <2>1 DEF Part
<1>2. ASSUME NEW i \in m + 1 .. n + 1
      PROVE  s[i] \in Part(t, m, n)
  <2>1. i - 1 \in m .. n /\ (i - 1) + 1 = i
    OBVIOUS
  <2>2. t[i - 1] = s[i]
    BY <2>1
  <2> QED
    BY <2>1, <2>2 DEF Part
<1> QED
  BY <1>1, <1>2 DEF Part

LEMMA PartGrows ==
  ASSUME NEW s, NEW m \in Int, NEW n \in Int, m <= n
  PROVE  /\ Part(s, m, n) = {s[m]} \cup Part(s, m + 1, n)
         /\ Part(s, m, n) = Part(s, m, n - 1) \cup {s[n]}
<1>1. m .. n = {m} \cup m + 1 .. n /\ m .. n = m .. n - 1 \cup {n}
  OBVIOUS
<1> QED
  BY <1>1 DEF Part

LEMMA PartEmpty ==
  ASSUME NEW s, NEW m \in Int, NEW n \in Int, n < m
  PROVE  Part(s, m, n) = {}
BY DEF Part

\* Without its head, a sequence has the same places but that of the head.
LEMMA PlacesInTail ==
  ASSUME NEW S, NEW s \in Seq(S), s # <<>>
  PROVE  /\ \E h \in PlacesIn(s) :
              h.p = Head(s) /\ h.before = {} /\ h.after = Elements(Tail(s))
         /\ \A d \in PlacesIn(Tail(s)) : \E c \in PlacesIn(s) :
              c.p = d.p /\ c.before = d.before \cup {Head(s)} /\ c.after = d.after
         /\ Elements(s) = {Head(s)} \cup Elements(Tail(s))
<1> DEFINE t == Tail(s)
<1>1. /\ Len(s) \in Nat /\ Len(s) >= 1 /\ Len(t) = Len(s) - 1 /\ Head(s) = s[1]
      /\ \A i \in 1 .. Len(t) : t[i] = s[i + 1]
  BY LenProperties, EmptySeq, HeadTailProperties
<1> HIDE DEF t
<1>2. Elements(t) = Part(t, 1, Len(t)) /\ Elements(s) = Part(s, 1, Len(s))
  BY DEF Elements, Part
<1>3. ASSUME NEW i \in Int, i >= 0
      PROVE  Part(t, i + 1, Len(t)) = Part(s, i + 2, Len(s))
  <2>1. /\ i + 1 \in Int /\ Len(t) \in Int /\ (i + 1) + 1 = i + 2 /\ Len(t) + 1 = Len(s)
        /\ \A j \in i + 1 .. Len(t) : t[j] = s[j + 1]
    BY <1>1, <1>3
  <2> QED
    BY <2>1, PartMoves
<1>4. Elements(t) = Part(s, 2, Len(s))
  <2>1. ASSUME NEW i \in Int, i = 0
        PROVE  Part(t, 1, Len(t)) = Part(s, 2, Len(s))
    <3>1. i + 1 = 1 /\ i + 2 = 2 /\ i >= 0
      BY <2>1
    <3>2. Part(t, i + 1, Len(t)) = Part(s, i + 2, Len(s))
      BY <1>3, <3>1
    <3> QED
      BY <3>1, <3>2
  <2> QED
    BY <1>2, <2>1
<1>5. /\ Place(s, 1).p = Head(s) /\ Place(s, 1).after = Elements(t)
      /\ Place(s, 1).before = {} /\ Place(s, 1) \in PlacesIn(s)
  <2>1. 1 \in 1 .. Len(s) /\ 1 + 1 = 2 /\ 1 - 1 = 0 /\ 0 < 1
    BY <1>1
  <2>2. Part(s, 1, 0) = {}
    BY PartEmpty
  <2> QED
    BY <1>1, <1>4, <2>1, <2>2, PlaceIs DEF PlacesIn
<1>6. ASSUME NEW i \in 1 .. Len(t)
      PROVE  \E c \in PlacesIn(s) :
               /\ c.p = Place(t, i).p /\ c.before = Place(t, i).before \cup {Head(s)}
               /\ c.after = Place(t, i).after
  <2>1. i + 1 \in 1 .. Len(s) /\ i \in Int /\ i >= 1 /\ (i + 1) + 1 = i + 2 /\ (i + 1) - 1 = i
    BY <1>1
  <2>2. Part(t, 1, i - 1) = Part(s, 2, i)
    <3>1. 1 \in Int /\ i - 1 \in Int /\ 1 + 1 = 2 /\ (i - 1) + 1 = i
      OBVIOUS
    <3>2. \A j \in 1 .. i - 1 : t[j] = s[j + 1]
      BY <1>1
    <3>3. Part(t, 1, i - 1) = Part(s, 1 + 1, (i - 1) + 1)
      BY <3>1, <3>2, PartMoves
    <3> QED
      BY <3>1, <3>3
  <2>3. Part(s, 1, i) = {s[1]} \cup Part(s, 2, i)
    <3>1. Part(s, 1, i) = {s[1]} \cup Part(s, 1 + 1, i)
      BY <2>1, PartGrows
    <3> QED
      BY <3>1
  <2>4. Part(t, i + 1, Len(t)) = Part(s, i + 2, Len(s))
    BY <1>3, <2>1
  <2>5. /\ Place(s, i + 1) \in PlacesIn(s) /\ Place(s, i + 1).p = s[i + 1]
        /\ Place(s, i + 1).before = Part(s, 1, i)
        /\ Place(s, i + 1).after = Part(s, i + 2, Len(s))
    BY <2>1, PlaceIs DEF PlacesIn
  <2>6. t[i] = s[i + 1]
    BY <1>1
  <2>7. /\ Place(t, i).p = t[i] /\ Place(t, i).before = Part(t, 1, i - 1)
        /\ Place(t, i).after = Part(t, i + 1, Len(t))
    BY PlaceIs
  <2> QED
    BY <1>1, <2>2, <2>3, <2>4, <2>5, <2>6, <2>7
<1>7. \A d \in PlacesIn(t) : \E i \in 1 .. Len(t) : d = Place(t, i)
  BY DEF PlacesIn
<1>8. \A d \in PlacesIn(t) : \E c \in PlacesIn(s) :
        c.p = d.p /\ c.before = d.before \cup {Head(s)} /\ c.after = d.after
  BY <1>6, <1>7
<1>9. Elements(s) = {Head(s)} \cup Elements(t)
  <2>1. Part(s, 1, Len(s)) = {s[1]} \cup Part(s, 1 + 1, Len(s))
    BY <1>1, PartGrows
  <2> QED
    BY <1>1, <1>2, <1>4, <2>1
<1> QED
  BY <1>5, <1>8, <1>9 DEF t

\* An element at the end comes after all the others.
LEMMA PlacesInLonger ==
  ASSUME NEW S, NEW s \in Seq(S), NEW x \in S
  PROVE  \A d \in PlacesIn(s \o <<x>>) :
           \/ d.p = x /\ d.before = Elements(s) /\ d.after = {}
           \/ \E c \in PlacesIn(s) :
                c.p = d.p /\ c.before = d.before /\ d.after = c.after \cup {x}
<1> DEFINE t == s \o <<x>>
<1>1. /\ Len(s) \in Nat /\ Len(t) = Len(s) + 1 /\ t[Len(s) + 1] = x
      /\ \A i \in 1 .. Len(s) : t[i] = s[i]
  <2>1. <<x>> \in Seq(S) /\ Len(<<x>>) = 1 /\ <<x>>[1] = x
    OBVIOUS
  <2>2. /\ Len(t) = Len(s) + 1 /\ Len(s) \in Nat
        /\ \A i \in 1 .. Len(s) + 1 : t[i] = IF i <= Len(s) THEN s[i] ELSE <<x>>[i - Len(s)]
    BY <2>1, ConcatProperties, LenProperties
  <2> HIDE DEF t
  <2> QED
    BY <2>1, <2>2
<1> HIDE DEF t
<1>2. ASSUME NEW i \in 1 .. Len(s) + 1
      PROVE  Place(t, i).before = Part(s, 1, i - 1)
  <2>1. 1 \in Int /\ i - 1 \in Int /\ \A j \in 1 .. i - 1 : t[j] = s[j]
    BY <1>1
  <2>2. Part(t, 1, i - 1) = Part(s, 1, i - 1)
    BY <2>1, PartSame
  <2> QED
    BY <2>2, PlaceIs
<1>3. /\ Place(t, Len(s) + 1).p = x /\ Place(t, Len(s) + 1).after = {}
      /\ Place(t, Len(s) + 1).before = Elements(s)
  <2>1. /\ Len(s) + 1 \in 1 .. Len(s) + 1 /\ (Len(s) + 1) - 1 = Len(s)
        /\ (Len(s) + 1) + 1 \in Int /\ Len(t) \in Int /\ Len(t) < (Len(s) + 1) + 1
    BY <1>1
  <2>2. Part(t, (Len(s) + 1) + 1, Len(t)) = {}
    BY <2>1, PartEmpty
  <2>3. Elements(s) = Part(s, 1, Len(s))
    BY DEF Elements, Part
  <2>4. Place(t, Len(s) + 1).before = Part(s, 1, (Len(s) + 1) - 1)
    BY <1>2, <2>1
  <2> QED
    BY <1>1, <2>1, <2>2, <2>3, <2>4, PlaceIs
<1>4. ASSUME NEW i \in 1 .. Len(s)
      PROVE  \E c \in PlacesIn(s) :
               /\ c.p = Place(t, i).p /\ c.before = Place(t, i).before
               /\ Place(t, i).after = c.after \cup {x}
  <2>1. /\ i \in 1 .. Len(s) + 1 /\ i + 1 \in Int /\ Len(t) \in Int /\ i + 1 <= Len(t)
        /\ Len(t) - 1 = Len(s) /\ t[Len(t)] = x /\ t[i] = s[i]
        /\ Len(s) \in Int /\ \A j \in i + 1 .. Len(s) : t[j] = s[j]
    BY <1>1
  <2>2. Part(t, i + 1, Len(t)) = Part(t, i + 1, Len(t) - 1) \cup {t[Len(t)]}
    <3>1. i + 1 \in Int /\ Len(t) \in Int /\ i + 1 <= Len(t)
      BY <2>1
    <3> QED
      BY <3>1, PartGrows
  <2>3. Part(t, i + 1, Len(s)) = Part(s, i + 1, Len(s))
    BY <2>1, PartSame
  <2>4. /\ Place(s, i) \in PlacesIn(s) /\ Place(s, i).p = s[i]
        /\ Place(s, i).before = Part(s, 1, i - 1) /\ Place(s, i).after = Part(s, i + 1, Len(s))
    BY PlaceIs DEF PlacesIn
  <2>5. Place(t, i).p = s[i] /\ Place(t, i).after = Part(t, i + 1, Len(t))
    BY <2>1, PlaceIs
  <2> QED
    BY <1>2, <2>1, <2>2, <2>3, <2>4, <2>5
<1>5. \A d \in PlacesIn(t) : d = Place(t, Len(s) + 1) \/ \E i \in 1 .. Len(s) : d = Place(t, i)
  <2>1. \A i \in 1 .. Len(t) : i \in 1 .. Len(s) \/ i = Len(s) + 1
    BY <1>1
  <2> QED
    BY <2>1 DEF PlacesIn
<1>6. \A d \in PlacesIn(t) :
        \/ d.p = x /\ d.before = Elements(s) /\ d.after = {}
        \/ \E c \in PlacesIn(s) :
             c.p = d.p /\ c.before = d.before /\ d.after = c.after \cup {x}
  BY <1>3, <1>4, <1>5
<1> QED
  BY <1>6 DEF t

\* A prefix has the first places, with less after them.
LEMMA PlacesInPrefix ==
  ASSUME NEW S, NEW s \in Seq(S), NEW n \in 0 .. Len(s)
  PROVE  \A d \in PlacesIn(SubSeq(s, 1, n)) : \E c \in PlacesIn(s) :
           c.p = d.p /\ c.before = d.before /\ d.after \subseteq c.after
<1> DEFINE t == SubSeq(s, 1, n)
<1>1. /\ Len(s) \in Nat /\ n \in Nat /\ n <= Len(s) /\ Len(t) = n
      /\ \A i \in 1 .. n : t[i] = s[i]
  <2>1. Len(s) \in Nat /\ \A i \in 1 .. Len(s) : s[i] \in S
    BY LenProperties, ElementOfSeq
  <2>2. \A i \in 1 .. n : s[i] \in S
    BY <2>1
  <2>3. /\ Len(t) = IF 1 <= n THEN n - 1 + 1 ELSE 0
        /\ \A i \in 1 .. n - 1 + 1 : t[i] = s[1 + i - 1]
    BY <2>1, <2>2, SubSeqProperties
  <2> HIDE DEF t
  <2> QED
    BY <2>1, <2>3
<1> HIDE DEF t
<1>2. ASSUME NEW i \in 1 .. n
      PROVE  \E c \in PlacesIn(s) :
               /\ c.p = Place(t, i).p /\ c.before = Place(t, i).before
               /\ Place(t, i).after \subseteq c.after
  <2>1. /\ i \in 1 .. Len(s) /\ t[i] = s[i] /\ i - 1 \in Int /\ i + 1 \in Int
        /\ \A j \in 1 .. i - 1 : t[j] = s[j]
        /\ \A j \in i + 1 .. Len(t) : t[j] = s[j] /\ j \in i + 1 .. Len(s)
    BY <1>1
  <2>2. Part(t, 1, i - 1) = Part(s, 1, i - 1)
    BY <2>1, PartSame
  <2>3. Part(t, i + 1, Len(t)) \subseteq Part(s, i + 1, Len(s))
    BY <2>1 DEF Part
  <2>4. /\ Place(s, i) \in PlacesIn(s) /\ Place(s, i).p = s[i]
        /\ Place(s, i).before = Part(s, 1, i - 1) /\ Place(s, i).after = Part(s, i + 1, Len(s))
    BY <2>1, PlaceIs DEF PlacesIn
  <2>5. /\ Place(t, i).p = s[i] /\ Place(t, i).before = Part(t, 1, i - 1)
        /\ Place(t, i).after = Part(t, i + 1, Len(t))
    BY <2>1, PlaceIs
  <2> QED
    BY <2>2, <2>3, <2>4, <2>5
<1>3. \A d \in PlacesIn(t) : \E i \in 1 .. n : d = Place(t, i)
  BY <1>1 DEF PlacesIn
<1>4. \A d \in PlacesIn(t) : \E c \in PlacesIn(s) :
        c.p = d.p /\ c.before = d.before /\ d.after \subseteq c.after
  BY <1>2, <1>3
<1> QED
  BY <1>4 DEF t

-----------------------------------------------------------------------------
(* Sequences one after the other *)

LEMMA Joining ==
  ASSUME NEW S, NEW s \in Seq(S), NEW t \in Seq(S)
  PROVE  /\ s \o t \in Seq(S) /\ Elements(s \o t) = Elements(s) \cup Elements(t)
         /\ s # <<>> => s \o t # <<>> /\ Head(s \o t) = Head(s) /\ Tail(s \o t) = Tail(s) \o t
<1> DEFINE u == s \o t
<1>1. /\ Len(s) \in Nat /\ Len(t) \in Nat /\ u \in Seq(S) /\ Len(u) = Len(s) + Len(t)
      /\ \A i \in 1 .. Len(u) : u[i] = IF i <= Len(s) THEN s[i] ELSE t[i - Len(s)]
  BY LenProperties, ConcatProperties
<1> HIDE DEF u
<1>2. Elements(u) = Elements(s) \cup Elements(t)
  <2>1. ASSUME NEW i \in 1 .. Len(s)
        PROVE  i \in 1 .. Len(u) /\ u[i] = s[i]
    <3>1. i \in Int /\ 1 <= i /\ i <= Len(s) /\ Len(s) <= Len(u)
      BY <1>1
    <3>2. i \in 1 .. Len(u)
      BY <1>1, <3>1
    <3> QED
      BY <1>1, <3>1, <3>2
  <2>2. ASSUME NEW i \in 1 .. Len(t)
        PROVE  i + Len(s) \in 1 .. Len(u) /\ u[i + Len(s)] = t[i]
    <3>1. i \in Int /\ 1 <= i /\ i <= Len(t)
      OBVIOUS
    <3>2. i + Len(s) \in 1 .. Len(u) /\ ~(i + Len(s) <= Len(s)) /\ (i + Len(s)) - Len(s) = i
      BY <1>1, <3>1
    <3> QED
      BY <1>1, <3>2
  <2>3. \A i \in 1 .. Len(u) : \/ i \in 1 .. Len(s) /\ u[i] = s[i]
                               \/ i - Len(s) \in 1 .. Len(t) /\ u[i] = t[i - Len(s)]
    BY <1>1
  <2>4. \A i \in 1 .. Len(u) : u[i] \in Elements(s) \cup Elements(t)
    BY <2>3 DEF Elements
  <2>5. Elements(s) \subseteq Elements(u)
    BY <2>1 DEF Elements
  <2>6. Elements(t) \subseteq Elements(u)
    <3>1. \A i \in 1 .. Len(t) : t[i] \in Elements(u)
      BY <2>2 DEF Elements
    <3> QED
      BY <3>1 DEF Elements
  <2>7. Elements(u) \subseteq Elements(s) \cup Elements(t)
    BY <2>4 DEF Elements
  <2> QED
    BY <2>5, <2>6, <2>7
<1>3. ASSUME s # <<>>
      PROVE  u # <<>> /\ Head(u) = Head(s) /\ Tail(u) = Tail(s) \o t
  <2>1. Len(s) >= 1 /\ u # <<>> /\ Head(s) = s[1] /\ Head(u) = u[1] /\ u[1] = s[1]
    BY <1>1, <1>3, EmptySeq
  <2>2. /\ Tail(s) \in Seq(S) /\ Len(Tail(s)) = Len(s) - 1
        /\ \A i \in 1 .. Len(Tail(s)) : Tail(s)[i] = s[i + 1]
        /\ Tail(u) \in Seq(S) /\ Len(Tail(u)) = Len(u) - 1
        /\ \A i \in 1 .. Len(Tail(u)) : Tail(u)[i] = u[i + 1]
    BY <1>1, <1>3, <2>1, HeadTailProperties
  <2> DEFINE v == Tail(s) \o t
  <2>3. /\ v \in Seq(S) /\ Len(v) = Len(Tail(s)) + Len(t)
        /\ \A i \in 1 .. Len(v) :
             v[i] = IF i <= Len(Tail(s)) THEN Tail(s)[i] ELSE t[i - Len(Tail(s))]
    BY <2>2, ConcatProperties
  <2> HIDE DEF v
  <2>4. Len(Tail(u)) = Len(v)
    BY <1>1, <2>2, <2>3
  <2>5. ASSUME NEW i \in 1 .. Len(Tail(u))
        PROVE  Tail(u)[i] = v[i]
    <3>1. i + 1 \in 1 .. Len(u) /\ i \in 1 .. Len(v) /\ Tail(u)[i] = u[i + 1]
      BY <1>1, <2>1, <2>2, <2>4
    <3>2. CASE i <= Len(Tail(s))
      <4>1. i \in 1 .. Len(Tail(s)) /\ i + 1 <= Len(s)
        BY <1>1, <2>2, <3>2
      <4> QED
        BY <1>1, <2>2, <2>3, <3>1, <4>1
    <3>3. CASE ~(i <= Len(Tail(s)))
      <4>1. ~(i + 1 <= Len(s)) /\ i - Len(Tail(s)) = (i + 1) - Len(s)
        BY <1>1, <2>2, <3>3
      <4> QED
        BY <1>1, <2>3, <3>1, <3>3, <4>1
    <3> QED
      BY <3>2, <3>3
  <2>6. Tail(u) = v
    BY <2>2, <2>3, <2>4, <2>5, SeqEqual
  <2> QED
    BY <2>1, <2>6 DEF v
<1> QED
  BY <1>1, <1>2, <1>3 DEF u

Beginnings(s) == {SubSeq(s, 1, n) : n \in 0 .. Len(s)}

LEMMA BeginningOf ==
  ASSUME NEW S, NEW s \in Seq(S), NEW t \in Seq(S), NEW u \in Beginnings(t)
  PROVE  /\ u \in Seq(S) /\ Elements(u) \subseteq Elements(t)
         /\ s \o u \in Beginnings(s \o t)
         /\ t \in Beginnings(t) /\ <<>> \in Beginnings(t)
<1>1. PICK n \in 0 .. Len(t) : u = SubSeq(t, 1, n)
  BY DEF Beginnings
<1>2. u \in Seq(S) /\ Len(u) = n /\ Elements(u) \subseteq Elements(t)
  BY <1>1, Prefix
<1>3. Len(s) \in Nat /\ Len(t) \in Nat /\ n \in Nat /\ n <= Len(t)
  BY LenProperties
<1>4. \A i \in 1 .. n : u[i] = t[i]
  <2>1. \A i \in 1 .. n : t[i] \in S
    BY <1>3, ElementOfSeq
  <2>2. \A i \in 1 .. n - 1 + 1 : u[i] = t[1 + i - 1]
    BY <1>1, <1>3, <2>1, SubSeqProperties
  <2> QED
    BY <1>3, <2>2
<1> DEFINE a == s \o u
           b == s \o t
           k == Len(s) + n
           c == SubSeq(b, 1, k)
<1>5. /\ a \in Seq(S) /\ Len(a) = k
      /\ \A i \in 1 .. k : a[i] = IF i <= Len(s) THEN s[i] ELSE u[i - Len(s)]
  BY <1>2, ConcatProperties
<1>6. /\ b \in Seq(S) /\ Len(b) = Len(s) + Len(t)
      /\ \A i \in 1 .. Len(s) + Len(t) : b[i] = IF i <= Len(s) THEN s[i] ELSE t[i - Len(s)]
  BY ConcatProperties
<1> HIDE DEF a, b
<1>7. k \in 0 .. Len(b) /\ k \in Nat
  BY <1>3, <1>6
<1>8. c \in Seq(S) /\ Len(c) = k /\ \A i \in 1 .. k : c[i] = b[i]
  <2>1. \A i \in 1 .. k : b[i] \in S
    BY <1>6, <1>7, ElementOfSeq
  <2>2. /\ c \in Seq(S) /\ Len(c) = IF 1 <= k THEN k - 1 + 1 ELSE 0
        /\ \A i \in 1 .. k - 1 + 1 : c[i] = b[1 + i - 1]
    BY <1>7, <2>1, SubSeqProperties
  <2> HIDE DEF c, k
  <2> QED
    BY <1>7, <2>2
<1>9. \A i \in 1 .. k : a[i] = b[i]
  <2> SUFFICES ASSUME NEW i \in 1 .. k
               PROVE  a[i] = b[i]
    OBVIOUS
  <2>1. i \in 1 .. Len(s) + Len(t)
    BY <1>3
  <2>2. CASE i <= Len(s)
    BY <1>5, <1>6, <2>1, <2>2
  <2>3. CASE ~(i <= Len(s))
    <3>1. i - Len(s) \in 1 .. n
      BY <1>3, <2>3
    <3>2. u[i - Len(s)] = t[i - Len(s)]
      BY <1>4, <3>1
    <3> QED
      BY <1>5, <1>6, <2>1, <2>3, <3>2
  <2> QED
    BY <2>2, <2>3
<1> HIDE DEF c, k
<1>10. a = c
  BY <1>5, <1>8, <1>9, SeqEqual
<1>11. a \in Beginnings(b)
  BY <1>7, <1>10 DEF Beginnings, c
<1>12. t = SubSeq(t, 1, Len(t)) /\ <<>> = SubSeq(t, 1, 0)
  BY SubSeqFull, SubSeqEmpty
<1>13. Len(t) \in 0 .. Len(t) /\ 0 \in 0 .. Len(t)
  BY <1>3
<1> QED
  BY <1>2, <1>11, <1>12, <1>13 DEF Beginnings, a, b

-----------------------------------------------------------------------------
(* The packets under way to an end: taken by its poll, and still coming *)

Peer(e)    == Pipe!Peer(e)
Waiting(e) == Elements(todo[e])
Coming(e)  == Elements(pipe[e])
\* Both, in the order in which they are consumed as long as a poll finds one of them.
Flow(e)    == todo[e] \o pipe[e]

LEMMA Ends ==
  /\ End = {"ap", "node"} /\ Peer("ap") = "node" /\ Peer("node") = "ap"
  /\ \A e \in End : Peer(e) \in End /\ Peer(e) # e /\ Peer(Peer(e)) = e
  /\ \A e, f \in End : f = e \/ f = Peer(e)
BY DEF End, Pipe!End, Peer, Pipe!Peer

\* The part of the type invariant that the link needs.
LinkTyped ==
  /\ linked \in BOOLEAN /\ open \in [End -> BOOLEAN]
  /\ pipe \in [End -> Seq(Packet)]
  /\ todo \in [End -> Seq(Packet)]

LEMMA PollMoves ==
  ASSUME LinkTyped, NEW e \in End, NEW n \in 0 .. Len(pipe[e]), NEW sent \in Seq(Packet),
         Pipe!Poll(e, n, sent)
  PROVE  /\ UNCHANGED <<linked, open>> /\ open[e]
         /\ pipe'[e] = SubSeq(pipe[e], n + 1, Len(pipe[e]))
         /\ pipe'[Peer(e)] = IF linked THEN pipe[Peer(e)] \o sent ELSE pipe[Peer(e)]
         /\ pipe' \in [End -> Seq(Packet)]
<1>1. Peer(e) \in End /\ Peer(e) # e /\ \A f \in End : f = e \/ f = Peer(e)
  BY Ends
<1>2. /\ open[e] /\ UNCHANGED <<linked, open>>
      /\ pipe' = [f \in End |->
           IF f = e THEN SubSeq(pipe[e], n + 1, Len(pipe[e]))
           ELSE IF linked THEN pipe[f] \o sent ELSE pipe[f]]
  BY DEF Pipe!Poll, End
<1>3. /\ pipe'[e] = SubSeq(pipe[e], n + 1, Len(pipe[e]))
      /\ pipe'[Peer(e)] = IF linked THEN pipe[Peer(e)] \o sent ELSE pipe[Peer(e)]
  BY <1>1, <1>2
<1>4. pipe[e] \in Seq(Packet) /\ pipe[Peer(e)] \in Seq(Packet)
  BY <1>1 DEF LinkTyped
<1>5. pipe'[e] \in Seq(Packet)
  BY <1>2, <1>3, <1>4, Suffix
<1>6. pipe[Peer(e)] \o sent \in Seq(Packet)
  BY <1>4, ConcatProperties
<1>7. \A f \in End : pipe'[f] \in Seq(Packet)
  BY <1>1, <1>3, <1>4, <1>5, <1>6
<1>8. pipe' \in [End -> Seq(Packet)]
  BY <1>2, <1>7
<1> QED
  BY <1>2, <1>3, <1>8

\* TakePackets moves packets from one place to the other.
LEMMA TakeMoves ==
  ASSUME LinkTyped, NEW e \in End, TakePackets(e)
  PROVE  /\ LinkTyped' /\ UNCHANGED <<linked, open>> /\ open[e]
         /\ Waiting(e) = {} /\ Waiting(e)' \subseteq Coming(e)
         /\ Coming(e)' \subseteq Coming(e)
         /\ UNCHANGED <<todo[Peer(e)], pipe[Peer(e)]>>
         /\ ~overtaken' => UNCHANGED Flow(e) /\ Len(todo[e])' <= 1
<1>1. PICK n \in 1 .. Len(pipe[e]) :
        /\ Pipe!Poll(e, n, <<>>) /\ overtaken' = (overtaken \/ n > 1)
        /\ todo' = [todo EXCEPT ![e] = Pipe!Batch(e, n)]
  BY DEF TakePackets
<1>2. pipe[e] \in Seq(Packet) /\ pipe[Peer(e)] \in Seq(Packet) /\ Len(pipe[e]) \in Nat
  BY Ends, LenProperties DEF LinkTyped
<1>3. n \in Nat /\ n \in 0 .. Len(pipe[e]) /\ n >= 1 /\ <<>> \in Seq(Packet)
  BY <1>1, <1>2
<1>4. /\ UNCHANGED <<linked, open>> /\ open[e]
      /\ pipe'[e] = SubSeq(pipe[e], n + 1, Len(pipe[e]))
      /\ pipe'[Peer(e)] = IF linked THEN pipe[Peer(e)] \o <<>> ELSE pipe[Peer(e)]
      /\ pipe' \in [End -> Seq(Packet)]
  BY <1>1, <1>3, PollMoves
<1>5. pipe'[Peer(e)] = pipe[Peer(e)]
  BY <1>2, <1>4, ConcatEmptySeq
<1> DEFINE batch == Pipe!Reverse(SubSeq(pipe[e], 1, n))
<1>6. /\ batch \in Seq(Packet) /\ Len(batch) = n /\ Elements(batch) \subseteq Coming(e)
      /\ n = 1 => batch = SubSeq(pipe[e], 1, n)
  <2> DEFINE t == SubSeq(pipe[e], 1, n)
  <2>1. t \in Seq(Packet) /\ Len(t) = n /\ Elements(t) \subseteq Elements(pipe[e])
    BY <1>2, <1>3, Prefix
  <2> HIDE DEF t
  <2>2. /\ Pipe!Reverse(t) \in Seq(Packet) /\ Len(Pipe!Reverse(t)) = Len(t)
        /\ Elements(Pipe!Reverse(t)) \subseteq Elements(t)
        /\ Len(t) = 1 => Pipe!Reverse(t) = t
    BY <2>1, Backwards
  <2> QED
    BY <2>1, <2>2 DEF t, Coming
<1>7. todo' = [todo EXCEPT ![e] = batch]
  BY <1>1 DEF Pipe!Batch
<1> HIDE DEF batch
<1>8. todo'[e] = batch /\ todo'[Peer(e)] = todo[Peer(e)] /\ todo' \in [End -> Seq(Packet)]
  BY <1>6, <1>7, Ends DEF LinkTyped
<1>9. LinkTyped'
  BY <1>4, <1>8 DEF LinkTyped
<1>10. /\ Len(pipe'[e]) = Len(pipe[e]) - n /\ pipe'[e] \in Seq(Packet)
       /\ Elements(pipe'[e]) \subseteq Elements(pipe[e])
  BY <1>2, <1>3, <1>4, Suffix
<1>11. Waiting(e) = {}
  BY NoElements DEF TakePackets, Waiting
<1>12. ASSUME ~overtaken'
       PROVE  Len(todo'[e]) <= 1 /\ todo'[e] \o pipe'[e] = todo[e] \o pipe[e]
  <2>0. ~(n > 1)
    BY <1>1, <1>12, Zenon
  <2>1. n = 1 /\ 1 \in 1 .. Len(pipe[e]) + 1 /\ Len(pipe[e]) \in 1 .. Len(pipe[e])
        /\ 1 \in 1 - 1 .. Len(pipe[e])
    BY <1>2, <1>3, <2>0
  <2>2. SubSeq(pipe[e], 1, 1) \o SubSeq(pipe[e], 1 + 1, Len(pipe[e])) = pipe[e]
    BY <1>2, <2>1, ConcatAdjacentSubSeq, SubSeqFull
  <2>3. <<>> \o pipe[e] = pipe[e] /\ todo[e] = <<>>
    BY <1>2, ConcatEmptySeq DEF TakePackets
  <2>4. Len(todo'[e]) = 1 /\ todo'[e] = SubSeq(pipe[e], 1, 1)
    BY <1>6, <1>8, <2>1
  <2>5. pipe'[e] = SubSeq(pipe[e], 1 + 1, Len(pipe[e]))
    BY <1>4, <2>1
  <2> QED
    BY <2>2, <2>3, <2>4, <2>5
<1> QED
  BY <1>4, <1>5, <1>6, <1>8, <1>9, <1>10, <1>11, <1>12 DEF Waiting, Coming, Flow

\* Consume takes the next packet.
LEMMA ConsumeMoves ==
  ASSUME LinkTyped, NEW e \in End, Consume(e)
  PROVE  /\ LinkTyped' /\ UNCHANGED pipeVars
         /\ Head(todo[e]) \in Waiting(e) /\ Head(todo[e]) \in Packet
         /\ Waiting(e)' \subseteq Waiting(e)
         /\ UNCHANGED todo[Peer(e)]
         /\ Flow(e) # <<>> /\ Head(Flow(e)) = Head(todo[e]) /\ Flow(e)' = Tail(Flow(e))
         /\ Len(todo[e]) <= 1 => Len(todo[e])' <= 1
<1>1. /\ todo[e] # <<>> /\ todo' = [todo EXCEPT ![e] = Tail(@)]
      /\ UNCHANGED <<linked, open, pipe>> /\ UNCHANGED pipeVars
  BY DEF Consume, pipeVars
<1>2. todo[e] \in Seq(Packet) /\ Len(todo[e]) \in Nat
  BY LenProperties DEF LinkTyped
<1>3. /\ Tail(todo[e]) \in Seq(Packet) /\ Len(Tail(todo[e])) = Len(todo[e]) - 1
      /\ Elements(Tail(todo[e])) \subseteq Elements(todo[e])
  BY <1>1, <1>2, Rest
<1>4. /\ todo'[e] = Tail(todo[e]) /\ todo'[Peer(e)] = todo[Peer(e)]
      /\ todo' \in [End -> Seq(Packet)]
  BY <1>1, <1>3, Ends DEF LinkTyped
<1>5. Elements(todo[e]) \subseteq Packet /\ Head(todo[e]) \in Elements(todo[e])
  BY <1>1, <1>2, SomeElement
<1>6. pipe[e] \in Seq(Packet) /\ UNCHANGED pipe[e]
  BY <1>1 DEF LinkTyped
<1>7. /\ Flow(e) # <<>> /\ Head(Flow(e)) = Head(todo[e])
      /\ Tail(Flow(e)) = Tail(todo[e]) \o pipe[e]
  BY <1>1, <1>2, <1>6, Joining DEF Flow
<1>8. Flow(e)' = Tail(Flow(e))
  BY <1>4, <1>6, <1>7 DEF Flow
<1> QED
  BY <1>1, <1>2, <1>3, <1>4, <1>5, <1>7, <1>8 DEF LinkTyped, Waiting

\* SendPacket adds what was produced to the packets coming to the peer.
LEMMA SendMoves ==
  ASSUME LinkTyped, NEW e \in End, Produced(e) \in Packet, SendPacket(e)
  PROVE  /\ LinkTyped' /\ UNCHANGED <<linked, open>> /\ open[e]
         /\ Waiting(e) = {} /\ UNCHANGED todo
         /\ UNCHANGED pipe[e]
         /\ ~linked => UNCHANGED pipe[Peer(e)]
         /\ linked  => Coming(Peer(e))' = Coming(Peer(e)) \cup {Produced(e)}
         /\ linked  => Flow(Peer(e))' = Flow(Peer(e)) \o <<Produced(e)>>
<1>1. Pipe!Poll(e, 0, <<Produced(e)>>) /\ todo[e] = <<>> /\ UNCHANGED todo
  BY DEF SendPacket
<1>2. /\ pipe[e] \in Seq(Packet) /\ pipe[Peer(e)] \in Seq(Packet)
      /\ Len(pipe[e]) \in Nat /\ Len(pipe[Peer(e)]) \in Nat
  BY Ends, LenProperties DEF LinkTyped
<1>3. <<Produced(e)>> \in Seq(Packet) /\ 0 \in 0 .. Len(pipe[e])
  BY <1>2
<1>4. /\ UNCHANGED <<linked, open>> /\ open[e]
      /\ pipe'[e] = SubSeq(pipe[e], 0 + 1, Len(pipe[e]))
      /\ pipe'[Peer(e)] =
           IF linked THEN pipe[Peer(e)] \o <<Produced(e)>> ELSE pipe[Peer(e)]
      /\ pipe' \in [End -> Seq(Packet)]
  BY <1>1, <1>3, PollMoves
<1>5. pipe'[e] = pipe[e]
  BY <1>2, <1>4, SubSeqFull
<1> DEFINE t == pipe[Peer(e)] \o <<Produced(e)>>
<1>6. Len(t) = Len(pipe[Peer(e)]) + 1 /\ Elements(t) = Elements(pipe[Peer(e)]) \cup {Produced(e)}
  BY <1>2, OneMore
<1> HIDE DEF t
<1>7. linked => pipe'[Peer(e)] = t
  BY <1>4 DEF t
<1>8. linked => Flow(Peer(e))' = Flow(Peer(e)) \o <<Produced(e)>>
  <2>1. todo[Peer(e)] \in Seq(Packet) /\ UNCHANGED todo[Peer(e)]
    BY <1>1, Ends DEF LinkTyped
  <2>2. todo[Peer(e)] \o t = (todo[Peer(e)] \o pipe[Peer(e)]) \o <<Produced(e)>>
    <3> DEFINE first == todo[Peer(e)]
               next  == pipe[Peer(e)]
               last  == <<Produced(e)>>
    <3>1. first \in Seq(Packet) /\ next \in Seq(Packet) /\ last \in Seq(Packet)
      BY <1>2, <1>3, <2>1
    <3> HIDE DEF first, next, last
    <3>2. (first \o next) \o last = first \o (next \o last)
      BY <3>1, ConcatAssociative, SMTT(30)
    <3> QED
      BY <3>2 DEF t, first, next, last
  <2> QED
    BY <1>7, <2>1, <2>2 DEF Flow
<1> QED
  BY <1>1, <1>4, <1>5, <1>6, <1>7, <1>8, NoElements DEF LinkTyped, Waiting, Coming

LEMMA ArrivedTyped ==
  ASSUME LinkTyped, NEW e \in End, NEW a \in Pipe!Arrived(e)
  PROVE  /\ a \in Seq(Packet) /\ a \in Beginnings(pipe[e])
         /\ Elements(a) \subseteq Coming(e)
         /\ todo[e] \o a \in Beginnings(Flow(e))
         /\ ~open[e] => a = <<>>
<1>1. pipe[e] \in Seq(Packet) /\ Len(pipe[e]) \in Nat /\ open[e] \in BOOLEAN
  BY LenProperties DEF LinkTyped
<1>2. PICK n \in 0 .. (IF open[e] THEN Len(pipe[e]) ELSE 0) : a = SubSeq(pipe[e], 1, n)
  BY DEF Pipe!Arrived
<1>3. n \in 0 .. Len(pipe[e])
  BY <1>1, <1>2
<1>4. a \in Beginnings(pipe[e])
  BY <1>2, <1>3 DEF Beginnings
<1>5. todo[e] \in Seq(Packet)
  BY DEF LinkTyped
<1>6. /\ a \in Seq(Packet) /\ Elements(a) \subseteq Elements(pipe[e])
      /\ todo[e] \o a \in Beginnings(todo[e] \o pipe[e])
  BY <1>1, <1>4, <1>5, BeginningOf
<1>7. ~open[e] => a = <<>>
  BY <1>2, SubSeqEmpty
<1> QED
  BY <1>4, <1>6, <1>7 DEF Coming, Flow

\* A link that fails, or an end that restarts, only loses packets.
LEMMA LoseMoves ==
  ASSUME LinkTyped, Lose
  PROVE  /\ LinkTyped' /\ linked /\ ~linked' /\ UNCHANGED <<open, todo>>
         /\ \A e \in End : Coming(e)' \subseteq Coming(e) /\ Flow(e)' \in Beginnings(Flow(e))
         /\ \A e \in End : ~open[e] => pipe'[e] = <<>>
<1>1. PICK a \in Pipe!Arrived("ap"), b \in Pipe!Arrived("node") :
        pipe' = [e \in End |-> IF e = "ap" THEN a ELSE b]
  BY DEF Lose, Pipe!Lose, End
<1>2. linked /\ linked' = FALSE /\ UNCHANGED <<open, todo>>
  BY DEF Lose, Pipe!Lose, UnchangedByLink
<1>3. pipe'["ap"] = a /\ pipe'["node"] = b
  BY <1>1, Ends
<1>4. /\ a \in Seq(Packet) /\ todo["ap"] \o a \in Beginnings(Flow("ap"))
      /\ Elements(a) \subseteq Coming("ap") /\ (~open["ap"] => a = <<>>)
  BY ArrivedTyped, Ends
<1>5. /\ b \in Seq(Packet) /\ todo["node"] \o b \in Beginnings(Flow("node"))
      /\ Elements(b) \subseteq Coming("node") /\ (~open["node"] => b = <<>>)
  BY ArrivedTyped, Ends
<1> QED
  BY <1>1, <1>2, <1>3, <1>4, <1>5, Ends DEF LinkTyped, Coming, Flow

LEMMA RebootMoves ==
  ASSUME LinkTyped, NEW e \in End, Reboot(e)
  PROVE  /\ LinkTyped' /\ ~linked' /\ open' = [open EXCEPT ![e] = FALSE]
         /\ todo'[e] = <<>> /\ pipe'[e] = <<>> /\ UNCHANGED todo[Peer(e)]
         /\ Coming(Peer(e))' \subseteq Coming(Peer(e))
         /\ Flow(Peer(e))' \in Beginnings(Flow(Peer(e)))
         /\ ~open[Peer(e)] => pipe'[Peer(e)] = <<>>
<1>1. PICK a \in Pipe!Arrived(Peer(e)) : pipe' = [f \in End |-> IF f = e THEN <<>> ELSE a]
  BY DEF Reboot, Pipe!Reboot, End, Peer
<1>2. /\ linked' = FALSE /\ open' = [open EXCEPT ![e] = FALSE]
      /\ todo' = [todo EXCEPT ![e] = <<>>]
  BY DEF Reboot, Pipe!Reboot
<1>3. /\ a \in Seq(Packet) /\ todo[Peer(e)] \o a \in Beginnings(Flow(Peer(e)))
      /\ Elements(a) \subseteq Coming(Peer(e)) /\ (~open[Peer(e)] => a = <<>>)
  BY ArrivedTyped, Ends
<1>4. <<>> \in Seq(Packet)
  OBVIOUS
<1>5. pipe'[e] = <<>> /\ pipe'[Peer(e)] = a /\ pipe' \in [End -> Seq(Packet)]
  BY <1>1, <1>3, <1>4, Ends
<1>6. todo'[e] = <<>> /\ todo'[Peer(e)] = todo[Peer(e)] /\ todo' \in [End -> Seq(Packet)]
  BY <1>2, <1>4, Ends DEF LinkTyped
<1> QED
  BY <1>2, <1>3, <1>5, <1>6 DEF LinkTyped, Coming, Flow

LEMMA DisconnectMoves ==
  ASSUME LinkTyped, NEW e \in End, todo[e] = <<>>, Pipe!Leave(e), UNCHANGED todo
  PROVE  /\ LinkTyped' /\ UNCHANGED linked /\ ~linked
         /\ open' = [open EXCEPT ![e] = FALSE]
         /\ pipe'[e] = <<>> /\ UNCHANGED pipe[Peer(e)]
<1>1. /\ ~linked /\ UNCHANGED linked /\ open' = [open EXCEPT ![e] = FALSE]
      /\ pipe' = [pipe EXCEPT ![e] = <<>>]
  BY DEF Pipe!Leave
<1>2. <<>> \in Seq(Packet)
  OBVIOUS
<1>3. pipe'[e] = <<>> /\ pipe'[Peer(e)] = pipe[Peer(e)] /\ pipe' \in [End -> Seq(Packet)]
  BY <1>1, <1>2, Ends DEF LinkTyped
<1> QED
  BY <1>1, <1>3 DEF LinkTyped

LEMMA ConnectMoves ==
  ASSUME LinkTyped, Connect
  PROVE  /\ LinkTyped' /\ UNCHANGED <<pipe, todo>> /\ linked'
         /\ \A e \in End : open[e] => open'[e]
         /\ ~linked => open'["node"] /\ \A e \in End : ~open[e]
<1>1. CASE Pipe!Open
  <2>1. /\ ~linked /\ (\A e \in End : ~open[e]) /\ linked' = TRUE
        /\ open' = [open EXCEPT !["node"] = TRUE] /\ UNCHANGED <<pipe, todo>>
    BY <1>1 DEF Connect, Pipe!Open, End, UnchangedByLink
  <2> QED
    BY <2>1, Ends DEF LinkTyped
<1>2. CASE Pipe!Join
  <2>1. /\ linked /\ UNCHANGED linked
        /\ open' = [open EXCEPT !["ap"] = TRUE] /\ UNCHANGED <<pipe, todo>>
    BY <1>2 DEF Connect, Pipe!Join, UnchangedByLink
  <2> QED
    BY <2>1, Ends DEF LinkTyped
<1> QED
  BY <1>1, <1>2 DEF Connect

-----------------------------------------------------------------------------
(* Types *)

ApType ==
  [request : Task, response : Task, sb_response : Buffer,
   ack_req_id : 0 .. MAX_ID, rcv_res_id : 0 .. MAX_ID,
   last_id : 0 .. MAX_ID, reset_screen : BOOLEAN]
NodeType ==
  [sb_request : Buffer, request : Task, response : Task,
   rcv_req_id : 0 .. MAX_ID, ack_res_id : 0 .. MAX_ID]

LEMMA IsTyped ==
  TypeOK <=> /\ LinkTyped
             /\ boots \in 1 .. MAX_BOOTS
             /\ comm_state \in [End -> CommState]
             /\ ap \in ApType /\ node \in NodeType
             /\ received \in BOOLEAN /\ newest \in Task
             /\ ahead \in End \cup {"none"} /\ overtaken \in BOOLEAN
BY DEF TypeOK, LinkTyped, ApType, NodeType

LEMMA Constants ==
  /\ MAX_ID \in Nat /\ MAX_ID >= 1 /\ MAX_BOOTS \in Nat /\ MAX_BOOTS >= 1
  /\ 0 \in 0 .. MAX_ID /\ NoTask \in Task
  /\ NoTask.id = 0 /\ NoTask.boot = 0 /\ NoTask.nav = TRUE
  /\ Cleared \in Buffer /\ Cleared.task = NoTask /\ Cleared.new = FALSE
  /\ \A t \in Task : Written(t) \in Buffer /\ Written(t).task = t /\ Written(t).new = TRUE
<1>1. MAX_ID \in Nat /\ MAX_ID >= 1 /\ MAX_BOOTS \in Nat /\ MAX_BOOTS >= 1
  BY MaxIdAssumption, MaxBootsAssumption
<1>2. 0 \in 0 .. MAX_ID /\ 0 \in 0 .. MAX_BOOTS
  BY <1>1
<1>3. NoTask \in Task
  BY <1>2 DEF NoTask, Task
<1>4. NoTask.id = 0 /\ NoTask.boot = 0 /\ NoTask.nav = TRUE
  BY DEF NoTask
<1>5. Cleared \in Buffer /\ Cleared.task = NoTask /\ Cleared.new = FALSE
  BY <1>3 DEF Cleared, Buffer
<1>6. \A t \in Task : Written(t) \in Buffer /\ Written(t).task = t /\ Written(t).new = TRUE
  BY DEF Written, Buffer
<1> QED
  BY <1>1, <1>2, <1>3, <1>4, <1>5, <1>6

LEMMA TaskTyped ==
  ASSUME NEW t \in Task
  PROVE  /\ t.id \in 0 .. MAX_ID /\ t.boot \in 0 .. MAX_BOOTS /\ t.nav \in BOOLEAN
         /\ t.id \in Nat /\ t.boot \in Nat
BY Constants DEF Task

LEMMA PacketTyped ==
  ASSUME NEW p \in Packet
  PROVE  /\ p.cs \in Report /\ p.ack \in 0 .. MAX_ID
         /\ p.task = {} \/ \E t \in Task : p.task = {t}
         /\ \A t \in p.task : t \in Task
BY DEF Packet

LEMMA TheTask ==
  ASSUME NEW t
  PROVE  (CHOOSE u \in {t} : TRUE) = t
OBVIOUS

\* What a packet changes at the AP.
LEMMA ApTakesEffect ==
  ASSUME ap \in ApType, NEW p \in Packet, ApTakes(p)
  PROVE  /\ UNCHANGED <<node, received>> /\ ap' \in ApType
         /\ ap'.request = ap.request /\ ap'.response = ap.response
         /\ ap'.last_id = ap.last_id /\ ap'.reset_screen = ap.reset_screen
         /\ ap'.ack_req_id = p.ack
         /\ \/ p.task = {} /\ ap'.sb_response = ap.sb_response
            \/ \E t \in Task : p.task = {t} /\ ap'.sb_response = Written(t)
<1>1. p.ack \in 0 .. MAX_ID
  BY PacketTyped
<1>2. CASE p.task = {}
  <2>1. ap' = [ap EXCEPT !.ack_req_id = p.ack, !.rcv_res_id = ap.rcv_res_id,
                         !.sb_response = ap.sb_response]
    BY <1>2 DEF ApTakes
  <2> QED
    BY <1>1, <1>2, <2>1 DEF ApTakes, ApType
<1>3. ASSUME NEW t \in Task, p.task = {t}
      PROVE  /\ ap' \in ApType
             /\ ap' = [ap EXCEPT !.ack_req_id = p.ack, !.rcv_res_id = t.id,
                                 !.sb_response = Written(t)]
  <2>1. ap' = [ap EXCEPT !.ack_req_id = p.ack, !.rcv_res_id = t.id,
                         !.sb_response = Written(t)]
    BY <1>3, TheTask DEF ApTakes
  <2>2. t.id \in 0 .. MAX_ID /\ Written(t) \in Buffer
    BY TaskTyped, Constants
  <2> QED
    BY <1>1, <2>1, <2>2 DEF ApType
<1>4. CASE \E t \in Task : p.task = {t}
  <2>1. PICK t \in Task : p.task = {t}
    BY <1>4
  <2>2. /\ ap' \in ApType
        /\ ap' = [ap EXCEPT !.ack_req_id = p.ack, !.rcv_res_id = t.id,
                            !.sb_response = Written(t)]
    BY <1>3, <2>1
  <2> QED
    BY <2>1, <2>2 DEF ApTakes, ApType
<1> QED
  BY <1>2, <1>4, PacketTyped

\* And at the node.
LEMMA NodeTakesEffect ==
  ASSUME node \in NodeType, NEW p \in Packet, NodeTakes(p)
  PROVE  /\ UNCHANGED ap /\ received' = (received \/ ap.request \in p.task)
         /\ node' \in NodeType
         /\ node'.request = node.request /\ node'.response = node.response
         /\ \/ /\ p.task = {} /\ node'.sb_request = node.sb_request
               /\ node'.rcv_req_id = node.rcv_req_id
            \/ \E t \in Task : /\ p.task = {t} /\ node'.sb_request = Written(t)
                               /\ node'.rcv_req_id = t.id
<1>1. p.ack \in 0 .. MAX_ID
  BY PacketTyped
<1>2. CASE p.task = {}
  <2>1. node' = [node EXCEPT !.ack_res_id = p.ack, !.rcv_req_id = node.rcv_req_id,
                             !.sb_request = node.sb_request]
    BY <1>2 DEF NodeTakes
  <2> QED
    BY <1>1, <1>2, <2>1 DEF NodeTakes, NodeType
<1>3. ASSUME NEW t \in Task, p.task = {t}
      PROVE  /\ node' \in NodeType
             /\ node' = [node EXCEPT !.ack_res_id = p.ack, !.rcv_req_id = t.id,
                                     !.sb_request = Written(t)]
  <2>1. node' = [node EXCEPT !.ack_res_id = p.ack, !.rcv_req_id = t.id,
                             !.sb_request = Written(t)]
    BY <1>3, TheTask DEF NodeTakes
  <2>2. t.id \in 0 .. MAX_ID /\ Written(t) \in Buffer
    BY TaskTyped, Constants
  <2> QED
    BY <1>1, <2>1, <2>2 DEF NodeType
<1>4. CASE \E t \in Task : p.task = {t}
  <2>1. PICK t \in Task : p.task = {t}
    BY <1>4
  <2>2. /\ node' \in NodeType
        /\ node' = [node EXCEPT !.ack_res_id = p.ack, !.rcv_req_id = t.id,
                                !.sb_request = Written(t)]
    BY <1>3, <2>1
  <2> QED
    BY <2>1, <2>2 DEF NodeTakes, NodeType
<1> QED
  BY <1>2, <1>4, PacketTyped

LEMMA ProducedTyped ==
  ASSUME TypeOK, NEW e \in End
  PROVE  /\ Produced(e) \in Packet
         /\ comm_state[e] # "data" => /\ Produced(e).cs = Reported(comm_state[e])
                                      /\ Produced(e).task = {}
                                      /\ Produced(e).ack = 0
         /\ comm_state[e] = "data" =>
              /\ Produced(e).cs = "data"
              /\ e = "ap"   => \A t \in Produced(e).task : t = ap.request
              /\ e = "node" => /\ \A t \in Produced(e).task : t = node.response
                               /\ Produced(e).ack = node.rcv_req_id
<1>1. comm_state[e] \in CommState /\ ap \in ApType /\ node \in NodeType
  BY IsTyped
<1>2. /\ ap.request \in Task /\ node.response \in Task
      /\ ap.rcv_res_id \in 0 .. MAX_ID /\ node.rcv_req_id \in 0 .. MAX_ID
  BY <1>1 DEF ApType, NodeType
<1>3. \A t \in Task, n \in 0 .. MAX_ID :
        /\ Unacknowledged(t, n) \in {{}} \cup {{u} : u \in Task}
        /\ \A u \in Unacknowledged(t, n) : u = t
  BY DEF Unacknowledged
<1>4. CASE comm_state[e] # "data"
  <2>1. Produced(e) = [cs |-> Reported(comm_state[e]), task |-> {}, ack |-> 0]
    BY <1>4 DEF Produced
  <2>2. Reported(comm_state[e]) \in Report
    BY <1>1, <1>4 DEF CommState, Reported, Report
  <2>3. {} \in {{}} \cup {{u} : u \in Task} /\ 0 \in 0 .. MAX_ID
    BY Constants
  <2> QED
    BY <1>4, <2>1, <2>2, <2>3 DEF Packet
<1>5. CASE comm_state[e] = "data" /\ e = "ap"
  <2>1. Produced(e) = [cs |-> "data", task |-> Unacknowledged(ap.request, ap.ack_req_id),
                       ack |-> ap.rcv_res_id]
    BY <1>5 DEF Produced
  <2>2. ap.ack_req_id \in 0 .. MAX_ID /\ "data" \in Report
    BY <1>1 DEF ApType, Report
  <2>3. /\ Unacknowledged(ap.request, ap.ack_req_id) \in {{}} \cup {{u} : u \in Task}
        /\ \A u \in Unacknowledged(ap.request, ap.ack_req_id) : u = ap.request
    BY <1>2, <1>3, <2>2
  <2> QED
    BY <1>2, <1>5, <2>1, <2>2, <2>3 DEF Packet
<1>6. CASE comm_state[e] = "data" /\ e # "ap"
  <2>1. Produced(e) = [cs |-> "data", task |-> Unacknowledged(node.response, node.ack_res_id),
                       ack |-> node.rcv_req_id]
    BY <1>6 DEF Produced
  <2>2. node.ack_res_id \in 0 .. MAX_ID /\ "data" \in Report
    BY <1>1 DEF NodeType, Report
  <2>3. /\ Unacknowledged(node.response, node.ack_res_id) \in {{}} \cup {{u} : u \in Task}
        /\ \A u \in Unacknowledged(node.response, node.ack_res_id) : u = node.response
    BY <1>2, <1>3, <2>2
  <2> QED
    BY <1>2, <1>6, <2>1, <2>2, <2>3 DEF Packet
<1> QED
  BY <1>4, <1>5, <1>6

\* The state of an end after a packet.
NextState(e, p) ==
  IF p.cs = Nothing THEN comm_state[e] ELSE update_comm_state(comm_state[e], p.cs)

LEMMA ConsumeEffect ==
  ASSUME NEW e \in End, Consume(e)
  PROVE  /\ comm_state' = [comm_state EXCEPT ![e] = NextState(e, Head(todo[e]))]
         /\ UNCHANGED <<boots, newest, overtaken>>
         /\ \/ UNCHANGED <<ap, node, received>>
            \/ /\ NextState(e, Head(todo[e])) = "data" /\ Head(todo[e]).cs = "data"
               /\ \/ e = "ap" /\ ApTakes(Head(todo[e]))
                  \/ e = "node" /\ NodeTakes(Head(todo[e]))
<1> DEFINE p == Head(todo[e])
<1>1. /\ comm_state' = [comm_state EXCEPT ![e] = NextState(e, p)]
      /\ IF NextState(e, p) = "data" /\ p.cs = "data"
         THEN IF e = "ap" THEN ApTakes(p) ELSE NodeTakes(p)
         ELSE UNCHANGED <<ap, node, received>>
      /\ UNCHANGED <<boots, newest, overtaken>>
  BY Zenon DEF Consume, NextState
<1>2. e = "ap" \/ e = "node"
  BY Ends
<1> HIDE DEF p
<1> QED
  BY <1>1, <1>2 DEF p

LEMMA StateTyped ==
  ASSUME TypeOK, NEW e \in End, NEW p \in Packet
  PROVE  NextState(e, p) \in CommState
<1>1. comm_state[e] \in CommState /\ p.cs \in Report
  BY PacketTyped DEF TypeOK
<1> QED
  BY <1>1 DEF NextState, update_comm_state, CommState

\* The link's turn and the history of its polls.
TurnKept ==
  ahead' \in End \cup {"none"} /\ overtaken' \in BOOLEAN /\ (overtaken => overtaken')

LEMMA TurnTyped ==
  ASSUME TypeOK, [Next]_vars
  PROVE  TurnKept
<1> USE DEF TurnKept
<1>0. ahead \in End \cup {"none"} /\ overtaken \in BOOLEAN
  BY IsTyped
<1>1. ASSUME UNCHANGED <<ahead, overtaken>>
      PROVE  TurnKept
  BY <1>0, <1>1
<1>2. ASSUME NEW e \in End, TakePackets(e)
      PROVE  TurnKept
  BY <1>0, <1>2 DEF TakePackets, Pipe!Poll
<1>3. ASSUME NEW e \in End, Consume(e)
      PROVE  TurnKept
  BY <1>1, <1>3 DEF Consume, pipeVars
<1>4. ASSUME NEW e \in End, SendPacket(e)
      PROVE  TurnKept
  BY <1>0, <1>4 DEF SendPacket, Pipe!Poll
<1>5. CASE ApValidate \/ ReadResponse \/ NavEvent \/ EditEvent
           \/ NodeValidate \/ ReadRequest \/ Work \/ UNCHANGED vars
  BY <1>1, <1>5 DEF ApValidate, ReadResponse, NavEvent, EditEvent, NewRequest, NodeValidate,
     ReadRequest, Work, UnchangedByCore1, vars, pipeVars
<1>6. CASE Connect \/ Lose \/ Disconnect
  BY <1>0, <1>6 DEF Connect, Lose, Disconnect, UnchangedByLink, Pipe!Open, Pipe!Join,
     Pipe!Lose, Pipe!Leave
<1>7. ASSUME NEW e \in End, Reboot(e)
      PROVE  TurnKept
  BY <1>0, <1>7 DEF Reboot, Pipe!Reboot
<1> QED
  BY <1>2, <1>3, <1>4, <1>5, <1>6, <1>7 DEF Next, Core0

LEMMA TypeStep ==
  ASSUME TypeOK, [Next]_vars
  PROVE  TypeOK'
<1> USE Constants
<1>1. /\ LinkTyped /\ boots \in 1 .. MAX_BOOTS
      /\ comm_state \in [End -> CommState] /\ ap \in ApType /\ node \in NodeType
      /\ received \in BOOLEAN /\ newest \in Task
  BY IsTyped
<1>2. ASSUME /\ LinkTyped' /\ boots' \in 1 .. MAX_BOOTS
             /\ comm_state' \in [End -> CommState] /\ ap' \in ApType /\ node' \in NodeType
             /\ received' \in BOOLEAN /\ newest' \in Task
      PROVE  TypeOK'
  BY <1>2, TurnTyped DEF TurnKept, TypeOK, LinkTyped, ApType, NodeType
<1>3. "init" \in CommState
  BY DEF CommState
<1>4. ASSUME NEW e \in End, TakePackets(e)
      PROVE  TypeOK'
  <2>1. LinkTyped'
    BY <1>1, <1>4, TakeMoves
  <2> QED
    BY <1>1, <1>2, <1>4, <2>1 DEF TakePackets
<1>5. ASSUME NEW e \in End, Consume(e)
      PROVE  TypeOK'
  <2> DEFINE p == Head(todo[e])
  <2>1. LinkTyped' /\ p \in Packet
    BY <1>1, <1>5, ConsumeMoves
  <2>2. /\ comm_state' = [comm_state EXCEPT ![e] = NextState(e, p)]
        /\ UNCHANGED <<boots, newest, overtaken>>
        /\ \/ UNCHANGED <<ap, node, received>>
           \/ e = "ap" /\ ApTakes(p)
           \/ e = "node" /\ NodeTakes(p)
    BY <1>5, ConsumeEffect
  <2> HIDE DEF p
  <2>3. comm_state' \in [End -> CommState]
    BY <1>1, <2>1, <2>2, StateTyped
  <2>4. ap' \in ApType /\ node' \in NodeType /\ received' \in BOOLEAN
    <3>1. CASE UNCHANGED <<ap, node, received>>
      BY <1>1, <3>1
    <3>2. CASE ApTakes(p)
      BY <1>1, <2>1, <3>2, ApTakesEffect
    <3>3. CASE NodeTakes(p)
      <4>1. UNCHANGED ap /\ received' = (received \/ ap.request \in p.task) /\ node' \in NodeType
        BY <1>1, <2>1, <3>3, NodeTakesEffect
      <4> QED
        BY <1>1, <4>1
    <3> QED
      BY <2>2, <3>1, <3>2, <3>3
  <2> QED
    BY <1>1, <1>2, <2>1, <2>2, <2>3, <2>4
<1>6. ASSUME NEW e \in End, SendPacket(e)
      PROVE  TypeOK'
  <2>1. Produced(e) \in Packet
    BY ProducedTyped
  <2>2. LinkTyped'
    BY <1>1, <1>6, <2>1, SendMoves
  <2> QED
    BY <1>1, <1>2, <1>6, <2>2 DEF SendPacket
<1>7. UnchangedByCore1 => LinkTyped' /\ boots' \in 1 .. MAX_BOOTS
  BY <1>1 DEF UnchangedByCore1, pipeVars, LinkTyped
<1>8. CASE ApValidate
  <2>1. ap' \in ApType
    BY <1>1, <1>8 DEF ApValidate, ApCleared, ApType
  <2>2. comm_state' \in [End -> CommState]
    BY <1>1, <1>3, <1>8 DEF ApValidate
  <2> QED
    BY <1>1, <1>2, <1>7, <1>8, <2>1, <2>2 DEF ApValidate
<1>9. CASE ReadResponse
  <2>1. ap.sb_response.task \in Task /\ [ap.sb_response EXCEPT !.new = FALSE] \in Buffer
    BY <1>1 DEF ApType, Buffer
  <2>2. ap' = [ap EXCEPT !.response = ap.sb_response.task,
                         !.sb_response = [ap.sb_response EXCEPT !.new = FALSE]]
    BY <1>1, <1>9 DEF ReadResponse, ApType
  <2>3. ap' \in ApType
    BY <1>1, <2>1, <2>2 DEF ApType
  <2> QED
    BY <1>1, <1>2, <1>7, <1>9, <2>3 DEF ReadResponse
<1>10. ASSUME NEW nav \in BOOLEAN, NewRequest(nav)
       PROVE  TypeOK'
  <2>1. ap.last_id + 1 \in 0 .. MAX_ID /\ boots \in 0 .. MAX_BOOTS
    BY <1>1, <1>10, Ends DEF NewRequest, ApType
  <2>2. [id |-> ap.last_id + 1, boot |-> boots, nav |-> nav] \in Task
    BY <2>1 DEF Task
  <2>3. ap' \in ApType
    BY <1>1, <1>10, <2>1, <2>2 DEF NewRequest, ApType
  <2> QED
    BY <1>1, <1>2, <1>7, <1>10, <2>3 DEF NewRequest
<1>11. CASE NodeValidate
  <2>1. node' \in NodeType
    BY <1>1, <1>11 DEF NodeValidate, NodeType
  <2>2. comm_state' \in [End -> CommState]
    BY <1>1, <1>3, <1>11 DEF NodeValidate
  <2> QED
    BY <1>1, <1>2, <1>7, <1>11, <2>1, <2>2 DEF NodeValidate
<1>12. CASE ReadRequest
  <2>1. node.sb_request.task \in Task /\ [node.sb_request EXCEPT !.new = FALSE] \in Buffer
    BY <1>1 DEF NodeType, Buffer
  <2>2. node' = [node EXCEPT !.request = node.sb_request.task,
                             !.sb_request = [node.sb_request EXCEPT !.new = FALSE]]
    BY <1>1, <1>12 DEF ReadRequest, NodeType
  <2>3. node' \in NodeType
    BY <1>1, <2>1, <2>2 DEF NodeType
  <2> QED
    BY <1>1, <1>2, <1>7, <1>12, <2>3 DEF ReadRequest
<1>13. CASE Work
  <2>1. node' \in NodeType /\ newest' \in Task
    BY <1>1, <1>13 DEF Work, NodeType
  <2> QED
    BY <1>1, <1>2, <1>7, <1>13, <2>1 DEF Work
<1>14. CASE Connect \/ Lose
  <2>1. LinkTyped'
    BY <1>1, <1>14, ConnectMoves, LoseMoves
  <2> QED
    BY <1>1, <1>2, <1>14, <2>1 DEF Connect, Lose, UnchangedByLink
<1>15. CASE Disconnect
  <2>1. PICK e \in End : todo[e] = <<>> /\ Pipe!Leave(e)
    BY <1>15 DEF Disconnect
  <2>2. LinkTyped'
    BY <1>1, <1>15, <2>1, DisconnectMoves DEF Disconnect, UnchangedByLink
  <2> QED
    BY <1>1, <1>2, <1>15, <2>2 DEF Disconnect, UnchangedByLink
<1>16. ASSUME NEW e \in End, Reboot(e)
       PROVE  TypeOK'
  <2>1. LinkTyped'
    BY <1>1, <1>16, RebootMoves
  <2>2. ApStarted \in ApType /\ NodeStarted \in NodeType
    BY DEF ApStarted, NodeStarted, ApType, NodeType
  <2>3. boots' \in 1 .. MAX_BOOTS
    <3>1. UNCHANGED boots \/ (boots < MAX_BOOTS /\ boots' = boots + 1)
      BY <1>1, <1>16 DEF Reboot
    <3> QED
      BY <1>1, <3>1
  <2>4. /\ ap' \in ApType /\ node' \in NodeType /\ received' \in BOOLEAN /\ newest' \in Task
        /\ comm_state' \in [End -> CommState]
    BY <1>1, <1>3, <1>16, <2>2 DEF Reboot
  <2> QED
    BY <1>2, <2>1, <2>3, <2>4
<1>17. CASE UNCHANGED vars
  BY <1>17 DEF vars, pipeVars, TypeOK
<1>18. CASE \E e \in End : Core0(e)
  BY <1>4, <1>5, <1>6, <1>18 DEF Core0
<1>19. CASE NavEvent \/ EditEvent
  BY <1>10, <1>19 DEF NavEvent, EditEvent
<1> QED
  BY <1>8, <1>9, <1>11, <1>12, <1>13, <1>14, <1>15, <1>16, <1>17, <1>18, <1>19 DEF Next

\* Ids, boots and buffers stay in their ranges.
THEOREM TypeCorrect == Spec => []TypeOK
<1>1. ASSUME Init
      PROVE  TypeOK
  <2>1. /\ linked = FALSE /\ open = [e \in End |-> FALSE] /\ pipe = [e \in End |-> <<>>]
        /\ todo = [e \in End |-> <<>>] /\ boots = 1
        /\ comm_state = [e \in End |-> "init"] /\ ap = ApStarted /\ node = NodeStarted
        /\ received = FALSE /\ newest = NoTask /\ ahead = "none" /\ overtaken = FALSE
    BY <1>1 DEF Init, Pipe!Init, End
  <2>2. ApStarted \in ApType /\ NodeStarted \in NodeType
    BY Constants DEF ApStarted, NodeStarted, ApType, NodeType
  <2>3. <<>> \in Seq(Packet) /\ 1 \in 1 .. MAX_BOOTS /\ "init" \in CommState
    BY Constants DEF CommState
  <2> QED
    BY <2>1, <2>2, <2>3, Constants DEF TypeOK, ApType, NodeType
<1>2. TypeOK /\ [Next]_vars => TypeOK'
  BY TypeStep
<1> QED
  BY <1>1, <1>2, PTL DEF Spec

-----------------------------------------------------------------------------
(* The packets travel by the steps of the pipe only *)

PipeStep == [Pipe!Next]_(Pipe!vars)

LEMMA PollIsStep ==
  ASSUME NEW e \in End, NEW n \in 0 .. Len(pipe[e]),
         NEW sent \in {<<>>} \cup {<<p>> : p \in Packet}, Pipe!Poll(e, n, sent)
  PROVE  PipeStep
<1>1. \E m \in 0 .. Len(pipe[e]) : \E s \in {<<>>} \cup {<<p>> : p \in Packet} :
        Pipe!Poll(e, m, s)
  OBVIOUS
<1> QED
  BY <1>1 DEF PipeStep, Pipe!Next, End

LEMMA PipeMoves ==
  ASSUME TypeOK, [Next]_vars
  PROVE  PipeStep
<1>1. ASSUME UNCHANGED pipeVars
      PROVE  PipeStep
  BY <1>1 DEF PipeStep, Pipe!vars, pipeVars
<1>2. ASSUME NEW e \in End, TakePackets(e)
      PROVE  PipeStep
  <2>1. PICK n \in 1 .. Len(pipe[e]) : Pipe!Poll(e, n, <<>>)
    BY <1>2 DEF TakePackets
  <2>2. n \in 0 .. Len(pipe[e])
    BY <2>1
  <2> QED
    BY <2>1, <2>2, PollIsStep
<1>3. ASSUME NEW e \in End, Consume(e)
      PROVE  PipeStep
  BY <1>1, <1>3 DEF Consume
<1>4. ASSUME NEW e \in End, SendPacket(e)
      PROVE  PipeStep
  <2>1. Pipe!Poll(e, 0, <<Produced(e)>>)
    BY <1>4 DEF SendPacket
  <2>2. <<Produced(e)>> \in {<<p>> : p \in Packet}
    BY ProducedTyped
  <2>3. 0 \in 0 .. Len(pipe[e])
    BY LenProperties DEF TypeOK
  <2> QED
    BY <2>1, <2>2, <2>3, PollIsStep
<1>5. CASE ApValidate \/ ReadResponse \/ NavEvent \/ EditEvent
           \/ NodeValidate \/ ReadRequest \/ Work \/ UNCHANGED vars
  BY <1>1, <1>5 DEF ApValidate, ReadResponse, NavEvent, EditEvent, NewRequest, NodeValidate,
     ReadRequest, Work, UnchangedByCore1, vars
<1>6. CASE Connect \/ Lose
  BY <1>6 DEF Connect, Lose, PipeStep, Pipe!Next
<1>7. CASE Disconnect
  BY <1>7 DEF Disconnect, PipeStep, Pipe!Next, End
<1>8. ASSUME NEW e \in End, Reboot(e)
      PROVE  PipeStep
  BY <1>8 DEF Reboot, PipeStep, Pipe!Next, End
<1> QED
  BY <1>2, <1>3, <1>4, <1>5, <1>6, <1>7, <1>8 DEF Next, Core0

\* The task flow asks of the link only what PacketPipe gives, which the packet exchange
\* implements: every step is a step of the pipe, or leaves it alone.
THEOREM UsesPipe == Spec => Pipe!Spec
<1>1. Init => Pipe!Init
  BY DEF Init
<1>2. TypeOK /\ [Next]_vars => [Pipe!Next]_(Pipe!vars)
  BY PipeMoves DEF PipeStep
<1> QED
  BY <1>1, <1>2, TypeCorrect, PTL DEF Spec, Pipe!Spec

-----------------------------------------------------------------------------
(* The tasks under way *)

PacketsTo(e) == Waiting(e) \cup Coming(e)
Carried(e)   == UNION {p.task : p \in PacketsTo(e)}

\* A step adds at most the packet that the other end would send.
LEMMA PacketsMove ==
  ASSUME TypeOK, [Next]_vars, NEW e \in End
  PROVE  PacketsTo(e)' \subseteq PacketsTo(e) \cup {Produced(Peer(e))}
<1>0. LinkTyped
  BY IsTyped
<1>1. CASE UNCHANGED <<todo, pipe>>
  BY <1>1 DEF PacketsTo, Waiting, Coming
<1>2. ASSUME NEW f \in End, TakePackets(f)
      PROVE  PacketsTo(e)' \subseteq PacketsTo(e)
  <2>1. /\ Waiting(f)' \subseteq Coming(f) /\ Coming(f)' \subseteq Coming(f)
        /\ UNCHANGED <<todo[Peer(f)], pipe[Peer(f)]>>
    BY <1>0, <1>2, TakeMoves
  <2> QED
    BY <2>1, Ends DEF PacketsTo, Waiting, Coming
<1>3. ASSUME NEW f \in End, Consume(f)
      PROVE  PacketsTo(e)' \subseteq PacketsTo(e)
  <2>1. /\ Waiting(f)' \subseteq Waiting(f) /\ UNCHANGED pipe /\ UNCHANGED todo[Peer(f)]
    BY <1>0, <1>3, ConsumeMoves DEF pipeVars
  <2> QED
    BY <2>1, Ends DEF PacketsTo, Waiting, Coming
<1>4. ASSUME NEW f \in End, SendPacket(f)
      PROVE  PacketsTo(e)' \subseteq PacketsTo(e) \cup {Produced(Peer(e))}
  <2>1. /\ UNCHANGED todo /\ UNCHANGED pipe[f]
        /\ Coming(Peer(f))' = Coming(Peer(f)) \cup {Produced(f)} \/ UNCHANGED pipe[Peer(f)]
    BY <1>0, <1>4, ProducedTyped, SendMoves DEF LinkTyped
  <2> QED
    BY <2>1, Ends DEF PacketsTo, Waiting, Coming
<1>5. CASE Connect
  <2>1. UNCHANGED <<pipe, todo>>
    BY <1>0, <1>5, ConnectMoves
  <2> QED
    BY <1>1, <2>1
<1>6. CASE Lose
  <2>1. UNCHANGED todo /\ Coming(e)' \subseteq Coming(e)
    BY <1>0, <1>6, LoseMoves
  <2> QED
    BY <2>1 DEF PacketsTo, Waiting
<1>7. CASE Disconnect
  <2>1. PICK f \in End : todo[f] = <<>> /\ Pipe!Leave(f)
    BY <1>7 DEF Disconnect
  <2>2. UNCHANGED todo
    BY <1>7 DEF Disconnect, UnchangedByLink
  <2>3. pipe'[f] = <<>> /\ UNCHANGED pipe[Peer(f)]
    BY <1>0, <2>1, <2>2, DisconnectMoves
  <2> QED
    BY <2>2, <2>3, Ends, NoElements DEF PacketsTo, Waiting, Coming
<1>8. ASSUME NEW f \in End, Reboot(f)
      PROVE  PacketsTo(e)' \subseteq PacketsTo(e)
  <2>1. /\ todo'[f] = <<>> /\ pipe'[f] = <<>> /\ UNCHANGED todo[Peer(f)]
        /\ Coming(Peer(f))' \subseteq Coming(Peer(f))
    BY <1>0, <1>8, RebootMoves
  <2> QED
    BY <2>1, Ends, NoElements DEF PacketsTo, Waiting, Coming
<1>9. CASE ApValidate \/ ReadResponse \/ NavEvent \/ EditEvent
           \/ NodeValidate \/ ReadRequest \/ Work \/ UNCHANGED vars
  <2>1. UNCHANGED <<todo, pipe>>
    BY <1>9 DEF ApValidate, ReadResponse, NavEvent, EditEvent, NewRequest, NodeValidate,
         ReadRequest, Work, UnchangedByCore1, vars, pipeVars
  <2> QED
    BY <1>1, <2>1
<1> QED
  BY <1>2, <1>3, <1>4, <1>5, <1>6, <1>7, <1>8, <1>9 DEF Next, Core0

OnAp   == {ap.response, ap.sb_response.task}
OnNode == {node.sb_request.task, node.request, node.response}
Tasks  == OnAp \cup OnNode \cup Carried("ap") \cup Carried("node")

LEMMA TasksTyped ==
  ASSUME TypeOK
  PROVE  /\ \A t \in Tasks : t \in Task
         /\ \A e \in End : \A p \in PacketsTo(e) : p \in Packet
         /\ ap.request \in Task
<1>1. \A e \in End : \A p \in PacketsTo(e) : p \in Packet
  <2> TAKE e \in End
  <2>1. todo[e] \in Seq(Packet) /\ pipe[e] \in Seq(Packet)
    BY DEF TypeOK
  <2>2. Elements(todo[e]) \subseteq Packet /\ Elements(pipe[e]) \subseteq Packet
    BY <2>1, SomeElement
  <2> QED
    BY <2>2 DEF PacketsTo, Waiting, Coming
<1>2. \A t \in Carried("ap") \cup Carried("node") : t \in Task
  BY <1>1, PacketTyped, Ends DEF Carried
<1>3. ap \in ApType /\ node \in NodeType
  BY IsTyped
<1>4. \A t \in OnAp \cup OnNode \cup {ap.request} : t \in Task
  BY <1>3 DEF OnAp, OnNode, ApType, NodeType, Buffer
<1> QED
  BY <1>1, <1>2, <1>4 DEF Tasks

LEMMA CarriedMove ==
  ASSUME TypeOK, [Next]_vars
  PROVE  /\ Carried("node")' \subseteq Carried("node") \cup {ap.request}
         /\ Carried("ap")' \subseteq Carried("ap") \cup {node.response}
<1>1. /\ PacketsTo("node")' \subseteq PacketsTo("node") \cup {Produced("ap")}
      /\ PacketsTo("ap")' \subseteq PacketsTo("ap") \cup {Produced("node")}
  BY PacketsMove, Ends
<1>2. /\ \A t \in Produced("ap").task : t = ap.request
      /\ \A t \in Produced("node").task : t = node.response
  BY ProducedTyped, Ends
<1> QED
  BY <1>1, <1>2 DEF Carried

\* What the devices hold, they held before or have just taken from a packet.
LEMMA HeldMoves ==
  ASSUME TypeOK, [Next]_vars
  PROVE  /\ \A t \in OnAp' : \/ t \in OnAp \cup {NoTask}
                             \/ t \in Carried("ap") /\ comm_state["ap"] \in {"ready", "data"}
         /\ \A t \in OnNode' : \/ t \in OnNode \cup {NoTask}
                               \/ /\ Consume("node") /\ comm_state'["node"] = "data"
                                  /\ t \in Head(todo["node"]).task /\ t \in Carried("node")
<1> DEFINE
      ApHeld   == \A t \in OnAp' :
                    \/ t \in OnAp \cup {NoTask}
                    \/ t \in Carried("ap") /\ comm_state["ap"] \in {"ready", "data"}
      NodeHeld == \A t \in OnNode' :
                    \/ t \in OnNode \cup {NoTask}
                    \/ /\ Consume("node") /\ comm_state'["node"] = "data"
                       /\ t \in Head(todo["node"]).task /\ t \in Carried("node")
<1>0. ap \in ApType /\ node \in NodeType /\ LinkTyped /\ comm_state \in [End -> CommState]
  BY IsTyped
<1>1. UNCHANGED ap => ApHeld
  BY DEF OnAp
<1>2. UNCHANGED node => NodeHeld
  BY DEF OnNode
<1>3. ASSUME NEW e \in End, Consume(e)
      PROVE  ApHeld /\ NodeHeld
  <2> DEFINE p == Head(todo[e])
  <2>1. p \in Packet /\ p \in PacketsTo(e)
    BY <1>0, <1>3, ConsumeMoves DEF PacketsTo
  <2>2. \/ UNCHANGED <<ap, node>>
        \/ e = "ap" /\ ApTakes(p) /\ NextState(e, p) = "data"
        \/ e = "node" /\ NodeTakes(p) /\ comm_state'[e] = "data"
    BY <1>0, <1>3, ConsumeEffect
  <2> HIDE DEF p
  <2>3. \A t \in p.task : t \in Carried(e)
    BY <2>1 DEF Carried
  <2>4. CASE e = "ap" /\ ApTakes(p) /\ NextState(e, p) = "data"
    <3>1. comm_state["ap"] \in {"ready", "data"}
      BY <2>4 DEF NextState, update_comm_state
    <3>2. /\ UNCHANGED node /\ ap'.response = ap.response
          /\ \/ p.task = {} /\ ap'.sb_response = ap.sb_response
             \/ \E t \in Task : p.task = {t} /\ ap'.sb_response = Written(t)
      BY <1>0, <2>1, <2>4, ApTakesEffect
    <3>3. \/ ap'.sb_response.task = ap.sb_response.task
          \/ ap'.sb_response.task \in Carried("ap")
      BY <2>3, <2>4, <3>2, Constants
    <3> QED
      BY <1>2, <3>1, <3>2, <3>3 DEF OnAp
  <2>5. CASE e = "node" /\ NodeTakes(p) /\ comm_state'[e] = "data"
    <3>1. /\ UNCHANGED ap /\ node'.request = node.request /\ node'.response = node.response
          /\ \/ p.task = {} /\ node'.sb_request = node.sb_request
             \/ \E t \in Task : p.task = {t} /\ node'.sb_request = Written(t)
      BY <1>0, <2>1, <2>5, NodeTakesEffect
    <3>2. \/ node'.sb_request.task = node.sb_request.task
          \/ node'.sb_request.task \in p.task /\ node'.sb_request.task \in Carried("node")
      BY <2>3, <2>5, <3>1, Constants
    <3>3. Consume("node") /\ p = Head(todo["node"])
      BY <1>3, <2>5 DEF p
    <3> QED
      BY <1>1, <2>5, <3>1, <3>2, <3>3 DEF OnNode
  <2> QED
    BY <1>1, <1>2, <2>2, <2>4, <2>5
<1>4. CASE ApValidate
  <2>1. UNCHANGED node /\ ap'.response = NoTask /\ ap'.sb_response.task = NoTask
    BY <1>0, <1>4, Constants DEF ApValidate, ApCleared, ApType
  <2> QED
    BY <1>2, <2>1 DEF OnAp
<1>5. CASE ReadResponse
  <2>1. UNCHANGED node /\ ap'.response = ap.sb_response.task
        /\ ap'.sb_response.task = ap.sb_response.task
    BY <1>0, <1>5 DEF ReadResponse, ApType, Buffer
  <2> QED
    BY <1>2, <2>1 DEF OnAp
<1>6. CASE NavEvent \/ EditEvent
  <2>1. UNCHANGED node /\ ap'.response = ap.response /\ ap'.sb_response = ap.sb_response
    BY <1>0, <1>6 DEF NavEvent, EditEvent, NewRequest, ApType
  <2> QED
    BY <1>2, <2>1 DEF OnAp
<1>7. CASE NodeValidate
  <2>1. UNCHANGED ap /\ node'.request = NoTask /\ node'.response = NoTask
        /\ node'.sb_request.task = NoTask
    BY <1>0, <1>7, Constants DEF NodeValidate, NodeType
  <2> QED
    BY <1>1, <2>1 DEF OnNode
<1>8. CASE ReadRequest
  <2>1. UNCHANGED ap /\ node'.request = node.sb_request.task /\ node'.response = node.response
        /\ node'.sb_request.task = node.sb_request.task
    BY <1>0, <1>8 DEF ReadRequest, NodeType, Buffer
  <2> QED
    BY <1>1, <2>1 DEF OnNode
<1>9. CASE Work
  <2>1. UNCHANGED ap /\ node'.request = node.request /\ node'.response = node.request
        /\ node'.sb_request = node.sb_request
    BY <1>0, <1>9 DEF Work, NodeType
  <2> QED
    BY <1>1, <2>1 DEF OnNode
<1>10. ASSUME NEW e \in End, Reboot(e)
       PROVE  ApHeld /\ NodeHeld
  <2>1. \/ UNCHANGED node /\ ap' = ApStarted
        \/ UNCHANGED ap /\ node' = NodeStarted
    BY <1>10 DEF Reboot
  <2>2. /\ ApStarted.response = NoTask /\ ApStarted.sb_response.task = NoTask
        /\ NodeStarted.request = NoTask /\ NodeStarted.response = NoTask
        /\ NodeStarted.sb_request.task = NoTask
    BY Constants DEF ApStarted, NodeStarted
  <2> QED
    BY <1>1, <1>2, <2>1, <2>2 DEF OnAp, OnNode
<1>11. CASE \/ \E e \in End : TakePackets(e) \/ SendPacket(e)
            \/ Connect \/ Lose \/ Disconnect \/ UNCHANGED vars
  <2>1. UNCHANGED <<ap, node>>
    BY <1>11 DEF TakePackets, SendPacket, Connect, Lose, Disconnect, UnchangedByLink, vars
  <2> QED
    BY <1>1, <1>2, <2>1
<1> QED
  BY <1>3, <1>4, <1>5, <1>6, <1>7, <1>8, <1>9, <1>10, <1>11 DEF Next, Core0

\* Where a step puts a task, there was one before, but for the AP's own request.
LEMMA TasksMove ==
  ASSUME TypeOK, [Next]_vars
  PROVE  Tasks' \subseteq Tasks \cup {NoTask, ap.request}
BY CarriedMove, HeldMoves DEF Tasks, OnNode

-----------------------------------------------------------------------------
(* Every task under way is one of those the AP has issued *)

\* A task of an earlier boot, or of this one and not the request by another name.
Known(t) ==
  \/ t = NoTask
  \/ /\ t.id >= 1 /\ t.boot >= 1
     /\ \/ t.boot < boots
        \/ /\ t.boot = boots /\ t.id <= ap.last_id
           /\ t.id = ap.request.id => t = ap.request

RequestKnown ==
  \/ ap.request = NoTask
  \/ ap.request.id >= 1 /\ ap.request.id = ap.last_id /\ ap.request.boot = boots

KnownInv == RequestKnown /\ \A t \in Tasks : Known(t)

\* The steps that change the AP's request.
LEMMA RequestMoves ==
  ASSUME TypeOK, [Next]_vars
  PROVE  \/ UNCHANGED <<ap.request, ap.last_id, ap.reset_screen, boots>>
         \/ /\ ap'.request = NoTask /\ UNCHANGED <<ap.last_id, boots>>
            /\ ap'.reset_screen /\ ApValidate
         \/ /\ ap'.request = NoTask /\ ap'.last_id = 0 /\ boots' = boots + 1
            /\ ap'.reset_screen /\ Reboot("ap")
         \/ \E nav \in BOOLEAN :
              /\ ap'.request = [id |-> ap.last_id + 1, boot |-> boots, nav |-> nav]
              /\ ap'.last_id = ap.last_id + 1 /\ UNCHANGED boots
              /\ NewRequest(nav) /\ (nav \/ EditEvent)
<1>1. ap \in ApType /\ LinkTyped /\ boots \in 1 .. MAX_BOOTS
  BY IsTyped
<1>2. ASSUME NEW e \in End, Consume(e)
      PROVE  UNCHANGED <<ap.request, ap.last_id, ap.reset_screen, boots>>
  <2> DEFINE p == Head(todo[e])
  <2>1. p \in Packet
    BY <1>1, <1>2, ConsumeMoves
  <2>2. /\ UNCHANGED boots
        /\ UNCHANGED ap \/ ApTakes(p) \/ NodeTakes(p)
    BY <1>2, ConsumeEffect
  <2> HIDE DEF p
  <2>3. ApTakes(p) => /\ ap'.request = ap.request /\ ap'.last_id = ap.last_id
                      /\ ap'.reset_screen = ap.reset_screen
    BY <1>1, <2>1, ApTakesEffect
  <2>4. NodeTakes(p) => UNCHANGED ap
    BY DEF NodeTakes
  <2> QED
    BY <2>2, <2>3, <2>4
<1>3. CASE ApValidate
  <2>1. ap'.request = NoTask /\ ap'.last_id = ap.last_id /\ ap'.reset_screen /\ UNCHANGED boots
    BY <1>1, <1>3 DEF ApValidate, ApCleared, ApType, UnchangedByCore1
  <2> QED
    BY <1>3, <2>1
<1>4. CASE ReadResponse
  <2>1. /\ ap'.request = ap.request /\ ap'.last_id = ap.last_id
        /\ ap'.reset_screen = ap.reset_screen /\ UNCHANGED boots
    BY <1>1, <1>4 DEF ReadResponse, ApType, UnchangedByCore1
  <2> QED
    BY <2>1
<1>5. ASSUME NEW nav \in BOOLEAN, NewRequest(nav)
      PROVE  /\ ap'.request = [id |-> ap.last_id + 1, boot |-> boots, nav |-> nav]
             /\ ap'.last_id = ap.last_id + 1 /\ UNCHANGED boots
  BY <1>1, <1>5 DEF NewRequest, ApType, UnchangedByCore1
<1>6. CASE NavEvent \/ EditEvent
  <2>1. PICK nav \in BOOLEAN : NewRequest(nav) /\ (nav \/ EditEvent)
    BY <1>6 DEF NavEvent, EditEvent
  <2> QED
    BY <1>5, <2>1
<1>7. CASE Reboot("ap")
  <2>1. ap' = ApStarted /\ boots' = boots + 1
    BY <1>7 DEF Reboot
  <2>2. ApStarted.request = NoTask /\ ApStarted.last_id = 0 /\ ApStarted.reset_screen
    BY DEF ApStarted
  <2> QED
    BY <1>7, <2>1, <2>2
<1>8. CASE Reboot("node")
  <2>1. UNCHANGED <<ap, boots>>
    BY <1>8 DEF Reboot
  <2> QED
    BY <2>1
<1>9. CASE \/ \E e \in End : TakePackets(e) \/ SendPacket(e)
           \/ NodeValidate \/ ReadRequest \/ Work
           \/ Connect \/ Lose \/ Disconnect \/ UNCHANGED vars
  <2>1. UNCHANGED <<ap, boots>>
    BY <1>9 DEF TakePackets, SendPacket, NodeValidate, ReadRequest, Work, UnchangedByCore1,
         Connect, Lose, Disconnect, UnchangedByLink, vars
  <2> QED
    BY <2>1
<1> QED
  BY <1>2, <1>3, <1>4, <1>6, <1>7, <1>8, <1>9, Ends DEF Next, Core0

LEMMA KnownStep ==
  ASSUME TypeOK, KnownInv, [Next]_vars
  PROVE  /\ KnownInv'
         /\ \A t \in Tasks \cup {ap.request} : Known(t)'
<1>1. /\ ap \in ApType /\ boots \in Nat /\ ap.last_id \in Nat /\ boots >= 1
  BY Ends, Constants, IsTyped DEF ApType
<1>2. \A t \in Tasks \cup {ap.request} : t \in Task /\ Known(t)
  BY TasksTyped, <1>1 DEF KnownInv, RequestKnown, Known
<1>3. \A t \in Tasks \cup {ap.request} : t.id \in Nat /\ t.boot \in Nat
  BY <1>2, TaskTyped
<1>4. RequestKnown
  BY DEF KnownInv
<1>5. RequestKnown' /\ \A t \in Tasks \cup {ap.request} : Known(t)'
  <2>1. CASE UNCHANGED <<ap.request, ap.last_id, boots>>
    BY <1>2, <1>4, <2>1 DEF Known, RequestKnown
  <2>2. CASE ap'.request = NoTask /\ UNCHANGED <<ap.last_id, boots>>
    BY <1>1, <1>2, <1>3, <2>2, Constants DEF Known, RequestKnown
  <2>3. CASE ap'.request = NoTask /\ ap'.last_id = 0 /\ boots' = boots + 1
    BY <1>1, <1>2, <1>3, <2>3, Constants DEF Known, RequestKnown
  <2>4. ASSUME NEW nav \in BOOLEAN,
               ap'.request = [id |-> ap.last_id + 1, boot |-> boots, nav |-> nav],
               ap'.last_id = ap.last_id + 1, UNCHANGED boots
        PROVE  RequestKnown' /\ \A t \in Tasks \cup {ap.request} : Known(t)'
    <3>1. ap'.request.id = ap.last_id + 1 /\ ap'.request.boot = boots
      BY <2>4
    <3> QED
      BY <1>1, <1>2, <1>3, <1>4, <2>4, <3>1 DEF Known, RequestKnown
  <2> QED
    BY RequestMoves, <2>1, <2>2, <2>3, <2>4
<1>6. Known(NoTask)'
  BY DEF Known
<1>7. Tasks' \subseteq Tasks \cup {NoTask, ap.request}
  BY TasksMove
<1>8. \A t \in Tasks' : Known(t)'
  BY <1>5, <1>6, <1>7
<1> QED
  BY <1>5, <1>8 DEF KnownInv

LEMMA KnownInit == Init => KnownInv
<1> SUFFICES ASSUME Init PROVE KnownInv
  OBVIOUS
<1>1. /\ pipe = [e \in End |-> <<>>] /\ todo = [e \in End |-> <<>>]
      /\ ap = ApStarted /\ node = NodeStarted
  BY DEF Init, Pipe!Init, End
<1>2. Carried("ap") = {} /\ Carried("node") = {}
  BY <1>1, Ends, NoElements DEF Carried, PacketsTo, Waiting, Coming
<1>3. /\ ap.request = NoTask /\ ap.response = NoTask /\ ap.sb_response.task = NoTask
      /\ node.request = NoTask /\ node.response = NoTask /\ node.sb_request.task = NoTask
  BY <1>1, Constants DEF ApStarted, NodeStarted
<1> QED
  BY <1>2, <1>3 DEF KnownInv, RequestKnown, Known, Tasks, OnAp, OnNode

-----------------------------------------------------------------------------
(* What is acknowledged was received, as long as the AP does not restart *)

Acks == {node.rcv_req_id, ap.ack_req_id} \cup {p.ack : p \in PacketsTo("ap")}

Earned(k) == k <= ap.last_id /\ (k # 0 /\ k = ap.request.id => received)

AckInv == boots = 1 /\ \A k \in Acks : Earned(k)

\* Where an acknowledgement comes from: another one, or a request the node takes.
LEMMA AcksMove ==
  ASSUME TypeOK, [Next]_vars
  PROVE  \A k \in Acks' : \/ k \in Acks \cup {0}
                          \/ \E t \in Carried("node") :
                               k = t.id /\ received' = (received \/ t = ap.request)
<1> DEFINE Before(k) ==
      \/ k \in Acks \cup {0}
      \/ \E t \in Carried("node") : k = t.id /\ received' = (received \/ t = ap.request)
<1>0. ap \in ApType /\ node \in NodeType /\ LinkTyped
  BY IsTyped
<1>1. \A p \in PacketsTo("ap")' : Before(p.ack)
  <2>1. PacketsTo("ap")' \subseteq PacketsTo("ap") \cup {Produced("node")}
    BY PacketsMove, Ends
  <2>2. Produced("node").ack = 0 \/ Produced("node").ack = node.rcv_req_id
    BY ProducedTyped, Ends
  <2> QED
    BY <2>1, <2>2 DEF Acks
<1>2. ASSUME UNCHANGED <<node.rcv_req_id, ap.ack_req_id>>
      PROVE  \A k \in Acks' : Before(k)
  BY <1>1, <1>2 DEF Acks
<1>3. ASSUME NEW e \in End, Consume(e)
      PROVE  \A k \in Acks' : Before(k)
  <2> DEFINE p == Head(todo[e])
  <2>1. p \in Packet /\ p \in PacketsTo(e)
    BY <1>0, <1>3, ConsumeMoves DEF PacketsTo
  <2>2. \/ UNCHANGED <<ap, node>>
        \/ e = "ap" /\ ApTakes(p)
        \/ e = "node" /\ NodeTakes(p)
    BY <1>3, ConsumeEffect
  <2> HIDE DEF p
  <2>3. CASE UNCHANGED <<ap, node>>
    BY <1>2, <2>3
  <2>4. CASE e = "ap" /\ ApTakes(p)
    <3>1. UNCHANGED node /\ ap'.ack_req_id = p.ack
      BY <1>0, <2>1, <2>4, ApTakesEffect
    <3>2. Before(ap'.ack_req_id)
      BY <2>1, <2>4, <3>1 DEF Acks
    <3> QED
      BY <1>1, <3>1, <3>2 DEF Acks
  <2>5. CASE e = "node" /\ NodeTakes(p)
    <3>1. /\ UNCHANGED ap /\ received' = (received \/ ap.request \in p.task)
          /\ \/ UNCHANGED node.rcv_req_id
             \/ \E t \in Task : p.task = {t} /\ node'.rcv_req_id = t.id
      BY <1>0, <2>1, <2>5, NodeTakesEffect
    <3>2. ASSUME NEW t \in Task, p.task = {t}, node'.rcv_req_id = t.id
          PROVE  Before(node'.rcv_req_id)
      <4>1. t \in Carried("node")
        BY <2>1, <2>5, <3>2 DEF Carried
      <4>2. ap.request \in p.task <=> t = ap.request
        BY <3>2
      <4> QED
        BY <3>1, <3>2, <4>1, <4>2
    <3>3. Before(node'.rcv_req_id)
      BY <3>1, <3>2 DEF Acks
    <3> QED
      BY <1>1, <3>1, <3>3 DEF Acks
  <2> QED
    BY <2>2, <2>3, <2>4, <2>5
<1>4. CASE ApValidate \/ ReadResponse \/ NavEvent \/ EditEvent
  <2>1. UNCHANGED node /\ ap'.ack_req_id = ap.ack_req_id
    BY <1>0, <1>4 DEF ApValidate, ApCleared, ReadResponse, NavEvent, EditEvent, NewRequest, ApType
  <2> QED
    BY <1>2, <2>1
<1>5. CASE NodeValidate \/ ReadRequest \/ Work
  <2>1. UNCHANGED ap /\ node'.rcv_req_id = node.rcv_req_id
    BY <1>0, <1>5 DEF NodeValidate, ReadRequest, Work, NodeType
  <2> QED
    BY <1>2, <2>1
<1>6. ASSUME NEW e \in End, Reboot(e)
      PROVE  \A k \in Acks' : Before(k)
  <2>1. \/ UNCHANGED node /\ ap' = ApStarted
        \/ UNCHANGED ap /\ node' = NodeStarted
    BY <1>6 DEF Reboot
  <2>2. ApStarted.ack_req_id = 0 /\ NodeStarted.rcv_req_id = 0
    BY DEF ApStarted, NodeStarted
  <2> QED
    BY <1>1, <2>1, <2>2 DEF Acks
<1>7. CASE \/ \E e \in End : TakePackets(e) \/ SendPacket(e)
           \/ Connect \/ Lose \/ Disconnect \/ UNCHANGED vars
  <2>1. UNCHANGED <<ap, node>>
    BY <1>7 DEF TakePackets, SendPacket, Connect, Lose, Disconnect, UnchangedByLink, vars
  <2> QED
    BY <1>2, <2>1
<1> QED
  BY <1>3, <1>4, <1>5, <1>6, <1>7 DEF Next, Core0

LEMMA ReceivedMoves ==
  ASSUME TypeOK, [Next]_vars, received,
         UNCHANGED <<ap.request, ap.last_id, boots>>, ap.request # NoTask
  PROVE  received'
<1>0. ap \in ApType /\ LinkTyped /\ boots \in 1 .. MAX_BOOTS
  BY IsTyped
<1>1. ASSUME NEW e \in End, Consume(e)
      PROVE  received'
  BY <1>1, ConsumeEffect DEF ApTakes, NodeTakes
<1>2. ~ApValidate
  BY <1>0 DEF ApValidate, ApCleared, ApType
<1>3. ~(NavEvent \/ EditEvent)
  <2>1. ap.last_id \in Nat
    BY <1>0 DEF ApType
  <2>2. \A nav \in BOOLEAN : NewRequest(nav) => ap'.last_id = ap.last_id + 1
    BY <1>0 DEF NewRequest, ApType
  <2>3. ap'.last_id # ap.last_id + 1
    BY <2>1
  <2>4. ~NewRequest(TRUE) /\ ~NewRequest(FALSE)
    BY <2>2, <2>3
  <2> QED
    BY <2>4, Zenon DEF NavEvent, EditEvent
<1>4. ~Reboot("ap")
  BY DEF Reboot, ApStarted
<1>5. Reboot("node") => UNCHANGED received
  BY DEF Reboot
<1>6. CASE \/ \E e \in End : TakePackets(e) \/ SendPacket(e)
           \/ ReadResponse \/ NodeValidate \/ ReadRequest \/ Work
           \/ Connect \/ Lose \/ Disconnect \/ UNCHANGED vars
  BY <1>6 DEF TakePackets, SendPacket, ReadResponse, NodeValidate, ReadRequest, Work,
       Connect, Lose, Disconnect, UnchangedByLink, vars
<1> QED
  BY <1>1, <1>2, <1>3, <1>4, <1>5, <1>6, Ends DEF Next, Core0

LEMMA AckStep ==
  ASSUME TypeOK, KnownInv, AckInv, [Next]_vars, "ap" \notin RESTARTS
  PROVE  AckInv'
<1>1. /\ ap \in ApType /\ node \in NodeType /\ ap.last_id \in Nat /\ ap.request.id \in Nat
      /\ received \in BOOLEAN
  BY IsTyped, TaskTyped DEF ApType
<1>2. \A k \in Acks \cup {0} : k \in Nat /\ Earned(k)
  <2>1. \A p \in PacketsTo("ap") : p.ack \in Nat
    BY TasksTyped, PacketTyped, Ends
  <2> QED
    BY <1>1, <2>1 DEF Acks, AckInv, Earned, ApType, NodeType
<1>3. \A t \in Carried("node") : /\ t.id \in Nat /\ t.id <= ap.last_id
                                 /\ t.id # 0 /\ t.id = ap.request.id => t = ap.request
  <2>1. \A t \in Carried("node") : t \in Task /\ Known(t)
    BY TasksTyped DEF KnownInv, Tasks
  <2> QED
    BY <1>1, <2>1, TaskTyped, Constants DEF Known, AckInv
<1>4. CASE UNCHANGED <<ap.request, ap.last_id, boots>>
  <2>1. ap.request = NoTask => ap.request.id = 0
    BY Constants
  <2>2. ap.request.id # 0 /\ received => received'
    BY <1>4, <2>1, ReceivedMoves
  <2>3. ASSUME NEW k \in Acks'
        PROVE  Earned(k)'
    <3>1. CASE k \in Acks \cup {0}
      BY <1>2, <1>4, <2>2, <3>1 DEF Earned
    <3>2. ASSUME NEW t \in Carried("node"), k = t.id,
                 received' = (received \/ t = ap.request)
          PROVE  Earned(k)'
      BY <1>3, <1>4, <3>2 DEF Earned
    <3> QED
      BY <2>3, <3>1, <3>2, AcksMove
  <2> QED
    BY <1>4, <2>3 DEF AckInv
<1>5. ASSUME NEW k \in Acks'
      PROVE  k \in Nat /\ k <= ap.last_id
  BY <1>2, <1>3, <1>5, AcksMove DEF Earned
<1>6. CASE ap'.request = NoTask /\ UNCHANGED <<ap.last_id, boots>>
  BY <1>5, <1>6, Constants DEF AckInv, Earned
<1>7. ASSUME NEW nav \in BOOLEAN,
             ap'.request = [id |-> ap.last_id + 1, boot |-> boots, nav |-> nav],
             ap'.last_id = ap.last_id + 1, UNCHANGED boots
      PROVE  AckInv'
  <2>1. ap'.request.id = ap.last_id + 1
    BY <1>7
  <2> QED
    BY <1>1, <1>5, <1>7, <2>1 DEF AckInv, Earned
<1>8. ~Reboot("ap")
  BY DEF Reboot
<1> QED
  BY <1>4, <1>6, <1>7, <1>8, RequestMoves

LEMMA AckInit == Init => AckInv
<1> SUFFICES ASSUME Init PROVE AckInv
  OBVIOUS
<1>1. /\ pipe = [e \in End |-> <<>>] /\ todo = [e \in End |-> <<>>]
      /\ ap = ApStarted /\ node = NodeStarted /\ boots = 1
  BY Ends DEF Init, Pipe!Init, End
<1>2. PacketsTo("ap") = {}
  BY <1>1, Ends, NoElements DEF PacketsTo, Waiting, Coming
<1>3. ap.ack_req_id = 0 /\ ap.last_id = 0 /\ node.rcv_req_id = 0
  BY <1>1 DEF ApStarted, NodeStarted
<1> QED
  BY <1>1, <1>2, <1>3 DEF AckInv, Acks, Earned

\* As long as the AP does not restart, it stops sending a request only once the
\* node has received it, whatever else is lost, reordered or restarted.
THEOREM AckedWasReceived ==
  ASSUME "ap" \notin RESTARTS
  PROVE  Spec => []AckMeansReceived
<1>1. Init => KnownInv /\ AckInv
  BY KnownInit, AckInit
<1>2. TypeOK /\ KnownInv /\ AckInv /\ [Next]_vars => (KnownInv /\ AckInv)'
  BY KnownStep, AckStep
<1>3. KnownInv /\ AckInv => AckMeansReceived
  BY DEF AckInv, Acks, Earned, AckMeansReceived
<1> QED
  BY <1>1, <1>2, <1>3, TypeCorrect, PTL DEF Spec

-----------------------------------------------------------------------------
(* Polls that find one packet at a time *)

Quiet ==
  /\ \A e \in End : Len(todo[e]) <= 1
  /\ \A e \in End : ~open[e] => todo[e] = <<>>
  /\ ~open["node"] => pipe["node"] = <<>> /\ ~linked
  /\ ~open["ap"] /\ ~linked => pipe["ap"] = <<>>

LEMMA QuietInit == Init => Quiet
<1> SUFFICES ASSUME Init PROVE Quiet
  OBVIOUS
<1>1. /\ pipe = [e \in End |-> <<>>] /\ todo = [e \in End |-> <<>>] /\ ~linked
  BY DEF Init, Pipe!Init, End
<1> QED
  BY <1>1, Ends, NoElements DEF Quiet

\* The steps that leave the packets under way alone.
Still ==
  \/ ApValidate \/ ReadResponse \/ NavEvent \/ EditEvent
  \/ NodeValidate \/ ReadRequest \/ Work \/ UNCHANGED vars

LEMMA StillUnchanged ==
  ASSUME Still
  PROVE  UNCHANGED <<linked, open, pipe, todo, boots>>
BY DEF Still, ApValidate, ReadResponse, NavEvent, EditEvent, NewRequest, NodeValidate,
     ReadRequest, Work, UnchangedByCore1, vars, pipeVars

LEMMA Steps ==
  ASSUME [Next]_vars
  PROVE  \/ Still
         \/ \E e \in End : TakePackets(e) \/ Consume(e) \/ SendPacket(e)
         \/ Connect \/ Lose
         \/ \E e \in End : todo[e] = <<>> /\ Pipe!Leave(e) /\ UnchangedByLink
         \/ \E e \in End : Reboot(e)
BY DEF Next, Core0, Still, Disconnect

LEMMA QuietStep ==
  ASSUME TypeOK, Quiet, [Next]_vars, ~overtaken'
  PROVE  Quiet'
<1>0. LinkTyped /\ \A e \in End : open[e] \in BOOLEAN
  BY IsTyped DEF LinkTyped
<1>1. CASE Still
  BY <1>1, StillUnchanged DEF Quiet
<1>2. ASSUME NEW e \in End, TakePackets(e)
      PROVE  Quiet'
  <2>1. /\ UNCHANGED <<linked, open>> /\ open[e]
        /\ UNCHANGED <<todo[Peer(e)], pipe[Peer(e)]>>
        /\ Len(todo[e])' <= 1
    BY <1>0, <1>2, TakeMoves
  <2> QED
    BY <2>1, Ends DEF Quiet
<1>3. ASSUME NEW e \in End, Consume(e)
      PROVE  Quiet'
  <2>1. /\ UNCHANGED <<linked, open, pipe>> /\ UNCHANGED todo[Peer(e)]
        /\ Len(todo[e]) <= 1 => Len(todo[e])' <= 1
    BY <1>0, <1>3, ConsumeMoves DEF pipeVars
  <2>2. open[e]
    BY <1>3 DEF Consume, Quiet
  <2> QED
    BY <2>1, <2>2, Ends DEF Quiet
<1>4. ASSUME NEW e \in End, SendPacket(e)
      PROVE  Quiet'
  <2>1. /\ UNCHANGED <<linked, open, todo>> /\ UNCHANGED pipe[e] /\ open[e]
        /\ ~linked => UNCHANGED pipe[Peer(e)]
    BY <1>0, <1>4, ProducedTyped, SendMoves
  <2> QED
    BY <2>1, Ends DEF Quiet
<1>5. CASE Connect
  <2>1. /\ UNCHANGED <<pipe, todo>> /\ linked' /\ \A e \in End : open[e] => open'[e]
        /\ ~linked => open'["node"]
    BY <1>0, <1>5, ConnectMoves
  <2> QED
    BY <2>1, Ends DEF Quiet
<1>6. CASE Lose
  <2>1. /\ ~linked' /\ UNCHANGED <<open, todo>>
        /\ \A e \in End : ~open[e] => pipe'[e] = <<>>
    BY <1>0, <1>6, LoseMoves
  <2> QED
    BY <2>1, Ends DEF Quiet
<1>7. ASSUME NEW e \in End, todo[e] = <<>>, Pipe!Leave(e), UnchangedByLink
      PROVE  Quiet'
  <2>1. /\ UNCHANGED linked /\ ~linked /\ open' = [open EXCEPT ![e] = FALSE]
        /\ pipe'[e] = <<>> /\ UNCHANGED pipe[Peer(e)] /\ UNCHANGED todo
    BY <1>0, <1>7, DisconnectMoves DEF UnchangedByLink
  <2>2. open'[e] = FALSE /\ UNCHANGED open[Peer(e)]
    BY <1>0, <2>1, Ends DEF LinkTyped
  <2> QED
    BY <1>7, <2>1, <2>2, Ends, NoElements DEF Quiet
<1>8. ASSUME NEW e \in End, Reboot(e)
      PROVE  Quiet'
  <2>1. /\ ~linked' /\ open' = [open EXCEPT ![e] = FALSE]
        /\ todo'[e] = <<>> /\ pipe'[e] = <<>> /\ UNCHANGED todo[Peer(e)]
        /\ ~open[Peer(e)] => pipe'[Peer(e)] = <<>>
    BY <1>0, <1>8, RebootMoves
  <2>2. open'[e] = FALSE /\ UNCHANGED open[Peer(e)]
    BY <1>0, <2>1, Ends DEF LinkTyped
  <2> QED
    BY <2>1, <2>2, Ends, NoElements DEF Quiet
<1> QED
  BY Steps, <1>1, <1>2, <1>3, <1>4, <1>5, <1>6, <1>7, <1>8

\* The places of the packets under way to an end: each with those that are
\* consumed before it, and those that are consumed after it.
Places(e) == PlacesIn(Flow(e))

LEMMA PlacesTo ==
  ASSUME LinkTyped, NEW e \in End
  PROVE  /\ Flow(e) \in Seq(Packet) /\ PacketsTo(e) = Elements(Flow(e))
         /\ \A c \in Places(e) : /\ c.p \in PacketsTo(e) /\ c.before \subseteq PacketsTo(e)
                                 /\ c.after \subseteq PacketsTo(e)
         /\ \A p \in PacketsTo(e) : \E c \in Places(e) : c.p = p
         /\ Flow(e) = <<>> => PacketsTo(e) = {} /\ Places(e) = {}
<1>1. todo[e] \in Seq(Packet) /\ pipe[e] \in Seq(Packet)
  BY DEF LinkTyped
<1>2. Flow(e) \in Seq(Packet) /\ PacketsTo(e) = Elements(Flow(e))
  BY <1>1, Joining DEF Flow, PacketsTo, Waiting, Coming
<1>3. Flow(e) = <<>> => PacketsTo(e) = {} /\ Places(e) = {}
  BY <1>2, NoElements, PlacesEmpty DEF Places
<1>4. /\ \A c \in Places(e) : /\ c.p \in PacketsTo(e) /\ c.before \subseteq PacketsTo(e)
                              /\ c.after \subseteq PacketsTo(e)
      /\ \A p \in PacketsTo(e) : \E c \in Places(e) : c.p = p
  BY <1>2, PlaceFacts DEF Places
<1> QED
  BY <1>2, <1>3, <1>4

LEMMA PacketsNext ==
  ASSUME LinkTyped', NEW e \in End
  PROVE  Flow(e)' \in Seq(Packet) /\ PacketsTo(e)' = Elements(Flow(e)')
<1> DEFINE s == todo'[e]
           t == pipe'[e]
<1>1. s \in Seq(Packet) /\ t \in Seq(Packet)
  BY DEF LinkTyped
<1>2. /\ Flow(e)' = s \o t
      /\ PacketsTo(e)' = Elements(s) \cup Elements(t)
  BY DEF Flow, PacketsTo, Waiting, Coming
<1> HIDE DEF s, t
<1>3. s \o t \in Seq(Packet) /\ Elements(s \o t) = Elements(s) \cup Elements(t)
  BY <1>1, Joining
<1> QED
  BY <1>2, <1>3

LEMMA PlacesNext ==
  ASSUME LinkTyped', NEW e \in End
  PROVE  \A d \in Places(e)' : d.p \in PacketsTo(e)'
<1> DEFINE s == Flow(e)'
<1>1. s \in Seq(Packet) /\ PacketsTo(e)' = Elements(s) /\ Places(e)' = PlacesIn(s)
  BY PacketsNext DEF Places
<1> HIDE DEF s
<1> QED
  BY <1>1, PlaceFacts

\* What a step does to the packets under way and to the states of the two ends.
SameFlow(e) == UNCHANGED <<PacketsTo(e), Places(e)>>
Cut(e) ==
  /\ PacketsTo(e)' \subseteq PacketsTo(e)
  /\ \A d \in Places(e)' : \E c \in Places(e) :
       c.p = d.p /\ c.before = d.before /\ d.after \subseteq c.after
Emptied(e) == PacketsTo(e)' = {} /\ Places(e)' = {}

Consumed(e) ==
  /\ Head(todo[e]) \in Packet
  /\ \E h \in Places(e) : h.p = Head(todo[e]) /\ h.before = {} /\ h.after = PacketsTo(e)'
  /\ PacketsTo(e) = {Head(todo[e])} \cup PacketsTo(e)'
  /\ \A d \in Places(e)' : \E c \in Places(e) :
       c.p = d.p /\ c.before = d.before \cup {Head(todo[e])} /\ c.after = d.after
  /\ SameFlow(Peer(e)) /\ UNCHANGED linked
  /\ comm_state'[e] = NextState(e, Head(todo[e])) /\ UNCHANGED comm_state[Peer(e)]
Sent(e) ==
  /\ linked /\ linked'
  /\ PacketsTo(Peer(e))' = PacketsTo(Peer(e)) \cup {Produced(e)}
  /\ \A d \in Places(Peer(e))' :
       \/ d.p = Produced(e) /\ d.before = PacketsTo(Peer(e)) /\ d.after = {}
       \/ \E c \in Places(Peer(e)) :
            c.p = d.p /\ c.before = d.before /\ d.after = c.after \cup {Produced(e)}
  /\ SameFlow(e) /\ UNCHANGED comm_state
Validated(e) ==
  /\ comm_state[e] = "reset" /\ comm_state'[e] = "init" /\ UNCHANGED comm_state[Peer(e)]
  /\ SameFlow(e) /\ SameFlow(Peer(e)) /\ UNCHANGED linked
Lost == (\A e \in End : Cut(e)) /\ ~linked' /\ UNCHANGED comm_state
Restarted(e) ==
  /\ Emptied(e) /\ Cut(Peer(e)) /\ ~linked'
  /\ comm_state'[e] = "init" /\ UNCHANGED comm_state[Peer(e)]
Connected ==
  /\ \A e \in End : SameFlow(e) /\ (~linked => Emptied(e))
  /\ linked' /\ UNCHANGED comm_state
Idle == (\A e \in End : SameFlow(e)) /\ UNCHANGED <<linked, comm_state>>

LEMMA FlowUnchanged ==
  ASSUME LinkTyped, LinkTyped', NEW e \in End
  PROVE  /\ UNCHANGED Flow(e) => SameFlow(e) /\ Cut(e)
         /\ UNCHANGED <<todo[e], pipe[e]>> => SameFlow(e) /\ Cut(e)
         /\ Flow(e)' \in Beginnings(Flow(e)) => Cut(e)
         /\ todo'[e] = <<>> /\ pipe'[e] = <<>> => Emptied(e)
<1>1. /\ PacketsTo(e) = Elements(Flow(e)) /\ Flow(e) \in Seq(Packet)
      /\ PacketsTo(e)' = Elements(Flow(e)')
  BY PlacesTo, PacketsNext
<1>2. UNCHANGED Flow(e) => SameFlow(e)
  BY <1>1 DEF SameFlow, Places
<1>3. SameFlow(e) => Cut(e)
  BY DEF SameFlow, Cut
<1>4. UNCHANGED <<todo[e], pipe[e]>> => UNCHANGED Flow(e)
  BY DEF Flow
<1>5. ASSUME Flow(e)' \in Beginnings(Flow(e))
      PROVE  Cut(e)
  <2>1. PICK n \in 0 .. Len(Flow(e)) : Flow(e)' = SubSeq(Flow(e), 1, n)
    BY <1>5 DEF Beginnings
  <2> DEFINE s == Flow(e)
  <2>2. s \in Seq(Packet) /\ n \in 0 .. Len(s)
    BY <1>1
  <2> HIDE DEF s
  <2>3. /\ Elements(SubSeq(s, 1, n)) \subseteq Elements(s)
        /\ \A d \in PlacesIn(SubSeq(s, 1, n)) : \E c \in PlacesIn(s) :
             c.p = d.p /\ c.before = d.before /\ d.after \subseteq c.after
    BY <2>2, Prefix, PlacesInPrefix
  <2>4. /\ Places(e)' = PlacesIn(SubSeq(s, 1, n)) /\ Places(e) = PlacesIn(s)
        /\ PacketsTo(e)' = Elements(SubSeq(s, 1, n)) /\ PacketsTo(e) = Elements(s)
    BY <1>1, <2>1 DEF Places, s
  <2> QED
    BY <2>3, <2>4 DEF Cut
<1>6. ASSUME todo'[e] = <<>>, pipe'[e] = <<>>
      PROVE  Emptied(e)
  <2>1. Flow(e)' = <<>>
    BY <1>6, ConcatEmptySeq DEF Flow
  <2> QED
    BY <1>1, <2>1, NoElements, PlacesEmpty DEF Emptied, Places
<1> QED
  BY <1>2, <1>3, <1>4, <1>5, <1>6

LEMMA RestartMoves ==
  ASSUME TypeOK, NEW e \in End, Reboot(e)
  PROVE  Restarted(e)
<1>0. LinkTyped /\ comm_state \in [End -> CommState] /\ Peer(e) \in End
  BY IsTyped, Ends
<1>1. /\ ~linked' /\ todo'[e] = <<>> /\ pipe'[e] = <<>> /\ LinkTyped'
      /\ Flow(Peer(e))' \in Beginnings(Flow(Peer(e)))
  BY <1>0, RebootMoves
<1>2. comm_state' = [comm_state EXCEPT ![e] = "init"]
  BY DEF Reboot
<1>3. comm_state'[e] = "init" /\ UNCHANGED comm_state[Peer(e)]
  BY <1>0, <1>2, Ends
<1>4. Emptied(e) /\ Cut(Peer(e))
  BY <1>0, <1>1, FlowUnchanged
<1> QED
  BY <1>1, <1>3, <1>4 DEF Restarted

LEMMA ConsumesOne ==
  ASSUME TypeOK, NEW e \in End, Consume(e)
  PROVE  Consumed(e)
<1> DEFINE p == Head(todo[e])
<1>0. LinkTyped /\ comm_state \in [End -> CommState] /\ Peer(e) \in End
  BY IsTyped, Ends
<1>1. /\ UNCHANGED <<linked, pipe>> /\ UNCHANGED todo[Peer(e)] /\ p \in Packet /\ LinkTyped'
      /\ Flow(e) # <<>> /\ Head(Flow(e)) = p /\ Flow(e)' = Tail(Flow(e))
  BY <1>0, ConsumeMoves DEF pipeVars
<1>2. comm_state' = [comm_state EXCEPT ![e] = NextState(e, p)]
  BY ConsumeEffect
<1> HIDE DEF p
<1>3. comm_state'[e] = NextState(e, p) /\ UNCHANGED comm_state[Peer(e)]
  BY <1>0, <1>2, Ends
<1>4. SameFlow(Peer(e))
  BY <1>0, <1>1, FlowUnchanged
<1> DEFINE s == Flow(e)
<1>5. /\ PacketsTo(e) = Elements(s) /\ s \in Seq(Packet) /\ Places(e) = PlacesIn(s)
      /\ PacketsTo(e)' = Elements(Tail(s)) /\ Places(e)' = PlacesIn(Tail(s))
  BY <1>0, <1>1, PlacesTo, PacketsNext DEF Places
<1>6. s # <<>> /\ Head(s) = p
  BY <1>1
<1> HIDE DEF s
<1>7. /\ \E h \in PlacesIn(s) : h.p = p /\ h.before = {} /\ h.after = Elements(Tail(s))
      /\ \A d \in PlacesIn(Tail(s)) : \E c \in PlacesIn(s) :
           c.p = d.p /\ c.before = d.before \cup {p} /\ c.after = d.after
      /\ Elements(s) = {p} \cup Elements(Tail(s))
  BY <1>5, <1>6, PlacesInTail
<1> QED
  BY <1>1, <1>3, <1>4, <1>5, <1>7 DEF Consumed, p

LEMMA SendsOne ==
  ASSUME TypeOK, NEW e \in End, SendPacket(e)
  PROVE  Sent(e) \/ Idle
<1> DEFINE o == Peer(e)
<1>0. LinkTyped /\ o \in End /\ Produced(e) \in Packet
  BY IsTyped, Ends, ProducedTyped
<1>1. /\ UNCHANGED <<linked, todo>> /\ UNCHANGED pipe[e] /\ LinkTyped'
      /\ ~linked => UNCHANGED pipe[o]
      /\ linked => Flow(o)' = Flow(o) \o <<Produced(e)>>
  BY <1>0, SendMoves
<1>2. UNCHANGED comm_state
  BY DEF SendPacket
<1>3. SameFlow(e)
  BY <1>0, <1>1, FlowUnchanged
<1>4. CASE linked
  <2> DEFINE s == Flow(o)
             x == Produced(e)
  <2>1. /\ PacketsTo(o) = Elements(s) /\ s \in Seq(Packet) /\ Places(o) = PlacesIn(s)
        /\ PacketsTo(o)' = Elements(s \o <<x>>) /\ Places(o)' = PlacesIn(s \o <<x>>)
        /\ x \in Packet
    BY <1>0, <1>1, <1>4, PlacesTo, PacketsNext DEF Places
  <2> HIDE DEF s, x
  <2>2. Elements(s \o <<x>>) = Elements(s) \cup {x}
    BY <2>1, OneMore
  <2>3. \A d \in PlacesIn(s \o <<x>>) :
          \/ d.p = x /\ d.before = Elements(s) /\ d.after = {}
          \/ \E c \in PlacesIn(s) :
               c.p = d.p /\ c.before = d.before /\ d.after = c.after \cup {x}
    BY <2>1, PlacesInLonger
  <2>4. /\ PacketsTo(o)' = PacketsTo(o) \cup {x}
        /\ \A d \in Places(o)' :
             \/ d.p = x /\ d.before = PacketsTo(o) /\ d.after = {}
             \/ \E c \in Places(o) :
                  c.p = d.p /\ c.before = d.before /\ d.after = c.after \cup {x}
    BY <2>1, <2>2, <2>3
  <2> QED
    BY <1>1, <1>2, <1>3, <1>4, <2>4 DEF Sent, x
<1>5. CASE ~linked
  <2>1. SameFlow(o)
    BY <1>0, <1>1, <1>5, FlowUnchanged
  <2> QED
    BY <1>1, <1>2, <1>3, <2>1, Ends DEF Idle
<1> QED
  BY <1>4, <1>5

LEMMA SessionMoves ==
  ASSUME TypeOK, Quiet, [Next]_vars, ~overtaken'
  PROVE  \/ \E e \in End : \/ Consume(e) /\ Consumed(e)
                           \/ SendPacket(e) /\ Sent(e)
                           \/ Reboot(e) /\ Restarted(e)
         \/ ApValidate /\ (Validated("ap") \/ Idle)
         \/ NodeValidate /\ Validated("node")
         \/ (Lose \/ Disconnect) /\ Lost
         \/ Connect /\ Connected
         \/ /\ \/ \E e \in End : TakePackets(e) \/ SendPacket(e)
               \/ ReadResponse \/ NavEvent \/ EditEvent \/ ReadRequest \/ Work
               \/ UNCHANGED vars
            /\ Idle
<1>0. /\ LinkTyped /\ LinkTyped' /\ comm_state \in [End -> CommState]
      /\ \A e \in End : open[e] \in BOOLEAN
  BY TypeStep, IsTyped DEF LinkTyped, TypeOK
<1>1. ASSUME NEW e \in End, TakePackets(e)
      PROVE  Idle
  <2>1. /\ UNCHANGED linked /\ UNCHANGED Flow(e)
        /\ UNCHANGED <<todo[Peer(e)], pipe[Peer(e)]>>
    BY <1>0, <1>1, TakeMoves
  <2>2. SameFlow(e) /\ SameFlow(Peer(e))
    BY <1>0, <2>1, FlowUnchanged, Ends
  <2> QED
    BY <1>1, <2>1, <2>2, Ends DEF Idle, TakePackets
<1>4. Still => UNCHANGED linked /\ \A e \in End : SameFlow(e)
  BY <1>0, StillUnchanged, FlowUnchanged
<1>5. CASE ApValidate
  <2>1. UNCHANGED linked /\ \A e \in End : SameFlow(e)
    BY <1>4, <1>5 DEF Still
  <2>2. \/ /\ comm_state["ap"] = "reset"
           /\ comm_state' = [comm_state EXCEPT !["ap"] = "init"]
        \/ UNCHANGED comm_state
    BY <1>5 DEF ApValidate
  <2> QED
    BY <1>0, <1>5, <2>1, <2>2, Ends DEF Validated, Idle
<1>6. CASE NodeValidate
  <2>1. UNCHANGED linked /\ \A e \in End : SameFlow(e)
    BY <1>4, <1>6 DEF Still
  <2>2. /\ comm_state["node"] = "reset"
        /\ comm_state' = [comm_state EXCEPT !["node"] = "init"]
    BY <1>6 DEF NodeValidate
  <2> QED
    BY <1>0, <1>6, <2>1, <2>2, Ends DEF Validated
<1>7. CASE ReadResponse \/ NavEvent \/ EditEvent \/ ReadRequest \/ Work \/ UNCHANGED vars
  <2>1. UNCHANGED linked /\ \A e \in End : SameFlow(e)
    BY <1>4, <1>7 DEF Still
  <2>2. UNCHANGED comm_state
    BY <1>7 DEF ReadResponse, NavEvent, EditEvent, NewRequest, ReadRequest, Work, vars
  <2> QED
    BY <1>7, <2>1, <2>2 DEF Idle
<1>8. CASE Lose
  <2>1. ~linked' /\ \A e \in End : Flow(e)' \in Beginnings(Flow(e))
    BY <1>0, <1>8, LoseMoves
  <2>2. \A e \in End : Cut(e)
    BY <1>0, <2>1, FlowUnchanged
  <2> QED
    BY <1>8, <2>1, <2>2 DEF Lost, Lose, UnchangedByLink
<1>9. ASSUME NEW e \in End, todo[e] = <<>>, Pipe!Leave(e), UnchangedByLink
      PROVE  Disconnect /\ Lost
  <2>1. ~linked' /\ UNCHANGED todo /\ pipe'[e] = <<>> /\ UNCHANGED pipe[Peer(e)]
    BY <1>0, <1>9, DisconnectMoves DEF UnchangedByLink
  <2>2. Emptied(e) /\ Cut(Peer(e))
    BY <1>0, <1>9, <2>1, FlowUnchanged, Ends
  <2>3. \A f \in End : Cut(f)
    BY <2>2, Ends DEF Emptied, Cut
  <2> QED
    BY <1>9, <2>1, <2>3 DEF Lost, Disconnect, UnchangedByLink
<1>10. CASE Connect
  <2>1. UNCHANGED <<pipe, todo>> /\ linked' /\ (~linked => \A e \in End : ~open[e])
    BY <1>0, <1>10, ConnectMoves
  <2>2. \A e \in End : SameFlow(e)
    BY <1>0, <2>1, FlowUnchanged
  <2>3. ASSUME ~linked, NEW e \in End
        PROVE  Emptied(e)
    <3>1. todo'[e] = <<>> /\ pipe'[e] = <<>>
      BY <2>1, <2>3, Ends DEF Quiet
    <3> QED
      BY <1>0, <3>1, FlowUnchanged
  <2> QED
    BY <1>10, <2>1, <2>2, <2>3 DEF Connected, Connect, UnchangedByLink
<1> QED
  BY Steps, <1>1, ConsumesOne, SendsOne, <1>5, <1>6, <1>7, <1>8, <1>9, <1>10,
     RestartMoves DEF Still


-----------------------------------------------------------------------------
(* A session begins without tasks of an earlier boot of the AP *)

Met == {"init", "ready"}

TasksOf(S) == UNION {p.task : p \in S}

Fresh(t)    == t = NoTask \/ t.boot = boots
AllFresh(S) == \A t \in S : Fresh(t)
NodeFresh   == AllFresh(OnNode \cup Carried("node"))

CleanInv ==
  /\ comm_state["ap"] # "init" => NodeFresh /\ AllFresh(Carried("ap"))
  /\ \A c \in Places("ap") : c.p.cs \in Met => NodeFresh /\ AllFresh(TasksOf(c.after))
  /\ linked => AllFresh(Carried("node"))
  /\ comm_state["node"] \in Met => OnNode = {NoTask}
  /\ AllFresh(OnAp)

LEMMA FlowInit ==
  ASSUME Init, NEW e \in End
  PROVE  PacketsTo(e) = {} /\ Places(e) = {} /\ Carried(e) = {}
<1>1. pipe = [f \in End |-> <<>>] /\ todo = [f \in End |-> <<>>]
  BY DEF Init, Pipe!Init, End
<1>2. Flow(e) = <<>> /\ Waiting(e) = {} /\ Coming(e) = {}
  BY <1>1, NoElements, ConcatEmptySeq DEF Flow, Waiting, Coming
<1> QED
  BY <1>2, PlacesEmpty DEF PacketsTo, Places, Carried

LEMMA CleanInit == Init => CleanInv
<1> SUFFICES ASSUME Init PROVE CleanInv
  OBVIOUS
<1>1. /\ linked = FALSE /\ ap = ApStarted /\ node = NodeStarted /\ comm_state["ap"] = "init"
  BY Ends DEF Init, Pipe!Init, End
<1>2. Places("ap") = {}
  BY FlowInit, Ends
<1>3. OnNode = {NoTask} /\ OnAp = {NoTask}
  BY <1>1, Constants DEF ApStarted, NodeStarted, OnAp, OnNode
<1> QED
  BY <1>1, <1>2, <1>3 DEF CleanInv, AllFresh, Fresh

LEMMA FreshMoves ==
  ASSUME TypeOK, KnownInv, [Next]_vars, UNCHANGED boots
  PROVE  /\ \A t \in Tasks \cup {NoTask, ap.request} : Fresh(t)' <=> Fresh(t)
         /\ Fresh(NoTask) /\ Fresh(ap.request)
         /\ NodeFresh => NodeFresh'
         /\ NodeFresh /\ AllFresh(Carried("ap")) => AllFresh(Carried("ap"))'
<1>1. \A t : Fresh(t)' <=> Fresh(t)
  BY DEF Fresh
<1>2. Fresh(NoTask) /\ Fresh(ap.request)
  BY DEF Fresh, KnownInv, RequestKnown
<1>3. NodeFresh => NodeFresh'
  BY <1>1, <1>2, HeldMoves, CarriedMove DEF NodeFresh, AllFresh
<1>4. NodeFresh /\ AllFresh(Carried("ap")) => AllFresh(Carried("ap"))'
  BY <1>1, <1>2, CarriedMove DEF NodeFresh, AllFresh, OnNode
<1> QED
  BY <1>1, <1>2, <1>3, <1>4

\* How an end gets into its state.
LEMMA StateMoves ==
  ASSUME TypeOK, Quiet, [Next]_vars, ~overtaken', NEW e \in End
  PROVE  \/ UNCHANGED comm_state[e]
         \/ Consume(e) /\ Consumed(e)
         \/ /\ comm_state[e] = "reset" /\ comm_state'[e] = "init"
            /\ (e = "ap" /\ ApValidate) \/ (e = "node" /\ NodeValidate)
            /\ Validated(e)
         \/ Reboot(e) /\ Restarted(e)
BY SessionMoves, Ends DEF Consumed, Sent, Validated, Lost, Restarted, Connected, Idle

\* How packets get under way to an end, and are consumed.
LEMMA FlowMoves ==
  ASSUME TypeOK, Quiet, [Next]_vars, ~overtaken', NEW e \in End
  PROVE  \/ Cut(e)
         \/ Consume(e) /\ Consumed(e)
         \/ SendPacket(Peer(e)) /\ Sent(Peer(e))
<1>1. SameFlow(e) \/ Emptied(e) => Cut(e)
  BY DEF SameFlow, Emptied, Cut
<1>2. ASSUME NEW f \in End, Consume(f), Consumed(f)
      PROVE  Cut(e) \/ (Consume(e) /\ Consumed(e))
  BY <1>1, <1>2, Ends DEF Consumed
<1>3. ASSUME NEW f \in End, Restarted(f)
      PROVE  Cut(e)
  BY <1>1, <1>3, Ends DEF Restarted
<1>4. ASSUME NEW f \in End, SendPacket(f), Sent(f)
      PROVE  Cut(e) \/ (SendPacket(Peer(e)) /\ Sent(Peer(e)))
  BY <1>1, <1>4, Ends DEF Sent
<1>5. Validated("ap") \/ Validated("node") \/ Lost \/ Connected \/ Idle => Cut(e)
  BY <1>1, Ends DEF Validated, Lost, Connected, Idle
<1> QED
  BY SessionMoves, <1>2, <1>3, <1>4, <1>5

LEMMA CleanStep ==
  ASSUME TypeOK, Quiet, KnownInv, CleanInv, [Next]_vars, ~overtaken'
  PROVE  CleanInv'
<1>0. ap \in ApType /\ node \in NodeType /\ boots \in Nat /\ LinkTyped
      /\ comm_state["ap"] \in CommState /\ comm_state["node"] \in CommState
  BY Ends, IsTyped
<1>1. comm_state'["node"] \in Met => OnNode' = {NoTask}
  <2>1. OnNode # {} /\ OnNode' # {}
    BY DEF OnNode
  <2>2. comm_state'["node"] \in Met => \A t \in OnNode' : t \in OnNode \cup {NoTask}
    BY HeldMoves DEF Met
  <2>3. comm_state["node"] \in Met /\ comm_state'["node"] \in Met => OnNode' = {NoTask}
    BY <2>1, <2>2 DEF CleanInv
  <2>4. ASSUME Consume("node"), Consumed("node"), comm_state'["node"] \in Met
        PROVE  comm_state["node"] \in Met
    BY <1>0, <2>4 DEF Consumed, NextState, update_comm_state, Met, CommState
  <2>5. NodeValidate => OnNode' = {NoTask}
    BY <1>0, Constants DEF NodeValidate, NodeType, OnNode
  <2>6. Reboot("node") => OnNode' = {NoTask}
    BY <1>0, Constants DEF Reboot, NodeStarted, OnNode
  <2> QED
    BY <2>3, <2>4, <2>5, <2>6, StateMoves, Ends
<1>2. CASE Reboot("ap")
  <2>1. Restarted("ap")
    BY <1>2, RestartMoves, Ends
  <2>2. OnAp' = {NoTask}
    BY <1>2, Constants DEF Reboot, ApStarted, OnAp
  <2> QED
    BY <1>1, <2>1, <2>2 DEF CleanInv, Restarted, Emptied, AllFresh, Fresh
<1>3. CASE UNCHANGED boots
  <2>1. /\ \A t \in Tasks \cup {NoTask, ap.request} : Fresh(t)' <=> Fresh(t)
        /\ Fresh(NoTask) /\ Fresh(ap.request)
        /\ NodeFresh => NodeFresh'
        /\ NodeFresh /\ AllFresh(Carried("ap")) => AllFresh(Carried("ap"))'
    BY <1>3, FreshMoves
  <2>2. comm_state'["ap"] # "init" => NodeFresh' /\ AllFresh(Carried("ap"))'
    <3>1. CASE comm_state["ap"] # "init"
      BY <2>1, <3>1 DEF CleanInv
    <3>2. CASE /\ comm_state["ap"] = "init" /\ comm_state'["ap"] # "init"
               /\ Consume("ap") /\ Consumed("ap")
      <4>1. PICK h \in Places("ap") : /\ h.p = Head(todo["ap"]) /\ h.after = PacketsTo("ap")'
                                      /\ comm_state'["ap"] = NextState("ap", h.p)
        BY <3>2 DEF Consumed
      <4>2. h.p.cs \in Met
        BY <3>2, <4>1 DEF NextState, update_comm_state, Met
      <4>3. NodeFresh /\ AllFresh(TasksOf(h.after))
        BY <4>2 DEF CleanInv
      <4>4. Carried("ap")' = TasksOf(h.after)
        BY <4>1 DEF Carried, TasksOf
      <4>5. TasksOf(h.after) \subseteq Tasks
        BY <1>0, PlacesTo, Ends DEF Tasks, Carried, TasksOf
      <4> QED
        BY <2>1, <4>3, <4>4, <4>5 DEF AllFresh
    <3> QED
      BY <3>1, <3>2, StateMoves, Ends DEF Restarted
  <2>3. ASSUME linked, Produced("node").cs \in Met
        PROVE  NodeFresh
    <3>1. /\ comm_state["node"] # "data" => Produced("node").cs = Reported(comm_state["node"])
          /\ comm_state["node"] = "data" => Produced("node").cs = "data"
      BY ProducedTyped, Ends
    <3>2. comm_state["node"] \in Met
      BY <1>0, <2>3, <3>1 DEF Met, Reported, CommState, Nothing
    <3>3. OnNode = {NoTask} /\ AllFresh(Carried("node"))
      BY <2>3, <3>2 DEF CleanInv
    <3> QED
      BY <3>3 DEF NodeFresh, AllFresh, Fresh
  <2>4. ASSUME NEW c \in Places("ap"), AllFresh(TasksOf(c.after)),
               NEW S, S \subseteq c.after \cup {Produced("node")},
               Produced("node") \in S => NodeFresh
        PROVE  AllFresh(TasksOf(S))'
    <3>1. \A t \in TasksOf(c.after) : t \in Tasks /\ Fresh(t)
      BY <1>0, <2>4, PlacesTo, Ends DEF Tasks, Carried, TasksOf, AllFresh
    <3>2. \A t \in Produced("node").task : t \in OnNode
      BY ProducedTyped, Ends DEF OnNode
    <3>3. Produced("node") \in S => \A t \in Produced("node").task : t \in Tasks /\ Fresh(t)
      BY <2>4, <3>2 DEF NodeFresh, AllFresh, Tasks
    <3>4. \A t \in TasksOf(S) : t \in Tasks /\ Fresh(t)
      BY <2>4, <3>1, <3>3 DEF TasksOf
    <3> QED
      BY <2>1, <3>4 DEF AllFresh
  <2>5. ASSUME NEW d \in Places("ap")', d.p.cs \in Met
        PROVE  NodeFresh' /\ AllFresh(TasksOf(d.after))'
    <3>1. CASE \E c \in Places("ap") : c.p = d.p /\ d.after \subseteq c.after
      <4>1. PICK c \in Places("ap") : c.p = d.p /\ d.after \subseteq c.after
        BY <3>1
      <4>2. NodeFresh /\ AllFresh(TasksOf(c.after))
        BY <2>5, <4>1 DEF CleanInv
      <4> QED
        BY <2>1, <2>4, <4>1, <4>2
    <3>2. CASE Sent("node")
      <4>1. /\ linked
            /\ \/ d.p = Produced("node") /\ d.after = {}
               \/ \E c \in Places("ap") : c.p = d.p /\ d.after = c.after \cup {Produced("node")}
        BY <3>2, Ends DEF Sent
      <4>2. CASE d.p = Produced("node") /\ d.after = {}
        <5>1. NodeFresh'
          BY <2>1, <2>3, <2>5, <4>1, <4>2
        <5> QED
          BY <4>2, <5>1 DEF AllFresh, TasksOf
      <4>3. ASSUME NEW c \in Places("ap"), c.p = d.p, d.after = c.after \cup {Produced("node")}
            PROVE  NodeFresh' /\ AllFresh(TasksOf(d.after))'
        <5>1. NodeFresh /\ AllFresh(TasksOf(c.after))
          BY <2>5, <4>3 DEF CleanInv
        <5> QED
          BY <2>1, <2>4, <4>3, <5>1
      <4> QED
        BY <4>1, <4>2, <4>3
    <3>3. Cut("ap") => \E c \in Places("ap") : c.p = d.p /\ d.after \subseteq c.after
      BY DEF Cut
    <3>4. Consumed("ap") => \E c \in Places("ap") : c.p = d.p /\ d.after \subseteq c.after
      BY DEF Consumed
    <3> QED
      BY FlowMoves, <3>1, <3>2, <3>3, <3>4, Ends
  <2>6. linked' => AllFresh(Carried("node"))'
    <3>1. CASE linked
      BY <2>1, <3>1, CarriedMove DEF CleanInv, AllFresh, Tasks
    <3>2. CASE ~linked /\ Connected
      <4>1. PacketsTo("node")' = {}
        BY <3>2, Ends DEF Connected, Emptied
      <4> QED
        BY <4>1 DEF Carried, AllFresh
    <3>3. CASE ~linked /\ ~linked'
      BY <3>3
    <3> QED
      BY SessionMoves, <3>1, <3>2, <3>3
         DEF Consumed, Sent, Validated, Lost, Restarted, Connected, Idle
  <2>7. AllFresh(OnAp)'
    <3>1. comm_state["ap"] \in {"ready", "data"} => AllFresh(Carried("ap"))
      BY DEF CleanInv
    <3> QED
      BY <2>1, <3>1, HeldMoves DEF CleanInv, AllFresh, Tasks
  <2> QED
    BY <1>1, <2>2, <2>5, <2>6, <2>7 DEF CleanInv
<1> QED
  BY <1>2, <1>3, RequestMoves

\* The response to the request made last, if it has one, is to this very request.
Executed == ap.request.id # 0 /\ ~Pending => ap.response = ap.request

LEMMA ExecutedIf ==
  ASSUME TypeOK, KnownInv, boots = 1 \/ CleanInv
  PROVE  Executed
<1> SUFFICES ASSUME ap.request.id # 0, ~Pending
             PROVE  ap.response = ap.request
  BY DEF Executed
<1>1. ap.response.id = ap.request.id /\ ap.response \in OnAp
  BY DEF Pending, OnAp
<1>2. Known(ap.response) /\ ap.response # NoTask
  BY <1>1, Constants DEF KnownInv, Tasks
<1>3. boots \in Nat /\ ap.response.boot \in Nat
  BY <1>1, IsTyped, TasksTyped, TaskTyped DEF Tasks
<1>4. ap.response.boot = boots
  BY <1>1, <1>2, <1>3 DEF Known, Fresh, CleanInv, AllFresh
<1> QED
  BY <1>1, <1>2, <1>3, <1>4 DEF Known

\* Until a poll finds two packets.
InOrder == overtaken \/ (Quiet /\ CleanInv)

LEMMA InOrderStep ==
  ASSUME TypeOK, KnownInv, InOrder, [Next]_vars
  PROVE  InOrder'
<1>1. CASE overtaken'
  BY <1>1 DEF InOrder
<1>2. CASE ~overtaken'
  <2>1. Quiet /\ CleanInv
    BY <1>2, TurnTyped DEF TurnKept, InOrder
  <2> QED
    BY <1>2, <2>1, QuietStep, CleanStep DEF InOrder
<1> QED
  BY <1>1, <1>2

\* A task the AP takes for completed was executed: the response it holds is to this
\* request of this boot.  Only after a restart of the AP and a poll that found two packets
\* can it be to another.
THEOREM CompletedOnlyExecuted == Spec => []CompletedWasExecuted
<1>1. Init => KnownInv /\ InOrder
  BY QuietInit, KnownInit, CleanInit DEF InOrder
<1>2. TypeOK /\ KnownInv /\ InOrder /\ [Next]_vars => (KnownInv /\ InOrder)'
  BY KnownStep, InOrderStep
<1>3. ASSUME TypeOK, KnownInv, InOrder
      PROVE  CompletedWasExecuted
  <2>1. ~Confusable => boots = 1 \/ CleanInv
    BY <1>3, IsTyped DEF Confusable, InOrder
  <2>2. ~Confusable => Executed
    BY <1>3, <2>1, ExecutedIf
  <2> QED
    BY <2>2 DEF CompletedWasExecuted, Executed
<1> QED
  BY <1>1, <1>2, <1>3, TypeCorrect, PTL DEF Spec

-----------------------------------------------------------------------------
(* How far apart the states of the two ends can be *)

Up == {"ready", "data"}

\* An end that is being reset has a peer that starts anew, and hears of nothing later.
ResetAlone(e) ==
  comm_state[e] = "reset" =>
    comm_state[Peer(e)] = "init" /\ \A p \in PacketsTo(e) : p.cs \notin Up
\* An end in data state hears of a start only from a peer that starts, and of nothing
\* later after it.
StartHeard(e) ==
  comm_state[e] = "data" =>
    \A c \in Places(e) : c.p.cs = "init" =>
      comm_state[Peer(e)] = "init" /\ \A q \in c.after : q.cs \notin Up
\* An end that starts is not met by what was sent before its peer's reset.
NotMetYet(e) ==
  comm_state[e] = "init" /\ comm_state[Peer(e)] \in {"data", "reset"} =>
    \A p \in PacketsTo(e) : p.cs \notin Met
\* When it is consumed, this packet raises the end to data state, if none before did.
Raises(e, c) ==
  /\ c.p.cs \in Up
  /\ comm_state[e] = "ready" \/ (comm_state[e] = "init" /\ \E b \in c.before : b.cs \in Met)
\* An end gets ahead of a peer that starts only on what was left of a lost link.
Remains(e) ==
  comm_state[Peer(e)] = "init" /\ (\E c \in Places(e) : Raises(e, c)) =>
    PacketsTo(Peer(e)) = {} /\ ~linked
\* An end that is about to be in data state does not hear of a start next.
NoStartNext(e) == \A c \in Places(e) : Raises(e, c) => \A q \in c.after : q.cs # "init"

InSession(e) == ResetAlone(e) /\ StartHeard(e) /\ NotMetYet(e) /\ Remains(e) /\ NoStartNext(e)
SessionInv == \A e \in End : InSession(e)

LEMMA SessionInit == Init => SessionInv
<1> SUFFICES ASSUME Init, NEW e \in End PROVE InSession(e)
  BY DEF SessionInv
<1>1. comm_state[e] = "init" /\ comm_state[Peer(e)] = "init"
  BY Ends DEF Init
<1>2. PacketsTo(e) = {} /\ Places(e) = {}
  BY FlowInit
<1> QED
  BY <1>1, <1>2 DEF InSession, ResetAlone, StartHeard, NotMetYet, Remains, NoStartNext

\* update_comm_state, backwards.
LEMMA Transition ==
  ASSUME TypeOK, NEW e \in End, NEW p \in Packet
  PROVE  /\ NextState(e, p) = "reset" <=>
              comm_state[e] = "reset" \/ (comm_state[e] = "data" /\ p.cs = "init")
         /\ NextState(e, p) = "data" <=>
              \/ comm_state[e] = "data" /\ p.cs # "init"
              \/ comm_state[e] = "ready" /\ p.cs \in Up
         /\ NextState(e, p) = "ready" <=>
              \/ comm_state[e] = "ready" /\ p.cs \notin Up
              \/ comm_state[e] = "init" /\ p.cs \in Met
         /\ NextState(e, p) = "init" <=> comm_state[e] = "init" /\ p.cs \notin Met
<1>1. comm_state[e] \in CommState /\ p.cs \in Report
  BY PacketTyped DEF TypeOK
<1> QED
  BY <1>1 DEF NextState, update_comm_state, CommState, Report, Nothing, Up, Met

\* What a packet says of its sender when it is sent.
LEMMA SentState ==
  ASSUME TypeOK, NEW e \in End
  PROVE  /\ Produced(e).cs = "init" <=> comm_state[e] = "init"
         /\ Produced(e).cs \in Met <=> comm_state[e] \in Met
         /\ Produced(e).cs \in Up <=> comm_state[e] \in Up
         /\ Produced(e).cs = "data" <=> comm_state[e] = "data"
<1>1. comm_state[e] \in CommState
  BY DEF TypeOK
<1>2. /\ comm_state[e] # "data" => Produced(e).cs = Reported(comm_state[e])
      /\ comm_state[e] = "data" => Produced(e).cs = "data"
  BY ProducedTyped
<1> QED
  BY <1>1, <1>2 DEF CommState, Reported, Nothing, Up, Met

\* A packet that raises its end did so in its earlier place, too.
LEMMA RaisesMoves ==
  ASSUME TypeOK, NEW e \in End,
         (Cut(e) /\ UNCHANGED comm_state[e]) \/ Consumed(e),
         NEW d \in Places(e)', Raises(e, d)'
  PROVE  \E c \in Places(e) : c.p = d.p /\ Raises(e, c) /\ d.after \subseteq c.after
<1>1. CASE Cut(e) /\ UNCHANGED comm_state[e]
  BY <1>1 DEF Cut, Raises
<1>2. CASE Consumed(e)
  <2> DEFINE p == Head(todo[e])
  <2>1. /\ p \in Packet /\ comm_state'[e] = NextState(e, p)
        /\ \E c \in Places(e) :
             c.p = d.p /\ c.before = d.before \cup {p} /\ c.after = d.after
    BY <1>2 DEF Consumed
  <2> HIDE DEF p
  <2>2. PICK c \in Places(e) : c.p = d.p /\ c.before = d.before \cup {p} /\ c.after = d.after
    BY <2>1
  <2>3. /\ c.p.cs \in Up
        /\ \/ comm_state'[e] = "ready"
           \/ comm_state'[e] = "init" /\ \E b \in c.before : b.cs \in Met
    BY <2>2 DEF Raises
  <2>4. \/ comm_state[e] = "ready"
        \/ comm_state[e] = "init" /\ \E b \in c.before : b.cs \in Met
    BY <2>1, <2>2, <2>3, Transition
  <2> QED
    BY <2>2, <2>3, <2>4 DEF Raises
<1> QED
  BY <1>1, <1>2

LEMMA SessionStep ==
  ASSUME TypeOK, Quiet, SessionInv, [Next]_vars, ~overtaken'
  PROVE  SessionInv'
<1> SUFFICES ASSUME NEW e \in End
             PROVE  InSession(e)'
  BY DEF SessionInv
<1> DEFINE o == Peer(e)
<1>0. /\ o \in End /\ o # e /\ Peer(o) = e /\ \A f \in End : f = e \/ f = o
      /\ comm_state[e] \in CommState /\ comm_state[o] \in CommState /\ LinkTyped
  BY Ends, IsTyped
<1>1. /\ ResetAlone(e) /\ StartHeard(e) /\ NotMetYet(e) /\ Remains(e) /\ NoStartNext(e)
      /\ ResetAlone(o) /\ NotMetYet(o) /\ Remains(o)
  BY <1>0 DEF SessionInv, InSession
<1>2. \A c \in Places(e) : c.p \in PacketsTo(e) /\ c.before \subseteq PacketsTo(e)
  BY <1>0, PlacesTo
<1>3. CASE Idle
  <2>1. UNCHANGED <<comm_state, linked, PacketsTo(e), PacketsTo(o), Places(e)>>
    BY <1>0, <1>3 DEF Idle, SameFlow
  <2> QED
    BY <1>1, <2>1
       DEF InSession, ResetAlone, StartHeard, NotMetYet, Remains, NoStartNext, Raises
<1>4. CASE Lost
  <2>1. /\ UNCHANGED comm_state /\ ~linked' /\ Cut(e) /\ PacketsTo(e)' \subseteq PacketsTo(e)
        /\ PacketsTo(o)' \subseteq PacketsTo(o)
    BY <1>0, <1>4 DEF Lost, Cut
  <2>2. ResetAlone(e)' /\ NotMetYet(e)'
    BY <1>1, <2>1 DEF ResetAlone, NotMetYet
  <2>3. StartHeard(e)'
    BY <1>1, <2>1 DEF StartHeard, Cut
  <2>4. Remains(e)' /\ NoStartNext(e)'
    BY <1>1, <2>1, RaisesMoves DEF Remains, NoStartNext
  <2> QED
    BY <2>2, <2>3, <2>4 DEF InSession
<1>5. CASE Connected
  <2>1. UNCHANGED <<comm_state, PacketsTo(e), PacketsTo(o), Places(e)>>
    BY <1>0, <1>5 DEF Connected, SameFlow
  <2>2. ~linked => Places(e) = {}
    BY <1>5, <2>1 DEF Connected, Emptied
  <2>3. Remains(e)' /\ NoStartNext(e)'
    BY <1>1, <2>1, <2>2 DEF Remains, NoStartNext, Raises
  <2> QED
    BY <1>1, <2>1, <2>3 DEF InSession, ResetAlone, StartHeard, NotMetYet
<1>6. CASE Sent(e)
  <2>1. UNCHANGED <<comm_state, PacketsTo(e), Places(e)>> /\ linked
    BY <1>6 DEF Sent, SameFlow
  <2>2. Remains(e)' /\ NoStartNext(e)'
    BY <1>1, <2>1 DEF Remains, NoStartNext, Raises
  <2> QED
    BY <1>1, <2>1, <2>2 DEF InSession, ResetAlone, StartHeard, NotMetYet
<1>7. CASE Sent(o)
  <2> DEFINE p == Produced(o)
  <2>1. /\ linked /\ UNCHANGED comm_state
        /\ PacketsTo(e)' = PacketsTo(e) \cup {p}
        /\ \A d \in Places(e)' :
             \/ d.p = p /\ d.after = {}
             \/ \E c \in Places(e) :
                  c.p = d.p /\ c.before = d.before /\ d.after = c.after \cup {p}
    BY <1>0, <1>7 DEF Sent
  <2>2. /\ p.cs = "init" <=> comm_state[o] = "init"
        /\ p.cs \in Met <=> comm_state[o] \in Met
        /\ p.cs \in Up <=> comm_state[o] \in Up
    BY <1>0, SentState
  <2> HIDE DEF p
  <2>3. ResetAlone(e)' /\ NotMetYet(e)'
    BY <1>1, <2>1, <2>2 DEF ResetAlone, NotMetYet, Met, Up
  <2>4. StartHeard(e)'
    BY <1>1, <2>1, <2>2 DEF StartHeard, Up
  <2>5. ASSUME NEW d \in Places(e)', Raises(e, d)'
        PROVE  comm_state[o] # "init" /\ \A q \in d.after : q.cs # "init"
    <3>1. CASE d.p = p /\ d.after = {}
      BY <2>2, <2>5, <3>1 DEF Raises, Up
    <3>2. ASSUME NEW c \in Places(e), c.p = d.p, c.before = d.before,
                 d.after = c.after \cup {p}
          PROVE  comm_state[o] # "init" /\ \A q \in d.after : q.cs # "init"
      <4>1. Raises(e, c)
        BY <2>1, <2>5, <3>2 DEF Raises
      <4>2. comm_state[o] # "init" /\ \A q \in c.after : q.cs # "init"
        BY <1>1, <2>1, <4>1 DEF Remains, NoStartNext
      <4> QED
        BY <2>2, <3>2, <4>2
    <3> QED
      BY <2>1, <3>1, <3>2
  <2>6. Remains(e)' /\ NoStartNext(e)'
    BY <2>1, <2>5 DEF Remains, NoStartNext
  <2> QED
    BY <2>3, <2>4, <2>6 DEF InSession
<1>8. CASE Consumed(e)
  <2> DEFINE p == Head(todo[e])
  <2>1. /\ p \in Packet /\ comm_state'[e] = NextState(e, p)
        /\ UNCHANGED <<comm_state[o], linked, PacketsTo(o)>>
        /\ PacketsTo(e)' \subseteq PacketsTo(e)
        /\ \A d \in Places(e)' : \E c \in Places(e) : c.p = d.p /\ c.after = d.after
        /\ \E h \in Places(e) : h.p = p /\ h.after = PacketsTo(e)'
    BY <1>8 DEF Consumed, SameFlow
  <2> HIDE DEF p
  <2>2. PICK h \in Places(e) : h.p = p /\ h.after = PacketsTo(e)'
    BY <2>1
  <2>3. /\ comm_state'[e] = "reset" =>
             comm_state[e] = "reset" \/ (comm_state[e] = "data" /\ p.cs = "init")
        /\ comm_state'[e] = "data" =>
             comm_state[e] = "data" \/ (comm_state[e] = "ready" /\ p.cs \in Up)
    <3> DEFINE next == NextState(e, p)
    <3>1. /\ next = "reset" =>
               comm_state[e] = "reset" \/ (comm_state[e] = "data" /\ p.cs = "init")
          /\ next = "data" =>
               comm_state[e] = "data" \/ (comm_state[e] = "ready" /\ p.cs \in Up)
      BY <2>1, Transition
    <3>2. comm_state'[e] = next
      BY <2>1
    <3> HIDE DEF next
    <3> QED
      BY <3>1, <3>2
  <2>4. ResetAlone(e)'
    <3>1. CASE comm_state[e] = "reset"
      BY <1>1, <2>1, <3>1 DEF ResetAlone
    <3>2. CASE comm_state[e] = "data" /\ p.cs = "init"
      <4>1. comm_state[o] = "init" /\ \A q \in PacketsTo(e)' : q.cs \notin Up
        BY <1>1, <2>2, <3>2 DEF StartHeard
      <4> QED
        BY <2>1, <4>1 DEF ResetAlone
    <3> QED
      BY <2>3, <3>1, <3>2 DEF ResetAlone
  <2>5. StartHeard(e)'
    <3>1. CASE comm_state[e] = "data"
      BY <1>1, <2>1, <3>1 DEF StartHeard
    <3>2. CASE comm_state[e] = "ready" /\ p.cs \in Up
      <4>1. \A q \in PacketsTo(e)' : q.cs # "init"
        BY <1>1, <2>2, <3>2 DEF NoStartNext, Raises
      <4>2. \A d \in Places(e)' : d.p \in PacketsTo(e)'
        <5>1. LinkTyped'
          BY TypeStep, IsTyped DEF TypeOK, LinkTyped
        <5> QED
          BY <5>1, PlacesNext
      <4> QED
        BY <4>1, <4>2 DEF StartHeard
    <3> QED
      BY <2>3, <3>1, <3>2 DEF StartHeard
  <2>6. NotMetYet(e)'
    BY <1>1, <2>1, Transition DEF NotMetYet
  <2>7. Remains(e)' /\ NoStartNext(e)'
    BY <1>1, <1>8, <2>1, RaisesMoves DEF Remains, NoStartNext
  <2> QED
    BY <2>4, <2>5, <2>6, <2>7 DEF InSession
<1>9. CASE Consumed(o)
  <2> DEFINE p == Head(todo[o])
  <2>1. /\ p \in Packet /\ comm_state'[o] = NextState(o, p)
        /\ UNCHANGED <<comm_state[e], linked, PacketsTo(e), Places(e)>>
        /\ PacketsTo(o)' \subseteq PacketsTo(o) /\ p \in PacketsTo(o)
        /\ \E h \in Places(o) : h.p = p
    BY <1>0, <1>9 DEF Consumed, SameFlow
  <2> HIDE DEF p
  <2>2. comm_state[o] = "init" /\ comm_state[e] \in {"data", "reset"} => comm_state'[o] = "init"
    BY <1>0, <1>1, <2>1, Transition DEF NotMetYet
  <2>3. ResetAlone(e)' /\ StartHeard(e)'
    BY <1>1, <2>1, <2>2 DEF ResetAlone, StartHeard
  <2>4. NotMetYet(e)'
    <3>1. CASE comm_state[o] \in {"data", "reset"}
      BY <1>1, <2>1, <3>1 DEF NotMetYet
    <3>2. CASE comm_state[o] = "ready" /\ p.cs \in Up /\ comm_state[e] = "init"
      <4>1. PacketsTo(e) = {}
        BY <1>0, <1>1, <2>1, <3>2 DEF Remains, Raises
      <4> QED
        BY <2>1, <4>1 DEF NotMetYet
    <3> QED
      BY <1>0, <2>1, <3>1, <3>2, Transition DEF NotMetYet
  <2>5. comm_state'[o] = "init" => comm_state[o] = "init"
    BY <1>0, <2>1, Transition
  <2>6. Remains(e)' /\ NoStartNext(e)'
    BY <1>1, <2>1, <2>5 DEF Remains, NoStartNext, Raises
  <2> QED
    BY <2>3, <2>4, <2>6 DEF InSession
<1>10. CASE Validated(e)
  <2>1. /\ comm_state[e] = "reset" /\ comm_state'[e] = "init"
        /\ UNCHANGED <<comm_state[o], PacketsTo(e), Places(e)>>
    BY <1>10 DEF Validated, SameFlow
  <2>2. comm_state[o] = "init" /\ \A c \in Places(e) : c.p.cs \notin Up
    BY <1>1, <1>2, <2>1 DEF ResetAlone
  <2> QED
    BY <2>1, <2>2
       DEF InSession, ResetAlone, StartHeard, NotMetYet, Remains, NoStartNext, Raises
<1>11. CASE Validated(o)
  <2>1. /\ comm_state[o] = "reset" /\ comm_state'[o] = "init"
        /\ UNCHANGED <<comm_state[e], PacketsTo(e), Places(e)>>
    BY <1>0, <1>11 DEF Validated, SameFlow
  <2>2. comm_state[e] = "init" /\ \A c \in Places(e) : \A b \in c.before : b.cs \notin Met
    BY <1>0, <1>1, <1>2, <2>1 DEF ResetAlone, NotMetYet
  <2> QED
    BY <2>1, <2>2
       DEF InSession, ResetAlone, StartHeard, NotMetYet, Remains, NoStartNext, Raises
<1>12. CASE Restarted(e)
  <2>1. comm_state'[e] = "init" /\ PacketsTo(e)' = {} /\ Places(e)' = {}
    BY <1>12 DEF Restarted, Emptied
  <2> QED
    BY <2>1 DEF InSession, ResetAlone, StartHeard, NotMetYet, Remains, NoStartNext
<1>13. CASE Restarted(o)
  <2>1. /\ comm_state'[o] = "init" /\ UNCHANGED comm_state[e] /\ ~linked'
        /\ PacketsTo(o)' = {} /\ Cut(e) /\ PacketsTo(e)' \subseteq PacketsTo(e)
    BY <1>0, <1>13 DEF Restarted, Emptied, Cut
  <2>2. ResetAlone(e)' /\ NotMetYet(e)'
    BY <1>1, <2>1 DEF ResetAlone, NotMetYet
  <2>3. StartHeard(e)'
    BY <1>1, <2>1 DEF StartHeard, Cut
  <2>4. Remains(e)' /\ NoStartNext(e)'
    BY <1>1, <2>1, RaisesMoves DEF Remains, NoStartNext
  <2> QED
    BY <2>2, <2>3, <2>4 DEF InSession
<1> QED
  BY SessionMoves, Ends, <1>0, <1>3, <1>4, <1>5, <1>6, <1>7, <1>8, <1>9, <1>10,
     <1>11, <1>12, <1>13

-----------------------------------------------------------------------------
(* Where the tasks of the AP's current boot can be *)

Plain == \A e \in End : \A p \in PacketsTo(e) : p.cs # "data" => p.task = {}

Live(t) == t # NoTask /\ t.boot = boots

NoMet(S) == \A p \in S : p.cs \notin Met

\* The node is in the AP's session, or will not enter it before a reset of its own.
Joined == comm_state["node"] \in {"init", "data"} /\ NoMet(PacketsTo("node"))

Engaged == comm_state["ap"] \in {"data", "reset"}

LiveInv ==
  /\ (\E t \in OnNode \cup OnAp \cup Carried("ap") : Live(t)) => Engaged /\ Joined
  /\ \A c \in Places("node") : (\E t \in c.p.task : Live(t)) =>
       \/ Engaged /\ NoMet(c.after)
       \/ comm_state["node"] = "init" /\ NoMet(c.before)

LEMMA PlainStep ==
  ASSUME TypeOK, Plain, [Next]_vars
  PROVE  Plain'
<1>1. \A e \in End : Produced(Peer(e)).cs # "data" => Produced(Peer(e)).task = {}
  BY ProducedTyped, Ends
<1> QED
  BY <1>1, PacketsMove DEF Plain

LEMMA JoinedStays ==
  ASSUME TypeOK, Quiet, [Next]_vars, ~overtaken', Engaged, Joined
  PROVE  Joined'
<1>1. /\ Produced("ap").cs \notin Met
      /\ comm_state["node"] # "reset"
  BY SentState, Ends DEF Engaged, Joined, Met
<1>2. PacketsTo("node")' \subseteq PacketsTo("node") \cup {Produced("ap")}
  BY PacketsMove, Ends
<1>3. Consumed("node") => comm_state'["node"] \in {"init", "data"}
  BY Transition, Ends DEF Consumed, Joined, NoMet, Met, Up
<1>4. comm_state'["node"] \in {"init", "data"}
  BY <1>1, <1>3, StateMoves, Ends DEF Joined, Restarted
<1> QED
  BY <1>1, <1>2, <1>4 DEF Joined, NoMet

LEMMA EngagedStays ==
  ASSUME TypeOK, Quiet, [Next]_vars, ~overtaken', Engaged
  PROVE  \/ Engaged'
         \/ ApValidate /\ Validated("ap")
         \/ Reboot("ap") /\ Restarted("ap")
<1>1. Consumed("ap") => Engaged'
  BY Transition, Ends DEF Consumed, Engaged, Met, Up, NextState, update_comm_state
<1> QED
  BY <1>1, StateMoves, Ends DEF Engaged

\* A place at the node, before a step: it is kept, with less after it, or the packet
\* before it is consumed, or one more is sent after it.
LEMMA NodePlaces ==
  ASSUME TypeOK, Quiet, [Next]_vars, ~overtaken', NEW d \in Places("node")'
  PROVE  \/ /\ comm_state'["node"] = comm_state["node"] \/ comm_state'["node"] = "init"
            /\ \E c \in Places("node") :
                 c.p = d.p /\ c.before = d.before /\ d.after \subseteq c.after
         \/ /\ Consumed("node")
            /\ \E c \in Places("node") :
                 c.p = d.p /\ c.before = d.before \cup {Head(todo["node"])} /\ c.after = d.after
         \/ /\ SendPacket("ap") /\ UNCHANGED comm_state
            /\ d.p = Produced("ap") /\ d.before = PacketsTo("node") /\ d.after = {}
         \/ /\ SendPacket("ap") /\ UNCHANGED comm_state
            /\ \E c \in Places("node") : /\ c.p = d.p /\ c.before = d.before
                                         /\ d.after = c.after \cup {Produced("ap")}
<1>1. CASE Consumed("node")
  BY <1>1 DEF Consumed
<1>2. CASE SendPacket("ap") /\ Sent("ap")
  BY <1>2, Ends DEF Sent
<1>3. CASE Cut("node") /\ ~Consumed("node")
  <2>1. comm_state'["node"] = comm_state["node"] \/ comm_state'["node"] = "init"
    BY <1>3, StateMoves, Ends DEF Restarted
  <2> QED
    BY <1>3, <2>1 DEF Cut
<1> QED
  BY FlowMoves, Ends, <1>1, <1>2, <1>3

LEMMA LiveStep ==
  ASSUME TypeOK, Quiet, KnownInv, CleanInv, SessionInv, Plain, LiveInv,
         [Next]_vars, ~overtaken'
  PROVE  LiveInv'
<1>0. /\ ap \in ApType /\ boots \in Nat /\ LinkTyped
      /\ comm_state["node"] \in CommState /\ comm_state["ap"] \in CommState
  BY Ends, IsTyped
<1>1. CASE boots' = boots + 1
  <2>1. \A t \in Tasks' : ~Live(t)'
    <3>1. \A t \in Tasks \cup {ap.request} : t = NoTask \/ t.boot <= boots
      BY <1>0, TasksTyped, TaskTyped DEF KnownInv, Known, RequestKnown
    <3> QED
      BY <1>0, <1>1, <3>1, TasksMove, Constants, TasksTyped, TaskTyped DEF Live
  <2>2. OnNode' \cup OnAp' \cup Carried("ap")' \cup Carried("node")' \subseteq Tasks'
    BY DEF Tasks
  <2>3. \A d \in Places("node")' : d.p.task \subseteq Carried("node")'
    <3>1. LinkTyped'
      BY TypeStep, IsTyped DEF TypeOK, LinkTyped
    <3>2. \A d \in Places("node")' : d.p \in PacketsTo("node")'
      BY <3>1, PlacesNext, Ends
    <3> QED
      BY <3>2 DEF Carried
  <2> QED
    BY <2>1, <2>2, <2>3 DEF LiveInv
<1>2. CASE UNCHANGED boots
  <2>1. \A t : Live(t)' <=> Live(t)
    BY <1>2 DEF Live
  <2>2. ~Live(NoTask)
    BY DEF Live
  <2>3. ~Reboot("ap")
    BY <1>0, <1>2, Ends, IsTyped DEF Reboot
  <2>4. CASE ApValidate /\ Validated("ap")
    <3>1. /\ comm_state["ap"] = "reset" /\ UNCHANGED comm_state["node"]
          /\ SameFlow("ap") /\ SameFlow("node")
      BY <2>4, Ends DEF Validated
    <3>2. comm_state["node"] = "init" /\ \A p \in PacketsTo("ap") : p.cs \notin Up
      BY <3>1, Ends DEF SessionInv, InSession, ResetAlone
    <3>3. NoMet(PacketsTo("node"))
      BY <3>1, <3>2, Ends DEF SessionInv, InSession, NotMetYet, NoMet
    <3>4. OnNode' = {NoTask}
      BY <2>4, <3>2 DEF CleanInv, Met, ApValidate, OnNode
    <3>5. OnAp' = {NoTask}
      BY <1>0, <2>4, Constants DEF ApValidate, ApCleared, ApType, OnAp
    <3>6. Carried("ap")' = {}
      BY <3>1, <3>2, Ends DEF Plain, Up, Carried, SameFlow
    <3>7. \A d \in Places("node")' : comm_state'["node"] = "init" /\ NoMet(d.before)
      <4>1. \A c \in Places("node") : c.before \subseteq PacketsTo("node")
        BY <1>0, PlacesTo, Ends
      <4> QED
        BY <3>1, <3>2, <3>3, <4>1 DEF SameFlow, NoMet
    <3> QED
      BY <2>1, <2>2, <3>4, <3>5, <3>6, <3>7 DEF LiveInv
  <2>5. CASE ~(ApValidate /\ Validated("ap"))
    <3>1. Engaged => Engaged'
      BY <2>3, <2>5, EngagedStays
    <3>2. (\E t \in OnNode' \cup OnAp' \cup Carried("ap")' : Live(t)') => Engaged' /\ Joined'
      <4>1. (\E t \in OnNode \cup OnAp \cup Carried("ap") : Live(t)) => Engaged' /\ Joined'
        BY <3>1, JoinedStays DEF LiveInv
      <4>2. ASSUME NEW t \in Head(todo["node"]).task, Live(t),
                   Consume("node"), comm_state'["node"] = "data"
            PROVE  Engaged' /\ Joined'
        <5> DEFINE p == Head(todo["node"])
        <5>1. Consumed("node")
          BY <4>2, ConsumesOne, Ends
        <5>2. /\ p \in Packet /\ comm_state'["node"] = NextState("node", p)
              /\ \E h \in Places("node") : h.p = p /\ h.after = PacketsTo("node")'
          BY <5>1 DEF Consumed
        <5>3. \E u \in p.task : Live(u)
          BY <4>2
        <5> HIDE DEF p
        <5>4. comm_state["node"] # "init"
          BY <4>2, <5>2, Transition, Ends
        <5>5. Engaged /\ NoMet(PacketsTo("node")')
          BY <5>2, <5>3, <5>4 DEF LiveInv
        <5> QED
          BY <3>1, <4>2, <5>5 DEF Joined, NoMet
      <4>3. Carried("ap")' \subseteq Carried("ap") \cup OnNode
        BY CarriedMove DEF OnNode
      <4>4. \A t \in OnAp' : t \in OnAp \cup {NoTask} \cup Carried("ap")
        BY HeldMoves
      <4> QED
        BY <2>1, <2>2, <4>1, <4>2, <4>3, <4>4, HeldMoves
    <3>3. ASSUME NEW d \in Places("node")', \E t \in d.p.task : Live(t)
          PROVE  \/ Engaged' /\ NoMet(d.after)
                 \/ comm_state'["node"] = "init" /\ NoMet(d.before)
      <4>1. \A c \in Places("node") : c.p = d.p =>
              \/ Engaged' /\ NoMet(c.after)
              \/ comm_state["node"] = "init" /\ NoMet(c.before)
        BY <3>1, <3>3 DEF LiveInv
      <4>2. CASE /\ comm_state'["node"] = comm_state["node"] \/ comm_state'["node"] = "init"
                 /\ \E c \in Places("node") :
                      c.p = d.p /\ c.before = d.before /\ d.after \subseteq c.after
        BY <4>1, <4>2 DEF NoMet
      <4>3. ASSUME Consumed("node"), NEW c \in Places("node"), c.p = d.p, c.after = d.after,
                   c.before = d.before \cup {Head(todo["node"])}
            PROVE  \/ Engaged' /\ NoMet(d.after)
                   \/ comm_state'["node"] = "init" /\ NoMet(d.before)
        <5> DEFINE p == Head(todo["node"])
        <5>1. p \in Packet /\ comm_state'["node"] = NextState("node", p)
          BY <4>3 DEF Consumed
        <5>2. c.before = d.before \cup {p}
          BY <4>3
        <5> HIDE DEF p
        <5>3. comm_state["node"] = "init" /\ NoMet(c.before) =>
                comm_state'["node"] = "init" /\ NoMet(d.before)
          BY <5>1, <5>2, Transition, Ends DEF NoMet
        <5> QED
          BY <4>1, <4>3, <5>3
      <4>4. CASE SendPacket("ap") /\ d.p = Produced("ap") /\ d.after = {}
        <5>1. Produced("ap").task # {} => comm_state["ap"] = "data"
          BY ProducedTyped, Ends
        <5> QED
          BY <3>1, <3>3, <4>4, <5>1 DEF Engaged, NoMet
      <4>5. ASSUME UNCHANGED comm_state, NEW c \in Places("node"), c.p = d.p,
                   c.before = d.before, d.after = c.after \cup {Produced("ap")}
            PROVE  \/ Engaged' /\ NoMet(d.after)
                   \/ comm_state'["node"] = "init" /\ NoMet(d.before)
        <5>1. Engaged => Produced("ap").cs \notin Met
          BY SentState, Ends DEF Engaged, Met
        <5>2. Engaged' <=> Engaged
          BY <4>5 DEF Engaged
        <5> QED
          BY <4>1, <4>5, <5>1, <5>2 DEF NoMet
      <4> QED
        BY NodePlaces, <4>2, <4>3, <4>4, <4>5
    <3> QED
      BY <2>1, <3>2, <3>3 DEF LiveInv
  <2> QED
    BY <2>4, <2>5
<1> QED
  BY <1>1, <1>2, RequestMoves

-----------------------------------------------------------------------------
(* An edit is made, and goes to the node, within one session *)

Edit(t) == ~t.nav

EditInv ==
  /\ ~ap.reset_screen => ap.request.id # 0
  /\ Edit(ap.request) => Engaged /\ Joined
  /\ \A c \in Places("node") : (\E t \in c.p.task : Edit(t)) =>
       comm_state["node"] \in {"init", "data"} /\ NoMet(c.before)

\* An edit follows a request that the node has answered in the same boot.
LEMMA EditFollows ==
  ASSUME TypeOK, KnownInv, LiveInv, EditInv, Executed, EditEvent
  PROVE  /\ ap.response = ap.request /\ ap.request.id = ap.last_id
         /\ ap.request.boot = boots /\ Engaged /\ Joined
<1>1. ap.request.id # 0 /\ ~Pending
  BY DEF EditEvent, EditInv
<1>2. ap.response = ap.request /\ ap.request # NoTask
  BY <1>1, Constants DEF Executed
<1>3. ap.request.id = ap.last_id /\ ap.request.boot = boots
  BY <1>2 DEF KnownInv, RequestKnown
<1>4. Live(ap.response) /\ ap.response \in OnAp
  BY <1>2, <1>3 DEF Live, OnAp
<1> QED
  BY <1>2, <1>3, <1>4 DEF LiveInv

LEMMA EditStep ==
  ASSUME TypeOK, Quiet, KnownInv, LiveInv, EditInv, Executed,
         [Next]_vars, ~overtaken'
  PROVE  EditInv'
<1>0. /\ ap \in ApType /\ boots \in Nat /\ ap.last_id \in Nat
      /\ comm_state["node"] \in CommState /\ comm_state["ap"] \in CommState
  BY Ends, IsTyped DEF ApType
<1>1. /\ ~ap'.reset_screen => ap'.request.id # 0
      /\ Edit(ap'.request) => Engaged' /\ Joined'
  <2>1. CASE UNCHANGED <<ap.request, ap.last_id, ap.reset_screen, boots>>
    <3>1. ap.request = NoTask \/ ~(ApValidate \/ Reboot("ap"))
      <4>1. ApValidate => ap'.request = NoTask
        BY <1>0 DEF ApValidate, ApCleared, ApType
      <4>2. Reboot("ap") => ap'.request = NoTask
        BY DEF Reboot, ApStarted
      <4> QED
        BY <2>1, <4>1, <4>2
    <3>2. Edit(ap.request) => ap.request # NoTask
      BY Constants DEF Edit
    <3> QED
      BY <2>1, <3>1, <3>2, JoinedStays, EngagedStays DEF EditInv
  <2>2. CASE ap'.request = NoTask /\ ap'.reset_screen
    BY <2>2, Constants DEF Edit
  <2>3. ASSUME NEW nav \in BOOLEAN,
               ap'.request = [id |-> ap.last_id + 1, boot |-> boots, nav |-> nav],
               NewRequest(nav), nav \/ EditEvent
        PROVE  /\ ~ap'.reset_screen => ap'.request.id # 0
               /\ Edit(ap'.request) => Engaged' /\ Joined'
    <3>1. ap'.request.id = ap.last_id + 1 /\ ap'.request.nav = nav
      BY <2>3
    <3>2. ap'.request.id # 0
      BY <1>0, <3>1
    <3>3. EditEvent => Engaged /\ Joined
      BY EditFollows
    <3>4. UNCHANGED comm_state
      BY <2>3 DEF NewRequest
    <3>5. EditEvent => Engaged' /\ Joined'
      BY <3>3, <3>4, JoinedStays DEF Engaged
    <3> QED
      BY <2>3, <3>1, <3>2, <3>5 DEF Edit
  <2> QED
    BY RequestMoves, <2>1, <2>2, <2>3
<1>2. ASSUME NEW d \in Places("node")', \E t \in d.p.task : Edit(t)
      PROVE  comm_state'["node"] \in {"init", "data"} /\ NoMet(d.before)
  <2>1. \A c \in Places("node") : c.p = d.p =>
          comm_state["node"] \in {"init", "data"} /\ NoMet(c.before)
    BY <1>2 DEF EditInv
  <2>2. ASSUME Consumed("node"), NEW c \in Places("node"), c.p = d.p,
               c.before = d.before \cup {Head(todo["node"])}
        PROVE  comm_state'["node"] \in {"init", "data"} /\ NoMet(d.before)
    <3> DEFINE p == Head(todo["node"])
    <3>1. p \in Packet /\ comm_state'["node"] = NextState("node", p)
      BY <2>2 DEF Consumed
    <3>2. c.before = d.before \cup {p}
      BY <2>2
    <3> HIDE DEF p
    <3>3. p.cs \notin Met /\ NoMet(d.before) /\ comm_state["node"] \in {"init", "data"}
      BY <2>1, <2>2, <3>2 DEF NoMet
    <3>4. comm_state'["node"] \in {"init", "data"}
      BY <3>1, <3>3, Transition, Ends DEF Met
    <3> QED
      BY <3>3, <3>4
  <2>3. CASE d.p = Produced("ap") /\ d.before = PacketsTo("node") /\ UNCHANGED comm_state
    <3>1. \A t \in Produced("ap").task : t = ap.request
      BY ProducedTyped, Ends
    <3>2. Edit(ap.request)
      BY <1>2, <2>3, <3>1
    <3> QED
      BY <2>3, <3>2 DEF EditInv, Joined
  <2> QED
    BY NodePlaces, <2>1, <2>2, <2>3
<1> QED
  BY <1>1, <1>2 DEF EditInv

-----------------------------------------------------------------------------
(* Tasks reach the node in the order in which they were issued *)

Le(s, t) == s.id = 0 \/ t.id = 0 \/ ~Older(t, s)
Precede(S, T) == \A s \in S, t \in T : Le(s, t)

Unread == IF node.sb_request.new THEN {node.sb_request.task} ELSE {}
Ahead  == Carried("node") \cup {ap.request}

OrderInv ==
  /\ Precede({node.response}, {node.request} \cup Unread \cup Ahead)
  /\ Precede({node.request}, Unread \cup Ahead)
  /\ Precede(Unread, Ahead)
  /\ \A c \in Places("node") : Precede(c.p.task, TasksOf(c.after) \cup {ap.request})

\* What a step does to the tasks at the node, and to the newest it has executed.
LEMMA NodeMoves ==
  ASSUME TypeOK, [Next]_vars
  PROVE  \/ UNCHANGED <<node.response, node.request, node.sb_request, newest>>
         \/ /\ Consume("node") /\ comm_state'["node"] = "data"
            /\ UNCHANGED <<node.response, node.request, newest>>
            /\ \E t \in Task : /\ Head(todo["node"]).task = {t}
                               /\ node'.sb_request = Written(t)
         \/ /\ node.sb_request.new /\ node'.request = node.sb_request.task
            /\ node'.sb_request.new = FALSE /\ UNCHANGED <<node.response, newest>>
         \/ /\ Work /\ node'.response = node.request
            /\ UNCHANGED <<node.request, node.sb_request>>
            /\ newest' = IF Older(newest, node.request) THEN node.request ELSE newest
         \/ /\ node'.response = NoTask /\ node'.request = NoTask
            /\ node'.sb_request = Cleared /\ comm_state'["node"] = "init"
            /\ UNCHANGED newest
<1>0. /\ node \in NodeType /\ LinkTyped /\ comm_state \in [End -> CommState]
  BY IsTyped
<1>1. UNCHANGED <<node, newest>> =>
        UNCHANGED <<node.response, node.request, node.sb_request, newest>>
  OBVIOUS
<1>2. ASSUME NEW e \in End, Consume(e)
      PROVE  \/ UNCHANGED <<node.response, node.request, node.sb_request, newest>>
             \/ /\ Consume("node") /\ comm_state'["node"] = "data"
                /\ UNCHANGED <<node.response, node.request, newest>>
                /\ \E t \in Task : /\ Head(todo["node"]).task = {t}
                                   /\ node'.sb_request = Written(t)
  <2> DEFINE p == Head(todo[e])
  <2>1. p \in Packet
    BY <1>0, <1>2, ConsumeMoves
  <2>2. /\ UNCHANGED newest
        /\ \/ UNCHANGED node
           \/ ApTakes(p)
           \/ e = "node" /\ NodeTakes(p) /\ comm_state'[e] = "data"
    BY <1>0, <1>2, ConsumeEffect
  <2> HIDE DEF p
  <2>3. ApTakes(p) => UNCHANGED node
    BY DEF ApTakes
  <2>4. CASE e = "node" /\ NodeTakes(p) /\ comm_state'[e] = "data"
    <3>1. /\ node'.request = node.request /\ node'.response = node.response
          /\ \/ node'.sb_request = node.sb_request
             \/ \E t \in Task : p.task = {t} /\ node'.sb_request = Written(t)
      BY <1>0, <2>1, <2>4, NodeTakesEffect
    <3>2. Consume("node") /\ p = Head(todo["node"])
      BY <1>2, <2>4 DEF p
    <3> QED
      BY <2>2, <2>4, <3>1, <3>2
  <2> QED
    BY <1>1, <2>2, <2>3, <2>4
<1>3. CASE ReadRequest
  <2>1. /\ node.sb_request.new /\ node'.request = node.sb_request.task
        /\ node'.sb_request.new = FALSE /\ node'.response = node.response
    BY <1>0, <1>3 DEF ReadRequest, NodeType, Buffer
  <2>2. UNCHANGED newest
    BY <1>3 DEF ReadRequest
  <2> QED
    BY <2>1, <2>2
<1>4. CASE Work
  <2>1. /\ node'.response = node.request /\ node'.request = node.request
        /\ node'.sb_request = node.sb_request
    BY <1>0, <1>4 DEF Work, NodeType
  <2>2. newest' = IF Older(newest, node.request) THEN node.request ELSE newest
    BY <1>4 DEF Work
  <2> QED
    BY <1>4, <2>1, <2>2
<1>5. CASE NodeValidate
  <2>1. /\ node'.response = NoTask /\ node'.request = NoTask /\ node'.sb_request = Cleared
    BY <1>0, <1>5 DEF NodeValidate, NodeType
  <2>2. comm_state'["node"] = "init" /\ UNCHANGED newest
    BY <1>0, <1>5, Ends DEF NodeValidate
  <2> QED
    BY <2>1, <2>2
<1>6. CASE Reboot("node")
  <2>1. node' = NodeStarted /\ UNCHANGED newest
    BY <1>6 DEF Reboot
  <2>2. comm_state'["node"] = "init"
    BY <1>0, <1>6, Ends DEF Reboot
  <2> QED
    BY <2>1, <2>2 DEF NodeStarted
<1>7. Reboot("ap") => UNCHANGED <<node, newest>>
  BY DEF Reboot
<1>8. CASE \/ \E e \in End : TakePackets(e) \/ SendPacket(e)
           \/ ApValidate \/ ReadResponse \/ NavEvent \/ EditEvent
           \/ Connect \/ Lose \/ Disconnect \/ UNCHANGED vars
  <2>1. UNCHANGED <<node, newest>>
    BY <1>8 DEF TakePackets, SendPacket, ApValidate, ReadResponse, NavEvent, EditEvent,
         NewRequest, Connect, Lose, Disconnect, UnchangedByLink, vars
  <2> QED
    BY <1>1, <2>1
<1> QED
  BY <1>1, <1>2, <1>3, <1>4, <1>5, <1>6, <1>7, <1>8, Ends DEF Next, Core0

\* A request that replaces another is not older than any task under way.
LEMMA RequestIsLast ==
  ASSUME TypeOK, KnownInv, [Next]_vars
  PROVE  \A s \in Tasks \cup {ap.request} : Le(s, ap.request) => Le(s, ap'.request)
<1>1. /\ boots \in Nat /\ boots >= 1 /\ ap.last_id \in Nat
  BY Ends, Constants, IsTyped DEF ApType
<1>2. \A s \in Tasks \cup {ap.request} : Known(s) /\ s.id \in Nat /\ s.boot \in Nat
  BY TasksTyped, TaskTyped, <1>1 DEF KnownInv, RequestKnown, Known
<1>3. ASSUME NEW nav \in BOOLEAN, NEW s \in Tasks \cup {ap.request},
             ap'.request = [id |-> ap.last_id + 1, boot |-> boots, nav |-> nav]
      PROVE  Le(s, ap'.request)
  <2>1. ap'.request.id = ap.last_id + 1 /\ ap'.request.boot = boots
    BY <1>3
  <2>2. s.id = 0 \/ s.boot < boots \/ (s.boot = boots /\ s.id <= ap.last_id)
    BY <1>2, Constants DEF Known
  <2> QED
    BY <1>1, <1>2, <2>1, <2>2 DEF Le, Older
<1>4. ap'.request = NoTask => \A s : Le(s, ap'.request)
  BY Constants DEF Le
<1> QED
  BY RequestMoves, <1>3, <1>4

LEMMA LeSelf == \A t \in Task : Le(t, t)
BY TaskTyped DEF Le, Older

LEMMA OrderStep ==
  ASSUME TypeOK, Quiet, KnownInv, OrderInv, [Next]_vars, ~overtaken'
  PROVE  OrderInv'
<1>0. /\ LinkTyped /\ Carried("node") \subseteq Tasks
      /\ \A t \in Tasks \cup {ap.request} : t \in Task /\ Le(t, t)
      /\ \A t \in Produced("ap").task : t = ap.request
  BY IsTyped, TasksTyped, LeSelf, ProducedTyped, Ends DEF Tasks
<1>1. \A c \in Places("node") :
        c.p.task \cup TasksOf(c.after) \subseteq Carried("node")
  BY <1>0, PlacesTo, Ends DEF Carried, TasksOf
<1>2. Carried("node")' \subseteq Ahead
  BY CarriedMove DEF Ahead
<1>3. \A s \in Tasks \cup {ap.request} : Le(s, ap.request) => Le(s, ap'.request)
  BY RequestIsLast
<1>4. ASSUME NEW d \in Places("node")'
      PROVE  Precede(d.p.task, TasksOf(d.after) \cup {ap'.request})
  <2>1. ASSUME NEW c \in Places("node"), c.p = d.p,
               d.after \subseteq c.after \cup {Produced("ap")}
        PROVE  Precede(d.p.task, TasksOf(d.after) \cup {ap.request})
    <3>1. TasksOf(d.after) \subseteq TasksOf(c.after) \cup {ap.request}
      BY <1>0, <2>1 DEF TasksOf
    <3>2. Precede(c.p.task, TasksOf(c.after) \cup {ap.request})
      BY DEF OrderInv
    <3> QED
      BY <2>1, <3>1, <3>2 DEF Precede
  <2>2. ASSUME d.p = Produced("ap"), d.after = {}
        PROVE  Precede(d.p.task, TasksOf(d.after) \cup {ap.request})
    <3>1. Le(ap.request, ap.request) /\ TasksOf(d.after) = {}
      BY <1>0, <2>2 DEF TasksOf
    <3> QED
      BY <1>0, <2>2, <3>1 DEF Precede
  <2>3. \/ \E c \in Places("node") :
             c.p = d.p /\ d.after \subseteq c.after \cup {Produced("ap")}
        \/ d.p = Produced("ap") /\ d.after = {}
    BY NodePlaces
  <2>4. Precede(d.p.task, TasksOf(d.after) \cup {ap.request})
    BY <2>1, <2>2, <2>3
  <2>5. d.p.task \subseteq Tasks \cup {ap.request}
    BY <1>0, <1>1, <2>3
  <2> QED
    BY <1>3, <2>4, <2>5 DEF Precede
<1>6. \A s \in Tasks : Precede({s}, Ahead) => Precede({s}, Ahead')
  BY <1>2, <1>3 DEF Precede, Ahead
<1>7. /\ node.response \in Tasks /\ node.request \in Tasks
      /\ node.sb_request.task \in Tasks
  BY DEF Tasks, OnNode
<1>8. ASSUME Precede({node'.response}, {node'.request} \cup Unread' \cup Ahead'),
             Precede({node'.request}, Unread' \cup Ahead'),
             Precede(Unread', Ahead')
      PROVE  OrderInv'
  BY <1>4, <1>8 DEF OrderInv
<1>9. /\ Precede({node.response}, {node.request} \cup Unread \cup Ahead')
      /\ Precede({node.request}, Unread \cup Ahead')
      /\ Precede(Unread, Ahead')
  BY <1>6, <1>7 DEF OrderInv, Precede, Unread
<1>10. CASE UNCHANGED <<node.response, node.request, node.sb_request, newest>>
  <2>1. Unread' = Unread
    BY <1>10 DEF Unread
  <2> QED
    BY <1>8, <1>9, <1>10, <2>1
<1>11. ASSUME NEW t \in Task, Head(todo["node"]).task = {t}, node'.sb_request = Written(t),
              Consume("node"), UNCHANGED <<node.response, node.request>>
       PROVE  OrderInv'
  <2>1. Consumed("node")
    BY <1>11, ConsumesOne, Ends
  <2>2. PICK h \in Places("node") : h.p = Head(todo["node"]) /\ h.after = PacketsTo("node")'
    BY <2>1 DEF Consumed
  <2>3. t \in Tasks /\ t \in Ahead /\ Unread' = {t}
    BY <1>0, <1>1, <1>11, <2>2, Constants DEF Ahead, Unread
  <2>4. Precede({t}, Carried("node")' \cup {ap.request})
    <3>1. TasksOf(h.after) = Carried("node")'
      BY <2>2 DEF TasksOf, Carried
    <3> QED
      BY <1>11, <2>2, <3>1 DEF OrderInv
  <2>5. Precede({t}, Ahead')
    BY <1>3, <2>3, <2>4 DEF Precede, Ahead
  <2>6. Precede({node.response}, {t}) /\ Precede({node.request}, {t})
    BY <2>3 DEF OrderInv, Precede
  <2> QED
    BY <1>8, <1>9, <1>11, <2>3, <2>5, <2>6 DEF Precede
<1>12. CASE /\ node.sb_request.new /\ node'.request = node.sb_request.task
            /\ node'.sb_request.new = FALSE /\ UNCHANGED node.response
  <2>1. Unread = {node.sb_request.task} /\ Unread' = {}
    BY <1>12 DEF Unread
  <2> QED
    BY <1>8, <1>9, <1>12, <2>1 DEF Precede
<1>13. CASE /\ node'.response = node.request
            /\ UNCHANGED <<node.request, node.sb_request>>
  <2>1. Unread' = Unread
    BY <1>13 DEF Unread
  <2>2. Precede({node.request}, {node.request})
    BY <1>0, <1>7 DEF Precede
  <2> QED
    BY <1>8, <1>9, <1>13, <2>1, <2>2 DEF Precede
<1>14. CASE /\ node'.response = NoTask /\ node'.request = NoTask
            /\ node'.sb_request = Cleared
  <2>1. Unread' = {}
    BY <1>14, Constants DEF Unread
  <2>2. \A t : Le(NoTask, t)
    BY Constants DEF Le
  <2> QED
    BY <1>8, <1>14, <2>1, <2>2 DEF Precede
<1> QED
  BY NodeMoves, <1>10, <1>11, <1>12, <1>13, <1>14

-----------------------------------------------------------------------------
(* An answer is as new as anything that was executed *)

Done(t) == t.id = 0 \/ ~Older(newest, t)

DoneInv ==
  /\ newest.boot < boots \/ (newest.boot = boots /\ newest.id <= ap.last_id)
  /\ \A t \in OnAp \cup Carried("ap") \cup {node.response} : Done(t)

LEMMA DoneStep ==
  ASSUME TypeOK, KnownInv, DoneInv, [Next]_vars
  PROVE  DoneInv'
<1> DEFINE DoneNext(t) == t.id = 0 \/ ~Older(newest', t)
<1>0. /\ boots \in Nat /\ ap.last_id \in Nat /\ boots >= 1
      /\ newest \in Task /\ node.request \in Task /\ node.response \in Task
  BY Ends, Constants, IsTyped DEF ApType, NodeType
<1>1. \A t \in Tasks : t.id \in Nat /\ t.boot \in Nat
  BY TasksTyped, TaskTyped
<1>2. /\ newest.id \in Nat /\ newest.boot \in Nat
      /\ node.request.id \in Nat /\ node.request.boot \in Nat
  BY <1>0, TaskTyped
<1>3. Known(node.request)
  BY DEF KnownInv, Tasks, OnNode
<1>4. newest'.boot \in Nat /\ newest'.id \in Nat
      /\ \/ newest'.boot < boots
         \/ newest'.boot = boots /\ newest'.id <= ap.last_id
  <2>1. newest' = newest \/ newest' = node.request
    BY NodeMoves
  <2> QED
    BY <1>0, <1>2, <1>3, <2>1, Constants DEF DoneInv, Known
<1>5. \/ newest'.boot < boots'
      \/ newest'.boot = boots' /\ newest'.id <= ap'.last_id
  <2>1. \/ boots' = boots /\ ap'.last_id = ap.last_id
        \/ boots' = boots + 1
        \/ boots' = boots /\ ap'.last_id = ap.last_id + 1
    BY RequestMoves
  <2> QED
    BY <1>0, <1>4, <2>1
<1>6. \A t \in Tasks : Done(t) => DoneNext(t)
  <2>1. newest' = newest \/ (newest' = node.request /\ Older(newest, node.request))
    BY NodeMoves
  <2> QED
    BY <1>1, <1>2, <2>1 DEF Done, Older
<1>7. DoneNext(NoTask)
  BY Constants DEF Done
<1>8. Done(node.response) => DoneNext(node'.response)
  <2>1. CASE node'.response = node.response /\ UNCHANGED newest
    BY <2>1 DEF Done
  <2>2. CASE /\ node'.response = node.request
             /\ newest' = IF Older(newest, node.request) THEN node.request ELSE newest
    BY <1>2, <2>2 DEF Older
  <2>3. CASE node'.response = NoTask
    BY <1>7, <2>3
  <2> QED
    BY NodeMoves, <2>1, <2>2, <2>3
<1>9. Carried("ap")' \subseteq Carried("ap") \cup {node.response}
  BY CarriedMove
<1>10. \A t \in OnAp' : t \in OnAp \cup {NoTask} \cup Carried("ap")
  BY HeldMoves
<1>11. OnAp \cup Carried("ap") \cup {node.response} \subseteq Tasks
  BY DEF Tasks, OnNode
<1>12. \A t \in OnAp' \cup Carried("ap")' : DoneNext(t)
  BY <1>6, <1>7, <1>9, <1>10, <1>11 DEF DoneInv
<1> QED
  BY <1>5, <1>8, <1>12 DEF DoneInv, Done

-----------------------------------------------------------------------------
(* What may be executed next *)

Same(s, t) == s.boot = t.boot /\ s.id = t.id
Pred(s, t) == s.boot = t.boot /\ s.id = t.id - 1

\* An edit was executed last, or comes directly after the newest task.
Ready(t) == Edit(t) => Same(node.response, t) \/ Pred(newest, t)

ReadyInv ==
  /\ Ready(node.request)
  /\ \A t \in Unread : Ready(t)
  /\ comm_state["node"] = "data" =>
       Ready(ap.request) /\ \A t \in Carried("node") : Ready(t)

\* Executing a task leaves a later one ready.
LEMMA ReadyAfter ==
  ASSUME NEW r \in Task, NEW q \in Task, NEW n \in Task, NEW t \in Task,
         q.id # 0, r.id # q.id, t.id # 0,
         Le(r, q), Le(r, t), Le(q, t), Same(r, t) \/ Pred(n, t)
  PROVE  Same(q, t) \/ Pred(IF Older(n, q) THEN q ELSE n, t)
<1>1. /\ r.id \in Nat /\ r.boot \in Nat /\ q.id \in Nat /\ q.boot \in Nat
      /\ n.id \in Nat /\ n.boot \in Nat /\ t.id \in Nat /\ t.boot \in Nat
  BY TaskTyped
<1>2. CASE Same(r, t)
  BY <1>1, <1>2 DEF Same, Le, Older
<1>3. CASE Pred(n, t) /\ Older(n, q)
  BY <1>1, <1>3 DEF Same, Pred, Le, Older
<1>4. CASE Pred(n, t) /\ ~Older(n, q)
  BY <1>4
<1> QED
  BY <1>2, <1>3, <1>4

LEMMA ReadyStep ==
  ASSUME TypeOK, Quiet, KnownInv, LiveInv, EditInv, OrderInv, DoneInv, ReadyInv,
         Executed, [Next]_vars, ~overtaken'
  PROVE  ReadyInv'
<1> DEFINE ReadyNext(t) == Edit(t) => Same(node'.response, t) \/ Pred(newest', t)
<1>0. /\ boots \in Nat /\ ap.last_id \in Nat /\ boots >= 1
      /\ newest \in Task /\ node.request \in Task /\ node.response \in Task
      /\ comm_state["node"] \in CommState /\ node \in NodeType
  BY Ends, Constants, IsTyped DEF ApType, NodeType
<1>1. /\ Carried("node") \subseteq Tasks /\ Unread \subseteq Tasks
      /\ node.request \in Tasks
      /\ Ahead = Carried("node") \cup {ap.request}
  BY DEF Tasks, OnNode, Unread, Ahead
\* Where the node is about to be in data state, all that is ahead is ready.
<1>2. comm_state'["node"] = "data" => \A t \in Ahead : Ready(t)
  <2>1. CASE comm_state["node"] = "data"
    BY <1>1, <2>1 DEF ReadyInv
  <2>2. CASE comm_state["node"] # "data" /\ comm_state'["node"] = "data"
    <3>1. Consumed("node")
      BY <2>2, StateMoves, Ends DEF Restarted
    <3>2. comm_state["node"] = "ready"
      BY <2>2, <3>1, Transition, Ends DEF Consumed
    <3>3. \A t \in Carried("node") : ~Edit(t)
      <4>1. LinkTyped
        BY IsTyped
      <4>2. \A p \in PacketsTo("node") : \E c \in Places("node") : c.p = p
        BY <4>1, PlacesTo, Ends
      <4> QED
        BY <3>2, <4>2 DEF EditInv, Carried
    <3>4. ~Edit(ap.request)
      BY <3>2 DEF EditInv, Joined
    <3> QED
      BY <1>1, <3>3, <3>4 DEF Ready
  <2> QED
    BY <2>1, <2>2
\* What was ready stays so.
<1>3. ASSUME NEW t \in {node.request} \cup Unread \cup Ahead, Ready(t),
             \/ comm_state'["node"] # "init"
             \/ Work
             \/ UNCHANGED <<node.response, newest>>
      PROVE  ReadyNext(t)
  <2>1. t \in Task /\ (Edit(t) => t.id # 0)
    <3>1. t \in Tasks \cup {ap.request}
      BY <1>1
    <3>2. t \in Task /\ (Known(t) \/ t.id # 0 \/ t = NoTask)
      BY <3>1, TasksTyped DEF KnownInv, RequestKnown
    <3> QED
      BY <3>2, TaskTyped, Constants DEF Known, Edit
  <2>2. CASE UNCHANGED <<node.response, newest>>
    BY <1>3, <2>2 DEF Ready
  <2>3. CASE Work
    <3>0. node'.response = node.request
      BY <1>0, <2>3 DEF Work, NodeType
    <3>1. /\ node.request.id # 0 /\ node.response.id # node.request.id
          /\ newest' = IF Older(newest, node.request) THEN node.request ELSE newest
      BY <2>3 DEF Work
    <3>2. /\ Le(node.response, node.request) /\ Le(node.response, t)
          /\ t = node.request \/ Le(node.request, t)
      BY DEF OrderInv, Precede
    <3>3. CASE t = node.request
      BY <3>0, <3>3 DEF Same
    <3>4. CASE t # node.request /\ Edit(t)
      <4>1. Same(node.request, t) \/ Pred(newest', t)
        BY <1>0, <1>3, <2>1, <3>1, <3>2, <3>4, ReadyAfter DEF Ready
      <4> QED
        BY <3>0, <4>1
    <3> QED
      BY <3>3, <3>4 DEF Ready, Edit
  <2> QED
    BY <1>3, <2>2, <2>3, NodeMoves
<1>4. comm_state'["node"] = "data" =>
        ReadyNext(ap'.request) /\ \A t \in Carried("node")' : ReadyNext(t)
  <2> SUFFICES ASSUME comm_state'["node"] = "data"
               PROVE  ReadyNext(ap'.request) /\ \A t \in Carried("node")' : ReadyNext(t)
    OBVIOUS
  <2>1. \A t \in Ahead : ReadyNext(t)
    BY <1>2, <1>3
  <2>2. \A t \in Carried("node")' : t \in Ahead
    BY <1>1, CarriedMove
  <2>3. ap'.request = NoTask => ReadyNext(ap'.request)
    BY Constants DEF Ready, Edit
  <2>4. ASSUME NEW nav \in BOOLEAN,
               ap'.request = [id |-> ap.last_id + 1, boot |-> boots, nav |-> nav],
               NewRequest(nav), nav \/ EditEvent
        PROVE  ReadyNext(ap'.request)
    <3>1. /\ ap'.request.id = ap.last_id + 1 /\ ap'.request.boot = boots
          /\ ap'.request.nav = nav /\ UNCHANGED newest
      BY <2>4 DEF NewRequest
    <3>2. CASE EditEvent
      <4>1. /\ ap.response = ap.request /\ ap.request.id = ap.last_id
            /\ ap.request.boot = boots /\ ap.request.id # 0
        BY <3>2, EditFollows DEF EditEvent, EditInv
      <4>2. Done(ap.request)
        BY <4>1 DEF DoneInv, OnAp
      <4>3. newest.boot = boots /\ newest.id = ap.last_id
        BY <1>0, <4>1, <4>2, TaskTyped DEF Done, DoneInv, Older
      <4>4. Pred(newest, ap'.request)
        BY <1>0, <3>1, <4>3 DEF Pred
      <4> QED
        BY <3>1, <4>4 DEF Ready
    <3>3. CASE nav
      BY <3>1, <3>3 DEF Ready, Edit
    <3> QED
      BY <2>4, <3>2, <3>3
  <2>5. ap'.request = ap.request => ReadyNext(ap'.request)
    BY <2>1 DEF Ahead
  <2> QED
    BY <2>1, <2>2, <2>3, <2>4, <2>5, RequestMoves
<1>5. ReadyNext(node'.request) /\ \A t \in Unread' : ReadyNext(t)
  <2>1. CASE UNCHANGED <<node.response, node.request, node.sb_request, newest>>
    <3>1. Unread' = Unread
      BY <2>1 DEF Unread
    <3> QED
      BY <1>3, <2>1, <3>1 DEF ReadyInv
  <2>2. ASSUME NEW t \in Task, Head(todo["node"]).task = {t}, node'.sb_request = Written(t),
               Consume("node"), comm_state'["node"] = "data",
               UNCHANGED <<node.response, node.request, newest>>
        PROVE  ReadyNext(node'.request) /\ \A u \in Unread' : ReadyNext(u)
    <3>1. Head(todo["node"]) \in PacketsTo("node")
      BY <2>2, ConsumesOne, Ends DEF Consumed
    <3>2. t \in Ahead /\ Unread' = {t}
      BY <1>1, <2>2, <3>1, Constants DEF Carried, Unread
    <3> QED
      BY <1>2, <1>3, <2>2, <3>2 DEF ReadyInv
  <2>3. CASE /\ node.sb_request.new /\ node'.request = node.sb_request.task
             /\ node'.sb_request.new = FALSE /\ UNCHANGED <<node.response, newest>>
    <3>1. Unread = {node.sb_request.task} /\ Unread' = {}
      BY <2>3 DEF Unread
    <3> QED
      BY <1>3, <2>3, <3>1 DEF ReadyInv
  <2>4. CASE Work /\ node'.response = node.request /\ UNCHANGED <<node.request, node.sb_request>>
    <3>1. Unread' = Unread
      BY <2>4 DEF Unread
    <3> QED
      BY <1>3, <2>4, <3>1 DEF ReadyInv
  <2>5. CASE node'.request = NoTask /\ node'.sb_request = Cleared
    <3>1. Unread' = {}
      BY <2>5, Constants DEF Unread
    <3> QED
      BY <2>5, <3>1, Constants DEF Ready, Edit
  <2> QED
    BY NodeMoves, <2>1, <2>2, <2>3, <2>4, <2>5
<1> QED
  BY <1>4, <1>5 DEF ReadyInv, Ready

\* Everything a step needs to know of the state, until a poll finds two packets.
Inv ==
  /\ Quiet /\ KnownInv /\ CleanInv /\ SessionInv /\ Plain
  /\ LiveInv /\ EditInv /\ OrderInv /\ DoneInv /\ ReadyInv

LEMMA InvInit == Init => Inv
<1> SUFFICES ASSUME Init PROVE Inv
  OBVIOUS
<1>1. Quiet /\ KnownInv /\ CleanInv /\ SessionInv
  BY QuietInit, KnownInit, CleanInit, SessionInit
<1>2. /\ ap = ApStarted /\ node = NodeStarted /\ newest = NoTask /\ boots = 1
      /\ comm_state["node"] = "init"
  BY Ends DEF Init, End
<1>3. \A e \in End : PacketsTo(e) = {} /\ Places(e) = {} /\ Carried(e) = {}
  BY FlowInit
<1>4. /\ ap.request = NoTask /\ ap.reset_screen = TRUE /\ OnAp = {NoTask}
      /\ OnNode = {NoTask} /\ node.request = NoTask /\ node.response = NoTask
      /\ node.sb_request.new = FALSE
  BY <1>2, Constants DEF ApStarted, NodeStarted, OnAp, OnNode
<1>5. Plain /\ LiveInv
  BY <1>3, <1>4, Ends DEF Plain, LiveInv, Live
<1>6. EditInv
  BY <1>3, <1>4, Ends, Constants DEF EditInv, Edit
<1>7. \A t : Le(NoTask, t) /\ Le(t, NoTask)
  BY Constants DEF Le
<1>8. Unread = {}
  BY <1>4 DEF Unread
<1>9. OrderInv
  BY <1>3, <1>4, <1>7, <1>8, Ends DEF OrderInv, Precede, Ahead
<1>10. DoneInv
  BY <1>2, <1>3, <1>4, Ends, Constants DEF DoneInv, Done
<1>11. ReadyInv
  BY <1>2, <1>4, <1>8, Constants DEF ReadyInv, Ready, Edit
<1> QED
  BY <1>1, <1>5, <1>6, <1>9, <1>10, <1>11 DEF Inv

LEMMA InvStep ==
  ASSUME TypeOK, Inv, [Next]_vars, ~overtaken'
  PROVE  Inv'
<1>1. Executed
  BY ExecutedIf DEF Inv
<1> QED
  BY <1>1, QuietStep, KnownStep, CleanStep, SessionStep, PlainStep, LiveStep, EditStep,
     OrderStep, DoneStep, ReadyStep DEF Inv

\* What outlasts such a poll in the first boot of the AP: no edit is made before the task
\* before it was executed.
Reached(t) == Edit(t) => newest.boot = boots /\ newest.id >= t.id - 1

ReachedInv ==
  /\ ~ap.reset_screen => ap.request.id # 0
  /\ boots = 1 => \A t \in Tasks \cup {ap.request} : Reached(t)

LEMMA ReachedInit == Init => ReachedInv
<1> SUFFICES ASSUME Init PROVE ReachedInv
  OBVIOUS
<1>1. ap = ApStarted /\ node = NodeStarted
  BY DEF Init
<1>2. Carried("ap") = {} /\ Carried("node") = {}
  BY FlowInit, Ends
<1>3. /\ ap.reset_screen = TRUE /\ ap.request = NoTask
      /\ OnAp = {NoTask} /\ OnNode = {NoTask}
  BY <1>1, Constants DEF ApStarted, NodeStarted, OnAp, OnNode
<1> QED
  BY <1>2, <1>3, Constants DEF ReachedInv, Reached, Edit, Tasks

LEMMA ReachedStep ==
  ASSUME TypeOK, KnownInv, DoneInv, ReachedInv, [Next]_vars
  PROVE  ReachedInv'
<1> DEFINE ReachedNext(t) == Edit(t) => newest'.boot = boots' /\ newest'.id >= t.id - 1
<1>0. /\ boots \in Nat /\ boots >= 1 /\ ap.last_id \in Nat
      /\ newest \in Task /\ node.request \in Task
  BY Constants, IsTyped DEF ApType, NodeType
<1>1. /\ newest.id \in Nat /\ newest.boot \in Nat
      /\ node.request.id \in Nat /\ node.request.boot \in Nat
  BY <1>0, TaskTyped
<1>2. \A t \in Tasks \cup {ap.request} : t.id \in Nat /\ t.boot \in Nat
  BY TasksTyped, TaskTyped, IsTyped DEF ApType
<1>3. ASSUME UNCHANGED boots, boots = 1, NEW t \in Tasks \cup {ap.request}
      PROVE  ReachedNext(t)
  <2>1. newest' = newest \/ (newest' = node.request /\ Older(newest, node.request))
    BY NodeMoves
  <2>2. node.request.boot <= boots
    BY <1>0, <1>1, Constants DEF KnownInv, Known, Tasks, OnNode
  <2>3. Reached(t)
    BY <1>3 DEF ReachedInv
  <2> QED
    BY <1>0, <1>1, <1>2, <1>3, <2>1, <2>2, <2>3 DEF Reached, Older
<1>4. Tasks' \subseteq Tasks \cup {NoTask, ap.request}
  BY TasksMove
<1>5. ~Edit(NoTask)
  BY Constants DEF Edit
<1>6. UNCHANGED boots /\ boots = 1 => \A t \in Tasks' : ReachedNext(t)
  BY <1>3, <1>4, <1>5
<1>7. CASE UNCHANGED <<ap.request, ap.last_id, ap.reset_screen, boots>>
  BY <1>3, <1>6, <1>7 DEF ReachedInv, Reached
<1>8. CASE ap'.request = NoTask /\ UNCHANGED <<ap.last_id, boots>> /\ ap'.reset_screen
  BY <1>5, <1>6, <1>8 DEF ReachedInv, Reached
<1>9. CASE ap'.request = NoTask /\ boots' = boots + 1 /\ ap'.reset_screen
  BY <1>0, <1>9 DEF ReachedInv
<1>10. ASSUME NEW nav \in BOOLEAN,
              ap'.request = [id |-> ap.last_id + 1, boot |-> boots, nav |-> nav],
              UNCHANGED boots, NewRequest(nav), nav \/ EditEvent
       PROVE  ReachedInv'
  <2>1. ap'.request.id = ap.last_id + 1 /\ ap'.request.nav = nav /\ ap'.request.id # 0
    BY <1>0, <1>10
  <2>2. UNCHANGED newest
    BY <1>10 DEF NewRequest
  <2>3. ASSUME boots = 1, ~nav
        PROVE  newest.boot = boots /\ newest.id >= ap.last_id
    <3>1. ap.request.id # 0 /\ ~Pending
      BY <1>10, <2>3 DEF EditEvent, ReachedInv
    <3>2. ap.response = ap.request /\ ap.request # NoTask
      BY <2>3, <3>1, ExecutedIf, Constants DEF Executed
    <3>3. ap.request.id = ap.last_id /\ ap.request.boot = boots
      BY <3>2 DEF KnownInv, RequestKnown
    <3>4. Done(ap.request)
      BY <3>2 DEF DoneInv, OnAp
    <3> QED
      BY <1>0, <1>1, <3>1, <3>3, <3>4 DEF Done, DoneInv, Older
  <2>4. boots = 1 => ReachedNext(ap'.request)
    BY <1>0, <1>10, <2>1, <2>2, <2>3 DEF Edit
  <2> QED
    BY <1>6, <1>10, <2>1, <2>4 DEF ReachedInv, Reached
<1> QED
  BY RequestMoves, <1>7, <1>8, <1>9, <1>10

\* An edit is executed directly after the task before it, whatever is lost, reset or
\* restarted, until a poll first finds two packets.  From then on and until the AP restarts,
\* it may be executed again, but never early.
THEOREM EditsAlwaysInOrder == Spec => EditsInOrder
<1> DEFINE Whole == (overtaken \/ Inv) /\ KnownInv /\ DoneInv /\ ReachedInv
<1>1. Init => Whole
  BY InvInit, ReachedInit DEF Inv
<1>2. TypeOK /\ Whole /\ [Next]_vars => Whole'
  <2>1. ASSUME TypeOK, overtaken \/ Inv, [Next]_vars
        PROVE  (overtaken \/ Inv)'
    <3>1. CASE overtaken'
      BY <3>1
    <3>2. CASE ~overtaken'
      BY <2>1, <3>2, TurnTyped, InvStep DEF TurnKept
    <3> QED
      BY <3>1, <3>2
  <2> QED
    BY <2>1, KnownStep, DoneStep, ReachedStep
<1>3. ASSUME TypeOK, Whole, Work, Edit(node.request), ~Confusable
      PROVE  /\ newest.boot = node.request.boot
             /\ newest.id >= node.request.id - 1
             /\ newest.id # node.request.id - 1 => overtaken
  <2>1. /\ newest.id \in Nat /\ node.request.id \in Nat /\ node.request.boot \in Nat
        /\ boots \in Nat /\ boots >= 1
    BY <1>3, IsTyped, TaskTyped, Constants DEF NodeType
  <2>2. CASE ~overtaken
    <3>1. Ready(node.request)
      BY <1>3, <2>2 DEF Inv, ReadyInv
    <3>2. Pred(newest, node.request)
      BY <1>3, <3>1 DEF Ready, Same, Work
    <3> QED
      BY <2>1, <3>2 DEF Pred
  <2>3. CASE overtaken
    <3>1. boots = 1 /\ node.request \in Tasks /\ node.request # NoTask
      BY <1>3, <2>1, <2>3, Constants DEF Confusable, Tasks, OnNode, Edit
    <3>2. Known(node.request) /\ Reached(node.request)
      BY <1>3, <3>1 DEF KnownInv, ReachedInv
    <3>3. node.request.boot = boots
      BY <2>1, <3>1, <3>2 DEF Known
    <3> QED
      BY <1>3, <2>3, <3>2, <3>3 DEF Reached
  <2> QED
    BY <2>2, <2>3
<1>4. TypeOK /\ Whole =>
        [Work /\ ~node.request.nav /\ ~Confusable =>
           /\ newest.boot = node.request.boot
           /\ newest.id >= node.request.id - 1
           /\ newest.id # node.request.id - 1 => overtaken]_vars
  BY <1>3 DEF Edit
<1> HIDE DEF Whole
<1> QED
  BY <1>1, <1>2, <1>4, TypeCorrect, PTL DEF Spec, EditsInOrder

=============================================================================

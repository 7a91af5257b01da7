---------------------------- MODULE ChannelsProofs ----------------------------
(***************************************************************************)
(* Proofs about Channels: whose a delivery is, what becomes of its files,  *)
(* which of a user's choices of a skill stands, and what a sender is told. *)
(*                                                                         *)
(* The first invariant says nothing of how a reply is cut.  The second,    *)
(* over it, says that what was sent and what is left to send are the       *)
(* pieces of the answer, and the pieces spell the answer: that is shown    *)
(* from the end of the text backwards, by the least and greatest places    *)
(* where something happens.                                                *)
(***************************************************************************)
EXTENDS Channels, FiniteSetTheorems, SequenceTheorems, TLAPS

-----------------------------------------------------------------------------
(* How a reply is cut.  The chunks of a text from i on are given by those  *)
(* from a later place on, so what holds of them is shown from the end.     *)

LEMMA LeastNumber ==
    ASSUME NEW T, T \subseteq Nat, T # {}
    PROVE  \E n \in T : \A m \in T : n <= m
<1>1. PICK R : R = OpToRel(<, Nat)
  OBVIOUS
<1>2. IsWellFoundedOn(R, Nat)
  BY ONLY <1>1, NatLessThanWellFounded
<1>3. PICK n \in T : \A m \in T : <<m, n>> \notin R
  BY <1>2, WFMin
<1>4. R = {ss \in Nat \X Nat : ss[1] < ss[2]}
  BY <1>1 DEF OpToRel
<1>5. ASSUME NEW m \in T PROVE n <= m
  <2>1. <<m, n>>[1] = m /\ <<m, n>>[2] = n /\ <<m, n>> \in Nat \X Nat /\ m \in Nat /\ n \in Nat
    OBVIOUS
  <2>2. ~(m < n)
    BY <1>3, <1>4, <1>5, <2>1
  <2> QED BY <2>1, <2>2
<1> QED BY <1>3, <1>5

LEMMA GreatestNumber ==
    ASSUME NEW T, T \subseteq Nat, T # {}, NEW top \in Nat, \A n \in T : n <= top
    PROVE  \E n \in T : \A m \in T : m <= n
<1> DEFINE U == {d \in Nat : top - d \in T}
<1>1. U # {}
  <2>1. PICK n \in T : TRUE
    OBVIOUS
  <2>2. top - n \in Nat /\ top - (top - n) = n
    BY <2>1
  <2>3. top - n \in U
    BY <2>1, <2>2
  <2> QED BY <2>3
<1>2. PICK d \in U : \A c \in U : d <= c
  <2>1. U \subseteq Nat
    OBVIOUS
  <2> HIDE DEF U
  <2> QED BY <1>1, <2>1, LeastNumber
<1>3. ASSUME NEW m \in T PROVE m <= top - d
  <2>1. top - m \in Nat /\ top - (top - m) = m
    OBVIOUS
  <2>2. top - m \in U
    BY <2>1
  <2> QED BY <1>2, <2>1, <2>2
<1> QED BY <1>2, <1>3

LEMMA TextIs ==
    ASSUME NEW T \in Seq(Nat)
    PROVE  Len(T) \in Nat /\ DOMAIN T = 1 .. Len(T) /\ MaxLength \in Nat /\ MaxLength > 0
  BY ChannelsAssumption

LEMMA SpaceIs ==
    ASSUME NEW T \in Seq(Nat), NEW i \in Nat, NEW s, s = LastSpace(T, i)
    PROVE  s = 0 \/ (s \in i + 1 .. i + MaxLength /\ s <= Len(T) /\ T[s] = 0)
<1> DEFINE found == {j \in i + 1 .. i + MaxLength : j <= Len(T) /\ T[j] = 0}
<1>1. s = IF found = {} THEN 0 ELSE CHOOSE j \in found : \A k \in found : k <= j
  BY DEF LastSpace
<1>2. found \subseteq Nat /\ i + MaxLength \in Nat /\ \A j \in found : j <= i + MaxLength
  BY TextIs
<1>3. \A j \in found : j \in i + 1 .. i + MaxLength /\ j <= Len(T) /\ T[j] = 0
  OBVIOUS
<1> HIDE DEF found
<1>4. found # {} => \E j \in found : \A k \in found : k <= j
  BY <1>2, GreatestNumber
<1>5. found # {} => s \in found
  BY <1>1, <1>4
<1> QED BY <1>1, <1>3, <1>5

LEMMA SkipIs ==
    ASSUME NEW T \in Seq(Nat), NEW i \in 1 .. Len(T) + 1, NEW n, n = SkipSpaces(T, i)
    PROVE  n \in i .. Len(T) + 1 /\ \A k \in i .. n - 1 : T[k] = 0
<1> DEFINE U == {j \in i .. Len(T) + 1 : j = Len(T) + 1 \/ T[j] # 0}
<1>1. U \subseteq Nat /\ Len(T) + 1 \in U
  BY TextIs
<1>2. \A j \in i .. Len(T) + 1 : j \in U <=> (j = Len(T) + 1 \/ T[j] # 0)
  OBVIOUS
<1>3. U \subseteq i .. Len(T) + 1
  OBVIOUS
<1> HIDE DEF U
<1>4. PICK j \in U : \A k \in U : j <= k
  BY <1>1, LeastNumber
<1>5. \A k \in i .. j - 1 : T[k] = 0
  <2> SUFFICES ASSUME NEW k \in i .. j - 1 PROVE T[k] = 0
    OBVIOUS
  <2>1. j \in i .. Len(T) + 1 /\ k \in i .. Len(T) + 1 /\ ~(j <= k)
    BY <1>3, TextIs
  <2> QED BY <1>2, <1>4, <2>1
<1>6. \E m \in i .. Len(T) + 1 : (m = Len(T) + 1 \/ T[m] # 0) /\ \A k \in i .. m - 1 : T[k] = 0
  BY <1>2, <1>3, <1>4, <1>5
<1> QED BY <1>6 DEF SkipSpaces

\* A chunk that is not the last ends within its limit, and but spaces are skipped.
LEMMA CutIs ==
    ASSUME NEW T \in Seq(Nat), NEW i \in 1 .. Len(T), Len(T) - i + 1 > MaxLength,
           NEW e, e = ChunkEnd(T, i), NEW n, n = NextChunk(T, i)
    PROVE  /\ e \in i .. Len(T) /\ e - i + 1 <= MaxLength
           /\ n \in e + 1 .. Len(T) + 1 /\ \A k \in e + 1 .. n - 1 : T[k] = 0
<1>1. PICK s : s = LastSpace(T, i)
  OBVIOUS
<1>2. /\ e = IF s = 0 THEN i + MaxLength - 1 ELSE s - 1
      /\ n = SkipSpaces(T, IF s = 0 THEN i + MaxLength ELSE s + 1)
  BY <1>1 DEF ChunkEnd, NextChunk
<1>3. s = 0 \/ (s \in i + 1 .. i + MaxLength /\ s <= Len(T) /\ T[s] = 0)
  BY <1>1, SpaceIs
<1>4. Len(T) \in Nat /\ MaxLength \in Nat /\ MaxLength > 0
  BY TextIs
<1>5. CASE s = 0
  <2>1. i + MaxLength \in 1 .. Len(T) + 1 /\ n = SkipSpaces(T, i + MaxLength)
    BY <1>2, <1>4, <1>5
  <2>2. n \in i + MaxLength .. Len(T) + 1 /\ \A k \in i + MaxLength .. n - 1 : T[k] = 0
    BY <2>1, SkipIs
  <2>3. e + 1 = i + MaxLength
    BY <1>2, <1>4, <1>5
  <2> QED BY <1>2, <1>4, <1>5, <2>2, <2>3
<1>6. CASE s # 0
  <2>1. s \in i + 1 .. i + MaxLength /\ s <= Len(T) /\ T[s] = 0 /\ s \in Nat
    BY <1>3, <1>4, <1>6
  <2>2. s + 1 \in 1 .. Len(T) + 1 /\ n = SkipSpaces(T, s + 1) /\ e = s - 1
    BY <1>2, <1>4, <1>6, <2>1
  <2>3. n \in s + 1 .. Len(T) + 1 /\ \A k \in s + 1 .. n - 1 : T[k] = 0
    BY <2>2, SkipIs
  <2>4. ASSUME NEW k \in s .. n - 1 PROVE T[k] = 0
    <3>1. k = s \/ k \in s + 1 .. n - 1
      BY <1>4, <2>1, <2>3
    <3> QED BY <2>1, <2>3, <3>1
  <2>5. e + 1 = s
    BY <2>1, <2>2
  <2>6. e \in i .. Len(T) /\ e - i + 1 <= MaxLength /\ n \in e + 1 .. Len(T) + 1
    BY <1>4, <2>1, <2>2, <2>3
  <2> QED BY <2>4, <2>5, <2>6
<1> QED BY <1>5, <1>6

\* What the chunks from i on are, once those from later places on are in `table'.
Cut(T, table, i) ==
    IF i > Len(T) THEN <<>>
    ELSE IF Len(T) - i + 1 <= MaxLength THEN <<SubSeq(T, i, Len(T))>>
    ELSE <<SubSeq(T, i, ChunkEnd(T, i))>> \o table[NextChunk(T, i)]

LEMMA CutSame ==
    ASSUME NEW T \in Seq(Nat), NEW i \in 1 .. Len(T) + 1, NEW g, NEW h,
           \A j \in i + 1 .. Len(T) + 1 : g[j] = h[j]
    PROVE  Cut(T, g, i) = Cut(T, h, i)
<1>1. CASE i <= Len(T) /\ Len(T) - i + 1 > MaxLength
  <2>1. PICK n, e : n = NextChunk(T, i) /\ e = ChunkEnd(T, i)
    OBVIOUS
  <2>2. e \in i .. Len(T) /\ n \in e + 1 .. Len(T) + 1
    BY <1>1, <2>1, TextIs, CutIs
  <2>3. n \in i + 1 .. Len(T) + 1
    BY <2>2, TextIs
  <2> QED BY <2>1, <2>3 DEF Cut
<1>2. CASE ~(i <= Len(T) /\ Len(T) - i + 1 > MaxLength)
  BY <1>2, TextIs DEF Cut
<1> QED BY <1>1, <1>2

\* There is such a table from every place on.
LEMMA TableExists ==
    ASSUME NEW T \in Seq(Nat), NEW i \in 1 .. Len(T) + 1
    PROVE  \E g : g = [j \in i .. Len(T) + 1 |-> Cut(T, g, j)]
<1> DEFINE L == Len(T)
           Good(k) == \E g : g = [j \in k .. L + 1 |-> Cut(T, g, j)]
           Bad == {d \in 0 .. L : ~Good(L + 1 - d)}
<1>1. L \in Nat
  BY TextIs
<1>2. Bad = {}
  <2> SUFFICES ASSUME Bad # {} PROVE FALSE
    OBVIOUS
  <2>1. PICK d \in Bad : \A c \in Bad : d <= c
    <3>1. Bad \subseteq Nat
      BY <1>1
    <3> HIDE DEF Bad
    <3> QED BY <3>1, LeastNumber
  <2>2. d \in 0 .. L /\ ~Good(L + 1 - d)
    OBVIOUS
  <2> DEFINE k == L + 1 - d
  <2>3. k \in 1 .. L + 1
    BY <1>1, <2>2
  <2>4. \E g : \A j \in k + 1 .. L + 1 : g[j] = Cut(T, g, j)
    <3>1. CASE d = 0
      <4>1. k + 1 .. L + 1 = {}
        BY <1>1, <3>1
      <4> QED BY <4>1
    <3>2. CASE d # 0
      <4>1. d - 1 \in 0 .. L /\ ~(d <= d - 1) /\ L + 1 - (d - 1) = k + 1
        BY <1>1, <2>2, <3>2
      <4>2. Good(L + 1 - (d - 1))
        BY <2>1, <4>1
      <4>3. PICK g : g = [j \in k + 1 .. L + 1 |-> Cut(T, g, j)]
        BY <4>1, <4>2
      <4> QED BY <4>3
    <3> QED BY <3>1, <3>2
  <2>5. PICK g : \A j \in k + 1 .. L + 1 : g[j] = Cut(T, g, j)
    BY <2>4
  <2> DEFINE h == [j \in k .. L + 1 |-> Cut(T, g, j)]
  <2>6. \A j \in k + 1 .. L + 1 : h[j] = g[j]
    BY <1>1, <2>3, <2>5
  <2>7. \A j \in k .. L + 1 : Cut(T, g, j) = Cut(T, h, j)
    <3> SUFFICES ASSUME NEW j \in k .. L + 1 PROVE Cut(T, g, j) = Cut(T, h, j)
      OBVIOUS
    <3>1. j \in 1 .. Len(T) + 1 /\ j + 1 .. Len(T) + 1 \subseteq k + 1 .. L + 1
      BY <1>1, <2>3
    <3>2. \A n \in j + 1 .. Len(T) + 1 : g[n] = h[n]
      BY <2>6, <3>1
    <3> HIDE DEF h
    <3> QED BY <3>1, <3>2, CutSame
  <2>8. h = [j \in k .. L + 1 |-> Cut(T, h, j)]
    BY <2>7
  <2> QED BY <2>2, <2>8
<1>3. L + 1 - i \in 0 .. L /\ L + 1 - (L + 1 - i) = i
  BY <1>1
<1>4. Good(L + 1 - (L + 1 - i))
  BY <1>2, <1>3
<1> QED BY <1>3, <1>4

LEMMA ChunksFromIs ==
    ASSUME NEW T \in Seq(Nat), NEW F, F = ChunksFrom(T)
    PROVE  F = [i \in 1 .. Len(T) + 1 |-> Cut(T, F, i)]
<1>1. 1 \in 1 .. Len(T) + 1
  BY TextIs
<1>2. \E g : g = [i \in 1 .. Len(T) + 1 |-> Cut(T, g, i)]
  BY <1>1, TableExists
<1> QED BY <1>2 DEF ChunksFrom, Cut

LEMMA Joined ==
    ASSUME NEW S, NEW p \in Seq(S), NEW q \in Seq(S)
    PROVE  /\ p \o q \in Seq(S) /\ Len(p \o q) = Len(p) + Len(q)
           /\ DOMAIN (p \o q) = 1 .. Len(p) + Len(q)
           /\ \A k \in 1 .. Len(p) : (p \o q)[k] = p[k]
           /\ \A k \in 1 .. Len(q) : (p \o q)[Len(p) + k] = q[k]
<1>1. Len(p) \in Nat /\ Len(q) \in Nat /\ p \o q \in Seq(S) /\ Len(p \o q) = Len(p) + Len(q)
      /\ DOMAIN (p \o q) = 1 .. Len(p) + Len(q)
  OBVIOUS
<1>2. ASSUME NEW k \in 1 .. Len(p) PROVE (p \o q)[k] = p[k]
  OBVIOUS
<1>3. ASSUME NEW k \in 1 .. Len(q) PROVE (p \o q)[Len(p) + k] = q[k]
  OBVIOUS
<1> QED BY <1>1, <1>2, <1>3

LEMMA PartIs ==
    ASSUME NEW T \in Seq(Nat), NEW i \in 1 .. Len(T), NEW e \in i .. Len(T)
    PROVE  SubSeq(T, i, e) \in Seq(Nat) /\ Len(SubSeq(T, i, e)) = e - i + 1
<1>1. i \in Int /\ e \in Int /\ i <= e /\ Len(T) \in Nat
  BY TextIs
<1> QED BY <1>1

\* pieces, each no longer than a chat takes, are cut out of T one after another from i on.
PiecesFrom(pieces, T, i) ==
    /\ pieces \in Seq(Seq(Nat)) /\ \A k \in DOMAIN pieces : Len(pieces[k]) <= MaxLength
    /\ \E begin \in [DOMAIN pieces -> i .. Len(T)] :
          /\ \A k \in DOMAIN pieces : /\ begin[k] + Len(pieces[k]) - 1 \in DOMAIN T
                                      /\ pieces[k] = SubSeq(T, begin[k], begin[k] + Len(pieces[k]) - 1)
          /\ \A j, k \in DOMAIN pieces : j < k => begin[j] + Len(pieces[j]) <= begin[k]
          /\ \A p \in i .. Len(T) :
                T[p] = 0 \/ \E k \in DOMAIN pieces : p \in begin[k] .. begin[k] + Len(pieces[k]) - 1

LEMMA NoPieces ==
    ASSUME NEW T \in Seq(Nat), NEW i, \A p \in i .. Len(T) : T[p] = 0
    PROVE  PiecesFrom(<<>>, T, i)
<1>1. <<>> \in Seq(Seq(Nat)) /\ DOMAIN <<>> = {} /\ <<>> \in [DOMAIN <<>> -> i .. Len(T)]
  OBVIOUS
<1> QED BY <1>1 DEF PiecesFrom

LEMMA OnePiece ==
    ASSUME NEW T \in Seq(Nat), NEW i \in 1 .. Len(T), Len(T) - i + 1 <= MaxLength
    PROVE  PiecesFrom(<<SubSeq(T, i, Len(T))>>, T, i)
<1>1. PICK c : c = SubSeq(T, i, Len(T))
  OBVIOUS
<1>2. Len(T) \in Nat /\ DOMAIN T = 1 .. Len(T)
  BY TextIs
<1>3. c \in Seq(Nat) /\ Len(c) = Len(T) - i + 1
  BY <1>1, <1>2, PartIs
<1>4. <<c>> \in Seq(Seq(Nat)) /\ DOMAIN <<c>> = {1} /\ <<c>>[1] = c
  BY <1>3
<1> DEFINE begin == [k \in {1} |-> i]
<1>5. begin \in [{1} -> i .. Len(T)] /\ begin[1] = i /\ i + Len(c) - 1 = Len(T) /\ Len(T) \in DOMAIN T
  BY <1>2, <1>3
<1> HIDE DEF begin
<1>6. PICK one : one = <<c>>
  OBVIOUS
<1>7. one \in Seq(Seq(Nat)) /\ DOMAIN one = {1} /\ one[1] = c
  BY <1>4, <1>6
<1>8. begin[1] + Len(one[1]) - 1 = Len(T) /\ one[1] = SubSeq(T, begin[1], begin[1] + Len(one[1]) - 1)
  BY <1>1, <1>5, <1>7
<1>9. \A p \in i .. Len(T) : p \in begin[1] .. begin[1] + Len(one[1]) - 1
  BY <1>5, <1>8
<1>10. PiecesFrom(one, T, i)
  <2>1. begin \in [DOMAIN one -> i .. Len(T)] /\ \A k \in DOMAIN one : k = 1
    BY <1>5, <1>7
  <2>2. \A k \in DOMAIN one : /\ Len(one[k]) <= MaxLength /\ begin[k] + Len(one[k]) - 1 \in DOMAIN T
                             /\ one[k] = SubSeq(T, begin[k], begin[k] + Len(one[k]) - 1)
    BY <1>3, <1>5, <1>7, <1>8, <2>1
  <2>3. \A j, k \in DOMAIN one : ~(j < k)
    BY <2>1
  <2>4. \A p \in i .. Len(T) : \E k \in DOMAIN one : p \in begin[k] .. begin[k] + Len(one[k]) - 1
    BY <1>7, <1>9
  <2> QED BY <1>7, <2>1, <2>2, <2>3, <2>4 DEF PiecesFrom
<1> QED BY <1>1, <1>6, <1>10

LEMMA OneMorePiece ==
    ASSUME NEW T \in Seq(Nat), NEW i \in 1 .. Len(T), NEW e \in i .. Len(T), e - i + 1 <= MaxLength,
           NEW n \in e + 1 .. Len(T) + 1, \A p \in e + 1 .. n - 1 : T[p] = 0,
           NEW others, PiecesFrom(others, T, n)
    PROVE  PiecesFrom(<<SubSeq(T, i, e)>> \o others, T, i)
<1>1. PICK c : c = SubSeq(T, i, e)
  OBVIOUS
<1>2. Len(T) \in Nat /\ DOMAIN T = 1 .. Len(T) /\ i \in Nat /\ e \in Nat /\ n \in Nat /\ i <= e /\ e < n
  BY TextIs
<1>3. c \in Seq(Nat) /\ Len(c) = e - i + 1
  BY <1>1, <1>2, PartIs
<1>4. others \in Seq(Seq(Nat)) /\ \A k \in DOMAIN others : Len(others[k]) <= MaxLength
  BY DEF PiecesFrom
<1>5. PICK b \in [DOMAIN others -> n .. Len(T)] :
         /\ \A k \in DOMAIN others : /\ b[k] + Len(others[k]) - 1 \in DOMAIN T
                                     /\ others[k] = SubSeq(T, b[k], b[k] + Len(others[k]) - 1)
         /\ \A j, k \in DOMAIN others : j < k => b[j] + Len(others[j]) <= b[k]
         /\ \A p \in n .. Len(T) :
               T[p] = 0 \/ \E k \in DOMAIN others : p \in b[k] .. b[k] + Len(others[k]) - 1
  BY DEF PiecesFrom
<1>6. PICK l \in Nat : l = Len(others)
  BY <1>4
<1>7. PICK all : all = <<c>> \o others
  OBVIOUS
<1>8. /\ all \in Seq(Seq(Nat)) /\ DOMAIN all = 1 .. 1 + l /\ all[1] = c /\ DOMAIN others = 1 .. l
      /\ \A k \in 1 .. l : all[1 + k] = others[k]
  <2>1. <<c>> \in Seq(Seq(Nat)) /\ Len(<<c>>) = 1 /\ <<c>>[1] = c
    BY <1>3
  <2>2. 1 \in 1 .. Len(<<c>>)
    BY <2>1
  <2>3. DOMAIN others = 1 .. l
    BY <1>4, <1>6
  <2> QED BY <1>4, <1>6, <1>7, <2>1, <2>2, <2>3, Joined
<1>9. \A k \in 1 .. 1 + l : k = 1 \/ (k - 1 \in 1 .. l /\ k = 1 + (k - 1) /\ all[k] = others[k - 1])
  BY <1>8
<1> DEFINE begin == [k \in 1 .. 1 + l |-> IF k = 1 THEN i ELSE b[k - 1]]
<1>10. /\ begin \in [1 .. 1 + l -> i .. Len(T)] /\ begin[1] = i
       /\ \A k \in 1 .. l : k + 1 \in 1 .. 1 + l /\ begin[k + 1] = b[k]
       /\ \A k \in 1 .. 1 + l : k # 1 => begin[k] = b[k - 1]
  <2>1. n .. Len(T) \subseteq i .. Len(T) /\ 1 \in 1 .. 1 + l /\ i \in i .. Len(T)
    BY <1>2
  <2>2. \A k \in 1 .. 1 + l : k # 1 => k - 1 \in 1 .. l /\ b[k - 1] \in n .. Len(T)
    BY <1>5, <1>8, <1>9
  <2>3. \A k \in 1 .. l : k + 1 \in 1 .. 1 + l /\ k + 1 # 1 /\ (k + 1) - 1 = k
    OBVIOUS
  <2>4. begin \in [1 .. 1 + l -> i .. Len(T)]
    BY <2>1, <2>2
  <2> QED BY <2>1, <2>3, <2>4
<1> HIDE DEF begin
<1>11. ASSUME NEW k \in 1 .. 1 + l
       PROVE  /\ Len(all[k]) <= MaxLength /\ begin[k] + Len(all[k]) - 1 \in DOMAIN T
              /\ all[k] = SubSeq(T, begin[k], begin[k] + Len(all[k]) - 1)
  <2>1. CASE k = 1
    <3>1. begin[k] = i /\ all[k] = c /\ e \in DOMAIN T
      BY <1>2, <1>8, <1>10, <2>1
    <3>2. begin[k] + Len(all[k]) - 1 = e
      BY <1>2, <1>3, <3>1
    <3> QED BY <1>1, <1>3, <3>1, <3>2
  <2>2. CASE k # 1
    <3>1. k - 1 \in 1 .. l /\ all[k] = others[k - 1] /\ begin[k] = b[k - 1]
      BY <1>9, <1>10, <2>2
    <3> QED BY <1>4, <1>5, <1>8, <3>1
  <2> QED BY <2>1, <2>2
<1>12. ASSUME NEW j \in 1 .. 1 + l, NEW k \in 1 .. 1 + l, j < k
       PROVE  begin[j] + Len(all[j]) <= begin[k]
  <2>0. k # 1
    BY <1>12
  <2>1. k - 1 \in 1 .. l /\ begin[k] = b[k - 1] /\ b[k - 1] \in n .. Len(T)
    BY <1>5, <1>8, <1>9, <1>10, <2>0
  <2>2. CASE j = 1
    <3>1. begin[j] + Len(all[j]) = e + 1
      BY <1>2, <1>3, <1>8, <1>10, <2>2
    <3> QED BY <1>2, <2>1, <3>1
  <2>3. CASE j # 1
    <3>1. j - 1 \in 1 .. l /\ all[j] = others[j - 1] /\ begin[j] = b[j - 1]
      BY <1>9, <1>10, <2>3
    <3>2. j - 1 < k - 1
      BY <1>12
    <3> QED BY <1>5, <1>8, <2>1, <3>1, <3>2
  <2> QED BY <2>2, <2>3
<1>13. ASSUME NEW p \in i .. Len(T), T[p] # 0
       PROVE  \E k \in 1 .. 1 + l : p \in begin[k] .. begin[k] + Len(all[k]) - 1
  <2>1. CASE p <= e
    <3>1. p \in begin[1] .. begin[1] + Len(all[1]) - 1 /\ 1 \in 1 .. 1 + l
      BY <1>2, <1>3, <1>8, <1>10, <2>1
    <3> QED BY <3>1
  <2>2. CASE e < p
    <3>1. p \notin e + 1 .. n - 1
      BY <1>13
    <3>2. p \in n .. Len(T)
      BY <1>2, <2>2, <3>1
    <3>3. PICK k \in 1 .. l : p \in b[k] .. b[k] + Len(others[k]) - 1
      BY <1>5, <1>8, <1>13, <3>2
    <3>4. k + 1 \in 1 .. 1 + l /\ begin[k + 1] = b[k] /\ all[k + 1] = others[k]
      <4>1. k + 1 = 1 + k
        OBVIOUS
      <4> QED BY <1>8, <1>10, <4>1
    <3> QED BY <3>3, <3>4
  <2> QED BY <1>2, <2>1, <2>2
<1>14. PiecesFrom(all, T, i)
  BY <1>8, <1>10, <1>11, <1>12, <1>13 DEF PiecesFrom
<1> QED BY <1>1, <1>7, <1>14

LEMMA ChunksFromSpell ==
    ASSUME NEW T \in Seq(Nat), NEW i \in 1 .. Len(T) + 1
    PROVE  PiecesFrom(ChunksFrom(T)[i], T, i)
<1> DEFINE L == Len(T)
           F == ChunksFrom(T)
           Bad == {d \in 0 .. L : ~PiecesFrom(F[L + 1 - d], T, L + 1 - d)}
<1>1. L \in Nat
  BY TextIs
<1>2. \A j \in 1 .. L + 1 : F[j] = Cut(T, F, j)
  BY ChunksFromIs
<1> HIDE DEF F
<1>3. Bad = {}
  <2> SUFFICES ASSUME Bad # {} PROVE FALSE
    OBVIOUS
  <2>1. PICK d \in Bad : \A c \in Bad : d <= c
    <3>1. Bad \subseteq Nat
      BY <1>1
    <3> HIDE DEF Bad
    <3> QED BY <3>1, LeastNumber
  <2>2. PICK k : k = L + 1 - d
    OBVIOUS
  <2>3. d \in 0 .. L /\ k \in 1 .. L + 1 /\ ~PiecesFrom(F[k], T, k) /\ F[k] = Cut(T, F, k)
    BY <1>1, <1>2, <2>2
  <2>4. CASE k > L
    <3>1. F[k] = <<>> /\ k .. L = {}
      BY <1>1, <2>3, <2>4 DEF Cut
    <3> QED BY <2>3, <3>1, NoPieces
  <2>5. CASE k <= L /\ L - k + 1 <= MaxLength
    <3>1. F[k] = <<SubSeq(T, k, L)>> /\ k \in 1 .. L
      BY <1>1, <2>3, <2>5 DEF Cut
    <3> QED BY <2>3, <2>5, <3>1, OnePiece
  <2>6. CASE k <= L /\ L - k + 1 > MaxLength
    <3>1. PICK e, n : e = ChunkEnd(T, k) /\ n = NextChunk(T, k)
      OBVIOUS
    <3>2. k \in 1 .. L /\ F[k] = <<SubSeq(T, k, e)>> \o F[n]
      <4>1. k \in 1 .. L /\ ~(k > L) /\ ~(L - k + 1 <= MaxLength)
        BY <1>1, <2>3, <2>6, TextIs
      <4> QED BY <2>3, <3>1, <4>1 DEF Cut
    <3>3. /\ e \in k .. L /\ e - k + 1 <= MaxLength
          /\ n \in e + 1 .. L + 1 /\ \A p \in e + 1 .. n - 1 : T[p] = 0
      BY <2>6, <3>1, <3>2, CutIs
    <3>4. L + 1 - n \in 0 .. L /\ ~(d <= L + 1 - n) /\ L + 1 - (L + 1 - n) = n
      BY <1>1, <2>2, <2>3, <3>2, <3>3
    <3>5. PiecesFrom(F[n], T, n)
      BY <2>1, <3>4
    <3> QED BY <2>3, <3>2, <3>3, <3>5, OneMorePiece
  <2> QED BY <1>1, <2>3, <2>4, <2>5, <2>6, TextIs
<1>4. L + 1 - i \in 0 .. L /\ L + 1 - (L + 1 - i) = i
  BY <1>1
<1>5. PiecesFrom(F[i], T, i)
  BY <1>3, <1>4
<1> QED BY <1>5 DEF F

\* chunk_message: the chunks are the text in order but for spaces, and fit.
LEMMA ChunksSpell ==
    ASSUME NEW T \in Seq(Nat)
    PROVE  Chunks(T) \in Seq(Seq(Nat)) /\ Spells(Chunks(T), T)
           /\ \A k \in DOMAIN Chunks(T) : Len(Chunks(T)[k]) <= MaxLength
<1>1. Len(T) \in Nat /\ DOMAIN T = 1 .. Len(T) /\ 1 \in 1 .. Len(T) + 1
  BY TextIs
<1>2. PiecesFrom(Chunks(T), T, 1)
  <2>1. CASE \A p \in DOMAIN T : T[p] = 0
    <3>1. Chunks(T) = <<>> /\ \A p \in 1 .. Len(T) : T[p] = 0
      BY <1>1, <2>1 DEF Chunks
    <3> QED BY <3>1, NoPieces
  <2>2. CASE ~\A p \in DOMAIN T : T[p] = 0
    <3>1. Chunks(T) = ChunksFrom(T)[1]
      BY <2>2 DEF Chunks
    <3> QED BY <1>1, <3>1, ChunksFromSpell
  <2> QED BY <2>1, <2>2
<1> QED BY <1>1, <1>2 DEF PiecesFrom, Spells

LEMMA PiecesSpell ==
    ASSUME NEW T \in Seq(Nat), T # <<>>, NEW channel
    PROVE  Pieces(channel, T) \in Seq(Seq(Nat)) /\ Spells(Pieces(channel, T), T)
           /\ (channel # "email" =>
                 \A k \in DOMAIN Pieces(channel, T) : Len(Pieces(channel, T)[k]) <= MaxLength)
<1>1. CASE channel # "email"
  BY <1>1, ChunksSpell DEF Pieces
<1>2. CASE channel = "email"
  <2>1. Pieces(channel, T) = <<T>> /\ <<T>> \in Seq(Seq(Nat)) /\ DOMAIN <<T>> = {1} /\ <<T>>[1] = T
    BY <1>2 DEF Pieces
  <2>2. Len(T) \in Nat /\ DOMAIN T = 1 .. Len(T) /\ Len(T) # 0
    BY TextIs
  <2>3. SubSeq(T, 1, Len(T)) = T /\ 1 \in DOMAIN T /\ 1 + Len(T) - 1 = Len(T) /\ Len(T) \in DOMAIN T
    BY <2>2
  <2> DEFINE begin == [k \in {1} |-> 1]
  <2>4. begin \in [{1} -> DOMAIN T] /\ begin[1] = 1
    BY <2>3
  <2> HIDE DEF begin
  <2>5. Spells(<<T>>, T)
    BY <2>1, <2>2, <2>3, <2>4 DEF Spells
  <2> QED BY <1>2, <2>1, <2>5
<1> QED BY <1>1, <1>2

-----------------------------------------------------------------------------
(* Whose a delivery is, and what becomes of its files. *)

USE ChannelsAssumption

Fields == {"at", "carries", "uid", "todo", "up", "bad", "docs", "skill", "text",
           "rest", "said", "lost"}

Whole(q) == q = [f \in Fields |-> q[f]]

\* A delivery runs under the uid of its sender, who is on record by then.
Owned(r) ==
    /\ req[r].uid # None => req[r].uid = Of(r).user /\ identity[Of(r).user] = Of(r).user
    /\ req[r].at \in {"route", "files", "send"} => req[r].uid # None

\* An attachment is waiting, stored, given up or registered, and one of these only.
Sorted(r) ==
    LET q == req[r]
    IN  /\ q.carries = q.docs \union q.bad \union q.todo \union ({q.up} \ {None})
        /\ q.docs \intersect q.bad = {} /\ (q.docs \union q.bad) \intersect q.todo = {}
        /\ q.up \notin q.docs \union q.bad \union q.todo

Filed(r) ==
    /\ \A f \in req[r].docs : <<r, f>> \in records
    /\ req[r].up # None => <<r, req[r].up>> \in blobs
    /\ req[r].carries \subseteq Files
    /\ req[r].at \in {"off", "resolve", "unknown", "route"} =>
          req[r].todo = {} /\ req[r].up = None /\ req[r].bad = {} /\ req[r].docs = {}
    /\ req[r].at = "files" => ~IsCommand(r[1]) /\ Sorted(r)
    /\ req[r].at = "send" /\ ~IsCommand(r[1]) => req[r].docs = req[r].carries \ req[r].bad

RequestInv(r) ==
    /\ Whole(req[r])
    /\ req[r].at = "off" => req[r] = Idle
    /\ Owned(r)
    /\ Filed(r)

\* The deliveries of a message are numbered as they come.
Slots ==
    \A m \in Messages : \E k \in 0 .. MaxDeliveries :
        \A n \in 1 .. MaxDeliveries : req[<<m, n>>].at # "off" <=> n <= k

BaseInv ==
    /\ post \in Posts
    /\ identity \in [Users -> Users \union {None}]
    /\ \A u \in Users : identity[u] \in {u, None}
    /\ settings \in [Users -> Catalogue \union {None}]
    /\ records \subseteq blobs
    /\ req = [r \in Requests |-> req[r]]
    /\ settled \in [Users -> Skills \union {None}]

\* Choices of one user that run at once are all contested; one that is not is the
\* user's default when it has run; and none runs after the settled one.
ChoiceInv ==
    /\ \A r, o \in Requests :
          r # o /\ Choosing(r) /\ Choosing(o) /\ Of(r).user = Of(o).user => r \in contested
    /\ \A r \in Requests \ contested :
          Choosing(r) /\ req[r].at = "send" /\ Resolved(Of(r).arg) # None
             => settings[Of(r).user] = Of(r).arg
    /\ \A u \in Users : settled[u] # None =>
          /\ settings[u] = settled[u]
          /\ \A r \in Requests : Choosing(r) => Of(r).user # u

Inv == BaseInv /\ Slots /\ (\A r \in Requests : RequestInv(r)) /\ ChoiceInv

-----------------------------------------------------------------------------
(* Deliveries and their slots.                                             *)

LEMMA Sender ==
    ASSUME post \in Posts, NEW r \in Requests
    PROVE  /\ r[1] \in Messages /\ Of(r) \in PostType /\ Of(r).user \in Users
           /\ Of(r).files \subseteq Files
           /\ \E n \in 1 .. MaxDeliveries : r = <<r[1], n>>
<1>1. r[1] \in Messages /\ \E n \in 1 .. MaxDeliveries : r = <<r[1], n>>
  BY DEF Requests
<1>2. Of(r) \in PostType
  BY <1>1 DEF Of
<1> QED BY <1>1, <1>2 DEF PostType

\* The next delivery of a message takes a slot that was never used.
LEMMA NextSlot ==
    ASSUME Slots, NEW m \in Messages
    PROVE  /\ Deliveries(m) \in 0 .. MaxDeliveries
           /\ Deliveries(m) < MaxDeliveries => <<m, Deliveries(m) + 1>> \in Requests
           /\ \A n \in 1 .. MaxDeliveries : req[<<m, n>>].at # "off" <=> n <= Deliveries(m)
<1>1. PICK k \in 0 .. MaxDeliveries :
         \A n \in 1 .. MaxDeliveries : req[<<m, n>>].at # "off" <=> n <= k
  BY DEF Slots
<1>2. {n \in 1 .. MaxDeliveries : req[<<m, n>>].at # "off"} = 1 .. k
  BY <1>1
<1>3. Cardinality(1 .. k) = k
  <2>1. 1 \in Int /\ k \in Int /\ k >= 0
    BY <1>1
  <2>2. Cardinality(1 .. k) = IF 1 > k THEN 0 ELSE k - 1 + 1
    BY ONLY <2>1, FS_Interval
  <2> QED BY <2>1, <2>2
<1>4. Deliveries(m) = k
  BY <1>2, <1>3 DEF Deliveries
<1>5. k < MaxDeliveries => k + 1 \in 1 .. MaxDeliveries
  BY <1>1
<1> QED BY <1>1, <1>4, <1>5 DEF Requests

\* Slots stay as they are when no delivery comes.
LEMMA SlotsStay ==
    ASSUME Slots, \A r \in Requests : req'[r].at = "off" <=> req[r].at = "off"
    PROVE  Slots'
<1>1. \A m \in Messages, n \in 1 .. MaxDeliveries : <<m, n>> \in Requests
  BY DEF Requests
<1> QED BY <1>1 DEF Slots

\* What a step adds: records and bytes stay, and a sender's record is the sender's.
Grows ==
    /\ post' = post
    /\ records \subseteq records' /\ blobs \subseteq blobs' /\ records' \subseteq blobs'
    /\ identity' \in [Users -> Users \union {None}]
    /\ \A u \in Users : identity'[u] \in {u, None} /\ (identity[u] = u => identity'[u] = u)

LEMMA OthersStay ==
    ASSUME BaseInv, NEW r \in Requests, RequestInv(r), Grows, req'[r] = req[r]
    PROVE  RequestInv(r)'
<1>1. Of(r)' = Of(r) /\ IsCommand(r[1])' = IsCommand(r[1]) /\ Of(r).user \in Users
  BY Sender DEF Grows, Of, IsCommand, BaseInv
<1>2. Owned(r)'
  BY <1>1 DEF Grows, RequestInv, Owned
<1>3. Filed(r)'
  BY <1>1 DEF Grows, RequestInv, Filed, Sorted
<1> QED BY <1>2, <1>3 DEF RequestInv

\* One delivery moves, or none.
Moves(r) ==
    /\ req' = [o \in Requests |-> req'[o]]
    /\ \A o \in Requests \ {r} : req'[o] = req[o]

LEMMA BaseStays ==
    ASSUME Inv, NEW r \in Requests, Grows, Moves(r), RequestInv(r)',
           settings' \in [Users -> Catalogue \union {None}],
           settled' \in [Users -> Skills \union {None}]
    PROVE  BaseInv' /\ \A o \in Requests : RequestInv(o)'
<1>1. BaseInv'
  BY DEF Inv, BaseInv, Grows, Moves
<1>2. ASSUME NEW o \in Requests PROVE RequestInv(o)'
  BY OthersStay DEF Inv, Moves
<1> QED BY <1>1, <1>2

\* A step that neither begins a choice, runs one nor answers one.
LEMMA QuietMove ==
    ASSUME Inv, NEW r \in Requests, Active(r), Grows, Moves(r), RequestInv(r)',
           settings' = settings, contested' = contested, settled' = settled,
           req'[r].at # "off",
           req'[r].at = "send" => req[r].at = "send" \/ ~IsCommand(r[1])
    PROVE  Inv'
<1>1. BaseInv' /\ \A o \in Requests : RequestInv(o)'
  BY BaseStays DEF Inv, BaseInv
<1>2. Slots'
  <2>1. \A o \in Requests : req'[o].at = "off" <=> req[o].at = "off"
    BY DEF Moves, Active
  <2> QED BY <2>1, SlotsStay DEF Inv
<1>3. \A o \in Requests : /\ Of(o)' = Of(o) /\ IsCommand(o[1])' = IsCommand(o[1])
                          /\ Choosing(o)' => Choosing(o)
                          /\ Choosing(o) /\ req'[o].at = "send" => req[o].at = "send"
  BY DEF Grows, Of, IsCommand, Choosing, Active, Moves
<1>4. ChoiceInv'
  <2>1. \A o \in Requests : Resolved(Of(o).arg)' = Resolved(Of(o).arg)
    BY <1>3 DEF Resolved
  <2> QED BY <1>3, <2>1 DEF ChoiceInv, Inv
<1> QED BY <1>1, <1>2, <1>4 DEF Inv

-----------------------------------------------------------------------------
(* The steps of a delivery before it answers.                              *)

LEMMA ResolveKeeps ==
    ASSUME Inv, NEW r \in Requests, Resolve(r)
    PROVE  Inv'
<1> DEFINE u == Of(r).user
<1>1. u \in Users /\ identity[u] \in {u, None}
  BY Sender DEF Inv, BaseInv
<1>2. Grows /\ Moves(r) /\ Active(r)
  BY DEF Resolve, Grows, Moves, Active, Inv, BaseInv
<1>3. PICK q : q = req[r] /\ RequestInv(r) /\ Whole(q)
  BY DEF Inv, RequestInv
<1>4. req'[r] = [q EXCEPT !.uid = identity[u],
                          !.at = IF identity[u] = None THEN "unknown" ELSE "route"]
  BY <1>3 DEF Resolve, Inv, BaseInv
<1>5. RequestInv(r)'
  <2>1. Whole(req'[r]) /\ req'[r].at \in {"unknown", "route"} /\ req'[r].uid = identity[u]
    BY <1>3, <1>4 DEF Whole, Fields
  <2>2. \A f \in {"carries", "todo", "up", "bad", "docs"} : req'[r][f] = q[f]
    BY <1>3, <1>4 DEF Whole, Fields
  <2>3. req'[r].at = "route" => identity[u] # None
    BY <1>3, <1>4 DEF Whole, Fields
  <2>4. Owned(r)'
    BY <1>1, <2>1, <2>3 DEF Resolve, Owned, Of
  <2>5. Filed(r)'
    BY <1>3, <2>1, <2>2 DEF Resolve, RequestInv, Filed
  <2> QED BY <2>1, <2>4, <2>5 DEF RequestInv
<1>6. req'[r].at \in {"unknown", "route"}
  BY <1>3, <1>4 DEF Whole, Fields
<1> QED BY <1>2, <1>5, <1>6, QuietMove DEF Resolve, choices

LEMMA AdmitKeeps ==
    ASSUME Inv, NEW r \in Requests, Admit(r)
    PROVE  Inv'
<1> DEFINE u == Of(r).user
<1>1. u \in Users /\ u # None
  BY Sender DEF Inv, BaseInv
<1>2. identity' = [identity EXCEPT ![u] = u] /\ req' = [req EXCEPT ![r].uid = u, ![r].at = "route"]
  BY DEF Admit, AutoUid
<1>3. Grows /\ Moves(r) /\ Active(r) /\ identity'[u] = u
  BY <1>1, <1>2 DEF Admit, Grows, Moves, Active, Inv, BaseInv
<1>4. PICK q : q = req[r] /\ RequestInv(r) /\ Whole(q)
  BY DEF Inv, RequestInv
<1>5. req'[r] = [q EXCEPT !.uid = u, !.at = "route"]
  BY <1>2, <1>4 DEF Inv, BaseInv
<1>6. Whole(req'[r]) /\ req'[r].at = "route" /\ req'[r].uid = u
  BY <1>4, <1>5 DEF Whole, Fields
<1>7. RequestInv(r)'
  <2>1. \A f \in {"carries", "todo", "up", "bad", "docs"} : req'[r][f] = q[f]
    BY <1>4, <1>5 DEF Whole, Fields
  <2>2. Owned(r)'
    BY <1>1, <1>3, <1>6 DEF Admit, Owned, Of
  <2>3. Filed(r)'
    BY <1>4, <1>6, <2>1 DEF Admit, RequestInv, Filed
  <2> QED BY <1>6, <2>2, <2>3 DEF RequestInv
<1> QED BY <1>3, <1>6, <1>7, QuietMove DEF Admit, choices

LEMMA RejectKeeps ==
    ASSUME Inv, NEW r \in Requests, Reject(r)
    PROVE  Inv'
<1>1. Grows /\ Moves(r) /\ Active(r)
  BY DEF Reject, Grows, Moves, Active, Inv, BaseInv
<1>2. PICK q : q = req[r] /\ RequestInv(r) /\ Whole(q)
  BY DEF Inv, RequestInv
<1>3. req'[r] = [q EXCEPT !.at = "ok"]
  BY <1>2 DEF Reject, Inv, BaseInv
<1>4. Whole(req'[r]) /\ req'[r].at = "ok"
  BY <1>2, <1>3 DEF Whole, Fields
<1>5. RequestInv(r)'
  <2>1. \A f \in {"uid", "carries", "todo", "up", "bad", "docs"} : req'[r][f] = q[f]
    BY <1>2, <1>3 DEF Whole, Fields
  <2>2. Owned(r)'
    BY <1>2, <1>4, <2>1 DEF Reject, RequestInv, Owned, Of
  <2>3. Filed(r)'
    BY <1>2, <1>4, <2>1 DEF Reject, RequestInv, Filed
  <2> QED BY <1>4, <2>2, <2>3 DEF RequestInv
<1> QED BY <1>1, <1>4, <1>5, QuietMove DEF Reject, choices

LEMMA MigrateKeeps ==
    ASSUME Inv, NEW u \in Users, Migrate(u)
    PROVE  Inv'
<1>1. Grows
  BY DEF Migrate, Grows, Inv, BaseInv
<1>2. BaseInv'
  BY <1>1 DEF Migrate, Grows, Inv, BaseInv, choices
<1>3. \A r \in Requests : RequestInv(r)'
  BY <1>1, OthersStay DEF Migrate, Inv
<1>4. Slots' /\ ChoiceInv'
  <2>1. \A r \in Requests : /\ Of(r)' = Of(r) /\ Choosing(r)' = Choosing(r)
                            /\ Resolved(Of(r).arg)' = Resolved(Of(r).arg)
    BY DEF Migrate, Of, Choosing, IsCommand, Active, Resolved
  <2> QED BY <2>1 DEF Migrate, Inv, Slots, ChoiceInv, choices
<1> QED BY <1>2, <1>3, <1>4 DEF Inv

-----------------------------------------------------------------------------
(* Its attachments.                                                        *)

LEMMA UploadKeeps ==
    ASSUME Inv, NEW r \in Requests, Upload(r)
    PROVE  Inv'
<1>1. Grows /\ Moves(r) /\ Active(r)
  BY DEF Upload, Grows, Moves, Active, Inv, BaseInv
<1>2. PICK q : q = req[r] /\ RequestInv(r) /\ Whole(q)
  BY DEF Inv, RequestInv
<1>3. req'[r] = [q EXCEPT !.at = "files", !.todo = q.carries]
  BY <1>2 DEF Upload, Inv, BaseInv
<1>4. Whole(req'[r]) /\ req'[r].at = "files" /\ req'[r].todo = q.carries
  BY <1>2, <1>3 DEF Whole, Fields
<1>5. RequestInv(r)'
  <2>1. \A f \in {"uid", "carries", "up", "bad", "docs"} : req'[r][f] = q[f]
    BY <1>2, <1>3 DEF Whole, Fields
  <2>2. Owned(r)'
    BY <1>2, <1>4, <2>1 DEF Upload, RequestInv, Owned, Of
  <2>3. q.up = None /\ q.bad = {} /\ q.docs = {} /\ ~IsCommand(r[1])' /\ q.carries \subseteq Files
    BY <1>2 DEF Upload, RequestInv, Filed, IsCommand
  <2>4. Sorted(r)'
    BY <1>4, <2>1, <2>3 DEF Sorted
  <2>5. Filed(r)'
    BY <1>4, <2>1, <2>3, <2>4 DEF Filed
  <2> QED BY <1>4, <2>2, <2>5 DEF RequestInv
<1> QED BY <1>1, <1>4, <1>5, QuietMove DEF Upload, choices

LEMMA StoreFileKeeps ==
    ASSUME Inv, NEW r \in Requests, NEW f \in Files, StoreFile(r, f)
    PROVE  Inv'
<1>1. Grows /\ Moves(r) /\ Active(r)
  BY DEF StoreFile, Grows, Moves, Active, Inv, BaseInv
<1>2. PICK q : q = req[r] /\ RequestInv(r) /\ Whole(q)
  BY DEF Inv, RequestInv
<1>3. req'[r] = [q EXCEPT !.up = f, !.todo = q.todo \ {f}]
  BY <1>2 DEF StoreFile, Inv, BaseInv
<1>4. Whole(req'[r]) /\ req'[r].up = f /\ req'[r].todo = q.todo \ {f}
  BY <1>2, <1>3 DEF Whole, Fields
<1>5. \A g \in {"at", "uid", "carries", "bad", "docs"} : req'[r][g] = q[g]
  BY <1>2, <1>3 DEF Whole, Fields
<1>6. q.at = "files" /\ f \in q.todo /\ q.up = None
  BY <1>2 DEF StoreFile
<1>7. RequestInv(r)'
  <2>1. Owned(r)'
    BY <1>2, <1>5 DEF StoreFile, RequestInv, Owned, Of
  <2>2. ~IsCommand(r[1])' /\ q.carries \subseteq Files /\ Sorted(r) /\ \A g \in q.docs : <<r, g>> \in records'
    BY <1>2, <1>6 DEF StoreFile, RequestInv, Filed, IsCommand
  <2>3. Sorted(r)'
    BY <1>2, <1>4, <1>5, <1>6, <2>2 DEF Sorted
  <2>4. <<r, f>> \in blobs'
    BY DEF StoreFile
  <2>5. Filed(r)'
    BY <1>4, <1>5, <1>6, <2>2, <2>3, <2>4 DEF Filed
  <2> QED BY <1>4, <1>5, <1>6, <2>1, <2>5 DEF RequestInv
<1> QED BY <1>1, <1>5, <1>6, <1>7, QuietMove DEF StoreFile, choices

LEMMA RegisterFileKeeps ==
    ASSUME Inv, NEW r \in Requests, RegisterFile(r)
    PROVE  Inv'
<1>1. PICK q : q = req[r] /\ RequestInv(r) /\ Whole(q)
  BY DEF Inv, RequestInv
<1>2. q.at = "files" /\ q.up # None /\ <<r, q.up>> \in blobs
  BY <1>1 DEF RegisterFile, RequestInv, Filed
<1>3. Grows /\ Moves(r) /\ Active(r)
  BY <1>1, <1>2 DEF RegisterFile, Grows, Moves, Active, Inv, BaseInv
<1>4. req'[r] = [q EXCEPT !.docs = q.docs \union {q.up}, !.up = None]
  BY <1>1 DEF RegisterFile, Inv, BaseInv
<1>5. Whole(req'[r]) /\ req'[r].up = None /\ req'[r].docs = q.docs \union {q.up}
  BY <1>1, <1>4 DEF Whole, Fields
<1>6. \A g \in {"at", "uid", "carries", "todo", "bad"} : req'[r][g] = q[g]
  BY <1>1, <1>4 DEF Whole, Fields
<1>7. RequestInv(r)'
  <2>1. Owned(r)'
    BY <1>1, <1>6 DEF RegisterFile, RequestInv, Owned, Of
  <2>2. /\ ~IsCommand(r[1])' /\ q.carries \subseteq Files /\ Sorted(r)
        /\ \A g \in q.docs \union {q.up} : <<r, g>> \in records'
    BY <1>1, <1>2 DEF RegisterFile, RequestInv, Filed, IsCommand
  <2>3. q.todo \subseteq Files /\ q.docs \subseteq Files /\ q.bad \subseteq Files /\ None \notin Files
    BY <1>1, <2>2 DEF Sorted
  <2>4. Sorted(r)'
    BY <1>1, <1>2, <1>5, <1>6, <2>2, <2>3 DEF Sorted
  <2>5. Filed(r)'
    BY <1>2, <1>5, <1>6, <2>2, <2>4 DEF Filed
  <2> QED BY <1>2, <1>5, <1>6, <2>1, <2>5 DEF RequestInv
<1> QED BY <1>2, <1>3, <1>6, <1>7, QuietMove DEF RegisterFile, choices

LEMMA FileFailsKeeps ==
    ASSUME Inv, NEW r \in Requests, NEW f \in Files, FileFails(r, f)
    PROVE  Inv'
<1>1. PICK q : q = req[r] /\ RequestInv(r) /\ Whole(q)
  BY DEF Inv, RequestInv
<1>2. q.at = "files" /\ IF q.up = None THEN f \in q.todo ELSE f = q.up
  BY <1>1 DEF FileFails
<1>3. Grows /\ Moves(r) /\ Active(r)
  BY <1>1, <1>2 DEF FileFails, Grows, Moves, Active, Inv, BaseInv
<1>4. req'[r] = [q EXCEPT !.bad = q.bad \union {f}, !.todo = q.todo \ {f}, !.up = None]
  BY <1>1 DEF FileFails, GiveUp, Inv, BaseInv
<1>5. /\ Whole(req'[r]) /\ req'[r].up = None
      /\ req'[r].bad = q.bad \union {f} /\ req'[r].todo = q.todo \ {f}
  BY <1>1, <1>4 DEF Whole, Fields
<1>6. \A g \in {"at", "uid", "carries", "docs"} : req'[r][g] = q[g]
  BY <1>1, <1>4 DEF Whole, Fields
<1>7. RequestInv(r)'
  <2>1. Owned(r)'
    BY <1>1, <1>6 DEF FileFails, RequestInv, Owned, Of
  <2>2. /\ ~IsCommand(r[1])' /\ q.carries \subseteq Files /\ Sorted(r)
        /\ \A g \in q.docs : <<r, g>> \in records'
    BY <1>1, <1>2 DEF FileFails, RequestInv, Filed, IsCommand
  <2>3. q.todo \subseteq Files /\ q.docs \subseteq Files /\ q.bad \subseteq Files /\ None \notin Files
    BY <1>1, <2>2 DEF Sorted
  <2>4. Sorted(r)'
    BY <1>1, <1>2, <1>5, <1>6, <2>2, <2>3 DEF Sorted
  <2>5. Filed(r)'
    BY <1>2, <1>5, <1>6, <2>2, <2>4 DEF Filed
  <2> QED BY <1>2, <1>5, <1>6, <2>1, <2>5 DEF RequestInv
<1> QED BY <1>2, <1>3, <1>6, <1>7, QuietMove DEF FileFails, choices

-----------------------------------------------------------------------------
(* Its answer.                                                             *)

\* To reply is to leave who and what the delivery is.
LEMMA Answering ==
    ASSUME Inv, NEW r \in Requests, NEW text, NEW skill, Reply(r, text, skill)
    PROVE  /\ Moves(r) /\ Whole(req'[r]) /\ req'[r].at = "send"
           /\ \A g \in {"uid", "carries", "todo", "up", "bad", "docs"} : req'[r][g] = req[r][g]
<1>1. PICK q, rest : q = req[r] /\ RequestInv(r) /\ Whole(q) /\ rest = Pieces(ChannelFor(r), text)
  BY DEF Inv, RequestInv
<1>2. Moves(r)
  BY DEF Reply, Moves, Inv, BaseInv
<1>3. PICK k : k = [q EXCEPT !.at = "send", !.text = text]
  OBVIOUS
<1>4. Whole(k) /\ k.at = "send" /\ \A g \in {"uid", "carries", "todo", "up", "bad", "docs"} : k[g] = q[g]
  BY <1>1, <1>3 DEF Whole, Fields
<1>5. req'[r] = [k EXCEPT !.skill = skill, !.rest = rest]
  BY <1>1, <1>3 DEF Reply, Inv, BaseInv
<1>6. Whole(req'[r]) /\ \A g \in Fields \ {"skill", "rest"} : req'[r][g] = k[g]
  BY ONLY <1>4, <1>5 DEF Whole, Fields
<1> QED BY <1>1, <1>2, <1>4, <1>6 DEF Fields

LEMMA InvokeKeeps ==
    ASSUME Inv, NEW r \in Requests, Invoke(r)
    PROVE  Inv'
<1>1. PICK q : q = req[r] /\ RequestInv(r)
  BY DEF Inv
<1>2. q.at = "files" /\ q.todo = {} /\ q.up = None
  BY <1>1 DEF Invoke
<1>3. /\ Moves(r) /\ Whole(req'[r]) /\ req'[r].at = "send"
      /\ \A g \in {"uid", "carries", "todo", "up", "bad", "docs"} : req'[r][g] = req[r][g]
  BY Answering DEF Invoke
<1>4. Grows /\ Active(r)
  BY <1>1, <1>2 DEF Invoke, Grows, Active, Inv, BaseInv
<1>5. RequestInv(r)'
  <2>1. Owned(r)'
    BY <1>1, <1>2, <1>3 DEF Invoke, RequestInv, Owned, Of
  <2>2. ~IsCommand(r[1]) /\ Sorted(r) /\ q.carries \subseteq Files /\ \A g \in q.docs : <<r, g>> \in records
    BY <1>1, <1>2 DEF RequestInv, Filed
  <2>3. q.docs = q.carries \ q.bad
    BY <1>1, <1>2, <2>2 DEF Sorted
  <2>4. Filed(r)'
    BY <1>1, <1>2, <1>3, <2>2, <2>3 DEF Invoke, Filed
  <2> QED BY <1>3, <2>1, <2>4 DEF RequestInv
<1>6. ~IsCommand(r[1])
  BY <1>1, <1>2 DEF RequestInv, Filed
<1> QED BY <1>3, <1>4, <1>5, <1>6, QuietMove DEF Invoke, choices

\* A chunk more or less changes nothing else.
LEMMA SendingKeeps ==
    ASSUME Inv, NEW r \in Requests, SendChunk(r) \/ LoseChunk(r) \/ DropReply(r)
    PROVE  Inv'
<1>1. PICK q : q = req[r] /\ RequestInv(r) /\ Whole(q) /\ q.at = "send"
  BY DEF Inv, RequestInv, SendChunk, LoseChunk, DropReply
<1>2. Grows /\ Active(r)
  BY <1>1 DEF SendChunk, LoseChunk, DropReply, Grows, Active, Inv, BaseInv
<1>3. /\ Moves(r) /\ Whole(req'[r])
      /\ \A g \in {"at", "uid", "carries", "todo", "up", "bad", "docs"} : req'[r][g] = q[g]
  <2>1. CASE SendChunk(r)
    <3>1. PICK rest, said : rest = Tail(q.rest) /\ said = Append(q.said, Head(q.rest))
      OBVIOUS
    <3>2. Moves(r) /\ req'[r] = [q EXCEPT !.rest = rest, !.said = said]
      BY <1>1, <2>1, <3>1 DEF SendChunk, Moves, Inv, BaseInv
    <3> QED BY <1>1, <3>2 DEF Whole, Fields
  <2>2. CASE LoseChunk(r)
    <3>1. PICK rest : rest = Tail(q.rest)
      OBVIOUS
    <3>2. Moves(r) /\ req'[r] = [q EXCEPT !.rest = rest, !.lost = TRUE]
      BY <1>1, <2>2, <3>1 DEF LoseChunk, Moves, Inv, BaseInv
    <3> QED BY <1>1, <3>2 DEF Whole, Fields
  <2>3. CASE DropReply(r)
    <3>2. Moves(r) /\ req'[r] = [q EXCEPT !.rest = <<>>, !.lost = TRUE]
      BY <1>1, <2>3 DEF DropReply, Moves, Inv, BaseInv
    <3> QED BY <1>1, <3>2 DEF Whole, Fields
  <2> QED BY <2>1, <2>2, <2>3
<1>4. RequestInv(r)'
  <2>1. /\ post' = post /\ identity' = identity /\ records' = records /\ blobs' = blobs
        /\ IsCommand(r[1])' = IsCommand(r[1])
    BY DEF SendChunk, LoseChunk, DropReply, IsCommand
  <2>2. Owned(r)'
    BY <1>1, <1>3, <2>1 DEF RequestInv, Owned, Of
  <2>3. Filed(r)'
    BY <1>1, <1>3, <2>1 DEF RequestInv, Filed
  <2>4. Whole(req'[r]) /\ req'[r].at = "send"
    BY <1>1, <1>3
  <2> QED BY ONLY <2>2, <2>3, <2>4 DEF RequestInv, Whole
<1>5. settings' = settings /\ contested' = contested /\ settled' = settled
  BY DEF SendChunk, LoseChunk, DropReply, choices
<1> QED BY <1>1, <1>2, <1>3, <1>4, <1>5, QuietMove

LEMMA DiesKeeps ==
    ASSUME Inv, NEW r \in Requests, Dies(r)
    PROVE  Inv'
<1>1. Grows /\ Moves(r) /\ Active(r)
  BY DEF Dies, Grows, Moves, Inv, BaseInv
<1>2. PICK q : q = [Idle EXCEPT !.at = "died"]
  OBVIOUS
<1>3. /\ Whole(q) /\ q.at = "died" /\ q.uid = None /\ q.up = None
      /\ q.carries = {} /\ q.todo = {} /\ q.bad = {} /\ q.docs = {}
  BY <1>2 DEF Whole, Fields, Idle
<1>4. req'[r] = q
  BY <1>2 DEF Dies, Ended, Inv, BaseInv
<1>5. RequestInv(r)'
  BY <1>3, <1>4 DEF RequestInv, Owned, Filed
<1> QED BY <1>1, <1>3, <1>4, <1>5, QuietMove DEF Dies, choices

-----------------------------------------------------------------------------
(* Choices of a skill: what begins one, runs one and answers one.          *)

LEMMA DeliverKeeps ==
    ASSUME Inv, NEW m \in Messages, Deliver(m)
    PROVE  Inv'
<1> DEFINE d == Deliveries(m)
           others == {o \in Requests : Choosing(o) /\ Of(o).user = post[m].user}
           chooses == Verified(m) /\ post[m].cmd = "skill" /\ IsCommand(m)
<1>1. PICK r : r = <<m, d + 1>>
  OBVIOUS
<1>2. /\ d \in Nat /\ r \in Requests /\ d < MaxDeliveries
      /\ \A n \in 1 .. MaxDeliveries : req[<<m, n>>].at # "off" <=> n <= d
  <2>1. d \in 0 .. MaxDeliveries /\ Slots
    BY NextSlot DEF Inv
  <2>2. d < MaxDeliveries
    BY <2>1 DEF Deliver
  <2> HIDE DEF d
  <2> QED BY <1>1, <2>1, <2>2, NextSlot DEF d
<1>3. req[r] = Idle /\ Of(r) = post[m] /\ r[1] = m
  BY <1>1, <1>2 DEF Inv, RequestInv, Of
<1>4. PICK files, at : /\ files \in FilesFound(m) /\ at \in {"died", "resolve", "ok"}
                       /\ ~Verified(m) => at = "died"
                       /\ req' = [req EXCEPT ![r].carries = files, ![r].at = at]
  BY <1>1 DEF Deliver
<1>5. /\ settled' = IF chooses THEN [settled EXCEPT ![post[m].user] = None] ELSE settled
      /\ contested' = IF chooses /\ others # {}
                      THEN contested \union others \union {r} ELSE contested
  BY <1>1 DEF Deliver
<1>6. Grows /\ Moves(r) /\ settings' = settings
  BY <1>4 DEF Deliver, Grows, Moves, Inv, BaseInv
<1>7. files \subseteq Files
  <2>1. post[m].files \subseteq Files
    BY <1>2, <1>3, Sender DEF Inv, BaseInv
  <2>2. ChannelOf[post[m].user] \in {"discord", "telegram", "whatsapp", "email"}
    BY <1>2, <1>3, Sender DEF Inv, BaseInv, Channels
  <2>3. files \in {{}} \union (SUBSET post[m].files) \union {post[m].files \ post[m].malformed}
    BY <1>4, <2>2 DEF FilesFound, TelegramFiles, WhatsAppFiles, EmailFiles
  <2> QED BY <2>1, <2>3
<1>8. req'[r] = [Idle EXCEPT !.carries = files, !.at = at]
  BY <1>2, <1>3, <1>4 DEF Inv, BaseInv
<1>9. RequestInv(r)'
  <2>1. /\ Whole(req'[r]) /\ req'[r].at = at /\ req'[r].carries = files
        /\ req'[r].uid = None /\ req'[r].up = None
        /\ req'[r].todo = {} /\ req'[r].bad = {} /\ req'[r].docs = {}
    BY <1>8 DEF Whole, Fields, Idle
  <2> QED BY <1>4, <1>7, <2>1 DEF RequestInv, Owned, Filed
<1>10. req'[r].at = at
  BY <1>8 DEF Idle
<1>11. post[m].user \in Users
  BY <1>2, <1>3, Sender DEF Inv, BaseInv
<1>12. BaseInv' /\ \A o \in Requests : RequestInv(o)'
  <2>1. settled' \in [Users -> Skills \union {None}]
    BY <1>5, <1>11 DEF Inv, BaseInv
  <2> QED BY <1>2, <1>6, <1>9, <2>1, BaseStays DEF Inv, BaseInv
<1>13. Slots'
  <2>1. \A n \in 1 .. MaxDeliveries : req'[<<m, n>>].at # "off" <=> n <= d + 1
    <3> SUFFICES ASSUME NEW n \in 1 .. MaxDeliveries
                 PROVE  req'[<<m, n>>].at # "off" <=> n <= d + 1
      OBVIOUS
    <3>1. CASE n = d + 1
      BY <3>1, <1>1, <1>2, <1>4, <1>10
    <3>2. CASE n # d + 1
      BY <3>2, <1>1, <1>2, <1>6 DEF Moves, Requests
    <3> QED BY <3>1, <3>2
  <2>2. \A k \in Messages \ {m}, n \in 1 .. MaxDeliveries : req'[<<k, n>>] = req[<<k, n>>]
    BY <1>1, <1>6 DEF Moves, Requests
  <2>3. d + 1 \in 0 .. MaxDeliveries
    BY <1>2
  <2> HIDE DEF d
  <2> QED BY <2>1, <2>2, <2>3 DEF Slots, Inv
<1>14. /\ ~Choosing(r)
       /\ Choosing(r)' => chooses /\ req'[r].at = "resolve"
       /\ \A o \in Requests \ {r} : Choosing(o)' = Choosing(o) /\ req'[o] = req[o]
       /\ \A o \in Requests : Of(o)' = Of(o) /\ Resolved(Of(o).arg)' = Resolved(Of(o).arg)
  <2>1. ~Choosing(r)
    BY <1>3 DEF Choosing, Active, Idle
  <2>2. Choosing(r)' => chooses /\ req'[r].at = "resolve"
    BY <1>3, <1>4, <1>6, <1>10 DEF Choosing, Active, IsCommand, Grows, Of
  <2>3. \A o \in Requests : Of(o)' = Of(o) /\ Resolved(Of(o).arg)' = Resolved(Of(o).arg)
    BY <1>6 DEF Grows, Of, Resolved
  <2>4. \A o \in Requests \ {r} : Choosing(o)' = Choosing(o) /\ req'[o] = req[o]
    BY <1>6 DEF Moves, Grows, Choosing, Active, IsCommand, Of
  <2> QED BY <2>1, <2>2, <2>3, <2>4
<1>15. ChoiceInv'
  <2>1. contested \subseteq contested'
    BY <1>5
  <2>2. \A q, o \in Requests :
           q # o /\ Choosing(q)' /\ Choosing(o)' /\ Of(q).user = Of(o).user => q \in contested'
    <3> SUFFICES ASSUME NEW q \in Requests, NEW o \in Requests, q # o,
                        Choosing(q)', Choosing(o)', Of(q).user = Of(o).user
                 PROVE  q \in contested'
      OBVIOUS
    <3>1. CASE q = r
      BY <3>1, <1>3, <1>5, <1>14
    <3>2. CASE o = r
      BY <3>2, <1>3, <1>5, <1>14
    <3>3. CASE q # r /\ o # r
      BY <3>3, <2>1, <1>14 DEF ChoiceInv, Inv
    <3> QED BY <3>1, <3>2, <3>3
  <2>3. \A o \in Requests \ contested' :
           Choosing(o)' /\ req'[o].at = "send" /\ Resolved(Of(o).arg) # None
             => settings[Of(o).user] = Of(o).arg
    BY <2>1, <1>14 DEF ChoiceInv, Inv
  <2>4. ASSUME NEW u \in Users, settled'[u] # None
        PROVE  settings[u] = settled'[u] /\ \A o \in Requests : Choosing(o)' => Of(o).user # u
    <3>1. settled'[u] = settled[u] /\ ~(chooses /\ u = post[m].user)
      BY <2>4, <1>5, <1>11 DEF Inv, BaseInv
    <3>2. settings[u] = settled[u] /\ \A o \in Requests : Choosing(o) => Of(o).user # u
      BY <2>4, <3>1 DEF ChoiceInv, Inv
    <3>3. \A o \in Requests \ {r} : Choosing(o)' => Of(o).user # u
      BY <3>2, <1>14
    <3>4. Choosing(r)' => Of(r).user # u
      BY <3>1, <1>3, <1>14
    <3> QED BY <3>1, <3>2, <3>3, <3>4
  <2> HIDE DEF others, chooses
  <2> QED BY <1>6, <1>14, <2>2, <2>3, <2>4 DEF ChoiceInv
<1> QED BY <1>12, <1>13, <1>15 DEF Inv

LEMMA CommandKeeps ==
    ASSUME Inv, NEW r \in Requests, Command(r)
    PROVE  Inv'
<1> DEFINE u == Of(r).user
           arg == Of(r).arg
<1>1. PICK q : q = req[r] /\ RequestInv(r) /\ q.at = "route"
  BY DEF Inv, Command
<1>2. /\ Moves(r) /\ Whole(req'[r]) /\ req'[r].at = "send"
      /\ \A g \in {"uid", "carries", "todo", "up", "bad", "docs"} : req'[r][g] = req[r][g]
  BY Answering DEF Command
<1>3. u \in Users /\ q.uid = u /\ arg \in Skills \union {None}
  <2>1. q.uid = u
    BY <1>1 DEF RequestInv, Owned
  <2> QED BY <2>1, Sender DEF Inv, BaseInv, PostType
<1>4. Grows /\ Active(r) /\ contested' = contested /\ settled' = settled
  BY <1>1 DEF Command, Grows, Active, Inv, BaseInv, choices
<1>5. /\ settings' \in [Users -> Catalogue \union {None}]
      /\ \A v \in Users \ {u} : settings'[v] = settings[v]
      /\ Of(r).cmd # "skill" => settings' = settings
      /\ Of(r).cmd = "skill" /\ Resolved(arg) # None => settings'[u] = arg
  BY <1>1, <1>3 DEF Command, Chosen, Resolved, Inv, BaseInv
<1>6. RequestInv(r)'
  <2>1. Owned(r)'
    BY <1>1, <1>2 DEF Command, RequestInv, Owned, Of
  <2>2. IsCommand(r[1])'
    BY DEF Command, IsCommand
  <2>3. Filed(r)'
    BY <1>1, <1>2, <2>2 DEF Command, RequestInv, Filed
  <2>4. Whole(req'[r]) /\ req'[r].at = "send"
    BY <1>2
  <2> QED BY ONLY <2>1, <2>3, <2>4 DEF RequestInv, Whole
<1>7. BaseInv' /\ \A o \in Requests : RequestInv(o)'
  BY <1>2, <1>4, <1>5, <1>6, BaseStays DEF Inv, BaseInv
<1>8. Slots'
  <2>1. \A o \in Requests : req'[o].at = "off" <=> req[o].at = "off"
    BY <1>1, <1>2 DEF Moves
  <2> QED BY <2>1, SlotsStay DEF Inv
<1>9. /\ \A o \in Requests : Of(o)' = Of(o) /\ Choosing(o)' = Choosing(o)
                             /\ Resolved(Of(o).arg)' = Resolved(Of(o).arg)
      /\ Choosing(r) <=> Of(r).cmd = "skill"
      /\ \A o \in Requests \ {r} : req'[o] = req[o]
  BY <1>1, <1>2, <1>4 DEF Command, Grows, Moves, Of, IsCommand, Choosing, Active, Resolved
<1>10. ChoiceInv'
  <2>1. \A p, o \in Requests :
           p # o /\ Choosing(p) /\ Choosing(o) /\ Of(p).user = Of(o).user => p \in contested
    BY DEF ChoiceInv, Inv
  <2>2. ASSUME NEW o \in Requests \ contested,
               Choosing(o), req'[o].at = "send", Resolved(Of(o).arg) # None
        PROVE  settings'[Of(o).user] = Of(o).arg
    <3>1. CASE o = r
      BY <3>1, <2>2, <1>5, <1>9
    <3>2. CASE o # r
      <4>1. settings[Of(o).user] = Of(o).arg /\ Of(o).user \in Users
        BY <3>2, <2>2, <1>9, Sender DEF ChoiceInv, Inv, BaseInv
      <4>2. Of(r).cmd = "skill" => Of(o).user # u
        BY <3>2, <2>1, <2>2, <1>9
      <4> QED BY <4>1, <4>2, <1>5
    <3> QED BY <3>1, <3>2
  <2>3. ASSUME NEW v \in Users, settled[v] # None
        PROVE  settings'[v] = settled[v] /\ \A o \in Requests : Choosing(o) => Of(o).user # v
    <3>1. settings[v] = settled[v] /\ \A o \in Requests : Choosing(o) => Of(o).user # v
      BY <2>3 DEF ChoiceInv, Inv
    <3>2. Of(r).cmd = "skill" => v # u
      BY <3>1, <1>9
    <3> QED BY <3>1, <3>2, <1>3, <1>5
  <2> QED BY <1>4, <1>9, <2>1, <2>2, <2>3 DEF ChoiceInv
<1> QED BY <1>7, <1>8, <1>10 DEF Inv

LEMMA AcknowledgeKeeps ==
    ASSUME Inv, NEW r \in Requests, Acknowledge(r)
    PROVE  Inv'
<1> DEFINE u == Of(r).user
<1>1. PICK q : q = req[r] /\ RequestInv(r) /\ Whole(q) /\ q.at = "send"
  BY DEF Inv, RequestInv, Acknowledge
<1>2. Grows /\ Moves(r) /\ Active(r) /\ settings' = settings /\ contested' = contested
  BY <1>1 DEF Acknowledge, Grows, Moves, Active, Inv, BaseInv
<1>3. req'[r] = [q EXCEPT !.at = "ok"]
  BY <1>1 DEF Acknowledge, Inv, BaseInv
<1>4. /\ Whole(req'[r]) /\ req'[r].at = "ok"
      /\ \A g \in {"uid", "carries", "todo", "up", "bad", "docs"} : req'[r][g] = q[g]
  BY <1>1, <1>3 DEF Whole, Fields
<1>5. u \in Users /\ q.uid = u /\ Of(r).arg \in Skills \union {None}
  <2>1. q.uid = u
    BY <1>1 DEF RequestInv, Owned
  <2> QED BY <2>1, Sender DEF Inv, BaseInv, PostType
<1>6. settled' = IF Choosing(r) /\ Resolved(Of(r).arg) # None /\ r \notin contested
                 THEN [settled EXCEPT ![u] = Of(r).arg] ELSE settled
  BY <1>1, <1>5 DEF Acknowledge
<1>7. RequestInv(r)'
  <2>1. Owned(r)'
    BY <1>1, <1>4 DEF Acknowledge, RequestInv, Owned, Of
  <2>2. Filed(r)'
    BY <1>1, <1>4 DEF Acknowledge, RequestInv, Filed
  <2> QED BY ONLY <1>4, <2>1, <2>2 DEF RequestInv, Whole
<1>8. BaseInv' /\ \A o \in Requests : RequestInv(o)'
  <2>1. settled' \in [Users -> Skills \union {None}]
    BY <1>5, <1>6 DEF Inv, BaseInv
  <2> QED BY <1>2, <1>7, <2>1, BaseStays DEF Inv, BaseInv
<1>9. Slots'
  <2>1. \A o \in Requests : req'[o].at = "off" <=> req[o].at = "off"
    BY <1>1, <1>2, <1>4 DEF Moves
  <2> QED BY <2>1, SlotsStay DEF Inv
<1>10. /\ \A o \in Requests : Of(o)' = Of(o) /\ Resolved(Of(o).arg)' = Resolved(Of(o).arg)
       /\ \A o \in Requests : Choosing(o)' => Choosing(o) /\ o # r /\ req'[o] = req[o]
  BY <1>2, <1>4 DEF Grows, Moves, Of, IsCommand, Choosing, Active, Resolved
<1>11. ChoiceInv'
  <2>1. ASSUME NEW v \in Users, settled'[v] # None
        PROVE  settings[v] = settled'[v] /\ \A o \in Requests : Choosing(o)' => Of(o).user # v
    <3>1. CASE settled'[v] = settled[v]
      BY <2>1, <3>1, <1>10 DEF ChoiceInv, Inv
    <3>2. CASE settled'[v] # settled[v]
      <4>1. /\ Choosing(r) /\ Resolved(Of(r).arg) # None /\ r \notin contested
            /\ v = u /\ settled'[v] = Of(r).arg
        BY <3>2, <1>5, <1>6 DEF Inv, BaseInv
      <4>2. settings[u] = Of(r).arg
        BY <4>1, <1>1 DEF ChoiceInv, Inv
      <4>3. \A o \in Requests \ {r} : Choosing(o) => Of(o).user # u
        BY <4>1 DEF ChoiceInv, Inv
      <4> QED BY <4>1, <4>2, <4>3, <1>10
    <3> QED BY <3>1, <3>2
  <2>2. \A p, o \in Requests :
           p # o /\ Choosing(p)' /\ Choosing(o)' /\ Of(p).user = Of(o).user => p \in contested
    BY <1>10 DEF ChoiceInv, Inv
  <2>3. \A o \in Requests \ contested :
           Choosing(o)' /\ req'[o].at = "send" /\ Resolved(Of(o).arg) # None
             => settings[Of(o).user] = Of(o).arg
    BY <1>10 DEF ChoiceInv, Inv
  <2> QED BY <1>2, <1>10, <2>1, <2>2, <2>3 DEF ChoiceInv
<1> QED BY <1>8, <1>9, <1>11 DEF Inv

-----------------------------------------------------------------------------
(* The invariant and what follows from it.                                 *)

LEMMA InitHolds == ASSUME Init PROVE Inv
<1>1. BaseInv
  BY DEF Init, BaseInv
<1>2. Slots
  <2>1. \A m \in Messages, n \in 1 .. MaxDeliveries : req[<<m, n>>].at = "off" /\ ~(n <= 0)
    BY DEF Init, Requests, Idle
  <2>2. 0 \in 0 .. MaxDeliveries
    OBVIOUS
  <2> QED BY <2>1, <2>2 DEF Slots
<1>3. \A r \in Requests : RequestInv(r)
  BY DEF Init, RequestInv, Whole, Fields, Idle, Owned, Filed
<1>4. ChoiceInv
  BY DEF Init, ChoiceInv, Choosing, Active, Idle
<1> QED BY <1>1, <1>2, <1>3, <1>4 DEF Inv

LEMMA StepHolds == ASSUME Inv, [Next]_vars PROVE Inv'
<1>1. CASE UNCHANGED vars
  <2>1. /\ post' = post /\ identity' = identity /\ settings' = settings /\ blobs' = blobs
        /\ records' = records /\ req' = req /\ contested' = contested /\ settled' = settled
    BY <1>1 DEF vars, choices
  <2>2. /\ \A r \in Requests : Of(r)' = Of(r) /\ IsCommand(r[1])' = IsCommand(r[1])
        /\ \A r \in Requests : Choosing(r)' = Choosing(r) /\ Resolved(Of(r).arg)' = Resolved(Of(r).arg)
    BY <2>1 DEF Of, IsCommand, Choosing, Active, Resolved
  <2>3. BaseInv' /\ Slots'
    BY <2>1 DEF Inv, BaseInv, Slots
  <2>4. \A r \in Requests : RequestInv(r)'
    BY <2>1, OthersStay DEF Inv, BaseInv, Grows
  <2>5. ChoiceInv'
    BY <2>1, <2>2 DEF Inv, ChoiceInv
  <2> QED BY <2>3, <2>4, <2>5 DEF Inv
<1>2. CASE \E m \in Messages : Deliver(m)
  BY <1>2, DeliverKeeps
<1>3. CASE \E u \in Users : Migrate(u)
  BY <1>3, MigrateKeeps
<1>4. CASE \E r \in Requests : Dies(r)
  BY <1>4, DiesKeeps
<1>5. ASSUME NEW r \in Requests, Step(r) PROVE Inv'
  BY <1>5, ResolveKeeps, AdmitKeeps, RejectKeeps, CommandKeeps, UploadKeeps, StoreFileKeeps,
     RegisterFileKeeps, FileFailsKeeps, InvokeKeeps, SendingKeeps, AcknowledgeKeeps
     DEF Step, DiscordSends, TelegramSends, WhatsAppSends, EmailSends
<1> QED BY <1>1, <1>2, <1>3, <1>4, <1>5 DEF Next

\* What the theorems below are read from (base.py:149-241, identity.py:86-111).
THEOREM Invariance == Spec => []Inv
<1> QED BY InitHolds, StepHolds, PTL DEF Spec

\* For any number of senders, messages, deliveries of each and instances: every
\* delivery of a sender runs under the one uid on record (identity.py:105-111).
THEOREM IdentityTheorem == Spec => []OneIdentity
<1>1. Inv => OneIdentity
  BY DEF Inv, RequestInv, Owned, OneIdentity
<1> QED BY <1>1, Invariance, PTL

\* A user's choice of a skill that was answered and ran alone is the default
\* until the next one comes, whatever else is under way (_commands_runtime.py:39-56).
THEOREM ChoiceTheorem == Spec => []ChoiceStands
<1>1. Inv => ChoiceStands
  BY DEF Inv, ChoiceInv, ChoiceStands
<1> QED BY <1>1, Invariance, PTL

\* However many attachments fail and when, the others all reach the turn, each
\* registered with its bytes stored (attachments.py:102-106).
THEOREM UploadsTheorem == Spec => []UploadsReachTurn
<1>1. Inv => UploadsReachTurn
  BY DEF Inv, BaseInv, RequestInv, Filed, UploadsReachTurn
<1> QED BY <1>1, Invariance, PTL

-----------------------------------------------------------------------------
(* What is said.  Until a call to the provider fails, what a delivery has  *)
(* sent and has still to send are the pieces of its answer.                *)

Fits(pieces) == \A k \in DOMAIN pieces : Len(pieces[k]) <= MaxLength

Says(r, q) ==
    /\ q.at \in {"off", "resolve", "unknown"} => q.uid = None
    /\ q.at \notin {"send", "ok"} => q.text = <<>> /\ q.rest = <<>> /\ q.said = <<>>
    /\ q.at = "send" => q.text # <<>>
    /\ q.text # <<>> /\ ~q.lost => q.said \o q.rest = Pieces(ChannelFor(r), q.text)
    /\ ChannelFor(r) # "email" => Fits(q.said) /\ Fits(q.rest)
    /\ q.at = "ok" => q.rest = <<>>
    /\ q.at = "ok" /\ q.text = <<>> =>
          \/ ~Actionable(r[1], q.carries)
          \/ q.uid = None /\ ChannelFor(r) = "discord" /\ ~Of(r).listed

Told(r) == req[r] \in Request /\ Says(r, req[r])

TellInv ==
    /\ Inv /\ \A r \in Requests : Told(r)
    /\ blobs \subseteq Requests \X Files /\ contested \subseteq Requests

LEMMA IdleTold == ASSUME NEW r PROVE Idle \in Request /\ Says(r, Idle)
  BY DEF Idle, Request, Says, Fits

\* post stays as it is, hence what a message is.
LEMMA SaysSame ==
    ASSUME post' = post, NEW r, NEW q, Says(r, q)
    PROVE  Says(r, q)'
<1>1. Of(r)' = Of(r) /\ ChannelFor(r)' = ChannelFor(r)
  BY DEF Of, ChannelFor
<1>2. Actionable(r[1], q.carries)' = Actionable(r[1], q.carries)
  BY DEF Actionable, DiscordParses, TelegramParses, WhatsAppParses, EmailParses
<1> QED BY <1>1, <1>2 DEF Says, Fits

\* One delivery moves, and what it moves to tells.
LEMMA OneTells ==
    ASSUME TellInv, Inv', post' = post, NEW r \in Requests, NEW q, q \in Request, Says(r, q),
           req' = [req EXCEPT ![r] = q], blobs' \subseteq Requests \X Files, contested' \subseteq Requests
    PROVE  TellInv'
<1>1. \A o \in Requests : req'[o] = IF o = r THEN q ELSE req[o]
  BY DEF TellInv, Inv, BaseInv
<1>2. ASSUME NEW o \in Requests PROVE Told(o)'
  <2>1. req'[o] \in Request /\ Says(o, req'[o])
    BY <1>1 DEF TellInv, Told
  <2>2. PICK p : p = req'[o]
    OBVIOUS
  <2>3. Says(o, p)'
    BY <2>1, <2>2, SaysSame
  <2> QED BY <2>1, <2>2, <2>3 DEF Told
<1> QED BY <1>2 DEF TellInv

LEMMA AsTold ==
    ASSUME TellInv, NEW r \in Requests
    PROVE  /\ req[r] \in Request /\ Says(r, req[r]) /\ RequestInv(r)
           /\ Of(r) \in PostType /\ Of(r).user \in Users /\ r[1] \in Messages
           /\ req = [o \in Requests |-> req[o]]
           /\ blobs \subseteq Requests \X Files /\ contested \subseteq Requests
  BY Sender DEF TellInv, Told, Inv, BaseInv

\* One that has not answered yet, and does not now, tells nothing.
LEMMA NothingSaid ==
    ASSUME TellInv, NEW r \in Requests, NEW q, q.at \in {"unknown", "route", "files"},
           req[r].at \notin {"send", "ok"}, q.at = "unknown" => q.uid = None,
           q.text = req[r].text, q.rest = req[r].rest, q.said = req[r].said
    PROVE  Says(r, q)
<1>1. q.text = <<>> /\ q.rest = <<>> /\ q.said = <<>>
  BY AsTold DEF Says
<1> QED BY <1>1 DEF Says, Fits

-----------------------------------------------------------------------------
(* Before it answers.                                                      *)

LEMMA ResolveTells == ASSUME TellInv, Inv', NEW r \in Requests, Resolve(r) PROVE TellInv'
<1> DEFINE uid == identity[Of(r).user]
           q == [req[r] EXCEPT !.uid = uid, !.at = IF uid = None THEN "unknown" ELSE "route"]
<1>1. req' = [req EXCEPT ![r] = q] /\ post' = post /\ blobs' = blobs /\ contested' = contested
      /\ req[r].at = "resolve"
  BY AsTold DEF Resolve, choices
<1>2. uid \in Users \union {None}
  BY AsTold DEF TellInv, Inv, BaseInv
<1>3. /\ q \in Request /\ q.at = (IF uid = None THEN "unknown" ELSE "route") /\ (q.at = "unknown" => q.uid = None)
      /\ q.text = req[r].text /\ q.rest = req[r].rest /\ q.said = req[r].said
  <2>1. PICK p \in Request : p = req[r]
    BY AsTold
  <2> DEFINE e == [p EXCEPT !.uid = uid, !.at = IF uid = None THEN "unknown" ELSE "route"]
  <2>2. /\ e \in Request /\ e.at = (IF uid = None THEN "unknown" ELSE "route") /\ (e.at = "unknown" => e.uid = None)
        /\ e.text = p.text /\ e.rest = p.rest /\ e.said = p.said
    BY ONLY <1>2, p \in Request DEF Request
  <2> QED BY <2>1, <2>2
<1> HIDE DEF q
<1>8. Says(r, q)
  BY <1>1, <1>3, NothingSaid
<1> QED BY <1>1, <1>3, <1>8, AsTold, OneTells

LEMMA AdmitTells == ASSUME TellInv, Inv', NEW r \in Requests, Admit(r) PROVE TellInv'
<1>1. PICK uid \in Users : req' = [req EXCEPT ![r].uid = uid, ![r].at = "route"]
  BY DEF Admit
<1> DEFINE q == [req[r] EXCEPT !.uid = uid, !.at = "route"]
<1>2. req' = [req EXCEPT ![r] = q] /\ post' = post /\ blobs' = blobs /\ contested' = contested
      /\ req[r].at = "unknown"
  BY <1>1, AsTold DEF Admit, choices
<1>3. /\ q \in Request /\ q.at = "route" /\ (q.at = "unknown" => q.uid = None)
      /\ q.text = req[r].text /\ q.rest = req[r].rest /\ q.said = req[r].said
  <2>1. PICK p \in Request : p = req[r]
    BY AsTold
  <2> DEFINE e == [p EXCEPT !.uid = uid, !.at = "route"]
  <2>2. /\ e \in Request /\ e.at = "route" /\ (e.at = "unknown" => e.uid = None)
        /\ e.text = p.text /\ e.rest = p.rest /\ e.said = p.said
    BY ONLY uid \in Users, p \in Request DEF Request
  <2> QED BY <2>1, <2>2
<1> HIDE DEF q
<1>8. Says(r, q)
  BY <1>2, <1>3, NothingSaid
<1> QED BY <1>2, <1>3, <1>8, AsTold, OneTells

LEMMA RejectTells == ASSUME TellInv, Inv', NEW r \in Requests, Reject(r) PROVE TellInv'
<1> DEFINE q == [req[r] EXCEPT !.at = "ok"]
<1>1. req' = [req EXCEPT ![r] = q] /\ post' = post /\ blobs' = blobs /\ contested' = contested
      /\ req[r].at = "unknown" /\ ChannelFor(r) = "discord" /\ ~Of(r).listed
  BY AsTold DEF Reject, choices
<1>2. req[r].uid = None
  BY <1>1, AsTold DEF Says
<1>3. q \in Request /\ q.at = "ok" /\ q.uid = None /\ q.text = <<>> /\ q.rest = <<>> /\ q.said = <<>>
  <2>1. req[r].text = <<>> /\ req[r].rest = <<>> /\ req[r].said = <<>>
    BY <1>1, AsTold DEF Says
  <2>2. PICK p \in Request : p = req[r]
    BY AsTold
  <2> DEFINE e == [p EXCEPT !.at = "ok"]
  <2>3. e \in Request /\ e.at = "ok" /\ e.uid = p.uid /\ e.text = p.text /\ e.rest = p.rest /\ e.said = p.said
    BY ONLY p \in Request DEF Request
  <2> QED BY <1>2, <2>1, <2>2, <2>3
<1> HIDE DEF q
<1>4. Says(r, q)
  BY <1>1, <1>3 DEF Says, Fits
<1> QED BY <1>1, <1>3, <1>4, AsTold, OneTells

LEMMA UploadTells == ASSUME TellInv, Inv', NEW r \in Requests, Upload(r) PROVE TellInv'
<1> DEFINE q == [req[r] EXCEPT !.at = "files", !.todo = req[r].carries]
<1>1. req' = [req EXCEPT ![r] = q] /\ post' = post /\ blobs' = blobs /\ contested' = contested
      /\ req[r].at = "route"
  BY AsTold DEF Upload, choices
<1>2. /\ q \in Request /\ q.at = "files" /\ (q.at = "unknown" => q.uid = None)
      /\ q.text = req[r].text /\ q.rest = req[r].rest /\ q.said = req[r].said
  <2>1. PICK p \in Request : p = req[r]
    BY AsTold
  <2> DEFINE e == [p EXCEPT !.at = "files", !.todo = p.carries]
  <2>2. /\ e \in Request /\ e.at = "files" /\ (e.at = "unknown" => e.uid = None)
        /\ e.text = p.text /\ e.rest = p.rest /\ e.said = p.said
    BY ONLY p \in Request DEF Request
  <2> QED BY <2>1, <2>2
<1> HIDE DEF q
<1>8. Says(r, q)
  BY <1>1, <1>2, NothingSaid
<1> QED BY <1>1, <1>2, <1>8, AsTold, OneTells

LEMMA StoreFileTells ==
    ASSUME TellInv, Inv', NEW r \in Requests, NEW f \in Files, StoreFile(r, f)
    PROVE  TellInv'
<1> DEFINE q == [req[r] EXCEPT !.up = f, !.todo = @ \ {f}]
<1>1. req' = [req EXCEPT ![r] = q] /\ post' = post /\ contested' = contested /\ req[r].at = "files"
  BY AsTold DEF StoreFile, choices
<1>2. /\ q \in Request /\ q.at = "files" /\ (q.at = "unknown" => q.uid = None)
      /\ q.text = req[r].text /\ q.rest = req[r].rest /\ q.said = req[r].said
  <2>1. PICK p \in Request : p = req[r]
    BY AsTold
  <2> DEFINE e == [p EXCEPT !.up = f, !.todo = @ \ {f}]
  <2>2. /\ e \in Request /\ e.at = "files" /\ (e.at = "unknown" => e.uid = None)
        /\ e.text = p.text /\ e.rest = p.rest /\ e.said = p.said
    BY ONLY f \in Files, <1>1, <2>1, p \in Request DEF Request
  <2> QED BY <2>1, <2>2
<1>3. blobs' \subseteq Requests \X Files
  BY AsTold DEF StoreFile
<1> HIDE DEF q
<1>8. Says(r, q)
  BY <1>1, <1>2, <1>3, NothingSaid
<1> QED BY <1>1, <1>2, <1>3, <1>8, AsTold, OneTells

LEMMA RegisterFileTells == ASSUME TellInv, Inv', NEW r \in Requests, RegisterFile(r) PROVE TellInv'
<1> DEFINE q == [req[r] EXCEPT !.docs = @ \union {req[r].up}, !.up = None]
<1>1. req' = [req EXCEPT ![r] = q] /\ post' = post /\ blobs' = blobs /\ contested' = contested
      /\ req[r].at = "files" /\ req[r].up # None
  BY AsTold DEF RegisterFile, choices
<1>2. /\ q \in Request /\ q.at = "files" /\ (q.at = "unknown" => q.uid = None)
      /\ q.text = req[r].text /\ q.rest = req[r].rest /\ q.said = req[r].said
  <2>1. PICK p \in Request : p = req[r]
    BY AsTold
  <2> DEFINE e == [p EXCEPT !.docs = @ \union {p.up}, !.up = None]
  <2>2. /\ e \in Request /\ e.at = "files" /\ (e.at = "unknown" => e.uid = None)
        /\ e.text = p.text /\ e.rest = p.rest /\ e.said = p.said
    BY ONLY <1>1, <2>1, p \in Request DEF Request
  <2> QED BY <2>1, <2>2
<1> HIDE DEF q
<1>8. Says(r, q)
  BY <1>1, <1>2, NothingSaid
<1> QED BY <1>1, <1>2, <1>8, AsTold, OneTells

LEMMA FileFailsTells ==
    ASSUME TellInv, Inv', NEW r \in Requests, NEW f \in Files, FileFails(r, f)
    PROVE  TellInv'
<1> DEFINE q == [req[r] EXCEPT !.bad = @ \union {f}, !.todo = @ \ {f}, !.up = None]
<1>1. req' = [req EXCEPT ![r] = q] /\ post' = post /\ blobs' = blobs /\ contested' = contested
      /\ req[r].at = "files"
  BY AsTold DEF FileFails, GiveUp, choices
<1>2. /\ q \in Request /\ q.at = "files" /\ (q.at = "unknown" => q.uid = None)
      /\ q.text = req[r].text /\ q.rest = req[r].rest /\ q.said = req[r].said
  <2>1. PICK p \in Request : p = req[r]
    BY AsTold
  <2> DEFINE e == [p EXCEPT !.bad = @ \union {f}, !.todo = @ \ {f}, !.up = None]
  <2>2. /\ e \in Request /\ e.at = "files" /\ (e.at = "unknown" => e.uid = None)
        /\ e.text = p.text /\ e.rest = p.rest /\ e.said = p.said
    BY ONLY f \in Files, <1>1, <2>1, p \in Request DEF Request
  <2> QED BY <2>1, <2>2
<1> HIDE DEF q
<1>8. Says(r, q)
  BY <1>1, <1>2, NothingSaid
<1> QED BY <1>1, <1>2, <1>8, AsTold, OneTells

LEMMA DiesTells == ASSUME TellInv, Inv', NEW r \in Requests, Dies(r) PROVE TellInv'
<1> DEFINE q == [Idle EXCEPT !.at = "died"]
<1>1. req' = [req EXCEPT ![r] = q] /\ post' = post /\ blobs' = blobs /\ contested' = contested
  BY AsTold DEF Dies, Ended, choices
<1>2. q \in Request /\ q.at = "died" /\ q.text = <<>> /\ q.rest = <<>> /\ q.said = <<>>
  <2>1. PICK p \in Request : p = Idle
    BY IdleTold
  <2>2. p.text = <<>> /\ p.rest = <<>> /\ p.said = <<>>
    BY ONLY <2>1 DEF Idle
  <2> DEFINE e == [p EXCEPT !.at = "died"]
  <2>3. e \in Request /\ e.at = "died" /\ e.text = p.text /\ e.rest = p.rest /\ e.said = p.said
    BY ONLY p \in Request DEF Request
  <2> QED BY <2>1, <2>2, <2>3
<1> HIDE DEF q
<1>3. Says(r, q)
  BY <1>2 DEF Says, Fits
<1> QED BY <1>1, <1>2, <1>3, AsTold, OneTells

LEMMA MigrateTells == ASSUME TellInv, Inv', NEW u \in Users, Migrate(u) PROVE TellInv'
<1>1. req' = req /\ post' = post /\ blobs' = blobs /\ contested' = contested
  BY DEF Migrate, choices
<1> QED BY <1>1, SaysSame DEF TellInv, Told

LEMMA DeliverTells == ASSUME TellInv, Inv', NEW m \in Messages, Deliver(m) PROVE TellInv'
<1> DEFINE d == Deliveries(m)
<1>1. PICK r : r = <<m, d + 1>>
  OBVIOUS
<1>2. r \in Requests /\ req[r] = Idle /\ Of(r) = post[m] /\ r[1] = m
  <2>1. d \in 0 .. MaxDeliveries /\ d < MaxDeliveries
    BY NextSlot DEF TellInv, Inv, Deliver
  <2>2. r \in Requests /\ \A n \in 1 .. MaxDeliveries : req[<<m, n>>].at # "off" <=> n <= d
    BY <1>1, <2>1, NextSlot DEF TellInv, Inv
  <2>3. d + 1 \in 1 .. MaxDeliveries /\ ~(d + 1 <= d)
    BY <2>1
  <2>4. req[r].at = "off"
    BY <1>1, <2>2, <2>3
  <2> QED BY <1>1, <2>2, <2>4, AsTold DEF RequestInv, Of
<1>3. PICK files, at : /\ files \in FilesFound(m) /\ at \in {"died", "resolve", "ok"}
                       /\ at = "ok" => ~Actionable(m, files)
                       /\ req' = [req EXCEPT ![r].carries = files, ![r].at = at]
  <2>1. PICK files \in FilesFound(m) :
           req' = [req EXCEPT ![r].carries = files,
                      ![r].at = CASE ~Verified(m) -> "died"
                                  [] Verified(m) /\ Actionable(m, files) -> "resolve"
                                  [] OTHER -> "ok"]
    BY <1>1 DEF Deliver
  <2>2. PICK at : at = CASE ~Verified(m) -> "died"
                         [] Verified(m) /\ Actionable(m, files) -> "resolve"
                         [] OTHER -> "ok"
    OBVIOUS
  <2>3. at \in {"died", "resolve", "ok"} /\ (at = "ok" => ~Actionable(m, files))
    BY <2>2
  <2> QED BY <2>1, <2>2, <2>3
<1> DEFINE q == [Idle EXCEPT !.carries = files, !.at = at]
<1>4. req' = [req EXCEPT ![r] = q] /\ post' = post /\ blobs' = blobs
  BY <1>2, <1>3, AsTold DEF Deliver
<1>5. files \subseteq Files
  <2>1. post[m].files \subseteq Files /\ post[m].user \in Users
    BY <1>2, AsTold DEF PostType
  <2>2. ChannelOf[post[m].user] \in {"discord", "telegram", "whatsapp", "email"}
    BY <2>1 DEF Channels
  <2>3. files \in {{}} \union (SUBSET post[m].files) \union {post[m].files \ post[m].malformed}
    BY <1>3, <2>2 DEF FilesFound, TelegramFiles, WhatsAppFiles, EmailFiles
  <2> QED BY <2>1, <2>3
<1>6. /\ q \in Request /\ q.at = at /\ q.carries = files /\ q.uid = None
      /\ q.text = <<>> /\ q.rest = <<>> /\ q.said = <<>>
  <2>1. PICK p \in Request : p = Idle
    BY IdleTold
  <2>2. p.uid = None /\ p.text = <<>> /\ p.rest = <<>> /\ p.said = <<>>
    BY ONLY <2>1 DEF Idle
  <2> DEFINE e == [p EXCEPT !.carries = files, !.at = at]
  <2>3. /\ e \in Request /\ e.at = at /\ e.carries = files /\ e.uid = p.uid
        /\ e.text = p.text /\ e.rest = p.rest /\ e.said = p.said
    BY ONLY <1>3, <1>5, p \in Request DEF Request
  <2> QED BY <2>1, <2>2, <2>3
<1>7. contested' \subseteq Requests
  BY <1>1, <1>2, AsTold DEF Deliver
<1> HIDE DEF q
<1>8. Says(r, q)
  BY <1>2, <1>3, <1>6 DEF Says, Fits
<1> QED BY <1>2, <1>4, <1>6, <1>7, <1>8, AsTold, OneTells

-----------------------------------------------------------------------------
(* Its answer.                                                             *)

LEMMA ReplyTells ==
    ASSUME TellInv, Inv', NEW r \in Requests, NEW text \in Texts, NEW skill \in Skills \union {None},
           Reply(r, text, skill), req[r].at \in {"route", "files"},
           post' = post, blobs' = blobs, contested' = contested
    PROVE  TellInv'
<1>1. PICK rest : rest = Pieces(ChannelFor(r), text)
  OBVIOUS
<1> DEFINE q == [req[r] EXCEPT !.at = "send", !.text = text, !.skill = skill, !.rest = rest]
<1>2. req' = [req EXCEPT ![r] = q]
  BY <1>1, AsTold DEF Reply
<1>3. text \in Seq(Nat) /\ text # <<>> /\ rest \in Seq(Seq(Nat)) /\ (ChannelFor(r) # "email" => Fits(rest))
  BY <1>1, PiecesSpell DEF Fits
<1>4. req[r].said = <<>> /\ req[r] \in Request
  BY AsTold DEF Says
<1>5. <<>> \o rest = rest /\ Fits(<<>>)
  BY <1>3 DEF Fits
<1>6. q \in Request /\ q.at = "send" /\ q.text = text /\ q.rest = rest /\ q.said = <<>>
  BY <1>3, <1>4 DEF Request
<1> HIDE DEF q
<1>7. Says(r, q)
  BY <1>1, <1>3, <1>5, <1>6 DEF Says
<1> QED BY <1>2, <1>6, <1>7, AsTold, OneTells

LEMMA CommandTells == ASSUME TellInv, Inv', NEW r \in Requests, Command(r) PROVE TellInv'
  BY ReplyTells, AsTold DEF Command, choices

LEMMA InvokeTells == ASSUME TellInv, Inv', NEW r \in Requests, Invoke(r) PROVE TellInv'
<1>1. req[r].uid \in Users
  <2>1. req[r].at = "files"
    BY DEF Invoke
  <2> QED BY <2>1, AsTold DEF RequestInv, Owned
<1>2. settings[req[r].uid] \in Skills \union {None}
  BY <1>1 DEF TellInv, Inv, BaseInv
<1>3. Selected(r) \in Skills \union {None}
  BY <1>2 DEF Selected, Resolved
<1> QED BY <1>3, ReplyTells, AsTold DEF Invoke, choices

\* A piece goes from what is to be sent to what was said.
LEMMA MovedOver ==
    ASSUME NEW S, NEW p \in Seq(S), NEW q \in Seq(S), q # <<>>
    PROVE  /\ Append(p, Head(q)) \o Tail(q) = p \o q
           /\ Append(p, Head(q)) \in Seq(S) /\ Tail(q) \in Seq(S)
           /\ \A k \in DOMAIN Tail(q) : k + 1 \in DOMAIN q /\ Tail(q)[k] = q[k + 1]
           /\ 1 \in DOMAIN q
           /\ \A k \in DOMAIN Append(p, Head(q)) :
                 (k \in DOMAIN p /\ Append(p, Head(q))[k] = p[k]) \/ Append(p, Head(q))[k] = q[1]
<1>1. /\ Len(p) \in Nat /\ Len(q) \in Nat /\ Len(q) # 0 /\ DOMAIN p = 1 .. Len(p) /\ DOMAIN q = 1 .. Len(q)
      /\ Head(q) = q[1] /\ Head(q) \in S
  OBVIOUS
<1>2. Tail(q) \in Seq(S) /\ Len(Tail(q)) = Len(q) - 1 /\ \A k \in 1 .. Len(q) - 1 : Tail(q)[k] = q[k + 1]
  OBVIOUS
<1>3. Append(p, Head(q)) \in Seq(S) /\ Len(Append(p, Head(q))) = Len(p) + 1
      /\ Append(p, Head(q))[Len(p) + 1] = q[1] /\ \A k \in 1 .. Len(p) : Append(p, Head(q))[k] = p[k]
  BY <1>1
<1>4. Append(p, Head(q)) \o Tail(q) = p \o q
  <2>1. Append(p, Head(q)) = p \o <<Head(q)>> /\ <<Head(q)>> \in Seq(S)
    BY <1>1, AppendIsConcat
  <2>2. (p \o <<Head(q)>>) \o Tail(q) = p \o (<<Head(q)>> \o Tail(q))
    BY <1>2, <2>1, ConcatAssociative
  <2>3. <<Head(q)>> \o Tail(q) = q
    BY HeadTailProperties
  <2> QED BY <2>1, <2>2, <2>3
<1>5. PICK a, t, m, n : a = Append(p, Head(q)) /\ t = Tail(q) /\ m = Len(p) /\ n = Len(q)
  OBVIOUS
<1>6. /\ m \in Nat /\ n \in Nat /\ n # 0 /\ DOMAIN p = 1 .. m /\ DOMAIN q = 1 .. n
      /\ a \in Seq(S) /\ DOMAIN a = 1 .. m + 1 /\ a[m + 1] = q[1] /\ \A k \in 1 .. m : a[k] = p[k]
      /\ t \in Seq(S) /\ DOMAIN t = 1 .. n - 1 /\ \A k \in 1 .. n - 1 : t[k] = q[k + 1]
  BY <1>1, <1>2, <1>3, <1>5
<1>7. (\A k \in 1 .. m + 1 : k \in 1 .. m \/ k = m + 1) /\ (\A k \in 1 .. n - 1 : k + 1 \in 1 .. n) /\ 1 \in 1 .. n
  BY <1>6
<1> QED BY <1>4, <1>5, <1>6, <1>7

LEMMA SendChunkTells == ASSUME TellInv, Inv', NEW r \in Requests, SendChunk(r) PROVE TellInv'
<1>1. PICK p \in Request : p = req[r] /\ Says(r, p) /\ p.at = "send" /\ p.rest # <<>>
  BY AsTold DEF SendChunk
<1>2. PICK rest, said : rest = Tail(p.rest) /\ said = Append(p.said, Head(p.rest))
  OBVIOUS
<1>3. p.said \in Seq(Seq(Nat)) /\ p.rest \in Seq(Seq(Nat))
  BY ONLY p \in Request DEF Request
<1>4. /\ said \o rest = p.said \o p.rest /\ said \in Seq(Seq(Nat)) /\ rest \in Seq(Seq(Nat))
      /\ \A k \in DOMAIN rest : k + 1 \in DOMAIN p.rest /\ rest[k] = p.rest[k + 1]
      /\ 1 \in DOMAIN p.rest
      /\ \A k \in DOMAIN said : (k \in DOMAIN p.said /\ said[k] = p.said[k]) \/ said[k] = p.rest[1]
  <2>1. PICK S : S = Seq(Nat)
    OBVIOUS
  <2>2. PICK a, b : a = p.said /\ b = p.rest
    OBVIOUS
  <2>3. a \in Seq(S) /\ b \in Seq(S) /\ b # <<>>
    BY ONLY <1>1, <1>3, <2>1, <2>2
  <2>4. /\ Append(a, Head(b)) \o Tail(b) = a \o b
        /\ Append(a, Head(b)) \in Seq(S) /\ Tail(b) \in Seq(S)
        /\ \A k \in DOMAIN Tail(b) : k + 1 \in DOMAIN b /\ Tail(b)[k] = b[k + 1]
        /\ 1 \in DOMAIN b
        /\ \A k \in DOMAIN Append(a, Head(b)) :
              (k \in DOMAIN a /\ Append(a, Head(b))[k] = a[k]) \/ Append(a, Head(b))[k] = b[1]
    BY ONLY <2>3, MovedOver
  <2>5. rest = Tail(b) /\ said = Append(a, Head(b))
    BY ONLY <1>2, <2>2, Zenon
  <2>6. /\ said \o rest = a \o b /\ said \in Seq(S) /\ rest \in Seq(S)
        /\ \A k \in DOMAIN rest : k + 1 \in DOMAIN b /\ rest[k] = b[k + 1]
        /\ 1 \in DOMAIN b
        /\ \A k \in DOMAIN said : (k \in DOMAIN a /\ said[k] = a[k]) \/ said[k] = b[1]
    BY ONLY <2>4, <2>5, Zenon
  <2> QED BY ONLY <2>1, <2>2, <2>6, Zenon
<1> DEFINE q == [p EXCEPT !.rest = rest, !.said = said]
<1>5. req' = [req EXCEPT ![r] = q] /\ post' = post /\ blobs' = blobs /\ contested' = contested
  BY <1>1, <1>2, AsTold DEF SendChunk, choices
<1>6. /\ q \in Request /\ q.at = p.at /\ q.text = p.text /\ q.rest = rest /\ q.said = said /\ q.lost = p.lost
  BY ONLY p \in Request, <1>4 DEF Request
<1> HIDE DEF q
<1>7. Says(r, q)
  BY <1>1, <1>4, <1>6 DEF Says, Fits
<1> QED BY <1>5, <1>6, <1>7, AsTold, OneTells

LEMMA LoseChunkTells == ASSUME TellInv, Inv', NEW r \in Requests, LoseChunk(r) PROVE TellInv'
<1>1. PICK p \in Request : p = req[r] /\ Says(r, p) /\ p.at = "send" /\ p.rest # <<>>
  BY AsTold DEF LoseChunk
<1>2. PICK rest : rest = Tail(p.rest)
  OBVIOUS
<1>3. p.said \in Seq(Seq(Nat)) /\ p.rest \in Seq(Seq(Nat))
  BY ONLY p \in Request DEF Request
<1>4. /\ rest \in Seq(Seq(Nat))
      /\ \A k \in DOMAIN rest : k + 1 \in DOMAIN p.rest /\ rest[k] = p.rest[k + 1]
  <2>1. PICK S : S = Seq(Nat)
    OBVIOUS
  <2>2. PICK a, b : a = p.said /\ b = p.rest
    OBVIOUS
  <2>3. a \in Seq(S) /\ b \in Seq(S) /\ b # <<>>
    BY ONLY <1>1, <1>3, <2>1, <2>2
  <2>4. Tail(b) \in Seq(S) /\ \A k \in DOMAIN Tail(b) : k + 1 \in DOMAIN b /\ Tail(b)[k] = b[k + 1]
    BY ONLY <2>3, MovedOver
  <2> QED BY ONLY <1>2, <2>1, <2>2, <2>4, Zenon
<1> DEFINE q == [p EXCEPT !.rest = rest, !.lost = TRUE]
<1>5. req' = [req EXCEPT ![r] = q] /\ post' = post /\ blobs' = blobs /\ contested' = contested
  BY <1>1, <1>2, AsTold DEF LoseChunk, choices
<1>6. /\ q \in Request /\ q.at = p.at /\ q.text = p.text /\ q.rest = rest /\ q.said = p.said /\ q.lost
  BY ONLY p \in Request, <1>4 DEF Request
<1> HIDE DEF q
<1>7. Says(r, q)
  BY <1>1, <1>4, <1>6 DEF Says, Fits
<1> QED BY <1>5, <1>6, <1>7, AsTold, OneTells

LEMMA DropReplyTells == ASSUME TellInv, Inv', NEW r \in Requests, DropReply(r) PROVE TellInv'
<1>1. PICK p \in Request : p = req[r] /\ Says(r, p) /\ p.at = "send"
  BY AsTold DEF DropReply
<1> DEFINE q == [p EXCEPT !.rest = <<>>, !.lost = TRUE]
<1>2. req' = [req EXCEPT ![r] = q] /\ post' = post /\ blobs' = blobs /\ contested' = contested
  BY <1>1, AsTold DEF DropReply, choices
<1>3. /\ q \in Request /\ q.at = p.at /\ q.text = p.text /\ q.rest = <<>> /\ q.said = p.said /\ q.lost
  <2>1. PICK S : S = Seq(Nat)
    OBVIOUS
  <2>2. <<>> \in Seq(S)
    OBVIOUS
  <2>3. PICK none \in Seq(Seq(Nat)) : none = <<>>
    BY ONLY <2>1, <2>2, Zenon
  <2> QED BY ONLY p \in Request, <2>3 DEF Request
<1> HIDE DEF q
<1>4. Says(r, q)
  BY <1>1, <1>3 DEF Says, Fits
<1> QED BY <1>2, <1>3, <1>4, AsTold, OneTells

LEMMA AcknowledgeTells == ASSUME TellInv, Inv', NEW r \in Requests, Acknowledge(r) PROVE TellInv'
<1>1. PICK p \in Request : p = req[r] /\ Says(r, p) /\ p.at = "send" /\ p.rest = <<>>
  BY AsTold DEF Acknowledge
<1> DEFINE q == [p EXCEPT !.at = "ok"]
<1>2. req' = [req EXCEPT ![r] = q] /\ post' = post /\ blobs' = blobs /\ contested' = contested
  BY <1>1, AsTold DEF Acknowledge
<1>3. /\ q \in Request /\ q.at = "ok" /\ q.text = p.text /\ q.rest = p.rest /\ q.said = p.said /\ q.lost = p.lost
  BY ONLY p \in Request DEF Request
<1> HIDE DEF q
<1>4. Says(r, q)
  BY <1>1, <1>3 DEF Says, Fits
<1> QED BY <1>2, <1>3, <1>4, AsTold, OneTells

LEMMA InitTells == ASSUME Init PROVE TellInv
<1>1. \A r \in Requests : req[r] = Idle
  BY DEF Init
<1>2. blobs = {} /\ contested = {}
  BY DEF Init
<1> QED BY <1>1, <1>2, InitHolds, IdleTold DEF TellInv, Told

LEMMA StepTells == ASSUME TellInv, [Next]_vars PROVE TellInv'
<1>1. Inv'
  BY StepHolds DEF TellInv
<1>2. CASE UNCHANGED vars
  <2>1. post' = post /\ blobs' = blobs /\ req' = req /\ contested' = contested
    BY <1>2 DEF vars, choices
  <2> QED BY <1>1, <2>1, SaysSame DEF TellInv, Told
<1>3. CASE \E m \in Messages : Deliver(m)
  BY <1>1, <1>3, DeliverTells
<1>4. CASE \E u \in Users : Migrate(u)
  BY <1>1, <1>4, MigrateTells
<1>5. CASE \E r \in Requests : Dies(r)
  BY <1>1, <1>5, DiesTells
<1>6. ASSUME NEW r \in Requests, Step(r) PROVE TellInv'
  BY <1>1, <1>6, ResolveTells, AdmitTells, RejectTells, CommandTells, UploadTells, StoreFileTells,
     RegisterFileTells, FileFailsTells, InvokeTells, SendChunkTells, LoseChunkTells, DropReplyTells,
     AcknowledgeTells DEF Step, DiscordSends, TelegramSends, WhatsAppSends, EmailSends
<1> QED BY <1>2, <1>3, <1>4, <1>5, <1>6 DEF Next

LEMMA TellsAlways == Spec => []TellInv
<1> QED BY InitTells, StepTells, PTL DEF Spec

\* Every delivery, identity, setting and record has its type; what a reply is cut into is a
\* sequence of texts, whatever the text (base.py, identity.py, _chunk.py:22-56).
THEOREM TypeCorrect == Spec => []TypeOK
<1>1. TellInv => TypeOK
  BY DEF TellInv, Told, Inv, BaseInv, TypeOK
<1> QED BY <1>1, TellsAlways, PTL

\* A delivery that was acknowledged answered its message itself, whole and in order, however
\* long the answer and wherever its spaces are, however often the message was delivered and
\* whatever died, unless the provider failed a call of that delivery, what came was no message
\* or its sender was turned away; and no chunk is longer than a chat takes (base.py:189-241,
\* _chunk.py:22-56).
THEOREM AnsweredTheorem == Spec => []AckedIsAnswered
<1>1. ASSUME TellInv PROVE AckedIsAnswered
  <2>1. ASSUME NEW r \in Requests, ChannelFor(r) # "email", NEW i \in DOMAIN req[r].said
        PROVE  Len(req[r].said[i]) <= MaxLength
    BY <1>1, <2>1, AsTold DEF Says, Fits
  <2>2. ASSUME NEW r \in Requests, req[r].at = "ok"
        PROVE  \/ ~Actionable(r[1], req[r].carries)
               \/ req[r].uid = None /\ ChannelFor(r) = "discord" /\ ~Of(r).listed
               \/ req[r].text # <<>> /\ (req[r].lost \/ Spells(req[r].said, req[r].text))
    <3>1. PICK q \in Request : q = req[r] /\ Says(r, q) /\ q.at = "ok"
      BY <1>1, <2>2, AsTold
    <3>2. q.text \in Texts \union {<<>>} /\ q.said \in Seq(Seq(Nat))
      BY ONLY q \in Request DEF Request
    <3>3. CASE q.text = <<>>
      BY <3>1, <3>3 DEF Says
    <3>4. CASE q.text # <<>> /\ ~q.lost
      <4>1. q.said \o <<>> = q.said
        BY <3>2, ConcatEmptySeq
      <4>2. q.said = Pieces(ChannelFor(r), q.text)
        BY <3>1, <3>4, <4>1 DEF Says
      <4>3. Spells(q.said, q.text)
        BY <3>2, <3>4, <4>2, PiecesSpell
      <4> QED BY <3>1, <3>4, <4>3
    <3> QED BY <3>1, <3>3, <3>4
  <2> QED BY <2>1, <2>2 DEF AckedIsAnswered
<1> QED BY <1>1, TellsAlways, PTL
=============================================================================

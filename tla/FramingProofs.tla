--------------------------- MODULE FramingProofs ---------------------------
(* Machine-checked proofs about the reader of a terminal's bytes, for any    *)
(* bytes of any length, cut into reads of any sizes.                         *)
EXTENDS Framing, FiniteSetTheorems, SequenceTheorems, WellFoundedInduction, TLAPS

----------------------------------------------------------------------------
(* Induction, on sets of naturals.                                          *)

\* A set of naturals that is not empty has a least element.
LEMMA Least ==
  ASSUME NEW T \in SUBSET Nat, T # {}
  PROVE  \E x \in T : \A y \in T : x <= y
<1>1. PICK x \in T : \A y \in T : ~(<<y, x>> \in OpToRel(<, Nat))
  BY WFMin, NatLessThanWellFounded, Zenon
<1>2. \A y \in T : ~(y < x)
  BY <1>1 DEF OpToRel
<1> QED
  BY <1>2

\* Min finds it.
LEMMA MinIsLeast ==
  ASSUME NEW T \in SUBSET Nat, T # {}
  PROVE  Min(T) \in T /\ \A y \in T : Min(T) <= y
BY Least DEF Min

\* A set with 0 and every successor has all naturals.
LEMMA NatSetInduction ==
  ASSUME NEW T, 0 \in T, \A n \in Nat : n \in T => n + 1 \in T
  PROVE  Nat \subseteq T
<1> DEFINE rest == Nat \ T
<1>1. SUFFICES ASSUME rest # {} PROVE FALSE
  OBVIOUS
<1>2. PICK x \in rest : \A y \in rest : x <= y
  BY <1>1, Least
<1>3. x # 0 /\ x - 1 \in Nat /\ (x - 1) + 1 = x /\ ~(x <= x - 1)
  OBVIOUS
<1> QED
  BY <1>2, <1>3

\* Induction from the last of n + 1 positions to the first.
LEMMA Downwards ==
  ASSUME NEW n \in Nat, NEW T,
         \A i \in 1 .. n + 1 : (\A j \in i + 1 .. n + 1 : j \in T) => i \in T
  PROVE  \A i \in 1 .. n + 1 : i \in T
<1> DEFINE U == {k \in Nat : \A i \in 1 .. n + 1 : (n + 1) - i < k => i \in T}
<1>1. 0 \in U
  OBVIOUS
<1>2. ASSUME NEW k \in Nat, k \in U
      PROVE  k + 1 \in U
  <2>1. SUFFICES ASSUME NEW i \in 1 .. n + 1, (n + 1) - i < k + 1
                 PROVE  i \in T
    OBVIOUS
  <2>2. \A j \in i + 1 .. n + 1 : (n + 1) - j < k /\ j \in 1 .. n + 1
    BY <2>1
  <2>3. \A j \in i + 1 .. n + 1 : j \in T
    BY <1>2, <2>2
  <2> QED
    BY <2>3
<1>3. n + 1 \in U
  <2> HIDE DEF U
  <2> QED
    BY <1>1, <1>2, NatSetInduction
<1>4. \A i \in 1 .. n + 1 : (n + 1) - i < n + 1
  OBVIOUS
<1> QED
  BY <1>3, <1>4

----------------------------------------------------------------------------
(* The loop over a buffer, whatever its rounds do.                          *)

\* A round may cut frames of S off the n bytes from where it stands, and goes on
\* only when it has made the buffer shorter.
IsRound(round, n, S) ==
  \A i \in 1 .. n + 1 :
    /\ round[i].frames \in Seq(S)
    /\ round[i].next \in i .. n + 1
    /\ round[i].then \in {"again", "reading", "spinning"}
    /\ round[i].then = "again" => round[i].next > i

\* What the rounds from i on do, when those from the next position do f.
RoundThen(round, i, rest) ==
  IF round[i].then # "again"
  THEN [frames |-> <<>>, next |-> round[i].next, reader |-> round[i].then]
  ELSE [frames |-> round[i].frames \o rest.frames, next |-> rest.next, reader |-> rest.reader]

\* The loop ends: what it does is well defined by what its rounds do.
LEMMA CutFromDef ==
  ASSUME NEW n \in Nat, NEW S, NEW round, IsRound(round, n, S)
  PROVE  \A i \in 1 .. n + 1 :
           CutFrom(round, n)[i] = RoundThen(round, i, CutFrom(round, n)[round[i].next])
<1> DEFINE Is(f, l) == f = [i \in l .. n + 1 |-> RoundThen(round, i, f[round[i].next])]
           T == {l \in Nat : \E f : Is(f, l)}
<1>1. ASSUME NEW l \in 1 .. n + 1, \A j \in l + 1 .. n + 1 : j \in T
      PROVE  l \in T
  <2>1. PICK f : \A i \in l + 1 .. n + 1 : f[i] = RoundThen(round, i, f[round[i].next])
    <3>1. CASE l = n + 1
      <4>1. l + 1 .. n + 1 = {}
        BY <3>1
      <4> QED
        BY <4>1
    <3>2. CASE l # n + 1
      <4>1. l + 1 \in l + 1 .. n + 1
        BY <3>2
      <4>2. PICK f : Is(f, l + 1)
        BY <1>1, <4>1
      <4>3. \A i \in l + 1 .. n + 1 : f[i] = RoundThen(round, i, f[round[i].next])
        BY <4>2
      <4> QED
        BY <4>3
    <3> QED
      BY <3>1, <3>2
  <2> DEFINE g == [i \in l .. n + 1 |->
                     IF i = l THEN RoundThen(round, l, f[round[l].next]) ELSE f[i]]
  <2>2. ASSUME NEW i \in l .. n + 1
        PROVE  g[i] = RoundThen(round, i, g[round[i].next])
    <3>1. g[i] = RoundThen(round, i, f[round[i].next])
      <4>1. CASE i = l
        BY <4>1
      <4>2. CASE i # l
        <5>1. i \in l + 1 .. n + 1
          BY <4>2
        <5> QED
          BY <2>1, <4>2, <5>1
      <4> QED
        BY <4>1, <4>2
    <3>2. CASE round[i].then # "again"
      BY <3>1, <3>2 DEF RoundThen
    <3>3. CASE round[i].then = "again"
      <4>1. round[i].next \in l .. n + 1 /\ round[i].next # l
        BY <3>3 DEF IsRound
      <4>2. g[round[i].next] = f[round[i].next]
        BY <4>1
      <4> HIDE DEF g
      <4> QED
        BY <3>1, <4>2
    <3> QED
      BY <3>2, <3>3
  <2>3. g = [i \in l .. n + 1 |-> g[i]]
    OBVIOUS
  <2> HIDE DEF g
  <2>4. Is(g, l)
    BY <2>2, <2>3
  <2> QED
    BY <2>4
<1>2. 1 \in T
  <2>1. 1 \in 1 .. n + 1
    OBVIOUS
  <2> HIDE DEF T
  <2> QED
    BY <1>1, <2>1, Downwards
<1>3. PICK f : Is(f, 1)
  BY <1>2
<1>4. CutFrom(round, n) = CHOOSE g : Is(g, 1)
  BY DEF CutFrom, RoundThen
<1>5. Is(CutFrom(round, n), 1)
  <2> HIDE DEF Is
  <2> QED
    BY <1>3, <1>4
<1> QED
  BY <1>5

\* What the rounds from i on do: nothing more, or what is done from the next
\* position, after the frames of this round.
Stops(at, round, i) ==
  at[i].frames = <<>> /\ at[i].next = round[i].next /\ at[i].reader = round[i].then
GoesOn(at, round, i) ==
  LET j == round[i].next
  IN /\ at[i].frames = round[i].frames \o at[j].frames
     /\ at[i].next = at[j].next /\ at[i].reader = at[j].reader

\* They do so at every byte.
LEMMA CutFromIs ==
  ASSUME NEW n \in Nat, NEW S, NEW round, IsRound(round, n, S), NEW i \in 1 .. n + 1
  PROVE  /\ round[i].then # "again" => Stops(CutFrom(round, n), round, i)
         /\ round[i].then = "again" => GoesOn(CutFrom(round, n), round, i)
<1> DEFINE at == CutFrom(round, n)
           rest == at[round[i].next]
           frames == round[i].frames \o rest.frames
<1>1. at[i] = RoundThen(round, i, rest)
  BY CutFromDef
<1>2. CASE round[i].then # "again"
  <2> HIDE DEF rest, at
  <2>1. at[i] = [frames |-> <<>>, next |-> round[i].next, reader |-> round[i].then]
    BY <1>1, <1>2 DEF RoundThen
  <2> QED
    BY <1>2, <2>1 DEF Stops, at
<1>3. CASE round[i].then = "again"
  <2>1. at[i] = [frames |-> frames, next |-> rest.next, reader |-> rest.reader]
    <3> HIDE DEF rest, at
    <3> QED
      BY <1>1, <1>3, Zenon DEF RoundThen
  <2> HIDE DEF frames, rest, at
  <2>2. at[i].frames = frames /\ at[i].next = rest.next /\ at[i].reader = rest.reader
    BY <2>1
  <2>3. GoesOn(at, round, i)
    BY <2>2, Zenon DEF GoesOn, frames, rest
  <2> QED
    BY <1>3, <2>3 DEF at
<1> QED
  BY <1>2, <1>3

\* The loop cuts frames off a beginning of the buffer.
LEMMA CutFromTyped ==
  ASSUME NEW n \in Nat, NEW S, NEW round, IsRound(round, n, S)
  PROVE  \A i \in 1 .. n + 1 :
           /\ CutFrom(round, n)[i].frames \in Seq(S)
           /\ CutFrom(round, n)[i].next \in i .. n + 1
           /\ CutFrom(round, n)[i].reader \in {"reading", "spinning"}
<1> DEFINE at == CutFrom(round, n)
           Ok(i) == /\ at[i].frames \in Seq(S) /\ at[i].next \in i .. n + 1
                    /\ at[i].reader \in {"reading", "spinning"}
           T == {i \in 1 .. n + 1 : Ok(i)}
<1>1. \A i \in 1 .. n + 1 : /\ round[i].then # "again" => Stops(at, round, i)
                            /\ round[i].then = "again" => GoesOn(at, round, i)
  BY CutFromIs
<1> HIDE DEF at
<1>2. ASSUME NEW i \in 1 .. n + 1, \A j \in i + 1 .. n + 1 : j \in T
      PROVE  i \in T
  <2>1. /\ round[i].frames \in Seq(S) /\ round[i].next \in i .. n + 1
        /\ round[i].then \in {"again", "reading", "spinning"}
        /\ round[i].then = "again" => round[i].next > i
    BY DEF IsRound
  <2>2. CASE round[i].then # "again"
    <3>1. at[i].frames = <<>> /\ at[i].next = round[i].next /\ at[i].reader = round[i].then
      BY <1>1, <2>2 DEF Stops
    <3>2. <<>> \in Seq(S)
      OBVIOUS
    <3> QED
      BY <2>1, <2>2, <3>1, <3>2
  <2>3. CASE round[i].then = "again"
    <3> DEFINE j == round[i].next
    <3>1. j \in i + 1 .. n + 1
      BY <2>1, <2>3
    <3>2. Ok(j)
      BY <1>2, <3>1
    <3>3. /\ at[i].frames = round[i].frames \o at[j].frames
          /\ at[i].next = at[j].next /\ at[i].reader = at[j].reader
      BY <1>1, <2>3 DEF GoesOn
    <3> HIDE DEF j
    <3>4. at[j].next \in i .. n + 1
      BY <3>1, <3>2
    <3>5. round[i].frames \o at[j].frames \in Seq(S)
      BY <2>1, <3>2
    <3> QED
      BY <3>2, <3>3, <3>4, <3>5
  <2> QED
    BY <2>2, <2>3
<1>3. \A i \in 1 .. n + 1 : i \in T
  <2> HIDE DEF T
  <2> QED
    BY <1>2, Downwards
<1> QED
  BY <1>3 DEF at

\* Where a loop has left, there is nothing left to do for it: one that is left
\* where it stands.
LeavesWhereItStands(round, n) ==
  \A i \in 1 .. n + 1 : round[i].then # "again" => round[i].next = i

\* The round at j does the same with k more bytes before it.
SameRound(longer, k, j, round) ==
  /\ longer[k + j].frames = round[j].frames /\ longer[k + j].then = round[j].then
  /\ longer[k + j].next = k + round[j].next

\* More bytes change no round but the last.
Extends(longer, round, n) ==
  \A i \in 1 .. n + 1 : round[i].then = "again" => SameRound(longer, 0, i, round)

\* al does from byte i on what at does, and goes on where at stops.
TakesUp(al, at, i) ==
  /\ al[i].frames = at[i].frames \o al[at[i].next].frames
  /\ al[i].next = al[at[i].next].next /\ al[i].reader = al[at[i].next].reader

\* With more bytes the loop does what it has done, and goes on from there.
LEMMA LoopGoesOn ==
  ASSUME NEW n \in Nat, NEW m \in Nat, n <= m, NEW S, NEW round, NEW longer,
         IsRound(round, n, S), IsRound(longer, m, S),
         LeavesWhereItStands(round, n), Extends(longer, round, n)
  PROVE  \A i \in 1 .. n + 1 : TakesUp(CutFrom(longer, m), CutFrom(round, n), i)
<1> DEFINE at == CutFrom(round, n)
           al == CutFrom(longer, m)
           Ok(i) == /\ al[i].frames = at[i].frames \o al[at[i].next].frames
                    /\ al[i].next = al[at[i].next].next /\ al[i].reader = al[at[i].next].reader
           T == {i \in 1 .. n + 1 : Ok(i)}
<1>1. \A i \in 1 .. n + 1 : /\ round[i].then # "again" => Stops(at, round, i)
                            /\ round[i].then = "again" => GoesOn(at, round, i)
  BY CutFromIs
<1>5. \A i \in 1 .. m + 1 : longer[i].then = "again" => GoesOn(al, longer, i)
  BY CutFromIs
<1>2. /\ \A i \in 1 .. n + 1 : at[i].frames \in Seq(S) /\ at[i].next \in 1 .. n + 1
      /\ \A i \in 1 .. m + 1 : al[i].frames \in Seq(S)
  <2>1. \A i \in 1 .. n + 1 : at[i].frames \in Seq(S) /\ at[i].next \in i .. n + 1
    BY CutFromTyped
  <2>2. \A i \in 1 .. m + 1 : al[i].frames \in Seq(S)
    BY CutFromTyped
  <2> QED
    BY <2>1, <2>2
<1> HIDE DEF at, al
<1>3. ASSUME NEW i \in 1 .. n + 1, \A j \in i + 1 .. n + 1 : j \in T
      PROVE  i \in T
  <2>1. i \in 1 .. m + 1
    OBVIOUS
  <2>2. CASE round[i].then # "again"
    <3>1. at[i].frames = <<>> /\ at[i].next = i
      BY <1>1, <2>2 DEF Stops, LeavesWhereItStands
    <3>2. <<>> \o al[i].frames = al[i].frames
      BY <1>2, <2>1
    <3> QED
      BY <3>1, <3>2
  <2>3. CASE round[i].then = "again"
    <3> DEFINE j == round[i].next
               head == round[i].frames
    <3>1. j \in i + 1 .. n + 1 /\ head \in Seq(S)
      BY <2>3 DEF IsRound
    <3>2. Ok(j)
      BY <1>3, <3>1
    <3>3. at[i].frames = head \o at[j].frames /\ at[i].next = at[j].next
      BY <1>1, <2>3 DEF GoesOn
    <3>4. longer[i].frames = head /\ longer[i].then = "again" /\ longer[i].next = j
      BY <2>3, <3>1, 0 + i = i, 0 + j = j DEF Extends, SameRound
    <3>5. /\ al[i].frames = head \o al[j].frames
          /\ al[i].next = al[j].next /\ al[i].reader = al[j].reader
      BY <1>5, <2>1, <2>3, <3>4 DEF GoesOn
    <3>6. /\ at[j].frames \in Seq(S) /\ at[j].next \in 1 .. m + 1
          /\ al[at[j].next].frames \in Seq(S)
      BY <1>2, <3>1, SMTT(20)
    <3> HIDE DEF j, head
    <3>7. head \o (at[j].frames \o al[at[j].next].frames)
            = (head \o at[j].frames) \o al[at[j].next].frames
      <4>1. \A s, t, u \in Seq(S) : (s \o t) \o u = s \o (t \o u)
        BY ConcatAssociative, SMTT(20)
      <4> QED
        BY <3>1, <3>6, <4>1
    <3> QED
      BY <3>2, <3>3, <3>5, <3>7
  <2> QED
    BY <2>2, <2>3
<1>4. \A i \in 1 .. n + 1 : i \in T
  <2> HIDE DEF T
  <2> QED
    BY <1>3, Downwards
<1> QED
  BY <1>4 DEF at, al, TakesUp

\* Every round does the same with k more bytes before it.
IsShifted(tail, round, n, k) == \A j \in 1 .. n + 1 : SameRound(round, k, j, tail)

\* The loop does not look behind: without those bytes it does the same.
LEMMA LoopIsShifted ==
  ASSUME NEW n \in Nat, NEW k \in Nat, NEW S, NEW tail, NEW round,
         IsRound(tail, n, S), IsRound(round, k + n, S), IsShifted(tail, round, n, k)
  PROVE  \A j \in 1 .. n + 1 :
           /\ CutFrom(round, k + n)[k + j].frames = CutFrom(tail, n)[j].frames
           /\ CutFrom(round, k + n)[k + j].next = k + CutFrom(tail, n)[j].next
           /\ CutFrom(round, k + n)[k + j].reader = CutFrom(tail, n)[j].reader
<1> DEFINE at == CutFrom(round, k + n)
           al == CutFrom(tail, n)
           Ok(j) == /\ at[k + j].frames = al[j].frames /\ at[k + j].next = k + al[j].next
                    /\ at[k + j].reader = al[j].reader
           T == {j \in 1 .. n + 1 : Ok(j)}
<1>1. \A i \in 1 .. (k + n) + 1 : /\ round[i].then # "again" => Stops(at, round, i)
                                  /\ round[i].then = "again" => GoesOn(at, round, i)
  <2>1. k + n \in Nat
    OBVIOUS
  <2> QED
    BY <2>1, CutFromIs
<1>4. \A i \in 1 .. n + 1 : /\ tail[i].then # "again" => Stops(al, tail, i)
                            /\ tail[i].then = "again" => GoesOn(al, tail, i)
  BY CutFromIs
<1> HIDE DEF at, al
<1>2. ASSUME NEW i \in 1 .. n + 1, \A j \in i + 1 .. n + 1 : j \in T
      PROVE  i \in T
  <2>1. k + i \in 1 .. (k + n) + 1
    OBVIOUS
  <2>3. /\ round[k + i].frames = tail[i].frames /\ round[k + i].then = tail[i].then
        /\ round[k + i].next = k + tail[i].next
    BY DEF IsShifted, SameRound
  <2>4. CASE tail[i].then # "again"
    BY <1>1, <1>4, <2>1, <2>3, <2>4 DEF Stops
  <2>5. CASE tail[i].then = "again"
    <3> DEFINE j == tail[i].next
    <3>1. j \in i + 1 .. n + 1
      BY <2>5 DEF IsRound
    <3>2. Ok(j)
      BY <1>2, <3>1
    <3>3. /\ at[k + i].frames = tail[i].frames \o at[k + j].frames
          /\ at[k + i].next = at[k + j].next /\ at[k + i].reader = at[k + j].reader
      BY <1>1, <2>1, <2>3, <2>5 DEF GoesOn
    <3>4. /\ al[i].frames = tail[i].frames \o al[j].frames
          /\ al[i].next = al[j].next /\ al[i].reader = al[j].reader
      BY <1>4, <2>5 DEF GoesOn
    <3> QED
      BY <3>2, <3>3, <3>4
  <2> QED
    BY <2>4, <2>5
<1>3. \A j \in 1 .. n + 1 : j \in T
  <2> HIDE DEF T
  <2> QED
    BY <1>2, Downwards
<1> QED
  BY <1>3 DEF at, al

----------------------------------------------------------------------------
(* The rounds of the protocols.                                             *)

\* The bytes of c stand in x after the first k.
StandsIn(c, x, k) ==
  /\ c \in Seq(Byte) /\ x \in Seq(Byte) /\ k \in Nat /\ k + Len(c) <= Len(x)
  /\ \A j \in 1 .. Len(c) : x[k + j] = c[j]

\* A piece of c is a piece of x.
PiecesStandIn(c, x, k) ==
  \A i \in Nat \ {0}, l \in Nat :
    l <= Len(c) => SubSeq(x, k + i, k + l) = SubSeq(c, i, l)

\* For the byte sequences that stand in another.
LEMMA PieceStandsIn ==
  ASSUME NEW c, NEW x, NEW k, StandsIn(c, x, k)
  PROVE  PiecesStandIn(c, x, k)
<1> SUFFICES ASSUME NEW i \in Nat \ {0}, NEW l \in Nat, l <= Len(c)
             PROVE  SubSeq(x, k + i, k + l) = SubSeq(c, i, l)
  BY DEF PiecesStandIn
<1>1. /\ c \in Seq(Byte) /\ x \in Seq(Byte) /\ k \in Nat /\ Len(c) \in Nat /\ Len(x) \in Nat
      /\ k + Len(c) <= Len(x) /\ \A j \in 1 .. Len(c) : x[k + j] = c[j]
  BY LenProperties DEF StandsIn
<1>2. \A j \in i .. l : c[j] \in Byte
  BY <1>1, ElementOfSeq
<1>3. \A j \in k + i .. k + l : x[j] \in Byte
  BY <1>1, ElementOfSeq
<1>4. /\ SubSeq(c, i, l) \in Seq(Byte) /\ Len(SubSeq(c, i, l)) = IF i <= l THEN l - i + 1 ELSE 0
      /\ \A j \in 1 .. l - i + 1 : SubSeq(c, i, l)[j] = c[i + j - 1]
  BY <1>2, SubSeqProperties
<1>5. /\ SubSeq(x, k + i, k + l) \in Seq(Byte)
      /\ Len(SubSeq(x, k + i, k + l)) = IF k + i <= k + l THEN (k + l) - (k + i) + 1 ELSE 0
      /\ \A j \in 1 .. (k + l) - (k + i) + 1 : SubSeq(x, k + i, k + l)[j] = x[(k + i) + j - 1]
  <2>1. k + i \in Int /\ k + l \in Int
    BY <1>1
  <2> QED
    BY <1>3, <2>1, SubSeqProperties
<1>6. Len(SubSeq(x, k + i, k + l)) = Len(SubSeq(c, i, l))
  BY <1>1, <1>4, <1>5
<1>7. ASSUME NEW j \in 1 .. Len(SubSeq(c, i, l))
      PROVE  SubSeq(x, k + i, k + l)[j] = SubSeq(c, i, l)[j]
  <2>1. j \in 1 .. l - i + 1 /\ j \in 1 .. (k + l) - (k + i) + 1 /\ i + j - 1 \in 1 .. Len(c)
    BY <1>1, <1>4
  <2>2. (k + i) + j - 1 = k + (i + j - 1)
    BY <1>1, <2>1
  <2> QED
    BY <1>1, <1>4, <1>5, <2>1, <2>2
<1> QED
  BY <1>4, <1>5, <1>6, <1>7, SeqEqual

\* A length on the wire is a natural number (DecodeUint16).
LEMMA Uint16IsNat ==
  ASSUME NEW lo \in Byte, NEW hi \in Byte
  PROVE  DecodeUint16(lo, hi) \in Nat
BY DEF DecodeUint16, Byte

\* What a round of processPocketData or processGatData does at byte i.
LEMMA MarkedRoundAt ==
  ASSUME NEW buf \in Seq(Byte), NEW overhead \in Nat \ {0}, NEW i \in 1 .. Len(buf) + 1
  PROVE  LET left == Len(buf) + 1 - i
             size == overhead + DecodeUint16(buf[i + 3], buf[i + 4])
             this == MarkedRound(buf, overhead)[i]
         IN /\ left < 8 => this = Waits(i)
            /\ left >= 8 => size \in Nat \ {0} /\ buf[i] \in Byte
            /\ left >= 8 /\ buf[i] # PocketMarker => this = Skips(i + 1)
            /\ left >= 8 /\ buf[i] = PocketMarker /\ left < size => this = Waits(i)
            /\ left >= 8 /\ buf[i] = PocketMarker /\ left >= size =>
                 this = Finds(SubSeq(buf, i, i + size - 1), i + size)
<1> DEFINE left == Len(buf) + 1 - i
           size == overhead + DecodeUint16(buf[i + 3], buf[i + 4])
<1>1. Len(buf) \in Nat /\ left \in Nat
  BY LenProperties
<1>2. left >= 8 => size \in Nat \ {0} /\ buf[i] \in Byte
  <2>1. SUFFICES ASSUME left >= 8 PROVE size \in Nat \ {0} /\ buf[i] \in Byte
    OBVIOUS
  <2>2. buf[i] \in Byte /\ buf[i + 3] \in Byte /\ buf[i + 4] \in Byte
    <3>1. i \in 1 .. Len(buf) /\ i + 3 \in 1 .. Len(buf) /\ i + 4 \in 1 .. Len(buf)
      BY <1>1, <2>1
    <3>2. \A j \in 1 .. Len(buf) : buf[j] \in Byte
      BY ElementOfSeq
    <3> QED
      BY <3>1, <3>2
  <2>3. DecodeUint16(buf[i + 3], buf[i + 4]) \in Nat
    BY <2>2, Uint16IsNat
  <2> QED
    BY <2>2, <2>3
<1>3. MarkedRound(buf, overhead)[i]
        = IF left < 8 THEN Waits(i)
          ELSE IF buf[i] # PocketMarker THEN Skips(i + 1)
          ELSE IF left < size THEN Waits(i)
          ELSE Finds(SubSeq(buf, i, i + size - 1), i + size)
  BY DEF MarkedRound
<1> HIDE DEF left, size
<1>4. left >= 8 => ~(left < 8)
  BY <1>1
<1>5. left >= 8 /\ left >= size => ~(left < size)
  BY <1>1, <1>2
<1> QED
  BY <1>2, <1>3, <1>4, <1>5, Zenon DEF left, size

\* The rounds of POCKET and GAT cut packets off, or wait where they stand.
LEMMA MarkedIsRound ==
  ASSUME NEW buf \in Seq(Byte), NEW overhead \in Nat \ {0}
  PROVE  /\ IsRound(MarkedRound(buf, overhead), Len(buf), Seq(Byte))
         /\ LeavesWhereItStands(MarkedRound(buf, overhead), Len(buf))
<1> DEFINE this(i) == MarkedRound(buf, overhead)[i]
<1>1. ASSUME NEW i \in 1 .. Len(buf) + 1
      PROVE  /\ this(i).frames \in Seq(Seq(Byte)) /\ this(i).next \in i .. Len(buf) + 1
             /\ this(i).then \in {"again", "reading", "spinning"}
             /\ this(i).then = "again" => this(i).next > i
             /\ this(i).then # "again" => this(i).next = i
  <2> DEFINE left == Len(buf) + 1 - i
             size == overhead + DecodeUint16(buf[i + 3], buf[i + 4])
             frame == SubSeq(buf, i, i + size - 1)
  <2>1. Len(buf) \in Nat /\ i \in Nat /\ i >= 1 /\ i <= Len(buf) + 1 /\ left = (Len(buf) + 1) - i
    BY LenProperties
  <2>2. <<>> \in Seq(Seq(Byte))
    OBVIOUS
  <2>3. /\ left < 8 => this(i) = Waits(i)
        /\ left >= 8 => size \in Nat \ {0} /\ buf[i] \in Byte
        /\ left >= 8 /\ buf[i] # PocketMarker => this(i) = Skips(i + 1)
        /\ left >= 8 /\ buf[i] = PocketMarker /\ left < size => this(i) = Waits(i)
        /\ left >= 8 /\ buf[i] = PocketMarker /\ left >= size => this(i) = Finds(frame, i + size)
    BY MarkedRoundAt
  <2>4. left >= 8 /\ left >= size => frame \in Seq(Byte)
    <3>1. SUFFICES ASSUME left >= 8, left >= size PROVE frame \in Seq(Byte)
      OBVIOUS
    <3>2. \A j \in 1 .. Len(buf) : buf[j] \in Byte
      BY ElementOfSeq
    <3>3. size \in Nat \ {0}
      BY <2>3, <3>1
    <3> HIDE DEF size
    <3>4. i + size - 1 \in Int /\ i + size - 1 <= Len(buf)
      BY <2>1, <3>1, <3>3
    <3>5. \A j \in i .. i + size - 1 : buf[j] \in Byte
      BY <2>1, <3>2, <3>4
    <3> QED
      BY <2>1, <3>4, <3>5, SubSeqProperties
  <2> HIDE DEF this, left, size, frame
  <2>5. CASE this(i) = Waits(i)
    BY <2>1, <2>2, <2>5 DEF Waits
  <2>6. CASE left >= 8 /\ this(i) = Skips(i + 1)
    BY <2>1, <2>2, <2>6 DEF Skips
  <2>7. CASE left >= 8 /\ left >= size /\ this(i) = Finds(frame, i + size)
    <3>1. this(i).frames = <<frame>> /\ this(i).next = i + size /\ this(i).then = "again"
      BY <2>7 DEF Finds
    <3>2. <<frame>> \in Seq(Seq(Byte))
      BY <2>4, <2>7
    <3>3. i + size \in i .. Len(buf) + 1 /\ i + size > i
      BY <2>1, <2>3, <2>7
    <3> QED
      BY <3>1, <3>2, <3>3
  <2>8. left \in Int /\ (left >= 8 => size \in Int)
    BY <2>1, <2>3
  <2> QED
    BY <2>3, <2>5, <2>6, <2>7, <2>8
<1> QED
  BY <1>1, Zenon DEF IsRound, LeavesWhereItStands, this

\* A round does the same among more bytes, unless it waits for them.
LEMMA MarkedIsSame ==
  ASSUME NEW c, NEW x, NEW k, StandsIn(c, x, k), NEW overhead \in Nat \ {0},
         NEW j \in 1 .. Len(c) + 1,
         MarkedRound(c, overhead)[j].then = "again" \/ Len(x) = k + Len(c)
  PROVE  SameRound(MarkedRound(x, overhead), k, j, MarkedRound(c, overhead))
<1>1. /\ c \in Seq(Byte) /\ x \in Seq(Byte) /\ k \in Nat /\ Len(c) \in Nat /\ Len(x) \in Nat
      /\ k + Len(c) <= Len(x) /\ \A i \in 1 .. Len(c) : x[k + i] = c[i]
  BY LenProperties DEF StandsIn
<1> DEFINE thisc == MarkedRound(c, overhead)[j]
           thisx == MarkedRound(x, overhead)[k + j]
           left == Len(c) + 1 - j
           leftx == Len(x) + 1 - (k + j)
           size == overhead + DecodeUint16(c[j + 3], c[j + 4])
           sizex == overhead + DecodeUint16(x[(k + j) + 3], x[(k + j) + 4])
           frame == SubSeq(c, j, j + size - 1)
           framex == SubSeq(x, k + j, (k + j) + sizex - 1)
<1>2. k + j \in 1 .. Len(x) + 1 /\ left \in Nat /\ leftx \in Nat /\ left <= leftx
  BY <1>1
<1>3. /\ left < 8 => thisc = Waits(j)
      /\ left >= 8 => size \in Nat \ {0} /\ c[j] \in Byte
      /\ left >= 8 /\ c[j] # PocketMarker => thisc = Skips(j + 1)
      /\ left >= 8 /\ c[j] = PocketMarker /\ left < size => thisc = Waits(j)
      /\ left >= 8 /\ c[j] = PocketMarker /\ left >= size => thisc = Finds(frame, j + size)
  BY <1>1, MarkedRoundAt
<1>4. /\ leftx < 8 => thisx = Waits(k + j)
      /\ leftx >= 8 => sizex \in Nat \ {0} /\ x[k + j] \in Byte
      /\ leftx >= 8 /\ x[k + j] # PocketMarker => thisx = Skips((k + j) + 1)
      /\ leftx >= 8 /\ x[k + j] = PocketMarker /\ leftx < sizex => thisx = Waits(k + j)
      /\ leftx >= 8 /\ x[k + j] = PocketMarker /\ leftx >= sizex =>
           thisx = Finds(framex, (k + j) + sizex)
  BY <1>1, <1>2, MarkedRoundAt
<1>5. left >= 8 => sizex = size /\ x[k + j] = c[j]
  <2>1. SUFFICES ASSUME left >= 8 PROVE sizex = size /\ x[k + j] = c[j]
    OBVIOUS
  <2>2. j \in 1 .. Len(c) /\ j + 3 \in 1 .. Len(c) /\ j + 4 \in 1 .. Len(c)
    BY <1>1, <2>1, SMTT(20)
  <2>3. (k + j) + 3 = k + (j + 3) /\ (k + j) + 4 = k + (j + 4)
    BY <1>1
  <2>4. /\ x[k + j] = c[j] /\ x[(k + j) + 3] = c[j + 3] /\ x[(k + j) + 4] = c[j + 4]
    BY <1>1, <2>2, <2>3
  <2> QED
    BY <2>4
<1>6. left >= 8 /\ left >= size => framex = frame
  <2>1. SUFFICES ASSUME left >= 8, left >= size PROVE framex = frame
    OBVIOUS
  <2>2. size \in Nat \ {0} /\ sizex = size
    BY <1>3, <1>5, <2>1
  <2> HIDE DEF size, sizex
  <2>3. (k + j) + sizex - 1 = k + (j + size - 1) /\ j + size - 1 \in Nat /\ j + size - 1 <= Len(c)
    BY <1>1, <2>1, <2>2, SMTT(20)
  <2>4. SubSeq(x, k + j, k + (j + size - 1)) = SubSeq(c, j, j + size - 1)
    <3>1. j \in Nat \ {0}
      BY <1>1
    <3>2. PiecesStandIn(c, x, k)
      BY PieceStandsIn
    <3> QED
      BY <2>3, <3>1, <3>2 DEF PiecesStandIn
  <2>5. (k + j) + sizex - 1 = k + (j + size - 1)
    BY <2>3
  <2> QED
    BY <2>4, <2>5
<1>7. SUFFICES /\ thisx.frames = thisc.frames /\ thisx.then = thisc.then
               /\ thisx.next = k + thisc.next
  BY DEF SameRound
<1>8. thisc.then = "again" \/ leftx = left
  BY <1>1
<1> HIDE DEF thisc, thisx, left, leftx, size, sizex, frame, framex
<1>9. CASE left < 8
  <2>1. thisc.then # "again"
    BY <1>3, <1>9 DEF Waits
  <2> QED
    BY <1>3, <1>4, <1>8, <1>9, <2>1 DEF Waits
<1>10. CASE left >= 8 /\ c[j] # PocketMarker
  <2>1. thisc = Skips(j + 1) /\ thisx = Skips((k + j) + 1) /\ (k + j) + 1 = k + (j + 1)
    BY <1>1, <1>2, <1>3, <1>4, <1>5, <1>10
  <2> QED
    BY <2>1 DEF Skips
<1>11. CASE left >= 8 /\ c[j] = PocketMarker /\ left < size
  <2>1. thisc = Waits(j) /\ leftx = left
    BY <1>3, <1>8, <1>11 DEF Waits
  <2>2. thisx = Waits(k + j)
    BY <1>4, <1>5, <1>11, <2>1
  <2> QED
    BY <2>1, <2>2 DEF Waits
<1>12. CASE left >= 8 /\ c[j] = PocketMarker /\ left >= size
  <2>1. /\ thisc = Finds(frame, j + size) /\ thisx = Finds(frame, (k + j) + size)
        /\ (k + j) + size = k + (j + size)
    BY <1>1, <1>2, <1>3, <1>4, <1>5, <1>6, <1>12
  <2> QED
    BY <2>1 DEF Finds
<1> QED
  <2>1. left \in Int /\ (left >= 8 => size \in Int)
    BY <1>2, <1>3
  <2> QED
    BY <1>9, <1>10, <1>11, <1>12, <2>1

\* Where a line of SPHINX that begins at i can end.
LineEnds(buf, i) == {j \in i + 1 .. Len(buf) : buf[j - 1] = CR /\ buf[j] = LF}

\* The rounds of SPHINX cut lines off, or wait where they stand.
LEMMA SphinxIsRound ==
  ASSUME NEW buf \in Seq(Byte)
  PROVE  /\ IsRound(SphinxRound(buf), Len(buf), Seq(Byte))
         /\ LeavesWhereItStands(SphinxRound(buf), Len(buf))
<1> DEFINE this(i) == SphinxRound(buf)[i]
<1>1. ASSUME NEW i \in 1 .. Len(buf) + 1
      PROVE  /\ this(i).frames \in Seq(Seq(Byte)) /\ this(i).next \in i .. Len(buf) + 1
             /\ this(i).then \in {"again", "reading", "spinning"}
             /\ this(i).then = "again" => this(i).next > i
             /\ this(i).then # "again" => this(i).next = i
  <2> DEFINE ends == LineEnds(buf, i)
             frame == SubSeq(buf, i, Min(ends))
  <2>1. Len(buf) \in Nat /\ i \in Nat /\ i >= 1 /\ i <= Len(buf) + 1
    BY LenProperties
  <2>2. this(i) = IF ends = {} THEN Waits(i) ELSE Finds(frame, Min(ends) + 1)
    BY DEF SphinxRound, LineEnds
  <2>3. ends \in SUBSET Nat /\ \A j \in ends : j > i /\ j <= Len(buf)
    BY <2>1 DEF LineEnds
  <2> HIDE DEF this, ends
  <2>4. CASE ends = {}
    <3>1. this(i) = Waits(i) /\ <<>> \in Seq(Seq(Byte))
      BY <2>2, <2>4
    <3> QED
      BY <2>1, <3>1 DEF Waits
  <2>5. CASE ends # {}
    <3>1. this(i) = Finds(frame, Min(ends) + 1)
      BY <2>2, <2>5
    <3>2. Min(ends) \in ends
      BY <2>3, <2>5, MinIsLeast
    <3>3. Min(ends) \in Nat /\ Min(ends) > i /\ Min(ends) <= Len(buf)
      BY <2>3, <3>2
    <3>4. \A j \in 1 .. Len(buf) : buf[j] \in Byte
      BY ElementOfSeq
    <3>5. \A j \in i .. Min(ends) : buf[j] \in Byte
      BY <2>1, <3>3, <3>4
    <3>6. frame \in Seq(Byte)
      BY <2>1, <3>3, <3>5, SubSeqProperties
    <3> HIDE DEF frame
    <3>7. <<frame>> \in Seq(Seq(Byte))
      BY <3>6
    <3> QED
      BY <2>1, <3>1, <3>3, <3>7 DEF Finds
  <2> QED
    BY <2>4, <2>5
<1> QED
  BY <1>1, Zenon DEF IsRound, LeavesWhereItStands, this

\* A line ends at the same byte among more bytes, unless its end is awaited.
LEMMA SphinxIsSame ==
  ASSUME NEW c, NEW x, NEW k, StandsIn(c, x, k), NEW j \in 1 .. Len(c) + 1,
         SphinxRound(c)[j].then = "again" \/ Len(x) = k + Len(c)
  PROVE  SameRound(SphinxRound(x), k, j, SphinxRound(c))
<1>1. /\ c \in Seq(Byte) /\ x \in Seq(Byte) /\ k \in Nat /\ Len(c) \in Nat /\ Len(x) \in Nat
      /\ k + Len(c) <= Len(x) /\ \A i \in 1 .. Len(c) : x[k + i] = c[i]
  BY LenProperties DEF StandsIn
<1> DEFINE thisc == SphinxRound(c)[j]
           thisx == SphinxRound(x)[k + j]
           ends == LineEnds(c, j)
           endsx == LineEnds(x, k + j)
<1>2. k + j \in 1 .. Len(x) + 1
  BY <1>1
<1>3. /\ thisc = IF ends = {} THEN Waits(j) ELSE Finds(SubSeq(c, j, Min(ends)), Min(ends) + 1)
      /\ thisx = IF endsx = {} THEN Waits(k + j)
                 ELSE Finds(SubSeq(x, k + j, Min(endsx)), Min(endsx) + 1)
  BY <1>2 DEF SphinxRound, LineEnds
<1>4. ends \in SUBSET Nat /\ \A e \in ends : e > j /\ e <= Len(c)
  BY <1>1 DEF LineEnds
<1>5. endsx \in SUBSET Nat /\ \A e \in endsx : e > k + j /\ e <= Len(x)
  BY <1>1, <1>2 DEF LineEnds
<1>6. \A e \in Nat : e <= Len(c) => (e \in ends <=> k + e \in endsx)
  <2>1. SUFFICES ASSUME NEW e \in Nat, e <= Len(c), e > j
                 PROVE  e \in ends <=> k + e \in endsx
    BY <1>1, <1>4, <1>5
  <2>2. e - 1 \in 1 .. Len(c) /\ e \in 1 .. Len(c) /\ k + (e - 1) = (k + e) - 1
    BY <1>1, <2>1
  <2>3. x[(k + e) - 1] = c[e - 1] /\ x[k + e] = c[e]
    BY <1>1, <2>2
  <2>4. e \in j + 1 .. Len(c) /\ k + e \in (k + j) + 1 .. Len(x)
    BY <1>1, <2>1
  <2> QED
    BY <2>3, <2>4 DEF LineEnds
<1>7. SUFFICES /\ thisx.frames = thisc.frames /\ thisx.then = thisc.then
               /\ thisx.next = k + thisc.next
  BY DEF SameRound
<1> HIDE DEF thisc, thisx, ends, endsx
<1>8. CASE ends = {}
  <2>1. thisc = Waits(j)
    BY <1>3, <1>8
  <2>2. Len(x) = k + Len(c)
    BY <2>1 DEF thisc, Waits
  <2>3. ASSUME NEW e \in endsx PROVE FALSE
    <3>1. e - k \in Nat /\ e - k <= Len(c) /\ k + (e - k) = e
      BY <1>1, <1>5, <2>2, <2>3
    <3> QED
      BY <1>6, <1>8, <3>1
  <2>4. thisx = Waits(k + j)
    BY <1>3, <2>3
  <2> QED
    BY <2>1, <2>4 DEF Waits
<1>9. CASE ends # {}
  <2> DEFINE e == Min(ends)
             f == Min(endsx)
  <2>1. e \in ends /\ \A y \in ends : e <= y
    BY <1>4, <1>9, MinIsLeast
  <2>2. e \in Nat /\ e > j /\ e <= Len(c) /\ k + e \in endsx
    BY <1>4, <1>6, <2>1
  <2>3. f \in endsx /\ \A y \in endsx : f <= y
    BY <1>5, <2>2, MinIsLeast
  <2> HIDE DEF e, f
  <2>4. f = k + e
    <3>1. f \in Nat /\ f > k + j /\ f <= k + e
      BY <1>5, <2>2, <2>3
    <3>2. f - k \in Nat /\ f - k <= Len(c) /\ k + (f - k) = f
      BY <1>1, <2>2, <3>1
    <3>3. f - k \in ends
      BY <1>6, <2>3, <3>2
    <3>4. e <= f - k
      BY <2>1, <3>3
    <3> QED
      BY <1>1, <2>2, <3>1, <3>4
  <2>5. SubSeq(x, k + j, k + e) = SubSeq(c, j, e)
    <3>1. j \in Nat \ {0}
      BY <1>1
    <3>2. PiecesStandIn(c, x, k)
      BY PieceStandsIn
    <3> QED
      BY <2>2, <3>1, <3>2 DEF PiecesStandIn
  <2>6. endsx # {}
    BY <2>2
  <2>7. /\ thisc = Finds(SubSeq(c, j, e), e + 1)
        /\ thisx = Finds(SubSeq(x, k + j, f), f + 1)
    BY <1>3, <1>9, <2>6 DEF e, f
  <2>8. thisx = Finds(SubSeq(c, j, e), k + (e + 1))
    <3>1. k + e + 1 = k + (e + 1)
      BY <1>1, <2>2
    <3> QED
      BY <2>4, <2>5, <2>7, <3>1
  <2> DEFINE piece == SubSeq(c, j, e)
  <2> HIDE DEF piece
  <2>9. thisc = Finds(piece, e + 1) /\ thisx = Finds(piece, k + (e + 1))
    BY <2>7, <2>8 DEF piece
  <2> QED
    BY <2>9 DEF Finds
<1> QED
  BY <1>8, <1>9

\* A piece of a sequence of bytes.
LEMMA PieceOfBytes ==
  ASSUME NEW buf \in Seq(Byte), NEW p \in Nat \ {0}, NEW q \in Int, q <= Len(buf)
  PROVE  /\ SubSeq(buf, p, q) \in Seq(Byte)
         /\ Len(SubSeq(buf, p, q)) = IF p <= q THEN q - p + 1 ELSE 0
<1>1. \A i \in 1 .. Len(buf) : buf[i] \in Byte
  BY ElementOfSeq
<1>2. Len(buf) \in Nat
  BY LenProperties
<1>3. \A i \in p .. q : buf[i] \in Byte
  BY <1>1, <1>2
<1>4. p \in Int
  OBVIOUS
<1> QED
  BY <1>3, <1>4, SubSeqProperties

\* parseBarcodeStream goes forward, and cuts bytes out of bytes.
LEMMA BarcodeIsRound ==
  ASSUME NEW bytes \in Seq(Byte)
  PROVE  /\ IsRound(BarcodeRound(bytes), Len(bytes), Seq(Byte))
         /\ LeavesWhereItStands(BarcodeRound(bytes), Len(bytes))
<1>1. ASSUME NEW i \in 1 .. Len(bytes) + 1
      PROVE  LET this == BarcodeRound(bytes)[i]
             IN /\ this.frames \in Seq(Seq(Byte))
                /\ this.next \in i .. Len(bytes) + 1
                /\ this.then \in {"again", "reading", "spinning"}
                /\ this.then = "again" => this.next > i
                /\ this.then # "again" => this.next = i
  <2> DEFINE this == BarcodeRound(bytes)[i]
             starts == {j \in i .. Len(bytes) : bytes[j] = STX}
             ends == {j \in Min(starts) + 1 .. Len(bytes) - 1 :
                        bytes[j] = ETX /\ bytes[j + 1] = EOT}
             found == SubSeq(bytes, Min(starts) + 1, Min(ends) - 1)
  <2>1. this = IF starts = {} \/ ends = {} THEN Waits(i) ELSE Finds(found, Min(ends) + 2)
    BY DEF BarcodeRound
  <2>2. Len(bytes) \in Nat
    BY LenProperties
  <2>3. CASE starts = {} \/ ends = {}
    <3> HIDE DEF starts, ends, found
    <3>1. this = Waits(i)
      BY <2>1, <2>3
    <3> HIDE DEF this
    <3>2. this.frames = <<>> /\ this.next = i /\ this.then = "reading"
      BY <3>1 DEF Waits
    <3>3. /\ this.frames \in Seq(Seq(Byte)) /\ this.next \in i .. Len(bytes) + 1
          /\ this.then \in {"again", "reading", "spinning"} /\ this.then # "again"
          /\ this.next = i
      BY <2>2, <3>2, EmptySeq
    <3> QED
      BY <3>3 DEF this
  <2>4. CASE starts # {} /\ ends # {}
    <3>1. Min(starts) \in i .. Len(bytes)
      <4>1. starts \in SUBSET Nat
        BY <2>2
      <4> HIDE DEF starts
      <4>2. Min(starts) \in starts
        BY <2>4, <4>1, MinIsLeast
      <4> QED
        BY <4>2 DEF starts
    <3> DEFINE s == Min(starts)
    <3> HIDE DEF starts, s
    <3>2. Min(ends) \in s + 1 .. Len(bytes) - 1
      <4>1. ends \in SUBSET Nat
        BY <2>2, <3>1 DEF s
      <4>2. ends \subseteq s + 1 .. Len(bytes) - 1
        BY DEF s
      <4> HIDE DEF ends
      <4>3. Min(ends) \in ends
        BY <2>4, <4>1, MinIsLeast
      <4> QED
        BY <4>2, <4>3
    <3> HIDE DEF ends
    <3>3. found \in Seq(Byte)
      <4>1. s + 1 \in Nat \ {0} /\ Min(ends) - 1 \in Int /\ Min(ends) - 1 <= Len(bytes)
        BY <2>2, <3>1, <3>2 DEF s
      <4>2. SubSeq(bytes, s + 1, Min(ends) - 1) \in Seq(Byte)
        BY <4>1, PieceOfBytes
      <4> QED
        BY <4>2 DEF s
    <3> HIDE DEF found
    <3>4. this = Finds(found, Min(ends) + 2)
      BY <2>1, <2>4
    <3> HIDE DEF this
    <3>5. this.frames = <<found>> /\ this.next = Min(ends) + 2 /\ this.then = "again"
      BY <3>4 DEF Finds
    <3>6. <<found>> \in Seq(Seq(Byte))
      BY <3>3
    <3>7. /\ this.frames \in Seq(Seq(Byte)) /\ this.next \in i .. Len(bytes) + 1
          /\ this.then = "again" /\ this.next > i
      BY <2>2, <3>1, <3>2, <3>5, <3>6 DEF s
    <3> QED
      BY <3>7 DEF this
  <2> QED
    BY <2>3, <2>4
<1> QED
  BY <1>1 DEF IsRound, LeavesWhereItStands

\* The least of a set and of the same set k further on, with or without more
\* behind it.
LEMMA MinIsShifted ==
  ASSUME NEW A \in SUBSET Nat, NEW B \in SUBSET Nat, NEW k \in Nat, NEW l \in Nat,
         \A e \in A : e <= l, \A e \in B : k <= e,
         \A e \in Nat : e <= l => (e \in A <=> k + e \in B), A # {}
  PROVE  B # {} /\ Min(B) = k + Min(A)
<1> DEFINE e == Min(A)
           f == Min(B)
<1>1. e \in A /\ \A y \in A : e <= y
  BY MinIsLeast
<1>2. e \in Nat /\ e <= l /\ k + e \in B
  BY <1>1
<1>3. f \in B /\ \A y \in B : f <= y
  BY <1>2, MinIsLeast
<1> HIDE DEF e, f
<1>4. f \in Nat /\ k <= f /\ f <= k + e
  BY <1>2, <1>3
<1>5. f - k \in Nat /\ f - k <= l /\ k + (f - k) = f
  BY <1>2, <1>4
<1>6. f - k \in A
  BY <1>3, <1>5
<1>7. e <= f - k
  BY <1>1, <1>6
<1>8. f = k + e
  BY <1>2, <1>4, <1>7
<1> QED
  BY <1>2, <1>8 DEF e, f

\* Where a barcode can start from i on, and where one that starts at s can end.
Starts(bytes, i) == {j \in i .. Len(bytes) : bytes[j] = STX}
Ends(bytes, s) == {j \in s + 1 .. Len(bytes) - 1 : bytes[j] = ETX /\ bytes[j + 1] = EOT}

\* A barcode is found at the same bytes among more bytes, unless its end is
\* awaited.
LEMMA BarcodeIsSame ==
  ASSUME NEW c, NEW x, NEW k, StandsIn(c, x, k), NEW j \in 1 .. Len(c) + 1,
         BarcodeRound(c)[j].then = "again" \/ Len(x) = k + Len(c)
  PROVE  SameRound(BarcodeRound(x), k, j, BarcodeRound(c))
<1>1. /\ c \in Seq(Byte) /\ x \in Seq(Byte) /\ k \in Nat /\ Len(c) \in Nat /\ Len(x) \in Nat
      /\ k + Len(c) <= Len(x) /\ \A i \in 1 .. Len(c) : x[k + i] = c[i]
  BY LenProperties DEF StandsIn
<1> DEFINE thisc == BarcodeRound(c)[j]
           thisx == BarcodeRound(x)[k + j]
           starts == Starts(c, j)
           startsx == Starts(x, k + j)
           s == Min(starts)
           t == Min(startsx)
           ends == Ends(c, s)
           endsx == Ends(x, t)
           e == Min(ends)
           f == Min(endsx)
<1>2. k + j \in 1 .. Len(x) + 1 /\ j \in Nat /\ j >= 1 /\ j <= Len(c) + 1
  BY <1>1
<1>3. /\ thisc = IF starts = {} \/ ends = {} THEN Waits(j)
                 ELSE Finds(SubSeq(c, s + 1, e - 1), e + 2)
      /\ thisx = IF startsx = {} \/ endsx = {} THEN Waits(k + j)
                 ELSE Finds(SubSeq(x, t + 1, f - 1), f + 2)
  BY <1>2 DEF BarcodeRound, Starts, Ends
<1>4. /\ starts \in SUBSET Nat /\ \A y \in starts : j <= y /\ y <= Len(c)
      /\ startsx \in SUBSET Nat /\ \A y \in startsx : k <= y /\ y <= Len(x) /\ k + j <= y
  BY <1>1, <1>2 DEF Starts
<1>5. \A y \in Nat : y <= Len(c) => (y \in starts <=> k + y \in startsx)
  <2>1. SUFFICES ASSUME NEW y \in Nat, y <= Len(c), j <= y
                 PROVE  y \in starts <=> k + y \in startsx
    BY <1>1, <1>2, <1>4
  <2>2. y \in j .. Len(c) /\ k + y \in k + j .. Len(x) /\ y \in 1 .. Len(c)
    BY <1>1, <1>2, <2>1
  <2> QED
    BY <1>1, <2>2 DEF Starts
<1>6. starts # {} => startsx # {} /\ t = k + s /\ s \in starts
  <2> HIDE DEF starts, startsx
  <2> QED
    BY <1>1, <1>4, <1>5, MinIsShifted, MinIsLeast
<1>7. starts = {} /\ Len(x) = k + Len(c) => startsx = {}
  <2>1. SUFFICES ASSUME starts = {}, Len(x) = k + Len(c), NEW y \in startsx
                 PROVE  FALSE
    OBVIOUS
  <2> HIDE DEF starts, startsx
  <2>2. y - k \in Nat /\ y - k <= Len(c) /\ k + (y - k) = y
    BY <1>1, <1>4, <2>1
  <2> QED
    BY <1>5, <2>1, <2>2
<1> HIDE DEF thisc, thisx, starts, startsx, s, t
<1>8. SUFFICES /\ thisx.frames = thisc.frames /\ thisx.then = thisc.then
               /\ thisx.next = k + thisc.next
  BY DEF SameRound, thisc, thisx
<1>9. thisc.then = "again" \/ Len(x) = k + Len(c)
  BY DEF thisc
<1>10. CASE starts = {}
  <2>1. thisc = Waits(j)
    BY <1>3, <1>10
  <2>2. Len(x) = k + Len(c)
    BY <1>9, <2>1 DEF Waits
  <2>3. thisx = Waits(k + j)
    BY <1>3, <1>7, <1>10, <2>2
  <2> QED
    BY <2>1, <2>3 DEF Waits
<1>11. CASE starts # {}
  <2>1. startsx # {} /\ t = k + s /\ s \in Nat /\ j <= s /\ s <= Len(c)
    BY <1>4, <1>6, <1>11
  <2>2. /\ ends \in SUBSET Nat /\ \A y \in ends : s < y /\ y <= Len(c) - 1 /\ y <= Len(c)
        /\ endsx \in SUBSET Nat /\ \A y \in endsx : k <= y /\ t < y /\ y <= Len(x) - 1
    BY <1>1, <2>1, SMTT(20) DEF Ends
  <2>3. \A y \in Nat : y <= Len(c) - 1 => (y \in ends <=> k + y \in endsx)
    <3>1. SUFFICES ASSUME NEW y \in Nat, y <= Len(c) - 1, s + 1 <= y
                   PROVE  y \in ends <=> k + y \in endsx
      BY <1>1, <2>1, <2>2
    <3>2. /\ y \in s + 1 .. Len(c) - 1 /\ k + y \in t + 1 .. Len(x) - 1
          /\ y \in 1 .. Len(c) /\ y + 1 \in 1 .. Len(c) /\ k + (y + 1) = (k + y) + 1
      BY <1>1, <2>1, <3>1
    <3>3. x[k + y] = c[y] /\ x[(k + y) + 1] = c[y + 1]
      BY <1>1, <3>2
    <3> QED
      BY <3>2, <3>3 DEF Ends
  <2> HIDE DEF ends, endsx
  <2>4. Len(c) - 1 \in Nat
    BY <1>1, <1>2, <2>1
  <2>5. CASE ends = {}
    <3>1. thisc = Waits(j)
      BY <1>3, <2>5
    <3>2. Len(x) = k + Len(c)
      BY <1>9, <3>1 DEF Waits
    <3>3. ASSUME NEW y \in endsx PROVE FALSE
      <4>1. y - k \in Nat /\ y - k <= Len(c) - 1 /\ k + (y - k) = y
        BY <1>1, <2>2, <3>2, <3>3
      <4> QED
        BY <2>3, <2>5, <4>1
    <3>4. thisx = Waits(k + j)
      BY <1>3, <3>3
    <3> QED
      BY <3>1, <3>4 DEF Waits
  <2>6. CASE ends # {}
    <3>1. endsx # {} /\ f = k + e /\ e \in ends
      BY <1>1, <2>2, <2>3, <2>4, <2>6, MinIsShifted, MinIsLeast
    <3>2. e \in Nat /\ s < e /\ e <= Len(c) - 1
      BY <2>2, <3>1
    <3> HIDE DEF e, f
    <3> DEFINE piece == SubSeq(c, s + 1, e - 1)
    <3>3. SubSeq(x, t + 1, f - 1) = piece
      <4>1. s + 1 \in Nat \ {0} /\ e - 1 \in Nat /\ e - 1 <= Len(c)
        BY <1>1, <2>1, <3>2
      <4>2. SubSeq(x, k + (s + 1), k + (e - 1)) = SubSeq(c, s + 1, e - 1)
        <5> DEFINE p == s + 1
                   q == e - 1
        <5>1. p \in Nat \ {0} /\ q \in Nat /\ q <= Len(c)
          BY <4>1
        <5> HIDE DEF p, q
        <5>2. PiecesStandIn(c, x, k)
          BY PieceStandsIn
        <5>3. SubSeq(x, k + p, k + q) = SubSeq(c, p, q)
          BY <5>1, <5>2 DEF PiecesStandIn
        <5> QED
          BY <5>3 DEF p, q
      <4>3. k + (s + 1) = t + 1 /\ k + (e - 1) = f - 1
        BY <1>1, <2>1, <3>1, <3>2
      <4> QED
        BY <4>2, <4>3
    <3>4. thisc = Finds(piece, e + 2) /\ thisx = Finds(piece, f + 2)
      BY <1>3, <1>11, <2>1, <2>6, <3>1, <3>3
    <3>5. f + 2 = k + (e + 2)
      BY <1>1, <3>1, <3>2
    <3> HIDE DEF piece
    <3> QED
      BY <3>4, <3>5 DEF Finds
  <2> QED
    BY <2>5, <2>6
<1> QED
  BY <1>10, <1>11

----------------------------------------------------------------------------
(* Two reads and one.                                                       *)

\* The three protocols whose loops end only where bytes are missing.
Patient == {"pocket", "gat", "sphinx"}

\* Their loops go forward, and wait where they stand.
LEMMA RoundsAreRounds ==
  ASSUME NEW type \in Patient, NEW buf \in Seq(Byte)
  PROVE  /\ IsRound(RoundOf(type, buf), Len(buf), Seq(Byte))
         /\ LeavesWhereItStands(RoundOf(type, buf), Len(buf))
<1>1. CASE type = "pocket"
  <2>1. RoundOf(type, buf) = MarkedRound(buf, 7)
    BY <1>1 DEF RoundOf
  <2> QED
    BY <2>1, MarkedIsRound, 7 \in Nat \ {0}
<1>2. CASE type = "gat"
  <2>1. RoundOf(type, buf) = MarkedRound(buf, 8)
    BY <1>2 DEF RoundOf
  <2> QED
    BY <2>1, MarkedIsRound, 8 \in Nat \ {0}
<1>3. CASE type = "sphinx"
  <2>1. RoundOf(type, buf) = SphinxRound(buf)
    BY <1>3 DEF RoundOf
  <2> QED
    BY <2>1, SphinxIsRound
<1> QED
  BY <1>1, <1>2, <1>3 DEF Patient

\* Their rounds do the same among more bytes, unless they wait for them.
LEMMA RoundsAreSame ==
  ASSUME NEW type \in Patient, NEW c, NEW x, NEW k, StandsIn(c, x, k),
         NEW j \in 1 .. Len(c) + 1,
         RoundOf(type, c)[j].then = "again" \/ Len(x) = k + Len(c)
  PROVE  SameRound(RoundOf(type, x), k, j, RoundOf(type, c))
<1>1. CASE type = "pocket"
  <2>1. RoundOf(type, x) = MarkedRound(x, 7) /\ RoundOf(type, c) = MarkedRound(c, 7)
    BY <1>1 DEF RoundOf
  <2> QED
    BY <2>1, MarkedIsSame, 7 \in Nat \ {0}
<1>2. CASE type = "gat"
  <2>1. RoundOf(type, x) = MarkedRound(x, 8) /\ RoundOf(type, c) = MarkedRound(c, 8)
    BY <1>2 DEF RoundOf
  <2> QED
    BY <2>1, MarkedIsSame, 8 \in Nat \ {0}
<1>3. CASE type = "sphinx"
  <2>1. RoundOf(type, x) = SphinxRound(x) /\ RoundOf(type, c) = SphinxRound(c)
    BY <1>3 DEF RoundOf
  <2> QED
    BY <2>1, SphinxIsSame
<1> QED
  BY <1>1, <1>2, <1>3 DEF Patient

\* So do those of the loop that looks for barcodes.
Loops == Patient \cup {"barcodes"}
LoopOf(loop, buf) == IF loop = "barcodes" THEN BarcodeRound(buf) ELSE RoundOf(loop, buf)

\* All of them go forward, and wait where they stand.
LEMMA LoopsAreRounds ==
  ASSUME NEW loop \in Loops, NEW buf \in Seq(Byte)
  PROVE  /\ IsRound(LoopOf(loop, buf), Len(buf), Seq(Byte))
         /\ LeavesWhereItStands(LoopOf(loop, buf), Len(buf))
<1>1. CASE loop = "barcodes"
  BY <1>1, BarcodeIsRound DEF LoopOf
<1>2. CASE loop # "barcodes"
  BY <1>2, RoundsAreRounds DEF LoopOf, Loops
<1> QED
  BY <1>1, <1>2

\* All of them do the same among more bytes, unless they wait for them.
LEMMA LoopsAreSame ==
  ASSUME NEW loop \in Loops, NEW c, NEW x, NEW k, StandsIn(c, x, k),
         NEW j \in 1 .. Len(c) + 1,
         LoopOf(loop, c)[j].then = "again" \/ Len(x) = k + Len(c)
  PROVE  SameRound(LoopOf(loop, x), k, j, LoopOf(loop, c))
<1>1. CASE loop = "barcodes"
  <2>1. LoopOf(loop, x) = BarcodeRound(x) /\ LoopOf(loop, c) = BarcodeRound(c)
    BY <1>1 DEF LoopOf
  <2> QED
    BY <2>1, BarcodeIsSame
<1>2. CASE loop # "barcodes"
  <2>1. loop \in Patient
    BY <1>2 DEF Loops
  <2>2. LoopOf(loop, x) = RoundOf(loop, x) /\ LoopOf(loop, c) = RoundOf(loop, c)
    BY <1>2 DEF LoopOf
  <2> QED
    BY <2>1, <2>2, RoundsAreSame
<1> QED
  BY <1>1, <1>2

\* What is left of a, with b behind it, is the end of a and b together.
LEMMA EndOfBoth ==
  ASSUME NEW a \in Seq(Byte), NEW b \in Seq(Byte), NEW k \in 0 .. Len(a)
  PROVE  LET c == SubSeq(a, k + 1, Len(a)) \o b
         IN /\ StandsIn(a, a \o b, 0)
            /\ StandsIn(c, a \o b, k) /\ Len(a \o b) = k + Len(c)
<1> DEFINE tail == SubSeq(a, k + 1, Len(a))
           c == tail \o b
           x == a \o b
<1>1. Len(a) \in Nat /\ Len(b) \in Nat /\ k \in Nat /\ k <= Len(a)
  BY LenProperties
<1>2. /\ x \in Seq(Byte) /\ Len(x) = Len(a) + Len(b)
      /\ \A i \in 1 .. Len(a) + Len(b) : x[i] = IF i <= Len(a) THEN a[i] ELSE b[i - Len(a)]
  BY ConcatProperties
<1>3. /\ tail \in Seq(Byte) /\ Len(tail) = Len(a) - k
      /\ \A i \in 1 .. Len(a) - k : tail[i] = a[k + i]
  <2>1. \A i \in k + 1 .. Len(a) : a[i] \in Byte
    BY <1>1, ElementOfSeq
  <2>2. /\ tail \in Seq(Byte)
        /\ Len(tail) = IF k + 1 <= Len(a) THEN Len(a) - (k + 1) + 1 ELSE 0
        /\ \A i \in 1 .. Len(a) - (k + 1) + 1 : tail[i] = a[(k + 1) + i - 1]
    BY <1>1, <2>1, SubSeqProperties
  <2>3. Len(tail) = Len(a) - k /\ Len(a) - (k + 1) + 1 = Len(a) - k
    BY <1>1, <2>2
  <2>4. \A i \in 1 .. Len(a) - k : (k + 1) + i - 1 = k + i
    BY <1>1
  <2> QED
    BY <2>2, <2>3, <2>4
<1> HIDE DEF tail, x
<1>4. /\ c \in Seq(Byte) /\ Len(c) = (Len(a) - k) + Len(b)
      /\ \A i \in 1 .. (Len(a) - k) + Len(b) :
           c[i] = IF i <= Len(a) - k THEN tail[i] ELSE b[i - (Len(a) - k)]
  <2>1. /\ c \in Seq(Byte) /\ Len(c) = Len(tail) + Len(b)
        /\ \A i \in 1 .. Len(tail) + Len(b) :
             c[i] = IF i <= Len(tail) THEN tail[i] ELSE b[i - Len(tail)]
    BY <1>3, ConcatProperties
  <2> HIDE DEF c
  <2> QED
    BY <1>3, <2>1
<1> HIDE DEF c
<1>5. StandsIn(a, x, 0)
  BY <1>1, <1>2 DEF StandsIn
<1>6. ASSUME NEW i \in 1 .. Len(c)
      PROVE  x[k + i] = c[i]
  <2>1. k + i \in 1 .. Len(a) + Len(b) /\ i \in 1 .. (Len(a) - k) + Len(b)
    BY <1>1, <1>4
  <2>2. CASE i <= Len(a) - k
    <3>1. k + i <= Len(a) /\ i \in 1 .. Len(a) - k
      BY <1>1, <2>1, <2>2
    <3> QED
      BY <1>2, <1>3, <1>4, <2>1, <2>2, <3>1
  <2>3. CASE ~(i <= Len(a) - k)
    <3>1. ~(k + i <= Len(a)) /\ (k + i) - Len(a) = i - (Len(a) - k)
      BY <1>1, <2>1, <2>3
    <3> QED
      BY <1>2, <1>4, <2>1, <2>3, <3>1
  <2> QED
    BY <2>2, <2>3
<1>7. Len(x) = k + Len(c) /\ k + Len(c) <= Len(x)
  BY <1>1, <1>2, <1>4
<1>8. StandsIn(c, x, k)
  BY <1>1, <1>2, <1>4, <1>6, <1>7 DEF StandsIn
<1> QED
  BY <1>5, <1>7, <1>8 DEF c, tail, x

\* What a loop over the buffer cuts off and what it leaves, and both are
\* sequences again.
LEMMA CutUpIs ==
  ASSUME NEW buf \in Seq(Byte), NEW S, NEW round, IsRound(round, Len(buf), S)
  PROVE  LET cut == CutUp(buf, round)
             at == CutFrom(round, Len(buf))[1]
         IN /\ cut.frames = at.frames /\ cut.frames \in Seq(S)
            /\ cut.rest = SubSeq(buf, at.next, Len(buf)) /\ at.next \in 1 .. Len(buf) + 1
            /\ cut.rest \in Seq(Byte) /\ Len(cut.rest) = Len(buf) + 1 - at.next
            /\ cut.reader = at.reader /\ cut.reader \in {"reading", "spinning"}
<1> DEFINE at == CutFrom(round, Len(buf))[1]
           rest == SubSeq(buf, at.next, Len(buf))
<1>1. Len(buf) \in Nat /\ 1 \in 1 .. Len(buf) + 1
  BY LenProperties
<1>2. \A i \in 1 .. Len(buf) + 1 :
           /\ CutFrom(round, Len(buf))[i].frames \in Seq(S)
           /\ CutFrom(round, Len(buf))[i].next \in i .. Len(buf) + 1
           /\ CutFrom(round, Len(buf))[i].reader \in {"reading", "spinning"}
  BY <1>1, CutFromTyped
<1>3. /\ at.frames \in Seq(S) /\ at.next \in 1 .. Len(buf) + 1
      /\ at.reader \in {"reading", "spinning"}
  BY <1>1, <1>2
<1>4. CutUp(buf, round) = [frames |-> at.frames, rest |-> rest, reader |-> at.reader]
  BY DEF CutUp
<1> HIDE DEF at
<1>5. rest \in Seq(Byte) /\ Len(rest) = Len(buf) + 1 - at.next
  <2>1. \A i \in at.next .. Len(buf) : buf[i] \in Byte
    BY <1>1, <1>3, ElementOfSeq
  <2>2. /\ rest \in Seq(Byte)
        /\ Len(rest) = IF at.next <= Len(buf) THEN Len(buf) - at.next + 1 ELSE 0
    <3>1. at.next \in Int /\ Len(buf) \in Int
      BY <1>1, <1>3
    <3> QED
      BY <2>1, <3>1, SubSeqProperties
  <2> HIDE DEF rest
  <2> QED
    BY <1>1, <1>3, <2>2
<1> HIDE DEF rest
<1>6. /\ CutUp(buf, round).frames = at.frames /\ CutUp(buf, round).rest = rest
      /\ CutUp(buf, round).reader = at.reader
  BY <1>4
<1>7. /\ CutUp(buf, round).frames = at.frames /\ CutUp(buf, round).frames \in Seq(S)
      /\ CutUp(buf, round).rest = rest /\ at.next \in 1 .. Len(buf) + 1
      /\ CutUp(buf, round).rest \in Seq(Byte)
      /\ Len(CutUp(buf, round).rest) = Len(buf) + 1 - at.next
      /\ CutUp(buf, round).reader = at.reader
      /\ CutUp(buf, round).reader \in {"reading", "spinning"}
  BY <1>3, <1>5, <1>6
<1> QED
  BY <1>7 DEF at, rest

\* Two reads, with what the first leaves in the buffer before the second, cut
\* off what one read of all their bytes cuts off, and leave what it leaves.
Continues(loop, a, b) ==
  LET first == CutUp(a, LoopOf(loop, a))
      more == CutUp(first.rest \o b, LoopOf(loop, first.rest \o b))
      both == CutUp(a \o b, LoopOf(loop, a \o b))
  IN /\ both.frames = first.frames \o more.frames
     /\ both.rest = more.rest /\ both.reader = more.reader

\* processPocketData, processGatData, processSphinxData and parseBarcodeStream do
\* not depend on how the bytes are cut into reads or Signals.
LEMMA LoopsGoOn ==
  ASSUME NEW loop \in Loops, NEW a \in Seq(Byte), NEW b \in Seq(Byte)
  PROVE  Continues(loop, a, b)
<1> DEFINE n == Len(a)
           m == Len(a \o b)
           short == LoopOf(loop, a)
           long == LoopOf(loop, a \o b)
           at == CutFrom(short, n)
           al == CutFrom(long, m)
           k == at[1].next - 1
           c == SubSeq(a, k + 1, Len(a)) \o b
           tail == LoopOf(loop, c)
           ac == CutFrom(tail, Len(c))
<1>1. /\ n \in Nat /\ m \in Nat /\ a \o b \in Seq(Byte)
      /\ IsRound(short, n, Seq(Byte)) /\ LeavesWhereItStands(short, n)
      /\ IsRound(long, m, Seq(Byte))
  <2>1. a \o b \in Seq(Byte)
    BY ConcatProperties
  <2> QED
    BY <2>1, LenProperties, LoopsAreRounds
<1>2. /\ at[1].frames = CutUp(a, short).frames /\ at[1].next \in 1 .. n + 1
      /\ CutUp(a, short).rest = SubSeq(a, at[1].next, Len(a))
  BY <1>1, CutUpIs
<1>3. k \in 0 .. Len(a) /\ at[1].next = k + 1
  <2> DEFINE next == at[1].next
  <2>1. next \in 1 .. Len(a) + 1 /\ Len(a) \in Nat /\ k = next - 1
    BY <1>1, <1>2
  <2> HIDE DEF next, k
  <2>2. k \in 0 .. Len(a) /\ next = k + 1
    BY <2>1
  <2> QED
    BY <2>2 DEF next
<1>4. /\ StandsIn(a, a \o b, 0) /\ StandsIn(c, a \o b, k) /\ m = k + Len(c)
  <2> HIDE DEF k
  <2> QED
    BY <1>3, EndOfBoth
<1>5. c \in Seq(Byte) /\ a \o b \in Seq(Byte) /\ k \in Nat /\ Len(c) \in Nat /\ n <= m
  <2> HIDE DEF n, m, k, c
  <2>1. c \in Seq(Byte) /\ a \o b \in Seq(Byte) /\ k \in Nat
    BY <1>4 DEF StandsIn
  <2>2. Len(c) \in Nat
    BY <2>1, LenProperties
  <2>3. 0 + n <= m
    BY <1>4 DEF StandsIn, n, m
  <2> QED
    BY <1>1, <2>1, <2>2, <2>3
<1>6. IsRound(tail, Len(c), Seq(Byte))
  <2> HIDE DEF c
  <2> QED
    BY <1>5, LoopsAreRounds
<1>7. Extends(long, short, n)
  <2>1. ASSUME NEW i \in 1 .. n + 1, short[i].then = "again"
        PROVE  SameRound(long, 0, i, short)
    BY <1>4, <2>1, LoopsAreSame
  <2> HIDE DEF long, short, n
  <2> QED
    BY <2>1 DEF Extends
<1>8. IsShifted(tail, long, Len(c), k)
  <2> HIDE DEF c, k
  <2>1. ASSUME NEW j \in 1 .. Len(c) + 1
        PROVE  SameRound(long, k, j, tail)
    BY <1>4, LoopsAreSame
  <2> HIDE DEF long, tail
  <2> QED
    BY <2>1 DEF IsShifted
<1>9. /\ al[1].frames = at[1].frames \o al[at[1].next].frames
      /\ al[1].next = al[at[1].next].next /\ al[1].reader = al[at[1].next].reader
  <2>1. 1 \in 1 .. n + 1
    BY <1>1
  <2> HIDE DEF n, m, short, long
  <2>2. \A i \in 1 .. n + 1 : TakesUp(al, at, i)
    BY <1>1, <1>5, <1>7, LoopGoesOn
  <2> HIDE DEF at, al
  <2> QED
    BY <2>1, <2>2 DEF TakesUp
<1>10. /\ al[k + 1].frames = ac[1].frames /\ al[k + 1].next = k + ac[1].next
       /\ al[k + 1].reader = ac[1].reader
  <2>1. 1 \in 1 .. Len(c) + 1
    BY <1>5
  <2> HIDE DEF c, k, long, tail, m
  <2>2. \A j \in 1 .. Len(c) + 1 :
           /\ CutFrom(long, k + Len(c))[k + j].frames = ac[j].frames
           /\ CutFrom(long, k + Len(c))[k + j].next = k + ac[j].next
           /\ CutFrom(long, k + Len(c))[k + j].reader = ac[j].reader
    <3>1. IsRound(long, k + Len(c), Seq(Byte))
      BY <1>1, <1>4
    <3> QED
      BY <1>5, <1>6, <1>8, <3>1, LoopIsShifted
  <2>3. al = CutFrom(long, k + Len(c))
    BY <1>4
  <2> HIDE DEF al, ac
  <2> QED
    BY <2>1, <2>2, <2>3
<1>11. /\ CutUp(a \o b, long).frames = al[1].frames
       /\ CutUp(a \o b, long).rest = SubSeq(a \o b, al[1].next, m)
       /\ CutUp(a \o b, long).reader = al[1].reader
  <2> DEFINE x == a \o b
  <2>1. x \in Seq(Byte) /\ IsRound(long, Len(x), Seq(Byte))
    BY <1>1
  <2> HIDE DEF x, long
  <2>2. /\ CutUp(x, long).frames = CutFrom(long, Len(x))[1].frames
        /\ CutUp(x, long).rest = SubSeq(x, CutFrom(long, Len(x))[1].next, Len(x))
        /\ CutUp(x, long).reader = CutFrom(long, Len(x))[1].reader
    BY <2>1, CutUpIs
  <2> QED
    BY <2>2 DEF x
<1>12. /\ CutUp(c, tail).frames = ac[1].frames /\ ac[1].next \in 1 .. Len(c) + 1
       /\ CutUp(c, tail).rest = SubSeq(c, ac[1].next, Len(c))
       /\ CutUp(c, tail).reader = ac[1].reader
  <2> HIDE DEF c, tail
  <2> QED
    BY <1>5, <1>6, CutUpIs
<1>13. SubSeq(a \o b, k + ac[1].next, m) = SubSeq(c, ac[1].next, Len(c))
  <2>1. PiecesStandIn(c, a \o b, k)
    <3> HIDE DEF c, k
    <3> QED
      BY <1>4, PieceStandsIn
  <2> DEFINE x == a \o b
             i == ac[1].next
  <2> HIDE DEF c, ac
  <2>2. i \in Nat \ {0}
    BY <1>5, <1>12
  <2> HIDE DEF x, i, k, m
  <2>3. SubSeq(x, k + i, k + Len(c)) = SubSeq(c, i, Len(c))
    <3>1. PiecesStandIn(c, x, k)
      BY <2>1 DEF x
    <3>2. Len(c) \in Nat /\ Len(c) <= Len(c)
      BY <1>5
    <3>3. \A p \in Nat \ {0}, q \in Nat :
            q <= Len(c) => SubSeq(x, k + p, k + q) = SubSeq(c, p, q)
      BY <3>1 DEF PiecesStandIn
    <3> QED
      BY <2>2, <3>2, <3>3
  <2> QED
    BY <1>4, <2>3 DEF x, i
<1>14. CutUp(a, short).rest \o b = c
  BY <1>2, <1>3
<1>15. /\ CutUp(a \o b, long).frames = CutUp(a, short).frames \o CutUp(c, tail).frames
       /\ CutUp(a \o b, long).rest = CutUp(c, tail).rest
       /\ CutUp(a \o b, long).reader = CutUp(c, tail).reader
  <2> HIDE DEF c, tail, short, long, at, al, ac, m, n, k
  <2>2. CutUp(c, tail).rest = CutUp(a \o b, long).rest
    BY <1>3, <1>9, <1>10, <1>11, <1>12, <1>13
  <2>3. CutUp(c, tail).reader = CutUp(a \o b, long).reader
    BY <1>3, <1>9, <1>10, <1>11, <1>12
  <2>4. CutUp(a \o b, long).frames = CutUp(a, short).frames \o CutUp(c, tail).frames
    BY <1>2, <1>3, <1>9, <1>10, <1>11, <1>12
  <2> QED
    BY <2>2, <2>3, <2>4
<1> HIDE DEF c
<1> QED
  BY <1>14, <1>15 DEF Continues

\* So it is with the frames of a protocol.
FramesContinue(type, a, b) ==
  LET first == Frames(type, a)
      more == Frames(type, first.rest \o b)
      both == Frames(type, a \o b)
  IN /\ both.frames = first.frames \o more.frames
     /\ both.rest = more.rest /\ both.reader = more.reader

\* processData goes on where it left.
LEMMA FramesGoOn ==
  ASSUME NEW type \in Patient, NEW a \in Seq(Byte), NEW b \in Seq(Byte)
  PROVE  FramesContinue(type, a, b)
<1>1. type \in Loops /\ \A buf : LoopOf(type, buf) = RoundOf(type, buf)
  BY DEF Loops, LoopOf, Patient
<1>2. Continues(type, a, b)
  BY <1>1, LoopsGoOn
<1> QED
  BY <1>1, <1>2 DEF Continues, FramesContinue, Frames

\* f[n] is what the handlers have changed after the first n packets.
Handled(f, st, type, frames, denied, moments) ==
  /\ f[0] = st
  /\ \A n \in 1 .. Len(frames) :
       f[n] = HandlePacket(f[n - 1], EventOf(type, frames[n]), denied, moments[n])

HandledUp(st, type, frames, denied, moments) ==
  \E f : /\ Handled(f, st, type, frames, denied, moments)
         /\ HandleFrames(st, type, frames, denied, moments) = f[Len(frames)]

\* The packets of a read are handled one after the other, to the last.
LEMMA HandleFramesIs ==
  ASSUME NEW st, NEW type, NEW frames, Len(frames) \in Nat, NEW denied, NEW moments
  PROVE  HandledUp(st, type, frames, denied, moments)
<1> DEFINE L == Len(frames)
           After(f, n) == IF n = 0 THEN st
                          ELSE HandlePacket(f[n - 1], EventOf(type, frames[n]), denied, moments[n])
           Is(f, l) == f = [n \in 0 .. l |-> After(f, n)]
           T == {l \in Nat : \E f : Is(f, l)}
<1>1. 0 \in T
  <2> DEFINE g == [n \in 0 .. 0 |-> st]
  <2>1. \A n \in 0 .. 0 : g[n] = After(g, n)
    OBVIOUS
  <2>2. g = [n \in 0 .. 0 |-> g[n]]
    OBVIOUS
  <2> HIDE DEF g, After
  <2>3. Is(g, 0)
    BY <2>1, <2>2
  <2> QED
    BY <2>3
<1>2. ASSUME NEW l \in Nat, l \in T
      PROVE  l + 1 \in T
  <2>1. PICK f : Is(f, l)
    BY <1>2
  <2> DEFINE g == [n \in 0 .. l + 1 |->
                     IF n = l + 1 THEN After(f, l + 1) ELSE f[n]]
  <2>2. ASSUME NEW n \in 0 .. l + 1
        PROVE  g[n] = After(g, n)
    <3>1. CASE n = 0
      <4>1. n \in 0 .. l /\ n # l + 1
        BY <3>1
      <4>2. g[n] = f[n]
        BY <4>1
      <4>3. f[n] = After(f, n)
        <5> HIDE DEF After
        <5> QED
          BY <2>1, <4>1
      <4> QED
        BY <3>1, <4>2, <4>3
    <3>2. CASE n # 0 /\ n # l + 1
      <4>1. n \in 0 .. l /\ n - 1 \in 0 .. l + 1 /\ n - 1 # l + 1
        BY <3>2
      <4>2. g[n] = f[n] /\ g[n - 1] = f[n - 1]
        BY <3>2, <4>1
      <4>3. f[n] = After(f, n)
        <5> HIDE DEF After
        <5> QED
          BY <2>1, <4>1
      <4> HIDE DEF g
      <4> QED
        BY <3>2, <4>2, <4>3
    <3>3. CASE n = l + 1
      <4>1. n - 1 \in 0 .. l + 1 /\ n - 1 # l + 1 /\ n # 0
        BY <3>3
      <4>2. g[n] = After(f, n) /\ g[n - 1] = f[n - 1]
        <5> HIDE DEF After
        <5> QED
          BY <3>3, <4>1
      <4> HIDE DEF g
      <4> QED
        BY <4>1, <4>2
    <3> QED
      BY <3>1, <3>2, <3>3
  <2>3. g = [n \in 0 .. l + 1 |-> g[n]]
    OBVIOUS
  <2> HIDE DEF g, After
  <2>4. Is(g, l + 1)
    BY <2>2, <2>3
  <2> QED
    BY <2>4
<1>3. L \in T
  <2> HIDE DEF T
  <2>1. Nat \subseteq T
    BY <1>1, <1>2, NatSetInduction
  <2> QED
    BY <2>1
<1> DEFINE F == CHOOSE g : Is(g, L)
<1>4. HandleFrames(st, type, frames, denied, moments) = F[L]
  BY DEF HandleFrames
<1>5. Is(F, L)
  <2>1. PICK g : Is(g, L)
    BY <1>3
  <2> HIDE DEF Is
  <2> QED
    BY <2>1
<1> HIDE DEF F
<1>6. \A n \in 0 .. L : F[n] = After(F, n)
  <2> HIDE DEF After
  <2> QED
    BY <1>5
<1>7. F[0] = st
  <2>1. 0 \in 0 .. L
    OBVIOUS
  <2> QED
    BY <1>6, <2>1
<1>8. ASSUME NEW n \in 1 .. L
      PROVE  F[n] = HandlePacket(F[n - 1], EventOf(type, frames[n]), denied, moments[n])
  <2>1. n \in 0 .. L /\ n # 0
    OBVIOUS
  <2> QED
    BY <1>6, <2>1
<1> QED
  BY <1>4, <1>7, <1>8 DEF Handled, HandledUp

\* A read of no whole packet changes nothing.
LEMMA NothingToHandle ==
  ASSUME NEW st, NEW type, NEW denied, NEW moments
  PROVE  HandleFrames(st, type, <<>>, denied, moments) = st
<1>1. Len(<<>>) = 0
  BY EmptySeq
<1>2. PICK f : /\ Handled(f, st, type, <<>>, denied, moments)
               /\ HandleFrames(st, type, <<>>, denied, moments) = f[Len(<<>>)]
  BY <1>1, HandleFramesIs DEF HandledUp
<1> QED
  BY <1>1, <1>2 DEF Handled

\* Handling both is handling s and then, from there, t.
InTurn(st, type, s, t, both, denied, u, v, w) ==
  HandleFrames(st, type, both, denied, w)
    = HandleFrames(HandleFrames(st, type, s, denied, u), type, t, denied, v)

\* Handling the packets of two reads is handling those of the first and then,
\* from there, those of the second.
LEMMA HandledOneByOne ==
  ASSUME NEW st, NEW type, NEW denied,
         NEW s \in Seq(Seq(Byte)), NEW t \in Seq(Seq(Byte)), NEW both, both = s \o t,
         NEW u \in Seq(Moments), NEW v \in Seq(Moments), NEW w, w = u \o v,
         Len(u) = Len(s), Len(v) = Len(t)
  PROVE  InTurn(st, type, s, t, both, denied, u, v, w)
<1> DEFINE mid == HandleFrames(st, type, s, denied, u)
<1>1. /\ Len(s) \in Nat /\ Len(t) \in Nat /\ Len(both) = Len(s) + Len(t)
      /\ \A i \in 1 .. Len(s) + Len(t) : both[i] = IF i <= Len(s) THEN s[i] ELSE t[i - Len(s)]
      /\ \A i \in 1 .. Len(s) + Len(t) : w[i] = IF i <= Len(s) THEN u[i] ELSE v[i - Len(s)]
  BY ConcatProperties, LenProperties
<1>2. PICK f : /\ Handled(f, st, type, both, denied, w)
               /\ HandleFrames(st, type, both, denied, w) = f[Len(both)]
  <2>1. Len(both) \in Nat
    BY <1>1
  <2>2. HandledUp(st, type, both, denied, w)
    BY <2>1, HandleFramesIs
  <2> QED
    BY <2>2 DEF HandledUp
<1>3. PICK g : /\ Handled(g, st, type, s, denied, u) /\ mid = g[Len(s)]
  <2>1. HandledUp(st, type, s, denied, u)
    BY <1>1, HandleFramesIs
  <2> QED
    BY <2>1 DEF HandledUp
<1> HIDE DEF mid
<1>4. PICK h : /\ Handled(h, mid, type, t, denied, v)
               /\ HandleFrames(mid, type, t, denied, v) = h[Len(t)]
  <2>1. HandledUp(mid, type, t, denied, v)
    BY <1>1, HandleFramesIs
  <2> QED
    BY <2>1 DEF HandledUp
<1> DEFINE T == {n \in Nat : n <= Len(s) => f[n] = g[n]}
           U == {n \in Nat : n <= Len(t) => f[Len(s) + n] = h[n]}
<1>5. 0 \in T
  BY <1>2, <1>3 DEF Handled
<1>6. ASSUME NEW n \in Nat, n \in T
      PROVE  n + 1 \in T
  <2>1. SUFFICES ASSUME n + 1 <= Len(s)
                 PROVE  f[n + 1] = g[n + 1]
    OBVIOUS
  <2>2. /\ n + 1 \in 1 .. Len(both) /\ n + 1 \in 1 .. Len(s) /\ (n + 1) - 1 = n
        /\ both[n + 1] = s[n + 1] /\ w[n + 1] = u[n + 1]
    BY <1>1, <2>1
  <2>3. f[n] = g[n]
    BY <1>1, <1>6, <2>1
  <2>4. f[n + 1] = HandlePacket(f[n], EventOf(type, both[n + 1]), denied, w[n + 1])
    BY <1>2, <2>2 DEF Handled
  <2>5. g[n + 1] = HandlePacket(g[n], EventOf(type, s[n + 1]), denied, u[n + 1])
    BY <1>3, <2>2 DEF Handled
  <2> QED
    BY <2>2, <2>3, <2>4, <2>5
<1>7. f[Len(s)] = mid
  <2> HIDE DEF T
  <2>1. Len(s) \in T
    BY <1>1, <1>5, <1>6, NatSetInduction
  <2> QED
    BY <1>1, <1>3, <2>1 DEF T
<1>8. 0 \in U
  BY <1>1, <1>4, <1>7, Len(s) + 0 = Len(s) DEF Handled
<1>9. ASSUME NEW n \in Nat, n \in U
      PROVE  n + 1 \in U
  <2>1. SUFFICES ASSUME n + 1 <= Len(t)
                 PROVE  f[Len(s) + (n + 1)] = h[n + 1]
    OBVIOUS
  <2> DEFINE i == Len(s) + (n + 1)
  <2>2. /\ i \in 1 .. Len(both) /\ n + 1 \in 1 .. Len(t) /\ (n + 1) - 1 = n
        /\ i - 1 = Len(s) + n /\ ~(i <= Len(s)) /\ i - Len(s) = n + 1
    BY <1>1, <2>1
  <2> HIDE DEF i
  <2>3. both[i] = t[n + 1] /\ w[i] = v[n + 1]
    BY <1>1, <2>2
  <2>4. f[i - 1] = h[n]
    BY <1>1, <1>9, <2>1, <2>2
  <2>5. f[i] = HandlePacket(f[i - 1], EventOf(type, both[i]), denied, w[i])
    BY <1>2, <2>2 DEF Handled
  <2>6. h[n + 1] = HandlePacket(h[n], EventOf(type, t[n + 1]), denied, v[n + 1])
    BY <1>4, <2>2 DEF Handled
  <2> QED
    BY <2>3, <2>4, <2>5, <2>6 DEF i
<1>10. f[Len(both)] = h[Len(t)]
  <2> HIDE DEF U
  <2>1. Len(t) \in U
    BY <1>1, <1>8, <1>9, NatSetInduction
  <2> QED
    BY <1>1, <2>1 DEF U
<1> QED
  BY <1>2, <1>4, <1>10 DEF mid, InTurn

\* What the handlers work on: records, whatever is in them.
IsState(st) ==
  \E usart, lockers, uid, told, tags : \E alive \in BOOLEAN :
    st = [extra |-> [usart |-> usart, lockers |-> lockers, uid |-> uid],
          reported |-> told, fetched |-> tags, alive |-> alive]

\* What an event adds to what has been told, and what it leaves of a barcode:
\* nothing else decides them.
Told(told, usart, event) ==
  CASE event \in {Nothing, Panic} -> told
    [] event \notin {Nothing, Panic} /\ event.kind = "usart" ->
         Tell(told, ParseBarcodes(usart \o event.bytes).frames)
    [] event \notin {Nothing, Panic} /\ event.kind = "tag" ->
         Append(told, [kind |-> "tag", uid |-> event.uid, auth |-> event.auth])
    [] OTHER -> Append(told, event)

Scanned(usart, event) ==
  IF event.kind = "usart" THEN ParseBarcodes(usart \o event.bytes).rest
  ELSE usart

\* A handler that leaves records behind, tells what the event tells and keeps
\* what it leaves of a barcode.
HandledAs(after, st, event) ==
  /\ IsState(after)
  /\ after.reported = Told(st.reported, st.extra.usart, event)
  /\ after.extra.usart = Scanned(st.extra.usart, event)
  /\ after.alive = (st.alive /\ event # Panic)

\* handlePocketSignal.
LEMMA SignalHandled ==
  ASSUME NEW st, IsState(st), NEW event, event.kind = "usart"
  PROVE  HandledAs(HandleSignal(st, event.bytes), st, event)
<1> DEFINE parsed == ParseBarcodes(st.extra.usart \o event.bytes)
           rest == parsed.rest
           told == Tell(st.reported, parsed.frames)
           after == HandleSignal(st, event.bytes)
<1>1. PICK usart, lockers, uid, old, tags, alive :
        /\ alive \in BOOLEAN
        /\ st = [extra |-> [usart |-> usart, lockers |-> lockers, uid |-> uid],
                 reported |-> old, fetched |-> tags, alive |-> alive]
  BY DEF IsState
<1>2. after = [st EXCEPT !.extra.usart = rest, !.reported = told]
  BY DEF HandleSignal
<1> HIDE DEF rest, told, after
<1>3. after = [extra |-> [usart |-> rest, lockers |-> lockers, uid |-> uid],
               reported |-> told, fetched |-> tags, alive |-> alive]
  BY <1>1, <1>2
<1>4. IsState(after) /\ after.reported = told /\ after.extra.usart = rest
  BY <1>1, <1>3 DEF IsState
<1>5. event \notin {Nothing, Panic}
  BY DEF Nothing, Panic
<1>6. told = Told(st.reported, st.extra.usart, event)
  BY <1>5 DEF told, Told
<1>7. rest = Scanned(st.extra.usart, event)
  BY DEF rest, Scanned
<1>8. after.alive = (st.alive /\ event # Panic)
  BY <1>1, <1>3, <1>5
<1> QED
  BY <1>4, <1>6, <1>7, <1>8 DEF HandledAs, after

\* ProcessTagRead, whether the tag is turned away or not.
LEMMA TagHandled ==
  ASSUME NEW st, IsState(st), NEW event, event.kind = "tag", NEW denied
  PROVE  HandledAs(HandleTag(st, event, denied), st, event)
<1> DEFINE kept == KeepLockers(st.extra, event)
           fetch == FetchLockers(kept, event.uid)
           seen == [kind |-> "tag", uid |-> event.uid, auth |-> event.auth]
           told == Append(st.reported, seen)
           more == st.fetched \cup {[uid |-> event.uid, lockers |-> fetch.lockers]}
           after == HandleTag(st, event, denied)
<1>1. PICK usart, lockers, uid, old, tags, alive :
        /\ alive \in BOOLEAN
        /\ st = [extra |-> [usart |-> usart, lockers |-> lockers, uid |-> uid],
                 reported |-> old, fetched |-> tags, alive |-> alive]
  BY DEF IsState
<1>2. PICK l, u : kept = [usart |-> usart, lockers |-> l, uid |-> u]
  <2>1. st.extra = [usart |-> usart, lockers |-> lockers, uid |-> uid]
    BY <1>1
  <2>2. CASE "lockers" \in DOMAIN event /\ event.lockers # <<>>
    <3>1. kept = [st.extra EXCEPT !.lockers = event.lockers, !.uid = event.uid]
      BY <2>2 DEF KeepLockers
    <3> DEFINE held == st.extra
               ls == event.lockers
               id == event.uid
    <3>2. kept = [held EXCEPT !.lockers = ls, !.uid = id]
      BY <3>1
    <3>3. held = [usart |-> usart, lockers |-> lockers, uid |-> uid]
      BY <2>1
    <3> HIDE DEF kept, held, ls, id
    <3>4. kept = [usart |-> usart, lockers |-> ls, uid |-> id]
      BY <3>2, <3>3
    <3> QED
      BY <3>4
  <2>3. CASE ~("lockers" \in DOMAIN event /\ event.lockers # <<>>)
    BY <2>1, <2>3 DEF KeepLockers
  <2> QED
    BY <2>2, <2>3
<1>3. after = IF event.uid \in denied
              THEN [st EXCEPT !.extra = kept, !.reported = told]
              ELSE [st EXCEPT !.extra = fetch.extra, !.reported = told, !.fetched = more]
  BY DEF HandleTag
<1>4. PICK m, v : fetch.extra = [usart |-> usart, lockers |-> m, uid |-> v]
  <2>1. CASE kept.lockers # <<>> /\ kept.uid = event.uid
    <3>1. fetch.extra = [kept EXCEPT !.lockers = <<>>, !.uid = 0]
      BY <2>1 DEF FetchLockers
    <3> HIDE DEF kept, fetch
    <3>2. fetch.extra = [usart |-> usart, lockers |-> <<>>, uid |-> 0]
      BY <1>2, <3>1
    <3> QED
      BY <3>2
  <2>2. CASE ~(kept.lockers # <<>> /\ kept.uid = event.uid)
    <3>1. fetch.extra = kept
      BY <2>2 DEF FetchLockers
    <3> HIDE DEF kept, fetch
    <3> QED
      BY <1>2, <3>1
  <2> QED
    BY <2>1, <2>2
<1>5. event \notin {Nothing, Panic} /\ told = Told(st.reported, st.extra.usart, event)
  <2>1. event \notin {Nothing, Panic}
    BY DEF Nothing, Panic
  <2> QED
    BY <2>1 DEF Told
<1>6. usart = Scanned(st.extra.usart, event)
  BY <1>1 DEF Scanned
<1> HIDE DEF kept, fetch, told, more, after
<1>7. CASE event.uid \in denied
  <2>1. after = [extra |-> [usart |-> usart, lockers |-> l, uid |-> u],
                 reported |-> told, fetched |-> tags, alive |-> alive]
    BY <1>1, <1>2, <1>3, <1>7
  <2>2. IsState(after) /\ after.reported = told /\ after.extra.usart = usart
    BY <1>1, <2>1 DEF IsState
  <2>3. after.alive = (st.alive /\ event # Panic)
    BY <1>1, <1>5, <2>1
  <2> QED
    BY <1>5, <1>6, <2>2, <2>3 DEF HandledAs, after
<1>8. CASE event.uid \notin denied
  <2>1. after = [extra |-> [usart |-> usart, lockers |-> m, uid |-> v],
                 reported |-> told, fetched |-> more, alive |-> alive]
    BY <1>1, <1>3, <1>4, <1>8
  <2>2. IsState(after) /\ after.reported = told /\ after.extra.usart = usart
    BY <1>1, <2>1 DEF IsState
  <2>3. after.alive = (st.alive /\ event # Panic)
    BY <1>1, <1>5, <2>1
  <2> QED
    BY <1>5, <1>6, <2>2, <2>3 DEF HandledAs, after
<1> QED
  BY <1>7, <1>8

\* What is told, and what is left of a barcode, does not depend on who is
\* turned away, nor on the lockers.
LEMMA EventHandled ==
  ASSUME NEW st, IsState(st), NEW event, NEW denied
  PROVE  HandledAs(HandleEvent(st, event, denied), st, event)
<1> DEFINE after == HandleEvent(st, event, denied)
           alive == st.alive /\ event # Panic
<1>1. CASE event = Nothing
  <2>1. event # Panic /\ event.kind # "usart" /\ event.kind # "tag"
    BY <1>1 DEF Nothing, Panic
  <2>2. after = st
    BY <1>1, <2>1 DEF HandleEvent
  <2>3. Told(st.reported, st.extra.usart, event) = st.reported
    BY <1>1 DEF Told
  <2>4. Scanned(st.extra.usart, event) = st.extra.usart
    BY <2>1 DEF Scanned
  <2>5. st.alive = alive
    BY <2>1 DEF IsState
  <2> QED
    BY <2>2, <2>3, <2>4, <2>5 DEF HandledAs
<1>2. CASE event.kind = "usart"
  <2>1. event # Nothing /\ event # Panic
    BY <1>2 DEF Nothing, Panic
  <2>2. after = HandleSignal(st, event.bytes)
    BY <1>2, <2>1 DEF HandleEvent
  <2> QED
    BY <1>2, <2>2, SignalHandled
<1>3. CASE event.kind = "tag"
  <2>1. event # Nothing /\ event # Panic
    BY <1>3 DEF Nothing, Panic
  <2>2. after = HandleTag(st, event, denied)
    BY <1>3, <2>1 DEF HandleEvent
  <2> QED
    BY <1>3, <2>2, TagHandled
<1>4. CASE event # Nothing /\ event.kind # "usart" /\ event.kind # "tag"
  <2> DEFINE told == IF event = Panic THEN st.reported ELSE Append(st.reported, event)
  <2>1. PICK usart, lockers, uid, old, tags, lives :
          /\ lives \in BOOLEAN
          /\ st = [extra |-> [usart |-> usart, lockers |-> lockers, uid |-> uid],
                   reported |-> old, fetched |-> tags, alive |-> lives]
    BY DEF IsState
  <2>2. after = [extra |-> [usart |-> usart, lockers |-> lockers, uid |-> uid],
                 reported |-> told, fetched |-> tags, alive |-> alive]
    <3>1. CASE event = Panic
      <4>1. after = [st EXCEPT !.alive = FALSE] /\ told = st.reported /\ alive = FALSE
        BY <1>4, <3>1 DEF HandleEvent
      <4> HIDE DEF told, after, alive
      <4> QED
        BY <2>1, <4>1
    <3>2. CASE event # Panic
      <4>1. after = [st EXCEPT !.reported = told] /\ alive = st.alive
        BY <1>4, <2>1, <3>2 DEF HandleEvent
      <4> HIDE DEF told, after, alive
      <4> QED
        BY <2>1, <4>1
    <3> QED
      BY <3>1, <3>2
  <2>3. told = Told(st.reported, st.extra.usart, event)
    BY <1>4 DEF Told
  <2>4. usart = Scanned(st.extra.usart, event)
    BY <1>4, <2>1 DEF Scanned
  <2>5. alive \in BOOLEAN
    OBVIOUS
  <2> HIDE DEF told, after, alive
  <2>6. /\ IsState(after) /\ after.reported = told /\ after.extra.usart = usart
        /\ after.alive = alive
    BY <2>2, <2>5 DEF IsState
  <2> QED
    BY <2>3, <2>4, <2>6 DEF HandledAs, after, alive
<1> QED
  BY <1>1, <1>2, <1>3, <1>4

\* What a packet adds to what has been told, and what it leaves of a barcode,
\* when the settings are replaced at that moment.
ToldThen(told, usart, event, moment) ==
  IF event.kind = "usart" /\ moment = "lost" THEN told ELSE Told(told, usart, event)

ScannedThen(usart, event, moment) ==
  IF moment \in {"no", "kept"} THEN Scanned(usart, event) ELSE <<>>

\* A packet handled: not at all by a daemon that has ended.
PacketHandledAs(after, st, event, moment) ==
  /\ IsState(after)
  /\ ~st.alive => after = st
  /\ st.alive =>
       /\ after.reported = ToldThen(st.reported, st.extra.usart, event, moment)
       /\ after.extra.usart = ScannedThen(st.extra.usart, event, moment)
       /\ after.alive = (event # Panic)

RenewedWith(st, usart) == [Renew(st) EXCEPT !.extra.usart = usart]

\* New settings, with these bytes in them, change nothing else.
LEMMA RenewedIs ==
  ASSUME NEW st, IsState(st), NEW usart
  PROVE  LET new == Renew(st)
             with == RenewedWith(st, usart)
         IN /\ IsState(new) /\ new.extra = NoExtra /\ new.reported = st.reported
            /\ new.alive = st.alive /\ new.fetched = st.fetched
            /\ IsState(with)
            /\ with.reported = st.reported /\ with.extra.usart = usart
            /\ with.alive = st.alive /\ with.fetched = st.fetched
            /\ with.extra.lockers = <<>>
<1> DEFINE new == Renew(st)
           with == RenewedWith(st, usart)
<1>1. PICK old, lockers, uid, told, tags, alive :
        /\ alive \in BOOLEAN
        /\ st = [extra |-> [usart |-> old, lockers |-> lockers, uid |-> uid],
                 reported |-> told, fetched |-> tags, alive |-> alive]
  BY DEF IsState
<1>2. new = [extra |-> [usart |-> <<>>, lockers |-> <<>>, uid |-> 0],
             reported |-> told, fetched |-> tags, alive |-> alive]
  BY <1>1 DEF Renew, NoExtra
<1>3. with = [extra |-> [usart |-> usart, lockers |-> <<>>, uid |-> 0],
              reported |-> told, fetched |-> tags, alive |-> alive]
  <2>1. with = [new EXCEPT !.extra.usart = usart]
    BY DEF RenewedWith
  <2> HIDE DEF new, with
  <2> QED
    BY <1>2, <2>1
<1> HIDE DEF new
<1> HIDE DEF with
<1>4. IsState(new) /\ IsState(with)
  BY <1>1, <1>2, <1>3 DEF IsState
<1>5. /\ new.extra = NoExtra /\ new.reported = st.reported
      /\ new.alive = st.alive /\ new.fetched = st.fetched
  BY <1>1, <1>2 DEF NoExtra
<1>6. /\ with.extra.lockers = <<>>
      /\ with.extra.usart = usart
      /\ with.reported = st.reported /\ with.alive = st.alive /\ with.fetched = st.fetched
  BY <1>1, <1>3
<1> QED
  BY <1>4, <1>5, <1>6 DEF new, with

\* What settings lost amid a packet leave to its handler.
LEMMA LosingHandled ==
  ASSUME NEW st, IsState(st), NEW event, NEW denied
  PROVE  LET after == HandleLosing(st, event, denied)
         IN /\ IsState(after)
            /\ after.reported = ToldThen(st.reported, st.extra.usart, event, "lost")
            /\ after.alive = (st.alive /\ event # Panic)
<1> DEFINE after == HandleLosing(st, event, denied)
<1>1. CASE event.kind = "usart"
  <2>1. after = st
    BY <1>1 DEF HandleLosing
  <2>2. ToldThen(st.reported, st.extra.usart, event, "lost") = st.reported
    BY <1>1 DEF ToldThen
  <2>3. st.alive = (st.alive /\ event # Panic)
    BY <1>1 DEF IsState, Panic
  <2> QED
    BY <2>1, <2>2, <2>3
<1>2. CASE event.kind = "tag"
  <2> DEFINE bare == [kind |-> "tag", uid |-> event.uid, auth |-> event.auth]
             new == Renew(st)
  <2>1. after = HandleTag(new, bare, denied)
    BY <1>2 DEF HandleLosing
  <2>2. IsState(new) /\ new.reported = st.reported /\ new.alive = st.alive
    BY RenewedIs
  <2> HIDE DEF new
  <2>3. HandledAs(HandleTag(new, bare, denied), new, bare)
    BY <2>2, TagHandled, bare.kind = "tag"
  <2>4. bare # Panic /\ event # Panic /\ bare # Nothing /\ event # Nothing
    <3>1. bare.kind = "tag"
      OBVIOUS
    <3> HIDE DEF bare
    <3> QED
      BY <1>2, <3>1 DEF Panic, Nothing
  <2>5. Told(new.reported, new.extra.usart, bare) = Told(st.reported, st.extra.usart, event)
    BY <1>2, <2>2, <2>4 DEF Told
  <2>6. ToldThen(st.reported, st.extra.usart, event, "lost")
          = Told(st.reported, st.extra.usart, event)
    BY <1>2 DEF ToldThen
  <2> HIDE DEF bare, after
  <2>7. (new.alive /\ bare # Panic) = (st.alive /\ event # Panic)
    BY <2>2, <2>4
  <2> QED
    BY <2>1, <2>3, <2>5, <2>6, <2>7 DEF HandledAs, after
<1>3. CASE event.kind # "usart" /\ event.kind # "tag"
  <2>1. after = HandleEvent(st, event, denied)
    BY <1>3 DEF HandleLosing
  <2>2. ToldThen(st.reported, st.extra.usart, event, "lost")
          = Told(st.reported, st.extra.usart, event)
    BY <1>3 DEF ToldThen
  <2>3. HandledAs(HandleEvent(st, event, denied), st, event)
    BY EventHandled
  <2> QED
    BY <2>1, <2>2, <2>3 DEF HandledAs
<1> QED
  BY <1>1, <1>2, <1>3

\* Nor does it depend on them when the settings are replaced.
LEMMA PacketHandled ==
  ASSUME NEW st, IsState(st), NEW event, NEW denied, NEW moment
  PROVE  PacketHandledAs(HandlePacket(st, event, denied, moment), st, event, moment)
<1> DEFINE after == HandlePacket(st, event, denied, moment)
           whole == HandleEvent(st, event, denied)
           losing == HandleLosing(st, event, denied)
<1>1. st.alive \in BOOLEAN
  BY DEF IsState
<1>2. CASE ~st.alive
  <2>1. after = st
    BY <1>2 DEF HandlePacket
  <2> HIDE DEF after
  <2> QED
    BY <1>2, <2>1 DEF PacketHandledAs, after
<1>3. CASE st.alive
  <2>1. /\ IsState(whole)
        /\ whole.reported = Told(st.reported, st.extra.usart, event)
        /\ whole.extra.usart = Scanned(st.extra.usart, event)
        /\ whole.alive = (event # Panic)
    <3>1. HandledAs(whole, st, event)
      BY EventHandled
    <3> HIDE DEF whole
    <3> QED
      BY <1>3, <3>1 DEF HandledAs
  <2>2. /\ IsState(losing) /\ losing.alive = (event # Panic)
        /\ losing.reported = ToldThen(st.reported, st.extra.usart, event, "lost")
    <3>1. losing.alive = (st.alive /\ event # Panic)
      BY LosingHandled
    <3>2. IsState(losing) /\ losing.reported = ToldThen(st.reported, st.extra.usart, event, "lost")
      BY LosingHandled
    <3> HIDE DEF losing
    <3> QED
      BY <1>3, <3>1, <3>2
  <2> DEFINE Goal == /\ IsState(after)
                     /\ after.reported = ToldThen(st.reported, st.extra.usart, event, moment)
                     /\ after.extra.usart = ScannedThen(st.extra.usart, event, moment)
                     /\ after.alive = (event # Panic)
  <2>3. ASSUME moment = "no"
        PROVE  Goal
    <3>1. after = whole
      BY <1>3, <2>3 DEF HandlePacket
    <3> HIDE DEF after, whole
    <3> QED
      BY <2>1, <2>3, <3>1 DEF ToldThen, ScannedThen
  <2>4. ASSUME moment = "kept"
        PROVE  Goal
    <3> DEFINE u == whole.extra.usart
    <3>1. after = RenewedWith(whole, u)
      BY <1>3, <2>4 DEF HandlePacket, RenewedWith
    <3> HIDE DEF whole, after
    <3>2. /\ IsState(after) /\ after.reported = whole.reported
          /\ after.extra.usart = u /\ after.alive = whole.alive
      <4> HIDE DEF u
      <4>1. IsState(whole)
        BY <2>1
      <4>2. /\ IsState(RenewedWith(whole, u)) /\ RenewedWith(whole, u).reported = whole.reported
            /\ RenewedWith(whole, u).extra.usart = u
            /\ RenewedWith(whole, u).alive = whole.alive
        BY <4>1, RenewedIs
      <4> QED
        BY <3>1, <4>2
    <3> QED
      BY <2>1, <2>4, <3>2 DEF ToldThen, ScannedThen
  <2>5. ASSUME moment = "lost"
        PROVE  Goal
    <3>1. after = Renew(losing)
      BY <1>3, <2>5 DEF HandlePacket
    <3> HIDE DEF losing, after
    <3>2. /\ IsState(after) /\ after.reported = losing.reported
          /\ after.extra = NoExtra /\ after.alive = losing.alive
      BY <2>2, <3>1, RenewedIs
    <3> QED
      BY <2>2, <2>5, <3>2 DEF ScannedThen, NoExtra
  <2>6. ASSUME moment \notin {"no", "kept", "lost"}
        PROVE  Goal
    <3>1. after = Renew(whole)
      BY <1>3, <2>6 DEF HandlePacket
    <3> HIDE DEF whole, after
    <3>2. /\ IsState(after) /\ after.reported = whole.reported
          /\ after.extra = NoExtra /\ after.alive = whole.alive
      BY <2>1, <3>1, RenewedIs
    <3> QED
      BY <2>1, <2>6, <3>2 DEF ToldThen, ScannedThen, NoExtra
  <2>7. Goal
    BY <2>3, <2>4, <2>5, <2>6
  <2> HIDE DEF after
  <2> QED
    BY <1>3, <2>7 DEF PacketHandledAs, after
<1> QED
  BY <1>1, <1>2, <1>3

\* The same has been told, and the same is left of a barcode; both daemons run,
\* or neither.
SameTold(a, b) ==
  /\ a.reported = b.reported /\ a.extra.usart = b.extra.usart
  /\ a.alive = b.alive

\* So it stays, whoever is turned away, while the same packets are handled.
LEMMA SameHandled ==
  ASSUME NEW a, NEW b, IsState(a), IsState(b), SameTold(a, b),
         NEW type, NEW frames, Len(frames) \in Nat, NEW d, NEW e, NEW moments
  PROVE  LET x == HandleFrames(a, type, frames, d, moments)
             y == HandleFrames(b, type, frames, e, moments)
         IN IsState(x) /\ IsState(y) /\ SameTold(x, y)
<1> DEFINE x == HandleFrames(a, type, frames, d, moments)
           y == HandleFrames(b, type, frames, e, moments)
<1>1. PICK f : Handled(f, a, type, frames, d, moments) /\ x = f[Len(frames)]
  <2>1. HandledUp(a, type, frames, d, moments)
    BY HandleFramesIs
  <2> QED
    BY <2>1 DEF HandledUp
<1>2. PICK g : Handled(g, b, type, frames, e, moments) /\ y = g[Len(frames)]
  <2>1. HandledUp(b, type, frames, e, moments)
    BY HandleFramesIs
  <2> QED
    BY <2>1 DEF HandledUp
<1> HIDE DEF x, y
<1> DEFINE Ok(n) == IsState(f[n]) /\ IsState(g[n]) /\ SameTold(f[n], g[n])
           T == {n \in Nat : n <= Len(frames) => Ok(n)}
<1>3. 0 \in T
  BY <1>1, <1>2 DEF Handled
<1>4. ASSUME NEW n \in Nat, n \in T
      PROVE  n + 1 \in T
  <2>1. SUFFICES ASSUME n + 1 <= Len(frames)
                 PROVE  Ok(n + 1)
    OBVIOUS
  <2> DEFINE event == EventOf(type, frames[n + 1])
             moment == moments[n + 1]
  <2>2. n + 1 \in 1 .. Len(frames) /\ (n + 1) - 1 = n /\ n <= Len(frames)
    BY <2>1
  <2>3. IsState(f[n]) /\ IsState(g[n]) /\ SameTold(f[n], g[n])
    BY <1>4, <2>2
  <2>4. f[n + 1] = HandlePacket(f[n], event, d, moment)
    BY <1>1, <2>2 DEF Handled
  <2>5. g[n + 1] = HandlePacket(g[n], event, e, moment)
    BY <1>2, <2>2 DEF Handled
  <2> HIDE DEF event, moment
  <2>6. PacketHandledAs(f[n + 1], f[n], event, moment)
    BY <2>3, <2>4, PacketHandled
  <2>7. PacketHandledAs(g[n + 1], g[n], event, moment)
    BY <2>3, <2>5, PacketHandled
  <2>8. f[n].alive \in BOOLEAN
    BY <2>3 DEF IsState
  <2>9. CASE f[n].alive
    BY <2>3, <2>6, <2>7, <2>9 DEF PacketHandledAs, SameTold
  <2>10. CASE ~f[n].alive
    BY <2>3, <2>6, <2>7, <2>10 DEF PacketHandledAs, SameTold
  <2> QED
    BY <2>8, <2>9, <2>10
<1>5. Len(frames) \in T
  <2> HIDE DEF T
  <2> QED
    BY <1>3, <1>4, NatSetInduction
<1>6. Ok(Len(frames))
  BY <1>5
<1>7. IsState(x) /\ IsState(y) /\ SameTold(x, y)
  BY <1>1, <1>2, <1>6
<1> QED
  BY <1>7 DEF x, y

\* Nothing is cut off an empty buffer.
LEMMA NothingToCut ==
  ASSUME NEW type \in Patient
  PROVE  Frames(type, <<>>).frames = <<>> /\ Frames(type, <<>>).rest = <<>>
<1> DEFINE round == RoundOf(type, <<>>)
           at == CutFrom(round, 0)
<1>1. <<>> \in Seq(Byte) /\ Len(<<>>) = 0
  BY EmptySeq
<1>2. IsRound(round, 0, Seq(Byte)) /\ LeavesWhereItStands(round, 0)
  BY <1>1, RoundsAreRounds
<1>3. 1 \in 1 .. 0 + 1 /\ \A i \in 1 .. 0 + 1 : i = 1
  OBVIOUS
<1>4. round[1].then # "again"
  BY <1>2, <1>3 DEF IsRound
<1> HIDE DEF round
<1>5. Stops(at, round, 1)
  <2>1. round[1].then # "again" => Stops(CutFrom(round, 0), round, 1)
    BY <1>2, <1>3, CutFromIs, 0 \in Nat
  <2> QED
    BY <1>4, <2>1
<1>6. at[1].frames = <<>> /\ at[1].next = 1
  BY <1>2, <1>3, <1>4, <1>5 DEF Stops, LeavesWhereItStands
<1> HIDE DEF at
<1>7. /\ CutUp(<<>>, round).frames = at[1].frames
      /\ CutUp(<<>>, round).rest = SubSeq(<<>>, at[1].next, 0)
  BY <1>1 DEF CutUp, at
<1>8. SubSeq(<<>>, 1, 0) = <<>>
  BY SubSeqEmpty
<1> QED
  BY <1>6, <1>7, <1>8 DEF Frames, round

\* Settings replaced after the last packet: they are empty, and nothing else has
\* changed.
LEMMA LastRenewed ==
  ASSUME NEW st, IsState(st), NEW type, NEW frames, Len(frames) \in Nat \ {0}, NEW d,
         NEW m, NEW after, \A n \in 1 .. Len(frames) - 1 : after[n] = m[n],
         after[Len(frames)] = IF m[Len(frames)] = "lost" THEN "lost" ELSE "after",
         HandleFrames(st, type, frames, d, m).alive
  PROVE  LET x == HandleFrames(st, type, frames, d, m)
             y == HandleFrames(st, type, frames, d, after)
         IN IsState(y) /\ y.alive /\ y.reported = x.reported /\ y.extra.usart = <<>>
<1> DEFINE L == Len(frames)
           k == L - 1
           x == HandleFrames(st, type, frames, d, m)
           y == HandleFrames(st, type, frames, d, after)
<1>1. PICK f : Handled(f, st, type, frames, d, m) /\ x = f[L]
  <2>1. HandledUp(st, type, frames, d, m)
    BY HandleFramesIs
  <2> QED
    BY <2>1 DEF HandledUp
<1>2. PICK g : Handled(g, st, type, frames, d, after) /\ y = g[L]
  <2>1. HandledUp(st, type, frames, d, after)
    BY HandleFramesIs
  <2> QED
    BY <2>1 DEF HandledUp
<1>3. x.alive
  OBVIOUS
<1> HIDE DEF x, y
<1> DEFINE T == {n \in Nat : n <= k => f[n] = g[n] /\ IsState(f[n])}
<1>4. 0 \in T
  BY <1>1, <1>2 DEF Handled
<1>5. ASSUME NEW n \in Nat, n \in T
      PROVE  n + 1 \in T
  <2>1. SUFFICES ASSUME n + 1 <= k
                 PROVE  f[n + 1] = g[n + 1] /\ IsState(f[n + 1])
    OBVIOUS
  <2> DEFINE event == EventOf(type, frames[n + 1])
             moment == m[n + 1]
  <2>2. n + 1 \in 1 .. L /\ n + 1 \in 1 .. L - 1 /\ (n + 1) - 1 = n /\ n <= k
    BY <2>1
  <2>3. f[n] = g[n] /\ IsState(f[n])
    BY <1>5, <2>2
  <2>4. f[n + 1] = HandlePacket(f[n], event, d, moment)
    BY <1>1, <2>2 DEF Handled
  <2>5. g[n + 1] = HandlePacket(g[n], event, d, moment)
    BY <1>2, <2>2 DEF Handled
  <2> HIDE DEF event, moment
  <2>6. PacketHandledAs(f[n + 1], f[n], event, moment)
    BY <2>3, <2>4, PacketHandled
  <2> QED
    BY <2>3, <2>4, <2>5, <2>6 DEF PacketHandledAs
<1>6. k \in T /\ k \in Nat
  <2> HIDE DEF T
  <2>1. k \in Nat
    OBVIOUS
  <2> QED
    BY <1>4, <1>5, <2>1, NatSetInduction
<1>7. f[k] = g[k] /\ IsState(f[k])
  BY <1>6
<1> DEFINE event == EventOf(type, frames[L])
           was == m[L]
           is == after[L]
<1>8. x = HandlePacket(f[k], event, d, was) /\ y = HandlePacket(f[k], event, d, is)
  <2>1. L \in 1 .. L /\ L - 1 = k
    OBVIOUS
  <2> QED
    BY <1>1, <1>2, <1>7, <2>1 DEF Handled
<1>9. is = IF was = "lost" THEN "lost" ELSE "after"
  OBVIOUS
<1> HIDE DEF event, was, is, k
<1>10. PacketHandledAs(x, f[k], event, was) /\ PacketHandledAs(y, f[k], event, is)
  BY <1>7, <1>8, PacketHandled
<1>11. f[k].alive \in BOOLEAN
  BY <1>7 DEF IsState
<1>12. f[k].alive
  <2>1. ~f[k].alive => x = f[k]
    BY <1>10 DEF PacketHandledAs
  <2> QED
    BY <1>3, <2>1
<1>13. /\ x.reported = ToldThen(f[k].reported, f[k].extra.usart, event, was)
       /\ y.reported = ToldThen(f[k].reported, f[k].extra.usart, event, is)
       /\ y.extra.usart = ScannedThen(f[k].extra.usart, event, is) /\ IsState(y)
       /\ x.alive = (event # Panic) /\ y.alive = (event # Panic)
  BY <1>10, <1>12 DEF PacketHandledAs
<1>14. y.alive
  BY <1>3, <1>13
<1>15. y.reported = x.reported
  <2>1. ToldThen(f[k].reported, f[k].extra.usart, event, was)
          = ToldThen(f[k].reported, f[k].extra.usart, event, is)
    BY <1>9 DEF ToldThen
  <2> QED
    BY <1>13, <2>1
<1>16. y.extra.usart = <<>>
  BY <1>9, <1>13 DEF ScannedThen
<1> QED
  BY <1>13, <1>14, <1>15, <1>16 DEF x, y

\* The moments of packets are a sequence as long as that of the packets.
LEMMA MomentsAreSeq ==
  ASSUME NEW type, NEW S, NEW frames \in Seq(S), NEW during \in MomentsAmong(type, frames)
  PROVE  during \in Seq(Moments) /\ Len(during) = Len(frames)
<1>1. during \in [DOMAIN frames -> Moments]
  <2>1. "no" \in Moments
    BY DEF Moments
  <2> QED
    BY <2>1 DEF MomentsAmong
<1>2. DOMAIN frames = 1 .. Len(frames) /\ Len(frames) \in Nat
  BY LenProperties
<1>3. during \in [1 .. Len(frames) -> Moments]
  BY <1>1, <1>2
<1>4. during \in Seq(Moments)
  BY <1>2, <1>3, SeqDef
<1>5. DOMAIN during = 1 .. Len(frames) /\ Len(during) \in Nat /\ DOMAIN during = 1 .. Len(during)
  BY <1>3, <1>4, LenProperties
<1> QED
  BY <1>2, <1>4, <1>5

\* Replaced settings change the last entry only.
LEMMA ReplacedNowIs ==
  ASSUME replaced \in Seq(Moments)
  PROVE  /\ ReplacedNow \in Seq(Moments) /\ Len(ReplacedNow) = Len(replaced)
         /\ \A n \in 1 .. Len(replaced) - 1 : ReplacedNow[n] = replaced[n]
         /\ Len(replaced) > 0 =>
              ReplacedNow[Len(replaced)]
                = IF replaced[Len(replaced)] = "lost" THEN "lost" ELSE "after"
<1> DEFINE L == Len(replaced)
           changed == [replaced EXCEPT ![L] = "after"]
<1>1. L \in Nat /\ DOMAIN replaced = 1 .. L /\ replaced \in [1 .. L -> Moments]
  BY LenProperties
<1>2. L = 0 <=> replaced = <<>>
  BY EmptySeq, LenProperties
<1>3. L > 0 => Last(replaced) = replaced[L]
  BY DEF Last
<1>4. CASE replaced = <<>> \/ Last(replaced) = "lost"
  <2>1. ReplacedNow = replaced
    BY <1>4 DEF ReplacedNow
  <2> QED
    BY <1>1, <1>2, <1>3, <1>4, <2>1
<1>5. CASE ~(replaced = <<>> \/ Last(replaced) = "lost")
  <2>1. ReplacedNow = changed
    BY <1>5 DEF ReplacedNow
  <2>2. L > 0 /\ replaced[L] # "lost" /\ L \in 1 .. L
    BY <1>1, <1>2, <1>3, <1>5
  <2>3. changed \in [1 .. L -> Moments] /\ changed[L] = "after"
        /\ \A n \in 1 .. L - 1 : changed[n] = replaced[n]
    <3>1. "after" \in Moments
      BY DEF Moments
    <3>2. \A n \in 1 .. L - 1 : n \in 1 .. L /\ n # L
      <4>1. \A m \in Nat : \A n \in 1 .. m - 1 : n \in 1 .. m /\ n # m
        OBVIOUS
      <4>2. L \in Nat
        BY <1>1
      <4> HIDE DEF L
      <4> QED
        BY <4>1, <4>2
    <3>3. replaced \in [1 .. L -> Moments] /\ L \in 1 .. L
      BY <1>1, <2>2
    <3> HIDE DEF L
    <3>4. changed \in [1 .. L -> Moments]
      BY <3>1, <3>3
    <3>5. changed[L] = "after"
      BY <3>3
    <3>6. \A n \in 1 .. L - 1 : changed[n] = replaced[n]
      BY <3>2, <3>3
    <3> QED
      BY <3>4, <3>5, <3>6
  <2>4. changed \in Seq(Moments) /\ DOMAIN changed = 1 .. L
    BY <1>1, <2>3, SeqDef, ZenonT(30)
  <2>5. Len(changed) = L
    BY <1>1, <2>4, LenProperties
  <2> QED
    BY <2>1, <2>2, <2>3, <2>4, <2>5
<1> QED
  BY <1>4, <1>5

\* The settings were attached in time, to a terminal whose loop ends.
Timely ==
  attached = "first" /\ conversation.by = "list" /\ conversation.type # "jsp"

\* What a reader that got all bytes at once would cut off and tell.
AtOnce == Frames(conversation.type, SubSeq(Stream, 1, received))
Start == [extra |-> NoExtra, reported |-> <<>>, fetched |-> {}, alive |-> TRUE]
ToldAtOnce == HandleFrames(Start, conversation.type, AtOnce.frames, {}, replaced)

\* The invariant that CutsDoNotMatter needs: nothing is kept or told before a
\* byte was read, and the reader in time knows the type.
CutsInv ==
  /\ conversation \in Conversations
  /\ received \in 0 .. Len(Stream)
  /\ attached \in {"never", "first", "late"}
  /\ received = 0 => buffer = <<>> /\ reported = <<>> /\ replaced = <<>>
  /\ Timely =>
       /\ settings = conversation.type /\ IsState(Now)
       /\ buffer = AtOnce.rest /\ SameTold(Now, ToldAtOnce)
       /\ replaced \in Seq(Moments) /\ Len(replaced) = Len(AtOnce.frames)

\* It says what CutsDoNotMatter says.
LEMMA CutsInvImplies == CutsInv => CutsDoNotMatter
<1> SUFFICES ASSUME CutsInv
             PROVE  CutsDoNotMatter
  OBVIOUS
<1>1. Timely => /\ buffer = AtOnce.rest /\ SameTold(Now, ToldAtOnce)
                /\ Len(replaced) = Len(AtOnce.frames)
  BY DEF CutsInv
<1>2. Now.reported = reported /\ Now.extra = extra /\ Now.alive = (reader # "panicked")
  BY DEF Now
<1>3. Timely => /\ buffer = AtOnce.rest /\ Len(replaced) = Len(AtOnce.frames)
                /\ reported = ToldAtOnce.reported /\ extra.usart = ToldAtOnce.extra.usart
                /\ ToldAtOnce.alive = (reader # "panicked")
  BY <1>1, <1>2 DEF SameTold
<1> QED
  BY <1>3 DEF CutsDoNotMatter, Timely, AtOnce, ToldAtOnce, Start

\* Before a byte is read there is nothing to cut and nothing told.
LEMMA CutsInvInit == Init => CutsInv
<1> SUFFICES ASSUME Init
             PROVE  CutsInv
  OBVIOUS
<1>1. conversation \in Conversations /\ received = 0 /\ attached = "never"
  BY DEF Init
<1>2. Len(Stream) \in Nat
  BY <1>1, TerminalsAreTyped, TerminalsSendBytes, LenProperties DEF Stream
<1>3. ~Timely
  BY <1>1 DEF Timely
<1> QED
  BY <1>1, <1>2, <1>3 DEF CutsInv, Init

\* The list comes in time only before the first byte; when it comes again, it
\* leaves what one read would have left of settings replaced by now.
LEMMA CutsInvAttach == CutsInv /\ Attach => CutsInv'
<1> SUFFICES ASSUME CutsInv, Attach
             PROVE  CutsInv'
  OBVIOUS
<1>1. /\ conversation' = conversation /\ received' = received /\ buffer' = buffer
      /\ reported' = reported /\ fetched' = fetched /\ reader' = reader
      /\ reader # "panicked" /\ attached' = AttachedFirst
  BY DEF Attach
<1>2. Stream' = Stream /\ AtOnce' = AtOnce
  BY <1>1 DEF Stream, AtOnce
<1>3. attached' \in {"never", "first", "late"}
  BY <1>1 DEF CutsInv, AttachedFirst
<1>4. received = 0 => replaced' = <<>>
  BY DEF CutsInv, Attach, ReplacedNow
<1>5. ASSUME Timely'
      PROVE  /\ settings' = conversation'.type /\ IsState(Now')
             /\ buffer' = AtOnce'.rest /\ SameTold(Now', ToldAtOnce')
             /\ replaced' \in Seq(Moments) /\ Len(replaced') = Len(AtOnce'.frames)
  <2>1. /\ conversation.by = "list" /\ conversation.type # "jsp"
        /\ attached = "first" \/ received = 0
    BY <1>1, <1>5 DEF Timely, AttachedFirst
  <2>2. conversation.type \in Patient
    BY <2>1, TerminalsAreTyped, TerminalsSendBytes DEF CutsInv, Patient, Types
  <2>3. settings' = conversation.type /\ extra' = NoExtra /\ replaced' = ReplacedNow
    BY <2>1 DEF Attach
  <2>4. Now' = [extra |-> NoExtra, reported |-> reported, fetched |-> fetched, alive |-> TRUE]
    BY <1>1, <2>3 DEF Now
  <2>5. IsState(Now')
    BY <2>4 DEF IsState, NoExtra
  <2>6. Now'.reported = reported /\ Now'.extra.usart = <<>> /\ Now'.alive = TRUE
    BY <2>4 DEF NoExtra
  <2>7. ToldAtOnce' = HandleFrames(Start, conversation.type, AtOnce.frames, {}, replaced')
    BY <1>1, <1>2 DEF ToldAtOnce, Start
  <2>8. /\ buffer = AtOnce.rest /\ replaced \in Seq(Moments)
        /\ Len(replaced) = Len(AtOnce.frames)
        /\ reported = ToldAtOnce.reported /\ ToldAtOnce.alive = TRUE
    <3>1. CASE received = 0
      <4>1. buffer = <<>> /\ reported = <<>> /\ replaced = <<>>
        BY <3>1 DEF CutsInv
      <4>2. SubSeq(Stream, 1, 0) = <<>>
        BY SubSeqEmpty
      <4>3. AtOnce = Frames(conversation.type, <<>>)
        BY <3>1, <4>2 DEF AtOnce
      <4>4. AtOnce.frames = <<>> /\ AtOnce.rest = <<>>
        BY <2>2, <4>3, NothingToCut
      <4>5. ToldAtOnce = Start
        BY <4>4, NothingToHandle DEF ToldAtOnce
      <4>6. Start.reported = <<>> /\ Start.alive = TRUE
        BY DEF Start
      <4>7. replaced \in Seq(Moments)
        BY <4>1, EmptySeq
      <4> QED
        BY <4>1, <4>4, <4>5, <4>6, <4>7
    <3>2. CASE attached = "first"
      <4>1. Timely
        BY <2>1, <3>2 DEF Timely
      <4>2. /\ buffer = AtOnce.rest /\ replaced \in Seq(Moments)
            /\ Len(replaced) = Len(AtOnce.frames) /\ SameTold(Now, ToldAtOnce)
        BY <4>1 DEF CutsInv
      <4>3. Now.reported = reported /\ Now.alive = TRUE
        BY <1>1 DEF Now
      <4> QED
        BY <4>2, <4>3 DEF SameTold
    <3> QED
      BY <2>1, <3>1, <3>2
  <2>9. /\ ReplacedNow \in Seq(Moments) /\ Len(ReplacedNow) = Len(replaced)
        /\ \A n \in 1 .. Len(replaced) - 1 : ReplacedNow[n] = replaced[n]
        /\ Len(replaced) > 0 =>
             ReplacedNow[Len(replaced)]
               = IF replaced[Len(replaced)] = "lost" THEN "lost" ELSE "after"
    BY <2>8, ReplacedNowIs
  <2>10. Len(replaced) \in Nat
    BY <2>8, LenProperties
  <2>11. /\ ToldAtOnce'.reported = reported /\ ToldAtOnce'.extra.usart = <<>>
         /\ ToldAtOnce'.alive = TRUE
    <3>1. CASE Len(replaced) = 0
      <4>1. AtOnce.frames \in Seq(Seq(Byte))
        <5>1. SubSeq(Stream, 1, received) \in Seq(Byte)
          <6>1. Stream \in Seq(Byte) /\ received \in 0 .. Len(Stream)
            BY TerminalsAreTyped, TerminalsSendBytes DEF CutsInv, Stream
          <6>2. \A i \in 1 .. received : Stream[i] \in Byte
            BY <6>1, ElementOfSeq, LenProperties
          <6>3. Len(Stream) \in Nat
            BY <6>1, LenProperties
          <6> QED
            BY <6>1, <6>2, <6>3, SubSeqProperties
        <5> QED
          BY <2>2, <5>1, RoundsAreRounds, CutUpIs DEF AtOnce, Frames
      <4>2. AtOnce.frames = <<>>
        BY <2>8, <3>1, <4>1, EmptySeq
      <4>3. ToldAtOnce = Start /\ ToldAtOnce' = Start
        BY <2>7, <4>2, NothingToHandle DEF ToldAtOnce
      <4> QED
        BY <2>8, <4>3 DEF Start, NoExtra
    <3>2. CASE Len(replaced) > 0
      <4> DEFINE x == AtOnce.frames
                 y == ReplacedNow
                 ty == conversation.type
      <4>1. /\ Len(x) = Len(replaced) /\ ToldAtOnce = HandleFrames(Start, ty, x, {}, replaced)
            /\ ToldAtOnce' = HandleFrames(Start, ty, x, {}, y)
        BY <2>3, <2>7, <2>8 DEF ToldAtOnce
      <4>2. IsState(Start)
        BY DEF IsState, Start, NoExtra
      <4>3. \A n \in 1 .. Len(x) - 1 : y[n] = replaced[n]
        BY <2>9, <4>1
      <4>4. y[Len(x)] = IF replaced[Len(x)] = "lost" THEN "lost" ELSE "after"
        BY <2>9, <3>2, <4>1
      <4>5. Len(x) \in Nat \ {0}
        BY <2>10, <3>2, <4>1
      <4>6. HandleFrames(Start, ty, x, {}, replaced).alive
        BY <2>8, <4>1
      <4> HIDE DEF x, y, ty
      <4>7. LET now == HandleFrames(Start, ty, x, {}, y)
            IN /\ now.alive /\ now.extra.usart = <<>> /\ IsState(now)
               /\ now.reported = HandleFrames(Start, ty, x, {}, replaced).reported
        BY <4>2, <4>3, <4>4, <4>5, <4>6, LastRenewed
      <4>8. ToldAtOnce'.alive \in BOOLEAN
        BY <4>1, <4>7 DEF IsState
      <4> QED
        BY <2>8, <4>1, <4>7, <4>8
    <3>3. Len(replaced) = 0 \/ Len(replaced) > 0
      BY <2>10
    <3> QED
      BY <3>1, <3>2, <3>3
  <2>12. SameTold(Now', ToldAtOnce')
    BY <2>6, <2>11 DEF SameTold
  <2> QED
    BY <1>1, <1>2, <2>3, <2>5, <2>8, <2>9, <2>12
<1> QED
  BY <1>1, <1>2, <1>3, <1>4, <1>5 DEF CutsInv

\* A read of a reader in time goes on with what the reads before it have left.
LEMMA CutsInvRead ==
  ASSUME CutsInv, NEW n \in ReadSizes, NEW denied \in Denials, Read(n, denied)
  PROVE  CutsInv'
<1> DEFINE buf == buffer \o SubSeq(Stream, received + 1, received + n)
<1>1. /\ conversation' = conversation /\ received' = received + n
      /\ received + n <= Len(Stream) /\ attached' \in {attached, "late"}
  BY DEF Read
<1>2. n \in Nat \ {0} /\ Stream \in Seq(Byte) /\ Len(Stream) \in Nat /\ Stream' = Stream
      /\ received \in Nat
  <2>1. n \in Nat \ {0}
    BY ReadsFillTheBuffer
  <2>2. Stream \in Seq(Byte)
    BY TerminalsAreTyped, TerminalsSendBytes DEF CutsInv, Stream
  <2>3. Len(Stream) \in Nat
    BY <2>2, LenProperties
  <2> QED
    BY <1>1, <2>1, <2>2, <2>3 DEF CutsInv, Stream
<1>3. received' \in 0 .. Len(Stream) /\ received' # 0
  BY <1>1, <1>2
<1>4. ASSUME Timely'
      PROVE  /\ settings' = conversation'.type /\ IsState(Now')
             /\ buffer' = AtOnce'.rest /\ SameTold(Now', ToldAtOnce')
             /\ replaced' \in Seq(Moments) /\ Len(replaced') = Len(AtOnce'.frames)
  <2> DEFINE type == conversation.type
             a == SubSeq(Stream, 1, received)
             b == SubSeq(Stream, received + 1, received + n)
             more == Frames(type, AtOnce.rest \o b)
  <2>1. Timely
    BY <1>1, <1>4 DEF Timely
  <2>2. /\ settings = type /\ IsState(Now) /\ buffer = AtOnce.rest
        /\ SameTold(Now, ToldAtOnce)
        /\ replaced \in Seq(Moments) /\ Len(replaced) = Len(AtOnce.frames)
    BY <2>1 DEF CutsInv
  <2>3. type \in Patient /\ type # NoType
    BY <2>1, TerminalsAreTyped, TerminalsSendBytes DEF CutsInv, Timely, Patient, Types, NoType
  <2>4. /\ a \in Seq(Byte) /\ b \in Seq(Byte)
        /\ a \o b = SubSeq(Stream, 1, received + n)
    <3>1. 1 \in 1 .. Len(Stream) + 1 /\ received \in 1 - 1 .. Len(Stream)
          /\ received + n \in received .. Len(Stream)
      BY <1>1, <1>2
    <3>2. \A p \in 1 .. Len(Stream) : Stream[p] \in Byte
      BY <1>2, ElementOfSeq
    <3>3. \A p, q \in Int : p >= 1 /\ q <= Len(Stream) => SubSeq(Stream, p, q) \in Seq(Byte)
      <4>1. SUFFICES ASSUME NEW p \in Int, NEW q \in Int, p >= 1, q <= Len(Stream)
                     PROVE  SubSeq(Stream, p, q) \in Seq(Byte)
        OBVIOUS
      <4>2. \A i \in p .. q : Stream[i] \in Byte
        BY <1>2, <3>2, <4>1
      <4> QED
        BY <4>2, SubSeqProperties
    <3>4. a \in Seq(Byte) /\ b \in Seq(Byte)
      BY <1>1, <1>2, <3>3
    <3>5. a \o b = SubSeq(Stream, 1, received + n)
      BY <1>2, <3>1, ConcatAdjacentSubSeq
    <3> QED
      BY <3>4, <3>5
  <2>5. Detect(buf) = type
    BY <2>2, <2>3 DEF Detect
  <2>6. PICK during \in MomentsAmong(type, more.frames) :
          LET after == HandleFrames(Now, type, more.frames, denied, during)
          IN /\ settings' = type /\ buffer' = more.rest /\ extra' = after.extra
             /\ reported' = after.reported /\ fetched' = after.fetched
             /\ reader' = IF after.alive THEN more.reader ELSE "panicked"
             /\ replaced' = replaced \o during
    <3>1. Detect(buf) # NoType =>
            LET cut == Frames(Detect(buf), buf)
            IN /\ buffer' = cut.rest
               /\ \E during \in MomentsAmong(Detect(buf), cut.frames) :
                    LET last == HandleFrames(Now, Detect(buf), cut.frames, denied, during)
                    IN /\ settings' \in {conversation.type, Detect(buf)}
                       /\ reader' = IF last.alive THEN cut.reader ELSE "panicked"
                       /\ extra' = last.extra /\ reported' = last.reported
                       /\ fetched' = last.fetched /\ replaced' = replaced \o during
      BY DEF Read
    <3>2. buf = AtOnce.rest \o b
      BY <2>2
    <3> HIDE DEF buf, b
    <3> QED
      BY <2>3, <2>5, <3>1, <3>2
  <2> DEFINE after == HandleFrames(Now, type, more.frames, denied, during)
  <2> HIDE DEF buf
  <2>7. /\ AtOnce = Frames(type, a)
        /\ AtOnce' = Frames(type, a \o b)
    BY <1>1, <1>2, <2>4 DEF AtOnce
  <2>8. AtOnce'.frames = AtOnce.frames \o more.frames /\ AtOnce'.rest = more.rest
    <3> HIDE DEF type, a, b
    <3>1. FramesContinue(type, a, b)
      BY <2>3, <2>4, FramesGoOn
    <3> QED
      BY <2>7, <3>1 DEF FramesContinue
  <2>9. AtOnce.frames \in Seq(Seq(Byte)) /\ AtOnce.rest \in Seq(Byte)
    <3> HIDE DEF type, a, b
    <3> QED
      BY <2>3, <2>4, <2>7, RoundsAreRounds, CutUpIs DEF Frames
  <2>10. more.frames \in Seq(Seq(Byte))
    <3> DEFINE c == AtOnce.rest \o b
    <3> HIDE DEF type, a, b
    <3>1. c \in Seq(Byte)
      BY <2>4, <2>9, ConcatProperties
    <3> HIDE DEF c
    <3>2. Frames(type, c).frames \in Seq(Seq(Byte))
      BY <2>3, <3>1, RoundsAreRounds, CutUpIs DEF Frames
    <3> QED
      BY <3>2 DEF c
  <2>11. /\ during \in Seq(Moments) /\ Len(during) = Len(more.frames)
         /\ replaced' = replaced \o during
         /\ replaced' \in Seq(Moments) /\ Len(replaced') = Len(AtOnce'.frames)
    <3>1. during \in Seq(Moments) /\ Len(during) = Len(more.frames)
      BY <2>10, MomentsAreSeq
    <3>2. replaced' = replaced \o during
      BY <2>6
    <3>3. Len(AtOnce'.frames) = Len(AtOnce.frames) + Len(more.frames)
      <4> DEFINE p == AtOnce.frames
                 q == more.frames
                 r == AtOnce'.frames
      <4>1. p \in Seq(Seq(Byte)) /\ q \in Seq(Seq(Byte)) /\ r = p \o q
        BY <2>8, <2>9, <2>10
      <4> HIDE DEF p, q, r
      <4>2. Len(r) = Len(p) + Len(q)
        BY <4>1, ConcatProperties
      <4> QED
        BY <4>2 DEF p, q, r
    <3>4. replaced' \in Seq(Moments) /\ Len(replaced') = Len(replaced) + Len(during)
      BY <2>2, <3>1, <3>2, ConcatProperties
    <3> QED
      BY <2>2, <3>1, <3>2, <3>3, <3>4
  <2>12. ToldAtOnce' = HandleFrames(ToldAtOnce, type, more.frames, {}, during)
    <3> DEFINE p == AtOnce.frames
               x == more.frames
               q == AtOnce'.frames
               r == replaced'
    <3>1. ToldAtOnce' = HandleFrames(Start, type, q, {}, r)
      BY <1>1 DEF ToldAtOnce, Start
    <3>2. /\ p \in Seq(Seq(Byte)) /\ x \in Seq(Seq(Byte)) /\ q = p \o x
          /\ replaced \in Seq(Moments) /\ during \in Seq(Moments) /\ r = replaced \o during
          /\ Len(replaced) = Len(p) /\ Len(during) = Len(x)
      BY <2>2, <2>8, <2>9, <2>10, <2>11
    <3>3. ToldAtOnce = HandleFrames(Start, type, p, {}, replaced)
      BY DEF ToldAtOnce
    <3> HIDE DEF p, x, q, r, type
    <3>4. InTurn(Start, type, p, x, q, {}, replaced, during, r)
      BY <3>2, HandledOneByOne
    <3> QED
      BY <3>1, <3>3, <3>4 DEF InTurn, x
  <2>13. IsState(ToldAtOnce)
    <3>1. IsState(Start) /\ SameTold(Start, Start)
      BY DEF IsState, Start, NoExtra, SameTold
    <3>2. Len(AtOnce.frames) \in Nat
      BY <2>9, LenProperties
    <3> QED
      BY <3>1, <3>2, SameHandled DEF ToldAtOnce
  <2>14. IsState(after) /\ SameTold(after, ToldAtOnce')
    <3> DEFINE x == more.frames
    <3>1. Len(x) \in Nat
      BY <2>10, LenProperties
    <3> HIDE DEF x, type
    <3>2. /\ IsState(HandleFrames(Now, type, x, denied, during))
          /\ SameTold(HandleFrames(Now, type, x, denied, during),
                      HandleFrames(ToldAtOnce, type, x, {}, during))
      BY <2>2, <2>13, <3>1, SameHandled
    <3> QED
      BY <2>12, <3>2 DEF x
  <2>15. Now' = after
    <3>1. more.reader \in {"reading", "spinning"}
      <4> DEFINE c == AtOnce.rest \o b
      <4> HIDE DEF type, a, b
      <4>1. c \in Seq(Byte)
        BY <2>4, <2>9, ConcatProperties
      <4> HIDE DEF c
      <4>2. Frames(type, c).reader \in {"reading", "spinning"}
        BY <2>3, <4>1, RoundsAreRounds, CutUpIs DEF Frames
      <4> QED
        BY <4>2 DEF c
    <3> DEFINE st == more.reader
    <3>2. Now' = [extra |-> after.extra, reported |-> after.reported,
                  fetched |-> after.fetched,
                  alive |-> (IF after.alive THEN st ELSE "panicked") # "panicked"]
      BY <2>6 DEF Now
    <3> HIDE DEF after, st
    <3>3. PICK usart, lockers, uid, told, tags, alive :
            /\ alive \in BOOLEAN
            /\ after = [extra |-> [usart |-> usart, lockers |-> lockers, uid |-> uid],
                        reported |-> told, fetched |-> tags, alive |-> alive]
      BY <2>14 DEF IsState
    <3>4. st # "panicked"
      BY <3>1 DEF st
    <3>5. CASE alive
      BY <3>2, <3>3, <3>4, <3>5
    <3>6. CASE ~alive
      BY <3>2, <3>3, <3>4, <3>6
    <3> QED
      BY <3>3, <3>5, <3>6
  <2> HIDE DEF more, after
  <2> QED
    BY <1>1, <2>6, <2>8, <2>11, <2>14, <2>15
<1> QED
  BY <1>1, <1>2, <1>3, <1>4 DEF CutsInv

\* However TCP cuts what a POCKET, GAT or SPHINX terminal of the list sends into
\* reads: the reader has told, and keeps, what one read would have left in which
\* the settings are replaced at the same packets.
THEOREM CutsNeverMatter == Spec => []CutsDoNotMatter
<1>1. CutsInv /\ UNCHANGED vars => CutsInv'
  <2> SUFFICES ASSUME CutsInv, UNCHANGED vars
               PROVE  CutsInv'
    OBVIOUS
  <2>1. /\ Stream' = Stream /\ Timely' = Timely /\ Now' = Now
        /\ AtOnce' = AtOnce /\ ToldAtOnce' = ToldAtOnce
    BY DEF vars, Stream, Timely, Now, AtOnce, ToldAtOnce, Start
  <2> QED
    BY <2>1 DEF CutsInv, vars
<1>2. CutsInv /\ [Next]_vars => CutsInv'
  BY <1>1, CutsInvAttach, CutsInvRead DEF Next
<1> QED
  BY CutsInvInit, <1>2, CutsInvImplies, PTL DEF Spec

-----------------------------------------------------------------------------
(* Types: what a packet and a barcode may be cut to and decoded as *)

\* A byte of a sequence of bytes is a number.
LEMMA ByteAt ==
  ASSUME NEW buf \in Seq(Byte), NEW i \in 1 .. Len(buf)
  PROVE  buf[i] \in Byte /\ buf[i] \in Nat
<1>1. buf[i] \in Byte
  BY ElementOfSeq
<1>2. Byte \subseteq Nat
  BY DEF Byte
<1> QED
  BY <1>1, <1>2

\* Four hexadecimal digits are a natural number.
LEMMA HexIsNat ==
  ASSUME NEW digits, DOMAIN digits = 1 .. 4, IsHex(digits)
  PROVE  DecodeHex(digits) \in Nat
<1>1. \A d \in DOMAIN HexValue : HexValue[d] \in Nat
  BY DEF HexValue
<1>2. 1 \in 1 .. 4 /\ 2 \in 1 .. 4 /\ 3 \in 1 .. 4 /\ 4 \in 1 .. 4
  OBVIOUS
<1>3. /\ HexValue[digits[1]] \in Nat /\ HexValue[digits[2]] \in Nat
      /\ HexValue[digits[3]] \in Nat /\ HexValue[digits[4]] \in Nat
  BY <1>1, <1>2 DEF IsHex
<1> QED
  BY <1>3 DEF DecodeHex

\* What TryReadPacket hands on as a packet.
JspText == {text \in Seq(Byte) : Len(text) = 2}

\* TryReadPacket goes forward, and its packets can be decoded.
LEMMA TryReadPacketIs ==
  ASSUME NEW buf \in Seq(Byte), NEW i \in 1 .. Len(buf) + 1
  PROVE  LET try == TryReadPacket(buf, i)
         IN /\ try.result \in {"false", "missing", "error", "packet"}
            /\ try.next \in i .. Len(buf) + 1
            /\ try.result \in {"false", "packet"} /\ try.next <= Len(buf) => try.next > i
            /\ try.result = "packet" => try.next > i /\ try.text \in JspText
<1> DEFINE try == TryReadPacket(buf, i)
           starts == {j \in i .. Len(buf) : buf[j] = JspStart}
           s == Min(starts)
           digits == SubSeq(buf, s + 1, s + 4)
           end == s + 5 + DecodeHex(digits)
           text == SubSeq(buf, s + 5, end - 1)
<1>1. Len(buf) \in Nat
  BY LenProperties
<1>2. try = IF starts = {} THEN [result |-> "false", next |-> Len(buf) + 1]
     ELSE IF Len(buf) < s + 4 THEN [result |-> "missing", next |-> s]
     ELSE IF ~IsHex(digits) THEN [result |-> "false", next |-> s + 1]
     ELSE IF Len(buf) < end THEN [result |-> "missing", next |-> s]
     ELSE IF buf[end] # JspEnd THEN [result |-> "false", next |-> s + 1]
     ELSE IF JspDecode(text) = Nothing THEN [result |-> "error", next |-> end + 1]
     ELSE [result |-> "packet", next |-> end + 1, text |-> text]
  BY DEF TryReadPacket
<1>3. CASE starts = {}
  <2>1. try = [result |-> "false", next |-> Len(buf) + 1]
    BY <1>2, <1>3
  <2> HIDE DEF try
  <2>2. try.result = "false" /\ try.next = Len(buf) + 1
    BY <2>1
  <2>3. /\ try.result \in {"false", "missing", "error", "packet"}
        /\ try.next \in i .. Len(buf) + 1 /\ ~(try.next <= Len(buf))
        /\ try.result # "packet"
    BY <1>1, <2>2
  <2> QED
    BY <2>3 DEF try
<1>4. CASE starts # {}
  <2>1. s \in i .. Len(buf)
    <3>1. starts \in SUBSET Nat
      BY <1>1
    <3> HIDE DEF starts
    <3>2. s \in starts
      BY <1>4, <3>1, MinIsLeast
    <3> QED
      BY <3>2 DEF starts
  <2> HIDE DEF starts, s
  <2>2. CASE Len(buf) < s + 4
    <3>1. try = [result |-> "missing", next |-> s]
      BY <1>2, <1>4, <2>2
    <3> HIDE DEF try
    <3>2. try.result = "missing" /\ try.next = s
      BY <3>1
    <3>3. /\ try.result \in {"false", "missing", "error", "packet"}
          /\ try.next \in i .. Len(buf) + 1
          /\ try.result \notin {"false", "packet"} /\ try.result # "packet"
      BY <1>1, <2>1, <3>2
    <3> QED
      BY <3>3 DEF try
  <2>3. CASE ~(Len(buf) < s + 4) /\ ~IsHex(digits)
    <3>1. try = [result |-> "false", next |-> s + 1]
      BY <1>2, <1>4, <2>3
    <3> HIDE DEF try
    <3>2. try.result = "false" /\ try.next = s + 1
      BY <3>1
    <3>3. /\ try.result \in {"false", "missing", "error", "packet"}
          /\ try.next \in i .. Len(buf) + 1 /\ try.next > i /\ try.result # "packet"
      BY <1>1, <2>1, <3>2
    <3> QED
      BY <3>3 DEF try
  <2>4. CASE ~(Len(buf) < s + 4) /\ IsHex(digits)
    <3>1. DecodeHex(digits) \in Nat
      <4>1. s + 1 \in Nat \ {0} /\ s + 4 \in Int /\ s + 4 <= Len(buf)
        BY <1>1, <2>1, <2>4
      <4>2. digits \in Seq(Byte) /\ Len(digits) = IF s + 1 <= s + 4 THEN (s + 4) - (s + 1) + 1 ELSE 0
        BY <4>1, PieceOfBytes
      <4> HIDE DEF digits
      <4>3. Len(digits) = 4
        BY <2>1, <4>2
      <4>4. DOMAIN digits = 1 .. 4
        BY <4>2, <4>3, LenProperties
      <4> QED
        BY <2>4, <4>4, HexIsNat
    <3>2. end \in Nat /\ end >= s + 5
      <4> HIDE DEF digits
      <4> QED
        BY <1>1, <2>1, <3>1
    <3>3. CASE Len(buf) < end
      <4>1. try = [result |-> "missing", next |-> s]
        <5> HIDE DEF digits, end
        <5> QED
          BY <1>2, <1>4, <2>4, <3>3
      <4> HIDE DEF try
      <4>2. try.result = "missing" /\ try.next = s
        BY <4>1
      <4>3. /\ try.result \in {"false", "missing", "error", "packet"}
            /\ try.next \in i .. Len(buf) + 1
            /\ try.result \notin {"false", "packet"} /\ try.result # "packet"
        BY <1>1, <2>1, <4>2
      <4> QED
        BY <4>3 DEF try
    <3>4. CASE ~(Len(buf) < end) /\ buf[end] # JspEnd
      <4>1. try = [result |-> "false", next |-> s + 1]
        <5> HIDE DEF digits, end
        <5> QED
          BY <1>2, <1>4, <2>4, <3>4
      <4> HIDE DEF try
      <4>2. try.result = "false" /\ try.next = s + 1
        BY <4>1
      <4>3. /\ try.result \in {"false", "missing", "error", "packet"}
            /\ try.next \in i .. Len(buf) + 1 /\ try.next > i /\ try.result # "packet"
        BY <1>1, <2>1, <4>2
      <4> QED
        BY <4>3 DEF try
    <3>5. CASE ~(Len(buf) < end) /\ buf[end] = JspEnd /\ JspDecode(text) = Nothing
      <4>1. try = [result |-> "error", next |-> end + 1]
        <5> HIDE DEF digits, end, text
        <5> QED
          BY <1>2, <1>4, <2>4, <3>5
      <4> HIDE DEF try, end
      <4>2. try.result = "error" /\ try.next = end + 1
        BY <4>1
      <4>3. /\ try.result \in {"false", "missing", "error", "packet"}
            /\ try.next \in i .. Len(buf) + 1
            /\ try.result \notin {"false", "packet"} /\ try.result # "packet"
        BY <1>1, <2>1, <3>2, <3>5, <4>2
      <4> QED
        BY <4>3 DEF try
    <3>6. CASE ~(Len(buf) < end) /\ buf[end] = JspEnd /\ JspDecode(text) # Nothing
      <4>1. try = [result |-> "packet", next |-> end + 1, text |-> text]
        <5> HIDE DEF digits, end, text
        <5> QED
          BY <1>2, <1>4, <2>4, <3>6
      <4>2. text \in Seq(Byte)
        <5> HIDE DEF end
        <5>1. s + 5 \in Nat \ {0} /\ end - 1 \in Int /\ end - 1 <= Len(buf)
          BY <1>1, <2>1, <3>2, <3>6
        <5> QED
          BY <5>1, PieceOfBytes
      <4> HIDE DEF try, end, text
      <4>3. text \in JspText
        BY <3>6, <4>2 DEF JspDecode, JspText
      <4>4. try.result = "packet" /\ try.next = end + 1 /\ try.text = text
        BY <4>1
      <4>5. /\ try.result \in {"false", "missing", "error", "packet"}
            /\ try.next \in i .. Len(buf) + 1 /\ try.next > i /\ try.text \in JspText
        BY <1>1, <2>1, <3>2, <3>6, <4>3, <4>4
      <4> QED
        BY <4>5 DEF try
    <3> QED
      BY <3>3, <3>4, <3>5, <3>6
  <2> QED
    BY <2>2, <2>3, <2>4
<1> QED
  BY <1>3, <1>4

\* processJSPData goes forward too, or spins.
LEMMA JspIsRound ==
  ASSUME NEW buf \in Seq(Byte)
  PROVE  IsRound(JspRound(buf), Len(buf), JspText)
<1>1. ASSUME NEW i \in 1 .. Len(buf) + 1
      PROVE  LET this == JspRound(buf)[i]
             IN /\ this.frames \in Seq(JspText)
                /\ this.next \in i .. Len(buf) + 1
                /\ this.then \in {"again", "reading", "spinning"}
                /\ this.then = "again" => this.next > i
  <2> DEFINE this == JspRound(buf)[i]
             try == TryReadPacket(buf, i)
  <2>1. /\ try.result \in {"false", "missing", "error", "packet"}
        /\ try.next \in i .. Len(buf) + 1
        /\ try.result \in {"false", "packet"} /\ try.next <= Len(buf) => try.next > i
        /\ try.result = "packet" => try.next > i /\ try.text \in JspText
    BY TryReadPacketIs
  <2>2. this = CASE try.result \in {"missing", "error"} -> Waits(try.next)
          [] try.result = "false" /\ try.next > Len(buf) ->
               [Waits(try.next) EXCEPT !.then = "spinning"]
          [] try.result = "false" /\ try.next <= Len(buf) -> Skips(try.next)
          [] try.result = "packet" -> Finds(try.text, try.next)
    BY DEF JspRound
  <2>3. Len(buf) \in Nat
    BY LenProperties
  <2>4. <<>> \in Seq(JspText)
    BY EmptySeq
  <2> HIDE DEF try, this
  <2>5. CASE try.result \in {"missing", "error"}
    <3>1. this = Waits(try.next)
      BY <2>2, <2>5
    <3>2. this.frames = <<>> /\ this.next = try.next /\ this.then = "reading"
      BY <3>1 DEF Waits
    <3>3. /\ this.frames \in Seq(JspText) /\ this.next \in i .. Len(buf) + 1
          /\ this.then \in {"again", "reading", "spinning"} /\ this.then # "again"
      BY <2>1, <2>4, <3>2
    <3> QED
      BY <3>3 DEF this
  <2>6. CASE try.result = "false" /\ try.next > Len(buf)
    <3>1. this = [Waits(try.next) EXCEPT !.then = "spinning"]
      <4>1. ~(try.next <= Len(buf)) /\ try.result \notin {"missing", "error", "packet"}
        BY <2>1, <2>3, <2>6
      <4> QED
        BY <2>2, <2>6, <4>1
    <3>2. this.frames = <<>> /\ this.next = try.next /\ this.then = "spinning"
      BY <3>1 DEF Waits
    <3>3. /\ this.frames \in Seq(JspText) /\ this.next \in i .. Len(buf) + 1
          /\ this.then \in {"again", "reading", "spinning"} /\ this.then # "again"
      BY <2>1, <2>4, <3>2
    <3> QED
      BY <3>3 DEF this
  <2>7. CASE try.result = "false" /\ try.next <= Len(buf)
    <3>1. this = Skips(try.next)
      <4>1. ~(try.next > Len(buf)) /\ try.result \notin {"missing", "error"}
        BY <2>1, <2>3, <2>7
      <4> QED
        BY <2>2, <2>7, <4>1
    <3>2. this.frames = <<>> /\ this.next = try.next /\ this.then = "again"
      BY <3>1 DEF Skips
    <3>3. /\ this.frames \in Seq(JspText) /\ this.next \in i .. Len(buf) + 1
          /\ this.then \in {"again", "reading", "spinning"} /\ this.next > i
      BY <2>1, <2>4, <2>7, <3>2
    <3> QED
      BY <3>3 DEF this
  <2>8. CASE try.result = "packet"
    <3>1. this = Finds(try.text, try.next)
      BY <2>2, <2>8
    <3>2. this.frames = <<try.text>> /\ this.next = try.next /\ this.then = "again"
      BY <3>1 DEF Finds
    <3>3. <<try.text>> \in Seq(JspText)
      BY <2>1, <2>8
    <3>4. /\ this.frames \in Seq(JspText) /\ this.next \in i .. Len(buf) + 1
          /\ this.then \in {"again", "reading", "spinning"} /\ this.next > i
      BY <2>1, <2>8, <3>2, <3>3
    <3> QED
      BY <3>4 DEF this
  <2>9. \/ try.result \in {"missing", "error"} \/ try.result = "packet"
        \/ try.result = "false" /\ try.next > Len(buf)
        \/ try.result = "false" /\ try.next <= Len(buf)
    BY <2>1, <2>3
  <2> QED
    BY <2>5, <2>6, <2>7, <2>8, <2>9
<1> QED
  BY <1>1 DEF IsRound

\* f[i] is the first i sequences, one put behind the other.
Flattens(f, seqs) ==
  /\ f[0] = <<>>
  /\ \A i \in 1 .. Len(seqs) : f[i] = f[i - 1] \o seqs[i]

\* FlattenSeq puts one behind the other, to the last.
LEMMA FlattenIs ==
  ASSUME NEW S, NEW seqs \in Seq(Seq(S))
  PROVE  \E f : /\ Flattens(f, seqs) /\ FlattenSeq(seqs) = f[Len(seqs)]
                /\ \A i \in 0 .. Len(seqs) : f[i] \in Seq(S)
<1> DEFINE L == Len(seqs)
           After(f, i) == IF i = 1 THEN seqs[i] ELSE f[i - 1] \o seqs[i]
           Is(f, l) == f = [i \in 1 .. l |-> After(f, i)]
           T == {l \in Nat : l <= L => \E f : Is(f, l)}
<1>1. L \in Nat /\ \A i \in 1 .. L : seqs[i] \in Seq(S)
  BY ElementOfSeq, LenProperties
<1>2. CASE L = 0
  <2>1. seqs = <<>>
    BY <1>2, EmptySeq
  <2>2. FlattenSeq(seqs) = seqs
    BY <1>2 DEF FlattenSeq
  <2> DEFINE g == [i \in 0 .. 0 |-> <<>>]
  <2>3. g[0] = <<>> /\ \A i \in 0 .. 0 : g[i] \in Seq(S)
    BY EmptySeq
  <2>4. 1 .. 0 = {}
    OBVIOUS
  <2> HIDE DEF g
  <2> QED
    BY <1>2, <2>1, <2>2, <2>3, <2>4 DEF Flattens
<1> HIDE DEF After
<1>3. CASE L # 0
  <2>1. 0 \in T
    <3> DEFINE g == [i \in 1 .. 0 |-> 0]
    <3>1. 1 .. 0 = {}
      OBVIOUS
    <3>2. Is(g, 0)
      BY <3>1
    <3> QED
      BY <3>2
  <2>2. ASSUME NEW l \in Nat, l \in T
        PROVE  l + 1 \in T
    <3>1. SUFFICES ASSUME l + 1 <= L
                   PROVE  \E f : Is(f, l + 1)
      OBVIOUS
    <3>2. PICK f : Is(f, l)
      BY <1>1, <2>2, <3>1
    <3> DEFINE g == [i \in 1 .. l + 1 |-> IF i = l + 1 THEN After(f, i) ELSE f[i]]
    <3>3. ASSUME NEW i \in 1 .. l + 1
          PROVE  g[i] = After(g, i)
      <4>1. g[i] = After(f, i)
        <5>1. CASE i = l + 1
          <6> QED
            BY <5>1
        <5>2. CASE i # l + 1
          <6>1. i \in 1 .. l
            BY <5>2
          <6>2. f[i] = After(f, i)
            BY <3>2, <6>1
          <6> QED
            BY <5>2, <6>2
        <5> QED
          BY <5>1, <5>2
      <4>2. CASE i = 1
        <5> HIDE DEF g
        <5> QED
          BY <4>1, <4>2 DEF After
      <4>3. CASE i # 1
        <5>1. i - 1 \in 1 .. l + 1 /\ i - 1 # l + 1
          BY <4>3
        <5>2. g[i - 1] = f[i - 1]
          BY <5>1
        <5> HIDE DEF g
        <5> QED
          BY <4>1, <4>3, <5>2 DEF After
      <4> QED
        BY <4>2, <4>3
    <3>4. g = [i \in 1 .. l + 1 |-> g[i]]
      OBVIOUS
    <3> HIDE DEF g
    <3>5. Is(g, l + 1)
      BY <3>3, <3>4
    <3> QED
      BY <3>5
  <2>3. L \in T
    <3> HIDE DEF T
    <3> QED
      BY <1>1, <2>1, <2>2, NatSetInduction
  <2> DEFINE F == CHOOSE f : Is(f, L)
  <2>4. FlattenSeq(seqs) = F[L]
    BY <1>3 DEF FlattenSeq, After
  <2>5. Is(F, L)
    <3>1. PICK f : Is(f, L)
      BY <1>1, <2>3
    <3> HIDE DEF Is
    <3> QED
      BY <3>1
  <2> HIDE DEF F
  <2>6. \A i \in 1 .. L : F[i] = After(F, i)
    <3> QED
      BY <2>5
  <2> DEFINE U == {n \in Nat : n + 1 <= L => F[n + 1] \in Seq(S)}
  <2>7. 0 \in U
    <3>1. 1 \in 1 .. L
      BY <1>1, <1>3
    <3>2. F[1] = seqs[1]
      BY <2>6, <3>1 DEF After
    <3> QED
      BY <1>1, <3>1, <3>2, 0 + 1 = 1
  <2>8. ASSUME NEW n \in Nat, n \in U
        PROVE  n + 1 \in U
    <3>1. SUFFICES ASSUME (n + 1) + 1 <= L
                   PROVE  F[(n + 1) + 1] \in Seq(S)
      OBVIOUS
    <3> DEFINE i == (n + 1) + 1
    <3>2. i \in 1 .. L /\ i # 1 /\ i - 1 = n + 1
      BY <1>1, <3>1
    <3>3. F[n + 1] \in Seq(S)
      BY <1>1, <2>8, <3>1
    <3> HIDE DEF i
    <3>4. F[i] = F[n + 1] \o seqs[i]
      BY <2>6, <3>2 DEF After
    <3>5. seqs[i] \in Seq(S)
      BY <1>1, <3>2
    <3>6. F[n + 1] \o seqs[i] \in Seq(S)
      BY <3>3, <3>5, ConcatProperties
    <3> QED
      BY <3>4, <3>6 DEF i
  <2>9. L - 1 \in U
    <3>1. L - 1 \in Nat
      BY <1>1, <1>3
    <3> HIDE DEF U
    <3> QED
      BY <2>7, <2>8, <3>1, NatSetInduction
  <2>10. \A i \in 1 .. L : F[i] \in Seq(S)
    <3>1. SUFFICES ASSUME NEW i \in 1 .. L
                   PROVE  F[i] \in Seq(S)
      OBVIOUS
    <3>2. i - 1 \in Nat /\ (i - 1) + 1 = i /\ i <= L
      BY <1>1
    <3>3. i - 1 \in U
      <4> HIDE DEF U
      <4> QED
        BY <2>7, <2>8, <3>2, NatSetInduction
    <3> QED
      BY <3>2, <3>3
  <2> DEFINE G == [i \in 0 .. L |-> IF i = 0 THEN <<>> ELSE F[i]]
  <2>11. \A i \in 0 .. L : G[i] \in Seq(S)
    <3>1. SUFFICES ASSUME NEW i \in 0 .. L
                   PROVE  G[i] \in Seq(S)
      OBVIOUS
    <3>2. CASE i = 0
      BY <3>2, EmptySeq
    <3>3. CASE i # 0
      <4>1. i \in 1 .. L
        BY <3>3
      <4> QED
        BY <2>10, <3>3, <4>1
    <3> QED
      BY <3>2, <3>3
  <2>12. G[0] = <<>>
    OBVIOUS
  <2>13. \A i \in 1 .. L : G[i] = G[i - 1] \o seqs[i]
    <3>1. SUFFICES ASSUME NEW i \in 1 .. L
                   PROVE  G[i] = G[i - 1] \o seqs[i]
      OBVIOUS
    <3>2. F[i] = After(F, i) /\ G[i] = F[i]
      BY <2>6
    <3>3. CASE i = 1
      <4>1. i - 1 = 0 /\ G[i - 1] = <<>>
        BY <3>3
      <4>2. F[i] = seqs[i] /\ seqs[i] \in Seq(S)
        BY <1>1, <3>2, <3>3 DEF After
      <4> HIDE DEF G
      <4>3. <<>> \o seqs[i] = seqs[i]
        BY <4>2, ConcatEmptySeq
      <4> QED
        BY <3>2, <4>1, <4>2, <4>3
    <3>4. CASE i # 1
      <4>1. i - 1 \in 0 .. L /\ i - 1 # 0
        BY <3>4
      <4>2. G[i - 1] = F[i - 1]
        BY <4>1
      <4> HIDE DEF G
      <4> QED
        BY <3>2, <3>4, <4>2 DEF After
    <3> QED
      BY <3>3, <3>4
  <2>14. G[L] = F[L]
    BY <1>1, <1>3
  <2> HIDE DEF G
  <2> QED
    BY <1>1, <2>4, <2>11, <2>12, <2>13, <2>14 DEF Flattens
<1> QED
  BY <1>2, <1>3

\* Sequences put one behind the other are a sequence.
LEMMA FlattenTyped ==
  ASSUME NEW S, NEW seqs \in Seq(Seq(S))
  PROVE  FlattenSeq(seqs) \in Seq(S)
<1>1. PICK f : /\ FlattenSeq(seqs) = f[Len(seqs)]
               /\ \A i \in 0 .. Len(seqs) : f[i] \in Seq(S)
  BY FlattenIs
<1>2. Len(seqs) \in 0 .. Len(seqs)
  BY LenProperties
<1> QED
  BY <1>1, <1>2

\* A piece of a barcode that is one is reported as such.
LEMMA BarcodeEventsTyped ==
  ASSUME NEW raw \in Seq(Byte)
  PROVE  BarcodeEvents(raw) \in Seq(Report)
<1>1. CASE Len(raw) \in 4 .. 32 /\ raw[1] = BarcodeStart
  <2> DEFINE data == SubSeq(raw, 4, Len(raw))
  <2>1. data \in Seq(Byte)
    BY <1>1, PieceOfBytes, 4 \in Nat \ {0}, LenProperties
  <2>2. BarcodeEvents(raw) = <<[kind |-> "barcode", data |-> data]>>
    BY <1>1 DEF BarcodeEvents
  <2> HIDE DEF data
  <2>3. [kind |-> "barcode", data |-> data] \in Report
    BY <2>1 DEF Report
  <2> DEFINE event == [kind |-> "barcode", data |-> data]
  <2> HIDE DEF event
  <2>4. <<event>> \in Seq(Report)
    BY <2>3 DEF event
  <2> QED
    BY <2>2, <2>4 DEF event
<1>2. CASE ~(Len(raw) \in 4 .. 32 /\ raw[1] = BarcodeStart)
  <2>1. BarcodeEvents(raw) = <<>>
    BY <1>2 DEF BarcodeEvents
  <2> QED
    BY <2>1, EmptySeq
<1> QED
  BY <1>1, <1>2

\* The barcodes found are reported as such.
LEMMA TellTyped ==
  ASSUME NEW told \in Seq(Report), NEW found \in Seq(Seq(Byte))
  PROVE  Tell(told, found) \in Seq(Report)
<1> DEFINE all == [n \in DOMAIN found |-> BarcodeEvents(found[n])]
<1>1. DOMAIN found = 1 .. Len(found) /\ Len(found) \in Nat
  BY LenProperties
<1>2. \A n \in 1 .. Len(found) : BarcodeEvents(found[n]) \in Seq(Report)
  BY ElementOfSeq, BarcodeEventsTyped
<1>3. all \in Seq(Seq(Report))
  <2>1. all = [n \in 1 .. Len(found) |-> BarcodeEvents(found[n])]
    BY <1>1
  <2>2. all \in [1 .. Len(found) -> Seq(Report)]
    BY <1>2, <2>1
  <2> HIDE DEF all
  <2>3. all \in UNION {[1 .. n -> Seq(Report)] : n \in Nat}
    BY <1>1, <2>2
  <2> QED
    BY <2>3, SeqDef
<1>4. Tell(told, found) = told \o FlattenSeq(all)
  BY DEF Tell
<1> HIDE DEF all
<1>5. FlattenSeq(all) \in Seq(Report)
  BY <1>3, FlattenTyped
<1>6. told \o FlattenSeq(all) \in Seq(Report)
  BY <1>5, ConcatProperties
<1> QED
  BY <1>4, <1>6

\* What a packet can mean to the handlers.
Tag == [kind : {"tag"}, uid : Byte, auth : BOOLEAN]
TagWithLockers == [kind : {"tag"}, uid : Byte, auth : BOOLEAN, lockers : Seq(Byte)]
Signal == [kind : {"usart"}, bytes : Seq(Byte)]
Heard == {Nothing, Panic} \cup Signal \cup TagWithLockers \cup Report

\* A decoded packet.
IsPacket(packet) ==
  \E cmd, payload : /\ packet = [kind |-> "packet", cmd |-> cmd, payload |-> payload]
                    /\ payload \in Seq(Byte)

\* It has a command and a payload.
LEMMA PacketIs ==
  ASSUME NEW packet, IsPacket(packet)
  PROVE  packet \notin {Nothing, Panic} /\ packet.payload \in Seq(Byte)
<1>1. PICK cmd, payload : /\ packet = [kind |-> "packet", cmd |-> cmd, payload |-> payload]
                          /\ payload \in Seq(Byte)
  BY DEF IsPacket
<1>2. packet.kind = "packet" /\ packet.payload = payload
  BY <1>1
<1>3. packet \notin {Nothing, Panic}
  BY <1>2 DEF Nothing, Panic
<1> QED
  BY <1>1, <1>2, <1>3

\* DecodePacket of POCKET takes the payload from inside the packet, or panics
\* over it.
LEMMA PocketDecodeTyped ==
  ASSUME NEW data \in Seq(Byte)
  PROVE  PocketDecode(data) \in {Nothing, Panic} \/ IsPacket(PocketDecode(data))
<1> DEFINE size == 7 + DecodeUint16(data[4], data[5])
           short == \/ Len(data) < 8
                    \/ data[1] # PocketMarker
                    \/ Len(data) < size
           wrong == CRC8(SubSeq(data, 1, size)) # data[6]
           fatal == data[3] = RelayControlEx /\ size - 7 = 5
           payload == SubSeq(data, 8, size)
           cmd == data[3]
           packet == PocketDecode(data)
<1>1. packet = IF short THEN Nothing
               ELSE IF wrong THEN Nothing
               ELSE IF fatal THEN Panic
               ELSE [kind |-> "packet", cmd |-> cmd, payload |-> payload]
  BY DEF PocketDecode
<1>2. ASSUME ~short
      PROVE  payload \in Seq(Byte)
  <2>1. Len(data) \in Nat /\ Len(data) >= 8 /\ ~(Len(data) < size)
    BY <1>2, LenProperties
  <2>2. data[4] \in Byte /\ data[5] \in Byte
    BY <2>1, ElementOfSeq
  <2>3. size \in Nat
    <3>1. DecodeUint16(data[4], data[5]) \in Nat
      BY <2>2, Uint16IsNat
    <3> QED
      BY <3>1
  <2> HIDE DEF size
  <2>4. size \in Int /\ size <= Len(data) /\ 8 \in Nat \ {0}
    BY <2>1, <2>3
  <2> QED
    BY <2>4, PieceOfBytes
<1> HIDE DEF short, wrong, fatal, payload, cmd, packet
<1>3. packet \in {Nothing, Panic} \/ IsPacket(packet)
  <2>1. CASE short \/ wrong \/ fatal
    BY <1>1, <2>1
  <2>2. CASE ~short /\ ~wrong /\ ~fatal
    BY <1>1, <1>2, <2>2 DEF IsPacket
  <2> QED
    BY <2>1, <2>2
<1> QED
  BY <1>3 DEF packet

\* The packets of POCKET, typed.
LEMMA PocketTagTyped ==
  ASSUME NEW payload \in Seq(Byte)
  PROVE  PocketTag(payload) \in {Nothing} \cup Tag
<1> DEFINE short == Len(payload) < 4 \/ Len(payload) < 4 + payload[3] \/ payload[3] = 0
           uid == payload[4]
<1>1. PocketTag(payload) = IF short THEN Nothing
                           ELSE [kind |-> "tag", uid |-> uid, auth |-> TRUE]
  BY DEF PocketTag
<1>2. ASSUME ~short
      PROVE  uid \in Byte
  <2>1. Len(payload) \in Nat
    BY LenProperties
  <2>2. 4 \in 1 .. Len(payload)
    BY <1>2, <2>1
  <2> QED
    BY <2>2, ElementOfSeq
<1> HIDE DEF short, uid
<1> QED
  BY <1>1, <1>2 DEF Tag

\* A tag of ReadTagExtended has its lockers from the payload.
LEMMA PocketTagExtendedTyped ==
  ASSUME NEW payload \in Seq(Byte)
  PROVE  PocketTagExtended(payload) \in {Nothing} \cup TagWithLockers
<1> DEFINE short == Len(payload) < 5 \/ 1 + payload[1] > Len(payload) \/ payload[1] = 0
           uidEnd == 1 + payload[1]
           first == IF uidEnd + 2 <= Len(payload) THEN uidEnd + 3 ELSE uidEnd + 1
           count == (Len(payload) + 1 - first) \div 4
           uid == payload[2]
           auth == count > 0 /\ payload[first] = 0
           lockers == [n \in 1 .. count |-> payload[first + 4 * (n - 1) + 2]]
           event == PocketTagExtended(payload)
<1>1. event = IF short THEN Nothing
              ELSE [kind |-> "tag", uid |-> uid, auth |-> auth, lockers |-> lockers]
  BY DEF PocketTagExtended
<1>2. ASSUME ~short
      PROVE  uid \in Byte /\ lockers \in Seq(Byte)
  <2>1. Len(payload) \in Nat /\ Len(payload) >= 5 /\ 1 + payload[1] <= Len(payload)
    <3>1. Len(payload) \in Nat
      BY LenProperties
    <3>2. 1 \in 1 .. Len(payload)
      BY <1>2, <3>1
    <3>3. payload[1] \in Nat
      BY <3>2, ByteAt
    <3> QED
      BY <1>2, <3>1, <3>3
  <2>2. \A i \in 1 .. Len(payload) : payload[i] \in Byte
    BY ElementOfSeq
  <2>3. uid \in Byte
    BY <2>1, <2>2
  <2>4. uidEnd \in 1 .. Len(payload)
    <3>1. payload[1] \in Nat
      BY <2>1, ByteAt, 1 \in 1 .. Len(payload)
    <3> QED
      BY <2>1, <3>1
  <2> HIDE DEF uidEnd
  <2>5. first \in 2 .. Len(payload) + 1
    BY <2>1, <2>4
  <2> HIDE DEF first
  <2>6. count \in Nat /\ 4 * count <= Len(payload) + 1 - first
    BY <2>1, <2>5
  <2> HIDE DEF count
  <2>7. ASSUME NEW n \in 1 .. count
        PROVE  payload[first + 4 * (n - 1) + 2] \in Byte
    <3>1. first + 4 * (n - 1) + 2 \in 1 .. Len(payload)
      BY <2>1, <2>5, <2>6
    <3> QED
      BY <2>2, <3>1
  <2>8. lockers \in [1 .. count -> Byte]
    BY <2>7
  <2> HIDE DEF lockers
  <2>9. lockers \in UNION {[1 .. n -> Byte] : n \in Nat}
    BY <2>6, <2>8
  <2> QED
    BY <2>3, <2>9, SeqDef
<1>3. auth \in BOOLEAN
  <2> HIDE DEF count, first
  <2> QED
    OBVIOUS
<1> HIDE DEF short, uid, lockers, auth, event
<1>4. event \in {Nothing} \cup TagWithLockers
  <2>1. CASE short
    BY <1>1, <2>1
  <2>2. CASE ~short
    BY <1>1, <1>2, <1>3, <2>2 DEF TagWithLockers
  <2> QED
    BY <2>1, <2>2
<1> QED
  BY <1>4 DEF event

\* Every packet of POCKET means something the handlers know, or nothing.
LEMMA PocketEventTyped ==
  ASSUME NEW data \in Seq(Byte)
  PROVE  PocketEvent(data) \in Heard
<1> DEFINE packet == PocketDecode(data)
           payload == packet.payload
<1>1. packet \in {Nothing, Panic} \/ (packet \notin {Nothing, Panic} /\ payload \in Seq(Byte))
  BY PocketDecodeTyped, PacketIs
<1>2. PocketEvent(data) =
        IF packet \in {Nothing, Panic} THEN packet
        ELSE CASE packet.cmd = 2 -> PocketTag(payload)
               [] packet.cmd = 3 -> PocketTagExtended(payload)
               [] packet.cmd = 8 -> [kind |-> "usart", bytes |-> payload]
               [] packet.cmd = 22 -> PocketInput(payload)
               [] packet.cmd = 134 -> [kind |-> "pong"]
               [] OTHER -> Nothing
  BY DEF PocketEvent
<1> HIDE DEF packet
<1>3. CASE packet \in {Nothing, Panic}
  BY <1>2, <1>3 DEF Heard
<1>4. CASE packet \notin {Nothing, Panic}
  <2>1. payload \in Seq(Byte)
    BY <1>1, <1>4
  <2> HIDE DEF payload
  <2>2. CASE packet.cmd = 2
    <3>1. PocketEvent(data) = PocketTag(payload)
      BY <1>2, <1>4, <2>2
    <3> QED
      BY <2>1, <3>1, PocketTagTyped DEF Heard, Report, Tag
  <2>3. CASE packet.cmd = 3
    <3>1. PocketEvent(data) = PocketTagExtended(payload)
      BY <1>2, <1>4, <2>3
    <3> QED
      BY <2>1, <3>1, PocketTagExtendedTyped DEF Heard
  <2>4. CASE packet.cmd = 8
    <3>1. PocketEvent(data) = [kind |-> "usart", bytes |-> payload]
      BY <1>2, <1>4, <2>4
    <3> QED
      BY <2>1, <3>1 DEF Heard, Signal
  <2>5. CASE packet.cmd = 22
    <3> DEFINE passed == payload[1] % 2 = 1
    <3>1. PocketEvent(data) = IF Len(payload) < 2 THEN Nothing
                              ELSE [kind |-> "pass", passed |-> passed]
      BY <1>2, <1>4, <2>5 DEF PocketInput
    <3>2. passed \in BOOLEAN
      OBVIOUS
    <3> HIDE DEF passed
    <3> QED
      BY <3>1, <3>2 DEF Heard, Report
  <2>6. CASE packet.cmd = 134
    <3>1. PocketEvent(data) = [kind |-> "pong"]
      BY <1>2, <1>4, <2>6
    <3> QED
      BY <3>1 DEF Heard, Report
  <2>7. CASE packet.cmd \notin {2, 3, 8, 22, 134}
    <3>1. PocketEvent(data) = Nothing
      BY <1>2, <1>4, <2>7
    <3> QED
      BY <3>1 DEF Heard
  <2> QED
    BY <2>2, <2>3, <2>4, <2>5, <2>6, <2>7
<1> QED
  BY <1>3, <1>4

\* DecodePacket of GAT takes the data from inside the packet.
LEMMA GatDecodeTyped ==
  ASSUME NEW data \in Seq(Byte)
  PROVE  GatDecode(data) = Nothing \/ IsPacket(GatDecode(data))
<1> DEFINE short == Len(data) < 4 \/ data[1] < 3 \/ Len(data) < data[1] + 1
           cmd == data[3]
           first == IF HasStatus(cmd) THEN 5 ELSE 4
           last == IF data[1] - 1 >= first THEN data[1] - 1 ELSE first - 1
           wrong == Len(data) <= last \/ LRC(SubSeq(data, 1, last)) # data[last + 1]
           payload == SubSeq(data, first, last)
           packet == GatDecode(data)
<1>1. packet = IF short THEN Nothing
               ELSE IF wrong THEN Nothing
               ELSE [kind |-> "packet", cmd |-> cmd, payload |-> payload]
  BY DEF GatDecode
<1>2. ASSUME ~short, ~wrong
      PROVE  payload \in Seq(Byte)
  <2>1. Len(data) \in Nat /\ Len(data) >= 4
    BY <1>2, LenProperties
  <2>2. data[1] \in Nat
    BY <2>1, ByteAt, 1 \in 1 .. Len(data)
  <2>3. ~(Len(data) <= last)
    BY <1>2
  <2>4. first \in Nat \ {0}
    OBVIOUS
  <2> HIDE DEF first
  <2>5. last \in Int
    BY <2>2, <2>4
  <2> HIDE DEF last
  <2>6. last <= Len(data)
    BY <2>1, <2>3, <2>5
  <2> QED
    BY <2>4, <2>5, <2>6, PieceOfBytes
<1> HIDE DEF short, wrong, payload, cmd, packet
<1>3. packet = Nothing \/ IsPacket(packet)
  <2>1. CASE short \/ wrong
    BY <1>1, <2>1
  <2>2. CASE ~short /\ ~wrong
    BY <1>1, <1>2, <2>2 DEF IsPacket
  <2> QED
    BY <2>1, <2>2
<1> QED
  BY <1>3 DEF packet

\* Every packet of GAT means something the handlers know, or nothing.
LEMMA GatEventTyped ==
  ASSUME NEW data \in Seq(Byte)
  PROVE  GatEvent(data) \in Heard
<1> DEFINE packet == GatDecode(data)
           payload == packet.payload
<1>1. packet = Nothing \/ (packet # Nothing /\ payload \in Seq(Byte))
  BY GatDecodeTyped, PacketIs
<1>2. GatEvent(data) = IF packet = Nothing THEN Nothing
                       ELSE CASE packet.cmd = 128 -> GatTag(payload)
                              [] packet.cmd = 229 -> [kind |-> "pong"]
                              [] OTHER -> Nothing
  BY DEF GatEvent, GatCardIdent, GatReqMaster
<1> HIDE DEF packet
<1>3. CASE packet = Nothing
  BY <1>2, <1>3 DEF Heard
<1>4. CASE packet # Nothing
  <2>1. payload \in Seq(Byte)
    BY <1>1, <1>4
  <2> HIDE DEF payload
  <2>2. CASE packet.cmd = 128
    <3> DEFINE uid == payload[4]
    <3>1. GatEvent(data) = IF Len(payload) < 12 THEN Nothing
                           ELSE [kind |-> "tag", uid |-> uid, auth |-> TRUE]
      BY <1>2, <1>4, <2>2 DEF GatTag
    <3>2. ASSUME ~(Len(payload) < 12)
          PROVE  uid \in Byte
      <4>1. Len(payload) \in Nat
        BY <2>1, LenProperties
      <4>2. 4 \in 1 .. Len(payload)
        BY <3>2, <4>1
      <4> QED
        BY <2>1, <4>2, ElementOfSeq
    <3> HIDE DEF uid
    <3> QED
      BY <3>1, <3>2 DEF Heard, Report
  <2>3. CASE packet.cmd = 229
    <3>1. GatEvent(data) = [kind |-> "pong"]
      BY <1>2, <1>4, <2>3
    <3> QED
      BY <3>1 DEF Heard, Report
  <2>4. CASE packet.cmd \notin {128, 229}
    <3>1. GatEvent(data) = Nothing
      BY <1>2, <1>4, <2>4
    <3> QED
      BY <3>1 DEF Heard
  <2> QED
    BY <2>2, <2>3, <2>4
<1> QED
  BY <1>3, <1>4

\* Every packet of JSP that is handed on means something the handlers know.
LEMMA JspEventTyped ==
  ASSUME NEW text \in JspText
  PROVE  JspEvent(text) \in Heard
<1> DEFINE packet == JspDecode(text)
           cmd == packet.cmd
           payload == packet.payload
           uid == payload[1]
           passed == payload[1] = 1
<1>1. text \in Seq(Byte) /\ Len(text) = 2
  BY DEF JspText
<1>2. payload = Tail(text)
  BY <1>1 DEF JspDecode
<1>3. uid \in Byte
  <2>1. text # <<>>
    BY <1>1, EmptySeq
  <2>2. 1 \in 1 .. Len(Tail(text)) /\ Tail(text) \in Seq(Byte)
    BY <1>1, <2>1, HeadTailProperties
  <2> HIDE DEF payload
  <2> QED
    BY <1>2, <2>2, ElementOfSeq
<1>4. passed \in BOOLEAN
  <2> HIDE DEF payload
  <2> QED
    OBVIOUS
<1>5. JspEvent(text) =
        CASE cmd = 116 -> [kind |-> "tag", uid |-> uid, auth |-> TRUE]
          [] cmd = 112 -> [kind |-> "pass", passed |-> passed]
          [] cmd = 111 -> [kind |-> "pong"]
          [] OTHER -> Nothing
  BY DEF JspEvent, JspCommand
<1> HIDE DEF cmd, payload, uid, passed
<1>6. CASE cmd = 116
  BY <1>3, <1>5, <1>6 DEF Heard, Report
<1>7. CASE cmd = 112
  BY <1>4, <1>5, <1>7 DEF Heard, Report
<1>8. CASE cmd = 111
  BY <1>5, <1>8 DEF Heard, Report
<1>9. CASE cmd \notin {116, 112, 111}
  BY <1>5, <1>9 DEF Heard
<1> QED
  BY <1>6, <1>7, <1>8, <1>9

\* The packets of a protocol.
FrameOf(type) == IF type = "jsp" THEN JspText ELSE Seq(Byte)

\* Every packet of every protocol means something the handlers know, or nothing.
LEMMA EventTyped ==
  ASSUME NEW type \in Types, NEW frame \in FrameOf(type)
  PROVE  EventOf(type, frame) \in Heard
<1>1. CASE type = "pocket"
  <2>1. EventOf(type, frame) = PocketEvent(frame) /\ frame \in Seq(Byte)
    BY <1>1 DEF EventOf, FrameOf
  <2> QED
    BY <2>1, PocketEventTyped
<1>2. CASE type = "gat"
  <2>1. EventOf(type, frame) = GatEvent(frame) /\ frame \in Seq(Byte)
    BY <1>2 DEF EventOf, FrameOf
  <2> QED
    BY <2>1, GatEventTyped
<1>3. CASE type = "sphinx"
  <2>1. EventOf(type, frame) = SphinxEvent(frame)
    BY <1>3 DEF EventOf
  <2>2. SphinxEvent(frame) \in {Nothing, [kind |-> "pong"]}
    BY DEF SphinxEvent
  <2> QED
    BY <2>1, <2>2 DEF Heard, Report
<1>4. CASE type = "jsp"
  <2>1. EventOf(type, frame) = JspEvent(frame) /\ frame \in JspText
    BY <1>4 DEF EventOf, FrameOf
  <2> QED
    BY <2>1, JspEventTyped
<1> QED
  BY <1>1, <1>2, <1>3, <1>4 DEF Types

\* What the handlers work on, typed.
Extra == [usart : Seq(Byte), lockers : Seq(Byte), uid : Byte]
Fetched == [uid : Byte, lockers : Seq(Byte)]
State ==
  [extra : Extra, reported : Seq(Report), fetched : SUBSET Fetched, alive : BOOLEAN]

\* handlePocketSignal keeps the types.
LEMMA SignalTyped ==
  ASSUME NEW st \in State, NEW bytes \in Seq(Byte)
  PROVE  HandleSignal(st, bytes) \in State
<1> DEFINE all == st.extra.usart \o bytes
           parsed == ParseBarcodes(all)
           rest == parsed.rest
           told == Tell(st.reported, parsed.frames)
           after == HandleSignal(st, bytes)
<1>1. st.extra \in Extra /\ st.reported \in Seq(Report) /\ st.extra.usart \in Seq(Byte)
  BY DEF State, Extra
<1>2. all \in Seq(Byte)
  BY <1>1, ConcatProperties
<1> HIDE DEF all
<1>3. rest \in Seq(Byte) /\ parsed.frames \in Seq(Seq(Byte))
  BY <1>2, BarcodeIsRound, CutUpIs DEF ParseBarcodes
<1>4. told \in Seq(Report)
  <2> HIDE DEF parsed
  <2> QED
    BY <1>1, <1>3, TellTyped
<1>5. after = [st EXCEPT !.extra.usart = rest, !.reported = told]
  BY DEF HandleSignal, all
<1> HIDE DEF parsed, rest, told, after
<1>6. after \in State
  BY <1>3, <1>4, <1>5 DEF State, Extra
<1> QED
  BY <1>6 DEF after

\* ProcessTagRead and the lockers kept for it keep the types.
LEMMA TagTyped ==
  ASSUME NEW st \in State, NEW event \in Tag \cup TagWithLockers, NEW denied
  PROVE  HandleTag(st, event, denied) \in State
<1> DEFINE uid == event.uid
           auth == event.auth
           kept == KeepLockers(st.extra, event)
           fetch == FetchLockers(kept, uid)
           tag == [uid |-> uid, lockers |-> fetch.lockers]
           told == [kind |-> "tag", uid |-> uid, auth |-> auth]
           after == HandleTag(st, event, denied)
<1>1. uid \in Byte /\ auth \in BOOLEAN
  BY DEF Tag, TagWithLockers
<1>2. kept \in Extra
  <2>1. st.extra \in Extra
    BY DEF State
  <2>2. CASE "lockers" \in DOMAIN event /\ event.lockers # <<>>
    <3> DEFINE ls == event.lockers
               held == st.extra
    <3>1. event \in TagWithLockers
      BY <2>2 DEF Tag
    <3>2. ls \in Seq(Byte)
      BY <3>1 DEF TagWithLockers
    <3>3. kept = [held EXCEPT !.lockers = ls, !.uid = uid]
      BY <2>2 DEF KeepLockers
    <3> HIDE DEF ls, held, kept, uid
    <3> QED
      BY <1>1, <2>1, <3>2, <3>3 DEF Extra, held
  <2>3. CASE ~("lockers" \in DOMAIN event /\ event.lockers # <<>>)
    BY <2>1, <2>3 DEF KeepLockers
  <2> QED
    BY <2>2, <2>3
<1> HIDE DEF uid, auth, kept
<1>3. fetch.extra \in Extra /\ fetch.lockers \in Seq(Byte)
  <2>1. <<>> \in Seq(Byte) /\ 0 \in Byte
    BY EmptySeq DEF Byte
  <2>2. CASE kept.lockers # <<>> /\ kept.uid = uid
    <3>1. fetch.lockers = kept.lockers
          /\ fetch.extra = [kept EXCEPT !.lockers = <<>>, !.uid = 0]
      BY <2>2 DEF FetchLockers
    <3> HIDE DEF fetch
    <3> QED
      BY <1>2, <2>1, <3>1 DEF Extra
  <2>3. CASE ~(kept.lockers # <<>> /\ kept.uid = uid)
    <3>1. fetch.lockers = <<>> /\ fetch.extra = kept
      BY <2>3 DEF FetchLockers
    <3> HIDE DEF fetch
    <3> QED
      BY <1>2, <2>1, <3>1
  <2> QED
    BY <2>2, <2>3
<1>4. tag \in Fetched
  <2> HIDE DEF fetch
  <2> QED
    BY <1>1, <1>3 DEF Fetched
<1>5. told \in Report
  BY <1>1 DEF Report
<1>6. after = IF uid \in denied
              THEN [st EXCEPT !.extra = kept, !.reported = Append(st.reported, told)]
              ELSE [st EXCEPT !.extra = fetch.extra, !.reported = Append(st.reported, told),
                              !.fetched = st.fetched \cup {tag}]
  BY DEF HandleTag, uid, auth, kept
<1> HIDE DEF fetch, tag, told, after
<1>7. Append(st.reported, told) \in Seq(Report)
  BY <1>5 DEF State
<1>8. CASE uid \in denied
  BY <1>2, <1>6, <1>7, <1>8 DEF State, after
<1>9. CASE uid \notin denied
  <2> DEFINE e == fetch.extra
             r == Append(st.reported, told)
             more == st.fetched \cup {tag}
  <2>1. after = [st EXCEPT !.extra = e, !.reported = r, !.fetched = more]
    BY <1>6, <1>9
  <2>2. e \in Extra /\ r \in Seq(Report) /\ more \in SUBSET Fetched
    BY <1>3, <1>4, <1>7 DEF State
  <2> HIDE DEF e, r, more
  <2>3. after \in State
    BY <2>1, <2>2 DEF State
  <2> QED
    BY <2>3 DEF after
<1> QED
  BY <1>8, <1>9

\* Every handler keeps the types.
LEMMA HandleEventTyped ==
  ASSUME NEW st \in State, NEW event \in Heard, NEW denied
  PROVE  HandleEvent(st, event, denied) \in State
<1> DEFINE after == HandleEvent(st, event, denied)
<1>1. CASE event = Nothing
  <2>1. event.kind # "usart" /\ event.kind # "tag" /\ event # Panic
    BY <1>1 DEF Nothing, Panic
  <2>2. after = st
    BY <1>1, <2>1 DEF HandleEvent
  <2> QED
    BY <2>2
<1>2. CASE event.kind = "usart"
  <2>1. event \in Signal /\ event # Nothing /\ event # Panic
    BY <1>2 DEF Heard, TagWithLockers, Report, Nothing, Panic
  <2>2. event.bytes \in Seq(Byte)
    BY <2>1 DEF Signal
  <2>3. after = HandleSignal(st, event.bytes)
    BY <1>2, <2>1 DEF HandleEvent
  <2> QED
    BY <2>2, <2>3, SignalTyped
<1>3. CASE event.kind = "tag"
  <2>1. event \in Tag \cup TagWithLockers /\ event # Nothing /\ event # Panic
    BY <1>3 DEF Heard, Signal, Report, Tag, Nothing, Panic
  <2>2. after = HandleTag(st, event, denied)
    BY <1>3, <2>1 DEF HandleEvent
  <2> QED
    BY <2>1, <2>2, TagTyped
<1>4. CASE /\ event # Nothing /\ event # Panic
           /\ event.kind # "usart" /\ event.kind # "tag"
  <2>1. event \in Report
    BY <1>4 DEF Heard, Signal, TagWithLockers
  <2>2. Append(st.reported, event) \in Seq(Report)
    BY <2>1 DEF State
  <2> DEFINE told == Append(st.reported, event)
  <2>3. after = [st EXCEPT !.reported = told]
    BY <1>4 DEF HandleEvent
  <2> HIDE DEF told, after
  <2>4. after \in State
    BY <2>2, <2>3 DEF State, told
  <2> QED
    BY <2>4 DEF after
<1>5. CASE event = Panic
  <2>1. event.kind # "usart" /\ event.kind # "tag" /\ event # Nothing
    BY <1>5 DEF Nothing, Panic
  <2>2. after = [st EXCEPT !.alive = FALSE]
    BY <1>5, <2>1 DEF HandleEvent
  <2> HIDE DEF after
  <2>3. after \in State
    BY <2>2 DEF State
  <2> QED
    BY <2>3 DEF after
<1> QED
  BY <1>1, <1>2, <1>3, <1>4, <1>5

\* New settings have the types of old ones.
LEMMA RenewTyped ==
  ASSUME NEW st \in State, NEW usart \in Seq(Byte)
  PROVE  Renew(st) \in State /\ RenewedWith(st, usart) \in State
<1>1. <<>> \in Seq(Byte) /\ 0 \in Byte
  BY EmptySeq DEF Byte
<1>2. NoExtra \in Extra
  BY <1>1 DEF NoExtra, Extra
<1>3. Renew(st) \in State
  BY <1>2 DEF Renew, State
<1>4. RenewedWith(st, usart) = [Renew(st) EXCEPT !.extra.usart = usart]
  BY DEF RenewedWith
<1> QED
  BY <1>3, <1>4 DEF State, Extra

\* Handlers that lose what they are at work on keep the types.
LEMMA HandleLosingTyped ==
  ASSUME NEW st \in State, NEW event \in Heard, NEW denied
  PROVE  HandleLosing(st, event, denied) \in State
<1> DEFINE after == HandleLosing(st, event, denied)
           bare == [kind |-> "tag", uid |-> event.uid, auth |-> event.auth]
           new == Renew(st)
<1>1. CASE event.kind = "usart"
  BY <1>1 DEF HandleLosing
<1>2. CASE event.kind = "tag"
  <2>1. after = HandleTag(new, bare, denied)
    BY <1>2 DEF HandleLosing
  <2>2. event \in Tag \cup TagWithLockers
    BY <1>2 DEF Heard, Signal, Report, Tag, Nothing, Panic
  <2>3. bare \in Tag
    BY <2>2 DEF Tag, TagWithLockers
  <2>4. new \in State
    <3>1. <<>> \in Seq(Byte)
      BY EmptySeq
    <3> QED
      BY <3>1, RenewTyped
  <2> HIDE DEF after, bare, new
  <2>5. after \in State
    BY <2>1, <2>3, <2>4, TagTyped
  <2> QED
    BY <2>5 DEF after
<1>3. CASE event.kind # "usart" /\ event.kind # "tag"
  <2>1. after = HandleEvent(st, event, denied)
    BY <1>3 DEF HandleLosing
  <2> QED
    BY <2>1, HandleEventTyped
<1> QED
  BY <1>1, <1>2, <1>3

\* So does a packet, whenever the settings are replaced.
LEMMA HandlePacketTyped ==
  ASSUME NEW st \in State, NEW event \in Heard, NEW denied, NEW moment
  PROVE  HandlePacket(st, event, denied, moment) \in State
<1> DEFINE packet == HandlePacket(st, event, denied, moment)
           after == HandleEvent(st, event, denied)
           losing == HandleLosing(st, event, denied)
           usart == after.extra.usart
<1>1. packet \in {st, after, RenewedWith(after, usart), Renew(losing), Renew(after)}
  BY DEF HandlePacket, RenewedWith
<1>2. after \in State /\ losing \in State
  BY HandleEventTyped, HandleLosingTyped
<1> HIDE DEF packet, after, losing
<1>3. usart \in Seq(Byte)
  BY <1>2 DEF State, Extra
<1> HIDE DEF usart
<1>4. /\ RenewedWith(after, usart) \in State /\ Renew(losing) \in State
      /\ Renew(after) \in State
  BY <1>2, <1>3, RenewTyped
<1>5. packet \in State
  BY <1>1, <1>2, <1>4
<1> QED
  BY <1>5 DEF packet

\* So do the packets of a read.
LEMMA HandleFramesTyped ==
  ASSUME NEW st \in State, NEW type \in Types, NEW frames \in Seq(FrameOf(type)),
         NEW denied, NEW moments
  PROVE  HandleFrames(st, type, frames, denied, moments) \in State
<1>1. Len(frames) \in Nat
  BY LenProperties
<1>2. PICK f : /\ Handled(f, st, type, frames, denied, moments)
               /\ HandleFrames(st, type, frames, denied, moments) = f[Len(frames)]
  <2>1. HandledUp(st, type, frames, denied, moments)
    BY <1>1, HandleFramesIs
  <2> QED
    BY <2>1 DEF HandledUp
<1> DEFINE T == {n \in Nat : n <= Len(frames) => f[n] \in State}
<1>3. 0 \in T
  BY <1>2 DEF Handled
<1>4. ASSUME NEW n \in Nat, n \in T
      PROVE  n + 1 \in T
  <2>1. SUFFICES ASSUME n + 1 <= Len(frames)
                 PROVE  f[n + 1] \in State
    OBVIOUS
  <2>2. n + 1 \in 1 .. Len(frames) /\ (n + 1) - 1 = n
    BY <1>1, <2>1
  <2>3. f[n] \in State
    BY <1>1, <1>4, <2>1
  <2> DEFINE event == EventOf(type, frames[n + 1])
             moment == moments[n + 1]
  <2>4. f[n + 1] = HandlePacket(f[n], event, denied, moment)
    BY <1>2, <2>2 DEF Handled
  <2>5. event \in Heard
    <3>1. frames[n + 1] \in FrameOf(type)
      BY <2>2, ElementOfSeq
    <3> QED
      BY <3>1, EventTyped
  <2> HIDE DEF event, moment
  <2> QED
    BY <2>3, <2>4, <2>5, HandlePacketTyped
<1>5. Len(frames) \in T
  <2> HIDE DEF T
  <2> QED
    BY <1>1, <1>3, <1>4, NatSetInduction
<1> QED
  BY <1>1, <1>2, <1>5

\* What processData cuts off are packets of the protocol, and no more remains
\* than there was.
LEMMA FramesTyped ==
  ASSUME NEW type \in Types, NEW buf \in Seq(Byte)
  PROVE  LET cut == Frames(type, buf)
         IN /\ cut.frames \in Seq(FrameOf(type))
            /\ cut.rest \in Seq(Byte) /\ Len(cut.rest) <= Len(buf)
            /\ cut.reader \in {"reading", "spinning"}
<1> DEFINE round == RoundOf(type, buf)
           at == CutFrom(round, Len(buf))[1]
           cut == CutUp(buf, round)
<1>1. IsRound(round, Len(buf), FrameOf(type))
  <2>1. CASE type = "jsp"
    <3>1. round = JspRound(buf) /\ FrameOf(type) = JspText
      BY <2>1 DEF RoundOf, FrameOf
    <3> QED
      BY <3>1, JspIsRound
  <2>2. CASE type # "jsp"
    <3>1. type \in Patient /\ FrameOf(type) = Seq(Byte)
      BY <2>2 DEF Types, Patient, FrameOf
    <3> QED
      BY <3>1, RoundsAreRounds
  <2> QED
    BY <2>1, <2>2
<1> HIDE DEF round
<1>2. /\ cut.frames \in Seq(FrameOf(type)) /\ at.next \in 1 .. Len(buf) + 1
      /\ cut.rest \in Seq(Byte) /\ Len(cut.rest) = Len(buf) + 1 - at.next
      /\ cut.reader \in {"reading", "spinning"}
  BY <1>1, CutUpIs
<1>3. Len(buf) \in Nat
  BY LenProperties
<1> HIDE DEF at, cut
<1>4. Len(cut.rest) <= Len(buf)
  BY <1>2, <1>3
<1> QED
  BY <1>2, <1>4 DEF Frames, cut, round

\* The initial state is typed.
LEMMA TypeInit == Init => TypeOK
<1> SUFFICES ASSUME Init
             PROVE  TypeOK
  OBVIOUS
<1>1. /\ conversation \in Conversations /\ received = 0 /\ settings = NoType
      /\ attached = "never" /\ buffer = <<>> /\ reader = "reading" /\ extra = NoExtra
      /\ reported = <<>> /\ fetched = {} /\ replaced = <<>>
  BY DEF Init
<1>2. Len(Stream) \in Nat
  BY <1>1, TerminalsAreTyped, TerminalsSendBytes, LenProperties DEF Stream
<1>3. /\ <<>> \in Seq(Byte) /\ <<>> \in Seq(Report) /\ <<>> \in Seq(Moments)
      /\ Len(<<>>) = 0 /\ 0 \in Byte
  BY EmptySeq DEF Byte
<1>4. NoExtra \in [usart : Seq(Byte), lockers : Seq(Byte), uid : Byte]
  BY <1>3 DEF NoExtra
<1> QED
  BY <1>1, <1>2, <1>3, <1>4 DEF TypeOK

\* A read keeps the types, whatever the bytes are and whatever the reader takes
\* the terminal for.
LEMMA TypeRead ==
  ASSUME TypeOK, NEW n \in ReadSizes, NEW denied \in Denials, Read(n, denied)
  PROVE  TypeOK'
<1> DEFINE piece == SubSeq(Stream, received + 1, received + n)
           buf == buffer \o piece
           type == Detect(buf)
           cut == Frames(type, buf)
<1>1. /\ conversation' = conversation /\ received' = received + n
      /\ received + n <= Len(Stream)
      /\ attached' \in {attached, "late"} /\ settings' \in {type, conversation.type}
      /\ type = NoType => /\ buffer' = <<>> /\ reader' = reader /\ extra' = extra
                          /\ reported' = reported /\ fetched' = fetched
                          /\ replaced' = replaced
  BY DEF Read
<1>2. /\ n \in Nat \ {0} /\ Stream \in Seq(Byte) /\ Len(Stream) \in Nat /\ Stream' = Stream
      /\ received \in Nat
  <2>1. n \in Nat \ {0}
    BY ReadsFillTheBuffer
  <2>2. Stream \in Seq(Byte)
    BY TerminalsAreTyped, TerminalsSendBytes DEF TypeOK, Stream
  <2>3. Len(Stream) \in Nat
    BY <2>2, LenProperties
  <2>4. Stream' = Stream
    BY <1>1 DEF Stream
  <2> QED
    BY <2>1, <2>2, <2>3, <2>4 DEF TypeOK
<1>3. received' \in 0 .. Len(Stream')
  BY <1>1, <1>2
<1>4. buf \in Seq(Byte) /\ Len(buf) \in Nat /\ Len(buf) <= received + n
  <2>1. /\ received + 1 \in Nat \ {0} /\ received + n \in Int
        /\ received + n <= Len(Stream) /\ received + 1 <= received + n
    BY <1>1, <1>2
  <2>2. /\ piece \in Seq(Byte)
        /\ Len(piece) = IF received + 1 <= received + n
                        THEN (received + n) - (received + 1) + 1 ELSE 0
    BY <1>2, <2>1, PieceOfBytes
  <2> HIDE DEF piece
  <2>3. Len(piece) = n
    BY <1>2, <2>1, <2>2
  <2>4. buffer \in Seq(Byte) /\ Len(buffer) \in Nat /\ Len(buffer) <= received
    BY LenProperties DEF TypeOK
  <2>5. buf \in Seq(Byte) /\ Len(buf) = Len(buffer) + Len(piece)
    BY <2>2, <2>4, ConcatProperties
  <2> HIDE DEF buf
  <2> QED
    BY <1>2, <2>3, <2>4, <2>5
<1> HIDE DEF buf
<1>5. type \in Types \cup {NoType}
  <2>1. settings \in Types \cup {NoType}
    BY DEF TypeOK
  <2>2. CASE settings # NoType
    BY <2>1, <2>2 DEF Detect
  <2>3. CASE settings = NoType
    <3>1. type \in {"pocket", "gat", NoType}
      BY <2>3 DEF Detect
    <3> QED
      BY <3>1 DEF Types
  <2> QED
    BY <2>2, <2>3
<1> HIDE DEF type
<1>6. Now \in State
  BY DEF TypeOK, State, Extra, Fetched, Now
<1>7. /\ buffer' \in Seq(Byte) /\ Len(buffer') <= received'
      /\ reader' \in {"reading", "spinning", "panicked"} /\ extra' \in Extra
      /\ reported' \in Seq(Report) /\ fetched' \subseteq Fetched
      /\ replaced' \in Seq(Moments)
  <2>1. CASE type = NoType
    <3>1. <<>> \in Seq(Byte) /\ Len(<<>>) = 0
      BY EmptySeq
    <3>2. /\ buffer' = <<>> /\ reader' = reader /\ extra' = extra
          /\ reported' = reported /\ fetched' = fetched /\ replaced' = replaced
      BY <1>1, <2>1
    <3>3. received' >= 0
      BY <1>1, <1>2
    <3> QED
      BY <3>1, <3>2, <3>3 DEF TypeOK, Extra, Fetched
  <2>2. CASE type # NoType
    <3>1. type \in Types
      BY <1>5, <2>2
    <3>2. /\ cut.frames \in Seq(FrameOf(type))
          /\ cut.rest \in Seq(Byte) /\ Len(cut.rest) <= Len(buf)
          /\ cut.reader \in {"reading", "spinning"}
      BY <1>4, <3>1, FramesTyped
    <3>3. /\ buffer' = cut.rest
          /\ \E during \in MomentsAmong(type, cut.frames) :
               LET after == HandleFrames(Now, type, cut.frames, denied, during)
               IN /\ reader' = IF after.alive THEN cut.reader ELSE "panicked"
                  /\ extra' = after.extra /\ reported' = after.reported
                  /\ fetched' = after.fetched /\ replaced' = replaced \o during
      <4>1. type # NoType =>
              /\ buffer' = cut.rest
              /\ \E during \in MomentsAmong(type, cut.frames) :
                   LET after == HandleFrames(Now, type, cut.frames, denied, during)
                   IN /\ reader' = IF after.alive THEN cut.reader ELSE "panicked"
                      /\ extra' = after.extra /\ reported' = after.reported
                      /\ fetched' = after.fetched /\ replaced' = replaced \o during
        BY DEF Read, type, buf
      <4> QED
        BY <2>2, <4>1
    <3>4. PICK during \in MomentsAmong(type, cut.frames) :
            LET after == HandleFrames(Now, type, cut.frames, denied, during)
            IN /\ reader' = IF after.alive THEN cut.reader ELSE "panicked"
               /\ extra' = after.extra /\ reported' = after.reported
               /\ fetched' = after.fetched /\ replaced' = replaced \o during
      BY <3>3
    <3> DEFINE after == HandleFrames(Now, type, cut.frames, denied, during)
    <3> HIDE DEF cut
    <3>5. /\ extra' \in Extra /\ reported' \in Seq(Report) /\ fetched' \subseteq Fetched
          /\ reader' \in {"reading", "spinning", "panicked"}
          /\ replaced' \in Seq(Moments)
      <4>1. after \in State
        BY <1>6, <3>1, <3>2, HandleFramesTyped
      <4>2. during \in Seq(Moments)
        BY <3>2, MomentsAreSeq
      <4>3. replaced' = replaced \o during /\ replaced \in Seq(Moments)
        BY <3>4 DEF TypeOK
      <4>4. replaced' \in Seq(Moments)
        BY <4>2, <4>3, ConcatProperties
      <4>5. /\ extra' = after.extra /\ reported' = after.reported
            /\ fetched' = after.fetched
            /\ reader' = IF after.alive THEN cut.reader ELSE "panicked"
        BY <3>4
      <4> HIDE DEF after
      <4> QED
        BY <3>2, <4>1, <4>4, <4>5 DEF State
    <3>6. Len(cut.rest) \in Nat
      BY <3>2, LenProperties
    <3>7. Len(buffer') <= received'
      BY <1>1, <1>2, <1>4, <3>2, <3>3, <3>6
    <3> QED
      BY <3>2, <3>3, <3>5, <3>7
  <2> QED
    BY <2>1, <2>2
<1>8. settings' \in Types \cup {NoType}
  <2>1. conversation.type \in Types
    BY TerminalsAreTyped, TerminalsSendBytes DEF TypeOK
  <2> QED
    BY <1>1, <1>5, <2>1
<1>9. conversation' \in Conversations /\ attached' \in {"never", "first", "late"}
  BY <1>1 DEF TypeOK
<1> HIDE DEF cut
<1> QED
  BY <1>3, <1>7, <1>8, <1>9 DEF TypeOK, Extra, Fetched

\* Attaching the settings keeps the types.
LEMMA TypeAttach == TypeOK /\ Attach => TypeOK'
<1> SUFFICES ASSUME TypeOK, Attach
             PROVE  TypeOK'
  OBVIOUS
<1>1. /\ conversation' = conversation /\ received' = received /\ buffer' = buffer
      /\ reader' = reader /\ reported' = reported /\ fetched' = fetched
      /\ attached' = AttachedFirst /\ extra' \in {extra, NoExtra}
      /\ settings' \in {NoType, conversation.type} /\ replaced' \in {replaced, ReplacedNow}
  BY DEF Attach
<1>2. conversation.type \in Types
  BY TerminalsAreTyped, TerminalsSendBytes DEF TypeOK
<1>3. Stream' = Stream
  BY <1>1 DEF Stream
<1>4. NoExtra \in [usart : Seq(Byte), lockers : Seq(Byte), uid : Byte]
  <2>1. <<>> \in Seq(Byte) /\ 0 \in Byte
    BY EmptySeq DEF Byte
  <2> QED
    BY <2>1 DEF NoExtra
<1>5. attached' \in {"never", "first", "late"}
  BY <1>1 DEF TypeOK, AttachedFirst
<1>6. replaced' \in Seq(Moments)
  <2>1. replaced \in Seq(Moments)
    BY DEF TypeOK
  <2> QED
    BY <1>1, <2>1, ReplacedNowIs
<1> QED
  BY <1>1, <1>2, <1>3, <1>4, <1>5, <1>6 DEF TypeOK

\* Whatever bytes arrive, however they are cut and whenever the settings are
\* replaced: what the handlers keep and report has its type, and the reader keeps
\* no more than it has read.  (When it panics, WhatArrivedIsReported says.)
THEOREM FramingTyped == Spec => []TypeOK
<1>1. TypeOK /\ UNCHANGED vars => TypeOK'
  BY DEF TypeOK, vars, Stream
<1>2. TypeOK /\ [Next]_vars => TypeOK'
  BY <1>1, TypeRead, TypeAttach DEF Next
<1> QED
  BY TypeInit, <1>2, PTL DEF Spec

-----------------------------------------------------------------------------
(* Messages, one behind the other *)

\* The first n of two lists of sequences that agree so far are put together alike.
LEMMA FlattensAgree ==
  ASSUME NEW s, NEW t, NEW f, NEW g, Flattens(f, s), Flattens(g, t), NEW n \in Nat,
         Len(s) \in Nat, Len(t) \in Nat, n <= Len(s), n <= Len(t),
         \A i \in 1 .. n : s[i] = t[i]
  PROVE  \A i \in 0 .. n : f[i] = g[i]
<1> DEFINE T == {i \in Nat : i <= n => f[i] = g[i]}
<1>1. 0 \in T
  BY DEF Flattens
<1>2. ASSUME NEW i \in Nat, i \in T
      PROVE  i + 1 \in T
  <2>1. SUFFICES ASSUME i + 1 <= n
                 PROVE  f[i + 1] = g[i + 1]
    OBVIOUS
  <2>2. /\ i + 1 \in 1 .. n /\ i + 1 \in 1 .. Len(s) /\ i + 1 \in 1 .. Len(t)
        /\ (i + 1) - 1 = i /\ f[i] = g[i]
    BY <1>2, <2>1
  <2>3. f[i + 1] = f[i] \o s[i + 1] /\ g[i + 1] = g[i] \o t[i + 1]
    BY <2>2 DEF Flattens
  <2> QED
    BY <2>2, <2>3
<1>3. Nat \subseteq T
  <2> HIDE DEF T
  <2> QED
    BY <1>1, <1>2, NatSetInduction
<1> QED
  BY <1>3

\* The first n sequences.
LEMMA FlattenOfFirst ==
  ASSUME NEW S, NEW s \in Seq(Seq(S)), NEW f, Flattens(f, s), NEW n \in 0 .. Len(s)
  PROVE  FlattenSeq(SubSeq(s, 1, n)) = f[n]
<1> DEFINE t == SubSeq(s, 1, n)
<1>1. Len(s) \in Nat /\ n \in Nat /\ n <= Len(s)
  BY LenProperties
<1>2. \A i \in 1 .. Len(s) : s[i] \in Seq(S)
  BY ElementOfSeq
<1>3. /\ t \in Seq(Seq(S)) /\ Len(t) = n /\ \A i \in 1 .. n : t[i] = s[i]
  <2>1. \A i \in 1 .. n : s[i] \in Seq(S)
    BY <1>1, <1>2
  <2>2. /\ t \in Seq(Seq(S)) /\ Len(t) = IF 1 <= n THEN n - 1 + 1 ELSE 0
        /\ \A i \in 1 .. n - 1 + 1 : t[i] = s[1 + i - 1]
    <3>1. 1 \in Int /\ n \in Int
      BY <1>1
    <3> QED
      BY <2>1, <3>1, SubSeqProperties
  <2> HIDE DEF t
  <2>3. Len(t) = n /\ n - 1 + 1 = n /\ \A i \in 1 .. n : 1 + i - 1 = i
    BY <1>1, <2>2
  <2> QED
    BY <2>2, <2>3
<1> HIDE DEF t
<1>4. PICK g : Flattens(g, t) /\ FlattenSeq(t) = g[Len(t)]
  BY <1>3, FlattenIs
<1>5. \A i \in 0 .. n : f[i] = g[i]
  <2>1. /\ Len(s) \in Nat /\ n \in Nat /\ n <= Len(s) /\ n <= Len(t) /\ Len(t) \in Nat
        /\ \A i \in 1 .. n : s[i] = t[i]
    BY <1>1, <1>3
  <2>2. Flattens(f, s) /\ Flattens(g, t)
    BY <1>4
  <2> QED
    BY <2>1, <2>2, FlattensAgree
<1>6. n \in 0 .. n
  BY <1>1
<1> QED
  BY <1>3, <1>4, <1>5, <1>6 DEF t

\* What the first sequences are flattened to, with one more behind them.
LEMMA FlattensSoFar ==
  ASSUME NEW s, NEW t, Len(s) \in Nat, Len(t) \in Nat, Len(t) = Len(s) + 1,
         \A i \in 1 .. Len(s) : t[i] = s[i],
         NEW f, NEW g, Flattens(f, s), Flattens(g, t)
  PROVE  f[Len(s)] = g[Len(s)]
<1> DEFINE n == Len(s)
<1>1. n \in Nat /\ n <= Len(s) /\ n <= Len(t)
  OBVIOUS
<1>2. \A i \in 1 .. n : s[i] = t[i]
  OBVIOUS
<1> HIDE DEF n
<1>3. \A i \in 0 .. n : f[i] = g[i]
  BY <1>1, <1>2, FlattensAgree
<1>4. n \in 0 .. n
  BY <1>1
<1> QED
  BY <1>3, <1>4 DEF n

\* One sequence more.
LEMMA FlattenOneMore ==
  ASSUME NEW S, NEW s \in Seq(Seq(S)), NEW t \in Seq(Seq(S)), Len(t) = Len(s) + 1,
         \A i \in 1 .. Len(s) : t[i] = s[i]
  PROVE  FlattenSeq(t) = FlattenSeq(s) \o t[Len(t)]
<1>1. Len(s) \in Nat /\ Len(t) \in Nat
  BY LenProperties
<1>2. PICK f : Flattens(f, s) /\ FlattenSeq(s) = f[Len(s)]
  BY FlattenIs
<1>3. PICK g : Flattens(g, t) /\ FlattenSeq(t) = g[Len(t)]
  BY FlattenIs
<1>4. f[Len(s)] = g[Len(s)]
  <2>1. Flattens(f, s) /\ Flattens(g, t)
    BY <1>2, <1>3
  <2> QED
    BY <1>1, <2>1, FlattensSoFar
<1>5. Len(s) \in 0 .. Len(s) /\ Len(t) \in 1 .. Len(t) /\ Len(t) - 1 = Len(s)
  BY <1>1
<1>6. g[Len(t)] = g[Len(t) - 1] \o t[Len(t)]
  BY <1>3, <1>5 DEF Flattens
<1> QED
  BY <1>2, <1>3, <1>4, <1>5, <1>6

\* The sequences of two lists.
LEMMA FlattenOfBoth ==
  ASSUME NEW S, NEW s \in Seq(Seq(S)), NEW t \in Seq(Seq(S))
  PROVE  FlattenSeq(s \o t) = FlattenSeq(s) \o FlattenSeq(t)
<1> DEFINE u == s \o t
<1>1. Len(s) \in Nat /\ Len(t) \in Nat /\ u \in Seq(Seq(S)) /\ Len(u) = Len(s) + Len(t)
  BY ConcatProperties, LenProperties
<1>2. /\ \A i \in 1 .. Len(s) : s[i] = u[i]
      /\ \A i \in 1 .. Len(t) : t[i] = u[Len(s) + i]
  <2>1. \A i \in 1 .. Len(s) + Len(t) : u[i] = IF i <= Len(s) THEN s[i] ELSE t[i - Len(s)]
    BY ConcatProperties
  <2> HIDE DEF u
  <2>2. ASSUME NEW i \in 1 .. Len(t)
        PROVE  t[i] = u[Len(s) + i]
    <3>1. /\ Len(s) + i \in 1 .. Len(s) + Len(t) /\ ~(Len(s) + i <= Len(s))
          /\ (Len(s) + i) - Len(s) = i
      BY <1>1
    <3> QED
      BY <2>1, <3>1
  <2>3. ASSUME NEW i \in 1 .. Len(s)
        PROVE  s[i] = u[i]
    <3>1. i \in 1 .. Len(s) + Len(t) /\ i <= Len(s)
      BY <1>1
    <3> QED
      BY <2>1, <3>1
  <2> QED
    BY <2>2, <2>3
<1> HIDE DEF u
<1>3. PICK f : /\ Flattens(f, s) /\ FlattenSeq(s) = f[Len(s)]
               /\ \A i \in 0 .. Len(s) : f[i] \in Seq(S)
  BY FlattenIs
<1>4. PICK g : /\ Flattens(g, t) /\ FlattenSeq(t) = g[Len(t)]
               /\ \A i \in 0 .. Len(t) : g[i] \in Seq(S)
  BY FlattenIs
<1>5. PICK h : Flattens(h, u) /\ FlattenSeq(u) = h[Len(u)]
  BY <1>1, FlattenIs
<1> DEFINE first == f[Len(s)]
           Both(n) == first \o g[n]
<1>6. first = h[Len(s)] /\ first \in Seq(S)
  <2>1. Len(u) \in Nat /\ Len(s) <= Len(u) /\ Len(s) <= Len(s) /\ Len(s) \in 0 .. Len(s)
    BY <1>1
  <2>2. \A i \in 0 .. Len(s) : f[i] = h[i]
    <3> DEFINE n == Len(s)
    <3>1. /\ Flattens(f, s) /\ Flattens(h, u)
          /\ n \in Nat /\ n <= Len(s) /\ n <= Len(u) /\ Len(s) \in Nat /\ Len(u) \in Nat
      BY <1>1, <1>3, <1>5, <2>1
    <3>2. \A i \in 1 .. n : s[i] = u[i]
      BY <1>2
    <3> HIDE DEF n, first, Both
    <3>3. \A i \in 0 .. n : f[i] = h[i]
      BY <3>1, <3>2, FlattensAgree
    <3> QED
      BY <3>3 DEF n
  <2> QED
    BY <1>3, <2>1, <2>2
<1> HIDE DEF first
<1> DEFINE T == {n \in Nat : n <= Len(t) => h[Len(s) + n] = Both(n)}
<1>7. 0 \in T
  <2>1. Both(0) = first
    BY <1>4, <1>6, ConcatEmptySeq DEF Flattens
  <2> HIDE DEF Both
  <2> QED
    BY <1>1, <1>6, <2>1
<1>8. ASSUME NEW n \in Nat, n \in T
      PROVE  n + 1 \in T
  <2> HIDE DEF Both
  <2>1. SUFFICES ASSUME n + 1 <= Len(t)
                 PROVE  h[Len(s) + (n + 1)] = Both(n + 1)
    OBVIOUS
  <2>2. h[Len(s) + n] = Both(n)
    BY <1>1, <1>8, <2>1
  <2> DEFINE k == Len(s) + (n + 1)
             more == t[n + 1]
  <2>3. /\ k \in 1 .. Len(u) /\ k - 1 = Len(s) + n
        /\ n + 1 \in 1 .. Len(t) /\ (n + 1) - 1 = n /\ n \in 0 .. Len(t)
    BY <1>1, <2>1
  <2>4. u[k] = more
    BY <1>2, <2>3
  <2>5. more \in Seq(S)
    BY <2>3, ElementOfSeq
  <2>6. g[n + 1] = g[n] \o more /\ g[n] \in Seq(S)
    BY <1>4, <2>3 DEF Flattens
  <2>7. h[k] = h[k - 1] \o u[k]
    BY <1>5, <2>3 DEF Flattens
  <2> HIDE DEF k, more
  <2>8. h[k] = Both(n) \o more
    BY <2>2, <2>3, <2>4, <2>7
  <2>9. (first \o g[n]) \o more = first \o (g[n] \o more)
    <3> DEFINE b == g[n]
    <3>1. first \in Seq(S) /\ b \in Seq(S) /\ more \in Seq(S)
      BY <1>6, <2>5, <2>6
    <3> HIDE DEF b
    <3>2. (first \o b) \o more = first \o (b \o more)
      BY <3>1, ConcatAssociative
    <3> QED
      BY <3>2 DEF b
  <2>10. Both(n + 1) = Both(n) \o more
    BY <2>6, <2>9 DEF Both
  <2> QED
    BY <2>8, <2>10 DEF k
<1>9. Len(t) \in T
  <2> HIDE DEF T
  <2> QED
    BY <1>1, <1>7, <1>8, NatSetInduction
<1>10. h[Len(u)] = Both(Len(t))
  <2> HIDE DEF Both
  <2> QED
    BY <1>1, <1>9
<1> QED
  BY <1>3, <1>4, <1>5, <1>10 DEF u, first

\* How many bytes the first n messages have.
End(wires, n) == Len(FlattenSeq(SubSeq(wires, 1, n)))

\* A conversation on the wire, no message of which is empty.
OnTheWire(wires) ==
  wires \in Seq(Seq(Byte)) /\ \A n \in 1 .. Len(wires) : wires[n] # <<>>

\* Each message stands in the stream, behind those before it.
LEMMA MessageStands ==
  ASSUME NEW wires, OnTheWire(wires)
  PROVE  /\ End(wires, 0) = 0 /\ End(wires, Len(wires)) = Len(FlattenSeq(wires))
         /\ \A n \in 0 .. Len(wires) : End(wires, n) \in Nat
         /\ \A n \in 1 .. Len(wires) :
              /\ Len(wires[n]) \in Nat \ {0}
              /\ End(wires, n) = End(wires, n - 1) + Len(wires[n])
              /\ StandsIn(wires[n], FlattenSeq(wires), End(wires, n - 1))
<1>1. /\ wires \in Seq(Seq(Byte)) /\ Len(wires) \in Nat
      /\ \A n \in 1 .. Len(wires) : wires[n] \in Seq(Byte) /\ wires[n] # <<>>
  BY ElementOfSeq, LenProperties DEF OnTheWire
<1>2. PICK f : /\ Flattens(f, wires) /\ FlattenSeq(wires) = f[Len(wires)]
               /\ \A i \in 0 .. Len(wires) : f[i] \in Seq(Byte)
  BY <1>1, FlattenIs
<1> DEFINE L == Len(wires)
<1>3. \A n \in 0 .. L : End(wires, n) = Len(f[n]) /\ Len(f[n]) \in Nat
  <2>1. SUFFICES ASSUME NEW n \in 0 .. L
                 PROVE  End(wires, n) = Len(f[n]) /\ Len(f[n]) \in Nat
    OBVIOUS
  <2>2. FlattenSeq(SubSeq(wires, 1, n)) = f[n]
    BY <1>1, <1>2, FlattenOfFirst
  <2>3. f[n] \in Seq(Byte)
    BY <1>2
  <2> QED
    BY <2>2, <2>3, LenProperties DEF End
<1>4. 0 \in 0 .. L /\ L \in 0 .. L
  BY <1>1
<1>5. End(wires, 0) = 0
  BY <1>2, <1>3, <1>4, EmptySeq DEF Flattens
<1>6. End(wires, L) = Len(FlattenSeq(wires))
  BY <1>2, <1>3, <1>4
<1>7. ASSUME NEW n \in 1 .. L
      PROVE  /\ Len(wires[n]) \in Nat \ {0}
             /\ End(wires, n) = End(wires, n - 1) + Len(wires[n])
             /\ StandsIn(wires[n], FlattenSeq(wires), End(wires, n - 1))
  <2> DEFINE before == f[n - 1]
             this == wires[n]
             k == Len(before)
  <2>1. n \in 0 .. L /\ n - 1 \in 0 .. L
    BY <1>1
  <2>2. /\ before \in Seq(Byte) /\ this \in Seq(Byte) /\ this # <<>>
        /\ f[n] = before \o this /\ k \in Nat /\ f[n] \in Seq(Byte)
    BY <1>1, <1>2, <1>3, <2>1 DEF Flattens
  <2> HIDE DEF before, this
  <2>3. Len(this) \in Nat \ {0}
    BY <2>2, LenProperties, EmptySeq
  <2>4. /\ Len(f[n]) = k + Len(this)
        /\ \A i \in 1 .. k + Len(this) : f[n][i] = IF i <= k THEN before[i] ELSE this[i - k]
    BY <2>2, ConcatProperties
  <2>5. \A i \in 1 .. Len(this) : f[n][k + i] = this[i]
    <3>1. SUFFICES ASSUME NEW i \in 1 .. Len(this)
                   PROVE  f[n][k + i] = this[i]
      OBVIOUS
    <3>2. k + i \in 1 .. k + Len(this) /\ ~(k + i <= k) /\ (k + i) - k = i
      BY <2>2, <2>3
    <3> QED
      BY <2>4, <3>2
  <2> DEFINE Holds(x) == /\ x \in Seq(Byte) /\ k + Len(this) <= Len(x)
                         /\ \A i \in 1 .. Len(this) : x[k + i] = this[i]
             T == {m \in Nat : n + m <= L => Holds(f[n + m])}
  <2>6. 0 \in T
    <3>1. k + Len(this) <= Len(f[n])
      BY <2>2, <2>3, <2>4
    <3> QED
      BY <2>2, <2>5, <3>1, n + 0 = n
  <2>7. ASSUME NEW m \in Nat, m \in T
        PROVE  m + 1 \in T
    <3>1. SUFFICES ASSUME n + (m + 1) <= L
                   PROVE  Holds(f[n + (m + 1)])
      OBVIOUS
    <3> DEFINE x == f[n + m]
               y == f[n + (m + 1)]
               more == wires[n + (m + 1)]
    <3>2. /\ n + (m + 1) \in 1 .. L /\ n + (m + 1) \in 0 .. L
          /\ (n + (m + 1)) - 1 = n + m /\ n + m <= L
      BY <1>1, <3>1
    <3>3. Holds(x)
      BY <2>7, <3>2
    <3>4. y = x \o more /\ y \in Seq(Byte) /\ more \in Seq(Byte)
      BY <1>1, <1>2, <3>2 DEF Flattens
    <3> HIDE DEF x, y, more
    <3>5. /\ Len(x) \in Nat /\ Len(more) \in Nat /\ Len(y) = Len(x) + Len(more)
          /\ \A i \in 1 .. Len(x) + Len(more) : y[i] = IF i <= Len(x) THEN x[i] ELSE more[i - Len(x)]
      BY <3>3, <3>4, ConcatProperties, LenProperties
    <3>6. ASSUME NEW i \in 1 .. Len(this)
          PROVE  y[k + i] = this[i]
      <4>1. k + i \in 1 .. Len(x) + Len(more) /\ k + i <= Len(x)
        BY <2>2, <2>3, <3>3, <3>5
      <4>2. y[k + i] = x[k + i]
        BY <3>5, <4>1
      <4> QED
        BY <3>3, <4>2
    <3>7. k + Len(this) <= Len(y)
      BY <2>2, <2>3, <3>3, <3>5
    <3>8. Holds(y)
      BY <3>4, <3>6, <3>7
    <3> QED
      BY <3>8 DEF y
  <2>8. L - n \in T
    <3>1. L - n \in Nat
      BY <1>1
    <3> HIDE DEF T
    <3> QED
      BY <2>6, <2>7, <3>1, NatSetInduction
  <2>9. Holds(FlattenSeq(wires))
    <3>1. n + (L - n) = L
      BY <1>1
    <3> HIDE DEF Holds
    <3> QED
      BY <1>2, <2>8, <3>1
  <2>10. End(wires, n - 1) = k /\ End(wires, n) = k + Len(this)
    BY <1>3, <2>1, <2>4 DEF before
  <2>11. StandsIn(this, FlattenSeq(wires), k)
    BY <2>2, <2>9 DEF StandsIn
  <2> QED
    BY <2>3, <2>10, <2>11 DEF this
<1> QED
  BY <1>3, <1>5, <1>6, <1>7

\* The messages of which all bytes are among the first r.
Among(wires, r) == {n \in 1 .. Len(wires) : End(wires, n) <= r}

\* They are the first k, and the next one ends beyond r.
LEMMA FirstAreWhole ==
  ASSUME NEW wires, OnTheWire(wires), NEW r \in Nat
  PROVE  LET k == Cardinality(Among(wires, r))
         IN /\ k \in 0 .. Len(wires) /\ End(wires, k) <= r
            /\ k < Len(wires) => r < End(wires, k + 1)
<1> DEFINE L == Len(wires)
           beyond == {n \in 0 .. L : r < End(wires, n)}
<1>1. /\ L \in Nat /\ End(wires, 0) = 0
      /\ \A n \in 0 .. L : End(wires, n) \in Nat
      /\ \A n \in 1 .. L : Len(wires[n]) \in Nat \ {0} /\ End(wires, n) = End(wires, n - 1) + Len(wires[n])
  BY MessageStands, LenProperties DEF OnTheWire
<1>2. PICK k \in 0 .. L : /\ \A n \in 0 .. k : End(wires, n) <= r
                          /\ k < L => r < End(wires, k + 1)
  <2>1. CASE beyond = {}
    <3>1. L \in 0 .. L /\ \A n \in 0 .. L : End(wires, n) <= r
      BY <1>1, <2>1
    <3> QED
      BY <1>1, <3>1
  <2>2. CASE beyond # {}
    <3>1. beyond \in SUBSET Nat
      BY <1>1
    <3>2. PICK n \in beyond : \A m \in beyond : n <= m
      <4> HIDE DEF beyond
      <4> QED
        BY <2>2, <3>1, Least
    <3>3. n # 0 /\ n \in 0 .. L /\ r < End(wires, n)
      BY <1>1, <3>2
    <3>4. n - 1 \in 0 .. L /\ (n - 1) + 1 = n
      BY <1>1, <3>3
    <3>5. ASSUME NEW m \in 0 .. n - 1
          PROVE  End(wires, m) <= r
      <4>1. m \in 0 .. L /\ ~(n <= m)
        BY <1>1, <3>3
      <4>2. m \notin beyond
        BY <3>2, <4>1
      <4> QED
        BY <1>1, <4>1, <4>2
    <3> QED
      BY <3>3, <3>4, <3>5
  <2> QED
    BY <2>1, <2>2
<1> HIDE DEF beyond
<1> DEFINE T == {m \in Nat : (k + 1) + m <= L => r < End(wires, (k + 1) + m)}
<1>3. 0 \in T
  BY <1>1, <1>2, (k + 1) + 0 = k + 1
<1>4. ASSUME NEW m \in Nat, m \in T
      PROVE  m + 1 \in T
  <2>1. SUFFICES ASSUME (k + 1) + (m + 1) <= L
                 PROVE  r < End(wires, (k + 1) + (m + 1))
    OBVIOUS
  <2> DEFINE n == (k + 1) + (m + 1)
  <2>2. n \in 1 .. L /\ n - 1 = (k + 1) + m /\ n - 1 \in 0 .. L
    BY <1>1, <2>1
  <2>3. r < End(wires, n - 1)
    BY <1>4, <2>2
  <2>4. End(wires, n) = End(wires, n - 1) + Len(wires[n])
    BY <1>1, <2>2
  <2> HIDE DEF n
  <2>5. End(wires, n - 1) \in Nat /\ Len(wires[n]) \in Nat
    BY <1>1, <2>2
  <2>6. r < End(wires, n)
    BY <2>3, <2>4, <2>5
  <2> QED
    BY <2>6 DEF n
<1>5. Nat \subseteq T
  <2> HIDE DEF T
  <2> QED
    BY <1>3, <1>4, NatSetInduction
<1>6. ASSUME NEW n \in k + 1 .. L
      PROVE  r < End(wires, n)
  <2> DEFINE m == n - (k + 1)
  <2>1. m \in Nat /\ (k + 1) + m = n /\ n <= L
    BY <1>1
  <2> HIDE DEF m
  <2>2. m \in T
    BY <1>5, <2>1
  <2> QED
    BY <2>1, <2>2
<1>7. Among(wires, r) = 1 .. k
  <2>1. ASSUME NEW n \in 1 .. L
        PROVE  End(wires, n) <= r <=> n \in 1 .. k
    <3>1. CASE n <= k
      <4>1. n \in 0 .. k /\ n \in 1 .. k
        BY <1>1, <3>1
      <4> QED
        BY <1>2, <4>1
    <3>2. CASE ~(n <= k)
      <4>1. n \in k + 1 .. L /\ n \in 0 .. L /\ n \notin 1 .. k
        BY <1>1, <3>2
      <4>2. r < End(wires, n) /\ End(wires, n) \in Nat
        BY <1>1, <1>6, <4>1
      <4> QED
        BY <4>1, <4>2
    <3> QED
      BY <3>1, <3>2
  <2>2. 1 .. k \subseteq 1 .. L
    BY <1>1
  <2> QED
    BY <2>1, <2>2 DEF Among
<1>8. Cardinality(1 .. k) = k
  <2>1. 1 \in Int /\ k \in Int /\ k \in Nat /\ (1 > k => k = 0) /\ k - 1 + 1 = k
    BY <1>1
  <2>2. Cardinality(1 .. k) = IF 1 > k THEN 0 ELSE k - 1 + 1
    BY <2>1, FS_Interval
  <2> QED
    BY <2>1, <2>2
<1> QED
  <2>1. k \in 0 .. k
    BY <1>1
  <2> QED
    BY <1>2, <1>7, <1>8, <2>1

-----------------------------------------------------------------------------
(* The checksum a terminal makes for DecodePacket *)

\* sum[i] is the checksum of the first i bytes.
Sums(sum, data) ==
  /\ sum[0] = 0
  /\ \A i \in 1 .. Len(data) : sum[i] = CrcOfByte[Xor(sum[i - 1], data[i])]

\* CRC8 goes from byte to byte, to the last.
LEMMA Crc8Is ==
  ASSUME NEW data \in Seq(Byte)
  PROVE  \E sum : /\ Sums(sum, data) /\ CRC8(data) = sum[Len(data)]
                  /\ \A i \in 0 .. Len(data) : sum[i] \in Byte
<1> DEFINE L == Len(data)
           After(f, i) == IF i = 0 THEN 0 ELSE CrcOfByte[Xor(f[i - 1], data[i])]
           Is(f, l) == f = [i \in 0 .. l |-> After(f, i)]
           T == {l \in Nat : \E f : Is(f, l)}
<1>0. L \in Nat /\ \A i \in 1 .. L : data[i] \in Byte
  BY LenProperties, ElementOfSeq
<1>1. 0 \in T
  <2> DEFINE g == [i \in 0 .. 0 |-> 0]
  <2>1. \A i \in 0 .. 0 : g[i] = After(g, i)
    OBVIOUS
  <2>2. g = [i \in 0 .. 0 |-> g[i]]
    OBVIOUS
  <2> HIDE DEF g, After
  <2>3. Is(g, 0)
    BY <2>1, <2>2
  <2> QED
    BY <2>3
<1>2. ASSUME NEW l \in Nat, l \in T
      PROVE  l + 1 \in T
  <2>1. PICK f : Is(f, l)
    BY <1>2
  <2> DEFINE g == [i \in 0 .. l + 1 |-> IF i = l + 1 THEN After(f, l + 1) ELSE f[i]]
  <2>2. ASSUME NEW i \in 0 .. l + 1
        PROVE  g[i] = After(g, i)
    <3>1. CASE i = 0
      <4>1. i \in 0 .. l /\ i # l + 1
        BY <3>1
      <4>2. g[i] = f[i]
        BY <4>1
      <4>3. f[i] = After(f, i)
        <5> HIDE DEF After
        <5> QED
          BY <2>1, <4>1
      <4> QED
        BY <3>1, <4>2, <4>3
    <3>2. CASE i # 0 /\ i # l + 1
      <4>1. i \in 0 .. l /\ i - 1 \in 0 .. l + 1 /\ i - 1 # l + 1
        BY <3>2
      <4>2. g[i] = f[i] /\ g[i - 1] = f[i - 1]
        BY <3>2, <4>1
      <4>3. f[i] = After(f, i)
        <5> HIDE DEF After
        <5> QED
          BY <2>1, <4>1
      <4> HIDE DEF g
      <4> QED
        BY <3>2, <4>2, <4>3
    <3>3. CASE i = l + 1
      <4>1. i - 1 \in 0 .. l + 1 /\ i - 1 # l + 1 /\ i # 0
        BY <3>3
      <4>2. g[i] = After(f, i) /\ g[i - 1] = f[i - 1]
        <5> HIDE DEF After
        <5> QED
          BY <3>3, <4>1
      <4> HIDE DEF g
      <4> QED
        BY <4>1, <4>2
    <3> QED
      BY <3>1, <3>2, <3>3
  <2>3. g = [i \in 0 .. l + 1 |-> g[i]]
    OBVIOUS
  <2> HIDE DEF g, After
  <2>4. Is(g, l + 1)
    BY <2>2, <2>3
  <2> QED
    BY <2>4
<1>3. L \in T
  <2> HIDE DEF T
  <2> QED
    BY <1>0, <1>1, <1>2, NatSetInduction
<1> DEFINE F == CHOOSE g : Is(g, L)
<1>4. CRC8(data) = F[L]
  BY DEF CRC8
<1>5. Is(F, L)
  <2>1. PICK g : Is(g, L)
    BY <1>3
  <2> HIDE DEF Is
  <2> QED
    BY <2>1
<1> HIDE DEF F
<1>6. \A i \in 0 .. L : F[i] = After(F, i)
  <2> HIDE DEF After
  <2> QED
    BY <1>5
<1>7. F[0] = 0
  BY <1>0, <1>6, 0 \in 0 .. L
<1>8. \A i \in 1 .. L : F[i] = CrcOfByte[Xor(F[i - 1], data[i])]
  <2>1. SUFFICES ASSUME NEW i \in 1 .. L
                 PROVE  F[i] = CrcOfByte[Xor(F[i - 1], data[i])]
    OBVIOUS
  <2>2. i \in 0 .. L /\ i # 0
    OBVIOUS
  <2> QED
    BY <1>6, <2>2
<1> DEFINE U == {i \in Nat : i <= L => F[i] \in Byte}
<1>9. 0 \in U
  BY <1>7 DEF Byte
<1>10. ASSUME NEW i \in Nat, i \in U
       PROVE  i + 1 \in U
  <2>1. SUFFICES ASSUME i + 1 <= L
                 PROVE  F[i + 1] \in Byte
    OBVIOUS
  <2>2. i + 1 \in 1 .. L /\ (i + 1) - 1 = i /\ F[i] \in Byte
    BY <1>0, <1>10, <2>1
  <2>3. F[i + 1] = CrcOfByte[Xor(F[i], data[i + 1])] /\ data[i + 1] \in Byte
    BY <1>0, <1>8, <2>2
  <2>4. Xor(F[i], data[i + 1]) \in Byte
    BY <2>2, <2>3, ChecksumsCanBeMade
  <2> QED
    BY <2>3, <2>4, ChecksumsCanBeMade
<1>11. Nat \subseteq U
  <2> HIDE DEF U
  <2> QED
    BY <1>9, <1>10, NatSetInduction
<1>12. \A i \in 0 .. L : F[i] \in Byte
  BY <1>0, <1>11
<1> QED
  BY <1>4, <1>7, <1>8, <1>12 DEF Sums

\* Packets that begin alike have the same checksums so far.
LEMMA SumsAgree ==
  ASSUME NEW a, NEW b, NEW f, NEW g, Sums(f, a), Sums(g, b), NEW n \in Nat,
         Len(a) \in Nat, Len(b) \in Nat, n <= Len(a), n <= Len(b),
         \A i \in 1 .. n : a[i] = b[i]
  PROVE  \A i \in 0 .. n : f[i] = g[i]
<1> DEFINE T == {i \in Nat : i <= n => f[i] = g[i]}
<1>1. 0 \in T
  BY DEF Sums
<1>2. ASSUME NEW i \in Nat, i \in T
      PROVE  i + 1 \in T
  <2>1. SUFFICES ASSUME i + 1 <= n
                 PROVE  f[i + 1] = g[i + 1]
    OBVIOUS
  <2>2. /\ i + 1 \in 1 .. n /\ i + 1 \in 1 .. Len(a) /\ i + 1 \in 1 .. Len(b)
        /\ (i + 1) - 1 = i /\ f[i] = g[i]
    BY <1>2, <2>1
  <2>3. /\ f[i + 1] = CrcOfByte[Xor(f[i], a[i + 1])]
        /\ g[i + 1] = CrcOfByte[Xor(g[i], b[i + 1])]
    BY <2>2 DEF Sums
  <2> QED
    BY <2>2, <2>3
<1>3. Nat \subseteq T
  <2> HIDE DEF T
  <2> QED
    BY <1>1, <1>2, NatSetInduction
<1> QED
  BY <1>3

\* Before any byte there is a checksum that this byte makes any other of.
LEMMA StepBack ==
  ASSUME NEW t \in Byte, NEW d \in Byte
  PROVE  \E s \in Byte : CrcOfByte[Xor(s, d)] = t /\ CrcOfByte[Xor(d, s)] = t
<1>1. PICK b \in Byte : CrcOfByte[b] = t
  BY ChecksumsCanBeMade
<1>2. Xor(b, d) \in Byte /\ Xor(Xor(b, d), d) = b
  BY ChecksumsCanBeMade
<1>3. Xor(d, Xor(b, d)) = Xor(Xor(b, d), d)
  BY <1>2, ChecksumsCanBeMade
<1> QED
  BY <1>1, <1>2, <1>3

\* Two packets that differ in one byte at most, h instead of the k-th.
DiffersAt(other, data, k, h) ==
  /\ Len(other) = Len(data)
  /\ \A i \in 1 .. Len(data) : other[i] = IF i = k THEN h ELSE data[i]

\* Any byte of a packet can be chosen so that the checksum is what it should be.
LEMMA OneByteDecides ==
  ASSUME NEW data \in Seq(Byte), NEW k \in 1 .. Len(data), NEW t \in Byte
  PROVE  \E h \in Byte, other \in Seq(Byte) :
           CRC8(other) = t /\ DiffersAt(other, data, k, h)
<1> DEFINE L == Len(data)
           With(h) == [data EXCEPT ![k] = h]
<1>1. L \in Nat /\ k \in Nat /\ 1 <= k /\ k <= L /\ \A i \in 1 .. L : data[i] \in Byte
  BY LenProperties, ElementOfSeq
<1>2. \A h \in Byte : /\ With(h) \in Seq(Byte) /\ Len(With(h)) = L
                      /\ \A i \in 1 .. L : With(h)[i] = IF i = k THEN h ELSE data[i]
  BY ExceptSeq
<1> HIDE DEF With
<1>3. PICK first : Sums(first, data) /\ \A i \in 0 .. L : first[i] \in Byte
  BY Crc8Is
<1> DEFINE Reached(i, s) == \E h \in Byte : \E f : Sums(f, With(h)) /\ f[i] = s
           T == {m \in Nat : k + m <= L => \A s \in Byte : Reached(k + m, s)}
<1>4. 0 \in T
  <2>1. SUFFICES ASSUME NEW s \in Byte
                 PROVE  Reached(k, s)
    BY <1>1, k + 0 = k
  <2>2. k - 1 \in 0 .. L /\ k - 1 \in 0 .. k - 1 /\ k - 1 \in Nat
    BY <1>1
  <2>3. PICK h \in Byte : CrcOfByte[Xor(first[k - 1], h)] = s
    BY <1>3, <2>2, StepBack
  <2>4. PICK f : Sums(f, With(h))
    BY <1>2, Crc8Is
  <2>5. f[k - 1] = first[k - 1]
    <3> DEFINE w == With(h)
               n == k - 1
    <3>0. ASSUME NEW i \in 1 .. n
          PROVE  w[i] = data[i]
      <4>1. i \in 1 .. L /\ i # k
        BY <1>1
      <4> HIDE DEF n, L
      <4> QED
        BY <1>2, <4>1
    <3>1. /\ n \in Nat /\ Len(w) = L /\ L \in Nat /\ n <= L
          /\ \A i \in 1 .. n : w[i] = data[i]
      <4>1. Len(w) = L
        BY <1>2
      <4> HIDE DEF w
      <4> QED
        BY <1>1, <2>2, <3>0, <4>1
    <3> HIDE DEF w, n, L
    <3>2. \A i \in 0 .. n : f[i] = first[i]
      BY <1>3, <2>4, <3>1, SumsAgree DEF w, L
    <3>3. n \in 0 .. n
      BY <3>1
    <3>4. f[n] = first[n]
      BY <3>2, <3>3
    <3> QED
      BY <3>4 DEF n
  <2>6. f[k] = CrcOfByte[Xor(f[k - 1], h)]
    <3>1. k \in 1 .. Len(With(h)) /\ With(h)[k] = h
      BY <1>1, <1>2
    <3> QED
      BY <2>4, <3>1 DEF Sums
  <2> QED
    BY <2>3, <2>4, <2>5, <2>6
<1>5. ASSUME NEW m \in Nat, m \in T
      PROVE  m + 1 \in T
  <2>1. SUFFICES ASSUME k + (m + 1) <= L, NEW s \in Byte
                 PROVE  Reached(k + (m + 1), s)
    OBVIOUS
  <2> DEFINE n == k + (m + 1)
  <2>2. n \in 1 .. L /\ n - 1 = k + m /\ n # k /\ k + m <= L
    BY <1>1, <2>1
  <2>3. PICK before \in Byte : CrcOfByte[Xor(before, data[n])] = s
    BY <1>1, <2>2, StepBack
  <2>4a. PICK h \in Byte : \E f : Sums(f, With(h)) /\ f[k + m] = before
    BY <1>5, <2>2
  <2>4. PICK f : Sums(f, With(h)) /\ f[k + m] = before
    BY <2>4a
  <2>5. f[n] = CrcOfByte[Xor(f[n - 1], data[n])]
    <3>1. n \in 1 .. Len(With(h)) /\ With(h)[n] = data[n]
      BY <1>2, <2>2
    <3> HIDE DEF n
    <3> QED
      BY <2>4, <3>1 DEF Sums
  <2>6. f[n] = s
    BY <2>2, <2>3, <2>4, <2>5
  <2> QED
    BY <2>4, <2>6
<1>6. L - k \in T
  <2>1. L - k \in Nat
    BY <1>1
  <2> HIDE DEF T
  <2> QED
    BY <1>4, <1>5, <2>1, NatSetInduction
<1>7. Reached(L, t)
  <2>1. k + (L - k) = L
    BY <1>1
  <2> HIDE DEF Reached
  <2> QED
    BY <1>6, <2>1
<1>8a. PICK h \in Byte : \E f : Sums(f, With(h)) /\ f[L] = t
  BY <1>7
<1>8. PICK f : Sums(f, With(h)) /\ f[L] = t
  BY <1>8a
<1>9. PICK g : Sums(g, With(h)) /\ CRC8(With(h)) = g[Len(With(h))]
  BY <1>2, Crc8Is
<1>10. f[L] = g[L]
  <2> DEFINE w == With(h)
  <2>1. Len(w) \in Nat /\ Len(w) <= Len(w) /\ Len(w) = L /\ Len(w) \in 0 .. Len(w)
    BY <1>1, <1>2
  <2> HIDE DEF w, L
  <2>2. \A i \in 0 .. Len(w) : f[i] = g[i]
    BY <1>8, <1>9, <2>1, SumsAgree DEF w
  <2> QED
    BY <2>1, <2>2
<1>11. CRC8(With(h)) = t
  BY <1>2, <1>8, <1>9, <1>10
<1>12. /\ With(h) \in Seq(Byte) /\ Len(With(h)) = L
       /\ \A i \in 1 .. L : With(h)[i] = IF i = k THEN h ELSE data[i]
  BY <1>2
<1>13. With(h) \in Seq(Byte) /\ DiffersAt(With(h), data, k, h)
  BY <1>12 DEF DiffersAt
<1> QED
  BY <1>11, <1>13

\* A packet: a header of five bytes, two of the checksum, and the payload.
IsPacketOf(w, header, h, payload) ==
  /\ w \in Seq(Byte) /\ Len(w) = 7 + Len(payload)
  /\ \A i \in 1 .. 5 : w[i] = header[i]
  /\ w[6] = 0 /\ w[7] = h
  /\ \A j \in 1 .. Len(payload) : w[7 + j] = payload[j]

\* They are where they were put.
LEMMA PartsOfPacket ==
  ASSUME NEW header \in Seq(Byte), Len(header) = 5, NEW h \in Byte,
         NEW payload \in Seq(Byte)
  PROVE  IsPacketOf(header \o <<0, h>> \o payload, header, h, payload)
<1> DEFINE sum == <<0, h>>
           a == header \o sum
           w == a \o payload
<1>1. sum \in Seq(Byte) /\ Len(sum) = 2 /\ sum[1] = 0 /\ sum[2] = h
  BY DEF Byte
<1>2. header \o <<0, h>> \o payload = w /\ w = a \o payload
  OBVIOUS
<1> HIDE DEF w, sum
<1>3. /\ a \in Seq(Byte) /\ Len(a) = 7
      /\ \A i \in 1 .. 7 : a[i] = IF i <= 5 THEN header[i] ELSE sum[i - 5]
  <2>1. /\ a \in Seq(Byte) /\ Len(a) = Len(header) + Len(sum)
        /\ \A i \in 1 .. Len(header) + Len(sum) :
             a[i] = IF i <= Len(header) THEN header[i] ELSE sum[i - Len(header)]
    BY <1>1, ConcatProperties
  <2>2. Len(header) = 5 /\ Len(sum) = 2 /\ Len(header) + Len(sum) = 7
    BY <1>1
  <2> HIDE DEF a
  <2> QED
    BY <2>1, <2>2
<1> HIDE DEF a
<1>4. /\ w \in Seq(Byte) /\ Len(w) = 7 + Len(payload)
      /\ \A i \in 1 .. 7 + Len(payload) : w[i] = IF i <= 7 THEN a[i] ELSE payload[i - 7]
  <2> DEFINE b == a \o payload
  <2>1. /\ b \in Seq(Byte) /\ Len(b) = Len(a) + Len(payload)
        /\ \A i \in 1 .. Len(a) + Len(payload) :
             b[i] = IF i <= Len(a) THEN a[i] ELSE payload[i - Len(a)]
    BY <1>3, ConcatProperties
  <2>2. b = w
    BY <1>2
  <2> HIDE DEF b
  <2> QED
    BY <1>3, <2>1, <2>2
<1>5. Len(payload) \in Nat
  BY LenProperties
<1>6. \A i \in 1 .. 7 : w[i] = a[i]
  BY <1>4, <1>5
<1>7. ASSUME NEW i \in 1 .. 5
      PROVE  w[i] = header[i]
  <2>1. i \in 1 .. 7 /\ i <= 5
    OBVIOUS
  <2>2. w[i] = a[i] /\ a[i] = header[i]
    BY <1>3, <1>6, <2>1
  <2> QED
    BY <2>2
<1>8. w[6] = 0 /\ w[7] = h
  <2>0. 6 \in 1 .. 7 /\ 7 \in 1 .. 7 /\ 6 - 5 = 1 /\ 7 - 5 = 2 /\ ~(6 <= 5) /\ ~(7 <= 5)
    OBVIOUS
  <2>1. w[6] = a[6] /\ w[7] = a[7]
    BY <1>6, <2>0
  <2>2. a[6] = sum[1] /\ a[7] = sum[2]
    BY <1>3, <2>0
  <2> QED
    BY <1>1, <2>1, <2>2
<1>9. ASSUME NEW j \in 1 .. Len(payload)
      PROVE  w[7 + j] = payload[j]
  <2>1. 7 + j \in 1 .. 7 + Len(payload) /\ ~(7 + j <= 7) /\ (7 + j) - 7 = j
    BY <1>5
  <2> QED
    BY <1>4, <2>1
<1> QED
  BY <1>2, <1>4, <1>7, <1>8, <1>9 DEF IsPacketOf

\* A packet of POCKET as DecodePacket accepts it.
IsSealed(w, cmd, payload) ==
  /\ w \in Seq(Byte) /\ Len(w) = 7 + Len(payload)
  /\ w[1] = PocketMarker /\ w[3] = cmd /\ w[6] = 0
  /\ DecodeUint16(w[4], w[5]) = Len(payload)
  /\ \A j \in 1 .. Len(payload) : w[7 + j] = payload[j]
  /\ CRC8(w) = 0

\* A terminal that was written after DecodePacket finds a checksum.
LEMMA SealedIs ==
  ASSUME NEW cmd \in Byte, NEW payload \in Seq(Byte), Len(payload) >= 1, Len(payload) <= 65535
  PROVE  IsSealed(Sealed("decoder", cmd, payload), cmd, payload)
<1> DEFINE header == PocketHeader(cmd, 0, payload)
           packet(h) == header \o <<0, h>> \o payload
           L == Len(payload)
           w == Sealed("decoder", cmd, payload)
<1>1. w = packet(CHOOSE h \in Byte : CRC8(packet(h)) = 0)
  BY DEF Sealed, SealedForDecoder
<1>2. /\ header \in Seq(Byte) /\ Len(header) = 5
      /\ header[1] = PocketMarker /\ header[3] = cmd
      /\ DecodeUint16(header[4], header[5]) = L
  <2> DEFINE lo == L % 256
             hi == (L \div 256) % 256
  <2>1. header = <<PocketMarker, 0, cmd, lo, hi>>
    BY DEF PocketHeader
  <2>2. lo \in Byte /\ hi \in Byte /\ lo + 256 * hi = L
    <3>1. L \in Nat /\ L <= 65535
      BY LenProperties
    <3> HIDE DEF L
    <3>2. L \div 256 \in Nat /\ L \div 256 < 256
      BY <3>1
    <3>3. (L \div 256) % 256 = L \div 256
      <4> DEFINE q == L \div 256
      <4> HIDE DEF q
      <4>1. q \in Nat /\ q < 256 => q % 256 = q
        OBVIOUS
      <4> QED
        BY <3>2, <4>1 DEF q
    <3>4. (L % 256) \in Nat /\ (L % 256) < 256 /\ (L % 256) + 256 * (L \div 256) = L
      BY <3>1
    <3>5. lo + 256 * hi = L
      BY <3>3, <3>4
    <3>6. lo \in Byte
      <4>1. lo \in Nat /\ lo < 256
        BY <3>4
      <4> HIDE DEF lo
      <4> QED
        BY <4>1 DEF Byte
    <3>7. hi \in Byte
      <4>1. hi \in Nat /\ hi < 256
        BY <3>2, <3>3
      <4> HIDE DEF hi
      <4> QED
        BY <4>1 DEF Byte
    <3> QED
      BY <3>5, <3>6, <3>7
  <2> HIDE DEF lo, hi
  <2>3. PocketMarker \in Byte /\ 0 \in Byte
    BY DEF PocketMarker, Byte
  <2> HIDE DEF header
  <2>4. header \in Seq(Byte)
    BY <2>1, <2>2, <2>3
  <2>5. /\ Len(header) = 5 /\ header[1] = PocketMarker /\ header[3] = cmd
        /\ header[4] = lo /\ header[5] = hi
    BY <2>1
  <2> QED
    BY <2>2, <2>4, <2>5 DEF DecodeUint16
<1> HIDE DEF header
<1>3. \A h \in Byte : IsPacketOf(packet(h), header, h, payload)
  BY <1>2, PartsOfPacket
<1> HIDE DEF packet, L
<1>4. \E h \in Byte : CRC8(packet(h)) = 0
  <2> DEFINE base == packet(0)
             k == 7
             t == 0
  <2>1. 0 \in Byte /\ t \in Byte
    BY DEF Byte
  <2>2. base \in Seq(Byte) /\ Len(base) = 7 + L
    BY <1>3, <2>1 DEF IsPacketOf, L
  <2>3. L \in Nat
    BY LenProperties DEF L
  <2>4. 7 \in 1 .. Len(base)
    BY <2>2, <2>3
  <2> HIDE DEF base
  <2>5. PICK h \in Byte, other \in Seq(Byte) : CRC8(other) = 0 /\ DiffersAt(other, base, k, h)
    <3>1. k \in 1 .. Len(base)
      BY <2>4
    <3> HIDE DEF k, t
    <3>2. \E h \in Byte, other \in Seq(Byte) : CRC8(other) = t /\ DiffersAt(other, base, k, h)
      BY <2>1, <2>2, <3>1, OneByteDecides, SMTT(20)
    <3> QED
      BY <3>2 DEF t
  <2>6. /\ Len(other) = 7 + L /\ CRC8(other) = 0
        /\ \A i \in 1 .. 7 + L : other[i] = IF i = 7 THEN h ELSE base[i]
    BY <2>2, <2>5 DEF DiffersAt
  <2> DEFINE this == packet(h)
  <2>7. /\ this \in Seq(Byte) /\ Len(this) = 7 + L
        /\ \A i \in 1 .. 5 : this[i] = header[i]
        /\ this[6] = 0 /\ this[7] = h
        /\ \A j \in 1 .. L : this[7 + j] = payload[j]
    BY <1>3 DEF IsPacketOf, L
  <2>8. /\ \A i \in 1 .. 5 : base[i] = header[i]
        /\ base[6] = 0 /\ \A j \in 1 .. L : base[7 + j] = payload[j]
    BY <1>3, <2>1 DEF base, IsPacketOf, L
  <2> HIDE DEF this
  <2>9. ASSUME NEW i \in 1 .. 7 + L
        PROVE  other[i] = this[i]
    <3>1. CASE i \in 1 .. 5
      BY <2>6, <2>7, <2>8, <3>1
    <3>2. CASE i = 6 \/ i = 7
      BY <2>6, <2>7, <2>8, <3>2
    <3>3. CASE i > 7
      <4>1. i - 7 \in 1 .. L /\ 7 + (i - 7) = i
        BY <2>3, <3>3
      <4>2. this[i] = payload[i - 7] /\ base[i] = payload[i - 7]
        BY <2>7, <2>8, <4>1
      <4> QED
        BY <2>6, <3>3, <4>2
    <3> QED
      BY <2>3, <3>1, <3>2, <3>3
  <2>10. other = this
    BY <2>6, <2>7, <2>9, SeqEqual
  <2>12. CRC8(this) = 0
    BY <2>6, <2>10
  <2>13. CRC8(packet(h)) = 0
    BY <2>12 DEF this
  <2> QED
    BY <2>13
<1> DEFINE high == CHOOSE h \in Byte : CRC8(packet(h)) = 0
<1>5. high \in Byte /\ CRC8(packet(high)) = 0
  BY <1>4
<1> HIDE DEF high
<1>6. w = packet(high)
  BY <1>1 DEF high
<1>7. /\ w \in Seq(Byte) /\ Len(w) = 7 + L
      /\ \A i \in 1 .. 5 : w[i] = header[i]
      /\ w[6] = 0 /\ CRC8(w) = 0
      /\ \A j \in 1 .. L : w[7 + j] = payload[j]
  BY <1>3, <1>5, <1>6 DEF IsPacketOf, L
<1>8. w[1] = PocketMarker /\ w[3] = cmd /\ DecodeUint16(w[4], w[5]) = L
  BY <1>2, <1>7
<1> QED
  BY <1>7, <1>8 DEF IsSealed, L

\* DecodePacket finds in it what was put into it, or panics over it.
LEMMA PocketDecodes ==
  ASSUME NEW w, NEW cmd, NEW payload \in Seq(Byte), Len(payload) >= 1, Len(payload) <= 65535,
         IsSealed(w, cmd, payload)
  PROVE  PocketDecode(w) =
           IF cmd = RelayControlEx /\ Len(payload) = 5 THEN Panic
           ELSE [kind |-> "packet", cmd |-> cmd, payload |-> payload]
<1> DEFINE size == 7 + DecodeUint16(w[4], w[5])
           L == Len(payload)
           inside == SubSeq(w, 8, size)
<1>1. /\ w \in Seq(Byte) /\ Len(w) = 7 + L /\ size = 7 + L /\ L \in Nat /\ L >= 1
      /\ w[1] = PocketMarker /\ w[3] = cmd /\ w[6] = 0 /\ CRC8(w) = 0
      /\ \A j \in 1 .. L : w[7 + j] = payload[j]
  BY DEF IsSealed
<1> HIDE DEF L, size
<1> DEFINE all == SubSeq(w, 1, size)
<1>2. all = w
  BY <1>1, SubSeqFull
<1> HIDE DEF all
<1>3. inside = payload
  <2> DEFINE n == 7 + L
             m == 8
  <2>1. inside = SubSeq(w, m, n) /\ n \in Int /\ m \in Int /\ n <= Len(w) /\ m \in Nat \ {0}
    <3>1. inside = SubSeq(w, m, n)
      BY <1>1
    <3> QED
      BY <1>1, <3>1
  <2> HIDE DEF n, m, inside
  <2>2. inside \in Seq(Byte) /\ Len(inside) = IF m <= n THEN n - m + 1 ELSE 0
    BY <1>1, <2>1, PieceOfBytes
  <2>3. \A i \in 1 .. n - m + 1 : inside[i] = w[m + i - 1]
    <3>1. \A i \in m .. n : w[i] \in Byte
      BY <1>1, <2>1, ElementOfSeq
    <3> QED
      BY <2>1, <3>1, SubSeqProperties
  <2>4. Len(inside) = L
    BY <1>1, <2>2 DEF n, m
  <2>5. ASSUME NEW i \in 1 .. L
        PROVE  inside[i] = payload[i]
    <3>1. i \in 1 .. n - m + 1 /\ m + i - 1 = 7 + i
      BY <1>1 DEF n, m
    <3> QED
      BY <1>1, <2>3, <3>1
  <2> QED
    BY <1>1, <2>2, <2>4, <2>5, SeqEqual DEF L
<1> HIDE DEF inside
<1>4. PocketDecode(w) =
        IF Len(w) < 8 \/ w[1] # PocketMarker \/ Len(w) < size THEN Nothing
        ELSE IF CRC8(all) # w[6] THEN Nothing
        ELSE IF w[3] = RelayControlEx /\ size - 7 = 5 THEN Panic
             ELSE [kind |-> "packet", cmd |-> w[3], payload |-> inside]
  BY DEF PocketDecode, size, inside, all
<1>5. ~(Len(w) < 8 \/ w[1] # PocketMarker \/ Len(w) < size)
  <2>1. L \in Nat /\ L >= 1 /\ Len(w) = 7 + L /\ size = 7 + L /\ w[1] = PocketMarker
    BY <1>1
  <2> QED
    BY <2>1
<1>6. CRC8(all) = w[6]
  <2>1. CRC8(w) = 0 /\ w[6] = 0
    BY <1>1
  <2> QED
    BY <1>2, <2>1
<1>7. size - 7 = Len(payload)
  <2>1. size = 7 + L /\ L \in Nat
    BY <1>1
  <2> QED
    BY <2>1 DEF L
<1>8. PocketDecode(w) = IF w[3] = RelayControlEx /\ size - 7 = 5 THEN Panic
                        ELSE [kind |-> "packet", cmd |-> w[3], payload |-> inside]
  BY <1>4, <1>5, <1>6
<1>9. PocketDecode(w) = IF cmd = RelayControlEx /\ Len(payload) = 5 THEN Panic
                        ELSE [kind |-> "packet", cmd |-> cmd, payload |-> payload]
  <2>1. w[3] = cmd
    BY <1>1
  <2>2. CASE Len(payload) = 5
    <3>1. size - 7 = 5
      BY <1>7, <2>2
    <3> QED
      BY <1>8, <2>1, <2>2, <3>1, <1>3
  <2>3. CASE Len(payload) # 5
    <3>1. size - 7 # 5
      BY <1>7, <2>3
    <3> QED
      BY <1>8, <2>1, <2>3, <3>1, <1>3
  <2> QED
    BY <2>2, <2>3
<1> QED
  BY <1>9

-----------------------------------------------------------------------------
(* What a message means to the one who reads its packet *)

\* The lockers an event carries.
LockersOf(event) == IF "lockers" \in DOMAIN event THEN event.lockers ELSE <<>>

\* An event that says what the message said, of a tag its uid, its lockers and
\* whether it is authenticated.
Means(event, m) ==
  CASE m.kind = "tag" ->
         /\ event # Nothing /\ event.kind = "tag" /\ LockersOf(event) = m.lockers
         /\ event.uid = m.uid /\ event.auth = m.auth
    [] m.kind = "usart" -> event # Nothing /\ event.kind = "usart" /\ event.bytes = m.bytes
    [] m.kind = "request" -> event = Nothing
    [] m.kind = "relay" -> event = IF Fatal(m) THEN Panic ELSE Nothing
    [] OTHER -> event = m

\* A sealed packet is taken for what its command says.
LEMMA SealedEvent ==
  ASSUME NEW cmd \in Byte, NEW payload \in Seq(Byte), Len(payload) >= 1, Len(payload) <= 65535
  PROVE  PocketEvent(Sealed("decoder", cmd, payload)) =
           CASE cmd = 2 -> PocketTag(payload)
             [] cmd = 3 -> PocketTagExtended(payload)
             [] cmd = 8 -> [kind |-> "usart", bytes |-> payload]
             [] cmd = 22 -> PocketInput(payload)
             [] cmd = 134 -> [kind |-> "pong"]
             [] cmd = 21 -> IF Len(payload) = 5 THEN Panic ELSE Nothing
             [] OTHER -> Nothing
<1> DEFINE w == Sealed("decoder", cmd, payload)
           packet == PocketDecode(w)
<1>1. IsSealed(w, cmd, payload)
  BY SealedIs
<1> HIDE DEF w
<1>2. packet = IF cmd = RelayControlEx /\ Len(payload) = 5 THEN Panic
               ELSE [kind |-> "packet", cmd |-> cmd, payload |-> payload]
  BY <1>1, PocketDecodes
<1>3. PocketEvent(w) =
        IF packet \in {Nothing, Panic} THEN packet
        ELSE CASE packet.cmd = 2 -> PocketTag(packet.payload)
               [] packet.cmd = 3 -> PocketTagExtended(packet.payload)
               [] packet.cmd = 8 -> [kind |-> "usart", bytes |-> packet.payload]
               [] packet.cmd = 22 -> PocketInput(packet.payload)
               [] packet.cmd = 134 -> [kind |-> "pong"]
               [] OTHER -> Nothing
  BY DEF PocketEvent
<1> HIDE DEF packet
<1>4. CASE cmd = RelayControlEx /\ Len(payload) = 5
  <2>1. PocketEvent(w) = Panic
    BY <1>2, <1>3, <1>4
  <2> QED
    BY <1>4, <2>1 DEF RelayControlEx, w
<1>5. CASE ~(cmd = RelayControlEx /\ Len(payload) = 5)
  <2>1. packet \notin {Nothing, Panic} /\ packet.cmd = cmd /\ packet.payload = payload
    BY <1>2, <1>5 DEF Nothing, Panic
  <2> QED
    BY <1>3, <1>5, <2>1 DEF RelayControlEx, w
<1> QED
  BY <1>4, <1>5

\* The payload of a tag with lockers.
LEMMA LockersOnTheWire ==
  ASSUME NEW lockers \in Seq(Byte), lockers # <<>>, NEW x \in Byte
  PROVE  LET groups == [n \in DOMAIN lockers |-> <<x, 1, lockers[n], 0>>]
             all == FlattenSeq(groups)
         IN /\ all \in Seq(Byte) /\ Len(all) = 4 * Len(lockers) /\ all[1] = x
            /\ \A n \in 1 .. Len(lockers) : all[4 * (n - 1) + 3] = lockers[n]
<1> DEFINE L == Len(lockers)
           groups == [n \in DOMAIN lockers |-> <<x, 1, lockers[n], 0>>]
           all == FlattenSeq(groups)
<1>1. /\ L \in Nat \ {0} /\ DOMAIN lockers = 1 .. L
      /\ \A n \in 1 .. L : lockers[n] \in Byte
  BY EmptySeq, LenProperties, ElementOfSeq
<1> HIDE DEF L
<1>2. ASSUME NEW n \in 1 .. L
      PROVE  /\ groups[n] \in Seq(Byte) /\ Len(groups[n]) = 4 /\ groups[n] # <<>>
             /\ groups[n][1] = x /\ groups[n][3] = lockers[n]
  <2> DEFINE g == <<x, 1, lockers[n], 0>>
  <2>1. groups[n] = g
    BY <1>1
  <2>2. lockers[n] \in Byte /\ 1 \in Byte /\ 0 \in Byte
    BY <1>1 DEF Byte
  <2> HIDE DEF groups
  <2>3. g \in Seq(Byte) /\ Len(g) = 4 /\ g[1] = x /\ g[3] = lockers[n] /\ g # <<>>
    BY <2>2
  <2> HIDE DEF g
  <2> QED
    BY <2>1, <2>3
<1>3. groups \in Seq(Seq(Byte)) /\ Len(groups) = L
  <2>1. groups = [n \in 1 .. L |-> groups[n]]
    BY <1>1
  <2> HIDE DEF groups
  <2> QED
    BY <1>1, <1>2, <2>1
<1> HIDE DEF groups
<1>4. OnTheWire(groups)
  BY <1>2, <1>3 DEF OnTheWire
<1>5. /\ End(groups, 0) = 0 /\ End(groups, L) = Len(all)
      /\ \A n \in 1 .. L : /\ End(groups, n) = End(groups, n - 1) + 4
                           /\ StandsIn(groups[n], all, End(groups, n - 1))
  <2>1. /\ End(groups, 0) = 0 /\ End(groups, Len(groups)) = Len(all)
        /\ \A n \in 1 .. Len(groups) :
             /\ End(groups, n) = End(groups, n - 1) + Len(groups[n])
             /\ StandsIn(groups[n], all, End(groups, n - 1))
    BY <1>4, MessageStands
  <2> QED
    BY <1>2, <1>3, <2>1
<1> DEFINE T == {n \in Nat : n <= L => End(groups, n) = 4 * n}
<1>6. 0 \in T
  BY <1>5
<1>7. ASSUME NEW n \in Nat, n \in T
      PROVE  n + 1 \in T
  <2>1. SUFFICES ASSUME n + 1 <= L
                 PROVE  End(groups, n + 1) = 4 * (n + 1)
    OBVIOUS
  <2>2. n + 1 \in 1 .. L /\ (n + 1) - 1 = n /\ n <= L
    BY <1>1, <2>1
  <2>3. End(groups, n) = 4 * n
    BY <1>7, <2>2
  <2>4. End(groups, n + 1) = End(groups, n) + 4
    BY <1>5, <2>2
  <2> QED
    BY <2>3, <2>4
<1>8. L \in T /\ Nat \subseteq T
  <2> HIDE DEF T
  <2> QED
    BY <1>1, <1>6, <1>7, NatSetInduction
<1>9. Len(all) = 4 * L
  BY <1>1, <1>5, <1>8
<1>10. all \in Seq(Byte) /\ all[1] = x
  <2>1. 1 \in 1 .. L /\ 1 - 1 = 0
    BY <1>1
  <2>2. StandsIn(groups[1], all, 0)
    BY <1>5, <2>1
  <2>3. Len(groups[1]) = 4 /\ groups[1][1] = x
    BY <1>2, <2>1
  <2> HIDE DEF all
  <2>4. all \in Seq(Byte) /\ \A j \in 1 .. Len(groups[1]) : all[0 + j] = groups[1][j]
    BY <2>2 DEF StandsIn
  <2>5. 1 \in 1 .. Len(groups[1])
    BY <2>3
  <2>6. all[0 + 1] = groups[1][1]
    BY <2>4, <2>5
  <2>7. 0 + 1 = 1
    OBVIOUS
  <2> QED
    BY <2>3, <2>4, <2>6, <2>7
<1>11. ASSUME NEW n \in 1 .. L
       PROVE  all[4 * (n - 1) + 3] = lockers[n]
  <2>1. n - 1 \in Nat /\ n - 1 <= L
    BY <1>1
  <2>2. n - 1 \in T
    BY <1>8, <2>1
  <2>3. End(groups, n - 1) = 4 * (n - 1)
    BY <2>1, <2>2
  <2>4. StandsIn(groups[n], all, 4 * (n - 1))
    BY <1>5, <2>3
  <2>5. Len(groups[n]) = 4 /\ groups[n][3] = lockers[n]
    BY <1>2
  <2> DEFINE k == 4 * (n - 1)
             g == groups[n]
  <2> HIDE DEF all, k, g
  <2>6. \A j \in 1 .. Len(g) : all[k + j] = g[j]
    BY <2>4 DEF StandsIn, k, g
  <2>7. 3 \in 1 .. Len(g) /\ g[3] = lockers[n]
    BY <2>5 DEF g
  <2> QED
    BY <2>6, <2>7 DEF k
<1> QED
  BY <1>9, <1>10, <1>11 DEF L, groups

\* What a terminal sends is one packet after DecodePacket's checksum.
LEMMA PocketMeans ==
  ASSUME NEW m \in Message("pocket")
  PROVE  /\ \E cmd \in Byte, payload \in Seq(Byte) :
              /\ Len(payload) >= 1 /\ Len(payload) <= 65535
              /\ PocketWire("decoder", m) = Sealed("decoder", cmd, payload)
         /\ Means(PocketEvent(PocketWire("decoder", m)), m)
<1> DEFINE Carries(cmd, payload) ==
             /\ cmd \in Byte /\ payload \in Seq(Byte)
             /\ Len(payload) >= 1 /\ Len(payload) <= 65535
             /\ PocketWire("decoder", m) = Sealed("decoder", cmd, payload)
           event == PocketEvent(PocketWire("decoder", m))
<1>0. m \in PlainTag \cup LockerTag \cup PassReport \cup Scan \cup Pongs \cup Relay
  BY DEF Message
<1>1. SUFFICES \E cmd, payload : Carries(cmd, payload) /\ Means(event, m)
  OBVIOUS
<1>2. ASSUME NEW cmd, NEW payload, Carries(cmd, payload)
      PROVE  event = CASE cmd = 2 -> PocketTag(payload)
                       [] cmd = 3 -> PocketTagExtended(payload)
                       [] cmd = 8 -> [kind |-> "usart", bytes |-> payload]
                       [] cmd = 22 -> PocketInput(payload)
                       [] cmd = 134 -> [kind |-> "pong"]
                       [] cmd = 21 -> IF Len(payload) = 5 THEN Panic ELSE Nothing
                       [] OTHER -> Nothing
  BY <1>2, SealedEvent
<1>3. CASE m \in PlainTag
  <2> DEFINE payload == <<1, 0, 1, m.uid, 0>>
  <2>1. m.kind = "tag" /\ m.lockers = <<>> /\ m.uid \in Byte /\ m.auth = TRUE
    BY <1>3 DEF PlainTag
  <2>2. PocketWire("decoder", m) = Sealed("decoder", 2, payload)
    BY <2>1 DEF PocketWire
  <2>3. payload \in Seq(Byte) /\ Len(payload) = 5 /\ payload[3] = 1 /\ payload[4] = m.uid
    <3>1. 0 \in Byte /\ 1 \in Byte
      BY DEF Byte
    <3> QED
      BY <2>1, <3>1
  <2> HIDE DEF payload
  <2>4. Carries(2, payload)
    <3>1. 2 \in Byte
      BY DEF Byte
    <3> QED
      BY <2>2, <2>3, <3>1
  <2> HIDE DEF Carries, event
  <2>5. event = PocketTag(payload)
    BY <1>2, <2>4
  <2>6. PocketTag(payload) = [kind |-> "tag", uid |-> m.uid, auth |-> TRUE]
    BY <2>3 DEF PocketTag
  <2>7. event # Nothing /\ event.kind = "tag" /\ event.uid = m.uid /\ event.auth = TRUE
    BY <2>5, <2>6 DEF Nothing
  <2>9. LockersOf(event) = <<>>
    BY <2>5, <2>6 DEF LockersOf
  <2>8. Means(event, m)
    BY <2>1, <2>7, <2>9 DEF Means
  <2> QED
    BY <2>4, <2>8
<1>4. CASE m \in LockerTag
  <2> DEFINE x == IF m.auth THEN 0 ELSE 16
             head == <<1, m.uid, 0, 0>>
             groups == [n \in DOMAIN m.lockers |-> <<x, 1, m.lockers[n], 0>>]
             all == FlattenSeq(groups)
             payload == head \o all
             L == Len(m.lockers)
  <2>1. /\ m.kind = "tag" /\ m.lockers \in Seq(Byte) /\ m.lockers # <<>>
        /\ m.uid \in Byte /\ m.auth \in BOOLEAN /\ 4 + 4 * L <= 65535
    BY <1>4 DEF LockerTag
  <2>2. PocketWire("decoder", m) = Sealed("decoder", 3, payload)
    BY <2>1 DEF PocketWire
  <2>3. x \in Byte
    BY DEF Byte
  <2>4. x = 0 <=> m.auth
    OBVIOUS
  <2> HIDE DEF x
  <2>5. /\ all \in Seq(Byte) /\ Len(all) = 4 * L /\ all[1] = x
        /\ \A n \in 1 .. L : all[4 * (n - 1) + 3] = m.lockers[n]
    BY <2>1, <2>3, LockersOnTheWire
  <2>6. L \in Nat /\ L >= 1
    BY <2>1, EmptySeq
  <2>7. head \in Seq(Byte) /\ Len(head) = 4 /\ head[1] = 1 /\ head[2] = m.uid
    <3>1. 0 \in Byte /\ 1 \in Byte
      BY DEF Byte
    <3> QED
      BY <2>1, <3>1
  <2>15. L = Len(m.lockers)
    OBVIOUS
  <2> HIDE DEF all, head, L
  <2>8. /\ payload \in Seq(Byte) /\ Len(payload) = 4 + 4 * L
        /\ payload[1] = 1 /\ payload[2] = m.uid /\ payload[5] = x
    <3>1. /\ payload \in Seq(Byte) /\ Len(payload) = Len(head) + Len(all)
          /\ \A i \in 1 .. Len(head) + Len(all) :
               payload[i] = IF i <= Len(head) THEN head[i] ELSE all[i - Len(head)]
      BY <2>5, <2>7, ConcatProperties
    <3> HIDE DEF payload
    <3> DEFINE n == 4 + 4 * L
    <3>2. 1 \in 1 .. n /\ 2 \in 1 .. n /\ 5 \in 1 .. n
      BY <2>6
    <3>3. /\ payload \in Seq(Byte) /\ Len(payload) = n
          /\ \A i \in 1 .. n : payload[i] = IF i <= 4 THEN head[i] ELSE all[i - 4]
      BY <2>5, <2>7, <3>1
    <3> HIDE DEF n
    <3>4. payload[1] = head[1] /\ payload[2] = head[2] /\ payload[5] = all[5 - 4]
      BY <3>2, <3>3
    <3>5. 5 - 4 = 1
      OBVIOUS
    <3> QED
      BY <2>5, <2>7, <3>3, <3>4, <3>5 DEF n
  <2>14. ASSUME NEW n \in 1 .. L
         PROVE  payload[5 + 4 * (n - 1) + 2] = m.lockers[n]
    <3>1. \A i \in 1 .. Len(head) + Len(all) :
            payload[i] = IF i <= Len(head) THEN head[i] ELSE all[i - Len(head)]
      BY <2>5, <2>7, ConcatProperties
    <3> DEFINE j == 5 + 4 * (n - 1) + 2
               lh == Len(head)
               la == Len(all)
    <3>2. lh = 4 /\ la = 4 * L /\ L \in Nat
      BY <2>5, <2>6, <2>7
    <3> HIDE DEF payload, lh, la
    <3>3. j \in 1 .. lh + la /\ ~(j <= lh) /\ j - lh = 4 * (n - 1) + 3
      BY <3>2
    <3> HIDE DEF j
    <3>4. payload[j] = all[j - lh]
      BY <3>1, <3>3 DEF lh, la
    <3>5. all[4 * (n - 1) + 3] = m.lockers[n]
      BY <2>5
    <3> QED
      BY <3>3, <3>4, <3>5 DEF j
  <2> HIDE DEF payload
  <2>9. Carries(3, payload)
    <3>1. 3 \in Byte
      BY DEF Byte
    <3> QED
      BY <2>1, <2>2, <2>6, <2>8, <3>1
  <2> HIDE DEF Carries, event
  <2>10. event = PocketTagExtended(payload)
    BY <1>2, <2>9
  <2> DEFINE tag == PocketTagExtended(payload)
  <2>11. /\ tag # Nothing /\ tag.kind = "tag" /\ tag.uid = m.uid /\ tag.auth = (payload[5] = 0)
         /\ LockersOf(tag) = m.lockers
    <3> DEFINE uidEnd == 1 + payload[1]
               first == IF uidEnd + 2 <= Len(payload) THEN uidEnd + 3 ELSE uidEnd + 1
               count == (Len(payload) + 1 - first) \div 4
               list == [n \in 1 .. count |-> payload[first + 4 * (n - 1) + 2]]
    <3>1. tag = IF Len(payload) < 5 \/ 1 + payload[1] > Len(payload) \/ payload[1] = 0
                THEN Nothing
                ELSE [kind |-> "tag", uid |-> payload[2],
                      auth |-> count > 0 /\ payload[first] = 0, lockers |-> list]
      BY DEF PocketTagExtended
    <3>2. ~(Len(payload) < 5 \/ 1 + payload[1] > Len(payload) \/ payload[1] = 0)
      BY <2>6, <2>8
    <3>3. uidEnd = 2
      BY <2>8
    <3>4. first = 5
      <4> HIDE DEF uidEnd
      <4> QED
        BY <2>6, <2>8, <3>3
    <3>5. count = L
      <4> HIDE DEF first
      <4>1. count = (Len(payload) + 1 - 5) \div 4
        BY <3>4
      <4>2. count = (4 + 4 * L + 1 - 5) \div 4
        BY <2>8, <4>1
      <4>3. 4 + 4 * L + 1 - 5 = 4 * L
        BY <2>6
      <4>4. (4 * L) \div 4 = L
        BY <2>6
      <4> QED
        BY <2>6, <4>2, <4>3, <4>4
    <3> HIDE DEF first, count
    <3>8. list = m.lockers
      <4>1. list = [n \in 1 .. L |-> payload[5 + 4 * (n - 1) + 2]]
        BY <3>4, <3>5
      <4> DEFINE a == [n \in 1 .. L |-> payload[5 + 4 * (n - 1) + 2]]
                 b == m.lockers
      <4>2. b \in Seq(Byte) /\ Len(b) = L /\ L \in Nat
        BY <2>1, <2>6, <2>15
      <4>3. \A n \in 1 .. L : a[n] = b[n]
        BY <2>14
      <4>4. \A n \in 1 .. L : b[n] \in Byte
        BY <4>2, ElementOfSeq
      <4>5. a \in Seq(Byte) /\ Len(a) = L
        <5>1. \A n \in 1 .. L : payload[5 + 4 * (n - 1) + 2] \in Byte
          BY <4>3, <4>4
        <5> HIDE DEF b
        <5> QED
          BY <4>2, <5>1
      <4>6. list = a
        BY <4>1
      <4> HIDE DEF a, b, list
      <4>7. a = b
        BY <4>2, <4>3, <4>5, SeqEqual
      <4> QED
        BY <4>6, <4>7 DEF b
    <3> HIDE DEF list, tag
    <3> DEFINE auth == count > 0 /\ payload[first] = 0
    <3>6. auth = (payload[5] = 0)
      BY <2>6, <3>4, <3>5
    <3> HIDE DEF auth
    <3>7. tag = [kind |-> "tag", uid |-> payload[2], auth |-> auth, lockers |-> list]
      BY <3>1, <3>2 DEF auth
    <3>9. LockersOf(tag) = list
      BY <3>7 DEF LockersOf
    <3>10. tag # Nothing /\ tag.kind = "tag" /\ tag.uid = payload[2] /\ tag.auth = auth
      BY <3>7 DEF Nothing
    <3> QED
      BY <2>8, <3>6, <3>8, <3>9, <3>10
  <2>12. tag.auth = m.auth
    <3>1. (payload[5] = 0) = m.auth
      BY <2>1, <2>4, <2>8
    <3> QED
      BY <2>11, <3>1
  <2> HIDE DEF tag
  <2>13. Means(event, m)
    <3>1. event = tag
      BY <2>10 DEF tag
    <3> QED
      BY <2>1, <2>11, <2>12, <3>1 DEF Means
  <2> QED
    BY <2>9, <2>13
<1>5. CASE m \in PassReport
  <2> DEFINE x == IF m.passed THEN 1 ELSE 0
             payload == <<x, 0>>
  <2>1. m.kind = "pass" /\ m.passed \in BOOLEAN /\ m = [kind |-> "pass", passed |-> m.passed]
    BY <1>5 DEF PassReport
  <2>2. PocketWire("decoder", m) = Sealed("decoder", 22, payload)
    BY <2>1 DEF PocketWire
  <2>3. x \in Byte /\ 0 \in Byte /\ (x % 2 = 1) = m.passed
    BY <2>1 DEF Byte
  <2> HIDE DEF x
  <2>4. payload \in Seq(Byte) /\ Len(payload) = 2 /\ payload[1] = x
    BY <2>3
  <2> HIDE DEF payload
  <2>5. Carries(22, payload)
    <3>1. 22 \in Byte
      BY DEF Byte
    <3> QED
      BY <2>2, <2>4, <3>1
  <2> HIDE DEF Carries, event
  <2>6. event = PocketInput(payload)
    BY <1>2, <2>5
  <2>7. PocketInput(payload) = [kind |-> "pass", passed |-> x % 2 = 1]
    BY <2>4 DEF PocketInput
  <2>8. event = m
    BY <2>1, <2>3, <2>6, <2>7
  <2>9. Means(event, m)
    BY <2>1, <2>8 DEF Means
  <2> QED
    BY <2>5, <2>9
<1>6. CASE m \in Scan
  <2> DEFINE payload == m.bytes
  <2>1. m.kind = "usart" /\ m.bytes \in Seq(Byte) /\ m.bytes # <<>> /\ Len(m.bytes) <= 65535
    BY <1>6 DEF Scan
  <2>2. PocketWire("decoder", m) = Sealed("decoder", 8, payload)
    BY <2>1 DEF PocketWire
  <2>3. Len(m.bytes) >= 1
    BY <2>1, EmptySeq
  <2> HIDE DEF payload
  <2>4. Carries(8, payload)
    <3>1. 8 \in Byte
      BY DEF Byte
    <3> QED
      BY <2>1, <2>2, <2>3, <3>1 DEF payload
  <2> HIDE DEF Carries, event
  <2>5. event = [kind |-> "usart", bytes |-> payload]
    BY <1>2, <2>4
  <2>6. Means(event, m)
    BY <2>1, <2>5 DEF Means, Nothing, payload
  <2> QED
    BY <2>4, <2>6
<1>7. CASE m \in Pongs
  <2> DEFINE payload == <<0, 0>>
  <2>1. m.kind = "pong" /\ m = [kind |-> "pong"]
    BY <1>7 DEF Pongs
  <2>2. PocketWire("decoder", m) = Sealed("decoder", 134, payload)
    BY <2>1 DEF PocketWire
  <2>3. payload \in Seq(Byte) /\ Len(payload) = 2
    <3>1. 0 \in Byte
      BY DEF Byte
    <3> QED
      BY <3>1
  <2> HIDE DEF payload
  <2>4. Carries(134, payload)
    <3>1. 134 \in Byte
      BY DEF Byte
    <3> QED
      BY <2>2, <2>3, <3>1
  <2> HIDE DEF Carries, event
  <2>5. event = [kind |-> "pong"]
    BY <1>2, <2>4
  <2>6. Means(event, m)
    BY <2>1, <2>5 DEF Means
  <2> QED
    BY <2>4, <2>6
<1>8. CASE m \in Relay
  <2> DEFINE payload == m.bytes
  <2>1. m.kind = "relay" /\ m.bytes \in Seq(Byte) /\ m.bytes # <<>> /\ Len(m.bytes) <= 65535
    BY <1>8 DEF Relay
  <2>2. PocketWire("decoder", m) = Sealed("decoder", 21, payload)
    BY <2>1 DEF PocketWire, RelayControlEx
  <2>3. Len(m.bytes) >= 1
    BY <2>1, EmptySeq
  <2> HIDE DEF payload
  <2>4. Carries(21, payload)
    <3>1. 21 \in Byte
      BY DEF Byte
    <3> QED
      BY <2>1, <2>2, <2>3, <3>1 DEF payload
  <2> HIDE DEF Carries, event
  <2>5. event = IF Len(payload) = 5 THEN Panic ELSE Nothing
    BY <1>2, <2>4
  <2>6. Fatal(m) = (Len(payload) = 5)
    BY <2>1 DEF Fatal, payload
  <2>7. event = IF Fatal(m) THEN Panic ELSE Nothing
    BY <2>5, <2>6
  <2>8. Means(event, m)
    BY <2>1, <2>7 DEF Means
  <2> QED
    BY <2>4, <2>8
<1> QED
  BY <1>0, <1>3, <1>4, <1>5, <1>6, <1>7, <1>8

\* What two sequences are together.
LEMMA ConcatIs ==
  ASSUME NEW S, NEW s \in Seq(S), NEW t \in Seq(S), NEW u \in Seq(S),
         Len(u) = Len(s) + Len(t), \A i \in 1 .. Len(s) : u[i] = s[i],
         \A i \in 1 .. Len(t) : u[Len(s) + i] = t[i]
  PROVE  s \o t = u
<1> DEFINE b == s \o t
<1>1. Len(s) \in Nat /\ Len(t) \in Nat
  BY LenProperties
<1>2. /\ b \in Seq(S) /\ Len(b) = Len(s) + Len(t)
      /\ \A i \in 1 .. Len(s) + Len(t) : b[i] = IF i <= Len(s) THEN s[i] ELSE t[i - Len(s)]
  BY ConcatProperties
<1> HIDE DEF b
<1>3. ASSUME NEW i \in 1 .. Len(b)
      PROVE  b[i] = u[i]
  <2>1. CASE i <= Len(s)
    BY <1>1, <1>2, <2>1
  <2>2. CASE i > Len(s)
    <3>1. i - Len(s) \in 1 .. Len(t) /\ Len(s) + (i - Len(s)) = i
      BY <1>1, <1>2, <2>2
    <3>2. u[i] = t[i - Len(s)]
      BY <3>1
    <3> QED
      BY <1>1, <1>2, <2>2, <3>2
  <2> QED
    BY <1>1, <1>2, <2>1, <2>2
<1>4. b = u
  BY <1>2, <1>3, SeqEqual
<1> QED
  BY <1>4 DEF b

\* A word, perhaps two more, and a line end.
LEMMA LineIs ==
  ASSUME NEW a \in Byte
  PROVE  /\ <<a>> \o <<>> \o <<13, 10>> = <<a, 13, 10>>
         /\ \A b, c \in Byte : <<a>> \o <<b, c>> \o <<13, 10>> = <<a, b, c, 13, 10>>
<1>1. 13 \in Byte /\ 10 \in Byte
  BY DEF Byte
<1>2. <<a>> \o <<>> \o <<13, 10>> = <<a, 13, 10>>
  <2> DEFINE s == <<a>>
             t == <<13, 10>>
             u == <<a, 13, 10>>
  <2>1. s \in Seq(Byte) /\ t \in Seq(Byte) /\ u \in Seq(Byte)
    BY <1>1
  <2>2. /\ Len(u) = Len(s) + Len(t) /\ \A i \in 1 .. Len(s) : u[i] = s[i]
        /\ \A i \in 1 .. Len(t) : u[Len(s) + i] = t[i]
    OBVIOUS
  <2>3. <<a>> \o <<>> \o <<13, 10>> = (s \o <<>>) \o t /\ u = <<a, 13, 10>>
    OBVIOUS
  <2> HIDE DEF s, t, u
  <2>4. s \o t = u
    BY <2>1, <2>2, ConcatIs
  <2>5. s \o <<>> = s
    BY <2>1, ConcatEmptySeq
  <2> QED
    BY <2>3, <2>4, <2>5
<1>3. ASSUME NEW b \in Byte, NEW c \in Byte
      PROVE  <<a>> \o <<b, c>> \o <<13, 10>> = <<a, b, c, 13, 10>>
  <2> DEFINE s == <<a>>
             t == <<b, c>>
             u == <<a, b, c>>
             v == <<13, 10>>
             w == <<a, b, c, 13, 10>>
  <2>1. /\ s \in Seq(Byte) /\ t \in Seq(Byte) /\ u \in Seq(Byte)
        /\ v \in Seq(Byte) /\ w \in Seq(Byte)
    BY <1>1
  <2>2. /\ Len(u) = Len(s) + Len(t) /\ \A i \in 1 .. Len(s) : u[i] = s[i]
        /\ \A i \in 1 .. Len(t) : u[Len(s) + i] = t[i]
    OBVIOUS
  <2>3. /\ Len(w) = Len(u) + Len(v) /\ \A i \in 1 .. Len(u) : w[i] = u[i]
        /\ \A i \in 1 .. Len(v) : w[Len(u) + i] = v[i]
    OBVIOUS
  <2>4. <<a>> \o <<b, c>> \o <<13, 10>> = (s \o t) \o v /\ w = <<a, b, c, 13, 10>>
    OBVIOUS
  <2> HIDE DEF s, t, u, v, w
  <2>5. s \o t = u
    BY <2>1, <2>2, ConcatIs
  <2>6. u \o v = w
    BY <2>1, <2>3, ConcatIs
  <2> QED
    BY <2>4, <2>5, <2>6
<1> QED
  BY <1>2, <1>3

\* What a terminal of SPHINX sends is a line.
LEMMA SphinxMeans ==
  ASSUME NEW m \in Message("sphinx")
  PROVE  /\ SphinxWire(m) = <<83, CR, LF>>
              \/ \E ticket \in Byte : SphinxWire(m) = <<82, ticket, 87, CR, LF>>
         /\ Means(SphinxEvent(SphinxWire(m)), m)
<1> DEFINE line == SphinxWire(m)
<1>1. m \in Request \cup Pongs
  BY DEF Message
<1>2. ASSUME NEW l \in Seq(Byte), l # <<>>, l[1] \in {82, 83}
      PROVE  SphinxDecode(l) = [kind |-> "packet", cmd |-> l[1]]
  <2> DEFINE words == {i \in DOMAIN l : l[i] \notin {CR, LF}}
  <2>1. DOMAIN l = 1 .. Len(l) /\ Len(l) \in Nat /\ Len(l) >= 1
    BY <1>2, EmptySeq, LenProperties
  <2>2. words \in SUBSET Nat /\ 1 \in words /\ \A i \in words : 1 <= i
    BY <1>2, <2>1 DEF CR, LF
  <2> HIDE DEF words
  <2>3. Min(words) \in words /\ Min(words) <= 1
    BY <2>2, MinIsLeast
  <2>4. Min(words) = 1 /\ words # {}
    <3>1. Min(words) \in Nat /\ 1 <= Min(words) /\ Min(words) <= 1
      BY <2>2, <2>3
    <3> QED
      BY <2>3, <3>1
  <2>5. l[1] \in {SphinxCommand[c] : c \in DOMAIN SphinxCommand}
    BY <1>2 DEF SphinxCommand
  <2>6. SphinxDecode(l) =
          IF words = {} \/ l[Min(words)] \notin {SphinxCommand[c] : c \in DOMAIN SphinxCommand}
          THEN Nothing
          ELSE [kind |-> "packet", cmd |-> l[Min(words)]]
    BY DEF SphinxDecode, words
  <2> QED
    BY <2>4, <2>5, <2>6
<1>3. CASE m \in Pongs
  <2>1. m.kind = "pong" /\ m = [kind |-> "pong"]
    BY <1>3 DEF Pongs
  <2>2. line = <<83, CR, LF>>
    <3>1. line = SphinxEncode(83, <<>>)
      BY <2>1 DEF SphinxWire, SphinxCommand
    <3>2. SphinxEncode(83, <<>>) = <<83>> \o <<>> \o <<CR, LF>>
      BY DEF SphinxEncode
    <3>3. <<83>> \o <<>> \o <<CR, LF>> = <<83, CR, LF>>
      <4>1. 83 \in Byte
        BY DEF Byte
      <4> QED
        BY <4>1, LineIs DEF CR, LF
    <3> QED
      BY <3>1, <3>2, <3>3
  <2>3. line \in Seq(Byte) /\ line # <<>> /\ line[1] = 83
    <3>1. 83 \in Byte /\ CR \in Byte /\ LF \in Byte
      BY DEF Byte, CR, LF
    <3> HIDE DEF line
    <3> QED
      BY <2>2, <3>1
  <2> HIDE DEF line
  <2>4. SphinxDecode(line) = [kind |-> "packet", cmd |-> 83]
    BY <1>2, <2>3
  <2>5. SphinxEvent(line) = [kind |-> "pong"]
    BY <2>4 DEF SphinxEvent, SphinxCommand, Nothing
  <2> QED
    BY <2>1, <2>2, <2>5 DEF Means, line
<1>4. CASE m \in Request
  <2>1. m.kind = "request" /\ m.ticket \in Byte
    BY <1>4 DEF Request
  <2>2. line = <<82, m.ticket, 87, CR, LF>>
    <3>1. line = SphinxEncode(82, <<m.ticket, 87>>)
      BY <2>1 DEF SphinxWire, SphinxCommand
    <3>2. SphinxEncode(82, <<m.ticket, 87>>) = <<82>> \o <<m.ticket, 87>> \o <<CR, LF>>
      BY DEF SphinxEncode
    <3>3. ASSUME NEW t \in Byte
          PROVE  <<82>> \o <<t, 87>> \o <<CR, LF>> = <<82, t, 87, CR, LF>>
      <4>1. 82 \in Byte /\ 87 \in Byte
        BY DEF Byte
      <4> QED
        BY <4>1, LineIs DEF CR, LF
    <3> QED
      BY <2>1, <3>1, <3>2, <3>3
  <2>3. line \in Seq(Byte) /\ line # <<>> /\ line[1] = 82
    <3>1. 82 \in Byte /\ 87 \in Byte /\ CR \in Byte /\ LF \in Byte
      BY DEF Byte, CR, LF
    <3> HIDE DEF line
    <3> QED
      BY <2>1, <2>2, <3>1
  <2> HIDE DEF line
  <2>4. SphinxDecode(line) = [kind |-> "packet", cmd |-> 82]
    BY <1>2, <2>3
  <2>5. SphinxEvent(line) = Nothing
    BY <2>4 DEF SphinxEvent, SphinxCommand, Nothing
  <2> QED
    BY <2>1, <2>2, <2>5 DEF Means, line
<1> QED
  BY <1>1, <1>3, <1>4

\* What a terminal of JSP sends is a text of two bytes.
LEMMA JspMeans ==
  ASSUME NEW m \in Message("jsp")
  PROVE  \E text : /\ text \in JspText
                   /\ JspWire(m) = <<JspStart, 48, 48, 48, 50, text[1], text[2], JspEnd>>
                   /\ Means(JspEvent(text), m)
<1>1. m \in PlainTag \cup PassReport \cup Pongs
  BY DEF Message
<1>2. ASSUME NEW a \in Byte, NEW b \in Byte
      PROVE  LET text == <<a, b>>
             IN /\ text \in JspText /\ text[1] = a /\ text[2] = b
                /\ JspEncode(text) = <<JspStart, 48, 48, 48, 50, a, b, JspEnd>>
                /\ JspDecode(text).cmd = a /\ JspDecode(text).payload[1] = b
  <2> DEFINE text == <<a, b>>
  <2>1. text \in JspText /\ text[1] = a /\ text[2] = b /\ Len(text) = 2
    BY DEF JspText
  <2>2. JspEncode(text) = <<JspStart, 48, 48, 48, 50, a, b, JspEnd>>
    <3>1. /\ HexDigit(2 \div 4096) = 48 /\ HexDigit((2 \div 256) % 16) = 48
          /\ HexDigit((2 \div 16) % 16) = 48 /\ HexDigit(2 % 16) = 50
      BY DEF HexDigit
    <3>2. JspEncode(text) = <<JspStart, 48, 48, 48, 50>> \o <<a, b>> \o <<JspEnd>>
      BY <2>1, <3>1 DEF JspEncode
    <3> QED
      BY <3>2
  <2>3. Tail(text)[1] = b
    OBVIOUS
  <2> DEFINE rest == Tail(text)
  <2>4. JspDecode(text) = [kind |-> "packet", cmd |-> a, payload |-> rest]
    BY <2>1 DEF JspDecode
  <2>5. JspDecode(text).cmd = a /\ JspDecode(text).payload = rest /\ rest[1] = b
    <3> HIDE DEF rest
    <3>1. JspDecode(text).cmd = a /\ JspDecode(text).payload = rest
      BY <2>4
    <3> QED
      BY <2>3, <3>1 DEF rest
  <2>6. JspDecode(text).payload[1] = b
    <3> HIDE DEF rest, text
    <3> QED
      BY <2>5
  <2> QED
    BY <2>1, <2>2, <2>5, <2>6
<1> DEFINE Events(packet) ==
             CASE packet.cmd = 116 -> [kind |-> "tag", uid |-> packet.payload[1], auth |-> TRUE]
               [] packet.cmd = 112 -> [kind |-> "pass", passed |-> packet.payload[1] = 1]
               [] packet.cmd = 111 -> [kind |-> "pong"]
               [] OTHER -> Nothing
<1>2a. \A text : JspEvent(text) = Events(JspDecode(text))
  BY DEF JspEvent, JspCommand
<1>3. CASE m \in PlainTag
  <2> DEFINE text == <<116, m.uid>>
  <2>1. m.kind = "tag" /\ m.uid \in Byte /\ m.auth = TRUE
    BY <1>3 DEF PlainTag
  <2>2. 116 \in Byte
    BY DEF Byte
  <2>3. JspWire(m) = JspEncode(text)
    BY <2>1 DEF JspWire, JspCommand
  <2>4. /\ text \in JspText /\ text[1] = 116 /\ text[2] = m.uid
        /\ JspEncode(text) = <<JspStart, 48, 48, 48, 50, 116, m.uid, JspEnd>>
        /\ JspDecode(text).cmd = 116 /\ JspDecode(text).payload[1] = m.uid
    BY <1>2, <2>1, <2>2
  <2> HIDE DEF text
  <2> DEFINE packet == JspDecode(text)
             event == JspEvent(text)
  <2>5. packet.cmd = 116 /\ packet.payload[1] = m.uid
    BY <2>4
  <2>7. event = Events(packet)
    BY <1>2a
  <2> HIDE DEF packet, event
  <2>8. event = [kind |-> "tag", uid |-> m.uid, auth |-> TRUE]
    BY <2>5, <2>7
  <2>9. event # Nothing /\ event.kind = "tag" /\ event.uid = m.uid /\ event.auth = TRUE
    BY <2>8 DEF Nothing
  <2>10. LockersOf(event) = m.lockers
    <3>1. LockersOf(event) = <<>>
      BY <2>8 DEF LockersOf
    <3>2. m.lockers = <<>>
      BY <1>3 DEF PlainTag
    <3> QED
      BY <3>1, <3>2
  <2>6. Means(JspEvent(text), m)
    BY <2>1, <2>9, <2>10 DEF Means, event
  <2> QED
    BY <2>3, <2>4, <2>6
<1>4. CASE m \in PassReport
  <2> DEFINE x == IF m.passed THEN 1 ELSE 0
             text == <<112, x>>
  <2>1. m.kind = "pass" /\ m.passed \in BOOLEAN /\ m = [kind |-> "pass", passed |-> m.passed]
    BY <1>4 DEF PassReport
  <2>2. 112 \in Byte /\ x \in Byte /\ (x = 1) = m.passed
    BY <2>1 DEF Byte
  <2>3. JspWire(m) = JspEncode(text)
    BY <2>1 DEF JspWire, JspCommand
  <2> HIDE DEF x
  <2>4. /\ text \in JspText /\ text[1] = 112 /\ text[2] = x
        /\ JspEncode(text) = <<JspStart, 48, 48, 48, 50, 112, x, JspEnd>>
        /\ JspDecode(text).cmd = 112 /\ JspDecode(text).payload[1] = x
    BY <1>2, <2>2
  <2> HIDE DEF text
  <2> DEFINE packet == JspDecode(text)
             event == JspEvent(text)
  <2>8. packet.cmd = 112 /\ packet.payload[1] = x
    BY <2>4
  <2>9. event = Events(packet)
    BY <1>2a
  <2> HIDE DEF packet, event
  <2>5. JspEvent(text) = [kind |-> "pass", passed |-> x = 1]
    BY <2>8, <2>9 DEF event
  <2>6. JspEvent(text) = m
    BY <2>1, <2>2, <2>5
  <2>7. Means(JspEvent(text), m)
    BY <2>1, <2>6 DEF Means
  <2> QED
    BY <2>3, <2>4, <2>7
<1>5. CASE m \in Pongs
  <2> DEFINE text == <<111, 0>>
  <2>1. m.kind = "pong" /\ m = [kind |-> "pong"]
    BY <1>5 DEF Pongs
  <2>2. 111 \in Byte /\ 0 \in Byte
    BY DEF Byte
  <2>3. JspWire(m) = JspEncode(text)
    BY <2>1 DEF JspWire, JspCommand
  <2>4. /\ text \in JspText /\ text[1] = 111 /\ text[2] = 0
        /\ JspEncode(text) = <<JspStart, 48, 48, 48, 50, 111, 0, JspEnd>>
        /\ JspDecode(text).cmd = 111
    BY <1>2, <2>2
  <2> HIDE DEF text
  <2>5. JspEvent(text) = [kind |-> "pong"]
    <3> DEFINE packet == JspDecode(text)
    <3>1. packet.cmd = 111
      BY <2>4
    <3>2. JspEvent(text) = Events(packet)
      BY <1>2a
    <3> HIDE DEF packet
    <3> QED
      BY <3>1, <3>2
  <2>6. Means(JspEvent(text), m)
    BY <2>1, <2>5 DEF Means
  <2> QED
    BY <2>3, <2>4, <2>6
<1> QED
  BY <1>1, <1>3, <1>4, <1>5

-----------------------------------------------------------------------------
(* What a loop does with a message that begins in the buffer *)

\* Behind the first k bytes stands w, or as much of it as has arrived.
Begins(w, buf, k) ==
  /\ w \in Seq(Byte) /\ buf \in Seq(Byte) /\ k \in Nat /\ k <= Len(buf)
  /\ \A j \in 1 .. Len(w) : k + j <= Len(buf) => buf[k + j] = w[j]

\* The round that begins there cuts the frame off if all of w has arrived, and
\* otherwise ends the loop and leaves w where it stands.
Cuts(round, w, buf, k, frame) ==
  /\ k + Len(w) <= Len(buf) => round[k + 1] = Finds(frame, k + Len(w) + 1)
  /\ Len(buf) < k + Len(w) => round[k + 1].then # "again" /\ round[k + 1].next = k + 1

\* All of w is what stands between its ends.
LEMMA WholeStands ==
  ASSUME NEW w, NEW buf, NEW k, Begins(w, buf, k), k + Len(w) <= Len(buf), w # <<>>
  PROVE  SubSeq(buf, k + 1, k + Len(w)) = w
<1>1. Len(w) \in Nat
  BY LenProperties DEF Begins
<1>2. StandsIn(w, buf, k)
  BY <1>1 DEF Begins, StandsIn
<1>3. PiecesStandIn(w, buf, k)
  BY <1>2, PieceStandsIn
<1>4. SubSeq(buf, k + 1, k + Len(w)) = SubSeq(w, 1, Len(w))
  <2> DEFINE i == 1
             l == Len(w)
  <2>1. i \in Nat \ {0} /\ l \in Nat /\ l <= Len(w)
    BY <1>1
  <2> HIDE DEF i, l
  <2>2. SubSeq(buf, k + i, k + l) = SubSeq(w, i, l)
    BY <1>3, <2>1 DEF PiecesStandIn
  <2> QED
    BY <2>2 DEF i, l
<1> QED
  BY <1>4, SubSeqFull DEF Begins

\* processPocketData's loop, at a sealed packet.
LEMMA PocketCuts ==
  ASSUME NEW w, NEW buf, NEW k, Begins(w, buf, k),
         NEW cmd, NEW payload \in Seq(Byte), Len(payload) >= 1, IsSealed(w, cmd, payload)
  PROVE  Cuts(MarkedRound(buf, 7), w, buf, k, w)
<1> DEFINE i == k + 1
           L == Len(w)
           N == Len(buf)
           left == N + 1 - i
           size == 7 + DecodeUint16(buf[i + 3], buf[i + 4])
           this == MarkedRound(buf, 7)[i]
           frame == SubSeq(buf, i, i + size - 1)
<1>1. /\ w \in Seq(Byte) /\ buf \in Seq(Byte) /\ k \in Nat /\ k <= N /\ N \in Nat
      /\ L \in Nat /\ L >= 8 /\ L = 7 + Len(payload)
      /\ w[1] = PocketMarker /\ 7 + DecodeUint16(w[4], w[5]) = L
      /\ \A j \in 1 .. L : k + j <= N => buf[k + j] = w[j]
  BY LenProperties DEF Begins, IsSealed
<1>2. i \in 1 .. N + 1 /\ 7 \in Nat \ {0} /\ left = N - k
  BY <1>1
<1>3. /\ left < 8 => this = Waits(i)
      /\ left >= 8 => size \in Nat \ {0} /\ buf[i] \in Byte
      /\ left >= 8 /\ buf[i] # PocketMarker => this = Skips(i + 1)
      /\ left >= 8 /\ buf[i] = PocketMarker /\ left < size => this = Waits(i)
      /\ left >= 8 /\ buf[i] = PocketMarker /\ left >= size => this = Finds(frame, i + size)
  <2> DEFINE overhead == 7
  <2>1. overhead \in Nat \ {0}
    OBVIOUS
  <2> HIDE DEF i
  <2> HIDE DEF overhead
  <2>2. LET size2 == overhead + DecodeUint16(buf[i + 3], buf[i + 4])
            this2 == MarkedRound(buf, overhead)[i]
        IN /\ left < 8 => this2 = Waits(i)
           /\ left >= 8 => size2 \in Nat \ {0} /\ buf[i] \in Byte
           /\ left >= 8 /\ buf[i] # PocketMarker => this2 = Skips(i + 1)
           /\ left >= 8 /\ buf[i] = PocketMarker /\ left < size2 => this2 = Waits(i)
           /\ left >= 8 /\ buf[i] = PocketMarker /\ left >= size2 =>
                this2 = Finds(SubSeq(buf, i, i + size2 - 1), i + size2)
    BY <1>1, <1>2, <2>1, MarkedRoundAt
  <2> QED
    BY <2>2 DEF overhead
<1>4. ASSUME left >= 8
      PROVE  buf[i] = PocketMarker /\ size = L
  <2>1. /\ 1 \in 1 .. L /\ 4 \in 1 .. L /\ 5 \in 1 .. L
        /\ k + 1 <= N /\ k + 4 <= N /\ k + 5 <= N
        /\ i + 3 = k + 4 /\ i + 4 = k + 5
    BY <1>1, <1>2, <1>4
  <2> HIDE DEF L, N
  <2>2. buf[k + 1] = w[1] /\ buf[k + 4] = w[4] /\ buf[k + 5] = w[5]
    BY <1>1, <2>1
  <2>3. buf[i] = w[1] /\ buf[i + 3] = w[4] /\ buf[i + 4] = w[5]
    BY <2>1, <2>2
  <2> QED
    BY <1>1, <2>3
<1> HIDE DEF size, this, frame
<1>5. ASSUME k + L <= N
      PROVE  this = Finds(w, k + L + 1)
  <2>1. left >= 8 /\ left >= L
    BY <1>1, <1>2, <1>5
  <2>2. buf[i] = PocketMarker /\ size = L
    BY <1>4, <2>1
  <2>3. this = Finds(frame, i + size)
    BY <1>3, <2>1, <2>2
  <2>4. i + size = k + L + 1 /\ i + size - 1 = k + L
    BY <1>1, <2>2
  <2>5. SubSeq(buf, k + 1, k + L) = w
    <3>1. w # <<>>
      BY <1>1, EmptySeq
    <3> QED
      BY <1>5, <3>1, WholeStands
  <2>6. frame = w
    BY <2>4, <2>5 DEF frame
  <2> QED
    BY <2>3, <2>4, <2>6
<1>6. ASSUME N < k + L
      PROVE  this = Waits(i)
  <2>1. left < L
    BY <1>1, <1>2, <1>6
  <2>2. CASE left < 8
    BY <1>3, <2>2
  <2>3. CASE left >= 8
    <3>1. buf[i] = PocketMarker /\ left < size
      BY <1>4, <2>1, <2>3
    <3> QED
      BY <1>3, <2>3, <3>1
  <2>4. left < 8 \/ left >= 8
    BY <1>1, <1>2
  <2> QED
    BY <2>2, <2>3, <2>4
<1>7. this = Waits(i) => this.then # "again" /\ this.next = i
  BY DEF Waits
<1> QED
  BY <1>5, <1>6, <1>7 DEF Cuts, this

\* A line end comes at the end of a line only.
IsLine(w) ==
  /\ w \in Seq(Byte) /\ Len(w) >= 2 /\ w[Len(w) - 1] = CR /\ w[Len(w)] = LF
  /\ \A j \in 2 .. Len(w) - 1 : w[j - 1] # CR \/ w[j] # LF

\* processSphinxData's loop, at a line.
LEMMA LineCuts ==
  ASSUME NEW w, NEW buf, NEW k, Begins(w, buf, k), IsLine(w)
  PROVE  Cuts(SphinxRound(buf), w, buf, k, w)
<1> DEFINE i == k + 1
           L == Len(w)
           N == Len(buf)
           ends == LineEnds(buf, i)
           this == SphinxRound(buf)[i]
           frame == SubSeq(buf, i, Min(ends))
<1>1. /\ w \in Seq(Byte) /\ buf \in Seq(Byte) /\ k \in Nat /\ k <= N /\ N \in Nat
      /\ L \in Nat /\ L >= 2 /\ w[L - 1] = CR /\ w[L] = LF
  BY LenProperties DEF Begins, IsLine
<1>2. \A j \in 1 .. L : k + j <= N => buf[k + j] = w[j]
  BY DEF Begins
<1>3. \A j \in 2 .. L - 1 : w[j - 1] # CR \/ w[j] # LF
  BY DEF IsLine
<1>4. i \in 1 .. N + 1
  BY <1>1
<1>5. this = IF ends = {} THEN Waits(i) ELSE Finds(frame, Min(ends) + 1)
  BY <1>4 DEF SphinxRound, LineEnds
<1> HIDE DEF L, N
<1>6. ASSUME NEW e \in ends
      PROVE  e \in Nat /\ e <= N /\ k + L <= e
  <2>1. e \in i + 1 .. N /\ buf[e - 1] = CR /\ buf[e] = LF
    BY DEF LineEnds, N
  <2>2. SUFFICES ASSUME e < k + L
                 PROVE  FALSE
    BY <1>1, <2>1
  <2> DEFINE j == e - k
  <2>3. /\ j \in 2 .. L - 1 /\ j \in 1 .. L /\ j - 1 \in 1 .. L
        /\ k + j = e /\ k + (j - 1) = e - 1 /\ k + j <= N /\ k + (j - 1) <= N
    BY <1>1, <2>1, <2>2
  <2> HIDE DEF j
  <2>4. buf[k + j] = w[j] /\ buf[k + (j - 1)] = w[j - 1]
    BY <1>2, <2>3
  <2>5. w[j] = LF /\ w[j - 1] = CR
    BY <2>1, <2>3, <2>4
  <2> QED
    BY <1>3, <2>3, <2>5
<1> HIDE DEF this, ends
<1>7. ASSUME k + L <= N
      PROVE  this = Finds(w, k + L + 1)
  <2> DEFINE e == k + L
  <2>1. e \in ends
    <3>1. /\ L \in 1 .. L /\ L - 1 \in 1 .. L /\ k + L <= N /\ k + (L - 1) <= N
          /\ e - 1 = k + (L - 1) /\ e \in i + 1 .. N
      BY <1>1, <1>7
    <3>2. buf[k + L] = w[L] /\ buf[k + (L - 1)] = w[L - 1]
      BY <1>2, <3>1
    <3> QED
      BY <1>1, <3>1, <3>2 DEF ends, LineEnds, N
  <2> HIDE DEF e
  <2>2. ends \in SUBSET Nat /\ ends # {} /\ \A x \in ends : e <= x
    BY <1>6, <2>1 DEF e
  <2>3. Min(ends) \in ends /\ Min(ends) <= e
    BY <2>1, <2>2, MinIsLeast
  <2>4. Min(ends) = e
    <3>1. Min(ends) \in Nat /\ e \in Nat /\ e <= Min(ends) /\ Min(ends) <= e
      BY <2>1, <2>2, <2>3
    <3> QED
      BY <3>1
  <2>5. this = Finds(frame, Min(ends) + 1)
    BY <1>5, <2>2
  <2>6. SubSeq(buf, k + 1, k + L) = w
    <3>1. w # <<>>
      BY <1>1, EmptySeq DEF L
    <3> QED
      BY <1>7, <3>1, WholeStands DEF L, N
  <2>7. frame = w
    BY <2>4, <2>6 DEF frame, e
  <2> QED
    BY <2>4, <2>5, <2>7 DEF e
<1>8. ASSUME N < k + L
      PROVE  this = Waits(i)
  <2>1. ASSUME NEW e \in ends
        PROVE  FALSE
    <3>1. e \in Nat /\ e <= N /\ k + L <= e
      BY <1>6
    <3> QED
      BY <1>1, <1>8, <3>1
  <2> QED
    BY <1>5, <2>1
<1>9. this = Waits(i) => this.then # "again" /\ this.next = i
  BY DEF Waits
<1> QED
  BY <1>7, <1>8, <1>9 DEF Cuts, this, L, N

\* processJSPData's loop, at a text of two bytes.
LEMMA JspCuts ==
  ASSUME NEW w, NEW buf, NEW k, Begins(w, buf, k), NEW a \in Byte, NEW b \in Byte,
         w = <<JspStart, 48, 48, 48, 50, a, b, JspEnd>>
  PROVE  Cuts(JspRound(buf), w, buf, k, <<a, b>>)
<1> DEFINE i == k + 1
           N == Len(buf)
           this == JspRound(buf)[i]
           try == TryReadPacket(buf, i)
           starts == {j \in i .. N : buf[j] = JspStart}
           s == Min(starts)
           digits == SubSeq(buf, s + 1, s + 4)
           end == s + 5 + DecodeHex(digits)
           text == SubSeq(buf, s + 5, end - 1)
<1>1. /\ buf \in Seq(Byte) /\ k \in Nat /\ k <= N /\ N \in Nat /\ Len(w) = 8
      /\ w[1] = JspStart /\ w[2] = 48 /\ w[3] = 48 /\ w[4] = 48 /\ w[5] = 50
      /\ w[6] = a /\ w[7] = b /\ w[8] = JspEnd
  BY LenProperties DEF Begins
<1>2. \A j \in 1 .. 8 : k + j <= N => buf[k + j] = w[j]
  BY <1>1 DEF Begins
<1>3. i \in 1 .. N + 1
  BY <1>1
<1>4. try = IF starts = {} THEN [result |-> "false", next |-> N + 1]
     ELSE IF N < s + 4 THEN [result |-> "missing", next |-> s]
     ELSE IF ~IsHex(digits) THEN [result |-> "false", next |-> s + 1]
     ELSE IF N < end THEN [result |-> "missing", next |-> s]
     ELSE IF buf[end] # JspEnd THEN [result |-> "false", next |-> s + 1]
     ELSE IF JspDecode(text) = Nothing THEN [result |-> "error", next |-> end + 1]
     ELSE [result |-> "packet", next |-> end + 1, text |-> text]
  BY DEF TryReadPacket
<1>5. this = CASE try.result \in {"missing", "error"} -> Waits(try.next)
          [] try.result = "false" /\ try.next > N ->
               [Waits(try.next) EXCEPT !.then = "spinning"]
          [] try.result = "false" /\ try.next <= N -> Skips(try.next)
          [] try.result = "packet" -> Finds(try.text, try.next)
  BY <1>3 DEF JspRound
<1> HIDE DEF N
<1>6. ASSUME k < N
      PROVE  s = i /\ starts # {}
  <2>1. 1 \in 1 .. 8 /\ k + 1 <= N /\ i \in i .. N /\ i \in Nat
    BY <1>1, <1>6
  <2>2. buf[k + 1] = w[1]
    BY <1>2, <2>1
  <2>3. starts \in SUBSET Nat /\ i \in starts /\ \A x \in starts : i <= x
    BY <1>1, <2>1, <2>2
  <2> HIDE DEF starts, i
  <2>4. Min(starts) \in starts /\ Min(starts) <= i
    BY <2>3, MinIsLeast
  <2>5. Min(starts) \in Nat /\ i <= Min(starts) /\ i \in Nat
    BY <2>1, <2>3, <2>4
  <2> QED
    BY <2>3, <2>4, <2>5
<1>7. ASSUME k + 5 <= N
      PROVE  IsHex(digits) /\ end = k + 8
  <2>1. s = i /\ i = k + 1
    BY <1>1, <1>6, <1>7
  <2> HIDE DEF s, i
  <2> DEFINE p == s + 1
             q == s + 4
  <2>2. p = k + 2 /\ q = k + 5 /\ p \in Nat \ {0} /\ p \in Int /\ q \in Int /\ q <= N
    BY <1>1, <1>7, <2>1
  <2> HIDE DEF p, q
  <2>3. digits = SubSeq(buf, p, q)
    BY DEF p, q
  <2> HIDE DEF digits
  <2>4. digits \in Seq(Byte) /\ Len(digits) = IF p <= q THEN q - p + 1 ELSE 0
    BY <1>1, <2>2, <2>3, PieceOfBytes DEF N
  <2>5. Len(digits) = 4
    BY <1>1, <2>2, <2>4
  <2>6. DOMAIN digits = 1 .. 4
    BY <2>4, <2>5, LenProperties
  <2>7. \A n \in 1 .. q - p + 1 : digits[n] = buf[p + n - 1]
    <3>1. \A n \in p .. q : buf[n] \in Byte
      BY <1>1, <2>2, ElementOfSeq DEF N
    <3>2. p \in Int /\ q \in Int
      BY <2>2
    <3> QED
      BY <2>3, <3>1, <3>2, SubSeqProperties
  <2>8. digits[1] = 48 /\ digits[2] = 48 /\ digits[3] = 48 /\ digits[4] = 50
    <3>1. /\ 1 \in 1 .. q - p + 1 /\ 2 \in 1 .. q - p + 1 /\ 3 \in 1 .. q - p + 1
          /\ 4 \in 1 .. q - p + 1
      BY <1>1, <2>2
    <3>2. /\ p + 1 - 1 = k + 2 /\ p + 2 - 1 = k + 3 /\ p + 3 - 1 = k + 4 /\ p + 4 - 1 = k + 5
          /\ k + 2 <= N /\ k + 3 <= N /\ k + 4 <= N /\ k + 5 <= N
      BY <1>1, <1>7, <2>2
    <3>3. /\ digits[1] = buf[k + 2] /\ digits[2] = buf[k + 3]
          /\ digits[3] = buf[k + 4] /\ digits[4] = buf[k + 5]
      BY <2>7, <3>1, <3>2
    <3>4. 2 \in 1 .. 8 /\ 3 \in 1 .. 8 /\ 4 \in 1 .. 8 /\ 5 \in 1 .. 8
      OBVIOUS
    <3>5. buf[k + 2] = w[2] /\ buf[k + 3] = w[3] /\ buf[k + 4] = w[4] /\ buf[k + 5] = w[5]
      BY <1>2, <3>2, <3>4
    <3> QED
      BY <1>1, <3>3, <3>5
  <2>9. IsHex(digits)
    <3>1. 48 \in DOMAIN HexValue /\ 50 \in DOMAIN HexValue
      BY DEF HexValue
    <3>2. ASSUME NEW n \in 1 .. 4
          PROVE  digits[n] \in DOMAIN HexValue
      BY <2>8, <3>1
    <3> QED
      BY <2>6, <3>2 DEF IsHex
  <2>10. DecodeHex(digits) = 2
    <3>1. HexValue[48] = 0 /\ HexValue[50] = 2
      BY DEF HexValue
    <3> QED
      BY <2>8, <3>1 DEF DecodeHex
  <2> QED
    BY <1>1, <2>1, <2>9, <2>10
<1>8. ASSUME k + 8 <= N
      PROVE  this = Finds(<<a, b>>, k + 9)
  <2>1. /\ s = i /\ i = k + 1 /\ starts # {} /\ IsHex(digits) /\ end = k + 8
        /\ ~(N < s + 4) /\ ~(N < end)
    BY <1>1, <1>6, <1>7, <1>8, SMTT(20)
  <2> HIDE DEF digits, end, starts, s, i
  <2>2. buf[k + 8] = w[8] /\ buf[k + 6] = w[6] /\ buf[k + 7] = w[7]
    <3>1. /\ 6 \in 1 .. 8 /\ 7 \in 1 .. 8 /\ 8 \in 1 .. 8
          /\ k + 6 <= N /\ k + 7 <= N /\ k + 8 <= N
      BY <1>1, <1>8
    <3> QED
      BY <1>2, <3>1
  <2>3. buf[end] = JspEnd
    BY <1>1, <2>1, <2>2
  <2>4. text = <<a, b>>
    <3> DEFINE p == s + 5
               q == end - 1
    <3>1. p = k + 6 /\ q = k + 7 /\ p \in Nat \ {0} /\ p \in Int /\ q \in Int /\ q <= N
      BY <1>1, <1>8, <2>1
    <3> HIDE DEF p, q
    <3>2. text = SubSeq(buf, p, q)
      BY DEF p, q
    <3> HIDE DEF text
    <3>3. text \in Seq(Byte) /\ Len(text) = IF p <= q THEN q - p + 1 ELSE 0
      BY <1>1, <3>1, <3>2, PieceOfBytes DEF N
    <3>4. \A n \in 1 .. q - p + 1 : text[n] = buf[p + n - 1]
      <4>1. \A n \in p .. q : buf[n] \in Byte
        BY <1>1, <3>1, ElementOfSeq DEF N
      <4>2. p \in Int /\ q \in Int
        BY <3>1
      <4> QED
        BY <3>2, <4>1, <4>2, SubSeqProperties
    <3>5. Len(text) = 2
      BY <1>1, <3>1, <3>3
    <3>6. text[1] = a /\ text[2] = b
      <4>1. /\ 1 \in 1 .. q - p + 1 /\ 2 \in 1 .. q - p + 1
            /\ p + 1 - 1 = k + 6 /\ p + 2 - 1 = k + 7
        BY <1>1, <3>1
      <4>2. text[1] = buf[k + 6] /\ text[2] = buf[k + 7]
        BY <3>4, <4>1
      <4> QED
        BY <1>1, <2>2, <4>2
    <3> DEFINE u == <<a, b>>
    <3>7. u \in Seq(Byte) /\ Len(u) = 2 /\ u[1] = a /\ u[2] = b
      OBVIOUS
    <3> HIDE DEF u
    <3>8. \A n \in 1 .. 2 : text[n] = u[n]
      BY <3>6, <3>7
    <3>9. text = u
      BY <3>3, <3>5, <3>7, <3>8, SeqEqual
    <3> QED
      BY <3>9 DEF u
  <2> HIDE DEF text
  <2>5. JspDecode(text) # Nothing
    <3>1. Len(text) = 2
      BY <2>4
    <3> QED
      BY <3>1 DEF JspDecode, Nothing
  <2>6. try = [result |-> "packet", next |-> end + 1, text |-> text]
    BY <1>4, <2>1, <2>3, <2>5
  <2> HIDE DEF try
  <2>7. try.result = "packet" /\ try.next = k + 9 /\ try.text = <<a, b>>
    BY <1>1, <2>1, <2>4, <2>6
  <2>8. this = Finds(try.text, try.next)
    BY <1>5, <2>7
  <2> QED
    BY <2>7, <2>8
<1>9. ASSUME N < k + 8
      PROVE  this.then # "again" /\ this.next = i
  <2>1. CASE N = k
    <3>1. starts = {}
      BY <1>1, <2>1
    <3>2. try = [result |-> "false", next |-> N + 1]
      BY <1>4, <3>1
    <3> HIDE DEF try, this
    <3>3. try.result = "false" /\ try.next = i /\ try.next > N
      BY <1>1, <2>1, <3>2
    <3>4. this = [Waits(try.next) EXCEPT !.then = "spinning"]
      BY <1>1, <1>5, <3>3
    <3> QED
      BY <3>3, <3>4 DEF Waits
  <2>2. CASE k < N
    <3>1. try = [result |-> "missing", next |-> s]
      <4>1. CASE N < s + 4
        BY <1>4, <1>6, <2>2, <4>1
      <4>2. CASE ~(N < s + 4)
        <5>1. s = i /\ starts # {}
          BY <1>6, <2>2
        <5>2. k + 5 <= N
          BY <1>1, <4>2, <5>1
        <5>3. IsHex(digits) /\ N < end
          BY <1>1, <1>7, <1>9, <5>2
        <5> HIDE DEF starts, digits, end, s, try
        <5> QED
          BY <1>4, <4>2, <5>1, <5>3
      <4> QED
        BY <4>1, <4>2
    <3>2. s = i
      BY <1>6, <2>2
    <3> HIDE DEF try, this, s
    <3>3. try.result = "missing" /\ try.next = i
      BY <3>1, <3>2
    <3>4. this = Waits(try.next)
      BY <1>5, <3>3
    <3> QED
      BY <3>3, <3>4 DEF Waits
  <2> QED
    BY <1>1, <2>1, <2>2
<1> HIDE DEF this
<1>10. k + 8 + 1 = k + 9
  BY <1>1
<1> QED
  BY <1>1, <1>8, <1>9, <1>10 DEF Cuts, this, N

\* The packet in a message, as the loops cut it off.
PacketIn(type, w) == IF type = "jsp" THEN <<w[6], w[7]>> ELSE w

Understood == {"pocket", "sphinx", "jsp"}

\* The packet of a message is cut off whole, at its end, and says what was meant.
LEMMA MessageIsCut ==
  ASSUME NEW c, c.type \in Understood, c.seal = "decoder", NEW m \in Message(c.type)
  PROVE  /\ Wire(c, m) \in Seq(Byte) /\ Wire(c, m) # <<>>
         /\ PacketIn(c.type, Wire(c, m)) \in FrameOf(c.type)
         /\ Means(EventOf(c.type, PacketIn(c.type, Wire(c, m))), m)
         /\ \A buf, k : Begins(Wire(c, m), buf, k) =>
              Cuts(RoundOf(c.type, buf), Wire(c, m), buf, k, PacketIn(c.type, Wire(c, m)))
<1> DEFINE w == Wire(c, m)
           packet == PacketIn(c.type, w)
<1>1. CASE c.type = "pocket"
  <2>1. m \in Message("pocket") /\ w = PocketWire("decoder", m)
    BY <1>1 DEF Wire
  <2>2. PICK cmd \in Byte, payload \in Seq(Byte) :
          /\ Len(payload) >= 1 /\ Len(payload) <= 65535
          /\ w = Sealed("decoder", cmd, payload)
    BY <2>1, PocketMeans
  <2>3. IsSealed(w, cmd, payload)
    BY <2>2, SealedIs
  <2>4. Means(PocketEvent(w), m)
    BY <2>1, PocketMeans
  <2> HIDE DEF w
  <2>5. w \in Seq(Byte) /\ w # <<>>
    <3>1. w \in Seq(Byte) /\ Len(w) = 7 + Len(payload) /\ Len(payload) \in Nat
      BY <2>3, LenProperties DEF IsSealed
    <3> QED
      BY <3>1, EmptySeq
  <2>6. packet = w
    BY <1>1 DEF PacketIn
  <2>7. ASSUME NEW buf, NEW k, Begins(w, buf, k)
        PROVE  Cuts(RoundOf(c.type, buf), w, buf, k, w)
    <3>1. Cuts(MarkedRound(buf, 7), w, buf, k, w)
      BY <2>2, <2>3, <2>7, PocketCuts
    <3>2. RoundOf(c.type, buf) = MarkedRound(buf, 7)
      BY <1>1 DEF RoundOf
    <3> QED
      BY <3>1, <3>2
  <2>8. Means(EventOf(c.type, w), m)
    BY <1>1, <2>4 DEF EventOf
  <2>9. w \in FrameOf(c.type)
    BY <1>1, <2>5 DEF FrameOf
  <2> HIDE DEF packet
  <2> QED
    BY <2>5, <2>6, <2>7, <2>8, <2>9 DEF w, packet
<1>2. CASE c.type = "sphinx"
  <2>1. m \in Message("sphinx") /\ w = SphinxWire(m)
    BY <1>2 DEF Wire
  <2>2. w = <<83, CR, LF>> \/ \E ticket \in Byte : w = <<82, ticket, 87, CR, LF>>
    BY <2>1, SphinxMeans
  <2>3. Means(SphinxEvent(w), m)
    BY <2>1, SphinxMeans
  <2> HIDE DEF w
  <2>4. IsLine(w)
    <3>0. /\ 83 \in Byte /\ 82 \in Byte /\ 87 \in Byte /\ CR \in Byte /\ LF \in Byte
          /\ CR = 13 /\ LF = 10
      BY DEF Byte, CR, LF
    <3>1. CASE w = <<83, CR, LF>>
      <4>1. w \in Seq(Byte) /\ Len(w) = 3
        BY <3>0, <3>1
      <4>2. w[1] = 83 /\ w[2] = CR /\ w[3] = LF
        BY <3>1
      <4>3. ASSUME NEW j \in 2 .. Len(w) - 1
            PROVE  w[j - 1] # CR \/ w[j] # LF
        <5>1. j = 2
          BY <4>1
        <5>2. w[2 - 1] = 83
          BY <4>2
        <5> QED
          BY <3>0, <5>1, <5>2
      <4>4. Len(w) - 1 = 2 /\ Len(w) >= 2
        BY <4>1
      <4> QED
        BY <4>1, <4>2, <4>3, <4>4 DEF IsLine
    <3>2. CASE \E ticket \in Byte : w = <<82, ticket, 87, CR, LF>>
      <4> PICK ticket \in Byte : w = <<82, ticket, 87, CR, LF>>
        BY <3>2
      <4>1. w \in Seq(Byte) /\ Len(w) = 5
        BY <3>0
      <4>2. w[1] = 82 /\ w[2] = ticket /\ w[3] = 87 /\ w[4] = CR /\ w[5] = LF
        OBVIOUS
      <4>3. ASSUME NEW j \in 2 .. Len(w) - 1
            PROVE  w[j - 1] # CR \/ w[j] # LF
        <5>1. j = 2 \/ j = 3 \/ j = 4
          BY <4>1
        <5>2. CASE j = 2
          <6>1. w[j - 1] = 82
            BY <4>2, <5>2
          <6> QED
            BY <3>0, <6>1
        <5>3. CASE j = 3
          <6>1. w[j] = 87
            BY <4>2, <5>3
          <6> QED
            BY <3>0, <6>1
        <5>4. CASE j = 4
          <6>1. w[j] = CR
            BY <4>2, <5>4
          <6> QED
            BY <3>0, <6>1
        <5> QED
          BY <5>1, <5>2, <5>3, <5>4
      <4>4. Len(w) - 1 = 4 /\ Len(w) >= 2
        BY <4>1
      <4> QED
        BY <4>1, <4>2, <4>3, <4>4 DEF IsLine
    <3> QED
      BY <2>2, <3>1, <3>2
  <2>5. w \in Seq(Byte) /\ w # <<>>
    <3>1. w \in Seq(Byte) /\ Len(w) >= 2
      BY <2>4 DEF IsLine
    <3> QED
      BY <3>1, EmptySeq
  <2>6. packet = w
    BY <1>2 DEF PacketIn
  <2>7. ASSUME NEW buf, NEW k, Begins(w, buf, k)
        PROVE  Cuts(RoundOf(c.type, buf), w, buf, k, w)
    <3>1. Cuts(SphinxRound(buf), w, buf, k, w)
      BY <2>4, <2>7, LineCuts
    <3>2. RoundOf(c.type, buf) = SphinxRound(buf)
      BY <1>2 DEF RoundOf
    <3> QED
      BY <3>1, <3>2
  <2>8. Means(EventOf(c.type, w), m)
    BY <1>2, <2>3 DEF EventOf
  <2>9. w \in FrameOf(c.type)
    BY <1>2, <2>5 DEF FrameOf
  <2> HIDE DEF packet
  <2> QED
    BY <2>5, <2>6, <2>7, <2>8, <2>9 DEF w, packet
<1>3. CASE c.type = "jsp"
  <2>1. m \in Message("jsp") /\ w = JspWire(m)
    BY <1>3 DEF Wire
  <2>2. PICK text : /\ text \in JspText
                    /\ w = <<JspStart, 48, 48, 48, 50, text[1], text[2], JspEnd>>
                    /\ Means(JspEvent(text), m)
    BY <2>1, JspMeans
  <2> HIDE DEF w
  <2> DEFINE a == text[1]
             b == text[2]
  <2>3. text \in Seq(Byte) /\ Len(text) = 2 /\ a \in Byte /\ b \in Byte
    <3>1. text \in Seq(Byte) /\ Len(text) = 2
      BY <2>2 DEF JspText
    <3>2. 1 \in 1 .. Len(text) /\ 2 \in 1 .. Len(text)
      BY <3>1
    <3> QED
      BY <3>1, <3>2, ElementOfSeq
  <2> HIDE DEF a, b
  <2>4. w = <<JspStart, 48, 48, 48, 50, a, b, JspEnd>>
    BY <2>2 DEF a, b
  <2>5. w \in Seq(Byte) /\ w # <<>> /\ w[6] = a /\ w[7] = b
    <3>1. JspStart \in Byte /\ JspEnd \in Byte /\ 48 \in Byte /\ 50 \in Byte
      BY DEF JspStart, JspEnd, Byte
    <3> QED
      BY <2>3, <2>4, <3>1
  <2>6. packet = <<a, b>>
    BY <1>3, <2>5 DEF PacketIn
  <2>7. text = <<a, b>>
    <3> DEFINE u == <<a, b>>
    <3>1. u \in Seq(Byte) /\ Len(u) = 2 /\ u[1] = a /\ u[2] = b
      BY <2>3
    <3> HIDE DEF u
    <3>2. \A n \in 1 .. 2 : text[n] = u[n]
      BY <3>1 DEF a, b
    <3>3. text = u
      BY <2>3, <3>1, <3>2, SeqEqual
    <3> QED
      BY <3>3 DEF u
  <2>8. ASSUME NEW buf, NEW k, Begins(w, buf, k)
        PROVE  Cuts(RoundOf(c.type, buf), w, buf, k, packet)
    <3>1. Cuts(JspRound(buf), w, buf, k, <<a, b>>)
      BY <2>3, <2>4, <2>8, JspCuts
    <3>2. RoundOf(c.type, buf) = JspRound(buf)
      BY <1>3 DEF RoundOf
    <3> QED
      BY <2>6, <3>1, <3>2
  <2>9. packet \in FrameOf(c.type)
    BY <1>3, <2>2, <2>6, <2>7 DEF FrameOf
  <2>10. Means(EventOf(c.type, packet), m)
    <3>1. EventOf(c.type, packet) = JspEvent(packet)
      BY <1>3 DEF EventOf
    <3>2. packet = text
      BY <2>6, <2>7
    <3> HIDE DEF packet
    <3> QED
      BY <2>2, <3>1, <3>2
  <2> HIDE DEF packet
  <2> QED
    BY <2>5, <2>8, <2>9, <2>10 DEF w, packet
<1> QED
  BY <1>1, <1>2, <1>3 DEF Understood

\* At the end of the buffer every loop ends.
LEMMA LoopsEnd ==
  ASSUME NEW type \in Understood, NEW buf \in Seq(Byte)
  PROVE  /\ IsRound(RoundOf(type, buf), Len(buf), FrameOf(type))
         /\ RoundOf(type, buf)[Len(buf) + 1].then # "again"
         /\ RoundOf(type, buf)[Len(buf) + 1].next = Len(buf) + 1
<1> DEFINE i == Len(buf) + 1
           this == RoundOf(type, buf)[i]
<1>1. Len(buf) \in Nat /\ i \in 1 .. Len(buf) + 1
  BY LenProperties
<1>2. this = Waits(i) => this.then # "again" /\ this.next = i
  BY DEF Waits
<1>3. CASE type = "pocket"
  <2>1. RoundOf(type, buf) = MarkedRound(buf, 7)
    BY <1>3 DEF RoundOf
  <2>2. IsRound(RoundOf(type, buf), Len(buf), FrameOf(type))
    BY <1>3, RoundsAreRounds DEF Patient, FrameOf
  <2> DEFINE overhead == 7
             left == Len(buf) + 1 - i
  <2>3. overhead \in Nat \ {0} /\ left < 8
    BY <1>1
  <2> HIDE DEF overhead, i
  <2>4. left < 8 => MarkedRound(buf, overhead)[i] = Waits(i)
    BY <1>1, <2>3, MarkedRoundAt
  <2>5. this = Waits(i)
    BY <2>1, <2>3, <2>4 DEF overhead
  <2> HIDE DEF this
  <2> QED
    BY <1>2, <2>2, <2>5 DEF this, i
<1>4. CASE type = "sphinx"
  <2>1. RoundOf(type, buf) = SphinxRound(buf)
    BY <1>4 DEF RoundOf
  <2>2. IsRound(RoundOf(type, buf), Len(buf), FrameOf(type))
    BY <1>4, RoundsAreRounds DEF Patient, FrameOf
  <2>3. LineEnds(buf, i) = {}
    BY <1>1 DEF LineEnds
  <2>4. SphinxRound(buf)[i]
          = IF LineEnds(buf, i) = {} THEN Waits(i)
            ELSE Finds(SubSeq(buf, i, Min(LineEnds(buf, i))), Min(LineEnds(buf, i)) + 1)
    BY <1>1 DEF SphinxRound, LineEnds
  <2>5. this = Waits(i)
    BY <2>1, <2>3, <2>4
  <2> HIDE DEF this
  <2> QED
    BY <1>2, <2>2, <2>5 DEF this, i
<1>5. CASE type = "jsp"
  <2>1. RoundOf(type, buf) = JspRound(buf)
    BY <1>5 DEF RoundOf
  <2>2. IsRound(RoundOf(type, buf), Len(buf), FrameOf(type))
    BY <1>5, <2>1, JspIsRound DEF FrameOf
  <2> DEFINE try == TryReadPacket(buf, i)
             starts == {j \in i .. Len(buf) : buf[j] = JspStart}
  <2>3. starts = {}
    BY <1>1
  <2>4. try.result = "false" /\ try.next = i
    <3>1. try = [result |-> "false", next |-> Len(buf) + 1]
      BY <2>3 DEF TryReadPacket
    <3> HIDE DEF try
    <3> QED
      BY <3>1
  <2>5. this = CASE try.result \in {"missing", "error"} -> Waits(try.next)
          [] try.result = "false" /\ try.next > Len(buf) ->
               [Waits(try.next) EXCEPT !.then = "spinning"]
          [] try.result = "false" /\ try.next <= Len(buf) -> Skips(try.next)
          [] try.result = "packet" -> Finds(try.text, try.next)
    BY <1>1, <2>1 DEF JspRound
  <2> HIDE DEF try, this
  <2>6. this = [Waits(try.next) EXCEPT !.then = "spinning"]
    <3>1. try.next > Len(buf)
      BY <1>1, <2>4
    <3>2. ~(try.next <= Len(buf))
      BY <1>1, <2>4
    <3> QED
      BY <2>4, <2>5, <3>1, <3>2
  <2>7. this.then = "spinning" /\ this.next = i
    BY <2>4, <2>6 DEF Waits
  <2> QED
    BY <2>2, <2>7 DEF this, i
<1> QED
  BY <1>3, <1>4, <1>5 DEF Understood

\* A piece of a piece.
LEMMA PieceOfPiece ==
  ASSUME NEW s \in Seq(Byte), NEW a \in Nat, NEW b \in Nat, NEW r \in Nat,
         a <= b, b <= r, r <= Len(s)
  PROVE  /\ SubSeq(s, a + 1, r) \in Seq(Byte) /\ Len(SubSeq(s, a + 1, r)) = r - a
         /\ \A i \in 1 .. r - a : SubSeq(s, a + 1, r)[i] = s[a + i]
         /\ SubSeq(SubSeq(s, a + 1, r), (b - a) + 1, r - a) = SubSeq(s, b + 1, r)
<1>0. Len(s) \in Nat /\ \A i \in 1 .. Len(s) : s[i] \in Byte
  BY LenProperties, ElementOfSeq
<1>1. ASSUME NEW x \in Seq(Byte), NEW f \in Nat, NEW l \in Nat, f <= l, l <= Len(x)
      PROVE  /\ SubSeq(x, f + 1, l) \in Seq(Byte) /\ Len(SubSeq(x, f + 1, l)) = l - f
             /\ \A i \in 1 .. l - f : SubSeq(x, f + 1, l)[i] = x[f + i]
  <2> DEFINE p == f + 1
             piece == SubSeq(x, p, l)
  <2>1. p \in Nat \ {0} /\ l \in Int /\ p \in Int
    BY <1>1
  <2>2. p = f + 1
    OBVIOUS
  <2> HIDE DEF p
  <2>3. piece \in Seq(Byte) /\ Len(piece) = IF p <= l THEN l - p + 1 ELSE 0
    BY <1>1, <2>1, PieceOfBytes
  <2>4. \A i \in 1 .. l - p + 1 : piece[i] = x[p + i - 1]
    <3>1. \A i \in p .. l : x[i] \in Byte
      <4>1. \A i \in 1 .. Len(x) : x[i] \in Byte
        BY ElementOfSeq
      <4>2. Len(x) \in Nat
        BY LenProperties
      <4> QED
        BY <1>1, <2>1, <4>1, <4>2
    <3> QED
      BY <2>1, <3>1, SubSeqProperties
  <2> HIDE DEF piece
  <2>5. Len(piece) = l - f
    BY <1>1, <2>2, <2>3
  <2>6. ASSUME NEW i \in 1 .. l - f
        PROVE  piece[i] = x[f + i]
    <3>1. i \in 1 .. l - p + 1 /\ p + i - 1 = f + i
      BY <1>1, <2>2
    <3> QED
      BY <2>4, <3>1
  <2> QED
    BY <2>3, <2>5, <2>6 DEF piece, p
<1> DEFINE x == SubSeq(s, a + 1, r)
           y == SubSeq(s, b + 1, r)
           f == b - a
           l == r - a
           z == SubSeq(x, f + 1, l)
<1>2. x \in Seq(Byte) /\ Len(x) = l /\ \A i \in 1 .. l : x[i] = s[a + i]
  <2>1. a <= r
    OBVIOUS
  <2> QED
    BY <1>1, <2>1
<1>3. y \in Seq(Byte) /\ Len(y) = r - b /\ \A i \in 1 .. r - b : y[i] = s[b + i]
  BY <1>1
<1>4. f \in Nat /\ l \in Nat /\ f <= l /\ l - f = r - b
  OBVIOUS
<1>5. \A i \in Nat : a + (f + i) = b + i
  OBVIOUS
<1> HIDE DEF x, y, f
<1>6. \A i \in 1 .. l - f : f + i \in 1 .. l
  BY <1>4
<1> HIDE DEF l
<1>7. z \in Seq(Byte) /\ Len(z) = l - f /\ \A i \in 1 .. l - f : z[i] = x[f + i]
  BY <1>1, <1>2, <1>4
<1> HIDE DEF z
<1>8. ASSUME NEW i \in 1 .. Len(z)
      PROVE  z[i] = y[i]
  <2>1. i \in 1 .. l - f /\ i \in 1 .. r - b /\ i \in Nat
    BY <1>4, <1>7
  <2>2. z[i] = x[f + i] /\ x[f + i] = s[a + (f + i)] /\ y[i] = s[b + i]
    BY <1>2, <1>3, <1>6, <1>7, <2>1
  <2> QED
    BY <1>5, <2>1, <2>2
<1>9. z = y
  BY <1>3, <1>4, <1>7, <1>8, SeqEqual
<1> QED
  BY <1>2, <1>9 DEF x, y, z, f, l

\* More messages have more bytes.
LEMMA EndsGrow ==
  ASSUME NEW wires, OnTheWire(wires), NEW m \in 0 .. Len(wires), NEW n \in m .. Len(wires)
  PROVE  End(wires, m) <= End(wires, n)
<1>1. /\ Len(wires) \in Nat
      /\ \A i \in 0 .. Len(wires) : End(wires, i) \in Nat
      /\ \A i \in 1 .. Len(wires) : /\ Len(wires[i]) \in Nat
                                    /\ End(wires, i) = End(wires, i - 1) + Len(wires[i])
  BY MessageStands, LenProperties DEF OnTheWire
<1> DEFINE T == {d \in Nat : m + d <= Len(wires) => End(wires, m) <= End(wires, m + d)}
<1>2. 0 \in T
  <2>1. m + 0 = m /\ End(wires, m) \in Nat
    BY <1>1
  <2> QED
    BY <2>1
<1>3. ASSUME NEW d \in Nat, d \in T
      PROVE  d + 1 \in T
  <2>1. SUFFICES ASSUME m + (d + 1) <= Len(wires)
                 PROVE  End(wires, m) <= End(wires, m + (d + 1))
    OBVIOUS
  <2> DEFINE i == m + (d + 1)
  <2>2. i \in 1 .. Len(wires) /\ i - 1 = m + d /\ m + d <= Len(wires) /\ i - 1 \in 0 .. Len(wires)
    BY <1>1, <2>1
  <2>3. End(wires, m) <= End(wires, i - 1)
    BY <1>3, <2>2
  <2>4. /\ Len(wires[i]) \in Nat /\ End(wires, i) = End(wires, i - 1) + Len(wires[i])
        /\ End(wires, i - 1) \in Nat /\ End(wires, m) \in Nat
    BY <1>1, <2>2
  <2> HIDE DEF i
  <2>5. End(wires, m) <= End(wires, i)
    BY <2>3, <2>4
  <2> QED
    BY <2>5 DEF i
<1>4. n - m \in Nat /\ m + (n - m) = n /\ n <= Len(wires)
  BY <1>1
<1>5. n - m \in T
  <2> HIDE DEF T
  <2> QED
    BY <1>2, <1>3, <1>4, NatSetInduction
<1> QED
  BY <1>4, <1>5

\* The packets behind the first n, to the last.
Between(packets, n, last) == [i \in 1 .. last - n |-> packets[n + i]]

\* One more in front.
LEMMA OneInFront ==
  ASSUME NEW S, NEW packets, NEW last \in Nat, NEW n \in 1 .. last,
         \A i \in 1 .. last : packets[i] \in S
  PROVE  <<packets[n]>> \o Between(packets, n, last) = Between(packets, n - 1, last)
<1> DEFINE s == <<packets[n]>>
           t == Between(packets, n, last)
           u == Between(packets, n - 1, last)
<1>1. s \in Seq(S) /\ Len(s) = 1 /\ s[1] = packets[n]
  OBVIOUS
<1>2. /\ t \in Seq(S) /\ Len(t) = last - n
      /\ \A i \in 1 .. last - n : t[i] = packets[n + i]
  <2>1. last - n \in Nat /\ \A i \in 1 .. last - n : packets[n + i] \in S
    OBVIOUS
  <2> QED
    BY <2>1 DEF Between
<1>3. /\ u \in Seq(S) /\ Len(u) = last - (n - 1)
      /\ \A i \in 1 .. last - (n - 1) : u[i] = packets[(n - 1) + i]
  <2>1. last - (n - 1) \in Nat /\ \A i \in 1 .. last - (n - 1) : packets[(n - 1) + i] \in S
    OBVIOUS
  <2> QED
    BY <2>1 DEF Between
<1> HIDE DEF s, t, u
<1>4. Len(u) = Len(s) + Len(t)
  BY <1>1, <1>2, <1>3
<1>5. ASSUME NEW i \in 1 .. Len(s)
      PROVE  u[i] = s[i]
  <2>1. i = 1 /\ 1 \in 1 .. last - (n - 1) /\ (n - 1) + 1 = n
    BY <1>1
  <2> QED
    BY <1>1, <1>3, <2>1
<1>6. ASSUME NEW i \in 1 .. Len(t)
      PROVE  u[Len(s) + i] = t[i]
  <2>1. /\ i \in 1 .. last - n /\ Len(s) + i \in 1 .. last - (n - 1)
        /\ (n - 1) + (Len(s) + i) = n + i
    BY <1>1, <1>2
  <2> QED
    BY <1>2, <1>3, <2>1
<1>7. s \o t = u
  BY <1>1, <1>2, <1>3, <1>4, <1>5, <1>6, ConcatIs
<1> QED
  BY <1>7 DEF s, t, u

\* Rounds that cut each message's packet off where it stands, and end the loop
\* at the end of the buffer.
ReadsMessages(round, buf, wires, packets) ==
  /\ \A n \in 1 .. Len(wires) : \A at :
       Begins(wires[n], buf, at) => Cuts(round, wires[n], buf, at, packets[n])
  /\ round[Len(buf) + 1].then # "again" /\ round[Len(buf) + 1].next = Len(buf) + 1

\* From the k-th message on, the packets of those that end among the first r
\* bytes are cut off, and what is behind the last of them is left.
CutsTheWhole(buf, round, wires, packets, k, r) ==
  LET last == Cardinality(Among(wires, r))
  IN /\ last \in k .. Len(wires)
     /\ CutUp(buf, round).frames = Between(packets, k, last)
     /\ CutUp(buf, round).rest = SubSeq(FlattenSeq(wires), End(wires, last) + 1, r)

\* A loop over the bytes from the end of the k-th message cuts off the packets
\* of all messages that end among them, and leaves what is behind the last.
LEMMA MessagesAreCut ==
  ASSUME NEW wires, OnTheWire(wires), NEW packets, NEW S,
         \A n \in 1 .. Len(wires) : packets[n] \in S,
         NEW k \in 0 .. Len(wires), NEW r \in Nat,
         End(wires, k) <= r, r <= Len(FlattenSeq(wires)),
         NEW buf, buf = SubSeq(FlattenSeq(wires), End(wires, k) + 1, r),
         NEW round, IsRound(round, Len(buf), S),
         ReadsMessages(round, buf, wires, packets)
  PROVE  CutsTheWhole(buf, round, wires, packets, k, r)
<1> DEFINE stream == FlattenSeq(wires)
           L == Len(wires)
           e(n) == End(wires, n)
           last == Cardinality(Among(wires, r))
           N == Len(buf)
           at == CutFrom(round, N)
           pos(n) == (e(n) - e(k)) + 1
<1>1. /\ L \in Nat /\ e(0) = 0 /\ e(L) = Len(stream)
      /\ \A n \in 0 .. L : e(n) \in Nat
      /\ \A n \in 1 .. L : /\ Len(wires[n]) \in Nat \ {0} /\ e(n) = e(n - 1) + Len(wires[n])
                           /\ StandsIn(wires[n], stream, e(n - 1))
  BY MessageStands, LenProperties DEF OnTheWire
<1>2. last \in 0 .. L /\ e(last) <= r /\ (last < L => r < e(last + 1))
  BY FirstAreWhole
<1>3. stream \in Seq(Byte) /\ \A n \in 1 .. L : wires[n] \in Seq(Byte)
  <2>1. wires \in Seq(Seq(Byte))
    BY DEF OnTheWire
  <2> QED
    BY <2>1, FlattenTyped, ElementOfSeq
<1>4. \A m \in 0 .. L : \A n \in m .. L : e(m) <= e(n)
  BY EndsGrow
<1> HIDE DEF e, last, stream
<1>5. last \in k .. L
  <2>1. SUFFICES ASSUME last < k
                 PROVE  FALSE
    BY <1>1, <1>2
  <2>2. last + 1 \in 0 .. L /\ k \in last + 1 .. L /\ last < L
    BY <1>1, <1>2, <2>1
  <2>3. e(last + 1) <= e(k) /\ r < e(last + 1)
    BY <1>2, <1>4, <2>2
  <2>4. e(last + 1) \in Nat /\ e(k) \in Nat /\ e(k) <= r
    BY <1>1, <2>2 DEF e
  <2> QED
    BY <2>3, <2>4
<1>6. e(k) \in Nat /\ e(k) <= r /\ r <= Len(stream)
  BY <1>1 DEF e, stream
<1>7. /\ buf \in Seq(Byte) /\ N = r - e(k)
      /\ \A i \in 1 .. r - e(k) : buf[i] = stream[e(k) + i]
  <2> DEFINE a == e(k)
  <2>1. buf = SubSeq(stream, a + 1, r) /\ a \in Nat /\ a <= a /\ a <= r
    BY <1>6 DEF e, stream
  <2> HIDE DEF a
  <2>2. /\ SubSeq(stream, a + 1, r) \in Seq(Byte) /\ Len(SubSeq(stream, a + 1, r)) = r - a
        /\ \A i \in 1 .. r - a : SubSeq(stream, a + 1, r)[i] = stream[a + i]
    BY <1>3, <1>6, <2>1, PieceOfPiece
  <2> QED
    BY <2>1, <2>2 DEF a
<1>8. N \in Nat
  BY <1>7, LenProperties
<1> HIDE DEF N
<1>20. N = r - e(k)
  BY <1>7 DEF N
<1>9. ASSUME NEW n \in k + 1 .. L, e(n - 1) <= r
      PROVE  Begins(wires[n], buf, e(n - 1) - e(k))
  <2> DEFINE w == wires[n]
             p == e(n - 1)
             q == e(n - 1) - e(k)
  <2>1. n \in 1 .. L /\ n - 1 \in k .. L /\ n - 1 \in 0 .. L /\ k \in 0 .. L
    BY <1>1
  <2>2. e(k) <= p /\ p \in Nat
    BY <1>1, <1>4, <2>1
  <2>3. q \in Nat /\ q <= N /\ e(k) + q = p
    BY <1>6, <1>7, <1>9, <2>2 DEF N
  <2>4. w \in Seq(Byte) /\ Len(w) \in Nat
    BY <1>3, <2>1, LenProperties
  <2>5. \A j \in 1 .. Len(w) : stream[p + j] = w[j]
    <3>1. StandsIn(wires[n], stream, e(n - 1))
      BY <1>1, <2>1
    <3> QED
      BY <3>1 DEF StandsIn
  <2> HIDE DEF w, p, q
  <2>6. ASSUME NEW j \in 1 .. Len(w), q + j <= N
        PROVE  buf[q + j] = w[j]
    <3>1. q + j \in 1 .. r - e(k) /\ e(k) + (q + j) = p + j
      <4> DEFINE a == e(k)
                 h == N
                 l == Len(w)
      <4>1. /\ a \in Nat /\ h = r - a /\ a <= r /\ p \in Nat /\ q \in Nat /\ q <= h
            /\ a + q = p /\ q + j <= h /\ l \in Nat /\ j \in 1 .. l
        BY <1>6, <1>20, <2>2, <2>3, <2>4, <2>6
      <4> HIDE DEF a, h, l
      <4>2. q + j \in 1 .. r - a /\ a + (q + j) = p + j
        BY <4>1
      <4> QED
        BY <4>2 DEF a
    <3> QED
      BY <1>7, <2>5, <3>1
  <2>7. Begins(w, buf, q)
    BY <1>7, <2>3, <2>4, <2>6 DEF Begins, N
  <2> QED
    BY <2>7 DEF w, q
<1>10. \A n \in k .. last : pos(n) \in 1 .. N + 1
  <2> SUFFICES ASSUME NEW n \in k .. last
               PROVE  pos(n) \in 1 .. N + 1
    OBVIOUS
  <2>1. n \in k .. L /\ n \in 0 .. L /\ last \in n .. L /\ k \in 0 .. L
    BY <1>1, <1>5
  <2>2. e(k) <= e(n) /\ e(n) <= e(last) /\ e(n) \in Nat /\ e(last) \in Nat
    BY <1>1, <1>2, <1>4, <2>1
  <2>3. e(n) <= r
    BY <1>2, <2>2
  <2> DEFINE a == e(k)
             c == e(n)
             h == N
  <2>4. a \in Nat /\ c \in Nat /\ a <= c /\ c <= r /\ h = r - a
    BY <1>6, <1>20, <2>2, <2>3
  <2>5. pos(n) = (c - a) + 1
    OBVIOUS
  <2> HIDE DEF a, c, h
  <2>6. (c - a) + 1 \in 1 .. h + 1
    BY <2>4
  <2> QED
    BY <2>5, <2>6 DEF h
<1> DEFINE Claim(n) == /\ at[pos(n)].frames = Between(packets, n, last)
                       /\ at[pos(n)].next = pos(last)
<1>11. Claim(last)
  <2> DEFINE i == pos(last)
  <2>1. i \in 1 .. N + 1
    BY <1>5, <1>10
  <2>2. round[i].then # "again" /\ round[i].next = i
    <3>1. CASE last = L
      <4>1. e(last) = r
        BY <1>1, <1>2, <1>6, <3>1
      <4>2. i = N + 1
        BY <1>6, <1>7, <4>1 DEF N
      <4> HIDE DEF i
      <4> QED
        BY <4>2 DEF N, ReadsMessages
    <3>2. CASE last # L
      <4> DEFINE n == last + 1
                 q == e(n - 1) - e(k)
      <4>1. n \in k + 1 .. L /\ n \in 1 .. L /\ n - 1 = last /\ last < L
        BY <1>1, <1>2, <1>5, <3>2
      <4>2. Begins(wires[n], buf, q)
        BY <1>2, <1>9, <4>1
      <4>3. Cuts(round, wires[n], buf, q, packets[n])
        BY <4>1, <4>2 DEF L, ReadsMessages
      <4>4. q + 1 = i
        BY <4>1
      <4>5. N < q + Len(wires[n])
        <5>1. e(n) = e(n - 1) + Len(wires[n]) /\ r < e(n) /\ Len(wires[n]) \in Nat
          BY <1>1, <1>2, <4>1
        <5>2. e(n - 1) \in Nat
          BY <1>1, <4>1, SMTT(20)
        <5> QED
          BY <1>6, <1>7, <5>1, <5>2, SMTT(20) DEF N
      <4> HIDE DEF q, n, i
      <4> QED
        BY <4>3, <4>4, <4>5 DEF Cuts, N
    <3> QED
      BY <3>1, <3>2
  <2> HIDE DEF i, at
  <2>3. Stops(at, round, i)
    BY <1>8, <2>1, <2>2, CutFromIs DEF at, N
  <2>4. at[i].frames = <<>> /\ at[i].next = i
    BY <2>2, <2>3 DEF Stops
  <2>5. Between(packets, last, last) = <<>>
    <3>1. last - last = 0
      BY <1>2
    <3> QED
      BY <3>1 DEF Between
  <2> QED
    BY <2>4, <2>5 DEF i
<1>12. ASSUME NEW n \in k + 1 .. last, Claim(n)
       PROVE  Claim(n - 1)
  <2> DEFINE i == pos(n - 1)
             j == pos(n)
             q == e(n - 1) - e(k)
  <2>1. /\ n \in k + 1 .. L /\ n \in 1 .. L /\ n - 1 \in k .. last /\ n \in k .. last
        /\ n - 1 \in 0 .. L /\ last \in n - 1 .. L /\ last \in n .. L /\ n \in 0 .. L
        /\ n \in 1 .. last /\ last \in Nat /\ last \in 0 .. L
    BY <1>1, <1>2, <1>5
  <2>2. e(n - 1) <= r /\ e(n) <= r /\ e(n - 1) \in Nat /\ e(n) \in Nat
    <3>1. e(n - 1) <= e(last) /\ e(n) <= e(last)
      BY <1>4, <2>1
    <3>2. e(n - 1) \in Nat /\ e(n) \in Nat /\ e(last) \in Nat
      BY <1>1, <2>1
    <3> QED
      BY <1>2, <3>1, <3>2
  <2>3. i \in 1 .. N + 1 /\ q + 1 = i
    BY <1>10, <2>1
  <2>4. Begins(wires[n], buf, q)
    BY <1>9, <2>1, <2>2
  <2>5. Cuts(round, wires[n], buf, q, packets[n])
    BY <2>1, <2>4 DEF L, ReadsMessages
  <2>6. q + Len(wires[n]) <= N /\ q + Len(wires[n]) + 1 = j
    <3>1. e(n) = e(n - 1) + Len(wires[n]) /\ Len(wires[n]) \in Nat
      BY <1>1, <2>1
    <3> DEFINE a == e(k)
               c == e(n)
               d == e(n - 1)
               h == N
               l == Len(wires[n])
    <3>2. /\ a \in Nat /\ c \in Nat /\ d \in Nat /\ l \in Nat /\ h = r - a
          /\ c = d + l /\ c <= r /\ q = d - a /\ j = (c - a) + 1
      BY <1>6, <1>20, <2>2, <3>1
    <3> HIDE DEF a, c, d, h, l, q, j
    <3>3. q + l <= h /\ q + l + 1 = j
      BY <3>2
    <3> QED
      BY <3>3 DEF l, h
  <2> HIDE DEF q, i, j, at
  <2>7. round[i] = Finds(packets[n], j)
    BY <2>3, <2>5, <2>6 DEF Cuts, N
  <2>8. round[i].then = "again" /\ round[i].next = j /\ round[i].frames = <<packets[n]>>
    BY <2>7 DEF Finds
  <2>9. GoesOn(at, round, i)
    BY <1>8, <2>3, <2>8, CutFromIs DEF at, N
  <2>10. at[i].frames = <<packets[n]>> \o at[j].frames /\ at[i].next = at[j].next
    BY <2>8, <2>9 DEF GoesOn
  <2>11. at[j].frames = Between(packets, n, last) /\ at[j].next = pos(last)
    BY <1>12 DEF j
  <2>12. <<packets[n]>> \o Between(packets, n, last) = Between(packets, n - 1, last)
    <3>1. \A x \in 1 .. last : packets[x] \in S
      BY <1>1, <2>1 DEF L
    <3> QED
      BY <2>1, <3>1, OneInFront
  <2> QED
    BY <2>10, <2>11, <2>12 DEF i
<1> HIDE DEF Claim
<1> DEFINE T == {d \in Nat : d <= last - k => Claim(last - d)}
<1>13. 0 \in T
  <2>1. last - 0 = last
    BY <1>2
  <2> QED
    BY <1>11, <2>1
<1>14. ASSUME NEW d \in Nat, d \in T
       PROVE  d + 1 \in T
  <2>1. SUFFICES ASSUME d + 1 <= last - k
                 PROVE  Claim(last - (d + 1))
    OBVIOUS
  <2> DEFINE n == last - d
  <2>2. n \in k + 1 .. last /\ n - 1 = last - (d + 1) /\ d <= last - k
    BY <1>2, <1>5, <2>1
  <2>3. Claim(n)
    BY <1>14, <2>2
  <2> HIDE DEF n
  <2>4. Claim(n - 1)
    BY <1>12, <2>2, <2>3
  <2> QED
    BY <2>2, <2>4
<1>15. Claim(k)
  <2>1. last - k \in Nat /\ last - (last - k) = k
    BY <1>2, <1>5
  <2> HIDE DEF T
  <2>2. last - k \in T
    BY <1>13, <1>14, <2>1, NatSetInduction
  <2> USE DEF T
  <2> QED
    BY <2>1, <2>2
<1>16. pos(k) = 1
  BY <1>6
<1>17. at[1].frames = Between(packets, k, last) /\ at[1].next = pos(last)
  BY <1>15, <1>16 DEF Claim
<1> DEFINE cut == CutUp(buf, round)
<1>18. cut.frames = at[1].frames /\ cut.rest = SubSeq(buf, at[1].next, N)
  BY <1>7, CutUpIs, ZenonT(30) DEF N
<1> HIDE DEF at, cut
<1>19. cut.rest = SubSeq(stream, e(last) + 1, r)
  <2> DEFINE a == e(k)
             b == e(last)
             rest == SubSeq(SubSeq(stream, a + 1, r), (b - a) + 1, r - a)
  <2>1. a \in Nat /\ b \in Nat /\ a <= b /\ b <= r
    <3>1. k \in 0 .. L /\ last \in k .. L /\ last \in 0 .. L
      BY <1>1, <1>2, <1>5
    <3> QED
      BY <1>1, <1>2, <1>4, <3>1
  <2>2. cut.rest = rest
    <3>1. pos(last) = (b - a) + 1 /\ N = r - a
      BY <1>7 DEF N
    <3>2. buf = SubSeq(stream, a + 1, r)
      BY DEF e, stream
    <3> HIDE DEF pos, a, b
    <3> QED
      BY <1>17, <1>18, <3>1, <3>2
  <2> HIDE DEF a, b
  <2>3. rest = SubSeq(stream, b + 1, r)
    <3>1. /\ stream \in Seq(Byte) /\ r <= Len(stream)
          /\ a \in Nat /\ b \in Nat /\ a <= b /\ b <= r
      BY <1>3, <1>6, <2>1
    <3>2. SubSeq(SubSeq(stream, a + 1, r), (b - a) + 1, r - a) = SubSeq(stream, b + 1, r)
      BY <3>1, PieceOfPiece, Zenon
    <3> QED
      BY <3>2
  <2> HIDE DEF rest
  <2> QED
    BY <2>2, <2>3 DEF b
<1> QED
  BY <1>5, <1>17, <1>18, <1>19 DEF CutsTheWhole, cut, last, stream, e, L

-----------------------------------------------------------------------------
(* What the first messages mean, and one message more *)

\* What a message adds to the scanner's bytes.
BytesOf(m) == IF m.kind = "usart" THEN m.bytes ELSE <<>>

\* What behind n messages the settings still have of those of the k-th.
StillHeard(messages, k, n, moments) ==
  IF \A j \in k .. n : moments[j] \in {"no", "kept"} THEN BytesOf(messages[k]) ELSE <<>>

\* What is left of the bytes of the first n when all barcodes have been found.
Left(messages, n, moments) == ParseBarcodes(Tape(messages, n, moments)).rest

\* The events of the barcodes found.
Codes(found) == FlattenSeq([n \in DOMAIN found |-> BarcodeEvents(found[n])])

\* The kinds of messages, and what they carry.
LEMMA MessageTyped ==
  ASSUME NEW type \in Types, NEW m \in Message(type)
  PROVE  /\ m.kind \in {"tag", "usart", "pass", "pong", "request", "relay"}
         /\ m.kind = "tag" => m.uid \in Byte /\ m.auth \in BOOLEAN
         /\ m.kind = "usart" => m.bytes \in Seq(Byte)
         /\ m.kind \in {"pass", "pong"} => m \in Report
         /\ BytesOf(m) \in Seq(Byte)
<1>1. m \in PlainTag \cup LockerTag \cup PassReport \cup Scan \cup Pongs \cup Request \cup Relay
  BY DEF Message, Types
<1>2. CASE m \in PlainTag
  <2>1. m.kind = "tag" /\ m.uid \in Byte /\ m.auth = TRUE
    BY <1>2 DEF PlainTag
  <2>2. BytesOf(m) \in Seq(Byte)
    BY <2>1 DEF BytesOf
  <2> QED
    BY <2>1, <2>2
<1>3. CASE m \in LockerTag
  <2>1. m.kind = "tag" /\ m.uid \in Byte /\ m.auth \in BOOLEAN
    BY <1>3 DEF LockerTag
  <2>2. BytesOf(m) \in Seq(Byte)
    BY <2>1 DEF BytesOf
  <2> QED
    BY <2>1, <2>2
<1>4. CASE m \in PassReport
  <2>1. m.kind = "pass" /\ m \in Report
    BY <1>4 DEF PassReport, Report
  <2>2. BytesOf(m) \in Seq(Byte)
    BY <2>1 DEF BytesOf
  <2> QED
    BY <2>1, <2>2
<1>5. CASE m \in Scan
  <2>1. m.kind = "usart" /\ m.bytes \in Seq(Byte)
    BY <1>5 DEF Scan
  <2>2. BytesOf(m) \in Seq(Byte)
    BY <2>1 DEF BytesOf
  <2> QED
    BY <2>1, <2>2
<1>6. CASE m \in Pongs
  <2>1. m.kind = "pong" /\ m \in Report
    BY <1>6 DEF Pongs, Report
  <2>2. BytesOf(m) \in Seq(Byte)
    BY <2>1 DEF BytesOf
  <2> QED
    BY <2>1, <2>2
<1>7. CASE m \in Request
  <2>1. m.kind = "request"
    BY <1>7 DEF Request
  <2>2. BytesOf(m) \in Seq(Byte)
    BY <2>1 DEF BytesOf
  <2> QED
    BY <2>1, <2>2
<1>8. CASE m \in Relay
  <2>1. m.kind = "relay"
    BY <1>8 DEF Relay
  <2>2. BytesOf(m) \in Seq(Byte)
    BY <2>1 DEF BytesOf
  <2> QED
    BY <2>1, <2>2
<1> QED
  BY <1>1, <1>2, <1>3, <1>4, <1>5, <1>6, <1>7, <1>8

\* Nothing put one behind the other is nothing.
LEMMA FlattenOfNothing ==
  ASSUME NEW S, NEW seqs \in Seq(Seq(S)), \A i \in 1 .. Len(seqs) : seqs[i] = <<>>
  PROVE  FlattenSeq(seqs) = <<>>
<1> DEFINE L == Len(seqs)
<1>1. L \in Nat
  BY LenProperties
<1>2. PICK f : Flattens(f, seqs) /\ FlattenSeq(seqs) = f[L]
  BY FlattenIs
<1> DEFINE T == {i \in Nat : i <= L => f[i] = <<>>}
<1>3. 0 \in T
  BY <1>2 DEF Flattens
<1>4. ASSUME NEW i \in Nat, i \in T
      PROVE  i + 1 \in T
  <2>1. SUFFICES ASSUME i + 1 <= L
                 PROVE  f[i + 1] = <<>>
    OBVIOUS
  <2>2. i + 1 \in 1 .. L /\ (i + 1) - 1 = i /\ i <= L
    BY <1>1, <2>1
  <2>3. f[i + 1] = f[i] \o seqs[i + 1]
    BY <1>2, <2>2 DEF Flattens
  <2>4. f[i] = <<>> /\ seqs[i + 1] = <<>>
    BY <1>4, <2>2
  <2>5. <<>> \o <<>> = <<>>
    <3>1. <<>> \in Seq(S)
      BY EmptySeq
    <3> QED
      BY <3>1, ConcatEmptySeq
  <2> QED
    BY <2>3, <2>4, <2>5
<1> HIDE DEF T, L
<1>5. L \in T
  BY <1>1, <1>3, <1>4, NatSetInduction
<1> QED
  BY <1>1, <1>2, <1>5 DEF T

\* In no bytes there is no barcode.
LEMMA NoBarcodes ==
  ParseBarcodes(<<>>).frames = <<>> /\ ParseBarcodes(<<>>).rest = <<>>
<1> DEFINE buf == <<>>
           round == BarcodeRound(buf)
           cut == CutUp(buf, round)
<1>1. buf \in Seq(Byte) /\ Len(buf) = 0
  BY EmptySeq
<1>2. IsRound(round, Len(buf), Seq(Byte))
  BY <1>1, BarcodeIsRound
<1>3. /\ cut.rest = SubSeq(buf, CutFrom(round, Len(buf))[1].next, Len(buf))
      /\ cut.frames = CutFrom(round, Len(buf))[1].frames
  BY DEF CutUp
<1> HIDE DEF cut, round
<1>4. CutFrom(round, 0)[1].next = 1 /\ CutFrom(round, 0)[1].frames = <<>>
  <2> DEFINE at == CutFrom(round, 0)
  <2>1. IsRound(round, 0, Seq(Byte)) /\ 0 \in Nat /\ 1 \in 1 .. 0 + 1
    BY <1>1, <1>2
  <2>2. round[1].then # "again" /\ round[1].next = 1
    BY <2>1 DEF IsRound
  <2> HIDE DEF at
  <2>3. Stops(at, round, 1)
    BY <2>1, <2>2, CutFromIs DEF at
  <2> QED
    BY <2>2, <2>3 DEF Stops, at
<1>5. SubSeq(buf, 1, 0) = <<>>
  BY SubSeqEmpty
<1> QED
  BY <1>1, <1>3, <1>4, <1>5 DEF ParseBarcodes, cut, round

\* The tape, piece by piece.
LEMMA TapeIs ==
  ASSUME NEW messages, NEW n, NEW moments
  PROVE  Tape(messages, n, moments)
           = FlattenSeq([k \in 1 .. n |-> StillHeard(messages, k, n, moments)])
<1> DEFINE ok(k) == \A j \in k .. n : moments[j] \in {"no", "kept"}
           s == [k \in 1 .. n |-> IF messages[k].kind = "usart" /\ ok(k)
                                  THEN messages[k].bytes ELSE <<>>]
           t == [k \in 1 .. n |-> StillHeard(messages, k, n, moments)]
<1>1. Tape(messages, n, moments) = FlattenSeq(s)
  BY DEF Tape
<1>2. \A k \in 1 .. n : StillHeard(messages, k, n, moments)
                          = IF ok(k) THEN BytesOf(messages[k]) ELSE <<>>
  BY DEF StillHeard
<1> HIDE DEF ok
<1>3. s = t
  BY <1>2 DEF BytesOf
<1> HIDE DEF s, t
<1>4. Tape(messages, n, moments) = FlattenSeq(t)
  BY <1>1, <1>3
<1> QED
  BY <1>4 DEF t

\* The bytes of a scanner come to those that came before, or all are lost.
LEMMA TapeOneMore ==
  ASSUME NEW type \in Types, NEW messages \in Seq(Message(type)), NEW n \in 1 .. Len(messages),
         NEW moments
  PROVE  /\ Tape(messages, n - 1, moments) \in Seq(Byte) /\ Tape(messages, n, moments) \in Seq(Byte)
         /\ Tape(messages, n, moments)
              = IF moments[n] \in {"no", "kept"}
                THEN Tape(messages, n - 1, moments) \o BytesOf(messages[n]) ELSE <<>>
<1> DEFINE s == [k \in 1 .. n - 1 |-> StillHeard(messages, k, n - 1, moments)]
           t == [k \in 1 .. n |-> StillHeard(messages, k, n, moments)]
           Piece(k, l) == StillHeard(messages, k, l, moments)
<1>1. Len(messages) \in Nat /\ n \in Nat /\ n - 1 \in Nat
  BY LenProperties
<1>2. \A k \in 1 .. n : \A l : Piece(k, l) \in Seq(Byte)
  <2> SUFFICES ASSUME NEW k \in 1 .. n
               PROVE  BytesOf(messages[k]) \in Seq(Byte) /\ <<>> \in Seq(Byte)
    BY DEF StillHeard
  <2>1. k \in 1 .. Len(messages)
    BY <1>1
  <2>2. messages[k] \in Message(type)
    BY <2>1, ElementOfSeq
  <2> QED
    BY <2>2, MessageTyped, EmptySeq
<1>3. /\ \A k, l : Piece(k, l) = IF \A j \in k .. l : moments[j] \in {"no", "kept"}
                                 THEN BytesOf(messages[k]) ELSE <<>>
      /\ s = [k \in 1 .. n - 1 |-> Piece(k, n - 1)] /\ t = [k \in 1 .. n |-> Piece(k, n)]
  BY DEF StillHeard
<1>4. Tape(messages, n - 1, moments) = FlattenSeq(s) /\ Tape(messages, n, moments) = FlattenSeq(t)
  BY TapeIs
<1> HIDE DEF s, t, Piece
<1>5. s \in Seq(Seq(Byte)) /\ Len(s) = n - 1 /\ t \in Seq(Seq(Byte)) /\ Len(t) = n
  <2>1. \A k \in 1 .. n - 1 : k \in 1 .. n
    BY <1>1
  <2>2. \A k \in 1 .. n - 1 : Piece(k, n - 1) \in Seq(Byte)
    BY <1>2, <2>1
  <2>3. \A k \in 1 .. n : Piece(k, n) \in Seq(Byte)
    BY <1>2
  <2>4. s \in Seq(Seq(Byte)) /\ Len(s) = n - 1
    BY <1>1, <1>3, <2>2
  <2>5. t \in Seq(Seq(Byte)) /\ Len(t) = n
    BY <1>1, <1>3, <2>3
  <2> QED
    BY <2>4, <2>5
<1>6. FlattenSeq(s) \in Seq(Byte) /\ FlattenSeq(t) \in Seq(Byte)
  BY <1>5, FlattenTyped
<1>7. \A i \in 1 .. n : i \in i .. n /\ n \in i .. n
  BY <1>1
<1>8. CASE moments[n] \in {"no", "kept"}
  <2>1. ASSUME NEW i \in 1 .. Len(s)
        PROVE  t[i] = s[i]
    <3>1. i \in 1 .. n /\ i \in 1 .. n - 1 /\ \A j : j \in i .. n <=> j \in i .. n - 1 \/ j = n
      BY <1>1, <1>5
    <3>2. Piece(i, n) = Piece(i, n - 1)
      BY <1>3, <1>8, <3>1
    <3> QED
      BY <1>3, <3>1, <3>2
  <2>2. Len(t) = Len(s) + 1 /\ Len(t) = n
    BY <1>1, <1>5
  <2>3. t[n] = BytesOf(messages[n])
    <3>1. n \in 1 .. n /\ \A j \in n .. n : j = n
      BY <1>1
    <3>2. Piece(n, n) = BytesOf(messages[n])
      BY <1>3, <1>8, <3>1
    <3> QED
      BY <1>3, <3>1, <3>2
  <2>4. FlattenSeq(t) = FlattenSeq(s) \o t[Len(t)]
    BY <1>5, <2>1, <2>2, FlattenOneMore
  <2> QED
    BY <1>4, <1>6, <1>8, <2>2, <2>3, <2>4
<1>9. CASE moments[n] \notin {"no", "kept"}
  <2>1. \A i \in 1 .. Len(t) : t[i] = <<>>
    BY <1>3, <1>5, <1>7, <1>9
  <2>2. FlattenSeq(t) = <<>>
    BY <1>5, <2>1, FlattenOfNothing
  <2> QED
    BY <1>4, <1>6, <1>9, <2>2
<1> QED
  BY <1>8, <1>9

\* No messages leave nothing.
LEMMA NothingOnTape ==
  ASSUME NEW messages, NEW moments
  PROVE  Tape(messages, 0, moments) = <<>> /\ Left(messages, 0, moments) = <<>>
<1> DEFINE none == [k \in 1 .. 0 |-> StillHeard(messages, k, 0, moments)]
<1>1. none = <<>>
  OBVIOUS
<1>2. Tape(messages, 0, moments) = FlattenSeq(none)
  BY TapeIs
<1> HIDE DEF none
<1>3. FlattenSeq(<<>>) = <<>>
  <2> DEFINE empty == <<>>
  <2>1. empty \in Seq(Seq(Byte)) /\ Len(empty) = 0
    BY EmptySeq
  <2> HIDE DEF empty
  <2>2. \A i \in 1 .. Len(empty) : empty[i] = <<>>
    BY <2>1
  <2>3. FlattenSeq(empty) = <<>>
    BY <2>1, <2>2, FlattenOfNothing
  <2> QED
    BY <2>3 DEF empty
<1>4. ParseBarcodes(<<>>).rest = <<>>
  BY NoBarcodes
<1> QED
  BY <1>1, <1>2, <1>3, <1>4 DEF Left

\* The events of two lists of barcodes.
LEMMA CodesOfBoth ==
  ASSUME NEW a \in Seq(Seq(Byte)), NEW b \in Seq(Seq(Byte))
  PROVE  /\ Codes(a) \in Seq(Report) /\ Codes(b) \in Seq(Report)
         /\ Codes(a \o b) = Codes(a) \o Codes(b)
<1> DEFINE both == a \o b
           List(found) == [n \in DOMAIN found |-> BarcodeEvents(found[n])]
<1>1. ASSUME NEW found \in Seq(Seq(Byte))
      PROVE  /\ List(found) \in Seq(Seq(Report)) /\ Len(List(found)) = Len(found)
             /\ \A n \in 1 .. Len(found) : List(found)[n] = BarcodeEvents(found[n])
  <2>1. Len(found) \in Nat /\ DOMAIN found = 1 .. Len(found)
    BY LenProperties
  <2>2. \A n \in 1 .. Len(found) : BarcodeEvents(found[n]) \in Seq(Report)
    <3>1. \A n \in 1 .. Len(found) : found[n] \in Seq(Byte)
      BY ElementOfSeq
    <3> QED
      BY <3>1, BarcodeEventsTyped
  <2> DEFINE L == Len(found)
  <2>3. List(found) = [n \in 1 .. L |-> BarcodeEvents(found[n])]
    BY <2>1
  <2> HIDE DEF L
  <2>4. L \in Nat /\ \A n \in 1 .. L : BarcodeEvents(found[n]) \in Seq(Report)
    BY <2>1, <2>2 DEF L
  <2> HIDE DEF List
  <2> QED
    BY <2>3, <2>4 DEF L
<1>2. \A found : Codes(found) = FlattenSeq(List(found))
  BY DEF Codes
<1>3. /\ both \in Seq(Seq(Byte)) /\ Len(both) = Len(a) + Len(b)
      /\ \A i \in 1 .. Len(a) + Len(b) : both[i] = IF i <= Len(a) THEN a[i] ELSE b[i - Len(a)]
  BY ConcatProperties
<1>4. Len(a) \in Nat /\ Len(b) \in Nat
  BY LenProperties
<1> HIDE DEF both, List
<1> DEFINE s == List(a)
           t == List(b)
           u == List(both)
<1>5. /\ s \in Seq(Seq(Report)) /\ t \in Seq(Seq(Report)) /\ u \in Seq(Seq(Report))
      /\ Len(s) = Len(a) /\ Len(t) = Len(b) /\ Len(u) = Len(both)
      /\ \A n \in 1 .. Len(a) : s[n] = BarcodeEvents(a[n])
      /\ \A n \in 1 .. Len(b) : t[n] = BarcodeEvents(b[n])
      /\ \A n \in 1 .. Len(both) : u[n] = BarcodeEvents(both[n])
  BY <1>1, <1>3
<1> HIDE DEF s, t, u
<1>6. Len(u) = Len(s) + Len(t)
  BY <1>3, <1>5
<1>7. ASSUME NEW i \in 1 .. Len(s)
      PROVE  u[i] = s[i]
  <2>1. i \in 1 .. Len(a) /\ i \in 1 .. Len(both) /\ i \in 1 .. Len(a) + Len(b) /\ i <= Len(a)
    BY <1>3, <1>4, <1>5
  <2>2. both[i] = a[i]
    BY <1>3, <2>1
  <2> QED
    BY <1>5, <2>1, <2>2
<1>8. ASSUME NEW i \in 1 .. Len(t)
      PROVE  u[Len(s) + i] = t[i]
  <2> DEFINE j == Len(a) + i
  <2>1. /\ i \in 1 .. Len(b) /\ j \in 1 .. Len(both) /\ j \in 1 .. Len(a) + Len(b)
        /\ ~(j <= Len(a)) /\ j - Len(a) = i /\ Len(s) + i = j
    <3> DEFINE la == Len(a)
               lb == Len(b)
               ls == Len(s)
               lc == Len(both)
    <3>1. la \in Nat /\ lb \in Nat /\ ls = la /\ lc = la + lb /\ i \in 1 .. lb
      BY <1>3, <1>4, <1>5
    <3>2. j = la + i
      OBVIOUS
    <3> HIDE DEF la, lb, ls, lc, j
    <3>3. /\ i \in 1 .. lb /\ j \in 1 .. lc /\ j \in 1 .. la + lb
          /\ ~(j <= la) /\ j - la = i /\ ls + i = j
      BY <3>1, <3>2
    <3> QED
      BY <3>3 DEF la, lb, ls, lc
  <2> HIDE DEF j
  <2>2. both[j] = b[i]
    BY <1>3, <2>1
  <2> QED
    BY <1>5, <2>1, <2>2
<1>9. s \o t = u
  BY <1>5, <1>6, <1>7, <1>8, ConcatIs
<1>10. FlattenSeq(s \o t) = FlattenSeq(s) \o FlattenSeq(t)
  BY <1>5, FlattenOfBoth
<1>11. FlattenSeq(s) \in Seq(Report) /\ FlattenSeq(t) \in Seq(Report)
  BY <1>5, FlattenTyped
<1>12. /\ Codes(a) = FlattenSeq(s) /\ Codes(b) = FlattenSeq(t) /\ Codes(both) = FlattenSeq(u)
  BY <1>2 DEF s, t, u
<1> QED
  BY <1>9, <1>10, <1>11, <1>12 DEF both

\* What is told of the barcodes found.
LEMMA TellIs ==
  ASSUME NEW told, NEW found
  PROVE  Tell(told, found) = told \o Codes(found)
  BY DEF Tell, Codes

\* The barcodes in bytes, and what is left of them.
LEMMA BarcodesAre ==
  ASSUME NEW bytes \in Seq(Byte)
  PROVE  /\ ParseBarcodes(bytes).frames \in Seq(Seq(Byte)) /\ ParseBarcodes(bytes).rest \in Seq(Byte)
         /\ BarcodesOf(bytes) = Codes(ParseBarcodes(bytes).frames)
         /\ BarcodesOf(bytes) \in Seq(Report)
<1> DEFINE found == ParseBarcodes(bytes).frames
<1>1. found \in Seq(Seq(Byte)) /\ ParseBarcodes(bytes).rest \in Seq(Byte)
  <2>1. IsRound(BarcodeRound(bytes), Len(bytes), Seq(Byte))
    BY BarcodeIsRound
  <2>2. /\ CutUp(bytes, BarcodeRound(bytes)).frames \in Seq(Seq(Byte))
        /\ CutUp(bytes, BarcodeRound(bytes)).rest \in Seq(Byte)
    BY <2>1, CutUpIs
  <2> QED
    BY <2>2 DEF ParseBarcodes
<1>2. BarcodesOf(bytes) = Tell(<<>>, found)
  BY DEF BarcodesOf
<1> HIDE DEF found
<1>3. Codes(found) \in Seq(Report)
  BY <1>1, CodesOfBoth
<1>4. BarcodesOf(bytes) = <<>> \o Codes(found)
  BY <1>2, TellIs
<1>5. <<>> \o Codes(found) = Codes(found)
  BY <1>3, ConcatEmptySeq
<1> QED
  BY <1>1, <1>3, <1>4, <1>5 DEF found

\* More bytes: the barcodes that they complete, and what is left then.
LEMMA BarcodesOneMore ==
  ASSUME NEW a \in Seq(Byte), NEW b \in Seq(Byte)
  PROVE  LET more == ParseBarcodes(ParseBarcodes(a).rest \o b)
         IN /\ more.frames \in Seq(Seq(Byte)) /\ ParseBarcodes(a \o b).rest = more.rest
            /\ BarcodesOf(a \o b) = BarcodesOf(a) \o Codes(more.frames)
<1> DEFINE c == a \o b
           first == ParseBarcodes(a)
           bytes == first.rest \o b
           more == ParseBarcodes(bytes)
           both == ParseBarcodes(c)
<1>1. "barcodes" \in Loops
  BY DEF Loops
<1>2. Continues("barcodes", a, b)
  BY <1>1, LoopsGoOn
<1>3. both.frames = first.frames \o more.frames /\ both.rest = more.rest
  BY <1>2 DEF Continues, LoopOf, ParseBarcodes
<1>4. c \in Seq(Byte)
  BY ConcatProperties
<1>5. first.frames \in Seq(Seq(Byte)) /\ first.rest \in Seq(Byte)
  BY BarcodesAre
<1>6. bytes \in Seq(Byte)
  <2> HIDE DEF first
  <2> QED
    BY <1>5, ConcatProperties
<1>7. more.frames \in Seq(Seq(Byte))
  <2> HIDE DEF bytes
  <2> QED
    BY <1>6, BarcodesAre
<1>8. BarcodesOf(a) = Codes(first.frames) /\ BarcodesOf(c) = Codes(both.frames)
  <2> HIDE DEF c
  <2> QED
    BY <1>4, BarcodesAre
<1> HIDE DEF first, more, both, c
<1>9. Codes(first.frames \o more.frames) = Codes(first.frames) \o Codes(more.frames)
  BY <1>5, <1>7, CodesOfBoth
<1>10. BarcodesOf(c) = BarcodesOf(a) \o Codes(more.frames)
  BY <1>3, <1>8, <1>9
<1> QED
  BY <1>3, <1>7, <1>10 DEF first, more, both, c

\* A message more: what is left then of the scanner's bytes.
LEMMA LeftOneMore ==
  ASSUME NEW type \in Types, NEW messages \in Seq(Message(type)), NEW n \in 1 .. Len(messages),
         NEW moments
  PROVE  LET m == messages[n]
             before == Left(messages, n - 1, moments)
         IN Left(messages, n, moments)
              = IF moments[n] \notin {"no", "kept"} THEN <<>>
                ELSE IF m.kind = "usart" THEN ParseBarcodes(before \o m.bytes).rest
                     ELSE before
<1> DEFINE m == messages[n]
           a == Tape(messages, n - 1, moments)
           c == Tape(messages, n, moments)
<1>1. m \in Message(type)
  BY ElementOfSeq
<1>2. a \in Seq(Byte) /\ c = IF moments[n] \in {"no", "kept"} THEN a \o BytesOf(m) ELSE <<>>
  BY TapeOneMore
<1>3. BytesOf(m) \in Seq(Byte)
  BY <1>1, MessageTyped
<1>4. /\ Left(messages, n - 1, moments) = ParseBarcodes(a).rest
      /\ Left(messages, n, moments) = ParseBarcodes(c).rest
  BY DEF Left
<1> HIDE DEF a, c, m
<1>5. CASE moments[n] \notin {"no", "kept"}
  <2>1. c = <<>>
    BY <1>2, <1>5
  <2> QED
    BY <1>4, <1>5, <2>1, NoBarcodes
<1>6. CASE moments[n] \in {"no", "kept"} /\ m.kind = "usart"
  <2> DEFINE b == m.bytes
  <2>1. BytesOf(m) = b
    BY <1>6 DEF BytesOf
  <2>2. c = a \o b /\ b \in Seq(Byte)
    BY <1>2, <1>3, <1>6, <2>1
  <2> HIDE DEF b
  <2>3. ParseBarcodes(a \o b).rest = ParseBarcodes(ParseBarcodes(a).rest \o b).rest
    BY <1>2, <2>2, BarcodesOneMore
  <2>4. Left(messages, n, moments) = ParseBarcodes(Left(messages, n - 1, moments) \o b).rest
    BY <1>4, <2>2, <2>3
  <2> QED
    BY <1>6, <2>4 DEF b, m
<1>7. CASE moments[n] \in {"no", "kept"} /\ m.kind # "usart"
  <2>1. BytesOf(m) = <<>>
    BY <1>7 DEF BytesOf
  <2>2. c = a \o <<>>
    BY <1>2, <1>7, <2>1
  <2>3. c = a
    BY <1>2, <2>2, ConcatEmptySeq
  <2>4. Left(messages, n, moments) = Left(messages, n - 1, moments)
    BY <1>4, <2>3
  <2> QED
    BY <1>7, <2>4 DEF m
<1> QED
  BY <1>5, <1>6, <1>7

\* What is behind the first of two sequences is the second.
LEMMA BehindTheFirst ==
  ASSUME NEW S, NEW x \in Seq(S), NEW y \in Seq(S)
  PROVE  SubSeq(x \o y, Len(x) + 1, Len(x \o y)) = y
<1> DEFINE z == x \o y
           a == Len(x)
           b == Len(y)
           c == Len(z)
           p == a + 1
           rest == SubSeq(z, p, c)
<1>1. /\ a \in Nat /\ b \in Nat /\ z \in Seq(S) /\ c = a + b
      /\ \A i \in 1 .. a + b : z[i] = IF i <= a THEN x[i] ELSE y[i - a]
  BY ConcatProperties, LenProperties
<1>2. \A i \in 1 .. c : z[i] \in S
  <2> HIDE DEF z
  <2> QED
    BY <1>1, ElementOfSeq
<1> HIDE DEF z, a, b, c
<1>3. a \in Nat /\ b \in Nat /\ c = a + b
  BY <1>1
<1>4. p \in Int /\ c \in Int /\ \A i \in p .. c : i \in 1 .. c
  BY <1>3
<1>5. \A i \in p .. c : z[i] \in S
  BY <1>2, <1>4
<1> HIDE DEF p
<1>6. /\ rest \in Seq(S) /\ Len(rest) = IF p <= c THEN c - p + 1 ELSE 0
      /\ \A i \in 1 .. c - p + 1 : rest[i] = z[p + i - 1]
  BY <1>4, <1>5, SubSeqProperties
<1> HIDE DEF rest
<1>7. Len(rest) = b
  <2>1. IF p <= c THEN c - p + 1 = b ELSE b = 0
    BY <1>3 DEF p
  <2> QED
    BY <1>6, <2>1
<1>8. ASSUME NEW i \in 1 .. Len(rest)
      PROVE  rest[i] = y[i]
  <2> DEFINE j == p + i - 1
  <2>1. i \in 1 .. c - p + 1 /\ j \in 1 .. a + b /\ ~(j <= a) /\ j - a = i
    <3>1. i \in 1 .. b
      BY <1>7
    <3> QED
      BY <1>3, <3>1 DEF p
  <2>2. rest[i] = z[j]
    BY <1>6, <2>1
  <2> HIDE DEF j
  <2>3. z[j] = y[j - a]
    BY <1>1, <2>1
  <2> QED
    BY <2>1, <2>2, <2>3
<1>9. rest = y
  BY <1>6, <1>7, <1>8, SeqEqual DEF b
<1> QED
  BY <1>9 DEF rest, p, c, a, z

\* What a message means, told with what is left of the scanner's bytes before it.
LEMMA MeaningOfIs ==
  ASSUME NEW type \in Types, NEW messages \in Seq(Message(type)), NEW n \in 1 .. Len(messages),
         NEW moments
  PROVE  LET m == messages[n]
             found == ParseBarcodes(Left(messages, n - 1, moments) \o m.bytes).frames
         IN /\ MeaningOf(messages, n, moments) \in Seq(Report)
            /\ m.kind = "usart" =>
                 /\ found \in Seq(Seq(Byte))
                 /\ MeaningOf(messages, n, moments)
                      = IF moments[n] = "lost" THEN <<>> ELSE Codes(found)
<1> DEFINE m == messages[n]
           tape == Tape(messages, n - 1, moments)
           found == ParseBarcodes(Left(messages, n - 1, moments) \o m.bytes).frames
           x == BarcodesOf(tape)
           z == BarcodesOf(tape \o m.bytes)
           meaning == MeaningOf(messages, n, moments)
<1>1. m \in Message(type)
  BY ElementOfSeq
<1>2. meaning =
        CASE m.kind = "tag" -> <<[kind |-> "tag", uid |-> m.uid, auth |-> m.auth]>>
          [] m.kind = "usart" /\ moments[n] # "lost" -> SubSeq(z, Len(x) + 1, Len(z))
          [] m.kind = "usart" /\ moments[n] = "lost" -> <<>>
          [] m.kind \in {"request", "relay"} -> <<>>
          [] OTHER -> <<m>>
  BY DEF MeaningOf
<1>3. /\ m.kind \in {"tag", "usart", "pass", "pong", "request", "relay"}
      /\ m.kind = "tag" => m.uid \in Byte /\ m.auth \in BOOLEAN
      /\ m.kind = "usart" => m.bytes \in Seq(Byte)
      /\ m.kind \in {"pass", "pong"} => m \in Report
  BY <1>1, MessageTyped
<1>4. tape \in Seq(Byte)
  BY TapeOneMore
<1>5. found = ParseBarcodes(ParseBarcodes(tape).rest \o m.bytes).frames
  BY DEF Left
<1> HIDE DEF tape, m, found
<1>6. x \in Seq(Report)
  BY <1>4, BarcodesAre
<1>7. m.kind = "usart" => found \in Seq(Seq(Byte)) /\ z = x \o Codes(found)
  BY <1>3, <1>4, <1>5, BarcodesOneMore
<1> HIDE DEF x, z, meaning
<1>8. <<>> \in Seq(Report)
  BY EmptySeq
<1>9. CASE m.kind = "tag"
  <2> DEFINE told == [kind |-> "tag", uid |-> m.uid, auth |-> m.auth]
  <2>1. told \in Report
    BY <1>3, <1>9 DEF Report
  <2>2. meaning = <<told>>
    BY <1>2, <1>9
  <2> HIDE DEF told
  <2>3. <<told>> \in Seq(Report)
    BY <2>1
  <2> QED
    BY <1>9, <2>2, <2>3 DEF m, meaning
<1>10. CASE m.kind = "usart" /\ moments[n] # "lost"
  <2> DEFINE y == Codes(found)
  <2>1. y \in Seq(Report)
    BY <1>7, <1>10, CodesOfBoth
  <2>2. z = x \o y
    BY <1>7, <1>10
  <2> HIDE DEF y
  <2>3. SubSeq(z, Len(x) + 1, Len(z)) = y
    BY <1>6, <2>1, <2>2, BehindTheFirst
  <2>4. meaning = y
    BY <1>2, <1>10, <2>3
  <2> QED
    BY <1>7, <1>10, <2>1, <2>4 DEF m, y, found, meaning
<1>11. CASE m.kind = "usart" /\ moments[n] = "lost"
  <2>1. meaning = <<>>
    BY <1>2, <1>11
  <2> QED
    BY <1>7, <1>8, <1>11, <2>1 DEF m, meaning, found
<1>12. CASE m.kind \in {"request", "relay"}
  <2>1. meaning = <<>>
    BY <1>2, <1>12
  <2> QED
    BY <1>8, <1>12, <2>1 DEF m, meaning
<1>13. CASE m.kind \in {"pass", "pong"}
  <2>1. m.kind # "tag" /\ m.kind # "usart" /\ m.kind \notin {"request", "relay"}
    BY <1>13
  <2>2. meaning = <<m>>
    BY <1>2, <2>1
  <2>3. <<m>> \in Seq(Report)
    BY <1>3, <1>13
  <2> QED
    BY <2>1, <2>2, <2>3 DEF m, meaning
<1> QED
  BY <1>3, <1>9, <1>10, <1>11, <1>12, <1>13

\* The first n messages are the same, and so are the moments, but for settings
\* replaced after the last of them.
SameSoFar(x, y, v, w, n) ==
  /\ \A i \in 1 .. n : x[i] = y[i]
  /\ \A i \in 1 .. n - 1 : v[i] = w[i]
  /\ n > 0 => (v[n] = "lost" <=> w[n] = "lost")

\* They mean the same, and what is heard of a scanner is.
SameMeanings(x, y, v, w, n) ==
  /\ \A k \in 1 .. n : MeaningOf(x, k, v) = MeaningOf(y, k, w)
  /\ n = 0 \/ v[n] = w[n] => Tape(x, n, v) = Tape(y, n, w)

\* What messages mean is not changed by what comes behind them.
LEMMA MeaningSame ==
  ASSUME NEW n \in Nat, NEW x, NEW y, NEW v, NEW w, SameSoFar(x, y, v, w, n)
  PROVE  SameMeanings(x, y, v, w, n)
<1>0. /\ \A i \in 1 .. n : x[i] = y[i]
      /\ \A i \in 1 .. n - 1 : v[i] = w[i]
      /\ n > 0 => (v[n] = "lost" <=> w[n] = "lost")
  BY DEF SameSoFar
<1>1. ASSUME NEW k \in 0 .. n, \A i \in 1 .. k : v[i] = w[i]
      PROVE  Tape(x, k, v) = Tape(y, k, w)
  <2> DEFINE s == [i \in 1 .. k |-> StillHeard(x, i, k, v)]
             t == [i \in 1 .. k |-> StillHeard(y, i, k, w)]
  <2>1. ASSUME NEW i \in 1 .. k
        PROVE  StillHeard(x, i, k, v) = StillHeard(y, i, k, w)
    <3>1. x[i] = y[i] /\ \A j \in i .. k : j \in 1 .. k
      BY <1>0
    <3>2. \A j \in i .. k : v[j] = w[j]
      BY <1>1, <3>1
    <3> QED
      BY <3>1, <3>2 DEF StillHeard
  <2>2. s = t
    BY <2>1
  <2>3. Tape(x, k, v) = FlattenSeq(s) /\ Tape(y, k, w) = FlattenSeq(t)
    BY TapeIs
  <2> HIDE DEF s, t
  <2> QED
    BY <2>2, <2>3
<1>2. ASSUME NEW k \in 0 .. n - 1
      PROVE  Tape(x, k, v) = Tape(y, k, w)
  <2>1. k \in 0 .. n /\ \A i \in 1 .. k : i \in 1 .. n - 1
    OBVIOUS
  <2> QED
    BY <1>0, <1>1, <2>1
<1>3. ASSUME NEW k \in 1 .. n
      PROVE  MeaningOf(x, k, v) = MeaningOf(y, k, w)
  <2>1. k - 1 \in 0 .. n - 1 /\ (k \in 1 .. n - 1 \/ (k = n /\ n > 0))
    OBVIOUS
  <2>2. x[k] = y[k] /\ Tape(x, k - 1, v) = Tape(y, k - 1, w) /\ (v[k] = "lost" <=> w[k] = "lost")
    BY <1>0, <1>2, <2>1
  <2> QED
    BY <2>2 DEF MeaningOf
<1>4. ASSUME n = 0 \/ v[n] = w[n]
      PROVE  Tape(x, n, v) = Tape(y, n, w)
  <2>1. /\ n \in 0 .. n
        /\ \A i \in 1 .. n : i \in 1 .. n - 1 \/ (i = n /\ n > 0)
    OBVIOUS
  <2>2. \A i \in 1 .. n : v[i] = w[i]
    BY <1>0, <1>4, <2>1
  <2> QED
    BY <1>1, <2>1, <2>2
<1> QED
  BY <1>3, <1>4 DEF SameMeanings

\* The first messages mean what they mean among all.
LEMMA MeaningOfFirst ==
  ASSUME NEW type \in Types, NEW messages \in Seq(Message(type)), NEW n \in 0 .. Len(messages),
         NEW moments
  PROVE  Meaning(SubSeq(messages, 1, n), moments)
           = FlattenSeq([k \in 1 .. n |-> MeaningOf(messages, k, moments)])
<1> DEFINE first == SubSeq(messages, 1, n)
           M == Message(type)
<1>1. Len(messages) \in Nat /\ n \in Nat /\ n <= Len(messages)
  BY LenProperties
<1>2. /\ first \in Seq(M) /\ Len(first) = n /\ \A i \in 1 .. n : first[i] = messages[i]
  <2> HIDE DEF M
  <2>1. \A i \in 1 .. n : messages[i] \in M
    <3>1. \A i \in 1 .. Len(messages) : messages[i] \in M
      BY ElementOfSeq DEF M
    <3>2. \A i \in 1 .. n : i \in 1 .. Len(messages)
      BY <1>1
    <3> QED
      BY <3>1, <3>2
  <2>2. 1 \in Int /\ n \in Int
    BY <1>1
  <2>3. /\ first \in Seq(M) /\ Len(first) = IF 1 <= n THEN n - 1 + 1 ELSE 0
        /\ \A i \in 1 .. n - 1 + 1 : first[i] = messages[1 + i - 1]
    BY <2>1, <2>2, SubSeqProperties
  <2> HIDE DEF first
  <2>4. Len(first) = n /\ n - 1 + 1 = n /\ \A i \in 1 .. n : 1 + i - 1 = i
    BY <1>1, <2>3
  <2> QED
    BY <2>3, <2>4
<1>3. DOMAIN first = 1 .. n
  <2> HIDE DEF first, M
  <2> QED
    BY <1>2, LenProperties
<1>4. Meaning(first, moments) = FlattenSeq([k \in DOMAIN first |-> MeaningOf(first, k, moments)])
  BY DEF Meaning
<1> HIDE DEF first, M
<1>5. \A k \in 1 .. n : MeaningOf(first, k, moments) = MeaningOf(messages, k, moments)
  <2>1. n \in Nat /\ SameSoFar(first, messages, moments, moments, n)
    BY <1>1, <1>2 DEF SameSoFar
  <2> QED
    BY <2>1, MeaningSame DEF SameMeanings
<1>6. [k \in DOMAIN first |-> MeaningOf(first, k, moments)]
        = [k \in 1 .. n |-> MeaningOf(messages, k, moments)]
  BY <1>3, <1>5
<1> QED
  BY <1>4, <1>6 DEF first

\* One message more means that more.
LEMMA MeaningOneMore ==
  ASSUME NEW type \in Types, NEW messages \in Seq(Message(type)), NEW n \in 1 .. Len(messages),
         NEW moments
  PROVE  Meaning(SubSeq(messages, 1, n), moments)
           = Meaning(SubSeq(messages, 1, n - 1), moments) \o MeaningOf(messages, n, moments)
<1> DEFINE Part(k) == MeaningOf(messages, k, moments)
           s == [k \in 1 .. n - 1 |-> Part(k)]
           t == [k \in 1 .. n |-> Part(k)]
<1>1. Len(messages) \in Nat /\ n \in Nat /\ n - 1 \in Nat /\ n - 1 \in 0 .. Len(messages)
      /\ n \in 0 .. Len(messages)
  BY LenProperties
<1>2. \A k \in 1 .. n : Part(k) \in Seq(Report)
  <2>1. \A k \in 1 .. n : k \in 1 .. Len(messages)
    BY <1>1
  <2> QED
    BY <2>1, MeaningOfIs
<1>3. /\ Meaning(SubSeq(messages, 1, n - 1), moments) = FlattenSeq(s)
      /\ Meaning(SubSeq(messages, 1, n), moments) = FlattenSeq(t)
  BY <1>1, MeaningOfFirst
<1> HIDE DEF Part
<1>4. s \in Seq(Seq(Report)) /\ Len(s) = n - 1
  <2>1. \A k \in 1 .. n - 1 : Part(k) \in Seq(Report)
    BY <1>1, <1>2
  <2> QED
    BY <1>1, <2>1
<1>5. t \in Seq(Seq(Report)) /\ Len(t) = n
  BY <1>1, <1>2
<1>6. Len(t) = Len(s) + 1 /\ (\A i \in 1 .. Len(s) : t[i] = s[i]) /\ t[Len(t)] = Part(n)
  <2>1. \A i \in 1 .. n - 1 : i \in 1 .. n /\ t[i] = s[i]
    BY <1>1
  <2>2. t[n] = Part(n)
    BY <1>1
  <2> HIDE DEF s, t
  <2> QED
    BY <1>1, <1>4, <1>5, <2>1, <2>2
<1> HIDE DEF s, t
<1>7. FlattenSeq(t) = FlattenSeq(s) \o t[Len(t)]
  BY <1>4, <1>5, <1>6, FlattenOneMore
<1> QED
  BY <1>3, <1>6, <1>7 DEF Part

\* No messages mean nothing.
LEMMA NothingMeant ==
  ASSUME NEW type \in Types, NEW messages \in Seq(Message(type)), NEW moments
  PROVE  Meaning(SubSeq(messages, 1, 0), moments) = <<>>
<1> DEFINE none == [k \in 1 .. 0 |-> MeaningOf(messages, k, moments)]
<1>1. none = <<>>
  OBVIOUS
<1>2. 0 \in 0 .. Len(messages)
  BY LenProperties
<1>3. Meaning(SubSeq(messages, 1, 0), moments) = FlattenSeq(none)
  BY <1>2, MeaningOfFirst
<1> HIDE DEF none
<1>5. FlattenSeq(<<>>) = <<>>
  <2> DEFINE empty == <<>>
  <2>1. empty \in Seq(Seq(Byte)) /\ Len(empty) = 0
    BY EmptySeq
  <2> HIDE DEF empty
  <2>2. \A i \in 1 .. Len(empty) : empty[i] = <<>>
    BY <2>1
  <2>3. FlattenSeq(empty) = <<>>
    BY <2>1, <2>2, FlattenOfNothing
  <2> QED
    BY <2>3 DEF empty
<1> QED
  BY <1>1, <1>3, <1>5

\* What the first messages mean is a sequence of reports.
LEMMA MeaningTyped ==
  ASSUME NEW type \in Types, NEW messages \in Seq(Message(type)), NEW n \in 0 .. Len(messages),
         NEW moments
  PROVE  Meaning(SubSeq(messages, 1, n), moments) \in Seq(Report)
<1> DEFINE s == [k \in 1 .. n |-> MeaningOf(messages, k, moments)]
<1>1. Len(messages) \in Nat /\ n \in Nat
  BY LenProperties
<1>2. \A k \in 1 .. n : MeaningOf(messages, k, moments) \in Seq(Report)
  <2>1. \A k \in 1 .. n : k \in 1 .. Len(messages)
    BY <1>1
  <2> QED
    BY <2>1, MeaningOfIs
<1>3. s \in Seq(Seq(Report))
  BY <1>1, <1>2
<1>4. Meaning(SubSeq(messages, 1, n), moments) = FlattenSeq(s)
  BY MeaningOfFirst
<1> HIDE DEF s
<1> QED
  BY <1>3, <1>4, FlattenTyped

\* So do the first of them alone.
LEMMA MeaningOfFirstSame ==
  ASSUME NEW type \in Types, NEW messages \in Seq(Message(type)), NEW n \in 0 .. Len(messages),
         NEW v, NEW w, SameSoFar(messages, messages, v, w, n), NEW l \in 0 .. n
  PROVE  Meaning(SubSeq(messages, 1, l), v) = Meaning(SubSeq(messages, 1, l), w)
<1>1. Len(messages) \in Nat /\ n \in Nat /\ l \in 0 .. Len(messages) /\ \A k \in 1 .. l : k \in 1 .. n
  BY LenProperties
<1>2. SameMeanings(messages, messages, v, w, n)
  BY <1>1, MeaningSame
<1> DEFINE s == [k \in 1 .. l |-> MeaningOf(messages, k, v)]
           t == [k \in 1 .. l |-> MeaningOf(messages, k, w)]
<1>3. s = t
  BY <1>1, <1>2 DEF SameMeanings
<1>4. /\ Meaning(SubSeq(messages, 1, l), v) = FlattenSeq(s)
      /\ Meaning(SubSeq(messages, 1, l), w) = FlattenSeq(t)
  BY <1>1, MeaningOfFirst
<1> HIDE DEF s, t
<1> QED
  BY <1>3, <1>4

\* The messages among the first n at which the daemon ends, and the last that
\* is told: the first of these, if there is one.
Fatals(messages, n) == {k \in 1 .. n : Fatal(messages[k])}
LastTold(messages, n) == IF Fatals(messages, n) = {} THEN n ELSE Min(Fatals(messages, n))

\* One message more may be the first of them, or not matter.
LEMMA FatalsOneMore ==
  ASSUME NEW messages, NEW n \in Nat, n > 0
  PROVE  /\ Fatals(messages, n - 1) = {} =>
              /\ (Fatals(messages, n) = {}) = ~Fatal(messages[n])
              /\ LastTold(messages, n - 1) = n - 1 /\ LastTold(messages, n) = n
         /\ Fatals(messages, n - 1) # {} =>
              /\ Fatals(messages, n) # {}
              /\ LastTold(messages, n) = LastTold(messages, n - 1)
<1> DEFINE old == Fatals(messages, n - 1)
           new == Fatals(messages, n)
<1>1. /\ \A k : k \in old <=> k \in 1 .. n - 1 /\ Fatal(messages[k])
      /\ \A k : k \in new <=> k \in 1 .. n /\ Fatal(messages[k])
  BY DEF Fatals
<1>2. /\ LastTold(messages, n - 1) = IF old = {} THEN n - 1 ELSE Min(old)
      /\ LastTold(messages, n) = IF new = {} THEN n ELSE Min(new)
  BY DEF LastTold
<1> HIDE DEF old, new
<1>3. old \in SUBSET Nat /\ new \in SUBSET Nat /\ \A k : k \in new <=> k \in old \/ (k = n /\ Fatal(messages[n]))
  BY <1>1
<1>4. ASSUME old = {}
      PROVE  (new = {}) = ~Fatal(messages[n]) /\ LastTold(messages, n) = n
  <2>1. CASE Fatal(messages[n])
    <3>1. new \in SUBSET Nat /\ new # {} /\ \A k \in new : k = n
      BY <1>3, <1>4, <2>1
    <3>2. Min(new) = n
      BY <3>1, MinIsLeast
    <3> QED
      BY <1>2, <2>1, <3>1, <3>2
  <2>2. CASE ~Fatal(messages[n])
    <3>1. new = {}
      BY <1>3, <1>4, <2>2
    <3> QED
      BY <1>2, <2>2, <3>1
  <2> QED
    BY <2>1, <2>2
<1>5. ASSUME old # {}
      PROVE  new # {} /\ LastTold(messages, n) = LastTold(messages, n - 1)
  <2>1. new # {} /\ Min(old) \in old /\ \A k \in old : Min(old) <= k
    BY <1>3, <1>5, MinIsLeast
  <2>2. Min(new) \in new /\ \A k \in new : Min(new) <= k
    BY <1>3, <2>1, MinIsLeast
  <2>3. Min(old) \in new /\ Min(old) \in 1 .. n - 1
    BY <1>1, <1>3, <2>1
  <2>4. Min(new) <= Min(old) /\ Min(new) \in 1 .. n
    BY <1>1, <2>2, <2>3
  <2>5. Min(new) # n /\ Min(new) \in old
    BY <1>3, <2>2, <2>3, <2>4
  <2>6. Min(old) <= Min(new)
    BY <2>1, <2>5
  <2>7. Min(old) = Min(new)
    BY <2>3, <2>4, <2>6
  <2> QED
    BY <1>2, <1>5, <2>1, <2>7
<1> QED
  BY <1>2, <1>4, <1>5 DEF old, new

\* The last told is one of the first n.
LEMMA LastToldTyped ==
  ASSUME NEW messages, NEW n \in Nat
  PROVE  LastTold(messages, n) \in 0 .. n
<1>1. CASE Fatals(messages, n) = {}
  BY <1>1 DEF LastTold
<1>2. CASE Fatals(messages, n) # {}
  <2>1. Fatals(messages, n) \in SUBSET Nat /\ Fatals(messages, n) \subseteq 1 .. n
    BY DEF Fatals
  <2>2. Min(Fatals(messages, n)) \in 1 .. n
    BY <1>2, <2>1, MinIsLeast
  <2> QED
    BY <1>2, <2>2 DEF LastTold
<1> QED
  BY <1>1, <1>2

\* What has been told and kept says the first n messages, up to the one at which
\* the daemon ends.
TellsFirst(st, messages, n, moments) ==
  /\ IsState(st)
  /\ st.alive = (Fatals(messages, n) = {})
  /\ st.reported = Meaning(SubSeq(messages, 1, LastTold(messages, n)), moments)
  /\ st.alive => st.extra.usart = Left(messages, n, moments)

\* It goes on saying so whatever comes behind the n-th message.
LEMMA TellsSame ==
  ASSUME NEW type \in Types, NEW messages \in Seq(Message(type)), NEW n \in 0 .. Len(messages),
         NEW v, NEW w, SameSoFar(messages, messages, v, w, n), n = 0 \/ v[n] = w[n],
         NEW st, TellsFirst(st, messages, n, v)
  PROVE  TellsFirst(st, messages, n, w)
<1> DEFINE l == LastTold(messages, n)
<1>1. n \in Nat /\ l \in 0 .. n
  BY LenProperties, LastToldTyped
<1> HIDE DEF l
<1>2. Meaning(SubSeq(messages, 1, l), v) = Meaning(SubSeq(messages, 1, l), w)
  BY <1>1, MeaningOfFirstSame
<1>3. SameMeanings(messages, messages, v, w, n)
  BY <1>1, MeaningSame
<1>4. Left(messages, n, v) = Left(messages, n, w)
  BY <1>3 DEF SameMeanings, Left
<1> QED
  BY <1>2, <1>4 DEF TellsFirst, l

\* Settings replaced behind the last message: nothing of a scanner is left, and
\* nothing else is told.
LEMMA TellsRenewed ==
  ASSUME NEW type \in Types, NEW messages \in Seq(Message(type)), NEW n \in 0 .. Len(messages),
         NEW v, NEW w, SameSoFar(messages, messages, v, w, n),
         n > 0 => w[n] \notin {"no", "kept"},
         NEW st, TellsFirst(st, messages, n, v),
         NEW new, IsState(new), new.reported = st.reported, new.alive = st.alive,
         new.extra.usart = <<>>
  PROVE  TellsFirst(new, messages, n, w)
<1> DEFINE l == LastTold(messages, n)
<1>1. n \in Nat /\ l \in 0 .. n
  BY LenProperties, LastToldTyped
<1> HIDE DEF l
<1>2. Meaning(SubSeq(messages, 1, l), v) = Meaning(SubSeq(messages, 1, l), w)
  BY <1>1, MeaningOfFirstSame
<1>3. Left(messages, n, w) = <<>>
  <2>1. CASE n = 0
    BY <2>1, NothingOnTape
  <2>2. CASE n > 0
    <3>1. n \in 1 .. Len(messages)
      BY <1>1, <2>2
    <3> QED
      BY <2>2, <3>1, LeftOneMore
  <2> QED
    BY <1>1, <2>1, <2>2
<1> QED
  BY <1>2, <1>3 DEF TellsFirst, l

\* Only a fatal message ends the daemon.
LEMMA MeansPanic ==
  ASSUME NEW type \in Types, NEW m \in Message(type), NEW event, Means(event, m)
  PROVE  (event # Panic) = ~Fatal(m)
<1>1. m.kind \in {"tag", "usart", "pass", "pong", "request", "relay"}
  BY MessageTyped
<1>2. CASE m.kind \in {"tag", "usart"}
  <2>1. event.kind \in {"tag", "usart"}
    BY <1>2 DEF Means
  <2>2. event # Panic /\ ~Fatal(m)
    BY <1>2, <2>1 DEF Panic, Fatal
  <2> QED
    BY <2>2
<1>3. CASE m.kind \in {"pass", "pong"}
  <2>1. event = m
    BY <1>3 DEF Means
  <2>2. event # Panic /\ ~Fatal(m)
    BY <1>3, <2>1 DEF Panic, Fatal
  <2> QED
    BY <2>2
<1>4. CASE m.kind = "request"
  <2>1. event = Nothing
    BY <1>4 DEF Means
  <2>2. event # Panic /\ ~Fatal(m)
    BY <1>4, <2>1 DEF Panic, Nothing, Fatal
  <2> QED
    BY <2>2
<1>5. CASE m.kind = "relay"
  <2>1. event = IF Fatal(m) THEN Panic ELSE Nothing
    BY <1>5 DEF Means
  <2>2. Nothing # Panic
    BY DEF Nothing, Panic
  <2> QED
    BY <2>1, <2>2
<1> QED
  BY <1>1, <1>2, <1>3, <1>4, <1>5

\* An event that means the next message adds what that message means.
LEMMA TellsOneMore ==
  ASSUME NEW type \in Types, NEW messages \in Seq(Message(type)), NEW n \in 1 .. Len(messages),
         NEW event, Means(event, messages[n]), NEW moments
  PROVE  LET x == Meaning(SubSeq(messages, 1, n - 1), moments)
             usart == Left(messages, n - 1, moments)
         IN /\ ToldThen(x, usart, event, moments[n]) = Meaning(SubSeq(messages, 1, n), moments)
            /\ ScannedThen(usart, event, moments[n]) = Left(messages, n, moments)
<1> DEFINE m == messages[n]
           moment == moments[n]
           x == Meaning(SubSeq(messages, 1, n - 1), moments)
           y == MeaningOf(messages, n, moments)
           usart == Left(messages, n - 1, moments)
           now == Left(messages, n, moments)
           more == ParseBarcodes(usart \o m.bytes)
<1>1. m \in Message(type)
  BY ElementOfSeq
<1>2. /\ m.kind \in {"tag", "usart", "pass", "pong", "request", "relay"}
      /\ m.kind = "tag" => m.uid \in Byte /\ m.auth \in BOOLEAN
      /\ m.kind \in {"pass", "pong"} => m \in Report
  BY <1>1, MessageTyped
<1>3. x \in Seq(Report)
  <2>1. n - 1 \in 0 .. Len(messages)
    BY LenProperties
  <2> QED
    BY <2>1, MeaningTyped
<1>4. Meaning(SubSeq(messages, 1, n), moments) = x \o y
  BY MeaningOneMore
<1>5. /\ m.kind = "tag" => y = <<[kind |-> "tag", uid |-> m.uid, auth |-> m.auth]>>
      /\ m.kind \in {"request", "relay"} => y = <<>>
      /\ m.kind \in {"pass", "pong"} => y = <<m>>
  BY DEF MeaningOf
<1>6. m.kind = "usart" =>
        y = IF moment = "lost" THEN <<>> ELSE Codes(more.frames)
  BY MeaningOfIs
<1>7. now = IF moment \notin {"no", "kept"} THEN <<>>
            ELSE IF m.kind = "usart" THEN more.rest ELSE usart
  BY LeftOneMore
<1>8. Means(event, m)
  OBVIOUS
<1>9. x \o <<>> = x
  BY <1>3, ConcatEmptySeq
<1> HIDE DEF m, moment, x, y, usart, now
<1>10. SUFFICES /\ ToldThen(x, usart, event, moment) = x \o y
                /\ ScannedThen(usart, event, moment) = now
  BY <1>4 DEF x, usart, now, moment
<1>11. CASE m.kind = "tag"
  <2> DEFINE told == [kind |-> "tag", uid |-> m.uid, auth |-> m.auth]
             seen == [kind |-> "tag", uid |-> event.uid, auth |-> event.auth]
  <2>1. /\ event \notin {Nothing, Panic} /\ event.kind = "tag"
        /\ event.uid = m.uid /\ event.auth = m.auth
    BY <1>8, <1>11 DEF Means, Panic
  <2>2. seen = told
    BY <2>1
  <2>3. ToldThen(x, usart, event, moment) = Append(x, seen)
    BY <2>1 DEF Told, ToldThen
  <2>4. ScannedThen(usart, event, moment) = now
    BY <1>7, <1>11, <2>1 DEF Scanned, ScannedThen
  <2>5. told \in Report
    BY <1>2, <1>11 DEF Report
  <2>6. y = <<told>>
    BY <1>5, <1>11
  <2> HIDE DEF told, seen
  <2>7. Append(x, told) = x \o <<told>>
    BY <1>3, <2>5, AppendIsConcat
  <2> QED
    BY <2>2, <2>3, <2>4, <2>6, <2>7
<1>12. CASE m.kind = "usart"
  <2>1. event \notin {Nothing, Panic} /\ event.kind = "usart" /\ event.bytes = m.bytes
    BY <1>8, <1>12 DEF Means, Panic
  <2>2. Told(x, usart, event) = Tell(x, more.frames) /\ Scanned(usart, event) = more.rest
    BY <2>1 DEF Told, Scanned
  <2>3. Tell(x, more.frames) = x \o Codes(more.frames)
    BY TellIs
  <2> HIDE DEF more
  <2>4. ToldThen(x, usart, event, moment) = x \o y
    BY <1>6, <1>9, <1>12, <2>1, <2>2, <2>3 DEF ToldThen
  <2>5. ScannedThen(usart, event, moment) = now
    BY <1>7, <1>12, <2>2 DEF ScannedThen
  <2> QED
    BY <2>4, <2>5
<1>13. CASE m.kind \in {"request", "relay"}
  <2>1. event \in {Nothing, Panic}
    BY <1>8, <1>13 DEF Means
  <2>2. event.kind # "usart"
    BY <2>1 DEF Nothing, Panic
  <2>3. ToldThen(x, usart, event, moment) = x
    BY <2>1, <2>2 DEF Told, ToldThen
  <2>4. ScannedThen(usart, event, moment) = now
    BY <1>7, <1>13, <2>2 DEF Scanned, ScannedThen
  <2> QED
    BY <1>5, <1>9, <1>13, <2>3, <2>4
<1>14. CASE m.kind \in {"pass", "pong"}
  <2>1. event = m
    BY <1>8, <1>14 DEF Means
  <2>2. event \notin {Nothing, Panic} /\ event.kind # "usart" /\ event.kind # "tag"
    BY <1>14, <2>1 DEF Nothing, Panic
  <2>3. ToldThen(x, usart, event, moment) = Append(x, event)
    BY <2>2 DEF Told, ToldThen
  <2>4. ScannedThen(usart, event, moment) = now
    BY <1>7, <1>14, <2>2 DEF Scanned, ScannedThen
  <2>5. y = <<m>> /\ m \in Report
    BY <1>2, <1>5, <1>14
  <2>6. Append(x, m) = x \o <<m>>
    BY <1>3, <2>5, AppendIsConcat
  <2> QED
    BY <2>1, <2>3, <2>4, <2>5, <2>6
<1> QED
  BY <1>2, <1>11, <1>12, <1>13, <1>14

\* The packet of the next message is told; after the one at which the daemon
\* ended, none is.
LEMMA TellsNext ==
  ASSUME NEW type \in Types, NEW messages \in Seq(Message(type)), NEW n \in 1 .. Len(messages),
         NEW event, Means(event, messages[n]), NEW moments,
         NEW st, TellsFirst(st, messages, n - 1, moments),
         NEW after, PacketHandledAs(after, st, event, moments[n])
  PROVE  TellsFirst(after, messages, n, moments)
<1> DEFINE moment == moments[n]
           x == Meaning(SubSeq(messages, 1, n - 1), moments)
           usart == Left(messages, n - 1, moments)
           fatal == Fatals(messages, n - 1)
<1>1. n \in Nat /\ n > 0 /\ n - 1 \in Nat
  BY LenProperties
<1>2. /\ IsState(st) /\ st.alive = (fatal = {})
      /\ st.reported = Meaning(SubSeq(messages, 1, LastTold(messages, n - 1)), moments)
      /\ st.alive => st.extra.usart = usart
  BY DEF TellsFirst
<1>3. /\ fatal = {} => /\ (Fatals(messages, n) = {}) = ~Fatal(messages[n])
                       /\ LastTold(messages, n - 1) = n - 1 /\ LastTold(messages, n) = n
      /\ fatal # {} => /\ Fatals(messages, n) # {}
                       /\ LastTold(messages, n) = LastTold(messages, n - 1)
  BY <1>1, FatalsOneMore
<1>4. (event # Panic) = ~Fatal(messages[n])
  <2>1. messages[n] \in Message(type)
    BY ElementOfSeq
  <2> QED
    BY <2>1, MeansPanic
<1>5. /\ IsState(after)
      /\ ~st.alive => after = st
      /\ st.alive =>
           /\ after.reported = ToldThen(st.reported, st.extra.usart, event, moment)
           /\ after.extra.usart = ScannedThen(st.extra.usart, event, moment)
           /\ after.alive = (event # Panic)
  BY DEF PacketHandledAs
<1>6. /\ ToldThen(x, usart, event, moment) = Meaning(SubSeq(messages, 1, n), moments)
      /\ ScannedThen(usart, event, moment) = Left(messages, n, moments)
  BY TellsOneMore
<1> HIDE DEF fatal, usart, moment
<1>7. CASE st.alive
  <2>1. fatal = {}
    BY <1>2, <1>7
  <2>2. st.reported = x /\ st.extra.usart = usart
    BY <1>2, <1>3, <1>7, <2>1
  <2>3. /\ after.reported = Meaning(SubSeq(messages, 1, LastTold(messages, n)), moments)
        /\ after.extra.usart = Left(messages, n, moments)
    BY <1>3, <1>5, <1>6, <1>7, <2>1, <2>2
  <2>4. after.alive = (Fatals(messages, n) = {})
    BY <1>3, <1>4, <1>5, <1>7, <2>1
  <2> QED
    BY <1>5, <2>3, <2>4 DEF TellsFirst
<1>8. CASE ~st.alive
  <2>1. fatal # {} /\ after = st
    BY <1>2, <1>5, <1>8
  <2>2. /\ Fatals(messages, n) # {}
        /\ after.reported = Meaning(SubSeq(messages, 1, LastTold(messages, n)), moments)
    BY <1>2, <1>3, <2>1
  <2>3. after.alive = (Fatals(messages, n) = {})
    BY <1>2, <2>1, <2>2
  <2> QED
    BY <1>2, <1>8, <2>1, <2>2, <2>3 DEF TellsFirst
<1> QED
  BY <1>7, <1>8

\* Packets that mean the messages behind the first k, to the last, tell them.
LEMMA TellsToTheLast ==
  ASSUME NEW type \in Types, NEW messages \in Seq(Message(type)), NEW packets,
         \A n \in 1 .. Len(messages) : Means(EventOf(type, packets[n]), messages[n]),
         NEW k \in 0 .. Len(messages), NEW last \in k .. Len(messages),
         NEW moments, NEW during, \A i \in 1 .. last - k : during[i] = moments[k + i],
         NEW st, TellsFirst(st, messages, k, moments), NEW denied
  PROVE  TellsFirst(HandleFrames(st, type, Between(packets, k, last), denied, during),
                    messages, last, moments)
<1> DEFINE frames == Between(packets, k, last)
           after == HandleFrames(st, type, frames, denied, during)
           d == last - k
<1>1. /\ Len(messages) \in Nat /\ d \in Nat /\ k + d = last /\ k \in Nat
  BY LenProperties
<1>2. Len(frames) = d /\ \A i \in 1 .. d : frames[i] = packets[k + i] /\ during[i] = moments[k + i]
  BY <1>1 DEF Between
<1> HIDE DEF frames, d
<1>3. PICK f : Handled(f, st, type, frames, denied, during) /\ after = f[d]
  <2>1. HandledUp(st, type, frames, denied, during)
    BY <1>1, <1>2, HandleFramesIs
  <2> QED
    BY <1>2, <2>1 DEF HandledUp
<1> HIDE DEF after
<1> DEFINE T == {i \in Nat : i <= d => TellsFirst(f[i], messages, k + i, moments)}
<1>4. 0 \in T
  BY <1>1, <1>3, k + 0 = k DEF Handled
<1>5. ASSUME NEW i \in Nat, i \in T
      PROVE  i + 1 \in T
  <2>1. SUFFICES ASSUME i + 1 <= d
                 PROVE  TellsFirst(f[i + 1], messages, k + (i + 1), moments)
    OBVIOUS
  <2> DEFINE j == i + 1
             n == k + j
             event == EventOf(type, frames[j])
  <2>2. j \in 1 .. d /\ n \in 1 .. Len(messages) /\ n - 1 = k + i /\ j - 1 = i /\ i <= d
    BY <1>1, <2>1
  <2>3. TellsFirst(f[i], messages, n - 1, moments)
    BY <1>5, <2>2
  <2> HIDE DEF j, n
  <2>4. event = EventOf(type, packets[n]) /\ during[j] = moments[n]
    BY <1>2, <2>2 DEF n
  <2>5. Means(event, messages[n])
    BY <2>2, <2>4
  <2>6. f[j] = HandlePacket(f[i], event, denied, moments[n])
    BY <1>2, <1>3, <2>2, <2>4 DEF Handled
  <2> HIDE DEF event
  <2>7. IsState(f[i])
    BY <2>3 DEF TellsFirst
  <2>8. PacketHandledAs(f[j], f[i], event, moments[n])
    BY <2>6, <2>7, PacketHandled
  <2>9. TellsFirst(f[j], messages, n, moments)
    BY <2>2, <2>3, <2>5, <2>8, TellsNext
  <2> QED
    BY <2>9 DEF j, n
<1>6. d \in T
  <2> HIDE DEF T
  <2> QED
    BY <1>1, <1>4, <1>5, NatSetInduction
<1> QED
  BY <1>1, <1>3, <1>6 DEF after, frames

-----------------------------------------------------------------------------
(* Whose lockers are kept, and whose are handed on *)

\* There are none, or a card of that uid came with them.
CameWith(lockers, uid, messages) ==
  lockers = <<>> \/ \E n \in DOMAIN messages :
                      LET m == messages[n]
                      IN m.kind = "tag" /\ m.uid = uid /\ m.lockers = lockers

\* The lockers that are kept, and those that went on to a session.
LockersOwned(st, messages) ==
  /\ CameWith(st.extra.lockers, st.extra.uid, messages)
  /\ \A f \in st.fetched : CameWith(f.lockers, f.uid, messages)

\* handlePocketTagReadExtended and ProcessTagRead: lockers are kept with the
\* uid they came with, and taken out for that uid only.
LEMMA TagKeepsLockersOwned ==
  ASSUME NEW messages, NEW event, CameWith(LockersOf(event), event.uid, messages),
         NEW st, IsState(st), LockersOwned(st, messages), NEW denied
  PROVE  LockersOwned(HandleTag(st, event, denied), messages)
<1> DEFINE kept == KeepLockers(st.extra, event)
           fetch == FetchLockers(kept, event.uid)
           told == Append(st.reported, [kind |-> "tag", uid |-> event.uid, auth |-> event.auth])
           new == [uid |-> event.uid, lockers |-> fetch.lockers]
           after == HandleTag(st, event, denied)
           Held(ls, uid) == CameWith(ls, uid, messages)
<1>1. Held(LockersOf(event), event.uid)
  OBVIOUS
<1>2. PICK usart, lockers, uid, old, tags, alive :
        st = [extra |-> [usart |-> usart, lockers |-> lockers, uid |-> uid],
              reported |-> old, fetched |-> tags, alive |-> alive]
  BY DEF IsState
<1>3. /\ st.extra = [usart |-> usart, lockers |-> lockers, uid |-> uid] /\ st.fetched = tags
      /\ Held(lockers, uid) /\ \A f \in tags : Held(f.lockers, f.uid)
  BY <1>2 DEF LockersOwned
<1>5. \A id : Held(<<>>, id)
  BY DEF CameWith
<1> HIDE DEF Held
<1>6. PICK l, u : kept = [usart |-> usart, lockers |-> l, uid |-> u] /\ Held(l, u)
  <2>1. CASE "lockers" \in DOMAIN event /\ event.lockers # <<>>
    <3> DEFINE held == st.extra
               ls == event.lockers
               id == event.uid
    <3>1. kept = [held EXCEPT !.lockers = ls, !.uid = id]
      BY <2>1 DEF KeepLockers
    <3>2. held = [usart |-> usart, lockers |-> lockers, uid |-> uid]
      BY <1>3
    <3>3. Held(ls, id)
      BY <1>1, <2>1 DEF LockersOf
    <3> HIDE DEF kept, held, ls, id
    <3>4. kept = [usart |-> usart, lockers |-> ls, uid |-> id]
      BY <3>1, <3>2
    <3> QED
      BY <3>3, <3>4
  <2>2. CASE ~("lockers" \in DOMAIN event /\ event.lockers # <<>>)
    <3>1. kept = st.extra
      BY <2>2 DEF KeepLockers
    <3> HIDE DEF kept
    <3> QED
      BY <1>3, <3>1
  <2> QED
    BY <2>1, <2>2
<1>7. PICK ls, v, id : /\ fetch.extra = [usart |-> usart, lockers |-> ls, uid |-> v]
                       /\ Held(ls, v) /\ id = event.uid /\ Held(fetch.lockers, id)
  <2>1. CASE kept.lockers # <<>> /\ kept.uid = event.uid
    <3>1. fetch.lockers = kept.lockers /\ fetch.extra = [kept EXCEPT !.lockers = <<>>, !.uid = 0]
      BY <2>1 DEF FetchLockers
    <3> HIDE DEF kept, fetch
    <3>2. fetch.extra = [usart |-> usart, lockers |-> <<>>, uid |-> 0]
      BY <1>6, <3>1
    <3>3. Held(fetch.lockers, event.uid)
      BY <1>6, <2>1, <3>1
    <3> QED
      BY <1>5, <3>2, <3>3
  <2>2. CASE ~(kept.lockers # <<>> /\ kept.uid = event.uid)
    <3>1. fetch.lockers = <<>> /\ fetch.extra = kept
      BY <2>2 DEF FetchLockers
    <3> HIDE DEF kept, fetch
    <3> QED
      BY <1>5, <1>6, <3>1
  <2> QED
    BY <2>1, <2>2
<1>8. after = IF event.uid \in denied
              THEN [st EXCEPT !.extra = kept, !.reported = told]
              ELSE [st EXCEPT !.extra = fetch.extra, !.reported = told,
                              !.fetched = st.fetched \cup {new}]
  BY DEF HandleTag
<1>9. new.uid = event.uid /\ new.lockers = fetch.lockers
  OBVIOUS
<1> HIDE DEF kept, fetch, told, new, after
<1>10. CASE event.uid \in denied
  <2>1. after = [extra |-> kept, reported |-> told, fetched |-> tags, alive |-> alive]
    BY <1>2, <1>8, <1>10
  <2>2. after.extra.lockers = l /\ after.extra.uid = u /\ after.fetched = tags
    BY <1>6, <2>1
  <2>3. LockersOwned(after, messages)
    BY <1>3, <1>6, <2>2 DEF LockersOwned, Held
  <2> QED
    BY <2>3 DEF after
<1>11. CASE event.uid \notin denied
  <2>1. /\ after.extra = fetch.extra /\ after.fetched = tags \cup {new}
    BY <1>2, <1>3, <1>8, <1>11
  <2>2. after.extra.lockers = ls /\ after.extra.uid = v
    BY <1>7, <2>1
  <2>3. Held(new.lockers, new.uid)
    BY <1>7, <1>9
  <2>4. \A f \in tags \cup {new} : Held(f.lockers, f.uid)
    BY <1>3, <2>3
  <2>5. LockersOwned(after, messages)
    BY <1>7, <2>1, <2>2, <2>4 DEF LockersOwned, Held
  <2> QED
    BY <2>5 DEF after
<1> QED
  BY <1>10, <1>11

\* No other event touches lockers.
LEMMA EventKeepsLockersOwned ==
  ASSUME NEW messages, NEW event, event.kind = "tag" => CameWith(LockersOf(event), event.uid, messages),
         NEW st, IsState(st), LockersOwned(st, messages), NEW denied
  PROVE  LockersOwned(HandleEvent(st, event, denied), messages)
<1> DEFINE after == HandleEvent(st, event, denied)
           rest == ParseBarcodes(st.extra.usart \o event.bytes).rest
           told == Tell(st.reported, ParseBarcodes(st.extra.usart \o event.bytes).frames)
           named == Append(st.reported, event)
<1>1. PICK usart, lockers, uid, old, tags, alive :
        st = [extra |-> [usart |-> usart, lockers |-> lockers, uid |-> uid],
              reported |-> old, fetched |-> tags, alive |-> alive]
  BY DEF IsState
<1>2. CASE event.kind = "tag"
  <2>1. event # Nothing /\ event # Panic
    BY <1>2 DEF Nothing, Panic
  <2>2. after = HandleTag(st, event, denied)
    BY <1>2, <2>1 DEF HandleEvent
  <2> QED
    BY <1>2, <2>2, TagKeepsLockersOwned
<1>3. CASE event.kind # "tag"
  <2>1. \/ after = st
        \/ after = [st EXCEPT !.alive = FALSE]
        \/ after = [st EXCEPT !.extra.usart = rest, !.reported = told]
        \/ after = [st EXCEPT !.reported = named]
    BY <1>3 DEF HandleEvent, HandleSignal
  <2> HIDE DEF after, rest, told, named
  <2>2. /\ after.extra.lockers = st.extra.lockers /\ after.extra.uid = st.extra.uid
        /\ after.fetched = st.fetched
    <3>1. CASE after = st
      BY <3>1
    <3>2. CASE after = [st EXCEPT !.alive = FALSE]
      BY <1>1, <3>2
    <3>3. CASE after = [st EXCEPT !.extra.usart = rest, !.reported = told]
      BY <1>1, <3>3
    <3>4. CASE after = [st EXCEPT !.reported = named]
      BY <1>1, <3>4
    <3> QED
      BY <2>1, <3>1, <3>2, <3>3, <3>4
  <2>3. LockersOwned(after, messages)
    BY <2>2 DEF LockersOwned
  <2> QED
    BY <2>3 DEF after
<1> QED
  BY <1>2, <1>3

\* New settings have no lockers.
LEMMA RenewedKeepsLockersOwned ==
  ASSUME NEW messages, NEW st, IsState(st), LockersOwned(st, messages), NEW usart
  PROVE  /\ LockersOwned(Renew(st), messages)
         /\ LockersOwned(RenewedWith(st, usart), messages)
<1> DEFINE new == Renew(st)
           with == RenewedWith(st, usart)
<1>1. new.extra = NoExtra /\ new.fetched = st.fetched
  BY RenewedIs
<1>2. with.extra.lockers = <<>> /\ with.fetched = st.fetched
  BY RenewedIs, ZenonT(30)
<1> HIDE DEF new, with
<1>3. new.extra.lockers = <<>>
  BY <1>1 DEF NoExtra
<1>4. \A f \in st.fetched : CameWith(f.lockers, f.uid, messages)
  BY DEF LockersOwned
<1>5. \A uid : CameWith(<<>>, uid, messages)
  BY DEF CameWith
<1>6. LockersOwned(new, messages) /\ LockersOwned(with, messages)
  BY <1>1, <1>2, <1>3, <1>4, <1>5 DEF LockersOwned
<1> QED
  BY <1>6 DEF new, with

\* Nor does a packet, whenever the settings are replaced.
LEMMA PacketKeepsLockersOwned ==
  ASSUME NEW type \in Types, NEW messages \in Seq(Message(type)), NEW n \in 1 .. Len(messages),
         NEW event, Means(event, messages[n]), NEW moment,
         NEW st, IsState(st), LockersOwned(st, messages), NEW denied
  PROVE  LockersOwned(HandlePacket(st, event, denied, moment), messages)
<1> DEFINE m == messages[n]
           after == HandlePacket(st, event, denied, moment)
           whole == HandleEvent(st, event, denied)
           losing == HandleLosing(st, event, denied)
           bare == [kind |-> "tag", uid |-> event.uid, auth |-> event.auth]
           Owned(x) == IsState(x) /\ LockersOwned(x, messages)
<1>1. n \in DOMAIN messages /\ m \in Message(type)
  BY LenProperties, ElementOfSeq
<1>2. event.kind = "tag" => CameWith(LockersOf(event), event.uid, messages)
  <2>1. SUFFICES ASSUME event.kind = "tag"
                 PROVE  CameWith(LockersOf(event), event.uid, messages)
    OBVIOUS
  <2>2. m.kind \in {"tag", "usart", "pass", "pong", "request", "relay"}
    BY <1>1, MessageTyped
  <2>3. Means(event, m)
    OBVIOUS
  <2> HIDE DEF m
  <2>4. m.kind = "tag"
    <3>1. m.kind # "usart"
      BY <2>1, <2>3 DEF Means
    <3>2. m.kind \notin {"pass", "pong"}
      BY <2>1, <2>3 DEF Means
    <3>3. m.kind # "request" /\ m.kind # "relay"
      BY <2>1, <2>3 DEF Means, Nothing, Panic
    <3> QED
      BY <2>2, <3>1, <3>2, <3>3
  <2>5. LockersOf(event) = m.lockers /\ event.uid = m.uid
    BY <2>3, <2>4 DEF Means
  <2> USE DEF m
  <2> QED
    BY <1>1, <2>4, <2>5 DEF CameWith
<1>3. Owned(st) /\ Owned(Renew(st))
  BY RenewedIs, RenewedKeepsLockersOwned
<1>4. Owned(whole)
  <2>1. LockersOwned(whole, messages)
    BY <1>2, EventKeepsLockersOwned
  <2>2. HandledAs(whole, st, event)
    BY EventHandled
  <2> QED
    BY <2>1, <2>2 DEF HandledAs
<1>5. Owned(losing)
  <2>1. IsState(losing)
    BY LosingHandled
  <2>2. CASE event.kind = "usart"
    <3>1. losing = st
      BY <2>2 DEF HandleLosing
    <3> QED
      BY <1>3, <3>1
  <2>3. CASE event.kind = "tag"
    <3> DEFINE new == Renew(st)
    <3>1. losing = HandleTag(new, bare, denied)
      BY <2>3 DEF HandleLosing
    <3>2. IsState(new) /\ LockersOwned(new, messages)
      BY <1>3
    <3> HIDE DEF new
    <3>3. LockersOf(bare) = <<>>
      BY DEF LockersOf
    <3> HIDE DEF bare
    <3>4. CameWith(LockersOf(bare), bare.uid, messages)
      BY <3>3 DEF CameWith
    <3>5. LockersOwned(HandleTag(new, bare, denied), messages)
      BY <3>2, <3>4, TagKeepsLockersOwned
    <3> QED
      BY <2>1, <3>1, <3>5
  <2>4. CASE event.kind # "usart" /\ event.kind # "tag"
    <3>1. losing = whole
      BY <2>4 DEF HandleLosing
    <3> QED
      BY <1>4, <3>1
  <2> QED
    BY <2>2, <2>3, <2>4
<1>6. \/ after = st \/ after = whole \/ after = Renew(whole) \/ after = Renew(losing)
      \/ after = RenewedWith(whole, whole.extra.usart)
  BY DEF HandlePacket, RenewedWith
<1> HIDE DEF after, whole, losing, m
<1>7. LockersOwned(after, messages)
  BY <1>3, <1>4, <1>5, <1>6, RenewedKeepsLockersOwned
<1> QED
  BY <1>7 DEF after

\* Nor do the packets of a read hand lockers to another card.
LEMMA LockersOwnedToTheLast ==
  ASSUME NEW type \in Types, NEW messages \in Seq(Message(type)), NEW packets,
         \A n \in 1 .. Len(messages) : Means(EventOf(type, packets[n]), messages[n]),
         NEW k \in 0 .. Len(messages), NEW last \in k .. Len(messages), NEW during,
         NEW st, IsState(st), LockersOwned(st, messages), NEW denied
  PROVE  LockersOwned(HandleFrames(st, type, Between(packets, k, last), denied, during),
                      messages)
<1> DEFINE frames == Between(packets, k, last)
           after == HandleFrames(st, type, frames, denied, during)
           d == last - k
<1>1. /\ Len(messages) \in Nat /\ d \in Nat /\ k + d = last /\ k \in Nat
  BY LenProperties
<1>2. Len(frames) = d /\ \A i \in 1 .. d : frames[i] = packets[k + i]
  BY <1>1 DEF Between
<1> HIDE DEF frames, d
<1>3. PICK f : Handled(f, st, type, frames, denied, during) /\ after = f[d]
  <2>1. HandledUp(st, type, frames, denied, during)
    BY <1>1, <1>2, HandleFramesIs
  <2> QED
    BY <1>2, <2>1 DEF HandledUp
<1> HIDE DEF after
<1> DEFINE T == {i \in Nat : i <= d => IsState(f[i]) /\ LockersOwned(f[i], messages)}
<1>4. 0 \in T
  BY <1>1, <1>3 DEF Handled
<1>5. ASSUME NEW i \in Nat, i \in T
      PROVE  i + 1 \in T
  <2>1. SUFFICES ASSUME i + 1 <= d
                 PROVE  IsState(f[i + 1]) /\ LockersOwned(f[i + 1], messages)
    OBVIOUS
  <2> DEFINE j == i + 1
             n == k + j
             event == EventOf(type, frames[j])
  <2>2. j \in 1 .. d /\ n \in 1 .. Len(messages) /\ j - 1 = i /\ i <= d
    BY <1>1, <2>1
  <2>3. IsState(f[i]) /\ LockersOwned(f[i], messages)
    BY <1>5, <2>2
  <2> HIDE DEF j, n
  <2>4. event = EventOf(type, packets[n])
    BY <1>2, <2>2 DEF n
  <2>5. Means(event, messages[n])
    BY <2>2, <2>4
  <2> DEFINE moment == during[j]
  <2>6. f[j] = HandlePacket(f[i], event, denied, moment)
    BY <1>2, <1>3, <2>2 DEF Handled
  <2> HIDE DEF event, moment
  <2>7. PacketHandledAs(f[j], f[i], event, moment)
    BY <2>3, <2>6, PacketHandled
  <2>8. LockersOwned(f[j], messages)
    BY <2>2, <2>3, <2>5, <2>6, PacketKeepsLockersOwned
  <2> QED
    BY <2>7, <2>8 DEF j, PacketHandledAs
<1>6. d \in T
  <2> HIDE DEF T
  <2> QED
    BY <1>1, <1>4, <1>5, NatSetInduction
<1> QED
  BY <1>1, <1>3, <1>6 DEF after, frames

-----------------------------------------------------------------------------
(* The handlers are called for what has arrived whole, and for nothing else *)

\* The settings were attached in time, to a terminal that is understood.
Exact ==
  /\ attached = "first" /\ conversation.by = "list"
  /\ conversation.type # "gat" /\ conversation.seal = "decoder"

Wires == WireOf[conversation]
Arrived == Cardinality(Among(Wires, received))

\* The invariant that ReportsWhatArrived needs: what is kept in the buffer is
\* what stands behind the last whole message, and what is kept of a barcode is
\* what the Signals before have left of it, since the settings were last
\* replaced.  With it goes whose lockers are kept.
ReportsInv ==
  /\ conversation \in Conversations
  /\ received \in 0 .. Len(Stream)
  /\ attached \in {"never", "first", "late"}
  /\ received = 0 => buffer = <<>> /\ reported = <<>> /\ fetched = {} /\ replaced = <<>>
  /\ Exact =>
       /\ settings = conversation.type
       /\ replaced \in Seq(Moments) /\ Len(replaced) = Arrived
       /\ TellsFirst(Now, conversation.messages, Arrived, replaced)
       /\ buffer = SubSeq(Stream, End(Wires, Arrived) + 1, received)
       /\ LockersOwned(Now, conversation.messages)

\* A conversation on the wire, message by message.
LEMMA ConversationOnTheWire ==
  ASSUME NEW c \in Conversations, c.by = "list", c.type # "gat", c.seal = "decoder"
  PROVE  /\ c.type \in Understood /\ c.type \in Types /\ c.type # NoType
         /\ c.messages \in Seq(Message(c.type))
         /\ OnTheWire(WireOf[c]) /\ Len(WireOf[c]) = Len(c.messages)
         /\ StreamOf[c] = FlattenSeq(WireOf[c])
         /\ \A n \in 1 .. Len(c.messages) :
              WireOf[c][n] = Wire(c, c.messages[n]) /\ c.messages[n] \in Message(c.type)
<1> DEFINE messages == c.messages
           L == Len(messages)
           wires == [n \in DOMAIN messages |-> Wire(c, messages[n])]
<1>1. c.type \in Types /\ messages \in Seq(Message(c.type))
  BY TerminalsAreTyped
<1>2. c.type \in Understood /\ c.type # NoType
  BY <1>1 DEF Types, Understood, NoType
<1>3. WireOf[c] = wires /\ StreamOf[c] = FlattenSeq(WireOf[c])
  BY DEF WireOf, StreamOf
<1> HIDE DEF messages
<1>4. L \in Nat /\ DOMAIN messages = 1 .. L /\ \A n \in 1 .. L : messages[n] \in Message(c.type)
  BY <1>1, LenProperties, ElementOfSeq
<1>5. \A n \in 1 .. L : Wire(c, messages[n]) \in Seq(Byte) /\ Wire(c, messages[n]) # <<>>
  BY <1>2, <1>4, MessageIsCut
<1> HIDE DEF L
<1>6. wires = [n \in 1 .. L |-> Wire(c, messages[n])]
  BY <1>4
<1>7. /\ wires \in Seq(Seq(Byte)) /\ Len(wires) = L
      /\ \A n \in 1 .. L : wires[n] = Wire(c, messages[n])
  <2>1. \A n \in 1 .. L : Wire(c, messages[n]) \in Seq(Byte)
    BY <1>5
  <2>2. L \in Nat
    BY <1>4
  <2> HIDE DEF wires
  <2> QED
    BY <1>6, <2>1, <2>2
<1> HIDE DEF wires
<1>8. OnTheWire(wires)
  BY <1>5, <1>7 DEF OnTheWire
<1> QED
  BY <1>1, <1>2, <1>3, <1>4, <1>7, <1>8 DEF messages, L

\* What ReportsWhatArrived calls whole are the messages among the bytes received.
LEMMA WholeAreAmong ==
  ASSUME conversation \in Conversations, Exact
  PROVE  Cardinality(Whole) = Arrived
<1> DEFINE c == conversation
           messages == c.messages
           L == Len(messages)
           wires == WireOf[c]
<1>1. messages \in Seq(Message(c.type)) /\ Len(wires) = L
  BY ConversationOnTheWire DEF Exact
<1>2. Whole = {n \in DOMAIN messages : Len(FlattenSeq(SubSeq(wires, 1, n))) <= received}
  BY DEF Whole
<1>3. Among(Wires, received) = {n \in 1 .. Len(wires) : Len(FlattenSeq(SubSeq(wires, 1, n))) <= received}
  BY DEF Among, End, Wires
<1> HIDE DEF messages, wires
<1>4. DOMAIN messages = 1 .. L
  BY <1>1, LenProperties
<1>5. Whole = Among(Wires, received)
  BY <1>1, <1>2, <1>3, <1>4
<1> QED
  BY <1>5 DEF Arrived

\* It says what ReportsWhatArrived says.
LEMMA ReportsInvImplies == ReportsInv => ReportsWhatArrived
<1> SUFFICES ASSUME ReportsInv
             PROVE  ReportsWhatArrived
  OBVIOUS
<1> DEFINE messages == conversation.messages
           whole == Cardinality(Whole)
<1>1. ASSUME Exact
      PROVE  /\ Len(replaced) = whole
             /\ reported = Meaning(SubSeq(messages, 1, LastTold(messages, whole)), replaced)
             /\ reader = "panicked" <=> Fatals(messages, whole) # {}
  <2>1. /\ conversation \in Conversations /\ Len(replaced) = Arrived
        /\ TellsFirst(Now, messages, Arrived, replaced)
    BY <1>1 DEF ReportsInv
  <2>2. whole = Arrived
    BY <1>1, <2>1, WholeAreAmong
  <2>3. /\ Now.reported = Meaning(SubSeq(messages, 1, LastTold(messages, Arrived)), replaced)
        /\ Now.alive = (Fatals(messages, Arrived) = {})
    BY <2>1 DEF TellsFirst
  <2>4. Now.reported = reported /\ Now.alive = (reader # "panicked")
    BY DEF Now
  <2> HIDE DEF messages, whole
  <2> QED
    BY <2>1, <2>2, <2>3, <2>4
<1> QED
  BY <1>1 DEF ReportsWhatArrived, Exact, Fatals, LastTold

\* Before a byte is read no message has arrived.
LEMMA NothingArrived ==
  ASSUME NEW wires, OnTheWire(wires)
  PROVE  Cardinality(Among(wires, 0)) = 0
<1> DEFINE k == Cardinality(Among(wires, 0))
<1>1. k \in 0 .. Len(wires) /\ End(wires, k) <= 0
  BY FirstAreWhole, 0 \in Nat
<1>2. Len(wires) \in Nat
  BY LenProperties DEF OnTheWire
<1> HIDE DEF k
<1>3. SUFFICES ASSUME k # 0
               PROVE  FALSE
  BY DEF k
<1>4. k \in 1 .. Len(wires) /\ k - 1 \in 0 .. Len(wires)
  BY <1>1, <1>2, <1>3
<1>5. /\ End(wires, k - 1) \in Nat /\ Len(wires[k]) \in Nat \ {0}
      /\ End(wires, k) = End(wires, k - 1) + Len(wires[k])
  BY <1>4, MessageStands
<1> QED
  BY <1>1, <1>5

\* The list comes in time only before the first byte; when it comes again, it
\* leaves of a barcode what messages leave behind which settings are replaced.
LEMMA ReportsInvAttach == ReportsInv /\ Attach => ReportsInv'
<1> SUFFICES ASSUME ReportsInv, Attach
             PROVE  ReportsInv'
  OBVIOUS
<1>1. /\ conversation' = conversation /\ received' = received /\ buffer' = buffer
      /\ reported' = reported /\ fetched' = fetched /\ reader' = reader
      /\ reader # "panicked" /\ attached' = AttachedFirst
  BY DEF Attach
<1>2. Stream' = Stream /\ Wires' = Wires /\ Arrived' = Arrived
  BY <1>1 DEF Stream, Wires, Arrived
<1>3. attached' \in {"never", "first", "late"}
  BY <1>1 DEF ReportsInv, AttachedFirst
<1>4. received = 0 => replaced' = <<>>
  BY DEF ReportsInv, Attach, ReplacedNow
<1>5. ASSUME Exact'
      PROVE  /\ settings' = conversation'.type
             /\ replaced' \in Seq(Moments) /\ Len(replaced') = Arrived'
             /\ TellsFirst(Now', conversation'.messages, Arrived', replaced')
             /\ buffer' = SubSeq(Stream', End(Wires', Arrived') + 1, received')
             /\ LockersOwned(Now', conversation'.messages)
  <2> DEFINE messages == conversation.messages
             type == conversation.type
             n == Arrived
  <2>1. /\ conversation \in Conversations /\ conversation.by = "list"
        /\ conversation.type # "gat" /\ conversation.seal = "decoder"
        /\ attached = "first" \/ received = 0
    BY <1>1, <1>5 DEF Exact, ReportsInv, AttachedFirst
  <2>2. /\ OnTheWire(Wires) /\ type \in Types /\ messages \in Seq(Message(type))
        /\ Len(Wires) = Len(messages)
    BY <2>1, ConversationOnTheWire DEF Wires
  <2>3. settings' = type /\ extra' = NoExtra /\ replaced' = ReplacedNow
    BY <2>1 DEF Attach
  <2>4. Now' = [extra |-> NoExtra, reported |-> reported, fetched |-> fetched, alive |-> TRUE]
    BY <1>1, <2>3 DEF Now
  <2>5. /\ IsState(Now') /\ Now'.reported = reported /\ Now'.extra.usart = <<>>
        /\ Now'.extra.lockers = <<>> /\ Now'.fetched = fetched /\ Now'.alive = TRUE
    BY <2>4 DEF IsState, NoExtra
  <2>6. CASE received = 0
    <3>1. buffer' = <<>> /\ reported = <<>> /\ fetched = {} /\ replaced' = <<>>
      BY <1>1, <1>4, <2>6 DEF ReportsInv
    <3>2. n = 0
      BY <2>2, <2>6, NothingArrived DEF Arrived
    <3>3. End(Wires, 0) = 0 /\ SubSeq(Stream, 0 + 1, 0) = <<>>
      BY <2>2, MessageStands, SubSeqEmpty
    <3>4. /\ Meaning(SubSeq(messages, 1, 0), replaced') = <<>>
          /\ Left(messages, 0, replaced') = <<>>
      BY <2>2, NothingMeant, NothingOnTape
    <3>5. Fatals(messages, 0) = {} /\ LastTold(messages, 0) = 0
      BY DEF Fatals, LastTold
    <3>6. TellsFirst(Now', messages, 0, replaced')
      BY <2>5, <3>1, <3>4, <3>5 DEF TellsFirst
    <3>7. LockersOwned(Now', messages)
      BY <2>5, <3>1 DEF LockersOwned, CameWith
    <3>8. replaced' \in Seq(Moments) /\ Len(replaced') = 0
      BY <3>1, EmptySeq
    <3>9. buffer' = SubSeq(Stream, End(Wires, n) + 1, received)
      BY <2>6, <3>1, <3>2, <3>3
    <3> QED
      BY <1>1, <1>2, <2>3, <3>2, <3>6, <3>7, <3>8, <3>9
  <2>7. CASE attached = "first"
    <3>1. Exact
      BY <2>1, <2>7 DEF Exact
    <3>2. /\ replaced \in Seq(Moments) /\ Len(replaced) = n
          /\ TellsFirst(Now, messages, n, replaced)
          /\ buffer = SubSeq(Stream, End(Wires, n) + 1, received)
          /\ LockersOwned(Now, messages)
      BY <3>1 DEF ReportsInv
    <3>3. n \in 0 .. Len(messages)
      <4>1. received \in Nat
        BY <2>1, TerminalsSendBytes, LenProperties DEF ReportsInv, Stream
      <4> QED
        BY <2>2, <4>1, FirstAreWhole DEF Arrived
    <3>4. /\ ReplacedNow \in Seq(Moments) /\ Len(ReplacedNow) = n
          /\ \A i \in 1 .. n - 1 : ReplacedNow[i] = replaced[i]
          /\ n > 0 => ReplacedNow[n] = IF replaced[n] = "lost" THEN "lost" ELSE "after"
      BY <3>2, ReplacedNowIs
    <3> HIDE DEF n, messages
    <3>5. SameSoFar(messages, messages, replaced, ReplacedNow, n)
      BY <3>4 DEF SameSoFar
    <3>6. n > 0 => ReplacedNow[n] \notin {"no", "kept"}
      BY <3>4
    <3>7. Now'.reported = Now.reported /\ Now'.alive = Now.alive
      BY <1>1, <2>5 DEF Now
    <3>8. TellsFirst(Now', messages, n, ReplacedNow)
      BY <2>2, <2>5, <3>2, <3>3, <3>5, <3>6, <3>7, TellsRenewed DEF messages
    <3>9. LockersOwned(Now', messages)
      <4>1. Now.fetched = fetched
        BY DEF Now
      <4> QED
        BY <2>5, <3>2, <4>1 DEF LockersOwned, CameWith
    <3> QED
      BY <1>1, <1>2, <2>3, <3>2, <3>4, <3>8, <3>9 DEF n, messages
  <2> QED
    BY <2>1, <2>6, <2>7
<1> QED
  BY <1>1, <1>2, <1>3, <1>4, <1>5 DEF ReportsInv

\* A read takes up the bytes behind the last whole message, and tells those
\* that have become whole.
LEMMA ReportsInvRead ==
  ASSUME ReportsInv, NEW n \in ReadSizes, NEW denied \in Denials, Read(n, denied)
  PROVE  ReportsInv'
<1> DEFINE r == received + n
<1>1. /\ conversation' = conversation /\ received' = r /\ attached' \in {attached, "late"}
      /\ r <= Len(Stream) /\ Stream' = Stream /\ Wires' = Wires
  BY DEF Read, Stream, Wires
<1>2. /\ n \in Nat \ {0} /\ received \in Nat /\ r \in Nat /\ received <= r /\ r # 0
      /\ Stream \in Seq(Byte) /\ Len(Stream) \in Nat
  <2>1. n \in Nat \ {0}
    BY ReadsFillTheBuffer
  <2>2. Stream \in Seq(Byte)
    BY TerminalsSendBytes DEF ReportsInv, Stream
  <2>3. Len(Stream) \in Nat
    BY <2>2, LenProperties
  <2> QED
    BY <2>1, <2>2, <2>3 DEF ReportsInv
<1> HIDE DEF r
<1>3. ASSUME Exact'
      PROVE  /\ settings' = conversation'.type
             /\ replaced' \in Seq(Moments) /\ Len(replaced') = Arrived'
             /\ TellsFirst(Now', conversation'.messages, Arrived', replaced')
             /\ buffer' = SubSeq(Stream', End(Wires', Arrived') + 1, received')
             /\ LockersOwned(Now', conversation'.messages)
  <2> DEFINE c == conversation
             type == c.type
             messages == c.messages
             wires == Wires
             k == Arrived
             last == Cardinality(Among(wires, r))
             a == End(wires, k)
             buf == buffer \o SubSeq(Stream, received + 1, received + n)
             round == RoundOf(type, buf)
             packets == [i \in 1 .. Len(wires) |-> PacketIn(type, wires[i])]
             frames == CutUp(buf, round).frames
  <2>1. /\ Exact /\ c \in Conversations /\ c.by = "list" /\ c.type # "gat" /\ c.seal = "decoder"
    BY <1>1, <1>3 DEF Exact, ReportsInv
  <2>2. /\ type \in Understood /\ type \in Types /\ type # NoType
        /\ messages \in Seq(Message(type))
        /\ OnTheWire(wires) /\ Len(wires) = Len(messages) /\ Stream = FlattenSeq(wires)
        /\ \A i \in 1 .. Len(messages) :
             wires[i] = Wire(c, messages[i]) /\ messages[i] \in Message(type)
    BY <2>1, ConversationOnTheWire DEF Wires, Stream
  <2>3. /\ settings = type /\ TellsFirst(Now, messages, k, replaced)
        /\ LockersOwned(Now, messages)
        /\ replaced \in Seq(Moments) /\ Len(replaced) = k
        /\ buffer = SubSeq(Stream, a + 1, received)
    BY <2>1 DEF ReportsInv
  <2>4. k \in 0 .. Len(wires) /\ a <= received /\ a \in Nat
    <3>1. k \in 0 .. Len(wires) /\ End(wires, k) <= received
      BY <1>2, <2>2, FirstAreWhole DEF Arrived
    <3>2. \A i \in 0 .. Len(wires) : End(wires, i) \in Nat
      BY <2>2, MessageStands
    <3> QED
      BY <3>1, <3>2
  <2>5. Detect(buf) = type
    BY <2>2, <2>3 DEF Detect
  <2>6. PICK during \in MomentsAmong(type, frames) :
          LET after == HandleFrames(Now, type, frames, denied, during)
          IN /\ settings' = type /\ buffer' = CutUp(buf, round).rest
             /\ extra' = after.extra /\ reported' = after.reported
             /\ fetched' = after.fetched /\ replaced' = replaced \o during
             /\ reader' = IF after.alive THEN CutUp(buf, round).reader ELSE "panicked"
    <3>1. Detect(buf) # NoType =>
            LET cut == CutUp(buf, RoundOf(Detect(buf), buf))
            IN /\ buffer' = cut.rest
               /\ \E during \in MomentsAmong(Detect(buf), cut.frames) :
                    LET done == HandleFrames(Now, Detect(buf), cut.frames, denied, during)
                    IN /\ settings' \in {conversation.type, Detect(buf)}
                       /\ reader' = IF done.alive THEN cut.reader ELSE "panicked"
                       /\ extra' = done.extra /\ reported' = done.reported
                       /\ fetched' = done.fetched /\ replaced' = replaced \o during
      BY DEF Read, Frames
    <3> HIDE DEF buf
    <3> QED
      BY <2>2, <2>5, <3>1
  <2> DEFINE after == HandleFrames(Now, type, frames, denied, during)
             cutReader == CutUp(buf, round).reader
  <2>7. buf \in Seq(Byte) /\ buf = SubSeq(Stream, a + 1, r)
    <3> HIDE DEF a, buf
    <3>1. SubSeq(Stream, a + 1, received) \o SubSeq(Stream, received + 1, r) = SubSeq(Stream, a + 1, r)
      <4> DEFINE p == a + 1
      <4>1. /\ p \in 1 .. Len(Stream) + 1 /\ received \in p - 1 .. Len(Stream)
            /\ r \in received .. Len(Stream)
        BY <1>1, <1>2, <2>4
      <4> HIDE DEF p
      <4>2. SubSeq(Stream, p, received) \o SubSeq(Stream, received + 1, r) = SubSeq(Stream, p, r)
        BY <1>2, <4>1, ConcatAdjacentSubSeq
      <4> QED
        BY <4>2 DEF p
    <3>2. buf = SubSeq(Stream, a + 1, r)
      BY <2>3, <3>1 DEF buf, r
    <3>3. SubSeq(Stream, a + 1, r) \in Seq(Byte)
      <4>1. a <= a /\ a <= r /\ r <= Len(Stream)
        BY <1>1, <1>2, <2>4
      <4> QED
        BY <1>2, <2>4, <4>1, PieceOfPiece
    <3> QED
      BY <3>2, <3>3
  <2> HIDE DEF buf
  <2>8. \A i \in 1 .. Len(wires) :
          /\ packets[i] \in FrameOf(type) /\ Means(EventOf(type, packets[i]), messages[i])
          /\ \A at : Begins(wires[i], buf, at) => Cuts(round, wires[i], buf, at, packets[i])
    <3> SUFFICES ASSUME NEW i \in 1 .. Len(wires)
                 PROVE  /\ packets[i] \in FrameOf(type)
                        /\ Means(EventOf(type, packets[i]), messages[i])
                        /\ \A at : Begins(wires[i], buf, at) =>
                                     Cuts(round, wires[i], buf, at, packets[i])
      OBVIOUS
    <3> DEFINE m == messages[i]
               w == Wire(c, m)
    <3>1. m \in Message(c.type) /\ wires[i] = w
      BY <2>2
    <3>2. packets[i] = PacketIn(c.type, w)
      BY <3>1
    <3> HIDE DEF packets, wires, messages, m
    <3>3. /\ PacketIn(c.type, w) \in FrameOf(c.type)
          /\ Means(EventOf(c.type, PacketIn(c.type, w)), m)
          /\ \A at : Begins(w, buf, at) =>
                       Cuts(RoundOf(c.type, buf), w, buf, at, PacketIn(c.type, w))
      BY <2>1, <2>2, <3>1, MessageIsCut
    <3> QED
      BY <3>1, <3>2, <3>3 DEF m
  <2>9. /\ IsRound(round, Len(buf), FrameOf(type))
        /\ round[Len(buf) + 1].then # "again" /\ round[Len(buf) + 1].next = Len(buf) + 1
    BY <2>2, <2>7, LoopsEnd
  <2> HIDE DEF packets, round, type, messages, wires, k
  <2>10. ReadsMessages(round, buf, wires, packets)
    BY <2>8, <2>9 DEF ReadsMessages
  <2>11. /\ last \in k .. Len(wires) /\ frames = Between(packets, k, last)
         /\ CutUp(buf, round).rest = SubSeq(Stream, End(wires, last) + 1, r)
         /\ frames \in Seq(FrameOf(type)) /\ cutReader \in {"reading", "spinning"}
    <3> DEFINE S == FrameOf(type)
    <3>1. /\ End(wires, k) <= r /\ r <= Len(FlattenSeq(wires))
          /\ buf = SubSeq(FlattenSeq(wires), End(wires, k) + 1, r)
      BY <1>1, <1>2, <2>2, <2>4, <2>7
    <3>2. \A i \in 1 .. Len(wires) : packets[i] \in S
      BY <2>8
    <3>3. OnTheWire(wires) /\ k \in 0 .. Len(wires) /\ r \in Nat
      BY <1>2, <2>2, <2>4
    <3>4. IsRound(round, Len(buf), S)
      BY <2>9
    <3>5. Stream = FlattenSeq(wires)
      BY <2>2
    <3> HIDE DEF S, buf
    <3>6. CutsTheWhole(buf, round, wires, packets, k, r)
      BY <2>10, <3>1, <3>2, <3>3, <3>4, MessagesAreCut
    <3>7. frames \in Seq(S) /\ cutReader \in {"reading", "spinning"}
      BY <2>7, <3>4, CutUpIs
    <3> QED
      BY <3>5, <3>6, <3>7 DEF CutsTheWhole, S
  <2> HIDE DEF last, frames, cutReader
  <2> DEFINE moments == replaced'
  <2>12. /\ during \in Seq(Moments) /\ Len(during) = last - k
         /\ moments \in Seq(Moments) /\ Len(moments) = last
         /\ \A i \in 1 .. k : moments[i] = replaced[i]
         /\ \A i \in 1 .. last - k : during[i] = moments[k + i]
    <3>1. during \in Seq(Moments) /\ Len(during) = Len(frames)
      BY <2>6, <2>11, MomentsAreSeq
    <3>2. k \in Nat /\ last \in Nat /\ last >= k /\ last - k \in Nat
      BY <2>2, <2>4, <2>11, LenProperties DEF OnTheWire
    <3>3. Len(frames) = last - k
      BY <2>11, <3>2 DEF Between
    <3>4. /\ moments \in Seq(Moments) /\ Len(moments) = k + (last - k)
          /\ \A i \in 1 .. k : moments[i] = replaced[i]
          /\ \A i \in k + 1 .. k + (last - k) : moments[i] = during[i - k]
      <4> DEFINE d == last - k
                 whole == replaced \o during
      <4>1. moments = whole
        BY <2>6 DEF moments
      <4>2. d \in Nat /\ Len(during) = d
        BY <3>1, <3>2, <3>3
      <4> HIDE DEF d
      <4>3. /\ whole \in Seq(Moments) /\ Len(whole) = k + d
            /\ \A i \in 1 .. k + d : whole[i] = IF i <= k THEN replaced[i] ELSE during[i - k]
        <5>1. replaced \in Seq(Moments) /\ during \in Seq(Moments)
          BY <2>3, <3>1
        <5>2. Len(replaced) = k /\ Len(during) = d
          BY <2>3, <4>2
        <5> QED
          BY <5>1, <5>2, ConcatProperties
      <4> HIDE DEF whole
      <4>4. /\ \A i \in 1 .. k : i \in 1 .. k + d /\ i <= k
            /\ \A i \in k + 1 .. k + d : i \in 1 .. k + d /\ ~(i <= k)
        BY <3>2, <4>2
      <4> QED
        BY <4>1, <4>3, <4>4 DEF d
    <3>5. \A i \in 1 .. last - k : during[i] = moments[k + i]
      <4> TAKE i \in 1 .. last - k
      <4> DEFINE j == k + i
      <4>1. j \in k + 1 .. k + (last - k) /\ j - k = i
        BY <3>2
      <4> HIDE DEF j
      <4>2. moments[j] = during[i]
        BY <3>4, <4>1
      <4> QED
        BY <4>2 DEF j
    <3> QED
      BY <3>1, <3>2, <3>3, <3>4, <3>5
  <2> HIDE DEF moments
  <2>13. TellsFirst(after, messages, last, moments) /\ LockersOwned(after, messages)
    <3>1. \A i \in 1 .. Len(messages) : Means(EventOf(type, packets[i]), messages[i])
      BY <2>2, <2>8
    <3>2. k \in 0 .. Len(messages) /\ last \in k .. Len(messages)
      BY <2>2, <2>4, <2>11
    <3>3. TellsFirst(Now, messages, k, moments)
      <4>1. k \in Nat
        BY <2>2, <2>4, LenProperties DEF OnTheWire
      <4>2. /\ \A i \in 1 .. k - 1 : replaced[i] = moments[i]
            /\ k = 0 \/ replaced[k] = moments[k]
        BY <2>12, <4>1
      <4>3. SameSoFar(messages, messages, replaced, moments, k)
        BY <4>1, <4>2 DEF SameSoFar
      <4> QED
        BY <2>2, <2>3, <3>2, <4>2, <4>3, TellsSame
    <3>4. \A i \in 1 .. last - k : during[i] = moments[k + i]
      BY <2>12
    <3>5. TellsFirst(HandleFrames(Now, type, Between(packets, k, last), denied, during),
                     messages, last, moments)
      BY <2>2, <3>1, <3>2, <3>3, <3>4, TellsToTheLast
    <3>6. IsState(Now)
      BY <3>3 DEF TellsFirst
    <3>7. LockersOwned(HandleFrames(Now, type, Between(packets, k, last), denied, during),
                       messages)
      BY <2>2, <2>3, <3>1, <3>2, <3>6, LockersOwnedToTheLast
    <3> QED
      BY <2>11, <3>5, <3>7
  <2> HIDE DEF after
  <2>14. Now' = after
    <3>1. Now' = [extra |-> after.extra, reported |-> after.reported,
                  fetched |-> after.fetched,
                  alive |-> (IF after.alive THEN cutReader ELSE "panicked") # "panicked"]
      BY <2>6 DEF Now, after, cutReader
    <3>2. PICK usart, lockers, uid, told, tags, alive :
            /\ alive \in BOOLEAN
            /\ after = [extra |-> [usart |-> usart, lockers |-> lockers, uid |-> uid],
                        reported |-> told, fetched |-> tags, alive |-> alive]
      <4>1. IsState(after)
        BY <2>13 DEF TellsFirst
      <4> QED
        BY <4>1 DEF IsState
    <3>3. cutReader # "panicked"
      BY <2>11
    <3>4. CASE alive
      BY <3>1, <3>2, <3>3, <3>4
    <3>5. CASE ~alive
      BY <3>1, <3>2, <3>3, <3>5
    <3> QED
      BY <3>2, <3>4, <3>5
  <2>15. Arrived' = last
    BY <1>1 DEF Arrived, last, wires
  <2> QED
    BY <1>1, <2>6, <2>11, <2>12, <2>13, <2>14, <2>15
    DEF type, messages, wires, moments
<1>4. received' \in 0 .. Len(Stream) /\ received' # 0
  BY <1>1, <1>2
<1> QED
  BY <1>1, <1>3, <1>4 DEF ReportsInv

\* Before a byte is read nothing is told.
LEMMA ReportsInvInit == Init => ReportsInv
<1> SUFFICES ASSUME Init
             PROVE  ReportsInv
  OBVIOUS
<1>1. conversation \in Conversations /\ received = 0 /\ attached = "never"
  BY DEF Init
<1>2. Len(Stream) \in Nat
  BY <1>1, TerminalsSendBytes, LenProperties DEF Stream
<1>3. ~Exact
  BY <1>1 DEF Exact
<1> QED
  BY <1>1, <1>2, <1>3 DEF ReportsInv, Init

\* Every step keeps it.
LEMMA ReportsInvNext == ReportsInv /\ [Next]_vars => ReportsInv'
<1>1. ReportsInv /\ UNCHANGED vars => ReportsInv'
  <2> SUFFICES ASSUME ReportsInv, UNCHANGED vars
               PROVE  ReportsInv'
    OBVIOUS
  <2>1. /\ Stream' = Stream /\ Exact' = Exact /\ Now' = Now
        /\ Wires' = Wires /\ Arrived' = Arrived
    BY DEF vars, Stream, Exact, Now, Wires, Arrived
  <2> QED
    BY <2>1 DEF ReportsInv, vars
<1> QED
  BY <1>1, ReportsInvAttach, ReportsInvRead DEF Next

\* However TCP cuts what a POCKET, SPHINX or JSP terminal of the list sends: the
\* handlers have been called for the messages that have arrived whole, in their
\* order, and for nothing else.  A barcode over several Signals is told when its
\* last one has arrived, unless the list replaced the settings between two of
\* them, or amid one so that its bytes were lost: then it is not told, and that
\* is all that is not.  The daemon ends at the first RelayControlEx of five bytes,
\* and only there.
THEOREM WhatArrivedIsReported == Spec => []ReportsWhatArrived
  BY ReportsInvInit, ReportsInvNext, ReportsInvImplies, PTL DEF Spec

\* A session is given the lockers of no card but its own, whatever tags were
\* turned away before, and wherever the list replaces the settings, also between
\* the tag and the moment its lockers are taken out: when the first settings
\* were attached in time.  A reader that guesses the protocol may take a part of
\* a payload for a packet: of it the property is not true for every conversation.
THEOREM LockersStayWithCard == Spec => [](Exact => LockersBelongToCard)
<1>1. ReportsInv => (Exact => LockersBelongToCard)
  <2> SUFFICES ASSUME ReportsInv, Exact
               PROVE  LockersBelongToCard
    OBVIOUS
  <2>1. LockersOwned(Now, conversation.messages) /\ Now.fetched = fetched
    BY DEF ReportsInv, Now
  <2> QED
    BY <2>1 DEF LockersOwned, CameWith, LockersBelongToCard
<1> QED
  BY <1>1, ReportsInvInit, ReportsInvNext, PTL DEF Spec
=============================================================================

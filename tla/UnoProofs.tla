------------------------------ MODULE UnoProofs ------------------------------
(***************************************************************************)
(* Proofs about UnoGame, and UnoBoard over it, for every number of players *)
(* and every deck: see README.md for the argument.                         *)
(***************************************************************************)
EXTENDS UnoBoard, Lemmas, SequenceTheorems

(* A pack of cards: the sequence d holds the cards of S, each of them once.  *)
Pack(d, S) ==
    /\ d \in Seq(Cards)
    /\ Range(d) = S
    /\ \A i, j \in 1 .. Len(d) : i # j => d[i] # d[j]

(* Every set of cards is finite.                                             *)
LEMMA CardsAreFinite ==
    ASSUME NEW S \in SUBSET Cards
    PROVE  IsFiniteSet(S) /\ Cardinality(S) \in Nat
  BY CardsAssumption, FS_Subset, FS_CardinalityType

(* std::shuffle loses no card and makes none.                                *)
LEMMA ShuffleIsAPack ==
    ASSUME NEW S \in SUBSET Cards, NEW s \in Shuffles(S)
    PROVE  Pack(s, S) /\ Len(s) = Cardinality(S)
<1> DEFINE n == Cardinality(S)
<1>1. IsFiniteSet(S) /\ n \in Nat
  BY CardsAreFinite
<1>2. s \in [1 .. n -> S] /\ IsInjective(s)
  BY DEF Shuffles
<1>3. s \in Seq(S) /\ Len(s) = n /\ DOMAIN s = 1 .. n
  BY <1>1, <1>2
<1>4. s \in Seq(Cards)
  BY <1>1, <1>2
<1>5. Range(s) = S
  <2>1. IsFiniteSet(1 .. n) /\ Cardinality(1 .. n) = n
    BY <1>1, FS_Interval
  <2>2. s \in Injection(1 .. n, S)
    BY <1>2 DEF Injection
  <2>3. s \in Surjection(1 .. n, S)
    BY <1>1, <2>1, <2>2, FS_Injection
  <2> QED
    BY <1>2, <2>3 DEF Surjection, Range
<1> QED
  BY <1>2, <1>3, <1>4, <1>5 DEF Pack, IsInjective

(* One pack put on another.                                                  *)
LEMMA PackOnPack ==
    ASSUME NEW a, NEW S, NEW b, NEW T, Pack(a, S), Pack(b, T), S \cap T = {}
    PROVE  Pack(a \o b, S \cup T) /\ Len(a \o b) = Len(a) + Len(b)
<1>1. a \in Seq(Cards) /\ b \in Seq(Cards)
  BY DEF Pack
<1>2. /\ Len(a) \in Nat /\ Len(b) \in Nat
      /\ DOMAIN a = 1 .. Len(a) /\ DOMAIN b = 1 .. Len(b)
  BY <1>1
<1>3. /\ a \o b \in Seq(Cards)
      /\ Len(a \o b) = Len(a) + Len(b)
      /\ \A i \in 1 .. Len(a) + Len(b) :
            (a \o b)[i] = IF i <= Len(a) THEN a[i] ELSE b[i - Len(a)]
  BY <1>1
<1>4. \A i \in 1 .. Len(a) : a[i] \in S
  BY <1>2 DEF Pack, Range
<1>5. \A i \in 1 .. Len(b) : b[i] \in T
  BY <1>2 DEF Pack, Range
<1>6. Range(a \o b) = S \cup T
  <2>1. DOMAIN (a \o b) = 1 .. Len(a) + Len(b)
    BY <1>3
  <2>2. ASSUME NEW x \in S
        PROVE  x \in Range(a \o b)
    <3>1. PICK i \in 1 .. Len(a) : a[i] = x
      BY <1>2 DEF Pack, Range
    <3>2. i \in 1 .. Len(a) + Len(b) /\ (a \o b)[i] = x
      BY <1>2, <1>3, <3>1
    <3> QED
      BY <2>1, <3>2 DEF Range
  <2>3. ASSUME NEW x \in T
        PROVE  x \in Range(a \o b)
    <3>1. PICK i \in 1 .. Len(b) : b[i] = x
      BY <1>2 DEF Pack, Range
    <3>2. i + Len(a) \in 1 .. Len(a) + Len(b) /\ (a \o b)[i + Len(a)] = x
      BY <1>2, <1>3, <3>1
    <3> QED
      BY <2>1, <3>2 DEF Range
  <2>4. ASSUME NEW x \in Range(a \o b)
        PROVE  x \in S \cup T
    <3>1. PICK i \in 1 .. Len(a) + Len(b) : (a \o b)[i] = x
      BY <2>1 DEF Range
    <3>2. CASE i <= Len(a)
      BY <1>2, <1>3, <1>4, <3>1, <3>2
    <3>3. CASE i > Len(a)
      <4>1. i - Len(a) \in 1 .. Len(b) /\ (a \o b)[i] = b[i - Len(a)]
        BY <1>2, <1>3, <3>1, <3>3
      <4> QED
        BY <1>5, <3>1, <4>1
    <3> QED
      BY <1>2, <3>1, <3>2, <3>3
  <2> QED
    BY <2>2, <2>3, <2>4
<1>7. ASSUME NEW i \in 1 .. Len(a \o b), NEW j \in 1 .. Len(a \o b), i # j
      PROVE  (a \o b)[i] # (a \o b)[j]
  <2>1. CASE i <= Len(a) /\ j <= Len(a)
    BY <1>2, <1>3, <1>7, <2>1 DEF Pack
  <2>2. CASE i > Len(a) /\ j > Len(a)
    <3>1. i - Len(a) \in 1 .. Len(b) /\ j - Len(a) \in 1 .. Len(b) /\ i - Len(a) # j - Len(a)
      BY <1>2, <1>3, <1>7, <2>2
    <3>2. b[i - Len(a)] # b[j - Len(a)]
      BY <3>1 DEF Pack
    <3> QED
      BY <1>2, <1>3, <2>2, <3>2
  <2>3. CASE i <= Len(a) /\ j > Len(a)
    <3>1. (a \o b)[i] \in S /\ (a \o b)[j] \in T
      <4>1. j - Len(a) \in 1 .. Len(b) /\ i \in 1 .. Len(a)
        BY <1>2, <1>3, <2>3
      <4> QED
        BY <1>2, <1>3, <1>4, <1>5, <2>3, <4>1
    <3> QED
      BY <3>1
  <2>4. CASE i > Len(a) /\ j <= Len(a)
    <3>1. (a \o b)[j] \in S /\ (a \o b)[i] \in T
      <4>1. i - Len(a) \in 1 .. Len(b) /\ j \in 1 .. Len(a)
        BY <1>2, <1>3, <2>4
      <4> QED
        BY <1>2, <1>3, <1>4, <1>5, <2>4, <4>1
    <3> QED
      BY <3>1
  <2> QED
    BY <1>2, <1>3, <2>1, <2>2, <2>3, <2>4
<1> QED
  BY <1>3, <1>6, <1>7 DEF Pack

(* The m cards at the bottom of a deck.                                      *)
LEMMA Prefix ==
    ASSUME NEW d \in Seq(Cards), NEW m \in 0 .. Len(d)
    PROVE  /\ SubSeq(d, 1, m) \in Seq(Cards)
           /\ Len(SubSeq(d, 1, m)) = m
           /\ DOMAIN SubSeq(d, 1, m) = 1 .. m
           /\ \A i \in 1 .. m : SubSeq(d, 1, m)[i] = d[i]
<1>1. m \in Int /\ \A i \in 1 .. m : d[i] \in Cards
  OBVIOUS
<1>2. /\ SubSeq(d, 1, m) \in Seq(Cards)
      /\ Len(SubSeq(d, 1, m)) = IF 1 <= m THEN m - 1 + 1 ELSE 0
      /\ \A i \in 1 .. m - 1 + 1 : SubSeq(d, 1, m)[i] = d[1 + i - 1]
  BY <1>1, SubSeqProperties
<1>3. Len(SubSeq(d, 1, m)) = m
  BY <1>2
<1> QED
  BY <1>2, <1>3

(* The k cards on top of a pack, and what is left without them.              *)
LEMMA PackWithoutTop ==
    ASSUME NEW d, NEW S, Pack(d, S), NEW k \in 0 .. Len(d)
    PROVE  LET taken == {d[i] : i \in Len(d) - k + 1 .. Len(d)}
               left  == SubSeq(d, 1, Len(d) - k)
           IN  /\ Pack(left, S \ taken) /\ Len(left) = Len(d) - k
               /\ taken \subseteq S
               /\ Cardinality(taken) = k
<1> DEFINE n == Len(d)
           up == n - k + 1 .. n
           taken == {d[i] : i \in up}
           left == SubSeq(d, 1, n - k)
<1>1. /\ d \in Seq(Cards) /\ n \in Nat /\ DOMAIN d = 1 .. n
      /\ k \in Nat /\ k <= n /\ n - k \in 0 .. n
  BY DEF Pack
<1>2. /\ left \in Seq(Cards) /\ Len(left) = n - k /\ DOMAIN left = 1 .. n - k
      /\ \A i \in 1 .. n - k : left[i] = d[i]
  BY <1>1, Prefix
<1>3. up \subseteq 1 .. n /\ 1 .. n - k \subseteq 1 .. n /\ up \cap 1 .. n - k = {}
      /\ up \cup 1 .. n - k = 1 .. n
  BY <1>1
<1>4. S = {d[i] : i \in 1 .. n}
  BY <1>1 DEF Pack, Range
<1>5. \A i, j \in 1 .. n : i # j => d[i] # d[j]
  BY DEF Pack
<1>6. taken \subseteq S
  BY <1>3, <1>4
<1>7. Range(left) = S \ taken
  <2>1. Range(left) = {d[i] : i \in 1 .. n - k}
    BY <1>2 DEF Range
  <2> QED
    BY <1>3, <1>4, <1>5, <2>1
<1>8. Cardinality(taken) = k
  <2> DEFINE f == [i \in up |-> d[i]]
  <2>1. f \in Bijection(up, taken)
    BY <1>3, <1>5 DEF Bijection, Injection, Surjection, IsInjective
  <2>2. IsFiniteSet(up) /\ Cardinality(up) = k
    BY <1>1, FS_Interval
  <2> QED
    BY <2>1, <2>2, FS_Bijection DEF ExistsBijection
<1>9. \A i, j \in 1 .. Len(left) : i # j => left[i] # left[j]
  BY <1>1, <1>2, <1>3, <1>5
<1> QED
  BY <1>2, <1>6, <1>7, <1>8, <1>9 DEF Pack
-----------------------------------------------------------------------------
(* Every card is in one place: among those of the deck D, in the pile p, on  *)
(* top of it, or in a hand.                                                  *)
Split(D, p, t, h) ==
    /\ D \subseteq Cards /\ p \subseteq Cards /\ t \in Cards
    /\ h \in [Players -> SUBSET Cards]
    /\ \A c \in Cards : c \in D \/ c \in p \/ c = t \/ \E q \in Players : c \in h[q]
    /\ t \notin D /\ t \notin p /\ D \cap p = {}
    /\ \A q \in Players : h[q] \cap D = {} /\ h[q] \cap p = {} /\ t \notin h[q]
    /\ \A q, r \in Players : q # r => h[q] \cap h[r] = {}

Located(d, p, t, h) == Pack(d, Range(d)) /\ Split(Range(d), p, t, h)

(* A card goes from a hand to the top of the discard pile.                   *)
LEMMA PlayedFromHand ==
    ASSUME NEW D, NEW p, NEW t, NEW h, Split(D, p, t, h),
           NEW q \in Players, NEW c \in h[q]
    PROVE  Split(D, p \cup {t}, c, [h EXCEPT ![q] = @ \ {c}])
<1> DEFINE g == [h EXCEPT ![q] = @ \ {c}]
<1>1. /\ h \in [Players -> SUBSET Cards] /\ g \in [Players -> SUBSET Cards]
      /\ g[q] = h[q] \ {c}
      /\ \A r \in Players : r # q => g[r] = h[r]
  BY DEF Split
<1>2. c \in Cards /\ \A r \in Players : g[r] \subseteq h[r] /\ c \notin g[r]
  BY <1>1 DEF Split
<1>3. \A e \in Cards : e \in D \/ e \in p \cup {t} \/ e = c \/ \E r \in Players : e \in g[r]
  BY <1>1 DEF Split
<1> HIDE DEF g
<1>4. \A r, s \in Players : r # s => g[r] \cap g[s] = {}
  BY <1>2 DEF Split
<1>5. \A r \in Players : g[r] \cap D = {} /\ g[r] \cap (p \cup {t}) = {} /\ c \notin g[r]
  BY <1>2 DEF Split
<1>6. Split(D, p \cup {t}, c, g)
  BY <1>1, <1>2, <1>3, <1>4, <1>5 DEF Split
<1> QED
  BY <1>6 DEF g

(* A card goes from the deck to the top of the discard pile.                 *)
LEMMA PlayedFromDeck ==
    ASSUME NEW D, NEW p, NEW t, NEW h, Split(D, p, t, h), NEW c \in D
    PROVE  Split(D \ {c}, p \cup {t}, c, h)
  BY DEF Split

(* Cards go from the deck to a hand.                                         *)
LEMMA TakenIntoHand ==
    ASSUME NEW D, NEW p, NEW t, NEW h, Split(D, p, t, h),
           NEW q \in Players, NEW T \in SUBSET D
    PROVE  Split(D \ T, p, t, [h EXCEPT ![q] = @ \cup T])
<1> DEFINE g == [h EXCEPT ![q] = @ \cup T]
<1>1. /\ h \in [Players -> SUBSET Cards] /\ g \in [Players -> SUBSET Cards]
      /\ g[q] = h[q] \cup T
      /\ \A r \in Players : r # q => g[r] = h[r]
  BY DEF Split
<1>2. \A r \in Players : h[r] \subseteq g[r] /\ g[r] \subseteq h[r] \cup T
  BY <1>1
<1>3. \A e \in Cards : e \in D \ T \/ e \in p \/ e = t \/ \E r \in Players : e \in g[r]
  BY <1>1, <1>2 DEF Split
<1> HIDE DEF g
<1>4. \A r, s \in Players : r # s => g[r] \cap g[s] = {}
  BY <1>1 DEF Split
<1>5. \A r \in Players : g[r] \cap (D \ T) = {} /\ g[r] \cap p = {} /\ t \notin g[r]
  BY <1>1 DEF Split
<1>6. Split(D \ T, p, t, g)
  BY <1>1, <1>3, <1>4, <1>5 DEF Split
<1> QED
  BY <1>6 DEF g

(* The discard pile, all but its top, goes under the deck.                   *)
LEMMA PileUnderDeck ==
    ASSUME NEW D, NEW p, NEW t, NEW h, Split(D, p, t, h)
    PROVE  Split(p \cup D, {}, t, h)
  BY DEF Split

(* CardsAreConserved says of the variables what Located says of its arguments. *)
LEMMA LocatedConserved ==
    ASSUME NEW d, NEW p, NEW t, NEW h
    PROVE  Located(d, p, t, h) <=>
             /\ d \in Seq(Cards) /\ p \in SUBSET Cards /\ t \in Cards
             /\ h \in [Players -> SUBSET Cards]
             /\ Range(d) \cup p \cup {t} \cup UNION Range(h) = Cards
             /\ \A i, j \in 1 .. Len(d) : i # j => d[i] # d[j]
             /\ \A i \in 1 .. Len(d) :
                   /\ d[i] \notin p \cup {t}
                   /\ \A q \in Players : d[i] \notin h[q]
             /\ t \notin p
             /\ \A q \in Players : h[q] \cap (p \cup {t}) = {}
             /\ \A q, r \in Players : q # r => h[q] \cap h[r] = {}
<1>1. ASSUME d \in Seq(Cards)
      PROVE  Range(d) \subseteq Cards /\ Range(d) = {d[i] : i \in 1 .. Len(d)}
  BY <1>1 DEF Range
<1>2. ASSUME h \in [Players -> SUBSET Cards]
      PROVE  \A c : c \in UNION Range(h) <=> \E q \in Players : c \in h[q]
  BY <1>2 DEF Range
<1>3. SUFFICES ASSUME d \in Seq(Cards), p \in SUBSET Cards, t \in Cards,
                      h \in [Players -> SUBSET Cards]
      PROVE  Located(d, p, t, h) <=>
             /\ Range(d) \cup p \cup {t} \cup UNION Range(h) = Cards
             /\ \A i, j \in 1 .. Len(d) : i # j => d[i] # d[j]
             /\ \A i \in 1 .. Len(d) :
                   /\ d[i] \notin p \cup {t}
                   /\ \A q \in Players : d[i] \notin h[q]
             /\ t \notin p
             /\ \A q \in Players : h[q] \cap (p \cup {t}) = {}
             /\ \A q, r \in Players : q # r => h[q] \cap h[r] = {}
  BY DEF Located, Pack, Split
<1>4. (Range(d) \cup p \cup {t} \cup UNION Range(h) = Cards)
        <=> \A c \in Cards : c \in Range(d) \/ c \in p \/ c = t \/ \E q \in Players : c \in h[q]
  BY <1>1, <1>2, <1>3
<1>5. /\ (\A i \in 1 .. Len(d) : d[i] \notin p \cup {t}) <=> (t \notin Range(d) /\ Range(d) \cap p = {})
      /\ (\A i \in 1 .. Len(d) : \A q \in Players : d[i] \notin h[q])
            <=> \A q \in Players : h[q] \cap Range(d) = {}
  BY <1>1, <1>3
<1>6. (\A q \in Players : h[q] \cap (p \cup {t}) = {})
        <=> \A q \in Players : h[q] \cap p = {} /\ t \notin h[q]
  OBVIOUS
<1> QED
  BY <1>1, <1>3, <1>4, <1>5, <1>6 DEF Located, Pack, Split

(* The deck and the pile that readyDraw leaves.                              *)
LEMMA UnderDeck ==
    ASSUME NEW d, NEW p, NEW t, NEW h, Located(d, p, t, h), NEW qty \in Nat, NEW d2, NEW p2,
           IF Len(d) >= qty THEN d2 = d /\ p2 = p
           ELSE /\ \E under \in Shuffles(p) : d2 = under \o d
                /\ p2 = {}
    PROVE  Located(d2, p2, t, h) /\ (Len(d2) < qty => p2 = {})
<1>1. CASE Len(d) >= qty
  <2>1. d2 = d /\ p2 = p
    BY <1>1
  <2>2. Len(d) \in Nat
    BY DEF Located, Pack
  <2> QED
    BY <2>1, <2>2, <1>1
<1>2. CASE ~(Len(d) >= qty)
  <2>1. PICK under \in Shuffles(p) : d2 = under \o d
    BY <1>2
  <2>2. p \in SUBSET Cards /\ p \cap Range(d) = {}
    BY DEF Located, Split
  <2>3. Pack(under, p)
    BY <2>2, ShuffleIsAPack
  <2>4. Pack(d2, p \cup Range(d))
    BY <2>1, <2>2, <2>3, PackOnPack DEF Located
  <2>5. Range(d2) = p \cup Range(d)
    BY <2>4 DEF Pack
  <2>6. Split(p \cup Range(d), {}, t, h)
    BY PileUnderDeck DEF Located
  <2> QED
    BY <1>2, <2>4, <2>5, <2>6 DEF Located
<1> QED
  BY <1>1, <1>2
-----------------------------------------------------------------------------
(* PlayerIter stays on a seat.                                               *)
LEMMA MoveIsASeat ==
    ASSUME NEW s \in Players, NEW a \in Nat, NEW dir
    PROVE  Move(s, a, dir) \in Players
<1>1. a % N \in 0 .. N - 1
  BY PlayersAssumption
<1> QED
  BY <1>1, PlayersAssumption DEF Move, Players

(* The next seat is another one, and so is the one after it.                 *)
LEMMA MoveAway ==
    ASSUME NEW s \in Players, NEW dir
    PROVE  /\ N >= 2 => Move(s, 1, dir) # s
           /\ N >= 3 => Move(Move(s, 1, dir), 1, dir) # s
<1>1. N >= 2 => 1 % N = 1
  BY PlayersAssumption
<1>2. N >= 2 => Move(s, 1, dir) = IF dir = "Normal"
                                  THEN IF s + 1 >= N THEN 0 ELSE s + 1
                                  ELSE IF s < 1 THEN N - 1 ELSE s - 1
  BY <1>1, PlayersAssumption DEF Move, Players
<1>3. N >= 2 => Move(s, 1, dir) # s
  BY <1>2, PlayersAssumption DEF Players
<1>4. ASSUME N >= 3
      PROVE  Move(Move(s, 1, dir), 1, dir) # s
  <2> DEFINE r == Move(s, 1, dir)
  <2>1. r \in Players
    BY MoveIsASeat
  <2>2. Move(r, 1, dir) = IF dir = "Normal"
                          THEN IF r + 1 >= N THEN 0 ELSE r + 1
                          ELSE IF r < 1 THEN N - 1 ELSE r - 1
    BY <2>1, <1>1, <1>4, PlayersAssumption DEF Move, Players
  <2>3. r = IF dir = "Normal"
            THEN IF s + 1 >= N THEN 0 ELSE s + 1
            ELSE IF s < 1 THEN N - 1 ELSE s - 1
    BY <1>2, <1>4, PlayersAssumption
  <2> HIDE DEF r
  <2>4. Move(r, 1, dir) # s
    BY <2>2, <2>3, <1>4, PlayersAssumption DEF Players
  <2> QED
    BY <2>4 DEF r
<1> QED
  BY <1>3, <1>4

(* The deal passes to the next seat.                                         *)
LEMMA NextDeal ==
    ASSUME NEW n \in Nat
    PROVE  Move(n % N, 1, "Normal") = (n + 1) % N
<1>1. n % N \in 0 .. N - 1
  BY PlayersAssumption
<1>2. CASE N = 1
  BY <1>2 DEF Move
<1>3. CASE N # 1
  <2>1. 1 % N = 1
    BY <1>3, PlayersAssumption
  <2> DEFINE q == n \div N
             r == n % N
  <2>2. n = N * q + r /\ q \in Int /\ r \in 0 .. N - 1 /\ N \in Int /\ N > 0
    BY PlayersAssumption
  <2> HIDE DEF q, r
  <2>3. CASE r + 1 < N
    <3>1. n + 1 = N * q + (r + 1) /\ r + 1 \in 0 .. N - 1
      BY <2>2, <2>3
    <3>2. (N * q + (r + 1)) % N = r + 1
      BY <2>2, <3>1
    <3> QED
      BY <1>3, <2>1, <2>2, <2>3, <3>1, <3>2, PlayersAssumption DEF Move, r
  <2>4. CASE r + 1 = N
    <3>1. n + 1 = N * (q + 1)
      BY <2>2, <2>4
    <3>2. (N * (q + 1)) % N = 0
      BY <2>2
    <3> QED
      BY <1>3, <2>1, <2>2, <2>4, <3>1, <3>2, PlayersAssumption DEF Move, r
  <2> QED
    BY <2>2, <2>3, <2>4
<1> QED
  BY <1>2, <1>3
-----------------------------------------------------------------------------
(* N hands of HandSize cards are N * HandSize cards at most.                 *)
LEMMA CardsDealt ==
    ASSUME NEW h \in HandDeals
    PROVE  Cardinality(UNION Range(h)) <= N * HandSize
<1> DEFINE U(n) == UNION {h[q] : q \in 0 .. n - 1}
           Bad == {n \in 0 .. N : ~(Cardinality(U(n)) <= n * HandSize)}
<1>1. /\ h \in [Players -> SUBSET Cards]
      /\ \A q \in Players : Cardinality(h[q]) = HandSize
  BY DEF HandDeals
<1>2. N \in Nat /\ HandSize \in Nat
  BY PlayersAssumption, HandSizeAssumption
<1>3. \A n \in 0 .. N : U(n) \in SUBSET Cards
  <2> TAKE n \in 0 .. N
  <2>1. 0 .. n - 1 \subseteq Players
    BY <1>2 DEF Players
  <2> QED
    BY <1>1, <2>1
<1>4. SUFFICES ASSUME Bad # {}
               PROVE  FALSE
  <2>1. N \in 0 .. N /\ 0 .. N - 1 = Players
    BY <1>2 DEF Players
  <2>2. Range(h) = {h[q] : q \in Players}
    BY <1>1 DEF Range
  <2> HIDE DEF U
  <2>3. Cardinality(U(N)) <= N * HandSize
    BY <1>4, <2>1
  <2> QED
    BY <2>1, <2>2, <2>3 DEF U
<1>5. Bad \in SUBSET Nat
  OBVIOUS
<1> HIDE DEF Bad
<1>6. PICK m \in Bad : \A n \in Bad : m <= n
  BY <1>4, <1>5, LeastNatural
<1> USE DEF Bad
<1>7. CASE m = 0
  <2>1. U(0) = {}
    OBVIOUS
  <2>2. Cardinality(U(0)) = 0
    BY <2>1, FS_EmptySet
  <2> HIDE DEF U
  <2> QED
    BY <1>2, <1>7, <2>2
<1>8. CASE m # 0
  <2> DEFINE n == m - 1
  <2>1. m \in 0 .. N /\ n \in 0 .. N /\ n < m /\ n \in Players
    BY <1>2, <1>8 DEF Players
  <2>2. U(m) = U(n) \cup h[n]
    <3>1. 0 .. m - 1 = (0 .. n - 1) \cup {n}
      BY <2>1
    <3> QED
      BY <3>1
  <2> HIDE DEF U
  <2>3. Cardinality(U(n)) <= n * HandSize
    <3>1. n \notin Bad
      BY <1>5, <1>6, <2>1
    <3> QED
      BY <2>1, <3>1
  <2>4. /\ IsFiniteSet(U(n)) /\ IsFiniteSet(h[n]) /\ IsFiniteSet(U(n) \cap h[n])
        /\ Cardinality(U(n)) \in Nat /\ Cardinality(U(n) \cap h[n]) \in Nat
    <3>1. U(n) \in SUBSET Cards /\ h[n] \in SUBSET Cards /\ U(n) \cap h[n] \in SUBSET Cards
      BY <1>1, <1>3, <2>1
    <3> QED
      BY <3>1, CardsAreFinite
  <2>5. Cardinality(U(m)) = Cardinality(U(n)) + HandSize - Cardinality(U(n) \cap h[n])
    BY <1>1, <2>1, <2>2, <2>4, FS_Union
  <2>6. m * HandSize = n * HandSize + HandSize
    BY <1>2, <2>1
  <2>7. Cardinality(U(m)) <= m * HandSize
    <3> DEFINE x == n * HandSize
    <3>1. x \in Int
      BY <1>2, <2>1
    <3> HIDE DEF x
    <3>2. Cardinality(U(m)) <= x + HandSize
      BY <1>2, <2>3, <2>4, <2>5, <3>1 DEF x
    <3> QED
      BY <2>6, <3>2 DEF x
  <2> QED
    BY <2>7
<1> QED
  BY <1>7, <1>8

(* After the hands are dealt, a coloured card is left to turn over.          *)
LEMMA CardTurnedOver ==
    ASSUME NEW h \in HandDeals, NEW s \in Shuffles(Cards \ UNION Range(h))
    PROVE  /\ TurnedOver(s) \in 1 .. Len(s)
           /\ ~IsColorless(s[Len(s) - TurnedOver(s) + 1])
<1> DEFINE R == Cards \ UNION Range(h)
           K == {k \in 1 .. Len(s) : ~IsColorless(s[Len(s) - k + 1])}
<1>1. Pack(s, R) /\ Len(s) \in Nat
  BY ShuffleIsAPack DEF Pack
<1>2. PICK c \in R : ~IsColorless(c)
  <2>1. SUFFICES ASSUME R \subseteq Wilds
                 PROVE  FALSE
    BY DEF Wilds
  <2>2. UNION Range(h) \in SUBSET Cards /\ Wilds \in SUBSET Cards
    BY DEF HandDeals, Range, Wilds
  <2>3. Cards = R \cup UNION Range(h) /\ R \cap UNION Range(h) = {}
    BY <2>2
  <2>4. Cardinality(Cards) = Cardinality(R) + Cardinality(UNION Range(h))
    <3>1. Cardinality(R \cap UNION Range(h)) = 0
      BY <2>3, FS_EmptySet
    <3>2. IsFiniteSet(R) /\ IsFiniteSet(UNION Range(h))
      BY <2>2, CardsAreFinite
    <3>3. Cardinality(R) \in Nat /\ Cardinality(UNION Range(h)) \in Nat
      BY <2>2, CardsAreFinite
    <3> DEFINE U == UNION Range(h)
    <3> HIDE DEF R, U
    <3>4. Cardinality(R \cup U) = Cardinality(R) + Cardinality(U) - Cardinality(R \cap U)
      BY <3>2, FS_Union DEF U
    <3> QED
      BY <2>3, <3>1, <3>3, <3>4 DEF U
  <2>5. Cardinality(R) <= Cardinality(Wilds)
    BY <2>1, <2>2, CardsAreFinite, FS_Subset
  <2>6. /\ Cardinality(R) \in Nat /\ Cardinality(Wilds) \in Nat
        /\ Cardinality(UNION Range(h)) \in Nat
    BY <2>2, CardsAreFinite
  <2> DEFINE x == N * HandSize
  <2>7. x \in Int
    BY PlayersAssumption, HandSizeAssumption
  <2>8. Cardinality(UNION Range(h)) <= x /\ x + Cardinality(Wilds) < Cardinality(Cards)
    BY CardsDealt, HandSizeAssumption
  <2> HIDE DEF x
  <2> QED
    BY <2>4, <2>5, <2>6, <2>7, <2>8
<1>3. PICK i \in 1 .. Len(s) : s[i] = c
  BY <1>1, <1>2 DEF Pack, Range
<1>4. Len(s) - i + 1 \in 1 .. Len(s) /\ Len(s) - (Len(s) - i + 1) + 1 = i
  BY <1>1
<1>5. Len(s) - i + 1 \in K
  BY <1>2, <1>3, <1>4
<1>6. K \in SUBSET Nat /\ K # {}
  <2>1. K \subseteq 1 .. Len(s)
    OBVIOUS
  <2> HIDE DEF K
  <2> QED
    BY <1>1, <1>5, <2>1
<1> HIDE DEF K
<1>7. PICK k \in K : \A j \in K : k <= j
  BY <1>6, LeastNatural
<1>8. \A j \in 1 .. k - 1 : IsColorless(s[Len(s) - j + 1])
  <2> TAKE j \in 1 .. k - 1
  <2>1. k \in 1 .. Len(s)
    BY DEF K
  <2>2. j \in 1 .. Len(s) /\ ~(k <= j)
    BY <1>1, <2>1
  <2>3. j \notin K
    BY <1>7, <2>2
  <2> QED
    BY <2>2, <2>3 DEF K
<1>9. k \in 1 .. Len(s) /\ ~IsColorless(s[Len(s) - k + 1])
  BY DEF K
<1> QED
  BY <1>8, <1>9 DEF TurnedOver

(* A deal puts every card in one place, gives everybody cards and turns a     *)
(* coloured card over.                                                       *)
LEMMA FairDeal ==
    ASSUME NEW d \in Deals
    PROVE  /\ Located(d.deck, d.pile, d.top, d.hands)
           /\ ~IsColorless(d.top)
           /\ \A q \in Players : d.hands[q] # {}
<1>0. PICK h \in HandDeals : \E s \in Shuffles(Cards \ UNION Range(h)) :
         d = [hands |-> h,
              deck  |-> SubSeq(s, 1, Len(s) - TurnedOver(s)),
              pile  |-> {s[i] : i \in Len(s) - TurnedOver(s) + 2 .. Len(s)},
              top   |-> s[Len(s) - TurnedOver(s) + 1]]
  BY DEF Deals
<1>1. PICK s \in Shuffles(Cards \ UNION Range(h)) :
         d = [hands |-> h,
              deck  |-> SubSeq(s, 1, Len(s) - TurnedOver(s)),
              pile  |-> {s[i] : i \in Len(s) - TurnedOver(s) + 2 .. Len(s)},
              top   |-> s[Len(s) - TurnedOver(s) + 1]]
  BY <1>0
<1> DEFINE R == Cards \ UNION Range(h)
           n == Len(s)
           k == TurnedOver(s)
           taken == {s[i] : i \in n - k + 1 .. n}
           left == SubSeq(s, 1, n - k)
           p == {s[i] : i \in n - k + 2 .. n}
           t == s[n - k + 1]
<1>2. Pack(s, R)
  BY ShuffleIsAPack
<1>3. k \in 1 .. n /\ ~IsColorless(t) /\ n \in Nat
  BY <1>2, CardTurnedOver DEF Pack
<1>4. Pack(left, R \ taken) /\ taken \subseteq R
  <2>1. k \in 0 .. n
    BY <1>3
  <2> HIDE DEF R, k
  <2> QED
    BY <1>2, <2>1, PackWithoutTop
<1>5. taken = p \cup {t} /\ t \notin p
  <2>1. n - k + 1 .. n = (n - k + 2 .. n) \cup {n - k + 1}
    BY <1>3
  <2>2. n - k + 1 \in 1 .. n /\ \A i \in n - k + 2 .. n : i \in 1 .. n /\ i # n - k + 1
    BY <1>3
  <2>3. \A i, j \in 1 .. n : i # j => s[i] # s[j]
    BY <1>2 DEF Pack
  <2> HIDE DEF k, n
  <2> QED
    BY <2>1, <2>2, <2>3
<1>6. /\ h \in [Players -> SUBSET Cards]
      /\ \A q \in Players : Cardinality(h[q]) = HandSize
      /\ \A q, r \in Players : q # r => h[q] \cap h[r] = {}
  BY DEF HandDeals
<1>7. /\ \A q \in Players : h[q] \cap R = {}
      /\ \A c \in Cards : c \in R \/ \E q \in Players : c \in h[q]
  BY <1>6 DEF Range
<1>8. Range(left) = R \ taken
  BY <1>4 DEF Pack
<1>9. Split(R \ taken, p, t, h)
  <2>1. R \subseteq Cards
    OBVIOUS
  <2> HIDE DEF R, taken, p, t
  <2> QED
    BY <2>1, <1>4, <1>5, <1>6, <1>7 DEF Split
<1>10. \A q \in Players : h[q] # {}
  BY <1>6, FS_EmptySet, HandSizeAssumption
<1>11. d.deck = left /\ d.pile = p /\ d.top = t /\ d.hands = h
  BY <1>1
<1>12. Located(left, p, t, h)
  BY <1>4, <1>8, <1>9 DEF Located
<1> HIDE DEF left, p, t
<1> QED
  BY <1>3, <1>10, <1>11, <1>12
-----------------------------------------------------------------------------
(* The inductive invariant but for the places of the cards.                  *)
RestOK ==
    /\ lastCard \in [value : 0 .. 14, color : Colors]
    /\ current \in Players
    /\ order \in {"Normal", "Reversed"}
    /\ state \in {"PlayOrDraw", "Play", "Drawing", "Finished"}
    /\ drawQty \in {0, 1, 2, 4} /\ drawCanPlay \in BOOLEAN
    /\ startingPlayer \in Players
    /\ score \in Seq([Players -> [points : Points, won : BOOLEAN]])
    /\ LastCardIsTop
    /\ EmptyHandEndsGame
    /\ OneEmptyHand
    /\ ForcedByTop
    /\ OneWinner
    /\ EveryGameScoredOnce
    /\ DrawIsServed

LEMMA InvParts ==
    /\ IInv <=> Located(deck, pile, top, hands) /\ RestOK
    /\ IInv' <=> Located(deck', pile', top', hands') /\ RestOK'
<1>1. Located(deck, pile, top, hands) <=>
        /\ deck \in Seq(Cards) /\ pile \in SUBSET Cards /\ top \in Cards
        /\ hands \in [Players -> SUBSET Cards]
        /\ CardsAreConserved
  BY LocatedConserved DEF CardsAreConserved
<1>2. Located(deck', pile', top', hands') <=>
        /\ deck' \in Seq(Cards) /\ pile' \in SUBSET Cards /\ top' \in Cards
        /\ hands' \in [Players -> SUBSET Cards]
        /\ CardsAreConserved'
  BY LocatedConserved DEF CardsAreConserved
<1> QED
  BY <1>1, <1>2 DEF IInv, TypeOK, RestOK

(* The score of a game that goes on, or ends with this step.                 *)
LEMMA Scored ==
    ASSUME RestOK, state # "Finished", UpdateScore, UNCHANGED startingPlayer,
           hands' \in [Players -> SUBSET Cards], OneEmptyHand',
           state' = "Finished" => \E p \in Players : hands'[p] = {}
    PROVE  /\ score' \in Seq([Players -> [points : Points, won : BOOLEAN]])
           /\ OneWinner' /\ EveryGameScoredOnce'
<1> DEFINE Line == [Players -> [points : Points, won : BOOLEAN]]
<1>1. score \in Seq(Line) /\ Len(score) \in Nat
  BY DEF RestOK
<1>2. startingPlayer = (Len(score) + 1) % N
  BY DEF RestOK, EveryGameScoredOnce
<1>3. CASE state' # "Finished"
  <2>1. score' = score
    BY <1>3 DEF UpdateScore
  <2>2. OneWinner'
    BY <2>1 DEF RestOK, OneWinner
  <2>3. EveryGameScoredOnce'
    BY <1>2, <1>3, <2>1 DEF EveryGameScoredOnce
  <2> QED
    BY <1>1, <2>1, <2>2, <2>3
<1>4. CASE state' = "Finished"
  <2> DEFINE line == ScoreOf(hands')
  <2>1. score' = Append(score, line)
    BY <1>4 DEF UpdateScore
  <2>2. \A p \in Players : CalculatePoints(hands'[p]) \in Points
    BY DEF Points
  <2>3. line \in Line
    BY <2>2 DEF ScoreOf
  <2>4. \A q \in Players : line[q].won <=> hands'[q] = {}
    BY DEF ScoreOf
  <2> HIDE DEF line
  <2>5. /\ score' \in Seq(Line) /\ Len(score') = Len(score) + 1
        /\ score'[Len(score) + 1] = line
        /\ \A g \in 1 .. Len(score) : score'[g] = score[g]
    BY <1>1, <2>1, <2>3
  <2>6. PICK p \in Players : \A q \in Players : line[q].won <=> q = p
    BY <1>4, <2>4 DEF OneEmptyHand
  <2>7. OneWinner'
    <3> SUFFICES ASSUME NEW g \in 1 .. Len(score')
                 PROVE  \E w \in Players : \A q \in Players : score'[g][q].won <=> q = w
      BY DEF OneWinner
    <3>1. CASE g = Len(score) + 1
      BY <2>5, <2>6, <3>1
    <3>2. CASE g \in 1 .. Len(score)
      <4>1. PICK w \in Players : \A q \in Players : score[g][q].won <=> q = w
        BY <3>2 DEF RestOK, OneWinner
      <4>2. score'[g] = score[g]
        BY <2>5, <3>2
      <4> QED
        BY <4>1, <4>2
    <3> QED
      BY <1>1, <2>5, <3>1, <3>2
  <2>8. EveryGameScoredOnce'
    <3>1. Len(score') + 0 = Len(score) + 1
      BY <1>1, <2>5
    <3> QED
      BY <1>2, <1>4, <3>1 DEF EveryGameScoredOnce
  <2> QED
    BY <2>5, <2>7, <2>8
<1> QED
  BY <1>3, <1>4
-----------------------------------------------------------------------------
(* What Game::play leaves, wherever the card came from.                      *)
LEMMA CardPlayed ==
    ASSUME IInv, state # "Finished",
           NEW card \in Cards, NEW color \in Colors, NEW d,
           Located(d, pile \cup {top}, card, hands'),
           \A p \in Players : hands'[p] = {} => p = current,
           PlayCard(card, color, d)
    PROVE  IInv'
<1> USE InvParts
<1>1. RestOK /\ current \in Players
  BY DEF RestOK
<1>2. /\ top' = card /\ lastCard' = Named(card, color)
      /\ order' = IF card.value = Reverse THEN Opposite(order) ELSE order
      /\ current' = Move(IF card.value = SkipTurn THEN Move(current, 1, order) ELSE current,
                         1, order')
      /\ UpdateScore /\ UNCHANGED startingPlayer
  BY DEF PlayCard
<1>3. /\ card.value \in 0 .. 14
      /\ lastCard' \in [value : 0 .. 14, color : Colors]
      /\ LastCardIsTop'
  <2>1. card.value \in 0 .. 14 /\ (~IsColorless(card) => card.color \in Colors)
    BY CardsAssumption
  <2> QED
    BY <1>2, <2>1 DEF Named, LastCardIsTop, IsColorless
<1>4. order' \in {"Normal", "Reversed"}
  BY <1>1, <1>2 DEF RestOK, Opposite
<1>5. current' \in Players
  <2>1. Move(current, 1, order) \in Players
    BY <1>1, MoveIsASeat
  <2> QED
    BY <1>1, <1>2, <2>1, MoveIsASeat
<1>6. hands' \in [Players -> SUBSET Cards] /\ OneEmptyHand'
  BY DEF Located, Split, OneEmptyHand
<1>7. CASE card.value \in {Plus2, Plus4}
  <2>1. PICK q \in {2, 4} : /\ q = IF card.value = Plus2 THEN 2 ELSE 4
                            /\ ReadyDraw(q, FALSE, d, pile \cup {top})
    <3>1. Plus2 # Plus4
      BY DEF Plus2, Plus4
    <3>2. CASE card.value = Plus2
      <4>1. ReadyDraw(2, FALSE, d, pile \cup {top})
        BY <3>1, <3>2, Zenon DEF PlayCard
      <4> QED
        BY <3>2, <4>1
    <3>3. CASE card.value = Plus4
      <4>1. ReadyDraw(4, FALSE, d, pile \cup {top})
        BY <3>1, <3>3, Zenon DEF PlayCard
      <4> QED
        BY <3>1, <3>3, <4>1
    <3> QED
      BY <1>7, <3>2, <3>3
  <2>2. drawQty' = q /\ drawCanPlay' = FALSE /\ state' = "Drawing"
    BY <2>1 DEF ReadyDraw
  <2>3. Located(deck', pile', top', hands') /\ (Len(deck') < q => pile' = {})
    <3>1. IF Len(d) >= q THEN deck' = d /\ pile' = pile \cup {top}
          ELSE /\ \E under \in Shuffles(pile \cup {top}) : deck' = under \o d
               /\ pile' = {}
      BY <2>1 DEF ReadyDraw
    <3>2. q \in Nat
      OBVIOUS
    <3>3. Located(deck', pile', card, hands') /\ (Len(deck') < q => pile' = {})
      BY <3>1, <3>2, UnderDeck
    <3> QED
      BY <1>2, <3>3
  <2>4. N >= 2 => current' # current
    <3>1. current' = Move(current, 1, order')
      BY <1>2, <1>7 DEF SkipTurn, Plus2, Plus4
    <3> QED
      BY <1>1, <3>1, MoveAway
  <2>5. EmptyHandEndsGame'
    <3>1. N = 1 \/ N >= 2
      BY PlayersAssumption
    <3> QED
      BY <1>2, <1>7, <2>2, <2>4, <3>1 DEF EmptyHandEndsGame
  <2>6. ForcedByTop' /\ DrawIsServed'
    BY <1>2, <1>7, <2>1, <2>2, <2>3 DEF ForcedByTop, DrawIsServed
  <2>7. /\ score' \in Seq([Players -> [points : Points, won : BOOLEAN]])
        /\ OneWinner' /\ EveryGameScoredOnce'
    BY <1>1, <1>2, <1>6, <2>2, Scored
  <2> QED
    BY <1>1, <1>2, <1>3, <1>4, <1>5, <1>6, <2>2, <2>3, <2>5, <2>6, <2>7 DEF RestOK
<1>8. CASE card.value \notin {Plus2, Plus4}
  <2>1. NoDraw(d, pile \cup {top}) /\ state' = CheckForEnd("PlayOrDraw")
    BY <1>8 DEF PlayCard
  <2>2. deck' = d /\ pile' = pile \cup {top} /\ UNCHANGED drawVars
    BY <2>1 DEF NoDraw
  <2>3. /\ state' \in {"PlayOrDraw", "Finished"}
        /\ state' = "Finished" <=> \E p \in Players : hands'[p] = {}
    BY <2>1 DEF CheckForEnd
  <2>4. EmptyHandEndsGame' /\ ForcedByTop' /\ DrawIsServed'
    BY <2>3 DEF EmptyHandEndsGame, ForcedByTop, DrawIsServed
  <2>5. /\ score' \in Seq([Players -> [points : Points, won : BOOLEAN]])
        /\ OneWinner' /\ EveryGameScoredOnce'
    BY <1>1, <1>2, <1>6, <2>3, Scored
  <2> QED
    BY <1>1, <1>2, <1>3, <1>4, <1>5, <1>6, <2>2, <2>3, <2>4, <2>5 DEF RestOK, drawVars
<1> QED
  BY <1>7, <1>8

LEMMA PlayHandCardKeepsInv ==
    ASSUME IInv, NEW p \in Players, NEW card \in Cards, NEW color \in Colors,
           PlayHandCard(p, card, color)
    PROVE  IInv'
<1>1. /\ p = current /\ state \in {"Play", "PlayOrDraw"} /\ card \in hands[p]
      /\ hands' = [hands EXCEPT ![p] = @ \ {card}]
      /\ PlayCard(card, color, deck)
  BY DEF PlayHandCard
<1>2. Located(deck, pile, top, hands) /\ EmptyHandEndsGame
  BY InvParts DEF RestOK
<1>3. Located(deck, pile \cup {top}, card, hands')
  BY <1>1, <1>2, PlayedFromHand DEF Located
<1>4. \A q \in Players : hands[q] # {}
  BY <1>1, <1>2 DEF EmptyHandEndsGame
<1>5. \A q \in Players : hands'[q] = {} => q = current
  BY <1>1, <1>2, <1>4 DEF Located, Split
<1> QED
  BY <1>1, <1>3, <1>5, CardPlayed

LEMMA PlayDrawnCardKeepsInv ==
    ASSUME IInv, NEW p \in Players, NEW card \in Cards, NEW color \in Colors,
           PlayDrawnCard(p, card, color)
    PROVE  IInv'
<1> DEFINE left == SubSeq(deck, 1, Len(deck) - 1)
<1>1. /\ state \in {"PlayOrDraw", "Drawing"} /\ (state = "Drawing" => drawCanPlay)
      /\ DrawnCards = {card} /\ UNCHANGED hands
      /\ PlayCard(card, color, left)
  BY DEF PlayDrawnCard
<1>2. /\ Located(deck, pile, top, hands) /\ EmptyHandEndsGame
      /\ drawQty \in {0, 1, 2, 4}
  BY InvParts DEF RestOK
<1>3. Pack(deck, Range(deck)) /\ Len(deck) \in Nat /\ DrawnQty \in 0 .. Len(deck)
  BY <1>2 DEF Located, Pack, DrawnQty
<1>4. DrawnQty = 1
  <2>1. PICK k \in 0 .. Len(deck) : k = DrawnQty
    BY <1>3
  <2>2. Cardinality({deck[i] : i \in Len(deck) - k + 1 .. Len(deck)}) = k
    BY <1>3, PackWithoutTop
  <2>3. DrawnCards = {deck[i] : i \in Len(deck) - k + 1 .. Len(deck)}
    BY <2>1 DEF DrawnCards
  <2> QED
    BY <1>1, <2>1, <2>2, <2>3, FS_Singleton
<1>5. Pack(left, Range(deck) \ {card}) /\ card \in Range(deck)
  BY <1>1, <1>3, <1>4, PackWithoutTop DEF DrawnCards
<1>6. Located(left, pile \cup {top}, card, hands')
  <2>1. Split(Range(deck) \ {card}, pile \cup {top}, card, hands)
    BY <1>2, <1>5, PlayedFromDeck DEF Located
  <2>2. Range(left) = Range(deck) \ {card}
    BY <1>5 DEF Pack
  <2> QED
    BY <1>1, <1>5, <2>1, <2>2 DEF Located
<1>7. \A q \in Players : hands'[q] # {}
  BY <1>1, <1>2 DEF EmptyHandEndsGame
<1> HIDE DEF left
<1> QED
  BY <1>1, <1>6, <1>7, CardPlayed

LEMMA DrawKeepsInv ==
    ASSUME IInv, NEW p \in Players, Draw(p)
    PROVE  IInv'
<1>1. /\ state = "PlayOrDraw" /\ ReadyDraw(1, TRUE, deck, pile)
      /\ UNCHANGED <<top, hands, lastCard, current, order, startingPlayer, score>>
  BY DEF Draw, sessionVars
<1>2. Located(deck, pile, top, hands) /\ RestOK
  BY InvParts
<1>3. drawQty' = 1 /\ drawCanPlay' = TRUE /\ state' = "Drawing"
  BY <1>1 DEF ReadyDraw
<1>4. Located(deck', pile', top', hands') /\ (Len(deck') < 1 => pile' = {})
  <2>1. IF Len(deck) >= 1 THEN deck' = deck /\ pile' = pile
        ELSE /\ \E under \in Shuffles(pile) : deck' = under \o deck
             /\ pile' = {}
    BY <1>1 DEF ReadyDraw
  <2>2. Located(deck', pile', top, hands) /\ (Len(deck') < 1 => pile' = {})
    BY <1>2, <2>1, UnderDeck
  <2> QED
    BY <1>1, <2>2
<1>5. \A q \in Players : hands'[q] # {}
  BY <1>1, <1>2 DEF RestOK, EmptyHandEndsGame
<1>6. EmptyHandEndsGame' /\ OneEmptyHand' /\ ForcedByTop' /\ DrawIsServed'
  BY <1>3, <1>4, <1>5 DEF EmptyHandEndsGame, OneEmptyHand, ForcedByTop, DrawIsServed
<1>7. LastCardIsTop' /\ OneWinner' /\ EveryGameScoredOnce'
  BY <1>1, <1>2, <1>3 DEF RestOK, LastCardIsTop, OneWinner, EveryGameScoredOnce
<1> QED
  BY <1>1, <1>2, <1>3, <1>4, <1>6, <1>7, InvParts DEF RestOK

LEMMA DrawDoneKeepsInv ==
    ASSUME IInv, NEW p \in Players, NEW want \in BOOLEAN, DrawDone(p, want)
    PROVE  IInv'
<1>1. /\ p = current /\ state = "Drawing"
      /\ hands' = [hands EXCEPT ![p] = @ \cup DrawnCards]
      /\ deck' = SubSeq(deck, 1, Len(deck) - DrawnQty)
      /\ current' = IF want THEN current ELSE Move(current, 1, order)
      /\ state' = CheckForEnd(IF want THEN "Play" ELSE "PlayOrDraw")
      /\ UpdateScore
      /\ UNCHANGED <<pile, top, lastCard, order, drawQty, drawCanPlay, startingPlayer>>
  BY DEF DrawDone, drawVars
<1>2. Located(deck, pile, top, hands) /\ RestOK
  BY InvParts
<1>3. Pack(deck, Range(deck)) /\ Len(deck) \in Nat /\ DrawnQty \in 0 .. Len(deck)
  BY <1>2 DEF Located, Pack, DrawnQty, RestOK
<1>4. Pack(deck', Range(deck) \ DrawnCards) /\ DrawnCards \subseteq Range(deck)
  BY <1>1, <1>3, PackWithoutTop DEF DrawnCards
<1>5. Located(deck', pile', top', hands')
  <2>1. Range(deck') = Range(deck) \ DrawnCards
    BY <1>4 DEF Pack
  <2> HIDE DEF DrawnCards
  <2>2. Split(Range(deck) \ DrawnCards, pile, top, hands')
    BY <1>1, <1>2, <1>4, TakenIntoHand DEF Located
  <2> QED
    BY <1>1, <1>4, <2>1, <2>2 DEF Located
<1>6. \A q \in Players : hands[q] \subseteq hands'[q]
  BY <1>1, <1>2 DEF Located, Split
<1>7. hands' \in [Players -> SUBSET Cards] /\ OneEmptyHand'
  BY <1>2, <1>5, <1>6 DEF Located, Split, OneEmptyHand, RestOK
<1>8. /\ state' \in {"Play", "PlayOrDraw", "Finished"}
      /\ state' = "Finished" <=> \E q \in Players : hands'[q] = {}
  BY <1>1 DEF CheckForEnd
<1>9. current' \in Players
  <2>1. current \in Players /\ Move(current, 1, order) \in Players
    BY <1>2, MoveIsASeat DEF RestOK
  <2> QED
    BY <1>1, <2>1
<1>10. EmptyHandEndsGame' /\ ForcedByTop' /\ DrawIsServed' /\ LastCardIsTop'
  BY <1>1, <1>2, <1>8
     DEF EmptyHandEndsGame, ForcedByTop, DrawIsServed, LastCardIsTop, RestOK
<1>11. /\ score' \in Seq([Players -> [points : Points, won : BOOLEAN]])
       /\ OneWinner' /\ EveryGameScoredOnce'
  BY <1>1, <1>2, <1>7, <1>8, Scored
<1> QED
  BY <1>1, <1>2, <1>5, <1>7, <1>8, <1>9, <1>10, <1>11, InvParts DEF RestOK

(* The card turned over is one to follow, and it names a first player.       *)
LEMMA FirstCard ==
    ASSUME NEW card \in Cards, ~IsColorless(card), NEW s \in Players
    PROVE  /\ Face(card) \in [value : 0 .. 14, color : Colors]
           /\ FirstOrder(card) \in {"Normal", "Reversed"}
           /\ FirstPlayer(card, s) \in Players
<1>1. Face(card) \in [value : 0 .. 14, color : Colors]
  BY CardsAssumption DEF Face
<1>2. FirstPlayer(card, s) \in Players
  BY MoveIsASeat DEF FirstPlayer
<1> QED
  BY <1>1, <1>2 DEF FirstOrder

LEMMA NextGameKeepsInv ==
    ASSUME IInv, NextGame
    PROVE  IInv'
<1>1. PICK d \in Deals :
         /\ hands' = d.hands
         /\ top' = d.top
         /\ lastCard' = Face(d.top)
         /\ order' = FirstOrder(d.top)
         /\ current' = FirstPlayer(d.top, startingPlayer)
         /\ IF d.top.value = Plus2
            THEN ReadyDraw(2, FALSE, d.deck, d.pile)
            ELSE NoDraw(d.deck, d.pile) /\ state' = "PlayOrDraw"
  BY DEF NextGame
<1>2. /\ state = "Finished" /\ UNCHANGED score
      /\ startingPlayer' = Move(startingPlayer, 1, "Normal")
  BY DEF NextGame
<1>3. /\ Located(d.deck, d.pile, d.top, d.hands)
      /\ ~IsColorless(d.top)
      /\ \A q \in Players : d.hands[q] # {}
  BY FairDeal
<1>4. RestOK
  BY InvParts
<1>5. /\ lastCard' \in [value : 0 .. 14, color : Colors]
      /\ order' \in {"Normal", "Reversed"}
      /\ current' \in Players
      /\ LastCardIsTop'
  <2>1. d.top \in Cards /\ startingPlayer \in Players
    BY <1>3, <1>4 DEF Located, Split, RestOK
  <2> QED
    BY <1>1, <1>3, <2>1, FirstCard DEF LastCardIsTop, Face
<1>6. /\ Located(deck', pile', top', hands')
      /\ state' \in {"PlayOrDraw", "Drawing"}
      /\ drawQty' \in {0, 1, 2, 4} /\ drawCanPlay' \in BOOLEAN
      /\ state' = "Drawing" => /\ top'.value = Plus2 /\ drawQty' = 2
                               /\ Len(deck') < 2 => pile' = {}
  <2>1. CASE d.top.value = Plus2
    <3>1. /\ drawQty' = 2 /\ drawCanPlay' = FALSE /\ state' = "Drawing"
          /\ IF Len(d.deck) >= 2 THEN deck' = d.deck /\ pile' = d.pile
             ELSE /\ \E under \in Shuffles(d.pile) : deck' = under \o d.deck
                  /\ pile' = {}
      BY <1>1, <2>1 DEF ReadyDraw
    <3>2. Located(deck', pile', d.top, d.hands) /\ (Len(deck') < 2 => pile' = {})
      BY <1>3, <3>1, UnderDeck
    <3> QED
      BY <1>1, <2>1, <3>1, <3>2
  <2>2. CASE d.top.value # Plus2
    BY <1>1, <1>3, <1>4, <2>2 DEF NoDraw, drawVars, RestOK
  <2> QED
    BY <2>1, <2>2
<1>7. EmptyHandEndsGame' /\ OneEmptyHand' /\ ForcedByTop' /\ DrawIsServed'
  BY <1>1, <1>3, <1>6 DEF EmptyHandEndsGame, OneEmptyHand, ForcedByTop, DrawIsServed
<1>8. startingPlayer' \in Players
  BY <1>2, <1>4, MoveIsASeat DEF RestOK
<1>9. EveryGameScoredOnce'
  <2>1. Len(score) \in Nat /\ startingPlayer = Len(score) % N
    BY <1>2, <1>4 DEF RestOK, EveryGameScoredOnce
  <2>2. startingPlayer' = (Len(score) + 1) % N
    BY <1>2, <2>1, NextDeal
  <2> QED
    BY <1>2, <1>6, <2>2 DEF EveryGameScoredOnce
<1>10. /\ score' \in Seq([Players -> [points : Points, won : BOOLEAN]])
       /\ OneWinner'
  BY <1>2, <1>4 DEF RestOK, OneWinner
<1> QED
  BY <1>5, <1>6, <1>7, <1>8, <1>9, <1>10, InvParts DEF RestOK

LEMMA InitInv == Init => IInv
<1> SUFFICES ASSUME Init PROVE IInv
  OBVIOUS
<1>1. PICK d \in Deals :
         /\ hands = d.hands
         /\ top = d.top
         /\ lastCard = Face(d.top)
         /\ order = FirstOrder(d.top)
         /\ current = FirstPlayer(d.top, 0)
         /\ drawCanPlay = FALSE
         /\ IF d.top.value = Plus2
            THEN /\ drawQty = 2 /\ state = "Drawing"
                 /\ IF Len(d.deck) >= 2
                    THEN deck = d.deck /\ pile = d.pile
                    ELSE /\ \E under \in Shuffles(d.pile) : deck = under \o d.deck
                         /\ pile = {}
            ELSE drawQty = 0 /\ state = "PlayOrDraw" /\ deck = d.deck /\ pile = d.pile
  BY DEF Init
<1>2. startingPlayer = Move(0, 1, "Normal") /\ score = <<>>
  BY DEF Init
<1>3. /\ Located(d.deck, d.pile, d.top, d.hands)
      /\ ~IsColorless(d.top)
      /\ \A q \in Players : d.hands[q] # {}
  BY FairDeal
<1>4. 0 \in Players
  BY PlayersAssumption DEF Players
<1>5. /\ lastCard \in [value : 0 .. 14, color : Colors]
      /\ order \in {"Normal", "Reversed"}
      /\ current \in Players
      /\ LastCardIsTop
  <2>1. d.top \in Cards
    BY <1>3 DEF Located, Split
  <2> QED
    BY <1>1, <1>3, <1>4, <2>1, FirstCard DEF LastCardIsTop, Face
<1>6. /\ Located(deck, pile, top, hands)
      /\ state \in {"PlayOrDraw", "Drawing"}
      /\ drawQty \in {0, 2}
      /\ state = "Drawing" => /\ top.value = Plus2 /\ drawQty = 2
                              /\ Len(deck) < 2 => pile = {}
  <2>1. CASE d.top.value = Plus2
    <3>1. Located(deck, pile, d.top, d.hands) /\ (Len(deck) < 2 => pile = {})
      BY <1>1, <1>3, <2>1, UnderDeck
    <3> QED
      BY <1>1, <2>1, <3>1
  <2>2. CASE d.top.value # Plus2
    BY <1>1, <1>3, <2>2
  <2> QED
    BY <2>1, <2>2
<1>7. EmptyHandEndsGame /\ OneEmptyHand /\ ForcedByTop /\ DrawIsServed
  BY <1>1, <1>3, <1>6 DEF EmptyHandEndsGame, OneEmptyHand, ForcedByTop, DrawIsServed
<1>8. startingPlayer \in Players
  BY <1>2, <1>4, MoveIsASeat
<1>9. EveryGameScoredOnce
  <2>1. 0 % N = 0
    BY PlayersAssumption
  <2>2. Move(0, 1, "Normal") = (0 + 1) % N
    BY <2>1, NextDeal
  <2> QED
    BY <1>2, <1>6, <2>2 DEF EveryGameScoredOnce
<1>10. score \in Seq([Players -> [points : Points, won : BOOLEAN]]) /\ OneWinner
  BY <1>2 DEF OneWinner
<1> QED
  BY <1>1, <1>5, <1>6, <1>7, <1>8, <1>9, <1>10, InvParts DEF RestOK

LEMMA NextKeepsInv == IInv /\ [Next]_vars => IInv'
<1> SUFFICES ASSUME IInv, [Next]_vars PROVE IInv'
  OBVIOUS
<1>1. CASE \E p \in Players, c \in Cards, color \in Colors : PlayHandCard(p, c, color)
  BY <1>1, PlayHandCardKeepsInv
<1>2. CASE \E p \in Players, c \in Cards, color \in Colors : PlayDrawnCard(p, c, color)
  BY <1>2, PlayDrawnCardKeepsInv
<1>3. CASE \E p \in Players : Draw(p)
  BY <1>3, DrawKeepsInv
<1>4. CASE \E p \in Players, want \in BOOLEAN : DrawDone(p, want)
  BY <1>4, DrawDoneKeepsInv
<1>5. CASE NextGame
  BY <1>5, NextGameKeepsInv
<1>6. CASE UNCHANGED vars
  BY <1>6 DEF vars, IInv, TypeOK, CardsAreConserved, LastCardIsTop, EmptyHandEndsGame,
     OneEmptyHand, ForcedByTop, OneWinner, EveryGameScoredOnce, DrawIsServed
<1> QED
  BY <1>1, <1>2, <1>3, <1>4, <1>5, <1>6 DEF Next
-----------------------------------------------------------------------------
(* The inductive invariant of the rules engine holds in every game.          *)
THEOREM Invariance == Spec => []IInv
  BY InitInv, NextKeepsInv, PTL DEF Spec

(* The fields keep the types of their C++ declarations.                      *)
THEOREM TypeCorrect == Spec => []TypeOK
<1>1. IInv => TypeOK
  BY DEF IInv
<1> QED
  BY <1>1, Invariance, PTL

(* For any number of players and any deck, no card is lost or doubled.       *)
THEOREM NoCardLost == Spec => []CardsAreConserved
<1>1. IInv => CardsAreConserved
  BY DEF IInv
<1> QED
  BY <1>1, Invariance, PTL

(* A hand is empty only in a finished game, or while the last card played     *)
(* makes the next player draw.                                               *)
THEOREM GamesEnd == Spec => []EmptyHandEndsGame
<1>1. IInv => EmptyHandEndsGame
  BY DEF IInv
<1> QED
  BY <1>1, Invariance, PTL

(* The deck is short of a draw only when the pile could not help.            *)
THEOREM DrawsAreServed == Spec => []DrawIsServed
<1>1. IInv => DrawIsServed
  BY DEF IInv
<1> QED
  BY <1>1, Invariance, PTL

(* Each game in the score has exactly one winner.                            *)
THEOREM WinnersAreUnique == Spec => []OneWinner
<1>1. IInv => OneWinner
  BY DEF IInv
<1> QED
  BY <1>1, Invariance, PTL

(* The score has one line for each game that ended, whoever dealt it.        *)
THEOREM ScoresAreComplete == Spec => []EveryGameScoredOnce
<1>1. IInv => EveryGameScoredOnce
  BY DEF IInv
<1> QED
  BY <1>1, Invariance, PTL
-----------------------------------------------------------------------------
(* The cards drawn come on top of those in the hand: none of them was there. *)
LEMMA HandGrows ==
    ASSUME IInv, NEW p \in Players
    PROVE  /\ IsFiniteSet(hands[p]) /\ Cardinality(hands[p]) \in Nat
           /\ Cardinality(hands[p] \cup DrawnCards) = Cardinality(hands[p]) + DrawnQty
<1>1. Located(deck, pile, top, hands) /\ drawQty \in {0, 1, 2, 4}
  BY InvParts DEF RestOK
<1>2. Pack(deck, Range(deck)) /\ Len(deck) \in Nat /\ DrawnQty \in 0 .. Len(deck)
  BY <1>1 DEF Located, Pack, DrawnQty
<1>3. PICK k \in 0 .. Len(deck) : k = DrawnQty
  BY <1>2
<1> DEFINE T == {deck[i] : i \in Len(deck) - k + 1 .. Len(deck)}
<1>4. DrawnCards = T
  BY <1>3 DEF DrawnCards
<1>5. Cardinality(T) = k /\ T \subseteq Range(deck)
  BY <1>2, PackWithoutTop
<1> HIDE DEF T
<1>6. hands[p] \in SUBSET Cards /\ T \in SUBSET Cards /\ hands[p] \cap T = {}
  BY <1>1, <1>5 DEF Located, Split
<1>7. /\ IsFiniteSet(hands[p]) /\ IsFiniteSet(T)
      /\ Cardinality(hands[p]) \in Nat /\ Cardinality(hands[p] \cap T) = 0
  BY <1>6, CardsAreFinite, FS_EmptySet
<1>8. Cardinality(hands[p] \cup T)
        = Cardinality(hands[p]) + Cardinality(T) - Cardinality(hands[p] \cap T)
  BY <1>7, FS_Union
<1> QED
  BY <1>3, <1>4, <1>5, <1>7, <1>8

LEMMA ForcedStep ==
    ASSUME IInv, [Next]_vars, ~UNCHANGED vars, state = "Drawing", ~drawCanPlay
    PROVE  LET owed   == IF top.value = Plus2 THEN 2 ELSE 4
               served == IF owed <= Len(deck) THEN owed ELSE Len(deck)
           IN  /\ Cardinality(hands'[current]) = Cardinality(hands[current]) + served
               /\ hands[current] \subseteq hands'[current]
               /\ current' = Move(current, 1, order)
               /\ state' \in {"PlayOrDraw", "Finished"}
<1>1. PICK p \in Players : DrawDone(p, FALSE)
  <2>1. PICK p \in Players, want \in BOOLEAN : DrawDone(p, want)
    BY DEF Next, PlayHandCard, PlayDrawnCard, Draw, NextGame
  <2>2. want = FALSE
    BY <2>1 DEF DrawDone
  <2> QED
    BY <2>1, <2>2
<1>2. /\ p = current
      /\ hands' = [hands EXCEPT ![p] = @ \cup DrawnCards]
      /\ current' = Move(current, 1, order)
      /\ state' \in {"PlayOrDraw", "Finished"}
  BY <1>1 DEF DrawDone, CheckForEnd
<1>3. Located(deck, pile, top, hands) /\ RestOK
  BY InvParts
<1>4. hands'[p] = hands[p] \cup DrawnCards
  BY <1>2, <1>3 DEF Located, Split
<1>5. drawQty = IF top.value = Plus2 THEN 2 ELSE 4
  BY <1>3 DEF RestOK, ForcedByTop
<1>6. DrawnQty = IF drawQty <= Len(deck) THEN drawQty ELSE Len(deck)
  <2>1. Len(deck) \in Nat /\ drawQty \in Nat
    BY <1>3 DEF Located, Pack, RestOK
  <2> QED
    BY <2>1 DEF DrawnQty
<1>7. Cardinality(hands'[p]) = Cardinality(hands[p]) + DrawnQty
  BY <1>4, HandGrows
<1> QED
  BY <1>2, <1>4, <1>5, <1>6, <1>7

(* A +2 or a +4 is served in full, by its victim, before anything else.      *)
THEOREM ForcedDrawsAreTaken == Spec => ForcedDrawIsTaken
<1>1. IInv /\ [Next]_vars =>
        [state = "Drawing" /\ ~drawCanPlay =>
          LET owed   == IF top.value = Plus2 THEN 2 ELSE 4
              served == IF owed <= Len(deck) THEN owed ELSE Len(deck)
          IN  /\ Cardinality(hands'[current]) = Cardinality(hands[current]) + served
              /\ hands[current] \subseteq hands'[current]
              /\ current' = Move(current, 1, order)
              /\ state' \in {"PlayOrDraw", "Finished"}]_vars
  BY ForcedStep
<1> QED
  BY <1>1, Invariance, PTL DEF Spec, ForcedDrawIsTaken
-----------------------------------------------------------------------------
(* The players of the web client only ask what the rules engine accepts.     *)
LEMMA ClientInvariance == ClientSpec => []IInv
<1>1. ClientNext => Next
  BY DEF ClientNext, Next, ClientPlayDrawnCard, ClientDrawDone
<1>2. IInv /\ [ClientNext]_vars => IInv'
  BY <1>1, NextKeepsInv
<1> QED
  BY <1>2, InitInv, PTL DEF ClientSpec

(* A card of the hand can still be played when others join it, or one of     *)
(* those can.                                                                *)
LEMMA StillPlayable ==
    ASSUME NEW h \in SUBSET Cards, NEW T \in SUBSET Cards,
           NEW on, on.color \in Colors,
           \E c \in h : CanPlay(c, h, on)
    PROVE  \E c \in h \cup T : CanPlay(c, h \cup T, on)
<1>1. PICK c \in h : CanPlay(c, h, on)
  OBVIOUS
<1>2. CASE CanPlay(c, h \cup T, on)
  BY <1>2
<1>3. CASE ~CanPlay(c, h \cup T, on)
  <2>1. PICK e \in h \cup T : ~Same(e, c) /\ e.color = on.color
    BY <1>1, <1>3 DEF CanPlay
  <2>2. ~IsColorless(e)
    BY <2>1, CardsAssumption, ColorsAssumption
  <2> QED
    BY <2>1, <2>2 DEF CanPlay
<1> QED
  BY <1>2, <1>3

LEMMA PlayHasACardStep ==
    ASSUME IInv, IInv', PlayHasACard, [ClientNext]_vars
    PROVE  PlayHasACard'
<1> SUFFICES ASSUME state' = "Play"
             PROVE  \E c \in hands'[current'] : CanPlay(c, hands'[current'], lastCard')
  BY DEF PlayHasACard, CanPlay, Same, IsColorless
<1>1. CASE UNCHANGED vars
  BY <1>1 DEF vars, PlayHasACard
<1>2. CASE ClientNext
  <2>1. PICK p \in Players, want \in BOOLEAN : ClientDrawDone(p, want)
    BY <1>2 DEF ClientNext, ClientPlayDrawnCard, PlayHandCard, PlayDrawnCard, Draw, NextGame,
       PlayCard, ReadyDraw, CheckForEnd
  <2>2. /\ p = current /\ UNCHANGED lastCard
        /\ hands' = [hands EXCEPT ![p] = @ \cup DrawnCards]
        /\ current' = IF want THEN current ELSE Move(current, 1, order)
        /\ state' = CheckForEnd(IF want THEN "Play" ELSE "PlayOrDraw")
        /\ want => CanPlayHandCard
    BY <2>1 DEF ClientDrawDone, DrawDone
  <2>3. want /\ current' = current
    BY <2>2 DEF CheckForEnd
  <2>4. \E c \in hands[p] : CanPlay(c, hands[p], lastCard)
    BY <2>2, <2>3 DEF CanPlayHandCard
  <2>5. hands[p] \in SUBSET Cards /\ lastCard.color \in Colors
    BY DEF IInv, TypeOK
  <2>6. hands'[p] = hands[p] \cup DrawnCards
    BY <2>2 DEF IInv, TypeOK
  <2>7. DrawnCards \in SUBSET Cards
    <3>1. hands'[p] \in SUBSET Cards
      BY DEF IInv, TypeOK
    <3> QED
      BY <2>6, <3>1
  <2>8. \E c \in hands[p] \cup DrawnCards : CanPlay(c, hands[p] \cup DrawnCards, lastCard)
    BY <2>4, <2>5, <2>7, StillPlayable
  <2> QED
    BY <2>2, <2>3, <2>6, <2>8
<1> QED
  BY <1>1, <1>2

(* A player who said he would play another card than the one he drew can.    *)
THEOREM PlayersHaveACard == ClientSpec => []PlayHasACard
<1>1. Init => PlayHasACard
  BY DEF Init, PlayHasACard
<1>2. IInv /\ IInv' /\ PlayHasACard /\ [ClientNext]_vars => PlayHasACard'
  BY PlayHasACardStep
<1> QED
  BY <1>1, <1>2, ClientInvariance, PTL DEF ClientSpec

-----------------------------------------------------------------------------
(* The engine keeps the promise of UnoTable with three players or more.  With *)
(* two, a card that skips a turn lets the same player play again.             *)

(* With no draw in progress that the player asked for, nothing is offered.   *)
LEMMA NothingOffered ==
    /\ ~(state = "Drawing" /\ drawCanPlay) => Offer = {}
    /\ ~(state' = "Drawing" /\ drawCanPlay') => Offer' = {}
  BY DEF Offer, CanPlayDrawnCard, CanPlayHandCard

LEMMA PlayCardIsPlay ==
    ASSUME N >= 3, IInv, IInv', NEW card \in Cards, NEW color \in Colors, NEW d,
           PlayCard(card, color, d),
           \/ state \in {"Play", "PlayOrDraw"}
           \/ state = "Drawing" /\ "drawn" \in Offer
    PROVE  Table!Play(current)
<1>1. current \in Players /\ current' \in Players /\ N >= 2
  BY PlayersAssumption DEF IInv, TypeOK
<1>2. current' # current
  <2>1. /\ order' = IF card.value = Reverse THEN Opposite(order) ELSE order
        /\ current' = Move(IF card.value = SkipTurn THEN Move(current, 1, order) ELSE current,
                           1, order')
    BY DEF PlayCard
  <2>2. CASE card.value = SkipTurn
    <3>1. order' = order /\ current' = Move(Move(current, 1, order), 1, order)
      BY <2>1, <2>2 DEF SkipTurn, Reverse
    <3> QED
      BY <1>1, <3>1, MoveAway
  <2>3. CASE card.value # SkipTurn
    <3>1. current' = Move(current, 1, order')
      BY <2>1, <2>3
    <3> QED
      BY <1>1, <3>1, MoveAway
  <2> QED
    BY <2>2, <2>3
<1>3. /\ state' \in {"PlayOrDraw", "Drawing", "Finished"}
      /\ state' = "Drawing" => drawCanPlay' = FALSE
  BY DEF PlayCard, ReadyDraw, CheckForEnd
<1>4. Offer' = {}
  BY <1>3, NothingOffered
<1> QED
  BY <1>1, <1>2, <1>3, <1>4 DEF Table!Play, Table!NoDraw

LEMMA DrawIsDraw ==
    ASSUME NEW p \in Players, Draw(p)
    PROVE  Table!Draw(p)
<1>1. Offer' \in SUBSET {"drawn", "hand"}
  BY DEF Offer
<1> QED
  BY <1>1 DEF Draw, ReadyDraw, Table!Draw

LEMMA DrawDoneIsKeepOrPass ==
    ASSUME N >= 3, IInv, IInv', NEW p \in Players, NEW want \in BOOLEAN, DrawDone(p, want)
    PROVE  Table!KeepTurn(p) \/ Table!Pass(p)
<1>1. /\ p = current /\ state = "Drawing" /\ (want => drawCanPlay)
      /\ hands' = [hands EXCEPT ![p] = @ \cup DrawnCards]
      /\ current' = IF want THEN current ELSE Move(current, 1, order)
      /\ state' = CheckForEnd(IF want THEN "Play" ELSE "PlayOrDraw")
  BY DEF DrawDone
<1>2. drawCanPlay => state' = IF want THEN "Play" ELSE "PlayOrDraw"
  <2>1. SUFFICES ASSUME drawCanPlay
                 PROVE  \A q \in Players : hands'[q] # {}
    BY <1>1 DEF CheckForEnd
  <2>2. \A q \in Players : hands[q] # {}
    BY <1>1, <2>1 DEF IInv, EmptyHandEndsGame
  <2> QED
    BY <1>1, <2>2 DEF IInv, TypeOK
<1>3. state' \in {"Play", "PlayOrDraw", "Finished"} /\ Offer' = {}
  <2>1. state' \in {"Play", "PlayOrDraw", "Finished"}
    BY <1>1 DEF CheckForEnd
  <2> QED
    BY <2>1, NothingOffered
<1>4. CASE want
  BY <1>1, <1>2, <1>3, <1>4 DEF Table!KeepTurn, Table!NoDraw
<1>5. CASE ~want
  <2>1. current' \in Players /\ current' # current
    BY <1>1, <1>5, MoveAway DEF IInv, TypeOK
  <2>2. state' \in {"PlayOrDraw", "Finished"} /\ (state' = "Finished" => ~drawCanPlay)
    BY <1>1, <1>2, <1>5 DEF CheckForEnd
  <2> QED
    BY <1>1, <1>3, <2>1, <2>2 DEF Table!Pass, Table!NoDraw
<1> QED
  BY <1>4, <1>5

LEMMA StepIsAStep ==
    ASSUME N >= 3, IInv, IInv', [Next]_vars
    PROVE  [Table!Next]_(Table!tableVars)
<1>1. ASSUME NEW p \in Players, NEW c \in Cards, NEW color \in Colors,
             PlayHandCard(p, c, color)
      PROVE  Table!Play(p)
  BY <1>1, PlayCardIsPlay DEF PlayHandCard
<1>2. ASSUME NEW p \in Players, NEW c \in Cards, NEW color \in Colors,
             PlayDrawnCard(p, c, color)
      PROVE  Table!Play(p)
  <2>1. state = "Drawing" => "drawn" \in Offer
    BY <1>2 DEF PlayDrawnCard, Offer, CanPlayDrawnCard
  <2> QED
    BY <1>2, <2>1, PlayCardIsPlay DEF PlayDrawnCard
<1>3. ASSUME NextGame
      PROVE  Table!NextGame
  <2>1. state' \in {"PlayOrDraw", "Drawing"} /\ (state' = "Drawing" => drawCanPlay' = FALSE)
    BY <1>3 DEF NextGame, ReadyDraw
  <2>2. Offer' = {}
    BY <2>1, NothingOffered
  <2> QED
    BY <1>3, <2>1, <2>2 DEF NextGame, Table!NextGame, Table!NoDraw, IInv, TypeOK
<1>4. CASE UNCHANGED vars
  BY <1>4 DEF vars, Table!tableVars, Offer, CanPlayDrawnCard, CanPlayHandCard, CanPlay,
     DrawnCards, DrawnQty, Same, IsColorless
<1>5. CASE Next
  BY <1>1, <1>2, <1>3, <1>5, DrawIsDraw, DrawDoneIsKeepOrPass DEF Next, Table!Next
<1> QED
  BY <1>4, <1>5

(* With three players or more, the engine implements UnoTable.               *)
THEOREM EngineImplementsTable ==
    ASSUME N >= 3
    PROVE  Spec => ImplementsTable
<1>1. Init => Table!Init
  <2> SUFFICES ASSUME Init PROVE Table!Init
    OBVIOUS
  <2>1. IInv
    BY InitInv
  <2>2. state \in {"PlayOrDraw", "Drawing"} /\ drawCanPlay = FALSE
    BY DEF Init
  <2>3. Offer = {}
    BY <2>2, NothingOffered
  <2> QED
    BY <2>1, <2>2, <2>3 DEF Table!Init, IInv, TypeOK
<1>2. IInv /\ IInv' /\ [Next]_vars => [Table!Next]_(Table!tableVars)
  BY StepIsAStep
<1> QED
  BY <1>1, <1>2, Invariance, PTL DEF Spec, ImplementsTable, Table!Spec
-----------------------------------------------------------------------------
(* The messages of the lobby leave out nothing that a step of the engine     *)
(* changed: seen is who gets his hand, and tells whether the scores are sent. *)
LEMMA RefreshIsEnough ==
    ASSUME BoardsAreRight, NEW seen, NEW tells \in BOOLEAN, Refresh(seen, tells),
           \A p \in Players \ seen : hands'[p] = hands[p],
           tells \/ score' = score
    PROVE  BoardsAreRight'
<1> SUFFICES ASSUME NEW p \in Players PROVE told'[p] = Board(p)'
  BY DEF BoardsAreRight
<1>1. told[p] = [hand |-> hands[p], table |-> Shown, score |-> score]
  BY DEF BoardsAreRight, Board
<1>2. told'[p] =
        [hand  |-> IF p \in seen \/ (p = current' /\ state' \in {"Play", "PlayOrDraw"})
                   THEN hands'[p] ELSE told[p].hand,
         table |-> Shown',
         score |-> IF tells THEN score' ELSE told[p].score]
  BY DEF Refresh
<1>3. (IF p \in seen \/ (p = current' /\ state' \in {"Play", "PlayOrDraw"})
       THEN hands'[p] ELSE told[p].hand) = hands'[p]
  BY <1>1
<1>4. (IF tells THEN score' ELSE told[p].score) = score'
  BY <1>1
<1> QED
  BY <1>2, <1>3, <1>4 DEF Board

(* A step of a player changes no hand but his own, and scores when it ends.  *)
LEMMA OthersKeepTheirHands ==
    ASSUME IInv, NEW player \in Players,
           \/ \E c \in Cards, color \in Colors :
                 PlayHandCard(player, c, color) \/ PlayDrawnCard(player, c, color)
           \/ \E want \in BOOLEAN : DrawDone(player, want)
    PROVE  /\ \A p \in Players \ {player} : hands'[p] = hands[p]
           /\ state' = "Finished" \/ score' = score
<1>1. hands \in [Players -> SUBSET Cards]
  BY DEF IInv, TypeOK
<1>2. hands' = hands \/ \E h : hands' = [hands EXCEPT ![player] = h]
  BY DEF PlayHandCard, PlayDrawnCard, DrawDone
<1>3. UpdateScore
  BY DEF PlayHandCard, PlayDrawnCard, DrawDone, PlayCard
<1> QED
  BY <1>1, <1>2, <1>3 DEF UpdateScore

LEMMA BoardNextKeepsBoards ==
    ASSUME IInv, BoardsAreRight, [BoardNext]_boardVars
    PROVE  BoardsAreRight'
<1>1. CASE HandleNext
  <2>1. Refresh(Players, TRUE)
    BY <1>1 DEF HandleNext
  <2> QED
    BY <2>1, RefreshIsEnough
<1>2. ASSUME NEW p \in Players, HandlePlay(p)
      PROVE  BoardsAreRight'
  <2>1. Refresh({p}, state' = "Finished")
    BY <1>2 DEF HandlePlay
  <2>2. /\ \A q \in Players \ {p} : hands'[q] = hands[q]
        /\ state' = "Finished" \/ score' = score
    BY <1>2, OthersKeepTheirHands DEF HandlePlay
  <2> QED
    BY <2>1, <2>2, RefreshIsEnough
<1>3. ASSUME NEW p \in Players, HandleDraw(p)
      PROVE  BoardsAreRight'
  BY <1>3 DEF HandleDraw, Draw, BoardsAreRight, Board, Shown, sessionVars
<1>4. ASSUME NEW p \in Players, HandleDrawConfirm(p)
      PROVE  BoardsAreRight'
  <2>1. Refresh({p}, state' = "Finished")
    BY <1>4 DEF HandleDrawConfirm
  <2>2. /\ \A q \in Players \ {p} : hands'[q] = hands[q]
        /\ state' = "Finished" \/ score' = score
    BY <1>4, OthersKeepTheirHands DEF HandleDrawConfirm
  <2> QED
    BY <2>1, <2>2, RefreshIsEnough
<1>5. ASSUME NEW p \in Players, HandleOutOfStep(p)
      PROVE  BoardsAreRight'
  <2>1. Refresh({p}, FALSE) /\ hands' = hands /\ score' = score
    BY <1>5 DEF HandleOutOfStep, vars
  <2> QED
    BY <2>1, RefreshIsEnough
<1>6. CASE UNCHANGED boardVars
  BY <1>6 DEF boardVars, vars, BoardsAreRight, Board, Shown
<1> QED
  BY <1>1, <1>2, <1>3, <1>4, <1>5, <1>6 DEF BoardNext

(* What the lobby makes the engine do are steps of the engine.               *)
LEMMA BoardStepIsAStep == [BoardNext]_boardVars => [Next]_vars
<1> SUFFICES ASSUME [BoardNext]_boardVars PROVE [Next]_vars
  OBVIOUS
<1>1. ASSUME NEW p \in Players, HandlePlay(p) PROVE Next
  BY <1>1 DEF HandlePlay, Next
<1>2. ASSUME NEW p \in Players, HandleDraw(p) PROVE Next
  BY <1>2 DEF HandleDraw, Next
<1>3. ASSUME NEW p \in Players, HandleDrawConfirm(p) PROVE Next
  BY <1>3 DEF HandleDrawConfirm, Next
<1>4. ASSUME NEW p \in Players, HandleOutOfStep(p) PROVE UNCHANGED vars
  BY <1>4 DEF HandleOutOfStep
<1>5. ASSUME HandleNext PROVE Next
  BY <1>5 DEF HandleNext, Next
<1>6. CASE UNCHANGED boardVars
  BY <1>6 DEF boardVars
<1> QED
  BY <1>1, <1>2, <1>3, <1>4, <1>5, <1>6 DEF BoardNext

(* Each player's last view of the cards, the turn and the scores is how they  *)
(* are, although a message goes only to those it is thought to concern.       *)
THEOREM PlayersSeeTheGame == BoardSpec => []BoardsAreRight
<1>1. BoardInit => IInv /\ BoardsAreRight
  <2>1. BoardInit => IInv
    BY InitInv DEF BoardInit
  <2>2. BoardInit => BoardsAreRight
    BY DEF BoardInit, BoardsAreRight
  <2> QED
    BY <2>1, <2>2
<1>2. (IInv /\ BoardsAreRight) /\ [BoardNext]_boardVars => (IInv /\ BoardsAreRight)'
  BY NextKeepsInv, BoardStepIsAStep, BoardNextKeepsBoards
<1> QED
  BY <1>1, <1>2, PTL DEF BoardSpec
=============================================================================

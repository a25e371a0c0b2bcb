-------------------------- MODULE SignaturesProofs --------------------------
(***************************************************************************)
(* For words of any width: the operations on signatures are the operations  *)
(* on sets of component types, but for contains beyond the words that both  *)
(* have.                                                                   *)
(***************************************************************************)
EXTENDS Signatures, TLAPS

-----------------------------------------------------------------------------
(* The operations on one or two signatures.                                 *)

\* A component ID has a word and a bit in it.
LEMMA PositionType ==
  ASSUME NEW id \in ComponentIds
  PROVE  Position(id) \in (Nat \ {0}) \X Bits
<1>1. id \in Nat /\ Width \in Nat \ {0}
  BY SignatureAssumption
<1>2. id \div Width \in Nat /\ id % Width \in 0 .. Width - 1
  BY <1>1
<1> QED
  BY <1>2 DEF Position, Bits

\* What it is for a position to be set.
LEMMA InPositions ==
  ASSUME NEW sig \in AllSignatures, NEW p
  PROVE  p \in Positions(sig) <=>
           \E i \in 1 .. Len(sig) : \E b \in Bits : p = <<i, b>> /\ b \in sig[i]
BY DEF Positions, AllSignatures

Pairs == Nat \X Bits

\* A signature is a vector of words, known by its positions.
LEMMA SignatureIs ==
  ASSUME NEW sig \in AllSignatures
  PROVE  /\ Len(sig) \in Nat /\ DOMAIN sig = 1 .. Len(sig)
         /\ \A i \in 1 .. Len(sig) : sig[i] \subseteq Bits
         /\ Positions(sig) \subseteq Pairs
         /\ \A i \in Nat, b \in Bits :
              <<i, b>> \in Positions(sig) <=> i \in 1 .. Len(sig) /\ b \in sig[i]
<1>1. Len(sig) \in Nat /\ DOMAIN sig = 1 .. Len(sig)
  BY DEF AllSignatures
<1>2. \A i \in 1 .. Len(sig) : sig[i] \subseteq Bits
  BY DEF AllSignatures
<1>3. Positions(sig) \subseteq Pairs
  BY <1>1 DEF Positions, Pairs
<1>4. \A i \in Nat, b \in Bits :
        <<i, b>> \in Positions(sig) <=> i \in 1 .. Len(sig) /\ b \in sig[i]
  BY <1>1 DEF Positions
<1> QED
  BY <1>1, <1>2, <1>3, <1>4

\* A function on 1 .. n into words is a signature of n words.
LEMMA IsSignature ==
  ASSUME NEW n \in Nat, NEW sig, DOMAIN sig = 1 .. n,
         sig = [i \in 1 .. n |-> sig[i]], \A i \in 1 .. n : sig[i] \subseteq Bits
  PROVE  sig \in AllSignatures /\ Len(sig) = n
<1>1. sig \in [1 .. n -> SUBSET Bits]
  OBVIOUS
<1> QED
  BY <1>1 DEF AllSignatures

\* Two sets of positions with the same members are equal.
LEMMA SamePairs ==
  ASSUME NEW P \in SUBSET Pairs, NEW Q \in SUBSET Pairs,
         \A i \in Nat, b \in Bits : <<i, b>> \in P <=> <<i, b>> \in Q
  PROVE  P = Q
BY DEF Pairs

\* Vec::resize fills a signature up with empty words.
LEMMA ResizedType ==
  ASSUME NEW sig \in AllSignatures, NEW n \in Nat, Len(sig) <= n
  PROVE  /\ Resized(sig, n) \in AllSignatures
         /\ Len(Resized(sig, n)) = n
         /\ \A i \in 1 .. n : Resized(sig, n)[i] = IF i <= Len(sig) THEN sig[i] ELSE {}
BY DEF Resized, AllSignatures

\* set adds one position.
LEMMA SetBitPositions ==
  ASSUME NEW sig \in AllSignatures, NEW id \in ComponentIds
  PROVE  /\ SetBit(sig, id) \in AllSignatures
         /\ Positions(SetBit(sig, id)) = Positions(sig) \union {Position(id)}
<1> DEFINE at == Position(id)
           grown == IF at[1] > Len(sig) THEN Resized(sig, at[1]) ELSE sig
           new == SetBit(sig, id)
<1>1. at \in (Nat \ {0}) \X Bits
  BY PositionType
<1>2. /\ grown \in AllSignatures /\ at[1] \in 1 .. Len(grown)
      /\ Len(sig) <= Len(grown)
      /\ \A i \in 1 .. Len(grown) : grown[i] = IF i <= Len(sig) THEN sig[i] ELSE {}
  <2>1. CASE at[1] > Len(sig)
    BY <1>1, <2>1, ResizedType DEF AllSignatures
  <2>2. CASE ~(at[1] > Len(sig))
    BY <1>1, <2>2 DEF AllSignatures
  <2> QED
    BY <2>1, <2>2
<1>3. new = [grown EXCEPT ![at[1]] = grown[at[1]] \union {at[2]}]
  BY DEF SetBit
<1>4. /\ new = [i \in 1 .. Len(grown) |-> new[i]] /\ DOMAIN new = 1 .. Len(grown)
      /\ \A i \in 1 .. Len(grown) :
           new[i] = IF i = at[1] THEN grown[i] \union {at[2]} ELSE grown[i]
  <2> HIDE DEF at, grown, new
  <2>1. Len(grown) \in Nat /\ DOMAIN grown = 1 .. Len(grown)
    BY <1>2, SignatureIs
  <2> QED
    BY <1>2, <1>3, <2>1
<1>5. new \in AllSignatures /\ Len(new) = Len(grown)
  <2> HIDE DEF at, grown, new
  <2>1. \A i \in 1 .. Len(grown) : new[i] \subseteq Bits
    BY <1>1, <1>2, <1>4, SignatureIs
  <2> QED
    BY <1>2, <1>4, <2>1, SignatureIs, IsSignature
<1>6. at = <<at[1], at[2]>> /\ {at} \subseteq Pairs
  BY <1>1 DEF Pairs
<1>7. Positions(new) = Positions(sig) \union {at}
  <2> HIDE DEF at, grown, new
  <2>1. ASSUME NEW i \in Nat, NEW b \in Bits
        PROVE  <<i, b>> \in Positions(new) <=> <<i, b>> \in Positions(sig) \union {at}
    <3>1. <<i, b>> \in Positions(new) <=> i \in 1 .. Len(grown) /\ b \in new[i]
      BY <1>5, SignatureIs
    <3>2. <<i, b>> \in Positions(sig) <=> i \in 1 .. Len(sig) /\ b \in sig[i]
      BY SignatureIs
    <3>3. <<i, b>> = at <=> i = at[1] /\ b = at[2]
      BY <1>6
    <3>4. Len(sig) \in Nat /\ Len(grown) \in Nat
      BY <1>2, SignatureIs
    <3>5. CASE i \in 1 .. Len(grown)
      BY <1>2, <1>4, <3>1, <3>2, <3>3, <3>4, <3>5
    <3>6. CASE i \notin 1 .. Len(grown)
      BY <1>2, <3>1, <3>2, <3>3, <3>4, <3>6
    <3> QED
      BY <3>5, <3>6
  <2>2. Positions(new) \subseteq Pairs /\ Positions(sig) \subseteq Pairs
    BY <1>5, SignatureIs
  <2> QED
    BY <1>6, <2>1, <2>2, SamePairs
<1> QED
  BY <1>5, <1>7

\* union is the union.
LEMMA UnionPositions ==
  ASSUME NEW a \in AllSignatures, NEW b \in AllSignatures
  PROVE  /\ UnionOf(a, b) \in AllSignatures
         /\ Positions(UnionOf(a, b)) = Positions(a) \union Positions(b)
         /\ Len(UnionOf(a, b)) = LongerLen(a, b)
<1> DEFINE n == LongerLen(a, b)
           grown == Resized(a, n)
           new == UnionOf(a, b)
<1>1. /\ n \in Nat /\ Len(a) <= n /\ Len(b) <= n /\ (n = Len(a) \/ n = Len(b))
      /\ Len(a) \in Nat /\ Len(b) \in Nat
  BY SignatureIs DEF LongerLen
<1>2. new = [i \in DOMAIN grown |-> IF i \in DOMAIN b THEN grown[i] \union b[i] ELSE grown[i]]
  BY DEF UnionOf
<1>3. /\ grown \in AllSignatures /\ Len(grown) = n
      /\ \A i \in 1 .. n : grown[i] = IF i <= Len(a) THEN a[i] ELSE {}
  <2> HIDE DEF n
  <2> QED
    BY <1>1, ResizedType
<1> HIDE DEF n, grown, new
<1>4. DOMAIN grown = 1 .. n /\ DOMAIN b = 1 .. Len(b)
  BY <1>3, SignatureIs
<1>5. /\ new = [i \in 1 .. n |-> new[i]] /\ DOMAIN new = 1 .. n
      /\ \A i \in 1 .. n : new[i] = IF i <= Len(b) THEN grown[i] \union b[i] ELSE grown[i]
  <2>1. new = [i \in 1 .. n |-> IF i \in 1 .. Len(b) THEN grown[i] \union b[i] ELSE grown[i]]
    BY <1>2, <1>4
  <2>2. \A i \in 1 .. n : new[i] = IF i <= Len(b) THEN grown[i] \union b[i] ELSE grown[i]
    BY <1>1, <2>1
  <2> QED
    BY <2>1, <2>2
<1>6. new \in AllSignatures /\ Len(new) = n
  <2>1. \A i \in 1 .. n : grown[i] \subseteq Bits
    BY <1>3, SignatureIs
  <2>2. \A i \in 1 .. n : new[i] \subseteq Bits
    BY <1>1, <1>5, <2>1, SignatureIs
  <2> QED
    BY <1>1, <1>5, <2>2, IsSignature
<1>7. Positions(new) = Positions(a) \union Positions(b)
  <2>1. ASSUME NEW i \in Nat, NEW x \in Bits
        PROVE  <<i, x>> \in Positions(new) <=> <<i, x>> \in Positions(a) \union Positions(b)
    <3>1. <<i, x>> \in Positions(new) <=> i \in 1 .. n /\ x \in new[i]
      BY <1>6, SignatureIs
    <3>2. <<i, x>> \in Positions(a) <=> i \in 1 .. Len(a) /\ x \in a[i]
      BY SignatureIs
    <3>3. <<i, x>> \in Positions(b) <=> i \in 1 .. Len(b) /\ x \in b[i]
      BY SignatureIs
    <3>4. CASE i \in 1 .. n
      BY <1>1, <1>3, <1>5, <3>1, <3>2, <3>3, <3>4
    <3>5. CASE i \notin 1 .. n
      BY <1>1, <3>1, <3>2, <3>3, <3>5
    <3> QED
      BY <3>4, <3>5
  <2> DEFINE Q == Positions(a) \union Positions(b)
  <2>2. Positions(new) \in SUBSET Pairs /\ Q \in SUBSET Pairs
    BY <1>6, SignatureIs
  <2>3. \A i \in Nat, x \in Bits : <<i, x>> \in Positions(new) <=> <<i, x>> \in Q
    BY <2>1
  <2> HIDE DEF Q
  <2>4. Positions(new) = Q
    BY <2>2, <2>3, SamePairs
  <2> QED
    BY <2>4 DEF Q
<1> QED
  BY <1>6, <1>7 DEF n, new

\* remove is the difference.
LEMMA WithoutPositions ==
  ASSUME NEW a \in AllSignatures, NEW b \in AllSignatures
  PROVE  /\ Without(a, b) \in AllSignatures
         /\ Positions(Without(a, b)) = Positions(a) \ Positions(b)
<1> DEFINE new == Without(a, b)
<1>1. /\ Len(a) \in Nat /\ DOMAIN a = 1 .. Len(a)
      /\ Len(b) \in Nat /\ DOMAIN b = 1 .. Len(b)
  BY SignatureIs
<1>2. new = [i \in DOMAIN a |-> IF i \in DOMAIN b THEN a[i] \ b[i] ELSE a[i]]
  BY DEF Without
<1> HIDE DEF new
<1>3. /\ new = [i \in 1 .. Len(a) |-> new[i]] /\ DOMAIN new = 1 .. Len(a)
      /\ \A i \in 1 .. Len(a) : new[i] = IF i <= Len(b) THEN a[i] \ b[i] ELSE a[i]
  BY <1>1, <1>2
<1>4. new \in AllSignatures /\ Len(new) = Len(a)
  <2>1. \A i \in 1 .. Len(a) : new[i] \subseteq Bits
    BY <1>1, <1>3, SignatureIs
  <2> QED
    BY <1>1, <1>3, <2>1, IsSignature
<1>5. Positions(new) = Positions(a) \ Positions(b)
  <2>1. ASSUME NEW i \in Nat, NEW x \in Bits
        PROVE  <<i, x>> \in Positions(new) <=> <<i, x>> \in Positions(a) \ Positions(b)
    <3>1. <<i, x>> \in Positions(new) <=> i \in 1 .. Len(a) /\ x \in new[i]
      BY <1>4, SignatureIs
    <3>2. <<i, x>> \in Positions(a) <=> i \in 1 .. Len(a) /\ x \in a[i]
      BY SignatureIs
    <3>3. <<i, x>> \in Positions(b) <=> i \in 1 .. Len(b) /\ x \in b[i]
      BY SignatureIs
    <3> QED
      BY <1>1, <1>3, <3>1, <3>2, <3>3
  <2> DEFINE Q == Positions(a) \ Positions(b)
  <2>2. Positions(new) \in SUBSET Pairs /\ Q \in SUBSET Pairs
    BY <1>4, SignatureIs
  <2>3. \A i \in Nat, x \in Bits : <<i, x>> \in Positions(new) <=> <<i, x>> \in Q
    BY <2>1
  <2> HIDE DEF Q
  <2>4. Positions(new) = Q
    BY <2>2, <2>3, SamePairs
  <2> QED
    BY <2>4 DEF Q
<1> QED
  BY <1>4, <1>5 DEF new

\* is_disjoint is right.
LEMMA DisjointMeans ==
  ASSUME NEW a \in AllSignatures, NEW b \in AllSignatures
  PROVE  IsDisjoint(a, b) <=> Positions(a) \intersect Positions(b) = {}
<1>1. ASSUME IsDisjoint(a, b)
      PROVE  Positions(a) \intersect Positions(b) = {}
  BY <1>1, InPositions DEF IsDisjoint, AllSignatures
<1>2. ASSUME Positions(a) \intersect Positions(b) = {}
      PROVE  IsDisjoint(a, b)
  <2> SUFFICES ASSUME NEW i \in (DOMAIN a) \intersect DOMAIN b, NEW x \in a[i], x \in b[i]
               PROVE  FALSE
    BY DEF IsDisjoint
  <2>1. i \in 1 .. Len(a) /\ i \in 1 .. Len(b) /\ x \in Bits
    BY DEF AllSignatures
  <2>2. <<i, x>> \in Positions(a) /\ <<i, x>> \in Positions(b)
    BY <2>1, InPositions
  <2> QED
    BY <1>2, <2>2
<1> QED
  BY <1>1, <1>2

\* contains is right if no word of b is beyond those of a, and never wrong to refuse.
LEMMA ContainsMeans ==
  ASSUME NEW a \in AllSignatures, NEW b \in AllSignatures
  PROVE  /\ Positions(b) \subseteq Positions(a) => Contains(a, b)
         /\ Contains(a, b) /\ Len(b) <= Len(a) => Positions(b) \subseteq Positions(a)
<1>1. ASSUME Positions(b) \subseteq Positions(a)
      PROVE  Contains(a, b)
  <2> SUFFICES ASSUME NEW i \in (DOMAIN a) \intersect DOMAIN b, NEW x \in b[i]
               PROVE  x \in a[i]
    BY DEF Contains
  <2>1. i \in 1 .. Len(b) /\ x \in Bits
    BY DEF AllSignatures
  <2>2. <<i, x>> \in Positions(a)
    BY <1>1, <2>1, InPositions
  <2> QED
    BY <2>2, InPositions
<1>2. ASSUME Contains(a, b), Len(b) <= Len(a), NEW p \in Positions(b)
      PROVE  p \in Positions(a)
  BY <1>2, InPositions DEF Contains, AllSignatures
<1> QED
  BY <1>1, <1>2

-----------------------------------------------------------------------------
(* Signatures that set and union make: the last word has a bit.             *)

Trimmed(sig) == sig = <<>> \/ sig[Len(sig)] # {}

\* A signature without empty words at the end is no longer than one of the same set.
LEMMA TrimmedLen ==
  ASSUME NEW a \in AllSignatures, NEW b \in AllSignatures, Trimmed(a),
         Positions(a) = Positions(b)
  PROVE  Len(a) <= Len(b)
<1>1. Len(a) \in Nat /\ Len(b) \in Nat
  BY SignatureIs
<1>2. CASE a = <<>>
  BY <1>1, <1>2
<1>3. CASE Len(a) \in 1 .. Len(a) /\ a[Len(a)] # {}
  <2>1. PICK x \in a[Len(a)] : TRUE
    BY <1>3
  <2>2. x \in Bits
    BY <1>3, <2>1, SignatureIs
  <2>3. <<Len(a), x>> \in Positions(a)
    BY <1>1, <1>3, <2>1, <2>2, SignatureIs
  <2>4. <<Len(a), x>> \in Positions(b)
    BY <2>3
  <2>5. Len(a) \in 1 .. Len(b)
    BY <1>1, <2>2, <2>4, SignatureIs
  <2> QED
    BY <1>1, <2>5
<1>4. a # <<>> => Len(a) \in 1 .. Len(a)
  BY DEF AllSignatures
<1> QED
  BY <1>2, <1>3, <1>4 DEF Trimmed

\* Of those, only one has given component types.
LEMMA TrimmedSame ==
  ASSUME NEW a \in AllSignatures, NEW b \in AllSignatures, Trimmed(a), Trimmed(b),
         Positions(a) = Positions(b)
  PROVE  a = b
<1>1. Len(a) <= Len(b) /\ Len(b) <= Len(a)
  BY TrimmedLen
<1>2. Len(a) = Len(b) /\ Len(a) \in Nat
  BY <1>1, SignatureIs
<1>3. ASSUME NEW i \in 1 .. Len(a)
      PROVE  a[i] = b[i]
  <2>1. i \in Nat /\ i \in 1 .. Len(b)
    BY <1>2
  <2>2. a[i] \subseteq Bits /\ b[i] \subseteq Bits
    BY <2>1, SignatureIs
  <2>3. ASSUME NEW x \in Bits
        PROVE  x \in a[i] <=> x \in b[i]
    <3>1. <<i, x>> \in Positions(a) <=> x \in a[i]
      BY <2>1, SignatureIs
    <3>2. <<i, x>> \in Positions(b) <=> x \in b[i]
      BY <2>1, SignatureIs
    <3> QED
      BY <3>1, <3>2
  <2> QED
    BY <2>2, <2>3
<1> QED
  BY <1>2, <1>3 DEF AllSignatures

\* set leaves no empty word at the end.
LEMMA SetBitTrimmed ==
  ASSUME NEW sig \in AllSignatures, NEW id \in ComponentIds, Trimmed(sig)
  PROVE  Trimmed(SetBit(sig, id))
<1> DEFINE at == Position(id)
           new == SetBit(sig, id)
<1>1. new \in AllSignatures /\ Positions(new) = Positions(sig) \union {at}
  BY SetBitPositions
<1>2. at \in (Nat \ {0}) \X Bits
  BY PositionType
<1>3. Len(new) = IF at[1] > Len(sig) THEN at[1] ELSE Len(sig)
  <2>1. Len(sig) \in Nat /\ DOMAIN sig = 1 .. Len(sig)
    BY SignatureIs
  <2>2. CASE at[1] > Len(sig)
    <3>1. Resized(sig, at[1]) \in AllSignatures /\ Len(Resized(sig, at[1])) = at[1]
      BY <1>2, <2>1, <2>2, ResizedType
    <3>2. DOMAIN Resized(sig, at[1]) = 1 .. at[1]
      BY <3>1, SignatureIs
    <3>3. new = [Resized(sig, at[1]) EXCEPT ![at[1]] = Resized(sig, at[1])[at[1]] \union {at[2]}]
      BY <2>2 DEF SetBit
    <3>4. DOMAIN new = 1 .. at[1]
      BY <3>2, <3>3
    <3> QED
      BY <1>1, <1>2, <2>2, <3>4, SignatureIs
  <2>3. CASE ~(at[1] > Len(sig))
    <3>1. DOMAIN new = 1 .. Len(sig)
      BY <2>1, <2>3 DEF SetBit
    <3> QED
      BY <1>1, <2>1, <2>3, <3>1, SignatureIs
  <2> QED
    BY <2>2, <2>3
<1> HIDE DEF new, at
<1>4. Len(sig) \in Nat /\ at = <<at[1], at[2]>> /\ at \in Positions(new)
  BY <1>1, <1>2, SignatureIs
<1>5. ASSUME at[1] > Len(sig)
      PROVE  Trimmed(new)
  <2>1. <<at[1], at[2]>> \in Positions(new)
    BY <1>4
  <2>2. at[2] \in new[at[1]]
    BY <1>1, <1>2, <2>1, SignatureIs
  <2> QED
    BY <1>3, <1>5, <2>2 DEF Trimmed
<1>6. ASSUME ~(at[1] > Len(sig))
      PROVE  Trimmed(new)
  <2>1. Len(sig) \in 1 .. Len(sig) /\ sig # <<>>
    BY <1>2, <1>4, <1>6
  <2>2. PICK x \in sig[Len(sig)] : x \in Bits
    BY <2>1, SignatureIs DEF Trimmed
  <2>3. <<Len(sig), x>> \in Positions(sig)
    BY <1>4, <2>1, <2>2, SignatureIs
  <2>4. <<Len(sig), x>> \in Positions(new)
    BY <1>1, <2>3
  <2>5. x \in new[Len(sig)]
    BY <1>1, <1>4, <2>2, <2>4, SignatureIs
  <2> QED
    BY <1>3, <1>6, <2>5 DEF Trimmed
<1> QED
  BY <1>5, <1>6 DEF new

\* Nor does union.
LEMMA UnionTrimmed ==
  ASSUME NEW a \in AllSignatures, NEW b \in AllSignatures, Trimmed(a), Trimmed(b)
  PROVE  Trimmed(UnionOf(a, b))
<1> DEFINE new == UnionOf(a, b)
<1>1. /\ new \in AllSignatures /\ Positions(new) = Positions(a) \union Positions(b)
      /\ Len(new) = LongerLen(a, b)
  BY UnionPositions
<1> HIDE DEF new
<1>2. Len(a) \in Nat /\ Len(b) \in Nat /\ Len(new) \in Nat
  BY <1>1, SignatureIs
<1>3. ASSUME NEW c \in {a, b}, Len(new) = Len(c), Len(c) # 0
      PROVE  Trimmed(new)
  <2>1. c \in AllSignatures /\ Len(c) \in 1 .. Len(c) /\ c # <<>> /\ Trimmed(c)
    BY <1>2, <1>3
  <2>2. PICK x \in c[Len(c)] : x \in Bits
    BY <2>1, SignatureIs DEF Trimmed
  <2>3. <<Len(c), x>> \in Positions(c)
    BY <2>1, <2>2, SignatureIs
  <2>4. <<Len(new), x>> \in Positions(new)
    BY <1>1, <1>3, <2>3
  <2>5. x \in new[Len(new)]
    BY <1>1, <1>2, <2>2, <2>4, SignatureIs
  <2> QED
    BY <2>5 DEF Trimmed
<1>4. ASSUME Len(new) = 0
      PROVE  Trimmed(new)
  <2>1. new = <<>>
    BY <1>1, <1>4 DEF AllSignatures
  <2> QED
    BY <2>1 DEF Trimmed
<1>5. Len(new) = Len(a) \/ Len(new) = Len(b)
  BY <1>1 DEF LongerLen
<1> QED
  BY <1>3, <1>4, <1>5 DEF new

-----------------------------------------------------------------------------
(* The machine.                                                             *)

\* The tables have different signatures.
Distinct == \A i, j \in DOMAIN tables : tables[i] = tables[j] => i = j

\* Until a removal all signatures are trimmed.
TrimmedUntilRemoval == ~removed => \A sig \in Keys : Trimmed(sig)

IInv == TypeOK /\ Trimmed(bundle) /\ Distinct /\ TrimmedUntilRemoval

\* The signature of no types has no words.
LEMMA EmptySignature == <<>> \in AllSignatures /\ Positions(<<>>) = {}
BY DEF AllSignatures, Positions

\* The signatures of the tables.
LEMMA KeysType ==
  ASSUME TypeOK
  PROVE  Keys \subseteq AllSignatures
BY DEF TypeOK, Keys

\* Looking a table up, or adding it, keeps the tables distinct.
LEMMA UseKeeps ==
  ASSUME TypeOK, Distinct, NEW sig \in AllSignatures, Use(sig)
  PROVE  /\ tables' \in Seq(AllSignatures) /\ bundle' = <<>>
         /\ Distinct' /\ Keys' = Keys \union {sig}
<1>1. tables \in Seq(AllSignatures)
  BY DEF TypeOK
<1>2. CASE sig \in Keys
  <2>1. tables' = tables
    BY <1>2 DEF Use
  <2> QED
    BY <1>1, <1>2, <2>1 DEF Use, Distinct, Keys
<1>3. CASE sig \notin Keys
  <2>1. tables' = Append(tables, sig)
    BY <1>3 DEF Use
  <2>2. /\ tables' \in Seq(AllSignatures) /\ Len(tables) \in Nat
        /\ DOMAIN tables = 1 .. Len(tables) /\ DOMAIN tables' = 1 .. Len(tables) + 1
        /\ \A k \in 1 .. Len(tables) : tables'[k] = tables[k]
        /\ tables'[Len(tables) + 1] = sig
    BY <1>1, <2>1
  <2>3. \A k \in 1 .. Len(tables) : tables[k] # sig
    BY <1>3, <2>2 DEF Keys
  <2>4. Distinct'
    BY <2>2, <2>3 DEF Distinct
  <2>5. Keys' = Keys \union {sig}
    BY <2>2 DEF Keys
  <2> QED
    BY <2>2, <2>4, <2>5 DEF Use
<1> QED
  BY <1>2, <1>3

\* Every operation is a bit that is set, a refusal, or the use of a signature, which is
\* trimmed if it comes from set and union.
LEMMA StepUses ==
  ASSUME IInv, Next
  PROVE  \/ \E id \in ComponentIds : AddType(id)
         \/ bundle' = <<>> /\ UNCHANGED <<tables, removed>>
         \/ \E sig \in AllSignatures :
              Use(sig) /\ (~removed' => ~removed /\ Trimmed(sig))
<1> USE DEF IInv
<1>1. Keys \subseteq AllSignatures /\ bundle \in AllSignatures
  BY KeysType DEF TypeOK
<1>2. CASE Spawn
  BY <1>1, <1>2 DEF Spawn
<1>3. ASSUME NEW sig \in Keys, Insert(sig)
      PROVE  \E new \in AllSignatures :
               Use(new) /\ (~removed' => ~removed /\ Trimmed(new))
  <2>1. Use(UnionOf(bundle, sig)) /\ removed' = removed
    BY <1>3 DEF Insert
  <2>2. UnionOf(bundle, sig) \in AllSignatures
    BY <1>1, UnionPositions
  <2>3. ~removed => Trimmed(UnionOf(bundle, sig))
    BY <1>1, UnionTrimmed DEF TrimmedUntilRemoval
  <2> QED
    BY <2>1, <2>2, <2>3
<1>4. ASSUME NEW sig \in Keys, Remove(sig)
      PROVE  \/ bundle' = <<>> /\ UNCHANGED <<tables, removed>>
             \/ \E new \in AllSignatures :
                  Use(new) /\ (~removed' => ~removed /\ Trimmed(new))
  <2>1. Without(sig, bundle) \in AllSignatures
    BY <1>1, WithoutPositions
  <2> QED
    BY <1>4, <2>1 DEF Remove
<1> QED
  BY <1>2, <1>3, <1>4 DEF Next

\* The invariant holds throughout.
LEMMA InvariantHolds == Spec => []IInv
<1>1. ASSUME Init
      PROVE  IInv
  <2>1. tables \in Seq(AllSignatures) /\ DOMAIN tables = {} /\ Keys = {}
    BY <1>1 DEF Init, Keys
  <2> QED
    BY <1>1, <2>1, EmptySignature
    DEF Init, IInv, TypeOK, Trimmed, Distinct, TrimmedUntilRemoval
<1>2. ASSUME IInv, [Next]_vars
      PROVE  IInv'
  <2>1. ASSUME NEW id \in ComponentIds, AddType(id)
        PROVE  IInv'
    <3>1. SetBit(bundle, id) \in AllSignatures /\ Trimmed(SetBit(bundle, id))
      BY <1>2, SetBitPositions, SetBitTrimmed DEF IInv, TypeOK
    <3>2. bundle' \in AllSignatures /\ Trimmed(bundle') /\ UNCHANGED <<tables, removed>>
      BY <2>1, <3>1 DEF AddType
    <3> QED
      BY <1>2, <3>2 DEF IInv, TypeOK, Distinct, TrimmedUntilRemoval, Keys
  <2>2. CASE bundle' = <<>> /\ UNCHANGED <<tables, removed>>
    <3>1. Trimmed(bundle') /\ bundle' \in AllSignatures
      BY <2>2, EmptySignature DEF Trimmed
    <3> QED
      BY <1>2, <2>2, <3>1 DEF IInv, TypeOK, Distinct, TrimmedUntilRemoval, Keys
  <2>3. ASSUME NEW sig \in AllSignatures, Use(sig), Next,
               ~removed' => ~removed /\ Trimmed(sig)
        PROVE  IInv'
    <3>1. /\ tables' \in Seq(AllSignatures) /\ bundle' = <<>>
          /\ Distinct' /\ Keys' = Keys \union {sig}
      BY <1>2, <2>3, UseKeeps DEF IInv
    <3>2. removed' \in BOOLEAN
      BY <1>2, <2>3 DEF Next, AddType, Spawn, Insert, Remove, IInv, TypeOK
    <3>3. Trimmed(bundle)' /\ bundle' \in AllSignatures
      BY <3>1 DEF Trimmed, AllSignatures
    <3>4. TrimmedUntilRemoval'
      BY <1>2, <2>3, <3>1 DEF IInv, TrimmedUntilRemoval
    <3> QED
      BY <3>1, <3>2, <3>3, <3>4 DEF IInv, TypeOK
  <2>4. CASE UNCHANGED vars
    BY <1>2, <2>4 DEF vars, IInv, TypeOK, Trimmed, Distinct, TrimmedUntilRemoval, Keys
  <2> QED
    BY <1>2, <2>1, <2>2, <2>3, <2>4, StepUses
<1> QED
  BY <1>1, <1>2, PTL DEF Spec

\* Signatures stay sequences of words.
THEOREM TypeCorrect == Spec => []TypeOK
<1>1. IInv => TypeOK
  BY DEF IInv
<1> QED
  BY <1>1, InvariantHolds, PTL

\* contains errs only by ignoring the words that a bundle has beyond the table's.
THEOREM ContainsOnlyErrsBeyondWords == Spec => []ContainsErrsBeyondWords
<1>1. ASSUME IInv
      PROVE  ContainsErrsBeyondWords
  <2> SUFFICES ASSUME NEW sig \in Keys,
                      Contains(sig, bundle) # (Positions(bundle) \subseteq Positions(sig))
               PROVE  Len(bundle) > Len(sig) /\ Contains(sig, bundle)
    BY DEF ContainsErrsBeyondWords
  <2>1. sig \in AllSignatures /\ bundle \in AllSignatures
    BY <1>1, KeysType DEF IInv, TypeOK
  <2>2. /\ Positions(bundle) \subseteq Positions(sig) => Contains(sig, bundle)
        /\ Contains(sig, bundle) /\ Len(bundle) <= Len(sig) =>
             Positions(bundle) \subseteq Positions(sig)
    BY <2>1, ContainsMeans
  <2>3. Contains(sig, bundle) \in BOOLEAN
    BY DEF Contains
  <2>4. Contains(sig, bundle) /\ ~(Positions(bundle) \subseteq Positions(sig))
    BY <2>2, <2>3
  <2>5. Len(bundle) \in Nat /\ Len(sig) \in Nat
    BY <2>1, SignatureIs
  <2> QED
    BY <2>2, <2>4, <2>5
<1> QED
  BY <1>1, InvariantHolds, PTL

\* is_disjoint is right about every two signatures.
THEOREM DisjointIsExact == Spec => []DisjointExact
<1>1. ASSUME IInv
      PROVE  DisjointExact
  BY <1>1, KeysType, DisjointMeans DEF IInv, TypeOK, DisjointExact
<1> QED
  BY <1>1, InvariantHolds, PTL

\* An archetype has two tables only after a removal.
THEOREM OneTablePerArchetype == Spec => []OneTableUntilRemoval
<1>1. ASSUME IInv
      PROVE  OneTableUntilRemoval
  <2> SUFFICES ASSUME NEW i \in DOMAIN tables, NEW j \in DOMAIN tables, i # j,
                      Positions(tables[i]) = Positions(tables[j]), ~removed
               PROVE  FALSE
    BY <1>1 DEF OneTableUntilRemoval, IInv, TypeOK
  <2>1. tables[i] \in AllSignatures /\ tables[j] \in AllSignatures
    BY <1>1 DEF IInv, TypeOK
  <2>2. Trimmed(tables[i]) /\ Trimmed(tables[j])
    BY <1>1 DEF IInv, TrimmedUntilRemoval, Keys
  <2>3. tables[i] = tables[j]
    BY <2>1, <2>2, TrimmedSame
  <2> QED
    BY <1>1, <2>3 DEF IInv, Distinct
<1> QED
  BY <1>1, InvariantHolds, PTL

-----------------------------------------------------------------------------
(* The refinement of ComponentSets.                                         *)

Archetypes == {Positions(sig) : sig \in Keys}

\* Looking up or adding by words is looking up or adding by sets.
LEMMA UseIsUse ==
  ASSUME TypeOK, Distinct, NEW sig \in AllSignatures, Use(sig)
  PROVE  Promise!Use(Positions(sig))
<1>1. bundle' = <<>> /\ Keys' = Keys \union {sig}
  BY UseKeeps
<1>2. Archetypes' = Archetypes \union {Positions(sig)}
  BY <1>1 DEF Archetypes
<1>3. Positions(bundle)' = {}
  BY <1>1, EmptySignature
<1> QED
  BY <1>2, <1>3 DEF Promise!Use, Archetypes

\* A step is one on sets, or the removal of a bundle that contains misjudges.
LEMMA StepOnSets ==
  ASSUME IInv, Next
  PROVE  (\E sig \in Keys : RemovesPart(sig)) \/ Promise!Next
<1> USE DEF IInv
<1>1. Keys \subseteq AllSignatures /\ bundle \in AllSignatures
  BY KeysType DEF TypeOK
<1>2. ASSUME NEW id \in ComponentIds, AddType(id)
      PROVE  Promise!Next
  <2>1. Positions(bundle)' = Positions(bundle) \union {Position(id)}
    BY <1>1, <1>2, SetBitPositions DEF AddType
  <2>2. UNCHANGED Keys
    BY <1>2 DEF AddType, Keys
  <2>3. Promise!AddType(Position(id))
    BY <2>1, <2>2 DEF Promise!AddType
  <2> QED
    BY <2>3 DEF Promise!Next
<1>3. CASE Spawn
  BY <1>1, <1>3, UseIsUse DEF Spawn, Promise!Spawn, Promise!Next
<1>4. ASSUME NEW sig \in Keys, Insert(sig)
      PROVE  Promise!Next
  <2>1. \/ Positions(bundle) \intersect Positions(sig) = {}
        \/ Positions(UnionOf(bundle, sig)) \in Archetypes
    BY <1>1, <1>4, DisjointMeans DEF Insert, Archetypes
  <2>2. /\ UnionOf(bundle, sig) \in AllSignatures
        /\ Positions(UnionOf(bundle, sig)) = Positions(sig) \union Positions(bundle)
    BY <1>1, UnionPositions
  <2>3. Promise!Use(Positions(sig) \union Positions(bundle))
    BY <1>4, <2>2, UseIsUse DEF Insert
  <2>4. Promise!Insert(Positions(sig))
    BY <2>1, <2>2, <2>3 DEF Promise!Insert, Archetypes
  <2> QED
    BY <2>4 DEF Promise!Next
<1>5. ASSUME NEW sig \in Keys, Remove(sig)
      PROVE  RemovesPart(sig) \/ Promise!Next
  <2>1. CASE Contains(sig, bundle) /\ Use(Without(sig, bundle))
    <3>1. /\ Without(sig, bundle) \in AllSignatures
          /\ Positions(Without(sig, bundle)) = Positions(sig) \ Positions(bundle)
      BY <1>1, WithoutPositions
    <3>2. Promise!Use(Positions(sig) \ Positions(bundle))
      BY <2>1, <3>1, UseIsUse
    <3>3. CASE Positions(bundle) \subseteq Positions(sig)
      <4>1. Promise!Remove(Positions(sig))
        BY <3>2, <3>3 DEF Promise!Remove
      <4> QED
        BY <4>1 DEF Promise!Next
    <3>4. CASE ~(Positions(bundle) \subseteq Positions(sig))
      BY <1>5, <2>1, <3>2, <3>4 DEF RemovesPart, Misjudged
    <3> QED
      BY <3>3, <3>4
  <2>2. CASE ~Contains(sig, bundle) /\ bundle' = <<>> /\ UNCHANGED <<tables, removed>>
    <3>1. ~(Positions(bundle) \subseteq Positions(sig))
      BY <1>1, <2>2, ContainsMeans
    <3>2. Positions(bundle)' = {} /\ UNCHANGED Keys
      BY <2>2, EmptySignature DEF Keys
    <3>3. Promise!Refuse(Positions(sig))
      BY <3>1, <3>2 DEF Promise!Refuse
    <3> QED
      BY <3>3 DEF Promise!Next
  <2> QED
    BY <1>5, <2>1, <2>2 DEF Remove
<1> QED
  BY <1>2, <1>3, <1>4, <1>5 DEF Next

\* The operations on signatures are those on sets, however many words they have; a
\* removal that contains misjudges takes away what the table has of the bundle.
THEOREM OperationsActOnSets == Spec => ActsOnSets
<1>1. ASSUME Init
      PROVE  Promise!Init
  <2>1. Keys = {}
    BY <1>1 DEF Init, Keys
  <2> QED
    BY <1>1, <2>1, EmptySignature DEF Init, Promise!Init
<1>2. ASSUME IInv, [Next]_vars
      PROVE  [(\E sig \in Keys : RemovesPart(sig)) \/ Promise!Next]_<<Promise!vars, vars>>
  <2>1. CASE UNCHANGED vars
    BY <2>1 DEF vars, Promise!vars, Keys, Positions
  <2> QED
    BY <1>2, <2>1, StepOnSets
<1> QED
  BY <1>1, <1>2, InvariantHolds, PTL DEF Spec, ActsOnSets

=============================================================================

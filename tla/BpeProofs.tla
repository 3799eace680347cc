----------------------------- MODULE BpeProofs ------------------------------
(***************************************************************************)
(* Proofs about byte-pair encoding: the linked list and the heap of        *)
(* bpe_encode_pretoken stay consistent, and implement BestPair, for every  *)
(* pretoken, list of rules and vocabulary; so the tokens tile the pretoken *)
(* and, on lists a trainer can produce, are those of the reference loop.   *)
(***************************************************************************)
EXTENDS Bpe, SequenceTheorems, FiniteSetTheorems, TLAPS

-----------------------------------------------------------------------------
(* A set of natural numbers has a least member.                            *)
LEMMA LeastNat ==
  ASSUME NEW S \in SUBSET Nat, S # {}
  PROVE  \E x \in S : \A y \in S : x <= y
<1>1. PICK x \in S : \A y \in S : ~ (<<y, x>> \in OpToRel(<, Nat))
  BY NatLessThanWellFounded, WFMin
<1>2. \A y \in S : ~ (y < x)
  BY <1>1 DEF OpToRel
<1> QED
  BY <1>2

(* Induction: a set closed under successor is everything.                  *)
LEMMA Induct ==
  ASSUME NEW S \in SUBSET Nat, 0 \in S, \A n \in S : n + 1 \in S
  PROVE  S = Nat
<1> SUFFICES ASSUME Nat \ S # {} PROVE FALSE
  OBVIOUS
<1>1. PICK x \in Nat \ S : \A y \in Nat \ S : x <= y
  BY LeastNat
<1>2. x - 1 \in Nat /\ x - 1 \notin Nat \ S
  BY <1>1
<1> QED
  BY <1>1, <1>2

-----------------------------------------------------------------------------
(* A set of ranks has a lowest.                                            *)
LEMMA RankFacts ==
  ASSUME DOMAIN merges \in SUBSET Nat, NEW x, NEW y, Ranked(x, y) # {}
  PROVE  /\ Rank(x, y) \in DOMAIN merges
         /\ Rank(x, y) \in Ranked(x, y)
         /\ \A other \in Ranked(x, y) : Rank(x, y) <= other
<1>1. Ranked(x, y) \in SUBSET Nat
  BY DEF Ranked
<1>2. \E r \in Ranked(x, y) : \A other \in Ranked(x, y) : r <= other
  BY <1>1, LeastNat
<1>3. Rank(x, y) \in Ranked(x, y) /\ \A other \in Ranked(x, y) : Rank(x, y) <= other
  BY <1>2 DEF Rank
<1> QED
  BY <1>3 DEF Ranked

-----------------------------------------------------------------------------
(***************************************************************************)
(* The inductive invariant.  A symbol never moves, so the length an entry  *)
(* of the heap recorded, with the places of its two symbols, fixes the two *)
(* texts it was ranked for: an entry that passes the three tests when it   *)
(* is popped is ranked for the texts the symbols have then.                *)
(***************************************************************************)
Symbol == [offset : Index, length : 0 .. Len(text),
           prev : Index \cup {None}, next : Index \cup {None}]

Inputs ==
  /\ Len(text) \in Nat \ {0}
  /\ DOMAIN merges \in SUBSET Nat

ListTypes(syms) ==
  /\ syms \in [Index -> Symbol]
  /\ \A k \in Index : syms[k].offset = k

LiveIn(syms) == {k \in Index : syms[k].length > 0}

Linked(syms) ==
  \A k \in LiveIn(syms) :
    /\ k + syms[k].length =
         IF syms[k].next = None THEN Len(text) ELSE syms[k].next
    /\ syms[k].next # None => /\ syms[k].next \in LiveIn(syms)
                              /\ syms[syms[k].next].prev = k
    /\ syms[k].prev # None => /\ syms[k].prev \in LiveIn(syms)
                              /\ syms[syms[k].prev].next = k

List(syms) == ListTypes(syms) /\ Linked(syms)

Between(from, to) == SubSeq(text, from + 1, to)

Entry(left, right, end) ==
  [left |-> left, right |-> right,
   rank |-> Rank(Between(left, right), Between(right, end)),
   mergedLength |-> end - left]

Entries ==
  {Entry(p[1], p[2], p[3]) : p \in
     {q \in Index \X Index \X (0 .. Len(text)) :
        /\ q[1] < q[2] /\ q[2] < q[3]
        /\ Ranked(Between(q[1], q[2]), Between(q[2], q[3])) # {}}}

(* Every pair that has a rank is queued.                                   *)
Queued(syms, entries) ==
  \A k \in LiveIn(syms) : PairOf(syms, k, syms[k].next) \subseteq entries

IInv ==
  /\ Inputs
  /\ symbols = <<>> \/ List(symbols)
  /\ phase \in {"merging", "emitting"} => symbols # <<>>
  /\ queue \subseteq Entries
  /\ phase = "merging" => Queued(symbols, queue)
  /\ index \in Index \cup {None}
  /\ output \in Seq(vocab)
  /\ phase \in {"start", "merging", "emitting", "done", "failed"}

-----------------------------------------------------------------------------
LEMMA IndexFacts ==
  ASSUME Inputs
  PROVE  Index \in SUBSET Nat /\ 0 \in Index /\ None \notin Index /\ None \notin Nat
BY DEF Inputs, Index, None

(* What two neighbours of a list are queued as.                            *)
LEMMA PairFacts ==
  ASSUME Inputs, NEW syms, List(syms), NEW k \in LiveIn(syms)
  PROVE  LET n == syms[k].next
             e == n + syms[n].length
         IN  n # None =>
               /\ n \in LiveIn(syms) /\ k \in Nat /\ n \in Nat /\ e \in Nat
               /\ n = k + syms[k].length /\ k < n /\ n < e /\ e <= Len(text)
               /\ e - k = syms[k].length + syms[n].length
               /\ PairOf(syms, k, n) =
                    IF Ranked(Between(k, n), Between(n, e)) = {} THEN {}
                    ELSE {Entry(k, n, e)}
<1> DEFINE n == syms[k].next
           e == n + syms[n].length
<1> SUFFICES ASSUME n # None
             PROVE  /\ n \in LiveIn(syms) /\ k \in Nat /\ n \in Nat /\ e \in Nat
                    /\ n = k + syms[k].length /\ k < n /\ n < e /\ e <= Len(text)
                    /\ e - k = syms[k].length + syms[n].length
                    /\ PairOf(syms, k, n) =
                         IF Ranked(Between(k, n), Between(n, e)) = {} THEN {}
                         ELSE {Entry(k, n, e)}
  OBVIOUS
<1>1. n \in LiveIn(syms) /\ k + syms[k].length = n
  BY DEF List, Linked
<1>2. k \in Index /\ n \in Index /\ k \in Nat /\ n \in Nat /\ k # None
  BY <1>1, IndexFacts DEF LiveIn
<1>3. /\ syms[k].length \in Nat /\ syms[n].length \in Nat
      /\ syms[k].length > 0 /\ syms[n].length > 0
      /\ syms[k].offset = k /\ syms[n].offset = n
      /\ syms[n].next \in Index \cup {None}
  BY <1>1, <1>2 DEF List, ListTypes, Symbol, LiveIn
<1>4. e <= Len(text)
  <2>1. e = IF syms[n].next = None THEN Len(text) ELSE syms[n].next
    BY <1>1 DEF List, Linked
  <2> QED
    BY <1>3, <2>1 DEF Index, Inputs
<1>5. /\ PieceOf(syms[k]) = Between(k, n)
      /\ PieceOf(syms[n]) = Between(n, e)
  BY <1>1, <1>3 DEF PieceOf, Between
<1>6. e - k = syms[k].length + syms[n].length /\ e \in Nat /\ k < n /\ n < e
  BY <1>1, <1>2, <1>3
<1> HIDE DEF e
<1>7. PairOf(syms, k, n) = IF Ranked(Between(k, n), Between(n, e)) = {} THEN {}
                           ELSE {Entry(k, n, e)}
  <2> DEFINE x == Between(k, n)
             y == Between(n, e)
  <2>1. n # None /\ syms[k].length # 0 /\ syms[n].length # 0
    BY <1>2, <1>3
  <2>2. PieceOf(syms[k]) = x /\ PieceOf(syms[n]) = y
    BY <1>5
  <2>3. Entry(k, n, e) = [left |-> k, right |-> n, rank |-> Rank(x, y),
                          mergedLength |-> syms[k].length + syms[n].length]
    BY <1>6 DEF Entry
  <2> HIDE DEF x, y, n
  <2>4. PairOf(syms, k, n) =
          IF Ranked(x, y) = {} THEN {}
          ELSE {[left |-> k, right |-> n, rank |-> Rank(x, y),
                 mergedLength |-> syms[k].length + syms[n].length]}
    BY <1>2, <2>1, <2>2 DEF PairOf
  <2> QED
    BY <2>3, <2>4 DEF x, y
<1> QED
  BY <1>1, <1>2, <1>4, <1>6, <1>7

LEMMA NoPairAtEnd ==
  ASSUME NEW syms, NEW k PROVE PairOf(syms, k, None) = {} /\ PairOf(syms, None, k) = {}
BY DEF PairOf

LEMMA PairIsEntry ==
  ASSUME Inputs, NEW syms, List(syms), NEW k \in LiveIn(syms)
  PROVE  PairOf(syms, k, syms[k].next) \subseteq Entries
<1> DEFINE n == syms[k].next
           e == n + syms[n].length
<1>1. CASE n = None
  BY <1>1, NoPairAtEnd
<1>2. CASE n # None
  <2>1. /\ n \in LiveIn(syms) /\ k \in Nat /\ n \in Nat /\ e \in Nat
        /\ k < n /\ n < e /\ e <= Len(text)
        /\ PairOf(syms, k, n) = IF Ranked(Between(k, n), Between(n, e)) = {} THEN {}
                                ELSE {Entry(k, n, e)}
    BY <1>2, PairFacts
  <2>2. k \in Index /\ n \in Index
    BY <2>1 DEF LiveIn
  <2> HIDE DEF n, e
  <2>3. e \in 0 .. Len(text)
    BY <2>1 DEF Inputs
  <2>4. ASSUME Ranked(Between(k, n), Between(n, e)) # {} PROVE Entry(k, n, e) \in Entries
    <3> DEFINE p == <<k, n, e>>
    <3>1. p \in {q \in Index \X Index \X (0 .. Len(text)) :
                             /\ q[1] < q[2] /\ q[2] < q[3]
                             /\ Ranked(Between(q[1], q[2]), Between(q[2], q[3])) # {}}
      BY <2>1, <2>2, <2>3, <2>4
    <3>2. p[1] = k /\ p[2] = n /\ p[3] = e
      OBVIOUS
    <3> HIDE DEF p
    <3>3. Entry(p[1], p[2], p[3]) \in Entries
      BY <3>1 DEF Entries
    <3> QED
      BY <3>2, <3>3
  <2>5. PairOf(syms, k, n) \subseteq Entries
    BY <2>1, <2>4
  <2> QED
    BY <2>5 DEF n
<1> QED
  BY <1>1, <1>2

(* An entry that passes the three tests is the pair its symbols form now.  *)
LEMMA FreshIsPair ==
  ASSUME Inputs, List(symbols), NEW b \in Entries, Fresh(b)
  PROVE  /\ b.left \in LiveIn(symbols) /\ b.right # None
         /\ b.right = symbols[b.left].next
         /\ b \in PairOf(symbols, b.left, b.right)
<1>1. PICK l \in Index, r \in Index, e \in 0 .. Len(text) :
        /\ b = Entry(l, r, e) /\ l < r /\ r < e
        /\ Ranked(Between(l, r), Between(r, e)) # {}
  BY DEF Entries
<1>2. b.left = l /\ b.right = r /\ b.mergedLength = e - l
  BY <1>1 DEF Entry
<1>3. /\ l \in Nat /\ r \in Nat /\ e \in Nat /\ r # None
      /\ symbols[l].length \in Nat /\ symbols[r].length \in Nat
  BY IndexFacts DEF List, ListTypes, Symbol, Inputs
<1>4. /\ l \in LiveIn(symbols) /\ symbols[l].next = r
      /\ symbols[l].length + symbols[r].length = e - l
  BY <1>2, <1>3 DEF Fresh, LiveIn
<1> DEFINE f == r + symbols[r].length
<1>5. /\ f - l = symbols[l].length + symbols[r].length /\ f \in Nat
      /\ PairOf(symbols, l, r) = IF Ranked(Between(l, r), Between(r, f)) = {} THEN {}
                                 ELSE {Entry(l, r, f)}
  BY <1>3, <1>4, PairFacts
<1> HIDE DEF f
<1>6. f = e
  BY <1>3, <1>4, <1>5
<1> QED
  BY <1>1, <1>2, <1>3, <1>4, <1>5, <1>6

(* And the pair of two neighbours passes them.                             *)
LEMMA PairIsFresh ==
  ASSUME Inputs, List(symbols), NEW k \in LiveIn(symbols),
         NEW b \in PairOf(symbols, k, symbols[k].next)
  PROVE  Fresh(b)
<1> DEFINE n == symbols[k].next
<1>1. n # None
  BY NoPairAtEnd
<1>2. n \in LiveIn(symbols)
  BY <1>1, PairFacts
<1>3. b = [left |-> k, right |-> n, rank |-> Rank(PieceOf(symbols[k]), PieceOf(symbols[n])),
           mergedLength |-> symbols[k].length + symbols[n].length]
  BY DEF PairOf
<1>4. b.left = k /\ b.right = n /\ b.mergedLength = symbols[k].length + symbols[n].length
  BY <1>3
<1>5. symbols[k].length # 0 /\ symbols[n].length # 0
  BY <1>2 DEF LiveIn
<1> QED
  BY <1>4, <1>5 DEF Fresh

-----------------------------------------------------------------------------
(* The list after left has absorbed its right neighbour, field by field.   *)
LEMMA AbsorbedFields ==
  ASSUME Inputs, List(symbols), NEW left \in LiveIn(symbols),
         NEW right, right = symbols[left].next, right # None
  PROVE  LET syms  == Absorbed(left, right)
             after == symbols[right].next
         IN  /\ right \in LiveIn(symbols) /\ right # left
             /\ after # left /\ after # right
             /\ after \in Index \cup {None}
             /\ syms \in [Index -> Symbol]
             /\ \A k \in Index :
                  /\ syms[k].offset = k
                  /\ syms[k].length = IF k = left THEN symbols[left].length + symbols[right].length
                                      ELSE IF k = right THEN 0 ELSE symbols[k].length
                  /\ syms[k].next = IF k = left THEN after ELSE symbols[k].next
                  /\ syms[k].prev = IF k = after THEN left ELSE symbols[k].prev
<1> DEFINE syms  == Absorbed(left, right)
           after == symbols[right].next
           sum   == symbols[left].length + symbols[right].length
<1>1. /\ right \in LiveIn(symbols) /\ left < right /\ left \in Nat /\ right \in Nat
      /\ right + symbols[right].length <= Len(text)
      /\ (right + symbols[right].length) - left = sum
  <2> DEFINE e == right + symbols[right].length
  <2>1. symbols[left].next # None
    OBVIOUS
  <2>2. /\ right \in LiveIn(symbols) /\ left \in Nat /\ right \in Nat
        /\ left < right /\ e <= Len(text) /\ e - left = sum
    BY <2>1, PairFacts
  <2> QED
    BY <2>2
<1>2. left \in Index /\ right \in Index
  BY <1>1 DEF LiveIn
<1>3. \A k \in Index : /\ symbols[k] \in Symbol
                       /\ symbols[k].offset = k
  BY DEF List, ListTypes
<1>4. after \in Index \cup {None} /\ symbols[right].length \in Nat /\ symbols[left].length \in Nat
      /\ symbols[right].length > 0
  BY <1>1, <1>2, <1>3 DEF Symbol, LiveIn
<1>5. after # None => after = right + symbols[right].length
  BY <1>1 DEF List, Linked
<1>6. after # left /\ after # right
  BY <1>1, <1>2, <1>4, <1>5, IndexFacts
<1>7. sum \in 0 .. Len(text)
  BY <1>1, <1>4 DEF Inputs
<1> HIDE DEF sum, after
<1>8. ASSUME NEW k \in Index
      PROVE  /\ syms[k] \in Symbol
             /\ syms[k].offset = k
             /\ syms[k].length = IF k = left THEN sum
                                 ELSE IF k = right THEN 0 ELSE symbols[k].length
             /\ syms[k].next = IF k = left THEN after ELSE symbols[k].next
             /\ syms[k].prev = IF k = after THEN left ELSE symbols[k].prev
  <2>1. /\ symbols[k] = [offset |-> symbols[k].offset, length |-> symbols[k].length,
                         prev |-> symbols[k].prev, next |-> symbols[k].next]
        /\ symbols[k].offset \in Index /\ symbols[k].length \in 0 .. Len(text)
        /\ symbols[k].prev \in Index \cup {None} /\ symbols[k].next \in Index \cup {None}
    BY <1>3 DEF Symbol
  <2>2. CASE k = left
    <3>1. syms[k] = [symbols[k] EXCEPT !.length = @ + symbols[right].length,
                                       !.next   = symbols[right].next]
      BY <1>1, <1>6, <2>2 DEF Absorbed, after
    <3>2. syms[k] = [offset |-> symbols[k].offset, length |-> sum,
                     prev |-> symbols[k].prev, next |-> after]
      BY <2>1, <2>2, <3>1 DEF sum, after
    <3> QED
      BY <1>1, <1>3, <1>4, <1>6, <1>7, <2>1, <2>2, <3>2 DEF Symbol
  <2>3. CASE k = right
    <3>1. syms[k] = [offset |-> symbols[k].offset, length |-> 0,
                     prev |-> symbols[k].prev, next |-> symbols[k].next]
      <4>1. syms[k] = [symbols[k] EXCEPT !.length = 0]
        BY <1>1, <1>6, <2>3 DEF Absorbed, after
      <4> QED
        BY <2>1, <4>1
    <3>2. 0 \in 0 .. Len(text) /\ right # left
      BY <1>1 DEF Inputs
    <3> QED
      BY <1>3, <1>6, <2>1, <2>3, <3>1, <3>2 DEF Symbol
  <2>4. CASE k = after
    <3>1. syms[k] = [offset |-> symbols[k].offset, length |-> symbols[k].length,
                     prev |-> left, next |-> symbols[k].next]
      BY <1>6, <2>1, <2>4 DEF Absorbed, after
    <3> QED
      BY <1>2, <1>3, <1>6, <2>1, <2>4, <3>1 DEF Symbol
  <2>5. CASE k # left /\ k # right /\ k # after
    <3>1. syms[k] = symbols[k]
      BY <2>5 DEF Absorbed, after
    <3> QED
      BY <1>3, <2>5, <3>1
  <2> QED
    BY <2>2, <2>3, <2>4, <2>5
<1>9. syms \in [Index -> Symbol]
  <2>1. syms = [k \in Index |-> syms[k]]
    BY DEF Absorbed
  <2> QED
    BY <1>8, <2>1
<1> QED
  BY <1>1, <1>4, <1>6, <1>8, <1>9 DEF sum, after

LEMMA AbsorbedList ==
  ASSUME Inputs, List(symbols), NEW left \in LiveIn(symbols),
         NEW right, right = symbols[left].next, right # None
  PROVE  LET syms == Absorbed(left, right)
         IN  /\ List(syms)
             /\ LiveIn(syms) = LiveIn(symbols) \ {right}
             /\ left \in LiveIn(syms)
             /\ \A k \in LiveIn(syms) : k # left /\ k # syms[left].prev =>
                  PairOf(syms, k, syms[k].next) = PairOf(symbols, k, symbols[k].next)
<1> DEFINE syms  == Absorbed(left, right)
           after == symbols[right].next
           sum   == symbols[left].length + symbols[right].length
<1>1. /\ right \in LiveIn(symbols) /\ right # left
      /\ after # left /\ after # right
      /\ after \in Index \cup {None}
      /\ syms \in [Index -> Symbol]
      /\ \A k \in Index :
           /\ syms[k].offset = k
           /\ syms[k].length = IF k = left THEN sum
                               ELSE IF k = right THEN 0 ELSE symbols[k].length
           /\ syms[k].next = IF k = left THEN after ELSE symbols[k].next
           /\ syms[k].prev = IF k = after THEN left ELSE symbols[k].prev
  BY AbsorbedFields
<1> HIDE DEF syms
<1>2. ListTypes(syms)
  BY <1>1 DEF ListTypes
<1>3. /\ left \in Index /\ right \in Index /\ left \in Nat /\ right \in Nat
      /\ symbols[left].length \in Nat /\ symbols[right].length \in Nat
      /\ symbols[left].length > 0 /\ symbols[right].length > 0
      /\ sum \in Nat /\ sum > 0
      /\ None \notin Index
  BY <1>1, IndexFacts DEF LiveIn, List, ListTypes, Symbol
<1>4. /\ left + symbols[left].length = right
      /\ right + symbols[right].length = IF after = None THEN Len(text) ELSE after
      /\ symbols[right].prev = left
      /\ after # None => after \in LiveIn(symbols) /\ symbols[after].prev = right
  BY <1>1 DEF List, Linked
<1>5. LiveIn(syms) = LiveIn(symbols) \ {right}
  <2> SUFFICES ASSUME NEW k \in Index
               PROVE  syms[k].length > 0 <=> symbols[k].length > 0 /\ k # right
    BY DEF LiveIn
  <2>1. syms[k].length = IF k = left THEN sum
                         ELSE IF k = right THEN 0 ELSE symbols[k].length
    BY <1>1
  <2>2. symbols[left].length > 0
    BY <1>3
  <2> QED
    BY <1>1, <1>3, <2>1, <2>2
<1>6. left \in LiveIn(syms)
  BY <1>1, <1>5
<1>7. left + sum = IF after = None THEN Len(text) ELSE after
  BY <1>3, <1>4
<1> HIDE DEF sum, after
<1>8. \A k \in LiveIn(symbols) :
        /\ k \in Index
        /\ k # left => symbols[k].next # right
        /\ k # right => symbols[k].next # after \/ after = None
        /\ k # right => symbols[k].prev # left
        /\ k # after => symbols[k].prev # right
  <2> SUFFICES ASSUME NEW k \in LiveIn(symbols)
               PROVE  /\ k \in Index
                      /\ k # left => symbols[k].next # right
                      /\ k # right => symbols[k].next # after \/ after = None
                      /\ k # right => symbols[k].prev # left
                      /\ k # after => symbols[k].prev # right
    OBVIOUS
  <2>1. /\ symbols[k].next # None => symbols[symbols[k].next].prev = k
        /\ symbols[k].prev # None => symbols[symbols[k].prev].next = k
    BY DEF List, Linked
  <2> QED
    BY <1>3, <1>4, <2>1 DEF LiveIn, after
<1>9. Linked(syms)
  <2> SUFFICES ASSUME NEW k \in LiveIn(syms)
               PROVE  /\ k + syms[k].length =
                           IF syms[k].next = None THEN Len(text) ELSE syms[k].next
                      /\ syms[k].next # None => /\ syms[k].next \in LiveIn(syms)
                                                /\ syms[syms[k].next].prev = k
                      /\ syms[k].prev # None => /\ syms[k].prev \in LiveIn(syms)
                                                /\ syms[syms[k].prev].next = k
    BY DEF Linked
  <2>1. k \in LiveIn(symbols) /\ k # right /\ k \in Index
    BY <1>5, <1>8
  <2>2. /\ k + symbols[k].length =
             IF symbols[k].next = None THEN Len(text) ELSE symbols[k].next
        /\ symbols[k].next # None => /\ symbols[k].next \in LiveIn(symbols)
                                     /\ symbols[symbols[k].next].prev = k
        /\ symbols[k].prev # None => /\ symbols[k].prev \in LiveIn(symbols)
                                     /\ symbols[symbols[k].prev].next = k
    BY <2>1 DEF List, Linked
  <2>3. k + syms[k].length = IF syms[k].next = None THEN Len(text) ELSE syms[k].next
    BY <1>1, <1>7, <2>1, <2>2
  <2>4. ASSUME syms[k].next # None
        PROVE  syms[k].next \in LiveIn(syms) /\ syms[syms[k].next].prev = k
    <3>1. CASE k = left
      <4>1. syms[k].next = after /\ after \in LiveIn(symbols) /\ after # right
        BY <1>1, <1>4, <2>1, <2>4, <3>1
      <4>2. after \in Index /\ syms[after].prev = left
        BY <1>1, <1>8, <4>1
      <4> QED
        BY <1>5, <3>1, <4>1, <4>2
    <3>2. CASE k # left
      <4>1. syms[k].next = symbols[k].next
        BY <1>1, <2>1, <3>2
      <4>2. symbols[k].next \in LiveIn(symbols) /\ symbols[symbols[k].next].prev = k
        BY <2>2, <2>4, <4>1
      <4>3. symbols[k].next # right /\ symbols[k].next # after
        BY <1>8, <2>1, <2>4, <3>2, <4>1
      <4>4. symbols[k].next \in Index
        BY <1>8, <4>2
      <4> QED
        BY <1>1, <1>5, <4>1, <4>2, <4>3, <4>4
    <3> QED
      BY <3>1, <3>2
  <2>5. ASSUME syms[k].prev # None
        PROVE  syms[k].prev \in LiveIn(syms) /\ syms[syms[k].prev].next = k
    <3>1. CASE k = after
      BY <1>1, <1>3, <1>6, <2>1, <3>1
    <3>2. CASE k # after
      <4>1. syms[k].prev = symbols[k].prev
        BY <1>1, <2>1, <3>2
      <4>2. symbols[k].prev \in LiveIn(symbols) /\ symbols[symbols[k].prev].next = k
        BY <2>2, <2>5, <4>1
      <4>3. symbols[k].prev # right /\ symbols[k].prev # left
        BY <1>8, <2>1, <3>2
      <4>4. symbols[k].prev \in Index
        BY <1>8, <4>2
      <4> QED
        BY <1>1, <1>5, <4>1, <4>2, <4>3, <4>4
    <3> QED
      BY <3>1, <3>2
  <2> QED
    BY <2>3, <2>4, <2>5
<1>10. ASSUME NEW k \in LiveIn(syms), k # left, k # syms[left].prev
       PROVE  PairOf(syms, k, syms[k].next) = PairOf(symbols, k, symbols[k].next)
  <2> DEFINE n == symbols[k].next
  <2>1. k \in LiveIn(symbols) /\ k # right /\ k \in Index
    BY <1>5, <1>8
  <2>2. syms[k].next = n /\ syms[k].length = symbols[k].length /\ syms[k].offset = symbols[k].offset
    BY <1>1, <1>10, <2>1 DEF List, ListTypes
  <2>3. CASE n = None
    BY <2>2, <2>3, NoPairAtEnd
  <2>4. CASE n # None
    <3>1. n # right /\ n \in Index
      BY <1>8, <1>10, <2>1, <2>4 DEF List, Linked
    <3>2. n # left
      <4>1. ASSUME n = left PROVE FALSE
        <5>1. symbols[left].prev = k
          BY <2>1, <2>4, <4>1 DEF List, Linked
        <5> QED
          BY <1>1, <1>3, <1>10, <5>1
      <4> QED
        BY <4>1
    <3>3. syms[n].length = symbols[n].length /\ syms[n].offset = symbols[n].offset
      BY <1>1, <3>1, <3>2 DEF List, ListTypes
    <3> QED
      BY <2>2, <3>3 DEF PairOf, PieceOf
  <2> QED
    BY <2>3, <2>4
<1> QED
  BY <1>2, <1>5, <1>6, <1>9, <1>10 DEF syms, List

-----------------------------------------------------------------------------
(* A step leaves the pretoken and the rules alone.                         *)
LEMMA InputsKept ==
  ASSUME UNCHANGED <<text, merges>>
  PROVE  /\ Inputs' <=> Inputs
         /\ Index' = Index /\ Entries' = Entries
         /\ List(symbols)' <=> List(symbols')
         /\ Queued(symbols, queue)' <=> Queued(symbols', queue')
<1>1. Inputs' <=> Inputs
  BY DEF Inputs
<1>2. Index' = Index /\ Symbol' = Symbol
  BY DEF Index, Symbol
<1>3. Entries' = Entries
  BY DEF Entries, Entry, Between, Ranked, Rank, Index
<1>4. LiveIn(symbols)' = LiveIn(symbols')
  BY <1>2 DEF LiveIn
<1>5. ListTypes(symbols)' <=> ListTypes(symbols')
  BY <1>2 DEF ListTypes
<1>6. Linked(symbols)' <=> Linked(symbols')
  BY <1>4 DEF Linked
<1>7. List(symbols)' <=> List(symbols')
  BY <1>5, <1>6 DEF List
<1>8. Queued(symbols, queue)' <=> Queued(symbols', queue')
  BY <1>4 DEF Queued, PairOf, PieceOf, Ranked, Rank
<1> QED
  BY <1>1, <1>2, <1>3, <1>7, <1>8

LEMMA InitIInv == Init => IInv
<1> SUFFICES ASSUME Init PROVE IInv
  OBVIOUS
<1>1. Inputs
  BY BpeAssumption DEF Init, Inputs
<1>2. 0 \in Index
  BY <1>1, IndexFacts
<1> QED
  BY <1>1, <1>2 DEF Init, IInv

(* One symbol per character is a list, and its pairs are queued.           *)
LEMMA SplitStep ==
  ASSUME IInv, Split
  PROVE  IInv'
<1>1. /\ symbols' = Characters /\ phase' = "merging"
      /\ queue' = UNION {PairOf(Characters, k, k + 1) : k \in 0 .. Len(text) - 2}
      /\ UNCHANGED <<text, merges, vocab, index, output>>
  BY DEF Split, params
<1>2. Inputs /\ Inputs'
  BY <1>1 DEF IInv, Inputs
<1>3. Index \in SUBSET Nat /\ 0 \in Index /\ None \notin Nat
  BY <1>2, IndexFacts
<1>4. ASSUME NEW k \in Index
      PROVE  /\ Characters[k].offset = k /\ Characters[k].length = 1
             /\ Characters[k].prev = k - 1
             /\ Characters[k].next = IF k + 1 \in Index THEN k + 1 ELSE None
             /\ Characters[k] \in Symbol
  <2>1. Characters[k] = [offset |-> k, length |-> 1, prev |-> k - 1,
                         next |-> IF k + 1 \in Index THEN k + 1 ELSE None]
    BY DEF Characters
  <2>2. k - 1 \in Index \cup {None}
    BY <1>2 DEF Index, None, Inputs
  <2>3. 1 \in 0 .. Len(text)
    BY <1>2 DEF Inputs
  <2> QED
    BY <2>1, <2>2, <2>3 DEF Symbol
<1>5. ListTypes(Characters)
  <2>1. Characters = [k \in Index |-> Characters[k]]
    BY DEF Characters
  <2> QED
    BY <1>4, <2>1 DEF ListTypes
<1>6. LiveIn(Characters) = Index
  BY <1>4 DEF LiveIn
<1>7. Linked(Characters)
  <2> SUFFICES ASSUME NEW k \in Index
               PROVE  /\ k + 1 = IF k + 1 \in Index THEN k + 1 ELSE Len(text)
                      /\ k + 1 \in Index => Characters[k + 1].prev = k
                      /\ k - 1 # None => /\ k - 1 \in Index
                                         /\ Characters[k - 1].next = k
    <3>1. \A k \in Index :
            /\ Characters[k].length = 1 /\ Characters[k].prev = k - 1
            /\ Characters[k].next = IF k + 1 \in Index THEN k + 1 ELSE None
      BY <1>4
    <3>2. None \notin Index /\ \A k \in Index : k + 1 # None
      BY <1>3
    <3> QED
      BY <1>6, <3>1, <3>2 DEF Linked
  <2>1. k \in Nat /\ Len(text) \in Nat /\ k < Len(text)
    BY <1>2 DEF Index, Inputs
  <2>2. k + 1 \in Index \/ k + 1 = Len(text)
    BY <2>1 DEF Index
  <2>3. k + 1 \in Index => Characters[k + 1].prev = k
    BY <1>4, <2>1
  <2>4. ASSUME k - 1 # None PROVE k - 1 \in Index /\ Characters[k - 1].next = k
    <3>1. k - 1 \in Index /\ (k - 1) + 1 = k
      BY <2>1, <2>4 DEF Index, None
    <3> QED
      BY <1>4, <3>1
  <2> QED
    BY <2>2, <2>3, <2>4
<1>8. List(Characters)
  BY <1>5, <1>7 DEF List
<1>9. /\ \A k \in 0 .. Len(text) - 2 : k \in Index /\ Characters[k].next = k + 1
      /\ \A k \in Index : Characters[k].next # None =>
           k \in 0 .. Len(text) - 2 /\ Characters[k].next = k + 1
  BY <1>2, <1>4 DEF Index, Inputs
<1>10. queue' \subseteq Entries
  <2>1. \A k \in 0 .. Len(text) - 2 : PairOf(Characters, k, k + 1) \subseteq Entries
    BY <1>2, <1>6, <1>8, <1>9, PairIsEntry
  <2> QED
    BY <1>1, <2>1
<1>11. Queued(Characters, queue')
  <2> SUFFICES ASSUME NEW k \in Index
               PROVE  PairOf(Characters, k, Characters[k].next) \subseteq queue'
    BY <1>6 DEF Queued
  <2>1. CASE Characters[k].next = None
    BY <2>1, NoPairAtEnd
  <2>2. CASE Characters[k].next # None
    BY <1>1, <1>9, <2>2
  <2> QED
    BY <2>1, <2>2
<1>12. Characters # <<>>
  BY <1>3 DEF Characters
<1> QED
  BY <1>1, <1>2, <1>8, <1>10, <1>11, <1>12, InputsKept DEF IInv

LEMMA SkipStep ==
  ASSUME IInv, Skip
  PROVE  IInv'
<1>1. PICK top \in queue : ~Fresh(top) /\ queue' = queue \ {top}
  BY DEF Skip, SkipStale
<1>2. phase = "merging" /\ UNCHANGED <<text, merges, vocab, symbols, index, output, phase>>
  BY DEF Skip, params
<1>3. List(symbols) /\ Inputs
  BY <1>2 DEF IInv
<1>4. \A k \in LiveIn(symbols) : top \notin PairOf(symbols, k, symbols[k].next)
  BY <1>1, <1>3, PairIsFresh
<1>5. Queued(symbols, queue \ {top})
  BY <1>2, <1>4 DEF IInv, Queued
<1> QED
  BY <1>1, <1>2, <1>5, InputsKept DEF IInv

LEMMA MergeStep ==
  ASSUME IInv, Merge
  PROVE  IInv'
<1>1. PICK top \in queue :
        /\ Fresh(top)
        /\ symbols' = Absorbed(top.left, top.right)
        /\ queue' = (queue \ {top}) \cup NewPairs(Absorbed(top.left, top.right), top.left)
  BY DEF Merge
<1>2. phase = "merging" /\ UNCHANGED <<text, merges, vocab, index, output, phase>>
  BY DEF Merge, params
<1>3. List(symbols) /\ Inputs /\ top \in Entries /\ Queued(symbols, queue)
  BY <1>2 DEF IInv
<1> DEFINE left  == top.left
           right == top.right
           syms  == Absorbed(left, right)
<1>4. /\ left \in LiveIn(symbols) /\ right # None /\ right = symbols[left].next
      /\ top \in PairOf(symbols, left, right)
  BY <1>1, <1>3, FreshIsPair
<1>5. /\ List(syms) /\ left \in LiveIn(syms)
      /\ LiveIn(syms) = LiveIn(symbols) \ {right}
      /\ \A k \in LiveIn(syms) : k # left /\ k # syms[left].prev =>
           PairOf(syms, k, syms[k].next) = PairOf(symbols, k, symbols[k].next)
  BY <1>3, <1>4, AbsorbedList
<1>6. \A k : top \in PairOf(symbols, k, symbols[k].next) => k = left
  BY DEF PairOf
<1> HIDE DEF left, right, syms
<1>7. syms[left].prev # None =>
        /\ syms[left].prev \in LiveIn(syms)
        /\ syms[syms[left].prev].next = left
  BY <1>5 DEF List, Linked
<1>8. NewPairs(syms, left) \subseteq Entries
  <2>1. PairOf(syms, left, syms[left].next) \subseteq Entries
    BY <1>3, <1>5, PairIsEntry
  <2>2. PairOf(syms, syms[left].prev, left) \subseteq Entries
    <3>1. CASE syms[left].prev = None
      BY <3>1, NoPairAtEnd
    <3>2. CASE syms[left].prev # None
      BY <1>3, <1>5, <1>7, <3>2, PairIsEntry
    <3> QED
      BY <3>1, <3>2
  <2> QED
    BY <2>1, <2>2 DEF NewPairs
<1>9. queue' = (queue \ {top}) \cup NewPairs(syms, left) /\ symbols' = syms
  BY <1>1 DEF syms, left, right
<1>10. Queued(syms, queue')
  <2> SUFFICES ASSUME NEW k \in LiveIn(syms)
               PROVE  PairOf(syms, k, syms[k].next) \subseteq queue'
    BY DEF Queued
  <2>1. CASE k = left
    BY <1>9, <2>1 DEF NewPairs
  <2>2. CASE k # left /\ k = syms[left].prev
    <3>1. k # None
      BY <1>3, IndexFacts DEF LiveIn
    <3>2. syms[k].next = left
      BY <1>7, <2>2, <3>1
    <3> QED
      BY <1>9, <2>2, <3>2 DEF NewPairs
  <2>3. CASE k # left /\ k # syms[left].prev
    <3>1. PairOf(syms, k, syms[k].next) = PairOf(symbols, k, symbols[k].next)
      BY <1>5, <2>3
    <3>2. PairOf(symbols, k, symbols[k].next) \subseteq queue
      BY <1>3, <1>5 DEF Queued
    <3> QED
      BY <1>6, <1>9, <2>3, <3>1, <3>2
  <2> QED
    BY <2>1, <2>2, <2>3
<1>11. syms # <<>>
  <2>1. DOMAIN syms = Index /\ 0 \in Index
    BY <1>3, <1>5, IndexFacts DEF List, ListTypes
  <2> QED
    BY <2>1
<1>12. queue' \subseteq Entries
  BY <1>8, <1>9 DEF IInv
<1> QED
  BY <1>2, <1>5, <1>9, <1>10, <1>11, <1>12, InputsKept DEF IInv

LEMMA NextIInv == IInv /\ [Next]_vars => IInv'
<1> SUFFICES ASSUME IInv, [Next]_vars PROVE IInv'
  OBVIOUS
<1> USE DEF IInv
<1>1. ASSUME UNCHANGED <<params, symbols, queue>>, index' \in Index \cup {None},
             output' \in Seq(vocab), phase' = phase \/ phase' \in {"emitting", "done", "failed"},
             phase' = "emitting" => phase \in {"merging", "emitting"}
      PROVE  IInv'
  BY <1>1, InputsKept DEF params
<1>2. CASE UNCHANGED vars
  BY <1>1, <1>2 DEF vars
<1>3. CASE EmitWhole
  BY <1>1, <1>3 DEF EmitWhole, WholeEntry
<1>4. CASE MergesDone \/ PieceUnknown \/ Return
  BY <1>1, <1>4 DEF MergesDone, PieceUnknown, Return
<1>5. CASE Emit
  <2>1. /\ phase = "emitting" /\ index \in Index /\ PieceOf(symbols[index]) \in vocab
        /\ UNCHANGED <<params, symbols, queue, phase>>
        /\ output' = Append(output, PieceOf(symbols[index]))
        /\ index' = symbols[index].next
    BY <1>5 DEF Emit
  <2>2. index' \in Index \cup {None}
    BY <2>1 DEF List, ListTypes, Symbol
  <2>3. output' \in Seq(vocab)
    BY <2>1
  <2> QED
    BY <1>1, <2>1, <2>2, <2>3
<1> QED
  BY <1>2, <1>3, <1>4, <1>5, SplitStep, SkipStep, MergeStep DEF Next

-----------------------------------------------------------------------------
(* ChainTilesText: whatever the rules and the order of the merges, the     *)
(* links neither lose nor repeat a byte of the pretoken.                   *)
THEOREM ListTilesText == Spec => []ChainTilesText
<1>1. IInv => ChainTilesText
  <2> SUFFICES ASSUME IInv, NEW k \in Live
               PROVE  LET after == symbols[k].offset + symbols[k].length
                      IN  IF symbols[k].next = None THEN after = Len(text)
                          ELSE /\ symbols[k].next \in Live
                               /\ symbols[symbols[k].next].prev = k
                               /\ symbols[symbols[k].next].offset = after
    BY DEF ChainTilesText
  <2>1. List(symbols)
    BY DEF IInv, Live
  <2>2. Live = LiveIn(symbols)
    BY <2>1 DEF List, ListTypes, Live, LiveIn
  <2>3. \A j \in LiveIn(symbols) : symbols[j].offset = j
    BY <2>1 DEF List, ListTypes, LiveIn
  <2> QED
    BY <2>1, <2>2, <2>3 DEF List, Linked
<1> QED
  BY <1>1, InitIInv, NextIInv, PTL DEF Spec

(* LivePairsQueued: no merge is lost when a stale entry is dropped, and    *)
(* none is done for texts that are gone.                                   *)
THEOREM HeapHoldsLivePairs == Spec => []LivePairsQueued
<1>1. IInv => LivePairsQueued
  <2> SUFFICES ASSUME IInv, phase = "merging"
               PROVE  {b \in queue : Fresh(b)} =
                        UNION {PairOf(symbols, k, symbols[k].next) : k \in Live}
    BY DEF LivePairsQueued
  <2>1. List(symbols) /\ Inputs /\ queue \subseteq Entries /\ Queued(symbols, queue)
    BY DEF IInv
  <2>2. Live = LiveIn(symbols)
    BY <2>1 DEF List, ListTypes, Live, LiveIn
  <2>3. ASSUME NEW b \in queue, Fresh(b)
        PROVE  \E k \in Live : b \in PairOf(symbols, k, symbols[k].next)
    BY <2>1, <2>2, <2>3, FreshIsPair
  <2>4. ASSUME NEW k \in Live, NEW b \in PairOf(symbols, k, symbols[k].next)
        PROVE  b \in queue /\ Fresh(b)
    BY <2>1, <2>2, PairIsFresh DEF Queued
  <2> QED
    BY <2>3, <2>4
<1> QED
  BY <1>1, InitIInv, NextIInv, PTL DEF Spec

(* TypeOK: symbols and heap entries stay within the pretoken.              *)
THEOREM TypesCorrect == Spec => []TypeOK
<1>1. IInv => TypeOK
  <2> SUFFICES ASSUME IInv PROVE TypeOK
    OBVIOUS
  <2>1. ASSUME NEW b \in queue
        PROVE  b \in [left : Index, right : Index, rank : DOMAIN merges,
                      mergedLength : 2 .. Len(text)]
    <3>1. PICK l \in Index, r \in Index, e \in 0 .. Len(text) :
            /\ b = Entry(l, r, e) /\ l < r /\ r < e
            /\ Ranked(Between(l, r), Between(r, e)) # {}
      BY DEF IInv, Entries
    <3>2. l \in Nat /\ r \in Nat /\ e \in Nat
      BY IndexFacts DEF IInv, Inputs
    <3>3. e - l \in 2 .. Len(text)
      BY <3>1, <3>2 DEF IInv, Inputs
    <3>4. Rank(Between(l, r), Between(r, e)) \in DOMAIN merges
      BY <3>1, RankFacts DEF IInv, Inputs
    <3> QED
      BY <3>1, <3>3, <3>4 DEF Entry
  <2>2. symbols = <<>> \/ symbols \in
          [Index -> [offset : Index, length : 0 .. Len(text),
                     prev : Index \cup {None}, next : Index \cup {None}]]
    BY DEF IInv, List, ListTypes, Symbol
  <2>3. \A k \in DOMAIN output : output[k] \in vocab
    BY DEF IInv
  <2> QED
    BY <2>1, <2>2, <2>3 DEF IInv, TypeOK
<1> QED
  BY <1>1, InitIInv, NextIInv, PTL DEF Spec

-----------------------------------------------------------------------------
(* Two facts about sequences: what prepending gives, and replacing two     *)
(* neighbours by one.                                                      *)
LEMMA Prepend ==
  ASSUME NEW S, NEW e \in S, NEW s \in Seq(S)
  PROVE  <<e>> \o s = [q \in 1 .. Len(s) + 1 |-> IF q = 1 THEN e ELSE s[q - 1]]
<1>1. <<e>> \in Seq(S) /\ Len(<<e>>) = 1 /\ <<e>>[1] = e
  OBVIOUS
<1>2. /\ <<e>> \o s \in Seq(S)
      /\ Len(<<e>> \o s) = 1 + Len(s)
      /\ \A i \in 1 .. 1 + Len(s) : (<<e>> \o s)[i] = IF i <= 1 THEN e ELSE s[i - 1]
  BY <1>1, ConcatProperties
<1> DEFINE t == <<e>> \o s
<1>3. Len(s) \in Nat /\ t = [q \in 1 .. Len(t) |-> t[q]]
  BY <1>2, LenProperties
<1> HIDE DEF t
<1>4. \A q \in 1 .. Len(s) + 1 : t[q] = IF q = 1 THEN e ELSE s[q - 1]
  BY <1>2, <1>3 DEF t
<1>5. Len(t) = Len(s) + 1
  BY <1>2, <1>3 DEF t
<1> QED
  BY <1>3, <1>4, <1>5 DEF t

Joined(s, j, e) == SubSeq(s, 1, j - 1) \o <<e>> \o SubSeq(s, j + 2, Len(s))

JoinedItems(s, j, e, n) ==
  [i \in 1 .. n - 1 |-> IF i < j THEN s[i] ELSE IF i = j THEN e ELSE s[i + 1]]

LEMMA JoinedFacts ==
  ASSUME NEW S, NEW n \in Nat, NEW s \in [1 .. n -> S], NEW j \in 1 .. n - 1, NEW e \in S
  PROVE  Joined(s, j, e) = JoinedItems(s, j, e, n)
<1> DEFINE before == SubSeq(s, 1, j - 1)
           after  == SubSeq(s, j + 2, n)
           t      == before \o <<e>> \o after
<1>1. Len(s) = n
  OBVIOUS
<1>2. /\ before \in Seq(S) /\ Len(before) = j - 1
      /\ \A i \in 1 .. j - 1 : before[i] = s[i]
  <2>1. \A i \in 1 .. j - 1 : s[i] \in S
    OBVIOUS
  <2>2. /\ before \in Seq(S)
        /\ Len(before) = IF 1 <= j - 1 THEN (j - 1) - 1 + 1 ELSE 0
        /\ \A i \in 1 .. (j - 1) - 1 + 1 : before[i] = s[1 + i - 1]
    BY <2>1, SubSeqProperties
  <2> QED
    BY <2>2
<1>3. /\ after \in Seq(S) /\ Len(after) = (n - 1) - j
      /\ \A i \in 1 .. (n - 1) - j : after[i] = s[(j + 1) + i]
  <2>1. \A i \in j + 2 .. n : s[i] \in S
    OBVIOUS
  <2>2. /\ after \in Seq(S)
        /\ Len(after) = IF j + 2 <= n THEN n - (j + 2) + 1 ELSE 0
        /\ \A i \in 1 .. n - (j + 2) + 1 : after[i] = s[(j + 2) + i - 1]
    BY <2>1, SubSeqProperties
  <2>3. n - (j + 2) + 1 = (n - 1) - j
    OBVIOUS
  <2> QED
    BY <2>2, <2>3
<1>4. <<e>> \in Seq(S) /\ Len(<<e>>) = 1 /\ <<e>>[1] = e
  OBVIOUS
<1> HIDE DEF before, after
<1> DEFINE head == before \o <<e>>
<1>5. /\ head \in Seq(S) /\ Len(head) = j
      /\ \A i \in 1 .. j : head[i] = IF i < j THEN s[i] ELSE e
  <2>1. /\ head \in Seq(S) /\ Len(head) = Len(before) + Len(<<e>>)
        /\ \A i \in 1 .. Len(before) + Len(<<e>>) :
             head[i] = IF i <= Len(before) THEN before[i] ELSE <<e>>[i - Len(before)]
    BY <1>2, <1>4, ConcatProperties
  <2> HIDE DEF head
  <2>2. Len(head) = j
    BY <1>2, <1>4, <2>1
  <2>3. ASSUME NEW i \in 1 .. j PROVE head[i] = IF i < j THEN s[i] ELSE e
    <3>1. head[i] = IF i <= j - 1 THEN before[i] ELSE <<e>>[i - (j - 1)]
      BY <1>2, <1>4, <2>1
    <3>2. CASE i < j
      BY <1>2, <3>1, <3>2
    <3>3. CASE i = j
      <4>1. i - (j - 1) = 1
        BY <3>3
      <4> QED
        BY <1>4, <3>1, <3>3, <4>1
    <3> QED
      BY <3>2, <3>3
  <2> QED
    BY <2>1, <2>2, <2>3
<1> HIDE DEF head
<1>6. /\ head \o after \in Seq(S) /\ Len(head \o after) = n - 1
      /\ \A i \in 1 .. n - 1 : (head \o after)[i] = IF i <= j THEN head[i] ELSE after[i - j]
  <2>1. /\ head \o after \in Seq(S) /\ Len(head \o after) = Len(head) + Len(after)
        /\ \A i \in 1 .. Len(head) + Len(after) :
             (head \o after)[i] = IF i <= Len(head) THEN head[i] ELSE after[i - Len(head)]
    BY <1>3, <1>5, ConcatProperties
  <2>2. j + ((n - 1) - j) = n - 1
    OBVIOUS
  <2> QED
    BY <1>3, <1>5, <2>1, <2>2
<1>7. \A i \in 1 .. n - 1 :
        (head \o after)[i] = IF i < j THEN s[i] ELSE IF i = j THEN e ELSE s[i + 1]
  <2> SUFFICES ASSUME NEW i \in 1 .. n - 1
               PROVE  (head \o after)[i] = IF i < j THEN s[i] ELSE IF i = j THEN e ELSE s[i + 1]
    OBVIOUS
  <2>1. CASE i <= j
    BY <1>5, <1>6, <2>1
  <2>2. CASE i > j
    <3>1. i - j \in 1 .. (n - 1) - j /\ (j + 1) + (i - j) = i + 1
      BY <2>2
    <3> QED
      BY <1>3, <1>6, <2>2, <3>1
  <2>3. i <= j \/ i > j
    OBVIOUS
  <2> QED
    BY <2>1, <2>2, <2>3
<1>8. head \o after = [i \in 1 .. n - 1 |-> (head \o after)[i]]
  BY <1>6, LenProperties
<1> QED
  BY <1>1, <1>7, <1>8 DEF head, before, after, Joined, JoinedItems

-----------------------------------------------------------------------------
(***************************************************************************)
(* The list as a path: the live symbols in the order of their offsets, and *)
(* of the links.                                                           *)
(***************************************************************************)
IsPath(syms, n, path) ==
  /\ n \in Nat \ {0}
  /\ path \in [1 .. n -> LiveIn(syms)]
  /\ path[1] = 0
  /\ \A i \in 1 .. n : syms[path[i]].next = IF i = n THEN None ELSE path[i + 1]
  /\ \A k \in LiveIn(syms) : \E i \in 1 .. n : path[i] = k
  /\ \A i, j \in 1 .. n : i < j => path[i] < path[j]

(* Every link, a dead symbol's too, leads to the right.                    *)
Forward(syms) == \A k \in Index : syms[k].next # None => syms[k].next > k

PathPieces(syms, n, path) == [i \in 1 .. n |-> PieceOf(syms[path[i]])]

(* So the pieces are a well-defined function of the list.                  *)
LEMMA PiecesFromDefined ==
  ASSUME Inputs, List(symbols), Forward(symbols)
  PROVE  \A k \in Index \cup {None} : PiecesFrom[k] =
           IF k = None THEN <<>> ELSE <<PieceOf(symbols[k])>> \o PiecesFrom[symbols[k].next]
<1> DEFINE D == Index \cup {None}
           Next1(f, k) == IF k = None THEN <<>>
                          ELSE <<PieceOf(symbols[k])>> \o f[symbols[k].next]
           Solved(f, m) == /\ f = [k \in D |-> f[k]]
                           /\ \A k \in D : k = None \/ k >= Len(text) - m => f[k] = Next1(f, k)
           S == {m \in Nat : \E f : Solved(f, m)}
<1>1. Len(text) \in Nat \ {0} /\ Index \in SUBSET Nat /\ None \notin Nat /\ None \in Int
  BY IndexFacts DEF Inputs, None
<1>2. \A k \in Index : /\ k < Len(text)
                       /\ symbols[k].next \in D
                       /\ symbols[k].next # None => symbols[k].next > k
  BY DEF Forward, List, ListTypes, Symbol, Index, Inputs
<1>3. 0 \in S
  <2> DEFINE f == [k \in D |-> <<>>]
  <2>0. ASSUME NEW k \in D, k = None \/ k >= Len(text) - 0 PROVE k = None
    BY <1>1, <1>2, <2>0
  <2>1. Solved(f, 0)
    BY <2>0
  <2> HIDE DEF Solved
  <2> QED
    BY <2>1
<1>4. ASSUME NEW m \in S PROVE m + 1 \in S
  <2>1. PICK f : Solved(f, m)
    OBVIOUS
  <2> DEFINE g == [k \in D |-> Next1(f, k)]
  <2>2. ASSUME NEW k \in D, k = None \/ k >= Len(text) - (m + 1) PROVE g[k] = Next1(g, k)
    <3>1. g[k] = Next1(f, k)
      OBVIOUS
    <3>2. CASE k = None
      BY <3>1, <3>2
    <3>3. CASE k # None
      <4> DEFINE j == symbols[k].next
      <4>1. k \in Index /\ j \in D /\ (j # None => j > k) /\ k \in Nat /\ (j # None => j \in Nat)
        BY <1>1, <1>2, <3>3
      <4> HIDE DEF j
      <4>2. j = None \/ j >= Len(text) - m
        BY <1>1, <2>2, <3>3, <4>1
      <4>3. f[j] = Next1(f, j)
        BY <2>1, <4>1, <4>2
      <4>4. g[j] = f[j]
        BY <4>1, <4>3
      <4> QED
        BY <3>1, <3>3, <4>4 DEF j
    <3> QED
      BY <3>2, <3>3
  <2>3. Solved(g, m + 1)
    BY <2>2
  <2> HIDE DEF Solved
  <2> QED
    BY <2>3
<1>5. S = Nat
  <2> HIDE DEF S
  <2>1. S \in SUBSET Nat
    BY DEF S
  <2> QED
    BY <1>3, <1>4, <2>1, Induct
<1>6. PICK f : Solved(f, Len(text))
  BY <1>1, <1>5
<1>7. \A k \in D : k = None \/ k >= Len(text) - Len(text)
  BY <1>1
<1>8. f = [k \in D |-> Next1(f, k)]
  BY <1>6, <1>7
<1>9. PiecesFrom = [k \in D |-> Next1(PiecesFrom, k)]
  <2> HIDE DEF D
  <2>1. \E g : g = [k \in D |-> IF k = None THEN <<>>
                                ELSE <<PieceOf(symbols[k])>> \o g[symbols[k].next]]
    BY <1>8
  <2> QED
    BY <2>1 DEF PiecesFrom, D
<1> QED
  BY <1>9

(* What a live symbol covers.                                              *)
LEMMA PieceFacts ==
  ASSUME Inputs, NEW syms, List(syms), NEW k \in LiveIn(syms)
  PROVE  /\ k \in Index /\ k \in Nat /\ syms[k].length \in Nat \ {0}
         /\ k + syms[k].length <= Len(text)
         /\ PieceOf(syms[k]) = Between(k, k + syms[k].length)
         /\ PieceOf(syms[k]) \in Seq(Chars)
<1>1. /\ k \in Index /\ k \in Nat /\ syms[k].offset = k
      /\ syms[k].length \in Nat \ {0} /\ syms[k].next \in Index \cup {None}
  BY IndexFacts DEF LiveIn, List, ListTypes, Symbol, Inputs
<1>2. k + syms[k].length = IF syms[k].next = None THEN Len(text) ELSE syms[k].next
  BY DEF List, Linked
<1>3. k + syms[k].length <= Len(text)
  BY <1>1, <1>2 DEF Index, Inputs
<1>4. PieceOf(syms[k]) = Between(k, k + syms[k].length)
  BY <1>1 DEF PieceOf, Between
<1> DEFINE e == k + syms[k].length
<1>5. e \in Nat /\ k + 1 \in Int /\ \A i \in k + 1 .. e : text[i] \in Chars
  BY <1>1, <1>3 DEF Chars, Inputs
<1> HIDE DEF e
<1>6. Between(k, e) \in Seq(Chars)
  BY <1>5, SubSeqProperties DEF Between
<1> QED
  BY <1>1, <1>3, <1>4, <1>6 DEF e

LEMMA BetweenJoins ==
  ASSUME Inputs, NEW a \in Nat, NEW b \in Nat, NEW c \in Nat,
         a <= b, b <= c, c <= Len(text)
  PROVE  Between(a, b) \o Between(b, c) = Between(a, c)
<1>1. \A i \in 1 .. Len(text) : text[i] \in Chars
  BY DEF Chars
<1>2. ASSUME NEW from \in Nat, NEW to \in Nat, from <= to, to <= Len(text)
      PROVE  /\ Between(from, to) \in Seq(Chars)
             /\ Len(Between(from, to)) = to - from
             /\ \A i \in 1 .. to - from : Between(from, to)[i] = text[from + i]
  <2>1. \A i \in from + 1 .. to : text[i] \in Chars
    BY <1>1, <1>2 DEF Inputs
  <2> DEFINE s == SubSeq(text, from + 1, to)
  <2>2. /\ s \in Seq(Chars)
        /\ Len(s) = IF from + 1 <= to THEN to - (from + 1) + 1 ELSE 0
        /\ \A i \in 1 .. to - (from + 1) + 1 : s[i] = text[(from + 1) + i - 1]
    BY <2>1, SubSeqProperties
  <2> HIDE DEF s
  <2>3. Len(s) = to - from /\ \A i \in 1 .. to - from : s[i] = text[from + i]
    BY <1>2, <2>2
  <2> QED
    BY <2>2, <2>3 DEF s, Between
<1> DEFINE x == Between(a, b)
           y == Between(b, c)
           z == Between(a, c)
<1>3. /\ x \in Seq(Chars) /\ Len(x) = b - a /\ \A i \in 1 .. b - a : x[i] = text[a + i]
      /\ y \in Seq(Chars) /\ Len(y) = c - b /\ \A i \in 1 .. c - b : y[i] = text[b + i]
      /\ z \in Seq(Chars) /\ Len(z) = c - a /\ \A i \in 1 .. c - a : z[i] = text[a + i]
  <2>1. b <= Len(text) /\ a <= c
    BY DEF Inputs
  <2> HIDE DEF x, y, z
  <2>2. /\ x \in Seq(Chars) /\ Len(x) = b - a
        /\ \A i \in 1 .. b - a : x[i] = text[a + i]
    BY <1>2, <2>1 DEF x
  <2>3. /\ y \in Seq(Chars) /\ Len(y) = c - b
        /\ \A i \in 1 .. c - b : y[i] = text[b + i]
    BY <1>2 DEF y
  <2>4. /\ z \in Seq(Chars) /\ Len(z) = c - a
        /\ \A i \in 1 .. c - a : z[i] = text[a + i]
    BY <1>2, <2>1 DEF z
  <2> QED
    BY <2>2, <2>3, <2>4
<1> HIDE DEF x, y, z
<1>4. /\ x \o y \in Seq(Chars) /\ Len(x \o y) = (b - a) + (c - b)
      /\ \A i \in 1 .. (b - a) + (c - b) :
           (x \o y)[i] = IF i <= b - a THEN x[i] ELSE y[i - (b - a)]
  <2>1. /\ x \o y \in Seq(Chars) /\ Len(x \o y) = Len(x) + Len(y)
        /\ \A i \in 1 .. Len(x) + Len(y) :
             (x \o y)[i] = IF i <= Len(x) THEN x[i] ELSE y[i - Len(x)]
    BY <1>3, ConcatProperties
  <2>2. Len(x) = b - a /\ Len(y) = c - b
    BY <1>3
  <2> QED
    BY <2>1, <2>2, Zenon
<1>5. (b - a) + (c - b) = c - a
  OBVIOUS
<1>6. ASSUME NEW i \in 1 .. c - a PROVE (x \o y)[i] = z[i]
  <2>1. CASE i <= b - a
    BY <1>3, <1>4, <1>5, <2>1
  <2>2. CASE i > b - a
    <3>1. i - (b - a) \in 1 .. c - b /\ b + (i - (b - a)) = a + i
      BY <2>2
    <3>2. (x \o y)[i] = y[i - (b - a)]
      BY <1>4, <1>5, <2>2
    <3> QED
      BY <1>3, <3>1, <3>2
  <2>3. i <= b - a \/ i > b - a
    OBVIOUS
  <2> QED
    BY <2>1, <2>2, <2>3
<1>7. x \o y = z
  BY <1>3, <1>4, <1>5, <1>6, SeqEqual
<1> QED
  BY <1>7 DEF x, y, z

(* Following the links from the first symbol gives the pieces of the path. *)
ListInv ==
  /\ Inputs
  /\ symbols # <<>> => List(symbols) /\ Forward(symbols)

PiecesArePaths ==
  symbols # <<>> =>
    \A n, path : IsPath(symbols, n, path) =>
      /\ Pieces = PathPieces(symbols, n, path)
      /\ Pieces \in [1 .. n -> Seq(Chars)]

LEMMA PiecesFollowPath == ListInv => PiecesArePaths
<1> SUFFICES ASSUME ListInv, symbols # <<>>, NEW n, NEW path, IsPath(symbols, n, path)
             PROVE  /\ Pieces = PathPieces(symbols, n, path)
                    /\ Pieces \in [1 .. n -> Seq(Chars)]
  BY DEF PiecesArePaths
<1> DEFINE P(i) == PieceOf(symbols[path[i]])
           suffix(i) == [q \in 1 .. (n - i) + 1 |-> P(q + (i - 1))]
           S == {m \in Nat : \A i \in 1 .. n : n - i = m => PiecesFrom[path[i]] = suffix(i)}
<1>1. Inputs /\ List(symbols) /\ Forward(symbols)
  BY DEF ListInv
<1>2. /\ n \in Nat \ {0} /\ path \in [1 .. n -> LiveIn(symbols)] /\ path[1] = 0
      /\ \A i \in 1 .. n : symbols[path[i]].next = IF i = n THEN None ELSE path[i + 1]
  BY DEF IsPath
<1>3. \A i \in 1 .. n : P(i) \in Seq(Chars) /\ path[i] \in Index /\ path[i] # None
  BY <1>1, <1>2, PieceFacts, IndexFacts
<1>4. /\ PiecesFrom[None] = <<>>
      /\ \A i \in 1 .. n : PiecesFrom[path[i]] = <<P(i)>> \o PiecesFrom[symbols[path[i]].next]
  BY <1>1, <1>3, PiecesFromDefined
<1> HIDE DEF P
<1>5. 0 \in S
  <2> SUFFICES ASSUME NEW i \in 1 .. n, n - i = 0
               PROVE  PiecesFrom[path[i]] = suffix(i)
    OBVIOUS
  <2>1. i = n
    BY <1>2
  <2>2. n \in 1 .. n
    BY <1>2
  <2>3. PiecesFrom[path[n]] = <<P(n)>> \o <<>>
    <3>1. symbols[path[n]].next = None
      BY <1>2, <2>2
    <3> QED
      BY <1>4, <2>2, <3>1
  <2>4. <<>> \in Seq(Seq(Chars)) /\ Len(<<>>) = 0
    OBVIOUS
  <2>5. <<P(n)>> \o <<>> = [q \in 1 .. 0 + 1 |-> IF q = 1 THEN P(n) ELSE <<>>[q - 1]]
    BY <1>3, <2>2, <2>4, Prepend
  <2>6. suffix(n) = [q \in 1 .. 1 |-> P(n)]
    <3>1. (n - n) + 1 = 1 /\ \A q \in 1 .. 1 : q + (n - 1) = n
      BY <1>2
    <3> QED
      BY <3>1
  <2>7. \A q \in 1 .. 0 + 1 : q = 1
    OBVIOUS
  <2> QED
    BY <2>1, <2>3, <2>5, <2>6, <2>7
<1>6. ASSUME NEW m \in S PROVE m + 1 \in S
  <2>0. m + 1 \in Nat
    OBVIOUS
  <2> SUFFICES ASSUME NEW i \in 1 .. n, n - i = m + 1
               PROVE  PiecesFrom[path[i]] = suffix(i)
    BY <2>0
  <2>1. i # n /\ i + 1 \in 1 .. n /\ n - (i + 1) = m
    BY <1>2
  <2>2. PiecesFrom[path[i + 1]] = suffix(i + 1)
    BY <2>1
  <2>3. PiecesFrom[path[i]] = <<P(i)>> \o suffix(i + 1)
    BY <1>2, <1>4, <2>1, <2>2
  <2> DEFINE s == suffix(i + 1)
  <2>4. s \in Seq(Seq(Chars)) /\ Len(s) = n - i
    <3>1. (n - (i + 1)) + 1 = n - i /\ n - i \in Nat
      BY <1>2
    <3>2. \A q \in 1 .. n - i : q + ((i + 1) - 1) \in 1 .. n
      BY <1>2
    <3>3. s \in [1 .. n - i -> Seq(Chars)]
      BY <1>3, <3>1, <3>2
    <3> HIDE DEF s
    <3> QED
      BY <3>1, <3>3
  <2>5. <<P(i)>> \o s = [q \in 1 .. (n - i) + 1 |-> IF q = 1 THEN P(i) ELSE s[q - 1]]
    <3> HIDE DEF s
    <3> QED
      BY <1>3, <2>4, Prepend
  <2>6. ASSUME NEW q \in 1 .. (n - i) + 1
        PROVE  (IF q = 1 THEN P(i) ELSE s[q - 1]) = P(q + (i - 1))
    <3>1. CASE q = 1
      <4>1. 1 + (i - 1) = i
        OBVIOUS
      <4> QED
        BY <3>1, <4>1
    <3>2. CASE q # 1
      <4>1. /\ q - 1 \in 1 .. (n - (i + 1)) + 1
            /\ (q - 1) + ((i + 1) - 1) = q + (i - 1)
        BY <1>2, <3>2
      <4> QED
        BY <3>2, <4>1
    <3> QED
      BY <3>1, <3>2
  <2>7. [q \in 1 .. (n - i) + 1 |-> IF q = 1 THEN P(i) ELSE s[q - 1]] = suffix(i)
    BY <2>6
  <2> QED
    BY <2>3, <2>5, <2>7
<1>7. S = Nat
  <2> HIDE DEF S
  <2>1. S \in SUBSET Nat
    BY DEF S
  <2> QED
    BY <1>5, <1>6, <2>1, Induct
<1>8. 1 \in 1 .. n /\ n - 1 \in Nat
  BY <1>2
<1>9. PiecesFrom[0] = suffix(1)
  BY <1>2, <1>7, <1>8
<1>10. suffix(1) = [q \in 1 .. n |-> P(q)]
  <2>1. (n - 1) + 1 = n /\ \A q \in 1 .. n : q + (1 - 1) = q
    BY <1>2
  <2> QED
    BY <2>1
<1>11. Pieces = [q \in 1 .. n |-> P(q)]
  BY <1>9, <1>10 DEF Pieces
<1> QED
  BY <1>3, <1>11 DEF PathPieces, P

-----------------------------------------------------------------------------
(* A merge takes the right symbol out of the path, and joins two pieces.   *)
JoinedPath(path, j, n) ==
  [i \in 1 .. n - 1 |-> IF i <= j THEN path[i] ELSE path[i + 1]]

LEMMA MergedPath ==
  ASSUME Inputs, List(symbols), Forward(symbols),
         NEW n, NEW path, IsPath(symbols, n, path),
         NEW left, NEW right, right = symbols[left].next, right # None,
         NEW j \in 1 .. n, path[j] = left
  PROVE  /\ j \in 1 .. n - 1 /\ path[j + 1] = right
         /\ Forward(Absorbed(left, right))
         /\ IsPath(Absorbed(left, right), n - 1, JoinedPath(path, j, n))
<1> DEFINE syms   == Absorbed(left, right)
           after  == symbols[right].next
           joined == [i \in 1 .. n - 1 |-> IF i <= j THEN path[i] ELSE path[i + 1]]
<1>1. /\ n \in Nat \ {0} /\ path \in [1 .. n -> LiveIn(symbols)] /\ path[1] = 0
      /\ \A i \in 1 .. n : symbols[path[i]].next = IF i = n THEN None ELSE path[i + 1]
      /\ \A k \in LiveIn(symbols) : \E i \in 1 .. n : path[i] = k
      /\ \A i, m \in 1 .. n : i < m => path[i] < path[m]
  BY DEF IsPath
<1>2. left \in LiveIn(symbols) /\ j # n /\ path[j + 1] = right /\ j \in 1 .. n - 1
  BY <1>1
<1>3. /\ right \in LiveIn(symbols) /\ right # left
      /\ syms \in [Index -> Symbol] /\ after \in Index \cup {None}
      /\ \A k \in Index : syms[k].next = IF k = left THEN after ELSE symbols[k].next
  BY <1>2, AbsorbedFields
<1>4. LiveIn(syms) = LiveIn(symbols) \ {right}
  BY <1>2, AbsorbedList
<1>5. left \in Index /\ right \in Index /\ left \in Nat /\ right \in Nat /\ None \notin Nat
      /\ \A k \in LiveIn(symbols) : k \in Index /\ k \in Nat
  BY <1>2, <1>3, IndexFacts DEF LiveIn
<1>6. Forward(syms)
  <2> SUFFICES ASSUME NEW k \in Index, syms[k].next # None PROVE syms[k].next > k
    BY DEF Forward
  <2>1. CASE k # left
    BY <1>3, <2>1 DEF Forward
  <2>2. CASE k = left
    <3>1. after > right /\ right > left
      BY <1>3, <1>5, <2>2 DEF Forward
    <3>2. after \in Int
      BY <1>3, IndexFacts DEF None
    <3> QED
      BY <1>3, <1>5, <2>2, <3>1, <3>2
  <2> QED
    BY <2>1, <2>2
<1>7. \A i \in 1 .. n : path[i] = right <=> i = j + 1
  <2> SUFFICES ASSUME NEW i \in 1 .. n, path[i] = right PROVE i = j + 1
    BY <1>2
  <2>1. path[i] \in Nat /\ path[j + 1] \in Nat /\ j + 1 \in 1 .. n
    BY <1>1, <1>2, <1>5
  <2>2. /\ i < j + 1 => path[i] < path[j + 1]
        /\ j + 1 < i => path[j + 1] < path[i]
    BY <1>1, <2>1
  <2> QED
    BY <1>2, <2>1, <2>2
<1> HIDE DEF syms, after
<1>8. n - 1 \in Nat \ {0} /\ 1 \in 1 .. n - 1 /\ joined[1] = 0
  BY <1>1, <1>2
<1>9. joined \in [1 .. n - 1 -> LiveIn(syms)]
  <2> SUFFICES ASSUME NEW i \in 1 .. n - 1 PROVE joined[i] \in LiveIn(syms)
    OBVIOUS
  <2>1. CASE i <= j
    <3>1. i \in 1 .. n /\ i # j + 1
      BY <1>1, <2>1
    <3>2. path[i] \in LiveIn(symbols) /\ path[i] # right
      BY <1>1, <1>7, <3>1
    <3> QED
      BY <1>4, <2>1, <3>2
  <2>2. CASE ~(i <= j)
    <3>1. i + 1 \in 1 .. n /\ i + 1 # j + 1
      BY <1>1, <2>2
    <3>2. path[i + 1] \in LiveIn(symbols) /\ path[i + 1] # right
      BY <1>1, <1>7, <3>1
    <3> QED
      BY <1>4, <2>2, <3>2
  <2> QED
    BY <2>1, <2>2
<1>10. ASSUME NEW i \in 1 .. n - 1
       PROVE  syms[joined[i]].next = IF i = n - 1 THEN None ELSE joined[i + 1]
  <2>1. CASE i < j
    <3>1. i \in 1 .. n /\ i # n /\ i # n - 1 /\ i + 1 <= j /\ i + 1 \in 1 .. n - 1
      BY <1>1, <2>1
    <3>2. joined[i] = path[i] /\ joined[i + 1] = path[i + 1]
      BY <2>1, <3>1
    <3>3. path[i] # left /\ path[i] \in Index
      <4>1. path[i] < path[j] /\ path[i] \in LiveIn(symbols)
        BY <1>1, <2>1, <3>1
      <4> QED
        BY <1>5, <4>1
    <3> QED
      BY <1>1, <1>3, <3>1, <3>2, <3>3
  <2>2. CASE i = j
    <3>1. joined[i] = left /\ syms[left].next = symbols[path[j + 1]].next
      BY <1>2, <1>3, <1>5, <2>2 DEF after
    <3>2. j + 1 \in 1 .. n /\ (j + 1 = n <=> i = n - 1)
      <4>1. n \in Nat /\ j \in Nat /\ j \in 1 .. n - 1
        BY <1>1, <1>2
      <4> QED
        BY <2>2, <4>1
    <3>3. i # n - 1 => i + 1 \in 1 .. n - 1 /\ ~(i + 1 <= j) /\ (j + 1) + 1 = (i + 1) + 1
      BY <1>1, <2>2
    <3> QED
      BY <1>1, <3>1, <3>2, <3>3
  <2>3. CASE i > j
    <3>1. i + 1 \in 1 .. n /\ (i + 1 = n <=> i = n - 1) /\ ~(i <= j)
      BY <1>1, <2>3
    <3>2. joined[i] = path[i + 1]
      BY <3>1
    <3>3. i # n - 1 => i + 1 \in 1 .. n - 1 /\ joined[i + 1] = path[(i + 1) + 1]
      <4>1. i # n - 1 => i + 1 \in 1 .. n - 1 /\ ~(i + 1 <= j)
        BY <1>1, <2>3
      <4> QED
        BY <4>1
    <3>4. path[i + 1] # left /\ path[i + 1] \in Index
      <4>1. path[j] < path[i + 1] /\ path[i + 1] \in LiveIn(symbols)
        BY <1>1, <2>3, <3>1
      <4> QED
        BY <1>5, <4>1
    <3> QED
      BY <1>1, <1>3, <3>1, <3>2, <3>3, <3>4
  <2>4. i < j \/ i = j \/ i > j
    OBVIOUS
  <2> QED
    BY <2>1, <2>2, <2>3, <2>4
<1>11. ASSUME NEW k \in LiveIn(syms) PROVE \E i \in 1 .. n - 1 : joined[i] = k
  <2>1. PICK m \in 1 .. n : path[m] = k
    BY <1>1, <1>4
  <2>2. m # j + 1
    BY <1>4, <1>7, <2>1
  <2>3. CASE m <= j
    <3>1. m \in 1 .. n - 1 /\ joined[m] = path[m]
      BY <1>1, <1>2, <2>3
    <3> QED
      BY <2>1, <3>1
  <2>4. CASE m > j
    <3>1. m - 1 \in 1 .. n - 1 /\ ~(m - 1 <= j) /\ (m - 1) + 1 = m
      BY <1>1, <2>2, <2>4
    <3>2. joined[m - 1] = path[m]
      BY <3>1
    <3> QED
      BY <2>1, <3>1, <3>2
  <2>5. m <= j \/ m > j
    OBVIOUS
  <2> QED
    BY <2>3, <2>4, <2>5
<1>12. ASSUME NEW i \in 1 .. n - 1, NEW m \in 1 .. n - 1, i < m
       PROVE  joined[i] < joined[m]
  <2> DEFINE a == IF i <= j THEN i ELSE i + 1
             b == IF m <= j THEN m ELSE m + 1
  <2>1. a \in 1 .. n /\ b \in 1 .. n /\ a < b
    BY <1>1, <1>12
  <2>2. joined[i] = path[a] /\ joined[m] = path[b]
    OBVIOUS
  <2> HIDE DEF a, b, joined
  <2> QED
    BY <1>1, <2>1, <2>2
<1>13. IsPath(syms, n - 1, joined)
  <2> HIDE DEF joined
  <2> QED
    BY <1>8, <1>9, <1>10, <1>11, <1>12 DEF IsPath
<1> QED
  BY <1>2, <1>6, <1>13 DEF syms, JoinedPath

(* The pieces after it: two neighbours have become one.                    *)
LEMMA MergedPieces ==
  ASSUME Inputs, List(symbols), Forward(symbols),
         NEW n, NEW path, IsPath(symbols, n, path),
         NEW left, NEW right, right = symbols[left].next, right # None,
         NEW j \in 1 .. n, path[j] = left,
         NEW pieces, pieces = PathPieces(symbols, n, path)
  PROVE  PathPieces(Absorbed(left, right), n - 1, JoinedPath(path, j, n)) =
           Joined(pieces, j, pieces[j] \o pieces[j + 1])
<1> DEFINE syms   == Absorbed(left, right)
           joined == [i \in 1 .. n - 1 |-> IF i <= j THEN path[i] ELSE path[i + 1]]
           both   == pieces[j] \o pieces[j + 1]
<1>1. /\ n \in Nat \ {0} /\ path \in [1 .. n -> LiveIn(symbols)]
      /\ \A i \in 1 .. n : symbols[path[i]].next = IF i = n THEN None ELSE path[i + 1]
      /\ \A i, m \in 1 .. n : i < m => path[i] < path[m]
  BY DEF IsPath
<1>2. /\ j \in 1 .. n - 1 /\ j + 1 \in 1 .. n /\ path[j + 1] = right
      /\ left \in LiveIn(symbols)
  BY <1>1
<1>3. /\ right \in LiveIn(symbols) /\ right # left
      /\ \A k \in Index :
           /\ syms[k].offset = k
           /\ syms[k].length = IF k = left THEN symbols[left].length + symbols[right].length
                               ELSE IF k = right THEN 0 ELSE symbols[k].length
  BY <1>2, AbsorbedFields
<1>4. LiveIn(syms) = LiveIn(symbols) \ {right} /\ left \in LiveIn(syms) /\ List(syms)
  BY <1>2, AbsorbedList
<1>5. \A i \in 1 .. n : pieces[i] = PieceOf(symbols[path[i]]) /\ pieces[i] \in Seq(Chars)
                        /\ path[i] \in Index /\ path[i] \in Nat
  BY <1>1, PieceFacts DEF PathPieces
<1>6. both = PieceOf(syms[left])
  <2> DEFINE f == right + symbols[right].length
  <2>1. /\ pieces[j] = Between(left, left + symbols[left].length)
        /\ pieces[j + 1] = Between(right, f)
        /\ left \in Nat /\ right \in Nat /\ f \in Nat /\ f <= Len(text)
        /\ symbols[left].length \in Nat /\ symbols[right].length \in Nat
    <3>1. /\ pieces[j] = PieceOf(symbols[left]) /\ pieces[j + 1] = PieceOf(symbols[right])
      BY <1>2, <1>5
    <3>2. /\ left \in Nat /\ symbols[left].length \in Nat
          /\ PieceOf(symbols[left]) = Between(left, left + symbols[left].length)
      BY <1>2, PieceFacts
    <3>3. /\ right \in Nat /\ symbols[right].length \in Nat /\ f <= Len(text)
          /\ PieceOf(symbols[right]) = Between(right, f)
      BY <1>3, PieceFacts
    <3>4. f \in Nat
      BY <3>3
    <3> HIDE DEF f
    <3> QED
      BY <3>1, <3>2, <3>3, <3>4
  <2>2. left + symbols[left].length = right
    BY <1>2 DEF List, Linked
  <2>3. /\ PieceOf(syms[left]) = Between(left, left + syms[left].length)
        /\ left \in Index
    BY <1>4, PieceFacts
  <2>4. left + syms[left].length = f
    <3>1. syms[left].length = symbols[left].length + symbols[right].length
      BY <1>3, <2>3
    <3> QED
      BY <2>1, <2>2, <3>1
  <2>5. left <= right /\ right <= f
    <3>1. /\ left \in Nat /\ right \in Nat
          /\ symbols[left].length \in Nat /\ symbols[right].length \in Nat
      BY <2>1
    <3>2. left <= right
      BY <2>2, <3>1
    <3> QED
      BY <3>1, <3>2
  <2> HIDE DEF f, syms
  <2>6. Between(left, right) \o Between(right, f) = Between(left, f)
    BY <2>1, <2>5, BetweenJoins
  <2> QED
    BY <2>1, <2>2, <2>3, <2>4, <2>6
<1>7. \A i \in 1 .. n : path[i] # left /\ path[i] # right =>
        PieceOf(syms[path[i]]) = pieces[i]
  <2> HIDE DEF syms
  <2> QED
    BY <1>3, <1>5 DEF PieceOf, List, ListTypes
<1> HIDE DEF syms
<1>8. \A i \in 1 .. n : (path[i] = left <=> i = j) /\ (path[i] = right <=> i = j + 1)
  <2> SUFFICES ASSUME NEW i \in 1 .. n
               PROVE  (path[i] = left => i = j) /\ (path[i] = right => i = j + 1)
    BY <1>2
  <2>1. /\ i < j => path[i] < path[j]
        /\ j < i => path[j] < path[i]
        /\ i < j + 1 => path[i] < path[j + 1]
        /\ j + 1 < i => path[j + 1] < path[i]
    BY <1>1, <1>2
  <2>2. path[i] \in Nat /\ path[j] \in Nat /\ path[j + 1] \in Nat
    BY <1>2, <1>5
  <2> QED
    BY <1>2, <2>1, <2>2
<1>9. \A i \in 1 .. n - 1 : PieceOf(syms[joined[i]]) =
        IF i < j THEN pieces[i] ELSE IF i = j THEN both ELSE pieces[i + 1]
  <2> SUFFICES ASSUME NEW i \in 1 .. n - 1
               PROVE  PieceOf(syms[joined[i]]) =
                        IF i < j THEN pieces[i] ELSE IF i = j THEN both ELSE pieces[i + 1]
    OBVIOUS
  <2> HIDE DEF both
  <2>1. CASE i < j
    <3>1. i \in 1 .. n /\ i <= j /\ i # j /\ i # j + 1
      BY <1>1, <2>1
    <3> QED
      BY <1>7, <1>8, <2>1, <3>1
  <2>2. CASE i = j
    <3>1. joined[i] = left /\ ~(i < j)
      BY <1>2, <2>2
    <3> QED
      BY <1>6, <2>2, <3>1
  <2>3. CASE i > j
    <3>1. i + 1 \in 1 .. n /\ ~(i <= j) /\ ~(i < j) /\ i # j /\ i + 1 # j /\ i + 1 # j + 1
      BY <1>1, <2>3
    <3> QED
      BY <1>7, <1>8, <3>1
  <2>4. i < j \/ i = j \/ i > j
    OBVIOUS
  <2> QED
    BY <2>1, <2>2, <2>3, <2>4
<1>10. both \in Seq(Chars)
  BY <1>4, <1>6, PieceFacts
<1>11. pieces \in [1 .. n -> Seq(Chars)]
  BY <1>5 DEF PathPieces
<1>12. Joined(pieces, j, both) = JoinedItems(pieces, j, both, n)
  <2> DEFINE S == Seq(Chars)
  <2>1. n \in Nat /\ j \in 1 .. n - 1 /\ both \in S /\ pieces \in [1 .. n -> S]
    BY <1>1, <1>2, <1>10, <1>11
  <2> HIDE DEF both, S
  <2> QED
    BY <2>1, JoinedFacts
<1>13. PathPieces(syms, n - 1, joined) = JoinedItems(pieces, j, both, n)
  <2> HIDE DEF both, joined
  <2> QED
    BY <1>9 DEF PathPieces, JoinedItems
<1> QED
  BY <1>12, <1>13 DEF syms, both, joined, JoinedPath

-----------------------------------------------------------------------------
(***************************************************************************)
(* The invariant of the refinement: the list is a path, and the final walk *)
(* has come some way along it.                                             *)
(***************************************************************************)
Walked ==
  \E n, path :
    /\ IsPath(symbols, n, path)
    /\ \E i \in 1 .. n + 1 :
         /\ index = IF i = n + 1 THEN None ELSE path[i]
         /\ Len(output) = i - 1
         /\ \A q \in 1 .. i - 1 : output[q] = PieceOf(symbols[path[q]])

RInv ==
  /\ IInv
  /\ symbols # <<>> => Forward(symbols) /\ \E n, path : IsPath(symbols, n, path)
  /\ phase = "start" => symbols = <<>>
  /\ phase \in {"start", "merging"} => index = 0 /\ output = <<>>
  /\ phase \in {"merging", "emitting"} => ~WholeEntry
  /\ phase = "emitting" => Queued(symbols, {}) /\ Walked

LEMMA PathKept ==
  ASSUME UNCHANGED <<text, merges>>
  PROVE  /\ Forward(symbols)' <=> Forward(symbols')
         /\ \A n, path : /\ IsPath(symbols, n, path)' <=> IsPath(symbols', n, path)
                         /\ PathPieces(symbols, n, path)' = PathPieces(symbols', n, path)
<1>1. Index' = Index
  BY DEF Index
<1>2. LiveIn(symbols)' = LiveIn(symbols')
  BY <1>1 DEF LiveIn
<1>3. Forward(symbols)' <=> Forward(symbols')
  BY <1>1 DEF Forward
<1>4. ASSUME NEW n, NEW path
      PROVE  /\ IsPath(symbols, n, path)' <=> IsPath(symbols', n, path)
             /\ PathPieces(symbols, n, path)' = PathPieces(symbols', n, path)
  BY <1>2 DEF IsPath, PathPieces, PieceOf
<1> QED
  BY <1>3, <1>4

LEMMA InitRInv == Init => RInv
<1> SUFFICES ASSUME Init PROVE RInv
  OBVIOUS
<1> QED
  BY InitIInv DEF Init, RInv

(* The characters are a path, and so are the pieces still.                 *)
LEMMA SplitPath ==
  ASSUME Inputs
  PROVE  /\ Characters # <<>> /\ Forward(Characters)
         /\ \E n, path :
              /\ IsPath(Characters, n, path)
              /\ PathPieces(Characters, n, path) = [k \in 1 .. Len(text) |-> <<text[k]>>]
<1> DEFINE n    == Len(text)
           path == [i \in 1 .. n |-> i - 1]
<1>1. n \in Nat \ {0} /\ Index = 0 .. n - 1 /\ None = -1 /\ 0 \in Index
  BY DEF Inputs, Index, None
<1>2. ASSUME NEW k \in Index
      PROVE  /\ Characters[k].offset = k /\ Characters[k].length = 1
             /\ Characters[k].next = IF k + 1 \in Index THEN k + 1 ELSE None
  <2>1. Characters[k] = [offset |-> k, length |-> 1, prev |-> k - 1,
                         next |-> IF k + 1 \in Index THEN k + 1 ELSE None]
    BY DEF Characters
  <2> QED
    BY <2>1
<1>3. Characters # <<>>
  <2>1. DOMAIN Characters = Index /\ DOMAIN <<>> = {}
    BY DEF Characters
  <2> QED
    BY <1>1, <2>1
<1> HIDE DEF n
<1>4. Forward(Characters)
  <2> SUFFICES ASSUME NEW k \in Index, Characters[k].next # None
               PROVE  Characters[k].next > k
    BY DEF Forward
  <2>1. Characters[k].next = k + 1 /\ k \in Nat
    BY <1>1, <1>2
  <2> QED
    BY <2>1
<1>5. LiveIn(Characters) = Index
  BY <1>2 DEF LiveIn
<1>6. \A i \in 1 .. n : path[i] = i - 1 /\ path[i] \in Index /\ i \in Nat
  BY <1>1
<1>7. ASSUME NEW i \in 1 .. n
      PROVE  Characters[path[i]].next = IF i = n THEN None ELSE path[i + 1]
  <2>1. Characters[i - 1].next = IF (i - 1) + 1 \in Index THEN (i - 1) + 1 ELSE None
    BY <1>2, <1>6
  <2>2. CASE i = n
    <3>1. (i - 1) + 1 \notin Index
      BY <1>1, <2>2
    <3> QED
      BY <1>6, <2>1, <2>2, <3>1
  <2>3. CASE i # n
    <3>1. (i - 1) + 1 \in Index /\ i + 1 \in 1 .. n /\ (i - 1) + 1 = (i + 1) - 1
      BY <1>1, <2>3
    <3> QED
      BY <1>6, <2>1, <2>3, <3>1
  <2> QED
    BY <2>2, <2>3
<1>8. \A k \in Index : \E i \in 1 .. n : path[i] = k
  <2> SUFFICES ASSUME NEW k \in Index PROVE \E i \in 1 .. n : path[i] = k
    OBVIOUS
  <2>1. k + 1 \in 1 .. n /\ (k + 1) - 1 = k
    BY <1>1
  <2>2. path[k + 1] = k
    BY <1>6, <2>1
  <2> QED
    BY <2>1, <2>2
<1>9. path[1] = 0 /\ \A i, j \in 1 .. n : i < j => path[i] < path[j]
  BY <1>1
<1>10. path \in [1 .. n -> Index]
  BY <1>6
<1>11. IsPath(Characters, n, path)
  <2> HIDE DEF path
  <2> QED
    BY <1>1, <1>5, <1>7, <1>8, <1>9, <1>10 DEF IsPath
<1>12. ASSUME NEW i \in 1 .. n PROVE PieceOf(Characters[path[i]]) = <<text[i]>>
  <2>1. /\ Characters[path[i]].offset = i - 1 /\ Characters[path[i]].length = 1
        /\ (i - 1) + 1 = i
    BY <1>2, <1>6
  <2>2. PieceOf(Characters[path[i]]) = SubSeq(text, i, i)
    BY <2>1 DEF PieceOf
  <2> DEFINE t == SubSeq(text, i, i)
  <2>3. i \in Int /\ \A q \in i .. i : text[q] \in Chars
    BY DEF Chars, n
  <2>4. t \in Seq(Chars) /\ Len(t) = 1 /\ t[1] = text[i]
    <3>1. /\ t \in Seq(Chars)
          /\ Len(t) = IF i <= i THEN i - i + 1 ELSE 0
          /\ \A q \in 1 .. i - i + 1 : t[q] = text[i + q - 1]
      BY <2>3, SubSeqProperties
    <3>2. i - i + 1 = 1 /\ i + 1 - 1 = i
      BY <2>3
    <3> HIDE DEF t
    <3> QED
      BY <2>3, <3>1, <3>2
  <2> HIDE DEF t
  <2>5. t = <<text[i]>>
    BY <2>4
  <2> QED
    BY <2>2, <2>5 DEF t
<1>13. PathPieces(Characters, n, path) = [k \in 1 .. n |-> <<text[k]>>]
  <2> HIDE DEF path
  <2> QED
    BY <1>12 DEF PathPieces
<1> QED
  BY <1>3, <1>4, <1>11, <1>13 DEF n

LEMMA NextRInv == RInv /\ [Next]_vars => RInv'
<1> SUFFICES ASSUME RInv, [Next]_vars PROVE RInv'
  OBVIOUS
<1>1. IInv /\ IInv'
  BY NextIInv DEF RInv
<1>2. ASSUME UNCHANGED <<text, merges, symbols>>
      PROVE  /\ symbols' # <<>> => Forward(symbols)' /\ \E n, path : IsPath(symbols, n, path)'
             /\ \A n, path : IsPath(symbols, n, path)' <=> IsPath(symbols, n, path)
             /\ Queued(symbols, {})' <=> Queued(symbols, {})
  <2>1. Queued(symbols, {})' <=> Queued(symbols, {})
    BY <1>2 DEF Queued, LiveIn, Index, PairOf, PieceOf, Ranked, Rank
  <2> QED
    BY <1>2, <2>1, PathKept DEF RInv
<1>3. ASSUME UNCHANGED <<text, merges, symbols>>, phase' \in {"done", "failed"}
      PROVE  RInv'
  BY <1>1, <1>2, <1>3 DEF RInv
<1>4. CASE EmitWhole \/ PieceUnknown \/ Return
  BY <1>3, <1>4 DEF EmitWhole, PieceUnknown, Return, params
<1>5. CASE Split
  <2>1. /\ symbols' = Characters /\ phase' = "merging" /\ ~WholeEntry
        /\ UNCHANGED <<text, merges, vocab, ignoreMerges, index, output>>
        /\ index = 0 /\ output = <<>> /\ Inputs
    BY <1>1, <1>5 DEF Split, params, RInv, IInv
  <2>2. Forward(symbols') /\ \E n, path : IsPath(symbols', n, path)
    BY <2>1, SplitPath
  <2>3. WholeEntry' <=> WholeEntry
    BY <2>1 DEF WholeEntry
  <2> QED
    BY <1>1, <2>1, <2>2, <2>3, PathKept DEF RInv
<1>6. CASE Skip
  <2>1. /\ phase = "merging" /\ UNCHANGED <<text, merges, vocab, ignoreMerges>>
        /\ UNCHANGED <<symbols, index, output, phase>>
    BY <1>6 DEF Skip, params
  <2>2. WholeEntry' <=> WholeEntry
    BY <2>1 DEF WholeEntry
  <2> QED
    BY <1>1, <1>2, <2>1, <2>2 DEF RInv
<1>7. CASE Merge
  <2>1. PICK top \in queue : Fresh(top) /\ symbols' = Absorbed(top.left, top.right)
    BY <1>7 DEF Merge
  <2>2. /\ phase = "merging" /\ UNCHANGED <<text, merges, vocab, ignoreMerges>>
        /\ UNCHANGED <<index, output, phase>>
    BY <1>7 DEF Merge, params
  <2>3. List(symbols) /\ Inputs /\ top \in Entries /\ symbols # <<>>
    BY <1>1, <2>2 DEF IInv
  <2>4. /\ top.left \in LiveIn(symbols) /\ top.right # None
        /\ top.right = symbols[top.left].next
    BY <2>1, <2>3, FreshIsPair
  <2>5. PICK n, path : IsPath(symbols, n, path)
    BY <2>3 DEF RInv
  <2>6. PICK j \in 1 .. n : path[j] = top.left
    BY <2>4, <2>5 DEF IsPath
  <2>7. Forward(symbols') /\ \E m, joined : IsPath(symbols', m, joined)
    BY <2>1, <2>3, <2>4, <2>5, <2>6, MergedPath DEF RInv
  <2>8. WholeEntry' <=> WholeEntry
    BY <2>2 DEF WholeEntry
  <2> QED
    BY <1>1, <2>2, <2>7, <2>8, PathKept DEF RInv
<1>8. CASE MergesDone
  <2>1. /\ phase = "merging" /\ queue = {} /\ phase' = "emitting"
        /\ UNCHANGED <<text, merges, vocab, ignoreMerges>>
        /\ UNCHANGED <<symbols, index, output>>
    BY <1>8 DEF MergesDone, params
  <2>2. WholeEntry' <=> WholeEntry
    BY <2>1 DEF WholeEntry
  <2>3. Queued(symbols, {})
    BY <1>1, <2>1 DEF IInv
  <2>4. PICK n, path : IsPath(symbols, n, path)
    BY <1>1, <2>1 DEF IInv, RInv
  <2>5. index = 0 /\ output = <<>> /\ n \in Nat \ {0} /\ path[1] = 0
    BY <2>1, <2>4 DEF RInv, IsPath
  <2>6. Walked'
    <3>1. 1 \in 1 .. n + 1 /\ 1 # n + 1 /\ Len(<<>>) = 1 - 1 /\ 1 .. 1 - 1 = {}
      BY <2>5
    <3>2. IsPath(symbols, n, path)'
      BY <1>2, <2>1, <2>4
    <3> QED
      BY <2>1, <2>5, <3>1, <3>2 DEF Walked
  <2> QED
    BY <1>1, <1>2, <2>1, <2>2, <2>3, <2>6 DEF RInv
<1>9. CASE Emit
  <2>1. /\ phase = "emitting" /\ index # None
        /\ output' = Append(output, PieceOf(symbols[index]))
        /\ index' = symbols[index].next
        /\ UNCHANGED <<text, merges, vocab, ignoreMerges>>
        /\ UNCHANGED <<symbols, phase>>
    BY <1>9 DEF Emit, params
  <2>2. WholeEntry' <=> WholeEntry
    BY <2>1 DEF WholeEntry
  <2>3. PICK n, path :
           /\ IsPath(symbols, n, path)
           /\ \E i \in 1 .. n + 1 :
                /\ index = IF i = n + 1 THEN None ELSE path[i]
                /\ Len(output) = i - 1
                /\ \A q \in 1 .. i - 1 : output[q] = PieceOf(symbols[path[q]])
    BY <2>1 DEF RInv, Walked
  <2>4. PICK i \in 1 .. n + 1 :
           /\ index = IF i = n + 1 THEN None ELSE path[i]
           /\ Len(output) = i - 1
           /\ \A q \in 1 .. i - 1 : output[q] = PieceOf(symbols[path[q]])
    BY <2>3
  <2>5. n \in Nat \ {0} /\ i \in 1 .. n /\ index = path[i]
        /\ symbols[index].next = IF i = n THEN None ELSE path[i + 1]
    <3>1. n \in Nat \ {0}
      BY <2>3 DEF IsPath
    <3>2. i # n + 1
      BY <2>1, <2>4
    <3>3. i \in 1 .. n
      BY <3>1, <3>2
    <3> QED
      BY <2>3, <2>4, <3>1, <3>2, <3>3 DEF IsPath
  <2>6. output \in Seq(vocab)
    BY <1>1 DEF IInv
  <2>7. /\ Len(output') = (i + 1) - 1
        /\ \A q \in 1 .. (i + 1) - 1 : output'[q] = PieceOf(symbols[path[q]])
    <3> DEFINE e == PieceOf(symbols[index])
    <3> HIDE DEF e
    <3>1. /\ Len(output') = Len(output) + 1
          /\ \A q \in 1 .. Len(output) + 1 :
               output'[q] = IF q <= Len(output) THEN output[q] ELSE e
      BY <2>1, <2>6 DEF e
    <3>2. (i - 1) + 1 = (i + 1) - 1 /\ Len(output) = i - 1
      BY <2>5, <2>4
    <3>3. ASSUME NEW q \in 1 .. (i + 1) - 1 PROVE output'[q] = PieceOf(symbols[path[q]])
      <4>1. output'[q] = IF q <= i - 1 THEN output[q] ELSE e
        BY <3>1, <3>2
      <4>2. CASE q <= i - 1
        BY <2>4, <4>1, <4>2
      <4>3. CASE q > i - 1
        <5>1. q = i /\ ~(q <= i - 1)
          BY <2>5, <4>3
        <5> QED
          BY <2>5, <4>1, <5>1 DEF e
      <4>4. q <= i - 1 \/ q > i - 1
        BY <2>5
      <4> QED
        BY <4>2, <4>3, <4>4
    <3> QED
      BY <3>1, <3>2, <3>3
  <2>8. Walked'
    <3>1. i + 1 \in 1 .. n + 1 /\ (i + 1 = n + 1 <=> i = n)
      BY <2>5
    <3>2. IsPath(symbols, n, path)'
      BY <1>2, <2>1, <2>3
    <3>3. index' = IF i + 1 = n + 1 THEN None ELSE path[i + 1]
      BY <2>1, <2>5, <3>1
    <3>4. \A q \in 1 .. (i + 1) - 1 : output'[q] = PieceOf(symbols[path[q]])'
      BY <2>1, <2>7 DEF PieceOf
    <3> QED
      BY <2>7, <3>1, <3>2, <3>3, <3>4 DEF Walked
  <2> QED
    BY <1>1, <1>2, <2>1, <2>2, <2>8 DEF RInv
<1>10. CASE UNCHANGED vars
  <2>1. /\ UNCHANGED <<text, merges, vocab, ignoreMerges>>
        /\ UNCHANGED <<symbols, index, output, phase>>
    BY <1>10 DEF vars, params
  <2>2. (WholeEntry' <=> WholeEntry) /\ (Walked' <=> Walked)
    BY <1>2, <2>1 DEF WholeEntry, Walked, PieceOf
  <2> QED
    BY <1>1, <1>2, <2>1, <2>2 DEF RInv
<1> QED
  BY <1>4, <1>5, <1>6, <1>7, <1>8, <1>9, <1>10 DEF Next

-----------------------------------------------------------------------------
(* The candidates of BestPair are the ranked neighbours of the path.       *)
LEMMA CandidateFacts ==
  ASSUME RInv, PiecesArePaths, symbols # <<>>, NEW n, NEW path, IsPath(symbols, n, path)
  PROVE  \A i, r : <<i, r>> \in Best!Candidates <=>
           /\ i \in 1 .. n - 1
           /\ r \in Ranked(PieceOf(symbols[path[i]]), PieceOf(symbols[path[i + 1]]))
<1>1. /\ Pieces = PathPieces(symbols, n, path) /\ Pieces \in [1 .. n -> Seq(Chars)]
      /\ n \in Nat \ {0}
  BY DEF PiecesArePaths, IsPath
<1>2. Len(Pieces) = n
  BY <1>1
<1>3. \A i \in 1 .. n : Pieces[i] = PieceOf(symbols[path[i]])
  BY <1>1 DEF PathPieces
<1>4. \A i \in 1 .. n - 1 : i \in 1 .. n /\ i + 1 \in 1 .. n
  BY <1>1
<1>5. ASSUME NEW i, NEW r
      PROVE  <<i, r>> \in Best!Candidates <=>
               i \in 1 .. n - 1 /\ r \in Ranked(Pieces[i], Pieces[i + 1])
  BY <1>2 DEF Best!Candidates, Ranked
<1> QED
  BY <1>3, <1>4, <1>5

LEMMA CandidatesArePairs == \A c \in Best!Candidates : c = <<c[1], c[2]>>
BY DEF Best!Candidates

(* The entry a ranked pair of neighbours is queued as.                     *)
QueuedAs(entries, left, x, y) ==
  \E b \in entries : b.left = left /\ b.rank = Rank(x, y)

LEMMA NeighboursQueued ==
  ASSUME RInv, symbols # <<>>, NEW entries, Queued(symbols, entries),
         NEW n, NEW path, IsPath(symbols, n, path), NEW i \in 1 .. n - 1,
         Ranked(PieceOf(symbols[path[i]]), PieceOf(symbols[path[i + 1]])) # {}
  PROVE  QueuedAs(entries, path[i], PieceOf(symbols[path[i]]), PieceOf(symbols[path[i + 1]]))
<1> DEFINE k == path[i]
           m == path[i + 1]
           b == [left |-> k, right |-> m, rank |-> Rank(PieceOf(symbols[k]), PieceOf(symbols[m])),
                 mergedLength |-> symbols[k].length + symbols[m].length]
<1>1. k \in LiveIn(symbols) /\ m \in LiveIn(symbols) /\ symbols[k].next = m
  <2>1. n \in Nat \ {0}
    BY DEF IsPath
  <2>2. i \in 1 .. n /\ i + 1 \in 1 .. n /\ i # n
    BY <2>1
  <2> QED
    BY <2>2 DEF IsPath
<1>2. Inputs /\ List(symbols)
  BY DEF RInv, IInv
<1>3. /\ k # None /\ m # None /\ symbols[k].length # 0 /\ symbols[m].length # 0
  BY <1>1, <1>2, PieceFacts, IndexFacts
<1>4. b \in PairOf(symbols, k, m)
  BY <1>3 DEF PairOf
<1>5. b \in entries
  BY <1>1, <1>4 DEF Queued
<1> QED
  BY <1>5 DEF QueuedAs

LEMMA PiecesKept ==
  ASSUME RInv, RInv', PiecesArePaths, PiecesArePaths', UNCHANGED <<text, merges, symbols>>
  PROVE  Pieces' = Pieces
<1>1. CASE symbols = <<>>
  BY <1>1 DEF Pieces
<1>2. CASE symbols # <<>>
  <2>1. PICK n, path : IsPath(symbols, n, path)
    BY <1>2 DEF RInv
  <2>2. Pieces = PathPieces(symbols, n, path)
    BY <1>2, <2>1 DEF PiecesArePaths
  <2>3. IsPath(symbols, n, path)'
    BY <2>1, PathKept
  <2>4. Pieces' = PathPieces(symbols, n, path)'
    BY <1>2, <2>3 DEF PiecesArePaths
  <2> QED
    BY <2>2, <2>4, PathKept
<1> QED
  BY <1>1, <1>2

(* A merge of the heap's top is a merge of the best pair.                  *)
LEMMA MergeIsBest ==
  ASSUME RInv, RInv', PiecesArePaths, PiecesArePaths', Merge
  PROVE  Best!MergeBest
<1>1. PICK top \in queue :
        IsTop(top) /\ Fresh(top) /\ symbols' = Absorbed(top.left, top.right)
  BY DEF Merge
<1>2. /\ phase = "merging" /\ UNCHANGED <<text, merges, vocab, ignoreMerges>>
      /\ UNCHANGED <<index, output, phase>>
  BY DEF Merge, params
<1>3. /\ List(symbols) /\ Inputs /\ top \in Entries /\ symbols # <<>>
      /\ Queued(symbols, queue) /\ Forward(symbols) /\ ~WholeEntry /\ symbols' # <<>>
  BY <1>2 DEF RInv, IInv
<1> DEFINE left  == top.left
           right == top.right
<1>4. /\ left \in LiveIn(symbols) /\ right # None
      /\ right = symbols[left].next /\ top \in PairOf(symbols, left, right)
  BY <1>1, <1>3, FreshIsPair
<1> HIDE DEF left, right
<1>5. PICK n, path : IsPath(symbols, n, path)
  BY <1>3 DEF RInv
<1>6. PICK j \in 1 .. n : path[j] = left
  BY <1>4, <1>5 DEF IsPath
<1>7. /\ j \in 1 .. n - 1 /\ path[j + 1] = right
      /\ IsPath(Absorbed(left, right), n - 1, JoinedPath(path, j, n))
  BY <1>3, <1>4, <1>5, <1>6, MergedPath
<1>8. Pieces = PathPieces(symbols, n, path)
  BY <1>3, <1>5 DEF PiecesArePaths
<1> DEFINE P(i) == PieceOf(symbols[path[i]])
           c    == <<j, top.rank>>
<1>9. /\ top.rank \in Ranked(P(j), P(j + 1)) /\ top.rank = Rank(P(j), P(j + 1))
  <2>1. /\ top.rank = Rank(P(j), P(j + 1)) /\ Ranked(P(j), P(j + 1)) # {}
    BY <1>4, <1>6, <1>7 DEF PairOf
  <2> QED
    BY <1>3, <2>1, RankFacts DEF Inputs
<1>10. c \in Best!Candidates
  BY <1>3, <1>5, <1>7, <1>9, CandidateFacts
<1>11. ASSUME NEW d \in Best!Candidates PROVE Best!BetterOrSame(c, d)
  <2> DEFINE i == d[1]
             r == d[2]
  <2>1. d = <<i, r>>
    BY CandidatesArePairs
  <2> HIDE DEF i, r, P
  <2>2. i \in 1 .. n - 1 /\ r \in Ranked(P(i), P(i + 1))
    BY <1>3, <1>5, <2>1, CandidateFacts DEF P
  <2>3. PICK b \in queue : b.left = path[i] /\ b.rank = Rank(P(i), P(i + 1))
    <3>1. Ranked(PieceOf(symbols[path[i]]), PieceOf(symbols[path[i + 1]])) # {}
      BY <2>2 DEF P
    <3>2. symbols # <<>> /\ Queued(symbols, queue) /\ i \in 1 .. n - 1
      BY <1>3, <2>2
    <3>3. QueuedAs(queue, path[i], PieceOf(symbols[path[i]]), PieceOf(symbols[path[i + 1]]))
      BY <1>5, <3>1, <3>2, NeighboursQueued
    <3> QED
      BY <3>3 DEF P, QueuedAs
  <2>4. b.rank \in DOMAIN merges /\ b.rank <= r /\ r \in DOMAIN merges
    BY <1>3, <2>2, <2>3, RankFacts DEF Inputs, Ranked
  <2>5. ~WorseThan(top, b)
    BY <1>1, <2>3 DEF IsTop
  <2>6. /\ b.rank \in Nat /\ r \in Nat /\ top.rank \in Nat
    BY <1>3, <1>9, <2>4 DEF Inputs, Ranked
  <2>7. n \in Nat \ {0} /\ i \in 1 .. n /\ i \in Nat /\ j \in Nat
    <3>1. n \in Nat \ {0}
      BY <1>5 DEF IsPath
    <3> QED
      BY <2>2, <3>1
  <2>8. path[i] \in Nat /\ left \in Nat
    BY <1>3, <1>4, <1>5, <2>7, PieceFacts DEF IsPath
  <2>9. i < j => path[i] < left
    BY <1>5, <1>6, <2>7 DEF IsPath
  <2>10. top.rank < b.rank \/ (top.rank = b.rank /\ left <= path[i])
    BY <2>3, <2>5, <2>6, <2>8 DEF WorseThan, left
  <2>11. top.rank < r \/ (top.rank <= r /\ j <= i)
    BY <2>4, <2>6, <2>7, <2>8, <2>9, <2>10
  <2>12. c[1] = j /\ c[2] = top.rank /\ d[1] = i /\ d[2] = r
    BY DEF i, r
  <2> HIDE DEF c
  <2> QED
    BY <2>6, <2>11, <2>12 DEF Best!BetterOrSame
<1>12. Pieces' = Joined(Pieces, j, Pieces[j] \o Pieces[j + 1])
  <2>1. IsPath(symbols', n - 1, JoinedPath(path, j, n))
    BY <1>1, <1>7 DEF left, right
  <2>2. IsPath(symbols, n - 1, JoinedPath(path, j, n))'
    BY <1>2, <2>1, PathKept
  <2>3. Pieces' = PathPieces(symbols, n - 1, JoinedPath(path, j, n))'
    BY <1>3, <2>2 DEF PiecesArePaths
  <2>4. Pieces' = PathPieces(Absorbed(left, right), n - 1, JoinedPath(path, j, n))
    BY <1>1, <1>2, <2>3, PathKept DEF left, right
  <2> QED
    BY <1>3, <1>4, <1>5, <1>6, <1>8, <2>4, MergedPieces
<1>13. c[1] = j /\ (\A d \in Best!Candidates : Best!BetterOrSame(c, d))
  BY <1>11
<1>14. Result = <<>> /\ Result' = <<>>
  BY <1>2 DEF Result
<1> HIDE DEF c
<1> QED
  BY <1>2, <1>3, <1>10, <1>12, <1>13, <1>14
  DEF Best!MergeBest, Best!Whole, Best!params, WholeEntry, Joined

(* What is left to say of the list at its ends.                            *)
LEMMA NothingRanked ==
  ASSUME RInv, PiecesArePaths, symbols # <<>>, Queued(symbols, {})
  PROVE  Best!Candidates = {}
<1>1. PICK n, path : IsPath(symbols, n, path)
  BY DEF RInv
<1>2. ASSUME NEW c \in Best!Candidates PROVE FALSE
  <2> DEFINE i == c[1]
             r == c[2]
  <2>1. c = <<i, r>>
    BY CandidatesArePairs
  <2> HIDE DEF i, r
  <2>2. /\ i \in 1 .. n - 1
        /\ r \in Ranked(PieceOf(symbols[path[i]]), PieceOf(symbols[path[i + 1]]))
    BY <1>1, <1>2, <2>1, CandidateFacts
  <2> QED
    BY <1>1, <2>2, NeighboursQueued DEF QueuedAs
<1> QED
  BY <1>2

LEMMA SplitKeepsPieces ==
  ASSUME RInv, PiecesArePaths', Split
  PROVE  Pieces' = Pieces
<1>1. /\ symbols = <<>> /\ symbols' = Characters /\ Inputs
      /\ UNCHANGED <<text, merges, vocab, ignoreMerges>>
  BY DEF Split, params, RInv, IInv
<1>2. PICK n, path :
        /\ IsPath(Characters, n, path)
        /\ PathPieces(Characters, n, path) = [k \in 1 .. Len(text) |-> <<text[k]>>]
  BY <1>1, SplitPath
<1>3. IsPath(symbols, n, path)' /\ symbols' # <<>>
  BY <1>1, <1>2, PathKept, SplitPath
<1>4. Pieces' = PathPieces(symbols, n, path)'
  BY <1>3 DEF PiecesArePaths
<1>5. Pieces' = PathPieces(Characters, n, path)
  BY <1>1, <1>4, PathKept
<1>6. Pieces = [k \in 1 .. Len(text) |-> <<text[k]>>]
  BY <1>1 DEF Pieces
<1> QED
  BY <1>2, <1>5, <1>6

LEMMA WalkedAll ==
  ASSUME RInv, PiecesArePaths, symbols # <<>>, Walked, index = None
  PROVE  output = Pieces
<1>1. PICK n, path :
         /\ IsPath(symbols, n, path)
         /\ \E i \in 1 .. n + 1 :
              /\ index = IF i = n + 1 THEN None ELSE path[i]
              /\ Len(output) = i - 1
              /\ \A q \in 1 .. i - 1 : output[q] = PieceOf(symbols[path[q]])
  BY DEF Walked
<1>2. n \in Nat \ {0} /\ path \in [1 .. n -> LiveIn(symbols)]
  BY <1>1 DEF IsPath
<1>3. \A i \in 1 .. n : path[i] # None
  BY <1>2, IndexFacts DEF LiveIn, RInv, IInv
<1>4. Len(output) = n /\ \A q \in 1 .. n : output[q] = PieceOf(symbols[path[q]])
  <2>1. PICK i \in 1 .. n + 1 :
           /\ index = IF i = n + 1 THEN None ELSE path[i]
           /\ Len(output) = i - 1
           /\ \A q \in 1 .. i - 1 : output[q] = PieceOf(symbols[path[q]])
    BY <1>1
  <2>2. i = n + 1
    BY <1>2, <1>3, <2>1
  <2>3. i - 1 = n
    BY <1>2, <2>2
  <2> QED
    BY <2>1, <2>3
<1>5. output \in Seq(vocab)
  BY DEF RInv, IInv
<1>6. output = [q \in 1 .. n |-> output[q]]
  BY <1>4, <1>5
<1>7. Pieces = [q \in 1 .. n |-> PieceOf(symbols[path[q]])]
  BY <1>1 DEF PiecesArePaths, PathPieces
<1> QED
  BY <1>4, <1>6, <1>7
(* The end of the walk, and a piece it cannot emit, come when no pair of   *)
(* neighbours has a rank.                                                  *)
LEMMA NothingToMerge ==
  ASSUME RInv, PiecesArePaths, phase = "emitting"
  PROVE  Best!Candidates = {} /\ ~Best!Whole /\ Result = <<>>
<1>1. symbols # <<>> /\ Queued(symbols, {}) /\ ~WholeEntry
  BY DEF RInv, IInv
<1>2. Best!Candidates = {}
  BY <1>1, NothingRanked
<1> QED
  BY <1>1, <1>2 DEF Best!Whole, WholeEntry, Result

(* tokenizer.cpp:342: the heap, the links and the entries left stale do    *)
(* what "merge the best pair until none is left" does, for every pretoken, *)
(* every list of rules and every vocabulary.                               *)
THEOREM BestPairImplemented == Spec => ImplementsBestPair
<1>1. Init => Best!Init
  BY DEF Init, Best!Init, Pieces, Result
<1>2. RInv => ListInv
  BY DEF RInv, IInv, ListInv
<1>3. /\ RInv /\ RInv' /\ PiecesArePaths /\ PiecesArePaths' /\ [Next]_vars
      => [Best!Next]_Best!vars
  <2> SUFFICES ASSUME RInv, RInv', PiecesArePaths, PiecesArePaths', [Next]_vars
               PROVE  Best!Next \/ UNCHANGED Best!vars
    OBVIOUS
  <2>1. ASSUME UNCHANGED <<params, symbols>>, Result' = Result PROVE UNCHANGED Best!vars
    BY <2>1, PiecesKept DEF params, Best!vars, Best!params
  <2>2. CASE EmitWhole
    <3>1. /\ phase = "start" /\ phase' = "done" /\ WholeEntry /\ output' = <<text>>
          /\ UNCHANGED <<text, merges, vocab, ignoreMerges, symbols>>
      BY <2>2 DEF EmitWhole, params
    <3>2. Result = <<>> /\ Result' = <<text>>
      BY <3>1 DEF Result
    <3>3. Pieces' = Pieces
      BY <3>1, PiecesKept
    <3> QED
      BY <3>1, <3>2, <3>3
      DEF Best!Next, Best!TakeWhole, Best!Whole, Best!params, WholeEntry
  <2>3. CASE Split
    <3>1. Result' = Result /\ UNCHANGED params
      BY <2>3 DEF Split, Result
    <3>2. Pieces' = Pieces
      BY <2>3, SplitKeepsPieces
    <3> QED
      BY <3>1, <3>2 DEF Best!vars, Best!params, params
  <2>4. CASE Skip \/ MergesDone \/ Emit
    BY <2>1, <2>4 DEF Skip, MergesDone, Emit, Result
  <2>5. CASE Merge
    BY <2>5, MergeIsBest DEF Best!Next
  <2>6. CASE PieceUnknown
    <3>1. /\ phase = "emitting" /\ phase' = "failed" /\ index # None
          /\ PieceOf(symbols[index]) \notin vocab
          /\ UNCHANGED <<text, merges, vocab, ignoreMerges, symbols>>
      BY <2>6 DEF PieceUnknown, params
    <3>2. Best!Candidates = {} /\ ~Best!Whole /\ Result = <<>> /\ symbols # <<>>
      BY <3>1, NothingToMerge DEF RInv, IInv
    <3>3. Result' = << <<>> >> /\ Pieces' = Pieces
      BY <3>1, PiecesKept DEF Result
    <3>4. \E k \in DOMAIN Pieces : Pieces[k] \notin vocab
      <4>1. PICK n, path :
               /\ IsPath(symbols, n, path)
               /\ \E i \in 1 .. n + 1 : index = IF i = n + 1 THEN None ELSE path[i]
        BY <3>1 DEF RInv, Walked
      <4>2. n \in Nat \ {0}
        BY <4>1 DEF IsPath
      <4>3. PICK i \in 1 .. n : index = path[i]
        BY <3>1, <4>1, <4>2
      <4>4. Pieces = PathPieces(symbols, n, path)
        BY <3>2, <4>1 DEF PiecesArePaths
      <4>5. DOMAIN Pieces = 1 .. n /\ Pieces[i] = PieceOf(symbols[path[i]])
        BY <4>4 DEF PathPieces
      <4> QED
        BY <3>1, <4>3, <4>5
    <3> QED
      BY <3>1, <3>2, <3>3, <3>4 DEF Best!Next, Best!Finish, Best!UnknownPiece, Best!params
  <2>7. CASE Return
    <3>1. /\ phase = "emitting" /\ phase' = "done" /\ index = None /\ output' = output
          /\ UNCHANGED <<text, merges, vocab, ignoreMerges, symbols>>
      BY <2>7 DEF Return, params
    <3>2. Best!Candidates = {} /\ ~Best!Whole /\ Result = <<>> /\ symbols # <<>>
      BY <3>1, NothingToMerge DEF RInv, IInv
    <3>3. Result' = output /\ Pieces' = Pieces
      BY <3>1, PiecesKept DEF Result
    <3>4. output = Pieces /\ \A k \in DOMAIN Pieces : Pieces[k] \in vocab
      <4>1. output = Pieces
        BY <3>1, <3>2, WalkedAll DEF RInv
      <4>2. output \in Seq(vocab)
        BY DEF RInv, IInv
      <4> QED
        BY <4>1, <4>2
    <3> QED
      BY <3>1, <3>2, <3>3, <3>4 DEF Best!Next, Best!Finish, Best!params
  <2>8. CASE UNCHANGED vars
    BY <2>1, <2>8 DEF vars, Result
  <2> QED
    BY <2>2, <2>3, <2>4, <2>5, <2>6, <2>7, <2>8 DEF Next
<1> QED
  BY <1>1, <1>2, <1>3, InitRInv, NextRInv, PiecesFollowPath, PTL
  DEF Spec, ImplementsBestPair, Best!Spec

-----------------------------------------------------------------------------
(***************************************************************************)
(* What a caller may count on without the heap: the tokens tile the        *)
(* pretoken, and each is a character or what a rule joins.                 *)
(***************************************************************************)
Atom(piece) ==
  \/ Len(piece) = 1
  \/ \E r \in DOMAIN merges : piece = Product(merges[r])

Cuts == [0 .. Len(output) -> 0 .. Len(text)]

CutsAtoms(cuts) ==
  /\ cuts[0] = 0
  /\ \A k \in 1 .. Len(output) :
       /\ cuts[k - 1] < cuts[k]
       /\ output[k] = SubSeq(text, cuts[k - 1] + 1, cuts[k])
       /\ WholeEntry \/ Atom(output[k])

(* tokenizer.cpp:450 to 458: the tokens pushed back so far are the         *)
(* beginning of the pretoken, cut into pieces, at the end all of it; if    *)
(* encoding fails, it does so on a piece that follows and has no token.    *)
TokensTileText ==
  \E cuts \in Cuts :
    /\ CutsAtoms(cuts)
    /\ phase = "done" => cuts[Len(output)] = Len(text)
    /\ phase = "failed" =>
         \E end \in cuts[Len(output)] + 1 .. Len(text) :
           LET piece == SubSeq(text, cuts[Len(output)] + 1, end)
           IN  Atom(piece) /\ piece \notin vocab

AtomsIn(syms) == \A k \in LiveIn(syms) : Atom(PieceOf(syms[k]))

Ended ==
  IF WholeEntry THEN phase = "done" /\ output = <<text>>
  ELSE /\ symbols # <<>> /\ Walked /\ Queued(symbols, {})
       /\ phase = "done"   => index = None
       /\ phase = "failed" => index # None /\ PieceOf(symbols[index]) \notin vocab

TInv ==
  /\ RInv
  /\ text \in Seq(Chars)
  /\ symbols # <<>> => AtomsIn(symbols)
  /\ phase \in {"done", "failed"} => Ended

LEMMA InitTInv == Init => TInv
<1> SUFFICES ASSUME Init PROVE TInv
  OBVIOUS
<1>1. RInv
  BY InitRInv
<1>2. text \in Seq(Chars)
  BY BpeAssumption DEF Init, Chars
<1> QED
  BY <1>1, <1>2 DEF Init, TInv

LEMMA CharacterAtoms ==
  ASSUME Inputs PROVE AtomsIn(Characters)
<1> SUFFICES ASSUME NEW k \in LiveIn(Characters) PROVE Len(PieceOf(Characters[k])) = 1
  BY DEF AtomsIn, Atom
<1>1. k \in Index /\ k \in Nat /\ k + 1 <= Len(text)
  BY DEF LiveIn, Index, Inputs
<1>2. Characters[k].offset = k /\ Characters[k].length = 1
  BY <1>1 DEF Characters
<1>3. PieceOf(Characters[k]) = SubSeq(text, k + 1, k + 1)
  BY <1>2 DEF PieceOf
<1> DEFINE t == SubSeq(text, k + 1, k + 1)
<1>4. k + 1 \in Int /\ \A q \in k + 1 .. k + 1 : text[q] \in Chars
  BY <1>1 DEF Chars, Inputs
<1>5. Len(t) = IF k + 1 <= k + 1 THEN (k + 1) - (k + 1) + 1 ELSE 0
  BY <1>4, SubSeqProperties
<1> HIDE DEF t
<1>6. Len(t) = 1
  BY <1>1, <1>5
<1> QED
  BY <1>3, <1>6 DEF t

(* The piece a merge makes is what a rule joins.                           *)
LEMMA MergedAtoms ==
  ASSUME Inputs, List(symbols), AtomsIn(symbols),
         NEW left \in LiveIn(symbols), NEW right, right = symbols[left].next, right # None,
         PairOf(symbols, left, right) # {}
  PROVE  AtomsIn(Absorbed(left, right))
<1> DEFINE syms == Absorbed(left, right)
           end  == right + symbols[right].length
<1>1. /\ right \in LiveIn(symbols) /\ right # left
      /\ \A k \in Index :
           /\ syms[k].offset = k
           /\ syms[k].length = IF k = left THEN symbols[left].length + symbols[right].length
                               ELSE IF k = right THEN 0 ELSE symbols[k].length
  BY AbsorbedFields
<1>2. /\ left \in Nat /\ right \in Nat /\ end \in Nat
      /\ left < right /\ right < end /\ end <= Len(text) /\ right = left + symbols[left].length
      /\ end - left = symbols[left].length + symbols[right].length
      /\ Ranked(Between(left, right), Between(right, end)) # {}
  <2>1. symbols[left].next # None
    OBVIOUS
  <2> QED
    BY <2>1, PairFacts
<1> HIDE DEF syms, end
<1>3. PICK r \in DOMAIN merges : merges[r] = <<Between(left, right), Between(right, end)>>
  BY <1>2 DEF Ranked
<1>4. Product(merges[r]) = Between(left, end)
  <2>1. Between(left, right) \o Between(right, end) = Between(left, end)
    <3>1. left <= right /\ right <= end
      BY <1>2
    <3> QED
      BY <1>2, <3>1, BetweenJoins
  <2> QED
    BY <1>3, <2>1 DEF Product
<1> SUFFICES ASSUME NEW k \in LiveIn(syms) PROVE Atom(PieceOf(syms[k]))
  BY DEF AtomsIn, syms
<1>5. k \in Index /\ syms[k].length > 0
  BY DEF LiveIn
<1>6. CASE k = left
  <2>1. syms[left].length = end - left /\ syms[left].offset = left
    BY <1>1, <1>2, <1>5, <1>6
  <2>2. left + (end - left) = end
    BY <1>2
  <2>3. PieceOf(syms[left]) = Between(left, end)
    BY <2>1, <2>2 DEF PieceOf, Between
  <2> QED
    BY <1>4, <1>6, <2>3 DEF Atom
<1>7. CASE k # left
  <2>1. k # right
    BY <1>1, <1>5, <1>7
  <2>2. syms[k].length = symbols[k].length /\ syms[k].offset = k /\ symbols[k].offset = k
    BY <1>1, <1>5, <1>7, <2>1 DEF List, ListTypes
  <2>3. k \in LiveIn(symbols) /\ PieceOf(syms[k]) = PieceOf(symbols[k])
    BY <1>5, <2>2 DEF LiveIn, PieceOf
  <2> QED
    BY <2>3 DEF AtomsIn
<1> QED
  BY <1>6, <1>7

LEMMA AtomsKept ==
  ASSUME UNCHANGED <<text, merges>>
  PROVE  AtomsIn(symbols)' <=> AtomsIn(symbols')
<1>1. LiveIn(symbols)' = LiveIn(symbols')
  BY DEF LiveIn, Index
<1> QED
  BY <1>1 DEF AtomsIn, Atom, PieceOf, Product

LEMMA NextTInv == TInv /\ [Next]_vars => TInv'
<1> SUFFICES ASSUME TInv, [Next]_vars PROVE TInv'
  OBVIOUS
<1>1. RInv /\ RInv' /\ IInv /\ (text \in Seq(Chars))'
  <2>1. text' = text
    BY DEF Next, EmitWhole, Split, Skip, Merge, MergesDone, Emit, PieceUnknown, Return,
           vars, params
  <2>2. text \in Seq(Chars) /\ Chars' = Chars
    BY <2>1 DEF TInv, Chars
  <2> QED
    BY <2>1, <2>2, NextRInv DEF TInv, RInv
<1>2. ASSUME UNCHANGED <<text, merges, symbols>>
      PROVE  symbols' # <<>> => AtomsIn(symbols)'
  BY <1>2, AtomsKept DEF TInv
<1>3. ASSUME UNCHANGED <<text, merges, vocab, ignoreMerges, symbols, index, output>>
      PROVE  /\ (WholeEntry' <=> WholeEntry) /\ (Walked' <=> Walked)
             /\ Queued(symbols, {})' <=> Queued(symbols, {})
  <2>1. \A n, path : IsPath(symbols, n, path)' <=> IsPath(symbols, n, path)
    BY <1>3, PathKept
  <2>2. Queued(symbols, {})' <=> Queued(symbols, {})
    BY <1>3 DEF Queued, LiveIn, Index, PairOf, PieceOf, Ranked, Rank
  <2> QED
    BY <1>3, <2>1, <2>2 DEF WholeEntry, Walked, PieceOf
<1>4. CASE EmitWhole
  <2>1. /\ WholeEntry /\ output' = <<text>> /\ phase' = "done"
        /\ UNCHANGED <<text, merges, vocab, ignoreMerges, symbols>>
    BY <1>4 DEF EmitWhole, params
  <2>2. WholeEntry'
    BY <2>1 DEF WholeEntry
  <2>3. Ended'
    BY <2>1, <2>2 DEF Ended
  <2> QED
    BY <1>1, <1>2, <2>1, <2>3 DEF TInv
<1>5. CASE Split
  <2>1. symbols' = Characters /\ phase' = "merging" /\ UNCHANGED <<text, merges>> /\ Inputs
    BY <1>1, <1>5 DEF Split, params, IInv
  <2>2. AtomsIn(symbols)'
    BY <2>1, AtomsKept, CharacterAtoms
  <2> QED
    BY <1>1, <2>1, <2>2 DEF TInv
<1>6. CASE Skip \/ MergesDone \/ Emit
  <2>1. UNCHANGED <<text, merges, symbols>> /\ phase' \notin {"done", "failed"}
    BY <1>6 DEF Skip, MergesDone, Emit, params
  <2> QED
    BY <1>1, <1>2, <2>1 DEF TInv
<1>7. CASE Merge
  <2>1. PICK top \in queue : Fresh(top) /\ symbols' = Absorbed(top.left, top.right)
    BY <1>7 DEF Merge
  <2>2. phase = "merging" /\ phase' = "merging" /\ UNCHANGED <<text, merges>>
    BY <1>7 DEF Merge, params
  <2>3. List(symbols) /\ Inputs /\ top \in Entries /\ symbols # <<>>
    BY <1>1, <2>2 DEF IInv
  <2>4. /\ top.left \in LiveIn(symbols) /\ top.right # None
        /\ top.right = symbols[top.left].next
        /\ PairOf(symbols, top.left, top.right) # {}
    BY <2>1, <2>3, FreshIsPair
  <2>5. AtomsIn(symbols)
    BY <2>3 DEF TInv
  <2>6. AtomsIn(Absorbed(top.left, top.right))
    BY <2>3, <2>4, <2>5, MergedAtoms
  <2>7. AtomsIn(symbols)'
    BY <2>1, <2>2, <2>6, AtomsKept
  <2> QED
    BY <1>1, <2>2, <2>7 DEF TInv
<1>8. CASE PieceUnknown
  <2>1. /\ phase = "emitting" /\ index # None /\ PieceOf(symbols[index]) \notin vocab
        /\ phase' = "failed"
        /\ UNCHANGED <<text, merges, vocab, ignoreMerges, symbols, index, output>>
    BY <1>8 DEF PieceUnknown, params
  <2>2. ~WholeEntry /\ Walked /\ symbols # <<>> /\ Queued(symbols, {})
    BY <1>1, <2>1 DEF RInv, IInv
  <2>3. PieceOf(symbols[index])' \notin vocab'
    BY <2>1 DEF PieceOf
  <2>4. Ended'
    BY <1>3, <2>1, <2>2, <2>3 DEF Ended
  <2> QED
    BY <1>1, <1>2, <2>1, <2>4 DEF TInv
<1>9. CASE Return
  <2>1. /\ phase = "emitting" /\ index = None /\ phase' = "done"
        /\ UNCHANGED <<text, merges, vocab, ignoreMerges, symbols, index, output>>
    BY <1>9 DEF Return, params
  <2>2. ~WholeEntry /\ Walked /\ symbols # <<>> /\ Queued(symbols, {})
    BY <1>1, <2>1 DEF RInv, IInv
  <2>3. Ended'
    BY <1>3, <2>1, <2>2 DEF Ended
  <2> QED
    BY <1>1, <1>2, <2>1, <2>3 DEF TInv
<1>10. CASE UNCHANGED vars
  <2>1. UNCHANGED <<text, merges, vocab, ignoreMerges, symbols, index, output, phase>>
    BY <1>10 DEF vars, params
  <2>2. Ended' <=> Ended
    BY <1>3, <2>1 DEF Ended, PieceOf
  <2> QED
    BY <1>1, <1>2, <2>1, <2>2 DEF TInv
<1> QED
  BY <1>4, <1>5, <1>6, <1>7, <1>8, <1>9, <1>10 DEF Next

(* The walk so far, as places to cut the pretoken.                         *)
LEMMA WalkCuts ==
  ASSUME TInv, symbols # <<>>, Walked
  PROVE  \E cuts \in Cuts :
           /\ CutsAtoms(cuts)
           /\ cuts[Len(output)] = IF index = None THEN Len(text) ELSE index
<1>1. PICK n, path :
         /\ IsPath(symbols, n, path)
         /\ \E i \in 1 .. n + 1 :
              /\ index = IF i = n + 1 THEN None ELSE path[i]
              /\ Len(output) = i - 1
              /\ \A q \in 1 .. i - 1 : output[q] = PieceOf(symbols[path[q]])
  BY DEF Walked
<1>2. PICK i \in 1 .. n + 1 :
         /\ index = IF i = n + 1 THEN None ELSE path[i]
         /\ Len(output) = i - 1
         /\ \A q \in 1 .. i - 1 : output[q] = PieceOf(symbols[path[q]])
  BY <1>1
<1>3. Inputs /\ List(symbols) /\ AtomsIn(symbols)
  BY DEF TInv, RInv, IInv
<1>4. /\ n \in Nat \ {0} /\ path \in [1 .. n -> LiveIn(symbols)] /\ path[1] = 0
      /\ \A q \in 1 .. n : symbols[path[q]].next = IF q = n THEN None ELSE path[q + 1]
  BY <1>1 DEF IsPath
<1> DEFINE cut(k) == IF k = n THEN Len(text) ELSE path[k + 1]
           cuts   == [k \in 0 .. i - 1 |-> cut(k)]
<1>5. ASSUME NEW q \in 1 .. n
      PROVE  /\ path[q] \in Index /\ path[q] \in Nat /\ path[q] # None
             /\ path[q] = cut(q - 1) /\ cut(q - 1) < cut(q) /\ cut(q) \in 0 .. Len(text)
             /\ PieceOf(symbols[path[q]]) = Between(cut(q - 1), cut(q))
             /\ Atom(PieceOf(symbols[path[q]]))
  <2> DEFINE k == path[q]
             e == k + symbols[k].length
  <2>1. k \in LiveIn(symbols) /\ symbols[k].next = IF q = n THEN None ELSE path[q + 1]
    BY <1>4
  <2>2. /\ k \in Index /\ k \in Nat /\ symbols[k].length \in Nat \ {0}
        /\ e <= Len(text) /\ PieceOf(symbols[k]) = Between(k, e)
    BY <1>3, <2>1, PieceFacts
  <2>3. e = IF symbols[k].next = None THEN Len(text) ELSE symbols[k].next
    BY <1>3, <2>1 DEF List, Linked
  <2>4. e = cut(q)
    <3>1. CASE q = n
      BY <2>1, <2>3, <3>1
    <3>2. CASE q # n
      <4>1. q + 1 \in 1 .. n
        BY <1>4, <3>2
      <4>2. path[q + 1] # None
        BY <1>3, <1>4, <4>1, IndexFacts DEF LiveIn
      <4> QED
        BY <2>1, <2>3, <3>2, <4>2
    <3> QED
      BY <3>1, <3>2
  <2>5. k = cut(q - 1)
    <3>1. q - 1 # n /\ (q - 1) + 1 = q
      BY <1>4
    <3> QED
      BY <3>1
  <2>6. k < e /\ e \in Nat /\ e \in 0 .. Len(text)
    BY <1>3, <2>2 DEF Inputs
  <2>7. k # None
    BY <1>3, <2>2, IndexFacts
  <2>8. Atom(PieceOf(symbols[k]))
    BY <1>3, <2>1 DEF AtomsIn
  <2> HIDE DEF e, cut
  <2> QED
    BY <2>2, <2>4, <2>5, <2>6, <2>7, <2>8
<1>6. cut(0) = 0
  BY <1>4
<1> HIDE DEF cut
<1>7. i - 1 \in 0 .. n /\ i - 1 \in Nat /\ 0 \in 0 .. i - 1 /\ i - 1 \in 0 .. i - 1
  BY <1>4
<1>8. ASSUME NEW k \in 0 .. i - 1 PROVE cut(k) \in 0 .. Len(text)
  <2>1. CASE k = 0
    BY <1>3, <1>6, <2>1 DEF Inputs
  <2>2. CASE k # 0
    <3>1. k \in 1 .. n
      BY <1>4, <1>7, <2>2
    <3> QED
      BY <1>5, <3>1
  <2> QED
    BY <2>1, <2>2
<1>9. cuts \in Cuts
  BY <1>2, <1>8 DEF Cuts
<1>10. ASSUME NEW k \in 1 .. i - 1
       PROVE  /\ cuts[k - 1] < cuts[k]
              /\ output[k] = SubSeq(text, cuts[k - 1] + 1, cuts[k])
              /\ Atom(output[k])
  <2>1. k \in 1 .. n /\ k - 1 \in 0 .. i - 1 /\ k \in 0 .. i - 1
    BY <1>4, <1>7
  <2>2. cuts[k - 1] = cut(k - 1) /\ cuts[k] = cut(k)
    BY <2>1
  <2>3. output[k] = PieceOf(symbols[path[k]])
    BY <1>2
  <2> HIDE DEF cuts
  <2>4. output[k] = Between(cut(k - 1), cut(k))
    BY <1>5, <2>1, <2>3
  <2> QED
    BY <1>5, <2>1, <2>2, <2>3, <2>4 DEF Between
<1>11. cuts[0] = 0 /\ cuts[Len(output)] = cut(i - 1)
  BY <1>2, <1>6, <1>7
<1> HIDE DEF cuts
<1>12. cut(i - 1) = IF index = None THEN Len(text) ELSE index
  <2>1. CASE i = n + 1
    <3>1. i - 1 = n
      BY <1>4, <2>1
    <3> QED
      BY <1>2, <2>1, <3>1 DEF cut
  <2>2. CASE i # n + 1
    <3>1. i \in 1 .. n
      BY <1>4, <2>2
    <3> QED
      BY <1>2, <1>5, <2>2, <3>1
  <2> QED
    BY <2>1, <2>2
<1>13. CutsAtoms(cuts)
  BY <1>2, <1>10, <1>11 DEF CutsAtoms
<1> QED
  BY <1>9, <1>11, <1>12, <1>13

(* Tokenizer.tla takes any cut of a pretoken into characters and products  *)
(* of rules for what bpe_encode_pretoken may do with it.  The heap of      *)
(* tokenizer.cpp:394 to 458 does nothing else, for every pretoken, list of *)
(* rules and vocabulary.                                                   *)
THEOREM TokensAreAtoms == Spec => []TokensTileText
<1>1. TInv => TokensTileText
  <2> SUFFICES ASSUME TInv PROVE TokensTileText
    OBVIOUS
  <2>1. Inputs
    BY DEF TInv, RInv, IInv
  <2>2. phase \in {"start", "merging", "emitting", "done", "failed"}
    BY DEF TInv, RInv, IInv
  <2>3. CASE phase \in {"start", "merging"}
    <3>1. output = <<>> /\ Len(output) = 0
      BY <2>3 DEF TInv, RInv
    <3> DEFINE cuts == [k \in 0 .. 0 |-> 0]
    <3>2. cuts \in Cuts /\ cuts[0] = 0 /\ 1 .. 0 = {}
      BY <2>1, <3>1 DEF Cuts, Inputs
    <3> HIDE DEF cuts
    <3>3. CutsAtoms(cuts)
      BY <3>1, <3>2 DEF CutsAtoms
    <3> QED
      BY <2>3, <3>2, <3>3 DEF TokensTileText
  <2>4. CASE phase \in {"done", "failed"} /\ WholeEntry
    <3>1. phase = "done" /\ output = <<text>>
      BY <2>4 DEF TInv, Ended
    <3> DEFINE cuts == [k \in 0 .. 1 |-> IF k = 0 THEN 0 ELSE Len(text)]
    <3>2. Len(output) = 1 /\ output[1] = text
      BY <3>1
    <3>3. cuts \in Cuts /\ cuts[0] = 0 /\ cuts[1] = Len(text)
      BY <2>1, <3>2 DEF Cuts, Inputs
    <3> HIDE DEF cuts
    <3>4. text = SubSeq(text, 0 + 1, Len(text))
      <4> DEFINE t == SubSeq(text, 1, Len(text))
                 n == Len(text)
      <4>1. text \in Seq(Chars) /\ n \in Nat \ {0}
        BY <2>1 DEF TInv, Inputs
      <4>2. \A q \in 1 .. n : text[q] \in Chars
        BY DEF Chars
      <4>3. /\ t \in Seq(Chars)
            /\ Len(t) = IF 1 <= n THEN n - 1 + 1 ELSE 0
            /\ \A q \in 1 .. n - 1 + 1 : t[q] = text[1 + q - 1]
        BY <4>1, <4>2, SubSeqProperties
      <4> HIDE DEF t
      <4>4. Len(t) = n /\ \A q \in 1 .. n : t[q] = text[q]
        BY <4>1, <4>3
      <4>5. t = text
        BY <4>1, <4>3, <4>4, SeqEqual
      <4> QED
        BY <4>5 DEF t
    <3>5. CutsAtoms(cuts)
      <4> SUFFICES ASSUME NEW k \in 1 .. 1
                   PROVE  /\ cuts[k - 1] < cuts[k]
                          /\ output[k] = SubSeq(text, cuts[k - 1] + 1, cuts[k])
        BY <2>4, <3>2, <3>3 DEF CutsAtoms
      <4>1. k = 1 /\ k - 1 = 0
        OBVIOUS
      <4>2. 0 < Len(text)
        BY <2>1 DEF Inputs
      <4> QED
        BY <3>2, <3>3, <3>4, <4>1, <4>2
    <3> QED
      BY <3>1, <3>2, <3>3, <3>5 DEF TokensTileText
  <2>5. CASE phase = "emitting" \/ (phase \in {"done", "failed"} /\ ~WholeEntry)
    <3>1. symbols # <<>> /\ Walked
      BY <2>5 DEF TInv, RInv, IInv, Ended
    <3>2. PICK cuts \in Cuts :
             /\ CutsAtoms(cuts)
             /\ cuts[Len(output)] = IF index = None THEN Len(text) ELSE index
      BY <3>1, WalkCuts
    <3>3. phase = "done" => cuts[Len(output)] = Len(text)
      BY <2>5, <3>2 DEF TInv, Ended
    <3>4. ASSUME phase = "failed"
          PROVE  \E end \in cuts[Len(output)] + 1 .. Len(text) :
                   LET piece == SubSeq(text, cuts[Len(output)] + 1, end)
                   IN  Atom(piece) /\ piece \notin vocab
      <4>1. index # None /\ PieceOf(symbols[index]) \notin vocab
        BY <2>5, <3>4 DEF TInv, Ended
      <4>2. cuts[Len(output)] = index
        BY <3>2, <4>1
      <4>3. List(symbols) /\ AtomsIn(symbols) /\ index \in LiveIn(symbols)
        <5>1. PICK n, path :
                 /\ IsPath(symbols, n, path)
                 /\ \E i \in 1 .. n + 1 : index = IF i = n + 1 THEN None ELSE path[i]
          BY <3>1 DEF Walked
        <5>2. n \in Nat \ {0} /\ path \in [1 .. n -> LiveIn(symbols)]
          BY <5>1 DEF IsPath
        <5>3. index \in LiveIn(symbols)
          BY <4>1, <5>1, <5>2
        <5> QED
          BY <3>1, <5>3 DEF TInv, RInv, IInv
      <4> DEFINE end == index + symbols[index].length
      <4>4. /\ index \in Nat /\ symbols[index].length \in Nat \ {0} /\ end <= Len(text)
            /\ PieceOf(symbols[index]) = Between(index, end)
        BY <2>1, <4>3, PieceFacts
      <4>5. end \in index + 1 .. Len(text)
        BY <2>1, <4>4 DEF Inputs
      <4>6. Atom(PieceOf(symbols[index]))
        BY <4>3 DEF AtomsIn
      <4> HIDE DEF end
      <4>7. Atom(Between(index, end)) /\ Between(index, end) \notin vocab
        BY <4>1, <4>4, <4>6
      <4> QED
        BY <4>2, <4>5, <4>7 DEF Between
    <3> QED
      BY <3>2, <3>3, <3>4 DEF TokensTileText
  <2> QED
    BY <2>2, <2>3, <2>4, <2>5
<1> QED
  BY <1>1, InitTInv, NextTInv, PTL DEF Spec

-----------------------------------------------------------------------------
(***************************************************************************)
(* Recursion along a measure: a function that each of its values depends   *)
(* on values of a lesser measure only exists.                              *)
(***************************************************************************)
Solved(D, V, mu, F, m) ==
  {f \in [D -> V] : \A d \in D : mu[d] < m => f[d] = F[<<d, f>>]}

Descends(D, V, mu, F) ==
  \A d \in D : \A f, g \in [D -> V] :
    (\A e \in D : mu[e] < mu[d] => f[e] = g[e]) => F[<<d, f>>] = F[<<d, g>>]

LEMMA SolvedExists ==
  ASSUME NEW D, NEW V, V # {}, NEW mu \in [D -> Nat], NEW F \in [D \X [D -> V] -> V],
         Descends(D, V, mu, F), NEW m \in Nat
  PROVE  Solved(D, V, mu, F, m) # {}
<1> DEFINE S == {n \in Nat : Solved(D, V, mu, F, n) # {}}
<1>1. 0 \in S
  <2>1. PICK v \in V : TRUE
    OBVIOUS
  <2>2. [d \in D |-> v] \in Solved(D, V, mu, F, 0)
    BY DEF Solved
  <2> QED
    BY <2>2
<1>2. ASSUME NEW n \in S PROVE n + 1 \in S
  <2>1. PICK f \in [D -> V] : \A d \in D : mu[d] < n => f[d] = F[<<d, f>>]
    BY DEF Solved
  <2> DEFINE g == [d \in D |-> F[<<d, f>>]]
  <2>2. g \in [D -> V]
    OBVIOUS
  <2>3. ASSUME NEW d \in D, mu[d] < n + 1 PROVE g[d] = F[<<d, g>>]
    <3>1. g[d] = F[<<d, f>>]
      OBVIOUS
    <3>2. ASSUME NEW e \in D, mu[e] < mu[d] PROVE f[e] = g[e]
      <4>1. mu[e] < n
        BY <2>3, <3>2
      <4> QED
        BY <2>1, <4>1
    <3> HIDE DEF g
    <3>3. F[<<d, f>>] = F[<<d, g>>]
      BY <2>2, <3>2 DEF Descends
    <3> QED
      BY <3>1, <3>3
  <2> HIDE DEF g
  <2>4. g \in Solved(D, V, mu, F, n + 1)
    BY <2>2, <2>3 DEF Solved
  <2> QED
    BY <2>4
<1>3. S = Nat
  <2> HIDE DEF S
  <2>1. S \in SUBSET Nat
    BY DEF S
  <2> QED
    BY <1>1, <1>2, <2>1, Induct
<1> QED
  BY <1>3

Agree(D, V, mu, F) ==
  \A m, n \in Nat : \A f \in Solved(D, V, mu, F, m), g \in Solved(D, V, mu, F, n) :
    \A d \in D : mu[d] < m /\ mu[d] < n => f[d] = g[d]

LEMMA SolvedAgree ==
  ASSUME NEW D, NEW V, NEW mu \in [D -> Nat], NEW F \in [D \X [D -> V] -> V],
         Descends(D, V, mu, F)
  PROVE  Agree(D, V, mu, F)
<1> SUFFICES ASSUME NEW m \in Nat, NEW n \in Nat,
                    NEW f \in Solved(D, V, mu, F, m), NEW g \in Solved(D, V, mu, F, n)
             PROVE  \A d \in D : mu[d] < m /\ mu[d] < n => f[d] = g[d]
  BY DEF Agree
<1> DEFINE S == {k \in Nat : \A d \in D : mu[d] < k /\ mu[d] < m /\ mu[d] < n => f[d] = g[d]}
<1>1. 0 \in S
  OBVIOUS
<1>2. ASSUME NEW k \in S PROVE k + 1 \in S
  <2> SUFFICES ASSUME NEW d \in D, mu[d] < k + 1, mu[d] < m, mu[d] < n PROVE f[d] = g[d]
    OBVIOUS
  <2>1. ASSUME NEW e \in D, mu[e] < mu[d] PROVE f[e] = g[e]
    <3>1. mu[e] < k /\ mu[e] < m /\ mu[e] < n
      BY <2>1
    <3> QED
      BY <3>1
  <2>2. f \in [D -> V] /\ g \in [D -> V] /\ f[d] = F[<<d, f>>] /\ g[d] = F[<<d, g>>]
    BY DEF Solved
  <2>3. F[<<d, f>>] = F[<<d, g>>]
    BY <2>1, <2>2 DEF Descends
  <2> QED
    BY <2>2, <2>3
<1>3. S = Nat
  <2> HIDE DEF S
  <2>1. S \in SUBSET Nat
    BY DEF S
  <2> QED
    BY <1>1, <1>2, <2>1, Induct
<1> SUFFICES ASSUME NEW d \in D, mu[d] < m, mu[d] < n PROVE f[d] = g[d]
  OBVIOUS
<1>4. mu[d] + 1 \in S /\ mu[d] < mu[d] + 1
  BY <1>3
<1> QED
  BY <1>4

HasFixpoint(D, V, F) == \E h \in [D -> V] : \A d \in D : h[d] = F[<<d, h>>]

LEMMA RecursionOn ==
  ASSUME NEW D, NEW V, V # {}, NEW mu \in [D -> Nat], NEW F \in [D \X [D -> V] -> V],
         Descends(D, V, mu, F)
  PROVE  HasFixpoint(D, V, F)
<1> DEFINE fam(m) == CHOOSE f \in Solved(D, V, mu, F, m) : TRUE
           h == [d \in D |-> fam(mu[d] + 1)[d]]
<1>1. \A m \in Nat : fam(m) \in Solved(D, V, mu, F, m)
  <2> SUFFICES ASSUME NEW m \in Nat PROVE fam(m) \in Solved(D, V, mu, F, m)
    OBVIOUS
  <2>1. Solved(D, V, mu, F, m) # {}
    BY SolvedExists
  <2> QED
    BY <2>1
<1> HIDE DEF fam
<1>2. \A m \in Nat : fam(m) \in [D -> V] /\ \A d \in D : mu[d] < m => fam(m)[d] = F[<<d, fam(m)>>]
  BY <1>1 DEF Solved
<1>3. \A d \in D : mu[d] + 1 \in Nat /\ mu[d] < mu[d] + 1
  OBVIOUS
<1>6. \A m, n \in Nat : \A f \in Solved(D, V, mu, F, m), g \in Solved(D, V, mu, F, n) :
        \A d \in D : mu[d] < m /\ mu[d] < n => f[d] = g[d]
  <2>1. Agree(D, V, mu, F)
    BY SolvedAgree
  <2> QED
    BY <2>1 DEF Agree
<1>4. h \in [D -> V]
  BY <1>2, <1>3
<1>5. ASSUME NEW d \in D PROVE h[d] = F[<<d, h>>]
  <2> DEFINE f == fam(mu[d] + 1)
  <2>1. f \in [D -> V] /\ h[d] = f[d] /\ f[d] = F[<<d, f>>]
    BY <1>2, <1>3
  <2>2. ASSUME NEW e \in D, mu[e] < mu[d] PROVE f[e] = h[e]
    <3>1. h[e] = fam(mu[e] + 1)[e]
      OBVIOUS
    <3>2. mu[e] < mu[d] + 1 /\ mu[e] < mu[e] + 1 /\ mu[d] + 1 \in Nat /\ mu[e] + 1 \in Nat
      BY <2>2
    <3>3. f \in Solved(D, V, mu, F, mu[d] + 1) /\ fam(mu[e] + 1) \in Solved(D, V, mu, F, mu[e] + 1)
      BY <1>1, <3>2
    <3> HIDE DEF f
    <3> QED
      BY <1>6, <3>1, <3>2, <3>3
  <2> HIDE DEF f, h
  <2>3. F[<<d, f>>] = F[<<d, h>>]
    BY <1>4, <2>1, <2>2 DEF Descends
  <2> QED
    BY <2>1, <2>3
<1> QED
  BY <1>4, <1>5 DEF HasFixpoint

-----------------------------------------------------------------------------
(***************************************************************************)
(* One round of the reference loop, as a function of where it stands.      *)
(***************************************************************************)
IsPairAt(pieces, rule, i) == i < Len(pieces) /\ <<pieces[i], pieces[i + 1]>> = rule

JoinStep(pieces, rule, from, i) ==
  IF i > Len(pieces) THEN <<>>
  ELSE IF IsPairAt(pieces, rule, i)
    THEN <<Product(rule)>> \o from[i + 2]
    ELSE <<pieces[i]>> \o from[i + 1]

JoinFrom(pieces, rule) ==
  CHOOSE from : from = [i \in 1 .. Len(pieces) + 1 |-> JoinStep(pieces, rule, from, i)]

LEMMA JoinAllIs == ASSUME NEW s, NEW rule PROVE JoinAll(s, rule) = JoinFrom(s, rule)[1]
BY DEF JoinAll, JoinFrom, JoinStep, IsPairAt

StepCases(s, n, rule, from, i) ==
  /\ i = n + 1 => JoinStep(s, rule, from, i) = <<>>
  /\ IsPairAt(s, rule, i) =>
       /\ i \in 1 .. n /\ i + 1 \in 1 .. n /\ i + 2 \in 1 .. n + 1
       /\ Product(rule) = s[i] \o s[i + 1]
       /\ JoinStep(s, rule, from, i) = <<Product(rule)>> \o from[i + 2]
  /\ i # n + 1 /\ ~IsPairAt(s, rule, i) =>
       /\ i \in 1 .. n /\ i + 1 \in 1 .. n + 1
       /\ JoinStep(s, rule, from, i) = <<s[i]>> \o from[i + 1]

LEMMA JoinStepCases ==
  ASSUME NEW n \in Nat, NEW s, Len(s) = n, NEW rule, NEW from, NEW i \in 1 .. n + 1
  PROVE  StepCases(s, n, rule, from, i)
<1>1. ASSUME i = n + 1 PROVE JoinStep(s, rule, from, i) = <<>>
  <2>1. i > Len(s)
    BY <1>1
  <2> QED
    BY <2>1, Zenon DEF JoinStep
<1>2. ASSUME IsPairAt(s, rule, i)
      PROVE  /\ i \in 1 .. n /\ i + 1 \in 1 .. n /\ i + 2 \in 1 .. n + 1
             /\ Product(rule) = s[i] \o s[i + 1]
             /\ JoinStep(s, rule, from, i) = <<Product(rule)>> \o from[i + 2]
  <2>1. i < Len(s)
    BY <1>2, Zenon DEF IsPairAt
  <2>2. i \in 1 .. n /\ i + 1 \in 1 .. n /\ i + 2 \in 1 .. n + 1 /\ ~(i > Len(s))
    BY <2>1
  <2>3. rule = <<s[i], s[i + 1]>>
    BY <1>2, Zenon DEF IsPairAt
  <2>4. Product(rule) = s[i] \o s[i + 1]
    BY <2>3 DEF Product
  <2>5. JoinStep(s, rule, from, i) = <<Product(rule)>> \o from[i + 2]
    BY <1>2, <2>2, Zenon DEF JoinStep
  <2> QED
    BY <2>2, <2>4, <2>5
<1>3. ASSUME i # n + 1, ~IsPairAt(s, rule, i)
      PROVE  /\ i \in 1 .. n /\ i + 1 \in 1 .. n + 1
             /\ JoinStep(s, rule, from, i) = <<s[i]>> \o from[i + 1]
  <2>1. i \in 1 .. n /\ i + 1 \in 1 .. n + 1 /\ ~(i > Len(s))
    BY <1>3
  <2>2. JoinStep(s, rule, from, i) = <<s[i]>> \o from[i + 1]
    BY <1>3, <2>1, Zenon DEF JoinStep
  <2> QED
    BY <2>1, <2>2
<1> QED
  BY <1>1, <1>2, <1>3 DEF StepCases

LEMMA JoinStepSame ==
  ASSUME NEW n \in Nat, NEW s, Len(s) = n, NEW rule, NEW f, NEW g, NEW i \in 1 .. n + 1,
         i < n => f[i + 2] = g[i + 2], i <= n => f[i + 1] = g[i + 1]
  PROVE  JoinStep(s, rule, f, i) = JoinStep(s, rule, g, i)
<1>0. StepCases(s, n, rule, f, i) /\ StepCases(s, n, rule, g, i)
  BY JoinStepCases
<1>1. CASE i = n + 1
  BY <1>0, <1>1 DEF StepCases
<1>2. CASE IsPairAt(s, rule, i)
  <2>1. i < n
    BY <1>0, <1>2 DEF StepCases
  <2> QED
    BY <1>0, <1>2, <2>1 DEF StepCases
<1>3. CASE i # n + 1 /\ ~IsPairAt(s, rule, i)
  <2>1. i <= n
    BY <1>3
  <2> QED
    BY <1>0, <1>3, <2>1 DEF StepCases
<1> QED
  BY <1>1, <1>2, <1>3

LEMMA JoinStepType ==
  ASSUME NEW S, NEW n \in Nat, NEW s \in [1 .. n -> Seq(S)], NEW rule,
         NEW from \in [1 .. n + 1 -> Seq(Seq(S))], NEW i \in 1 .. n + 1
  PROVE  JoinStep(s, rule, from, i) \in Seq(Seq(S))
<1>0. StepCases(s, n, rule, from, i)
  <2>1. Len(s) = n
    OBVIOUS
  <2> QED
    BY <2>1, JoinStepCases
<1>1. CASE i = n + 1
  <2>1. <<>> \in Seq(Seq(S))
    OBVIOUS
  <2> QED
    BY <1>0, <1>1, <2>1 DEF StepCases
<1>2. CASE IsPairAt(s, rule, i)
  <2>1. /\ i \in 1 .. n /\ i + 1 \in 1 .. n /\ i + 2 \in 1 .. n + 1
        /\ Product(rule) = s[i] \o s[i + 1]
        /\ JoinStep(s, rule, from, i) = <<Product(rule)>> \o from[i + 2]
    BY <1>0, <1>2 DEF StepCases
  <2>2. Product(rule) \in Seq(S) /\ from[i + 2] \in Seq(Seq(S))
    <3>1. s[i] \in Seq(S) /\ s[i + 1] \in Seq(S)
      BY <2>1
    <3> QED
      BY <2>1, <3>1
  <2> QED
    BY <2>1, <2>2
<1>3. CASE i # n + 1 /\ ~IsPairAt(s, rule, i)
  <2>1. /\ i \in 1 .. n /\ i + 1 \in 1 .. n + 1
        /\ JoinStep(s, rule, from, i) = <<s[i]>> \o from[i + 1]
    BY <1>0, <1>3 DEF StepCases
  <2>2. s[i] \in Seq(S) /\ from[i + 1] \in Seq(Seq(S))
    BY <2>1
  <2> QED
    BY <2>1, <2>2
<1> QED
  BY <1>1, <1>2, <1>3

IsJoinFrom(S, n, s, rule) ==
  LET from == JoinFrom(s, rule)
  IN  /\ from \in [1 .. n + 1 -> Seq(Seq(S))]
      /\ \A i \in 1 .. n + 1 : from[i] = JoinStep(s, rule, from, i)

LEMMA JoinFromDefined ==
  ASSUME NEW S, NEW n \in Nat, NEW s \in [1 .. n -> Seq(S)], NEW rule
  PROVE  IsJoinFrom(S, n, s, rule)
<1> DEFINE D  == 1 .. n + 1
           V  == Seq(Seq(S))
           mu == [i \in D |-> n + 1 - i]
           F  == [x \in D \X [D -> V] |-> JoinStep(s, rule, x[2], x[1])]
<1>0. Len(s) = n
  OBVIOUS
<1>1. V # {} /\ mu \in [D -> Nat]
  <2>1. <<>> \in V
    OBVIOUS
  <2>2. \A i \in D : n + 1 - i \in Nat
    OBVIOUS
  <2> HIDE DEF V
  <2> QED
    BY <2>1, <2>2
<1>2. \A i \in D, f \in [D -> V] : F[<<i, f>>] = JoinStep(s, rule, f, i)
  OBVIOUS
<1>3. F \in [D \X [D -> V] -> V]
  <2> SUFFICES ASSUME NEW x \in D \X [D -> V] PROVE JoinStep(s, rule, x[2], x[1]) \in V
    OBVIOUS
  <2>1. x[1] \in D /\ x[2] \in [D -> V]
    OBVIOUS
  <2> QED
    BY <2>1, JoinStepType
<1>4. Descends(D, V, mu, F)
  <2> SUFFICES ASSUME NEW i \in D, NEW f \in [D -> V], NEW g \in [D -> V],
                      \A e \in D : mu[e] < mu[i] => f[e] = g[e]
               PROVE  JoinStep(s, rule, f, i) = JoinStep(s, rule, g, i)
    BY <1>2 DEF Descends
  <2>1. \A e \in D : e > i => f[e] = g[e]
    OBVIOUS
  <2>2. i < n => i + 2 \in D
    OBVIOUS
  <2>3. i <= n => i + 1 \in D
    OBVIOUS
  <2>4. i < n => f[i + 2] = g[i + 2]
    BY <2>1, <2>2
  <2>5. i <= n => f[i + 1] = g[i + 1]
    BY <2>1, <2>3
  <2> HIDE DEF D, V, F, mu
  <2>6. i \in 1 .. n + 1
    BY DEF D
  <2> QED
    BY <1>0, <2>4, <2>5, <2>6, JoinStepSame
<1>5. \E h \in [D -> V] : \A i \in D : h[i] = F[<<i, h>>]
  <2> HIDE DEF D, V, mu, F
  <2>1. V # {} /\ mu \in [D -> Nat] /\ F \in [D \X [D -> V] -> V] /\ Descends(D, V, mu, F)
    BY <1>1, <1>3, <1>4
  <2>2. HasFixpoint(D, V, F)
    BY <2>1, RecursionOn
  <2> QED
    BY <2>2 DEF HasFixpoint
<1>6. \E h : h = [i \in 1 .. Len(s) + 1 |-> JoinStep(s, rule, h, i)]
  <2>1. PICK h \in [D -> V] : \A i \in D : h[i] = F[<<i, h>>]
    BY <1>5
  <2>2. \A i \in D : h[i] = JoinStep(s, rule, h, i)
    BY <1>2, <2>1
  <2>3. h = [i \in D |-> JoinStep(s, rule, h, i)]
    BY <2>1, <2>2
  <2> QED
    BY <1>0, <2>3
<1> DEFINE from == JoinFrom(s, rule)
<1>7. from = [i \in D |-> JoinStep(s, rule, from, i)]
  <2>1. from = [i \in 1 .. Len(s) + 1 |-> JoinStep(s, rule, from, i)]
    BY <1>6 DEF JoinFrom
  <2> HIDE DEF from
  <2> QED
    BY <1>0, <2>1
<1> HIDE DEF from
<1>8. \A i \in D : from[i] = JoinStep(s, rule, from, i)
  BY <1>7
<1>9. ASSUME NEW i \in D PROVE from[i] \in V
  <2> DEFINE T == {m \in Nat : \A k \in D : n + 1 - k < m => from[k] \in V}
  <2>1. 0 \in T
    OBVIOUS
  <2>2. ASSUME NEW m \in T PROVE m + 1 \in T
    <3> SUFFICES ASSUME NEW k \in D, n + 1 - k < m + 1 PROVE from[k] \in V
      OBVIOUS
    <3> DEFINE f == [e \in D |-> IF e > k THEN from[e] ELSE <<>>]
    <3>1. f \in [D -> V]
      <4> SUFFICES ASSUME NEW e \in D, e > k PROVE from[e] \in V
        OBVIOUS
      <4>1. n + 1 - e < m
        OBVIOUS
      <4> QED
        BY <4>1
    <3>2. JoinStep(s, rule, f, k) \in V
      BY <3>1, JoinStepType
    <3>3. k < n => f[k + 2] = from[k + 2]
      OBVIOUS
    <3>4. k <= n => f[k + 1] = from[k + 1]
      OBVIOUS
    <3> HIDE DEF f, T, V
    <3>5. JoinStep(s, rule, f, k) = JoinStep(s, rule, from, k)
      BY <1>0, <3>3, <3>4, JoinStepSame
    <3> QED
      BY <1>8, <3>2, <3>5
  <2>3. T = Nat
    <3> HIDE DEF T
    <3>1. T \in SUBSET Nat
      BY DEF T
    <3> QED
      BY <2>1, <2>2, <3>1, Induct
  <2>4. (n + 1) - i \in Nat /\ (n + 1) - i < ((n + 1) - i) + 1
    OBVIOUS
  <2> DEFINE m == ((n + 1) - i) + 1
  <2>5. m \in Nat /\ n + 1 - i < m
    BY <2>4
  <2> HIDE DEF m
  <2>6. m \in T
    BY <2>3, <2>5
  <2> QED
    BY <2>5, <2>6
<1> QED
  BY <1>7, <1>8, <1>9 DEF from, IsJoinFrom

(* What is left is no longer than what there was, and shorter if the pair  *)
(* is there.                                                               *)
LEMMA JoinShortens ==
  ASSUME NEW S, NEW n \in Nat, NEW s \in [1 .. n -> Seq(S)], NEW rule
  PROVE  /\ JoinAll(s, rule) \in Seq(Seq(S))
         /\ (\E p \in 1 .. n - 1 : IsPairAt(s, rule, p)) => Len(JoinAll(s, rule)) < n
<1> DEFINE from == JoinFrom(s, rule)
           OK(i) == /\ Len(from[i]) <= n + 1 - i
                    /\ (\E p \in i .. n - 1 : IsPairAt(s, rule, p)) => Len(from[i]) < n + 1 - i
           T == {m \in Nat : \A i \in 1 .. n + 1 : n + 1 - i < m => OK(i)}
<1>0. Len(s) = n
  OBVIOUS
<1>1. /\ from \in [1 .. n + 1 -> Seq(Seq(S))]
      /\ \A i \in 1 .. n + 1 : from[i] = JoinStep(s, rule, from, i)
  <2>1. IsJoinFrom(S, n, s, rule)
    BY JoinFromDefined
  <2> QED
    BY <2>1 DEF IsJoinFrom
<1> HIDE DEF from
<1>2. 0 \in T
  OBVIOUS
<1>3. ASSUME NEW m \in T PROVE m + 1 \in T
  <2> SUFFICES ASSUME NEW i \in 1 .. n + 1, n + 1 - i < m + 1 PROVE OK(i)
    OBVIOUS
  <2>1. \A k \in 1 .. n + 1 : k > i => OK(k)
    OBVIOUS
  <2>2. \A k \in 1 .. n + 1 : from[k] \in Seq(Seq(S)) /\ Len(from[k]) \in Nat
    BY <1>1
  <2>3. from[i] = JoinStep(s, rule, from, i) /\ StepCases(s, n, rule, from, i)
    BY <1>0, <1>1, JoinStepCases
  <2> HIDE DEF T
  <2>4. CASE i = n + 1
    <3>1. from[i] = <<>>
      BY <2>3, <2>4 DEF StepCases
    <3>2. Len(from[i]) = 0 /\ i .. n - 1 = {} /\ 0 <= n + 1 - i
      BY <2>4, <3>1
    <3> QED
      BY <3>2
  <2>5. CASE IsPairAt(s, rule, i)
    <3>1. /\ i \in 1 .. n /\ i + 1 \in 1 .. n /\ i + 2 \in 1 .. n + 1
          /\ Product(rule) = s[i] \o s[i + 1]
          /\ from[i] = <<Product(rule)>> \o from[i + 2]
      BY <2>3, <2>5 DEF StepCases
    <3> DEFINE rest == from[i + 2]
               e    == Product(rule)
    <3>2. rest \in Seq(Seq(S)) /\ e \in Seq(S)
      <4>1. s[i] \in Seq(S) /\ s[i + 1] \in Seq(S)
        BY <3>1
      <4> QED
        BY <2>2, <3>1, <4>1
    <3>3. Len(rest) <= n + 1 - (i + 2)
      BY <2>1, <3>1
    <3> HIDE DEF rest, e, OK
    <3>4. Len(<<e>> \o rest) = 1 + Len(rest) /\ Len(rest) \in Nat
      BY <3>2
    <3>5. Len(from[i]) < n + 1 - i
      BY <3>1, <3>3, <3>4 DEF rest, e
    <3>6. Len(from[i]) \in Nat
      BY <2>2
    <3> QED
      BY <3>5, <3>6 DEF OK
  <2>6. CASE i # n + 1 /\ ~IsPairAt(s, rule, i)
    <3>1. /\ i \in 1 .. n /\ i + 1 \in 1 .. n + 1
          /\ from[i] = <<s[i]>> \o from[i + 1]
      BY <2>3, <2>6 DEF StepCases
    <3> DEFINE rest == from[i + 1]
               e    == s[i]
    <3>2. rest \in Seq(Seq(S)) /\ e \in Seq(S)
      BY <2>2, <3>1
    <3>3. OK(i + 1)
      BY <2>1, <3>1
    <3>4. Len(rest) <= n + 1 - (i + 1)
      BY <3>3
    <3>5. (\E p \in i + 1 .. n - 1 : IsPairAt(s, rule, p)) => Len(rest) < n + 1 - (i + 1)
      BY <3>3
    <3> HIDE DEF rest, e, OK
    <3>6. Len(<<e>> \o rest) = 1 + Len(rest) /\ Len(rest) \in Nat
      BY <3>2
    <3>7. Len(from[i]) = 1 + Len(rest)
      BY <3>1, <3>6 DEF rest, e
    <3>8. ASSUME NEW p \in i .. n - 1, IsPairAt(s, rule, p)
          PROVE  Len(from[i]) < n + 1 - i
      <4>1. p # i
        BY <2>6, <3>8
      <4>2. p \in i + 1 .. n - 1
        BY <4>1
      <4>3. Len(rest) < n + 1 - (i + 1)
        BY <3>5, <3>8, <4>2
      <4> QED
        BY <3>6, <3>7, <4>3
    <3>9. Len(from[i]) <= n + 1 - i
      BY <3>4, <3>6, <3>7
    <3> QED
      BY <3>8, <3>9 DEF OK
  <2> QED
    BY <2>4, <2>5, <2>6
<1>4. T = Nat
  <2> HIDE DEF T
  <2>1. T \in SUBSET Nat
    BY DEF T
  <2> QED
    BY <1>2, <1>3, <2>1, Induct
<1>5. OK(1)
  <2>0. n + 1 \in Nat
    OBVIOUS
  <2>1. n + 1 \in T
    BY <1>4, <2>0
  <2>2. 1 \in 1 .. n + 1 /\ (n + 1) - 1 < n + 1
    OBVIOUS
  <2> HIDE DEF OK
  <2> QED
    BY <2>1, <2>2
<1>6. JoinAll(s, rule) = from[1] /\ 1 \in 1 .. n + 1
  BY JoinAllIs DEF from
<1>7. (n + 1) - 1 = n
  OBVIOUS
<1> QED
  BY <1>1, <1>5, <1>6, <1>7

(* A round without the pair changes nothing.                               *)
LEMMA JoinNothing ==
  ASSUME NEW S, NEW n \in Nat, NEW s \in [1 .. n -> Seq(S)], NEW rule,
         \A p \in 1 .. n - 1 : ~IsPairAt(s, rule, p)
  PROVE  JoinAll(s, rule) = s
<1> DEFINE from == JoinFrom(s, rule)
           suffix(i) == [q \in 1 .. n + 1 - i |-> s[q + i - 1]]
           T == {m \in Nat : \A i \in 1 .. n + 1 : n + 1 - i < m => from[i] = suffix(i)}
<1>0. Len(s) = n
  OBVIOUS
<1>1. \A i \in 1 .. n + 1 : from[i] = JoinStep(s, rule, from, i)
  <2>1. IsJoinFrom(S, n, s, rule)
    BY JoinFromDefined
  <2> QED
    BY <2>1 DEF IsJoinFrom
<1> HIDE DEF from
<1>2. 0 \in T
  OBVIOUS
<1>3. ASSUME NEW m \in T PROVE m + 1 \in T
  <2> SUFFICES ASSUME NEW i \in 1 .. n + 1, n + 1 - i < m + 1 PROVE from[i] = suffix(i)
    OBVIOUS
  <2>1. i + 1 \in 1 .. n + 1 => from[i + 1] = suffix(i + 1)
    <3>1. n + 1 - (i + 1) < m
      OBVIOUS
    <3> QED
      BY <3>1
  <2>2. from[i] = JoinStep(s, rule, from, i) /\ StepCases(s, n, rule, from, i)
    BY <1>0, <1>1, JoinStepCases
  <2> HIDE DEF T
  <2>3. CASE i = n + 1
    <3>1. from[i] = <<>>
      BY <2>2, <2>3 DEF StepCases
    <3>2. n + 1 - i = 0
      BY <2>3
    <3>3. suffix(i) = [q \in 1 .. 0 |-> s[q + i - 1]]
      BY <3>2
    <3>4. [q \in 1 .. 0 |-> s[q + i - 1]] = <<>>
      OBVIOUS
    <3> HIDE DEF suffix
    <3> QED
      BY <3>1, <3>3, <3>4
  <2>4. CASE i # n + 1
    <3>1. ~IsPairAt(s, rule, i)
      <4>1. CASE i = n
        BY <1>0, <4>1 DEF IsPairAt
      <4>2. CASE i # n
        <5>1. i \in 1 .. n - 1
          BY <2>4, <4>2
        <5> QED
          BY <5>1
      <4> QED
        BY <4>1, <4>2
    <3>2. i \in 1 .. n /\ i + 1 \in 1 .. n + 1 /\ from[i] = <<s[i]>> \o from[i + 1]
      BY <2>2, <2>4, <3>1 DEF StepCases
    <3> DEFINE rest == suffix(i + 1)
               e    == s[i]
    <3>3. rest \in Seq(Seq(S)) /\ Len(rest) = n - i /\ e \in Seq(S)
      <4>1. n + 1 - (i + 1) = n - i /\ n - i \in Nat
        BY <3>2
      <4>2. \A q \in 1 .. n - i : q + (i + 1) - 1 \in 1 .. n
        BY <3>2
      <4>3. rest \in [1 .. n - i -> Seq(S)]
        BY <4>1, <4>2
      <4>4. e \in Seq(S)
        BY <3>2
      <4> DEFINE d == n - i
      <4> HIDE DEF rest, e
      <4>5. rest \in Seq(Seq(S)) /\ Len(rest) = n - i
        <5>1. d \in Nat /\ rest \in [1 .. d -> Seq(S)]
          BY <4>1, <4>3
        <5> HIDE DEF d
        <5>2. rest \in Seq(Seq(S)) /\ Len(rest) = d
          BY <5>1
        <5> QED
          BY <5>2 DEF d
      <4> QED
        BY <4>4, <4>5
    <3>4. \A q \in 1 .. n - i : rest[q] = s[q + i]
      <4>1. ASSUME NEW q \in 1 .. n - i PROVE q \in 1 .. n + 1 - (i + 1) /\ q + (i + 1) - 1 = q + i
        BY <3>2
      <4> QED
        BY <4>1
    <3> HIDE DEF rest, e
    <3>5. <<e>> \o rest = [q \in 1 .. n - i + 1 |-> IF q = 1 THEN e ELSE rest[q - 1]]
      BY <3>3, Prepend
    <3>6. ASSUME NEW q \in 1 .. n - i + 1
          PROVE  (IF q = 1 THEN e ELSE rest[q - 1]) = s[q + i - 1]
      <4>1. CASE q = 1
        <5>1. q + i - 1 = i
          BY <3>2, <4>1
        <5> QED
          BY <4>1, <5>1 DEF e
      <4>2. CASE q # 1
        <5>1. q - 1 \in 1 .. n - i /\ (q - 1) + i = q + i - 1
          BY <3>2, <4>2
        <5> QED
          BY <3>4, <4>2, <5>1
      <4> QED
        BY <4>1, <4>2
    <3>7. n - i + 1 = n + 1 - i
      BY <3>2
    <3>8. <<e>> \o rest = suffix(i)
      BY <3>5, <3>6, <3>7
    <3> QED
      BY <2>1, <3>2, <3>8 DEF rest, e
  <2> QED
    BY <2>3, <2>4
<1>4. T = Nat
  <2> HIDE DEF T
  <2>1. T \in SUBSET Nat
    BY DEF T
  <2> QED
    BY <1>2, <1>3, <2>1, Induct
<1>5. from[1] = suffix(1)
  <2>0. n + 1 \in Nat
    OBVIOUS
  <2>1. n + 1 \in T
    BY <1>4, <2>0
  <2>2. 1 \in 1 .. n + 1 /\ (n + 1) - 1 < n + 1
    OBVIOUS
  <2> HIDE DEF suffix
  <2> QED
    BY <2>1, <2>2
<1>6. suffix(1) = s
  <2>1. n + 1 - 1 = n /\ \A q \in 1 .. n : q + 1 - 1 = q
    OBVIOUS
  <2>2. suffix(1) = [q \in 1 .. n |-> s[q]]
    BY <2>1
  <2> HIDE DEF suffix
  <2> QED
    BY <2>2
<1> QED
  BY <1>5, <1>6, JoinAllIs DEF from

FirstPairAt(pieces, rule, p) ==
  /\ rule = <<pieces[p], pieces[p + 1]>>
  /\ \A k \in 1 .. p - 1 : ~IsPairAt(pieces, rule, k)

(* Merging the leftmost occurrence first leaves the round as it was, if    *)
(* what the pair joins to is no part of the pair.                          *)
LEMMA JoinFirst ==
  ASSUME NEW S, NEW n \in Nat, NEW s \in [1 .. n -> Seq(S)], NEW p \in 1 .. n - 1, NEW rule,
         FirstPairAt(s, rule, p),
         Product(rule) # rule[1], Product(rule) # rule[2]
  PROVE  JoinAll(JoinedItems(s, p, Product(rule), n), rule) = JoinAll(s, rule)
<1> DEFINE e == Product(rule)
           t == JoinedItems(s, p, e, n)
           f == JoinFrom(s, rule)
           g == JoinFrom(t, rule)
<1>0. rule = <<s[p], s[p + 1]>> /\ \A k \in 1 .. p - 1 : ~IsPairAt(s, rule, k)
  BY DEF FirstPairAt
<1>1. rule[1] = s[p] /\ rule[2] = s[p + 1] /\ p \in 1 .. n /\ p + 1 \in 1 .. n /\ p \in Nat
  BY <1>0
<1>2. e \in Seq(S) /\ e # s[p] /\ e # s[p + 1]
  <2>1. s[p] \in Seq(S) /\ s[p + 1] \in Seq(S)
    BY <1>1
  <2>2. e = s[p] \o s[p + 1]
    BY <1>1 DEF Product
  <2> HIDE DEF e
  <2>3. e \in Seq(S)
    BY <2>1, <2>2
  <2> QED
    BY <1>1, <2>3 DEF e
<1> HIDE DEF e
<1>3. /\ t \in [1 .. n - 1 -> Seq(S)] /\ n - 1 \in Nat
      /\ \A i \in 1 .. n - 1 : t[i] = IF i < p THEN s[i] ELSE IF i = p THEN e ELSE s[i + 1]
  <2>1. \A i \in 1 .. n - 1 : i \in 1 .. n /\ i + 1 \in 1 .. n
    OBVIOUS
  <2>2. n - 1 \in Nat
    OBVIOUS
  <2> QED
    BY <1>2, <2>1, <2>2 DEF JoinedItems
<1> HIDE DEF t
<1>4. Len(s) = n /\ Len(t) = n - 1
  <2> DEFINE m == n - 1
  <2>1. m \in Nat /\ t \in [1 .. m -> Seq(S)]
    BY <1>3
  <2> HIDE DEF m
  <2>2. Len(t) = m
    BY <2>1
  <2> QED
    BY <2>2 DEF m
<1>5. \A i \in 1 .. n + 1 : f[i] = JoinStep(s, rule, f, i) /\ StepCases(s, n, rule, f, i)
  <2>1. IsJoinFrom(S, n, s, rule)
    BY JoinFromDefined
  <2>2. \A i \in 1 .. n + 1 : f[i] = JoinStep(s, rule, f, i)
    BY <2>1 DEF IsJoinFrom
  <2> HIDE DEF f
  <2> QED
    BY <1>4, <2>2, JoinStepCases
<1>6. \A i \in 1 .. n : g[i] = JoinStep(t, rule, g, i) /\ StepCases(t, n - 1, rule, g, i)
  <2>1. IsJoinFrom(S, n - 1, t, rule)
    BY <1>3, JoinFromDefined
  <2>2. (n - 1) + 1 = n
    OBVIOUS
  <2>3. \A i \in 1 .. n : g[i] = JoinStep(t, rule, g, i)
    BY <2>1, <2>2 DEF IsJoinFrom
  <2> HIDE DEF g
  <2>4. ASSUME NEW i \in 1 .. n PROVE StepCases(t, n - 1, rule, g, i)
    <3>1. i \in 1 .. (n - 1) + 1
      BY <2>2
    <3> QED
      BY <1>3, <1>4, <3>1, JoinStepCases
  <2> QED
    BY <2>3, <2>4
<1> HIDE DEF f, g
(* To the right of the merge, both rounds see the same.                    *)
<1>7. ASSUME NEW i \in p + 1 .. n PROVE f[i + 1] = g[i]
  <2> DEFINE T == {m \in Nat : \A k \in p + 1 .. n : n - k < m => f[k + 1] = g[k]}
  <2>1. 0 \in T
    OBVIOUS
  <2>2. ASSUME NEW m \in T PROVE m + 1 \in T
    <3> SUFFICES ASSUME NEW k \in p + 1 .. n, n - k < m + 1 PROVE f[k + 1] = g[k]
      OBVIOUS
    <3>1. \A x \in p + 1 .. n : x > k => f[x + 1] = g[x]
      OBVIOUS
    <3> HIDE DEF T
    <3>2. k \in 1 .. n /\ k + 1 \in 1 .. n + 1 /\ k \in Nat
      BY <1>1
    <3>3. /\ f[k + 1] = JoinStep(s, rule, f, k + 1) /\ StepCases(s, n, rule, f, k + 1)
          /\ g[k] = JoinStep(t, rule, g, k) /\ StepCases(t, n - 1, rule, g, k)
      BY <1>5, <1>6, <3>2
    <3>4. CASE k = n
      <4>1. f[k + 1] = <<>> /\ g[k] = <<>>
        BY <3>3, <3>4 DEF StepCases
      <4> QED
        BY <4>1
    <3>5. CASE k # n
      <4>1. k \in 1 .. n - 1 /\ t[k] = s[k + 1]
        BY <1>1, <1>3, <3>2, <3>5
      <4>2. IsPairAt(t, rule, k) <=> IsPairAt(s, rule, k + 1)
        <5>1. CASE k = n - 1
          BY <1>4, <5>1 DEF IsPairAt
        <5>2. CASE k # n - 1
          <6>1. k + 1 \in 1 .. n - 1 /\ ~(k + 1 < p) /\ k + 1 # p /\ k < n - 1 /\ k + 1 < n
            BY <1>1, <3>2, <4>1, <5>2
          <6>2. t[k + 1] = s[(k + 1) + 1]
            BY <1>3, <6>1
          <6> QED
            BY <1>4, <4>1, <6>1, <6>2, Zenon DEF IsPairAt
        <5> QED
          BY <5>1, <5>2
      <4>3. CASE IsPairAt(t, rule, k)
        <5>1. f[k + 1] = <<Product(rule)>> \o f[(k + 1) + 2] /\ k + 1 + 1 \in 1 .. n
          BY <3>3, <4>2, <4>3 DEF StepCases
        <5>2. g[k] = <<Product(rule)>> \o g[k + 2]
          BY <3>3, <4>3 DEF StepCases
        <5>3. k + 2 \in p + 1 .. n /\ k + 2 > k /\ (k + 2) + 1 = (k + 1) + 2
          BY <3>2, <5>1
        <5>4. f[(k + 2) + 1] = g[k + 2]
          BY <3>1, <5>3
        <5> QED
          BY <5>1, <5>2, <5>3, <5>4
      <4>4. CASE ~IsPairAt(t, rule, k)
        <5>0. k + 1 # n + 1 /\ k # (n - 1) + 1
          BY <3>2, <3>5
        <5>1. f[k + 1] = <<s[k + 1]>> \o f[(k + 1) + 1]
          BY <3>3, <4>2, <4>4, <5>0 DEF StepCases
        <5>2. g[k] = <<t[k]>> \o g[k + 1]
          BY <3>3, <4>4, <5>0 DEF StepCases
        <5>3. k + 1 \in p + 1 .. n /\ k + 1 > k
          BY <3>2, <4>1
        <5>4. f[(k + 1) + 1] = g[k + 1]
          BY <3>1, <5>3
        <5> QED
          BY <4>1, <5>1, <5>2, <5>4
      <4> QED
        BY <4>3, <4>4
    <3> QED
      BY <3>4, <3>5
  <2>3. T = Nat
    <3> HIDE DEF T
    <3>1. T \in SUBSET Nat
      BY DEF T
    <3> QED
      BY <2>1, <2>2, <3>1, Induct
  <2> DEFINE m == n - i + 1
  <2>4. m \in Nat /\ n - i < m
    BY <1>1
  <2> HIDE DEF m
  <2>5. m \in T
    BY <2>3, <2>4
  <2> QED
    BY <2>4, <2>5
(* At the merge one has yet to do what the other has done.                 *)
<1>8. f[p] = g[p]
  <2>1. /\ f[p] = JoinStep(s, rule, f, p) /\ StepCases(s, n, rule, f, p)
        /\ g[p] = JoinStep(t, rule, g, p) /\ StepCases(t, n - 1, rule, g, p)
    <3>1. p \in 1 .. n /\ p \in 1 .. n + 1
      BY <1>1
    <3> QED
      BY <1>5, <1>6, <3>1
  <2>2. IsPairAt(s, rule, p)
    <3>1. p < n
      OBVIOUS
    <3> QED
      BY <1>0, <1>4, <3>1 DEF IsPairAt
  <2>3. f[p] = <<e>> \o f[p + 2]
    BY <2>1, <2>2 DEF StepCases, e
  <2>4. t[p] = e
    BY <1>1, <1>3
  <2>5. ~IsPairAt(t, rule, p)
    <3>1. ASSUME <<t[p], t[p + 1]>> = rule PROVE FALSE
      <4>1. t[p] = rule[1]
        BY <3>1
      <4> QED
        BY <1>1, <1>2, <2>4, <4>1
    <3> QED
      BY <3>1, Zenon DEF IsPairAt
  <2>6. p # (n - 1) + 1
    BY <1>1
  <2>7. g[p] = <<e>> \o g[p + 1]
    BY <2>1, <2>4, <2>5, <2>6 DEF StepCases
  <2>8. p + 1 \in p + 1 .. n /\ (p + 1) + 1 = p + 2
    BY <1>1
  <2>9. f[(p + 1) + 1] = g[p + 1]
    BY <1>7, <2>8
  <2> QED
    BY <2>3, <2>7, <2>8, <2>9
(* To the left of it neither finds the pair.                               *)
<1>9. ASSUME NEW i \in 1 .. p PROVE f[i] = g[i]
  <2> DEFINE T == {m \in Nat : \A k \in 1 .. p : p - k < m => f[k] = g[k]}
  <2>1. 0 \in T
    OBVIOUS
  <2>2. ASSUME NEW m \in T PROVE m + 1 \in T
    <3> SUFFICES ASSUME NEW k \in 1 .. p, p - k < m + 1 PROVE f[k] = g[k]
      OBVIOUS
    <3>1. k # p => f[k + 1] = g[k + 1]
      OBVIOUS
    <3> HIDE DEF T
    <3>2. CASE k = p
      BY <1>8, <3>2
    <3>3. CASE k # p
      <4>1. /\ k \in 1 .. p - 1 /\ k \in 1 .. n /\ k \in 1 .. n + 1 /\ k \in 1 .. n - 1
            /\ k # n + 1 /\ k # (n - 1) + 1 /\ k < p
        BY <1>1, <3>3
      <4>2. /\ f[k] = JoinStep(s, rule, f, k) /\ StepCases(s, n, rule, f, k)
            /\ g[k] = JoinStep(t, rule, g, k) /\ StepCases(t, n - 1, rule, g, k)
        BY <1>5, <1>6, <4>1
      <4>3. t[k] = s[k]
        BY <1>3, <4>1
      <4>4. ~IsPairAt(s, rule, k)
        BY <1>0, <4>1
      <4>5. ~IsPairAt(t, rule, k)
        <5>1. CASE k + 1 = p
          <6>1. k + 1 \in 1 .. n - 1 /\ t[k + 1] = e
            BY <1>1, <1>3, <5>1
          <6>2. ASSUME <<t[k], t[k + 1]>> = rule PROVE FALSE
            <7>1. t[k + 1] = rule[2]
              BY <6>2
            <7> QED
              BY <1>1, <1>2, <6>1, <7>1
          <6> QED
            BY <6>2, Zenon DEF IsPairAt
        <5>2. CASE k + 1 # p
          <6>1. k + 1 \in 1 .. n - 1 /\ k + 1 < p /\ k < n
            BY <1>1, <4>1, <5>2
          <6>2. t[k + 1] = s[k + 1] /\ k < Len(s)
            BY <1>3, <1>4, <6>1
          <6> QED
            BY <4>3, <4>4, <6>2, Zenon DEF IsPairAt
        <5> QED
          BY <5>1, <5>2
      <4>6. f[k] = <<s[k]>> \o f[k + 1]
        BY <4>1, <4>2, <4>4 DEF StepCases
      <4>7. g[k] = <<t[k]>> \o g[k + 1]
        BY <4>1, <4>2, <4>5 DEF StepCases
      <4> QED
        BY <3>1, <3>3, <4>3, <4>6, <4>7
    <3> QED
      BY <3>2, <3>3
  <2>3. T = Nat
    <3> HIDE DEF T
    <3>1. T \in SUBSET Nat
      BY DEF T
    <3> QED
      BY <2>1, <2>2, <3>1, Induct
  <2> DEFINE m == p - i + 1
  <2>4. m \in Nat /\ p - i < m
    BY <1>1
  <2> HIDE DEF m
  <2>5. m \in T
    BY <2>3, <2>4
  <2> QED
    BY <2>4, <2>5
<1>10. 1 \in 1 .. p /\ JoinAll(s, rule) = f[1] /\ JoinAll(t, rule) = g[1]
  BY JoinAllIs DEF f, g
<1> QED
  BY <1>9, <1>10 DEF t, e

-----------------------------------------------------------------------------
(* The reference loop ends, each round leaving fewer pieces: it is a       *)
(* function of the pieces.                                                 *)
LEMMA RanksArePairs ==
  ASSUME NEW n \in Nat, NEW s, Len(s) = n, NEW list
  PROVE  \A r : r \in RanksOf(list, s) <=>
           r \in DOMAIN list /\ \E p \in 1 .. n - 1 : IsPairAt(s, list[r], p)
<1>1. \A p \in 1 .. n - 1 : p < n
  OBVIOUS
<1> QED
  BY <1>1 DEF RanksOf, IsPairAt

LEMMA BestRankFacts ==
  ASSUME NEW list, DOMAIN list \in SUBSET Nat, NEW s, RanksOf(list, s) # {}
  PROVE  /\ BestRank(list, s) \in RanksOf(list, s)
         /\ BestRank(list, s) \in DOMAIN list
         /\ \A other \in RanksOf(list, s) : BestRank(list, s) <= other
<1>1. RanksOf(list, s) \in SUBSET Nat
  BY DEF RanksOf
<1>2. \E r \in RanksOf(list, s) : \A other \in RanksOf(list, s) : r <= other
  BY <1>1, LeastNat
<1>3. /\ BestRank(list, s) \in RanksOf(list, s)
      /\ \A other \in RanksOf(list, s) : BestRank(list, s) <= other
  BY <1>2 DEF BestRank
<1> QED
  BY <1>3 DEF RanksOf

Round(list, pieces) == JoinAll(pieces, list[BestRank(list, pieces)])

LoopStep(list, loop, pieces) ==
  IF RanksOf(list, pieces) = {} THEN pieces ELSE loop[Round(list, pieces)]

LEMMA RoundShortens ==
  ASSUME NEW C, NEW list, DOMAIN list \in SUBSET Nat, NEW s \in Seq(Seq(C)), RanksOf(list, s) # {}
  PROVE  Round(list, s) \in Seq(Seq(C)) /\ Len(Round(list, s)) < Len(s)
<1> DEFINE n    == Len(s)
           rule == list[BestRank(list, s)]
<1>1. n \in Nat /\ s \in [1 .. n -> Seq(C)]
  OBVIOUS
<1>2. \E p \in 1 .. n - 1 : IsPairAt(s, rule, p)
  BY <1>1, BestRankFacts, RanksArePairs
<1> HIDE DEF n, rule
<1>3. JoinAll(s, rule) \in Seq(Seq(C)) /\ Len(JoinAll(s, rule)) < n
  BY <1>1, <1>2, JoinShortens
<1> QED
  BY <1>3 DEF Round, n, rule

LEMMA RoundsDefined ==
  ASSUME NEW C, NEW list, DOMAIN list \in SUBSET Nat
  PROVE  \A s \in Seq(Seq(C)) : Rounds(list, C)[s] = LoopStep(list, Rounds(list, C), s)
<1> DEFINE D  == Seq(Seq(C))
           mu == [s \in D |-> Len(s)]
           F  == [x \in D \X [D -> D] |-> LoopStep(list, x[2], x[1])]
<1>1. D # {} /\ mu \in [D -> Nat]
  <2>1. <<>> \in D
    OBVIOUS
  <2>2. \A s \in D : Len(s) \in Nat
    OBVIOUS
  <2> HIDE DEF D
  <2> QED
    BY <2>1, <2>2
<1>2. \A s \in D, f \in [D -> D] : F[<<s, f>>] = LoopStep(list, f, s)
  OBVIOUS
<1>3. \A s \in D : RanksOf(list, s) # {} => Round(list, s) \in D /\ mu[Round(list, s)] < mu[s]
  BY RoundShortens
<1> HIDE DEF D, mu
<1>4. F \in [D \X [D -> D] -> D]
  <2> SUFFICES ASSUME NEW s \in D, NEW f \in [D -> D] PROVE LoopStep(list, f, s) \in D
    OBVIOUS
  <2> QED
    BY <1>3 DEF LoopStep
<1>5. Descends(D, D, mu, F)
  <2> SUFFICES ASSUME NEW s \in D, NEW f \in [D -> D], NEW g \in [D -> D],
                      \A e \in D : mu[e] < mu[s] => f[e] = g[e]
               PROVE  LoopStep(list, f, s) = LoopStep(list, g, s)
    BY <1>2 DEF Descends
  <2> QED
    BY <1>3 DEF LoopStep
<1> HIDE DEF F
<1>6. HasFixpoint(D, D, F)
  BY <1>1, <1>4, <1>5, RecursionOn
<1>7. PICK h \in [D -> D] : \A s \in D : h[s] = LoopStep(list, h, s)
  BY <1>2, <1>6 DEF HasFixpoint
<1>8. h = [s \in D |-> LoopStep(list, h, s)]
  BY <1>7
<1> DEFINE loop == CHOOSE f : f = [s \in D |-> LoopStep(list, f, s)]
<1>9. loop = [s \in D |-> LoopStep(list, loop, s)]
  BY <1>8
<1>10. Rounds(list, C) = loop
  BY DEF Rounds, LoopStep, Round, D
<1> HIDE DEF loop
<1>11. \A s \in D : loop[s] = LoopStep(list, loop, s)
  BY <1>9
<1> QED
  BY <1>10, <1>11 DEF D

IsLeast(r, ranks) == \A q \in ranks : r <= q

(* One merge of the best pair, leftmost first, leaves the outcome of the   *)
(* rounds as it was, on a list a trainer can produce: a pair with the      *)
(* joined piece in it ranks below the pair joined.                         *)
LEMMA RoundsKept ==
  ASSUME NEW C, NEW list, DOMAIN list \in SUBSET Nat, Trained(list),
         NEW n \in Nat, NEW s \in [1 .. n -> Seq(C)], NEW p \in 1 .. n - 1,
         NEW r \in DOMAIN list, FirstPairAt(s, list[r], p), IsLeast(r, RanksOf(list, s))
  PROVE  Rounds(list, C)[Joined(s, p, s[p] \o s[p + 1])] = Rounds(list, C)[s]
<1> DEFINE rule == list[r]
           e    == Product(rule)
           t    == JoinedItems(s, p, e, n)
<1>0. /\ list[r] = <<s[p], s[p + 1]>>
      /\ \A q \in RanksOf(list, s) : r <= q
  BY DEF FirstPairAt, IsLeast
<1>1. e = s[p] \o s[p + 1] /\ rule[1] = s[p] /\ rule[2] = s[p + 1]
  <2>1. rule = <<s[p], s[p + 1]>>
    BY <1>0
  <2> HIDE DEF rule
  <2>2. rule[1] = s[p] /\ rule[2] = s[p + 1]
    BY <2>1
  <2> QED
    BY <2>2 DEF Product
<1>2. e \in Seq(C) /\ p \in 1 .. n /\ p + 1 \in 1 .. n /\ s[p] \in Seq(C) /\ s[p + 1] \in Seq(C)
  <2>1. p \in 1 .. n /\ p + 1 \in 1 .. n
    OBVIOUS
  <2>2. s[p] \in Seq(C) /\ s[p + 1] \in Seq(C)
    BY <2>1
  <2> HIDE DEF e
  <2>3. e \in Seq(C)
    BY <1>1, <2>2
  <2> QED
    BY <2>1, <2>2, <2>3
<1>3. \A q \in DOMAIN list : e \in {list[q][1], list[q][2]} => r < q
  BY DEF Trained
<1>4. r \in Nat /\ e # rule[1] /\ e # rule[2]
  <2>1. r \in Nat
    OBVIOUS
  <2>2. ~(r < r)
    BY <2>1
  <2> HIDE DEF e
  <2> QED
    BY <1>3, <2>1, <2>2
<1> HIDE DEF e
<1>5. /\ t \in [1 .. n - 1 -> Seq(C)] /\ n - 1 \in Nat
      /\ \A i \in 1 .. n - 1 : t[i] = IF i < p THEN s[i] ELSE IF i = p THEN e ELSE s[i + 1]
  <2>1. \A i \in 1 .. n - 1 : i \in 1 .. n /\ i + 1 \in 1 .. n
    OBVIOUS
  <2>2. n - 1 \in Nat
    OBVIOUS
  <2> QED
    BY <1>2, <2>1, <2>2 DEF JoinedItems
<1>6. Joined(s, p, s[p] \o s[p + 1]) = t
  <2>1. Joined(s, p, e) = JoinedItems(s, p, e, n)
    BY <1>2, JoinedFacts
  <2> QED
    BY <1>1, <2>1
<1>7. JoinAll(t, rule) = JoinAll(s, rule)
  <2>1. Product(rule) # rule[1] /\ Product(rule) # rule[2]
    BY <1>4 DEF e
  <2>2. FirstPairAt(s, rule, p)
    OBVIOUS
  <2> HIDE DEF rule
  <2>3. JoinAll(JoinedItems(s, p, Product(rule), n), rule) = JoinAll(s, rule)
    BY <2>1, <2>2, JoinFirst
  <2> QED
    BY <2>3 DEF e
<1> HIDE DEF t
<1>8. Len(s) = n /\ Len(t) = n - 1 /\ s \in Seq(Seq(C)) /\ t \in Seq(Seq(C))
  <2> DEFINE m == n - 1
  <2>1. Len(s) = n /\ s \in Seq(Seq(C))
    OBVIOUS
  <2>2. m \in Nat /\ t \in [1 .. m -> Seq(C)]
    BY <1>5
  <2> HIDE DEF m
  <2>3. Len(t) = m /\ t \in Seq(Seq(C))
    BY <2>2
  <2> QED
    BY <2>1, <2>3 DEF m
<1>9. r \in RanksOf(list, s)
  <2>1. p < n
    OBVIOUS
  <2>2. IsPairAt(s, list[r], p)
    BY <1>0, <1>8, <2>1 DEF IsPairAt
  <2> QED
    BY <1>8, <2>2, RanksArePairs
<1>10. BestRank(list, s) = r
  <2>1. /\ BestRank(list, s) \in RanksOf(list, s) /\ BestRank(list, s) \in DOMAIN list
        /\ BestRank(list, s) <= r
    BY <1>9, BestRankFacts
  <2>2. r <= BestRank(list, s) /\ BestRank(list, s) \in Nat
    BY <1>0, <2>1
  <2> QED
    BY <1>4, <2>1, <2>2
<1>11. Rounds(list, C)[s] = Rounds(list, C)[JoinAll(s, rule)]
  <2>1. Rounds(list, C)[s] = LoopStep(list, Rounds(list, C), s)
    BY <1>8, RoundsDefined
  <2> QED
    BY <1>9, <1>10, <2>1 DEF LoopStep, Round
(* No pair of the joined pieces is better than the one just joined.        *)
<1>12. ASSUME NEW q \in RanksOf(list, t) PROVE r <= q
  <2>1. q \in DOMAIN list /\ \E k \in 1 .. (n - 1) - 1 : list[q] = <<t[k], t[k + 1]>>
    BY <1>8 DEF RanksOf
  <2>2. PICK k \in 1 .. (n - 1) - 1 : list[q] = <<t[k], t[k + 1]>>
    BY <2>1
  <2>3. q \in Nat /\ k \in 1 .. n - 1 /\ k + 1 \in 1 .. n - 1 /\ k \in Nat
    BY <2>1
  <2>4. list[q][1] = t[k] /\ list[q][2] = t[k + 1]
    BY <2>2
  <2>5. CASE k = p \/ k + 1 = p
    <3>1. t[k] = e \/ t[k + 1] = e
      <4>1. t[p] = e
        BY <1>5
      <4> QED
        BY <2>5, <4>1
    <3>2. r < q
      BY <1>3, <2>1, <2>4, <3>1
    <3> QED
      BY <1>4, <2>3, <3>2
  <2>6. CASE k + 1 < p
    <3>1. t[k] = s[k] /\ t[k + 1] = s[k + 1]
      BY <1>5, <2>3, <2>6
    <3>2. q \in RanksOf(list, s)
      BY <1>8, <2>1, <2>2, <2>3, <3>1 DEF RanksOf
    <3> QED
      BY <1>0, <3>2
  <2>7. CASE k > p
    <3>0. ~(k < p) /\ k # p /\ ~(k + 1 < p) /\ k + 1 # p
      BY <2>3, <2>7
    <3>1. t[k] = s[k + 1] /\ t[k + 1] = s[(k + 1) + 1]
      BY <1>5, <2>3, <3>0
    <3>2. q \in RanksOf(list, s)
      BY <1>8, <2>1, <2>2, <2>3, <3>1 DEF RanksOf
    <3> QED
      BY <1>0, <3>2
  <2>8. k = p \/ k + 1 = p \/ k + 1 < p \/ k > p
    BY <2>3
  <2> QED
    BY <2>5, <2>6, <2>7, <2>8
<1>13. CASE r \in RanksOf(list, t)
  <2>1. BestRank(list, t) = r
    <3>1. /\ BestRank(list, t) \in RanksOf(list, t) /\ BestRank(list, t) \in DOMAIN list
          /\ BestRank(list, t) <= r
      BY <1>13, BestRankFacts
    <3>2. r <= BestRank(list, t) /\ BestRank(list, t) \in Nat
      BY <1>12, <3>1
    <3> QED
      BY <1>4, <3>1, <3>2
  <2>2. Rounds(list, C)[t] = LoopStep(list, Rounds(list, C), t)
    BY <1>8, RoundsDefined
  <2>3. Rounds(list, C)[t] = Rounds(list, C)[JoinAll(t, rule)]
    BY <1>13, <2>1, <2>2 DEF LoopStep, Round
  <2> QED
    BY <1>6, <1>7, <1>11, <2>3
<1>14. CASE r \notin RanksOf(list, t)
  <2>1. \A k \in 1 .. (n - 1) - 1 : ~IsPairAt(t, rule, k)
    BY <1>5, <1>8, <1>14, RanksArePairs
  <2> HIDE DEF rule
  <2>2. JoinAll(t, rule) = t
    BY <1>5, <2>1, JoinNothing
  <2> QED
    BY <1>6, <1>7, <1>11, <2>2
<1> QED
  BY <1>13, <1>14

-----------------------------------------------------------------------------
(***************************************************************************)
(* The invariant of the rounds: whatever has been merged so far, the       *)
(* reference loop would end where it ends from the characters.             *)
(***************************************************************************)
Singles == [k \in 1 .. Len(text) |-> <<text[k]>>]

GInv == Trained(merges) => Rounds(merges, Chars)[Pieces] = Rounds(merges, Chars)[Singles]

LEMMA PiecesType ==
  ASSUME RInv, PiecesArePaths, symbols # <<>>
  PROVE  Pieces \in Seq(Seq(Chars)) /\ Pieces \in [1 .. Len(Pieces) -> Seq(Chars)]
<1>1. PICK n, path : IsPath(symbols, n, path)
  BY DEF RInv
<1>2. n \in Nat /\ Pieces \in [1 .. n -> Seq(Chars)]
  BY <1>1 DEF PiecesArePaths, IsPath
<1> QED
  BY <1>2

LEMMA MergeKeepsRounds ==
  ASSUME RInv, PiecesArePaths, symbols # <<>>, Trained(merges), Best!MergeBest
  PROVE  Rounds(merges, Chars)[Pieces'] = Rounds(merges, Chars)[Pieces]
<1> DEFINE s == Pieces
           n == Len(s)
<1>1. s \in [1 .. n -> Seq(Chars)] /\ n \in Nat /\ DOMAIN merges \in SUBSET Nat
  BY PiecesType DEF RInv, IInv, Inputs
<1>2. PICK c \in Best!Candidates :
        /\ \A d \in Best!Candidates : Best!BetterOrSame(c, d)
        /\ Pieces' = Joined(s, c[1], s[c[1]] \o s[c[1] + 1])
  BY DEF Best!MergeBest, Joined
<1> HIDE DEF s, n
<1>3. \A d \in Best!Candidates : d[1] \in 1 .. n - 1 /\ d[2] \in DOMAIN merges
                                 /\ merges[d[2]] = <<s[d[1]], s[d[1] + 1]>>
  BY DEF Best!Candidates, s, n
<1>4. ASSUME NEW i \in 1 .. n - 1, NEW q \in DOMAIN merges, merges[q] = <<s[i], s[i + 1]>>
      PROVE  c[2] < q \/ (c[2] = q /\ c[1] <= i)
  <2>1. <<i, q>> \in Best!Candidates
    BY <1>4 DEF Best!Candidates, s, n
  <2>2. Best!BetterOrSame(c, <<i, q>>)
    BY <1>2, <2>1
  <2> QED
    BY <2>2 DEF Best!BetterOrSame
<1> DEFINE p == c[1]
           r == c[2]
<1>5. p \in 1 .. n - 1 /\ r \in DOMAIN merges /\ merges[r] = <<s[p], s[p + 1]>>
  BY <1>3
<1>6. \A i \in 1 .. n - 1, q \in DOMAIN merges :
        merges[q] = <<s[i], s[i + 1]>> => r < q \/ (r = q /\ p <= i)
  BY <1>4
<1>7. Pieces' = Joined(s, p, s[p] \o s[p + 1])
  BY <1>2
<1> HIDE DEF p, r
<1>8. r \in Nat
  BY <1>1, <1>5
<1>9. IsLeast(r, RanksOf(merges, s))
  <2> SUFFICES ASSUME NEW q \in RanksOf(merges, s) PROVE r <= q
    BY DEF IsLeast
  <2>1. q \in DOMAIN merges /\ \E k \in 1 .. n - 1 : merges[q] = <<s[k], s[k + 1]>>
    BY DEF RanksOf, n
  <2>2. r < q \/ r = q
    BY <1>6, <2>1
  <2> QED
    BY <1>1, <1>8, <2>1, <2>2
<1>10. FirstPairAt(s, merges[r], p)
  <2>1. ASSUME NEW k \in 1 .. p - 1, IsPairAt(s, merges[r], k) PROVE FALSE
    <3>1. k \in 1 .. n - 1 /\ ~(p <= k)
      BY <1>1, <1>5
    <3>2. merges[r] = <<s[k], s[k + 1]>>
      BY <2>1, Zenon DEF IsPairAt
    <3>3. r < r \/ p <= k
      BY <1>5, <1>6, <3>1, <3>2
    <3> QED
      BY <1>8, <3>1, <3>3
  <2> QED
    BY <1>5, <2>1 DEF FirstPairAt
<1>11. Rounds(merges, Chars)[Joined(s, p, s[p] \o s[p + 1])] = Rounds(merges, Chars)[s]
  BY <1>1, <1>5, <1>9, <1>10, RoundsKept
<1> QED
  BY <1>7, <1>11 DEF s

LEMMA NextGInv ==
  ASSUME TInv, TInv', PiecesArePaths, PiecesArePaths', GInv, [Next]_vars
  PROVE  GInv'
<1>1. RInv /\ RInv' /\ IInv
  BY DEF TInv, RInv
<1>2. UNCHANGED <<text, merges>>
  BY DEF Next, EmitWhole, Split, Skip, Merge, MergesDone, Emit, PieceUnknown, Return, vars, params
<1>3. Chars' = Chars /\ Singles' = Singles
  BY <1>2 DEF Chars, Singles
<1>4. ASSUME Trained(merges) => Rounds(merges, Chars)[Pieces'] = Rounds(merges, Chars)[Pieces]
      PROVE  GInv'
  <2> DEFINE R(list, chars) == Rounds(list, chars)
             Tr(list) == Trained(list)
  <2>1. /\ Tr(merges) => R(merges, Chars)[Pieces] = R(merges, Chars)[Singles]
        /\ Tr(merges) => R(merges, Chars)[Pieces'] = R(merges, Chars)[Pieces]
    BY <1>4 DEF GInv
  <2>2. GInv' <=> (Tr(merges') => R(merges', Chars')[Pieces'] = R(merges', Chars')[Singles'])
    BY DEF GInv
  <2> HIDE DEF R, Tr
  <2> QED
    BY <1>2, <1>3, <2>1, <2>2
<1>5. CASE Merge
  <2>1. symbols # <<>>
    BY <1>1, <1>5 DEF Merge, IInv
  <2>2. Best!MergeBest
    BY <1>1, <1>5, MergeIsBest
  <2> QED
    BY <1>1, <1>4, <2>1, <2>2, MergeKeepsRounds
<1>6. CASE Split
  <2>1. Pieces' = Pieces
    BY <1>1, <1>6, SplitKeepsPieces
  <2> QED
    BY <1>4, <2>1
<1>7. CASE EmitWhole \/ Skip \/ MergesDone \/ Emit \/ PieceUnknown \/ Return \/ UNCHANGED vars
  <2>1. UNCHANGED <<text, merges, symbols>>
    BY <1>7 DEF EmitWhole, Skip, MergesDone, Emit, PieceUnknown, Return, vars, params
  <2>2. Pieces' = Pieces
    BY <1>1, <2>1, PiecesKept
  <2> QED
    BY <1>4, <2>2
<1> QED
  BY <1>5, <1>6, <1>7 DEF Next

(* tokenizer.cpp:345: merging one best pair at a time, the leftmost first, *)
(* ends where the reference loop of GPT-2 ends, which merges every         *)
(* occurrence of the best pair in a round: for every pretoken, and every   *)
(* list whose rules follow all those that produce a piece they join.       *)
THEOREM RoundsMatched == Spec => []MatchesRounds
<1>1. Init => GInv
  BY DEF Init, GInv, Pieces, Singles
<1>2. RInv => ListInv
  BY DEF RInv, IInv, ListInv
<1>3. TInv /\ TInv' /\ PiecesArePaths /\ PiecesArePaths' /\ GInv /\ [Next]_vars => GInv'
  BY NextGInv
<1>4. TInv /\ PiecesArePaths /\ GInv => MatchesRounds
  <2> SUFFICES ASSUME TInv, PiecesArePaths, GInv, phase = "done", ~WholeEntry, Trained(merges)
               PROVE  output = Rounds(merges, Chars)[Singles]
    BY DEF MatchesRounds, Singles
  <2>1. /\ symbols # <<>> /\ Walked /\ Queued(symbols, {}) /\ index = None
        /\ RInv /\ DOMAIN merges \in SUBSET Nat
    BY DEF TInv, RInv, IInv, Inputs, Ended
  <2>2. output = Pieces /\ Best!Candidates = {}
    BY <2>1, WalkedAll, NothingRanked
  <2>3. RanksOf(merges, Pieces) = {}
    <3> SUFFICES ASSUME NEW r \in RanksOf(merges, Pieces) PROVE FALSE
      OBVIOUS
    <3>1. PICK k \in 1 .. Len(Pieces) - 1 : merges[r] = <<Pieces[k], Pieces[k + 1]>>
      BY DEF RanksOf
    <3>2. <<k, r>> \in Best!Candidates
      BY <3>1 DEF Best!Candidates, RanksOf
    <3> QED
      BY <2>2, <3>2
  <2>4. Rounds(merges, Chars)[Pieces] = Pieces
    <3>1. Pieces \in Seq(Seq(Chars))
      BY <2>1, PiecesType
    <3>2. Rounds(merges, Chars)[Pieces] = LoopStep(merges, Rounds(merges, Chars), Pieces)
      BY <2>1, <3>1, RoundsDefined
    <3> QED
      BY <2>3, <3>2 DEF LoopStep
  <2> QED
    BY <2>2, <2>4 DEF GInv
<1>5. TInv => RInv
  BY DEF TInv
<1> QED
  BY <1>1, <1>2, <1>3, <1>4, <1>5, InitTInv, NextTInv, PiecesFollowPath, PTL DEF Spec

=============================================================================

------------------------ MODULE ObjectListingProofs ------------------------
(***************************************************************************)
(* Proofs about ObjectListing: its type invariant, and that a listing      *)
(* repeats nothing, misses nothing that stays and lets a client empty a    *)
(* bucket with it, for every number of names, every prefix and delimiter,  *)
(* every page size and every change by others.                             *)
(***************************************************************************)
EXTENDS ObjectListing, OrderLemmas, SequenceTheorems

(***************************************************************************)
(* The first elements of a finite set by a key that tells them apart.      *)
(***************************************************************************)

\* The elements of S that sort before i.
Before(S, r, i) == {h \in S : r[h] < r[i]}

Key(S, r) == /\ r \in [S -> Nat]
             /\ \A a, b \in S : r[a] = r[b] => a = b

\* A set that has elements has a first one.
LEMMA FirstElement ==
  ASSUME NEW S, NEW r, Key(S, r), NEW T, T \subseteq S, T # {}
  PROVE  \E i \in T : \A h \in T : h # i => r[i] < r[h]
<1> DEFINE V == {r[i] : i \in T}
<1>1. V \subseteq Nat /\ V # {}
  BY DEF Key
<1>2. PICK x \in V : \A y \in V : x <= y
  <2> HIDE DEF V
  <2> QED BY <1>1, LeastNatural
<1>3. PICK i \in T : x = r[i]
  OBVIOUS
<1>4. ASSUME NEW h \in T, h # i PROVE r[i] < r[h]
  <2>1. r[i] <= r[h] /\ r[i] # r[h] BY <1>2, <1>3, <1>4 DEF Key
  <2>2. r[i] \in Nat /\ r[h] \in Nat BY DEF Key
  <2> QED BY <2>1, <2>2
<1> QED BY <1>4

LEMMA FirstHasRank0 ==
  ASSUME NEW S, NEW r, Key(S, r), S # {}
  PROVE  \E i \in S : Cardinality(Before(S, r, i)) = 0
<1>1. PICK i \in S : \A h \in S : h # i => r[i] < r[h]
  BY FirstElement
<1>2. Before(S, r, i) = {} BY <1>1 DEF Before, Key
<1> QED BY <1>2, FS_EmptySet

\* What sorts before i is a finite set, i aside, and its size grows with i.
LEMMA BeforeGrows ==
  ASSUME NEW S, NEW r, IsFiniteSet(S), Key(S, r), NEW i \in S
  PROVE  /\ IsFiniteSet(Before(S, r, i))
         /\ Cardinality(Before(S, r, i)) \in Nat
         /\ Cardinality(Before(S, r, i)) < Cardinality(S)
         /\ Cardinality(S) \in Nat
         /\ \A h \in S : r[h] < r[i] =>
              Cardinality(Before(S, r, h)) < Cardinality(Before(S, r, i))
<1>1. ASSUME NEW h \in S, NEW T, T \subseteq S, h \in T,
             \A x \in Before(S, r, h) : x \in T
      PROVE  /\ IsFiniteSet(Before(S, r, h))
             /\ Cardinality(Before(S, r, h)) \in Nat
             /\ Cardinality(Before(S, r, h)) < Cardinality(T)
             /\ Cardinality(T) \in Nat
  <2> DEFINE B == Before(S, r, h)
  <2>1. IsFiniteSet(T) /\ B \subseteq T BY <1>1, FS_Subset DEF Before
  <2>2. h \notin B BY DEF Before, Key
  <2>3. IsFiniteSet(B) /\ Cardinality(B) <= Cardinality(T)
        /\ (Cardinality(T) = Cardinality(B) => T = B)
    <3> HIDE DEF B
    <3> QED BY <2>1, FS_Subset
  <2>4. Cardinality(B) \in Nat /\ Cardinality(T) \in Nat
    <3> HIDE DEF B
    <3> QED BY <2>1, <2>3, FS_CardinalityType
  <2>5. Cardinality(B) # Cardinality(T)
    <3> HIDE DEF B
    <3> QED BY <1>1, <2>2, <2>3
  <2> HIDE DEF B
  <2>6. Cardinality(B) < Cardinality(T)
    BY <2>3, <2>4, <2>5
  <2> QED BY <2>3, <2>4, <2>6 DEF B
<1>2. \A x \in Before(S, r, i) : x \in S
  BY DEF Before
<1>3. ASSUME NEW h \in S, r[h] < r[i]
      PROVE  Cardinality(Before(S, r, h)) < Cardinality(Before(S, r, i))
  <2>1. Before(S, r, i) \subseteq S /\ h \in Before(S, r, i)
    BY <1>3 DEF Before
  <2>2. \A x \in Before(S, r, h) : x \in Before(S, r, i)
    BY <1>3 DEF Before, Key
  <2> QED BY <2>1, <2>2, <1>1
<1> QED BY <1>1, <1>2, <1>3

\* Every rank up to the size of the set is taken.
LEMMA RankTaken ==
  ASSUME NEW S, NEW r, IsFiniteSet(S), Key(S, r)
  PROVE  \A k \in Nat : k < Cardinality(S) =>
           \E i \in S : Cardinality(Before(S, r, i)) = k
<1> DEFINE T == {k \in Nat : k < Cardinality(S) =>
                   \E i \in S : Cardinality(Before(S, r, i)) = k}
<1>0. Cardinality(S) \in Nat
  BY FS_CardinalityType
<1>1. 0 \in T
  <2> SUFFICES ASSUME 0 < Cardinality(S)
               PROVE  \E i \in S : Cardinality(Before(S, r, i)) = 0
    OBVIOUS
  <2>1. S # {} BY <1>0, FS_EmptySet
  <2> QED BY <2>1, FirstHasRank0
<1>2. ASSUME NEW k \in Nat, k \in T PROVE k + 1 \in T
  <2> SUFFICES ASSUME k + 1 < Cardinality(S)
               PROVE  \E i \in S : Cardinality(Before(S, r, i)) = k + 1
    OBVIOUS
  <2>1. PICK i \in S : Cardinality(Before(S, r, i)) = k
    BY <1>0, <1>2
  <2> DEFINE Upto == Before(S, r, i) \cup {i}
             Rest == S \ Upto
  <2>2. Cardinality(Upto) = k + 1
    <3>1. IsFiniteSet(Before(S, r, i)) BY BeforeGrows
    <3>2. i \notin Before(S, r, i) BY DEF Before, Key
    <3> QED BY <2>1, <3>1, <3>2, FS_AddElement
  <2>3. Rest # {}
    <3>1. SUFFICES ASSUME Rest = {} PROVE FALSE OBVIOUS
    <3>2. Upto = S BY <3>1 DEF Before
    <3> HIDE DEF Upto
    <3> QED BY <1>0, <2>2, <3>2
  <2>4. PICK j \in Rest : \A h \in Rest : h # j => r[j] < r[h]
    <3> HIDE DEF Rest
    <3>1. Rest \subseteq S BY DEF Rest
    <3> QED BY <2>3, <3>1, FirstElement
  <2>5. j \in S /\ r[i] < r[j]
    BY DEF Before, Key
  <2>6. ASSUME NEW h \in S PROVE h \in Upto <=> r[h] < r[j]
    BY <2>4, <2>5 DEF Before, Key
  <2>7. Before(S, r, j) = Upto
    <3>1. Upto \subseteq S BY DEF Before
    <3> HIDE DEF Upto
    <3> QED BY <2>6, <3>1 DEF Before
  <2> QED BY <2>2, <2>5, <2>7
<1>3. Nat \subseteq T
  <2> HIDE DEF T
  <2> QED BY <1>1, <1>2, NatSetInduction
<1> QED BY <1>3

(***************************************************************************)
(* What FirstOf and Items return.                                          *)
(***************************************************************************)

LEMMA FirstOfFacts ==
  ASSUME NEW S, S \subseteq Nat, IsFiniteSet(S), NEW k \in Nat
  PROVE  /\ FirstOf(S, k) \subseteq S
         /\ \A n \in S : \A m \in FirstOf(S, k) : n \notin FirstOf(S, k) => m < n
         /\ Cardinality(S) <= k => FirstOf(S, k) = S
         /\ k > 0 /\ S # {} => FirstOf(S, k) # {}
<1>1. PICK r : Key(S, r) /\ \A n \in S : r[n] = n
  <2> DEFINE f == [n \in S |-> n]
  <2>1. Key(S, f) /\ \A n \in S : f[n] = n BY DEF Key
  <2> QED BY <2>1
<1>2. ASSUME NEW n \in S PROVE {m \in S : m < n} = Before(S, r, n)
  BY <1>1 DEF Before
<1>3. \A n \in S : n \in FirstOf(S, k) <=> Cardinality(Before(S, r, n)) < k
  BY <1>2 DEF FirstOf
<1>4. FirstOf(S, k) \subseteq S
  BY DEF FirstOf
<1>5. ASSUME NEW n \in S, NEW m \in FirstOf(S, k), n \notin FirstOf(S, k)
      PROVE  m < n
  <2>1. m \in S /\ n # m BY <1>4, <1>5
  <2>2. ~(n < m)
    <3>1. SUFFICES ASSUME n < m PROVE FALSE OBVIOUS
    <3>2. r[n] < r[m] BY <1>1, <2>1, <3>1
    <3>3. /\ Cardinality(Before(S, r, n)) < Cardinality(Before(S, r, m))
          /\ Cardinality(Before(S, r, n)) \in Nat
          /\ Cardinality(Before(S, r, m)) \in Nat
      BY <1>1, <2>1, <3>2, BeforeGrows
    <3>4. Cardinality(Before(S, r, m)) < k BY <1>3, <1>5, <2>1
    <3> QED BY <1>3, <1>5, <3>3, <3>4
  <2> QED BY <2>1, <2>2
<1>6. ASSUME Cardinality(S) <= k PROVE FirstOf(S, k) = S
  <2>1. ASSUME NEW n \in S PROVE n \in FirstOf(S, k)
    <3>1. /\ Cardinality(Before(S, r, n)) < Cardinality(S)
          /\ Cardinality(Before(S, r, n)) \in Nat /\ Cardinality(S) \in Nat
      BY <1>1, BeforeGrows
    <3> QED BY <1>3, <1>6, <3>1
  <2> QED BY <1>4, <2>1
<1>7. ASSUME k > 0, S # {} PROVE FirstOf(S, k) # {}
  <2>1. PICK n \in S : Cardinality(Before(S, r, n)) = 0
    BY <1>1, <1>7, FirstHasRank0
  <2> QED BY <1>3, <1>7, <2>1
<1> QED BY <1>4, <1>5, <1>6, <1>7

\* What an entry of a page can be: a name, or a common prefix.
Item == [at : Names, prefix : BOOLEAN]

\* A sequence has an item.
Has(s, item) == \E i \in DOMAIN s : s[i] = item

Rising(s) == \A i, j \in DOMAIN s : i < j => s[i].at < s[j].at
AllUpto(s, n) == \A i \in DOMAIN s : s[i].at <= n
AllAfter(s, n) == \A i \in DOMAIN s : n < s[i].at

\* Items of which no two sort alike.
Distinct(S) == S \subseteq Item /\ \A i, j \in S : i.at = j.at => i = j

LEMMA DistinctIsFinite ==
  ASSUME NumNames \in Nat, NEW S, Distinct(S)
  PROVE  IsFiniteSet(S) /\ Cardinality(S) \in Nat
<1> DEFINE f == [i \in S |-> i.at]
<1>1. IsFiniteSet(Names)
  BY FS_Interval DEF Names
<1>2. f \in [S -> Names] /\ \A i, j \in S : f[i] = f[j] => i = j
  BY DEF Distinct, Item
<1>3. f \in Injection(S, Names)
  <2> HIDE DEF f
  <2> QED BY <1>2 DEF Injection, IsInjective
<1>4. IsFiniteSet(S)
  BY <1>1, <1>3, FS_Injection
<1> QED BY <1>4, FS_CardinalityType

LEMMA ItemsFacts ==
  ASSUME NumNames \in Nat, NEW S, Distinct(S), NEW k \in Nat
  PROVE  /\ Items(S, k) \in Seq(Item)
         /\ Len(Items(S, k)) <= k
         /\ \A j \in DOMAIN Items(S, k) : Items(S, k)[j] \in S
         /\ Rising(Items(S, k))
         /\ \A i \in S : \A j \in DOMAIN Items(S, k) :
              i.at <= Items(S, k)[j].at => Has(Items(S, k), i)
         /\ Cardinality(S) <= k => \A i \in S : Has(Items(S, k), i)
         /\ k > 0 /\ S # {} => Items(S, k) # <<>>
<1> DEFINE r == [i \in S |-> i.at]
           len == IF Cardinality(S) < k THEN Cardinality(S) ELSE k
           s == Items(S, k)
<1>1. IsFiniteSet(S) /\ Cardinality(S) \in Nat
  BY DistinctIsFinite
<1>2. Key(S, r) /\ \A i \in S : i.at \in Nat
  BY DEF Key, Distinct, Item, Names
<1>3. ASSUME NEW i \in S PROVE {h \in S : h.at < i.at} = Before(S, r, i)
  BY DEF Before
<1>4. len \in Nat /\ len <= k /\ len <= Cardinality(S)
  BY <1>1
<1>5. s = [j \in 1..len |-> CHOOSE i \in S : Cardinality({h \in S : h.at < i.at}) = j - 1]
  BY DEF Items
<1>6. \A i \in S : r[i] = i.at
  OBVIOUS
<1> HIDE DEF r, len, s
<1>7. ASSUME NEW j \in 1..len
      PROVE  s[j] \in S /\ Cardinality(Before(S, r, s[j])) = j - 1
  <2>1. j - 1 \in Nat /\ j - 1 < Cardinality(S) BY <1>1, <1>4
  <2>2. \E i \in S : Cardinality(Before(S, r, i)) = j - 1
    BY <1>1, <1>2, <2>1, RankTaken
  <2>3. \E i \in S : Cardinality({h \in S : h.at < i.at}) = j - 1
    BY <1>3, <2>2
  <2>4. s[j] = CHOOSE i \in S : Cardinality({h \in S : h.at < i.at}) = j - 1
    BY <1>5
  <2>5. s[j] \in S /\ Cardinality({h \in S : h.at < s[j].at}) = j - 1
    BY <2>3, <2>4
  <2> QED BY <1>3, <2>5
<1>8. s \in [1..len -> Item]
  BY <1>5, <1>7 DEF Distinct
<1>9. s \in Seq(Item) /\ Len(s) = len /\ DOMAIN s = 1..len
  BY <1>4, <1>8
<1>10. ASSUME NEW a \in S, NEW b \in S,
              Cardinality(Before(S, r, a)) < Cardinality(Before(S, r, b))
       PROVE  a.at < b.at
  <2>1. ~(b.at < a.at)
    BY <1>1, <1>2, <1>6, <1>10, BeforeGrows
  <2>2. b.at # a.at
    <3>1. SUFFICES ASSUME b.at = a.at PROVE FALSE OBVIOUS
    <3>2. a = b BY <3>1 DEF Distinct
    <3>3. Cardinality(Before(S, r, b)) \in Nat BY <1>1, <1>2, BeforeGrows
    <3> QED BY <1>10, <3>2, <3>3
  <2> QED BY <1>2, <2>1, <2>2
<1>11. Rising(s)
  <2> SUFFICES ASSUME NEW i \in 1..len, NEW j \in 1..len, i < j
               PROVE  s[i].at < s[j].at
    BY <1>9 DEF Rising
  <2>1. i - 1 < j - 1 BY <1>4
  <2> QED BY <1>7, <1>10, <2>1
<1>12. ASSUME NEW i \in S, Cardinality(Before(S, r, i)) < len
       PROVE  Has(s, i)
  <2> DEFINE j == Cardinality(Before(S, r, i)) + 1
  <2>1. Cardinality(Before(S, r, i)) \in Nat
    BY <1>1, <1>2, BeforeGrows
  <2>2. j \in 1..len /\ j - 1 = Cardinality(Before(S, r, i))
    BY <1>4, <1>12, <2>1
  <2> HIDE DEF j
  <2>3. s[j] \in S /\ Cardinality(Before(S, r, s[j])) = Cardinality(Before(S, r, i))
    BY <1>7, <2>2
  <2>4. s[j] = i
    <3>1. ~(s[j].at < i.at) /\ ~(i.at < s[j].at)
      BY <1>1, <1>2, <1>6, <2>1, <2>3, BeforeGrows
    <3>2. s[j].at = i.at BY <1>2, <2>3, <3>1
    <3> QED BY <2>3, <3>2 DEF Distinct
  <2> QED BY <1>9, <2>2, <2>4 DEF Has
<1>13. ASSUME NEW i \in S, NEW j \in 1..len, i.at <= s[j].at
       PROVE  Has(s, i)
  <2>1. ~(Cardinality(Before(S, r, s[j])) < Cardinality(Before(S, r, i)))
    <3>1. SUFFICES ASSUME Cardinality(Before(S, r, s[j])) < Cardinality(Before(S, r, i))
                   PROVE  FALSE
      OBVIOUS
    <3>2. s[j].at < i.at BY <1>7, <1>10, <3>1
    <3> QED BY <1>2, <1>7, <1>13, <3>2
  <2>2. Cardinality(Before(S, r, i)) \in Nat
    BY <1>1, <1>2, BeforeGrows
  <2>3. Cardinality(Before(S, r, i)) < len
    BY <1>4, <1>7, <2>1, <2>2
  <2> QED BY <1>12, <2>3
<1>14. ASSUME Cardinality(S) <= k, NEW i \in S PROVE Has(s, i)
  <2>1. Cardinality(Before(S, r, i)) < Cardinality(S)
    BY <1>1, <1>2, BeforeGrows
  <2>2. len = Cardinality(S) BY <1>1, <1>14 DEF len
  <2> QED BY <1>12, <2>1, <2>2
<1>15. ASSUME k > 0, S # {} PROVE s # <<>>
  <2>1. Cardinality(S) # 0 BY <1>1, <1>15, FS_EmptySet
  <2>2. len # 0 BY <1>1, <1>15, <2>1 DEF len
  <2> QED BY <1>9, <2>2
<1> QED BY <1>4, <1>7, <1>9, <1>11, <1>13, <1>14, <1>15 DEF s

(***************************************************************************)
(* The invariant.                                                          *)
(***************************************************************************)

TypeInv ==
  /\ TypeOK
  /\ page \in [cursor : 0..NumNames, items : Seq(Item)]
  /\ listed \in Seq(Item)
  /\ batch \in Seq(0..NumNames)

\* Which kind of listing does what.
ModeInv ==
  /\ kind # "objects" => view.groups = {}
  /\ purge => kind = "objects" /\ view.groups = {} /\ blind = {}
  /\ phase = "paging" => kind = "objects" /\ (purge => limit > 0)
  /\ phase = "deleting" <=> batch # <<>>

\* The client will ask for another page, or is being served one.
More == \/ phase \in {"idle", "paging"}
        \/ phase = "deleting" /\ truncated

\* The page lies behind the pages before it and up to the cursor. A group
\* that the cursor is in the middle of is on the page.
PageInv ==
  phase = "paging" =>
    /\ After <= page.cursor
    /\ Rising(page.items)
    /\ AllAfter(page.items, After)
    /\ AllUpto(page.items, page.cursor)
    /\ \A g \in view.groups :
         After < g.from /\ g.from <= page.cursor /\ page.cursor < g.to
           => Has(page.items, Prefix(g))

ListedInv ==
  /\ Rising(listed)
  /\ More => AllUpto(listed, After)

\* A name that the listing owes to the client.
Due(n) == /\ view.lo <= n /\ n <= view.hi
          /\ ItemOf(n).at > start /\ ItemOf(n).at \notin blind

\* What stayed is listed up to where the client is, and on the page from
\* there to the cursor.
CoverInv ==
  /\ More =>
       \A n \in stayed : Due(n) /\ ItemOf(n).at <= After
                           => Has(listed, ItemOf(n))
  /\ phase = "paging" =>
       \A n \in stayed : Due(n) /\ After < ItemOf(n).at /\ n <= page.cursor
                           => Has(page.items, ItemOf(n))
  /\ phase = "done" \/ (phase = "deleting" /\ ~truncated) =>
       \A n \in stayed : Due(n) => Has(listed, ItemOf(n))

\* What the client got it deletes, or is told why not.
PurgeInv ==
  /\ present \subseteq stayed \cup put
  /\ purge => \A i \in DOMAIN listed :
                listed[i].at \in present =>
                  \/ listed[i].at \in errors \cup put
                  \/ \E j \in DOMAIN batch : batch[j] = listed[i].at

ListingInv ==
  TypeInv /\ ModeInv /\ PageInv /\ ListedInv /\ CoverInv /\ PurgeInv

(***************************************************************************)
(* Sequences of items put one behind the other.                            *)
(***************************************************************************)

LEMMA SeqElements ==
  ASSUME NEW S, NEW s \in Seq(S)
  PROVE  \A i \in DOMAIN s : s[i] \in S
BY ElementOfSeq, LenProperties

LEMMA JoinedPages ==
  ASSUME NumNames \in Nat, NEW s \in Seq(Item), NEW t \in Seq(Item)
  PROVE  /\ s \o t \in Seq(Item)
         /\ Len(s \o t) = Len(s) + Len(t)
         /\ \A i : Has(s \o t, i) <=> Has(s, i) \/ Has(t, i)
         /\ \A n \in Nat : Rising(s) /\ Rising(t) /\ AllUpto(s, n) /\ AllAfter(t, n)
                             => Rising(s \o t)
         /\ \A n \in Nat : AllUpto(s, n) /\ AllUpto(t, n) => AllUpto(s \o t, n)
         /\ \A n \in Nat : AllAfter(s, n) /\ AllAfter(t, n) => AllAfter(s \o t, n)
<1> DEFINE u == s \o t
<1>1. /\ u \in Seq(Item) /\ Len(u) = Len(s) + Len(t)
      /\ \A i \in 1..Len(s) + Len(t) :
           u[i] = IF i <= Len(s) THEN s[i] ELSE t[i - Len(s)]
  BY ConcatProperties
<1>2. /\ Len(s) \in Nat /\ Len(t) \in Nat
      /\ DOMAIN s = 1..Len(s) /\ DOMAIN t = 1..Len(t)
      /\ DOMAIN u = 1..Len(s) + Len(t)
  <2> HIDE DEF u
  <2> QED BY <1>1, LenProperties
<1>3. /\ \A i \in 1..Len(s) : s[i] \in Item /\ s[i].at \in Nat
      /\ \A i \in 1..Len(t) : t[i] \in Item /\ t[i].at \in Nat
  <2>1. \A i \in Item : i.at \in Nat BY DEF Item, Names
  <2> QED BY <2>1, ElementOfSeq
<1> HIDE DEF u
<1>4. /\ \A i \in 1..Len(s) : i \in DOMAIN u /\ u[i] = s[i]
      /\ \A i \in 1..Len(t) : i + Len(s) \in DOMAIN u /\ u[i + Len(s)] = t[i]
  <2>1. ASSUME NEW i \in 1..Len(t)
        PROVE  i + Len(s) \in DOMAIN u /\ u[i + Len(s)] = t[i]
    <3>1. /\ i + Len(s) \in 1..Len(s) + Len(t) /\ ~(i + Len(s) <= Len(s))
          /\ (i + Len(s)) - Len(s) = i
      BY <1>2
    <3>2. u[i + Len(s)] = t[(i + Len(s)) - Len(s)] BY <1>1, <3>1
    <3> QED BY <1>2, <3>1, <3>2
  <2>2. \A i \in 1..Len(s) : i \in DOMAIN u /\ u[i] = s[i]
    BY <1>1, <1>2
  <2> QED BY <2>1, <2>2
<1>5. \A i \in DOMAIN u : \/ i \in 1..Len(s) /\ u[i] = s[i]
                          \/ i - Len(s) \in 1..Len(t) /\ u[i] = t[i - Len(s)]
  BY <1>1, <1>2
<1>6. ASSUME NEW i PROVE Has(u, i) <=> Has(s, i) \/ Has(t, i)
  BY <1>2, <1>4, <1>5 DEF Has
<1>7. ASSUME NEW n \in Nat, Rising(s), Rising(t), AllUpto(s, n), AllAfter(t, n)
      PROVE  Rising(u)
  <2> SUFFICES ASSUME NEW i \in DOMAIN u, NEW j \in DOMAIN u, i < j
               PROVE  u[i].at < u[j].at
    BY DEF Rising
  <2>1. i \in Int /\ j \in Int BY <1>2
  <2>2. CASE j \in 1..Len(s) /\ u[j] = s[j]
    <3>1. i \in 1..Len(s) /\ u[i] = s[i] BY <1>2, <1>5, <2>1, <2>2
    <3> QED BY <1>2, <1>7, <2>2, <3>1 DEF Rising
  <2>3. CASE j - Len(s) \in 1..Len(t) /\ u[j] = t[j - Len(s)]
    <3>1. CASE i \in 1..Len(s) /\ u[i] = s[i]
      <4>1. s[i].at <= n /\ n < t[j - Len(s)].at
        BY <1>2, <1>7, <2>3, <3>1 DEF AllUpto, AllAfter
      <4>2. s[i].at \in Nat /\ t[j - Len(s)].at \in Nat BY <1>3, <2>3, <3>1
      <4> QED BY <2>3, <3>1, <4>1, <4>2
    <3>2. CASE i - Len(s) \in 1..Len(t) /\ u[i] = t[i - Len(s)]
      <4>1. i - Len(s) < j - Len(s) BY <1>2, <2>1
      <4>2. t[i - Len(s)].at < t[j - Len(s)].at
        BY <1>2, <1>7, <2>3, <3>2, <4>1 DEF Rising
      <4> QED BY <2>3, <3>2, <4>2
    <3> QED BY <1>5, <3>1, <3>2
  <2> QED BY <1>5, <2>2, <2>3
<1>8. ASSUME NEW n \in Nat PROVE AllUpto(s, n) /\ AllUpto(t, n) => AllUpto(u, n)
  BY <1>2, <1>5 DEF AllUpto
<1>9. ASSUME NEW n \in Nat PROVE AllAfter(s, n) /\ AllAfter(t, n) => AllAfter(u, n)
  BY <1>2, <1>5 DEF AllAfter
<1> QED BY <1>1, <1>6, <1>7, <1>8, <1>9 DEF u

\* The last item of a page is the one that sorts behind all others.
LEMMA LastItem ==
  ASSUME NumNames \in Nat, NEW s \in Seq(Item), Len(s) # 0, Rising(s)
  PROVE  /\ Last(s) \in Item /\ Has(s, Last(s))
         /\ AllUpto(s, Last(s).at)
<1>1. PICK n \in Nat : n = Len(s) /\ n > 0 /\ DOMAIN s = 1..n
  BY LenProperties
<1>2. n \in 1..n BY <1>1
<1>3. \A i \in 1..n : s[i] \in Item /\ s[i].at \in Nat
  <2>1. \A i \in Item : i.at \in Nat BY DEF Item, Names
  <2> QED BY <1>1, <2>1, ElementOfSeq
<1>4. ASSUME NEW i \in 1..n PROVE s[i].at <= s[n].at
  <2>1. CASE i < n BY <1>1, <1>2, <1>3, <2>1 DEF Rising
  <2>2. CASE i = n BY <1>3, <2>2
  <2> QED BY <1>1, <2>1, <2>2
<1>5. Last(s) = s[n] BY <1>1 DEF Last
<1> QED BY <1>1, <1>2, <1>3, <1>4, <1>5 DEF Has, AllUpto

\* What a client sends to DeleteObjects has every key of the page.
LEMMA BatchesFacts ==
  ASSUME NumNames \in Nat, NEW items \in Seq(Item), NEW b \in Batches(items)
  PROVE  /\ b \in Seq(0..NumNames)
         /\ Len(b) <= MaxDelete
         /\ items # <<>> => b # <<>>
         /\ \A i \in DOMAIN items : \E j \in DOMAIN b : b[j] = items[i].at
<1> DEFINE keys == [i \in DOMAIN items |-> items[i].at]
<1>1. Len(items) \in Nat /\ DOMAIN items = 1..Len(items)
  BY LenProperties
<1>2. \A i \in DOMAIN items : items[i].at \in 0..NumNames
  <2>1. \A i \in Item : i.at \in 0..NumNames BY DEF Item, Names
  <2> QED BY <1>1, <2>1, ElementOfSeq
<1>3. keys \in Seq(0..NumNames) /\ Len(keys) = Len(items) /\ DOMAIN keys = DOMAIN items
  BY <1>1, <1>2
<1>4. b \in {keys, Append(keys, 0)} /\ Len(b) <= MaxDelete
  BY DEF Batches
<1>5. \A i \in DOMAIN items : keys[i] = items[i].at
  OBVIOUS
<1>6. items # <<>> => Len(items) # 0
  BY EmptySeq
<1> HIDE DEF keys
<1>7. CASE b = keys
  BY <1>1, <1>3, <1>4, <1>5, <1>6, <1>7
<1>8. CASE b = Append(keys, 0)
  <2>1. /\ b \in Seq(0..NumNames) /\ Len(b) = Len(keys) + 1
        /\ \A i \in 1..Len(keys) : b[i] = keys[i]
    BY <1>3, <1>8
  <2>2. DOMAIN b = 1..Len(b) BY <2>1, LenProperties
  <2>3. DOMAIN items \subseteq DOMAIN b BY <1>1, <1>3, <2>1, <2>2
  <2>4. b # <<>> BY <1>3, <2>1, EmptySeq
  <2>5. ASSUME NEW i \in DOMAIN items PROVE \E j \in DOMAIN b : b[j] = items[i].at
    <3>1. i \in DOMAIN b /\ b[i] = keys[i] BY <1>1, <1>3, <2>1, <2>3
    <3> QED BY <1>5, <3>1
  <2> QED BY <1>4, <2>1, <2>4, <2>5
<1> QED BY <1>4, <1>7, <1>8

(***************************************************************************)
(* Names, their groups and the items that list them.                       *)
(***************************************************************************)

LEMMA ListingBounds ==
  /\ NumNames \in Nat /\ PageCap \in Nat /\ PageCap > 0
  /\ MaxDelete \in Nat /\ PageCap <= MaxDelete
  /\ Asked \subseteq Nat /\ Starts \subseteq 0..NumNames /\ MaxChanges \in Nat
  /\ IsFiniteSet(Names)
  /\ \A n \in 0..NumNames : n \in Nat
BY ListingAssumption, FS_Interval DEF ListingAssumption, Names

LEMMA GroupFacts ==
  ASSUME view \in Views
  PROVE  /\ \A g \in view.groups :
              /\ g.from \in Names /\ g.mark \in Names /\ g.to \in Names
              /\ view.lo <= g.from /\ g.from <= g.mark
              /\ g.mark <= g.to /\ g.to <= view.hi
         /\ \A g, h \in view.groups :
              g = h \/ g.to < h.from \/ h.to < g.from
         /\ view.lo \in Names /\ view.hi \in Names
BY ListingAssumption DEF ListingAssumption

LEMMA GroupUnique ==
  ASSUME view \in Views, NEW n \in Nat
  PROVE  \A g, h \in Groups(n) : g = h
<1> SUFFICES ASSUME NEW g \in Groups(n), NEW h \in Groups(n) PROVE g = h
  OBVIOUS
<1>1. /\ g \in view.groups /\ h \in view.groups
      /\ g.from <= n /\ n <= g.to /\ h.from <= n /\ n <= h.to
  BY DEF Groups
<1>2. g.from \in Nat /\ g.to \in Nat /\ h.from \in Nat /\ h.to \in Nat
  BY <1>1, GroupFacts DEF Names
<1>3. ~(g.to < h.from) /\ ~(h.to < g.from)
  BY <1>1, <1>2
<1> QED BY <1>1, <1>3, GroupFacts

\* The item of a name is the name, or the prefix of its only group.
LEMMA ItemOfFacts ==
  ASSUME view \in Views, NEW n \in Names
  PROVE  /\ ItemOf(n) \in Item /\ ItemOf(n).at <= n
         /\ \/ Groups(n) = {} /\ ItemOf(n) = Entry(n)
            \/ \E g \in view.groups :
                 /\ g.from <= n /\ n <= g.to
                 /\ Groups(n) = {g} /\ ItemOf(n) = Prefix(g)
<1>1. CASE Groups(n) = {}
  <2>1. ItemOf(n) = Entry(n) BY <1>1 DEF ItemOf
  <2>2. Entry(n) \in Item /\ Entry(n).at = n BY DEF Entry, Item
  <2>3. n <= n BY DEF Names
  <2> QED BY <1>1, <2>1, <2>2, <2>3
<1>2. CASE Groups(n) # {}
  <2>1. PICK g \in Groups(n) : g = CHOOSE h \in Groups(n) : TRUE
    BY <1>2
  <2>2. g \in view.groups /\ g.from <= n /\ n <= g.to
    BY DEF Groups
  <2>3. Groups(n) = {g}
    <3>1. n \in Nat BY DEF Names
    <3> QED BY <2>1, <3>1, GroupUnique
  <2>4. ItemOf(n) = Prefix(g) BY <1>2, <2>1 DEF ItemOf
  <2>5. Prefix(g) \in Item /\ Prefix(g).at = g.from
    BY <2>2, GroupFacts DEF Prefix, Item
  <2> QED BY <2>2, <2>3, <2>4, <2>5
<1> QED BY <1>1, <1>2

\* Where a client is.
LEMMA AfterFacts ==
  ASSUME TypeOK
  PROVE  After \in 0..NumNames /\ After \in Nat /\ start \in 0..NumNames
<1>1. token \in 0..NumNames /\ start \in 0..NumNames
  BY ListingBounds DEF TypeOK
<1> QED BY <1>1 DEF After

(***************************************************************************)
(* An answer keeps the invariant if its items lie behind the pages before  *)
(* and have everything that is due up to where the client goes on.         *)
(***************************************************************************)

LEMMA AnswerKeeps ==
  ASSUME ListingInv, phase \in {"idle", "paging"},
         NEW items \in Seq(Item), NEW more \in BOOLEAN,
         NEW next \in 0..NumNames,
         Answer(items, more, next),
         UNCHANGED <<present, changes, request, errors, stayed, put>>,
         limit' \in 0..PageCap, Len(items) <= limit',
         blind \subseteq blind', blind' \subseteq Names, purge => blind' = {},
         Rising(items), AllAfter(items, After),
         more => After <= After' /\ AllUpto(items, After'),
         \A n \in stayed :
           Due(n)' /\ After < ItemOf(n).at /\ (more => ItemOf(n).at <= After')
             => Has(items, ItemOf(n))
  PROVE  ListingInv'
<1>1. /\ TypeInv /\ ModeInv /\ ListedInv /\ CoverInv /\ PurgeInv
      /\ TypeOK /\ view \in Views /\ listed \in Seq(Item)
      /\ batch = <<>> /\ phase \notin {"deleting", "done"} /\ More
  BY DEF ListingInv, TypeInv, ModeInv, TypeOK, More
<1>2. /\ present' = present /\ changes' = changes /\ kind' = kind
      /\ view' = view /\ start' = start /\ purge' = purge
      /\ errors' = errors /\ stayed' = stayed /\ put' = put
  BY DEF request
<1>3. /\ listed' = listed \o items
      /\ token' = IF more THEN next ELSE token
      /\ (truncated' <=> more) /\ truncated' \in BOOLEAN
      /\ page' = PageFrom(0)
      /\ \/ /\ purge /\ items # <<>>
            /\ batch' \in Batches(items) /\ phase' = "deleting"
         \/ /\ ~(purge /\ items # <<>>)
            /\ batch' = batch /\ phase' = IF more THEN "idle" ELSE "done"
  BY DEF Answer
<1>4. /\ listed' \in Seq(Item)
      /\ \A i : Has(listed', i) <=> Has(listed, i) \/ Has(items, i)
      /\ Rising(listed')
      /\ more => AllUpto(listed', After')
  <2>1. AllUpto(listed, After) /\ Rising(listed) /\ After \in Nat
    BY <1>1, AfterFacts DEF ListedInv
  <2>2. more => After' \in Nat /\ AllUpto(listed, After')
    <3>1. token \in 0..NumNames /\ start \in 0..NumNames
      BY <1>1, ListingBounds DEF TypeOK
    <3>2. After' \in Nat BY <1>2, <1>3, <3>1, ListingBounds DEF After
    <3>3. \A i \in DOMAIN listed : listed[i].at \in Nat
      <4>1. \A i \in Item : i.at \in Nat BY DEF Item, Names
      <4> QED BY <1>1, <4>1, ElementOfSeq, LenProperties
    <3> QED BY <2>1, <3>2, <3>3 DEF AllUpto
  <2> QED BY <1>1, <1>3, <2>1, <2>2, JoinedPages, ListingBounds
<1>5. /\ batch' \in Seq(0..NumNames) /\ Len(batch') <= MaxDelete
      /\ phase' \in {"idle", "deleting", "done"}
      /\ phase' = "deleting" <=> batch' # <<>>
      /\ phase' = "deleting" =>
           \A i \in DOMAIN items : \E j \in DOMAIN batch' : batch'[j] = items[i].at
  <2>1. CASE purge /\ items # <<>>
    BY <1>3, <2>1, BatchesFacts, ListingBounds
  <2>2. CASE ~(purge /\ items # <<>>)
    <3>1. <<>> \in Seq(0..NumNames) /\ Len(<<>>) <= MaxDelete
      BY ListingBounds, EmptySeq
    <3> QED BY <1>1, <1>3, <2>2, <3>1
  <2> QED BY <2>1, <2>2
<1>6. TypeInv'
  <2>1. /\ page' \in [cursor : 0..NumNames, items : Seq(Item)]
        /\ Len(page'.items) <= limit' /\ page'.cursor \in 0..NumNames
    BY <1>3, ListingBounds, EmptySeq DEF PageFrom
  <2>2. token' \in 0..NumNames BY <1>1, <1>3 DEF TypeOK
  <2>3. \A i \in DOMAIN listed' : listed'[i].at \in Names
    <3>1. \A i \in Item : i.at \in Names BY DEF Item
    <3> QED BY <1>4, <3>1, ElementOfSeq, LenProperties
  <2>4. \A i \in DOMAIN batch' : batch'[i] \in 0..NumNames
    <3>1. batch' \in Seq(0..NumNames) BY <1>5
    <3> QED BY <3>1, SeqElements
  <2>5. TypeOK'
    BY <1>1, <1>2, <1>3, <1>5, <2>1, <2>2, <2>3, <2>4 DEF TypeOK
  <2> QED BY <1>4, <1>5, <2>1, <2>5 DEF TypeInv
<1>7. ModeInv'
  BY <1>1, <1>2, <1>5 DEF ModeInv
<1>8. PageInv'
  BY <1>5 DEF PageInv
<1>9. More' => more
  BY <1>3, <1>5 DEF More
<1>10. ListedInv'
  BY <1>4, <1>9 DEF ListedInv
<1>11. ASSUME NEW n \in stayed
       PROVE  /\ Due(n)' => Due(n)
              /\ ItemOf(n)' = ItemOf(n)
              /\ ItemOf(n).at \in Nat
  <2>1. n \in Names BY <1>1 DEF TypeOK
  <2>2. ItemOf(n) \in Item BY <1>1, <2>1, ItemOfFacts
  <2> QED BY <1>2, <2>2 DEF Due, ItemOf, Groups, Item, Names
<1>12. ASSUME NEW n \in stayed, Due(n)', more => ItemOf(n).at <= After'
       PROVE  Has(listed', ItemOf(n))
  <2>1. After \in Nat BY <1>1, AfterFacts
  <2>2. CASE ItemOf(n).at <= After
    BY <1>1, <1>4, <1>11, <1>12, <2>2 DEF CoverInv
  <2>3. CASE After < ItemOf(n).at
    BY <1>4, <1>12, <2>3
  <2> QED BY <1>11, <2>1, <2>2, <2>3
<1>13. CoverInv'
  <2>1. ASSUME More', NEW n \in stayed', Due(n)', (ItemOf(n).at <= After)'
        PROVE  Has(listed, ItemOf(n))'
    BY <1>2, <1>9, <1>11, <1>12, <2>1
  <2>2. ASSUME (phase = "done" \/ (phase = "deleting" /\ ~truncated))',
               NEW n \in stayed', Due(n)'
        PROVE  Has(listed, ItemOf(n))'
    <3>1. ~more BY <1>3, <1>5, <2>2
    <3> QED BY <1>2, <1>11, <1>12, <2>2, <3>1
  <2>3. phase' # "paging" BY <1>5
  <2> QED BY <2>1, <2>2, <2>3 DEF CoverInv
<1>14. PurgeInv'
  <2>1. present' \subseteq stayed' \cup put'
    BY <1>1, <1>2 DEF PurgeInv
  <2>2. ASSUME purge', NEW i \in DOMAIN listed', listed'[i].at \in present'
        PROVE  \/ listed'[i].at \in errors' \cup put'
               \/ \E j \in DOMAIN batch' : batch'[j] = listed'[i].at
    <3>1. Has(listed, listed'[i]) \/ Has(items, listed'[i])
      BY <1>4 DEF Has
    <3>2. CASE Has(listed, listed'[i])
      <4>1. PICK k \in DOMAIN listed : listed[k] = listed'[i]
        BY <3>2 DEF Has
      <4>2. listed[k].at \in errors \cup put
        <5>1. DOMAIN batch = {} BY <1>1
        <5> QED BY <1>1, <1>2, <2>2, <4>1, <5>1 DEF PurgeInv
      <4> QED BY <1>2, <4>1, <4>2
    <3>3. CASE Has(items, listed'[i])
      <4>1. PICK k \in DOMAIN items : items[k] = listed'[i]
        BY <3>3 DEF Has
      <4>2. items # <<>>
        <5>1. SUFFICES ASSUME items = <<>> PROVE FALSE OBVIOUS
        <5>2. DOMAIN items = {} BY <5>1
        <5> QED BY <4>1, <5>2
      <4>3. phase' = "deleting" BY <1>2, <1>3, <2>2, <4>2
      <4> QED BY <1>5, <4>1, <4>3
    <3> QED BY <3>1, <3>2, <3>3
  <2> QED BY <2>1, <2>2 DEF PurgeInv
<1> QED BY <1>6, <1>7, <1>8, <1>10, <1>13, <1>14 DEF ListingInv

(***************************************************************************)
(* What the names of a query add to a page.                                *)
(***************************************************************************)

LEMMA NewFacts ==
  ASSUME TypeOK, NEW names \in SUBSET Names
  PROVE  /\ Distinct(New(names))
         /\ \A i \in New(names) :
              \/ \E m \in names : Groups(m) = {} /\ i = Entry(m)
              \/ \E m \in names : \E g \in Groups(m) :
                   i = Prefix(g) /\ After < g.from /\ ~Has(page.items, Prefix(g))
         /\ \A m \in names : \A g \in Groups(m) :
              After < g.from => \/ Prefix(g) \in New(names)
                                \/ Has(page.items, Prefix(g))
         /\ \A m \in names : After < ItemOf(m).at =>
              ItemOf(m) \in New(names) \/ Has(page.items, ItemOf(m))
<1>1. view \in Views /\ After \in Nat
  BY AfterFacts DEF TypeOK
<1>2. ASSUME NEW i \in New(names)
      PROVE  \/ \E m \in names : Groups(m) = {} /\ i = Entry(m)
             \/ \E m \in names : \E g \in Groups(m) :
                  i = Prefix(g) /\ After < g.from /\ ~Has(page.items, Prefix(g))
  <2>1. CASE i \in {Entry(n) : n \in {m \in names : Groups(m) = {}}}
    BY <2>1
  <2>2. CASE i \in {Prefix(g) : g \in {h \in UNION {Groups(m) : m \in names} :
                               h.from > After /\ ~OnPage(Prefix(h))}}
    <3>1. PICK g \in UNION {Groups(m) : m \in names} :
            i = Prefix(g) /\ g.from > After /\ ~OnPage(Prefix(g))
      BY <2>2
    <3>2. PICK m \in names : g \in Groups(m) OBVIOUS
    <3>3. g.from \in Nat BY <1>1, GroupFacts DEF Groups, Names
    <3> QED BY <1>1, <3>1, <3>2, <3>3 DEF OnPage, Has
  <2> QED BY <2>1, <2>2 DEF New
<1>3. ASSUME NEW i \in New(names)
      PROVE  /\ i \in Item
             /\ i.prefix => \E g \in view.groups : i = Prefix(g) /\ i.at = g.from
             /\ ~i.prefix => i = Entry(i.at) /\ Groups(i.at) = {}
  <2>1. CASE \E m \in names : Groups(m) = {} /\ i = Entry(m)
    BY <2>1 DEF Entry, Item
  <2>2. CASE \E g \in view.groups : i = Prefix(g)
    <3>1. PICK g \in view.groups : i = Prefix(g) BY <2>2
    <3>2. g.from \in Names BY <1>1, GroupFacts
    <3>3. i \in Item /\ i.prefix /\ i.at = g.from
      BY <3>1, <3>2 DEF Prefix, Item
    <3> QED BY <3>1, <3>3
  <2> QED BY <1>2, <2>1, <2>2 DEF Groups
<1>4. ASSUME NEW g \in view.groups PROVE g \in Groups(g.from)
  <2>1. g.from \in Nat /\ g.mark \in Nat /\ g.to \in Nat
        /\ g.from <= g.mark /\ g.mark <= g.to
    BY <1>1, GroupFacts DEF Names
  <2> QED BY <2>1 DEF Groups
<1>5. ASSUME NEW i \in New(names), NEW j \in New(names), i.at = j.at
      PROVE  i = j
  <2>1. CASE i.prefix /\ j.prefix
    <3>1. PICK g \in view.groups, h \in view.groups :
            i = Prefix(g) /\ i.at = g.from /\ j = Prefix(h) /\ j.at = h.from
      BY <1>3, <2>1
    <3> QED BY <1>5, <3>1 DEF Prefix
  <2>2. CASE ~i.prefix /\ ~j.prefix
    <3>1. i = Entry(i.at) /\ j = Entry(j.at) BY <1>3, <2>2
    <3> QED BY <1>5, <3>1
  <2>3. CASE i.prefix /\ ~j.prefix
    <3>1. PICK g \in view.groups : i.at = g.from BY <1>3, <2>3
    <3> QED BY <1>3, <1>4, <1>5, <2>3, <3>1
  <2>4. CASE ~i.prefix /\ j.prefix
    <3>1. PICK g \in view.groups : j.at = g.from BY <1>3, <2>4
    <3> QED BY <1>3, <1>4, <1>5, <2>4, <3>1
  <2> QED BY <2>1, <2>2, <2>3, <2>4
<1>6. ASSUME NEW m \in names, NEW g \in Groups(m), After < g.from
      PROVE  Prefix(g) \in New(names) \/ Has(page.items, Prefix(g))
  <2>1. g.from > After
    <3>1. g.from \in Nat BY <1>1, GroupFacts DEF Groups, Names
    <3> QED BY <1>1, <1>6, <3>1
  <2>2. g \in UNION {Groups(n) : n \in names} OBVIOUS
  <2>3. CASE OnPage(Prefix(g)) BY <2>3 DEF OnPage, Has
  <2>4. CASE ~OnPage(Prefix(g)) BY <2>1, <2>2, <2>4 DEF New
  <2> QED BY <2>3, <2>4
<1>7. ASSUME NEW m \in names, After < ItemOf(m).at
      PROVE  ItemOf(m) \in New(names) \/ Has(page.items, ItemOf(m))
  <2>1. m \in Names OBVIOUS
  <2>2. CASE Groups(m) = {} /\ ItemOf(m) = Entry(m)
    BY <2>2 DEF New
  <2>3. CASE \E g \in view.groups : Groups(m) = {g} /\ ItemOf(m) = Prefix(g)
    <3>1. PICK g \in view.groups : Groups(m) = {g} /\ ItemOf(m) = Prefix(g)
      BY <2>3
    <3>2. Prefix(g).at = g.from BY DEF Prefix
    <3> QED BY <1>6, <1>7, <3>1, <3>2
  <2> QED BY <1>1, <2>1, <2>2, <2>3, ItemOfFacts
<1> QED BY <1>2, <1>3, <1>5, <1>6, <1>7 DEF Distinct

\* A query finds what stayed, and what it leaves out lies behind.
LEMMA QueryFacts ==
  ASSUME TypeOK, NEW c \in Nat, NEW k \in Nat
  PROVE  /\ Query(c, k).names \in SUBSET Names
         /\ \A m \in Query(c, k).names : c < m
         /\ \A n \in stayed :
              view.lo <= n /\ n <= view.hi /\ c < n =>
                \/ n \in Query(c, k).names
                \/ /\ Query(c, k).more
                   /\ \A m \in Query(c, k).names : m < n
         /\ k > 0 /\ Query(c, k).more => Query(c, k).names # {}
         /\ IsFiniteSet(Query(c, k).names)
         /\ ~Query(c, k).more => Cardinality(Query(c, k).names) <= k
         /\ Query(c, k).more \in BOOLEAN
<1> DEFINE M == Matching(c)
           F == FirstOf(M, k)
<1>1. Query(c, k).names = F /\ Query(c, k).more = (Cardinality(M) > k)
  BY DEF Query
<1>2. M \subseteq Names /\ M \subseteq Nat
  <2>1. M \subseteq present BY DEF Matching
  <2>2. present \subseteq Names BY DEF TypeOK
  <2>3. Names \subseteq Nat BY DEF Names
  <2> QED BY <2>1, <2>2, <2>3
<1>3. IsFiniteSet(M)
  BY <1>2, ListingBounds, FS_Subset
<1>4. Cardinality(M) \in Nat
  BY <1>3, FS_CardinalityType
<1>5. \A m \in M : c < m
  BY <1>2 DEF Matching
<1>6. \A n \in stayed : view.lo <= n /\ n <= view.hi /\ c < n => n \in M
  BY DEF Matching, TypeOK, Names
<1>7. M # {} \/ ~(Cardinality(M) > k)
  <2> HIDE DEF M
  <2> QED BY FS_EmptySet
<1>8. /\ F \subseteq M
      /\ \A n \in M : \A m \in F : n \notin F => m < n
      /\ Cardinality(M) <= k => F = M
      /\ k > 0 /\ M # {} => F # {}
  <2> HIDE DEF M
  <2> QED BY <1>2, <1>3, FirstOfFacts
<1> HIDE DEF M, F
<1>9. ASSUME NEW n \in stayed, view.lo <= n /\ n <= view.hi /\ c < n, n \notin F
      PROVE  Cardinality(M) > k /\ \A m \in F : m < n
  <2>1. n \in M BY <1>6, <1>9
  <2>2. ~(Cardinality(M) <= k) BY <1>8, <1>9, <2>1
  <2> QED BY <1>4, <1>8, <1>9, <2>1, <2>2
<1>10. IsFiniteSet(F) BY <1>3, <1>8, FS_Subset
<1>11. ~(Cardinality(M) > k) => Cardinality(F) <= k
  BY <1>4, <1>8
<1>12. Query(c, k).more \in BOOLEAN
  <2>1. (Cardinality(M) > k) \in BOOLEAN OBVIOUS
  <2> QED BY <1>1, <2>1, Zenon
<1> QED BY <1>1, <1>2, <1>5, <1>7, <1>8, <1>9, <1>10, <1>11, <1>12

\* The cursor goes on behind the names, at one of them or in the group of one.
LEMMA BeyondFacts ==
  ASSUME TypeOK, NEW names \in SUBSET Names, names # {}
  PROVE  /\ Beyond(names) \in Names
         /\ \A m \in names : m <= Beyond(names)
         /\ \/ Beyond(names) \in names
            \/ \E m \in names : \E g \in Groups(m) : Beyond(names) = g.mark
<1> DEFINE ends == names \cup {g.mark : g \in UNION {Groups(n) : n \in names}}
<1>1. view \in Views BY DEF TypeOK
<1>2. ends \subseteq Names /\ ends # {}
  <2>1. ASSUME NEW g \in UNION {Groups(n) : n \in names} PROVE g.mark \in Names
    BY <1>1, GroupFacts DEF Groups
  <2> QED BY <2>1
<1>3. \E n \in ends : \A m \in ends : m <= n
  <2> DEFINE r == [n \in ends |-> NumNames - n]
  <2>1. \A n \in ends : n \in 1..NumNames BY <1>2 DEF Names
  <2>2. Key(ends, r)
    <3> HIDE DEF ends
    <3> QED BY <2>1, ListingBounds DEF Key
  <2>3. \A n \in ends : r[n] = NumNames - n OBVIOUS
  <2> HIDE DEF r, ends
  <2>4. PICK n \in ends : \A h \in ends : h # n => r[n] < r[h]
    BY <1>2, <2>2, FirstElement
  <2>5. ASSUME NEW m \in ends PROVE m <= n
    BY <2>1, <2>3, <2>4, ListingBounds
  <2> QED BY <2>5
<1>4. Beyond(names) = CHOOSE n \in ends : \A m \in ends : m <= n
  BY DEF Beyond
<1>5. Beyond(names) \in ends /\ \A m \in ends : m <= Beyond(names)
  <2> HIDE DEF ends
  <2> QED BY <1>3, <1>4
<1> QED BY <1>2, <1>5

(***************************************************************************)
(* BuildPage.                                                              *)
(***************************************************************************)

\* What a query adds lies behind the page; and the items of names that stayed
\* are new or on the page, up to any item that is new.
LEMMA QueryAdds ==
  ASSUME ListingInv, phase = "paging", NEW names, NEW new,
         names = Query(page.cursor, BatchLimit).names, new = New(names)
  PROVE  /\ \A i \in new : /\ i \in Item /\ page.cursor < i.at
                           /\ \E m \in names : i.at <= m
         /\ \A n \in stayed : Due(n) /\ After < ItemOf(n).at =>
              \/ Has(page.items, ItemOf(n))
              \/ /\ ItemOf(n) \in new
                 /\ page.cursor < n
              \/ /\ page.cursor < n /\ n \notin names
                 /\ Query(page.cursor, BatchLimit).more
                 /\ \A m \in names : m < n
         /\ \A n \in stayed : \A i \in new :
              Due(n) /\ After < ItemOf(n).at /\ ItemOf(n).at <= i.at =>
                ItemOf(n) \in new \/ Has(page.items, ItemOf(n))
<1>1. /\ TypeOK /\ PageInv /\ CoverInv /\ view \in Views
      /\ page.cursor \in Nat /\ stayed \subseteq Names
  BY ListingBounds DEF ListingInv, TypeInv, TypeOK
<1>2. After \in Nat /\ After <= page.cursor
  BY <1>1, AfterFacts DEF PageInv
<1>3. BatchLimit \in Nat
  BY <1>1, ListingBounds DEF TypeOK, BatchLimit
<1>4. /\ names \in SUBSET Names
      /\ \A m \in names : page.cursor < m
      /\ \A n \in stayed :
           view.lo <= n /\ n <= view.hi /\ page.cursor < n =>
             \/ n \in names
             \/ /\ Query(page.cursor, BatchLimit).more
                /\ \A m \in names : m < n
  BY <1>1, <1>3, QueryFacts
<1>5. /\ Distinct(new)
      /\ \A i \in new :
           \/ \E m \in names : Groups(m) = {} /\ i = Entry(m)
           \/ \E m \in names : \E g \in Groups(m) :
                i = Prefix(g) /\ After < g.from /\ ~Has(page.items, Prefix(g))
      /\ \A m \in names : \A g \in Groups(m) :
           After < g.from => Prefix(g) \in new \/ Has(page.items, Prefix(g))
      /\ \A m \in names : After < ItemOf(m).at =>
           ItemOf(m) \in new \/ Has(page.items, ItemOf(m))
  BY <1>1, <1>4, NewFacts
<1>6. ASSUME NEW i \in new
      PROVE  /\ i \in Item /\ page.cursor < i.at
             /\ \E m \in names : i.at <= m
  <2>1. CASE \E m \in names : i = Entry(m)
    <3>1. PICK m \in names : i = Entry(m) BY <2>1
    <3>2. i.at = m BY <3>1 DEF Entry
    <3>3. m \in Nat BY <1>4 DEF Names
    <3> QED BY <1>4, <1>5, <3>2, <3>3 DEF Distinct
  <2>2. CASE \E m \in names : \E g \in Groups(m) :
               i = Prefix(g) /\ After < g.from /\ ~Has(page.items, Prefix(g))
    <3>0. PICK m \in names : \E g \in Groups(m) :
            i = Prefix(g) /\ After < g.from /\ ~Has(page.items, Prefix(g))
      BY <2>2
    <3>1. PICK g \in Groups(m) :
            i = Prefix(g) /\ After < g.from /\ ~Has(page.items, Prefix(g))
      BY <3>0
    <3>2. i.at = g.from BY <3>1 DEF Prefix
    <3>3. g \in view.groups /\ g.from <= m /\ m <= g.to
      BY DEF Groups
    <3>4. g.from \in Nat /\ g.to \in Nat /\ m \in Nat
      BY <1>1, <1>4, <3>3, GroupFacts DEF Names
    <3>5. page.cursor < g.to BY <1>1, <1>4, <3>3, <3>4
    <3>6. ~(g.from <= page.cursor)
      BY <3>1, <3>3, <3>5, <1>1 DEF PageInv
    <3> QED BY <1>1, <1>5, <3>2, <3>3, <3>4, <3>6 DEF Distinct
  <2> QED BY <1>5, <2>1, <2>2
<1>7. ASSUME NEW n \in stayed, Due(n), After < ItemOf(n).at
      PROVE  \/ Has(page.items, ItemOf(n))
             \/ /\ ItemOf(n) \in new
                /\ page.cursor < n
             \/ /\ page.cursor < n /\ n \notin names
                /\ Query(page.cursor, BatchLimit).more
                /\ \A m \in names : m < n
  <2>1. n \in Nat BY <1>1 DEF Names
  <2>2. CASE n <= page.cursor
    BY <1>1, <1>7, <2>2 DEF CoverInv
  <2>3. CASE page.cursor < n
    BY <1>4, <1>5, <1>7, <2>3 DEF Due
  <2> QED BY <1>1, <2>1, <2>2, <2>3
<1>8. ASSUME NEW n \in stayed, NEW i \in new,
             Due(n), After < ItemOf(n).at, ItemOf(n).at <= i.at
      PROVE  ItemOf(n) \in new \/ Has(page.items, ItemOf(n))
  <2> SUFFICES ASSUME \A m \in names : m < n
               PROVE  ItemOf(n) \in new \/ Has(page.items, ItemOf(n))
    BY <1>7, <1>8
  <2>1. PICK m \in names : i.at <= m BY <1>6
  <2>2. m < n OBVIOUS
  <2>3. n \in Names /\ n \in Nat /\ m \in Nat BY <1>1, <1>4 DEF Names
  <2>4. ItemOf(n) \in Item /\ i \in Item
    BY <1>1, <1>6, <2>3, ItemOfFacts
  <2>5. ItemOf(n).at \in Nat /\ i.at \in Nat BY <2>4 DEF Item, Names
  <2>6. ItemOf(n).at <= m BY <1>8, <2>1, <2>3, <2>5
  <2>7. ItemOf(n) # Entry(n)
    BY <2>2, <2>3, <2>6 DEF Entry
  <2>8. PICK g \in view.groups :
          g.from <= n /\ n <= g.to /\ ItemOf(n) = Prefix(g)
    BY <1>1, <2>3, <2>7, ItemOfFacts
  <2>9. ItemOf(n).at = g.from BY <2>8 DEF Prefix
  <2>10. g.from \in Nat /\ g.to \in Nat BY <1>1, GroupFacts DEF Names
  <2>11. m <= g.to BY <2>2, <2>3, <2>8, <2>10
  <2>12. g \in Groups(m) BY <2>6, <2>9, <2>11 DEF Groups
  <2> QED BY <1>5, <1>8, <2>8, <2>9, <2>12
<1> QED BY <1>6, <1>7, <1>8

LEMMA BuildPageKeeps ==
  ASSUME ListingInv, BuildPage
  PROVE  ListingInv'
<1> DEFINE found == Query(page.cursor, BatchLimit)
           names == found.names
           new == New(names)
           room == limit - Len(page.items)
           added == Items(new, room)
           items == page.items \o added
<1>1. /\ TypeInv /\ TypeOK /\ ModeInv /\ PageInv /\ ListedInv /\ CoverInv
      /\ PurgeInv /\ phase = "paging" /\ view \in Views
      /\ page.cursor \in Nat /\ page.items \in Seq(Item)
      /\ limit \in Nat /\ Len(page.items) \in Nat /\ Len(page.items) <= limit
      /\ stayed \subseteq Names /\ limit <= PageCap
  <2>1. TypeInv /\ TypeOK /\ phase = "paging" BY DEF ListingInv, TypeInv, BuildPage
  <2>2. page.items \in Seq(Item) BY <2>1 DEF TypeInv
  <2>3. Len(page.items) \in Nat BY <2>2, LenProperties
  <2> QED BY <2>1, <2>2, <2>3, ListingBounds DEF ListingInv, TypeOK
<1>2. After \in Nat /\ After <= page.cursor
  BY <1>1, AfterFacts DEF PageInv
<1>3. BatchLimit \in Nat /\ BatchLimit > 0 /\ room \in Nat
  BY <1>1, ListingBounds DEF BatchLimit
<1>4. /\ names \in SUBSET Names
      /\ \A m \in names : page.cursor < m
      /\ found.more => names # {}
  BY <1>1, <1>3, QueryFacts
<1>5. /\ Distinct(new)
      /\ \A m \in names : \A g \in Groups(m) :
           After < g.from => Prefix(g) \in new \/ Has(page.items, Prefix(g))
  BY <1>1, <1>4, NewFacts
<1>6. /\ \A i \in new : /\ i \in Item /\ page.cursor < i.at
                        /\ \E m \in names : i.at <= m
      /\ \A n \in stayed : Due(n) /\ After < ItemOf(n).at =>
           \/ Has(page.items, ItemOf(n))
           \/ /\ ItemOf(n) \in new
              /\ page.cursor < n
           \/ /\ page.cursor < n /\ n \notin names
              /\ found.more
              /\ \A m \in names : m < n
      /\ \A n \in stayed : \A i \in new :
           Due(n) /\ After < ItemOf(n).at /\ ItemOf(n).at <= i.at =>
             ItemOf(n) \in new \/ Has(page.items, ItemOf(n))
  BY <1>1, QueryAdds
<1>7. Cardinality(new) \in Nat /\ IsFiniteSet(new)
  <2> HIDE DEF new
  <2> QED BY <1>5, DistinctIsFinite, ListingBounds
<1>8. /\ added \in Seq(Item) /\ Len(added) <= room /\ Len(added) \in Nat
      /\ \A j \in DOMAIN added : added[j] \in new
      /\ Rising(added)
      /\ \A i \in new : \A j \in DOMAIN added :
           i.at <= added[j].at => Has(added, i)
      /\ Cardinality(new) <= room => \A i \in new : Has(added, i)
      /\ room > 0 /\ new # {} => added # <<>>
  <2> HIDE DEF new, room
  <2>1. added \in Seq(Item) BY <1>3, <1>5, ItemsFacts, ListingBounds
  <2>2. Len(added) \in Nat BY <2>1, LenProperties
  <2> QED BY <1>3, <1>5, <2>1, <2>2, ItemsFacts, ListingBounds
<1>9. /\ items \in Seq(Item) /\ Len(items) = Len(page.items) + Len(added)
      /\ Len(items) <= limit /\ Len(items) \in Nat
      /\ \A i : Has(items, i) <=> Has(page.items, i) \/ Has(added, i)
      /\ Rising(items) /\ AllAfter(items, After)
  <2> HIDE DEF added
  <2>1. AllAfter(added, page.cursor) BY <1>6, <1>8 DEF AllAfter
  <2>2. AllAfter(added, After)
    <3>1. ASSUME NEW j \in DOMAIN added PROVE After < added[j].at
      <4>1. added[j] \in Item BY <1>6, <1>8
      <4>2. added[j].at \in Nat BY <4>1 DEF Item, Names
      <4> QED BY <1>1, <1>2, <2>1, <4>2 DEF AllAfter
    <3> QED BY <3>1 DEF AllAfter
  <2>3. items \in Seq(Item) /\ Len(items) = Len(page.items) + Len(added)
    BY <1>1, <1>8, JoinedPages, ListingBounds
  <2>4. Len(items) <= limit /\ Len(items) \in Nat
    <3> HIDE DEF items
    <3> QED BY <1>1, <1>3, <1>8, <2>3
  <2>5. /\ Rising(page.items) /\ AllUpto(page.items, page.cursor)
        /\ AllAfter(page.items, After)
    BY <1>1 DEF PageInv
  <2> QED BY <1>1, <1>2, <1>8, <2>1, <2>2, <2>3, <2>4, <2>5, JoinedPages, ListingBounds
<1>10. /\ UNCHANGED <<present, changes, request, limit, errors, stayed, put>>
       /\ \/ /\ Cardinality(new) > room
             /\ Answer(items, TRUE, Token(new, items))
             /\ blind' = IF limit # 0 THEN blind
                         ELSE blind \cup {Token(new, items)}
          \/ /\ Cardinality(new) <= room /\ found.more
             /\ page' = [cursor |-> Beyond(names), items |-> items]
             /\ UNCHANGED <<token, truncated, listed, phase, batch, blind>>
          \/ /\ Cardinality(new) <= room /\ ~found.more
             /\ Answer(items, FALSE, 0) /\ UNCHANGED blind
  <2>1. ~(Cardinality(new) > room) => Cardinality(new) <= room
    BY <1>3, <1>7
  <2> QED BY <2>1 DEF BuildPage
<1> HIDE DEF items, added, room, new, names, found
<1>11. /\ limit' \in 0..PageCap /\ Len(items) <= limit'
       /\ purge => blind = {} /\ limit > 0
       /\ blind \subseteq Names
       /\ start \in 0..NumNames /\ view' = view /\ start' = start
  BY <1>1, <1>9, <1>10, AfterFacts DEF TypeOK, ModeInv, request
<1>12. ASSUME NEW n \in stayed
       PROVE  /\ n \in Nat /\ ItemOf(n) \in Item /\ ItemOf(n).at \in Nat
              /\ ItemOf(n) = Entry(n) \/ \E g \in view.groups :
                   /\ g.from <= n /\ n <= g.to
                   /\ Groups(n) = {g} /\ ItemOf(n) = Prefix(g)
              /\ ItemOf(n)' = ItemOf(n)
              /\ Due(n)' => Due(n) /\ ItemOf(n).at \notin blind'
  <2>1. n \in Names BY <1>1
  <2>2. ItemOf(n) \in Item BY <1>1, <2>1, ItemOfFacts
  <2>3. n \in Nat /\ ItemOf(n).at \in Nat BY <2>1, <2>2 DEF Item, Names
  <2>4. ItemOf(n)' = ItemOf(n) BY <1>11 DEF ItemOf, Groups
  <2>5. blind \subseteq blind' BY <1>10 DEF Answer
  <2>6. Due(n)' => Due(n) /\ ItemOf(n).at \notin blind'
    BY <1>11, <2>4, <2>5 DEF Due
  <2>7. ItemOf(n) = Entry(n) \/ \E g \in view.groups :
                   /\ g.from <= n /\ n <= g.to
                   /\ Groups(n) = {g} /\ ItemOf(n) = Prefix(g)
    BY <1>1, <2>1, ItemOfFacts
  <2> QED BY <2>2, <2>3, <2>4, <2>6, <2>7
<1>13. CASE /\ Cardinality(new) > room
            /\ Answer(items, TRUE, Token(new, items))
            /\ blind' = IF limit # 0 THEN blind
                        ELSE blind \cup {Token(new, items)}
  <2> DEFINE T == Token(new, items)
  <2>1. new # {}
    BY <1>3, <1>7, <1>13, FS_EmptySet
  <2> SUFFICES
        /\ T \in Names /\ After < T /\ AllUpto(items, T)
        /\ blind' \subseteq Names /\ (purge => blind' = {})
        /\ \A n \in stayed : Due(n)' /\ After < ItemOf(n).at /\ ItemOf(n).at <= T
                                => Has(items, ItemOf(n))
    <3> HIDE DEF T
    <3>1. T \in 0..NumNames /\ T # 0 /\ T \in Nat BY DEF Names
    <3>2. token' = T BY <1>13 DEF T, Answer
    <3>3. After' = T BY <3>1, <3>2 DEF After
    <3>4. After <= After' /\ AllUpto(items, After') BY <1>2, <3>1, <3>3
    <3>5. blind \subseteq blind' BY <1>13
    <3>6. Answer(items, TRUE, T) BY <1>13 DEF T
    <3> QED BY <1>1, <1>9, <1>10, <1>11, <3>1, <3>3, <3>4, <3>5, <3>6, AnswerKeeps
  <2>2. CASE Len(items) = 0
    <3>1. Len(page.items) = 0 /\ Len(added) = 0 /\ items = <<>> /\ added = <<>>
      <4>1. Len(page.items) = 0 /\ Len(added) = 0
        <5>1. \A a, b \in Nat : a + b = 0 => a = 0 /\ b = 0 OBVIOUS
        <5>2. Len(page.items) \in Nat /\ Len(added) \in Nat BY <1>1, <1>8
        <5>3. Len(page.items) + Len(added) = 0 BY <1>9, <2>2
        <5> QED BY <5>1, <5>2, <5>3, Zenon
      <4>2. \A s \in Seq(Item) : Len(s) = 0 => s = <<>> BY EmptySeq
      <4> QED BY <1>8, <1>9, <2>2, <4>1, <4>2
    <3>2. room = 0 /\ limit = 0 BY <1>1, <1>3, <1>8, <2>1, <3>1 DEF room
    <3> DEFINE first == Items(new, 1)
    <3>3. /\ first \in Seq(Item) /\ Len(first) <= 1 /\ first # <<>>
          /\ \A j \in DOMAIN first : first[j] \in new
          /\ \A i \in new : \A j \in DOMAIN first :
               i.at <= first[j].at => Has(first, i)
      BY <1>5, <2>1, ItemsFacts, ListingBounds
    <3>4. Len(first) = 1 /\ DOMAIN first = 1..1
      <4> HIDE DEF first
      <4>1. Len(first) \in Nat /\ Len(first) # 0 /\ DOMAIN first = 1..Len(first)
        BY <3>3, EmptySeq, LenProperties
      <4> QED BY <3>3, <4>1
    <3>5. T = first[1].at BY <3>1 DEF Token
    <3>6. first[1] \in new BY <3>3, <3>4
    <3>7. T \in Names /\ T \in Nat /\ page.cursor < T
      BY <1>6, <3>5, <3>6 DEF Item, Names
    <3>8. After < T BY <1>1, <1>2, <3>7
    <3>9. DOMAIN items = {} /\ DOMAIN page.items = {}
      BY <1>1, <3>1, LenProperties
    <3>10. ~purge BY <1>11, <3>2
    <3>11. blind' = blind \cup {T} BY <1>13, <3>2
    <3>12. ASSUME NEW n \in stayed, Due(n)', After < ItemOf(n).at,
                  ItemOf(n).at <= T
           PROVE  FALSE
      <4> HIDE DEF first, T
      <4>1. Due(n) /\ ItemOf(n).at # T BY <1>12, <3>11, <3>12
      <4>2. ItemOf(n) \in new
        BY <1>6, <3>5, <3>6, <3>9, <3>12, <4>1 DEF Has
      <4>3. PICK j \in DOMAIN first : first[j] = ItemOf(n)
        BY <3>3, <3>4, <3>5, <3>12, <4>2 DEF Has
      <4>4. j = 1 BY <3>4
      <4> QED BY <3>5, <4>1, <4>3, <4>4
    <3>13. AllUpto(items, T) BY <3>9 DEF AllUpto
    <3>14. blind' \subseteq Names BY <1>11, <3>7, <3>11
    <3> HIDE DEF T
    <3> QED BY <3>7, <3>8, <3>10, <3>12, <3>13, <3>14
  <2>3. CASE Len(items) # 0
    <3> DEFINE last == Last(items)
    <3>1. /\ last \in Item /\ Has(items, last) /\ AllUpto(items, last.at)
      BY <1>9, <2>3, LastItem, ListingBounds
    <3>2. items # <<>> BY <2>3
    <3>3. T = last.at BY <3>2 DEF Token
    <3>4. T \in Names /\ T \in Nat BY <3>1, <3>3 DEF Item, Names
    <3>5. After < T BY <1>9, <3>1, <3>3 DEF Has, AllAfter
    <3>6. limit # 0 BY <1>1, <1>9, <2>3
    <3>7. blind' = blind BY <1>13, <3>6
    <3>8. ASSUME NEW n \in stayed, Due(n)', After < ItemOf(n).at,
                 ItemOf(n).at <= T
          PROVE  Has(items, ItemOf(n))
      <4> HIDE DEF last, T
      <4>1. Due(n) BY <1>12, <3>8
      <4>2. CASE Has(page.items, last)
        <5>1. T <= page.cursor BY <1>1, <3>3, <4>2 DEF PageInv, AllUpto, Has
        <5>2. CASE n <= page.cursor
          BY <1>1, <1>9, <3>8, <4>1, <5>2 DEF CoverInv
        <5>3. CASE page.cursor < n
          <6>1. ItemOf(n).at <= page.cursor
            BY <1>1, <1>12, <3>4, <3>8, <5>1
          <6>2. ItemOf(n) # Entry(n) BY <1>1, <1>12, <5>3, <6>1 DEF Entry
          <6>3. PICK g \in view.groups :
                  g.from <= n /\ n <= g.to /\ ItemOf(n) = Prefix(g)
            BY <1>12, <6>2
          <6>4. ItemOf(n).at = g.from BY <6>3 DEF Prefix
          <6>5. g.to \in Nat BY <1>1, GroupFacts DEF Names
          <6>6. page.cursor < g.to BY <1>1, <1>12, <5>3, <6>3, <6>5
          <6> QED BY <1>1, <1>9, <3>8, <6>1, <6>3, <6>4, <6>6 DEF PageInv
        <5> QED BY <1>1, <1>12, <5>2, <5>3
      <4>3. CASE Has(added, last)
        <5>1. PICK j \in DOMAIN added : added[j] = last BY <4>3 DEF Has
        <5>2. last \in new BY <1>8, <5>1
        <5>3. ItemOf(n) \in new \/ Has(page.items, ItemOf(n))
          BY <1>6, <3>3, <3>8, <4>1, <5>2
        <5>4. ItemOf(n) \in new => Has(added, ItemOf(n))
          BY <1>8, <3>3, <3>8, <5>1
        <5> QED BY <1>9, <5>3, <5>4
      <4> QED BY <1>9, <3>1, <4>2, <4>3
    <3> HIDE DEF last, T
    <3> QED BY <1>11, <3>1, <3>3, <3>4, <3>5, <3>7, <3>8
  <2> QED BY <2>2, <2>3
<1>14. CASE /\ Cardinality(new) <= room /\ found.more
            /\ page' = [cursor |-> Beyond(names), items |-> items]
            /\ UNCHANGED <<token, truncated, listed, phase, batch, blind>>
  <2> DEFINE next == Beyond(names)
  <2>1. /\ next \in Names
        /\ \A m \in names : m <= next
        /\ \/ next \in names
           \/ \E m \in names : \E g \in Groups(m) : next = g.mark
    BY <1>1, <1>4, <1>14, BeyondFacts
  <2>2. /\ present' = present /\ changes' = changes /\ kind' = kind
        /\ view' = view /\ start' = start /\ purge' = purge
        /\ errors' = errors /\ stayed' = stayed /\ put' = put
        /\ limit' = limit /\ token' = token /\ truncated' = truncated
        /\ listed' = listed /\ phase' = phase /\ batch' = batch
        /\ blind' = blind /\ After' = After
        /\ page'.cursor = next /\ page'.items = items
    BY <1>10, <1>14 DEF request, After
  <2>3. \A i \in new : Has(items, i)
    BY <1>8, <1>9, <1>14
  <2>4. next \in Nat /\ next > page.cursor
    <3>1. PICK m \in names : m <= next BY <1>4, <1>14, <2>1
    <3>2. m \in Nat /\ next \in Nat BY <1>4, <2>1 DEF Names
    <3> HIDE DEF next
    <3> QED BY <1>1, <1>4, <3>1, <3>2
  <2> HIDE DEF next
  <2>5. TypeInv'
    <3>1. /\ page' \in [cursor : 0..NumNames, items : Seq(Item)]
          /\ Len(page'.items) <= limit' /\ page'.cursor \in 0..NumNames
      <4>1. next \in 0..NumNames BY <2>1, ListingBounds DEF Names
      <4> QED BY <1>9, <1>14, <2>2, <4>1 DEF next
    <3> QED BY <1>1, <2>2, <3>1 DEF TypeInv, TypeOK
  <2>6. ModeInv'
    BY <1>1, <2>2 DEF ModeInv
  <2>7. AllUpto(items, next)
    <3>1. ASSUME NEW i, Has(items, i) PROVE i.at <= next
      <4>1. CASE Has(page.items, i)
        <5>1. i \in Item BY <1>1, <4>1, SeqElements DEF Has
        <5>2. i.at \in Nat BY <5>1 DEF Item, Names
        <5>3. i.at <= page.cursor BY <1>1, <4>1 DEF PageInv, AllUpto, Has
        <5> QED BY <1>1, <2>4, <5>2, <5>3
      <4>2. CASE Has(added, i)
        <5>1. i \in new BY <1>8, <4>2 DEF Has
        <5>2. PICK m \in names : i.at <= m BY <1>6, <5>1
        <5>3. m <= next /\ m \in Nat BY <1>4, <2>1 DEF Names
        <5>4. i.at \in Nat BY <1>6, <5>1 DEF Item, Names
        <5> QED BY <2>4, <5>2, <5>3, <5>4
      <4> QED BY <1>9, <3>1, <4>1, <4>2
    <3> QED BY <3>1 DEF AllUpto, Has
  <2>8. ASSUME NEW g \in view.groups, After < g.from, g.from <= next, next < g.to
        PROVE  Has(items, Prefix(g))
    <3>1. g.from \in Nat /\ g.to \in Nat BY <1>1, GroupFacts DEF Names
    <3>2. CASE g.from <= page.cursor
      <4>1. page.cursor < g.to BY <1>1, <2>4, <2>8, <3>1
      <4> QED BY <1>1, <1>9, <2>8, <3>2, <4>1 DEF PageInv
    <3>3. g \in Groups(next) BY <2>4, <2>8, <3>1 DEF Groups
    <3>4. \E m \in names : g \in Groups(m)
      <4>1. CASE next \in names BY <3>3, <4>1
      <4>2. CASE \E m \in names : \E h \in Groups(m) : next = h.mark
        <5>1. PICK m \in names : \E h \in Groups(m) : next = h.mark BY <4>2
        <5>2. PICK h \in Groups(m) : next = h.mark BY <5>1
        <5>3. h \in Groups(next) BY <1>1, <5>2, GroupFacts DEF Groups
        <5>4. g = h BY <1>1, <2>4, <3>3, <5>3, GroupUnique
        <5> QED BY <5>4
      <4> QED BY <2>1, <4>1, <4>2
    <3> QED BY <1>5, <1>9, <2>3, <2>8, <3>4
  <2>9. PageInv'
    <3>1. After' <= page'.cursor BY <1>1, <1>2, <2>2, <2>4
    <3> QED BY <1>9, <2>2, <2>7, <2>8, <3>1 DEF PageInv
  <2>10. ListedInv'
    BY <1>1, <2>2 DEF ListedInv, More
  <2>11. ASSUME NEW n \in stayed, Due(n), After < ItemOf(n).at, n <= next
         PROVE  Has(items, ItemOf(n))
    <3>1. CASE Has(page.items, ItemOf(n)) BY <1>9, <3>1
    <3>2. CASE ItemOf(n) \in new BY <2>3, <3>2
    <3>3. CASE \A m \in names : m < n
      <4>1. n \in Nat BY <1>12
      <4>2. next \notin names
        <5>1. SUFFICES ASSUME next \in names PROVE FALSE OBVIOUS
        <5>2. next < n BY <3>3, <5>1
        <5> QED BY <2>4, <2>11, <4>1, <5>2
      <4>3. PICK m \in names : \E g \in Groups(m) : next = g.mark
        BY <2>1, <4>2
      <4>4. PICK g \in Groups(m) : next = g.mark BY <4>3
      <4>5. /\ g \in view.groups /\ g.from <= m /\ g.mark <= g.to
            /\ g.from \in Nat /\ g.mark \in Nat /\ g.to \in Nat /\ m \in Nat
        BY <1>1, <1>4, GroupFacts DEF Groups, Names
      <4>6. g.from <= n /\ n <= g.to
        BY <2>11, <3>3, <4>1, <4>4, <4>5
      <4>7. g \in Groups(n) BY <4>5, <4>6 DEF Groups
      <4>8. ItemOf(n) = Prefix(g)
        <5>1. n \in Names BY <1>1
        <5> QED BY <1>1, <4>7, <5>1, ItemOfFacts
      <4>9. ItemOf(n).at = g.from BY <4>8 DEF Prefix
      <4> QED BY <1>5, <1>9, <2>3, <2>11, <4>8, <4>9
    <3> QED BY <1>6, <2>11, <3>1, <3>2, <3>3
  <2>12. CoverInv'
    <3>1. ASSUME NEW n \in stayed', Due(n)', (ItemOf(n).at <= After)'
          PROVE  Has(listed, ItemOf(n))'
      <4>1. More BY <1>1 DEF More
      <4> QED BY <1>1, <1>12, <2>2, <3>1, <4>1 DEF CoverInv
    <3>2. ASSUME NEW n \in stayed', Due(n)', (After < ItemOf(n).at)',
                 (n <= page.cursor)'
          PROVE  Has(page.items, ItemOf(n))'
      BY <1>12, <2>2, <2>11, <3>2
    <3>3. phase' = "paging" BY <1>1, <2>2
    <3> QED BY <3>1, <3>2, <3>3 DEF CoverInv
  <2>13. PurgeInv'
    BY <1>1, <2>2 DEF PurgeInv
  <2> QED BY <2>5, <2>6, <2>9, <2>10, <2>12, <2>13 DEF ListingInv
<1>15. CASE /\ Cardinality(new) <= room /\ ~found.more
            /\ Answer(items, FALSE, 0) /\ UNCHANGED blind
  <2>1. ASSUME NEW n \in stayed, Due(n)', After < ItemOf(n).at
        PROVE  Has(items, ItemOf(n))
    <3>1. Has(page.items, ItemOf(n)) \/ ItemOf(n) \in new
      BY <1>6, <1>12, <1>15, <2>1
    <3> QED BY <1>8, <1>9, <1>15, <3>1
  <2>2. 0 \in 0..NumNames BY ListingBounds
  <2>3. blind \subseteq blind' /\ blind' \subseteq Names /\ (purge => blind' = {})
    BY <1>11, <1>15
  <2> QED BY <1>1, <1>9, <1>10, <1>11, <1>15, <2>1, <2>2, <2>3, AnswerKeeps
<1> QED BY <1>10, <1>13, <1>14, <1>15

(***************************************************************************)
(* The other actions.                                                      *)
(***************************************************************************)

LEMMA AskObjectsKeeps ==
  ASSUME ListingInv, NEW size \in 0..PageCap, AskObjects(size)
  PROVE  ListingInv'
<1>1. /\ TypeInv /\ TypeOK /\ ModeInv /\ ListedInv /\ CoverInv /\ PurgeInv
      /\ phase = "idle" /\ kind = "objects" /\ view \in Views
      /\ stayed \subseteq Names
  BY DEF ListingInv, TypeInv, TypeOK, AskObjects
<1>2. After \in 0..NumNames /\ After \in Nat
  BY <1>1, AfterFacts
<1>3. /\ present' = present /\ changes' = changes /\ kind' = kind
      /\ view' = view /\ start' = start /\ purge' = purge
      /\ errors' = errors /\ stayed' = stayed /\ put' = put
      /\ limit' = size /\ token' = token /\ truncated' = truncated
      /\ listed' = listed /\ phase' = "paging" /\ batch' = batch
      /\ blind' = blind /\ After' = After
      /\ page' = [cursor |-> After, items |-> <<>>]
      /\ (purge => size > 0)
  BY DEF AskObjects, request, PageFrom, After
<1>4. TypeInv'
  <2>1. /\ page' \in [cursor : 0..NumNames, items : Seq(Item)]
        /\ Len(page'.items) <= limit' /\ page'.cursor \in 0..NumNames
    <3>1. <<>> \in Seq(Item) /\ Len(<<>>) = 0 BY EmptySeq
    <3> QED BY <1>2, <1>3, <3>1, ListingBounds
  <2> QED BY <1>1, <1>3, <2>1 DEF TypeInv, TypeOK
<1>5. ModeInv'
  BY <1>1, <1>3 DEF ModeInv
<1>6. PageInv'
  <2>1. DOMAIN page'.items = {} BY <1>3
  <2>2. After' <= page'.cursor BY <1>2, <1>3
  <2>3. ASSUME NEW g \in view.groups PROVE ~(After < g.from /\ g.from <= After)
    <3>1. g.from \in Nat BY <1>1, GroupFacts DEF Names
    <3> QED BY <1>2, <3>1
  <2> QED BY <1>3, <2>1, <2>2, <2>3 DEF PageInv, Rising, AllAfter, AllUpto
<1>7. ListedInv'
  BY <1>1, <1>3 DEF ListedInv, More
<1>8. ASSUME NEW n \in stayed
      PROVE  /\ ItemOf(n)' = ItemOf(n) /\ (Due(n)' => Due(n))
             /\ ~(After < ItemOf(n).at /\ n <= After)
  <2>1. n \in Names BY <1>1
  <2>2. ItemOf(n) \in Item /\ ItemOf(n).at <= n BY <1>1, <2>1, ItemOfFacts
  <2>3. n \in Nat /\ ItemOf(n).at \in Nat BY <2>1, <2>2 DEF Item, Names
  <2>4. ~(After < ItemOf(n).at /\ n <= After) BY <1>2, <2>2, <2>3
  <2>5. ItemOf(n)' = ItemOf(n) BY <1>3 DEF ItemOf, Groups
  <2>6. Due(n)' => Due(n) BY <1>3, <2>5 DEF Due
  <2> QED BY <2>4, <2>5, <2>6
<1>9. CoverInv'
  <2>1. More BY <1>1 DEF More
  <2>2. ASSUME NEW n \in stayed', Due(n)', (ItemOf(n).at <= After)'
        PROVE  Has(listed, ItemOf(n))'
    BY <1>1, <1>3, <1>8, <2>1, <2>2 DEF CoverInv
  <2>3. ASSUME NEW n \in stayed', (After < ItemOf(n).at)', (n <= page.cursor)'
        PROVE  FALSE
    BY <1>3, <1>8, <2>3
  <2> QED BY <1>3, <2>2, <2>3 DEF CoverInv
<1>10. PurgeInv'
  BY <1>1, <1>3 DEF PurgeInv
<1> QED BY <1>4, <1>5, <1>6, <1>7, <1>9, <1>10 DEF ListingInv

\* A listing of uploads or parts: what is due up to the last item of a page
\* is on it.
LEMMA AskMultipartKeeps ==
  ASSUME ListingInv, NEW size \in 0..PageCap, AskMultipart(size)
  PROVE  ListingInv'
<1> DEFINE k == IF size = 0 THEN 1 ELSE size
           found == Query(After, k)
           names == found.names
           S == {Entry(n) : n \in names}
           items == IF size = 0 THEN <<>> ELSE Items(S, size)
           more == IF size = 0 THEN names # {} ELSE found.more
           next == IF items = <<>> THEN token ELSE Last(items).at
<1>1. /\ TypeInv /\ TypeOK /\ ModeInv
      /\ phase = "idle" /\ kind # "objects" /\ view \in Views
      /\ view.groups = {} /\ ~purge /\ blind \subseteq Names
      /\ stayed \subseteq Names /\ token \in 0..NumNames /\ start \in 0..NumNames
      /\ size \in Nat /\ size <= PageCap
  BY ListingBounds DEF ListingInv, TypeInv, TypeOK, ModeInv, AskMultipart
<1>2. After \in 0..NumNames /\ After \in Nat
  BY <1>1, AfterFacts
<1>3. k \in Nat /\ k > 0 /\ (size # 0 => k = size)
  BY <1>1
<1>4. /\ limit' = size
      /\ Answer(items, more, next)
      /\ UNCHANGED <<present, changes, request, errors, stayed, put>>
      /\ blind' = blind
  BY DEF AskMultipart
<1>5. more \in BOOLEAN
  <2>1. found.more \in BOOLEAN
    <3> HIDE DEF k
    <3> QED BY <1>1, <1>2, <1>3, QueryFacts
  <2> HIDE DEF found, names
  <2> QED BY <2>1
<1>6. /\ names \in SUBSET Names
      /\ \A m \in names : After < m
      /\ \A n \in stayed :
           view.lo <= n /\ n <= view.hi /\ After < n =>
             \/ n \in names
             \/ found.more /\ \A m \in names : m < n
      /\ found.more => names # {}
      /\ IsFiniteSet(names)
      /\ ~found.more => Cardinality(names) <= k
  <2> HIDE DEF k
  <2> QED BY <1>1, <1>2, <1>3, QueryFacts
<1> HIDE DEF found, k, names
<1>7. ASSUME NEW n \in stayed
      PROVE  /\ n \in Names /\ n \in Nat /\ ItemOf(n) = Entry(n)
             /\ ItemOf(n).at = n
             /\ Due(n)' => view.lo <= n /\ n <= view.hi
  <2>1. n \in Names /\ n \in Nat BY <1>1 DEF Names
  <2>2. ItemOf(n) = Entry(n) BY <1>1 DEF ItemOf, Groups
  <2>3. view' = view BY <1>4 DEF request
  <2> QED BY <2>1, <2>2, <2>3 DEF Entry, Due
<1>8. /\ blind \subseteq blind' /\ blind' \subseteq Names
      /\ (purge => blind' = {}) /\ limit' \in 0..PageCap
  BY <1>1, <1>4
<1>9. token' = (IF more THEN next ELSE token) /\ start' = start
  BY <1>4 DEF Answer, request
<1>10. CASE size = 0
  <2>1. items = <<>> /\ next = token /\ (more <=> names # {})
    BY <1>10
  <2>2. items \in Seq(Item) /\ Len(items) = 0 /\ DOMAIN items = {}
    <3>1. <<>> \in Seq(Item) /\ Len(<<>>) = 0 /\ DOMAIN <<>> = {}
      BY EmptySeq
    <3> QED BY <2>1, <3>1
  <2>3. After' = After BY <1>9, <2>1 DEF After
  <2>4. ASSUME NEW n \in stayed, Due(n)', After < ItemOf(n).at,
               more => ItemOf(n).at <= After'
        PROVE  FALSE
    BY <1>2, <1>6, <1>7, <2>1, <2>3, <2>4
  <2>5. /\ Rising(items) /\ AllAfter(items, After) /\ AllUpto(items, After')
        /\ After <= After' /\ Len(items) <= limit'
    BY <1>1, <1>2, <1>4, <2>2, <2>3 DEF Rising, AllAfter, AllUpto
  <2> HIDE DEF items, more, next
  <2> QED BY <1>1, <1>4, <1>5, <1>8, <2>1, <2>2, <2>4, <2>5, AnswerKeeps
<1>11. CASE size # 0
  <2>1. items = Items(S, size) /\ (more <=> found.more) /\ k = size
    BY <1>3, <1>11
  <2>2. Distinct(S) /\ \A i \in S : i.at \in names /\ i = Entry(i.at)
    <3>1. ASSUME NEW i \in S PROVE i.at \in names /\ i = Entry(i.at) /\ i \in Item
      <4>1. PICK n \in names : i = Entry(n) OBVIOUS
      <4>2. i.at = n /\ n \in Names BY <1>6, <4>1 DEF Entry
      <4> QED BY <4>1, <4>2 DEF Entry, Item
    <3>2. \A i, j \in S : i.at = j.at => i = j
      <4> HIDE DEF S
      <4> QED BY <3>1
    <3> QED BY <3>1, <3>2 DEF Distinct
  <2>3. \A n \in names : Entry(n) \in S
    OBVIOUS
  <2>4. names # {} => S # {}
    BY <2>3
  <2> HIDE DEF S
  <2>5. Cardinality(S) <= Cardinality(names)
    <3> DEFINE f == [i \in S |-> i.at]
    <3>1. f \in [S -> names] /\ \A i, j \in S : f[i] = f[j] => i = j
      BY <2>2 DEF Distinct
    <3>2. f \in Injection(S, names)
      <4> HIDE DEF f
      <4> QED BY <3>1 DEF Injection, IsInjective
    <3> QED BY <1>6, <3>2, FS_Injection
  <2>6. Cardinality(S) \in Nat /\ Cardinality(names) \in Nat
    BY <1>6, <2>2, DistinctIsFinite, FS_CardinalityType, ListingBounds
  <2>7. /\ items \in Seq(Item) /\ Len(items) <= size
        /\ \A j \in DOMAIN items : items[j] \in S
        /\ Rising(items)
        /\ \A i \in S : \A j \in DOMAIN items :
             i.at <= items[j].at => Has(items, i)
        /\ Cardinality(S) <= size => \A i \in S : Has(items, i)
        /\ size > 0 /\ S # {} => items # <<>>
    <3> HIDE DEF items
    <3> QED BY <1>1, <2>1, <2>2, ItemsFacts, ListingBounds
  <2>8. ~more => \A i \in S : Has(items, i)
    <3> HIDE DEF items, more
    <3> QED BY <1>1, <1>6, <2>1, <2>5, <2>6, <2>7
  <2>9. more => items # <<>>
    <3> HIDE DEF items, more
    <3> QED BY <1>1, <1>6, <1>11, <2>1, <2>4, <2>7
  <2>10. AllAfter(items, After)
    BY <1>6, <2>2, <2>7 DEF AllAfter
  <2>11. items # <<>> =>
           /\ Last(items) \in Item /\ Has(items, Last(items))
           /\ AllUpto(items, Last(items).at) /\ next = Last(items).at
    <3>1. next = IF items = <<>> THEN token ELSE Last(items).at OBVIOUS
    <3> HIDE DEF items, next
    <3>2. items # <<>> => Len(items) # 0 BY <2>7, EmptySeq
    <3> QED BY <2>7, <3>1, <3>2, LastItem, ListingBounds
  <2>12. next \in 0..NumNames
    <3>1. items = <<>> => next = token OBVIOUS
    <3> HIDE DEF items, next
    <3> QED BY <1>1, <2>11, <3>1 DEF Item, Names
  <2> HIDE DEF items, more, next
  <2>13. more => /\ After' = next /\ next \in Nat /\ After < next
                 /\ AllUpto(items, After')
                 /\ \E m \in names : next = m
    <3> SUFFICES ASSUME more
                 PROVE  /\ After' = next /\ next \in Nat /\ After < next
                        /\ AllUpto(items, After')
                        /\ \E m \in names : next = m
      OBVIOUS
    <3>1. PICK j \in DOMAIN items : items[j] = Last(items)
      BY <2>9, <2>11 DEF Has
    <3>2. next \in names BY <2>2, <2>7, <2>9, <2>11, <3>1
    <3>3. next \in Nat /\ next # 0 /\ After < next
      BY <1>6, <3>2 DEF Names
    <3>4. After' = next BY <1>9, <3>3 DEF After
    <3> QED BY <2>9, <2>11, <3>2, <3>3, <3>4
  <2>14. ASSUME NEW n \in stayed, Due(n)', After < ItemOf(n).at,
                more => ItemOf(n).at <= After'
         PROVE  Has(items, ItemOf(n))
    <3>1. After < n /\ view.lo <= n /\ n <= view.hi BY <1>7, <2>14
    <3>2. CASE ~more
      <4>1. n \in names BY <1>6, <2>1, <3>1, <3>2
      <4> QED BY <1>7, <2>3, <2>8, <3>2, <4>1
    <3>3. CASE more
      <4>1. n <= next BY <1>7, <2>13, <2>14, <3>3
      <4>2. n \in names
        <5>1. SUFFICES ASSUME \A m \in names : m < n PROVE FALSE
          BY <1>6, <3>1
        <5>2. next < n BY <2>13, <3>3, <5>1
        <5> QED BY <1>7, <2>13, <3>3, <4>1, <5>2
      <4>3. Entry(n) \in S /\ Entry(n).at = n BY <2>3, <4>2 DEF Entry
      <4>4. PICK j \in DOMAIN items : items[j] = Last(items)
        BY <2>9, <2>11, <3>3 DEF Has
      <4>5. items[j].at = next BY <2>9, <2>11, <3>3, <4>4
      <4>6. Has(items, Entry(n)) BY <2>7, <4>1, <4>3, <4>5
      <4> QED BY <1>7, <4>6
    <3> QED BY <3>2, <3>3
  <2>15. more => After <= After'
    BY <1>2, <2>13
  <2>16. Len(items) <= limit' BY <1>4, <2>7
  <2> QED BY <1>1, <1>4, <1>5, <1>8, <2>7, <2>10, <2>12, <2>13, <2>14, <2>15, <2>16, AnswerKeeps
<1> QED BY <1>10, <1>11

\* Where names only go, and the client stays where it is or is done deleting.
LEMMA ClientWaits ==
  ASSUME ListingInv, UNCHANGED <<request, paging>>,
         stayed' \subseteq stayed,
         \/ phase' = phase
         \/ phase = "deleting" /\ phase' = (IF truncated THEN "idle" ELSE "done")
         \/ phase' = "refused"
  PROVE  PageInv' /\ ListedInv' /\ CoverInv'
<1>1. /\ PageInv /\ ListedInv /\ CoverInv
      /\ stayed \subseteq Names /\ view \in Views
  BY DEF ListingInv, TypeInv, TypeOK
<1>2. /\ kind' = kind /\ view' = view /\ start' = start /\ purge' = purge
      /\ token' = token /\ limit' = limit /\ page' = page
      /\ truncated' = truncated /\ listed' = listed /\ blind' = blind
      /\ After' = After
  BY DEF request, paging, After
<1>3. /\ More' => More
      /\ phase' = "paging" => phase = "paging"
      /\ phase' = "done" \/ (phase' = "deleting" /\ ~truncated) =>
           phase = "done" \/ (phase = "deleting" /\ ~truncated)
  BY <1>2 DEF More
<1>4. \A n \in stayed : ItemOf(n)' = ItemOf(n) /\ (Due(n)' <=> Due(n))
  BY <1>2 DEF ItemOf, Groups, Due
<1>5. PageInv'
  BY <1>1, <1>2, <1>3 DEF PageInv
<1>6. ListedInv'
  BY <1>1, <1>2, <1>3 DEF ListedInv
<1>7. CoverInv'
  <2>1. ASSUME More', NEW n \in stayed', Due(n)', (ItemOf(n).at <= After)'
        PROVE  Has(listed, ItemOf(n))'
    BY <1>1, <1>2, <1>3, <1>4, <2>1 DEF CoverInv
  <2>2. ASSUME phase' = "paging", NEW n \in stayed', Due(n)',
               (After < ItemOf(n).at)', (n <= page.cursor)'
        PROVE  Has(page.items, ItemOf(n))'
    BY <1>1, <1>2, <1>3, <1>4, <2>2 DEF CoverInv
  <2>3. ASSUME (phase = "done" \/ (phase = "deleting" /\ ~truncated))',
               NEW n \in stayed', Due(n)'
        PROVE  Has(listed, ItemOf(n))'
    BY <1>1, <1>2, <1>3, <1>4, <2>3 DEF CoverInv
  <2> QED BY <2>1, <2>2, <2>3 DEF CoverInv
<1> QED BY <1>5, <1>6, <1>7

LEMMA DeleteKeyKeeps ==
  ASSUME ListingInv, DeleteKey
  PROVE  ListingInv'
<1> DEFINE key == Head(batch)
<1>1. /\ TypeInv /\ TypeOK /\ ModeInv /\ PurgeInv /\ phase = "deleting"
      /\ batch \in Seq(0..NumNames) /\ batch # <<>> /\ Len(batch) <= MaxDelete
      /\ stayed \subseteq present /\ present \subseteq Names
      /\ errors \subseteq 0..NumNames
  BY DEF ListingInv, TypeInv, TypeOK, ModeInv, DeleteKey
<1>2. PICK len \in Nat : len = Len(batch) /\ len > 0 /\ DOMAIN batch = 1..len
  BY <1>1, EmptySeq, LenProperties
<1>3. /\ key \in 0..NumNames /\ key = batch[1]
      /\ Tail(batch) \in Seq(0..NumNames) /\ Len(Tail(batch)) = len - 1
      /\ \A i \in 1..len - 1 : Tail(batch)[i] = batch[i + 1]
      /\ DOMAIN Tail(batch) = 1..len - 1
      /\ (Tail(batch) = <<>> <=> len = 1)
  <2>1. /\ Head(batch) \in 0..NumNames /\ Tail(batch) \in Seq(0..NumNames)
        /\ Len(Tail(batch)) = len - 1
        /\ \A i \in 1..Len(Tail(batch)) : Tail(batch)[i] = batch[i + 1]
    BY <1>1, <1>2, HeadTailProperties
  <2>2. Head(batch) = batch[1] BY <1>1
  <2>3. DOMAIN Tail(batch) = 1..Len(Tail(batch)) BY <2>1, LenProperties
  <2>4. Tail(batch) = <<>> <=> Len(Tail(batch)) = 0 BY <2>1, EmptySeq
  <2>5. len - 1 = 0 <=> len = 1 BY <1>2
  <2> QED BY <2>1, <2>2, <2>3, <2>4, <2>5
<1> HIDE DEF key
<1>4. /\ kind' = kind /\ view' = view /\ start' = start /\ purge' = purge
      /\ token' = token /\ limit' = limit /\ page' = page
      /\ truncated' = truncated /\ listed' = listed /\ blind' = blind
      /\ changes' = changes /\ put' = put
      /\ batch' = Tail(batch) /\ stayed' = stayed \cap present'
      /\ phase' = (IF len > 1 THEN "deleting"
                   ELSE IF truncated THEN "idle" ELSE "done")
  BY <1>2 DEF DeleteKey, AfterKey, request, paging
<1>5. /\ present' \subseteq present
      /\ errors' \in {errors, errors \cup {key}}
      /\ key \in present' => key \in errors'
  BY DEF DeleteKey, key
<1>6. TypeInv'
  <2>1. Len(Tail(batch)) <= MaxDelete BY <1>1, <1>2, <1>3, ListingBounds
  <2>2. \A i \in DOMAIN Tail(batch) : Tail(batch)[i] \in 0..NumNames
    BY <1>3, SeqElements
  <2>3. errors' \subseteq 0..NumNames BY <1>1, <1>3, <1>5
  <2>4. stayed' \subseteq present' /\ present' \subseteq Names BY <1>1, <1>4, <1>5
  <2> QED BY <1>1, <1>3, <1>4, <2>1, <2>2, <2>3, <2>4 DEF TypeInv, TypeOK
<1>7. ModeInv'
  <2>1. phase' = "deleting" <=> batch' # <<>>
    BY <1>2, <1>3, <1>4
  <2>2. phase' # "paging" BY <1>4
  <2> QED BY <1>1, <1>4, <2>1, <2>2 DEF ModeInv
<1>8. PageInv' /\ ListedInv' /\ CoverInv'
  <2>1. UNCHANGED <<request, paging>> BY DEF DeleteKey
  <2> QED BY <1>1, <1>4, <2>1, ClientWaits
<1>9. PurgeInv'
  <2>1. present' \subseteq stayed' \cup put'
    BY <1>1, <1>4, <1>5 DEF PurgeInv
  <2>2. ASSUME purge, NEW i \in DOMAIN listed, listed[i].at \in present'
        PROVE  \/ listed[i].at \in errors' \cup put
               \/ \E j \in DOMAIN Tail(batch) : Tail(batch)[j] = listed[i].at
    <3>1. \/ listed[i].at \in errors \cup put
          \/ \E j \in DOMAIN batch : batch[j] = listed[i].at
      BY <1>1, <1>5, <2>2 DEF PurgeInv
    <3>2. CASE listed[i].at \in errors \cup put
      BY <1>5, <3>2
    <3>3. CASE \E j \in DOMAIN batch : batch[j] = listed[i].at
      <4>1. PICK j \in 1..len : batch[j] = listed[i].at BY <1>2, <3>3
      <4>2. CASE j = 1
        BY <1>3, <1>5, <2>2, <4>1, <4>2
      <4>3. CASE j # 1
        <5>1. j - 1 \in 1..len - 1 /\ (j - 1) + 1 = j BY <1>2, <4>3
        <5>2. Tail(batch)[j - 1] = batch[j] BY <1>3, <5>1
        <5> QED BY <1>3, <4>1, <5>1, <5>2
      <4> QED BY <4>2, <4>3
    <3> QED BY <3>1, <3>2, <3>3
  <2> QED BY <1>4, <2>1, <2>2 DEF PurgeInv
<1> QED BY <1>6, <1>7, <1>8, <1>9 DEF ListingInv

LEMMA OthersKeep ==
  ASSUME ListingInv, PutName \/ RemoveName
  PROVE  ListingInv'
<1>1. /\ TypeInv /\ TypeOK /\ ModeInv /\ PurgeInv
      /\ stayed \subseteq present /\ present \subseteq Names
      /\ changes \in 0..MaxChanges /\ put \subseteq Names
  BY DEF ListingInv, TypeInv, TypeOK
<1>2. /\ kind' = kind /\ view' = view /\ start' = start /\ purge' = purge
      /\ token' = token /\ limit' = limit /\ page' = page
      /\ truncated' = truncated /\ listed' = listed /\ blind' = blind
      /\ phase' = phase /\ batch' = batch /\ errors' = errors
      /\ UNCHANGED <<request, paging>>
      /\ changes' = changes + 1 /\ changes < MaxChanges
  BY DEF PutName, RemoveName, request, paging
<1>3. /\ stayed' \subseteq stayed /\ stayed' \subseteq present'
      /\ present' \subseteq Names /\ put' \subseteq Names /\ put \subseteq put'
      /\ present' \subseteq stayed' \cup put'
      /\ present' \subseteq present \cup put'
  <2>1. CASE PutName
    BY <1>1, <2>1 DEF PutName, PurgeInv
  <2>2. CASE RemoveName
    BY <1>1, <2>2 DEF RemoveName, PurgeInv
  <2> QED BY <2>1, <2>2
<1>4. TypeInv'
  <2>1. changes' \in 0..MaxChanges
    BY <1>1, <1>2, ListingBounds
  <2> QED BY <1>1, <1>2, <1>3, <2>1 DEF TypeInv, TypeOK
<1>5. ModeInv'
  BY <1>1, <1>2 DEF ModeInv
<1>6. PageInv' /\ ListedInv' /\ CoverInv'
  BY <1>2, <1>3, ClientWaits
<1>7. PurgeInv'
  BY <1>1, <1>2, <1>3 DEF PurgeInv
<1> QED BY <1>4, <1>5, <1>6, <1>7 DEF ListingInv

LEMMA UploadClosedKeeps ==
  ASSUME ListingInv, UploadClosed
  PROVE  ListingInv'
<1>1. /\ TypeInv /\ TypeOK /\ ModeInv /\ PurgeInv /\ phase = "idle"
  BY DEF ListingInv, TypeInv, UploadClosed
<1>2. /\ present' = present /\ changes' = changes /\ put' = put
      /\ kind' = kind /\ view' = view /\ start' = start /\ purge' = purge
      /\ token' = token /\ limit' = limit /\ page' = page
      /\ truncated' = truncated /\ listed' = listed /\ blind' = blind
      /\ phase' = "refused" /\ batch' = batch /\ errors' = errors
      /\ stayed' = stayed /\ UNCHANGED <<request, paging>>
  BY DEF UploadClosed, request, paging
<1>3. TypeInv' /\ ModeInv' /\ PurgeInv'
  BY <1>1, <1>2 DEF TypeInv, TypeOK, ModeInv, PurgeInv
<1>4. PageInv' /\ ListedInv' /\ CoverInv'
  BY <1>2, ClientWaits
<1> QED BY <1>3, <1>4 DEF ListingInv

LEMMA ListingInit ==
  ASSUME Init
  PROVE  ListingInv
<1>1. /\ present \subseteq Names /\ changes = 0 /\ view \in Views
      /\ kind \in {"objects", "uploads", "parts"} /\ start \in Starts
      /\ (kind # "objects" => view.groups = {})
      /\ purge \in BOOLEAN /\ (purge => kind = "objects" /\ view.groups = {})
      /\ token = 0 /\ limit = 0 /\ phase = "idle"
      /\ page = [cursor |-> 0, items |-> <<>>] /\ truncated = FALSE
      /\ listed = <<>> /\ batch = <<>> /\ errors = {}
      /\ stayed = present /\ put = {} /\ blind = {}
  BY DEF Init, PageFrom
<1>2. /\ \A S : <<>> \in Seq(S)
      /\ Len(<<>>) = 0 /\ DOMAIN <<>> = {}
  BY EmptySeq
<1>3. TypeInv
  <2>1. 0 \in 0..NumNames /\ 0 \in 0..PageCap /\ 0 \in 0..MaxChanges /\ 0 <= MaxDelete
    <3>1. NumNames \in Nat /\ PageCap \in Nat /\ MaxChanges \in Nat /\ MaxDelete \in Nat
      BY ListingBounds
    <3> QED BY <3>1
  <2>2. listed \in Seq(Item) /\ batch \in Seq(0..NumNames)
        /\ page \in [cursor : 0..NumNames, items : Seq(Item)]
    <3>1. <<>> \in Seq(Item) /\ <<>> \in Seq(0..NumNames) BY <1>2
    <3> DEFINE e == <<>>
    <3>2. e \in Seq(Item) BY <3>1
    <3>3. page = [cursor |-> 0, items |-> e] BY <1>1
    <3> HIDE DEF e
    <3>4. page \in [cursor : 0..NumNames, items : Seq(Item)] BY <2>1, <3>2, <3>3
    <3>5. listed \in Seq(Item) /\ batch \in Seq(0..NumNames)
      <4>1. listed = <<>> /\ batch = <<>> BY <1>1
      <4> QED BY <3>1, <4>1, Zenon
    <3> QED BY <3>4, <3>5
  <2>3. /\ page.cursor \in 0..NumNames /\ Len(page.items) <= limit
        /\ Len(batch) <= MaxDelete
        /\ \A i \in DOMAIN listed : listed[i].at \in Names
        /\ \A i \in DOMAIN batch : batch[i] \in 0..NumNames
    <3>1. page.cursor = 0 /\ page.items = <<>> /\ limit = 0 /\ 0 <= 0 BY <1>1
    <3>2. Len(page.items) <= limit BY <1>2, <3>1, Zenon
    <3>3. listed = <<>> /\ batch = <<>> BY <1>1
    <3>4. Len(batch) = 0 /\ DOMAIN batch = {} /\ DOMAIN listed = {}
      BY <1>2, <3>3, Zenon
    <3> QED BY <2>1, <3>1, <3>2, <3>4
  <2>4. TypeOK
    <3>1. /\ present \subseteq Names /\ stayed \subseteq present
          /\ errors = {} /\ put = {} /\ blind = {}
      BY <1>1
    <3>2. /\ changes \in 0..MaxChanges /\ token \in 0..NumNames
          /\ limit \in 0..PageCap
      BY <1>1, <2>1
    <3> QED BY <1>1, <2>3, <3>1, <3>2, Zenon DEF TypeOK
  <2> QED BY <2>2, <2>4 DEF TypeInv
<1>4. After = start
  BY <1>1 DEF After
<1>5. ASSUME NEW n \in stayed PROVE ~(Due(n) /\ ItemOf(n).at <= After)
  <2>1. n \in Names BY <1>1
  <2>2. ItemOf(n).at \in Nat
    <3>1. ItemOf(n) \in Item BY <1>1, <2>1, ItemOfFacts
    <3> QED BY <3>1 DEF Item, Names
  <2>3. start \in Nat BY <1>1, ListingBounds
  <2> QED BY <1>4, <2>2, <2>3 DEF Due
<1>6. CoverInv
  BY <1>1, <1>5 DEF CoverInv
<1>7. ListedInv /\ PurgeInv
  BY <1>1, <1>2 DEF ListedInv, PurgeInv, Rising, AllUpto
<1> QED BY <1>1, <1>3, <1>6, <1>7 DEF ListingInv, ModeInv, PageInv

(***************************************************************************)
(* The theorems.                                                           *)
(***************************************************************************)

LEMMA CappedSize ==
  ASSUME NEW n \in Nat
  PROVE  Capped(n) \in 0..PageCap
BY ListingBounds DEF Capped

LEMMA ListingStep ==
  ListingInv /\ [Next]_vars => ListingInv'
<1> SUFFICES ASSUME ListingInv, [Next]_vars PROVE ListingInv'
  OBVIOUS
<1>1. CASE \E n \in Asked : Ask(n)
  <2>1. PICK n \in Asked : AskObjects(Capped(n)) \/ AskMultipart(Capped(n))
    BY <1>1 DEF Ask
  <2>2. Capped(n) \in 0..PageCap
    <3>1. n \in Nat BY ListingBounds
    <3> QED BY <3>1, CappedSize
  <2> QED BY <2>1, <2>2, AskObjectsKeeps, AskMultipartKeeps
<1>2. CASE BuildPage
  BY <1>2, BuildPageKeeps
<1>3. CASE DeleteKey
  BY <1>3, DeleteKeyKeeps
<1>4. CASE UploadClosed
  BY <1>4, UploadClosedKeeps
<1>5. CASE PutName \/ RemoveName
  BY <1>5, OthersKeep
<1>6. CASE UNCHANGED vars
  <2>1. /\ present' = present /\ changes' = changes /\ put' = put
        /\ kind' = kind /\ view' = view /\ start' = start /\ purge' = purge
        /\ token' = token /\ limit' = limit /\ page' = page
        /\ truncated' = truncated /\ listed' = listed /\ blind' = blind
        /\ phase' = phase /\ batch' = batch /\ errors' = errors
        /\ stayed' = stayed /\ UNCHANGED <<request, paging>>
    BY <1>6 DEF vars, request, paging
  <2>2. TypeInv' /\ ModeInv' /\ PurgeInv'
    BY <2>1 DEF ListingInv, TypeInv, TypeOK, ModeInv, PurgeInv
  <2>3. PageInv' /\ ListedInv' /\ CoverInv'
    BY <2>1, ClientWaits
  <2> QED BY <2>2, <2>3 DEF ListingInv
<1> QED BY <1>1, <1>2, <1>3, <1>4, <1>5, <1>6 DEF Next, Done

LEMMA ListingInvariant ==
  Spec => []ListingInv
<1>1. Init => ListingInv
  BY ListingInit
<1> QED BY <1>1, ListingStep, PTL DEF Spec

\* The variables of a listing keep their types, and no page and no request to
\* DeleteObjects is larger than the code allows.
THEOREM ListingTypeCorrect ==
  Spec => []TypeOK
<1>1. ListingInv => TypeOK
  BY DEF ListingInv, TypeInv
<1> QED BY <1>1, ListingInvariant, PTL

\* Over all pages a client gets every key and every common prefix once, in
\* order, however the names change between pages and between the queries of
\* one page.
THEOREM NothingIsListedTwice ==
  Spec => []EachListedOnce
<1>1. ListingInv => EachListedOnce
  BY DEF ListingInv, ListedInv, Rising, EachListedOnce
<1> QED BY <1>1, ListingInvariant, PTL

\* A listing that came to its end has every name that existed all the time,
\* or its common prefix.
THEOREM ListingsMissNothing ==
  Spec => []NothingMissed
<1>1. ListingInv => NothingMissed
  BY DEF ListingInv, CoverInv, Due, Has, NothingMissed
<1> QED BY <1>1, ListingInvariant, PTL

\* A client that deletes what it lists leaves only names that were put
\* meanwhile or that DeleteObjects reported.
THEOREM PurgesAreComplete ==
  Spec => []PurgeLeavesNothing
<1>1. ListingInv => PurgeLeavesNothing
  <2> SUFFICES ASSUME ListingInv, phase = "done", purge,
                      NEW n \in present, view.lo <= n, n <= view.hi, n > start
               PROVE  n \in put \cup errors
    BY DEF PurgeLeavesNothing
  <2>1. /\ TypeOK /\ ModeInv /\ CoverInv /\ PurgeInv
    BY DEF ListingInv, TypeInv
  <2>2. view.groups = {} /\ blind = {} /\ batch = <<>>
    BY <2>1 DEF ModeInv
  <2> SUFFICES ASSUME n \notin put PROVE n \in errors
    OBVIOUS
  <2>3. n \in stayed BY <2>1 DEF PurgeInv
  <2>4. ItemOf(n) = Entry(n) /\ Entry(n).at = n
    BY <2>2 DEF ItemOf, Groups, Entry
  <2>5. PICK i \in DOMAIN listed : listed[i] = Entry(n)
    BY <2>1, <2>2, <2>3, <2>4 DEF CoverInv, Due, Has
  <2>6. DOMAIN batch = {} BY <2>2
  <2>7. listed[i].at = n BY <2>4, <2>5
  <2> QED BY <2>1, <2>5, <2>6, <2>7 DEF PurgeInv
<1> QED BY <1>1, ListingInvariant, PTL
=============================================================================
